--------------------------- MODULE CappRevisions ---------------------------
(***************************************************************************)
(* The CappRevision controller: every change of a Capp is recorded as a    *)
(* CappRevision, and only RevisionHistoryLimit of them are kept.           *)
(*                                                                         *)
(* One Capp name in one namespace.  The controller reads through informer  *)
(* caches that lag the API server and writes to the API server directly,   *)
(* one API call per step.  The Capp may be deleted and created again under *)
(* the same name (a new uid); the garbage collector removes the revisions  *)
(* of a dead uid in its own time.                                          *)
(***************************************************************************)
EXTENDS Naturals, Sequences, FiniteSets

CONSTANTS
    Data,        \* what a revision records: spec, labels and annotations
    Limits,      \* values CappConfig.spec.revisionHistoryLimit may take
    SameSecond,  \* may two revisions carry the same creationTimestamp?
    MayRevert,   \* may a user write a value the Capp already had?
    ListLimit,   \* ClientListLimit: a list returns at most so many revisions
    None,        \* no Capp
    MaxUid,      \* bound: lives of the Capp
    MaxMoves,    \* bound: steps of users, admins and the Capp controller
    MaxFaults    \* bound: failed API calls and restarts of the operator

ASSUME BoundsAssumption ==
    /\ MaxUid \in Nat \ {0} /\ MaxMoves \in Nat /\ MaxFaults \in Nat
    /\ SameSecond \in BOOLEAN /\ MayRevert \in BOOLEAN
    /\ ListLimit \in Nat \ {0}

\* kubebuilder:validation:Minimum=1 on revisionHistoryLimit.
ASSUME LimitsAssumption == Limits \subseteq Nat \ {0} /\ Limits # {}

VARIABLES
    cappLog,     \* the Capp as the informer has it, and its later versions
    revLog,      \* the CappRevisions the same way
    lastUid,     \* uid of the latest life of the Capp
    written,     \* data the users have written so far
    limit,       \* CappConfig.spec.revisionHistoryLimit
    clock,       \* creationTimestamp of the latest revision
    queued,      \* the Capp's key is in the work queue
    pc,          \* where Reconcile is
    snap,        \* the Capp Reconcile works on
    num,         \* the number of the revision to create; 0: there is none
    todo,        \* revisions Reconcile still has to delete
    moves, faults

\* An informer applies the events of its watch one by one and in order: its
\* cache is the oldest version of the log, the API server holds the newest.
cappCache == cappLog[1]
capp == cappLog[Len(cappLog)]
revCache == revLog[1]
revs == revLog[Len(revLog)]

userVars == <<cappLog, lastUid, written, limit>>
revVars == <<revLog, clock>>
workVars == <<pc, snap, num, todo>>
vars == <<userVars, revVars, queued, workVars, moves, faults>>

Writers == {"user", "operator"}

\* A Capp: by is its annotation rcs.dana.io/last-updated-by, fin the finalizer
\* of the Capp controller.
Capp == [uid : 1..MaxUid, data : Data, by : Writers, fin : BOOLEAN, deleting : BOOLEAN]

ASSUME NoneAssumption == None \notin Capp

\* A CappRevision: its name is the Capp's name and its number, its owner
\* reference is the uid of a Capp (0: there is none).
Revision == [num : Nat \ {0}, uid : 0..MaxUid, data : Data, by : Writers, time : Nat]

Init ==
    /\ cappLog = <<None>> /\ lastUid = 0 /\ written = {} /\ limit \in Limits
    /\ revLog = <<{}>> /\ clock = 0
    /\ queued = FALSE
    /\ pc = "idle" /\ snap = None /\ num = 0 /\ todo = {}
    /\ moves = 0 /\ faults = 0

----------------------------------------------------------------------------
(* The algorithm of HandleCappUpdate.                                      *)

\* Mutant: the last-updated-by annotation is not ignored.
isEqual_Strict(c, r) == c.data = r.data /\ c.by = r.by

\* isEqual: everything but the last-updated-by annotation is compared.
isEqual(c, r) == c.data = r.data

\* The revisions sortByCreationTime may put first: it compares timestamps of
\* one-second resolution, and the list comes in no particular order.
Newest(R) == {r \in R : \A s \in R : s.time <= r.time}

\* Mutant: the oldest revisions are kept.
Split_Oldest(R, latest, n) ==
    {keep \in SUBSET R :
        /\ Cardinality(keep) = n
        /\ \A r \in keep, s \in R \ keep : r.time <= s.time}

\* splitRevisionsAtIndex(sorted, n): the first n of an order that
\* sortByCreationTime may produce, and starts with latest.
Split(R, latest, n) ==
    {keep \in SUBSET R :
        /\ Cardinality(keep) = n
        /\ n > 0 => latest \in keep
        /\ \A r \in keep, s \in R \ keep : s.time <= r.time}

Numbers(R) == {r.num : r \in R}

\* Mutant: numOfRevisions <= revisionsToKeep.
HasRoom_OffByOne(list) == Cardinality(list) <= limit

\* numOfRevisions < revisionsToKeep
HasRoom(list) == Cardinality(list) < limit

\* Mutant: revisions are numbered by how many there are.
NumberAfter_Count(latest, keep) == Cardinality(keep)

\* relevantRevision[0].Spec.RevisionNumber + 1; relevantRevision[0] is an index
\* out of range when nothing was kept.
NumberAfter(latest, keep) == IF keep = {} THEN 0 ELSE latest.num + 1

\* Mutant: SetOwnerReference is forgotten.
NewRevision_Unowned(c, n, t) ==
    [num |-> n, uid |-> 0, data |-> c.data, by |-> c.by, time |-> t]

\* The object CreateCappRevision builds, and the API server stamps.
NewRevision(c, n, t) ==
    [num |-> n, uid |-> c.uid, data |-> c.data, by |-> c.by, time |-> t]

----------------------------------------------------------------------------
(* Reconcile                                                               *)

Finish(again) ==
    /\ pc' = "idle" /\ snap' = None /\ num' = 0 /\ todo' = {}
    /\ queued' = again

\* Mutant: a failed reconciliation is not tried again.
Retry_Dropped == Finish(FALSE)

\* Reconcile returns an error, or RequeueAfter for a conflict or AlreadyExists.
Retry == Finish(TRUE)

\* GetCappRevisions: the cache holds no order, so a list cut off at ListLimit
\* may leave out any of the revisions.
GetCappRevisions ==
    {list \in SUBSET revCache :
        \/ list = revCache /\ Cardinality(revCache) <= ListLimit
        \/ Cardinality(list) = ListLimit}

Active(c) == c # None /\ ~c.deleting

\* Reconcile goes on to delete or to create a revision.
Begin(step, n, doomed) ==
    /\ pc' = step /\ num' = n /\ todo' = doomed
    /\ snap' = cappCache /\ queued' = FALSE

\* Mutant: revisions are numbered from 0.
HandleCappCreation_Zero == Begin("create", 0, {})

HandleCappCreation == Begin("create", 1, {})

\* HandleCappUpdate up to its first write.
HandleCappUpdate(list) ==
    \E latest \in Newest(list) :
        \/ isEqual(cappCache, latest) /\ Finish(FALSE)
        \/ /\ ~isEqual(cappCache, latest) /\ HasRoom(list)
           /\ Begin("create", latest.num + 1, {})
        \/ /\ ~isEqual(cappCache, latest) /\ ~HasRoom(list)
           /\ \E keep \in Split(list, latest, limit - 1) :
                 Begin("delete", NumberAfter(latest, keep), list \ keep)

\* Get of the Capp, GetCappRevisions and GetCappConfig read the caches; the
\* reads of one Reconcile up to its first write are one step.
Reconcile ==
    /\ pc = "idle" /\ queued
    /\ \/ ~Active(cappCache) /\ Finish(FALSE)
       \/ /\ Active(cappCache)
          /\ \E list \in GetCappRevisions :
                \/ list = {} /\ HandleCappCreation
                \/ list # {} /\ HandleCappUpdate(list)
    /\ UNCHANGED <<userVars, revVars, moves, faults>>

\* The API server's answer to a call that took effect, which may get lost.
Answered(done) ==
    \/ done /\ UNCHANGED faults
    \/ faults < MaxFaults /\ faults' = faults + 1 /\ Retry

\* DeleteCappRevision, for the next revision of revisionsToDelete, by name.  A
\* revision that is gone already is an error, and Reconcile is tried again.
DeleteCappRevision ==
    /\ pc = "delete" /\ todo # {}
    /\ \E r \in Newest(todo) :
          \/ /\ r.num \in Numbers(revs)
             /\ revLog' = Append(revLog, {s \in revs : s.num # r.num})
             /\ Answered(todo' = todo \ {r} /\ UNCHANGED <<pc, snap, num, queued>>)
          \/ /\ r.num \notin Numbers(revs)
             /\ Retry /\ UNCHANGED <<revLog, faults>>
    /\ UNCHANGED <<userVars, clock, moves>>

\* relevantRevision[0]: an index out of range when nothing was kept.  The
\* panic is recovered by the controller runtime and Reconcile is tried again.
NextNumber ==
    /\ pc = "delete" /\ todo = {}
    /\ \/ num > 0 /\ pc' = "create" /\ UNCHANGED <<snap, num, todo, queued>>
       \/ num = 0 /\ Retry
    /\ UNCHANGED <<userVars, revVars, moves, faults>>

\* The second a new revision is stamped with.
Stamps == {clock + 1} \cup (IF SameSecond /\ clock > 0 THEN {clock} ELSE {})

\* CreateCappRevision.  AlreadyExists is requeued.
CreateCappRevision ==
    /\ pc = "create"
    /\ \/ /\ num \notin Numbers(revs)
          /\ \E t \in Stamps :
                /\ clock' = t
                /\ revLog' = Append(revLog, revs \cup {NewRevision(snap, num, t)})
          /\ Answered(Finish(queued))
       \/ /\ num \in Numbers(revs)
          /\ Retry /\ UNCHANGED <<revVars, faults>>
    /\ UNCHANGED <<userVars, moves>>

\* An API call of Reconcile fails and nothing happens: the error is returned and retried.
CallFails ==
    /\ pc \in {"delete", "create"} /\ faults < MaxFaults
    /\ faults' = faults + 1
    /\ Retry
    /\ UNCHANGED <<userVars, revVars, moves>>

\* The operator restarts: the caches are listed anew and every Capp is queued.
Restart ==
    /\ faults < MaxFaults
    /\ faults' = faults + 1
    /\ cappLog' = <<capp>> /\ revLog' = <<revs>>
    /\ Finish(capp # None)
    /\ UNCHANGED <<lastUid, written, limit, clock, moves>>

----------------------------------------------------------------------------
(* Informers                                                               *)

\* Create, delete, and an update that changes generation, annotations or
\* labels pass the predicates of SetupWithManager; there is no other kind.
DeliverCapp ==
    /\ Len(cappLog) > 1
    /\ cappLog' = Tail(cappLog)
    /\ queued' = TRUE
    /\ UNCHANGED <<lastUid, written, limit, revVars, workVars, moves, faults>>

\* Revisions are cached but not watched: their events queue nothing.
DeliverRevisions ==
    /\ Len(revLog) > 1
    /\ revLog' = Tail(revLog)
    /\ UNCHANGED <<userVars, clock, queued, workVars, moves, faults>>

----------------------------------------------------------------------------
(* Users, administrators, the Capp controller, the garbage collector       *)

WriteCapp(c) == cappLog' = Append(cappLog, c)

Move ==
    /\ moves < MaxMoves /\ moves' = moves + 1
    /\ UNCHANGED <<revVars, queued, workVars, faults>>

CreateCapp(d) ==
    /\ Move
    /\ capp = None /\ lastUid < MaxUid
    /\ lastUid' = lastUid + 1
    /\ WriteCapp([uid |-> lastUid + 1, data |-> d, by |-> "user",
                  fin |-> FALSE, deleting |-> FALSE])
    /\ written' = written \cup {d}
    /\ UNCHANGED limit

UpdateCapp(d) ==
    /\ Move
    /\ Active(capp) /\ capp.data # d
    /\ d \in written => MayRevert
    /\ WriteCapp([capp EXCEPT !.data = d, !.by = "user"])
    /\ written' = written \cup {d}
    /\ UNCHANGED <<lastUid, limit>>

\* With a finalizer on it the Capp stays until that is removed.
DeleteCapp ==
    /\ Move
    /\ Active(capp)
    /\ WriteCapp(IF capp.fin THEN [capp EXCEPT !.deleting = TRUE] ELSE None)
    /\ UNCHANGED <<lastUid, written, limit>>

SetLimit(n) ==
    /\ Move
    /\ limit # n
    /\ limit' = n
    /\ UNCHANGED <<cappLog, lastUid, written>>

NoMove ==
    UNCHANGED <<lastUid, written, limit, clock, queued, workVars, moves, faults>>

\* The Capp controller adds its finalizer: the mutating webhook stamps the
\* update with the operator's name.
ensureFinalizer ==
    /\ Active(capp) /\ ~capp.fin
    /\ WriteCapp([capp EXCEPT !.fin = TRUE, !.by = "operator"])
    /\ UNCHANGED revLog /\ NoMove

\* The Capp controller removes its finalizer from a Capp that is being deleted.
removeFinalizer ==
    /\ capp # None /\ ~Active(capp)
    /\ WriteCapp(None)
    /\ UNCHANGED revLog /\ NoMove

Alive(r) == capp # None /\ capp.uid = r.uid

\* The owner reference of the revision names a uid that is gone.
Collect(r) ==
    /\ r.uid # 0 /\ ~Alive(r)
    /\ revLog' = Append(revLog, revs \ {r})
    /\ UNCHANGED cappLog /\ NoMove

Controller ==
    Reconcile \/ DeleteCappRevision \/ NextNumber \/ CreateCappRevision

Next ==
    \/ Controller \/ CallFails \/ Restart
    \/ DeliverCapp \/ DeliverRevisions
    \/ \E d \in Data : CreateCapp(d) \/ UpdateCapp(d)
    \/ DeleteCapp \/ ensureFinalizer \/ removeFinalizer
    \/ \E n \in Limits : SetLimit(n)
    \/ \E r \in revs : Collect(r)

Spec == Init /\ [][Next]_vars

\* The controller's worker, the informers, the Capp controller and the garbage
\* collector keep going; nobody has to change a Capp and nothing has to fail.
Fairness ==
    /\ WF_vars(Controller) /\ WF_vars(DeliverCapp) /\ WF_vars(DeliverRevisions)
    /\ WF_vars(ensureFinalizer) /\ WF_vars(removeFinalizer)
    /\ WF_vars(\E r \in revs : Collect(r))

FairSpec == Spec /\ Fairness

----------------------------------------------------------------------------
(* Properties                                                              *)

\* Type invariant of the state of the CappRevision controller.
TypeOK ==
    /\ cappLog \in Seq(Capp \cup {None}) /\ cappLog # <<>>
    /\ revLog \in Seq(SUBSET Revision) /\ revLog # <<>>
    /\ lastUid \in 0..MaxUid /\ written \subseteq Data
    /\ limit \in Limits /\ clock \in Nat
    /\ queued \in BOOLEAN /\ pc \in {"idle", "delete", "create"}
    /\ snap \in Capp \cup {None} /\ (pc # "idle" => snap # None)
    /\ num \in Nat /\ (pc = "create" => num > 0) /\ todo \subseteq Revision
    /\ moves \in Nat /\ faults \in Nat

\* HandleCappUpdate's retention: however stale the list it worked from, a Capp
\* never has more CappRevisions than the largest limit configured.
RetentionBound ==
    capp # None => \E n \in Limits : Cardinality(revs) <= n

\* A revision records a change: as long as the Capp exists, a revision and the
\* one numbered just before it never hold the same data, although Reconcile runs
\* on stale lists, is retried after failures, and is triggered by updates that
\* only touch last-updated-by.
AdjacentRevisionsDiffer ==
    capp # None => \A r, s \in revs : s.num = r.num + 1 => s.data # r.data

\* CreateCappRevision only ever appends: as long as the Capp exists, a new
\* revision's number is greater than that of every CappRevision there is.
NumbersGrow ==
    [][capp # None => \A s \in revs' \ revs : \A r \in revs : r.num < s.num]_revLog

\* Retention removes old history, never the record of the Capp's current
\* state: only the garbage collector removes the highest-numbered revision.
LatestSurvives ==
    [][\A r \in revs \ revs' :
          Alive(r) => \E s \in revs' : s.num > r.num]_revLog

Recorded ==
    Active(capp) => \E r \in revs : /\ capp.data = r.data
                                    /\ \A s \in revs : s.num <= r.num

\* HandleCappUpdate "ensures that a CappRevision is created for every update":
\* once users stop, the highest-numbered revision holds what the Capp holds.
EventuallyRecorded == <>[]Recorded

\* The owner reference is all the cleanup there is ("there's no need to do
\* anything when a Capp is deleted"): in the end every revision belongs to the
\* Capp that exists, even if one was deleted while a revision of it was being
\* written.
OnlyOwnRevisions == <>[](\A r \in revs : Alive(r))

History ==
    INSTANCE RevisionHistory
        WITH alive <- capp # None,
             hist <- {[num |-> r.num, data |-> r.data] : r \in revs}

\* The CappRevision controller, with its stale lists, failures and restarts,
\* implements a log of changes with retention: every step is a revision recorded
\* under the next number, or an old one forgotten when there are enough.
ImplementsHistory == History!Spec
=============================================================================
