--------------------------- MODULE CappController ---------------------------
(***************************************************************************)
(* The Capp controller: Reconcile reads a Capp, the CappConfig and the     *)
(* children through informer caches, creates, updates and deletes children *)
(* one API call at a time, writes the Capp's status, and holds the Capp    *)
(* with a finalizer until its children are cleaned up.                     *)
(*                                                                         *)
(* One Capp name in one namespace.  Around the controller are the users of *)
(* the Capp, the administrator of the CappConfig, other clients that edit  *)
(* or delete children, the controllers that report the children's health,  *)
(* cert-manager, and the garbage collector.                                *)
(***************************************************************************)
EXTENDS CappStatus, Sequences

CONSTANTS
    Specs,        \* the specifications users write
    Configs,      \* the CappConfigs administrators write
    Legacy,       \* may there be a Capp whose children have no owner reference?
    Tampered,     \* kinds of children other clients edit
    Removed,      \* kinds of children other clients delete
    Broken,       \* kinds of children the API server refuses to write
    Reporting,    \* kinds of children that report their health
    Prompt,       \* the cache of the Capp is up to date whenever Reconcile starts
    MaxMoves,     \* bound: steps of users, administrators and other clients
    MaxFaults,    \* bound: failed API calls and restarts of the operator
    MaxLag        \* bound: versions of a Secret its informer may be behind

ASSUME InputsAssumption ==
    /\ Specs \subseteq CappSpec /\ Configs \subseteq CappConfig \cup {None}
    /\ Legacy \in BOOLEAN /\ Prompt \in BOOLEAN /\ MaxMoves \in Nat /\ MaxFaults \in Nat
    /\ MaxLag \in Nat \ {0}

VARIABLES
    cappLog,      \* the Capp as the informer has it, and its later versions
    cfgLog,       \* the CappConfig the same way
    objLog,       \* each child the same way
    lastUid,      \* uid of the latest life of the Capp
    queued,       \* the Capp's key is in the work queue
    pc,           \* where Reconcile is
    snap,         \* the Capp Reconcile works on
    config,       \* the CappConfig Reconcile works with
    todo,         \* children Reconcile has not come to yet
    errs,         \* some manager has failed in this Reconcile
    fresh,        \* the Capp has not been written since snap was
    moves, faults

\* An informer applies the events of its watch one by one and in order: its
\* cache is the oldest version of a log, the API server holds the newest.
capp == cappLog[Len(cappLog)]
cappCache == cappLog[1]
cfg == cfgLog[Len(cfgLog)]
cfgCache == cfgLog[1]
child(o) == objLog[o][Len(objLog[o])]
childCache(o) == objLog[o][1]

logVars == <<cappLog, cfgLog, objLog>>
workVars == <<pc, snap, config, todo, errs>>
vars == <<logVars, lastUid, queued, workVars, fresh, moves, faults>>

Capp ==
    [uid : 1..MaxUid, spec : Specs, fin : BOOLEAN, deleting : BOOLEAN,
     status : Status]

ASSUME NoCappAssumption == None \notin Capp

Active(c) == c # None /\ ~c.deleting
Alive(u) == capp # None /\ capp.uid = u

NewCapp(s, n) ==
    [uid |-> n, spec |-> s, fin |-> FALSE, deleting |-> FALSE, status |-> NoStatus]

EmptyInit ==
    /\ cappLog = <<None>> /\ lastUid = 0 /\ queued = FALSE
    /\ objLog = [o \in Objects |-> <<None>>]

\* A Capp of an earlier version of the operator: finalized, its children there
\* and without owner references.
LegacyInit(s) ==
    /\ cappLog = <<[NewCapp(s, 1) EXCEPT !.fin = TRUE]>> /\ lastUid = 1 /\ queued = TRUE
    /\ objLog = [o \in Objects |->
                    <<IF cfg # None /\ Desired(o, s, cfg)
                      THEN Created(Kind(o), prepareResource(Kind(o), s, cfg, FALSE), 0)
                      ELSE None>>]

Init ==
    /\ \E c \in Configs : cfgLog = <<c>>
    /\ \/ EmptyInit
       \/ Legacy /\ \E s \in Specs : LegacyInit(s)
    /\ pc = "idle" /\ snap = None /\ config = None /\ todo = {} /\ errs = FALSE
    /\ fresh = FALSE /\ moves = 0 /\ faults = 0

----------------------------------------------------------------------------
(* API calls                                                               *)

WriteCapp(c) == cappLog' = Append(cappLog, c) /\ fresh' = FALSE
WriteChild(o, v) == objLog' = [objLog EXCEPT ![o] = Append(@, v)]

\* A write the API server accepts, or that fails: the request or its answer is
\* lost, so the write may have happened.
Call(write, nowrite, done, failed) ==
    \/ write /\ done /\ UNCHANGED faults
    \/ /\ faults < MaxFaults /\ faults' = faults + 1
       /\ write \/ nowrite
       /\ failed

\* A write the API server refuses: conflict, AlreadyExists or NotFound.
Refused(nowrite, failed) == nowrite /\ failed /\ UNCHANGED faults

\* Admission denies every write of a broken kind.
CallChild(o, v, done, failed) ==
    \/ Kind(o) \in Broken /\ Refused(UNCHANGED objLog, failed)
    \/ /\ Kind(o) \notin Broken
       /\ Call(WriteChild(o, v), UNCHANGED objLog, done, failed)

----------------------------------------------------------------------------
(* Reconcile                                                               *)

\* Reconcile returns; again: with an error or RequeueAfter.
Finish(again) ==
    /\ pc' = "idle" /\ snap' = None /\ config' = None /\ todo' = {} /\ errs' = FALSE
    /\ queued' = (queued \/ again)

\* Mutant: the CappConfig is read a second time, past the check.
Begin_Reread(step) ==
    /\ pc' = step /\ snap' = cappCache /\ config' = cfg
    /\ todo' = ManagedObjects /\ errs' = FALSE /\ queued' = FALSE

\* Reconcile goes on to its managers.
Begin(step) ==
    /\ pc' = step /\ snap' = cappCache /\ config' = cfgCache
    /\ todo' = ManagedObjects /\ errs' = FALSE /\ queued' = FALSE

\* Reconcile ends in the step it starts in.
Return(again) ==
    /\ queued' = again
    /\ UNCHANGED <<workVars, logVars, fresh, faults>>

\* Mutant: the update carries no resourceVersion.
ensureFinalizer_Blind ==
    /\ ~cappCache.fin /\ capp # None
    /\ WriteCapp([cappCache EXCEPT !.fin = TRUE]) /\ Begin("manage") /\ UNCHANGED faults

\* Mutant: Reconcile goes on without the finalizer.
ensureFinalizer_Skipped ==
    /\ ~cappCache.fin
    /\ Begin("manage") /\ UNCHANGED <<cappLog, fresh, faults>>

\* The Capp is updated from the cache with a finalizer added.
ensureFinalizer ==
    /\ ~cappCache.fin
    /\ \/ /\ Len(cappLog) = 1
          /\ Call(WriteCapp([cappCache EXCEPT !.fin = TRUE]), UNCHANGED <<cappLog, fresh>>,
                  Begin("manage"), queued' = TRUE /\ UNCHANGED workVars)
       \/ /\ Len(cappLog) > 1
          /\ Refused(UNCHANGED <<cappLog, fresh>>, queued' = TRUE /\ UNCHANGED workVars)

\* The reads of Reconcile and its first write.
Reconcile ==
    /\ pc = "idle" /\ queued
    /\ Prompt => Len(cappLog) = 1
    /\ \/ cappCache = None /\ Return(FALSE)
       \/ cappCache # None /\ cfgCache = None /\ Return(TRUE)
       \/ /\ cappCache # None /\ cfgCache # None
          /\ UNCHANGED <<cfgLog, objLog>>
          /\ \/ /\ cappCache.deleting /\ Begin("finalize")
                /\ fresh' = (Len(cappLog) = 1) /\ UNCHANGED <<cappLog, faults>>
             \/ /\ ~cappCache.deleting /\ cappCache.fin /\ Begin("manage")
                /\ UNCHANGED <<cappLog, fresh, faults>>
             \/ ~cappCache.deleting /\ ensureFinalizer
    /\ UNCHANGED <<lastUid, moves>>

----------------------------------------------------------------------------
(* One child of one manager                                                *)

\* Managers run in the order of their ranks, and backward when a Capp is
\* finalized; a manager comes to the children it prepares before the others,
\* and to a TLS Secret right after its DomainMapping.
Turn(o) ==
    /\ o \in todo
    /\ \A p \in todo :
          \/ IF pc = "manage" THEN Rank[Kind(o)] < Rank[Kind(p)]
                              ELSE Rank[Kind(p)] < Rank[Kind(o)]
          \/ /\ Rank[Kind(o)] = Rank[Kind(p)]
             /\ Kind(p) = "Secret" => Kind(o) = "Secret"
             /\ pc = "manage" /\ Desired(p, snap.spec, config)
                   => Desired(o, snap.spec, config)

\* The manager is done with the child, and has more to do.
Done(o, more) ==
    /\ todo' = (todo \ {o}) \cup more
    /\ UNCHANGED <<pc, snap, config, errs, queued>>

\* Mutant: a manager that fails keeps the others from their turn.
Failed_Stops(o) == Finish(TRUE)

\* Mutant: a Capp that could not be finalized is forgotten.
Failed_Forgets(o) == Finish(FALSE)

\* Manage returns an error: SyncApplication notes it and goes on to the next
\* manager.  CleanUp returns an error: finalizeCapp gives up.
Failed(o) ==
    IF pc = "manage"
    THEN /\ todo' = {p \in todo : Rank[Kind(p)] # Rank[Kind(o)]}
         /\ errs' = TRUE
         /\ UNCHANGED <<pc, snap, config, queued>>
    ELSE Finish(TRUE)

SecretSeen(o) == Kind(o) = "DomainMapping" /\ childCache(SecretOf(o)) # None

createOrUpdate(o) ==
    LET want == prepareResource(Kind(o), snap.spec, config, SecretSeen(o))
        cur == childCache(o)
        new == Updated(Kind(o), cur, want, snap.uid)
    IN  \/ /\ cur = None /\ child(o) = None
           /\ CallChild(o, Created(Kind(o), want, snap.uid), Done(o, {}), Failed(o))
        \/ /\ cur = None /\ child(o) # None
           /\ Refused(UNCHANGED objLog, Failed(o))
        \/ /\ cur # None /\ ~NeedsUpdate(Kind(o), cur, new)
           /\ Done(o, {}) /\ UNCHANGED <<objLog, faults>>
        \/ /\ cur # None /\ NeedsUpdate(Kind(o), cur, new) /\ Len(objLog[o]) = 1
           /\ CallChild(o, new, Done(o, {}), Failed(o))
        \/ /\ cur # None /\ NeedsUpdate(Kind(o), cur, new) /\ Len(objLog[o]) > 1
           /\ Refused(UNCHANGED objLog, Failed(o))

\* Delete by name; NotFound is ignored, but not for the TLS Secret.
DeleteResource(o, more) ==
    \/ /\ child(o) # None
       /\ CallChild(o, None, Done(o, more), Failed(o))
    \/ /\ child(o) = None
       /\ Refused(UNCHANGED objLog,
                  IF Kind(o) = "Secret" THEN Failed(o) ELSE Done(o, more))

\* The TLS Secret that CleanUp of a DomainMapping goes on to.
Secrets(o) == IF Kind(o) = "DomainMapping" THEN {SecretOf(o)} ELSE {}

\* Mutant: children of a Capp that is being deleted are all left to the
\* garbage collector.
LeftToCollector_All(o) == snap.deleting /\ Kind(o) # "Secret"

\* HasOwnerReference: what the Capp owns goes with it.
LeftToCollector(o) ==
    snap.deleting /\ Kind(o) # "Secret" /\ childCache(o).uid # 0

\* CleanUp, cleanUpOrphans and deleteOwnedResources for one child.
CleanUp(o) ==
    \/ /\ childCache(o) = None
       /\ Done(o, {}) /\ UNCHANGED <<objLog, faults>>
    \/ /\ childCache(o) # None
       /\ \/ /\ LeftToCollector(o)
             /\ Done(o, Secrets(o)) /\ UNCHANGED <<objLog, faults>>
          \/ ~LeftToCollector(o) /\ DeleteResource(o, Secrets(o))

NotWritten == UNCHANGED <<cfgLog, lastUid, moves>>

\* Manage, for one child.
Manage(o) ==
    /\ pc = "manage" /\ Turn(o)
    /\ \/ Desired(o, snap.spec, config) /\ createOrUpdate(o)
       \/ Unwanted(o, snap.spec, config) /\ CleanUp(o)
       \/ /\ ~Desired(o, snap.spec, config) /\ ~Unwanted(o, snap.spec, config)
          /\ Done(o, {}) /\ UNCHANGED <<objLog, faults>>
    /\ UNCHANGED <<cappLog, fresh>> /\ NotWritten

\* finalizeCapp, for one child.
finalizeCapp(o) ==
    /\ pc = "finalize" /\ Turn(o)
    /\ CleanUp(o)
    /\ UNCHANGED <<cappLog, fresh>> /\ NotWritten

\* The update removes the last finalizer, and with it the Capp.
removeFinalizer ==
    /\ pc = "finalize" /\ todo = {}
    /\ \/ fresh /\ Call(WriteCapp(None), UNCHANGED <<cappLog, fresh>>,
                        Finish(FALSE), Finish(TRUE))
       \/ ~fresh /\ Refused(UNCHANGED <<cappLog, fresh>>, Finish(TRUE))
    /\ UNCHANGED objLog /\ NotWritten

\* SyncStatus: the Capp is read again, and its status written if it changed.
SyncStatus ==
    /\ pc = "manage" /\ todo = {}
    /\ \/ cappCache = None /\ Refused(UNCHANGED <<cappLog, fresh>>, Finish(TRUE))
       \/ /\ cappCache # None
          /\ LET status == BuildStatus([o \in Objects |-> childCache(o)],
                                       snap.spec, config, errs)
             IN  \/ /\ status = cappCache.status
                    /\ Finish(errs) /\ UNCHANGED <<cappLog, fresh, faults>>
                 \/ /\ status # cappCache.status /\ Len(cappLog) = 1
                    /\ Call(WriteCapp([cappCache EXCEPT !.status = status]),
                            UNCHANGED <<cappLog, fresh>>, Finish(errs), Finish(TRUE))
                 \/ /\ status # cappCache.status /\ Len(cappLog) > 1
                    /\ Refused(UNCHANGED <<cappLog, fresh>>, Finish(TRUE))
    /\ UNCHANGED objLog /\ NotWritten

\* The operator restarts: the caches are listed anew and every Capp is queued.
Restart ==
    /\ faults < MaxFaults /\ faults' = faults + 1
    /\ cappLog' = <<capp>> /\ cfgLog' = <<cfg>>
    /\ objLog' = [o \in Objects |-> <<child(o)>>]
    /\ pc' = "idle" /\ snap' = None /\ config' = None /\ todo' = {} /\ errs' = FALSE
    /\ queued' = TRUE
    /\ UNCHANGED <<lastUid, fresh, moves>>

Worker ==
    \/ Reconcile \/ removeFinalizer \/ SyncStatus
    \/ \E o \in Objects : Manage(o) \/ finalizeCapp(o)

----------------------------------------------------------------------------
(* Informers                                                               *)

Undisturbed == UNCHANGED <<lastUid, workVars, fresh, moves, faults>>

\* Mutant: only a new specification counts.
CappEnqueues_SpecOnly(old, new) ==
    old = None \/ new = None \/ old.spec # new.spec

\* Predicates of For(Capp): generation, annotations or labels changed.  A
\* status update changes none of them; the mutating webhook stamps the
\* annotation last-updated-by on the update that adds the finalizer.
CappEnqueues(old, new) ==
    \/ old = None
    \/ new = None
    \/ [old EXCEPT !.status = NoStatus] # [new EXCEPT !.status = NoStatus]

DeliverCapp ==
    /\ Len(cappLog) > 1
    /\ cappLog' = Tail(cappLog)
    /\ queued' = (queued \/ CappEnqueues(cappLog[1], cappLog[2]))
    /\ UNCHANGED <<cfgLog, objLog>> /\ Undisturbed

\* Mutant: the CappConfig is not watched.
DeliverConfig_Ignored ==
    /\ Len(cfgLog) > 1
    /\ cfgLog' = Tail(cfgLog)
    /\ UNCHANGED <<cappLog, objLog, queued>> /\ Undisturbed

\* findCappsForCappConfig lists the Capps in the cache.
DeliverConfig ==
    /\ Len(cfgLog) > 1
    /\ cfgLog' = Tail(cfgLog)
    /\ queued' = (queued \/ cappCache # None)
    /\ UNCHANGED <<cappLog, objLog>> /\ Undisturbed

\* findCappFromEvent and findCappFromLabels map a child to its Capp.
DeliverChild(o) ==
    /\ Len(objLog[o]) > 1
    /\ objLog' = [objLog EXCEPT ![o] = Tail(@)]
    /\ queued' = (queued \/ Enqueues(Kind(o), objLog[o][1], objLog[o][2]))
    /\ UNCHANGED <<cappLog, cfgLog>> /\ Undisturbed

----------------------------------------------------------------------------
(* Everyone else                                                           *)

Move ==
    /\ moves < MaxMoves /\ moves' = moves + 1
    /\ UNCHANGED <<queued, workVars, faults>>

\* Handle of CappMutator and of CappValidator: nothing is admitted without a
\* CappConfig, a hostname stays once it is set, and anything goes for a Capp that
\* is being deleted.  Specs are otherwise valid.
Admits(old, s) ==
    \/ old # None /\ old.deleting
    \/ /\ cfgCache # None
       /\ old # None /\ old.spec.hostname => s.hostname

CreateCapp(s) ==
    /\ Move
    /\ capp = None /\ lastUid < MaxUid
    /\ Admits(None, s)
    /\ lastUid' = lastUid + 1
    /\ WriteCapp(NewCapp(s, lastUid + 1))
    /\ UNCHANGED <<cfgLog, objLog>>

UpdateCapp(s) ==
    /\ Move
    /\ capp # None /\ capp.spec # s
    /\ Admits(capp, s)
    /\ WriteCapp([capp EXCEPT !.spec = s])
    /\ UNCHANGED <<cfgLog, objLog, lastUid>>

\* With a finalizer on it the Capp stays until that is removed.
DeleteCapp ==
    /\ Move
    /\ Active(capp)
    /\ WriteCapp(IF capp.fin THEN [capp EXCEPT !.deleting = TRUE] ELSE None)
    /\ UNCHANGED <<cfgLog, objLog, lastUid>>

SetConfig(c) ==
    /\ Move
    /\ cfg # c
    /\ cfgLog' = Append(cfgLog, c)
    /\ UNCHANGED <<cappLog, objLog, lastUid, fresh>>

Touch(o, v) ==
    /\ Move
    /\ WriteChild(o, v)
    /\ UNCHANGED <<cappLog, cfgLog, lastUid, fresh>>

\* Another client edits a child.
Edit(o) ==
    /\ Kind(o) \in Tampered
    /\ child(o) # None /\ ~child(o).spec.edited
    /\ Touch(o, [child(o) EXCEPT !.spec.edited = TRUE])

\* Another client deletes a child.
Remove(o) ==
    /\ Kind(o) \in Removed
    /\ child(o) # None
    /\ Touch(o, None)

\* A child's own controller reports its health.  A Certificate is ready when
\* its Secret is there; only a Knative Service can be pending.
Report(o, h) ==
    /\ Kind(o) \in Reporting
    /\ child(o) # None /\ child(o).health # h
    /\ h = "pending" => Kind(o) = "KnativeService"
    /\ Kind(o) = "Certificate" /\ h = "true" => child(SecretOf(o)) # None
    /\ Touch(o, [child(o) EXCEPT !.health = h])

External ==
    UNCHANGED <<cappLog, cfgLog, lastUid, queued, workVars, fresh, moves, faults>>

\* cert-manager issues the Secret of a Certificate, again when it was deleted.
IssueSecret(o) ==
    /\ Kind(o) = "Certificate"
    /\ child(o) # None /\ child(SecretOf(o)) = None
    /\ Len(objLog[SecretOf(o)]) <= MaxLag
    /\ WriteChild(SecretOf(o), Created("Secret", Blank, 0))
    /\ External

\* The owner reference of a child names a uid that is gone.
Collect(o) ==
    /\ child(o) # None /\ child(o).uid # 0 /\ ~Alive(child(o).uid)
    /\ WriteChild(o, None)
    /\ External

Users ==
    \/ \E s \in Specs : CreateCapp(s) \/ UpdateCapp(s)
    \/ DeleteCapp
    \/ \E c \in Configs : SetConfig(c)
    \/ \E o \in Objects : \/ Edit(o) \/ Remove(o)
                          \/ \E h \in Health \ {"none"} : Report(o, h)

Next ==
    \/ Worker \/ Restart
    \/ DeliverCapp \/ DeliverConfig \/ \E o \in Objects : DeliverChild(o)
    \/ Users
    \/ \E o \in Objects : IssueSecret(o) \/ Collect(o)

Spec == Init /\ [][Next]_vars

\* The controller's worker, the informers, cert-manager and the garbage
\* collector keep going; nobody has to change anything and nothing has to fail.
Fairness ==
    /\ WF_vars(Worker) /\ WF_vars(DeliverCapp) /\ WF_vars(DeliverConfig)
    /\ \A o \in Objects :
          WF_vars(DeliverChild(o)) /\ WF_vars(IssueSecret(o)) /\ WF_vars(Collect(o))

FairSpec == Spec /\ Fairness

----------------------------------------------------------------------------
(* Properties                                                              *)

\* Type invariant of the state of the Capp controller.
TypeOK ==
    /\ cappLog \in Seq(Capp \cup {None}) /\ cappLog # <<>>
    /\ cfgLog \in Seq(Configs) /\ cfgLog # <<>>
    /\ objLog \in [Objects -> Seq(Child \cup {None})]
    /\ \A o \in Objects : objLog[o] # <<>>
    /\ lastUid \in 0..MaxUid
    /\ queued \in BOOLEAN /\ pc \in {"idle", "manage", "finalize"}
    /\ snap \in Capp \cup {None} /\ config \in CappConfig \cup {None}
    /\ pc # "idle" => /\ snap # None /\ config # None
                      /\ snap.deleting = (pc = "finalize")
    /\ todo \subseteq Objects /\ errs \in BOOLEAN /\ fresh \in BOOLEAN
    /\ moves \in Nat /\ faults \in Nat

\* The finalizer keeps a Capp's life apart from the next one: a child is only
\* ever created for, or adopted by, the Capp that exists at that moment, however
\* stale the Capp that Reconcile read.
NoChildForTheDead ==
    [][\A o \in Objects :
          child(o)' # None /\ child(o)'.uid # 0
             => \/ child(o) # None /\ child(o).uid = child(o)'.uid
                \/ Alive(child(o)'.uid)]_objLog

\* ensureFinalizer and SyncStatus write the Capp back from a cache that lags:
\* neither ever undoes what a user has written.
SpecIsTheUsers ==
    [][capp # None /\ capp' # None /\ capp.uid = capp'.uid /\ capp.spec # capp'.spec
          => moves' # moves]_cappLog

\* finalizeCapp: no child that the garbage collector would not find outlives its
\* Capp, whatever fails or restarts on the way.
NoOrphanOutlivesCapp ==
    capp = None => \A o \in ManagedObjects : child(o) # None => child(o).uid # 0

\* createOrUpdate never moves a KafkaSource to another consumer group, which
\* would lose its offsets.
GroupStable ==
    [][\A o \in Objects :
          Kind(o) = "KafkaSource" /\ child(o) # None /\ child(o)' # None
             => child(o)'.spec.group = child(o).spec.group]_objLog

\* What the managers may leave as it was: the consumer group, and TLS, which
\* depends on the Secret.
Essence(spec) == [spec EXCEPT !.group = None, !.tls = FALSE]

Synced(o) ==
    LET want == prepareResource(Kind(o), capp.spec, cfg, FALSE)
    IN  /\ Desired(o, capp.spec, cfg) =>
              /\ child(o) # None /\ child(o).uid = capp.uid
              /\ Essence(child(o).spec) = Essence(want)
        /\ ~IsRequired(Kind(o), capp.spec, cfg) => child(o) = None
        /\ Kind(o) \in SourceKinds /\ ~Desired(o, capp.spec, cfg) => child(o) = None

\* SyncApplication "ensures all manifests are applied according to the
\* specification": once everyone else stops, the children of every kind that can
\* be written are what the Capp and the CappConfig call for, and stay so.
ChildrenConverge ==
    <>[](Active(capp) /\ cfg # None =>
            \A o \in ManagedObjects : Kind(o) \notin Broken => Synced(o))

\* A Capp that is deleted goes (the CappConfig permitting), and its children go.
CleanedUp ==
    <>[](/\ capp # None /\ capp.deleting => cfg = None
         /\ capp = None => \A o \in ManagedObjects : child(o) = None)

\* SyncStatus: in the end the Ready condition is the one that the children as
\* they are, not as they once were in a cache, call for.
ReadyIsCurrent ==
    <>[](Active(capp) /\ cfg # None =>
            capp.status.ready =
               computeReadyCondition(
                  capp.spec, cfg,
                  ChildStatuses([o \in Objects |-> child(o)], capp.spec, cfg), FALSE))

\* tlsEnabled, "Enable HTTPS with automatic certificate management": once the
\* Secret that prepareResource looks for is there, the DomainMapping gets TLS.
TLSComesOn ==
    <>[](Active(capp) /\ cfg # None /\ capp.spec.tls =>
            \A o \in ManagedObjects :
                Kind(o) = "DomainMapping" /\ Desired(o, capp.spec, cfg)
                   /\ child(o) # None /\ child(SecretOf(o)) # None
                   => child(o).spec.tls)

\* The Capp in the API server, by how far its life has come.
Life ==
    IF capp = None THEN "none"
    ELSE IF capp.deleting THEN "deleting"
    ELSE IF capp.fin THEN "held" ELSE "free"

Owner ==
    [o \in ManagedObjects |-> IF child(o) = None THEN None ELSE child(o).uid]

Lifecycle ==
    INSTANCE CappLifecycle
        WITH Children <- ManagedObjects, life <- Life, uid <- lastUid, owner <- Owner

\* Reconcile on stale caches, with failures and restarts, implements the life of
\* a Capp as CappLifecycle promises it: children are only ever taken by a life
\* that the finalizer holds, and the finalizer is only removed when no child is
\* left without an owner.
ImplementsLifecycle == Lifecycle!Spec
=============================================================================
