------------------------ MODULE CappRevisionsProofs ------------------------
(***************************************************************************)
(* Proofs about the CappRevision controller, for every set of data, every  *)
(* set of limits and every number of steps and failures.                   *)
(***************************************************************************)
EXTENDS CappRevisions, FiniteSetTheorems, SequenceTheorems, TLAPS

----------------------------------------------------------------------------
(* Type correctness                                                        *)

\* A log stays a log when a version is written and when one is delivered.
LEMMA LogTypes ==
    ASSUME NEW S, NEW log \in Seq(S), log # <<>>
    PROVE  /\ Len(log) \in Nat \ {0}
           /\ log[1] \in S /\ log[Len(log)] \in S
           /\ \A e \in S : Append(log, e) \in Seq(S) /\ Append(log, e) # <<>>
           /\ \A e \in S : <<e>> \in Seq(S) /\ <<e>> # <<>>
           /\ Len(log) > 1 => Tail(log) \in Seq(S) /\ Tail(log) # <<>>
<1>1. Len(log) \in Nat \ {0}
  OBVIOUS
<1>2. log[1] \in S /\ log[Len(log)] \in S
  BY <1>1
<1>3. \A e \in S : Append(log, e) \in Seq(S) /\ Append(log, e) # <<>>
  OBVIOUS
<1>4. \A e \in S : <<e>> \in Seq(S) /\ <<e>> # <<>>
  OBVIOUS
<1>5. Len(log) > 1 => Tail(log) \in Seq(S) /\ Tail(log) # <<>>
  <2>1. Tail(log) \in Seq(S) /\ Len(Tail(log)) = Len(log) - 1
    BY HeadTailProperties
  <2>2. Len(log) > 1 => Len(Tail(log)) # 0
    BY <1>1, <2>1
  <2>3. Tail(log) = <<>> => Len(Tail(log)) = 0
    BY EmptySeq
  <2> QED
    BY <2>1, <2>2, <2>3
<1> QED
  BY <1>1, <1>2, <1>3, <1>4, <1>5

\* What the two logs hold, when TypeOK holds.
LEMMA StoreTypes ==
    ASSUME TypeOK
    PROVE  /\ cappCache \in Capp \cup {None} /\ capp \in Capp \cup {None}
           /\ revCache \subseteq Revision /\ revs \subseteq Revision
BY LogTypes DEF TypeOK, cappCache, capp, revCache, revs

LEMMA InitTypeOK == Init => TypeOK
<1> SUFFICES ASSUME Init PROVE TypeOK
  OBVIOUS
<1>1. cappLog \in Seq(Capp \cup {None}) /\ cappLog # <<>>
  BY DEF Init
<1>2. revLog \in Seq(SUBSET Revision) /\ revLog # <<>>
  BY DEF Init
<1>3. lastUid \in 0..MaxUid
  BY BoundsAssumption DEF Init
<1> QED
  BY <1>1, <1>2, <1>3 DEF Init, TypeOK

\* Finish leaves the state of an idle worker.
LEMMA NextTypeOK == TypeOK /\ [Next]_vars => TypeOK'
<1> SUFFICES ASSUME TypeOK, [Next]_vars PROVE TypeOK'
  OBVIOUS
<1> USE BoundsAssumption, LimitsAssumption, NoneAssumption, StoreTypes
<1>w. ASSUME NEW c \in Capp \cup {None}, WriteCapp(c)
      PROVE  cappLog' \in Seq(Capp \cup {None}) /\ cappLog' # <<>>
  BY <1>w, LogTypes DEF TypeOK, WriteCapp
<1>r. ASSUME NEW R \in SUBSET Revision, revLog' = Append(revLog, R)
      PROVE  revLog' \in Seq(SUBSET Revision) /\ revLog' # <<>>
  BY <1>r, LogTypes DEF TypeOK
<1>1. CASE Reconcile
  <2>u. UNCHANGED <<cappLog, lastUid, written, limit, revLog, clock, moves, faults>>
    BY <1>1 DEF Reconcile, userVars, revVars
  <2>1. ASSUME Finish(FALSE) PROVE TypeOK'
    BY <2>u, <2>1 DEF TypeOK, Finish
  <2>b. ASSUME Active(cappCache), NEW n \in Nat, NEW doomed \in SUBSET Revision,
               Begin("delete", n, doomed) \/ (n > 0 /\ Begin("create", n, doomed))
        PROVE  TypeOK'
    BY <2>u, <2>b DEF TypeOK, Begin, Active
  <2>2. Active(cappCache) /\ HandleCappCreation => TypeOK'
    BY <2>b DEF HandleCappCreation
  <2>3. ASSUME Active(cappCache), NEW list \in GetCappRevisions, HandleCappUpdate(list)
        PROVE  TypeOK'
    <3>1. list \subseteq Revision
      BY DEF GetCappRevisions
    <3>2. PICK latest \in Newest(list) :
            \/ isEqual(cappCache, latest) /\ Finish(FALSE)
            \/ Begin("create", latest.num + 1, {})
            \/ \E keep \in Split(list, latest, limit - 1) :
                  Begin("delete", NumberAfter(latest, keep), list \ keep)
      BY <2>3 DEF HandleCappUpdate
    <3>3. latest \in Revision /\ latest.num \in Nat \ {0}
      BY <3>1 DEF Newest, Revision
    <3>4. CASE Finish(FALSE)
      BY <2>1, <3>4
    <3>5. CASE Begin("create", latest.num + 1, {})
      BY <2>3, <2>b, <3>3, <3>5
    <3>6. ASSUME NEW keep \in Split(list, latest, limit - 1),
                 Begin("delete", NumberAfter(latest, keep), list \ keep)
          PROVE  TypeOK'
      <4>1. NumberAfter(latest, keep) \in Nat /\ list \ keep \in SUBSET Revision
        BY <3>1, <3>3 DEF NumberAfter
      <4> QED
        BY <2>3, <2>b, <3>6, <4>1
    <3> QED
      BY <3>2, <3>4, <3>5, <3>6
  <2> QED
    BY <1>1, <2>1, <2>2, <2>3 DEF Reconcile
<1>2. CASE DeleteCappRevision
  <2>1. PICK r \in Newest(todo) :
          \/ /\ revLog' = Append(revLog, {s \in revs : s.num # r.num})
             /\ \/ todo' = todo \ {r} /\ UNCHANGED <<pc, snap, num, queued>>
                \/ Retry
          \/ Retry /\ UNCHANGED revLog
    BY <1>2 DEF DeleteCappRevision, Answered
  <2>2. {s \in revs : s.num # r.num} \in SUBSET Revision
    OBVIOUS
  <2>3. UNCHANGED <<cappLog, lastUid, written, limit, clock, moves>> /\ faults' \in Nat
    BY <1>2 DEF DeleteCappRevision, Answered, userVars, TypeOK
  <2>4. CASE Retry /\ UNCHANGED revLog
    BY <2>3, <2>4 DEF TypeOK, Retry, Finish
  <2>5. CASE /\ revLog' = Append(revLog, {s \in revs : s.num # r.num})
             /\ todo' = todo \ {r} /\ UNCHANGED <<pc, snap, num, queued>>
    BY <1>r, <2>2, <2>3, <2>5 DEF TypeOK
  <2>6. CASE revLog' = Append(revLog, {s \in revs : s.num # r.num}) /\ Retry
    BY <1>r, <2>2, <2>3, <2>6 DEF TypeOK, Retry, Finish
  <2> QED
    BY <2>1, <2>4, <2>5, <2>6
<1>3. CASE NextNumber
  BY <1>3 DEF TypeOK, NextNumber, Retry, Finish, userVars, revVars
<1>4. CASE CreateCappRevision
  <2>0. /\ UNCHANGED <<cappLog, lastUid, written, limit, moves>> /\ faults' \in Nat
        /\ pc' = "idle" /\ snap' = None /\ num' = 0 /\ todo' = {} /\ queued' \in BOOLEAN
    <3>1. queued \in BOOLEAN /\ faults \in Nat
      BY DEF TypeOK
    <3>2. Finish(queued) \/ Finish(TRUE)
      BY <1>4 DEF CreateCappRevision, Answered, Retry
    <3>3. UNCHANGED <<cappLog, lastUid, written, limit, moves>>
      BY <1>4 DEF CreateCappRevision, userVars
    <3>4. faults' = faults \/ faults' = faults + 1
      BY <1>4 DEF CreateCappRevision, Answered
    <3>5. pc' = "idle" /\ snap' = None /\ num' = 0 /\ todo' = {}
      BY <3>2 DEF Finish
    <3>6. queued' \in BOOLEAN
      <4>1. CASE Finish(queued)
        BY <3>1, <4>1, Zenon DEF Finish
      <4>2. CASE Finish(TRUE)
        BY <4>2, Zenon DEF Finish
      <4> QED
        BY <3>2, <4>1, <4>2
    <3>7. faults' \in Nat
      BY <3>1, <3>4
    <3> QED
      BY <3>3, <3>5, <3>6, <3>7
  <2>1. CASE UNCHANGED revVars
    BY <2>0, <2>1 DEF TypeOK, revVars
  <2>2. ASSUME NEW t \in Stamps, clock' = t,
               revLog' = Append(revLog, revs \cup {NewRevision(snap, num, t)})
        PROVE  TypeOK'
    <3>1. t \in Nat
      BY DEF Stamps, TypeOK
    <3>2. NewRevision(snap, num, t) \in Revision
      BY <1>4, <3>1 DEF CreateCappRevision, TypeOK, NewRevision, Revision, Capp
    <3>3. revLog' \in Seq(SUBSET Revision) /\ revLog' # <<>>
      <4>1. revs \cup {NewRevision(snap, num, t)} \in SUBSET Revision
        BY <3>2
      <4> QED
        BY <1>r, <2>2, <4>1
    <3> QED
      BY <2>0, <2>2, <3>1, <3>3 DEF TypeOK
  <2> QED
    BY <1>4, <2>1, <2>2 DEF CreateCappRevision
<1>5. CASE CallFails
  BY <1>5 DEF TypeOK, CallFails, Retry, Finish, userVars, revVars
<1>6. CASE Restart
  <2>1. /\ cappLog' \in Seq(Capp \cup {None}) /\ cappLog' # <<>>
        /\ revLog' \in Seq(SUBSET Revision) /\ revLog' # <<>>
    BY <1>6, LogTypes DEF TypeOK, Restart
  <2> QED
    BY <1>6, <2>1 DEF TypeOK, Restart, Finish
<1>7. CASE DeliverCapp
  <2>1. cappLog' \in Seq(Capp \cup {None}) /\ cappLog' # <<>>
    BY <1>7, LogTypes DEF TypeOK, DeliverCapp
  <2> QED
    BY <1>7, <2>1 DEF TypeOK, DeliverCapp, revVars, workVars
<1>8. CASE DeliverRevisions
  <2>1. revLog' \in Seq(SUBSET Revision) /\ revLog' # <<>>
    BY <1>8, LogTypes DEF TypeOK, DeliverRevisions
  <2> QED
    BY <1>8, <2>1 DEF TypeOK, DeliverRevisions, userVars, workVars
<1>9. ASSUME NEW d \in Data, CreateCapp(d) \/ UpdateCapp(d) PROVE TypeOK'
  <2>1. CASE CreateCapp(d)
    <3>1. [uid |-> lastUid + 1, data |-> d, by |-> "user",
           fin |-> FALSE, deleting |-> FALSE] \in Capp
      BY <2>1 DEF CreateCapp, TypeOK, Capp, Writers
    <3> QED
      BY <1>w, <2>1, <3>1 DEF TypeOK, CreateCapp, Move, revVars, workVars
  <2>2. CASE UpdateCapp(d)
    <3>1. [capp EXCEPT !.data = d, !.by = "user"] \in Capp
      BY <2>2 DEF UpdateCapp, Active, Capp, Writers
    <3> QED
      BY <1>w, <2>2, <3>1 DEF TypeOK, UpdateCapp, Move, revVars, workVars
  <2> QED
    BY <1>9, <2>1, <2>2
<1>10. CASE DeleteCapp
  <2> DEFINE c == IF capp.fin THEN [capp EXCEPT !.deleting = TRUE] ELSE None
  <2>1. c \in Capp \cup {None}
    BY <1>10 DEF DeleteCapp, Active, Capp
  <2>2. WriteCapp(c)
    BY <1>10 DEF DeleteCapp
  <2>3. cappLog' \in Seq(Capp \cup {None}) /\ cappLog' # <<>>
    BY <1>w, <2>1, <2>2
  <2> QED
    BY <1>10, <2>3 DEF TypeOK, DeleteCapp, Move, revVars, workVars
<1>11. CASE ensureFinalizer
  <2>1. [capp EXCEPT !.fin = TRUE, !.by = "operator"] \in Capp
    BY <1>11 DEF ensureFinalizer, Active, Capp, Writers
  <2> QED
    BY <1>11, <1>w, <2>1 DEF TypeOK, ensureFinalizer, NoMove, workVars
<1>12. CASE removeFinalizer
  BY <1>12, <1>w DEF TypeOK, removeFinalizer, NoMove, workVars
<1>13. ASSUME NEW n \in Limits, SetLimit(n) PROVE TypeOK'
  BY <1>13 DEF TypeOK, SetLimit, Move, revVars, workVars
<1>14. ASSUME NEW r \in revs, Collect(r) PROVE TypeOK'
  <2>1. revs \ {r} \in SUBSET Revision
    OBVIOUS
  <2> QED
    BY <1>14, <1>r, <2>1 DEF TypeOK, Collect, NoMove, workVars
<1>15. CASE UNCHANGED vars
  BY <1>15 DEF TypeOK, vars, userVars, revVars, workVars
<1> QED
  BY <1>1, <1>2, <1>3, <1>4, <1>5, <1>6, <1>7, <1>8, <1>9, <1>10, <1>11, <1>12,
     <1>13, <1>14, <1>15 DEF Next, Controller

\* Every variable of the CappRevision controller keeps its type, a worker that
\* is past its reads has the Capp it read, and a revision about to be created
\* has a number.
THEOREM TypeCorrect == Spec => []TypeOK
BY InitTypeOK, NextTypeOK, PTL DEF Spec

----------------------------------------------------------------------------
(* The history of a Capp                                                   *)
(*                                                                         *)
(* The invariants hold for one life of a Capp, when no two revisions carry *)
(* the same creationTimestamp and the limit is neither 1 nor beyond what   *)
(* one list returns.  Without any one of these some of them fail; the run  *)
(* limit1 shows it for the limit.                                          *)

Regular ==
    /\ MaxUid = 1 /\ SameSecond = FALSE
    /\ \A n \in Limits : 2 <= n /\ n <= ListLimit

\* Numbers are unique and follow the creation times.
Ordered(R) ==
    \A r, s \in R : /\ r.num < s.num <=> r.time < s.time
                    /\ r.num = s.num => r = s

Small(R) == IsFiniteSet(R) /\ \E n \in Limits : Cardinality(R) <= n

Tops(R) == {r \in R : \A s \in R : s.num <= r.num}

\* n is the number HandleCappCreation or HandleCappUpdate gives to the revision
\* that comes after R.
NextAfter(R, n) == (R = {} /\ n = 1) \/ \E t \in Tops(R) : n = t.num + 1

\* S is a later version of R: the highest-numbered revision is still there,
\* and the only thing added is the revision that comes after R.
Later(R, S) ==
    /\ Tops(R) \subseteq S
    /\ \A s \in S : s \in R \/ NextAfter(R, s.num)

\* Before the Capp is first created there is nothing.
NothingYet == lastUid = 0 => cappLog = <<None>> /\ revLog = <<{}>> /\ pc = "idle"

\* Every version of the revisions that the informer may still see is in order,
\* and each later version is at most one revision ahead of it.
LogInv ==
    \A i \in 1..Len(revLog) :
        /\ Ordered(revLog[i]) /\ Small(revLog[i])
        /\ \A r \in revLog[i] : r.time <= clock
        /\ \A j \in i..Len(revLog) : Later(revLog[i], revLog[j])

\* What a worker past its reads knows: no revision is beyond the number it is
\* about to create; the revision before that number is in every version, will
\* not be deleted and differs from the Capp; and when all of todo is deleted
\* there is room for one more.
WorkInv ==
    /\ num > 0
    /\ \A i \in 1..Len(revLog) : \A r \in revLog[i] : r.num <= num
    /\ \A r \in revs : r.num = num - 1 => r.data # snap.data
    /\ num > 1 => \E s \in Revision : /\ s.num = num - 1
                                       /\ \A i \in 1..Len(revLog) : s \in revLog[i]
    /\ \A t \in todo : t.num < num - 1
    /\ pc = "create" => todo = {}
    /\ \E K \in SUBSET Revision, n \in Limits :
          /\ IsFiniteSet(K) /\ Cardinality(K) < n
          /\ \A r \in revs : r \in K \/ r \in todo \/ r.num = num

IInv ==
    /\ TypeOK /\ NothingYet
    /\ capp # None => LogInv /\ AdjacentRevisionsDiffer
    /\ capp # None /\ pc # "idle" => WorkInv

----------------------------------------------------------------------------
(* How a log changes                                                       *)

LEMMA LogShape ==
    ASSUME NEW S, NEW log \in Seq(S), log # <<>>
    PROVE  /\ Len(log) \in Nat \ {0}
           /\ \A e \in S : /\ Len(Append(log, e)) = Len(log) + 1
                           /\ \A i \in 1..Len(log) : Append(log, e)[i] = log[i]
                           /\ Append(log, e)[Len(log) + 1] = e
           /\ /\ Len(Tail(log)) = Len(log) - 1
              /\ \A i \in 1..Len(log) - 1 : Tail(log)[i] = log[i + 1]
<1>1. Len(log) \in Nat \ {0}
  OBVIOUS
<1>2. \A e \in S : /\ Len(Append(log, e)) = Len(log) + 1
                   /\ \A i \in 1..Len(log) : Append(log, e)[i] = log[i]
                   /\ Append(log, e)[Len(log) + 1] = e
  BY AppendProperties
<1>3. /\ Len(Tail(log)) = Len(log) - 1
      /\ \A i \in 1..Len(Tail(log)) : Tail(log)[i] = log[i + 1]
  BY HeadTailProperties
<1> QED
  BY <1>1, <1>2, <1>3

LEMMA LaterReflexive == \A R : Later(R, R)
BY DEF Later, Tops

\* A write to the API server keeps LogInv if what is written is in order and
\* is a later version of everything in the log.
LEMMA LogAppend ==
    ASSUME TypeOK, LogInv, NEW R \in SUBSET Revision,
           revLog' = Append(revLog, R), clock' \in Nat, clock <= clock',
           Ordered(R), Small(R), \A r \in R : r.time <= clock',
           \A i \in 1..Len(revLog) : Later(revLog[i], R)
    PROVE  LogInv' /\ revs' = R
<1> DEFINE n == Len(revLog)
<1>1. /\ n \in Nat \ {0} /\ Len(revLog') = n + 1
      /\ \A i \in 1..n : revLog'[i] = revLog[i]
      /\ revLog'[n + 1] = R
  BY LogShape DEF TypeOK
<1>2. \A i \in 1..n : \A r \in revLog[i] : r.time \in Nat
  BY DEF TypeOK, Revision
<1>3. ASSUME NEW i \in 1..(n + 1)
      PROVE  /\ Ordered(revLog'[i]) /\ Small(revLog'[i])
             /\ \A r \in revLog'[i] : r.time <= clock'
  <2>1. CASE i = n + 1
    BY <1>1, <2>1
  <2>2. CASE i \in 1..n
    BY <1>1, <1>2, <2>2 DEF LogInv, TypeOK
  <2> QED
    BY <1>1, <2>1, <2>2
<1>4. ASSUME NEW i \in 1..(n + 1), NEW j \in i..(n + 1)
      PROVE  Later(revLog'[i], revLog'[j])
  <2>1. CASE i = n + 1
    <3>1. j = n + 1
      BY <1>1, <2>1
    <3> QED
      BY <2>1, <3>1, LaterReflexive
  <2>2. CASE i \in 1..n /\ j = n + 1
    BY <1>1, <2>2
  <2>3. CASE i \in 1..n /\ j \in i..n
    <3>1. j \in 1..n
      BY <1>1, <2>3
    <3> QED
      BY <1>1, <2>3, <3>1 DEF LogInv
  <2> QED
    BY <1>1, <2>1, <2>2, <2>3
<1>5. revs' = R
  BY <1>1 DEF revs
<1>6. LogInv'
  <2> HIDE DEF n
  <2> QED
    BY <1>1, <1>3, <1>4 DEF LogInv
<1> QED
  BY <1>5, <1>6

\* Delivering an event keeps the rest of the log.
LEMMA LogTail ==
    ASSUME TypeOK, Len(revLog) > 1, revLog' = Tail(revLog)
    PROVE  /\ revs' = revs
           /\ \A i \in 1..Len(revLog') : i + 1 \in 1..Len(revLog) /\ revLog'[i] = revLog[i + 1]
<1>1. /\ Len(revLog) \in Nat \ {0} /\ Len(revLog') = Len(revLog) - 1
      /\ \A i \in 1..Len(revLog) - 1 : revLog'[i] = revLog[i + 1]
  BY LogShape DEF TypeOK
<1> QED
  BY <1>1 DEF revs

----------------------------------------------------------------------------
(* The three steps that matter: a list is read, a revision is deleted, a   *)
(* revision is created                                                     *)

\* Under Regular a list of a small cache is the whole cache.
LEMMA WholeList ==
    ASSUME Regular, TypeOK, LogInv, NEW list \in GetCappRevisions
    PROVE  list = revCache /\ IsFiniteSet(revCache)
<1>1. 1 \in 1..Len(revLog)
  BY LogShape DEF TypeOK
<1>2. Small(revCache)
  BY <1>1 DEF LogInv, revCache
<1>3. PICK n \in Limits : Cardinality(revCache) <= n
  BY <1>2 DEF Small
<1>4. IsFiniteSet(revCache) /\ Cardinality(revCache) \in Nat
  BY <1>2, FS_CardinalityType DEF Small
<1>5. Cardinality(revCache) <= ListLimit
  BY <1>3, <1>4, BoundsAssumption, LimitsAssumption DEF Regular
<1>6. list \subseteq revCache
  BY DEF GetCappRevisions
<1>7. CASE Cardinality(list) = ListLimit
  <2>1. Cardinality(list) <= Cardinality(revCache) /\ Cardinality(list) \in Nat
    BY <1>4, <1>6, FS_Subset, FS_CardinalityType
  <2>2. Cardinality(list) = Cardinality(revCache)
    BY <1>4, <1>5, <1>7, <2>1
  <2> QED
    BY <1>4, <1>6, <2>2, FS_Subset
<1> QED
  BY <1>4, <1>7 DEF GetCappRevisions

\* The revision a list starts with has the highest number.
LEMMA NewestIsTop ==
    ASSUME NEW R \in SUBSET Revision, Ordered(R), NEW r \in Newest(R)
    PROVE  r \in R /\ r \in Tops(R) /\ \A s \in R : s # r => s.num < r.num
<1>1. r \in R /\ \A s \in R : s.time <= r.time
  BY DEF Newest
<1>2. \A s \in R : s.num \in Nat /\ s.time \in Nat
  BY DEF Revision
<1>3. \A s \in R : s.num <= r.num /\ (s # r => s.num < r.num)
  BY <1>1, <1>2 DEF Ordered
<1> QED
  BY <1>1, <1>3 DEF Tops

\* A worker that starts on a fresh list knows WorkInv.
LEMMA BeginWork ==
    ASSUME Regular, TypeOK, LogInv, revLog' = revLog,
           NEW step \in {"delete", "create"}, NEW n \in Nat,
           NEW keep \in SUBSET revCache, IsFiniteSet(keep),
           NEW m \in Limits, Cardinality(keep) < m,
           step = "create" => keep = revCache,
           NextAfter(revCache, n), Tops(revCache) \subseteq keep,
           \A r \in revCache : r.num = n - 1 => r.data # cappCache.data,
           Begin(step, n, revCache \ keep)
    PROVE  WorkInv'
<1>1. 1 \in 1..Len(revLog) /\ Len(revLog) \in 1..Len(revLog)
  BY LogShape DEF TypeOK
<1>2. /\ pc' = step /\ num' = n /\ todo' = revCache \ keep
      /\ snap' = cappCache /\ revs' = revs
  BY DEF Begin, revs
<1>3. revCache \in SUBSET Revision /\ \A r \in Revision : r.num \in Nat \ {0}
  BY StoreTypes DEF Revision
<1>4. \A i \in 1..Len(revLog) : Later(revCache, revLog[i])
  BY <1>1 DEF LogInv, revCache
<1>5. n > 0 /\ \A r \in revCache : r.num < n
  BY <1>3 DEF NextAfter, Tops
<1>6. \A m1, m2 : NextAfter(revCache, m1) /\ NextAfter(revCache, m2) => m1 = m2
  <2> SUFFICES ASSUME NEW m1, NEW m2, NextAfter(revCache, m1), NextAfter(revCache, m2)
               PROVE  m1 = m2
    OBVIOUS
  <2>1. CASE revCache = {}
    BY <2>1 DEF NextAfter, Tops
  <2>2. CASE revCache # {}
    <3>1. PICK t1 \in Tops(revCache) : m1 = t1.num + 1
      BY <2>2 DEF NextAfter
    <3>2. PICK t2 \in Tops(revCache) : m2 = t2.num + 1
      BY <2>2 DEF NextAfter
    <3> QED
      BY <1>3, <3>1, <3>2 DEF Tops
  <2> QED
    BY <2>1, <2>2
<1>7. \A i \in 1..Len(revLog) : \A r \in revLog[i] : r \in revCache \/ r.num = n
  BY <1>4, <1>6 DEF Later
<1>8. \A i \in 1..Len(revLog) : \A r \in revLog[i] : r.num <= n
  BY <1>3, <1>5, <1>7
<1>9. \A r \in revs : r.num = n - 1 => r.data # cappCache.data
  <2>1. \A r \in revs : r \in revCache \/ r.num = n
    BY <1>1, <1>7 DEF revs
  <2> QED
    BY <2>1
<1>10. n > 1 => \E s \in Revision : /\ s.num = n - 1
                                    /\ \A i \in 1..Len(revLog) : s \in revLog[i]
  <2> SUFFICES ASSUME n > 1
               PROVE  \E s \in Revision : /\ s.num = n - 1
                                          /\ \A i \in 1..Len(revLog) : s \in revLog[i]
    OBVIOUS
  <2>1. PICK s \in Tops(revCache) : n = s.num + 1
    BY DEF NextAfter
  <2>2. s \in Revision /\ s.num = n - 1
    BY <1>3, <2>1 DEF Tops
  <2>3. \A i \in 1..Len(revLog) : s \in revLog[i]
    BY <1>4, <2>1 DEF Later
  <2> QED
    BY <2>2, <2>3
<1>11. \A t \in revCache \ keep : t.num < n - 1
  <2> SUFFICES ASSUME NEW t \in revCache \ keep PROVE t.num < n - 1
    OBVIOUS
  <2>1. PICK s \in Tops(revCache) : n = s.num + 1
    BY DEF NextAfter
  <2>2. t # s /\ t \in revCache /\ s \in revCache /\ t.num <= s.num
    BY <2>1 DEF Tops
  <2>3. t.num # s.num
    <3>1. Ordered(revCache)
      BY <1>1 DEF LogInv, revCache
    <3> QED
      BY <2>2, <3>1 DEF Ordered
  <2> QED
    BY <1>3, <2>1, <2>2, <2>3
<1>12. step = "create" => revCache \ keep = {}
  OBVIOUS
<1>13. \A r \in revs : r \in keep \/ r \in revCache \ keep \/ r.num = n
  BY <1>1, <1>7 DEF revs
<1>14. keep \in SUBSET Revision
  BY <1>3
<1> QED
  BY <1>2, <1>5, <1>8, <1>9, <1>10, <1>11, <1>12, <1>13, <1>14 DEF WorkInv

\* HandleCappCreation and HandleCappUpdate hand over to a worker that knows
\* WorkInv.
LEMMA ReconcileStep ==
    ASSUME Regular, TypeOK, LogInv, revLog' = revLog, Active(cappCache),
           NEW list \in GetCappRevisions,
           \/ list = {} /\ HandleCappCreation
           \/ list # {} /\ HandleCappUpdate(list)
    PROVE  pc' = "idle" \/ WorkInv'
<1>1. list = revCache /\ IsFiniteSet(revCache) /\ revCache \in SUBSET Revision
  BY WholeList, StoreTypes
<1>2. Ordered(revCache)
  <2>1. 1 \in 1..Len(revLog)
    BY LogShape DEF TypeOK
  <2> QED
    BY <2>1 DEF LogInv, revCache
<1>3. limit \in Limits /\ limit \in Nat /\ limit >= 2
  BY LimitsAssumption DEF TypeOK, Regular
<1>4. CASE list = {} /\ HandleCappCreation
  <2>1. /\ Begin("create", 1, revCache \ {}) /\ {} = revCache
        /\ NextAfter(revCache, 1) /\ Tops(revCache) \subseteq {}
    BY <1>1, <1>4 DEF HandleCappCreation, NextAfter, Tops
  <2>2. IsFiniteSet({}) /\ Cardinality({}) < limit
    BY <1>3, FS_EmptySet
  <2>3. \A r \in revCache : r.num = 1 - 1 => r.data # cappCache.data
    BY <2>1
  <2>4. {} \in SUBSET revCache
    OBVIOUS
  <2> QED
    BY <1>3, <2>1, <2>2, <2>3, <2>4, BeginWork
<1>5. CASE list # {} /\ HandleCappUpdate(list)
  <2>1. PICK latest \in Newest(revCache) :
          \/ Finish(FALSE)
          \/ /\ cappCache.data # latest.data /\ HasRoom(revCache)
             /\ Begin("create", latest.num + 1, {})
          \/ /\ cappCache.data # latest.data
             /\ \E keep \in Split(revCache, latest, limit - 1) :
                   Begin("delete", NumberAfter(latest, keep), revCache \ keep)
    BY <1>1, <1>5 DEF HandleCappUpdate, isEqual
  <2>2. /\ latest \in revCache /\ latest \in Tops(revCache)
        /\ \A s \in revCache : s # latest => s.num < latest.num
    BY <1>1, <1>2, NewestIsTop
  <2>3. latest.num \in Nat /\ NextAfter(revCache, latest.num + 1)
    BY <1>1, <2>2 DEF NextAfter, Revision
  <2>4. Tops(revCache) \subseteq {latest}
    <3>1. \A s \in revCache : s.num \in Nat
      BY <1>1 DEF Revision
    <3> QED
      BY <2>2, <3>1 DEF Tops
  <2>5. ASSUME cappCache.data # latest.data
        PROVE  \A r \in revCache : r.num = (latest.num + 1) - 1 => r.data # cappCache.data
    <3> SUFFICES ASSUME NEW r \in revCache, r.num = (latest.num + 1) - 1
                 PROVE  r.data # cappCache.data
      OBVIOUS
    <3>1. r.num = latest.num
      BY <2>3
    <3>2. r = latest
      BY <2>2, <2>3, <3>1
    <3> QED
      BY <2>5, <3>2
  <2>6. CASE Finish(FALSE)
    BY <2>6 DEF Finish
  <2>7. CASE /\ cappCache.data # latest.data /\ HasRoom(revCache)
             /\ Begin("create", latest.num + 1, {})
    <3>1. Cardinality(revCache) < limit /\ revCache \ revCache = {}
      BY <2>7 DEF HasRoom
    <3>2. Begin("create", latest.num + 1, revCache \ revCache)
      BY <2>7, <3>1
    <3>3. Tops(revCache) \subseteq revCache /\ revCache \in SUBSET revCache
      BY DEF Tops
    <3>4. latest.num + 1 \in Nat
      BY <2>3
    <3> QED
      BY <1>1, <1>3, <2>3, <2>5, <2>7, <3>1, <3>2, <3>3, <3>4, BeginWork
  <2>8. ASSUME cappCache.data # latest.data,
               NEW keep \in Split(revCache, latest, limit - 1),
               Begin("delete", NumberAfter(latest, keep), revCache \ keep)
        PROVE  WorkInv'
    <3>1. keep \in SUBSET revCache /\ Cardinality(keep) = limit - 1 /\ latest \in keep
      BY <1>3 DEF Split
    <3>2. NumberAfter(latest, keep) = latest.num + 1
      BY <3>1 DEF NumberAfter
    <3>3. IsFiniteSet(keep) /\ Cardinality(keep) < limit
      BY <1>1, <1>3, <3>1, FS_Subset
    <3>4. Begin("delete", latest.num + 1, revCache \ keep)
      BY <2>8, <3>2
    <3>5. Tops(revCache) \subseteq keep
      BY <2>4, <3>1
    <3>6. latest.num + 1 \in Nat
      BY <2>3
    <3> QED
      BY <1>1, <1>3, <2>3, <2>5, <2>8, <3>1, <3>3, <3>4, <3>5, <3>6, BeginWork
  <2> QED
    BY <2>1, <2>6, <2>7, <2>8
<1> QED
  BY <1>4, <1>5

LEMMA SubsetSmall ==
    ASSUME NEW R, NEW S \in SUBSET R, Small(R)
    PROVE  Small(S)
<1>1. PICK n \in Limits : Cardinality(R) <= n
  BY DEF Small
<1>2. /\ IsFiniteSet(R) /\ IsFiniteSet(S) /\ Cardinality(S) <= Cardinality(R)
      /\ Cardinality(R) \in Nat /\ Cardinality(S) \in Nat
  BY FS_Subset, FS_CardinalityType DEF Small
<1>3. Cardinality(S) <= n
  BY <1>1, <1>2, LimitsAssumption
<1> QED
  BY <1>2, <1>3 DEF Small

\* Deleting a revision of todo keeps the log and the worker's knowledge, and
\* leaves a revision with a higher number.
LEMMA DeleteStep ==
    ASSUME TypeOK, LogInv, WorkInv, pc = "delete", NEW r \in todo,
           revLog' = Append(revLog, {s \in revs : s.num # r.num}),
           UNCHANGED clock
    PROVE  /\ LogInv'
           /\ todo' = todo \ {r} /\ UNCHANGED <<pc, snap, num>> => WorkInv'
           /\ revs' = {s \in revs : s.num # r.num}
           /\ \E s \in revs' : s.num > r.num
<1> DEFINE R == {s \in revs : s.num # r.num}
<1>1. Len(revLog) \in 1..Len(revLog) /\ revLog[Len(revLog)] = revs
  BY LogShape DEF TypeOK, revs
<1>2. /\ revs \in SUBSET Revision /\ R \in SUBSET Revision
      /\ \A s \in Revision : s.num \in Nat \ {0} /\ s.time \in Nat
      /\ r \in Revision /\ clock \in Nat
  BY StoreTypes DEF TypeOK, Revision
<1>3. r.num < num - 1 /\ num \in Nat /\ num > 1
  BY <1>2 DEF WorkInv, TypeOK
<1>4. PICK w \in Revision : /\ w.num = num - 1
                            /\ \A i \in 1..Len(revLog) : w \in revLog[i]
  BY <1>3 DEF WorkInv
<1>5. w \in R /\ w.num > r.num
  BY <1>1, <1>2, <1>3, <1>4
<1>6. Ordered(revs) /\ Small(revs) /\ \A s \in revs : s.time <= clock
  BY <1>1 DEF LogInv
<1>7. Ordered(R) /\ Small(R) /\ \A s \in R : s.time <= clock
  <2>1. R \in SUBSET revs
    OBVIOUS
  <2>2. Ordered(R)
    BY <1>6, <2>1 DEF Ordered
  <2> QED
    BY <1>6, <2>1, <2>2, SubsetSmall
<1>8. ASSUME NEW i \in 1..Len(revLog) PROVE Later(revLog[i], R)
  <2>1. Later(revLog[i], revs) /\ revLog[i] \in SUBSET Revision
    BY <1>1, <1>8 DEF LogInv, TypeOK
  <2>2. \A t \in Tops(revLog[i]) : t.num >= num - 1
    BY <1>4 DEF Tops
  <2>3. \A t \in Tops(revLog[i]) : t \in R
    BY <1>2, <1>3, <2>1, <2>2 DEF Later
  <2> QED
    BY <2>1, <2>3 DEF Later
<1>9. LogInv' /\ revs' = R
  <2>1. clock' \in Nat /\ clock <= clock' /\ \A s \in R : s.time <= clock'
    BY <1>2, <1>7
  <2> HIDE DEF R
  <2>2. revLog' = Append(revLog, R)
    BY DEF R
  <2> QED
    BY <1>2, <1>7, <1>8, <2>1, <2>2, LogAppend
<1>10. ASSUME todo' = todo \ {r}, UNCHANGED <<pc, snap, num>> PROVE WorkInv'
  <2>1. /\ Len(revLog') = Len(revLog) + 1 /\ Len(revLog) \in Nat
        /\ \A i \in 1..Len(revLog) : revLog'[i] = revLog[i]
        /\ revLog'[Len(revLog) + 1] = R
    BY <1>2, LogShape DEF TypeOK
  <2>2. \A i \in 1..Len(revLog') : \A s \in revLog'[i] : s.num <= num'
    <3>1. \A s \in revs : s.num <= num
      BY <1>1 DEF WorkInv
    <3> QED
      BY <1>10, <2>1, <3>1 DEF WorkInv
  <2>3. \A s \in revs' : s.num = num' - 1 => s.data # snap'.data
    BY <1>9, <1>10 DEF WorkInv
  <2>4. \A i \in 1..Len(revLog') : w \in revLog'[i]
    BY <1>4, <1>5, <2>1
  <2>5. \A t \in todo' : t.num < num' - 1
    BY <1>10 DEF WorkInv
  <2>6. PICK K \in SUBSET Revision, n \in Limits :
          /\ IsFiniteSet(K) /\ Cardinality(K) < n
          /\ \A s \in revs : s \in K \/ s \in todo \/ s.num = num
    BY DEF WorkInv
  <2>7. \A s \in revs' : s \in K \/ s \in todo' \/ s.num = num'
    BY <1>9, <1>10, <2>6
  <2> QED
    BY <1>3, <1>4, <1>10, <2>2, <2>3, <2>4, <2>5, <2>6, <2>7 DEF WorkInv
<1> QED
  BY <1>5, <1>9, <1>10

\* A revision that is created is the next one after every version of the log,
\* has the highest number, and differs from the one before it.
LEMMA CreateStep ==
    ASSUME TypeOK, LogInv, WorkInv, AdjacentRevisionsDiffer, capp # None,
           pc = "create", num \notin Numbers(revs),
           NEW t \in Nat, t = clock + 1, clock' = t,
           revLog' = Append(revLog, revs \cup {NewRevision(snap, num, t)})
    PROVE  /\ LogInv'
           /\ revs' = revs \cup {NewRevision(snap, num, t)}
           /\ \A s \in revs : s.num < num
           /\ \A r, s \in revs' : s.num = r.num + 1 => s.data # r.data
<1> DEFINE new == NewRevision(snap, num, t)
           R   == revs \cup {new}
<1>1. Len(revLog) \in 1..Len(revLog) /\ revLog[Len(revLog)] = revs
  BY LogShape DEF TypeOK, revs
<1>2. /\ new \in Revision /\ new.num = num /\ new.time = clock + 1
      /\ new.data = snap.data
  BY DEF TypeOK, NewRevision, Revision, Capp
<1>3. /\ revs \in SUBSET Revision /\ R \in SUBSET Revision
      /\ \A s \in Revision : s.num \in Nat \ {0} /\ s.time \in Nat
      /\ num \in Nat \ {0} /\ clock \in Nat
  BY <1>2, StoreTypes DEF TypeOK, Revision
<1>4. Ordered(revs) /\ Small(revs) /\ \A s \in revs : s.time <= clock
  BY <1>1 DEF LogInv
<1>5. \A s \in revs : s.num < num
  <2>1. \A s \in revs : s.num <= num /\ s.num # num
    BY <1>1 DEF WorkInv, Numbers
  <2> QED
    BY <1>3, <2>1
<1>6. Ordered(R)
  <2>1. \A s \in revs : s.num < new.num /\ s.time < new.time
    BY <1>2, <1>3, <1>4, <1>5
  <2> HIDE DEF new
  <2> QED
    BY <1>2, <1>3, <1>4, <2>1 DEF Ordered
<1>7. \A s \in R : s.time <= clock'
  BY <1>2, <1>3, <1>4
<1>8. Small(R)
  <2>1. PICK K \in SUBSET Revision, n \in Limits :
          /\ IsFiniteSet(K) /\ Cardinality(K) < n
          /\ \A r \in revs : r \in K \/ r \in todo \/ r.num = num
    BY DEF WorkInv
  <2>2. revs \subseteq K
    BY <1>3, <1>5, <2>1 DEF WorkInv
  <2>3. IsFiniteSet(revs) /\ Cardinality(revs) <= Cardinality(K)
    BY <2>1, <2>2, FS_Subset
  <2>4. IsFiniteSet(R) /\ Cardinality(R) <= Cardinality(revs) + 1
    <3>1. Cardinality(revs) \in Nat
      BY <2>3, FS_CardinalityType
    <3> HIDE DEF new
    <3>2. /\ IsFiniteSet(R)
          /\ Cardinality(R) = Cardinality(revs) \/ Cardinality(R) = Cardinality(revs) + 1
      BY <2>3, FS_AddElement
    <3> QED
      BY <3>1, <3>2
  <2>5. Cardinality(R) <= n
    <3>1. /\ Cardinality(R) \in Nat /\ Cardinality(revs) \in Nat
          /\ Cardinality(K) \in Nat /\ n \in Nat
      BY <2>1, <2>3, <2>4, FS_CardinalityType, LimitsAssumption
    <3> QED
      BY <2>1, <2>3, <2>4, <3>1
  <2> QED
    BY <2>1, <2>4, <2>5 DEF Small
<1>9. ASSUME NEW i \in 1..Len(revLog) PROVE Later(revLog[i], R)
  <2>1. Later(revLog[i], revs) /\ revLog[i] \in SUBSET Revision
    BY <1>1, <1>9 DEF LogInv, TypeOK
  <2>2. \A s \in revLog[i] : s.num \in Nat /\ s.num <= num
    BY <1>3, <2>1 DEF WorkInv
  <2>3. \A s \in revLog[i] : s.num < num
    <3> SUFFICES ASSUME NEW s \in revLog[i], s.num = num PROVE FALSE
      BY <1>3, <2>2
    <3>1. s \in Tops(revLog[i])
      BY <2>2 DEF Tops
    <3>2. s \in revs
      BY <2>1, <3>1 DEF Later
    <3> QED
      BY <1>3, <1>5, <3>2
  <2>4. NextAfter(revLog[i], num)
    <3>1. CASE num = 1
      <4>1. revLog[i] = {}
        BY <1>3, <2>1, <2>3, <3>1
      <4> QED
        BY <3>1, <4>1 DEF NextAfter
    <3>2. CASE num > 1
      <4>1. PICK w \in Revision : w.num = num - 1 /\ w \in revLog[i]
        BY <3>2 DEF WorkInv
      <4>2. w \in Tops(revLog[i]) /\ num = w.num + 1
        BY <1>3, <2>2, <2>3, <4>1 DEF Tops
      <4> QED
        BY <4>2 DEF NextAfter
    <3> QED
      BY <1>3, <3>1, <3>2
  <2>5. \A s \in R : s \in revLog[i] \/ NextAfter(revLog[i], s.num)
    BY <1>2, <2>1, <2>4 DEF Later
  <2>6. Tops(revLog[i]) \subseteq R
    BY <2>1 DEF Later
  <2> QED
    BY <2>5, <2>6 DEF Later
<1>10. LogInv' /\ revs' = R
  <2>1. clock' \in Nat /\ clock <= clock'
    BY <1>3
  <2> HIDE DEF R
  <2>2. revLog' = Append(revLog, R)
    BY DEF R
  <2> QED
    BY <1>3, <1>6, <1>7, <1>8, <1>9, <2>1, <2>2, LogAppend
<1>11. \A r, s \in R : s.num = r.num + 1 => s.data # r.data
  <2> SUFFICES ASSUME NEW r \in R, NEW s \in R, s.num = r.num + 1
               PROVE  s.data # r.data
    OBVIOUS
  <2>1. CASE r \in revs /\ s \in revs
    BY <2>1 DEF AdjacentRevisionsDiffer
  <2>2. CASE r \in revs /\ s = new
    <3>1. r.num = num - 1
      BY <1>2, <1>3, <2>2
    <3> QED
      BY <1>2, <2>2, <3>1 DEF WorkInv
  <2>3. CASE r = new
    <3>1. s.num = num + 1
      BY <1>2, <2>3
    <3> QED
      BY <1>2, <1>3, <1>5, <3>1
  <2> QED
    BY <2>1, <2>2, <2>3
<1> QED
  BY <1>5, <1>10, <1>11

----------------------------------------------------------------------------
(* The invariant is inductive                                              *)

LEMMA InitIInv == Init => IInv
<1> SUFFICES ASSUME Init PROVE IInv
  OBVIOUS
<1>1. capp = None /\ NothingYet
  BY DEF Init, capp, NothingYet
<1> QED
  BY <1>1, InitTypeOK DEF IInv

\* The first life of a Capp starts without revisions.
LEMMA EmptyLog ==
    ASSUME revLog' = <<{}>> PROVE LogInv' /\ revs' = {}
<1>1. Len(revLog') = 1 /\ revLog'[1] = {}
  OBVIOUS
<1>2. IsFiniteSet({}) /\ Cardinality({}) = 0
  BY FS_EmptySet
<1>3. Ordered({}) /\ Small({}) /\ Later({}, {})
  <2>1. PICK n \in Limits : n \in Nat
    BY LimitsAssumption
  <2>2. Small({})
    BY <1>2, <2>1 DEF Small
  <2> QED
    BY <2>2, LaterReflexive DEF Ordered
<1>4. \A i \in 1..1 : i = 1 /\ \A j \in i..1 : j = 1
  OBVIOUS
<1>5. revs' = {}
  BY <1>1 DEF revs
<1> QED
  BY <1>1, <1>3, <1>4, <1>5 DEF LogInv

\* With one life only, nothing of a living Capp is ever garbage.
LEMMA NothingCollected ==
    ASSUME Regular, TypeOK, capp # None, NEW r \in revs PROVE ~Collect(r)
<1>1. capp.uid = 1 /\ r.uid \in 0..1
  BY StoreTypes DEF Regular, Capp, Revision
<1> QED
  BY <1>1 DEF Collect, Alive

\* What is said of the logs stays true as long as they stay the same.
LEMMA SameLog ==
    ASSUME UNCHANGED <<cappLog, revLog, clock>>
    PROVE  /\ capp' = capp /\ revs' = revs
           /\ (LogInv => LogInv') /\ (AdjacentRevisionsDiffer => AdjacentRevisionsDiffer')
<1>1. capp' = capp /\ revs' = revs
  BY DEF capp, revs
<1>2. LogInv => LogInv'
  BY DEF LogInv
<1> QED
  BY <1>1, <1>2 DEF AdjacentRevisionsDiffer

LEMMA NextIInv == Regular /\ IInv /\ [Next]_vars => IInv'
<1> SUFFICES ASSUME Regular, IInv, [Next]_vars PROVE IInv'
  OBVIOUS
<1>t. TypeOK /\ TypeOK' /\ NothingYet
  BY NextTypeOK DEF IInv
\* Steps that end a reconciliation without a write.
<1>f. ASSUME UNCHANGED <<cappLog, lastUid, revLog, clock>>, pc' = "idle" PROVE IInv'
  <2>1. /\ capp' = capp /\ NothingYet'
        /\ (LogInv => LogInv') /\ (AdjacentRevisionsDiffer => AdjacentRevisionsDiffer')
    BY <1>t, <1>f, SameLog DEF NothingYet
  <2> QED
    BY <1>t, <1>f, <2>1 DEF IInv
\* Steps of everyone but the CappRevision controller.
<1>o. ASSUME UNCHANGED <<revLog, clock, workVars>>, NothingYet', capp' # None => capp # None
      PROVE  IInv'
  <2>1. (LogInv => LogInv') /\ (WorkInv => WorkInv')
    BY <1>o DEF LogInv, WorkInv, workVars, revs
  <2>2. capp' # None => LogInv' /\ AdjacentRevisionsDiffer'
    BY <1>o, <2>1 DEF IInv, AdjacentRevisionsDiffer, revs
  <2> QED
    BY <1>t, <1>o, <2>1, <2>2 DEF IInv, workVars
<1>w. ASSUME NEW c \in Capp \cup {None}, WriteCapp(c) PROVE capp' = c
  BY <1>w, <1>t, LogShape DEF TypeOK, WriteCapp, capp
<1>n. capp # None => lastUid # 0
  BY <1>t DEF NothingYet, capp
<1>1. CASE Reconcile
  <2>1. UNCHANGED <<cappLog, lastUid, revLog, clock>>
    BY <1>1 DEF Reconcile, userVars, revVars
  <2>2. CASE pc' = "idle"
    BY <1>f, <2>1, <2>2
  <2>3. CASE pc' # "idle"
    <3>1. PICK list \in GetCappRevisions :
            /\ Active(cappCache)
            /\ \/ list = {} /\ HandleCappCreation
               \/ list # {} /\ HandleCappUpdate(list)
      BY <1>1, <2>3 DEF Reconcile, Finish
    <3>2. capp # None /\ LogInv => WorkInv'
      BY <1>t, <2>1, <2>3, <3>1, ReconcileStep
    <3>3. lastUid # 0
      <4>1. SUFFICES ASSUME lastUid = 0 PROVE FALSE
        OBVIOUS
      <4>2. cappLog = <<None>>
        BY <1>t, <4>1 DEF NothingYet
      <4> QED
        BY <3>1, <4>2 DEF Active, cappCache
    <3>4. /\ capp' = capp /\ NothingYet'
          /\ (LogInv => LogInv') /\ (AdjacentRevisionsDiffer => AdjacentRevisionsDiffer')
      BY <2>1, <3>3, SameLog DEF NothingYet
    <3> QED
      BY <1>t, <3>2, <3>4 DEF IInv
  <2> QED
    BY <2>2, <2>3
<1>2. CASE DeleteCappRevision
  <2>1. PICK r \in Newest(todo) :
          \/ /\ revLog' = Append(revLog, {s \in revs : s.num # r.num})
             /\ \/ todo' = todo \ {r} /\ UNCHANGED <<pc, snap, num, queued>>
                \/ pc' = "idle"
          \/ Retry /\ UNCHANGED revLog
    BY <1>2 DEF DeleteCappRevision, Answered, Retry, Finish
  <2>2. UNCHANGED <<cappLog, lastUid, clock>> /\ pc = "delete" /\ r \in todo
    BY <1>2, <2>1 DEF DeleteCappRevision, userVars, Newest
  <2>3. CASE Retry /\ UNCHANGED revLog
    BY <1>f, <2>2, <2>3 DEF Retry, Finish
  <2>4. CASE /\ revLog' = Append(revLog, {s \in revs : s.num # r.num})
             /\ \/ todo' = todo \ {r} /\ UNCHANGED <<pc, snap, num, queued>>
                \/ pc' = "idle"
    <3>1. capp' = capp /\ NothingYet'
      BY <1>t, <2>2 DEF capp, NothingYet
    <3>2. ASSUME capp # None
          PROVE  LogInv' /\ (pc' # "idle" => WorkInv') /\ revs' \subseteq revs
      <4>1. LogInv /\ WorkInv
        BY <2>2, <3>2 DEF IInv
      <4>2. /\ LogInv' /\ (pc' # "idle" => WorkInv')
            /\ revs' = {s \in revs : s.num # r.num}
        BY <1>t, <2>2, <2>4, <4>1, DeleteStep
      <4> QED
        BY <4>2
    <3>3. capp # None => AdjacentRevisionsDiffer'
      BY <3>1, <3>2 DEF IInv, AdjacentRevisionsDiffer
    <3> QED
      BY <1>t, <3>1, <3>2, <3>3 DEF IInv
  <2> QED
    BY <2>1, <2>3, <2>4
<1>3. CASE NextNumber
  <2>1. UNCHANGED <<cappLog, lastUid, revLog, clock>> /\ pc = "delete" /\ todo = {}
    BY <1>3 DEF NextNumber, userVars, revVars
  <2>2. CASE Retry
    BY <1>f, <2>1, <2>2 DEF Retry, Finish
  <2>3. CASE pc' = "create" /\ UNCHANGED <<snap, num, todo>>
    <3>1. /\ capp' = capp /\ NothingYet'
          /\ (LogInv => LogInv') /\ (AdjacentRevisionsDiffer => AdjacentRevisionsDiffer')
      BY <1>t, <2>1, SameLog DEF NothingYet
    <3>2. WorkInv => WorkInv'
      BY <2>1, <2>3 DEF WorkInv, revs
    <3> QED
      BY <1>t, <2>1, <3>1, <3>2 DEF IInv
  <2> QED
    BY <1>3, <2>2, <2>3 DEF NextNumber
<1>4. CASE CreateCappRevision
  <2>1. UNCHANGED <<cappLog, lastUid>> /\ pc = "create" /\ pc' = "idle"
    BY <1>4 DEF CreateCappRevision, Answered, userVars, Retry, Finish
  <2>2. CASE UNCHANGED revVars
    BY <1>f, <2>1, <2>2 DEF revVars
  <2>3. ASSUME num \notin Numbers(revs), NEW t \in Stamps, clock' = t,
               revLog' = Append(revLog, revs \cup {NewRevision(snap, num, t)})
        PROVE  IInv'
    <3>1. t = clock + 1 /\ t \in Nat
      BY <1>t DEF Stamps, Regular, TypeOK
    <3>2. capp' = capp /\ NothingYet'
      BY <1>t, <2>1 DEF capp, NothingYet
    <3>3. ASSUME capp # None PROVE LogInv' /\ AdjacentRevisionsDiffer'
      <4>1. LogInv /\ WorkInv /\ AdjacentRevisionsDiffer
        BY <2>1, <3>3 DEF IInv
      <4>2. LogInv' /\ \A r, s \in revs' : s.num = r.num + 1 => s.data # r.data
        BY <1>t, <2>1, <2>3, <3>1, <3>3, <4>1, CreateStep
      <4> QED
        BY <4>2 DEF AdjacentRevisionsDiffer
    <3> QED
      BY <1>t, <2>1, <3>2, <3>3 DEF IInv
  <2> QED
    BY <1>4, <2>2, <2>3 DEF CreateCappRevision
<1>5. CASE CallFails
  BY <1>5, <1>f DEF CallFails, Retry, Finish, userVars, revVars
<1>6. CASE Restart
  <2>1. /\ cappLog' = <<capp>> /\ revLog' = <<revs>> /\ pc' = "idle"
        /\ UNCHANGED <<lastUid, clock>>
    BY <1>6 DEF Restart, Finish
  <2>2. capp' = capp /\ revs' = revs /\ Len(revLog') = 1 /\ revLog'[1] = revs
    BY <2>1 DEF capp, revs
  <2>3. NothingYet'
    <3>1. lastUid = 0 => capp = None /\ revs = {}
      <4>1. SUFFICES ASSUME lastUid = 0 PROVE capp = None /\ revs = {}
        OBVIOUS
      <4>2. cappLog = <<None>> /\ revLog = <<{}>>
        BY <1>t, <4>1 DEF NothingYet
      <4> QED
        BY <4>2 DEF capp, revs
    <3> QED
      BY <2>1, <3>1 DEF NothingYet
  <2>4. LogInv => LogInv'
    <3>1. Len(revLog) \in 1..Len(revLog) /\ revLog[Len(revLog)] = revs
      BY <1>t, LogShape DEF TypeOK, revs
    <3>2. \A i \in 1..1 : i = 1 /\ \A j \in i..1 : j = 1
      OBVIOUS
    <3> QED
      BY <2>1, <2>2, <3>1, <3>2, LaterReflexive DEF LogInv
  <2>5. AdjacentRevisionsDiffer => AdjacentRevisionsDiffer'
    BY <2>2 DEF AdjacentRevisionsDiffer
  <2> QED
    BY <1>t, <2>1, <2>2, <2>3, <2>4, <2>5 DEF IInv
<1>7. CASE DeliverCapp
  <2>1. Len(cappLog) > 1 /\ cappLog' = Tail(cappLog) /\ UNCHANGED <<lastUid, revLog, clock, workVars>>
    BY <1>7 DEF DeliverCapp, revVars
  <2>2. capp' = capp
    BY <1>t, <2>1, LogShape DEF TypeOK, capp
  <2>3. lastUid # 0
    BY <1>t, <2>1 DEF NothingYet
  <2>4. NothingYet'
    BY <2>1, <2>3 DEF NothingYet
  <2> QED
    BY <1>o, <2>1, <2>2, <2>4
<1>8. CASE DeliverRevisions
  <2>1. /\ Len(revLog) > 1 /\ revLog' = Tail(revLog)
        /\ UNCHANGED <<cappLog, lastUid, clock, pc, snap, num, todo>>
    BY <1>8 DEF DeliverRevisions, userVars, workVars
  <2>2. /\ revs' = revs
        /\ \A i \in 1..Len(revLog') : i + 1 \in 1..Len(revLog) /\ revLog'[i] = revLog[i + 1]
    BY <1>t, <2>1, LogTail
  <2>3. lastUid # 0
    BY <1>t, <2>1 DEF NothingYet
  <2>4. capp' = capp /\ NothingYet'
    BY <2>1, <2>3 DEF NothingYet, capp
  <2>5. LogInv => LogInv'
    <3> SUFFICES ASSUME LogInv, NEW i \in 1..Len(revLog')
                 PROVE  /\ Ordered(revLog'[i]) /\ Small(revLog'[i])
                        /\ \A r \in revLog'[i] : r.time <= clock
                        /\ \A j \in i..Len(revLog') : Later(revLog'[i], revLog'[j])
      BY <2>1 DEF LogInv
    <3>1. \A j \in i..Len(revLog') : j \in 1..Len(revLog') /\ j + 1 \in (i + 1)..Len(revLog)
      BY <1>t, <2>1, <2>2, LogShape DEF TypeOK
    <3> QED
      BY <2>2, <3>1 DEF LogInv
  <2>6. WorkInv => WorkInv'
    BY <2>1, <2>2 DEF WorkInv
  <2>7. AdjacentRevisionsDiffer => AdjacentRevisionsDiffer'
    BY <2>2, <2>4 DEF AdjacentRevisionsDiffer
  <2> QED
    BY <1>t, <2>1, <2>4, <2>5, <2>6, <2>7 DEF IInv
<1>9. ASSUME NEW d \in Data, CreateCapp(d) PROVE IInv'
  <2>1. lastUid = 0 /\ lastUid' = 1 /\ UNCHANGED <<revLog, pc>>
    BY <1>9, <1>t DEF CreateCapp, Move, revVars, workVars, Regular, TypeOK
  <2>2. revLog' = <<{}>> /\ pc' = "idle" /\ NothingYet'
    BY <1>t, <2>1 DEF NothingYet
  <2>3. LogInv' /\ revs' = {}
    BY <2>2, EmptyLog
  <2> QED
    BY <1>t, <2>2, <2>3 DEF IInv, AdjacentRevisionsDiffer
<1>10. ASSUME \/ \E d \in Data : UpdateCapp(d)
              \/ DeleteCapp \/ ensureFinalizer \/ removeFinalizer
       PROVE  IInv'
  <2>1. capp # None /\ UNCHANGED <<lastUid, revLog, clock, workVars>>
    BY <1>10 DEF UpdateCapp, DeleteCapp, ensureFinalizer, removeFinalizer, Active,
                 Move, NoMove, revVars
  <2>2. NothingYet'
    BY <1>n, <2>1 DEF NothingYet
  <2> QED
    BY <1>o, <2>1, <2>2
<1>11. ASSUME NEW n \in Limits, SetLimit(n) PROVE IInv'
  <2>1. UNCHANGED <<cappLog, lastUid, revLog, clock, workVars>>
    BY <1>11 DEF SetLimit, Move, revVars
  <2>2. capp' = capp /\ NothingYet'
    BY <1>t, <2>1 DEF capp, NothingYet, workVars
  <2> QED
    BY <1>o, <2>1, <2>2
<1>12. ASSUME NEW r \in revs, Collect(r) PROVE IInv'
  <2>1. capp = None /\ UNCHANGED <<cappLog, lastUid>>
    BY <1>12, <1>t, NothingCollected DEF Collect, NoMove
  <2>2. capp' = None
    BY <2>1 DEF capp
  <2>3. lastUid # 0
    <3>1. SUFFICES ASSUME lastUid = 0 PROVE FALSE
      OBVIOUS
    <3>2. revLog = <<{}>>
      BY <1>t, <3>1 DEF NothingYet
    <3>3. revs = {}
      BY <3>2 DEF revs
    <3> QED
      BY <1>12, <3>3
  <2>4. NothingYet'
    BY <2>1, <2>3 DEF NothingYet
  <2> QED
    BY <1>t, <2>2, <2>4 DEF IInv
<1>13. CASE UNCHANGED vars
  <2>1. UNCHANGED <<cappLog, lastUid, revLog, clock, workVars>>
    BY <1>13 DEF vars, userVars, revVars
  <2>2. capp' = capp /\ NothingYet'
    BY <1>t, <2>1 DEF capp, NothingYet, workVars
  <2> QED
    BY <1>o, <2>1, <2>2
<1> QED
  BY <1>1, <1>2, <1>3, <1>4, <1>5, <1>6, <1>7, <1>8, <1>9, <1>10, <1>11, <1>12,
     <1>13 DEF Next, Controller

\* The invariant of the reconciliation loop of the CappRevision controller: what
\* its caches and its worker know of the revisions in the API server.
THEOREM HistoryInvariant ==
    ASSUME Regular PROVE Spec => []IInv
<1>1. IInv /\ [Next]_vars => IInv'
  BY NextIInv
<1> QED
  BY <1>1, InitIInv, PTL DEF Spec

\* A revision always differs from the one numbered just before it, for every
\* number of users' updates, retries, restarts and stale reads.
THEOREM RevisionsRecordChanges ==
    ASSUME Regular PROVE Spec => []AdjacentRevisionsDiffer
<1>1. IInv => AdjacentRevisionsDiffer
  BY DEF IInv, AdjacentRevisionsDiffer
<1> QED
  BY <1>1, HistoryInvariant, PTL

\* HandleCappUpdate never leaves a Capp with more revisions than the largest
\* limit that was ever configured.
THEOREM RetentionHolds ==
    ASSUME Regular PROVE Spec => []RetentionBound
<1>1. IInv => RetentionBound
  <2> SUFFICES ASSUME IInv, capp # None
               PROVE  \E n \in Limits : Cardinality(revs) <= n
    BY DEF RetentionBound
  <2>1. Len(revLog) \in 1..Len(revLog) /\ LogInv
    BY LogShape DEF IInv, TypeOK
  <2>2. Small(revs)
    BY <2>1 DEF LogInv, revs
  <2> QED
    BY <2>2 DEF Small
<1> QED
  BY <1>1, HistoryInvariant, PTL

\* What a step does to the revisions of a living Capp: at most one is added, and
\* it has the highest number; the highest-numbered one is never removed.
LEMMA RevisionSteps ==
    ASSUME Regular, IInv, [Next]_vars, capp # None
    PROVE  /\ \A s \in revs' \ revs : \A r \in revs : r.num < s.num
           /\ \A r \in revs \ revs' : \E s \in revs' : s.num > r.num
<1>t. TypeOK /\ LogInv
  BY DEF IInv
<1>s. ASSUME revs' = revs
      PROVE  /\ \A s \in revs' \ revs : \A r \in revs : r.num < s.num
             /\ \A r \in revs \ revs' : \E s \in revs' : s.num > r.num
  BY <1>s
<1>1. CASE UNCHANGED revLog
  BY <1>s, <1>1 DEF revs
<1>2. CASE DeleteCappRevision /\ ~UNCHANGED revLog
  <2>1. PICK r \in Newest(todo) :
          revLog' = Append(revLog, {s \in revs : s.num # r.num})
    BY <1>2 DEF DeleteCappRevision
  <2>2. UNCHANGED clock /\ pc = "delete" /\ r \in todo
    BY <1>2, <2>1 DEF DeleteCappRevision, Newest
  <2>3. WorkInv
    BY <2>2 DEF IInv
  <2>4. revs' = {s \in revs : s.num # r.num} /\ \E s \in revs' : s.num > r.num
    BY <1>t, <2>1, <2>2, <2>3, DeleteStep
  <2> QED
    BY <2>4
<1>3. CASE CreateCappRevision /\ ~UNCHANGED revLog
  <2>1. PICK t \in Stamps :
          /\ num \notin Numbers(revs) /\ clock' = t
          /\ revLog' = Append(revLog, revs \cup {NewRevision(snap, num, t)})
    BY <1>3 DEF CreateCappRevision, revVars
  <2>2. pc = "create" /\ t = clock + 1 /\ t \in Nat
    BY <1>3, <1>t DEF CreateCappRevision, Stamps, Regular, TypeOK
  <2>3. WorkInv /\ AdjacentRevisionsDiffer
    BY <2>2 DEF IInv
  <2>4. revs' = revs \cup {NewRevision(snap, num, t)} /\ \A s \in revs : s.num < num
    BY <1>t, <2>1, <2>2, <2>3, CreateStep
  <2>5. NewRevision(snap, num, t).num = num
    BY DEF NewRevision
  <2> QED
    BY <2>4, <2>5
<1>4. CASE Restart
  BY <1>s, <1>4 DEF Restart, revs
<1>5. CASE DeliverRevisions
  BY <1>s, <1>5, <1>t, LogTail DEF DeliverRevisions
<1>6. \A r \in revs : ~Collect(r)
  BY <1>t, NothingCollected
<1>7. ASSUME \/ Reconcile \/ NextNumber \/ CallFails \/ DeliverCapp
             \/ \E d \in Data : CreateCapp(d) \/ UpdateCapp(d)
             \/ DeleteCapp \/ ensureFinalizer \/ removeFinalizer
             \/ \E n \in Limits : SetLimit(n)
      PROVE  UNCHANGED revLog
  BY <1>7 DEF Reconcile, NextNumber, CallFails, DeliverCapp, CreateCapp, UpdateCapp,
              DeleteCapp, ensureFinalizer, removeFinalizer, SetLimit, Move, revVars
<1>8. UNCHANGED vars => UNCHANGED revLog
  BY DEF vars, revVars
<1> QED
  BY <1>1, <1>2, <1>3, <1>4, <1>5, <1>6, <1>7, <1>8 DEF Next, Controller

\* CreateCappRevision appends: a new revision of a living Capp has a number
\* greater than every other's, although the number was computed from a list
\* that may be stale by the time of the write.
THEOREM NumbersOnlyGrow ==
    ASSUME Regular PROVE Spec => NumbersGrow
<1>1. IInv /\ [Next]_vars =>
        [capp # None => \A s \in revs' \ revs : \A r \in revs : r.num < s.num]_revLog
  BY RevisionSteps
<1> QED
  BY <1>1, HistoryInvariant, PTL DEF Spec, NumbersGrow

\* Retention never removes the highest-numbered revision of a living Capp.
THEOREM LatestIsKept ==
    ASSUME Regular PROVE Spec => LatestSurvives
<1>1. IInv /\ [Next]_vars =>
        [\A r \in revs \ revs' : Alive(r) => \E s \in revs' : s.num > r.num]_revLog
  BY RevisionSteps DEF Alive
<1> QED
  BY <1>1, HistoryInvariant, PTL DEF Spec, LatestSurvives
=============================================================================
