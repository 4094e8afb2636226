----------------------- MODULE RevisionHistoryProofs -----------------------
(***************************************************************************)
(* Proof that the CappRevision controller implements RevisionHistory, for  *)
(* every set of data, every set of limits and every number of steps and    *)
(* failures.                                                               *)
(***************************************************************************)
EXTENDS CappRevisionsProofs

----------------------------------------------------------------------------
(* What retention leaves behind                                            *)

\* As many newer revisions as some limit keeps are in the API server.
Covered(r) ==
    \E n \in Limits : \E K \in SUBSET revs :
        /\ IsFiniteSet(K) /\ Cardinality(K) = n - 1
        /\ \A k \in K : r.num < k.num

\* Whatever an informer still lists, and is gone, was deleted for the sake of
\* newer revisions that are there: a stale list makes nobody delete too much.
GoneCovered ==
    \A i \in 1..Len(revLog) : \A r \in revLog[i] : r \in revs \/ Covered(r)

TodoCovered == \A t \in todo : Covered(t)

\* IInv says what the next number and the next data are; this, what is left.
RetentionInv ==
    /\ IInv
    /\ capp # None => GoneCovered
    /\ capp # None /\ pc # "idle" => TodoCovered

\* What covers a revision covers every older one.
LEMMA CoveredOlder ==
    ASSUME NEW r \in Revision, NEW s \in Revision, s.num <= r.num, Covered(r),
           revs \in SUBSET Revision
    PROVE  Covered(s)
<1>1. PICK n \in Limits, K \in SUBSET revs :
        /\ IsFiniteSet(K) /\ Cardinality(K) = n - 1
        /\ \A k \in K : r.num < k.num
  BY DEF Covered
<1>2. \A k \in K : s.num < k.num
  BY <1>1 DEF Revision
<1> QED
  BY <1>1, <1>2 DEF Covered

\* Recording a revision uncovers nothing.
LEMMA CoveredGrows ==
    ASSUME NEW r, Covered(r), revs \subseteq revs'
    PROVE  Covered(r)'
<1>1. PICK n \in Limits, K \in SUBSET revs :
        /\ IsFiniteSet(K) /\ Cardinality(K) = n - 1
        /\ \A k \in K : r.num < k.num
  BY DEF Covered
<1>2. K \in SUBSET revs'
  BY <1>1
<1> QED
  BY <1>1, <1>2 DEF Covered

\* Deleting a covered revision uncovers nothing: what it covered, its own cover
\* covers.
LEMMA CoveredDelete ==
    ASSUME NEW d \in Revision, NEW r \in Revision, Covered(d), Covered(r),
           revs \in SUBSET Revision, revs' = {s \in revs : s.num # d.num}
    PROVE  Covered(r)'
<1>n. \A s \in Revision : s.num \in Nat
  BY DEF Revision
<1>1. PICK n \in Limits, K \in SUBSET revs :
        /\ IsFiniteSet(K) /\ Cardinality(K) = n - 1
        /\ \A k \in K : r.num < k.num
  BY DEF Covered
<1>2. PICK m \in Limits, D \in SUBSET revs :
        /\ IsFiniteSet(D) /\ Cardinality(D) = m - 1
        /\ \A k \in D : d.num < k.num
  BY DEF Covered
<1>3. D \in SUBSET revs'
  BY <1>n, <1>2
<1>4. CASE \A k \in K : k.num # d.num
  <2>1. K \in SUBSET revs'
    BY <1>1, <1>4
  <2> QED
    BY <1>1, <2>1 DEF Covered
<1>5. ASSUME NEW k \in K, k.num = d.num PROVE Covered(r)'
  <2>1. r.num < d.num
    BY <1>1, <1>5
  <2>2. \A e \in D : r.num < e.num
    BY <1>n, <1>2, <2>1
  <2> QED
    BY <1>2, <1>3, <2>2 DEF Covered
<1> QED
  BY <1>4, <1>5

\* A write to the API server keeps what is said of the older versions.
LEMMA GoneAppend ==
    ASSUME TypeOK, GoneCovered, NEW R \in SUBSET Revision,
           revLog' = Append(revLog, R), revs' = R,
           \A r \in Revision : Covered(r) => Covered(r)',
           \A r \in revs \ R : Covered(r)'
    PROVE  GoneCovered'
<1>1. /\ Len(revLog) \in Nat \ {0} /\ Len(revLog') = Len(revLog) + 1
      /\ \A i \in 1..Len(revLog) : revLog'[i] = revLog[i]
      /\ revLog'[Len(revLog) + 1] = R
  BY LogShape DEF TypeOK
<1>2. ASSUME NEW i \in 1..Len(revLog), NEW r \in revLog[i]
      PROVE  r \in R \/ Covered(r)'
  <2>1. r \in Revision
    BY DEF TypeOK
  <2> QED
    BY <2>1 DEF GoneCovered
<1>3. ASSUME NEW i \in 1..Len(revLog'), NEW r \in revLog'[i]
      PROVE  r \in revs' \/ Covered(r)'
  <2>1. CASE i \in 1..Len(revLog)
    BY <1>1, <1>2, <1>3, <2>1
  <2>2. CASE i = Len(revLog) + 1
    BY <1>1, <1>3, <2>2
  <2> QED
    BY <1>1, <2>1, <2>2
<1> QED
  BY <1>3 DEF GoneCovered

\* The revisions HandleCappUpdate decides to delete are covered: by those it
\* keeps, or, if its list is stale and one of these is gone, by what covers
\* that one.
LEMMA SplitCovers ==
    ASSUME Regular, TypeOK, LogInv, GoneCovered,
           NEW latest, NEW keep \in Split(revCache, latest, limit - 1),
           NEW t \in revCache \ keep
    PROVE  Covered(t)
<1>1. 1 \in 1..Len(revLog) /\ revCache = revLog[1]
  BY LogShape DEF TypeOK, revCache
<1>2. Ordered(revCache) /\ Small(revCache)
  BY <1>1 DEF LogInv
<1>3. /\ keep \in SUBSET revCache /\ Cardinality(keep) = limit - 1
      /\ \A k \in keep : t.time <= k.time
  BY DEF Split
<1>4. revCache \in SUBSET Revision /\ revs \in SUBSET Revision
  BY StoreTypes
<1>5. \A s \in Revision : s.num \in Nat /\ s.time \in Nat
  BY DEF Revision
<1>6. ASSUME NEW k \in keep PROVE t.num < k.num
  <2>1. k \in revCache /\ t \in revCache /\ k # t /\ t.time <= k.time
    BY <1>3
  <2>2. t.num # k.num /\ ~(k.time < t.time)
    BY <1>2, <1>4, <1>5, <2>1 DEF Ordered
  <2>3. ~(k.num < t.num)
    BY <1>2, <2>1, <2>2 DEF Ordered
  <2> QED
    BY <1>4, <1>5, <2>1, <2>2, <2>3
<1>7. CASE keep \subseteq revs
  <2>1. IsFiniteSet(keep) /\ limit \in Limits
    BY <1>2, <1>3, FS_Subset DEF Small, TypeOK
  <2> QED
    BY <1>3, <1>6, <1>7, <2>1 DEF Covered
<1>8. ASSUME NEW k \in keep, k \notin revs PROVE Covered(t)
  <2>1. Covered(k)
    BY <1>1, <1>3, <1>8 DEF GoneCovered
  <2>2. t \in Revision /\ k \in Revision /\ t.num <= k.num
    BY <1>3, <1>4, <1>5, <1>6
  <2> QED
    BY <1>4, <2>1, <2>2, CoveredOlder
<1> QED
  BY <1>7, <1>8

\* As long as the revisions stay the same, so does what covers them.
LEMMA SameRevisions ==
    ASSUME revs' = revs
    PROVE  \A r : Covered(r) => Covered(r)'
BY DEF Covered

\* The invariant is inductive.
LEMMA NextRetentionInv == Regular /\ RetentionInv /\ [Next]_vars => RetentionInv'
<1> SUFFICES ASSUME Regular, RetentionInv, [Next]_vars PROVE RetentionInv'
  OBVIOUS
<1>t. IInv /\ IInv' /\ TypeOK /\ NothingYet
  BY NextIInv DEF RetentionInv, IInv
\* Steps that leave the revisions alone, and the worker too or idle.
<1>o. ASSUME UNCHANGED revLog, capp' # None => capp # None,
             pc' = "idle" \/ (pc # "idle" /\ UNCHANGED todo)
      PROVE  RetentionInv'
  <2>1. revs' = revs
    BY <1>o DEF revs
  <2>2. (GoneCovered => GoneCovered') /\ (UNCHANGED todo => (TodoCovered => TodoCovered'))
    BY <1>o, <2>1, SameRevisions DEF GoneCovered, TodoCovered
  <2> QED
    BY <1>t, <1>o, <2>2 DEF RetentionInv
<1>c. UNCHANGED cappLog => capp' = capp
  BY DEF capp
<1>1. CASE Reconcile
  <2>1. UNCHANGED <<cappLog, revLog>> /\ revs' = revs
    BY <1>1 DEF Reconcile, userVars, revVars, revs
  <2>2. CASE pc' = "idle"
    BY <1>c, <1>o, <2>1, <2>2
  <2>3. ASSUME pc' # "idle", capp # None PROVE TodoCovered'
    <3>1. LogInv /\ GoneCovered
      BY <1>t, <2>3 DEF RetentionInv, IInv
    <3>2. PICK list \in GetCappRevisions :
            \/ HandleCappCreation
            \/ list # {} /\ HandleCappUpdate(list)
      BY <1>1, <2>3 DEF Reconcile, Finish
    <3>3. list = revCache
      BY <1>t, <3>1, WholeList
    <3>4. todo' = {} \/ \E latest \in Newest(revCache) :
            \E keep \in Split(revCache, latest, limit - 1) : todo' = revCache \ keep
      BY <3>2, <3>3 DEF HandleCappCreation, HandleCappUpdate, Begin, Finish
    <3>5. \A s \in todo' : Covered(s)
      BY <1>t, <3>1, <3>4, SplitCovers
    <3> QED
      BY <2>1, <3>5, SameRevisions DEF TodoCovered
  <2>4. capp # None => GoneCovered'
    BY <2>1, SameRevisions DEF RetentionInv, GoneCovered
  <2> QED
    BY <1>c, <1>t, <2>1, <2>2, <2>3, <2>4 DEF RetentionInv
<1>2. CASE DeleteCappRevision
  <2>1. PICK r \in Newest(todo) :
          \/ /\ revLog' = Append(revLog, {s \in revs : s.num # r.num})
             /\ \/ todo' = todo \ {r} /\ UNCHANGED pc
                \/ pc' = "idle"
          \/ pc' = "idle" /\ UNCHANGED revLog
    BY <1>2 DEF DeleteCappRevision, Answered, Retry, Finish
  <2>2. UNCHANGED <<cappLog, clock>> /\ pc = "delete" /\ r \in todo
    BY <1>2, <2>1 DEF DeleteCappRevision, userVars, Newest
  <2>3. CASE pc' = "idle" /\ UNCHANGED revLog
    BY <1>c, <1>o, <2>2, <2>3
  <2>4. CASE /\ revLog' = Append(revLog, {s \in revs : s.num # r.num})
             /\ \/ todo' = todo \ {r} /\ UNCHANGED pc
                \/ pc' = "idle"
    <3>1. SUFFICES ASSUME capp # None
                   PROVE  GoneCovered' /\ (pc' # "idle" => TodoCovered')
      BY <1>c, <1>t, <2>2 DEF RetentionInv
    <3>2. LogInv /\ WorkInv /\ GoneCovered /\ TodoCovered
      BY <1>t, <2>2, <3>1 DEF RetentionInv, IInv
    <3>3. revs' = {s \in revs : s.num # r.num}
      BY <1>t, <2>2, <2>4, <3>2, DeleteStep
    <3>4. revs \in SUBSET Revision /\ todo \in SUBSET Revision /\ Covered(r)
      BY <1>t, <2>2, <3>2, StoreTypes DEF TypeOK, TodoCovered
    <3>5. \A s \in Revision : Covered(s) => Covered(s)'
      BY <2>2, <3>3, <3>4, CoveredDelete
    <3>6. ASSUME NEW s \in revs \ {q \in revs : q.num # r.num} PROVE Covered(s)'
      <4>1. s \in Revision /\ r \in Revision /\ s.num <= r.num
        BY <2>2, <3>4 DEF Revision
      <4>2. Covered(s)
        BY <3>4, <4>1, CoveredOlder
      <4> QED
        BY <3>5, <4>1, <4>2
    <3>7. GoneCovered'
      <4>1. {s \in revs : s.num # r.num} \in SUBSET Revision
        BY <3>4
      <4> QED
        BY <1>t, <2>4, <3>2, <3>3, <3>5, <3>6, <4>1, GoneAppend
    <3>8. todo' = todo \ {r} => TodoCovered'
      BY <3>2, <3>4, <3>5 DEF TodoCovered
    <3> QED
      BY <2>4, <3>7, <3>8
  <2> QED
    BY <2>1, <2>3, <2>4
<1>3. CASE NextNumber
  <2>1. UNCHANGED <<cappLog, revLog>> /\ pc # "idle" /\ (pc' = "idle" \/ UNCHANGED todo)
    BY <1>3 DEF NextNumber, userVars, revVars, Retry, Finish
  <2> QED
    BY <1>c, <1>o, <2>1
<1>4. CASE CreateCappRevision
  <2>1. UNCHANGED cappLog /\ pc' = "idle"
    BY <1>4 DEF CreateCappRevision, Answered, userVars, Retry, Finish
  <2>2. CASE UNCHANGED revLog
    BY <1>c, <1>o, <2>1, <2>2
  <2>3. ASSUME NEW t \in Stamps,
               revLog' = Append(revLog, revs \cup {NewRevision(snap, num, t)}),
               clock' = t, num \notin Numbers(revs), capp # None
        PROVE  GoneCovered'
    <3>1. /\ LogInv /\ WorkInv /\ AdjacentRevisionsDiffer /\ GoneCovered
          /\ pc = "create"
      BY <1>4, <1>t, <2>3 DEF RetentionInv, IInv, CreateCappRevision
    <3>2. t = clock + 1 /\ t \in Nat
      BY <1>t DEF Stamps, Regular, TypeOK
    <3>3. revs' = revs \cup {NewRevision(snap, num, t)}
      BY <1>t, <2>3, <3>1, <3>2, CreateStep
    <3>4. revs \cup {NewRevision(snap, num, t)} \in SUBSET Revision
      <4>1. TypeOK'
        BY <1>t DEF IInv
      <4> QED
        BY <3>3, <4>1, LogTypes DEF TypeOK, revs
    <3>5. \A s \in Revision : Covered(s) => Covered(s)'
      BY <3>3, CoveredGrows
    <3> QED
      BY <1>t, <2>3, <3>1, <3>3, <3>4, <3>5, GoneAppend
  <2>4. UNCHANGED revLog \/ \E t \in Stamps :
          /\ num \notin Numbers(revs) /\ clock' = t
          /\ revLog' = Append(revLog, revs \cup {NewRevision(snap, num, t)})
    BY <1>4 DEF CreateCappRevision, revVars
  <2> QED
    BY <1>c, <1>t, <2>1, <2>2, <2>3, <2>4 DEF RetentionInv
<1>5. CASE CallFails
  BY <1>5, <1>c, <1>o DEF CallFails, Retry, Finish, userVars, revVars
<1>6. CASE Restart
  <2>1. capp' = capp /\ pc' = "idle" /\ revs' = revs /\ Len(revLog') = 1 /\ revLog'[1] = revs
    BY <1>6 DEF Restart, Finish, capp, revs
  <2>2. GoneCovered'
    BY <2>1 DEF GoneCovered
  <2> QED
    BY <1>t, <2>1, <2>2 DEF RetentionInv
<1>7. CASE DeliverCapp
  <2>1. Len(cappLog) > 1 /\ cappLog' = Tail(cappLog) /\ UNCHANGED <<revLog, pc, todo>>
    BY <1>7 DEF DeliverCapp, revVars, workVars
  <2>2. capp' = capp
    BY <1>t, <2>1, LogShape DEF TypeOK, capp
  <2> QED
    BY <1>o, <2>1, <2>2
<1>8. CASE DeliverRevisions
  <2>1. /\ Len(revLog) > 1 /\ revLog' = Tail(revLog)
        /\ UNCHANGED <<cappLog, pc, todo>>
    BY <1>8 DEF DeliverRevisions, userVars, workVars
  <2>2. /\ revs' = revs
        /\ \A i \in 1..Len(revLog') : i + 1 \in 1..Len(revLog) /\ revLog'[i] = revLog[i + 1]
    BY <1>t, <2>1, LogTail
  <2>3. GoneCovered => GoneCovered'
    BY <2>2, SameRevisions DEF GoneCovered
  <2>4. TodoCovered => TodoCovered'
    BY <2>1, <2>2, SameRevisions DEF TodoCovered
  <2> QED
    BY <1>c, <1>t, <2>1, <2>3, <2>4 DEF RetentionInv
<1>9. ASSUME NEW d \in Data, CreateCapp(d) PROVE RetentionInv'
  <2>1. lastUid = 0 /\ UNCHANGED <<revLog, pc>>
    BY <1>9, <1>t DEF CreateCapp, Move, revVars, workVars, Regular, TypeOK
  <2>2. revLog' = <<{}>> /\ pc' = "idle"
    BY <1>t, <2>1 DEF NothingYet
  <2>3. GoneCovered'
    BY <2>2 DEF GoneCovered
  <2> QED
    BY <1>t, <2>2, <2>3 DEF RetentionInv
<1>10. ASSUME \/ \E d \in Data : UpdateCapp(d)
              \/ DeleteCapp \/ ensureFinalizer \/ removeFinalizer
       PROVE  RetentionInv'
  <2>1. capp # None /\ UNCHANGED <<revLog, pc, todo>>
    BY <1>10 DEF UpdateCapp, DeleteCapp, ensureFinalizer, removeFinalizer, Active,
                 Move, NoMove, revVars, workVars
  <2> QED
    BY <1>o, <2>1
<1>11. ASSUME NEW n \in Limits, SetLimit(n) PROVE RetentionInv'
  <2>1. UNCHANGED <<cappLog, revLog, pc, todo>>
    BY <1>11 DEF SetLimit, Move, revVars, workVars
  <2> QED
    BY <1>c, <1>o, <2>1
<1>12. ASSUME NEW r \in revs, Collect(r) PROVE RetentionInv'
  <2>1. capp = None /\ UNCHANGED cappLog
    BY <1>12, <1>t, NothingCollected DEF Collect
  <2> QED
    BY <1>c, <1>t, <2>1 DEF RetentionInv
<1>13. CASE UNCHANGED vars
  <2>1. UNCHANGED <<cappLog, revLog, pc, todo>>
    BY <1>13 DEF vars, userVars, revVars, workVars
  <2> QED
    BY <1>c, <1>o, <2>1
<1> QED
  BY <1>1, <1>2, <1>3, <1>4, <1>5, <1>6, <1>7, <1>8, <1>9, <1>10, <1>11, <1>12,
     <1>13 DEF Next, Controller

----------------------------------------------------------------------------
(* The refinement                                                          *)

\* What RevisionHistory sees of a revision, and of all of them.
Entry(r) == [num |-> r.num, data |-> r.data]

Entries(R) == {Entry(r) : r \in R}

\* Numbers are unique, so no two revisions have the same entry.
LEMMA EntriesCount ==
    ASSUME NEW R \in SUBSET Revision, Ordered(R), IsFiniteSet(R)
    PROVE  Cardinality(Entries(R)) = Cardinality(R)
<1> DEFINE f == [r \in R |-> Entry(r)]
<1>1. \A r, s \in R : Entry(r) = Entry(s) => r = s
  <2> SUFFICES ASSUME NEW r \in R, NEW s \in R, Entry(r) = Entry(s) PROVE r = s
    OBVIOUS
  <2>1. r.num = s.num
    BY DEF Entry
  <2> QED
    BY <2>1 DEF Ordered
<1>2. f \in [R -> Entries(R)]
  BY DEF Entries
<1>3. \A a, b \in R : f[a] = f[b] => a = b
  BY <1>1
<1>4. \A e \in Entries(R) : \E r \in R : f[r] = e
  BY DEF Entries
<1>5. f \in Bijection(R, Entries(R))
  <2> HIDE DEF f
  <2> QED
    BY <1>2, <1>3, <1>4 DEF Bijection, Injection, Surjection, IsInjective
<1>6. ExistsBijection(R, Entries(R))
  BY <1>5 DEF ExistsBijection
<1> QED
  BY <1>6, FS_Bijection

\* The revisions a living Capp has, when the invariant holds.
InOrder ==
    /\ revs \in SUBSET Revision /\ Ordered(revs) /\ Small(revs)
    /\ IsFiniteSet(revs) /\ Cardinality(Entries(revs)) = Cardinality(revs)

LEMMA RevisionsInOrder == IInv /\ capp # None => InOrder
<1> SUFFICES ASSUME IInv, capp # None PROVE InOrder
  OBVIOUS
<1>1. Len(revLog) \in 1..Len(revLog) /\ LogInv /\ revs = revLog[Len(revLog)]
  BY LogShape DEF IInv, TypeOK, revs
<1>2. Ordered(revs) /\ Small(revs) /\ revs \in SUBSET Revision
  BY <1>1, StoreTypes DEF LogInv, IInv
<1> QED
  BY <1>2, EntriesCount DEF Small, InOrder

\* RevisionHistory counts with an instance of FiniteSets of its own.
LEMMA SameCount == \A S : History!Cardinality(S) = Cardinality(S)
BY DEF History!Cardinality, Cardinality

\* DeleteCappRevision forgets an entry that is not the latest one, and only
\* when a limit is reached.
LEMMA DeleteForgets ==
    ASSUME RetentionInv, capp # None, pc = "delete", NEW d \in todo,
           d.num \in Numbers(revs), UNCHANGED clock, UNCHANGED cappLog,
           revLog' = Append(revLog, {s \in revs : s.num # d.num})
    PROVE  \E e \in Entries(revs) : History!Forget(e)
<1>1. /\ IInv /\ TypeOK /\ LogInv /\ WorkInv /\ TodoCovered
  BY DEF RetentionInv, IInv
<1>2. /\ revs \in SUBSET Revision /\ Ordered(revs) /\ IsFiniteSet(revs)
      /\ Cardinality(Entries(revs)) = Cardinality(revs)
  BY <1>1, RevisionsInOrder DEF InOrder
<1>3. revs' = {s \in revs : s.num # d.num} /\ \E s \in revs' : s.num > d.num
  BY <1>1, DeleteStep
<1>n. \A s \in Revision : s.num \in Nat
  BY DEF Revision
<1>4. PICK g \in revs : g.num = d.num
  BY DEF Numbers
<1>5. revs' = revs \ {g}
  BY <1>2, <1>3, <1>4 DEF Ordered
<1>6. Entry(g) \in Entries(revs)
  BY <1>4 DEF Entries
<1>7. Entries(revs') = Entries(revs) \ {Entry(g)}
  <2>1. \A s \in revs : Entry(s) = Entry(g) <=> s = g
    <3> SUFFICES ASSUME NEW s \in revs, Entry(s) = Entry(g) PROVE s = g
      OBVIOUS
    <3>1. s.num = g.num
      BY DEF Entry
    <3> QED
      BY <1>2, <1>4, <3>1 DEF Ordered
  <2> QED
    BY <1>5, <2>1 DEF Entries
<1>8. ~\A e \in Entries(revs) : e.num <= Entry(g).num
  <2>1. PICK s \in revs : s.num > g.num
    BY <1>3, <1>4
  <2>2. Entry(s) \in Entries(revs) /\ Entry(s).num = s.num /\ Entry(g).num = g.num
    BY <2>1 DEF Entries, Entry
  <2> QED
    BY <1>2, <1>4, <1>n, <2>1, <2>2
<1>9. \E n \in Limits : Cardinality(Entries(revs)) >= n
  <2>1. PICK n \in Limits, K \in SUBSET revs :
          /\ IsFiniteSet(K) /\ Cardinality(K) = n - 1
          /\ \A k \in K : d.num < k.num
    BY <1>1 DEF TodoCovered, Covered
  <2>2. g \notin K /\ K \cup {g} \in SUBSET revs
    <3>1. d \in Revision /\ d.num \in Nat
      BY <1>1, <1>n DEF TypeOK
    <3> QED
      BY <1>4, <2>1, <3>1
  <2>3. n \in Nat
    BY LimitsAssumption
  <2>4. Cardinality(K \cup {g}) = n
    <3>1. Cardinality(K \cup {g}) = Cardinality(K) + 1
      BY <2>1, <2>2, FS_AddElement
    <3> QED
      BY <2>1, <2>3, <3>1
  <2>5. Cardinality(K \cup {g}) <= Cardinality(revs) /\ Cardinality(revs) \in Nat
    BY <1>2, <2>2, FS_Subset, FS_CardinalityType
  <2> QED
    BY <1>2, <2>3, <2>4, <2>5
<1>10. capp' = capp
  BY DEF capp
<1>11. History!Forget(Entry(g))
  BY <1>6, <1>7, <1>8, <1>9, <1>10, SameCount DEF History!Forget, History!IsLatest, Entries, Entry
<1> QED
  BY <1>6, <1>11

\* CreateCappRevision records what the worker read of the Capp: under the next
\* number, different from the latest entry, and within a limit.
LEMMA CreateRecords ==
    ASSUME RetentionInv, IInv', capp # None, pc = "create", num \notin Numbers(revs),
           NEW t \in Nat, t = clock + 1, clock' = t, UNCHANGED cappLog,
           revLog' = Append(revLog, revs \cup {NewRevision(snap, num, t)})
    PROVE  \E d \in Data : History!Record(d)
<1> DEFINE new == NewRevision(snap, num, t)
<1>1. IInv /\ TypeOK /\ LogInv /\ WorkInv /\ AdjacentRevisionsDiffer
  BY DEF RetentionInv, IInv
<1>2. revs' = revs \cup {new} /\ \A s \in revs : s.num < num
  BY <1>1, CreateStep
<1>3. revs \in SUBSET Revision /\ Ordered(revs)
  BY <1>1, RevisionsInOrder DEF InOrder
<1>n. \A s \in Revision : s.num \in Nat \ {0}
  BY DEF Revision
<1>4. /\ snap.data \in Data /\ num \in Nat \ {0}
      /\ Entry(new) = [num |-> num, data |-> snap.data]
  BY <1>1 DEF TypeOK, Capp, Entry, NewRevision
<1>d. PICK d \in Data : d = snap.data
  BY <1>4
<1>5. Entries(revs') = Entries(revs) \cup {Entry(new)}
  BY <1>2 DEF Entries
<1>6. capp' = capp
  BY DEF capp
<1>7. \E n \in Limits : Cardinality(Entries(revs')) <= n
  <2>1. (capp # None)'
    BY <1>6
  <2>2. InOrder'
    BY <2>1, RevisionsInOrder, PTL
  <2> QED
    BY <2>2 DEF InOrder, Small
<1>8. CASE num = 1
  <2>1. revs = {}
    BY <1>2, <1>3, <1>8, <1>n
  <2>2. Entries(revs) = {}
    BY <2>1 DEF Entries
  <2>3. Entries(revs') = {[num |-> 1, data |-> d]}
    BY <1>4, <1>5, <1>8, <1>d, <2>2
  <2>4. History!Record(d)
    BY <1>6, <1>7, <2>2, <2>3, SameCount DEF History!Record, Entries, Entry
  <2> QED
    BY <2>4
<1>9. CASE num > 1
  <2>1. PICK w \in Revision : w.num = num - 1 /\ \A i \in 1..Len(revLog) : w \in revLog[i]
    BY <1>1, <1>9 DEF WorkInv
  <2>2. w \in revs
    BY <1>1, <2>1, LogShape DEF TypeOK, revs
  <2>3. d # w.data
    BY <1>1, <1>d, <2>1, <2>2 DEF WorkInv
  <2>4. \A e \in Entries(revs) : e.num <= Entry(w).num
    <3> SUFFICES ASSUME NEW s \in revs PROVE Entry(s).num <= Entry(w).num
      BY DEF Entries
    <3>1. s.num < num /\ s.num \in Nat
      BY <1>2, <1>3, <1>n
    <3>2. Entry(s).num = s.num /\ Entry(w).num = w.num
      BY DEF Entry
    <3> QED
      BY <1>4, <2>1, <3>1, <3>2
  <2>5. /\ Entry(w) \in Entries(revs) /\ Entry(w).data = w.data
        /\ Entry(w).num + 1 = num
    BY <1>4, <2>1, <2>2 DEF Entries, Entry
  <2>6. Entries(revs') = Entries(revs) \cup {[num |-> Entry(w).num + 1, data |-> d]}
    BY <1>4, <1>5, <1>d, <2>5
  <2>7. History!Record(d)
    <3>1. History!IsLatest(Entry(w))
      BY <2>4, <2>5 DEF History!IsLatest, Entries, Entry
    <3>2. \E e \in Entries(revs) :
            /\ History!IsLatest(e) /\ d # e.data
            /\ Entries(revs') = Entries(revs) \cup {[num |-> e.num + 1, data |-> d]}
      BY <2>3, <2>5, <2>6, <3>1
    <3> QED
      BY <1>6, <1>7, <3>2, SameCount DEF History!Record, Entries, Entry
  <2> QED
    BY <2>7
<1> QED
  BY <1>4, <1>8, <1>9

\* What happens to a Capp that is gone is not RevisionHistory's business.
LEMMA Decays ==
    ASSUME capp' = capp, capp = None
    PROVE  [History!Next]_(History!vars)
<1>1. History!Decay
  BY DEF History!Decay
<1> QED
  BY <1>1 DEF History!Next

\* Steps that leave the revisions alone: the Capp comes, goes or stays.
LEMMA Turns ==
    ASSUME revs' = revs
    PROVE  [History!Next]_(History!vars)
<1>1. Entries(revs') = Entries(revs)
  OBVIOUS
<1>2. CASE (capp # None)' = (capp # None)
  BY <1>1, <1>2 DEF History!vars, Entries, Entry
<1>3. CASE (capp # None)' = ~(capp # None)
  <2>1. History!Turn
    BY <1>1, <1>3 DEF History!Turn, Entries, Entry
  <2> QED
    BY <2>1 DEF History!Next
<1> QED
  BY <1>2, <1>3

\* Every step of the controller is a step of RevisionHistory, or none.
LEMMA NextRefines ==
    Regular /\ RetentionInv /\ [Next]_vars => [History!Next]_(History!vars)
<1> SUFFICES ASSUME Regular, RetentionInv, [Next]_vars
             PROVE  [History!Next]_(History!vars)
  OBVIOUS
<1>t. IInv /\ IInv' /\ TypeOK
  BY NextIInv DEF RetentionInv, IInv
<1>s. UNCHANGED revLog => [History!Next]_(History!vars)
  BY Turns DEF revs
<1>1. CASE DeleteCappRevision /\ ~UNCHANGED revLog
  <2>1. PICK d \in Newest(todo) :
          /\ d.num \in Numbers(revs)
          /\ revLog' = Append(revLog, {s \in revs : s.num # d.num})
    BY <1>1 DEF DeleteCappRevision
  <2>2. UNCHANGED <<cappLog, clock>> /\ pc = "delete" /\ d \in todo /\ capp' = capp
    BY <1>1, <2>1 DEF DeleteCappRevision, userVars, Newest, capp
  <2>3. CASE capp # None
    <3>1. PICK e \in Entries(revs) : History!Forget(e)
      BY <2>1, <2>2, <2>3, DeleteForgets
    <3> QED
      BY <3>1 DEF History!Next, Entries, Entry
  <2> QED
    BY <2>2, <2>3, Decays
<1>2. CASE CreateCappRevision /\ ~UNCHANGED revLog
  <2>1. PICK t \in Stamps :
          /\ num \notin Numbers(revs) /\ clock' = t
          /\ revLog' = Append(revLog, revs \cup {NewRevision(snap, num, t)})
    BY <1>2 DEF CreateCappRevision, revVars
  <2>2. /\ UNCHANGED cappLog /\ capp' = capp /\ pc = "create"
        /\ t = clock + 1 /\ t \in Nat
    BY <1>2, <1>t, <2>1 DEF CreateCappRevision, userVars, Stamps, Regular, TypeOK, capp
  <2>3. CASE capp # None
    <3>1. PICK d \in Data : History!Record(d)
      BY <1>t, <2>1, <2>2, <2>3, CreateRecords
    <3> QED
      BY <3>1 DEF History!Next
  <2> QED
    BY <2>2, <2>3, Decays
<1>3. CASE UNCHANGED revLog
  BY <1>s, <1>3
<1>4. CASE \/ Reconcile \/ NextNumber \/ CallFails \/ DeliverCapp
           \/ \E d \in Data : CreateCapp(d) \/ UpdateCapp(d)
           \/ DeleteCapp \/ ensureFinalizer \/ removeFinalizer
           \/ \E n \in Limits : SetLimit(n)
  <2>1. UNCHANGED revLog
    BY <1>4 DEF Reconcile, NextNumber, CallFails, DeliverCapp, CreateCapp, UpdateCapp,
                DeleteCapp, ensureFinalizer, removeFinalizer, SetLimit, Move, revVars
  <2> QED
    BY <1>s, <2>1
<1>5. CASE Restart
  BY <1>5, Turns DEF Restart, revs
<1>6. CASE DeliverRevisions
  BY <1>6, <1>t, LogTail, Turns DEF DeliverRevisions
<1>7. ASSUME NEW r \in revs, Collect(r) PROVE [History!Next]_(History!vars)
  <2>1. capp = None /\ capp' = capp
    BY <1>7, <1>t, NothingCollected DEF Collect, capp
  <2> QED
    BY <2>1, Decays
<1>8. CASE UNCHANGED vars
  BY <1>8, <1>s DEF vars, revVars
<1> QED
  BY <1>1, <1>2, <1>3, <1>4, <1>5, <1>6, <1>7, <1>8 DEF Next, Controller

\* The CappRevision controller implements RevisionHistory: whatever its caches
\* lag, however often its calls fail and whenever the limit changes, all that
\* ever happens to the revisions of a living Capp is that a change is recorded
\* under the next number, or that an old revision is forgotten while there are
\* as many as a limit allows.
THEOREM HistoryRefined ==
    ASSUME Regular PROVE Spec => ImplementsHistory
<1>1. Init => RetentionInv
  <2>1. Init => capp = None
    BY DEF Init, capp
  <2> QED
    BY <2>1, InitIInv DEF RetentionInv
<1>2. RetentionInv /\ [Next]_vars => RetentionInv'
  BY NextRetentionInv
<1>3. Init => History!Init
  BY DEF Init, History!Init, capp, revs
<1>4. RetentionInv /\ [Next]_vars => [History!Next]_(History!vars)
  BY NextRefines
<1> QED
  BY <1>1, <1>2, <1>3, <1>4, PTL DEF Spec, ImplementsHistory, History!Spec
=============================================================================
