------------------------ MODULE CappLifecycleProofs ------------------------
(***************************************************************************)
(* The Capp controller implements CappLifecycle: every step of it, on      *)
(* whatever caches and with whatever failures, is one step in the life of  *)
(* the Capp, one child taken or lost, or nothing that the life can see.    *)
(***************************************************************************)
EXTENDS CappControllerProofs

----------------------------------------------------------------------------
(* What a step does to the Capp and to the children together               *)

\* The children are as they were, and the Capp is as it was, created, written in
\* place, removed by a user or removed by removeFinalizer.
CappStep ==
    /\ \A o \in Objects : UNCHANGED child(o)
    /\ \/ UNCHANGED <<capp, lastUid>>
       \/ /\ capp = None /\ capp' # None /\ capp'.fin = FALSE /\ capp'.deleting = FALSE
          /\ lastUid' = lastUid + 1 /\ capp'.uid = lastUid'
       \/ /\ capp # None /\ capp' # None /\ capp'.uid = capp.uid /\ UNCHANGED lastUid
          /\ \/ capp'.fin = capp.fin /\ capp'.deleting = capp.deleting
             \/ ~capp.deleting /\ capp'.fin = TRUE /\ capp'.deleting = capp.deleting
             \/ ~capp.deleting /\ capp.fin /\ capp'.fin = capp.fin /\ capp'.deleting = TRUE
       \/ Active(capp) /\ ~capp.fin /\ capp' = None /\ UNCHANGED lastUid
       \/ pc = "finalize" /\ todo = {} /\ fresh /\ capp' = None /\ UNCHANGED lastUid

\* The Capp is as it was, and one child is deleted, changed with its owner kept,
\* or written by a manager for the Capp Reconcile works on; or it is a Secret.
OneChildStep ==
    /\ UNCHANGED <<capp, lastUid>>
    /\ \E p \in Objects :
          /\ \A o \in Objects \ {p} : UNCHANGED child(o)
          /\ \/ child(p)' = None
             \/ child(p) # None /\ child(p)' # None /\ child(p)'.uid = child(p).uid
             \/ pc = "manage" /\ child(p)' # None /\ child(p)'.uid = snap.uid
             \/ p \notin ManagedObjects

LEMMA OneChildWritten ==
    ASSUME TypeOK, NEW p \in Objects, NEW v \in Child \cup {None}, WriteChild(p, v)
    PROVE  child(p)' = v /\ \A o \in Objects \ {p} : UNCHANGED child(o)
<1>1. objLog \in [Objects -> Seq(Child \cup {None})]
  BY DEF TypeOK
<1>2. \A o \in Objects \ {p} : objLog'[o] = objLog[o]
  BY <1>1 DEF WriteChild
<1> QED
  BY <1>2, WriteChildEffect DEF child

LEMMA Steps ==
    ASSUME TypeOK, [Next]_vars
    PROVE  CappStep \/ OneChildStep
<1>1. ASSUME UNCHANGED objLog PROVE \A o \in Objects : UNCHANGED child(o)
  BY <1>1 DEF child
<1>2. ASSUME UNCHANGED <<cappLog, objLog, lastUid>> PROVE CappStep
  BY <1>1, <1>2 DEF CappStep, capp
<1>3. capp \in Capp \cup {None} /\ cappCache \in Capp \cup {None}
  BY StoreTypes
<1>4. Len(cappLog) = 1 => capp = cappCache
  BY DEF capp, cappCache
<1>5. CASE Reconcile
  <2>1. UNCHANGED <<objLog, lastUid>>
    BY <1>5, ReconcileCases
  <2>2. CASE /\ Active(cappCache) /\ Len(cappLog) = 1
             /\ WriteCapp([cappCache EXCEPT !.fin = TRUE])
    <3> DEFINE c == [cappCache EXCEPT !.fin = TRUE]
    <3>1. cappCache \in Capp /\ capp = cappCache /\ capp # None /\ ~capp.deleting
      BY <1>3, <1>4, <2>2 DEF Active
    <3>2. c \in Capp /\ c.uid = capp.uid /\ c.fin = TRUE /\ c.deleting = capp.deleting
      BY <3>1 DEF Capp
    <3> HIDE DEF c
    <3>3. capp' = c /\ c # None
      BY <2>2, <3>2, WriteCappEffect, NoCappAssumption DEF c
    <3> QED
      BY <1>1, <2>1, <3>1, <3>2, <3>3 DEF CappStep
  <2> QED
    BY <1>2, <1>5, <2>1, <2>2, ReconcileCases
<1>6. CASE removeFinalizer
  <2>1. UNCHANGED <<objLog, lastUid>> /\ pc = "finalize" /\ todo = {}
    BY <1>6, RemoveCases DEF removeFinalizer
  <2>2. CASE fresh /\ WriteCapp(None)
    <3>1. capp' = None
      BY <2>2, WriteCappEffect
    <3> QED
      BY <1>1, <2>1, <2>2, <3>1 DEF CappStep
  <2> QED
    BY <1>2, <1>6, <2>1, <2>2, RemoveCases
<1>7. CASE SyncStatus
  <2>1. UNCHANGED <<objLog, lastUid>>
    BY <1>7, StatusCases
  <2>2. ASSUME NEW st \in Status, Len(cappLog) = 1, cappCache # None,
               WriteCapp([cappCache EXCEPT !.status = st])
        PROVE  CappStep
    <3> DEFINE c == [cappCache EXCEPT !.status = st]
    <3>1. cappCache \in Capp /\ capp = cappCache /\ capp # None
      BY <1>3, <1>4, <2>2
    <3>2. /\ c \in Capp /\ c.uid = capp.uid /\ c.fin = capp.fin
          /\ c.deleting = capp.deleting
      BY <3>1 DEF Capp
    <3> HIDE DEF c
    <3>3. capp' = c /\ c # None
      BY <2>2, <3>2, WriteCappEffect, NoCappAssumption DEF c
    <3> QED
      BY <1>1, <2>1, <3>1, <3>2, <3>3 DEF CappStep
  <2> QED
    BY <1>2, <1>7, <2>1, <2>2, StatusCases
<1>8. ASSUME NEW p \in Objects, Manage(p) \/ finalizeCapp(p)
      PROVE  CappStep \/ OneChildStep
  <2>1. UNCHANGED <<cappLog, lastUid>> /\ UNCHANGED capp
    BY <1>8, ChildStep DEF capp
  <2>2. CASE WriteChild(p, None)
    BY <2>1, <2>2, OneChildWritten DEF OneChildStep
  <2>3. ASSUME NEW v \in Child, WriteChild(p, v), pc = "manage", v.uid = snap.uid
        PROVE  OneChildStep
    <3>1. child(p)' = v /\ \A o \in Objects \ {p} : UNCHANGED child(o)
      BY <2>3, OneChildWritten
    <3>2. v # None
      BY NoneAssumption
    <3> QED
      BY <2>1, <2>3, <3>1, <3>2 DEF OneChildStep
  <2> QED
    BY <1>2, <1>8, <2>1, <2>2, <2>3, ChildStep
<1>9. CASE DeliverCapp \/ DeliverConfig \/ Restart \/ \E o \in Objects : DeliverChild(o)
  BY <1>9, DeliverCases DEF CappStep
<1>10. ASSUME NEW s \in Specs, CreateCapp(s) \/ UpdateCapp(s) \/ DeleteCapp
       PROVE  CappStep
  <2>1. UNCHANGED objLog
    BY <1>10, UserCases
  <2>2. CASE /\ CreateCapp(s) /\ capp = None /\ NewCapp(s, lastUid + 1) \in Capp
             /\ WriteCapp(NewCapp(s, lastUid + 1))
    <3> DEFINE c == NewCapp(s, lastUid + 1)
    <3>1. /\ c \in Capp /\ c # None /\ c.fin = FALSE /\ c.deleting = FALSE
          /\ c.uid = lastUid + 1
      BY <2>2, NoCappAssumption DEF NewCapp
    <3> HIDE DEF c
    <3>2. capp' = c /\ lastUid' = lastUid + 1
      BY <2>2, <3>1, WriteCappEffect DEF c, CreateCapp
    <3> QED
      BY <1>1, <2>1, <2>2, <3>1, <3>2 DEF CappStep
  <2>3. CASE /\ capp \in Capp /\ [capp EXCEPT !.spec = s] \in Capp
             /\ WriteCapp([capp EXCEPT !.spec = s]) /\ UNCHANGED lastUid
    <3> DEFINE c == [capp EXCEPT !.spec = s]
    <3>1. /\ c \in Capp /\ c.uid = capp.uid /\ c.fin = capp.fin
          /\ c.deleting = capp.deleting
      BY <2>3 DEF Capp
    <3> HIDE DEF c
    <3>2. capp' = c /\ c # None /\ capp # None
      BY <2>3, <3>1, WriteCappEffect, NoCappAssumption DEF c
    <3> QED
      BY <1>1, <2>1, <2>3, <3>1, <3>2 DEF CappStep
  <2>4. CASE /\ DeleteCapp /\ capp \in Capp /\ capp.fin
             /\ [capp EXCEPT !.deleting = TRUE] \in Capp
             /\ WriteCapp([capp EXCEPT !.deleting = TRUE]) /\ UNCHANGED lastUid
    <3> DEFINE c == [capp EXCEPT !.deleting = TRUE]
    <3>1. c \in Capp /\ c.uid = capp.uid /\ c.fin = capp.fin /\ c.deleting = TRUE
      BY <2>4 DEF Capp
    <3> HIDE DEF c
    <3>2. capp' = c /\ c # None
      BY <2>4, <3>1, WriteCappEffect, NoCappAssumption DEF c
    <3>3. capp # None /\ ~capp.deleting
      BY <2>4 DEF DeleteCapp, Active
    <3> QED
      BY <1>1, <2>1, <2>4, <3>1, <3>2, <3>3 DEF CappStep
  <2>5. CASE /\ DeleteCapp /\ capp \in Capp /\ ~capp.fin /\ WriteCapp(None)
             /\ UNCHANGED lastUid
    <3>1. capp' = None /\ Active(capp)
      BY <2>5, WriteCappEffect DEF DeleteCapp
    <3> QED
      BY <1>1, <2>1, <2>5, <3>1 DEF CappStep
  <2> QED
    BY <1>10, <2>2, <2>3, <2>4, <2>5, UserCases
<1>11. CASE \E c \in Configs : SetConfig(c)
  BY <1>2, <1>11 DEF SetConfig
<1>12. ASSUME NEW p \in Objects,
              \/ Edit(p) \/ Remove(p) \/ Collect(p)
              \/ \E h \in Health \ {"none"} : Report(p, h)
       PROVE  OneChildStep
  <2>1. UNCHANGED <<cappLog, lastUid>> /\ UNCHANGED capp
    BY <1>12, OthersCases DEF capp
  <2>2. PICK v \in Child \cup {None} :
           /\ WriteChild(p, v) /\ child(p) # None
           /\ v # None => v.uid = child(p).uid
    BY <1>12, OthersCases
  <2>3. child(p)' = v /\ \A o \in Objects \ {p} : UNCHANGED child(o)
    BY <2>2, OneChildWritten
  <2> QED
    BY <2>1, <2>2, <2>3 DEF OneChildStep
<1>13. ASSUME NEW o \in Objects, IssueSecret(o) PROVE OneChildStep
  <2> DEFINE t == SecretOf(o)
             v == Created("Secret", Blank, 0)
  <2>1. /\ t \in Objects \ ManagedObjects /\ WriteChild(t, v) /\ v \in Child
        /\ UNCHANGED <<cappLog, lastUid>>
    BY <1>13, IssueCases
  <2> HIDE DEF t, v
  <2>2. \A p \in Objects \ {t} : UNCHANGED child(p)
    BY <2>1, OneChildWritten
  <2>3. UNCHANGED capp
    BY <2>1 DEF capp
  <2> QED
    BY <2>1, <2>2, <2>3 DEF OneChildStep
<1>14. CASE UNCHANGED vars
  BY <1>2, <1>14 DEF vars, logVars
<1> QED
  BY <1>5, <1>6, <1>7, <1>8, <1>9, <1>10, <1>11, <1>12, <1>13, <1>14, NextCases

----------------------------------------------------------------------------
(* The inductive invariant of the refinement                               *)

\* The Capp there is is the latest life, and one that is being deleted is held.
LatestLife ==
    capp # None => capp.uid = lastUid /\ (capp.deleting => capp.fin)

LifeInv == IInv /\ LatestLife

\* removeFinalizer only comes to a Capp that is being deleted.
LEMMA RemovedIsDeleting ==
    ASSUME IInv, pc = "finalize", fresh
    PROVE  capp # None /\ capp.deleting
<1>1. snap \in Capp /\ snap.deleting /\ cappLog = <<snap>>
  BY DEF IInv, TypeOK, FreshSnap
<1>2. capp = snap
  BY <1>1 DEF capp
<1> QED
  BY <1>1, <1>2, NoCappAssumption

LEMMA InitLifeInv == Init => LifeInv
<1> SUFFICES ASSUME Init PROVE LatestLife
  BY InitIInv DEF LifeInv
<1>1. CASE EmptyInit
  BY <1>1 DEF EmptyInit, LatestLife, capp
<1>2. ASSUME NEW s \in Specs, LegacyInit(s) PROVE LatestLife
  <2> DEFINE c == [NewCapp(s, 1) EXCEPT !.fin = TRUE]
  <2>1. c.uid = 1 /\ c.fin = TRUE
    BY DEF NewCapp
  <2>2. cappLog = <<c>> /\ lastUid = 1
    BY <1>2 DEF LegacyInit
  <2> HIDE DEF c
  <2>3. capp = c
    BY <2>2 DEF capp
  <2> QED
    BY <2>1, <2>2, <2>3 DEF LatestLife
<1> QED
  BY <1>1, <1>2 DEF Init

LEMMA NextLifeInv == LifeInv /\ [Next]_vars => LifeInv'
<1> SUFFICES ASSUME LifeInv, [Next]_vars PROVE LatestLife'
  BY NextIInv DEF LifeInv
<1>1. CappStep \/ OneChildStep
  BY Steps DEF LifeInv, IInv
<1>2. CASE CappStep
  BY <1>2 DEF CappStep, LifeInv, LatestLife
<1>3. CASE OneChildStep
  BY <1>3 DEF OneChildStep, LifeInv, LatestLife
<1> QED
  BY <1>1, <1>2, <1>3

----------------------------------------------------------------------------
(* The refinement                                                          *)

LEMMA InitRefines == Init => Lifecycle!Init
<1> SUFFICES ASSUME Init PROVE Lifecycle!Init
  OBVIOUS
<1>1. ManagedObjects \subseteq Objects
  BY DEF ManagedObjects
<1>2. CASE EmptyInit
  <2>1. capp = None /\ lastUid = 0
    BY <1>2 DEF EmptyInit, capp
  <2>2. \A o \in Objects : child(o) = None
    BY <1>2 DEF EmptyInit, child
  <2>3. Life = "none" /\ Owner = [o \in ManagedObjects |-> None]
    BY <1>1, <2>1, <2>2 DEF Life, Owner
  <2> QED
    BY <2>1, <2>3 DEF Lifecycle!Init
<1>3. ASSUME NEW s \in Specs, LegacyInit(s) PROVE Lifecycle!Init
  <2> DEFINE c == [NewCapp(s, 1) EXCEPT !.fin = TRUE]
  <2>1. c.deleting = FALSE /\ c.fin = TRUE
    BY DEF NewCapp
  <2>2. c \in Capp
    <3>1. NewCapp(s, 1) \in Capp
      BY NoStatusType, UidAssumption DEF NewCapp, Capp
    <3> QED
      BY <3>1 DEF Capp
  <2>3. cappLog = <<c>> /\ lastUid = 1
    BY <1>3 DEF LegacyInit
  <2> HIDE DEF c
  <2>4. capp = c /\ c # None
    BY <2>2, <2>3, NoCappAssumption DEF capp
  <2>5. Life = "held"
    BY <2>1, <2>4 DEF Life
  <2>6. \A o \in Objects : child(o) = None \/ child(o).uid = 0
    <3> TAKE o \in Objects
    <3> DEFINE v == Created(Kind(o), prepareResource(Kind(o), s, cfg, FALSE), 0)
    <3>1. v.uid = 0
      BY DEF Created
    <3>2. objLog[o] = <<v>> \/ objLog[o] = <<None>>
      BY <1>3 DEF LegacyInit
    <3> HIDE DEF v
    <3>3. child(o) = v \/ child(o) = None
      BY <3>2 DEF child
    <3> QED
      BY <3>1, <3>3
  <2>7. Owner \in [ManagedObjects -> {None, 0}]
    BY <1>1, <2>6 DEF Owner
  <2> QED
    BY <2>3, <2>5, <2>7 DEF Lifecycle!Init
<1> QED
  BY <1>2, <1>3 DEF Init

LEMMA SameOwners ==
    ASSUME \A o \in ManagedObjects : UNCHANGED child(o)
    PROVE  UNCHANGED Owner
BY DEF Owner

LEMMA NextRefines ==
    LifeInv /\ [Next]_vars => [Lifecycle!Next]_(Lifecycle!vars)
<1> SUFFICES ASSUME LifeInv, [Next]_vars
             PROVE  Lifecycle!Next \/ UNCHANGED <<Life, lastUid, Owner>>
  BY DEF Lifecycle!vars
<1>1. ManagedObjects \subseteq Objects
  BY DEF ManagedObjects
<1>2. CASE CappStep
  <2>1. UNCHANGED Owner
    BY <1>1, <1>2, SameOwners DEF CappStep
  <2>2. CASE UNCHANGED <<capp, lastUid>>
    BY <2>1, <2>2 DEF Life
  <2>3. CASE /\ capp = None /\ capp' # None /\ capp'.fin = FALSE /\ capp'.deleting = FALSE
             /\ lastUid' = lastUid + 1
    <3>1. Life = "none" /\ Life' = "free"
      BY <2>3 DEF Life
    <3>2. Lifecycle!Create
      BY <2>1, <2>3, <3>1 DEF Lifecycle!Create
    <3> QED
      BY <3>2 DEF Lifecycle!Next
  <2>4. CASE /\ capp # None /\ capp' # None /\ UNCHANGED lastUid
             /\ capp'.fin = capp.fin /\ capp'.deleting = capp.deleting
    BY <2>1, <2>4 DEF Life
  <2>5. CASE /\ capp # None /\ capp' # None /\ UNCHANGED lastUid
             /\ ~capp.deleting /\ capp'.fin = TRUE /\ capp'.deleting = capp.deleting
    <3>1. Life \in {"free", "held"} /\ Life' = "held"
      BY <2>5 DEF Life
    <3>2. Lifecycle!Hold \/ UNCHANGED Life
      BY <2>1, <2>5, <3>1 DEF Lifecycle!Hold
    <3> QED
      BY <2>1, <2>5, <3>2 DEF Lifecycle!Next
  <2>6. CASE /\ capp # None /\ capp' # None /\ UNCHANGED lastUid
             /\ ~capp.deleting /\ capp.fin /\ capp'.deleting = TRUE
    <3>1. Life = "held" /\ Life' = "deleting"
      BY <2>6 DEF Life
    <3>2. Lifecycle!Delete
      BY <2>1, <2>6, <3>1 DEF Lifecycle!Delete
    <3> QED
      BY <3>2 DEF Lifecycle!Next
  <2>7. CASE Active(capp) /\ ~capp.fin /\ capp' = None /\ UNCHANGED lastUid
    <3>1. Life = "free" /\ Life' = "none"
      BY <2>7 DEF Life, Active
    <3>2. Lifecycle!Delete
      BY <2>1, <2>7, <3>1 DEF Lifecycle!Delete
    <3> QED
      BY <3>2 DEF Lifecycle!Next
  <2>8. CASE pc = "finalize" /\ todo = {} /\ fresh /\ capp' = None /\ UNCHANGED lastUid
    <3>1. Life = "deleting" /\ Life' = "none"
      BY <2>8, RemovedIsDeleting DEF Life, LifeInv
    <3>2. \A o \in ManagedObjects : ~Unowned(child(o))
      BY <2>8 DEF LifeInv, IInv, Progress
    <3>3. \A o \in ManagedObjects : Owner[o] # 0
      <4>1. None # 0
        BY NoneAssumption, UidAssumption
      <4> QED
        BY <3>2, <4>1 DEF Owner, Unowned
    <3>4. Lifecycle!Release
      BY <2>1, <2>8, <3>1, <3>3 DEF Lifecycle!Release
    <3> QED
      BY <3>4 DEF Lifecycle!Next
  <2> QED
    BY <1>2, <2>2, <2>3, <2>4, <2>5, <2>6, <2>7, <2>8 DEF CappStep
<1>3. CASE OneChildStep
  <2>1. UNCHANGED <<capp, lastUid>> /\ UNCHANGED Life
    BY <1>3 DEF OneChildStep, Life
  <2>2. PICK p \in Objects :
           /\ \A o \in Objects \ {p} : UNCHANGED child(o)
           /\ \/ child(p)' = None
              \/ child(p) # None /\ child(p)' # None /\ child(p)'.uid = child(p).uid
              \/ pc = "manage" /\ child(p)' # None /\ child(p)'.uid = snap.uid
              \/ p \notin ManagedObjects
    BY <1>3 DEF OneChildStep
  <2>3. CASE p \notin ManagedObjects
    BY <1>1, <2>1, <2>2, <2>3, SameOwners
  <2>4. CASE p \in ManagedObjects
    <3>1. \A o \in ManagedObjects \ {p} : Owner'[o] = Owner[o]
      BY <1>1, <2>2 DEF Owner
    <3>2. Owner' = [Owner EXCEPT ![p] = Owner'[p]]
      BY <3>1 DEF Owner
    <3>3. CASE Owner'[p] = Owner[p]
      BY <2>1, <3>1, <3>3 DEF Owner
    <3>4. CASE Owner'[p] = None /\ Owner[p] # None
      <4>1. Lifecycle!Lose(p)
        BY <2>1, <3>2, <3>4 DEF Lifecycle!Lose
      <4> QED
        BY <2>4, <4>1 DEF Lifecycle!Next
    <3>5. CASE Owner'[p] # Owner[p] /\ pc = "manage" /\ Owner'[p] = snap.uid
      <4>1. capp # None /\ capp.uid = snap.uid /\ capp.fin /\ capp.uid = lastUid
        BY <3>5 DEF LifeInv, IInv, HeldSync, Alive, LatestLife
      <4>2. Life \in {"held", "deleting"}
        BY <4>1 DEF Life
      <4>3. Lifecycle!Own(p)
        BY <2>1, <3>2, <3>5, <4>1, <4>2 DEF Lifecycle!Own
      <4> QED
        BY <2>4, <4>3 DEF Lifecycle!Next
    <3>6. CASE child(p)' = None
      <4>1. Owner'[p] = None
        BY <2>4, <3>6 DEF Owner
      <4> QED
        BY <3>3, <3>4, <4>1
    <3>7. CASE child(p) # None /\ child(p)' # None /\ child(p)'.uid = child(p).uid
      <4>1. Owner'[p] = Owner[p]
        BY <2>4, <3>7 DEF Owner
      <4> QED
        BY <3>3, <4>1
    <3>8. CASE pc = "manage" /\ child(p)' # None /\ child(p)'.uid = snap.uid
      <4>1. Owner'[p] = snap.uid
        BY <2>4, <3>8 DEF Owner
      <4> QED
        BY <3>3, <3>5, <3>8, <4>1
    <3> QED
      BY <2>2, <2>4, <3>6, <3>7, <3>8
  <2> QED
    BY <2>3, <2>4
<1> QED
  BY <1>2, <1>3, Steps DEF LifeInv, IInv

\* The Capp controller implements CappLifecycle, for every set of kinds, names
\* and specifications: finalizer, children and their owners change only in the
\* ways a life promises, whatever the caches show and whatever fails.
THEOREM LifecycleRefined == Spec => ImplementsLifecycle
<1>1. Init => LifeInv /\ Lifecycle!Init
  BY InitLifeInv, InitRefines
<1>2. LifeInv /\ [Next]_vars => LifeInv' /\ [Lifecycle!Next]_(Lifecycle!vars)
  BY NextLifeInv, NextRefines
<1> QED
  BY <1>1, <1>2, PTL DEF Spec, ImplementsLifecycle, Lifecycle!Spec
=============================================================================
