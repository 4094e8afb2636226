----------------------- MODULE CappControllerProofs -----------------------
(***************************************************************************)
(* Proofs about the Capp controller, for every set of kinds, names,        *)
(* specifications and configurations and every number of steps, failures   *)
(* and restarts.                                                           *)
(***************************************************************************)
EXTENDS CappController, SequenceTheorems, TLAPS

----------------------------------------------------------------------------
(* Logs                                                                    *)

Versions(log) == {log[i] : i \in 1..Len(log)}

\* What a log holds, and what it holds after a version is written to it.
LEMMA LogWrite ==
    ASSUME NEW S, NEW log \in Seq(S), log # <<>>
    PROVE  /\ Len(log) \in Nat \ {0}
           /\ log[1] \in Versions(log) /\ log[Len(log)] \in Versions(log)
           /\ Versions(log) \subseteq S
           /\ \A e \in S : /\ Append(log, e) \in Seq(S) /\ Append(log, e) # <<>>
                           /\ Append(log, e)[Len(Append(log, e))] = e
                           /\ Versions(Append(log, e)) = Versions(log) \cup {e}
<1>1. Len(log) \in Nat \ {0}
  OBVIOUS
<1>2. log[1] \in Versions(log) /\ log[Len(log)] \in Versions(log)
  BY <1>1 DEF Versions
<1>3. Versions(log) \subseteq S
  BY <1>1 DEF Versions
<1>4. ASSUME NEW e \in S
      PROVE  /\ Append(log, e) \in Seq(S) /\ Append(log, e) # <<>>
             /\ Append(log, e)[Len(Append(log, e))] = e
             /\ Versions(Append(log, e)) = Versions(log) \cup {e}
  <2>1. /\ Append(log, e) \in Seq(S) /\ Append(log, e) # <<>>
        /\ Len(Append(log, e)) = Len(log) + 1
        /\ Append(log, e)[Len(log) + 1] = e
        /\ \A i \in 1..Len(log) : Append(log, e)[i] = log[i]
    BY AppendProperties
  <2>2. 1..(Len(log) + 1) = 1..Len(log) \cup {Len(log) + 1}
    BY <1>1
  <2> QED
    BY <2>1, <2>2 DEF Versions
<1> QED
  BY <1>1, <1>2, <1>3, <1>4

\* Delivering a version and restarting forget old versions, and no more.
LEMMA LogForget ==
    ASSUME NEW S, NEW log \in Seq(S), log # <<>>
    PROVE  /\ Len(log) > 1 => /\ Tail(log) \in Seq(S) /\ Tail(log) # <<>>
                              /\ Tail(log)[Len(Tail(log))] = log[Len(log)]
                              /\ Versions(Tail(log)) \subseteq Versions(log)
           /\ \A e \in S : /\ <<e>> \in Seq(S) /\ <<e>> # <<>>
                           /\ <<e>>[Len(<<e>>)] = e /\ Versions(<<e>>) = {e}
<1>1. Len(log) \in Nat \ {0}
  OBVIOUS
<1>2. ASSUME Len(log) > 1
      PROVE  /\ Tail(log) \in Seq(S) /\ Tail(log) # <<>>
             /\ Tail(log)[Len(Tail(log))] = log[Len(log)]
             /\ Versions(Tail(log)) \subseteq Versions(log)
  <2>1. /\ Tail(log) \in Seq(S) /\ Len(Tail(log)) = Len(log) - 1
        /\ \A i \in 1..Len(Tail(log)) : Tail(log)[i] = log[i + 1]
    BY HeadTailProperties
  <2>2. Len(Tail(log)) # 0
    BY <1>1, <1>2, <2>1
  <2>3. Tail(log) # <<>>
    BY <2>2, EmptySeq
  <2>4. Tail(log)[Len(Tail(log))] = log[Len(log)]
    <3>1. Len(Tail(log)) \in 1..Len(Tail(log)) /\ Len(Tail(log)) + 1 = Len(log)
      BY <1>1, <1>2, <2>1
    <3> QED
      BY <2>1, <3>1
  <2>5. \A i \in 1..Len(Tail(log)) : i + 1 \in 1..Len(log)
    BY <1>1, <2>1
  <2> QED
    BY <2>1, <2>3, <2>4, <2>5 DEF Versions
<1>3. ASSUME NEW e \in S
      PROVE  /\ <<e>> \in Seq(S) /\ <<e>> # <<>>
             /\ <<e>>[Len(<<e>>)] = e /\ Versions(<<e>>) = {e}
  <2>1. Len(<<e>>) = 1 /\ <<e>>[1] = e
    OBVIOUS
  <2>2. 1..1 = {1}
    OBVIOUS
  <2> QED
    BY <2>1, <2>2 DEF Versions
<1> QED
  BY <1>2, <1>3

----------------------------------------------------------------------------
(* Type correctness                                                        *)

\* The TLS Secret of a DomainMapping or a Certificate is one of the objects.
LEMMA SecretIsObject ==
    ASSUME NEW o \in Objects, Kind(o) \in {"DomainMapping", "Certificate"}
    PROVE  SecretOf(o) \in Objects /\ SecretOf(o) \notin ManagedObjects
<1>1. Kind(o) \in Kinds /\ o[2] \in Names(Kind(o))
  BY DEF Objects, Kind
<1>2. "Secret" \in Kinds
  BY <1>1, KindsAssumption
<1>3. Names(Kind(o)) = Zones /\ Names("Secret") = Zones
  <2> DEFINE k == Kind(o)
  <2>1. k \in RouteKinds \cup {"Secret"}
    BY DEF RouteKinds
  <2> HIDE DEF k
  <2>2. \A j \in RouteKinds \cup {"Secret"} : Names(j) = Zones
    BY DEF Names, RouteKinds, SourceKinds
  <2> QED
    BY <2>1, <2>2 DEF k
<1>4. SecretOf(o) \in {"Secret"} \X Names("Secret")
  BY <1>1, <1>3 DEF SecretOf
<1> QED
  BY <1>2, <1>4 DEF Objects, ManagedObjects, SecretOf, Kind

\* What prepareResource builds has the type of a child's content.
LEMMA ContentType ==
    ASSUME NEW k, NEW s \in CappSpec, NEW c \in CappConfig, NEW b \in BOOLEAN
    PROVE  prepareResource(k, s, c, b) \in Content
<1>1. Blank \in Content
  BY DEF Blank, Content
<1>2. /\ s.data \in Data /\ s.volumes \in SUBSET Volumes /\ s.tls \in BOOLEAN
      /\ c.settings \in Settings
  BY DEF CappSpec, CappConfig
<1>3. KnativeServiceManager(s, c).content \in Content
  BY <1>1, <1>2 DEF KnativeServiceManager, Content
<1>4. /\ NFSPVCManager(s).content \in Content
      /\ SyslogNGOutputManager(s).content \in Content
      /\ SyslogNGFlowManager(s).content \in Content
  BY <1>1, <1>2 DEF NFSPVCManager, SyslogNGOutputManager, SyslogNGFlowManager, Content
<1>5. /\ CertificateManager(s, c).content \in Content
      /\ DomainMappingManager(s, c).content \in Content
      /\ DNSRecordManager(s, c).content \in Content
  BY <1>1, <1>2 DEF CertificateManager, DomainMappingManager, DNSRecordManager, Content
<1>6. PingSourceManager(s).content \in Content /\ KafkaSourceManager(s).content \in Content
  BY <1>1, <1>2 DEF PingSourceManager, KafkaSourceManager, Content
<1>7. NoManager.content \in Content
  BY <1>1 DEF NoManager
<1>8. Manager(k, s, c).content \in Content
  BY <1>3, <1>4, <1>5, <1>6, <1>7 DEF Manager
<1> QED
  BY <1>8 DEF prepareResource, Content

LEMMA CreatedType ==
    ASSUME NEW k, NEW want \in Content, NEW u \in 0..MaxUid
    PROVE  Created(k, want, u) \in Child
BY DEF Created, Child, Health

LEMMA UpdatedType ==
    ASSUME NEW k, NEW want \in Content, NEW u \in 0..MaxUid, NEW cur \in Child
    PROVE  Updated(k, cur, want, u) \in Child
<1>1. cur.spec \in Content /\ cur.spec.group \in Data \cup {None}
  BY DEF Child, Content
<1>2. [want EXCEPT !.group = cur.spec.group] \in Content
  BY <1>1 DEF Content
<1> QED
  BY <1>2 DEF Updated, Child

LEMMA StatusType ==
    ASSUME NEW seen \in [Objects -> Child \cup {None}], NEW s \in CappSpec, NEW c,
           NEW b \in BOOLEAN
    PROVE  BuildStatus(seen, s, c, b) \in Status
<1>1. \A o \in Objects : seen[o] # None => seen[o].health \in Health
  BY DEF Child
<1>2. \A o \in Objects : Found(o, seen) \in Health
  BY <1>1 DEF Found, Health
<1>3. ChildStatuses(seen, s, c) \in [Objects -> Health \cup {"absent"}]
  <2> SUFFICES ASSUME NEW o \in Objects
               PROVE  /\ buildKnativeStatus(o, seen, s, c) \in Health \cup {"absent"}
                      /\ buildRouteStatus(o, seen, s, c) \in Health \cup {"absent"}
                      /\ buildVolumesStatus(o, seen, s) \in Health \cup {"absent"}
                      /\ buildLoggingStatus(o, seen, s) \in Health \cup {"absent"}
                      /\ buildEventingStatus(o, seen) \in Health \cup {"absent"}
    BY DEF ChildStatuses
  <2> QED
    BY <1>2 DEF buildKnativeStatus, buildRouteStatus, buildVolumesStatus,
                buildLoggingStatus, buildEventingStatus, Health
<1>4. s.state \in {"none", "enabled", "disabled"}
  BY DEF CappSpec
<1>5. computeReadyCondition(s, c, ChildStatuses(seen, s, c), b) \in BOOLEAN
  BY DEF computeReadyCondition, KnativeReady
<1> QED
  BY <1>3, <1>4, <1>5 DEF BuildStatus, Status

LEMMA NoStatusType == NoStatus \in Status
BY DEF NoStatus, Status, Health

\* What the logs hold when TypeOK holds.
LEMMA StoreTypes ==
    ASSUME TypeOK
    PROVE  /\ capp \in Capp \cup {None} /\ cappCache \in Capp \cup {None}
           /\ cfg \in Configs /\ cfgCache \in Configs
           /\ \A o \in Objects : /\ child(o) \in Child \cup {None}
                                 /\ childCache(o) \in Child \cup {None}
<1>1. \A o \in Objects : objLog[o] \in Seq(Child \cup {None}) /\ objLog[o] # <<>>
  BY DEF TypeOK
<1>2. \A o \in Objects : /\ child(o) \in Child \cup {None}
                         /\ childCache(o) \in Child \cup {None}
  BY <1>1, LogWrite DEF child, childCache
<1>3. /\ capp \in Capp \cup {None} /\ cappCache \in Capp \cup {None}
      /\ cfg \in Configs /\ cfgCache \in Configs
  BY LogWrite DEF TypeOK, capp, cappCache, cfg, cfgCache
<1> QED
  BY <1>2, <1>3

----------------------------------------------------------------------------
(* What a manager does to one child                                        *)

\* A child createOrUpdate writes is owned by the Capp Reconcile works on, and a
\* KafkaSource that exists keeps its consumer group.
LEMMA CreateOrUpdateStep ==
    ASSUME TypeOK, NEW o \in Objects, pc = "manage", createOrUpdate(o)
    PROVE  /\ \/ UNCHANGED objLog
              \/ \E v \in Child :
                    /\ WriteChild(o, v) /\ v.uid = snap.uid
                    /\ Kind(o) = "KafkaSource" /\ child(o) # None
                          => v.spec.group = child(o).spec.group
           /\ Done(o, {}) \/ Failed(o)
           /\ faults' \in Nat
<1> DEFINE want == prepareResource(Kind(o), snap.spec, config, SecretSeen(o))
           cur == childCache(o)
           new == Updated(Kind(o), cur, want, snap.uid)
           made == Created(Kind(o), want, snap.uid)
<1>1. snap \in Capp /\ config \in CappConfig /\ faults \in Nat
  BY DEF TypeOK
<1>2. snap.uid \in 0..MaxUid /\ snap.spec \in CappSpec
  BY <1>1, InputsAssumption, UidAssumption DEF Capp
<1>3. SecretSeen(o) \in BOOLEAN
  BY DEF SecretSeen
<1>4. want \in Content
  BY <1>1, <1>2, <1>3, ContentType
<1>5. cur \in Child \cup {None} /\ child(o) \in Child \cup {None}
  BY StoreTypes
<1>6. made \in Child /\ made.uid = snap.uid
  BY <1>2, <1>4, CreatedType DEF Created
<1>7. ASSUME cur # None
      PROVE  /\ new \in Child /\ new.uid = snap.uid
             /\ Kind(o) = "KafkaSource" => new.spec.group = cur.spec.group
  <2>1. new \in Child
    BY <1>2, <1>4, <1>5, <1>7, UpdatedType
  <2>2. new.uid = snap.uid
    BY <1>5, <1>7 DEF Updated, Child
  <2>3. Kind(o) = "KafkaSource" => new.spec.group = cur.spec.group
    BY <1>4, <1>5, <1>7 DEF Updated, Child, Content
  <2> QED
    BY <2>1, <2>2, <2>3
<1>8. Len(objLog[o]) = 1 => child(o) = cur
  BY DEF child, childCache
<1>9. \/ cur = None /\ child(o) = None /\ CallChild(o, made, Done(o, {}), Failed(o))
      \/ cur = None /\ child(o) # None /\ Refused(UNCHANGED objLog, Failed(o))
      \/ cur # None /\ Done(o, {}) /\ UNCHANGED <<objLog, faults>>
      \/ cur # None /\ Len(objLog[o]) = 1 /\ CallChild(o, new, Done(o, {}), Failed(o))
      \/ cur # None /\ Len(objLog[o]) > 1 /\ Refused(UNCHANGED objLog, Failed(o))
  BY DEF createOrUpdate
<1> HIDE DEF want, cur, new, made
<1>10. ASSUME NEW v, CallChild(o, v, Done(o, {}), Failed(o))
       PROVE  /\ UNCHANGED objLog \/ WriteChild(o, v)
              /\ Done(o, {}) \/ Failed(o)
              /\ faults' \in Nat
  BY <1>1, <1>10 DEF CallChild, Call, Refused
<1>11. ASSUME Refused(UNCHANGED objLog, Failed(o))
       PROVE  UNCHANGED objLog /\ Failed(o) /\ faults' \in Nat
  BY <1>1, <1>11 DEF Refused
<1>12. CASE cur = None /\ child(o) = None /\ CallChild(o, made, Done(o, {}), Failed(o))
  BY <1>6, <1>10, <1>12
<1>13. CASE Refused(UNCHANGED objLog, Failed(o))
  BY <1>11, <1>13
<1>14. CASE Done(o, {}) /\ UNCHANGED <<objLog, faults>>
  BY <1>1, <1>14
<1>15. CASE /\ cur # None /\ Len(objLog[o]) = 1
            /\ CallChild(o, new, Done(o, {}), Failed(o))
  BY <1>7, <1>8, <1>10, <1>15
<1> QED
  BY <1>9, <1>12, <1>13, <1>14, <1>15

\* CleanUp is done with a child that is gone, that the cache does not have, or
\* that has an owner reference.
LEMMA CleanUpStep ==
    ASSUME TypeOK, NEW o \in Objects, CleanUp(o)
    PROVE  /\ \/ Failed(o) /\ (UNCHANGED objLog \/ WriteChild(o, None))
              \/ /\ Done(o, {}) \/ Done(o, Secrets(o))
                 /\ \/ WriteChild(o, None)
                    \/ /\ UNCHANGED objLog
                       /\ \/ childCache(o) = None \/ child(o) = None
                          \/ childCache(o).uid # 0
           /\ faults' \in Nat
<1>1. faults \in Nat
  BY DEF TypeOK
<1>2. CASE childCache(o) = None /\ Done(o, {}) /\ UNCHANGED <<objLog, faults>>
  BY <1>1, <1>2
<1>3. CASE LeftToCollector(o) /\ Done(o, Secrets(o)) /\ UNCHANGED <<objLog, faults>>
  BY <1>1, <1>3 DEF LeftToCollector
<1>4. CASE DeleteResource(o, Secrets(o))
  <2>1. CASE CallChild(o, None, Done(o, Secrets(o)), Failed(o))
    BY <1>1, <2>1 DEF CallChild, Call, Refused
  <2>2. CASE /\ child(o) = None
             /\ Refused(UNCHANGED objLog,
                        IF Kind(o) = "Secret" THEN Failed(o) ELSE Done(o, Secrets(o)))
    BY <1>1, <2>2 DEF Refused
  <2> QED
    BY <1>4, <2>1, <2>2 DEF DeleteResource
<1> QED
  BY <1>2, <1>3, <1>4 DEF CleanUp

\* One step of a manager, whatever it is about.
LEMMA ChildStep ==
    ASSUME TypeOK, NEW o \in Objects, Manage(o) \/ finalizeCapp(o)
    PROVE  /\ \/ UNCHANGED objLog
              \/ WriteChild(o, None)
              \/ \E v \in Child :
                    /\ WriteChild(o, v) /\ pc = "manage" /\ v.uid = snap.uid
                    /\ Kind(o) = "KafkaSource" /\ child(o) # None
                          => v.spec.group = child(o).spec.group
           /\ Done(o, {}) \/ Done(o, Secrets(o)) \/ Failed(o)
           /\ UNCHANGED <<cappLog, cfgLog, lastUid, fresh, moves>>
           /\ faults' \in Nat
<1>1. UNCHANGED <<cappLog, cfgLog, lastUid, fresh, moves>>
  BY DEF Manage, finalizeCapp, NotWritten
<1>2. faults \in Nat
  BY DEF TypeOK
<1>3. CASE pc = "manage" /\ createOrUpdate(o)
  BY <1>1, <1>3, CreateOrUpdateStep
<1>4. CASE CleanUp(o)
  BY <1>1, <1>4, CleanUpStep
<1>5. CASE Done(o, {}) /\ UNCHANGED <<objLog, faults>>
  BY <1>1, <1>2, <1>5
<1> QED
  BY <1>3, <1>4, <1>5 DEF Manage, finalizeCapp

----------------------------------------------------------------------------
(* The type invariant                                                      *)

\* The part of TypeOK that is about Reconcile.
WorkType ==
    /\ pc \in {"idle", "manage", "finalize"}
    /\ snap \in Capp \cup {None} /\ config \in CappConfig \cup {None}
    /\ pc # "idle" => /\ snap # None /\ config # None
                      /\ snap.deleting = (pc = "finalize")
    /\ todo \subseteq Objects /\ errs \in BOOLEAN /\ queued \in BOOLEAN

\* The part of TypeOK that is about the logs.
LogType ==
    /\ cappLog \in Seq(Capp \cup {None}) /\ cappLog # <<>>
    /\ cfgLog \in Seq(Configs) /\ cfgLog # <<>>
    /\ objLog \in [Objects -> Seq(Child \cup {None})]
    /\ \A o \in Objects : objLog[o] # <<>>

LEMMA TypeParts ==
    TypeOK <=> /\ LogType /\ WorkType /\ lastUid \in 0..MaxUid /\ fresh \in BOOLEAN
               /\ moves \in Nat /\ faults \in Nat
BY DEF TypeOK, LogType, WorkType

LEMMA WriteCappType ==
    ASSUME LogType, NEW c \in Capp \cup {None}, WriteCapp(c), UNCHANGED <<cfgLog, objLog>>
    PROVE  LogType' /\ fresh' = FALSE
BY LogWrite DEF LogType, WriteCapp

LEMMA WriteChildType ==
    ASSUME LogType, NEW o \in Objects, NEW v \in Child \cup {None}, WriteChild(o, v),
           UNCHANGED <<cappLog, cfgLog>>
    PROVE  LogType'
<1>1. objLog[o] \in Seq(Child \cup {None}) /\ objLog[o] # <<>>
  BY DEF LogType
<1>2. /\ Append(objLog[o], v) \in Seq(Child \cup {None})
      /\ Append(objLog[o], v) # <<>>
  BY <1>1, LogWrite
<1> QED
  BY <1>2 DEF LogType, WriteChild

\* Finish, Begin, Done and Failed leave a worker in a proper state.
LEMMA WorkSteps ==
    ASSUME TypeOK
    PROVE  /\ \A b \in BOOLEAN : Finish(b) => WorkType'
           /\ cappCache # None /\ cfgCache # None =>
                 /\ Begin("manage") /\ ~cappCache.deleting => WorkType'
                 /\ Begin("finalize") /\ cappCache.deleting => WorkType'
           /\ \A o \in Objects : Done(o, {}) \/ Done(o, Secrets(o)) => WorkType'
           /\ \A o \in Objects : Failed(o) => WorkType'
<1>1. WorkType
  BY TypeParts
<1>2. ASSUME NEW b \in BOOLEAN, Finish(b) PROVE WorkType'
  BY <1>1, <1>2 DEF WorkType, Finish
<1>3. ASSUME cappCache # None, cfgCache # None,
             \/ Begin("manage") /\ ~cappCache.deleting
             \/ Begin("finalize") /\ cappCache.deleting
      PROVE  WorkType'
  <2>1. cappCache \in Capp /\ cfgCache \in CappConfig
    BY <1>3, StoreTypes, InputsAssumption
  <2>2. cappCache.deleting \in BOOLEAN
    BY <2>1 DEF Capp
  <2>3. ManagedObjects \subseteq Objects
    BY DEF ManagedObjects
  <2> QED
    BY <1>3, <2>1, <2>2, <2>3 DEF WorkType, Begin
<1>4. ASSUME NEW o \in Objects, Done(o, {}) \/ Done(o, Secrets(o)) PROVE WorkType'
  <2>1. Secrets(o) \subseteq Objects
    BY SecretIsObject DEF Secrets
  <2> QED
    BY <1>1, <1>4, <2>1 DEF WorkType, Done
<1>5. ASSUME NEW o \in Objects, Failed(o) PROVE WorkType'
  <2>1. CASE pc = "manage"
    BY <1>1, <1>5, <2>1 DEF WorkType, Failed
  <2>2. CASE pc # "manage"
    BY <1>2, <1>5, <2>2 DEF Failed
  <2> QED
    BY <2>1, <2>2
<1> QED
  BY <1>2, <1>3, <1>4, <1>5

LEMMA InitTypeOK == Init => TypeOK
<1> SUFFICES ASSUME Init PROVE TypeOK
  OBVIOUS
<1>1. cfgLog \in Seq(Configs) /\ cfgLog # <<>>
  BY DEF Init
<1>2. cfg \in CappConfig \cup {None}
  BY <1>1, LogWrite, InputsAssumption DEF cfg
<1>3. /\ pc = "idle" /\ snap = None /\ config = None /\ todo = {} /\ errs = FALSE
      /\ fresh = FALSE /\ moves = 0 /\ faults = 0 /\ queued \in BOOLEAN
  BY DEF Init, EmptyInit, LegacyInit
<1>4. CASE \E s \in Specs : LegacyInit(s)
  <2>1. PICK s \in Specs : LegacyInit(s)
    BY <1>4
  <2>2. s \in CappSpec
    BY InputsAssumption
  <2>3. cappLog \in Seq(Capp \cup {None}) /\ cappLog # <<>> /\ lastUid \in 0..MaxUid
    <3>1. NewCapp(s, 1) \in Capp
      BY NoStatusType, UidAssumption DEF NewCapp, Capp
    <3>2. [NewCapp(s, 1) EXCEPT !.fin = TRUE] \in Capp
      BY <3>1 DEF Capp
    <3> QED
      BY <2>1, <3>2, UidAssumption DEF LegacyInit
  <2>4. \A o \in Objects :
           cfg # None => Created(Kind(o), prepareResource(Kind(o), s, cfg, FALSE), 0) \in Child
    <3> SUFFICES ASSUME NEW o \in Objects, cfg # None
                 PROVE  Created(Kind(o), prepareResource(Kind(o), s, cfg, FALSE), 0) \in Child
      OBVIOUS
    <3>1. prepareResource(Kind(o), s, cfg, FALSE) \in Content
      BY <1>2, <2>2, ContentType
    <3>2. 0 \in 0..MaxUid
      BY UidAssumption
    <3> QED
      BY <3>1, <3>2, CreatedType
  <2>5. /\ objLog \in [Objects -> Seq(Child \cup {None})]
        /\ \A o \in Objects : objLog[o] # <<>>
    <3> DEFINE first(o) == IF cfg # None /\ Desired(o, s, cfg)
                           THEN Created(Kind(o), prepareResource(Kind(o), s, cfg, FALSE), 0)
                           ELSE None
    <3>1. \A o \in Objects : first(o) \in Child \cup {None}
      BY <2>4
    <3>2. objLog = [o \in Objects |-> <<first(o)>>]
      BY <2>1 DEF LegacyInit
    <3> HIDE DEF first
    <3> QED
      BY <3>1, <3>2
  <2> QED
    BY <1>1, <1>3, <2>3, <2>5 DEF TypeOK
<1>5. CASE EmptyInit
  <2>1. cappLog = <<None>> /\ lastUid = 0 /\ objLog = [o \in Objects |-> <<None>>]
    BY <1>5 DEF EmptyInit
  <2>2. lastUid \in 0..MaxUid
    BY <2>1, UidAssumption
  <2>3. cappLog \in Seq(Capp \cup {None}) /\ cappLog # <<>>
    BY <2>1
  <2>4. /\ objLog \in [Objects -> Seq(Child \cup {None})]
        /\ \A o \in Objects : objLog[o] # <<>>
    BY <2>1
  <2> QED
    BY <1>1, <1>3, <2>2, <2>3, <2>4 DEF TypeOK
<1> QED
  BY <1>4, <1>5 DEF Init

\* A step that changes no log, or that leaves Reconcile alone.
LEMMA SameParts ==
    /\ LogType /\ UNCHANGED <<cappLog, cfgLog, objLog>> => LogType'
    /\ WorkType /\ UNCHANGED <<queued, workVars>> => WorkType'
    /\ WorkType /\ UNCHANGED workVars /\ queued' \in BOOLEAN => WorkType'
<1>1. ASSUME LogType, UNCHANGED <<cappLog, cfgLog, objLog>> PROVE LogType'
  BY <1>1 DEF LogType
<1>2. ASSUME WorkType, UNCHANGED workVars, queued' \in BOOLEAN PROVE WorkType'
  <2>1. UNCHANGED <<pc, snap, config, todo, errs>>
    BY <1>2 DEF workVars
  <2> QED
    BY <1>2, <2>1 DEF WorkType
<1>3. ASSUME WorkType, UNCHANGED <<queued, workVars>> PROVE WorkType'
  <2>1. queued' \in BOOLEAN
    BY <1>3 DEF WorkType
  <2> QED
    BY <1>2, <1>3, <2>1
<1> QED
  BY <1>1, <1>2, <1>3

\* The cases of Reconcile: it returns, it begins, or it first writes a finalizer
\* to an active Capp that is up to date in the cache.
LEMMA ReconcileCases ==
    ASSUME TypeOK, Reconcile
    PROVE  /\ \/ /\ UNCHANGED <<workVars, cappLog, fresh>> /\ queued' \in BOOLEAN
              \/ /\ Begin("finalize") /\ cappCache # None /\ cfgCache # None
                 /\ cappCache.deleting
                 /\ fresh' = (Len(cappLog) = 1) /\ UNCHANGED cappLog
              \/ /\ Begin("manage") /\ Active(cappCache) /\ cfgCache # None
                 /\ cappCache.fin /\ UNCHANGED <<cappLog, fresh>>
              \/ /\ Active(cappCache) /\ cfgCache # None /\ Len(cappLog) = 1
                 /\ WriteCapp([cappCache EXCEPT !.fin = TRUE])
                 /\ \/ Begin("manage")
                    \/ UNCHANGED workVars /\ queued' \in BOOLEAN
           /\ UNCHANGED <<cfgLog, objLog, lastUid, moves>>
           /\ faults' \in Nat
<1>1. faults \in Nat /\ UNCHANGED <<lastUid, moves>>
  BY DEF TypeOK, Reconcile
<1>2. CASE Return(FALSE) \/ Return(TRUE)
  <2>1. UNCHANGED <<workVars, logVars, fresh, faults>> /\ queued' \in BOOLEAN
    BY <1>2 DEF Return
  <2> QED
    BY <1>1, <2>1 DEF logVars
<1>3. CASE /\ cappCache # None /\ cfgCache # None /\ UNCHANGED <<cfgLog, objLog>>
           /\ cappCache.deleting /\ Begin("finalize")
           /\ fresh' = (Len(cappLog) = 1) /\ UNCHANGED <<cappLog, faults>>
  BY <1>1, <1>3
<1>4. CASE /\ cappCache # None /\ cfgCache # None /\ UNCHANGED <<cfgLog, objLog>>
           /\ ~cappCache.deleting /\ cappCache.fin /\ Begin("manage")
           /\ UNCHANGED <<cappLog, fresh, faults>>
  BY <1>1, <1>4 DEF Active
<1>5. CASE /\ cappCache # None /\ cfgCache # None /\ UNCHANGED <<cfgLog, objLog>>
           /\ ~cappCache.deleting /\ ensureFinalizer
  <2> DEFINE c == [cappCache EXCEPT !.fin = TRUE]
  <2>1. \/ /\ Len(cappLog) = 1
           /\ Call(WriteCapp(c), UNCHANGED <<cappLog, fresh>>,
                   Begin("manage"), queued' = TRUE /\ UNCHANGED workVars)
        \/ Refused(UNCHANGED <<cappLog, fresh>>, queued' = TRUE /\ UNCHANGED workVars)
    BY <1>5 DEF ensureFinalizer
  <2> HIDE DEF c
  <2>2. \/ UNCHANGED <<cappLog, fresh>> /\ queued' = TRUE /\ UNCHANGED workVars
        \/ /\ Len(cappLog) = 1 /\ WriteCapp(c)
           /\ \/ Begin("manage")
              \/ queued' = TRUE /\ UNCHANGED workVars
    BY <2>1 DEF Call, Refused
  <2>3. faults' \in Nat
    BY <1>1, <2>1 DEF Call, Refused
  <2> QED
    BY <1>1, <1>5, <2>2, <2>3 DEF Active, c
<1> QED
  BY <1>2, <1>3, <1>4, <1>5 DEF Reconcile

\* The cases of removeFinalizer.
LEMMA RemoveCases ==
    ASSUME TypeOK, removeFinalizer
    PROVE  /\ \/ UNCHANGED <<cappLog, fresh>>
              \/ fresh /\ WriteCapp(None)
           /\ Finish(FALSE) \/ Finish(TRUE)
           /\ UNCHANGED <<objLog, cfgLog, lastUid, moves>>
           /\ faults' \in Nat
<1>1. faults \in Nat /\ UNCHANGED <<objLog, cfgLog, lastUid, moves>>
  BY DEF TypeOK, removeFinalizer, NotWritten
<1>2. \/ fresh /\ Call(WriteCapp(None), UNCHANGED <<cappLog, fresh>>,
                       Finish(FALSE), Finish(TRUE))
      \/ ~fresh /\ Refused(UNCHANGED <<cappLog, fresh>>, Finish(TRUE))
  BY DEF removeFinalizer
<1>3. faults' \in Nat
  <2>1. UNCHANGED faults \/ faults' = faults + 1
    BY <1>2, Zenon DEF Call, Refused
  <2> QED
    BY <1>1, <2>1
<1>4. /\ \/ UNCHANGED <<cappLog, fresh>>
         \/ fresh /\ WriteCapp(None)
      /\ Finish(FALSE) \/ Finish(TRUE)
  BY <1>2 DEF Call, Refused
<1> QED
  BY <1>1, <1>3, <1>4

\* The cases of SyncStatus: nothing is written, or the status of a Capp that is
\* up to date in the cache.
LEMMA StatusCases ==
    ASSUME TypeOK, SyncStatus
    PROVE  /\ \/ UNCHANGED <<cappLog, fresh>>
              \/ /\ Len(cappLog) = 1 /\ cappCache # None
                 /\ \E st \in Status : WriteCapp([cappCache EXCEPT !.status = st])
           /\ Finish(FALSE) \/ Finish(TRUE)
           /\ UNCHANGED <<objLog, cfgLog, lastUid, moves>>
           /\ faults' \in Nat
<1> DEFINE st == BuildStatus([o \in Objects |-> childCache(o)], snap.spec, config, errs)
<1>1. faults \in Nat /\ UNCHANGED <<objLog, cfgLog, lastUid, moves>>
  BY DEF TypeOK, SyncStatus, NotWritten
<1>2. snap \in Capp /\ errs \in BOOLEAN
  BY DEF TypeOK, SyncStatus
<1>3. st \in Status
  <2>1. snap.spec \in CappSpec
    BY <1>2, InputsAssumption DEF Capp
  <2>2. [o \in Objects |-> childCache(o)] \in [Objects -> Child \cup {None}]
    BY StoreTypes
  <2> QED
    BY <1>2, <2>1, <2>2, StatusType
<1>4. \/ Refused(UNCHANGED <<cappLog, fresh>>, Finish(TRUE))
      \/ Finish(errs) /\ UNCHANGED <<cappLog, fresh, faults>>
      \/ /\ cappCache # None /\ Len(cappLog) = 1
         /\ Call(WriteCapp([cappCache EXCEPT !.status = st]),
                 UNCHANGED <<cappLog, fresh>>, Finish(errs), Finish(TRUE))
  BY DEF SyncStatus
<1> HIDE DEF st
<1>5. Finish(errs) => Finish(FALSE) \/ Finish(TRUE)
  <2>1. CASE errs = TRUE
    BY <2>1
  <2>2. CASE errs = FALSE
    BY <2>2
  <2> QED
    BY <1>2, <2>1, <2>2
<1>6. \/ UNCHANGED <<cappLog, fresh>>
      \/ /\ Len(cappLog) = 1 /\ cappCache # None
         /\ WriteCapp([cappCache EXCEPT !.status = st])
  BY <1>4 DEF Call, Refused
<1>7. Finish(FALSE) \/ Finish(TRUE)
  BY <1>4, <1>5 DEF Call, Refused
<1>8. faults' \in Nat
  <2>1. UNCHANGED faults \/ faults' = faults + 1
    BY <1>4, Zenon DEF Call, Refused
  <2> QED
    BY <1>1, <2>1
<1> QED
  BY <1>1, <1>3, <1>6, <1>7, <1>8

\* What the users of the Capp write to it.
LEMMA UserCases ==
    ASSUME TypeOK, NEW s \in Specs, CreateCapp(s) \/ UpdateCapp(s) \/ DeleteCapp
    PROVE  /\ \/ /\ CreateCapp(s) /\ capp = None /\ NewCapp(s, lastUid + 1) \in Capp
                 /\ WriteCapp(NewCapp(s, lastUid + 1)) /\ lastUid' \in 0..MaxUid
              \/ /\ UpdateCapp(s) /\ capp \in Capp /\ [capp EXCEPT !.spec = s] \in Capp
                 /\ WriteCapp([capp EXCEPT !.spec = s]) /\ UNCHANGED lastUid
              \/ /\ DeleteCapp /\ capp \in Capp /\ [capp EXCEPT !.deleting = TRUE] \in Capp
                 /\ \/ capp.fin /\ WriteCapp([capp EXCEPT !.deleting = TRUE])
                    \/ ~capp.fin /\ WriteCapp(None)
                 /\ UNCHANGED lastUid
           /\ UNCHANGED <<cfgLog, objLog, queued, workVars, faults>>
           /\ moves' \in Nat /\ moves' # moves
<1>1. moves \in Nat /\ lastUid \in 0..MaxUid /\ capp \in Capp \cup {None}
  BY StoreTypes DEF TypeOK
<1>2. /\ UNCHANGED <<cfgLog, objLog, queued, workVars, faults>>
      /\ moves' = moves + 1
  BY DEF CreateCapp, UpdateCapp, DeleteCapp, Move
<1>3. CASE CreateCapp(s)
  <2>1. capp = None /\ WriteCapp(NewCapp(s, lastUid + 1)) /\ lastUid' = lastUid + 1
        /\ lastUid < MaxUid
    BY <1>3 DEF CreateCapp
  <2>2. lastUid + 1 \in 1..MaxUid /\ lastUid + 1 \in 0..MaxUid
    BY <1>1, <2>1, UidAssumption
  <2>3. NewCapp(s, lastUid + 1) \in Capp
    BY <2>2, NoStatusType DEF NewCapp, Capp
  <2> QED
    BY <1>1, <1>2, <1>3, <2>1, <2>2, <2>3
<1>4. CASE UpdateCapp(s)
  <2>1. /\ capp # None /\ WriteCapp([capp EXCEPT !.spec = s])
        /\ UNCHANGED lastUid
    BY <1>4 DEF UpdateCapp
  <2>2. [capp EXCEPT !.spec = s] \in Capp
    BY <1>1, <2>1 DEF Capp
  <2> QED
    BY <1>1, <1>2, <1>4, <2>1, <2>2
<1>5. CASE DeleteCapp
  <2>1. /\ capp # None
        /\ WriteCapp(IF capp.fin THEN [capp EXCEPT !.deleting = TRUE] ELSE None)
        /\ UNCHANGED lastUid
    BY <1>5 DEF DeleteCapp, Active
  <2>2. [capp EXCEPT !.deleting = TRUE] \in Capp
    BY <1>1, <2>1 DEF Capp
  <2>3. CASE capp.fin
    BY <1>1, <1>2, <1>5, <2>1, <2>2, <2>3
  <2>4. CASE ~capp.fin
    BY <1>1, <1>2, <1>5, <2>1, <2>2, <2>4
  <2> QED
    BY <2>3, <2>4
<1> QED
  BY <1>3, <1>4, <1>5

\* What other clients and the children's own controllers write to a child: they
\* remove it, or change neither its owner reference nor its consumer group;
\* cert-manager creates a Secret, which has no owner.
LEMMA OthersCases ==
    ASSUME TypeOK, NEW o \in Objects,
           \/ Edit(o) \/ Remove(o) \/ Collect(o)
           \/ \E h \in Health \ {"none"} : Report(o, h)
    PROVE  /\ \E v \in Child \cup {None} :
                 /\ WriteChild(o, v) /\ child(o) # None
                 /\ v # None => /\ v.uid = child(o).uid
                                /\ v.spec.group = child(o).spec.group
           /\ UNCHANGED <<cappLog, cfgLog, lastUid, queued, workVars, fresh, faults>>
           /\ moves' \in Nat
<1>1. moves \in Nat /\ child(o) \in Child \cup {None}
  BY StoreTypes DEF TypeOK
<1>2. ASSUME NEW v, Touch(o, v)
      PROVE  /\ WriteChild(o, v) /\ moves' \in Nat
             /\ UNCHANGED <<cappLog, cfgLog, lastUid, queued, workVars, fresh, faults>>
  <2>1. WriteChild(o, v) /\ moves' = moves + 1
    BY <1>2 DEF Touch, Move
  <2>2. UNCHANGED <<cappLog, cfgLog, lastUid, queued, workVars, fresh, faults>>
    BY <1>2 DEF Touch, Move
  <2> QED
    BY <1>1, <2>1, <2>2
<1>3. CASE Edit(o)
  <2> DEFINE v == [child(o) EXCEPT !.spec.edited = TRUE]
  <2>1. child(o) # None /\ Touch(o, v)
    BY <1>3 DEF Edit
  <2>2. /\ v \in Child /\ v.uid = child(o).uid
        /\ v.spec.group = child(o).spec.group
    BY <1>1, <2>1 DEF Child, Content
  <2> HIDE DEF v
  <2> QED
    BY <1>2, <2>1, <2>2
<1>4. CASE Remove(o)
  <2>1. child(o) # None /\ Touch(o, None)
    BY <1>4 DEF Remove
  <2> QED
    BY <1>2, <2>1
<1>5. CASE \E h \in Health \ {"none"} : Report(o, h)
  <2>1. PICK h \in Health \ {"none"} : Report(o, h)
    BY <1>5
  <2> DEFINE v == [child(o) EXCEPT !.health = h]
  <2>2. child(o) # None /\ Touch(o, v)
    BY <2>1 DEF Report
  <2>3. /\ v \in Child /\ v.uid = child(o).uid
        /\ v.spec.group = child(o).spec.group
    BY <1>1, <2>2 DEF Child
  <2> HIDE DEF v
  <2> QED
    BY <1>2, <2>2, <2>3
<1>6. CASE Collect(o)
  <2>1. child(o) # None /\ WriteChild(o, None) /\ UNCHANGED moves
    BY <1>6 DEF Collect, External
  <2>2. UNCHANGED <<cappLog, cfgLog, lastUid, queued, workVars, fresh, faults>>
    BY <1>6 DEF Collect, External
  <2> QED
    BY <1>1, <2>1, <2>2
<1> QED
  BY <1>3, <1>4, <1>5, <1>6

\* cert-manager creates a Secret that is not there.
LEMMA IssueCases ==
    ASSUME TypeOK, NEW o \in Objects, IssueSecret(o)
    PROVE  /\ SecretOf(o) \in Objects \ ManagedObjects /\ child(SecretOf(o)) = None
           /\ WriteChild(SecretOf(o), Created("Secret", Blank, 0))
           /\ Created("Secret", Blank, 0) \in Child
           /\ UNCHANGED <<cappLog, cfgLog, lastUid, queued, workVars, fresh, moves, faults>>
<1>1. UNCHANGED <<cappLog, cfgLog, lastUid, queued, workVars, fresh, moves, faults>>
  BY DEF IssueSecret, External
<1>2. /\ SecretOf(o) \in Objects \ ManagedObjects /\ child(SecretOf(o)) = None
      /\ WriteChild(SecretOf(o), Created("Secret", Blank, 0))
  BY SecretIsObject DEF IssueSecret
<1>3. Blank \in Content /\ 0 \in 0..MaxUid
  BY UidAssumption DEF Blank, Content
<1> QED
  BY <1>1, <1>2, <1>3, CreatedType

\* Informers and restarts forget old versions of what the API server holds.
LEMMA DeliverCases ==
    ASSUME TypeOK,
           \/ DeliverCapp \/ DeliverConfig \/ Restart
           \/ \E o \in Objects : DeliverChild(o)
    PROVE  /\ LogType'
           /\ UNCHANGED <<capp, cfg>> /\ \A o \in Objects : UNCHANGED child(o)
           /\ Versions(cappLog') \subseteq Versions(cappLog)
           /\ \A o \in Objects : Versions(objLog'[o]) \subseteq Versions(objLog[o])
           /\ UNCHANGED <<lastUid, fresh, moves>>
           /\ \/ UNCHANGED <<workVars, faults>> /\ queued' \in BOOLEAN
              \/ Restart
<1>1. /\ cappLog \in Seq(Capp \cup {None}) /\ cappLog # <<>>
      /\ cfgLog \in Seq(Configs) /\ cfgLog # <<>>
      /\ objLog \in [Objects -> Seq(Child \cup {None})]
      /\ \A o \in Objects : objLog[o] # <<>>
      /\ queued \in BOOLEAN
  BY DEF TypeOK
<1>2. LogType
  BY <1>1 DEF LogType
<1>3. CASE DeliverCapp
  <2>1. /\ Len(cappLog) > 1 /\ cappLog' = Tail(cappLog) /\ UNCHANGED <<cfgLog, objLog>>
        /\ queued' \in BOOLEAN
    BY <1>1, <1>3 DEF DeliverCapp, CappEnqueues
  <2>2. UNCHANGED <<lastUid, workVars, fresh, moves, faults>>
    BY <1>3 DEF DeliverCapp, Undisturbed
  <2>3. /\ cappLog' \in Seq(Capp \cup {None}) /\ cappLog' # <<>>
        /\ UNCHANGED capp /\ Versions(cappLog') \subseteq Versions(cappLog)
    BY <1>1, <2>1, LogForget DEF capp
  <2>4. UNCHANGED cfg /\ \A o \in Objects : UNCHANGED child(o)
    BY <2>1 DEF cfg, child
  <2>5. LogType'
    BY <1>2, <2>1, <2>3 DEF LogType
  <2> QED
    BY <2>1, <2>2, <2>3, <2>4, <2>5
<1>4. CASE DeliverConfig
  <2>1. /\ Len(cfgLog) > 1 /\ cfgLog' = Tail(cfgLog) /\ UNCHANGED <<cappLog, objLog>>
        /\ queued' \in BOOLEAN
    BY <1>1, <1>4 DEF DeliverConfig
  <2>2. UNCHANGED <<lastUid, workVars, fresh, moves, faults>>
    BY <1>4 DEF DeliverConfig, Undisturbed
  <2>3. cfgLog' \in Seq(Configs) /\ cfgLog' # <<>> /\ UNCHANGED cfg
    BY <1>1, <2>1, LogForget DEF cfg
  <2>4. UNCHANGED capp /\ \A o \in Objects : UNCHANGED child(o)
    BY <2>1 DEF capp, child
  <2>5. LogType'
    BY <1>2, <2>1, <2>3 DEF LogType
  <2> QED
    BY <2>1, <2>2, <2>3, <2>4, <2>5
<1>5. ASSUME NEW o \in Objects, DeliverChild(o)
      PROVE  /\ LogType'
             /\ UNCHANGED <<capp, cfg>> /\ \A p \in Objects : UNCHANGED child(p)
             /\ UNCHANGED cappLog
             /\ \A p \in Objects : Versions(objLog'[p]) \subseteq Versions(objLog[p])
             /\ UNCHANGED <<lastUid, fresh, moves>>
             /\ UNCHANGED <<workVars, faults>> /\ queued' \in BOOLEAN
  <2>1. /\ Len(objLog[o]) > 1 /\ objLog' = [objLog EXCEPT ![o] = Tail(@)]
        /\ UNCHANGED <<cappLog, cfgLog>>
        /\ queued' = (queued \/ Enqueues(Kind(o), objLog[o][1], objLog[o][2]))
    BY <1>5 DEF DeliverChild
  <2>2. UNCHANGED <<lastUid, workVars, fresh, moves, faults>>
    BY <1>5 DEF DeliverChild, Undisturbed
  <2>3. queued' \in BOOLEAN
    BY <1>1, <2>1
  <2>4. objLog'[o] = Tail(objLog[o]) /\ \A p \in Objects \ {o} : objLog'[p] = objLog[p]
    BY <1>1, <2>1
  <2>5. objLog[o] \in Seq(Child \cup {None}) /\ objLog[o] # <<>>
    BY <1>1
  <2>6. /\ objLog'[o] \in Seq(Child \cup {None}) /\ objLog'[o] # <<>>
        /\ UNCHANGED child(o) /\ Versions(objLog'[o]) \subseteq Versions(objLog[o])
    BY <2>1, <2>4, <2>5, LogForget DEF child
  <2>7. \A p \in Objects \ {o} : UNCHANGED child(p)
    BY <2>4 DEF child
  <2>8. /\ objLog' \in [Objects -> Seq(Child \cup {None})]
        /\ \A p \in Objects : objLog'[p] # <<>>
    BY <1>1, <2>1, <2>4, <2>6
  <2>9. LogType' /\ UNCHANGED <<capp, cfg>>
    BY <1>2, <2>1, <2>8 DEF LogType, capp, cfg
  <2> QED
    BY <2>1, <2>2, <2>3, <2>4, <2>6, <2>7, <2>9
<1>6. CASE Restart
  <2>1. /\ cappLog' = <<capp>> /\ cfgLog' = <<cfg>>
        /\ objLog' = [o \in Objects |-> <<child(o)>>]
        /\ UNCHANGED <<lastUid, fresh, moves>>
    BY <1>6 DEF Restart
  <2>2. /\ capp \in Capp \cup {None} /\ cfg \in Configs
        /\ \A o \in Objects : child(o) \in Child \cup {None}
    BY StoreTypes
  <2>3. /\ cappLog' \in Seq(Capp \cup {None}) /\ cappLog' # <<>>
        /\ UNCHANGED capp /\ Versions(cappLog') = {capp}
    <3>1. cappLog'[Len(cappLog')] = capp
      BY <1>1, <2>1, <2>2, LogForget
    <3> QED
      BY <1>1, <2>1, <2>2, <3>1, LogForget DEF capp
  <2>4. cfgLog' \in Seq(Configs) /\ cfgLog' # <<>> /\ UNCHANGED cfg
    <3>1. cfgLog'[Len(cfgLog')] = cfg
      BY <1>1, <2>1, <2>2, LogForget
    <3> QED
      BY <1>1, <2>1, <2>2, <3>1, LogForget DEF cfg
  <2>5. ASSUME NEW o \in Objects
        PROVE  /\ objLog'[o] \in Seq(Child \cup {None}) /\ objLog'[o] # <<>>
               /\ UNCHANGED child(o) /\ Versions(objLog'[o]) \subseteq Versions(objLog[o])
    <3>1. objLog'[o] = <<child(o)>>
      BY <2>1
    <3>2. objLog[o] \in Seq(Child \cup {None}) /\ objLog[o] # <<>>
      BY <1>1
    <3>3. /\ objLog'[o] \in Seq(Child \cup {None}) /\ objLog'[o] # <<>>
          /\ objLog'[o][Len(objLog'[o])] = child(o) /\ Versions(objLog'[o]) = {child(o)}
      BY <2>2, <3>1, <3>2, LogForget
    <3>4. child(o) \in Versions(objLog[o])
      BY <3>2, LogWrite DEF child
    <3>5. UNCHANGED child(o)
      BY <3>3 DEF child
    <3> QED
      BY <3>3, <3>4, <3>5
  <2>6. capp \in Versions(cappLog)
    BY <1>1, LogWrite DEF capp
  <2>7. objLog' \in [Objects -> Seq(Child \cup {None})]
    BY <2>1, <2>5
  <2>8. LogType'
    BY <2>3, <2>4, <2>5, <2>7 DEF LogType
  <2> QED
    BY <1>6, <2>1, <2>3, <2>4, <2>5, <2>6, <2>8
<1> QED
  BY <1>3, <1>4, <1>5, <1>6

LEMMA NextTypeOK == TypeOK /\ [Next]_vars => TypeOK'
<1> SUFFICES ASSUME TypeOK, [Next]_vars PROVE TypeOK'
  OBVIOUS
<1>1. /\ LogType /\ WorkType /\ lastUid \in 0..MaxUid /\ fresh \in BOOLEAN
      /\ moves \in Nat /\ faults \in Nat
  BY TypeParts
<1>2. SUFFICES /\ LogType' /\ WorkType' /\ lastUid' \in 0..MaxUid /\ fresh' \in BOOLEAN
               /\ moves' \in Nat /\ faults' \in Nat
  BY DEF TypeOK, LogType, WorkType
<1>3. capp \in Capp \cup {None} /\ cappCache \in Capp \cup {None}
  BY StoreTypes
<1>4. CASE Reconcile
  <2>1. /\ UNCHANGED <<cfgLog, objLog, lastUid, moves>> /\ faults' \in Nat
    BY <1>4, ReconcileCases
  <2>2. LogType' /\ fresh' \in BOOLEAN
    <3>1. CASE UNCHANGED cappLog /\ (UNCHANGED fresh \/ fresh' = (Len(cappLog) = 1))
      BY <1>1, <2>1, <3>1, SameParts
    <3>2. CASE Active(cappCache) /\ WriteCapp([cappCache EXCEPT !.fin = TRUE])
      <4>1. [cappCache EXCEPT !.fin = TRUE] \in Capp
        BY <1>3, <3>2 DEF Active, Capp
      <4> QED
        BY <1>1, <2>1, <3>2, <4>1, WriteCappType
    <3> QED
      BY <1>4, <3>1, <3>2, ReconcileCases
  <2>3. WorkType'
    <3>1. CASE UNCHANGED workVars /\ queued' \in BOOLEAN
      BY <1>1, <3>1, SameParts
    <3>2. CASE Begin("manage") /\ Active(cappCache) /\ cfgCache # None
      BY <3>2, WorkSteps DEF Active
    <3>3. CASE /\ Begin("finalize") /\ cappCache # None /\ cfgCache # None
               /\ cappCache.deleting
      BY <3>3, WorkSteps
    <3> QED
      BY <1>4, <3>1, <3>2, <3>3, ReconcileCases
  <2> QED
    BY <1>1, <2>1, <2>2, <2>3
<1>5. CASE removeFinalizer
  <2>1. UNCHANGED <<objLog, cfgLog, lastUid, moves>> /\ faults' \in Nat
    BY <1>5, RemoveCases
  <2>2. LogType' /\ fresh' \in BOOLEAN
    <3>1. CASE UNCHANGED <<cappLog, fresh>>
      BY <1>1, <2>1, <3>1, SameParts
    <3>2. CASE WriteCapp(None)
      BY <1>1, <2>1, <3>2, WriteCappType
    <3> QED
      BY <1>5, <3>1, <3>2, RemoveCases
  <2>3. WorkType'
    BY <1>5, RemoveCases, WorkSteps
  <2> QED
    BY <1>1, <2>1, <2>2, <2>3
<1>6. CASE SyncStatus
  <2>1. UNCHANGED <<objLog, cfgLog, lastUid, moves>> /\ faults' \in Nat
    BY <1>6, StatusCases
  <2>2. LogType' /\ fresh' \in BOOLEAN
    <3>1. CASE UNCHANGED <<cappLog, fresh>>
      BY <1>1, <2>1, <3>1, SameParts
    <3>2. ASSUME NEW st \in Status, cappCache # None,
                 WriteCapp([cappCache EXCEPT !.status = st])
          PROVE  LogType' /\ fresh' \in BOOLEAN
      <4>1. [cappCache EXCEPT !.status = st] \in Capp
        BY <1>3, <3>2 DEF Capp
      <4> QED
        BY <1>1, <2>1, <3>2, <4>1, WriteCappType
    <3> QED
      BY <1>6, <3>1, <3>2, StatusCases
  <2>3. WorkType'
    BY <1>6, StatusCases, WorkSteps
  <2> QED
    BY <1>1, <2>1, <2>2, <2>3
<1>7. ASSUME NEW o \in Objects, Manage(o) \/ finalizeCapp(o)
      PROVE  /\ LogType' /\ WorkType' /\ lastUid' \in 0..MaxUid /\ fresh' \in BOOLEAN
             /\ moves' \in Nat /\ faults' \in Nat
  <2>1. UNCHANGED <<cappLog, cfgLog, lastUid, fresh, moves>> /\ faults' \in Nat
    BY <1>7, ChildStep
  <2>2. LogType'
    <3>1. CASE UNCHANGED objLog
      BY <1>1, <2>1, <3>1, SameParts
    <3>2. ASSUME NEW v \in Child \cup {None}, WriteChild(o, v) PROVE LogType'
      BY <1>1, <2>1, <3>2, WriteChildType
    <3> QED
      BY <1>7, <3>1, <3>2, ChildStep
  <2>3. WorkType'
    BY <1>7, ChildStep, WorkSteps
  <2> QED
    BY <1>1, <2>1, <2>2, <2>3
<1>8. CASE Restart
  <2>1. LogType' /\ UNCHANGED <<lastUid, fresh, moves>>
    BY <1>8, DeliverCases
  <2>2. /\ pc' = "idle" /\ snap' = None /\ config' = None /\ todo' = {} /\ errs' = FALSE
        /\ queued' = TRUE /\ faults' = faults + 1
    BY <1>8 DEF Restart
  <2>3. WorkType'
    BY <2>2 DEF WorkType
  <2> QED
    BY <1>1, <2>1, <2>2, <2>3
<1>9. CASE DeliverCapp \/ DeliverConfig \/ \E o \in Objects : DeliverChild(o)
  <2>1. /\ LogType' /\ UNCHANGED <<lastUid, fresh, moves>>
        /\ \/ UNCHANGED <<workVars, faults>> /\ queued' \in BOOLEAN
           \/ Restart
    BY <1>9, DeliverCases
  <2> QED
    BY <1>1, <1>8, <2>1, SameParts
<1>10. ASSUME NEW s \in Specs, CreateCapp(s) \/ UpdateCapp(s) \/ DeleteCapp
       PROVE  /\ LogType' /\ WorkType' /\ lastUid' \in 0..MaxUid /\ fresh' \in BOOLEAN
              /\ moves' \in Nat /\ faults' \in Nat
  <2>1. UNCHANGED <<cfgLog, objLog, queued, workVars, faults>> /\ moves' \in Nat
    BY <1>10, UserCases
  <2>2. PICK c \in Capp \cup {None} : WriteCapp(c) /\ lastUid' \in 0..MaxUid
    BY <1>1, <1>10, UserCases
  <2> QED
    BY <1>1, <2>1, <2>2, WriteCappType, SameParts
<1>11. ASSUME NEW c \in Configs, SetConfig(c)
       PROVE  /\ LogType' /\ WorkType' /\ lastUid' \in 0..MaxUid /\ fresh' \in BOOLEAN
              /\ moves' \in Nat /\ faults' \in Nat
  <2>1. /\ cfgLog' = Append(cfgLog, c) /\ moves' = moves + 1
        /\ UNCHANGED <<cappLog, objLog, lastUid, fresh, queued, workVars, faults>>
    BY <1>11 DEF SetConfig, Move
  <2>2. cfgLog \in Seq(Configs) /\ cfgLog # <<>>
    BY <1>1 DEF LogType
  <2>3. cfgLog' \in Seq(Configs) /\ cfgLog' # <<>>
    BY <2>1, <2>2, LogWrite
  <2>4. LogType'
    BY <1>1, <2>1, <2>3 DEF LogType
  <2> QED
    BY <1>1, <2>1, <2>4, SameParts
<1>12. ASSUME NEW o \in Objects,
              \/ Edit(o) \/ Remove(o) \/ Collect(o)
              \/ \E h \in Health \ {"none"} : Report(o, h)
       PROVE  /\ LogType' /\ WorkType' /\ lastUid' \in 0..MaxUid /\ fresh' \in BOOLEAN
              /\ moves' \in Nat /\ faults' \in Nat
  <2>1. UNCHANGED <<cappLog, cfgLog, lastUid, queued, workVars, fresh, faults>>
        /\ moves' \in Nat
    BY <1>12, OthersCases
  <2>2. PICK v \in Child \cup {None} : WriteChild(o, v)
    BY <1>12, OthersCases
  <2>3. LogType'
    BY <1>1, <2>1, <2>2, WriteChildType
  <2> QED
    BY <1>1, <2>1, <2>3, SameParts
<1>13. ASSUME NEW o \in Objects, IssueSecret(o)
       PROVE  /\ LogType' /\ WorkType' /\ lastUid' \in 0..MaxUid /\ fresh' \in BOOLEAN
              /\ moves' \in Nat /\ faults' \in Nat
  <2>1. UNCHANGED <<cappLog, cfgLog, lastUid, queued, workVars, fresh, moves, faults>>
    BY <1>13, IssueCases
  <2>2. LogType'
    BY <1>1, <1>13, <2>1, IssueCases, WriteChildType
  <2> QED
    BY <1>1, <2>1, <2>2, SameParts
<1>14. CASE UNCHANGED vars
  <2>1. UNCHANGED <<cappLog, cfgLog, objLog, lastUid, queued, workVars, fresh, moves, faults>>
    BY <1>14 DEF vars, logVars
  <2> QED
    BY <1>1, <2>1, SameParts
<1>15. CASE Worker
  BY <1>4, <1>5, <1>6, <1>7, <1>15 DEF Worker
<1>16. CASE Users
  <2>1. CASE \E s \in Specs : CreateCapp(s) \/ UpdateCapp(s)
    BY <1>10, <2>1
  <2>2. CASE DeleteCapp
    <3>1. capp \in Capp
      BY <1>3, <2>2 DEF DeleteCapp, Active
    <3>2. capp.spec \in Specs
      BY <3>1 DEF Capp
    <3> QED
      BY <1>10, <2>2, <3>2
  <2>3. CASE \E c \in Configs : SetConfig(c)
    BY <1>11, <2>3
  <2>4. CASE \E o \in Objects : \/ Edit(o) \/ Remove(o)
                                \/ \E h \in Health \ {"none"} : Report(o, h)
    BY <1>12, <2>4
  <2> QED
    BY <1>16, <2>1, <2>2, <2>3, <2>4 DEF Users
<1> QED
  BY <1>8, <1>9, <1>12, <1>13, <1>14, <1>15, <1>16 DEF Next

\* The state of the controller stays well typed: Reconcile never works on a Capp
\* or with a CappConfig it has not got, however the caches change under it.
THEOREM TypeCorrect == Spec => []TypeOK
<1>1. Init => TypeOK
  BY InitTypeOK
<1>2. TypeOK /\ [Next]_vars => TypeOK'
  BY NextTypeOK
<1> QED
  BY <1>1, <1>2, PTL DEF Spec

----------------------------------------------------------------------------
(* What a step may do to a child, to the Capp and to Reconcile             *)

\* The disjuncts of Next.
LEMMA NextCases ==
    ASSUME TypeOK, [Next]_vars
    PROVE  \/ Reconcile \/ removeFinalizer \/ SyncStatus
           \/ \E o \in Objects : Manage(o) \/ finalizeCapp(o)
           \/ DeliverCapp \/ DeliverConfig \/ Restart \/ \E o \in Objects : DeliverChild(o)
           \/ \E s \in Specs : CreateCapp(s) \/ UpdateCapp(s) \/ DeleteCapp
           \/ \E c \in Configs : SetConfig(c)
           \/ \E o \in Objects : \/ Edit(o) \/ Remove(o) \/ Collect(o)
                                 \/ \E h \in Health \ {"none"} : Report(o, h)
           \/ \E o \in Objects : IssueSecret(o)
           \/ UNCHANGED vars
<1>1. ASSUME DeleteCapp PROVE \E s \in Specs : DeleteCapp
  <2>1. capp \in Capp
    BY <1>1, StoreTypes DEF DeleteCapp, Active
  <2>2. capp.spec \in Specs
    BY <2>1 DEF Capp
  <2> QED
    BY <1>1, <2>2
<1> QED
  BY <1>1 DEF Next, Worker, Users

\* A child is as it was and old versions of it are forgotten, or it is written:
\* deleted, changed with its owner and its consumer group kept, written by a
\* manager for the Capp Reconcile works on, or a new Secret.
ChildEvent(o) ==
    \/ UNCHANGED child(o) /\ Versions(objLog'[o]) \subseteq Versions(objLog[o])
    \/ /\ Versions(objLog'[o]) = Versions(objLog[o]) \cup {child(o)'}
       /\ \/ child(o)' = None
          \/ /\ child(o) # None /\ child(o)' # None /\ child(o)'.uid = child(o).uid
             /\ child(o)'.spec.group = child(o).spec.group
          \/ /\ child(o)' # None /\ pc = "manage" /\ child(o)'.uid = snap.uid
             /\ Kind(o) = "KafkaSource" /\ child(o) # None
                   => child(o)'.spec.group = child(o).spec.group
          \/ o \notin ManagedObjects /\ child(o) = None /\ child(o)'.uid = 0

LEMMA WriteChildEffect ==
    ASSUME TypeOK, NEW o \in Objects, NEW v \in Child \cup {None}, WriteChild(o, v)
    PROVE  /\ child(o)' = v
           /\ Versions(objLog'[o]) = Versions(objLog[o]) \cup {v}
           /\ \A p \in Objects \ {o} : ChildEvent(p)
<1>1. /\ objLog \in [Objects -> Seq(Child \cup {None})]
      /\ objLog[o] \in Seq(Child \cup {None}) /\ objLog[o] # <<>>
  BY DEF TypeOK
<1>2. objLog'[o] = Append(objLog[o], v) /\ \A p \in Objects \ {o} : objLog'[p] = objLog[p]
  BY <1>1 DEF WriteChild
<1>3. child(o)' = v /\ Versions(objLog'[o]) = Versions(objLog[o]) \cup {v}
  BY <1>1, <1>2, LogWrite DEF child
<1>4. \A p \in Objects \ {o} : ChildEvent(p)
  BY <1>2 DEF ChildEvent, child
<1> QED
  BY <1>3, <1>4

LEMMA ChildEvents ==
    ASSUME TypeOK, [Next]_vars
    PROVE  \A o \in Objects : ChildEvent(o)
<1>1. ASSUME UNCHANGED objLog PROVE \A o \in Objects : ChildEvent(o)
  BY <1>1 DEF ChildEvent, child
<1>2. CASE Reconcile
  BY <1>1, <1>2, ReconcileCases
<1>3. CASE removeFinalizer
  BY <1>1, <1>3, RemoveCases
<1>4. CASE SyncStatus
  BY <1>1, <1>4, StatusCases
<1>5. ASSUME NEW o \in Objects, Manage(o) \/ finalizeCapp(o)
      PROVE  \A p \in Objects : ChildEvent(p)
  <2>1. CASE WriteChild(o, None)
    <3>1. /\ child(o)' = None /\ Versions(objLog'[o]) = Versions(objLog[o]) \cup {None}
          /\ \A p \in Objects \ {o} : ChildEvent(p)
      BY <2>1, WriteChildEffect
    <3>2. ChildEvent(o)
      BY <3>1 DEF ChildEvent
    <3> QED
      BY <3>1, <3>2
  <2>2. ASSUME NEW v \in Child, WriteChild(o, v), pc = "manage", v.uid = snap.uid,
               Kind(o) = "KafkaSource" /\ child(o) # None
                  => v.spec.group = child(o).spec.group
        PROVE  \A p \in Objects : ChildEvent(p)
    <3>1. /\ child(o)' = v /\ Versions(objLog'[o]) = Versions(objLog[o]) \cup {v}
          /\ \A p \in Objects \ {o} : ChildEvent(p)
      BY <2>2, WriteChildEffect
    <3>2. v # None
      BY NoneAssumption
    <3>3. ChildEvent(o)
      BY <2>2, <3>1, <3>2 DEF ChildEvent
    <3> QED
      BY <3>1, <3>3
  <2> QED
    BY <1>1, <1>5, <2>1, <2>2, ChildStep
<1>6. CASE DeliverCapp \/ DeliverConfig \/ Restart \/ \E o \in Objects : DeliverChild(o)
  BY <1>6, DeliverCases DEF ChildEvent
<1>7. CASE \E s \in Specs : CreateCapp(s) \/ UpdateCapp(s) \/ DeleteCapp
  BY <1>1, <1>7, UserCases
<1>8. CASE \E c \in Configs : SetConfig(c)
  BY <1>1, <1>8 DEF SetConfig
<1>9. ASSUME NEW o \in Objects,
             \/ Edit(o) \/ Remove(o) \/ Collect(o)
             \/ \E h \in Health \ {"none"} : Report(o, h)
      PROVE  \A p \in Objects : ChildEvent(p)
  <2>1. PICK v \in Child \cup {None} :
           /\ WriteChild(o, v) /\ child(o) # None
           /\ v # None => v.uid = child(o).uid /\ v.spec.group = child(o).spec.group
    BY <1>9, OthersCases
  <2>2. /\ child(o)' = v /\ Versions(objLog'[o]) = Versions(objLog[o]) \cup {v}
        /\ \A p \in Objects \ {o} : ChildEvent(p)
    BY <2>1, WriteChildEffect
  <2>3. ChildEvent(o)
    BY <2>1, <2>2 DEF ChildEvent
  <2> QED
    BY <2>2, <2>3
<1>10. ASSUME NEW o \in Objects, IssueSecret(o) PROVE \A p \in Objects : ChildEvent(p)
  <2> DEFINE t == SecretOf(o)
             v == Created("Secret", Blank, 0)
  <2>1. /\ t \in Objects \ ManagedObjects /\ child(t) = None /\ WriteChild(t, v)
        /\ v \in Child /\ v.uid = 0
    BY <1>10, IssueCases DEF Created
  <2> HIDE DEF t, v
  <2>2. /\ child(t)' = v /\ Versions(objLog'[t]) = Versions(objLog[t]) \cup {v}
        /\ \A p \in Objects \ {t} : ChildEvent(p)
    BY <2>1, WriteChildEffect
  <2>3. ChildEvent(t)
    BY <2>1, <2>2 DEF ChildEvent
  <2> QED
    BY <2>2, <2>3
<1>11. CASE UNCHANGED vars
  BY <1>1, <1>11 DEF vars, logVars
<1> QED
  BY <1>2, <1>3, <1>4, <1>5, <1>6, <1>7, <1>8, <1>9, <1>10, <1>11, NextCases

\* The Capp is as it was and old versions of it are forgotten, or it is written:
\* created; changed in place, its finalizer kept, and its specification only by
\* a user; or removed, by a user if it has no finalizer and by removeFinalizer.
CappEvent ==
    \/ UNCHANGED capp /\ Versions(cappLog') \subseteq Versions(cappLog)
    \/ /\ Versions(cappLog') = Versions(cappLog) \cup {capp'}
       /\ \/ capp = None /\ capp' # None /\ ~capp'.fin
          \/ /\ capp # None /\ capp' # None /\ capp'.uid = capp.uid
             /\ capp.fin => capp'.fin
             /\ capp'.spec = capp.spec \/ moves' # moves
          \/ capp # None /\ ~capp.fin /\ capp' = None
          \/ capp' = None /\ pc = "finalize" /\ todo = {} /\ fresh /\ pc' = "idle"

LEMMA WriteCappEffect ==
    ASSUME TypeOK, NEW c \in Capp \cup {None}, WriteCapp(c)
    PROVE  capp' = c /\ Versions(cappLog') = Versions(cappLog) \cup {c} /\ fresh' = FALSE
<1>1. cappLog \in Seq(Capp \cup {None}) /\ cappLog # <<>>
  BY DEF TypeOK
<1>2. cappLog' = Append(cappLog, c) /\ fresh' = FALSE
  BY DEF WriteCapp
<1> QED
  BY <1>1, <1>2, LogWrite DEF capp

LEMMA CappEvents ==
    ASSUME TypeOK, [Next]_vars
    PROVE  CappEvent
<1>1. ASSUME UNCHANGED cappLog PROVE CappEvent
  BY <1>1 DEF CappEvent, capp
<1>2. capp \in Capp \cup {None} /\ cappCache \in Capp \cup {None}
  BY StoreTypes
<1>3. Len(cappLog) = 1 => capp = cappCache
  BY DEF capp, cappCache
<1>4. CASE Reconcile
  <2>1. CASE /\ Active(cappCache) /\ Len(cappLog) = 1
             /\ WriteCapp([cappCache EXCEPT !.fin = TRUE])
    <3> DEFINE c == [cappCache EXCEPT !.fin = TRUE]
    <3>1. cappCache \in Capp /\ capp = cappCache /\ capp # None
      BY <1>2, <1>3, <2>1 DEF Active
    <3>2. c \in Capp /\ c.uid = capp.uid /\ c.fin = TRUE /\ c.spec = capp.spec
      BY <3>1 DEF Capp
    <3> HIDE DEF c
    <3>3. capp' = c /\ Versions(cappLog') = Versions(cappLog) \cup {c}
      BY <2>1, <3>2, WriteCappEffect DEF c
    <3>4. c # None
      BY <3>2, NoCappAssumption
    <3> QED
      BY <3>1, <3>2, <3>3, <3>4 DEF CappEvent
  <2> QED
    BY <1>1, <1>4, <2>1, ReconcileCases
<1>5. CASE removeFinalizer
  <2>1. CASE fresh /\ WriteCapp(None)
    <3>1. capp' = None /\ Versions(cappLog') = Versions(cappLog) \cup {None}
      BY <2>1, WriteCappEffect
    <3>2. pc = "finalize" /\ todo = {}
      BY <1>5 DEF removeFinalizer
    <3>3. pc' = "idle"
      BY <1>5, RemoveCases DEF Finish
    <3> QED
      BY <2>1, <3>1, <3>2, <3>3 DEF CappEvent
  <2> QED
    BY <1>1, <1>5, <2>1, RemoveCases
<1>6. CASE SyncStatus
  <2>1. ASSUME NEW st \in Status, Len(cappLog) = 1, cappCache # None,
               WriteCapp([cappCache EXCEPT !.status = st])
        PROVE  CappEvent
    <3> DEFINE c == [cappCache EXCEPT !.status = st]
    <3>1. cappCache \in Capp /\ capp = cappCache /\ capp # None
      BY <1>2, <1>3, <2>1
    <3>2. c \in Capp /\ c.uid = capp.uid /\ c.fin = capp.fin /\ c.spec = capp.spec
      BY <3>1 DEF Capp
    <3> HIDE DEF c
    <3>3. capp' = c /\ Versions(cappLog') = Versions(cappLog) \cup {c}
      BY <2>1, <3>2, WriteCappEffect DEF c
    <3>4. c # None
      BY <3>2, NoCappAssumption
    <3> QED
      BY <3>1, <3>2, <3>3, <3>4 DEF CappEvent
  <2> QED
    BY <1>1, <1>6, <2>1, StatusCases
<1>7. ASSUME NEW o \in Objects, Manage(o) \/ finalizeCapp(o) PROVE CappEvent
  BY <1>1, <1>7, ChildStep
<1>8. CASE DeliverCapp \/ DeliverConfig \/ Restart \/ \E o \in Objects : DeliverChild(o)
  BY <1>8, DeliverCases DEF CappEvent
<1>9. ASSUME NEW s \in Specs, CreateCapp(s) \/ UpdateCapp(s) \/ DeleteCapp
      PROVE  CappEvent
  <2>1. moves' # moves
    BY <1>9, UserCases
  <2>2. CASE /\ capp = None /\ NewCapp(s, lastUid + 1) \in Capp
             /\ WriteCapp(NewCapp(s, lastUid + 1))
    <3> DEFINE c == NewCapp(s, lastUid + 1)
    <3>1. c \in Capp /\ c # None /\ c.fin = FALSE
      BY <2>2, NoCappAssumption DEF NewCapp
    <3> HIDE DEF c
    <3>2. capp' = c /\ Versions(cappLog') = Versions(cappLog) \cup {c}
      BY <2>2, <3>1, WriteCappEffect DEF c
    <3> QED
      BY <2>2, <3>1, <3>2 DEF CappEvent
  <2>3. CASE /\ capp \in Capp /\ [capp EXCEPT !.spec = s] \in Capp
             /\ WriteCapp([capp EXCEPT !.spec = s])
    <3> DEFINE c == [capp EXCEPT !.spec = s]
    <3>1. c \in Capp /\ c.uid = capp.uid /\ c.fin = capp.fin
      BY <2>3 DEF Capp
    <3> HIDE DEF c
    <3>2. capp' = c /\ Versions(cappLog') = Versions(cappLog) \cup {c}
      BY <2>3, <3>1, WriteCappEffect DEF c
    <3>3. c # None /\ capp # None
      BY <2>3, <3>1, NoCappAssumption
    <3> QED
      BY <2>1, <3>1, <3>2, <3>3 DEF CappEvent
  <2>4. CASE /\ capp \in Capp /\ capp.fin
             /\ [capp EXCEPT !.deleting = TRUE] \in Capp
             /\ WriteCapp([capp EXCEPT !.deleting = TRUE])
    <3> DEFINE c == [capp EXCEPT !.deleting = TRUE]
    <3>1. c \in Capp /\ c.uid = capp.uid /\ c.fin = capp.fin
      BY <2>4 DEF Capp
    <3> HIDE DEF c
    <3>2. capp' = c /\ Versions(cappLog') = Versions(cappLog) \cup {c}
      BY <2>4, <3>1, WriteCappEffect DEF c
    <3>3. c # None /\ capp # None
      BY <2>4, <3>1, NoCappAssumption
    <3> QED
      BY <2>1, <3>1, <3>2, <3>3 DEF CappEvent
  <2>5. CASE capp \in Capp /\ ~capp.fin /\ WriteCapp(None)
    <3>1. capp' = None /\ Versions(cappLog') = Versions(cappLog) \cup {None}
      BY <2>5, WriteCappEffect
    <3> QED
      BY <2>5, <3>1, NoCappAssumption DEF CappEvent
  <2> QED
    BY <1>9, <2>2, <2>3, <2>4, <2>5, UserCases
<1>10. CASE \E c \in Configs : SetConfig(c)
  BY <1>1, <1>10 DEF SetConfig
<1>11. ASSUME NEW o \in Objects,
              \/ Edit(o) \/ Remove(o) \/ Collect(o)
              \/ \E h \in Health \ {"none"} : Report(o, h)
       PROVE  CappEvent
  BY <1>1, <1>11, OthersCases
<1>12. ASSUME NEW o \in Objects, IssueSecret(o) PROVE CappEvent
  BY <1>1, <1>12, IssueCases
<1>13. CASE UNCHANGED vars
  BY <1>1, <1>13 DEF vars, logVars
<1> QED
  BY <1>4, <1>5, <1>6, <1>7, <1>8, <1>9, <1>10, <1>11, <1>12, <1>13, NextCases

\* CleanUp is done with a child: it is deleted, or left because it is gone, the
\* cache does not have it, or the cache has it with an owner.
Cleaned(o) ==
    \/ child(o)' = None
    \/ /\ UNCHANGED child(o)
       /\ child(o) = None \/ childCache(o) = None \/ childCache(o).uid # 0

\* Reconcile ends or is not running, begins to manage, begins to finalize, or
\* goes on with the Capp it has.
WorkEvent ==
    \/ pc' = "idle"
    \/ /\ pc' = "manage" /\ snap' = cappCache /\ Active(cappCache)
       /\ \/ UNCHANGED cappLog /\ cappCache.fin
          \/ capp' # None /\ capp'.uid = cappCache.uid /\ capp'.fin
    \/ /\ pc' = "finalize" /\ snap' = cappCache /\ todo' = ManagedObjects
       /\ UNCHANGED cappLog /\ fresh' = (Len(cappLog) = 1)
    \/ /\ UNCHANGED <<pc, snap>>
       /\ \/ UNCHANGED <<cappLog, fresh>>
          \/ fresh' = FALSE
          \/ Len(cappLog) > 1 /\ UNCHANGED fresh
       /\ pc = "finalize" =>
             \A o \in ManagedObjects \ todo' : o \notin todo \/ Cleaned(o)

LEMMA WorkEvents ==
    ASSUME TypeOK, [Next]_vars
    PROVE  WorkEvent
<1>1. ASSUME UNCHANGED workVars,
             \/ UNCHANGED <<cappLog, fresh>>
             \/ fresh' = FALSE
             \/ Len(cappLog) > 1 /\ UNCHANGED fresh
      PROVE  WorkEvent
  BY <1>1 DEF workVars, WorkEvent
<1>2. cappCache \in Capp \cup {None}
  BY StoreTypes
<1>3. CASE Reconcile
  <2>1. CASE UNCHANGED <<workVars, cappLog, fresh>>
    BY <1>1, <2>1
  <2>2. CASE /\ Begin("finalize") /\ fresh' = (Len(cappLog) = 1) /\ UNCHANGED cappLog
    BY <2>2 DEF Begin, WorkEvent
  <2>3. CASE /\ Begin("manage") /\ Active(cappCache) /\ cappCache.fin
             /\ UNCHANGED <<cappLog, fresh>>
    BY <2>3 DEF Begin, WorkEvent
  <2>4. CASE /\ Active(cappCache) /\ WriteCapp([cappCache EXCEPT !.fin = TRUE])
             /\ Begin("manage") \/ UNCHANGED workVars
    <3> DEFINE c == [cappCache EXCEPT !.fin = TRUE]
    <3>1. c \in Capp /\ c.uid = cappCache.uid /\ c.fin = TRUE
      BY <1>2, <2>4 DEF Active, Capp
    <3> HIDE DEF c
    <3>2. capp' = c /\ fresh' = FALSE
      BY <2>4, <3>1, WriteCappEffect DEF c
    <3>3. c # None
      BY <3>1, NoCappAssumption
    <3>4. CASE UNCHANGED workVars
      BY <1>1, <3>2, <3>4
    <3>5. CASE Begin("manage")
      BY <2>4, <3>1, <3>2, <3>3, <3>5 DEF Begin, WorkEvent
    <3> QED
      BY <2>4, <3>4, <3>5
  <2> QED
    BY <1>3, <2>1, <2>2, <2>3, <2>4, ReconcileCases
<1>4. CASE removeFinalizer
  BY <1>4, RemoveCases DEF Finish, WorkEvent
<1>5. CASE SyncStatus
  BY <1>5, StatusCases DEF Finish, WorkEvent
<1>6. ASSUME NEW o \in Objects, Manage(o)
      PROVE  WorkEvent
  <2>1. UNCHANGED <<cappLog, fresh>> /\ pc = "manage"
    BY <1>6 DEF Manage
  <2>2. Done(o, {}) \/ Done(o, Secrets(o)) \/ Failed(o)
    BY <1>6, ChildStep
  <2>3. UNCHANGED <<pc, snap>>
    BY <2>1, <2>2 DEF Done, Failed
  <2> QED
    BY <2>1, <2>3 DEF WorkEvent
<1>7. ASSUME NEW o \in Objects, finalizeCapp(o)
      PROVE  WorkEvent
  <2>1. UNCHANGED <<cappLog, fresh>> /\ pc = "finalize" /\ CleanUp(o)
    BY <1>7 DEF finalizeCapp
  <2>2. CASE Failed(o)
    BY <2>1, <2>2 DEF Failed, Finish, WorkEvent
  <2>3. CASE /\ Done(o, {}) \/ Done(o, Secrets(o))
             /\ \/ WriteChild(o, None)
                \/ /\ UNCHANGED objLog
                   /\ \/ childCache(o) = None \/ child(o) = None
                      \/ childCache(o).uid # 0
    <3>1. UNCHANGED <<pc, snap>> /\ todo \ {o} \subseteq todo'
      BY <2>3 DEF Done
    <3>2. Cleaned(o)
      <4>1. CASE WriteChild(o, None)
        BY <4>1, WriteChildEffect DEF Cleaned
      <4>2. CASE /\ UNCHANGED objLog
                 /\ childCache(o) = None \/ child(o) = None \/ childCache(o).uid # 0
        <5>1. UNCHANGED child(o)
          BY <4>2 DEF child
        <5> QED
          BY <4>2, <5>1 DEF Cleaned
      <4> QED
        BY <2>3, <4>1, <4>2
    <3> QED
      BY <2>1, <3>1, <3>2 DEF WorkEvent
  <2> QED
    BY <2>1, <2>2, <2>3, CleanUpStep
<1>8. CASE Restart
  BY <1>8 DEF Restart, WorkEvent
<1>9. CASE DeliverCapp
  <2>1. UNCHANGED <<workVars, fresh>> /\ Len(cappLog) > 1
    BY <1>9 DEF DeliverCapp, Undisturbed
  <2> QED
    BY <1>1, <2>1
<1>10. CASE DeliverConfig
  <2>1. UNCHANGED <<workVars, cappLog, fresh>>
    BY <1>10 DEF DeliverConfig, Undisturbed
  <2> QED
    BY <1>1, <2>1
<1>11. ASSUME NEW o \in Objects, DeliverChild(o) PROVE WorkEvent
  <2>1. UNCHANGED <<workVars, cappLog, fresh>>
    BY <1>11 DEF DeliverChild, Undisturbed
  <2> QED
    BY <1>1, <2>1
<1>12. ASSUME NEW s \in Specs, CreateCapp(s) \/ UpdateCapp(s) \/ DeleteCapp
       PROVE  WorkEvent
  <2>1. UNCHANGED workVars
    BY <1>12, UserCases
  <2>2. fresh' = FALSE
    BY <1>12, UserCases DEF WriteCapp
  <2> QED
    BY <1>1, <2>1, <2>2
<1>13. ASSUME NEW c \in Configs, SetConfig(c) PROVE WorkEvent
  <2>1. UNCHANGED <<workVars, cappLog, fresh>>
    BY <1>13 DEF SetConfig, Move
  <2> QED
    BY <1>1, <2>1
<1>14. ASSUME NEW o \in Objects,
              \/ Edit(o) \/ Remove(o) \/ Collect(o)
              \/ \E h \in Health \ {"none"} : Report(o, h)
       PROVE  WorkEvent
  BY <1>1, <1>14, OthersCases
<1>15. ASSUME NEW o \in Objects, IssueSecret(o) PROVE WorkEvent
  BY <1>1, <1>15, IssueCases
<1>16. CASE UNCHANGED vars
  <2>1. UNCHANGED <<workVars, cappLog, fresh>>
    BY <1>16 DEF vars, logVars
  <2> QED
    BY <1>1, <2>1
<1> QED
  BY <1>3, <1>4, <1>5, <1>6, <1>7, <1>8, <1>9, <1>10, <1>11, <1>12, <1>13, <1>14,
     <1>15, <1>16, NextCases

----------------------------------------------------------------------------
(* The inductive invariant                                                 *)

Unowned(v) == v # None /\ v.uid = 0

\* Nobody creates a child without an owner: if one exists, the cache has always
\* had one.
OwnedStays ==
    \A o \in ManagedObjects :
        Unowned(child(o)) => \A v \in Versions(objLog[o]) : Unowned(v)

\* A cache that has the Capp active and with its finalizer is right about the
\* life it belongs to: the finalizer is still there.
HeldLog ==
    \A c \in Versions(cappLog) : Active(c) /\ c.fin => Alive(c.uid) /\ capp.fin

\* While the managers work for a Capp, that Capp exists and is held.
HeldSync == pc = "manage" => Alive(snap.uid) /\ capp.fin

\* A Capp nobody has written since Reconcile read it is the one it read.
FreshSnap == pc = "finalize" /\ fresh => cappLog = <<snap>>

\* A child without an owner exists only while its Capp is held.
Unheld ==
    capp = None \/ ~capp.fin => \A o \in ManagedObjects : ~Unowned(child(o))

\* finalizeCapp leaves no child without an owner behind.
Progress ==
    pc = "finalize" => \A o \in ManagedObjects \ todo : ~Unowned(child(o))

IInv ==
    TypeOK /\ OwnedStays /\ HeldLog /\ HeldSync /\ FreshSnap /\ Unheld /\ Progress

LEMMA InitIInv == Init => IInv
<1> SUFFICES ASSUME Init PROVE IInv
  OBVIOUS
<1>1. TypeOK /\ pc = "idle"
  BY InitTypeOK DEF Init
<1>2. ManagedObjects \subseteq Objects
  BY DEF ManagedObjects
<1>3. PICK c \in Capp \cup {None} : cappLog = <<c>> /\ (c # None => c.fin = TRUE)
  <2>1. CASE \E s \in Specs : LegacyInit(s)
    <3>1. PICK s \in Specs : cappLog = <<[NewCapp(s, 1) EXCEPT !.fin = TRUE]>>
      BY <2>1 DEF LegacyInit
    <3> DEFINE c == [NewCapp(s, 1) EXCEPT !.fin = TRUE]
    <3>2. c.fin = TRUE
      BY DEF NewCapp
    <3>3. c \in Capp
      <4>1. NewCapp(s, 1) \in Capp
        BY NoStatusType, UidAssumption DEF NewCapp, Capp
      <4> QED
        BY <4>1 DEF Capp
    <3> HIDE DEF c
    <3> QED
      BY <3>1, <3>2, <3>3 DEF c
  <2>2. CASE EmptyInit
    BY <2>2 DEF EmptyInit
  <2> QED
    BY <2>1, <2>2 DEF Init
<1>4. capp = c /\ Versions(cappLog) = {c}
  <2>1. cappLog \in Seq(Capp \cup {None}) /\ cappLog # <<>>
    BY <1>1 DEF TypeOK
  <2> QED
    BY <1>3, <2>1, LogForget DEF capp
<1>5. \A o \in Objects : Versions(objLog[o]) = {child(o)}
  <2> TAKE o \in Objects
  <2>1. objLog[o] \in Seq(Child \cup {None}) /\ objLog[o] # <<>>
    BY <1>1 DEF TypeOK
  <2>2. \E v : objLog[o] = <<v>>
    BY DEF Init, EmptyInit, LegacyInit
  <2>3. PICK v : objLog[o] = <<v>>
    BY <2>2
  <2>4. v \in Child \cup {None}
    BY <2>1, <2>3
  <2>5. <<v>>[Len(<<v>>)] = v /\ Versions(<<v>>) = {v}
    BY <2>1, <2>4, LogForget
  <2>6. child(o) = v
    BY <2>3, <2>5 DEF child
  <2> QED
    BY <2>3, <2>5, <2>6
<1>6. OwnedStays
  BY <1>2, <1>5 DEF OwnedStays
<1>7. HeldLog
  BY <1>3, <1>4 DEF HeldLog, Alive, Active
<1>8. Unheld
  <2>1. CASE c = None
    <3>1. EmptyInit
      <4>1. ASSUME \E s \in Specs : LegacyInit(s) PROVE FALSE
        <5>1. PICK s \in Specs : cappLog = <<[NewCapp(s, 1) EXCEPT !.fin = TRUE]>>
          BY <4>1 DEF LegacyInit
        <5>2. [NewCapp(s, 1) EXCEPT !.fin = TRUE] \in Capp
          <6>1. NewCapp(s, 1) \in Capp
            BY NoStatusType, UidAssumption DEF NewCapp, Capp
          <6> QED
            BY <6>1 DEF Capp
        <5>3. [NewCapp(s, 1) EXCEPT !.fin = TRUE] = None
          BY <1>3, <2>1, <5>1
        <5> QED
          BY <5>2, <5>3, NoCappAssumption
      <4> QED
        BY <4>1 DEF Init
    <3>2. \A o \in Objects : child(o) = None
      BY <3>1 DEF EmptyInit, child
    <3> QED
      BY <1>2, <3>2 DEF Unheld, Unowned
  <2>2. CASE c # None
    BY <1>3, <1>4, <2>2 DEF Unheld
  <2> QED
    BY <2>1, <2>2
<1> QED
  BY <1>1, <1>6, <1>7, <1>8 DEF IInv, HeldSync, FreshSnap, Progress

\* A child that has an owner, or is not there, never loses its owner.
LEMMA NoNewUnowned ==
    ASSUME IInv, [Next]_vars, NEW o \in ManagedObjects, Unowned(child(o)')
    PROVE  /\ Unowned(child(o))
           /\ \A v \in Versions(objLog'[o]) : Unowned(v)
<1>1. o \in Objects
  BY DEF ManagedObjects
<1>2. ChildEvent(o)
  BY <1>1, ChildEvents DEF IInv
<1>3. pc = "manage" => snap.uid # 0
  <2>1. pc = "manage" => snap \in Capp
    BY DEF IInv, TypeOK
  <2>2. 0 \notin 1..MaxUid
    OBVIOUS
  <2> QED
    BY <2>1, <2>2 DEF Capp
<1>4. Unowned(child(o))
  BY <1>2, <1>3 DEF ChildEvent, Unowned
<1>5. \A v \in Versions(objLog[o]) : Unowned(v)
  BY <1>4 DEF IInv, OwnedStays
<1> QED
  BY <1>2, <1>4, <1>5 DEF ChildEvent

LEMMA NextIInv == IInv /\ [Next]_vars => IInv'
<1> SUFFICES ASSUME IInv, [Next]_vars PROVE IInv'
  OBVIOUS
<1> USE DEF IInv
<1>1. TypeOK'
  BY NextTypeOK
<1>2. CappEvent /\ WorkEvent
  BY CappEvents, WorkEvents
<1>3. ManagedObjects \subseteq Objects
  BY DEF ManagedObjects
<1>4. /\ cappLog \in Seq(Capp \cup {None}) /\ cappLog # <<>>
      /\ Len(cappLog) \in Nat \ {0} /\ cappCache \in Versions(cappLog)
  BY LogWrite DEF TypeOK, cappCache
<1>5. OwnedStays'
  BY NoNewUnowned DEF OwnedStays
<1>6. ASSUME pc = "finalize", fresh PROVE Versions(cappLog) = {snap} /\ snap.deleting
  <2>1. cappLog = <<snap>> /\ snap \in Capp \cup {None} /\ snap.deleting
    BY <1>6 DEF FreshSnap, TypeOK
  <2> QED
    BY <1>4, <2>1, LogForget
<1>7. HeldLog'
  <2> SUFFICES ASSUME NEW c \in Versions(cappLog'), Active(c), c.fin
               PROVE  Alive(c.uid)' /\ capp'.fin
    BY DEF HeldLog, Active
  <2>1. c \in Versions(cappLog) => Alive(c.uid) /\ capp.fin
    BY DEF HeldLog
  <2>2. CASE UNCHANGED capp /\ Versions(cappLog') \subseteq Versions(cappLog)
    BY <2>1, <2>2 DEF Alive
  <2>3. CASE /\ Versions(cappLog') = Versions(cappLog) \cup {capp'}
             /\ capp = None /\ capp' # None /\ ~capp'.fin
    BY <2>1, <2>3 DEF Alive
  <2>4. CASE /\ Versions(cappLog') = Versions(cappLog) \cup {capp'}
             /\ capp # None /\ capp' # None /\ capp'.uid = capp.uid
             /\ capp.fin => capp'.fin
    BY <2>1, <2>4 DEF Alive
  <2>5. CASE /\ Versions(cappLog') = Versions(cappLog) \cup {capp'}
             /\ capp # None /\ ~capp.fin /\ capp' = None
    BY <2>1, <2>5 DEF Active
  <2>6. CASE /\ Versions(cappLog') = Versions(cappLog) \cup {capp'}
             /\ capp' = None /\ pc = "finalize" /\ fresh
    BY <1>6, <2>6 DEF Active
  <2> QED
    BY <1>2, <2>2, <2>3, <2>4, <2>5, <2>6 DEF CappEvent
<1>8. HeldSync'
  <2> SUFFICES ASSUME pc' = "manage" PROVE Alive(snap.uid)' /\ capp'.fin
    BY DEF HeldSync
  <2>1. CASE /\ snap' = cappCache /\ Active(cappCache)
             /\ UNCHANGED cappLog /\ cappCache.fin
    <3>1. Alive(cappCache.uid) /\ capp.fin
      BY <1>4, <2>1 DEF HeldLog
    <3> QED
      BY <2>1, <3>1 DEF Alive, capp
  <2>2. CASE /\ snap' = cappCache
             /\ capp' # None /\ capp'.uid = cappCache.uid /\ capp'.fin
    BY <2>2 DEF Alive
  <2>3. CASE UNCHANGED <<pc, snap>>
    <3>1. pc = "manage" /\ capp # None /\ capp.uid = snap.uid /\ capp.fin
      BY <2>3 DEF HeldSync, Alive
    <3>2. capp' # None /\ capp'.uid = capp.uid /\ capp'.fin
      BY <1>2, <3>1 DEF CappEvent
    <3> QED
      BY <2>3, <3>1, <3>2 DEF Alive
  <2> QED
    BY <1>2, <2>1, <2>2, <2>3 DEF WorkEvent
<1>9. FreshSnap'
  <2> SUFFICES ASSUME pc' = "finalize", fresh' PROVE cappLog' = <<snap'>>
    BY DEF FreshSnap
  <2>1. CASE snap' = cappCache /\ UNCHANGED cappLog /\ fresh' = (Len(cappLog) = 1)
    <3>1. Len(cappLog) = 1
      BY <2>1
    <3>2. cappLog = <<cappLog[1]>>
      BY <1>4, <3>1
    <3> QED
      BY <2>1, <3>2 DEF cappCache
  <2>2. CASE /\ UNCHANGED <<pc, snap>>
             /\ UNCHANGED <<cappLog, fresh>>
    BY <2>2 DEF FreshSnap
  <2>3. CASE UNCHANGED <<pc, snap>> /\ Len(cappLog) > 1 /\ UNCHANGED fresh
    <3>1. cappLog = <<snap>>
      BY <2>3 DEF FreshSnap
    <3>2. Len(<<snap>>) = 1
      OBVIOUS
    <3> QED
      BY <2>3, <3>1, <3>2
  <2> QED
    BY <1>2, <2>1, <2>2, <2>3 DEF WorkEvent
<1>10. Unheld'
  <2> SUFFICES ASSUME capp' = None \/ ~capp'.fin, NEW o \in ManagedObjects, Unowned(child(o)')
               PROVE  FALSE
    BY DEF Unheld
  <2>1. Unowned(child(o))
    BY NoNewUnowned
  <2>2. capp # None /\ capp.fin
    BY <2>1 DEF Unheld
  <2>3. capp' = None /\ pc = "finalize" /\ todo = {}
    BY <1>2, <2>2 DEF CappEvent
  <2> QED
    BY <2>1, <2>3 DEF Progress
<1>11. Progress'
  <2> SUFFICES ASSUME pc' = "finalize", NEW o \in ManagedObjects \ todo', Unowned(child(o)')
               PROVE  FALSE
    BY DEF Progress
  <2>1. Unowned(child(o)) /\ \A v \in Versions(objLog[o]) : Unowned(v)
    BY NoNewUnowned DEF OwnedStays
  <2>2. pc = "finalize" /\ (o \notin todo \/ Cleaned(o))
    BY <1>2 DEF WorkEvent
  <2>3. CASE o \notin todo
    BY <2>1, <2>2, <2>3 DEF Progress
  <2>4. CASE Cleaned(o)
    <3>1. objLog[o] \in Seq(Child \cup {None}) /\ objLog[o] # <<>>
      BY <1>3 DEF TypeOK
    <3>2. childCache(o) \in Versions(objLog[o])
      BY <3>1, LogWrite DEF childCache
    <3> QED
      BY <2>1, <2>4, <3>2 DEF Cleaned, Unowned
  <2> QED
    BY <2>2, <2>3, <2>4
<1> QED
  BY <1>1, <1>5, <1>7, <1>8, <1>9, <1>10, <1>11

\* The invariant behind the theorems that follow.
THEOREM HeldInvariant == Spec => []IInv
<1>1. Init => IInv
  BY InitIInv
<1>2. IInv /\ [Next]_vars => IInv'
  BY NextIInv
<1> QED
  BY <1>1, <1>2, PTL DEF Spec

\* finalizeCapp and removeFinalizer: a child without an owner reference, which
\* the garbage collector would never find, does not outlive its Capp, whatever
\* fails or restarts and however stale the caches are.
THEOREM NoOrphans == Spec => []NoOrphanOutlivesCapp
<1>1. IInv => NoOrphanOutlivesCapp
  BY DEF IInv, Unheld, Unowned, NoOrphanOutlivesCapp
<1> QED
  BY <1>1, HeldInvariant, PTL

\* ensureFinalizer before anything else: no manager creates or adopts a child
\* for a Capp that is gone, even when Reconcile works on an old copy of it and
\* the name has been taken again.
THEOREM ChildrenOfTheLiving == Spec => NoChildForTheDead
<1>1. ASSUME IInv, [Next]_vars, NEW o \in Objects, child(o)' # None, child(o)'.uid # 0
      PROVE  \/ child(o) # None /\ child(o).uid = child(o)'.uid
             \/ Alive(child(o)'.uid)
  <2>1. ChildEvent(o)
    BY <1>1, ChildEvents DEF IInv
  <2>2. pc = "manage" => Alive(snap.uid)
    BY <1>1 DEF IInv, HeldSync
  <2> QED
    BY <1>1, <2>1, <2>2 DEF ChildEvent
<1>2. IInv /\ [Next]_vars =>
         [\A o \in Objects :
             child(o)' # None /\ child(o)'.uid # 0
                => \/ child(o) # None /\ child(o).uid = child(o)'.uid
                   \/ Alive(child(o)'.uid)]_objLog
  BY <1>1
<1> QED
  BY <1>2, HeldInvariant, PTL DEF Spec, NoChildForTheDead

\* createOrUpdate: a KafkaSource keeps its consumer group for as long as it
\* exists, whatever the Capp's specification becomes.
THEOREM GroupsAreStable == Spec => GroupStable
<1>1. ASSUME TypeOK, [Next]_vars, NEW o \in Objects,
             Kind(o) = "KafkaSource", child(o) # None, child(o)' # None
      PROVE  child(o)'.spec.group = child(o).spec.group
  <2>1. ChildEvent(o)
    BY <1>1, ChildEvents
  <2> QED
    BY <1>1, <2>1 DEF ChildEvent
<1>2. TypeOK /\ [Next]_vars =>
         [\A o \in Objects :
             Kind(o) = "KafkaSource" /\ child(o) # None /\ child(o)' # None
                => child(o)'.spec.group = child(o).spec.group]_objLog
  BY <1>1
<1> QED
  BY <1>2, TypeCorrect, PTL DEF Spec, GroupStable

\* ensureFinalizer and SyncStatus write the whole Capp back from a cache: the
\* specification is still only ever changed by a user.
THEOREM UsersOwnTheSpec == Spec => SpecIsTheUsers
<1>1. ASSUME TypeOK, [Next]_vars, capp # None, capp' # None, capp.uid = capp'.uid,
             capp.spec # capp'.spec
      PROVE  moves' # moves
  <2>1. CappEvent
    BY <1>1, CappEvents
  <2> QED
    BY <1>1, <2>1 DEF CappEvent
<1>2. TypeOK /\ [Next]_vars =>
         [capp # None /\ capp' # None /\ capp.uid = capp'.uid /\ capp.spec # capp'.spec
             => moves' # moves]_cappLog
  BY <1>1
<1> QED
  BY <1>2, TypeCorrect, PTL DEF Spec, SpecIsTheUsers
=============================================================================
