------------------------- MODULE ResourceManagers -------------------------
(***************************************************************************)
(* The resource managers of the Capp controller as operators: which child  *)
(* objects a Capp needs, what each of them holds, when an existing one is  *)
(* updated, and which events of a child make the controller look again.    *)
(*                                                                         *)
(* One Capp.  A child is identified by its kind and its name; its content  *)
(* is abstracted to the inputs it is derived from.                         *)
(***************************************************************************)
EXTENDS Naturals

CONSTANTS
    Kinds,      \* the kinds of children an instance follows
    Volumes,    \* names of NFS volumes
    Sources,    \* names of event sources
    Zones,      \* DNS zones CappConfig may name
    Settings,   \* the rest of CappConfig: autoscale, issuer, CNAME, provider
    Data,       \* the rest of a Capp: containers, schedules, servers, topics
    None,       \* no object
    MaxUid      \* bound: lives of the Capp

RouteKinds == {"Certificate", "DomainMapping", "DNSRecord"}
SourceKinds == {"PingSource", "KafkaSource"}
LoggingKinds == {"SyslogNGOutput", "SyslogNGFlow"}

\* The order of resourceManagers in Reconcile.  The TLS Secret has no manager:
\* cert-manager creates it and the DomainMapping manager deletes it.
Rank ==
    [KnativeService |-> 1, NfsPvc |-> 2, SyslogNGOutput |-> 3, SyslogNGFlow |-> 4,
     Certificate |-> 5, DomainMapping |-> 6, Secret |-> 6, DNSRecord |-> 7,
     PingSource |-> 8, KafkaSource |-> 9]

\* A Secret is followed whenever the objects that deal with it are.
ASSUME KindsAssumption ==
    /\ Kinds \subseteq DOMAIN Rank
    /\ Kinds \cap {"Certificate", "DomainMapping"} # {} => "Secret" \in Kinds
ASSUME UidAssumption == MaxUid \in Nat \ {0}

\* The names the children of a kind can have: that of the Capp, of a volume or
\* of an event source, or GenerateResourceName(hostname, zone), which differs
\* from one zone to the next (the hostname is immutable).
Names(k) ==
    CASE k \in RouteKinds \cup {"Secret"} -> Zones
      [] k = "NfsPvc" -> Volumes
      [] k \in SourceKinds -> Sources
      [] OTHER -> {"capp"}

Objects == UNION {{k} \X Names(k) : k \in Kinds}
Kind(o) == o[1]
ManagedObjects == {o \in Objects : Kind(o) # "Secret"}

\* generateTLSSecretName
SecretOf(o) == <<"Secret", o[2]>>

----------------------------------------------------------------------------
(* Specifications and configurations                                       *)

CappSpec ==
    [state : {"enabled", "disabled"}, hostname : BOOLEAN, tls : BOOLEAN,
     logging : BOOLEAN, volumes : SUBSET Volumes, pings : SUBSET Sources,
     kafkas : SUBSET Sources, data : Data]

CappConfig == [zone : Zones, settings : Settings]

\* The content of a child.  edited: someone else has changed the object's spec.
Content ==
    [data : Data \cup {None}, settings : Settings \cup {None},
     volumes : SUBSET Volumes, tls : BOOLEAN, paused : BOOLEAN,
     group : Data \cup {None}, edited : BOOLEAN]

Blank ==
    [data |-> None, settings |-> None, volumes |-> {}, tls |-> FALSE,
     paused |-> FALSE, group |-> None, edited |-> FALSE]

----------------------------------------------------------------------------
(* The managers.  required: IsRequired; names and content: the objects     *)
(* prepareResource builds; prunes: Manage deletes the kind's other objects *)
(* (cleanUpOrphans).                                                       *)

KnativeServiceManager(s, config) ==
    [required |-> s.state = "enabled", names |-> {"capp"}, prunes |-> FALSE,
     content |-> [Blank EXCEPT !.data = s.data, !.settings = config.settings,
                               !.volumes = s.volumes]]

NFSPVCManager(s) ==
    [required |-> s.volumes # {}, names |-> s.volumes, prunes |-> FALSE,
     content |-> [Blank EXCEPT !.data = s.data]]

SyslogNGOutputManager(s) ==
    [required |-> s.logging, names |-> {"capp"}, prunes |-> FALSE,
     content |-> [Blank EXCEPT !.data = s.data]]

SyslogNGFlowManager(s) ==
    [required |-> s.logging, names |-> {"capp"}, prunes |-> FALSE,
     content |-> Blank]

CertificateManager(s, config) ==
    [required |-> s.tls /\ s.hostname, names |-> {config.zone}, prunes |-> FALSE,
     content |-> [Blank EXCEPT !.settings = config.settings]]

\* TLS is on once the Secret of the Certificate is there, too.
DomainMappingManager(s, config) ==
    [required |-> s.hostname, names |-> {config.zone}, prunes |-> FALSE,
     content |-> [Blank EXCEPT !.tls = s.tls]]

DNSRecordManager(s, config) ==
    [required |-> s.hostname, names |-> {config.zone}, prunes |-> FALSE,
     content |-> [Blank EXCEPT !.settings = config.settings]]

PingSourceManager(s) ==
    [required |-> s.pings # {}, names |-> s.pings, prunes |-> TRUE,
     content |-> [Blank EXCEPT !.data = s.data]]

\* A KafkaSource of a disabled Capp has no consumers.
KafkaSourceManager(s) ==
    [required |-> s.kafkas # {}, names |-> s.kafkas, prunes |-> TRUE,
     content |-> [Blank EXCEPT !.data = s.data, !.group = s.data,
                               !.paused = s.state = "disabled"]]

NoManager ==
    [required |-> FALSE, names |-> {}, prunes |-> FALSE, content |-> Blank]

\* ManagerMap
Manager(k, s, config) ==
    CASE k = "KnativeService" -> KnativeServiceManager(s, config)
      [] k = "NfsPvc" -> NFSPVCManager(s)
      [] k = "SyslogNGOutput" -> SyslogNGOutputManager(s)
      [] k = "SyslogNGFlow" -> SyslogNGFlowManager(s)
      [] k = "Certificate" -> CertificateManager(s, config)
      [] k = "DomainMapping" -> DomainMappingManager(s, config)
      [] k = "DNSRecord" -> DNSRecordManager(s, config)
      [] k = "PingSource" -> PingSourceManager(s)
      [] k = "KafkaSource" -> KafkaSourceManager(s)
      [] OTHER -> NoManager

IsRequired(k, s, config) == Manager(k, s, config).required

\* secret: the TLS Secret is in the cache.
prepareResource(k, s, config, secret) ==
    [Manager(k, s, config).content EXCEPT !.tls = @ /\ secret]

Desired(o, s, config) ==
    LET manager == Manager(Kind(o), s, config)
    IN  manager.required /\ o[2] \in manager.names

\* Mutant: event sources the Capp no longer names are kept.
Unwanted_NoOrphans(o, s, config) == ~IsRequired(Kind(o), s, config)

\* Objects a manager deletes: all of a kind that is not required, and the event
\* sources the Capp no longer names.  Other kinds keep what is not desired.
Unwanted(o, s, config) ==
    LET manager == Manager(Kind(o), s, config)
    IN  ~manager.required \/ (manager.prunes /\ o[2] \notin manager.names)

----------------------------------------------------------------------------
(* Objects                                                                 *)

\* What the owner of a kind reports in its status: nothing yet, healthy or not.
\* A Knative Service whose latest revision is not ready yet is pending.
Health == {"none", "pending", "false", "true"}

\* uid: the owner reference, by the uid of the Capp (0: there is none).
Child == [uid : 0..MaxUid, spec : Content, health : Health]

ASSUME NoneAssumption ==
    /\ None \notin Child /\ None \notin CappConfig /\ None \notin Data \cup Settings
    /\ None \notin 0..MaxUid

\* createManagedResource
Created(k, want, uid) == [uid |-> uid, spec |-> want, health |-> "none"]

\* Mutant: the KafkaSource's ConsumerGroup follows the Capp.
Updated_NewGroup(k, cur, want, uid) == [cur EXCEPT !.uid = uid, !.spec = want]

\* The object createOrUpdate sends: its spec replaced, its owner reference set.
\* A KafkaSource keeps the consumer group it was created with.
Updated(k, cur, want, uid) ==
    [cur EXCEPT !.uid = uid,
                !.spec = IF k = "KafkaSource"
                         THEN [want EXCEPT !.group = cur.spec.group] ELSE want]

\* managedResourceNeedsUpdate, dnsRecordNeedsUpdate.  HasOwnerReference compares
\* the owner's name and not its uid.
NeedsUpdate(k, cur, new) ==
    \/ cur.spec # new.spec
    \/ IF k = "DNSRecord" THEN cur.uid = 0 ELSE cur.uid # new.uid

----------------------------------------------------------------------------
(* Events                                                                  *)

\* Status.LatestReadyRevisionName and LatestCreatedRevisionName: equal once
\* the latest revision has become ready, whatever the Ready condition says.
RevisionNames(h) == IF h \in {"false", "true"} THEN "equal" ELSE h

\* Mutant: children are not watched.
Enqueues_Never(k, old, new) == FALSE

\* Mutant: conditions of children are not watched.
Enqueues_GenerationOnly(k, old, new) ==
    old = None \/ new = None \/ old.spec # new.spec

\* The watches and predicates of SetupWithManager: does the event that takes a
\* child from old to new put the Capp into the work queue?
Enqueues(k, old, new) ==
    CASE k \in {"NfsPvc", "Secret"} -> FALSE
      [] old = None \/ new = None -> TRUE
      [] k = "DNSRecord" -> old.health # new.health
      [] k \in LoggingKinds -> old.spec # new.spec
      [] k = "KnativeService" ->
            \/ old.spec # new.spec
            \/ RevisionNames(old.health) # RevisionNames(new.health)
      [] OTHER -> old.spec # new.spec \/ old.health # new.health
=============================================================================
