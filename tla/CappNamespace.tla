--------------------------- MODULE CappNamespace ---------------------------
(***************************************************************************)
(* Several Capps of one namespace: their requests pass the admission       *)
(* webhooks, which look at the CappConfig, at Secrets and at the DNS of    *)
(* that moment, and the Capp controller manages children whose names may   *)
(* meet.  An object belongs to a Capp twice: by its label, which names the *)
(* Capp that created it, and by the owner references of every Capp that    *)
(* has written it.                                                         *)
(*                                                                         *)
(* Reconcile is one step here, with current caches and calls that succeed; *)
(* CappController takes it apart.                                          *)
(***************************************************************************)
EXTENDS CappWebhooks

CONSTANTS
    Capps,       \* names of Capps
    Specs,       \* the specifications users write
    Configs,     \* the CappConfigs administrators write
    Keys,        \* the contents of Secrets: sets of Secrets and their purposes
    MaxMoves     \* bound: steps of users and administrators

ASSUME NamespaceAssumption ==
    /\ Specs \subseteq CappSpec /\ Configs \subseteq CappConfig
    /\ Keys \subseteq SUBSET (Secrets \X {"elastic", "kafka"})
    /\ MaxMoves \in Nat

VARIABLES
    config,      \* the CappConfig
    keys,        \* which Secrets have the keys for which purpose
    dns,         \* the names that resolve
    capps,       \* the Capp of each name, or None
    objs,        \* the children there are, by kind and name
    queued,      \* Capps in the work queue
    moves

vars == <<config, keys, dns, capps, objs, queued, moves>>

\* asked and under are history: what the user wrote, and the CappConfig under
\* which the latest write was admitted.
Capp ==
    [spec : CappSpec, asked : CappSpec, under : CappConfig, fin : BOOLEAN,
     deleting : BOOLEAN]

\* An absent Capp, or the old Capp of a create request, is not a Capp.
ASSUME NoneAssumption == None \notin Capp /\ None \notin CappSpec

Active(c) == capps[c] # None /\ ~capps[c].deleting

Init ==
    /\ config \in Configs /\ keys \in Keys /\ dns = {}
    /\ capps = [c \in Capps |-> None]
    /\ objs = <<>> /\ queued = {} /\ moves = 0

----------------------------------------------------------------------------
(* The children of one Capp                                                *)

\* The names of prepareResource, for each kind whose names could meet, and of the
\* Knative Service.
Wanted(c, s) ==
    {<<"KnativeService", c>>}
    \cup {<<"NfsPvc", v>> : v \in s.volumes}
    \cup {<<k, GenerateResourceName(s.hostname, config.zone)>> :
             k \in IF s.hostname = <<>> THEN {} ELSE {"DomainMapping", "DNSRecord"}}
    \cup {<<IF s.sources[i].kind = "ping" THEN "PingSource" ELSE "KafkaSource",
            SourceName(c, s.sources[i].name)>> : i \in DOMAIN s.sources}

\* What prepareResource puts into the spec: the autoscaling annotations, the
\* record's name in the zone, or whose server, Service or sink it is.
prepareResource(c, s, o) ==
    CASE o[1] = "KnativeService" -> MergeMaps(s.annotations, setAutoScaler(s, config.autoscale))
      [] o[1] = "DNSRecord" -> GenerateRecordName(s.hostname, config.zone)
      [] OTHER -> c

\* The objects that carry the label of c.
listManagedResources(c) == {o \in DOMAIN objs : objs[o].label = c}

\* Objects of the Capp that Manage deletes: CleanUp of a kind that is
\* not required, and cleanUpOrphans of event sources.
Dropped(c, s) ==
    {o \in listManagedResources(c) \ Wanted(c, s) :
        \/ o[1] \in {"PingSource", "KafkaSource"}
        \/ o[1] = "NfsPvc" /\ s.volumes = {}
        \/ o[1] \in {"DomainMapping", "DNSRecord"} /\ s.hostname = <<>>}

\* The DNSRecord manager panics and the managers after it do not run.
Panics(s) ==
    s.hostname # <<>> /\ GenerateRecordName(s.hostname, config.zone) = None

Reached(s, o) ==
    Panics(s) => o[1] \notin {"DNSRecord", "PingSource", "KafkaSource"}

\* Mutant: SetOwnerReference is left out.
createOrUpdate_Unowned(c, s, o) ==
    IF o \in DOMAIN objs
    THEN [objs[o] EXCEPT !.spec = prepareResource(c, s, o)]
    ELSE [label |-> c, owners |-> {}, spec |-> prepareResource(c, s, o)]

\* An object that is there already gets a further owner and keeps its label.
createOrUpdate(c, s, o) ==
    IF o \in DOMAIN objs
    THEN [objs[o] EXCEPT !.owners = @ \cup {c}, !.spec = prepareResource(c, s, o)]
    ELSE [label |-> c, owners |-> {c}, spec |-> prepareResource(c, s, o)]

\* SyncApplication
Manage(c, s) ==
    LET wanted == {o \in Wanted(c, s) : Reached(s, o)}
        dropped == {o \in Dropped(c, s) : Reached(s, o)}
    IN  [o \in (DOMAIN objs \ dropped) \cup wanted |->
            IF o \in wanted THEN createOrUpdate(c, s, o) ELSE objs[o]]

\* Mutant: what the Capp owns is deleted with it.
deleteOwnedResources_All(c) ==
    [o \in DOMAIN objs \ listManagedResources(c) |-> objs[o]]

\* finalizeCapp: the objects of the Capp that lack its owner reference go.
deleteOwnedResources(c) ==
    [o \in DOMAIN objs \ {p \in listManagedResources(c) : c \notin objs[p].owners} |-> objs[o]]

\* Mutant: every owner of an object hears of its events.
Enqueued_Owners(new) ==
    UNION {new[o].owners : o \in {p \in DOMAIN objs \cap DOMAIN new :
             p[1] \notin {"NfsPvc", "DNSRecord"} /\ objs[p].spec # new[p].spec}}

\* findCappFromEvent, findCappFromLabels: the events of going from objs to new.
\* NfsPvcs are not watched, and a CNAMERecord's spec is not looked at.
Enqueued(new) ==
    {objs[o].label : o \in {p \in DOMAIN objs \ DOMAIN new : p[1] # "NfsPvc"}}
    \cup {new[o].label : o \in {p \in DOMAIN new \ DOMAIN objs : p[1] # "NfsPvc"}}
    \cup {new[o].label : o \in {p \in DOMAIN objs \cap DOMAIN new :
             p[1] \notin {"NfsPvc", "DNSRecord"} /\ objs[p].spec # new[p].spec}}

----------------------------------------------------------------------------
(* Requests                                                                *)

\* Both webhooks let c become s.  A denial changes nothing.
Admitted(c, s) ==
    LET old == IF capps[c] = None THEN None ELSE capps[c].spec
    IN  Validates(old, mutateResources(s, config.defaults), config, keys, dns)

\* The Capp as it is stored then.
Stored(s, asked, fin) ==
    [spec |-> mutateResources(s, config.defaults), asked |-> asked, under |-> config,
     fin |-> fin, deleting |-> FALSE]

Move == moves < MaxMoves /\ moves' = moves + 1

\* The names a DNS server answers for the CNAMERecords there are.
Published ==
    {objs[o].spec \o Dot \o Bare(config.zone) :
        o \in {p \in DOMAIN objs : p[1] = "DNSRecord"}}

\* A request that takes c to s is made, and both webhooks admit it.
Request(c, s) == Move /\ Admitted(c, s)

\* A name is used again when the garbage collector is done with its earlier life.
CreateCapp(c, s) ==
    /\ capps[c] = None /\ \A o \in DOMAIN objs : c \notin objs[o].owners
    /\ Request(c, s)
    /\ capps' = [capps EXCEPT ![c] = Stored(s, s, FALSE)]
    /\ queued' = queued \cup {c}
    /\ UNCHANGED <<config, keys, dns, objs>>

UpdateCapp(c, s) ==
    /\ Active(c) /\ capps[c].asked # s
    /\ Request(c, s)
    /\ capps' = [capps EXCEPT ![c] = Stored(s, s, @.fin)]
    /\ queued' = queued \cup {c}
    /\ UNCHANGED <<config, keys, dns, objs>>

\* With a finalizer on it the Capp stays until that is removed.
DeleteCapp(c) ==
    /\ Move
    /\ Active(c)
    /\ capps' = [capps EXCEPT ![c] = IF @.fin THEN [@ EXCEPT !.deleting = TRUE] ELSE None]
    /\ queued' = queued \cup {c}
    /\ UNCHANGED <<config, keys, dns, objs>>

\* findCappsForCappConfig
SetConfig(new) ==
    /\ Move
    /\ config' = new /\ new # config
    /\ queued' = queued \cup {c \in Capps : capps[c] # None}
    /\ UNCHANGED <<keys, dns, capps, objs>>

SetKeys(new) ==
    /\ Move
    /\ keys' = new /\ new # keys
    /\ UNCHANGED <<config, dns, capps, objs, queued>>

----------------------------------------------------------------------------
(* Reconcile                                                               *)

\* Reconcile brings the children to new; again: it panics and is tried again.
Write(c, new, again) ==
    /\ objs' = new
    /\ queued' = (queued \ (IF again THEN {} ELSE {c})) \cup Enqueued(objs')

\* ensureFinalizer: the operator's own update passes the webhooks like any other.
ensureFinalizer(c) ==
    /\ Admitted(c, capps[c].spec)
    /\ capps' = [capps EXCEPT ![c] = Stored(@.spec, @.asked, TRUE)]

Reconcile(c) ==
    /\ c \in queued
    /\ \/ /\ capps[c] = None
          /\ queued' = queued \ {c} /\ UNCHANGED <<capps, objs>>
       \/ /\ capps[c] # None /\ capps[c].deleting
          /\ capps' = [capps EXCEPT ![c] = None]
          /\ Write(c, deleteOwnedResources(c), FALSE)
       \/ /\ Active(c)
          /\ IF capps[c].fin THEN UNCHANGED capps ELSE ensureFinalizer(c)
          /\ LET s == capps'[c].spec
             IN  Write(c, Manage(c, s), Panics(s))
    /\ UNCHANGED <<config, keys, dns, moves>>

----------------------------------------------------------------------------
(* The garbage collector and the DNS                                       *)

Gone(o) == {c \in objs[o].owners : capps[c] = None}

\* An object whose owners are all gone is deleted; otherwise the references to
\* those that are gone are taken off.
Collect(o) ==
    /\ Gone(o) # {}
    /\ objs' = IF Gone(o) = objs[o].owners
               THEN [p \in DOMAIN objs \ {o} |-> objs[p]]
               ELSE [objs EXCEPT ![o].owners = @ \ Gone(o)]
    /\ queued' = queued \cup Enqueued(objs')
    /\ UNCHANGED <<config, keys, dns, capps, moves>>

Resolve ==
    /\ dns # Published /\ dns' = Published
    /\ UNCHANGED <<config, keys, capps, objs, queued, moves>>

Next ==
    \/ \E c \in Capps, s \in Specs : CreateCapp(c, s) \/ UpdateCapp(c, s)
    \/ \E c \in Capps : DeleteCapp(c) \/ Reconcile(c)
    \/ \E new \in Configs : SetConfig(new)
    \/ \E new \in Keys : SetKeys(new)
    \/ \E o \in DOMAIN objs : Collect(o)
    \/ Resolve

Spec == Init /\ [][Next]_vars

\* The controller, the garbage collector and the DNS keep going.
Fairness ==
    /\ \A c \in Capps : WF_vars(Reconcile(c))
    /\ WF_vars(\E o \in DOMAIN objs : Collect(o)) /\ WF_vars(Resolve)

FairSpec == Spec /\ Fairness

----------------------------------------------------------------------------
(* Properties                                                              *)

\* Type invariant of a namespace: a Capp that is being deleted has the finalizer,
\* and a child always has an owner.
TypeOK ==
    /\ config \in Configs /\ keys \in Keys
    /\ capps \in [Capps -> Capp \cup {None}]
    /\ \A c \in Capps : capps[c] # None =>
          /\ capps[c].under \in Configs /\ capps[c].asked \in Specs
          /\ capps[c].deleting => capps[c].fin
    /\ \A o \in DOMAIN objs :
          /\ DOMAIN objs[o] = {"label", "owners", "spec"}
          /\ objs[o].label \in Capps /\ objs[o].owners \in (SUBSET Capps) \ {{}}
    /\ queued \subseteq Capps /\ moves \in 0..MaxMoves

\* c and d answer to the same name.
SharedHostname(c, d) ==
    /\ c # d /\ capps[c] # None /\ capps[d] # None
    /\ capps[c].spec.hostname # <<>> /\ capps[d].spec.hostname # <<>>
    /\ GenerateResourceName(capps[c].spec.hostname, config.zone)
          = GenerateResourceName(capps[d].spec.hostname, config.zone)

\* c has a hostname, the record of it is its own, and the name resolves.
Holds(c) ==
    LET name == GenerateResourceName(capps[c].spec.hostname, config.zone)
        record == <<"DNSRecord", name>>
    IN  /\ Active(c) /\ capps[c].spec.hostname # <<>> /\ name \in dns
        /\ record \in DOMAIN objs /\ objs[record].label = c /\ c \in objs[record].owners

\* isDomainNameTaken: "hostname must be unique and not already taken".  The check
\* is made against a DNS that lags, and Capps that ask for a hostname before it
\* resolves may all get it; but once it resolves for a Capp that has the record,
\* no further Capp gets it, and neither the deletion nor the clean-up of those
\* that share it takes the name from the Capp before the Capp is deleted itself.
HeldHostnamesStay ==
    [][\A c \in Capps : Holds(c) =>
          /\ \A d \in Capps : SharedHostname(c, d)' => SharedHostname(c, d)
          /\ Active(c)' => Holds(c)']_vars

\* GenerateRecordName and GenerateResourceName agree on every hostname the
\* validator has let pass: the record in the zone is the name that the
\* DomainMapping of the same Capp answers to.
RecordNamesTheHost ==
    \A o \in DOMAIN objs :
        o[1] = "DNSRecord" => objs[o].spec \o Dot \o Bare(config.zone) = o[2]

\* validateScaleSpec and setAutoScaler, which run at different times and may see
\* different CappConfigs: as long as the CappConfig is the one under which the
\* Capp was admitted, its Knative Service is never asked to start with, or to
\* keep, more replicas than its maximum, nor for more than the global limits.
\* Capps that bring autoscaling annotations of their own are left out: nothing
\* compares those with anything.
ScaleFits ==
    \A c \in Capps :
        (/\ Active(c) /\ capps[c].fin /\ c \notin queued
         /\ capps[c].under = config /\ capps[c].spec.annotations = <<>>) =>
            LET scale == objs[<<"KnativeService", c>>].spec
                Set(k) == k \in DOMAIN scale
            IN  /\ Set("max") =>
                      /\ scale.max <= config.autoscale.maxLimit
                      /\ Set("min") => scale.min <= scale.max
                      /\ Set("activation") => scale.activation <= scale.max
                /\ Set("min") => scale.min <= config.autoscale.minLimit

\* "If other resources are specified then they override the default values":
\* what a user asks for stays, through changes of the defaults and through the
\* operator's own update of the Capp, which is mutated as well; and what the
\* defaults once filled in stays until the user writes again.
UsersQuantitiesStay ==
    [][\A c \in Capps, q \in Quantities :
          capps'[c] # None =>
             /\ capps'[c].asked.resources[q] # None =>
                   capps'[c].spec.resources[q] = capps'[c].asked.resources[q]
             /\ capps[c] # None /\ capps[c].asked = capps'[c].asked
                   /\ capps[c].spec.resources[q] # None =>
                   capps'[c].spec.resources[q] = capps[c].spec.resources[q]]_capps

\* deleteOwnedResources and the garbage collector: deleting a Capp takes nothing
\* from another one.  An object some Capp owns goes only when the Capp that it is
\* labelled with has stopped naming it, or is deleted without having ever written
\* it: the label is then that of an earlier Capp of the same name.
OthersKeepTheirs ==
    [][\A o \in DOMAIN objs \ DOMAIN objs' :
          \A c \in objs[o].owners :
             Active(c) =>
                LET creator == objs[o].label
                IN  IF Active(creator)
                    THEN o \in Dropped(creator, capps[creator].spec)
                    ELSE capps[creator] # None /\ creator \notin objs[o].owners]_objs

\* The CappConfig or the Secrets no longer admit the operator's own update.
Denied(c) == Active(c) /\ ~capps[c].fin /\ ~Admitted(c, capps[c].spec)

\* Two Capps that write the same object do not make each other write it again for
\* ever, and every Capp gets its finalizer and with it its children: in the end
\* nothing is left to do, except for Capps whose finalizer the webhooks deny.
SettlesUnlessDenied ==
    <>[](\A c \in Capps :
            c \in queued \/ (capps[c] # None /\ (capps[c].deleting \/ ~capps[c].fin))
               => Denied(c))
=============================================================================
