------------------------ MODULE CappNamespaceProofs ------------------------
(***************************************************************************)
(* Proofs about the Capps of a namespace, for any number of Capps, any     *)
(* specifications, CappConfigs and Secrets, and any number of moves.       *)
(***************************************************************************)
EXTENDS CappNamespace, TLAPS

----------------------------------------------------------------------------
(* Operators                                                               *)

\* The mutator fills in resources that are not given and changes nothing else.
LEMMA MutateResources ==
    ASSUME NEW s \in CappSpec, NEW defaults \in [Quantities -> Unset]
    PROVE  LET m == mutateResources(s, defaults)
           IN  /\ m \in CappSpec
               /\ m.hostname = s.hostname /\ m.volumes = s.volumes
               /\ m.sources = s.sources /\ m.annotations = s.annotations
               /\ m.scale = s.scale
               /\ \A q \in Quantities :
                     s.resources[q] # None => m.resources[q] = s.resources[q]
<1> DEFINE filled == [q \in Quantities |-> setResourceQuantity(s.resources[q], defaults[q])]
<1>1. filled \in [Quantities -> Unset]
  BY DEF CappSpec, setResourceQuantity
<1>2. mutateResources(s, defaults) = [s EXCEPT !.resources = filled]
  BY DEF mutateResources, CappSpec
<1>3. \A q \in Quantities : s.resources[q] # None => filled[q] = s.resources[q]
  BY DEF setResourceQuantity
<1> HIDE DEF filled
<1> QED
  BY <1>1, <1>2, <1>3 DEF CappSpec

\* n is a Capp whose user asked for a, taken to s by the latest request.
StoredAs(n, s, a, f) ==
    /\ n \in Capp /\ n # None
    /\ n.spec = mutateResources(s, config.defaults)
    /\ n.spec.hostname = s.hostname /\ n.spec.volumes = s.volumes
    /\ n.spec.sources = s.sources /\ n.spec.scale = s.scale
    /\ \A q \in Quantities : s.resources[q] # None => n.spec.resources[q] = s.resources[q]
    /\ n.asked = a /\ n.under = config /\ n.fin = f /\ ~n.deleting

LEMMA StoredCapp ==
    ASSUME config \in CappConfig, NEW s \in CappSpec, NEW a \in CappSpec, NEW f \in BOOLEAN
    PROVE  StoredAs(Stored(s, a, f), s, a, f)
<1> DEFINE m == mutateResources(s, config.defaults)
           n == Stored(s, a, f)
<1>1. config.defaults \in [Quantities -> Unset]
  BY DEF CappConfig
<1>2. /\ m \in CappSpec
      /\ m.hostname = s.hostname /\ m.volumes = s.volumes
      /\ m.sources = s.sources /\ m.scale = s.scale
      /\ \A q \in Quantities : s.resources[q] # None => m.resources[q] = s.resources[q]
  BY <1>1, MutateResources
<1>3. n = [spec |-> m, asked |-> a, under |-> config, fin |-> f, deleting |-> FALSE]
  BY DEF Stored
<1> HIDE DEF m, n
<1>4. n \in Capp
  BY <1>2, <1>3 DEF Capp
<1>5. n # None
  BY <1>4, NoneAssumption
<1> QED
  BY <1>2, <1>3, <1>4, <1>5 DEF m, n, StoredAs

\* The objects that SyncApplication writes.
Written(c, s) == {o \in Wanted(c, s) : Reached(s, o)}

\* SyncApplication brings objs to new: every object it writes is one the Capp
\* names, every object it removes is one the Capp drops, and the others stay.
Managed(c, s, new) ==
    /\ DOMAIN new = (DOMAIN objs \ {o \in Dropped(c, s) : Reached(s, o)}) \cup Written(c, s)
    /\ \A o \in DOMAIN new :
          o \notin Written(c, s) => o \in DOMAIN objs /\ new[o] = objs[o]
    /\ \A o \in Written(c, s) :
          /\ DOMAIN new[o] = {"label", "owners", "spec"}
          /\ new[o].spec = prepareResource(c, s, o)
          /\ o \in DOMAIN objs =>
                new[o].label = objs[o].label /\ new[o].owners = objs[o].owners \cup {c}
          /\ o \notin DOMAIN objs => new[o].label = c /\ new[o].owners = {c}

LEMMA ManagedObjects ==
    ASSUME NEW c, NEW s,
           \A o \in DOMAIN objs : DOMAIN objs[o] = {"label", "owners", "spec"}
    PROVE  Managed(c, s, Manage(c, s))
<1> DEFINE dropped == {o \in Dropped(c, s) : Reached(s, o)}
           new == [o \in (DOMAIN objs \ dropped) \cup Written(c, s) |->
                      IF o \in Written(c, s) THEN createOrUpdate(c, s, o) ELSE objs[o]]
<1>1. Manage(c, s) = new
  BY DEF Manage, Written
<1>2. ASSUME NEW o \in Written(c, s), NEW n, n = createOrUpdate(c, s, o)
      PROVE  /\ DOMAIN n = {"label", "owners", "spec"}
             /\ n.spec = prepareResource(c, s, o)
             /\ o \in DOMAIN objs =>
                   n.label = objs[o].label /\ n.owners = objs[o].owners \cup {c}
             /\ o \notin DOMAIN objs => n.label = c /\ n.owners = {c}
  <2>1. CASE o \in DOMAIN objs
    <3>1. n = [objs[o] EXCEPT !.owners = @ \cup {c}, !.spec = prepareResource(c, s, o)]
      BY <1>2, <2>1 DEF createOrUpdate
    <3>2. DOMAIN objs[o] = {"label", "owners", "spec"}
      BY <2>1
    <3> QED
      BY <2>1, <3>1, <3>2
  <2>2. CASE o \notin DOMAIN objs
    BY <1>2, <2>2 DEF createOrUpdate
  <2> QED
    BY <2>1, <2>2
<1>3. \A o \in Written(c, s) : new[o] = createOrUpdate(c, s, o)
  OBVIOUS
<1>4. \A o \in DOMAIN new :
         o \notin Written(c, s) => o \in DOMAIN objs /\ new[o] = objs[o]
  OBVIOUS
<1>5. DOMAIN new = (DOMAIN objs \ dropped) \cup Written(c, s)
  OBVIOUS
<1> HIDE DEF new
<1> QED
  BY <1>1, <1>2, <1>3, <1>4, <1>5 DEF Managed

\* The kinds of what a Capp names.
LEMMA WantedKinds ==
    ASSUME NEW c, NEW s
    PROVE  /\ <<"KnativeService", c>> \in Written(c, s)
           /\ \A d : <<"KnativeService", d>> \in Wanted(c, s) => d = c
           /\ \A o \in Wanted(c, s) : o[1] = "DNSRecord" =>
                 /\ s.hostname # <<>>
                 /\ o = <<"DNSRecord", GenerateResourceName(s.hostname, config.zone)>>
           /\ s.hostname # <<>> =>
                 <<"DNSRecord", GenerateResourceName(s.hostname, config.zone)>> \in Wanted(c, s)
<1>1. <<"KnativeService", c>> \in Written(c, s)
  BY DEF Written, Wanted, Reached
<1>2. \A d : <<"KnativeService", d>> \in Wanted(c, s) => d = c
  BY DEF Wanted
<1>3. \A o \in Wanted(c, s) : o[1] = "DNSRecord" =>
         /\ s.hostname # <<>>
         /\ o = <<"DNSRecord", GenerateResourceName(s.hostname, config.zone)>>
  BY DEF Wanted
<1>4. s.hostname # <<>> =>
         <<"DNSRecord", GenerateResourceName(s.hostname, config.zone)>> \in Wanted(c, s)
  BY DEF Wanted
<1> QED
  BY <1>1, <1>2, <1>3, <1>4

\* What a Capp drops has its label and is no Knative Service, and no CNAMERecord
\* unless the Capp has no hostname.
LEMMA DroppedKinds ==
    ASSUME NEW c, NEW s, NEW o \in Dropped(c, s)
    PROVE  /\ o \in DOMAIN objs /\ objs[o].label = c /\ o[1] # "KnativeService"
           /\ o[1] = "DNSRecord" => s.hostname = <<>>
BY DEF Dropped, listManagedResources

----------------------------------------------------------------------------
(* Steps                                                                   *)

\* What TypeOK says of a Capp that is there.
LEMMA CappTypes ==
    ASSUME TypeOK, NEW c \in Capps, capps[c] # None
    PROVE  /\ capps[c] \in Capp /\ capps[c].spec \in CappSpec /\ capps[c].asked \in CappSpec
           /\ capps[c].asked \in Specs /\ capps[c].under \in Configs
           /\ capps[c].fin \in BOOLEAN /\ capps[c].deleting \in BOOLEAN
           /\ capps[c].deleting => capps[c].fin
<1>1. capps[c] \in Capp
  BY DEF TypeOK
<1> QED
  BY <1>1 DEF TypeOK, Capp

\* The ways in which the Capp of a name changes: a request of a user is stored,
\* the operator stores the finalizer, it is marked as being deleted, or it goes.
LEMMA CappSteps ==
    ASSUME TypeOK, [Next]_vars, NEW c \in Capps, capps'[c] # capps[c]
    PROVE  \/ capps'[c] = None
           \/ /\ capps[c] # None /\ capps[c].fin
              /\ capps'[c] = [capps[c] EXCEPT !.deleting = TRUE]
           \/ \E s \in Specs : CreateCapp(c, s) /\ capps'[c] = Stored(s, s, FALSE)
           \/ \E s \in Specs : UpdateCapp(c, s) /\ capps'[c] = Stored(s, s, capps[c].fin)
           \/ /\ capps[c] # None /\ Admitted(c, capps[c].spec)
              /\ capps'[c] = Stored(capps[c].spec, capps[c].asked, TRUE)
              /\ UNCHANGED config
<1>0. DOMAIN capps = Capps
  BY DEF TypeOK
<1>1. ASSUME NEW d \in Capps, NEW s \in Specs, CreateCapp(d, s)
      PROVE  d = c /\ capps'[c] = Stored(s, s, FALSE)
  BY <1>0, <1>1 DEF CreateCapp
<1>2. ASSUME NEW d \in Capps, NEW s \in Specs, UpdateCapp(d, s)
      PROVE  d = c /\ capps'[c] = Stored(s, s, capps[c].fin)
  BY <1>0, <1>2 DEF UpdateCapp
<1>3. ASSUME NEW d \in Capps, DeleteCapp(d)
      PROVE  /\ capps[c] # None
             /\ \/ capps'[c] = None
                \/ capps[c].fin /\ capps'[c] = [capps[c] EXCEPT !.deleting = TRUE]
  BY <1>0, <1>3 DEF DeleteCapp, Active
<1>4. ASSUME NEW d \in Capps, Reconcile(d)
      PROVE  \/ capps'[c] = None
             \/ /\ capps[c] # None /\ Admitted(c, capps[c].spec) /\ UNCHANGED config
                /\ capps'[c] = Stored(capps[c].spec, capps[c].asked, TRUE)
  <2>1. UNCHANGED config /\ ~UNCHANGED capps
    BY <1>4 DEF Reconcile
  <2>2. CASE capps' = [capps EXCEPT ![d] = None]
    BY <1>0, <2>2
  <2>3. CASE Active(d) /\ ensureFinalizer(d)
    BY <1>0, <2>1, <2>3 DEF Active, ensureFinalizer
  <2> QED
    BY <1>4, <2>1, <2>2, <2>3 DEF Reconcile
<1>5. ASSUME \/ \E new \in Configs : SetConfig(new)
             \/ \E new \in Keys : SetKeys(new)
             \/ \E o \in DOMAIN objs : Collect(o)
             \/ Resolve \/ UNCHANGED vars
      PROVE  FALSE
  BY <1>5 DEF SetConfig, SetKeys, Collect, Resolve, vars
<1> QED
  BY <1>1, <1>2, <1>3, <1>4, <1>5 DEF Next

\* The three ways in which Reconcile ends, and the step of the garbage collector.
Ignores(c) ==
    /\ capps[c] = None /\ queued \ {c} \subseteq queued'
    /\ UNCHANGED <<config, dns, capps, objs>>

Finalizes(c) ==
    /\ c \in queued /\ capps[c] # None /\ capps[c].deleting
    /\ capps' = [capps EXCEPT ![c] = None]
    /\ objs' = deleteOwnedResources(c)
    /\ queued \ {c} \subseteq queued'
    /\ UNCHANGED <<config, dns>>

Manages(c) ==
    /\ c \in queued /\ Active(c)
    /\ capps'[c] # None /\ capps'[c] \in Capp
    /\ capps'[c].spec.hostname = capps[c].spec.hostname
    /\ capps'[c].spec.volumes = capps[c].spec.volumes
    /\ capps'[c].spec.sources = capps[c].spec.sources
    /\ ~capps'[c].deleting /\ capps'[c].fin
    /\ \A d \in Capps \ {c} : capps'[d] = capps[d]
    /\ Managed(c, capps'[c].spec, objs')
    /\ queued \ {c} \subseteq queued'
    /\ Panics(capps'[c].spec) => c \in queued'
    /\ UNCHANGED <<config, dns>>

Collects(o) ==
    /\ o \in DOMAIN objs /\ Gone(o) # {}
    /\ IF Gone(o) = objs[o].owners
       THEN objs' = [p \in DOMAIN objs \ {o} |-> objs[p]]
       ELSE objs' = [objs EXCEPT ![o].owners = @ \ Gone(o)]
    /\ queued \subseteq queued'
    /\ UNCHANGED <<config, dns, capps>>

\* The other steps leave the objects as they are, and queue the Capps they
\* concern.
Quiet ==
    /\ UNCHANGED objs /\ queued \subseteq queued'
    /\ \A c \in Capps :
          capps'[c] # capps[c] \/ (config' # config /\ capps[c] # None) => c \in queued'

LEMMA ReconcileSteps ==
    ASSUME TypeOK, NEW c \in Capps, Reconcile(c)
    PROVE  Ignores(c) \/ Finalizes(c) \/ Manages(c)
<1>0. DOMAIN capps = Capps
  BY DEF TypeOK
<1>1. UNCHANGED <<config, dns>> /\ c \in queued
  BY DEF Reconcile
<1>2. CASE capps[c] = None /\ queued' = queued \ {c} /\ UNCHANGED <<capps, objs>>
  BY <1>1, <1>2 DEF Ignores
<1>3. CASE /\ capps[c] # None /\ capps[c].deleting
           /\ capps' = [capps EXCEPT ![c] = None]
           /\ Write(c, deleteOwnedResources(c), FALSE)
  BY <1>1, <1>3 DEF Write, Finalizes
<1>4. CASE /\ Active(c)
           /\ IF capps[c].fin THEN UNCHANGED capps ELSE ensureFinalizer(c)
           /\ Write(c, Manage(c, capps'[c].spec), Panics(capps'[c].spec))
  <2>1. /\ objs' = Manage(c, capps'[c].spec) /\ queued \ {c} \subseteq queued'
        /\ Panics(capps'[c].spec) => c \in queued'
    BY <1>1, <1>4 DEF Write
  <2>2. Managed(c, capps'[c].spec, objs')
    BY <2>1, ManagedObjects DEF TypeOK
  <2>3. /\ capps[c] # None /\ capps[c] \in Capp /\ capps[c].spec \in CappSpec
        /\ capps[c].asked \in CappSpec /\ ~capps[c].deleting
    BY <1>4, CappTypes DEF Active
  <2>4. CASE capps[c].fin
    BY <1>1, <1>4, <2>1, <2>2, <2>3, <2>4 DEF Manages
  <2>5. CASE ~capps[c].fin
    <3>1. /\ capps'[c] = Stored(capps[c].spec, capps[c].asked, TRUE)
          /\ \A d \in Capps \ {c} : capps'[d] = capps[d]
      BY <1>0, <1>4, <2>5 DEF ensureFinalizer
    <3>2. config \in CappConfig
      BY NamespaceAssumption DEF TypeOK
    <3>3. StoredAs(capps'[c], capps[c].spec, capps[c].asked, TRUE)
      BY <2>3, <3>1, <3>2, StoredCapp
    <3> QED
      BY <1>1, <1>4, <2>1, <2>2, <3>1, <3>3 DEF StoredAs, Manages
  <2> QED
    BY <2>4, <2>5
<1> QED
  BY <1>2, <1>3, <1>4 DEF Reconcile

\* Every step is one of these.
LEMMA Steps ==
    ASSUME TypeOK, [Next]_vars
    PROVE  \/ \E c \in Capps : Ignores(c) \/ Finalizes(c) \/ Manages(c)
           \/ \E o \in DOMAIN objs : Collects(o)
           \/ Quiet
<1>0. DOMAIN capps = Capps
  BY DEF TypeOK
<1>1. ASSUME NEW o \in DOMAIN objs, Collect(o) PROVE Collects(o)
  BY <1>1 DEF Collect, Collects
<1>2. ASSUME NEW c \in Capps, NEW s \in Specs, CreateCapp(c, s) \/ UpdateCapp(c, s)
      PROVE  Quiet
  BY <1>0, <1>2 DEF CreateCapp, UpdateCapp, Quiet
<1>3. ASSUME NEW c \in Capps, DeleteCapp(c) PROVE Quiet
  BY <1>0, <1>3 DEF DeleteCapp, Quiet
<1>4. ASSUME NEW new \in Configs, SetConfig(new) PROVE Quiet
  BY <1>4 DEF SetConfig, Quiet
<1>5. ASSUME Resolve \/ UNCHANGED vars \/ \E new \in Keys : SetKeys(new) PROVE Quiet
  BY <1>5 DEF SetKeys, Resolve, vars, Quiet
<1> QED
  BY <1>1, <1>2, <1>3, <1>4, <1>5, ReconcileSteps DEF Next

----------------------------------------------------------------------------
(* Type correctness                                                        *)

\* The objects of TypeOK.
ObjectsOK(children) ==
    \A o \in DOMAIN children :
       /\ DOMAIN children[o] = {"label", "owners", "spec"}
       /\ children[o].label \in Capps /\ children[o].owners \in (SUBSET Capps) \ {{}}

\* The garbage collector never leaves an object without an owner.
LEMMA ObjectTypes ==
    ASSUME TypeOK, [Next]_vars PROVE ObjectsOK(objs')
<1>0. ObjectsOK(objs)
  BY DEF TypeOK, ObjectsOK
<1>1. CASE objs' = objs
  BY <1>0, <1>1 DEF ObjectsOK
<1>2. ASSUME NEW c \in Capps, Finalizes(c) PROVE ObjectsOK(objs')
  BY <1>0, <1>2 DEF ObjectsOK, Finalizes, deleteOwnedResources
<1>3. ASSUME NEW c \in Capps, NEW s, Managed(c, s, objs') PROVE ObjectsOK(objs')
  <2>1. ASSUME NEW o \in DOMAIN objs'
        PROVE  /\ DOMAIN objs'[o] = {"label", "owners", "spec"}
               /\ objs'[o].label \in Capps
               /\ objs'[o].owners \in (SUBSET Capps) \ {{}}
    <3>1. CASE o \in DOMAIN objs
      BY <1>0, <1>3, <3>1 DEF ObjectsOK, Managed
    <3>2. CASE o \notin DOMAIN objs
      BY <1>3, <3>2 DEF Managed
    <3> QED
      BY <3>1, <3>2
  <2> QED
    BY <2>1 DEF ObjectsOK
<1>4. ASSUME NEW o \in DOMAIN objs, Collects(o) PROVE ObjectsOK(objs')
  <2>1. CASE Gone(o) = objs[o].owners
    <3>1. objs' = [p \in DOMAIN objs \ {o} |-> objs[p]]
      BY <1>4, <2>1 DEF Collects
    <3> QED
      BY <1>0, <3>1 DEF ObjectsOK
  <2>2. CASE Gone(o) # objs[o].owners
    <3>1. objs' = [objs EXCEPT ![o].owners = @ \ Gone(o)]
      BY <1>4, <2>2 DEF Collects
    <3>2. objs[o].owners \ Gone(o) \in (SUBSET Capps) \ {{}}
      BY <1>0, <2>2 DEF ObjectsOK, Gone
    <3>3. DOMAIN objs' = DOMAIN objs /\ \A p \in DOMAIN objs \ {o} : objs'[p] = objs[p]
      BY <3>1
    <3>4. objs'[o] = [objs[o] EXCEPT !.owners = @ \ Gone(o)]
      BY <3>1
    <3>5. /\ DOMAIN objs'[o] = {"label", "owners", "spec"}
          /\ objs'[o].label = objs[o].label /\ objs'[o].owners = objs[o].owners \ Gone(o)
      BY <1>0, <3>4 DEF ObjectsOK
    <3> QED
      BY <1>0, <3>2, <3>3, <3>5 DEF ObjectsOK
  <2> QED
    BY <2>1, <2>2
<1> QED
  BY <1>1, <1>2, <1>3, <1>4, Steps DEF Ignores, Manages, Quiet

\* An event concerns the label of an object.
LEMMA EnqueuedTypes ==
    ASSUME ObjectsOK(objs), ObjectsOK(objs') PROVE Enqueued(objs') \subseteq Capps
BY DEF ObjectsOK, Enqueued

LEMMA InitTypeOK == Init => TypeOK
BY NamespaceAssumption DEF Init, TypeOK

LEMMA NextTypeOK == TypeOK /\ [Next]_vars => TypeOK'
<1> SUFFICES ASSUME TypeOK, [Next]_vars PROVE TypeOK'
  OBVIOUS
<1>1. config' \in Configs /\ keys' \in Keys /\ moves' \in 0..MaxMoves
  <2>0. config \in Configs /\ keys \in Keys /\ moves \in 0..MaxMoves /\ MaxMoves \in Nat
    BY NamespaceAssumption DEF TypeOK
  <2>1. Move => moves' \in 0..MaxMoves
    BY <2>0 DEF Move
  <2>2. ASSUME NEW c \in Capps, NEW s \in Specs, CreateCapp(c, s) \/ UpdateCapp(c, s)
        PROVE  Move /\ UNCHANGED <<config, keys>>
    BY <2>2 DEF CreateCapp, UpdateCapp, Request
  <2>3. ASSUME NEW c \in Capps, DeleteCapp(c) PROVE Move /\ UNCHANGED <<config, keys>>
    BY <2>3 DEF DeleteCapp
  <2>4. ASSUME NEW c \in Capps, Reconcile(c) PROVE UNCHANGED <<config, keys, moves>>
    BY <2>4 DEF Reconcile
  <2>5. ASSUME NEW new \in Configs, SetConfig(new) PROVE Move /\ config' = new /\ UNCHANGED keys
    BY <2>5 DEF SetConfig
  <2>6. ASSUME NEW new \in Keys, SetKeys(new) PROVE Move /\ keys' = new /\ UNCHANGED config
    BY <2>6 DEF SetKeys
  <2>7. ASSUME Resolve \/ UNCHANGED vars \/ \E o \in DOMAIN objs : Collect(o)
        PROVE  UNCHANGED <<config, keys, moves>>
    BY <2>7 DEF Resolve, vars, Collect
  <2> QED
    BY <2>0, <2>1, <2>2, <2>3, <2>4, <2>5, <2>6, <2>7 DEF Next
<1>2. capps' = [c \in Capps |-> capps'[c]]
  <2>1. capps = [c \in Capps |-> capps[c]]
    BY DEF TypeOK
  <2>2. ASSUME NEW c \in Capps, NEW n, capps' = [capps EXCEPT ![c] = n]
        PROVE  capps' = [d \in Capps |-> capps'[d]]
    BY <2>1, <2>2
  <2>3. capps' = capps \/ \E c \in Capps : \E n : capps' = [capps EXCEPT ![c] = n]
    <3>1. ASSUME NEW c \in Capps, Reconcile(c)
          PROVE  capps' = capps \/ \E n : capps' = [capps EXCEPT ![c] = n]
      BY <3>1 DEF Reconcile, ensureFinalizer
    <3>2. ASSUME NEW c \in Capps, NEW s \in Specs, CreateCapp(c, s) \/ UpdateCapp(c, s) \/ DeleteCapp(c)
          PROVE  \E n : capps' = [capps EXCEPT ![c] = n]
      BY <3>2 DEF CreateCapp, UpdateCapp, DeleteCapp
    <3>3. ASSUME NEW c \in Capps, DeleteCapp(c)
          PROVE  \E n : capps' = [capps EXCEPT ![c] = n]
      BY <3>3 DEF DeleteCapp
    <3> QED
      BY <3>1, <3>2, <3>3 DEF Next, vars, SetConfig, SetKeys, Collect, Resolve
  <2> QED
    BY <2>1, <2>2, <2>3
<1>3. ASSUME NEW c \in Capps
      PROVE  /\ capps'[c] \in Capp \cup {None}
             /\ capps'[c] # None =>
                   /\ capps'[c].under \in Configs /\ capps'[c].asked \in Specs
                   /\ capps'[c].deleting => capps'[c].fin
  <2>0. config \in Configs /\ config \in CappConfig /\ Specs \subseteq CappSpec
    BY NamespaceAssumption DEF TypeOK
  <2>1. CASE capps'[c] = capps[c]
    BY <2>1 DEF TypeOK
  <2>2. CASE capps'[c] = None
    BY <2>2
  <2>3. CASE /\ capps[c] # None /\ capps[c].fin
             /\ capps'[c] = [capps[c] EXCEPT !.deleting = TRUE]
    BY <2>3, CappTypes DEF Capp
  <2>4. ASSUME NEW s \in Specs, NEW f \in BOOLEAN, capps'[c] = Stored(s, s, f)
        PROVE  /\ capps'[c] \in Capp
               /\ capps'[c].under \in Configs /\ capps'[c].asked \in Specs
               /\ ~capps'[c].deleting
    <3>1. StoredAs(capps'[c], s, s, f)
      BY <2>0, <2>4, StoredCapp
    <3> QED
      BY <2>0, <3>1 DEF StoredAs
  <2>5. ASSUME NEW s \in Specs, UpdateCapp(c, s) PROVE capps[c].fin \in BOOLEAN
    BY <2>5, CappTypes DEF UpdateCapp, Active
  <2>6. CASE /\ capps[c] # None
             /\ capps'[c] = Stored(capps[c].spec, capps[c].asked, TRUE)
    <3>1. capps[c].spec \in CappSpec /\ capps[c].asked \in CappSpec /\ capps[c].asked \in Specs
      BY <2>6, CappTypes
    <3>2. StoredAs(capps'[c], capps[c].spec, capps[c].asked, TRUE)
      BY <2>0, <2>6, <3>1, StoredCapp
    <3> QED
      BY <2>0, <3>1, <3>2 DEF StoredAs
  <2> QED
    BY <2>1, <2>2, <2>3, <2>4, <2>5, <2>6, CappSteps
<1>4. ObjectsOK(objs')
  BY ObjectTypes
<1>5. queued' \subseteq Capps
  <2>1. queued \subseteq Capps /\ Enqueued(objs') \subseteq Capps
    BY <1>4, EnqueuedTypes DEF TypeOK, ObjectsOK
  <2> QED
    BY <2>1 DEF Next, vars, CreateCapp, UpdateCapp, DeleteCapp, SetConfig, SetKeys,
                Reconcile, Write, Collect, Resolve
<1> QED
  BY <1>1, <1>2, <1>3, <1>4, <1>5 DEF TypeOK, ObjectsOK

\* Whatever users and administrators write, a Capp that is there is well formed
\* and its children have an owner.
THEOREM TypeCorrect == Spec => []TypeOK
<1> QED
  BY InitTypeOK, NextTypeOK, PTL DEF Spec

----------------------------------------------------------------------------
(* What the user asks for                                                  *)

\* What the user has asked for is in the Capp.
QuantitiesKept ==
    \A c \in Capps, q \in Quantities :
        capps[c] # None /\ capps[c].asked.resources[q] # None =>
            capps[c].spec.resources[q] = capps[c].asked.resources[q]

LEMMA QuantitiesStep ==
    ASSUME TypeOK, QuantitiesKept, [Next]_vars, NEW c \in Capps, NEW q \in Quantities,
           capps'[c] # None
    PROVE  /\ capps'[c].asked.resources[q] # None =>
                 capps'[c].spec.resources[q] = capps'[c].asked.resources[q]
           /\ capps[c] # None /\ capps[c].asked = capps'[c].asked
                 /\ capps[c].spec.resources[q] # None =>
                 capps'[c].spec.resources[q] = capps[c].spec.resources[q]
<1>0. config \in CappConfig /\ Specs \subseteq CappSpec
  BY NamespaceAssumption DEF TypeOK
<1>1. CASE capps'[c] = capps[c]
  BY <1>1 DEF QuantitiesKept
<1>2. CASE /\ capps[c] # None
           /\ capps'[c] = [capps[c] EXCEPT !.deleting = TRUE]
  <2>1. capps'[c].spec = capps[c].spec /\ capps'[c].asked = capps[c].asked
    BY <1>2, CappTypes DEF Capp
  <2> QED
    BY <1>2, <2>1 DEF QuantitiesKept
<1>3. ASSUME NEW s \in Specs, CreateCapp(c, s), capps'[c] = Stored(s, s, FALSE)
      PROVE  /\ capps[c] = None /\ capps'[c].asked = s
             /\ s.resources[q] # None => capps'[c].spec.resources[q] = s.resources[q]
  <2>1. StoredAs(capps'[c], s, s, FALSE)
    BY <1>0, <1>3, StoredCapp
  <2> QED
    BY <1>3, <2>1 DEF CreateCapp, StoredAs
<1>4. ASSUME NEW s \in Specs, UpdateCapp(c, s), capps'[c] = Stored(s, s, capps[c].fin)
      PROVE  /\ capps[c].asked # capps'[c].asked /\ capps'[c].asked = s
             /\ s.resources[q] # None => capps'[c].spec.resources[q] = s.resources[q]
  <2>1. capps[c].fin \in BOOLEAN
    BY <1>4, CappTypes DEF UpdateCapp, Active
  <2>2. StoredAs(capps'[c], s, s, capps[c].fin)
    BY <1>0, <1>4, <2>1, StoredCapp
  <2> QED
    BY <1>4, <2>2 DEF UpdateCapp, StoredAs
<1>5. CASE /\ capps[c] # None
           /\ capps'[c] = Stored(capps[c].spec, capps[c].asked, TRUE)
  <2>1. capps[c].spec \in CappSpec /\ capps[c].asked \in CappSpec
    BY <1>5, CappTypes
  <2>2. /\ capps'[c].asked = capps[c].asked
        /\ capps[c].spec.resources[q] # None =>
              capps'[c].spec.resources[q] = capps[c].spec.resources[q]
    <3>1. StoredAs(capps'[c], capps[c].spec, capps[c].asked, TRUE)
      BY <1>0, <1>5, <2>1, StoredCapp
    <3> QED
      BY <3>1 DEF StoredAs
  <2> QED
    BY <1>5, <2>2 DEF QuantitiesKept
<1> QED
  BY <1>1, <1>2, <1>3, <1>4, <1>5, CappSteps

\* The defaults of the CappConfig, which fill in what is missing on every write,
\* the operator's own included, never replace an amount that is there.
THEOREM DefaultsNeverOverride == Spec => UsersQuantitiesStay
<1>1. Init => QuantitiesKept
  BY DEF Init, QuantitiesKept
<1>2. TypeOK /\ QuantitiesKept /\ [Next]_vars => QuantitiesKept'
  BY QuantitiesStep DEF QuantitiesKept
<1>3. TypeOK /\ QuantitiesKept /\ [Next]_vars =>
        [\A c \in Capps, q \in Quantities :
          capps'[c] # None =>
             /\ capps'[c].asked.resources[q] # None =>
                   capps'[c].spec.resources[q] = capps'[c].asked.resources[q]
             /\ capps[c] # None /\ capps[c].asked = capps'[c].asked
                   /\ capps[c].spec.resources[q] # None =>
                   capps'[c].spec.resources[q] = capps[c].spec.resources[q]]_capps
  BY QuantitiesStep
<1> QED
  BY <1>1, <1>2, <1>3, TypeCorrect, PTL DEF Spec, UsersQuantitiesStay

----------------------------------------------------------------------------
(* What Capps share                                                        *)

\* What a Capp names and drops is told by its hostname, volumes and sources.
LEMMA SameNames ==
    ASSUME NEW c, NEW s, NEW t,
           s.hostname = t.hostname, s.volumes = t.volumes, s.sources = t.sources
    PROVE  Wanted(c, s) = Wanted(c, t) /\ Dropped(c, s) = Dropped(c, t)
<1>1. Wanted(c, s) = Wanted(c, t)
  BY DEF Wanted
<1> QED
  BY <1>1 DEF Dropped

LEMMA RemovalStep ==
    ASSUME TypeOK, [Next]_vars, NEW o \in DOMAIN objs \ DOMAIN objs',
           NEW c \in objs[o].owners, Active(c)
    PROVE  LET creator == objs[o].label
           IN  IF Active(creator)
               THEN o \in Dropped(creator, capps[creator].spec)
               ELSE capps[creator] # None /\ creator \notin objs[o].owners
<1>0. o \in DOMAIN objs /\ o \notin DOMAIN objs' /\ objs' # objs
  OBVIOUS
<1>1. ASSUME NEW d \in Capps, Finalizes(d)
      PROVE  /\ objs[o].label = d /\ d \notin objs[o].owners
             /\ capps[d] # None /\ ~Active(d)
  BY <1>0, <1>1 DEF Finalizes, deleteOwnedResources, listManagedResources, Active
<1>2. ASSUME NEW d \in Capps, Manages(d)
      PROVE  objs[o].label = d /\ Active(d) /\ o \in Dropped(d, capps[d].spec)
  <2>1. o \in Dropped(d, capps'[d].spec)
    BY <1>0, <1>2 DEF Managed, Manages
  <2>2. Dropped(d, capps'[d].spec) = Dropped(d, capps[d].spec)
    BY <1>2, SameNames DEF Manages
  <2> QED
    BY <1>2, <2>1, <2>2, DroppedKinds DEF Manages
<1>3. ASSUME NEW p \in DOMAIN objs, Collects(p) PROVE FALSE
  <2>1. p = o /\ Gone(o) = objs[o].owners
    BY <1>0, <1>3 DEF Collects
  <2> QED
    BY <2>1 DEF Gone, Active
<1> QED
  BY <1>0, <1>1, <1>2, <1>3, Steps DEF Ignores, Quiet

\* Deleting a Capp takes no object from another one that owns it,
\* except one whose label is left from an earlier Capp of the same name.
THEOREM OthersKeepTheirObjects == Spec => OthersKeepTheirs
<1>1. TypeOK /\ [Next]_vars =>
        [\A o \in DOMAIN objs \ DOMAIN objs' :
          \A c \in objs[o].owners :
             Active(c) =>
                LET creator == objs[o].label
                IN  IF Active(creator)
                    THEN o \in Dropped(creator, capps[creator].spec)
                    ELSE capps[creator] # None /\ creator \notin objs[o].owners]_objs
  BY RemovalStep
<1> QED
  BY <1>1, TypeCorrect, PTL DEF Spec, OthersKeepTheirs

----------------------------------------------------------------------------
(* Replicas                                                                *)

\* Every Capp was within the limits of the CappConfig it was admitted under.
WithinLimits ==
    \A c \in Capps : capps[c] # None =>
        validateScaleSpec(capps[c].spec, capps[c].under.autoscale)

\* Nobody but the Capp writes its Knative Service.
OwnServices ==
    \A c \in Capps : <<"KnativeService", c>> \in DOMAIN objs =>
        objs[<<"KnativeService", c>>].label = c /\ objs[<<"KnativeService", c>>].owners = {c}

\* A Capp that is not in the queue has a Knative Service that follows from the Capp
\* and the CappConfig.
Served(c) ==
    /\ <<"KnativeService", c>> \in DOMAIN objs
    /\ objs[<<"KnativeService", c>>].spec
          = MergeMaps(capps[c].spec.annotations, setAutoScaler(capps[c].spec, config.autoscale))

ServicesCurrent ==
    \A c \in Capps : Active(c) /\ capps[c].fin /\ c \notin queued => Served(c)

\* The inductive invariant behind ScaleFits.
ScaleInv == TypeOK /\ WithinLimits /\ OwnServices /\ ServicesCurrent

LEMMA LimitsStep ==
    ASSUME TypeOK, WithinLimits, [Next]_vars PROVE WithinLimits'
<1> SUFFICES ASSUME NEW c \in Capps, capps'[c] # None
             PROVE  validateScaleSpec(capps'[c].spec, capps'[c].under.autoscale)
  BY DEF WithinLimits
<1>0. config \in CappConfig /\ Specs \subseteq CappSpec
  BY NamespaceAssumption DEF TypeOK
<1>1. CASE capps'[c] = capps[c]
  BY <1>1 DEF WithinLimits
<1>2. CASE /\ capps[c] # None
           /\ capps'[c] = [capps[c] EXCEPT !.deleting = TRUE]
  <2>1. capps'[c].spec = capps[c].spec /\ capps'[c].under = capps[c].under
    BY <1>2, CappTypes DEF Capp
  <2> QED
    BY <1>2, <2>1 DEF WithinLimits
<1>3. ASSUME NEW s \in CappSpec, NEW a \in CappSpec, NEW f \in BOOLEAN, Admitted(c, s),
             capps'[c] = Stored(s, a, f)
      PROVE  validateScaleSpec(capps'[c].spec, capps'[c].under.autoscale)
  <2>1. validateScaleSpec(mutateResources(s, config.defaults), config.autoscale)
    BY <1>3 DEF Admitted, Validates
  <2>2. StoredAs(capps'[c], s, a, f)
    BY <1>0, <1>3, StoredCapp
  <2> QED
    BY <2>1, <2>2 DEF StoredAs
<1>4. ASSUME NEW s \in Specs, CreateCapp(c, s) PROVE Admitted(c, s)
  BY <1>4 DEF CreateCapp, Request
<1>5. ASSUME NEW s \in Specs, UpdateCapp(c, s)
      PROVE  Admitted(c, s) /\ capps[c].fin \in BOOLEAN
  BY <1>5, CappTypes DEF UpdateCapp, Request, Active
<1>6. capps[c] # None => capps[c].spec \in CappSpec /\ capps[c].asked \in CappSpec
  BY CappTypes
<1> QED
  BY <1>0, <1>1, <1>2, <1>3, <1>4, <1>5, <1>6, CappSteps

\* What becomes of the object o, of the label c, when c is not the one reconciled.
LEMMA ObjectKept ==
    ASSUME TypeOK, NEW c \in Capps, NEW d \in Capps, NEW o \in DOMAIN objs,
           objs[o].label = c, d # c,
           Finalizes(d) \/ (Manages(d) /\ o \notin Wanted(d, capps'[d].spec))
    PROVE  o \in DOMAIN objs' /\ objs'[o] = objs[o]
<1>1. CASE Finalizes(d)
  BY <1>1 DEF Finalizes, deleteOwnedResources, listManagedResources
<1>2. CASE Manages(d) /\ o \notin Wanted(d, capps'[d].spec)
  <2>1. o \notin Dropped(d, capps'[d].spec) /\ o \notin Written(d, capps'[d].spec)
    BY <1>2, DroppedKinds DEF Written
  <2> QED
    BY <1>2, <2>1 DEF Manages, Managed
<1> QED
  BY <1>1, <1>2

\* An object whose owner is there is not collected.
LEMMA OwnedKept ==
    ASSUME TypeOK, NEW c \in Capps, NEW o \in DOMAIN objs, objs[o].owners = {c},
           capps[c] # None, NEW p \in DOMAIN objs, Collects(p)
    PROVE  o \in DOMAIN objs' /\ objs'[o] = objs[o]
<1>1. p # o
  BY DEF Collects, Gone
<1> QED
  BY <1>1 DEF Collects

LEMMA OwnServicesStep ==
    ASSUME TypeOK, OwnServices, [Next]_vars PROVE OwnServices'
<1> SUFFICES ASSUME NEW c \in Capps, <<"KnativeService", c>> \in DOMAIN objs'
             PROVE  /\ objs'[<<"KnativeService", c>>].label = c
                    /\ objs'[<<"KnativeService", c>>].owners = {c}
  BY DEF OwnServices
<1> DEFINE k == <<"KnativeService", c>>
<1>0. k \in DOMAIN objs => objs[k].label = c /\ objs[k].owners = {c}
  BY DEF OwnServices
<1> HIDE DEF k
<1>1. CASE UNCHANGED objs
  BY <1>0, <1>1 DEF k
<1>2. ASSUME NEW d \in Capps, Finalizes(d) PROVE objs'[k].label = c /\ objs'[k].owners = {c}
  <2>1. k \in DOMAIN objs /\ objs'[k] = objs[k]
    BY <1>2 DEF Finalizes, deleteOwnedResources, k
  <2> QED
    BY <1>0, <2>1
<1>3. ASSUME NEW d \in Capps, Manages(d) PROVE objs'[k].label = c /\ objs'[k].owners = {c}
  <2>1. Managed(d, capps'[d].spec, objs') /\ k \in DOMAIN objs'
    BY <1>3 DEF Manages, k
  <2>2. CASE k \notin Written(d, capps'[d].spec)
    BY <1>0, <2>1, <2>2 DEF Managed
  <2>3. CASE k \in Written(d, capps'[d].spec)
    <3>1. d = c
      BY <2>3, WantedKinds DEF Written, k
    <3> QED
      BY <1>0, <2>1, <2>3, <3>1 DEF Managed
  <2> QED
    BY <2>2, <2>3
<1>4. ASSUME NEW p \in DOMAIN objs, Collects(p)
      PROVE  objs'[k].label = c /\ objs'[k].owners = {c}
  <2>1. CASE p # k
    <3>1. k \in DOMAIN objs /\ objs'[k] = objs[k]
      BY <1>4, <2>1 DEF Collects, k
    <3> QED
      BY <1>0, <3>1
  <2>2. CASE p = k
    <3>1. Gone(k) = {c}
      BY <1>0, <1>4, <2>2 DEF Collects, Gone
    <3> QED
      BY <1>0, <1>4, <2>2, <3>1 DEF Collects, k
  <2> QED
    BY <2>1, <2>2
<1> QED
  BY <1>1, <1>2, <1>3, <1>4, Steps DEF Ignores, Quiet, k

LEMMA ServicesStep ==
    ASSUME TypeOK, OwnServices, ServicesCurrent, [Next]_vars PROVE ServicesCurrent'
<1> SUFFICES ASSUME NEW c \in Capps, capps'[c] # None, ~capps'[c].deleting, capps'[c].fin,
                    c \notin queued'
             PROVE  Served(c)'
  BY DEF ServicesCurrent, Active
<1> DEFINE k == <<"KnativeService", c>>
<1>0. k \in DOMAIN objs => objs[k].label = c /\ objs[k].owners = {c}
  BY DEF OwnServices
<1> HIDE DEF k
<1>1. ASSUME capps'[c] = capps[c], c \notin queued, UNCHANGED config,
             k \in DOMAIN objs => k \in DOMAIN objs' /\ objs'[k] = objs[k]
      PROVE  Served(c)'
  <2>1. Served(c)
    BY <1>1 DEF ServicesCurrent, Active
  <2> QED
    BY <1>1, <2>1 DEF Served, k
<1>2. CASE Quiet
  <2>1. capps'[c] = capps[c] /\ c \notin queued /\ UNCHANGED <<config, objs>>
    BY <1>2 DEF Quiet
  <2> QED
    BY <1>1, <2>1
<1>3. ASSUME NEW d \in Capps, Ignores(d) PROVE Served(c)'
  <2>1. capps'[c] = capps[c] /\ d # c /\ c \notin queued /\ UNCHANGED <<config, objs>>
    BY <1>3 DEF Ignores
  <2> QED
    BY <1>1, <2>1
<1>4. ASSUME NEW d \in Capps, Finalizes(d) \/ Manages(d), d # c PROVE Served(c)'
  <2>1. capps'[c] = capps[c] /\ c \notin queued /\ UNCHANGED config
    BY <1>4 DEF Finalizes, Manages, TypeOK
  <2>2. k \notin Wanted(d, capps'[d].spec)
    BY <1>4, WantedKinds DEF k
  <2>3. k \in DOMAIN objs => k \in DOMAIN objs' /\ objs'[k] = objs[k]
    BY <1>0, <1>4, <2>2, ObjectKept
  <2> QED
    BY <1>1, <2>1, <2>3
<1>5. CASE Finalizes(c)
  BY <1>5 DEF Finalizes, TypeOK
<1>6. CASE Manages(c)
  <2> DEFINE s == capps'[c].spec
  <2>1. k \in Written(c, s)
    BY WantedKinds DEF k
  <2>2. k \in DOMAIN objs' /\ objs'[k].spec = prepareResource(c, s, k)
    BY <1>6, <2>1 DEF Manages, Managed
  <2>3. prepareResource(c, s, k) = MergeMaps(s.annotations, setAutoScaler(s, config.autoscale))
    BY DEF prepareResource, k
  <2>4. UNCHANGED config
    BY <1>6 DEF Manages
  <2> QED
    BY <2>2, <2>3, <2>4 DEF Served, k
<1>7. ASSUME NEW p \in DOMAIN objs, Collects(p) PROVE Served(c)'
  <2>1. capps'[c] = capps[c] /\ c \notin queued /\ UNCHANGED config
    BY <1>7 DEF Collects
  <2>2. k \in DOMAIN objs => k \in DOMAIN objs' /\ objs'[k] = objs[k]
    BY <1>0, <1>7, <2>1, OwnedKept
  <2> QED
    BY <1>1, <2>1, <2>2
<1> QED
  BY <1>2, <1>3, <1>4, <1>5, <1>6, <1>7, Steps

\* The replicas in the annotations of a Capp within the limits, when the annotations
\* are derived under the same CappConfig.
LEMMA AutoscalerFits ==
    ASSUME NEW s \in CappSpec, NEW a \in AutoscaleConfig, validateScaleSpec(s, a),
           s.annotations = <<>>, NEW scale,
           scale = MergeMaps(s.annotations, setAutoScaler(s, a))
    PROVE  /\ "max" \in DOMAIN scale =>
                 /\ scale.max <= a.maxLimit
                 /\ "min" \in DOMAIN scale => scale.min <= scale.max
                 /\ "activation" \in DOMAIN scale => scale.activation <= scale.max
           /\ "min" \in DOMAIN scale => scale.min <= a.minLimit
<1> DEFINE derived == setAutoScaler(s, a)
           all == [class |-> IF s.scale.metric \in {"rps", "concurrency"} THEN "kpa" ELSE "hpa",
                   metric |-> s.scale.metric, target |-> a.targets[s.scale.metric],
                   delay |-> s.scale.delay, min |-> s.scale.min,
                   activation |-> IF s.scale.min = None THEN a.activation ELSE None,
                   max |-> s.scale.max]
<1>1. scale = [k \in DOMAIN derived |-> derived[k]]
  <2>1. DOMAIN s.annotations = {}
    OBVIOUS
  <2> QED
    BY <2>1 DEF MergeMaps
<1>2. /\ s.scale.min \in Nat \cup {None} /\ s.scale.max \in Nat \cup {None}
      /\ a.minLimit \in Nat /\ a.maxLimit \in Nat /\ a.activation \in Nat
  BY AmountsAssumption DEF CappSpec, ScaleSpec, AutoscaleConfig, Unset
<1>3. CASE s.scale.metric = None
  <2>1. derived = <<>>
    BY <1>3 DEF setAutoScaler
  <2>2. DOMAIN scale = {}
    BY <1>1, <2>1
  <2> QED
    BY <2>2
<1>4. CASE s.scale.metric # None
  <2>1. derived = [k \in {f \in DOMAIN all : all[f] # None} |-> all[k]]
    BY <1>4 DEF setAutoScaler
  <2>2. \A k \in DOMAIN scale : k \in DOMAIN all /\ all[k] # None /\ scale[k] = all[k]
    <3> HIDE DEF all, derived
    <3> QED
      BY <1>1, <2>1
  <2>3. /\ all["min"] = s.scale.min /\ all["max"] = s.scale.max
        /\ all["activation"] = IF s.scale.min = None THEN a.activation ELSE None
    OBVIOUS
  <2>4. /\ "max" \in DOMAIN scale => s.scale.max # None /\ scale.max = s.scale.max
        /\ "min" \in DOMAIN scale => s.scale.min # None /\ scale.min = s.scale.min
        /\ "activation" \in DOMAIN scale =>
              s.scale.min = None /\ scale.activation = a.activation
    BY <2>2, <2>3
  <2> QED
    BY <1>2, <2>4 DEF validateScaleSpec
<1> QED
  BY <1>3, <1>4

\* As long as the CappConfig is the one under which a Capp was admitted, its
\* Knative Service, whenever it was written, asks for no more replicas to start
\* with, or to keep, than its maximum and than the global limits.
THEOREM ReplicasFit == Spec => []ScaleFits
<1>1. Init => ScaleInv
  BY InitTypeOK DEF Init, ScaleInv, WithinLimits, OwnServices, ServicesCurrent, Active
<1>2. ScaleInv /\ [Next]_vars => ScaleInv'
  BY NextTypeOK, LimitsStep, OwnServicesStep, ServicesStep DEF ScaleInv
<1>3. ScaleInv => ScaleFits
  <2> SUFFICES ASSUME ScaleInv, NEW c \in Capps, Active(c), capps[c].fin, c \notin queued,
                      capps[c].under = config, capps[c].spec.annotations = <<>>,
                      NEW scale, scale = objs[<<"KnativeService", c>>].spec
               PROVE  /\ "max" \in DOMAIN scale =>
                            /\ scale.max <= config.autoscale.maxLimit
                            /\ "min" \in DOMAIN scale => scale.min <= scale.max
                            /\ "activation" \in DOMAIN scale => scale.activation <= scale.max
                      /\ "min" \in DOMAIN scale => scale.min <= config.autoscale.minLimit
    BY DEF ScaleFits
  <2>1. Served(c)
    BY DEF ScaleInv, ServicesCurrent
  <2>2. capps[c].spec \in CappSpec /\ config.autoscale \in AutoscaleConfig
    BY CappTypes, NamespaceAssumption DEF ScaleInv, TypeOK, Active, CappConfig
  <2>3. validateScaleSpec(capps[c].spec, config.autoscale)
    BY DEF ScaleInv, WithinLimits, Active
  <2>4. scale = MergeMaps(capps[c].spec.annotations,
                          setAutoScaler(capps[c].spec, config.autoscale))
    BY <2>1 DEF Served
  <2> QED
    BY <2>2, <2>3, <2>4, AutoscalerFits
<1> QED
  BY <1>1, <1>2, <1>3, PTL DEF Spec
=============================================================================
