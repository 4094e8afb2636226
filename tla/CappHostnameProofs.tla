------------------------- MODULE CappHostnameProofs -------------------------
(***************************************************************************)
(* Proofs about the hostnames of the Capps of a namespace: the names of    *)
(* their objects, and how long a Capp keeps its hostname.                  *)
(***************************************************************************)
EXTENDS CappNamespaceProofs, SequenceTheorems

----------------------------------------------------------------------------
(* Names                                                                   *)

LEMMA Concatenation ==
    ASSUME NEW p \in Seq(Char), NEW q \in Seq(Char), NEW t \in Seq(Char)
    PROVE  p \o q \in Seq(Char) /\ (p \o q) \o t = p \o (q \o t)
<1>1. (p \o q) \o t = p \o (q \o t)
  BY ConcatAssociative
<1>2. p \o q \in Seq(Char)
  BY ConcatProperties
<1> QED
  BY <1>1, <1>2

\* A name that ends with a suffix is what comes before it, and the suffix.
LEMMA Suffix ==
    ASSUME NEW h \in Seq(Char), NEW t \in Seq(Char), HasSuffix(h, t)
    PROVE  /\ Len(t) <= Len(h)
           /\ SubSeq(h, 1, Len(h) - Len(t)) \in Seq(Char)
           /\ SubSeq(h, 1, Len(h) - Len(t)) \o t = h
<1> DEFINE k == Len(h) - Len(t)
<1>1. Len(t) \in Nat /\ Len(h) \in Nat /\ Len(t) <= Len(h) /\ k \in 0..Len(h)
  BY DEF HasSuffix
<1>2. SubSeq(h, k + 1, Len(h)) = t
  BY DEF HasSuffix
<1>3. SubSeq(h, 1, k) \o SubSeq(h, k + 1, Len(h)) = SubSeq(h, 1, Len(h))
  <2>1. 1 \in 1..Len(h) + 1 /\ k \in 1 - 1..Len(h) /\ Len(h) \in k..Len(h)
    BY <1>1
  <2> HIDE DEF k
  <2> QED
    BY <2>1, ConcatAdjacentSubSeq
<1>4. SubSeq(h, 1, Len(h)) = h
  BY SubSeqFull
<1>5. SubSeq(h, 1, k) \in Seq(Char)
  <2>1. \A i \in 1..k : h[i] \in Char
    BY <1>1, ElementOfSeq
  <2> HIDE DEF k
  <2> QED
    BY <1>1, <2>1, SubSeqProperties
<1> QED
  BY <1>1, <1>2, <1>3, <1>4, <1>5

\* A name that ends with a name ends with every end of that.
LEMMA SuffixOfConcat ==
    ASSUME NEW p \in Seq(Char), NEW t \in Seq(Char)
    PROVE  HasSuffix(p \o t, t)
<1> DEFINE h == p \o t
<1>1. /\ h \in Seq(Char) /\ Len(h) = Len(p) + Len(t)
      /\ \A i \in 1..Len(p) + Len(t) : h[i] = IF i <= Len(p) THEN p[i] ELSE t[i - Len(p)]
  BY ConcatProperties
<1>2. Len(p) \in Nat /\ Len(t) \in Nat
  OBVIOUS
<1> HIDE DEF h
<1>3. /\ SubSeq(h, Len(p) + 1, Len(h)) \in Seq(Char)
      /\ Len(SubSeq(h, Len(p) + 1, Len(h))) = Len(t)
      /\ \A i \in 1..Len(t) : SubSeq(h, Len(p) + 1, Len(h))[i] = h[Len(p) + i]
  <2>1. \A i \in Len(p) + 1..Len(h) : h[i] \in Char
    BY <1>1, <1>2, ElementOfSeq
  <2>2. /\ SubSeq(h, Len(p) + 1, Len(h)) \in Seq(Char)
        /\ Len(SubSeq(h, Len(p) + 1, Len(h)))
              = IF Len(p) + 1 <= Len(h) THEN Len(h) - (Len(p) + 1) + 1 ELSE 0
        /\ \A i \in 1..Len(h) - (Len(p) + 1) + 1 :
              SubSeq(h, Len(p) + 1, Len(h))[i] = h[(Len(p) + 1) + i - 1]
    BY <1>1, <1>2, <2>1, SubSeqProperties
  <2> QED
    BY <1>1, <1>2, <2>2
<1>4. \A i \in 1..Len(t) : h[Len(p) + i] = t[i]
  BY <1>1, <1>2
<1>5. SubSeq(h, Len(p) + 1, Len(h)) = t
  BY <1>3, <1>4, SeqEqual
<1>6. Len(h) - Len(t) + 1 = Len(p) + 1 /\ Len(t) <= Len(h)
  BY <1>1, <1>2
<1> QED
  BY <1>5, <1>6 DEF HasSuffix, h

\* The zone without its dot is one shorter.
LEMMA BareZone ==
    ASSUME NEW zone \in Seq(Char), HasSuffix(zone, Dot)
    PROVE  /\ Bare(zone) \in Seq(Char) /\ Len(zone) = Len(Bare(zone)) + 1
           /\ Dot \in Seq(Char) /\ Len(Dot) = 1
           /\ Dot \o Bare(zone) \in Seq(Char) /\ Len(Dot \o Bare(zone)) = Len(zone)
<1>1. Dot \in Seq(Char) /\ Len(Dot) = 1
  <2>1. ASSUME NEW S, NEW e \in S PROVE <<e>> \in Seq(S) /\ Len(<<e>>) = 1
    OBVIOUS
  <2>2. "." \in Char
    BY NameAssumption
  <2> QED
    BY <2>1, <2>2 DEF Dot
<1>2. Bare(zone) = SubSeq(zone, 1, Len(zone) - Len(Dot))
  BY DEF Bare, TrimSuffix
<1>3. Bare(zone) \in Seq(Char) /\ Bare(zone) \o Dot = zone
  BY <1>1, <1>2, Suffix
<1>4. Len(zone) = Len(Bare(zone)) + 1
  BY <1>1, <1>3, ConcatProperties
<1>5. Dot \o Bare(zone) \in Seq(Char) /\ Len(Dot \o Bare(zone)) = 1 + Len(Bare(zone))
  BY <1>1, <1>3, ConcatProperties
<1> QED
  BY <1>1, <1>3, <1>4, <1>5

\* A hostname that ends with the zone ends with it after a dot.
AtLabel(h, zone) == HasSuffix(h, Bare(zone)) => HasSuffix(h, Dot \o Bare(zone))

\* For such a hostname GenerateRecordName does not panic, and the name in the
\* zone, followed by the zone, is what GenerateResourceName returns.
LEMMA RecordAndResource ==
    ASSUME NEW h \in Seq(Char), NEW zone \in Seq(Char), HasSuffix(zone, Dot),
           AtLabel(h, zone)
    PROVE  /\ GenerateRecordName(h, zone) \in Seq(Char)
           /\ GenerateRecordName(h, zone) \o Dot \o Bare(zone) = GenerateResourceName(h, zone)
<1> DEFINE bare == Bare(zone)
<1>0. /\ bare \in Seq(Char) /\ Dot \in Seq(Char)
      /\ Dot \o bare \in Seq(Char) /\ Len(Dot \o bare) = Len(zone)
  BY BareZone
<1>1. CASE ~HasSuffix(h, bare)
  BY <1>1 DEF GenerateRecordName, GenerateResourceName
<1>2. CASE HasSuffix(h, bare)
  <2>1. HasSuffix(h, Dot \o bare)
    BY <1>2 DEF AtLabel
  <2> DEFINE p == SubSeq(h, 1, Len(h) - Len(zone))
  <2>2. Len(zone) <= Len(h) /\ p \in Seq(Char) /\ p \o (Dot \o bare) = h
    BY <1>0, <2>1, Suffix
  <2>3. GenerateRecordName(h, zone) = p
    <3>1. ~(Len(h) < Len(zone))
      BY <2>2, LenProperties
    <3> QED
      BY <1>2, <3>1 DEF GenerateRecordName
  <2> HIDE DEF p, bare
  <2>4. (p \o Dot) \o bare = p \o (Dot \o bare)
    <3>1. p \in Seq(Char) /\ Dot \in Seq(Char) /\ bare \in Seq(Char)
      BY <1>0, <2>2
    <3> QED
      BY <3>1, Concatenation, SMTT(30)
  <2>5. GenerateResourceName(h, zone) = h
    BY <1>2 DEF GenerateResourceName, bare
  <2> QED
    BY <2>2, <2>3, <2>4, <2>5 DEF bare
<1> QED
  BY <1>1, <1>2

\* A hostname with the zone in it is its own resource name.
LEMMA FullName ==
    ASSUME NEW h \in Seq(Char), NEW zone \in Seq(Char), HasSuffix(zone, Dot),
           HasSuffix(h, Dot \o Bare(zone))
    PROVE  AtLabel(h, zone) /\ GenerateResourceName(h, zone) = h
<1> DEFINE bare == Bare(zone)
           p == SubSeq(h, 1, Len(h) - Len(Dot \o bare))
<1>1. bare \in Seq(Char) /\ Dot \in Seq(Char) /\ Dot \o bare \in Seq(Char)
  BY BareZone
<1>2. p \in Seq(Char) /\ p \o (Dot \o bare) = h
  BY <1>1, Suffix
<1> HIDE DEF p, bare
<1>3. (p \o Dot) \o bare = p \o (Dot \o bare)
  BY <1>1, <1>2, Concatenation, Zenon
<1>4. p \o Dot \in Seq(Char)
  BY <1>1, <1>2, Concatenation, Zenon
<1>5. HasSuffix(h, bare)
  BY <1>1, <1>2, <1>3, <1>4, SuffixOfConcat
<1> QED
  BY <1>5 DEF AtLabel, GenerateResourceName, bare

----------------------------------------------------------------------------
(* Hypotheses and invariants                                               *)

\* The zone of the CappConfig stays, and ends with a dot, which the schema of the
\* CappConfig asks for.
OneZone ==
    /\ \A k, l \in Configs : k.zone = l.zone
    /\ \A k \in Configs : HasSuffix(k.zone, Dot)

\* The patterns admit no hostname in which the zone begins inside a label.
AtLabels == \A k \in Configs : \A h \in k.patterns : AtLabel(h, k.zone)

\* The patterns admit only hostnames that are written in full, with the zone.
InFull == \A k \in Configs : \A h \in k.patterns : HasSuffix(h, Dot \o Bare(k.zone))

\* Every hostname was admitted at some time.
HostnamesAdmitted ==
    \A c \in Capps : capps[c] # None /\ capps[c].spec.hostname # <<>> =>
        \E k \in Configs : capps[c].spec.hostname \in k.patterns

\* The record of a hostname that is written in full.
RecordOf(c) == <<"DNSRecord", capps[c].spec.hostname>>

\* The inductive invariant behind RecordNamesTheHost and HeldHostnamesStay.
NameInv == TypeOK /\ HostnamesAdmitted /\ RecordNamesTheHost

----------------------------------------------------------------------------
(* Steps                                                                   *)

\* A user's request gives c the hostname h.  A new one is admitted by the patterns
\* and does not resolve.
Takes(c, h) ==
    /\ capps'[c] # None /\ capps'[c].spec.hostname = h
    /\ \A d \in Capps \ {c} : capps'[d] = capps[d]
    /\ c \in queued' /\ queued \subseteq queued' /\ UNCHANGED <<config, objs>>
    /\ capps[c] = None => \A o \in DOMAIN objs : c \notin objs[o].owners
    /\ capps[c] # None /\ capps[c].spec.hostname # <<>> => h = capps[c].spec.hostname
    /\ h # <<>> /\ (capps[c] = None \/ capps[c].spec.hostname = <<>>) =>
          h \in config.patterns /\ h \notin dns

Deletes(c) ==
    /\ capps[c] # None
    /\ capps'[c] # None => capps'[c].spec = capps[c].spec
    /\ \A d \in Capps \ {c} : capps'[d] = capps[d]
    /\ c \in queued' /\ queued \subseteq queued' /\ UNCHANGED <<config, objs>>

Stays == UNCHANGED <<capps, objs>> /\ queued \subseteq queued'

LEMMA TakesStep ==
    ASSUME TypeOK, NEW c \in Capps, NEW s \in Specs, CreateCapp(c, s) \/ UpdateCapp(c, s)
    PROVE  Takes(c, s.hostname)
<1>0. DOMAIN capps = Capps /\ config \in CappConfig /\ s \in CappSpec
  BY NamespaceAssumption DEF TypeOK
<1> DEFINE old == IF capps[c] = None THEN None ELSE capps[c].spec
           m == mutateResources(s, config.defaults)
<1>1. Request(c, s) /\ UNCHANGED <<config, objs>> /\ queued' = queued \cup {c}
  BY DEF CreateCapp, UpdateCapp
<1>2. m.hostname = s.hostname
  <2>1. config.defaults \in [Quantities -> Unset]
    BY <1>0 DEF CappConfig
  <2> QED
    BY <1>0, <2>1, MutateResources
<1>3. validateHostnameImmutability(old, m) /\ validateHostname(old, m, config, dns)
  BY <1>1 DEF Request, Admitted, Validates
<1>4. \E f \in BOOLEAN : StoredAs(capps'[c], s, s, f)
  <2>1. CASE CreateCapp(c, s)
    <3>1. capps'[c] = Stored(s, s, FALSE)
      BY <1>0, <2>1 DEF CreateCapp
    <3> QED
      BY <1>0, <3>1, StoredCapp
  <2>2. CASE UpdateCapp(c, s)
    <3>1. capps'[c] = Stored(s, s, capps[c].fin) /\ capps[c].fin \in BOOLEAN
      BY <1>0, <2>2, CappTypes DEF UpdateCapp, Active
    <3> QED
      BY <1>0, <3>1, StoredCapp
  <2> QED
    BY <2>1, <2>2
<1>5. \A d \in Capps \ {c} : capps'[d] = capps[d]
  BY <1>0 DEF CreateCapp, UpdateCapp
<1>6. capps[c] = None => \A o \in DOMAIN objs : c \notin objs[o].owners
  BY DEF CreateCapp, UpdateCapp, Active
<1>7. capps[c] # None /\ capps[c].spec.hostname # <<>> => s.hostname = capps[c].spec.hostname
  <2>1. capps[c] # None => capps[c].spec # None
    BY CappTypes, NoneAssumption
  <2> HIDE DEF m
  <2> QED
    BY <1>2, <1>3, <2>1 DEF validateHostnameImmutability
<1>8. ASSUME s.hostname # <<>>, capps[c] = None \/ capps[c].spec.hostname = <<>>
      PROVE  s.hostname \in config.patterns /\ s.hostname \notin dns
  <2> HIDE DEF m
  <2>1. old = None \/ m.hostname # old.hostname
    BY <1>2, <1>8
  <2>2. validateDomainName(m.hostname, config.patterns) /\ ~isDomainNameTaken(m.hostname, dns)
    BY <1>3, <2>1 DEF validateHostname
  <2> QED
    BY <1>2, <1>8, <2>2 DEF validateDomainName, isDomainNameTaken
<1>9. capps'[c] # None /\ capps'[c].spec.hostname = s.hostname
  BY <1>4 DEF StoredAs
<1> QED
  BY <1>1, <1>5, <1>6, <1>7, <1>8, <1>9 DEF Takes

LEMMA HostnameSteps ==
    ASSUME TypeOK, [Next]_vars
    PROVE  \/ \E c \in Capps : Ignores(c) \/ Finalizes(c) \/ Manages(c) \/ Deletes(c)
           \/ \E c \in Capps : \E s \in Specs : Takes(c, s.hostname)
           \/ \E o \in DOMAIN objs : Collects(o)
           \/ Stays
<1>0. DOMAIN capps = Capps
  BY DEF TypeOK
<1>1. ASSUME NEW o \in DOMAIN objs, Collect(o) PROVE Collects(o)
  BY <1>1 DEF Collect, Collects
<1>2. ASSUME NEW c \in Capps, DeleteCapp(c) PROVE Deletes(c)
  <2>1. capps[c] # None /\ capps[c] \in Capp
    BY <1>2, CappTypes DEF DeleteCapp, Active
  <2>2. capps'[c] = None \/ capps'[c] = [capps[c] EXCEPT !.deleting = TRUE]
    BY <1>0, <1>2 DEF DeleteCapp
  <2>3. capps'[c] # None => capps'[c].spec = capps[c].spec
    BY <2>1, <2>2 DEF Capp
  <2> QED
    BY <1>0, <1>2, <2>1, <2>3 DEF DeleteCapp, Deletes
<1>3. ASSUME \/ \E new \in Configs : SetConfig(new)
             \/ \E new \in Keys : SetKeys(new)
             \/ Resolve \/ UNCHANGED vars
      PROVE  Stays
  BY <1>3 DEF SetConfig, SetKeys, Resolve, vars, Stays
<1> QED
  BY <1>1, <1>2, <1>3, TakesStep, ReconcileSteps DEF Next

----------------------------------------------------------------------------
(* The record names the host                                               *)

LEMMA AdmittedStep ==
    ASSUME TypeOK, HostnamesAdmitted, [Next]_vars PROVE HostnamesAdmitted'
<1> SUFFICES ASSUME NEW c \in Capps, capps'[c] # None, capps'[c].spec.hostname # <<>>
             PROVE  \E k \in Configs : capps'[c].spec.hostname \in k.patterns
  BY DEF HostnamesAdmitted
<1>0. config \in Configs
  BY DEF TypeOK
<1>1. ASSUME capps[c] # None, capps'[c].spec.hostname = capps[c].spec.hostname
      PROVE  \E k \in Configs : capps'[c].spec.hostname \in k.patterns
  BY <1>1 DEF HostnamesAdmitted
<1>2. ASSUME NEW d \in Capps, Ignores(d) \/ Finalizes(d) \/ Manages(d) \/ Deletes(d)
      PROVE  capps[c] # None /\ capps'[c].spec.hostname = capps[c].spec.hostname
  BY <1>2 DEF Ignores, Finalizes, Manages, Deletes, Active, TypeOK
<1>3. ASSUME NEW d \in Capps, NEW s \in Specs, Takes(d, s.hostname)
      PROVE  \/ capps[c] # None /\ capps'[c].spec.hostname = capps[c].spec.hostname
             \/ capps'[c].spec.hostname \in config.patterns
  BY <1>3 DEF Takes
<1>4. ASSUME Stays \/ \E o \in DOMAIN objs : Collects(o)
      PROVE  capps[c] # None /\ capps'[c].spec.hostname = capps[c].spec.hostname
  BY <1>4 DEF Stays, Collects
<1> QED
  BY <1>0, <1>1, <1>2, <1>3, <1>4, HostnameSteps

\* What the patterns say of the hostname of a Capp.
LEMMA HostnameOf ==
    ASSUME OneZone, TypeOK, HostnamesAdmitted, NEW c \in Capps, capps[c] # None,
           capps[c].spec.hostname # <<>>
    PROVE  /\ capps[c].spec.hostname \in Seq(Char)
           /\ config.zone \in Seq(Char) /\ HasSuffix(config.zone, Dot)
           /\ AtLabels => AtLabel(capps[c].spec.hostname, config.zone)
           /\ InFull => HasSuffix(capps[c].spec.hostname, Dot \o Bare(config.zone))
<1>1. config \in Configs /\ config \in CappConfig
  BY NamespaceAssumption DEF TypeOK
<1>2. PICK k \in Configs : capps[c].spec.hostname \in k.patterns
  BY DEF HostnamesAdmitted
<1>3. k.zone = config.zone /\ HasSuffix(config.zone, Dot)
  BY <1>1 DEF OneZone
<1>4. capps[c].spec.hostname \in Seq(Char)
  BY <1>2, NamespaceAssumption, HostnamesAssumption DEF CappConfig
<1>5. config.zone \in Seq(Char)
  BY <1>1 DEF CappConfig
<1> QED
  BY <1>2, <1>3, <1>4, <1>5 DEF AtLabels, InFull

LEMMA RecordStep ==
    ASSUME OneZone, AtLabels, NameInv, [Next]_vars PROVE RecordNamesTheHost'
<1> SUFFICES ASSUME NEW o \in DOMAIN objs', o[1] = "DNSRecord"
             PROVE  objs'[o].spec \o Dot \o Bare(config'.zone) = o[2]
  BY DEF RecordNamesTheHost
<1>0. TypeOK /\ TypeOK' /\ HostnamesAdmitted'
  BY AdmittedStep, NextTypeOK DEF NameInv
<1>1. config'.zone = config.zone
  BY <1>0 DEF TypeOK, OneZone
<1>2. ASSUME o \in DOMAIN objs, objs'[o].spec = objs[o].spec
      PROVE  objs'[o].spec \o Dot \o Bare(config'.zone) = o[2]
  BY <1>1, <1>2 DEF NameInv, RecordNamesTheHost
<1>3. ASSUME NEW c \in Capps, Ignores(c) \/ Finalizes(c)
      PROVE  o \in DOMAIN objs /\ objs'[o].spec = objs[o].spec
  BY <1>3 DEF Ignores, Finalizes, deleteOwnedResources
<1>4. ASSUME NEW c \in Capps, Manages(c)
      PROVE  objs'[o].spec \o Dot \o Bare(config'.zone) = o[2]
  <2> DEFINE s == capps'[c].spec
             h == s.hostname
  <2>1. Managed(c, s, objs')
    BY <1>4 DEF Manages
  <2>2. CASE o \notin Written(c, s)
    BY <1>2, <2>1, <2>2 DEF Managed
  <2>3. CASE o \in Written(c, s)
    <3>1. h # <<>> /\ o = <<"DNSRecord", GenerateResourceName(h, config.zone)>>
      BY <2>3, WantedKinds DEF Written
    <3>2. objs'[o].spec = GenerateRecordName(h, config.zone)
      BY <2>1, <2>3, <3>1 DEF Managed, prepareResource
    <3>3. /\ h \in Seq(Char) /\ config.zone \in Seq(Char) /\ HasSuffix(config.zone, Dot)
          /\ AtLabel(h, config.zone)
      <4>1. capps[c] # None /\ capps[c].spec.hostname = h
        BY <1>4 DEF Manages, Active
      <4> HIDE DEF h, s
      <4> QED
        BY <3>1, <4>1, HostnameOf DEF NameInv
    <3> HIDE DEF h, s
    <3>4. objs'[o].spec \o Dot \o Bare(config.zone) = GenerateResourceName(h, config.zone)
      BY <3>2, <3>3, RecordAndResource
    <3> QED
      BY <1>1, <3>1, <3>4
  <2> QED
    BY <2>2, <2>3
<1>5. ASSUME NEW p \in DOMAIN objs, Collects(p)
      PROVE  o \in DOMAIN objs /\ objs'[o].spec = objs[o].spec
  <2>1. DOMAIN objs[p] = {"label", "owners", "spec"}
    BY <1>0 DEF TypeOK
  <2>2. CASE Gone(p) = objs[p].owners
    BY <1>5, <2>2 DEF Collects
  <2>3. CASE Gone(p) # objs[p].owners
    <3>1. objs' = [objs EXCEPT ![p].owners = @ \ Gone(p)]
      BY <1>5, <2>3 DEF Collects
    <3>2. objs'[p] = [objs[p] EXCEPT !.owners = @ \ Gone(p)]
      BY <3>1
    <3>3. objs'[p].spec = objs[p].spec
      BY <2>1, <3>2
    <3> QED
      BY <3>1, <3>3
  <2> QED
    BY <2>2, <2>3
<1>6. Quiet => o \in DOMAIN objs /\ objs'[o].spec = objs[o].spec
  BY DEF Quiet
<1> QED
  BY <1>0, <1>2, <1>3, <1>4, <1>5, <1>6, Steps

LEMMA NameInvariant ==
    ASSUME OneZone, AtLabels
    PROVE  (Init => NameInv) /\ (NameInv /\ [Next]_vars => NameInv')
<1>1. Init => NameInv
  <2> SUFFICES ASSUME Init PROVE HostnamesAdmitted /\ RecordNamesTheHost
    BY InitTypeOK DEF NameInv
  <2>1. DOMAIN objs = {}
    BY DEF Init
  <2> QED
    BY <2>1 DEF Init, HostnamesAdmitted, RecordNamesTheHost
<1>2. NameInv /\ [Next]_vars => NameInv'
  BY NextTypeOK, AdmittedStep, RecordStep DEF NameInv
<1> QED
  BY <1>1, <1>2

\* If the zone stays and the patterns admit no hostname in which the zone begins
\* inside a label, the record in the zone is always the name that the DomainMapping
\* of the same hostname answers to.
THEOREM RecordsNameTheirHosts ==
    ASSUME OneZone, AtLabels PROVE Spec => []RecordNamesTheHost
<1>1. NameInv => RecordNamesTheHost
  BY DEF NameInv
<1> QED
  BY <1>1, NameInvariant, PTL DEF Spec

----------------------------------------------------------------------------
(* A hostname that is held stays                                           *)

\* The records are those of hostnames written in full.
LEMMA FullHostnames ==
    ASSUME OneZone, InFull, NameInv, NEW c \in Capps, capps[c] # None,
           capps[c].spec.hostname # <<>>
    PROVE  /\ GenerateResourceName(capps[c].spec.hostname, config.zone) = capps[c].spec.hostname
           /\ GenerateRecordName(capps[c].spec.hostname, config.zone) # None
<1> DEFINE h == capps[c].spec.hostname
<1>1. /\ h \in Seq(Char) /\ config.zone \in Seq(Char) /\ HasSuffix(config.zone, Dot)
      /\ HasSuffix(h, Dot \o Bare(config.zone))
  BY HostnameOf DEF NameInv
<1> HIDE DEF h
<1>2. AtLabel(h, config.zone) /\ GenerateResourceName(h, config.zone) = h
  BY <1>1, FullName
<1>3. GenerateRecordName(h, config.zone) \in Seq(Char)
  BY <1>1, <1>2, RecordAndResource
<1> QED
  BY <1>2, <1>3, NameAssumption DEF h

LEMMA FullAtLabels == OneZone /\ InFull => AtLabels
<1> SUFFICES ASSUME OneZone, InFull, NEW k \in Configs, NEW h \in k.patterns
             PROVE  AtLabel(h, k.zone)
  BY DEF AtLabels
<1>1. k \in CappConfig
  BY NamespaceAssumption
<1>2. h \in Seq(Char) /\ k.zone \in Seq(Char)
  BY <1>1, HostnamesAssumption DEF CappConfig
<1>3. HasSuffix(k.zone, Dot) /\ HasSuffix(h, Dot \o Bare(k.zone))
  BY DEF OneZone, InFull
<1> QED
  BY <1>2, <1>3, FullName

\* A record that is there makes its name resolve.
LEMMA RecordPublished ==
    ASSUME NameInv, NEW h, <<"DNSRecord", h>> \in DOMAIN objs
    PROVE  h \in Published
<1> DEFINE o == <<"DNSRecord", h>>
<1>1. objs[o].spec \o Dot \o Bare(config.zone) = o[2]
  BY DEF NameInv, RecordNamesTheHost
<1>2. o \in {p \in DOMAIN objs : p[1] = "DNSRecord"} /\ o[2] = h
  OBVIOUS
<1> QED
  BY <1>1, <1>2 DEF Published

\* What Holds says of a hostname that is written in full.
LEMMA HeldInFull ==
    ASSUME OneZone, InFull, NameInv, NEW c \in Capps, capps[c] # None
    PROVE  Holds(c) <=>
              /\ Active(c) /\ capps[c].spec.hostname # <<>> /\ capps[c].spec.hostname \in dns
              /\ RecordOf(c) \in DOMAIN objs /\ objs[RecordOf(c)].label = c
              /\ c \in objs[RecordOf(c)].owners
<1>1. capps[c].spec.hostname # <<>> =>
        GenerateResourceName(capps[c].spec.hostname, config.zone) = capps[c].spec.hostname
  BY FullHostnames
<1> QED
  BY <1>1 DEF Holds, RecordOf

LEMMA SharedInFull ==
    ASSUME OneZone, InFull, NameInv, NEW c \in Capps, NEW d \in Capps
    PROVE  SharedHostname(c, d) <=>
              /\ c # d /\ capps[c] # None /\ capps[d] # None
              /\ capps[c].spec.hostname # <<>>
              /\ capps[c].spec.hostname = capps[d].spec.hostname
<1>1. \A e \in Capps : capps[e] # None /\ capps[e].spec.hostname # <<>> =>
        GenerateResourceName(capps[e].spec.hostname, config.zone) = capps[e].spec.hostname
  BY FullHostnames
<1> QED
  BY <1>1 DEF SharedHostname

\* A record with the label and the reference of an active Capp that names it
\* keeps both.
LEMMA RecordKept ==
    ASSUME OneZone, InFull, NameInv, [Next]_vars, NEW c \in Capps, Active(c),
           capps[c].spec.hostname # <<>>, RecordOf(c) \in DOMAIN objs,
           objs[RecordOf(c)].label = c, c \in objs[RecordOf(c)].owners
    PROVE  /\ RecordOf(c) \in DOMAIN objs' /\ objs'[RecordOf(c)].label = c
           /\ c \in objs'[RecordOf(c)].owners
<1> DEFINE o == RecordOf(c)
<1>0. TypeOK
  BY DEF NameInv
<1>1. ASSUME o \in DOMAIN objs', objs'[o] = objs[o]
      PROVE  o \in DOMAIN objs' /\ objs'[o].label = c /\ c \in objs'[o].owners
  BY <1>1
<1>2. ASSUME NEW d \in Capps, Finalizes(d)
      PROVE  o \in DOMAIN objs' /\ objs'[o] = objs[o]
  <2>1. d # c
    BY <1>2 DEF Finalizes, Active
  <2> QED
    BY <1>0, <1>2, <2>1, ObjectKept
<1>3. ASSUME NEW d \in Capps, Manages(d)
      PROVE  o \in DOMAIN objs' /\ objs'[o].label = c /\ c \in objs'[o].owners
  <2> DEFINE s == capps'[d].spec
  <2>1. Managed(d, s, objs') /\ s.hostname = capps[d].spec.hostname
    BY <1>3 DEF Manages
  <2>2. d = c => o \in Wanted(d, s)
    <3> SUFFICES ASSUME d = c PROVE o \in Wanted(c, s)
      OBVIOUS
    <3>1. GenerateResourceName(capps[c].spec.hostname, config.zone) = capps[c].spec.hostname
      BY FullHostnames DEF Active
    <3>2. s.hostname = capps[c].spec.hostname
      BY <2>1
    <3> HIDE DEF s
    <3> QED
      BY <3>1, <3>2, WantedKinds DEF RecordOf
  <2> HIDE DEF s
  <2>3. o \notin Dropped(d, s)
    BY <2>2 DEF Dropped, listManagedResources
  <2>4. CASE o \in Written(d, s)
    BY <2>1, <2>4 DEF Managed
  <2>5. CASE o \notin Written(d, s)
    BY <1>1, <2>1, <2>3, <2>5 DEF Managed
  <2> QED
    BY <2>4, <2>5
<1>4. ASSUME NEW p \in DOMAIN objs, Collects(p)
      PROVE  o \in DOMAIN objs' /\ objs'[o].label = c /\ c \in objs'[o].owners
  <2>1. CASE p # o
    BY <1>1, <1>4, <2>1 DEF Collects
  <2>2. CASE p = o
    <3>1. c \notin Gone(o)
      BY DEF Gone, Active
    <3>2. objs' = [objs EXCEPT ![o].owners = @ \ Gone(o)]
      BY <1>4, <2>2, <3>1 DEF Collects
    <3>3. DOMAIN objs[o] = {"label", "owners", "spec"}
      BY <1>0 DEF TypeOK
    <3> HIDE DEF o
    <3>4. o \in DOMAIN objs' /\ objs'[o] = [objs[o] EXCEPT !.owners = @ \ Gone(o)]
      BY <3>2 DEF o
    <3>5. objs'[o].label = objs[o].label /\ objs'[o].owners = objs[o].owners \ Gone(o)
      BY <3>3, <3>4
    <3> QED
      BY <3>1, <3>4, <3>5 DEF o
  <2> QED
    BY <2>1, <2>2
<1>5. ASSUME UNCHANGED objs PROVE o \in DOMAIN objs' /\ objs'[o] = objs[o]
  BY <1>5
<1>6. ASSUME NEW d \in Capps, Ignores(d) \/ Deletes(d) PROVE UNCHANGED objs
  BY <1>6 DEF Ignores, Deletes
<1>7. ASSUME NEW d \in Capps, NEW s \in Specs, Takes(d, s.hostname) PROVE UNCHANGED objs
  BY <1>7 DEF Takes
<1>8. Stays => UNCHANGED objs
  BY DEF Stays
<1> QED
  BY <1>0, <1>1, <1>2, <1>3, <1>4, <1>5, <1>6, <1>7, <1>8, HostnameSteps

\* A step leaves the hostname of a Capp as it is, or a request gives the Capp a
\* hostname that does not resolve.
LEMMA HostnameChanges ==
    ASSUME TypeOK, [Next]_vars, NEW c \in Capps, capps'[c] # None,
           capps'[c].spec.hostname # <<>>
    PROVE  \/ capps[c] # None /\ capps'[c].spec.hostname = capps[c].spec.hostname
           \/ capps'[c].spec.hostname \notin dns
<1>1. ASSUME NEW d \in Capps, Ignores(d) \/ Finalizes(d) \/ Manages(d) \/ Deletes(d)
      PROVE  capps[c] # None /\ capps'[c].spec.hostname = capps[c].spec.hostname
  BY <1>1 DEF Ignores, Finalizes, Manages, Deletes, Active, TypeOK
<1>2. ASSUME NEW d \in Capps, NEW s \in Specs, Takes(d, s.hostname)
      PROVE  \/ capps[c] # None /\ capps'[c].spec.hostname = capps[c].spec.hostname
             \/ capps'[c].spec.hostname \notin dns
  BY <1>2 DEF Takes
<1>3. ASSUME Stays \/ \E o \in DOMAIN objs : Collects(o)
      PROVE  capps[c] # None /\ capps'[c].spec.hostname = capps[c].spec.hostname
  BY <1>3 DEF Stays, Collects
<1> QED
  BY <1>1, <1>2, <1>3, HostnameSteps

\* A Capp that had a hostname keeps it.
LEMMA HostnameKept ==
    ASSUME TypeOK, [Next]_vars, NEW c \in Capps, Active(c), capps'[c] # None,
           capps[c].spec.hostname # <<>>
    PROVE  capps'[c].spec.hostname = capps[c].spec.hostname
<1>1. ASSUME NEW d \in Capps, Ignores(d) \/ Finalizes(d) \/ Manages(d) \/ Deletes(d)
      PROVE  capps'[c].spec.hostname = capps[c].spec.hostname
  BY <1>1 DEF Ignores, Finalizes, Manages, Deletes, Active, TypeOK
<1>2. ASSUME NEW d \in Capps, NEW s \in Specs, Takes(d, s.hostname)
      PROVE  capps'[c].spec.hostname = capps[c].spec.hostname
  BY <1>2 DEF Takes, Active
<1>3. ASSUME Stays \/ \E o \in DOMAIN objs : Collects(o)
      PROVE  capps'[c].spec.hostname = capps[c].spec.hostname
  BY <1>3 DEF Stays, Collects
<1> QED
  BY <1>1, <1>2, <1>3, HostnameSteps

LEMMA NamesThatResolve ==
    ASSUME [Next]_vars PROVE dns' = dns \/ dns' = Published
  BY DEF Next, CreateCapp, UpdateCapp, DeleteCapp, SetConfig, SetKeys, Reconcile,
         Collect, Resolve, vars

LEMMA HeldStep ==
    ASSUME OneZone, InFull, NameInv, NameInv', [Next]_vars, NEW c \in Capps, Holds(c)
    PROVE  /\ \A d \in Capps : SharedHostname(c, d)' => SharedHostname(c, d)
           /\ Active(c)' => Holds(c)'
<1> DEFINE h == capps[c].spec.hostname
<1>0. /\ TypeOK /\ Active(c) /\ capps[c] # None /\ h # <<>> /\ h \in dns
      /\ RecordOf(c) \in DOMAIN objs /\ objs[RecordOf(c)].label = c
      /\ c \in objs[RecordOf(c)].owners
  <2>1. capps[c] # None
    BY DEF Holds, Active
  <2> QED
    BY <2>1, HeldInFull DEF NameInv
<1>1. capps'[c] # None => capps'[c].spec.hostname = h
  BY <1>0, HostnameKept
<1>2. ASSUME NEW d \in Capps, SharedHostname(c, d)' PROVE SharedHostname(c, d)
  <2>1. /\ c # d /\ capps'[c] # None /\ capps'[d] # None
        /\ capps'[c].spec.hostname # <<>>
        /\ capps'[c].spec.hostname = capps'[d].spec.hostname
    <3>1. (OneZone /\ InFull /\ NameInv /\ SharedHostname(c, d) =>
             /\ c # d /\ capps[c] # None /\ capps[d] # None
             /\ capps[c].spec.hostname # <<>>
             /\ capps[c].spec.hostname = capps[d].spec.hostname)'
      BY SharedInFull, PTL
    <3>2. OneZone' /\ InFull'
      BY DEF OneZone, InFull
    <3> QED
      BY <1>2, <3>1, <3>2
  <2>2. capps'[d].spec.hostname = h
    BY <1>1, <2>1
  <2>3. capps[d] # None /\ capps[d].spec.hostname = h
    BY <1>0, <2>1, <2>2, HostnameChanges
  <2> QED
    BY <1>0, <2>1, <2>3, SharedInFull
<1>3. ASSUME Active(c)' PROVE Holds(c)'
  <2>1. capps'[c] # None /\ capps'[c].spec.hostname = h /\ RecordOf(c)' = RecordOf(c)
    BY <1>1, <1>3 DEF Active, RecordOf
  <2>2. /\ RecordOf(c) \in DOMAIN objs' /\ objs'[RecordOf(c)].label = c
        /\ c \in objs'[RecordOf(c)].owners
    BY <1>0, RecordKept
  <2>3. h \in Published
    BY <1>0, RecordPublished DEF RecordOf
  <2>4. h \in dns'
    BY <1>0, <2>3, NamesThatResolve
  <2>5. (OneZone /\ InFull /\ NameInv /\ capps[c] # None =>
           (Holds(c) <=>
              /\ Active(c) /\ capps[c].spec.hostname # <<>> /\ capps[c].spec.hostname \in dns
              /\ RecordOf(c) \in DOMAIN objs /\ objs[RecordOf(c)].label = c
              /\ c \in objs[RecordOf(c)].owners))'
    BY HeldInFull, PTL
  <2>6. OneZone' /\ InFull'
    BY DEF OneZone, InFull
  <2> QED
    BY <1>0, <1>3, <2>1, <2>2, <2>4, <2>5, <2>6
<1> QED
  BY <1>2, <1>3

\* If the zone stays and the patterns admit only hostnames that are written in
\* full, a hostname that resolves for the Capp with its record is not given to any
\* further Capp and is kept until that Capp is deleted, however many Capps got it
\* before the DNS knew of it.
THEOREM HeldHostnames ==
    ASSUME OneZone, InFull PROVE Spec => HeldHostnamesStay
<1> DEFINE Stay ==
             \A c \in Capps : Holds(c) =>
                /\ \A d \in Capps : SharedHostname(c, d)' => SharedHostname(c, d)
                /\ Active(c)' => Holds(c)'
<1>1. AtLabels
  BY FullAtLabels
<1>2. NameInv /\ NameInv' /\ [Next]_vars => [Stay]_vars
  <2> SUFFICES ASSUME NameInv, NameInv', [Next]_vars PROVE Stay
    OBVIOUS
  <2> QED
    BY HeldStep
<1>3. (Init => NameInv) /\ (NameInv /\ [Next]_vars => NameInv')
  BY <1>1, NameInvariant
<1> QED
  BY <1>2, <1>3, PTL DEF Spec, HeldHostnamesStay
=============================================================================
