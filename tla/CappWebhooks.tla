---------------------------- MODULE CappWebhooks ----------------------------
(***************************************************************************)
(* The admission webhooks of Capps: the defaults the mutator fills in and  *)
(* the requests the validator lets pass; and the autoscaling annotations   *)
(* the Knative Service gets from what was let pass.                        *)
(*                                                                         *)
(* Every check that fails denies the request, so the validator is the      *)
(* conjunction of its checks.                                              *)
(***************************************************************************)
EXTENDS ResourceNames

CONSTANTS
    Hostnames,   \* hostnames Capps ask for
    Secrets,     \* names of Secrets
    Volumes,     \* names of NFS volumes
    Sources,     \* names of event sources
    Metrics,     \* "cpu", "memory", "rps", "concurrency"
    Quantities,  \* requests and limits, of cpu and memory, of each container
    Amounts      \* replicas, seconds, consumers, amounts of a resource

ASSUME AmountsAssumption == Amounts \subseteq Nat /\ None \notin Amounts
ASSUME HostnamesAssumption == Hostnames \subseteq Seq(Char)

Unset == Amounts \cup {None}

EventSource ==
    [name : Sources, kind : {"ping", "kafka"}, wellFormed : BOOLEAN,
     secret : Secrets, consumers : Unset]

ScaleSpec == [metric : Metrics \cup {None}, min : Unset, max : Unset, delay : Unset]

\* mounts: the volumes some container mounts; autoscaling: the template carries an
\* annotation of autoscaling.knative.dev; annotations: those the Capp itself carries.
CappSpec ==
    [hostname : Hostnames \cup {<<>>}, logSecret : Secrets \cup {None},
     volumes : SUBSET Volumes, mounts : SUBSET Volumes, sources : Seq(EventSource),
     autoscaling : BOOLEAN, annotations : UNION {[K -> Amounts] : K \in SUBSET {"min", "max"}},
     scale : ScaleSpec, resources : [Quantities -> Unset]]

AutoscaleConfig ==
    [targets : [Metrics -> Amounts], activation : Amounts, minLimit : Amounts,
     maxLimit : Amounts, maxDelay : Amounts]

\* patterns: the hostnames that match an allowed pattern.
CappConfig ==
    [zone : Seq(Char), patterns : SUBSET Hostnames, defaults : [Quantities -> Unset],
     autoscale : AutoscaleConfig, maxConsumers : Amounts]

----------------------------------------------------------------------------
(* CappMutator                                                             *)

\* Mutant: the default wins.
setResourceQuantity_Overrides(amount, default) ==
    IF default = None THEN amount ELSE default

setResourceQuantity(amount, default) == IF amount = None THEN default ELSE amount

mutateResources(capp, defaults) ==
    [capp EXCEPT !.resources =
        [q \in Quantities |-> setResourceQuantity(@[q], defaults[q])]]

----------------------------------------------------------------------------
(* CappValidator.  old is None when a Capp is created; keys holds which    *)
(* Secrets have the keys that logging and Kafka need; dns the names that   *)
(* resolve.                                                                *)

validateHostnameImmutability(old, capp) ==
    old # None /\ old.hostname # <<>> => capp.hostname = old.hostname

\* Names below the cluster's own domain are left out of Hostnames.
validateDomainName(hostname, patterns) ==
    hostname = <<>> \/ (IsFullyQualifiedDomainName(hostname) /\ hostname \in patterns)

isDomainNameTaken(hostname, dns) == hostname \in dns

\* Mutant: a hostname that is added to a Capp later is not looked up.
validateHostname_OnCreate(old, capp, config, dns) ==
    old = None \/ capp.hostname # old.hostname =>
        /\ validateDomainName(capp.hostname, config.patterns)
        /\ old = None => ~isDomainNameTaken(capp.hostname, dns)

\* An error of the resolver other than NotFound denies the request as well.
validateHostname(old, capp, config, dns) ==
    old = None \/ capp.hostname # old.hostname =>
        /\ validateDomainName(capp.hostname, config.patterns)
        /\ ~isDomainNameTaken(capp.hostname, dns)

validateSecretHasKeys(secret, purpose, keys) == <<secret, purpose>> \in keys

validateNFSVolumeMounts(capp) == capp.volumes \subseteq capp.mounts

validateKafkaSourceConsumers(source, maxConsumers) ==
    source.consumers # None => source.consumers <= maxConsumers

\* Its schedule and its data are well formed.
validatePingSourceConfiguration(source) == source.wellFormed

validateEventSources(capp, maxConsumers, keys) ==
    /\ \A i, j \in DOMAIN capp.sources :
          i # j => capp.sources[i].name # capp.sources[j].name
    /\ \A i \in DOMAIN capp.sources :
          LET source == capp.sources[i]
          IN  IF source.kind = "ping" THEN validatePingSourceConfiguration(source)
              ELSE /\ validateSecretHasKeys(source.secret, "kafka", keys)
                   /\ validateKafkaSourceConsumers(source, maxConsumers)

validateTemplateAnnotations(capp) == ~capp.autoscaling

\* Mutant: the activation scale is not compared with maxReplicas.
validateScaleSpec_NoActivation(capp, autoscale) ==
    LET scale == capp.scale
    IN  /\ scale.min # None => scale.min <= autoscale.minLimit
        /\ scale.max # None =>
              /\ scale.max <= autoscale.maxLimit
              /\ scale.min # None => scale.max >= scale.min
        /\ scale.delay # None => scale.delay <= autoscale.maxDelay

validateScaleSpec(capp, autoscale) ==
    LET scale == capp.scale
    IN  /\ scale.min # None => scale.min <= autoscale.minLimit
        /\ scale.max # None =>
              /\ scale.max <= autoscale.maxLimit
              /\ scale.max >= (IF scale.min # None THEN scale.min
                                                   ELSE autoscale.activation)
        /\ scale.delay # None => scale.delay <= autoscale.maxDelay

\* CappValidator.handle
Validates(old, capp, config, keys, dns) ==
    /\ config # None
    /\ validateHostnameImmutability(old, capp)
    /\ validateHostname(old, capp, config, dns)
    /\ capp.logSecret # None => validateSecretHasKeys(capp.logSecret, "elastic", keys)
    /\ validateNFSVolumeMounts(capp)
    /\ validateEventSources(capp, config.maxConsumers, keys)
    /\ validateTemplateAnnotations(capp)
    /\ validateScaleSpec(capp, config.autoscale)

----------------------------------------------------------------------------
(* KnativeServiceManager                                                   *)

\* The autoscaling annotations that follow from the Capp and the CappConfig.
setAutoScaler(capp, autoscale) ==
    LET scale == capp.scale
        all == [class |-> IF scale.metric \in {"rps", "concurrency"} THEN "kpa" ELSE "hpa",
                metric |-> scale.metric, target |-> autoscale.targets[scale.metric],
                delay |-> scale.delay, min |-> scale.min,
                activation |-> IF scale.min = None THEN autoscale.activation ELSE None,
                max |-> scale.max]
    IN  IF scale.metric = None THEN <<>>
        ELSE [k \in {f \in DOMAIN all : all[f] # None} |-> all[k]]

\* The entries of m2 win.
MergeMaps(m1, m2) ==
    [k \in DOMAIN m1 \cup DOMAIN m2 |-> IF k \in DOMAIN m2 THEN m2[k] ELSE m1[k]]
=============================================================================
