# Verification of container-app-operator

TLA+ specifications of the operator that turns a `Capp` (a container app) into
Knative, networking, storage, logging and eventing objects and keeps a history
of its changes. TLC checks them on small instances; TLAPS proves every safety
property and both refinements for every value of the constants.

## The system

| Part | Source (under `src/`) | State | Operations |
|---|---|---|---|
| Capp controller | `internal/kinds/capp/controllers/` | work queue, informer caches, the Capp's finalizer and status | `Reconcile`, `SyncApplication`, `ensureFinalizer`, `finalizeCapp`, `removeFinalizer`, watches with predicates |
| Resource managers | `internal/kinds/capp/resourcemanagers/` | none of their own; the children in the API server | `IsRequired`, `prepareResource`, `Manage`, `createOrUpdate`, `CleanUp`, `cleanUpOrphans`, for nine kinds |
| Resource client | `internal/kinds/capp/resourceclient/` | none | create, update, delete |
| Capp status | `internal/kinds/capp/status/` | `Capp.status` | `SyncStatus`, the builders per kind, `computeReadyCondition` |
| CappRevision controller | `internal/kinds/capprevision/` | the CappRevisions of a Capp | `Reconcile`, `HandleCappCreation`, `HandleCappUpdate` |
| Admission webhooks | `internal/webhook/rcs/v1alpha1/` | none | mutation and validation of Capps |
| API types, metadata, `cmd/main.go` | `api/`, `internal/kinds/capp/cappmeta/`, `cmd/` | | types, labels, process set-up |

The two controllers run in one process and never call each other. They meet in
the API server: the Capp controller's update that adds the finalizer is an event
for the revision controller, and both react to users who create, change, delete
and re-create a Capp. Each reads through informer caches that lag the API server
by any number of events and writes to the API server directly. The work queue
holds a key at most once and runs one `Reconcile` per key at a time. Around them
work the garbage collector (owner references), cert-manager (TLS Secrets), the
controllers of the children (their health), an administrator who edits the
single CappConfig, and other clients that edit or delete children.

What is hard in this code, and is what the properties are about:

- every read may be stale, by a different amount per kind of object;
- a predicate that filters out an event means nobody ever looks again;
- any API call may fail, or take effect and lose its answer, and the operator
  may restart, between any two calls of a `Reconcile`;
- a Capp may be deleted and created again under its old name while a
  `Reconcile` works on the old one;
- deletion relies partly on the finalizer and partly on the garbage collector;
- retention of revisions works from a stale, unordered, truncated list;
- what the webhooks check (CappConfig, Secrets, DNS) may have changed when the
  controller uses it, and the operator's own updates are checked again;
- generated names of different Capps can meet in one object, which then has one
  Capp's label and both Capps' owner references.

What makes each part correct: the Capp controller brings the children to what
the Capp calls for, never touches what users wrote, and leaves nothing behind;
the status ends up that of the children; the history records every settled
state once, in order, and keeps the latest one; the webhooks give no hostname
away that a Capp holds, leave what users wrote alone, and let pass only what fits together; and
Capps of one namespace do not get in each other's way.

## Modules

| Module | Models |
|---|---|
| `ResourceManagers` | The nine managers as operators: what is required, which objects with which content, which are deleted, when an object is updated, which events enqueue the Capp. |
| `CappStatus` | The status builders and `computeReadyCondition`. |
| `CappController` | One Capp's `Reconcile`, step by step, with informers, users, administrator, other clients, cert-manager, garbage collector, failures and restarts. Extends the two above. |
| `MCCappController` | The specifications and configurations of the instances TLC runs. |
| `CappControllerProofs` | Theorems about `CappController`. |
| `CappRevisions` | The revision controller with the same surroundings. |
| `CappRevisionsProofs` | Theorems about `CappRevisions`. |
| `CappLifecycle` | Abstract: the lives of one Capp and who owns its children. `CappController` implements it (`ImplementsLifecycle`). |
| `CappLifecycleProofs` | The proof of that refinement; extends `CappControllerProofs`. |
| `RevisionHistory` | Abstract: a log of changes with retention. `CappRevisions` implements it (`ImplementsHistory`). |
| `RevisionHistoryProofs` | The proof of that refinement; extends `CappRevisionsProofs`. |
| `ResourceNames` | The naming functions, on sequences of characters. |
| `CappWebhooks` | Every check of the validator, the defaults of the mutator, and the autoscaling annotations of the Knative Service. Extends `ResourceNames`. |
| `CappNamespace` | Several Capps of one namespace, their requests, children, garbage collector and DNS. Extends `CappWebhooks`. |
| `MCCappNamespace` | Its instances. |
| `CappNamespaceProofs` | Theorems about `CappNamespace`. |
| `CappHostnameProofs` | Lemmas about the naming functions and the theorems about hostnames; extends `CappNamespaceProofs`. |

**Caches.** An object is a sequence of versions, `cappLog`, `cfgLog`,
`objLog[o]`, `revLog`. The last version is the API server's, the first is the
informer's; a `Deliver...` action drops the first, and puts the key into the
queue if the predicates let the event through. Every kind (every child) has its
own log, so events of different objects arrive in any order. A write through a
cached object carries its resourceVersion: it is accepted exactly when the log
has one version (`Len(log) = 1`) and otherwise refused with a conflict.

**Reconcile.** `pc`, `snap`, `config`, `todo` and `errs` are the local state of
the running worker. Everything up to the first write is one step, and each later
API call is one step: `Reconcile` (with `ensureFinalizer`), `Manage(o)` or
`finalizeCapp(o)` for one child, `SyncStatus`, `removeFinalizer`. Managers run in
the order of `Rank`, backward for a finalized Capp. A manager's failure is noted and the next
manager runs (`Failed`); a failed `CleanUp` of a finalized Capp ends `Reconcile`.
`fresh` says that nobody has written the Capp since `snap`, which is what
`removeFinalizer`'s resourceVersion decides on.

**Data.** The content of a child is the tuple of inputs it is derived from
(`Content`): `data` stands for everything of a Capp that is copied through,
`settings` for the CappConfig likewise, `edited` for a change by somebody else.
Health is what a status reports: nothing, pending (Knative only), false or true.
`uid` of a child is its owner reference. Names are model values: a volume, an
event source, a zone (`GenerateResourceName` of the immutable hostname), or
the Capp's own name.

**Revisions.** A revision has a number (its name), the owner's uid, the recorded
data, the `last-updated-by` annotation and a timestamp. `sortByCreationTime`
may put equal timestamps in any order (`Newest`, `Split`); a list longer than
`ClientListLimit` is cut off anywhere (`GetCappRevisions`). `num = 0` after the
deletions is the index-out-of-range of `relevantRevision[0]`, which the controller
runtime turns into a retry. `DeliverRevisions` queues nothing: revisions are not watched.

**Failures.** A failed call either had no effect or took effect and lost its
answer (`Call`, `Answered`, `CallFails`). `Restart` forgets the worker, lists the caches
anew and queues the Capp. `MaxFaults` bounds both together.

**Namespaces.** `CappNamespace` composes the webhooks with the controller for
Capps whose objects meet. Where `CappController` takes one `Reconcile` of one Capp
apart, here a whole `Reconcile` is one step, with current caches and calls that
succeed, and the objects are the ones whose names matter: Knative Service,
NfsPvc, DomainMapping, CNAMERecord (a Certificate is named like a DomainMapping),
PingSource and KafkaSource. An object has a `label` (`ManagedResourceLabels` of
the Capp that created it: `createOrUpdate` sets it only on creation), `owners`
(`SetOwnerReference` adds one) and a `spec`: the autoscaling annotations, the
record's name, or whose server or sink it is. `Dropped` and
`deleteOwnedResources` go by label, the garbage collector by owners. Every request
(`Admitted`, `Stored`) passes mutator and validator with the CappConfig, the
Secrets (`keys`) and the DNS of that moment, the operator's own `ensureFinalizer`
among them; `asked` and `under` remember what the user wrote and the CappConfig
of admission. The DNS follows the CNAMERecords at any time later (`Resolve`), and
requests come at any time, so two Capps may be admitted with a hostname that neither
has published yet. Regular expressions, schedules and
data are facts about the input (`patterns`, `wellFormed`).

**Abstractions.** `CappLifecycle` sees of the controller only the Capp's life
(`Life`: none, free, held by the finalizer, deleting), the latest uid and each
child's owner (`Owner`). It allows a child to be taken only by a life that is held
or being deleted, and a life to be released only when no child is without owner.
`RevisionHistory` sees the revisions by number and data, and whether there is a
Capp: a record has the next number, differs from the latest and fits a limit; only
an old one is forgotten, and only when a limit is reached.

## Runs

`CHECK_DEADLOCK FALSE` everywhere: once users have used up `MaxMoves` and the
controller has settled, the system rests.

Passing:

| Run | Instance | Shows |
|---|---|---|
| `lifecycle` | Knative Service and PingSource, which other clients edit and delete; two lives, 4 moves, 1 fault | `NoChildForTheDead`: a child is only created for, or adopted by, the Capp that exists. `SpecIsTheUsers`: writing back a cached Capp never undoes an edit. `ChildrenConverge`, `CleanedUp`. `ImplementsLifecycle`. |
| `sources` | KafkaSources added, renamed, changed, reporting; 4 moves, 1 fault, `Prompt` | `GroupStable`: a consumer group never changes. `ChildrenConverge`: renamed sources go. `ReadyIsCurrent`. |
| `route` | Certificate, DomainMapping, TLS Secret, new or `Legacy`; 2 moves, 1 fault, `Prompt` | `NoOrphanOutlivesCapp`: children without owner reference do not outlive the Capp. `CleanedUp` although a Secret that is gone is an error. `ReadyIsCurrent`. `ImplementsLifecycle` from the legacy state too. |
| `config` | CNAMERecord in two zones and a SyslogNGOutput that admission always refuses, with Capps that ask for it and Capps that do not (the endless retries of the first would hide lost events); CappConfig absent at times; 4 moves, 1 fault | `ChildrenConverge` for every kind but the refused one: one manager's failure does not keep the rest back, and every change of the CappConfig gets through. `CleanedUp` (a deleted Capp stays only while there is no CappConfig), `TypeOK` (a worker past its reads has both objects). |
| `revisions` | 3 values, limit 2, 4 moves, 1 fault | `AdjacentRevisionsDiffer`, `RetentionBound`, `NumbersGrow`, `LatestSurvives`, `EventuallyRecorded`, `ImplementsHistory`, `TypeOK`. |
| `lives` | two lives, limits 1 and 2 in turn, ties, reverts, truncated lists; 3 moves, 1 fault | `OnlyOwnRevisions`: no revision of a dead Capp stays, even one created after the Capp was gone. |
| `namespace` | Capps `a` and `a-b` with sources `b-c` and `c`, one volume, hostnames of which the patterns admit those written in full, `a.z.z` and `a.a.z.z`, two CappConfigs, a Secret that loses a key; 4 moves | `HeldHostnamesStay`: two Capps may get one hostname while the DNS does not know it, but once it resolves for the Capp whose label the record has, no other Capp gets it, and neither the deletion nor the clean-up of one that shares it takes record or name away. `RecordNamesTheHost`: the CNAMERecord names the host of the DomainMapping. `ScaleFits`: what was admitted fits what the Knative Service gets. `UsersQuantitiesStay`: the defaults never replace anything, also on the operator's own update. `OthersKeepTheirs`: deleting a Capp takes no object from the other. `SettlesUnlessDenied`: Capps that write the same object come to rest, and every Capp gets its finalizer unless the webhooks deny it. `TypeOK`. |

Violated, each recorded under `findings` in `PROJECT.json`:

| Run | Property | What happens |
|---|---|---|
| `status` | `ReadyIsCurrent` | Without `Prompt`: `SyncStatus` compares with a cached status that has been replaced, skips the write, and the late event is a status update, which the predicates drop. |
| `volumes` | `ChildrenConverge` | A volume is taken out and put back while the deleted NfsPvc is still cached. NfsPvcs are not watched, so nothing creates it again. |
| `tls` | `TLSComesOn` | The Secret reaches its (unwatched) cache after the last `Reconcile` that the Certificate triggers: the DomainMapping stays without TLS. |
| `limit1` | `LatestSurvives` | With `revisionHistoryLimit: 1` the only revision is deleted and `relevantRevision[0]` panics. |
| `hostname` | `HeldHostnamesStay` | The patterns also admit `a.a`, without the zone. `isDomainNameTaken` looks up `a.a`, but what is published is `a.a.z.z`: a second Capp gets a hostname that already resolves for the first. |

The passing runs exclude these cases by their constants: `Prompt = TRUE`, no
NfsPvcs among `Kinds`, limits from 2, hostnames in full. In `CappController` `Prompt` says that the
cache of the *Capp* is current when `Reconcile` starts; it may fall behind during
`Reconcile`, and the caches of the children lag freely.

### Further behaviour seen with other constants

These are limits of what the passing runs claim and have no run of their own.
Those that name a property are shown by the same modules under the constants
given; the others can be read off the definitions.

- `ReadyIsCurrent` fails for a Knative Service whose Ready condition changes
  without a new revision (`Reporting = {"KnativeService"}`):
  `knativeServiceWatchPredicate` looks at the generation and the revision names
  only. It fails for an NfsPvc that becomes bound, since NfsPvcs are not watched.
- `ChildrenConverge` fails for `Tampered = {"DNSRecord"}`:
  `cnameRecordWatchPredicate` passes changes of conditions, not of the spec.
- `computeReadyCondition` does not look at the CNAMERecord, and takes a
  DomainMapping, Certificate or logging object without conditions for ready.
- A TLS Secret can stay behind: it has no owner reference, and when a Capp is
  finalized its Certificate is left to the garbage collector, so cert-manager may
  issue the Secret again after `CleanUp` has deleted it. The same follows when
  the DomainMapping is deleted and the deletion of its Secret then fails.
- `EventuallyRecorded` fails with `MayRevert = TRUE`: a value written back while the
  cached list still ends with it is taken to be recorded (`update.go:83`).
- `LatestSurvives` fails with `SameSecond = TRUE`: of two revisions of the same
  second the newer may be sorted last and deleted.
- `EventuallyRecorded` fails with `MaxUid = 2`: a Capp created again with its old
  content is taken to be recorded by revisions that are about to be collected.
  So do `AdjacentRevisionsDiffer`, `RetentionBound`, `NumbersGrow` and
  `LatestSurvives`, while revisions of two lives share their names and numbers.
- `RetentionBound` fails with a limit above `ListLimit` (100 in the code).
- Hostnames are not unique, not even those written in full: `isDomainNameTaken`
  asks a DNS that lags, and two Capps that ask for a hostname before the record of
  the first resolves both get it (`SharedHostname`; the `namespace` run has such
  states). Nothing undoes this: both write the DomainMapping and the CNAMERecord,
  which have the label of the Capp that came first. `HeldHostnamesStay` is what
  is left of "hostname must be unique and not already taken", and it speaks for
  that Capp only. If it is deleted and created again without the hostname, `CleanUp`
  deletes the objects with its label while the other Capp still names them.
- The label of an object is set on creation and never changed. A Capp that is
  created again under its old name, and deleted, takes an object with its label
  along that it never wrote itself and that another Capp still owns:
  `deleteOwnedResources` keeps only what the Capp being deleted owns.
  `OthersKeepTheirs` leaves this case out.
- `ScaleFits` fails for a Capp admitted under an earlier CappConfig: `setAutoScaler`
  writes the activation scale of today, which may exceed the Capp's `maxReplicas`.
  It also fails for a Capp with an annotation like `autoscaling.knative.dev/max-scale`
  of its own: `validateTemplateAnnotations` looks at the template's annotations
  only, and `MergeMaps` keeps the Capp's where `setAutoScaler` sets none.
- A Capp whose finalizer update is denied, because the CappConfig or a Secret has
  changed since it was admitted (`Denied`), stays without finalizer and without
  children, and `Reconcile` fails until someone edits the Capp or undoes the change.
- When the Capp that created a shared object stops naming it, the object is
  deleted although the other Capp still needs it. For a PingSource or KafkaSource
  the event goes to the Capp on the label, not to the other one. Of two Capps that
  write one object the one on the label wins.
- Hostnames the patterns have to exclude, for a zone `z.z.`: the bare zone `z.z`
  makes `GenerateRecordName` panic and the event source managers are never reached
  (`Panics`, `Reached`); `az.z`, which ends with the zone but not at a label
  boundary, gets an empty record name; `a.z.z.` is published as `a.z.z..z.z`.

### Bounds

| Bound | Why it is enough |
|---|---|
| `MaxMoves` 2 to 4 | The races need an action that starts a `Reconcile`, one or two that overtake it, and possibly a deletion. `route` may start from a finished Capp and needs fewer. Three values at limit 2 reach retention with one more move to spare. |
| `MaxMoves` 4 in `namespace` | Both Capps created, one configuration or Secret changed, one Capp updated or deleted. |
| `MaxFaults` 1 | A second fault meets a `Reconcile` that starts from the beginning again, as after the first. |
| `MaxUid` 1 or 2 | Two lives are what can be confused. |
| `MaxLag` 2 | Keeps cert-manager from issuing Secrets for ever against an informer that does not move; only Secrets are bounded. |
| `ListLimit` 2 or 3 | 100 in the code; small so that truncation can happen, or not less than the limits where it must not. |

### Fairness

`FairSpec` asks for weak fairness of the controller's worker, each informer, the
garbage collector and cert-manager (in `CappRevisions`, also of the Capp
controller's two finalizer updates). The code justifies it: the controller
runtime keeps a worker per controller, errors and `RequeueAfter` put the key back,
and watches are re-established. Users, administrators, other clients, health
reports and faults are never required to happen and are finitely many. Nothing
is assumed of the informers' periodic resync, because it re-delivers an
unchanged object as an update, which the predicates drop. In `CappNamespace` it is
weak fairness of each Capp's `Reconcile`, of the garbage collector and of the DNS.

## Proofs

All proofs are checked by TLAPS from the named assumptions of the modules alone:
`KindsAssumption`, `UidAssumption`, `NoneAssumption`, `InputsAssumption` and `NoCappAssumption` for
`CappController`; `BoundsAssumption`, `LimitsAssumption` and `NoneAssumption` for
`CappRevisions`; `NameAssumption`, `AmountsAssumption`, `HostnamesAssumption`,
`NamespaceAssumption` and `NoneAssumption` for `CappNamespace`.

**`CappControllerProofs`**, for every set of kinds, names, specifications and
configurations, every number of lives, moves and faults:
`TypeCorrect`, `ChildrenOfTheLiving` (`NoChildForTheDead`), `NoOrphans`
(`NoOrphanOutlivesCapp`), `GroupsAreStable`, `UsersOwnTheSpec`.

The first two safety properties are not inductive: whether a stale `snap` may
create a child depends on what else can have happened since it was read. The
inductive invariant (`HeldInvariant`) is
`TypeOK /\ OwnedStays /\ HeldLog /\ HeldSync /\ FreshSnap /\ Unheld /\ Progress`.
Its core is `HeldLog`: a version of the Capp with the finalizer and without a
deletion timestamp in the log means that the API server still holds that life,
deleting or not, because only this worker removes the finalizer. Hence the
worker that saw it (`HeldSync`) still works for a Capp that exists when it writes
a child. `FreshSnap` ties `fresh` to the API server's Capp, so that the finalizer is
removed from the version that was finalized; `Unheld` and `Progress` say
that a managed child without owner exists only while a Capp holds it and that
`finalizeCapp` has left none among the children it has been through;
`OwnedStays` says that a child never loses its owner, so that a stale read of
"owned" is still true.

**`CappLifecycleProofs`**: `LifecycleRefined`, that `CappController` implements
`CappLifecycle`, for the same constants. `HeldInvariant` gives most of it: a child
is owned only by the life that exists and is held, and when the finalizer goes no
managed child is without owner. What it lacks is that the abstract `uid` is the
Capp's: `LatestLife` says that the Capp in the API server, if there is one, has the
last uid handed out. The lemma `Steps` puts every step into one of two forms,
a step of the Capp that leaves children alone (`CappStep`) or a write to one child that leaves
the Capp alone (`OneChildStep`), and `NextRefines` maps each to an
abstract step or a stutter.

**`CappRevisionsProofs`**: `TypeCorrect` for all constants, and under `Regular`
(one life, distinct timestamps, every limit between 2 and `ListLimit`)
`RevisionsRecordChanges` (`AdjacentRevisionsDiffer`), `RetentionHolds`
(`RetentionBound`), `NumbersOnlyGrow`, `LatestIsKept`. The conditions of `Regular`
are the ones without which the properties fail, see above. The invariant
(`HistoryInvariant`) relates all versions in the log to the newest: numbers and
timestamps agree in order, and a later version keeps the latest revision of an
earlier one and adds at most the next (`LogInv`); and what the worker
decided from a stale list is still safe to carry out (`WorkInv`): its number is taken or is
the next one, what it deletes is below the latest, and what it creates fits the limit.

**`RevisionHistoryProofs`**: `HistoryRefined`, that `CappRevisions` implements
`RevisionHistory` under `Regular`. `HistoryInvariant` gives that a record has the
next number, differs from the latest and fits a limit. It does not give that
deletions happen only at a limit: a worker that is restarted, or reads a limit that
has just been changed, plans its deletions from a list in which some revisions are
gone already. The addition (`RetentionInv`) is about cover: a
revision is covered when as many newer ones as some limit keeps are in the API
server (`Covered`). Whatever a list still shows and is gone is covered
(`GoneCovered`), and so is all that a worker is about to delete (`TodoCovered`): by
what it keeps, or, if one of these is gone, by that one's cover (`SplitCovers`).
Deleting a covered revision uncovers nothing (`CoveredDelete`).

**`CappNamespaceProofs`**, for any number of Capps, volumes, event sources,
CappConfigs, Secrets and moves: `TypeCorrect`,
`DefaultsNeverOverride` (`UsersQuantitiesStay`), `OthersKeepTheirObjects`
(`OthersKeepTheirs`), `ReplicasFit` (`ScaleFits`). A whole `Reconcile` is put
into one of three forms by `ReconcileSteps`: it changes nothing, finalizes, or
manages; every other step leaves the objects alone, and queues whom it concerns
(`Quiet`). `UsersQuantitiesStay` needs that what the user asked for is still in the
Capp (`QuantitiesKept`), since the operator's own update is mutated again.
`ScaleFits` needs `ScaleInv`: every Capp was within the limits of the CappConfig it
was admitted under (`WithinLimits`), its Knative Service is its own
(`OwnServices`), and if the Capp is not queued the service is what the Capp and
today's CappConfig derive (`ServicesCurrent`).

**`CappHostnameProofs`**: `RecordsNameTheirHosts` (`RecordNamesTheHost`) and
`HeldHostnames` (`HeldHostnamesStay`). They assume `OneZone`: the zone of the
CappConfig stays, and ends with a dot, as the CRD's validation asks for
(`cappconfig_types.go:64`). The first also assumes `AtLabels`: no admitted hostname
has the zone begin inside a label. This is what the arithmetic of
`GenerateRecordName` relies on: the lemma `RecordAndResource` shows that then
record, dot and zone make up `GenerateResourceName`, for every hostname and every
zone. The second assumes `InFull` (patterns admit only hostnames that end with dot and
zone), without which it fails, see above, and nothing about when requests come. With
`NameInv` (`TypeOK`, `HostnamesAdmitted`, `RecordNamesTheHost`), the invariant of
both, the published name of such a hostname is the hostname itself (`FullHostnames`)
and every record there is keeps its name resolving (`RecordPublished`). So a request for a
held hostname is denied (`HostnameChanges`), whoever else has it already; and
`RecordKept` shows for each step that the record stays with its label and reference:
`Dropped` and `deleteOwnedResources` of another Capp go by the label, the garbage
collector by references of which one is alive, and the Capp itself cannot change
its hostname (`HostnameKept`).

The invariants of all three were checked with TLC on the constants of the runs
before they were proved.

**Only model-checked**: the liveness properties (`ChildrenConverge`, `CleanedUp`,
`ReadyIsCurrent`, `EventuallyRecorded`, `OnlyOwnRevisions`, `SettlesUnlessDenied`),
since the prover does not handle fairness or `ENABLED`, and with them what they say
of the status. Every invariant, action property and refinement of the passing
runs is stated by a theorem.

## Not modelled

- In `CappController` admission is what the controller relies on: it needs a
  CappConfig, the hostname is immutable, Capps being deleted are exempt. The full
  webhooks are in `CappNamespace`, where in turn caches are current, calls succeed
  and every Capp is enabled.
- Regular expressions, cron schedules, JSON and names below the cluster's own domain.
- Changes of the zone with several Capps, and zones whose names are suffixes of one another.
- Objects of other owners under a child's name, labels or owner references that
  other clients strip, finalizers of other parties on a Capp.
- Caches that go back in time across a restart, and two leaders at once.
- In `SyncStatus` the cached reads are one step with the write; in `CappRevisions` the
  CappConfig is always there and read without lag.
- `RevisionInfo`, reasons, messages and logging; `cmd/main.go`; generated deep
  copies; charts, end-to-end tests and examples.

## Plan

Done: all modules above, their runs, and the theorems for every safety property
and both refinements. Next, in this order:

1. Safety facts under the liveness properties, so that less of these rests on
   model checking alone: when nothing is queued and the caches are current, the
   objects of a namespace are the ones its Capps call for.
2. The status: what `computeReadyCondition` implies about the conditions it is
   derived from, for every specification.
