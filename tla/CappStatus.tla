----------------------------- MODULE CappStatus -----------------------------
(***************************************************************************)
(* The status of a Capp as SyncStatus derives it from the children it      *)
(* finds: the health of each child it looks at, and the Ready condition.   *)
(* seen is the child of every id, or None.                                 *)
(***************************************************************************)
EXTENDS ResourceManagers

Status ==
    [state : {"none", "enabled", "disabled"}, ready : BOOLEAN,
     children : [Objects -> Health \cup {"absent"}]]

NoStatus ==
    [state |-> "none", ready |-> FALSE, children |-> [o \in Objects |-> "absent"]]

\* An object that is not found looks like one that has reported nothing.
Found(o, seen) == IF seen[o] = None THEN "none" ELSE seen[o].health

\* The status of an object that prepareResource builds; an empty one for others.
buildKnativeStatus(o, seen, s, config) ==
    IF Desired(o, s, config) THEN Found(o, seen) ELSE "none"

buildRouteStatus(o, seen, s, config) ==
    IF Desired(o, s, config) THEN Found(o, seen) ELSE "none"

\* An entry for every volume of the Capp.
buildVolumesStatus(o, seen, s) ==
    IF o[2] \in s.volumes THEN Found(o, seen) ELSE "absent"

\* Filled in when both objects are found.
buildLoggingStatus(o, seen, s) ==
    IF s.logging /\ \A p \in Objects : Kind(p) \in LoggingKinds => seen[p] # None
    THEN Found(o, seen) ELSE "absent"

\* An entry for every event source that carries the Capp's label, whether the
\* Capp still names it or not.
buildEventingStatus(o, seen) ==
    IF seen[o] # None THEN Found(o, seen) ELSE "absent"

ChildStatuses(seen, s, config) ==
    [o \in Objects |->
        CASE Kind(o) = "KnativeService" -> buildKnativeStatus(o, seen, s, config)
          [] Kind(o) \in RouteKinds -> buildRouteStatus(o, seen, s, config)
          [] Kind(o) = "NfsPvc" -> buildVolumesStatus(o, seen, s)
          [] Kind(o) \in LoggingKinds -> buildLoggingStatus(o, seen, s)
          [] Kind(o) \in SourceKinds -> buildEventingStatus(o, seen)
          [] OTHER -> "absent"]

\* loggingNotReady, domainMappingNotReady and certificateNotReady look for a
\* condition that is not true; none at all is as good as a true one.
NoBadNews(k, children) ==
    \A o \in Objects : Kind(o) = k => children[o] # "false"

\* volumesNotReady: every volume of the Capp is bound.
VolumesReady(s, children) ==
    \A o \in Objects : Kind(o) = "NfsPvc" /\ o[2] \in s.volumes => children[o] = "true"

\* eventingNotReady: every event source found is ready.
EventingReady(children) ==
    \A o \in Objects : Kind(o) \in SourceKinds => children[o] \in {"true", "absent"}

\* knativeNotReady: a Service that is not required has an empty status.
KnativeReady(s, config, children) ==
    /\ IsRequired("KnativeService", s, config)
    /\ \A o \in Objects : Kind(o) = "KnativeService" => children[o] = "true"

\* computeReadyCondition
computeReadyCondition(s, config, children, errs) ==
    /\ ~errs
    /\ \A k \in LoggingKinds \cup {"DomainMapping", "Certificate"} :
          IsRequired(k, s, config) => NoBadNews(k, children)
    /\ VolumesReady(s, children)
    /\ (\E k \in SourceKinds : IsRequired(k, s, config)) => EventingReady(children)
    /\ KnativeReady(s, config, children)

\* SyncStatus without its API calls.
BuildStatus(seen, s, config, errs) ==
    LET children == ChildStatuses(seen, s, config)
    IN  [state |-> s.state, children |-> children,
         ready |-> computeReadyCondition(s, config, children, errs)]
=============================================================================
