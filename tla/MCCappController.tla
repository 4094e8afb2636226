-------------------------- MODULE MCCappController --------------------------
(***************************************************************************)
(* Instances of the Capp controller for TLC: the specifications and the    *)
(* CappConfigs that users and administrators write in each run.            *)
(***************************************************************************)
EXTENDS CappController

CONSTANTS d1, d2, p1, p2, v1, z1, z2, c1

Plain ==
    [state |-> "enabled", hostname |-> FALSE, tls |-> FALSE, logging |-> FALSE,
     volumes |-> {}, pings |-> {}, kafkas |-> {}, data |-> d1]

OneConfig == {[zone |-> z1, settings |-> c1]}
ZonesOrNone == {[zone |-> z, settings |-> c1] : z \in {z1, z2}} \cup {None}

\* A workload that is edited and switched off, with and without an event source.
LifecycleSpecs ==
    {[Plain EXCEPT !.pings = {p1}],
     [Plain EXCEPT !.state = "disabled"]}

SourceSpecs ==
    {[Plain EXCEPT !.kafkas = {p1}, !.data = d] : d \in {d1, d2}}
       \cup {[Plain EXCEPT !.kafkas = {p2}]}

RouteSpecs ==
    {[Plain EXCEPT !.hostname = TRUE],
     [Plain EXCEPT !.hostname = TRUE, !.tls = TRUE]}

ConfigSpecs == {[Plain EXCEPT !.hostname = TRUE, !.logging = l] : l \in BOOLEAN}

VolumeSpecs == {Plain, [Plain EXCEPT !.volumes = {v1}]}
=============================================================================
