-------------------------- MODULE MCCappNamespace --------------------------
(***************************************************************************)
(* Two Capps, "a" and "a-b", whose event sources "b-c" and "c" have        *)
(* objects of the same name, in the zone "z.z.".                           *)
(***************************************************************************)
EXTENDS CappNamespace

CONSTANTS s1, v1

Characters == {"a", "b", "c", "z", ".", "-"}

A == <<"a">>
AB == <<"a", "-", "b">>
TwoCapps == {A, AB}

BC == <<"b", "-", "c">>
C == <<"c">>
TwoSources == {BC, C}

Zone == <<"z", ".", "z", ".">>
Inside == <<"a", ".", "z", ".", "z">>        \* a.z.z
Nested == <<"a", ".", "a", ".", "z", ".", "z">> \* a.a.z.z
Outside == <<"a", ".", "a">>                 \* a.a
TheZone == <<"z", ".", "z">>                 \* z.z
NoBoundary == <<"a", "z", ".", "z">>         \* az.z
Absolute == <<"a", ".", "z", ".", "z", ".">> \* a.z.z.
AllHostnames == {Inside, Nested, Outside, TheZone, NoBoundary, Absolute}

NoResources == [q \in Quantities |-> None]

Plain ==
    [hostname |-> <<>>, logSecret |-> None, volumes |-> {}, mounts |-> {},
     sources |-> <<>>, autoscaling |-> FALSE, annotations |-> <<>>,
     scale |-> [metric |-> "rps", min |-> None, max |-> None, delay |-> None],
     resources |-> NoResources]

Ping(name) ==
    [name |-> name, kind |-> "ping", wellFormed |-> TRUE, secret |-> s1, consumers |-> None]
Kafka(name) ==
    [name |-> name, kind |-> "kafka", wellFormed |-> TRUE, secret |-> s1, consumers |-> 2]

NamespaceSpecs ==
    {[Plain EXCEPT !.hostname = h] : h \in AllHostnames \ {Nested}}
    \cup {[Plain EXCEPT !.volumes = {v1}, !.mounts = {v1}, !.logSecret = s1,
                        !.scale.min = 1, !.scale.max = 1],
          [Plain EXCEPT !.sources = <<Ping(BC)>>, !.resources["cpu"] = 1,
                        !.annotations = [max |-> 1]],
          [Plain EXCEPT !.sources = <<Ping(C)>>, !.scale.max = 2],
          [Plain EXCEPT !.sources = <<Kafka(C)>>, !.hostname = Nested]}

HostnameSpecs == {[Plain EXCEPT !.hostname = h] : h \in {Inside, Outside}}

Autoscale ==
    [targets |-> [m \in Metrics |-> 1], activation |-> 2, minLimit |-> 2, maxLimit |-> 3,
     maxDelay |-> 1]

Strict ==
    [zone |-> Zone, patterns |-> {Inside, Nested}, defaults |-> [q \in Quantities |-> 2],
     autoscale |-> Autoscale, maxConsumers |-> 2]

\* No defaults, fewer consumers, and more replicas to start with.
Stricter ==
    [Strict EXCEPT !.defaults = NoResources, !.maxConsumers = 1,
                   !.autoscale.activation = 3]

TwoConfigs == {Strict, Stricter}

\* Hostnames may be written without the zone.
ShortAllowed == {[Strict EXCEPT !.patterns = {Inside, Outside, Nested}]}

AllKeys == {{<<s1, "elastic">>, <<s1, "kafka">>}, {<<s1, "kafka">>}}
=============================================================================
