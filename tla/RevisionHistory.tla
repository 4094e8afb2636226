-------------------------- MODULE RevisionHistory --------------------------
(***************************************************************************)
(* What the CappRevision controller promises about the revisions of one    *)
(* Capp, without caches, timestamps, workers and failures: a log that      *)
(* grows by one number at a time, whenever the data changes, and forgets   *)
(* old entries only when it has as many as it may keep.                    *)
(***************************************************************************)
EXTENDS Naturals, FiniteSets

CONSTANTS
    Data,       \* what a revision records
    Limits      \* how many revisions may be kept

VARIABLES
    alive,      \* the Capp exists
    hist        \* its revisions, by number and data

vars == <<alive, hist>>

IsLatest(r) == r \in hist /\ \A s \in hist : s.num <= r.num

Init == ~alive /\ hist = {}

\* The Capp is created, or is gone.
Turn == alive' = ~alive /\ UNCHANGED hist

\* A change is recorded: the next number, data that differ from the latest, and
\* no more revisions than some limit allows.
Record(d) ==
    /\ alive
    /\ \/ hist = {} /\ hist' = {[num |-> 1, data |-> d]}
       \/ \E r \in hist :
             /\ IsLatest(r) /\ d # r.data
             /\ hist' = hist \cup {[num |-> r.num + 1, data |-> d]}
    /\ \E n \in Limits : Cardinality(hist') <= n
    /\ UNCHANGED alive

\* Retention: an old revision, and only when some limit is reached.
Forget(r) ==
    /\ alive
    /\ r \in hist /\ ~IsLatest(r)
    /\ \E n \in Limits : Cardinality(hist) >= n
    /\ hist' = hist \ {r}
    /\ UNCHANGED alive

\* Nothing is promised about the revisions of a Capp that is gone.
Decay == ~alive /\ UNCHANGED alive

Next ==
    \/ Turn \/ Decay
    \/ \E d \in Data : Record(d)
    \/ \E r \in hist : Forget(r)

Spec == Init /\ [][Next]_vars
=============================================================================
