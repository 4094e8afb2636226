--------------------------- MODULE CappLifecycle ---------------------------
(***************************************************************************)
(* What the Capp controller promises about the lives of one Capp and the   *)
(* children it has, without caches, queues, workers and failures: children *)
(* are taken only by a life that is held by the finalizer, and a life ends *)
(* only when every child it leaves is one the garbage collector will find. *)
(***************************************************************************)
EXTENDS Naturals

CONSTANTS
    Children,   \* the children a Capp may have
    None        \* there is no such child

VARIABLES
    life,       \* the Capp: "none", "free", "held" by the finalizer, "deleting"
    uid,        \* the uid of its latest life
    owner       \* of each child: None, 0 if it has no owner, or the owner's uid

vars == <<life, uid, owner>>

Init ==
    \/ life = "none" /\ uid = 0 /\ owner = [o \in Children |-> None]
    \/ life = "held" /\ uid = 1 /\ owner \in [Children -> {None, 0}]

Create == life = "none" /\ life' = "free" /\ uid' = uid + 1 /\ UNCHANGED owner

Hold == life = "free" /\ life' = "held" /\ UNCHANGED <<uid, owner>>

Delete ==
    /\ \/ life = "free" /\ life' = "none"
       \/ life = "held" /\ life' = "deleting"
    /\ UNCHANGED <<uid, owner>>

\* The life ends; no child stays that nobody owns.
Release ==
    /\ life = "deleting" /\ \A o \in Children : owner[o] # 0
    /\ life' = "none"
    /\ UNCHANGED <<uid, owner>>

\* A child is created, or adopted from an earlier life or from nobody.
Own(o) ==
    /\ life \in {"held", "deleting"} /\ owner[o] # uid
    /\ owner' = [owner EXCEPT ![o] = uid]
    /\ UNCHANGED <<life, uid>>

\* A child goes: deleted by the controller or by somebody else, or collected.
Lose(o) ==
    /\ owner[o] # None
    /\ owner' = [owner EXCEPT ![o] = None]
    /\ UNCHANGED <<life, uid>>

Next ==
    \/ Create \/ Hold \/ Delete \/ Release
    \/ \E o \in Children : Own(o) \/ Lose(o)

Spec == Init /\ [][Next]_vars
=============================================================================
