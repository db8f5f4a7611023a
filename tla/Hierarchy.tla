----------------------------- MODULE Hierarchy ------------------------------
(***************************************************************************)
(* What folders and tags promise: as long as nobody writes from a model    *)
(* that has gone stale, moving them about keeps them a forest.  Only the   *)
(* parents are kept; an object that does not exist, or that was deleted    *)
(* and is still named as a parent, has no parent.                          *)
(***************************************************************************)
CONSTANTS Nodes, Nobody

\* What the constants must satisfy.
NobodyIsNoNode == Nobody \notin Nodes

VARIABLES
    up,       \* the parent of each node, or Nobody
    tainted   \* somebody moved a node without looking at the forest as it is

vars == <<up, tainted>>

TypeOK ==
    /\ up \in [Nodes -> Nodes \union {Nobody}]
    /\ tainted \in BOOLEAN

\* A cycle is a set of nodes each of which has its parent in the set.
Cycle(C) == C # {} /\ \A n \in C : up[n] \in C
Acyclic == \A C \in SUBSET Nodes : ~Cycle(C)

\* p and all that is above it lie in S, and n does not.
NotBelow(p, n) ==
    \E S \in SUBSET Nodes :
        /\ p \in S /\ n \notin S
        /\ \A m \in S : up[m] \in S \union {Nobody}

Init ==
    /\ up \in [Nodes -> Nodes \union {Nobody}]
    /\ Acyclic
    /\ tainted = FALSE

Place(n, p) ==
    /\ up' = [up EXCEPT ![n] = p]
    /\ UNCHANGED tainted
    /\ p = Nobody \/ (p \in Nodes /\ NotBelow(p, n))

PlaceStale(n, p) ==
    /\ up' = [up EXCEPT ![n] = p]
    /\ tainted' = TRUE

Next == \E n \in Nodes, p \in Nodes \union {Nobody} : Place(n, p) \/ PlaceStale(n, p)

Spec == Init /\ [][Next]_vars

\* Without a stale write there is no cycle: a walk to the root ends.
AcyclicUnlessStale == ~tainted => Acyclic
=============================================================================
