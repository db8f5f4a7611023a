-------------------------- MODULE Hierarchy_proofs --------------------------
(***************************************************************************)
(* The forest stays a forest, for any number of nodes and any sequence of  *)
(* additions, moves and deletions none of which was stale.                 *)
(***************************************************************************)
EXTENDS Hierarchy, TLAPS

\* The variables keep their types (api_service.py, update_folder, update_tag).
THEOREM TypeCorrect == Spec => []TypeOK
<1>1. Init => TypeOK
  BY DEF Init, TypeOK
<1>2. TypeOK /\ [Next]_vars => TypeOK'
  <2> SUFFICES ASSUME TypeOK, [Next]_vars PROVE TypeOK'
    OBVIOUS
  <2>1. CASE UNCHANGED vars
    BY <2>1 DEF TypeOK, vars
  <2>2. CASE Next
    <3>1. PICK n \in Nodes, p \in Nodes \union {Nobody} : Place(n, p) \/ PlaceStale(n, p)
      BY <2>2 DEF Next
    <3>2. up' = [up EXCEPT ![n] = p] /\ tainted' \in BOOLEAN
      BY <3>1 DEF Place, PlaceStale, TypeOK
    <3> QED BY <3>2 DEF TypeOK
  <2> QED BY <2>1, <2>2
<1> QED BY <1>1, <1>2, PTL DEF Spec

\* A move to a place that is not below the node closes no cycle: a cycle
\* through the node would already have been one among what is above its new
\* parent (the walk of validate_folder_parent_change, api_common.py:166).
LEMMA PlaceKeepsAcyclic ==
  ASSUME NobodyIsNoNode, TypeOK, Acyclic,
         NEW n \in Nodes, NEW p \in Nodes \union {Nobody},
         p = Nobody \/ (p \in Nodes /\ NotBelow(p, n)),
         up' = [up EXCEPT ![n] = p]
  PROVE  Acyclic'
<1> SUFFICES ASSUME NEW C \in SUBSET Nodes, C # {}, \A m \in C : up'[m] \in C
             PROVE  FALSE
  BY DEF Acyclic, Cycle
<1>1. \A m \in Nodes : m # n => up'[m] = up[m]
  BY DEF TypeOK
<1>2. n \in C
  <2> SUFFICES ASSUME n \notin C PROVE FALSE
    OBVIOUS
  <2>1. Cycle(C)
    BY <1>1 DEF Cycle
  <2> QED BY <2>1 DEF Acyclic
<1>3. p \in C
  BY <1>2 DEF TypeOK
<1>4. p \in Nodes /\ NotBelow(p, n)
  BY <1>3 DEF NobodyIsNoNode
<1>5. PICK S \in SUBSET Nodes : /\ p \in S /\ n \notin S
                                /\ \A m \in S : up[m] \in S \union {Nobody}
  BY <1>4 DEF NotBelow
<1>6. Cycle(C \intersect S)
  <2>1. C \intersect S # {}
    BY <1>3, <1>5
  <2>2. ASSUME NEW m \in C \intersect S PROVE up[m] \in C \intersect S
    <3>1. up[m] \in C
      BY <1>1, <1>5
    <3>2. up[m] \in S \union {Nobody}
      BY <1>5
    <3> QED BY <3>1, <3>2 DEF NobodyIsNoNode
  <2> QED BY <2>1, <2>2 DEF Cycle
<1> QED BY <1>6 DEF Acyclic

\* As long as no write came from a stale model, no folder and no tag is its
\* own ancestor (docs/http.md:404, api_common.py:166-217).
THEOREM ForestStaysForest ==
  ASSUME NobodyIsNoNode
  PROVE  Spec => []AcyclicUnlessStale
<1>1. Init => AcyclicUnlessStale
  BY DEF Init, AcyclicUnlessStale
<1>2. TypeOK /\ AcyclicUnlessStale /\ [Next]_vars => AcyclicUnlessStale'
  <2> SUFFICES ASSUME TypeOK, AcyclicUnlessStale, [Next]_vars, ~tainted' PROVE Acyclic'
    BY DEF AcyclicUnlessStale
  <2>1. CASE UNCHANGED vars
    BY <2>1 DEF AcyclicUnlessStale, Acyclic, Cycle, vars
  <2>2. CASE Next
    <3>1. PICK n \in Nodes, p \in Nodes \union {Nobody} : Place(n, p) \/ PlaceStale(n, p)
      BY <2>2 DEF Next
    <3>2. Place(n, p)
      BY <3>1 DEF PlaceStale
    <3>3. Acyclic
      BY <3>2 DEF Place, AcyclicUnlessStale
    <3> QED BY <3>2, <3>3, PlaceKeepsAcyclic DEF Place
  <2> QED BY <2>1, <2>2
<1> QED BY <1>1, <1>2, TypeCorrect, PTL DEF Spec
=============================================================================
