------------------------- MODULE BundleGraph_proofs -------------------------
(***************************************************************************)
(* What holds of the graph of any listing.  Closures are intersections of  *)
(* closed sets, so that no induction over the graph is needed: to show     *)
(* that a closure lies in a set it is enough that the set is closed.       *)
(***************************************************************************)
EXTENDS BundleGraph, TLAPS

(* What the frontier and the deltas it selects consist of. *)

LEMMA MaximalIsPart ==
    ASSUME NEW L, NEW T
    PROVE  MaximalTails(L, T) \subseteq T
BY DEF MaximalTails

\* A frontier consists of tails listed or advertised.
LEMMA FrontierFrom ==
    ASSUME NEW L, NEW files, NEW K,
           Tails(L) \subseteq K, L.base.tail \in K,
           \A f \in files : Range(f.tails) \subseteq K
    PROVE  Frontier(L, files) \subseteq K
<1>1. SinkFrontier(L) \subseteq K
  <2>1. {d.tail : d \in ReachableSinks(L)} \subseteq K
    BY DEF ReachableSinks, Tails
  <2> QED
    BY <2>1, MaximalIsPart DEF SinkFrontier
<1>2. {SlotTail(s) : s \in Advertised(L, files)} \subseteq K
  <2> SUFFICES ASSUME NEW s \in Advertised(L, files)
               PROVE  SlotTail(s) \in K
    OBVIOUS
  <2>1. PICK m \in L.clients \X Newest(files) :
               s \in {<<m[1], m[2], i>> : i \in DOMAIN m[2].tails}
    BY DEF Advertised
  <2>2. m[2] \in files
    BY DEF Newest
  <2>3. PICK i \in DOMAIN m[2].tails : SlotTail(s) = m[2].tails[i]
    BY <2>1 DEF SlotTail
  <2> QED
    BY <2>2, <2>3 DEF Range
<1>3. ClientFrontier(L, files) \subseteq K
  BY <1>2, MaximalIsPart DEF ClientFrontier
<1>4. FallbackFrontier(L) \subseteq K
  BY DEF FallbackFrontier, Tails
<1> QED
  BY <1>1, <1>3, <1>4 DEF Frontier

-----------------------------------------------------------------------------
(* Closures upwards, and what leads to the baseline. *)

LEMMA AboveClosed ==
    ASSUME NEW L, NEW F, NEW stop
    PROVE  /\ Above(L, F, stop) \subseteq Tails(L)
           /\ ClosedUp(L, F, stop, Above(L, F, stop))
BY DEF Above, ClosedUp

LEMMA AboveLeast ==
    ASSUME NEW L, NEW F, NEW stop, NEW S \in SUBSET Tails(L), ClosedUp(L, F, stop, S)
    PROVE  Above(L, F, stop) \subseteq S
BY DEF Above

AboveOne(L, F, stop) == UNION {Above(L, {p}, stop) : p \in (F \ stop) \cap Tails(L)}

\* A walk starts at one of the tails it is given,
LEMMA AboveSplit ==
    ASSUME NEW L, NEW F, NEW stop
    PROVE  Above(L, F, stop) \subseteq AboveOne(L, F, stop)
<1> DEFINE U == {z \in Tails(L) : \E p \in (F \ stop) \cap Tails(L) : z \in Above(L, {p}, stop)}
<1>1. \A p \in (F \ stop) \cap Tails(L) : p \in Above(L, {p}, stop)
  BY AboveClosed DEF ClosedUp
<1>2. ASSUME NEW d \in L.deltas, d.tail \in U
      PROVE  (Parents(d) \ stop) \cap Tails(L) \subseteq U
  <2>1. PICK p \in (F \ stop) \cap Tails(L) : d.tail \in Above(L, {p}, stop)
    BY <1>2
  <2>2. (Parents(d) \ stop) \cap Tails(L) \subseteq Above(L, {p}, stop)
    BY <2>1, AboveClosed DEF ClosedUp
  <2> QED
    BY <2>2
<1>3. ClosedUp(L, F, stop, U)
  BY <1>1, <1>2 DEF ClosedUp
<1>4. Above(L, F, stop) \subseteq U
  BY <1>3, AboveLeast
<1>5. U \subseteq AboveOne(L, F, stop)
  BY DEF AboveOne
<1> QED
  BY <1>4, <1>5

Unique(L) == \A d, e \in L.deltas : d.tail = e.tail => d = e

\* and goes on to the parents.
LEMMA AboveStep ==
    ASSUME NEW L, NEW stop, Unique(L), NEW d \in L.deltas,
           NEW x \in Above(L, {d.tail}, stop), x # d.tail
    PROVE  x \in Above(L, Parents(d), stop)
<1> DEFINE U == {d.tail} \cup Above(L, Parents(d), stop)
<1>1. U \in SUBSET Tails(L)
  BY AboveClosed DEF Tails
<1>2. ClosedUp(L, Parents(d), stop, Above(L, Parents(d), stop))
  BY AboveClosed
<1>3. ASSUME NEW e \in L.deltas, e.tail \in U
      PROVE  (Parents(e) \ stop) \cap Tails(L) \subseteq U
  <2>1. CASE e = d
    BY <1>2, <2>1 DEF ClosedUp
  <2>2. CASE e # d
    BY <1>2, <1>3, <2>2 DEF ClosedUp, Unique
  <2> QED
    BY <2>1, <2>2
<1>4. ClosedUp(L, {d.tail}, stop, U)
  BY <1>3 DEF ClosedUp
<1> QED
  BY <1>1, <1>4, AboveLeast

LEMMA WalkableLeast ==
    ASSUME NEW L, NEW S \in SUBSET Tails(L), Grounded(L, S)
    PROVE  Walkable(L) \subseteq S \cup {L.base.tail}
BY DEF Walkable

LEMMA WalkableFrom ==
    ASSUME NEW L, NEW d \in L.deltas, Parents(d) \subseteq Walkable(L)
    PROVE  d.tail \in Walkable(L)
<1>1. ASSUME NEW S \in SUBSET Tails(L), Grounded(L, S) PROVE d.tail \in S
  BY <1>1, WalkableLeast DEF Grounded
<1>2. d.tail \in Tails(L)
  BY DEF Tails
<1> QED
  BY <1>1, <1>2 DEF Walkable

LEMMA WalkableIsPart ==
    ASSUME NEW L
    PROVE  Walkable(L) \subseteq Tails(L) \cup {L.base.tail} /\ L.base.tail \in Walkable(L)
BY DEF Walkable

\* What leads to the baseline does so by each of its parents.
LEMMA WalkableParents ==
    ASSUME NEW L, Unique(L), NEW d \in L.deltas, d.tail \in Walkable(L),
           d.tail # L.base.tail
    PROVE  Parents(d) \subseteq Walkable(L)
<1> SUFFICES ASSUME ~ (Parents(d) \subseteq Walkable(L)) PROVE FALSE
  OBVIOUS
<1> DEFINE S == (Walkable(L) \cap Tails(L)) \ {d.tail}
<1>1. ASSUME NEW e \in L.deltas, Parents(e) \subseteq S \cup {L.base.tail}
      PROVE  e.tail \in S
  <2>1. Parents(e) \subseteq Walkable(L)
    BY <1>1, WalkableIsPart
  <2>2. e.tail \in Walkable(L) /\ e.tail \in Tails(L)
    BY <2>1, WalkableFrom DEF Tails
  <2>3. e # d
    BY <2>1
  <2> QED
    BY <2>2, <2>3 DEF Unique
<1>2. Grounded(L, S)
  BY <1>1 DEF Grounded
<1>3. d.tail \in S
  BY <1>2, WalkableLeast
<1> QED
  BY <1>3

\* What leads to the baseline lies on no cycle.
LEMMA WalkableIsAcyclic ==
    ASSUME NEW L, Unique(L), NEW d \in L.deltas, d.tail \in Walkable(L),
           d.tail # L.base.tail
    PROVE  d.tail \notin Above(L, Parents(d), {L.base.tail})
<1> DEFINE stop == {L.base.tail}
           C == {y \in Tails(L) : d.tail \in Above(L, {y}, stop)}
<1> SUFFICES ASSUME d.tail \in Above(L, Parents(d), stop) PROVE FALSE
  OBVIOUS
<1>1. d.tail \in Tails(L) /\ d.tail \in Above(L, {d.tail}, stop)
  BY AboveClosed DEF ClosedUp, Tails
<1>2. ASSUME NEW e \in L.deltas, Parents(e) \subseteq (Tails(L) \ C) \cup stop
      PROVE  e.tail \notin C
  <2> SUFFICES ASSUME e.tail \in C PROVE FALSE
    OBVIOUS
  <2>1. d.tail \in Above(L, Parents(e), stop)
    <3>1. CASE e = d
      BY <3>1
    <3>2. CASE e # d
      BY <3>2, AboveStep DEF Unique
    <3> QED
      BY <3>1, <3>2
  <2>2. \E p \in (Parents(e) \ stop) \cap Tails(L) : d.tail \in Above(L, {p}, stop)
    <3>1. d.tail \in AboveOne(L, Parents(e), stop)
      BY <2>1, AboveSplit
    <3> QED
      BY ONLY <3>1 DEF AboveOne
  <2>3. PICK p \in (Parents(e) \ stop) \cap Tails(L) : d.tail \in Above(L, {p}, stop)
    BY <2>2
  <2> QED
    BY <1>2, <2>3
<1>3. Grounded(L, Tails(L) \ C)
  <2>1. \A e \in L.deltas : e.tail \in Tails(L)
    BY DEF Tails
  <2> QED
    BY <1>2, <2>1 DEF Grounded
<1>4. d.tail \in (Tails(L) \ C) \cup stop
  BY <1>3, WalkableLeast
<1> QED
  BY <1>1, <1>4

-----------------------------------------------------------------------------
(* The deltas that a load applies depend on the listing alone, if what     *)
(* leads to the baseline stays below sinks that do.                        *)

ReachableTails(L) == {d.tail : d \in ReachableSinks(L)}

\* What leads to the baseline is met walking up from a sink that does.
Topped(L) == Walkable(L) \ {L.base.tail} \subseteq Selected(L, ReachableTails(L))

LEMMA ReachableTailsAre ==
    ASSUME NEW L, NEW x
    PROVE  /\ x \in ReachableTails(L) =>
                x \in Walkable(L) /\ x \in Tails(L) /\ IsFrontierTail(L, x)
           /\ x \in Walkable(L) /\ x \in Tails(L) /\ IsFrontierTail(L, x) =>
                x \in ReachableTails(L)
BY DEF ReachableTails, ReachableSinks, Tails

\* It is the same deltas whatever .client files could be read.
LEMMA ToppedSelects ==
    ASSUME NEW L, NEW files, Topped(L), L.base.tail # NoTail
    PROVE  Selected(L, Frontier(L, files)) = Selected(L, ReachableTails(L))
<1> DEFINE b == L.base.tail
           RT == ReachableTails(L)
<1>1. MaximalTails(L, RT) = RT
  <2>1. \A x \in RT : IsFrontierTail(L, x)
    BY ReachableTailsAre
  <2> QED
    BY <2>1 DEF MaximalTails, IsFrontierTail, DependsOn
<1>2. SinkFrontier(L) = RT
  BY <1>1 DEF SinkFrontier, ReachableTails
<1>3. CASE RT # {}
  BY <1>2, <1>3 DEF Frontier
<1>4. CASE RT = {}
  <2>1. Selected(L, RT) = {}
    <3>1. ClosedUp(L, RT, {b}, {})
      BY <1>4 DEF ClosedUp
    <3> QED
      BY <3>1, AboveLeast DEF Selected
  <2>2. Walkable(L) \subseteq {b}
    BY <2>1 DEF Topped
  <2>3. ASSUME NEW F, (F \ {b}) \cap Tails(L) = {}
        PROVE  Selected(L, F) = {}
    <3>1. ClosedUp(L, F, {b}, {})
      BY <2>3 DEF ClosedUp
    <3> QED
      BY <3>1, AboveLeast DEF Selected
  <2>4. (Frontier(L, files) \ {b}) \cap Tails(L) = {}
    <3>1. (ClientFrontier(L, files) \ {b}) \cap Tails(L) = {}
      <4>1. \A t \in ClientFrontier(L, files) : TailReachable(L, t)
        BY DEF ClientFrontier, MaximalTails
      <4>2. \A t : TailReachable(L, t) => t \in Walkable(L) \/ Tails(L) = {}
        BY DEF TailReachable, Tails
      <4> QED
        BY <2>2, <4>1, <4>2
    <3>2. FallbackFrontier(L) = {b}
      BY DEF FallbackFrontier
    <3> QED
      BY <1>2, <1>4, <3>1, <3>2 DEF Frontier
  <2>5. Selected(L, Frontier(L, files)) = {}
    BY <2>3, <2>4
  <2> QED
    BY <2>1, <2>5
<1> QED
  BY <1>3, <1>4

-----------------------------------------------------------------------------
(* And it stays so: a new delta, one that is swept, a new baseline. *)

\* A new delta with a parent that leads to the baseline has no other ones.
LEMMA ToppedGrows ==
    ASSUME NEW L, NEW M, NEW e, Topped(L),
           M.base.tail = L.base.tail, M.deltas = L.deltas \cup {e},
           e.tail \notin Tails(L) \cup {L.base.tail} \cup Parents(e),
           \A d \in L.deltas : e.tail \notin Parents(d),
           Parents(e) \cap (Walkable(L) \ {L.base.tail}) # {} => Parents(e) \subseteq Walkable(L)
    PROVE  /\ Topped(M)
           /\ Walkable(L) \subseteq Walkable(M)
           /\ Walkable(M) \subseteq Walkable(L) \cup {e.tail}
<1> DEFINE b == L.base.tail
           T == Selected(M, ReachableTails(M))
<1>1. Tails(M) = Tails(L) \cup {e.tail}
  BY DEF Tails
<1>2. Walkable(M) \subseteq Walkable(L) \cup {e.tail}
  <2> DEFINE S == (Walkable(L) \cap Tails(L)) \cup {e.tail}
  <2>1. ASSUME NEW d \in L.deltas, Parents(d) \subseteq S \cup {b} PROVE d.tail \in S
    <3>1. Parents(d) \subseteq Walkable(L)
      BY <2>1, WalkableIsPart
    <3> QED
      BY <3>1, WalkableFrom DEF Tails
  <2>2. Grounded(M, S)
    BY <2>1 DEF Grounded
  <2>3. S \in SUBSET Tails(M)
    BY <1>1
  <2>4. Walkable(M) \subseteq S \cup {b}
    BY <2>2, <2>3, WalkableLeast
  <2> QED
    BY <2>4, WalkableIsPart
<1>3. Walkable(L) \subseteq Walkable(M)
  <2>1. ASSUME NEW S \in SUBSET Tails(M), Grounded(M, S) PROVE Grounded(L, S \cap Tails(L))
    <3>1. \A d \in L.deltas : d.tail \in Tails(L)
      BY DEF Tails
    <3> QED
      BY <2>1, <3>1 DEF Grounded
  <2>2. ASSUME NEW x \in Walkable(L), x # b, NEW S \in SUBSET Tails(M), Grounded(M, S)
        PROVE  x \in S
    <3>1. Grounded(L, S \cap Tails(L)) /\ S \cap Tails(L) \in SUBSET Tails(L)
      BY <2>1, <2>2
    <3>2. Walkable(L) \subseteq (S \cap Tails(L)) \cup {L.base.tail}
      BY ONLY <3>1, WalkableLeast
    <3> QED
      BY <2>2, <3>2
  <2>3. \A x \in Walkable(L) \ {b} : x \in Tails(M)
    BY <1>1, WalkableIsPart
  <2> QED
    BY <2>2, <2>3 DEF Walkable
<1>4. T \subseteq Tails(M) /\ ClosedUp(M, ReachableTails(M), {b}, T)
  BY AboveClosed DEF Selected
<1>5. ASSUME \A x \in ReachableTails(L) \ {b} : x \in T PROVE Walkable(L) \ {b} \subseteq T
  <2>1. ClosedUp(L, ReachableTails(L), {b}, T \cap Tails(L))
    BY <1>1, <1>4, <1>5 DEF ClosedUp
  <2>2. T \cap Tails(L) \in SUBSET Tails(L)
    OBVIOUS
  <2>3. Selected(L, ReachableTails(L)) \subseteq T \cap Tails(L)
    <3> HIDE DEF T
    <3> QED
      BY ONLY <2>1, <2>2, AboveLeast DEF Selected
  <2> QED
    BY <2>3 DEF Topped
<1>6. IsFrontierTail(M, e.tail)
  BY DEF IsFrontierTail
<1>7. \A x \in ReachableTails(L) : x \notin Parents(e) => x \in ReachableTails(M)
  <2>1. \A x \in ReachableTails(L) : x \notin Parents(e) => IsFrontierTail(M, x)
    BY ReachableTailsAre DEF IsFrontierTail
  <2> QED
    BY <1>1, <1>3, <2>1, ReachableTailsAre
<1>8. ReachableTails(M) \ {b} \subseteq T
  <2>1. ReachableTails(M) \subseteq Tails(M)
    BY ReachableTailsAre
  <2> QED
    BY <1>4, <2>1 DEF ClosedUp
<1>9. CASE Parents(e) \subseteq Walkable(L)
  <2>1. e.tail \in Walkable(M)
    BY <1>3, <1>9, WalkableFrom
  <2>2. e.tail \in ReachableTails(M)
    BY <1>1, <1>6, <2>1, ReachableTailsAre
  <2>3. e.tail \in T
    BY <1>8, <2>2
  <2>4. (Parents(e) \ {b}) \cap Tails(M) \subseteq T
    BY <1>4, <2>3 DEF ClosedUp
  <2>5. \A x \in ReachableTails(L) \ {b} : x \in T
    <3>1. \A x \in ReachableTails(L) : x \in Tails(M)
      BY <1>1, ReachableTailsAre
    <3> QED
      BY <1>7, <1>8, <2>4, <3>1
  <2> QED
    BY <1>2, <1>3, <1>5, <2>3, <2>5 DEF Topped
<1>10. CASE ~ (Parents(e) \subseteq Walkable(L))
  <2> DEFINE S == Walkable(L) \cap Tails(L)
  <2>1. ASSUME NEW d \in M.deltas, Parents(d) \subseteq S \cup {b} PROVE d.tail \in S
    <3>1. Parents(d) \subseteq Walkable(L)
      BY <2>1, WalkableIsPart
    <3>2. d \in L.deltas
      BY <1>10, <3>1
    <3> QED
      BY <3>1, <3>2, WalkableFrom DEF Tails
  <2>2. Grounded(M, S)
    BY <2>1 DEF Grounded
  <2>3. Walkable(M) \subseteq S \cup {b}
    BY <1>1, <2>2, WalkableLeast
  <2>4. \A x \in ReachableTails(L) \ {b} : x \in T
    <3>1. \A x \in ReachableTails(L) \ {b} : x \notin Parents(e)
      BY <1>10, ReachableTailsAre
    <3> QED
      BY <1>7, <1>8, <3>1
  <2> QED
    BY <1>2, <1>3, <1>5, <2>3, <2>4 DEF Topped
<1> QED
  BY <1>9, <1>10

\* A delta is deleted that leads nowhere, or is what the baseline was made at.
LEMMA ToppedSwept ==
    ASSUME NEW L, NEW M, NEW d \in L.deltas, Topped(L), Unique(L),
           M.base.tail = L.base.tail, M.deltas = L.deltas \ {d},
           d.tail \in Walkable(L) => d.tail = L.base.tail
    PROVE  Topped(M) /\ Walkable(M) = Walkable(L)
<1> DEFINE b == L.base.tail
           T == Selected(M, ReachableTails(M))
<1>1. /\ Tails(M) \subseteq Tails(L)
      /\ \A e \in L.deltas : e.tail # d.tail => e \in M.deltas /\ e.tail \in Tails(M)
  BY DEF Tails
<1>2. Walkable(M) \subseteq Walkable(L)
  <2>1. ASSUME NEW S \in SUBSET Tails(L), Grounded(L, S) PROVE Grounded(M, S \cap Tails(M))
    <3>1. \A e \in M.deltas : e.tail \in Tails(M)
      BY DEF Tails
    <3> QED
      BY <2>1, <3>1 DEF Grounded
  <2>2. ASSUME NEW x \in Walkable(M), x # b, NEW S \in SUBSET Tails(L), Grounded(L, S)
        PROVE  x \in S
    <3>1. Grounded(M, S \cap Tails(M)) /\ S \cap Tails(M) \in SUBSET Tails(M)
      BY <2>1, <2>2
    <3>2. Walkable(M) \subseteq (S \cap Tails(M)) \cup {M.base.tail}
      BY ONLY <3>1, WalkableLeast
    <3> QED
      BY <2>2, <3>2
  <2>3. \A x \in Walkable(M) \ {b} : x \in Tails(L)
    BY <1>1, WalkableIsPart
  <2> QED
    BY <2>2, <2>3 DEF Walkable
<1>3. Walkable(L) \subseteq Walkable(M)
  <2> DEFINE S == Tails(L) \cap Walkable(L) \cap Walkable(M)
  <2>1. ASSUME NEW e \in L.deltas, Parents(e) \subseteq S \cup {b} PROVE e.tail \in S
    <3>1. Parents(e) \subseteq Walkable(L) /\ Parents(e) \subseteq Walkable(M)
      BY <2>1, WalkableIsPart
    <3>2. e.tail \in Walkable(L) /\ e.tail \in Tails(L)
      BY <3>1, WalkableFrom DEF Tails
    <3>3. CASE e.tail = b
      BY <3>2, <3>3, WalkableIsPart
    <3>4. CASE e.tail # b
      <4>1. e \in M.deltas
        BY <3>2, <3>4
      <4> QED
        BY <3>1, <3>2, <4>1, WalkableFrom
    <3> QED
      BY <3>3, <3>4
  <2>2. Grounded(L, S)
    BY <2>1 DEF Grounded
  <2>3. Walkable(L) \subseteq S \cup {b}
    BY <2>2, WalkableLeast
  <2> QED
    BY <2>3, WalkableIsPart
<1>4. T \subseteq Tails(M) /\ ClosedUp(M, ReachableTails(M), {b}, T)
  BY AboveClosed DEF Selected
<1> DEFINE R == (T \cap Walkable(L)) \ {b}
<1>5. \A x \in ReachableTails(L) \ {b} : x \in R
  <2> SUFFICES ASSUME NEW x \in ReachableTails(L), x # b PROVE x \in R
    OBVIOUS
  <2>1. x \in Walkable(L) /\ x \in Tails(L) /\ IsFrontierTail(L, x)
    BY ReachableTailsAre
  <2>2. IsFrontierTail(M, x)
    BY <2>1 DEF IsFrontierTail
  <2>3. x \in Tails(M)
    BY <1>1, <2>1 DEF Tails
  <2>4. x \in ReachableTails(M)
    BY <1>3, <2>1, <2>2, <2>3, ReachableTailsAre
  <2> QED
    BY <1>4, <2>1, <2>3, <2>4 DEF ClosedUp
<1>6. ASSUME NEW e \in L.deltas, e.tail \in R
      PROVE  (Parents(e) \ {b}) \cap Tails(L) \subseteq R
  <2>1. Parents(e) \subseteq Walkable(L)
    BY <1>6, WalkableParents
  <2>2. e \in M.deltas
    BY <1>1, <1>6
  <2>3. (Parents(e) \ {b}) \cap Tails(M) \subseteq T
    BY <1>4, <1>6, <2>2 DEF ClosedUp
  <2>4. \A p \in (Parents(e) \ {b}) \cap Tails(L) : p \in Tails(M)
    BY <1>1, <2>1 DEF Tails
  <2> QED
    BY <2>1, <2>3, <2>4
<1>7. ClosedUp(L, ReachableTails(L), {b}, R)
  BY <1>5, <1>6 DEF ClosedUp
<1>8. Selected(L, ReachableTails(L)) \subseteq R
  BY <1>1, <1>4, <1>7, AboveLeast DEF Selected
<1> QED
  BY <1>2, <1>3, <1>8 DEF Topped

\* What tails that lead to the baseline are built from leads there, too.
LEMMA WalkableAbove ==
    ASSUME NEW L, NEW F, Unique(L), F \subseteq Walkable(L)
    PROVE  Selected(L, F) \subseteq Walkable(L) \ {L.base.tail}
<1> DEFINE S == (Walkable(L) \cap Tails(L)) \ {L.base.tail}
<1>1. ASSUME NEW d \in L.deltas, d.tail \in S
      PROVE  (Parents(d) \ {L.base.tail}) \cap Tails(L) \subseteq S
  BY <1>1, WalkableParents
<1>2. ClosedUp(L, F, {L.base.tail}, S)
  BY <1>1 DEF ClosedUp
<1>3. S \in SUBSET Tails(L)
  OBVIOUS
<1>4. Selected(L, F) \subseteq S
  <2> HIDE DEF S
  <2> QED
    BY ONLY <1>2, <1>3, AboveLeast DEF Selected
<1> QED
  BY <1>4

\* The baseline moves to t and nothing is attached to what it leaves behind.
LEMMA ToppedCompacted ==
    ASSUME NEW L, NEW M, NEW t \in Tails(L) \cap Walkable(L), Topped(L), Unique(L),
           M.base.tail = t, M.deltas = L.deltas, L.base.tail \notin Tails(L),
           \A d \in L.deltas : Parents(d) # {},
           \A d \in L.deltas :
              d.tail \notin Selected(L, {t}) =>
                 Parents(d) \subseteq {t} \cup (Tails(L) \ Selected(L, {t}))
    PROVE  /\ Topped(M)
           /\ Walkable(M) \cap Selected(L, {t}) \subseteq {t}
           /\ Walkable(L) \ ({L.base.tail} \cup Selected(L, {t})) \subseteq Walkable(M)
           /\ t \in Selected(L, {t})
<1> DEFINE b == L.base.tail
           gone == Selected(L, {t})
           T == Selected(M, ReachableTails(M))
<1>1. Tails(M) = Tails(L) /\ t # b
  BY DEF Tails
<1>2. gone \subseteq Tails(L) /\ ClosedUp(L, {t}, {b}, gone)
  BY AboveClosed DEF Selected
<1>3. t \in gone
  BY <1>1, <1>2 DEF ClosedUp
<1>4. gone \subseteq Walkable(L)
  <2>1. {t} \subseteq Walkable(L)
    OBVIOUS
  <2> QED
    BY <2>1, WalkableAbove
<1>5. Walkable(M) \cap gone \subseteq {t}
  <2> DEFINE G == (Tails(L) \ gone) \cup {t}
  <2>1. ASSUME NEW d \in L.deltas, Parents(d) \subseteq G, d.tail \in gone, d.tail # t
        PROVE  FALSE
    <3>1. Parents(d) \subseteq gone
      BY <1>2, <2>1 DEF ClosedUp
    <3>2. t \in Parents(d)
      BY <2>1, <3>1
    <3>3. ClosedUp(L, {t}, {b}, Above(L, Parents(d), {b}))
      <4>1. ClosedUp(L, Parents(d), {b}, Above(L, Parents(d), {b}))
        BY AboveClosed
      <4> QED
        BY <3>2, <4>1 DEF ClosedUp
    <3>4. Above(L, Parents(d), {b}) \in SUBSET Tails(L)
      BY AboveClosed
    <3>4a. gone \subseteq Above(L, Parents(d), {b})
      BY ONLY <3>3, <3>4, AboveLeast DEF Selected
    <3>5. d.tail \in Above(L, Parents(d), {b}) /\ d.tail \in Walkable(L)
      BY <1>4, <2>1, <3>4a
    <3>6. d.tail # b
      BY <1>2, <2>1
    <3> QED
      BY <3>5, <3>6, WalkableIsAcyclic
  <2>2. Grounded(M, G)
    <3>1. \A d \in L.deltas : d.tail \in Tails(L)
      BY DEF Tails
    <3>2. ASSUME NEW d \in L.deltas, Parents(d) \subseteq G PROVE d.tail \in G
      BY <2>1, <3>1, <3>2
    <3>3. G \cup {t} = G
      OBVIOUS
    <3> QED
      BY <3>2, <3>3 DEF Grounded
  <2>3. G \in SUBSET Tails(M)
    BY <1>1
  <2>4. Walkable(M) \subseteq G \cup {M.base.tail}
    <3> HIDE DEF G
    <3> QED
      BY ONLY <2>2, <2>3, WalkableLeast
  <2> QED
    BY <2>4
<1>6. Walkable(M) \subseteq Walkable(L)
  <2>1. Grounded(M, Walkable(L) \cap Tails(L))
    <3>1. \A d \in L.deltas : Parents(d) \subseteq Walkable(L) =>
                                 d.tail \in Walkable(L) /\ d.tail \in Tails(L)
      BY WalkableFrom DEF Tails
    <3> QED
      BY <3>1 DEF Grounded
  <2> QED
    BY <1>1, <2>1, WalkableLeast
<1>7. Walkable(L) \ ({b} \cup gone) \subseteq Walkable(M)
  <2> DEFINE S == Tails(L) \cap Walkable(L) \cap (gone \cup Walkable(M))
  <2>1. ASSUME NEW d \in L.deltas, Parents(d) \subseteq S \cup {b} PROVE d.tail \in S
    <3>1. Parents(d) \subseteq Walkable(L)
      BY <2>1, WalkableIsPart
    <3>2. d.tail \in Walkable(L) /\ d.tail \in Tails(L)
      BY <3>1, WalkableFrom DEF Tails
    <3>3. CASE d.tail \in gone
      BY <3>2, <3>3
    <3>4. CASE d.tail \notin gone
      <4>1. Parents(d) \subseteq {t} \cup (Tails(L) \ gone)
        BY <3>4
      <4>2. Parents(d) \subseteq Walkable(M)
        BY <2>1, <4>1, WalkableIsPart
      <4> QED
        BY <3>2, <4>2, WalkableFrom
    <3> QED
      BY <3>3, <3>4
  <2>2. Grounded(L, S)
    BY <2>1 DEF Grounded
  <2>3. Walkable(L) \subseteq S \cup {b}
    BY <2>2, WalkableLeast
  <2> QED
    BY <2>3
<1>8. T \subseteq Tails(L) /\ ClosedUp(M, ReachableTails(M), {t}, T)
  BY <1>1, AboveClosed DEF Selected
<1>9. \A x \in ReachableTails(L) \ gone : x \in T
  <2> SUFFICES ASSUME NEW x \in ReachableTails(L), x \notin gone PROVE x \in T
    OBVIOUS
  <2>1. x \in Walkable(L) /\ x \in Tails(L) /\ IsFrontierTail(M, x)
    BY ReachableTailsAre DEF IsFrontierTail
  <2>2. x \in ReachableTails(M)
    BY <1>1, <1>7, <2>1, ReachableTailsAre
  <2> QED
    BY <1>1, <1>3, <1>8, <2>1, <2>2 DEF ClosedUp
<1>10. ASSUME NEW d \in L.deltas, d.tail \in T \cup gone
       PROVE  (Parents(d) \ {b}) \cap Tails(L) \subseteq T \cup gone
  <2>1. CASE d.tail \in gone
    BY <1>2, <2>1 DEF ClosedUp
  <2>2. CASE d.tail \in T
    <3>1. (Parents(d) \ {t}) \cap Tails(L) \subseteq T
      BY <1>1, <1>8, <2>2 DEF ClosedUp
    <3> QED
      BY <1>3, <3>1
  <2> QED
    BY <1>10, <2>1, <2>2
<1>11. ClosedUp(L, ReachableTails(L), {b}, T \cup gone)
  BY <1>9, <1>10 DEF ClosedUp
<1>12. Selected(L, ReachableTails(L)) \subseteq T \cup gone
  <2>1. T \cup gone \in SUBSET Tails(L)
    BY <1>2, <1>8
  <2> HIDE DEF T, gone
  <2> QED
    BY ONLY <1>11, <2>1, AboveLeast DEF Selected
<1>13. Walkable(M) \ {t} \subseteq T
  <2>1. Walkable(M) \ {t} \subseteq Walkable(L) \ {b}
    BY <1>1, <1>6, WalkableIsPart
  <2>2. Walkable(L) \ {b} \subseteq T \cup gone
    BY <1>12 DEF Topped
  <2> QED
    BY <1>5, <2>1, <2>2
<1> QED
  BY <1>3, <1>5, <1>7, <1>13 DEF Topped

-----------------------------------------------------------------------------
(* The frontier of a bundle, and what becomes of it in a compaction. *)

\* The same deltas over the same baseline.
LEMMA ToppedSame ==
    ASSUME NEW L, NEW M, Topped(L), M.base = L.base, M.deltas = L.deltas
    PROVE  Topped(M) /\ Walkable(M) = Walkable(L)
<1>1. Tails(M) = Tails(L) /\ \A S : Grounded(M, S) <=> Grounded(L, S)
  BY DEF Tails, Grounded
<1>2. Walkable(M) = Walkable(L)
  BY <1>1 DEF Walkable
<1>3. ReachableTails(M) = ReachableTails(L)
  <2>1. \A x : IsFrontierTail(M, x) <=> IsFrontierTail(L, x)
    BY DEF IsFrontierTail
  <2> QED
    BY <1>1, <1>2, <2>1, ReachableTailsAre
<1>4. \A F, S : ClosedUp(M, F, {M.base.tail}, S) <=> ClosedUp(L, F, {L.base.tail}, S)
  BY <1>1 DEF ClosedUp
<1>5. \A F : Selected(M, F) = Selected(L, F)
  BY <1>1, <1>4 DEF Selected, Above
<1> QED
  BY <1>2, <1>3, <1>5 DEF Topped

\* When anything leads to the baseline, so does the whole frontier.
LEMMA FrontierWalks ==
    ASSUME NEW L, NEW files, L.base.tail # NoTail, Walkable(L) \ {L.base.tail} # {}
    PROVE  Frontier(L, files) \subseteq Walkable(L)
<1>1. L.deltas # {}
  BY DEF Walkable, Tails
<1>2. SinkFrontier(L) \subseteq Walkable(L)
  BY MaximalIsPart DEF SinkFrontier, ReachableSinks
<1>3. ClientFrontier(L, files) \subseteq Walkable(L)
  BY <1>1 DEF ClientFrontier, MaximalTails, TailReachable
<1>4. FallbackFrontier(L) \subseteq Walkable(L)
  BY WalkableIsPart DEF FallbackFrontier
<1> QED
  BY <1>2, <1>3, <1>4 DEF Frontier

\* A frontier is made of tails that lead to the baseline.
LEMMA FrontierLive ==
    ASSUME NEW L, NEW files, NEW K, L.base.tail # NoTail, Walkable(L) \subseteq K,
           L.deltas = {} => \A f \in Newest(files) : Range(f.tails) \subseteq K
    PROVE  Frontier(L, files) \subseteq K
<1>1. SinkFrontier(L) \subseteq K
  BY MaximalIsPart DEF SinkFrontier, ReachableSinks
<1>2. ClientFrontier(L, files) \subseteq K
  <2> SUFFICES ASSUME NEW x \in ClientFrontier(L, files) PROVE x \in K
    OBVIOUS
  <2>1. x \in {SlotTail(s) : s \in Advertised(L, files)} /\ TailReachable(L, x)
    BY DEF ClientFrontier, MaximalTails
  <2>2. PICK s \in Advertised(L, files) : x = SlotTail(s)
    BY <2>1
  <2>3. PICK m \in L.clients \X Newest(files) :
               s \in {<<m[1], m[2], i>> : i \in DOMAIN m[2].tails}
    BY DEF Advertised
  <2>4. x \in Range(m[2].tails) /\ m[2] \in Newest(files)
    BY <2>2, <2>3 DEF SlotTail, Range
  <2> QED
    BY <2>1, <2>4 DEF TailReachable
<1>3. FallbackFrontier(L) \subseteq K
  BY WalkableIsPart DEF FallbackFrontier
<1> QED
  BY <1>1, <1>2, <1>3 DEF Frontier

LEMMA AbovePast ==
    ASSUME NEW L, NEW F, NEW stop, NEW x \in Above(L, F, stop)
    PROVE  Above(L, {x}, stop) \subseteq Above(L, F, stop)
<1>1. ClosedUp(L, F, stop, Above(L, F, stop)) /\ Above(L, F, stop) \in SUBSET Tails(L)
  BY AboveClosed
<1>2. ClosedUp(L, {x}, stop, Above(L, F, stop))
  BY <1>1 DEF ClosedUp
<1> QED
  BY ONLY <1>1, <1>2, AboveLeast

LEMMA BelowListed ==
    ASSUME NEW L, NEW u, NEW stop, NEW t \in Above(L, {u}, stop)
    PROVE  u \in Tails(L) \ stop
<1> SUFFICES ASSUME u \notin Tails(L) \ stop PROVE FALSE
  OBVIOUS
<1>1. ClosedUp(L, {u}, stop, {})
  BY DEF ClosedUp
<1>2. Above(L, {u}, stop) \subseteq {}
  BY <1>1, AboveLeast
<1> QED
  BY <1>2

LEMMA SeenAbove ==
    ASSUME NEW L, L.base.tail \notin Tails(L), NEW t \in Tails(L), NEW u,
           u = t \/ DependsOn(L, u, t)
    PROVE  t \in Above(L, {u}, {L.base.tail})
<1> DEFINE b == L.base.tail
           A == Above(L, {u}, {b})
<1>1. ClosedUp(L, {u}, {b}, A) /\ A \in SUBSET Tails(L)
  BY AboveClosed
<1>2. CASE u = t
  BY <1>1, <1>2 DEF ClosedUp
<1>3. CASE DependsOn(L, u, t)
  <2>1. ClosedUp(L, {u}, {}, A)
    BY <1>1 DEF ClosedUp
  <2>2. Above(L, {u}, {}) \subseteq A
    <3> HIDE DEF A
    <3> QED
      BY ONLY <1>1, <2>1, AboveLeast
  <2>3. PICK d \in L.deltas : d.tail \in Above(L, {u}, {}) /\ t \in Parents(d)
    BY <1>3 DEF DependsOn
  <2> QED
    BY <1>1, <2>2, <2>3 DEF ClosedUp
<1> QED
  BY <1>2, <1>3

\* Nothing that descends from t is folded with it, but t.
LEMMA DescendantStays ==
    ASSUME NEW L, Unique(L), L.base.tail \notin Tails(L),
           NEW t \in Tails(L) \cap Walkable(L),
           NEW u, u # t, t \in Above(L, {u}, {L.base.tail})
    PROVE  u \notin Selected(L, {t})
<1> DEFINE b == L.base.tail
<1> SUFFICES ASSUME u \in Selected(L, {t}) PROVE FALSE
  OBVIOUS
<1>1. PICK d \in L.deltas : d.tail = t
  BY DEF Tails
<1>2. u \in Above(L, {d.tail}, {b})
  BY <1>1 DEF Selected
<1>3. u \in Above(L, Parents(d), {b})
  BY <1>1, <1>2, AboveStep
<1>4. t \in Above(L, Parents(d), {b})
  BY <1>3, AbovePast
<1>5. t # b
  OBVIOUS
<1> QED
  BY <1>1, <1>4, <1>5, WalkableIsAcyclic

\* Nor is what is attached to it.
LEMMA FollowerStays ==
    ASSUME NEW L, Unique(L), L.base.tail \notin Tails(L),
           NEW t \in Tails(L) \cap Walkable(L),
           NEW u, t \in Above(L, {u}, {L.base.tail}),
           NEW d \in L.deltas, u \in Parents(d)
    PROVE  d.tail \notin Selected(L, {t})
<1> DEFINE b == L.base.tail
           A == Above(L, Parents(d), {b})
<1> SUFFICES ASSUME d.tail \in Selected(L, {t}) PROVE FALSE
  OBVIOUS
<1>1. d.tail \in Walkable(L) /\ d.tail # b
  <2>1. Selected(L, {t}) \subseteq Walkable(L) \ {b}
    <3>1. {t} \subseteq Walkable(L)
      OBVIOUS
    <3> QED
      BY <3>1, WalkableAbove
  <2> QED
    BY <2>1
<1>2. u \in Tails(L) \ {b}
  BY BelowListed
<1>3. u \in A
  <2>1. ClosedUp(L, Parents(d), {b}, A)
    BY AboveClosed
  <2> QED
    BY <1>2, <2>1 DEF ClosedUp
<1>4. t \in A
  BY <1>3, AbovePast
<1>5. d.tail \in A
  BY <1>4, AbovePast DEF Selected
<1> QED
  BY <1>1, <1>5, WalkableIsAcyclic

=============================================================================
