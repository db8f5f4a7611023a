-------------------------- MODULE GraphWalk_proofs --------------------------
(***************************************************************************)
(* Theorems about GraphWalk, for every listing, frontier and tail.         *)
(*                                                                         *)
(* The walks are depth-first searches with a stack: what is on it is the   *)
(* path from where the walk started, between tails that wait their turn.   *)
(* An invariant says of every entry what its parents are: settled, waiting *)
(* above it, or, when the walk is asked a question, on the path to it.     *)
(*                                                                         *)
(*   Path        the stack of the walks that enter and leave a tail;       *)
(*   ResolveInv  what is selected so far is closed and acyclic;            *)
(*   Frames      the stack of the sort: who waits for whom;                *)
(*   SortInv     what is emitted, what is still to come, and, if the       *)
(*               names are in order, that one root is emitted at a time;   *)
(*   ReachInv    the answers remembered are right;                         *)
(*   DependInv   what was looked at, or waits for it, are ancestors.       *)
(***************************************************************************)
EXTENDS GraphWalk, BundleGraph_proofs, SequenceTheorems, WellFoundedInduction, TLAPS

-----------------------------------------------------------------------------
(* Stacks. *)

\* A stack and what is left when its top is popped.
LEMMA LastFront ==
    ASSUME NEW S, NEW s \in Seq(S), s # <<>>
    PROVE  /\ Len(s) \in Nat \ {0} /\ DOMAIN s = 1..Len(s)
           /\ Last(s) = s[Len(s)] /\ Last(s) \in S
           /\ Front(s) \in Seq(S) /\ DOMAIN Front(s) = 1..(Len(s) - 1)
           /\ \A i \in 1..(Len(s) - 1) : Front(s)[i] = s[i]
<1>1. Len(s) \in Nat \ {0} /\ DOMAIN s = 1..Len(s)
  BY EmptySeq
<1>2. Front(s) \in Seq(S) /\ Len(Front(s)) = Len(s) - 1 /\ \A i \in 1..(Len(s) - 1) : Front(s)[i] = s[i]
  BY <1>1 DEF Front
<1>3. DOMAIN Front(s) = 1..(Len(s) - 1)
  BY <1>2
<1>4. Last(s) = s[Len(s)] /\ Last(s) \in S
  BY <1>1 DEF Last
<1> QED BY <1>1, <1>2, <1>3, <1>4

\* Pushing a sequence.
LEMMA Joined ==
    ASSUME NEW S, NEW s \in Seq(S), NEW t \in Seq(S)
    PROVE  /\ s \o t \in Seq(S) /\ DOMAIN s = 1..Len(s) /\ DOMAIN t = 1..Len(t)
           /\ Len(s) \in Nat /\ Len(t) \in Nat
           /\ DOMAIN (s \o t) = 1..(Len(s) + Len(t))
           /\ \A i \in 1..Len(s) : (s \o t)[i] = s[i]
           /\ \A i \in 1..Len(t) : (s \o t)[Len(s) + i] = t[i]
           /\ \A i \in 1..(Len(s) + Len(t)) :
                 i \notin 1..Len(s) => i - Len(s) \in 1..Len(t) /\ (s \o t)[i] = t[i - Len(s)]
           /\ Range(s \o t) = Range(s) \cup Range(t)
<1>1. /\ s \o t \in Seq(S) /\ DOMAIN s = 1..Len(s) /\ DOMAIN t = 1..Len(t)
      /\ Len(s) \in Nat /\ Len(t) \in Nat /\ Len(s \o t) = Len(s) + Len(t)
      /\ DOMAIN (s \o t) = 1..(Len(s) + Len(t))
      /\ \A i \in 1 .. Len(s) + Len(t) : (s \o t)[i] = IF i <= Len(s) THEN s[i] ELSE t[i - Len(s)]
  BY ConcatProperties
<1>2. \A i \in 1..Len(s) : (s \o t)[i] = s[i]
  BY <1>1
<1>3. \A i \in 1..Len(t) : Len(s) + i \in 1..(Len(s) + Len(t)) /\ (s \o t)[Len(s) + i] = t[i]
  BY <1>1
<1>4. \A i \in 1..(Len(s) + Len(t)) :
                 i \notin 1..Len(s) => i - Len(s) \in 1..Len(t) /\ (s \o t)[i] = t[i - Len(s)]
  BY <1>1
<1>5. ASSUME NEW x \in Range(s \o t) PROVE x \in Range(s) \cup Range(t)
  <2>1. PICK i \in 1..(Len(s) + Len(t)) : x = (s \o t)[i]
    BY <1>1, <1>5 DEF Range
  <2> QED BY <1>1, <1>2, <1>4, <2>1 DEF Range
<1>6. \A x \in Range(s) : x \in Range(s \o t)
  <2>1. 1..Len(s) \subseteq 1..(Len(s) + Len(t))
    BY <1>1
  <2> QED BY <1>1, <1>2, <2>1 DEF Range
<1>7. \A x \in Range(t) : x \in Range(s \o t)
  <2>1. ASSUME NEW i \in 1..Len(t) PROVE t[i] \in Range(s \o t)
    <3>1. PICK k \in 1..(Len(s) + Len(t)) : (s \o t)[k] = t[i]
      BY <1>3
    <3> QED BY <1>1, <3>1 DEF Range
  <2> QED BY <1>1, <2>1 DEF Range
<1>8. Range(s \o t) = Range(s) \cup Range(t)
  BY <1>5, <1>6, <1>7
<1> QED BY <1>1, <1>2, <1>3, <1>4, <1>8

\* Popping takes the top away and nothing else,
LEMMA RangeOfFront ==
    ASSUME NEW S, NEW s \in Seq(S), s # <<>>
    PROVE  Range(s) = Range(Front(s)) \cup {Last(s)}
<1>1. /\ Len(s) \in Nat \ {0} /\ DOMAIN s = 1..Len(s) /\ Last(s) = s[Len(s)]
      /\ DOMAIN Front(s) = 1..(Len(s) - 1)
      /\ \A i \in 1..(Len(s) - 1) : Front(s)[i] = s[i]
  BY LastFront
<1>2. 1..Len(s) = (1..(Len(s) - 1)) \cup {Len(s)}
  BY <1>1
<1>3. Range(s) = {s[i] : i \in (1..(Len(s) - 1)) \cup {Len(s)}}
  BY <1>1, <1>2 DEF Range
<1>4. Range(Front(s)) = {s[i] : i \in 1..(Len(s) - 1)}
  BY <1>1 DEF Range
<1> QED BY <1>1, <1>3, <1>4

\* and so does taking the head of a queue.
LEMMA RangeOfTail ==
    ASSUME NEW S, NEW s \in Seq(S), s # <<>>
    PROVE  /\ Tail(s) \in Seq(S) /\ Head(s) \in S
           /\ Range(s) = Range(Tail(s)) \cup {Head(s)}
<1>1. /\ Len(s) \in Nat \ {0} /\ DOMAIN s = 1..Len(s)
      /\ Tail(s) \in Seq(S) /\ Len(Tail(s)) = Len(s) - 1 /\ Head(s) = s[1] /\ Head(s) \in S
      /\ DOMAIN Tail(s) = 1..(Len(s) - 1)
      /\ \A i \in 1..(Len(s) - 1) : Tail(s)[i] = s[i + 1]
  BY LastFront, HeadTailProperties
<1>2. ASSUME NEW x \in Range(s) PROVE x \in Range(Tail(s)) \cup {Head(s)}
  <2>1. PICK i \in 1..Len(s) : x = s[i]
    BY <1>1, <1>2 DEF Range
  <2>2. CASE i # 1
    <3>1. i - 1 \in 1..(Len(s) - 1) /\ (i - 1) + 1 = i
      BY <1>1, <2>1, <2>2
    <3>2. Tail(s)[i - 1] = s[i]
      BY <1>1, <3>1
    <3> QED BY <1>1, <2>1, <3>1, <3>2 DEF Range
  <2> QED BY <1>1, <2>1, <2>2
<1>3. Head(s) \in Range(s)
  BY <1>1 DEF Range
<1>4. ASSUME NEW i \in 1..(Len(s) - 1) PROVE Tail(s)[i] \in Range(s)
  <2>1. i + 1 \in 1..Len(s) /\ Tail(s)[i] = s[i + 1]
    BY <1>1
  <2> QED BY <1>1, <2>1 DEF Range
<1>5. Range(Tail(s)) \subseteq Range(s)
  BY <1>1, <1>4 DEF Range
<1> QED BY <1>1, <1>2, <1>3, <1>5

\* Reversed, a sequence has the same members.
LEMMA RangeOfReverse ==
    ASSUME NEW S, NEW s \in Seq(S)
    PROVE  Reverse(s) \in Seq(S) /\ DOMAIN Reverse(s) = 1..Len(s) /\ Range(Reverse(s)) = Range(s)
<1>1. Len(s) \in Nat /\ DOMAIN s = 1..Len(s) /\ \A i \in 1..Len(s) : s[i] \in S
  OBVIOUS
<1>2. \A i \in 1..Len(s) : (Len(s) - i) + 1 \in 1..Len(s) /\ (Len(s) - ((Len(s) - i) + 1)) + 1 = i
  BY <1>1
<1>3. Reverse(s) = [i \in 1..Len(s) |-> s[(Len(s) - i) + 1]]
  BY <1>1 DEF Reverse
<1>4. Reverse(s) \in Seq(S)
  BY <1>1, <1>2, <1>3
<1>5. \A x \in Range(Reverse(s)) : x \in Range(s)
  BY <1>1, <1>2, <1>3 DEF Range
<1>6. ASSUME NEW i \in 1..Len(s) PROVE s[i] \in Range(Reverse(s))
  <2>1. PICK j \in 1..Len(s) : j = (Len(s) - i) + 1 /\ (Len(s) - j) + 1 = i
    BY <1>2
  <2>2. Reverse(s)[j] = s[i] /\ DOMAIN Reverse(s) = 1..Len(s)
    BY <1>3, <2>1
  <2> QED BY <2>2 DEF Range
<1>7. \A x \in Range(s) : x \in Range(Reverse(s))
  BY <1>1, <1>6 DEF Range
<1> QED BY <1>3, <1>4, <1>5, <1>7

\* Numbers have a smallest one.
LEMMA Smallest ==
  ASSUME NEW T, T \subseteq Nat, T # {}
  PROVE  \E m \in T : \A n \in T : m <= n
<1> DEFINE R == OpToRel(<, Nat)
<1>1. IsWellFoundedOn(R, Nat)
  BY NatLessThanWellFounded
<1>2. \A m, n \in Nat : n < m => <<n, m>> \in R
  BY DEF OpToRel
<1> HIDE DEF R
<1>3. PICK m \in T : \A n \in T : ~(<<n, m>> \in R)
  BY <1>1, WFMin
<1>4. ASSUME NEW n \in T PROVE m <= n
  <2>1. ~(n < m)
    BY <1>2, <1>3
  <2> QED BY <2>1
<1> QED BY <1>4

\* Without filters.
LEMMA WithoutRange ==
    ASSUME NEW S, NEW s \in Seq(S), NEW X
    PROVE  Without(s, X) \in Seq(S) /\ Range(Without(s, X)) = Range(s) \ X
<1> DEFINE n == Len(s)
           Step(i, k) == IF i = 0 THEN <<>> ELSE IF s[i] \in X THEN k ELSE Append(k, s[i])
           Keeps(f, m) == f = [i \in 0..m |-> IF i = 0 THEN <<>> ELSE IF s[i] \in X THEN f[i - 1] ELSE Append(f[i - 1], s[i])]
           First(m) == {s[j] : j \in 1..m}
           Good(m) == \E f : Keeps(f, m) /\ f[m] \in Seq(S) /\ Range(f[m]) = First(m) \ X
<1>1. n \in Nat /\ DOMAIN s = 1..n /\ (\A i \in 1..n : s[i] \in S) /\ Range(s) = First(n)
  BY DEF Range
<1> HIDE DEF n
<1>2. Good(0)
  <2>1. PICK f : f = [i \in 0..0 |-> <<>>]
    OBVIOUS
  <2>2. Keeps(f, 0) /\ f[0] = <<>> /\ First(0) = {} /\ Range(<<>>) = {}
    BY <2>1 DEF Range
  <2> QED BY <2>2
<1>3. ASSUME NEW m \in 1..n, Good(m - 1) PROVE Good(m)
  <2>1. PICK f : Keeps(f, m - 1) /\ f[m - 1] \in Seq(S) /\ Range(f[m - 1]) = First(m - 1) \ X
    BY <1>3
  <2> DEFINE g == [i \in 0..m |-> IF i = m THEN Step(m, f[m - 1]) ELSE f[i]]
  <2>2. ASSUME NEW i \in 0..m PROVE g[i] = Step(i, g[i - 1])
    <3>1. CASE i = 0
      BY <1>1, <2>1, <3>1
    <3>2. CASE i = m
      BY <1>1, <3>2
    <3>3. CASE i # 0 /\ i # m
      <4>1. i \in 0..(m - 1) /\ i - 1 \in 0..(m - 1) /\ i - 1 # m
        BY <1>1, <3>3
      <4>2. f[i] = Step(i, f[i - 1])
        BY <2>1, <3>3, <4>1
      <4> QED BY <3>3, <4>1, <4>2
    <3> QED BY <3>1, <3>2, <3>3
  <2>3. Keeps(g, m)
    BY <2>2
  <2>4. g[m] = IF s[m] \in X THEN f[m - 1] ELSE Append(f[m - 1], s[m])
    BY <1>1
  <2>5. First(m) = First(m - 1) \cup {s[m]}
    <3>1. 1..m = (1..(m - 1)) \cup {m}
      BY <1>1
    <3> QED BY <3>1
  <2>6. s[m] \in S
    BY <1>1
  <2> HIDE DEF g, First
  <2>7. \A k \in Seq(S) : Append(k, s[m]) \in Seq(S) /\ Range(Append(k, s[m])) = Range(k) \cup {s[m]}
    <3> SUFFICES ASSUME NEW k \in Seq(S)
                 PROVE  Append(k, s[m]) \in Seq(S) /\ Range(Append(k, s[m])) = Range(k) \cup {s[m]}
      OBVIOUS
    <3>1. /\ Append(k, s[m]) \in Seq(S) /\ Append(k, s[m]) # <<>>
          /\ Front(Append(k, s[m])) = k /\ Last(Append(k, s[m])) = s[m]
      BY <2>6 DEF Front, Last
    <3> QED BY <3>1, RangeOfFront
  <2>8. g[m] \in Seq(S) /\ Range(g[m]) = First(m) \ X
    <3>1. CASE s[m] \in X
      <4>1. g[m] = f[m - 1]
        BY ONLY <2>4, <3>1
      <4>2. First(m) \ X = First(m - 1) \ X
        BY ONLY <2>5, <3>1
      <4>3. f[m - 1] \in Seq(S) /\ Range(f[m - 1]) = First(m - 1) \ X
        BY <2>1
      <4> QED BY ONLY <4>1, <4>2, <4>3
    <3>2. CASE s[m] \notin X
      <4>1. g[m] = Append(f[m - 1], s[m])
        BY ONLY <2>4, <3>2
      <4>2. First(m) \ X = (First(m - 1) \ X) \cup {s[m]}
        BY ONLY <2>5, <3>2
      <4>3. f[m - 1] \in Seq(S) /\ Range(f[m - 1]) = First(m - 1) \ X
        BY <2>1
      <4>4. g[m] \in Seq(S) /\ Range(g[m]) = Range(f[m - 1]) \cup {s[m]}
        BY ONLY <2>7, <4>1, <4>3
      <4> QED BY ONLY <4>2, <4>3, <4>4
    <3> QED BY <3>1, <3>2
  <2> QED BY <2>3, <2>8
<1>4. Good(n)
  <2> HIDE DEF Good
  <2>1. \A m \in Nat : m <= n => Good(m)
    <3> DEFINE Bad == {m \in 0..n : ~ Good(m)}
    <3> SUFFICES ASSUME Bad # {} PROVE FALSE
      BY <1>1
    <3>0. Bad \subseteq Nat
      BY <1>1
    <3>1. PICK m \in Bad : \A k \in Bad : m <= k
      <4> HIDE DEF Bad
      <4> QED BY <3>0, Smallest
    <3>2. m \in 1..n /\ m - 1 \in 0..n /\ ~(m <= m - 1)
      BY <1>1, <1>2, <3>1
    <3> QED BY <1>3, <3>1, <3>2
  <2> QED BY <1>1, <2>1
<1>5. PICK f : Keeps(f, n) /\ f[n] \in Seq(S) /\ Range(f[n]) = First(n) \ X
  BY <1>4
<1>6. PICK g : Keeps(g, n) /\ Without(s, X) = g[n]
  <2>1. Without(s, X) = (CHOOSE g : Keeps(g, n))[n]
    BY DEF Without, n
  <2> QED BY <1>5, <2>1
<1>7. \A m \in 0..n : g[m] = f[m]
  <2> DEFINE Bad == {m \in 0..n : g[m] # f[m]}
  <2> SUFFICES ASSUME Bad # {} PROVE FALSE
    OBVIOUS
  <2>0. Bad \subseteq Nat
    BY <1>1
  <2>1. PICK m \in Bad : \A k \in Bad : m <= k
    <3> HIDE DEF Bad
    <3> QED BY <2>0, Smallest
  <2>2. g[m] = Step(m, g[m - 1]) /\ f[m] = Step(m, f[m - 1])
    BY <1>5, <1>6, <2>1
  <2>3. m # 0
    BY <2>1, <2>2
  <2>4. m - 1 \in 0..n /\ ~(m <= m - 1)
    BY <1>1, <2>1, <2>3
  <2>5. g[m - 1] = f[m - 1]
    BY <2>1, <2>4
  <2> QED BY <2>1, <2>2, <2>5
<1>8. Without(s, X) = f[n]
  BY <1>1, <1>6, <1>7
<1> HIDE DEF First
<1> QED BY <1>1, <1>5, <1>8

-----------------------------------------------------------------------------
(* Paths. *)

\* The i-th entry of the stack s is the visit of a tail on the path P: the last
\* entry with this tail.
Visit(s, i, P) ==
    /\ i \in DOMAIN s /\ s[i] \in P
    /\ \A j \in DOMAIN s : j > i => s[j] # s[i]

\* The parent q of the i-th entry is settled, or waits above it, or, in a walk
\* that goes on after a cycle, is on the path to it.
Covered(s, i, q, P, X, cycles) ==
    \/ q \in X
    \/ \E j \in DOMAIN s : j > i /\ s[j] = q
    \/ cycles /\ \E j \in DOMAIN s : j <= i /\ Visit(s, j, P) /\ s[j] = q

\* s is the stack of a walk up the listing M, P its path, X what it has settled.
\* What is above a visit on the stack is met walking up from its parents.
Path(M, s, P, X, cycles) ==
    /\ P \subseteq Tails(M) /\ P \cap X = {}
    /\ \A t \in P : \E i \in DOMAIN s : Visit(s, i, P) /\ s[i] = t
    /\ \A d \in M.deltas, i \in DOMAIN s : (Visit(s, i, P) /\ s[i] = d.tail) =>
          /\ \A j \in DOMAIN s :
                (j > i /\ s[j] \in Tails(M) \ {M.base.tail}) => s[j] \in Above(M, Parents(d), {M.base.tail})
          /\ \A q \in Parents(d) : Covered(s, i, q, P, X, cycles)

\* What is popped is settled.
LEMMA PathPopped ==
    ASSUME NEW M, NEW S, NEW s \in Seq(S), s # <<>>, NEW P, NEW X, NEW Y, NEW cycles \in BOOLEAN,
           Path(M, s, P, X, cycles), X \subseteq Y, Last(s) \in Y, Y \subseteq X \cup {Last(s)}
    PROVE  Path(M, Front(s), P \ {Last(s)}, Y, cycles)
<1> DEFINE n == Len(s)
           f == Front(s)
           t == Last(s)
           Q == P \ {t}
<1>1. /\ n \in Nat \ {0} /\ DOMAIN s = 1..n /\ t = s[n] /\ DOMAIN f = 1..(n - 1)
      /\ \A i \in 1..(n - 1) : f[i] = s[i]
  BY LastFront
<1>2. 1..n = (1..(n - 1)) \cup {n} /\ \A i \in 1..(n - 1) : i < n /\ i \in 1..n
  BY <1>1
<1> HIDE DEF n, f, t
<1>3. \A i \in 1..(n - 1) : Visit(f, i, Q) => Visit(s, i, P) /\ f[i] = s[i] /\ s[i] # t
  BY <1>1, <1>2 DEF Visit
<1>4. \A i \in 1..n : Visit(s, i, P) /\ s[i] # t => i \in 1..(n - 1) /\ Visit(f, i, Q) /\ f[i] = s[i]
  BY <1>1, <1>2 DEF Visit
<1>5. Q \subseteq Tails(M) /\ Q \cap Y = {}
  BY DEF Path, t
<1>6. \A u \in Q : \E i \in DOMAIN f : Visit(f, i, Q) /\ f[i] = u
  <2> SUFFICES ASSUME NEW u \in Q PROVE \E i \in DOMAIN f : Visit(f, i, Q) /\ f[i] = u
    OBVIOUS
  <2>1. PICK i \in DOMAIN s : Visit(s, i, P) /\ s[i] = u
    BY DEF Path
  <2> QED BY <1>1, <1>4, <2>1
<1>7. ASSUME NEW d \in M.deltas, NEW i \in DOMAIN f, Visit(f, i, Q), f[i] = d.tail
      PROVE  /\ \A j \in DOMAIN f :
                   (j > i /\ f[j] \in Tails(M) \ {M.base.tail}) => f[j] \in Above(M, Parents(d), {M.base.tail})
             /\ \A q \in Parents(d) : Covered(f, i, q, Q, Y, cycles)
  <2>1. i \in DOMAIN s /\ Visit(s, i, P) /\ s[i] = d.tail /\ i < n
    BY <1>1, <1>2, <1>3, <1>7
  <2>2. /\ \A j \in DOMAIN s :
              (j > i /\ s[j] \in Tails(M) \ {M.base.tail}) => s[j] \in Above(M, Parents(d), {M.base.tail})
        /\ \A q \in Parents(d) : Covered(s, i, q, P, X, cycles)
    BY <2>1 DEF Path
  <2>3. ASSUME NEW q \in Parents(d) PROVE Covered(f, i, q, Q, Y, cycles)
    <3>1. CASE q \in Y
      BY <3>1 DEF Covered
    <3>2. CASE q \notin Y
      <4>1. q # t /\ q \notin X
        BY <3>2 DEF t
      <4>2. CASE \E j \in DOMAIN s : j > i /\ s[j] = q
        BY <1>1, <1>2, <4>1, <4>2 DEF Covered
      <4>3. CASE cycles /\ \E j \in DOMAIN s : j <= i /\ Visit(s, j, P) /\ s[j] = q
        BY <1>1, <1>4, <4>1, <4>3 DEF Covered
      <4> QED BY <2>2, <4>1, <4>2, <4>3 DEF Covered
    <3> QED BY <3>1, <3>2
  <2>4. \A j \in DOMAIN f : f[j] = s[j] /\ j \in DOMAIN s
    BY <1>1, <1>2
  <2> QED BY <2>2, <2>3, <2>4
<1> QED BY <1>5, <1>6, <1>7 DEF Path, t, f

\* What is met walking up from a delta is met from what the delta is met from.
LEMMA AboveFurther ==
    ASSUME NEW M, NEW F, NEW d \in M.deltas, d.tail \in Above(M, F, {M.base.tail})
    PROVE  Above(M, Parents(d), {M.base.tail}) \subseteq Above(M, F, {M.base.tail})
<1> DEFINE U == Above(M, F, {M.base.tail})
<1>1. U \in SUBSET Tails(M) /\ ClosedUp(M, F, {M.base.tail}, U)
  BY AboveClosed
<1> HIDE DEF U
<1>2. d.tail \in U
  BY DEF U
<1>3. ClosedUp(M, Parents(d), {M.base.tail}, U)
  BY <1>1, <1>2 DEF ClosedUp
<1>4. Above(M, Parents(d), {M.base.tail}) \subseteq U
  BY <1>1, <1>3, AboveLeast
<1> QED BY <1>4 DEF U

\* A tail enters the path, and its parents that are neither settled nor on the
\* path go on the stack.
LEMMA PathPushed ==
    ASSUME NEW M, Unique(M), NEW S, NEW s \in Seq(S), s # <<>>, NEW ps \in Seq(S),
           NEW P, NEW X, M.base.tail \in X, NEW cycles \in BOOLEAN,
           NEW d \in M.deltas, Last(s) = d.tail, d.tail \notin X, d.tail \notin P,
           Range(ps) = Parents(d) \ (X \cup P \cup {d.tail}),
           ~ cycles => Parents(d) \cap (P \cup {d.tail}) \subseteq X,
           Path(M, s, P, X, cycles)
    PROVE  Path(M, s \o ps, P \cup {d.tail}, X, cycles)
<1> DEFINE n == Len(s)
           w == s \o ps
           t == d.tail
           Q == P \cup {t}
           stop == {M.base.tail}
<1>1. /\ n \in Nat \ {0} /\ DOMAIN s = 1..n /\ t = s[n] /\ DOMAIN w = 1..(n + Len(ps))
      /\ Len(ps) \in Nat /\ DOMAIN ps = 1..Len(ps)
      /\ \A i \in 1..n : w[i] = s[i]
      /\ \A i \in 1..Len(ps) : w[n + i] = ps[i]
      /\ \A i \in 1..(n + Len(ps)) : i \notin 1..n => i - n \in 1..Len(ps) /\ w[i] = ps[i - n]
  <2>1. Len(s) \in Nat \ {0} /\ DOMAIN s = 1..Len(s) /\ Last(s) = s[Len(s)]
    BY LastFront
  <2>2. /\ DOMAIN (s \o ps) = 1..(Len(s) + Len(ps)) /\ Len(ps) \in Nat /\ DOMAIN ps = 1..Len(ps)
        /\ \A i \in 1..Len(s) : (s \o ps)[i] = s[i]
        /\ \A i \in 1..Len(ps) : (s \o ps)[Len(s) + i] = ps[i]
        /\ \A i \in 1..(Len(s) + Len(ps)) :
              i \notin 1..Len(s) => i - Len(s) \in 1..Len(ps) /\ (s \o ps)[i] = ps[i - Len(s)]
    BY Joined
  <2> QED BY <2>1, <2>2
<1>2. \A i \in DOMAIN w : i \notin 1..n => w[i] \in Parents(d) \ (X \cup P \cup {t}) /\ i > n
  <2>1. \A i \in 1..Len(ps) : ps[i] \in Range(ps)
    BY <1>1 DEF Range
  <2> QED BY <1>1, <2>1
<1>3. \A q \in Parents(d) \ (X \cup P \cup {t}) : \E i \in DOMAIN w : i > n /\ w[i] = q
  <2> SUFFICES ASSUME NEW q \in Range(ps) PROVE \E i \in DOMAIN w : i > n /\ w[i] = q
    OBVIOUS
  <2>1. PICK i \in 1..Len(ps) : ps[i] = q
    BY <1>1 DEF Range
  <2>2. n + i \in DOMAIN w /\ n + i > n /\ w[n + i] = q
    BY <1>1, <2>1
  <2> QED BY <2>2
<1>4. \A i \in 1..n : i \in DOMAIN w /\ i \in DOMAIN s
  BY <1>1
<1>5. t \in Tails(M) /\ t \in P \cup {t} /\ t \notin stop /\ t \notin P
  BY DEF Tails
<1> HIDE DEF n, w, t
<1>6. \A i \in DOMAIN w : Visit(w, i, Q) => i \in 1..n /\ w[i] = s[i] /\ ((Visit(s, i, P) /\ s[i] # t /\ i < n) \/ i = n)
  <2> SUFFICES ASSUME NEW i \in DOMAIN w, Visit(w, i, Q)
               PROVE  i \in 1..n /\ w[i] = s[i] /\ ((Visit(s, i, P) /\ s[i] # t /\ i < n) \/ i = n)
    OBVIOUS
  <2>1. i \in 1..n /\ w[i] = s[i]
    BY <1>1, <1>2 DEF Visit
  <2>2. CASE i # n
    <3>1. n > i /\ n \in DOMAIN w /\ w[n] = t
      BY <1>1, <1>4, <2>1, <2>2
    <3>2. s[i] # t /\ s[i] \in P
      BY <2>1, <3>1 DEF Visit
    <3>3. \A j \in DOMAIN s : j > i => s[j] # s[i]
      BY <1>1, <1>4, <2>1 DEF Visit
    <3> QED BY <1>1, <2>1, <3>1, <3>2, <3>3 DEF Visit
  <2> QED BY <2>1, <2>2
<1>7. \A i \in DOMAIN s : Visit(s, i, P) => Visit(w, i, Q)
  <2> SUFFICES ASSUME NEW i \in DOMAIN s, Visit(s, i, P) PROVE Visit(w, i, Q)
    OBVIOUS
  <2>1. i \in DOMAIN w /\ w[i] = s[i] /\ s[i] \in P
    BY <1>1, <1>4 DEF Visit
  <2>2. ASSUME NEW j \in DOMAIN w, j > i PROVE w[j] # w[i]
    BY <1>1, <1>2, <2>1, <2>2 DEF Visit
  <2> QED BY <2>1, <2>2 DEF Visit
<1>8. Visit(w, n, Q) /\ w[n] = t /\ n \in DOMAIN w
  <2>1. n \in DOMAIN w /\ w[n] = t
    BY <1>1, <1>4
  <2>2. ASSUME NEW j \in DOMAIN w, j > n PROVE w[j] # t
    BY <1>1, <1>2, <2>2
  <2> QED BY <1>5, <2>1, <2>2 DEF Visit
<1>9. Q \subseteq Tails(M) /\ Q \cap X = {}
  BY <1>5 DEF Path, t
<1>10. \A u \in Q : \E i \in DOMAIN w : Visit(w, i, Q) /\ w[i] = u
  <2> SUFFICES ASSUME NEW u \in Q PROVE \E i \in DOMAIN w : Visit(w, i, Q) /\ w[i] = u
    OBVIOUS
  <2>1. CASE u \in P
    <3>1. PICK i \in DOMAIN s : Visit(s, i, P) /\ s[i] = u
      BY <2>1 DEF Path
    <3> QED BY <1>1, <1>4, <1>7, <3>1
  <2> QED BY <1>8, <2>1
<1>11. (Parents(d) \ stop) \cap Tails(M) \subseteq Above(M, Parents(d), stop)
  BY AboveClosed DEF ClosedUp
<1>12. ASSUME NEW e \in M.deltas, NEW i \in DOMAIN w, Visit(w, i, Q), w[i] = e.tail
       PROVE  /\ \A j \in DOMAIN w :
                   (j > i /\ w[j] \in Tails(M) \ stop) => w[j] \in Above(M, Parents(e), stop)
              /\ \A q \in Parents(e) : Covered(w, i, q, Q, X, cycles)
  <2>1. CASE i = n
    <3>1. e = d
      BY <1>8, <1>12, <2>1 DEF t, Unique
    <3>2. \A j \in DOMAIN w : j > n => w[j] \in Parents(d)
      BY <1>1, <1>2
    <3>3. ASSUME NEW q \in Parents(d) PROVE Covered(w, n, q, Q, X, cycles)
      <4>1. CASE q \in (P \cup {t}) \ X
        <5>1. cycles
          BY <4>1 DEF t
        <5>2. PICK j \in DOMAIN w : Visit(w, j, Q) /\ w[j] = q
          BY <1>10, <4>1
        <5>3. j <= n
          BY <1>1, <1>6, <5>2
        <5> QED BY <5>1, <5>2, <5>3 DEF Covered
      <4>2. CASE q \in X
        BY <4>2 DEF Covered
      <4>3. CASE q \notin X \cup P \cup {t}
        BY <1>3, <4>3 DEF Covered
      <4> QED BY <4>1, <4>2, <4>3
    <3> QED BY <1>11, <2>1, <3>1, <3>2, <3>3
  <2>2. CASE i # n
    <3>1. i \in DOMAIN s /\ Visit(s, i, P) /\ s[i] = e.tail /\ i < n
      BY <1>1, <1>6, <1>12, <2>2
    <3>2. /\ \A j \in DOMAIN s :
                (j > i /\ s[j] \in Tails(M) \ stop) => s[j] \in Above(M, Parents(e), stop)
          /\ \A q \in Parents(e) : Covered(s, i, q, P, X, cycles)
      BY <3>1 DEF Path
    <3>3. d.tail \in Above(M, Parents(e), stop)
      <4>1. n \in DOMAIN s /\ n > i /\ s[n] = d.tail
        BY <1>1, <3>1 DEF t
      <4>2. d.tail \in Tails(M) \ stop
        BY <1>5 DEF t
      <4> QED BY <3>2, <4>1, <4>2
    <3>4. Above(M, Parents(d), stop) \subseteq Above(M, Parents(e), stop)
      BY <3>3, AboveFurther
    <3>5. ASSUME NEW j \in DOMAIN w, j > i, w[j] \in Tails(M) \ stop
          PROVE  w[j] \in Above(M, Parents(e), stop)
      <4>1. CASE j \in 1..n
        BY <1>1, <3>2, <3>5, <4>1
      <4>2. CASE j \notin 1..n
        BY <1>2, <1>11, <3>4, <3>5, <4>2
      <4> QED BY <4>1, <4>2
    <3>6. ASSUME NEW q \in Parents(e) PROVE Covered(w, i, q, Q, X, cycles)
      <4>1. Covered(s, i, q, P, X, cycles)
        BY <3>2
      <4>2. CASE \E j \in DOMAIN s : j > i /\ s[j] = q
        BY <1>1, <1>4, <4>2 DEF Covered
      <4>3. CASE cycles /\ \E j \in DOMAIN s : j <= i /\ Visit(s, j, P) /\ s[j] = q
        BY <1>1, <1>4, <1>7, <4>3 DEF Covered
      <4> QED BY <4>1, <4>2, <4>3 DEF Covered
    <3> QED BY <3>5, <3>6
  <2> QED BY <2>1, <2>2
<1> QED BY <1>9, <1>10, <1>12 DEF Path, t, w

\* A delta on top of the stack whose parent is on the path lies on a cycle.
LEMMA OnCycle ==
    ASSUME NEW M, NEW S, NEW s \in Seq(S), s # <<>>, NEW P, NEW X, NEW cycles,
           Path(M, s, P, X, cycles),
           NEW d \in M.deltas, Last(s) = d.tail, d.tail # M.base.tail,
           NEW q \in Parents(d), q \in P \cup {d.tail}, q # M.base.tail
    PROVE  d.tail \in Above(M, Parents(d), {M.base.tail})
<1> DEFINE stop == {M.base.tail}
<1>1. d.tail \in Tails(M) /\ (Parents(d) \ stop) \cap Tails(M) \subseteq Above(M, Parents(d), stop)
  BY AboveClosed DEF ClosedUp, Tails
<1>2. CASE q = d.tail
  BY <1>1, <1>2
<1>3. CASE q # d.tail
  <2>1. q \in P /\ q \in Tails(M)
    BY <1>3 DEF Path
  <2>2. PICK i \in DOMAIN s : Visit(s, i, P) /\ s[i] = q
    BY <2>1 DEF Path
  <2>3. PICK e \in M.deltas : e.tail = q
    BY <2>1 DEF Tails
  <2>4. Len(s) \in Nat \ {0} /\ DOMAIN s = 1..Len(s) /\ s[Len(s)] = d.tail
    BY LastFront
  <2>5. Len(s) > i /\ Len(s) \in DOMAIN s
    BY <1>3, <2>2, <2>4
  <2>6. d.tail \in Above(M, Parents(e), stop)
    BY <1>1, <2>2, <2>3, <2>4, <2>5 DEF Path
  <2>7. e.tail \in Above(M, Parents(d), stop)
    BY <1>1, <2>1, <2>3
  <2> QED BY <2>6, <2>7, AboveFurther
<1> QED BY <1>2, <1>3

\* What is visited on top of the stack waits for nothing.
LEMMA TopCovered ==
    ASSUME NEW M, NEW S, NEW s \in Seq(S), s # <<>>, NEW P, NEW X, NEW cycles \in BOOLEAN,
           Path(M, s, P, X, cycles),
           NEW d \in M.deltas, Last(s) = d.tail, d.tail \in P
    PROVE  \A q \in Parents(d) : q \in X \/ (cycles /\ q \in P)
<1>1. Len(s) \in Nat \ {0} /\ DOMAIN s = 1..Len(s) /\ s[Len(s)] = d.tail
  BY LastFront
<1>2. Len(s) \in DOMAIN s /\ \A j \in DOMAIN s : ~(j > Len(s))
  BY <1>1
<1>3. Visit(s, Len(s), P)
  BY <1>1, <1>2 DEF Visit
<1>4. \A q \in Parents(d) : Covered(s, Len(s), q, P, X, cycles)
  BY <1>1, <1>2, <1>3 DEF Path
<1> QED BY <1>2, <1>4 DEF Covered, Visit

-----------------------------------------------------------------------------
(* The invariant: one part for each loop. *)

Asked == Range(asked.tails)

ResolveInv ==
    /\ todo \in Seq(TailId) /\ stack \in Seq(TailId) /\ ordered = <<>>
    /\ selected \subseteq Selected(L, Asked)
    /\ \A d \in L.deltas : d.tail \in selected =>
          Parents(d) \subseteq Resolved /\ d.tail \notin Above(L, Parents(d), {Base})
    /\ Asked \subseteq Range(todo) \cup Range(stack) \cup Resolved
    /\ Range(todo) \subseteq Asked
    /\ \A t \in Range(stack) :
          t \in Asked \/ \E d \in L.deltas : d.tail \in Selected(L, Asked) /\ t \in Parents(d)
    /\ Path(L, stack, onPath, Resolved, FALSE)

OrderedInv ==
    /\ ordered \in Seq(L.deltas) /\ Emitted \subseteq selected
    /\ \A i \in DOMAIN ordered :
          /\ Parents(ordered[i]) \cap selected \subseteq {ordered[j].tail : j \in 1..(i - 1)}
          /\ \A j \in 1..(i - 1) : ordered[j] # ordered[i]

\* The tails on a stack of frames.
Waiting(s) == {f[1] : f \in Range(s)}

\* A frame that waits for its parents: they are emitted or above it, and what is
\* above it is met walking up from them.
Frames(M, s, T, E) ==
    \A i \in DOMAIN s : s[i][2] =>
        /\ s[i][1] \in T \ E
        /\ \A d \in M.deltas : d.tail = s[i][1] =>
              /\ \A j \in DOMAIN s :
                    (j > i /\ s[j][1] \in T) => s[j][1] \in Above(M, Parents(d), {M.base.tail})
              /\ \A q \in Parents(d) \cap T : q \in E \/ \E j \in DOMAIN s : j > i /\ s[j][1] = q

Dated == \A d, e \in L.deltas : d.tail \in Parents(e) => DeltaBefore(d, e)

\* The selected tails on the stack that are not emitted.
Open == Waiting(stack) \cap (selected \ Emitted)

\* d is the root under way: nothing else on the stack is open.
RootInv(d) ==
    /\ Open \subseteq {d.tail}
    /\ Open # {} =>
          /\ \A i \in DOMAIN ordered : ~ DeltaBefore(d, ordered[i])
          /\ \A e \in roots : ~ DeltaBefore(e, d)

DatedInv ==
    /\ InNameOrder(ordered)
    /\ \A i \in DOMAIN ordered : \A e \in roots : ~ DeltaBefore(e, ordered[i])
    /\ stack # <<>> => \E d \in L.deltas : RootInv(d)

SortInv ==
    /\ Resolvable(L, Asked) /\ selected = Selected(L, Asked)
    /\ stack \in Seq(TailId \X BOOLEAN)
    /\ roots \subseteq {d \in L.deltas : d.tail \in selected}
    /\ selected \subseteq Emitted \cup {d.tail : d \in roots} \cup Waiting(stack)
    /\ OrderedInv
    /\ Frames(L, stack, selected, Emitted)
    /\ Dated => DatedInv

\* The question is not answered at once.
Walks == Base # NoTail /\ L.deltas # {} /\ asked.tails[1] # Base

ReachInv ==
    /\ stack \in Seq(TailId)
    /\ memo = [t \in DOMAIN memo |-> t \in Walkable(L)]
    /\ ~ Walks => stack # <<>>
    /\ Walks =>
          /\ asked.tails[1] \in DOMAIN memo \cup Range(stack)
          /\ Base \notin Range(stack)
          /\ Path(L, stack, onPath, {Base} \cup DOMAIN memo, TRUE)

DependInv ==
    /\ stack \in Seq(TailId)
    /\ asked.tails[1] \in visited \cup Range(stack)
    /\ asked.tails[1] # asked.tails[2] =>
          /\ (visited \cup Range(stack)) \cap Tails(L) \subseteq Above(L, {asked.tails[1]}, {})
          /\ \A d \in L.deltas : d.tail \in visited =>
                Parents(d) \subseteq (visited \cup Range(stack)) \ {asked.tails[2]}

Inv ==
    /\ L \in Listings /\ asked.tails \in Seq(TailId)
    /\ walk \in {"resolve", "sort", "reach", "depend", "done", "raised"}
    /\ walk = "resolve" => asked.walk = "resolve" /\ ResolveInv
    /\ walk = "sort" => asked.walk = "resolve" /\ SortInv
    /\ walk = "reach" => asked.walk = "reach" /\ ReachInv
    /\ walk = "depend" => asked.walk = "depend" /\ DependInv
    /\ walk \in {"reach", "depend"} => ordered = <<>> /\ selected = {}
    /\ walk = "raised" => ordered = <<>> /\ ~ Resolvable(L, Asked)
    /\ walk = "done" => AnswersRight /\ AppliedParentsFirst /\ ChronologicalIfDated

\* What a listing of file names is.
LEMMA OneDelta ==
    ASSUME L \in Listings
    PROVE  /\ Unique(L)
           /\ \A d \in L.deltas : d.tail \in Tails(L) /\ d.tail \in TailId /\ d.parents \in Seq(TailId)
           /\ \A d \in L.deltas : ParentsOf(d.tail) = d.parents
           /\ \A t : IsDelta(t) => \E d \in L.deltas : d.tail = t
<1>1. /\ \A d \in L.deltas : d.tail \in TailId /\ d.parents \in Seq(TailId)
      /\ Unique(L)
  BY ListingsAssumption DEF Unique
<1>2. ASSUME NEW d \in L.deltas PROVE ParentsOf(d.tail) = d.parents
  <2>1. \A e \in L.deltas : e.tail = d.tail => e = d
    BY <1>1 DEF Unique
  <2>2. (CHOOSE e \in L.deltas : e.tail = d.tail) = d
    BY <2>1
  <2> QED BY <2>2 DEF ParentsOf
<1> QED BY <1>1, <1>2 DEF Tails, IsDelta

-----------------------------------------------------------------------------
(* reachable_delta_tail_ids *)

Resolving == L \in Listings /\ asked.tails \in Seq(TailId) /\ ResolveInv

\* The baseline's tail is never selected.
LEMMA BaseNotSelected ==
    ASSUME NEW M, NEW F
    PROVE  Selected(M, F) \subseteq Tails(M) \ {M.base.tail}
<1> DEFINE S == Tails(M) \ {M.base.tail}
<1>1. S \in SUBSET Tails(M) /\ ClosedUp(M, F, {M.base.tail}, S)
  BY DEF ClosedUp
<1> HIDE DEF S
<1>2. Selected(M, F) \subseteq S
  BY <1>1, AboveLeast DEF Selected
<1> QED BY <1>2 DEF S

\* What waits on the stack is to be selected.
LEMMA WaitingSelected ==
    ASSUME Resolving, NEW t \in Range(stack), IsDelta(t), t # Base
    PROVE  t \in Selected(L, Asked)
<1>1. ClosedUp(L, Asked, {L.base.tail}, Selected(L, Asked))
  BY AboveClosed DEF Selected
<1>2. t \in Asked \/ \E d \in L.deltas : d.tail \in Selected(L, Asked) /\ t \in Parents(d)
  BY DEF Resolving, ResolveInv
<1> QED BY <1>1, <1>2 DEF ClosedUp, IsDelta, Base

\* A frontier tail goes on the empty stack.
LEMMA NextFrontierTailKeeps ==
    ASSUME Resolving, NextFrontierTail
    PROVE  ResolveInv'
<1>1. /\ todo \in Seq(TailId) /\ todo # <<>> /\ stack = <<>>
      /\ stack' = <<>> \o <<Head(todo)>> /\ todo' = Tail(todo)
      /\ UNCHANGED <<L, asked, onPath, selected, ordered>>
  BY DEF NextFrontierTail, Resolving, ResolveInv, Push, input, sorting
<1>2. /\ Tail(todo) \in Seq(TailId) /\ Head(todo) \in TailId
      /\ Range(todo) = Range(Tail(todo)) \cup {Head(todo)}
  BY <1>1, RangeOfTail
<1>3. stack' = <<Head(todo)>> /\ stack' \in Seq(TailId) /\ Range(stack') = {Head(todo)}
  BY <1>1, <1>2 DEF Range
<1>4. Range(stack) = {} /\ DOMAIN stack = {}
  BY <1>1 DEF Range
<1>5. onPath = {}
  BY <1>4 DEF Resolving, ResolveInv, Path
<1>6. Resolved' = Resolved /\ Asked' = Asked /\ Base' = Base
  BY <1>1 DEF Resolved, Asked, Base
<1>7. Path(L', stack', onPath', Resolved', FALSE)
  BY <1>1, <1>5 DEF Path, Visit
<1>8. /\ todo' \in Seq(TailId) /\ Range(todo') \subseteq Asked
      /\ Asked \subseteq Range(todo') \cup Range(stack') \cup Resolved
      /\ \A t \in Range(stack') : t \in Asked
  BY <1>1, <1>2, <1>3, <1>4 DEF Resolving, ResolveInv
<1> QED BY <1>1, <1>3, <1>6, <1>7, <1>8 DEF Resolving, ResolveInv

\* A tail that was resolved meanwhile is popped.
LEMMA SkipResolvedKeeps ==
    ASSUME Resolving, SkipResolved
    PROVE  ResolveInv'
<1>1. /\ stack \in Seq(TailId) /\ stack # <<>> /\ stack' = Front(stack) /\ Last(stack) \in Resolved
      /\ UNCHANGED <<L, asked, onPath, selected, ordered, todo>>
  BY DEF SkipResolved, Resolving, ResolveInv, Pop, Top, input, sorting, resolving
<1>2. Front(stack) \in Seq(TailId) /\ Range(stack) = Range(Front(stack)) \cup {Last(stack)}
  BY <1>1, LastFront, RangeOfFront
<1>3. Resolved' = Resolved /\ Asked' = Asked /\ Base' = Base
  BY <1>1 DEF Resolved, Asked, Base
<1>4. Path(L, stack, onPath, Resolved, FALSE)
  BY DEF Resolving, ResolveInv
<1>5. onPath \ {Last(stack)} = onPath
  BY <1>1, <1>4 DEF Path
<1>6. Path(L, Front(stack), onPath, Resolved, FALSE)
  <2>1. Path(L, Front(stack), onPath \ {Last(stack)}, Resolved, FALSE)
    BY ONLY <1>1, <1>4, PathPopped
  <2> QED BY <1>5, <2>1
<1> QED BY <1>1, <1>2, <1>3, <1>6 DEF Resolving, ResolveInv

\* The first visit either goes on or finds what cannot be resolved.
LEMMA EnterTailKeeps ==
    ASSUME Resolving, EnterTail
    PROVE  \/ walk' = walk /\ ResolveInv'
           \/ walk' = "raised" /\ ordered' = <<>> /\ ~ Resolvable(L, Asked)'
<1>1. /\ stack \in Seq(TailId) /\ stack # <<>> /\ Last(stack) \notin Resolved /\ Last(stack) \notin onPath
      /\ Range(stack) = Range(Front(stack)) \cup {Last(stack)}
      /\ UNCHANGED <<L, asked, selected, ordered, todo>> /\ ordered = <<>>
  BY RangeOfFront DEF EnterTail, Resolving, ResolveInv, Top, input, sorting, resolving
<1>2. Resolved' = Resolved /\ Asked' = Asked /\ Base' = Base
  BY <1>1 DEF Resolved, Asked, Base
<1>3. Path(L, stack, onPath, Resolved, FALSE) /\ L \in Listings /\ Base \in Resolved
  BY DEF Resolving, ResolveInv, Resolved
<1>4. Last(stack) # Base /\ Last(stack) \in Range(stack)
  BY <1>1, <1>3
<1> DEFINE up == Without(ParentsOf(Last(stack)), Resolved)
<1>5. CASE ~ IsDelta(Last(stack)) /\ walk' = "raised"
  <2>1. \/ Last(stack) \in Asked
        \/ \E d \in L.deltas : d.tail \in Selected(L, Asked) /\ Last(stack) \in Parents(d)
    BY <1>4 DEF Resolving, ResolveInv
  <2>2. ~ Resolvable(L, Asked)
    BY <1>4, <1>5, <2>1 DEF Resolvable, IsDelta, Base
  <2> QED BY <1>1, <1>2, <1>5, <2>2
<1>6. CASE IsDelta(Last(stack))
  <2>1. PICK d \in L.deltas : /\ d.tail = Last(stack) /\ ParentsOf(Last(stack)) = d.parents
                              /\ d.parents \in Seq(TailId)
    BY <1>3, <1>6, OneDelta
  <2>2. up \in Seq(TailId) /\ Range(up) = Parents(d) \ Resolved
    BY <2>1, WithoutRange DEF Parents
  <2>3. d.tail \in Selected(L, Asked)
    BY <1>4, <1>6, <2>1, WaitingSelected
  <2>4. CASE Range(up) \cap (onPath \cup {Last(stack)}) # {} /\ walk' = "raised"
    <3>1. PICK q \in Parents(d) : q \in onPath \cup {d.tail} /\ q # Base
      BY <2>1, <2>2, <2>4 DEF Resolved
    <3>2. d.tail \in Above(L, Parents(d), {Base})
      <4>1. d.tail # L.base.tail /\ q # L.base.tail
        BY <1>4, <2>1, <3>1 DEF Base
      <4> QED BY ONLY <1>1, <1>3, <2>1, <3>1, <4>1, d \in L.deltas, q \in Parents(d), OnCycle DEF Base
    <3>3. ~ Resolvable(L, Asked)
      BY <2>3, <3>2 DEF Resolvable, Base
    <3> QED BY <1>1, <1>2, <2>4, <3>3
  <2>5. CASE /\ Range(up) \cap (onPath \cup {Last(stack)}) = {} /\ UNCHANGED walk
             /\ onPath' = onPath \cup {Last(stack)} /\ stack' = stack \o up
    <3>1. Range(up) = Parents(d) \ (Resolved \cup onPath \cup {d.tail})
      BY <2>1, <2>2, <2>5
    <3>2. Parents(d) \cap (onPath \cup {d.tail}) \subseteq Resolved
      BY <2>1, <2>2, <2>5
    <3>3. Path(L, stack \o up, onPath \cup {d.tail}, Resolved, FALSE)
      <4>1. Unique(L) /\ L.base.tail \in Resolved
        BY <1>3, OneDelta DEF Base
      <4>2. d.tail \notin Resolved /\ d.tail \notin onPath
        BY <1>1, <2>1
      <4> HIDE DEF up
      <4> QED BY ONLY <1>1, <1>3, <2>1, <2>2, <3>1, <3>2, <4>1, <4>2, d \in L.deltas, PathPushed
    <3>4. stack' \in Seq(TailId) /\ Range(stack') = Range(stack) \cup Range(up)
      BY <1>1, <2>2, <2>5, Joined
    <3>5. \A t \in Range(stack') :
            t \in Asked \/ \E e \in L.deltas : e.tail \in Selected(L, Asked) /\ t \in Parents(e)
      BY <2>2, <2>3, <3>4 DEF Resolving, ResolveInv
    <3>6. Path(L', stack', onPath', Resolved', FALSE)
      BY <1>1, <1>2, <2>1, <2>5, <3>3
    <3> HIDE DEF up
    <3> QED BY <1>1, <1>2, <2>5, <3>4, <3>5, <3>6 DEF Resolving, ResolveInv
  <2> QED BY <1>6, <2>4, <2>5 DEF EnterTail, Top, Push
<1> QED BY <1>5, <1>6 DEF EnterTail, Top

\* On the second visit all parents are resolved, and none of them leads back.
LEMMA LeaveTailKeeps ==
    ASSUME Resolving, LeaveTail
    PROVE  ResolveInv'
<1>1. /\ stack \in Seq(TailId) /\ stack # <<>> /\ Last(stack) \notin Resolved /\ Last(stack) \in onPath
      /\ stack' = Front(stack) /\ onPath' = onPath \ {Last(stack)} /\ selected' = selected \cup {Last(stack)}
      /\ UNCHANGED <<L, asked, ordered, todo>>
  BY DEF LeaveTail, Resolving, ResolveInv, Top, Pop, input, sorting
<1>2. Front(stack) \in Seq(TailId) /\ Range(stack) = Range(Front(stack)) \cup {Last(stack)}
  BY <1>1, LastFront, RangeOfFront
<1>3. Resolved' = Resolved \cup {Last(stack)} /\ Asked' = Asked /\ Base' = Base
  BY <1>1 DEF Resolved, Asked, Base
<1>4. Path(L, stack, onPath, Resolved, FALSE) /\ L \in Listings
  BY DEF Resolving, ResolveInv
<1>5. PICK d \in L.deltas : d.tail = Last(stack)
  BY <1>1, <1>4 DEF Path, Tails
<1>6. Unique(L) /\ Last(stack) # Base /\ IsDelta(Last(stack))
  BY <1>1, <1>4, <1>5, OneDelta DEF Resolved, IsDelta
<1>7. Parents(d) \subseteq Resolved
  <2>1. \A q \in Parents(d) : q \in Resolved \/ (FALSE /\ q \in onPath)
    <3>1. d.tail \in onPath
      BY <1>1, <1>5
    <3>2. FALSE \in BOOLEAN
      OBVIOUS
    <3> QED BY ONLY <1>1, <1>4, <1>5, <3>1, <3>2, d \in L.deltas, TopCovered
  <2> QED BY <2>1
<1>8. Last(stack) \in Selected(L, Asked)
  BY <1>2, <1>6, WaitingSelected
<1>9. d.tail \notin Above(L, Parents(d), {Base})
  <2>1. selected \in SUBSET Tails(L)
    BY BaseNotSelected DEF Resolving, ResolveInv
  <2>2. ClosedUp(L, Parents(d), {Base}, selected)
    BY <1>7 DEF ClosedUp, Resolving, ResolveInv, Resolved
  <2>3. Above(L, Parents(d), {Base}) \subseteq selected
    BY <2>1, <2>2, AboveLeast
  <2> QED BY <1>1, <1>5, <2>3 DEF Resolved
<1>10. ASSUME NEW e \in L.deltas, e.tail \in selected'
       PROVE  Parents(e) \subseteq Resolved' /\ e.tail \notin Above(L, Parents(e), {Base})
  <2>1. CASE e.tail \in selected
    BY <1>3, <2>1 DEF Resolving, ResolveInv
  <2>2. CASE e = d
    BY <1>3, <1>7, <1>9, <2>2
  <2> QED BY <1>1, <1>5, <1>6, <1>10, <2>1, <2>2 DEF Unique
<1>11. Path(L, Front(stack), onPath \ {Last(stack)}, Resolved \cup {Last(stack)}, FALSE)
  BY ONLY <1>1, <1>4, PathPopped
<1>12. selected' \subseteq Selected(L, Asked)
  BY <1>1, <1>8 DEF Resolving, ResolveInv
<1> QED BY <1>1, <1>2, <1>3, <1>10, <1>11, <1>12 DEF Resolving, ResolveInv

-----------------------------------------------------------------------------
(* topologically_sorted_delta_filenames *)

\* What leaves the stack is emitted, or is none of the selected.
LEMMA FramePopped ==
    ASSUME NEW M, NEW S, NEW s \in Seq(S), s # <<>>, NEW T, NEW E, NEW D,
           Frames(M, s, T, E), E \subseteq D,
           Last(s)[1] \in T => Last(s)[1] \in D,
           \A i \in 1..(Len(s) - 1) : s[i][2] => s[i][1] \notin D
    PROVE  Frames(M, Front(s), T, D)
<1> DEFINE n == Len(s)
           f == Front(s)
<1>1. /\ n \in Nat \ {0} /\ DOMAIN s = 1..n /\ Last(s) = s[n] /\ DOMAIN f = 1..(n - 1)
      /\ \A i \in 1..(n - 1) : f[i] = s[i]
  BY LastFront
<1>2. 1..n = (1..(n - 1)) \cup {n} /\ \A i \in 1..(n - 1) : i \in 1..n
  BY <1>1
<1>3. \A i \in 1..(n - 1) : s[i][2] => s[i][1] \notin D
  OBVIOUS
<1> HIDE DEF n, f
<1> SUFFICES ASSUME NEW i \in DOMAIN f, f[i][2]
             PROVE  /\ f[i][1] \in T \ D
                    /\ \A d \in M.deltas : d.tail = f[i][1] =>
                          /\ \A j \in DOMAIN f :
                                (j > i /\ f[j][1] \in T) => f[j][1] \in Above(M, Parents(d), {M.base.tail})
                          /\ \A q \in Parents(d) \cap T : q \in D \/ \E j \in DOMAIN f : j > i /\ f[j][1] = q
  BY DEF Frames, f
<1>4. i \in DOMAIN s /\ i \in 1..(n - 1) /\ f[i] = s[i]
  BY <1>1, <1>2
<1>5. f[i][1] \in T \ D
  BY <1>3, <1>4 DEF Frames
<1>6. ASSUME NEW d \in M.deltas, d.tail = f[i][1]
      PROVE  /\ \A j \in DOMAIN f :
                   (j > i /\ f[j][1] \in T) => f[j][1] \in Above(M, Parents(d), {M.base.tail})
             /\ \A q \in Parents(d) \cap T : q \in D \/ \E j \in DOMAIN f : j > i /\ f[j][1] = q
  <2>1. /\ \A j \in DOMAIN s :
              (j > i /\ s[j][1] \in T) => s[j][1] \in Above(M, Parents(d), {M.base.tail})
        /\ \A q \in Parents(d) \cap T : q \in E \/ \E j \in DOMAIN s : j > i /\ s[j][1] = q
    <3>1. s[i][2] /\ d.tail = s[i][1]
      BY <1>4, <1>6
    <3> QED BY ONLY <1>4, <3>1, Frames(M, s, T, E), d \in M.deltas DEF Frames
  <2>2. ASSUME NEW q \in Parents(d) \cap T PROVE q \in D \/ \E j \in DOMAIN f : j > i /\ f[j][1] = q
    <3>1. CASE \E j \in DOMAIN s : j > i /\ s[j][1] = q
      <4>1. PICK j \in DOMAIN s : j > i /\ s[j][1] = q
        BY <3>1
      <4>2. CASE j = n
        BY <1>1, <4>1, <4>2
      <4>3. CASE j # n
        BY <1>1, <1>2, <4>1, <4>3
      <4> QED BY <4>2, <4>3
    <3> QED BY <2>1, <3>1
  <2> QED BY <1>1, <1>2, <2>1, <2>2
<1> QED BY <1>5, <1>6

\* The stack w is s with the tail t on top, now waiting for Q, the tails above it.
Expanded(s, w, t, Q) ==
    LET n == Len(s)
    IN  /\ n \in Nat \ {0} /\ DOMAIN s = 1..n
        /\ \E k \in Nat : DOMAIN w = 1..(n + k)
        /\ \A i \in 1..(n - 1) : w[i] = s[i]
        /\ w[n] = <<t, TRUE>>
        /\ \A i \in DOMAIN w : i \notin 1..n => w[i][1] \in Q /\ w[i][2] = FALSE
        /\ \A q \in Q : \E i \in DOMAIN w : i \notin 1..n /\ w[i][1] = q
        /\ Waiting(w) = Waiting(Front(s)) \cup {t} \cup Q

\* The frame that is expanded waits for what is pushed; the others still do.
LEMMA FramesPushed ==
    ASSUME NEW M, Unique(M), NEW T, T \subseteq Tails(M) \ {M.base.tail}, NEW E,
           NEW s, NEW w, Frames(M, s, T, E),
           NEW d \in M.deltas, d.tail \in T \ E, Last(s)[1] = d.tail,
           Expanded(s, w, d.tail, Parents(d))
    PROVE  Frames(M, w, T, E)
<1> DEFINE n == Len(s)
<1>0. /\ n \in Nat \ {0} /\ DOMAIN s = 1..n
      /\ \A i \in 1..(n - 1) : w[i] = s[i]
      /\ w[n] = <<d.tail, TRUE>>
      /\ \A i \in DOMAIN w : i \notin 1..n => w[i][1] \in Parents(d) /\ w[i][2] = FALSE
      /\ \A q \in Parents(d) : \E i \in DOMAIN w : i \notin 1..n /\ w[i][1] = q
  BY DEF Expanded
<1>1. PICK k \in Nat : DOMAIN w = 1..(n + k)
  BY DEF Expanded
<1>2. s[n][1] = d.tail
  BY DEF Last
<1> HIDE DEF n
<1> DEFINE stop == {M.base.tail}
<1>9. \A i \in 1..(n + k) : i \notin 1..n => i > n
  BY <1>0
<1>10. /\ \A i \in 1..(n - 1) : i \in DOMAIN w /\ i \in DOMAIN s /\ w[i] = s[i] /\ i < n
       /\ n \in DOMAIN w /\ n \in DOMAIN s /\ w[n] = <<d.tail, TRUE>> /\ n \in 1..n
  BY <1>0, <1>1
<1>11. ASSUME NEW i \in DOMAIN w, i \notin 1..n
       PROVE  w[i][1] \in Parents(d) /\ w[i][2] = FALSE /\ i > n
  BY <1>0, <1>1, <1>9, <1>11
<1>12. \A q \in Parents(d) : \E i \in DOMAIN w : i > n /\ w[i][1] = q
  BY <1>0, <1>1, <1>9
<1>14. (Parents(d) \ stop) \cap Tails(M) \subseteq Above(M, Parents(d), stop)
  BY AboveClosed DEF ClosedUp
<1>15. ASSUME NEW i \in DOMAIN w, w[i][2]
       PROVE  /\ w[i][1] \in T \ E
              /\ \A e \in M.deltas : e.tail = w[i][1] =>
                    /\ \A j \in DOMAIN w : (j > i /\ w[j][1] \in T) => w[j][1] \in Above(M, Parents(e), stop)
                    /\ \A q \in Parents(e) \cap T : q \in E \/ \E j \in DOMAIN w : j > i /\ w[j][1] = q
  <2>1. i \in 1..n
    BY <1>0, <1>1, <1>11, <1>15
  <2>2. CASE i = n
    <3>1. ASSUME NEW e \in M.deltas, e.tail = w[i][1] PROVE e = d
      BY <1>0, <1>1, <1>2, <1>10, <2>2, <3>1 DEF Unique
    <3>2. \A j \in DOMAIN w : j > n => w[j][1] \in Parents(d)
      BY <1>0, <1>1, <1>11
    <3>3. \A j \in DOMAIN w : (j > n /\ w[j][1] \in T) => w[j][1] \in Above(M, Parents(d), stop)
      BY <1>14, <3>2
    <3>4. w[i][1] = d.tail
      BY <1>0, <1>1, <1>2, <1>10, <2>2
    <3> QED BY ONLY <1>12, <2>2, <3>1, <3>3, <3>4, d.tail \in T \ E
  <2>3. CASE i # n
    <3>1. i \in 1..(n - 1) /\ i < n /\ w[i] = s[i] /\ i \in DOMAIN s
      BY <1>0, <1>1, <1>2, <1>10, <2>1, <2>3
    <3>2. s[i][1] \in T \ E
      BY <1>15, <3>1 DEF Frames
    <3>3. ASSUME NEW e \in M.deltas, e.tail = w[i][1]
          PROVE  /\ \A j \in DOMAIN w : (j > i /\ w[j][1] \in T) => w[j][1] \in Above(M, Parents(e), stop)
                 /\ \A q \in Parents(e) \cap T : q \in E \/ \E j \in DOMAIN w : j > i /\ w[j][1] = q
      <4>1. /\ \A j \in DOMAIN s : (j > i /\ s[j][1] \in T) => s[j][1] \in Above(M, Parents(e), stop)
            /\ \A q \in Parents(e) \cap T : q \in E \/ \E j \in DOMAIN s : j > i /\ s[j][1] = q
        <5>1. s[i][2] /\ e.tail = s[i][1]
          BY <1>15, <3>1, <3>3
        <5> QED BY ONLY <3>1, <5>1, Frames(M, s, T, E), e \in M.deltas DEF Frames
      <4>2. \A j \in 1..n : w[j][1] = s[j][1] /\ j \in DOMAIN s /\ j \in DOMAIN w
        BY <1>0, <1>1, <1>2, <1>10
      <4>3. d.tail \in Above(M, Parents(e), stop)
        BY <1>0, <1>1, <1>2, <1>10, <3>1, <4>1
      <4>4. Above(M, Parents(d), stop) \subseteq Above(M, Parents(e), stop)
        BY <4>3, AboveFurther
      <4>5. ASSUME NEW j \in DOMAIN w, j > i, w[j][1] \in T PROVE w[j][1] \in Above(M, Parents(e), stop)
        <5>1. CASE j \in 1..n
          BY ONLY <4>1, <4>2, <4>5, <5>1
        <5>2. CASE j \notin 1..n
          BY <1>0, <1>1, <1>11, <1>14, <4>4, <4>5, <5>2
        <5> QED BY <5>1, <5>2
      <4>6. ASSUME NEW q \in Parents(e) \cap T PROVE q \in E \/ \E j \in DOMAIN w : j > i /\ w[j][1] = q
        BY <1>0, <4>1, <4>2
      <4> QED BY <4>5, <4>6
    <3> QED BY <3>1, <3>2, <3>3
  <2> QED BY <2>2, <2>3
<1> QED BY <1>15 DEF Frames

\* The stack s once the tail t on top of it waits for the tails ps.
Pushed(s, t, ps) ==
    Front(s) \o <<<<t, TRUE>>>> \o [i \in DOMAIN ps |-> <<ps[i], FALSE>>]

\* The shape of a stack of frames once its top is expanded.
LEMMA FrameExpanded ==
    ASSUME NEW S, NEW Z, NEW s \in Seq(Z), s # <<>>, NEW t, NEW ps \in Seq(S),
           <<t, TRUE>> \in Z, \A p \in S : <<p, FALSE>> \in Z
    PROVE  Pushed(s, t, ps) \in Seq(Z) /\ Expanded(s, Pushed(s, t, ps), t, Range(ps))
<1> DEFINE n == Len(s)
           m == Len(ps)
           f == Front(s)
           one == <<<<t, TRUE>>>>
           u == [i \in DOMAIN ps |-> <<ps[i], FALSE>>]
           v == f \o one
           w == Pushed(s, t, ps)
<1>0. w = v \o u
  BY DEF Pushed
<1>1. /\ n \in Nat \ {0} /\ DOMAIN s = 1..n /\ DOMAIN f = 1..(n - 1)
      /\ f \in Seq(Z) /\ \A i \in 1..(n - 1) : f[i] = s[i]
  BY ONLY s \in Seq(Z), s # <<>>, LastFront
<1>2. m \in Nat /\ DOMAIN ps = 1..m /\ \A i \in 1..m : ps[i] \in S
  BY ONLY ps \in Seq(S)
<1>3. /\ u \in Seq(Z) /\ Len(u) = m /\ DOMAIN u = 1..m
      /\ \A i \in 1..m : u[i] = <<ps[i], FALSE>>
  <2>1. DOMAIN u = 1..m /\ \A i \in 1..m : u[i] = <<ps[i], FALSE>>
    BY ONLY <1>2
  <2>2. \A i \in 1..m : <<ps[i], FALSE>> \in Z
    BY ONLY <1>2, \A p \in S : <<p, FALSE>> \in Z
  <2>3. u = [i \in 1..m |-> <<ps[i], FALSE>>]
    BY ONLY <1>2
  <2> DEFINE g(i) == <<ps[i], FALSE>>
  <2>4. u = [i \in 1..m |-> g(i)] /\ \A i \in 1..m : g(i) \in Z
    BY ONLY <2>2, <2>3
  <2> HIDE DEF g, u
  <2>5. u \in Seq(Z) /\ Len(u) = m
    BY ONLY <1>2, <2>4
  <2> QED BY <2>1, <2>5
<1>4. one \in Seq(Z) /\ Len(one) = 1 /\ DOMAIN one = {1} /\ one[1] = <<t, TRUE>>
  <2> DEFINE z == <<t, TRUE>>
  <2>1. z \in Z
    OBVIOUS
  <2> HIDE DEF z
  <2>2. <<z>> \in Seq(Z) /\ Len(<<z>>) = 1 /\ DOMAIN <<z>> = {1} /\ <<z>>[1] = z
    BY ONLY <2>1
  <2> QED BY <2>2 DEF z
<1>5. Len(f) = n - 1
  BY ONLY <1>1, s \in Seq(Z), s # <<>> DEF Front
<1>6. Range(one) = {<<t, TRUE>>}
  <2> DEFINE z == <<t, TRUE>>
  <2>1. DOMAIN one = {1} /\ one[1] = z
    BY <1>4
  <2> HIDE DEF one, z
  <2>2. Range(one) = {z}
    BY ONLY <2>1 DEF Range
  <2> QED BY <2>2 DEF z
<1>7. /\ {g[1] : g \in Range(u)} = Range(ps)
      /\ \A i \in 1..m : u[i][1] = ps[i] /\ u[i][2] = FALSE /\ ps[i] \in Range(ps)
  <2>1. \A i \in 1..m : u[i][1] = ps[i] /\ u[i][2] = FALSE
    <3>1. \A i \in 1..m : <<ps[i], FALSE>>[1] = ps[i] /\ <<ps[i], FALSE>>[2] = FALSE
      OBVIOUS
    <3>2. ASSUME NEW i \in 1..m PROVE u[i][1] = ps[i] /\ u[i][2] = FALSE
      <4>1. u[i] = <<ps[i], FALSE>>
        BY <1>3
      <4> QED BY <3>1, <4>1
    <3> QED BY <3>2
  <2> HIDE DEF u
  <2>2. DOMAIN u = 1..m
    BY <1>3
  <2>3. Range(u) = {u[i] : i \in 1..m}
    BY ONLY <2>2 DEF Range
  <2>4. Range(ps) = {ps[i] : i \in 1..m}
    BY ONLY <1>2 DEF Range
  <2> QED BY ONLY <2>1, <2>3, <2>4
<1> HIDE DEF n, m, f, u, one, v, w
<1>8. /\ v \in Seq(Z) /\ Len(v) = n /\ v[n] = <<t, TRUE>>
      /\ \A i \in 1..(n - 1) : v[i] = f[i]
      /\ Range(v) = Range(f) \cup Range(one)
  <2>1. /\ v \in Seq(Z) /\ Len(v) = Len(f) + Len(one)
        /\ \A i \in 1..(Len(f) + Len(one)) : v[i] = IF i <= Len(f) THEN f[i] ELSE one[i - Len(f)]
    <3>1. f \in Seq(Z) /\ one \in Seq(Z)
      BY <1>1, <1>4
    <3> QED BY ONLY <3>1, ConcatProperties DEF v
  <2>2. Range(v) = Range(f) \cup Range(one)
    BY ONLY <1>1, <1>4, Joined DEF v
  <2>3. Len(v) = n /\ n \in 1..n /\ ~(n <= n - 1) /\ n - (n - 1) = 1
    BY ONLY <1>1, <1>4, <1>5, <2>1
  <2>4. v[n] = one[1]
    BY ONLY <1>4, <1>5, <2>1, <2>3
  <2>5. \A i \in 1..(n - 1) : i \in 1..n /\ i <= n - 1
    BY ONLY <1>1
  <2> QED BY ONLY <1>4, <1>5, <2>1, <2>2, <2>3, <2>4, <2>5
<1>9. /\ w \in Seq(Z) /\ DOMAIN w = 1..(n + m)
      /\ \A i \in 1..n : w[i] = v[i]
      /\ \A i \in 1..m : w[n + i] = u[i]
      /\ \A i \in 1..(n + m) : i \notin 1..n => i - n \in 1..m /\ w[i] = u[i - n]
      /\ Range(w) = Range(v) \cup Range(u)
  <2>1. v \in Seq(Z) /\ u \in Seq(Z) /\ Len(v) = n /\ Len(u) = m
    BY <1>3, <1>8
  <2>2. v \o u \in Seq(Z) /\ DOMAIN (v \o u) = 1..(Len(v) + Len(u))
    <3>1. v \o u \in Seq(Z) /\ Len(v \o u) = Len(v) + Len(u)
      BY ONLY <2>1, ConcatProperties
    <3> QED BY ONLY <3>1, LenProperties
  <2>3. \A i \in 1..Len(v) : (v \o u)[i] = v[i]
    BY ONLY <2>1, Joined
  <2>4. \A i \in 1..Len(u) : (v \o u)[Len(v) + i] = u[i]
    <3>1. /\ Len(v) \in Nat /\ Len(u) \in Nat
          /\ \A i \in 1..(Len(v) + Len(u)) : (v \o u)[i] = IF i <= Len(v) THEN v[i] ELSE u[i - Len(v)]
      BY ONLY <2>1, ConcatProperties, LenProperties
    <3>2. \A i \in 1..Len(u) : /\ Len(v) + i \in 1..(Len(v) + Len(u)) /\ ~(Len(v) + i <= Len(v))
                              /\ (Len(v) + i) - Len(v) = i
      BY ONLY <3>1
    <3> QED BY ONLY <3>1, <3>2
  <2>5. \A i \in 1..(Len(v) + Len(u)) :
              i \notin 1..Len(v) => i - Len(v) \in 1..Len(u) /\ (v \o u)[i] = u[i - Len(v)]
    BY ONLY <2>1, Joined
  <2>6. Range(v \o u) = Range(v) \cup Range(u)
    BY ONLY <2>1, Joined
  <2> QED BY ONLY <1>0, <2>1, <2>2, <2>3, <2>4, <2>5, <2>6
<1>10. \A i \in 1..(n - 1) : w[i] = s[i]
  <2>1. \A i \in 1..(n - 1) : i \in 1..n
    BY ONLY <1>1
  <2> QED BY ONLY <1>1, <1>8, <1>9, <2>1
<1>11. w[n] = <<t, TRUE>>
  <2>1. n \in 1..n /\ v[n] = <<t, TRUE>>
    BY <1>1, <1>8
  <2>2. w[n] = v[n]
    BY ONLY <1>9, <2>1
  <2> QED BY <2>1, <2>2
<1>12. \A i \in DOMAIN w : i \notin 1..n => w[i][1] \in Range(ps) /\ w[i][2] = FALSE
  BY ONLY <1>7, <1>9
<1>13. ASSUME NEW q \in Range(ps) PROVE \E i \in DOMAIN w : i \notin 1..n /\ w[i][1] = q
  <2>1. PICK i \in 1..m : ps[i] = q
    BY ONLY <1>2, q \in Range(ps) DEF Range
  <2>2. n + i \in 1..(n + m) /\ n + i \notin 1..n
    BY ONLY <1>1, <1>2, i \in 1..m
  <2>3. w[n + i][1] = q
    BY ONLY <1>7, <1>9, <2>1
  <2> QED BY ONLY <1>9, <2>2, <2>3
<1>14. Waiting(w) = Waiting(f) \cup {t} \cup Range(ps)
  <2>1. Waiting(w) = {g[1] : g \in Range(f)} \cup {g[1] : g \in {<<t, TRUE>>}} \cup {g[1] : g \in Range(u)}
    BY ONLY <1>6, <1>8, <1>9 DEF Waiting
  <2>2. {g[1] : g \in {<<t, TRUE>>}} = {t}
    OBVIOUS
  <2> QED BY ONLY <1>7, <2>1, <2>2 DEF Waiting
<1> QED BY <1>1, <1>2, <1>9, <1>10, <1>11, <1>12, <1>13, <1>14 DEF n, m, f, w, Expanded

Sorting == L \in Listings /\ asked.tails \in Seq(TailId) /\ SortInv

\* What was resolved is closed, so it is all that is to be selected.
LEMMA StartSortingKeeps ==
    ASSUME Resolving, StartSorting
    PROVE  SortInv'
<1>1. /\ stack = <<>> /\ todo = <<>> /\ ordered = <<>> /\ roots' = {d \in L.deltas : d.tail \in selected}
      /\ UNCHANGED <<L, asked, stack, selected, ordered>>
  BY DEF StartSorting, Resolving, ResolveInv, input, resolving
<1>2. Asked' = Asked /\ Base' = Base /\ Emitted' = Emitted /\ Emitted = {} /\ DOMAIN ordered = {}
      /\ DOMAIN stack = {} /\ Range(stack) = {} /\ Range(todo) = {} /\ Waiting(stack) = {}
  BY <1>1 DEF Asked, Base, Emitted, Range, Waiting
<1>3. /\ Asked \subseteq Resolved /\ selected \subseteq Selected(L, Asked)
      /\ \A d \in L.deltas : d.tail \in selected =>
            Parents(d) \subseteq Resolved /\ d.tail \notin Above(L, Parents(d), {Base})
  BY <1>2 DEF Resolving, ResolveInv
<1>4. selected \in SUBSET Tails(L)
  BY <1>3, BaseNotSelected
<1>5. selected = Selected(L, Asked)
  <2>1. ClosedUp(L, Asked, {Base}, selected)
    BY <1>3 DEF ClosedUp, Resolved
  <2>2. Above(L, Asked, {Base}) \subseteq selected
    BY <1>4, <2>1, AboveLeast
  <2> QED BY <1>3, <2>2 DEF Selected, Base
<1>6. Resolvable(L, Asked)
  <2>1. Resolved \subseteq Tails(L) \cup {Base}
    BY <1>4 DEF Resolved
  <2> QED BY <1>3, <1>5, <2>1 DEF Resolvable, Base
<1>7. selected \subseteq {d.tail : d \in roots'}
  <2> SUFFICES ASSUME NEW t \in selected PROVE \E d \in roots' : t = d.tail
    OBVIOUS
  <2>1. PICK d \in L.deltas : d.tail = t
    BY <1>4 DEF Tails
  <2> QED BY <1>1, <2>1
<1>8. /\ ordered \in Seq(L.deltas) /\ Frames(L, stack, selected, Emitted)
      /\ stack \in Seq(TailId \X BOOLEAN) /\ InNameOrder(ordered)
  BY <1>1, <1>2 DEF Frames, InNameOrder
<1>9. OrderedInv'
  <2>1. DOMAIN ordered' = {} /\ Emitted' \subseteq selected' /\ ordered' \in Seq(L'.deltas)
    BY <1>1, <1>2, <1>8
  <2> QED BY <2>1 DEF OrderedInv
<1>10. DatedInv'
  <2>1. InNameOrder(ordered)' /\ DOMAIN ordered' = {} /\ stack' = <<>>
    BY <1>1, <1>2, <1>8
  <2> QED BY <2>1 DEF DatedInv
<1>11. Frames(L', stack', selected', Emitted')
  BY <1>1, <1>2, <1>8
<1>12. (selected \subseteq Emitted \cup {d.tail : d \in roots} \cup Waiting(stack))'
  BY <1>1, <1>7
<1>13. /\ Resolvable(L', Asked') /\ selected' = Selected(L', Asked') /\ stack' \in Seq(TailId \X BOOLEAN)
       /\ roots' \subseteq {d \in L'.deltas : d.tail \in selected'}
  BY <1>1, <1>2, <1>5, <1>6, <1>8
<1> QED BY <1>9, <1>10, <1>11, <1>12, <1>13 DEF SortInv

\* Popping takes away what waited on top.
LEMMA WaitingOfFront ==
    ASSUME NEW S, NEW s \in Seq(S), s # <<>>
    PROVE  Waiting(s) = Waiting(Front(s)) \cup {Last(s)[1]}
BY RangeOfFront DEF Waiting

\* What the steps of this walk leave alone.
LEMMA SortingFacts ==
    ASSUME Sorting
    PROVE  /\ Unique(L) /\ selected \subseteq Tails(L) \ {Base}
           /\ \A d \in L.deltas : d.tail \in selected =>
                 d.tail \notin Above(L, Parents(d), {Base})
           /\ stack # <<>> =>
                 /\ Top \in TailId \X BOOLEAN /\ Front(stack) \in Seq(TailId \X BOOLEAN)
                 /\ Waiting(stack) = Waiting(Front(stack)) \cup {Top[1]}
<1>1. Unique(L)
  BY OneDelta DEF Sorting
<1>2. selected \subseteq Tails(L) \ {Base}
  BY BaseNotSelected DEF Sorting, SortInv, Base
<1>3. \A d \in L.deltas : d.tail \in selected => d.tail \notin Above(L, Parents(d), {Base})
  BY DEF Sorting, SortInv, Resolvable, Base
<1>4. stack # <<>> =>
         /\ Top \in TailId \X BOOLEAN /\ Front(stack) \in Seq(TailId \X BOOLEAN)
         /\ Waiting(stack) = Waiting(Front(stack)) \cup {Top[1]}
  <2>1. stack \in Seq(TailId \X BOOLEAN)
    BY DEF Sorting, SortInv
  <2> QED BY ONLY <2>1, LastFront, WaitingOfFront DEF Top
<1> QED BY <1>1, <1>2, <1>3, <1>4

\* The part of the invariant that speaks of dates, of a step that emits nothing.
LEMMA DatedKept ==
    ASSUME Sorting, UNCHANGED <<L, asked, selected, ordered, roots>>, Dated => DatedInv,
           stack # <<>>, Dated => Open' \subseteq Open
    PROVE  (Dated => DatedInv)'
<1> SUFFICES ASSUME Dated' PROVE DatedInv'
  OBVIOUS
<1>1. Dated
  BY DEF Dated
<1>2. DatedInv /\ Open' \subseteq Open
  BY <1>1
<1>3. PICK d \in L.deltas : RootInv(d)
  BY <1>2 DEF DatedInv
<1>4. RootInv(d)'
  BY <1>2, <1>3 DEF RootInv
<1>5. InNameOrder(ordered)' /\ \A i \in DOMAIN ordered' : \A e \in roots' : ~ DeltaBefore(e, ordered'[i])
  BY <1>2 DEF DatedInv
<1> QED BY <1>4, <1>5 DEF DatedInv

\* The next root is the oldest of those left.
LEMMA NextRootKeeps ==
    ASSUME Sorting, NextRoot
    PROVE  SortInv'
<1>1. stack = <<>> /\ UNCHANGED <<L, asked, selected, ordered>>
  BY DEF NextRoot, input, resolving
<1>2. PICK d \in roots : (\A e \in roots : ~ DeltaBefore(e, d)) /\ roots' = roots \ {d} /\ stack' = <<>> \o <<<<d.tail, FALSE>>>>
  BY <1>1 DEF NextRoot, Push
<1>3. Emitted' = Emitted /\ Asked' = Asked /\ Waiting(stack) = {}
  BY <1>1 DEF Emitted, Asked, Waiting, Range
<1>4. d \in L.deltas /\ d.tail \in selected /\ d.tail \in TailId
  <2>1. d \in L.deltas /\ d.tail \in selected
    BY <1>2 DEF Sorting, SortInv
  <2> QED BY <2>1, OneDelta DEF Sorting
<1>5. /\ stack' \in Seq(TailId \X BOOLEAN) /\ DOMAIN stack' = {1} /\ Waiting(stack') = {d.tail}
      /\ stack'[1][2] = FALSE
  <2> DEFINE z == <<d.tail, FALSE>>
  <2>1. z \in TailId \X BOOLEAN /\ z[1] = d.tail /\ z[2] = FALSE
    BY <1>4
  <2>2. stack' = <<>> \o <<z>>
    BY <1>2
  <2> HIDE DEF z
  <2>3. stack' = <<z>> /\ stack' \in Seq(TailId \X BOOLEAN) /\ DOMAIN stack' = {1} /\ stack'[1] = z
    BY ONLY <2>1, <2>2
  <2>4. Range(stack') = {z}
    BY ONLY <2>3 DEF Range
  <2>5. Waiting(stack') = {d.tail}
    BY ONLY <2>1, <2>4 DEF Waiting
  <2> QED BY <2>1, <2>3, <2>5
<1>6. Frames(L', stack', selected', Emitted')
  BY <1>5 DEF Frames
<1>7. OrderedInv'
  BY <1>1, <1>3 DEF Sorting, SortInv, OrderedInv
<1>8. (Dated => DatedInv)'
  <2> SUFFICES ASSUME Dated' PROVE DatedInv'
    OBVIOUS
  <2>1. Dated
    BY <1>1 DEF Dated
  <2>2. DatedInv
    BY <2>1 DEF Sorting, SortInv
  <2>3. /\ InNameOrder(ordered) /\ \A i \in DOMAIN ordered : \A e \in roots : ~ DeltaBefore(e, ordered[i])
    BY <2>2 DEF DatedInv
  <2>4. Open' \subseteq {d.tail}
    BY <1>5 DEF Open
  <2>5. RootInv(d)'
    <3>1. \A i \in DOMAIN ordered' : ~ DeltaBefore(d, ordered'[i])
      BY <1>1, <2>3
    <3>2. \A e \in roots' : ~ DeltaBefore(e, d)
      BY <1>2
    <3> QED BY <2>4, <3>1, <3>2 DEF RootInv
  <2>6. InNameOrder(ordered)' /\ \A i \in DOMAIN ordered' : \A e \in roots' : ~ DeltaBefore(e, ordered'[i])
    BY <1>1, <1>2, <2>3
  <2> QED BY <1>1, <1>4, <2>5, <2>6 DEF DatedInv
<1>9. (selected \subseteq Emitted \cup {e.tail : e \in roots} \cup Waiting(stack))'
  <2>1. selected \subseteq Emitted \cup {e.tail : e \in roots}
    BY <1>3 DEF Sorting, SortInv
  <2>2. {e.tail : e \in roots} \subseteq {e.tail : e \in roots'} \cup {d.tail}
    BY <1>2
  <2> QED BY <1>1, <1>3, <1>5, <2>1, <2>2
<1>10. /\ Resolvable(L', Asked') /\ selected' = Selected(L', Asked')
       /\ roots' \subseteq {e \in L'.deltas : e.tail \in selected'}
  BY <1>1, <1>2, <1>3 DEF Sorting, SortInv
<1> QED BY <1>5, <1>6, <1>7, <1>8, <1>9, <1>10 DEF SortInv

\* What is emitted already, or is below the baseline, is skipped.
LEMMA SkipFrameKeeps ==
    ASSUME Sorting, SkipFrame
    PROVE  SortInv'
<1>1. /\ stack # <<>> /\ (Top[1] \in Emitted \/ Top[1] \notin selected)
      /\ stack' = Front(stack) /\ UNCHANGED <<L, asked, selected, ordered, roots>>
  BY DEF SkipFrame, input, resolving, sorting, Pop
<1>2. Emitted' = Emitted /\ Asked' = Asked
  BY <1>1 DEF Emitted, Asked
<1>3. Front(stack) \in Seq(TailId \X BOOLEAN) /\ Waiting(stack) = Waiting(Front(stack)) \cup {Top[1]}
  BY <1>1, SortingFacts
<1>4. Frames(L, Front(stack), selected, Emitted)
  <2>1. stack \in Seq(TailId \X BOOLEAN) /\ Frames(L, stack, selected, Emitted)
    BY DEF Sorting, SortInv
  <2>2. \A i \in 1..(Len(stack) - 1) : stack[i][2] => stack[i][1] \notin Emitted
    <3>1. \A i \in 1..(Len(stack) - 1) : i \in DOMAIN stack
      BY <2>1
    <3> QED BY <2>1, <3>1 DEF Frames
  <2>3. Last(stack)[1] \in selected => Last(stack)[1] \in Emitted
    BY <1>1 DEF Top
  <2>4. Emitted \subseteq Emitted
    OBVIOUS
  <2> QED BY ONLY <1>1, <2>1, <2>2, <2>3, <2>4, FramePopped
<1>5. (Dated => DatedInv)'
  <2>1. Open' \subseteq Open
    BY <1>1, <1>2, <1>3 DEF Open
  <2>2. Dated => DatedInv
    BY DEF Sorting, SortInv
  <2> QED BY <1>1, <2>1, <2>2, DatedKept
<1>6. (selected \subseteq Emitted \cup {e.tail : e \in roots} \cup Waiting(stack))'
  <2>1. selected \subseteq Emitted \cup {e.tail : e \in roots} \cup Waiting(stack)
    BY DEF Sorting, SortInv
  <2> QED BY <1>1, <1>2, <1>3, <2>1
<1>7. OrderedInv'
  BY <1>1, <1>2 DEF Sorting, SortInv, OrderedInv
<1>8. /\ Resolvable(L', Asked') /\ selected' = Selected(L', Asked')
      /\ roots' \subseteq {e \in L'.deltas : e.tail \in selected'}
  BY <1>1, <1>2 DEF Sorting, SortInv
<1> QED BY <1>1, <1>2, <1>3, <1>4, <1>5, <1>6, <1>7, <1>8 DEF SortInv

\* A delta waits for its parents: where dates are right, all are emitted.
LEMMA ExpandFrameKeeps ==
    ASSUME Sorting, ExpandFrame
    PROVE  SortInv'
<1> DEFINE t == Top[1]
           ps == Reverse(ParentsOf(t))
           Z == TailId \X BOOLEAN
<1>1. /\ stack # <<>> /\ t \notin Emitted /\ t \in selected
      /\ stack' = Front(stack) \o <<<<t, TRUE>>>> \o [i \in DOMAIN ps |-> <<ps[i], FALSE>>]
      /\ UNCHANGED <<L, asked, selected, ordered, roots>>
  BY DEF ExpandFrame, input, resolving, sorting
<1>2. Emitted' = Emitted /\ Asked' = Asked
  BY <1>1 DEF Emitted, Asked
<1>3. /\ Waiting(stack) = Waiting(Front(stack)) \cup {t} /\ t \in TailId
      /\ stack \in Seq(Z) /\ L \in Listings /\ Unique(L)
      /\ selected \subseteq Tails(L) \ {L.base.tail}
      /\ Frames(L, stack, selected, Emitted)
      /\ \A d \in L.deltas : d.tail \in selected => d.tail \notin Above(L, Parents(d), {L.base.tail})
  BY <1>1, SortingFacts DEF Sorting, SortInv, Base
<1>4. PICK d \in L.deltas : d.tail = t /\ ParentsOf(t) = d.parents /\ d.parents \in Seq(TailId)
  <2>1. IsDelta(t)
    BY <1>1, <1>3 DEF IsDelta
  <2> QED BY <1>3, <2>1, OneDelta
<1>5. ps \in Seq(TailId) /\ Range(ps) = Parents(d)
  BY <1>4, RangeOfReverse DEF Parents
<1> HIDE DEF t, ps, Z
<1>6. <<t, TRUE>> \in Z /\ \A p \in TailId : <<p, FALSE>> \in Z
  BY <1>3 DEF Z
<1> DEFINE w == stack'
<1>7. /\ w \in Seq(Z) /\ Expanded(stack, w, t, Range(ps))
      /\ Waiting(w) = Waiting(Front(stack)) \cup {t} \cup Range(ps)
  <2>1. stack \in Seq(Z) /\ stack # <<>> /\ ps \in Seq(TailId)
    BY <1>1, <1>3, <1>5 DEF Z
  <2>2. w = Pushed(stack, t, ps)
    BY <1>1 DEF Pushed
  <2>3. Pushed(stack, t, ps) \in Seq(Z)
    BY ONLY <1>6, <2>1, FrameExpanded
  <2>4. Expanded(stack, Pushed(stack, t, ps), t, Range(ps))
    BY ONLY <1>6, <2>1, FrameExpanded
  <2>5. Waiting(Pushed(stack, t, ps)) = Waiting(Front(stack)) \cup {t} \cup Range(ps)
    BY <2>4 DEF Expanded
  <2> QED BY <2>2, <2>3, <2>4, <2>5
<1>8. Last(stack)[1] = d.tail
  BY <1>4 DEF t, Top
<1> HIDE DEF w
<1>9. Frames(L, w, selected, Emitted)
  <2>1. Expanded(stack, w, d.tail, Parents(d)) /\ d.tail \in selected \ Emitted
    BY <1>1, <1>4, <1>5, <1>7
  <2>3. Unique(L) /\ selected \subseteq Tails(L) \ {L.base.tail} /\ Frames(L, stack, selected, Emitted)
    BY <1>3
  <2> QED BY ONLY <1>8, <2>1, <2>3, d \in L.deltas, FramesPushed
<1>10. Waiting(w) = Waiting(stack) \cup Parents(d)
  BY <1>3, <1>5, <1>7
<1>11. (Dated => DatedInv)'
  <2>1. ASSUME Dated PROVE Open' \subseteq Open
    <3>1. DatedInv
      BY <2>1 DEF Sorting, SortInv
    <3>2. PICK e \in L.deltas : RootInv(e)
      BY <1>1, <3>1 DEF DatedInv
    <3>3. t \in Open
      BY <1>1, <1>3 DEF Open
    <3>4. e = d
      <4>1. e.tail = d.tail
        BY <1>4, <3>2, <3>3 DEF RootInv
      <4> QED BY <1>3, <3>2, <4>1 DEF Unique
    <3>5. ASSUME NEW q \in Parents(d), q \in selected \ Emitted PROVE FALSE
      <4>1. CASE q \in Waiting(stack)
        <5>1. q = d.tail
          BY <3>2, <3>4, <3>5, <4>1 DEF Open, RootInv
        <5>2. d.tail \in Tails(L) \ {L.base.tail}
          BY <1>1, <1>3, <1>4
        <5>3. d.tail \in Above(L, Parents(d), {L.base.tail})
          BY <5>1, <5>2, AboveClosed DEF ClosedUp
        <5> QED BY <1>1, <1>3, <1>4, <5>3
      <4>2. CASE \E r \in roots : r.tail = q
        <5>1. PICK r \in roots : r.tail = q
          BY <4>2
        <5>2. r \in L.deltas
          BY DEF Sorting, SortInv
        <5>3. DeltaBefore(r, d)
          BY <2>1, <3>5, <5>1, <5>2 DEF Dated
        <5>4. ~ DeltaBefore(r, d)
          BY <3>2, <3>3, <3>4, <5>1 DEF RootInv
        <5> QED BY <5>3, <5>4
      <4>3. selected \subseteq Emitted \cup {r.tail : r \in roots} \cup Waiting(stack)
        BY DEF Sorting, SortInv
      <4> QED BY <3>5, <4>1, <4>2, <4>3
    <3>6. Waiting(stack') = Waiting(stack) \cup Parents(d)
      BY <1>10 DEF w
    <3> QED BY <1>1, <1>2, <3>5, <3>6 DEF Open
  <2>2. Dated => DatedInv
    BY DEF Sorting, SortInv
  <2>3. UNCHANGED <<L, asked, selected, ordered, roots>> /\ stack # <<>>
    BY <1>1
  <2> QED BY ONLY Sorting, <2>1, <2>2, <2>3, DatedKept
<1>12. (selected \subseteq Emitted \cup {e.tail : e \in roots} \cup Waiting(stack))'
  <2>1. selected \subseteq Emitted \cup {e.tail : e \in roots} \cup Waiting(stack)
    BY DEF Sorting, SortInv
  <2> QED BY <1>1, <1>2, <1>10, <2>1 DEF w
<1>13. OrderedInv'
  BY <1>1, <1>2 DEF Sorting, SortInv, OrderedInv
<1>14. /\ Resolvable(L', Asked') /\ selected' = Selected(L', Asked')
       /\ roots' \subseteq {e \in L'.deltas : e.tail \in selected'}
  BY <1>1, <1>2 DEF Sorting, SortInv
<1>15. Frames(L', stack', selected', Emitted') /\ stack' \in Seq(TailId \X BOOLEAN)
  BY <1>1, <1>2, <1>7, <1>9 DEF w, Z
<1> QED BY <1>11, <1>12, <1>13, <1>14, <1>15 DEF SortInv

\* A delta is emitted once, after its parents.
LEMMA EmitDeltaKeeps ==
    ASSUME Sorting, EmitDelta
    PROVE  SortInv'
<1> DEFINE t == Top[1]
           D == Emitted \cup {t}
           n == Len(stack)
           m == Len(ordered)
<1>1. /\ stack # <<>> /\ Top[2] /\ stack' = Front(stack)
      /\ ordered' = Append(ordered, CHOOSE d \in L.deltas : d.tail = t)
      /\ UNCHANGED <<L, asked, selected, roots>>
  BY DEF EmitDelta, input, resolving, Pop
<1>2. /\ Waiting(stack) = Waiting(Front(stack)) \cup {t} /\ t \in TailId
      /\ Front(stack) \in Seq(TailId \X BOOLEAN)
      /\ stack \in Seq(TailId \X BOOLEAN) /\ L \in Listings /\ Unique(L)
      /\ selected \subseteq Tails(L) \ {L.base.tail}
      /\ Frames(L, stack, selected, Emitted)
      /\ \A d \in L.deltas : d.tail \in selected => d.tail \notin Above(L, Parents(d), {L.base.tail})
  BY <1>1, SortingFacts DEF Sorting, SortInv, Base
<1>3. n \in Nat \ {0} /\ DOMAIN stack = 1..n /\ Top = stack[n] /\ n \in DOMAIN stack
      /\ \A i \in 1..(n - 1) : i \in DOMAIN stack /\ n > i
  <2>1. n \in Nat \ {0} /\ DOMAIN stack = 1..n /\ Top = stack[n]
    BY <1>1, <1>2, LastFront DEF Top
  <2> HIDE DEF n
  <2> QED BY ONLY <2>1
<1>4. t \in selected \ Emitted
  BY <1>1, <1>2, <1>3 DEF Frames
<1>5. PICK d \in L.deltas : d.tail = t
  BY <1>2, <1>4 DEF Tails
<1>6. ordered' = Append(ordered, d)
  <2>1. \A e \in L.deltas : e.tail = t => e = d
    BY <1>2, <1>5 DEF Unique
  <2>2. (CHOOSE e \in L.deltas : e.tail = t) = d
    BY <1>5, <2>1
  <2> QED BY <1>1, <2>2
<1>7. /\ ordered \in Seq(L.deltas) /\ m \in Nat /\ DOMAIN ordered = 1..m
      /\ ordered' \in Seq(L.deltas) /\ DOMAIN ordered' = 1..(m + 1)
      /\ ordered'[m + 1] = d /\ \A i \in 1..m : ordered'[i] = ordered[i]
  <2>1. ordered \in Seq(L.deltas)
    BY DEF Sorting, SortInv, OrderedInv
  <2> QED BY ONLY <1>6, <2>1, d \in L.deltas
<1>8. 1..(m + 1) = 1..m \cup {m + 1} /\ (m + 1) - 1 = m /\ \A i \in 1..m : i < m + 1 /\ i - 1 \in Nat /\ i - 1 < m
  BY <1>7
<1>9. Emitted' = D /\ Asked' = Asked
  BY <1>1, <1>5, <1>7, <1>8 DEF Emitted, Asked
<1> HIDE DEF t, D, n, m
<1>10. Parents(d) \cap selected \subseteq Emitted
  <2> SUFFICES ASSUME NEW q \in Parents(d) \cap selected, q \notin Emitted PROVE FALSE
    OBVIOUS
  <2>1. \E j \in DOMAIN stack : j > n
    <3>1. stack[n][2] /\ d.tail = stack[n][1]
      BY <1>1, <1>3, <1>5 DEF t
    <3> QED BY <1>2, <1>3, <3>1 DEF Frames
  <2> QED BY <1>3, <2>1
<1>11. Frames(L, Front(stack), selected, D)
  <2>1. ASSUME NEW i \in 1..(n - 1), stack[i][2] PROVE stack[i][1] \notin D
    <3>1. stack[i][1] \in selected \ Emitted
      BY <1>2, <1>3, <2>1 DEF Frames
    <3>2. ASSUME stack[i][1] = d.tail PROVE FALSE
      <4>1. i \in DOMAIN stack /\ n \in DOMAIN stack /\ n > i /\ stack[n][1] = d.tail /\ d.tail \in selected
        BY <1>3, <1>4, <1>5 DEF t
      <4>2. d.tail \in Above(L, Parents(d), {L.base.tail})
        BY ONLY <1>2, <2>1, <3>2, <4>1, d \in L.deltas DEF Frames
      <4> QED BY <1>2, <4>1, <4>2
    <3> QED BY <1>5, <3>1, <3>2 DEF D
  <2>2. Emitted \subseteq D /\ Last(stack)[1] \in D
    BY DEF D, t, Top
  <2>3. \A i \in 1..(Len(stack) - 1) : stack[i][2] => stack[i][1] \notin D
    BY <2>1 DEF n
  <2> QED BY ONLY <1>1, <1>2, <2>2, <2>3, FramePopped
<1>12. OrderedInv'
  <2>1. /\ Emitted \subseteq selected
        /\ \A i \in DOMAIN ordered :
              /\ Parents(ordered[i]) \cap selected \subseteq {ordered[j].tail : j \in 1..(i - 1)}
              /\ \A j \in 1..(i - 1) : ordered[j] # ordered[i]
    BY DEF Sorting, SortInv, OrderedInv
  <2>2. ASSUME NEW i \in 1..(m + 1)
        PROVE  /\ Parents(ordered'[i]) \cap selected \subseteq {ordered'[j].tail : j \in 1..(i - 1)}
               /\ \A j \in 1..(i - 1) : ordered'[j] # ordered'[i]
    <3>1. CASE i \in 1..m
      <4>1. \A j \in 1..(i - 1) : j \in 1..m /\ ordered'[j] = ordered[j]
        BY <1>7, <3>1
      <4>2. {ordered'[j].tail : j \in 1..(i - 1)} = {ordered[j].tail : j \in 1..(i - 1)}
        BY <4>1
      <4>3. ordered'[i] = ordered[i] /\ i \in DOMAIN ordered
        BY <1>7, <3>1
      <4> QED BY <2>1, <4>1, <4>2, <4>3
    <3>2. CASE i = m + 1
      <4>1. {ordered'[j].tail : j \in 1..(i - 1)} = Emitted
        BY <1>7, <1>8, <3>2 DEF Emitted
      <4>2. \A j \in 1..(i - 1) : ordered'[j] # d
        <5>1. \A j \in 1..m : ordered[j].tail # d.tail
          BY <1>4, <1>5, <1>7 DEF Emitted
        <5> QED BY <1>7, <1>8, <3>2, <5>1
      <4> QED BY <1>7, <1>10, <3>2, <4>1, <4>2
    <3> QED BY <1>8, <3>1, <3>2
  <2>3. Emitted' \subseteq selected' /\ ordered' \in Seq(L'.deltas) /\ DOMAIN ordered' = 1..(m + 1)
    BY <1>1, <1>4, <1>7, <1>9, <2>1 DEF D
  <2>4. selected' = selected
    BY <1>1
  <2> QED BY <2>2, <2>3, <2>4 DEF OrderedInv
<1>13. (Dated => DatedInv)'
  <2> SUFFICES ASSUME Dated' PROVE DatedInv'
    OBVIOUS
  <2>1. Dated
    BY <1>1 DEF Dated
  <2>2. DatedInv
    BY <2>1 DEF Sorting, SortInv
  <2>3. PICK e \in L.deltas : RootInv(e)
    BY <1>1, <2>2 DEF DatedInv
  <2>4. t \in Open
    BY <1>2, <1>4 DEF Open
  <2>5. e = d
    <3>1. e.tail = d.tail
      BY <1>5, <2>3, <2>4 DEF RootInv
    <3> QED BY <1>2, <2>3, <3>1 DEF Unique
  <2>6. /\ \A i \in 1..m : ~ DeltaBefore(d, ordered[i])
        /\ \A r \in roots : ~ DeltaBefore(r, d)
        /\ Open \subseteq {d.tail}
    BY <1>7, <2>3, <2>4, <2>5 DEF RootInv
  <2>7. InNameOrder(ordered)'
    <3>1. InNameOrder(ordered)
      BY <2>2 DEF DatedInv
    <3>2. ASSUME NEW i \in 1..(m + 1), NEW j \in 1..(m + 1), i < j PROVE ~ DeltaBefore(ordered'[j], ordered'[i])
      <4>1. i \in 1..m
        BY <1>7, <3>2
      <4>2. CASE j \in 1..m
        BY <1>7, <3>1, <3>2, <4>1, <4>2 DEF InNameOrder
      <4>3. CASE j = m + 1
        BY <1>7, <2>6, <4>1, <4>3
      <4> QED BY <1>8, <4>2, <4>3
    <3> QED BY <1>7, <3>2 DEF InNameOrder
  <2>8. \A i \in DOMAIN ordered' : \A r \in roots' : ~ DeltaBefore(r, ordered'[i])
    <3>1. \A i \in 1..m : \A r \in roots : ~ DeltaBefore(r, ordered[i])
      BY <1>7, <2>2 DEF DatedInv
    <3> QED BY <1>1, <1>7, <1>8, <2>6, <3>1
  <2>9. RootInv(d)'
    <3>1. Open' = {}
      BY <1>1, <1>2, <1>5, <1>9, <2>6 DEF Open, D
    <3> QED BY <3>1 DEF RootInv
  <2> QED BY <1>1, <2>7, <2>8, <2>9 DEF DatedInv
<1>14. (selected \subseteq Emitted \cup {e.tail : e \in roots} \cup Waiting(stack))'
  <2>1. selected \subseteq Emitted \cup {e.tail : e \in roots} \cup Waiting(stack)
    BY DEF Sorting, SortInv
  <2> QED BY <1>1, <1>2, <1>9, <2>1 DEF D
<1>15. /\ Resolvable(L', Asked') /\ selected' = Selected(L', Asked')
       /\ roots' \subseteq {e \in L'.deltas : e.tail \in selected'}
  BY <1>1, <1>9 DEF Sorting, SortInv
<1>16. Frames(L', stack', selected', Emitted') /\ stack' \in Seq(TailId \X BOOLEAN)
  BY <1>1, <1>2, <1>9, <1>11
<1> QED BY <1>12, <1>13, <1>14, <1>15, <1>16 DEF SortInv

\* What the sorting walk ends with.
LEMMA FinishSortingKeeps ==
    ASSUME Sorting, asked.walk = "resolve", FinishSorting
    PROVE  AnswersRight' /\ AppliedParentsFirst' /\ ChronologicalIfDated'
<1>1. stack = <<>> /\ roots = {} /\ UNCHANGED <<L, asked, selected, ordered>>
  BY DEF FinishSorting, input, resolving, sorting
<1>2. Emitted' = Emitted /\ Waiting(stack) = {}
  BY <1>1 DEF Emitted, Waiting, Range
<1>3. Emitted = selected
  BY <1>1, <1>2 DEF Sorting, SortInv, OrderedInv
<1>4. AppliedParentsFirst'
  BY <1>1, <1>2, <1>3 DEF AppliedParentsFirst, Sorting, SortInv, OrderedInv
<1>5. ChronologicalIfDated'
  BY <1>1 DEF ChronologicalIfDated, Sorting, SortInv, Dated, DatedInv
<1>6. AnswersRight'
  BY <1>1 DEF AnswersRight
<1> QED BY <1>4, <1>5, <1>6

-----------------------------------------------------------------------------
(* tail_reachable_from_baseline *)

WalkingBack ==
    L \in Listings /\ asked.tails \in Seq(TailId) /\ asked.walk = "reach" /\ ReachInv

Known == {Base} \cup DOMAIN memo

\* What is remembered stays right.
LEMMA Remembers ==
    ASSUME NEW D, NEW W, NEW m, m = [t \in D |-> t \in W], NEW x, NEW b \in BOOLEAN, b <=> x \in W,
           NEW k, k = [t \in D \cup {x} |-> IF t = x THEN b ELSE m[t]]
    PROVE  DOMAIN k = D \cup {x} /\ k = [t \in DOMAIN k |-> t \in W]
<1>1. DOMAIN k = D \cup {x}
  OBVIOUS
<1>2. b = (x \in W)
  OBVIOUS
<1>3. ASSUME NEW t \in D \cup {x} PROVE k[t] = (t \in W)
  <2>1. CASE t = x
    BY <1>2, <2>1
  <2>2. CASE t # x
    BY <2>2
  <2> QED BY <2>1, <2>2
<1>4. k = [t \in D \cup {x} |-> t \in W]
  BY <1>1, <1>3
<1> QED BY <1>1, <1>4

\* Where the question is not answered at once.
LEMMA ReachingFacts ==
    ASSUME WalkingBack, Reaching
    PROVE  /\ Walks /\ stack \in Seq(TailId) /\ stack # <<>>
           /\ Front(stack) \in Seq(TailId) /\ Range(stack) = Range(Front(stack)) \cup {Last(stack)}
           /\ Last(stack) # Base
           /\ asked.tails[1] \in DOMAIN memo \cup Range(stack) /\ Base \notin Range(stack)
           /\ Path(L, stack, onPath, Known, TRUE)
<1>1. Walks /\ stack \in Seq(TailId) /\ stack # <<>>
  BY DEF WalkingBack, ReachInv, Reaching, Walks
<1>2. /\ asked.tails[1] \in DOMAIN memo \cup Range(stack) /\ Base \notin Range(stack)
      /\ Path(L, stack, onPath, Known, TRUE)
  BY <1>1 DEF WalkingBack, ReachInv, Known
<1>3. Front(stack) \in Seq(TailId) /\ Range(stack) = Range(Front(stack)) \cup {Last(stack)}
  BY <1>1, LastFront, RangeOfFront
<1> QED BY <1>1, <1>2, <1>3

\* A tail is popped and its answer known.
LEMMA ReachPopped ==
    ASSUME WalkingBack, Reaching, UNCHANGED <<L, asked>>, stack' = Front(stack),
           onPath' = onPath \ {Last(stack)}, Last(stack) \in DOMAIN memo',
           DOMAIN memo' = DOMAIN memo \cup {Last(stack)},
           memo' = [t \in DOMAIN memo' |-> t \in Walkable(L)]
    PROVE  ReachInv'
<1>1. /\ Walks /\ stack \in Seq(TailId) /\ stack # <<>>
      /\ Front(stack) \in Seq(TailId) /\ Range(stack) = Range(Front(stack)) \cup {Last(stack)}
      /\ asked.tails[1] \in DOMAIN memo \cup Range(stack) /\ Base \notin Range(stack)
      /\ Path(L, stack, onPath, Known, TRUE)
  BY ReachingFacts
<1>2. Walks' /\ Base' = Base /\ Known' = Known \cup {Last(stack)}
  BY <1>1 DEF Walks, Base, Known
<1>3. Path(L, Front(stack), onPath \ {Last(stack)}, Known', TRUE)
  <2>1. /\ Known \subseteq Known' /\ Last(stack) \in Known' /\ Known' \subseteq Known \cup {Last(stack)}
        /\ TRUE \in BOOLEAN
    BY <1>2
  <2> QED BY ONLY <1>1, <2>1, PathPopped
<1>4. memo' = [t \in DOMAIN memo' |-> t \in Walkable(L')]
  OBVIOUS
<1>5. Path(L', stack', onPath', {Base'} \cup DOMAIN memo', TRUE)
  BY <1>3 DEF Known
<1> QED BY <1>1, <1>2, <1>4, <1>5 DEF ReachInv

\* A tail answered meanwhile is popped.
LEMMA SkipKnownKeeps ==
    ASSUME WalkingBack, SkipKnown
    PROVE  ReachInv'
<1>1. /\ Reaching /\ Last(stack) \in DOMAIN memo /\ stack' = Front(stack)
      /\ UNCHANGED <<L, asked, onPath, memo>>
  BY DEF SkipKnown, Top, Pop, input, asking
<1>2. onPath \cap Known = {}
  BY <1>1, ReachingFacts DEF Path
<1>3. onPath' = onPath \ {Last(stack)} /\ DOMAIN memo' = DOMAIN memo \cup {Last(stack)}
  BY <1>1, <1>2 DEF Known
<1>4. memo' = [t \in DOMAIN memo' |-> t \in Walkable(L)]
  BY <1>1 DEF WalkingBack, ReachInv
<1> QED BY <1>1, <1>3, <1>4, ReachPopped

\* The answer for the top of the stack is remembered.
LEMMA ReachRemembered ==
    ASSUME WalkingBack, Reaching, UNCHANGED <<L, asked>>, stack' = Front(stack),
           onPath' = onPath \ {Last(stack)},
           NEW b \in BOOLEAN, b <=> Last(stack) \in Walkable(L), Remember(b)
    PROVE  ReachInv'
<1>1. memo = [t \in DOMAIN memo |-> t \in Walkable(L)]
  BY DEF WalkingBack, ReachInv
<1>2. memo' = [t \in DOMAIN memo \cup {Last(stack)} |-> IF t = Last(stack) THEN b ELSE memo[t]]
  BY DEF Remember, Top
<1>3. DOMAIN memo' = DOMAIN memo \cup {Last(stack)} /\ memo' = [t \in DOMAIN memo' |-> t \in Walkable(L)]
  <2> DEFINE D == DOMAIN memo
             W == Walkable(L)
             x == Last(stack)
             k == memo'
             m == memo
  <2>1. m = [t \in D |-> t \in W] /\ (b <=> x \in W) /\ k = [t \in D \cup {x} |-> IF t = x THEN b ELSE m[t]]
    BY <1>1, <1>2
  <2> HIDE DEF D, W, x, k, m
  <2>2. DOMAIN k = D \cup {x} /\ k = [t \in DOMAIN k |-> t \in W]
    BY ONLY <2>1, b \in BOOLEAN, Remembers
  <2> QED BY <2>2 DEF D, W, x, k, m
<1> QED BY <1>3, ReachPopped

\* What no delta of the listing has for its tail reaches nothing.
LEMMA MissDeltaKeeps ==
    ASSUME WalkingBack, MissDelta
    PROVE  ReachInv'
<1>1. /\ Reaching /\ ~ IsDelta(Last(stack)) /\ Remember(FALSE) /\ stack' = Front(stack)
      /\ UNCHANGED <<L, asked, onPath>>
  BY DEF MissDelta, Top, Pop, input
<1>2. Last(stack) # Base /\ onPath \subseteq Tails(L)
  BY <1>1, ReachingFacts DEF Path
<1>3. Last(stack) \notin Walkable(L)
  BY <1>1, <1>2, WalkableIsPart DEF IsDelta, Base
<1>4. onPath' = onPath \ {Last(stack)}
  BY <1>1, <1>2 DEF IsDelta
<1> QED BY <1>1, <1>3, <1>4, ReachRemembered

\* The first visit.
LEMMA EnterReachKeeps ==
    ASSUME WalkingBack, EnterReach
    PROVE  ReachInv'
<1> DEFINE up == Without(ParentsOf(Last(stack)), {Base} \cup DOMAIN memo \cup onPath')
<1>1. /\ Reaching /\ IsDelta(Last(stack)) /\ Last(stack) \notin onPath /\ Last(stack) \notin DOMAIN memo
      /\ onPath' = onPath \cup {Last(stack)} /\ stack' = stack \o up
      /\ UNCHANGED <<L, asked, memo>>
  BY DEF EnterReach, Top, Push, input, asking
<1>2. /\ Walks /\ stack \in Seq(TailId) /\ stack # <<>> /\ Last(stack) # Base
      /\ asked.tails[1] \in DOMAIN memo \cup Range(stack) /\ Base \notin Range(stack)
      /\ Path(L, stack, onPath, Known, TRUE)
  BY <1>1, ReachingFacts
<1>3. PICK d \in L.deltas : /\ d.tail = Last(stack) /\ ParentsOf(Last(stack)) = d.parents
                            /\ d.parents \in Seq(TailId)
  BY <1>1, OneDelta DEF WalkingBack
<1>4. up \in Seq(TailId) /\ Range(up) = Parents(d) \ (Known \cup onPath \cup {d.tail})
  <2>1. up \in Seq(TailId) /\ Range(up) = Parents(d) \ ({Base} \cup DOMAIN memo \cup onPath')
    BY <1>3, WithoutRange DEF Parents
  <2> HIDE DEF up
  <2> QED BY <1>1, <1>3, <2>1 DEF Known
<1> HIDE DEF up
<1>5. Path(L, stack \o up, onPath \cup {d.tail}, Known, TRUE)
  <2>1. /\ Unique(L) /\ L.base.tail \in Known /\ d.tail \notin Known /\ d.tail \notin onPath
        /\ TRUE \in BOOLEAN /\ (~ TRUE => Parents(d) \cap (onPath \cup {d.tail}) \subseteq Known)
    BY <1>1, <1>2, <1>3, OneDelta DEF WalkingBack, Known, Base
  <2> QED BY ONLY <1>2, <1>3, <1>4, <2>1, d \in L.deltas, PathPushed
<1>6. stack' \in Seq(TailId) /\ Range(stack') = Range(stack) \cup Range(up)
  BY <1>1, <1>2, <1>4, Joined
<1>7. Walks' /\ Base' = Base /\ Known' = Known /\ Base \notin Range(up)
  BY <1>1, <1>2, <1>4 DEF Walks, Base, Known
<1>8. memo' = [t \in DOMAIN memo' |-> t \in Walkable(L')]
  BY <1>1 DEF WalkingBack, ReachInv
<1>9. Path(L', stack', onPath', {Base'} \cup DOMAIN memo', TRUE)
  BY <1>1, <1>3, <1>5 DEF Known, Base
<1> QED BY <1>1, <1>2, <1>6, <1>7, <1>8, <1>9 DEF ReachInv

\* On the second visit the parents are answered, or close a cycle.
LEMMA LeaveReachKeeps ==
    ASSUME WalkingBack, LeaveReach
    PROVE  ReachInv'
<1> DEFINE reaches(p) == p = Base \/ (p \in DOMAIN memo /\ memo[p])
           b == \A p \in Range(ParentsOf(Last(stack))) : reaches(p)
<1>1. /\ Reaching /\ IsDelta(Last(stack)) /\ Last(stack) \in onPath
      /\ onPath' = onPath \ {Last(stack)} /\ Remember(b) /\ stack' = Front(stack)
      /\ UNCHANGED <<L, asked>>
  BY DEF LeaveReach, Top, Pop, input
<1>2. /\ stack \in Seq(TailId) /\ stack # <<>> /\ Last(stack) # Base
      /\ Path(L, stack, onPath, Known, TRUE)
  BY <1>1, ReachingFacts
<1>3. PICK d \in L.deltas : d.tail = Last(stack) /\ ParentsOf(Last(stack)) = d.parents
  BY <1>1, OneDelta DEF WalkingBack
<1>4. Unique(L) /\ d.tail # L.base.tail /\ Base = L.base.tail
  BY <1>2, <1>3, OneDelta DEF WalkingBack, Base
<1>5. \A p \in DOMAIN memo : memo[p] <=> p \in Walkable(L)
  <2>1. memo = [t \in DOMAIN memo |-> t \in Walkable(L)]
    BY DEF WalkingBack, ReachInv
  <2> QED BY <2>1
<1>6. \A q \in Parents(d) : q \in Known \/ q \in onPath
  <2>1. d.tail \in onPath /\ TRUE \in BOOLEAN
    BY <1>1, <1>3
  <2>2. \A q \in Parents(d) : q \in Known \/ (TRUE /\ q \in onPath)
    BY ONLY <1>2, <1>3, <2>1, d \in L.deltas, TopCovered
  <2> QED BY <2>2
<1>7. b <=> \A p \in Parents(d) : reaches(p)
  BY <1>3 DEF Parents
<1>8. ASSUME \A p \in Parents(d) : reaches(p) PROVE d.tail \in Walkable(L)
  <2>1. Parents(d) \subseteq Walkable(L)
    BY <1>4, <1>5, <1>8, WalkableIsPart
  <2> QED BY <2>1, WalkableFrom
<1>9. ASSUME d.tail \in Walkable(L), NEW p \in Parents(d) PROVE reaches(p)
  <2>1. p \in Walkable(L)
    BY <1>4, <1>9, WalkableParents
  <2>2. CASE p \in Known
    BY <1>5, <2>1, <2>2 DEF Known
  <2>3. CASE p \in onPath /\ p \notin Known
    <3>1. p # L.base.tail /\ p \in onPath \cup {d.tail}
      BY <1>4, <2>3 DEF Known
    <3>2. d.tail \in Above(L, Parents(d), {L.base.tail})
      BY ONLY <1>2, <1>3, <1>4, <3>1, d \in L.deltas, p \in Parents(d), OnCycle
    <3> QED BY <1>4, <1>9, <3>2, WalkableIsAcyclic
  <2> QED BY <1>6, <2>2, <2>3
<1>10. b \in BOOLEAN
  OBVIOUS
<1>11. b <=> Last(stack) \in Walkable(L)
  BY <1>3, <1>7, <1>8, <1>9
<1> HIDE DEF b
<1> QED BY <1>1, <1>10, <1>11, ReachRemembered

\* The answer given at once.
LEMMA ReachAtOnceKeeps ==
    ASSUME WalkingBack, ReachAtOnce
    PROVE  AnswersRight'
<1>1. (Base = NoTail \/ L.deltas = {} \/ asked.tails[1] = Base) /\ answer' = TRUE /\ UNCHANGED <<L, asked>>
  BY DEF ReachAtOnce, Answer, input
<1>2. TailReachable(L, asked.tails[1])
  BY <1>1, WalkableIsPart DEF TailReachable, Base
<1>3. TailReachable(L, asked.tails[1]) = TRUE
  BY <1>2 DEF TailReachable
<1> QED BY <1>1, <1>3 DEF AnswersRight, WalkingBack

\* The answer given at the end.
LEMMA FinishReachKeeps ==
    ASSUME WalkingBack, FinishReach
    PROVE  AnswersRight'
<1>1. stack = <<>> /\ answer' = memo[asked.tails[1]] /\ UNCHANGED <<L, asked>>
  BY DEF FinishReach, Answer, input
<1>2. Range(stack) = {}
  BY <1>1 DEF Range
<1>3. Walks /\ asked.tails[1] \in DOMAIN memo
  BY <1>1, <1>2 DEF WalkingBack, ReachInv
<1>4. memo = [t \in DOMAIN memo |-> t \in Walkable(L)]
  BY DEF WalkingBack, ReachInv
<1>5. answer' = (asked.tails[1] \in Walkable(L))
  BY <1>1, <1>3, <1>4
<1>6. TailReachable(L, asked.tails[1]) = (asked.tails[1] \in Walkable(L))
  <2> DEFINE reached == asked.tails[1] \in Walkable(L)
  <2>1. ~(L.base.tail = NoTail) /\ ~(L.deltas = {})
    BY <1>3 DEF Walks, Base
  <2>2. TailReachable(L, asked.tails[1]) = (L.base.tail = NoTail \/ L.deltas = {} \/ reached)
    BY DEF TailReachable
  <2>3. reached \in BOOLEAN
    OBVIOUS
  <2> HIDE DEF reached
  <2>4. (L.base.tail = NoTail \/ L.deltas = {} \/ reached) = reached
    BY ONLY <2>1, <2>3, Zenon
  <2>5. TailReachable(L, asked.tails[1]) = reached
    BY ONLY <2>2, <2>4
  <2> QED BY <2>5 DEF reached
<1> QED BY <1>1, <1>5, <1>6 DEF AnswersRight, WalkingBack

-----------------------------------------------------------------------------
(* tail_depends_on *)

LookingFor ==
    L \in Listings /\ asked.tails \in Seq(TailId) /\ asked.walk = "depend" /\ DependInv

\* What the walk answers.
LEMMA DependAnswered ==
    ASSUME LookingFor, UNCHANGED <<L, asked>>, NEW b \in BOOLEAN, Answer(b),
           b <=> DependsOn(L, asked.tails[1], asked.tails[2])
    PROVE  AnswersRight'
<1>1. DependsOn(L, asked.tails[1], asked.tails[2]) \in BOOLEAN
  BY DEF DependsOn
<1> DEFINE depends == DependsOn(L, asked.tails[1], asked.tails[2])
<1>2. answer' = b
  BY DEF Answer
<1>3. b = depends
  <2> HIDE DEF depends
  <2>1. depends \in BOOLEAN /\ (b <=> depends)
    BY <1>1 DEF depends
  <2> QED BY ONLY <2>1, b \in BOOLEAN
<1>4. answer' = DependsOn(L', asked'.tails[1], asked'.tails[2])
  BY <1>2, <1>3
<1> QED BY <1>4 DEF AnswersRight, LookingFor

\* No tail depends on itself.
LEMMA DependOnSelfKeeps ==
    ASSUME LookingFor, DependOnSelf
    PROVE  AnswersRight'
<1>1. asked.tails[1] = asked.tails[2] /\ Answer(FALSE) /\ UNCHANGED <<L, asked>>
  BY DEF DependOnSelf, input
<1>2. ~ DependsOn(L, asked.tails[1], asked.tails[2])
  BY <1>1 DEF DependsOn
<1> QED BY <1>1, <1>2, DependAnswered

\* A tail is looked at: either its parents have the one asked about, or they go on.
LEMMA LookAtTailKeeps ==
    ASSUME LookingFor, LookAtTail
    PROVE  \/ walk' = walk /\ DependInv'
           \/ walk' = "done" /\ AnswersRight'
<1> DEFINE ps == IF IsDelta(Top) /\ Top \notin visited THEN ParentsOf(Top) ELSE <<>>
           t == asked.tails[1]
           a == asked.tails[2]
           U == Above(L, {t}, {})
<1>1. /\ t # a /\ stack # <<>> /\ visited' = visited \cup {Top}
      /\ UNCHANGED <<L, asked>>
      /\ \/ a \in Range(ps) /\ Answer(TRUE)
         \/ a \notin Range(ps) /\ stack' = Front(stack) \o ps /\ walk' = walk
  BY DEF LookAtTail, input
<1>2. /\ stack \in Seq(TailId) /\ t \in visited \cup Range(stack)
      /\ (visited \cup Range(stack)) \cap Tails(L) \subseteq U
      /\ \A d \in L.deltas : d.tail \in visited => Parents(d) \subseteq (visited \cup Range(stack)) \ {a}
      /\ L \in Listings
  BY <1>1 DEF LookingFor, DependInv
<1>3. Front(stack) \in Seq(TailId) /\ Range(stack) = Range(Front(stack)) \cup {Top}
  BY <1>1, <1>2, LastFront, RangeOfFront DEF Top
<1>4. /\ ps \in Seq(TailId)
      /\ \/ IsDelta(Top) /\ Top \notin visited /\ \E d \in L.deltas : d.tail = Top /\ Range(ps) = Parents(d)
         \/ Range(ps) = {} /\ (~ IsDelta(Top) \/ Top \in visited)
  <2>1. CASE IsDelta(Top) /\ Top \notin visited
    <3>1. PICK d \in L.deltas : d.tail = Top /\ ParentsOf(Top) = d.parents /\ d.parents \in Seq(TailId)
      BY <1>2, <2>1, OneDelta
    <3>2. ps = d.parents
      BY <2>1, <3>1
    <3> HIDE DEF ps
    <3> QED BY <2>1, <3>1, <3>2 DEF Parents
  <2>2. CASE ~ (IsDelta(Top) /\ Top \notin visited)
    <3>1. ps = <<>>
      BY <2>2
    <3> HIDE DEF ps
    <3>2. ps \in Seq(TailId) /\ Range(ps) = {}
      BY <3>1 DEF Range
    <3> QED BY <2>2, <3>2
  <2> QED BY <2>1, <2>2
<1> HIDE DEF ps, t, a
<1>5. ASSUME NEW d \in L.deltas, d.tail = Top, Top \notin visited, Range(ps) = Parents(d)
      PROVE  d.tail \in U /\ Parents(d) \cap Tails(L) \subseteq U
  <2>1. d.tail \in Tails(L)
    BY DEF Tails
  <2>2. d.tail \in U
    BY <1>2, <1>3, <1>5, <2>1
  <2>3. ClosedUp(L, {t}, {}, U)
    BY AboveClosed
  <2> QED BY <2>2, <2>3 DEF ClosedUp
<1>6. CASE a \in Range(ps) /\ Answer(TRUE)
  <2>1. PICK d \in L.deltas : d.tail = Top /\ Range(ps) = Parents(d) /\ Top \notin visited
    BY <1>4, <1>6
  <2>2. d.tail \in Above(L, {t}, {}) /\ a \in Parents(d)
    BY <1>5, <1>6, <2>1
  <2>3. DependsOn(L, asked.tails[1], asked.tails[2])
    BY <1>1, <2>2 DEF DependsOn, t, a
  <2>4. AnswersRight'
    BY <1>1, <1>6, <2>3, DependAnswered
  <2> QED BY <1>6, <2>4 DEF Answer
<1>7. CASE a \notin Range(ps) /\ stack' = Front(stack) \o ps /\ walk' = walk
  <2>1. stack' \in Seq(TailId) /\ Range(stack') = Range(Front(stack)) \cup Range(ps)
    BY <1>3, <1>4, <1>7, Joined
  <2>2. t \in visited' \cup Range(stack')
    BY <1>1, <1>2, <1>3, <2>1
  <2>3. Range(ps) \cap Tails(L) \subseteq U
    BY <1>4, <1>5
  <2>4. (visited' \cup Range(stack')) \cap Tails(L) \subseteq U
    BY <1>1, <1>2, <1>3, <2>1, <2>3
  <2>5. ASSUME NEW d \in L.deltas, d.tail \in visited'
        PROVE  Parents(d) \subseteq (visited' \cup Range(stack')) \ {a}
    <3>1. CASE d.tail \in visited
      BY <1>1, <1>2, <1>3, <2>1, <3>1
    <3>2. CASE d.tail \notin visited
      <4>1. d.tail = Top /\ IsDelta(Top) /\ Top \notin visited
        BY <1>1, <2>5, <3>2 DEF IsDelta, Tails
      <4>2. PICK e \in L.deltas : e.tail = Top /\ Range(ps) = Parents(e)
        BY <1>4, <4>1
      <4>3. e = d
        BY <1>2, <4>1, <4>2, OneDelta DEF Unique
      <4> QED BY <1>7, <2>1, <4>2, <4>3
    <3> QED BY <3>1, <3>2
  <2>6. DependInv'
    BY <1>1, <2>1, <2>2, <2>4, <2>5 DEF DependInv, t, a
  <2> QED BY <1>7, <2>6
<1> QED BY <1>1, <1>6, <1>7

\* All ancestors were looked at.
LEMMA FinishDependKeeps ==
    ASSUME LookingFor, FinishDepend
    PROVE  AnswersRight'
<1>1. stack = <<>> /\ Answer(FALSE) /\ UNCHANGED <<L, asked>>
  BY DEF FinishDepend, input
<1>2. Range(stack) = {}
  BY <1>1 DEF Range
<1>3. ASSUME asked.tails[1] # asked.tails[2], NEW d \in L.deltas,
             d.tail \in Above(L, {asked.tails[1]}, {}), asked.tails[2] \in Parents(d)
      PROVE  FALSE
  <2> DEFINE V == visited \cap Tails(L)
  <2>1. /\ asked.tails[1] \in visited
        /\ \A e \in L.deltas : e.tail \in visited => Parents(e) \subseteq visited \ {asked.tails[2]}
    BY <1>2, <1>3 DEF LookingFor, DependInv
  <2>2. V \in SUBSET Tails(L) /\ ClosedUp(L, {asked.tails[1]}, {}, V)
    BY <2>1 DEF ClosedUp
  <2> HIDE DEF V
  <2>3. Above(L, {asked.tails[1]}, {}) \subseteq V
    BY <2>2, AboveLeast
  <2> QED BY <1>3, <2>1, <2>3 DEF V
<1>4. ~ DependsOn(L, asked.tails[1], asked.tails[2])
  BY <1>3 DEF DependsOn
<1> QED BY <1>1, <1>4, DependAnswered

-----------------------------------------------------------------------------
(* All the walks. *)

\* Every walk starts in the invariant,
LEMMA InitInv == Init => Inv
<1> SUFFICES ASSUME Init PROVE Inv
  OBVIOUS
<1>1. /\ L \in Listings /\ roots = {} /\ ordered = <<>> /\ onPath = {} /\ selected = {}
      /\ memo = <<>> /\ visited = {}
  BY DEF Init
<1>2. CASE \E F \in Frontiers : Begin("resolve", F)
  <2>1. PICK F \in Frontiers : Begin("resolve", F)
    BY <1>2
  <2>2. /\ walk = "resolve" /\ asked.walk = "resolve" /\ asked.tails = F
        /\ todo = F /\ stack = <<>> /\ F \in Seq(TailId)
    BY <2>1, FrontiersAssumption DEF Begin
  <2>3. Range(stack) = {} /\ DOMAIN stack = {} /\ stack \in Seq(TailId) /\ Asked = Range(todo)
    BY <2>2 DEF Range, Asked
  <2>4. Path(L, stack, onPath, Resolved, FALSE)
    BY <1>1, <2>3 DEF Path
  <2>5. ResolveInv
    BY <1>1, <2>2, <2>3, <2>4 DEF ResolveInv
  <2> QED BY <1>1, <2>2, <2>5 DEF Inv
<1>3. CASE \E t \in TailId : Begin("reach", <<t>>)
  <2>1. PICK t \in TailId : Begin("reach", <<t>>)
    BY <1>3
  <2>2. walk = "reach" /\ asked.walk = "reach" /\ asked.tails = <<t>> /\ stack = <<asked.tails[1]>>
    BY <2>1 DEF Begin
  <2>3. /\ stack \in Seq(TailId) /\ asked.tails \in Seq(TailId) /\ stack # <<>> /\ asked.tails[1] = t
        /\ stack = <<t>>
    BY <2>2
  <2>4. Range(stack) = {t}
    BY <2>3 DEF Range
  <2>5. DOMAIN memo = {} /\ memo = [x \in DOMAIN memo |-> x \in Walkable(L)]
    BY <1>1
  <2>6. Path(L, stack, onPath, {Base} \cup DOMAIN memo, TRUE)
    BY <1>1 DEF Path, Visit
  <2>7. ReachInv
    BY <2>3, <2>4, <2>5, <2>6 DEF ReachInv, Walks
  <2> QED BY <1>1, <2>2, <2>3, <2>7 DEF Inv
<1>4. CASE \E t, a \in TailId : Begin("depend", <<t, a>>)
  <2>1. PICK t \in TailId, a \in TailId : Begin("depend", <<t, a>>)
    BY <1>4
  <2>2. walk = "depend" /\ asked.walk = "depend" /\ asked.tails = <<t, a>> /\ stack = <<asked.tails[1]>>
    BY <2>1 DEF Begin
  <2>3. /\ stack \in Seq(TailId) /\ asked.tails \in Seq(TailId) /\ asked.tails[1] = t /\ stack = <<t>>
    BY <2>2
  <2>4. Range(stack) = {t}
    BY <2>3 DEF Range
  <2>5. {t} \cap Tails(L) \subseteq Above(L, {t}, {})
    BY AboveClosed DEF ClosedUp
  <2>6. DependInv
    BY <1>1, <2>3, <2>4, <2>5 DEF DependInv
  <2> QED BY <1>1, <2>2, <2>3, <2>6 DEF Inv
<1> QED BY <1>2, <1>3, <1>4 DEF Init

\* the steps of reachable_delta_tail_ids keep it,
LEMMA ResolveStep ==
    ASSUME Inv, NextFrontierTail \/ SkipResolved \/ EnterTail \/ LeaveTail \/ StartSorting
    PROVE  Inv'
<1>1. walk = "resolve"
  BY DEF NextFrontierTail, SkipResolved, EnterTail, LeaveTail, StartSorting
<1>2. Resolving /\ asked.walk = "resolve"
  BY <1>1 DEF Inv, Resolving
<1>3. L' = L /\ asked' = asked
  BY DEF NextFrontierTail, SkipResolved, EnterTail, LeaveTail, StartSorting, input
<1>4. L' \in Listings /\ asked'.tails \in Seq(TailId) /\ asked'.walk = "resolve"
  BY <1>2, <1>3 DEF Resolving
<1>5. ASSUME walk' = "resolve", ResolveInv' PROVE Inv'
  BY <1>4, <1>5 DEF Inv
<1>6. CASE NextFrontierTail
  BY <1>1, <1>2, <1>5, <1>6, NextFrontierTailKeeps DEF NextFrontierTail
<1>7. CASE SkipResolved
  BY <1>1, <1>2, <1>5, <1>7, SkipResolvedKeeps DEF SkipResolved
<1>8. CASE EnterTail
  <2>1. ASSUME walk' = "raised", ordered' = <<>>, ~ Resolvable(L, Asked)' PROVE Inv'
    BY <1>4, <2>1 DEF Inv
  <2> QED BY <1>1, <1>2, <1>5, <1>8, <2>1, EnterTailKeeps
<1>9. CASE LeaveTail
  BY <1>1, <1>2, <1>5, <1>9, LeaveTailKeeps DEF LeaveTail
<1>10. CASE StartSorting
  <2>1. walk' = "sort" /\ SortInv'
    BY <1>2, <1>10, StartSortingKeeps DEF StartSorting
  <2> QED BY <1>4, <2>1 DEF Inv
<1> QED BY <1>6, <1>7, <1>8, <1>9, <1>10

\* those of topologically_sorted_delta_filenames,
LEMMA SortStep ==
    ASSUME Inv, NextRoot \/ SkipFrame \/ ExpandFrame \/ EmitDelta \/ FinishSorting
    PROVE  Inv'
<1>1. walk = "sort"
  BY DEF NextRoot, SkipFrame, ExpandFrame, EmitDelta, FinishSorting
<1>2. Sorting /\ asked.walk = "resolve"
  BY <1>1 DEF Inv, Sorting
<1>3. L' = L /\ asked' = asked
  BY DEF NextRoot, SkipFrame, ExpandFrame, EmitDelta, FinishSorting, input
<1>4. L' \in Listings /\ asked'.tails \in Seq(TailId) /\ asked'.walk = "resolve"
  BY <1>2, <1>3 DEF Sorting
<1>5. ASSUME walk' = "sort", SortInv' PROVE Inv'
  BY <1>4, <1>5 DEF Inv
<1>6. CASE NextRoot
  BY <1>1, <1>2, <1>5, <1>6, NextRootKeeps DEF NextRoot
<1>7. CASE SkipFrame
  BY <1>1, <1>2, <1>5, <1>7, SkipFrameKeeps DEF SkipFrame
<1>8. CASE ExpandFrame
  BY <1>1, <1>2, <1>5, <1>8, ExpandFrameKeeps DEF ExpandFrame
<1>9. CASE EmitDelta
  BY <1>1, <1>2, <1>5, <1>9, EmitDeltaKeeps DEF EmitDelta
<1>10. CASE FinishSorting
  <2>1. walk' = "done" /\ AnswersRight' /\ AppliedParentsFirst' /\ ChronologicalIfDated'
    BY <1>2, <1>10, FinishSortingKeeps DEF FinishSorting
  <2> QED BY <1>4, <2>1 DEF Inv
<1> QED BY <1>6, <1>7, <1>8, <1>9, <1>10

\* Where nothing is ordered the order is right.
LEMMA NoneOrdered ==
    ASSUME ordered = <<>>
    PROVE  ChronologicalIfDated /\ (selected = {} \/ walk # "done" => AppliedParentsFirst)
<1>1. DOMAIN ordered = {}
  OBVIOUS
<1>2. Emitted = {}
  BY <1>1 DEF Emitted
<1>3. ChronologicalIfDated
  BY <1>1 DEF ChronologicalIfDated, InNameOrder
<1>4. selected = {} \/ walk # "done" => AppliedParentsFirst
  BY <1>1, <1>2 DEF AppliedParentsFirst
<1> QED BY <1>3, <1>4

\* and those of the two questions.
LEMMA AskStep ==
    ASSUME Inv,
           \/ ReachAtOnce \/ SkipKnown \/ MissDelta \/ EnterReach \/ LeaveReach \/ FinishReach
           \/ DependOnSelf \/ LookAtTail \/ FinishDepend
    PROVE  Inv'
<1>1. UNCHANGED <<L, asked, selected, ordered>>
  BY DEF ReachAtOnce, SkipKnown, MissDelta, EnterReach, LeaveReach, FinishReach,
         DependOnSelf, LookAtTail, FinishDepend, input, resolving, sorting
<1>2. walk \in {"reach", "depend"}
  BY DEF ReachAtOnce, SkipKnown, MissDelta, EnterReach, LeaveReach, FinishReach, Reaching,
         DependOnSelf, LookAtTail, FinishDepend
<1>3. L \in Listings /\ asked.tails \in Seq(TailId) /\ ordered = <<>> /\ selected = {}
  BY <1>2 DEF Inv
<1>4. L' \in Listings /\ asked'.tails \in Seq(TailId) /\ ordered' = <<>> /\ selected' = {}
  BY <1>1, <1>3
<1>5. ASSUME walk' = "done", AnswersRight' PROVE Inv'
  <2>1. ChronologicalIfDated' /\ AppliedParentsFirst'
    <3>1. DOMAIN ordered' = {} /\ Emitted' = {}
      BY <1>4 DEF Emitted
    <3> QED BY <1>4, <3>1 DEF ChronologicalIfDated, InNameOrder, AppliedParentsFirst
  <2> QED BY <1>4, <1>5, <2>1 DEF Inv
<1>6. CASE walk = "reach"
  <2>1. WalkingBack
    BY <1>6 DEF Inv, WalkingBack
  <2>2. asked'.walk = "reach"
    BY <1>1, <2>1 DEF WalkingBack
  <2>3. ASSUME walk' = "reach", ReachInv' PROVE Inv'
    BY <1>4, <2>2, <2>3 DEF Inv
  <2>4. CASE ReachAtOnce
    BY <1>5, <2>1, <2>4, ReachAtOnceKeeps DEF ReachAtOnce, Answer
  <2>5. CASE SkipKnown
    BY <1>6, <2>1, <2>3, <2>5, SkipKnownKeeps DEF SkipKnown
  <2>6. CASE MissDelta
    BY <1>6, <2>1, <2>3, <2>6, MissDeltaKeeps DEF MissDelta
  <2>7. CASE EnterReach
    BY <1>6, <2>1, <2>3, <2>7, EnterReachKeeps DEF EnterReach
  <2>8. CASE LeaveReach
    BY <1>6, <2>1, <2>3, <2>8, LeaveReachKeeps DEF LeaveReach
  <2>9. CASE FinishReach
    BY <1>5, <2>1, <2>9, FinishReachKeeps DEF FinishReach, Answer
  <2>10. ~ (DependOnSelf \/ LookAtTail \/ FinishDepend)
    BY <1>6 DEF DependOnSelf, LookAtTail, FinishDepend
  <2> QED BY <2>4, <2>5, <2>6, <2>7, <2>8, <2>9, <2>10
<1>7. CASE walk = "depend"
  <2>1. LookingFor
    BY <1>7 DEF Inv, LookingFor
  <2>2. asked'.walk = "depend"
    BY <1>1, <2>1 DEF LookingFor
  <2>3. ASSUME walk' = "depend", DependInv' PROVE Inv'
    BY <1>4, <2>2, <2>3 DEF Inv
  <2>4. CASE DependOnSelf
    BY <1>5, <2>1, <2>4, DependOnSelfKeeps DEF DependOnSelf, Answer
  <2>5. CASE LookAtTail
    BY <1>5, <1>7, <2>1, <2>3, <2>5, LookAtTailKeeps
  <2>6. CASE FinishDepend
    BY <1>5, <2>1, <2>6, FinishDependKeeps DEF FinishDepend, Answer
  <2>7. ~ (ReachAtOnce \/ SkipKnown \/ MissDelta \/ EnterReach \/ LeaveReach \/ FinishReach)
    BY <1>7 DEF ReachAtOnce, SkipKnown, MissDelta, EnterReach, LeaveReach, FinishReach, Reaching
  <2> QED BY <2>4, <2>5, <2>6, <2>7
<1> QED BY <1>2, <1>6, <1>7

\* So every step does.
LEMMA StepInv ==
    ASSUME Inv, [Next]_vars
    PROVE  Inv'
<1>1. CASE UNCHANGED vars
  <2>1. /\ UNCHANGED <<L, asked, walk, todo, roots, stack, onPath, selected, ordered, memo, visited, answer>>
    BY <1>1 DEF vars, input, resolving, sorting, asking
  <2>2. Asked' = Asked /\ Base' = Base /\ Resolved' = Resolved /\ Emitted' = Emitted /\ Walks' = Walks /\ Open' = Open
    BY <2>1 DEF Asked, Base, Resolved, Emitted, Walks, Open
  <2>3. ResolveInv => ResolveInv'
    BY <2>1, <2>2 DEF ResolveInv
  <2>4. (Dated => DatedInv) => (Dated => DatedInv)'
    BY <2>1, <2>2 DEF Dated, DatedInv, RootInv
  <2>5. OrderedInv => OrderedInv'
    BY <2>1, <2>2 DEF OrderedInv
  <2>6. SortInv => SortInv'
    BY <2>1, <2>2, <2>4, <2>5 DEF SortInv
  <2>7. ReachInv => ReachInv'
    BY <2>1, <2>2 DEF ReachInv
  <2>8. DependInv => DependInv'
    BY <2>1 DEF DependInv
  <2>9. /\ AnswersRight => AnswersRight'
        /\ AppliedParentsFirst => AppliedParentsFirst'
        /\ ChronologicalIfDated => ChronologicalIfDated'
    BY <2>1, <2>2 DEF AnswersRight, AppliedParentsFirst, ChronologicalIfDated
  <2> QED BY <2>1, <2>2, <2>3, <2>6, <2>7, <2>8, <2>9 DEF Inv
<1>2. CASE NextFrontierTail \/ SkipResolved \/ EnterTail \/ LeaveTail \/ StartSorting
  BY <1>2, ResolveStep
<1>3. CASE NextRoot \/ SkipFrame \/ ExpandFrame \/ EmitDelta \/ FinishSorting
  BY <1>3, SortStep
<1>4. CASE \/ ReachAtOnce \/ SkipKnown \/ MissDelta \/ EnterReach \/ LeaveReach \/ FinishReach
           \/ DependOnSelf \/ LookAtTail \/ FinishDepend
  BY <1>4, AskStep
<1> QED BY <1>1, <1>2, <1>3, <1>4 DEF Next

(* The invariant of all four loops, on any listing and from any frontier,  *)
(* of any size: no step of a walk with an explicit stack breaks it.        *)
THEOREM WalksKeep == Spec => []Inv
<1>1. Inv /\ [Next]_vars => Inv'
  BY StepInv
<1> QED BY InitInv, <1>1, PTL DEF Spec

\* What the invariant says of the four answers.
LEMMA InvSays ==
    ASSUME Inv
    PROVE  ResolvesExactly /\ AppliedParentsFirst /\ ChronologicalIfDated /\ AnswersRight
<1>1. ResolvesExactly
  BY DEF Inv, SortInv, ResolvesExactly, Asked
<1>2. AnswersRight
  BY DEF Inv, AnswersRight
<1>3. CASE walk = "sort"
  <2>1. OrderedInv /\ (Dated => DatedInv)
    BY <1>3 DEF Inv, SortInv
  <2>2. AppliedParentsFirst
    BY <1>3, <2>1 DEF AppliedParentsFirst, OrderedInv
  <2>3. ChronologicalIfDated
    BY <2>1 DEF ChronologicalIfDated, Dated, DatedInv
  <2> QED BY <1>1, <1>2, <2>2, <2>3
<1>4. CASE walk = "done"
  BY <1>1, <1>4 DEF Inv
<1>5. CASE walk \notin {"sort", "done"}
  <2>1. ordered = <<>>
    BY <1>5 DEF Inv, ResolveInv
  <2> QED BY <1>1, <1>2, <1>5, <2>1, NoneOrdered
<1> QED BY <1>3, <1>4, <1>5

(* reachable_delta_tail_ids raises exactly where the frontier cannot be    *)
(* walked back to the baseline: a tail of the walk is missing, or closes a *)
(* cycle. Otherwise it selects the deltas the frontier descends from.      *)
THEOREM ResolvesRight == Spec => []ResolvesExactly
<1>1. Inv => ResolvesExactly
  BY InvSays
<1> QED BY WalksKeep, <1>1, PTL

(* topologically_sorted_delta_filenames puts every selected parent before  *)
(* its child, each delta once and all in the end, whatever the listing.    *)
THEOREM ParentsApplied == Spec => []AppliedParentsFirst
<1>1. Inv => AppliedParentsFirst
  BY InvSays
<1> QED BY WalksKeep, <1>1, PTL

(* Where no delta is named before its parent, the deltas are applied in    *)
(* the order of their names, as the callers of build_model promise.        *)
THEOREM AppliedInOrder == Spec => []ChronologicalIfDated
<1>1. Inv => ChronologicalIfDated
  BY InvSays
<1> QED BY WalksKeep, <1>1, PTL

(* tail_reachable_from_baseline and tail_depends_on answer what they ask,  *)
(* on listings with cycles and missing parents too.                        *)
THEOREM AnswersAreRight == Spec => []AnswersRight
<1>1. Inv => AnswersRight
  BY InvSays
<1> QED BY WalksKeep, <1>1, PTL
=============================================================================
