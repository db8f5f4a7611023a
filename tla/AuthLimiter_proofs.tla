------------------------- MODULE AuthLimiter_proofs -------------------------
(***************************************************************************)
(* No client is answered 401 more than Limit times within the window, and  *)
(* no client is sent away that was answered so less often, for any limit,  *)
(* window and set of clients.                                              *)
(* What has to be shown is that dropping old failures only from the front, *)
(* and only when the limiter looks, leaves just those within the window:   *)
(* the failures are sorted by age, so that there is one cut between those  *)
(* that are too old and the others.                                        *)
(***************************************************************************)
EXTENDS AuthLimiter, SequenceTheorems, WellFoundedInduction, TLAPS

Sorted(s) == \A i, j \in 1..Len(s) : i <= j => s[i] >= s[j]

\* The first k are too old, the others are not.
Cut(s, k) ==
    /\ \A i \in 1..k : s[i] > Window
    /\ \A i \in (k + 1)..Len(s) : s[i] <= Window

\* r is what is left of s behind its first k elements.
Rest(r, s, k) ==
    /\ Len(r) = Len(s) - k
    /\ \A i \in 1..Len(r) : r[i] = s[k + i]

Ages == 0..(Window + 1)
FreshAges == 0..Window

\* What a client has left within the window is what the limiter would keep.
FailuresInv == \A c \in Clients : Sorted(failures[c]) /\ Prune(failures[c]) = recent[c]

IInv == TypeOK /\ FailuresInv /\ BoundedTries

-----------------------------------------------------------------------------
\* A sequence is the rest of another just if it is its SubSeq.
LEMMA RestIsSubSeq ==
  ASSUME NEW S, NEW s \in Seq(S), NEW k \in 0..Len(s), NEW r \in Seq(S), Rest(r, s, k)
  PROVE  r = SubSeq(s, k + 1, Len(s))
<1>1. /\ SubSeq(s, k + 1, Len(s)) \in Seq(S)
      /\ Len(SubSeq(s, k + 1, Len(s))) = Len(s) - k
      /\ \A i \in 1..(Len(s) - k) : SubSeq(s, k + 1, Len(s))[i] = s[k + i]
  OBVIOUS
<1> QED BY <1>1, SeqEqual DEF Rest

\* And the other way round.
LEMMA SubSeqIsRest ==
  ASSUME NEW S, NEW s \in Seq(S), NEW k \in 0..Len(s)
  PROVE  /\ SubSeq(s, k + 1, Len(s)) \in Seq(S)
         /\ Rest(SubSeq(s, k + 1, Len(s)), s, k)
<1> QED BY DEF Rest

\* Where there is a cut, Prune cuts there.
LEMMA PruneCuts ==
  ASSUME NEW s \in Seq(Int), NEW k \in 0..Len(s), Cut(s, k)
  PROVE  Prune(s) = SubSeq(s, k + 1, Len(s))
<1> DEFINE P(n) == /\ \A i \in 1..n : s[i] > Window
                   /\ n < Len(s) => s[n + 1] <= Window
<1> USE LimiterAssumption
<1>1. P(k)
  BY DEF Cut
<1>2. ASSUME NEW n \in 0..Len(s), P(n) PROVE n = k
  <2>1. CASE n < k
    <3>1. s[n + 1] > Window /\ s[n + 1] <= Window
      BY <1>2, <2>1 DEF Cut
    <3>2. s[n + 1] \in Int
      BY <2>1
    <3> QED BY <3>1, <3>2
  <2>2. CASE n > k
    <3>1. s[k + 1] > Window /\ s[k + 1] <= Window
      BY <1>2, <2>2 DEF Cut
    <3>2. s[k + 1] \in Int
      BY <2>2
    <3> QED BY <3>1, <3>2
  <2> QED BY <2>1, <2>2
<1> HIDE DEF P
<1>3. (CHOOSE n \in 0..Len(s) : P(n)) = k
  BY <1>1, <1>2
<1> QED BY <1>3 DEF Prune, P

\* And so does Within.
LEMMA WithinCuts ==
  ASSUME NEW s \in Seq(Int), NEW k \in 0..Len(s), Cut(s, k)
  PROVE  Within(s) = SubSeq(s, k + 1, Len(s))
<1> DEFINE P(n) == /\ \A i \in (n + 1)..Len(s) : s[i] <= Window
                   /\ n > 0 => s[n] > Window
<1> USE LimiterAssumption
<1>1. P(k)
  BY DEF Cut
<1>2. ASSUME NEW n \in 0..Len(s), P(n) PROVE n = k
  <2>1. CASE n < k
    <3>1. s[k] > Window /\ s[k] <= Window
      BY <1>2, <2>1 DEF Cut
    <3>2. s[k] \in Int
      BY <2>1
    <3> QED BY <3>1, <3>2
  <2>2. CASE n > k
    <3>1. s[n] > Window /\ s[n] <= Window
      BY <1>2, <2>2 DEF Cut
    <3>2. s[n] \in Int
      BY <2>2
    <3> QED BY <3>1, <3>2
  <2> QED BY <2>1, <2>2
<1> HIDE DEF P
<1>3. (CHOOSE n \in 0..Len(s) : P(n)) = k
  BY <1>1, <1>2
<1> QED BY <1>3 DEF Within, P

\* A set of naturals that is not empty has a smallest element.
LEMMA Smallest ==
  ASSUME NEW T, T \subseteq Nat, T # {}
  PROVE  \E m \in T : \A n \in T : m <= n
<1> DEFINE R == OpToRel(<, Nat)
<1>1. IsWellFoundedOn(R, Nat)
  BY NatLessThanWellFounded
<1>2. \A m, n \in Nat : n < m => <<n, m>> \in R
  BY DEF OpToRel
<1> HIDE DEF R
<1>3. PICK m \in T : \A n \in T : ~(<<n, m>> \in R)
  BY <1>1, WFMin
<1>4. ASSUME NEW n \in T PROVE m <= n
  <2>1. ~(n < m)
    BY <1>2, <1>3
  <2> QED BY <2>1
<1> QED BY <1>4

\* A sorted sequence has a cut.
LEMMA SortedHasCut ==
  ASSUME NEW s \in Seq(Int), Sorted(s)
  PROVE  \E k \in 0..Len(s) : Cut(s, k)
<1> USE LimiterAssumption
<1> DEFINE Ends == {i \in 1..(Len(s) + 1) : i <= Len(s) => s[i] <= Window}
<1>1. Len(s) + 1 \in Ends /\ Ends \subseteq Nat
  OBVIOUS
<1>2. PICK m \in Ends : \A n \in Ends : m <= n
  BY <1>1, Smallest
<1>3. m - 1 \in 0..Len(s)
  OBVIOUS
<1>4. ASSUME NEW i \in 1..(m - 1) PROVE s[i] > Window
  BY <1>2, <1>3
<1>5. ASSUME NEW i \in m..Len(s) PROVE s[i] <= Window
  <2>1. s[m] <= Window
    BY <1>3
  <2> QED BY <2>1 DEF Sorted
<1>6. Cut(s, m - 1)
  BY <1>4, <1>5 DEF Cut
<1> QED BY <1>3, <1>6

\* Failures within the window are all kept.
LEMMA PruneFresh ==
  ASSUME NEW s \in Seq(FreshAges)
  PROVE  Prune(s) = s
<1> USE LimiterAssumption
<1>1. s \in Seq(Int) /\ Cut(s, 0)
  BY DEF Cut, FreshAges
<1>2. Prune(s) = SubSeq(s, 1, Len(s))
  BY <1>1, PruneCuts
<1> QED BY <1>2

\* What is kept is sorted and within the window.
LEMMA PruneKeeps ==
  ASSUME NEW s \in Seq(Ages), Sorted(s)
  PROVE  /\ Prune(s) \in Seq(FreshAges)
         /\ Sorted(Prune(s))
         /\ Prune(Prune(s)) = Prune(s)
<1> USE LimiterAssumption
<1>1. s \in Seq(Int)
  BY DEF Ages
<1>2. PICK k \in 0..Len(s) : Cut(s, k)
  BY <1>1, SortedHasCut
<1> DEFINE r == SubSeq(s, k + 1, Len(s))
<1>3. Prune(s) = r
  BY <1>1, <1>2, PruneCuts
<1>4. r \in Seq(Int) /\ Rest(r, s, k)
  BY <1>1, SubSeqIsRest
<1> HIDE DEF r
<1>5. \A i \in 1..Len(r) : r[i] \in FreshAges
  <2> SUFFICES ASSUME NEW i \in 1..Len(r) PROVE r[i] \in FreshAges
    OBVIOUS
  <2>1. r[i] = s[k + i] /\ k + i \in (k + 1)..Len(s)
    BY <1>4 DEF Rest
  <2>2. s[k + i] <= Window
    BY <1>2, <2>1 DEF Cut
  <2>3. s[k + i] \in Ages
    BY <2>1
  <2> QED BY <2>1, <2>2, <2>3 DEF Ages, FreshAges
<1>6. r \in Seq(FreshAges)
  BY <1>4, <1>5
<1>7. Sorted(r)
  BY <1>4 DEF Sorted, Rest
<1> QED BY <1>3, <1>6, <1>7, PruneFresh

\* A failure just now comes last and is kept.
LEMMA AppendNow ==
  ASSUME NEW s \in Seq(FreshAges), Sorted(s)
  PROVE  /\ Append(s, 0) \in Seq(FreshAges)
         /\ Sorted(Append(s, 0))
         /\ Prune(Append(s, 0)) = Append(s, 0)
<1> USE LimiterAssumption
<1>1. Append(s, 0) \in Seq(FreshAges)
  BY DEF FreshAges
<1>2. Sorted(Append(s, 0))
  BY DEF Sorted, FreshAges
<1> QED BY <1>1, <1>2, PruneFresh

\* All failures age alike.
LEMMA AgedPointwise ==
  ASSUME NEW s \in Seq(Int)
  PROVE  /\ Len(Aged(s)) = Len(s)
         /\ Aged(s) \in Seq(Int)
         /\ \A i \in 1..Len(s) : Aged(s)[i] = IF s[i] > Window THEN s[i] ELSE s[i] + 1
<1>1. DOMAIN s = 1..Len(s) /\ Len(s) \in Nat /\ \A i \in 1..Len(s) : s[i] \in Int
  OBVIOUS
<1>2. Aged(s) = [i \in 1..Len(s) |-> IF s[i] > Window THEN s[i] ELSE s[i] + 1]
  BY <1>1 DEF Aged
<1>3. \A i \in 1..Len(s) : (IF s[i] > Window THEN s[i] ELSE s[i] + 1) \in Int
  BY <1>1, LimiterAssumption
<1>4. Aged(s) \in [1..Len(s) -> Int]
  BY <1>2, <1>3
<1>5. Aged(s) \in Seq(Int)
  BY <1>1, <1>4
<1>6. Len(Aged(s)) = Len(s)
  BY <1>1, <1>4, <1>5
<1> QED BY <1>2, <1>5, <1>6

\* Whether old failures are dropped before or after time passes, the same
\* ones are left.
LEMMA AgeThenPrune ==
  ASSUME NEW s \in Seq(Ages), Sorted(s)
  PROVE  /\ Aged(s) \in Seq(Ages)
         /\ Sorted(Aged(s))
         /\ Prune(Aged(s)) = Within(Aged(Prune(s)))
         /\ Len(Prune(Aged(s))) <= Len(Prune(s))
<1> USE LimiterAssumption
<1> DEFINE a == Aged(s)
<1>1. s \in Seq(Int)
  BY DEF Ages
<1>2. Len(a) = Len(s) /\ a \in Seq(Int) /\ \A i \in 1..Len(s) : a[i] = IF s[i] > Window THEN s[i] ELSE s[i] + 1
  BY <1>1, AgedPointwise
<1>3. \A i \in 1..Len(s) : s[i] \in Ages
  OBVIOUS
<1> HIDE DEF a
<1>4. \A i \in 1..Len(a) : a[i] \in Ages
  BY <1>2, <1>3 DEF Ages
<1>5. a \in Seq(Ages)
  BY <1>2, <1>4
<1>6. Sorted(a)
  <2> SUFFICES ASSUME NEW i \in 1..Len(a), NEW j \in 1..Len(a), i <= j PROVE a[i] >= a[j]
    BY DEF Sorted
  <2>1. s[i] \in Int /\ s[j] \in Int /\ s[i] >= s[j]
    BY <1>1, <1>2 DEF Sorted
  <2>2. s[i] <= Window + 1
    BY <1>2, <1>3 DEF Ages
  <2>3. /\ a[i] = IF s[i] > Window THEN s[i] ELSE s[i] + 1
        /\ a[j] = IF s[j] > Window THEN s[j] ELSE s[j] + 1
    BY <1>2
  <2> QED BY <2>1, <2>2, <2>3
<1>7. PICK k \in 0..Len(s) : Cut(s, k)
  BY <1>1, SortedHasCut
<1>8. PICK m \in 0..Len(a) : Cut(a, m)
  BY <1>2, <1>6, SortedHasCut
<1>9. k <= m
  <2> SUFFICES ASSUME m < k PROVE FALSE
    OBVIOUS
  <2>1. s[m + 1] > Window /\ s[m + 1] \in Int /\ a[m + 1] = s[m + 1]
    BY <1>1, <1>2, <1>7 DEF Cut
  <2>2. a[m + 1] <= Window
    BY <1>2, <1>8 DEF Cut
  <2> QED BY <2>1, <2>2
<1> DEFINE r == SubSeq(s, k + 1, Len(s))
           b == Aged(r)
           p == SubSeq(a, m + 1, Len(a))
<1>10. Prune(s) = r /\ r \in Seq(Int) /\ Rest(r, s, k)
  BY <1>1, <1>7, PruneCuts, SubSeqIsRest
<1>11. Prune(a) = p /\ p \in Seq(Int) /\ Rest(p, a, m)
  BY <1>2, <1>8, PruneCuts, SubSeqIsRest
<1> HIDE DEF r, p
<1>12. Len(b) = Len(r) /\ b \in Seq(Int) /\ \A i \in 1..Len(r) : b[i] = IF r[i] > Window THEN r[i] ELSE r[i] + 1
  BY <1>10, AgedPointwise
<1> HIDE DEF b
<1>13. Rest(b, a, k)
  <2>1. Len(r) = Len(s) - k /\ \A i \in 1..Len(r) : r[i] = s[k + i] /\ k + i \in 1..Len(s)
    BY <1>10 DEF Rest
  <2>2. \A i \in 1..Len(b) : b[i] = a[k + i]
    BY <1>2, <1>12, <2>1
  <2> QED BY <1>2, <1>12, <2>1, <2>2 DEF Rest
<1>14. m - k \in 0..Len(b)
  BY <1>2, <1>9, <1>13 DEF Rest
<1>15. Cut(b, m - k)
  <2>1. Len(b) = Len(a) - k /\ \A i \in 1..Len(b) : b[i] = a[k + i]
    BY <1>13 DEF Rest
  <2>2. (\A i \in 1..m : a[i] > Window) /\ \A i \in (m + 1)..Len(a) : a[i] <= Window
    BY <1>8 DEF Cut
  <2>3. ASSUME NEW i \in 1..(m - k) PROVE b[i] > Window
    <3>1. k + i \in 1..m /\ i \in 1..Len(b)
      BY <1>2, <1>9, <2>1
    <3> QED BY <2>1, <2>2, <3>1
  <2>4. ASSUME NEW i \in (m - k + 1)..Len(b) PROVE b[i] <= Window
    <3>1. k + i \in (m + 1)..Len(a) /\ i \in 1..Len(b)
      BY <1>2, <1>9, <2>1
    <3> QED BY <2>1, <2>2, <3>1
  <2> QED BY <2>3, <2>4 DEF Cut
<1>16. Within(b) = SubSeq(b, m - k + 1, Len(b))
  BY <1>12, <1>14, <1>15, WithinCuts
<1>17. Rest(p, b, m - k)
  BY <1>2, <1>9, <1>11, <1>13, <1>14 DEF Rest
<1>18. p = Within(b)
  BY <1>11, <1>12, <1>14, <1>16, <1>17, RestIsSubSeq
<1>19. Len(p) <= Len(r)
  BY <1>2, <1>9, <1>10, <1>11 DEF Rest
<1> QED BY <1>5, <1>6, <1>10, <1>11, <1>18, <1>19 DEF a, b

-----------------------------------------------------------------------------
\* Nobody has failed when the server starts.
LEMMA InitIInv == Init => IInv
<1> USE LimiterAssumption
<1> SUFFICES ASSUME Init PROVE IInv
  OBVIOUS
<1>1. TypeOK
  BY DEF Init, TypeOK
<1>2. <<>> \in Seq(FreshAges)
  OBVIOUS
<1>3. Prune(<<>>) = <<>>
  BY <1>2, PruneFresh
<1>4. Len(<<>>) = 0 /\ Sorted(<<>>)
  BY DEF Sorted
<1>5. \A c \in Clients : failures[c] = <<>> /\ recent[c] = <<>>
  BY DEF Init
<1>6. FailuresInv
  BY <1>3, <1>4, <1>5 DEF FailuresInv
<1>7. BoundedTries
  <2>1. 0 <= Limit
    OBVIOUS
  <2> QED BY <1>4, <1>5, <2>1, Zenon DEF BoundedTries
<1> QED BY <1>1, <1>6, <1>7 DEF IInv

\* No step breaks the invariant.
LEMMA NextIInv == IInv /\ [Next]_vars => IInv'
<1> USE LimiterAssumption
<1> SUFFICES ASSUME IInv, [Next]_vars PROVE IInv'
  OBVIOUS
<1> USE DEF IInv
<1>1. ASSUME NEW c \in Clients
      PROVE  /\ failures[c] \in Seq(Ages) /\ recent[c] \in Seq(FreshAges)
             /\ Sorted(failures[c]) /\ Prune(failures[c]) = recent[c]
             /\ Len(recent[c]) \in Nat /\ Len(recent[c]) <= Limit
             /\ Len(failures[c]) <= Limit
             /\ Sorted(recent[c]) /\ Prune(recent[c]) = recent[c]
  <2>1. failures[c] \in Seq(Ages) /\ recent[c] \in Seq(FreshAges) /\ Len(failures[c]) <= Limit
    BY DEF TypeOK, Ages, FreshAges
  <2>2. Sorted(failures[c]) /\ Prune(failures[c]) = recent[c] /\ Len(recent[c]) <= Limit
    BY DEF FailuresInv, BoundedTries
  <2>3. Sorted(recent[c]) /\ Prune(recent[c]) = recent[c]
    BY <2>1, <2>2, PruneKeeps
  <2> QED BY <2>1, <2>2, <2>3
<1>2. Seq(FreshAges) \subseteq Seq(Ages)
  BY DEF Ages, FreshAges
\* It is enough to look at one client at a time.
<1>3. ASSUME DOMAIN failures' = Clients, DOMAIN recent' = Clients,
             failures' = [c \in Clients |-> failures'[c]], recent' = [c \in Clients |-> recent'[c]],
             answer' \in [Clients -> {0, 200, 400, 401, 429, 500}],
             \A c \in Clients :
                 /\ failures'[c] \in Seq(Ages) /\ recent'[c] \in Seq(FreshAges)
                 /\ Sorted(failures'[c]) /\ Prune(failures'[c]) = recent'[c]
                 /\ Len(recent'[c]) <= Limit /\ Len(failures'[c]) <= Limit
      PROVE  IInv'
  <2>1. TypeOK'
    BY <1>3 DEF TypeOK, Ages, FreshAges
  <2>2. FailuresInv'
    BY <1>3 DEF FailuresInv, Sorted, Prune
  <2>3. BoundedTries'
    BY <1>3 DEF BoundedTries
  <2> QED BY <2>1, <2>2, <2>3
<1>4. ASSUME Tick PROVE IInv'
  <2>1. ASSUME NEW c \in Clients
        PROVE  /\ failures'[c] \in Seq(Ages) /\ recent'[c] \in Seq(FreshAges)
               /\ Sorted(failures'[c]) /\ Prune(failures'[c]) = recent'[c]
               /\ Len(recent'[c]) <= Limit /\ Len(failures'[c]) <= Limit
    <3>1. failures'[c] = Aged(failures[c]) /\ recent'[c] = Within(Aged(recent[c]))
      BY <1>4 DEF Tick
    <3>2. /\ failures'[c] \in Seq(Ages) /\ Sorted(failures'[c])
          /\ Prune(failures'[c]) = recent'[c] /\ Len(recent'[c]) <= Len(recent[c])
      BY <1>1, <3>1, AgeThenPrune
    <3>3. recent'[c] \in Seq(FreshAges)
      BY <3>2, PruneKeeps
    <3>4. Len(recent'[c]) \in Nat
      BY <3>3
    <3>5. failures[c] \in Seq(Int)
      BY <1>1 DEF Ages
    <3>6. Len(failures'[c]) = Len(failures[c])
      BY <3>1, <3>5, AgedPointwise
    <3> QED BY <1>1, <3>2, <3>3, <3>4, <3>6
  <2>2. answer' \in [Clients -> {0, 200, 400, 401, 429, 500}]
    BY <1>4 DEF Tick, TypeOK
  <2>3. /\ DOMAIN failures' = Clients /\ DOMAIN recent' = Clients
        /\ failures' = [c \in Clients |-> failures'[c]] /\ recent' = [c \in Clients |-> recent'[c]]
    BY <1>4 DEF Tick
  <2> QED BY <1>3, <2>1, <2>2, <2>3
\* A request is about one client, whose failures become f and r.
<1>5. ASSUME NEW c \in Clients, NEW status \in {0, 200, 400, 401, 429, 500}, Answer(c, status),
             NEW f \in Seq(Ages), NEW r \in Seq(FreshAges),
             failures' = [failures EXCEPT ![c] = f], recent' = [recent EXCEPT ![c] = r],
             Sorted(f), Prune(f) = r, Len(r) <= Limit, Len(f) <= Limit
      PROVE  IInv'
  <2>1. answer' \in [Clients -> {0, 200, 400, 401, 429, 500}]
    BY <1>5 DEF Answer, TypeOK
  <2>2. /\ DOMAIN failures' = Clients /\ DOMAIN recent' = Clients
        /\ failures' = [d \in Clients |-> failures'[d]] /\ recent' = [d \in Clients |-> recent'[d]]
        /\ failures'[c] = f /\ recent'[c] = r
        /\ \A d \in Clients \ {c} : failures'[d] = failures[d] /\ recent'[d] = recent[d]
    <3>1. failures \in [Clients -> Seq(0..(Window + 1))] /\ recent \in [Clients -> Seq(0..Window)]
      BY DEF TypeOK
    <3>2. failures' = [d \in Clients |-> IF d = c THEN f ELSE failures[d]]
      BY <1>5, <3>1
    <3>3. recent' = [d \in Clients |-> IF d = c THEN r ELSE recent[d]]
      BY <1>5, <3>1
    <3> QED BY <3>2, <3>3
  <2>3. ASSUME NEW d \in Clients
        PROVE  /\ failures'[d] \in Seq(Ages) /\ recent'[d] \in Seq(FreshAges)
               /\ Sorted(failures'[d]) /\ Prune(failures'[d]) = recent'[d]
               /\ Len(recent'[d]) <= Limit /\ Len(failures'[d]) <= Limit
    <3>1. CASE d = c
      BY <1>5, <2>2, <3>1
    <3>2. CASE d # c
      BY <1>1, <2>2, <3>2
    <3> QED BY <3>1, <3>2
  <2> QED BY <1>3, <2>1, <2>2, <2>3
<1>6. ASSUME NEW c \in Clients, Answer(c, 400), UNCHANGED <<failures, recent>> PROVE IInv'
  <2>1. failures' = [failures EXCEPT ![c] = failures[c]] /\ recent' = [recent EXCEPT ![c] = recent[c]]
    BY <1>6 DEF TypeOK
  <2> QED BY <1>1, <1>5, <1>6, <2>1
<1>7. ASSUME NEW c \in Clients, TooMany(c) PROVE IInv'
  <2>1. /\ failures' = [failures EXCEPT ![c] = recent[c]] /\ recent' = [recent EXCEPT ![c] = recent[c]]
        /\ Answer(c, 429)
    BY <1>1, <1>7 DEF TooMany, TypeOK
  <2> QED BY <1>1, <1>2, <1>5, <2>1
<1>8. ASSUME NEW c \in Clients, Fail(c) PROVE IInv'
  <2> DEFINE f == Append(recent[c], 0)
  <2>1. /\ failures' = [failures EXCEPT ![c] = f] /\ recent' = [recent EXCEPT ![c] = f]
        /\ Answer(c, 401)
    BY <1>1, <1>8 DEF Fail
  <2>2. Len(recent[c]) < Limit
    BY <1>1, <1>8 DEF Fail, IsLimited
  <2>3. f \in Seq(FreshAges) /\ Sorted(f) /\ Prune(f) = f
    BY <1>1, AppendNow
  <2>4. Len(f) <= Limit
    BY <1>1, <2>2
  <2> HIDE DEF f
  <2> QED BY <1>2, <1>5, <2>1, <2>3, <2>4
<1>9. ASSUME NEW c \in Clients, Pass(c) PROVE IInv'
  <2>1. <<>> \in Seq(FreshAges) /\ Sorted(<<>>) /\ Len(<<>>) <= Limit
    BY DEF Sorted
  <2>2. Prune(<<>>) = <<>>
    BY <2>1, PruneFresh
  <2>3. /\ failures' = [failures EXCEPT ![c] = <<>>] /\ recent' = [recent EXCEPT ![c] = <<>>]
        /\ Answer(c, 200)
    BY <1>9 DEF Pass
  <2> QED BY <1>2, <1>5, <2>1, <2>2, <2>3
<1>10. ASSUME NEW c \in Clients, CompareRaises(c) PROVE IInv'
  <2>1. /\ failures' = [failures EXCEPT ![c] = recent[c]] /\ recent' = [recent EXCEPT ![c] = recent[c]]
        /\ Answer(c, 500)
    BY <1>1, <1>10 DEF CompareRaises, TypeOK
  <2> QED BY <1>1, <1>2, <1>5, <2>1
<1>11. CASE UNCHANGED vars
  <2>1. failures' = failures /\ recent' = recent /\ answer' = answer
    BY <1>11 DEF vars
  <2> QED BY <1>1, <1>2, <1>3, <2>1 DEF TypeOK
<1> QED BY <1>4, <1>6, <1>7, <1>8, <1>9, <1>10, <1>11 DEF Next, RefuseHost, RefuseBody, Dispatch

\* The invariant always holds.
LEMMA Invariance == Spec => []IInv
<1> QED BY InitIInv, NextIInv, PTL DEF Spec

\* Ages, answers and clients stay what they are meant to be, and no client's
\* remembered failures outgrow the limit, however often and in whatever order
\* requests and ticks come (http_api.py:163).
THEOREM TypeCorrect == Spec => []TypeOK
<1>1. IInv => TypeOK
  BY DEF IInv
<1> QED BY <1>1, Invariance, PTL

\* However many requests a client makes and however they fall in time, at
\* most Limit of them were answered 401 within any window since it was last
\* let in (http_api.py:186).  It does not bound the tries that end in 500
\* because the token cannot be compared (http_api.py:902): they are not
\* recorded.
THEOREM TriesAreBounded == Spec => []BoundedTries
<1>1. IInv => BoundedTries
  BY DEF IInv
<1> QED BY <1>1, Invariance, PTL

\* And no client is sent away that was not answered 401 Limit times within the
\* window: a late prune never makes old failures count (http_api.py:173).
THEOREM LimitedHasTried == Spec => []LimitedOnlyIfTried
<1>1. IInv => LimitedOnlyIfTried
  BY DEF IInv, FailuresInv, LimitedOnlyIfTried, IsLimited
<1> QED BY <1>1, Invariance, PTL

\* A client that was not limited becomes so only by a failure of its own:
\* no other client's request and no passing of time does it (http_api.py:850).
THEOREM LimitedByOwn == Spec => LimitedByOwnFailure
<1> USE LimiterAssumption
<1> DEFINE Step == \A c \in Clients : (~IsLimited(c) /\ IsLimited(c)') => answer'[c] = 401
<1>1. ASSUME IInv, IInv', [Next]_vars, NEW c \in Clients, ~IsLimited(c), IsLimited(c)'
      PROVE  answer'[c] = 401
  <2>1. recent[c] \in Seq(FreshAges) /\ recent'[c] \in Seq(FreshAges)
    BY <1>1 DEF IInv, TypeOK, FreshAges
  <2>2. Len(recent[c]) < Limit /\ Len(recent'[c]) >= Limit
    <3>1. Prune(failures[c]) = recent[c] /\ Prune(failures'[c]) = recent'[c]
      BY <1>1 DEF IInv, FailuresInv, Prune
    <3>2. ~(Len(Prune(failures[c])) >= Limit) /\ Len(Prune(failures'[c])) >= Limit
      BY <1>1 DEF IsLimited, Prune
    <3>3. Len(recent[c]) \in Nat
      BY <2>1
    <3> QED BY <3>1, <3>2, <3>3
  <2>3. recent'[c] # recent[c]
    BY <2>1, <2>2
  <2>4. ~Tick
    <3> SUFFICES ASSUME Tick PROVE FALSE
      OBVIOUS
    <3>1. failures[c] \in Seq(Ages) /\ Sorted(failures[c]) /\ Prune(failures[c]) = recent[c]
      BY <1>1 DEF IInv, TypeOK, FailuresInv, Ages
    <3>2. recent'[c] = Prune(Aged(failures[c]))
      BY <3>1, AgeThenPrune DEF Tick
    <3>3. Len(recent'[c]) <= Len(recent[c])
      BY <3>1, <3>2, AgeThenPrune
    <3> QED BY <2>1, <2>2, <3>3
  <2>5. PICK d \in Clients : Fail(d) \/ Pass(d)
    BY <1>1, <2>3, <2>4 DEF Next, Dispatch, RefuseHost, RefuseBody, TooMany, CompareRaises, vars
  <2>6. d = c
    BY <1>1, <2>3, <2>5 DEF Fail, Pass, IInv, TypeOK
  <2>7. ~Pass(d)
    <3> SUFFICES ASSUME Pass(d) PROVE FALSE
      OBVIOUS
    <3>1. recent'[c] = <<>>
      BY <1>1, <2>6 DEF Pass, IInv, TypeOK
    <3>2. Len(<<>>) = 0 /\ ~(0 >= Limit)
      OBVIOUS
    <3> QED BY <2>2, <3>1, <3>2
  <2>8. Answer(c, 401)
    BY <2>5, <2>6, <2>7 DEF Fail
  <2> QED BY <1>1, <2>8 DEF Answer, IInv, TypeOK
<1>2. IInv /\ IInv' /\ [Next]_vars => [Step]_vars
  BY <1>1
<1> QED BY <1>2, Invariance, PTL DEF Spec, LimitedByOwnFailure
=============================================================================
