-------------------------- MODULE Commands_proofs ---------------------------
(***************************************************************************)
(* What readers see of tasks and projects, whatever the service, the       *)
(* command line and the app write over each other.                         *)
(***************************************************************************)
EXTENDS Commands, FiniteSetTheorems, SequenceTheorems, WellFoundedInduction, TLAPS

-----------------------------------------------------------------------------
(* Lists of values. *)

\* A set of naturals that is not empty has a smallest element.
LEMMA Smallest ==
  ASSUME NEW T, T \subseteq Nat, T # {}
  PROVE  \E m \in T : \A n \in T : m <= n
<1> DEFINE R == OpToRel(<, Nat)
<1>1. IsWellFoundedOn(R, Nat)
  BY NatLessThanWellFounded
<1>2. \A m, n \in Nat : n < m => <<n, m>> \in R
  BY DEF OpToRel
<1> HIDE DEF R
<1>3. PICK m \in T : \A n \in T : ~(<<n, m>> \in R)
  BY <1>1, WFMin
<1>4. ASSUME NEW n \in T PROVE m <= n
  <2>1. ~(n < m)
    BY <1>2, <1>3
  <2> QED BY <2>1
<1> QED BY <1>4

\* Appending adds one member, the last.
LEMMA AppendEffect ==
  ASSUME NEW S, NEW k \in Seq(S), NEW v \in S
  PROVE  /\ Append(k, v) \in Seq(S) /\ Append(k, v) # <<>> /\ Last(Append(k, v)) = v
         /\ Range(Append(k, v)) = Range(k) \union {v}
<1>1. PICK n, t : n = Len(k) /\ t = Append(k, v) /\ n \in Nat
  <2>1. Len(k) \in Nat
    OBVIOUS
  <2> QED BY <2>1
<1>2. /\ t \in Seq(S) /\ t # <<>> /\ Len(t) = n + 1 /\ t[n + 1] = v
      /\ DOMAIN t = 1..(n + 1) /\ DOMAIN k = 1..n /\ \A i \in 1..n : t[i] = k[i]
  BY <1>1
<1>3. 1..(n + 1) = (1..n) \union {n + 1}
  BY <1>1
<1>4. Range(t) = Range(k) \union {v}
  BY <1>2, <1>3 DEF Range
<1> QED BY <1>1, <1>2, <1>4 DEF Last

\* The empty values go, and only they.
LEMMA FilledEffect ==
  ASSUME NEW S, NEW s \in Seq(S)
  PROVE  /\ Filled(s) \in Seq(S) /\ Range(Filled(s)) = Range(s) \ {Nobody}
         /\ Nobody \notin Range(s) => Filled(s) = s
         /\ (s # <<>> /\ Last(s) # Nobody) => Filled(s) # <<>> /\ Last(Filled(s)) = Last(s)
<1> DEFINE n == Len(s)
           Step(i, k) == IF i = 0 THEN Empty ELSE IF s[i] = Nobody THEN k ELSE Append(k, s[i])
           Keeps(f, m) == f = [i \in 0..m |-> IF i = 0 THEN Empty ELSE IF s[i] = Nobody THEN f[i - 1] ELSE Append(f[i - 1], s[i])]
           First(m) == {s[j] : j \in 1..m}
           Start(m) == [j \in 1..m |-> s[j]]
           Same(k, m) == /\ k \in Seq(S) /\ Range(k) = First(m) \ {Nobody}
                         /\ Nobody \notin First(m) => k = Start(m)
                         /\ (m # 0 /\ s[m] # Nobody) => k # <<>> /\ Last(k) = s[m]
           Good(m) == \E f : Keeps(f, m) /\ Same(f[m], m)
<1>1. n \in Nat /\ DOMAIN s = 1..n /\ (\A i \in 1..n : s[i] \in S) /\ Range(s) = First(n) /\ s = Start(n)
  BY DEF Range
<1> HIDE DEF n
<1>2. Good(0)
  <2>1. PICK f : f = [i \in 0..0 |-> Empty]
    OBVIOUS
  <2>2. Keeps(f, 0) /\ f[0] = <<>> /\ First(0) = {} /\ Range(<<>>) = {} /\ Start(0) = <<>>
    BY <2>1 DEF Range, Empty
  <2>3. <<>> \in Seq(S)
    OBVIOUS
  <2> HIDE DEF Keeps, First, Start
  <2>4. Same(f[0], 0)
    BY <2>2, <2>3
  <2> QED BY <2>2, <2>4
<1>3. ASSUME NEW m \in 1..n, Good(m - 1) PROVE Good(m)
  <2>1. PICK f : Keeps(f, m - 1) /\ Same(f[m - 1], m - 1)
    BY <1>3
  <2> DEFINE g == [i \in 0..m |-> IF i = m THEN Step(m, f[m - 1]) ELSE f[i]]
  <2>2. ASSUME NEW i \in 0..m PROVE g[i] = Step(i, g[i - 1])
    <3>1. CASE i = 0
      BY <1>1, <2>1, <3>1
    <3>2. CASE i = m
      BY <1>1, <3>2
    <3>3. CASE i # 0 /\ i # m
      <4>1. i \in 0..(m - 1) /\ i - 1 \in 0..(m - 1) /\ i - 1 # m
        BY <1>1, <3>3
      <4>2. f[i] = Step(i, f[i - 1])
        BY <2>1, <3>3, <4>1
      <4> QED BY <3>3, <4>1, <4>2
    <3> QED BY <3>1, <3>2, <3>3
  <2>3. Keeps(g, m)
    BY <2>2
  <2>4. g[m] = IF s[m] = Nobody THEN f[m - 1] ELSE Append(f[m - 1], s[m])
    BY <1>1
  <2>5. First(m) = First(m - 1) \union {s[m]}
    <3>1. 1..m = (1..(m - 1)) \union {m}
      BY <1>1
    <3> QED BY <3>1
  <2>6. s[m] \in S /\ Start(m - 1) \in Seq(S) /\ m # 0
    <3>1. PICK k \in Nat : k = m - 1
      BY <1>1
    <3>2. \A j \in 1..k : s[j] \in S
      BY <1>1, <3>1
    <3>3. [j \in 1..k |-> s[j]] \in [1..k -> S]
      BY <3>2
    <3>4. [j \in 1..k |-> s[j]] \in Seq(S)
      BY <3>3
    <3> QED BY <1>1, <3>1, <3>4
  <2>7. Start(m) = Append(Start(m - 1), s[m])
    BY <1>1, <2>6
  <2> HIDE DEF g, First, Start
  <2>8. PICK k : k = f[m - 1]
    OBVIOUS
  <2>9. /\ k \in Seq(S) /\ Range(k) = First(m - 1) \ {Nobody}
        /\ Nobody \notin First(m - 1) => k = Start(m - 1)
    BY <2>1, <2>8
  <2>10. Same(g[m], m)
    <3>1. CASE s[m] = Nobody
      <4>1. g[m] = k /\ First(m) \ {Nobody} = First(m - 1) \ {Nobody} /\ Nobody \in First(m)
        BY <2>4, <2>5, <2>8, <3>1
      <4> QED BY <2>9, <3>1, <4>1
    <3>2. CASE s[m] # Nobody
      <4>1. g[m] = Append(k, s[m]) /\ First(m) \ {Nobody} = (First(m - 1) \ {Nobody}) \union {s[m]}
        BY <2>4, <2>5, <2>8, <3>2
      <4>2. /\ Append(k, s[m]) \in Seq(S) /\ Append(k, s[m]) # <<>> /\ Last(Append(k, s[m])) = s[m]
            /\ Range(Append(k, s[m])) = Range(k) \union {s[m]}
        BY <2>6, <2>9, AppendEffect
      <4>3. Nobody \notin First(m) => g[m] = Start(m)
        BY <2>5, <2>7, <2>9, <4>1
      <4> QED BY <2>9, <4>1, <4>2, <4>3
    <3> QED BY <3>1, <3>2
  <2> QED BY <2>3, <2>10
<1>4. Good(n)
  <2> HIDE DEF Good
  <2>1. \A m \in Nat : m <= n => Good(m)
    <3> DEFINE Bad == {m \in 0..n : ~ Good(m)}
    <3> SUFFICES ASSUME Bad # {} PROVE FALSE
      BY <1>1
    <3>0. Bad \subseteq Nat
      BY <1>1
    <3>1. PICK m \in Bad : \A k \in Bad : m <= k
      <4> HIDE DEF Bad
      <4> QED BY <3>0, Smallest
    <3>2. m \in 1..n /\ m - 1 \in 0..n /\ ~(m <= m - 1)
      BY <1>1, <1>2, <3>1
    <3> QED BY <1>3, <3>1, <3>2
  <2> QED BY <1>1, <2>1
<1>5. PICK f : Keeps(f, n) /\ Same(f[n], n)
  BY <1>4
<1>6. PICK g : Keeps(g, n) /\ Filled(s) = g[n]
  <2>1. Filled(s) = (CHOOSE h : Keeps(h, n))[n]
    BY DEF Filled, n
  <2> HIDE DEF Keeps
  <2> QED BY <1>5, <2>1
<1>7. \A i \in 0..n : f[i] = g[i]
  <2> DEFINE Bad == {i \in 0..n : f[i] # g[i]}
  <2> SUFFICES ASSUME Bad # {} PROVE FALSE
    OBVIOUS
  <2>0. Bad \subseteq Nat
    BY <1>1
  <2>1. PICK i \in Bad : \A k \in Bad : i <= k
    <3> HIDE DEF Bad
    <3> QED BY <2>0, Smallest
  <2>2. i \in 0..n /\ f[i] = Step(i, f[i - 1]) /\ g[i] = Step(i, g[i - 1])
    BY <1>5, <1>6, <2>1
  <2>3. i # 0
    BY <2>1, <2>2
  <2>4. i - 1 \in 0..n /\ ~(i <= i - 1)
    BY <1>1, <2>2, <2>3
  <2>5. f[i - 1] = g[i - 1]
    BY <2>1, <2>4
  <2> QED BY <2>1, <2>2, <2>5
<1>8. Same(Filled(s), n)
  <2>1. f[n] = Filled(s)
    BY <1>1, <1>6, <1>7
  <2> HIDE DEF Same
  <2> QED BY <1>5, <2>1
<1>9. s # <<>> => n # 0 /\ Last(s) = s[n]
  BY <1>1 DEF Last, n
<1> HIDE DEF First, Start
<1> QED BY <1>1, <1>8, <1>9

\* A list of tags, none of them empty.
TagList(s) == IsSequence(s) /\ Nobody \notin Range(s)

LEMMA EmptyTags == TagList(Empty) /\ IsSequence(Empty)
<1>1. Empty \in Seq({}) /\ DOMAIN Empty = {}
  BY EmptySeq DEF Empty
<1>2. IsSequence(Empty)
  BY <1>1, SeqOfRange DEF IsSequence
<1>3. Range(Empty) = {}
  BY <1>1 DEF Range
<1> QED BY <1>2, <1>3 DEF TagList

\* The tags that a reader builds.
LEMMA BuiltTags ==
  ASSUME NEW body, SoundTask(body)
  PROVE  TagList(Values(body, "context"))
<1>1. CASE "context" \in DOMAIN body
  <2>1. PICK s : s = body["context"]
    OBVIOUS
  <2>2. s \in Seq(Range(s))
    BY <1>1, <2>1 DEF SoundTask, IsSequence
  <2>3. PICK S : S = Range(s)
    OBVIOUS
  <2>4. Filled(s) \in Seq(S) /\ Range(Filled(s)) = S \ {Nobody}
    BY <2>2, <2>3, FilledEffect
  <2>5. TagList(Filled(s))
    BY <2>4, SeqOfRange DEF TagList, IsSequence
  <2> QED BY <1>1, <2>1, <2>5 DEF Values
<1>2. CASE "context" \notin DOMAIN body
  BY <1>2, EmptyTags DEF Values
<1> QED BY <1>1, <1>2

\* A list of two.
LEMMA PairJoins == ASSUME NEW a, NEW b PROVE <<a, b>> = <<a>> \o <<b>>
<1>1. PICK v, w : v = <<a, b>> /\ w = <<a>> \o <<b>>
  OBVIOUS
<1>2. <<a>> \in Seq({a, b}) /\ <<b>> \in Seq({a, b}) /\ v \in Seq({a, b})
  BY <1>1
<1>3. w \in Seq({a, b}) /\ Len(w) = 2 /\ w[1] = a /\ w[2] = b
  BY <1>1, <1>2
<1>4. Len(v) = 2 /\ v[1] = a /\ v[2] = b
  BY <1>1
<1>5. \A k \in 1..Len(v) : v[k] = w[k]
  BY <1>3, <1>4
<1>6. v = w
  BY <1>2, <1>3, <1>4, <1>5, SeqEqual
<1> QED BY <1>1, <1>6

-----------------------------------------------------------------------------
(* The merge. *)

LEMMA ReplaceSingle ==
  ASSUME NEW values, NEW val, values = <<values[1]>>
  PROVE  ReplaceLast(values, val) = <<val>> /\ Last(values) = values[1]
<1> QED BY DEF ReplaceLast, Last

\* A list with another last member.
LEMMA ReplaceLastEffect ==
  ASSUME NEW s, IsSequence(s), s # Empty, NEW v, NEW r, r = ReplaceLast(s, v)
  PROVE  IsSequence(r) /\ r # Empty /\ Last(r) = v /\ Range(r) \subseteq Range(s) \union {v}
<1>1. PICK n, S : n = Len(s) /\ S = Range(s) \union {v}
  OBVIOUS
<1>2. s \in Seq(S) /\ n \in Nat /\ n # 0 /\ DOMAIN s = 1..n
  BY <1>1 DEF IsSequence, Empty
<1>3. r = [s EXCEPT ![n] = v]
  BY <1>1 DEF ReplaceLast
<1>4. r \in [1..n -> S] /\ r[n] = v
  <2>1. s \in [1..n -> S]
    BY <1>1, <1>2
  <2>2. v \in S /\ n \in 1..n
    BY <1>1, <1>2
  <2> QED BY <1>3, <2>1, <2>2
<1>5. r \in Seq(S) /\ Len(r) = n
  BY <1>2, <1>4
<1>6. Range(r) \subseteq S
  BY <1>4 DEF Range
<1>7. IsSequence(r)
  BY <1>5, SeqOfRange DEF IsSequence
<1> QED BY <1>1, <1>2, <1>4, <1>5, <1>6, <1>7 DEF Last, Empty

\* Of several tags of a task at least the last one of the update is taken, and
\* none comes from elsewhere.
LEMMA MergedContext ==
  ASSUME NEW old, NEW new, NEW tag, tag # "project",
         tag \in DOMAIN old => IsSequence(old[tag]) /\ old[tag] # Empty,
         tag \in DOMAIN new => IsSequence(new[tag]) /\ new[tag] # Empty,
         NEW body, body = MergeUpdate(old, new)
  PROVE  /\ tag \in DOMAIN body <=> tag \in DOMAIN old \union DOMAIN new
         /\ tag \in DOMAIN body => IsSequence(body[tag]) /\ body[tag] # Empty
         /\ tag \in DOMAIN new =>
                /\ Last(body[tag]) = Last(new[tag])
                /\ Range(body[tag]) \subseteq
                       Range(new[tag]) \union IF tag \in DOMAIN old THEN Range(old[tag]) ELSE {}
         /\ (tag \in DOMAIN old /\ tag \notin DOMAIN new) => body[tag] = old[tag]
<1>1. DOMAIN body = DOMAIN old \union DOMAIN new
  BY DEF MergeUpdate
<1>2. CASE tag \notin DOMAIN new
  BY <1>1, <1>2 DEF MergeUpdate
<1>3. CASE tag \in DOMAIN new /\ tag \notin DOMAIN old
  BY <1>1, <1>3 DEF MergeUpdate
<1>4. CASE tag \in DOMAIN new /\ tag \in DOMAIN old
  <2>1. PICK s, t, v : s = old[tag] /\ t = new[tag] /\ v = Last(t)
    OBVIOUS
  <2>2. body[tag] = ReplaceLast(s, v)
    BY <1>4, <2>1 DEF MergeUpdate, MergedChild
  <2>3. IsSequence(s) /\ s # Empty /\ IsSequence(t) /\ t # Empty
    BY <1>4, <2>1
  <2>4. IsSequence(body[tag]) /\ body[tag] # Empty /\ Last(body[tag]) = v /\ Range(body[tag]) \subseteq Range(s) \union {v}
    BY <2>2, <2>3, ReplaceLastEffect
  <2>5. v \in Range(t)
    <3>1. Len(t) \in Nat /\ Len(t) # 0 /\ DOMAIN t = 1..Len(t)
      BY <2>3 DEF IsSequence, Empty
    <3> QED BY <2>1, <3>1 DEF Range, Last
  <2> QED BY <1>1, <1>4, <2>1, <2>4, <2>5
<1> QED BY <1>2, <1>3, <1>4

\* What an update makes of a child of one tag: the body has it if one of the
\* two has, and the update's value wins.
Merged(old, new, tag, body) ==
    /\ tag \in DOMAIN body <=> tag \in DOMAIN old \union DOMAIN new
    /\ tag \in DOMAIN body => body[tag][1] = IF tag \in DOMAIN new THEN new[tag][1] ELSE old[tag][1]

\* Of a tag that occurs once, the update wins.
LEMMA MergedValue ==
  ASSUME NEW old, NEW new, NEW tag, tag # "project",
         Single(old, {tag}), Single(new, {tag}),
         NEW body, body = MergeUpdate(old, new)
  PROVE  Single(body, {tag}) /\ Merged(old, new, tag, body)
<1> USE DEF Merged
<1>1. DOMAIN body = DOMAIN old \union DOMAIN new
  BY DEF MergeUpdate
<1>2. CASE tag \notin DOMAIN new
  BY <1>1, <1>2 DEF MergeUpdate, Single
<1>3. CASE tag \in DOMAIN new /\ tag \notin DOMAIN old
  BY <1>1, <1>3 DEF MergeUpdate, Single
<1>4. CASE tag \in DOMAIN new /\ tag \in DOMAIN old
  <2>1. old[tag] = <<old[tag][1]>> /\ new[tag] = <<new[tag][1]>>
    BY <1>4 DEF Single
  <2>2. body[tag] = ReplaceLast(old[tag], Last(new[tag]))
    BY <1>4 DEF MergeUpdate, MergedChild
  <2>3. body[tag] = <<new[tag][1]>>
    BY <2>1, <2>2, ReplaceSingle
  <2> QED BY <1>1, <1>4, <2>3 DEF Single
<1> QED BY <1>2, <1>3, <1>4

\* The status of a project is that of the update, if it has one, unless the
\* update makes the project a task.
LEMMA MergedStatus ==
  ASSUME NEW old, NEW new, Single(old, {"project"}), Single(new, {"project"}),
         Single(Container(old), {"status"}), Single(Container(new), {"status"}),
         NEW body, body = MergeUpdate(old, new)
  PROVE  /\ Single(body, {"project"})
         /\ Single(Container(body), {"status"})
         /\ Value(Container(body), "status", Nobody) =
                IF "status" \in DOMAIN Container(new) THEN Container(new)["status"][1]
                ELSE IF "project" \in DOMAIN new /\ DOMAIN Container(new) = {} THEN Nobody
                ELSE Value(Container(old), "status", Nobody)
<1>1. DOMAIN body = DOMAIN old \union DOMAIN new
  BY DEF MergeUpdate
<1>2. CASE "project" \notin DOMAIN new
  BY <1>1, <1>2 DEF MergeUpdate, Single, Container, Value, Empty
<1>3. CASE "project" \in DOMAIN new /\ "project" \notin DOMAIN old
  BY <1>1, <1>3 DEF MergeUpdate, Single, Container, Value, Empty
<1>4. CASE "project" \in DOMAIN new /\ "project" \in DOMAIN old
  <2> DEFINE o == old["project"][1]
             n == new["project"][1]
  <2>1. old["project"] = <<o>> /\ new["project"] = <<n>>
    BY <1>4 DEF Single
  <2>2. body["project"] = ReplaceLast(old["project"], MergedChild("project", Last(old["project"]), Last(new["project"])))
    BY <1>4 DEF MergeUpdate
  <2>3. body["project"] = <<MergedChild("project", o, n)>>
    BY <2>1, <2>2, ReplaceSingle
  <2>4. Container(body) = MergedChild("project", o, n) /\ Container(old) = o /\ Container(new) = n
    BY <1>1, <1>4, <2>3 DEF Container, Value
  <2>5. Single(body, {"project"})
    BY <2>3 DEF Single
  <2> HIDE DEF o, n
  <2>6. CASE DOMAIN n = {}
    BY <1>4, <2>4, <2>5, <2>6 DEF MergedChild, Single, Value
  <2>7. CASE DOMAIN n # {}
    <3>1. Container(body) = MergeNested(o, n)
      BY <2>4, <2>7 DEF MergedChild
    <3>2. DOMAIN Container(body) = DOMAIN o \union DOMAIN n
      BY <3>1 DEF MergeNested
    <3>3. CASE "status" \notin DOMAIN n
      BY <2>4, <2>5, <2>7, <3>1, <3>2, <3>3 DEF MergeNested, Single, Value
    <3>4. CASE "status" \in DOMAIN n /\ "status" \notin DOMAIN o
      BY <2>4, <2>5, <3>1, <3>2, <3>4 DEF MergeNested, Single, Value
    <3>5. CASE "status" \in DOMAIN n /\ "status" \in DOMAIN o
      <4>1. o["status"] = <<o["status"][1]>> /\ n["status"] = <<n["status"][1]>>
        BY <2>4, <3>5 DEF Single
      <4>2. Container(body)["status"] = ReplaceLast(o["status"], Last(n["status"]))
        BY <3>1, <3>5 DEF MergeNested
      <4>3. Container(body)["status"] = <<n["status"][1]>>
        BY <4>1, <4>2, ReplaceSingle
      <4> QED BY <2>4, <2>5, <3>2, <3>5, <4>3 DEF Single, Value
    <3> QED BY <3>3, <3>4, <3>5
  <2> QED BY <2>6, <2>7
<1> QED BY <1>2, <1>3, <1>4

\* A sound update keeps a task sound.
LEMMA MergeKeepsSound ==
  ASSUME NEW old, NEW new, SoundTask(old), SoundTask(new), SoundTaskUpdate(new),
         NEW body, body = MergeUpdate(old, new)
  PROVE  SoundTask(body)
<1> DEFINE Tags == {"name", "inbox", "task", "project", "completed"}
<1>1. \A tag \in Tags \ {"project"} :
          /\ Single(body, {tag})
          /\ tag \in DOMAIN body <=> tag \in DOMAIN old \union DOMAIN new
          /\ tag \in DOMAIN body =>
                 body[tag][1] = IF tag \in DOMAIN new THEN new[tag][1] ELSE old[tag][1]
  <2> SUFFICES ASSUME NEW tag \in Tags \ {"project"}
               PROVE  /\ Single(body, {tag})
                      /\ tag \in DOMAIN body <=> tag \in DOMAIN old \union DOMAIN new
                      /\ tag \in DOMAIN body =>
                             body[tag][1] = IF tag \in DOMAIN new THEN new[tag][1] ELSE old[tag][1]
    OBVIOUS
  <2>1. Single(old, {tag}) /\ Single(new, {tag})
    BY DEF SoundTask, Single
  <2>2. tag # "project"
    OBVIOUS
  <2> HIDE DEF Tags
  <2> QED BY <2>1, <2>2, MergedValue DEF Merged
<1>2. /\ Single(body, {"project"})
      /\ Single(Container(body), {"status"})
      /\ Value(Container(body), "status", Nobody) =
             IF "status" \in DOMAIN Container(new) THEN Container(new)["status"][1]
             ELSE IF "project" \in DOMAIN new /\ DOMAIN Container(new) = {} THEN Nobody
             ELSE Value(Container(old), "status", Nobody)
  <2>1. Single(old, {"project"}) /\ Single(new, {"project"})
    BY DEF SoundTask, Single
  <2>2. Single(Container(old), {"status"}) /\ Single(Container(new), {"status"})
    BY DEF SoundTask
  <2> QED BY <2>1, <2>2, MergedStatus
<1>3. Single(body, Tags)
  BY <1>1, <1>2 DEF Single
<1>4. Value(body, "inbox", FALSE) => Value(body, "task", Nobody) = Nobody
  BY <1>1 DEF SoundTask, SoundTaskUpdate, Value
<1>5. Value(Container(body), "status", Nobody) = "done" => Value(body, "completed", Never) # Never
  BY <1>1, <1>2 DEF SoundTask, SoundTaskUpdate, Value, Nobody
<1>6. "context" \in DOMAIN body => IsSequence(body["context"]) /\ body["context"] # Empty
  <2>1. /\ "context" \in DOMAIN old => IsSequence(old["context"]) /\ old["context"] # Empty
        /\ "context" \in DOMAIN new => IsSequence(new["context"]) /\ new["context"] # Empty
    BY DEF SoundTask
  <2>2. PICK tag : tag = "context"
    OBVIOUS
  <2>3. tag \in DOMAIN body => IsSequence(body[tag]) /\ body[tag] # Empty
    BY <2>1, <2>2, MergedContext
  <2> QED BY <2>2, <2>3
<1> QED BY <1>2, <1>3, <1>4, <1>5, <1>6 DEF SoundTask
-----------------------------------------------------------------------------
(* Walks. *)

\* A walk of any length exists, so that Walk is what its definition says.
LEMMA WalkSteps ==
  ASSUME NEW step, NEW start, NEW n \in Nat, NEW at, at = Walk(step, start, n)
  PROVE  /\ at[0] = start
         /\ \A k \in 1..n : at[k] = IF at[k - 1] \in DOMAIN step THEN step[at[k - 1]] ELSE at[k - 1]
<1> DEFINE Next1(x) == IF x \in DOMAIN step THEN step[x] ELSE x
           IsWalk(w, m) == w = [k \in 0..m |-> IF k = 0 THEN start ELSE Next1(w[k - 1])]
           Bad == {m \in Nat : ~ \E w : IsWalk(w, m)}
<1>1. Bad = {}
  <2> SUFFICES ASSUME Bad # {} PROVE FALSE
    OBVIOUS
  <2>1. PICK m \in Bad : \A k \in Bad : m <= k
    BY Smallest
  <2>2. \E w : IsWalk(w, 0)
    <3>1. IsWalk([k \in 0..0 |-> start], 0)
      OBVIOUS
    <3> QED BY <3>1
  <2>3. m \in Nat /\ m # 0 /\ m - 1 \in Nat /\ m - 1 \notin Bad
    <3>1. m \in Nat /\ m # 0
      BY <2>1, <2>2
    <3>2. m - 1 \in Nat /\ ~(m <= m - 1)
      BY <3>1
    <3> HIDE DEF Bad
    <3> QED BY <2>1, <3>1, <3>2
  <2>4. PICK w : IsWalk(w, m - 1)
    BY <2>3
  <2> DEFINE v == [k \in 0..m |-> IF k = m THEN Next1(w[m - 1]) ELSE w[k]]
  <2>5. ASSUME NEW k \in 0..m
        PROVE  v[k] = IF k = 0 THEN start ELSE Next1(v[k - 1])
    <3>1. CASE k = 0
      BY <2>3, <2>4, <3>1
    <3>2. CASE k = m
      BY <2>3, <3>2
    <3>3. CASE k # 0 /\ k # m
      <4>1. k \in 0..(m - 1) /\ k - 1 \in 0..(m - 1)
        BY <3>3
      <4>2. w[k] = Next1(w[k - 1])
        BY <2>4, <3>3, <4>1
      <4> QED BY <3>3, <4>1, <4>2
    <3> QED BY <3>1, <3>2, <3>3
  <2>6. IsWalk(v, m)
    BY <2>5
  <2> QED BY <2>1, <2>6
<1>2. PICK w : IsWalk(w, n)
  BY <1>1
<1>3. at = CHOOSE w1 : IsWalk(w1, n)
  BY DEF Walk
<1>4. IsWalk(at, n)
  BY <1>2, <1>3
<1>5. \A k \in 0..n : at[k] = IF k = 0 THEN start ELSE Next1(at[k - 1])
  BY <1>4
<1>6. at[0] = start
  BY <1>5
<1>7. ASSUME NEW k \in 1..n PROVE at[k] = Next1(at[k - 1])
  <2> HIDE DEF Next1
  <2>1. k \in 0..n /\ k # 0
    OBVIOUS
  <2> QED BY <1>5, <2>1
<1> QED BY <1>6, <1>7

\* What holds at the start and after each step holds all along.
LEMMA UpTo ==
  ASSUME NEW n \in Nat, NEW T, 0 \in T, \A k \in 1..n : k - 1 \in T => k \in T
  PROVE  \A k \in 0..n : k \in T
<1> DEFINE Out == {k \in 0..n : k \notin T}
<1> SUFFICES ASSUME Out # {} PROVE FALSE
  OBVIOUS
<1>1. Out \subseteq Nat
  OBVIOUS
<1>2. PICK k \in Out : \A j \in Out : k <= j
  <2> HIDE DEF Out
  <2> QED BY <1>1, Smallest
<1>3. k \in 1..n /\ k - 1 \in 0..n /\ ~(k <= k - 1)
  OBVIOUS
<1>4. k - 1 \in T
  BY <1>2, <1>3
<1> QED BY <1>3, <1>4

\* A walk stays where its steps stay.
LEMMA WalkStays ==
  ASSUME NEW step, NEW V, NEW start \in V, \A i \in V \intersect DOMAIN step : step[i] \in V,
         NEW n \in Nat, NEW at, at = Walk(step, start, n)
  PROVE  \A k \in 0..n : at[k] \in V
<1>1. /\ at[0] = start
      /\ \A k \in 1..n : at[k] = IF at[k - 1] \in DOMAIN step THEN step[at[k - 1]] ELSE at[k - 1]
  BY WalkSteps
<1>2. PICK T : T = {k \in 0..n : at[k] \in V}
  OBVIOUS
<1>3. 0 \in T
  BY <1>1, <1>2
<1>4. ASSUME NEW k \in 1..n, k - 1 \in T PROVE k \in T
  <2>1. at[k - 1] \in V
    BY <1>2, <1>4
  <2>2. at[k] \in V
    BY <1>1, <2>1
  <2> QED BY <1>2, <2>2
<1>5. \A k \in 0..n : k \in T
  BY ONLY n \in Nat, <1>3, <1>4, UpTo
<1> QED BY <1>2, <1>5

\* The first step of a walk, and the others.
LEMMA WalkOn ==
  ASSUME NEW step, NEW start \in DOMAIN step, NEW n \in Nat,
         NEW at, at = Walk(step, start, n + 1), NEW on, on = Walk(step, step[start], n)
  PROVE  at[n + 1] = on[n]
<1>1. /\ on[0] = step[start]
      /\ \A k \in 1..n : on[k] = IF on[k - 1] \in DOMAIN step THEN step[on[k - 1]] ELSE on[k - 1]
  BY WalkSteps
<1>2. /\ at[0] = start
      /\ \A k \in 1..(n + 1) : at[k] = IF at[k - 1] \in DOMAIN step THEN step[at[k - 1]] ELSE at[k - 1]
  <2>1. PICK m \in Nat : m = n + 1
    OBVIOUS
  <2>2. /\ at[0] = start
        /\ \A k \in 1..m : at[k] = IF at[k - 1] \in DOMAIN step THEN step[at[k - 1]] ELSE at[k - 1]
    BY <2>1, WalkSteps
  <2> QED BY <2>1, <2>2
<1>3. PICK T : T = {k \in 0..n : at[k + 1] = on[k]}
  OBVIOUS
<1>4. 0 \in T
  <2>1. 1 \in 1..(n + 1) /\ 1 - 1 = 0 /\ 0 + 1 = 1
    OBVIOUS
  <2>2. at[1] = IF at[1 - 1] \in DOMAIN step THEN step[at[1 - 1]] ELSE at[1 - 1]
    BY <1>2, <2>1
  <2>3. at[1] = step[start]
    BY <1>2, <2>1, <2>2
  <2> QED BY <1>1, <1>3, <2>1, <2>3
<1>5. ASSUME NEW k \in 1..n, k - 1 \in T PROVE k \in T
  <2>1. k + 1 \in 1..(n + 1) /\ (k + 1) - 1 = k /\ (k - 1) + 1 = k
    OBVIOUS
  <2>2. at[k] = on[k - 1]
    BY <1>3, <1>5, <2>1
  <2>3. at[k + 1] = IF at[k] \in DOMAIN step THEN step[at[k]] ELSE at[k]
    BY <1>2, <2>1
  <2>4. at[k + 1] = on[k]
    BY <1>1, <2>2, <2>3
  <2> QED BY <1>3, <2>4
<1>6. \A k \in 0..n : k \in T
  BY ONLY n \in Nat, <1>4, <1>5, UpTo
<1> QED BY <1>3, <1>6

\* Where no step leads on, a walk ends.
LEMMA WalkEnds ==
  ASSUME NEW step, NEW start, NEW n \in Nat, NEW at, at = Walk(step, start, n),
         NEW k \in 0..n, at[k] \notin DOMAIN step
  PROVE  at[n] = at[k]
<1>1. \A j \in 1..n : at[j] = IF at[j - 1] \in DOMAIN step THEN step[at[j - 1]] ELSE at[j - 1]
  BY WalkSteps
<1>2. PICK T : T = {j \in 0..n : j < k \/ at[j] = at[k]}
  OBVIOUS
<1>3. 0 \in T
  BY <1>2
<1>4. ASSUME NEW j \in 1..n, j - 1 \in T PROVE j \in T
  <2>1. CASE j < k
    BY <1>2, <2>1
  <2>2. CASE j = k
    BY <1>2, <2>2
  <2>3. CASE j > k
    <3>1. at[j - 1] = at[k]
      BY <1>2, <1>4, <2>3
    <3>2. at[j] = at[k]
      BY <1>1, <3>1
    <3> QED BY <1>2, <3>2
  <2> QED BY <2>1, <2>2, <2>3
<1>5. \A j \in 0..n : j \in T
  BY ONLY n \in Nat, <1>3, <1>4, UpTo
<1>6. n \in T /\ ~(n < k)
  BY <1>5
<1> QED BY <1>2, <1>6

\* Two walks are the same where each step is.
LEMMA WalkAlike ==
  ASSUME NEW step, NEW other, NEW start, NEW n \in Nat,
         NEW at, at = Walk(step, start, n), NEW on, on = Walk(other, start, n),
         \A k \in 0..n : /\ at[k] \in DOMAIN step <=> at[k] \in DOMAIN other
                         /\ at[k] \in DOMAIN step => step[at[k]] = other[at[k]]
  PROVE  \A k \in 0..n : on[k] = at[k]
<1>1. /\ at[0] = start
      /\ \A k \in 1..n : at[k] = IF at[k - 1] \in DOMAIN step THEN step[at[k - 1]] ELSE at[k - 1]
  BY WalkSteps
<1>2. /\ on[0] = start
      /\ \A k \in 1..n : on[k] = IF on[k - 1] \in DOMAIN other THEN other[on[k - 1]] ELSE on[k - 1]
  BY WalkSteps
<1>3. PICK T : T = {k \in 0..n : on[k] = at[k]}
  OBVIOUS
<1>4. 0 \in T
  BY <1>1, <1>2, <1>3
<1>5. ASSUME NEW k \in 1..n, k - 1 \in T PROVE k \in T
  <2>1. k - 1 \in 0..n /\ on[k - 1] = at[k - 1]
    BY <1>3, <1>5
  <2>2. on[k] = at[k]
    BY <1>1, <1>2, <2>1
  <2> QED BY <1>3, <2>2
<1>6. \A k \in 0..n : k \in T
  BY ONLY n \in Nat, <1>4, <1>5, UpTo
<1> QED BY <1>3, <1>6

-----------------------------------------------------------------------------
(* The index. *)

Written(x, e) ==
    IF Updates(e) /\ e.id \in DOMAIN x[e.kind] THEN MergeUpdate(x[e.kind][e.id], Content(e))
    ELSE Content(e)

\* An element changes nothing but the entry it is about.
LEMMA IndexEffect ==
  ASSUME NEW x, x = [kind \in Kinds |-> x[kind]], NEW e, e.kind \in Kinds,
         NEW y, y = IndexElement(x, e)
  PROVE  /\ y = [kind \in Kinds |-> y[kind]]
         /\ \A kind \in Kinds \ {e.kind} : y[kind] = x[kind]
         /\ \A id \in DOMAIN y[e.kind] \ {e.id} :
                id \in DOMAIN x[e.kind] /\ y[e.kind][id] = x[e.kind][id]
         /\ \A id \in DOMAIN x[e.kind] \ {e.id} : id \in DOMAIN y[e.kind]
         /\ IF Removes(e) THEN DOMAIN y[e.kind] = DOMAIN x[e.kind] \ {e.id}
            ELSE /\ DOMAIN y[e.kind] = DOMAIN x[e.kind] \union {e.id}
                 /\ y[e.kind][e.id] = Written(x, e)
<1>1. CASE Removes(e)
  <2>1. y = [x EXCEPT ![e.kind] = Restrict(@, DOMAIN @ \ {e.id})]
    BY <1>1 DEF IndexElement, Dropped
  <2>2. y[e.kind] = [i \in DOMAIN x[e.kind] \ {e.id} |-> x[e.kind][i]]
    BY <2>1 DEF Restrict
  <2>3. y = [kind \in Kinds |-> y[kind]] /\ \A kind \in Kinds \ {e.kind} : y[kind] = x[kind]
    BY <2>1
  <2> QED BY <1>1, <2>2, <2>3
<1>2. CASE ~Removes(e)
  <2>1. y = Stored(x, e.kind, e.id, Written(x, e))
    BY <1>2 DEF IndexElement, Written, Updates
  <2>2. y[e.kind] = [i \in DOMAIN x[e.kind] \union {e.id} |->
                        IF i = e.id THEN Written(x, e) ELSE x[e.kind][i]]
    BY <2>1 DEF Stored
  <2>3. y = [kind \in Kinds |-> y[kind]] /\ \A kind \in Kinds \ {e.kind} : y[kind] = x[kind]
    BY <2>1 DEF Stored
  <2> QED BY <1>2, <2>2, <2>3
<1> QED BY <1>1, <1>2

\* Sound elements keep an index sound.
LEMMA IndexStaysSound ==
  ASSUME NEW x, SoundIndex(x), NEW e, SoundElement(e), NEW y, y = IndexElement(x, e)
  PROVE  SoundIndex(y)
<1>1. x = [kind \in Kinds |-> x[kind]] /\ e.kind \in Kinds /\ e.id # Nobody
  BY DEF SoundIndex, SoundElement
<1>2. /\ y = [kind \in Kinds |-> y[kind]]
      /\ \A kind \in Kinds \ {e.kind} : y[kind] = x[kind]
      /\ \A id \in DOMAIN y[e.kind] \ {e.id} :
             id \in DOMAIN x[e.kind] /\ y[e.kind][id] = x[e.kind][id]
      /\ DOMAIN y[e.kind] \subseteq DOMAIN x[e.kind] \union {e.id}
      /\ e.id \in DOMAIN y[e.kind] => y[e.kind][e.id] = Written(x, e)
  BY <1>1, IndexEffect
<1>3. ASSUME NEW kind \in Kinds PROVE IsFiniteSet(DOMAIN y[kind]) /\ Nobody \notin DOMAIN y[kind]
  <2>1. IsFiniteSet(DOMAIN x[kind]) /\ Nobody \notin DOMAIN x[kind]
    BY DEF SoundIndex
  <2>2. IsFiniteSet(DOMAIN x[kind] \union {e.id})
    BY <2>1, FS_AddElement
  <2>3. DOMAIN y[kind] \subseteq DOMAIN x[kind] \union {e.id}
    BY <1>2
  <2> QED BY <1>1, <2>1, <2>2, <2>3, FS_Subset
<1>4. ASSUME e.kind = "task", e.id \in DOMAIN y.task PROVE SoundTask(y.task[e.id])
  <2>1. SoundTask(Content(e)) /\ (Updates(e) => SoundTaskUpdate(Content(e)))
    BY <1>4 DEF SoundElement
  <2>2. CASE Updates(e) /\ e.id \in DOMAIN x.task
    <3>1. SoundTask(x.task[e.id])
      BY <2>2 DEF SoundIndex
    <3>2. y.task[e.id] = MergeUpdate(x.task[e.id], Content(e))
      BY <1>2, <1>4, <2>2 DEF Written
    <3> QED BY <2>1, <2>2, <3>1, <3>2, MergeKeepsSound
  <2>3. CASE ~(Updates(e) /\ e.id \in DOMAIN x.task)
    BY <1>2, <1>4, <2>1, <2>3 DEF Written
  <2> QED BY <2>2, <2>3
<1>5. ASSUME NEW id \in DOMAIN y.task PROVE SoundTask(y.task[id])
  <2>1. CASE e.kind = "task" /\ id = e.id
    BY <1>4, <2>1
  <2>2. CASE ~(e.kind = "task" /\ id = e.id)
    <3>1. id \in DOMAIN x.task /\ y.task[id] = x.task[id]
      BY <1>2, <2>2 DEF Kinds
    <3> QED BY <3>1 DEF SoundIndex
  <2> QED BY <2>1, <2>2
<1>6. ASSUME NEW kind \in Kinds \ {"task"}, NEW id \in DOMAIN y[kind]
      PROVE  SoundGroup(kind, y[kind][id])
  <2>1. CASE e.kind = kind /\ id = e.id
    <3>1. SoundGroup(kind, Content(e))
      BY <2>1 DEF SoundElement
    <3>2. CASE Updates(e) /\ e.id \in DOMAIN x[kind]
      <4>1. SoundGroup(kind, x[kind][id])
        BY <2>1, <3>2 DEF SoundIndex
      <4>2. y[kind][id] = MergeUpdate(x[kind][id], Content(e))
        BY <1>2, <2>1, <3>2 DEF Written
      <4>3. ASSUME NEW tag \in {"name", kind} PROVE Single(y[kind][id], {tag})
        <5>1. tag # "project"
          BY DEF Kinds
        <5>2. Single(x[kind][id], {tag}) /\ Single(Content(e), {tag})
          BY <3>1, <4>1 DEF SoundGroup, Single
        <5> QED BY <4>2, <5>1, <5>2, MergedValue DEF Merged
      <4> QED BY <4>3 DEF SoundGroup, Single
    <3>3. CASE ~(Updates(e) /\ e.id \in DOMAIN x[kind])
      BY <1>2, <2>1, <3>1, <3>3 DEF Written
    <3> QED BY <3>2, <3>3
  <2>2. CASE ~(e.kind = kind /\ id = e.id)
    <3>1. id \in DOMAIN x[kind] /\ y[kind][id] = x[kind][id]
      BY <1>2, <2>2
    <3> QED BY <3>1 DEF SoundIndex
  <2> QED BY <2>1, <2>2
<1> QED BY <1>2, <1>3, <1>5, <1>6 DEF SoundIndex

-----------------------------------------------------------------------------
(* Deltas that are read before others. *)

\* Inserting adds one member.
LEMMA InsertEffect ==
  ASSUME NEW S, NEW s \in Seq(S), NEW v \in S, NEW i \in 1..Len(s), NEW t, t = InsertAt(s, i, v)
  PROVE  t \in Seq(S) /\ Len(t) = Len(s) + 1
<1>1. PICK a, b, n : a = SubSeq(s, 1, i - 1) /\ b = SubSeq(s, i, Len(s)) /\ n = Len(s) /\ n \in Nat
  <2>1. Len(s) \in Nat
    OBVIOUS
  <2> QED BY <2>1
<1>2. a \in Seq(S) /\ Len(a) = i - 1
  BY <1>1
<1>3. b \in Seq(S) /\ Len(b) = n - i + 1
  BY <1>1
<1>4. t = a \o <<v>> \o b
  BY <1>1 DEF InsertAt
<1>5. <<v>> \in Seq(S) /\ Len(<<v>>) = 1
  OBVIOUS
<1>6. PICK u : u = <<v>>
  OBVIOUS
<1>7. PICK c : c = a \o u
  OBVIOUS
<1>8. c \in Seq(S) /\ Len(c) = Len(a) + Len(u)
  BY <1>2, <1>5, <1>6, <1>7
<1>9. t = c \o b
  BY <1>4, <1>6, <1>7
<1>10. t \in Seq(S) /\ Len(t) = Len(c) + Len(b)
  <2>1. c \o b \in Seq(S) /\ Len(c \o b) = Len(c) + Len(b)
    BY ONLY <1>3, <1>8
  <2> QED BY <1>9, <2>1
<1>11. Len(u) = 1
  BY <1>6
<1>12. Len(c) = i /\ i \in Nat
  <2>1. Len(a) = i - 1 /\ i \in Nat
    BY <1>1, <1>2
  <2> QED BY <1>8, <1>11, <2>1
<1> QED BY <1>1, <1>3, <1>10, <1>12

\* The deltas of a task, at least its skeleton.
SoundEntry(id, entry) == SoundElement(entry.element) /\ entry.element.kind = "task" /\ entry.element.id = id

SoundEntries(id, entries) ==
    \E S : /\ entries \in Seq(S) /\ Len(entries) # 0
           /\ \A entry \in S : SoundEntry(id, entry)

\* A log of any length can be read, so that Reread is what its definition says.
LEMMA RereadSteps ==
  ASSUME NEW x, NEW id, NEW entries, Len(entries) \in Nat
  PROVE  \E at : /\ at[0] = Dropped(x, "task", id) /\ at[Len(entries)] = Reread(x, id, entries)
                 /\ \A k \in 1..Len(entries) : at[k] = IndexElement(at[k - 1], entries[k].element)
<1> DEFINE start == Dropped(x, "task", id)
           Next1(y, k) == IndexElement(y, entries[k].element)
           IsRead(w, m) == w = [k \in 0..m |-> IF k = 0 THEN start ELSE Next1(w[k - 1], k)]
           Bad == {m \in Nat : ~ \E w : IsRead(w, m)}
<1>1. Bad = {}
  <2> SUFFICES ASSUME Bad # {} PROVE FALSE
    OBVIOUS
  <2>1. PICK m \in Bad : \A k \in Bad : m <= k
    BY Smallest
  <2>2. \E w : IsRead(w, 0)
    <3>1. IsRead([k \in 0..0 |-> start], 0)
      OBVIOUS
    <3> QED BY <3>1
  <2>3. m \in Nat /\ m # 0 /\ m - 1 \in Nat /\ m - 1 \notin Bad
    <3>1. m \in Nat /\ m # 0
      BY <2>1, <2>2
    <3>2. m - 1 \in Nat /\ ~(m <= m - 1)
      BY <3>1
    <3> HIDE DEF Bad
    <3> QED BY <2>1, <3>1, <3>2
  <2>4. PICK w : IsRead(w, m - 1)
    BY <2>3
  <2> HIDE DEF start, Next1
  <2> DEFINE v == [k \in 0..m |-> IF k = m THEN Next1(w[m - 1], m) ELSE w[k]]
  <2>5. ASSUME NEW k \in 0..m
        PROVE  v[k] = IF k = 0 THEN start ELSE Next1(v[k - 1], k)
    <3>1. CASE k = 0
      BY <2>3, <2>4, <3>1
    <3>2. CASE k = m
      BY <2>3, <3>2
    <3>3. CASE k # 0 /\ k # m
      <4>1. k \in 0..(m - 1) /\ k - 1 \in 0..(m - 1)
        BY <3>3
      <4>2. w[k] = Next1(w[k - 1], k)
        BY <2>4, <3>3, <4>1
      <4> QED BY <3>3, <4>1, <4>2
    <3> QED BY <3>1, <3>2, <3>3
  <2>6. IsRead(v, m)
    BY <2>5
  <2> QED BY <2>1, <2>6
<1>2. PICK w : IsRead(w, Len(entries))
  BY <1>1
<1>3. PICK at : at = CHOOSE w1 : IsRead(w1, Len(entries))
  OBVIOUS
<1>4. IsRead(at, Len(entries))
  BY <1>2, <1>3
<1>5. Reread(x, id, entries) = at[Len(entries)]
  BY <1>3 DEF Reread
<1>6. \A k \in 0..Len(entries) : at[k] = IF k = 0 THEN start ELSE Next1(at[k - 1], k)
  BY <1>4
<1>7. at[0] = start
  BY <1>6
<1>8. ASSUME NEW k \in 1..Len(entries) PROVE at[k] = Next1(at[k - 1], k)
  <2> HIDE DEF Next1
  <2>1. k \in 0..Len(entries) /\ k # 0
    OBVIOUS
  <2> QED BY <1>6, <2>1
<1> QED BY <1>5, <1>7, <1>8

\* What differs between two indices is the entry for one object.
Beside(x, y, kind, id) ==
    /\ \A other \in Kinds \ {kind} : y[other] = x[other]
    /\ \A i \in DOMAIN y[kind] \ {id} : i \in DOMAIN x[kind] /\ y[kind][i] = x[kind][i]
    /\ \A i \in DOMAIN x[kind] \ {id} : i \in DOMAIN y[kind]

LEMMA BesideOneElement ==
  ASSUME NEW x, SoundIndex(x), NEW e, SoundElement(e), NEW y, y = IndexElement(x, e)
  PROVE  Beside(x, y, e.kind, e.id)
<1>1. x = [kind \in Kinds |-> x[kind]] /\ e.kind \in Kinds
  BY DEF SoundIndex, SoundElement
<1> QED BY ONLY <1>1, y = IndexElement(x, e), IndexEffect DEF Beside

\* To read a task anew changes nothing else.
LEMMA RereadEffect ==
  ASSUME NEW x, SoundIndex(x), NEW id, NEW entries, SoundEntries(id, entries),
         NEW y, y = Reread(x, id, entries)
  PROVE  SoundIndex(y) /\ Beside(x, y, "task", id)
<1>1. PICK S : entries \in Seq(S) /\ \A entry \in S : SoundEntry(id, entry)
  BY DEF SoundEntries
<1>2. PICK n : n = Len(entries) /\ n \in Nat
  BY <1>1
<1>3. PICK at : /\ at[0] = Dropped(x, "task", id) /\ at[n] = y
                /\ \A k \in 1..n : at[k] = IndexElement(at[k - 1], entries[k].element)
  BY <1>2, RereadSteps
<1>4. PICK T : T = {k \in 0..n : SoundIndex(at[k]) /\ Beside(x, at[k], "task", id)}
  OBVIOUS
<1>5. 0 \in T
  <2>1. x = [kind \in Kinds |-> x[kind]] /\ "task" \in Kinds
    BY DEF SoundIndex, Kinds
  <2>2. PICK z : z = at[0]
    OBVIOUS
  <2>3. z = [x EXCEPT !["task"] = [i \in DOMAIN x["task"] \ {id} |-> x["task"][i]]]
    BY <1>3, <2>1, <2>2 DEF Dropped, Restrict
  <2>4. /\ z = [kind \in Kinds |-> z[kind]] /\ \A kind \in Kinds \ {"task"} : z[kind] = x[kind]
        /\ z["task"] = [i \in DOMAIN x["task"] \ {id} |-> x["task"][i]]
    BY <2>1, <2>3
  <2>5. Beside(x, z, "task", id)
    BY <2>4 DEF Beside
  <2>6. \A kind \in Kinds : IsFiniteSet(DOMAIN z[kind]) /\ Nobody \notin DOMAIN z[kind]
    <3> SUFFICES ASSUME NEW kind \in Kinds
                 PROVE  IsFiniteSet(DOMAIN z[kind]) /\ Nobody \notin DOMAIN z[kind]
      OBVIOUS
    <3>1. IsFiniteSet(DOMAIN x[kind]) /\ Nobody \notin DOMAIN x[kind]
      BY DEF SoundIndex
    <3>2. DOMAIN z[kind] \subseteq DOMAIN x[kind]
      BY <2>4
    <3> QED BY <3>1, <3>2, FS_Subset
  <2>7. \A i \in DOMAIN z.task : SoundTask(z.task[i])
    BY <2>4 DEF SoundIndex
  <2>8. \A kind \in Kinds \ {"task"} : \A i \in DOMAIN z[kind] : SoundGroup(kind, z[kind][i])
    BY <2>4 DEF SoundIndex
  <2>9. SoundIndex(z)
    BY <2>4, <2>6, <2>7, <2>8 DEF SoundIndex
  <2> QED BY <1>2, <1>4, <2>2, <2>5, <2>9
<1>6. ASSUME NEW k \in 1..n, k - 1 \in T PROVE k \in T
  <2>1. PICK w, z, e : w = at[k - 1] /\ z = at[k] /\ e = entries[k].element
    OBVIOUS
  <2>2. SoundIndex(w) /\ Beside(x, w, "task", id)
    BY <1>4, <1>6, <2>1
  <2>3. entries[k] \in S
    BY <1>1, <1>2
  <2>4. SoundElement(e) /\ e.kind = "task" /\ e.id = id
    BY <1>1, <2>1, <2>3 DEF SoundEntry
  <2>5. z = IndexElement(w, e)
    BY <1>3, <2>1
  <2>6. SoundIndex(z) /\ Beside(w, z, "task", id)
    BY <2>2, <2>4, <2>5, IndexStaysSound, BesideOneElement
  <2>7. Beside(x, z, "task", id)
    BY <2>2, <2>6 DEF Beside
  <2> QED BY <1>4, <2>1, <2>6, <2>7
<1>7. \A k \in 0..n : k \in T
  BY ONLY <1>2, <1>5, <1>6, UpTo
<1>8. n \in T
  BY <1>2, <1>7
<1> QED BY <1>3, <1>4, <1>8

-----------------------------------------------------------------------------
(* The model. *)

TaskFields == {"id", "name", "parent", "project", "inbox", "completed", "hidden",
               "flagged", "note", "due", "tags", "order"}

ProjectFields ==
    {"id", "name", "folder", "status", "reviewed", "completed", "flagged", "note", "due", "tags"}

FolderFields == {"id", "name", "parent"}

TagFields == {"id", "name", "parent", "note", "hidden"}

Apart(t) == t.inbox => t.parent = Nobody /\ t.project = Nobody
Dated(p) == p.status = "done" => p.completed # Never

\* What a walk up from a task leads to.
LEMMA ResolveAlong ==
  ASSUME NEW raw, NEW projects, NEW t, NEW n, n = Cardinality(DOMAIN raw),
         NEW up, up = [i \in DOMAIN raw \ projects |-> Value(raw[i], "task", Nobody)],
         NEW top, top = Walk(up, t, n)[n]
  PROVE  ResolveProject(raw, projects, t) = IF top \in projects THEN top ELSE Nobody
BY DEF ResolveProject

\* Who stays away from the projects is in none of them.
LEMMA ResolvesToNone ==
  ASSUME NEW raw, IsFiniteSet(DOMAIN raw), NEW projects, NEW V, V \intersect projects = {}, NEW t \in V,
         \A i \in V \intersect (DOMAIN raw \ projects) : Value(raw[i], "task", Nobody) \in V
  PROVE  ResolveProject(raw, projects, t) = Nobody
<1>1. PICK n \in Nat : n = Cardinality(DOMAIN raw)
  BY FS_CardinalityType
<1>2. PICK up, at : /\ up = [i \in DOMAIN raw \ projects |-> Value(raw[i], "task", Nobody)]
                    /\ at = Walk(up, t, n)
  OBVIOUS
<1>3. \A i \in V \intersect DOMAIN up : up[i] \in V
  BY <1>2
<1>4. \A k \in 0..n : at[k] \in V
  BY ONLY n \in Nat, t \in V, <1>2, <1>3, WalkStays
<1>5. at[n] \notin projects
  BY <1>4
<1> QED BY <1>1, <1>2, <1>5, ResolveAlong

\* A task that names no parent is in no project.
LEMMA RootResolves ==
  ASSUME NEW raw, IsFiniteSet(DOMAIN raw), Nobody \notin DOMAIN raw,
         NEW projects, projects \subseteq DOMAIN raw,
         NEW t \in DOMAIN raw \ projects, Value(raw[t], "task", Nobody) = Nobody
  PROVE  ResolveProject(raw, projects, t) = Nobody
<1>1. PICK V : V = {t, Nobody}
  OBVIOUS
<1>2. V \intersect projects = {} /\ \A i \in V \intersect (DOMAIN raw \ projects) : Value(raw[i], "task", Nobody) \in V
  BY <1>1
<1> QED BY <1>1, <1>2, ResolvesToNone

\* A project is its own.
LEMMA ProjectResolves ==
  ASSUME NEW raw, IsFiniteSet(DOMAIN raw), NEW projects, NEW p \in projects
  PROVE  ResolveProject(raw, projects, p) = p
<1>1. PICK n \in Nat : n = Cardinality(DOMAIN raw)
  BY FS_CardinalityType
<1>2. PICK up, at, V : /\ up = [i \in DOMAIN raw \ projects |-> Value(raw[i], "task", Nobody)]
                       /\ at = Walk(up, p, n) /\ V = {p}
  OBVIOUS
<1>3. p \in V /\ \A i \in V \intersect DOMAIN up : up[i] \in V
  BY <1>2
<1>4. \A k \in 0..n : at[k] \in V
  BY ONLY n \in Nat, <1>2, <1>3, WalkStays
<1>5. at[n] = p
  BY <1>2, <1>4
<1> QED BY <1>1, <1>2, <1>5, ResolveAlong

\* A task right below a project is in it.
LEMMA ResolvesToParent ==
  ASSUME NEW raw, IsFiniteSet(DOMAIN raw), NEW projects, NEW t \in DOMAIN raw \ projects,
         NEW p \in projects, Value(raw[t], "task", Nobody) = p
  PROVE  ResolveProject(raw, projects, t) = p
<1>1. PICK n \in Nat : n + 1 = Cardinality(DOMAIN raw)
  <2>1. Cardinality(DOMAIN raw) \in Nat /\ Cardinality(DOMAIN raw) # 0
    BY FS_CardinalityType, FS_EmptySet
  <2>2. Cardinality(DOMAIN raw) - 1 \in Nat
    BY <2>1
  <2> QED BY <2>1, <2>2
<1>2. PICK up, at, on, V, m : /\ up = [i \in DOMAIN raw \ projects |-> Value(raw[i], "task", Nobody)]
                              /\ m = n + 1 /\ at = Walk(up, t, m) /\ on = Walk(up, p, n) /\ V = {p}
  OBVIOUS
<1>3. p \in V /\ (\A i \in V \intersect DOMAIN up : up[i] \in V) /\ t \in DOMAIN up /\ up[t] = p
  BY <1>2
<1>4. \A k \in 0..n : on[k] \in V
  <2>1. on = Walk(up, p, n)
    BY <1>2
  <2> QED BY ONLY n \in Nat, <2>1, <1>3, WalkStays
<1>5. at[n + 1] = on[n]
  <2>1. at = Walk(up, t, n + 1) /\ on = Walk(up, up[t], n)
    BY <1>2, <1>3
  <2> QED BY ONLY n \in Nat, <2>1, <1>3, WalkOn
<1>6. at[m] = p /\ m = Cardinality(DOMAIN raw)
  BY <1>1, <1>2, <1>4, <1>5
<1> QED
  <2>1. PICK top : top = at[m]
    OBVIOUS
  <2> QED BY <1>2, <1>6, <2>1, ResolveAlong

\* Only the parents matter.
LEMMA ResolvesAlike ==
  ASSUME NEW raw, NEW other, DOMAIN other = DOMAIN raw, NEW projects, NEW t,
         \A i \in DOMAIN raw \ projects : Value(other[i], "task", Nobody) = Value(raw[i], "task", Nobody)
  PROVE  ResolveProject(other, projects, t) = ResolveProject(raw, projects, t)
<1>1. PICK n : n = Cardinality(DOMAIN raw) /\ n = Cardinality(DOMAIN other)
  OBVIOUS
<1>2. PICK up : /\ up = [i \in DOMAIN raw \ projects |-> Value(raw[i], "task", Nobody)]
                /\ up = [i \in DOMAIN other \ projects |-> Value(other[i], "task", Nobody)]
  OBVIOUS
<1>3. PICK top : top = Walk(up, t, n)[n]
  OBVIOUS
<1>4. ResolveProject(raw, projects, t) = IF top \in projects THEN top ELSE Nobody
  BY ONLY <1>1, <1>2, <1>3 DEF ResolveProject
<1>5. ResolveProject(other, projects, t) = IF top \in projects THEN top ELSE Nobody
  BY ONLY <1>1, <1>2, <1>3 DEF ResolveProject
<1> QED BY <1>4, <1>5

\* With one more element.
With(f, id, body) == [i \in DOMAIN f \union {id} |-> IF i = id THEN body ELSE f[i]]

\* A task that is new below a task is in the project of that task, and
\* nothing that was there moves.
LEMMA ResolvesBelow ==
  ASSUME NEW raw, IsFiniteSet(DOMAIN raw), NEW projects, projects \subseteq DOMAIN raw,
         NEW id, id \notin DOMAIN raw, NEW body, NEW parent, Value(body, "task", Nobody) = parent,
         NEW other, other = With(raw, id, body)
  PROVE  ResolveProject(other, projects, id) = ResolveProject(raw, projects, parent)
<1>1. PICK n \in Nat : n = Cardinality(DOMAIN raw)
  BY FS_CardinalityType
<1>2. DOMAIN other = DOMAIN raw \union {id} /\ other[id] = body /\ \A i \in DOMAIN raw : other[i] = raw[i]
  BY DEF With
<1>3. IsFiniteSet(DOMAIN other) /\ Cardinality(DOMAIN other) = n + 1
  BY <1>1, <1>2, FS_AddElement
<1>4. PICK up, more, m, at, on, all :
          /\ up = [i \in DOMAIN raw \ projects |-> Value(raw[i], "task", Nobody)]
          /\ more = [i \in DOMAIN other \ projects |-> Value(other[i], "task", Nobody)]
          /\ m = n + 1 /\ at = Walk(up, parent, n) /\ on = Walk(more, parent, n) /\ all = Walk(more, id, m)
  OBVIOUS
<1>5. /\ id \in DOMAIN more /\ more[id] = parent /\ id \notin DOMAIN up /\ id \notin projects
      /\ DOMAIN more = DOMAIN up \union {id} /\ \A i \in DOMAIN up : more[i] = up[i]
  BY <1>2, <1>4
<1>6. all[m] = on[n]
  <2>1. all = Walk(more, id, n + 1) /\ on = Walk(more, more[id], n)
    BY <1>4, <1>5
  <2>2. all[n + 1] = on[n]
    BY ONLY n \in Nat, <2>1, <1>5, WalkOn
  <2> QED BY <1>4, <2>2
<1>7. ResolveProject(other, projects, id) = IF on[n] \in projects THEN on[n] ELSE Nobody
  <2>1. PICK top : top = all[m]
    OBVIOUS
  <2>2. m = Cardinality(DOMAIN other)
    BY <1>3, <1>4
  <2>3. top = Walk(more, id, m)[m]
    BY <1>4, <2>1
  <2>4. more = [i \in DOMAIN other \ projects |-> Value(other[i], "task", Nobody)]
    BY <1>4
  <2>5. ResolveProject(other, projects, id) = IF top \in projects THEN top ELSE Nobody
    BY ONLY <2>2, <2>3, <2>4 DEF ResolveProject
  <2> QED BY <1>6, <2>1, <2>5
<1>8. ResolveProject(raw, projects, parent) = IF at[n] \in projects THEN at[n] ELSE Nobody
  BY <1>1, <1>4, ResolveAlong
<1>9. /\ at[0] = parent
      /\ \A k \in 1..n : at[k] = IF at[k - 1] \in DOMAIN up THEN up[at[k - 1]] ELSE at[k - 1]
  BY <1>4, WalkSteps
<1>10. CASE \A k \in 0..n : at[k] # id
  <2>1. \A k \in 0..n : /\ at[k] \in DOMAIN up <=> at[k] \in DOMAIN more
                        /\ at[k] \in DOMAIN up => up[at[k]] = more[at[k]]
    BY <1>5, <1>10
  <2>2. \A k \in 0..n : on[k] = at[k]
    <3>1. at = Walk(up, parent, n) /\ on = Walk(more, parent, n)
      BY <1>4
    <3> QED BY ONLY n \in Nat, <2>1, <3>1, WalkAlike
  <2>3. on[n] = at[n]
    BY <2>2
  <2> QED BY <1>7, <1>8, <2>3
<1>11. ASSUME NEW h \in 0..n, at[h] = id
       PROVE  ResolveProject(other, projects, id) = Nobody /\ ResolveProject(raw, projects, parent) = Nobody
  <2>1. at[n] = id
    <3>1. at = Walk(up, parent, n) /\ at[h] \notin DOMAIN up
      BY <1>4, <1>5, <1>11
    <3>2. at[n] = at[h]
      BY ONLY n \in Nat, h \in 0..n, <3>1, WalkEnds
    <3> QED BY <1>11, <3>2
  <2>2. PICK V : V = {at[k] : k \in 0..n}
    OBVIOUS
  <2>3. parent \in V /\ id \in V
    BY <1>9, <1>11, <2>2
  <2>4. ASSUME NEW k \in 0..n PROVE at[k] \notin projects
    <3> SUFFICES ASSUME at[k] \in projects PROVE FALSE
      OBVIOUS
    <3>1. at = Walk(up, parent, n) /\ at[k] \notin DOMAIN up
      BY <1>4
    <3>2. at[n] = at[k]
      BY ONLY n \in Nat, k \in 0..n, <3>1, WalkEnds
    <3> QED BY <1>5, <2>1, <3>2
  <2>5. ASSUME NEW k \in 0..n, at[k] \in DOMAIN more PROVE more[at[k]] \in V
    <3>1. CASE at[k] = id
      BY <1>5, <2>3, <3>1
    <3>2. CASE at[k] # id
      <4>1. at[k] \in DOMAIN up /\ k # n
        BY <1>5, <2>1, <2>5, <3>2
      <4>2. k + 1 \in 1..n /\ k + 1 \in 0..n /\ (k + 1) - 1 = k
        BY <4>1
      <4>3. at[k + 1] = up[at[k]]
        BY <1>9, <4>1, <4>2
      <4> QED BY <1>5, <2>2, <4>1, <4>2, <4>3
    <3> QED BY <3>1, <3>2
  <2>6. V \intersect projects = {}
    BY <2>2, <2>4
  <2>7. \A i \in V \intersect (DOMAIN other \ projects) : Value(other[i], "task", Nobody) \in V
    BY <1>4, <2>2, <2>5
  <2>8. ResolveProject(other, projects, id) = Nobody
    BY ONLY <1>3, <2>3, <2>6, <2>7, ResolvesToNone
  <2> QED BY <1>5, <1>8, <2>1, <2>8
<1> QED BY <1>10, <1>11

\* What is built from a sound index: a task of the inbox is apart, a done
\* project is dated, and every object is there under its own id.
LEMMA ModelSound ==
  ASSUME NEW x, SoundIndex(x), NEW m, m = BuildModel(x)
  PROVE  /\ \A id \in DOMAIN m.task :
                /\ m.task[id] = BuildTask(id, x.task[id], m.task[id].project)
                /\ id \in DOMAIN x.task /\ m.task[id].name # Nobody
                /\ Apart(m.task[id]) /\ TagList(m.task[id].tags)
         /\ \A id \in DOMAIN m.project :
                /\ m.project[id] = BuildProject(id, x.task[id])
                /\ id \in DOMAIN x.task /\ m.project[id].name # Nobody
                /\ Dated(m.project[id]) /\ TagList(m.project[id].tags)
<1> DEFINE raw == x.task
           projects == {id \in DOMAIN raw : IsProject(raw[id])}
           tasks == [id \in DOMAIN raw \ projects |->
                        BuildTask(id, raw[id], ResolveProject(raw, projects, id))]
           built == [id \in projects |-> BuildProject(id, raw[id])]
<1>1. m.task = Built(tasks) /\ m.project = Built(built)
  BY DEF BuildModel
<1>2. IsFiniteSet(DOMAIN raw) /\ Nobody \notin DOMAIN raw /\ \A id \in DOMAIN raw : SoundTask(raw[id])
  BY DEF SoundIndex, Kinds
<1> HIDE DEF raw
<1>3. ASSUME NEW id \in DOMAIN m.task
      PROVE  /\ m.task[id] = BuildTask(id, raw[id], m.task[id].project)
             /\ id \in DOMAIN raw /\ m.task[id].name # Nobody
             /\ Apart(m.task[id]) /\ TagList(m.task[id].tags)
  <2> DEFINE project == ResolveProject(raw, projects, id)
  <2>1. id \in DOMAIN raw \ projects /\ m.task[id] = tasks[id] /\ tasks[id].name # Nobody
    BY <1>1 DEF Built
  <2>2. m.task[id] = BuildTask(id, raw[id], project)
    BY <2>1
  <2>3. Value(raw[id], "task", Nobody) = Nobody => project = Nobody
    <3>1. projects \subseteq DOMAIN raw
      OBVIOUS
    <3> HIDE DEF projects
    <3> QED BY <1>2, <2>1, <3>1, RootResolves
  <2> HIDE DEF project, projects
  <2>4. m.task[id].project = project /\ m.task[id].inbox = Value(raw[id], "inbox", FALSE)
          /\ m.task[id].parent = Value(raw[id], "task", Nobody)
    BY <2>2 DEF BuildTask
  <2>5. Apart(m.task[id])
    BY <1>2, <2>1, <2>3, <2>4 DEF Apart, SoundTask
  <2>6. TagList(m.task[id].tags)
    <3>1. m.task[id].tags = Values(raw[id], "context")
      BY <2>2 DEF BuildTask
    <3> QED BY <1>2, <2>1, <3>1, BuiltTags
  <2> QED BY <2>1, <2>2, <2>4, <2>5, <2>6
<1>4. ASSUME NEW id \in DOMAIN m.project
      PROVE  /\ m.project[id] = BuildProject(id, raw[id])
             /\ id \in DOMAIN raw /\ m.project[id].name # Nobody
             /\ Dated(m.project[id]) /\ TagList(m.project[id].tags)
  <2>1. id \in DOMAIN raw /\ m.project[id] = BuildProject(id, raw[id]) /\ built[id].name # Nobody
          /\ m.project[id] = built[id]
    BY <1>1 DEF Built
  <2>2. SoundTask(raw[id])
    BY <1>2, <2>1
  <2>3. /\ m.project[id].completed = Value(raw[id], "completed", Never)
        /\ m.project[id].status = LET status == Value(Container(raw[id]), "status", Nobody)
                                   IN  IF status = Nobody THEN "active" ELSE status
    BY <2>1 DEF BuildProject, Container
  <2>4. Dated(m.project[id])
    BY <2>2, <2>3 DEF Dated, SoundTask, Nobody
  <2>5. TagList(m.project[id].tags)
    <3>1. m.project[id].tags = Values(raw[id], "context")
      BY <2>1 DEF BuildProject
    <3> QED BY <2>2, <3>1, BuiltTags
  <2> QED BY <2>1, <2>4, <2>5
<1> QED BY <1>3, <1>4 DEF raw

\* The projects of an index and its tasks, as they are built.
Projects(raw) == {i \in DOMAIN raw : IsProject(raw[i])}

LEMMA TaskBuilt ==
  ASSUME NEW x, NEW m, m = BuildModel(x), NEW raw, raw = x.task, NEW projects, projects = Projects(raw)
  PROVE  /\ \A id \in DOMAIN m.task :
                /\ id \in DOMAIN raw \ projects
                /\ m.task[id] = BuildTask(id, raw[id], ResolveProject(raw, projects, id))
         /\ DOMAIN m.project \subseteq projects
         /\ \A id \in DOMAIN m.project : m.project[id] = BuildProject(id, raw[id])
<1>1. PICK tasks, built :
          /\ tasks = [id \in DOMAIN raw \ projects |-> BuildTask(id, raw[id], ResolveProject(raw, projects, id))]
          /\ built = [id \in projects |-> BuildProject(id, raw[id])]
  OBVIOUS
<1>2. m.task = Built(tasks) /\ m.project = Built(built)
  BY <1>1 DEF BuildModel, Projects
<1> QED BY <1>1, <1>2 DEF Built

\* What is built from a sound index of folders and tags.
LEMMA GroupModel ==
  ASSUME NEW x, SoundIndex(x), NEW m, m = BuildModel(x), NEW kind \in Groups
  PROVE  /\ \A id : id \in DOMAIN Objects(m, kind) <=>
                       id \in DOMAIN x[kind] /\ Value(x[kind][id], "name", Nobody) # Nobody
         /\ IsFiniteSet(DOMAIN Objects(m, kind)) /\ Nobody \notin DOMAIN Objects(m, kind)
         /\ \A id \in DOMAIN Objects(m, kind) :
                /\ Objects(m, kind)[id].id = id
                /\ Objects(m, kind)[id].name = Value(x[kind][id], "name", Nobody)
                /\ Objects(m, kind)[id].parent = ParentOf(kind, x[kind][id])
                /\ Objects(m, kind)[id] =
                       IF kind = "folder" THEN BuildFolder(id, x[kind][id]) ELSE BuildTag(id, x[kind][id])
<1> DEFINE built == [id \in DOMAIN x[kind] |->
                        IF kind = "folder" THEN BuildFolder(id, x[kind][id]) ELSE BuildTag(id, x[kind][id])]
           objects == Objects(m, kind)
<1>1. objects = Built(built)
  <2>1. CASE kind = "folder"
    <3>1. built = [id \in DOMAIN x.folder |-> BuildFolder(id, x.folder[id])]
      BY <2>1
    <3> HIDE DEF built
    <3> QED BY <2>1, <3>1 DEF Objects, BuildModel
  <2>2. CASE kind = "context"
    <3>1. built = [id \in DOMAIN x.context |-> BuildTag(id, x.context[id])]
      BY <2>2
    <3> HIDE DEF built
    <3> QED BY <2>2, <3>1 DEF Objects, BuildModel
  <2> QED BY <2>1, <2>2 DEF Groups
<1>2. ASSUME NEW id \in DOMAIN x[kind]
      PROVE  /\ built[id].id = id /\ built[id].name = Value(x[kind][id], "name", Nobody)
             /\ built[id].parent = ParentOf(kind, x[kind][id])
  BY DEF BuildFolder, BuildTag, ParentOf, Groups
<1>3. \A id \in DOMAIN x[kind] : built[id] =
          IF kind = "folder" THEN BuildFolder(id, x[kind][id]) ELSE BuildTag(id, x[kind][id])
  OBVIOUS
<1>4. DOMAIN built = DOMAIN x[kind]
  OBVIOUS
<1> HIDE DEF built, objects
<1>5. /\ DOMAIN objects = {id \in DOMAIN x[kind] : built[id].name # Nobody}
      /\ \A id \in DOMAIN objects : objects[id] = built[id]
  BY <1>1, <1>4 DEF Built
<1>6. IsFiniteSet(DOMAIN x[kind]) /\ Nobody \notin DOMAIN x[kind]
  BY DEF SoundIndex, Kinds, Groups
<1>7. IsFiniteSet(DOMAIN objects) /\ Nobody \notin DOMAIN objects
  BY <1>5, <1>6, FS_Subset
<1> QED BY <1>2, <1>3, <1>5, <1>7 DEF objects

-----------------------------------------------------------------------------
(* The elements of the writer. *)

\* A child is rendered once, with its value, unless it is absent.
LEMMA GivenEffect ==
  ASSUME NEW fields, NEW body, body = Given(fields)
  PROVE  \A tag : /\ tag \in DOMAIN body <=>
                          tag \in DOMAIN fields /\ (tag \in DOMAIN Absent => fields[tag] # Absent[tag])
                  /\ tag \in DOMAIN body => body[tag] = <<fields[tag]>>
<1> DEFINE given == [tag \in {t \in DOMAIN fields : t \in DOMAIN Absent => fields[t] # Absent[t]} |-> fields[tag]]
<1>1. body = [tag \in DOMAIN given |-> <<given[tag]>>]
  BY DEF Given, Once
<1> QED BY <1>1

\* The tags of a task do not get in the way of the other children.
LEMMA TaskElementEffect ==
  ASSUME NEW id, NEW fields, NEW tags, NEW e, e = TaskElement(id, fields, tags)
  PROVE  /\ e = Element("task", id, "none", e.body)
         /\ Content(e) = e.body /\ ~Updates(e)
         /\ \A tag : tag # "context" =>
                /\ tag \in DOMAIN e.body <=>
                       tag \in DOMAIN fields /\ (tag \in DOMAIN Absent => fields[tag] # Absent[tag])
                /\ tag \in DOMAIN e.body => e.body[tag] = <<fields[tag]>>
         /\ "context" \notin DOMAIN fields =>
                /\ "context" \in DOMAIN e.body <=> tags # Empty
                /\ tags # Empty => e.body["context"] = tags
<1> DEFINE given == Given(fields)
<1>1. \A tag : /\ tag \in DOMAIN given <=>
                       tag \in DOMAIN fields /\ (tag \in DOMAIN Absent => fields[tag] # Absent[tag])
               /\ tag \in DOMAIN given => given[tag] = <<fields[tag]>>
  BY GivenEffect
<1> DEFINE body == IF tags = Empty THEN given
                   ELSE [tag \in DOMAIN given \union {"context"} |-> IF tag = "context" THEN tags ELSE given[tag]]
<1>2. e = Element("task", id, "none", body)
  BY DEF TaskElement
<1> HIDE DEF given
<1>3. \A tag : tag # "context" =>
          /\ tag \in DOMAIN body <=> tag \in DOMAIN given
          /\ tag \in DOMAIN body => body[tag] = given[tag]
  OBVIOUS
<1>6. "context" \notin DOMAIN fields =>
          /\ "context" \in DOMAIN body <=> tags # Empty
          /\ tags # Empty => body["context"] = tags
  BY <1>1
<1> HIDE DEF body
<1>4. e.body = body /\ e.op = "none"
  BY <1>2 DEF Element
<1>5. Content(e) = e.body /\ ~Updates(e)
  BY <1>4 DEF Content, Updates
<1> QED BY <1>1, <1>2, <1>3, <1>4, <1>5, <1>6

\* A whole task (writer.py, BundleTransactionBuilder.add_task).
LEMMA TaskIsSound ==
  ASSUME NEW t, t.id # Nobody, t.inbox => t.parent = Nobody, TagList(t.tags)
  PROVE  SoundElement(BuilderAddTask(t))
<1> DEFINE fields == [project |-> Empty, inbox |-> t.inbox, task |-> t.parent, name |-> t.name, note |-> t.note,
                      hidden |-> t.hidden, due |-> t.due, completed |-> t.completed, order |-> t.order,
                      flagged |-> t.flagged]
           e == TaskElement(t.id, fields, t.tags)
<1>1. BuilderAddTask(t) = e
  BY DEF BuilderAddTask
<1>2. /\ e = Element("task", t.id, "none", e.body)
      /\ Content(e) = e.body /\ ~Updates(e)
      /\ \A tag : tag # "context" =>
             /\ tag \in DOMAIN e.body <=>
                    tag \in DOMAIN fields /\ (tag \in DOMAIN Absent => fields[tag] # Absent[tag])
             /\ tag \in DOMAIN e.body => e.body[tag] = <<fields[tag]>>
      /\ ("context" \notin DOMAIN fields /\ "context" \in DOMAIN e.body) =>
             e.body["context"] # Empty /\ e.body["context"] = t.tags
  <2> HIDE DEF fields
  <2> QED BY TaskElementEffect
<1> HIDE DEF e
<1>9. "context" \in DOMAIN e.body => IsSequence(e.body["context"]) /\ e.body["context"] # Empty
  BY <1>2 DEF TagList
<1>3. Single(e.body, {"name", "inbox", "task", "project", "completed"})
  <2> HIDE DEF fields
  <2>1. ASSUME NEW tag \in {"name", "inbox", "task", "project", "completed"}, tag \in DOMAIN e.body
        PROVE  e.body[tag] = <<e.body[tag][1]>>
    <3>1. e.body[tag] = <<fields[tag]>>
      BY <1>2, <2>1
    <3> QED BY <3>1
  <2> QED BY <2>1 DEF Single
<1>4. Value(e.body, "inbox", FALSE) <=> t.inbox
  <2>1. "inbox" \in DOMAIN e.body /\ e.body["inbox"] = <<t.inbox>>
    BY <1>2 DEF Absent
  <2> QED BY <2>1 DEF Value
<1>5. Value(e.body, "task", Nobody) = t.parent
  BY <1>2 DEF Value, Absent
<1>6. Container(e.body) = Empty
  BY <1>2 DEF Value, Absent, Container
<1>7. Single(Container(e.body), {"status"}) /\ Value(Container(e.body), "status", Nobody) # "done"
  <2>1. DOMAIN Empty = {}
    BY DEF Empty
  <2> QED BY <1>6, <2>1 DEF Single, Value, Nobody
<1>8. SoundTask(e.body)
  BY <1>3, <1>4, <1>5, <1>7, <1>9 DEF SoundTask
<1> QED BY <1>1, <1>2, <1>8 DEF SoundElement, Element, Kinds

\* A whole project (writer.py, add_project).
LEMMA ProjectIsSound ==
  ASSUME NEW p, p.id # Nobody, Dated(p), TagList(p.tags)
  PROVE  SoundElement(BuilderAddProject(p))
<1> DEFINE inner == [folder |-> p.folder, reviewed |-> p.reviewed, status |-> p.status]
           fields == [project |-> ProjectContainer(p), inbox |-> FALSE, name |-> p.name, note |-> p.note,
                      due |-> p.due, completed |-> p.completed, order |-> "parallel", flagged |-> p.flagged]
           e == TaskElement(p.id, fields, p.tags)
<1>1. BuilderAddProject(p) = e
  BY DEF BuilderAddProject
<1>2. /\ e = Element("task", p.id, "none", e.body)
      /\ Content(e) = e.body /\ ~Updates(e)
      /\ \A tag : tag # "context" =>
             /\ tag \in DOMAIN e.body <=>
                    tag \in DOMAIN fields /\ (tag \in DOMAIN Absent => fields[tag] # Absent[tag])
             /\ tag \in DOMAIN e.body => e.body[tag] = <<fields[tag]>>
      /\ ("context" \notin DOMAIN fields /\ "context" \in DOMAIN e.body) =>
             e.body["context"] # Empty /\ e.body["context"] = p.tags
  <2> HIDE DEF fields
  <2> QED BY TaskElementEffect
<1> HIDE DEF e
<1>9. "context" \in DOMAIN e.body => IsSequence(e.body["context"]) /\ e.body["context"] # Empty
  BY <1>2 DEF TagList
<1>3. Single(e.body, {"name", "inbox", "task", "project", "completed"})
  <2> HIDE DEF fields
  <2>1. ASSUME NEW tag \in {"name", "inbox", "task", "project", "completed"}, tag \in DOMAIN e.body
        PROVE  e.body[tag] = <<e.body[tag][1]>>
    <3>1. e.body[tag] = <<fields[tag]>>
      BY <1>2, <2>1
    <3> QED BY <3>1
  <2> QED BY <2>1 DEF Single
<1>4. Value(e.body, "task", Nobody) = Nobody
  BY <1>2 DEF Value
<1>5. Value(e.body, "completed", Never) = p.completed
  BY <1>2 DEF Value, Absent
<1>6. Container(e.body) = Given(inner)
  <2>1. Container(e.body) = ProjectContainer(p)
    BY <1>2 DEF Value, Absent, Container
  <2> QED BY <2>1 DEF ProjectContainer
<1>7. Single(Container(e.body), {"status"}) /\ Value(Container(e.body), "status", Nobody) = p.status
  <2>1. \A tag : /\ tag \in DOMAIN Given(inner) <=>
                       tag \in DOMAIN inner /\ (tag \in DOMAIN Absent => inner[tag] # Absent[tag])
                 /\ tag \in DOMAIN Given(inner) => Given(inner)[tag] = <<inner[tag]>>
    <3> HIDE DEF inner
    <3> QED BY GivenEffect
  <2>2. "status" \in DOMAIN Given(inner) /\ Given(inner)["status"] = <<p.status>>
    BY <2>1 DEF Absent
  <2> QED BY <1>6, <2>2 DEF Single, Value
<1>8. SoundTask(e.body)
  BY <1>3, <1>4, <1>5, <1>7, <1>9 DEF SoundTask, Dated
<1> QED BY <1>1, <1>2, <1>8 DEF SoundElement, Element, Kinds

\* A whole folder or tag: each child is rendered once.
LEMMA GroupIsSound ==
  ASSUME NEW kind \in Kinds \ {"task"}, NEW id, id # Nobody, NEW fields,
         NEW e, e = Element(kind, id, "none", Given(fields))
  PROVE  SoundElement(e)
<1>1. Single(Given(fields), {"name", kind})
  <2> DEFINE body == Given(fields)
  <2>1. \A tag : tag \in DOMAIN body => body[tag] = <<fields[tag]>>
    BY GivenEffect
  <2> HIDE DEF body
  <2>2. ASSUME NEW tag \in DOMAIN body PROVE body[tag] = <<body[tag][1]>>
    <3>1. body[tag] = <<fields[tag]>>
      BY <2>1
    <3> QED BY <3>1
  <2>3. Single(body, {"name", kind})
    BY <2>2 DEF Single
  <2> QED BY <2>3 DEF body
<1> QED BY <1>1 DEF SoundElement, SoundGroup, Element, Content

-----------------------------------------------------------------------------
(* What readers make of what the writer renders. *)

\* A reader gets the value of a rendered child back, and the default of one
\* that is left out.
LEMMA GivenRead ==
  ASSUME NEW fields, NEW tag \in DOMAIN fields, NEW default, tag \in DOMAIN Absent => Absent[tag] = default,
         NEW body, body = Given(fields)
  PROVE  Value(body, tag, default) = fields[tag]
<1>1. /\ tag \in DOMAIN body <=> tag \in DOMAIN fields /\ (tag \in DOMAIN Absent => fields[tag] # Absent[tag])
      /\ tag \in DOMAIN body => body[tag] = <<fields[tag]>>
  BY GivenEffect
<1>2. CASE tag \in DOMAIN body
  <2>1. body[tag] = <<fields[tag]>>
    BY <1>1, <1>2
  <2> QED BY <1>2, <2>1 DEF Value
<1>3. CASE tag \notin DOMAIN body
  <2>1. tag \in DOMAIN Absent /\ fields[tag] = Absent[tag]
    BY <1>1, <1>3
  <2> QED BY <1>3, <2>1 DEF Value
<1> QED BY <1>2, <1>3

\* What is read of an element is what was to be written.
ReadBack(body, fields) ==
    \A tag \in DOMAIN fields : \A default :
        (tag \in DOMAIN Absent => Absent[tag] = default) => Value(body, tag, default) = fields[tag]

LEMMA TaskElementRead ==
  ASSUME NEW id, NEW fields, "context" \notin DOMAIN fields, NEW tags, TagList(tags),
         NEW e, e = TaskElement(id, fields, tags)
  PROVE  /\ e.kind = "task" /\ e.id = id /\ e.op = "none" /\ Content(e) = e.body
         /\ ReadBack(e.body, fields)
         /\ "folder" \notin DOMAIN fields => Value(e.body, "folder", Nobody) = Nobody
         /\ "name" \in DOMAIN fields => "name" \in DOMAIN e.body
         /\ Values(e.body, "context") = tags
<1>1. /\ e = Element("task", id, "none", e.body)
      /\ Content(e) = e.body /\ ~Updates(e)
      /\ \A tag : tag # "context" =>
             /\ tag \in DOMAIN e.body <=>
                    tag \in DOMAIN fields /\ (tag \in DOMAIN Absent => fields[tag] # Absent[tag])
             /\ tag \in DOMAIN e.body => e.body[tag] = <<fields[tag]>>
      /\ "context" \in DOMAIN e.body <=> tags # Empty
      /\ tags # Empty => e.body["context"] = tags
  BY TaskElementEffect
<1>2. e.kind = "task" /\ e.id = id /\ e.op = "none"
  BY <1>1 DEF Element
<1>3. ASSUME NEW tag \in DOMAIN fields, NEW default, tag \in DOMAIN Absent => Absent[tag] = default
      PROVE  Value(e.body, tag, default) = fields[tag]
  <2>1. tag # "context"
    OBVIOUS
  <2>2. CASE tag \in DOMAIN e.body
    <3>1. e.body[tag] = <<fields[tag]>>
      BY <1>1, <2>1, <2>2
    <3> QED BY <2>2, <3>1 DEF Value
  <2>3. CASE tag \notin DOMAIN e.body
    <3>1. tag \in DOMAIN Absent /\ fields[tag] = Absent[tag]
      BY <1>1, <2>1, <2>3
    <3> QED BY <1>3, <2>3, <3>1 DEF Value
  <2> QED BY <2>2, <2>3
<1>4. "folder" \notin DOMAIN fields => Value(e.body, "folder", Nobody) = Nobody
  BY <1>1 DEF Value
<1>5. "name" \in DOMAIN fields => "name" \in DOMAIN e.body
  BY <1>1 DEF Absent
<1>6. Values(e.body, "context") = tags
  <2>1. CASE tags = Empty
    BY <1>1, <2>1 DEF Values
  <2>2. CASE tags # Empty
    <3>1. PICK S : S = Range(tags)
      OBVIOUS
    <3>2. tags \in Seq(S) /\ Nobody \notin Range(tags)
      BY <3>1 DEF TagList, IsSequence
    <3>3. Filled(tags) = tags
      BY ONLY <3>2, FilledEffect
    <3> QED BY <1>1, <2>2, <3>3 DEF Values
  <2> QED BY <2>1, <2>2
<1>7. ReadBack(e.body, fields)
  BY <1>3 DEF ReadBack
<1> QED BY <1>1, <1>2, <1>4, <1>5, <1>6, <1>7

\* A task as it is written, and as it is read.
LEMMA TaskRead ==
  ASSUME NEW t, t = [field \in TaskFields |-> t[field]], TagList(t.tags), t.order # Nobody,
         NEW e, e = BuilderAddTask(t)
  PROVE  /\ e.kind = "task" /\ e.id = t.id /\ e.op = "none" /\ Content(e) = e.body /\ "name" \in DOMAIN e.body
         /\ ~IsProject(e.body) /\ Value(e.body, "task", Nobody) = t.parent
         /\ BuildTask(t.id, e.body, t.project) = t
<1> DEFINE fields == [project |-> Empty, inbox |-> t.inbox, task |-> t.parent, name |-> t.name, note |-> t.note,
                      hidden |-> t.hidden, due |-> t.due, completed |-> t.completed, order |-> t.order,
                      flagged |-> t.flagged]
<1>1. e = TaskElement(t.id, fields, t.tags)
  BY DEF BuilderAddTask
<1>2. "context" \notin DOMAIN fields /\ "name" \in DOMAIN fields
  OBVIOUS
<1>3. PICK written : written = fields
  OBVIOUS
<1>4. /\ e.kind = "task" /\ e.id = t.id /\ e.op = "none" /\ Content(e) = e.body
      /\ ReadBack(e.body, written)
      /\ "name" \in DOMAIN e.body
      /\ Values(e.body, "context") = t.tags
  <2>1. "context" \notin DOMAIN written /\ "name" \in DOMAIN written /\ e = TaskElement(t.id, written, t.tags)
    BY <1>1, <1>3
  <2> QED BY ONLY TagList(t.tags), <2>1, TaskElementRead
<1>5. /\ Value(e.body, "project", Empty) = Empty /\ Value(e.body, "inbox", FALSE) = t.inbox
      /\ Value(e.body, "task", Nobody) = t.parent /\ Value(e.body, "name", Nobody) = t.name
      /\ Value(e.body, "note", Nobody) = t.note /\ Value(e.body, "hidden", Never) = t.hidden
      /\ Value(e.body, "due", Never) = t.due /\ Value(e.body, "completed", Never) = t.completed
      /\ Value(e.body, "order", Nobody) = t.order /\ Value(e.body, "flagged", FALSE) = t.flagged
  BY <1>3, <1>4 DEF ReadBack, Absent
<1>6. ~IsProject(e.body)
  BY <1>5 DEF IsProject, Empty
<1>7. PICK r : r = BuildTask(t.id, e.body, t.project)
  OBVIOUS
<1>8. r = [field \in TaskFields |-> r[field]]
  BY <1>7 DEF BuildTask, TaskFields
<1>9. /\ r.id = t.id /\ r.name = t.name /\ r.parent = t.parent /\ r.project = t.project /\ r.inbox = t.inbox
      /\ r.completed = t.completed /\ r.hidden = t.hidden /\ r.flagged = t.flagged /\ r.note = t.note
      /\ r.due = t.due /\ r.tags = t.tags /\ r.order = t.order
  BY <1>4, <1>5, <1>7 DEF BuildTask
<1>10. \A field \in TaskFields : r[field] = t[field]
  BY ONLY <1>9 DEF TaskFields
<1>11. r = t
  BY ONLY <1>8, <1>10, t = [field \in TaskFields |-> t[field]]
<1> QED BY <1>4, <1>5, <1>6, <1>7, <1>11

\* A project as it is written, and as it is read.
LEMMA ProjectRead ==
  ASSUME NEW p, p = [field \in ProjectFields |-> p[field]], TagList(p.tags), p.status # Nobody,
         NEW e, e = BuilderAddProject(p)
  PROVE  /\ e.kind = "task" /\ e.id = p.id /\ e.op = "none" /\ Content(e) = e.body /\ "name" \in DOMAIN e.body
         /\ IsProject(e.body) /\ BuildProject(p.id, e.body) = p
<1> DEFINE inner == [folder |-> p.folder, reviewed |-> p.reviewed, status |-> p.status]
           fields == [project |-> ProjectContainer(p), inbox |-> FALSE, name |-> p.name, note |-> p.note,
                      due |-> p.due, completed |-> p.completed, order |-> "parallel", flagged |-> p.flagged]
<1>1. e = TaskElement(p.id, fields, p.tags)
  BY DEF BuilderAddProject
<1>2. "context" \notin DOMAIN fields /\ "name" \in DOMAIN fields
  OBVIOUS
<1>3. PICK written : written = fields
  OBVIOUS
<1>4. /\ e.kind = "task" /\ e.id = p.id /\ e.op = "none" /\ Content(e) = e.body
      /\ ReadBack(e.body, written)
      /\ Value(e.body, "folder", Nobody) = Nobody
      /\ "name" \in DOMAIN e.body
      /\ Values(e.body, "context") = p.tags
  <2>1. /\ "context" \notin DOMAIN written /\ "name" \in DOMAIN written /\ "folder" \notin DOMAIN written
        /\ e = TaskElement(p.id, written, p.tags)
    BY <1>1, <1>3
  <2> QED BY ONLY TagList(p.tags), <2>1, TaskElementRead
<1>5. PICK proj : proj = ProjectContainer(p)
  OBVIOUS
<1>6. /\ Value(e.body, "project", Empty) = proj /\ Value(e.body, "name", Nobody) = p.name
      /\ Value(e.body, "note", Nobody) = p.note /\ Value(e.body, "folder", Nobody) = Nobody
      /\ Value(e.body, "due", Never) = p.due /\ Value(e.body, "completed", Never) = p.completed
      /\ Value(e.body, "flagged", FALSE) = p.flagged
  BY <1>3, <1>4, <1>5 DEF ReadBack, Absent
<1>7. /\ Value(proj, "folder", Nobody) = p.folder /\ Value(proj, "reviewed", Never) = p.reviewed
      /\ Value(proj, "status", Nobody) = p.status /\ DOMAIN proj # {}
  <2>1. PICK parts : parts = inner
    OBVIOUS
  <2>2. proj = Given(parts)
    BY <1>5, <2>1 DEF ProjectContainer
  <2>3. ReadBack(proj, parts)
    BY ONLY <2>2, GivenRead DEF ReadBack
  <2>4. /\ Value(proj, "folder", Nobody) = p.folder /\ Value(proj, "reviewed", Never) = p.reviewed
        /\ Value(proj, "status", Nobody) = p.status
    BY <2>1, <2>3 DEF ReadBack, Absent
  <2>5. "status" \in DOMAIN proj
    BY <2>4 DEF Value
  <2> QED BY <2>4, <2>5
<1>8. IsProject(e.body)
  BY <1>6, <1>7 DEF IsProject
<1>9. PICK r : r = BuildProject(p.id, e.body)
  OBVIOUS
<1>10. r = [field \in ProjectFields |-> r[field]]
  BY <1>9 DEF BuildProject, ProjectFields
<1>11. /\ r.id = p.id /\ r.name = p.name /\ r.folder = p.folder /\ r.status = p.status /\ r.reviewed = p.reviewed
       /\ r.completed = p.completed /\ r.flagged = p.flagged /\ r.note = p.note /\ r.due = p.due /\ r.tags = p.tags
  BY <1>4, <1>6, <1>7, <1>9 DEF BuildProject
<1>12. \A field \in ProjectFields : r[field] = p[field]
  BY ONLY <1>11 DEF ProjectFields
<1>13. r = p
  BY ONLY <1>10, <1>12, p = [field \in ProjectFields |-> p[field]]
<1> QED BY <1>4, <1>8, <1>9, <1>13

\* And so for folders and tags.
LEMMA FolderRead ==
  ASSUME NEW u, u = [field \in FolderFields |-> u[field]], NEW e, e = BuilderAddFolder(u)
  PROVE  /\ e.kind = "folder" /\ e.id = u.id /\ e.op = "none" /\ Content(e) = e.body
         /\ BuildFolder(u.id, e.body) = u
<1> DEFINE fields == [name |-> u.name, folder |-> u.parent]
<1>1. PICK written : written = fields
  OBVIOUS
<1>2. e = Element("folder", u.id, "none", Given(written))
  BY <1>1 DEF BuilderAddFolder, FolderElement
<1>3. e.kind = "folder" /\ e.id = u.id /\ e.op = "none" /\ e.body = Given(written) /\ Content(e) = e.body
  BY <1>2 DEF Element, Content
<1>4. PICK body : body = e.body
  OBVIOUS
<1>5. ReadBack(body, written)
  <2>1. body = Given(written)
    BY <1>3, <1>4
  <2> QED BY ONLY <2>1, GivenRead DEF ReadBack
<1>6. Value(body, "name", Nobody) = u.name /\ Value(body, "folder", Nobody) = u.parent
  BY <1>1, <1>5 DEF ReadBack, Absent
<1>7. BuildFolder(u.id, body) = [id |-> u.id, name |-> u.name, parent |-> u.parent]
  BY <1>6 DEF BuildFolder
<1>8. u = [id |-> u.id, name |-> u.name, parent |-> u.parent]
  <2>1. PICK r : r = [id |-> u.id, name |-> u.name, parent |-> u.parent]
    OBVIOUS
  <2>2. r = [field \in FolderFields |-> r[field]]
    BY <2>1 DEF FolderFields
  <2>3. r.id = u.id /\ r.name = u.name /\ r.parent = u.parent
    BY <2>1
  <2>4. \A field \in FolderFields : r[field] = u[field]
    BY ONLY <2>3 DEF FolderFields
  <2>5. r = u
    BY ONLY <2>2, <2>4, u = [field \in FolderFields |-> u[field]]
  <2> QED BY <2>1, <2>5
<1> QED BY <1>3, <1>4, <1>7, <1>8

LEMMA TagRead ==
  ASSUME NEW u, u = [field \in TagFields |-> u[field]], NEW e, e = BuilderAddTag(u)
  PROVE  /\ e.kind = "context" /\ e.id = u.id /\ e.op = "none" /\ Content(e) = e.body /\ "name" \in DOMAIN e.body
         /\ BuildTag(u.id, e.body) = u
<1> DEFINE fields == [name |-> u.name, note |-> u.note, context |-> u.parent, hidden |-> u.hidden]
<1>1. PICK written : written = fields
  OBVIOUS
<1>2. e = Element("context", u.id, "none", Given(written))
  BY <1>1 DEF BuilderAddTag, TagElement
<1>3. e.kind = "context" /\ e.id = u.id /\ e.op = "none" /\ e.body = Given(written) /\ Content(e) = e.body
  BY <1>2 DEF Element, Content
<1>4. PICK body : body = e.body
  OBVIOUS
<1>5. ReadBack(body, written)
  <2>1. body = Given(written)
    BY <1>3, <1>4
  <2> QED BY ONLY <2>1, GivenRead DEF ReadBack
<1>6. /\ Value(body, "name", Nobody) = u.name /\ Value(body, "context", Nobody) = u.parent
      /\ Value(body, "note", Nobody) = u.note /\ Value(body, "hidden", Never) = u.hidden
  BY <1>1, <1>5 DEF ReadBack, Absent
<1>7. PICK r : r = BuildTag(u.id, body)
  OBVIOUS
<1>8. r = [field \in TagFields |-> r[field]]
  BY <1>7 DEF BuildTag, TagFields
<1>9. r.id = u.id /\ r.name = u.name /\ r.parent = u.parent /\ r.note = u.note /\ r.hidden = u.hidden
  BY <1>6, <1>7 DEF BuildTag
<1>10. \A field \in TagFields : r[field] = u[field]
  BY ONLY <1>9 DEF TagFields
<1>11. r = u
  BY ONLY <1>8, <1>10, u = [field \in TagFields |-> u[field]]
<1>12. "name" \in DOMAIN body
  <2>1. body = Given(written) /\ "name" \in DOMAIN written /\ "name" \notin DOMAIN Absent
    BY <1>1, <1>3, <1>4 DEF Absent
  <2> QED BY ONLY <2>1, GivenEffect
<1> QED BY <1>3, <1>4, <1>7, <1>11, <1>12

-----------------------------------------------------------------------------
(* The plans. *)

\* The skeleton of a new task has no name yet.
Skeleton(e) ==
    /\ e.kind = "task" /\ e.id \in Range(NewIds) /\ ~Removes(e)
    /\ Value(e.body, "name", Nobody) = Nobody

KindOf(of) == CASE of = "folder" -> "folder" [] of = "tag" -> "context" [] OTHER -> "task"

\* Only the plan of a new task has several elements.
SoundPlan(of, plan) ==
    /\ IsSequence(plan)
    /\ \A k \in 1..Len(plan) : SoundElement(plan[k]) /\ plan[k].kind = KindOf(of)
    /\ KindOf(of) # "task" =>
           Len(plan) <= 1 /\ \A k \in 1..Len(plan) : plan[k].op \in {"none", "delete"}
    /\ \A k \in 2..Len(plan) : plan[k].op # "none"
    /\ (Len(plan) > 1 /\ plan[1].op = "none") => Skeleton(plan[1])

\* A plan of one element.
LEMMA SinglePlan ==
  ASSUME NEW of, NEW e, SoundElement(e), e.kind = KindOf(of), e.op \in {"none", "delete"}
  PROVE  SoundPlan(of, <<e>>) /\ <<e>> # Empty
<1>1. IsSequence(<<e>>)
  <2>1. <<e>> \in Seq({e})
    OBVIOUS
  <2> QED BY <2>1, SeqOfRange DEF IsSequence
<1> HIDE DEF KindOf
<1> QED BY <1>1 DEF SoundPlan, Empty

\* What is left of a plan once its first element is published.
LEMMA RestOfPlan ==
  ASSUME NEW of, NEW plan, SoundPlan(of, plan), plan # Empty
  PROVE  /\ SoundPlan(of, Tail(plan)) /\ Len(plan) \in Nat \ {0} /\ Head(plan) = plan[1]
         /\ Tail(plan) = Empty <=> Len(plan) = 1
<1>1. plan \in Seq(Range(plan)) /\ Len(plan) \in Nat /\ Len(plan) # 0
  BY DEF SoundPlan, IsSequence, Empty
<1>2. /\ Tail(plan) \in Seq(Range(plan)) /\ Len(Tail(plan)) = Len(plan) - 1
      /\ \A k \in 1..(Len(plan) - 1) : Tail(plan)[k] = plan[k + 1]
  BY <1>1 DEF Empty
<1>3. IsSequence(Tail(plan))
  BY <1>2, SeqOfRange DEF IsSequence
<1>4. \A k \in 1..(Len(plan) - 1) :
          SoundElement(plan[k + 1]) /\ plan[k + 1].kind = KindOf(of) /\ plan[k + 1].op # "none"
  BY <1>1 DEF SoundPlan
<1> HIDE DEF SoundElement, KindOf
<1>5. \A k \in 1..Len(Tail(plan)) :
          SoundElement(Tail(plan)[k]) /\ Tail(plan)[k].kind = KindOf(of) /\ Tail(plan)[k].op # "none"
  BY <1>2, <1>4
<1>6. KindOf(of) # "task" => Len(Tail(plan)) = 0
  BY <1>1, <1>2 DEF SoundPlan
<1>7. Head(plan) = plan[1]
  BY <1>1
<1>8. Tail(plan) = Empty <=> Len(plan) = 1
  <2> DEFINE rest == Tail(plan)
  <2>1. rest # <<>> => Len(rest) # 0
    BY <1>2, EmptySeq
  <2>2. rest = <<>> => Len(rest) = 0
    BY EmptySeq
  <2>3. Len(rest) = Len(plan) - 1
    BY <1>2
  <2> HIDE DEF rest
  <2>4. rest = <<>> <=> Len(plan) = 1
    BY <1>1, <2>1, <2>2, <2>3
  <2> QED BY <2>4 DEF Empty, rest
<1> QED BY <1>1, <1>2, <1>3, <1>5, <1>6, <1>7, <1>8 DEF SoundPlan

\* The later part of a plan: updates that say nothing of where a task is.
Completion(s) ==
    /\ IsSequence(s)
    /\ \A k \in 1..Len(s) : SoundElement(s[k]) /\ s[k].kind = "task" /\ s[k].op # "none"

LEMMA CompletionsJoin ==
  ASSUME NEW s, NEW t, Completion(s), Completion(t)
  PROVE  Completion(s \o t)
<1>1. s \in Seq(Range(s) \union Range(t)) /\ t \in Seq(Range(s) \union Range(t))
  BY DEF Completion, IsSequence
<1>2. s \o t \in Seq(Range(s) \union Range(t)) /\ Len(s \o t) = Len(s) + Len(t)
      /\ Len(s) \in Nat /\ Len(t) \in Nat
  BY <1>1
<1>3. IsSequence(s \o t)
  BY <1>2, SeqOfRange DEF IsSequence
<1>4. ASSUME NEW k \in 1..Len(s \o t)
      PROVE  SoundElement((s \o t)[k]) /\ (s \o t)[k].kind = "task" /\ (s \o t)[k].op # "none"
  <2>1. CASE k \in 1..Len(s)
    <3>1. (s \o t)[k] = s[k]
      BY <1>1, <2>1
    <3> QED BY <2>1, <3>1 DEF Completion
  <2>2. CASE k \notin 1..Len(s)
    <3>1. k - Len(s) \in 1..Len(t) /\ (s \o t)[k] = t[k - Len(s)]
      BY <1>1, <1>2, <2>2
    <3> QED BY <3>1 DEF Completion
  <2> QED BY <2>1, <2>2
<1> QED BY <1>3, <1>4 DEF Completion

\* A new task: the skeleton, then its name and the fields that were asked
\* for (writer.py:937).
LEMMA AddTaskPlanIsSound ==
  ASSUME NEW id \in Range(NewIds) \ {Nobody}, NEW name, NEW parent, NEW inbox, NEW note, NEW flagged, NEW due,
         inbox => parent = Nobody,
         NEW plan, plan = AddTaskPlan(id, name, parent, inbox, note, flagged, due)
  PROVE  SoundPlan("task", plan) /\ plan # Empty
<1> DEFINE first == AddTaskSnapshot(id, parent, inbox)
           update(fields) == UpdateTaskFields(id, fields)
           Field(fields, absent) == IF absent THEN Empty ELSE <<update(fields)>>
           named == update([name |-> name])
           noted == Field([note |-> note], note = Nobody)
           flags == Field([flagged |-> flagged], ~flagged)
           dues == Field([due |-> due], due = Never)
           rest == (<<named>> \o noted) \o flags \o dues
<1>1. /\ first = Element("task", id, "none", first.body) /\ first.kind = "task" /\ first.id = id
      /\ first.op = "none"
  BY DEF AddTaskSnapshot, Element
<1>2. SoundElement(first) /\ Skeleton(first)
  <2> DEFINE fields == [project |-> Empty, inbox |-> inbox, task |-> parent, name |-> Nobody, note |-> Nobody,
                        hidden |-> Never, context |-> Nobody, due |-> Never, completed |-> Never,
                        order |-> Order(inbox), flagged |-> FALSE]
             body == first.body
  <2>1. body = [tag \in DOMAIN fields |-> <<fields[tag]>>]
    BY DEF AddTaskSnapshot, Element, Once
  <2>11. body["context"] = <<Nobody>> /\ "context" \in DOMAIN body
    BY <2>1
  <2>12. IsSequence(<<Nobody>>) /\ <<Nobody>> # Empty
    <3>1. <<Nobody>> \in Seq({Nobody})
      OBVIOUS
    <3> QED BY <3>1, SeqOfRange DEF IsSequence, Empty
  <2>2. /\ body["inbox"] = <<inbox>> /\ body["task"] = <<parent>> /\ body["name"] = <<Nobody>>
        /\ body["project"] = <<Empty>> /\ body["completed"] = <<Never>>
        /\ {"inbox", "task", "name", "project", "completed"} \subseteq DOMAIN body
    BY <2>1
  <2> HIDE DEF body, fields, first
  <2>3. Container(body) = Empty /\ DOMAIN Empty = {}
    BY <2>2 DEF Container, Value, Empty
  <2>4. Single(body, {"name", "inbox", "task", "project", "completed"})
    BY <2>2 DEF Single
  <2>5. Single(Container(body), {"status"}) /\ Value(Container(body), "status", Nobody) # "done"
    BY <2>3 DEF Single, Value, Nobody
  <2>6. Value(body, "inbox", FALSE) => Value(body, "task", Nobody) = Nobody
    BY <2>2 DEF Value
  <2>7. Content(first) = body /\ ~Updates(first)
    BY <1>1 DEF Content, Updates, body
  <2>8. SoundTask(body)
    BY <2>4, <2>5, <2>6, <2>11, <2>12 DEF SoundTask
  <2>9. SoundElement(first)
    BY <1>1, <2>7, <2>8 DEF SoundElement, Kinds, body
  <2>10. Skeleton(first)
    BY <1>1, <2>2 DEF Skeleton, Removes, Value, body
  <2> QED BY <2>9, <2>10
<1>3. ASSUME NEW fields, DOMAIN fields \intersect {"inbox", "task", "project", "completed", "context"} = {}
      PROVE  SoundElement(update(fields)) /\ update(fields).kind = "task" /\ update(fields).op # "none"
  <2> DEFINE e == update(fields)
             body == [tag \in DOMAIN fields |-> <<fields[tag]>>]
  <2>1. e = Element("task", id, "update", body) /\ Content(e) = body
    BY DEF UpdateTaskFields, Element, Once, Content
  <2>2. Single(body, {"name", "inbox", "task", "project", "completed"})
    BY DEF Single
  <2>3. Container(body) = Empty /\ DOMAIN Empty = {}
    BY <1>3 DEF Container, Value, Empty
  <2>4. Single(Container(body), {"status"}) /\ Value(Container(body), "status", Nobody) # "done"
    BY <2>3 DEF Single, Value, Nobody
  <2>5. SoundTask(body) /\ SoundTaskUpdate(body)
    BY <1>3, <2>2, <2>4 DEF SoundTask, SoundTaskUpdate, Value
  <2>6. e.kind = "task" /\ e.id = id /\ e.op = "update" /\ e.body = body
    BY <2>1 DEF Element
  <2> HIDE DEF e, body
  <2> QED BY <2>1, <2>5, <2>6 DEF SoundElement, Kinds, e
<1>4. ASSUME NEW e, SoundElement(e), e.kind = "task", e.op # "none" PROVE Completion(<<e>>)
  <2>1. <<e>> \in Seq({e})
    OBVIOUS
  <2>2. IsSequence(<<e>>)
    BY <2>1, SeqOfRange DEF IsSequence
  <2> QED BY <1>4, <2>2 DEF Completion
<1>5. Completion(Empty)
  <2>1. Empty \in Seq({})
    BY DEF Empty
  <2>2. IsSequence(Empty)
    BY <2>1, SeqOfRange DEF IsSequence
  <2> QED BY <2>2 DEF Completion, Empty
<1>6. Completion(<<named>>)
  <2>1. SoundElement(named) /\ named.kind = "task" /\ named.op # "none"
    <3>1. DOMAIN [name |-> name] \intersect {"inbox", "task", "project", "completed", "context"} = {}
      OBVIOUS
    <3> HIDE DEF update
    <3> QED BY <1>3, <3>1
  <2> HIDE DEF named
  <2> QED BY <1>4, <2>1
<1>7. Completion(noted)
  <2>1. SoundElement(update([note |-> note])) /\ update([note |-> note]).kind = "task" /\ update([note |-> note]).op # "none"
    <3>1. DOMAIN [note |-> note] \intersect {"inbox", "task", "project", "completed", "context"} = {}
      OBVIOUS
    <3> HIDE DEF update
    <3> QED BY <1>3, <3>1
  <2> HIDE DEF update
  <2> QED BY <1>4, <1>5, <2>1
<1>8. Completion(flags)
  <2>1. SoundElement(update([flagged |-> flagged])) /\ update([flagged |-> flagged]).kind = "task" /\ update([flagged |-> flagged]).op # "none"
    <3>1. DOMAIN [flagged |-> flagged] \intersect {"inbox", "task", "project", "completed", "context"} = {}
      OBVIOUS
    <3> HIDE DEF update
    <3> QED BY <1>3, <3>1
  <2> HIDE DEF update
  <2> QED BY <1>4, <1>5, <2>1
<1>9. Completion(dues)
  <2>1. SoundElement(update([due |-> due])) /\ update([due |-> due]).kind = "task" /\ update([due |-> due]).op # "none"
    <3>1. DOMAIN [due |-> due] \intersect {"inbox", "task", "project", "completed", "context"} = {}
      OBVIOUS
    <3> HIDE DEF update
    <3> QED BY <1>3, <3>1
  <2> HIDE DEF update
  <2> QED BY <1>4, <1>5, <2>1
<1>10. plan = <<first>> \o rest
  <2>1. plan = <<first, named>> \o noted \o flags \o dues
    BY DEF AddTaskPlan
  <2> HIDE DEF first, named, noted, flags, dues
  <2>2. PICK S : noted \in Seq(S) /\ flags \in Seq(S) /\ dues \in Seq(S) /\ first \in S /\ named \in S
    <3> DEFINE S == Range(noted) \union Range(flags) \union Range(dues) \union {first, named}
    <3>1. noted \in Seq(S) /\ flags \in Seq(S) /\ dues \in Seq(S)
      BY <1>7, <1>8, <1>9 DEF Completion, IsSequence
    <3> QED BY <3>1
  <2>3. <<first>> \in Seq(S) /\ <<named>> \in Seq(S) /\ <<first, named>> = <<first>> \o <<named>>
    <3>1. <<first>> \in Seq(S) /\ <<named>> \in Seq(S)
      BY <2>2
    <3> QED BY <3>1, PairJoins
  <2>4. <<named>> \o noted \in Seq(S) /\ (<<named>> \o noted) \o flags \in Seq(S)
    BY <2>2, <2>3, ConcatProperties
  <2>5. <<first, named>> \o noted = <<first>> \o (<<named>> \o noted)
    BY <2>2, <2>3, ConcatAssociative
  <2>6. (<<first, named>> \o noted) \o flags = <<first>> \o ((<<named>> \o noted) \o flags)
    BY <2>2, <2>3, <2>4, <2>5, ConcatAssociative
  <2>7. ((<<first, named>> \o noted) \o flags) \o dues = <<first>> \o (((<<named>> \o noted) \o flags) \o dues)
    BY <2>2, <2>3, <2>4, <2>6, ConcatAssociative
  <2> QED BY <2>1, <2>7
<1> HIDE DEF first, named, noted, flags, dues
<1>11. Completion(rest)
  <2>1. Completion(<<named>> \o noted)
    BY <1>6, <1>7, CompletionsJoin
  <2>2. Completion((<<named>> \o noted) \o flags)
    BY <1>8, <2>1, CompletionsJoin
  <2> QED BY <1>9, <2>2, CompletionsJoin
<1> HIDE DEF rest
<1>12. /\ rest \in Seq(Range(rest) \union {first}) /\ Len(rest) \in Nat
       /\ plan \in Seq(Range(rest) \union {first}) /\ Len(plan) = Len(rest) + 1
       /\ plan[1] = first /\ \A k \in 2..Len(plan) : k - 1 \in 1..Len(rest) /\ plan[k] = rest[k - 1]
  <2>1. rest \in Seq(Range(rest) \union {first}) /\ Len(rest) \in Nat
    BY <1>11 DEF Completion, IsSequence
  <2>2. plan \in Seq(Range(rest) \union {first}) /\ Len(plan) = Len(rest) + 1
    BY <1>10, <2>1
  <2>3. plan[1] = first
    BY <1>10, <2>1
  <2>4. ASSUME NEW k \in 2..Len(plan) PROVE k - 1 \in 1..Len(rest) /\ plan[k] = rest[k - 1]
    BY <1>10, <2>1, <2>2
  <2> QED BY <2>1, <2>2, <2>3, <2>4
<1>13. \A k \in 2..Len(plan) : SoundElement(plan[k]) /\ plan[k].kind = "task" /\ plan[k].op # "none"
  BY <1>11, <1>12 DEF Completion
<1>14. \A k \in 1..Len(plan) : SoundElement(plan[k]) /\ plan[k].kind = KindOf("task")
  BY <1>1, <1>2, <1>12, <1>13 DEF KindOf
<1>15. IsSequence(plan) /\ plan # Empty /\ KindOf("task") = "task"
  BY <1>12, SeqOfRange DEF IsSequence, Empty, KindOf
<1> QED BY <1>2, <1>12, <1>13, <1>14, <1>15 DEF SoundPlan

-----------------------------------------------------------------------------
(* Where a plan leads. *)

\* What an element makes of the elements of its kind.
Applied(f, e) ==
    IF Removes(e) THEN [i \in DOMAIN f \ {e.id} |-> f[i]]
    ELSE [i \in DOMAIN f \union {e.id} |->
             IF i # e.id THEN f[i]
             ELSE IF Updates(e) /\ e.id \in DOMAIN f THEN MergeUpdate(f[e.id], Content(e)) ELSE Content(e)]

LEMMA AppliedEffect ==
  ASSUME NEW x, x = [kind \in Kinds |-> x[kind]], NEW e, e.kind \in Kinds, NEW y, y = IndexElement(x, e)
  PROVE  y[e.kind] = Applied(x[e.kind], e) /\ \A kind \in Kinds \ {e.kind} : y[kind] = x[kind]
<1>1. CASE Removes(e)
  <2>1. y = [x EXCEPT ![e.kind] = Restrict(@, DOMAIN @ \ {e.id})]
    BY <1>1 DEF IndexElement, Dropped
  <2>2. y[e.kind] = [i \in DOMAIN x[e.kind] \ {e.id} |-> x[e.kind][i]]
    BY <2>1 DEF Restrict
  <2> QED BY <1>1, <2>1, <2>2 DEF Applied
<1>2. CASE ~Removes(e)
  <2>1. y = Stored(x, e.kind, e.id, Written(x, e))
    BY <1>2 DEF IndexElement, Written, Updates
  <2>2. y[e.kind] = [i \in DOMAIN x[e.kind] \union {e.id} |->
                        IF i = e.id THEN Written(x, e) ELSE x[e.kind][i]]
    BY <2>1 DEF Stored
  <2>3. \A kind \in Kinds \ {e.kind} : y[kind] = x[kind]
    BY <2>1 DEF Stored
  <2>4. y[e.kind] = Applied(x[e.kind], e)
    BY <1>2, <2>2 DEF Applied, Written
  <2> QED BY <2>3, <2>4
<1> QED BY <1>1, <1>2

\* The deltas of a plan, published one after the other.
Leads(f, plan, g) ==
    \E fs : /\ fs[0] = f /\ fs[Len(plan)] = g
            /\ \A i \in 1..Len(plan) : fs[i] = Applied(fs[i - 1], plan[i])

LEMMA LeadsNowhere == ASSUME NEW f PROVE Leads(f, Empty, f)
<1>1. Len(Empty) = 0
  BY EmptySeq DEF Empty
<1>2. PICK fs : fs = [i \in {0} |-> f]
  OBVIOUS
<1>3. fs[0] = f /\ fs[Len(Empty)] = f /\ \A i \in 1..Len(Empty) : fs[i] = Applied(fs[i - 1], Empty[i])
  BY <1>1, <1>2
<1> QED BY <1>3 DEF Leads

LEMMA LeadsOne == ASSUME NEW f, NEW e PROVE Leads(f, <<e>>, Applied(f, e))
<1>1. PICK g : g = Applied(f, e)
  OBVIOUS
<1>2. PICK fs : fs = [i \in {0, 1} |-> IF i = 0 THEN f ELSE g]
  OBVIOUS
<1>3. Len(<<e>>) = 1 /\ <<e>>[1] = e
  OBVIOUS
<1>4. fs[0] = f /\ fs[1] = g
  BY <1>2
<1>5. \A i \in 1..Len(<<e>>) : fs[i] = Applied(fs[i - 1], <<e>>[i])
  BY <1>1, <1>3, <1>4
<1> QED BY <1>1, <1>3, <1>4, <1>5 DEF Leads

\* One plan after another.
LEMMA LeadsOn ==
  ASSUME NEW f, NEW g, NEW h, NEW p, NEW q, IsSequence(p), IsSequence(q), Leads(f, p, g), Leads(g, q, h)
  PROVE  IsSequence(p \o q) /\ Leads(f, p \o q, h)
<1>1. PICK S : S = Range(p) \union Range(q)
  OBVIOUS
<1>2. p \in Seq(S) /\ q \in Seq(S)
  BY <1>1 DEF IsSequence
<1>3. PICK m, n, r : m = Len(p) /\ n = Len(q) /\ r = p \o q /\ m \in Nat /\ n \in Nat
  <2>1. Len(p) \in Nat /\ Len(q) \in Nat
    BY <1>2
  <2> QED BY <2>1
<1>4. /\ r \in Seq(S) /\ Len(r) = m + n
      /\ \A i \in 1..m : r[i] = p[i]
      /\ \A i \in (m + 1)..(m + n) : r[i] = q[i - m]
  BY <1>2, <1>3
<1>5. IsSequence(r)
  BY <1>4, SeqOfRange DEF IsSequence
<1>6. PICK fs : fs[0] = f /\ fs[m] = g /\ \A i \in 1..m : fs[i] = Applied(fs[i - 1], p[i])
  BY <1>3 DEF Leads
<1>7. PICK gs : gs[0] = g /\ gs[n] = h /\ \A i \in 1..n : gs[i] = Applied(gs[i - 1], q[i])
  BY <1>3 DEF Leads
<1>8. PICK hs : hs = [i \in 0..(m + n) |-> IF i <= m THEN fs[i] ELSE gs[i - m]]
  OBVIOUS
<1>9. hs[0] = f /\ hs[m + n] = h
  <2>1. 0 \in 0..(m + n) /\ m + n \in 0..(m + n) /\ 0 <= m
    BY <1>3
  <2>2. CASE n = 0
    BY <1>3, <1>6, <1>7, <1>8, <2>1, <2>2
  <2>3. CASE n # 0
    <3>1. ~(m + n <= m) /\ (m + n) - m = n
      BY <1>3, <2>3
    <3> QED BY <1>6, <1>7, <1>8, <2>1, <3>1
  <2> QED BY <2>2, <2>3
<1>10. ASSUME NEW i \in 1..(m + n) PROVE hs[i] = Applied(hs[i - 1], r[i])
  <2>1. i \in 0..(m + n) /\ i - 1 \in 0..(m + n)
    BY <1>3
  <2>2. CASE i <= m
    <3>1. i \in 1..m /\ i - 1 <= m
      BY <1>3, <2>2
    <3> QED BY <1>4, <1>6, <1>8, <2>1, <2>2, <3>1
  <2>3. CASE i = m + 1
    <3>1. /\ ~(i <= m) /\ i - 1 = m /\ i - m = 1 /\ 1 \in 1..n /\ i \in (m + 1)..(m + n)
          /\ i - 1 <= m /\ 1 - 1 = 0
      BY <1>3, <2>3
    <3>2. hs[i] = gs[1] /\ hs[i - 1] = gs[0] /\ r[i] = q[1]
      BY <1>4, <1>6, <1>7, <1>8, <2>1, <3>1
    <3>3. gs[1] = Applied(gs[1 - 1], q[1])
      BY <1>7, <3>1
    <3> QED BY <3>1, <3>2, <3>3
  <2>4. CASE i > m + 1
    <3>1. /\ ~(i <= m) /\ ~(i - 1 <= m) /\ i - m \in 1..n /\ i \in (m + 1)..(m + n)
          /\ (i - m) - 1 = (i - 1) - m
      BY <1>3, <2>4
    <3>2. hs[i] = gs[i - m] /\ hs[i - 1] = gs[(i - m) - 1] /\ r[i] = q[i - m]
      BY <1>4, <1>8, <2>1, <3>1
    <3> QED BY <1>7, <3>1, <3>2
  <2> QED BY <1>3, <2>2, <2>3, <2>4
<1> QED BY <1>3, <1>4, <1>5, <1>9, <1>10 DEF Leads

\* What is left of a plan leads on from where its first delta led.
LEMMA LeadsRest ==
  ASSUME NEW f, NEW plan, IsSequence(plan), plan # Empty, NEW h, Leads(f, plan, h),
         NEW g, g = Applied(f, Head(plan))
  PROVE  Leads(g, Tail(plan), h) /\ (Len(plan) = 1 => g = h)
<1>1. PICK n, e, rest : n = Len(plan) /\ e = Head(plan) /\ rest = Tail(plan) /\ n \in Nat /\ n # 0
  <2>1. Len(plan) \in Nat /\ Len(plan) # 0
    BY DEF IsSequence, Empty
  <2> QED BY <2>1
<1>2. Len(rest) = n - 1 /\ e = plan[1] /\ \A i \in 1..(n - 1) : rest[i] = plan[i + 1]
  BY <1>1 DEF IsSequence, Empty
<1>3. PICK fs : fs[0] = f /\ fs[n] = h /\ \A i \in 1..n : fs[i] = Applied(fs[i - 1], plan[i])
  BY <1>1 DEF Leads
<1>4. fs[1] = g
  <2>1. 1 \in 1..n /\ 1 - 1 = 0
    BY <1>1
  <2>2. fs[1] = Applied(fs[1 - 1], plan[1])
    BY <1>3, <2>1
  <2> QED BY <1>1, <1>2, <1>3, <2>1, <2>2
<1>5. PICK gs : gs = [i \in 0..(n - 1) |-> fs[i + 1]]
  OBVIOUS
<1>6. gs[0] = g /\ gs[n - 1] = h
  <2>1. 0 \in 0..(n - 1) /\ n - 1 \in 0..(n - 1) /\ (n - 1) + 1 = n /\ 0 + 1 = 1
    BY <1>1
  <2>2. gs[0] = fs[0 + 1] /\ gs[n - 1] = fs[(n - 1) + 1]
    BY <1>5, <2>1
  <2> QED BY <1>3, <1>4, <2>1, <2>2
<1>7. ASSUME NEW i \in 1..(n - 1) PROVE gs[i] = Applied(gs[i - 1], rest[i])
  <2>1. i \in 0..(n - 1) /\ i - 1 \in 0..(n - 1) /\ i + 1 \in 1..n /\ (i - 1) + 1 = i /\ (i + 1) - 1 = i
    BY <1>1
  <2>2. gs[i] = fs[i + 1] /\ gs[i - 1] = fs[i] /\ rest[i] = plan[i + 1]
    BY <1>2, <1>5, <2>1
  <2>3. fs[i + 1] = Applied(fs[(i + 1) - 1], plan[i + 1])
    BY <1>3, <2>1
  <2> QED BY <2>1, <2>2, <2>3
<1>8. Leads(g, rest, h)
  BY <1>2, <1>6, <1>7 DEF Leads
<1>9. Len(plan) = 1 => g = h
  BY <1>1, <1>3, <1>4
<1> QED BY <1>1, <1>8, <1>9

\* A whole object takes its place; an update changes what it finds there.
LEMMA AppliedWhole ==
  ASSUME NEW f, NEW e, e.op = "none", e.kind = "folder" \/ "name" \in DOMAIN e.body, Content(e) = e.body
  PROVE  Applied(f, e) = With(f, e.id, e.body)
<1>1. ~Removes(e) /\ ~Updates(e)
  BY DEF Removes, Updates
<1> QED BY <1>1 DEF Applied, With

LEMMA AppliedUpdate ==
  ASSUME NEW f, NEW id, NEW old, NEW fields, NEW body, body = MergeUpdate(old, Once(fields)),
         NEW g, g = With(f, id, old), NEW e, e = UpdateTaskFields(id, fields), NEW h, h = With(f, id, body)
  PROVE  Applied(g, e) = h
<1>2. e.id = id /\ e.op = "update" /\ e.body = Once(fields)
  BY DEF UpdateTaskFields, Element
<1>3. ~Removes(e) /\ Updates(e) /\ Content(e) = Once(fields)
  BY <1>2 DEF Removes, Updates, Content
<1>4. DOMAIN g = DOMAIN f \union {id} /\ g[id] = old /\ \A i \in DOMAIN f \ {id} : g[i] = f[i]
  BY DEF With
<1>5. Applied(g, e) = [i \in DOMAIN g \union {id} |-> IF i # id THEN g[i] ELSE body]
  BY <1>2, <1>3, <1>4 DEF Applied
<1>6. Applied(g, e) = [i \in DOMAIN f \union {id} |-> IF i = id THEN body ELSE f[i]]
  BY <1>4, <1>5
<1> QED BY <1>6 DEF With

\* An update of one child of a body in which every tag occurs once.
LEMMA MergeOnce ==
  ASSUME NEW w, NEW tag \in DOMAIN w, tag # "project", NEW v,
         NEW fields, DOMAIN fields = {tag}, fields[tag] = v,
         NEW u, DOMAIN u = DOMAIN w, u[tag] = v, \A x \in DOMAIN w \ {tag} : u[x] = w[x],
         NEW body, body = MergeUpdate(Once(w), Once(fields))
  PROVE  body = Once(u)
<1>1. PICK old, new : old = Once(w) /\ new = Once(fields) /\ body = MergeUpdate(old, new)
  OBVIOUS
<1>2. DOMAIN old = DOMAIN w /\ DOMAIN new = {tag} /\ old[tag] = <<w[tag]>> /\ new[tag] = <<v>>
        /\ \A x \in DOMAIN w : old[x] = <<w[x]>>
  BY <1>1 DEF Once
<1>4. body = [x \in DOMAIN w |->
                 IF x # tag THEN old[x] ELSE ReplaceLast(old[x], MergedChild(x, Last(old[x]), Last(new[x])))]
  <2>1. DOMAIN old \union DOMAIN new = DOMAIN w
    BY <1>2
  <2> QED BY <1>1, <1>2, <2>1 DEF MergeUpdate
<1>5. body[tag] = <<v>>
  <2>1. Last(new[tag]) = v
    BY <1>2 DEF Last
  <2>2. MergedChild(tag, Last(old[tag]), v) = v
    BY DEF MergedChild
  <2>3. body[tag] = ReplaceLast(<<w[tag]>>, v)
    BY <1>2, <1>4, <2>1, <2>2
  <2>4. ReplaceLast(<<w[tag]>>, v) = <<v>>
    BY ReplaceSingle
  <2> QED BY <2>3, <2>4
<1>6. \A x \in DOMAIN w : body[x] = <<u[x]>>
  BY <1>2, <1>4, <1>5
<1>7. body = [x \in DOMAIN w |-> body[x]]
  BY <1>4
<1> QED BY ONLY DOMAIN u = DOMAIN w, <1>6, <1>7 DEF Once

\* Fields of which one is set.
Set(w, tag, v, u) ==
    /\ tag \in DOMAIN w \ {"project"}
    /\ w = [x \in DOMAIN w |-> w[x]]
    /\ u = [w EXCEPT ![tag] = v]

\* The update of one field, if it is asked for.
LEMMA FieldLeads ==
  ASSUME NEW f, NEW id, NEW w, NEW tag, NEW v, NEW u, Set(w, tag, v, u),
         NEW absent \in BOOLEAN, absent => w[tag] = v, NEW fields, DOMAIN fields = {tag}, fields[tag] = v,
         NEW s, s = IF absent THEN Empty ELSE <<UpdateTaskFields(id, fields)>>
  PROVE  IsSequence(s) /\ Leads(With(f, id, Once(w)), s, With(f, id, Once(u)))
<1>3. tag \in DOMAIN w /\ tag # "project" /\ w = [x \in DOMAIN w |-> w[x]] /\ u = [w EXCEPT ![tag] = v]
  BY DEF Set
<1>1. CASE absent
  <2>1. u = w
    BY <1>1, <1>3
  <2> QED BY <1>1, <2>1, LeadsNowhere, EmptyTags
<1>2. CASE ~absent
  <2>1. PICK e, g, h : /\ e = UpdateTaskFields(id, fields) /\ g = With(f, id, Once(w))
                       /\ h = With(f, id, Once(u))
    OBVIOUS
  <2>2. PICK body : body = MergeUpdate(Once(w), Once(fields))
    OBVIOUS
  <2>3. body = Once(u)
    <3>1. DOMAIN fields = {tag} /\ fields[tag] = v /\ tag \in DOMAIN w /\ tag # "project"
      BY <1>3
    <3>2. DOMAIN u = DOMAIN w /\ u[tag] = v /\ \A x \in DOMAIN w \ {tag} : u[x] = w[x]
      BY <1>3
    <3> QED BY ONLY <2>2, <3>1, <3>2, MergeOnce
  <2>4. Applied(g, e) = h
    <3>1. PICK old : old = Once(w)
      OBVIOUS
    <3>2. /\ body = MergeUpdate(old, Once(fields)) /\ g = With(f, id, old) /\ e = UpdateTaskFields(id, fields)
          /\ h = With(f, id, body)
      BY <2>1, <2>2, <2>3, <3>1
    <3> QED BY ONLY <3>2, AppliedUpdate
  <2>5. Leads(g, <<e>>, h)
    BY <2>4, LeadsOne
  <2>6. IsSequence(<<e>>)
    <3>1. <<e>> \in Seq({e})
      OBVIOUS
    <3> QED BY <3>1, SeqOfRange DEF IsSequence
  <2> QED BY <1>2, <2>1, <2>5, <2>6
<1> QED BY <1>1, <1>2

\* Readers of an index with these elements of the kind of the object see it
\* as it was asked for.
ShownFrom(g, of, id, goal) ==
    \A y : y[KindOf(of)] = g => Shows(BuildModel(y), [of |-> of, id |-> id, goal |-> goal])

LEMMA BuiltShows ==
  ASSUME NEW objects, NEW id \in DOMAIN objects, NEW goal, objects[id] = goal, "id" \in DOMAIN goal,
         NEW m, NEW of, m[of] = Built(objects)
  PROVE  Shows(m, [of |-> of, id |-> id, goal |-> goal])
<1>1. goal # Empty
  BY DEF Empty
<1>2. PICK built : built = Built(objects)
  OBVIOUS
<1>3. /\ id \in DOMAIN built <=> goal.name # Nobody
      /\ id \in DOMAIN built => built[id] = goal
  BY <1>2 DEF Built
<1> QED BY <1>1, <1>2, <1>3 DEF Shows

LEMMA TaskShown ==
  ASSUME NEW t, t = [field \in TaskFields |-> t[field]],
         NEW body, ~IsProject(body), BuildTask(t.id, body, t.project) = t,
         NEW f, NEW g, g = With(f, t.id, body),
         NEW projects, projects = {id \in DOMAIN g : IsProject(g[id])},
         ResolveProject(g, projects, t.id) = t.project
  PROVE  ShownFrom(g, "task", t.id, t)
<1> SUFFICES ASSUME NEW y, y.task = g PROVE Shows(BuildModel(y), [of |-> "task", id |-> t.id, goal |-> t])
  BY DEF ShownFrom, KindOf
<1>1. PICK objects : objects = [id \in DOMAIN g \ projects |-> BuildTask(id, g[id], ResolveProject(g, projects, id))]
  OBVIOUS
<1>2. PICK m : m = BuildModel(y)
  OBVIOUS
<1>3. m["task"] = Built(objects)
  BY <1>1, <1>2 DEF BuildModel
<1>4. t.id \in DOMAIN g \ projects /\ g[t.id] = body
  BY DEF With
<1>5. t.id \in DOMAIN objects /\ objects[t.id] = t
  BY <1>1, <1>4
<1>6. "id" \in DOMAIN t
  BY DEF TaskFields
<1>7. Shows(m, [of |-> "task", id |-> t.id, goal |-> t])
  BY ONLY <1>3, <1>5, <1>6, BuiltShows
<1> QED BY <1>2, <1>7

LEMMA ProjectShown ==
  ASSUME NEW p, p = [field \in ProjectFields |-> p[field]], TagList(p.tags), p.status # Nobody,
         NEW f, NEW e, e = BuilderAddProject(p)
  PROVE  ShownFrom(Applied(f, e), "project", p.id, p)
<1>1. /\ e.kind = "task" /\ e.id = p.id /\ e.op = "none" /\ Content(e) = e.body /\ "name" \in DOMAIN e.body
      /\ IsProject(e.body) /\ BuildProject(p.id, e.body) = p
  BY ProjectRead
<1>2. PICK g : g = With(f, p.id, e.body) /\ g = Applied(f, e)
  BY <1>1, AppliedWhole
<1> SUFFICES ASSUME NEW y, y.task = g PROVE Shows(BuildModel(y), [of |-> "project", id |-> p.id, goal |-> p])
  BY <1>2 DEF ShownFrom, KindOf
<1>3. PICK objects : objects = [id \in {i \in DOMAIN g : IsProject(g[i])} |-> BuildProject(id, g[id])]
  OBVIOUS
<1>4. PICK m : m = BuildModel(y)
  OBVIOUS
<1>5. m["project"] = Built(objects)
  BY <1>3, <1>4 DEF BuildModel
<1>6. p.id \in DOMAIN g /\ g[p.id] = e.body
  BY <1>2 DEF With
<1>7. p.id \in DOMAIN objects /\ objects[p.id] = p
  BY <1>1, <1>3, <1>6
<1>8. "id" \in DOMAIN p
  BY DEF ProjectFields
<1>9. Shows(m, [of |-> "project", id |-> p.id, goal |-> p])
  BY ONLY <1>5, <1>7, <1>8, BuiltShows
<1> QED BY <1>4, <1>9

LEMMA FolderShown ==
  ASSUME NEW u, u = [field \in FolderFields |-> u[field]], NEW f, NEW e, e = BuilderAddFolder(u)
  PROVE  ShownFrom(Applied(f, e), "folder", u.id, u)
<1>1. /\ e.kind = "folder" /\ e.id = u.id /\ e.op = "none" /\ Content(e) = e.body
      /\ BuildFolder(u.id, e.body) = u
  BY FolderRead
<1>2. PICK g : g = With(f, u.id, e.body) /\ g = Applied(f, e)
  BY <1>1, AppliedWhole
<1> SUFFICES ASSUME NEW y, y.folder = g PROVE Shows(BuildModel(y), [of |-> "folder", id |-> u.id, goal |-> u])
  BY <1>2 DEF ShownFrom, KindOf
<1>3. PICK objects : objects = [id \in DOMAIN g |-> BuildFolder(id, g[id])]
  OBVIOUS
<1>4. PICK m : m = BuildModel(y)
  OBVIOUS
<1>5. m["folder"] = Built(objects)
  BY <1>3, <1>4 DEF BuildModel
<1>6. u.id \in DOMAIN g /\ g[u.id] = e.body
  BY <1>2 DEF With
<1>7. u.id \in DOMAIN objects /\ objects[u.id] = u
  BY <1>1, <1>3, <1>6
<1>8. "id" \in DOMAIN u
  BY DEF FolderFields
<1>9. Shows(m, [of |-> "folder", id |-> u.id, goal |-> u])
  BY ONLY <1>5, <1>7, <1>8, BuiltShows
<1> QED BY <1>4, <1>9

\* A folder that is deleted is gone.
LEMMA DeletionShown ==
  ASSUME NEW id, NEW f, NEW e, e = AddFolderDeletion(id)
  PROVE  ShownFrom(Applied(f, e), "folder", id, Empty)
<1>1. e.id = id /\ Removes(e)
  BY DEF AddFolderDeletion, Element, Removes
<1>2. PICK g : g = Applied(f, e) /\ id \notin DOMAIN g
  <2>1. Applied(f, e) = [i \in DOMAIN f \ {id} |-> f[i]]
    BY <1>1 DEF Applied
  <2> QED BY <2>1
<1> SUFFICES ASSUME NEW y, y.folder = g PROVE Shows(BuildModel(y), [of |-> "folder", id |-> id, goal |-> Empty])
  BY <1>2 DEF ShownFrom, KindOf
<1>3. PICK objects : objects = [i \in DOMAIN g |-> BuildFolder(i, g[i])]
  OBVIOUS
<1>4. PICK m : m = BuildModel(y)
  OBVIOUS
<1>5. m["folder"] = Built(objects)
  BY <1>3, <1>4 DEF BuildModel
<1>6. id \notin DOMAIN Built(objects)
  BY <1>2, <1>3 DEF Built
<1>7. Shows(m, [of |-> "folder", id |-> id, goal |-> Empty])
  BY <1>5, <1>6 DEF Shows
<1> QED BY <1>4, <1>7

LEMMA TagShown ==
  ASSUME NEW u, u = [field \in TagFields |-> u[field]], NEW f, NEW e, e = BuilderAddTag(u)
  PROVE  ShownFrom(Applied(f, e), "tag", u.id, u)
<1>1. /\ e.kind = "context" /\ e.id = u.id /\ e.op = "none" /\ Content(e) = e.body /\ "name" \in DOMAIN e.body
      /\ BuildTag(u.id, e.body) = u
  BY TagRead
<1>2. PICK g : g = With(f, u.id, e.body) /\ g = Applied(f, e)
  BY <1>1, AppliedWhole
<1> SUFFICES ASSUME NEW y, y.context = g PROVE Shows(BuildModel(y), [of |-> "tag", id |-> u.id, goal |-> u])
  BY <1>2 DEF ShownFrom, KindOf
<1>3. PICK objects : objects = [id \in DOMAIN g |-> BuildTag(id, g[id])]
  OBVIOUS
<1>4. PICK m : m = BuildModel(y)
  OBVIOUS
<1>5. m["tag"] = Built(objects)
  BY <1>3, <1>4 DEF BuildModel
<1>6. u.id \in DOMAIN g /\ g[u.id] = e.body
  BY <1>2 DEF With
<1>7. u.id \in DOMAIN objects /\ objects[u.id] = u
  BY <1>1, <1>3, <1>6
<1>8. "id" \in DOMAIN u
  BY DEF TagFields
<1>9. Shows(m, [of |-> "tag", id |-> u.id, goal |-> u])
  BY ONLY <1>5, <1>7, <1>8, BuiltShows
<1> QED BY <1>4, <1>9

\* A new task, published whole: the skeleton, then the updates that were
\* asked for (writer.py:937).
LEMMA NewTaskLeads ==
  ASSUME NEW raw, NEW id, NEW name, NEW parent, NEW inbox, NEW note, NEW flagged \in BOOLEAN, NEW due,
         NEW plan, plan = AddTaskPlan(id, name, parent, inbox, note, flagged, due),
         NEW w, w = [project |-> Empty, inbox |-> inbox, task |-> parent, name |-> name, note |-> note,
                     hidden |-> Never, context |-> Nobody, due |-> due, completed |-> Never,
                     order |-> Order(inbox), flagged |-> flagged]
  PROVE  Leads(raw, plan, With(raw, id, Once(w)))
<1> DEFINE Tags == {"project", "inbox", "task", "name", "note", "hidden", "context", "due", "completed", "order", "flagged"}
           Field(fields, absent) == IF absent THEN Empty ELSE <<UpdateTaskFields(id, fields)>>
<1>1. PICK w0, w1, w2, w3 :
          /\ w0 = [project |-> Empty, inbox |-> inbox, task |-> parent, name |-> Nobody, note |-> Nobody,
                   hidden |-> Never, context |-> Nobody, due |-> Never, completed |-> Never,
                   order |-> Order(inbox), flagged |-> FALSE]
          /\ w1 = [w0 EXCEPT !["name"] = name] /\ w2 = [w1 EXCEPT !["note"] = note]
          /\ w3 = [w2 EXCEPT !["flagged"] = flagged]
  OBVIOUS
<1>2. PICK first, named, noted, flags, dues :
          /\ first = AddTaskSnapshot(id, parent, inbox) /\ named = UpdateTaskFields(id, [name |-> name])
          /\ noted = Field([note |-> note], note = Nobody) /\ flags = Field([flagged |-> flagged], ~flagged)
          /\ dues = Field([due |-> due], due = Never)
  OBVIOUS
<1>3. plan = <<first, named>> \o noted \o flags \o dues
  BY <1>2 DEF AddTaskPlan
<1>4. w0 = [tag \in Tags |-> w0[tag]] /\ w1 = [tag \in Tags |-> w1[tag]]
        /\ w2 = [tag \in Tags |-> w2[tag]] /\ w3 = [tag \in Tags |-> w3[tag]]
  BY <1>1
<1>5. /\ w0["note"] = Nobody /\ w0["flagged"] = FALSE /\ w0["due"] = Never
      /\ w1["note"] = Nobody /\ w2["flagged"] = FALSE /\ w3["due"] = Never
  BY <1>1
<1>6. w = [w3 EXCEPT !["due"] = due]
  <2>1. PICK u : u = [w3 EXCEPT !["due"] = due]
    OBVIOUS
  <2>2. u = [tag \in Tags |-> u[tag]] /\ w = [tag \in Tags |-> w[tag]]
    BY <1>4, <2>1
  <2>3. /\ u["due"] = due /\ \A tag \in Tags \ {"due"} : u[tag] = w3[tag]
        /\ w3["name"] = name /\ w3["note"] = note /\ w3["flagged"] = flagged
        /\ \A tag \in Tags \ {"due", "name", "note", "flagged"} : w3[tag] = w0[tag]
    BY <1>1, <1>4, <2>1
  <2>4. /\ w["due"] = due /\ w["name"] = name /\ w["note"] = note /\ w["flagged"] = flagged
        /\ w["project"] = Empty /\ w["inbox"] = inbox /\ w["task"] = parent /\ w["hidden"] = Never
        /\ w["context"] = Nobody /\ w["completed"] = Never /\ w["order"] = Order(inbox)
    OBVIOUS
  <2>5. /\ w0["project"] = Empty /\ w0["inbox"] = inbox /\ w0["task"] = parent /\ w0["hidden"] = Never
        /\ w0["context"] = Nobody /\ w0["completed"] = Never /\ w0["order"] = Order(inbox)
    BY <1>1
  <2>6. \A tag \in Tags : u[tag] = w[tag]
    BY ONLY <2>3, <2>4, <2>5
  <2>7. u = w
    BY ONLY <2>2, <2>6
  <2> QED BY <2>1, <2>7
<1>7. Set(w0, "name", name, w1) /\ Set(w1, "note", note, w2) /\ Set(w2, "flagged", flagged, w3) /\ Set(w3, "due", due, w)
  <2>1. DOMAIN w0 = Tags /\ DOMAIN w1 = Tags /\ DOMAIN w2 = Tags /\ DOMAIN w3 = Tags
    BY <1>4
  <2> QED BY <1>1, <1>4, <1>6, <2>1 DEF Set
<1>8. PICK g0, g1, g2, g3, g4 :
          /\ g0 = With(raw, id, Once(w0)) /\ g1 = With(raw, id, Once(w1)) /\ g2 = With(raw, id, Once(w2))
          /\ g3 = With(raw, id, Once(w3)) /\ g4 = With(raw, id, Once(w))
  OBVIOUS
<1>9. IsSequence(<<first>>) /\ Leads(raw, <<first>>, g0)
  <2>1. first = Element("task", id, "none", Once(w0))
    BY <1>1, <1>2 DEF AddTaskSnapshot
  <2>2. /\ first.kind = "task" /\ first.id = id /\ first.op = "none" /\ first.body = Once(w0)
        /\ Content(first) = first.body
    BY <2>1 DEF Element, Content
  <2>3. "name" \in DOMAIN first.body
    BY <1>4, <2>2 DEF Once
  <2>4. Applied(raw, first) = g0
    BY <1>8, <2>2, <2>3, AppliedWhole
  <2>5. <<first>> \in Seq({first})
    OBVIOUS
  <2> QED BY <2>4, <2>5, LeadsOne, SeqOfRange DEF IsSequence
<1>10. IsSequence(<<named>>) /\ Leads(g0, <<named>>, g1)
  <2>1. PICK fields, s, absent :
            fields = [name |-> name] /\ absent = FALSE /\ absent \in BOOLEAN /\ s = IF absent THEN Empty ELSE <<UpdateTaskFields(id, fields)>>
    OBVIOUS
  <2>2. DOMAIN fields = {"name"} /\ fields["name"] = name /\ (absent => w0["name"] = name) /\ s = <<named>>
    BY <1>2, <2>1
  <2>3. IsSequence(s) /\ Leads(With(raw, id, Once(w0)), s, With(raw, id, Once(w1)))
    BY ONLY <1>7, <2>1, <2>2, FieldLeads
  <2> QED BY <1>8, <2>2, <2>3
<1>11. IsSequence(noted) /\ Leads(g1, noted, g2)
  <2>1. PICK fields, absent : fields = [note |-> note] /\ absent = (note = Nobody) /\ absent \in BOOLEAN
    OBVIOUS
  <2>2. /\ DOMAIN fields = {"note"} /\ fields["note"] = note /\ (absent => w1["note"] = note)
        /\ noted = IF absent THEN Empty ELSE <<UpdateTaskFields(id, fields)>>
    BY <1>2, <1>5, <2>1
  <2>3. absent \in BOOLEAN
    BY <2>1
  <2>4. IsSequence(noted) /\ Leads(With(raw, id, Once(w1)), noted, With(raw, id, Once(w2)))
    BY ONLY <1>7, <2>2, <2>3, FieldLeads
  <2> QED BY <1>8, <2>4
<1>12. IsSequence(flags) /\ Leads(g2, flags, g3)
  <2>1. PICK fields, absent : fields = [flagged |-> flagged] /\ absent = (~flagged) /\ absent \in BOOLEAN
    OBVIOUS
  <2>2. /\ DOMAIN fields = {"flagged"} /\ fields["flagged"] = flagged /\ (absent => w2["flagged"] = flagged)
        /\ flags = IF absent THEN Empty ELSE <<UpdateTaskFields(id, fields)>>
    BY <1>2, <1>5, <2>1
  <2>3. absent \in BOOLEAN
    BY <2>1
  <2>4. IsSequence(flags) /\ Leads(With(raw, id, Once(w2)), flags, With(raw, id, Once(w3)))
    BY ONLY <1>7, <2>2, <2>3, FieldLeads
  <2> QED BY <1>8, <2>4
<1>13. IsSequence(dues) /\ Leads(g3, dues, g4)
  <2>1. PICK fields, absent : fields = [due |-> due] /\ absent = (due = Never) /\ absent \in BOOLEAN
    OBVIOUS
  <2>2. /\ DOMAIN fields = {"due"} /\ fields["due"] = due /\ (absent => w3["due"] = due)
        /\ dues = IF absent THEN Empty ELSE <<UpdateTaskFields(id, fields)>>
    BY <1>2, <1>5, <2>1
  <2>3. absent \in BOOLEAN
    BY <2>1
  <2>4. IsSequence(dues) /\ Leads(With(raw, id, Once(w3)), dues, With(raw, id, Once(w)))
    BY ONLY <1>7, <2>2, <2>3, FieldLeads
  <2> QED BY <1>8, <2>4
<1>14. IsSequence(<<first, named>>) /\ Leads(raw, <<first, named>>, g1)
  BY <1>9, <1>10, LeadsOn, PairJoins
<1>15. IsSequence(<<first, named>> \o noted) /\ Leads(raw, <<first, named>> \o noted, g2)
  BY ONLY <1>11, <1>14, LeadsOn
<1>16. IsSequence(<<first, named>> \o noted \o flags) /\ Leads(raw, <<first, named>> \o noted \o flags, g3)
  BY ONLY <1>12, <1>15, LeadsOn
<1>17. Leads(raw, <<first, named>> \o noted \o flags \o dues, g4)
  BY ONLY <1>13, <1>16, LeadsOn
<1> QED BY <1>3, <1>8, <1>17

LEMMA NewTaskShown ==
  ASSUME NEW raw, IsFiniteSet(DOMAIN raw), Nobody \notin DOMAIN raw,
         NEW projects, projects = {i \in DOMAIN raw : IsProject(raw[i])}, NEW id, id # Nobody, id \notin DOMAIN raw,
         NEW name, NEW parent, NEW inbox, NEW note, NEW flagged \in BOOLEAN, NEW due, NEW project,
         \/ parent = Nobody /\ project = Nobody
         \/ parent \in projects /\ project = parent
         \/ project = ResolveProject(raw, projects, parent),
         NEW plan, plan = AddTaskPlan(id, name, parent, inbox, note, flagged, due),
         NEW goal, goal = [id |-> id, name |-> name, parent |-> parent, project |-> project,
                           inbox |-> inbox, completed |-> Never, hidden |-> Never, flagged |-> flagged,
                           note |-> note, due |-> due, tags |-> Empty,
                           order |-> IF inbox THEN "sequential" ELSE "parallel"]
  PROVE  \E g : Leads(raw, plan, g) /\ ShownFrom(g, "task", id, goal)
<1>1. PICK w, body, g :
          /\ w = [project |-> Empty, inbox |-> inbox, task |-> parent, name |-> name, note |-> note,
                  hidden |-> Never, context |-> Nobody, due |-> due, completed |-> Never,
                  order |-> Order(inbox), flagged |-> flagged]
          /\ body = Once(w) /\ g = With(raw, id, body)
  OBVIOUS
<1>2. Leads(raw, plan, g)
  BY <1>1, NewTaskLeads
<1>3. \A tag \in DOMAIN w : \A default : Value(body, tag, default) = w[tag]
  BY <1>1 DEF Once, Value
<1>4. /\ Value(body, "project", Empty) = Empty /\ Value(body, "inbox", FALSE) = inbox
      /\ Value(body, "task", Nobody) = parent /\ Value(body, "name", Nobody) = name
      /\ Value(body, "note", Nobody) = note /\ Value(body, "hidden", Never) = Never
      /\ Value(body, "due", Never) = due /\ Value(body, "completed", Never) = Never
      /\ Value(body, "order", Nobody) = Order(inbox) /\ Value(body, "flagged", FALSE) = flagged
  BY <1>1, <1>3
<1>5. Values(body, "context") = Empty
  <2>1. "context" \in DOMAIN body /\ body["context"] = <<Nobody>>
    BY <1>1 DEF Once
  <2>2. <<Nobody>> \in Seq({Nobody}) /\ Range(<<Nobody>>) = {Nobody}
    BY DEF Range
  <2>3. PICK s : s = Filled(<<Nobody>>)
    OBVIOUS
  <2>4. s \in Seq({Nobody}) /\ Range(s) = {}
    BY <2>2, <2>3, FilledEffect
  <2>5. s = <<>>
    <3>1. Len(s) \in Nat /\ DOMAIN s = 1..Len(s)
      BY <2>4
    <3>2. \A k \in DOMAIN s : s[k] \in Range(s)
      BY DEF Range
    <3>3. Len(s) = 0
      BY <2>4, <3>1, <3>2
    <3> QED BY <2>4, <3>3, EmptySeq
  <2> QED BY <2>1, <2>3, <2>5 DEF Values, Empty
<1>6. ~IsProject(body)
  BY <1>4 DEF IsProject, Empty
<1>7. goal.id = id /\ goal.project = project /\ goal = [field \in TaskFields |-> goal[field]]
  BY DEF TaskFields
<1>8. BuildTask(id, body, project) = goal
  <2>1. PICK r : r = BuildTask(id, body, project)
    OBVIOUS
  <2>2. r = [field \in TaskFields |-> r[field]]
    BY <2>1 DEF BuildTask, TaskFields
  <2>3. /\ r.id = id /\ r.name = name /\ r.parent = parent /\ r.project = project /\ r.inbox = inbox
        /\ r.completed = Never /\ r.hidden = Never /\ r.flagged = flagged /\ r.note = note
        /\ r.due = due /\ r.tags = Empty /\ r.order = IF inbox THEN "sequential" ELSE "parallel"
    BY <1>4, <1>5, <2>1 DEF BuildTask, Order, Nobody
  <2>4. /\ goal.id = id /\ goal.name = name /\ goal.parent = parent /\ goal.project = project /\ goal.inbox = inbox
        /\ goal.completed = Never /\ goal.hidden = Never /\ goal.flagged = flagged /\ goal.note = note
        /\ goal.due = due /\ goal.tags = Empty /\ goal.order = IF inbox THEN "sequential" ELSE "parallel"
    OBVIOUS
  <2>5. \A field \in TaskFields : r[field] = goal[field]
    BY ONLY <2>3, <2>4 DEF TaskFields
  <2>6. r = goal
    BY ONLY <1>7, <2>2, <2>5
  <2> QED BY <2>1, <2>6
<1>9. DOMAIN g = DOMAIN raw \union {id} /\ g[id] = body /\ \A i \in DOMAIN raw : g[i] = raw[i]
  BY <1>1 DEF With
<1>10. projects = {i \in DOMAIN g : IsProject(g[i])}
  BY <1>6, <1>9
<1>11. ResolveProject(g, projects, id) = project
  <2>1. IsFiniteSet(DOMAIN g) /\ Nobody \notin DOMAIN g /\ id \in DOMAIN g \ projects /\ projects \subseteq DOMAIN g
    BY <1>9, FS_AddElement
  <2>2. CASE parent = Nobody /\ project = Nobody
    <3>1. Value(g[id], "task", Nobody) = Nobody
      BY <1>4, <1>9, <2>2
    <3>2. ResolveProject(g, projects, id) = Nobody
      BY ONLY <2>1, <3>1, RootResolves
    <3> QED BY <2>2, <3>2
  <2>3. CASE parent \in projects /\ project = parent
    <3>1. parent \in projects /\ Value(g[id], "task", Nobody) = parent
      BY <1>4, <1>9, <2>3
    <3>2. ResolveProject(g, projects, id) = parent
      BY ONLY <2>1, <3>1, ResolvesToParent
    <3> QED BY <2>3, <3>2
  <2>4. CASE project = ResolveProject(raw, projects, parent)
    <3>1. projects \subseteq DOMAIN raw /\ Value(body, "task", Nobody) = parent /\ g = With(raw, id, body)
      BY <1>1, <1>4
    <3>2. ResolveProject(g, projects, id) = ResolveProject(raw, projects, parent)
      BY ONLY IsFiniteSet(DOMAIN raw), id \notin DOMAIN raw, <3>1, ResolvesBelow
    <3> QED BY <2>4, <3>2
  <2> QED BY <2>2, <2>3, <2>4
<1>12. ShownFrom(g, "task", id, goal)
  <2>1. /\ goal = [field \in TaskFields |-> goal[field]] /\ BuildTask(goal.id, body, goal.project) = goal
        /\ g = With(raw, goal.id, body) /\ ResolveProject(g, projects, goal.id) = goal.project
    BY <1>1, <1>7, <1>8, <1>11
  <2>2. ShownFrom(g, "task", goal.id, goal)
    BY ONLY <1>6, <1>10, <2>1, TaskShown
  <2> QED BY <1>7, <2>2
<1> QED BY <1>2, <1>12

-----------------------------------------------------------------------------
(* Requests and commands. *)

\* What requests read.
Readable ==
    /\ SoundIndex(index)
    /\ model = BuildModel(index)
    /\ now \in 1..(MaxRequests + 1)

\* A request is accepted with a sound plan.
Accepts(c, of) ==
    /\ now \in 1..MaxRequests
    /\ \E id, goal, plan : Accept(c, of, id, goal, plan) /\ SoundPlan(of, plan) /\ plan # Empty

LEMMA AcceptOne ==
  ASSUME Readable, NEW c, Ready(c), NEW of, NEW id, NEW goal, NEW e,
         Accept(c, of, id, goal, <<e>>), SoundElement(e), e.kind = KindOf(of), e.op \in {"none", "delete"}
  PROVE  Accepts(c, of)
<1>1. SoundPlan(of, <<e>>) /\ <<e>> # Empty
  BY SinglePlan
<1>2. now \in 1..MaxRequests
  BY IdAssumption DEF Ready, Readable
<1> QED BY <1>1, <1>2 DEF Accepts

LEMMA CreateTaskAccepts ==
  ASSUME Readable, NEW c, Ready(c), NEW args, NEW parent, NEW inbox, inbox => parent = Nobody,
         CreateTask(c, args, parent, inbox)
  PROVE  Accepts(c, "task")
<1> DEFINE id == NewIds[now]
           name == Arg(args, "name", Nobody)
           note == Arg(args, "note", Nobody)
           flagged == Arg(args, "flagged", FALSE)
           due == Arg(args, "due", Never)
           plan == AddTaskPlan(id, name, parent, inbox, note, flagged, due)
<1>1. now \in 1..MaxRequests
  BY IdAssumption DEF Ready, Readable
<1>2. id \in Range(NewIds) \ {Nobody}
  BY <1>1, IdAssumption DEF Range
<1>3. \E goal : Accept(c, "task", id, goal, plan)
  BY DEF CreateTask
<1>4. SoundPlan("task", plan) /\ plan # Empty
  <2> HIDE DEF id, name, note, flagged, due
  <2> QED BY <1>2, AddTaskPlanIsSound
<1> HIDE DEF plan, id
<1> QED BY <1>1, <1>3, <1>4 DEF Accepts

\* The tags a request brings along.
LEMMA ArgTags ==
  ASSUME Readable, NEW args \in TaskChanges \union ProjectChanges, NEW keys,
         NEW given, given = args \/ given = Passed(args, keys), KnownTags(model, given)
  PROVE  "tags" \in DOMAIN given => TagList(given.tags)
<1> SUFFICES ASSUME "tags" \in DOMAIN given PROVE TagList(given.tags)
  OBVIOUS
<1>1. PICK tags : tags = given.tags
  OBVIOUS
<1>2. "tags" \in DOMAIN args /\ tags = args.tags
  BY <1>1 DEF Passed
<1>3. IsSequence(tags)
  BY <1>2, ArgsAssumption
<1>4. \A i \in DOMAIN tags : tags[i] \in DOMAIN model.tag
  BY <1>1 DEF KnownTags, Arg
<1>5. Nobody \notin DOMAIN model.tag
  <2>1. SoundIndex(index) /\ model = BuildModel(index) /\ "context" \in Groups
    BY DEF Readable, Groups
  <2>2. Nobody \notin DOMAIN Objects(model, "context")
    BY ONLY <2>1, GroupModel
  <2> QED BY <2>2 DEF Objects
<1>6. Nobody \notin Range(tags)
  BY <1>4, <1>5 DEF Range
<1> QED BY <1>1, <1>3, <1>6 DEF TagList

\* A task as a change leaves it: where it is said to be, it is only there.
LEMMA ChangedTaskIsSound ==
  ASSUME Readable, NEW id \in DOMAIN model.task, NEW u,
         \/ u = model.task[id]
         \/ \E args : /\ u = BuildUpdatedTask(model.task[id], args)
                      /\ "tags" \in DOMAIN args => TagList(args.tags)
  PROVE  /\ \A v : SoundElement(BuilderAddTask([u EXCEPT !.hidden = v]))
         /\ \A v : SoundElement(BuilderAddTask([u EXCEPT !.completed = v]))
         /\ SoundElement(BuilderAddTask(u))
<1> DEFINE t == model.task[id]
<1>1. /\ t = BuildTask(id, index.task[id], t.project)
      /\ id \in DOMAIN index.task /\ Apart(t) /\ TagList(t.tags)
  BY ModelSound DEF Readable
<1>2. id # Nobody
  BY <1>1 DEF Readable, SoundIndex, Kinds
<1>3. t.id = id /\ t = [field \in TaskFields |-> t[field]]
  BY <1>1 DEF BuildTask, TaskFields
<1> HIDE DEF t
<1>4. /\ u.id = id /\ u = [field \in TaskFields |-> u[field]]
      /\ u.inbox => u.parent = Nobody
      /\ TagList(u.tags)
  <2>1. CASE u = t
    BY <1>1, <1>3, <2>1 DEF Apart
  <2>2. ASSUME NEW args, u = BuildUpdatedTask(t, args), "tags" \in DOMAIN args => TagList(args.tags)
        PROVE  u.id = id /\ u = [field \in TaskFields |-> u[field]] /\ (u.inbox => u.parent = Nobody) /\ TagList(u.tags)
    <3> DEFINE Place(old) == IF MovedInto(args) THEN args.project ELSE IF MovedOut(args) THEN Nobody ELSE old
    <3>1. u = [t EXCEPT
            !.name = Arg(args, "name", @), !.note = Arg(args, "note", @),
            !.flagged = Arg(args, "flagged", @), !.due = Arg(args, "due", @),
            !.parent = Place(@), !.project = Place(@), !.inbox = NewInbox(t, args),
            !.tags = IF "clear_tags" \in DOMAIN args THEN Empty ELSE Arg(args, "tags", @),
            !.hidden = IF "dropped" \in DOMAIN args THEN IF args.dropped THEN now ELSE Never ELSE @]
      BY <2>2 DEF BuildUpdatedTask
    <3> HIDE DEF Place
    <3>2. /\ u = [field \in TaskFields |-> u[field]] /\ u.id = t.id
          /\ u.inbox = NewInbox(t, args) /\ u.parent = Place(t.parent)
          /\ u.tags = IF "clear_tags" \in DOMAIN args THEN Empty ELSE Arg(args, "tags", t.tags)
      <4>1. u = [field \in TaskFields |-> u[field]]
        BY <1>3, <3>1
      <4>2. u.id = t.id /\ u.inbox = NewInbox(t, args) /\ u.parent = Place(t.parent)
        BY <1>3, <3>1 DEF TaskFields
      <4>3. u.tags = IF "clear_tags" \in DOMAIN args THEN Empty ELSE Arg(args, "tags", t.tags)
        BY <1>3, <3>1 DEF TaskFields
      <4> QED BY <4>1, <4>2, <4>3
    <3>3. NewInbox(t, args) => Place(t.parent) = Nobody
      BY <1>1 DEF NewInbox, Place, Apart
    <3>4. TagList(u.tags)
      BY <1>1, <2>2, <3>2, EmptyTags DEF Arg
    <3> QED BY <1>3, <3>2, <3>3, <3>4
  <2> QED BY <2>1, <2>2 DEF t
<1>5. ASSUME NEW w, w.id = id, w.inbox => w.parent = Nobody, TagList(w.tags)
      PROVE  SoundElement(BuilderAddTask(w))
  BY <1>2, <1>5, TaskIsSound
<1>6. ASSUME NEW v PROVE SoundElement(BuilderAddTask([u EXCEPT !.hidden = v]))
  <2> DEFINE w == [u EXCEPT !.hidden = v]
  <2>1. w.id = id /\ (w.inbox <=> u.inbox) /\ w.parent = u.parent /\ w.tags = u.tags
    BY <1>4
  <2> HIDE DEF w
  <2> QED BY <1>4, <1>5, <2>1 DEF w
<1>7. ASSUME NEW v PROVE SoundElement(BuilderAddTask([u EXCEPT !.completed = v]))
  <2> DEFINE w == [u EXCEPT !.completed = v]
  <2>1. w.id = id /\ (w.inbox <=> u.inbox) /\ w.parent = u.parent /\ w.tags = u.tags
    BY <1>4
  <2> HIDE DEF w
  <2> QED BY <1>4, <1>5, <2>1 DEF w
<1> QED BY <1>4, <1>5, <1>6, <1>7

LEMMA TaskElementKind ==
  ASSUME NEW t
  PROVE  BuilderAddTask(t).kind = KindOf("task") /\ BuilderAddTask(t).op = "none"
BY DEF BuilderAddTask, TaskElement, Element, KindOf

\* What the service and the command line do with tasks.
LEMMA TasksAccepted ==
  ASSUME Readable, NEW c,
         \/ TaskRequest(c)
         \/ \E args \in NewTasks : AddCmd(c, args)
         \/ \E id \in DOMAIN model.task : DoneCmd(c, id) \/ TaskDropCmd(c, id)
         \/ \E id \in DOMAIN model.task, args \in TaskChanges : TaskUpdateCmd(c, id, args)
  PROVE  Accepts(c, "task")
<1>1. ASSUME NEW args, AddTask(c, args) \/ AddCmd(c, args) PROVE Accepts(c, "task")
  <2>1. CASE AddTask(c, args)
    <3> DEFINE parent == Arg(args, "project", Arg(args, "parent", Nobody))
               inbox == DOMAIN args \intersect {"project", "parent"} = {}
    <3>1. Ready(c) /\ CreateTask(c, args, parent, inbox) /\ (inbox => parent = Nobody)
      BY <2>1 DEF AddTask, Arg
    <3> HIDE DEF parent, inbox
    <3> QED BY <3>1, CreateTaskAccepts
  <2>2. CASE AddCmd(c, args)
    <3> DEFINE parent == Arg(args, "project", Nobody)
               inbox == "project" \notin DOMAIN args
    <3>1. Ready(c) /\ CreateTask(c, args, parent, inbox) /\ (inbox => parent = Nobody)
      BY <2>2 DEF AddCmd, Arg
    <3> HIDE DEF parent, inbox
    <3> QED BY <3>1, CreateTaskAccepts
  <2> QED BY <1>1, <2>1, <2>2
<1>2. ASSUME NEW id \in DOMAIN model.task, NEW args \in TaskChanges, UpdateTask(c, id, args)
      PROVE  Accepts(c, "task")
  <2> DEFINE u == BuildUpdatedTask(model.task[id], args)
  <2>1. PICK w : /\ w = u \/ w = [u EXCEPT !.hidden = now]
                 /\ Accept(c, "task", id, u, <<BuilderAddTask(w)>>)
    BY <1>2 DEF UpdateTask, UpdateTaskPlan, DropTaskPlan
  <2>3. "tags" \in DOMAIN args => TagList(args.tags)
    BY <1>2, ArgTags DEF UpdateTask, TaskChangeOK
  <2> HIDE DEF u
  <2>2. SoundElement(BuilderAddTask(w))
    BY <2>1, <2>3, ChangedTaskIsSound DEF u
  <2> QED BY <1>2, <2>1, <2>2, TaskElementKind, AcceptOne DEF UpdateTask
<1>3. ASSUME NEW id \in DOMAIN model.task, CompleteTask(c, id) PROVE Accepts(c, "task")
  <2> DEFINE w == [model.task[id] EXCEPT !.completed = now]
  <2>1. Ready(c) /\ Accept(c, "task", id, w, <<BuilderAddTask(w)>>)
    BY <1>3 DEF CompleteTask, CompleteTaskPlan, UpdateTaskPlan
  <2>2. SoundElement(BuilderAddTask(w))
    BY ChangedTaskIsSound
  <2> HIDE DEF w
  <2> QED BY <2>1, <2>2, TaskElementKind, AcceptOne
<1>4. ASSUME NEW id \in DOMAIN model.task, TaskDropCmd(c, id) PROVE Accepts(c, "task")
  <2> DEFINE w == [model.task[id] EXCEPT !.hidden = now]
  <2>1. Ready(c) /\ Accept(c, "task", id, w, <<BuilderAddTask(w)>>)
    BY <1>4 DEF TaskDropCmd, DropTaskPlan, UpdateTaskPlan
  <2>2. SoundElement(BuilderAddTask(w))
    BY ChangedTaskIsSound
  <2> HIDE DEF w
  <2> QED BY <2>1, <2>2, TaskElementKind, AcceptOne
<1>5. ASSUME NEW id \in DOMAIN model.task, NEW args \in TaskChanges, TaskUpdateCmd(c, id, args)
      PROVE  Accepts(c, "task")
  <2> DEFINE passed == Passed(args, {"name", "project", "tags"})
             u == BuildUpdatedTask(model.task[id], passed)
  <2>1. Ready(c) /\ Accept(c, "task", id, u, <<BuilderAddTask(u)>>)
    BY <1>5 DEF TaskUpdateCmd, UpdateTaskPlan
  <2>3. "tags" \in DOMAIN passed => TagList(passed.tags)
    <3>1. KnownTags(model, passed)
      BY <1>5 DEF TaskUpdateCmd, TaskChangeOK
    <3>2. PICK keys : passed = Passed(args, keys)
      OBVIOUS
    <3> HIDE DEF passed
    <3> QED BY <3>1, <3>2, ArgTags
  <2> HIDE DEF passed
  <2>2. SoundElement(BuilderAddTask(u))
    BY <2>3, ChangedTaskIsSound
  <2> HIDE DEF u
  <2> QED BY <2>1, <2>2, TaskElementKind, AcceptOne
<1> QED BY <1>1, <1>2, <1>3, <1>4, <1>5 DEF TaskRequest, DoneCmd

LEMMA ProjectAccepted ==
  ASSUME Readable, NEW c, Ready(c), NEW p, p.id # Nobody, Dated(p), TagList(p.tags), NEW id, NEW goal,
         Accept(c, "project", id, goal, <<BuilderAddProject(p)>>)
  PROVE  Accepts(c, "project")
<1>1. SoundElement(BuilderAddProject(p))
  BY ProjectIsSound
<1>2. BuilderAddProject(p).kind = KindOf("project") /\ BuilderAddProject(p).op = "none"
  BY DEF BuilderAddProject, TaskElement, Element, KindOf
<1> QED BY <1>1, <1>2, AcceptOne

LEMMA CreateProjectAccepts ==
  ASSUME Readable, NEW c, Ready(c), NEW args, Arg(args, "status", "active") \in {"active", "inactive"},
         CreateProject(c, args)
  PROVE  Accepts(c, "project")
<1> DEFINE p == [id |-> NewIds[now], name |-> Arg(args, "name", Nobody),
                 folder |-> Arg(args, "folder", Nobody),
                 status |-> Arg(args, "status", "active"), reviewed |-> Never,
                 completed |-> Never, flagged |-> Arg(args, "flagged", FALSE),
                 note |-> Arg(args, "note", Nobody), due |-> Arg(args, "due", Never),
                 tags |-> Empty]
<1>1. Accept(c, "project", p.id, p, <<BuilderAddProject(p)>>)
  BY DEF CreateProject, AddProjectPlan
<1>2. p.id # Nobody
  BY IdAssumption DEF Ready, Readable
<1>3. Dated(p)
  <2>1. p.status # "done"
    OBVIOUS
  <2> QED BY <2>1 DEF Dated
<1>4. TagList(p.tags)
  BY EmptyTags
<1> HIDE DEF p
<1> QED BY <1>1, <1>2, <1>3, <1>4, ProjectAccepted

LEMMA KnownProject ==
  ASSUME Readable, NEW id \in DOMAIN model.project, NEW p, p = model.project[id]
  PROVE  p.id = id /\ id # Nobody /\ p = [field \in ProjectFields |-> p[field]] /\ Dated(p) /\ TagList(p.tags)
<1>1. p = BuildProject(id, index.task[id]) /\ id \in DOMAIN index.task /\ Dated(p) /\ TagList(p.tags)
  BY ModelSound DEF Readable
<1>2. id # Nobody
  BY <1>1 DEF Readable, SoundIndex, Kinds
<1>3. p.id = id /\ p = [field \in ProjectFields |-> p[field]]
  BY <1>1 DEF BuildProject, ProjectFields
<1> QED BY <1>1, <1>2, <1>3

\* A project set to done is dated, by the update or by the store.
LEMMA SaveProjectAccepts ==
  ASSUME Readable, NEW c, Ready(c), NEW id \in DOMAIN model.project, NEW args, NEW status,
         "tags" \in DOMAIN args => TagList(args.tags), NEW u, u = BuildUpdatedProject(model.project[id], args),
         \/ status = u.status
         \/ status = Arg(args, "status", Nobody),
         SaveProject(c, u, status)
  PROVE  Accepts(c, "project")
<1> DEFINE p == model.project[id]
<1>1. p.id = id /\ id # Nobody /\ p = [field \in ProjectFields |-> p[field]] /\ Dated(p) /\ TagList(p.tags)
  BY KnownProject
<1> HIDE DEF p
<1> DEFINE completed == IF Arg(args, "status", Nobody) = "done" /\ p.completed = Never THEN now ELSE p.completed
<1>2. /\ u.id = id /\ u = [field \in ProjectFields |-> u[field]]
      /\ u.status = Arg(args, "status", p.status) /\ u.completed = completed
      /\ TagList(u.tags)
  <2>1. u = [p EXCEPT
        !.name = Arg(args, "name", @), !.note = Arg(args, "note", @),
        !.flagged = Arg(args, "flagged", @), !.due = Arg(args, "due", @),
        !.status = Arg(args, "status", @),
        !.folder = IF "clear_folder" \in DOMAIN args THEN Nobody ELSE Arg(args, "folder", @),
        !.completed = IF Arg(args, "status", Nobody) = "done" /\ @ = Never THEN now ELSE @,
        !.tags = IF "clear_tags" \in DOMAIN args THEN Empty ELSE Arg(args, "tags", @)]
    BY DEF BuildUpdatedProject, p
  <2>2. /\ u.id = id /\ u = [field \in ProjectFields |-> u[field]]
        /\ u.status = Arg(args, "status", p.status) /\ u.completed = completed
        /\ u.tags = IF "clear_tags" \in DOMAIN args THEN Empty ELSE Arg(args, "tags", p.tags)
    BY <1>1, <2>1 DEF ProjectFields
  <2>3. TagList(u.tags)
    BY <1>1, <2>2, EmptyTags DEF Arg
  <2> QED BY <2>2, <2>3
<1> HIDE DEF completed
<1>3. now # Never
  BY DEF Readable, Never
<1>4. CASE status = "done"
  <2>1. Accept(c, "project", u.id, [u EXCEPT !.completed = now], CompleteProjectPlan(u, now))
    BY <1>4 DEF SaveProject
  <2> DEFINE v == [u EXCEPT !.status = "done", !.completed = now]
  <2>2. CompleteProjectPlan(u, now) = <<BuilderAddProject(v)>>
    BY DEF CompleteProjectPlan, UpdateProjectPlan
  <2>3. v.id = id /\ v.completed = now /\ TagList(v.tags)
    BY <1>2 DEF ProjectFields
  <2> HIDE DEF v
  <2>4. Dated(v)
    BY <1>3, <2>3 DEF Dated
  <2> QED BY <1>1, <2>1, <2>2, <2>3, <2>4, ProjectAccepted
<1>5. CASE status = "dropped"
  <2> DEFINE v == [u EXCEPT !.status = "dropped"]
  <2>1. Accept(c, "project", u.id, u, DropProjectPlan(u))
    BY <1>5 DEF SaveProject
  <2>2. DropProjectPlan(u) = <<BuilderAddProject(v)>>
    BY DEF DropProjectPlan, UpdateProjectPlan
  <2>3. v.id = id /\ v.status = "dropped" /\ TagList(v.tags)
    BY <1>2 DEF ProjectFields
  <2> HIDE DEF v
  <2>4. Dated(v)
    BY <2>3 DEF Dated
  <2> QED BY <1>1, <2>1, <2>2, <2>3, <2>4, ProjectAccepted
<1>6. CASE status \notin {"done", "dropped"}
  <2>1. Accept(c, "project", u.id, u, <<BuilderAddProject(u)>>)
    BY <1>6 DEF SaveProject, UpdateProjectPlan
  <2>2. u.status = "done" => p.status = "done" /\ u.completed = p.completed
    BY <1>2, <1>6 DEF Arg, completed, Nobody
  <2>3. Dated(u)
    BY <1>1, <2>2 DEF Dated
  <2> QED BY <1>1, <1>2, <2>1, <2>3, ProjectAccepted
<1> QED BY <1>4, <1>5, <1>6

\* What the service and the command line do with projects.
LEMMA ProjectsAccepted ==
  ASSUME Readable, NEW c,
         \/ ProjectRequest(c)
         \/ \E args \in NewProjects : ProjectAddCmd(c, args)
         \/ \E id \in DOMAIN model.project, args \in ProjectChanges : ProjectUpdateCmd(c, id, args)
         \/ \E id \in DOMAIN model.project : ProjectDoneCmd(c, id)
  PROVE  Accepts(c, "project")
<1>1. ASSUME NEW args, AddProject(c, args) \/ ProjectAddCmd(c, args) PROVE Accepts(c, "project")
  <2>1. Ready(c) /\ CreateProject(c, args) /\ Arg(args, "status", "active") \in {"active", "inactive"}
    BY <1>1 DEF AddProject, ProjectAddCmd
  <2> QED BY <2>1, CreateProjectAccepts
<1>2. ASSUME NEW id \in DOMAIN model.project, NEW args \in ProjectChanges, UpdateProject(c, id, args)
      PROVE  Accepts(c, "project")
  <2> DEFINE u == BuildUpdatedProject(model.project[id], args)
  <2>1. Ready(c) /\ SaveProject(c, u, u.status)
    BY <1>2 DEF UpdateProject
  <2>2. PICK status : status = u.status
    OBVIOUS
  <2>3. "tags" \in DOMAIN args => TagList(args.tags)
    BY <1>2, ArgTags DEF UpdateProject, ProjectChangeOK
  <2> HIDE DEF u
  <2> QED BY <2>1, <2>2, <2>3, SaveProjectAccepts DEF u
<1>3. ASSUME NEW id \in DOMAIN model.project, NEW args \in ProjectChanges, ProjectUpdateCmd(c, id, args)
      PROVE  Accepts(c, "project")
  <2> DEFINE passed == Passed(args, {"name", "folder", "tags"})
             u == BuildUpdatedProject(model.project[id], passed)
  <2>1. PICK status : Ready(c) /\ SaveProject(c, u, status) /\ status = Arg(passed, "status", Nobody)
    BY <1>3 DEF ProjectUpdateCmd
  <2>2. "tags" \in DOMAIN passed => TagList(passed.tags)
    <3>1. KnownTags(model, passed)
      BY <1>3 DEF ProjectUpdateCmd, ProjectChangeOK
    <3>2. PICK keys : passed = Passed(args, keys)
      OBVIOUS
    <3> HIDE DEF passed
    <3> QED BY <3>1, <3>2, ArgTags
  <2> HIDE DEF passed
  <2> QED BY <2>1, <2>2, SaveProjectAccepts
<1>4. ASSUME NEW id \in DOMAIN model.project, CompleteProject(c, id)
      PROVE  Accepts(c, "project")
  <2> DEFINE p == model.project[id]
             v == [p EXCEPT !.status = "done", !.completed = now]
  <2>1. Ready(c) /\ Accept(c, "project", id, v, <<BuilderAddProject(v)>>)
    BY <1>4 DEF CompleteProject, CompleteProjectPlan, UpdateProjectPlan
  <2>2. p.id = id /\ id # Nobody /\ p = [field \in ProjectFields |-> p[field]] /\ TagList(p.tags)
    BY KnownProject
  <2> HIDE DEF p
  <2>3. v.id = id /\ v.completed = now /\ TagList(v.tags)
    BY <2>2 DEF ProjectFields
  <2> HIDE DEF v
  <2>4. Dated(v)
    BY <2>3 DEF Dated, Readable, Never
  <2> QED BY <2>1, <2>2, <2>3, <2>4, ProjectAccepted
<1>5. ASSUME NEW id \in DOMAIN model.project, MarkProjectReviewed(c, id)
      PROVE  Accepts(c, "project")
  <2> DEFINE p == model.project[id]
             v == [p EXCEPT !.reviewed = now]
  <2>1. Ready(c) /\ Accept(c, "project", id, v, <<BuilderAddProject(v)>>)
    BY <1>5 DEF MarkProjectReviewed, UpdateProjectPlan
  <2>2. p.id = id /\ id # Nobody /\ p = [field \in ProjectFields |-> p[field]] /\ Dated(p) /\ TagList(p.tags)
    BY KnownProject
  <2> HIDE DEF p
  <2>3. v.id = id /\ v.status = p.status /\ v.completed = p.completed /\ TagList(v.tags)
    BY <2>2 DEF ProjectFields
  <2> HIDE DEF v
  <2>4. Dated(v)
    BY <2>2, <2>3 DEF Dated
  <2> QED BY <2>1, <2>2, <2>3, <2>4, ProjectAccepted
<1> QED BY <1>1, <1>2, <1>3, <1>4, <1>5 DEF ProjectRequest, ProjectDoneCmd

-----------------------------------------------------------------------------
(* Folders and tags. *)

\* A whole folder or tag says what its name and its parent are.
LEMMA GroupElement ==
  ASSUME NEW kind \in Groups, NEW id, id # Nobody, NEW fields, "name" \in DOMAIN fields, kind \in DOMAIN fields,
         NEW e, e = Element(kind, id, "none", Given(fields))
  PROVE  /\ SoundElement(e) /\ e.kind = kind /\ e.id = id /\ e.op = "none"
         /\ Value(e.body, "name", Nobody) = fields["name"] /\ ParentOf(kind, e.body) = fields[kind]
<1>1. kind \in Kinds \ {"task"}
  BY DEF Groups, Kinds
<1>2. SoundElement(e)
  BY <1>1, GroupIsSound
<1> DEFINE body == Given(fields)
<1>3. \A tag : /\ tag \in DOMAIN body <=>
                       tag \in DOMAIN fields /\ (tag \in DOMAIN Absent => fields[tag] # Absent[tag])
               /\ tag \in DOMAIN body => body[tag] = <<fields[tag]>>
  BY GivenEffect
<1>4. e.kind = kind /\ e.id = id /\ e.op = "none" /\ e.body = body
  BY DEF Element
<1> HIDE DEF body
<1>5. "name" \in DOMAIN body /\ body["name"] = <<fields["name"]>>
  BY <1>3 DEF Absent
<1>6. Value(body, "name", Nobody) = fields["name"]
  BY <1>5 DEF Value
<1>7. kind \in DOMAIN Absent /\ Absent[kind] = Nobody
  BY DEF Absent, Groups
<1>8. ParentOf(kind, body) = fields[kind]
  <2>1. CASE kind \in DOMAIN body
    <3>1. body[kind] = <<fields[kind]>>
      BY <1>3, <2>1
    <3> QED BY <2>1, <3>1 DEF ParentOf, Value
  <2>2. CASE kind \notin DOMAIN body
    BY <1>3, <1>7, <2>2 DEF ParentOf, Value
  <2> QED BY <2>1, <2>2
<1> QED BY <1>2, <1>4, <1>6, <1>8

\* What a request does to the forest, as the model that it loaded shows it.
Moves(kind, e) ==
    LET parent == ParentOf(kind, e.body)
        objects == Objects(model, kind)
    IN  /\ e.op \in {"none", "delete"}
        /\ \/ e.id = NewIds[now] /\ parent \in DOMAIN objects \union {Nobody}
           \/ /\ e.id \in DOMAIN objects
              /\ \/ parent \in {Nobody, objects[e.id].parent}
                 \/ parent \in DOMAIN objects /\ LeadsOut(objects, e.id, parent)
        /\ NamesKept(kind) => NamelessAtRoot(kind, e.body)

GroupAccepts(c, kind) ==
    /\ now \in 1..MaxRequests
    /\ \E id, goal, e : /\ Accept(c, Of(kind), id, goal, <<e>>)
                        /\ SoundElement(e) /\ e.kind = kind /\ Moves(kind, e)

LEMMA CreationMoves ==
  ASSUME Readable, NEW kind \in Groups, NEW args \in Additions(kind), now \in 1..MaxRequests,
         Arg(args, "parent", Nobody) # Nobody => args.parent \in DOMAIN Objects(model, kind),
         NEW fields, "name" \in DOMAIN fields, kind \in DOMAIN fields,
         fields["name"] = Arg(args, "name", Nobody), fields[kind] = Arg(args, "parent", Nobody),
         NEW e, e = Element(kind, NewIds[now], "none", Given(fields))
  PROVE  SoundElement(e) /\ e.kind = kind /\ Moves(kind, e)
<1>1. NewIds[now] # Nobody
  BY IdAssumption
<1>2. /\ SoundElement(e) /\ e.kind = kind /\ e.id = NewIds[now] /\ e.op = "none"
      /\ Value(e.body, "name", Nobody) = fields["name"] /\ ParentOf(kind, e.body) = fields[kind]
  BY <1>1, GroupElement
<1>3. fields[kind] \in DOMAIN Objects(model, kind) \union {Nobody}
  BY DEF Arg
<1>4. NamesKept(kind) => NamelessAtRoot(kind, e.body)
  BY <1>2 DEF NamesKept, NamelessAtRoot
<1> HIDE DEF Objects
<1> QED BY <1>2, <1>3, <1>4 DEF Moves

\* A change places the object where SoundParent lets it, or leaves it.
LEMMA ChangeMoves ==
  ASSUME Readable, NEW kind \in Groups, NEW id \in DOMAIN Objects(model, kind),
         NEW args, NEW name, NEW parent,
         SoundParent(Objects(model, kind), id, args),
         parent = Arg(args, "parent", IF "clear_parent" \in DOMAIN args THEN Nobody
                                      ELSE Objects(model, kind)[id].parent),
         name = Nobody => "name" \in DOMAIN args /\ args.name = Nobody,
         args \in Changes(kind) \/ name # Nobody,
         NEW fields, "name" \in DOMAIN fields, kind \in DOMAIN fields,
         fields["name"] = name, fields[kind] = parent,
         NEW e, e = Element(kind, id, "none", Given(fields))
  PROVE  SoundElement(e) /\ e.kind = kind /\ Moves(kind, e)
<1> DEFINE objects == Objects(model, kind)
<1>1. id # Nobody
  <2>1. SoundIndex(index) /\ model = BuildModel(index)
    BY DEF Readable
  <2>2. Nobody \notin DOMAIN Objects(model, kind)
    BY ONLY <2>1, kind \in Groups, GroupModel
  <2> QED BY <2>2
<1>2. /\ SoundElement(e) /\ e.kind = kind /\ e.id = id /\ e.op = "none"
      /\ Value(e.body, "name", Nobody) = name /\ ParentOf(kind, e.body) = parent
  BY <1>1, GroupElement
<1>3. \/ parent \in {Nobody, objects[id].parent}
      \/ parent \in DOMAIN objects /\ LeadsOut(objects, id, parent)
  <2> HIDE DEF objects
  <2>1. CASE "parent" \in DOMAIN args
    BY <2>1 DEF SoundParent, Arg, objects
  <2>2. CASE "parent" \notin DOMAIN args
    BY <2>2 DEF Arg, objects
  <2> QED BY <2>1, <2>2
<1>4. NamesKept(kind) => NamelessAtRoot(kind, e.body)
  <2> SUFFICES ASSUME NamesKept(kind), name = Nobody PROVE parent = Nobody
    BY <1>2 DEF NamelessAtRoot
  <2>1. "clear_parent" \in DOMAIN args /\ "parent" \notin DOMAIN args
    BY DEF NamesKept
  <2> QED BY <2>1 DEF Arg
<1> HIDE DEF objects
<1> QED BY <1>2, <1>3, <1>4 DEF Moves, objects

LEMMA GroupObjects ==
  ASSUME Readable, NEW kind \in Groups, NEW objects, objects = Objects(model, kind)
  PROVE  /\ \A id : id \in DOMAIN objects <=>
                       id \in DOMAIN index[kind] /\ Value(index[kind][id], "name", Nobody) # Nobody
         /\ IsFiniteSet(DOMAIN objects) /\ Nobody \notin DOMAIN objects
         /\ \A id \in DOMAIN objects :
                /\ objects[id].id = id /\ objects[id].name # Nobody
                /\ objects[id].parent = ParentOf(kind, index[kind][id])
                /\ objects[id] = IF kind = "folder" THEN BuildFolder(id, index[kind][id])
                                 ELSE BuildTag(id, index[kind][id])
<1>1. SoundIndex(index) /\ model = BuildModel(index)
  BY DEF Readable
<1> DEFINE all == Objects(model, kind)
<1>2. /\ \A id : id \in DOMAIN all <=>
                    id \in DOMAIN index[kind] /\ Value(index[kind][id], "name", Nobody) # Nobody
      /\ IsFiniteSet(DOMAIN all) /\ Nobody \notin DOMAIN all
      /\ \A id \in DOMAIN all :
             /\ all[id].id = id
             /\ all[id].name = Value(index[kind][id], "name", Nobody)
             /\ all[id].parent = ParentOf(kind, index[kind][id])
             /\ all[id] = IF kind = "folder" THEN BuildFolder(id, index[kind][id])
                          ELSE BuildTag(id, index[kind][id])
  BY ONLY <1>1, kind \in Groups, GroupModel
<1> HIDE DEF all
<1> QED BY <1>2 DEF all

\* An option left empty on the command line is no change.
LEMMA PassedName ==
  ASSUME NEW args, NEW passed, passed = Passed(args, {"name"})
  PROVE  /\ "name" \in DOMAIN passed => passed.name # Nobody
         /\ \A key : key # "name" =>
                /\ key \in DOMAIN passed <=> key \in DOMAIN args
                /\ key \in DOMAIN passed => passed[key] = args[key]
BY DEF Passed, Nobody

LEMMA DeletionMoves ==
  ASSUME Readable, NEW id \in DOMAIN model.folder, NEW e, e = AddFolderDeletion(id)
  PROVE  SoundElement(e) /\ e.kind = "folder" /\ Moves("folder", e)
<1>1. "folder" \in Groups /\ Objects(model, "folder") = model.folder
  BY DEF Groups, Objects
<1>2. id # Nobody
  BY <1>1, GroupObjects
<1>3. e = Element("folder", id, "delete", Empty) /\ DOMAIN Empty = {}
  BY DEF AddFolderDeletion, Empty
<1>4. e.kind = "folder" /\ e.id = id /\ e.op = "delete" /\ e.body = Empty /\ Content(e) = Empty
  BY <1>3 DEF Element, Content
<1>5. SoundElement(e)
  BY <1>2, <1>3, <1>4 DEF SoundElement, SoundGroup, Single, Kinds
<1>6. ParentOf("folder", e.body) = Nobody
  BY <1>3, <1>4 DEF ParentOf, Value
<1> QED BY <1>1, <1>4, <1>5, <1>6 DEF Moves, NamelessAtRoot

\* What the service and the command line do with folders.
LEMMA FoldersAccepted ==
  ASSUME Readable, NEW c,
         \/ FolderRequest(c)
         \/ \E args \in NewFolders : FolderAddCmd(c, args)
         \/ \E id \in DOMAIN model.folder, args \in FolderChanges : FolderUpdateCmd(c, id, args)
         \/ \E id \in DOMAIN model.folder : FolderDropCmd(c, id)
  PROVE  GroupAccepts(c, "folder")
<1>1. /\ "folder" \in Groups /\ Objects(model, "folder") = model.folder /\ Of("folder") = "folder"
      /\ Additions("folder") = NewFolders /\ Changes("folder") = FolderChanges
  BY DEF Groups, Objects, Of, Additions, Changes
<1>2. Ready(c) => now \in 1..MaxRequests
  BY IdAssumption DEF Ready, Readable
<1>3. \A id \in DOMAIN model.folder :
          /\ model.folder[id].id = id /\ model.folder[id].name # Nobody
          /\ model.folder[id] = [field \in {"id", "name", "parent"} |-> model.folder[id][field]]
  <2> DEFINE objects == Objects(model, "folder")
  <2>1. \A id \in DOMAIN objects : /\ objects[id].id = id /\ objects[id].name # Nobody
                                   /\ objects[id] = BuildFolder(id, index.folder[id])
    BY <1>1, GroupObjects
  <2> HIDE DEF objects
  <2>2. \A id \in DOMAIN objects : objects[id] = [field \in {"id", "name", "parent"} |-> objects[id][field]]
    BY <2>1 DEF BuildFolder
  <2> QED BY <1>1, <2>1, <2>2 DEF objects
<1>4. ASSUME NEW args \in NewFolders, AddFolder(c, args) \/ FolderAddCmd(c, args)
      PROVE  GroupAccepts(c, "folder")
  <2>1. /\ Ready(c) /\ CreateFolder(c, args)
        /\ Arg(args, "parent", Nobody) # Nobody => args.parent \in DOMAIN model.folder
    BY <1>4 DEF AddFolder, FolderAddCmd, Arg
  <2> DEFINE fields == [name |-> Arg(args, "name", Nobody), folder |-> Arg(args, "parent", Nobody)]
             e == Element("folder", NewIds[now], "none", Given(fields))
  <2>2. \E id, goal : Accept(c, "folder", id, goal, <<e>>)
    BY <2>1 DEF CreateFolder, AddFolderPlan, BuilderAddFolder, FolderElement
  <2>3. /\ "name" \in DOMAIN fields /\ "folder" \in DOMAIN fields
        /\ fields["name"] = Arg(args, "name", Nobody) /\ fields["folder"] = Arg(args, "parent", Nobody)
    OBVIOUS
  <2> HIDE DEF fields
  <2>4. SoundElement(e) /\ e.kind = "folder" /\ Moves("folder", e)
    BY <1>1, <1>2, <2>1, <2>3, CreationMoves
  <2> HIDE DEF e
  <2> QED BY <1>1, <1>2, <2>1, <2>2, <2>4 DEF GroupAccepts
<1>5. ASSUME NEW id \in DOMAIN model.folder, NEW args \in FolderChanges,
             UpdateFolder(c, id, args) \/ FolderUpdateCmd(c, id, args)
      PROVE  GroupAccepts(c, "folder")
  <2> DEFINE passed == Passed(args, {"name"})
  <2>1. PICK given : /\ given = args \/ given = passed
                     /\ Accept(c, "folder", id, Placed(model.folder[id], given),
                            UpdateFolderPlan(Placed(model.folder[id], given)))
    BY <1>5 DEF UpdateFolder, FolderUpdateCmd
  <2>2. Ready(c) /\ SoundParent(model.folder, id, args)
    BY <1>5 DEF UpdateFolder, FolderUpdateCmd, ValidateFolderParentChange, CliValidateFolderParentChange
  <2>3. /\ "name" \in DOMAIN passed => passed.name # Nobody
        /\ \A key : key # "name" =>
               /\ key \in DOMAIN passed <=> key \in DOMAIN args
               /\ key \in DOMAIN passed => passed[key] = args[key]
    BY PassedName
  <2> HIDE DEF passed
  <2> DEFINE old == model.folder[id]
             name == Arg(given, "name", old.name)
             parent == Arg(args, "parent", IF "clear_parent" \in DOMAIN args THEN Nobody ELSE old.parent)
             u == Placed(old, given)
             fields == [name |-> name, folder |-> parent]
             e == Element("folder", id, "none", Given(fields))
  <2>4. u.id = id /\ u.name = name /\ u.parent = parent
    <3>1. old.id = id /\ old = [field \in {"id", "name", "parent"} |-> old[field]]
      BY <1>3
    <3> HIDE DEF old
    <3>2. u.id = id /\ u.name = name
          /\ u.parent = Arg(given, "parent", IF "clear_parent" \in DOMAIN given THEN Nobody ELSE old.parent)
      BY <3>1 DEF Placed
    <3> QED BY <2>1, <2>3, <3>2 DEF Arg
  <2>5. name = Nobody => "name" \in DOMAIN args /\ args.name = Nobody
    BY <1>3, <2>1, <2>3 DEF Arg
  <2> HIDE DEF name, parent, u
  <2>6. UpdateFolderPlan(u) = <<e>>
    BY <2>4 DEF UpdateFolderPlan, BuilderUpdateFolder, BuilderAddFolder, FolderElement
  <2>7. "name" \in DOMAIN fields /\ "folder" \in DOMAIN fields /\ fields["name"] = name /\ fields["folder"] = parent
    OBVIOUS
  <2> HIDE DEF fields
  <2>8. SoundElement(e) /\ e.kind = "folder" /\ Moves("folder", e)
    <3>1. PICK kind \in Groups : kind = "folder"
      BY <1>1
    <3>2. /\ id \in DOMAIN Objects(model, kind) /\ SoundParent(Objects(model, kind), id, args)
          /\ parent = Arg(args, "parent", IF "clear_parent" \in DOMAIN args THEN Nobody
                                         ELSE Objects(model, kind)[id].parent)
          /\ args \in Changes(kind) /\ "name" \in DOMAIN fields /\ kind \in DOMAIN fields
          /\ fields["name"] = name /\ fields[kind] = parent /\ e = Element(kind, id, "none", Given(fields))
      BY <1>1, <2>2, <2>7, <3>1 DEF parent
    <3>3. args \in Changes(kind) \/ name # Nobody
      BY <3>2
    <3>4. SoundElement(e) /\ e.kind = kind /\ Moves(kind, e)
      <4> HIDE DEF e
      <4> QED BY ONLY Readable, kind \in Groups, <2>5, <3>2, <3>3, ChangeMoves, Z3
    <3> QED BY <3>1, <3>4
  <2>9. Accept(c, "folder", id, u, <<e>>)
    BY <2>1, <2>6 DEF u
  <2> HIDE DEF e
  <2> QED BY <1>1, <1>2, <2>2, <2>8, <2>9 DEF GroupAccepts
<1>6. ASSUME NEW id \in DOMAIN model.folder, DropFolder(c, id) PROVE GroupAccepts(c, "folder")
  <2> DEFINE e == AddFolderDeletion(id)
  <2>1. model.folder[id].id = id
    BY <1>3
  <2>2. Ready(c) /\ Accept(c, "folder", id, Empty, <<e>>)
    BY <1>6, <2>1 DEF DropFolder, DropFolderPlan
  <2>3. SoundElement(e) /\ e.kind = "folder" /\ Moves("folder", e)
    BY DeletionMoves
  <2> HIDE DEF e
  <2> QED BY <1>1, <1>2, <2>2, <2>3 DEF GroupAccepts
<1> QED BY <1>4, <1>5, <1>6 DEF FolderRequest, FolderDropCmd

\* What the service and the command line do with tags.
LEMMA TagsAccepted ==
  ASSUME Readable, NEW c,
         \/ TagRequest(c)
         \/ \E args \in NewTags : TagAddCmd(c, args)
         \/ \E id \in DOMAIN model.tag, args \in TagChanges : TagUpdateCmd(c, id, args)
         \/ \E id \in DOMAIN model.tag : TagDropCmd(c, id)
  PROVE  GroupAccepts(c, "context")
<1>1. /\ "context" \in Groups /\ Objects(model, "context") = model.tag /\ Of("context") = "tag"
      /\ Additions("context") = NewTags /\ Changes("context") = TagChanges
  BY DEF Groups, Objects, Of, Additions, Changes
<1>2. Ready(c) => now \in 1..MaxRequests
  BY IdAssumption DEF Ready, Readable
<1>3. \A id \in DOMAIN model.tag :
          /\ model.tag[id].id = id /\ model.tag[id].name # Nobody
          /\ model.tag[id] = [field \in TagFields |-> model.tag[id][field]]
  <2> DEFINE objects == Objects(model, "context")
  <2>1. \A id \in DOMAIN objects : /\ objects[id].id = id /\ objects[id].name # Nobody
                                   /\ objects[id] = BuildTag(id, index.context[id])
    BY <1>1, GroupObjects
  <2> HIDE DEF objects
  <2>2. \A id \in DOMAIN objects : objects[id] = [field \in TagFields |-> objects[id][field]]
    BY <2>1 DEF BuildTag, TagFields
  <2> QED BY <1>1, <2>1, <2>2 DEF objects
<1>4. ASSUME NEW args \in NewTags, AddTag(c, args) \/ TagAddCmd(c, args)
      PROVE  GroupAccepts(c, "context")
  <2>1. /\ Ready(c) /\ CreateTag(c, args)
        /\ Arg(args, "parent", Nobody) # Nobody => args.parent \in DOMAIN model.tag
    BY <1>4 DEF AddTag, TagAddCmd, Arg
  <2> DEFINE fields == [name |-> Arg(args, "name", Nobody), note |-> Arg(args, "note", Nobody),
                        context |-> Arg(args, "parent", Nobody), hidden |-> Never]
             e == Element("context", NewIds[now], "none", Given(fields))
  <2>2. \E id, goal : Accept(c, "tag", id, goal, <<e>>)
    BY <2>1 DEF CreateTag, AddTagPlan, BuilderAddTag, TagElement
  <2>3. /\ "name" \in DOMAIN fields /\ "context" \in DOMAIN fields
        /\ fields["name"] = Arg(args, "name", Nobody) /\ fields["context"] = Arg(args, "parent", Nobody)
    OBVIOUS
  <2> HIDE DEF fields
  <2>4. SoundElement(e) /\ e.kind = "context" /\ Moves("context", e)
    BY <1>1, <1>2, <2>1, <2>3, CreationMoves
  <2> HIDE DEF e
  <2> QED BY <1>1, <1>2, <2>1, <2>2, <2>4 DEF GroupAccepts
<1>5. ASSUME NEW id \in DOMAIN model.tag, NEW args, NEW name, NEW parent, NEW w, NEW goal,
             SoundParent(model.tag, id, args),
             parent = Arg(args, "parent", IF "clear_parent" \in DOMAIN args THEN Nobody
                                          ELSE model.tag[id].parent),
             name = Nobody => "name" \in DOMAIN args /\ args.name = Nobody,
             args \in TagChanges \/ name # Nobody,
             w.id = id, w.name = name, w.parent = parent,
             Ready(c), Accept(c, "tag", id, goal, UpdateTagPlan(w))
      PROVE  GroupAccepts(c, "context")
  <2> DEFINE fields == [name |-> name, note |-> w.note, context |-> parent, hidden |-> w.hidden]
             e == Element("context", id, "none", Given(fields))
  <2>1. UpdateTagPlan(w) = <<e>>
    BY <1>5 DEF UpdateTagPlan, BuilderUpdateTag, BuilderAddTag, TagElement
  <2>2. "name" \in DOMAIN fields /\ "context" \in DOMAIN fields /\ fields["name"] = name /\ fields["context"] = parent
    OBVIOUS
  <2> HIDE DEF fields
  <2>3. SoundElement(e) /\ e.kind = "context" /\ Moves("context", e)
    <3>1. PICK kind \in Groups : kind = "context"
      BY <1>1
    <3>2. /\ id \in DOMAIN Objects(model, kind) /\ SoundParent(Objects(model, kind), id, args)
          /\ parent = Arg(args, "parent", IF "clear_parent" \in DOMAIN args THEN Nobody
                                         ELSE Objects(model, kind)[id].parent)
          /\ (args \in Changes(kind) \/ name # Nobody) /\ "name" \in DOMAIN fields /\ kind \in DOMAIN fields
          /\ fields["name"] = name /\ fields[kind] = parent /\ e = Element(kind, id, "none", Given(fields))
      BY <1>1, <1>5, <2>2, <3>1
    <3>3. name = Nobody => "name" \in DOMAIN args /\ args.name = Nobody
      BY <1>5
    <3>4. SoundElement(e) /\ e.kind = kind /\ Moves(kind, e)
      <4>1. args \in Changes(kind) \/ name # Nobody
        BY <3>2
      <4> HIDE DEF e
      <4> QED BY ONLY Readable, kind \in Groups, <3>2, <3>3, <4>1, ChangeMoves, Z3
    <3> QED BY <3>1, <3>4
  <2> HIDE DEF e
  <2> QED BY <1>1, <1>2, <1>5, <2>1, <2>3 DEF GroupAccepts
<1>6. ASSUME NEW id \in DOMAIN model.tag, NEW args \in TagChanges,
             UpdateTag(c, id, args) \/ TagUpdateCmd(c, id, args)
      PROVE  GroupAccepts(c, "context")
  <2> DEFINE passed == Passed(args, {"name"})
             old == model.tag[id]
             parent == Arg(args, "parent", IF "clear_parent" \in DOMAIN args THEN Nobody ELSE old.parent)
             Updated(given) == [Placed(old, given) EXCEPT !.note = Arg(args, "note", @)]
  <2>1. PICK given : /\ given = args \/ given = passed
                     /\ Accept(c, "tag", id, Updated(given), UpdateTagPlan(Updated(given)))
    BY <1>6 DEF UpdateTag, TagUpdateCmd
  <2>2. Ready(c) /\ SoundParent(model.tag, id, args)
    BY <1>6 DEF UpdateTag, TagUpdateCmd, ValidateTagParentChange, CliValidateTagParentChange
  <2>3. /\ "name" \in DOMAIN passed => passed.name # Nobody
        /\ \A key : key # "name" =>
               /\ key \in DOMAIN passed <=> key \in DOMAIN args
               /\ key \in DOMAIN passed => passed[key] = args[key]
    BY PassedName
  <2> HIDE DEF passed
  <2> DEFINE name == Arg(given, "name", old.name)
             w == Updated(given)
  <2>4. w.id = id /\ w.name = name /\ w.parent = parent
    <3>1. old.id = id /\ old = [field \in TagFields |-> old[field]]
      BY <1>3
    <3> HIDE DEF old
    <3>2. w.id = id /\ w.name = name
          /\ w.parent = Arg(given, "parent", IF "clear_parent" \in DOMAIN given THEN Nobody ELSE old.parent)
      BY <3>1 DEF Placed, TagFields
    <3> QED BY <2>1, <2>3, <3>2 DEF Arg
  <2>5. name = Nobody => "name" \in DOMAIN args /\ args.name = Nobody
    BY <1>3, <2>1, <2>3 DEF Arg
  <2>6. parent = Arg(args, "parent", IF "clear_parent" \in DOMAIN args THEN Nobody ELSE model.tag[id].parent)
    OBVIOUS
  <2>7. Accept(c, "tag", id, w, UpdateTagPlan(w))
    BY <2>1
  <2> HIDE DEF name, parent, w
  <2> QED BY <1>5, <2>2, <2>4, <2>5, <2>6, <2>7
<1>7. ASSUME NEW id \in DOMAIN model.tag, DropTag(c, id) PROVE GroupAccepts(c, "context")
  <2> DEFINE old == model.tag[id]
             w == [old EXCEPT !.hidden = now]
             args == [none \in {} |-> Nobody]
  <2>1. Ready(c) /\ Accept(c, "tag", id, w, UpdateTagPlan(w))
    BY <1>7 DEF DropTag, DropTagPlan
  <2>2. old.id = id /\ old.name # Nobody /\ old = [field \in TagFields |-> old[field]]
    BY <1>3
  <2> DEFINE name == old.name
             parent == old.parent
  <2>3. w.id = id /\ w.name = name /\ w.parent = parent
    <3> HIDE DEF old
    <3> QED BY <2>2 DEF TagFields
  <2>4. DOMAIN args = {}
    OBVIOUS
  <2> HIDE DEF args
  <2>5. SoundParent(model.tag, id, args)
    BY <2>4 DEF SoundParent, Arg
  <2>6. parent = Arg(args, "parent", IF "clear_parent" \in DOMAIN args THEN Nobody ELSE model.tag[id].parent)
    BY <2>4 DEF Arg
  <2> HIDE DEF name, parent, w
  <2>7. name # Nobody
    BY <2>2 DEF name
  <2> QED BY <1>5, <2>1, <2>3, <2>5, <2>6, <2>7
<1> QED BY <1>4, <1>6, <1>7 DEF TagRequest, TagDropCmd

-----------------------------------------------------------------------------
(* The inductive invariant: the index, all that is yet to be published and *)
(* all that may yet be read anew are sound, and a task of which only the   *)
(* skeleton is there has no name.                                          *)

Operations == {"task", "project", "folder", "tag"}

CallFields == {"plan", "of", "id", "goal", "chain", "fresh"}

\* What adds a task begins with its skeleton.
Chain(of, chain, plan) ==
    /\ chain \in BOOLEAN
    /\ Len(plan) > 1 => chain
    /\ chain => KindOf(of) = "task"
    /\ (chain /\ plan # Empty /\ plan[1].op = "none") => Skeleton(plan[1])

SoundCall(k) ==
    /\ k = [field \in CallFields |-> k[field]]
    /\ k.of \in Operations /\ k.fresh \in BOOLEAN
    /\ SoundPlan(k.of, k.plan)
    /\ Chain(k.of, k.chain, k.plan)

SoundCalls == call = [c \in Callers |-> call[c]] /\ \A c \in Callers : SoundCall(call[c])

SoundLog == \A id \in DOMAIN log : SoundEntries(id, log[id])

HalfNameless == \A id \in Half \intersect DOMAIN index.task : Value(index.task[id], "name", Nobody) = Nobody

Inv ==
    /\ Readable
    /\ SoundCalls
    /\ edits \in 0..MaxEdits
    /\ forked \in BOOLEAN
    /\ SoundLog /\ HalfNameless
    /\ tainted \subseteq Operations

LEMMA EmptyPlan == ASSUME NEW of PROVE SoundPlan(of, Empty)
<1>1. Empty \in Seq({}) /\ Len(Empty) = 0
  BY EmptySeq DEF Empty
<1>2. IsSequence(Empty)
  BY <1>1, SeqOfRange DEF IsSequence
<1> HIDE DEF KindOf
<1> QED BY <1>1, <1>2 DEF SoundPlan

LEMMA IdleIsSound == SoundCall(Idle)
<1>1. /\ Idle = [field \in CallFields |-> Idle[field]]
      /\ Idle.of \in Operations /\ Idle.fresh \in BOOLEAN /\ Idle.plan = Empty /\ Idle.chain = FALSE
  BY DEF Idle, Operations, CallFields
<1>2. Len(Empty) = 0
  BY EmptySeq DEF Empty
<1> HIDE DEF Idle
<1>3. Chain(Idle.of, Idle.chain, Idle.plan)
  <2>1. PICK plan, n : plan = Idle.plan /\ n = Len(plan)
    OBVIOUS
  <2>2. n = 0 /\ ~(n > 1)
    BY <1>1, <1>2, <2>1
  <2>3. ~(Len(plan) > 1)
    BY <2>1, <2>2
  <2> QED BY <1>1, <2>1, <2>3, Zenon DEF Chain
<1> QED BY <1>1, <1>3, EmptyPlan DEF SoundCall

LEMMA InitInv == Init => Inv
<1> SUFFICES ASSUME Init PROVE Inv
  OBVIOUS
<1>1. Readable
  BY BaselineAssumption, IdAssumption DEF Init, Readable
<1>2. SoundCalls
  <2>1. call = [c \in Callers |-> Idle]
    BY DEF Init
  <2> HIDE DEF Idle
  <2> QED BY <2>1, IdleIsSound DEF SoundCalls
<1>3. edits \in 0..MaxEdits /\ forked = FALSE /\ tainted = {}
  BY IdAssumption DEF Init
<1>4. DOMAIN log = {}
  BY DEF Init, Empty
<1> QED BY <1>1, <1>2, <1>3, <1>4 DEF Inv, SoundLog, HalfNameless, Half

LEMMA AcceptInv ==
  ASSUME Inv, NEW c \in Callers, NEW of \in Operations, Accepts(c, of)
  PROVE  Inv'
<1>1. PICK id, goal, plan : Accept(c, of, id, goal, plan) /\ SoundPlan(of, plan)
  BY DEF Accepts
<1> DEFINE k == [plan |-> plan, of |-> of, id |-> id, goal |-> goal, chain |-> Len(plan) > 1, fresh |-> TRUE]
<1>2. call' = [call EXCEPT ![c] = k] /\ now' = now + 1 /\ UNCHANGED <<index, model, edits, log, forked, tainted>>
  BY <1>1 DEF Accept
<1>3. SoundCall(k)
  <2>1. Len(plan) \in Nat
    BY <1>1 DEF SoundPlan, IsSequence
  <2>2. ~(Len(plan) <= 1) => KindOf(of) = "task"
    BY <1>1 DEF SoundPlan
  <2>3. Chain(of, Len(plan) > 1, plan)
    BY <1>1, <2>1, <2>2 DEF Chain, SoundPlan
  <2> QED BY <1>1, <2>3 DEF SoundCall, CallFields
<1> HIDE DEF k
<1>4. SoundCalls'
  BY <1>2, <1>3 DEF Inv, SoundCalls
<1>5. Readable'
  BY <1>2, IdAssumption DEF Inv, Readable, Accepts
<1> QED BY <1>2, <1>4, <1>5 DEF Inv, SoundLog, HalfNameless, Half

\* The next delta of an addition is its skeleton or no whole object.
LEMMA BeginsWithSkeleton ==
  ASSUME Inv, NEW e, NEW caller, Begins(e, caller),
         caller \in Callers => call[caller].plan # Empty /\ e = Head(call[caller].plan)
  PROVE  Skeleton(e) /\ ~Updates(e)
<1>1. caller \in Callers /\ call[caller].chain /\ e.op = "none"
  BY DEF Begins, Entry
<1>2. PICK k : k = call[caller]
  OBVIOUS
<1>3. SoundCall(k) /\ k.plan # Empty /\ e = Head(k.plan) /\ k.chain
  BY <1>1, <1>2 DEF Inv, SoundCalls
<1>4. e = k.plan[1]
  BY <1>3, RestOfPlan DEF SoundCall
<1> QED BY <1>1, <1>3, <1>4 DEF SoundCall, Chain, Updates

\* What a delta makes of the log: it adds to the deltas of one task.
LEMMA LogEffect ==
  ASSUME Inv, NEW e, SoundElement(e), NEW caller, Uploaded(e, caller),
         caller \in Callers => call[caller].plan # Empty /\ e = Head(call[caller].plan)
  PROVE  /\ SoundLog'
         /\ e.kind # "task" => log' = log /\ index' = IndexElement(index, e)
         /\ \A id \in DOMAIN log' \ {e.id} : id \in DOMAIN log /\ log'[id] = log[id]
         /\ (e.kind = "task" /\ e.id \in Half') => Begins(e, caller) /\ index' = IndexElement(index, e)
<1> DEFINE entry == Entry(e, caller)
<1>1. entry.element = e
  BY DEF Entry
<1>2. Begins(e, caller) => e.kind = "task"
  BY BeginsWithSkeleton DEF Skeleton
<1>3. e.kind = "task" => SoundEntry(e.id, entry)
  BY <1>1 DEF SoundEntry
<1>4. ASSUME NEW entries, log' = LogWith(e.id, entries), SoundEntries(e.id, entries)
      PROVE  /\ SoundLog' /\ log'[e.id] = entries
             /\ \A id \in DOMAIN log' \ {e.id} : id \in DOMAIN log /\ log'[id] = log[id]
  <2>1. /\ DOMAIN log' = DOMAIN log \union {e.id} /\ log'[e.id] = entries
        /\ \A id \in DOMAIN log' \ {e.id} : id \in DOMAIN log /\ log'[id] = log[id]
    BY <1>4 DEF LogWith
  <2>2. ASSUME NEW id \in DOMAIN log' PROVE SoundEntries(id, log'[id])
    BY <1>4, <2>1, <2>2 DEF Inv, SoundLog
  <2>3. SoundLog'
    BY <2>2 DEF SoundLog, SoundEntries, SoundEntry
  <2> QED BY <2>1, <2>3
<1>5. e.id \in DOMAIN log => SoundEntries(e.id, log[e.id])
  BY DEF Inv, SoundLog
<1> HIDE DEF entry
<1>6. CASE AppliedLast(e, caller)
  <2>1. index' = IndexElement(index, e) /\ log' = Logged(e, caller)
    BY <1>6 DEF AppliedLast
  <2>2. CASE Begins(e, caller)
    <3>1. log' = LogWith(e.id, <<entry>>)
      BY <2>1, <2>2 DEF Logged, entry
    <3>2. SoundEntries(e.id, <<entry>>)
      <4>1. PICK entries, S : entries = <<entry>> /\ S = {entry}
        OBVIOUS
      <4>2. entries \in Seq(S) /\ Len(entries) # 0
        BY <4>1
      <4>3. \A s \in S : SoundEntry(e.id, s)
        BY <1>2, <1>3, <2>2, <4>1
      <4> QED BY <4>1, <4>2, <4>3 DEF SoundEntries
    <3> QED BY <1>2, <1>4, <2>1, <2>2, <3>1, <3>2
  <2>3. CASE ~Begins(e, caller) /\ e.kind = "task" /\ e.id \in DOMAIN log
    <3>1. PICK entries : entries = Append(log[e.id], entry) /\ log' = LogWith(e.id, entries)
      BY <2>1, <2>3 DEF Logged, entry
    <3>2. PICK S : /\ log[e.id] \in Seq(S) /\ Len(log[e.id]) # 0
                   /\ \A s \in S : SoundEntry(e.id, s)
      BY <1>5, <2>3 DEF SoundEntries
    <3>3. PICK U : U = S \union {entry}
      OBVIOUS
    <3>4. entries \in Seq(U) /\ Len(entries) = Len(log[e.id]) + 1 /\ Len(log[e.id]) \in Nat
      <4>1. log[e.id] \in Seq(U) /\ entry \in U
        BY <3>2, <3>3
      <4> QED BY <3>1, <4>1
    <3>5. SoundEntries(e.id, entries)
      BY <1>3, <2>3, <3>2, <3>3, <3>4 DEF SoundEntries
    <3>6. log'[e.id] = entries
      BY <1>4, <3>1, <3>5
    <3>7. Len(entries) # 1
      BY <3>2, <3>4
    <3>8. e.id \notin Half'
      <4> SUFFICES ASSUME e.id \in Half' PROVE FALSE
        OBVIOUS
      <4>1. Len(log'[e.id]) = 1
        BY DEF Half
      <4> QED BY <3>6, <3>7, <4>1
    <3> QED BY <1>4, <2>3, <3>1, <3>5, <3>8
  <2>4. CASE ~Begins(e, caller) /\ ~(e.kind = "task" /\ e.id \in DOMAIN log)
    <3>1. log' = log
      BY <2>1, <2>4 DEF Logged
    <3>2. SoundLog'
      BY <3>1 DEF Inv, SoundLog
    <3> QED BY <2>1, <2>4, <3>1, <3>2 DEF Half
  <2> QED BY <2>2, <2>3, <2>4
<1>7. CASE AppliedEarlier(e, caller)
  <2>0. PICK i \in EarlierPlaces(log[e.id], entry) :
            log' = LogWith(e.id, InsertAt(log[e.id], i, entry))
    BY <1>7 DEF AppliedEarlier, entry
  <2>1. PICK entries : entries = InsertAt(log[e.id], i, entry) /\ log' = LogWith(e.id, entries)
    BY <2>0
  <2>2. ~Begins(e, caller) /\ e.kind = "task" /\ e.id \in DOMAIN log
    BY <1>7 DEF AppliedEarlier
  <2>3. PICK S : /\ log[e.id] \in Seq(S) /\ Len(log[e.id]) # 0
                 /\ \A s \in S : SoundEntry(e.id, s)
    BY <1>5, <2>2 DEF SoundEntries
  <2>4. PICK U : U = S \union {entry}
    OBVIOUS
  <2>5. entries \in Seq(U) /\ Len(entries) = Len(log[e.id]) + 1 /\ Len(log[e.id]) \in Nat
    <3>1. log[e.id] \in Seq(U) /\ entry \in U /\ Len(log[e.id]) \in Nat
      BY <2>3, <2>4
    <3>2. i \in 1..Len(log[e.id])
      BY <3>1 DEF EarlierPlaces
    <3> QED BY <2>1, <3>1, <3>2, InsertEffect
  <2>6. SoundEntries(e.id, entries)
    BY <1>3, <2>2, <2>3, <2>4, <2>5 DEF SoundEntries
  <2>7. e.id \notin Half'
    <3> SUFFICES ASSUME e.id \in Half' PROVE FALSE
      OBVIOUS
    <3>1. log'[e.id] = entries /\ Len(entries) # 1
      BY <1>4, <2>1, <2>3, <2>5, <2>6
    <3>2. Len(log'[e.id]) = 1
      BY DEF Half
    <3> QED BY <3>1, <3>2
  <2> QED BY <1>4, <2>1, <2>2, <2>6, <2>7
<1> QED BY <1>6, <1>7 DEF Uploaded

\* And what it makes of the index: another entry for one object.
LEMMA UploadedEffect ==
  ASSUME Inv, NEW e, SoundElement(e), NEW caller, Uploaded(e, caller),
         caller \in Callers => call[caller].plan # Empty /\ e = Head(call[caller].plan),
         NEW x, x = index, NEW y, y = index'
  PROVE  SoundIndex(x) /\ SoundIndex(y) /\ Beside(x, y, e.kind, e.id)
<1>1. SoundIndex(x)
  BY DEF Inv, Readable
<1>2. CASE AppliedLast(e, caller)
  BY <1>1, <1>2, IndexStaysSound, BesideOneElement DEF AppliedLast
<1>3. CASE AppliedEarlier(e, caller)
  <2>1. PICK entries : /\ log' = LogWith(e.id, entries)
                       /\ y = Reread(x, e.id, log'[e.id]) /\ e.kind = "task"
    BY <1>3 DEF AppliedEarlier
  <2>2. e.id \in DOMAIN log'
    BY <2>1 DEF LogWith
  <2>3. PICK seen : seen = log'[e.id]
    OBVIOUS
  <2>4. SoundEntries(e.id, seen)
    BY <2>2, <2>3, LogEffect DEF SoundLog, SoundEntries, SoundEntry
  <2> QED BY <1>1, <2>1, <2>3, <2>4, RereadEffect
<1> QED BY <1>2, <1>3 DEF Uploaded

\* Whoever uploads a sound element leaves everything sound.
LEMMA UploadInv ==
  ASSUME Inv, NEW e, SoundElement(e), NEW caller, UNCHANGED now, Uploaded(e, caller),
         caller \in Callers => call[caller].plan # Empty /\ e = Head(call[caller].plan)
  PROVE  Readable' /\ SoundCalls' /\ (forked \in BOOLEAN)' /\ SoundLog' /\ HalfNameless'
<1>1. Readable'
  <2>1. PICK x, y : x = index /\ y = index'
    OBVIOUS
  <2>2. SoundIndex(y)
    BY <2>1, UploadedEffect
  <2> QED BY <2>1, <2>2 DEF Inv, Readable, Uploaded, SoundIndex
<1>2. ASSUME NEW d \in Callers
      PROVE  \/ call'[d] = Idle
             \/ d = caller /\ call'[d] = [call[d] EXCEPT !.plan = Tail(@)]
             \/ call'[d] = [call[d] EXCEPT !.fresh = FALSE]
             \/ call'[d] = call[d]
  BY DEF Uploaded, Remaining
<1>3. call' = [d \in Callers |-> call'[d]]
  BY DEF Uploaded, Remaining
<1>4. ASSUME NEW d \in Callers PROVE SoundCall(call'[d])
  <2> DEFINE k == call[d]
  <2>1. SoundCall(k)
    BY DEF Inv, SoundCalls
  <2> HIDE DEF k
  <2>2. CASE call'[d] = Idle
    BY <2>2, IdleIsSound
  <2>3. CASE d = caller /\ call'[d] = [k EXCEPT !.plan = Tail(@)]
    <3>1. SoundPlan(k.of, Tail(k.plan))
      BY <2>1, <2>3, RestOfPlan DEF SoundCall, k
    <3> DEFINE j == [k EXCEPT !.plan = Tail(@)]
    <3>2. /\ j = [field \in CallFields |-> j[field]]
          /\ j.of = k.of /\ j.chain = k.chain /\ j.fresh = k.fresh /\ j.plan = Tail(k.plan)
      BY <2>1 DEF SoundCall, CallFields
    <3> HIDE DEF j
    <3>3. Chain(k.of, k.chain, Tail(k.plan))
      <4>1. PICK plan, n : plan = k.plan /\ n = Len(plan)
        OBVIOUS
      <4>2. plan # Empty
        BY <2>3, <4>1 DEF k
      <4>3. SoundPlan(k.of, plan) /\ Chain(k.of, k.chain, plan)
        BY <2>1, <4>1 DEF SoundCall
      <4>4. /\ n \in Nat /\ n # 0 /\ Len(Tail(plan)) = n - 1
            /\ \A i \in 1..(n - 1) : Tail(plan)[i] = plan[i + 1]
        <5>1. plan \in Seq(Range(plan)) /\ Len(plan) \in Nat /\ Len(plan) # 0
          BY <4>2, <4>3 DEF SoundPlan, IsSequence, Empty
        <5> QED BY <4>1, <5>1 DEF Empty
      <4>5. Tail(plan) = Empty <=> n = 1
        BY <4>1, <4>2, <4>3, RestOfPlan
      <4>6. n > 1 => Tail(plan)[1].op # "none" /\ k.chain
        <5> SUFFICES ASSUME n > 1 PROVE Tail(plan)[1].op # "none" /\ k.chain
          OBVIOUS
        <5>1. 1 \in 1..(n - 1) /\ 2 \in 2..n /\ 1 + 1 = 2
          BY <4>4
        <5>2. plan[2].op # "none"
          BY <4>1, <4>3, <5>1 DEF SoundPlan
        <5>3. Tail(plan)[1] = plan[2]
          BY <4>4, <5>1
        <5>4. k.chain
          <6>1. Len(plan) > 1
            BY <4>1
          <6> QED BY <4>3, <6>1, Zenon DEF Chain
        <5> QED BY <5>2, <5>3, <5>4
      <4>7. Len(Tail(plan)) > 1 => n > 1
        BY <4>4
      <4>8. Tail(plan) # Empty => n > 1
        BY <4>4, <4>5
      <4> QED BY <4>1, <4>3, <4>6, <4>7, <4>8 DEF Chain
    <3>4. SoundCall(j)
      BY <2>1, <3>1, <3>2, <3>3 DEF SoundCall
    <3> QED BY <2>3, <3>4 DEF j
  <2>4. CASE call'[d] = [k EXCEPT !.fresh = FALSE]
    <3> DEFINE j == [k EXCEPT !.fresh = FALSE]
    <3>1. /\ j = [field \in CallFields |-> j[field]]
          /\ j.of = k.of /\ j.chain = k.chain /\ j.fresh = FALSE /\ j.plan = k.plan
      BY <2>1 DEF SoundCall, CallFields
    <3> HIDE DEF j
    <3>2. SoundCall(j)
      BY <2>1, <3>1 DEF SoundCall
    <3> QED BY <2>4, <3>2 DEF j
  <2>5. CASE call'[d] = k
    BY <2>1, <2>5
  <2> QED BY <1>2, <2>2, <2>3, <2>4, <2>5 DEF k
<1>5. ASSUME NEW id \in Half', id \in DOMAIN index'.task
      PROVE  Value(index'.task[id], "name", Nobody) = Nobody
  <2>1. PICK x, y : x = index /\ y = index'
    OBVIOUS
  <2>2. Beside(x, y, e.kind, e.id) /\ e.kind \in Kinds
    BY <2>1, UploadedEffect DEF SoundElement
  <2>3. id \in DOMAIN log' /\ Len(log'[id]) = 1
    BY <1>5 DEF Half
  <2>4. CASE e.kind = "task" /\ id = e.id
    <3>1. Begins(e, caller) /\ y = IndexElement(x, e)
      BY <1>5, <2>1, <2>4, LogEffect
    <3>2. Skeleton(e) /\ ~Updates(e)
      BY <3>1, BeginsWithSkeleton
    <3>3. x = [kind \in Kinds |-> x[kind]]
      BY <2>1 DEF Inv, Readable, SoundIndex
    <3>4. y[e.kind][e.id] = Written(x, e)
      BY <2>2, <3>1, <3>2, <3>3, IndexEffect DEF Skeleton
    <3>5. Written(x, e) = e.body
      BY <3>2 DEF Written, Content, Updates
    <3> QED BY <2>1, <2>4, <3>2, <3>4, <3>5 DEF Skeleton
  <2>5. CASE ~(e.kind = "task" /\ id = e.id)
    <3>1. id \in DOMAIN log /\ log'[id] = log[id]
      BY <2>3, <2>5, LogEffect
    <3>2. id \in Half
      BY <2>3, <3>1 DEF Half
    <3>3. id \in DOMAIN x.task /\ y.task[id] = x.task[id]
      BY <1>5, <2>1, <2>2, <2>5 DEF Beside, Kinds
    <3> QED BY <2>1, <3>2, <3>3 DEF Inv, HalfNameless
  <2> QED BY <2>4, <2>5
<1>6. HalfNameless'
  BY <1>5 DEF HalfNameless
<1>7. SoundLog' /\ (forked \in BOOLEAN)'
  BY LogEffect DEF Uploaded, Forks, Inv
<1> QED BY <1>1, <1>3, <1>4, <1>6, <1>7 DEF SoundCalls

LEMMA PublishInv ==
  ASSUME Inv, NEW c \in Callers, Publish(c)
  PROVE  Inv'
<1> DEFINE plan == call[c].plan
           e == Head(plan)
<1>1. plan # Empty /\ Uploaded(e, c) /\ UNCHANGED <<now, edits>>
      /\ tainted' \subseteq tainted \union {call[c].of}
  BY DEF Publish
<1>2. SoundCall(call[c]) /\ SoundPlan(call[c].of, plan)
  BY DEF Inv, SoundCalls, SoundCall
<1>3. Len(plan) \in Nat \ {0} /\ e = plan[1]
  BY <1>1, <1>2, RestOfPlan
<1>4. SoundElement(e)
  BY <1>2, <1>3 DEF SoundPlan
<1> HIDE DEF plan, e
<1>5. Readable' /\ SoundCalls' /\ (forked \in BOOLEAN)' /\ SoundLog' /\ HalfNameless'
  BY <1>1, <1>4, UploadInv DEF plan, e
<1>6. tainted' \subseteq Operations
  BY <1>1, <1>2 DEF Inv, SoundCall
<1> QED BY <1>1, <1>5, <1>6 DEF Inv

LEMMA AppEditInv ==
  ASSUME Inv, NEW e \in AppElements, AppEdit(e)
  PROVE  Inv'
<1>1. /\ edits < MaxEdits /\ edits' = edits + 1 /\ Uploaded(e, Nobody)
      /\ UNCHANGED <<now, tainted>>
  BY DEF AppEdit
<1>2. SoundElement(e)
  BY AppAssumption
<1>3. Readable' /\ SoundCalls' /\ (forked \in BOOLEAN)' /\ SoundLog' /\ HalfNameless'
  BY <1>1, <1>2, UploadInv, CallersAssumption
<1>4. edits' \in 0..MaxEdits
  BY <1>1, IdAssumption DEF Inv
<1> QED BY <1>1, <1>3, <1>4 DEF Inv

LEMMA GroupAcceptsIsAccepts ==
  ASSUME NEW c, NEW kind \in Groups, GroupAccepts(c, kind)
  PROVE  Accepts(c, Of(kind))
<1>1. PICK id, goal, e : /\ Accept(c, Of(kind), id, goal, <<e>>)
                         /\ SoundElement(e) /\ e.kind = kind /\ Moves(kind, e)
  BY DEF GroupAccepts
<1>2. e.kind = KindOf(Of(kind)) /\ e.op \in {"none", "delete"}
  BY <1>1 DEF KindOf, Of, Groups, Moves
<1>3. SoundPlan(Of(kind), <<e>>) /\ <<e>> # Empty
  BY <1>1, <1>2, SinglePlan
<1> QED BY <1>1, <1>3 DEF Accepts, GroupAccepts

\* Every request and command is one of the four kinds.
LEMMA RequestAccepted ==
  ASSUME Readable, NEW c, Request(c) \/ Command(c)
  PROVE  \/ Accepts(c, "task") \/ Accepts(c, "project")
         \/ \E kind \in Groups : GroupAccepts(c, kind)
<1>1. CASE \/ TaskRequest(c)
           \/ \E args \in NewTasks : AddCmd(c, args)
           \/ \E id \in DOMAIN model.task : DoneCmd(c, id) \/ TaskDropCmd(c, id)
           \/ \E id \in DOMAIN model.task, args \in TaskChanges : TaskUpdateCmd(c, id, args)
  BY <1>1, TasksAccepted
<1>2. CASE \/ ProjectRequest(c)
           \/ \E args \in NewProjects : ProjectAddCmd(c, args)
           \/ \E id \in DOMAIN model.project, args \in ProjectChanges : ProjectUpdateCmd(c, id, args)
           \/ \E id \in DOMAIN model.project : ProjectDoneCmd(c, id)
  BY <1>2, ProjectsAccepted
<1>3. CASE \/ FolderRequest(c)
           \/ \E args \in NewFolders : FolderAddCmd(c, args)
           \/ \E id \in DOMAIN model.folder, args \in FolderChanges : FolderUpdateCmd(c, id, args)
           \/ \E id \in DOMAIN model.folder : FolderDropCmd(c, id)
  BY <1>3, FoldersAccepted DEF Groups
<1>4. CASE \/ TagRequest(c)
           \/ \E args \in NewTags : TagAddCmd(c, args)
           \/ \E id \in DOMAIN model.tag, args \in TagChanges : TagUpdateCmd(c, id, args)
           \/ \E id \in DOMAIN model.tag : TagDropCmd(c, id)
  BY <1>4, TagsAccepted DEF Groups
<1> QED BY <1>1, <1>2, <1>3, <1>4 DEF Request, Command

LEMMA NextInv == Inv /\ [Next]_vars => Inv'
<1> SUFFICES ASSUME Inv, [Next]_vars PROVE Inv'
  OBVIOUS
<1>1. CASE UNCHANGED vars
  BY <1>1 DEF Inv, vars, Readable, SoundCalls, SoundLog, HalfNameless, Half
<1>2. ASSUME NEW c \in Callers, Request(c) \/ Command(c) PROVE Inv'
  <2>1. Readable
    BY DEF Inv
  <2>2. CASE Accepts(c, "task") \/ Accepts(c, "project")
    BY <2>2, AcceptInv DEF Operations
  <2>3. ASSUME NEW kind \in Groups, GroupAccepts(c, kind) PROVE Inv'
    <3>1. Accepts(c, Of(kind)) /\ Of(kind) \in Operations
      BY <2>3, GroupAcceptsIsAccepts DEF Of, Operations
    <3> QED BY <3>1, AcceptInv
  <2> QED BY <1>2, <2>1, <2>2, <2>3, RequestAccepted
<1>3. ASSUME NEW c \in Callers, Publish(c) PROVE Inv'
  BY <1>3, PublishInv
<1>4. ASSUME NEW c \in Callers, Abandon(c) PROVE Inv'
  <2>1. call' = [call EXCEPT ![c] = Idle] /\ UNCHANGED <<index, model, now, edits, log, forked, tainted>>
    BY <1>4 DEF Abandon
  <2> HIDE DEF Idle
  <2>2. SoundCalls'
    BY <2>1, IdleIsSound DEF Inv, SoundCalls
  <2> QED BY <2>1, <2>2 DEF Inv, Readable, SoundLog, HalfNameless, Half
<1>5. ASSUME NEW e \in AppElements, AppEdit(e) PROVE Inv'
  BY <1>5, AppEditInv
<1> QED BY <1>1, <1>2, <1>3, <1>4, <1>5 DEF Next, Delivery

LEMMA InvHolds == Spec => []Inv
<1> QED BY InitInv, NextInv, PTL DEF Spec

\* The variables keep their types, and the model a reader builds is that of
\* the index at any time (parser.py, build_model).
THEOREM TypeCorrect == Spec => []TypeOK
<1>1. Inv => TypeOK
  BY DEF Inv, TypeOK, Readable, SoundCalls, SoundCall, Operations
<1> QED BY <1>1, InvHolds, PTL

\* No reader sees a task of which only the skeleton is published, for any
\* number of callers that stop at any delta (writer.py:937).
THEOREM HalfAddedIsHidden == Spec => []HalfAddedHidden
<1>1. Inv => HalfAddedHidden
  <2> SUFFICES ASSUME Inv, NEW id \in Half, id \in DOMAIN model.task PROVE FALSE
    BY DEF HalfAddedHidden
  <2>1. /\ model.task[id] = BuildTask(id, index.task[id], model.task[id].project)
        /\ id \in DOMAIN index.task /\ model.task[id].name # Nobody
    BY ModelSound DEF Inv, Readable
  <2>2. model.task[id].name = Value(index.task[id], "name", Nobody)
    BY <2>1 DEF BuildTask
  <2> QED BY <2>1, <2>2 DEF Inv, HalfNameless
<1> QED BY <1>1, InvHolds, PTL

\* A task in the inbox is below nothing, whatever is written over it from
\* models however stale (api_service.py:731).
THEOREM InboxStaysApart == Spec => []InboxApart
<1>1. Inv => InboxApart
  BY ModelSound DEF Inv, Readable, InboxApart, Apart
<1> QED BY <1>1, InvHolds, PTL

\* A done project is dated, whichever transport and whichever writer set the
\* status (writer.py:1426, api_service.py:889).
THEOREM DoneStaysDated == Spec => []DoneIsDated
<1>1. Inv => DoneIsDated
  BY ModelSound DEF Inv, Readable, DoneIsDated, Dated
<1> QED BY <1>1, InvHolds, PTL

-----------------------------------------------------------------------------
(* Partial updates by the app. *)

\* What an update does not name stays.
LEMMA KeptValue ==
  ASSUME NEW old, NEW new, NEW body, body = MergeUpdate(old, new), NEW tag, tag \notin DOMAIN new
  PROVE  (\A default : Value(body, tag, default) = Value(old, tag, default)) /\ Values(body, tag) = Values(old, tag)
<1>1. tag \in DOMAIN body <=> tag \in DOMAIN old
  BY DEF MergeUpdate
<1>2. tag \in DOMAIN old => body[tag] = old[tag]
  BY DEF MergeUpdate
<1> QED BY <1>1, <1>2 DEF Value, Values

\* And what it does not name of a project, as long as it leaves it a project.
LEMMA KeptNested ==
  ASSUME NEW old, NEW new, Single(old, {"project"}), Single(new, {"project"}),
         NEW body, body = MergeUpdate(old, new), IsProject(old), IsProject(body),
         NEW tag, tag \notin DOMAIN Container(new)
  PROVE  \A default : Value(Container(body), tag, default) = Value(Container(old), tag, default)
<1> DEFINE o == Container(old)
           n == Container(new)
<1>1. "project" \in DOMAIN old /\ o = old["project"][1] /\ old["project"] = <<o>>
  <2>1. DOMAIN Empty = {}
    BY DEF Empty
  <2> QED BY <2>1 DEF IsProject, Value, Single, Container
<1>2. CASE "project" \notin DOMAIN new
  <2>1. \A default : Value(body, "project", default) = Value(old, "project", default)
    BY <1>2, KeptValue
  <2> QED BY <2>1 DEF Container
<1>3. CASE "project" \in DOMAIN new
  <2>1. n = new["project"][1] /\ new["project"] = <<n>>
    BY <1>3 DEF Value, Single, Container
  <2>2. "project" \in DOMAIN body /\ body["project"] = ReplaceLast(old["project"], MergedChild("project", Last(old["project"]), Last(new["project"])))
    BY <1>1, <1>3 DEF MergeUpdate
  <2> HIDE DEF o, n
  <2>3. Last(old["project"]) = o /\ Last(new["project"]) = n
    BY <1>1, <2>1, ReplaceSingle
  <2>4. body["project"] = <<MergedChild("project", o, n)>>
    BY <1>1, <2>2, <2>3, ReplaceSingle
  <2>5. Container(body) = MergedChild("project", o, n)
    BY <2>2, <2>4 DEF Container, Value
  <2>6. DOMAIN Container(body) # {}
    BY DEF IsProject, Container
  <2>7. Container(body) = MergeNested(o, n)
    BY <2>5, <2>6 DEF MergedChild
  <2>8. tag \notin DOMAIN n
    BY DEF n
  <2>9. tag \in DOMAIN Container(body) <=> tag \in DOMAIN o
    BY <2>7, <2>8 DEF MergeNested
  <2>10. tag \in DOMAIN o => Container(body)[tag] = o[tag]
    BY <2>7, <2>8 DEF MergeNested
  <2> QED BY <2>9, <2>10 DEF Value, o
<1> QED BY <1>2, <1>3

\* Of the tags an update names, readers see the last.
LEMMA TakenTags ==
  ASSUME NEW old, NEW new, SoundTask(old), SoundTask(new), "context" \in DOMAIN new,
         NEW body, body = MergeUpdate(old, new), SoundTask(body)
  PROVE  /\ Last(new["context"]) # Nobody => Last(Values(body, "context")) = Last(new["context"])
         /\ Range(Values(body, "context")) \subseteq
                Range(Values(old, "context")) \union Range(Values(new, "context"))
<1>1. PICK tag, s, t : tag = "context" /\ s = body[tag] /\ t = new[tag]
  OBVIOUS
<1>2. /\ tag \in DOMAIN old => IsSequence(old[tag]) /\ old[tag] # Empty
      /\ IsSequence(t) /\ t # Empty /\ tag # "project"
  BY <1>1 DEF SoundTask
<1>3. /\ tag \in DOMAIN body /\ IsSequence(s) /\ s # Empty /\ Last(s) = Last(t)
      /\ Range(s) \subseteq Range(t) \union IF tag \in DOMAIN old THEN Range(old[tag]) ELSE {}
  BY <1>1, <1>2, MergedContext
<1>4. ASSUME NEW v, IsSequence(v)
      PROVE  /\ Range(Filled(v)) = Range(v) \ {Nobody}
             /\ (v # Empty /\ Last(v) # Nobody) => Last(Filled(v)) = Last(v)
  <2>1. PICK S : S = Range(v)
    OBVIOUS
  <2>2. v \in Seq(S)
    BY <1>4, <2>1 DEF IsSequence
  <2> QED BY <2>2, FilledEffect DEF Empty
<1>5. /\ Values(body, tag) = Filled(s) /\ Values(new, tag) = Filled(t)
      /\ tag \in DOMAIN old => Values(old, tag) = Filled(old[tag])
  BY <1>1, <1>3 DEF Values
<1>6. /\ Range(Filled(s)) = Range(s) \ {Nobody} /\ Range(Filled(t)) = Range(t) \ {Nobody}
      /\ tag \in DOMAIN old => Range(Filled(old[tag])) = Range(old[tag]) \ {Nobody}
      /\ Last(t) # Nobody => Last(Filled(s)) = Last(t)
  BY <1>2, <1>3, <1>4
<1>7. Range(Values(body, tag)) \subseteq Range(Values(old, tag)) \union Range(Values(new, tag))
  BY <1>3, <1>5, <1>6
<1> QED BY <1>1, <1>5, <1>6, <1>7

\* A task that stays where it is stays in the project it is in.
LEMMA KeptProject ==
  ASSUME NEW raw, NEW id \in DOMAIN raw, NEW other, DOMAIN other = DOMAIN raw,
         \A i \in DOMAIN raw \ {id} : other[i] = raw[i],
         ~IsProject(raw[id]), ~IsProject(other[id]),
         Value(other[id], "task", Nobody) = Value(raw[id], "task", Nobody),
         NEW up, up = ResolveProject(raw, {i \in DOMAIN raw : IsProject(raw[i])}, id),
         NEW down, down = ResolveProject(other, {i \in DOMAIN other : IsProject(other[i])}, id)
  PROVE  down = up
<1>1. PICK projects : projects = {i \in DOMAIN raw : IsProject(raw[i])}
  OBVIOUS
<1>2. {i \in DOMAIN other : IsProject(other[i])} = projects
  BY <1>1
<1>3. [i \in DOMAIN other \ projects |-> Value(other[i], "task", Nobody)] =
      [i \in DOMAIN raw \ projects |-> Value(raw[i], "task", Nobody)]
  <2>1. \A i \in DOMAIN raw : Value(other[i], "task", Nobody) = Value(raw[i], "task", Nobody)
    OBVIOUS
  <2> QED BY <2>1
<1> QED BY <1>1, <1>2, <1>3 DEF ResolveProject

\* What an update of the app finds, and what it leaves behind.
LEMMA UpdateMerges ==
  ASSUME Inv, NEW e \in AppElements, AppEdit(e), Updates(e), AppliedLast(e, Nobody), NEW old, old = index[e.kind][e.id],
         NEW new, new = Content(e)
  PROVE  /\ SoundIndex(index) /\ model = BuildModel(index) /\ SoundIndex(index') /\ model' = BuildModel(index')
         /\ e.kind \in Kinds /\ e.id \in DOMAIN index[e.kind]
         /\ DOMAIN index'[e.kind] = DOMAIN index[e.kind]
         /\ \A id \in DOMAIN index[e.kind] \ {e.id} : index'[e.kind][id] = index[e.kind][id]
         /\ index'[e.kind][e.id] = MergeUpdate(old, new)
         /\ e.kind = "task" => SoundTask(old) /\ SoundTask(new) /\ SoundTask(index'[e.kind][e.id])
<1>1. SoundElement(e) /\ e.id \in DOMAIN index[e.kind] /\ Uploaded(e, Nobody)
  BY AppAssumption DEF AppEdit
<1>2. Inv'
  BY AppEditInv
<1>3. SoundIndex(index) /\ model = BuildModel(index) /\ SoundIndex(index') /\ model' = BuildModel(index')
  BY <1>2 DEF Inv, Readable
<1>4. /\ index' = IndexElement(index, e) /\ index = [kind \in Kinds |-> index[kind]] /\ e.kind \in Kinds
      /\ ~Removes(e)
  BY <1>1, <1>3 DEF SoundIndex, AppliedLast, SoundElement, Updates, Removes
<1>5. /\ \A id \in DOMAIN index'[e.kind] \ {e.id} : index'[e.kind][id] = index[e.kind][id]
      /\ DOMAIN index'[e.kind] = DOMAIN index[e.kind] \union {e.id}
      /\ index'[e.kind][e.id] = Written(index, e)
  BY <1>4, IndexEffect
<1>6. e.kind = "task" => SoundTask(old) /\ SoundTask(new) /\ SoundTask(index'[e.kind][e.id])
  BY <1>1, <1>3, <1>5 DEF SoundIndex, SoundElement
<1> QED BY <1>1, <1>3, <1>4, <1>5, <1>6 DEF Written

\* A folder.
LEMMA FolderUpdateKept ==
  ASSUME Inv, NEW e \in AppElements, AppEdit(e), Updates(e), AppliedLast(e, Nobody), e.kind = "folder",
         e.id \in DOMAIN model.folder \intersect DOMAIN model'.folder
  PROVE  KeptBy(Content(e), "folder", model.folder[e.id], model'.folder[e.id])
<1>1. PICK id, old, new, body : /\ id = e.id /\ old = index.folder[id] /\ new = Content(e)
                                /\ body = index'.folder[id]
  OBVIOUS
<1>2. /\ SoundIndex(index) /\ model = BuildModel(index) /\ SoundIndex(index') /\ model' = BuildModel(index')
      /\ body = MergeUpdate(old, new)
  BY <1>1, UpdateMerges
<1>3. model.folder[id] = BuildFolder(id, old) /\ model'.folder[id] = BuildFolder(id, body)
  <2>1. "folder" \in Groups /\ Objects(model, "folder") = model.folder /\ Objects(model', "folder") = model'.folder
    BY DEF Groups, Objects
  <2>2. ASSUME NEW x, SoundIndex(x), NEW m, m = BuildModel(x), id \in DOMAIN m.folder
        PROVE  m.folder[id] = BuildFolder(id, x.folder[id])
    <3>1. PICK objects : objects = Objects(m, "folder") /\ objects = m.folder
      BY DEF Objects
    <3>2. objects[id] = BuildFolder(id, x["folder"][id])
      BY <2>1, <2>2, <3>1, GroupModel
    <3> QED BY <3>1, <3>2
  <2> QED BY <1>1, <1>2, <2>2
<1>4. ASSUME NEW tag \in {"name", "folder"}, tag \notin Named(new)
      PROVE  Value(body, tag, Nobody) = Value(old, tag, Nobody)
  <2>1. tag \notin DOMAIN new
    BY <1>4 DEF Named
  <2> QED BY <1>2, <2>1, KeptValue
<1>5. \A f \in {"id", "name", "parent"} : FieldTag("folder", f) \notin Named(new) => BuildFolder(id, body)[f] = BuildFolder(id, old)[f]
  BY <1>4 DEF FieldTag, BuildFolder
<1>6. DOMAIN BuildFolder(id, old) = {"id", "name", "parent"}
  BY DEF BuildFolder
<1> QED BY <1>1, <1>3, <1>5, <1>6 DEF KeptBy

\* A tag.
LEMMA TagUpdateKept ==
  ASSUME Inv, NEW e \in AppElements, AppEdit(e), Updates(e), AppliedLast(e, Nobody), e.kind = "context",
         e.id \in DOMAIN model.tag \intersect DOMAIN model'.tag
  PROVE  KeptBy(Content(e), "tag", model.tag[e.id], model'.tag[e.id])
<1>1. PICK id, old, new, body : /\ id = e.id /\ old = index.context[id] /\ new = Content(e)
                                /\ body = index'.context[id]
  OBVIOUS
<1>2. /\ SoundIndex(index) /\ model = BuildModel(index) /\ SoundIndex(index') /\ model' = BuildModel(index')
      /\ body = MergeUpdate(old, new)
  BY <1>1, UpdateMerges
<1>3. model.tag[id] = BuildTag(id, old) /\ model'.tag[id] = BuildTag(id, body)
  <2>1. "context" \in Groups
    BY DEF Groups
  <2>2. ASSUME NEW x, SoundIndex(x), NEW m, m = BuildModel(x), id \in DOMAIN m.tag
        PROVE  m.tag[id] = BuildTag(id, x.context[id])
    <3>1. PICK objects : objects = Objects(m, "context") /\ objects = m.tag
      BY DEF Objects
    <3>2. objects[id] = BuildTag(id, x["context"][id])
      BY <2>1, <2>2, <3>1, GroupModel
    <3> QED BY <3>1, <3>2
  <2> QED BY <1>1, <1>2, <2>2
<1>4. ASSUME NEW tag, tag # "project", tag \notin Named(new)
      PROVE  \A default : Value(body, tag, default) = Value(old, tag, default)
  <2>1. tag \notin DOMAIN new
    BY <1>4 DEF Named
  <2> QED BY <1>2, <2>1, KeptValue
<1> DEFINE Fields == {"id", "name", "parent", "note", "hidden"}
<1>5. \A f \in Fields : FieldTag("tag", f) \notin Named(new) => BuildTag(id, body)[f] = BuildTag(id, old)[f]
  BY <1>4 DEF FieldTag, BuildTag
<1>6. DOMAIN BuildTag(id, old) = Fields
  BY DEF BuildTag
<1> QED BY <1>1, <1>3, <1>5, <1>6 DEF KeptBy

\* A project.
LEMMA ProjectUpdateKept ==
  ASSUME Inv, NEW e \in AppElements, AppEdit(e), Updates(e), AppliedLast(e, Nobody), e.kind = "task",
         e.id \in DOMAIN model.project \intersect DOMAIN model'.project
  PROVE  KeptBy(Content(e), "project", model.project[e.id], model'.project[e.id])
<1>1. PICK id, old, new, body : /\ id = e.id /\ old = index.task[id] /\ new = Content(e)
                                /\ body = index'.task[id]
  OBVIOUS
<1>2. /\ SoundIndex(index) /\ model = BuildModel(index) /\ SoundIndex(index') /\ model' = BuildModel(index')
      /\ body = MergeUpdate(old, new) /\ SoundTask(old) /\ SoundTask(new) /\ SoundTask(body)
  BY <1>1, UpdateMerges
<1>3. /\ model.project[id] = BuildProject(id, old) /\ model'.project[id] = BuildProject(id, body)
      /\ IsProject(old) /\ IsProject(body)
  BY <1>1, <1>2 DEF BuildModel, Built
<1>4. ASSUME NEW tag, tag # "project", tag \notin Named(new)
      PROVE  /\ (\A default : Value(body, tag, default) = Value(old, tag, default))
             /\ Values(body, tag) = Values(old, tag)
             /\ \A default : Value(Container(body), tag, default) = Value(Container(old), tag, default)
  <2>1. tag \notin DOMAIN new /\ tag \notin DOMAIN Container(new)
    BY <1>4 DEF Named, Container
  <2>2. Single(old, {"project"}) /\ Single(new, {"project"})
    BY <1>2 DEF SoundTask, Single
  <2>3. (\A default : Value(body, tag, default) = Value(old, tag, default)) /\ Values(body, tag) = Values(old, tag)
    BY <1>2, <2>1, KeptValue
  <2>4. \A default : Value(Container(body), tag, default) = Value(Container(old), tag, default)
    BY <1>2, <1>3, <2>1, <2>2, KeptNested
  <2> QED BY <2>3, <2>4
<1>5. ASSUME NEW f \in ProjectFields, FieldTag("project", f) \notin Named(new)
      PROVE  BuildProject(id, body)[f] = BuildProject(id, old)[f]
  <2>1. PICK tag : tag = FieldTag("project", f)
    OBVIOUS
  <2>2. tag # "project"
    BY <2>1 DEF FieldTag, ProjectFields
  <2>3. /\ \A default : Value(body, tag, default) = Value(old, tag, default)
        /\ Values(body, tag) = Values(old, tag)
        /\ \A default : Value(Container(body), tag, default) = Value(Container(old), tag, default)
    BY <1>4, <1>5, <2>1, <2>2
  <2>4. PICK Read : Read = [b \in {old, body} |-> BuildProject(id, b)]
    OBVIOUS
  <2>5. ASSUME NEW b \in {old, body}
        PROVE  /\ Read[b]["id"] = id /\ Read[b]["tags"] = Values(b, "context")
               /\ Read[b]["name"] = Value(b, "name", Nobody)
               /\ Read[b]["completed"] = Value(b, "completed", Never)
               /\ Read[b]["flagged"] = Value(b, "flagged", FALSE)
               /\ Read[b]["note"] = Value(b, "note", Nobody)
               /\ Read[b]["due"] = Value(b, "due", Never)
               /\ Read[b]["reviewed"] = Value(Container(b), "reviewed", Never)
               /\ Read[b]["status"] = LET status == Value(Container(b), "status", Nobody)
                                      IN  IF status = Nobody THEN "active" ELSE status
               /\ Read[b]["folder"] = LET folder == Value(Container(b), "folder", Nobody)
                                      IN  IF folder = Nobody THEN Value(b, "folder", Nobody) ELSE folder
    BY <2>4 DEF BuildProject, Container
  <2>6. Read[body][f] = Read[old][f]
    <3>1. CASE f \in {"id", "tags"}
      BY <2>1, <2>3, <2>5, <3>1 DEF FieldTag
    <3>2. CASE f \in {"name", "completed", "flagged", "note", "due"}
      <4>1. tag = f
        BY <2>1, <3>2 DEF FieldTag
      <4> QED BY <2>3, <2>5, <3>2, <4>1
    <3>3. CASE f \in {"folder", "status", "reviewed"}
      <4>1. tag = f
        BY <2>1, <3>3 DEF FieldTag
      <4>2. CASE f = "folder"
        BY <2>3, <2>5, <4>1, <4>2
      <4>3. CASE f = "status"
        BY <2>3, <2>5, <4>1, <4>3
      <4>4. CASE f = "reviewed"
        BY <2>3, <2>5, <4>1, <4>4
      <4> QED BY <3>3, <4>2, <4>3, <4>4
    <3> QED BY <3>1, <3>2, <3>3 DEF ProjectFields
  <2> QED BY <2>4, <2>6
<1>6. DOMAIN BuildProject(id, old) = ProjectFields
  BY DEF BuildProject, ProjectFields
<1>7. BuildProject(id, old).tags = Values(old, "context") /\ BuildProject(id, body).tags = Values(body, "context")
  BY DEF BuildProject
<1> HIDE DEF ProjectFields
<1> QED BY <1>1, <1>2, <1>3, <1>5, <1>6, <1>7, TakenTags DEF KeptBy

\* A task.
LEMMA TaskUpdateKept ==
  ASSUME Inv, NEW e \in AppElements, AppEdit(e), Updates(e), AppliedLast(e, Nobody), e.kind = "task",
         e.id \in DOMAIN model.task \intersect DOMAIN model'.task
  PROVE  KeptBy(Content(e), "task", model.task[e.id], model'.task[e.id])
<1>1. PICK id, old, new, body, raw, other :
          /\ id = e.id /\ raw = index.task /\ other = index'.task
          /\ old = raw[id] /\ new = Content(e) /\ body = other[id]
  OBVIOUS
<1>2. /\ SoundIndex(index) /\ model = BuildModel(index) /\ SoundIndex(index') /\ model' = BuildModel(index')
      /\ body = MergeUpdate(old, new) /\ SoundTask(old) /\ SoundTask(new) /\ SoundTask(body)
      /\ id \in DOMAIN raw /\ DOMAIN other = DOMAIN raw /\ \A i \in DOMAIN raw \ {id} : other[i] = raw[i]
  BY <1>1, UpdateMerges
<1>3. PICK up, down : /\ up = ResolveProject(raw, {i \in DOMAIN raw : IsProject(raw[i])}, id)
                      /\ down = ResolveProject(other, {i \in DOMAIN other : IsProject(other[i])}, id)
  OBVIOUS
<1>4. /\ model.task[id] = BuildTask(id, old, up) /\ model'.task[id] = BuildTask(id, body, down)
      /\ ~IsProject(old) /\ ~IsProject(body)
  BY <1>1, <1>2, <1>3 DEF BuildModel, Built
<1>5. ASSUME NEW tag, tag # "project", tag \notin Named(new)
      PROVE  /\ (\A default : Value(body, tag, default) = Value(old, tag, default))
             /\ Values(body, tag) = Values(old, tag)
  <2>1. tag \notin DOMAIN new
    BY <1>5 DEF Named
  <2> QED BY <1>2, <2>1, KeptValue
<1>6. "task" \notin Named(new) => down = up
  <2> SUFFICES ASSUME "task" \notin Named(new) PROVE down = up
    OBVIOUS
  <2>1. Value(body, "task", Nobody) = Value(old, "task", Nobody)
    BY <1>5
  <2>2. /\ id \in DOMAIN raw /\ DOMAIN other = DOMAIN raw /\ \A i \in DOMAIN raw \ {id} : other[i] = raw[i]
        /\ ~IsProject(raw[id]) /\ ~IsProject(other[id])
        /\ Value(other[id], "task", Nobody) = Value(raw[id], "task", Nobody)
    BY <1>1, <1>2, <1>4, <2>1
  <2> QED BY ONLY <1>3, <2>2, KeptProject
<1>7. ASSUME NEW f \in TaskFields, FieldTag("task", f) \notin Named(new)
      PROVE  BuildTask(id, body, down)[f] = BuildTask(id, old, up)[f]
  <2>1. PICK tag : tag = FieldTag("task", f)
    OBVIOUS
  <2>2. tag # "project"
    BY <2>1 DEF FieldTag
  <2>3. (\A default : Value(body, tag, default) = Value(old, tag, default)) /\ Values(body, tag) = Values(old, tag)
    BY <1>5, <1>7, <2>1, <2>2
  <2> DEFINE Reads(r, b) ==
               /\ r["id"] = id /\ r["tags"] = Values(b, "context")
               /\ r["name"] = Value(b, "name", Nobody)
               /\ r["parent"] = Value(b, "task", Nobody)
               /\ r["inbox"] = Value(b, "inbox", FALSE)
               /\ r["completed"] = Value(b, "completed", Never)
               /\ r["hidden"] = Value(b, "hidden", Never)
               /\ r["flagged"] = Value(b, "flagged", FALSE)
               /\ r["note"] = Value(b, "note", Nobody)
               /\ r["due"] = Value(b, "due", Never)
               /\ r["order"] = LET order == Value(b, "order", Nobody)
                               IN  IF order = Nobody THEN "parallel" ELSE order
  <2>4. PICK s, t : s = BuildTask(id, old, up) /\ t = BuildTask(id, body, down)
    OBVIOUS
  <2>5. Reads(s, old) /\ Reads(t, body)
    BY <2>4 DEF BuildTask
  <2>6. t[f] = s[f]
    <3>1. CASE f \in {"id", "tags", "parent"}
      BY <2>1, <2>3, <2>5, <3>1 DEF FieldTag
    <3>2. CASE f = "project"
      BY <1>6, <1>7, <2>4, <3>2 DEF FieldTag, BuildTask
    <3>3. CASE f \notin {"id", "tags", "parent", "project"}
      <4>1. tag = f
        BY <2>1, <3>3 DEF FieldTag, TaskFields
      <4> QED BY <2>3, <2>5, <3>3, <4>1 DEF TaskFields
    <3> QED BY <3>1, <3>2, <3>3
  <2> QED BY <2>4, <2>6
<1>8. DOMAIN BuildTask(id, old, up) = TaskFields
  BY DEF BuildTask, TaskFields
<1>9. BuildTask(id, old, up).tags = Values(old, "context") /\ BuildTask(id, body, down).tags = Values(body, "context")
  BY DEF BuildTask
<1> HIDE DEF TaskFields
<1> QED BY <1>1, <1>2, <1>4, <1>7, <1>8, <1>9, TakenTags DEF KeptBy

\* Whatever the app updates, and whatever is in the bundle by then, no field
\* changes but those that it names, and its last tag is taken, where readers
\* apply the update last (parser.py:170).
THEOREM UpdatesKeepTheRest == Spec => PartialUpdateKept
<1> DEFINE Kept == \A e \in AppElements : (AppEdit(e) /\ Updates(e) /\ AppliedLast(e, Nobody)) =>
                       \A of \in BuiltFrom(e.kind) : e.id \in DOMAIN model[of] \intersect DOMAIN model'[of] =>
                           KeptBy(Content(e), of, model[of][e.id], model'[of][e.id])
<1>1. Inv /\ [Next]_vars => [Kept]_vars
  <2> SUFFICES ASSUME Inv, NEW e \in AppElements, AppEdit(e), Updates(e), AppliedLast(e, Nobody),
                      NEW of \in BuiltFrom(e.kind), e.id \in DOMAIN model[of] \intersect DOMAIN model'[of]
               PROVE  KeptBy(Content(e), of, model[of][e.id], model'[of][e.id])
    OBVIOUS
  <2>1. e.kind \in Kinds
    BY AppAssumption DEF SoundElement
  <2>2. \/ e.kind = "folder" /\ of = "folder"
        \/ e.kind = "context" /\ of = "tag"
        \/ e.kind = "task" /\ of \in {"task", "project"}
    BY <2>1 DEF BuiltFrom, Kinds
  <2> QED BY <2>2, FolderUpdateKept, TagUpdateKept, ProjectUpdateKept, TaskUpdateKept
<1> HIDE DEF Kept
<1>2. Spec => [][Kept]_vars
  BY <1>1, InvHolds, PTL DEF Spec
<1> QED BY <1>2 DEF PartialUpdateKept, Kept

-----------------------------------------------------------------------------
(* What callers are promised. *)

Unused == {NewIds[i] : i \in now..MaxRequests}

\* What is left of a plan leads to an index that shows the object, if
\* nobody else comes in between.
Promises(of, id, goal, plan) == \E g : Leads(index[KindOf(of)], plan, g) /\ ShownFrom(g, of, id, goal)

Promised(k) == (k.plan # Empty /\ k.fresh) => Promises(k.of, k.id, k.goal, k.plan)

\* The ids of a plan are in use.
InUse(of, plan) == KindOf(of) = "task" => \A i \in 1..Len(plan) : plan[i].id \notin Unused

\* Of a task that is being added all deltas are those of the addition.
AllAdded(id) == id \in DOMAIN log => \A i \in 1..Len(log[id]) : log[id][i].added

Alone(k) == (k.chain /\ k.fresh) => \A i \in 1..Len(k.plan) : AllAdded(k.plan[i].id)

KeepsPromises ==
    /\ Inv
    /\ DOMAIN index.task \intersect Unused = {}
    /\ DOMAIN log \intersect Unused = {}
    /\ \A c \in Callers : Promised(call[c]) /\ InUse(call[c].of, call[c].plan) /\ Alone(call[c])

\* A request is accepted with a plan that does what was asked for.
AsPromised(c) ==
    \E of, id, goal, plan :
        /\ Accept(c, of, id, goal, plan) /\ Promises(of, id, goal, plan)
        /\ KindOf(of) = "task" =>
               \A i \in 1..Len(plan) : plan[i].id \in DOMAIN index.task \union {NewIds[now]}
        /\ Len(plan) > 1 => \A i \in 1..Len(plan) : plan[i].id = NewIds[now]

\* An object that is published whole.
LEMMA PromisedWhole ==
  ASSUME NEW c, NEW of, NEW id, NEW goal, NEW e, Accept(c, of, id, goal, <<e>>),
         NEW u, ShownFrom(Applied(index[KindOf(of)], e), of, u.id, u), id = u.id, goal = u,
         KindOf(of) = "task" => e.id \in DOMAIN index.task \union {NewIds[now]}
  PROVE  AsPromised(c)
<1>1. PICK f, g, plan : f = index[KindOf(of)] /\ g = Applied(f, e) /\ plan = <<e>>
  OBVIOUS
<1>2. Leads(f, plan, g)
  BY <1>1, LeadsOne
<1>3. ShownFrom(g, of, id, goal)
  BY <1>1
<1>4. Promises(of, id, goal, plan)
  BY <1>1, <1>2, <1>3 DEF Promises
<1>5. Len(plan) = 1 /\ plan[1] = e
  BY <1>1
<1>6. \A i \in 1..Len(plan) : plan[i] = e
  BY <1>5
<1>7. Accept(c, of, id, goal, plan)
  BY <1>1
<1>8. ~(Len(plan) > 1)
  <2>1. PICK n : n = Len(plan)
    OBVIOUS
  <2>2. ~(n > 1)
    BY <1>5, <2>1
  <2> QED BY <2>1, <2>2
<1> HIDE DEF KindOf, Promises, Accept
<1> QED BY <1>4, <1>6, <1>7, <1>8 DEF AsPromised

\* A change of a task leaves it below where it was, moves it to the inbox or
\* to a project, and the project is the one it is then below.
Writable(id, w) ==
    /\ w.id = id /\ w = [field \in TaskFields |-> w[field]] /\ TagList(w.tags) /\ w.order # Nobody
    /\ \/ w.parent = model.task[id].parent /\ w.project = model.task[id].project
       \/ w.parent \in DOMAIN model.project /\ w.project = w.parent
       \/ w.parent = Nobody /\ w.project = Nobody

LEMMA WritableShown ==
  ASSUME Readable, NEW id \in DOMAIN model.task, NEW w, Writable(id, w), NEW e, e = BuilderAddTask(w)
  PROVE  /\ ShownFrom(Applied(index[KindOf("task")], e), "task", w.id, w)
         /\ e.id = w.id /\ e.id \in DOMAIN index.task
<1>1. PICK raw, projects : raw = index.task /\ projects = {i \in DOMAIN raw : IsProject(raw[i])}
  OBVIOUS
<1>2. /\ id \in DOMAIN raw \ projects
      /\ model.task[id] = BuildTask(id, raw[id], ResolveProject(raw, projects, id))
      /\ DOMAIN model.project \subseteq projects
  <2>1. PICK x, m : x = index /\ m = model
    OBVIOUS
  <2>2. m = BuildModel(x) /\ raw = x.task /\ projects = Projects(raw)
    BY <1>1, <2>1 DEF Readable, Projects
  <2>3. /\ \A i \in DOMAIN m.task :
              i \in DOMAIN raw \ projects /\ m.task[i] = BuildTask(i, raw[i], ResolveProject(raw, projects, i))
        /\ DOMAIN m.project \subseteq projects
    BY ONLY <2>2, TaskBuilt
  <2> QED BY <2>1, <2>3
<1>3. model.task[id].parent = Value(raw[id], "task", Nobody) /\ model.task[id].project = ResolveProject(raw, projects, id)
  BY <1>2 DEF BuildTask
<1>4. IsFiniteSet(DOMAIN raw) /\ Nobody \notin DOMAIN raw
  BY <1>1 DEF Readable, SoundIndex, Kinds
<1>5. w.id = id /\ w = [field \in TaskFields |-> w[field]] /\ TagList(w.tags) /\ w.order # Nobody
  BY DEF Writable
<1>6. /\ e.kind = "task" /\ e.id = w.id /\ e.op = "none" /\ Content(e) = e.body /\ "name" \in DOMAIN e.body
      /\ ~IsProject(e.body) /\ Value(e.body, "task", Nobody) = w.parent
      /\ BuildTask(w.id, e.body, w.project) = w
  BY ONLY <1>5, e = BuilderAddTask(w), TaskRead
<1>7. PICK g, body : body = e.body /\ g = With(raw, w.id, body) /\ g = Applied(raw, e)
  BY <1>6, AppliedWhole
<1>8. DOMAIN g = DOMAIN raw /\ g[id] = body /\ \A i \in DOMAIN raw \ {id} : g[i] = raw[i]
  BY <1>2, <1>5, <1>7 DEF With
<1>9. projects = {i \in DOMAIN g : IsProject(g[i])} /\ projects \subseteq DOMAIN g
  BY <1>1, <1>2, <1>6, <1>7, <1>8
<1>10. IsFiniteSet(DOMAIN g) /\ Nobody \notin DOMAIN g /\ id \in DOMAIN g \ projects /\ Value(g[id], "task", Nobody) = w.parent
  BY <1>2, <1>4, <1>6, <1>7, <1>8
<1>11. ResolveProject(g, projects, id) = w.project
  <2>1. CASE w.parent = model.task[id].parent /\ w.project = model.task[id].project
    <3>1. \A i \in DOMAIN raw \ projects : Value(g[i], "task", Nobody) = Value(raw[i], "task", Nobody)
      BY <1>3, <1>8, <1>10, <2>1
    <3>2. ResolveProject(g, projects, id) = ResolveProject(raw, projects, id)
      BY ONLY <1>8, <3>1, ResolvesAlike
    <3> QED BY <1>3, <2>1, <3>2
  <2>2. CASE w.parent \in DOMAIN model.project /\ w.project = w.parent
    <3>1. w.parent \in projects
      BY <1>2, <2>2
    <3>2. ResolveProject(g, projects, id) = w.parent
      BY ONLY <1>10, <3>1, ResolvesToParent
    <3> QED BY <2>2, <3>2
  <2>3. CASE w.parent = Nobody /\ w.project = Nobody
    <3>1. Value(g[id], "task", Nobody) = Nobody
      BY <1>10, <2>3
    <3>2. ResolveProject(g, projects, id) = Nobody
      BY ONLY <1>9, <1>10, <3>1, RootResolves
    <3> QED BY <2>3, <3>2
  <2> QED BY <2>1, <2>2, <2>3 DEF Writable
<1>12. ShownFrom(g, "task", w.id, w)
  <2>1. ~IsProject(body) /\ BuildTask(w.id, body, w.project) = w /\ ResolveProject(g, projects, w.id) = w.project
    BY <1>5, <1>6, <1>7, <1>11
  <2> QED BY ONLY <1>5, <1>7, <1>9, <2>1, TaskShown
<1>13. index[KindOf("task")] = raw
  BY <1>1 DEF KindOf
<1> QED BY <1>1, <1>2, <1>5, <1>6, <1>7, <1>12, <1>13

\* All deltas of a new task are about that task.
LEMMA AddTaskPlanIds ==
  ASSUME NEW id, NEW name, NEW parent, NEW inbox, NEW note, NEW flagged, NEW due,
         NEW plan, plan = AddTaskPlan(id, name, parent, inbox, note, flagged, due)
  PROVE  \A i \in 1..Len(plan) : plan[i].id = id
<1>1. PICK first, named, noted, flags, dues :
          /\ first = AddTaskSnapshot(id, parent, inbox) /\ named = UpdateTaskFields(id, [name |-> name])
          /\ noted = UpdateTaskFields(id, [note |-> note]) /\ flags = UpdateTaskFields(id, [flagged |-> flagged])
          /\ dues = UpdateTaskFields(id, [due |-> due])
  OBVIOUS
<1>2. PICK S : S = {first, named, noted, flags, dues}
  OBVIOUS
<1>3. \A e \in S : e.id = id
  <2>1. first.id = id
    BY <1>1 DEF AddTaskSnapshot, Element
  <2>2. \A fields : UpdateTaskFields(id, fields).id = id
    BY DEF UpdateTaskFields, Element
  <2> QED BY <1>1, <1>2, <2>1, <2>2
<1>4. PICK s, t, u, v :
          /\ s = <<first, named>> /\ t = (IF note = Nobody THEN Empty ELSE <<noted>>)
          /\ u = (IF ~flagged THEN Empty ELSE <<flags>>) /\ v = (IF due = Never THEN Empty ELSE <<dues>>)
  OBVIOUS
<1>5. s \in Seq(S) /\ t \in Seq(S) /\ u \in Seq(S) /\ v \in Seq(S)
  <2>1. Empty \in Seq(S) /\ \A e \in S : <<e>> \in Seq(S)
    BY EmptySeq DEF Empty
  <2>2. first \in S /\ named \in S /\ noted \in S /\ flags \in S /\ dues \in S
    BY <1>2
  <2>3. s \in Seq(S)
    BY <1>4, <2>2
  <2> QED BY <1>4, <2>1, <2>2, <2>3
<1>6. plan = s \o t \o u \o v
  BY <1>1, <1>4 DEF AddTaskPlan
<1>7. plan \in Seq(S)
  BY <1>5, <1>6, ConcatProperties
<1>8. \A i \in 1..Len(plan) : plan[i] \in S
  BY <1>7
<1> QED BY <1>3, <1>8

LEMMA CreateTaskPromised ==
  ASSUME Readable, DOMAIN index.task \intersect Unused = {}, NEW c, Ready(c), NEW args \in NewTasks,
         NEW parent, parent \in DOMAIN model.task \union DOMAIN model.project \union {Nobody},
         NEW inbox, CreateTask(c, args, parent, inbox)
  PROVE  AsPromised(c)
<1>1. PICK id, name, note, flagged, due, project :
          /\ id = NewIds[now] /\ name = Arg(args, "name", Nobody) /\ note = Arg(args, "note", Nobody)
          /\ flagged = Arg(args, "flagged", FALSE) /\ due = Arg(args, "due", Never)
          /\ project = ProjectOf(model, parent)
  OBVIOUS
<1>2. PICK goal, plan :
          /\ goal = [id |-> id, name |-> name, parent |-> parent, project |-> project,
                     inbox |-> inbox, completed |-> Never, hidden |-> Never, flagged |-> flagged,
                     note |-> note, due |-> due, tags |-> Empty,
                     order |-> IF inbox THEN "sequential" ELSE "parallel"]
          /\ plan = AddTaskPlan(id, name, parent, inbox, note, flagged, due)
  OBVIOUS
<1>3. Accept(c, "task", id, goal, plan)
  BY <1>1, <1>2 DEF CreateTask
<1>4. flagged \in BOOLEAN
  BY <1>1, ArgsAssumption DEF Arg
<1>5. now \in 1..MaxRequests
  BY IdAssumption DEF Ready, Readable
<1>6. id # Nobody /\ id \notin DOMAIN index.task
  BY <1>1, <1>5, IdAssumption DEF Unused
<1>7. PICK raw, projects : raw = index.task /\ projects = Projects(raw)
  OBVIOUS
<1>8. IsFiniteSet(DOMAIN raw) /\ Nobody \notin DOMAIN raw /\ projects = {i \in DOMAIN raw : IsProject(raw[i])}
  BY <1>7 DEF Readable, SoundIndex, Kinds, Projects
<1>9. /\ \A i \in DOMAIN model.task :
              i \in DOMAIN raw \ projects /\ model.task[i] = BuildTask(i, raw[i], ResolveProject(raw, projects, i))
      /\ DOMAIN model.project \subseteq projects
  <2>1. PICK x, m : x = index /\ m = model
    OBVIOUS
  <2>2. m = BuildModel(x) /\ raw = x.task
    BY <1>7, <2>1 DEF Readable
  <2>3. /\ \A i \in DOMAIN m.task :
              i \in DOMAIN raw \ projects /\ m.task[i] = BuildTask(i, raw[i], ResolveProject(raw, projects, i))
        /\ DOMAIN m.project \subseteq projects
    BY ONLY <1>7, <2>2, TaskBuilt
  <2> QED BY <2>1, <2>3
<1>10. \/ parent = Nobody /\ project = Nobody
       \/ parent \in projects /\ project = parent
       \/ project = ResolveProject(raw, projects, parent)
  <2>1. CASE parent = Nobody
    BY <1>1, <1>8, <1>9, <2>1 DEF ProjectOf
  <2>2. CASE parent \in DOMAIN model.project
    BY <1>1, <1>9, <2>2 DEF ProjectOf
  <2>3. CASE parent \in DOMAIN model.task
    <3>1. parent \notin DOMAIN model.project /\ project = model.task[parent].project
      BY <1>1, <1>9, <2>3 DEF ProjectOf
    <3>2. model.task[parent] = BuildTask(parent, raw[parent], ResolveProject(raw, projects, parent))
      BY <1>9, <2>3
    <3> QED BY <3>1, <3>2 DEF BuildTask
  <2> QED BY <2>1, <2>2, <2>3
<1>11. \E g : Leads(raw, plan, g) /\ ShownFrom(g, "task", id, goal)
  <2>1. id \notin DOMAIN raw
    BY <1>6, <1>7
  <2> QED BY ONLY <1>2, <1>4, <1>6, <1>8, <1>10, <2>1, NewTaskShown
<1>12. Promises("task", id, goal, plan)
  <2>1. index[KindOf("task")] = raw
    BY <1>7 DEF KindOf
  <2> QED BY <1>11, <2>1 DEF Promises
<1>13. \A i \in 1..Len(plan) : plan[i].id = id
  BY <1>2, AddTaskPlanIds
<1> HIDE DEF Accept, KindOf
<1> QED BY <1>1, <1>3, <1>12, <1>13 DEF AsPromised

LEMMA ChangedTaskIsWritable ==
  ASSUME Readable, NEW id \in DOMAIN model.task, NEW u,
         \/ u = model.task[id]
         \/ \E args : /\ u = BuildUpdatedTask(model.task[id], args) /\ TaskChangeOK(model, args)
                      /\ "tags" \in DOMAIN args => TagList(args.tags)
  PROVE  /\ Writable(id, u)
         /\ \A v : Writable(id, [u EXCEPT !.hidden = v]) /\ Writable(id, [u EXCEPT !.completed = v])
<1>1. PICK t : t = model.task[id]
  OBVIOUS
<1>2. t = BuildTask(id, index.task[id], t.project) /\ TagList(t.tags)
  BY <1>1, ModelSound DEF Readable
<1>3. t.id = id /\ t = [field \in TaskFields |-> t[field]] /\ t.order # Nobody
  <2>1. t.id = id /\ t = [field \in TaskFields |-> t[field]]
    BY <1>2 DEF BuildTask, TaskFields
  <2>2. PICK order : order = Value(index.task[id], "order", Nobody)
    OBVIOUS
  <2>3. t.order = IF order = Nobody THEN "parallel" ELSE order
    BY <1>2, <2>2 DEF BuildTask
  <2> QED BY <2>1, <2>3 DEF Nobody
<1>4. Writable(id, u)
  <2>1. CASE u = t
    BY <1>1, <1>2, <1>3, <2>1 DEF Writable
  <2>2. ASSUME NEW args, u = BuildUpdatedTask(t, args), TaskChangeOK(model, args), "tags" \in DOMAIN args => TagList(args.tags)
        PROVE  Writable(id, u)
    <3> DEFINE Place(old) == IF MovedInto(args) THEN args.project ELSE IF MovedOut(args) THEN Nobody ELSE old
    <3>1. u = [t EXCEPT
            !.name = Arg(args, "name", @), !.note = Arg(args, "note", @),
            !.flagged = Arg(args, "flagged", @), !.due = Arg(args, "due", @),
            !.parent = Place(@), !.project = Place(@), !.inbox = NewInbox(t, args),
            !.tags = IF "clear_tags" \in DOMAIN args THEN Empty ELSE Arg(args, "tags", @),
            !.hidden = IF "dropped" \in DOMAIN args THEN IF args.dropped THEN now ELSE Never ELSE @]
      BY <2>2 DEF BuildUpdatedTask
    <3>2. MovedInto(args) => args.project \in DOMAIN model.project
      BY <2>2 DEF TaskChangeOK, OpenProject
    <3> HIDE DEF Place
    <3>3. /\ u = [field \in TaskFields |-> u[field]] /\ u.id = t.id /\ u.order = t.order
          /\ u.parent = Place(t.parent) /\ u.project = Place(t.project)
          /\ u.tags = IF "clear_tags" \in DOMAIN args THEN Empty ELSE Arg(args, "tags", t.tags)
      <4>1. u = [field \in TaskFields |-> u[field]]
        BY <1>3, <3>1
      <4>2. u.id = t.id /\ u.order = t.order
        BY <1>3, <3>1 DEF TaskFields
      <4>3. u.parent = Place(t.parent) /\ u.project = Place(t.project)
        BY <1>3, <3>1 DEF TaskFields
      <4>4. u.tags = IF "clear_tags" \in DOMAIN args THEN Empty ELSE Arg(args, "tags", t.tags)
        BY <1>3, <3>1 DEF TaskFields
      <4> QED BY <4>1, <4>2, <4>3, <4>4
    <3>4. TagList(u.tags)
      BY <1>2, <2>2, <3>3, EmptyTags DEF Arg
    <3>5. \/ u.parent = t.parent /\ u.project = t.project
          \/ u.parent \in DOMAIN model.project /\ u.project = u.parent
          \/ u.parent = Nobody /\ u.project = Nobody
      BY <3>2, <3>3 DEF Place
    <3> QED BY <1>1, <1>3, <3>3, <3>4, <3>5 DEF Writable
  <2> QED BY <1>1, <2>1, <2>2
<1>5. ASSUME NEW w, w = [field \in TaskFields |-> w[field]],
             \A field \in TaskFields \ {"hidden", "completed"} : w[field] = u[field]
      PROVE  Writable(id, w)
  BY <1>4, <1>5 DEF Writable, TaskFields
<1>6. u = [field \in TaskFields |-> u[field]]
  BY <1>4 DEF Writable
<1>7. ASSUME NEW v PROVE Writable(id, [u EXCEPT !.hidden = v]) /\ Writable(id, [u EXCEPT !.completed = v])
  <2>1. PICK w : w = [u EXCEPT !.hidden = v]
    OBVIOUS
  <2>2. PICK x : x = [u EXCEPT !.completed = v]
    OBVIOUS
  <2>3. w = [field \in TaskFields |-> w[field]] /\ x = [field \in TaskFields |-> x[field]]
    BY <1>6, <2>1, <2>2
  <2>4. /\ \A field \in TaskFields \ {"hidden", "completed"} : w[field] = u[field]
        /\ \A field \in TaskFields \ {"hidden", "completed"} : x[field] = u[field]
    BY <1>6, <2>1, <2>2
  <2> QED BY <1>5, <2>1, <2>2, <2>3, <2>4
<1> QED BY <1>4, <1>7

LEMMA WritablePromised ==
  ASSUME Readable, NEW c, NEW id \in DOMAIN model.task, NEW w, Writable(id, w),
         Accept(c, "task", id, w, <<BuilderAddTask(w)>>)
  PROVE  AsPromised(c)
<1>1. PICK e : e = BuilderAddTask(w)
  OBVIOUS
<1>2. /\ ShownFrom(Applied(index[KindOf("task")], e), "task", w.id, w)
      /\ e.id \in DOMAIN index.task
  BY <1>1, WritableShown
<1>3. id = w.id /\ w = w
  BY DEF Writable
<1>4. Accept(c, "task", id, w, <<e>>)
  BY <1>1
<1> HIDE DEF KindOf, Accept
<1> QED BY ONLY <1>2, <1>3, <1>4, PromisedWhole

LEMMA TasksPromised ==
  ASSUME Readable, DOMAIN index.task \intersect Unused = {}, NEW c,
         \/ TaskRequest(c)
         \/ \E args \in NewTasks : AddCmd(c, args)
         \/ \E id \in DOMAIN model.task : DoneCmd(c, id) \/ TaskDropCmd(c, id)
         \/ \E id \in DOMAIN model.task, args \in TaskChanges : TaskUpdateCmd(c, id, args)
  PROVE  AsPromised(c)
<1>1. ASSUME NEW args \in NewTasks, AddTask(c, args) \/ AddCmd(c, args) PROVE AsPromised(c)
  <2>1. CASE AddTask(c, args)
    <3> DEFINE parent == Arg(args, "project", Arg(args, "parent", Nobody))
               inbox == DOMAIN args \intersect {"project", "parent"} = {}
    <3>1. Ready(c) /\ CreateTask(c, args, parent, inbox)
      BY <2>1 DEF AddTask
    <3>2. parent \in DOMAIN model.task \union DOMAIN model.project \union {Nobody}
      BY <2>1 DEF AddTask, Arg, OpenProject
    <3> HIDE DEF parent, inbox
    <3> QED BY <3>1, <3>2, CreateTaskPromised
  <2>2. CASE AddCmd(c, args)
    <3> DEFINE parent == Arg(args, "project", Nobody)
               inbox == "project" \notin DOMAIN args
    <3>1. Ready(c) /\ CreateTask(c, args, parent, inbox)
      BY <2>2 DEF AddCmd
    <3>2. parent \in DOMAIN model.task \union DOMAIN model.project \union {Nobody}
      BY <2>2 DEF AddCmd, Arg, MatchActiveProject
    <3> HIDE DEF parent, inbox
    <3> QED BY <3>1, <3>2, CreateTaskPromised
  <2> QED BY <1>1, <2>1, <2>2
<1>2. ASSUME NEW id \in DOMAIN model.task, NEW args \in TaskChanges, UpdateTask(c, id, args)
      PROVE  AsPromised(c)
  <2>1. PICK u : u = BuildUpdatedTask(model.task[id], args)
    OBVIOUS
  <2>2. "tags" \in DOMAIN args => TagList(args.tags)
    BY <1>2, ArgTags DEF UpdateTask, TaskChangeOK
  <2>3. Writable(id, u)
    BY <1>2, <2>1, <2>2, ChangedTaskIsWritable DEF UpdateTask
  <2>4. Arg(args, "dropped", FALSE) => [u EXCEPT !.hidden = now] = u
    <3> SUFFICES ASSUME Arg(args, "dropped", FALSE) PROVE [u EXCEPT !.hidden = now] = u
      OBVIOUS
    <3>1. "dropped" \in DOMAIN args /\ args.dropped
      BY DEF Arg
    <3>2. PICK t : t = model.task[id]
      OBVIOUS
    <3>3. t = [field \in TaskFields |-> t[field]]
      <4>1. t = BuildTask(id, index.task[id], t.project)
        BY <3>2, ModelSound DEF Readable
      <4> QED BY <4>1 DEF BuildTask, TaskFields
    <3>4. u.hidden = now
      BY <2>1, <3>1, <3>2, <3>3 DEF BuildUpdatedTask, TaskFields
    <3>5. u = [field \in TaskFields |-> u[field]]
      BY <2>3 DEF Writable
    <3> QED BY <3>4, <3>5
  <2>5. Accept(c, "task", id, u, <<BuilderAddTask(u)>>)
    BY <1>2, <2>1, <2>4 DEF UpdateTask, UpdateTaskPlan, DropTaskPlan
  <2> QED BY <2>3, <2>5, WritablePromised
<1>3. ASSUME NEW id \in DOMAIN model.task, CompleteTask(c, id) PROVE AsPromised(c)
  <2> DEFINE w == [model.task[id] EXCEPT !.completed = now]
  <2>1. Accept(c, "task", id, w, <<BuilderAddTask(w)>>)
    BY <1>3 DEF CompleteTask, CompleteTaskPlan, UpdateTaskPlan
  <2>2. Writable(id, w)
    BY ChangedTaskIsWritable
  <2> HIDE DEF w
  <2> QED BY <2>1, <2>2, WritablePromised
<1>4. ASSUME NEW id \in DOMAIN model.task, TaskDropCmd(c, id) PROVE AsPromised(c)
  <2> DEFINE w == [model.task[id] EXCEPT !.hidden = now]
  <2>1. Accept(c, "task", id, w, <<BuilderAddTask(w)>>)
    BY <1>4 DEF TaskDropCmd, DropTaskPlan, UpdateTaskPlan
  <2>2. Writable(id, w)
    BY ChangedTaskIsWritable
  <2> HIDE DEF w
  <2> QED BY <2>1, <2>2, WritablePromised
<1>5. ASSUME NEW id \in DOMAIN model.task, NEW args \in TaskChanges, TaskUpdateCmd(c, id, args)
      PROVE  AsPromised(c)
  <2> DEFINE passed == Passed(args, {"name", "project", "tags"})
             u == BuildUpdatedTask(model.task[id], passed)
  <2>1. Accept(c, "task", id, u, <<BuilderAddTask(u)>>) /\ TaskChangeOK(model, passed)
    BY <1>5 DEF TaskUpdateCmd, UpdateTaskPlan
  <2>2. "tags" \in DOMAIN passed => TagList(passed.tags)
    <3>1. KnownTags(model, passed)
      BY <2>1 DEF TaskChangeOK
    <3>2. PICK keys : passed = Passed(args, keys)
      OBVIOUS
    <3> HIDE DEF passed
    <3> QED BY <3>1, <3>2, ArgTags
  <2> HIDE DEF passed
  <2>3. Writable(id, u)
    BY <2>1, <2>2, ChangedTaskIsWritable
  <2> HIDE DEF u
  <2> QED BY <2>1, <2>3, WritablePromised
<1> QED BY <1>1, <1>2, <1>3, <1>4, <1>5 DEF TaskRequest, DoneCmd

\* A project that is written whole.
Whole(p) ==
    /\ p = [field \in ProjectFields |-> p[field]] /\ TagList(p.tags) /\ p.status # Nobody
    /\ p.id \in DOMAIN index.task \union {NewIds[now]}

LEMMA WholePromised ==
  ASSUME NEW c, NEW p, Whole(p), NEW id, id = p.id, NEW goal, goal = p,
         Accept(c, "project", id, goal, <<BuilderAddProject(p)>>)
  PROVE  AsPromised(c)
<1>1. PICK e : e = BuilderAddProject(p)
  OBVIOUS
<1>2. p = [field \in ProjectFields |-> p[field]] /\ TagList(p.tags) /\ p.status # Nobody
  BY DEF Whole
<1>3. e.id = p.id
  BY ONLY <1>1, <1>2, ProjectRead
<1>4. ShownFrom(Applied(index[KindOf("project")], e), "project", p.id, p)
  BY ONLY <1>1, <1>2, ProjectShown
<1>5. Accept(c, "project", id, goal, <<e>>) /\ e.id \in DOMAIN index.task \union {NewIds[now]}
  BY <1>1, <1>3 DEF Whole
<1> HIDE DEF KindOf, Accept
<1> QED BY ONLY <1>4, <1>5, id = p.id, goal = p, PromisedWhole

LEMMA KnownIsWhole ==
  ASSUME Readable, NEW id \in DOMAIN model.project, NEW p, p = model.project[id]
  PROVE  Whole(p) /\ p.id = id
<1>1. p.id = id /\ p = [field \in ProjectFields |-> p[field]] /\ TagList(p.tags)
  BY KnownProject
<1>2. p = BuildProject(id, index.task[id]) /\ id \in DOMAIN index.task
  BY ModelSound DEF Readable
<1>3. p.status # Nobody
  <2>1. PICK status : status = Value(Value(index.task[id], "project", Empty), "status", Nobody)
    OBVIOUS
  <2>2. p.status = IF status = Nobody THEN "active" ELSE status
    BY <1>2, <2>1 DEF BuildProject
  <2> QED BY <2>2 DEF Nobody
<1> QED BY <1>1, <1>2, <1>3 DEF Whole

LEMMA SaveProjectPromised ==
  ASSUME Readable, NEW c, NEW id \in DOMAIN model.project, NEW args, NEW status,
         ProjectChangeOK(model, args), "tags" \in DOMAIN args => TagList(args.tags),
         NEW u, u = BuildUpdatedProject(model.project[id], args),
         \/ status = u.status
         \/ status = Arg(args, "status", Nobody),
         SaveProject(c, u, status)
  PROVE  AsPromised(c)
<1>1. PICK p : p = model.project[id]
  OBVIOUS
<1>2. p.id = id /\ p = [field \in ProjectFields |-> p[field]] /\ TagList(p.tags) /\ p.status # Nobody
        /\ p.id \in DOMAIN index.task \union {NewIds[now]}
  BY <1>1, KnownIsWhole DEF Whole
<1>3. u = [p EXCEPT
        !.name = Arg(args, "name", @), !.note = Arg(args, "note", @),
        !.flagged = Arg(args, "flagged", @), !.due = Arg(args, "due", @),
        !.status = Arg(args, "status", @),
        !.folder = IF "clear_folder" \in DOMAIN args THEN Nobody ELSE Arg(args, "folder", @),
        !.completed = IF Arg(args, "status", Nobody) = "done" /\ @ = Never THEN now ELSE @,
        !.tags = IF "clear_tags" \in DOMAIN args THEN Empty ELSE Arg(args, "tags", @)]
  BY <1>1 DEF BuildUpdatedProject
<1>4. u = [field \in ProjectFields |-> u[field]]
  BY <1>2, <1>3
<1>5. u.id = p.id /\ u.status = Arg(args, "status", p.status)
  BY <1>2, <1>3 DEF ProjectFields
<1>6. u.tags = IF "clear_tags" \in DOMAIN args THEN Empty ELSE Arg(args, "tags", p.tags)
  BY <1>2, <1>3 DEF ProjectFields
<1>7. TagList(u.tags)
  BY <1>2, <1>6, EmptyTags DEF Arg
<1>8. u.status # Nobody
  <2>1. "status" \in DOMAIN args => args.status \in {"active", "inactive", "done", "dropped"}
    BY DEF ProjectChangeOK, Arg
  <2> QED BY <1>2, <1>5, <2>1 DEF Arg, Nobody
<1>9. Whole(u)
  BY <1>2, <1>4, <1>5, <1>7, <1>8 DEF Whole
<1>10. status \in {"done", "dropped"} => u.status = status
  BY <1>5 DEF Arg, Nobody
<1>11. CASE status = "done"
  <2>1. PICK v : v = [u EXCEPT !.completed = now]
    OBVIOUS
  <2>2. [u EXCEPT !.status = "done", !.completed = now] = v
    <3>1. PICK x : x = [u EXCEPT !.status = "done", !.completed = now]
      OBVIOUS
    <3>2. x = [field \in ProjectFields |-> x[field]] /\ v = [field \in ProjectFields |-> v[field]]
      BY <1>4, <2>1, <3>1
    <3>3. \A field \in ProjectFields : x[field] = v[field]
      BY <1>4, <1>10, <1>11, <2>1, <3>1
    <3> QED BY <3>1, <3>2, <3>3
  <2>3. Accept(c, "project", u.id, v, <<BuilderAddProject(v)>>)
    BY <1>11, <2>1, <2>2 DEF SaveProject, CompleteProjectPlan, UpdateProjectPlan
  <2>4. v = [field \in ProjectFields |-> v[field]] /\ v.id = u.id /\ v.tags = u.tags /\ v.status = u.status
    BY <1>4, <2>1 DEF ProjectFields
  <2>5. Whole(v)
    BY <1>2, <1>5, <1>7, <1>8, <2>4 DEF Whole
  <2> QED BY <2>3, <2>4, <2>5, WholePromised
<1>12. CASE status = "dropped"
  <2>1. [u EXCEPT !.status = "dropped"] = u
    BY <1>4, <1>10, <1>12
  <2>2. Accept(c, "project", u.id, u, <<BuilderAddProject(u)>>)
    BY <1>12, <2>1 DEF SaveProject, DropProjectPlan, UpdateProjectPlan
  <2> QED BY <1>9, <2>2, WholePromised
<1>13. CASE status \notin {"done", "dropped"}
  <2>1. Accept(c, "project", u.id, u, <<BuilderAddProject(u)>>)
    BY <1>13 DEF SaveProject, UpdateProjectPlan
  <2> QED BY <1>9, <2>1, WholePromised
<1> QED BY <1>11, <1>12, <1>13

LEMMA ProjectsPromised ==
  ASSUME Readable, NEW c,
         \/ ProjectRequest(c)
         \/ \E args \in NewProjects : ProjectAddCmd(c, args)
         \/ \E id \in DOMAIN model.project, args \in ProjectChanges : ProjectUpdateCmd(c, id, args)
         \/ \E id \in DOMAIN model.project : ProjectDoneCmd(c, id)
  PROVE  AsPromised(c)
<1>1. ASSUME NEW args, AddProject(c, args) \/ ProjectAddCmd(c, args) PROVE AsPromised(c)
  <2>1. CreateProject(c, args) /\ Arg(args, "status", "active") \in {"active", "inactive"}
    BY <1>1 DEF AddProject, ProjectAddCmd
  <2> DEFINE p == [id |-> NewIds[now], name |-> Arg(args, "name", Nobody),
                   folder |-> Arg(args, "folder", Nobody),
                   status |-> Arg(args, "status", "active"), reviewed |-> Never,
                   completed |-> Never, flagged |-> Arg(args, "flagged", FALSE),
                   note |-> Arg(args, "note", Nobody), due |-> Arg(args, "due", Never),
                   tags |-> Empty]
  <2>2. Accept(c, "project", p.id, p, <<BuilderAddProject(p)>>)
    BY <2>1 DEF CreateProject, AddProjectPlan
  <2>3. p = [field \in ProjectFields |-> p[field]] /\ p.id = NewIds[now]
    BY DEF ProjectFields
  <2>4. p.tags = Empty /\ p.status # Nobody
    BY <2>1 DEF Nobody
  <2> HIDE DEF p
  <2>5. Whole(p)
    BY <2>3, <2>4, EmptyTags DEF Whole
  <2> QED BY <2>2, <2>5, WholePromised
<1>2. ASSUME NEW id \in DOMAIN model.project, NEW args \in ProjectChanges, UpdateProject(c, id, args)
      PROVE  AsPromised(c)
  <2>1. PICK u, status : u = BuildUpdatedProject(model.project[id], args) /\ status = u.status
    OBVIOUS
  <2>2. SaveProject(c, u, status) /\ ProjectChangeOK(model, args)
    BY <1>2, <2>1 DEF UpdateProject
  <2>3. "tags" \in DOMAIN args => TagList(args.tags)
    BY <1>2, ArgTags DEF UpdateProject, ProjectChangeOK
  <2> QED BY <2>1, <2>2, <2>3, SaveProjectPromised
<1>3. ASSUME NEW id \in DOMAIN model.project, NEW args \in ProjectChanges, ProjectUpdateCmd(c, id, args)
      PROVE  AsPromised(c)
  <2> DEFINE passed == Passed(args, {"name", "folder", "tags"})
  <2>1. PICK u, status : u = BuildUpdatedProject(model.project[id], passed) /\ status = Arg(passed, "status", Nobody)
    OBVIOUS
  <2>2. SaveProject(c, u, status) /\ ProjectChangeOK(model, passed)
    BY <1>3, <2>1 DEF ProjectUpdateCmd
  <2>3. "tags" \in DOMAIN passed => TagList(passed.tags)
    <3>1. KnownTags(model, passed)
      BY <2>2 DEF ProjectChangeOK
    <3>2. PICK keys : passed = Passed(args, keys)
      OBVIOUS
    <3> HIDE DEF passed
    <3> QED BY <3>1, <3>2, ArgTags
  <2> HIDE DEF passed
  <2> QED BY <2>1, <2>2, <2>3, SaveProjectPromised
<1>4. ASSUME NEW id \in DOMAIN model.project, NEW v,
             \/ v = [model.project[id] EXCEPT !.status = "done", !.completed = now]
             \/ v = [model.project[id] EXCEPT !.reviewed = now]
      PROVE  Whole(v) /\ v.id = id
  <2>1. PICK p : p = model.project[id]
    OBVIOUS
  <2>2. p.id = id /\ p = [field \in ProjectFields |-> p[field]] /\ TagList(p.tags) /\ p.status # Nobody
          /\ p.id \in DOMAIN index.task \union {NewIds[now]}
    BY <2>1, KnownIsWhole DEF Whole
  <2>3. v = [field \in ProjectFields |-> v[field]]
    BY <1>4, <2>1, <2>2
  <2>4. v.id = p.id /\ v.tags = p.tags /\ v.status \in {"done", p.status}
    BY <1>4, <2>1, <2>2 DEF ProjectFields
  <2> QED BY <2>2, <2>3, <2>4 DEF Whole, Nobody
<1>5. ASSUME NEW id \in DOMAIN model.project, CompleteProject(c, id)
      PROVE  AsPromised(c)
  <2>1. PICK v : v = [model.project[id] EXCEPT !.status = "done", !.completed = now]
    OBVIOUS
  <2>2. Accept(c, "project", id, v, <<BuilderAddProject(v)>>)
    BY <1>5, <2>1 DEF CompleteProject, CompleteProjectPlan, UpdateProjectPlan
  <2> QED BY <1>4, <2>1, <2>2, WholePromised
<1>6. ASSUME NEW id \in DOMAIN model.project, MarkProjectReviewed(c, id)
      PROVE  AsPromised(c)
  <2>1. PICK v : v = [model.project[id] EXCEPT !.reviewed = now]
    OBVIOUS
  <2>2. Accept(c, "project", id, v, <<BuilderAddProject(v)>>)
    BY <1>6, <2>1 DEF MarkProjectReviewed, UpdateProjectPlan
  <2> QED BY <1>4, <2>1, <2>2, WholePromised
<1> QED BY <1>1, <1>2, <1>3, <1>5, <1>6 DEF ProjectRequest, ProjectDoneCmd

\* Folders and tags are written whole too.
LEMMA FolderPromised ==
  ASSUME NEW c, NEW u, u = [field \in FolderFields |-> u[field]], NEW id, id = u.id, NEW goal, goal = u,
         Accept(c, "folder", id, goal, <<BuilderAddFolder(u)>>)
  PROVE  AsPromised(c)
<1>1. PICK e : e = BuilderAddFolder(u) /\ Accept(c, "folder", id, goal, <<e>>)
  OBVIOUS
<1>2. ShownFrom(Applied(index[KindOf("folder")], e), "folder", u.id, u)
  BY ONLY u = [field \in FolderFields |-> u[field]], <1>1, FolderShown
<1>3. KindOf("folder") # "task"
  BY DEF KindOf
<1> HIDE DEF KindOf, Accept
<1> QED BY ONLY <1>1, <1>2, <1>3, id = u.id, goal = u, PromisedWhole

LEMMA TagPromised ==
  ASSUME NEW c, NEW u, u = [field \in TagFields |-> u[field]], NEW id, id = u.id, NEW goal, goal = u,
         Accept(c, "tag", id, goal, <<BuilderAddTag(u)>>)
  PROVE  AsPromised(c)
<1>1. PICK e : e = BuilderAddTag(u) /\ Accept(c, "tag", id, goal, <<e>>)
  OBVIOUS
<1>2. ShownFrom(Applied(index[KindOf("tag")], e), "tag", u.id, u)
  BY ONLY u = [field \in TagFields |-> u[field]], <1>1, TagShown
<1>3. KindOf("tag") # "task"
  BY DEF KindOf
<1> HIDE DEF KindOf, Accept
<1> QED BY ONLY <1>1, <1>2, <1>3, id = u.id, goal = u, PromisedWhole

LEMMA FoldersPromised ==
  ASSUME Readable, NEW c,
         \/ FolderRequest(c)
         \/ \E args \in NewFolders : FolderAddCmd(c, args)
         \/ \E id \in DOMAIN model.folder, args \in FolderChanges : FolderUpdateCmd(c, id, args)
         \/ \E id \in DOMAIN model.folder : FolderDropCmd(c, id)
  PROVE  AsPromised(c)
<1>1. ASSUME NEW id \in DOMAIN model.folder, NEW f, f = model.folder[id]
      PROVE  f.id = id /\ f = [field \in FolderFields |-> f[field]]
  <2>1. SoundIndex(index) /\ model = BuildModel(index) /\ "folder" \in Groups
    BY DEF Readable, Groups
  <2>2. \A i \in DOMAIN Objects(model, "folder") :
            Objects(model, "folder")[i] =
                IF "folder" = "folder" THEN BuildFolder(i, index["folder"][i]) ELSE BuildTag(i, index["folder"][i])
    BY ONLY <2>1, GroupModel
  <2>3. f = BuildFolder(id, index["folder"][id])
    BY <1>1, <2>2 DEF Objects
  <2> QED BY <2>3 DEF BuildFolder, FolderFields
<1>2. ASSUME NEW args, AddFolder(c, args) \/ FolderAddCmd(c, args) PROVE AsPromised(c)
  <2>1. PICK u : u = [id |-> NewIds[now], name |-> Arg(args, "name", Nobody), parent |-> Arg(args, "parent", Nobody)]
    OBVIOUS
  <2>2. Accept(c, "folder", u.id, u, <<BuilderAddFolder(u)>>)
    BY <1>2, <2>1 DEF AddFolder, FolderAddCmd, CreateFolder, AddFolderPlan
  <2>3. u = [field \in FolderFields |-> u[field]]
    BY <2>1 DEF FolderFields
  <2> QED BY <2>2, <2>3, FolderPromised
<1>3. ASSUME NEW id \in DOMAIN model.folder, NEW args, NEW u, u = Placed(model.folder[id], args),
             Accept(c, "folder", id, u, UpdateFolderPlan(u))
      PROVE  AsPromised(c)
  <2>1. PICK f : f = model.folder[id]
    OBVIOUS
  <2>2. f.id = id /\ f = [field \in FolderFields |-> f[field]]
    BY <1>1, <2>1
  <2>3. u.id = f.id /\ u = [field \in FolderFields |-> u[field]]
    BY <1>3, <2>1, <2>2 DEF Placed, FolderFields
  <2>4. Accept(c, "folder", id, u, <<BuilderAddFolder(u)>>)
    BY <1>3 DEF UpdateFolderPlan, BuilderUpdateFolder
  <2> QED BY <2>2, <2>3, <2>4, FolderPromised
<1>4. ASSUME NEW id \in DOMAIN model.folder, NEW args, UpdateFolder(c, id, args) \/ FolderUpdateCmd(c, id, args)
      PROVE  AsPromised(c)
  <2>1. CASE UpdateFolder(c, id, args)
    <3>1. PICK u : u = Placed(model.folder[id], args) /\ Accept(c, "folder", id, u, UpdateFolderPlan(u))
      BY <2>1 DEF UpdateFolder
    <3> QED BY <1>3, <3>1
  <2>2. CASE FolderUpdateCmd(c, id, args)
    <3>1. PICK passed, u : passed = Passed(args, {"name"}) /\ u = Placed(model.folder[id], passed)
                             /\ Accept(c, "folder", id, u, UpdateFolderPlan(u))
      BY <2>2 DEF FolderUpdateCmd
    <3> QED BY <1>3, <3>1
  <2> QED BY <1>4, <2>1, <2>2
<1>5. ASSUME NEW id \in DOMAIN model.folder, DropFolder(c, id) PROVE AsPromised(c)
  <2>1. PICK e : e = AddFolderDeletion(id)
    OBVIOUS
  <2>2. model.folder[id].id = id
    BY <1>1
  <2>3. Accept(c, "folder", id, Empty, <<e>>)
    BY <1>5, <2>1, <2>2 DEF DropFolder, DropFolderPlan
  <2>4. PICK g, plan : g = Applied(index[KindOf("folder")], e) /\ plan = <<e>>
    OBVIOUS
  <2>5. Leads(index[KindOf("folder")], plan, g) /\ ShownFrom(g, "folder", id, Empty)
    BY <2>1, <2>4, LeadsOne, DeletionShown
  <2>6. Promises("folder", id, Empty, plan) /\ KindOf("folder") # "task"
    BY <2>5 DEF Promises, KindOf
  <2>7. ~(Len(plan) > 1)
    <3>1. PICK n : n = Len(plan)
      OBVIOUS
    <3>2. ~(n > 1)
      BY <2>4, <3>1
    <3> QED BY <3>1, <3>2
  <2> HIDE DEF KindOf, Accept
  <2> QED BY <2>3, <2>4, <2>6, <2>7 DEF AsPromised
<1> QED BY <1>2, <1>4, <1>5 DEF FolderRequest, FolderDropCmd

LEMMA TagsPromised ==
  ASSUME Readable, NEW c,
         \/ TagRequest(c)
         \/ \E args \in NewTags : TagAddCmd(c, args)
         \/ \E id \in DOMAIN model.tag, args \in TagChanges : TagUpdateCmd(c, id, args)
         \/ \E id \in DOMAIN model.tag : TagDropCmd(c, id)
  PROVE  AsPromised(c)
<1>1. ASSUME NEW id \in DOMAIN model.tag, NEW g, g = model.tag[id]
      PROVE  g.id = id /\ g = [field \in TagFields |-> g[field]]
  <2>1. SoundIndex(index) /\ model = BuildModel(index) /\ "context" \in Groups
    BY DEF Readable, Groups
  <2>2. \A i \in DOMAIN Objects(model, "context") :
            Objects(model, "context")[i] =
                IF "context" = "folder" THEN BuildFolder(i, index["context"][i]) ELSE BuildTag(i, index["context"][i])
    BY ONLY <2>1, GroupModel
  <2>3. g = BuildTag(id, index["context"][id])
    BY <1>1, <2>2 DEF Objects
  <2> QED BY <2>3 DEF BuildTag, TagFields
<1>2. ASSUME NEW args, AddTag(c, args) \/ TagAddCmd(c, args) PROVE AsPromised(c)
  <2>1. PICK u : u = [id |-> NewIds[now], name |-> Arg(args, "name", Nobody), parent |-> Arg(args, "parent", Nobody),
                      note |-> Arg(args, "note", Nobody), hidden |-> Never]
    OBVIOUS
  <2>2. Accept(c, "tag", u.id, u, <<BuilderAddTag(u)>>)
    BY <1>2, <2>1 DEF AddTag, TagAddCmd, CreateTag, AddTagPlan
  <2>3. u = [field \in TagFields |-> u[field]]
    BY <2>1 DEF TagFields
  <2> QED BY <2>2, <2>3, TagPromised
<1>3. ASSUME NEW id \in DOMAIN model.tag, NEW args, NEW note, NEW v, v = Placed(model.tag[id], args),
             NEW u, u = [v EXCEPT !.note = note], Accept(c, "tag", id, u, UpdateTagPlan(u))
      PROVE  AsPromised(c)
  <2>1. PICK g : g = model.tag[id]
    OBVIOUS
  <2>2. g.id = id /\ g = [field \in TagFields |-> g[field]]
    BY <1>1, <2>1
  <2>3. v.id = g.id /\ v = [field \in TagFields |-> v[field]]
    BY <1>3, <2>1, <2>2 DEF Placed, TagFields
  <2>4. u.id = g.id /\ u = [field \in TagFields |-> u[field]]
    BY <1>3, <2>3 DEF TagFields
  <2>5. Accept(c, "tag", id, u, <<BuilderAddTag(u)>>)
    BY <1>3 DEF UpdateTagPlan, BuilderUpdateTag
  <2> QED BY <2>2, <2>4, <2>5, TagPromised
<1>4. ASSUME NEW id \in DOMAIN model.tag, NEW args, UpdateTag(c, id, args) \/ TagUpdateCmd(c, id, args)
      PROVE  AsPromised(c)
  <2>1. PICK passed, v, note, u :
            /\ v = Placed(model.tag[id], passed) /\ u = [v EXCEPT !.note = note]
            /\ Accept(c, "tag", id, u, UpdateTagPlan(u))
    BY <1>4 DEF UpdateTag, TagUpdateCmd
  <2> QED BY <1>3, <2>1
<1>5. ASSUME NEW id \in DOMAIN model.tag, DropTag(c, id) PROVE AsPromised(c)
  <2>1. PICK g, u : g = model.tag[id] /\ u = [g EXCEPT !.hidden = now]
    OBVIOUS
  <2>2. g.id = id /\ g = [field \in TagFields |-> g[field]]
    BY <1>1, <2>1
  <2>3. u.id = id /\ u = [field \in TagFields |-> u[field]]
    BY <2>1, <2>2 DEF TagFields
  <2>4. Accept(c, "tag", id, u, <<BuilderAddTag(u)>>)
    BY <1>5, <2>1 DEF DropTag, DropTagPlan, UpdateTagPlan, BuilderUpdateTag
  <2> QED BY <2>3, <2>4, TagPromised
<1> QED BY <1>2, <1>4, <1>5 DEF TagRequest, TagDropCmd

LEMMA PromisesInit == Init => KeepsPromises
<1> SUFFICES ASSUME Init PROVE KeepsPromises
  OBVIOUS
<1>1. DOMAIN index.task \intersect Unused = {}
  BY IdAssumption DEF Init, Unused, Kinds
<1>2. ASSUME NEW c \in Callers PROVE Promised(call[c]) /\ InUse(call[c].of, call[c].plan) /\ Alone(call[c])
  <2>1. call[c].plan = Empty
    BY DEF Init, Idle
  <2>2. Len(Empty) = 0
    BY EmptySeq DEF Empty
  <2> QED BY <2>1, <2>2 DEF Promised, InUse, Alone
<1>3. DOMAIN log = {}
  BY DEF Init, Empty
<1> QED BY <1>1, <1>2, <1>3, InitInv DEF KeepsPromises

LEMMA AcceptKeepsPromises ==
  ASSUME KeepsPromises, Inv', NEW c \in Callers, AsPromised(c)
  PROVE  KeepsPromises'
<1>1. PICK of, id, goal, plan :
          /\ Accept(c, of, id, goal, plan) /\ Promises(of, id, goal, plan)
          /\ KindOf(of) = "task" =>
                 \A i \in 1..Len(plan) : plan[i].id \in DOMAIN index.task \union {NewIds[now]}
          /\ Len(plan) > 1 => \A i \in 1..Len(plan) : plan[i].id = NewIds[now]
  BY DEF AsPromised
<1>2. PICK k : k = [plan |-> plan, of |-> of, id |-> id, goal |-> goal, chain |-> Len(plan) > 1, fresh |-> TRUE]
  OBVIOUS
<1>3. call' = [call EXCEPT ![c] = k] /\ now' = now + 1 /\ index' = index /\ log' = log
  BY <1>1, <1>2 DEF Accept
<1>4. k.plan = plan /\ k.of = of /\ k.id = id /\ k.goal = goal /\ (k.chain => Len(plan) > 1)
  BY <1>2
<1> HIDE DEF KindOf
<1>5. now \in 1..MaxRequests
  BY <1>3, IdAssumption DEF KeepsPromises, Inv, Readable
<1>6. Unused' \subseteq Unused /\ NewIds[now] \notin Unused'
  BY <1>3, <1>5, IdAssumption DEF Unused
<1>7. (DOMAIN index.task \intersect Unused = {})'
  BY <1>3, <1>6 DEF KeepsPromises
<1>8. call = [d \in Callers |-> call[d]]
  BY DEF KeepsPromises, Inv, SoundCalls
<1>9. ASSUME NEW d \in Callers PROVE (Promised(call[d]) /\ InUse(call[d].of, call[d].plan) /\ Alone(call[d]))'
  <2>1. CASE d = c
    <3>1. call'[d] = k
      BY <1>3, <1>8, <2>1
    <3>2. Promises(of, id, goal, plan)'
      BY <1>1, <1>3 DEF Promises
    <3>3. Promised(call[d])'
      BY <1>4, <3>1, <3>2 DEF Promised
    <3>4. KindOf(of) = "task" => \A i \in 1..Len(plan) : plan[i].id \notin Unused'
      BY <1>1, <1>3, <1>6, <1>7
    <3>5. InUse(call[d].of, call[d].plan)'
      BY <1>4, <3>1, <3>4 DEF InUse
    <3>6. NewIds[now] \notin DOMAIN log
      BY <1>5, IdAssumption DEF KeepsPromises, Unused
    <3>7. Alone(call[d])'
      BY <1>1, <1>3, <1>4, <3>1, <3>6 DEF Alone, AllAdded
    <3> QED BY <3>3, <3>5, <3>7
  <2>2. CASE d # c
    <3>1. call'[d] = call[d]
      BY <1>3, <1>8, <2>2
    <3>2. Promised(call[d]) /\ InUse(call[d].of, call[d].plan) /\ Alone(call[d])
      BY DEF KeepsPromises
    <3>3. Promised(call[d])'
      BY <1>3, <3>1, <3>2 DEF Promised, Promises
    <3>4. InUse(call[d].of, call[d].plan)'
      BY <1>6, <3>1, <3>2 DEF InUse
    <3>5. Alone(call[d])'
      BY <1>3, <3>1, <3>2 DEF Alone, AllAdded
    <3> QED BY <3>3, <3>4, <3>5
  <2> QED BY <2>1, <2>2
<1>10. (DOMAIN log \intersect Unused = {})'
  BY <1>3, <1>6 DEF KeepsPromises
<1> QED BY <1>7, <1>9, <1>10 DEF KeepsPromises

\* Who adds a task, and nobody got between its deltas, adds one more, which
\* readers apply last.
LEMMA AdditionGoesOn ==
  ASSUME KeepsPromises, NEW e, SoundElement(e), NEW caller \in Callers, Uploaded(e, caller),
         call[caller].plan # Empty, e = Head(call[caller].plan), call[caller].chain, call[caller].fresh
  PROVE  AllAdded(e.id)' /\ index' = IndexElement(index, e)
<1>1. PICK k, s : k = call[caller] /\ s = log[e.id]
  OBVIOUS
<1>2. Inv
  BY DEF KeepsPromises
<1>3. SoundCall(k) /\ Alone(k) /\ k.plan # Empty /\ k.chain /\ k.fresh
  BY <1>1, <1>2 DEF KeepsPromises, Inv, SoundCalls
<1>4. SoundPlan(k.of, k.plan) /\ KindOf(k.of) = "task"
  BY <1>3 DEF SoundCall, Chain
<1>5. e = k.plan[1] /\ 1 \in 1..Len(k.plan)
  <2>1. Len(k.plan) \in Nat \ {0} /\ Head(k.plan) = k.plan[1]
    BY <1>3, <1>4, RestOfPlan
  <2> QED BY <1>1, <2>1
<1>6. e.kind = "task"
  BY <1>4, <1>5 DEF SoundPlan
<1>7. AllAdded(e.id)
  BY <1>3, <1>5 DEF Alone
<1>8. PICK entry : entry = Entry(e, caller)
  OBVIOUS
<1>9. entry.added
  BY <1>1, <1>3, <1>8 DEF Entry
<1>10. ~AppliedEarlier(e, caller)
  <2> SUFFICES ASSUME AppliedEarlier(e, caller) PROVE FALSE
    OBVIOUS
  <2>1. e.id \in DOMAIN log /\ EarlierPlaces(s, entry) # {}
    BY <1>1, <1>8 DEF AppliedEarlier
  <2>2. SoundEntries(e.id, s)
    BY <1>1, <1>2, <2>1 DEF Inv, SoundLog
  <2>3. PICK i \in 2..Len(s) : \A j \in i..Len(s) : s[j].added # entry.added
    BY <2>1 DEF EarlierPlaces
  <2>4. Len(s) \in Nat
    BY <2>2 DEF SoundEntries
  <2>5. i \in i..Len(s) /\ i \in 1..Len(s)
    BY <2>3, <2>4
  <2>6. s[i].added # entry.added
    BY <2>3, <2>5
  <2>7. s[i].added
    BY <1>1, <1>7, <2>1, <2>5 DEF AllAdded
  <2> QED BY <1>8, <1>9, <2>6, <2>7
<1>11. index' = IndexElement(index, e) /\ log' = Logged(e, caller)
  BY <1>10 DEF Uploaded, AppliedLast
<1>12. CASE Begins(e, caller)
  <2>1. log'[e.id] = <<entry>>
    BY <1>8, <1>11, <1>12 DEF Logged, LogWith
  <2>2. AllAdded(e.id)'
    BY <1>9, <2>1 DEF AllAdded
  <2> QED BY <1>11, <2>2
<1>13. CASE ~Begins(e, caller) /\ e.id \in DOMAIN log
  <2>1. log'[e.id] = Append(s, entry)
    BY <1>1, <1>6, <1>8, <1>11, <1>13 DEF Logged, LogWith
  <2>2. PICK S, n : s \in Seq(S) /\ n = Len(s) /\ n \in Nat
    <3>1. SoundEntries(e.id, s)
      BY <1>1, <1>2, <1>13 DEF Inv, SoundLog
    <3>2. PICK S : s \in Seq(S)
      BY <3>1 DEF SoundEntries
    <3>3. PICK n : n = Len(s)
      OBVIOUS
    <3>4. n \in Nat
      BY <3>2, <3>3
    <3> QED BY <3>2, <3>3, <3>4
  <2>3. PICK t : t = Append(s, entry)
    OBVIOUS
  <2>4. Len(t) = n + 1 /\ t[n + 1] = entry /\ \A i \in 1..n : t[i] = s[i]
    BY <2>2, <2>3
  <2>5. \A i \in 1..n : s[i].added
    BY <1>1, <1>7, <1>13, <2>2 DEF AllAdded
  <2>6. ASSUME NEW i \in 1..Len(t) PROVE t[i].added
    <3>1. CASE i = n + 1
      BY <1>9, <2>4, <3>1
    <3>2. CASE i # n + 1
      <4>1. i \in 1..n
        BY <2>2, <2>4, <3>2
      <4> QED BY <2>4, <2>5, <4>1
    <3> QED BY <3>1, <3>2
  <2> QED BY <1>11, <2>1, <2>3, <2>6 DEF AllAdded
<1>14. CASE ~Begins(e, caller) /\ e.id \notin DOMAIN log
  BY <1>11, <1>14 DEF Logged, AllAdded
<1> QED BY <1>12, <1>13, <1>14

LEMMA UploadKeepsPromises ==
  ASSUME KeepsPromises, Inv', NEW e, SoundElement(e), e.kind = "task" => e.id \notin Unused,
         NEW caller, UNCHANGED now, Uploaded(e, caller),
         caller \in Callers => call[caller].plan # Empty /\ e = Head(call[caller].plan)
  PROVE  KeepsPromises'
<1>1. e.kind \in Kinds /\ index = [kind \in Kinds |-> index[kind]]
  BY DEF SoundElement, KeepsPromises, Inv, Readable, SoundIndex
<1>2. PICK x, y : x = index /\ y = index'
  OBVIOUS
<1>3. Beside(x, y, e.kind, e.id)
  BY <1>2, UploadedEffect DEF KeepsPromises
<1>4. Unused' = Unused
  BY DEF Unused
<1>5. (DOMAIN index.task \intersect Unused = {})'
  <2>1. CASE e.kind = "task"
    <3>1. DOMAIN y.task \subseteq DOMAIN x.task \union {e.id}
      BY <1>3, <2>1 DEF Beside
    <3> QED BY <1>2, <1>4, <2>1, <3>1 DEF KeepsPromises
  <2>2. CASE e.kind # "task"
    BY <1>2, <1>3, <1>4, <2>2 DEF KeepsPromises, Beside, Kinds
  <2> QED BY <2>1, <2>2
<1>6. /\ e.kind # "task" => log' = log
      /\ \A id \in DOMAIN log' \ {e.id} : id \in DOMAIN log /\ log'[id] = log[id]
  BY LogEffect DEF KeepsPromises
<1>7. (DOMAIN log \intersect Unused = {})'
  BY <1>4, <1>6 DEF KeepsPromises
<1>8. ASSUME NEW d \in Callers
      PROVE  (Promised(call[d]) /\ InUse(call[d].of, call[d].plan) /\ Alone(call[d]))'
  <2>1. PICK k : k = call[d]
    OBVIOUS
  <2>2. SoundCall(k) /\ Promised(k) /\ InUse(k.of, k.plan) /\ Alone(k)
    BY <2>1 DEF KeepsPromises, Inv, SoundCalls
  <2>3. k = [field \in CallFields |-> k[field]] /\ SoundPlan(k.of, k.plan) /\ KindOf(k.of) \in Kinds
        /\ Chain(k.of, k.chain, k.plan)
    BY <2>2 DEF SoundCall, KindOf, Kinds
  <2>4. k.plan # Empty => /\ Len(k.plan) \in Nat \ {0} /\ Head(k.plan) = k.plan[1] /\ IsSequence(k.plan)
                          /\ Head(k.plan).kind = KindOf(k.of)
    <3> SUFFICES ASSUME k.plan # Empty
                 PROVE  /\ Len(k.plan) \in Nat \ {0} /\ Head(k.plan) = k.plan[1] /\ IsSequence(k.plan)
                        /\ Head(k.plan).kind = KindOf(k.of)
      OBVIOUS
    <3>1. Len(k.plan) \in Nat \ {0} /\ Head(k.plan) = k.plan[1]
      BY <2>3, RestOfPlan
    <3>2. PICK of, plan : of = k.of /\ plan = k.plan
      OBVIOUS
    <3>3. SoundPlan(of, plan) /\ 1 \in 1..Len(plan)
      BY <2>3, <3>1, <3>2
    <3>4. IsSequence(plan) /\ plan[1].kind = KindOf(of)
      BY ONLY <3>3 DEF SoundPlan
    <3> QED BY <3>1, <3>2, <3>4
  <2>5. k.chain => KindOf(k.of) = "task"
    BY <2>3 DEF Chain
  <2> HIDE DEF KindOf
  <2>6. CASE d = caller
    <3>1. k.plan # Empty /\ e = Head(k.plan)
      BY <2>1, <2>6
    <3>2. CASE Len(k.plan) = 1
      <4>1. call'[d] = Idle
        BY <2>1, <2>6, <3>2 DEF Uploaded, Remaining
      <4>2. call'[d].plan = Empty /\ Len(Empty) = 0
        BY <4>1, EmptySeq DEF Idle, Empty
      <4> QED BY <4>2 DEF Promised, InUse, Alone
    <3>3. CASE Len(k.plan) # 1
      <4>1. PICK j : j = [k EXCEPT !.plan = Tail(@)]
        OBVIOUS
      <4>2. call'[d] = j
        BY <2>1, <2>6, <3>3, <4>1 DEF Uploaded, Remaining
      <4>3. /\ j.plan = Tail(k.plan) /\ j.of = k.of /\ j.id = k.id /\ j.goal = k.goal
            /\ j.chain = k.chain /\ j.fresh = k.fresh
        BY <2>3, <4>1 DEF CallFields
      <4>4. PICK n : n = Len(k.plan) /\ n \in Nat /\ n > 1
        <5>1. PICK n : n = Len(k.plan)
          OBVIOUS
        <5>2. n \in Nat /\ n # 0 /\ n # 1
          BY <2>4, <3>1, <3>3, <5>1
        <5>3. n > 1
          BY <5>2
        <5> QED BY <5>1, <5>2, <5>3
      <4>5. k.chain
        <5>1. Len(k.plan) > 1
          BY <4>4
        <5> QED BY <2>3, <5>1 DEF Chain
      <4>6. k.fresh => AllAdded(e.id)' /\ index' = IndexElement(index, e)
        BY <2>1, <2>6, <3>1, <4>5, AdditionGoesOn
      <4>7. k.fresh => Promises(k.of, k.id, k.goal, Tail(k.plan))'
        <5> SUFFICES ASSUME k.fresh PROVE Promises(k.of, k.id, k.goal, Tail(k.plan))'
          OBVIOUS
        <5>1. PICK g : Leads(index[KindOf(k.of)], k.plan, g) /\ ShownFrom(g, k.of, k.id, k.goal)
          BY <2>2, <3>1 DEF Promised, Promises
        <5>2. PICK f, h, plan : f = index[KindOf(k.of)] /\ h = Applied(f, Head(plan)) /\ plan = k.plan
          OBVIOUS
        <5>3. IsSequence(plan) /\ plan # Empty /\ Leads(f, plan, g)
          BY <2>4, <3>1, <5>1, <5>2
        <5>4. Leads(h, Tail(plan), g)
          BY ONLY <5>2, <5>3, LeadsRest
        <5>5. y[e.kind] = Applied(x[e.kind], e)
          <6>1. x = [kind \in Kinds |-> x[kind]] /\ y = IndexElement(x, e)
            BY <1>1, <1>2, <4>6
          <6> QED BY ONLY <1>1, <6>1, AppliedEffect
        <5>6. index'[KindOf(k.of)] = h
          BY <1>2, <2>4, <3>1, <5>2, <5>5
        <5> QED BY <5>1, <5>2, <5>4, <5>6 DEF Promises
      <4>8. Promised(call[d])'
        BY <4>2, <4>3, <4>7 DEF Promised
      <4>9. Len(Tail(k.plan)) = n - 1 /\ \A i \in 1..(n - 1) : Tail(k.plan)[i] = k.plan[i + 1]
        BY <2>4, <3>1, <4>4 DEF IsSequence, Empty
      <4>10. KindOf(k.of) = "task" => \A i \in 1..Len(Tail(k.plan)) : Tail(k.plan)[i].id \notin Unused
        BY <2>2, <4>4, <4>9 DEF InUse
      <4>11. InUse(call[d].of, call[d].plan)'
        BY <1>4, <4>2, <4>3, <4>10 DEF InUse
      <4>12. k.fresh => \A i \in 1..Len(Tail(k.plan)) : AllAdded(Tail(k.plan)[i].id)'
        <5> SUFFICES ASSUME k.fresh, NEW i \in 1..(n - 1) PROVE AllAdded(k.plan[i + 1].id)'
          BY <4>9
        <5>1. AllAdded(k.plan[i + 1].id)
          BY <2>2, <4>4, <4>5 DEF Alone
        <5>2. CASE k.plan[i + 1].id = e.id
          BY <4>6, <5>2
        <5>3. CASE k.plan[i + 1].id # e.id
          BY <1>6, <5>1, <5>3 DEF AllAdded
        <5> QED BY <5>2, <5>3
      <4>13. Alone(call[d])'
        BY <4>2, <4>3, <4>12 DEF Alone
      <4> QED BY <4>8, <4>11, <4>13
    <3> QED BY <3>2, <3>3
  <2>7. CASE d # caller /\ k.plan # Empty /\ Head(k.plan).kind = e.kind
    <3>1. PICK j : j = [k EXCEPT !.fresh = FALSE]
      OBVIOUS
    <3>2. call'[d] = j
      BY <2>1, <2>7, <3>1 DEF Uploaded, Remaining
    <3>3. j.plan = k.plan /\ j.of = k.of /\ j.fresh = FALSE
      BY <2>3, <3>1 DEF CallFields
    <3>4. Promised(call[d])' /\ Alone(call[d])'
      BY <3>2, <3>3 DEF Promised, Alone
    <3>5. InUse(call[d].of, call[d].plan)'
      BY <1>4, <2>2, <3>2, <3>3 DEF InUse
    <3> QED BY <3>4, <3>5
  <2>8. CASE d # caller /\ (k.plan = Empty \/ Head(k.plan).kind # e.kind)
    <3>1. call'[d] = k
      BY <2>1, <2>8 DEF Uploaded, Remaining
    <3>2. k.plan # Empty => index'[KindOf(k.of)] = index[KindOf(k.of)]
      BY <1>2, <1>3, <2>3, <2>4, <2>8 DEF Beside
    <3>3. Promised(call[d])'
      BY <2>2, <3>1, <3>2 DEF Promised, Promises
    <3>4. InUse(call[d].of, call[d].plan)'
      BY <1>4, <2>2, <3>1 DEF InUse
    <3>5. (k.plan # Empty /\ k.chain) => log' = log
      BY <1>6, <2>4, <2>5, <2>8
    <3>6. Len(Empty) = 0
      BY EmptySeq DEF Empty
    <3>7. Alone(call[d])'
      BY <2>2, <3>1, <3>5, <3>6 DEF Alone, AllAdded
    <3> QED BY <3>3, <3>4, <3>7
  <2> QED BY <2>6, <2>7, <2>8
<1> QED BY <1>5, <1>7, <1>8 DEF KeepsPromises

LEMMA RequestPromised ==
  ASSUME Readable, DOMAIN index.task \intersect Unused = {}, NEW c, Request(c) \/ Command(c)
  PROVE  AsPromised(c)
<1>1. CASE \/ TaskRequest(c)
           \/ \E args \in NewTasks : AddCmd(c, args)
           \/ \E id \in DOMAIN model.task : DoneCmd(c, id) \/ TaskDropCmd(c, id)
           \/ \E id \in DOMAIN model.task, args \in TaskChanges : TaskUpdateCmd(c, id, args)
  BY <1>1, TasksPromised
<1>2. CASE \/ ProjectRequest(c)
           \/ \E args \in NewProjects : ProjectAddCmd(c, args)
           \/ \E id \in DOMAIN model.project, args \in ProjectChanges : ProjectUpdateCmd(c, id, args)
           \/ \E id \in DOMAIN model.project : ProjectDoneCmd(c, id)
  BY <1>2, ProjectsPromised
<1>3. CASE \/ FolderRequest(c)
           \/ \E args \in NewFolders : FolderAddCmd(c, args)
           \/ \E id \in DOMAIN model.folder, args \in FolderChanges : FolderUpdateCmd(c, id, args)
           \/ \E id \in DOMAIN model.folder : FolderDropCmd(c, id)
  BY <1>3, FoldersPromised
<1>4. CASE \/ TagRequest(c)
           \/ \E args \in NewTags : TagAddCmd(c, args)
           \/ \E id \in DOMAIN model.tag, args \in TagChanges : TagUpdateCmd(c, id, args)
           \/ \E id \in DOMAIN model.tag : TagDropCmd(c, id)
  BY <1>4, TagsPromised
<1> QED BY <1>1, <1>2, <1>3, <1>4 DEF Request, Command

\* The delta that a caller publishes next.
LEMMA NextDelta ==
  ASSUME KeepsPromises, NEW c \in Callers, call[c].plan # Empty, NEW e, e = Head(call[c].plan)
  PROVE  /\ SoundElement(e) /\ e.kind = KindOf(call[c].of) /\ IsSequence(call[c].plan)
         /\ e.kind = "task" => e.id \notin Unused
<1>1. PICK k : k = call[c]
  OBVIOUS
<1>2. SoundPlan(k.of, k.plan) /\ InUse(k.of, k.plan)
  BY <1>1 DEF KeepsPromises, Inv, SoundCalls, SoundCall
<1>3. Len(k.plan) \in Nat \ {0} /\ e = k.plan[1]
  BY <1>1, <1>2, RestOfPlan
<1> HIDE DEF KindOf, SoundElement
<1> QED BY <1>1, <1>2, <1>3 DEF SoundPlan, InUse

LEMMA PromisesNext == KeepsPromises /\ [Next]_vars => KeepsPromises'
<1> SUFFICES ASSUME KeepsPromises, [Next]_vars PROVE KeepsPromises'
  OBVIOUS
<1>1. Inv'
  BY NextInv DEF KeepsPromises
<1>2. CASE UNCHANGED vars
  <2>1. UNCHANGED <<index, call, now, log>>
    BY <1>2 DEF vars
  <2> QED BY <1>1, <2>1 DEF KeepsPromises, Unused, Promised, Promises, InUse, Alone, AllAdded
<1>3. ASSUME NEW c \in Callers, Request(c) \/ Command(c) PROVE KeepsPromises'
  <2>1. AsPromised(c)
    BY <1>3, RequestPromised DEF KeepsPromises, Inv
  <2> QED BY <1>1, <2>1, AcceptKeepsPromises
<1>4. ASSUME NEW c \in Callers, Publish(c) PROVE KeepsPromises'
  <2>1. PICK e : e = Head(call[c].plan)
    OBVIOUS
  <2>2. call[c].plan # Empty /\ Uploaded(e, c) /\ UNCHANGED now
    BY <1>4, <2>1 DEF Publish
  <2>3. SoundElement(e) /\ (e.kind = "task" => e.id \notin Unused)
    BY <2>1, <2>2, NextDelta
  <2> QED BY <1>1, <2>1, <2>2, <2>3, UploadKeepsPromises
<1>5. ASSUME NEW c \in Callers, Abandon(c) PROVE KeepsPromises'
  <2>1. call' = [call EXCEPT ![c] = Idle] /\ UNCHANGED <<index, now, log>>
    BY <1>5 DEF Abandon
  <2>2. call = [d \in Callers |-> call[d]]
    BY DEF KeepsPromises, Inv, SoundCalls
  <2>3. Idle.plan = Empty /\ Len(Empty) = 0
    BY EmptySeq DEF Idle, Empty
  <2> HIDE DEF Idle
  <2>4. \A d \in Callers : call'[d] \in {Idle, call[d]}
    BY <2>1, <2>2
  <2>5. Unused' = Unused
    BY <2>1 DEF Unused
  <2>6. ASSUME NEW d \in Callers
        PROVE  (Promised(call[d]) /\ InUse(call[d].of, call[d].plan) /\ Alone(call[d]))'
    <3>1. CASE call'[d] = Idle
      BY <2>3, <3>1 DEF Promised, InUse, Alone
    <3>2. CASE call'[d] = call[d]
      BY <2>1, <2>5, <3>2 DEF KeepsPromises, Promised, Promises, InUse, Alone, AllAdded
    <3> QED BY <2>4, <3>1, <3>2
  <2> QED BY <1>1, <2>1, <2>5, <2>6 DEF KeepsPromises
<1>6. ASSUME NEW e \in AppElements, AppEdit(e) PROVE KeepsPromises'
  <2>1. e.id \in DOMAIN index[e.kind] /\ Uploaded(e, Nobody) /\ UNCHANGED now
    BY <1>6 DEF AppEdit
  <2>2. SoundElement(e) /\ (e.kind = "task" => e.id \notin Unused)
    BY <2>1, AppAssumption DEF KeepsPromises
  <2> QED BY <1>1, <2>1, <2>2, CallersAssumption, UploadKeepsPromises
<1> QED BY <1>2, <1>3, <1>4, <1>5, <1>6 DEF Next, Delivery

\* Whatever a caller asks for, with all its deltas published, nobody writing
\* objects of the kind in between and readers applying the last delta last,
\* readers see it exactly so: the writer's elements, the merge and the
\* builders lose and add nothing (api_service.py:252, writer.py:900).
THEOREM WritesAreReadBack == Spec => PublishedAsPromised
<1> DEFINE Shown ==
             \A c \in Callers :
                 (/\ Publish(c)
                  /\ Len(call[c].plan) = 1 /\ call[c].fresh
                  /\ AppliedLast(Head(call[c].plan), c)) => Shows(model', call[c])
<1>1. KeepsPromises /\ [Next]_vars => [Shown]_vars
  <2> SUFFICES ASSUME KeepsPromises, [Next]_vars, NEW c \in Callers, Publish(c), Len(call[c].plan) = 1,
                      call[c].fresh, AppliedLast(Head(call[c].plan), c)
               PROVE  Shows(model', call[c])
    OBVIOUS
  <2>1. PICK k, e, plan : k = call[c] /\ plan = k.plan /\ e = Head(plan)
    OBVIOUS
  <2>2. plan # Empty /\ Uploaded(e, c) /\ Len(plan) = 1
    BY <2>1 DEF Publish
  <2>3. SoundElement(e) /\ e.kind = KindOf(k.of) /\ IsSequence(plan)
    BY <2>1, <2>2, NextDelta
  <2> HIDE DEF KindOf
  <2>4. PICK f, g : f = index[e.kind] /\ Leads(f, plan, g) /\ ShownFrom(g, k.of, k.id, k.goal)
    BY <2>1, <2>2, <2>3 DEF KeepsPromises, Promised, Promises
  <2>5. PICK h : h = Applied(f, Head(plan))
    OBVIOUS
  <2>6. h = g
    BY ONLY <2>2, <2>3, <2>4, <2>5, LeadsRest
  <2>7. index'[e.kind] = h /\ model' = BuildModel(index')
    <3>1. PICK x, y : x = index /\ y = index'
      OBVIOUS
    <3>2. e.kind \in Kinds /\ x = [kind \in Kinds |-> x[kind]] /\ y = IndexElement(x, e)
      BY <2>1, <2>2, <2>3, <3>1 DEF SoundElement, KeepsPromises, Inv, Readable, SoundIndex, AppliedLast
    <3>3. y[e.kind] = Applied(x[e.kind], e)
      BY ONLY <3>2, AppliedEffect
    <3> QED BY <2>1, <2>2, <2>4, <2>5, <3>1, <3>3 DEF Uploaded
  <2>8. PICK y, m : y = index' /\ m = model'
    OBVIOUS
  <2>9. Shows(BuildModel(y), [of |-> k.of, id |-> k.id, goal |-> k.goal])
    BY <2>3, <2>4, <2>6, <2>7, <2>8 DEF ShownFrom
  <2>10. Shows(m, k)
    BY <2>7, <2>8, <2>9 DEF Shows
  <2> QED BY <2>1, <2>8, <2>10
<1> HIDE DEF Shown
<1>2. Spec => []KeepsPromises
  BY PromisesInit, PromisesNext, PTL DEF Spec
<1>3. Spec => [][Shown]_vars
  BY <1>1, <1>2, PTL DEF Spec
<1> QED BY <1>3 DEF PublishedAsPromised, Shown

-----------------------------------------------------------------------------
(* Folders and tags as trees. *)

\* The ids that have been in use so far, as far as they can be folders or tags.
Known(kind) == Ids(kind) \ {NewIds[i] : i \in now..MaxRequests}

UpOf(m, kind) == [n \in Ids(kind) |-> ParentIn(Objects(m, kind), n)]

Up(kind) == UpOf(model, kind)

\* All that is above p lies in a set that n is not in.
FreeIn(nodes, up, p, n) ==
    \E S \in SUBSET nodes :
        /\ p \in S /\ n \notin S
        /\ \A m \in S : up[m] \in S \union {Nobody}

Free(kind, p, n) == FreeIn(Ids(kind), Up(kind), p, n)

Located(kind, id, body) ==
    /\ id \in Known(kind) /\ ParentOf(kind, body) \in Known(kind) \union {Nobody}
    /\ NamelessAtRoot(kind, body)

\* What a caller is about to publish: as long as its model is not stale, it
\* closes no cycle.
Pending(kind, k) ==
    (k.of = Of(kind) /\ k.plan # Empty) =>
        LET e == k.plan[1]
            parent == ParentOf(kind, e.body)
        IN  /\ Located(kind, e.id, e.body)
            /\ k.fresh => parent \in {Nobody, Up(kind)[e.id]} \/ Free(kind, parent, e.id)

TreeInv(kind) ==
    /\ \A id \in DOMAIN index[kind] : Located(kind, id, index[kind][id])
    /\ \A c \in Callers : Pending(kind, call[c])

IndexParent(x, kind, n) == IF n \in DOMAIN x[kind] THEN ParentOf(kind, x[kind][n]) ELSE Nobody

\* A walk that leads out of the tree passes all that is above its start.
LEMMA LeadsOutIsFree ==
  ASSUME NEW objects, IsFiniteSet(DOMAIN objects),
         NEW nodes, NEW up, \A n \in nodes : up[n] = ParentIn(objects, n) /\ up[n] \in nodes \union {Nobody},
         NEW id, NEW parent \in nodes, LeadsOut(objects, id, parent)
  PROVE  FreeIn(nodes, up, parent, id)
<1> DEFINE step == [i \in DOMAIN objects |-> objects[i].parent]
           last == Cardinality(DOMAIN objects) + 1
           walk == Walk(step, parent, last)
<1>1. last \in Nat
  BY FS_CardinalityType
<1>2. walk[last] \notin DOMAIN objects /\ \A n \in 0..last : walk[n] # id
  BY DEF LeadsOut
<1>3. /\ walk[0] = parent
      /\ \A k \in 1..last : walk[k] = IF walk[k - 1] \in DOMAIN step THEN step[walk[k - 1]] ELSE walk[k - 1]
  <2>1. PICK n \in Nat : n = last
    BY <1>1
  <2>2. PICK w : w = Walk(step, parent, n)
    OBVIOUS
  <2>3. /\ w[0] = parent
        /\ \A k \in 1..n : w[k] = IF w[k - 1] \in DOMAIN step THEN step[w[k - 1]] ELSE w[k - 1]
    BY ONLY <2>2, n \in Nat, WalkSteps
  <2> QED BY <2>1, <2>2, <2>3
<1> HIDE DEF walk, last
<1> DEFINE S == {walk[k] : k \in 0..last} \intersect nodes
<1>4. parent \in S /\ id \notin S
  BY <1>1, <1>2, <1>3
<1>5. ASSUME NEW m \in S PROVE up[m] \in S \union {Nobody}
  <2>1. PICK k \in 0..last : m = walk[k]
    OBVIOUS
  <2>2. CASE m \in DOMAIN objects
    <3>1. k + 1 \in 1..last /\ (k + 1) - 1 = k
      BY <1>1, <1>2, <2>1, <2>2
    <3>2. walk[k + 1] = objects[m].parent
      BY <1>3, <2>1, <2>2, <3>1
    <3>3. up[m] = walk[k + 1] /\ k + 1 \in 0..last
      BY <2>2, <3>1, <3>2 DEF ParentIn
    <3> QED BY <3>3
  <2>3. CASE m \notin DOMAIN objects
    BY <2>3 DEF ParentIn
  <2> QED BY <2>2, <2>3
<1> QED BY <1>4, <1>5 DEF FreeIn

LEMMA NobodyIsNoId == ASSUME NEW kind \in Groups PROVE Nobody \notin Ids(kind) /\ kind \in Kinds /\ kind # "task"
<1>1. kind \in Kinds /\ Nobody \notin DOMAIN Baseline[kind]
  BY BaselineAssumption DEF SoundIndex, Groups, Kinds
<1>2. Nobody \notin Range(NewIds)
  BY IdAssumption DEF Range
<1> QED BY <1>1, <1>2 DEF Ids, FolderIds, TagIds, Groups

\* Without nameless objects below others, the parents that the model shows
\* are those of the index.
LEMMA UpFromIndex ==
  ASSUME NEW kind \in Groups, NEW x, SoundIndex(x), NEW m, m = BuildModel(x),
         \A id \in DOMAIN x[kind] : NamelessAtRoot(kind, x[kind][id])
  PROVE  \A n \in Ids(kind) : UpOf(m, kind)[n] = IndexParent(x, kind, n)
<1> SUFFICES ASSUME NEW n \in Ids(kind) PROVE UpOf(m, kind)[n] = IndexParent(x, kind, n)
  OBVIOUS
<1>1. PICK objects : objects = Objects(m, kind)
  OBVIOUS
<1>2. /\ n \in DOMAIN objects <=>
             n \in DOMAIN x[kind] /\ Value(x[kind][n], "name", Nobody) # Nobody
      /\ n \in DOMAIN objects => objects[n].parent = ParentOf(kind, x[kind][n])
  BY <1>1, GroupModel
<1>3. UpOf(m, kind)[n] = IF n \in DOMAIN objects THEN objects[n].parent ELSE Nobody
  BY <1>1 DEF UpOf, ParentIn
<1> QED BY <1>2, <1>3 DEF IndexParent, NamelessAtRoot

LEMMA PendingKept ==
  ASSUME NEW kind \in Groups, NEW k, Pending(kind, k),
         Up(kind)' = Up(kind), Known(kind) \subseteq Known(kind)'
  PROVE  Pending(kind, k)'
BY DEF Pending, Located, Free

\* A request changes nothing but the call that it makes.
LEMMA AcceptKeepsTree ==
  ASSUME NEW kind \in Groups, Inv, TreeInv(kind), NEW c \in Callers, NEW of, NEW id, NEW goal, NEW plan,
         Accept(c, of, id, goal, plan), NEW j, j = call'[c], Pending(kind, j)'
  PROVE  TreeInv(kind)' /\ Up(kind)' = Up(kind) /\ tainted' = tainted
<1>1. UNCHANGED <<index, model, tainted>> /\ now' = now + 1
      /\ \A d \in Callers \ {c} : call'[d] = call[d]
  BY DEF Accept, Inv, SoundCalls
<1>2. Up(kind)' = Up(kind)
  BY <1>1 DEF Up
<1>3. Known(kind) \subseteq Known(kind)'
  BY <1>1, IdAssumption DEF Known, Inv, Readable
<1>4. ASSUME NEW d \in Callers PROVE Pending(kind, call[d])'
  <2>1. CASE d = c
    BY <2>1 DEF Pending
  <2>2. CASE d # c
    <3>1. PICK k : k = call[d]
      OBVIOUS
    <3>2. Pending(kind, k)
      BY <3>1 DEF TreeInv
    <3>3. Pending(kind, k)'
      BY <1>2, <1>3, <3>2, PendingKept
    <3>4. call'[d] = k
      BY <1>1, <2>2, <3>1
    <3> QED BY <3>3, <3>4
  <2> QED BY <2>1, <2>2
<1>5. \A i \in DOMAIN index[kind] : Located(kind, i, index[kind][i])'
  BY <1>1, <1>3 DEF TreeInv, Located
<1> QED BY <1>1, <1>2, <1>4, <1>5 DEF TreeInv

\* What is above an object that nobody names as a parent does not lead to it.
LEMMA UnknownIsFree ==
  ASSUME NEW kind \in Groups, NEW id, id \notin Known(kind), NEW parent \in Known(kind),
         \A n \in Ids(kind) : Up(kind)[n] \in Known(kind) \union {Nobody}
  PROVE  Free(kind, parent, id)
<1>1. Known(kind) \in SUBSET Ids(kind)
  BY DEF Known
<1> QED BY <1>1 DEF Free, FreeIn

\* A folder or tag that is written as the model has it placed is placed
\* where it closes no cycle.
LEMMA GroupAcceptKeepsTree ==
  ASSUME NEW kind \in Groups, NamesKept(kind), Inv, TreeInv(kind), NEW c \in Callers, GroupAccepts(c, kind)
  PROVE  TreeInv(kind)' /\ Up(kind)' = Up(kind) /\ tainted' = tainted
<1>1. PICK id, goal, e : /\ Accept(c, Of(kind), id, goal, <<e>>)
                         /\ SoundElement(e) /\ e.kind = kind /\ Moves(kind, e)
  BY DEF GroupAccepts
<1> DEFINE parent == ParentOf(kind, e.body)
           k == [plan |-> <<e>>, of |-> Of(kind), id |-> id, goal |-> goal,
                 chain |-> Len(<<e>>) > 1, fresh |-> TRUE]
<1>2. call'[c] = k /\ UNCHANGED <<index, model>> /\ now' = now + 1 /\ now \in 1..MaxRequests
  BY <1>1 DEF Accept, Inv, SoundCalls, GroupAccepts
<1>3. PICK objects : objects = Objects(model, kind)
  OBVIOUS
<1>4. /\ \A i \in DOMAIN objects : i \in DOMAIN index[kind] /\ objects[i].parent = ParentOf(kind, index[kind][i])
      /\ IsFiniteSet(DOMAIN objects)
  BY <1>3, GroupObjects DEF Inv
<1>5. \A n \in Ids(kind) : Up(kind)[n] = IndexParent(index, kind, n) /\ Up(kind)[n] \in Known(kind) \union {Nobody}
  <2>1. \A i \in DOMAIN index[kind] : NamelessAtRoot(kind, index[kind][i])
    BY DEF TreeInv, Located
  <2>2. \A n \in Ids(kind) : Up(kind)[n] = IndexParent(index, kind, n)
    BY <2>1, UpFromIndex DEF Up, Inv, Readable
  <2> QED BY <2>2 DEF TreeInv, Located, IndexParent
<1>6. Known(kind) \subseteq Known(kind)' /\ Known(kind) \subseteq Ids(kind)
  BY <1>2, IdAssumption DEF Known
<1>7. NewIds[now] \in Known(kind)' /\ NewIds[now] \notin Known(kind)
  <2>1. NewIds[now] \in Ids(kind)
    BY <1>2, IdAssumption DEF Ids, FolderIds, TagIds, Range
  <2>2. \A i \in (now + 1)..MaxRequests : NewIds[i] # NewIds[now]
    BY <1>2, IdAssumption
  <2> QED BY <1>2, <2>1, <2>2, IdAssumption DEF Known
<1>8. \A i \in DOMAIN objects : i \in Known(kind) /\ objects[i].parent = Up(kind)[i]
  <2> SUFFICES ASSUME NEW i \in DOMAIN objects
               PROVE  i \in Known(kind) /\ objects[i].parent = Up(kind)[i]
    OBVIOUS
  <2>1. i \in DOMAIN index[kind] /\ Located(kind, i, index[kind][i])
    BY <1>4 DEF TreeInv
  <2>2. i \in Ids(kind)
    BY <1>6, <2>1 DEF Located
  <2> QED BY <1>4, <1>5, <2>1, <2>2 DEF Located, IndexParent
<1>9. Located(kind, e.id, e.body)'
  <2>1. e.id \in Known(kind)' /\ parent \in Known(kind) \union {Nobody}
    <3>1. CASE e.id = NewIds[now] /\ parent \in DOMAIN objects \union {Nobody}
      BY <1>7, <1>8, <3>1
    <3>2. CASE e.id \in DOMAIN objects /\ parent \in {Nobody, objects[e.id].parent}
      BY <1>5, <1>6, <1>8, <3>2
    <3>3. CASE e.id \in DOMAIN objects /\ parent \in DOMAIN objects
      BY <1>6, <1>8, <3>3
    <3> QED BY <1>1, <1>3, <3>1, <3>2, <3>3 DEF Moves
  <2>2. NamelessAtRoot(kind, e.body)
    BY <1>1 DEF Moves
  <2> QED BY <1>6, <2>1, <2>2 DEF Located
<1>10. Up(kind)' = Up(kind)
  BY <1>2 DEF Up
<1>11. parent \in {Nobody, Up(kind)[e.id]} \/ Free(kind, parent, e.id)
  <2>1. CASE e.id = NewIds[now] /\ parent \in DOMAIN objects
    BY <1>5, <1>7, <1>8, <2>1, UnknownIsFree
  <2>2. CASE e.id \in DOMAIN objects /\ parent \in DOMAIN objects /\ LeadsOut(objects, e.id, parent)
    <3>1. PICK up : up = Up(kind)
      OBVIOUS
    <3>2. \A n \in Ids(kind) : up[n] = ParentIn(objects, n) /\ up[n] \in Ids(kind) \union {Nobody}
      BY <1>3, <1>5, <1>6, <3>1 DEF Up, UpOf
    <3>3. parent \in Ids(kind)
      BY <1>6, <1>8, <2>2
    <3> HIDE DEF parent
    <3>4. FreeIn(Ids(kind), up, parent, e.id)
      BY <1>4, <2>2, <3>2, <3>3, LeadsOutIsFree
    <3> QED BY <3>1, <3>4 DEF Free
  <2>3. CASE e.id \in DOMAIN objects /\ parent \in {Nobody, objects[e.id].parent}
    BY <1>8, <2>3
  <2> QED BY <1>1, <1>3, <2>1, <2>2, <2>3 DEF Moves
<1>12. PICK j : j = k
  OBVIOUS
<1>13. Pending(kind, j)'
  <2>1. j.of = Of(kind) /\ j.plan = <<e>> /\ j.plan[1] = e
    BY <1>12
  <2>2. (parent \in {Nobody, Up(kind)[e.id]} \/ Free(kind, parent, e.id))'
    BY <1>10, <1>11 DEF Free
  <2> HIDE DEF k
  <2> QED BY <1>9, <2>1, <2>2 DEF Pending
<1> HIDE DEF k
<1> QED BY <1>1, <1>2, <1>12, <1>13, AcceptKeepsTree

\* An element changes the place of nothing but the object that it is about.
LEMMA UploadEffect ==
  ASSUME NEW kind \in Groups, NEW x, SoundIndex(x), NEW e, SoundElement(e),
         NEW y, SoundIndex(y), Beside(x, y, e.kind, e.id), NEW m, m = BuildModel(x), NEW l, l = BuildModel(y),
         \A id \in DOMAIN x[kind] : NamelessAtRoot(kind, x[kind][id]),
         (e.kind = kind /\ e.id \in DOMAIN y[kind]) => NamelessAtRoot(kind, y[kind][e.id])
  PROVE  /\ \A id \in DOMAIN y[kind] :
                (id \in DOMAIN x[kind] /\ y[kind][id] = x[kind][id]) \/ (e.kind = kind /\ id = e.id)
         /\ UpOf(l, kind) = IF e.kind = kind THEN [UpOf(m, kind) EXCEPT ![e.id] = IndexParent(y, kind, e.id)]
                            ELSE UpOf(m, kind)
<1>1. e.kind \in Kinds
  BY DEF SoundElement
<1>2. /\ \A k \in Kinds \ {e.kind} : y[k] = x[k]
      /\ \A id \in DOMAIN y[e.kind] \ {e.id} :
             id \in DOMAIN x[e.kind] /\ y[e.kind][id] = x[e.kind][id]
      /\ \A id \in DOMAIN x[e.kind] \ {e.id} : id \in DOMAIN y[e.kind]
  BY DEF Beside
<1>3. \A id \in DOMAIN y[kind] :
          (id \in DOMAIN x[kind] /\ y[kind][id] = x[kind][id]) \/ (e.kind = kind /\ id = e.id)
  BY <1>1, <1>2, NobodyIsNoId
<1>4. \A id \in DOMAIN y[kind] : NamelessAtRoot(kind, y[kind][id])
  BY <1>3
<1>5. /\ \A n \in Ids(kind) : UpOf(m, kind)[n] = IndexParent(x, kind, n)
      /\ \A n \in Ids(kind) : UpOf(l, kind)[n] = IndexParent(y, kind, n)
  BY <1>4, UpFromIndex
<1>6. \A n \in Ids(kind) : ~(e.kind = kind /\ n = e.id) => IndexParent(y, kind, n) = IndexParent(x, kind, n)
  BY <1>2, NobodyIsNoId DEF IndexParent
<1>7. \A k : DOMAIN UpOf(k, kind) = Ids(kind) /\ UpOf(k, kind) = [n \in Ids(kind) |-> UpOf(k, kind)[n]]
  BY DEF UpOf
<1>8. CASE e.kind = kind
  BY <1>5, <1>6, <1>7, <1>8, <1>3
<1>9. CASE e.kind # kind
  BY <1>5, <1>6, <1>7, <1>9, <1>3
<1> QED BY <1>8, <1>9

\* What is left of the calls after somebody published e: a stale model is
\* known to be stale.
LEMMA UploadKeepsPending ==
  ASSUME NEW kind \in Groups, Inv, TreeInv(kind), NEW e, NEW caller, Uploaded(e, caller), UNCHANGED now,
         e.kind # kind => Up(kind)' = Up(kind), NEW c \in Callers, NEW j, j = call'[c],
         c = caller => call[c].plan # Empty
  PROVE  Pending(kind, j)'
<1>1. PICK k : k = call[c]
  OBVIOUS
<1>2. Pending(kind, k) /\ SoundCall(k)
  BY <1>1 DEF TreeInv, Inv, SoundCalls
<1>3. Known(kind)' = Known(kind)
  BY DEF Known
<1> SUFFICES ASSUME j.of = Of(kind), j.plan # Empty PROVE Pending(kind, j)'
  BY DEF Pending
<1>4. SoundPlan(k.of, k.plan)
  BY <1>2 DEF SoundCall
<1>5. j # Idle
  BY DEF Idle
<1>6. CASE c = caller
  <2>1. Len(k.plan) # 1 /\ j = [k EXCEPT !.plan = Tail(@)] /\ k.plan # Empty
    BY <1>1, <1>5, <1>6 DEF Uploaded, Remaining
  <2>2. j.of = k.of
    BY <1>2, <2>1 DEF SoundCall, CallFields
  <2>3. KindOf(k.of) # "task"
    BY <2>2 DEF KindOf, Of
  <2>4. Len(k.plan) <= 1 /\ Len(k.plan) \in Nat \ {0}
    BY <1>4, <2>1, <2>3, RestOfPlan DEF SoundPlan
  <2>5. FALSE
    <3>1. Len(k.plan) # 1
      BY <2>1
    <3>2. PICK n : n = Len(k.plan)
      OBVIOUS
    <3>3. n \in Nat /\ n # 0 /\ n # 1 /\ n <= 1
      BY <2>4, <3>1, <3>2
    <3> QED BY <3>3
  <2> QED BY <2>5
<1>7. CASE c # caller
  <2>1. /\ j = IF k.plan # Empty /\ Head(k.plan).kind = e.kind THEN [k EXCEPT !.fresh = FALSE] ELSE k
    BY <1>1, <1>7 DEF Uploaded, Remaining
  <2>2. j.of = k.of /\ j.plan = k.plan
    BY <1>2, <2>1 DEF SoundCall, CallFields
  <2>3. j.fresh => j = k /\ e.kind # kind
    <3> SUFFICES ASSUME j.fresh PROVE j = k /\ e.kind # kind
      OBVIOUS
    <3>1. j = k
      BY <1>2, <2>1 DEF SoundCall, CallFields
    <3>2. Head(k.plan).kind # e.kind
      BY <1>2, <2>1, <2>2, <3>1 DEF SoundCall, CallFields
    <3>3. Head(k.plan) = k.plan[1] /\ 1 \in 1..Len(k.plan)
      <4>1. Head(k.plan) = k.plan[1] /\ Len(k.plan) \in Nat \ {0}
        BY <1>4, <2>2, RestOfPlan
      <4> QED BY <4>1
    <3>4. k.plan[1].kind = KindOf(Of(kind))
      BY <1>4, <2>2, <3>3 DEF SoundPlan
    <3>5. KindOf(Of(kind)) = kind
      BY DEF KindOf, Of, Groups
    <3> QED BY <3>1, <3>2, <3>3, <3>4, <3>5
  <2> QED BY <1>2, <1>3, <2>2, <2>3 DEF Pending, Located, Free
<1> QED BY <1>6, <1>7

LEMMA UploadKeepsTree ==
  ASSUME NEW kind \in Groups, Inv, TreeInv(kind), NEW e, SoundElement(e), NEW caller,
         Uploaded(e, caller), UNCHANGED now,
         caller \in Callers => call[caller].plan # Empty /\ e = Head(call[caller].plan),
         (e.kind = kind /\ e.id \in DOMAIN index'[kind]) => Located(kind, e.id, index'[kind][e.id])
  PROVE  /\ TreeInv(kind)'
         /\ Up(kind)' = IF e.kind = kind THEN [Up(kind) EXCEPT ![e.id] = IndexParent(index', kind, e.id)]
                        ELSE Up(kind)
<1>1. PICK x, y, m, l : x = index /\ y = index' /\ m = model /\ l = model'
  OBVIOUS
<1>2. /\ SoundIndex(x) /\ SoundIndex(y) /\ Beside(x, y, e.kind, e.id)
      /\ m = BuildModel(x) /\ l = BuildModel(y)
  BY <1>1, UploadedEffect DEF Inv, Readable, Uploaded
<1>3. /\ \A id \in DOMAIN x[kind] : NamelessAtRoot(kind, x[kind][id])
      /\ (e.kind = kind /\ e.id \in DOMAIN y[kind]) => NamelessAtRoot(kind, y[kind][e.id])
  BY <1>1 DEF TreeInv, Located
<1>4. /\ \A id \in DOMAIN y[kind] :
             (id \in DOMAIN x[kind] /\ y[kind][id] = x[kind][id]) \/ (e.kind = kind /\ id = e.id)
      /\ UpOf(l, kind) = IF e.kind = kind THEN [UpOf(m, kind) EXCEPT ![e.id] = IndexParent(y, kind, e.id)]
                         ELSE UpOf(m, kind)
  BY <1>2, <1>3, UploadEffect
<1>5. Up(kind)' = IF e.kind = kind THEN [Up(kind) EXCEPT ![e.id] = IndexParent(index', kind, e.id)]
                  ELSE Up(kind)
  BY <1>1, <1>4 DEF Up
<1>6. Known(kind)' = Known(kind)
  BY DEF Known
<1>7. ASSUME NEW id \in DOMAIN y[kind] PROVE Located(kind, id, y[kind][id])'
  <2>1. Located(kind, id, y[kind][id])
    BY <1>1, <1>4 DEF TreeInv
  <2> QED BY <1>6, <2>1 DEF Located
<1>8. ASSUME NEW c \in Callers PROVE Pending(kind, call[c])'
  <2>1. PICK j : j = call'[c]
    OBVIOUS
  <2>2. e.kind # kind => Up(kind)' = Up(kind)
    BY <1>5
  <2>3. c = caller => call[c].plan # Empty
    OBVIOUS
  <2>4. Pending(kind, j)'
    BY <2>1, <2>2, <2>3, UploadKeepsPending
  <2> QED BY <2>1, <2>4 DEF Pending
<1>9. (\A id \in DOMAIN index[kind] : Located(kind, id, index[kind][id]))'
  BY <1>1, <1>7 DEF Located
<1> QED BY <1>5, <1>8, <1>9 DEF TreeInv

\* The steps that a tree takes.
TreeStep(kind) ==
    \/ Up(kind)' = Up(kind) /\ (Of(kind) \in tainted' <=> Of(kind) \in tainted)
    \/ \E n \in Ids(kind), p \in Ids(kind) \union {Nobody} :
           /\ Up(kind)' = [Up(kind) EXCEPT ![n] = p]
           /\ \/ /\ Of(kind) \in tainted' <=> Of(kind) \in tainted
                 /\ p = Nobody \/ (p \in Ids(kind) /\ Free(kind, p, n))
              \/ Of(kind) \in tainted'

LEMMA PublishInTree ==
  ASSUME NEW kind \in Groups, Inv, TreeInv(kind), NEW c \in Callers, Publish(c)
  PROVE  TreeInv(kind)' /\ TreeStep(kind)
<1>1. PICK k, e : k = call[c] /\ e = Head(k.plan)
  OBVIOUS
<1>2. /\ k.plan # Empty /\ Uploaded(e, c) /\ UNCHANGED now
      /\ tainted' = IF k.fresh THEN tainted ELSE tainted \union {k.of}
  BY <1>1 DEF Publish
<1>3. SoundCall(k) /\ SoundPlan(k.of, k.plan) /\ k.of \in Operations
  BY <1>1 DEF Inv, SoundCalls, SoundCall
<1>4. e = k.plan[1] /\ 1 \in 1..Len(k.plan)
  <2>1. Head(k.plan) = k.plan[1] /\ Len(k.plan) \in Nat \ {0}
    BY <1>2, <1>3, RestOfPlan
  <2> QED BY <1>1, <2>1
<1>5. SoundElement(e) /\ e.kind = KindOf(k.of)
  BY <1>3, <1>4 DEF SoundPlan
<1>6. e.kind = kind <=> k.of = Of(kind)
  BY <1>3, <1>5 DEF KindOf, Of, Groups, Operations
<1>7. e.kind = kind => index' = IndexElement(index, e)
  <2>1. e.kind = kind => e.kind # "task"
    BY DEF Groups
  <2> QED BY <1>1, <1>2, <1>5, <2>1, LogEffect
<1>8. CASE e.kind # kind
  <2>1. TreeInv(kind)' /\ Up(kind)' = Up(kind)
    BY <1>1, <1>2, <1>5, <1>8, UploadKeepsTree
  <2>2. Of(kind) \in tainted' <=> Of(kind) \in tainted
    BY <1>2, <1>6, <1>8
  <2> QED BY <2>1, <2>2 DEF TreeStep
<1>9. CASE e.kind = kind
  <2> DEFINE parent == ParentOf(kind, e.body)
  <2>1. Located(kind, e.id, e.body) /\ (k.fresh => parent \in {Nobody, Up(kind)[e.id]} \/ Free(kind, parent, e.id))
    BY <1>1, <1>2, <1>4, <1>6, <1>9 DEF TreeInv, Pending
  <2>2. e.op \in {"none", "delete"}
    BY <1>3, <1>4, <1>5, <1>9, NobodyIsNoId DEF SoundPlan
  <2>3. e.id \in DOMAIN index'[kind] => index'[kind][e.id] = e.body
    <3>1. index = [i \in Kinds |-> index[i]] /\ e.kind \in Kinds
      BY <1>5 DEF Inv, Readable, SoundIndex, SoundElement
    <3>2. CASE Removes(e)
      BY <1>7, <1>9, <3>1, <3>2, IndexEffect
    <3>3. CASE ~Removes(e)
      <4>1. index'[kind][e.id] = Written(index, e)
        BY <1>7, <1>9, <3>1, <3>3, IndexEffect
      <4> QED BY <2>2, <4>1 DEF Written, Updates, Content
    <3> QED BY <3>2, <3>3
  <2>4. IndexParent(index', kind, e.id) \in {Nobody, parent}
    BY <2>3 DEF IndexParent
  <2>5. TreeInv(kind)' /\ Up(kind)' = [Up(kind) EXCEPT ![e.id] = IndexParent(index', kind, e.id)]
    BY <1>1, <1>2, <1>5, <1>9, <2>1, <2>3, UploadKeepsTree
  <2>6. e.id \in Ids(kind) /\ parent \in Ids(kind) \union {Nobody}
    BY <2>1 DEF Located, Known
  <2> HIDE DEF parent
  <2>7. PICK p : p = IndexParent(index', kind, e.id)
    OBVIOUS
  <2>8. p \in {Nobody, parent} /\ Up(kind)' = [Up(kind) EXCEPT ![e.id] = p]
    BY <2>4, <2>5, <2>7
  <2>9. CASE k.fresh
    <3>1. tainted' = tainted
      BY <1>2, <2>9
    <3>2. CASE p = Nobody
      BY <2>5, <2>6, <2>8, <3>1, <3>2 DEF TreeStep
    <3>3. CASE p # Nobody /\ p = Up(kind)[e.id]
      <4>1. Up(kind)' = Up(kind)
        BY <2>8, <3>3 DEF Up, UpOf
      <4> QED BY <2>5, <3>1, <4>1 DEF TreeStep
    <3>4. CASE p # Nobody /\ p # Up(kind)[e.id]
      <4>1. p \in Ids(kind) /\ Free(kind, p, e.id)
        BY <2>1, <2>6, <2>8, <2>9, <3>4 DEF parent
      <4> QED BY <2>5, <2>6, <2>8, <3>1, <4>1 DEF TreeStep
    <3> QED BY <3>2, <3>3, <3>4
  <2>10. CASE ~k.fresh
    <3>1. Of(kind) \in tainted'
      BY <1>2, <1>6, <1>9, <2>10
    <3> QED BY <2>5, <2>6, <2>8, <3>1 DEF TreeStep
  <2> QED BY <2>9, <2>10
<1> QED BY <1>8, <1>9

\* The app renames and deletes, and takes out of the tree, but moves nothing
\* into anything.
LEMMA AppEditInTree ==
  ASSUME NEW kind \in Groups, AppMovesNothing(kind), Inv, TreeInv(kind), NEW e \in AppElements, AppEdit(e)
  PROVE  TreeInv(kind)' /\ TreeStep(kind)
<1>1. SoundElement(e) /\ Nobody \notin Callers
  BY AppAssumption, CallersAssumption
<1>2. Uploaded(e, Nobody) /\ UNCHANGED <<now, tainted>> /\ e.id \in DOMAIN index[e.kind]
  BY DEF AppEdit
<1>3. /\ e.kind = kind => index' = IndexElement(index, e)
      /\ index = [i \in Kinds |-> index[i]] /\ e.kind \in Kinds
  <2>1. e.kind = kind => e.kind # "task"
    BY DEF Groups
  <2>2. e.kind = kind => index' = IndexElement(index, e)
    BY <1>1, <1>2, <2>1, LogEffect
  <2> QED BY <1>1, <2>2 DEF Inv, Readable, SoundIndex, SoundElement
<1>4. CASE e.kind # kind
  <2>1. TreeInv(kind)' /\ Up(kind)' = Up(kind)
    BY <1>1, <1>2, <1>4, UploadKeepsTree
  <2> QED BY <1>2, <2>1 DEF TreeStep
<1>5. CASE e.kind = kind
  <2>1. PICK old, new, body : old = index[kind][e.id] /\ new = Content(e) /\ body = index'[kind][e.id]
    OBVIOUS
  <2>2. Located(kind, e.id, old)
    BY <1>2, <1>5, <2>1 DEF TreeInv
  <2>3. SoundGroup(kind, new) /\ SoundGroup(kind, old)
    BY <1>1, <1>2, <1>5, <2>1, NobodyIsNoId DEF SoundElement, Inv, Readable, SoundIndex
  <2>4. kind \notin DOMAIN new /\ ("name" \in DOMAIN new => Value(new, "name", Nobody) # Nobody)
    BY <1>5, <2>1 DEF AppMovesNothing
  <2>5. e.id \in DOMAIN index'[kind] => ParentOf(kind, body) \in {Nobody, ParentOf(kind, old)} /\ NamelessAtRoot(kind, body)
    <3> SUFFICES ASSUME e.id \in DOMAIN index'[kind]
                 PROVE  ParentOf(kind, body) \in {Nobody, ParentOf(kind, old)} /\ NamelessAtRoot(kind, body)
      OBVIOUS
    <3>1. ~Removes(e) /\ body = Written(index, e)
      BY <1>3, <1>5, <2>1, IndexEffect
    <3>2. CASE Updates(e)
      <4>1. body = MergeUpdate(old, new)
        BY <1>2, <1>5, <2>1, <3>1, <3>2 DEF Written
      <4>2. ASSUME NEW tag \in {"name", kind}
            PROVE  /\ tag \in DOMAIN body <=> tag \in DOMAIN old \union DOMAIN new
                   /\ tag \in DOMAIN body =>
                          body[tag][1] = IF tag \in DOMAIN new THEN new[tag][1] ELSE old[tag][1]
        <5>1. tag # "project" /\ Single(old, {tag}) /\ Single(new, {tag})
          BY <2>3 DEF SoundGroup, Single, Groups
        <5>2. Merged(old, new, tag, MergeUpdate(old, new))
          BY ONLY <5>1, MergedValue, Zenon
        <5> QED BY ONLY <4>1, <5>2 DEF Merged
      <4>3. ParentOf(kind, body) = ParentOf(kind, old)
        BY <2>4, <4>2 DEF ParentOf, Value
      <4>4. Value(body, "name", Nobody) = Nobody => Value(old, "name", Nobody) = Nobody
        BY <2>4, <4>2 DEF Value
      <4> QED BY <2>2, <4>3, <4>4 DEF Located, NamelessAtRoot
    <3>3. CASE ~Updates(e)
      <4>1. body = new
        BY <2>1, <3>1, <3>3 DEF Written
      <4> QED BY <2>4, <4>1 DEF ParentOf, Value, NamelessAtRoot
    <3> QED BY <3>2, <3>3
  <2>6. e.id \in DOMAIN index'[kind] => Located(kind, e.id, body)
    BY <2>2, <2>5 DEF Located
  <2>7. PICK p : p = IndexParent(index', kind, e.id)
    OBVIOUS
  <2>8. p \in {Nobody, ParentOf(kind, old)}
    BY <2>1, <2>5, <2>7 DEF IndexParent
  <2>9. TreeInv(kind)' /\ Up(kind)' = [Up(kind) EXCEPT ![e.id] = p]
    BY <1>1, <1>2, <1>5, <2>1, <2>6, <2>7, UploadKeepsTree
  <2>10. e.id \in Ids(kind) /\ DOMAIN Up(kind) = Ids(kind) /\ Up(kind) = [n \in Ids(kind) |-> Up(kind)[n]]
    BY <2>2 DEF Located, Known, Up, UpOf
  <2>11. Up(kind)[e.id] = ParentOf(kind, old)
    <3>1. \A id \in DOMAIN index[kind] : NamelessAtRoot(kind, index[kind][id])
      BY DEF TreeInv, Located
    <3>2. Up(kind)[e.id] = IndexParent(index, kind, e.id)
      BY <2>10, <3>1, UpFromIndex DEF Up, Inv, Readable
    <3> QED BY <1>2, <1>5, <2>1, <3>2 DEF IndexParent
  <2>12. CASE p = Nobody
    BY <1>2, <2>9, <2>10, <2>12 DEF TreeStep
  <2>13. CASE p = ParentOf(kind, old)
    <3>1. Up(kind)' = Up(kind)
      BY <2>9, <2>10, <2>11, <2>13
    <3> QED BY <1>2, <2>9, <3>1 DEF TreeStep
  <2> QED BY <2>8, <2>12, <2>13
<1> QED BY <1>4, <1>5

\* What is asked about something else leaves the tree alone.
LEMMA OtherAcceptKeepsTree ==
  ASSUME NEW kind \in Groups, Inv, TreeInv(kind), NEW c \in Callers,
         NEW of \in Operations \ {Of(kind)}, Accepts(c, of)
  PROVE  TreeInv(kind)' /\ Up(kind)' = Up(kind) /\ tainted' = tainted
<1>1. PICK id, goal, plan : Accept(c, of, id, goal, plan)
  BY DEF Accepts
<1>2. PICK j : j = call'[c]
  OBVIOUS
<1>3. j.of = of
  BY <1>1, <1>2 DEF Accept, Inv, SoundCalls
<1>4. Pending(kind, j)'
  BY <1>3 DEF Pending
<1> QED BY <1>1, <1>2, <1>4, AcceptKeepsTree

LEMMA AbandonKeepsTree ==
  ASSUME NEW kind \in Groups, Inv, TreeInv(kind), NEW c \in Callers, Abandon(c)
  PROVE  TreeInv(kind)' /\ Up(kind)' = Up(kind) /\ tainted' = tainted
<1>1. UNCHANGED <<index, model, now, tainted>> /\ call'[c] = Idle
      /\ \A d \in Callers \ {c} : call'[d] = call[d]
  BY DEF Abandon, Inv, SoundCalls
<1>2. Up(kind)' = Up(kind) /\ Known(kind)' = Known(kind)
  BY <1>1 DEF Up, Known
<1>3. ASSUME NEW d \in Callers PROVE Pending(kind, call[d])'
  <2>1. PICK j : j = call'[d]
    OBVIOUS
  <2>2. CASE d = c
    <3>1. j.plan = Empty
      BY <1>1, <2>1, <2>2 DEF Idle
    <3> QED BY <2>1, <3>1 DEF Pending
  <2>3. CASE d # c
    <3>1. Pending(kind, j)
      BY <1>1, <2>1, <2>3 DEF TreeInv
    <3>2. Pending(kind, j)'
      BY <1>2, <3>1, PendingKept
    <3> QED BY <2>1, <3>2
  <2> QED BY <2>2, <2>3
<1> QED BY <1>1, <1>2, <1>3 DEF TreeInv, Located

LEMMA TreeNext ==
  ASSUME NEW kind \in Groups, Orderly(kind), Inv, TreeInv(kind), [Next]_vars
  PROVE  TreeInv(kind)' /\ TreeStep(kind)
<1>1. CASE UNCHANGED vars
  <2>1. Up(kind)' = Up(kind) /\ Known(kind)' = Known(kind) /\ UNCHANGED <<index, call, tainted>>
    BY <1>1 DEF Up, Known, vars
  <2>2. \A c \in Callers : Pending(kind, call[c])'
    BY <2>1 DEF TreeInv, Pending, Located, Free
  <2> QED BY <2>1, <2>2 DEF TreeInv, TreeStep, Located
<1>2. ASSUME NEW c \in Callers, Request(c) \/ Command(c) PROVE TreeInv(kind)' /\ TreeStep(kind)
  <2>1. Readable
    BY DEF Inv
  <2>2. CASE GroupAccepts(c, kind)
    BY <2>2, GroupAcceptKeepsTree DEF TreeStep, Orderly
  <2>3. ASSUME NEW of \in Operations \ {Of(kind)}, Accepts(c, of) PROVE TreeInv(kind)' /\ TreeStep(kind)
    BY <2>3, OtherAcceptKeepsTree DEF TreeStep
  <2>4. ASSUME NEW other \in Groups \ {kind}, GroupAccepts(c, other) PROVE TreeInv(kind)' /\ TreeStep(kind)
    <3>1. Accepts(c, Of(other)) /\ Of(other) \in Operations \ {Of(kind)}
      BY <2>4, GroupAcceptsIsAccepts DEF Of, Operations, Groups
    <3> QED BY <2>3, <3>1
  <2>5. {"task", "project"} \subseteq Operations \ {Of(kind)}
    BY DEF Of, Operations
  <2> QED BY <1>2, <2>1, <2>2, <2>3, <2>4, <2>5, RequestAccepted
<1>3. ASSUME NEW c \in Callers, Publish(c) PROVE TreeInv(kind)' /\ TreeStep(kind)
  BY <1>3, PublishInTree
<1>4. ASSUME NEW c \in Callers, Abandon(c) PROVE TreeInv(kind)' /\ TreeStep(kind)
  BY <1>4, AbandonKeepsTree DEF TreeStep
<1>5. ASSUME NEW e \in AppElements, AppEdit(e) PROVE TreeInv(kind)' /\ TreeStep(kind)
  BY <1>5, AppEditInTree DEF Orderly
<1> QED BY <1>1, <1>2, <1>3, <1>4, <1>5 DEF Next, Delivery

\* A forest to begin with.
LEMMA TreeInit ==
  ASSUME NEW kind \in Groups, StartsAsForest(kind), Init
  PROVE  /\ TreeInv(kind)
         /\ Up(kind) \in [Ids(kind) -> Ids(kind) \union {Nobody}]
         /\ \A C \in SUBSET Ids(kind) : C # {} => \E n \in C : Up(kind)[n] \notin C
<1> DEFINE known == DOMAIN Baseline[kind]
<1>1. index = Baseline /\ model = BuildModel(index) /\ now = 1 /\ call = [c \in Callers |-> Idle]
  BY DEF Init
<1>2. known \subseteq Known(kind) /\ Known(kind) \subseteq Ids(kind)
  BY <1>1, IdAssumption, NobodyIsNoId DEF Known, Ids, FolderIds, TagIds, Groups
<1>3. \A id \in known : /\ ParentOf(kind, Baseline[kind][id]) \in known \union {Nobody}
                        /\ NamelessAtRoot(kind, Baseline[kind][id])
  BY DEF StartsAsForest
<1>4. \A id \in DOMAIN index[kind] : Located(kind, id, index[kind][id])
  BY <1>1, <1>2, <1>3 DEF Located
<1>5. \A c \in Callers : Pending(kind, call[c])
  BY <1>1 DEF Pending, Idle
<1>6. \A n \in Ids(kind) : Up(kind)[n] = IndexParent(Baseline, kind, n)
  BY <1>1, <1>3, UpFromIndex, BaselineAssumption DEF Up
<1>7. Up(kind) \in [Ids(kind) -> Ids(kind) \union {Nobody}]
  <2>1. \A n \in Ids(kind) : Up(kind)[n] \in Ids(kind) \union {Nobody}
    BY <1>2, <1>3, <1>6 DEF IndexParent
  <2>2. Up(kind) = [n \in Ids(kind) |-> Up(kind)[n]]
    BY DEF Up, UpOf
  <2> QED BY <2>1, <2>2
<1>8. ASSUME NEW C \in SUBSET Ids(kind), C # {} PROVE \E n \in C : Up(kind)[n] \notin C
  <2> SUFFICES ASSUME \A n \in C : Up(kind)[n] \in C PROVE FALSE
    OBVIOUS
  <2>1. \A n \in C : n \in known /\ Up(kind)[n] = ParentOf(kind, Baseline[kind][n])
    BY <1>6, NobodyIsNoId DEF IndexParent
  <2>2. C \in SUBSET known
    BY <2>1
  <2>3. PICK n \in C : ParentOf(kind, Baseline[kind][n]) \notin C
    BY <1>8, <2>2 DEF StartsAsForest
  <2> QED BY <2>1, <2>3
<1> QED BY <1>4, <1>5, <1>7, <1>8 DEF TreeInv

\* The folders implement the forest: whatever the requests, the commands and
\* the app do at a time, for any number of callers, a write from a model that
\* is not stale puts one folder where it closes no cycle (api_common.py:166).
THEOREM FoldersAreAForest ==
  ASSUME Orderly("folder")
  PROVE  Spec => FolderTreeSpec
<1>1. "folder" \in Groups /\ Of("folder") = "folder" /\ Ids("folder") = FolderIds
  BY DEF Groups, Of, Ids
<1>2. /\ Up("folder") = [f \in FolderIds |-> ParentIn(model.folder, f)]
      /\ Up("folder")' = [f \in FolderIds |-> ParentIn(model.folder, f)]'
  BY <1>1 DEF Up, UpOf, Objects
<1>3. Init => TreeInv("folder") /\ FolderTree!Init
  <2> SUFFICES ASSUME Init PROVE TreeInv("folder") /\ FolderTree!Init
    OBVIOUS
  <2>1. tainted = {}
    BY DEF Init
  <2>2. StartsAsForest("folder")
    BY DEF Orderly
  <2>3. PICK up : up = Up("folder")
    OBVIOUS
  <2>4. /\ TreeInv("folder") /\ up \in [FolderIds -> FolderIds \union {Nobody}]
        /\ \A C \in SUBSET FolderIds : C # {} => \E n \in C : up[n] \notin C
    BY <1>1, <2>2, <2>3, TreeInit
  <2> QED BY <1>2, <2>1, <2>3, <2>4 DEF FolderTree!Init, FolderTree!Acyclic, FolderTree!Cycle
<1>4. Inv /\ TreeInv("folder") /\ [Next]_vars => TreeInv("folder")'
  BY <1>1, TreeNext
<1>5. Inv /\ TreeInv("folder") /\ [Next]_vars => [FolderTree!Next]_(FolderTree!vars)
  <2> SUFFICES ASSUME Inv, TreeInv("folder"), [Next]_vars
               PROVE  FolderTree!Next \/ UNCHANGED FolderTree!vars
    OBVIOUS
  <2>1. TreeStep("folder")
    BY <1>1, TreeNext
  <2> DEFINE up == [f \in FolderIds |-> ParentIn(model.folder, f)]
             stale == "folder" \in tainted
  <2>2. CASE Up("folder")' = Up("folder") /\ (stale' <=> stale)
    <3>1. up' = up /\ stale' = stale
      BY <1>2, <2>2
    <3> QED BY <3>1 DEF FolderTree!vars
  <2>3. ASSUME NEW n \in FolderIds, NEW p \in FolderIds \union {Nobody}, Up("folder")' = [Up("folder") EXCEPT ![n] = p],
               stale' <=> stale, p = Nobody \/ (p \in FolderIds /\ Free("folder", p, n))
        PROVE  FolderTree!Next
    <3>1. up' = [up EXCEPT ![n] = p]
      BY <1>2, <2>3
    <3>2. stale' = stale
      BY <2>3
    <3>3. p = Nobody \/ (p \in FolderIds /\ FolderTree!NotBelow(p, n))
      BY <1>1, <1>2, <2>3 DEF Free, FreeIn, FolderTree!NotBelow
    <3>4. FolderTree!Place(n, p)
      BY <3>1, <3>2, <3>3 DEF FolderTree!Place
    <3> QED BY <3>4 DEF FolderTree!Next
  <2>4. ASSUME NEW n \in FolderIds, NEW p \in FolderIds \union {Nobody}, Up("folder")' = [Up("folder") EXCEPT ![n] = p],
               stale'
        PROVE  FolderTree!Next
    <3>1. up' = [up EXCEPT ![n] = p] /\ stale' = TRUE
      BY ONLY <1>2, <2>4, Zenon
    <3>2. FolderTree!PlaceStale(n, p)
      BY <3>1 DEF FolderTree!PlaceStale
    <3> QED BY <3>2 DEF FolderTree!Next
  <2> QED BY <1>1, <2>1, <2>2, <2>3, <2>4 DEF TreeStep
<1> QED BY <1>3, <1>4, <1>5, InvHolds, PTL DEF Spec, FolderTreeSpec, FolderTree!Spec

\* And so do the tags, of which the dropped ones keep their places
\* (api_common.py:193).
THEOREM TagsAreAForest ==
  ASSUME Orderly("context")
  PROVE  Spec => TagTreeSpec
<1>1. "context" \in Groups /\ Of("context") = "tag" /\ Ids("context") = TagIds
  BY DEF Groups, Of, Ids
<1>2. /\ Up("context") = [g \in TagIds |-> ParentIn(model.tag, g)]
      /\ Up("context")' = [g \in TagIds |-> ParentIn(model.tag, g)]'
  BY <1>1 DEF Up, UpOf, Objects
<1>3. Init => TreeInv("context") /\ TagTree!Init
  <2> SUFFICES ASSUME Init PROVE TreeInv("context") /\ TagTree!Init
    OBVIOUS
  <2>1. tainted = {}
    BY DEF Init
  <2>2. StartsAsForest("context")
    BY DEF Orderly
  <2>3. PICK up : up = Up("context")
    OBVIOUS
  <2>4. /\ TreeInv("context") /\ up \in [TagIds -> TagIds \union {Nobody}]
        /\ \A C \in SUBSET TagIds : C # {} => \E n \in C : up[n] \notin C
    BY <1>1, <2>2, <2>3, TreeInit
  <2> QED BY <1>2, <2>1, <2>3, <2>4 DEF TagTree!Init, TagTree!Acyclic, TagTree!Cycle
<1>4. Inv /\ TreeInv("context") /\ [Next]_vars => TreeInv("context")'
  BY <1>1, TreeNext
<1>5. Inv /\ TreeInv("context") /\ [Next]_vars => [TagTree!Next]_(TagTree!vars)
  <2> SUFFICES ASSUME Inv, TreeInv("context"), [Next]_vars
               PROVE  TagTree!Next \/ UNCHANGED TagTree!vars
    OBVIOUS
  <2>1. TreeStep("context")
    BY <1>1, TreeNext
  <2> DEFINE up == [g \in TagIds |-> ParentIn(model.tag, g)]
             stale == "tag" \in tainted
  <2>2. CASE Up("context")' = Up("context") /\ (stale' <=> stale)
    <3>1. up' = up /\ stale' = stale
      BY <1>2, <2>2
    <3> QED BY <3>1 DEF TagTree!vars
  <2>3. ASSUME NEW n \in TagIds, NEW p \in TagIds \union {Nobody}, Up("context")' = [Up("context") EXCEPT ![n] = p],
               stale' <=> stale, p = Nobody \/ (p \in TagIds /\ Free("context", p, n))
        PROVE  TagTree!Next
    <3>1. up' = [up EXCEPT ![n] = p]
      BY <1>2, <2>3
    <3>2. stale' = stale
      BY <2>3
    <3>3. p = Nobody \/ (p \in TagIds /\ TagTree!NotBelow(p, n))
      BY <1>1, <1>2, <2>3 DEF Free, FreeIn, TagTree!NotBelow
    <3>4. TagTree!Place(n, p)
      BY <3>1, <3>2, <3>3 DEF TagTree!Place
    <3> QED BY <3>4 DEF TagTree!Next
  <2>4. ASSUME NEW n \in TagIds, NEW p \in TagIds \union {Nobody}, Up("context")' = [Up("context") EXCEPT ![n] = p],
               stale'
        PROVE  TagTree!Next
    <3>1. up' = [up EXCEPT ![n] = p] /\ stale' = TRUE
      BY ONLY <1>2, <2>4, Zenon
    <3>2. TagTree!PlaceStale(n, p)
      BY <3>1 DEF TagTree!PlaceStale
    <3> QED BY <3>2 DEF TagTree!Next
  <2> QED BY <1>1, <2>1, <2>2, <2>3, <2>4 DEF TreeStep
<1> QED BY <1>3, <1>4, <1>5, InvHolds, PTL DEF Spec, TagTreeSpec, TagTree!Spec

-----------------------------------------------------------------------------
(* The tree that readers see. *)

FolderForest == INSTANCE Hierarchy_proofs WITH
    Nodes <- FolderIds, Nobody <- Nobody,
    up <- [f \in FolderIds |-> ParentIn(model.folder, f)], tainted <- "folder" \in tainted

\* As long as no folder was written from a stale model, no folder is its own
\* ancestor (docs/http.md:404).
THEOREM NoFolderCycle ==
  ASSUME Orderly("folder")
  PROVE  Spec => []FolderTree!AcyclicUnlessStale
<1>1. FolderTree!NobodyIsNoNode
  BY NobodyIsNoId DEF FolderTree!NobodyIsNoNode, Groups, Ids
<1>2. FolderForest!Spec => []FolderForest!AcyclicUnlessStale
  BY <1>1, FolderForest!ForestStaysForest DEF FolderTree!NobodyIsNoNode, FolderForest!NobodyIsNoNode
<1>3. Spec => FolderTree!Spec
  BY FoldersAreAForest DEF FolderTreeSpec
<1>4. FolderTree!Spec => FolderForest!Spec
  BY DEF FolderTree!Spec, FolderForest!Spec, FolderTree!Init, FolderForest!Init,
     FolderTree!Next, FolderForest!Next, FolderTree!vars, FolderForest!vars,
     FolderTree!Place, FolderForest!Place, FolderTree!PlaceStale, FolderForest!PlaceStale,
     FolderTree!Acyclic, FolderForest!Acyclic, FolderTree!Cycle, FolderForest!Cycle,
     FolderTree!NotBelow, FolderForest!NotBelow
<1>5. FolderForest!AcyclicUnlessStale => FolderTree!AcyclicUnlessStale
  BY DEF FolderTree!AcyclicUnlessStale, FolderForest!AcyclicUnlessStale,
     FolderTree!Acyclic, FolderForest!Acyclic, FolderTree!Cycle, FolderForest!Cycle
<1> QED BY <1>2, <1>3, <1>4, <1>5, PTL

\* In a forest every folder is below a root, by no more levels than there are
\* folders: each level shows one more folder or is the last.
LEMMA ForestShown ==
  ASSUME NEW m, IsFiniteSet(DOMAIN m.folder),
         \A C \in SUBSET DOMAIN m.folder : C # {} => \E f \in C : m.folder[f].parent \notin C
  PROVE  TreeFolders(m) = DOMAIN m.folder
<1> DEFINE folders == DOMAIN m.folder
           Parent(f) == m.folder[f].parent
           Below(F) == F \union {f \in folders : Parent(f) \in F}
           below == [F \in SUBSET folders |-> Below(F)]
           depth == Cardinality(folders)
           level == Walk(below, Roots(m), depth)
           Closed(F) == \A f \in folders : Parent(f) \in F => f \in F
           Enough(n) == /\ level[n] \in SUBSET folders /\ Roots(m) \subseteq level[n]
                        /\ Cardinality(level[n]) >= n \/ Closed(level[n])
           Bad == {n \in 0..depth : ~Enough(n)}
<1>1. depth \in Nat
  BY FS_CardinalityType
<1>2. /\ level[0] = Roots(m)
      /\ \A k \in 1..depth : level[k] = IF level[k - 1] \in SUBSET folders THEN Below(level[k - 1]) ELSE level[k - 1]
  <2>1. PICK n \in Nat : n = depth
    BY <1>1
  <2>2. PICK step, start : step = below /\ start = Roots(m)
    OBVIOUS
  <2>3. PICK w : w = Walk(step, start, n)
    OBVIOUS
  <2>4. /\ w[0] = start
        /\ \A k \in 1..n : w[k] = IF w[k - 1] \in DOMAIN step THEN step[w[k - 1]] ELSE w[k - 1]
    BY ONLY <2>3, n \in Nat, WalkSteps
  <2>5. DOMAIN below = SUBSET folders /\ \A F \in SUBSET folders : below[F] = Below(F)
    OBVIOUS
  <2>6. w = level
    BY <2>1, <2>2, <2>3
  <2> HIDE DEF below, level, Below
  <2> QED BY <2>1, <2>2, <2>4, <2>5, <2>6
<1> HIDE DEF level, below
<1>3. Roots(m) \in SUBSET folders /\ \A f \in folders : f \in Roots(m) <=> Parent(f) \notin folders
  BY DEF Roots
<1>4. Bad = {}
  <2> SUFFICES ASSUME Bad # {} PROVE FALSE
    OBVIOUS
  <2>1. Bad \subseteq Nat
    BY <1>1
  <2>2. PICK n \in Bad : \A k \in Bad : n <= k
    BY <2>1, Smallest
  <2>3. CASE n = 0
    <3>1. IsFiniteSet(Roots(m))
      BY <1>3, FS_Subset
    <3>2. Cardinality(Roots(m)) \in Nat
      BY <3>1, FS_CardinalityType
    <3>3. Enough(0)
      BY <1>2, <1>3, <3>2
    <3> QED BY <2>2, <2>3, <3>3
  <2>4. CASE n # 0
    <3>1. n \in 1..depth /\ n - 1 \in 0..depth /\ ~(n <= n - 1)
      BY <1>1, <2>4
    <3>2. Enough(n - 1)
      BY <2>2, <3>1
    <3> DEFINE F == level[n - 1]
               G == level[n]
    <3>3. G = Below(F)
      BY <1>2, <3>1, <3>2
    <3> HIDE DEF F, G
    <3>4. F \in SUBSET folders /\ Roots(m) \subseteq F /\ (Cardinality(F) >= n - 1 \/ Closed(F))
      BY <3>2 DEF F
    <3>5. G \in SUBSET folders /\ Roots(m) \subseteq G /\ F \subseteq G
      BY <3>3, <3>4
    <3>6. CASE Closed(F)
      <4>1. G = F
        BY <3>3, <3>4, <3>6
      <4> QED BY <2>2, <3>5, <3>6, <4>1 DEF G
    <3>7. CASE ~Closed(F)
      <4>1. PICK f \in folders : Parent(f) \in F /\ f \notin F
        BY <3>7
      <4>2. f \in G
        BY <3>3, <4>1
      <4>3. IsFiniteSet(G) /\ IsFiniteSet(F)
        BY <3>4, <3>5, FS_Subset
      <4>4. Cardinality(F \union {f}) = Cardinality(F) + 1 /\ IsFiniteSet(F \union {f})
        BY <4>1, <4>3, FS_AddElement
      <4>5. Cardinality(F \union {f}) <= Cardinality(G)
        BY <3>5, <4>2, <4>3, FS_Subset
      <4>6. Cardinality(F) \in Nat /\ Cardinality(G) \in Nat
        BY <4>3, FS_CardinalityType
      <4>7. Cardinality(G) >= n
        BY <3>1, <3>4, <3>7, <4>4, <4>5, <4>6
      <4> QED BY <2>2, <3>5, <4>7 DEF G
    <3> QED BY <3>6, <3>7
  <2> QED BY <2>3, <2>4
<1> DEFINE F == level[depth]
<1>5. TreeFolders(m) = F
  BY DEF TreeFolders, level, below
<1>6. Enough(depth)
  BY <1>1, <1>4
<1> HIDE DEF F
<1>7. F \in SUBSET folders /\ Roots(m) \subseteq F /\ (Cardinality(F) >= depth \/ Closed(F))
  BY <1>6 DEF F
<1>8. CASE Cardinality(F) >= depth
  <2>1. IsFiniteSet(F) /\ Cardinality(F) <= depth
    BY <1>7, FS_Subset
  <2>2. Cardinality(F) = depth
    BY <1>1, <1>8, <2>1, FS_CardinalityType
  <2> QED BY <1>5, <1>7, <2>2, FS_Subset
<1>9. CASE Closed(F)
  <2> DEFINE C == folders \ F
  <2>1. \A f \in C : Parent(f) \in C
    BY <1>3, <1>7, <1>9
  <2>2. C = {}
    BY <2>1
  <2> QED BY <1>5, <1>7, <2>2
<1> QED BY <1>7, <1>8, <1>9

\* As long as no folder was written from a stale model, every folder and
\* every project is shown, each project in one place (formatting.py:141).
THEOREM AllIsShown ==
  ASSUME Orderly("folder")
  PROVE  Spec => []TreeShowsAll
<1>1. Inv /\ TreeInv("folder") /\ FolderTree!AcyclicUnlessStale => TreeShowsAll
  <2> SUFFICES ASSUME Inv, TreeInv("folder"), FolderTree!AcyclicUnlessStale, "folder" \notin tainted
               PROVE  /\ TreeFolders(model) = DOMAIN model.folder
                      /\ \A p \in DOMAIN model.project :
                             Cardinality({S \in {1, 2, 3} :
                                 p \in CASE S = 1 -> TreeProjects(model) [] S = 2 -> NoFolderProjects(model)
                                         [] S = 3 -> DanglingFolderProjects(model)}) = 1
    BY DEF TreeShowsAll
  <2>1. FolderTree!Acyclic
    BY DEF FolderTree!AcyclicUnlessStale
  <2>2. "folder" \in Groups /\ Objects(model, "folder") = model.folder /\ Ids("folder") = FolderIds
    BY DEF Groups, Objects, Ids
  <2>3. /\ \A f \in DOMAIN model.folder : f \in DOMAIN index["folder"]
        /\ IsFiniteSet(DOMAIN model.folder) /\ Nobody \notin DOMAIN model.folder
    BY <2>2, GroupModel DEF Inv, Readable
  <2>4. DOMAIN model.folder \subseteq FolderIds
    BY <2>2, <2>3 DEF TreeInv, Located, Known
  <2>5. ASSUME NEW C \in SUBSET DOMAIN model.folder, C # {}
        PROVE  \E f \in C : model.folder[f].parent \notin C
    <3>1. PICK f \in C : [g \in FolderIds |-> ParentIn(model.folder, g)][f] \notin C
      BY <2>1, <2>4, <2>5 DEF FolderTree!Acyclic, FolderTree!Cycle
    <3>2. ParentIn(model.folder, f) \notin C
      BY <2>4, <3>1
    <3> QED BY <3>2 DEF ParentIn
  <2>6. TreeFolders(model) = DOMAIN model.folder
    BY <2>3, <2>5, ForestShown
  <2>7. ASSUME NEW p \in DOMAIN model.project
        PROVE  Cardinality({S \in {1, 2, 3} :
                   p \in CASE S = 1 -> TreeProjects(model) [] S = 2 -> NoFolderProjects(model)
                           [] S = 3 -> DanglingFolderProjects(model)}) = 1
    <3> DEFINE places == {S \in {1, 2, 3} :
                   p \in CASE S = 1 -> TreeProjects(model) [] S = 2 -> NoFolderProjects(model)
                           [] S = 3 -> DanglingFolderProjects(model)}
               folder == model.project[p].folder
    <3>1. /\ 1 \in places <=> folder \in DOMAIN model.folder
          /\ 2 \in places <=> folder = Nobody
          /\ 3 \in places <=> folder \notin DOMAIN model.folder \union {Nobody}
      BY <2>6 DEF TreeProjects, NoFolderProjects, DanglingFolderProjects
    <3>2. places \subseteq {1, 2, 3}
      OBVIOUS
    <3> HIDE DEF places
    <3>3. \E S : places = {S}
      <4>1. CASE folder = Nobody
        <5>1. places = {2}
          BY <2>3, <3>1, <3>2, <4>1
        <5> QED BY <5>1
      <4>2. CASE folder # Nobody /\ folder \in DOMAIN model.folder
        <5>1. places = {1}
          BY <3>1, <3>2, <4>2
        <5> QED BY <5>1
      <4>3. CASE folder \notin DOMAIN model.folder \union {Nobody}
        <5>1. places = {3}
          BY <3>1, <3>2, <4>3
        <5> QED BY <5>1
      <4> QED BY <4>1, <4>2, <4>3
    <3>4. Cardinality(places) = 1
      BY <3>3, FS_Singleton
    <3> QED BY <3>4 DEF places
  <2> QED BY <2>6, <2>7
<1>2. Spec => []TreeInv("folder")
  <2>1. "folder" \in Groups
    BY DEF Groups
  <2>2. Init => TreeInv("folder")
    BY <2>1, TreeInit DEF Orderly
  <2>3. Inv /\ TreeInv("folder") /\ [Next]_vars => TreeInv("folder")'
    BY <2>1, TreeNext
  <2> QED BY <2>2, <2>3, InvHolds, PTL DEF Spec
<1>3. Spec => []FolderTree!AcyclicUnlessStale
  BY NoFolderCycle
<1> QED BY <1>1, <1>2, <1>3, InvHolds, PTL
=============================================================================
