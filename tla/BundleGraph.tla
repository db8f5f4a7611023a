---------------------------- MODULE BundleGraph ----------------------------
(***************************************************************************)
(* The read-view of an OmniFocus bundle: which delta ZIPs of a WebDAV      *)
(* listing make up the current model, and which tail the next write is     *)
(* attached to (omnifocus/sync/graph.py over omnifocus/sync/protocol.py).  *)
(*                                                                         *)
(* A listing L is a record                                                 *)
(*   base    : [snap, tail]       the baseline 00000000000000=snap+tail    *)
(*   deltas  : set of deltas      <ts>=<parent>+...+<parent>+<tail>.zip    *)
(*   clients : set of [ts, id]    <ts>=<id>.client                         *)
(* A file is its parsed name. Time stamps, tails and client identifiers    *)
(* are naturals ordered as the fixed-width strings they stand for are.     *)
(* The contents of the .client files that could be read are a set of       *)
(* [ts, id, tails], tails a sequence.                                      *)
(***************************************************************************)
EXTENDS Naturals, Sequences, Functions

CONSTANT NoTail                 \* a baseline without "+tail"

Parents(d) == Range(d.parents)
Tails(L) == {d.tail : d \in L.deltas}

-----------------------------------------------------------------------------
(* The order of file names. *)

Ids(d) == Append(d.parents, d.tail)

\* '+' sorts before '.', so of two names that agree up to the end of the
\* shorter one the longer one comes first.
IdsBefore(x, y) ==
    \/ /\ Len(x) > Len(y)
       /\ \A i \in DOMAIN y : x[i] = y[i]
    \/ \E i \in DOMAIN x \cap DOMAIN y :
          /\ x[i] < y[i]
          /\ \A j \in 1..(i - 1) : x[j] = y[j]

\* Delta d sorts before delta e.
DeltaBefore(d, e) ==
    \/ d.ts < e.ts
    \/ d.ts = e.ts /\ IdsBefore(Ids(d), Ids(e))

\* Client file m sorts before client file n.
ClientBefore(m, n) ==
    \/ m.ts < n.ts
    \/ m.ts = n.ts /\ m.id < n.id

-----------------------------------------------------------------------------
(* Reachability. *)

\* S contains every delta whose parents are all in S or the baseline.
Grounded(L, S) ==
    \A d \in L.deltas : Parents(d) \subseteq S \cup {L.base.tail} => d.tail \in S

\* The tails from which every parent chain ends at the baseline.
Walkable(L) ==
    LET grounded == {S \in SUBSET Tails(L) : Grounded(L, S)}
    IN  {L.base.tail} \cup {t \in Tails(L) : \A S \in grounded : t \in S}

\* What the code answers: with no delta, or no baseline tail, every tail passes.
TailReachable(L, t) ==
    \/ L.base.tail = NoTail
    \/ L.deltas = {}
    \/ t \in Walkable(L)

\* S contains the tails F and, with a delta, its parents, except those in stop.
ClosedUp(L, F, stop, S) ==
    /\ (F \ stop) \cap Tails(L) \subseteq S
    /\ \A d \in L.deltas : d.tail \in S => (Parents(d) \ stop) \cap Tails(L) \subseteq S

\* The tails of the deltas met walking up from the tails F, not entering stop.
Above(L, F, stop) ==
    LET closed == {S \in SUBSET Tails(L) : ClosedUp(L, F, stop, S)}
    IN  {t \in Tails(L) : \A S \in closed : t \in S}

\* t descends from a.
DependsOn(L, t, a) ==
    LET up == Above(L, {t}, {})
    IN  t # a /\ \E d \in L.deltas : d.tail \in up /\ a \in Parents(d)

MaximalTails(L, T) == {t \in T : ~ \E o \in T : o # t /\ DependsOn(L, o, t)}

-----------------------------------------------------------------------------
(* The frontier. *)

IsFrontierTail(L, t) == \A d \in L.deltas : t \notin Parents(d)

\* Mutant: a sink whose ancestors are gone counts.
AllSinks(L) == {d \in L.deltas : IsFrontierTail(L, d.tail)}

ReachableSinks(L) ==
    LET walkable == Walkable(L)
    IN  {d \in L.deltas : IsFrontierTail(L, d.tail) /\ d.tail \in walkable}

\* Mutant: of several sinks only the newest counts.
NewestSink(L) ==
    {d.tail : d \in {e \in ReachableSinks(L) :
                        \A o \in ReachableSinks(L) : ~ DeltaBefore(e, o)}}

SinkFrontier(L) ==
    IF L.base.tail = NoTail THEN {}
    ELSE MaximalTails(L, {d.tail : d \in ReachableSinks(L)})

\* Of the .client files read, the newest one of each client.
Newest(read) == {f \in read : \A g \in read : g.id = f.id => ~ ClientBefore(f, g)}

\* <<n, f, i>>: the i-th tail of document f, which listed name n stands for. Each
\* name of a client stands for its newest document.
Advertised(L, read) ==
    UNION {{<<m[1], m[2], i>> : i \in DOMAIN m[2].tails} :
             m \in {q \in L.clients \X Newest(read) : q[1].id = q[2].id}}

SlotTail(s) == s[2].tails[s[3]]

ClientFrontier(L, read) ==
    MaximalTails(L, {t \in {SlotTail(s) : s \in Advertised(L, read)} : TailReachable(L, t)})

\* Without sinks and without client tails.
FallbackFrontier(L) ==
    IF L.base.tail # NoTail THEN {L.base.tail}
    ELSE {d.tail : d \in {e \in L.deltas : \A o \in L.deltas : ~ DeltaBefore(e, o)}}

\* Mutant: what the clients advertise comes before the sinks.
FrontierToldFirst(L, read) ==
    LET sinks == SinkFrontier(L)
        told == ClientFrontier(L, read)
    IN  IF told # {} THEN told ELSE IF sinks # {} THEN sinks ELSE FallbackFrontier(L)

\* The frontier: the first of the three that is not empty.
Frontier(L, read) ==
    LET sinks == SinkFrontier(L)
        told == ClientFrontier(L, read)
    IN  IF sinks # {} THEN sinks ELSE IF told # {} THEN told ELSE FallbackFrontier(L)

\* t heads the frontier: it is the newest sink, or the first tail that the
\* newest client file advertises, or there is no choice.
HeadsFrontier(L, read, t) ==
    LET sinks == SinkFrontier(L)
        told == ClientFrontier(L, read)
    IN  /\ t \in Frontier(L, read)
        /\ sinks # {} =>
              \E d \in L.deltas :
                 d.tail = t /\ \A e \in L.deltas : e.tail \in sinks => ~ DeltaBefore(d, e)
        /\ sinks = {} /\ told # {} =>
              \E s \in Advertised(L, read) :
                 /\ SlotTail(s) = t
                 /\ \A r \in Advertised(L, read) :
                       SlotTail(r) \in told =>
                          \/ r[1] = s[1] /\ s[3] <= r[3]
                          \/ ClientBefore(r[1], s[1])

-----------------------------------------------------------------------------
(* The transactions of a frontier. *)

\* The deltas to apply for frontier F: up from F, never past the baseline.
Selected(L, F) == Above(L, F, {L.base.tail})

\* The walk from F raises when a tail is no delta of the listing or a cycle.
Resolvable(L, F) ==
    LET stop == {L.base.tail}
        selected == Selected(L, F)
    IN  /\ F \subseteq Tails(L) \cup stop
        /\ \A d \in L.deltas :
              d.tail \in selected =>
                 /\ Parents(d) \subseteq Tails(L) \cup stop
                 /\ d.tail \notin Above(L, Parents(d), stop)

\* Mutant: only the baseline tells states apart.
FingerprintOfBaseline(L) == <<L.base>>

\* What tells one state of the bundle from another: the names, not the contents.
Fingerprint(L) == <<L.base, L.deltas, L.clients>>

=============================================================================
