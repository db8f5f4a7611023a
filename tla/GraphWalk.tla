----------------------------- MODULE GraphWalk -----------------------------
(***************************************************************************)
(* The loops of omnifocus/sync/graph.py, one step per iteration.  They walk *)
(* the delta DAG with explicit stacks instead of recursion:                *)
(*                                                                         *)
(*   resolve   reachable_delta_tail_ids, and then                          *)
(*   sort      topologically_sorted_delta_filenames                        *)
(*   reach     tail_reachable_from_baseline                                *)
(*   depend    tail_depends_on                                             *)
(*                                                                         *)
(* The listing need not be a DAG and may lack parents: the names of a      *)
(* WebDAV directory are not checked by anybody.  No two deltas of it have  *)
(* the same tail.  BundleGraph says what the walks should answer.          *)
(***************************************************************************)
EXTENDS BundleGraph, SequencesExt

CONSTANTS
    Listings,               \* the listings to walk
    Frontiers,              \* the frontiers, as sequences, to resolve
    TailId                  \* the tails there are; each is asked about

\* What a listing of file names is: identifiers are sequences, and no two
\* deltas have the same tail.
ASSUME ListingsAssumption ==
    \A l \in Listings :
        /\ \A d \in l.deltas : d.tail \in TailId /\ d.parents \in Seq(TailId)
        /\ \A d, e \in l.deltas : d.tail = e.tail => d = e

ASSUME FrontiersAssumption == \A F \in Frontiers : F \in Seq(TailId)

VARIABLES
    L,                      \* the listing
    walk,                   \* the loop that runs, or "done" or "raised"
    asked,                  \* what was called, with which tails
    todo,                   \* resolve: frontier tails to start from
    roots,                  \* sort: deltas to start from
    stack,                  \* tails; sort: frames <<tail, parents_emitted>>
    onPath,                 \* resolve, reach: the path to the top of the stack
    selected,               \* resolve: tails whose ancestors are all selected
    ordered,                \* sort: the deltas in the order of application
    memo,                   \* reach: the answers so far
    visited,                \* depend: the tails already looked at
    answer                  \* reach, depend: what is returned

input == <<L, asked>>
resolving == <<todo, selected>>
sorting == <<roots, ordered>>
asking == <<memo, visited, answer>>
vars == <<input, walk, stack, onPath, resolving, sorting, asking>>

Base == L.base.tail
IsDelta(t) == t \in Tails(L)
ParentsOf(t) == (CHOOSE d \in L.deltas : d.tail = t).parents
Top == Last(stack)
Push(s) == stack' = stack \o s
Pop == stack' = Front(stack)

\* The tails of s that are not in X, in their order.
Without(s, X) ==
    LET kept[i \in 0..Len(s)] ==
            IF i = 0 THEN <<>>
            ELSE IF s[i] \in X THEN kept[i - 1] ELSE Append(kept[i - 1], s[i])
    IN  kept[Len(s)]

Begin(w, args) ==
    /\ walk = w
    /\ asked = [walk |-> w, tails |-> args]
    /\ todo = IF w = "resolve" THEN args ELSE <<>>
    /\ stack = IF w = "resolve" THEN <<>> ELSE <<args[1]>>

Init ==
    /\ L \in Listings
    /\ \/ \E F \in Frontiers : Begin("resolve", F)
       \/ \E t \in TailId : Begin("reach", <<t>>)
       \/ \E t, a \in TailId : Begin("depend", <<t, a>>)
    /\ roots = {} /\ ordered = <<>>
    /\ onPath = {} /\ selected = {}
    /\ memo = <<>> /\ visited = {} /\ answer = FALSE

-----------------------------------------------------------------------------
(* reachable_delta_tail_ids *)

Resolved == selected \cup {Base}

NextFrontierTail ==
    /\ walk = "resolve" /\ stack = <<>> /\ todo # <<>>
    /\ Push(<<Head(todo)>>)
    /\ todo' = Tail(todo)
    /\ UNCHANGED <<input, walk, onPath, selected, sorting, asking>>

SkipResolved ==
    /\ walk = "resolve" /\ stack # <<>>
    /\ Top \in Resolved
    /\ Pop
    /\ UNCHANGED <<input, walk, onPath, resolving, sorting, asking>>

\* Mutant: a parent that waits on the stack passes for a cycle.
EnterTailOnStack ==
    /\ walk = "resolve" /\ stack # <<>>
    /\ Top \notin Resolved /\ Top \notin onPath
    /\ LET up == Without(ParentsOf(Top), Resolved)
           raises == ~ IsDelta(Top) \/ Range(up) \cap Range(stack) # {}
       IN  IF raises THEN walk' = "raised" /\ UNCHANGED <<stack, onPath>>
           ELSE onPath' = onPath \cup {Top} /\ Push(up) /\ UNCHANGED walk
    /\ UNCHANGED <<input, resolving, sorting, asking>>

\* The first visit of a tail: its parents go on the stack.
EnterTail ==
    /\ walk = "resolve" /\ stack # <<>>
    /\ Top \notin Resolved /\ Top \notin onPath
    /\ LET up == Without(ParentsOf(Top), Resolved)
       IN  \/ /\ ~ IsDelta(Top)
              /\ walk' = "raised"
              /\ UNCHANGED <<stack, onPath>>
           \/ /\ IsDelta(Top)
              /\ Range(up) \cap (onPath \cup {Top}) # {}
              /\ walk' = "raised"
              /\ UNCHANGED <<stack, onPath>>
           \/ /\ IsDelta(Top)
              /\ Range(up) \cap (onPath \cup {Top}) = {}
              /\ onPath' = onPath \cup {Top}
              /\ Push(up)
              /\ UNCHANGED walk
    /\ UNCHANGED <<input, resolving, sorting, asking>>

\* The second visit: all its parents are resolved.
LeaveTail ==
    /\ walk = "resolve" /\ stack # <<>>
    /\ Top \notin Resolved /\ Top \in onPath
    /\ onPath' = onPath \ {Top}
    /\ selected' = selected \cup {Top}
    /\ Pop
    /\ UNCHANGED <<input, walk, todo, sorting, asking>>

\* transaction_filenames_for_frontier goes on to sort what was selected.
StartSorting ==
    /\ walk = "resolve" /\ stack = <<>> /\ todo = <<>>
    /\ walk' = "sort"
    /\ roots' = {d \in L.deltas : d.tail \in selected}
    /\ UNCHANGED <<input, stack, onPath, resolving, ordered, asking>>

-----------------------------------------------------------------------------
(* topologically_sorted_delta_filenames *)

Emitted == {ordered[i].tail : i \in DOMAIN ordered}

\* Mutant: the newest root first.
NextRootNewest ==
    /\ walk = "sort" /\ stack = <<>>
    /\ \E d \in roots :
          /\ \A e \in roots : ~ DeltaBefore(d, e)
          /\ roots' = roots \ {d}
          /\ Push(<<<<d.tail, FALSE>>>>)
    /\ UNCHANGED <<input, walk, onPath, resolving, ordered, asking>>

\* The roots in the order of their file names.
NextRoot ==
    /\ walk = "sort" /\ stack = <<>>
    /\ \E d \in roots :
          /\ \A e \in roots : ~ DeltaBefore(e, d)
          /\ roots' = roots \ {d}
          /\ Push(<<<<d.tail, FALSE>>>>)
    /\ UNCHANGED <<input, walk, onPath, resolving, ordered, asking>>

SkipFrame ==
    /\ walk = "sort" /\ stack # <<>> /\ ~ Top[2]
    /\ Top[1] \in Emitted \/ Top[1] \notin selected
    /\ Pop
    /\ UNCHANGED <<input, walk, onPath, resolving, sorting, asking>>

\* Mutant: the delta is emitted before its parents.
ExpandFrameUnder ==
    /\ walk = "sort" /\ stack # <<>> /\ ~ Top[2]
    /\ Top[1] \notin Emitted /\ Top[1] \in selected
    /\ LET ps == Reverse(ParentsOf(Top[1]))
       IN  stack' = Front(stack) \o [i \in DOMAIN ps |-> <<ps[i], FALSE>>]
                                 \o <<<<Top[1], TRUE>>>>
    /\ UNCHANGED <<input, walk, onPath, resolving, sorting, asking>>

\* Parents are pushed last one first, so that the first is emitted first.
ExpandFrame ==
    /\ walk = "sort" /\ stack # <<>> /\ ~ Top[2]
    /\ Top[1] \notin Emitted /\ Top[1] \in selected
    /\ LET ps == Reverse(ParentsOf(Top[1]))
       IN  stack' = Front(stack) \o <<<<Top[1], TRUE>>>>
                                 \o [i \in DOMAIN ps |-> <<ps[i], FALSE>>]
    /\ UNCHANGED <<input, walk, onPath, resolving, sorting, asking>>

EmitDelta ==
    /\ walk = "sort" /\ stack # <<>> /\ Top[2]
    /\ ordered' = Append(ordered, CHOOSE d \in L.deltas : d.tail = Top[1])
    /\ Pop
    /\ UNCHANGED <<input, walk, onPath, resolving, roots, asking>>

FinishSorting ==
    /\ walk = "sort" /\ stack = <<>> /\ roots = {}
    /\ walk' = "done"
    /\ UNCHANGED <<input, stack, onPath, resolving, sorting, asking>>

-----------------------------------------------------------------------------
(* tail_reachable_from_baseline *)

Answer(a) ==
    /\ answer' = a
    /\ walk' = "done"

\* Without a baseline tail, or without deltas, and for the baseline tail itself.
ReachAtOnce ==
    /\ walk = "reach" /\ memo = <<>> /\ onPath = {}
    /\ Base = NoTail \/ L.deltas = {} \/ asked.tails[1] = Base
    /\ Answer(TRUE)
    /\ UNCHANGED <<input, stack, onPath, resolving, sorting, memo, visited>>

Reaching ==
    /\ walk = "reach" /\ stack # <<>>
    /\ Base # NoTail /\ L.deltas # {} /\ asked.tails[1] # Base

Remember(b) == memo' = [t \in DOMAIN memo \cup {Top} |-> IF t = Top THEN b ELSE memo[t]]

SkipKnown ==
    /\ Reaching /\ Top \in DOMAIN memo
    /\ Pop
    /\ UNCHANGED <<input, walk, onPath, resolving, sorting, asking>>

MissDelta ==
    /\ Reaching /\ Top \notin DOMAIN memo
    /\ ~ IsDelta(Top)
    /\ Remember(FALSE)
    /\ Pop
    /\ UNCHANGED <<input, walk, onPath, resolving, sorting, visited, answer>>

\* The first visit. A parent on the path closes a cycle and is not pushed again.
EnterReach ==
    /\ Reaching /\ Top \notin DOMAIN memo
    /\ IsDelta(Top) /\ Top \notin onPath
    /\ onPath' = onPath \cup {Top}
    /\ Push(Without(ParentsOf(Top), {Base} \cup DOMAIN memo \cup onPath'))
    /\ UNCHANGED <<input, walk, resolving, sorting, asking>>

\* Mutant: one parent that reaches is enough.
LeaveReachAnyParent ==
    /\ Reaching /\ Top \notin DOMAIN memo
    /\ IsDelta(Top) /\ Top \in onPath
    /\ onPath' = onPath \ {Top}
    /\ LET reaches(p) == p = Base \/ (p \in DOMAIN memo /\ memo[p])
       IN  Remember(\E p \in Range(ParentsOf(Top)) : reaches(p))
    /\ Pop
    /\ UNCHANGED <<input, walk, resolving, sorting, visited, answer>>

\* The second visit: every parent must reach; one still on the path does not.
LeaveReach ==
    /\ Reaching /\ Top \notin DOMAIN memo
    /\ IsDelta(Top) /\ Top \in onPath
    /\ onPath' = onPath \ {Top}
    /\ LET reaches(p) == p = Base \/ (p \in DOMAIN memo /\ memo[p])
       IN  Remember(\A p \in Range(ParentsOf(Top)) : reaches(p))
    /\ Pop
    /\ UNCHANGED <<input, walk, resolving, sorting, visited, answer>>

FinishReach ==
    /\ walk = "reach" /\ stack = <<>>
    /\ Answer(memo[asked.tails[1]])
    /\ UNCHANGED <<input, stack, onPath, resolving, sorting, memo, visited>>

-----------------------------------------------------------------------------
(* tail_depends_on *)

DependOnSelf ==
    /\ walk = "depend" /\ asked.tails[1] = asked.tails[2]
    /\ Answer(FALSE)
    /\ UNCHANGED <<input, stack, onPath, resolving, sorting, memo, visited>>

\* Mutant: a tail is looked at again and again.
LookAgain ==
    /\ walk = "depend" /\ asked.tails[1] # asked.tails[2] /\ stack # <<>>
    /\ visited' = visited \cup {Top}
    /\ LET ps == IF IsDelta(Top) THEN ParentsOf(Top) ELSE <<>>
       IN  \/ /\ asked.tails[2] \in Range(ps)
              /\ Answer(TRUE)
              /\ UNCHANGED stack
           \/ /\ asked.tails[2] \notin Range(ps)
              /\ stack' = Front(stack) \o ps
              /\ UNCHANGED <<walk, answer>>
    /\ UNCHANGED <<input, onPath, resolving, sorting, memo>>

LookAtTail ==
    /\ walk = "depend" /\ asked.tails[1] # asked.tails[2] /\ stack # <<>>
    /\ visited' = visited \cup {Top}
    /\ LET ps == IF IsDelta(Top) /\ Top \notin visited THEN ParentsOf(Top) ELSE <<>>
       IN  \/ /\ asked.tails[2] \in Range(ps)
              /\ Answer(TRUE)
              /\ UNCHANGED stack
           \/ /\ asked.tails[2] \notin Range(ps)
              /\ stack' = Front(stack) \o ps
              /\ UNCHANGED <<walk, answer>>
    /\ UNCHANGED <<input, onPath, resolving, sorting, memo>>

FinishDepend ==
    /\ walk = "depend" /\ stack = <<>>
    /\ Answer(FALSE)
    /\ UNCHANGED <<input, stack, onPath, resolving, sorting, memo, visited>>

-----------------------------------------------------------------------------
Next ==
    \/ NextFrontierTail \/ SkipResolved \/ EnterTail \/ LeaveTail \/ StartSorting
    \/ NextRoot \/ SkipFrame \/ ExpandFrame \/ EmitDelta \/ FinishSorting
    \/ ReachAtOnce \/ SkipKnown \/ MissDelta \/ EnterReach \/ LeaveReach \/ FinishReach
    \/ DependOnSelf \/ LookAtTail \/ FinishDepend

\* A loop runs in one call without an await: nothing can hold it up.
Spec == Init /\ [][Next]_vars /\ WF_vars(Next)

-----------------------------------------------------------------------------
(* The resolving walk raises for the frontiers that cannot be walked back  *)
(* to the baseline and for no other, and otherwise selects exactly the     *)
(* deltas the frontier descends from.                                      *)
ResolvesExactly ==
    /\ walk = "raised" => ~ Resolvable(L, Range(asked.tails))
    /\ walk = "sort" =>
          /\ Resolvable(L, Range(asked.tails))
          /\ selected = Selected(L, Range(asked.tails))

(* Of two selected deltas, of which one is the other's parent, the parent  *)
(* is applied first; a delta is applied once; in the end all are applied.  *)
AppliedParentsFirst ==
    /\ \A i \in DOMAIN ordered :
          /\ Parents(ordered[i]) \cap selected \subseteq {ordered[j].tail : j \in 1..(i - 1)}
          /\ \A j \in 1..(i - 1) : ordered[j] # ordered[i]
    /\ walk = "done" => Emitted = selected

InNameOrder(s) == \A i, j \in DOMAIN s : i < j => ~ DeltaBefore(s[j], s[i])

(* Where no delta is named before its parent, the order of application is  *)
(* the order of the names, which the callers of build_model promise.       *)
ChronologicalIfDated ==
    (\A d, e \in L.deltas : d.tail \in Parents(e) => DeltaBefore(d, e)) => InNameOrder(ordered)

(* "callers are responsible for sorting transactions chronologically by    *)
(* filename" (build_model).                                                *)
AppliedChronologically == InNameOrder(ordered)

(* The two questions are answered by what they ask, memo or not: a tail    *)
(* that closes a cycle, or hangs from a missing parent, is not reachable.  *)
AnswersRight ==
    walk = "done" =>
        /\ asked.walk = "reach" => answer = TailReachable(L, asked.tails[1])
        /\ asked.walk = "depend" => answer = DependsOn(L, asked.tails[1], asked.tails[2])

(* Every walk ends, on any listing.                                        *)
WalkEnds == <>(walk \in {"done", "raised"})
=============================================================================
