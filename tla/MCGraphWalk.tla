---------------------------- MODULE MCGraphWalk ----------------------------
(* Small listings for GraphWalk: every delta DAG, and every graph that is   *)
(* none, of up to three deltas with up to two parents each.                *)
EXTENDS GraphWalk

\* 0 is the baseline tail, 1 to 3 the tails of deltas. A delta that is not in the
\* listing may still be a parent, or be asked about.
Four == 0..3

ParentLists == {<<p>> : p \in Four} \cup {s \in Four \X Four : s[1] # s[2]}

\* Deltas named in the order of their tails.
Deltas(D, parents) == {[ts |-> t, parents |-> parents[t], tail |-> t] : t \in D}

ListingsOver(base, sets) ==
    UNION {{[base |-> [snap |-> 0, tail |-> base], deltas |-> Deltas(D, parents), clients |-> {}] :
               parents \in [D -> ParentLists]} : D \in sets}

\* With a baseline tail, and small ones without.
SmallListings ==
    ListingsOver(0, SUBSET (1..3)) \cup ListingsOver(NoTail, SUBSET (1..2))

UpToTwoTails == {<<t>> : t \in 0..3} \cup {s \in (1..3) \X (1..3) : s[1] # s[2]}
=============================================================================
