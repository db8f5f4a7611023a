---------------------------- MODULE MCSyncStore ----------------------------
(* Small instances of SyncStore for TLC. *)
EXTENDS SyncStore

TwoNewTails == 0..2
ThreeNewTails == 0..3
FourNewTails == 0..4

\* Bound: identifiers are issued in increasing order, a chain's first one first.
\* Files of the same second then sort by age; chains, dated ahead of the clock,
\* still give the other order.
IssuedInOrder ==
    /\ \A t \in issued' : \A u \in TailId : u < t => u \in issued'
    /\ \A p \in Proc : \A i \in 2..Len(plan'[p]) :
          plan'[p][i - 1].tail < plan'[p][i].tail
=============================================================================
