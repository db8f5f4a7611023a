-------------------------------- MODULE TxLog --------------------------------
(***************************************************************************)
(* What the store promises its callers: one log of transactions that only  *)
(* grows.  A transaction enters it at one instant and stays, whatever      *)
(* becomes of the call that wrote it; a write that returns to its caller   *)
(* has all of its transactions in the log; a call works from the log as it *)
(* stood at one instant.                                                   *)
(***************************************************************************)
CONSTANTS
    Proc,                   \* callers
    Tx                      \* transactions

VARIABLES
    log,                    \* the transactions in effect
    acked,                  \* those whose writes returned to their callers
    asOf                    \* the log each caller works from

Init ==
    /\ log = {}
    /\ acked = {}
    /\ asOf = [p \in Proc |-> {}]

\* A transaction takes effect.
Commit ==
    /\ \E t \in Tx \ log : log' = log \cup {t}
    /\ UNCHANGED <<acked, asOf>>

\* A call begins.
Ask(p) ==
    /\ asOf' = [asOf EXCEPT ![p] = log]
    /\ UNCHANGED <<log, acked>>

\* A call ends, with its transactions in effect if it succeeds.
Reply(p) ==
    /\ asOf' = [asOf EXCEPT ![p] = {}]
    /\ \E T \in SUBSET log : acked' = acked \cup T
    /\ UNCHANGED log

Next == Commit \/ \E p \in Proc : Ask(p) \/ Reply(p)

Spec == Init /\ [][Next]_<<log, acked, asOf>>
=============================================================================
