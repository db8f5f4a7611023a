------------------------------- MODULE SyncLog -------------------------------
(***************************************************************************)
(* SyncStore implements TxLog.  The log is the model of the bundle,        *)
(* CurrentView, kept in a history variable.                                *)
(***************************************************************************)
EXTENDS SyncStore

VARIABLE log

logVars == <<vars, log>>

LogInit == Init /\ log = CurrentView

\* Every step records the view that the server gives after it.
LogNext ==
    /\ Next
    /\ \/ UNCHANGED <<server, log>>
       \/ /\ server' # server
          /\ \E b \in {base'}, ds \in {deltas'}, fs \in {clientFiles'}, old \in {folded'} :
                LET L == [base |-> b, deltas |-> ds, clients |-> {NameOf(f) : f \in fs}]
                IN  log' = View(L, fs, old)

LogSpec == LogInit /\ [][LogNext]_logVars

Log == INSTANCE TxLog WITH Tx <- TailId, asOf <- due

(* The store is a log that only grows: the model of the bundle gains one   *)
(* transaction at a time, at the PUT of its delta, and loses none; a write *)
(* is acknowledged when all of its transactions count. Forks, merges, what *)
(* clients advertise, compactions and their clean-up do not show.          *)
ImplementsLog == Log!Spec
=============================================================================
