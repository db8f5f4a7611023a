------------------------------ MODULE MCReview ------------------------------
(* Small instances of Review for TLC. *)
EXTENDS Review

Assigned1 == <<[prefix |-> "@", count |-> 1, unit |-> "m"], NoInterval, [prefix |-> "~", count |-> 30, unit |-> "d"]>>

\* The ends of January and February in years that are leap and that are not,
\* and the days around them.
EndsOfMonths ==
    {Date(2023, 12, 31), Date(2024, 1, 31), Date(2024, 2, 29), Date(2024, 3, 1), Date(2025, 2, 28)}

Intervals1 ==
    {NoInterval, [prefix |-> "@", count |-> 1, unit |-> "w"], [prefix |-> "~", count |-> 30, unit |-> "d"],
     [prefix |-> "@", count |-> 1, unit |-> "m"], [prefix |-> "", count |-> 1, unit |-> "y"],
     [prefix |-> "", count |-> 1, unit |-> "h"]}

Statuses1 == {"inactive", "dropped"}
=============================================================================
