---------------------------- MODULE AuthLimiter -----------------------------
(***************************************************************************)
(* The way of a request through the HTTP server's middlewares to the       *)
(* service (http_api.py): the Host header, then the body, then the Bearer  *)
(* token, behind the limiter of failed authentications.  The limiter keeps *)
(* per client the times of its failures, oldest first, and forgets them    *)
(* when it next looks.  A request is one step: nothing between the look    *)
(* and the record is awaited.                                              *)
(*                                                                         *)
(* Times are kept as ages, which Tick increases, up to one more than the   *)
(* window: beyond that all ages are alike to the limiter.                  *)
(***************************************************************************)
EXTENDS Integers, Sequences

CONSTANTS
    Clients,    \* client addresses, "unknown" among them
    Limit,      \* failures that a client may have within a window
    Window      \* the window's length

ASSUME LimiterAssumption == Limit \in Nat \ {0} /\ Window \in Nat

VARIABLES
    failures,   \* the ages of a client's failures that the limiter remembers
    recent,     \* of its tries that were answered 401 since it was last let
                \* in, the ages of those within the window
    answer      \* the status of the last answer to a client; 0: none yet

vars == <<failures, recent, answer>>

\* The limiter drops old failures from the front, up to the first that is
\* within the window; one exactly as old as the window is.
Prune(s) ==
    LET n == CHOOSE k \in 0..Len(s) :
                 /\ \A i \in 1..k : s[i] > Window
                 /\ k < Len(s) => s[k + 1] <= Window
    IN  SubSeq(s, n + 1, Len(s))

\* Mutant: one failure more is allowed.
IsLimitedLate(c) == Len(Prune(failures[c])) > Limit

IsLimited(c) == Len(Prune(failures[c])) >= Limit

Answer(c, status) == answer' = [answer EXCEPT ![c] = status]

\* What the promise is about: all failures within the window.
Within(s) ==
    LET n == CHOOSE k \in 0..Len(s) :
                 /\ \A i \in (k + 1)..Len(s) : s[i] <= Window
                 /\ k > 0 => s[k] > Window
    IN  SubSeq(s, n + 1, Len(s))

Aged(s) == [i \in DOMAIN s |-> IF s[i] > Window THEN s[i] ELSE s[i] + 1]

-----------------------------------------------------------------------------
Init ==
    /\ failures = [c \in Clients |-> <<>>]
    /\ recent = [c \in Clients |-> <<>>]
    /\ answer = [c \in Clients |-> 0]

\* The host is not allowed.
RefuseHost(c) == Answer(c, 400) /\ UNCHANGED <<failures, recent>>

\* The body is too large, not declared as JSON or malformed.
RefuseBody(c) == Answer(c, 400) /\ UNCHANGED <<failures, recent>>

\* Mutant: an attempt while limited counts as a failure.
TooManyRecorded(c) ==
    /\ IsLimited(c)
    /\ failures' = [failures EXCEPT ![c] = Append(Prune(@), 0)]
    /\ Answer(c, 429)
    /\ UNCHANGED recent

\* Whatever the token, a limited client is sent away, and that is not recorded.
TooMany(c) ==
    /\ IsLimited(c)
    /\ failures' = [failures EXCEPT ![c] = Prune(@)]
    /\ Answer(c, 429)
    /\ UNCHANGED recent

\* Mutant: all clients share one bucket.
FailForAll(c) ==
    /\ ~IsLimited(c)
    /\ failures' = [d \in Clients |-> Append(Prune(failures[d]), 0)]
    /\ recent' = [recent EXCEPT ![c] = Append(@, 0)]
    /\ Answer(c, 401)

\* No header, one that is not a Bearer token, or a token that can be compared
\* with the keys and is none of them.
Fail(c) ==
    /\ ~IsLimited(c)
    /\ failures' = [failures EXCEPT ![c] = Append(Prune(@), 0)]
    /\ recent' = [recent EXCEPT ![c] = Append(@, 0)]
    /\ Answer(c, 401)

\* A token that is not all ASCII: comparing it with a key raises, and that is
\* answered as any error is.  No failure is recorded.
CompareRaises(c) ==
    /\ ~IsLimited(c)
    /\ failures' = [failures EXCEPT ![c] = Prune(@)]
    /\ Answer(c, 500)
    /\ UNCHANGED recent

\* Mutant: success leaves the failures alone.
PassWithoutReset(c) ==
    /\ ~IsLimited(c)
    /\ failures' = [failures EXCEPT ![c] = Prune(@)]
    /\ recent' = [recent EXCEPT ![c] = <<>>]
    /\ Answer(c, 200)

\* One of the keys: the request goes on to the service.
Pass(c) ==
    /\ ~IsLimited(c)
    /\ failures' = [failures EXCEPT ![c] = <<>>]
    /\ recent' = [recent EXCEPT ![c] = <<>>]
    /\ Answer(c, 200)

Tick ==
    /\ failures' = [c \in Clients |-> Aged(failures[c])]
    /\ recent' = [c \in Clients |-> Within(Aged(recent[c]))]
    /\ UNCHANGED answer

Dispatch(c) == TooMany(c) \/ Fail(c) \/ CompareRaises(c) \/ Pass(c)

Next == Tick \/ \E c \in Clients : RefuseHost(c) \/ RefuseBody(c) \/ Dispatch(c)

Spec == Init /\ [][Next]_vars

\* Time passes whatever the clients do.
FairSpec == Spec /\ WF_vars(Tick)

-----------------------------------------------------------------------------
(* Properties. *)

\* The variables keep their types, and the limiter never remembers more than
\* Limit failures of a client, the expired ones included.
TypeOK ==
    /\ failures \in [Clients -> Seq(0..(Window + 1))]
    /\ \A c \in Clients : Len(failures[c]) <= Limit
    /\ recent \in [Clients -> Seq(0..Window)]
    /\ answer \in [Clients -> {0, 200, 400, 401, 429, 500}]

\* Since a client was last let in, no more than Limit of its tries were
\* answered 401 within any window that ends now, and so within any window:
\* pruning late and keeping only what was recorded lets none slip through
\* (http_api.py:169).  Tries that end in CompareRaises are not among them:
\* of those there may be any number, whatever docs/http.md:23 and 286 say.
BoundedTries == \A c \in Clients : Len(recent[c]) <= Limit

\* And only who was answered 401 that often is sent away: neither what is
\* older, nor what was before a success, nor attempts while limited, nor
\* tries that ended in an error count (http_api.py:182, http_api.py:197).
LimitedOnlyIfTried == \A c \in Clients : IsLimited(c) => Len(recent[c]) >= Limit

\* What limits a client is a failure of its own, never another's request.
LimitedByOwnFailure ==
    [][\A c \in Clients : (~IsLimited(c) /\ IsLimited(c)') => answer'[c] = 401]_vars

\* A client that is limited will not be for ever, even if it never pauses.
EventuallyFree == \A c \in Clients : IsLimited(c) ~> ~IsLimited(c)
=============================================================================
