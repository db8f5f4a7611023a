--------------------------- MODULE WriterIdentity ---------------------------
(***************************************************************************)
(* How a cache directory keeps the client identity it registers with the   *)
(* bundle (omnifocus/store.py).  Two files hold it: writer_state.json and, *)
(* as a fallback, writer_identity.json.  _prepare_writer reads both,       *)
(* awaits the network, picks an identity and saves both; every uploaded    *)
(* delta registers the identity with a .client file and saves both again.  *)
(*                                                                         *)
(* Path.write_text truncates a file before it fills it, so a crash between *)
(* the two leaves a file that no longer parses.  Nothing locks the files   *)
(* against another process or another request of the same server.          *)
(***************************************************************************)
EXTENDS Naturals

CONSTANTS
    Proc,                   \* writers sharing the cache directory
    ClientId,               \* identifiers that generate_id can return
    NoId,                   \* a file that is absent or does not parse
    Concurrent,             \* may two writers be at work at once?
    Crashes,                \* "none", "spaced" (by a completed save), "any"
    MaxDeltas               \* bound: deltas of one write

ASSUME IdentityOK ==
    /\ NoId \notin ClientId
    /\ Concurrent \in BOOLEAN
    /\ Crashes \in {"none", "spaced", "any"}
    /\ MaxDeltas \in Nat \ {0}

VARIABLES
    stateFile,              \* the identity in writer_state.json
    identityFile,           \* the identity in writer_identity.json
    registered,             \* identities with a .client file in the bundle
    issued,                 \* ghost: identifiers generated so far
    hurt,                   \* ghost: crashed since the last completed save
    pc,                     \* where each writer stands
    state, identity,        \* what it read from the two files
    id,                     \* the identity it writes under
    deltas                  \* deltas it has uploaded

files == <<stateFile, identityFile>>
local == <<state, identity, id, deltas>>
vars == <<files, registered, issued, hurt, pc, local>>

Saving == {"truncate_state", "fill_state", "truncate_identity", "fill_identity"}
PCs == {"idle", "read_state", "read_identity", "await", "upload"} \cup Saving

Init ==
    /\ stateFile = NoId /\ identityFile = NoId
    /\ registered = {}
    /\ issued = {}
    /\ hurt = FALSE
    /\ pc = [p \in Proc |-> "idle"]
    /\ state = [p \in Proc |-> NoId]
    /\ identity = [p \in Proc |-> NoId]
    /\ id = [p \in Proc |-> NoId]
    /\ deltas = [p \in Proc |-> 0]

Goto(p, from, to) == pc[p] = from /\ pc' = [pc EXCEPT ![p] = to]

-----------------------------------------------------------------------------
(* _prepare_writer *)

Begin(p) ==
    /\ Concurrent \/ \A q \in Proc : pc[q] = "idle"
    /\ Goto(p, "idle", "read_state")
    /\ deltas' = [deltas EXCEPT ![p] = 0]
    /\ UNCHANGED <<files, registered, issued, hurt, state, identity, id>>

\* _load_writer_state
ReadState(p) ==
    /\ Goto(p, "read_state", "read_identity")
    /\ state' = [state EXCEPT ![p] = stateFile]
    /\ UNCHANGED <<files, registered, issued, hurt, identity, id, deltas>>

\* _load_writer_identity, and on to the .client files of the bundle
ReadIdentity(p) ==
    /\ Goto(p, "read_identity", "await")
    /\ identity' = [identity EXCEPT ![p] = identityFile]
    /\ UNCHANGED <<files, registered, issued, hurt, state, id, deltas>>

\* Mutant: the identity file is not consulted.
ChooseIdOrNew(p, i) ==
    \/ state[p] # NoId /\ i = state[p]
    \/ state[p] = NoId /\ i \in ClientId \ issued

\* _build_writer_state: the state, or else the identity, or else a new one
ChooseId(p, i) ==
    \/ state[p] # NoId /\ i = state[p]
    \/ state[p] = NoId /\ identity[p] # NoId /\ i = identity[p]
    \/ state[p] = NoId /\ identity[p] = NoId /\ i \in ClientId \ issued

PickId(p) ==
    /\ Goto(p, "await", "truncate_state")
    /\ \E i \in ClientId :
          /\ ChooseId(p, i)
          /\ id' = [id EXCEPT ![p] = i]
          /\ issued' = issued \cup {i}
    /\ UNCHANGED <<files, registered, hurt, state, identity, deltas>>

-----------------------------------------------------------------------------
(* _save_writer_state *)

TruncateState(p) ==
    /\ Goto(p, "truncate_state", "fill_state")
    /\ stateFile' = NoId
    /\ UNCHANGED <<identityFile, registered, issued, hurt, local>>

FillState(p) ==
    /\ Goto(p, "fill_state", "truncate_identity")
    /\ stateFile' = id[p]
    /\ UNCHANGED <<identityFile, registered, issued, hurt, local>>

TruncateIdentity(p) ==
    /\ Goto(p, "truncate_identity", "fill_identity")
    /\ identityFile' = NoId
    /\ UNCHANGED <<stateFile, registered, issued, hurt, local>>

\* Mutant: one delta too many.
FillIdentityOnceMore(p) ==
    /\ Goto(p, "fill_identity", IF deltas[p] <= MaxDeltas THEN "upload" ELSE "idle")
    /\ identityFile' = id[p]
    /\ hurt' = FALSE
    /\ UNCHANGED <<stateFile, registered, issued, local>>

\* The save is complete: go on with the next delta or return.
FillIdentity(p) ==
    /\ Goto(p, "fill_identity", IF deltas[p] < MaxDeltas THEN "upload" ELSE "idle")
    /\ identityFile' = id[p]
    /\ hurt' = FALSE
    /\ UNCHANGED <<stateFile, registered, issued, local>>

-----------------------------------------------------------------------------
\* _upload_transaction up to its save: the delta and, unless OF_WRITE_STRATEGY
\* leaves that to the last delta, its .client file.
Upload(p) ==
    /\ Goto(p, "upload", "truncate_state")
    /\ \/ registered' = registered \cup {id[p]}
       \/ UNCHANGED registered
    /\ deltas' = [deltas EXCEPT ![p] = @ + 1]
    /\ UNCHANGED <<files, issued, hurt, state, identity, id>>

\* An await fails, or the plan has no more deltas.
Return(p) ==
    /\ pc[p] \in {"await", "upload"}
    /\ pc' = [pc EXCEPT ![p] = "idle"]
    /\ UNCHANGED <<files, registered, issued, hurt, local>>

\* The process is killed.
Crash(p) ==
    /\ Crashes # "none"
    /\ Crashes = "spaced" => ~ hurt
    /\ pc[p] # "idle"
    /\ pc' = [pc EXCEPT ![p] = "idle"]
    /\ hurt' = TRUE
    /\ UNCHANGED <<files, registered, issued, local>>

\* The state file is deleted to repair the cache directory.
LoseState ==
    /\ Crashes # "any" => ~ hurt
    /\ \A p \in Proc : pc[p] = "idle"
    /\ stateFile # NoId
    /\ stateFile' = NoId
    /\ hurt' = TRUE
    /\ UNCHANGED <<identityFile, registered, issued, pc, local>>

Step(p) ==
    \/ Begin(p) \/ ReadState(p) \/ ReadIdentity(p) \/ PickId(p)
    \/ TruncateState(p) \/ FillState(p) \/ TruncateIdentity(p) \/ FillIdentity(p)
    \/ Upload(p) \/ Return(p) \/ Crash(p)

Next == LoseState \/ \E p \in Proc : Step(p)

Spec == Init /\ [][Next]_vars

-----------------------------------------------------------------------------
TypeOK ==
    /\ stateFile \in ClientId \cup {NoId}
    /\ identityFile \in ClientId \cup {NoId}
    /\ registered \subseteq ClientId
    /\ issued \subseteq ClientId
    /\ hurt \in BOOLEAN
    /\ pc \in [Proc -> PCs]
    /\ state \in [Proc -> ClientId \cup {NoId}]
    /\ identity \in [Proc -> ClientId \cup {NoId}]
    /\ id \in [Proc -> ClientId \cup {NoId}]
    /\ deltas \in [Proc -> 0..MaxDeltas]

(* "the same cache directory reuses the same OmniFocus registered client   *)
(* identity across restarts and repairs" (CHANGELOG.md): the bundle never  *)
(* sees two clients registered from one cache directory.                   *)
OneIdentity == \A i, j \in registered : i = j

(* Whenever no writer is at work, a registered identity is still in a file *)
(* from which the next writer will take it.                                *)
Remembered ==
    (\A p \in Proc : pc[p] = "idle") =>
        \A i \in registered :
            \/ stateFile = i
            \/ stateFile = NoId /\ identityFile = i

=============================================================================
