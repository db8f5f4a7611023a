----------------------- MODULE WriterIdentity_proofs -----------------------
(***************************************************************************)
(* One writer at a time, whose crashes are separated by completed saves,   *)
(* keeps one identity for any number of writes, deltas and crashes.        *)
(***************************************************************************)
EXTENDS WriterIdentity, TLAPS

\* The steps of a write once its identity is picked.
Writing == Saving \cup {"upload"}

TypeInv ==
    /\ TypeOK
    /\ \A p \in Proc : /\ pc[p] = "upload" => deltas[p] < MaxDeltas
                       /\ pc[p] \in Writing => id[p] \in ClientId

LEMMA TypeInit == Init => TypeInv
<1> SUFFICES ASSUME Init PROVE TypeInv
  OBVIOUS
<1>1. 0 \in 0..MaxDeltas /\ "idle" \in PCs
  BY IdentityOK DEF PCs
<1>2. TypeOK
  BY <1>1 DEF Init, TypeOK
<1> QED
  BY <1>2 DEF Init, TypeInv, Writing, Saving

LEMMA TypeNext == TypeInv /\ [Next]_vars => TypeInv'
<1> SUFFICES ASSUME TypeInv, [Next]_vars PROVE TypeInv'
  OBVIOUS
<1> USE IdentityOK DEF TypeInv, TypeOK, PCs, Writing, Saving, Goto, files, local
<1>1. ASSUME NEW p \in Proc, Begin(p) PROVE TypeInv'
  BY <1>1 DEF Begin
<1>2. ASSUME NEW p \in Proc, ReadState(p) \/ ReadIdentity(p) PROVE TypeInv'
  BY <1>2 DEF ReadState, ReadIdentity
<1>3. ASSUME NEW p \in Proc, PickId(p) PROVE TypeInv'
  BY <1>3 DEF PickId
<1>4. ASSUME NEW p \in Proc, TruncateState(p) \/ FillState(p) \/ TruncateIdentity(p)
      PROVE  TypeInv'
  BY <1>4 DEF TruncateState, FillState, TruncateIdentity
<1>5. ASSUME NEW p \in Proc, FillIdentity(p) PROVE TypeInv'
  BY <1>5 DEF FillIdentity
<1>6. ASSUME NEW p \in Proc, Upload(p) PROVE TypeInv'
  <2>1. deltas[p] + 1 \in 0..MaxDeltas
    BY <1>6 DEF Upload
  <2>2. deltas' \in [Proc -> 0..MaxDeltas] /\ registered' \subseteq ClientId
    BY <1>6, <2>1 DEF Upload
  <2> QED
    BY <1>6, <2>2 DEF Upload
<1>7. ASSUME NEW p \in Proc, Return(p) \/ Crash(p) PROVE TypeInv'
  BY <1>7 DEF Return, Crash
<1>8. CASE LoseState
  BY <1>8 DEF LoseState
<1>9. CASE UNCHANGED vars
  BY <1>9 DEF vars
<1> QED
  BY <1>1, <1>2, <1>3, <1>4, <1>5, <1>6, <1>7, <1>8, <1>9 DEF Next, Step

(* Every reachable state is well typed; a writer never goes past its last  *)
(* delta.                                                                  *)
THEOREM TypeCorrect == Spec => []TypeOK
<1>1. TypeInv => TypeOK
  BY DEF TypeInv
<1> QED
  BY <1>1, TypeInit, TypeNext, PTL DEF Spec

-----------------------------------------------------------------------------
(* One identity. *)

Alone ==
    \A p, q \in Proc : pc[p] # "idle" /\ pc[q] # "idle" => p = q

Holds(file, i) == file = NoId \/ file = i

\* The files agree with each other and with what is registered.
Agree ==
    /\ stateFile # NoId => Holds(identityFile, stateFile)
    /\ \A i \in registered : Holds(stateFile, i) /\ Holds(identityFile, i)
    /\ OneIdentity

\* What the files hold while no writer has begun to save: one crash costs at
\* most one of them.
Kept ==
    registered # {} =>
        /\ stateFile # NoId \/ identityFile # NoId
        /\ ~ hurt => stateFile # NoId /\ identityFile # NoId

\* What writer p has read, and what it is writing.
Writer(p) ==
    /\ pc[p] \in {"read_identity", "await"} => state[p] = stateFile
    /\ pc[p] = "await" => identity[p] = identityFile
    /\ pc[p] \in Writing =>
          /\ Holds(stateFile, id[p]) /\ Holds(identityFile, id[p])
          /\ registered \subseteq {id[p]}
    /\ pc[p] \in {"truncate_state", "fill_state"} /\ ~ hurt /\ registered # {} =>
          identityFile = id[p]
    /\ pc[p] \in {"truncate_identity", "fill_identity", "upload"} => stateFile = id[p]
    /\ pc[p] = "truncate_state" /\ ~ hurt /\ registered # {} => stateFile = id[p]
    /\ pc[p] = "upload" => identityFile = id[p] /\ ~ hurt

SerialInv ==
    /\ Alone
    /\ Agree
    /\ (\A p \in Proc : pc[p] \notin Writing) => Kept
    /\ \A p \in Proc : Writer(p)

LEMMA SerialInit == Init => SerialInv
BY DEF Init, SerialInv, Alone, Agree, Kept, Writer, OneIdentity, Holds, Writing, Saving

LEMMA SerialNext ==
    ASSUME ~ Concurrent, Crashes # "any", TypeInv, SerialInv, [Next]_vars
    PROVE  SerialInv'
<1> USE IdentityOK DEF Writing, Saving
<1>1. ASSUME NEW p \in Proc, NEW to \in PCs, pc[p] # "idle" \/ (\A q \in Proc : pc[q] = "idle"),
             pc' = [pc EXCEPT ![p] = to]
      PROVE  /\ Alone'
             /\ pc'[p] = to
             /\ \A q \in Proc \ {p} : pc[q] = "idle" /\ pc'[q] = "idle" /\ Writer(q)'
  <2>1. pc'[p] = to /\ \A q \in Proc \ {p} : pc'[q] = pc[q] /\ pc[q] = "idle"
    BY <1>1 DEF SerialInv, Alone, TypeInv, TypeOK
  <2> QED
    BY <2>1 DEF Alone, Writer
\* A step that neither touches a file nor registers, before the writing.
<1>2. ASSUME NEW p \in Proc, NEW from \in PCs, NEW to \in PCs \ Writing,
             from \notin Writing, pc[p] = from, pc' = [pc EXCEPT ![p] = to],
             from = "idle" => \A q \in Proc : pc[q] = "idle",
             UNCHANGED <<stateFile, identityFile, registered, hurt>>,
             to \in {"read_identity", "await"} => state'[p] = stateFile,
             to = "await" => identity'[p] = identityFile
      PROVE  SerialInv'
  <2>1. \A q \in Proc : pc[q] \notin Writing
    BY <1>2 DEF SerialInv, Alone
  <2>2. Kept' /\ Agree'
    BY <1>2, <2>1 DEF SerialInv, Kept, Agree, OneIdentity
  <2>3. pc'[p] = to
    BY <1>1, <1>2
  <2>4. Writer(p)'
    BY <1>2, <2>3 DEF Writer
  <2> QED
    BY <1>1, <1>2, <2>2, <2>4 DEF SerialInv
<1>3. ASSUME NEW p \in Proc, Begin(p) PROVE SerialInv'
  <2>1. /\ \A q \in Proc : pc[q] = "idle"
        /\ pc' = [pc EXCEPT ![p] = "read_state"] /\ {"idle", "read_state"} \subseteq PCs
        /\ UNCHANGED <<stateFile, identityFile, registered, hurt>>
    BY <1>3 DEF Begin, Goto, files, PCs
  <2> QED
    BY <1>2, <2>1
<1>4. ASSUME NEW p \in Proc, ReadState(p) PROVE SerialInv'
  <2>1. /\ pc[p] = "read_state" /\ "read_state" \in PCs
        /\ pc' = [pc EXCEPT ![p] = "read_identity"] /\ "read_identity" \in PCs
        /\ state'[p] = stateFile
        /\ UNCHANGED <<stateFile, identityFile, registered, hurt>>
    BY <1>4 DEF ReadState, Goto, files, PCs, TypeInv, TypeOK
  <2> QED
    BY <1>2, <2>1
<1>5. ASSUME NEW p \in Proc, ReadIdentity(p) PROVE SerialInv'
  <2>1. /\ pc[p] = "read_identity" /\ "read_identity" \in PCs /\ state'[p] = stateFile
        /\ pc' = [pc EXCEPT ![p] = "await"] /\ "await" \in PCs
        /\ identity'[p] = identityFile
        /\ UNCHANGED <<stateFile, identityFile, registered, hurt, state>>
    BY <1>5 DEF ReadIdentity, Goto, files, PCs, TypeInv, TypeOK, SerialInv, Writer
  <2> QED
    BY <1>2, <2>1
<1>6. ASSUME NEW p \in Proc, PickId(p) PROVE SerialInv'
  <2>1. PICK i \in ClientId : ChooseId(p, i) /\ id' = [id EXCEPT ![p] = i]
    BY <1>6 DEF PickId
  <2>2. /\ pc[p] = "await"
        /\ pc' = [pc EXCEPT ![p] = "truncate_state"] /\ "truncate_state" \in PCs
        /\ UNCHANGED <<stateFile, identityFile, registered, hurt>>
    BY <1>6 DEF PickId, Goto, files, PCs
  <2>3. id'[p] = i
    BY <2>1 DEF TypeInv, TypeOK
  <2>4. \A q \in Proc : pc[q] \notin Writing
    BY <1>1, <2>2 DEF SerialInv, Alone
  <2>5. Kept /\ Agree
    BY <2>4 DEF SerialInv
  <2>6. state[p] = stateFile /\ identity[p] = identityFile
    BY <2>2 DEF SerialInv, Writer
  <2>7. Holds(stateFile, i) /\ Holds(identityFile, i)
    BY <2>1, <2>5, <2>6 DEF ChooseId, Agree, Holds
  <2>8. registered \subseteq {i}
    BY <2>1, <2>5, <2>6 DEF ChooseId, Agree, Holds, Kept
  <2>9. Writer(p)'
    BY <1>1, <2>2, <2>3, <2>5, <2>7, <2>8 DEF Writer, Holds, Kept
  <2> QED
    BY <1>1, <2>2, <2>5, <2>9 DEF SerialInv, Agree, OneIdentity
\* A step of the saving: what it leaves in the files.
<1>7. ASSUME NEW p \in Proc, NEW to \in Writing \cup {"idle"}, pc[p] \in Writing,
             pc' = [pc EXCEPT ![p] = to],
             UNCHANGED <<registered, id>>,
             Holds(stateFile', id[p]), Holds(identityFile', id[p]),
             to \in Writing => Writer(p)',
             to \notin Writing => Kept'
      PROVE  SerialInv'
  <2>1. registered \subseteq {id[p]} /\ OneIdentity
    BY <1>7 DEF SerialInv, Writer, Agree
  <2>2. Agree'
    <3>1. registered' = registered
      BY <1>7
    <3>2. OneIdentity'
      BY <2>1, <3>1 DEF OneIdentity
    <3>3. \A i \in registered' : Holds(stateFile', i) /\ Holds(identityFile', i)
      BY <1>7, <2>1, <3>1
    <3>4. stateFile' # NoId => Holds(identityFile', stateFile')
      BY <1>7 DEF Holds
    <3> QED
      BY <3>2, <3>3, <3>4 DEF Agree
  <2>3. pc'[p] = to
    BY <1>7 DEF TypeInv, TypeOK
  <2>4. Writer(p)'
    BY <1>7, <2>3 DEF Writer
  <2>5. (\A q \in Proc : pc'[q] \notin Writing) => Kept'
    BY <1>7, <2>3
  <2> QED
    BY <1>1, <1>7, <2>2, <2>4, <2>5 DEF SerialInv, PCs
<1>8. ASSUME NEW p \in Proc, TruncateState(p) PROVE SerialInv'
  <2>1. /\ pc[p] = "truncate_state" /\ pc' = [pc EXCEPT ![p] = "fill_state"]
        /\ stateFile' = NoId /\ UNCHANGED <<identityFile, registered, hurt, id>>
        /\ "fill_state" \in PCs
    BY <1>8 DEF TruncateState, Goto, local, PCs
  <2>2. pc'[p] = "fill_state" /\ Writer(p)
    BY <1>1, <2>1 DEF SerialInv
  <2> QED
    BY <1>7, <2>1, <2>2 DEF Writer, Holds
<1>9. ASSUME NEW p \in Proc, FillState(p) PROVE SerialInv'
  <2>1. /\ pc[p] = "fill_state" /\ pc' = [pc EXCEPT ![p] = "truncate_identity"]
        /\ stateFile' = id[p] /\ UNCHANGED <<identityFile, registered, hurt, id>>
        /\ "truncate_identity" \in PCs
    BY <1>9 DEF FillState, Goto, local, PCs
  <2>2. pc'[p] = "truncate_identity" /\ Writer(p)
    BY <1>1, <2>1 DEF SerialInv
  <2> QED
    BY <1>7, <2>1, <2>2 DEF Writer, Holds
<1>10. ASSUME NEW p \in Proc, TruncateIdentity(p) PROVE SerialInv'
  <2>1. /\ pc[p] = "truncate_identity" /\ pc' = [pc EXCEPT ![p] = "fill_identity"]
        /\ identityFile' = NoId /\ UNCHANGED <<stateFile, registered, hurt, id>>
        /\ "fill_identity" \in PCs
    BY <1>10 DEF TruncateIdentity, Goto, local, PCs
  <2>2. pc'[p] = "fill_identity" /\ Writer(p)
    BY <1>1, <2>1 DEF SerialInv
  <2> QED
    BY <1>7, <2>1, <2>2 DEF Writer, Holds
<1>11. ASSUME NEW p \in Proc, FillIdentity(p) PROVE SerialInv'
  <2>1. PICK to \in {"upload", "idle"} : pc' = [pc EXCEPT ![p] = to]
    BY <1>11 DEF FillIdentity, Goto
  <2>2. /\ pc[p] = "fill_identity" /\ to \in PCs
        /\ identityFile' = id[p] /\ hurt' = FALSE
        /\ UNCHANGED <<stateFile, registered, id>>
    BY <1>11 DEF FillIdentity, Goto, local, PCs
  <2>3. pc'[p] = to /\ Writer(p) /\ id[p] \in ClientId
    BY <1>1, <2>1, <2>2 DEF SerialInv, TypeInv
  <2>4. stateFile' = id[p] /\ id[p] # NoId
    BY <2>2, <2>3 DEF Writer
  <2>5. Kept' /\ Writer(p)'
    BY <2>1, <2>2, <2>3, <2>4 DEF Kept, Writer, Holds
  <2> QED
    BY <1>7, <2>1, <2>2, <2>4, <2>5 DEF Holds
<1>12. ASSUME NEW p \in Proc, Upload(p) PROVE SerialInv'
  <2>1. /\ pc[p] = "upload" /\ pc' = [pc EXCEPT ![p] = "truncate_state"]
        /\ registered' \subseteq registered \cup {id[p]}
        /\ UNCHANGED <<stateFile, identityFile, hurt, id>>
        /\ "truncate_state" \in PCs
    BY <1>12 DEF Upload, Goto, files, PCs
  <2>2. /\ stateFile = id[p] /\ identityFile = id[p] /\ registered \subseteq {id[p]}
        /\ pc'[p] = "truncate_state"
    BY <1>1, <2>1 DEF SerialInv, Writer
  <2>3. Writer(p)' /\ Agree'
    BY <2>1, <2>2 DEF Writer, Agree, Holds, OneIdentity
  <2> QED
    BY <1>1, <2>1, <2>2, <2>3 DEF SerialInv
<1>13. ASSUME NEW p \in Proc, Return(p) PROVE SerialInv'
  <2>1. /\ pc[p] \in {"await", "upload"} /\ pc' = [pc EXCEPT ![p] = "idle"]
        /\ UNCHANGED <<stateFile, identityFile, registered, hurt, id, state, identity>>
        /\ {"idle", "await"} \subseteq PCs
    BY <1>13 DEF Return, files, local, PCs
  <2>2. CASE pc[p] = "await"
    BY <1>2, <2>1, <2>2
  <2>3. CASE pc[p] = "upload"
    <3>1. Writer(p) /\ id[p] # NoId
      BY <2>3 DEF SerialInv, TypeInv
    <3>2. Kept'
      BY <2>1, <2>3, <3>1 DEF Kept, Writer
    <3> QED
      BY <1>7, <2>1, <2>3, <3>1, <3>2 DEF Writer
  <2> QED
    BY <2>1, <2>2, <2>3
<1>14. ASSUME NEW p \in Proc, Crash(p) PROVE SerialInv'
  <2>1. /\ pc[p] # "idle" /\ pc' = [pc EXCEPT ![p] = "idle"] /\ ~ hurt /\ hurt' = TRUE
        /\ UNCHANGED <<stateFile, identityFile, registered, id>>
        /\ "idle" \in PCs
    BY <1>14 DEF Crash, files, local, PCs
  <2>2. CASE pc[p] \in Writing
    <3>1. Writer(p) /\ id[p] # NoId
      BY <2>1, <2>2 DEF SerialInv, TypeInv
    <3>2. Kept'
      BY <2>1, <2>2, <3>1 DEF Kept, Writer
    <3> QED
      BY <1>7, <2>1, <2>2, <3>1, <3>2 DEF Writer
  <2>3. CASE pc[p] \notin Writing
    <3>1. \A q \in Proc : pc[q] \notin Writing
      BY <2>1, <2>3 DEF SerialInv, Alone
    <3>2. Kept' /\ Agree'
      BY <2>1, <3>1 DEF SerialInv, Kept, Agree, OneIdentity
    <3>3. pc'[p] = "idle"
      BY <1>1, <2>1
    <3>4. Writer(p)'
      BY <3>3 DEF Writer
    <3> QED
      BY <1>1, <2>1, <3>2, <3>4 DEF SerialInv
  <2> QED
    BY <2>2, <2>3
<1>15. CASE LoseState
  <2>1. /\ \A p \in Proc : pc[p] = "idle"
        /\ ~ hurt /\ hurt' = TRUE /\ stateFile' = NoId
        /\ UNCHANGED <<identityFile, registered, pc>>
    BY <1>15 DEF LoseState
  <2>2. Kept' /\ Agree'
    BY <2>1 DEF SerialInv, Kept, Agree, Holds, OneIdentity
  <2>3. \A p \in Proc : Writer(p)'
    BY <2>1 DEF Writer
  <2> QED
    BY <2>1, <2>2, <2>3 DEF SerialInv, Alone
<1>16. CASE UNCHANGED vars
  BY <1>16 DEF vars, files, local, SerialInv, Alone, Agree, Kept, Writer, OneIdentity
<1> QED
  BY <1>3, <1>4, <1>5, <1>6, <1>8, <1>9, <1>10, <1>11, <1>12, <1>13, <1>14, <1>15, <1>16
     DEF Next, Step

(* With one writer at a time, a cache directory registers one identity     *)
(* only, whatever is lost or killed between two completed saves.           *)
THEOREM SerialOneIdentity ==
    ASSUME ~ Concurrent, Crashes # "any"
    PROVE  Spec => []OneIdentity
<1>1. SerialInv => OneIdentity
  BY DEF SerialInv, Agree
<1> QED
  BY <1>1, TypeInit, TypeNext, SerialInit, SerialNext, PTL DEF Spec

(* And the next writer always finds it again.                              *)
THEOREM SerialRemembered ==
    ASSUME ~ Concurrent, Crashes # "any"
    PROVE  Spec => []Remembered
<1>1. SerialInv => Remembered
  BY DEF SerialInv, Agree, Kept, Holds, Remembered, Writing, Saving
<1> QED
  BY <1>1, TypeInit, TypeNext, SerialInit, SerialNext, PTL DEF Spec

=============================================================================
