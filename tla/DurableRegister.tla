-------------------------- MODULE DurableRegister --------------------------
(***************************************************************************)
(* What the settings file promises: one payload that survives power losses. *)
(* A write replaces it in one step by the payload that was asked for, or    *)
(* not at all.  Only a factory reset may set it back, and a reset that is   *)
(* interrupted may bring back the draft of a write interrupted earlier.     *)
(***************************************************************************)
CONSTANTS Payloads, Default

VARIABLES value,     \* the payload the next boot loads
          draft,     \* a complete payload staged beside it, or Nothing
          request    \* the payload being written, Nothing or Erasing

Nothing == "none"
Erasing == "erasing"

Init == value = Default /\ draft = Nothing /\ request = Nothing

\* A caller hands over a payload, or asks for a reset.
Ask ==
  /\ request = Nothing
  /\ request' \in Payloads \union {Erasing}
  /\ UNCHANGED <<value, draft>>

\* The payload is complete beside the value in force.
Stage ==
  /\ request \in Payloads
  /\ draft' = request
  /\ UNCHANGED <<value, request>>

\* A draft that is overwritten or promoted is no longer there.
Discard == draft' = Nothing /\ UNCHANGED <<value, request>>

\* The payload asked for takes effect.
Commit ==
  /\ request \in Payloads
  /\ value' = request
  /\ draft' = Nothing
  /\ UNCHANGED request

\* A reset forgets the value, then the draft.
Erase ==
  /\ request = Erasing
  /\ value' \in {Default, draft} \ {Nothing}
  /\ draft' = Nothing
  /\ UNCHANGED request

\* The request is over: done, refused or cut off by a power loss.
Finish == request' = Nothing /\ UNCHANGED <<value, draft>>

Next == Ask \/ Stage \/ Discard \/ Commit \/ Erase \/ Finish

Spec == Init /\ [][Next]_<<value, draft, request>>
============================================================================
