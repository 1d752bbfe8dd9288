----------------------------- MODULE PushStream -----------------------------
(***************************************************************************)
(* What the client promises about pushes, whatever its threads do: a       *)
(* bounded first-in first-out stream from the connection to the            *)
(* application.  Nothing is repeated, reordered or dropped while the       *)
(* stream is open; closing it may cost the last push accepted, and that    *)
(* ends the stream.                                                        *)
(***************************************************************************)
EXTENDS Naturals, Sequences

CONSTANTS
  Pushes,  \* the pushes the server may send
  Room     \* how many accepted pushes may wait for the application

VARIABLES
  buffer,  \* accepted and not yet handed out, oldest first
  taken,   \* handed out, in that order
  phase    \* "open", "closed", or "ended" when the last one is lost

vars == <<buffer, taken, phase>>

Init == buffer = <<>> /\ taken = <<>> /\ phase = "open"

Accept(p) ==
  /\ phase # "ended" /\ Len(buffer) < Room
  /\ buffer' = Append(buffer, p)
  /\ UNCHANGED <<taken, phase>>

HandOut ==
  /\ buffer # <<>>
  /\ taken' = Append(taken, Head(buffer)) /\ buffer' = Tail(buffer)
  /\ UNCHANGED phase

Shut == phase = "open" /\ phase' = "closed" /\ UNCHANGED <<buffer, taken>>

LoseLast ==
  /\ phase = "closed" /\ buffer # <<>>
  /\ buffer' = SubSeq(buffer, 1, Len(buffer) - 1)
  /\ phase' = "ended"
  /\ UNCHANGED taken

Next == (\E p \in Pushes : Accept(p)) \/ HandOut \/ Shut \/ LoseLast

Spec == Init /\ [][Next]_vars
=============================================================================
