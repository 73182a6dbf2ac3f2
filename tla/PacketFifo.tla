----------------------------- MODULE PacketFifo -----------------------------
(***************************************************************************)
(* What an encoding session promises its client: one packet for each       *)
(* surface, in the order of the surfaces, never more than Delay behind     *)
(* them; after an error nothing more is promised.                          *)
(***************************************************************************)
EXTENDS Naturals, Sequences

CONSTANT Delay

VARIABLES sent, out, broken

fifoVars == <<sent, out, broken>>

Init == sent = 0 /\ out = <<>> /\ broken = FALSE

Deliver == Len(out) < sent' /\ out' = Append(out, Len(out))

\* A surface goes in; at most one packet comes out, and one must when the
\* client would otherwise be more than Delay behind.
Encode ==
  /\ ~broken
  /\ sent' = sent + 1
  /\ Deliver \/ out' = out
  /\ sent' - Len(out') <= Delay
  /\ UNCHANGED broken

Flush == ~broken /\ sent' = sent /\ Deliver /\ UNCHANGED broken

Break == broken' = TRUE /\ sent' \in {sent, sent + 1} /\ UNCHANGED out

Broken == broken /\ broken'

Next == Encode \/ Flush \/ Break \/ Broken

Spec == Init /\ [][Next]_fifoVars
=============================================================================
