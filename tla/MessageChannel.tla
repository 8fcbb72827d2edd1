--------------------------- MODULE MessageChannel ---------------------------
(***************************************************************************)
(* What the framing of messages on a byte stream promises to the code that *)
(* handles them: every message arrives whole, once and in the order in     *)
(* which the peer has sent them.                                           *)
(***************************************************************************)
EXTENDS Naturals, Sequences

CONSTANT Messages

VARIABLES
  sent,     \* the messages that have been sent
  received  \* the messages that have been handled

Init == sent = <<>> /\ received = <<>>

Send(m) == sent' = Append(sent, m) /\ UNCHANGED received

Receive ==
  /\ Len(received) < Len(sent)
  /\ received' = Append(received, sent[Len(received) + 1])
  /\ UNCHANGED sent

Next == Receive \/ \E m \in Messages : Send(m)

Spec == Init /\ [][Next]_<<sent, received>>

=============================================================================
