----------------------------- MODULE MCFraming -----------------------------
(***************************************************************************)
(* Framing for TLC: what a client sends the server.                        *)
(***************************************************************************)
EXTENDS Framing

\* A request, a packet without and one with a payload, a keep-alive.
ClientTraffic ==
  {[type |-> 100, length |-> 0], [type |-> 102, length |-> 0],
   [type |-> 102, length |-> 2], [type |-> 104, length |-> 0]}

\* And a packet that struct Msg has no room for.
AnyTraffic ==
  ClientTraffic \cup {[type |-> 102, length |-> MaxPayload + 1]}

=============================================================================
