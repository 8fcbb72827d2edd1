-------------------------- MODULE MCAndroidClient --------------------------
(***************************************************************************)
(* The client for TLC: what the server sends it.                           *)
(***************************************************************************)
EXTENDS AndroidClient

\* The address, a packet, a packet that struct Msg has no room for, a keep-alive.
ServerTraffic ==
  {[type |-> 101, length |-> 1], [type |-> 103, length |-> 2],
   [type |-> 103, length |-> MaxPayload + 1], [type |-> 104, length |-> 0]}

=============================================================================
