----------------------------- MODULE LeasePool -----------------------------
(***************************************************************************)
(* What the address pool promises, whoever uses it: an address is leased   *)
(* to one holder at a time, and changes hands only by being given back.    *)
(***************************************************************************)
CONSTANTS
  Addresses,  \* the addresses of the pool
  Holders,    \* who may hold a lease
  Nobody      \* the holder of an address that is free

VARIABLE holder

Init == holder = [a \in Addresses |-> Nobody]

Grant(a, h) ==
  /\ holder[a] = Nobody
  /\ holder' = [holder EXCEPT ![a] = h]

Release(a) == holder' = [holder EXCEPT ![a] = Nobody]

Next == \E a \in Addresses : Release(a) \/ \E h \in Holders : Grant(a, h)

Spec == Init /\ [][Next]_holder

=============================================================================
