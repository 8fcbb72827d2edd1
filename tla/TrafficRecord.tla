--------------------------- MODULE TrafficRecord ---------------------------
(***************************************************************************)
(* GlobalRecord: the client's count of the bytes it has received, kept as  *)
(* GB, MB, KB and B; update carries from one to the next.                  *)
(***************************************************************************)
EXTENDS Integers

CONSTANT Unit  \* 1024: bytes in a KB, KBs in an MB ...

ASSUME UnitAssumption == Unit \in Nat \ {0}

VARIABLES
  packet_number,
  record,  \* the counters GBs, MBs, KBs and Bs
  total    \* history: all bytes received

trafficVars == <<packet_number, record, total>>

TrafficTypeOK ==
  /\ packet_number \in Nat
  /\ record \in [GBs : Nat, MBs : Nat, KBs : Nat, Bs : Nat]
  /\ total \in Nat

TrafficInit ==
  /\ packet_number = 0
  /\ record = [GBs |-> 0, MBs |-> 0, KBs |-> 0, Bs |-> 0]
  /\ total = 0

\* x >> 10
Units(x) == x \div Unit

CarryMBs(r) ==
  IF Units(r.MBs) > 0
  THEN [r EXCEPT !.GBs = @ + Units(r.MBs), !.MBs = @ % Unit]
  ELSE r

CarryKBs(r) ==
  IF Units(r.KBs) > 0
  THEN CarryMBs([r EXCEPT !.MBs = @ + Units(r.KBs), !.KBs = @ % Unit])
  ELSE r

\* Faulty variants: the bytes that are carried stay in Bs as well; no carry
\* beyond the KBs.
UpdateKeepsBs(r) ==
  IF Units(r.Bs) > 0
  THEN CarryKBs([r EXCEPT !.KBs = @ + Units(r.Bs)])
  ELSE r
UpdateStopsAtKBs(r) ==
  IF Units(r.Bs) > 0
  THEN [r EXCEPT !.KBs = @ + Units(r.Bs), !.Bs = @ % Unit]
  ELSE r

\* Each counter is looked at only when the one below it has carried.
Update(r) ==
  IF Units(r.Bs) > 0
  THEN CarryKBs([r EXCEPT !.KBs = @ + Units(r.Bs), !.Bs = @ % Unit])
  ELSE r

\* recv_ipv4_packet, up to the write to the tunnel.
CountPacket(length) ==
  /\ packet_number' = packet_number + 1
  /\ record' = Update([record EXCEPT !.Bs = @ + length])
  /\ total' = total + length

---------------------------------------------------------------------------
(* Properties *)

\* What the counters stand for.
Value(r) == ((r.GBs * Unit + r.MBs) * Unit + r.KBs) * Unit + r.Bs

\* No byte is lost or counted twice when update carries.
NothingLost == Value(record) = total

\* Every counter but the last is below one unit of the next, although update
\* looks at a counter only when the one below it has carried.
CarriedOver ==
  record.Bs < Unit /\ record.KBs < Unit /\ record.MBs < Unit

=============================================================================
