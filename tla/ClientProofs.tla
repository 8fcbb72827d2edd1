---------------------------- MODULE ClientProofs ----------------------------
(***************************************************************************)
(* The client counts the bytes of its packets exactly, however the stream  *)
(* is cut into reads and whatever the two threads do; it handles whole     *)
(* messages in order, and its flag says whether it has its lease.          *)
(***************************************************************************)
EXTENDS AndroidClient, FramingProofs, SequenceTheorems

---------------------------------------------------------------------------
(* The count of bytes, for any unit *)

Record == [GBs : Nat, MBs : Nat, KBs : Nat, Bs : Nat]

\* A counter is what its units and its remainder make.
LEMMA DivMod ==
  ASSUME NEW x \in Nat
  PROVE  /\ Units(x) \in Nat
         /\ x % Unit \in 0..Unit - 1
         /\ x = Unit * Units(x) + (x % Unit)
  BY UnitAssumption DEF Units

\* Nothing to carry means that the counter is below a unit.
LEMMA NoCarry ==
  ASSUME NEW x \in Nat, ~(Units(x) > 0)
  PROVE  x < Unit
<1>1. Units(x) = 0 BY DivMod
<1>2. Unit * Units(x) = 0 BY <1>1, UnitAssumption
<1> QED BY <1>2, DivMod, UnitAssumption

\* Moving whole units from one counter to the next does not change the value.
LEMMA Shift ==
  ASSUME NEW x \in Nat, NEW y \in Nat
  PROVE  (y + Units(x)) * Unit + (x % Unit) = y * Unit + x
<1>1. \A q, u \in Nat : (y + q) * u = y * u + u * q
  BY SMTT(30)
<1>2. (y + Units(x)) * Unit = y * Unit + Unit * Units(x)
  BY <1>1, DivMod, UnitAssumption
<1>3. \A a, m, d \in Nat : x = d + m => (a + d) + m = a + x
  OBVIOUS
<1>4. \A p, q \in Nat : p * q \in Nat
  OBVIOUS
<1>5. y * Unit \in Nat /\ Unit * Units(x) \in Nat /\ x % Unit \in Nat
  <2>1. Unit \in Nat /\ Units(x) \in Nat /\ x % Unit \in 0..Unit - 1
    BY DivMod, UnitAssumption
  <2> QED BY <1>4, <2>1
<1> QED BY <1>2, <1>3, <1>5, DivMod

LEMMA CarryMBsKeeps ==
  ASSUME NEW r \in Record, r.Bs < Unit, r.KBs < Unit
  PROVE  LET c == CarryMBs(r) IN
         /\ c \in Record
         /\ Value(c) = Value(r)
         /\ c.Bs < Unit /\ c.KBs < Unit /\ c.MBs < Unit
<1>1. CASE ~(Units(r.MBs) > 0)
  BY <1>1, NoCarry DEF CarryMBs, Record
<1>2. CASE Units(r.MBs) > 0
  <2> DEFINE a == r.GBs + Units(r.MBs)
             b == r.MBs % Unit
             c == [r EXCEPT !.GBs = a, !.MBs = b]
  <2>1. CarryMBs(r) = c BY <1>2 DEF CarryMBs
  <2>2. a \in Nat /\ b \in Nat
    BY DivMod DEF Record
  <2> HIDE DEF a, b
  <2>3. /\ c \in Record
        /\ c.GBs = a /\ c.MBs = b /\ c.KBs = r.KBs /\ c.Bs = r.Bs
    BY <2>2 DEF Record
  <2> HIDE DEF c
  <2>4. c.GBs * Unit + c.MBs = r.GBs * Unit + r.MBs
    BY <2>3, Shift DEF a, b, Record
  <2>5. Value(c) = Value(r)
    BY <2>3, <2>4 DEF Value
  <2>6. c.MBs < Unit
    BY <2>3, DivMod, UnitAssumption DEF b, Record
  <2> QED BY <2>1, <2>3, <2>5, <2>6
<1> QED BY <1>1, <1>2

LEMMA CarryKBsKeeps ==
  ASSUME NEW r \in Record, r.Bs < Unit, r.MBs < Unit
  PROVE  LET c == CarryKBs(r) IN
         /\ c \in Record
         /\ Value(c) = Value(r)
         /\ c.Bs < Unit /\ c.KBs < Unit /\ c.MBs < Unit
<1>1. CASE ~(Units(r.KBs) > 0)
  BY <1>1, NoCarry DEF CarryKBs, Record
<1>2. CASE Units(r.KBs) > 0
  <2> DEFINE a == r.MBs + Units(r.KBs)
             b == r.KBs % Unit
             c == [r EXCEPT !.MBs = a, !.KBs = b]
  <2>1. CarryKBs(r) = CarryMBs(c) BY <1>2 DEF CarryKBs
  <2>2. a \in Nat /\ b \in Nat
    BY DivMod DEF Record
  <2> HIDE DEF a, b
  <2>3. /\ c \in Record
        /\ c.MBs = a /\ c.KBs = b /\ c.GBs = r.GBs /\ c.Bs = r.Bs
    BY <2>2 DEF Record
  <2> HIDE DEF c
  <2>4. c.KBs < Unit
    BY <2>3, DivMod, UnitAssumption DEF b, Record
  <2>5. c.MBs * Unit + c.KBs = r.MBs * Unit + r.KBs
    BY <2>3, Shift DEF a, b, Record
  <2>6. (c.GBs * Unit + c.MBs) * Unit + c.KBs
          = (r.GBs * Unit + r.MBs) * Unit + r.KBs
    <3>1. \A g, m, k \in Nat :
            (g * Unit + m) * Unit + k = g * Unit * Unit + (m * Unit + k)
      BY UnitAssumption
    <3> QED BY <2>3, <2>5, <3>1 DEF Record
  <2>7. Value(c) = Value(r)
    BY <2>3, <2>6 DEF Value
  <2> QED BY <2>1, <2>3, <2>4, <2>7, CarryMBsKeeps DEF Record
<1> QED BY <1>1, <1>2

\* Whatever is added to the bytes, update keeps the value and leaves the
\* counters carried over.
LEMMA UpdateKeeps ==
  ASSUME NEW r \in Record, r.KBs < Unit, r.MBs < Unit
  PROVE  LET c == Update(r) IN
         /\ c \in Record
         /\ Value(c) = Value(r)
         /\ c.Bs < Unit /\ c.KBs < Unit /\ c.MBs < Unit
<1>1. CASE ~(Units(r.Bs) > 0)
  BY <1>1, NoCarry DEF Update, Record
<1>2. CASE Units(r.Bs) > 0
  <2> DEFINE a == r.KBs + Units(r.Bs)
             b == r.Bs % Unit
             c == [r EXCEPT !.KBs = a, !.Bs = b]
  <2>1. Update(r) = CarryKBs(c) BY <1>2 DEF Update
  <2>2. a \in Nat /\ b \in Nat
    BY DivMod DEF Record
  <2> HIDE DEF a, b
  <2>3. /\ c \in Record
        /\ c.KBs = a /\ c.Bs = b /\ c.GBs = r.GBs /\ c.MBs = r.MBs
    BY <2>2 DEF Record
  <2> HIDE DEF c
  <2>4. c.Bs < Unit
    BY <2>3, DivMod, UnitAssumption DEF b, Record
  <2>5. c.KBs * Unit + c.Bs = r.KBs * Unit + r.Bs
    BY <2>3, Shift DEF a, b, Record
  <2>6. Value(c) = Value(r)
    <3>1. \A g, m, k \in Nat :
            (g * Unit + m) * Unit + k = g * Unit * Unit + (m * Unit + k)
      BY UnitAssumption
    <3>2. r.GBs * Unit + r.MBs \in Nat
      BY UnitAssumption DEF Record
    <3> QED BY <2>3, <2>5, <3>1, <3>2 DEF Value, Record
  <2> QED BY <2>1, <2>3, <2>4, <2>6, CarryKBsKeeps DEF Record
<1> QED BY <1>1, <1>2

\* A packet keeps the count exact and carried over.
LEMMA CountPacketKeeps ==
  ASSUME NEW length \in Nat,
         TrafficTypeOK, NothingLost, CarriedOver, CountPacket(length)
  PROVE  TrafficTypeOK' /\ NothingLost' /\ CarriedOver'
<1> DEFINE r == [record EXCEPT !.Bs = @ + length]
<1>1. /\ r \in Record /\ r.KBs < Unit /\ r.MBs < Unit
      /\ r.GBs = record.GBs /\ r.MBs = record.MBs /\ r.KBs = record.KBs
      /\ r.Bs = record.Bs + length
  BY DEF TrafficTypeOK, CarriedOver, Record
<1>2. Value(r) = Value(record) + length
  <2>1. \A g, b \in Nat : g + (b + length) = (g + b) + length
    OBVIOUS
  <2>2. /\ ((record.GBs * Unit + record.MBs) * Unit + record.KBs) * Unit \in Nat
        /\ record.Bs \in Nat
    BY UnitAssumption DEF TrafficTypeOK
  <2> QED BY <1>1, <2>1, <2>2 DEF Value
<1>3. /\ record' = Update(r) /\ total' = total + length
      /\ packet_number' = packet_number + 1
  BY DEF CountPacket
<1> HIDE DEF r
<1>4. /\ record' \in Record /\ Value(record') = Value(r)
      /\ record'.Bs < Unit /\ record'.KBs < Unit /\ record'.MBs < Unit
  BY <1>1, <1>3, UpdateKeeps
<1>5. NothingLost'
  BY <1>2, <1>3, <1>4 DEF NothingLost, Value
<1>6. TrafficTypeOK'
  BY <1>3, <1>4 DEF TrafficTypeOK, Record
<1> QED BY <1>4, <1>5, <1>6 DEF CarriedOver

---------------------------------------------------------------------------
(* The client *)

\* The bytes of the messages begun so far.
SentBytes == (1..Len(sent)) \X Nat

\* What has arrived, and what is in msg, has been sent.
StreamInv ==
  /\ sent \in Seq(Traffic)
  /\ next \in Nat
  /\ inbox \in Seq(SentBytes)
  /\ n \in Int
  /\ msg \in [Offsets -> SentBytes \cup {Zero}]

CountInv == TrafficTypeOK /\ NothingLost /\ CarriedOver

ClientInv == StreamInv /\ CountInv

LEMMA MinOfInts ==
  ASSUME NEW a \in Int, NEW b \in Int
  PROVE  Min({a, b}) \in {a, b} /\ Min({a, b}) <= a /\ Min({a, b}) <= b
<1>1. \E x \in {a, b} : \A y \in {a, b} : x <= y
  <2>1. CASE a <= b BY <2>1
  <2>2. CASE b <= a BY <2>2
  <2> QED BY <2>1, <2>2
<1> QED BY <1>1 DEF Min

LEMMA OffsetsHaveHdr == 0 \in Offsets /\ HdrSize \in Nat
  BY FramingAssumption DEF Offsets

\* The length in a header that has been read is the one of a message sent.
LEMMA HdrLengthIsNat ==
  ASSUME StreamInv
  PROVE  HdrLength(msg) \in Nat
<1>1. CASE msg[0] \in SentBytes
  <2>1. sent[msg[0][1]] \in Traffic
    BY <1>1 DEF StreamInv, SentBytes
  <2> QED BY <2>1, FramingAssumption DEF HdrLength
<1>2. CASE msg[0] = Zero
  BY <1>2 DEF HdrLength, Zero
<1> QED BY <1>1, <1>2, OffsetsHaveHdr DEF StreamInv

\* read stores bytes that have arrived.
LEMMA ConsumeKeeps ==
  ASSUME StreamInv,
         NEW buffer \in [Offsets -> SentBytes \cup {Zero}],
         NEW count \in Int, NEW o \in Int, NEW r \in Int,
         ReadReturns(count, r), Consume(buffer, o, r)
  PROVE  /\ sent' = sent /\ next' = next
         /\ inbox' \in Seq(SentBytes)
         /\ msg' \in [Offsets -> SentBytes \cup {Zero}]
<1>1. r > 0 => r <= Len(inbox)
  <2>1. Len(inbox) \in Nat
    BY DEF StreamInv
  <2>2. Min({count, Len(inbox)}) <= Len(inbox)
    BY <2>1, MinOfInts
  <2>3. r > 0 => r = Min({count, Len(inbox)})
    BY DEF ReadReturns
  <2> QED BY <2>2, <2>3
<1>2. sent' = sent /\ next' = next
  BY DEF Consume
<1>3. inbox' \in Seq(SentBytes)
  <2>1. CASE r > 0
    <3>1. inbox' = SubSeq(inbox, r + 1, Len(inbox))
      BY <2>1 DEF Consume
    <3> QED BY <2>1, <3>1 DEF StreamInv
  <2>2. CASE ~(r > 0)
    BY <2>2 DEF Consume, StreamInv
  <2> QED BY <2>1, <2>2
<1>4. ASSUME NEW k \in Offsets
      PROVE  (IF k >= o /\ k < o + r THEN inbox[k - o + 1] ELSE buffer[k])
               \in SentBytes \cup {Zero}
  <2>1. CASE k >= o /\ k < o + r
    <3>1. k \in Int
      BY FramingAssumption DEF Offsets
    <3>2. k - o + 1 \in 1..Len(inbox)
      BY <1>1, <2>1, <3>1 DEF StreamInv
    <3> QED BY <2>1, <3>2 DEF StreamInv
  <2>2. CASE ~(k >= o /\ k < o + r)
    BY <2>2
  <2> QED BY <2>1, <2>2
<1>5. msg' \in [Offsets -> SentBytes \cup {Zero}]
  BY <1>4 DEF Consume
<1> QED BY <1>2, <1>3, <1>5

LEMMA ReadStepKeeps ==
  ASSUME StreamInv, ReadStep
  PROVE  StreamInv'
<1>1. SentBytes' = SentBytes /\ HdrLength(msg) \in Nat /\ HdrSize \in Nat
  <2>1. sent' = sent
    BY DEF ReadStep, EnterRead, ReadHdr, ReadRestOfHdr, ReadPayload,
           ReadRestOfPayload, Consume, wire
  <2> QED BY <2>1, HdrLengthIsNat, OffsetsHaveHdr DEF SentBytes
<1>2. CASE EnterRead
  BY <1>2 DEF EnterRead, StreamInv, SentBytes, wire
<1>3. CASE ReadHdr
  <2>1. PICK r \in -1..HdrSize :
          /\ ReadReturns(HdrSize, r)
          /\ Consume([o \in Offsets |-> Zero], 0, r)
          /\ n' = r
    BY <1>3 DEF ReadHdr
  <2>2. /\ [o \in Offsets |-> Zero] \in [Offsets -> SentBytes \cup {Zero}]
        /\ r \in Int
    BY <1>1
  <2> QED BY <1>1, <2>1, <2>2, ConsumeKeeps DEF StreamInv
<1>4. CASE ReadRestOfHdr
  <2>1. PICK r \in -1..HdrSize :
          /\ ReadReturns(Missing(HdrSize, n), r)
          /\ Consume(msg, RestAt(0, n), r)
          /\ n' = n + r
    BY <1>4 DEF ReadRestOfHdr
  <2>2. /\ Missing(HdrSize, n) \in Int /\ RestAt(0, n) \in Int
        /\ n' \in Int /\ r \in Int
    BY <1>1, <2>1 DEF Missing, RestAt, StreamInv
  <2> QED BY <1>1, <2>1, <2>2, ConsumeKeeps DEF StreamInv
<1>5. CASE ReadPayload
  <2>1. PICK r \in -1..HdrLength(msg) :
          /\ ReadReturns(HdrLength(msg), r)
          /\ Consume(msg, HdrSize, r)
          /\ n' = r
    BY <1>5 DEF ReadPayload
  <2>2. r \in Int /\ HdrLength(msg) \in Int /\ HdrSize \in Int
    BY <1>1
  <2> QED BY <1>1, <2>1, <2>2, ConsumeKeeps DEF StreamInv
<1>6. CASE ReadRestOfPayload
  <2>1. PICK r \in -1..HdrLength(msg) :
          /\ ReadReturns(Missing(HdrLength(msg), n), r)
          /\ Consume(msg, RestAt(HdrSize, n), r)
          /\ n' = Max({n + r, -1})
    BY <1>6 DEF ReadRestOfPayload
  <2>2. /\ Missing(HdrLength(msg), n) \in Int
        /\ RestAt(HdrSize, n) \in Int /\ r \in Int
    BY <1>1, <2>1 DEF Missing, RestAt, StreamInv
  <2>3. n' \in Int
    <3>1. n + r \in Int
      BY <2>2 DEF StreamInv
    <3>2. \A a \in Int : \E x \in {a, -1} : \A y \in {a, -1} : x >= y
      OBVIOUS
    <3>3. Max({n + r, -1}) \in {n + r, -1}
      BY <3>1, <3>2 DEF Max
    <3> QED BY <2>1, <3>1, <3>3
  <2> QED BY <1>1, <2>1, <2>2, <2>3, ConsumeKeeps DEF StreamInv
<1> QED BY <1>2, <1>3, <1>4, <1>5, <1>6 DEF ReadStep

\* The server adds messages, and the bytes of the last one.
LEMMA ServerKeeps ==
  ASSUME StreamInv, Server
  PROVE  StreamInv'
<1>1. CASE SendByte
  <2>1. <<Len(sent), next>> \in SentBytes
    <3>1. Len(sent) \in Nat /\ Len(sent) # 0
      BY <1>1 DEF SendByte, MidMessage, StreamInv
    <3> QED BY <3>1 DEF SentBytes, StreamInv
  <2>2. SentBytes' = SentBytes
    BY <1>1 DEF SendByte, SentBytes
  <2> QED BY <1>1, <2>1, <2>2 DEF SendByte, StreamInv, reader
<1>2. ASSUME NEW m \in Traffic, StartMessage(m)
      PROVE  StreamInv'
  <2>1. sent' \in Seq(Traffic) /\ Len(sent') = Len(sent) + 1
    BY <1>2 DEF StartMessage, StreamInv
  <2>2. SentBytes \subseteq SentBytes'
    BY <2>1 DEF SentBytes, StreamInv
  <2>3. inbox' \in Seq(SentBytes')
    BY <1>2, <2>2 DEF StartMessage, StreamInv
  <2> QED BY <1>2, <2>1, <2>2, <2>3 DEF StartMessage, StreamInv, reader
<1>3. CASE EndStream
  BY <1>3 DEF EndStream, StreamInv, SentBytes, reader
<1>4. CASE ResetStream
  <2>1. PICK arrived \in 0..Len(inbox) : inbox' = SubSeq(inbox, 1, arrived)
    BY <1>4 DEF ResetStream
  <2>2. inbox' \in Seq(SentBytes)
    BY <2>1 DEF StreamInv
  <2> QED BY <1>4, <2>2 DEF ResetStream, StreamInv, SentBytes, reader
<1> QED BY <1>1, <1>2, <1>3, <1>4 DEF Server, ServerSends

LEMMA ClientInvHolds == ClientSpec => []ClientInv
<1>1. ClientInit => ClientInv
  <2> SUFFICES ASSUME ClientInit PROVE ClientInv
    OBVIOUS
  <2>1. StreamInv
    BY DEF ClientInit, StreamInv
  <2>2. CountInv
    BY UnitAssumption
    DEF ClientInit, TrafficInit, CountInv, TrafficTypeOK, NothingLost,
        CarriedOver, Value
  <2> QED BY <2>1, <2>2 DEF ClientInv
<1>2. ClientInv /\ [ClientNext]_clientVars => ClientInv'
  <2> SUFFICES ASSUME ClientInv, [ClientNext]_clientVars PROVE ClientInv'
    OBVIOUS
  <2>1. CASE UNCHANGED <<wire, n, msg, trafficVars>>
    BY <2>1 DEF ClientInv, StreamInv, SentBytes, CountInv, TrafficTypeOK,
                NothingLost, CarriedOver, Value, wire, trafficVars
  <2>2. ASSUME UNCHANGED trafficVars PROVE CountInv'
    BY <2>2 DEF ClientInv, CountInv, TrafficTypeOK, NothingLost, CarriedOver,
                Value, trafficVars
  <2>3. CASE RecvServer
    BY <2>2, <2>3, ReadStepKeeps DEF RecvServer, ClientInv
  <2>4. CASE Server
    BY <2>2, <2>4, ServerKeeps DEF Server, ClientInv
  <2>5. CASE RecvIpv4Packet
    <3>1. CountInv'
      BY <2>5, HdrLengthIsNat, CountPacketKeeps
      DEF RecvIpv4Packet, ClientInv, CountInv
    <3>2. StreamInv'
      BY <2>5 DEF RecvIpv4Packet, Receives, ClientInv, StreamInv, SentBytes, wire
    <3> QED BY <3>1, <3>2 DEF ClientInv
  <2>6. CASE Start \/ StartFails \/ TakeFd \/ LoopCheck \/ LoopAgain
    BY <2>1, <2>6 DEF Start, StartFails, TakeFd, LoopCheck, LoopAgain, reading
  <2>7. CASE RecvIpv4Addr \/ EstablishTun \/ DoKeepAlive
    BY <2>1, <2>7
    DEF RecvIpv4Addr, EstablishTun, DoKeepAlive, Receives, reading
  <2>8. CASE ClientKeeper
    <3>1. CASE SendKeepAlive \/ Unflag \/ CloseTimedOut
      BY <2>1, <3>1
      DEF SendKeepAlive, Unflag, CloseTimedOut, reading, reader, framingVars
    <3>2. CASE \/ WhileFlag \/ ReadState \/ CountDown \/ CheckNeedSend
               \/ RestartCount \/ CheckTimeOut \/ FreeLease
      BY <2>1, <3>2
      DEF WhileFlag, ReadState, CountDown, CheckNeedSend, RestartCount,
          CheckTimeOut, FreeLease, KeeperStep, framingVars, reader
    <3> QED BY <2>8, <3>1, <3>2 DEF ClientKeeper
  <2>9. CASE Tick
    BY <2>1, <2>9 DEF Tick, framingVars, reader
  <2>10. CASE UNCHANGED clientVars
    BY <2>1, <2>10 DEF clientVars, framingVars, reader
  <2> QED BY <2>3, <2>4, <2>5, <2>6, <2>7, <2>8, <2>9, <2>10
          DEF ClientNext, ClientMain
<1> QED BY <1>1, <1>2, PTL DEF ClientSpec

\* GlobalRecord::update never loses a byte nor counts one twice, and leaves
\* every counter below one unit of the next, whatever packets the client
\* receives (recv_ipv4_packet).
THEOREM TrafficExact == ClientSpec => [](NothingLost /\ CarriedOver)
<1>1. ClientInv => NothingLost /\ CarriedOver
  BY DEF ClientInv, CountInv
<1> QED BY <1>1, ClientInvHolds, PTL

\* The carrying of update: GlobalRecord's counters stay below one unit of the
\* next.
THEOREM TrafficCarried == ClientSpec => []CarriedOver
BY TrafficExact, PTL

---------------------------------------------------------------------------
(* The messages handled *)

\* The client's loop goes from one place between two messages to another, or
\* ends.
LEMMA PlaceChanges ==
  ASSUME FramingInv, UNCHANGED reading,
         call = "none" \/ pc' = "killed",
         (pc \in Between /\ pc' \in Between) \/ pc' \in Over
  PROVE  FramingInv'
<1> USE DEF FramingInv
<1>1. /\ UNCHANGED <<wire, sent, next, inbox, stream, descriptor, call, n, msg,
                     handled>>
      /\ WireOK' /\ \A i, k : Comes(i, k) => Comes(i, k)'
  BY WireStays DEF reading, wire
<1>2. FramingTypeOK'
  BY <1>1 DEF FramingTypeOK
<1>3. CallOK'
  BY <1>1 DEF CallOK, Labels, Between, Over, ReadLabels
<1>4. ReaderOK'
  <2>1. CASE pc' \in Over
    BY <2>1
       DEF ReaderOK, OverrunOK, BetweenOK, RestHdrOK, PayloadOK, RestPayloadOK,
           HandleOK, Between, Over
  <2>2. CASE pc \in Between /\ pc' \in Between
    <3>1. Current' = Current /\ (Clean => Clean') /\ (Cut => Cut')
      BY <1>1 DEF Current, Clean, Cut
    <3>2. BetweenOK'
      BY <1>1, <2>2, <3>1 DEF ReaderOK, BetweenOK
    <3> QED
      BY <2>2, <3>2
         DEF ReaderOK, OverrunOK, RestHdrOK, PayloadOK, RestPayloadOK,
             HandleOK, Between
  <2> QED
    BY <2>1, <2>2
<1>5. SomeSent' /\ GarbledIsLast'
  BY <1>1 DEF SomeSent, GarbledIsLast
<1> QED
  BY <1>1, <1>2, <1>3, <1>4, <1>5

LEMMA ClientKeepsFraming ==
  ASSUME FramingInv, WellFormed, [ClientNext]_clientVars
  PROVE  FramingInv'
<1>1. CASE Server
  BY <1>1, PeerKeeps DEF Server, ServerSends, PeerSends
<1>2. CASE RecvServer
  BY <1>2, ReadStepInv DEF RecvServer
<1>3. CASE RecvIpv4Addr \/ RecvIpv4Packet \/ DoKeepAlive
  BY <1>3, HandleKeeps
     DEF RecvIpv4Addr, RecvIpv4Packet, DoKeepAlive, Receives, Between
<1>4. CASE Start \/ StartFails \/ TakeFd \/ EstablishTun \/ LoopCheck
             \/ LoopAgain
  <2>1. /\ UNCHANGED reading
        /\ pc \in {"start", "call", "tun", "check", "ended"}
        /\ \/ pc \in Between /\ pc' \in Between
           \/ pc' \in Over
    BY <1>4
       DEF Start, StartFails, TakeFd, EstablishTun, LoopCheck, LoopAgain,
           Between, Over
  <2>2. call = "none"
    BY <2>1 DEF FramingInv, CallOK, ReadLabels
  <2> QED
    BY <2>1, <2>2, PlaceChanges
<1>5. CASE SendKeepAlive
  <2>1. UNCHANGED <<reading, pc>> \/ (UNCHANGED reading /\ pc' = "killed")
    BY <1>5 DEF SendKeepAlive
  <2>2. UNCHANGED <<reading, pc>> => UNCHANGED framingVars
    BY DEF reading, framingVars, reader
  <2> QED
    BY <2>1, <2>2, StutterInv, PlaceChanges DEF Over
<1>6. CASE CloseTimedOut
  <2>1. \/ descriptor' = "lost" /\ UNCHANGED <<wire, reader, handled>>
        \/ UNCHANGED framingVars
    BY <1>6 DEF CloseTimedOut, framingVars
  <2> QED
    BY <2>1, LostElsewhereInv, StutterInv
<1>7. CASE \/ WhileFlag \/ ReadState \/ CountDown \/ CheckNeedSend
           \/ RestartCount \/ CheckTimeOut \/ FreeLease \/ Unflag \/ Tick
           \/ UNCHANGED clientVars
  <2>1. UNCHANGED framingVars
    BY <1>7
       DEF WhileFlag, ReadState, CountDown, CheckNeedSend, RestartCount,
           CheckTimeOut, FreeLease, Unflag, KeeperStep, Tick, clientVars
  <2> QED
    BY <2>1, StutterInv
<1> QED
  BY <1>1, <1>2, <1>3, <1>4, <1>5, <1>6, <1>7
     DEF ClientNext, ClientMain, ClientKeeper

\* recv_server hands its switch the messages the server has sent, whole and in
\* order: only the last may be garbled, and only when the keep-alive thread has
\* closed the descriptor.
THEOREM ClientHandedOver ==
  ASSUME WellFormed PROVE ClientSpec => []HandledInOrder
<1>1. ClientInit => FramingInv
  BY FramingInitInv DEF ClientInit, Between
<1>2. FramingInv /\ [ClientNext]_clientVars => FramingInv'
  BY ClientKeepsFraming
<1>3. FramingInv => HandledInOrder
  BY DEF FramingInv, GarbledIsLast, HandledInOrder
<1> QED
  BY <1>1, <1>2, <1>3, PTL DEF ClientSpec

\* The steps that neither read nor send.
LEMMA LoopIsSilent ==
  ASSUME [ClientNext]_clientVars
  PROVE  \/ Server \/ RecvServer
         \/ /\ UNCHANGED <<wire, msg>>
            /\ \/ UNCHANGED handled
               \/ pc = "handle" /\ handled' = Append(handled, Given)
<1>1. CASE RecvIpv4Addr \/ RecvIpv4Packet \/ DoKeepAlive
  BY <1>1 DEF RecvIpv4Addr, RecvIpv4Packet, DoKeepAlive, Receives
<1>2. CASE Start \/ StartFails \/ TakeFd \/ EstablishTun \/ LoopCheck
             \/ LoopAgain \/ SendKeepAlive
  BY <1>2
     DEF Start, StartFails, TakeFd, EstablishTun, LoopCheck, LoopAgain,
         SendKeepAlive, reading
<1>3. CASE CloseTimedOut
  BY <1>3 DEF CloseTimedOut, reader
<1>4. CASE \/ WhileFlag \/ ReadState \/ CountDown \/ CheckNeedSend
           \/ RestartCount \/ CheckTimeOut \/ FreeLease \/ Unflag \/ Tick
           \/ UNCHANGED clientVars
  BY <1>4
     DEF WhileFlag, ReadState, CountDown, CheckNeedSend, RestartCount,
         CheckTimeOut, FreeLease, Unflag, KeeperStep, Tick, clientVars,
         framingVars, reader
<1> QED
  BY <1>1, <1>2, <1>3, <1>4 DEF ClientNext, ClientMain, ClientKeeper

\* recv_server implements MessageChannel, as do_response does: what the client's
\* loop hands to its handlers, but for a garbled message at the end, are the
\* messages the server has sent whole, in order, each once, whatever
\* client_keep_alive_thread does to the descriptor meanwhile.
THEOREM ClientImplementsChannel ==
  ASSUME WellFormed PROVE ClientSpec => ChannelSpec
<1>1. ClientInit => FramingInv /\ BytesSent /\ Channel!Init
  BY FramingInitInv, NothingSentYet DEF ClientInit, Between, BytesSent
<1>2. FramingInv /\ [ClientNext]_clientVars => FramingInv'
  BY ClientKeepsFraming
<1>3. FramingInv /\ FramingInv' /\ BytesSent /\ [ClientNext]_clientVars
        => BytesSent' /\ [Channel!Next]_<<Completed, Intact>>
  <2> SUFFICES ASSUME FramingInv, FramingInv', BytesSent,
                      [ClientNext]_clientVars
               PROVE  /\ BytesSent'
                      /\ Channel!Next \/ UNCHANGED <<Completed, Intact>>
    OBVIOUS
  <2>1. UNCHANGED <<sent, next>> => UNCHANGED Completed
    BY DEF Completed, MidMessage
  <2>2. UNCHANGED handled => UNCHANGED Intact
    BY DEF Intact
  <2>3. CASE Server
    <3>1. PeerSends \/ EndStream \/ ResetStream
      BY <2>3 DEF Server, ServerSends, PeerSends
    <3>2. BytesSent'
      BY <3>1, SentStays DEF FramingNext
    <3>3. CASE PeerSends
      BY <3>2, <3>3, PeerSendsIsSend DEF FramingInv
    <3>4. CASE EndStream \/ ResetStream
      BY <2>1, <2>2, <3>2, <3>4 DEF EndStream, ResetStream
    <3> QED
      BY <3>1, <3>3, <3>4
  <2>4. CASE RecvServer
    <3>1. ReadStep
      BY <2>4 DEF RecvServer
    <3>2. BytesSent'
      BY <3>1, SentStays DEF FramingNext
    <3>3. UNCHANGED <<sent, next, handled>>
      BY <3>1, ReadIsSilent DEF ReadStep, EnterRead, wire
    <3> QED
      BY <2>1, <2>2, <3>2, <3>3
  <2>5. CASE UNCHANGED <<wire, msg, handled>>
    BY <2>1, <2>2, <2>5 DEF wire, BytesSent, Past
  <2>6. CASE /\ UNCHANGED <<wire, msg>>
             /\ pc = "handle" /\ handled' = Append(handled, Given)
    <3>1. UNCHANGED Completed /\ BytesSent'
      BY <2>1, <2>6 DEF wire, BytesSent, Past
    <3>2. \/ UNCHANGED Intact
          \/ /\ Len(Intact) < Len(Completed)
             /\ Intact' = Append(Intact, Completed[Len(Intact) + 1])
      BY <2>6, HandleIsReceive
    <3> QED
      BY <3>1, <3>2 DEF Channel!Next, Channel!Receive
  <2> QED
    BY <2>3, <2>4, <2>5, <2>6, LoopIsSilent
<1> QED
  BY <1>1, <1>2, <1>3, PTL DEF ClientSpec, ChannelSpec, Channel!Spec

---------------------------------------------------------------------------
(* The lease *)

Keepers == {"none", "loop", "state", "dec", "need", "send", "reset", "timeout",
            "free", "unflag", "close", "done", "killed"}

\* The server sends the address once.
AddressOnce ==
  \A i, j \in 1..Len(sent) :
    sent[i].type = 101 /\ sent[j].type = 101 => i = j

\* The address has not been handled.
NoAddress == \A i \in 1..Len(handled) : sent[i].type # 101

\* The thread is started by the handler of the address.
KeeperStarts ==
  /\ Len(handled) <= Len(sent)
  /\ NoAddress => keeper \in {"none", "killed"} /\ flag = 0
  /\ keeper = "killed" => pc = "killed"
  /\ pc = "start" => handled = <<>>
  /\ pc = "tun" =>
       ~NoAddress /\ keeper = "none" /\ flag = 0 /\ info.state = "USED"

RecordOK ==
  info \in UserInfoType({Fd}) /\ flag \in {0, 1} /\ keeper \in Keepers

LeaseInv == RecordOK /\ AddressOnce /\ KeeperStarts /\ FlagMeansLeased

\* The methods of the record; none but two change its state.
LEMMA RecordMethods ==
  ASSUME NEW u \in UserInfoType({Fd})
  PROVE  /\ \A v \in {DecCount(u), ResetCount(u), SetLatestTime(u), Older(u),
                      [u EXCEPT !.fd = Fd]} :
              v \in UserInfoType({Fd}) /\ v.state = u.state
         /\ FreeResource(u) \in UserInfoType({Fd})
         /\ SetUserInfo(u.fd) \in UserInfoType({Fd})
         /\ SetUserInfo(u.fd).state = "USED"
<1>1. MaxTimeDur \in Nat /\ MaxCounter \in Nat
  BY UserInfoAssumption
<1>2. \A v \in {DecCount(u), ResetCount(u)} :
        v \in UserInfoType({Fd}) /\ v.state = u.state
  BY <1>1 DEF UserInfoType, DecCount, ResetCount
<1>3. SetLatestTime(u) \in UserInfoType({Fd}) /\ SetLatestTime(u).state = u.state
  BY <1>1 DEF UserInfoType, SetLatestTime
<1>4. Older(u) \in UserInfoType({Fd}) /\ Older(u).state = u.state
  BY <1>1 DEF UserInfoType, Older
<1>5. /\ [u EXCEPT !.fd = Fd] \in UserInfoType({Fd})
      /\ [u EXCEPT !.fd = Fd].state = u.state
  BY DEF UserInfoType
<1>6. FreeResource(u) \in UserInfoType({Fd})
  BY <1>1 DEF UserInfoType, FreeResource, NewUserInfo
<1>7. /\ SetUserInfo(u.fd) \in UserInfoType({Fd})
      /\ SetUserInfo(u.fd).state = "USED"
  BY <1>1 DEF UserInfoType, SetUserInfo
<1> QED
  BY <1>2, <1>3, <1>4, <1>5, <1>6, <1>7

\* The handler of the address is given it once.
LEMMA AddressIsNew ==
  ASSUME FramingInv, AddressOnce, pc = "handle", HdrType(msg) = 101
  PROVE  NoAddress /\ sent[Current].type = 101
<1>1. PICK c \in 1..Len(sent) : c = Current
  BY DEF FramingInv, ReaderOK, HandleOK, Begun
<1>2. /\ HdrSize \in Nat /\ Size(sent[c]) \in Nat /\ Size(sent[c]) >= HdrSize
      /\ HdrSize > 1
  BY <1>1, Sizes, FramingAssumption DEF FramingInv
<1>3. PICK h \in Int : h >= 1 /\ msg = Prefix(c, h)
  BY <1>1, <1>2 DEF FramingInv, ReaderOK, HandleOK
<1>4. sent[c].type = 101
  BY <1>3, HdrFields DEF FramingInv
<1>5. Len(sent) \in Nat /\ Len(handled) \in Nat /\ c = Len(handled) + 1
  BY <1>1 DEF FramingInv, FramingTypeOK, Current
<1> QED
  BY <1>1, <1>4, <1>5 DEF AddressOnce, NoAddress

\* What the switch is given counts as handled.
LEMMA HandledGrows ==
  ASSUME FramingInv, pc = "handle", handled' = Append(handled, Given),
         sent' = sent
  PROVE  /\ Len(handled') <= Len(sent')
         /\ NoAddress' => NoAddress /\ sent[Current].type # 101
<1> DEFINE S == {Garbled} \cup (1..MaxSent) \X Traffic
<1>1. handled \in Seq(S \cup {Given})
  BY DEF FramingInv, FramingTypeOK
<1> HIDE DEF S
<1>2. Len(handled') = Len(handled) + 1 /\ Len(handled) \in Nat
  BY <1>1
<1>3. Current = Len(handled) + 1 /\ Current \in 1..Len(sent)
  BY DEF FramingInv, ReaderOK, HandleOK, Begun, Current
<1>4. Len(sent) \in Nat
  BY DEF FramingInv, FramingTypeOK
<1> QED
  BY <1>2, <1>3, <1>4 DEF NoAddress

LEMMA LeaseKeeps ==
  ASSUME FramingInv, LeaseInv, [ClientNext]_clientVars
  PROVE  LeaseInv'
<1> USE DEF LeaseInv
<1>1. CASE Server
  <2>1. UNCHANGED <<pc, handled, info, flag, keeper>>
    BY <1>1
       DEF Server, ServerSends, SendByte, StartMessage, EndStream, ResetStream,
           client, reader
  <2>2. /\ sent \in Seq(Traffic) /\ Len(sent) \in Nat
        /\ Len(handled) \in Nat /\ Len(handled) <= Len(sent)
    BY DEF FramingInv, FramingTypeOK, KeeperStarts
  <2>3. \/ UNCHANGED sent
        \/ \E m \in Traffic :
             /\ sent' = Append(sent, m)
             /\ m.type = 101 => \A i \in 1..Len(sent) : sent[i].type # 101
    BY <1>1
       DEF Server, ServerSends, SendByte, StartMessage, EndStream, ResetStream
  <2>4. CASE UNCHANGED sent
    BY <2>1, <2>4
       DEF RecordOK, AddressOnce, KeeperStarts, NoAddress, FlagMeansLeased
  <2>5. ASSUME NEW m \in Traffic, sent' = Append(sent, m),
               m.type = 101 => \A i \in 1..Len(sent) : sent[i].type # 101
        PROVE  LeaseInv'
    <3>1. /\ Len(sent') = Len(sent) + 1 /\ sent'[Len(sent) + 1] = m
          /\ \A i \in 1..Len(sent) : sent'[i] = sent[i]
      BY <2>2, <2>5
    <3>2. AddressOnce'
      BY <2>2, <2>5, <3>1 DEF AddressOnce
    <3>3. NoAddress' <=> NoAddress
      <4>1. \A i \in 1..Len(handled) : sent'[i] = sent[i]
        BY <2>2, <3>1
      <4> QED
        BY <2>1, <4>1 DEF NoAddress
    <3>4. Len(handled') <= Len(sent')
      BY <2>1, <2>2, <3>1
    <3> QED
      BY <2>1, <3>2, <3>3, <3>4 DEF RecordOK, KeeperStarts, FlagMeansLeased
  <2> QED
    BY <2>3, <2>4, <2>5
<1>2. /\ UNCHANGED sent => AddressOnce'
      /\ UNCHANGED <<sent, handled>> =>
           (NoAddress' <=> NoAddress) /\ Len(handled') <= Len(sent')
  BY DEF AddressOnce, NoAddress, KeeperStarts
<1>3. CASE RecvServer
  <2>1. UNCHANGED <<sent, handled, info, flag, keeper>>
        /\ pc' \notin {"tun", "start"} /\ pc # "killed"
    BY <1>3
       DEF RecvServer, ReadStep, EnterRead, ReadHdr, ReadRestOfHdr, ReadPayload,
           ReadRestOfPayload, Consume, wire, client, AfterHdr
  <2> QED
    BY <1>2, <2>1 DEF RecordOK, KeeperStarts, FlagMeansLeased
<1>4. CASE RecvIpv4Addr
  <2>1. /\ pc = "handle" /\ pc' = "tun" /\ HdrType(msg) = 101
        /\ handled' = Append(handled, Given)
        /\ UNCHANGED <<flag, keeper, sent>>
        /\ info' = SetUserInfo(info.fd)
    BY <1>4 DEF RecvIpv4Addr, Receives, wire
  <2>2. NoAddress /\ sent[Current].type = 101
    BY <2>1, AddressIsNew
  <2>3. flag = 0 /\ keeper = "none"
    BY <2>1, <2>2 DEF KeeperStarts
  <2>4. ~NoAddress' /\ Len(handled') <= Len(sent')
    BY <2>1, <2>2, HandledGrows
  <2>5. info' \in UserInfoType({Fd}) /\ info'.state = "USED"
    BY <2>1, RecordMethods DEF RecordOK
  <2> QED
    BY <1>2, <2>1, <2>3, <2>4, <2>5
       DEF RecordOK, KeeperStarts, FlagMeansLeased
<1>5. CASE RecvIpv4Packet \/ DoKeepAlive
  <2>1. /\ pc = "handle" /\ pc' = "check" /\ UNCHANGED <<flag, keeper, sent>>
        /\ handled' = Append(handled, Given)
        /\ info' \in {info, SetLatestTime(info)}
    BY <1>5 DEF RecvIpv4Packet, DoKeepAlive, Receives, wire, client
  <2>2. (NoAddress' => NoAddress) /\ Len(handled') <= Len(sent')
    BY <2>1, HandledGrows
  <2>3. info' \in UserInfoType({Fd}) /\ info'.state = info.state
    BY <2>1, RecordMethods DEF RecordOK
  <2> QED
    BY <1>2, <2>1, <2>2, <2>3 DEF RecordOK, KeeperStarts, FlagMeansLeased
<1>6. CASE Start
  <2>1. /\ pc = "start" /\ pc' = "call" /\ info' = [info EXCEPT !.fd = Fd]
        /\ UNCHANGED <<handled, sent, flag, keeper>>
    BY <1>6 DEF Start, reading, wire
  <2>2. info' \in UserInfoType({Fd}) /\ info'.state = info.state
    BY <2>1, RecordMethods DEF RecordOK
  <2> QED
    BY <1>2, <2>1, <2>2 DEF RecordOK, KeeperStarts, FlagMeansLeased
<1>7. CASE StartFails \/ SendKeepAlive
  <2>1. /\ UNCHANGED <<handled, sent, flag, info>>
        /\ \/ pc' = "killed" /\ keeper' = "killed" /\ keeper # "unflag"
           \/ /\ pc' = "killed" /\ keeper' = "killed" /\ pc = "start"
           \/ pc' = pc /\ keeper = "send" /\ keeper' = "reset"
    BY <1>7 DEF StartFails, SendKeepAlive, reading, wire
  <2>2. pc = "start" => flag = 0
    BY DEF KeeperStarts, NoAddress
  <2> QED
    BY <1>2, <2>1, <2>2 DEF RecordOK, KeeperStarts, FlagMeansLeased, Keepers
<1>8. CASE TakeFd \/ LoopAgain
  <2>1. /\ UNCHANGED <<handled, sent, flag, keeper, info>>
        /\ pc' \notin {"tun", "start"} /\ pc # "killed"
    BY <1>8 DEF TakeFd, LoopAgain, reading, wire, client
  <2> QED
    BY <1>2, <2>1 DEF RecordOK, KeeperStarts, FlagMeansLeased
<1>9. CASE EstablishTun
  <2>1. /\ pc = "tun" /\ pc' = "check" /\ flag' = 1 /\ keeper' = "loop"
        /\ UNCHANGED <<handled, sent, info>>
    BY <1>9 DEF EstablishTun, reading, wire
  <2> QED
    BY <1>2, <2>1 DEF RecordOK, KeeperStarts, FlagMeansLeased, Keepers
<1>10. CASE LoopCheck
  <2>1. /\ UNCHANGED <<handled, sent, keeper, info>> /\ flag' = 0
        /\ pc' = "over" /\ pc # "killed"
    BY <1>10 DEF LoopCheck, reading, wire
  <2> QED
    BY <1>2, <2>1 DEF RecordOK, KeeperStarts, FlagMeansLeased
<1>11. CASE \/ WhileFlag \/ ReadState \/ CountDown \/ CheckNeedSend
            \/ RestartCount \/ CheckTimeOut
  <2>1. /\ UNCHANGED <<handled, sent, flag, pc>>
        /\ keeper \notin {"none", "killed", "unflag"}
        /\ keeper' \in Keepers /\ keeper' # "killed"
        /\ info' \in {info, DecCount(info), ResetCount(info)}
    BY <1>11
       DEF WhileFlag, ReadState, CountDown, CheckNeedSend, RestartCount,
           CheckTimeOut, KeeperStep, framingVars, wire, reader, Keepers
  <2>2. info' \in UserInfoType({Fd}) /\ info'.state = info.state
    BY <2>1, RecordMethods DEF RecordOK
  <2> QED
    BY <1>2, <2>1, <2>2 DEF RecordOK, KeeperStarts, FlagMeansLeased
<1>12. CASE FreeLease
  <2>1. /\ UNCHANGED <<handled, sent, flag, pc>> /\ keeper = "free"
        /\ keeper' = "unflag" /\ info' = FreeResource(info)
    BY <1>12 DEF FreeLease, KeeperStep, framingVars, wire, reader
  <2>2. info' \in UserInfoType({Fd})
    BY <2>1, RecordMethods DEF RecordOK
  <2> QED
    BY <1>2, <2>1, <2>2 DEF RecordOK, KeeperStarts, FlagMeansLeased, Keepers
<1>13. CASE Unflag
  <2>1. /\ UNCHANGED <<handled, sent, pc, info>> /\ keeper = "unflag"
        /\ keeper' = "close" /\ flag' = 0
    BY <1>13 DEF Unflag, FlagAtTimeOut, framingVars, wire, reader
  <2> QED
    BY <1>2, <2>1 DEF RecordOK, KeeperStarts, FlagMeansLeased, Keepers
<1>14. CASE CloseTimedOut
  <2>1. /\ UNCHANGED <<handled, sent, pc, info, flag>> /\ keeper = "close"
        /\ keeper' = "loop"
    BY <1>14 DEF CloseTimedOut, wire, reader
  <2> QED
    BY <1>2, <2>1 DEF RecordOK, KeeperStarts, FlagMeansLeased, Keepers
<1>15. CASE Tick \/ UNCHANGED clientVars
  <2>1. /\ UNCHANGED <<handled, sent, pc, flag, keeper>>
        /\ info' \in {info, Older(info)}
    BY <1>15 DEF Tick, clientVars, client, framingVars, wire, reader
  <2>2. info' \in UserInfoType({Fd}) /\ info'.state = info.state
    BY <2>1, RecordMethods DEF RecordOK
  <2> QED
    BY <1>2, <2>1, <2>2 DEF RecordOK, KeeperStarts, FlagMeansLeased
<1> QED
  BY <1>1, <1>3, <1>4, <1>5, <1>6, <1>7, <1>8, <1>9, <1>10, <1>11, <1>12,
     <1>13, <1>14, <1>15 DEF ClientNext, ClientMain, ClientKeeper

LEMMA LeaseInvHolds ==
  ASSUME WellFormed PROVE ClientSpec => [](FramingInv /\ LeaseInv)
<1>1. ClientInit => FramingInv /\ LeaseInv
  <2> SUFFICES ASSUME ClientInit PROVE FramingInv /\ LeaseInv
    OBVIOUS
  <2>1. FramingInv
    BY FramingInitInv DEF ClientInit, Between
  <2>2. info \in UserInfoType({Fd})
    BY UserInfoAssumption DEF ClientInit, UserInfoType, NewUserInfo
  <2> QED
    BY <2>1, <2>2
       DEF ClientInit, LeaseInv, RecordOK, AddressOnce, KeeperStarts,
           NoAddress, FlagMeansLeased, Keepers
<1>2. FramingInv /\ LeaseInv /\ [ClientNext]_clientVars
        => FramingInv' /\ LeaseInv'
  BY ClientKeepsFraming, LeaseKeeps
<1> QED
  BY <1>1, <1>2, PTL DEF ClientSpec

\* While flag says that the tunnel is established the client has its lease, but
\* between freeResource and flag = 0 of client_keep_alive_thread.
THEOREM FlagMeansLease ==
  ASSUME WellFormed PROVE ClientSpec => []FlagMeansLeased
<1>1. LeaseInv => FlagMeansLeased
  BY DEF LeaseInv
<1> QED
  BY <1>1, LeaseInvHolds, PTL

\* The payload of a packet is stored past the end of the client's struct Msg only
\* when the packet is longer than that: cuts of the stream, a keep-alive thread
\* that closes the descriptor inside a message, and whatever message comes
\* behind, do not make recv_server store more than the message has.
THEOREM ClientReadsFit ==
  ASSUME WellFormed PROVE ClientSpec => []FitsInMsg
<1>1. FramingInv => FitsInMsg
  BY DEF FramingInv, ReaderOK, OverrunOK, Begun, Current, FitsInMsg
<1> QED
  BY <1>1, LeaseInvHolds, PTL

\* The record of the client, its flag, its counters and the places of its two
\* threads have their types throughout.
THEOREM ClientType ==
  ASSUME WellFormed PROVE ClientSpec => []ClientTypeOK
<1>1. FramingInv /\ LeaseInv /\ ClientInv => ClientTypeOK
  BY DEF FramingInv, LeaseInv, ClientInv, CountInv, CallOK, RecordOK,
         ClientTypeOK, Labels, Between, Over, ReadLabels, Keepers
<1> QED
  BY <1>1, LeaseInvHolds, ClientInvHolds, PTL

=============================================================================
