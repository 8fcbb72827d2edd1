--------------------------- MODULE FramingProofs ---------------------------
(***************************************************************************)
(* What do_response hands to its handlers are the messages that were sent, *)
(* in order and whole, but perhaps for the last: for any messages, sizes   *)
(* of header and payload, and any cut of the stream into reads.            *)
(*                                                                         *)
(* The inductive invariant says where the next byte of the stream belongs  *)
(* and what msg holds at each place of the reader.  A read that fails sets *)
(* n back, so that n and what msg holds part; from then on no byte is read *)
(* any more (Starved).  For the refinement of MessageChannel it is also    *)
(* needed that what has been read has been sent (BytesSent).               *)
(*                                                                         *)
(* Between names the places between two messages, those of the Android     *)
(* client's loop included: ClientProofs uses the lemmas on the reads.      *)
(***************************************************************************)
EXTENDS Framing, TLAPS

\* Types 100 and 104 are sent without a payload, as both clients do.
WellFormed == \A m \in Traffic : m.type \in NoPayload => m.length = 0

---------------------------------------------------------------------------
(* The stream *)

\* The byte the peer sends next.
Tip == IF MidMessage THEN <<Len(sent), next>> ELSE <<Len(sent) + 1, 0>>

\* b comes d bytes after a, where the message of a has s bytes.
Follows(a, b, d, s) ==
  /\ a[2] + d < s => b = <<a[1], a[2] + d>>
  /\ a[2] + d = s => b = <<a[1] + 1, 0>>
  /\ a[2] + d > s => b[1] > a[1]

SizeOf(a) == Size(sent[a[1]])

NextOK == sent # <<>> => next <= Size(sent[Len(sent)])

InboxOK ==
  \A i \in 1..Len(inbox) :
    /\ inbox[i][1] \in 1..Len(sent)
    /\ inbox[i][2] \in 0..SizeOf(inbox[i]) - 1

OrderOK ==
  \A i, j \in 1..Len(inbox) :
    i <= j => Follows(inbox[i], inbox[j], j - i, SizeOf(inbox[i]))

TipOK ==
  stream = "up" =>
    \A i \in 1..Len(inbox) :
      Follows(inbox[i], Tip, Len(inbox) + 1 - i, SizeOf(inbox[i]))

WireOK == NextOK /\ InboxOK /\ OrderOK /\ TipOK

\* Byte k of message i is the next that can be read, if there will be any.
Comes(i, k) ==
  IF inbox # <<>> THEN inbox[1] = <<i, k>> ELSE stream = "up" => Tip = <<i, k>>

\* So it is after the first h bytes of message i.
ComesAfter(i, h) ==
  IF h < Size(sent[i]) THEN Comes(i, h) ELSE Comes(i + 1, 0)

---------------------------------------------------------------------------
(* The reader *)

Between == {"start", "call", "hdr", "tun", "check"}
Over == {"ended", "over", "killed"}
ReadLabels == {"hdr", "resthdr", "payload", "restpayload"}
Labels == Between \cup Over \cup ReadLabels \cup {"handle", "overrun"}

\* The first h bytes of message i, in a buffer that was cleared.
Prefix(i, h) == [k \in Offsets |-> IF k < h THEN <<i, k>> ELSE Zero]

\* The message that is being read.
Current == Len(handled) + 1

\* No byte will be read any more.
Cut == descriptor = "lost" /\ call # "open"
Starved == Cut \/ (stream = "drained" /\ inbox = <<>>)

Clean ==
  \A i \in 1..Len(handled) : i <= Len(sent) /\ handled[i] = <<i, sent[i]>>

Begun == Clean /\ Current \in 1..Len(sent)

CallOK ==
  /\ pc \in Labels
  /\ call # "none" => pc \in ReadLabels \cup {"killed"}
  /\ call = "bad" => descriptor = "lost"
  /\ pc \notin Over => descriptor # "closed"

BetweenOK == pc \in Between => Cut \/ (Clean /\ Comes(Current, 0))

RestHdrOK ==
  pc = "resthdr" =>
    /\ Begun
    /\ \E h \in 1..HdrSize - 1 :
         /\ msg = Prefix(Current, h)
         /\ n \in 0..h
         /\ Starved \/ (n = h /\ Comes(Current, h))

PayloadOK ==
  pc = "payload" =>
    /\ Begun
    /\ \E h \in 1..HdrSize :
         /\ msg = Prefix(Current, h)
         /\ Cut \/ (h = HdrSize /\ ComesAfter(Current, h))

RestPayloadOK ==
  pc = "restpayload" =>
    /\ Begun
    /\ \E h \in 1..sent[Current].length - 1 :
         /\ msg = Prefix(Current, HdrSize + h)
         /\ n \in -1..h
         /\ Starved \/ (n = h /\ Comes(Current, HdrSize + h))

HandleOK ==
  pc = "handle" =>
    /\ Begun
    /\ \/ /\ msg = Prefix(Current, Size(sent[Current]))
          /\ sent[Current].length <= MaxPayload
          /\ Comes(Current + 1, 0)
       \/ /\ Cut
          /\ \E h \in 1..HdrSize - 1 : msg = Prefix(Current, h)

OverrunOK == pc = "overrun" => Begun /\ sent[Current].length > MaxPayload

ReaderOK ==
  /\ BetweenOK /\ RestHdrOK /\ PayloadOK /\ RestPayloadOK /\ HandleOK
  /\ OverrunOK

SomeSent == \A i \in 1..Len(handled) : handled[i] = Garbled \/ i <= Len(sent)

FramingInv ==
  /\ FramingTypeOK /\ WireOK /\ CallOK /\ ReaderOK
  /\ SomeSent /\ GarbledIsLast

---------------------------------------------------------------------------
(* Sizes, smallest and largest *)

LEMMA MinOfTwo ==
  ASSUME NEW a \in Nat, NEW b \in Nat
  PROVE  /\ Min({a, b}) \in Nat /\ Min({a, b}) <= a /\ Min({a, b}) <= b
         /\ Min({a, b}) = a \/ Min({a, b}) = b
<1>1. \E x \in {a, b} : \A y \in {a, b} : x <= y
  OBVIOUS
<1>2. Min({a, b}) \in {a, b} /\ \A y \in {a, b} : Min({a, b}) <= y
  BY <1>1 DEF Min
<1> QED
  BY <1>2

LEMMA MaxOfTwo ==
  ASSUME NEW a \in Int, NEW b \in Int
  PROVE  /\ Max({a, b}) \in Int /\ a <= Max({a, b}) /\ b <= Max({a, b})
         /\ Max({a, b}) = a \/ Max({a, b}) = b
<1>1. \E x \in {a, b} : \A y \in {a, b} : x >= y
  OBVIOUS
<1>2. Max({a, b}) \in {a, b} /\ \A y \in {a, b} : Max({a, b}) >= y
  BY <1>1 DEF Max
<1> QED
  BY <1>2

LEMMA Sizes ==
  ASSUME FramingTypeOK, NEW i \in 1..Len(sent)
  PROVE  /\ sent[i] \in Traffic /\ sent[i].length \in Nat
         /\ sent[i].type \in Nat
         /\ Size(sent[i]) = HdrSize + sent[i].length
         /\ Size(sent[i]) \in Nat /\ Size(sent[i]) >= HdrSize
<1>1. sent[i] \in Traffic
  BY DEF FramingTypeOK
<1>2. sent[i].length \in Nat /\ sent[i].type \in Nat
  BY <1>1, FramingAssumption
<1>3. HdrSize \in Nat /\ MaxPayload \in Nat
  BY FramingAssumption
<1>4. Size(sent[i]) = HdrSize + sent[i].length
  BY DEF Size
<1> QED
  BY <1>1, <1>2, <1>3, <1>4

LEMMA LastIs ==
  ASSUME FramingTypeOK
  PROVE  /\ Len(sent) \in Nat
         /\ sent # <<>> <=> Len(sent) > 0
         /\ MidMessage <=> Len(sent) > 0 /\ next < Size(sent[Len(sent)])
BY DEF FramingTypeOK, MidMessage, Last

LEMMA TipType ==
  ASSUME FramingTypeOK
  PROVE  /\ Tip[1] \in Nat /\ Tip[2] \in Nat
         /\ Tip[1] \in {Len(sent), Len(sent) + 1}
<1>1. Len(sent) \in Nat /\ next \in Nat
  BY FramingAssumption DEF FramingTypeOK
<1> QED
  BY <1>1 DEF Tip

\* Equal buffers.
LEMMA PrefixType ==
  ASSUME NEW i \in 1..MaxSent, NEW h \in Int
  PROVE  Prefix(i, h) \in [Offsets -> Bytes \cup {Zero}]
BY FramingAssumption DEF Prefix, Bytes, Offsets

---------------------------------------------------------------------------
(* The peer, and the thread that closes the descriptor *)

\* What the steps of others do to what the reader relies on.
Others ==
  /\ UNCHANGED <<handled, n, msg>>
  /\ Len(sent) <= Len(sent')
  /\ \A i \in 1..Len(sent) : sent'[i] = sent[i]
  /\ \A i, k : Comes(i, k) => Comes(i, k)'
  /\ Cut => Cut'
  /\ Starved => Starved'

LEMMA BegunStays ==
  ASSUME FramingTypeOK, Others, Clean
  PROVE  /\ Clean'
         /\ Begun => Begun' /\ Current' = Current
                     /\ sent'[Current] = sent[Current]
<1>1. Len(sent) \in Nat /\ Len(sent') \in Int
  BY DEF FramingTypeOK, Others
<1>2. Clean'
  BY <1>1 DEF Clean, Others
<1>3. Current' = Current
  BY DEF Current, Others
<1> QED
  BY <1>1, <1>2, <1>3 DEF Begun, Others

LEMMA ReaderStays ==
  ASSUME FramingTypeOK, ReaderOK, Others, pc' = pc
  PROVE  ReaderOK'
<1> USE DEF ReaderOK
<1>1. BetweenOK'
  <2>1. Current' = Current
    BY DEF Current, Others
  <2> QED
    BY <2>1, BegunStays DEF BetweenOK, Others
<1>2. ASSUME Begun
      PROVE  /\ Begun' /\ Current' = Current /\ sent'[Current] = sent[Current]
             /\ Current \in 1..Len(sent)
  BY <1>2, BegunStays DEF Begun
<1>3. ASSUME NEW h
      PROVE  /\ msg = Prefix(Current, h) /\ Current' = Current
                  => msg' = Prefix(Current', h)
             /\ Comes(Current, h) /\ Current' = Current => Comes(Current, h)'
  BY DEF Others, Prefix
<1>4. RestHdrOK'
  <2> SUFFICES ASSUME pc = "resthdr" PROVE RestHdrOK'
    BY DEF RestHdrOK
  <2>1. PICK h \in 1..HdrSize - 1 :
          /\ msg = Prefix(Current, h) /\ n \in 0..h
          /\ Starved \/ (n = h /\ Comes(Current, h))
    BY DEF RestHdrOK
  <2>2. Begun' /\ Current' = Current
    BY <1>2 DEF RestHdrOK
  <2>3. /\ msg' = Prefix(Current', h) /\ n' \in 0..h
        /\ Starved' \/ (n' = h /\ Comes(Current, h)')
    BY <1>3, <2>1, <2>2 DEF Others
  <2> QED
    BY <2>2, <2>3 DEF RestHdrOK, Prefix
<1>5. PayloadOK'
  <2> SUFFICES ASSUME pc = "payload" PROVE PayloadOK'
    BY DEF PayloadOK
  <2>1. PICK h \in 1..HdrSize :
          /\ msg = Prefix(Current, h)
          /\ Cut \/ (h = HdrSize /\ ComesAfter(Current, h))
    BY DEF PayloadOK
  <2>2. /\ Begun' /\ Current' = Current /\ sent'[Current] = sent[Current]
    BY <1>2 DEF PayloadOK
  <2>3. ComesAfter(Current, h) => ComesAfter(Current, h)'
    BY <2>2 DEF ComesAfter, Size, Others
  <2>4. /\ msg' = Prefix(Current', h)
        /\ Cut' \/ (h = HdrSize /\ ComesAfter(Current, h)')
    BY <1>3, <2>1, <2>2, <2>3 DEF Others
  <2> QED
    BY <2>2, <2>4 DEF PayloadOK, Prefix
<1>6. RestPayloadOK'
  <2> SUFFICES ASSUME pc = "restpayload" PROVE RestPayloadOK'
    BY DEF RestPayloadOK
  <2>1. PICK h \in 1..sent[Current].length - 1 :
          /\ msg = Prefix(Current, HdrSize + h) /\ n \in -1..h
          /\ Starved \/ (n = h /\ Comes(Current, HdrSize + h))
    BY DEF RestPayloadOK
  <2>2. Begun' /\ Current' = Current /\ sent'[Current] = sent[Current]
    BY <1>2 DEF RestPayloadOK
  <2>3. /\ msg' = Prefix(Current', HdrSize + h) /\ n' \in -1..h
        /\ Starved' \/ (n' = h /\ Comes(Current, HdrSize + h)')
    BY <1>3, <2>1, <2>2 DEF Others
  <2> QED
    BY <2>1, <2>2, <2>3 DEF RestPayloadOK, Prefix
<1>7. HandleOK'
  <2> SUFFICES ASSUME pc = "handle" PROVE HandleOK'
    BY DEF HandleOK
  <2>1. Begun' /\ Current' = Current /\ sent'[Current] = sent[Current]
    BY <1>2 DEF HandleOK
  <2>2. CASE /\ msg = Prefix(Current, Size(sent[Current]))
             /\ sent[Current].length <= MaxPayload
             /\ Comes(Current + 1, 0)
    <3>1. msg' = Prefix(Current', Size(sent[Current])')
      BY <1>3, <2>1, <2>2 DEF Size
    <3>2. Comes(Current + 1, 0)'
      BY <2>1, <2>2 DEF Others
    <3> QED
      BY <2>1, <2>2, <3>1, <3>2 DEF HandleOK, Prefix
  <2>3. CASE Cut /\ \E h \in 1..HdrSize - 1 : msg = Prefix(Current, h)
    <3>1. Cut' /\ \E h \in 1..HdrSize - 1 : msg' = Prefix(Current', h)
      BY <1>3, <2>1, <2>3 DEF Others
    <3> QED
      BY <2>1, <3>1 DEF HandleOK, Prefix
  <2> QED
    BY <2>2, <2>3 DEF HandleOK
<1>8. OverrunOK'
  BY <1>2 DEF OverrunOK
<1> QED
  BY <1>1, <1>4, <1>5, <1>6, <1>7, <1>8

\* What a step must keep for the reader, beside the stream.
LEMMA InboxType ==
  ASSUME FramingTypeOK, InboxOK
  PROVE  /\ Len(inbox) \in Nat
         /\ inbox # <<>> <=> Len(inbox) > 0
         /\ \A i \in 1..Len(inbox) :
              /\ inbox[i] \in Bytes
              /\ inbox[i][1] \in 1..Len(sent)
              /\ SizeOf(inbox[i]) \in Nat
              /\ inbox[i][2] \in Nat /\ inbox[i][2] < SizeOf(inbox[i])
              /\ inbox[i] = <<inbox[i][1], inbox[i][2]>>
<1>1. inbox \in Seq(Bytes)
  BY DEF FramingTypeOK
<1>2. ASSUME NEW i \in 1..Len(inbox)
      PROVE  inbox[i][1] \in 1..Len(sent) /\ SizeOf(inbox[i]) \in Nat
  BY <1>2, Sizes DEF InboxOK, SizeOf
<1>3. ASSUME NEW i \in 1..Len(inbox)
      PROVE  inbox[i] \in Bytes /\ inbox[i] = <<inbox[i][1], inbox[i][2]>>
  BY <1>1 DEF Bytes
<1>4. ASSUME NEW i \in 1..Len(inbox)
      PROVE  inbox[i][2] \in Nat /\ inbox[i][2] < SizeOf(inbox[i])
  BY <1>2 DEF InboxOK
<1> QED
  BY <1>1, <1>2, <1>3, <1>4

LEMMA StartMessageKeeps ==
  ASSUME FramingTypeOK, WireOK, NEW m \in Traffic, StartMessage(m)
  PROVE  FramingTypeOK' /\ WireOK' /\ Others
<1>1. /\ sent \in Seq(Traffic) /\ sent' = Append(sent, m) /\ next' = 0
      /\ Len(sent) < MaxSent /\ stream = "up" /\ ~MidMessage
      /\ UNCHANGED <<inbox, stream, descriptor, pc, call, n, msg, handled>>
  BY DEF StartMessage, FramingTypeOK, reader
<1>2. /\ sent' \in Seq(Traffic) /\ Len(sent') = Len(sent) + 1
      /\ Len(sent) \in Nat
      /\ \A i \in 1..Len(sent) : sent'[i] = sent[i]
      /\ sent'[Len(sent) + 1] = m
  BY <1>1
<1>3. Size(m) \in Nat /\ Size(m) > 0
  BY FramingAssumption DEF Size
<1>4. Tip = <<Len(sent) + 1, 0>>
  BY <1>1 DEF Tip
<1>5. Tip' = <<Len(sent) + 1, 0>>
  BY <1>1, <1>2, <1>3 DEF Tip, MidMessage, Last
<1>6. FramingTypeOK'
  <2>1. next' \in Nat
    BY <1>1
  <2>2. Len(sent') <= MaxSent
    BY <1>1, <1>2, FramingAssumption
  <2> QED
    BY <2>1, <2>2, <1>1, <1>2 DEF FramingTypeOK
<1>7. WireOK'
  <2>1. NextOK'
    BY <1>1, <1>2, <1>3 DEF NextOK
  <2>2. ASSUME NEW i \in 1..Len(inbox)
        PROVE  /\ inbox[i][1] \in 1..Len(sent)
               /\ SizeOf(inbox[i])' = SizeOf(inbox[i])
    BY <1>1, <1>2 DEF WireOK, InboxOK, SizeOf, Size
  <2>3. InboxOK'
    BY <2>2, <1>1, <1>2 DEF WireOK, InboxOK
  <2>4. OrderOK'
    BY <2>2, <1>1 DEF WireOK, OrderOK
  <2>5. TipOK'
    BY <2>2, <1>1, <1>4, <1>5 DEF WireOK, TipOK
  <2> QED
    BY <2>1, <2>3, <2>4, <2>5 DEF WireOK
<1>8. \A i, k : Comes(i, k) => Comes(i, k)'
  BY <1>1, <1>4, <1>5 DEF Comes
<1>9. (Cut => Cut') /\ (Starved => Starved')
  BY <1>1 DEF Cut, Starved
<1> QED
  BY <1>1, <1>2, <1>6, <1>7, <1>8, <1>9 DEF Others

\* The byte after the tip.
LEMMA FollowsNext ==
  ASSUME NEW a1 \in Nat, NEW a2 \in Nat, NEW s \in Nat, NEW d \in Nat,
         NEW L \in Nat, NEW x \in Nat, NEW w \in Nat, x < w, a1 = L => s = w,
         Follows(<<a1, a2>>, <<L, x>>, d, s)
  PROVE  Follows(<<a1, a2>>, IF x + 1 < w THEN <<L, x + 1>> ELSE <<L + 1, 0>>,
                 d + 1, s)
<1>1. CASE a2 + d < s
  <2>1. a1 = L /\ a2 + d = x /\ s = w
    BY <1>1 DEF Follows
  <2> QED
    BY <2>1 DEF Follows
<1>2. CASE a2 + d = s
  <2>1. L = a1 + 1
    BY <1>2 DEF Follows
  <2> QED
    BY <2>1, <1>2 DEF Follows
<1>3. CASE a2 + d > s
  <2>1. L > a1
    BY <1>3 DEF Follows
  <2> QED
    BY <2>1, <1>3 DEF Follows
<1> QED
  BY <1>1, <1>2, <1>3

LEMMA SendByteKeeps ==
  ASSUME FramingTypeOK, WireOK, SendByte
  PROVE  FramingTypeOK' /\ WireOK' /\ Others
<1> DEFINE L == Len(sent)
<1> DEFINE N == Len(inbox)
<1> DEFINE w == Size(sent[L])
<1>1. /\ stream = "up" /\ MidMessage /\ next' = next + 1
      /\ inbox' = Append(inbox, <<L, next>>)
      /\ UNCHANGED <<sent, stream, descriptor, pc, call, n, msg, handled>>
  BY DEF SendByte, reader
<1>2. /\ L \in 1..MaxSent /\ next \in Nat /\ next < w
      /\ Tip = <<L, next>>
  <2>1. L \in Nat /\ L <= MaxSent /\ next \in Nat
    BY FramingAssumption DEF FramingTypeOK
  <2> QED
    BY <1>1, <2>1, LastIs DEF Tip
<1>3. w \in Nat
  BY <1>2, Sizes
<1>4. Tip' = IF next + 1 < w THEN <<L, next + 1>> ELSE <<L + 1, 0>>
  BY <1>1, <1>2 DEF Tip, MidMessage, Last, Size
<1>5. <<L, next>> \in Bytes
  BY <1>2, <1>3, FramingAssumption DEF Bytes, Offsets
<1>6. /\ N \in Nat /\ inbox \in Seq(Bytes)
      /\ inbox' \in Seq(Bytes) /\ Len(inbox') = N + 1
      /\ \A i \in 1..N : inbox'[i] = inbox[i]
      /\ inbox'[N + 1] = <<L, next>>
  <2>1. inbox \in Seq(Bytes)
    BY DEF FramingTypeOK
  <2> QED
    BY <2>1, <1>1, <1>5
<1>7. FramingTypeOK'
  <2>1. next' \in Nat
    BY <1>1, <1>2
  <2> QED
    BY <2>1, <1>1, <1>6 DEF FramingTypeOK
<1> HIDE DEF N, w, L
<1>8. WireOK'
  <2> InboxOK /\ OrderOK /\ TipOK
    BY DEF WireOK
  <2>1. NextOK'
    BY <1>1, <1>2, <1>3 DEF NextOK, w, L, Size
  <2>2. \A a : SizeOf(a)' = SizeOf(a)
    BY <1>1 DEF SizeOf, Size
  <2>3. ASSUME NEW i \in 1..N
        PROVE  /\ inbox[i][1] \in 1..L /\ inbox[i][2] \in Nat
               /\ inbox[i][2] < SizeOf(inbox[i]) /\ SizeOf(inbox[i]) \in Nat
               /\ inbox[i] = <<inbox[i][1], inbox[i][2]>>
               /\ inbox[i][1] = L => SizeOf(inbox[i]) = w
    BY InboxType DEF N, L, w, SizeOf
  <2>4. SizeOf(<<L, next>>) = w
    BY DEF SizeOf, w, L
  <2>5. InboxOK'
    <3> SUFFICES ASSUME NEW i \in 1..N + 1
                 PROVE  /\ inbox'[i][1] \in 1..L
                        /\ inbox'[i][2] \in 0..SizeOf(inbox'[i]) - 1
      BY <1>1, <1>6, <2>2 DEF InboxOK, L, N
    <3>1. CASE i \in 1..N
      <4>1. inbox'[i] = inbox[i]
        BY <1>6, <3>1
      <4> QED
        BY <4>1, <2>3, <3>1
    <3>2. CASE i = N + 1
      <4>1. inbox'[i] = <<L, next>>
        BY <1>6, <3>2
      <4> QED
        BY <4>1, <1>2, <1>3, <2>4
    <3> QED
      BY <1>6, <3>1, <3>2
  <2>6. ASSUME NEW i \in 1..N
        PROVE  Follows(inbox[i], <<L, next>>, N + 1 - i, SizeOf(inbox[i]))
    BY <1>1, <1>2 DEF TipOK, N
  <2>7. OrderOK'
    <3> SUFFICES ASSUME NEW i \in 1..N + 1, NEW j \in 1..N + 1, i <= j
                 PROVE  Follows(inbox'[i], inbox'[j], j - i, SizeOf(inbox'[i]))
      BY <1>1, <1>6, <2>2 DEF OrderOK, N
    <3>1. CASE j \in 1..N
      <4>1. i \in 1..N /\ inbox'[i] = inbox[i] /\ inbox'[j] = inbox[j]
        BY <1>6, <3>1
      <4> QED
        BY <4>1, <3>1 DEF OrderOK, N
    <3>2. CASE j = N + 1 /\ i \in 1..N
      <4>1. inbox'[i] = inbox[i] /\ inbox'[j] = <<L, next>>
        BY <1>6, <3>2
      <4>2. j - i = N + 1 - i
        BY <1>6, <3>2
      <4>3. Follows(inbox[i], <<L, next>>, N + 1 - i, SizeOf(inbox[i]))
        BY <3>2, <2>6
      <4> QED
        BY <4>1, <4>2, <4>3
    <3>3. CASE j = N + 1 /\ i = N + 1
      <4>1. inbox'[i] = <<L, next>> /\ inbox'[j] = <<L, next>> /\ j - i = 0
        BY <1>6, <3>3
      <4> QED
        BY <4>1, <2>4, <1>2, <1>3 DEF Follows
    <3> QED
      BY <1>6, <3>1, <3>2, <3>3
  <2>8. TipOK'
    <3> SUFFICES ASSUME NEW i \in 1..N + 1
                 PROVE  Follows(inbox'[i], Tip', (N + 1) + 1 - i,
                                SizeOf(inbox'[i]))
      BY <1>1, <1>6, <2>2 DEF TipOK
    <3>1. CASE i \in 1..N
      <4> DEFINE a1 == inbox[i][1]
      <4> DEFINE a2 == inbox[i][2]
      <4> DEFINE s == SizeOf(inbox[i])
      <4>1. /\ a1 \in Nat /\ a2 \in Nat /\ s \in Nat /\ inbox[i] = <<a1, a2>>
            /\ a1 = L => s = w
        BY <2>3, <3>1, <1>2
      <4>2. N + 1 - i \in Nat /\ (N + 1 - i) + 1 = (N + 1) + 1 - i /\ L \in Nat
        BY <1>2, <1>6, <3>1
      <4>3. Follows(<<a1, a2>>, <<L, next>>, N + 1 - i, s)
        BY <2>6, <3>1, <4>1
      <4> HIDE DEF a1, a2, s
      <4>4. Follows(<<a1, a2>>, Tip', (N + 1) + 1 - i, s)
        BY <4>1, <4>2, <4>3, <1>2, <1>3, <1>4, FollowsNext
      <4>5. inbox'[i] = inbox[i]
        BY <1>6, <3>1
      <4> QED
        BY <4>1, <4>4, <4>5 DEF s
    <3>2. CASE i = N + 1
      <4>1. inbox'[i] = <<L, next>> /\ (N + 1) + 1 - i = 1
        BY <1>6, <3>2
      <4>2. L \in Nat /\ next \in Nat /\ w \in Nat /\ next < w
        BY <1>2, <1>3
      <4>3. Follows(<<L, next>>, Tip', 1, w)
        BY <4>2, <1>4 DEF Follows
      <4> QED
        BY <4>1, <4>3, <2>4
    <3> QED
      BY <1>6, <3>1, <3>2
  <2> QED
    BY <2>1, <2>5, <2>7, <2>8 DEF WireOK
<1>9. \A i, k : Comes(i, k) => Comes(i, k)'
  <2>1. inbox' # <<>>
    BY <1>6
  <2>2. CASE inbox = <<>>
    <3>1. N = 0
      BY <2>2 DEF N
    <3>2. inbox'[1] = Tip
      BY <1>2, <1>6, <3>1
    <3>3. ASSUME NEW i, NEW k, Comes(i, k) PROVE Comes(i, k)'
      <4>1. Tip = <<i, k>>
        BY <1>1, <2>2, <3>3 DEF Comes
      <4> QED
        BY <2>1, <3>2, <4>1 DEF Comes
    <3> QED
      BY <3>3
  <2>3. CASE inbox # <<>>
    <3>1. inbox'[1] = inbox[1]
      BY <1>6, <2>3 DEF N
    <3> QED
      BY <2>1, <2>3, <3>1 DEF Comes
  <2> QED
    BY <2>2, <2>3
<1>10. (Cut => Cut') /\ (Starved => Starved')
  BY <1>1 DEF Cut, Starved
<1> QED
  BY <1>1, <1>2, <1>7, <1>8, <1>9, <1>10 DEF Others, L

LEMMA EndStreamKeeps ==
  ASSUME FramingTypeOK, WireOK, EndStream
  PROVE  FramingTypeOK' /\ WireOK' /\ Others
<1>1. /\ stream = "up" /\ stream' = "closed"
      /\ UNCHANGED <<sent, next, inbox, descriptor, pc, call, n, msg, handled>>
  BY DEF EndStream, reader
<1>2. FramingTypeOK'
  BY <1>1 DEF FramingTypeOK
<1>3. WireOK'
  BY <1>1 DEF WireOK, NextOK, InboxOK, OrderOK, TipOK, SizeOf, Size
<1>4. \A i, k : Comes(i, k) => Comes(i, k)'
  BY <1>1 DEF Comes
<1>5. (Cut => Cut') /\ (Starved => Starved')
  BY <1>1 DEF Cut, Starved
<1>6. Len(sent) \in Nat
  BY DEF FramingTypeOK
<1> QED
  BY <1>1, <1>2, <1>3, <1>4, <1>5, <1>6 DEF Others

LEMMA ResetStreamKeeps ==
  ASSUME FramingTypeOK, WireOK, ResetStream
  PROVE  FramingTypeOK' /\ WireOK' /\ Others
<1>1. /\ stream \in {"up", "closed"} /\ stream' = "reset"
      /\ UNCHANGED <<sent, next, descriptor, pc, call, n, msg, handled>>
  BY DEF ResetStream, reader
<1>2. PICK a \in 0..Len(inbox) : inbox' = SubSeq(inbox, 1, a)
  BY DEF ResetStream
<1>3. inbox \in Seq(Bytes) /\ Len(inbox) \in Nat /\ Len(sent) \in Nat
  BY DEF FramingTypeOK
<1>4. /\ inbox' \in Seq(Bytes) /\ Len(inbox') = a
      /\ \A i \in 1..a : inbox'[i] = inbox[i] /\ i \in 1..Len(inbox)
  BY <1>2, <1>3
<1>5. FramingTypeOK'
  BY <1>1, <1>4 DEF FramingTypeOK
<1>6. WireOK'
  BY <1>1, <1>4 DEF WireOK, NextOK, InboxOK, OrderOK, TipOK, SizeOf, Size
<1>7. \A i, k : Comes(i, k) => Comes(i, k)'
  <2>1. inbox' # <<>> => inbox # <<>> /\ inbox'[1] = inbox[1]
    BY <1>3, <1>4
  <2> QED
    BY <1>1, <2>1 DEF Comes
<1>8. (Cut => Cut') /\ (Starved => Starved')
  <2>1. stream # "drained"
    BY <1>1
  <2> QED
    BY <1>1, <2>1 DEF Cut, Starved
<1> QED
  BY <1>1, <1>3, <1>5, <1>6, <1>7, <1>8 DEF Others

\* A step that leaves the stream alone.
LEMMA WireStays ==
  ASSUME WireOK, UNCHANGED wire
  PROVE  WireOK' /\ \A i, k : Comes(i, k) => Comes(i, k)'
<1>1. UNCHANGED <<sent, next, inbox, stream>>
  BY DEF wire
<1>2. Tip' = Tip
  BY <1>1 DEF Tip, MidMessage, Last, Size
<1> QED
  BY <1>1, <1>2
     DEF WireOK, NextOK, InboxOK, OrderOK, TipOK, SizeOf, Size, Comes

LEMMA LostElsewhereKeeps ==
  ASSUME FramingTypeOK, WireOK, descriptor' = "lost",
         UNCHANGED <<wire, reader, handled>>
  PROVE  FramingTypeOK' /\ WireOK' /\ Others
<1>1. /\ UNCHANGED <<sent, next, inbox, stream, pc, call, n, msg, handled>>
      /\ Len(sent) \in Nat
  BY DEF wire, reader, FramingTypeOK
<1>2. FramingTypeOK'
  BY <1>1 DEF FramingTypeOK
<1>3. (Cut => Cut') /\ (Starved => Starved')
  BY <1>1 DEF Cut, Starved
<1> QED
  BY <1>1, <1>2, <1>3, WireStays DEF Others

LEMMA EnterReadKeeps ==
  ASSUME FramingTypeOK, WireOK, CallOK, EnterRead
  PROVE  FramingTypeOK' /\ WireOK' /\ Others /\ CallOK' /\ pc' = pc
<1>1. /\ pc \in ReadLabels /\ call = "none"
      /\ call' = IF isOpen THEN "open" ELSE "bad"
      /\ UNCHANGED <<wire, descriptor, pc, n, msg, handled>>
      /\ UNCHANGED <<sent, next, inbox, stream>>
      /\ Len(sent) \in Nat
  BY DEF EnterRead, ReadLabels, wire, FramingTypeOK
<1>2. descriptor # "closed"
  BY <1>1 DEF CallOK, ReadLabels, Over
<1>3. FramingTypeOK'
  BY <1>1 DEF FramingTypeOK
<1>4. (Cut => Cut') /\ (Starved => Starved')
  BY <1>1 DEF Cut, Starved, isOpen
<1>5. CallOK'
  BY <1>1, <1>2 DEF CallOK, FramingTypeOK, isOpen
<1> QED
  BY <1>1, <1>3, <1>4, <1>5, WireStays DEF Others

\* The history grows in Handle only.
LEMMA HistoryStays ==
  ASSUME FramingTypeOK, SomeSent, GarbledIsLast, handled' = handled,
         Len(sent) <= Len(sent'), \A i \in 1..Len(sent) : sent'[i] = sent[i],
         Len(sent') \in Nat, descriptor = "lost" => descriptor' = "lost"
  PROVE  SomeSent' /\ GarbledIsLast'
<1>1. Len(sent) \in Nat
  BY DEF FramingTypeOK
<1>2. SomeSent'
  BY <1>1 DEF SomeSent
<1>3. ASSUME NEW i \in 1..Len(handled), handled[i] # Garbled
      PROVE  sent'[i] = sent[i]
  BY <1>1, <1>3 DEF SomeSent
<1> QED
  BY <1>2, <1>3 DEF GarbledIsLast

---------------------------------------------------------------------------
(* read *)

\* What read returns: on a bad descriptor -1; else nothing, with the buffer as
\* it was, or as much as has arrived of what was asked for.
LEMMA BadReadFails ==
  ASSUME call = "bad", NEW count, NEW r, ReadReturns(count, r)
  PROVE  r = -1
BY DEF ReadReturns

LEMMA ReadIsBounded ==
  ASSUME FramingTypeOK, NEW count \in Nat, NEW r \in Int, ReadReturns(count, r)
  PROVE  /\ r \in -1..count
         /\ r > 0 => r <= Len(inbox) /\ inbox # <<>> /\ call # "bad"
         /\ r <= 0 /\ call # "bad" /\ count > 0 =>
              /\ inbox = <<>>
              /\ r = 0 => stream \in {"closed", "drained"}
              /\ r = -1 => stream = "reset"
<1>1. Len(inbox) \in Nat /\ (inbox # <<>> <=> Len(inbox) > 0)
  BY DEF FramingTypeOK
<1>2. /\ Min({count, Len(inbox)}) \in Nat
      /\ Min({count, Len(inbox)}) <= count
      /\ Min({count, Len(inbox)}) <= Len(inbox)
      /\ Min({count, Len(inbox)}) = count
           \/ Min({count, Len(inbox)}) = Len(inbox)
  BY <1>1, MinOfTwo
<1> DEFINE M == Min({count, Len(inbox)})
<1> HIDE DEF M
<1>3. /\ M \in Nat /\ M <= count /\ M <= Len(inbox)
      /\ M = count \/ M = Len(inbox)
  BY <1>2 DEF M
<1>4. IF call = "bad" THEN r = -1
      ELSE IF count = 0 THEN r = 0
      ELSE IF inbox # <<>> THEN r = M
      ELSE \/ stream = "reset" /\ r = -1
           \/ stream \in {"closed", "drained"} /\ r = 0
  BY DEF ReadReturns, M
<1> QED
  BY <1>1, <1>3, <1>4

\* A read of nothing.
LEMMA NothingRead ==
  ASSUME FramingTypeOK, WireOK, NEW buffer \in [Offsets -> Bytes \cup {Zero}],
         NEW o \in Nat, NEW r \in {-1, 0}, Consume(buffer, o, r)
  PROVE  /\ msg' = buffer /\ call' = "none"
         /\ UNCHANGED <<sent, next, inbox>>
         /\ stream' = IF r < 0 /\ call = "open" THEN "drained" ELSE stream
         /\ WireOK'
         /\ \A i, k : Comes(i, k) => Comes(i, k)'
<1>1. /\ call' = "none" /\ UNCHANGED <<sent, next, inbox>>
      /\ stream' = IF r < 0 /\ call = "open" THEN "drained" ELSE stream
      /\ msg' = [k \in Offsets |->
                   IF k >= o /\ k < o + r THEN inbox[k - o + 1] ELSE buffer[k]]
  BY DEF Consume
<1>2. \A k \in Offsets : ~(k >= o /\ k < o + r)
  BY FramingAssumption DEF Offsets
<1>3. msg' = buffer
  BY <1>1, <1>2
<1>4. stream' = "up" => stream = "up"
  BY <1>1
<1>5. Tip' = Tip
  BY <1>1 DEF Tip, MidMessage, Last, Size
<1>6. WireOK'
  BY <1>1, <1>4, <1>5
     DEF WireOK, NextOK, InboxOK, OrderOK, TipOK, SizeOf, Size
<1>7. \A i, k : Comes(i, k) => Comes(i, k)'
  BY <1>1, <1>4, <1>5 DEF Comes
<1> QED
  BY <1>1, <1>3, <1>6, <1>7

\* What has arrived begins with the message that comes.
LEMMA ArrivedInOrder ==
  ASSUME FramingTypeOK, WireOK, NEW i \in Nat, NEW h \in Nat,
         inbox # <<>>, Comes(i, h)
  PROVE  /\ i \in 1..Len(sent) /\ h < Size(sent[i]) /\ Size(sent[i]) \in Nat
         /\ inbox[1] = <<i, h>> /\ SizeOf(inbox[1]) = Size(sent[i])
         /\ \A j \in 1..Len(inbox) :
              Follows(<<i, h>>, inbox[j], j - 1, Size(sent[i]))
         /\ stream = "up" =>
              Follows(<<i, h>>, Tip, Len(inbox), Size(sent[i]))
<1>1. InboxOK /\ OrderOK /\ TipOK
  BY DEF WireOK
<1>2. Len(inbox) \in Nat /\ 1 \in 1..Len(inbox)
  BY <1>1, InboxType
<1>3. inbox[1] = <<i, h>>
  BY DEF Comes
<1>4. SizeOf(inbox[1]) = Size(sent[i])
  BY <1>3 DEF SizeOf
<1>5. /\ i \in 1..Len(sent) /\ h < Size(sent[i]) /\ Size(sent[i]) \in Nat
  BY <1>1, <1>2, <1>3, <1>4, InboxType
<1>6. ASSUME NEW j \in 1..Len(inbox)
      PROVE  Follows(<<i, h>>, inbox[j], j - 1, Size(sent[i]))
  <2>1. 1 <= j
    BY <1>2
  <2> QED
    BY <2>1, <1>1, <1>2, <1>3, <1>4 DEF OrderOK
<1>7. stream = "up" => Follows(<<i, h>>, Tip, Len(inbox), Size(sent[i]))
  <2>1. Len(inbox) + 1 - 1 = Len(inbox)
    BY <1>2
  <2>2. stream = "up" =>
          Follows(<<i, h>>, Tip, Len(inbox) + 1 - 1, Size(sent[i]))
    BY <1>1, <1>2, <1>3, <1>4 DEF TipOK
  <2> QED
    BY <2>1, <2>2
<1> QED
  BY <1>3, <1>4, <1>5, <1>6, <1>7

\* A read of r bytes of the message that comes, stored where they belong.
LEMMA SomethingRead ==
  ASSUME FramingTypeOK, WireOK, NEW i \in Nat, NEW h \in Nat, Comes(i, h),
         NEW r \in Nat, 0 < r, r <= Len(inbox), inbox # <<>>,
         r <= Size(sent[i]) - h, Consume(Prefix(i, h), h, r)
  PROVE  /\ msg' = Prefix(i, h + r) /\ call' = "none"
         /\ i \in 1..Len(sent)
         /\ UNCHANGED <<sent, next, stream>>
         /\ inbox' \in Seq(Bytes)
         /\ WireOK'
         /\ ComesAfter(i, h + r)'
<1> DEFINE S == Size(sent[i])
<1>1. /\ call' = "none" /\ UNCHANGED <<sent, next, stream>>
      /\ inbox' = SubSeq(inbox, r + 1, Len(inbox))
      /\ msg' = [k \in Offsets |->
                   IF k >= h /\ k < h + r THEN inbox[k - h + 1]
                   ELSE Prefix(i, h)[k]]
  BY DEF Consume
<1>2. /\ i \in 1..Len(sent) /\ h < S /\ S \in Nat
      /\ \A j \in 1..Len(inbox) : Follows(<<i, h>>, inbox[j], j - 1, S)
      /\ stream = "up" => Follows(<<i, h>>, Tip, Len(inbox), S)
  BY ArrivedInOrder
<1>3. /\ inbox \in Seq(Bytes) /\ Len(inbox) \in Nat
      /\ inbox' \in Seq(Bytes) /\ Len(inbox') = Len(inbox) - r
      /\ \A j \in 1..Len(inbox) - r : inbox'[j] = inbox[j + r]
  <2>1. inbox \in Seq(Bytes) /\ Len(inbox) \in Nat
    BY DEF FramingTypeOK
  <2> QED
    BY <1>1, <2>1
<1> HIDE DEF S
<1>4. msg' = Prefix(i, h + r)
  <2> SUFFICES ASSUME NEW k \in Offsets
               PROVE  (IF k >= h /\ k < h + r THEN inbox[k - h + 1]
                       ELSE Prefix(i, h)[k])
                        = IF k < h + r THEN <<i, k>> ELSE Zero
    BY <1>1 DEF Prefix
  <2>1. k \in Nat
    BY FramingAssumption DEF Offsets
  <2>2. CASE k >= h /\ k < h + r
    <3>1. PICK j \in 1..Len(inbox) : j = k - h + 1
      BY <2>1, <2>2, <1>2, <1>3
    <3>2. h + (j - 1) = k /\ k < S
      BY <3>1, <2>1, <2>2, <1>2 DEF S
    <3>3. Follows(<<i, h>>, inbox[j], j - 1, S)
      BY <1>2
    <3>4. inbox[j] = <<i, k>>
      BY <3>2, <3>3 DEF Follows
    <3> QED
      BY <2>2, <3>1, <3>4
  <2>3. CASE ~(k >= h /\ k < h + r)
    <3>1. Prefix(i, h)[k] = IF k < h THEN <<i, k>> ELSE Zero
      BY DEF Prefix
    <3>2. k < h <=> k < h + r
      BY <2>1, <2>3
    <3> QED
      BY <2>3, <3>1, <3>2
  <2> QED
    BY <2>2, <2>3
<1>5. Tip' = Tip
  BY <1>1 DEF Tip, MidMessage, Last, Size
<1>6. WireOK'
  <2> InboxOK /\ OrderOK /\ TipOK /\ NextOK
    BY DEF WireOK
  <2>1. \A a : SizeOf(a)' = SizeOf(a)
    BY <1>1 DEF SizeOf, Size
  <2>2. \A j \in 1..Len(inbox') :
          j + r \in 1..Len(inbox) /\ inbox'[j] = inbox[j + r]
    BY <1>3
  <2>3. NextOK'
    BY <1>1 DEF NextOK, Size
  <2>4. InboxOK'
    BY <1>1, <2>1, <2>2 DEF InboxOK
  <2>5. OrderOK'
    <3> SUFFICES ASSUME NEW j \in 1..Len(inbox'), NEW l \in 1..Len(inbox'),
                        j <= l
                 PROVE  Follows(inbox'[j], inbox'[l], l - j, SizeOf(inbox'[j]))
      BY <2>1 DEF OrderOK
    <3>1. /\ j + r \in 1..Len(inbox) /\ l + r \in 1..Len(inbox)
          /\ j + r <= l + r /\ (l + r) - (j + r) = l - j
      BY <2>2, <1>3
    <3>2. Follows(inbox[j + r], inbox[l + r], (l + r) - (j + r),
                  SizeOf(inbox[j + r]))
      BY <3>1 DEF OrderOK
    <3> QED
      BY <2>2, <3>1, <3>2
  <2>6. TipOK'
    <3> SUFFICES ASSUME stream = "up", NEW j \in 1..Len(inbox')
                 PROVE  Follows(inbox'[j], Tip, Len(inbox') + 1 - j,
                                SizeOf(inbox'[j]))
      BY <1>1, <1>5, <2>1 DEF TipOK
    <3>1. /\ j + r \in 1..Len(inbox)
          /\ Len(inbox) + 1 - (j + r) = Len(inbox') + 1 - j
      BY <2>2, <1>3
    <3>2. Follows(inbox[j + r], Tip, Len(inbox) + 1 - (j + r),
                  SizeOf(inbox[j + r]))
      BY <3>1 DEF TipOK
    <3> QED
      BY <2>2, <3>1, <3>2
  <2> QED
    BY <2>3, <2>4, <2>5, <2>6 DEF WireOK
<1>7. ComesAfter(i, h + r)'
  <2>1. ASSUME NEW b, Follows(<<i, h>>, b, r, S)
        PROVE  b = IF h + r < S THEN <<i, h + r>> ELSE <<i + 1, 0>>
    <3>1. h + r <= S
      BY <1>2 DEF S
    <3> QED
      BY <2>1, <3>1, <1>2 DEF Follows
  <2>2. CASE inbox' # <<>>
    <3>1. inbox'[1] = inbox[r + 1] /\ r + 1 \in 1..Len(inbox) /\ r + 1 - 1 = r
      BY <2>2, <1>3
    <3>2. Follows(<<i, h>>, inbox'[1], r, S)
      BY <3>1, <1>2
    <3> QED
      BY <1>1, <2>1, <2>2, <3>2 DEF ComesAfter, Comes, S, Size
  <2>3. CASE inbox' = <<>>
    <3>1. Len(inbox) = r
      BY <2>3, <1>3
    <3>2. stream = "up" => Follows(<<i, h>>, Tip, r, S)
      BY <3>1, <1>2
    <3> QED
      BY <1>1, <1>5, <2>1, <2>3, <3>2 DEF ComesAfter, Comes, S, Size
  <2> QED
    BY <2>2, <2>3
<1> QED
  BY <1>1, <1>2, <1>3, <1>4, <1>6, <1>7

---------------------------------------------------------------------------
(* do_response *)

LEMMA HdrFields ==
  ASSUME FramingTypeOK, NEW i \in 1..Len(sent), NEW h \in Int, h >= 1
  PROVE  /\ HdrLength(Prefix(i, h)) = sent[i].length
         /\ HdrType(Prefix(i, h)) = IF h > 1 THEN sent[i].type ELSE 0
<1>1. 0 \in Offsets /\ 1 \in Offsets
  BY FramingAssumption DEF Offsets
<1>2. Prefix(i, h)[0] = <<i, 0>>
  BY <1>1, FramingAssumption DEF Prefix
<1>3. Prefix(i, h)[1] = IF h > 1 THEN <<i, 1>> ELSE Zero
  BY <1>1, FramingAssumption DEF Prefix
<1>4. i > 0
  BY DEF FramingTypeOK
<1> QED
  BY <1>2, <1>3, <1>4 DEF HdrLength, HdrType, Zero

\* A header that has been read whole.
LEMMA WholeHdr ==
  ASSUME FramingTypeOK, WellFormed, Begun, UNCHANGED <<sent, handled>>,
         msg' = Prefix(Current, HdrSize), ComesAfter(Current, HdrSize)',
         pc' = AfterHdr(msg')
  PROVE  ReaderOK' /\ pc' \in {"handle", "payload"}
<1> DEFINE c == Current
<1>1. /\ c \in 1..Len(sent) /\ Current' = c /\ Begun' /\ sent'[c] = sent[c]
  BY DEF Begun, Clean, Current
<1>2. HdrSize \in 1..HdrSize /\ HdrSize > 1
  BY FramingAssumption
<1>3. HdrType(msg') = sent[c].type
  BY <1>1, <1>2, HdrFields
<1>4. pc' \in {"handle", "payload"}
  BY DEF AfterHdr
<1>5. CASE pc' = "payload"
  <2>1. PayloadOK'
    BY <1>1, <1>2 DEF PayloadOK, Prefix
  <2> QED
    BY <1>4, <1>5, <2>1
       DEF ReaderOK, OverrunOK, BetweenOK, RestHdrOK, RestPayloadOK, HandleOK,
           Between
<1>6. CASE pc' = "handle"
  <2>1. sent[c].type \in NoPayload
    BY <1>3, <1>6 DEF AfterHdr
  <2>2. /\ sent[c].length = 0 /\ sent[c].length <= MaxPayload
        /\ Size(sent[c]) = HdrSize /\ HdrSize \in Nat
    BY <1>1, <2>1, Sizes, FramingAssumption DEF WellFormed
  <2>3. Comes(c + 1, 0)'
    BY <1>1, <2>2 DEF ComesAfter, Size
  <2>4. HandleOK'
    BY <1>1, <2>2, <2>3 DEF HandleOK, Prefix, Size
  <2> QED
    BY <1>6, <2>4
       DEF ReaderOK, OverrunOK, BetweenOK, RestHdrOK, RestPayloadOK, PayloadOK,
           Between
<1> QED
  BY <1>4, <1>5, <1>6

\* What each read step has to show.
LEMMA ReadKeeps ==
  ASSUME FramingInv, UNCHANGED <<sent, next, handled>>, call' = "none",
         inbox' \in Seq(Bytes),
         stream' \in {"up", "closed", "reset", "drained"},
         n' \in Int /\ n' >= -1,
         msg' \in [Offsets -> Bytes \cup {Zero}],
         WireOK', ReaderOK', pc \notin Over,
         \/ descriptor' = descriptor /\ pc' \in Labels
         \/ descriptor' = CloseFd /\ pc' = "ended"
  PROVE  FramingInv'
<1>1. Len(sent) \in Nat
  BY DEF FramingInv, FramingTypeOK
<1>2. /\ descriptor' \in {"open", "closed", "lost"}
      /\ descriptor = "lost" => descriptor' = "lost"
  BY DEF FramingInv, FramingTypeOK, CloseFd, isOpen
<1>3. FramingTypeOK'
  BY <1>2 DEF FramingInv, FramingTypeOK
<1>4. CallOK'
  BY DEF FramingInv, CallOK, Labels, Over
<1>5. SomeSent' /\ GarbledIsLast'
  BY <1>1, <1>2, HistoryStays DEF FramingInv
<1> QED
  BY <1>3, <1>4, <1>5 DEF FramingInv

\* A read that fails or finds the end, between two messages.
LEMMA EndedOK ==
  ASSUME pc' = "ended" PROVE ReaderOK'
BY DEF ReaderOK, OverrunOK, BetweenOK, RestHdrOK, RestPayloadOK, PayloadOK,
       HandleOK, Between

LEMMA ReadHdrKeeps ==
  ASSUME FramingInv, WellFormed, ReadHdr
  PROVE  FramingInv'
<1> USE DEF FramingInv
<1>1. PICK c \in Nat : c = Current
  BY DEF FramingTypeOK, Current
<1>2. PICK r \in -1..HdrSize :
        /\ ReadReturns(HdrSize, r)
        /\ Consume([o \in Offsets |-> Zero], 0, r)
        /\ n' = r
        /\ descriptor' = IF r <= 0 THEN CloseFd ELSE descriptor
        /\ pc' = IF r <= 0 THEN "ended"
                 ELSE IF r = HdrSize THEN AfterHdr(msg') ELSE "resthdr"
  BY DEF ReadHdr
<1>3. /\ pc = "hdr" /\ call # "none" /\ handled' = handled
      /\ pc \notin Over /\ pc \in Between
  BY DEF ReadHdr, Over, Between
<1>4. /\ HdrSize \in Nat /\ HdrSize > 1 /\ r \in Int
      /\ n' \in Int /\ n' >= -1
  BY <1>2, FramingAssumption
<1>5. CASE r <= 0
  <2>1. [o \in Offsets |-> Zero] \in [Offsets -> Bytes \cup {Zero}]
    OBVIOUS
  <2>2. r \in {-1, 0}
    BY <1>2, <1>5
  <2>3. /\ msg' \in [Offsets -> Bytes \cup {Zero}] /\ call' = "none"
        /\ UNCHANGED <<sent, next, inbox>> /\ WireOK'
        /\ stream' \in {"up", "closed", "reset", "drained"}
    BY <1>2, <2>1, <2>2, NothingRead DEF FramingTypeOK
  <2>4. inbox' \in Seq(Bytes) /\ pc' = "ended" /\ descriptor' = CloseFd
    BY <1>2, <1>5, <2>3 DEF FramingTypeOK
  <2> QED
    BY <1>3, <1>4, <2>3, <2>4, EndedOK, ReadKeeps
<1>6. CASE r > 0
  <2>1. r <= Len(inbox) /\ inbox # <<>> /\ call # "bad"
    BY <1>2, <1>4, <1>6, ReadIsBounded
  <2>2. Clean /\ Comes(c, 0)
    BY <1>1, <1>3, <2>1 DEF ReaderOK, BetweenOK, Cut, FramingTypeOK
  <2>3. c \in 1..Len(sent)
    BY <2>1, <2>2, ArrivedInOrder
  <2>4. Begun /\ Size(sent[c]) >= HdrSize /\ Size(sent[c]) \in Nat
    BY <1>1, <2>2, <2>3, Sizes DEF Begun
  <2>5. [o \in Offsets |-> Zero] = Prefix(c, 0)
    BY FramingAssumption DEF Prefix, Offsets
  <2>6. r \in Nat /\ r <= HdrSize /\ r <= Size(sent[c]) - 0 /\ 0 + r = r
    BY <1>2, <1>4, <1>6, <2>4
  <2>7. /\ msg' = Prefix(c, r) /\ call' = "none"
        /\ UNCHANGED <<sent, next, stream>>
        /\ inbox' \in Seq(Bytes) /\ WireOK' /\ ComesAfter(c, r)'
    BY <1>2, <1>6, <2>1, <2>2, <2>5, <2>6, SomethingRead
  <2>8. /\ msg' \in [Offsets -> Bytes \cup {Zero}]
        /\ stream' \in {"up", "closed", "reset", "drained"}
        /\ descriptor' = descriptor
    <3>1. c \in 1..MaxSent
      BY <2>3, FramingAssumption DEF FramingTypeOK
    <3> QED
      BY <1>2, <1>4, <1>6, <2>7, <3>1, PrefixType DEF FramingTypeOK
  <2>9. ReaderOK' /\ pc' \in Labels
    <3>1. CASE r = HdrSize
      <4>1. Current' = c
        BY <1>1, <1>3 DEF Current
      <4> QED
        BY <1>1, <1>2, <1>3, <1>6, <2>4, <2>7, <3>1, <4>1, WholeHdr
           DEF Labels, ReadLabels
    <3>2. CASE r # HdrSize
      <4>1. pc' = "resthdr" /\ r \in 1..HdrSize - 1 /\ n' = r
        BY <1>2, <1>4, <1>6, <2>6, <3>2
      <4>2. Begun' /\ Current' = c
        BY <1>1, <1>3, <2>4, <2>7 DEF Begun, Clean, Current
      <4>3. Comes(c, r)'
        <5>1. Size(sent[c])' = Size(sent[c])
          BY <2>7 DEF Size
        <5>2. r < Size(sent[c])
          BY <1>4, <2>4, <4>1
        <5> QED
          BY <2>7, <5>1, <5>2 DEF ComesAfter
      <4>4. RestHdrOK'
        BY <2>7, <4>1, <4>2, <4>3 DEF RestHdrOK, Prefix
      <4> QED
        BY <4>1, <4>4
           DEF ReaderOK, OverrunOK, BetweenOK, RestPayloadOK, PayloadOK,
               HandleOK, Between, Labels, ReadLabels
    <3> QED
      BY <3>1, <3>2
  <2> QED
    BY <1>3, <1>4, <2>7, <2>8, <2>9, ReadKeeps
<1> QED
  BY <1>4, <1>5, <1>6

LEMMA ReadRestOfHdrKeeps ==
  ASSUME FramingInv, WellFormed, ReadRestOfHdr
  PROVE  FramingInv'
<1> USE DEF FramingInv
<1>1. PICK c \in Nat : c = Current
  BY DEF FramingTypeOK, Current
<1>2. PICK r \in -1..HdrSize :
        /\ ReadReturns(HdrSize - n, r)
        /\ Consume(msg, n, r)
        /\ n' = n + r
  BY DEF ReadRestOfHdr, Missing, RestAt, FramingTypeOK
<1>3. /\ pc = "resthdr" /\ call # "none" /\ handled' = handled
      /\ descriptor' = descriptor /\ pc \notin Over
      /\ pc' = IF n' >= 0 /\ n' < HdrSize THEN "resthdr" ELSE AfterHdr(msg')
  BY DEF ReadRestOfHdr, Over, LessUnsigned
<1>4. HdrSize \in Nat /\ HdrSize > 1 /\ r \in Int
  BY <1>2, FramingAssumption
<1>5. PICK h \in 1..HdrSize - 1 :
        /\ msg = Prefix(c, h) /\ n \in 0..h
        /\ Starved \/ (n = h /\ Comes(c, h))
  BY <1>1, <1>3 DEF ReaderOK, RestHdrOK
<1>6. /\ Begun /\ Clean /\ c \in 1..Len(sent)
      /\ Size(sent[c]) >= HdrSize /\ Size(sent[c]) \in Nat
  BY <1>1, <1>3, Sizes DEF ReaderOK, RestHdrOK, Begun
<1>7. HdrSize - n \in Nat /\ HdrSize - n > 0 /\ n \in Nat /\ h \in Nat
  BY <1>4, <1>5
<1>8. CASE r <= 0
  <2>1. r \in {-1, 0} /\ msg \in [Offsets -> Bytes \cup {Zero}]
    BY <1>2, <1>8 DEF FramingTypeOK
  <2>2. /\ msg' = msg /\ call' = "none"
        /\ UNCHANGED <<sent, next, inbox>> /\ WireOK'
        /\ stream' = IF r < 0 /\ call = "open" THEN "drained" ELSE stream
        /\ Comes(c, h) => Comes(c, h)'
    BY <1>2, <1>7, <2>1, NothingRead
  <2>3. /\ msg' \in [Offsets -> Bytes \cup {Zero}] /\ inbox' \in Seq(Bytes)
        /\ stream' \in {"up", "closed", "reset", "drained"}
    BY <2>1, <2>2 DEF FramingTypeOK
  <2>4. Begun' /\ Current' = c
    BY <1>1, <1>3, <1>6, <2>2 DEF Begun, Clean, Current
  <2>5. CASE n' >= 0
    <3>1. n' \in 0..h /\ pc' = "resthdr"
      <4>1. n' \in Int /\ n' <= n
        BY <1>2, <1>7, <2>1
      <4>2. n' \in 0..h
        BY <4>1, <1>5, <1>7, <2>5
      <4> QED
        BY <4>2, <1>3, <1>4, <1>5
    <3>2. Starved' \/ (n' = h /\ Comes(c, h)')
      <4>1. CASE call = "bad"
        BY <1>3, <2>2, <4>1 DEF CallOK, Starved, Cut
      <4>2. CASE call # "bad" /\ r = 0
        <5>1. ~Cut
          BY <1>3, <4>2 DEF Cut, FramingTypeOK
        <5>2. stream' = stream /\ n' = n
          BY <1>2, <1>7, <2>2, <4>2
        <5> QED
          BY <1>5, <2>2, <5>1, <5>2 DEF Starved
      <4>3. CASE call # "bad" /\ r = -1
        <5>1. inbox = <<>> /\ call = "open"
          BY <1>2, <1>3, <1>4, <1>7, <1>8, <4>3, ReadIsBounded
             DEF FramingTypeOK
        <5> QED
          BY <2>2, <4>3, <5>1 DEF Starved
      <4> QED
        BY <2>1, <4>1, <4>2, <4>3
    <3>3. RestHdrOK'
      BY <1>5, <2>2, <2>4, <3>1, <3>2 DEF RestHdrOK, Prefix
    <3>4. ReaderOK' /\ pc' \in Labels
      BY <3>1, <3>3
         DEF ReaderOK, OverrunOK, BetweenOK, RestPayloadOK, PayloadOK,
             HandleOK, Between, Labels, ReadLabels
    <3>5. n' \in Int /\ n' >= -1
      BY <1>4, <1>7, <3>1, <1>5
    <3> QED
      BY <1>3, <2>2, <2>3, <3>4, <3>5, ReadKeeps
  <2>6. CASE ~(n' >= 0)
    <3>1. n = 0 /\ r = -1 /\ n' = -1
      BY <1>2, <1>7, <2>1, <2>6
    <3>2. call = "bad"
      <4>1. SUFFICES ASSUME call # "bad" PROVE FALSE
        OBVIOUS
      <4>2. inbox = <<>> /\ stream = "reset" /\ call = "open"
        BY <1>2, <1>3, <1>4, <1>7, <3>1, <4>1, ReadIsBounded
           DEF FramingTypeOK
      <4> QED
        BY <1>5, <3>1, <4>2 DEF Starved, Cut
    <3>3. Cut'
      BY <1>3, <2>2, <3>2 DEF CallOK, Cut
    <3>4. pc' \in {"handle", "payload"}
      BY <1>3, <2>6 DEF AfterHdr
    <3>5. \E k \in 1..HdrSize - 1 : msg' = Prefix(c, k)
      BY <1>5, <2>2
    <3>6. HandleOK' /\ PayloadOK'
      BY <1>4, <2>4, <3>3, <3>5 DEF HandleOK, PayloadOK, Prefix
    <3>7. ReaderOK' /\ pc' \in Labels
      BY <3>4, <3>6
         DEF ReaderOK, OverrunOK, BetweenOK, RestHdrOK, RestPayloadOK, Between,
             Labels, ReadLabels
    <3>8. n' \in Int /\ n' >= -1
      BY <1>4, <1>7, <3>1, <1>5
    <3> QED
      BY <1>3, <2>2, <2>3, <3>7, <3>8, ReadKeeps
  <2> QED
    BY <2>5, <2>6
<1>9. CASE r > 0
  <2>1. r <= Len(inbox) /\ inbox # <<>> /\ call # "bad" /\ r <= HdrSize - n
    BY <1>2, <1>4, <1>7, <1>9, ReadIsBounded
  <2>2. n = h /\ Comes(c, h)
    BY <1>3, <1>5, <2>1 DEF Starved, Cut, FramingTypeOK
  <2>3. r \in Nat /\ r <= Size(sent[c]) - h
    BY <1>4, <1>6, <1>7, <1>9, <2>1, <2>2
  <2>4. /\ msg' = Prefix(c, h + r) /\ call' = "none"
        /\ UNCHANGED <<sent, next, stream>>
        /\ inbox' \in Seq(Bytes) /\ WireOK' /\ ComesAfter(c, h + r)'
    BY <1>2, <1>5, <1>7, <1>9, <2>1, <2>2, <2>3, SomethingRead
  <2>5. h + r \in 1..HdrSize /\ n' = h + r
    BY <1>2, <1>4, <1>7, <1>9, <2>1, <2>2, <1>5
  <2>6. n' \in Int /\ n' >= -1
    BY <1>4, <2>5
  <2>7. /\ msg' \in [Offsets -> Bytes \cup {Zero}]
        /\ stream' \in {"up", "closed", "reset", "drained"}
    <3>1. c \in 1..MaxSent
      BY <1>6, FramingAssumption DEF FramingTypeOK
    <3> QED
      BY <2>4, <2>5, <3>1, PrefixType DEF FramingTypeOK
  <2>8. Current' = c /\ Begun'
    BY <1>1, <1>3, <1>6, <2>4 DEF Begun, Clean, Current
  <2>9. ReaderOK' /\ pc' \in Labels
    <3>1. CASE h + r = HdrSize
      <4>1. pc' = AfterHdr(msg')
        BY <1>3, <1>4, <2>5, <3>1
      <4> QED
        BY <1>1, <1>3, <1>6, <2>4, <2>8, <3>1, <4>1, WholeHdr
           DEF Labels, ReadLabels
    <3>2. CASE h + r # HdrSize
      <4>1. pc' = "resthdr" /\ h + r \in 1..HdrSize - 1
        BY <1>3, <1>4, <2>5, <3>2
      <4>2. Comes(c, h + r)'
        <5>1. Size(sent[c])' = Size(sent[c])
          BY <2>4 DEF Size
        <5>2. h + r < Size(sent[c])
          BY <1>4, <1>6, <4>1
        <5> QED
          BY <2>4, <5>1, <5>2 DEF ComesAfter
      <4>3. RestHdrOK'
        BY <2>4, <2>5, <2>8, <4>1, <4>2 DEF RestHdrOK, Prefix
      <4> QED
        BY <4>1, <4>3
           DEF ReaderOK, OverrunOK, BetweenOK, RestPayloadOK, PayloadOK,
               HandleOK, Between, Labels, ReadLabels
    <3> QED
      BY <3>1, <3>2
  <2> QED
    BY <1>3, <2>4, <2>6, <2>7, <2>9, ReadKeeps
<1> QED
  BY <1>4, <1>8, <1>9

\* A message of which all the payload has been read.
LEMMA WholeMessage ==
  ASSUME FramingTypeOK, Begun, UNCHANGED <<sent, handled>>, pc' = "handle",
         sent[Current].length <= MaxPayload,
         msg' = Prefix(Current, Size(sent[Current])),
         ComesAfter(Current, Size(sent[Current]))'
  PROVE  ReaderOK'
<1>1. PICK c \in 1..Len(sent) : c = Current
  BY DEF Begun
<1>2. Begun' /\ Current' = c /\ Size(sent[c])' = Size(sent[c])
      /\ sent'[c].length <= MaxPayload
  BY <1>1 DEF Begun, Clean, Current, Size
<1>3. Size(sent[c]) \in Nat
  BY Sizes
<1>4. Comes(c + 1, 0)'
  BY <1>1, <1>2, <1>3 DEF ComesAfter
<1>5. HandleOK'
  BY <1>1, <1>2, <1>4 DEF HandleOK, Prefix
<1> QED
  BY <1>5
     DEF ReaderOK, OverrunOK, BetweenOK, RestHdrOK, RestPayloadOK, PayloadOK,
         Between

\* A message that struct Msg has no room for.
LEMMA TooLong ==
  ASSUME Begun, UNCHANGED <<sent, handled>>, pc' = "overrun",
         sent[Current].length > MaxPayload
  PROVE  ReaderOK'
<1>1. Begun' /\ sent'[Current'].length > MaxPayload
  BY DEF Begun, Clean, Current
<1> QED
  BY <1>1
     DEF ReaderOK, OverrunOK, BetweenOK, RestHdrOK, RestPayloadOK, PayloadOK,
         HandleOK, Between

\* A payload of which something is missing.
LEMMA MorePayload ==
  ASSUME FramingTypeOK, Begun, UNCHANGED <<sent, handled>>,
         pc' = "restpayload",
         NEW h \in 1..sent[Current].length - 1,
         msg' = Prefix(Current, HdrSize + h), n' \in -1..h,
         Starved' \/ (n' = h /\ ComesAfter(Current, HdrSize + h)')
  PROVE  ReaderOK'
<1>1. PICK c \in 1..Len(sent) : c = Current
  BY DEF Begun
<1>2. Begun' /\ Current' = c /\ sent'[c] = sent[c]
  BY <1>1 DEF Begun, Clean, Current, Size
<1>3. /\ Size(sent[c]) = HdrSize + sent[c].length /\ HdrSize \in Nat
      /\ sent[c].length \in Nat
  BY Sizes, FramingAssumption
<1>4. HdrSize + h < Size(sent[c])
  BY <1>1, <1>3
<1>5. Size(sent[c])' = Size(sent[c])
  BY <1>2 DEF Size
<1>6. ComesAfter(Current, HdrSize + h)' => Comes(c, HdrSize + h)'
  BY <1>1, <1>2, <1>4, <1>5 DEF ComesAfter
<1>7. RestPayloadOK'
  BY <1>1, <1>2, <1>6 DEF RestPayloadOK, Prefix
<1> QED
  BY <1>7
     DEF ReaderOK, OverrunOK, BetweenOK, RestHdrOK, HandleOK, PayloadOK,
         Between

LEMMA ReadPayloadKeeps ==
  ASSUME FramingInv, ReadPayload
  PROVE  FramingInv'
<1> USE DEF FramingInv
<1> DEFINE need == HdrLength(msg)
<1>1. PICK c \in Nat : c = Current
  BY DEF FramingTypeOK, Current
<1>2. PICK r \in -1..need :
        /\ ReadReturns(need, r)
        /\ Consume(msg, HdrSize, r)
        /\ n' = r
        /\ descriptor' = IF r # need /\ r <= 0 THEN CloseFd ELSE descriptor
        /\ pc' = IF r # need /\ r <= 0 THEN "ended"
                 ELSE IF ~(HdrSize + r <= HdrSize + MaxPayload) THEN "overrun"
                 ELSE IF r < need THEN "restpayload" ELSE "handle"
  BY DEF ReadPayload, MoreOfPayload, Fits
<1>3. /\ pc = "payload" /\ call # "none" /\ handled' = handled
      /\ pc \notin Over
  BY DEF ReadPayload, Over
<1>4. PICK h \in 1..HdrSize :
        /\ msg = Prefix(c, h)
        /\ Cut \/ (h = HdrSize /\ ComesAfter(c, h))
  BY <1>1, <1>3 DEF ReaderOK, PayloadOK
<1>5. Begun /\ c \in 1..Len(sent)
  BY <1>1, <1>3 DEF ReaderOK, PayloadOK, Begun
<1>6. /\ need = sent[c].length /\ need \in Nat
      /\ Size(sent[c]) = HdrSize + need
      /\ HdrSize \in Nat /\ MaxPayload \in Nat
  BY <1>4, <1>5, HdrFields, Sizes, FramingAssumption
<1> HIDE DEF need
<1>7. /\ r \in Int /\ -1 <= r /\ n' \in Int /\ n' >= -1
      /\ HdrSize + r <= HdrSize + MaxPayload <=> r <= MaxPayload
  BY <1>2, <1>6
<1>8. CASE r <= 0
  <2>1. r \in {-1, 0} /\ msg \in [Offsets -> Bytes \cup {Zero}]
    BY <1>7, <1>8 DEF FramingTypeOK
  <2>2. /\ msg' = msg /\ call' = "none"
        /\ UNCHANGED <<sent, next, inbox>> /\ WireOK'
        /\ stream' = IF r < 0 /\ call = "open" THEN "drained" ELSE stream
        /\ \A i, k : Comes(i, k) => Comes(i, k)'
    BY <1>2, <1>6, <2>1, NothingRead
  <2>3. /\ msg' \in [Offsets -> Bytes \cup {Zero}] /\ inbox' \in Seq(Bytes)
        /\ stream' \in {"up", "closed", "reset", "drained"}
    BY <2>1, <2>2 DEF FramingTypeOK
  <2>4. CASE r # need
    <3>1. pc' = "ended" /\ descriptor' = CloseFd
      BY <1>2, <1>8, <2>4
    <3> QED
      BY <1>3, <1>7, <2>2, <2>3, <3>1, EndedOK, ReadKeeps
  <2>5. CASE r = need
    <3>1. r = 0 /\ need = 0 /\ pc' = "handle" /\ descriptor' = descriptor
      BY <1>2, <1>6, <1>7, <1>8, <2>5
    <3>2. call # "bad"
      BY <1>2, <3>1, BadReadFails
    <3>3. h = HdrSize /\ ComesAfter(c, HdrSize)
      BY <1>3, <1>4, <3>2 DEF Cut, FramingTypeOK
    <3>4. Size(sent[c]) = HdrSize /\ Size(sent[c])' = Size(sent[c])
      BY <1>6, <2>2, <3>1 DEF Size
    <3>5. ComesAfter(c, HdrSize)'
      BY <2>2, <3>3, <3>4 DEF ComesAfter
    <3>6. Current' = c
      BY <1>1, <1>3 DEF Current
    <3>7. sent[c].length <= MaxPayload
      BY <1>6, <3>1
    <3>8. ReaderOK'
      BY <1>1, <1>3, <1>4, <1>5, <2>2, <3>1, <3>3, <3>4, <3>5, <3>6, <3>7,
         WholeMessage
    <3> QED
      BY <1>3, <1>7, <2>2, <2>3, <3>1, <3>8, ReadKeeps DEF Labels
  <2> QED
    BY <2>4, <2>5
<1>9. CASE r > 0
  <2>1. r <= need
    BY <1>2, <1>6
  <2>2. r <= Len(inbox) /\ inbox # <<>> /\ call # "bad"
    BY <1>2, <1>6, <1>7, <1>9, ReadIsBounded
  <2>3. h = HdrSize /\ ComesAfter(c, HdrSize) /\ msg = Prefix(c, HdrSize)
    BY <1>3, <1>4, <2>2 DEF Cut, FramingTypeOK
  <2>4. Comes(c, HdrSize)
    <3>1. HdrSize < Size(sent[c])
      BY <1>6, <1>7, <1>9, <2>1
    <3> QED
      BY <2>3, <3>1 DEF ComesAfter
  <2>5. r \in Nat /\ r <= Size(sent[c]) - HdrSize
    BY <1>6, <1>7, <1>9, <2>1
  <2>6. /\ msg' = Prefix(c, HdrSize + r) /\ call' = "none"
        /\ UNCHANGED <<sent, next, stream>>
        /\ inbox' \in Seq(Bytes) /\ WireOK' /\ ComesAfter(c, HdrSize + r)'
    BY <1>2, <1>6, <1>9, <2>2, <2>3, <2>4, <2>5, SomethingRead
  <2>7. /\ descriptor' = descriptor
        /\ pc' = IF ~(r <= MaxPayload) THEN "overrun"
                 ELSE IF r < need THEN "restpayload" ELSE "handle"
    BY <1>2, <1>7, <1>9
  <2>8. /\ msg' \in [Offsets -> Bytes \cup {Zero}]
        /\ stream' \in {"up", "closed", "reset", "drained"}
    <3>1. c \in 1..MaxSent
      BY <1>5, FramingAssumption DEF FramingTypeOK
    <3>2. HdrSize + r \in Int
      BY <1>6, <1>7
    <3>3. Prefix(c, HdrSize + r) \in [Offsets -> Bytes \cup {Zero}]
      BY <3>1, <3>2, PrefixType
    <3> QED
      BY <2>6, <3>3 DEF FramingTypeOK
  <2>9. Current' = c /\ Size(sent[c])' = Size(sent[c])
    BY <1>1, <1>3, <2>6 DEF Current, Size
  <2>10. ReaderOK' /\ pc' \in Labels
    <3>3. CASE ~(r <= MaxPayload)
      <4>1. pc' = "overrun" /\ sent[c].length > MaxPayload
        BY <1>6, <1>7, <2>1, <2>7, <3>3
      <4> QED
        BY <1>1, <1>3, <1>5, <2>6, <4>1, TooLong DEF Labels
    <3>1. CASE r <= MaxPayload /\ r < need
      <4>1. r \in 1..sent[c].length - 1 /\ n' \in -1..r /\ n' = r
        BY <1>2, <1>6, <1>7, <1>9, <3>1
      <4>2. pc' = "restpayload"
        BY <2>7, <3>1
      <4>3. ReaderOK'
        BY <1>1, <1>3, <1>5, <2>6, <2>9, <4>1, <4>2, MorePayload
      <4> QED
        BY <4>2, <4>3 DEF Labels, ReadLabels
    <3>2. CASE r <= MaxPayload /\ r = need
      <4>1. /\ pc' = "handle" /\ HdrSize + r = Size(sent[c])
            /\ sent[c].length <= MaxPayload
        BY <1>6, <2>7, <3>2
      <4>2. ReaderOK'
        BY <1>1, <1>3, <1>5, <2>6, <2>9, <4>1, WholeMessage
      <4> QED
        BY <4>1, <4>2 DEF Labels
    <3> QED
      BY <1>6, <1>7, <2>1, <3>1, <3>2, <3>3
  <2> QED
    BY <1>3, <1>7, <2>6, <2>7, <2>8, <2>10, ReadKeeps
<1> QED
  BY <1>7, <1>8, <1>9

LEMMA ReadRestOfPayloadKeeps ==
  ASSUME FramingInv, ReadRestOfPayload
  PROVE  FramingInv'
<1> USE DEF FramingInv
<1> DEFINE need == HdrLength(msg)
<1>1. PICK c \in Nat : c = Current
  BY DEF FramingTypeOK, Current
<1>2. PICK r \in -1..need :
        /\ ReadReturns(need - n, r)
        /\ Consume(msg, HdrSize + n, r)
        /\ n' = Max({n + r, -1})
        /\ pc' = IF ~(HdrSize + n + r <= HdrSize + MaxPayload) THEN "overrun"
                 ELSE IF n' < need THEN "restpayload" ELSE "handle"
  BY DEF ReadRestOfPayload, Missing, RestAt, Fits, MoreOfPayload
<1>3. /\ pc = "restpayload" /\ call # "none" /\ handled' = handled
      /\ pc \notin Over /\ descriptor' = descriptor
  BY DEF ReadRestOfPayload, Over
<1>4. PICK h \in 1..sent[c].length - 1 :
        /\ msg = Prefix(c, HdrSize + h) /\ n \in -1..h
        /\ Starved \/ (n = h /\ Comes(c, HdrSize + h))
  BY <1>1, <1>3 DEF ReaderOK, RestPayloadOK
<1>5. Begun /\ c \in 1..Len(sent)
  BY <1>1, <1>3 DEF ReaderOK, RestPayloadOK, Begun
<1>6. /\ sent[c].length \in Nat
      /\ Size(sent[c]) = HdrSize + sent[c].length
      /\ HdrSize \in Nat /\ MaxPayload \in Nat
  BY <1>5, Sizes, FramingAssumption
<1>7. /\ h \in Nat /\ h >= 1 /\ h <= sent[c].length - 1 /\ n \in Int
      /\ -1 <= n /\ n <= h
  BY <1>4, <1>6
<1>8. need = sent[c].length
  <2>1. HdrSize + h \in Int /\ HdrSize + h >= 1
    BY <1>6, <1>7
  <2> QED
    BY <1>4, <1>5, <2>1, HdrFields
<1>9. need \in Nat
  BY <1>6, <1>8
<1> HIDE DEF need
<1>10. /\ r \in Int /\ -1 <= r /\ n + r \in Int
      /\ n' = IF n + r >= -1 THEN n + r ELSE -1
  <2>1. r \in Int /\ -1 <= r /\ n + r \in Int /\ -1 \in Int
    BY <1>2, <1>7, <1>9
  <2> DEFINE M == Max({n + r, -1})
  <2>2. M \in Int /\ n + r <= M /\ -1 <= M /\ (M = n + r \/ M = -1)
    BY <2>1, MaxOfTwo
  <2> HIDE DEF M
  <2>3. M = IF n + r >= -1 THEN n + r ELSE -1
    BY <2>1, <2>2
  <2> QED
    BY <1>2, <2>1, <2>3 DEF M
<1>11. need - n \in Nat /\ need - n > 0
  BY <1>7, <1>8, <1>9
<1>12. /\ Current' = c
       /\ HdrSize + n + r <= HdrSize + MaxPayload <=> n + r <= MaxPayload
  BY <1>1, <1>3, <1>6, <1>7, <1>10 DEF Current
<1>13. CASE r <= 0
  <2>1. r \in {-1, 0} /\ msg \in [Offsets -> Bytes \cup {Zero}]
    BY <1>10, <1>13 DEF FramingTypeOK
  <2>2. /\ n' \in -1..h /\ n' < need
        /\ (r = 0 => n' = n)
    BY <1>7, <1>8, <1>9, <1>10, <2>1
  <2>3. /\ msg' = msg /\ call' = "none"
        /\ UNCHANGED <<sent, next, inbox>> /\ WireOK'
        /\ stream' = IF r < 0 /\ call = "open" THEN "drained" ELSE stream
        /\ Comes(c, HdrSize + h) => Comes(c, HdrSize + h)'
    <3>1. HdrSize + n \in Nat
      BY <1>6, <1>7, FramingAssumption
    <3> QED
      BY <1>2, <2>1, <3>1, NothingRead
  <2>4. /\ msg' \in [Offsets -> Bytes \cup {Zero}] /\ inbox' \in Seq(Bytes)
        /\ stream' \in {"up", "closed", "reset", "drained"}
    BY <2>1, <2>3 DEF FramingTypeOK
  <2>5. /\ pc' = IF ~(n + r <= MaxPayload) THEN "overrun" ELSE "restpayload"
        /\ n' \in Int /\ n' >= -1
    BY <1>2, <1>7, <1>10, <1>12, <2>2
  <2>6. Starved' \/ (n' = h /\ Comes(c, HdrSize + h)')
    <3>1. CASE call = "bad"
      BY <1>3, <2>3, <3>1 DEF CallOK, Starved, Cut
    <3>2. CASE call # "bad" /\ r = 0
      <4>1. ~Cut
        BY <1>3, <3>2 DEF Cut, FramingTypeOK
      <4>2. stream' = stream
        BY <2>3, <3>2
      <4> QED
        BY <1>4, <2>2, <2>3, <3>2, <4>1, <4>2 DEF Starved
    <3>3. CASE call # "bad" /\ r = -1
      <4>1. inbox = <<>> /\ call = "open"
        BY <1>2, <1>3, <1>10, <1>11, <1>13, <3>3, ReadIsBounded
           DEF FramingTypeOK
      <4> QED
        BY <2>3, <3>3, <4>1 DEF Starved
    <3> QED
      BY <2>1, <3>1, <3>2, <3>3
  <2>7. ReaderOK'
    <3>1. Begun' /\ sent'[c] = sent[c]
      BY <1>3, <1>5, <2>3 DEF Begun, Clean, Current
    <3>2. RestPayloadOK'
      BY <1>4, <1>12, <2>2, <2>3, <2>6, <3>1 DEF RestPayloadOK, Prefix
    <3>3. CASE ~(n + r <= MaxPayload)
      <4>1. sent[c].length > MaxPayload
        BY <1>6, <1>7, <1>8, <1>10, <1>13, <3>3
      <4> QED
        BY <1>1, <1>3, <1>5, <2>3, <2>5, <3>3, <4>1, TooLong
    <3> QED
      BY <2>5, <3>2, <3>3
         DEF ReaderOK, OverrunOK, BetweenOK, RestHdrOK, HandleOK, PayloadOK,
             Between
  <2> QED
    BY <1>3, <2>3, <2>4, <2>5, <2>7, ReadKeeps DEF Labels, ReadLabels
<1>14. CASE r > 0
  <2>1. r <= Len(inbox) /\ inbox # <<>> /\ call # "bad" /\ r <= need - n
    BY <1>2, <1>10, <1>11, <1>14, ReadIsBounded
  <2>2. n = h /\ Comes(c, HdrSize + h)
    BY <1>3, <1>4, <2>1 DEF Starved, Cut, FramingTypeOK
  <2>3. r \in Nat /\ HdrSize + h \in Nat
        /\ r <= Size(sent[c]) - (HdrSize + h)
    <3>1. r \in Nat /\ r <= need - h
      BY ONLY <1>10, <1>14, <2>1, <2>2
    <3> QED
      BY ONLY <1>6, <1>7, <1>8, <3>1
  <2>4. /\ msg' = Prefix(c, HdrSize + h + r) /\ call' = "none"
        /\ UNCHANGED <<sent, next, stream>>
        /\ inbox' \in Seq(Bytes) /\ WireOK' /\ ComesAfter(c, HdrSize + h + r)'
    BY <1>2, <1>4, <1>14, <2>1, <2>2, <2>3, SomethingRead
  <2>5. h + r \in 1..need /\ n' = h + r /\ HdrSize + h + r = HdrSize + (h + r)
    <3>1. r \in Nat /\ r > 0 /\ r <= need - h
      BY <1>10, <1>14, <2>1, <2>2
    <3>2. HdrSize \in Nat /\ h \in Nat /\ h >= 1 /\ need \in Nat
      BY <1>6, <1>7, <1>9
    <3>3. n' = IF h + r >= -1 THEN h + r ELSE -1
      BY <1>10, <2>2
    <3> QED
      BY <3>1, <3>2, <3>3
  <2>6. /\ n' \in Int /\ n' >= -1
        /\ pc' = IF ~(h + r <= MaxPayload) THEN "overrun"
                 ELSE IF h + r < need THEN "restpayload" ELSE "handle"
    BY <1>2, <1>9, <1>12, <2>2, <2>5
  <2>7. /\ msg' \in [Offsets -> Bytes \cup {Zero}]
        /\ stream' \in {"up", "closed", "reset", "drained"}
    <3>1. c \in 1..MaxSent
      BY <1>5, FramingAssumption DEF FramingTypeOK
    <3>2. HdrSize + h + r \in Int
      BY <2>3
    <3>3. Prefix(c, HdrSize + h + r) \in [Offsets -> Bytes \cup {Zero}]
      BY <3>1, <3>2, PrefixType
    <3> QED
      BY <2>4, <3>3 DEF FramingTypeOK
  <2>8. Size(sent[c])' = Size(sent[c])
    BY <2>4 DEF Size
  <2>9. ReaderOK' /\ pc' \in Labels
    <3>3. CASE ~(h + r <= MaxPayload)
      <4>1. pc' = "overrun" /\ sent[c].length > MaxPayload
        BY <1>6, <1>8, <2>5, <2>6, <3>3
      <4> QED
        BY <1>1, <1>3, <1>5, <2>4, <4>1, TooLong DEF Labels
    <3>1. CASE h + r <= MaxPayload /\ h + r < need
      <4>1. h + r \in 1..sent[c].length - 1 /\ n' \in -1..h + r
        BY <1>8, <1>9, <2>5, <3>1
      <4>2. pc' = "restpayload"
        BY <2>6, <3>1
      <4>3. ReaderOK'
        BY <1>1, <1>3, <1>5, <1>12, <2>4, <2>5, <4>1, <4>2, MorePayload
      <4> QED
        BY <4>2, <4>3 DEF Labels, ReadLabels
    <3>2. CASE h + r <= MaxPayload /\ h + r = need
      <4>1. /\ pc' = "handle" /\ HdrSize + h + r = Size(sent[c])
            /\ sent[c].length <= MaxPayload
        BY <1>6, <1>8, <1>9, <2>5, <2>6, <3>2
      <4>2. ReaderOK'
        BY <1>1, <1>3, <1>5, <1>12, <2>4, <2>8, <4>1, WholeMessage
      <4> QED
        BY <4>1, <4>2 DEF Labels
    <3> QED
      BY <1>9, <2>5, <3>1, <3>2, <3>3
  <2> QED
    BY <1>3, <2>4, <2>6, <2>7, <2>9, ReadKeeps
<1> QED
  BY <1>10, <1>13, <1>14

\* What the switch is given: the message, if msg holds all of it.
LEMMA GivenIs ==
  ASSUME FramingTypeOK, NEW c \in 1..Len(sent), NEW h \in 1..Size(sent[c]),
         h < HdrSize \/ h = Size(sent[c]), msg = Prefix(c, h)
  PROVE  Given = IF h = Size(sent[c]) THEN <<c, sent[c]>> ELSE Garbled
<1> DEFINE Holds(i) == \A k \in Offsets :
                         msg[k] = IF k < Size(sent[i]) THEN <<i, k>> ELSE Zero
<1> DEFINE whole == {i \in 1..Len(sent) : Holds(i)}
<1>1. /\ HdrSize \in Nat /\ HdrSize > 1 /\ 0 \in Offsets
      /\ h \in Nat /\ Size(sent[c]) \in Nat
      /\ \A i \in 1..Len(sent) :
           Size(sent[i]) \in Nat /\ Size(sent[i]) >= HdrSize
  BY Sizes, FramingAssumption DEF Offsets
<1>2. Given = IF whole = {} THEN Garbled
              ELSE LET i == Min(whole) IN <<i, sent[i]>>
  BY DEF Given
<1>3. \A k \in Offsets : msg[k] = IF k < h THEN <<c, k>> ELSE Zero
  BY DEF Prefix
<1>4. ASSUME NEW i \in 1..Len(sent), Holds(i) PROVE i = c
  <2>1. 0 < Size(sent[i]) /\ 0 < h
    BY <1>1, <1>4
  <2>2. msg[0] = <<i, 0>>
    BY <1>1, <1>4, <2>1
  <2>3. msg[0] = <<c, 0>>
    BY <1>1, <1>3, <2>1
  <2> QED
    BY <2>2, <2>3
<1>5. CASE h = Size(sent[c])
  <2>1. Holds(c)
    BY <1>3, <1>5
  <2>2. whole = {c}
    BY <1>4, <2>1
  <2> HIDE DEF whole
  <2>3. Min(whole) = c
    BY <2>2 DEF Min
  <2> QED
    BY <1>2, <1>5, <2>2, <2>3
<1>6. CASE h # Size(sent[c])
  <2>1. h < Size(sent[c])
    BY <1>1, <1>6
  <2>2. h \in Offsets
    BY <1>1, <2>1, FramingAssumption DEF Offsets
  <2>3. msg[h] = Zero
    <3>1. ~(h < h)
      BY <1>1
    <3> QED
      BY <1>3, <2>2, <3>1
  <2>4. ~Holds(c)
    <3>1. SUFFICES ASSUME Holds(c) PROVE FALSE
      OBVIOUS
    <3>2. msg[h] = <<c, h>>
      BY <2>1, <2>2, <3>1
    <3>3. c # 0
      OBVIOUS
    <3> QED
      BY <2>3, <3>2, <3>3 DEF Zero
  <2>5. whole = {}
    BY <1>4, <2>4
  <2> HIDE DEF whole
  <2> QED
    BY <1>2, <1>6, <2>5
<1> QED
  BY <1>5, <1>6

\* What is in msg when the switch is reached: the current message, or only a
\* part of its header.
LEMMA SwitchIsGiven ==
  ASSUME FramingInv, pc = "handle", NEW c \in Nat, c = Current
  PROVE  /\ Begun /\ Clean /\ c \in 1..Len(sent)
         /\ \/ /\ Given = <<c, sent[c]>> /\ Comes(c + 1, 0)
               /\ msg = Prefix(c, Size(sent[c]))
               /\ sent[c].length <= MaxPayload
            \/ Given = Garbled /\ Cut
<1> USE DEF FramingInv
<1>1. Begun /\ Clean /\ c \in 1..Len(sent)
  BY DEF ReaderOK, HandleOK, Begun
<1>2. HdrSize \in Nat /\ Size(sent[c]) \in Nat /\ Size(sent[c]) >= HdrSize
      /\ HdrSize > 1
  BY <1>1, Sizes, FramingAssumption
<1>3. CASE /\ msg = Prefix(c, Size(sent[c])) /\ Comes(c + 1, 0)
           /\ sent[c].length <= MaxPayload
  <2>1. Size(sent[c]) \in 1..Size(sent[c])
    BY <1>2
  <2> QED
    BY <1>1, <1>3, <2>1, GivenIs
<1>4. ASSUME Cut, NEW h \in 1..HdrSize - 1, msg = Prefix(c, h)
      PROVE  Given = Garbled
  <2>1. h \in 1..Size(sent[c]) /\ h < HdrSize /\ h # Size(sent[c])
    BY <1>2
  <2> QED
    BY <1>1, <1>4, <2>1, GivenIs
<1> QED
  BY <1>1, <1>3, <1>4 DEF ReaderOK, HandleOK

\* The switch, which comes back to a place between two messages.
LEMMA HandleKeeps ==
  ASSUME FramingInv, pc = "handle", handled' = Append(handled, Given),
         pc' \in Between, UNCHANGED <<wire, descriptor, call, n, msg>>
  PROVE  FramingInv'
<1> USE DEF FramingInv
<1>1. PICK c \in Nat : c = Current /\ c = Len(handled) + 1
  BY DEF FramingTypeOK, Current
<1>2. /\ UNCHANGED <<sent, next, inbox, stream, descriptor, call, n, msg>>
      /\ WireOK' /\ \A i, k : Comes(i, k) => Comes(i, k)'
  BY WireStays DEF wire
<1>3. Begun /\ Clean /\ c \in 1..Len(sent) /\ c \in 1..MaxSent /\ c # 0
  BY <1>1, FramingAssumption DEF ReaderOK, HandleOK, Begun, FramingTypeOK
<1>4. /\ Len(handled) \in Nat /\ Len(handled') = c /\ handled'[c] = Given
      /\ \A i \in 1..Len(handled) : handled'[i] = handled[i]
      /\ 1..c = 1..Len(handled) \cup {c}
  BY <1>1 DEF FramingTypeOK
<1>5. /\ HdrSize \in Nat /\ HdrSize > 1 /\ Size(sent[c]) \in Nat
      /\ Size(sent[c]) >= HdrSize /\ sent[c] \in Traffic
  BY <1>3, Sizes, FramingAssumption
<1>6. \/ Given = <<c, sent[c]>> /\ Comes(c + 1, 0)
      \/ Given = Garbled /\ Cut
  BY <1>1, SwitchIsGiven
<1>7. \A i \in 1..Len(handled) :
        handled[i] = <<i, sent[i]>> /\ handled[i] # Garbled /\ i <= Len(sent)
  BY <1>3 DEF Clean, Garbled
<1>8. <<c, sent[c]>> # Garbled
  BY <1>3 DEF Garbled
<1>9. FramingTypeOK'
  <2>1. Given \in {Garbled} \cup (1..MaxSent) \X Traffic
    BY <1>3, <1>5, <1>6
  <2>2. handled' \in Seq({Garbled} \cup (1..MaxSent) \X Traffic)
    BY <2>1 DEF FramingTypeOK
  <2> QED
    BY <1>2, <2>2 DEF FramingTypeOK
<1>10. CallOK'
  <2>1. call = "none" /\ descriptor # "closed"
    BY DEF CallOK, FramingTypeOK, ReadLabels, Over
  <2> QED
    BY <1>2, <2>1 DEF CallOK, Labels
<1>11. SomeSent' /\ GarbledIsLast'
  <2>1. Cut => descriptor = "lost"
    BY DEF Cut
  <2>2. SomeSent'
    BY <1>2, <1>3, <1>4, <1>6, <1>7 DEF SomeSent
  <2>3. ASSUME NEW i \in 1..c
        PROVE  IF handled'[i] = Garbled THEN descriptor' = "lost" /\ i = c
               ELSE handled'[i] = <<i, sent'[i]>>
    BY <1>2, <1>4, <1>6, <1>7, <1>8, <2>1
  <2> QED
    BY <1>4, <2>2, <2>3 DEF GarbledIsLast
<1>12. ReaderOK'
  <2>1. Current' = c + 1
    BY <1>4 DEF Current
  <2>2. Cut => Cut'
    BY <1>2 DEF Cut
  <2>3. Given = <<c, sent[c]>> => Clean'
    BY <1>2, <1>3, <1>4, <1>7 DEF Clean
  <2>4. BetweenOK'
    BY <1>2, <1>6, <2>1, <2>2, <2>3 DEF BetweenOK
  <2> QED
    BY <2>4
       DEF ReaderOK, OverrunOK, RestHdrOK, PayloadOK, RestPayloadOK, HandleOK,
           Between
<1> QED
  BY <1>2, <1>9, <1>10, <1>11, <1>12

---------------------------------------------------------------------------
(* The channel *)

\* The bytes the peer has sent.
Past == {b \in Bytes : b[1] < Len(sent) \/ (b[1] = Len(sent) /\ b[2] < next)}

BytesSent ==
  /\ \A i \in 1..Len(inbox) : inbox[i] \in Past
  /\ \A k \in Offsets : msg[k] = Zero \/ msg[k] \in Past

\* What read stores has been in the inbox.
LEMMA StoredIsSent ==
  ASSUME FramingTypeOK, BytesSent,
         NEW buffer, \A k \in Offsets : buffer[k] = Zero \/ buffer[k] \in Past,
         NEW count \in Int, NEW o \in Int, NEW r \in Int,
         ReadReturns(count, r), Consume(buffer, o, r)
  PROVE  BytesSent'
<1>1. inbox \in Seq(Bytes) /\ Len(inbox) \in Nat
      /\ (inbox # <<>> <=> Len(inbox) > 0)
  BY DEF FramingTypeOK
<1>2. r > 0 => r <= Len(inbox)
  <2>1. CASE r = Min({count, Len(inbox)})
    <3>1. \E x \in {count, Len(inbox)} : \A y \in {count, Len(inbox)} : x <= y
      BY <1>1
    <3>2. Min({count, Len(inbox)}) <= Len(inbox)
      BY <3>1 DEF Min
    <3> QED
      BY <2>1, <3>2
  <2>2. CASE r <= 0
    BY <2>2
  <2> QED
    BY <2>1, <2>2 DEF ReadReturns
<1>3. /\ inbox' = IF r > 0 THEN SubSeq(inbox, r + 1, Len(inbox)) ELSE inbox
      /\ msg' = [k \in Offsets |->
                   IF k >= o /\ k < o + r THEN inbox[k - o + 1] ELSE buffer[k]]
      /\ UNCHANGED <<sent, next>>
  BY DEF Consume
<1>4. \A b \in Past : b \in Past'
  BY <1>3 DEF Past
<1>5. ASSUME NEW i \in 1..Len(inbox') PROVE inbox'[i] \in Past'
  <2>1. CASE r > 0
    <3>1. Len(inbox') = Len(inbox) - r /\ inbox'[i] = inbox[i + r]
      BY <1>1, <1>2, <1>3, <2>1
    <3>2. i + r \in 1..Len(inbox)
      BY <1>1, <2>1, <3>1
    <3> QED
      BY <1>4, <3>1, <3>2 DEF BytesSent
  <2> QED
    BY <1>3, <1>4, <2>1 DEF BytesSent
<1>6. ASSUME NEW k \in Offsets PROVE msg'[k] = Zero \/ msg'[k] \in Past'
  <2>1. k \in Int
    BY FramingAssumption DEF Offsets
  <2>2. CASE k >= o /\ k < o + r
    <3>1. msg'[k] = inbox[k - o + 1] /\ k - o + 1 \in 1..Len(inbox)
      BY <1>1, <1>2, <1>3, <2>1, <2>2
    <3> QED
      BY <1>4, <3>1 DEF BytesSent
  <2>3. CASE ~(k >= o /\ k < o + r)
    BY <1>3, <1>4, <2>3
  <2> QED
    BY <2>2, <2>3
<1> QED
  BY <1>5, <1>6 DEF BytesSent

LEMMA LengthIsNat ==
  ASSUME FramingTypeOK, BytesSent PROVE HdrLength(msg) \in Nat
<1>1. 0 \in Offsets
  BY FramingAssumption DEF Offsets
<1>2. CASE msg[0] = Zero
  BY <1>2 DEF HdrLength, Zero
<1>3. CASE msg[0] # Zero
  <2>1. msg[0] \in Bytes /\ msg[0] \in Past
    BY <1>1, <1>3 DEF BytesSent, FramingTypeOK
  <2>2. msg[0][1] \in 1..MaxSent /\ Len(sent) \in Nat /\ MaxSent \in Nat
    BY <2>1, FramingAssumption DEF Bytes, FramingTypeOK
  <2>3. msg[0][1] \in 1..Len(sent)
    BY <2>1, <2>2 DEF Past
  <2>4. sent[msg[0][1]].length \in Nat
    BY <2>3, Sizes, FramingAssumption
  <2> QED
    BY <2>4 DEF HdrLength
<1> QED
  BY <1>2, <1>3

LEMMA SentStays ==
  ASSUME FramingInv, BytesSent, [FramingNext]_framingVars
  PROVE  BytesSent'
<1> USE DEF FramingInv
<1>1. /\ Len(sent) \in Nat /\ next \in Nat /\ Len(inbox) \in Nat
      /\ inbox \in Seq(Bytes) /\ n \in Int
      /\ msg \in [Offsets -> Bytes \cup {Zero}]
  BY FramingAssumption DEF FramingTypeOK
<1>2. \A b \in Bytes : b[1] \in Nat /\ b[2] \in Nat
  BY FramingAssumption DEF Bytes, Offsets
<1>3. CASE UNCHANGED <<sent, next, inbox, msg>>
  BY <1>3 DEF BytesSent, Past
<1>4. ASSUME NEW m \in Traffic, StartMessage(m) PROVE BytesSent'
  <2>1. sent' = Append(sent, m) /\ UNCHANGED <<inbox, msg>>
    BY <1>4 DEF StartMessage, reader
  <2>2. Len(sent') = Len(sent) + 1
    BY <2>1 DEF FramingTypeOK
  <2>3. \A b \in Past : b \in Past'
    BY <1>1, <1>2, <2>2 DEF Past
  <2>4. \A i \in 1..Len(inbox) : inbox[i] \in Bytes
    BY <1>1
  <2> QED
    BY <1>1, <2>1, <2>3, <2>4 DEF BytesSent
<1>5. CASE SendByte
  <2>1. /\ inbox' = Append(inbox, <<Len(sent), next>>) /\ next' = next + 1
        /\ UNCHANGED <<sent, msg>>
    BY <1>5 DEF SendByte, reader
  <2>2. \A b \in Past : b \in Past'
    BY <1>1, <1>2, <2>1 DEF Past
  <2>3. <<Len(sent), next>> \in Past'
    <3>1. Len(sent) \in 1..MaxSent /\ next < Size(sent[Len(sent)])
      BY <1>1, <1>5, LastIs, FramingAssumption DEF SendByte, FramingTypeOK
    <3>2. <<Len(sent), next>> \in Bytes
      BY <1>1, <3>1 DEF Bytes
    <3> QED
      BY <1>1, <2>1, <3>2 DEF Past
  <2>4. ASSUME NEW i \in 1..Len(inbox') PROVE inbox'[i] \in Past'
    <3>1. CASE i \in 1..Len(inbox)
      BY <1>1, <2>1, <2>2, <3>1 DEF BytesSent
    <3>2. CASE i = Len(inbox) + 1
      BY <1>1, <2>1, <2>3, <3>2
    <3> QED
      BY <1>1, <2>1, <3>1, <3>2
  <2> QED
    BY <1>1, <2>1, <2>2, <2>4 DEF BytesSent
<1>6. CASE ResetStream
  <2>1. PICK arrived \in 0..Len(inbox) : inbox' = SubSeq(inbox, 1, arrived)
    BY <1>6 DEF ResetStream
  <2>2. UNCHANGED <<sent, next, msg>>
    BY <1>6 DEF ResetStream, reader
  <2>3. Len(inbox') = arrived /\ \A i \in 1..arrived : inbox'[i] = inbox[i]
    BY <1>1, <2>1
  <2>4. \A i \in 1..arrived : i \in 1..Len(inbox)
    BY <1>1
  <2> QED
    BY <2>2, <2>3, <2>4 DEF BytesSent, Past
<1>7. HdrSize \in Int
  BY FramingAssumption
<1>8. CASE ReadHdr
  <2>1. \A k \in Offsets : [o \in Offsets |-> Zero][k] = Zero
    OBVIOUS
  <2> QED
    BY <1>7, <1>8, <2>1, StoredIsSent DEF ReadHdr
<1>9. CASE ReadRestOfHdr
  <2>1. PICK r \in -1..HdrSize :
          ReadReturns(HdrSize - n, r) /\ Consume(msg, 0 + n, r)
    BY <1>9 DEF ReadRestOfHdr, Missing, RestAt
  <2>2. r \in Int /\ HdrSize - n \in Int /\ 0 + n \in Int
    BY <1>1, <1>7
  <2>3. \A k \in Offsets : msg[k] = Zero \/ msg[k] \in Past
    BY DEF BytesSent
  <2> QED
    BY <2>1, <2>2, <2>3, StoredIsSent
<1>10. HdrLength(msg) \in Nat
  BY LengthIsNat
<1>11. CASE ReadPayload
  BY <1>7, <1>10, <1>11, StoredIsSent DEF ReadPayload, BytesSent
<1>12. CASE ReadRestOfPayload
  <2>1. PICK r \in -1..HdrLength(msg) :
          /\ ReadReturns(HdrLength(msg) - n, r)
          /\ Consume(msg, HdrSize + n, r)
    BY <1>12 DEF ReadRestOfPayload, Missing, RestAt
  <2>2. r \in Int /\ HdrLength(msg) - n \in Int /\ HdrSize + n \in Int
    BY <1>1, <1>7, <1>10
  <2>3. \A k \in Offsets : msg[k] = Zero \/ msg[k] \in Past
    BY DEF BytesSent
  <2> QED
    BY <2>1, <2>2, <2>3, StoredIsSent
<1> QED
  BY <1>3, <1>4, <1>5, <1>6, <1>8, <1>9, <1>11, <1>12
  DEF FramingNext, PeerSends, EndStream, CloseElsewhere, ReadStep, EnterRead,
      Handle, framingVars, wire, reader

\* The messages that have been sent whole.
Sent == Len(sent) - (IF MidMessage THEN 1 ELSE 0)

LEMMA CompletedIs ==
  ASSUME FramingTypeOK
  PROVE  /\ Sent \in Nat /\ Sent <= Len(sent) /\ Len(Completed) = Sent
         /\ Completed \in Seq((1..MaxSent) \X Traffic)
         /\ \A i \in 1..Sent : Completed[i] = <<i, sent[i]>>
<1>1. Len(sent) \in Nat /\ Len(sent) <= MaxSent /\ MaxSent \in Nat
      /\ (MidMessage => Len(sent) > 0)
  BY LastIs, FramingAssumption DEF FramingTypeOK
<1>2. Sent \in Nat /\ Sent <= Len(sent)
  BY <1>1 DEF Sent
<1>3. Completed = [i \in 1..Sent |-> <<i, sent[i]>>]
  BY DEF Completed, Sent
<1>4. \A i \in 1..Sent : i \in 1..MaxSent /\ sent[i] \in Traffic
  BY <1>1, <1>2 DEF FramingTypeOK
<1> QED
  BY <1>2, <1>3, <1>4

\* A message that fills msg has been sent whole.
LEMMA WholeIsCompleted ==
  ASSUME FramingTypeOK, BytesSent, NEW c \in 1..Len(sent),
         msg = Prefix(c, Size(sent[c])), sent[c].length <= MaxPayload
  PROVE  c \in 1..Sent
<1> DEFINE k == Size(sent[c]) - 1
<1>1. /\ HdrSize \in Nat /\ HdrSize > 1 /\ MaxPayload \in Nat
      /\ Size(sent[c]) \in Nat /\ Size(sent[c]) >= HdrSize
      /\ Size(sent[c]) <= HdrSize + MaxPayload
  <2>1. /\ Size(sent[c]) = HdrSize + sent[c].length
        /\ sent[c].length \in Nat
    BY Sizes
  <2> QED
    BY <2>1, FramingAssumption
<1>2. k \in Offsets /\ k < Size(sent[c])
  BY <1>1 DEF Offsets
<1>3. msg[k] = <<c, k>>
  BY <1>2 DEF Prefix
<1>4. <<c, k>> \in Past
  BY <1>2, <1>3 DEF BytesSent, Zero
<1>5. c < Len(sent) \/ (c = Len(sent) /\ k < next)
  BY <1>4 DEF Past
<1>6. next \in Int /\ Len(sent) \in Nat
  BY FramingAssumption DEF FramingTypeOK
<1>7. c = Len(sent) => ~MidMessage
  BY <1>1, <1>5, <1>6, LastIs
<1> QED
  BY <1>5, <1>6, <1>7 DEF Sent

\* The message that is completed by the byte sent, if one is.
LEMMA SendIsSend ==
  ASSUME FramingInv, FramingTypeOK', SendByte
  PROVE  \/ UNCHANGED Completed
         \/ \E m \in (1..MaxSent) \X Traffic :
              Completed' = Append(Completed, m)
<1> DEFINE L == Len(sent)
<1>1. FramingTypeOK /\ L \in Nat /\ L <= MaxSent /\ MaxSent \in Nat
      /\ sent' = sent
  BY FramingAssumption DEF FramingInv, FramingTypeOK, SendByte
<1>2. MidMessage /\ L > 0 /\ L - 1 \in Nat /\ Sent = L - 1
  BY <1>1, LastIs DEF SendByte, Sent
<1>3. CASE MidMessage'
  <2>1. Sent' = Sent
    BY <1>1, <1>2, <1>3 DEF Sent
  <2> QED
    BY <1>1, <2>1 DEF Completed, Sent
<1>4. CASE ~MidMessage'
  <2> DEFINE m == <<L, sent[L]>>
  <2>1. Sent' = L
    BY <1>1, <1>4 DEF Sent
  <2>2. m \in (1..MaxSent) \X Traffic
    BY <1>1, <1>2 DEF FramingTypeOK
  <2>3. /\ Completed \in Seq((1..MaxSent) \X Traffic) /\ Len(Completed) = L - 1
        /\ \A i \in 1..L - 1 : Completed[i] = <<i, sent[i]>>
    BY <1>1, <1>2, CompletedIs
  <2>4. Completed' = [i \in 1..L |-> <<i, sent[i]>>]
    BY <1>1, <2>1 DEF Completed, Sent
  <2>5. Append(Completed, m) = [i \in 1..L |-> <<i, sent[i]>>]
    <3> DEFINE A == Append(Completed, m)
    <3>1. A \in Seq((1..MaxSent) \X Traffic) /\ Len(A) = L
      BY <1>2, <2>2, <2>3
    <3>2. \A i \in 1..L : A[i] = <<i, sent[i]>>
      BY <1>2, <2>2, <2>3
    <3>3. A = [i \in 1..L |-> A[i]]
      BY <3>1
    <3> HIDE DEF A
    <3>4. A = [i \in 1..L |-> <<i, sent[i]>>]
      BY <3>2, <3>3
    <3> QED
      BY <3>4 DEF A
  <2> QED
    BY <2>2, <2>4, <2>5
<1> QED
  BY <1>3, <1>4

LEMMA StartIsSilent ==
  ASSUME FramingInv, NEW m \in Traffic, StartMessage(m)
  PROVE  UNCHANGED Completed
<1>1. /\ sent \in Seq(Traffic) /\ Len(sent) \in Nat /\ sent' = Append(sent, m)
      /\ next' = 0 /\ ~MidMessage
  BY DEF StartMessage, FramingInv, FramingTypeOK
<1>2. /\ Len(sent') = Len(sent) + 1 /\ sent' # <<>>
      /\ sent'[Len(sent) + 1] = m
      /\ \A i \in 1..Len(sent) : sent'[i] = sent[i]
  BY <1>1
<1>3. Size(m) > 0
  BY FramingAssumption DEF Size
<1>4. MidMessage'
  BY <1>1, <1>2, <1>3 DEF MidMessage, Last
<1>5. Completed = [i \in 1..Len(sent) |-> <<i, sent[i]>>]
  BY <1>1 DEF Completed
<1>6. Completed' = [i \in 1..Len(sent) |-> <<i, sent'[i]>>]
  BY <1>1, <1>2, <1>4 DEF Completed
<1> QED
  BY <1>2, <1>5, <1>6

\* The switch takes the next message that has been sent whole, or a garbled
\* one, which the channel does not count.
LEMMA HandleIsReceive ==
  ASSUME FramingInv, BytesSent, pc = "handle",
         handled' = Append(handled, Given)
  PROVE  \/ UNCHANGED Intact
         \/ /\ Len(Intact) < Len(Completed)
            /\ Intact' = Append(Intact, Completed[Len(Intact) + 1])
<1>1. PICK c \in Nat : c = Current /\ c = Len(handled) + 1
  BY DEF FramingInv, FramingTypeOK, Current
<1> DEFINE S == {Garbled} \cup (1..MaxSent) \X Traffic
<1>2. handled \in Seq(S) /\ Len(handled) \in Nat /\ pc = "handle"
      /\ handled' = Append(handled, Given) /\ FramingTypeOK
  BY DEF FramingInv, FramingTypeOK
<1>3. /\ Clean /\ c \in 1..Len(sent)
      /\ \/ /\ Given = <<c, sent[c]>> /\ msg = Prefix(c, Size(sent[c]))
            /\ sent[c].length <= MaxPayload
         \/ Given = Garbled
  BY <1>1, <1>2, SwitchIsGiven
<1>4. \A i \in 1..Len(handled) : handled[i] # Garbled
  BY <1>2, <1>3 DEF Clean, Garbled
<1>5. Intact = handled
  BY <1>2, <1>4 DEF Intact, Range
<1>6. CASE Given = Garbled
  <2>1. Garbled \in S
    OBVIOUS
  <2>2. /\ Len(handled') = c /\ handled'[c] = Garbled /\ c \in 1..c
        /\ DOMAIN handled' = 1..c
    BY <1>1, <1>2, <1>6
  <2>3. Garbled \in Range(handled')
    BY <2>2 DEF Range
  <2>4. Front(handled') = handled
    BY <1>1, <1>2, <1>6, <2>1 DEF Front
  <2> QED
    BY <1>5, <2>3, <2>4 DEF Intact
<1>7. CASE /\ Given = <<c, sent[c]>> /\ msg = Prefix(c, Size(sent[c]))
           /\ sent[c].length <= MaxPayload
  <2>1. c \in 1..Sent
    BY <1>2, <1>3, <1>7, WholeIsCompleted
  <2>2. Len(handled) < Len(Completed) /\ Completed[c] = <<c, sent[c]>>
    BY <1>1, <1>2, <2>1, CompletedIs
  <2>3. Given # Garbled
    BY <1>3, <1>7 DEF Garbled
  <2>4. /\ Len(handled') = c /\ handled'[c] = Given
        /\ DOMAIN handled' = 1..c
        /\ \A i \in 1..Len(handled) : handled'[i] = handled[i]
    BY <1>1, <1>2
  <2>5. \A i \in 1..c : handled'[i] # Garbled
    BY <1>1, <1>2, <1>4, <2>3, <2>4
  <2>6. Intact' = handled'
    BY <2>4, <2>5 DEF Intact, Range
  <2> QED
    BY <1>1, <1>2, <1>5, <1>7, <2>2, <2>6
<1> QED
  BY <1>3, <1>6, <1>7

\* What the peer sends, the end of a message sends it on the channel.
LEMMA PeerSendsIsSend ==
  ASSUME FramingInv, FramingTypeOK', PeerSends
  PROVE  Channel!Next \/ UNCHANGED <<Completed, Intact>>
<1>1. UNCHANGED Intact
  BY DEF PeerSends, SendByte, StartMessage, Intact
<1>2. CASE SendByte
  <2>1. \/ UNCHANGED Completed
        \/ \E m \in (1..MaxSent) \X Traffic : Completed' = Append(Completed, m)
    BY <1>2, SendIsSend
  <2> QED
    BY <1>1, <2>1 DEF Channel!Next, Channel!Send
<1>3. ASSUME NEW m \in Traffic, StartMessage(m)
      PROVE  UNCHANGED <<Completed, Intact>>
  BY <1>1, <1>3, StartIsSilent
<1> QED
  BY <1>2, <1>3 DEF PeerSends

LEMMA ReadIsSilent ==
  ASSUME ReadHdr \/ ReadRestOfHdr \/ ReadPayload \/ ReadRestOfPayload
  PROVE  UNCHANGED <<sent, next, handled>>
BY DEF ReadHdr, ReadRestOfHdr, ReadPayload, ReadRestOfPayload, Consume

LEMMA NothingSentYet ==
  ASSUME sent = <<>>, handled = <<>>
  PROVE  Channel!Init
<1>1. Len(sent) = 0 /\ ~MidMessage
  BY DEF MidMessage
<1>2. Completed = <<>>
  BY <1>1 DEF Completed
<1>3. Intact = <<>>
  BY DEF Intact, Range
<1> QED
  BY <1>2, <1>3 DEF Channel!Init

---------------------------------------------------------------------------
(* The theorems *)

\* A step of another thread, or the call of read.
LEMMA OthersKeep ==
  ASSUME FramingInv, FramingTypeOK', WireOK', Others, CallOK', pc' = pc,
         descriptor = "lost" => descriptor' = "lost"
  PROVE  FramingInv'
<1>1. ReaderOK'
  BY ReaderStays DEF FramingInv
<1>2. SomeSent' /\ GarbledIsLast'
  <2>1. Len(sent') \in Nat
    BY DEF FramingTypeOK
  <2> QED
    BY <2>1, HistoryStays DEF FramingInv, Others
<1> QED
  BY <1>1, <1>2 DEF FramingInv

LEMMA PeerKeeps ==
  ASSUME FramingInv, PeerSends \/ EndStream \/ ResetStream
  PROVE  FramingInv'
<1>1. FramingTypeOK' /\ WireOK' /\ Others
  BY SendByteKeeps, StartMessageKeeps, EndStreamKeeps, ResetStreamKeeps
     DEF PeerSends, FramingInv
<1>2. UNCHANGED <<descriptor, pc, call>>
  BY DEF PeerSends, SendByte, StartMessage, EndStream, ResetStream, reader
<1>3. CallOK'
  BY <1>2 DEF FramingInv, CallOK
<1> QED
  BY <1>1, <1>2, <1>3, OthersKeep

LEMMA LostElsewhereInv ==
  ASSUME FramingInv, descriptor' = "lost", UNCHANGED <<wire, reader, handled>>
  PROVE  FramingInv'
<1>1. FramingTypeOK' /\ WireOK' /\ Others
  BY LostElsewhereKeeps DEF FramingInv
<1>2. UNCHANGED <<pc, call>>
  BY DEF reader
<1>3. CallOK'
  BY <1>2 DEF FramingInv, CallOK
<1> QED
  BY <1>1, <1>2, <1>3, OthersKeep

LEMMA ReadStepInv ==
  ASSUME FramingInv, WellFormed, ReadStep
  PROVE  FramingInv'
<1>1. CASE EnterRead
  <2>1. descriptor' = descriptor
    BY <1>1 DEF EnterRead
  <2> QED
    BY <1>1, <2>1, EnterReadKeeps, OthersKeep DEF FramingInv
<1> QED
  BY <1>1, ReadHdrKeeps, ReadRestOfHdrKeeps, ReadPayloadKeeps,
     ReadRestOfPayloadKeeps DEF ReadStep

LEMMA StutterInv ==
  ASSUME FramingInv, UNCHANGED framingVars
  PROVE  FramingInv'
<1>1. /\ UNCHANGED <<wire, descriptor, pc, call, n, msg, handled>>
      /\ UNCHANGED <<sent, next, inbox, stream>>
  BY DEF framingVars, wire, reader
<1>2. FramingTypeOK'
  BY <1>1 DEF FramingInv, FramingTypeOK
<1>3. WireOK' /\ Others
  BY <1>1, WireStays DEF FramingInv, Others, Cut, Starved, FramingTypeOK
<1>4. CallOK'
  BY <1>1 DEF FramingInv, CallOK
<1> QED
  BY <1>1, <1>2, <1>3, <1>4, OthersKeep

LEMMA FramingInitInv ==
  ASSUME sent = <<>>, next = 0, inbox = <<>>, stream = "up",
         descriptor = "open", pc \in Between, call = "none", n = 0,
         msg = [o \in Offsets |-> Zero], handled = <<>>
  PROVE  FramingInv
<1>1. FramingTypeOK
  BY FramingAssumption DEF FramingTypeOK
<1>2. WireOK
  BY DEF WireOK, NextOK, InboxOK, OrderOK, TipOK
<1>3. CallOK
  BY DEF CallOK, Labels, Between, Over, ReadLabels
<1>4. ReaderOK
  <2>1. Tip = <<1, 0>> /\ Current = 1
    BY DEF Tip, MidMessage, Current
  <2>2. Clean /\ Comes(1, 0)
    BY <2>1 DEF Clean, Comes
  <2> QED
    BY <2>1, <2>2
       DEF ReaderOK, OverrunOK, BetweenOK, RestHdrOK, PayloadOK, RestPayloadOK,
           HandleOK, Between
<1> QED
  BY <1>1, <1>2, <1>3, <1>4 DEF FramingInv, SomeSent, GarbledIsLast

LEMMA FramingInvHolds ==
  ASSUME WellFormed PROVE FramingSpec => []FramingInv
<1>1. FramingInit => FramingInv
  BY FramingInitInv DEF FramingInit, Between
<1>2. FramingInv /\ [FramingNext]_framingVars => FramingInv'
  <2> SUFFICES ASSUME FramingInv, [FramingNext]_framingVars
               PROVE  FramingInv'
    OBVIOUS
  <2>1. CASE PeerSends \/ EndStream \/ ResetStream
    BY <2>1, PeerKeeps
  <2>2. CASE CloseElsewhere
    BY <2>2, LostElsewhereInv DEF CloseElsewhere
  <2>3. CASE ReadStep
    BY <2>3, ReadStepInv
  <2>4. CASE Handle
    BY <2>4, HandleKeeps DEF Handle, Between
  <2>5. CASE UNCHANGED framingVars
    BY <2>5, StutterInv
  <2> QED
    BY <2>1, <2>2, <2>3, <2>4, <2>5 DEF FramingNext
<1> QED
  BY <1>1, <1>2, PTL DEF FramingSpec

\* do_response keeps the types of its variables, for any sizes of header and
\* payload and any messages.
THEOREM FramingType ==
  ASSUME WellFormed PROVE FramingSpec => []FramingTypeOK
<1>1. FramingInv => FramingTypeOK
  BY DEF FramingInv
<1> QED
  BY <1>1, FramingInvHolds, PTL

\* Only a message that is longer than struct Msg has room for is stored past
\* its end: however a message that fits is cut into reads, and even if it is
\* followed by one that does not fit, do_response stays in the bounds of msg.
THEOREM ReadsFit ==
  ASSUME WellFormed PROVE FramingSpec => []FitsInMsg
<1>1. FramingInv => FitsInMsg
  BY DEF FramingInv, ReaderOK, OverrunOK, Begun, Current, FitsInMsg
<1> QED
  BY <1>1, FramingInvHolds, PTL

\* However the stream is cut into reads, wherever it ends and whenever another
\* thread closes the descriptor, do_response hands its switch the messages that
\* were sent, whole and in order; only the last may be garbled, and only when
\* another thread has closed the descriptor.
THEOREM HandedOver ==
  ASSUME WellFormed PROVE FramingSpec => []GarbledIsLast
<1>1. FramingInv => GarbledIsLast
  BY DEF FramingInv
<1> QED
  BY <1>1, FramingInvHolds, PTL

\* do_response implements MessageChannel: what it hands to its switch, but for
\* a garbled message at the end, are the messages that have been sent whole, in
\* order, each once, and none before its last byte has been sent.
THEOREM ChannelImplemented ==
  ASSUME WellFormed PROVE FramingSpec => ChannelSpec
<1>1. FramingInit => BytesSent
  BY DEF FramingInit, BytesSent
<1>2. FramingInit => Channel!Init
  BY NothingSentYet DEF FramingInit
<1>3. FramingInv /\ BytesSent /\ [FramingNext]_framingVars => BytesSent'
  BY SentStays
<1>4. FramingInv /\ FramingInv' /\ BytesSent /\ [FramingNext]_framingVars
        => [Channel!Next]_<<Completed, Intact>>
  <2> SUFFICES ASSUME FramingInv, FramingInv', BytesSent,
                      [FramingNext]_framingVars
               PROVE  Channel!Next \/ UNCHANGED <<Completed, Intact>>
    OBVIOUS
  <2>1. UNCHANGED <<sent, next>> => UNCHANGED Completed
    BY DEF Completed, MidMessage
  <2>2. UNCHANGED handled => UNCHANGED Intact
    BY DEF Intact
  <2>3. CASE PeerSends
    BY <2>3, PeerSendsIsSend DEF FramingInv
  <2>4. CASE Handle
    <3>1. UNCHANGED Completed
      BY <2>1, <2>4 DEF Handle, wire
    <3> QED
      BY <2>4, <3>1, HandleIsReceive DEF Handle, Channel!Next, Channel!Receive
  <2>5. CASE EndStream \/ ResetStream \/ CloseElsewhere \/ EnterRead
               \/ UNCHANGED framingVars
    BY <2>1, <2>2, <2>5
    DEF EndStream, ResetStream, CloseElsewhere, EnterRead, framingVars, wire
  <2>6. CASE ReadHdr \/ ReadRestOfHdr \/ ReadPayload \/ ReadRestOfPayload
    BY <2>1, <2>2, <2>6, ReadIsSilent
  <2> QED
    BY <2>3, <2>4, <2>5, <2>6 DEF FramingNext, ReadStep
<1> QED
  BY <1>1, <1>2, <1>3, <1>4, FramingInvHolds, PTL
  DEF FramingSpec, ChannelSpec, Channel!Spec

=============================================================================
