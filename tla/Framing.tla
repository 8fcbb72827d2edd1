------------------------------ MODULE Framing ------------------------------
(***************************************************************************)
(* How a message is cut out of the byte stream: do_response of the server, *)
(* called for one connection again and again.  recv_server of the client   *)
(* reads in the same way (AndroidClient uses the steps of this module).    *)
(*                                                                         *)
(* A byte on the wire is <<i, k>>, byte k of the i-th message.  A message  *)
(* is a header of HdrSize bytes and then its payload; read returns what    *)
(* has arrived, which may end anywhere.                                    *)
(*                                                                         *)
(* The length in a header is the peer's, and nothing compares it with the  *)
(* room in struct Msg.  A read that stores past the end of msg leads to    *)
(* "overrun": what the program does then depends on what the build puts    *)
(* behind msg, and the model of the reader ends.                           *)
(***************************************************************************)
EXTENDS Integers, SequencesExt

CONSTANTS
  HdrSize,         \* sizeof(struct Msg_Hdr)
  MaxPayload,      \* MAX_IPV4_PAYLOAD, the room for a payload in struct Msg
  Traffic,         \* the messages the peer sends: records of type and length
  MaxSent,         \* bound: messages on one connection
  CutShort,        \* TRUE: what arrives may end inside a message
  ClosedElsewhere  \* TRUE: the keep-alive thread may close the descriptor

ASSUME FramingAssumption ==
  /\ HdrSize \in Nat /\ HdrSize >= 2
  /\ MaxPayload \in Nat
  /\ Traffic \subseteq [type : Nat, length : Nat]
  /\ MaxSent \in Nat
  /\ CutShort \in BOOLEAN /\ ClosedElsewhere \in BOOLEAN

VARIABLES
  sent,        \* the messages the peer has begun to send
  next,        \* the byte of the last of them that it sends next
  inbox,       \* the bytes that have arrived and have not been read
  stream,      \* "up", "closed" (FIN), "reset" (RST), "drained" (RST reported)
  descriptor,  \* "open", "closed" by the reader, "lost": by another thread
  pc,          \* where do_response stands
  call,        \* the read in progress: "none"; its descriptor: "open", "bad"
  n,           \* its variable n: the bytes of the header or payload in msg
  msg,         \* struct Msg: the bytes read, Zero where there are none
  handled      \* history: what the switch has been given

wire == <<sent, next, inbox, stream>>
reader == <<pc, call, n, msg>>
framingVars == <<wire, descriptor, reader, handled>>

isOpen == descriptor = "open"

\* Types 100 and 104 have no payload; what their length says is not looked at.
NoPayload == {100, 104}

Size(m) == HdrSize + m.length
Offsets == 0..HdrSize + MaxPayload - 1

Zero == <<0, 0>>            \* a byte of memset
Bytes == (1..MaxSent) \X Nat
Garbled == <<0, [type |-> 0, length |-> 0]>>

FramingTypeOK ==
  /\ sent \in Seq(Traffic) /\ Len(sent) <= MaxSent
  /\ next \in Nat
  /\ inbox \in Seq(Bytes)
  /\ stream \in {"up", "closed", "reset", "drained"}
  /\ descriptor \in {"open", "closed", "lost"}
  /\ call \in {"none", "open", "bad"}
  /\ n \in Int /\ n >= -1
  /\ msg \in [Offsets -> Bytes \cup {Zero}]
  /\ handled \in Seq({Garbled} \cup (1..MaxSent) \X Traffic)

FramingInit ==
  /\ sent = <<>>
  /\ next = 0
  /\ inbox = <<>>
  /\ stream = "up"
  /\ descriptor = "open"
  /\ pc = "hdr"
  /\ call = "none"
  /\ n = 0
  /\ msg = [o \in Offsets |-> Zero]
  /\ handled = <<>>

---------------------------------------------------------------------------
(* The peer *)

MidMessage == sent # <<>> /\ next < Size(Last(sent))

StartMessage(m) ==
  /\ stream = "up"
  /\ ~MidMessage
  /\ Len(sent) < MaxSent
  /\ sent' = Append(sent, m)
  /\ next' = 0
  /\ UNCHANGED <<inbox, stream, descriptor, reader, handled>>

SendByte ==
  /\ stream = "up"
  /\ MidMessage
  /\ inbox' = Append(inbox, <<Len(sent), next>>)
  /\ next' = next + 1
  /\ UNCHANGED <<sent, stream, descriptor, reader, handled>>

EndStream ==
  /\ stream = "up"
  /\ MidMessage => CutShort
  /\ stream' = "closed"
  /\ UNCHANGED <<sent, next, inbox, descriptor, reader, handled>>

\* What has arrived before the RST can still be read, the rest is lost.
ResetStream ==
  /\ stream \in {"up", "closed"}
  /\ MidMessage => CutShort
  /\ stream' = "reset"
  /\ \E arrived \in 0..Len(inbox) :
       /\ arrived < Len(inbox) => CutShort
       /\ inbox' = SubSeq(inbox, 1, arrived)
  /\ UNCHANGED <<sent, next, descriptor, reader, handled>>

\* keep_alive_thread closes the descriptor while do_response works on it.
CloseElsewhere ==
  /\ ClosedElsewhere
  /\ isOpen
  /\ descriptor' = "lost"
  /\ UNCHANGED <<wire, reader, handled>>

---------------------------------------------------------------------------
(* read *)

\* The call of read looks at the descriptor once: a read that is blocked when
\* the descriptor is closed goes on waiting for the connection.
EnterRead ==
  /\ pc \in {"hdr", "resthdr", "payload", "restpayload"}
  /\ call = "none"
  /\ call' = IF isOpen THEN "open" ELSE "bad"
  /\ UNCHANGED <<wire, descriptor, pc, n, msg, handled>>

\* r is what read(fd, p, count) returns: what there is, at most count; 0 at the
\* end of the stream; -1 on a closed descriptor, and once after a reset.
ReadReturns(count, r) ==
  IF call = "bad" THEN r = -1
  ELSE IF count = 0 THEN r = 0
  ELSE IF inbox # <<>> THEN r = Min({count, Len(inbox)})
  ELSE \/ stream = "reset" /\ r = -1
       \/ stream \in {"closed", "drained"} /\ r = 0

\* What read leaves behind when it stores r bytes at offset o of "buffer".
Consume(buffer, o, r) ==
  /\ call' = "none"
  /\ inbox' = IF r > 0 THEN SubSeq(inbox, r + 1, Len(inbox)) ELSE inbox
  /\ stream' = IF r < 0 /\ call = "open" THEN "drained" ELSE stream
  /\ msg' = [k \in Offsets |->
               IF k >= o /\ k < o + r THEN inbox[k - o + 1] ELSE buffer[k]]
  /\ UNCHANGED <<sent, next>>

\* The fields of the header in a buffer: byte 0 stands for the length, byte 1
\* for the type.  A byte that is not the one of some header reads as 0.
HdrLength(b) == IF b[0][1] > 0 /\ b[0][2] = 0 THEN sent[b[0][1]].length ELSE 0
HdrType(b) == IF b[1][1] > 0 /\ b[1][2] = 1 THEN sent[b[1][1]].type ELSE 0

\* ssize_t compared with size_t: the comparison is unsigned.
LessUnsigned(a, b) == a >= 0 /\ a < b

---------------------------------------------------------------------------
(* do_response *)

\* Close, which fails when another thread has closed the descriptor.
CloseFd == IF isOpen THEN "closed" ELSE descriptor

AfterHdr(b) == IF HdrType(b) \in NoPayload THEN "handle" ELSE "payload"

\* Where the rest of a header or a payload is stored, how much of it is asked
\* for, and whether the loop goes on.  Faulty variants: it is stored at the
\* beginning; all is asked for again; the loop goes on when nothing is missing.
RestAtStart(start, have) == start
RestAt(start, have) == start + have
MissingAll(need, have) == need
Missing(need, have) == need - have
MoreOfPayloadInclusive(have, need) == have <= need
MoreOfPayload(have, need) == have < need

\* msg has room for r bytes at offset o.
Fits(o, r) == o + r <= HdrSize + MaxPayload

ReadHdr ==
  /\ pc = "hdr" /\ call # "none"
  /\ \E r \in -1..HdrSize :
       /\ ReadReturns(HdrSize, r)
       /\ Consume([o \in Offsets |-> Zero], 0, r)
       /\ n' = r
       /\ descriptor' = IF r <= 0 THEN CloseFd ELSE descriptor
       /\ pc' = IF r <= 0 THEN "ended"
                ELSE IF r = HdrSize THEN AfterHdr(msg') ELSE "resthdr"
  /\ UNCHANGED handled

ReadRestOfHdr ==
  /\ pc = "resthdr" /\ call # "none"
  /\ \E r \in -1..HdrSize :
       /\ ReadReturns(Missing(HdrSize, n), r)
       /\ Consume(msg, RestAt(0, n), r)
       /\ n' = n + r
  /\ pc' = IF LessUnsigned(n', HdrSize) THEN "resthdr" ELSE AfterHdr(msg')
  /\ UNCHANGED <<descriptor, handled>>

\* The end of the stream is noticed when nothing of the payload has arrived.
ReadPayload ==
  LET need == HdrLength(msg) IN
  /\ pc = "payload" /\ call # "none"
  /\ \E r \in -1..need :
       /\ ReadReturns(need, r)
       /\ Consume(msg, HdrSize, r)
       /\ n' = r
       /\ LET fails == r # need /\ r <= 0 IN
          /\ descriptor' = IF fails THEN CloseFd ELSE descriptor
          /\ pc' = IF fails THEN "ended"
                   ELSE IF ~Fits(HdrSize, r) THEN "overrun"
                   ELSE IF MoreOfPayload(r, need) THEN "restpayload"
                   ELSE "handle"
  /\ UNCHANGED handled

\* Bound: n does not fall below -1, from where nothing changes any more.
ReadRestOfPayload ==
  LET need == HdrLength(msg) IN
  /\ pc = "restpayload" /\ call # "none"
  /\ \E r \in -1..need :
       /\ ReadReturns(Missing(need, n), r)
       /\ Consume(msg, RestAt(HdrSize, n), r)
       /\ n' = Max({n + r, -1})
       /\ pc' = IF ~Fits(RestAt(HdrSize, n), r) THEN "overrun"
                ELSE IF MoreOfPayload(n', need) THEN "restpayload"
                ELSE "handle"
  /\ UNCHANGED <<descriptor, handled>>

\* What the switch is given: message i if msg holds exactly its bytes.
Given ==
  LET whole == {i \in 1..Len(sent) :
                  \A k \in Offsets :
                    msg[k] = IF k < Size(sent[i]) THEN <<i, k>> ELSE Zero}
  IN IF whole = {} THEN Garbled
     ELSE LET i == Min(whole) IN <<i, sent[i]>>

\* The switch.  What the handlers do with the message is in ServerLoop; the
\* result is 0 for every type, and do_response is called again.
Handle ==
  /\ pc = "handle"
  /\ handled' = Append(handled, Given)
  /\ pc' = "hdr"
  /\ UNCHANGED <<wire, descriptor, call, n, msg>>

ReadStep ==
  \/ EnterRead
  \/ ReadHdr
  \/ ReadRestOfHdr
  \/ ReadPayload
  \/ ReadRestOfPayload

PeerSends == SendByte \/ \E m \in Traffic : StartMessage(m)

FramingNext ==
  \/ PeerSends
  \/ EndStream
  \/ ResetStream
  \/ CloseElsewhere
  \/ ReadStep
  \/ Handle

FramingSpec == FramingInit /\ [][FramingNext]_framingVars

\* The kernel schedules the thread that reads.
FairFramingSpec == FramingSpec /\ WF_framingVars(ReadStep \/ Handle)

---------------------------------------------------------------------------
(* Properties *)

\* The messages whose last byte has been sent.
Completed == [i \in 1..Len(sent) - (IF MidMessage THEN 1 ELSE 0) |->
                <<i, sent[i]>>]

\* The messages handled, but for a garbled one at the end.
Intact == IF Garbled \in Range(handled) THEN Front(handled) ELSE handled

\* However the stream is cut into reads, and wherever it ends, do_response
\* handles whole messages in the order in which they were sent, each once; but
\* for what GarbledIsLast says, when another thread closes the descriptor.
Channel == INSTANCE MessageChannel WITH
             Messages <- (1..MaxSent) \X Traffic,
             sent <- Completed,
             received <- Intact
ChannelSpec == Channel!Spec

\* Only a message that is longer than struct Msg has room for is stored past its
\* end, and only while it is the next to be handled: however a message that
\* fits is cut into reads, what is asked for and where it is stored add up to
\* its own bytes, and never reach for those of the message behind it.
FitsInMsg ==
  pc = "overrun" =>
    \E i \in 1..Len(sent) :
      i = Len(handled) + 1 /\ sent[i].length > MaxPayload

\* A message that has been sent is handled in the end, even if the peer closes
\* the connection after it; only a reset, another thread that closes the
\* descriptor, or a message too long for struct Msg, takes it back.
SentIsHandled ==
  \A i \in 1..MaxSent :
    (Len(Completed) >= i) ~>
      \/ Len(handled) >= i
      \/ stream \in {"reset", "drained"}
      \/ descriptor = "lost"
      \/ pc = "overrun"

\* When another thread closes the descriptor inside a message, a header of
\* which the last bytes are missing may be taken for whole (the count turns
\* negative, and -1 is not below the unsigned size): this happens once at
\* most, with the last message, and every message before it was whole.
GarbledIsLast ==
  \A i \in 1..Len(handled) :
    IF handled[i] = Garbled THEN descriptor = "lost" /\ i = Len(handled)
    ELSE handled[i] = <<i, sent[i]>>

\* "close sockfd": do_response closes the descriptor at the end of the stream.
EndIsClosed == stream = "closed" ~> ~isOpen

=============================================================================
