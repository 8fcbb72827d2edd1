--------------------------- MODULE AndroidClient ---------------------------
(***************************************************************************)
(* The native part of the Android client: do_android_client, the thread    *)
(* that asks for an address and then receives from the server, and         *)
(* client_keep_alive_thread, which it starts once it has the address.      *)
(*                                                                         *)
(* The byte stream and recv_server's reads are those of Framing: the peer  *)
(* is the server, and the stream is up from connect on.  The client has    *)
(* one descriptor, 1.  Its methods of User_Info hold the record's mutex    *)
(* for one step each; the write of a keep-alive under it does not block,   *)
(* for 8 bytes every MaxCounter seconds do not fill a send buffer.         *)
(***************************************************************************)
EXTENDS Framing, UserInfo, TrafficRecord

VARIABLES
  info,    \* the client's User_Info
  flag,    \* 1 while the tunnel is established
  keeper   \* where client_keep_alive_thread stands; "none" before it starts

client == <<info, flag, keeper>>
clientVars == <<framingVars, client, trafficVars>>

\* What Framing describes, but for the place in the code.
reading == <<wire, descriptor, call, n, msg, handled>>

Fd == 1

ClientTypeOK ==
  /\ FramingTypeOK
  /\ pc \in {"start", "call", "hdr", "resthdr", "payload", "restpayload",
             "handle", "tun", "check", "ended", "over", "killed", "overrun"}
  /\ info \in UserInfoType({Fd})
  /\ flag \in {0, 1}
  /\ TrafficTypeOK
  /\ keeper \in {"none", "loop", "state", "dec", "need", "send", "reset",
                 "timeout", "free", "unflag", "close", "done", "killed"}

\* init_my_info; flag is a static, and 0.
ClientInit ==
  /\ sent = <<>> /\ next = 0 /\ inbox = <<>> /\ stream = "up"
  /\ descriptor = "open"
  /\ pc = "start" /\ call = "none" /\ n = 0
  /\ msg = [o \in Offsets |-> Zero]
  /\ handled = <<>>
  /\ info = NewUserInfo
  /\ flag = 0
  /\ keeper = "none"
  /\ TrafficInit

---------------------------------------------------------------------------
(* The server *)

\* reply_ipv4_request answers the client's one request with at most one address.
\* A packet or a keep-alive may come before it: the keep-alive thread may be
\* about to write to the record that the request is given, and a lease that was
\* left behind under the number of the descriptor brings its packets.
ServerSends ==
  \/ SendByte
  \/ \E m \in Traffic :
       /\ pc # "start"
       /\ m.type = 101 => \A i \in 1..Len(sent) : sent[i].type # 101
       /\ StartMessage(m)

Server ==
  /\ \/ ServerSends
     \/ pc # "start" /\ EndStream
     \/ pc # "start" /\ ResetStream
  /\ UNCHANGED <<client, trafficVars>>

---------------------------------------------------------------------------
(* do_android_client *)

\* connect_server and request_ipv4.
Start ==
  /\ pc = "start"
  /\ info' = [info EXCEPT !.fd = Fd]
  /\ pc' = "call"
  /\ UNCHANGED <<reading, flag, keeper, trafficVars>>

\* A connect that fails goes unnoticed until the request is written.  Nothing
\* handles SIGPIPE: it kills the process.
StartFails ==
  /\ pc = "start"
  /\ pc' = "killed"
  /\ keeper' = "killed"
  /\ UNCHANGED <<reading, info, flag, trafficVars>>

\* recv_server: fd = info->fd.
TakeFd ==
  /\ pc = "call"
  /\ pc' = IF info.fd = NoFd THEN "ended" ELSE "hdr"
  /\ UNCHANGED <<reading, client, trafficVars>>

RecvServer == ReadStep /\ UNCHANGED <<client, trafficVars>>

\* The switch of recv_server hands a message of this type to its handler.  Its
\* default is not reached: the server sends no other type, and a header whose
\* type has not arrived counts as having a payload, for which read then fails.
Receives(type, next_pc) ==
  /\ pc = "handle"
  /\ HdrType(msg) = type
  /\ handled' = Append(handled, Given)
  /\ pc' = next_pc
  /\ UNCHANGED <<wire, descriptor, call, n, msg>>

\* recv_ipv4_addr, up to the wait for the descriptor of the tunnel ...
RecvIpv4Addr ==
  /\ Receives(101, "tun")
  /\ info' = SetUserInfo(info.fd)
  /\ UNCHANGED <<flag, keeper, trafficVars>>

\* ... and from the answer of the Java side on.
EstablishTun ==
  /\ pc = "tun"
  /\ flag' = 1
  /\ keeper' = "loop"
  /\ pc' = "check"
  /\ UNCHANGED <<reading, info, trafficVars>>

\* recv_ipv4_packet: write_tun writes whatever flag says.
RecvIpv4Packet ==
  /\ Receives(103, "check")
  /\ CountPacket(HdrLength(msg))
  /\ UNCHANGED client

DoKeepAlive ==
  /\ Receives(104, "check")
  /\ info' = SetLatestTime(info)
  /\ UNCHANGED <<flag, keeper, trafficVars>>

\* if(recv_server() < 0 || flag == 0)
LoopCheck ==
  /\ \/ pc = "check" /\ flag = 0
     \/ pc = "ended"
  /\ flag' = 0
  /\ pc' = "over"
  /\ UNCHANGED <<reading, info, keeper, trafficVars>>

LoopAgain ==
  /\ pc = "check" /\ flag # 0
  /\ pc' = "call"
  /\ UNCHANGED <<reading, client, trafficVars>>

ClientMain ==
  \/ Start
  \/ StartFails
  \/ TakeFd
  \/ RecvServer
  \/ RecvIpv4Addr
  \/ EstablishTun
  \/ RecvIpv4Packet
  \/ DoKeepAlive
  \/ LoopCheck
  \/ LoopAgain

---------------------------------------------------------------------------
(* client_keep_alive_thread *)

\* A step of the thread that changes the record only.
KeeperStep(at, new, to) ==
  /\ keeper = at
  /\ info' = new
  /\ keeper' = to
  /\ UNCHANGED <<framingVars, flag, trafficVars>>

\* Faulty variant: the loop does not look at flag.
WhileTrue == KeeperStep("loop", info, "state")
WhileFlag == KeeperStep("loop", info, IF flag = 0 THEN "done" ELSE "state")

ReadState ==
  KeeperStep("state", info, IF info.state = "FREE" THEN "loop" ELSE "dec")

CountDown == KeeperStep("dec", DecCount(info), "need")

CheckNeedSend ==
  KeeperStep("need", info,
             IF NeedSendKeepAlive(info) THEN "send" ELSE "timeout")

\* sendKeepAlive.  The write fails when the descriptor is closed, and raises
\* SIGPIPE when the server has reset the connection.
SendKeepAlive ==
  /\ keeper = "send"
  /\ IF isOpen /\ stream \in {"reset", "drained"}
     THEN pc' = "killed" /\ keeper' = "killed"
     ELSE pc' = pc /\ keeper' = "reset"
  /\ UNCHANGED <<reading, info, flag, trafficVars>>

RestartCount == KeeperStep("reset", ResetCount(info), "timeout")

\* Faulty variant: the lease must be older than the longest silence.
TimedOutStrict(u) == u.age > MaxTimeDur
TimedOut(u) == IsTimeOut(u)

CheckTimeOut ==
  KeeperStep("timeout", info, IF TimedOut(info) THEN "free" ELSE "loop")

FreeLease == KeeperStep("free", FreeResource(info), "unflag")

\* Faulty variant: the flag stays up.
FlagAtTimeOutKept == flag
FlagAtTimeOut == 0

Unflag ==
  /\ keeper = "unflag"
  /\ flag' = FlagAtTimeOut
  /\ keeper' = "close"
  /\ UNCHANGED <<framingVars, info, trafficVars>>

CloseTimedOut ==
  /\ keeper = "close"
  /\ descriptor' = IF isOpen THEN "lost" ELSE descriptor
  /\ keeper' = "loop"
  /\ UNCHANGED <<wire, reader, handled, info, flag, trafficVars>>

ClientKeeper ==
  \/ WhileFlag
  \/ ReadState
  \/ CountDown
  \/ CheckNeedSend
  \/ SendKeepAlive
  \/ RestartCount
  \/ CheckTimeOut
  \/ FreeLease
  \/ Unflag
  \/ CloseTimedOut

---------------------------------------------------------------------------
(* The client *)

Tick ==
  /\ info' = Older(info)
  /\ UNCHANGED <<framingVars, flag, keeper, trafficVars>>

ClientNext == ClientMain \/ ClientKeeper \/ Server \/ Tick

ClientSpec == ClientInit /\ [][ClientNext]_clientVars

\* Both threads are scheduled and time passes; the Java side answers.
FairClientSpec ==
  /\ ClientSpec
  /\ WF_clientVars(ClientMain)
  /\ WF_clientVars(ClientKeeper)
  /\ WF_clientVars(Tick)

---------------------------------------------------------------------------
(* Properties *)

\* While flag says that the tunnel is established the client has its lease, but
\* for the moment in which the keep-alive thread has freed it and is about to
\* clear the flag.
FlagMeansLeased == flag = 1 => info.state = "USED" \/ keeper = "unflag"

\* What the client handles are the messages the server has sent, as in the
\* server: the time-out may cut only the last one.
HandledInOrder ==
  \A i \in 1..Len(handled) :
    IF handled[i] = Garbled THEN descriptor = "lost" /\ i = Len(handled)
    ELSE handled[i] = <<i, sent[i]>>

\* When the server ends the connection between two messages the client ends,
\* unless its keep-alive thread has closed the descriptor inside a payload: then
\* every read of the loop fails and the loop never ends.  What becomes of a
\* client that has stored a packet past the end of struct Msg is open.
ClientEnds ==
  stream # "up" ~>
    (pc \in {"over", "killed", "overrun"} \/ (pc = "restpayload" /\ ~isOpen))

\* The keep-alive thread does not outlive the other one for ever.
KeeperEnds == pc = "over" ~> keeper \in {"none", "done", "killed"}

\* A server that stays silent is noticed.
SilenceEnds ==
  (flag = 1 /\ info.age = MaxTimeDur)
    ~> (flag = 0 \/ info.age < MaxTimeDur \/ pc = "killed")

=============================================================================
