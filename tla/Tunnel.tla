------------------------------- MODULE Tunnel -------------------------------
(***************************************************************************)
(* The test client (do_client) behind the server, as a loop of packets:    *)
(* the client answers every message it reads with a packet (102), the      *)
(* server sends that packet into the IPv4 network, an answer comes back to *)
(* its raw socket, the server sends it to the client (103), and so on.     *)
(* The buffers of the connection are finite, and write waits for room.     *)
(*                                                                         *)
(* Three threads work on it: the client, the server's main thread, and its *)
(* keep-alive thread, which holds the record's mutex while it writes.  A   *)
(* message is one element here (FrameWriter and Framing take it apart),    *)
(* and there is one client, whose lease does not run out (KeepAliveTiming).*)
(***************************************************************************)
EXTENDS Integers, Sequences, FiniteSets

CONSTANTS
  UpCap,          \* messages the buffers to the server hold
  DownCap,        \* messages the buffers to the client hold
  RawCap,         \* packets the buffer of the raw socket holds
  MaxKeepAlives,  \* bound: keep-alives the server sends
  MaxOutside      \* bound: packets the network sends unasked

ASSUME TunnelAssumption ==
  /\ UpCap \in Nat \ {0} /\ DownCap \in Nat \ {0} /\ RawCap \in Nat \ {0}
  /\ MaxKeepAlives \in Nat /\ MaxOutside \in Nat

VARIABLES
  up, down,   \* the messages under way to the server, to the client
  client,     \* where the client stands: asking for an address, or in its loop
  todo,       \* the messages it has yet to write before it reads again
  main,       \* where the server's main thread stands
  rset,       \* what select found ready
  hand,       \* the type of the client's message it handles
  leased,     \* the client has an address
  keeper,     \* where the keep-alive thread stands; in "write" it holds the
              \* mutex of the record
  net, raw,   \* packets in the IPv4 network, and at the raw socket
  sent,       \* keep-alives the server has sent,
  answered,   \* those that were answered,
  outside     \* and packets that came unasked: history

tunnelVars == <<up, down, client, todo, main, rset, hand, leased, keeper, net,
                raw, sent, answered, outside>>

serverVars == <<main, rset, hand, leased>>
history == <<sent, answered, outside>>

ToServer == {100, 102, 104}
ToClient == {101, 103, 104}

TunnelTypeOK ==
  /\ up \in Seq(ToServer) /\ Len(up) <= UpCap
  /\ down \in Seq(ToClient) /\ Len(down) <= DownCap
  /\ client \in {"request", "await", "loop"}
  /\ todo \in {<<>>, <<102>>, <<104, 102>>}
  /\ main \in {"select", "raw", "write", "client", "reply", "renew"}
  /\ rset \subseteq {"raw", "client"}
  /\ hand \in ToServer
  /\ leased \in BOOLEAN
  /\ keeper \in {"sleep", "write"}
  /\ net \in Nat /\ raw \in 0..RawCap
  /\ sent \in 0..MaxKeepAlives /\ answered \in Nat /\ outside \in 0..MaxOutside

TunnelInit ==
  /\ up = <<>> /\ down = <<>>
  /\ client = "request" /\ todo = <<>>
  /\ main = "select" /\ rset = {} /\ hand = 100 /\ leased = FALSE
  /\ keeper = "sleep"
  /\ net = 0 /\ raw = 0
  /\ sent = 0 /\ answered = 0 /\ outside = 0

---------------------------------------------------------------------------
(* The client: do_client *)

\* request_ipv4 writes the 100, and reads the 101.
RequestIpv4 ==
  /\ client = "request"
  /\ Len(up) < UpCap
  /\ up' = Append(up, 100)
  /\ client' = "await"
  /\ UNCHANGED <<down, todo, serverVars, keeper, net, raw, history>>

ReadReply ==
  /\ client = "await"
  /\ down # <<>> /\ Head(down) = 101
  /\ down' = Tail(down)
  /\ client' = "loop"
  /\ UNCHANGED <<up, todo, serverVars, keeper, net, raw, history>>

\* What the loop writes for a message of type t: always the same packet, and a
\* keep-alive before it for a keep-alive.  Faulty variants: two packets for one
\* that came; a keep-alive is not answered; the keep-alive comes last.
AnswersTwice(t) == IF t = 104 THEN <<104, 102>> ELSE <<102, 102>>
AnswersNoKeepAlive(t) == <<102>>
AnswersBackwards(t) == IF t = 104 THEN <<102, 104>> ELSE <<102>>
Answers(t) == IF t = 104 THEN <<104, 102>> ELSE <<102>>

ClientReads ==
  /\ client = "loop" /\ todo = <<>>
  /\ down # <<>>
  /\ todo' = Answers(Head(down))
  /\ down' = Tail(down)
  /\ UNCHANGED <<up, client, serverVars, keeper, net, raw, history>>

ClientWrites ==
  /\ todo # <<>>
  /\ Len(up) < UpCap
  /\ up' = Append(up, Head(todo))
  /\ todo' = Tail(todo)
  /\ UNCHANGED <<down, client, serverVars, keeper, net, raw, history>>

ClientStep == RequestIpv4 \/ ReadReply \/ ClientReads \/ ClientWrites

---------------------------------------------------------------------------
(* The server's main thread: do_server *)

Ready == {s \in {"raw", "client"} :
            \/ s = "raw" /\ raw > 0
            \/ s = "client" /\ up # <<>>}

Select ==
  /\ main = "select"
  /\ Ready # {}
  /\ rset' = Ready
  /\ main' = "raw"
  /\ UNCHANGED <<up, down, client, todo, hand, leased, keeper, net, raw,
                 history>>

\* The raw socket is served first; process_packet drops a packet for an
\* address that no one holds.
RecvPacket ==
  /\ main = "raw"
  /\ IF "raw" \in rset
     THEN /\ raw' = raw - 1
          /\ main' = IF leased THEN "write" ELSE "client"
     ELSE /\ main' = "client"
          /\ UNCHANGED raw
  /\ UNCHANGED <<up, down, client, todo, rset, hand, leased, keeper, net,
                 history>>

\* process_packet writes without the record's mutex.
WritePacket ==
  /\ main = "write"
  /\ Len(down) < DownCap
  /\ down' = Append(down, 103)
  /\ main' = "client"
  /\ UNCHANGED <<up, client, todo, rset, hand, leased, keeper, net, raw,
                 history>>

\* do_response reads a message, if the client is in rset.
DoResponse ==
  /\ main = "client"
  /\ IF "client" \in rset
     THEN /\ hand' = Head(up)
          /\ up' = Tail(up)
          /\ main' = IF Head(up) = 100 THEN "reply" ELSE "renew"
     ELSE /\ main' = "select"
          /\ UNCHANGED <<up, hand>>
  /\ UNCHANGED <<down, client, todo, rset, leased, keeper, net, raw, history>>

\* reply_ipv4_request, with a free address at hand; the 101 is written under
\* the record's mutex.
ReplyIpv4Request ==
  /\ main = "reply"
  /\ keeper # "write"
  /\ Len(down) < DownCap
  /\ leased' = TRUE
  /\ down' = Append(down, 101)
  /\ main' = "select"
  /\ UNCHANGED <<up, client, todo, rset, hand, keeper, net, raw, history>>

\* do_ipv4_packet_request and do_keep_alive: setLatestTime waits for the
\* record's mutex; the first then sends the packet into the network.
RenewLease ==
  /\ main = "renew"
  /\ keeper # "write"
  /\ main' = "select"
  /\ IF hand = 102
     THEN net' = net + 1 /\ UNCHANGED answered
     ELSE answered' = answered + 1 /\ UNCHANGED net
  /\ UNCHANGED <<up, down, client, todo, rset, hand, leased, keeper, raw, sent,
                 outside>>

MainStep ==
  \/ Select \/ RecvPacket \/ WritePacket
  \/ DoResponse \/ ReplyIpv4Request \/ RenewLease

---------------------------------------------------------------------------
(* The keep-alive thread, and the network *)

\* The countdown has come to 0: sendKeepAlive enters mutex_write_FD.
TakeMutex ==
  /\ keeper = "sleep"
  /\ leased
  /\ sent < MaxKeepAlives
  /\ keeper' = "write"
  /\ sent' = sent + 1
  /\ UNCHANGED <<up, down, client, todo, serverVars, net, raw, answered,
                 outside>>

WriteKeepAlive ==
  /\ keeper = "write"
  /\ Len(down) < DownCap
  /\ down' = Append(down, 104)
  /\ keeper' = "sleep"
  /\ UNCHANGED <<up, client, todo, serverVars, net, raw, history>>

\* A host answers the packet, or it or its answer gets lost, at the latest at
\* the full buffer of the raw socket.
NetworkAnswers ==
  /\ net > 0 /\ raw < RawCap
  /\ net' = net - 1
  /\ raw' = raw + 1
  /\ UNCHANGED <<up, down, client, todo, serverVars, keeper, history>>

NetworkLoses ==
  /\ net > 0
  /\ net' = net - 1
  /\ UNCHANGED <<up, down, client, todo, serverVars, keeper, raw, history>>

\* A packet for the client's address that answers none of its own.
NetworkSends ==
  /\ outside < MaxOutside /\ raw < RawCap
  /\ outside' = outside + 1
  /\ raw' = raw + 1
  /\ UNCHANGED <<up, down, client, todo, serverVars, keeper, net, sent,
                 answered>>

TunnelNext ==
  \/ ClientStep
  \/ MainStep
  \/ TakeMutex \/ WriteKeepAlive
  \/ NetworkAnswers \/ NetworkLoses \/ NetworkSends

TunnelSpec == TunnelInit /\ [][TunnelNext]_tunnelVars

\* The kernel schedules the threads; the network owes nothing.  Strong fairness
\* for the room in a buffer and for the mutex is not needed: a main thread that
\* waits for the mutex does not write either.
TunnelFairness ==
  /\ WF_tunnelVars(ClientStep)
  /\ WF_tunnelVars(MainStep)
  /\ WF_tunnelVars(WriteKeepAlive)

FairTunnelSpec == TunnelSpec /\ TunnelFairness

---------------------------------------------------------------------------
(* Properties *)

CountOf(s, t) == Cardinality({i \in 1..Len(s) : s[i] = t})

\* The packets on their way round.
Circulating ==
  CountOf(up, 102) + CountOf(down, 103) + net + raw
    + (IF main = "write" THEN 1 ELSE 0)
    + (IF main = "renew" /\ hand = 102 THEN 1 ELSE 0)
    + (IF todo # <<>> THEN 1 ELSE 0)

\* do_client answers a keep-alive with a packet more, and never stops to: each
\* keep-alive, and each packet from outside, puts one packet on the round at
\* most, and nothing else does.
OnePacketEach == Circulating <= sent + outside

\* Everyone waits: the client for room to write, so that it does not read; the
\* main thread for room to write, or for the mutex of the keep-alive thread,
\* which waits for room, so that it does not read either.
Stuck ==
  /\ todo # <<>> /\ Len(up) = UpCap
  /\ Len(down) = DownCap
  /\ main = "write" \/ (main = "renew" /\ keeper = "write")

\* It takes as many keep-alives as fill the buffers of both directions.
StuckOnlyWhenFull == Stuck => 2 * sent + outside >= UpCap + DownCap + 2

\* Until then every keep-alive is answered, whatever else goes round.
AnsweredOrStuck ==
  \A k \in 1..MaxKeepAlives : sent >= k ~> (answered >= k \/ Stuck)

=============================================================================
