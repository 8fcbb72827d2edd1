------------------------------ MODULE Sockets ------------------------------
(***************************************************************************)
(* The kernel's view of the TCP connections the server works on, and what  *)
(* the peers may do to them.  None of this is code of the repository: it   *)
(* is modelled from the calls the server makes (accept, read, write,       *)
(* close, select) and from what they return.                               *)
(*                                                                         *)
(* A connection is used once: a client that reconnects is another          *)
(* connection.  A descriptor is a small number that the kernel hands out   *)
(* again, lowest first, as soon as it is closed.                           *)
(***************************************************************************)
EXTENDS Integers, FiniteSetsExt

CONSTANTS
  Conns,        \* the connections peers may ever open
  NoConn,       \* no connection
  MaxFd,        \* bound: client descriptors are 1..MaxFd
  Messages,     \* bound: the kinds of message the peers send, see below
  MaxRequests,  \* bound: address requests (type 100) one connection sends
  MayStall      \* TRUE: a peer may stop draining its receive buffer

ASSUME SocketsAssumption ==
  /\ NoConn \notin Conns
  /\ MaxFd \in Nat \ {0}
  /\ Messages \subseteq {"request", "refresh", "ignored"}
  /\ MaxRequests \in Nat
  /\ MayStall \in BOOLEAN

VARIABLES
  conn,     \* conn[f]: the connection descriptor f denotes, or NoConn
  backlog,  \* established connections the listening socket has not handed out
  peer,     \* peer[c]: how far the connection is in its life
  inbox,    \* inbox[c]: the message that waits to be read, or "none"
  asked,    \* asked[c]: how many address requests c has sent
  full      \* connections whose send buffer is full: a write to them blocks

net == <<conn, backlog, peer, inbox, asked, full>>

Fds == 1..MaxFd

\* request: type 100.  refresh: types 102 and 104, which renew the lease.
\* ignored: types 101, 103 and unknown ones, which the server reads and drops.
MessageKinds == {"request", "refresh", "ignored"}

\* idle: not connected yet.  up: connected.  closed: the peer has sent FIN.
\* reset: the peer has sent RST.  gone: the server has let go of it.
PeerStates == {"idle", "up", "closed", "reset", "gone"}

SocketsTypeOK ==
  /\ conn \in [Fds -> Conns \cup {NoConn}]
  /\ backlog \in SUBSET Conns
  /\ peer \in [Conns -> PeerStates]
  /\ inbox \in [Conns -> MessageKinds \cup {"none"}]
  /\ asked \in [Conns -> 0..MaxRequests]
  /\ full \in SUBSET Conns

SocketsInit ==
  /\ conn = [f \in Fds |-> NoConn]
  /\ backlog = {}
  /\ peer = [c \in Conns |-> "idle"]
  /\ inbox = [c \in Conns |-> "none"]
  /\ asked = [c \in Conns |-> 0]
  /\ full = {}

---------------------------------------------------------------------------
(* What the system calls look at *)

IsOpen(f) == conn[f] # NoConn

\* select reports a descriptor that read would not block on: data, FIN, error.
Readable(c) == inbox[c] # "none" \/ peer[c] \in {"closed", "reset"}

\* write returns when there is room, or with an error when the peer has reset.
Writable(c) == c \notin full \/ peer[c] = "reset"

FreeFds == {f \in Fds : ~IsOpen(f)}

\* The lowest descriptor not in use, which is the one accept returns.
LowestFreeFd == Min(FreeFds)

---------------------------------------------------------------------------
(* What the peers do *)

Connect(c) ==
  /\ peer[c] = "idle"
  /\ peer' = [peer EXCEPT ![c] = "up"]
  /\ backlog' = backlog \cup {c}
  /\ UNCHANGED <<conn, inbox, asked, full>>

\* Bound: one message at a time waits to be read.
SendMessage(c, msg) ==
  /\ peer[c] = "up"
  /\ inbox[c] = "none"
  /\ msg = "request" => asked[c] < MaxRequests
  /\ inbox' = [inbox EXCEPT ![c] = msg]
  /\ asked' = [asked EXCEPT ![c] = IF msg = "request" THEN @ + 1 ELSE @]
  /\ UNCHANGED <<conn, backlog, peer, full>>

PeerClose(c) ==
  /\ peer[c] = "up"
  /\ peer' = [peer EXCEPT ![c] = "closed"]
  /\ UNCHANGED <<conn, backlog, inbox, asked, full>>

\* What has arrived before the RST can still be read, the rest is lost.
PeerReset(c) ==
  /\ peer[c] \in {"up", "closed"}
  /\ peer' = [peer EXCEPT ![c] = "reset"]
  /\ \E arrived \in {inbox[c], "none"} : inbox' = [inbox EXCEPT ![c] = arrived]
  /\ UNCHANGED <<conn, backlog, asked, full>>

Stall(c) ==
  /\ MayStall
  /\ peer[c] = "up"
  /\ full' = full \cup {c}
  /\ UNCHANGED <<conn, backlog, peer, inbox, asked>>

Drain(c) ==
  /\ c \in full
  /\ full' = full \ {c}
  /\ UNCHANGED <<conn, backlog, peer, inbox, asked>>

PeerStep(c) ==
  \/ Connect(c)
  \/ \E msg \in Messages : SendMessage(c, msg)
  \/ PeerClose(c)
  \/ PeerReset(c)
  \/ Stall(c)
  \/ Drain(c)

=============================================================================
