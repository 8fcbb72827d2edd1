---------------------------- MODULE ApartProofs ----------------------------
(***************************************************************************)
(* The server when the two threads never work on one descriptor at the     *)
(* same time, for every number of connections, descriptors and addresses.  *)
(* Whatever the clients send, the two maps agree, what is open is watched  *)
(* and served, and read waits for newcomers only: TableInv, WatchedInv and *)
(* DueInv, each of which strengthens the one before.  When a client asks   *)
(* for one address, a lease has its connection, a packet goes to the       *)
(* holder of its address and who is timed out is silent: LeaseTableInv,    *)
(* which strengthens TableInv.                                             *)
(***************************************************************************)
EXTENDS ServerProofs

---------------------------------------------------------------------------
(* The inductive invariants *)

\* The main thread has closed its descriptor and will free the lease on it.
TornDown == {"clr", "unslot", "lookup", "freelock", "free"}

\* The main thread answers a request for an address.
Granting == {"alloc", "setinfo"}

\* The labels at which the invariants say something of what a thread has in
\* hand.
MainHot ==
  {"enter", "read", "rawenter", "rawwrite", "setmap"} \cup Granting \cup TornDown
SlotLabels == {"slot", "setfd"}
KeeperFree == {"freelock", "free"}
KeeperClear == {"clr", "slot", "unslot", "close"}

\* The keep-alive thread has a descriptor to close.
Closing == {"lookup"} \cup KeeperFree \cup KeeperClear

\* The same with what the main thread serves: labels a step may not come to,
\* and labels it may not leave, unless it is looked at.
MainBusy == MainHot \cup SlotLabels
MainTied == TornDown \cup SlotLabels \cup {"setmap"}

MapOK == \A f \in Fds : fdMap[f] # NoInfo => info[fdMap[f]].fd = f

\* A connection has one descriptor, from accept on.
ConnsOK ==
  /\ \A f, g \in Fds : conn[f] = conn[g] /\ conn[f] # NoConn => f = g
  /\ \A f \in Fds : conn[f] # NoConn =>
       conn[f] \notin backlog /\ peer[conn[f]] # "idle"
  /\ \A c \in backlog : peer[c] # "idle"

MainOK ==
  /\ th[Main].pc = "read" => th[Main].to = conn[th[Main].fd]
  /\ th[Main].pc \in Granting => conn[th[Main].fd] # NoConn
  /\ th[Main].pc = "setmap" => info[th[Main].rec].fd = th[Main].fd
  /\ th[Main].pc \in KeeperFree => th[Main].rec = fdMap[th[Main].fd]

KeeperOK ==
  /\ th[Keeper].pc \in KeeperFree => th[Keeper].rec = fdMap[th[Keeper].fd]
  /\ th[Keeper].pc \in KeeperClear => th[Keeper].fd \in Fds

\* A second request of a connection may leave a lease behind that the map does
\* not lead to, and that is never given back: of such a lease this says
\* nothing.
TableInv ==
  /\ IInv
  /\ MapOK
  /\ ConnsOK
  /\ MainOK
  /\ KeeperOK
  /\ ~Overlap

Leased(f) == \E a \in Addrs : info[a].fd = f

\* The map leads from the descriptor of a lease back to it, or will do so after
\* set_fd_info_map; the descriptor is the connection's that asked for the
\* lease, unless the main thread has just closed it.
LeasesOK ==
  \A a \in Addrs : info[a].fd # NoFd =>
    /\ \/ fdMap[info[a].fd] = a
       \/ th[Main].pc = "setmap" /\ th[Main].rec = a
    /\ \/ conn[info[a].fd] = owner[a] /\ owner[a] # NoConn
       \/ th[Main].pc \in TornDown /\ th[Main].fd = info[a].fd

\* Who has a lease, or is about to be given one.
Served(c) ==
  \/ \E a \in Addrs : info[a].fd # NoFd /\ conn[info[a].fd] = c
  \/ th[Main].pc \in Granting /\ conn[th[Main].fd] = c

\* A connection that has not asked yet, or whose request has not been read,
\* has no lease.
AsksOK ==
  \A c \in Conns :
    /\ inbox[c] = "request" => asked[c] > 0
    /\ inbox[c] = "request" \/ asked[c] = 0 => ~Served(c)

MainLeaseOK ==
  /\ th[Main].pc \in Granting => ~Leased(th[Main].fd)
  /\ th[Main].pc = "setmap" => fdMap[th[Main].fd] = NoInfo
  /\ th[Main].pc = "rawenter" =>
       conn[th[Main].out] \in {owner[th[Main].rec], NoConn}
  /\ th[Main].pc = "rawwrite" => th[Main].to \in {owner[th[Main].rec], NoConn}

KeeperLeaseOK == th[Keeper].pc \in KeeperClear => ~Leased(th[Keeper].fd)

LeaseTableInv ==
  /\ TableInv
  /\ LeasesOK
  /\ AsksOK
  /\ MainLeaseOK
  /\ KeeperLeaseOK

---------------------------------------------------------------------------
(* What each part of the invariants needs of a step *)

FdsSame == \A a \in Addrs : info'[a].fd = info[a].fd

LEMMA TableTypes ==
  ASSUME IInv
  PROVE  /\ fdMap \in [Fds -> Addrs \cup {NoInfo}]
         /\ conn \in [Fds -> Conns \cup {NoConn}]
         /\ owner \in [Addrs -> Conns \cup {NoConn}]
         /\ info \in [Addrs -> UserInfoType(Fds)]
         /\ peer \in [Conns -> PeerStates]
         /\ inbox \in [Conns -> MessageKinds \cup {"none"}]
         /\ asked \in [Conns -> 0..MaxRequests]
         /\ backlog \subseteq Conns
         /\ \A a \in Addrs : info[a].fd \in Fds \cup {NoFd}
         /\ NoInfo \notin Addrs /\ NoFd \notin Fds /\ NoConn \notin Conns
<1>1. \A a \in Addrs : info[a].fd \in Fds \cup {NoFd}
  BY DEF IInv, TypeOK, ServerStateTypeOK, UserInfoType
<1>2. NoInfo \notin Addrs /\ NoFd \notin Fds
  BY ServerAssumption, SocketsAssumption DEF NoInfo, Addrs, NoFd, Fds
<1> QED
  BY <1>1, <1>2, SocketsAssumption
  DEF IInv, TypeOK, ServerStateTypeOK, SocketsTypeOK

LEMMA MapStays ==
  ASSUME IInv, MapOK, FdsSame, UNCHANGED fdMap
  PROVE  MapOK'
BY TableTypes DEF MapOK, FdsSame

LEMMA ConnsStay ==
  ASSUME IInv, ConnsOK, UNCHANGED <<conn, backlog>>,
         \A c \in Conns : peer[c] # "idle" => peer'[c] # "idle"
  PROVE  ConnsOK'
BY TableTypes DEF ConnsOK

\* What the other thread does to a descriptor of its own.
LEMMA MainStays ==
  ASSUME IInv, MainOK, th'[Main] = th[Main],
         th[Main].fd \in Fds => /\ conn'[th[Main].fd] = conn[th[Main].fd]
                                /\ fdMap'[th[Main].fd] = fdMap[th[Main].fd],
         th[Main].pc = "setmap" =>
           info'[th[Main].rec].fd = info[th[Main].rec].fd
  PROVE  MainOK'
<1>1. th[Main].pc \in {"read"} \cup Granting \cup KeeperFree =>
        th[Main].fd \in Fds
  BY Basics DEF ThreadOK, FdLabels, Granting, KeeperFree
<1> QED
  BY <1>1 DEF MainOK

LEMMA KeeperStays ==
  ASSUME IInv, KeeperOK, th'[Keeper] = th[Keeper],
         th[Keeper].fd \in Fds =>
           fdMap'[th[Keeper].fd] = fdMap[th[Keeper].fd]
  PROVE  KeeperOK'
<1>1. th[Keeper].pc \in KeeperFree => th[Keeper].fd \in Fds
  BY Basics DEF ThreadOK, FdLabels, KeeperFree
<1> QED
  BY <1>1 DEF KeeperOK

\* A step that changes no entry of the map and no connection, and takes no
\* thread to a label at which the invariant says something of it.
LEMMA LeavesTable ==
  ASSUME TableInv, IInv', ~Overlap',
         FdsSame, UNCHANGED <<fdMap, conn, backlog>>,
         \A c \in Conns : peer[c] # "idle" => peer'[c] # "idle",
         th'[Main] = th[Main] \/ th'[Main].pc \notin MainHot,
         \/ th'[Keeper] = th[Keeper]
         \/ th'[Keeper].pc \notin KeeperFree \cup KeeperClear
  PROVE  TableInv'
<1>1. MapOK' /\ ConnsOK'
  BY MapStays, ConnsStay DEF TableInv
<1>2. MainOK'
  <2>1. CASE th'[Main] = th[Main]
    <3>1. th[Main].pc = "setmap" => th[Main].rec \in Addrs
      BY Basics DEF TableInv, ThreadOK, RecLabels
    <3> QED
      BY <2>1, <3>1, MainStays DEF TableInv, FdsSame
  <2>2. CASE th'[Main].pc \notin MainHot
    BY <2>2 DEF MainOK, MainHot, KeeperFree, TornDown
  <2> QED
    BY <2>1, <2>2
<1>3. KeeperOK'
  <2>1. CASE th'[Keeper] = th[Keeper]
    BY <2>1, KeeperStays DEF TableInv
  <2>2. CASE th'[Keeper].pc \notin KeeperFree \cup KeeperClear
    BY <2>2 DEF KeeperOK
  <2> QED
    BY <2>1, <2>2
<1> QED
  BY <1>1, <1>2, <1>3 DEF TableInv

\* A step of one thread that leaves the tables and the network alone.
LEMMA MainTableOnly ==
  ASSUME TableInv, IInv', ~Overlap', UNCHANGED <<net, tables>>,
         th'[Keeper] = th[Keeper], MainOK'
  PROVE  TableInv'
<1>1. FdsSame
  BY DEF tables, FdsSame
<1>2. MapOK' /\ ConnsOK'
  BY <1>1, MapStays, ConnsStay DEF TableInv, net, tables
<1>3. KeeperOK'
  BY KeeperStays DEF TableInv, tables
<1> QED
  BY <1>2, <1>3 DEF TableInv

LEMMA KeeperTableOnly ==
  ASSUME TableInv, IInv', ~Overlap', UNCHANGED <<net, tables>>,
         th'[Main] = th[Main], KeeperOK'
  PROVE  TableInv'
<1>1. FdsSame
  BY DEF tables, FdsSame
<1>2. MapOK' /\ ConnsOK'
  BY <1>1, MapStays, ConnsStay DEF TableInv, net, tables
<1>3. MainOK'
  BY MainStays DEF TableInv, net, tables
<1> QED
  BY <1>2, <1>3 DEF TableInv

---------------------------------------------------------------------------
(* How the threads move *)

LEMMA MainMoved ==
  ASSUME IInv, NEW l, th' = [th EXCEPT ![Main] = l]
  PROVE  th'[Main] = l /\ th'[Keeper] = th[Keeper]
BY Basics

LEMMA KeeperMoved ==
  ASSUME IInv, NEW l, th' = [th EXCEPT ![Keeper] = l]
  PROVE  th'[Keeper] = l /\ th'[Main] = th[Main]
BY Basics

LEMMA Jumps ==
  ASSUME IInv, NEW t \in Threads, NEW p, Goto(t, p)
  PROVE  /\ th'[t].pc = p /\ th'[t].fd = th[t].fd
         /\ th'[t].rec = th[t].rec /\ th'[t].to = th[t].to
         /\ \A u \in Threads : u # t => th'[u] = th[u]
BY Basics DEF Goto, Locals

LEMMA FreshPc ==
  \A p, n : Fresh(p, n).pc = p /\ Fresh(p, n).fd = NoFd
BY DEF Fresh

\* The end of a call of thread t.
LEMMA EndCallKeeps ==
  ASSUME IInv, NEW t, NEW closed, NEW read, EndCall(t, closed, read)
  PROVE  /\ UNCHANGED <<backlog, asked>>
         /\ conn' = [f \in Fds |-> IF f \in closed THEN NoConn ELSE conn[f]]
         /\ closed = {} => conn' = conn
         /\ \A c \in Conns :
              /\ peer[c] # "idle" => peer'[c] # "idle"
              /\ inbox'[c] = "request" => inbox[c] = "request" /\ c \notin read
BY TableTypes DEF EndCall

\* The steps of the main thread that change no lease and nothing that it serves.
LEMMA MainIdleMoves ==
  ASSUME IInv,
         \/ CopyAllset \/ SelectFails \/ SelectWaits \/ SelectReturns
         \/ RecvPacket \/ WritePacket \/ PacketsDone
         \/ RequestDone \/ GetUserInfoByFd \/ RenewLease
         \/ LockWrite(Main) \/ UnlockWrite(Main)
  PROVE  /\ th'[Keeper] = th[Keeper]
         /\ th'[Main].pc \notin MainBusy
         /\ th[Main].pc \notin MainTied
<1> USE DEF TornDown, MainHot, Granting, SlotLabels, MainBusy, MainTied
<1>1. ASSUME NEW p, Goto(Main, p), p \notin MainBusy,
             th[Main].pc \notin MainTied
      PROVE  /\ th'[Keeper] = th[Keeper]
             /\ th'[Main].pc \notin MainBusy
             /\ th[Main].pc \notin MainTied
  BY <1>1, Jumps, Basics
<1>2. ASSUME NEW l, th' = [th EXCEPT ![Main] = l], l.pc \notin MainBusy,
             th[Main].pc \notin MainTied
      PROVE  /\ th'[Keeper] = th[Keeper]
             /\ th'[Main].pc \notin MainBusy
             /\ th[Main].pc \notin MainTied
  BY <1>2, MainMoved
<1>3. ASSUME NEW p, NEW n, th' = [th EXCEPT ![Main] = Fresh(p, n)],
             p \notin MainBusy, th[Main].pc \notin MainTied
      PROVE  /\ th'[Keeper] = th[Keeper]
             /\ th'[Main].pc \notin MainBusy
             /\ th[Main].pc \notin MainTied
  <2>1. th'[Main] = Fresh(p, n) /\ th'[Keeper] = th[Keeper]
    BY <1>3, MainMoved
  <2>2. th'[Main].pc = p
    BY <2>1, FreshPc, Zenon
  <2> QED
    BY <1>3, <2>1, <2>2
<1>4. CASE CopyAllset \/ SelectFails \/ SelectWaits
  BY <1>4, <1>1 DEF CopyAllset, SelectFails, SelectWaits, At
<1>5. CASE SelectReturns
  BY <1>5, <1>1 DEF SelectReturns, AfterSelect, At
<1>6. CASE RecvPacket
  <2>1. PICK a : \/ th' = [th EXCEPT ![Main].pc = "rawfd", ![Main].rec = a]
                 \/ th' = th
    BY <1>6 DEF RecvPacket
  <2> DEFINE l == [th[Main] EXCEPT !.pc = "rawfd", !.rec = a]
  <2>2. \/ th' = [th EXCEPT ![Main] = l] /\ l.pc = "rawfd"
        \/ th' = th
    BY <2>1, Basics DEF Locals
  <2> HIDE DEF l
  <2> QED
    BY <1>6, <2>2, <1>2 DEF RecvPacket, At
<1>7. CASE WritePacket
  BY <1>7, <1>3 DEF WritePacket, At
<1>8. CASE PacketsDone
  <2> DEFINE l == [th[Main] EXCEPT !.pc = "scan", !.idx = 0]
  <2>1. th' = [th EXCEPT ![Main] = l] /\ l.pc = "scan"
    BY <1>8, Basics DEF PacketsDone, Locals
  <2> HIDE DEF l
  <2> QED
    BY <1>8, <2>1, <1>2 DEF PacketsDone, At
<1>9. CASE RequestDone
  <2> DEFINE l == [Fresh("scan", 0) EXCEPT !.idx = NextIndex(th[Main].idx)]
  <2>1. l.pc = "scan"
    BY DEF Fresh
  <2>2. \/ th' = [th EXCEPT ![Main] = l]
        \/ th' = [th EXCEPT ![Main] = Fresh("copy", 0)]
    BY <1>9 DEF RequestDone, NextIteration
  <2> HIDE DEF l
  <2> QED
    BY <1>9, <2>1, <2>2, <1>2, <1>3 DEF RequestDone, At
<1>10. CASE GetUserInfoByFd
  <2>1. PICK p \in {"served", "latest"} :
          th' = [th EXCEPT ![Main].rec = fdMap[th[Main].fd], ![Main].pc = p]
    BY <1>10 DEF GetUserInfoByFd
  <2> DEFINE l == [th[Main] EXCEPT !.rec = fdMap[th[Main].fd], !.pc = p]
  <2>2. th' = [th EXCEPT ![Main] = l] /\ l.pc = p
    BY <2>1, Basics DEF Locals
  <2> HIDE DEF l
  <2> QED
    BY <1>10, <2>2, <1>2 DEF GetUserInfoByFd, At
<1>11. CASE RenewLease
  BY <1>11, <1>1 DEF RenewLease, InfoStep, At
<1>12. CASE LockWrite(Main)
  <2> DEFINE l == [th[Main] EXCEPT !.pc = "write",
                                   !.to = ConnOf(info[th[Main].rec].fd)]
  <2>1. th' = [th EXCEPT ![Main] = l] /\ l.pc = "write"
    BY <1>12, Basics DEF LockWrite, Locals
  <2> HIDE DEF l
  <2> QED
    BY <1>12, <2>1, <1>2 DEF LockWrite, At
<1>13. CASE UnlockWrite(Main)
  <2> DEFINE l == [th[Main] EXCEPT !.pc = "served", !.to = NoConn]
  <2>1. th' = [th EXCEPT ![Main] = l] /\ l.pc = "served"
    BY <1>13, Basics DEF UnlockWrite, Locals
  <2> HIDE DEF l
  <2> QED
    BY <1>13, <2>1, <1>2 DEF UnlockWrite, At
<1> QED
  BY <1>4, <1>5, <1>6, <1>7, <1>8, <1>9, <1>10, <1>11, <1>12, <1>13

\* The steps of the main thread that change no lease.
LEMMA MainColdMoves ==
  ASSUME IInv,
         \/ CopyAllset \/ SelectFails \/ SelectWaits \/ SelectReturns
         \/ AcceptFails \/ FillSlot \/ SetFdSet
         \/ RecvPacket \/ WritePacket \/ PacketsDone
         \/ RequestDone \/ GetUserInfoByFd \/ RenewLease
         \/ LockWrite(Main) \/ UnlockWrite(Main)
  PROVE  /\ th'[Keeper] = th[Keeper]
         /\ \/ th'[Main] = th[Main]
            \/ /\ th'[Main].pc \notin MainHot
               /\ th[Main].pc \notin TornDown \cup {"setmap"}
<1> USE DEF TornDown, MainHot, Granting
<1>1. CASE AcceptFails
  BY <1>1, Jumps, Basics DEF AcceptFails, At
<1>2. CASE FillSlot
  <2> DEFINE l == [th[Main] EXCEPT !.pc = "setfd", !.idx = FoundSlot]
  <2>1. th' = [th EXCEPT ![Main] = l] /\ l.pc = "setfd"
    BY <1>2, Basics DEF FillSlot, Locals
  <2> HIDE DEF l
  <2> QED
    BY <1>2, <2>1, MainMoved DEF FillSlot, At
<1>3. CASE SetFdSet
  <2>1. PICK p \in {"copy", "raw"} : th' = [th EXCEPT ![Main] = Fresh(p, 0)]
    BY <1>3 DEF SetFdSet, NextIteration
  <2>2. th'[Main] = Fresh(p, 0) /\ th'[Keeper] = th[Keeper]
    BY <2>1, MainMoved
  <2>3. th'[Main].pc = p
    BY <2>2, FreshPc, Zenon
  <2> QED
    BY <1>3, <2>2, <2>3 DEF SetFdSet, At
<1>4. CASE ~AcceptFails /\ ~FillSlot /\ ~SetFdSet
  BY <1>4, MainIdleMoves DEF MainBusy, MainTied
<1> QED
  BY <1>1, <1>2, <1>3, <1>4

\* Those of the keep-alive thread.
LEMMA KeeperColdMoves ==
  ASSUME IInv,
         \/ WakeUp \/ ReadState \/ CountDown \/ CheckNeedSend
         \/ RestartCount \/ CheckTimeOut \/ ReadFd
         \/ LockWrite(Keeper) \/ UnlockWrite(Keeper)
  PROVE  /\ th'[Main] = th[Main]
         /\ th'[Keeper].pc \notin KeeperFree \cup KeeperClear
         /\ th'[Keeper].pc \in Closing =>
              /\ th'[Keeper].fd = info[th[Keeper].rec].fd
              /\ th'[Keeper].fd # NoFd /\ th[Keeper].pc = "readfd"
<1> USE DEF Closing, KeeperFree, KeeperClear
<1>1. ASSUME NEW p, Goto(Keeper, p), p \notin Closing
      PROVE  /\ th'[Main] = th[Main]
             /\ th'[Keeper].pc \notin Closing
  BY <1>1, Jumps, Basics
<1>2. ASSUME NEW l, th' = [th EXCEPT ![Keeper] = l],
             l.pc \notin Closing
      PROVE  /\ th'[Main] = th[Main]
             /\ th'[Keeper].pc \notin Closing
  BY <1>2, KeeperMoved
<1>3. ASSUME th' = NextAddr
      PROVE  /\ th'[Main] = th[Main]
             /\ th'[Keeper].pc \notin Closing
  <2>1. /\ th'[Keeper] = Fresh("state", th[Keeper].it + 1)
        /\ th'[Main] = th[Main]
    BY <1>3, KeeperMoved DEF NextAddr
  <2>2. th'[Keeper].pc = "state"
    BY <2>1, FreshPc, Zenon
  <2> QED
    BY <2>1, <2>2
<1>4. CASE WakeUp
  <2> DEFINE l == [th[Keeper] EXCEPT !.pc = "state", !.it = 1]
  <2>1. th' = [th EXCEPT ![Keeper] = l] /\ l.pc = "state"
    BY <1>4, Basics DEF WakeUp, Locals
  <2> HIDE DEF l
  <2> QED
    BY <2>1, <1>2
<1>5. CASE ReadState
  <2> DEFINE l == [th[Keeper] EXCEPT !.pc = "dec", !.rec = th[Keeper].it]
  <2>1. \/ th' = [th EXCEPT ![Keeper] = Fresh("sleep", 0)]
        \/ th' = NextAddr
        \/ th' = [th EXCEPT ![Keeper] = l]
    BY <1>5, Basics DEF ReadState, Locals
  <2>2. l.pc = "dec"
    BY Basics DEF Locals
  <2> HIDE DEF l
  <2> QED
    BY <2>1, <2>2, <1>2, <1>3, FreshPc
<1>6. CASE CountDown \/ CheckNeedSend \/ RestartCount
  BY <1>6, <1>1 DEF CountDown, CheckNeedSend, RestartCount, InfoStep
<1>7. CASE CheckTimeOut
  <2> DEFINE l == [th[Keeper] EXCEPT !.pc = "readfd"]
  <2>1. \/ th' = NextAddr
        \/ th' = [th EXCEPT ![Keeper] = l] /\ l.pc = "readfd"
    BY <1>7, Basics DEF CheckTimeOut, Locals
  <2> HIDE DEF l
  <2> QED
    BY <2>1, <1>2, <1>3
<1>8. CASE ReadFd
  <2> DEFINE l == [th[Keeper] EXCEPT !.pc = "lookup",
                                     !.fd = info[th[Keeper].rec].fd]
  <2>1. \/ th' = NextAddr
        \/ /\ th' = [th EXCEPT ![Keeper] = l] /\ l.pc = "lookup"
           /\ l.fd = info[th[Keeper].rec].fd /\ l.fd # NoFd
    BY <1>8, Basics DEF ReadFd, Locals
  <2> HIDE DEF l
  <2> QED
    BY <1>3, <1>8, <2>1, KeeperMoved DEF ReadFd, At
<1>9. CASE LockWrite(Keeper)
  <2> DEFINE l == [th[Keeper] EXCEPT !.pc = "write",
                                     !.to = ConnOf(info[th[Keeper].rec].fd)]
  <2>1. th' = [th EXCEPT ![Keeper] = l] /\ l.pc = "write"
    BY <1>9, Basics DEF LockWrite, Locals
  <2> HIDE DEF l
  <2> QED
    BY <2>1, <1>2
<1>10. CASE UnlockWrite(Keeper)
  <2> DEFINE l == [th[Keeper] EXCEPT !.pc = "reset", !.to = NoConn]
  <2>1. th' = [th EXCEPT ![Keeper] = l] /\ l.pc = "reset"
    BY <1>10, Basics DEF UnlockWrite, Locals
  <2> HIDE DEF l
  <2> QED
    BY <2>1, <1>2
<1> QED
  BY <1>4, <1>5, <1>6, <1>7, <1>8, <1>9, <1>10

---------------------------------------------------------------------------
(* The steps that change no lease *)

LEMMA InfoStepFds ==
  ASSUME IInv, NEW t \in Threads, NEW a \in Addrs, NEW at, NEW u, NEW p,
         InfoStep(t, at, a, u, p), u.fd = info[a].fd
  PROVE  FdsSame
BY TableTypes DEF InfoStep, FdsSame

LEMMA RecordStepFds ==
  ASSUME IInv, RenewLease \/ CountDown \/ CheckNeedSend \/ RestartCount
  PROVE  FdsSame
<1>1. \A t \in Threads : th[t].pc \in RecLabels => th[t].rec \in Addrs
  BY Basics DEF ThreadOK
<1>2. \A a \in Addrs : info[a] \in UserInfoType(Fds)
  BY Basics
<1>3. \A a \in Addrs : /\ DecCount(info[a]).fd = info[a].fd
                       /\ ResetCount(info[a]).fd = info[a].fd
                       /\ SetLatestTime(info[a]).fd = info[a].fd
  BY <1>2, UserInfoLease
<1>4. CASE RenewLease
  <2>1. th[Main].rec \in Addrs
    BY <1>1, <1>4, Basics DEF RenewLease, InfoStep, At, RecLabels
  <2> QED
    BY <1>3, <1>4, <2>1, InfoStepFds, Basics DEF RenewLease
<1>5. CASE CountDown \/ CheckNeedSend \/ RestartCount
  <2>1. th[Keeper].rec \in Addrs
    BY <1>1, <1>5, Basics
    DEF CountDown, CheckNeedSend, RestartCount, InfoStep, At, RecLabels
  <2>2. CASE CountDown
    BY <1>3, <2>1, <2>2, InfoStepFds, Basics DEF CountDown
  <2>3. CASE CheckNeedSend
    BY <2>1, <2>3, InfoStepFds, Basics DEF CheckNeedSend
  <2>4. CASE RestartCount
    BY <1>3, <2>1, <2>4, InfoStepFds, Basics DEF RestartCount
  <2> QED
    BY <1>5, <2>2, <2>3, <2>4
<1> QED
  BY <1>4, <1>5

LEMMA ColdFrame ==
  ASSUME IInv,
         \/ CopyAllset \/ SelectFails \/ SelectWaits \/ SelectReturns
         \/ AcceptFails \/ FillSlot \/ SetFdSet
         \/ RecvPacket \/ WritePacket \/ PacketsDone
         \/ RequestDone \/ GetUserInfoByFd \/ RenewLease
         \/ LockWrite(Main) \/ UnlockWrite(Main)
         \/ WakeUp \/ ReadState \/ CountDown \/ CheckNeedSend
         \/ RestartCount \/ CheckTimeOut \/ ReadFd
         \/ LockWrite(Keeper) \/ UnlockWrite(Keeper)
         \/ Tick \/ UNCHANGED vars
  PROVE  /\ FdsSame /\ UNCHANGED <<fdMap, owner, conn, backlog, asked>>
         /\ \A c \in Conns : /\ peer[c] # "idle" => peer'[c] # "idle"
                             /\ inbox'[c] = "request" => inbox[c] = "request"
<1>1. CASE WritePacket \/ UnlockWrite(Main) \/ UnlockWrite(Keeper)
  <2>1. (\E t : EndCall(t, {}, {})) /\ UNCHANGED tables
    BY <1>1 DEF WritePacket, UnlockWrite
  <2>2. /\ UNCHANGED <<fdMap, owner, conn, backlog, asked>>
        /\ \A c \in Conns : /\ peer[c] # "idle" => peer'[c] # "idle"
                            /\ inbox'[c] = "request" => inbox[c] = "request"
    BY <2>1, EndCallKeeps DEF tables
  <2> QED
    BY <2>1, <2>2 DEF tables, FdsSame
<1>2. CASE ~(WritePacket \/ UnlockWrite(Main) \/ UnlockWrite(Keeper))
  <2>1. UNCHANGED <<net, fdMap, owner>>
    BY <1>2
    DEF CopyAllset, SelectFails, SelectWaits, SelectReturns, AcceptFails,
        FillSlot, SetFdSet, RecvPacket, PacketsDone, RequestDone,
        GetUserInfoByFd, RenewLease, InfoStep, LockWrite, WakeUp, ReadState,
        CountDown, CheckNeedSend, RestartCount, CheckTimeOut, ReadFd, Tick,
        vars, tables
  <2>2. FdsSame
    <3>1. CASE RenewLease \/ CountDown \/ CheckNeedSend \/ RestartCount
      BY <3>1, RecordStepFds
    <3>2. CASE Tick
      <4>1. \A a \in Addrs : Older(info[a]).fd = info[a].fd
        BY Basics, UserInfoLease
      <4> QED
        BY <3>2, <4>1 DEF Tick, FdsSame
    <3>3. CASE ~(\/ RenewLease \/ CountDown \/ CheckNeedSend \/ RestartCount
                 \/ Tick)
      BY <1>2, <3>3
      DEF CopyAllset, SelectFails, SelectWaits, SelectReturns, AcceptFails,
          FillSlot, SetFdSet, RecvPacket, PacketsDone, RequestDone,
          GetUserInfoByFd, LockWrite, WakeUp, ReadState, CheckTimeOut, ReadFd,
          vars, tables, FdsSame
    <3> QED
      BY <3>1, <3>2, <3>3
  <2> QED
    BY <2>1, <2>2 DEF net
<1> QED
  BY <1>1, <1>2

LEMMA MainColdTable ==
  ASSUME TableInv, IInv', ~Overlap',
         \/ CopyAllset \/ SelectFails \/ SelectWaits \/ SelectReturns
         \/ AcceptFails \/ FillSlot \/ SetFdSet
         \/ RecvPacket \/ WritePacket \/ PacketsDone
         \/ RequestDone \/ GetUserInfoByFd \/ RenewLease
         \/ LockWrite(Main) \/ UnlockWrite(Main)
  PROVE  TableInv'
<1>1. /\ th'[Keeper] = th[Keeper]
      /\ th'[Main] = th[Main] \/ th'[Main].pc \notin MainHot
  BY MainColdMoves DEF TableInv
<1>2. /\ FdsSame /\ UNCHANGED <<fdMap, conn, backlog>>
      /\ \A c \in Conns : peer[c] # "idle" => peer'[c] # "idle"
  BY ColdFrame DEF TableInv
<1> QED
  BY <1>1, <1>2, LeavesTable

LEMMA KeeperColdTable ==
  ASSUME TableInv, IInv', ~Overlap',
         \/ WakeUp \/ ReadState \/ CountDown \/ CheckNeedSend
         \/ RestartCount \/ CheckTimeOut \/ ReadFd
         \/ LockWrite(Keeper) \/ UnlockWrite(Keeper)
  PROVE  TableInv'
<1>1. /\ th'[Main] = th[Main]
      /\ th'[Keeper].pc \notin KeeperFree \cup KeeperClear
  BY KeeperColdMoves DEF TableInv
<1>2. /\ FdsSame /\ UNCHANGED <<fdMap, conn, backlog>>
      /\ \A c \in Conns : peer[c] # "idle" => peer'[c] # "idle"
  BY ColdFrame DEF TableInv
<1> QED
  BY <1>1, <1>2, LeavesTable

LEMMA OtherColdTable ==
  ASSUME TableInv, IInv', ~Overlap', Tick \/ UNCHANGED vars
  PROVE  TableInv'
<1>1. th' = th
  BY DEF Tick, vars
<1>2. /\ FdsSame /\ UNCHANGED <<fdMap, conn, backlog>>
      /\ \A c \in Conns : peer[c] # "idle" => peer'[c] # "idle"
  BY ColdFrame DEF TableInv
<1> QED
  BY <1>1, <1>2, LeavesTable

---------------------------------------------------------------------------
(* The steps that tear a descriptor down *)

LEMMA TwoThreads ==
  ASSUME NEW t \in Threads
  PROVE  /\ Main # Keeper /\ t \in {Main, Keeper}
         /\ Main \in Threads /\ Keeper \in Threads
BY DEF Main, Keeper, Threads

\* Either thread on its way through clr_FD_SET and the look-up of the record.
LEMMA TearDownMoves ==
  ASSUME IInv, NEW t \in Threads,
         \/ LookupByFd(t) \/ ClrFdSet(t) \/ ClearSlot(t)
         \/ t = Main /\ ClearPastEnd
  PROVE  /\ \/ /\ th[t].pc = "lookup" /\ th'[t].pc = "freelock"
               /\ th'[t].rec = fdMap[th[t].fd]
            \/ /\ th[t].pc = "clr"
               /\ th'[t].pc = IF t = Main THEN "unslot" ELSE "slot"
            \/ /\ th[t].pc = "unslot"
               /\ th'[t].pc = IF t = Main THEN "lookup" ELSE "close"
         /\ th'[t].fd = th[t].fd
         /\ \A u \in Threads : u # t => th'[u] = th[u]
         /\ UNCHANGED <<net, tables>>
<1>1. CASE LookupByFd(t)
  <2> DEFINE l == [th[t] EXCEPT !.pc = "freelock", !.rec = fdMap[th[t].fd]]
  <2>1. /\ th' = [th EXCEPT ![t] = l] /\ l.pc = "freelock"
        /\ l.fd = th[t].fd /\ l.rec = fdMap[th[t].fd]
    BY <1>1, Basics DEF LookupByFd, Locals
  <2>2. th'[t] = l /\ \A u \in Threads : u # t => th'[u] = th[u]
    BY <2>1, Basics
  <2> HIDE DEF l
  <2> QED
    BY <1>1, <2>1, <2>2 DEF LookupByFd, At
<1>2. CASE ClrFdSet(t)
  BY <1>2, Jumps DEF ClrFdSet, At
<1>3. CASE ClearSlot(t)
  BY <1>3, Jumps DEF ClearSlot, At, AfterUnslot
<1>4. CASE t = Main /\ ClearPastEnd
  BY <1>4, Jumps DEF ClearPastEnd, At, AfterUnslot
<1> QED
  BY <1>1, <1>2, <1>3, <1>4

LEMMA TearDownTable ==
  ASSUME TableInv, IInv', ~Overlap', NEW t \in Threads,
         \/ LookupByFd(t) \/ ClrFdSet(t) \/ ClearSlot(t)
         \/ t = Main /\ ClearPastEnd
  PROVE  TableInv'
<1> USE DEF TableInv
<1>1. UNCHANGED <<net, tables>>
  BY TearDownMoves
<1>2. CASE t = Main
  <2>1. /\ th'[Main].pc \in {"freelock", "unslot", "lookup"}
        /\ th'[Main].pc = "freelock" => th'[Main].rec = fdMap[th'[Main].fd]
        /\ th'[Keeper] = th[Keeper]
    BY <1>2, TearDownMoves, TwoThreads
  <2>2. MainOK'
    BY <1>1, <2>1 DEF MainOK, Granting, KeeperFree, tables
  <2> QED
    BY <1>1, <2>1, <2>2, MainTableOnly
<1>3. CASE t = Keeper
  <2>1. /\ th'[Main] = th[Main]
        /\ th'[Keeper].fd = th[Keeper].fd
        /\ \/ th'[Keeper].pc = "freelock" /\ th'[Keeper].rec = fdMap[th[t].fd]
           \/ th[Keeper].pc = "clr" /\ th'[Keeper].pc = "slot"
           \/ th[Keeper].pc = "unslot" /\ th'[Keeper].pc = "close"
    BY <1>3, TearDownMoves, TwoThreads
  <2>2. KeeperOK'
    BY <1>1, <1>3, <2>1 DEF KeeperOK, KeeperFree, KeeperClear, tables
  <2> QED
    BY <1>1, <2>1, <2>2, KeeperTableOnly
<1> QED
  BY <1>2, <1>3, TwoThreads

LEMMA FindSlotMoves ==
  ASSUME IInv, FindSlot
  PROVE  /\ th[Keeper].pc = "slot" /\ th'[Keeper].pc \in {"close", "unslot"}
         /\ th'[Keeper].fd = th[Keeper].fd
         /\ th'[Main] = th[Main]
         /\ UNCHANGED <<net, tables>>
<1>1. CASE Goto(Keeper, "close")
  BY <1>1, Jumps, Basics DEF FindSlot, At
<1>2. CASE ~Goto(Keeper, "close")
  <2>1. PICK i : th' = [th EXCEPT ![Keeper].pc = "unslot", ![Keeper].idx = i]
    BY <1>2 DEF FindSlot
  <2> DEFINE l == [th[Keeper] EXCEPT !.pc = "unslot", !.idx = i]
  <2>2. th' = [th EXCEPT ![Keeper] = l] /\ l.pc = "unslot"
          /\ l.fd = th[Keeper].fd
    BY <2>1, Basics DEF Locals
  <2> HIDE DEF l
  <2> QED
    BY <2>2, KeeperMoved DEF FindSlot, At
<1> QED
  BY <1>1, <1>2

LEMMA FindSlotTable ==
  ASSUME TableInv, IInv', ~Overlap', FindSlot
  PROVE  TableInv'
<1>1. KeeperOK'
  BY FindSlotMoves DEF TableInv, KeeperOK, KeeperFree, KeeperClear
<1> QED
  BY <1>1, FindSlotMoves, KeeperTableOnly DEF TableInv

\* The check under fd_map_mutex that there is something to free.
LEMMA LockFdMapMoves ==
  ASSUME TableInv, NEW t \in Threads, LockFdMap(t)
  PROVE  /\ th[t].pc = "freelock" /\ th'[t].fd = th[t].fd
         /\ th[t].fd \in Fds
         /\ th'[t].rec = th[t].rec /\ th[t].rec = fdMap[th[t].fd]
         /\ \A u \in Threads : u # t => th'[u] = th[u]
         /\ \/ th'[t].pc = "free"
            \/ /\ th[t].rec = NoInfo \/ info[th[t].rec].fd = NoFd
               /\ th'[t].pc = IF t = Main THEN "served" ELSE "clr"
         /\ UNCHANGED <<net, tables>>
<1>1. /\ th[t].pc = "freelock" /\ th'[t].fd = th[t].fd
      /\ th'[t].rec = th[t].rec
      /\ \A u \in Threads : u # t => th'[u] = th[u]
      /\ \/ th'[t].pc = "free"
         \/ /\ th[t].rec = NoInfo \/ info[th[t].rec].fd = NoFd
            /\ th'[t].pc = IF t = Main THEN "served" ELSE "clr"
  BY Jumps DEF LockFdMap, At, AfterFree, TableInv
<1>2. th[t].fd \in Fds /\ th[t].rec = fdMap[th[t].fd]
  BY <1>1, TwoThreads, Basics
  DEF TableInv, ThreadOK, FdLabels, MainOK, KeeperOK, KeeperFree
<1> QED
  BY <1>1, <1>2 DEF LockFdMap

LEMMA LockFdMapTable ==
  ASSUME TableInv, IInv', ~Overlap', NEW t \in Threads, LockFdMap(t)
  PROVE  TableInv'
<1> USE DEF TableInv
<1>1. UNCHANGED <<net, tables>>
  BY LockFdMapMoves
<1>2. CASE t = Main
  <2>1. /\ th'[Main].pc \in {"free", "served"}
        /\ th'[Main].rec = fdMap[th'[Main].fd] /\ th'[Keeper] = th[Keeper]
    BY <1>2, LockFdMapMoves, TwoThreads
  <2>2. MainOK'
    BY <1>1, <2>1 DEF MainOK, Granting, KeeperFree, tables
  <2> QED
    BY <1>1, <2>1, <2>2, MainTableOnly
<1>3. CASE t = Keeper
  <2>1. /\ th'[Keeper].pc \in {"free", "clr"} /\ th'[Keeper].fd \in Fds
        /\ th'[Keeper].rec = fdMap[th'[Keeper].fd] /\ th'[Main] = th[Main]
    BY <1>3, LockFdMapMoves, TwoThreads
  <2>2. KeeperOK'
    BY <1>1, <2>1 DEF KeeperOK, KeeperFree, KeeperClear, tables
  <2> QED
    BY <1>1, <2>1, <2>2, KeeperTableOnly
<1> QED
  BY <1>2, <1>3, TwoThreads

\* freeResource and release_fd_info_map: the record and the entry that leads to
\* it, which are those of the descriptor in hand.
LEMMA Frees ==
  ASSUME TableInv, ~Overlap', NEW t \in Threads, FreeUnderLock(t)
  PROVE  /\ th[t].pc = "free" /\ th'[t].fd = th[t].fd
         /\ th'[t].pc = IF t = Main THEN "served" ELSE "clr"
         /\ \A u \in Threads : u # t => th'[u] = th[u] /\ th[u].fd # th[t].fd
         /\ th[t].fd \in Fds /\ th[t].fd # NoFd
         /\ th[t].rec \in Addrs /\ th[t].rec # NoInfo
         /\ fdMap[th[t].fd] = th[t].rec /\ info[th[t].rec].fd = th[t].fd
         /\ \A a \in Addrs :
              info'[a].fd = IF a = th[t].rec THEN NoFd ELSE info[a].fd
         /\ \A g \in Fds :
              fdMap'[g] = IF g = th[t].fd THEN NoInfo ELSE fdMap[g]
         /\ UNCHANGED <<conn, backlog, peer, inbox, asked, owner>>
<1> USE DEF TableInv
<1>1. /\ th[t].pc = "free" /\ th'[t].fd = th[t].fd
      /\ \A u \in Threads : u # t => th'[u] = th[u]
      /\ th'[t].pc = IF t = Main THEN "served" ELSE "clr"
  BY Jumps DEF FreeUnderLock, FreeAndRelease, At, AfterFree
<1>2. th[t].fd \in Fds /\ th[t].rec \in Addrs /\ th[t].rec = fdMap[th[t].fd]
  BY <1>1, TwoThreads, Basics
  DEF ThreadOK, FdLabels, RecLabels, MainOK, KeeperOK, KeeperFree
<1>3. info[th[t].rec].fd = th[t].fd /\ th[t].fd # NoFd /\ th[t].rec # NoInfo
  BY <1>2, TableTypes DEF MapOK
<1>4. /\ \A a \in Addrs :
           info'[a].fd = IF a = th[t].rec THEN NoFd ELSE info[a].fd
      /\ \A g \in Fds :
           fdMap'[g] = IF g = th[t].fd THEN NoInfo ELSE fdMap[g]
      /\ UNCHANGED <<net, owner>>
  BY <1>2, TableTypes
  DEF FreeUnderLock, FreeAndRelease, FreeResource, NewUserInfo, ReleaseFdInfoMap
<1>5. \A u \in Threads : u # t => th[u].fd # th[t].fd
  BY <1>3, TwoThreads DEF Overlap, Threads
<1>6. UNCHANGED <<conn, backlog, peer, inbox, asked, owner>>
  BY <1>4 DEF net
<1> QED
  BY <1>1, <1>2, <1>3, <1>4, <1>5, <1>6

LEMMA FreeUnderLockTable ==
  ASSUME TableInv, IInv', ~Overlap', NEW t \in Threads, FreeUnderLock(t)
  PROVE  TableInv'
<1> USE DEF TableInv
<1>1. MapOK'
  <2> SUFFICES ASSUME NEW g \in Fds, fdMap'[g] # NoInfo
               PROVE  info'[fdMap'[g]].fd = g
    BY DEF MapOK
  <2>1. g # th[t].fd /\ fdMap'[g] = fdMap[g] /\ fdMap[g] \in Addrs
    BY Frees, TableTypes
  <2>2. info[fdMap[g]].fd = g
    BY <2>1 DEF MapOK
  <2> QED
    BY Frees, <2>1, <2>2
<1>2. ConnsOK'
  BY Frees, ConnsStay
<1>3. MainOK'
  <2>1. CASE t = Main
    <3>1. th'[Main].pc = "served"
      BY <2>1, Frees
    <3> QED
      BY <3>1 DEF MainOK, Granting, KeeperFree
  <2>2. CASE t = Keeper
    <3>1. th'[Main] = th[Main] /\ th[Main].fd # th[t].fd
      BY <2>2, Frees, TwoThreads
    <3>2. th[Main].pc = "setmap" =>
            th[Main].rec # th[t].rec /\ th[Main].rec \in Addrs
      BY <3>1, Frees, Basics DEF MainOK, ThreadOK, RecLabels
    <3> QED
      BY <3>1, <3>2, Frees, MainStays
  <2> QED
    BY <2>1, <2>2, TwoThreads
<1>4. KeeperOK'
  <2>1. CASE t = Main
    <3>1. th'[Keeper] = th[Keeper] /\ th[Keeper].fd # th[t].fd
      BY <2>1, Frees, TwoThreads
    <3> QED
      BY <3>1, Frees, KeeperStays
  <2>2. CASE t = Keeper
    <3>1. th'[Keeper].fd \in Fds /\ th'[Keeper].pc = "clr"
      BY <2>2, Frees, TwoThreads
    <3> QED
      BY <3>1 DEF KeeperOK, KeeperFree
  <2> QED
    BY <2>1, <2>2, TwoThreads
<1> QED
  BY <1>1, <1>2, <1>3, <1>4

\* The close at the end of keep_alive_thread.
LEMMA CloseTimedOutMoves ==
  ASSUME TableInv, CloseTimedOut
  PROVE  /\ th[Keeper].pc = "close" /\ th'[Keeper].pc = "state"
         /\ th'[Main] = th[Main]
         /\ th[Keeper].fd \in Fds /\ th[Main].fd # th[Keeper].fd
         /\ \A g \in Fds :
              conn'[g] = IF g = th[Keeper].fd THEN NoConn ELSE conn[g]
         /\ UNCHANGED <<info, fdMap, owner, backlog, asked>>
         /\ \A c \in Conns :
              /\ peer[c] # "idle" => peer'[c] # "idle"
              /\ inbox'[c] = "request" => inbox[c] = "request"
<1> USE DEF TableInv
<1> DEFINE f == th[Keeper].fd
<1>1. /\ th[Keeper].pc = "close" /\ th'[Keeper].pc = "state"
      /\ th'[Main] = th[Main]
  <2>1. /\ th'[Keeper] = Fresh("state", th[Keeper].it + 1)
        /\ th'[Main] = th[Main]
    BY KeeperMoved DEF CloseTimedOut, NextAddr
  <2>2. th'[Keeper].pc = "state"
    BY <2>1, FreshPc, Zenon
  <2> QED
    BY <2>1, <2>2 DEF CloseTimedOut, At
<1>2. f \in Fds
  BY <1>1 DEF KeeperOK, KeeperClear
<1>3. th[Main].fd # f
  BY <1>2, TableTypes DEF Overlap
<1>4. /\ conn' = [g \in Fds |-> IF g \in {f} THEN NoConn ELSE conn[g]]
      /\ UNCHANGED <<backlog, asked>>
      /\ \A c \in Conns :
           /\ peer[c] # "idle" => peer'[c] # "idle"
           /\ inbox'[c] = "request" => inbox[c] = "request"
  BY EndCallKeeps DEF CloseTimedOut
<1>5. \A g \in Fds : conn'[g] = IF g = f THEN NoConn ELSE conn[g]
  BY <1>4
<1>6. UNCHANGED <<info, fdMap, owner>>
  BY DEF CloseTimedOut, tables
<1> QED
  BY <1>1, <1>2, <1>3, <1>4, <1>5, <1>6

LEMMA CloseTimedOutTable ==
  ASSUME TableInv, IInv', ~Overlap', CloseTimedOut
  PROVE  TableInv'
<1> USE DEF TableInv
<1>1. MapOK'
  BY CloseTimedOutMoves DEF MapOK
<1>2. ConnsOK'
  BY CloseTimedOutMoves, TableTypes DEF ConnsOK
<1>3. MainOK'
  BY CloseTimedOutMoves, MainStays
<1>4. KeeperOK'
  BY CloseTimedOutMoves DEF KeeperOK, KeeperFree, KeeperClear
<1> QED
  BY <1>1, <1>2, <1>3, <1>4

\* The end of a connection, in do_response.
LEMMA ReadEndsMoves ==
  ASSUME TableInv, ReadEnds
  PROVE  /\ th[Main].pc = "read" /\ th'[Main].pc = "clr"
         /\ th'[Main].fd = th[Main].fd /\ th[Main].fd \in Fds
         /\ th'[Keeper] = th[Keeper]
         /\ \A g \in Fds :
              conn'[g] = IF g = th[Main].fd THEN NoConn ELSE conn[g]
         /\ UNCHANGED <<info, fdMap, owner, backlog, asked>>
         /\ \A c \in Conns :
              /\ peer[c] # "idle" => peer'[c] # "idle"
              /\ inbox'[c] = "request" => inbox[c] = "request"
<1> USE DEF TableInv
<1> DEFINE f == th[Main].fd
           l == [th[Main] EXCEPT !.pc = "clr", !.to = NoConn]
<1>1. th' = [th EXCEPT ![Main] = l] /\ l.pc = "clr" /\ l.fd = f
  BY Basics DEF ReadEnds, Locals
<1>2. /\ th[Main].pc = "read" /\ th'[Main].pc = "clr" /\ th'[Main].fd = f
      /\ th'[Keeper] = th[Keeper]
  <2> HIDE DEF l
  <2> QED
    BY <1>1, MainMoved DEF ReadEnds, At
<1> HIDE DEF l
<1>3. f \in Fds
  BY <1>2, Basics DEF ThreadOK, FdLabels
<1>4. /\ conn' = [g \in Fds |-> IF g \in {f} THEN NoConn ELSE conn[g]]
      /\ UNCHANGED <<backlog, asked>>
      /\ \A c \in Conns :
           /\ peer[c] # "idle" => peer'[c] # "idle"
           /\ inbox'[c] = "request" => inbox[c] = "request"
  BY EndCallKeeps DEF ReadEnds
<1>5. \A g \in Fds : conn'[g] = IF g = f THEN NoConn ELSE conn[g]
  BY <1>4
<1>6. UNCHANGED <<info, fdMap, owner>>
  BY DEF ReadEnds, tables
<1> QED
  BY <1>2, <1>3, <1>4, <1>5, <1>6

LEMMA ReadEndsTable ==
  ASSUME TableInv, IInv', ~Overlap', ReadEnds
  PROVE  TableInv'
<1> USE DEF TableInv
<1>1. MapOK'
  BY ReadEndsMoves DEF MapOK
<1>2. ConnsOK'
  BY ReadEndsMoves, TableTypes DEF ConnsOK
<1>3. MainOK'
  BY ReadEndsMoves DEF MainOK, Granting, KeeperFree
<1>4. KeeperOK'
  BY ReadEndsMoves, KeeperStays
<1> QED
  BY <1>1, <1>2, <1>3, <1>4

---------------------------------------------------------------------------
(* The steps that give a connection a descriptor, and the descriptor a lease *)

LEMMA AcceptConnMoves ==
  ASSUME IInv, AcceptConn
  PROVE  /\ th[Main].pc = "accept" /\ th'[Main].pc = "slot"
         /\ th'[Keeper] = th[Keeper]
         /\ LowestFreeFd \in Fds /\ conn[LowestFreeFd] = NoConn
         /\ \E c \in backlog :
              /\ \A g \in Fds :
                   conn'[g] = IF g = LowestFreeFd THEN c ELSE conn[g]
              /\ backlog' = backlog \ {c}
         /\ UNCHANGED <<info, fdMap, owner, peer, inbox, asked>>
<1> DEFINE f == LowestFreeFd
           l == [th[Main] EXCEPT !.pc = "slot", !.fd = f]
<1>1. f \in Fds /\ conn[f] = NoConn
  <2>1. FreeFds \in SUBSET Nat /\ FreeFds # {}
    BY SocketsAssumption DEF AcceptConn, FreeFds, Fds
  <2>2. f \in FreeFds
    BY <2>1, MinOfNats DEF LowestFreeFd
  <2> QED
    BY <2>2 DEF FreeFds, IsOpen
<1> HIDE DEF f
<1>2. th' = [th EXCEPT ![Main] = l] /\ l.pc = "slot"
  BY Basics DEF AcceptConn, Locals, f
<1>3. /\ th[Main].pc = "accept" /\ th'[Main].pc = "slot"
      /\ th'[Keeper] = th[Keeper]
  <2> HIDE DEF l
  <2> QED
    BY <1>2, MainMoved DEF AcceptConn, At
<1> HIDE DEF l
<1>4. PICK c \in backlog : /\ conn' = [conn EXCEPT ![f] = c]
                           /\ backlog' = backlog \ {c}
  BY DEF AcceptConn, f
<1>5. \A g \in Fds : conn'[g] = IF g = f THEN c ELSE conn[g]
  BY <1>1, <1>4, TableTypes
<1>6. UNCHANGED <<info, fdMap, owner, peer, inbox, asked>>
  BY DEF AcceptConn, tables
<1> QED
  BY <1>1, <1>3, <1>4, <1>5, <1>6 DEF f

LEMMA AcceptConnTable ==
  ASSUME TableInv, IInv', ~Overlap', AcceptConn
  PROVE  TableInv'
<1> USE DEF TableInv
<1>1. MapOK'
  BY AcceptConnMoves DEF MapOK
<1>2. ConnsOK'
  <2>1. PICK f \in Fds, c \in backlog :
          /\ \A g \in Fds : conn'[g] = IF g = f THEN c ELSE conn[g]
          /\ backlog' = backlog \ {c} /\ peer' = peer
    BY AcceptConnMoves
  <2>2. c \in Conns /\ c # NoConn
    BY TableTypes
  <2>3. \A g, h \in Fds : conn'[g] = conn'[h] /\ conn'[g] # NoConn => g = h
    BY <2>1, <2>2 DEF ConnsOK
  <2>4. \A g \in Fds : conn'[g] # NoConn =>
          conn'[g] \notin backlog' /\ peer'[conn'[g]] # "idle"
    BY <2>1 DEF ConnsOK
  <2>5. \A d \in backlog' : peer'[d] # "idle"
    BY <2>1 DEF ConnsOK
  <2> QED
    BY <2>3, <2>4, <2>5 DEF ConnsOK
<1>3. MainOK'
  BY AcceptConnMoves DEF MainOK, Granting, KeeperFree
<1>4. KeeperOK'
  BY AcceptConnMoves, KeeperStays
<1> QED
  BY <1>1, <1>2, <1>3, <1>4

\* process_packet reads the descriptor of the record.
LEMMA ReadPacketFdMoves ==
  ASSUME IInv, ReadPacketFd
  PROVE  /\ th[Main].pc = "rawfd" /\ UNCHANGED <<net, tables>>
         /\ th[Main].rec \in Addrs
         /\ th'[Keeper] = th[Keeper]
         /\ \/ th'[Main].pc = "raw"
            \/ /\ info[th[Main].rec].fd # NoFd /\ th'[Main].pc = "rawenter"
               /\ th'[Main].rec = th[Main].rec
               /\ th'[Main].out = info[th[Main].rec].fd
<1> DEFINE r == th[Main].rec
           f == info[r].fd
           l == [th[Main] EXCEPT !.pc = "rawenter", !.out = f]
<1>1. th[Main].pc = "rawfd" /\ UNCHANGED <<net, tables>>
  BY DEF ReadPacketFd, At
<1>2. r \in Addrs
  BY <1>1, Basics DEF ThreadOK, RecLabels
<1>3. CASE f = NoFd
  <2>1. th' = [th EXCEPT ![Main] = Fresh("raw", 0)]
    BY <1>3 DEF ReadPacketFd
  <2>2. th'[Main] = Fresh("raw", 0) /\ th'[Keeper] = th[Keeper]
    BY <2>1, MainMoved
  <2>3. th'[Main].pc = "raw"
    BY <2>2, FreshPc, Zenon
  <2> QED
    BY <1>1, <1>2, <2>2, <2>3
<1>4. CASE f # NoFd
  <2>1. /\ th' = [th EXCEPT ![Main] = l] /\ l.pc = "rawenter" /\ l.rec = r
        /\ l.out = f
    BY <1>4, Basics DEF ReadPacketFd, Locals
  <2> HIDE DEF l
  <2>2. th'[Main] = l /\ th'[Keeper] = th[Keeper]
    BY <2>1, MainMoved
  <2> QED
    BY <1>1, <1>2, <1>4, <2>1, <2>2
<1> QED
  BY <1>3, <1>4

LEMMA ReadPacketFdTable ==
  ASSUME TableInv, IInv', ~Overlap', ReadPacketFd
  PROVE  TableInv'
<1>1. MainOK'
  BY ReadPacketFdMoves DEF TableInv, MainOK, Granting, KeeperFree
<1> QED
  BY <1>1, ReadPacketFdMoves, MainTableOnly DEF TableInv

\* write finds the connection that the descriptor denotes by then.
LEMMA EnterPacketWriteMoves ==
  ASSUME IInv, EnterPacketWrite
  PROVE  /\ th[Main].pc = "rawenter" /\ th'[Main].pc = "rawwrite"
         /\ UNCHANGED <<net, tables>>
         /\ th'[Main].rec = th[Main].rec
         /\ th'[Main].to = conn[th[Main].out]
         /\ th'[Keeper] = th[Keeper]
<1> DEFINE l == [th[Main] EXCEPT !.pc = "rawwrite", !.out = NoFd,
                                 !.to = ConnOf(th[Main].out)]
<1>1. th[Main].pc = "rawenter" /\ UNCHANGED <<net, tables>>
  BY DEF EnterPacketWrite, At
<1>2. th[Main].out \in Fds
  BY <1>1, Basics DEF ThreadOK
<1>3. /\ th' = [th EXCEPT ![Main] = l] /\ l.pc = "rawwrite"
      /\ l.rec = th[Main].rec /\ l.to = ConnOf(th[Main].out)
  BY Basics DEF EnterPacketWrite, Locals
<1>4. ConnOf(th[Main].out) = conn[th[Main].out]
  BY <1>2, TableTypes DEF ConnOf
<1> HIDE DEF l
<1> QED
  BY <1>1, <1>3, <1>4, MainMoved

LEMMA EnterPacketWriteTable ==
  ASSUME TableInv, IInv', ~Overlap', EnterPacketWrite
  PROVE  TableInv'
<1>1. MainOK'
  BY EnterPacketWriteMoves DEF TableInv, MainOK, Granting, KeeperFree
<1> QED
  BY <1>1, EnterPacketWriteMoves, MainTableOnly DEF TableInv

\* The loop over client[] comes to a descriptor that is ready, or to its end.
LEMMA FindReadyMoves ==
  ASSUME IInv, FindReady
  PROVE  /\ th[Main].pc = "scan" /\ UNCHANGED <<net, tables>>
         /\ th'[Keeper] = th[Keeper]
         /\ \/ th'[Main].pc = "copy"
            \/ th'[Main].pc = "enter"
<1>1. th[Main].pc = "scan" /\ UNCHANGED <<net, tables>>
  BY DEF FindReady, At
<1>2. CASE NextIteration
  <2>1. th'[Main] = Fresh("copy", 0) /\ th'[Keeper] = th[Keeper]
    BY <1>2, MainMoved DEF NextIteration
  <2>2. th'[Main].pc = "copy"
    BY <2>1, FreshPc, Zenon
  <2> QED
    BY <1>1, <2>1, <2>2
<1>3. ASSUME NEW s, NEW f, ServeSlot(s, f)
      PROVE  th'[Keeper] = th[Keeper] /\ th'[Main].pc = "enter"
  <2> DEFINE l == [th[Main] EXCEPT !.pc = "enter", !.idx = s, !.fd = f]
  <2>1. th' = [th EXCEPT ![Main] = l] /\ l.pc = "enter"
    BY <1>3, Basics DEF Locals, ServeSlot
  <2> HIDE DEF l
  <2> QED
    BY <2>1, MainMoved
<1>4. CASE ~NextIteration
  <2>1. \E s, f : ServeSlot(s, f)
    BY <1>4 DEF FindReady
  <2> QED
    BY <1>1, <1>3, <2>1
<1> QED
  BY <1>2, <1>4

LEMMA FindReadyTable ==
  ASSUME TableInv, IInv', ~Overlap', FindReady
  PROVE  TableInv'
<1>1. UNCHANGED <<net, tables>> /\ th'[Keeper] = th[Keeper]
  BY FindReadyMoves DEF TableInv
<1>2. MainOK'
  BY <1>1, FindReadyMoves DEF TableInv, MainOK, Granting, KeeperFree, net
<1> QED
  BY <1>1, <1>2, MainTableOnly

\* read finds the connection that the descriptor denotes by then.
LEMMA EnterReadMoves ==
  ASSUME IInv, EnterRead
  PROVE  /\ th[Main].pc = "enter" /\ th'[Main].pc = "read"
         /\ UNCHANGED <<net, tables>>
         /\ th'[Main].fd = th[Main].fd /\ th[Main].fd \in Fds
         /\ th'[Main].to = conn[th[Main].fd]
         /\ th'[Main].idx = th[Main].idx
         /\ th'[Keeper] = th[Keeper]
<1> DEFINE l == [th[Main] EXCEPT !.pc = "read", !.to = ConnOf(th[Main].fd)]
<1>1. th[Main].pc = "enter" /\ UNCHANGED <<net, tables>>
  BY DEF EnterRead, At
<1>2. th[Main].fd \in Fds
  BY <1>1, Basics DEF ThreadOK, FdLabels
<1>3. /\ th' = [th EXCEPT ![Main] = l] /\ l.pc = "read"
      /\ l.fd = th[Main].fd /\ l.to = ConnOf(th[Main].fd)
      /\ l.idx = th[Main].idx
  BY Basics DEF EnterRead, Locals
<1>4. ConnOf(th[Main].fd) = conn[th[Main].fd]
  BY <1>2, TableTypes DEF ConnOf
<1> HIDE DEF l
<1> QED
  BY <1>1, <1>2, <1>3, <1>4, MainMoved

LEMMA EnterReadTable ==
  ASSUME TableInv, IInv', ~Overlap', EnterRead
  PROVE  TableInv'
<1>1. MainOK'
  <2>1. UNCHANGED conn
    BY EnterReadMoves DEF TableInv, net
  <2> QED
    BY <2>1, EnterReadMoves DEF TableInv, MainOK, Granting, KeeperFree
<1> QED
  BY <1>1, EnterReadMoves, MainTableOnly DEF TableInv

\* A message is read, and its type selects the handler.
LEMMA ReadMessageMoves ==
  ASSUME TableInv, ReadMessage
  PROVE  /\ th[Main].pc = "read" /\ UNCHANGED <<info, fdMap, owner>>
         /\ th[Main].fd \in Fds /\ th[Main].to = conn[th[Main].fd]
         /\ th[Main].to \in Conns
         /\ th'[Keeper] = th[Keeper] /\ th'[Main].fd = th[Main].fd
         /\ \/ inbox[th[Main].to] = "request" /\ th'[Main].pc = "alloc"
            \/ th'[Main].pc \in {"touch", "served"}
         /\ UNCHANGED <<conn, backlog, asked>>
         /\ \A d \in Conns :
              /\ peer[d] # "idle" => peer'[d] # "idle"
              /\ inbox'[d] = "request" =>
                   inbox[d] = "request" /\ d # th[Main].to
<1> USE DEF TableInv
<1> DEFINE f == th[Main].fd
           c == th[Main].to
<1>1. th[Main].pc = "read" /\ UNCHANGED <<info, fdMap, owner>>
  BY DEF ReadMessage, At, tables
<1>2. f \in Fds /\ c = conn[f] /\ c \in Conns
  BY <1>1, Basics, TableTypes DEF ReadMessage, ThreadOK, FdLabels, MainOK
<1>3. inbox[c] \in MessageKinds
  BY <1>2, TableTypes DEF ReadMessage
<1>4. /\ th'[Keeper] = th[Keeper] /\ th'[Main].fd = f
      /\ \/ inbox[c] = "request" /\ th'[Main].pc = "alloc"
         \/ th'[Main].pc \in {"touch", "served"}
  <2> DEFINE p == CASE inbox[c] = "request" -> "alloc"
                    [] inbox[c] = "refresh" -> "touch"
                    [] inbox[c] = "ignored" -> "served"
             l == [th[Main] EXCEPT !.pc = p, !.to = NoConn]
  <2>1. \/ inbox[c] = "request" /\ p = "alloc"
        \/ p \in {"touch", "served"}
    BY <1>3 DEF MessageKinds
  <2> HIDE DEF p
  <2>2. th' = [th EXCEPT ![Main] = l] /\ l.pc = p /\ l.fd = f
    BY Basics DEF ReadMessage, Locals, p
  <2> HIDE DEF l
  <2> QED
    BY <2>1, <2>2, MainMoved
<1>5. /\ UNCHANGED <<conn, backlog, asked>>
      /\ \A d \in Conns :
           /\ peer[d] # "idle" => peer'[d] # "idle"
           /\ inbox'[d] = "request" => inbox[d] = "request" /\ d # c
  BY EndCallKeeps DEF ReadMessage
<1> QED
  BY <1>1, <1>2, <1>4, <1>5

LEMMA ReadMessageTable ==
  ASSUME TableInv, IInv', ~Overlap', ReadMessage
  PROVE  TableInv'
<1> USE DEF TableInv
<1>1. MapOK'
  BY ReadMessageMoves DEF MapOK
<1>2. ConnsOK'
  BY ReadMessageMoves, ConnsStay
<1>3. MainOK'
  <2>1. conn'[th'[Main].fd] # NoConn
    BY ReadMessageMoves, TableTypes
  <2> QED
    BY <2>1, ReadMessageMoves DEF MainOK, Granting, KeeperFree
<1>4. KeeperOK'
  BY ReadMessageMoves, KeeperStays
<1> QED
  BY <1>1, <1>2, <1>3, <1>4

LEMMA GetFreeV4AddrMoves ==
  ASSUME IInv, GetFreeV4Addr
  PROVE  /\ th[Main].pc = "alloc" /\ UNCHANGED <<net, tables>>
         /\ th'[Keeper] = th[Keeper] /\ th'[Main].fd = th[Main].fd
         /\ th'[Main].pc \in {"served", "setinfo"}
<1>1. th[Main].pc = "alloc" /\ UNCHANGED <<net, tables>>
  BY DEF GetFreeV4Addr, At
<1>2. PICK l : /\ th' = [th EXCEPT ![Main] = l]
               /\ l.pc \in {"served", "setinfo"} /\ l.fd = th[Main].fd
  <2> DEFINE l1 == [th[Main] EXCEPT !.pc = "served"]
             l2 == [th[Main] EXCEPT !.pc = "setinfo", !.rec = Min(FreeAddrs)]
  <2>1. th' = [th EXCEPT ![Main] = l1] \/ th' = [th EXCEPT ![Main] = l2]
    BY Basics DEF GetFreeV4Addr, Locals
  <2>2. /\ l1.pc = "served" /\ l1.fd = th[Main].fd
        /\ l2.pc = "setinfo" /\ l2.fd = th[Main].fd
    BY Basics DEF Locals
  <2> HIDE DEF l1, l2
  <2> QED
    BY <2>1, <2>2
<1> QED
  BY <1>1, <1>2, MainMoved

LEMMA GetFreeV4AddrTable ==
  ASSUME TableInv, IInv', ~Overlap', GetFreeV4Addr
  PROVE  TableInv'
<1> USE DEF TableInv
<1>1. UNCHANGED <<net, tables>> /\ th'[Keeper] = th[Keeper]
  BY GetFreeV4AddrMoves
<1>2. MainOK'
  BY <1>1, GetFreeV4AddrMoves DEF MainOK, Granting, KeeperFree, net
<1> QED
  BY <1>1, <1>2, MainTableOnly

\* setUserInfo: the record is free, so that the map leads to it from nowhere.
LEMMA SetInfoMoves ==
  ASSUME IInv, SetInfo
  PROVE  /\ th[Main].pc = "setinfo" /\ th'[Main].pc = "setmap"
         /\ th'[Main].fd = th[Main].fd /\ th'[Main].rec = th[Main].rec
         /\ th'[Keeper] = th[Keeper]
         /\ th[Main].fd \in Fds /\ th[Main].fd # NoFd
         /\ th[Main].rec \in Addrs /\ info[th[Main].rec].fd = NoFd
         /\ \A a \in Addrs :
              /\ info'[a].fd = IF a = th[Main].rec THEN th[Main].fd
                               ELSE info[a].fd
              /\ owner'[a] = IF a = th[Main].rec THEN conn[th[Main].fd]
                             ELSE owner[a]
         /\ UNCHANGED <<conn, backlog, peer, inbox, asked, fdMap>>
<1> DEFINE f == th[Main].fd
           r == th[Main].rec
<1>1. /\ th[Main].pc = "setinfo" /\ th'[Main].pc = "setmap"
      /\ th'[Main].fd = f /\ th'[Main].rec = r /\ th'[Keeper] = th[Keeper]
  BY Jumps, Basics DEF SetInfo, At
<1>2. f \in Fds /\ f # NoFd /\ r \in Addrs /\ info[r].fd = NoFd
  <2>1. f \in Fds /\ r \in Addrs /\ info[r].state = "FREE"
    BY <1>1, Basics DEF ThreadOK, FdLabels, RecLabels, IInv, ThreadsInv, Backed
  <2> QED
    BY <2>1, TableTypes DEF IInv, RecordsInv, RecordOK
<1>3. /\ \A a \in Addrs : info'[a].fd = IF a = r THEN f ELSE info[a].fd
      /\ \A a \in Addrs : owner'[a] = IF a = r THEN conn[f] ELSE owner[a]
  BY <1>2, TableTypes DEF SetInfo, SetUserInfo
<1>4. UNCHANGED <<conn, backlog, peer, inbox, asked, fdMap>>
  BY DEF SetInfo, net
<1> QED
  BY <1>1, <1>2, <1>3, <1>4

LEMMA SetInfoTable ==
  ASSUME TableInv, IInv', ~Overlap', SetInfo
  PROVE  TableInv'
<1> USE DEF TableInv
<1>1. MapOK'
  <2> SUFFICES ASSUME NEW g \in Fds, fdMap[g] # NoInfo
               PROVE  info'[fdMap[g]].fd = g
    BY SetInfoMoves DEF MapOK
  <2>1. fdMap[g] \in Addrs /\ info[fdMap[g]].fd = g /\ g # NoFd
    BY TableTypes DEF MapOK
  <2> QED
    BY SetInfoMoves, <2>1
<1>2. ConnsOK'
  BY SetInfoMoves, ConnsStay
<1>3. MainOK'
  BY SetInfoMoves DEF MainOK, Granting, KeeperFree
<1>4. KeeperOK'
  BY SetInfoMoves, KeeperStays
<1> QED
  BY <1>1, <1>2, <1>3, <1>4

\* set_fd_info_map: an entry that is already there stays.
LEMMA SetFdInfoMapMoves ==
  ASSUME TableInv, SetFdInfoMap
  PROVE  /\ th[Main].pc = "setmap" /\ th'[Main].pc = "lockwrite"
         /\ th'[Keeper] = th[Keeper]
         /\ th[Main].fd \in Fds /\ th[Main].fd # NoFd
         /\ th[Keeper].fd # th[Main].fd
         /\ th[Main].rec \in Addrs /\ info[th[Main].rec].fd = th[Main].fd
         /\ \A g \in Fds :
              fdMap'[g] = IF g = th[Main].fd /\ fdMap[g] = NoInfo
                          THEN th[Main].rec ELSE fdMap[g]
         /\ UNCHANGED <<conn, backlog, peer, inbox, asked, info, owner>>
<1> USE DEF TableInv
<1> DEFINE f == th[Main].fd
           r == th[Main].rec
<1>1. /\ th[Main].pc = "setmap" /\ th'[Main].pc = "lockwrite"
      /\ th'[Keeper] = th[Keeper]
  BY Jumps, Basics DEF SetFdInfoMap, At
<1>2. f \in Fds /\ f # NoFd /\ r \in Addrs /\ info[r].fd = f
  BY <1>1, Basics, TableTypes DEF ThreadOK, FdLabels, RecLabels, MainOK
<1>3. \A g \in Fds :
        fdMap'[g] = IF g = f /\ fdMap[g] = NoInfo THEN r ELSE fdMap[g]
  BY <1>2, TableTypes DEF SetFdInfoMap
<1>4. UNCHANGED <<conn, backlog, peer, inbox, asked, info, owner>>
  BY DEF SetFdInfoMap, net
<1>5. th[Keeper].fd # f
  BY <1>2 DEF Overlap
<1> QED
  BY <1>1, <1>2, <1>3, <1>4, <1>5

LEMMA SetFdInfoMapTable ==
  ASSUME TableInv, IInv', ~Overlap', SetFdInfoMap
  PROVE  TableInv'
<1> USE DEF TableInv
<1>1. MapOK'
  BY SetFdInfoMapMoves DEF MapOK
<1>2. ConnsOK'
  BY SetFdInfoMapMoves, ConnsStay
<1>3. MainOK'
  BY SetFdInfoMapMoves DEF MainOK, Granting, KeeperFree
<1>4. KeeperOK'
  BY SetFdInfoMapMoves, KeeperStays
<1> QED
  BY <1>1, <1>2, <1>3, <1>4

---------------------------------------------------------------------------
(* The steps of the peers *)

LEMMA PeerMoves ==
  ASSUME IInv, NEW c \in Conns, Peer(c)
  PROVE  UNCHANGED <<info, fdMap, owner, th, conn>> /\ FdsSame
<1>1. UNCHANGED <<info, fdMap, owner, th>> /\ FdsSame
  BY DEF Peer, tables, FdsSame
<1>2. UNCHANGED conn
  BY DEF Peer, PeerStep, Connect, SendMessage, PeerClose, PeerReset, Stall,
         Drain
<1> QED
  BY <1>1, <1>2

LEMMA PeerTable ==
  ASSUME TableInv, IInv', ~Overlap', NEW c \in Conns, Peer(c)
  PROVE  TableInv'
<1> USE DEF TableInv
<1>1. UNCHANGED <<info, fdMap, th, conn>> /\ FdsSame
  BY PeerMoves
<1>2. ConnsOK'
  <2>1. CASE Connect(c)
    <3>1. /\ peer[c] = "idle" /\ backlog' = backlog \cup {c}
          /\ \A d \in Conns : peer'[d] = IF d = c THEN "up" ELSE peer[d]
      BY <2>1, TableTypes DEF Connect
    <3>2. \A f \in Fds : conn[f] # NoConn => conn[f] \in Conns
      BY TableTypes
    <3>3. backlog \subseteq Conns
      BY TableTypes
    <3> QED
      BY <1>1, <3>1, <3>2, <3>3 DEF ConnsOK
  <2>2. CASE ~Connect(c)
    <3>1. UNCHANGED backlog
      BY <2>2 DEF Peer, PeerStep, SendMessage, PeerClose, PeerReset, Stall,
                  Drain
    <3>2. \A d \in Conns : peer[d] # "idle" => peer'[d] # "idle"
      BY <2>2, TableTypes DEF Peer, PeerStep, SendMessage, PeerClose,
         PeerReset, Stall, Drain
    <3> QED
      BY <1>1, <3>1, <3>2, ConnsStay
  <2> QED
    BY <2>1, <2>2
<1>3. MapOK' /\ MainOK' /\ KeeperOK'
  BY <1>1 DEF MapOK, MainOK, KeeperOK
<1> QED
  BY <1>2, <1>3

---------------------------------------------------------------------------
(* The two maps agree *)

LEMMA TableInitially == Init => TableInv
<1> SUFFICES ASSUME Init PROVE TableInv
  OBVIOUS
<1>1. IInv
  BY InitInv
<1>2. /\ \A f \in Fds : fdMap[f] = NoInfo /\ conn[f] = NoConn
      /\ backlog = {}
  BY DEF Init, ServerStateInit, SocketsInit
<1>3. th[Main] = Fresh("copy", 0) /\ th[Keeper] = Fresh("sleep", 0)
  BY DEF Init, ServerStateInit, Threads, Main, Keeper
<1>4. th[Main].pc = "copy" /\ th[Keeper].pc = "sleep" /\ th[Main].fd = NoFd
  BY <1>3, FreshPc
<1>5. MapOK /\ ConnsOK
  BY <1>2 DEF MapOK, ConnsOK
<1>6. MainOK /\ KeeperOK /\ ~Overlap
  BY <1>4 DEF MainOK, KeeperOK, Overlap, Granting, KeeperFree, KeeperClear
<1> QED
  BY <1>1, <1>5, <1>6 DEF TableInv

LEMMA SharedStepTable ==
  ASSUME TableInv, IInv', ~Overlap', NEW t \in Threads, SharedStep(t)
  PROVE  TableInv'
<1>1. CASE LockWrite(t) \/ UnlockWrite(t)
  BY <1>1, MainColdTable, KeeperColdTable DEF Threads
<1>2. CASE LookupByFd(t) \/ ClrFdSet(t) \/ ClearSlot(t)
  BY <1>2, TearDownTable
<1>3. CASE LockFdMap(t)
  BY <1>3, LockFdMapTable
<1>4. CASE FreeUnderLock(t)
  BY <1>4, FreeUnderLockTable
<1> QED
  BY <1>1, <1>2, <1>3, <1>4 DEF SharedStep

LEMMA TableStep ==
  ASSUME TableInv, [Next /\ ~Overlap']_vars
  PROVE  TableInv'
<1>1. IInv'
  BY NextInv DEF TableInv
<1>2. ~Overlap'
  BY DEF Overlap, vars, TableInv
<1>3. CASE MainStep
  <2>1. CASE \/ CopyAllset \/ SelectFails \/ SelectWaits \/ SelectReturns
             \/ AcceptFails \/ FillSlot \/ SetFdSet
             \/ RecvPacket \/ WritePacket \/ PacketsDone
             \/ RequestDone \/ GetUserInfoByFd \/ RenewLease
    BY <1>1, <1>2, <2>1, MainColdTable
  <2>2. CASE AcceptConn
    BY <1>1, <1>2, <2>2, AcceptConnTable
  <2>3. CASE ReadPacketFd
    BY <1>1, <1>2, <2>3, ReadPacketFdTable
  <2>4. CASE FindReady
    BY <1>1, <1>2, <2>4, FindReadyTable
  <2>5. CASE ReadEnds
    BY <1>1, <1>2, <2>5, ReadEndsTable
  <2>6. CASE ReadMessage
    BY <1>1, <1>2, <2>6, ReadMessageTable
  <2>7. CASE GetFreeV4Addr
    BY <1>1, <1>2, <2>7, GetFreeV4AddrTable
  <2>8. CASE SetInfo
    BY <1>1, <1>2, <2>8, SetInfoTable
  <2>9. CASE SetFdInfoMap
    BY <1>1, <1>2, <2>9, SetFdInfoMapTable
  <2>10. CASE SharedStep(Main)
    BY <1>1, <1>2, <2>10, SharedStepTable DEF Threads
  <2>11. CASE EnterPacketWrite
    BY <1>1, <1>2, <2>11, EnterPacketWriteTable
  <2>12. CASE EnterRead
    BY <1>1, <1>2, <2>12, EnterReadTable
  <2>13. CASE ClearPastEnd
    BY <1>1, <1>2, <2>13, TearDownTable DEF Threads
  <2> QED
    BY <1>3, <2>1, <2>2, <2>3, <2>4, <2>5, <2>6, <2>7, <2>8, <2>9, <2>10,
       <2>11, <2>12, <2>13
    DEF MainStep
<1>4. CASE KeeperThread
  <2>1. CASE \/ WakeUp \/ ReadState \/ CountDown \/ CheckNeedSend
             \/ RestartCount \/ CheckTimeOut \/ ReadFd
    BY <1>1, <1>2, <2>1, KeeperColdTable
  <2>2. CASE FindSlot
    BY <1>1, <1>2, <2>2, FindSlotTable
  <2>3. CASE CloseTimedOut
    BY <1>1, <1>2, <2>3, CloseTimedOutTable
  <2>4. CASE SharedStep(Keeper)
    BY <1>1, <1>2, <2>4, SharedStepTable DEF Threads
  <2> QED
    BY <1>4, <2>1, <2>2, <2>3, <2>4 DEF KeeperThread, KeeperStep
<1>5. CASE Tick \/ UNCHANGED vars
  BY <1>1, <1>2, <1>5, OtherColdTable
<1>6. CASE \E c \in Conns : Peer(c)
  BY <1>1, <1>2, <1>6, PeerTable
<1> QED
  BY <1>3, <1>4, <1>5, <1>6 DEF Next

LEMMA TableInvariance == ApartSpec => []TableInv
<1>1. Init => TableInv
  BY TableInitially
<1>2. TableInv /\ [Next /\ ~Overlap']_vars => TableInv'
  BY TableStep
<1> QED
  BY <1>1, <1>2, PTL DEF ApartSpec

\* When the threads keep apart, free_resource_of_fd and release_fd_info_map
\* leave no entry of fd_map_info behind that leads to a record of another
\* descriptor, however often a client asks for an address.
THEOREM MapsAgree == ApartSpec => []MapMatchesTable
<1>1. TableInv => MapMatchesTable
  BY DEF TableInv, MapOK, MapMatchesTable
<1> QED
  BY <1>1, TableInvariance, PTL


---------------------------------------------------------------------------
(* What each part of the lease invariant needs of a step *)

LEMMA LeasesStay ==
  ASSUME LeasesOK, FdsSame, UNCHANGED <<fdMap, conn, owner>>,
         th[Main].pc = "setmap" =>
           th'[Main].pc = "setmap" /\ th'[Main].rec = th[Main].rec,
         th[Main].pc \in TornDown =>
           th'[Main].pc \in TornDown /\ th'[Main].fd = th[Main].fd
  PROVE  LeasesOK'
BY DEF LeasesOK, FdsSame

LEMMA AsksStay ==
  ASSUME AsksOK, FdsSame, UNCHANGED <<conn, asked>>,
         \A c \in Conns : inbox'[c] = "request" => inbox[c] = "request",
         th'[Main].pc \in Granting =>
           th[Main].pc \in Granting /\ th'[Main].fd = th[Main].fd
  PROVE  AsksOK'
<1>1. \A c : Served(c)' => Served(c)
  BY DEF Served, FdsSame
<1> QED
  BY <1>1 DEF AsksOK

LEMMA MainLeaseStays ==
  ASSUME IInv, MainLeaseOK, th'[Main] = th[Main], UNCHANGED owner,
         th[Main].fd \in Fds => fdMap'[th[Main].fd] = fdMap[th[Main].fd],
         \A a \in Addrs : info'[a].fd \in {info[a].fd, NoFd},
         \A f \in Fds : conn'[f] \in {conn[f], NoConn}
  PROVE  MainLeaseOK'
<1>1. th[Main].pc \in {"setmap"} \cup Granting => th[Main].fd \in Fds
  BY Basics DEF ThreadOK, FdLabels, Granting
<1>2. th[Main].fd \in Fds /\ Leased(th[Main].fd)' => Leased(th[Main].fd)
  BY TableTypes DEF Leased
<1>3. th[Main].pc = "rawenter" => th[Main].out \in Fds
  BY Basics DEF ThreadOK
<1> QED
  BY <1>1, <1>2, <1>3 DEF MainLeaseOK

LEMMA KeeperLeaseStays ==
  ASSUME KeeperOK, KeeperLeaseOK, th'[Keeper] = th[Keeper],
         th[Keeper].fd \in Fds =>
           \A a \in Addrs :
             info'[a].fd = th[Keeper].fd => info[a].fd = th[Keeper].fd
  PROVE  KeeperLeaseOK'
<1>1. th[Keeper].fd \in Fds /\ Leased(th[Keeper].fd)' => Leased(th[Keeper].fd)
  BY DEF Leased
<1> QED
  BY <1>1 DEF KeeperOK, KeeperLeaseOK

\* A step that changes no lease, and takes no thread to a label at which the
\* invariant says something of it.
LEMMA LeavesLeases ==
  ASSUME LeaseTableInv, TableInv',
         FdsSame, UNCHANGED <<fdMap, owner, conn, asked>>,
         \A c \in Conns : inbox'[c] = "request" => inbox[c] = "request",
         \/ th'[Main] = th[Main]
         \/ /\ th'[Main].pc \notin MainHot
            /\ th[Main].pc \notin TornDown \cup {"setmap"},
         \/ th'[Keeper] = th[Keeper]
         \/ th'[Keeper].pc \notin KeeperClear
  PROVE  LeaseTableInv'
<1> USE DEF LeaseTableInv, TableInv
<1>1. LeasesOK'
  BY LeasesStay
<1>2. AsksOK'
  <2>1. th'[Main].pc \in Granting =>
          th[Main].pc \in Granting /\ th'[Main].fd = th[Main].fd
    BY DEF MainHot
  <2> QED
    BY <2>1, AsksStay
<1>3. MainLeaseOK'
  <2>1. CASE th'[Main] = th[Main]
    BY <2>1, MainLeaseStays DEF FdsSame
  <2>2. CASE th'[Main].pc \notin MainHot
    BY <2>2 DEF MainLeaseOK, MainHot
  <2> QED
    BY <2>1, <2>2
<1>4. KeeperLeaseOK'
  <2>1. CASE th'[Keeper] = th[Keeper]
    BY <2>1, KeeperLeaseStays DEF FdsSame
  <2>2. CASE th'[Keeper].pc \notin KeeperClear
    BY <2>2 DEF KeeperLeaseOK
  <2> QED
    BY <2>1, <2>2
<1> QED
  BY <1>1, <1>2, <1>3, <1>4

\* A step of one thread that leaves the tables and the network alone.
LEMMA MainOnly ==
  ASSUME LeaseTableInv, TableInv', UNCHANGED <<net, tables>>,
         th'[Keeper] = th[Keeper], LeasesOK', MainLeaseOK',
         th'[Main].pc \in Granting =>
           th[Main].pc \in Granting /\ th'[Main].fd = th[Main].fd
  PROVE  LeaseTableInv'
<1>1. FdsSame
  BY DEF tables, FdsSame
<1>2. AsksOK'
  BY <1>1, AsksStay DEF LeaseTableInv, net
<1>3. KeeperLeaseOK'
  BY <1>1, KeeperLeaseStays DEF LeaseTableInv, TableInv, FdsSame
<1> QED
  BY <1>2, <1>3 DEF LeaseTableInv

LEMMA KeeperOnly ==
  ASSUME LeaseTableInv, TableInv', UNCHANGED <<net, tables>>,
         th'[Main] = th[Main], KeeperLeaseOK'
  PROVE  LeaseTableInv'
<1>1. FdsSame
  BY DEF tables, FdsSame
<1>2. LeasesOK' /\ AsksOK'
  BY <1>1, LeasesStay, AsksStay DEF LeaseTableInv, net, tables
<1>3. MainLeaseOK'
  BY MainLeaseStays DEF LeaseTableInv, TableInv, tables, net
<1> QED
  BY <1>2, <1>3 DEF LeaseTableInv

\* Steps that change no lease.
LEMMA ColdLeases ==
  ASSUME LeaseTableInv, TableInv',
         \/ CopyAllset \/ SelectFails \/ SelectWaits \/ SelectReturns
         \/ AcceptFails \/ FillSlot \/ SetFdSet
         \/ RecvPacket \/ WritePacket \/ PacketsDone
         \/ RequestDone \/ GetUserInfoByFd \/ RenewLease
         \/ LockWrite(Main) \/ UnlockWrite(Main)
         \/ WakeUp \/ ReadState \/ CountDown \/ CheckNeedSend
         \/ RestartCount \/ CheckTimeOut \/ ReadFd
         \/ LockWrite(Keeper) \/ UnlockWrite(Keeper)
         \/ Tick \/ UNCHANGED vars
  PROVE  LeaseTableInv'
<1>1. IInv
  BY DEF LeaseTableInv, TableInv
<1>2. /\ FdsSame /\ UNCHANGED <<fdMap, owner, conn, asked>>
      /\ \A c \in Conns : inbox'[c] = "request" => inbox[c] = "request"
  BY <1>1, ColdFrame
<1>3. /\ \/ th'[Main] = th[Main]
         \/ /\ th'[Main].pc \notin MainHot
            /\ th[Main].pc \notin TornDown \cup {"setmap"}
      /\ \/ th'[Keeper] = th[Keeper]
         \/ th'[Keeper].pc \notin KeeperClear
  <2>1. CASE \/ CopyAllset \/ SelectFails \/ SelectWaits \/ SelectReturns
             \/ AcceptFails \/ FillSlot \/ SetFdSet
             \/ RecvPacket \/ WritePacket \/ PacketsDone
             \/ RequestDone \/ GetUserInfoByFd \/ RenewLease
             \/ LockWrite(Main) \/ UnlockWrite(Main)
    BY <1>1, <2>1, MainColdMoves
  <2>2. CASE \/ WakeUp \/ ReadState \/ CountDown \/ CheckNeedSend
             \/ RestartCount \/ CheckTimeOut \/ ReadFd
             \/ LockWrite(Keeper) \/ UnlockWrite(Keeper)
    BY <1>1, <2>2, KeeperColdMoves
  <2>3. CASE Tick \/ UNCHANGED vars
    BY <2>3 DEF Tick, vars
  <2> QED
    BY <2>1, <2>2, <2>3
<1> QED
  BY <1>2, <1>3, LeavesLeases

---------------------------------------------------------------------------
(* Facts about the leases *)

\* A descriptor the map does not lead from, or from which it leads to a record
\* without a descriptor, has no lease, unless one is on its way into the map.
LEMMA NotLeased ==
  ASSUME LeaseTableInv, NEW f \in Fds,
         fdMap[f] = NoInfo \/ info[fdMap[f]].fd = NoFd,
         ~(th[Main].pc = "setmap" /\ th[Main].fd = f)
  PROVE  ~Leased(f)
<1> SUFFICES ASSUME NEW a \in Addrs, info[a].fd = f PROVE FALSE
  BY DEF Leased
<1>1. f # NoFd /\ a # NoInfo
  BY TableTypes DEF LeaseTableInv, TableInv
<1>2. fdMap[f] = a \/ (th[Main].pc = "setmap" /\ th[Main].rec = a)
  BY <1>1 DEF LeaseTableInv, LeasesOK
<1>3. th[Main].pc # "setmap" \/ th[Main].rec # a
  BY DEF LeaseTableInv, TableInv, MainOK
<1> QED
  BY <1>1, <1>2, <1>3

\* No descriptor has two leases.
LEMMA OneLease ==
  ASSUME LeaseTableInv, NEW a \in Addrs, NEW b \in Addrs,
         info[a].fd # NoFd, info[a].fd = info[b].fd
  PROVE  a = b
<1>1. /\ fdMap[info[a].fd] = a \/ (th[Main].pc = "setmap" /\ th[Main].rec = a)
      /\ fdMap[info[a].fd] = b \/ (th[Main].pc = "setmap" /\ th[Main].rec = b)
  BY DEF LeaseTableInv, LeasesOK
<1>2. th[Main].pc = "setmap" =>
        info[th[Main].rec].fd = th[Main].fd /\ fdMap[th[Main].fd] = NoInfo
  BY DEF LeaseTableInv, TableInv, MainOK, MainLeaseOK
<1>3. a # NoInfo /\ b # NoInfo
  BY TableTypes DEF LeaseTableInv, TableInv
<1> QED
  BY <1>1, <1>2, <1>3

---------------------------------------------------------------------------
(* Each step and the leases *)

LEMMA TearDownLeases ==
  ASSUME LeaseTableInv, TableInv', NEW t \in Threads,
         \/ LookupByFd(t) \/ ClrFdSet(t) \/ ClearSlot(t)
         \/ t = Main /\ ClearPastEnd
  PROVE  LeaseTableInv'
<1> USE DEF LeaseTableInv, TableInv
<1>1. UNCHANGED <<net, tables>>
  BY TearDownMoves
<1>2. CASE t = Main
  <2>1. /\ th[Main].pc \in {"lookup", "clr", "unslot"}
        /\ th'[Main].pc \in {"freelock", "unslot", "lookup"}
        /\ th'[Main].fd = th[Main].fd /\ th'[Keeper] = th[Keeper]
    BY <1>2, TearDownMoves, TwoThreads
  <2>2. LeasesOK'
    BY <1>1, <2>1, LeasesStay DEF net, tables, FdsSame, TornDown
  <2>3. MainLeaseOK' /\ th'[Main].pc \notin Granting
    BY <2>1 DEF MainLeaseOK, Granting
  <2> QED
    BY <1>1, <2>1, <2>2, <2>3, MainOnly
<1>3. CASE t = Keeper
  <2>1. /\ th'[Main] = th[Main]
        /\ th'[Keeper].fd = th[Keeper].fd
        /\ \/ th'[Keeper].pc = "freelock"
           \/ th[Keeper].pc = "clr" /\ th'[Keeper].pc = "slot"
           \/ th[Keeper].pc = "unslot" /\ th'[Keeper].pc = "close"
    BY <1>3, TearDownMoves, TwoThreads
  <2>2. Leased(th[Keeper].fd)' <=> Leased(th[Keeper].fd)
    BY <1>1, <2>1 DEF Leased, tables
  <2>3. KeeperLeaseOK'
    BY <2>1, <2>2 DEF KeeperLeaseOK, KeeperClear
  <2> QED
    BY <1>1, <2>1, <2>3, KeeperOnly
<1> QED
  BY <1>2, <1>3, TwoThreads

LEMMA FindSlotLeases ==
  ASSUME LeaseTableInv, TableInv', FindSlot
  PROVE  LeaseTableInv'
<1> USE DEF LeaseTableInv, TableInv
<1>1. Leased(th[Keeper].fd)' <=> Leased(th[Keeper].fd)
  BY FindSlotMoves DEF Leased, tables
<1>2. KeeperLeaseOK'
  BY <1>1, FindSlotMoves DEF KeeperLeaseOK, KeeperClear
<1> QED
  BY <1>2, FindSlotMoves, KeeperOnly

LEMMA LockFdMapLeases ==
  ASSUME LeaseTableInv, TableInv', NEW t \in Threads, LockFdMap(t)
  PROVE  LeaseTableInv'
<1> USE DEF LeaseTableInv
<1> DEFINE f == th[t].fd
<1>1. UNCHANGED <<net, tables>> /\ f \in Fds /\ f # NoFd
  BY LockFdMapMoves, TableTypes DEF TableInv
<1>2. ~(th[Main].pc = "setmap" /\ th[Main].fd = f)
  BY <1>1, LockFdMapMoves, TwoThreads DEF TableInv, Overlap
<1>3. th'[t].pc = "free" \/ ~Leased(f)
  BY <1>1, <1>2, LockFdMapMoves, NotLeased
<1>4. CASE t = Main
  <2>1. /\ th[Main].pc = "freelock" /\ th'[Main].pc \in {"free", "served"}
        /\ th'[Main].fd = f /\ th'[Keeper] = th[Keeper]
    BY <1>4, LockFdMapMoves, TwoThreads
  <2>2. LeasesOK'
    <3>1. CASE th'[Main].pc = "free"
      BY <1>1, <1>4, <2>1, <3>1, LeasesStay
      DEF net, tables, FdsSame, TornDown
    <3>2. CASE ~Leased(f)
      <4>1. \A a \in Addrs : info[a].fd # f
        BY <3>2 DEF Leased
      <4>2. \A a \in Addrs : info[a].fd # NoFd =>
              fdMap[info[a].fd] = a /\ conn[info[a].fd] = owner[a]
                /\ owner[a] # NoConn
        BY <1>4, <2>1, <4>1 DEF LeasesOK
      <4>3. UNCHANGED <<conn, info, fdMap, owner>>
        BY <1>1 DEF net, tables
      <4> QED
        BY <4>2, <4>3 DEF LeasesOK
    <3> QED
      BY <1>3, <1>4, <3>1, <3>2
  <2>3. MainLeaseOK' /\ th'[Main].pc \notin Granting
    BY <2>1 DEF MainLeaseOK, Granting
  <2> QED
    BY <1>1, <2>1, <2>2, <2>3, MainOnly
<1>5. CASE t = Keeper
  <2>1. /\ th'[Keeper].pc = "free" \/ ~Leased(f)
        /\ th'[Keeper].fd = f /\ th'[Main] = th[Main]
    BY <1>3, <1>5, LockFdMapMoves, TwoThreads
  <2>2. Leased(th[Keeper].fd)' <=> Leased(f)
    BY <1>1, <1>5, <2>1 DEF Leased, tables
  <2>3. KeeperLeaseOK'
    BY <1>5, <2>1, <2>2 DEF KeeperLeaseOK, KeeperClear
  <2> QED
    BY <1>1, <2>1, <2>3, KeeperOnly
<1> QED
  BY <1>4, <1>5, TwoThreads

\* freeResource and release_fd_info_map: the lease of the descriptor in hand.
LEMMA FreeUnderLockLeases ==
  ASSUME LeaseTableInv, TableInv', NEW t \in Threads, FreeUnderLock(t)
  PROVE  LeaseTableInv'
<1> USE DEF LeaseTableInv
<1> DEFINE f == th[t].fd
           r == th[t].rec
<1>1. IInv /\ ~Overlap' /\ KeeperOK
  BY DEF TableInv
<1>2. \A a \in Addrs \ {r} : info[a].fd # f
  BY <1>1, Frees, OneLease
<1>3. LeasesOK'
  <2> SUFFICES ASSUME NEW a \in Addrs, a # r, info[a].fd # NoFd
               PROVE  /\ \/ fdMap[info[a].fd]' = a
                         \/ th'[Main].pc = "setmap" /\ th'[Main].rec = a
                      /\ \/ conn[info[a].fd]' = owner'[a] /\ owner'[a] # NoConn
                         \/ th'[Main].pc \in TornDown
                              /\ th'[Main].fd = info'[a].fd
    BY <1>1, Frees DEF LeasesOK
  <2>1. /\ info'[a].fd = info[a].fd /\ info[a].fd \in Fds /\ info[a].fd # f
        /\ fdMap'[info[a].fd] = fdMap[info[a].fd]
    BY <1>1, <1>2, Frees, TableTypes
  <2>2. UNCHANGED <<conn, owner>>
    BY <1>1, Frees
  <2>3. CASE t = Main
    <3>1. fdMap[info[a].fd] = a /\ conn[info[a].fd] = owner[a]
            /\ owner[a] # NoConn
      BY <1>1, <2>1, <2>3, Frees DEF LeasesOK
    <3> QED
      BY <2>1, <2>2, <3>1
  <2>4. CASE t = Keeper
    <3>1. th'[Main] = th[Main]
      BY <1>1, <2>4, Frees, TwoThreads
    <3> QED
      BY <2>1, <2>2, <3>1 DEF LeasesOK
  <2> QED
    BY <2>3, <2>4, TwoThreads
<1>4. AsksOK'
  <2>1. th'[Main].pc \in Granting =>
          th[Main].pc \in Granting /\ th'[Main] = th[Main]
    BY <1>1, Frees, TwoThreads DEF Granting
  <2>2. \A c : Served(c)' => Served(c)
    <3> SUFFICES ASSUME NEW c, Served(c)' PROVE Served(c)
      OBVIOUS
    <3>1. CASE \E a \in Addrs : info'[a].fd # NoFd /\ conn'[info'[a].fd] = c
      BY <1>1, <3>1, Frees DEF Served
    <3>2. CASE th'[Main].pc \in Granting /\ conn'[th'[Main].fd] = c
      BY <1>1, <2>1, <3>2, Frees DEF Served
    <3> QED
      BY <3>1, <3>2 DEF Served
  <2> QED
    BY <1>1, <2>2, Frees DEF AsksOK
<1>5. MainLeaseOK'
  <2>1. CASE t = Main
    <3>1. th'[Main].pc = "served"
      BY <1>1, <2>1, Frees
    <3> QED
      BY <3>1 DEF MainLeaseOK, Granting
  <2>2. CASE t = Keeper
    <3>1. th'[Main] = th[Main] /\ th[Main].fd # f
      BY <1>1, <2>2, Frees, TwoThreads
    <3> QED
      BY <1>1, <3>1, Frees, MainLeaseStays
  <2> QED
    BY <2>1, <2>2, TwoThreads
<1>6. KeeperLeaseOK'
  <2>1. CASE t = Main
    <3>1. th'[Keeper] = th[Keeper]
      BY <1>1, <2>1, Frees, TwoThreads
    <3>2. th[Keeper].fd \in Fds => th[Keeper].fd # NoFd
      BY <1>1, TableTypes
    <3> QED
      BY <1>1, <3>1, <3>2, Frees, KeeperLeaseStays
  <2>2. CASE t = Keeper
    <3>1. th'[Keeper].fd = f
      BY <1>1, <2>2, Frees
    <3>2. \A a \in Addrs : info'[a].fd # f
      BY <1>1, <1>2, Frees
    <3> QED
      BY <3>1, <3>2 DEF KeeperLeaseOK, Leased
  <2> QED
    BY <2>1, <2>2, TwoThreads
<1> QED
  BY <1>3, <1>4, <1>5, <1>6

\* The close at the end of keep_alive_thread: nobody's lease is on the
\* descriptor any more.
LEMMA CloseTimedOutLeases ==
  ASSUME LeaseTableInv, TableInv', CloseTimedOut
  PROVE  LeaseTableInv'
<1> USE DEF LeaseTableInv
<1> DEFINE f == th[Keeper].fd
<1>1. IInv /\ TableInv
  BY DEF TableInv
<1>2. \A a \in Addrs : info[a].fd # f
  BY CloseTimedOutMoves DEF KeeperLeaseOK, KeeperClear, Leased
<1>3. LeasesOK'
  <2>1. \A a \in Addrs :
          info[a].fd # NoFd => conn'[info[a].fd] = conn[info[a].fd]
    BY <1>1, <1>2, CloseTimedOutMoves, TableTypes
  <2> QED
    BY <2>1, CloseTimedOutMoves DEF LeasesOK
<1>4. AsksOK'
  <2>1. \A c \in Conns : Served(c)' => Served(c)
    <3> SUFFICES ASSUME NEW c \in Conns, Served(c)' PROVE Served(c)
      OBVIOUS
    <3>1. CASE \E a \in Addrs : info'[a].fd # NoFd /\ conn'[info'[a].fd] = c
      BY <1>1, <1>2, <3>1, CloseTimedOutMoves, TableTypes DEF Served
    <3>2. CASE th'[Main].pc \in Granting /\ conn'[th'[Main].fd] = c
      <4>1. th[Main].fd \in Fds /\ th'[Main] = th[Main]
        BY <1>1, <3>2, CloseTimedOutMoves, Basics
        DEF ThreadOK, FdLabels, Granting
      <4> QED
        BY <3>2, <4>1, CloseTimedOutMoves DEF Served
    <3> QED
      BY <3>1, <3>2 DEF Served
  <2> QED
    BY <2>1, CloseTimedOutMoves DEF AsksOK
<1>5. MainLeaseOK'
  BY <1>1, CloseTimedOutMoves, MainLeaseStays
<1>6. KeeperLeaseOK'
  BY CloseTimedOutMoves DEF KeeperLeaseOK, KeeperClear
<1> QED
  BY <1>3, <1>4, <1>5, <1>6

\* The end of a connection, in do_response: the lease on the descriptor stays
\* until free_resource_of_fd.
LEMMA ReadEndsLeases ==
  ASSUME LeaseTableInv, TableInv', ReadEnds
  PROVE  LeaseTableInv'
<1> USE DEF LeaseTableInv
<1>1. IInv /\ TableInv
  BY DEF TableInv
<1>2. LeasesOK'
  <2> SUFFICES ASSUME NEW a \in Addrs, info[a].fd # NoFd
               PROVE  /\ fdMap[info[a].fd] = a
                      /\ \/ conn'[info[a].fd] = owner[a] /\ owner[a] # NoConn
                         \/ th'[Main].pc \in TornDown
                              /\ th'[Main].fd = info[a].fd
    BY ReadEndsMoves DEF LeasesOK
  <2>1. /\ fdMap[info[a].fd] = a
        /\ conn[info[a].fd] = owner[a] /\ owner[a] # NoConn
    BY ReadEndsMoves DEF LeasesOK, TornDown
  <2> QED
    BY <1>1, <2>1, ReadEndsMoves, TableTypes DEF TornDown
<1>3. AsksOK'
  <2>1. \A c \in Conns : Served(c)' => Served(c)
    BY <1>1, ReadEndsMoves, TableTypes DEF Served, Granting
  <2> QED
    BY <2>1, ReadEndsMoves DEF AsksOK
<1>4. MainLeaseOK'
  BY ReadEndsMoves DEF MainLeaseOK, Granting
<1>5. KeeperLeaseOK'
  BY ReadEndsMoves, KeeperLeaseStays DEF TableInv
<1> QED
  BY <1>2, <1>3, <1>4, <1>5

\* A descriptor accept returns has no lease: it was not open.
LEMMA AcceptConnLeases ==
  ASSUME LeaseTableInv, TableInv', AcceptConn
  PROVE  LeaseTableInv'
<1> USE DEF LeaseTableInv
<1>1. IInv
  BY DEF TableInv
<1>2. th[Main].pc = "accept" /\ th'[Main].pc = "slot"
        /\ th'[Keeper] = th[Keeper]
  BY <1>1, AcceptConnMoves
<1>3. PICK f \in Fds, c \in backlog :
        /\ conn[f] = NoConn
        /\ \A g \in Fds : conn'[g] = IF g = f THEN c ELSE conn[g]
        /\ UNCHANGED <<info, fdMap, owner, peer, inbox, asked>>
  BY <1>1, AcceptConnMoves
<1>4. \A a \in Addrs : info[a].fd # f
  <2> SUFFICES ASSUME NEW a \in Addrs, info[a].fd = f PROVE FALSE
    OBVIOUS
  <2>1. f # NoFd
    BY <1>1, TableTypes
  <2>2. conn[f] = owner[a] /\ owner[a] # NoConn
    BY <1>2, <2>1 DEF LeasesOK, TornDown
  <2> QED
    BY <1>3, <2>2
<1>5. \A a \in Addrs : info[a].fd # NoFd => conn'[info[a].fd] = conn[info[a].fd]
  BY <1>1, <1>3, <1>4, TableTypes
<1>6. LeasesOK'
  BY <1>2, <1>3, <1>5 DEF LeasesOK, TornDown
<1>7. AsksOK'
  <2>1. \A d : Served(d)' => Served(d)
    BY <1>2, <1>3, <1>5 DEF Served, Granting
  <2> QED
    BY <1>3, <2>1 DEF AsksOK
<1>8. MainLeaseOK'
  BY <1>2 DEF MainLeaseOK, Granting
<1>9. KeeperLeaseOK'
  BY <1>2, <1>3, KeeperLeaseStays DEF TableInv
<1> QED
  BY <1>6, <1>7, <1>8, <1>9

\* The descriptor process_packet reads is the holder's, or there is none.
LEMMA ReadPacketFdLeases ==
  ASSUME LeaseTableInv, TableInv', ReadPacketFd
  PROVE  LeaseTableInv'
<1> USE DEF LeaseTableInv
<1> DEFINE r == th[Main].rec
<1>1. IInv
  BY DEF TableInv
<1>2. /\ th[Main].pc = "rawfd" /\ r \in Addrs
      /\ UNCHANGED <<net, tables>> /\ th'[Keeper] = th[Keeper]
  BY <1>1, ReadPacketFdMoves
<1>3. info[r].fd # NoFd => conn[info[r].fd] = owner[r]
  BY <1>2 DEF LeasesOK, TornDown
<1>4. \/ th'[Main].pc = "raw"
      \/ /\ th'[Main].pc = "rawenter" /\ th'[Main].rec = r
         /\ conn[th'[Main].out] = owner[r]
  BY <1>1, <1>3, ReadPacketFdMoves
<1>5. LeasesOK'
  BY <1>2, LeasesStay DEF net, tables, FdsSame, TornDown
<1>6. MainLeaseOK' /\ th'[Main].pc \notin Granting
  <2>1. owner' = owner /\ conn' = conn
    BY <1>2 DEF tables, net
  <2> QED
    BY <1>4, <2>1 DEF MainLeaseOK, Granting
<1> QED
  BY <1>2, <1>5, <1>6, MainOnly

\* It may have been closed since, but the main thread, which accepts, has given
\* it to no other connection.
LEMMA EnterPacketWriteLeases ==
  ASSUME LeaseTableInv, TableInv', EnterPacketWrite
  PROVE  LeaseTableInv'
<1> USE DEF LeaseTableInv
<1>1. /\ th[Main].pc = "rawenter" /\ th'[Main].pc = "rawwrite"
      /\ UNCHANGED <<net, tables>> /\ th'[Keeper] = th[Keeper]
      /\ th'[Main].rec = th[Main].rec /\ th'[Main].to = conn[th[Main].out]
  BY EnterPacketWriteMoves DEF TableInv
<1>2. LeasesOK'
  BY <1>1, LeasesStay DEF net, tables, FdsSame, TornDown
<1>3. MainLeaseOK' /\ th'[Main].pc \notin Granting
  BY <1>1 DEF MainLeaseOK, Granting, tables
<1> QED
  BY <1>1, <1>2, <1>3, MainOnly

LEMMA FindReadyLeases ==
  ASSUME LeaseTableInv, TableInv', FindReady
  PROVE  LeaseTableInv'
<1> USE DEF LeaseTableInv
<1>1. /\ th[Main].pc = "scan" /\ UNCHANGED <<net, tables>>
      /\ th'[Keeper] = th[Keeper] /\ th'[Main].pc \in {"copy", "enter"}
  BY FindReadyMoves DEF TableInv
<1>2. LeasesOK'
  BY <1>1, LeasesStay DEF net, tables, FdsSame, TornDown
<1>3. MainLeaseOK' /\ th'[Main].pc \notin Granting
  BY <1>1 DEF MainLeaseOK, Granting
<1> QED
  BY <1>1, <1>2, <1>3, MainOnly

LEMMA EnterReadLeases ==
  ASSUME LeaseTableInv, TableInv', EnterRead
  PROVE  LeaseTableInv'
<1> USE DEF LeaseTableInv
<1>1. /\ th[Main].pc = "enter" /\ UNCHANGED <<net, tables>>
      /\ th'[Keeper] = th[Keeper] /\ th'[Main].pc = "read"
  BY EnterReadMoves DEF TableInv
<1>2. LeasesOK'
  BY <1>1, LeasesStay DEF net, tables, FdsSame, TornDown
<1>3. MainLeaseOK' /\ th'[Main].pc \notin Granting
  BY <1>1 DEF MainLeaseOK, Granting
<1> QED
  BY <1>1, <1>2, <1>3, MainOnly

\* A request that is read is that of a connection without a lease.
LEMMA ReadMessageLeases ==
  ASSUME LeaseTableInv, TableInv', ReadMessage
  PROVE  LeaseTableInv'
<1> USE DEF LeaseTableInv
<1> DEFINE f == th[Main].fd
           c == th[Main].to
<1>1. IInv /\ KeeperOK
  BY DEF TableInv
<1>2. FdsSame
  BY ReadMessageMoves DEF FdsSame
<1>3. CASE th'[Main].pc \in {"touch", "served"}
  <2>1. /\ th'[Main].pc \notin MainHot
        /\ th[Main].pc \notin TornDown \cup {"setmap"}
    BY <1>3, ReadMessageMoves DEF MainHot, TornDown, Granting
  <2> QED
    BY <1>2, <2>1, ReadMessageMoves, LeavesLeases
<1>4. CASE inbox[c] = "request" /\ th'[Main].pc = "alloc"
  <2>1. LeasesOK'
    BY <1>2, ReadMessageMoves, LeasesStay DEF TornDown
  <2>2. ~Served(c) /\ asked[c] > 0 /\ inbox'[c] # "request"
    BY <1>4, ReadMessageMoves DEF AsksOK
  <2>3. ~Leased(f)
    BY <1>1, <2>2, ReadMessageMoves, TableTypes DEF Served, Leased
  <2>4. MainLeaseOK'
    <3>1. Leased(th[Main].fd)' <=> Leased(f)
      BY ReadMessageMoves DEF Leased
    <3> QED
      BY <1>4, <2>3, <3>1 DEF MainLeaseOK, Granting
  <2>5. AsksOK'
    <3>1. \A d : d # c /\ Served(d)' => Served(d)
      BY ReadMessageMoves DEF Served
    <3>2. asked'[c] # 0
      BY <1>1, <2>2, ReadMessageMoves, TableTypes
    <3> QED
      BY <2>2, <3>1, <3>2, ReadMessageMoves DEF AsksOK
  <2>6. KeeperLeaseOK'
    BY <1>1, ReadMessageMoves, KeeperLeaseStays
  <2> QED
    BY <2>1, <2>4, <2>5, <2>6
<1> QED
  BY <1>3, <1>4, ReadMessageMoves

LEMMA GetFreeV4AddrLeases ==
  ASSUME LeaseTableInv, TableInv', GetFreeV4Addr
  PROVE  LeaseTableInv'
<1> USE DEF LeaseTableInv
<1>1. /\ th[Main].pc = "alloc" /\ UNCHANGED <<net, tables>>
      /\ th'[Keeper] = th[Keeper] /\ th'[Main].fd = th[Main].fd
      /\ th'[Main].pc \in {"served", "setinfo"}
  BY GetFreeV4AddrMoves DEF TableInv
<1>2. LeasesOK'
  BY <1>1, LeasesStay DEF net, tables, FdsSame, TornDown
<1>3. MainLeaseOK'
  <2>1. Leased(th[Main].fd)' <=> Leased(th[Main].fd)
    BY <1>1 DEF Leased, tables
  <2> QED
    BY <1>1, <2>1 DEF MainLeaseOK, Granting
<1> QED
  BY <1>1, <1>2, <1>3, MainOnly DEF Granting

\* setUserInfo: the descriptor has no lease, and the map leads nowhere from it.
LEMMA SetInfoLeases ==
  ASSUME LeaseTableInv, TableInv', SetInfo
  PROVE  LeaseTableInv'
<1> USE DEF LeaseTableInv
<1> DEFINE f == th[Main].fd
           r == th[Main].rec
<1>1. IInv /\ MapOK /\ ~Overlap /\ KeeperOK
  BY DEF TableInv
<1>2. conn[f] # NoConn /\ \A a \in Addrs : info[a].fd # f
  BY <1>1, SetInfoMoves DEF TableInv, MainOK, MainLeaseOK, Granting, Leased
<1>3. fdMap[f] = NoInfo
  BY <1>1, <1>2, SetInfoMoves, TableTypes DEF MapOK
<1>4. th[Keeper].fd # f
  BY <1>1, SetInfoMoves DEF Overlap
<1>5. LeasesOK'
  <2> SUFFICES ASSUME NEW a \in Addrs, a # r, info[a].fd # NoFd
               PROVE  /\ fdMap[info[a].fd] = a
                      /\ conn[info[a].fd] = owner[a] /\ owner[a] # NoConn
    BY <1>1, <1>2, SetInfoMoves DEF LeasesOK
  <2>1. th[Main].pc = "setinfo"
    BY <1>1, SetInfoMoves
  <2> QED
    BY <2>1 DEF LeasesOK, TornDown
<1>6. AsksOK'
  <2>1. \A d : Served(d)' => Served(d)
    BY <1>1, SetInfoMoves DEF Served, Granting
  <2> QED
    BY <1>1, <2>1, SetInfoMoves DEF AsksOK
<1>7. MainLeaseOK'
  BY <1>1, <1>3, SetInfoMoves DEF MainLeaseOK, Granting
<1>8. KeeperLeaseOK'
  BY <1>1, <1>4, SetInfoMoves, KeeperLeaseStays
<1> QED
  BY <1>5, <1>6, <1>7, <1>8

LEMMA SetFdInfoMapLeases ==
  ASSUME LeaseTableInv, TableInv', SetFdInfoMap
  PROVE  LeaseTableInv'
<1> USE DEF LeaseTableInv
<1> DEFINE f == th[Main].fd
           r == th[Main].rec
<1>1. IInv /\ KeeperOK
  BY DEF TableInv
<1>2. \A g \in Fds : fdMap'[g] = IF g = f THEN r ELSE fdMap[g]
  BY SetFdInfoMapMoves DEF MainLeaseOK
<1>3. LeasesOK'
  <2> SUFFICES ASSUME NEW a \in Addrs, info[a].fd # NoFd
               PROVE  /\ fdMap'[info[a].fd] = a
                      /\ conn[info[a].fd] = owner[a] /\ owner[a] # NoConn
    BY SetFdInfoMapMoves DEF LeasesOK
  <2>1. conn[info[a].fd] = owner[a] /\ owner[a] # NoConn
    BY SetFdInfoMapMoves DEF LeasesOK, TornDown
  <2>2. fdMap[info[a].fd] = a \/ a = r
    BY DEF LeasesOK
  <2>3. info[a].fd = f => a = r
    BY SetFdInfoMapMoves, OneLease
  <2>4. info[a].fd \in Fds
    BY <1>1, TableTypes
  <2> QED
    BY <1>2, <2>1, <2>2, <2>3, <2>4, SetFdInfoMapMoves
<1>4. AsksOK'
  BY SetFdInfoMapMoves, AsksStay DEF Granting, FdsSame
<1>5. MainLeaseOK'
  BY SetFdInfoMapMoves DEF MainLeaseOK, Granting
<1>6. KeeperLeaseOK'
  BY <1>1, SetFdInfoMapMoves, KeeperLeaseStays
<1> QED
  BY <1>3, <1>4, <1>5, <1>6

\* The one step that needs a client to ask once: a request that comes in is
\* that of a connection without a lease.
LEMMA PeerLeases ==
  ASSUME LeaseTableInv, TableInv', MaxRequests <= 1,
         NEW c \in Conns, Peer(c)
  PROVE  LeaseTableInv'
<1> USE DEF LeaseTableInv
<1>1. IInv
  BY DEF TableInv
<1>2. UNCHANGED <<info, fdMap, owner, th, conn>> /\ FdsSame
  BY <1>1, PeerMoves
<1>3. LeasesOK' /\ MainLeaseOK' /\ KeeperLeaseOK'
  BY <1>2 DEF LeasesOK, MainLeaseOK, KeeperLeaseOK, Leased
<1>4. ASSUME NEW msg \in Messages, SendMessage(c, msg) PROVE AsksOK'
  <2>1. /\ msg = "request" => asked[c] < MaxRequests
        /\ \A d \in Conns : inbox'[d] = IF d = c THEN msg ELSE inbox[d]
        /\ \A d \in Conns :
             asked'[d] = IF d = c /\ msg = "request" THEN asked[d] + 1
                         ELSE asked[d]
    BY <1>1, <1>4, TableTypes DEF SendMessage
  <2>2. \A d : Served(d)' <=> Served(d)
    BY <1>2 DEF Served
  <2>3. asked[c] \in Nat /\ (msg = "request" => asked[c] = 0)
    BY <1>1, <2>1, TableTypes, SocketsAssumption
  <2> QED
    BY <2>1, <2>2, <2>3 DEF AsksOK
<1>5. CASE Connect(c) \/ PeerClose(c) \/ PeerReset(c) \/ Stall(c) \/ Drain(c)
  <2>1. /\ UNCHANGED asked
        /\ \A d \in Conns : inbox'[d] = "request" => inbox[d] = "request"
    BY <1>1, <1>5, TableTypes
    DEF Connect, PeerClose, PeerReset, Stall, Drain
  <2> QED
    BY <1>2, <1>3, <2>1, AsksStay
<1> QED
  BY <1>3, <1>4, <1>5 DEF Peer, PeerStep

---------------------------------------------------------------------------
(* A lease and its connection *)

LEMMA LeasesInitially == Init => LeaseTableInv
<1> SUFFICES ASSUME Init PROVE LeaseTableInv
  OBVIOUS
<1>1. TableInv
  BY TableInitially
<1>2. /\ \A a \in Addrs : info[a].fd = NoFd
      /\ \A c \in Conns : inbox[c] = "none"
  BY DEF Init, ServerStateInit, SocketsInit, NewUserInfo
<1>3. th[Main] = Fresh("copy", 0) /\ th[Keeper] = Fresh("sleep", 0)
  BY DEF Init, ServerStateInit, Threads, Main, Keeper
<1>4. th[Main].pc = "copy" /\ th[Keeper].pc = "sleep"
  BY <1>3, FreshPc
<1>5. LeasesOK
  BY <1>2 DEF LeasesOK
<1>6. AsksOK
  BY <1>2, <1>4 DEF AsksOK, Served, Granting
<1>7. MainLeaseOK /\ KeeperLeaseOK
  BY <1>4 DEF MainLeaseOK, KeeperLeaseOK, Granting, KeeperClear
<1> QED
  BY <1>1, <1>5, <1>6, <1>7 DEF LeaseTableInv

LEMMA SharedStepLeases ==
  ASSUME LeaseTableInv, TableInv', NEW t \in Threads, SharedStep(t)
  PROVE  LeaseTableInv'
<1>1. CASE LockWrite(t) \/ UnlockWrite(t)
  BY <1>1, ColdLeases DEF Threads
<1>2. CASE LookupByFd(t) \/ ClrFdSet(t) \/ ClearSlot(t)
  BY <1>2, TearDownLeases
<1>3. CASE LockFdMap(t)
  BY <1>3, LockFdMapLeases
<1>4. CASE FreeUnderLock(t)
  BY <1>4, FreeUnderLockLeases
<1> QED
  BY <1>1, <1>2, <1>3, <1>4 DEF SharedStep

LEMMA LeasesStep ==
  ASSUME MaxRequests <= 1, LeaseTableInv, [Next /\ ~Overlap']_vars
  PROVE  LeaseTableInv'
<1>1. TableInv'
  BY TableStep DEF LeaseTableInv
<1>2. CASE MainStep
  <2>1. CASE \/ CopyAllset \/ SelectFails \/ SelectWaits \/ SelectReturns
             \/ AcceptFails \/ FillSlot \/ SetFdSet
             \/ RecvPacket \/ WritePacket \/ PacketsDone
             \/ RequestDone \/ GetUserInfoByFd \/ RenewLease
    BY <1>1, <2>1, ColdLeases
  <2>2. CASE AcceptConn
    BY <1>1, <2>2, AcceptConnLeases
  <2>3. CASE ReadPacketFd
    BY <1>1, <2>3, ReadPacketFdLeases
  <2>4. CASE FindReady
    BY <1>1, <2>4, FindReadyLeases
  <2>5. CASE ReadEnds
    BY <1>1, <2>5, ReadEndsLeases
  <2>6. CASE ReadMessage
    BY <1>1, <2>6, ReadMessageLeases
  <2>7. CASE GetFreeV4Addr
    BY <1>1, <2>7, GetFreeV4AddrLeases
  <2>8. CASE SetInfo
    BY <1>1, <2>8, SetInfoLeases
  <2>9. CASE SetFdInfoMap
    BY <1>1, <2>9, SetFdInfoMapLeases
  <2>10. CASE SharedStep(Main)
    BY <1>1, <2>10, SharedStepLeases DEF Threads
  <2>11. CASE EnterPacketWrite
    BY <1>1, <2>11, EnterPacketWriteLeases
  <2>12. CASE EnterRead
    BY <1>1, <2>12, EnterReadLeases
  <2>13. CASE ClearPastEnd
    BY <1>1, <2>13, TearDownLeases DEF Threads
  <2> QED
    BY <1>2, <2>1, <2>2, <2>3, <2>4, <2>5, <2>6, <2>7, <2>8, <2>9, <2>10,
       <2>11, <2>12, <2>13
    DEF MainStep
<1>3. CASE KeeperThread
  <2>1. CASE \/ WakeUp \/ ReadState \/ CountDown \/ CheckNeedSend
             \/ RestartCount \/ CheckTimeOut \/ ReadFd
    BY <1>1, <2>1, ColdLeases
  <2>2. CASE FindSlot
    BY <1>1, <2>2, FindSlotLeases
  <2>3. CASE CloseTimedOut
    BY <1>1, <2>3, CloseTimedOutLeases
  <2>4. CASE SharedStep(Keeper)
    BY <1>1, <2>4, SharedStepLeases DEF Threads
  <2> QED
    BY <1>3, <2>1, <2>2, <2>3, <2>4 DEF KeeperThread, KeeperStep
<1>4. CASE Tick \/ UNCHANGED vars
  BY <1>1, <1>4, ColdLeases
<1>5. CASE \E c \in Conns : Peer(c)
  BY <1>1, <1>5, PeerLeases
<1> QED
  BY <1>2, <1>3, <1>4, <1>5 DEF Next

LEMMA LeasesInvariance ==
  ASSUME MaxRequests <= 1
  PROVE  ApartSpec => []LeaseTableInv
<1>1. Init => LeaseTableInv
  BY LeasesInitially
<1>2. LeaseTableInv /\ [Next /\ ~Overlap']_vars => LeaseTableInv'
  BY LeasesStep
<1> QED
  BY <1>1, <1>2, PTL DEF ApartSpec

\* Of the descriptors no thread has in hand: a lease belongs to the connection
\* that reply_ipv4_request granted it to, and fd_map_info leads to it; when the
\* threads keep apart and a client asks once, as those in the repository do.
THEOREM LeasesKept ==
  ASSUME MaxRequests <= 1
  PROVE  ApartSpec => []LeaseHasConnection
<1>1. LeaseTableInv => LeaseHasConnection
  <2> SUFFICES ASSUME LeaseTableInv, NEW a \in Addrs, info[a].fd # NoFd,
                      Quiet(info[a].fd)
               PROVE  fdMap[info[a].fd] = a /\ conn[info[a].fd] = owner[a]
    BY DEF LeaseHasConnection
  <2>1. th[Main].fd # info[a].fd
    BY DEF Quiet, Threads
  <2> QED
    BY <2>1 DEF LeaseTableInv, TableInv, LeasesOK, MainOK
<1> QED
  BY <1>1, LeasesInvariance, PTL

\* On these schedules process_packet, which reads the record's descriptor
\* without its mutex and writes later, writes to the holder of the address.
THEOREM PacketsReachLessee ==
  ASSUME MaxRequests <= 1
  PROVE  ApartSpec => []PacketGoesToLessee
<1>1. LeaseTableInv => PacketGoesToLessee
  BY DEF LeaseTableInv, MainLeaseOK, PacketGoesToLessee
<1> QED
  BY <1>1, LeasesInvariance, PTL

---------------------------------------------------------------------------
(* Who is timed out *)

\* The keep-alive thread goes on to close a connection after isTimeOut only.
LEMMA ClosesAfterTimeOut ==
  ASSUME IInv, [Next]_vars,
         th[Keeper].pc = "timeout", th'[Keeper].pc = "readfd"
  PROVE  IsTimeOut(info[th[Keeper].rec])
<1>1. CASE MainStep
  BY <1>1, MainMovesAlone
<1>2. CASE KeeperThread
  <2>1. CheckTimeOut
    BY <1>2
    DEF KeeperThread, KeeperStep, SharedStep, WakeUp, ReadState, CountDown,
        CheckNeedSend, RestartCount, InfoStep, ReadFd, FindSlot, CloseTimedOut,
        LockWrite, UnlockWrite, LookupByFd, LockFdMap, FreeUnderLock, ClrFdSet,
        ClearSlot, At
  <2>2. th' # NextAddr
    <3> SUFFICES ASSUME th' = NextAddr PROVE FALSE
      OBVIOUS
    <3>1. th'[Keeper] = Fresh("state", th[Keeper].it + 1)
      BY KeeperMoved DEF NextAddr
    <3>2. th'[Keeper].pc = "state"
      BY <3>1, FreshPc, Zenon
    <3> QED
      BY <3>2
  <2> QED
    BY <2>1, <2>2 DEF CheckTimeOut
<1>3. CASE Tick \/ UNCHANGED vars
  BY <1>3 DEF Tick, vars
<1>4. CASE \E c \in Conns : Peer(c)
  BY <1>4 DEF Peer
<1> QED
  BY <1>1, <1>2, <1>3, <1>4 DEF Next

\* isTimeOut is asked of the record the keep-alive thread stands at, and
\* free_resource_of_fd frees the one it finds under the descriptor: they are
\* the same.
THEOREM TimedOutIsSilent ==
  ASSUME MaxRequests <= 1
  PROVE  ApartSpec => SilentIsClosed
<1> DEFINE Closes == th[Keeper].pc = "timeout" /\ th'[Keeper].pc = "readfd"
           Silent == LET f == info[th[Keeper].rec].fd IN
                     f # NoFd /\ fdMap[f] # NoInfo =>
                       IsTimeOut(info[fdMap[f]])
<1>1. LeaseTableInv /\ [Next /\ ~Overlap']_vars => [Closes => Silent]_vars
  <2> SUFFICES ASSUME LeaseTableInv, [Next /\ ~Overlap']_vars, Closes,
                      info[th[Keeper].rec].fd # NoFd,
                      fdMap[info[th[Keeper].rec].fd] # NoInfo
               PROVE  IsTimeOut(info[fdMap[info[th[Keeper].rec].fd]])
    OBVIOUS
  <2>1. IInv /\ th[Keeper].rec \in Addrs
    BY Basics DEF LeaseTableInv, TableInv, ThreadOK, RecLabels
  <2>2. fdMap[info[th[Keeper].rec].fd] = th[Keeper].rec
    BY <2>1 DEF LeaseTableInv, TableInv, LeasesOK, MainOK, MainLeaseOK
  <2>3. IsTimeOut(info[th[Keeper].rec])
    BY <2>1, ClosesAfterTimeOut
  <2> QED
    BY <2>2, <2>3
<1> QED
  BY <1>1, LeasesInvariance, PTL DEF ApartSpec, SilentIsClosed

---------------------------------------------------------------------------
(* What is watched and served: the inductive invariant *)

InSlot(f) == \E s \in Slots : client[s] = f

SlotsOK ==
  /\ \A r, s \in Slots : client[r] = client[s] /\ client[r] # NoFd => r = s
  /\ maxi < FdSetSize

\* Open, and not yet in allset or no longer in it; closed, and still in it.
Unwatched(f) ==
  \/ th[Main].pc \in SlotLabels /\ th[Main].fd = f
  \/ th[Keeper].pc \in {"slot", "unslot", "close"} /\ th[Keeper].fd = f
Stale(f) == th[Main].pc = "clr" /\ th[Main].fd = f

AllsetOK ==
  \A f \in Fds :
    f \in allset <=> IF IsOpen(f) THEN ~Unwatched(f) ELSE Stale(f)

\* The same of client[].
Unserved(f) ==
  \/ th[Main].pc = "slot" /\ th[Main].fd = f
  \/ th[Keeper].pc = "close" /\ th[Keeper].fd = f
Vacant(f) == th[Main].pc \in {"clr", "unslot"} /\ th[Main].fd = f

ClientOK ==
  \A f \in Fds :
    InSlot(f) <=> IF IsOpen(f) THEN ~Unserved(f) ELSE Vacant(f)

\* Labels at which the main thread serves client[i].
Serving == {"enter", "read", "clr", "unslot"} \cup Granting

HandOK ==
  /\ th[Main].pc \in SlotLabels => th[Main].fd \in Fds /\ IsOpen(th[Main].fd)
  /\ th[Main].pc = "setfd" => th[Main].idx \in Slots
  /\ th[Main].pc \in {"enter", "read"} => IsOpen(th[Main].fd)
  /\ th[Main].pc \in {"clr", "unslot"} => ~IsOpen(th[Main].fd)
  /\ th[Main].pc \in Serving =>
       th[Main].idx \in Slots /\ client[th[Main].idx] = th[Main].fd
  /\ th[Keeper].pc \in Closing => th[Keeper].fd \in Fds
  /\ th[Keeper].pc = "unslot" =>
       th[Keeper].idx \in Slots /\ client[th[Keeper].idx] = th[Keeper].fd

WatchedInv ==
  /\ TableInv
  /\ SlotsOK
  /\ AllsetOK
  /\ ClientOK
  /\ HandOK

\* A step of the main thread that leaves the tables alone.
LEMMA MainWatches ==
  ASSUME WatchedInv, TableInv', UNCHANGED <<conn, watch>>,
         th'[Keeper] = th[Keeper],
         th[Main].pc \notin {"slot", "setfd", "clr", "unslot"},
         th'[Main].pc \notin SlotLabels \cup {"enter", "read", "clr", "unslot"},
         th'[Main].pc \in Granting =>
           /\ th[Main].pc \in Serving
           /\ th'[Main].fd = th[Main].fd /\ th'[Main].idx = th[Main].idx
  PROVE  WatchedInv'
<1> USE DEF WatchedInv
<1>1. UNCHANGED <<conn, client, maxi, allset>>
  BY DEF watch
<1>2. SlotsOK'
  BY <1>1 DEF SlotsOK
<1>3. \A f : IsOpen(f)' <=> IsOpen(f)
  BY <1>1 DEF IsOpen
<1>4. AllsetOK'
  BY <1>1, <1>3 DEF AllsetOK, Unwatched, Stale, SlotLabels
<1>5. ClientOK'
  BY <1>1, <1>3 DEF ClientOK, InSlot, Unserved, Vacant, SlotLabels
<1>6. HandOK'
  BY <1>1 DEF HandOK, SlotLabels, Serving, IsOpen
<1> QED
  BY <1>2, <1>4, <1>5, <1>6

\* A step of the keep-alive thread that leaves them alone.
LEMMA KeeperWatches ==
  ASSUME WatchedInv, TableInv', UNCHANGED <<conn, watch>>,
         th'[Main] = th[Main],
         th[Keeper].pc \notin {"slot", "unslot", "close"},
         th'[Keeper].pc \notin {"slot", "unslot", "close"},
         th'[Keeper].pc \in Closing => th'[Keeper].fd \in Fds
  PROVE  WatchedInv'
<1> USE DEF WatchedInv
<1>1. UNCHANGED <<conn, client, maxi, allset>>
  BY DEF watch
<1>2. SlotsOK'
  BY <1>1 DEF SlotsOK
<1>3. \A f : IsOpen(f)' <=> IsOpen(f)
  BY <1>1 DEF IsOpen
<1>4. AllsetOK'
  BY <1>1, <1>3 DEF AllsetOK, Unwatched, Stale
<1>5. ClientOK'
  BY <1>1, <1>3 DEF ClientOK, InSlot, Unserved, Vacant
<1>6. HandOK'
  BY <1>1 DEF HandOK, IsOpen
<1> QED
  BY <1>2, <1>4, <1>5, <1>6

LEMMA MainIdleWatched ==
  ASSUME WatchedInv, TableInv',
         \/ CopyAllset \/ SelectFails \/ SelectWaits \/ SelectReturns
         \/ RecvPacket \/ WritePacket \/ PacketsDone
         \/ RequestDone \/ GetUserInfoByFd \/ RenewLease
         \/ LockWrite(Main) \/ UnlockWrite(Main)
  PROVE  WatchedInv'
<1>1. /\ th'[Keeper] = th[Keeper]
      /\ th'[Main].pc \notin MainBusy
      /\ th[Main].pc \notin MainTied
  BY MainIdleMoves DEF WatchedInv, TableInv
<1>2. UNCHANGED <<conn, watch>>
  <2>1. CASE WritePacket \/ UnlockWrite(Main)
    <3>1. EndCall(Main, {}, {}) /\ UNCHANGED watch
      BY <2>1 DEF WritePacket, UnlockWrite
    <3> QED
      BY <3>1, EndCallKeeps DEF WatchedInv, TableInv
  <2>2. CASE ~WritePacket /\ ~UnlockWrite(Main)
    BY <2>2
    DEF CopyAllset, SelectFails, SelectWaits, SelectReturns, RecvPacket,
        PacketsDone, RequestDone, GetUserInfoByFd, RenewLease, InfoStep,
        LockWrite, net
  <2> QED
    BY <2>1, <2>2
<1> QED
  BY <1>1, <1>2, MainWatches
  DEF MainBusy, MainTied, MainHot, TornDown, SlotLabels, Granting

LEMMA MainHandWatched ==
  ASSUME WatchedInv, TableInv',
         \/ ReadPacketFd \/ EnterPacketWrite
         \/ ReadMessage \/ GetFreeV4Addr \/ SetInfo \/ SetFdInfoMap
         \/ LookupByFd(Main) \/ LockFdMap(Main) \/ FreeUnderLock(Main)
  PROVE  WatchedInv'
<1> USE DEF WatchedInv, TableInv
<1>1. UNCHANGED <<conn, watch>>
  <2>1. CASE ReadMessage
    <3>1. EndCall(Main, {}, {th[Main].to}) /\ UNCHANGED watch
      BY <2>1 DEF ReadMessage
    <3> QED
      BY <3>1, EndCallKeeps
  <2>2. CASE ~ReadMessage
    BY <2>2
    DEF ReadPacketFd, EnterPacketWrite, GetFreeV4Addr, SetInfo, SetFdInfoMap,
        LookupByFd, LockFdMap, FreeUnderLock, FreeAndRelease, net
  <2> QED
    BY <2>1, <2>2
<1>2. /\ th'[Keeper] = th[Keeper]
      /\ th[Main].pc \notin {"slot", "setfd", "clr", "unslot"}
      /\ th'[Main].pc \notin SlotLabels \cup {"enter", "read", "clr", "unslot"}
      /\ th'[Main].pc \in Granting =>
           /\ th[Main].pc \in Serving
           /\ th'[Main].fd = th[Main].fd /\ th'[Main].idx = th[Main].idx
  <2>1. CASE ReadPacketFd
    <3>1. th'[Keeper] = th[Keeper] /\ th'[Main].pc \in {"raw", "rawenter"}
      <4>1. CASE th' = [th EXCEPT ![Main] = Fresh("raw", 0)]
        <5>1. th'[Main] = Fresh("raw", 0) /\ th'[Keeper] = th[Keeper]
          BY <4>1, MainMoved
        <5> QED
          BY <5>1, FreshPc, Zenon
      <4>2. CASE th' # [th EXCEPT ![Main] = Fresh("raw", 0)]
        BY <2>1, <4>2, Basics DEF ReadPacketFd, Locals
      <4> QED
        BY <4>1, <4>2
    <3> QED
      BY <2>1, <3>1 DEF ReadPacketFd, At, Granting, SlotLabels
  <2>2. CASE ReadMessage
    <3> DEFINE c == th[Main].to
               p == CASE inbox[c] = "request" -> "alloc"
                      [] inbox[c] = "refresh" -> "touch"
                      [] inbox[c] = "ignored" -> "served"
               l == [th[Main] EXCEPT !.pc = p, !.to = NoConn]
    <3>1. c \in Conns
      BY <2>2, Basics DEF ReadMessage, Locals
    <3>2. p \in {"alloc", "touch", "served"}
      BY <2>2, <3>1, TableTypes DEF ReadMessage, MessageKinds
    <3> HIDE DEF p
    <3>3. th' = [th EXCEPT ![Main] = l] /\ l.pc = p /\ l.fd = th[Main].fd
            /\ l.idx = th[Main].idx
      BY <2>2, Basics DEF ReadMessage, Locals, p
    <3> HIDE DEF l
    <3>4. th'[Main] = l /\ th'[Keeper] = th[Keeper]
      BY <3>3, MainMoved
    <3> QED
      BY <2>2, <3>2, <3>3, <3>4 DEF ReadMessage, At, Granting, Serving, SlotLabels
  <2>3. CASE GetFreeV4Addr
    <3> DEFINE l1 == [th[Main] EXCEPT !.pc = "served"]
               l2 == [th[Main] EXCEPT !.pc = "setinfo", !.rec = Min(FreeAddrs)]
    <3>1. th' = [th EXCEPT ![Main] = l1] \/ th' = [th EXCEPT ![Main] = l2]
      BY <2>3, Basics DEF GetFreeV4Addr, Locals
    <3>2. /\ l1.pc = "served" /\ l2.pc = "setinfo" /\ l2.fd = th[Main].fd
          /\ l2.idx = th[Main].idx
      BY Basics DEF Locals
    <3> HIDE DEF l1, l2
    <3>3. th'[Keeper] = th[Keeper] /\ th'[Main] \in {l1, l2}
      BY <3>1, MainMoved
    <3> QED
      BY <2>3, <3>2, <3>3 DEF GetFreeV4Addr, At, Granting, Serving, SlotLabels
  <2>4. CASE SetInfo \/ SetFdInfoMap
    BY <2>4, Jumps, Basics DEF SetInfo, SetFdInfoMap, At, Granting, SlotLabels
  <2>5. CASE LookupByFd(Main)
    <3> DEFINE l == [th[Main] EXCEPT !.pc = "freelock",
                                     !.rec = fdMap[th[Main].fd]]
    <3>1. th' = [th EXCEPT ![Main] = l] /\ l.pc = "freelock"
      BY <2>5, Basics DEF LookupByFd, Locals
    <3> HIDE DEF l
    <3> QED
      BY <2>5, <3>1, MainMoved DEF LookupByFd, At, Granting, SlotLabels
  <2>6. CASE LockFdMap(Main) \/ FreeUnderLock(Main)
    BY <2>6, Jumps, Basics
    DEF LockFdMap, FreeUnderLock, FreeAndRelease, AfterFree, At, Granting,
        SlotLabels
  <2>7. CASE EnterPacketWrite
    BY <2>7, EnterPacketWriteMoves DEF Granting, SlotLabels
  <2> QED
    BY <2>1, <2>2, <2>3, <2>4, <2>5, <2>6, <2>7
<1> QED
  BY <1>1, <1>2, MainWatches

\* The keep-alive thread takes the descriptor of a lease in hand.
LEMMA KeeperIdleWatched ==
  ASSUME WatchedInv, TableInv',
         \/ WakeUp \/ ReadState \/ CountDown \/ CheckNeedSend
         \/ RestartCount \/ CheckTimeOut \/ ReadFd
         \/ LockWrite(Keeper) \/ UnlockWrite(Keeper)
  PROVE  WatchedInv'
<1> USE DEF WatchedInv, TableInv
<1>1. /\ th'[Main] = th[Main]
      /\ th'[Keeper].pc \notin KeeperFree \cup KeeperClear
      /\ th'[Keeper].pc \in Closing =>
           /\ th'[Keeper].fd = info[th[Keeper].rec].fd
           /\ th'[Keeper].fd # NoFd /\ th[Keeper].pc = "readfd"
  BY KeeperColdMoves
<1>2. th[Keeper].pc \notin {"slot", "unslot", "close"}
  BY DEF WakeUp, ReadState, CountDown, CheckNeedSend, RestartCount, InfoStep,
         CheckTimeOut, ReadFd, LockWrite, UnlockWrite, At
<1>3. UNCHANGED <<conn, watch>>
  <2>1. CASE UnlockWrite(Keeper)
    <3>1. EndCall(Keeper, {}, {}) /\ UNCHANGED watch
      BY <2>1 DEF UnlockWrite
    <3> QED
      BY <3>1, EndCallKeeps
  <2>2. CASE ~UnlockWrite(Keeper)
    BY <2>2
    DEF WakeUp, ReadState, CountDown, CheckNeedSend, RestartCount, InfoStep,
        CheckTimeOut, ReadFd, LockWrite, net
  <2> QED
    BY <2>1, <2>2
<1>4. th'[Keeper].pc \in Closing => th'[Keeper].fd \in Fds
  <2>1. th[Keeper].pc = "readfd" => th[Keeper].rec \in Addrs
    BY Basics DEF ThreadOK, RecLabels
  <2> QED
    BY <1>1, <2>1, TableTypes
<1> QED
  BY <1>1, <1>2, <1>3, <1>4, KeeperWatches DEF KeeperClear

LEMMA KeeperHandWatched ==
  ASSUME WatchedInv, TableInv',
         LookupByFd(Keeper) \/ LockFdMap(Keeper) \/ FreeUnderLock(Keeper)
  PROVE  WatchedInv'
<1> USE DEF WatchedInv, TableInv
<1>1. UNCHANGED <<conn, watch>>
  BY DEF LookupByFd, LockFdMap, FreeUnderLock, FreeAndRelease, net
<1>2. /\ th'[Main] = th[Main] /\ th'[Keeper].fd = th[Keeper].fd
      /\ th[Keeper].pc \in {"lookup", "freelock", "free"}
      /\ th'[Keeper].pc \in {"freelock", "free", "clr"}
  <2>1. CASE LookupByFd(Keeper)
    <3> DEFINE l == [th[Keeper] EXCEPT !.pc = "freelock",
                                       !.rec = fdMap[th[Keeper].fd]]
    <3>1. /\ th' = [th EXCEPT ![Keeper] = l] /\ l.pc = "freelock"
          /\ l.fd = th[Keeper].fd
      BY <2>1, Basics DEF LookupByFd, Locals
    <3> HIDE DEF l
    <3> QED
      BY <2>1, <3>1, KeeperMoved DEF LookupByFd, At
  <2>2. CASE LockFdMap(Keeper) \/ FreeUnderLock(Keeper)
    BY <2>2, Jumps, Basics
    DEF LockFdMap, FreeUnderLock, FreeAndRelease, AfterFree, At
  <2> QED
    BY <2>1, <2>2
<1>3. th[Keeper].fd \in Fds
  BY <1>2 DEF HandOK, Closing, KeeperFree
<1> QED
  BY <1>1, <1>2, <1>3, KeeperWatches

\* clr_FD_SET, by either thread.
LEMMA ClrFdSetWatched ==
  ASSUME WatchedInv, TableInv', NEW t \in Threads, ClrFdSet(t)
  PROVE  WatchedInv'
<1> USE DEF WatchedInv, TableInv
<1>1. /\ th[t].pc = "clr" /\ th'[t].pc = IF t = Main THEN "unslot" ELSE "slot"
      /\ th'[t].fd = th[t].fd /\ th'[t].to = th[t].to
      /\ \A u \in Threads : u # t => th'[u] = th[u]
  BY Jumps DEF ClrFdSet, At
<1>2. allset' = allset \ {th[t].fd} /\ UNCHANGED <<conn, client, maxi>>
  BY DEF ClrFdSet, net
<1>3. Main # Keeper /\ t \in {Main, Keeper} /\ Main \in Threads
        /\ Keeper \in Threads
  BY DEF Main, Keeper, Threads
<1>4. th[t].fd \in Fds /\ (t = Main => ~IsOpen(th[t].fd))
  <2>1. CASE t = Main
    BY <1>1, <1>3, <2>1, Basics DEF ThreadOK, FdLabels, HandOK
  <2>2. CASE t = Keeper
    BY <1>1, <1>3, <2>2 DEF HandOK, Closing, KeeperClear
  <2> QED
    BY <1>3, <2>1, <2>2
<1>5. \A g : IsOpen(g)' <=> IsOpen(g)
  BY <1>2 DEF IsOpen
<1>6. th[Main].fd # NoFd => th[Main].fd # th[Keeper].fd
  BY DEF Overlap
<1>7. AllsetOK'
  <2> SUFFICES ASSUME NEW g \in Fds
               PROVE  g \in allset' <=> IF IsOpen(g) THEN ~Unwatched(g)'
                                        ELSE Stale(g)'
    BY <1>5 DEF AllsetOK
  <2>1. g \in allset <=> IF IsOpen(g) THEN ~Unwatched(g) ELSE Stale(g)
    BY DEF AllsetOK
  <2>2. g # NoFd
    BY TableTypes
  <2>3. CASE t = Main
    <3>1. th'[Keeper] = th[Keeper] /\ th'[Main].pc = "unslot"
      BY <1>1, <1>3, <2>3
    <3>2. Unwatched(g)' <=> Unwatched(g)
      BY <1>1, <2>3, <3>1 DEF Unwatched, SlotLabels
    <3>3. ~Stale(g)' /\ (Stale(g) <=> g = th[Main].fd)
      BY <1>1, <2>3, <3>1 DEF Stale
    <3> QED
      BY <1>2, <1>4, <1>3, <2>1, <2>3, <3>2, <3>3
  <2>4. CASE t = Keeper
    <3>1. th'[Main] = th[Main] /\ th'[Keeper].pc = "slot"
      BY <1>1, <1>3, <2>4
    <3>2. Stale(g)' <=> Stale(g)
      BY <3>1 DEF Stale
    <3>3. Unwatched(g)' <=> Unwatched(g) \/ g = th[Keeper].fd
      BY <1>1, <2>4, <3>1 DEF Unwatched
    <3>4. ~Stale(th[Keeper].fd)
      BY <1>4, <1>6, <2>4, TableTypes DEF Stale
    <3> QED
      BY <1>2, <1>4, <2>1, <2>4, <3>2, <3>3, <3>4
  <2> QED
    BY <1>3, <2>3, <2>4
<1>8. ClientOK'
  <2>1. \A g : /\ InSlot(g)' <=> InSlot(g)
               /\ Unserved(g)' <=> Unserved(g)
               /\ Vacant(g)' <=> Vacant(g)
    BY <1>1, <1>2, <1>3 DEF InSlot, Unserved, Vacant
  <2> QED
    BY <1>5, <2>1 DEF ClientOK
<1>9. SlotsOK'
  BY <1>2 DEF SlotsOK
<1>10. HandOK'
  <2>1. th'[t].idx = th[t].idx
    BY Basics DEF ClrFdSet, Goto, Locals
  <2>2. CASE t = Main
    <3>1. th'[Keeper] = th[Keeper]
      BY <1>1, <1>3, <2>2
    <3>2. th[Main].idx \in Slots /\ client[th[Main].idx] = th[Main].fd
      BY <1>1, <2>2 DEF HandOK, Serving
    <3> QED
      BY <1>1, <1>2, <1>4, <1>5, <2>1, <2>2, <3>1, <3>2, <1>3
      DEF HandOK, SlotLabels, Serving, Granting, IsOpen
  <2>3. CASE t = Keeper
    BY <1>1, <1>2, <1>3, <1>4, <1>5, <2>3 DEF HandOK, IsOpen
  <2> QED
    BY <1>3, <2>2, <2>3
<1> QED
  BY <1>7, <1>8, <1>9, <1>10

\* The element of client[] that leads to the descriptor in hand is vacated.
LEMMA ClearSlotWatched ==
  ASSUME WatchedInv, TableInv', NEW t \in Threads, ClearSlot(t)
  PROVE  WatchedInv'
<1> USE DEF WatchedInv, TableInv
<1>1. /\ th[t].pc = "unslot"
      /\ th'[t].pc = IF t = Main THEN "lookup" ELSE "close"
      /\ th'[t].fd = th[t].fd
      /\ \A u \in Threads : u # t => th'[u] = th[u]
  BY Jumps DEF ClearSlot, At, AfterUnslot
<1>2. /\ client' = [s \in Slots |-> IF s = th[t].idx THEN NoFd ELSE client[s]]
      /\ UNCHANGED <<conn, allset, maxi>>
  <2>1. client \in [Slots -> Fds \cup {NoFd}]
    BY DEF IInv, TypeOK, ServerStateTypeOK
  <2> QED
    BY <2>1 DEF ClearSlot, net
<1>3. Main # Keeper /\ t \in {Main, Keeper} /\ Main \in Threads
        /\ Keeper \in Threads
  BY DEF Main, Keeper, Threads
<1>4. /\ th[t].fd \in Fds /\ (IsOpen(th[t].fd) <=> t = Keeper)
      /\ th[t].idx \in Slots /\ client[th[t].idx] = th[t].fd
  <2>1. CASE t = Main
    BY <1>1, <1>3, <2>1, Basics DEF ThreadOK, FdLabels, HandOK, Serving
  <2>2. CASE t = Keeper
    <3>1. /\ th[Keeper].fd \in Fds /\ th[Keeper].idx \in Slots
          /\ client[th[Keeper].idx] = th[Keeper].fd
      BY <1>1, <2>2 DEF HandOK, Closing, KeeperClear
    <3>2. InSlot(th[Keeper].fd) /\ ~Vacant(th[Keeper].fd)
      BY <3>1, TableTypes DEF InSlot, Vacant, Overlap
    <3> QED
      BY <2>2, <3>1, <3>2 DEF ClientOK
  <2> QED
    BY <1>3, <2>1, <2>2
<1>5. \A g : IsOpen(g)' <=> IsOpen(g)
  BY <1>2 DEF IsOpen
<1>6. th[Main].fd # NoFd => th[Main].fd # th[Keeper].fd
  BY DEF Overlap
<1>7. \A g \in Fds : InSlot(g)' <=> InSlot(g) /\ g # th[t].fd
  BY <1>2, <1>4, TableTypes DEF InSlot, SlotsOK
<1>8. AllsetOK'
  <2> SUFFICES ASSUME NEW g \in Fds
               PROVE  /\ Unwatched(g)' <=> Unwatched(g)
                      /\ Stale(g)' <=> Stale(g)
    BY <1>2, <1>5 DEF AllsetOK
  <2> QED
    BY <1>1, <1>3 DEF Unwatched, Stale, SlotLabels
<1>9. ClientOK'
  <2> SUFFICES ASSUME NEW g \in Fds
               PROVE  InSlot(g)' <=> IF IsOpen(g) THEN ~Unserved(g)'
                                     ELSE Vacant(g)'
    BY <1>5 DEF ClientOK
  <2>1. InSlot(g) <=> IF IsOpen(g) THEN ~Unserved(g) ELSE Vacant(g)
    BY DEF ClientOK
  <2>2. CASE t = Main
    <3>1. th'[Keeper] = th[Keeper] /\ th'[Main].pc = "lookup"
      BY <1>1, <1>3, <2>2
    <3>2. Unserved(g)' <=> Unserved(g)
      BY <1>1, <2>2, <3>1 DEF Unserved
    <3>3. ~Vacant(g)' /\ (Vacant(g) <=> g = th[Main].fd)
      BY <1>1, <2>2, <3>1 DEF Vacant
    <3> QED
      BY <1>3, <1>4, <1>7, <2>1, <2>2, <3>2, <3>3
  <2>3. CASE t = Keeper
    <3>1. th'[Main] = th[Main] /\ th'[Keeper].pc = "close"
      BY <1>1, <1>3, <2>3
    <3>2. Vacant(g)' <=> Vacant(g)
      BY <3>1 DEF Vacant
    <3>3. Unserved(g)' <=> Unserved(g) \/ g = th[Keeper].fd
      BY <1>1, <2>3, <3>1 DEF Unserved
    <3> QED
      BY <1>4, <1>7, <2>1, <2>3, <3>2, <3>3
  <2> QED
    BY <1>3, <2>2, <2>3
<1>10. SlotsOK'
  BY <1>2 DEF SlotsOK
<1>11. HandOK'
  <2>1. CASE t = Main
    <3>1. th'[Keeper] = th[Keeper] /\ th'[Main].pc = "lookup"
      BY <1>1, <1>3, <2>1
    <3>2. th[Keeper].pc = "unslot" =>
            /\ th[Keeper].idx \in Slots
            /\ client'[th[Keeper].idx] = th[Keeper].fd
      BY <1>2, <1>4, <1>6, <2>1, TableTypes DEF HandOK
    <3> QED
      BY <1>5, <3>1, <3>2 DEF HandOK, SlotLabels, Serving, Granting, IsOpen
  <2>2. CASE t = Keeper
    <3>1. th'[Main] = th[Main] /\ th'[Keeper].pc = "close"
            /\ th'[Keeper].fd = th[Keeper].fd
      BY <1>1, <1>3, <2>2
    <3>2. th[Main].pc \in Serving =>
            th[Main].idx \in Slots /\ client'[th[Main].idx] = th[Main].fd
      BY <1>2, <1>4, <1>6, <2>2, TableTypes DEF HandOK
    <3>3. th[Keeper].fd \in Fds /\ IsOpen(th[Keeper].fd)
      BY <1>4, <2>2
    <3> QED
      BY <1>5, <3>1, <3>2, <3>3 DEF HandOK, IsOpen
  <2> QED
    BY <1>3, <2>1, <2>2
<1> QED
  BY <1>8, <1>9, <1>10, <1>11

\* The keep-alive thread finds the descriptor in client[] if it is open: the
\* main thread does not have it in hand.
LEMMA FindSlotWatched ==
  ASSUME WatchedInv, TableInv', FindSlot
  PROVE  WatchedInv'
<1> USE DEF WatchedInv, TableInv
<1> DEFINE hits == {s \in Slots : client[s] = th[Keeper].fd}
           l == [th[Keeper] EXCEPT !.pc = "unslot", !.idx = Min(hits)]
<1>1. th[Keeper].pc = "slot" /\ th[Keeper].fd \in Fds
  BY DEF FindSlot, At, HandOK, Closing, KeeperClear
<1>2. UNCHANGED <<conn, client, maxi, allset>>
  BY DEF FindSlot, net, watch
<1>3. hits # {} => Min(hits) \in hits
  <2>1. hits \in SUBSET Nat
    BY ServerAssumption DEF Slots
  <2> HIDE DEF hits
  <2> QED
    BY <2>1, MinOfNats
<1>4. hits # {} <=> IsOpen(th[Keeper].fd)
  <2>1. ~Unserved(th[Keeper].fd) /\ ~Vacant(th[Keeper].fd)
    BY <1>1, TableTypes DEF Unserved, Vacant, Overlap
  <2>2. InSlot(th[Keeper].fd) <=> IsOpen(th[Keeper].fd)
    BY <1>1, <2>1 DEF ClientOK
  <2> QED
    BY <2>2 DEF InSlot
<1>5. /\ th'[Main] = th[Main] /\ th'[Keeper].fd = th[Keeper].fd
      /\ \/ /\ th'[Keeper].pc = "unslot" /\ IsOpen(th[Keeper].fd)
            /\ th'[Keeper].idx \in Slots
            /\ client[th'[Keeper].idx] = th[Keeper].fd
         \/ th'[Keeper].pc = "close" /\ ~IsOpen(th[Keeper].fd)
  <2>1. CASE hits # {}
    <3>1. /\ th' = [th EXCEPT ![Keeper] = l] /\ l.pc = "unslot"
          /\ l.fd = th[Keeper].fd /\ l.idx = Min(hits)
      BY <2>1, Basics DEF FindSlot, Locals
    <3>2. th'[Main] = th[Main] /\ th'[Keeper] = l
      <4> HIDE DEF l
      <4> QED
        BY <3>1, KeeperMoved
    <3> HIDE DEF l
    <3> QED
      BY <1>3, <1>4, <2>1, <3>1, <3>2
  <2>2. CASE hits = {}
    <3>1. Goto(Keeper, "close")
      BY <2>2 DEF FindSlot
    <3> HIDE DEF hits
    <3> QED
      BY <1>4, <2>2, <3>1, Jumps, Basics
  <2> QED
    BY <2>1, <2>2
<1> HIDE DEF hits, l
<1>6. \A g : IsOpen(g)' <=> IsOpen(g)
  BY <1>2 DEF IsOpen
<1>7. AllsetOK'
  BY <1>1, <1>2, <1>5, <1>6 DEF AllsetOK, Unwatched, Stale
<1>8. ClientOK'
  BY <1>1, <1>2, <1>5, <1>6 DEF ClientOK, InSlot, Unserved, Vacant
<1>9. SlotsOK'
  BY <1>2 DEF SlotsOK
<1>10. HandOK'
  BY <1>1, <1>2, <1>5, <1>6 DEF HandOK, IsOpen
<1> QED
  BY <1>7, <1>8, <1>9, <1>10

LEMMA CloseTimedOutWatched ==
  ASSUME WatchedInv, TableInv', CloseTimedOut
  PROVE  WatchedInv'
<1> USE DEF WatchedInv, TableInv
<1>1. PICK f \in Fds : f = th[Keeper].fd
  BY DEF CloseTimedOut, At, HandOK, Closing, KeeperClear
<1>2. th[Keeper].pc = "close" /\ th[Main].fd # f /\ f # NoFd
  BY <1>1, TableTypes DEF CloseTimedOut, At, Overlap
<1>3. th'[Keeper].pc = "state" /\ th'[Main] = th[Main]
  <2>1. /\ th'[Keeper] = Fresh("state", th[Keeper].it + 1)
        /\ th'[Main] = th[Main]
    BY KeeperMoved DEF CloseTimedOut, NextAddr
  <2>2. th'[Keeper].pc = "state"
    BY <2>1, FreshPc, Zenon
  <2> QED
    BY <2>1, <2>2
<1>4. /\ \A g \in Fds : conn'[g] = IF g = f THEN NoConn ELSE conn[g]
      /\ UNCHANGED <<client, allset, maxi>>
  <2>1. EndCall(Keeper, {f}, {})
    BY <1>1 DEF CloseTimedOut
  <2>2. conn' = [g \in Fds |-> IF g \in {f} THEN NoConn ELSE conn[g]]
    BY <2>1, EndCallKeeps
  <2> QED
    BY <2>2 DEF CloseTimedOut, watch
<1>5. \A g \in Fds : IsOpen(g)' <=> IsOpen(g) /\ g # f
  BY <1>4 DEF IsOpen
<1>6. AllsetOK'
  <2> SUFFICES ASSUME NEW g \in Fds
               PROVE  g \in allset <=> IF IsOpen(g)' THEN ~Unwatched(g)'
                                       ELSE Stale(g)'
    BY <1>4 DEF AllsetOK
  <2>1. g \in allset <=> IF IsOpen(g) THEN ~Unwatched(g) ELSE Stale(g)
    BY DEF AllsetOK
  <2>2. Stale(g)' <=> Stale(g)
    BY <1>3 DEF Stale
  <2>3. Unwatched(g) <=> Unwatched(g)' \/ g = f
    BY <1>1, <1>2, <1>3 DEF Unwatched
  <2>4. ~Stale(f)
    BY <1>2 DEF Stale
  <2> QED
    BY <1>2, <1>5, <2>1, <2>2, <2>3, <2>4
<1>7. ClientOK'
  <2> SUFFICES ASSUME NEW g \in Fds
               PROVE  InSlot(g) <=> IF IsOpen(g)' THEN ~Unserved(g)'
                                    ELSE Vacant(g)'
    BY <1>4 DEF ClientOK, InSlot
  <2>1. InSlot(g) <=> IF IsOpen(g) THEN ~Unserved(g) ELSE Vacant(g)
    BY DEF ClientOK
  <2>2. Vacant(g)' <=> Vacant(g)
    BY <1>3 DEF Vacant
  <2>3. Unserved(g) <=> Unserved(g)' \/ g = f
    BY <1>1, <1>2, <1>3 DEF Unserved
  <2>4. ~Vacant(f)
    BY <1>2 DEF Vacant
  <2> QED
    BY <1>2, <1>5, <2>1, <2>2, <2>3, <2>4
<1>8. SlotsOK'
  BY <1>4 DEF SlotsOK
<1>9. HandOK'
  <2>1. th[Main].fd \in Fds => conn'[th[Main].fd] = conn[th[Main].fd]
    BY <1>2, <1>4
  <2>2. th[Main].pc \in SlotLabels \cup {"enter", "read", "clr", "unslot"} =>
          th[Main].fd \in Fds
    BY Basics DEF ThreadOK, FdLabels, SlotLabels, HandOK
  <2> QED
    BY <1>2, <1>3, <1>4, <2>1, <2>2
    DEF HandOK, Closing, KeeperFree, KeeperClear, Serving, IsOpen
<1> QED
  BY <1>6, <1>7, <1>8, <1>9

\* The end of a connection: the descriptor is closed first, and leaves allset
\* and client[] in the next two steps.
LEMMA ReadEndsWatched ==
  ASSUME WatchedInv, TableInv', ReadEnds
  PROVE  WatchedInv'
<1> USE DEF WatchedInv, TableInv
<1>1. PICK f \in Fds : f = th[Main].fd
  BY Basics DEF ReadEnds, At, ThreadOK, FdLabels
<1>2. /\ th[Main].pc = "read" /\ IsOpen(f) /\ th[Keeper].fd # f
      /\ th[Main].idx \in Slots /\ client[th[Main].idx] = f
  BY <1>1, TableTypes DEF ReadEnds, At, HandOK, Serving, Overlap
<1>3. /\ th'[Main].pc = "clr" /\ th'[Main].fd = f
      /\ th'[Main].idx = th[Main].idx /\ th'[Keeper] = th[Keeper]
  <2> DEFINE l == [th[Main] EXCEPT !.pc = "clr", !.to = NoConn]
  <2>1. /\ th' = [th EXCEPT ![Main] = l] /\ l.pc = "clr" /\ l.fd = f
        /\ l.idx = th[Main].idx
    BY <1>1, Basics DEF ReadEnds, Locals
  <2> HIDE DEF l
  <2> QED
    BY <2>1, MainMoved
<1>4. /\ \A g \in Fds : conn'[g] = IF g = f THEN NoConn ELSE conn[g]
      /\ UNCHANGED <<client, allset, maxi>>
  <2>1. EndCall(Main, {f}, {})
    BY <1>1 DEF ReadEnds
  <2>2. conn' = [g \in Fds |-> IF g \in {f} THEN NoConn ELSE conn[g]]
    BY <2>1, EndCallKeeps
  <2> QED
    BY <2>2 DEF ReadEnds, watch
<1>5. \A g \in Fds : IsOpen(g)' <=> IsOpen(g) /\ g # f
  BY <1>4 DEF IsOpen
<1>6. AllsetOK'
  <2> SUFFICES ASSUME NEW g \in Fds
               PROVE  g \in allset <=> IF IsOpen(g)' THEN ~Unwatched(g)'
                                       ELSE Stale(g)'
    BY <1>4 DEF AllsetOK
  <2>1. g \in allset <=> IF IsOpen(g) THEN ~Unwatched(g) ELSE Stale(g)
    BY DEF AllsetOK
  <2>2. (Stale(g)' <=> g = f) /\ ~Stale(g)
    BY <1>2, <1>3 DEF Stale
  <2>3. (Unwatched(g)' <=> Unwatched(g)) /\ ~Unwatched(f)
    BY <1>2, <1>3 DEF Unwatched, SlotLabels
  <2> QED
    BY <1>2, <1>5, <2>1, <2>2, <2>3
<1>7. ClientOK'
  <2> SUFFICES ASSUME NEW g \in Fds
               PROVE  InSlot(g) <=> IF IsOpen(g)' THEN ~Unserved(g)'
                                    ELSE Vacant(g)'
    BY <1>4 DEF ClientOK, InSlot
  <2>1. InSlot(g) <=> IF IsOpen(g) THEN ~Unserved(g) ELSE Vacant(g)
    BY DEF ClientOK
  <2>2. (Vacant(g)' <=> g = f) /\ ~Vacant(g)
    BY <1>2, <1>3 DEF Vacant
  <2>3. (Unserved(g)' <=> Unserved(g)) /\ ~Unserved(f)
    BY <1>2, <1>3 DEF Unserved
  <2> QED
    BY <1>2, <1>5, <2>1, <2>2, <2>3
<1>8. SlotsOK'
  BY <1>4 DEF SlotsOK
<1>9. HandOK'
  <2>1. th[Keeper].fd \in Fds => conn'[th[Keeper].fd] = conn[th[Keeper].fd]
    BY <1>2, <1>4
  <2>2. ~IsOpen(f)'
    BY <1>5
  <2> QED
    BY <1>2, <1>3, <1>4, <2>1, <2>2
    DEF HandOK, SlotLabels, Serving, IsOpen
<1> QED
  BY <1>6, <1>7, <1>8, <1>9

\* A new connection gets a descriptor that is neither watched nor served, and
\* that the keep-alive thread does not have in hand.
LEMMA AcceptConnWatched ==
  ASSUME WatchedInv, TableInv', AcceptConn
  PROVE  WatchedInv'
<1> USE DEF WatchedInv, TableInv
<1>1. PICK f \in Fds : f = LowestFreeFd /\ ~IsOpen(f)
  <2>1. FreeFds \in SUBSET Nat /\ FreeFds # {}
    BY SocketsAssumption DEF AcceptConn, FreeFds, Fds
  <2>2. LowestFreeFd \in FreeFds
    BY <2>1, MinOfNats DEF LowestFreeFd
  <2> QED
    BY <2>2 DEF FreeFds
<1>2. /\ th[Main].pc = "accept" /\ th'[Main].pc = "slot" /\ th'[Main].fd = f
      /\ th'[Keeper] = th[Keeper]
  <2> DEFINE l == [th[Main] EXCEPT !.pc = "slot", !.fd = f]
  <2>1. th' = [th EXCEPT ![Main] = l] /\ l.pc = "slot" /\ l.fd = f
    BY <1>1, Basics DEF AcceptConn, Locals
  <2> HIDE DEF l
  <2> QED
    BY <2>1, MainMoved DEF AcceptConn, At
<1>3. PICK c \in backlog : conn' = [conn EXCEPT ![f] = c]
  BY <1>1 DEF AcceptConn
<1>4. \A g \in Fds : IsOpen(g)' <=> IsOpen(g) \/ g = f
  BY <1>1, <1>3, TableTypes DEF IsOpen
<1>5. \A g \in Fds \ {f} : conn'[g] = conn[g]
  BY <1>1, <1>3, TableTypes
<1>6. UNCHANGED <<client, allset, maxi>>
  BY DEF AcceptConn, watch
<1>7. th[Keeper].pc \in Closing => th[Keeper].fd \in Fds \ {f}
  BY <1>1, <1>2, TableTypes DEF HandOK, Overlap
<1>8. AllsetOK'
  <2> SUFFICES ASSUME NEW g \in Fds
               PROVE  g \in allset <=> IF IsOpen(g)' THEN ~Unwatched(g)'
                                       ELSE Stale(g)'
    BY <1>6 DEF AllsetOK
  <2>1. g \in allset <=> IF IsOpen(g) THEN ~Unwatched(g) ELSE Stale(g)
    BY DEF AllsetOK
  <2>2. ~Stale(g)' /\ ~Stale(g)
    BY <1>2 DEF Stale
  <2>3. Unwatched(g)' <=> Unwatched(g) \/ g = f
    BY <1>2 DEF Unwatched, SlotLabels
  <2> QED
    BY <1>1, <1>4, <2>1, <2>2, <2>3
<1>9. ClientOK'
  <2> SUFFICES ASSUME NEW g \in Fds
               PROVE  InSlot(g) <=> IF IsOpen(g)' THEN ~Unserved(g)'
                                    ELSE Vacant(g)'
    BY <1>6 DEF ClientOK, InSlot
  <2>1. InSlot(g) <=> IF IsOpen(g) THEN ~Unserved(g) ELSE Vacant(g)
    BY DEF ClientOK
  <2>2. ~Vacant(g)' /\ ~Vacant(g)
    BY <1>2 DEF Vacant
  <2>3. Unserved(g)' <=> Unserved(g) \/ g = f
    BY <1>2 DEF Unserved
  <2> QED
    BY <1>1, <1>4, <2>1, <2>2, <2>3
<1>10. SlotsOK'
  BY <1>6 DEF SlotsOK
<1>11. HandOK'
  <2>1. IsOpen(f)'
    BY <1>4
  <2> QED
    BY <1>2, <1>5, <1>6, <1>7, <2>1
    DEF HandOK, SlotLabels, Serving, Granting, Closing, KeeperClear, IsOpen
<1> QED
  BY <1>8, <1>9, <1>10, <1>11

\* client[i] = connfd.  There is an element for it: the others hold different
\* descriptors.
LEMMA RoomForClient ==
  ASSUME WatchedInv, FdSetSize >= MaxFd, th[Main].pc = "slot"
  PROVE  FoundSlot \in Slots /\ client[FoundSlot] = NoFd
<1> USE DEF WatchedInv, TableInv
<1> DEFINE unused == {s \in Slots : client[s] = NoFd}
<1>1. unused # {}
  <2> SUFFICES ASSUME \A s \in Slots : client[s] # NoFd PROVE FALSE
    OBVIOUS
  <2> DEFINE F == Fds \ {th[Main].fd}
  <2>1. th[Main].fd \in Fds /\ ~InSlot(th[Main].fd)
    BY DEF HandOK, SlotLabels, ClientOK, Unserved
  <2>2. client \in [Slots -> Fds \cup {NoFd}]
    BY DEF IInv, TypeOK, ServerStateTypeOK
  <2>3. client \in [Slots -> F]
    BY <2>1, <2>2 DEF InSlot
  <2>4. \A r, s \in Slots : r # s => client[r] # client[s]
    BY DEF SlotsOK
  <2>5. IsFiniteSet(Fds) /\ Cardinality(Fds) = MaxFd
    BY FS_Interval, SocketsAssumption DEF Fds
  <2>6. IsFiniteSet(Slots) /\ Cardinality(Slots) = FdSetSize
    <3>1. FdSetSize \in Nat \ {0}
      BY ONLY ServerAssumption
    <3> QED
      BY ONLY <3>1, FS_Interval DEF Slots
  <2>7. IsFiniteSet(F) /\ Cardinality(F) = MaxFd - 1
    BY ONLY <2>1, <2>5, FS_RemoveElement
  <2>8. Cardinality(Slots) > Cardinality(F)
    BY <2>6, <2>7, SocketsAssumption, ServerAssumption
  <2> HIDE DEF F
  <2> QED
    BY <2>3, <2>4, <2>6, <2>7, <2>8, FS_PigeonHole
<1>2. unused \in SUBSET Nat
  BY ServerAssumption DEF Slots
<1>3. FoundSlot = Min(unused)
  BY <1>1 DEF FoundSlot
<1> HIDE DEF unused
<1>4. FoundSlot \in unused
  BY <1>1, <1>2, <1>3, MinOfNats
<1> QED
  BY <1>4 DEF unused

LEMMA FillSlotWatched ==
  ASSUME WatchedInv, TableInv', FdSetSize >= MaxFd, FillSlot
  PROVE  WatchedInv'
<1> USE DEF WatchedInv, TableInv
<1>1. PICK f \in Fds : f = th[Main].fd
  BY DEF FillSlot, At, HandOK, SlotLabels
<1>2. PICK i \in Slots : i = FoundSlot /\ client[i] = NoFd
  BY RoomForClient DEF FillSlot, At
<1>3. th[Main].pc = "slot" /\ IsOpen(f) /\ th[Keeper].fd # f /\ f # NoFd
  BY <1>1, TableTypes DEF FillSlot, At, HandOK, SlotLabels, Overlap
<1>4. /\ th'[Main].pc = "setfd" /\ th'[Main].fd = f /\ th'[Main].idx = i
      /\ th'[Keeper] = th[Keeper]
  <2> DEFINE l == [th[Main] EXCEPT !.pc = "setfd", !.idx = i]
  <2>1. th' = [th EXCEPT ![Main] = l] /\ l.pc = "setfd" /\ l.fd = f /\ l.idx = i
    BY <1>1, <1>2, Basics DEF FillSlot, Locals
  <2> HIDE DEF l
  <2> QED
    BY <2>1, MainMoved
<1>5. /\ \A s \in Slots : client'[s] = IF s = i THEN f ELSE client[s]
      /\ UNCHANGED <<conn, allset, maxi>>
  BY <1>1, <1>2 DEF FillSlot, net
<1>6. \A g : IsOpen(g)' <=> IsOpen(g)
  BY <1>5 DEF IsOpen
<1>7. AllsetOK'
  <2> SUFFICES ASSUME NEW g \in Fds
               PROVE  /\ Unwatched(g)' <=> Unwatched(g)
                      /\ Stale(g)' <=> Stale(g)
    BY <1>5, <1>6 DEF AllsetOK
  <2> QED
    BY <1>1, <1>3, <1>4 DEF Unwatched, Stale, SlotLabels
<1>8. ClientOK'
  <2> SUFFICES ASSUME NEW g \in Fds
               PROVE  InSlot(g)' <=> IF IsOpen(g) THEN ~Unserved(g)'
                                     ELSE Vacant(g)'
    BY <1>6 DEF ClientOK
  <2>1. InSlot(g) <=> IF IsOpen(g) THEN ~Unserved(g) ELSE Vacant(g)
    BY DEF ClientOK
  <2>2. InSlot(g)' <=> InSlot(g) \/ g = f
    BY <1>2, <1>5, TableTypes DEF InSlot
  <2>3. ~Vacant(g)' /\ ~Vacant(g)
    BY <1>3, <1>4 DEF Vacant
  <2>4. Unserved(g)' <=> Unserved(g) /\ g # f
    BY <1>1, <1>3, <1>4 DEF Unserved
  <2> QED
    BY <1>3, <2>1, <2>2, <2>3, <2>4
<1>9. SlotsOK'
  <2>1. \A s \in Slots : client[s] # f
    BY <1>1, <1>3 DEF ClientOK, Unserved, InSlot
  <2>2. \A r, s \in Slots :
          client'[r] = client'[s] /\ client'[r] # NoFd => r = s
    BY <1>5, <2>1 DEF SlotsOK
  <2> QED
    BY <1>5, <2>2 DEF SlotsOK
<1>10. HandOK'
  <2>1. th[Keeper].pc = "unslot" =>
          client'[th[Keeper].idx] = client[th[Keeper].idx]
    BY <1>2, <1>5, TableTypes DEF HandOK, Closing, KeeperClear
  <2> QED
    BY <1>3, <1>4, <1>5, <2>1
    DEF HandOK, SlotLabels, Serving, Granting, IsOpen
<1> QED
  BY <1>7, <1>8, <1>9, <1>10

LEMMA SetFdSetWatched ==
  ASSUME WatchedInv, TableInv', SetFdSet
  PROVE  WatchedInv'
<1> USE DEF WatchedInv, TableInv
<1>1. PICK f \in Fds : f = th[Main].fd
  BY DEF SetFdSet, At, HandOK, SlotLabels
<1>2. /\ th[Main].pc = "setfd" /\ IsOpen(f) /\ th[Keeper].fd # f /\ f # NoFd
      /\ th[Main].idx \in Slots
  BY <1>1, TableTypes DEF SetFdSet, At, HandOK, SlotLabels, Overlap
<1>3. th'[Main].pc \in {"copy", "raw"} /\ th'[Keeper] = th[Keeper]
  <2>1. \E p \in {"copy", "raw"} : th' = [th EXCEPT ![Main] = Fresh(p, 0)]
    BY DEF SetFdSet, NextIteration
  <2>2. PICK p \in {"copy", "raw"} : th'[Main] = Fresh(p, 0)
                                       /\ th'[Keeper] = th[Keeper]
    BY <2>1, MainMoved
  <2>3. th'[Main].pc = p
    BY <2>2, FreshPc, Zenon
  <2> QED
    BY <2>2, <2>3
<1>4. /\ allset' = allset \cup {f}
      /\ maxi' = IF th[Main].idx > maxi THEN th[Main].idx ELSE maxi
      /\ UNCHANGED <<conn, client>>
  BY <1>1, <1>2 DEF SetFdSet, net
<1>5. \A g : IsOpen(g)' <=> IsOpen(g)
  BY <1>4 DEF IsOpen
<1>6. AllsetOK'
  <2> SUFFICES ASSUME NEW g \in Fds
               PROVE  g \in allset' <=> IF IsOpen(g) THEN ~Unwatched(g)'
                                        ELSE Stale(g)'
    BY <1>5 DEF AllsetOK
  <2>1. g \in allset <=> IF IsOpen(g) THEN ~Unwatched(g) ELSE Stale(g)
    BY DEF AllsetOK
  <2>2. ~Stale(g)' /\ ~Stale(g)
    BY <1>2, <1>3 DEF Stale
  <2>3. Unwatched(g)' <=> Unwatched(g) /\ g # f
    BY <1>1, <1>2, <1>3 DEF Unwatched, SlotLabels
  <2> QED
    BY <1>2, <1>4, <2>1, <2>2, <2>3
<1>7. ClientOK'
  <2>1. \A g : /\ InSlot(g)' <=> InSlot(g)
               /\ Unserved(g)' <=> Unserved(g)
               /\ Vacant(g)' <=> Vacant(g)
    BY <1>2, <1>3, <1>4 DEF InSlot, Unserved, Vacant
  <2> QED
    BY <1>5, <2>1 DEF ClientOK
<1>8. SlotsOK'
  <2>1. th[Main].idx < FdSetSize
    BY <1>2, ServerAssumption DEF Slots
  <2>2. maxi' < FdSetSize
    BY <1>4, <2>1 DEF SlotsOK
  <2> QED
    BY <1>4, <2>2 DEF SlotsOK
<1>9. HandOK'
  BY <1>3, <1>4 DEF HandOK, SlotLabels, Serving, Granting, IsOpen
<1> QED
  BY <1>6, <1>7, <1>8, <1>9

\* The loop over client[] comes upon open descriptors only.
LEMMA FindReadyWatched ==
  ASSUME WatchedInv, TableInv', FindReady
  PROVE  WatchedInv'
<1> USE DEF WatchedInv, TableInv
<1> DEFINE hits == {s \in Slots : s >= th[Main].idx /\ s <= maxi
                                   /\ client[s] \in rset}
<1>1. /\ th[Main].pc = "scan" /\ UNCHANGED <<conn, client, allset, maxi>>
      /\ maxi # FdSetSize
  <2>1. maxi < FdSetSize
    BY DEF SlotsOK
  <2>2. maxi # FdSetSize
    BY <2>1, ServerAssumption
  <2> QED
    BY <2>2 DEF FindReady, At, net, watch
<1>2. CASE hits = {}
  <2>1. th' = [th EXCEPT ![Main] = Fresh("copy", 0)]
    BY <1>1, <1>2 DEF FindReady, NextIteration
  <2>2. th'[Main] = Fresh("copy", 0) /\ th'[Keeper] = th[Keeper]
    BY <2>1, MainMoved
  <2>3. th'[Main].pc = "copy"
    BY <2>2, FreshPc, Zenon
  <2>4. UNCHANGED <<conn, watch>>
    BY DEF FindReady, net
  <2> QED
    BY <1>1, <2>2, <2>3, <2>4, MainWatches DEF Granting, SlotLabels
<1>3. CASE hits # {}
  <2>1. Min(hits) \in hits
    <3>1. hits \in SUBSET Nat
      BY ServerAssumption DEF Slots
    <3> HIDE DEF hits
    <3> QED
      BY <1>3, <3>1, MinOfNats
  <2>2. PICK i \in Slots : i = Min(hits) /\ client[i] \in rset
    BY <2>1
  <2>3. PICK f \in Fds : f = client[i]
    BY <2>2 DEF IInv, TypeOK, ServerLoopTypeOK
  <2>4. IsOpen(f)
    BY <1>1, <2>3 DEF ClientOK, InSlot, Vacant
  <2>5. /\ th'[Main].pc = "enter" /\ th'[Main].fd = f /\ th'[Main].idx = i
        /\ th'[Keeper] = th[Keeper]
    <3> DEFINE l == [th[Main] EXCEPT !.pc = "enter", !.idx = i, !.fd = f]
    <3>1. th' = [th EXCEPT ![Main] = l]
      <4>1. hits # {} /\ Min(hits) = i /\ client[Min(hits)] = f
        BY <1>3, <2>2, <2>3
      <4> HIDE DEF l
      <4>2. ServeSlot(i, f)
        BY <4>1 DEF FindReady
      <4> QED
        BY <4>2, Basics DEF l, ServeSlot
    <3>2. l.pc = "enter" /\ l.fd = f /\ l.idx = i
      BY Basics DEF Locals
    <3> HIDE DEF l
    <3> QED
      BY <3>1, <3>2, MainMoved
  <2> HIDE DEF hits
  <2>6. \A g : IsOpen(g)' <=> IsOpen(g)
    BY <1>1 DEF IsOpen
  <2>7. AllsetOK'
    BY <1>1, <2>5, <2>6 DEF AllsetOK, Unwatched, Stale, SlotLabels
  <2>8. ClientOK'
    BY <1>1, <2>5, <2>6 DEF ClientOK, InSlot, Unserved, Vacant
  <2>9. SlotsOK'
    BY <1>1 DEF SlotsOK
  <2>10. HandOK'
    BY <1>1, <2>2, <2>3, <2>4, <2>5
    DEF HandOK, SlotLabels, Serving, Granting, IsOpen
  <2> QED
    BY <2>7, <2>8, <2>9, <2>10
<1> QED
  BY <1>2, <1>3

\* The keep-alive thread keeps off the descriptor the main thread has in hand.
LEMMA EnterReadWatched ==
  ASSUME WatchedInv, TableInv', EnterRead
  PROVE  WatchedInv'
<1> USE DEF WatchedInv
<1>1. /\ th[Main].pc = "enter" /\ th'[Main].pc = "read"
      /\ th'[Main].fd = th[Main].fd /\ th'[Main].idx = th[Main].idx
      /\ th'[Keeper] = th[Keeper]
  BY EnterReadMoves DEF TableInv
<1>2. UNCHANGED <<conn, client, allset, maxi>>
  BY DEF EnterRead, net, watch
<1>3. AllsetOK'
  BY <1>1, <1>2 DEF AllsetOK, IsOpen, Unwatched, Stale, SlotLabels
<1>4. ClientOK'
  BY <1>1, <1>2 DEF ClientOK, IsOpen, InSlot, Unserved, Vacant
<1>5. SlotsOK'
  BY <1>2 DEF SlotsOK
<1>6. HandOK'
  BY <1>1, <1>2 DEF HandOK, SlotLabels, Serving, Granting, IsOpen
<1> QED
  BY <1>3, <1>4, <1>5, <1>6

\* The loop clears an entry of the array, never the one past its end.
LEMMA ClearsInside == WatchedInv => ~ClearPastEnd
<1>1. FdSetSize \notin Slots
  BY ServerAssumption DEF Slots
<1> QED
  BY <1>1 DEF ClearPastEnd, At, WatchedInv, HandOK, Serving

\* Steps that touch neither the threads nor what they watch.
LEMMA OthersWatched ==
  ASSUME WatchedInv, TableInv',
         Tick \/ UNCHANGED vars \/ \E c \in Conns : Peer(c)
  PROVE  WatchedInv'
<1> USE DEF WatchedInv
<1>1. UNCHANGED <<conn, client, maxi, allset, th>>
  <2>1. CASE Tick \/ UNCHANGED vars
    BY <2>1 DEF Tick, vars, net, watch
  <2>2. ASSUME NEW c \in Conns, Peer(c) PROVE UNCHANGED conn
    BY <2>2 DEF Peer, PeerStep, Connect, SendMessage, PeerClose, PeerReset,
                Stall, Drain
  <2>3. (\E c \in Conns : Peer(c)) => UNCHANGED <<client, maxi, allset, th>>
    BY DEF Peer, watch
  <2> QED
    BY <2>1, <2>2, <2>3
<1>2. SlotsOK'
  BY <1>1 DEF SlotsOK
<1>3. AllsetOK'
  BY <1>1 DEF AllsetOK, IsOpen, Unwatched, Stale
<1>4. ClientOK'
  BY <1>1 DEF ClientOK, IsOpen, InSlot, Unserved, Vacant
<1>5. HandOK'
  BY <1>1 DEF HandOK, IsOpen
<1> QED
  BY <1>2, <1>3, <1>4, <1>5

LEMMA WatchedInitially == Init => WatchedInv
<1> SUFFICES ASSUME Init PROVE WatchedInv
  OBVIOUS
<1>1. TableInv
  BY TableInitially
<1>2. /\ \A f \in Fds : conn[f] = NoConn
      /\ \A s \in Slots : client[s] = NoFd
      /\ allset = {} /\ maxi = -1
  BY DEF Init, ServerStateInit, SocketsInit
<1>3. th[Main] = Fresh("copy", 0) /\ th[Keeper] = Fresh("sleep", 0)
  BY DEF Init, ServerStateInit, Threads, Main, Keeper
<1>4. th[Main].pc = "copy" /\ th[Keeper].pc = "sleep"
  BY <1>3, FreshPc
<1>5. SlotsOK
  BY <1>2, ServerAssumption DEF SlotsOK
<1>6. AllsetOK
  BY <1>2, <1>4 DEF AllsetOK, IsOpen, Stale
<1>7. ClientOK
  BY <1>2, <1>4, <1>1, TableTypes
  DEF ClientOK, IsOpen, Vacant, InSlot, TableInv
<1>8. HandOK
  BY <1>4 DEF HandOK, SlotLabels, Serving, Granting, Closing, KeeperFree,
              KeeperClear
<1> QED
  BY <1>1, <1>5, <1>6, <1>7, <1>8 DEF WatchedInv

LEMMA WatchedStep ==
  ASSUME FdSetSize >= MaxFd, WatchedInv,
         [Next /\ ~Overlap']_vars, [~AcceptFails]_vars
  PROVE  WatchedInv'
<1>1. TableInv'
  BY TableStep DEF WatchedInv
<1>2. CASE MainStep
  <2>1. CASE \/ CopyAllset \/ SelectFails \/ SelectWaits \/ SelectReturns
             \/ RecvPacket \/ WritePacket \/ PacketsDone
             \/ RequestDone \/ GetUserInfoByFd \/ RenewLease
             \/ LockWrite(Main) \/ UnlockWrite(Main)
    BY <1>1, <2>1, MainIdleWatched
  <2>2. CASE AcceptFails
    <3>1. th' # th
      BY <2>2, Jumps DEF AcceptFails, At, Threads, WatchedInv, TableInv
    <3> QED
      BY <2>2, <3>1 DEF vars
  <2>3. CASE AcceptConn
    BY <1>1, <2>3, AcceptConnWatched
  <2>4. CASE FillSlot
    BY <1>1, <2>4, FillSlotWatched
  <2>5. CASE SetFdSet
    BY <1>1, <2>5, SetFdSetWatched
  <2>6. CASE FindReady
    BY <1>1, <2>6, FindReadyWatched
  <2>7. CASE ReadEnds
    BY <1>1, <2>7, ReadEndsWatched
  <2>8. CASE \/ ReadPacketFd \/ EnterPacketWrite
             \/ ReadMessage \/ GetFreeV4Addr \/ SetInfo \/ SetFdInfoMap
             \/ LookupByFd(Main) \/ LockFdMap(Main) \/ FreeUnderLock(Main)
    BY <1>1, <2>8, MainHandWatched
  <2>9. CASE ClrFdSet(Main)
    BY <1>1, <2>9, ClrFdSetWatched DEF Threads
  <2>10. CASE ClearSlot(Main)
    BY <1>1, <2>10, ClearSlotWatched DEF Threads
  <2>11. CASE EnterRead
    BY <1>1, <2>11, EnterReadWatched
  <2>12. ~ClearPastEnd
    BY ClearsInside
  <2> QED
    BY <1>2, <2>1, <2>2, <2>3, <2>4, <2>5, <2>6, <2>7, <2>8, <2>9, <2>10,
       <2>11, <2>12
    DEF MainStep, SharedStep
<1>3. CASE KeeperThread
  <2>1. CASE \/ WakeUp \/ ReadState \/ CountDown \/ CheckNeedSend
             \/ RestartCount \/ CheckTimeOut \/ ReadFd
             \/ LockWrite(Keeper) \/ UnlockWrite(Keeper)
    BY <1>1, <2>1, KeeperIdleWatched
  <2>2. CASE LookupByFd(Keeper) \/ LockFdMap(Keeper) \/ FreeUnderLock(Keeper)
    BY <1>1, <2>2, KeeperHandWatched
  <2>3. CASE FindSlot
    BY <1>1, <2>3, FindSlotWatched
  <2>4. CASE CloseTimedOut
    BY <1>1, <2>4, CloseTimedOutWatched
  <2>5. CASE ClrFdSet(Keeper)
    BY <1>1, <2>5, ClrFdSetWatched DEF Threads
  <2>6. CASE ClearSlot(Keeper)
    BY <1>1, <2>6, ClearSlotWatched DEF Threads
  <2> QED
    BY <1>3, <2>1, <2>2, <2>3, <2>4, <2>5, <2>6
    DEF KeeperThread, KeeperStep, SharedStep
<1>4. CASE Tick \/ UNCHANGED vars \/ \E c \in Conns : Peer(c)
  BY <1>1, <1>4, OthersWatched
<1> QED
  BY <1>2, <1>3, <1>4 DEF Next

LEMMA WatchedInvariance ==
  ASSUME FdSetSize >= MaxFd
  PROVE  ApartSpec /\ [][~AcceptFails]_vars => []WatchedInv
<1>1. Init => WatchedInv
  BY WatchedInitially
<1>2. WatchedInv /\ [Next /\ ~Overlap']_vars /\ [~AcceptFails]_vars
        => WatchedInv'
  BY WatchedStep
<1> QED
  BY <1>1, <1>2, PTL DEF ApartSpec

\* The descriptors no thread has in hand: what is open is what select watches
\* and what the loop serves, once each; as long as accept always finds a
\* descriptor, of which there are no more than client[] has elements.
THEOREM WatchedAndServed ==
  ASSUME FdSetSize >= MaxFd
  PROVE  ApartSpec /\ [][~AcceptFails]_vars => []ConnectionsServed
<1>1. WatchedInv => ConnectionsServed
  <2> SUFFICES ASSUME WatchedInv, NEW f \in Fds, Quiet(f)
               PROVE  /\ IsOpen(f) <=> f \in allset
                      /\ IsOpen(f) <=> \E s \in Slots : client[s] = f
                      /\ \A r, s \in Slots :
                           client[r] = f /\ client[s] = f => r = s
    BY DEF ConnectionsServed
  <2>1. th[Main].fd # f /\ th[Keeper].fd # f /\ f # NoFd
    BY TableTypes DEF Quiet, Threads, WatchedInv, TableInv
  <2> QED
    BY <2>1
    DEF WatchedInv, SlotsOK, AllsetOK, ClientOK, InSlot, Unwatched, Stale,
        Unserved, Vacant
<1> QED
  BY <1>1, WatchedInvariance, PTL

\* On these schedules the main loop neither writes nor reads past the end of
\* client[], with no more descriptors than it has elements.
THEOREM NeverPastEnd ==
  ASSUME FdSetSize >= MaxFd
  PROVE  ApartSpec /\ [][~AcceptFails]_vars => []StaysInClientArray
<1>1. WatchedInv => StaysInClientArray
  BY DEF WatchedInv, SlotsOK, StaysInClientArray
<1> QED
  BY <1>1, WatchedInvariance, PTL

---------------------------------------------------------------------------
(* What the main thread waits for in read: the inductive invariant *)

\* A descriptor with something to read, or that is not the connection's any more
\* that select has reported under it.
Due(f) == Readable(conn[f]) \/ reported[f] # conn[f]

\* What select reports are connections that have been accepted.
ReportedOK ==
  \A f \in Fds : reported[f] # NoConn =>
    peer[reported[f]] # "idle" /\ reported[f] \notin backlog

\* The labels before rset and nready are the result of select, and the ones at
\* which the loop has come to some element of client[].
Fetching == {"copy", "select", "poll"}
Handling ==
  {"enter", "read", "alloc", "setinfo", "setmap", "lockwrite", "write", "touch",
   "latest", "served", "lookup", "freelock", "free", "clr", "unslot"}

\* The first element of client[] that has not been looked at.
Place ==
  IF th[Main].pc \in Handling THEN th[Main].idx + 1
  ELSE IF th[Main].pc = "scan" THEN th[Main].idx
  ELSE 0

\* Unless select has failed, rset is what it has reported.
RsetOK ==
  th[Main].pc \notin Fetching /\ nready >= 0 =>
    \A f \in rset : reported[f] # NoConn

\* What the loop has not come to yet is due.
DueOK ==
  th[Main].pc \notin Fetching /\ nready >= 0 =>
    \A s \in Slots :
      s >= Place /\ client[s] \in rset /\ IsOpen(client[s]) =>
        Due(client[s])

\* A failed select leaves nready at -1, for accept only.
CountOK ==
  th[Main].pc \notin Fetching \cup SlotLabels \cup {"accept"} => nready >= 0

ArrivalOK ==
  /\ th[Main].pc \in {"enter", "read"} =>
       th[Main].fd \in rset /\ Due(th[Main].fd)
  /\ th[Main].pc = "slot" => reported[th[Main].fd] # conn[th[Main].fd]

DueInv ==
  /\ WatchedInv
  /\ ReportedOK
  /\ RsetOK
  /\ DueOK
  /\ CountOK
  /\ ArrivalOK

LEMMA ReportedStays ==
  ASSUME IInv, ReportedOK, UNCHANGED <<reported, backlog>>,
         \A c \in Conns : peer[c] # "idle" => peer'[c] # "idle"
  PROVE  ReportedOK'
<1>1. reported \in [Fds -> Conns \cup {NoConn}]
  BY DEF IInv, TypeOK, ServerLoopTypeOK
<1> QED
  BY <1>1 DEF ReportedOK

\* What can be read of a connection with a descriptor can still be read after
\* a call of some other connection has ended.
LEMMA ReadableKept ==
  ASSUME IInv,
         NEW t \in Threads, NEW closed, NEW read, EndCall(t, closed, read),
         NEW f \in Fds, f \notin closed, NEW c \in Conns, c = conn[f],
         c \notin read, Readable(c)
  PROVE  Readable(c)'
<1>1. c \in {conn[g] : g \in Fds \ closed}
  OBVIOUS
<1>2. peer'[c] = peer[c] /\ inbox'[c] = inbox[c]
  BY <1>1 DEF EndCall
<1> QED
  BY <1>2 DEF Readable

\* A step of the keep-alive thread, of the peers or of the clock.
LEMMA OthersDue ==
  ASSUME DueInv, WatchedInv', ReportedOK', th'[Main] = th[Main],
         UNCHANGED loop,
         \A s \in Slots : client'[s] \in {client[s], NoFd},
         \A f \in Fds : conn'[f] \in {conn[f], NoConn},
         \A f \in Fds, c \in Conns :
           c = conn[f] /\ conn'[f] = c /\ Readable(c) => Readable(c)'
  PROVE  DueInv'
<1> USE DEF DueInv, WatchedInv, TableInv
<1>1. UNCHANGED <<rset, nready, reported>> /\ Place' = Place
  BY DEF loop, Place
<1>2. \A f \in Fds : conn'[f] # NoConn /\ Due(f) => Due(f)'
  <2> SUFFICES ASSUME NEW f \in Fds, conn'[f] # NoConn, Due(f)
               PROVE  Due(f)'
    OBVIOUS
  <2>1. PICK c \in Conns : c = conn[f] /\ conn'[f] = c
    BY TableTypes
  <2>2. Readable(c) => Readable(c)'
    BY <2>1
  <2> QED
    BY <1>1, <2>1, <2>2 DEF Due
<1>3. DueOK'
  <2> SUFFICES ASSUME th'[Main].pc \notin Fetching, nready >= 0,
                      NEW s \in Slots, s >= Place, client'[s] \in rset,
                      IsOpen(client[s])'
               PROVE  Due(client[s])'
    BY <1>1 DEF DueOK
  <2>1. client'[s] = client[s] /\ client[s] \in Fds
    BY <1>1, TableTypes DEF IInv, TypeOK, ServerLoopTypeOK
  <2>2. PICK f \in Fds : f = client[s] /\ client'[s] = f
    BY <2>1
  <2>3. conn'[f] # NoConn /\ conn[f] # NoConn
    BY <2>2, TableTypes DEF IsOpen
  <2>4. Due(f)
    BY <1>1, <2>2, <2>3 DEF DueOK, IsOpen
  <2>5. Due(f)'
    BY <1>2, <2>3, <2>4
  <2> QED
    BY <2>2, <2>5
<1>4. CountOK' /\ RsetOK'
  BY <1>1 DEF CountOK, RsetOK
<1>5. ArrivalOK'
  <2>1. CASE th[Main].pc \in {"enter", "read"}
    <3>1. PICK f \in Fds : f = th[Main].fd
      BY <2>1, Basics DEF ThreadOK, FdLabels
    <3>2. conn'[f] = conn[f] /\ conn[f] # NoConn
      BY <2>1, <3>1 DEF HandOK, IsOpen
    <3>3. Due(f)'
      BY <1>2, <2>1, <3>1, <3>2 DEF ArrivalOK
    <3> QED
      BY <1>1, <2>1, <3>1, <3>3 DEF ArrivalOK
  <2>2. CASE th[Main].pc = "slot"
    <3>1. PICK f \in Fds : f = th[Main].fd
      BY <2>2 DEF HandOK, SlotLabels
    <3>2. conn'[f] = conn[f]
      BY <2>2, <3>1 DEF HandOK, SlotLabels, IsOpen
    <3> QED
      BY <1>1, <2>2, <3>1, <3>2 DEF ArrivalOK
  <2> QED
    BY <2>1, <2>2 DEF ArrivalOK
<1> QED
  BY <1>3, <1>4, <1>5

LEMMA KeeperLeavesLoop == KeeperThread => UNCHANGED <<loop, reported>>
BY DEF KeeperThread, loop

\* It can only take a descriptor out of client[].
LEMMA KeeperClears ==
  ASSUME IInv, KeeperThread
  PROVE  \A s \in Slots : client'[s] \in {client[s], NoFd}
<1>1. ClearSlot(Keeper) => \A s \in Slots : client'[s] \in {client[s], NoFd}
  BY TableTypes DEF ClearSlot
<1>2. CASE ~ClearSlot(Keeper)
  <2>1. UNCHANGED client
    BY <1>2
    DEF KeeperThread, KeeperStep, SharedStep, WakeUp, ReadState, CountDown,
        CheckNeedSend, RestartCount, InfoStep, CheckTimeOut, ReadFd, FindSlot,
        CloseTimedOut, LockWrite, UnlockWrite, LookupByFd, LockFdMap,
        FreeUnderLock, FreeAndRelease, ClrFdSet, watch
  <2> QED
    BY <2>1
<1> QED
  BY <1>1, <1>2

LEMMA KeeperDue ==
  ASSUME DueInv, WatchedInv', KeeperThread
  PROVE  DueInv'
<1> USE DEF DueInv, WatchedInv, TableInv
<1>1. th'[Main] = th[Main]
  <2>1. ASSUME NEW p, Goto(Keeper, p) PROVE th'[Main] = th[Main]
    BY <2>1, Basics DEF Goto
  <2>2. CASE \/ WakeUp \/ ReadState \/ CountDown \/ CheckNeedSend
             \/ RestartCount \/ CheckTimeOut \/ ReadFd
             \/ LockWrite(Keeper) \/ UnlockWrite(Keeper)
    BY <2>2, KeeperColdMoves
  <2>3. CASE FindSlot \/ CloseTimedOut \/ LookupByFd(Keeper)
    BY <2>1, <2>3, Basics DEF FindSlot, CloseTimedOut, NextAddr, LookupByFd
  <2>4. CASE \/ LockFdMap(Keeper) \/ FreeUnderLock(Keeper)
             \/ ClrFdSet(Keeper) \/ ClearSlot(Keeper)
    BY <2>1, <2>4
    DEF LockFdMap, FreeUnderLock, FreeAndRelease, ClrFdSet, ClearSlot
  <2> QED
    BY <2>2, <2>3, <2>4 DEF KeeperThread, KeeperStep, SharedStep
<1>2. UNCHANGED <<loop, reported>>
  BY KeeperLeavesLoop
<1>3. \A s \in Slots : client'[s] \in {client[s], NoFd}
  BY KeeperClears
<1>4. CASE CloseTimedOut \/ UnlockWrite(Keeper)
  <2>1. PICK closed \in SUBSET (Fds \cup {NoFd}) : EndCall(Keeper, closed, {})
    <3>1. th[Keeper].fd \in Fds \cup {NoFd}
      BY Basics DEF Locals
    <3> QED
      BY <1>4, <3>1 DEF CloseTimedOut, UnlockWrite
  <2>2. /\ UNCHANGED backlog
        /\ conn' = [f \in Fds |-> IF f \in closed THEN NoConn ELSE conn[f]]
        /\ \A c \in Conns : peer[c] # "idle" => peer'[c] # "idle"
    BY <2>1, EndCallKeeps
  <2>3. ReportedOK'
    BY <1>2, <2>2, ReportedStays
  <2>4. \A f \in Fds : conn'[f] \in {conn[f], NoConn}
    BY <2>2
  <2>5. ASSUME NEW f \in Fds, NEW c \in Conns, c = conn[f], conn'[f] = c,
               Readable(c)
        PROVE  Readable(c)'
    <3>1. f \notin closed
      BY <2>2, <2>5, TableTypes
    <3> QED
      BY <2>1, <2>5, <3>1, ReadableKept, Basics
  <2> QED
    BY <1>1, <1>2, <1>3, <2>3, <2>4, <2>5, OthersDue
<1>5. CASE ~CloseTimedOut /\ ~UnlockWrite(Keeper)
  <2>1. UNCHANGED net
    BY <1>5 DEF KeeperThread, KeeperStep, SharedStep, WakeUp, ReadState,
         CountDown, CheckNeedSend, RestartCount, InfoStep, CheckTimeOut, ReadFd,
         FindSlot, LockWrite, LookupByFd, LockFdMap, FreeUnderLock,
         FreeAndRelease, ClrFdSet, ClearSlot
  <2>2. UNCHANGED <<conn, backlog, peer, inbox>>
    BY <2>1 DEF net
  <2>3. ReportedOK'
    BY <1>2, <2>2, ReportedStays
  <2>4. \A c \in Conns : Readable(c) => Readable(c)'
    BY <2>2 DEF Readable
  <2> QED
    BY <1>1, <1>2, <1>3, <2>2, <2>3, <2>4, OthersDue
<1> QED
  BY <1>4, <1>5

\* What a peer sends, and the end of a connection, make it readable.
LEMMA PeerDue ==
  ASSUME DueInv, WatchedInv', Tick \/ UNCHANGED vars \/ \E c \in Conns : Peer(c)
  PROVE  DueInv'
<1> USE DEF DueInv, WatchedInv, TableInv
<1>1. UNCHANGED <<client, th, loop, reported>>
  BY DEF Tick, Peer, vars, watch, tables, loop
<1>2. CASE Tick \/ UNCHANGED vars
  <2>1. UNCHANGED <<conn, backlog, peer, inbox>>
    BY <1>2 DEF Tick, vars, net
  <2>2. ReportedOK'
    BY <1>1, <2>1, ReportedStays
  <2>3. \A c \in Conns : Readable(c) => Readable(c)'
    BY <2>1 DEF Readable
  <2> QED
    BY <1>1, <2>1, <2>2, <2>3, OthersDue
<1>3. ASSUME NEW c \in Conns, PeerStep(c) PROVE DueInv'
  <2>1. UNCHANGED conn
    BY <1>3 DEF PeerStep, Connect, SendMessage, PeerClose, PeerReset, Stall,
                Drain
  <2>2. ASSUME NEW d \in Conns, Readable(d) PROVE Readable(d)'
    <3>1. PeerReset(c) => peer'[c] = "reset" /\ \A e \in Conns \ {c} :
            peer'[e] = peer[e] /\ inbox'[e] = inbox[e]
      BY TableTypes DEF PeerReset
    <3>2. CASE \/ Connect(c) \/ PeerClose(c)
               \/ \E m \in Messages : SendMessage(c, m)
      <4>1. \A m \in Messages : m # "none"
        BY SocketsAssumption
      <4> QED
        BY <2>2, <3>2, <4>1, TableTypes
        DEF Connect, PeerClose, SendMessage, Readable
    <3>3. CASE Stall(c) \/ Drain(c)
      BY <2>2, <3>3 DEF Stall, Drain, Readable
    <3> QED
      BY <1>3, <2>2, <3>1, <3>2, <3>3 DEF PeerStep, Readable
  <2>3. ReportedOK'
    <3>1. CASE Connect(c)
      <4>1. /\ peer[c] = "idle" /\ backlog' = backlog \cup {c}
            /\ \A d \in Conns : peer'[d] = IF d = c THEN "up" ELSE peer[d]
        BY <3>1, TableTypes DEF Connect
      <4>2. /\ UNCHANGED reported
            /\ reported \in [Fds -> Conns \cup {NoConn}]
        BY <1>1 DEF IInv, TypeOK, ServerLoopTypeOK
      <4> QED
        BY <4>1, <4>2 DEF ReportedOK
    <3>2. CASE ~Connect(c)
      <4>1. UNCHANGED backlog
        BY <1>3, <3>2 DEF PeerStep, SendMessage, PeerClose, PeerReset, Stall,
                          Drain
      <4>2. \A d \in Conns : peer[d] # "idle" => peer'[d] # "idle"
        BY <1>3, <3>2, TableTypes DEF PeerStep, SendMessage, PeerClose,
           PeerReset, Stall, Drain
      <4> QED
        BY <1>1, <4>1, <4>2, ReportedStays
    <3> QED
      BY <3>1, <3>2
  <2> QED
    BY <1>1, <2>1, <2>2, <2>3, OthersDue
<1> QED
  BY <1>2, <1>3 DEF Peer

LEMMA NoneReported == NextIteration => ReportedOK'
BY DEF NextIteration, NothingReported, ReportedOK

\* The loop starts over: nothing is known of what is ready.
LEMMA FetchingDue ==
  ASSUME DueInv, WatchedInv', ReportedOK', th'[Main].pc \in Fetching
  PROVE  DueInv'
BY DEF DueInv, RsetOK, DueOK, CountOK, ArrivalOK, Fetching

\* The main thread moves on in an iteration, and leaves a descriptor behind.
LEMMA MainOnward ==
  ASSUME DueInv, WatchedInv', ReportedOK',
         UNCHANGED <<rset, nready, reported>>,
         \A s \in Slots : client'[s] \in {client[s], NoFd},
         \A f \in Fds : conn'[f] \in {conn[f], NoConn},
         th[Main].pc \notin Fetching \cup SlotLabels \cup {"accept"},
         th'[Main].pc \notin {"enter", "read", "slot"},
         \A s \in Slots : s >= Place' => s >= Place,
         \A s \in Slots, f \in Fds :
           s >= Place' /\ f = client[s] /\ f = client'[s]
             /\ conn'[f] # NoConn /\ Due(f) => Due(f)'
  PROVE  DueInv'
<1> USE DEF DueInv, WatchedInv, TableInv
<1>1. nready >= 0
  BY DEF CountOK
<1>2. DueOK'
  <2> SUFFICES ASSUME NEW s \in Slots, s >= Place', client'[s] \in rset,
                      IsOpen(client[s])'
               PROVE  Due(client[s])'
    BY DEF DueOK
  <2>1. client'[s] = client[s] /\ client[s] \in Fds
    BY TableTypes DEF IInv, TypeOK, ServerLoopTypeOK
  <2>2. PICK f \in Fds : f = client[s] /\ client'[s] = f
    BY <2>1
  <2>3. conn'[f] # NoConn /\ conn[f] # NoConn
    BY <2>2, TableTypes DEF IsOpen
  <2>4. Due(f)
    BY <1>1, <2>2, <2>3 DEF DueOK, IsOpen
  <2>5. Due(f)'
    BY <2>2, <2>3, <2>4
  <2> QED
    BY <2>2, <2>5
<1>3. RsetOK' /\ CountOK' /\ ArrivalOK'
  BY <1>1 DEF RsetOK, CountOK, ArrivalOK
<1> QED
  BY <1>2, <1>3

\* The steps that serve client[i].
LEMMA MainHandles ==
  ASSUME IInv,
         \/ ReadEnds \/ ReadMessage \/ GetFreeV4Addr \/ SetInfo \/ SetFdInfoMap
         \/ GetUserInfoByFd \/ RenewLease \/ SharedStep(Main)
  PROVE  /\ th[Main].pc \in Handling
         /\ th'[Main].pc \in Handling \ {"enter", "read"}
         /\ th'[Main].idx = th[Main].idx
<1>1. ASSUME NEW p \in Handling \ {"enter", "read"}, Goto(Main, p),
             th[Main].pc \in Handling
      PROVE  /\ th[Main].pc \in Handling
             /\ th'[Main].pc \in Handling \ {"enter", "read"}
             /\ th'[Main].idx = th[Main].idx
  BY <1>1, Basics DEF Goto, Locals
<1>2. ASSUME NEW l, th' = [th EXCEPT ![Main] = l],
             l.pc \in Handling \ {"enter", "read"}, l.idx = th[Main].idx,
             th[Main].pc \in Handling
      PROVE  /\ th[Main].pc \in Handling
             /\ th'[Main].pc \in Handling \ {"enter", "read"}
             /\ th'[Main].idx = th[Main].idx
  BY <1>2, MainMoved
<1>3. CASE ReadEnds
  <2> DEFINE l == [th[Main] EXCEPT !.pc = "clr", !.to = NoConn]
  <2>1. /\ th' = [th EXCEPT ![Main] = l] /\ l.pc = "clr"
        /\ l.idx = th[Main].idx
    BY <1>3, Basics DEF ReadEnds, Locals
  <2> HIDE DEF l
  <2> QED
    BY <1>2, <1>3, <2>1 DEF ReadEnds, At, Handling
<1>4. CASE ReadMessage
  <2> DEFINE c == th[Main].to
             p == CASE inbox[c] = "request" -> "alloc"
                    [] inbox[c] = "refresh" -> "touch"
                    [] inbox[c] = "ignored" -> "served"
             l == [th[Main] EXCEPT !.pc = p, !.to = NoConn]
  <2>1. c \in Conns
    BY <1>4, Basics DEF ReadMessage, Locals
  <2>2. p \in {"alloc", "touch", "served"}
    BY <1>4, <2>1, TableTypes DEF ReadMessage, MessageKinds
  <2> HIDE DEF p
  <2>3. th' = [th EXCEPT ![Main] = l] /\ l.pc = p /\ l.idx = th[Main].idx
    BY <1>4, Basics DEF ReadMessage, Locals, p
  <2> HIDE DEF l
  <2> QED
    BY <1>2, <1>4, <2>2, <2>3 DEF ReadMessage, At, Handling
<1>5. CASE GetFreeV4Addr
  <2> DEFINE l1 == [th[Main] EXCEPT !.pc = "served"]
             l2 == [th[Main] EXCEPT !.pc = "setinfo", !.rec = Min(FreeAddrs)]
  <2>1. th' = [th EXCEPT ![Main] = l1] \/ th' = [th EXCEPT ![Main] = l2]
    BY <1>5, Basics DEF GetFreeV4Addr, Locals
  <2>2. /\ l1.pc = "served" /\ l1.idx = th[Main].idx
        /\ l2.pc = "setinfo" /\ l2.idx = th[Main].idx
    BY Basics DEF Locals
  <2> HIDE DEF l1, l2
  <2> QED
    BY <1>2, <1>5, <2>1, <2>2 DEF GetFreeV4Addr, At, Handling
<1>6. CASE SetInfo \/ SetFdInfoMap \/ RenewLease
  BY <1>1, <1>6 DEF SetInfo, SetFdInfoMap, RenewLease, InfoStep, At, Handling
<1>7. CASE GetUserInfoByFd
  <2>1. PICK p \in {"served", "latest"} :
          th' = [th EXCEPT ![Main].rec = fdMap[th[Main].fd], ![Main].pc = p]
    BY <1>7 DEF GetUserInfoByFd
  <2> DEFINE l == [th[Main] EXCEPT !.rec = fdMap[th[Main].fd], !.pc = p]
  <2>2. th' = [th EXCEPT ![Main] = l] /\ l.pc = p /\ l.idx = th[Main].idx
    BY <2>1, Basics DEF Locals
  <2> HIDE DEF l
  <2> QED
    BY <1>2, <1>7, <2>2 DEF GetUserInfoByFd, At, Handling
<1>8. CASE LockWrite(Main)
  <2> DEFINE l == [th[Main] EXCEPT !.pc = "write",
                                   !.to = ConnOf(info[th[Main].rec].fd)]
  <2>1. th' = [th EXCEPT ![Main] = l] /\ l.pc = "write" /\ l.idx = th[Main].idx
    BY <1>8, Basics DEF LockWrite, Locals
  <2> HIDE DEF l
  <2> QED
    BY <1>2, <1>8, <2>1 DEF LockWrite, At, Handling
<1>9. CASE UnlockWrite(Main)
  <2> DEFINE l == [th[Main] EXCEPT !.pc = "served", !.to = NoConn]
  <2>1. th' = [th EXCEPT ![Main] = l] /\ l.pc = "served" /\ l.idx = th[Main].idx
    BY <1>9, Basics DEF UnlockWrite, Locals
  <2> HIDE DEF l
  <2> QED
    BY <1>2, <1>9, <2>1 DEF UnlockWrite, At, Handling
<1>10. CASE LookupByFd(Main)
  <2> DEFINE l == [th[Main] EXCEPT !.pc = "freelock",
                                   !.rec = fdMap[th[Main].fd]]
  <2>1. /\ th' = [th EXCEPT ![Main] = l] /\ l.pc = "freelock"
        /\ l.idx = th[Main].idx
    BY <1>10, Basics DEF LookupByFd, Locals
  <2> HIDE DEF l
  <2> QED
    BY <1>2, <1>10, <2>1 DEF LookupByFd, At, Handling
<1>11. CASE LockFdMap(Main) \/ FreeUnderLock(Main)
  BY <1>1, <1>11
  DEF LockFdMap, FreeUnderLock, FreeAndRelease, AfterFree, At, Handling
<1>12. CASE ClrFdSet(Main) \/ ClearSlot(Main)
  BY <1>1, <1>12 DEF ClrFdSet, ClearSlot, AfterUnslot, At, Handling
<1> QED
  BY <1>3, <1>4, <1>5, <1>6, <1>7, <1>8, <1>9, <1>10, <1>11, <1>12
  DEF SharedStep

\* The steps that forward packets, up to the start of the loop over client[].
LEMMA MainForwards ==
  ASSUME IInv,
         \/ RecvPacket \/ ReadPacketFd \/ EnterPacketWrite \/ WritePacket
         \/ PacketsDone
  PROVE  /\ th[Main].pc \in {"raw", "rawfd", "rawenter", "rawwrite"}
         /\ \/ th'[Main].pc \in {"raw", "rawfd", "rawenter", "rawwrite"}
            \/ th'[Main].pc = "scan" /\ th'[Main].idx = 0
<1>1. th[Main].pc \in {"raw", "rawfd", "rawenter", "rawwrite"}
  BY DEF RecvPacket, ReadPacketFd, EnterPacketWrite, WritePacket, PacketsDone, At
<1>2. CASE RecvPacket
  <2>1. \/ \E a : th' = [th EXCEPT ![Main].pc = "rawfd", ![Main].rec = a]
        \/ th' = th
    BY <1>2 DEF RecvPacket
  <2> QED
    BY <1>1, <2>1, Basics DEF Locals
<1>3. CASE th' = [th EXCEPT ![Main] = Fresh("raw", 0)]
  <2>1. th'[Main] = Fresh("raw", 0)
    BY <1>3, MainMoved
  <2>2. th'[Main].pc = "raw"
    BY <2>1, FreshPc, Zenon
  <2> QED
    BY <1>1, <2>2
<1>4. CASE ReadPacketFd /\ th' # [th EXCEPT ![Main] = Fresh("raw", 0)]
  BY <1>1, <1>4, Basics DEF ReadPacketFd, Locals
<1>5. CASE PacketsDone
  BY <1>1, <1>5, Basics DEF PacketsDone, Locals
<1>6. CASE EnterPacketWrite
  BY <1>1, <1>6, EnterPacketWriteMoves
<1> QED
  BY <1>2, <1>3, <1>4, <1>5, <1>6 DEF WritePacket

\* Between two descriptors the main thread leaves select's report alone.
LEMMA MainIdleLoop ==
  ASSUME \/ RecvPacket \/ ReadPacketFd \/ EnterPacketWrite \/ WritePacket
         \/ PacketsDone
         \/ GetFreeV4Addr \/ SetInfo \/ SetFdInfoMap
         \/ GetUserInfoByFd \/ RenewLease
         \/ SharedStep(Main) /\ UNCHANGED loop
  PROVE  UNCHANGED <<rset, nready, reported>>
<1>1. RecvPacket => UNCHANGED <<rset, nready, reported>>
  BY DEF RecvPacket
<1>2. CASE \/ ReadPacketFd \/ EnterPacketWrite \/ WritePacket \/ PacketsDone
  BY <1>2 DEF ReadPacketFd, EnterPacketWrite, WritePacket, PacketsDone, loop
<1>3. CASE \/ GetFreeV4Addr \/ SetInfo \/ SetFdInfoMap \/ GetUserInfoByFd
           \/ RenewLease
           \/ SharedStep(Main) /\ UNCHANGED loop
  BY <1>3 DEF GetFreeV4Addr, SetInfo, SetFdInfoMap, GetUserInfoByFd, RenewLease,
              loop
<1> QED
  BY <1>1, <1>2, <1>3

LEMMA MainIdleClears ==
  ASSUME IInv,
         \/ RecvPacket \/ ReadPacketFd \/ EnterPacketWrite \/ WritePacket
         \/ PacketsDone
         \/ GetFreeV4Addr \/ SetInfo \/ SetFdInfoMap
         \/ GetUserInfoByFd \/ RenewLease
         \/ SharedStep(Main) /\ UNCHANGED loop
  PROVE  \A s \in Slots : client'[s] \in {client[s], NoFd}
<1>1. ClearSlot(Main) => \A s \in Slots : client'[s] \in {client[s], NoFd}
  BY TableTypes DEF ClearSlot
<1>2. CASE ~ClearSlot(Main)
  <2>1. UNCHANGED client
    BY <1>2
    DEF RecvPacket, ReadPacketFd, EnterPacketWrite, WritePacket, PacketsDone,
        GetFreeV4Addr, SetInfo, SetFdInfoMap, GetUserInfoByFd, RenewLease,
        InfoStep, SharedStep, LockWrite, UnlockWrite, LookupByFd, LockFdMap,
        FreeUnderLock, FreeAndRelease, ClrFdSet, watch
  <2> QED
    BY <2>1
<1> QED
  BY <1>1, <1>2

LEMMA MainIdleDue ==
  ASSUME DueInv, WatchedInv',
         \/ RecvPacket \/ ReadPacketFd \/ EnterPacketWrite \/ WritePacket
         \/ PacketsDone
         \/ GetFreeV4Addr \/ SetInfo \/ SetFdInfoMap
         \/ GetUserInfoByFd \/ RenewLease
         \/ SharedStep(Main) /\ UNCHANGED loop
  PROVE  DueInv'
<1> USE DEF DueInv, WatchedInv, TableInv
<1>1. /\ th[Main].pc \notin Fetching \cup SlotLabels \cup {"accept"}
      /\ th'[Main].pc \notin {"enter", "read", "slot"}
      /\ \A s \in Slots : s >= Place' => s >= Place
  <2>1. CASE \/ RecvPacket \/ ReadPacketFd \/ EnterPacketWrite
             \/ WritePacket \/ PacketsDone
    BY <2>1, MainForwards, ServerAssumption
    DEF Fetching, SlotLabels, Place, Handling, Slots
  <2>2. CASE ~(\/ RecvPacket \/ ReadPacketFd \/ EnterPacketWrite
               \/ WritePacket \/ PacketsDone)
    BY <2>2, MainHandles DEF Fetching, SlotLabels, Place, Handling
  <2> QED
    BY <2>1, <2>2
<1>2. UNCHANGED <<rset, nready, reported>>
  BY MainIdleLoop
<1>3. \A s \in Slots : client'[s] \in {client[s], NoFd}
  BY MainIdleClears
<1>4. /\ UNCHANGED <<conn, backlog>>
      /\ \A c \in Conns : peer[c] # "idle" => peer'[c] # "idle"
      /\ \A f \in Fds, c \in Conns : c = conn[f] /\ Readable(c) => Readable(c)'
  <2>1. CASE WritePacket \/ UnlockWrite(Main)
    <3>1. EndCall(Main, {}, {})
      BY <2>1 DEF WritePacket, UnlockWrite
    <3> QED
      BY <3>1, EndCallKeeps, ReadableKept, Basics
  <2>2. CASE ~WritePacket /\ ~UnlockWrite(Main)
    <3>1. UNCHANGED <<conn, backlog, peer, inbox>>
      BY <2>2
      DEF RecvPacket, ReadPacketFd, EnterPacketWrite, PacketsDone,
          GetFreeV4Addr, SetInfo, SetFdInfoMap, GetUserInfoByFd, RenewLease,
         InfoStep, SharedStep,
          LockWrite, LookupByFd, LockFdMap, FreeUnderLock, FreeAndRelease,
          ClrFdSet, ClearSlot, net
    <3> QED
      BY <3>1 DEF Readable
  <2> QED
    BY <2>1, <2>2
<1>5. ReportedOK'
  BY <1>2, <1>4, ReportedStays
<1>6. ASSUME NEW f \in Fds, conn'[f] # NoConn, Due(f)
      PROVE  Due(f)'
  <2>1. PICK c \in Conns : c = conn[f] /\ c = conn'[f]
    BY <1>4, <1>6, TableTypes
  <2>2. Readable(c) => Readable(c)'
    BY <1>4, <2>1
  <2> QED
    BY <1>2, <1>6, <2>1, <2>2 DEF Due
<1> QED
  BY <1>1, <1>2, <1>3, <1>4, <1>5, <1>6, MainOnward

\* What is due further on in client[] is not what has just been read.
LEMMA ReadDue ==
  ASSUME DueInv, WatchedInv', ReadEnds \/ ReadMessage
  PROVE  DueInv'
<1> USE DEF DueInv, WatchedInv, TableInv
<1>1. /\ th[Main].pc = "read"
      /\ th'[Main].pc \in Handling \ {"enter", "read"}
      /\ th'[Main].idx = th[Main].idx
  BY MainHandles DEF ReadEnds, ReadMessage, At
<1>2. UNCHANGED <<rset, nready, reported, client>>
  BY DEF ReadEnds, ReadMessage, tables, watch, loop
<1>3. PICK closed \in SUBSET (Fds \cup {NoFd}), read \in SUBSET {th[Main].to} :
        EndCall(Main, closed, read)
  <2>1. th[Main].fd \in Fds \cup {NoFd}
    BY Basics DEF Locals
  <2> QED
    BY <2>1 DEF ReadEnds, ReadMessage
<1>4. /\ UNCHANGED backlog
      /\ \A f \in Fds : conn'[f] = IF f \in closed THEN NoConn ELSE conn[f]
      /\ \A c \in Conns : peer[c] # "idle" => peer'[c] # "idle"
  <2>1. conn' = [f \in Fds |-> IF f \in closed THEN NoConn ELSE conn[f]]
    BY <1>3, EndCallKeeps
  <2> QED
    BY <1>3, <2>1, EndCallKeeps
<1>5. ReportedOK'
  BY <1>2, <1>4, ReportedStays
<1>6. /\ th[Main].idx \in Slots /\ client[th[Main].idx] = th[Main].fd
      /\ th[Main].to = conn[th[Main].fd] /\ th[Main].fd \in Fds
  BY <1>1, Basics DEF HandOK, Serving, MainOK, ThreadOK, FdLabels
<1>7. \A s \in Slots : s >= Place' => s >= Place /\ s # th[Main].idx
  BY <1>1, <1>6 DEF Place, Handling, Slots
<1>8. ASSUME NEW s \in Slots, NEW f \in Fds, s >= Place', f = client[s],
             conn'[f] # NoConn, Due(f)
      PROVE  Due(f)'
  <2>1. PICK c \in Conns : c = conn[f] /\ c = conn'[f] /\ f \notin closed
    BY <1>4, <1>8, TableTypes
  <2>2. f # th[Main].fd
    BY <1>6, <1>7, <1>8, TableTypes DEF SlotsOK
  <2>3. c \notin read
    <3>1. c # NoConn
      BY <1>8, <2>1
    <3>2. conn[f] # conn[th[Main].fd]
      BY <1>6, <2>1, <2>2, <3>1 DEF ConnsOK
    <3> QED
      BY ONLY <1>3, <1>6, <2>1, <3>2
  <2>4. Readable(c) => Readable(c)'
    BY <1>3, <2>1, <2>3, ReadableKept, Basics
  <2> QED
    BY <1>2, <1>8, <2>1, <2>4 DEF Due
<1>9. th[Main].pc \notin Fetching \cup SlotLabels \cup {"accept"}
  BY <1>1 DEF Fetching, SlotLabels
<1>10. /\ th'[Main].pc \notin {"enter", "read", "slot"}
       /\ \A s \in Slots : client'[s] \in {client[s], NoFd}
       /\ \A f \in Fds : conn'[f] \in {conn[f], NoConn}
  BY <1>1, <1>2, <1>4 DEF Handling
<1> QED
  BY <1>2, <1>5, <1>7, <1>8, <1>9, <1>10, MainOnward

\* The start of an iteration, and select up to its return.
LEMMA FetchDue ==
  ASSUME DueInv, WatchedInv', CopyAllset \/ SelectWaits
  PROVE  DueInv'
<1> USE DEF DueInv, WatchedInv, TableInv
<1>1. th'[Main].pc \in Fetching
  BY Jumps, Basics DEF CopyAllset, SelectWaits, Fetching
<1>2. ReportedOK'
  BY ReportedStays DEF CopyAllset, SelectWaits, net, loop
<1> QED
  BY <1>1, <1>2, FetchingDue

\* Without a failure, nready counts what can be read.
LEMMA SelectDue ==
  ASSUME DueInv, WatchedInv', SelectFails \/ SelectReturns
  PROVE  DueInv'
<1> USE DEF DueInv, WatchedInv, TableInv
<1>1. UNCHANGED <<conn, backlog, peer, inbox, client>>
  BY DEF SelectFails, SelectReturns, net, tables, watch
<1>2. CASE SelectFails
  <2>1. nready' = -1 /\ th'[Main].pc = "accept" /\ UNCHANGED reported
    BY <1>2, Jumps, Basics DEF SelectFails
  <2>2. ReportedOK'
    BY <1>1, <2>1, ReportedStays
  <2> QED
    BY <2>1, <2>2 DEF RsetOK, DueOK, CountOK, ArrivalOK
<1>3. CASE SelectReturns
  <2>1. th'[Main].pc \in {"raw", "accept"}
    BY <1>3, Jumps, Basics DEF SelectReturns, AfterSelect
  <2>2. rset' = {f \in rset : IsOpen(f) /\ Readable(conn[f])}
    BY <1>3 DEF SelectReturns
  <2>3. nready' >= 0
    <3> DEFINE incoming == IF backlog = {} THEN {} ELSE {"listen"}
    <3>1. PICK raw \in SUBSET RawFds :
            nready' = Cardinality({f \in rset : IsOpen(f) /\ Readable(conn[f])})
                        + Cardinality(incoming \cup raw)
      BY <1>3 DEF SelectReturns
    <3>2. /\ {f \in rset : IsOpen(f) /\ Readable(conn[f])} \in SUBSET Fds
          /\ incoming \cup raw \in SUBSET (RawFds \cup {"listen"})
      BY DEF IInv, TypeOK, ServerLoopTypeOK
    <3> HIDE DEF incoming
    <3> QED
      BY <3>1, <3>2, CountType
  <2>4. DueOK'
    <3> SUFFICES ASSUME NEW s \in Slots, client[s] \in rset'
                 PROVE  Due(client[s])'
      BY <1>1 DEF DueOK
    <3>1. PICK f \in Fds : f = client[s] /\ f = client'[s] /\ Readable(conn[f])
      BY <1>1, <2>2 DEF IInv, TypeOK, ServerLoopTypeOK
    <3>2. Readable(conn[f])'
      BY <1>1, <3>1 DEF Readable
    <3> QED
      BY <3>1, <3>2 DEF Due
  <2>5. \A f \in Fds : reported'[f] = IF f \in rset' THEN conn[f] ELSE NoConn
    <3> DEFINE ready == {f \in rset : IsOpen(f) /\ Readable(conn[f])}
    <3>1. reported' = [f \in Fds |-> IF f \in ready THEN conn[f] ELSE NoConn]
      BY <1>3 DEF SelectReturns
    <3>2. rset' = ready
      BY <2>2
    <3> HIDE DEF ready
    <3> QED
      BY <3>1, <3>2
  <2>6. ReportedOK'
    BY <1>1, <2>5 DEF ReportedOK, ConnsOK
  <2>7. RsetOK'
    <3>1. \A f \in rset' : f \in Fds /\ conn[f] # NoConn
      BY <2>2 DEF IsOpen, IInv, TypeOK, ServerLoopTypeOK
    <3> QED
      BY <2>5, <3>1 DEF RsetOK
  <2> QED
    BY <2>1, <2>3, <2>4, <2>6, <2>7 DEF CountOK, ArrivalOK
<1> QED
  BY <1>2, <1>3

\* The connection accept takes from the backlog is none that select reported.
LEMMA AcceptConnDue ==
  ASSUME DueInv, WatchedInv', AcceptConn
  PROVE  DueInv'
<1> USE DEF DueInv, WatchedInv, TableInv
<1>1. PICK f \in Fds : f = LowestFreeFd /\ ~IsOpen(f)
  <2>1. FreeFds \in SUBSET Nat /\ FreeFds # {}
    BY SocketsAssumption DEF AcceptConn, FreeFds, Fds
  <2>2. LowestFreeFd \in FreeFds
    BY <2>1, MinOfNats DEF LowestFreeFd
  <2> QED
    BY <2>2 DEF FreeFds
<1>2. th[Main].pc = "accept" /\ th'[Main].pc = "slot" /\ th'[Main].fd = f
  <2> DEFINE l == [th[Main] EXCEPT !.pc = "slot", !.fd = f]
  <2>1. th' = [th EXCEPT ![Main] = l] /\ l.pc = "slot" /\ l.fd = f
    BY <1>1, Basics DEF AcceptConn, Locals
  <2> HIDE DEF l
  <2> QED
    BY <2>1, MainMoved DEF AcceptConn, At
<1>3. PICK c \in backlog : /\ conn' = [conn EXCEPT ![f] = c]
                           /\ backlog' = backlog \ {c}
  BY <1>1 DEF AcceptConn
<1>4. UNCHANGED <<peer, inbox, client, rset, nready, reported>>
  BY DEF AcceptConn, tables, watch, loop
<1>5. ReportedOK'
  BY <1>3, <1>4 DEF ReportedOK
<1>6. reported[f] # c
  <2>1. c # NoConn
    BY <1>3, TableTypes
  <2> QED
    BY <1>1, <1>3, <2>1 DEF ReportedOK
<1>7. ArrivalOK' /\ RsetOK'
  <2>1. conn'[f] = c
    BY <1>1, <1>3, TableTypes
  <2> QED
    BY <1>2, <1>4, <1>6, <2>1 DEF ArrivalOK, RsetOK, Fetching
<1>8. CountOK'
  BY <1>2 DEF CountOK, SlotLabels
<1>9. DueOK'
  <2> SUFFICES ASSUME nready >= 0, NEW s \in Slots, client[s] \in rset,
                      IsOpen(client[s])'
               PROVE  Due(client[s])'
    BY <1>4 DEF DueOK
  <2>1. PICK g \in Fds : g = client[s] /\ g = client'[s]
    BY <1>4 DEF IInv, TypeOK, ServerLoopTypeOK
  <2>2. g # f
    BY <1>1, <1>2, <2>1 DEF ClientOK, InSlot, Vacant
  <2>3. conn'[g] = conn[g]
    BY <1>3, <2>2, TableTypes
  <2>4. s >= Place /\ th[Main].pc \notin Fetching
    BY <1>2, ServerAssumption DEF Place, Handling, Slots, Fetching
  <2>5. Due(g)
    BY <2>1, <2>3, <2>4 DEF DueOK, IsOpen
  <2>6. Due(g)'
    BY <1>4, <2>3, <2>5 DEF Due, Readable
  <2> QED
    BY <2>1, <2>6
<1> QED
  BY <1>5, <1>7, <1>8, <1>9

LEMMA FillSlotDue ==
  ASSUME DueInv, WatchedInv', FdSetSize >= MaxFd, FillSlot
  PROVE  DueInv'
<1> USE DEF DueInv, WatchedInv, TableInv
<1>1. PICK f \in Fds : f = th[Main].fd
  BY DEF FillSlot, At, HandOK, SlotLabels
<1>2. PICK i \in Slots : i = FoundSlot
  BY RoomForClient DEF FillSlot, At
<1>3. th[Main].pc = "slot" /\ th'[Main].pc = "setfd"
  <2> DEFINE l == [th[Main] EXCEPT !.pc = "setfd", !.idx = i]
  <2>1. th' = [th EXCEPT ![Main] = l] /\ l.pc = "setfd"
    BY <1>2, Basics DEF FillSlot, Locals
  <2> HIDE DEF l
  <2> QED
    BY <2>1, MainMoved DEF FillSlot, At
<1>4. /\ \A s \in Slots : client'[s] = IF s = i THEN f ELSE client[s]
      /\ UNCHANGED <<conn, backlog, peer, inbox, rset, nready, reported>>
  BY <1>1, <1>2 DEF FillSlot, net, tables, loop
<1>5. ReportedOK'
  BY <1>4, ReportedStays
<1>6. RsetOK' /\ CountOK' /\ ArrivalOK'
  BY <1>3, <1>4 DEF RsetOK, CountOK, ArrivalOK, SlotLabels, Fetching
<1>7. DueOK'
  <2> SUFFICES ASSUME nready >= 0, NEW s \in Slots, client'[s] \in rset,
                      IsOpen(client[s])'
               PROVE  Due(client[s])'
    BY <1>4 DEF DueOK
  <2>1. PICK g \in Fds : g = client'[s] /\ conn[g] # NoConn
    BY <1>4 DEF IInv, TypeOK, ServerLoopTypeOK, IsOpen
  <2>2. Due(g)
    <3>1. CASE s = i
      BY <1>1, <1>3, <1>4, <2>1, <3>1 DEF ArrivalOK, Due
    <3>2. CASE s # i
      <4>1. 0 \in Int /\ s \in Nat
        BY ServerAssumption DEF Slots
      <4> QED
        BY <1>3, <1>4, <2>1, <3>2, <4>1
        DEF DueOK, IsOpen, Place, Handling, Fetching
    <3> QED
      BY <3>1, <3>2
  <2>3. Due(g)'
    BY <1>4, <2>2 DEF Due, Readable
  <2> QED
    BY <2>1, <2>3
<1> QED
  BY <1>5, <1>6, <1>7

\* The iteration goes on only if select has counted something else.
LEMMA SetFdSetDue ==
  ASSUME DueInv, WatchedInv', SetFdSet
  PROVE  DueInv'
<1> USE DEF DueInv, WatchedInv, TableInv
<1>1. UNCHANGED <<client, conn, backlog, peer, inbox>>
  BY DEF SetFdSet, net, tables
<1>2. ASSUME UNCHANGED reported PROVE ReportedOK'
  BY <1>1, <1>2, ReportedStays
<1>3. CASE nready <= 1
  <2>1. th'[Main] = Fresh("copy", 0)
    BY <1>3, MainMoved DEF SetFdSet, NextIteration
  <2>2. th'[Main].pc = "copy"
    BY <2>1, FreshPc, Zenon
  <2>3. ReportedOK'
    BY <1>3, NoneReported DEF SetFdSet
  <2> QED
    BY <2>2, <2>3, FetchingDue DEF Fetching
<1>4. CASE ~(nready <= 1)
  <2>1. /\ th'[Main] = Fresh("raw", 0) /\ nready' = nready - 1
        /\ UNCHANGED <<rset, reported>>
    BY <1>4, MainMoved DEF SetFdSet
  <2>2. th'[Main].pc = "raw"
    BY <2>1, FreshPc, Zenon
  <2>3. nready >= 0 /\ nready' >= 0
    BY <1>4, <2>1 DEF IInv, TypeOK, ServerLoopTypeOK
  <2>4. DueOK'
    <3> SUFFICES ASSUME NEW s \in Slots, client[s] \in rset, IsOpen(client[s])'
                 PROVE  Due(client[s])'
      BY <1>1, <2>1 DEF DueOK
    <3>1. th[Main].pc = "setfd" /\ 0 \in Int /\ s \in Nat
      BY ServerAssumption DEF SetFdSet, At, Slots
    <3>2. Due(client[s])
      BY <1>1, <2>3, <3>1 DEF DueOK, IsOpen, Place, Handling, Fetching
    <3> QED
      BY <1>1, <2>1, <3>2 DEF Due, Readable
  <2>5. RsetOK'
    BY <2>1, <2>3 DEF RsetOK, SetFdSet, At, Fetching
  <2> QED
    BY <1>2, <2>1, <2>2, <2>3, <2>4, <2>5 DEF CountOK, ArrivalOK
<1> QED
  BY <1>3, <1>4

LEMMA FindReadyDue ==
  ASSUME DueInv, WatchedInv', FindReady
  PROVE  DueInv'
<1> USE DEF DueInv, WatchedInv, TableInv
<1> DEFINE hits == {s \in Slots : s >= th[Main].idx /\ s <= maxi
                                   /\ client[s] \in rset}
<1>1. /\ th[Main].pc = "scan"
      /\ UNCHANGED <<conn, backlog, peer, inbox, client>>
  BY DEF FindReady, At, net, watch, tables
<1>3. CASE hits = {}
  <2>1. maxi # FdSetSize
    <3>1. maxi < FdSetSize
      BY DEF SlotsOK
    <3> QED
      BY <3>1, ServerAssumption
  <2>2. th' = [th EXCEPT ![Main] = Fresh("copy", 0)]
    BY <1>3, <2>1 DEF FindReady, NextIteration
  <2>3. th'[Main] = Fresh("copy", 0)
    BY <2>2, MainMoved
  <2>4. th'[Main].pc = "copy"
    BY <2>3, FreshPc, Zenon
  <2>5. ReportedOK'
    BY <1>3, <2>1, NoneReported DEF FindReady
  <2> QED
    BY <2>4, <2>5, FetchingDue DEF Fetching
<1>4. CASE hits # {}
  <2>1. Min(hits) \in hits
    <3>1. hits \in SUBSET Nat
      BY ServerAssumption DEF Slots
    <3> HIDE DEF hits
    <3> QED
      BY <1>4, <3>1, MinOfNats
  <2>2. PICK i \in Slots : i = Min(hits) /\ client[i] \in rset
                             /\ i >= th[Main].idx
    BY <2>1
  <2>3. PICK f \in Fds : f = client[i]
    BY <2>2 DEF IInv, TypeOK, ServerLoopTypeOK
  <2>4. conn[f] # NoConn
    BY <1>1, <2>3 DEF ClientOK, InSlot, Vacant, IsOpen
  <2>5. /\ th'[Main].pc = "enter" /\ th'[Main].idx = i /\ th'[Main].fd = f
        /\ UNCHANGED <<rset, nready, reported>>
    <3> DEFINE l == [th[Main] EXCEPT !.pc = "enter", !.idx = i, !.fd = f]
    <3>1. th' = [th EXCEPT ![Main] = l] /\ UNCHANGED <<rset, nready, reported>>
      <4>1. hits # {} /\ Min(hits) = i /\ client[Min(hits)] = f
        BY <1>4, <2>2, <2>3
      <4> HIDE DEF l
      <4>2. ServeSlot(i, f)
        BY <4>1 DEF FindReady
      <4>3. UNCHANGED loop
        BY <4>1 DEF FindReady
      <4> QED
        BY <4>2, <4>3, Basics DEF l, loop, ServeSlot
    <3>2. l.pc = "enter" /\ l.idx = i /\ l.fd = f
      BY Basics DEF Locals
    <3> HIDE DEF l
    <3> QED
      BY <3>1, <3>2, MainMoved
  <2> HIDE DEF hits
  <2>6. nready >= 0
    BY <1>1 DEF CountOK, Fetching, SlotLabels
  <2>7. \A g : Due(g)' <=> Due(g)
    BY <1>1, <2>5 DEF Due, Readable
  <2>8. ArrivalOK'
    <3>1. Due(f)
      BY <1>1, <2>2, <2>3, <2>4, <2>6
      DEF DueOK, IsOpen, Place, Handling, Fetching
    <3> QED
      BY <2>2, <2>3, <2>5, <2>7, <3>1 DEF ArrivalOK
  <2>9. DueOK'
    <3> SUFFICES ASSUME NEW s \in Slots, s >= Place', client[s] \in rset,
                        IsOpen(client[s])
                 PROVE  Due(client[s])'
      BY <1>1, <2>5 DEF DueOK, IsOpen
    <3>1. s >= Place /\ th[Main].pc \notin Fetching
      <4>1. s >= i + 1
        BY <2>5 DEF Place, Handling
      <4>2. s \in Nat /\ i \in Nat /\ th[Main].idx \in Nat
        BY ServerAssumption, Basics DEF Slots, Locals
      <4> QED
        BY <1>1, <2>2, <4>1, <4>2 DEF Place, Handling, Fetching
    <3>2. Due(client[s])
      BY <2>6, <3>1 DEF DueOK
    <3> QED
      BY <1>1, <2>7, <3>2
  <2>10. ReportedOK'
    BY <1>1, <2>5, ReportedStays
  <2>11. RsetOK'
    BY <1>1, <2>5, <2>6 DEF RsetOK, Fetching
  <2> QED
    BY <2>5, <2>6, <2>8, <2>9, <2>10, <2>11 DEF CountOK
<1> QED
  BY <1>3, <1>4

\* The descriptor still denotes the same connection when read looks it up.
LEMMA EnterReadDue ==
  ASSUME DueInv, WatchedInv', EnterRead
  PROVE  DueInv'
<1> USE DEF DueInv, WatchedInv, TableInv
<1>1. /\ th[Main].pc = "enter" /\ th'[Main].pc = "read"
      /\ th'[Main].fd = th[Main].fd /\ th'[Main].idx = th[Main].idx
  BY EnterReadMoves
<1>2. UNCHANGED <<conn, backlog, peer, inbox, client, rset, nready, reported>>
  BY DEF EnterRead, net, watch, loop
<1>3. ReportedOK'
  BY <1>2, ReportedStays
<1>4. \A f : Due(f)' <=> Due(f)
  BY <1>2 DEF Due, Readable
<1>5. RsetOK' /\ CountOK' /\ ArrivalOK'
  BY <1>1, <1>2, <1>4 DEF RsetOK, CountOK, ArrivalOK, Fetching, SlotLabels
<1>6. DueOK'
  BY <1>1, <1>2, <1>4 DEF DueOK, IsOpen, Place, Handling, Fetching
<1> QED
  BY <1>3, <1>5, <1>6

\* On to the next element of client[].
LEMMA RequestDoneDue ==
  ASSUME DueInv, WatchedInv', RequestDone
  PROVE  DueInv'
<1> USE DEF DueInv, WatchedInv, TableInv
<1>1. /\ th[Main].pc = "served"
      /\ UNCHANGED <<conn, backlog, peer, inbox, client>>
  BY DEF RequestDone, At, net, watch, tables
<1>2. CASE nready <= 1
  <2>1. th'[Main] = Fresh("copy", 0)
    BY <1>2, MainMoved DEF RequestDone, NextIteration
  <2>2. th'[Main].pc = "copy"
    BY <2>1, FreshPc, Zenon
  <2>3. ReportedOK'
    BY <1>2, NoneReported DEF RequestDone
  <2> QED
    BY <2>2, <2>3, FetchingDue DEF Fetching
<1>3. CASE ~(nready <= 1)
  <2> DEFINE l == [Fresh("scan", 0) EXCEPT !.idx = NextIndex(th[Main].idx)]
  <2>1. /\ th' = [th EXCEPT ![Main] = l] /\ nready' = nready - 1
        /\ UNCHANGED <<rset, reported>>
    BY <1>3 DEF RequestDone
  <2>2. l.pc = "scan" /\ l.idx = NextIndex(th[Main].idx)
    BY DEF Fresh
  <2> HIDE DEF l
  <2>3. th'[Main].pc = "scan" /\ th'[Main].idx = NextIndex(th[Main].idx)
    BY <2>1, <2>2, MainMoved
  <2>4. nready >= 0 /\ nready' >= 0
    BY <1>3, <2>1 DEF IInv, TypeOK, ServerLoopTypeOK
  <2>5. \A g : Due(g)' <=> Due(g)
    BY <1>1, <2>1 DEF Due, Readable
  <2>6. DueOK'
    <3> SUFFICES ASSUME NEW s \in Slots, s >= Place', client[s] \in rset,
                        IsOpen(client[s])
                 PROVE  Due(client[s])'
      BY <1>1, <2>1 DEF DueOK, IsOpen
    <3>1. s >= Place /\ th[Main].pc \notin Fetching
      <4>1. s >= NextIndex(th[Main].idx)
        BY <2>3 DEF Place, Handling
      <4>2. s \in 0..FdSetSize - 1 /\ th[Main].idx \in 0..FdSetSize
        BY Basics DEF Slots, Locals
      <4>3. s >= th[Main].idx + 1
        BY <4>1, <4>2, ServerAssumption DEF NextIndex
      <4> QED
        BY <1>1, <4>3 DEF Place, Handling, Fetching
    <3>2. Due(client[s])
      BY <2>4, <3>1 DEF DueOK
    <3> QED
      BY <1>1, <2>5, <3>2
  <2>7. ReportedOK'
    BY <1>1, <2>1, ReportedStays
  <2>8. RsetOK'
    BY <1>1, <2>1, <2>4 DEF RsetOK, Fetching
  <2> QED
    BY <2>3, <2>4, <2>6, <2>7, <2>8 DEF CountOK, ArrivalOK
<1> QED
  BY <1>2, <1>3

LEMMA DueInitially == Init => DueInv
<1> SUFFICES ASSUME Init PROVE DueInv
  OBVIOUS
<1>1. WatchedInv
  BY WatchedInitially
<1>2. th[Main] = Fresh("copy", 0)
  BY DEF Init, ServerStateInit, Threads, Main
<1>3. th[Main].pc = "copy"
  BY <1>2, FreshPc
<1>4. ReportedOK
  BY DEF Init, ServerLoopInit, NothingReported, ReportedOK
<1> QED
  BY <1>1, <1>3, <1>4 DEF DueInv, RsetOK, DueOK, CountOK, ArrivalOK, Fetching

LEMMA DueStep ==
  ASSUME FdSetSize >= MaxFd, DueInv,
         [Next /\ ~Overlap']_vars, [~AcceptFails]_vars
  PROVE  DueInv'
<1>1. WatchedInv'
  BY WatchedStep DEF DueInv
<1>2. CASE MainStep
  <2>1. CASE CopyAllset \/ SelectWaits
    BY <1>1, <2>1, FetchDue
  <2>2. CASE SelectFails \/ SelectReturns
    BY <1>1, <2>2, SelectDue
  <2>3. CASE AcceptFails
    <3>1. th' # th
      BY <2>3, Jumps
      DEF AcceptFails, At, Threads, DueInv, WatchedInv, TableInv
    <3> QED
      BY <2>3, <3>1 DEF vars
  <2>4. CASE AcceptConn
    BY <1>1, <2>4, AcceptConnDue
  <2>5. CASE FillSlot
    BY <1>1, <2>5, FillSlotDue
  <2>6. CASE SetFdSet
    BY <1>1, <2>6, SetFdSetDue
  <2>7. CASE \/ RecvPacket \/ ReadPacketFd \/ EnterPacketWrite \/ WritePacket
             \/ PacketsDone
             \/ GetFreeV4Addr \/ SetInfo \/ SetFdInfoMap
             \/ GetUserInfoByFd \/ RenewLease
             \/ SharedStep(Main) /\ UNCHANGED loop
    BY <1>1, <2>7, MainIdleDue
  <2>8. CASE FindReady
    BY <1>1, <2>8, FindReadyDue
  <2>9. CASE ReadEnds \/ ReadMessage
    BY <1>1, <2>9, ReadDue
  <2>10. CASE RequestDone
    BY <1>1, <2>10, RequestDoneDue
  <2>11. CASE EnterRead
    BY <1>1, <2>11, EnterReadDue
  <2>12. ~ClearPastEnd
    BY ClearsInside DEF DueInv
  <2> QED
    BY <1>2, <2>1, <2>2, <2>3, <2>4, <2>5, <2>6, <2>7, <2>8, <2>9, <2>10,
       <2>11, <2>12
    DEF MainStep
<1>3. CASE KeeperThread
  BY <1>1, <1>3, KeeperDue
<1>4. CASE Tick \/ UNCHANGED vars \/ \E c \in Conns : Peer(c)
  BY <1>1, <1>4, PeerDue
<1> QED
  BY <1>2, <1>3, <1>4 DEF Next

\* What select found may be out of date when do_response reads: the main thread
\* waits for a connection only if that has been accepted under the number of
\* another one, which select has reported, since.
THEOREM WaitsForNewcomer ==
  ASSUME FdSetSize >= MaxFd
  PROVE  ApartSpec /\ [][~AcceptFails]_vars => []ReadWaitsForNewcomer
<1>1. Init => DueInv
  BY DueInitially
<1>2. DueInv /\ [Next /\ ~Overlap']_vars /\ [~AcceptFails]_vars => DueInv'
  BY DueStep
<1>3. DueInv => ReadWaitsForNewcomer
  <2> SUFFICES ASSUME DueInv, th[Main].pc = "read", ~Readable(th[Main].to)
               PROVE  reported[th[Main].fd] \notin {th[Main].to, NoConn}
    BY DEF ReadWaitsForNewcomer
  <2>1. th[Main].to = conn[th[Main].fd]
    BY DEF DueInv, WatchedInv, TableInv, MainOK
  <2>2. nready >= 0
    BY DEF DueInv, CountOK, Fetching, SlotLabels
  <2> QED
    BY <2>1, <2>2 DEF DueInv, ArrivalOK, RsetOK, Due, Fetching
<1> QED
  BY <1>1, <1>2, <1>3, PTL DEF ApartSpec

\* accept does not run out of descriptors when there is one for every peer: it
\* is called for a connection without one, or after select has failed on a
\* descriptor that is closed.
THEOREM DescriptorsSuffice ==
  ASSUME IsFiniteSet(Conns), Cardinality(Conns) <= MaxFd
  PROVE  ApartSpec => [][~AcceptFails]_vars
<1>1. ApartSpec => Spec
  <2>1. [Next /\ ~Overlap']_vars => [Next]_vars
    OBVIOUS
  <2> QED
    BY <2>1, PTL DEF ApartSpec, Spec
<1>2. TableInv /\ AcceptWaitsOnStale => [~AcceptFails]_vars
  <2> SUFFICES ASSUME TableInv, AcceptWaitsOnStale, AcceptFails
               PROVE  FALSE
    OBVIOUS
  <2>1. th[Main].pc = "accept" /\ \A f \in Fds : IsOpen(f)
    BY DEF AcceptFails, At, FreeFds
  <2>2. rset \subseteq Fds
    BY DEF TableInv, IInv, TypeOK, ServerLoopTypeOK
  <2>3. PICK c \in backlog : TRUE
    BY <2>1, <2>2 DEF AcceptWaitsOnStale
  <2>4. c \in Conns
    BY TableTypes DEF TableInv
  <2> DEFINE D == Conns \ {c}
  <2>5. conn \in [Fds -> D]
    BY <2>1, <2>3, TableTypes DEF TableInv, ConnsOK, IsOpen
  <2>6. \A f, g \in Fds : f # g => conn[f] # conn[g]
    BY <2>1 DEF TableInv, ConnsOK, IsOpen
  <2>7. IsFiniteSet(Fds) /\ Cardinality(Fds) = MaxFd
    BY FS_Interval, SocketsAssumption DEF Fds
  <2>8. IsFiniteSet(D) /\ Cardinality(D) = Cardinality(Conns) - 1
    BY <2>4, FS_RemoveElement
  <2>9. Cardinality(Conns) \in Nat
    BY FS_CardinalityType
  <2>10. Cardinality(Fds) > Cardinality(D)
    BY <2>7, <2>8, <2>9, SocketsAssumption
  <2> HIDE DEF D
  <2> QED
    BY <2>5, <2>6, <2>7, <2>8, <2>10, FS_PigeonHole
<1> QED
  BY <1>1, <1>2, TableInvariance, AcceptKnowsWhy, PTL

=============================================================================
