---------------------------- MODULE ServerProofs ----------------------------
(***************************************************************************)
(* The server keeps its types, implements the address pool, never skips a  *)
(* keep-alive message and never gives back a lease it is writing to: for   *)
(* every number of connections, descriptors and addresses.                 *)
(***************************************************************************)
EXTENDS Server, FiniteSetTheorems, TLAPS

---------------------------------------------------------------------------
(* The inductive invariant *)

\* The labels at which a thread goes on to use its User_Info*, and its fd.
RecLabels ==
  {"rawfd", "rawenter", "setinfo", "setmap", "latest", "dec", "need", "reset",
   "timeout", "readfd", "lockwrite", "write", "free"}
FdLabels ==
  {"enter", "read", "alloc", "setinfo", "setmap", "touch", "clr", "unslot", "lookup",
   "freelock", "free"}

Labels == MainLabels \cup KeeperLabels \cup SharedLabels

\* The locals a thread may have at each of its steps.
ThreadOK(t, l) ==
  /\ l \in Locals
  /\ l.pc \in RecLabels => l.rec \in Addrs
  /\ l.pc \in FdLabels => l.fd \in Fds
  /\ l.pc = "rawenter" => l.out \in Fds
  /\ t = Main => l.pc \in MainLabels \cup SharedLabels
  /\ t = Keeper =>
       /\ l.pc \in KeeperLabels \cup SharedLabels
       /\ l.pc # "sleep" => l.it \in 1..PoolSize + 1
       /\ l.pc \notin {"sleep", "state"} => l.it # PoolSize + 1
       /\ l.pc = "slot" => l.fd \in Fds

\* The steps of keep_alive_thread at which a countdown may be at 0.
ZeroLabels == {"need", "lockwrite", "write", "reset"}

Restarting(l, a) == l.rec = a /\ l.pc \in ZeroLabels

\* What the records and their mutexes owe to a thread: a write under way is
\* covered by the mutex; the record that reply_ipv4_request has been given
\* stays free until setUserInfo; a countdown that is at 0 is being restarted.
Backed(t, l) ==
  /\ l.pc = "write" => infoMutex[l.rec] = t
  /\ l.pc = "setinfo" => info[l.rec].state = "FREE"
  /\ t = Keeper =>
       \A a \in Addrs : info[a].count = 0 => Restarting(l, a)

\* A record is free exactly while it has no descriptor, and counts no further
\* than 0.
RecordOK(u) ==
  /\ u.state = "FREE" <=> u.fd = NoFd
  /\ u.count >= 0

ThreadsInv == \A t \in Threads : ThreadOK(t, th[t]) /\ Backed(t, th[t])
RecordsInv == \A a \in Addrs : RecordOK(info[a])

IInv == TypeOK /\ ThreadsInv /\ RecordsInv

---------------------------------------------------------------------------
(* Lemmas on the operators *)

\* Min, which picks a free slot and a free address, finds the least element.
LEMMA MinOfNats ==
  ASSUME NEW S \in SUBSET Nat, S # {}
  PROVE  /\ Min(S) \in S
         /\ \A y \in S : Min(S) <= y
<1> DEFINE R == {p \in Nat \X Nat : p[1] < p[2]}
<1>1. IsWellFoundedOn(R, Nat)
  <2>1. R = OpToRel(<, Nat)
    BY DEF OpToRel
  <2> QED
    BY <2>1, NatLessThanWellFounded
<1>2. PICK x \in S : \A y \in S : ~(<<y, x>> \in R)
  <2> HIDE DEF R
  <2> QED BY <1>1, WFMin
<1>3. ASSUME NEW y \in S, y < x PROVE <<y, x>> \in R
  BY <1>3 DEF R
<1>4. \A y \in S : x <= y
  <2> HIDE DEF R
  <2>1. \A y \in S : ~(y < x) BY <1>2, <1>3, Zenon
  <2> QED BY <2>1
<1> QED
  BY <1>4 DEF Min

LEMMA FreshType ==
  ASSUME NEW p \in Labels, NEW n \in 0..PoolSize + 1
  PROVE  /\ Fresh(p, n) \in Locals
         /\ Fresh(p, n).pc = p
         /\ Fresh(p, n).it = n
BY ServerAssumption DEF Fresh, Locals, Labels

\* The methods of User_Info return records, and change no more than they say.
LEMMA UserInfoTypes ==
  ASSUME NEW u \in UserInfoType(Fds), NEW f \in Fds
  PROVE  /\ SetUserInfo(f) \in UserInfoType(Fds)
         /\ FreeResource(u) \in UserInfoType(Fds)
         /\ DecCount(u) \in UserInfoType(Fds)
         /\ ResetCount(u) \in UserInfoType(Fds)
         /\ SetLatestTime(u) \in UserInfoType(Fds)
         /\ Older(u) \in UserInfoType(Fds)
         /\ NewUserInfo \in UserInfoType(Fds)
BY UserInfoAssumption
DEF UserInfoType, SetUserInfo, FreeResource, DecCount, ResetCount,
    SetLatestTime, Older, NewUserInfo

LEMMA UserInfoLease ==
  ASSUME NEW u \in UserInfoType(Fds)
  PROVE  /\ DecCount(u).state = u.state /\ DecCount(u).fd = u.fd
         /\ ResetCount(u).state = u.state /\ ResetCount(u).fd = u.fd
         /\ SetLatestTime(u).state = u.state /\ SetLatestTime(u).fd = u.fd
         /\ Older(u).state = u.state /\ Older(u).fd = u.fd
         /\ SetLatestTime(u).count = u.count /\ Older(u).count = u.count
         /\ DecCount(u).count = u.count - 1
         /\ ResetCount(u).count = MaxCounter
BY DEF UserInfoType, DecCount, ResetCount, SetLatestTime, Older

LEMMA InitInv == Init => IInv
<1> SUFFICES ASSUME Init PROVE IInv
  OBVIOUS
<1> USE SocketsAssumption, UserInfoAssumption, ServerAssumption, RawFdsAssumption
    DEF Init
<1>1. SocketsTypeOK
  BY DEF SocketsInit, SocketsTypeOK, PeerStates
<1>2. info \in [Addrs -> UserInfoType(Fds)]
  BY DEF ServerStateInit, NewUserInfo, UserInfoType
<1>3. th[Main] = Fresh("copy", 0) /\ th[Keeper] = Fresh("sleep", 0)
  BY DEF ServerStateInit, Threads, Main, Keeper
<1>4. ThreadOK(Main, th[Main]) /\ ThreadOK(Keeper, th[Keeper])
  BY <1>3, FreshType
  DEF ThreadOK, Main, Keeper, Labels, MainLabels, KeeperLabels, RecLabels,
      FdLabels
<1>5. ServerStateTypeOK
  <2>1. \A t \in Threads : th[t] \in Locals
    BY <1>4 DEF ThreadOK, Threads
  <2> QED
    BY <1>2, <2>1 DEF ServerStateInit, ServerStateTypeOK, Slots
<1>6. ServerLoopTypeOK
  BY DEF ServerLoopInit, ServerLoopTypeOK, NothingReported
<1>7. \A a \in Addrs : info[a].count = MaxCounter /\ RecordOK(info[a])
  BY DEF ServerStateInit, RecordOK, NewUserInfo
<1>8. Backed(Main, th[Main]) /\ Backed(Keeper, th[Keeper])
  BY <1>3, <1>7, UserInfoAssumption DEF Backed, Fresh, Main, Keeper
<1> QED
  BY <1>1, <1>4, <1>5, <1>6, <1>7, <1>8
  DEF IInv, TypeOK, ThreadsInv, RecordsInv, Threads

LEMMA LowestFreeFdType == FreeFds # {} => LowestFreeFd \in Fds
BY MinOfNats, SocketsAssumption DEF LowestFreeFd, FreeFds, Fds

LEMMA FoundSlotType == FoundSlot \in 0..FdSetSize
<1> DEFINE unused == {s \in Slots : client[s] = NoFd}
<1>1. unused \in SUBSET Nat /\ unused \subseteq 0..FdSetSize
  BY ServerAssumption DEF Slots
<1>2. unused # {} => Min(unused) \in unused
  BY <1>1, MinOfNats
<1> QED
  BY <1>1, <1>2, ServerAssumption DEF FoundSlot

LEMMA FreeAddrsMin ==
  FreeAddrs # {} => Min(FreeAddrs) \in Addrs /\ info[Min(FreeAddrs)].state = "FREE"
<1>1. FreeAddrs \in SUBSET Nat
  BY ServerAssumption DEF FreeAddrs, Addrs
<1> QED
  BY <1>1, MinOfNats DEF FreeAddrs

LEMMA ConnOfType ==
  ASSUME SocketsTypeOK, NEW f \in Fds \cup {NoFd}
  PROVE  ConnOf(f) \in Conns \cup {NoConn}
BY DEF SocketsTypeOK, ConnOf

\* Closing descriptors and ending calls keeps the types of the connections.
LEMMA EndCallType ==
  ASSUME SocketsTypeOK, NEW t, NEW closed, NEW read, EndCall(t, closed, read)
  PROVE  SocketsTypeOK'
<1> USE DEF EndCall, SocketsTypeOK
<1>1. conn' \in [Fds -> Conns \cup {NoConn}]
  OBVIOUS
<1>2. peer' \in [Conns -> PeerStates]
  BY DEF PeerStates
<1>3. inbox' \in [Conns -> MessageKinds \cup {"none"}]
  OBVIOUS
<1> QED
  BY <1>1, <1>2, <1>3

\* What select has counted is a number.
LEMMA CountType ==
  ASSUME NEW S \in SUBSET Fds, NEW T \in SUBSET (RawFds \cup {"listen"})
  PROVE  Cardinality(S) + Cardinality(T) \in Nat
<1>1. IsFiniteSet(Fds)
  BY FS_Interval, SocketsAssumption DEF Fds
<1>2. IsFiniteSet(RawFds \cup {"listen"})
  BY FS_AddElement, RawFdsAssumption
<1>3. Cardinality(S) \in Nat
  BY <1>1, FS_Subset, FS_CardinalityType
<1>4. Cardinality(T) \in Nat
  BY <1>2, FS_Subset, FS_CardinalityType
<1> QED
  BY <1>3, <1>4

---------------------------------------------------------------------------
(* A step of one thread *)

LEMMA Basics ==
  ASSUME IInv
  PROVE  /\ th \in [Threads -> Locals]
         /\ Main \in Threads /\ Keeper \in Threads /\ Main # Keeper
         /\ \A t \in Threads : th[t] \in Locals
         /\ \A t \in Threads : ThreadOK(t, th[t])
         /\ info \in [Addrs -> UserInfoType(Fds)]
BY DEF IInv, TypeOK, ServerStateTypeOK, ThreadsInv, ThreadOK, Threads, Main,
       Keeper

LEMMA InLocals ==
  ASSUME IInv PROVE th[Main] \in Locals /\ th[Keeper] \in Locals
BY Basics

\* The step of a thread that touches neither the records nor their mutexes is
\* judged by what it leaves the thread with.
LEMMA Moves ==
  ASSUME IInv, NEW t \in Threads, NEW l, ThreadOK(t, l), Backed(t, l),
         th' = [th EXCEPT ![t] = l], UNCHANGED <<info, infoMutex>>
  PROVE  /\ th' \in [Threads -> Locals]
         /\ ThreadsInv' /\ RecordsInv'
<1>1. th \in [Threads -> Locals] /\ l \in Locals
  BY Basics DEF ThreadOK
<1>2. ASSUME NEW u \in Threads
      PROVE  th'[u] = IF u = t THEN l ELSE th[u]
  BY <1>1
<1>3. ASSUME NEW u \in Threads
      PROVE  ThreadOK(u, th'[u]) /\ Backed(u, th'[u])
  BY <1>2 DEF IInv, ThreadsInv
<1>4. \A u \in Threads : Backed(u, th[u])' <=> Backed(u, th'[u])
  BY DEF Backed
<1>5. ThreadsInv'
  BY <1>3, <1>4 DEF ThreadsInv
<1>6. RecordsInv'
  BY DEF IInv, RecordsInv
<1> QED
  BY <1>1, <1>5, <1>6

\* The locals that a thread starts over with.
LEMMA FreshOK ==
  /\ ThreadOK(Main, Fresh("copy", 0)) /\ ThreadOK(Main, Fresh("raw", 0))
  /\ ThreadOK(Keeper, Fresh("sleep", 0))
  /\ \A n \in 1..PoolSize + 1 : ThreadOK(Keeper, Fresh("state", n))
  /\ \A n \in 0..PoolSize + 1 :
       /\ Fresh("copy", n).pc = "copy" /\ Fresh("raw", n).pc = "raw"
       /\ Fresh("sleep", n).pc = "sleep" /\ Fresh("state", n).pc = "state"
<1>1. {"copy", "raw", "sleep", "state"} \subseteq Labels
  BY DEF Labels, MainLabels, KeeperLabels
<1>2. \A p \in {"copy", "raw", "sleep", "state"}, n \in 0..PoolSize + 1 :
        /\ Fresh(p, n) \in Locals
        /\ Fresh(p, n).pc = p
        /\ Fresh(p, n).it = n
  BY <1>1, FreshType
<1> QED
  BY <1>2, ServerAssumption
  DEF ThreadOK, MainLabels, KeeperLabels, RecLabels, FdLabels, Main, Keeper

\* A step of the main thread that does not take it to a write or a new lease.
LEMMA MainMoves ==
  ASSUME IInv, NEW l, ThreadOK(Main, l), l.pc \notin {"write", "setinfo"},
         th' = [th EXCEPT ![Main] = l], UNCHANGED <<info, infoMutex>>
  PROVE  th' \in [Threads -> Locals] /\ ThreadsInv' /\ RecordsInv'
<1>1. Backed(Main, l)
  BY Basics DEF Backed
<1> QED
  BY <1>1, Moves, Basics

\* A step of the keep-alive thread that does not take it to a write, and does
\* not leave a countdown that it has begun to restart.
LEMMA KeeperMoves ==
  ASSUME IInv, NEW l, ThreadOK(Keeper, l), l.pc \notin {"write", "setinfo"},
         th[Keeper].pc \notin ZeroLabels,
         th' = [th EXCEPT ![Keeper] = l], UNCHANGED <<info, infoMutex>>
  PROVE  th' \in [Threads -> Locals] /\ ThreadsInv' /\ RecordsInv'
<1>1. \A a \in Addrs : info[a].count # 0
  BY Basics DEF IInv, ThreadsInv, Backed, Restarting
<1>2. Backed(Keeper, l)
  BY <1>1, Basics DEF Backed
<1> QED
  BY <1>2, Moves, Basics

---------------------------------------------------------------------------
(* The steps of the main thread: select *)

LEMMA CopyAllsetInv == ASSUME IInv, CopyAllset PROVE IInv'
<1> DEFINE l == [th[Main] EXCEPT !.pc = "select"]
<1>1. th' = [th EXCEPT ![Main] = l]
  BY Basics DEF CopyAllset, Goto
<1>2. ThreadOK(Main, l) /\ l.pc = "select"
  BY Basics
  DEF ThreadOK, Locals, MainLabels, RecLabels, FdLabels, Main, Keeper
<1>3. th' \in [Threads -> Locals] /\ ThreadsInv' /\ RecordsInv'
  <2> HIDE DEF l
  <2> QED BY <1>1, <1>2, MainMoves DEF CopyAllset, tables, mutexes
<1>4. TypeOK'
  BY <1>3
  DEF IInv, TypeOK, SocketsTypeOK, ServerStateTypeOK, ServerLoopTypeOK,
      CopyAllset, net, tables, mutexes, watch, loop
<1> QED BY <1>3, <1>4 DEF IInv

LEMMA SelectInv ==
  ASSUME IInv, SelectFails \/ SelectWaits \/ SelectReturns
  PROVE  IInv'
<1>1. PICK p \in {"accept", "poll", "raw"} :
        th' = [th EXCEPT ![Main] = [th[Main] EXCEPT !.pc = p]]
  BY Basics DEF SelectFails, SelectWaits, SelectReturns, AfterSelect, Goto
<1> DEFINE l == [th[Main] EXCEPT !.pc = p]
<1>2. ThreadOK(Main, l) /\ l.pc \notin {"write", "setinfo"}
  BY Basics
  DEF ThreadOK, Locals, MainLabels, RecLabels, FdLabels, Main, Keeper
<1>3. UNCHANGED <<net, tables, mutexes, watch, alive>>
  BY DEF SelectFails, SelectWaits, SelectReturns
<1>4. th' \in [Threads -> Locals] /\ ThreadsInv' /\ RecordsInv'
  <2>1. UNCHANGED <<info, infoMutex>>
    BY <1>3 DEF tables, mutexes
  <2>2. th' = [th EXCEPT ![Main] = l]
    BY <1>1
  <2> HIDE DEF l
  <2> QED BY <1>2, <2>1, <2>2, MainMoves
<1>5. ServerLoopTypeOK'
  <2>1. CASE SelectFails
    BY <2>1 DEF SelectFails, IInv, TypeOK, ServerLoopTypeOK
  <2>2. CASE SelectWaits
    BY <2>2 DEF SelectWaits, loop, IInv, TypeOK, ServerLoopTypeOK
  <2>3. CASE SelectReturns
    <3>1. reported' \in [Fds -> Conns \cup {NoConn}]
      BY <2>3 DEF SelectReturns, IInv, TypeOK, SocketsTypeOK
    <3> QED
      BY <2>3, <3>1, CountType
      DEF SelectReturns, IInv, TypeOK, ServerLoopTypeOK
  <2> QED BY <2>1, <2>2, <2>3
<1>6. TypeOK'
  BY <1>3, <1>4, <1>5
  DEF IInv, TypeOK, SocketsTypeOK, ServerStateTypeOK, net, tables, mutexes,
      watch
<1> QED BY <1>4, <1>6 DEF IInv

---------------------------------------------------------------------------
(* A new connection *)

LEMMA AcceptInv == ASSUME IInv, AcceptFails \/ AcceptConn PROVE IInv'
<1>1. PICK l : /\ th' = [th EXCEPT ![Main] = l]
               /\ l \in Locals /\ l.pc = "slot"
  <2>1. CASE AcceptFails
    <3>1. th' = [th EXCEPT ![Main] = [th[Main] EXCEPT !.pc = "slot"]]
      BY <2>1, Basics DEF AcceptFails, Goto
    <3>2. /\ [th[Main] EXCEPT !.pc = "slot"] \in Locals
          /\ [th[Main] EXCEPT !.pc = "slot"].pc = "slot"
      BY InLocals DEF Locals, MainLabels
    <3> QED BY <3>1, <3>2
  <2>2. CASE AcceptConn
    <3> DEFINE k == [th[Main] EXCEPT !.pc = "slot", !.fd = LowestFreeFd]
    <3>1. th' = [th EXCEPT ![Main] = k]
      BY <2>2, Basics DEF AcceptConn
    <3>2. LowestFreeFd \in Fds /\ th[Main] \in Locals
      BY <2>2, LowestFreeFdType, Basics DEF AcceptConn
    <3>3. k \in Locals /\ k.pc = "slot"
      BY <3>2 DEF Locals, MainLabels
    <3> HIDE DEF k
    <3> QED BY <3>1, <3>3
  <2> QED BY <2>1, <2>2
<1>2. ThreadOK(Main, l)
  BY <1>1 DEF ThreadOK, MainLabels, RecLabels, FdLabels, Main, Keeper
<1>3. UNCHANGED <<tables, mutexes, watch, alive, loop>>
  BY DEF AcceptFails, AcceptConn
<1>4. th' \in [Threads -> Locals] /\ ThreadsInv' /\ RecordsInv'
  BY <1>1, <1>2, <1>3, MainMoves DEF tables, mutexes
<1>5. SocketsTypeOK'
  <2>1. CASE AcceptFails
    BY <2>1 DEF AcceptFails, net, IInv, TypeOK, SocketsTypeOK
  <2>2. CASE AcceptConn
    BY <2>2 DEF AcceptConn, IInv, TypeOK, SocketsTypeOK
  <2> QED BY <2>1, <2>2
<1>6. TypeOK'
  BY <1>3, <1>4, <1>5
  DEF IInv, TypeOK, ServerStateTypeOK, ServerLoopTypeOK, tables, mutexes,
      watch, loop
<1> QED BY <1>4, <1>6 DEF IInv

LEMMA FillSlotInv == ASSUME IInv, FillSlot PROVE IInv'
<1> DEFINE l == [th[Main] EXCEPT !.pc = "setfd", !.idx = FoundSlot]
<1>1. th' = [th EXCEPT ![Main] = l]
  BY Basics DEF FillSlot
<1>2. FoundSlot \in 0..FdSetSize /\ th[Main] \in Locals
  BY FoundSlotType, Basics
<1>3. l \in Locals /\ l.pc = "setfd"
  BY <1>2 DEF Locals, MainLabels
<1>4. ThreadOK(Main, l)
  BY <1>3 DEF ThreadOK, MainLabels, RecLabels, FdLabels, Main, Keeper
<1>5. th' \in [Threads -> Locals] /\ ThreadsInv' /\ RecordsInv'
  <2> HIDE DEF l
  <2> QED BY <1>1, <1>3, <1>4, MainMoves DEF FillSlot, tables, mutexes
<1>6. client' \in [Slots -> Fds \cup {NoFd}]
  <2>1. th[Main].fd \in Fds \cup {NoFd}
    BY <1>2 DEF Locals
  <2> QED
    BY <2>1 DEF FillSlot, IInv, TypeOK, ServerStateTypeOK
<1>7. TypeOK'
  BY <1>5, <1>6
  DEF IInv, TypeOK, SocketsTypeOK, ServerStateTypeOK, ServerLoopTypeOK,
      FillSlot, net, tables, mutexes, loop
<1> QED BY <1>5, <1>7 DEF IInv

\* NextIteration and the step to the next packet leave a fresh thread.
LEMMA SetFdSetInv == ASSUME IInv, SetFdSet PROVE IInv'
<1>1. PICK p \in {"copy", "raw"} : th' = [th EXCEPT ![Main] = Fresh(p, 0)]
  BY DEF SetFdSet, NextIteration
<1>2. th' \in [Threads -> Locals] /\ ThreadsInv' /\ RecordsInv'
  <2>1. ThreadOK(Main, Fresh(p, 0)) /\ Fresh(p, 0).pc = p
    BY FreshOK, ServerAssumption
  <2>2. UNCHANGED <<info, infoMutex>>
    BY DEF SetFdSet, tables, mutexes
  <2> QED BY <1>1, <2>1, <2>2, MainMoves
<1>3. ServerLoopTypeOK'
  BY DEF SetFdSet, NextIteration, NothingReported, IInv, TypeOK,
         ServerLoopTypeOK
<1>4. th[Main].idx \in 0..FdSetSize /\ th[Main].fd \in Fds \cup {NoFd}
  BY Basics DEF Locals
<1>5. maxi' \in -1..FdSetSize
  BY <1>4, ServerAssumption DEF SetFdSet, IInv, TypeOK, ServerStateTypeOK
<1>6. allset' \in SUBSET Fds
  BY <1>4 DEF SetFdSet, IInv, TypeOK, ServerStateTypeOK
<1>7. TypeOK'
  BY <1>2, <1>3, <1>5, <1>6
  DEF IInv, TypeOK, SocketsTypeOK, ServerStateTypeOK, SetFdSet, net, tables,
      mutexes
<1> QED BY <1>2, <1>7 DEF IInv

---------------------------------------------------------------------------
(* A packet from the IPv4 side *)

LEMMA RecvPacketInv == ASSUME IInv, RecvPacket PROVE IInv'
<1>1. UNCHANGED <<info, infoMutex>>
  BY DEF RecvPacket, tables, mutexes
<1>2. th' \in [Threads -> Locals] /\ ThreadsInv' /\ RecordsInv'
  <2>1. CASE th' = th
    <3>1. th' = [th EXCEPT ![Main] = th[Main]]
      BY <2>1, Basics
    <3>2. ThreadOK(Main, th[Main]) /\ th[Main].pc = "raw"
      BY Basics DEF RecvPacket, At
    <3> QED BY <1>1, <3>1, <3>2, MainMoves
  <2>2. ASSUME NEW a \in Addrs,
               th' = [th EXCEPT ![Main].pc = "rawfd", ![Main].rec = a]
        PROVE  th' \in [Threads -> Locals] /\ ThreadsInv' /\ RecordsInv'
    <3> DEFINE l == [th[Main] EXCEPT !.pc = "rawfd", !.rec = a]
    <3>1. th' = [th EXCEPT ![Main] = l]
      BY <2>2, Basics
    <3>2. l \in Locals /\ l.pc = "rawfd" /\ l.rec = a
      BY InLocals DEF Locals, MainLabels
    <3>3. ThreadOK(Main, l)
      BY <3>2 DEF ThreadOK, MainLabels, FdLabels, Main, Keeper
    <3> HIDE DEF l
    <3> QED BY <1>1, <3>1, <3>2, <3>3, MainMoves
  <2> QED BY <2>1, <2>2 DEF RecvPacket
<1>3. TypeOK'
  BY <1>2
  DEF IInv, TypeOK, SocketsTypeOK, ServerStateTypeOK, ServerLoopTypeOK,
      RecvPacket, net, tables, mutexes, watch
<1> QED BY <1>2, <1>3 DEF IInv

LEMMA ReadPacketFdInv == ASSUME IInv, ReadPacketFd PROVE IInv'
<1> DEFINE f == info[th[Main].rec].fd
<1>1. UNCHANGED <<info, infoMutex>>
  BY DEF ReadPacketFd, tables, mutexes
<1>2. f \in Fds \cup {NoFd}
  BY Basics DEF ReadPacketFd, At, ThreadOK, RecLabels, UserInfoType
<1>3. th[Main].rec \in Addrs
  BY Basics DEF ReadPacketFd, At, ThreadOK, RecLabels
<1>4. th' \in [Threads -> Locals] /\ ThreadsInv' /\ RecordsInv'
  <2>1. CASE th' = [th EXCEPT ![Main] = Fresh("raw", 0)]
    <3>1. Fresh("raw", 0).pc = "raw"
      BY FreshOK, ServerAssumption
    <3> QED BY <1>1, <2>1, <3>1, FreshOK, MainMoves
  <2>2. CASE f # NoFd
    <3> DEFINE l == [th[Main] EXCEPT !.pc = "rawenter", !.out = f]
    <3>1. th' = [th EXCEPT ![Main] = l]
      BY <2>2, Basics DEF ReadPacketFd
    <3>2. /\ l \in Locals /\ l.pc = "rawenter" /\ l.out = f
          /\ l.rec = th[Main].rec
      <4> HIDE DEF f
      <4> QED BY <1>2, InLocals DEF Locals, MainLabels
    <3>3. f \in Fds
      BY <1>2, <2>2
    <3> HIDE DEF f
    <3>4. ThreadOK(Main, l)
      <4> HIDE DEF l
      <4> QED
        BY <1>3, <3>2, <3>3 DEF ThreadOK, MainLabels, FdLabels, Main, Keeper
    <3> HIDE DEF l
    <3> QED BY <1>1, <3>1, <3>2, <3>4, MainMoves
  <2> QED BY <2>1, <2>2 DEF ReadPacketFd
<1>5. TypeOK'
  BY <1>4
  DEF IInv, TypeOK, SocketsTypeOK, ServerStateTypeOK, ServerLoopTypeOK,
      ReadPacketFd, net, tables, mutexes, watch, loop
<1> QED BY <1>4, <1>5 DEF IInv

LEMMA EnterPacketWriteInv == ASSUME IInv, EnterPacketWrite PROVE IInv'
<1> DEFINE c == ConnOf(th[Main].out)
           l == [th[Main] EXCEPT !.pc = "rawwrite", !.out = NoFd, !.to = c]
<1>1. th' = [th EXCEPT ![Main] = l]
  BY Basics DEF EnterPacketWrite
<1>2. c \in Conns \cup {NoConn}
  BY Basics, ConnOfType DEF Locals, IInv, TypeOK
<1>3. l \in Locals /\ l.pc = "rawwrite"
  <2>1. th[Main] \in Locals
    BY Basics
  <2> HIDE DEF c
  <2> QED BY <1>2, <2>1 DEF Locals, MainLabels
<1> HIDE DEF l
<1>4. ThreadOK(Main, l)
  BY <1>3 DEF ThreadOK, MainLabels, RecLabels, FdLabels, Main, Keeper
<1>5. th' \in [Threads -> Locals] /\ ThreadsInv' /\ RecordsInv'
  BY <1>1, <1>3, <1>4, MainMoves DEF EnterPacketWrite, tables, mutexes
<1>6. TypeOK'
  BY <1>5
  DEF IInv, TypeOK, SocketsTypeOK, ServerStateTypeOK, ServerLoopTypeOK,
      EnterPacketWrite, net, tables, mutexes, watch, loop
<1> QED BY <1>5, <1>6 DEF IInv

LEMMA WritePacketInv == ASSUME IInv, WritePacket PROVE IInv'
<1>1. th' \in [Threads -> Locals] /\ ThreadsInv' /\ RecordsInv'
  <2>1. UNCHANGED <<info, infoMutex>>
    BY DEF WritePacket, tables, mutexes
  <2>2. Fresh("raw", 0).pc = "raw"
    BY FreshOK, ServerAssumption
  <2> QED BY <2>1, <2>2, FreshOK, MainMoves DEF WritePacket
<1>2. SocketsTypeOK'
  BY EndCallType DEF WritePacket, IInv, TypeOK
<1>3. alive' \in BOOLEAN
  BY DEF WritePacket, WriteReturns
<1>4. TypeOK'
  BY <1>1, <1>2, <1>3
  DEF IInv, TypeOK, ServerStateTypeOK, ServerLoopTypeOK, WritePacket, tables,
      mutexes, watch, loop
<1> QED BY <1>1, <1>4 DEF IInv

LEMMA PacketsDoneInv == ASSUME IInv, PacketsDone PROVE IInv'
<1> DEFINE l == [th[Main] EXCEPT !.pc = "scan", !.idx = 0]
<1>1. th' = [th EXCEPT ![Main] = l]
  BY Basics DEF PacketsDone
<1>2. 0 \in 0..FdSetSize /\ th[Main] \in Locals
  BY ServerAssumption, Basics
<1>3. l \in Locals /\ l.pc = "scan"
  BY <1>2 DEF Locals, MainLabels
<1>4. ThreadOK(Main, l)
  BY <1>3 DEF ThreadOK, MainLabels, RecLabels, FdLabels, Main, Keeper
<1>5. th' \in [Threads -> Locals] /\ ThreadsInv' /\ RecordsInv'
  <2> HIDE DEF l
  <2> QED BY <1>1, <1>3, <1>4, MainMoves DEF PacketsDone, tables, mutexes
<1>6. TypeOK'
  BY <1>5
  DEF IInv, TypeOK, SocketsTypeOK, ServerStateTypeOK, ServerLoopTypeOK,
      PacketsDone, net, tables, mutexes, watch, loop
<1> QED BY <1>5, <1>6 DEF IInv

---------------------------------------------------------------------------
(* The loop over client[] *)

LEMMA FindReadyInv == ASSUME IInv, FindReady PROVE IInv'
<1> DEFINE hits == {s \in Slots : /\ s >= th[Main].idx /\ s <= maxi
                                  /\ client[s] \in rset}
<1>1. UNCHANGED <<net, tables, mutexes, watch, alive>>
  BY DEF FindReady
<1>2. UNCHANGED <<info, infoMutex>>
  BY <1>1 DEF tables, mutexes
<1>3. CASE NextIteration
  <2>1. Fresh("copy", 0).pc = "copy"
    BY FreshOK, ServerAssumption
  <2>2. th' \in [Threads -> Locals] /\ ThreadsInv' /\ RecordsInv'
    BY <1>2, <1>3, <2>1, FreshOK, MainMoves DEF NextIteration
  <2>3. TypeOK'
    BY <1>1, <1>3, <2>2
    DEF IInv, TypeOK, SocketsTypeOK, ServerStateTypeOK, ServerLoopTypeOK,
        NextIteration, NothingReported, net, tables, mutexes, watch
  <2> QED BY <2>2, <2>3 DEF IInv
<1>4. ASSUME NEW s \in 0..FdSetSize, NEW f \in Fds,
             ServeSlot(s, f), UNCHANGED loop
      PROVE  IInv'
  <2> DEFINE l == [th[Main] EXCEPT !.pc = "enter", !.idx = s, !.fd = f]
  <2>1. th' = [th EXCEPT ![Main] = l]
    BY <1>4, Basics DEF ServeSlot
  <2>2. th[Main] \in Locals
    BY Basics
  <2>3. l \in Locals /\ l.pc = "enter" /\ l.fd = f
    BY <2>2 DEF Locals, MainLabels
  <2>4. ThreadOK(Main, l)
    BY <2>3 DEF ThreadOK, MainLabels, RecLabels, Main, Keeper
  <2>5. th' \in [Threads -> Locals] /\ ThreadsInv' /\ RecordsInv'
    <3> HIDE DEF l
    <3> QED BY <1>2, <2>1, <2>3, <2>4, MainMoves
  <2>6. TypeOK'
    BY <1>1, <1>4, <2>5
    DEF IInv, TypeOK, SocketsTypeOK, ServerStateTypeOK, ServerLoopTypeOK,
        net, tables, mutexes, watch, loop
  <2> QED BY <2>5, <2>6 DEF IInv
<1>5. hits # {} => /\ Min(hits) \in 0..FdSetSize
                   /\ client[Min(hits)] \in Fds
  <2>1. hits \in SUBSET Nat
    BY ServerAssumption DEF Slots
  <2>2. hits # {} => Min(hits) \in hits
    BY <2>1, MinOfNats
  <2>3. \A s \in hits : s \in 0..FdSetSize /\ client[s] \in Fds
    BY ServerAssumption DEF Slots, IInv, TypeOK, ServerLoopTypeOK
  <2> HIDE DEF hits
  <2> QED BY <2>2, <2>3
<1>6. rset \subseteq Fds /\ FdSetSize \in 0..FdSetSize
  BY ServerAssumption DEF IInv, TypeOK, ServerLoopTypeOK
<1>7. \/ NextIteration
      \/ \E s \in 0..FdSetSize, f \in Fds :
           ServeSlot(s, f) /\ UNCHANGED loop
  BY <1>5, <1>6 DEF FindReady
<1> QED BY <1>3, <1>4, <1>7

LEMMA EnterReadInv == ASSUME IInv, EnterRead PROVE IInv'
<1> DEFINE c == ConnOf(th[Main].fd)
           l == [th[Main] EXCEPT !.pc = "read", !.to = c]
<1>1. th' = [th EXCEPT ![Main] = l]
  BY Basics DEF EnterRead
<1>2. c \in Conns \cup {NoConn}
  BY Basics, ConnOfType DEF Locals, IInv, TypeOK
<1>3. l \in Locals /\ l.pc = "read" /\ l.fd = th[Main].fd
  <2>1. th[Main] \in Locals
    BY Basics
  <2> HIDE DEF c
  <2> QED BY <1>2, <2>1 DEF Locals, MainLabels
<1>4. th[Main].fd \in Fds
  BY Basics DEF EnterRead, At, ThreadOK, FdLabels
<1> HIDE DEF l
<1>5. ThreadOK(Main, l)
  BY <1>3, <1>4 DEF ThreadOK, MainLabels, RecLabels, Main, Keeper
<1>6. th' \in [Threads -> Locals] /\ ThreadsInv' /\ RecordsInv'
  BY <1>1, <1>3, <1>5, MainMoves DEF EnterRead, tables, mutexes
<1>7. TypeOK'
  BY <1>6
  DEF IInv, TypeOK, SocketsTypeOK, ServerStateTypeOK, ServerLoopTypeOK,
      EnterRead, net, tables, mutexes, watch, loop
<1> QED BY <1>6, <1>7 DEF IInv

LEMMA ReadEndsInv == ASSUME IInv, ReadEnds PROVE IInv'
<1> DEFINE l == [th[Main] EXCEPT !.pc = "clr", !.to = NoConn]
<1>1. th' = [th EXCEPT ![Main] = l]
  BY Basics DEF ReadEnds
<1>2. l \in Locals /\ l.pc = "clr" /\ l.fd = th[Main].fd
  BY InLocals DEF Locals, SharedLabels
<1>3. th[Main].fd \in Fds
  BY Basics DEF ReadEnds, At, ThreadOK, FdLabels
<1>4. ThreadOK(Main, l)
  BY <1>2, <1>3 DEF ThreadOK, SharedLabels, RecLabels, Main, Keeper
<1>5. th' \in [Threads -> Locals] /\ ThreadsInv' /\ RecordsInv'
  <2> HIDE DEF l
  <2> QED BY <1>1, <1>2, <1>4, MainMoves DEF ReadEnds, tables, mutexes
<1>6. SocketsTypeOK'
  BY EndCallType DEF ReadEnds, IInv, TypeOK
<1>7. TypeOK'
  BY <1>5, <1>6
  DEF IInv, TypeOK, ServerStateTypeOK, ServerLoopTypeOK, ReadEnds, tables,
      mutexes, watch, loop
<1> QED BY <1>5, <1>7 DEF IInv

LEMMA ReadMessageInv == ASSUME IInv, ReadMessage PROVE IInv'
<1>1. inbox[th[Main].to] \in MessageKinds
  <2>1. th[Main].to \in Conns
    BY Basics DEF ReadMessage, Locals
  <2> QED BY <2>1 DEF ReadMessage, IInv, TypeOK, SocketsTypeOK
<1>2. PICK p \in {"alloc", "touch", "served"} :
        th' = [th EXCEPT ![Main].pc = p, ![Main].to = NoConn]
  BY <1>1 DEF ReadMessage, MessageKinds
<1> DEFINE l == [th[Main] EXCEPT !.pc = p, !.to = NoConn]
<1>3. th' = [th EXCEPT ![Main] = l]
  BY <1>2, Basics
<1>4. l \in Locals /\ l.pc = p /\ l.fd = th[Main].fd
  <2>1. th[Main] \in Locals /\ NoConn \in Conns \cup {NoConn}
    BY Basics
  <2>2. p \in MainLabels \cup SharedLabels
    BY <1>2 DEF MainLabels, SharedLabels
  <2> QED
    BY <2>1, <2>2 DEF Locals
<1>5. th[Main].fd \in Fds
  BY Basics DEF ReadMessage, At, ThreadOK, FdLabels
<1>6. ThreadOK(Main, l)
  BY <1>4, <1>5 DEF ThreadOK, MainLabels, RecLabels, Main, Keeper
<1>7. th' \in [Threads -> Locals] /\ ThreadsInv' /\ RecordsInv'
  <2>1. UNCHANGED <<info, infoMutex>>
    BY DEF ReadMessage, tables, mutexes
  <2>2. l.pc \notin {"write", "setinfo"}
    BY <1>4
  <2> HIDE DEF l
  <2> QED BY <1>3, <1>6, <2>1, <2>2, MainMoves
<1>8. SocketsTypeOK'
  BY EndCallType DEF ReadMessage, IInv, TypeOK
<1>9. TypeOK'
  BY <1>7, <1>8
  DEF IInv, TypeOK, ServerStateTypeOK, ServerLoopTypeOK, ReadMessage, tables,
      mutexes, watch, loop
<1> QED BY <1>7, <1>9 DEF IInv

\* The store past the array changes rset or nready only.
LEMMA ClearPastEndInv == ASSUME IInv, ClearPastEnd PROVE IInv'
<1> DEFINE l == [th[Main] EXCEPT !.pc = "lookup"]
<1>1. th' = [th EXCEPT ![Main] = l]
  BY Basics DEF ClearPastEnd, AfterUnslot, Goto
<1>2. th[Main].fd \in Fds
  BY Basics DEF ClearPastEnd, At, ThreadOK, FdLabels
<1>3. l \in Locals /\ l.pc = "lookup" /\ l.fd = th[Main].fd
  BY InLocals DEF Locals, SharedLabels
<1> HIDE DEF l
<1>4. ThreadOK(Main, l)
  BY <1>2, <1>3 DEF ThreadOK, SharedLabels, RecLabels, Main, Keeper
<1>5. th' \in [Threads -> Locals] /\ ThreadsInv' /\ RecordsInv'
  BY <1>1, <1>3, <1>4, MainMoves DEF ClearPastEnd, tables, mutexes
<1>6. ServerLoopTypeOK'
  BY DEF ClearPastEnd, IInv, TypeOK, ServerLoopTypeOK
<1>7. TypeOK'
  BY <1>5, <1>6
  DEF IInv, TypeOK, SocketsTypeOK, ServerStateTypeOK, ClearPastEnd, net,
      tables, mutexes, watch
<1> QED BY <1>5, <1>7 DEF IInv

LEMMA RequestDoneInv == ASSUME IInv, RequestDone PROVE IInv'
<1>1. UNCHANGED <<net, tables, mutexes, watch, alive, info, infoMutex>>
  BY DEF RequestDone, tables, mutexes
<1>2. th' \in [Threads -> Locals] /\ ThreadsInv' /\ RecordsInv'
  <2>1. CASE NextIteration
    <3>1. Fresh("copy", 0).pc = "copy"
      BY FreshOK, ServerAssumption
    <3> QED BY <1>1, <2>1, <3>1, FreshOK, MainMoves DEF NextIteration
  <2>2. ASSUME NEW i \in 0..FdSetSize,
               th' = [th EXCEPT ![Main] = [Fresh("scan", 0) EXCEPT !.idx = i]]
        PROVE  th' \in [Threads -> Locals] /\ ThreadsInv' /\ RecordsInv'
    <3> DEFINE l == [Fresh("scan", 0) EXCEPT !.idx = i]
    <3>1. Fresh("scan", 0) \in Locals
      BY FreshType, ServerAssumption DEF Labels, MainLabels
    <3>2. l \in Locals /\ l.pc = "scan"
      BY <3>1 DEF Locals, Fresh
    <3>3. ThreadOK(Main, l)
      BY <3>2 DEF ThreadOK, MainLabels, RecLabels, FdLabels, Main, Keeper
    <3>4. th' = [th EXCEPT ![Main] = l]
      BY <2>2
    <3> HIDE DEF l
    <3> QED BY <1>1, <3>2, <3>3, <3>4, MainMoves
  <2>3. th[Main].idx \in 0..FdSetSize
    BY Basics DEF Locals
  <2>4. (IF th[Main].idx < FdSetSize THEN th[Main].idx + 1 ELSE th[Main].idx)
          \in 0..FdSetSize
    BY <2>3, ServerAssumption
  <2> QED BY <2>1, <2>2, <2>4 DEF RequestDone, NextIndex
<1>3. ServerLoopTypeOK'
  BY DEF RequestDone, NextIteration, NothingReported, IInv, TypeOK,
         ServerLoopTypeOK
<1>4. TypeOK'
  BY <1>1, <1>2, <1>3
  DEF IInv, TypeOK, SocketsTypeOK, ServerStateTypeOK, net, tables, mutexes,
      watch
<1> QED BY <1>2, <1>4 DEF IInv

---------------------------------------------------------------------------
(* The handlers of a request *)

LEMMA GetFreeV4AddrInv == ASSUME IInv, GetFreeV4Addr PROVE IInv'
<1>1. UNCHANGED <<net, tables, mutexes, watch, alive, loop, info, infoMutex>>
  BY DEF GetFreeV4Addr, tables, mutexes
<1>2. th[Main] \in Locals /\ th[Main].fd \in Fds
  BY Basics DEF GetFreeV4Addr, At, ThreadOK, FdLabels
<1>3. th' \in [Threads -> Locals] /\ ThreadsInv' /\ RecordsInv'
  <2>1. CASE FreeAddrs = {}
    <3> DEFINE l == [th[Main] EXCEPT !.pc = "served"]
    <3>1. th' = [th EXCEPT ![Main] = l]
      BY <2>1, Basics DEF GetFreeV4Addr
    <3>2. ThreadOK(Main, l) /\ l.pc = "served"
      BY <1>2
      DEF ThreadOK, Locals, MainLabels, RecLabels, FdLabels, Main, Keeper
    <3> HIDE DEF l
    <3> QED BY <1>1, <3>1, <3>2, MainMoves
  <2>2. CASE FreeAddrs # {}
    <3> DEFINE a == Min(FreeAddrs)
               l == [th[Main] EXCEPT !.pc = "setinfo", !.rec = a]
    <3>1. th' = [th EXCEPT ![Main] = l]
      BY <2>2, Basics DEF GetFreeV4Addr
    <3>2. a \in Addrs /\ info[a].state = "FREE"
      BY <2>2, FreeAddrsMin
    <3>3. l \in Locals /\ l.pc = "setinfo" /\ l.rec = a /\ l.fd = th[Main].fd
      <4> HIDE DEF a
      <4> QED BY <1>2, <3>2 DEF Locals, MainLabels
    <3> HIDE DEF l, a
    <3>4. ThreadOK(Main, l)
      BY <1>2, <3>2, <3>3 DEF ThreadOK, MainLabels, Main, Keeper
    <3>5. Backed(Main, l)
      BY <3>2, <3>3, Basics DEF Backed
    <3> QED BY <1>1, <3>1, <3>4, <3>5, Moves, Basics
  <2> QED BY <2>1, <2>2
<1>4. TypeOK'
  BY <1>1, <1>3
  DEF IInv, TypeOK, SocketsTypeOK, ServerStateTypeOK, ServerLoopTypeOK, net,
      tables, mutexes, watch, loop
<1> QED BY <1>3, <1>4 DEF IInv

LEMMA SetFdInfoMapInv == ASSUME IInv, SetFdInfoMap PROVE IInv'
<1> DEFINE l == [th[Main] EXCEPT !.pc = "lockwrite"]
<1>1. th' = [th EXCEPT ![Main] = l]
  BY Basics DEF SetFdInfoMap, Goto
<1>2. th[Main].rec \in Addrs
  BY Basics DEF SetFdInfoMap, At, ThreadOK, RecLabels
<1>3. l \in Locals /\ l.pc = "lockwrite" /\ l.rec = th[Main].rec
  BY InLocals DEF Locals, SharedLabels
<1>4. ThreadOK(Main, l)
  BY <1>2, <1>3 DEF ThreadOK, SharedLabels, FdLabels, Main, Keeper
<1>5. th' \in [Threads -> Locals] /\ ThreadsInv' /\ RecordsInv'
  <2> HIDE DEF l
  <2> QED BY <1>1, <1>3, <1>4, MainMoves DEF SetFdInfoMap, mutexes
<1>6. fdMap' \in [Fds -> Addrs \cup {NoInfo}]
  <2>1. fdMap \in [Fds -> Addrs \cup {NoInfo}]
    BY DEF IInv, TypeOK, ServerStateTypeOK
  <2> QED BY <1>2, <2>1 DEF SetFdInfoMap
<1>7. TypeOK'
  BY <1>5, <1>6
  DEF IInv, TypeOK, SocketsTypeOK, ServerStateTypeOK, ServerLoopTypeOK,
      SetFdInfoMap, net, mutexes, watch, loop
<1> QED BY <1>5, <1>7 DEF IInv

LEMMA GetUserInfoByFdInv == ASSUME IInv, GetUserInfoByFd PROVE IInv'
<1> DEFINE a == fdMap[th[Main].fd]
           p == IF a = NoInfo THEN "served" ELSE "latest"
           l == [th[Main] EXCEPT !.rec = a, !.pc = p]
<1>1. th' = [th EXCEPT ![Main] = l]
  BY Basics DEF GetUserInfoByFd
<1>2. a \in Addrs \cup {NoInfo}
  BY Basics
  DEF GetUserInfoByFd, At, ThreadOK, FdLabels, IInv, TypeOK, ServerStateTypeOK
<1>3. l \in Locals /\ l.pc = p /\ l.rec = a
  <2>1. th[Main] \in Locals
    BY Basics
  <2>2. p \in MainLabels
    BY DEF MainLabels
  <2> HIDE DEF a, p
  <2> QED BY <1>2, <2>1, <2>2 DEF Locals
<1>4. ThreadOK(Main, l)
  BY <1>2, <1>3 DEF ThreadOK, MainLabels, RecLabels, FdLabels, Main, Keeper
<1>5. th' \in [Threads -> Locals] /\ ThreadsInv' /\ RecordsInv'
  <2>1. l.pc \notin {"write", "setinfo"}
    BY <1>3
  <2> HIDE DEF l
  <2> QED BY <1>1, <1>4, <2>1, MainMoves DEF GetUserInfoByFd, tables, mutexes
<1>6. TypeOK'
  BY <1>5
  DEF IInv, TypeOK, SocketsTypeOK, ServerStateTypeOK, ServerLoopTypeOK,
      GetUserInfoByFd, net, tables, mutexes, watch, loop
<1> QED BY <1>5, <1>6 DEF IInv

---------------------------------------------------------------------------
(* The steps of the keep-alive thread that change no record *)

LEMMA WakeUpInv == ASSUME IInv, WakeUp, UNCHANGED loop PROVE IInv'
<1> DEFINE l == [th[Keeper] EXCEPT !.pc = "state", !.it = 1]
<1>1. th' = [th EXCEPT ![Keeper] = l]
  BY Basics DEF WakeUp
<1>2. 1 \in 0..PoolSize + 1 /\ th[Keeper] \in Locals
  BY ServerAssumption, Basics
<1>3. l \in Locals /\ l.pc = "state" /\ l.it = 1
  BY <1>2 DEF Locals, KeeperLabels
<1>4. ThreadOK(Keeper, l)
  BY <1>3, ServerAssumption
  DEF ThreadOK, KeeperLabels, RecLabels, FdLabels, Main, Keeper
<1>5. th' \in [Threads -> Locals] /\ ThreadsInv' /\ RecordsInv'
  <2>1. th[Keeper].pc \notin ZeroLabels
    BY DEF WakeUp, At, ZeroLabels
  <2> HIDE DEF l
  <2> QED BY <1>1, <1>3, <1>4, <2>1, KeeperMoves DEF WakeUp, tables, mutexes
<1>6. TypeOK'
  BY <1>5
  DEF IInv, TypeOK, SocketsTypeOK, ServerStateTypeOK, ServerLoopTypeOK,
      WakeUp, net, tables, mutexes, watch, loop
<1> QED BY <1>5, <1>6 DEF IInv

\* The thread goes on to the next address, from any step but the first.
LEMMA NextAddrOK ==
  ASSUME IInv, th[Keeper].pc \notin {"sleep", "state"}
  PROVE  LET l == Fresh("state", th[Keeper].it + 1)
         IN  ThreadOK(Keeper, l) /\ l.pc = "state"
<1>1. th[Keeper].it \in 1..PoolSize
  BY Basics, ServerAssumption DEF ThreadOK, Main, Keeper
<1>2. th[Keeper].it + 1 \in 1..PoolSize + 1
  BY <1>1, ServerAssumption
<1> QED BY <1>2, FreshOK, ServerAssumption

LEMMA ReadStateInv == ASSUME IInv, ReadState, UNCHANGED loop PROVE IInv'
<1> DEFINE a == th[Keeper].it
<1>1. UNCHANGED <<net, tables, mutexes, watch, alive, info, infoMutex>>
  BY DEF ReadState, tables, mutexes
<1>2. a \in 1..PoolSize + 1
  BY Basics DEF ReadState, At, ThreadOK, Main, Keeper
<1>3. PICK l : /\ th' = [th EXCEPT ![Keeper] = l] /\ ThreadOK(Keeper, l)
               /\ l.pc \in {"sleep", "state", "dec"}
  <2>1. CASE a > PoolSize
    <3>1. Fresh("sleep", 0).pc = "sleep"
      BY FreshOK, ServerAssumption
    <3> QED BY <2>1, <3>1, FreshOK DEF ReadState
  <2>2. CASE a <= PoolSize /\ info[a].state = "FREE"
    <3>1. th' = [th EXCEPT ![Keeper] = Fresh("state", a + 1)]
      BY <1>2, <2>2, ServerAssumption DEF ReadState, NextAddr
    <3>2. a + 1 \in 1..PoolSize + 1
      BY <1>2, <2>2, ServerAssumption
    <3>3. Fresh("state", a + 1).pc = "state"
      BY <3>2, FreshOK, ServerAssumption
    <3> QED BY <3>1, <3>2, <3>3, FreshOK
  <2>3. CASE a <= PoolSize /\ info[a].state # "FREE"
    <3> DEFINE k == [th[Keeper] EXCEPT !.pc = "dec", !.rec = a]
    <3>1. ~(a > PoolSize)
      BY <1>2, <2>3, ServerAssumption
    <3>2. th' = [th EXCEPT ![Keeper] = k]
      BY <2>3, <3>1, Basics DEF ReadState
    <3>3. a \in Addrs /\ a # PoolSize + 1
      BY <1>2, <2>3, ServerAssumption DEF Addrs
    <3>4. k \in Locals /\ k.pc = "dec" /\ k.rec = a /\ k.it = a
      BY <3>3, InLocals DEF Locals, KeeperLabels
    <3>5. ThreadOK(Keeper, k)
      BY <1>2, <3>3, <3>4 DEF ThreadOK, KeeperLabels, FdLabels, Main, Keeper
    <3> HIDE DEF k
    <3> QED BY <3>2, <3>4, <3>5
  <2>4. a <= PoolSize \/ a > PoolSize
    BY <1>2, ServerAssumption
  <2> QED BY <2>1, <2>2, <2>3, <2>4
<1>4. th' \in [Threads -> Locals] /\ ThreadsInv' /\ RecordsInv'
  <2>1. th[Keeper].pc \notin ZeroLabels
    BY DEF ReadState, At, ZeroLabels
  <2> QED BY <1>1, <1>3, <2>1, KeeperMoves
<1>5. TypeOK'
  BY <1>1, <1>4
  DEF IInv, TypeOK, SocketsTypeOK, ServerStateTypeOK, ServerLoopTypeOK, net,
      tables, mutexes, watch, loop
<1> QED BY <1>4, <1>5 DEF IInv

LEMMA CheckTimeOutInv == ASSUME IInv, CheckTimeOut, UNCHANGED loop PROVE IInv'
<1> DEFINE k == [th[Keeper] EXCEPT !.pc = "readfd"]
           n == Fresh("state", th[Keeper].it + 1)
<1>1. th' = [th EXCEPT ![Keeper] = k] \/ th' = [th EXCEPT ![Keeper] = n]
  BY Basics DEF CheckTimeOut, NextAddr
<1>2. ThreadOK(Keeper, k) /\ k.pc = "readfd"
  <2>1. k \in Locals /\ k.pc = "readfd" /\ k.it = th[Keeper].it
                     /\ k.rec = th[Keeper].rec
    BY InLocals DEF Locals, KeeperLabels
  <2>2. ThreadOK(Keeper, th[Keeper]) /\ th[Keeper].pc = "timeout"
    BY Basics DEF CheckTimeOut, At
  <2> HIDE DEF k
  <2> QED
    BY <2>1, <2>2
    DEF ThreadOK, KeeperLabels, RecLabels, FdLabels, Main, Keeper
<1>3. ThreadOK(Keeper, n) /\ n.pc = "state"
  BY NextAddrOK DEF CheckTimeOut, At
<1>4. th' \in [Threads -> Locals] /\ ThreadsInv' /\ RecordsInv'
  <2>1. th[Keeper].pc \notin ZeroLabels
    BY DEF CheckTimeOut, At, ZeroLabels
  <2>2. UNCHANGED <<info, infoMutex>>
    BY DEF CheckTimeOut, tables, mutexes
  <2> HIDE DEF k, n
  <2> QED BY <1>1, <1>2, <1>3, <2>1, <2>2, KeeperMoves
<1>5. TypeOK'
  BY <1>4
  DEF IInv, TypeOK, SocketsTypeOK, ServerStateTypeOK, ServerLoopTypeOK,
      CheckTimeOut, net, tables, mutexes, watch, loop
<1> QED BY <1>4, <1>5 DEF IInv

LEMMA ReadFdInv == ASSUME IInv, ReadFd, UNCHANGED loop PROVE IInv'
<1> DEFINE f == info[th[Keeper].rec].fd
           k == [th[Keeper] EXCEPT !.pc = "lookup", !.fd = f]
           n == Fresh("state", th[Keeper].it + 1)
<1>1. \/ f # NoFd /\ th' = [th EXCEPT ![Keeper] = k]
      \/ th' = [th EXCEPT ![Keeper] = n]
  BY Basics DEF ReadFd, NextAddr
<1>2. ASSUME f # NoFd PROVE ThreadOK(Keeper, k) /\ k.pc = "lookup"
  <2>1. ThreadOK(Keeper, th[Keeper]) /\ th[Keeper].pc = "readfd"
    BY Basics DEF ReadFd, At
  <2>2. f \in Fds
    BY <1>2, <2>1, Basics DEF ThreadOK, RecLabels, UserInfoType
  <2>3. k \in Locals /\ k.pc = "lookup" /\ k.fd = f /\ k.it = th[Keeper].it
    <3> HIDE DEF f
    <3> QED BY <2>2, InLocals DEF Locals, SharedLabels
  <2> HIDE DEF k, f
  <2> QED BY <2>1, <2>2, <2>3 DEF ThreadOK, SharedLabels, RecLabels, Main, Keeper
<1>3. ThreadOK(Keeper, n) /\ n.pc = "state"
  BY NextAddrOK DEF ReadFd, At
<1>4. th' \in [Threads -> Locals] /\ ThreadsInv' /\ RecordsInv'
  <2>1. th[Keeper].pc \notin ZeroLabels
    BY DEF ReadFd, At, ZeroLabels
  <2>2. UNCHANGED <<info, infoMutex>>
    BY DEF ReadFd, tables, mutexes
  <2> HIDE DEF f, k, n
  <2> QED BY <1>1, <1>2, <1>3, <2>1, <2>2, KeeperMoves
<1>5. TypeOK'
  BY <1>4
  DEF IInv, TypeOK, SocketsTypeOK, ServerStateTypeOK, ServerLoopTypeOK,
      ReadFd, net, tables, mutexes, watch, loop
<1> QED BY <1>4, <1>5 DEF IInv

LEMMA FindSlotInv == ASSUME IInv, FindSlot, UNCHANGED loop PROVE IInv'
<1> DEFINE hits == {s \in Slots : client[s] = th[Keeper].fd}
           c == [th[Keeper] EXCEPT !.pc = "close"]
           u == [th[Keeper] EXCEPT !.pc = "unslot", !.idx = Min(hits)]
<1>1. \/ th' = [th EXCEPT ![Keeper] = c]
      \/ hits # {} /\ th' = [th EXCEPT ![Keeper] = u]
  BY Basics DEF FindSlot, Goto
<1>2. /\ ThreadOK(Keeper, th[Keeper])
      /\ th[Keeper].pc = "slot"
      /\ th[Keeper] \in Locals
  BY Basics DEF FindSlot, At
<1>3. ThreadOK(Keeper, c) /\ c.pc = "close"
  <2>1. c \in Locals /\ c.pc = "close" /\ c.it = th[Keeper].it
    BY <1>2 DEF Locals, KeeperLabels
  <2> HIDE DEF c
  <2> QED
    BY <1>2, <2>1
    DEF ThreadOK, KeeperLabels, RecLabels, FdLabels, Main, Keeper
<1>4. ASSUME hits # {} PROVE ThreadOK(Keeper, u) /\ u.pc = "unslot"
  <2>1. hits \in SUBSET Nat /\ hits \subseteq 0..FdSetSize
    BY ServerAssumption DEF Slots
  <2>2. Min(hits) \in hits
    <3> HIDE DEF hits
    <3> QED BY <1>4, <2>1, MinOfNats
  <2>3. Min(hits) \in 0..FdSetSize
    BY <2>1, <2>2
  <2>4. /\ u \in Locals /\ u.pc = "unslot"
        /\ u.it = th[Keeper].it /\ u.fd = th[Keeper].fd
    <3> HIDE DEF hits
    <3> QED BY <1>2, <2>3 DEF Locals, SharedLabels
  <2> HIDE DEF u
  <2> QED BY <1>2, <2>4 DEF ThreadOK, SharedLabels, RecLabels, Main, Keeper
<1>5. th' \in [Threads -> Locals] /\ ThreadsInv' /\ RecordsInv'
  <2>1. th[Keeper].pc \notin ZeroLabels
    BY <1>2 DEF ZeroLabels
  <2>2. UNCHANGED <<info, infoMutex>>
    BY DEF FindSlot, tables, mutexes
  <2> HIDE DEF hits, c, u
  <2> QED BY <1>1, <1>3, <1>4, <2>1, <2>2, KeeperMoves
<1>6. TypeOK'
  BY <1>5
  DEF IInv, TypeOK, SocketsTypeOK, ServerStateTypeOK, ServerLoopTypeOK,
      FindSlot, net, tables, mutexes, watch, loop
<1> QED BY <1>5, <1>6 DEF IInv

LEMMA CloseTimedOutInv ==
  ASSUME IInv, CloseTimedOut, UNCHANGED loop PROVE IInv'
<1> DEFINE n == Fresh("state", th[Keeper].it + 1)
<1>1. th' = [th EXCEPT ![Keeper] = n]
  BY DEF CloseTimedOut, NextAddr
<1>2. ThreadOK(Keeper, n) /\ n.pc = "state"
  BY NextAddrOK DEF CloseTimedOut, At
<1>3. th' \in [Threads -> Locals] /\ ThreadsInv' /\ RecordsInv'
  <2>1. th[Keeper].pc \notin ZeroLabels
    BY DEF CloseTimedOut, At, ZeroLabels
  <2> HIDE DEF n
  <2> QED BY <1>1, <1>2, <2>1, KeeperMoves DEF CloseTimedOut, tables, mutexes
<1>4. SocketsTypeOK'
  BY EndCallType DEF CloseTimedOut, IInv, TypeOK
<1>5. TypeOK'
  BY <1>3, <1>4
  DEF IInv, TypeOK, ServerStateTypeOK, ServerLoopTypeOK, CloseTimedOut,
      tables, mutexes, watch, loop
<1> QED BY <1>3, <1>5 DEF IInv

---------------------------------------------------------------------------
(* The procedures both threads call, where they change no record *)

\* A step of a thread that neither begins a write nor restarts a countdown.
LEMMA SharedMoves ==
  ASSUME IInv, NEW t \in Threads, NEW l,
         ThreadOK(t, l), l.pc \notin {"write", "setinfo"},
         th[t].pc \notin ZeroLabels,
         th' = [th EXCEPT ![t] = l], UNCHANGED <<info, infoMutex>>
  PROVE  th' \in [Threads -> Locals] /\ ThreadsInv' /\ RecordsInv'
<1>1. CASE t = Main
  BY <1>1, MainMoves
<1>2. CASE t = Keeper
  BY <1>2, KeeperMoves
<1> QED BY <1>1, <1>2 DEF Threads

LEMMA LookupByFdInv ==
  ASSUME IInv, NEW t \in Threads, LookupByFd(t), UNCHANGED loop PROVE IInv'
<1> DEFINE a == fdMap[th[t].fd]
           l == [th[t] EXCEPT !.pc = "freelock", !.rec = a]
<1>1. th' = [th EXCEPT ![t] = l]
  BY Basics DEF LookupByFd
<1>2. ThreadOK(t, th[t]) /\ th[t].pc = "lookup" /\ th[t] \in Locals
  BY Basics DEF LookupByFd, At
<1>3. a \in Addrs \cup {NoInfo}
  BY <1>2 DEF ThreadOK, FdLabels, IInv, TypeOK, ServerStateTypeOK
<1>4. /\ l \in Locals /\ l.pc = "freelock"
      /\ l.fd = th[t].fd /\ l.it = th[t].it
  <2> HIDE DEF a
  <2> QED BY <1>2, <1>3 DEF Locals, SharedLabels
<1> HIDE DEF l
<1>5. ThreadOK(t, l)
  BY <1>2, <1>4 DEF ThreadOK, SharedLabels, RecLabels, FdLabels
<1>6. th' \in [Threads -> Locals] /\ ThreadsInv' /\ RecordsInv'
  <2>1. th[t].pc \notin ZeroLabels
    BY <1>2 DEF ZeroLabels
  <2> QED
    BY <1>1, <1>4, <1>5, <2>1, SharedMoves DEF LookupByFd, tables, mutexes
<1>7. TypeOK'
  BY <1>6
  DEF IInv, TypeOK, SocketsTypeOK, ServerStateTypeOK, ServerLoopTypeOK,
      LookupByFd, net, tables, mutexes, watch, loop
<1> QED BY <1>6, <1>7 DEF IInv

LEMMA LockFdMapInv ==
  ASSUME IInv, NEW t \in Threads, LockFdMap(t), UNCHANGED loop PROVE IInv'
<1> DEFINE a == th[t].rec
           nothing == a = NoInfo \/ info[a].fd = NoFd
           p == IF nothing THEN AfterFree(t) ELSE "free"
           l == [th[t] EXCEPT !.pc = p]
<1>1. th' = [th EXCEPT ![t] = l]
  BY Basics DEF LockFdMap, Goto
<1>2. ThreadOK(t, th[t]) /\ th[t].pc = "freelock" /\ th[t] \in Locals
  BY Basics DEF LockFdMap, At
<1>3. /\ p \in {"served", "clr", "free"}
      /\ p = "served" => t = Main
      /\ p = "clr" => t = Keeper
      /\ p = "free" => a \in Addrs
  BY <1>2 DEF AfterFree, Locals, Threads
<1>4. /\ l \in Locals /\ l.pc = p
      /\ l.rec = a /\ l.fd = th[t].fd /\ l.it = th[t].it
  <2> HIDE DEF p
  <2> QED BY <1>2, <1>3 DEF Locals, MainLabels, SharedLabels
<1>5. ThreadOK(t, l)
  <2> HIDE DEF l, p, a
  <2> QED
    BY <1>2, <1>3, <1>4
    DEF ThreadOK, MainLabels, SharedLabels, RecLabels, FdLabels, Main, Keeper
<1>6. th' \in [Threads -> Locals] /\ ThreadsInv' /\ RecordsInv'
  <2>1. th[t].pc \notin ZeroLabels
    BY <1>2 DEF ZeroLabels
  <2>2. UNCHANGED <<info, infoMutex>>
    BY DEF LockFdMap, tables
  <2>3. l.pc \notin {"write", "setinfo"}
    BY <1>3, <1>4
  <2> HIDE DEF l
  <2> QED BY <1>1, <1>5, <2>1, <2>2, <2>3, SharedMoves
<1>7. fdMapMutex' \in Threads \cup {NoThread}
  BY DEF LockFdMap, HeldAfterCheck
<1>8. TypeOK'
  BY <1>6, <1>7
  DEF IInv, TypeOK, SocketsTypeOK, ServerStateTypeOK, ServerLoopTypeOK,
      LockFdMap, net, tables, watch, loop
<1> QED BY <1>6, <1>8 DEF IInv

LEMMA ClrFdSetInv ==
  ASSUME IInv, NEW t \in Threads, ClrFdSet(t), UNCHANGED loop PROVE IInv'
<1> DEFINE p == IF t = Main THEN "unslot" ELSE "slot"
           l == [th[t] EXCEPT !.pc = p]
<1>1. th' = [th EXCEPT ![t] = l]
  BY Basics DEF ClrFdSet, Goto
<1>2. ThreadOK(t, th[t]) /\ th[t].pc = "clr" /\ th[t] \in Locals
  BY Basics DEF ClrFdSet, At
<1>3. /\ l \in Locals /\ l.pc = p
      /\ l.fd = th[t].fd /\ l.it = th[t].it
  BY <1>2 DEF Locals, KeeperLabels, SharedLabels
<1>4. ThreadOK(t, l)
  <2> HIDE DEF l
  <2> QED
    BY <1>2, <1>3
    DEF ThreadOK, KeeperLabels, SharedLabels, RecLabels, FdLabels, Threads
<1>5. th' \in [Threads -> Locals] /\ ThreadsInv' /\ RecordsInv'
  <2>1. th[t].pc \notin ZeroLabels
    BY <1>2 DEF ZeroLabels
  <2>2. l.pc \notin {"write", "setinfo"}
    BY <1>3
  <2> HIDE DEF l
  <2> QED
    BY <1>1, <1>4, <2>1, <2>2, SharedMoves DEF ClrFdSet, tables, mutexes
<1>6. TypeOK'
  BY <1>5
  DEF IInv, TypeOK, SocketsTypeOK, ServerStateTypeOK, ServerLoopTypeOK,
      ClrFdSet, net, tables, mutexes, loop
<1> QED BY <1>5, <1>6 DEF IInv

LEMMA ClearSlotInv ==
  ASSUME IInv, NEW t \in Threads, ClearSlot(t), UNCHANGED loop PROVE IInv'
<1> DEFINE p == AfterUnslot(t)
           l == [th[t] EXCEPT !.pc = p]
<1>1. th' = [th EXCEPT ![t] = l]
  BY Basics DEF ClearSlot, Goto
<1>2. ThreadOK(t, th[t]) /\ th[t].pc = "unslot" /\ th[t] \in Locals
  BY Basics DEF ClearSlot, At
<1>3. p = "lookup" \/ (p = "close" /\ t = Keeper)
  <2>1. CASE t = Main
    BY <2>1 DEF AfterUnslot
  <2>2. CASE t = Keeper
    BY <2>2, Basics DEF AfterUnslot
  <2> QED BY <2>1, <2>2 DEF Threads
<1>4. /\ l \in Locals /\ l.pc = p
      /\ l.fd = th[t].fd /\ l.it = th[t].it
  <2> HIDE DEF p
  <2> QED BY <1>2, <1>3 DEF Locals, KeeperLabels, SharedLabels
<1>5. ThreadOK(t, l)
  <2> HIDE DEF l, p
  <2> QED
    BY <1>2, <1>3, <1>4
    DEF ThreadOK, KeeperLabels, SharedLabels, RecLabels, FdLabels, Main, Keeper
<1>6. th' \in [Threads -> Locals] /\ ThreadsInv' /\ RecordsInv'
  <2>1. th[t].pc \notin ZeroLabels
    BY <1>2 DEF ZeroLabels
  <2>2. l.pc \notin {"write", "setinfo"}
    BY <1>3, <1>4
  <2> HIDE DEF l
  <2> QED
    BY <1>1, <1>5, <2>1, <2>2, SharedMoves DEF ClearSlot, tables, mutexes
<1>7. TypeOK'
  BY <1>6
  DEF IInv, TypeOK, SocketsTypeOK, ServerStateTypeOK, ServerLoopTypeOK,
      ClearSlot, net, tables, mutexes, loop
<1> QED BY <1>6, <1>7 DEF IInv

---------------------------------------------------------------------------
(* The steps that change a record or its mutex *)

\* mutex_write_FD takes the mutex: no other write is under way on the record.
LEMMA LockWriteInv ==
  ASSUME IInv, NEW t \in Threads, LockWrite(t), UNCHANGED loop PROVE IInv'
<1> DEFINE a == th[t].rec
           c == ConnOf(info[a].fd)
           l == [th[t] EXCEPT !.pc = "write", !.to = c]
<1>1. /\ ThreadOK(t, th[t]) /\ th[t].pc = "lockwrite" /\ th[t] \in Locals
      /\ a \in Addrs
  BY Basics DEF LockWrite, At, ThreadOK, RecLabels
<1>2. c \in Conns \cup {NoConn}
  <2>1. info[a].fd \in Fds \cup {NoFd}
    BY <1>1, Basics DEF UserInfoType
  <2> QED BY <2>1, ConnOfType DEF IInv, TypeOK
<1>3. th' = [th EXCEPT ![t] = l]
  BY Basics DEF LockWrite
<1>4. /\ l \in Locals /\ l.pc = "write" /\ l.rec = a
      /\ l.fd = th[t].fd /\ l.it = th[t].it
  <2> HIDE DEF c
  <2> QED BY <1>1, <1>2 DEF Locals, SharedLabels
<1> HIDE DEF l, c
<1>5. ThreadOK(t, l)
  BY <1>1, <1>4 DEF ThreadOK, SharedLabels, RecLabels, FdLabels
<1>6. infoMutex[a] = NoThread /\ infoMutex' = [infoMutex EXCEPT ![a] = t]
  BY DEF LockWrite, Unlocked
<1>7. infoMutex \in [Addrs -> Threads \cup {NoThread}]
  BY DEF IInv, TypeOK, ServerStateTypeOK
<1>8. UNCHANGED <<net, tables, info, fdMapMutex, watch, alive>>
  BY DEF LockWrite, tables
<1>9. ASSUME NEW u \in Threads PROVE ThreadOK(u, th'[u]) /\ Backed(u, th[u])'
  <2>1. CASE u = t
    <3>1. th'[u] = l
      BY <1>3, <2>1, Basics
    <3>2. Backed(t, th[t])
      BY DEF IInv, ThreadsInv
    <3> QED
      BY <1>1, <1>4, <1>5, <1>6, <1>7, <1>8, <2>1, <3>1, <3>2
      DEF Backed, Restarting, ZeroLabels
  <2>2. CASE u # t
    <3>1. th'[u] = th[u]
      BY <1>3, <2>2, Basics
    <3>2. ThreadOK(u, th[u]) /\ Backed(u, th[u])
      BY DEF IInv, ThreadsInv
    <3>3. th[u].pc = "write" => th[u].rec \in Addrs /\ th[u].rec # a
      BY <1>6, <3>2 DEF ThreadOK, RecLabels, Backed, NoThread, Threads, Main, Keeper
    <3>4. th[u].pc = "write" => infoMutex'[th[u].rec] = u
      BY <1>6, <1>7, <3>2, <3>3 DEF Backed
    <3> QED BY <1>8, <3>1, <3>2, <3>4 DEF Backed
  <2> QED BY <2>1, <2>2
<1>10. ThreadsInv' /\ RecordsInv'
  BY <1>8, <1>9 DEF ThreadsInv, IInv, RecordsInv
<1>11. th' \in [Threads -> Locals]
  BY <1>3, <1>4, Basics
<1>12. TypeOK'
  BY <1>6, <1>7, <1>8, <1>11
  DEF IInv, TypeOK, SocketsTypeOK, ServerStateTypeOK, ServerLoopTypeOK, net,
      tables, watch, loop
<1> QED BY <1>10, <1>12 DEF IInv

LEMMA UnlockWriteInv ==
  ASSUME IInv, NEW t \in Threads, UnlockWrite(t), UNCHANGED loop PROVE IInv'
<1> DEFINE a == th[t].rec
           p == IF t = Main THEN "served" ELSE "reset"
           l == [th[t] EXCEPT !.pc = p, !.to = NoConn]
<1>1. /\ ThreadOK(t, th[t]) /\ th[t].pc = "write" /\ th[t] \in Locals
      /\ a \in Addrs
  BY Basics DEF UnlockWrite, At, ThreadOK, RecLabels
<1>2. th' = [th EXCEPT ![t] = l]
  BY Basics DEF UnlockWrite
<1>3. /\ l \in Locals /\ l.pc = p /\ l.rec = a
      /\ l.fd = th[t].fd /\ l.it = th[t].it
  BY <1>1 DEF Locals, MainLabels, KeeperLabels
<1> HIDE DEF l
<1>4. ThreadOK(t, l)
  BY <1>1, <1>3
  DEF ThreadOK, MainLabels, KeeperLabels, RecLabels, FdLabels, Threads, Main,
      Keeper
<1>5. infoMutex[a] = t /\ infoMutex' = [infoMutex EXCEPT ![a] = NoThread]
  BY <1>1 DEF UnlockWrite, IInv, ThreadsInv, Backed
<1>6. infoMutex \in [Addrs -> Threads \cup {NoThread}]
  BY DEF IInv, TypeOK, ServerStateTypeOK
<1>7. UNCHANGED <<tables, info, fdMapMutex, watch>>
  BY DEF UnlockWrite, tables
<1>8. ASSUME NEW u \in Threads PROVE ThreadOK(u, th'[u]) /\ Backed(u, th[u])'
  <2>1. CASE u = t
    <3>1. th'[u] = l
      BY <1>2, <2>1, Basics
    <3>2. Backed(t, th[t])
      BY DEF IInv, ThreadsInv
    <3>3. l.pc \notin {"write", "setinfo"} /\ (t = Keeper => l.pc \in ZeroLabels)
      BY <1>3, Basics DEF ZeroLabels
    <3> QED
      BY <1>3, <1>4, <1>7, <2>1, <3>1, <3>2, <3>3 DEF Backed, Restarting
  <2>2. CASE u # t
    <3>1. th'[u] = th[u]
      BY <1>2, <2>2, Basics
    <3>2. ThreadOK(u, th[u]) /\ Backed(u, th[u])
      BY DEF IInv, ThreadsInv
    <3>3. th[u].pc = "write" => th[u].rec \in Addrs /\ th[u].rec # a
      BY <1>5, <2>2, <3>2 DEF ThreadOK, RecLabels, Backed
    <3>4. th[u].pc = "write" => infoMutex'[th[u].rec] = u
      BY <1>5, <1>6, <3>2, <3>3 DEF Backed
    <3> QED BY <1>7, <3>1, <3>2, <3>4 DEF Backed
  <2> QED BY <2>1, <2>2
<1>9. ThreadsInv' /\ RecordsInv'
  BY <1>7, <1>8 DEF ThreadsInv, IInv, RecordsInv
<1>10. th' \in [Threads -> Locals]
  BY <1>2, <1>3, Basics
<1>11. SocketsTypeOK' /\ alive' \in BOOLEAN
  BY EndCallType DEF UnlockWrite, WriteReturns, IInv, TypeOK
<1>12. TypeOK'
  BY <1>5, <1>6, <1>7, <1>10, <1>11
  DEF IInv, TypeOK, ServerStateTypeOK, ServerLoopTypeOK, tables, watch, loop
<1> QED BY <1>9, <1>12 DEF IInv

\* What the keep-alive thread has in hand after a step of thread t.
KeeperAfter(t, l) == IF t = Keeper THEN l ELSE th[Keeper]

\* A step that puts another record in the place of one, and moves its thread.
LEMMA RecordMoves ==
  ASSUME IInv, NEW t \in Threads, NEW l, NEW a \in Addrs,
         NEW u \in UserInfoType(Fds),
         ThreadOK(t, l), l.pc \notin {"write", "setinfo"}, RecordOK(u),
         th' = [th EXCEPT ![t] = l], info' = [info EXCEPT ![a] = u],
         UNCHANGED infoMutex,
         \* the record stays free for a thread that is about to lease it
         t = Main \/ u.state = "FREE" \/ u.state = info[a].state,
         \* the countdown is not at 0, or the keep-alive thread is restarting it
         u.count = 0 => Restarting(KeeperAfter(t, l), a),
         \A b \in Addrs \ {a} :
           info[b].count = 0 => Restarting(KeeperAfter(t, l), b)
  PROVE  /\ th' \in [Threads -> Locals] /\ ThreadsInv' /\ RecordsInv'
         /\ info' \in [Addrs -> UserInfoType(Fds)]
<1>1. th' \in [Threads -> Locals] /\ info' \in [Addrs -> UserInfoType(Fds)]
  BY Basics DEF ThreadOK
<1>2. \A b \in Addrs : info'[b] = IF b = a THEN u ELSE info[b]
  BY Basics
<1>3. \A v \in Threads : th'[v] = IF v = t THEN l ELSE th[v]
  BY Basics
<1>4. ASSUME NEW v \in Threads PROVE ThreadOK(v, th'[v]) /\ Backed(v, th[v])'
  <2>1. ThreadOK(v, th[v]) /\ Backed(v, th[v])
    BY DEF IInv, ThreadsInv
  <2>2. ThreadOK(v, th'[v])
    BY <1>3, <2>1
  <2>3. th'[v].pc = "write" => infoMutex'[th'[v].rec] = v
    BY <1>3, <2>1 DEF Backed
  <2>4. th'[v].pc = "setinfo" => info'[th'[v].rec].state = "FREE"
    <3> SUFFICES ASSUME th'[v].pc = "setinfo"
                 PROVE  info'[th'[v].rec].state = "FREE"
      OBVIOUS
    <3>1. v # t /\ th'[v] = th[v]
      BY <1>3
    <3>2. v = Main /\ th[v].rec \in Addrs
      BY <2>1, <3>1
      DEF ThreadOK, RecLabels, KeeperLabels, SharedLabels, Threads
    <3>3. u.state = "FREE" \/ u.state = info[a].state
      BY <3>1, <3>2
    <3> QED BY <1>2, <2>1, <3>1, <3>2, <3>3 DEF Backed
  <2>5. v = Keeper => \A b \in Addrs :
          info'[b].count = 0 => Restarting(th'[v], b)
    BY <1>2, <1>3 DEF KeeperAfter
  <2> QED BY <2>2, <2>3, <2>4, <2>5 DEF Backed
<1>5. ThreadsInv'
  BY <1>4 DEF ThreadsInv
<1>6. RecordsInv'
  BY <1>2 DEF IInv, RecordsInv
<1> QED BY <1>1, <1>5, <1>6

\* free_resource_of_fd gives the record back.
LEMMA FreeUnderLockInv ==
  ASSUME IInv, NEW t \in Threads, FreeUnderLock(t), UNCHANGED loop PROVE IInv'
<1> DEFINE a == th[t].rec
           u == FreeResource(info[a])
           p == AfterFree(t)
           l == [th[t] EXCEPT !.pc = p]
<1>1. /\ ThreadOK(t, th[t]) /\ th[t].pc = "free" /\ th[t] \in Locals
      /\ a \in Addrs
  BY Basics DEF FreeUnderLock, At, ThreadOK, RecLabels
<1>2. th' = [th EXCEPT ![t] = l]
  BY Basics DEF FreeUnderLock, FreeAndRelease, Goto
<1>3. /\ info' = [info EXCEPT ![a] = u]
      /\ fdMap' = [fdMap EXCEPT ![th[t].fd] = NoInfo]
      /\ fdMapMutex' = NoThread
      /\ UNCHANGED <<net, owner, infoMutex, watch, alive>>
  BY DEF FreeUnderLock, FreeAndRelease, ReleaseFdInfoMap
<1>4. (p = "served" /\ t = Main) \/ (p = "clr" /\ t = Keeper)
  <2>1. CASE t = Main
    BY <2>1 DEF AfterFree
  <2>2. CASE t = Keeper
    BY <2>2, Basics DEF AfterFree
  <2> QED BY <2>1, <2>2 DEF Threads
<1>5. /\ l \in Locals /\ l.pc = p
      /\ l.rec = a /\ l.fd = th[t].fd /\ l.it = th[t].it
  <2> HIDE DEF p
  <2> QED BY <1>1, <1>4 DEF Locals, MainLabels, SharedLabels
<1>6. ThreadOK(t, l)
  <2> HIDE DEF l, p, a
  <2> QED
    BY <1>1, <1>4, <1>5
    DEF ThreadOK, MainLabels, SharedLabels, RecLabels, FdLabels, Main, Keeper
<1>7. /\ u \in UserInfoType(Fds) /\ RecordOK(u)
      /\ u.state = "FREE" /\ u.count # 0
  <2>1. info[a] \in UserInfoType(Fds) /\ 1 \in Fds
    BY <1>1, Basics, SocketsAssumption DEF Fds
  <2> QED
    BY <2>1, UserInfoTypes, UserInfoAssumption
    DEF FreeResource, NewUserInfo, RecordOK
<1>8. \A b \in Addrs : info[b].count = 0 => Restarting(KeeperAfter(t, l), b)
  <2>1. Backed(Keeper, th[Keeper])
    BY Basics DEF IInv, ThreadsInv
  <2> QED
    BY <1>1, <2>1 DEF Backed, Restarting, ZeroLabels, KeeperAfter
<1>9. /\ th' \in [Threads -> Locals] /\ ThreadsInv' /\ RecordsInv'
      /\ info' \in [Addrs -> UserInfoType(Fds)]
  <2>1. l.pc \notin {"write", "setinfo"}
    BY <1>4, <1>5
  <2> HIDE DEF a, u, p, l
  <2> QED BY <1>1, <1>2, <1>3, <1>6, <1>7, <1>8, <2>1, RecordMoves
<1>10. fdMap' \in [Fds -> Addrs \cup {NoInfo}]
  BY <1>3 DEF IInv, TypeOK, ServerStateTypeOK
<1>11. TypeOK'
  BY <1>3, <1>9, <1>10
  DEF IInv, TypeOK, SocketsTypeOK, ServerStateTypeOK, ServerLoopTypeOK, net,
      watch, loop
<1> QED BY <1>9, <1>11 DEF IInv

\* reply_ipv4_request leases the record that is still free.
LEMMA SetInfoInv == ASSUME IInv, SetInfo PROVE IInv'
<1> DEFINE a == th[Main].rec
           f == th[Main].fd
           u == SetUserInfo(f)
           l == [th[Main] EXCEPT !.pc = "setmap"]
<1>1. /\ ThreadOK(Main, th[Main]) /\ th[Main].pc = "setinfo"
      /\ th[Main] \in Locals /\ a \in Addrs /\ f \in Fds
  BY Basics DEF SetInfo, At, ThreadOK, RecLabels, FdLabels
<1>2. /\ th' = [th EXCEPT ![Main] = l]
      /\ info' = [info EXCEPT ![a] = u]
      /\ owner' = [owner EXCEPT ![a] = conn[f]]
      /\ UNCHANGED <<net, fdMap, mutexes, watch, alive, loop>>
  BY Basics DEF SetInfo, Goto
<1>3. /\ l \in Locals /\ l.pc = "setmap" /\ l.rec = a /\ l.fd = f
  BY <1>1 DEF Locals, MainLabels
<1>4. ThreadOK(Main, l)
  <2> HIDE DEF l, a, f
  <2> QED
    BY <1>1, <1>3 DEF ThreadOK, MainLabels, RecLabels, FdLabels, Main, Keeper
<1>5. u \in UserInfoType(Fds) /\ RecordOK(u) /\ u.count # 0
  <2>1. info[a] \in UserInfoType(Fds) /\ f # NoFd
    BY <1>1, Basics, SocketsAssumption DEF Fds, NoFd
  <2> QED
    BY <1>1, <2>1, UserInfoTypes, UserInfoAssumption DEF SetUserInfo, RecordOK
<1>6. \A b \in Addrs : info[b].count = 0 => Restarting(KeeperAfter(Main, l), b)
  BY Basics DEF IInv, ThreadsInv, Backed, KeeperAfter
<1>7. /\ th' \in [Threads -> Locals] /\ ThreadsInv' /\ RecordsInv'
      /\ info' \in [Addrs -> UserInfoType(Fds)]
  <2>1. UNCHANGED infoMutex
    BY <1>2 DEF mutexes
  <2> HIDE DEF a, u, l
  <2> QED BY <1>1, <1>2, <1>3, <1>4, <1>5, <1>6, <2>1, Basics, RecordMoves
<1>8. owner' \in [Addrs -> Conns \cup {NoConn}]
  BY <1>1, <1>2
  DEF IInv, TypeOK, SocketsTypeOK, ServerStateTypeOK
<1>9. TypeOK'
  BY <1>2, <1>7, <1>8
  DEF IInv, TypeOK, SocketsTypeOK, ServerStateTypeOK, ServerLoopTypeOK, net,
      mutexes, watch, loop
<1> QED BY <1>7, <1>9 DEF IInv

\* A method of User_Info that leaves state and fd alone.
LEMMA InfoStepInv ==
  ASSUME IInv, NEW t \in Threads, NEW at \in RecLabels, NEW a, NEW u, NEW p,
         a = th[t].rec, InfoStep(t, at, a, u, p), UNCHANGED loop,
         p \in {"need", "lockwrite", "timeout", "served"},
         t = Main => p = "served", t = Keeper => p # "served",
         at \notin {"write", "free"},
         u \in UserInfoType(Fds), u.count >= 0,
         u.state = info[a].state, u.fd = info[a].fd,
         u.count = 0 =>
           Restarting(KeeperAfter(t, [th[t] EXCEPT !.pc = p]), a),
         \A b \in Addrs \ {a} : info[b].count = 0 =>
           Restarting(KeeperAfter(t, [th[t] EXCEPT !.pc = p]), b)
  PROVE  IInv'
<1> DEFINE l == [th[t] EXCEPT !.pc = p]
<1>1. /\ u.count = 0 => Restarting(KeeperAfter(t, l), a)
      /\ \A b \in Addrs \ {a} :
           info[b].count = 0 => Restarting(KeeperAfter(t, l), b)
  OBVIOUS
<1>2. /\ ThreadOK(t, th[t]) /\ th[t].pc = at /\ th[t] \in Locals
      /\ a \in Addrs
  BY Basics DEF InfoStep, At, ThreadOK
<1>3. /\ th' = [th EXCEPT ![t] = l]
      /\ info' = [info EXCEPT ![a] = u]
      /\ UNCHANGED <<net, fdMap, owner, mutexes, watch, alive, infoMutex>>
  BY Basics DEF InfoStep, Goto, mutexes
<1>4. /\ l \in Locals /\ l.pc = p
      /\ l.rec = a /\ l.fd = th[t].fd /\ l.it = th[t].it
  BY <1>2 DEF Locals, MainLabels, KeeperLabels, SharedLabels
<1> HIDE DEF l
<1>5. ThreadOK(t, l)
  BY <1>2, <1>4
  DEF ThreadOK, MainLabels, KeeperLabels, SharedLabels, RecLabels, FdLabels,
      Main, Keeper, Threads
<1>6. RecordOK(u)
  BY <1>2 DEF IInv, RecordsInv, RecordOK
<1>7. /\ th' \in [Threads -> Locals] /\ ThreadsInv' /\ RecordsInv'
      /\ info' \in [Addrs -> UserInfoType(Fds)]
  <2>1. u.state = "FREE" \/ u.state = info[a].state
    OBVIOUS
  <2>2. l.pc \notin {"write", "setinfo"}
    BY <1>4
  <2> QED BY <1>1, <1>2, <1>3, <1>5, <1>6, <2>1, <2>2, RecordMoves
<1>8. TypeOK'
  BY <1>3, <1>7
  DEF IInv, TypeOK, SocketsTypeOK, ServerStateTypeOK, ServerLoopTypeOK, net,
      mutexes, watch, loop
<1> QED BY <1>7, <1>8 DEF IInv

LEMMA RenewLeaseInv == ASSUME IInv, RenewLease PROVE IInv'
<1> DEFINE a == th[Main].rec
           u == SetLatestTime(info[a])
           l == [th[Main] EXCEPT !.pc = "served"]
<1>1. InfoStep(Main, "latest", a, u, "served") /\ UNCHANGED loop
  BY DEF RenewLease
<1>2. a \in Addrs
  BY Basics DEF RenewLease, InfoStep, At, ThreadOK, RecLabels
<1>3. info[a] \in UserInfoType(Fds) /\ 1 \in Fds
  BY <1>2, Basics, SocketsAssumption DEF Fds
<1>4. /\ u \in UserInfoType(Fds) /\ u.count = info[a].count
      /\ u.state = info[a].state /\ u.fd = info[a].fd
  BY <1>3, UserInfoTypes, UserInfoLease
<1>5. u.count >= 0
  BY <1>2, <1>4 DEF IInv, RecordsInv, RecordOK
<1>6. \A b \in Addrs : info[b].count = 0 => Restarting(KeeperAfter(Main, l), b)
  BY Basics DEF IInv, ThreadsInv, Backed, KeeperAfter
<1>7. /\ u.count = 0 => Restarting(KeeperAfter(Main, l), a)
      /\ \A b \in Addrs \ {a} :
           info[b].count = 0 => Restarting(KeeperAfter(Main, l), b)
  BY <1>2, <1>4, <1>6
<1>8. "latest" \in RecLabels \ {"write", "free"}
  BY DEF RecLabels
<1> HIDE DEF u
<1> QED BY <1>1, <1>4, <1>5, <1>7, <1>8, Basics, InfoStepInv

\* decCount: no countdown is at 0 while the thread is at this step.
LEMMA CountDownInv == ASSUME IInv, CountDown, UNCHANGED loop PROVE IInv'
<1> DEFINE a == th[Keeper].rec
           u == DecCount(info[a])
           l == [th[Keeper] EXCEPT !.pc = "need"]
<1>1. InfoStep(Keeper, "dec", a, u, "need")
  BY DEF CountDown
<1>2. a \in Addrs /\ th[Keeper].pc = "dec" /\ th[Keeper] \in Locals
  BY <1>1, Basics DEF InfoStep, At, ThreadOK, RecLabels
<1>3. info[a] \in UserInfoType(Fds) /\ 1 \in Fds
  BY <1>2, Basics, SocketsAssumption DEF Fds
<1>4. /\ u \in UserInfoType(Fds) /\ u.count = info[a].count - 1
      /\ u.state = info[a].state /\ u.fd = info[a].fd
  BY <1>3, UserInfoTypes, UserInfoLease
<1>5. \A b \in Addrs : info[b].count # 0
  BY <1>2, Basics DEF IInv, ThreadsInv, Backed, Restarting, ZeroLabels
<1>6. u.count >= 0
  <2>1. info[a].count \in Int /\ info[a].count >= 0
    BY <1>2, <1>3 DEF UserInfoType, IInv, RecordsInv, RecordOK
  <2> HIDE DEF a, u
  <2> QED BY <1>2, <1>4, <1>5, <2>1
<1>7. Restarting(KeeperAfter(Keeper, l), a)
  BY <1>2 DEF KeeperAfter, Restarting, Locals, ZeroLabels
<1>8. /\ u.count = 0 => Restarting(KeeperAfter(Keeper, l), a)
      /\ \A b \in Addrs \ {a} :
           info[b].count = 0 => Restarting(KeeperAfter(Keeper, l), b)
  BY <1>5, <1>7
<1>9. "dec" \in RecLabels \ {"write", "free"}
  BY DEF RecLabels
<1>10. Keeper \in Threads /\ Keeper # Main
  BY Basics
<1> HIDE DEF u
<1>11. /\ u \in UserInfoType(Fds)
       /\ u.state = info[a].state /\ u.fd = info[a].fd
  BY <1>4
<1> QED BY <1>1, <1>6, <1>8, <1>9, <1>10, <1>11, InfoStepInv

LEMMA CheckNeedSendInv == ASSUME IInv, CheckNeedSend, UNCHANGED loop PROVE IInv'
<1> DEFINE a == th[Keeper].rec
           u == info[a]
           p == IF NeedSendKeepAlive(u) THEN "lockwrite" ELSE "timeout"
           l == [th[Keeper] EXCEPT !.pc = p]
<1>1. InfoStep(Keeper, "need", a, u, p)
  BY DEF CheckNeedSend
<1>2. a \in Addrs /\ th[Keeper].pc = "need" /\ th[Keeper] \in Locals
  BY <1>1, Basics DEF InfoStep, At, ThreadOK, RecLabels
<1>3. u \in UserInfoType(Fds) /\ u.count >= 0
  BY <1>2, Basics DEF IInv, RecordsInv, RecordOK
<1>4. \A b \in Addrs : info[b].count = 0 => b = a
  BY Basics DEF IInv, ThreadsInv, Backed, Restarting
<1>5. u.count = 0 => Restarting(KeeperAfter(Keeper, l), a)
  BY <1>2 DEF KeeperAfter, Restarting, Locals, ZeroLabels, NeedSendKeepAlive
<1>6. \A b \in Addrs \ {a} :
        info[b].count = 0 => Restarting(KeeperAfter(Keeper, l), b)
  BY <1>4
<1>7. "need" \in RecLabels \ {"write", "free"}
  BY DEF RecLabels
<1>8. p \in {"lockwrite", "timeout"}
  OBVIOUS
<1> HIDE DEF u, p
<1> QED BY <1>1, <1>3, <1>5, <1>6, <1>7, <1>8, Basics, InfoStepInv DEF u

\* resetCount: the countdown that was at 0 starts again.
LEMMA RestartCountInv == ASSUME IInv, RestartCount, UNCHANGED loop PROVE IInv'
<1> DEFINE a == th[Keeper].rec
           u == ResetCount(info[a])
           l == [th[Keeper] EXCEPT !.pc = "timeout"]
<1>1. InfoStep(Keeper, "reset", a, u, "timeout")
  BY DEF RestartCount
<1>2. a \in Addrs
  BY <1>1, Basics DEF InfoStep, At, ThreadOK, RecLabels
<1>3. info[a] \in UserInfoType(Fds) /\ 1 \in Fds
  BY <1>2, Basics, SocketsAssumption DEF Fds
<1>4. /\ u \in UserInfoType(Fds) /\ u.count = MaxCounter
      /\ u.state = info[a].state /\ u.fd = info[a].fd
  BY <1>3, UserInfoTypes, UserInfoLease
<1>5. u.count >= 0 /\ u.count # 0
  <2> HIDE DEF u
  <2> QED BY <1>4, UserInfoAssumption
<1>6. \A b \in Addrs : info[b].count = 0 => b = a
  BY Basics DEF IInv, ThreadsInv, Backed, Restarting
<1>7. /\ u.count = 0 => Restarting(KeeperAfter(Keeper, l), a)
      /\ \A b \in Addrs \ {a} :
           info[b].count = 0 => Restarting(KeeperAfter(Keeper, l), b)
  BY <1>5, <1>6
<1>8. "reset" \in RecLabels \ {"write", "free"}
  BY DEF RecLabels
<1> HIDE DEF u
<1> QED BY <1>1, <1>4, <1>5, <1>7, <1>8, Basics, InfoStepInv

LEMMA TickInv == ASSUME IInv, Tick PROVE IInv'
<1>1. UNCHANGED <<net, fdMap, owner, mutexes, watch, alive, th, loop, infoMutex>>
  BY DEF Tick, mutexes
<1>2. \A a \in Addrs :
        /\ info'[a] \in UserInfoType(Fds)
        /\ info'[a].state = info[a].state /\ info'[a].fd = info[a].fd
        /\ info'[a].count = info[a].count
  <2> TAKE a \in Addrs
  <2>1. info[a] \in UserInfoType(Fds) /\ 1 \in Fds
    BY Basics, SocketsAssumption DEF Fds
  <2>2. info'[a] = Older(info[a])
    BY DEF Tick
  <2> QED BY <2>1, <2>2, UserInfoTypes, UserInfoLease
<1>3. info' \in [Addrs -> UserInfoType(Fds)]
  <2>1. info' = [a \in Addrs |-> info'[a]]
    BY DEF Tick
  <2> QED BY <1>2, <2>1
<1>4. RecordsInv'
  BY <1>2 DEF IInv, RecordsInv, RecordOK
<1>5. ASSUME NEW t \in Threads PROVE ThreadOK(t, th[t])' /\ Backed(t, th[t])'
  <2>1. ThreadOK(t, th[t]) /\ Backed(t, th[t])
    BY DEF IInv, ThreadsInv
  <2>2. th[t].pc = "setinfo" => th[t].rec \in Addrs
    BY <2>1 DEF ThreadOK, RecLabels
  <2> QED BY <1>1, <1>2, <2>1, <2>2 DEF ThreadOK, Backed
<1>6. TypeOK'
  BY <1>1, <1>3
  DEF IInv, TypeOK, SocketsTypeOK, ServerStateTypeOK, ServerLoopTypeOK, net,
      mutexes, watch, loop
<1> QED BY <1>4, <1>5, <1>6 DEF IInv, ThreadsInv

LEMMA PeerInv == ASSUME IInv, NEW c \in Conns, Peer(c) PROVE IInv'
<1>1. UNCHANGED <<tables, mutexes, watch, alive, th, loop, info, infoMutex>>
  BY DEF Peer, tables, mutexes
<1>2. SocketsTypeOK'
  <2>1. SocketsTypeOK /\ PeerStep(c)
    BY DEF IInv, TypeOK, Peer
  <2>2. CASE Connect(c)
    BY <2>1, <2>2 DEF Connect, SocketsTypeOK, PeerStates
  <2>3. ASSUME NEW msg \in Messages, SendMessage(c, msg) PROVE SocketsTypeOK'
    <3>1. msg \in MessageKinds
      BY SocketsAssumption DEF MessageKinds
    <3>2. inbox' \in [Conns -> MessageKinds \cup {"none"}]
      BY <2>1, <2>3, <3>1 DEF SendMessage, SocketsTypeOK
    <3>3. asked[c] \in 0..MaxRequests
      BY <2>1 DEF SocketsTypeOK
    <3>4. asked' \in [Conns -> 0..MaxRequests]
      BY <2>1, <2>3, <3>3, SocketsAssumption DEF SendMessage, SocketsTypeOK
    <3> QED BY <2>1, <2>3, <3>2, <3>4 DEF SendMessage, SocketsTypeOK
  <2>4. CASE PeerClose(c)
    BY <2>1, <2>4 DEF PeerClose, SocketsTypeOK, PeerStates
  <2>5. CASE PeerReset(c)
    BY <2>1, <2>5 DEF PeerReset, SocketsTypeOK, PeerStates
  <2>6. CASE Stall(c) \/ Drain(c)
    BY <2>1, <2>6 DEF Stall, Drain, SocketsTypeOK
  <2> QED BY <2>1, <2>2, <2>3, <2>4, <2>5, <2>6 DEF PeerStep
<1>3. ThreadsInv' /\ RecordsInv'
  BY <1>1 DEF IInv, ThreadsInv, ThreadOK, Backed, RecordsInv
<1>4. TypeOK'
  BY <1>1, <1>2
  DEF IInv, TypeOK, ServerStateTypeOK, ServerLoopTypeOK, tables, mutexes,
      watch, loop
<1> QED BY <1>3, <1>4 DEF IInv

LEMMA StutterInv == ASSUME IInv, UNCHANGED vars PROVE IInv'
BY DEF IInv, TypeOK, SocketsTypeOK, ServerStateTypeOK, ServerLoopTypeOK,
       ThreadsInv, ThreadOK, Backed, RecordsInv, vars, net, tables, mutexes,
       watch, loop

---------------------------------------------------------------------------
(* Every step keeps the invariant *)

LEMMA SharedStepInv ==
  ASSUME IInv, NEW t \in Threads, SharedStep(t), UNCHANGED loop PROVE IInv'
<1>1. CASE LockWrite(t)
  BY <1>1, LockWriteInv
<1>2. CASE UnlockWrite(t)
  BY <1>2, UnlockWriteInv
<1>3. CASE LookupByFd(t)
  BY <1>3, LookupByFdInv
<1>4. CASE LockFdMap(t)
  BY <1>4, LockFdMapInv
<1>5. CASE FreeUnderLock(t)
  BY <1>5, FreeUnderLockInv
<1>6. CASE ClrFdSet(t)
  BY <1>6, ClrFdSetInv
<1>7. CASE ClearSlot(t)
  BY <1>7, ClearSlotInv
<1> QED
  BY <1>1, <1>2, <1>3, <1>4, <1>5, <1>6, <1>7 DEF SharedStep

LEMMA MainStepInv == ASSUME IInv, MainStep PROVE IInv'
<1>1. CASE CopyAllset
  BY <1>1, CopyAllsetInv
<1>2. CASE SelectFails \/ SelectWaits \/ SelectReturns
  BY <1>2, SelectInv
<1>3. CASE AcceptFails \/ AcceptConn
  BY <1>3, AcceptInv
<1>4. CASE FillSlot
  BY <1>4, FillSlotInv
<1>5. CASE SetFdSet
  BY <1>5, SetFdSetInv
<1>6. CASE RecvPacket
  BY <1>6, RecvPacketInv
<1>7. CASE ReadPacketFd
  BY <1>7, ReadPacketFdInv
<1>8. CASE WritePacket
  BY <1>8, WritePacketInv
<1>9. CASE PacketsDone
  BY <1>9, PacketsDoneInv
<1>10. CASE FindReady
  BY <1>10, FindReadyInv
<1>11. CASE ReadEnds
  BY <1>11, ReadEndsInv
<1>12. CASE ReadMessage
  BY <1>12, ReadMessageInv
<1>13. CASE RequestDone
  BY <1>13, RequestDoneInv
<1>14. CASE GetFreeV4Addr
  BY <1>14, GetFreeV4AddrInv
<1>15. CASE SetInfo
  BY <1>15, SetInfoInv
<1>16. CASE SetFdInfoMap
  BY <1>16, SetFdInfoMapInv
<1>17. CASE GetUserInfoByFd
  BY <1>17, GetUserInfoByFdInv
<1>18. CASE RenewLease
  BY <1>18, RenewLeaseInv
<1>19. CASE SharedStep(Main) /\ UNCHANGED loop
  BY <1>19, SharedStepInv, Basics
<1>20. CASE EnterPacketWrite
  BY <1>20, EnterPacketWriteInv
<1>21. CASE EnterRead
  BY <1>21, EnterReadInv
<1>22. CASE ClearPastEnd
  BY <1>22, ClearPastEndInv
<1> QED
  BY <1>1, <1>2, <1>3, <1>4, <1>5, <1>6, <1>7, <1>8, <1>9, <1>10, <1>11, <1>12,
     <1>13, <1>14, <1>15, <1>16, <1>17, <1>18, <1>19, <1>20, <1>21, <1>22
  DEF MainStep

LEMMA KeeperStepInv == ASSUME IInv, KeeperStep, UNCHANGED loop PROVE IInv'
<1>1. CASE WakeUp
  BY <1>1, WakeUpInv
<1>2. CASE ReadState
  BY <1>2, ReadStateInv
<1>3. CASE CountDown
  BY <1>3, CountDownInv
<1>4. CASE CheckNeedSend
  BY <1>4, CheckNeedSendInv
<1>5. CASE RestartCount
  BY <1>5, RestartCountInv
<1>6. CASE CheckTimeOut
  BY <1>6, CheckTimeOutInv
<1>7. CASE ReadFd
  BY <1>7, ReadFdInv
<1>8. CASE FindSlot
  BY <1>8, FindSlotInv
<1>9. CASE CloseTimedOut
  BY <1>9, CloseTimedOutInv
<1>10. CASE SharedStep(Keeper)
  BY <1>10, SharedStepInv, Basics
<1> QED
  BY <1>1, <1>2, <1>3, <1>4, <1>5, <1>6, <1>7, <1>8, <1>9, <1>10 DEF KeeperStep

LEMMA NextInv == IInv /\ [Next]_vars => IInv'
<1> SUFFICES ASSUME IInv, [Next]_vars PROVE IInv'
  OBVIOUS
<1>1. CASE MainStep
  BY <1>1, MainStepInv
<1>2. CASE KeeperThread
  BY <1>2, KeeperStepInv DEF KeeperThread
<1>3. CASE Tick
  BY <1>3, TickInv
<1>4. CASE \E c \in Conns : Peer(c)
  BY <1>4, PeerInv
<1>5. CASE UNCHANGED vars
  BY <1>5, StutterInv
<1> QED BY <1>1, <1>2, <1>3, <1>4, <1>5 DEF Next

LEMMA Invariance == Spec => []IInv
BY InitInv, NextInv, PTL DEF Spec

---------------------------------------------------------------------------
(* The theorems *)

\* Every variable keeps its type: a thread never follows a null User_Info*, and
\* the index into client[] never passes FD_SETSIZE (whether it reaches it is
\* what NeverPastEnd is about), whatever the two threads, the peers and the
\* clock do.
THEOREM TypeCorrect == Spec => []TypeOK
BY Invariance, PTL DEF IInv

\* The countdown to a keep-alive message is never negative, and 0 only between
\* decCount and resetCount: the comparison with 0 never misses.
THEOREM KeepAlive == Spec => []KeepAliveNotSkipped
<1>1. IInv => KeepAliveNotSkipped
  <2> SUFFICES ASSUME IInv, NEW a \in Addrs
               PROVE  /\ info[a].count >= 0
                      /\ info[a].count = 0 =>
                           /\ th[Keeper].rec = a
                           /\ th[Keeper].pc \in {"need", "lockwrite", "write",
                                                 "reset"}
    BY DEF KeepAliveNotSkipped
  <2>1. info[a].count >= 0
    BY DEF IInv, RecordsInv, RecordOK
  <2>2. Backed(Keeper, th[Keeper])
    BY Basics DEF IInv, ThreadsInv
  <2> QED BY <2>1, <2>2 DEF Backed, Restarting, ZeroLabels
<1> QED BY <1>1, Invariance, PTL

\* What a step does to the descriptors of the records: nothing, unless it frees
\* a record or leases one.
LEMMA FdsKept ==
  ASSUME IInv, [Next]_vars, ~SetInfo, \A t \in Threads : ~FreeUnderLock(t)
  PROVE  \A a \in Addrs : info'[a].fd = info[a].fd
<1>1. CASE info' = info
  BY <1>1
<1>2. ASSUME NEW t \in Threads, NEW at, NEW a, NEW u, NEW p,
             InfoStep(t, at, a, u, p), a \in Addrs => u.fd = info[a].fd
      PROVE  \A b \in Addrs : info'[b].fd = info[b].fd
  BY <1>2, Basics DEF InfoStep
<1>3. \A u \in UserInfoType(Fds) : /\ DecCount(u).fd = u.fd
                                   /\ ResetCount(u).fd = u.fd
                                   /\ SetLatestTime(u).fd = u.fd
                                   /\ Older(u).fd = u.fd
  BY UserInfoLease
<1>4. \A a \in Addrs : info[a] \in UserInfoType(Fds)
  BY Basics
<1>5. CASE CountDown \/ CheckNeedSend \/ RestartCount
  <2>1. CASE CountDown
    BY <1>2, <1>3, <1>4, <2>1, Basics DEF CountDown
  <2>2. CASE CheckNeedSend
    BY <1>2, <2>2, Basics DEF CheckNeedSend
  <2>3. CASE RestartCount
    BY <1>2, <1>3, <1>4, <2>3, Basics DEF RestartCount
  <2> QED BY <1>5, <2>1, <2>2, <2>3
<1>6. CASE RenewLease
  BY <1>2, <1>3, <1>4, <1>6, Basics DEF RenewLease
<1>7. CASE Tick
  BY <1>3, <1>4, <1>7 DEF Tick
<1>8. ASSUME NEW t \in Threads, SharedStep(t) PROVE info' = info
  BY <1>8
  DEF SharedStep, LockWrite, UnlockWrite, LookupByFd, LockFdMap, ClrFdSet,
      ClearSlot, tables
<1>9. CASE MainStep
  <2>1. \/ RenewLease
        \/ SharedStep(Main)
        \/ info' = info
    BY <1>9
    DEF MainStep, CopyAllset, SelectFails, SelectWaits, SelectReturns,
        AcceptFails, AcceptConn, FillSlot, SetFdSet, RecvPacket, ReadPacketFd,
        EnterPacketWrite, WritePacket, PacketsDone, FindReady, EnterRead,
        ReadEnds, ReadMessage, ClearPastEnd, RequestDone,
        GetFreeV4Addr, SetFdInfoMap, GetUserInfoByFd, tables
  <2> QED BY <1>1, <1>6, <1>8, <2>1, Basics
<1>10. CASE KeeperThread
  <2>1. \/ CountDown \/ CheckNeedSend \/ RestartCount
        \/ SharedStep(Keeper)
        \/ info' = info
    BY <1>10
    DEF KeeperThread, KeeperStep, WakeUp, ReadState, CheckTimeOut, ReadFd,
        FindSlot, CloseTimedOut, tables
  <2> QED BY <1>1, <1>5, <1>8, <2>1, Basics
<1>11. CASE \E c \in Conns : Peer(c)
  BY <1>1, <1>11 DEF Peer, tables
<1>12. CASE UNCHANGED vars
  BY <1>1, <1>12 DEF vars, tables
<1> QED BY <1>7, <1>9, <1>10, <1>11, <1>12 DEF Next

\* While mutex_write_FD writes to the descriptor of a record, the record keeps
\* that descriptor: freeResource and setUserInfo wait for its mutex.
THEOREM WriteKeepsLeaseThm == Spec => WriteKeepsLease
<1> DEFINE Kept == \A t \in Threads :
                     th[t].pc = "write" /\ th'[t].pc = "write" =>
                       info'[th[t].rec].fd = info[th[t].rec].fd
<1>1. IInv /\ [Next]_vars => Kept
  <2> SUFFICES ASSUME IInv, [Next]_vars, NEW t \in Threads,
                      th[t].pc = "write"
               PROVE  info'[th[t].rec].fd = info[th[t].rec].fd
    OBVIOUS
  <2>1. th[t].rec \in Addrs /\ infoMutex[th[t].rec] = t
    BY DEF IInv, ThreadsInv, ThreadOK, RecLabels, Backed
  <2>2. ~Unlocked(th[t].rec)
    BY <2>1 DEF Unlocked, NoThread, Threads, Main, Keeper
  <2>3. CASE SetInfo
    BY <2>1, <2>2, <2>3, Basics DEF SetInfo
  <2>4. ASSUME NEW u \in Threads, FreeUnderLock(u)
        PROVE  info'[th[t].rec].fd = info[th[t].rec].fd
    BY <2>1, <2>2, <2>4, Basics DEF FreeUnderLock, FreeAndRelease
  <2> QED BY <2>1, <2>3, <2>4, FdsKept
<1>2. IInv /\ [Next]_vars => [Kept]_vars
  BY <1>1
<1> QED BY <1>2, Invariance, PTL DEF Spec, WriteKeepsLease

\* The table of leases implements the address pool: an address is granted only
\* while nobody holds it, by get_free_v4_addr and setUserInfo in steps of their
\* own, and changes hands only by free_resource_of_fd.
THEOREM PoolImplemented == Spec => PoolSpec
<1> DEFINE holder == [a \in Addrs |-> info[a].fd]
<1>1. Init => Pool!Init
  BY DEF Init, ServerStateInit, Pool!Init, NewUserInfo
<1>2. IInv /\ [Next]_vars => [Pool!Next]_holder
  <2> SUFFICES ASSUME IInv, [Next]_vars PROVE Pool!Next \/ UNCHANGED holder
    OBVIOUS
  <2>1. CASE SetInfo
    <3> DEFINE a == th[Main].rec
               f == th[Main].fd
    <3>1. a \in Addrs /\ f \in Fds /\ info[a].state = "FREE"
      BY <2>1, Basics
      DEF SetInfo, At, ThreadOK, RecLabels, FdLabels, IInv, ThreadsInv, Backed
    <3>2. holder[a] = NoFd
      BY <3>1 DEF IInv, RecordsInv, RecordOK
    <3>3. info' = [info EXCEPT ![a] = SetUserInfo(f)]
      BY <2>1 DEF SetInfo
    <3>4. holder' = [holder EXCEPT ![a] = f]
      BY <3>1, <3>3, Basics DEF SetUserInfo
    <3> QED BY <3>1, <3>2, <3>4 DEF Pool!Next, Pool!Grant
  <2>2. ASSUME NEW t \in Threads, FreeUnderLock(t) PROVE Pool!Next
    <3> DEFINE a == th[t].rec
    <3>1. a \in Addrs
      BY <2>2, Basics DEF FreeUnderLock, At, ThreadOK, RecLabels
    <3>2. info' = [info EXCEPT ![a] = FreeResource(info[a])]
      BY <2>2 DEF FreeUnderLock, FreeAndRelease
    <3>3. holder' = [holder EXCEPT ![a] = NoFd]
      BY <3>1, <3>2, Basics DEF FreeResource, NewUserInfo
    <3> QED BY <3>1, <3>3 DEF Pool!Next, Pool!Release
  <2>3. CASE ~SetInfo /\ \A t \in Threads : ~FreeUnderLock(t)
    BY <2>3, FdsKept
  <2> QED BY <2>1, <2>2, <2>3
<1> QED
  BY <1>1, <1>2, Invariance, PTL DEF Spec, PoolSpec, Pool!Spec

---------------------------------------------------------------------------
(* Waiting in accept *)

\* The main thread comes to accept from select only.
LEMMA ComesToAccept ==
  ASSUME IInv, MainStep, th'[Main].pc = "accept"
  PROVE  SelectFails \/ SelectReturns
<1>1. th \in [Threads -> Locals] /\ Main \in Threads
  BY Basics
<1>2. ASSUME NEW p, Goto(Main, p) PROVE th'[Main].pc = p
  BY <1>1, <1>2 DEF Goto, Locals
<1>3. ASSUME NEW p, NEW i, th' = [th EXCEPT ![Main] = Fresh(p, i)]
      PROVE  th'[Main].pc = p
  BY <1>1, <1>3 DEF Fresh
<1>4. ~NextIteration
  BY <1>3 DEF NextIteration
<1>5. ~(CopyAllset \/ SelectWaits \/ AcceptFails \/ EnterRead \/ ReadEnds
          \/ ClearPastEnd \/ SetInfo \/ SetFdInfoMap)
  <2>1. ~CopyAllset /\ ~SelectWaits /\ ~AcceptFails
    BY <1>2 DEF CopyAllset, SelectWaits, AcceptFails
  <2>2. ~SetInfo /\ ~SetFdInfoMap
    BY <1>2 DEF SetInfo, SetFdInfoMap
  <2>3. ~ReadEnds /\ ~EnterRead
    BY <1>1 DEF ReadEnds, EnterRead, Locals
  <2>4. ~ClearPastEnd
    BY <1>2 DEF ClearPastEnd, AfterUnslot
  <2> QED
    BY <2>1, <2>2, <2>3, <2>4
<1>6. ~(AcceptConn \/ FillSlot \/ SetFdSet)
  <2>1. ~AcceptConn /\ ~FillSlot
    BY <1>1 DEF AcceptConn, FillSlot, Locals
  <2>2. ~SetFdSet
    BY <1>3, <1>4 DEF SetFdSet
  <2> QED
    BY <2>1, <2>2
<1>7. ~(RecvPacket \/ ReadPacketFd \/ EnterPacketWrite \/ WritePacket
          \/ PacketsDone)
  <2>1. ~RecvPacket
    BY <1>1 DEF RecvPacket, At, Locals
  <2>2. ~ReadPacketFd
    <3>1. CASE th' = [th EXCEPT ![Main] = Fresh("raw", 0)]
      BY <3>1, <1>3
    <3>2. CASE th' = [th EXCEPT ![Main].pc = "rawenter",
                                ![Main].out = info[th[Main].rec].fd]
      BY <3>2, <1>1 DEF Locals
    <3> QED
      BY <3>1, <3>2 DEF ReadPacketFd
  <2>3. ~EnterPacketWrite /\ ~WritePacket
    BY <1>1, <1>3 DEF EnterPacketWrite, WritePacket, Locals
  <2>4. ~PacketsDone
    BY <1>1 DEF PacketsDone, Locals
  <2> QED
    BY <2>1, <2>2, <2>3, <2>4
<1>8. ~(FindReady \/ ReadMessage \/ RequestDone)
  <2>1. ~FindReady
    <3>1. ASSUME NEW s, NEW f,
                 ServeSlot(s, f)
          PROVE  FALSE
      BY <3>1, <1>1 DEF Locals, ServeSlot
    <3> QED
      BY <3>1, <1>4 DEF FindReady
  <2>2. ~ReadMessage
    <3> SUFFICES ASSUME ReadMessage PROVE FALSE
      OBVIOUS
    <3> DEFINE m == inbox[th[Main].to]
    <3> inbox \in [Conns -> MessageKinds \cup {"none"}]
      BY DEF IInv, TypeOK, SocketsTypeOK
    <3>1. m \in MessageKinds
      BY Basics DEF ReadMessage, Locals
    <3>2. PICK p \in {"alloc", "touch", "served"} :
            th' = [th EXCEPT ![Main].pc = p, ![Main].to = NoConn]
      BY <3>1 DEF ReadMessage, MessageKinds
    <3> QED
      BY <3>2, <1>1 DEF Locals
  <2>3. ~RequestDone
    <3>1. ASSUME NEW i, th' = [th EXCEPT ![Main] =
                                 [Fresh("scan", 0) EXCEPT !.idx = i]]
          PROVE  FALSE
      <4>1. th'[Main] = [Fresh("scan", 0) EXCEPT !.idx = i]
        BY <3>1, <1>1
      <4>2. th'[Main].pc = "scan"
        BY <4>1 DEF Fresh
      <4> QED
        BY <4>2
    <3> QED
      BY <3>1, <1>4 DEF RequestDone
  <2> QED
    BY <2>1, <2>2, <2>3
<1>9. ~(GetFreeV4Addr \/ GetUserInfoByFd \/ RenewLease)
  <2>1. ~GetFreeV4Addr
    BY <1>1 DEF GetFreeV4Addr, Locals
  <2>2. ~GetUserInfoByFd
    BY <1>1 DEF GetUserInfoByFd, Locals
  <2>3. ~RenewLease
    BY <1>2 DEF RenewLease, InfoStep
  <2> QED
    BY <2>1, <2>2, <2>3
<1>10. ~SharedStep(Main)
  <2>1. ~LockWrite(Main) /\ ~UnlockWrite(Main) /\ ~LookupByFd(Main)
    BY <1>1 DEF LockWrite, UnlockWrite, LookupByFd, Locals
  <2>2. ~LockFdMap(Main) /\ ~FreeUnderLock(Main)
    BY <1>2 DEF LockFdMap, FreeUnderLock, FreeAndRelease, AfterFree
  <2>3. ~ClrFdSet(Main) /\ ~ClearSlot(Main)
    BY <1>2 DEF ClrFdSet, ClearSlot, AfterUnslot
  <2> QED
    BY <2>1, <2>2, <2>3 DEF SharedStep
<1> QED
  BY <1>5, <1>6, <1>7, <1>8, <1>9, <1>10 DEF MainStep

\* While it is there, the other thread, the peers and the clock leave rset alone,
\* take nothing out of the backlog and open no descriptor.
LEMMA OthersLeaveAccept ==
  ASSUME IInv, KeeperThread \/ Tick \/ (\E c \in Conns : Peer(c))
                 \/ UNCHANGED vars
  PROVE  /\ th'[Main] = th[Main]
         /\ rset' = rset /\ backlog \subseteq backlog'
         /\ \A f \in Fds : conn[f] = NoConn => conn'[f] = NoConn
<1>1. /\ th \in [Threads -> Locals] /\ Main \in Threads /\ Keeper \in Threads
      /\ Main # Keeper
  BY Basics
<1>2. ASSUME NEW l, th' = [th EXCEPT ![Keeper] = l] PROVE th'[Main] = th[Main]
  BY <1>1, <1>2
<1>3. ASSUME NEW p, Goto(Keeper, p) PROVE th'[Main] = th[Main]
  BY <1>1, <1>3 DEF Goto
<1>4. CASE KeeperThread
  <2>1. rset' = rset
    BY <1>4 DEF KeeperThread, loop
  <2>2. th'[Main] = th[Main]
    <3>1. CASE WakeUp \/ ReadState
      BY <3>1, <1>1 DEF WakeUp, ReadState, NextAddr
    <3>2. CASE CountDown \/ CheckNeedSend \/ RestartCount
      BY <3>2, <1>3 DEF CountDown, CheckNeedSend, RestartCount, InfoStep
    <3>3. CASE CheckTimeOut \/ ReadFd
      BY <3>3, <1>1 DEF CheckTimeOut, ReadFd, NextAddr
    <3>4. CASE FindSlot
      BY <3>4, <1>1, <1>3 DEF FindSlot
    <3>5. CASE CloseTimedOut
      BY <3>5, <1>1 DEF CloseTimedOut, NextAddr
    <3>6. CASE SharedStep(Keeper)
      <4>1. CASE LockWrite(Keeper) \/ UnlockWrite(Keeper) \/ LookupByFd(Keeper)
        BY <4>1, <1>1 DEF LockWrite, UnlockWrite, LookupByFd
      <4>2. CASE LockFdMap(Keeper) \/ FreeUnderLock(Keeper) \/ ClrFdSet(Keeper)
                   \/ ClearSlot(Keeper)
        BY <4>2, <1>3
        DEF LockFdMap, FreeUnderLock, FreeAndRelease, ClrFdSet, ClearSlot
      <4> QED
        BY <3>6, <4>1, <4>2 DEF SharedStep
    <3> QED
      BY <1>4, <3>1, <3>2, <3>3, <3>4, <3>5, <3>6 DEF KeeperThread, KeeperStep
  <2>3. \/ UNCHANGED <<backlog, conn>>
        \/ \E S, R : EndCall(Keeper, S, R)
    <3>1. CASE SharedStep(Keeper)
      BY <3>1
      DEF SharedStep, LockWrite, UnlockWrite, LookupByFd, LockFdMap,
          FreeUnderLock, FreeAndRelease, ClrFdSet, ClearSlot, net
    <3>2. CASE ~SharedStep(Keeper)
      BY <1>4, <3>2
      DEF KeeperThread, KeeperStep, WakeUp, ReadState, CountDown,
          CheckNeedSend, RestartCount, InfoStep, CheckTimeOut, ReadFd,
          FindSlot, CloseTimedOut, net
    <3> QED
      BY <3>1, <3>2
  <2>4. ASSUME NEW S, NEW R, EndCall(Keeper, S, R)
        PROVE  /\ backlog' = backlog
               /\ \A f \in Fds : conn[f] = NoConn => conn'[f] = NoConn
    BY <2>4 DEF EndCall
  <2> QED
    BY <2>1, <2>2, <2>3, <2>4
<1>5. CASE Tick
  BY <1>5 DEF Tick, net, loop
<1>6. ASSUME NEW c \in Conns, Peer(c)
      PROVE  /\ th' = th /\ rset' = rset /\ conn' = conn
             /\ backlog \subseteq backlog'
  BY <1>6 DEF Peer, loop, PeerStep, Connect, SendMessage, PeerClose, PeerReset,
              Stall, Drain
<1>7. CASE UNCHANGED vars
  BY <1>7 DEF vars, net, loop
<1> QED
  BY <1>4, <1>5, <1>6, <1>7

\* The main thread waits in accept for a connection that is not there only when
\* a descriptor of rset has been closed under select (4over6_server.cpp:101
\* to 104): for any number of connections, descriptors and addresses.
THEOREM AcceptKnowsWhy == Spec => []AcceptWaitsOnStale
<1>1. Init => AcceptWaitsOnStale
  BY DEF Init, ServerStateInit, AcceptWaitsOnStale, Fresh, Threads, Main, Keeper
<1>2. IInv /\ AcceptWaitsOnStale /\ [Next]_vars => AcceptWaitsOnStale'
  <2> SUFFICES ASSUME IInv, AcceptWaitsOnStale, [Next]_vars,
                      th'[Main].pc = "accept", backlog' = {}
               PROVE  \E f \in rset' : ~IsOpen(f)'
    BY DEF AcceptWaitsOnStale
  <2>1. CASE MainStep
    <3>1. CASE SelectFails
      BY <3>1 DEF SelectFails, IsOpen, net
    <3>2. CASE SelectReturns
      <4>1. backlog = {} /\ Goto(Main, "raw")
        BY <3>2 DEF SelectReturns, AfterSelect, net
      <4> QED
        BY <4>1, Basics DEF Goto, Locals
    <3> QED
      BY <2>1, <3>1, <3>2, ComesToAccept
  <2>2. CASE ~MainStep
    <3>1. /\ th'[Main] = th[Main] /\ rset' = rset /\ backlog \subseteq backlog'
          /\ \A f \in Fds : conn[f] = NoConn => conn'[f] = NoConn
      BY <2>2, OthersLeaveAccept DEF Next
    <3>2. PICK f \in rset : ~IsOpen(f)
      BY <3>1 DEF AcceptWaitsOnStale
    <3>3. f \in Fds
      BY DEF IInv, TypeOK, ServerLoopTypeOK
    <3> QED
      BY <3>1, <3>2, <3>3 DEF IsOpen
  <2> QED
    BY <2>1, <2>2
<1> QED
  BY <1>1, <1>2, Invariance, PTL DEF Spec

---------------------------------------------------------------------------
(* The mutexes *)

\* The threads wait for each other only if a thread that holds a mutex waits
\* for one.  Whoever holds fd_map_mutex is about to free its record; whoever
\* holds a record's mutex is in write.
MutexInv ==
  \A t \in Threads :
    /\ fdMapMutex = t => th[t].pc = "free"
    /\ \A a \in Addrs : infoMutex[a] = t => th[t].pc = "write" /\ th[t].rec = a

\* The steps of the main thread move no other thread.
LEMMA MainMovesAlone ==
  ASSUME IInv, MainStep
  PROVE  th'[Keeper] = th[Keeper]
<1>1. ASSUME NEW l, th' = [th EXCEPT ![Main] = l] PROVE th'[Keeper] = th[Keeper]
  BY <1>1, Basics
<1>2. ASSUME NEW p, Goto(Main, p) PROVE th'[Keeper] = th[Keeper]
  BY <1>1, <1>2, Basics DEF Goto
<1>3. CASE CopyAllset \/ SelectFails \/ SelectWaits \/ SelectReturns
             \/ AcceptFails \/ SetInfo \/ SetFdInfoMap
  BY <1>2, <1>3
  DEF CopyAllset, SelectFails, SelectWaits, SelectReturns, AcceptFails, SetInfo,
      SetFdInfoMap
<1>4. CASE AcceptConn \/ FillSlot \/ SetFdSet
  BY <1>4, Basics DEF AcceptConn, FillSlot, SetFdSet, NextIteration
<1>5. CASE RecvPacket \/ ReadPacketFd \/ EnterPacketWrite \/ WritePacket
             \/ PacketsDone
  BY <1>5, Basics
  DEF RecvPacket, ReadPacketFd, EnterPacketWrite, WritePacket, PacketsDone
<1>6. CASE FindReady \/ EnterRead \/ ReadEnds \/ ReadMessage \/ RequestDone
  BY <1>6, Basics
  DEF FindReady, ServeSlot, EnterRead, ReadEnds, ReadMessage, RequestDone,
      NextIteration
<1>11. CASE ClearPastEnd
  BY <1>2, <1>11 DEF ClearPastEnd
<1>7. CASE GetFreeV4Addr \/ GetUserInfoByFd
  BY <1>7, Basics DEF GetFreeV4Addr, GetUserInfoByFd
<1>8. CASE RenewLease
  BY <1>2, <1>8 DEF RenewLease, InfoStep
<1>9. CASE LockWrite(Main) \/ UnlockWrite(Main) \/ LookupByFd(Main)
  BY <1>9, Basics DEF LockWrite, UnlockWrite, LookupByFd
<1>10. CASE LockFdMap(Main) \/ FreeUnderLock(Main) \/ ClrFdSet(Main)
              \/ ClearSlot(Main)
  BY <1>2, <1>10
  DEF LockFdMap, FreeUnderLock, FreeAndRelease, ClrFdSet, ClearSlot
<1> QED
  BY <1>3, <1>4, <1>5, <1>6, <1>7, <1>8, <1>9, <1>10, <1>11
  DEF MainStep, SharedStep

Locking(t) ==
  LockWrite(t) \/ UnlockWrite(t) \/ LockFdMap(t) \/ FreeUnderLock(t)

\* Every other step is taken by a thread that holds no mutex and takes none.
LEMMA HoldsNone ==
  ASSUME IInv, NEW t \in Threads, ~Locking(t),
         t = Main => MainStep, t = Keeper => KeeperStep
  PROVE  UNCHANGED mutexes /\ th[t].pc \notin {"free", "write"}
<1>1. ASSUME NEW at, NEW a, NEW u, NEW p, InfoStep(t, at, a, u, p)
      PROVE  UNCHANGED mutexes /\ th[t].pc = at
  BY <1>1 DEF InfoStep, At
<1>2. CASE SharedStep(t)
  <2>1. LookupByFd(t) \/ ClrFdSet(t) \/ ClearSlot(t)
    BY <1>2 DEF SharedStep, Locking
  <2> QED
    BY <2>1 DEF LookupByFd, ClrFdSet, ClearSlot, At
<1>3. CASE t = Main /\ ~SharedStep(Main)
  <2>1. CASE RenewLease
    BY <1>1, <1>3, <2>1 DEF RenewLease
  <2>2. CASE ~RenewLease
    BY <1>3, <2>2
    DEF MainStep, CopyAllset, SelectFails, SelectWaits, SelectReturns,
        AcceptFails, AcceptConn, FillSlot, SetFdSet, RecvPacket, ReadPacketFd,
        EnterPacketWrite, WritePacket, PacketsDone, FindReady, EnterRead,
        ReadEnds, ReadMessage, ClearPastEnd, RequestDone,
        GetFreeV4Addr, SetInfo, SetFdInfoMap, GetUserInfoByFd, At
  <2> QED
    BY <2>1, <2>2
<1>4. CASE t = Keeper /\ ~SharedStep(Keeper)
  <2>1. CASE CountDown \/ CheckNeedSend \/ RestartCount
    BY <1>1, <1>4, <2>1 DEF CountDown, CheckNeedSend, RestartCount
  <2>2. CASE ~(CountDown \/ CheckNeedSend \/ RestartCount)
    BY <1>4, <2>2
    DEF KeeperStep, WakeUp, ReadState, CheckTimeOut, ReadFd, FindSlot,
        CloseTimedOut, At
  <2> QED
    BY <2>1, <2>2
<1> QED
  BY <1>2, <1>3, <1>4 DEF Threads

LEMMA LockingKeeps ==
  ASSUME IInv, MutexInv, NEW t \in Threads, Locking(t)
  PROVE  MutexInv'
<1> DEFINE Holder(u) ==
      /\ fdMapMutex' = u => th'[u].pc = "free"
      /\ \A a \in Addrs :
           infoMutex'[a] = u => th'[u].pc = "write" /\ th'[u].rec = a
<1>1. /\ th \in [Threads -> Locals]
      /\ infoMutex \in [Addrs -> Threads \cup {NoThread}]
      /\ NoThread \notin Threads
  BY Basics DEF IInv, TypeOK, ServerStateTypeOK, NoThread, Threads, Main, Keeper
<1>2. \A u \in Threads \ {t} : th'[u] = th[u]
  BY <1>1
  DEF Locking, LockWrite, UnlockWrite, LockFdMap, FreeUnderLock,
      FreeAndRelease, Goto
<1>3. ASSUME NEW u \in Threads PROVE Holder(u)
  <2>1. CASE LockWrite(t)
    <3>1. /\ fdMapMutex' = fdMapMutex /\ th[t].pc = "lockwrite"
          /\ infoMutex' = [infoMutex EXCEPT ![th[t].rec] = t]
          /\ th'[t].pc = "write" /\ th'[t].rec = th[t].rec
      BY <1>1, <2>1 DEF LockWrite, At, Locals
    <3> QED
      BY <1>1, <1>2, <3>1 DEF MutexInv
  <2>2. CASE UnlockWrite(t)
    <3>1. /\ fdMapMutex' = fdMapMutex /\ th[t].pc = "write"
          /\ infoMutex' = [infoMutex EXCEPT ![th[t].rec] = NoThread]
      BY <2>2 DEF UnlockWrite, At
    <3> QED
      BY <1>1, <1>2, <3>1 DEF MutexInv
  <2>3. CASE LockFdMap(t)
    <3>1. /\ infoMutex' = infoMutex /\ th[t].pc = "freelock"
          /\ \/ fdMapMutex' = NoThread
             \/ fdMapMutex' = t /\ th'[t].pc = "free"
      BY <1>1, <2>3 DEF LockFdMap, HeldAfterCheck, At, Goto, Locals
    <3> QED
      BY <1>1, <1>2, <3>1 DEF MutexInv
  <2>4. CASE FreeUnderLock(t)
    <3>1. /\ infoMutex' = infoMutex /\ th[t].pc = "free"
          /\ fdMapMutex' = NoThread
      BY <2>4 DEF FreeUnderLock, FreeAndRelease, At
    <3> QED
      BY <1>1, <1>2, <3>1 DEF MutexInv
  <2> QED
    BY <2>1, <2>2, <2>3, <2>4 DEF Locking
<1> QED
  BY <1>3 DEF MutexInv

LEMMA MutexStep ==
  ASSUME IInv, MutexInv, [Next]_vars
  PROVE  MutexInv'
<1>1. Threads = {Main, Keeper} /\ Main # Keeper
  BY DEF Threads, Main, Keeper
<1>2. ASSUME NEW t \in Threads, t = Main => MainStep,
             t = Keeper => KeeperThread
      PROVE  MutexInv'
  <2>1. CASE Locking(t)
    BY <2>1, LockingKeeps
  <2>2. CASE ~Locking(t)
    <3>1. UNCHANGED mutexes /\ th[t].pc \notin {"free", "write"}
      BY <1>2, <2>2, HoldsNone DEF KeeperThread
    <3>2. \A u \in Threads \ {t} : th'[u] = th[u]
      BY <1>1, <1>2, MainMovesAlone, OthersLeaveAccept
    <3> QED
      BY <3>1, <3>2 DEF MutexInv, mutexes
  <2> QED
    BY <2>1, <2>2
<1>3. CASE MainStep
  BY <1>1, <1>2, <1>3
<1>4. CASE KeeperThread
  BY <1>1, <1>2, <1>4
<1>5. CASE Tick \/ (\E c \in Conns : Peer(c)) \/ UNCHANGED vars
  <2>1. UNCHANGED <<mutexes, th>>
    BY <1>5 DEF Tick, Peer, vars
  <2> QED
    BY <2>1 DEF MutexInv, mutexes
<1> QED
  BY <1>3, <1>4, <1>5 DEF Next

\* free_resource_of_fd locks a record while it holds fd_map_mutex, and
\* mutex_write_FD writes while it holds a record (4over6_util.cpp:158-170 and
\* 150-153): on no interleaving does a thread wait for a mutex that it holds, or
\* do the two threads wait for each other.
THEOREM NoDeadlock == Spec => []NoMutexCycle
<1>1. Init => MutexInv
  BY DEF Init, ServerStateInit, MutexInv, NoThread, Threads, Main, Keeper
<1>2. IInv /\ MutexInv /\ [Next]_vars => MutexInv'
  BY MutexStep
<1>3. IInv /\ MutexInv => NoMutexCycle
  <2> SUFFICES ASSUME IInv, MutexInv, NEW t \in Threads, NEW u \in Threads,
                      WaitsFor(t) = u, WaitsFor(u) = t
               PROVE  FALSE
    BY DEF NoMutexCycle
  <2>1. ASSUME NEW v \in Threads, NEW w \in Threads, WaitsFor(v) = w
        PROVE  /\ th[v].pc \in FdMapWaits \cup RecordWaits
               /\ th[v].pc \in FdMapWaits => th[w].pc = "free"
               /\ th[v].pc \in RecordWaits => th[w].pc = "write"
    <3>1. NoThread \notin Threads
      BY DEF NoThread, Threads, Main, Keeper
    <3>2. th[v].pc \in FdMapWaits \cup RecordWaits
      BY <2>1, <3>1 DEF WaitsFor
    <3>3. FdMapWaits \cap RecordWaits = {}
      BY DEF FdMapWaits, RecordWaits
    <3>4. CASE th[v].pc \in FdMapWaits
      <4>1. fdMapMutex = w
        BY <2>1, <3>3, <3>4 DEF WaitsFor
      <4> QED
        BY <3>2, <3>3, <3>4, <4>1 DEF MutexInv
    <3>5. CASE th[v].pc \in RecordWaits
      <4>1. infoMutex[th[v].rec] = w
        BY <2>1, <3>3, <3>5 DEF WaitsFor
      <4>2. th[v].rec \in Addrs
        BY <3>5, Basics DEF RecordWaits, ThreadOK, RecLabels
      <4> QED
        BY <3>2, <3>3, <3>5, <4>1, <4>2 DEF MutexInv
    <3> QED
      BY <3>2, <3>4, <3>5
  <2>2. "write" \notin FdMapWaits \cup RecordWaits /\ "free" \notin FdMapWaits
    BY DEF FdMapWaits, RecordWaits
  <2>3. th[u].pc \in FdMapWaits \cup RecordWaits
    BY <2>1
  <2>4. th[u].pc = "free"
    BY <2>1, <2>2, <2>3, Zenon
  <2>5. th[u].pc \notin RecordWaits
    <3>1. th[t].pc \in FdMapWaits \cup RecordWaits
      BY <2>1
    <3> QED
      BY <2>1, <2>2, <3>1, Zenon
  <2> QED
    BY <2>2, <2>3, <2>4, <2>5
<1> QED
  BY <1>1, <1>2, <1>3, Invariance, PTL DEF Spec

=============================================================================
