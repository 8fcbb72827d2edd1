---------------------------- MODULE ServerLoop ----------------------------
(***************************************************************************)
(* The main thread: the select loop of do_server and everything it calls   *)
(* to accept a connection, to forward a packet and to serve a request.     *)
(***************************************************************************)
EXTENDS ServerState

CONSTANT RawFds   \* the raw sockets that receive packets from the IPv4 side

ASSUME RawFdsAssumption == IsFiniteSet(RawFds) /\ "listen" \notin RawFds

VARIABLES
  rset,      \* the client descriptors of rset
  special,   \* the listening and the raw sockets that are set in rset
  nready,    \* what is left of the count select returned
  reported   \* history: the connection select reported under a descriptor

loop == <<rset, special, nready, reported>>

NothingReported == [f \in Fds |-> NoConn]

ServerLoopTypeOK ==
  /\ rset \in SUBSET Fds
  /\ special \in SUBSET (RawFds \cup {"listen"})
  /\ nready \in Int
  /\ reported \in [Fds -> Conns \cup {NoConn}]

ServerLoopInit ==
  /\ rset = {}
  /\ special = {}
  /\ nready = 0
  /\ reported = NothingReported

\* The local values that die with an iteration, a packet or a request are
\* reset with it: they are assigned again before they are read.
NextIteration ==
  /\ th' = [th EXCEPT ![Main] = Fresh("copy", 0)]
  /\ rset' = {}
  /\ special' = {}
  /\ nready' = 0
  /\ reported' = NothingReported

---------------------------------------------------------------------------
(* select *)

\* rset = allset, without allset_mutex.
CopyAllset ==
  /\ At(Main, "copy")
  /\ rset' = allset
  /\ Goto(Main, "select")
  /\ UNCHANGED <<net, tables, mutexes, watch, alive, special, nready, reported>>

\* select returns -1 with EBADF when a descriptor of its set is not open, and
\* leaves the set as it was given: every descriptor looks ready.
SelectFails ==
  /\ At(Main, "select")
  /\ \E f \in rset : ~IsOpen(f)
  /\ special' = RawFds \cup {"listen"}
  /\ nready' = -1
  /\ Goto(Main, "accept")
  /\ UNCHANGED <<net, tables, mutexes, watch, alive, rset, reported>>

SelectWaits ==
  /\ At(Main, "select")
  /\ \A f \in rset : IsOpen(f)
  /\ Goto(Main, "poll")
  /\ UNCHANGED <<net, tables, mutexes, watch, alive, loop>>

\* Where the loop goes on after select, and a faulty variant: accept is called
\* without a look at the listening socket.
AfterSelectUnchecked(incoming) == "accept"
AfterSelect(incoming) == IF incoming = {} THEN "raw" ELSE "accept"

\* A descriptor closed during the wait is no longer reported.  A packet may
\* have arrived on any of the raw sockets.
SelectReturns ==
  LET ready == {f \in rset : IsOpen(f) /\ Readable(conn[f])}
      incoming == IF backlog = {} THEN {} ELSE {"listen"}
  IN
  /\ At(Main, "poll")
  /\ \E raw \in SUBSET RawFds :
       /\ ready # {} \/ incoming \cup raw # {}
       /\ rset' = ready
       /\ special' = incoming \cup raw
       /\ nready' = Cardinality(ready) + Cardinality(incoming \cup raw)
  /\ reported' = [f \in Fds |-> IF f \in ready THEN conn[f] ELSE NoConn]
  /\ Goto(Main, AfterSelect(incoming))
  /\ UNCHANGED <<net, tables, mutexes, watch, alive>>

---------------------------------------------------------------------------
(* A new connection *)

\* accept fails at once when the process has no descriptor left.
AcceptFails ==
  /\ At(Main, "accept")
  /\ FreeFds = {}
  /\ Goto(Main, "slot")
  /\ UNCHANGED <<net, tables, mutexes, watch, alive, loop>>

\* Otherwise it blocks while no connection is pending.
AcceptConn ==
  /\ At(Main, "accept")
  /\ FreeFds # {}
  /\ \E c \in backlog :
       /\ conn' = [conn EXCEPT ![LowestFreeFd] = c]
       /\ backlog' = backlog \ {c}
  /\ th' = [th EXCEPT ![Main].pc = "slot", ![Main].fd = LowestFreeFd]
  /\ UNCHANGED <<peer, inbox, asked, full, tables, mutexes, watch, alive,
                 loop>>

\* client[i] = connfd for the first i that is unused; i is FD_SETSIZE when none
\* is ("too many").  After a failed accept connfd is -1.
FoundSlot ==
  LET unused == {s \in Slots : client[s] = NoFd} IN
  IF unused = {} THEN FdSetSize ELSE Min(unused)

FillSlot ==
  LET i == FoundSlot IN
  /\ At(Main, "slot")
  /\ client' = [s \in Slots |-> IF s = i THEN th[Main].fd ELSE client[s]]
  /\ th' = [th EXCEPT ![Main].pc = "setfd", ![Main].idx = i]
  /\ UNCHANGED <<net, tables, mutexes, maxi, allset, alive, loop>>

\* set_FD_SET, and the count that decides whether the iteration goes on.
\* FD_SET of -1 is undefined: it sets the bit of some other descriptor or none.
SetFdSet ==
  /\ At(Main, "setfd")
  /\ IF th[Main].fd # NoFd
     THEN allset' = allset \cup {th[Main].fd}
     ELSE \E stray \in SUBSET Fds :
            Cardinality(stray) <= 1 /\ allset' = allset \cup stray
  /\ maxi' = IF th[Main].idx > maxi THEN th[Main].idx ELSE maxi
  /\ IF nready <= 1
     THEN NextIteration
     ELSE /\ nready' = nready - 1
          /\ th' = [th EXCEPT ![Main] = Fresh("raw", 0)]
          /\ UNCHANGED <<rset, special, reported>>
  /\ UNCHANGED <<net, tables, mutexes, client, alive>>

---------------------------------------------------------------------------
(* A packet from the IPv4 side: process_packet *)

\* A packet for an address of the pool whose record is in use is forwarded;
\* any other is dropped.  get_user_info_by_v4 takes fd_map_mutex; the state is
\* read without the record's mutex.
RecvPacket ==
  /\ At(Main, "raw")
  /\ fdMapMutex = NoThread
  /\ \E r \in special \cap RawFds :
       /\ special' = special \ {r}
       /\ \E a \in Addrs \cup {NoInfo} :
            IF a # NoInfo /\ info[a].state = "USED"
            THEN th' = [th EXCEPT ![Main].pc = "rawfd", ![Main].rec = a]
            ELSE th' = th
  /\ UNCHANGED <<net, tables, mutexes, watch, alive, rset, nready, reported>>

\* fd = info->fd, also without the mutex.
ReadPacketFd ==
  LET f == info[th[Main].rec].fd IN
  /\ At(Main, "rawfd")
  /\ th' = IF f = NoFd
           THEN [th EXCEPT ![Main] = Fresh("raw", 0)]
           ELSE [th EXCEPT ![Main].pc = "rawenter", ![Main].out = f]
  /\ UNCHANGED <<net, tables, mutexes, watch, alive, loop>>

\* write looks the descriptor up.
EnterPacketWrite ==
  /\ At(Main, "rawenter")
  /\ th' = [th EXCEPT ![Main].pc = "rawwrite", ![Main].out = NoFd,
                      ![Main].to = ConnOf(th[Main].out)]
  /\ UNCHANGED <<net, tables, mutexes, watch, alive, loop>>

WritePacket ==
  /\ At(Main, "rawwrite")
  /\ WriteReturns(Main)
  /\ th' = [th EXCEPT ![Main] = Fresh("raw", 0)]
  /\ EndCall(Main, {}, {})
  /\ UNCHANGED <<tables, mutexes, watch, loop>>

PacketsDone ==
  /\ At(Main, "raw")
  /\ special \cap RawFds = {}
  /\ th' = [th EXCEPT ![Main].pc = "scan", ![Main].idx = 0]
  /\ UNCHANGED <<net, tables, mutexes, watch, alive, loop>>

---------------------------------------------------------------------------
(* The loop over client[] *)

ServeSlot(i, sockfd) ==
  th' = [th EXCEPT ![Main].pc = "enter", ![Main].idx = i, ![Main].fd = sockfd]

\* sockfd = client[i], for the first i from where the loop stands for which it
\* is in rset (the other thread only ever clears entries, so what the loop has
\* passed is still not in rset).
\* client[FD_SETSIZE] is no element of the array: reading it gives anything.
FindReady ==
  LET i == th[Main].idx
      hits == {s \in Slots : s >= i /\ s <= maxi /\ client[s] \in rset}
  IN
  /\ At(Main, "scan")
  /\ IF hits # {}
     THEN ServeSlot(Min(hits), client[Min(hits)]) /\ UNCHANGED loop
     ELSE \/ NextIteration
          \/ /\ maxi = FdSetSize /\ i <= FdSetSize
             /\ \E f \in rset : ServeSlot(FdSetSize, f)
             /\ UNCHANGED loop
  /\ UNCHANGED <<net, tables, mutexes, watch, alive>>

\* do_response calls read, which looks the descriptor up.
EnterRead ==
  /\ At(Main, "enter")
  /\ th' = [th EXCEPT ![Main].pc = "read", ![Main].to = ConnOf(th[Main].fd)]
  /\ UNCHANGED <<net, tables, mutexes, watch, alive, loop>>

\* do_response, the branches that close the descriptor: there is no such
\* descriptor, or everything the peer has sent has been read and it has closed
\* or reset the connection.
ReadEnds ==
  LET c == th[Main].to IN
  /\ At(Main, "read")
  /\ c # NoConn => inbox[c] = "none" /\ peer[c] \in {"closed", "reset"}
  /\ EndCall(Main, {th[Main].fd}, {})
  /\ th' = [th EXCEPT ![Main].pc = "clr", ![Main].to = NoConn]
  /\ UNCHANGED <<tables, mutexes, watch, alive, loop>>

\* do_response, a message: its type selects the handler.
ReadMessage ==
  LET c == th[Main].to
      handler == CASE inbox[c] = "request" -> "alloc"
                   [] inbox[c] = "refresh" -> "touch"
                   [] inbox[c] = "ignored" -> "served"
  IN
  /\ At(Main, "read")
  /\ c # NoConn /\ inbox[c] # "none"
  /\ th' = [th EXCEPT ![Main].pc = handler, ![Main].to = NoConn]
  /\ EndCall(Main, {}, {c})
  /\ UNCHANGED <<tables, mutexes, watch, alive, loop>>

\* client[i] = -1 with i = FD_SETSIZE stores past the array.  What stands there
\* is up to the compiler: nready, which the loop then takes for used up, or the
\* first word of rset, in which the low descriptors are then set.
ClearPastEnd ==
  /\ At(Main, "unslot")
  /\ th[Main].idx = FdSetSize
  /\ \/ nready' = -1 /\ rset' = rset
     \/ nready' = nready /\ \E low \in SUBSET Fds : rset' = rset \cup low
  /\ Goto(Main, AfterUnslot(Main))
  /\ UNCHANGED <<net, tables, mutexes, watch, alive, special, reported>>

\* i++, and a faulty variant: client[i] is served again.
NextIndexStays(i) == i
NextIndex(i) == IF i < FdSetSize THEN i + 1 ELSE i

\* if(--nready <= 0) break; otherwise on to the next i.
RequestDone ==
  LET next == NextIndex(th[Main].idx) IN
  /\ At(Main, "served")
  /\ IF nready <= 1
     THEN NextIteration
     ELSE /\ nready' = nready - 1
          /\ th' = [th EXCEPT ![Main] = [Fresh("scan", 0) EXCEPT !.idx = next]]
          /\ UNCHANGED <<rset, special, reported>>
  /\ UNCHANGED <<net, tables, mutexes, watch, alive>>

---------------------------------------------------------------------------
(* reply_ipv4_request *)

\* The addresses get_free_v4_addr chooses from, and a faulty variant: the state
\* is not looked at.
AnyAddrs == Addrs
FreeAddrs == {a \in Addrs : info[a].state = "FREE"}

\* get_free_v4_addr.  With the pool exhausted the request gets no answer.
GetFreeV4Addr ==
  /\ At(Main, "alloc")
  /\ fdMapMutex = NoThread
  /\ th' = IF FreeAddrs = {}
           THEN [th EXCEPT ![Main].pc = "served"]
           ELSE [th EXCEPT ![Main].pc = "setinfo",
                           ![Main].rec = Min(FreeAddrs)]
  /\ UNCHANGED <<net, tables, mutexes, watch, alive, loop>>

SetInfo ==
  LET a == th[Main].rec
      f == th[Main].fd
  IN
  /\ At(Main, "setinfo")
  /\ Unlocked(a)
  /\ info' = [info EXCEPT ![a] = SetUserInfo(f)]
  /\ owner' = [owner EXCEPT ![a] = conn[f]]
  /\ Goto(Main, "setmap")
  /\ UNCHANGED <<net, fdMap, mutexes, watch, alive, loop>>

\* map::insert keeps the entry that is already there.
SetFdInfoMap ==
  LET f == th[Main].fd IN
  /\ At(Main, "setmap")
  /\ fdMapMutex = NoThread
  /\ fdMap' = [fdMap EXCEPT ![f] = IF @ = NoInfo THEN th[Main].rec ELSE @]
  /\ Goto(Main, "lockwrite")
  /\ UNCHANGED <<net, info, owner, mutexes, watch, alive, loop>>

---------------------------------------------------------------------------
(* do_ipv4_packet_request and do_keep_alive: both renew the lease that is *)
(* found under the descriptor; the first then sends the packet on.        *)

GetUserInfoByFd ==
  LET a == fdMap[th[Main].fd] IN
  /\ At(Main, "touch")
  /\ fdMapMutex = NoThread
  /\ th' = [th EXCEPT ![Main].rec = a,
                      ![Main].pc = IF a = NoInfo THEN "served" ELSE "latest"]
  /\ UNCHANGED <<net, tables, mutexes, watch, alive, loop>>

RenewLease ==
  LET a == th[Main].rec IN
  /\ InfoStep(Main, "latest", a, SetLatestTime(info[a]), "served")
  /\ UNCHANGED loop

MainStep ==
  \/ CopyAllset
  \/ SelectFails
  \/ SelectWaits
  \/ SelectReturns
  \/ AcceptFails
  \/ AcceptConn
  \/ FillSlot
  \/ SetFdSet
  \/ RecvPacket
  \/ ReadPacketFd
  \/ EnterPacketWrite
  \/ WritePacket
  \/ PacketsDone
  \/ FindReady
  \/ EnterRead
  \/ ReadEnds
  \/ ReadMessage
  \/ ClearPastEnd
  \/ RequestDone
  \/ GetFreeV4Addr
  \/ SetInfo
  \/ SetFdInfoMap
  \/ GetUserInfoByFd
  \/ RenewLease
  \/ SharedStep(Main) /\ UNCHANGED loop

=============================================================================
