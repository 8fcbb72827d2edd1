------------------------------- MODULE Server -------------------------------
(***************************************************************************)
(* The 4over6 server: the main thread (ServerLoop), the keep-alive thread  *)
(* (KeepAliveThread), the connections and the passage of time (Sockets,    *)
(* UserInfo), interleaved step by step; and what it gets right.            *)
(***************************************************************************)
EXTENDS ServerLoop, KeepAliveThread

vars == <<net, tables, mutexes, watch, alive, th, loop>>

Init == SocketsInit /\ ServerStateInit /\ ServerLoopInit

KeeperThread == KeeperStep /\ UNCHANGED loop

\* time(NULL) advances.
Tick ==
  /\ alive
  /\ info' = [a \in Addrs |-> Older(info[a])]
  /\ UNCHANGED <<net, fdMap, owner, mutexes, watch, alive, th, loop>>

\* What the peers do once the server is dead is of no interest.
Peer(c) ==
  /\ alive
  /\ PeerStep(c)
  /\ UNCHANGED <<tables, mutexes, watch, alive, th, loop>>

Next == MainStep \/ KeeperThread \/ Tick \/ \E c \in Conns : Peer(c)

Spec == Init /\ [][Next]_vars

\* The kernel schedules both threads, and the clock goes on.  A write that waits
\* for room takes the room it finds, however often the buffer fills up again.
\* Nothing is asked of the peers: one that has stopped reading need never go on.
FairSpec ==
  /\ Spec
  /\ WF_vars(MainStep)
  /\ WF_vars(KeeperThread)
  /\ WF_vars(Tick)
  /\ SF_vars(UnlockWrite(Main) /\ UNCHANGED loop)
  /\ SF_vars(UnlockWrite(Keeper) /\ UNCHANGED loop)

---------------------------------------------------------------------------
(* The schedules on which the two threads never work on one descriptor at  *)
(* the same time.  Nothing in the code sees to it: a thread has the        *)
(* descriptor in hand from the step that picks it to the one that is done. *)

Overlap == th[Main].fd # NoFd /\ th[Main].fd = th[Keeper].fd

ApartSpec == Init /\ [][Next /\ ~Overlap']_vars

---------------------------------------------------------------------------
(* What holds on every schedule *)

TypeOK == SocketsTypeOK /\ ServerStateTypeOK /\ ServerLoopTypeOK

\* The table of leases implements an address pool: reply_ipv4_request never
\* takes over an address that another descriptor holds, although
\* get_free_v4_addr lets go of every mutex before setUserInfo marks the
\* record as used, and the two threads free records meanwhile.
Pool == INSTANCE LeasePool WITH
          Addresses <- Addrs, Holders <- Fds, Nobody <- NoFd,
          holder <- [a \in Addrs |-> info[a].fd]
PoolSpec == Pool!Spec

\* The countdown to a keep-alive message is compared with 0 for equality: once
\* below 0 the client would never get one again.  It is 0 only while the
\* keep-alive thread is between decCount and resetCount of that record.
KeepAliveNotSkipped ==
  \A a \in Addrs :
    /\ info[a].count >= 0
    /\ info[a].count = 0 =>
         /\ th[Keeper].rec = a
         /\ th[Keeper].pc \in {"need", "lockwrite", "write", "reset"}

\* mutex_write_FD: as long as a write is under way on a record's descriptor,
\* no thread gives the address back or leases it again.
WriteKeepsLease ==
  [][\A t \in Threads :
       th[t].pc = "write" /\ th'[t].pc = "write" =>
         info'[th[t].rec].fd = info[th[t].rec].fd]_vars

\* accept is to "receive a new connection".  The main thread waits in it for one
\* only when select has failed on a descriptor closed under it, which leaves
\* the listening socket set in rset.
AcceptWaitsOnStale ==
  th[Main].pc = "accept" /\ backlog = {} => \E f \in rset : ~IsOpen(f)

\* Where a thread is about to lock fd_map_mutex, or the mutex of its record, and
\* which thread it finds there.
FdMapWaits == {"raw", "alloc", "setmap", "touch", "lookup", "freelock"}
RecordWaits ==
  {"setinfo", "latest", "dec", "need", "reset", "timeout", "lockwrite", "free"}

WaitsFor(t) ==
  CASE th[t].pc \in FdMapWaits -> fdMapMutex
    [] th[t].pc \in RecordWaits -> infoMutex[th[t].rec]
    [] OTHER -> NoThread

\* free_resource_of_fd locks a record inside fd_map_mutex, mutex_write_FD writes
\* inside a record's mutex, and no mutex can be locked twice: no thread waits
\* for itself, and no two threads for each other.
NoMutexCycle ==
  \A t, u \in Threads : ~(WaitsFor(t) = u /\ WaitsFor(u) = t)

\* free_resource_of_fd waits for a record's mutex while it holds fd_map_mutex,
\* and the other thread writes to a client that reads nothing under the former.
WaitsForPeer ==
  \E t, u \in Threads :
    /\ fdMapMutex = t /\ th[t].pc = "free"
    /\ th[u].pc = "write" /\ th[u].rec = th[t].rec
    /\ ~Writable(th[u].to)

\* fd_map_mutex is let go of again and again, unless SIGPIPE kills the process
\* or one client stops reading for good while it is written to.
TableLetGo == []<>(fdMapMutex = NoThread \/ ~alive) \/ <>[]WaitsForPeer

\* The client of a lease has disconnected, and the lease has been silent for
\* MAX_TIME_DUR.
DeadLease(a) ==
  /\ alive
  /\ info[a].state = "USED" /\ IsTimeOut(info[a])
  /\ owner[a] # NoConn /\ peer[owner[a]] # "up"

\* A lease to which fd_map_info does not lead, so that neither thread can free
\* it: the keep-alive thread has torn its descriptor down while
\* reply_ipv4_request was between setUserInfo and set_fd_info_map, or the latter
\* has found an older entry for the descriptor and left it there.
Orphan(a) == info[a].fd # NoFd /\ fdMap[info[a].fd] # a

\* A thread hangs in write, with the mutex of a record.
StuckInWrite == \E t \in Threads : th[t].pc = "write" /\ ~Writable(th[t].to)

\* A lease outlives its connection for a while only: the main thread gives it
\* back or, if that one is stuck in a system call, the keep-alive thread does.
\* It stays only as an orphan, or when a later client is served under the number
\* of its descriptor and renews it again and again, or when a client stops
\* reading for good while it is written to.
DeadLeaseGivenBack ==
  (\A a \in Addrs : []<>(~DeadLease(a) \/ Orphan(a))) \/ <>[]StuckInWrite

---------------------------------------------------------------------------
(* What holds when the threads keep apart; of descriptors, as long as none *)
(* of them has the descriptor in hand                                      *)

Quiet(f) == \A t \in Threads : th[t].fd # f

\* The connections the server has accepted are those it watches and serves:
\* a descriptor is open iff it is in allset, and iff exactly one entry of
\* client[] holds it.
ConnectionsServed ==
  \A f \in Fds : Quiet(f) =>
    /\ IsOpen(f) <=> f \in allset
    /\ IsOpen(f) <=> \E s \in Slots : client[s] = f
    /\ \A r, s \in Slots : client[r] = f /\ client[s] = f => r = s

\* A lease belongs to the connection it was granted to, which is still open
\* and leads back to the record: reply_ipv4_request and free_resource_of_fd
\* keep v4_map_info and fd_map_info in step.
LeaseHasConnection ==
  \A a \in Addrs :
    LET f == info[a].fd IN
    f # NoFd /\ Quiet(f) => fdMap[f] = a /\ conn[f] = owner[a]

\* fd_map_info never leads to a record that is free or another's.
MapMatchesTable ==
  \A f \in Fds : Quiet(f) /\ fdMap[f] # NoInfo => info[fdMap[f]].fd = f

\* process_packet sends the packets for an address to the connection that
\* holds the lease of it, or drops them.
PacketGoesToLessee ==
  th[Main].pc = "rawwrite" => th[Main].to \in {owner[th[Main].rec], NoConn}

\* keep_alive_thread goes by the silence of the record it looks at, but closes
\* a descriptor: the lease the table finds under that descriptor is silent too.
SilentIsClosed ==
  [][th[Keeper].pc = "timeout" /\ th'[Keeper].pc = "readfd" =>
       LET f == info[th[Keeper].rec].fd IN
       f # NoFd /\ fdMap[f] # NoInfo => IsTimeOut(info[fdMap[f]])]_vars

\* What select found may be out of date when the main thread comes to read it:
\* the descriptor may have been closed and given to a new connection since.
\* It waits in read only for such a connection, accepted under the number of
\* another one that select has reported, never for the one reported.
ReadWaitsForNewcomer ==
  LET c == th[Main].to IN
  th[Main].pc = "read" /\ c # NoConn /\ ~Readable(c) =>
    reported[th[Main].fd] \notin {c, NoConn}

\* The search of client[] for an unused entry ends inside the array ("too many"
\* is never said), and the main loop neither reads nor writes
\* client[FD_SETSIZE]: as long as there are fewer descriptors than entries,
\* also when accept fails and its -1 is put into the array.
StaysInClientArray == maxi < FdSetSize

=============================================================================
