---------------------------- MODULE ServerState ----------------------------
(***************************************************************************)
(* What the two threads of the server share - the table of leases, the     *)
(* client array, the descriptor set select is given - and the procedures   *)
(* both of them call: User_Info::mutex_write_FD,                           *)
(* User_Tables::free_resource_of_fd and clr_FD_SET.                        *)
(*                                                                         *)
(* A thread is a program counter and the locals that survive from one step *)
(* to the next.  A body that runs under one mutex and cannot block inside  *)
(* it is one step, enabled while the mutex is free; the mutexes are state  *)
(* only because two of them are held across a step: a record's, while      *)
(* mutex_write_FD writes, and fd_map_mutex, while free_resource_of_fd      *)
(* waits for a record's.                                                   *)
(***************************************************************************)
EXTENDS Sockets, UserInfo

CONSTANTS
  PoolSize,   \* addresses in the pool: 10.0.0.3 .. 10.0.0.254 in the server
  FdSetSize   \* FD_SETSIZE: entries of the client array

ASSUME ServerAssumption ==
  /\ PoolSize \in Nat \ {0}
  /\ FdSetSize \in Nat \ {0}

Main == "main"              \* the thread that runs do_server
Keeper == "keep_alive"      \* the thread that runs keep_alive_thread
Threads == {Main, Keeper}
NoThread == "none"

Addrs == 1..PoolSize
NoInfo == 0                 \* the NULL User_Info*
Slots == 0..FdSetSize - 1

VARIABLES
  info,        \* v4_map_info: the record of every address of the pool
  fdMap,       \* fd_map_info: the record found under a descriptor, or NoInfo
  fdMapMutex,  \* which thread holds fd_map_mutex
  infoMutex,   \* which thread holds the mutex of each record
  client,      \* client[]: the descriptors the main loop serves
  maxi,        \* the highest index of client[] ever used
  allset,      \* the client descriptors select waits for
  th,          \* the threads: program counter and locals
  alive,       \* FALSE once SIGPIPE has killed the process
  owner        \* history: the connection each address was last leased to

tables == <<info, fdMap, owner>>
mutexes == <<fdMapMutex, infoMutex>>
watch == <<client, maxi, allset>>

MainLabels ==
  {"copy", "select", "poll", "accept", "slot", "setfd", "raw", "rawfd",
   "rawenter", "rawwrite", "scan", "enter", "read", "alloc", "setinfo",
   "setmap", "touch", "latest", "served"}
KeeperLabels ==
  {"sleep", "state", "dec", "need", "reset", "timeout", "readfd", "slot",
   "close"}
SharedLabels ==
  {"lockwrite", "write", "lookup", "freelock", "free", "clr", "unslot"}

\* it: the keeper's place in the pool.  fd: the descriptor in hand (sockfd,
\* connfd, fd).  out: the one process_packet is about to write to.  rec: the
\* User_Info* in hand.  idx: the index in client[].  to: the connection that the
\* read or write in progress was called for.
Locals ==
  [pc : MainLabels \cup KeeperLabels \cup SharedLabels,
   it : 0..PoolSize + 1,
   fd : Fds \cup {NoFd},
   out : Fds \cup {NoFd},
   rec : Addrs \cup {NoInfo},
   idx : 0..FdSetSize,
   to : Conns \cup {NoConn}]

\* A thread that has nothing in hand.
Fresh(label, it) ==
  [pc |-> label, it |-> it, fd |-> NoFd, out |-> NoFd, rec |-> NoInfo,
   idx |-> 0, to |-> NoConn]

At(t, label) == alive /\ th[t].pc = label
Goto(t, label) == th' = [th EXCEPT ![t].pc = label]

ServerStateTypeOK ==
  /\ info \in [Addrs -> UserInfoType(Fds)]
  /\ fdMap \in [Fds -> Addrs \cup {NoInfo}]
  /\ fdMapMutex \in Threads \cup {NoThread}
  /\ infoMutex \in [Addrs -> Threads \cup {NoThread}]
  /\ client \in [Slots -> Fds \cup {NoFd}]
  /\ maxi \in -1..FdSetSize
  /\ allset \in SUBSET Fds
  /\ th \in [Threads -> Locals]
  /\ alive \in BOOLEAN
  /\ owner \in [Addrs -> Conns \cup {NoConn}]

\* init_ipv4_pool and the set-up of do_server, up to pthread_create.
ServerStateInit ==
  /\ info = [a \in Addrs |-> NewUserInfo]
  /\ fdMap = [f \in Fds |-> NoInfo]
  /\ fdMapMutex = NoThread
  /\ infoMutex = [a \in Addrs |-> NoThread]
  /\ client = [s \in Slots |-> NoFd]
  /\ maxi = -1
  /\ allset = {}
  /\ th = [t \in Threads |-> Fresh(IF t = Main THEN "copy" ELSE "sleep", 0)]
  /\ alive = TRUE
  /\ owner = [a \in Addrs |-> NoConn]

Unlocked(a) == infoMutex[a] = NoThread

\* The connection a descriptor denotes; a write to -1 finds none.
ConnOf(f) == IF f = NoFd THEN NoConn ELSE conn[f]

\* A method of User_Info on record a, from label "at" of thread t to "next".
InfoStep(t, at, a, new, next) ==
  /\ At(t, at)
  /\ Unlocked(a)
  /\ info' = [info EXCEPT ![a] = new]
  /\ Goto(t, next)
  /\ UNCHANGED <<net, fdMap, owner, mutexes, watch, alive>>

\* The call of thread t ends, with the descriptors of "closed" closed and the
\* messages of "read" consumed.  A connection lives as long as a descriptor or
\* a call in progress refers to it: close(f) does not end the call that another
\* thread has made on f.  Closing a descriptor that is not open changes nothing.
EndCall(t, closed, read) ==
  LET used == backlog \cup {conn[f] : f \in Fds \ closed}
                      \cup {th[u].to : u \in Threads \ {t}}
      gone == {c \in Conns \ used : peer[c] # "idle"}
  IN
  /\ conn' = [f \in Fds |-> IF f \in closed THEN NoConn ELSE conn[f]]
  /\ peer' = [c \in Conns |-> IF c \in gone THEN "gone" ELSE peer[c]]
  /\ inbox' = [c \in Conns |->
                 IF c \in gone \cup read THEN "none" ELSE inbox[c]]
  /\ full' = full \ gone
  /\ UNCHANGED <<backlog, asked>>

---------------------------------------------------------------------------
(* User_Info::mutex_write_FD and Write_nByte *)

\* Takes the record's mutex and enters write on this->fd, which only a thread
\* with the mutex changes.
LockWrite(t) ==
  LET a == th[t].rec IN
  /\ At(t, "lockwrite")
  /\ Unlocked(a)
  /\ infoMutex' = [infoMutex EXCEPT ![a] = t]
  /\ th' = [th EXCEPT ![t].pc = "write", ![t].to = ConnOf(info[a].fd)]
  /\ UNCHANGED <<net, tables, fdMapMutex, watch, alive>>

\* write blocks while the peer's buffer is full.  On a bad descriptor it
\* fails.  On a connection the peer has reset it raises SIGPIPE, which nothing
\* handles (Write_nByte retries a failed write once, so an error that came
\* with ECONNRESET ends in SIGPIPE too).
WriteReturns(t) ==
  /\ alive
  /\ th[t].to # NoConn => Writable(th[t].to)
  /\ alive' = (th[t].to = NoConn \/ peer[th[t].to] # "reset")

UnlockWrite(t) ==
  LET a == th[t].rec IN
  /\ At(t, "write")
  /\ WriteReturns(t)
  /\ infoMutex' = [infoMutex EXCEPT ![a] = NoThread]
  /\ th' = [th EXCEPT ![t].pc = IF t = Main THEN "served" ELSE "reset",
                      ![t].to = NoConn]
  /\ EndCall(t, {}, {})
  /\ UNCHANGED <<tables, fdMapMutex, watch>>

---------------------------------------------------------------------------
(* User_Tables::free_resource_of_fd.  The record is looked up in a critical *)
(* section of its own (get_user_info_by_fd); the one that frees it comes    *)
(* later, and locks the record inside fd_map_mutex.                         *)

AfterFree(t) == IF t = Main THEN "served" ELSE "clr"

LookupByFd(t) ==
  /\ At(t, "lookup")
  /\ fdMapMutex = NoThread
  /\ th' = [th EXCEPT ![t].pc = "freelock", ![t].rec = fdMap[th[t].fd]]
  /\ UNCHANGED <<net, tables, mutexes, watch, alive>>

\* Who holds fd_map_mutex after the check that there is something to free, and
\* a faulty variant: the early return forgets to unlock.
HeldAfterCheckForgets(t, nothing) == t
HeldAfterCheck(t, nothing) == IF nothing THEN NoThread ELSE t

LockFdMap(t) ==
  LET a == th[t].rec
      nothing == a = NoInfo \/ info[a].fd = NoFd
  IN
  /\ At(t, "freelock")
  /\ fdMapMutex = NoThread
  /\ fdMapMutex' = HeldAfterCheck(t, nothing)
  /\ Goto(t, IF nothing THEN AfterFree(t) ELSE "free")
  /\ UNCHANGED <<net, tables, infoMutex, watch, alive>>

\* fd_map_info without fd, and a faulty variant: the entry stays.
ReleaseFdInfoMapForgotten(m, f) == m
ReleaseFdInfoMap(m, f) == [m EXCEPT ![f] = NoInfo]

FreeAndRelease(t) ==
  LET a == th[t].rec IN
  /\ info' = [info EXCEPT ![a] = FreeResource(@)]
  /\ fdMap' = ReleaseFdInfoMap(fdMap, th[t].fd)
  /\ fdMapMutex' = NoThread
  /\ Goto(t, AfterFree(t))
  /\ UNCHANGED <<net, owner, infoMutex, watch, alive>>

\* Faulty variant: freeResource does not lock the record's mutex.
FreeWithoutLock(t) == At(t, "free") /\ FreeAndRelease(t)

FreeUnderLock(t) ==
  /\ At(t, "free")
  /\ Unlocked(th[t].rec)
  /\ FreeAndRelease(t)

---------------------------------------------------------------------------
(* clr_FD_SET, and the assignment client[i] = -1 that goes with it *)

\* Faulty variant: the descriptor stays in the set.
ClrFdSetForgotten(t) ==
  /\ At(t, "clr")
  /\ Goto(t, IF t = Main THEN "unslot" ELSE "slot")
  /\ UNCHANGED <<net, tables, mutexes, watch, alive>>

ClrFdSet(t) ==
  /\ At(t, "clr")
  /\ allset' = allset \ {th[t].fd}
  /\ Goto(t, IF t = Main THEN "unslot" ELSE "slot")
  /\ UNCHANGED <<net, tables, mutexes, client, maxi, alive>>

\* The main thread goes on to free the lease, the other one has done so.  A
\* faulty variant: the main thread does not.
AfterUnslotNoFree(t) == IF t = Main THEN "served" ELSE "close"
AfterUnslot(t) == IF t = Main THEN "lookup" ELSE "close"

\* Faulty variant: the descriptor stays in the array.
ClearSlotForgotten(t) ==
  /\ At(t, "unslot")
  /\ th[t].idx \in Slots
  /\ Goto(t, AfterUnslot(t))
  /\ UNCHANGED <<net, tables, mutexes, watch, alive>>

ClearSlot(t) ==
  /\ At(t, "unslot")
  /\ th[t].idx \in Slots
  /\ client' = [client EXCEPT ![th[t].idx] = NoFd]
  /\ Goto(t, AfterUnslot(t))
  /\ UNCHANGED <<net, tables, mutexes, maxi, allset, alive>>

SharedStep(t) ==
  \/ LockWrite(t)
  \/ UnlockWrite(t)
  \/ LookupByFd(t)
  \/ LockFdMap(t)
  \/ FreeUnderLock(t)
  \/ ClrFdSet(t)
  \/ ClearSlot(t)

=============================================================================
