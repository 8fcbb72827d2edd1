# Verification of the 4over6 server

TLA+ models of the program in `src/`, model-checked with TLC, and theorems
about them proved with TLAPS.

The program is a server for IPv4 over IPv6. A client connects by TCP over IPv6
and exchanges messages with it: 100 asks for an IPv4 address, 101 answers it,
102 carries an IPv4 packet from the client, 103 one to the client, 104 keeps the
connection alive in either direction. The server leases each client an address
of a pool (10.0.0.3 to 10.0.0.254), forwards its packets through a raw socket,
and forwards the packets that come back for that address to the connection that
holds the lease. A second thread sends keep-alive messages and takes back the
lease of a client that has been silent for 30 seconds.

## Inventory

| Component | Source | State | Operations |
|---|---|---|---|
| Lease record (`User_Info`) | `4over6_util.cpp` 5-67, 150-154 | `fd`, `state`, `count`, `secs`, a mutex | set, free, count down, restart, time-out, sign of life, write under the mutex |
| Lease table (`User_Tables`) | `4over6_util.cpp` 69-148, 156-171 | `v4_map_info`, `fd_map_info`, `fd_map_mutex` | find a free address, find by address, find by descriptor, insert, release, free all that belongs to a descriptor |
| Connection bookkeeping | `4over6_server.cpp` 13-17, 108-121, 153-160; `4over6_util.cpp` 173-182 | `client[]`, `maxi`, `allset`, `rset`, `nready` | add and remove a descriptor |
| Server loop | `4over6_server.cpp` | program counter and static locals | select, accept, packets from the raw sockets, requests of clients |
| Keep-alive thread | `keep_alive_thread.cpp` | program counter, place in the pool | count down, send, time out and tear down |
| Message framing | `do_response`, `recv_server` | bytes read so far | header, payload, short reads |
| Frame writer | `Write_nByte`, `mutex_write_FD`, `process_packet` | bytes written so far | write, short writes, retry |
| Android client | `android_client_back.cpp` | `flag`, `info`, the tunnel's descriptor | request an address, receive, keep alive, write to the tunnel |
| Traffic record (`GlobalRecord`) | `4over6_util.h` 84-104 | four counters | carry |
| Test client | `test_client.cpp` | one packet, built once | build a DNS question, a datagram and its checksums; answer every message with it |
| Experiments | `test_ip_queue.cpp`, `test_server_nat.cpp` | none that lasts | not linked with the server |
| Start-up, build, address translation | `main.cpp`, `nat.sh`, build files | none | - |

How they interact. The two threads share the lease table, the records, `allset`
and `client[]`. The records and the table have a mutex each; `set_FD_SET` and
`clr_FD_SET` take `allset_mutex`, but the copy `rset = allset` does not; nothing
protects `client[]`. A descriptor number is the key of everything, and the kernel
hands the same number out again as soon as it is closed.

What is hard. Either thread may tear a connection down (the main thread after an
end of file, the other one after a time-out), in several steps under several
mutexes or none. Values are read in one critical section and used in another.
Calls block: select, accept, read (the sockets are blocking), and write, the
last one inside a record's mutex, which free_resource_of_fd waits for while it
holds `fd_map_mutex`. A write to a connection that has been reset raises SIGPIPE,
which nothing handles, and ends the process. Two clocks that are not compared
with each other, one of passes and one of seconds, decide on both ends whether
the other end is alive. And the test client writes for every message it reads, so
that client and server may wait for each other with every buffer full.

What makes the components correct:

- lease table: an address has one holder at a time and changes hands only by
  being given back; the two maps agree; a lease ends some time after its
  connection;
- lease record: a write on its descriptor is not overtaken by a change of the
  lease; the countdown does not miss 0;
- bookkeeping: what is open is what is watched and served, once; the array is
  not left;
- server loop: a call that can block is made when there is something to get;
  a packet goes to the connection that holds the address;
- keep-alive thread: only the silent are disconnected, and all of them in time;
- mutexes: every one is let go of in the end;
- message framing: what is handled is what was sent, whole, in order, once,
  however TCP cuts it; what is read fits into `struct Msg`; the end of the stream
  is noticed;
- frame writer: what goes out on a connection is a sequence of whole messages, and
  a write that fails is given up;
- Android client: while `flag` is up there is a lease; both threads end when the
  server has gone; a silent server is noticed;
- traffic record: no byte is lost by a carry;
- test client: its packet asks what it was told to ask and is accepted, which
  depends on what its checksum is computed over; what goes
  round between it and the server stays within what was put in.

`PROJECT.json` lists the places where this can go wrong ("hazards").

## Modules

| Module | Models |
|---|---|
| `Sockets` | (external) connections, descriptors, what peers do: connect, send, close, reset, stop reading |
| `UserInfo` | `struct User_Info` and its methods, as operators on a record |
| `ServerState` | what the threads share, and the procedures both call: `mutex_write_FD`, `free_resource_of_fd`, `clr_FD_SET`, the end of a connection |
| `ServerLoop` | the main thread: `do_server`, `do_response`, `process_packet` and the handlers |
| `KeepAliveThread` | `keep_alive_thread` and `sendKeepAlive` |
| `LeasePool` | abstract: what an address pool promises |
| `Server` | the composition, the fairness, the properties |
| `MCServer` | the instance for TLC |
| `ServerProofs` | theorems about the server on every interleaving, and their proofs |
| `ApartProofs` | theorems about the server when the two threads keep apart, and their proofs |
| `Framing` | `do_response` as a reader of a byte stream; the reads of `recv_server` |
| `MessageChannel` | abstract: what framing promises |
| `AndroidClient` | `do_android_client`, `recv_server` and its handlers, `client_keep_alive_thread`; uses the steps of `Framing`, the record of `UserInfo` and the count of `TrafficRecord` |
| `FrameWriter` | `Write_nByte` called by two threads, with and without the mutex, with writes that are cut short and writes that fail |
| `TrafficRecord` | `GlobalRecord::update` |
| `KeepAliveTiming` | `keep_alive_thread` against the clock and against either client's answers: counters, silence, delays |
| `Tunnel` | the loop of `do_client`, the server's two threads and the IPv4 network, with finite buffers |
| `DnsQuery` | `get_dns_request`, the datagram of `udp_checksum`, and (external) the question as a DNS server reads it |
| `Checksum` | `in_cksum`, for a word of any size, and (external) what a receiver of UDP makes of it |
| `TestClient` | the test client from its start: builds the packet (`DnsQuery`), then enters the `Tunnel` |
| `MCFraming`, `MCAndroidClient`, `MCFrameWriter`, `MCKeepAliveTiming`, `MCTestClient` | their instances for TLC |
| `FramingProofs`, `ClientProofs`, `FrameProofs`, `KeepAliveProofs`, `TunnelProofs`, `TestClientProofs` | theorems about these modules and their proofs |

How state and actions correspond to the code, in the server:

- A thread is `th[t]`: a label `pc` and the locals that live across steps (`fd`
  for `sockfd`, `connfd` or `fd`; `rec` for the `User_Info*` in hand; `idx` for
  `i`; `it` for the keep-alive thread's iterator; `to` for the connection a read
  or write in progress was called for). Locals are reset where they die.
- One action is one access to shared state, one critical section that cannot
  block inside, or one system call. Two accesses that the code makes without a
  common mutex are two actions: `ReadState` and `ReadFd` in the keep-alive
  thread, `RecvPacket`, `ReadPacketFd` and `EnterPacketWrite` in
  `process_packet`, `FindReady` (`sockfd = client[i]`) and `EnterRead` in the loop
  over `client[]`, `LookupByFd` and `LockFdMap` in `free_resource_of_fd`,
  `GetFreeV4Addr`, `SetInfo` and `SetFdInfoMap` in `reply_ipv4_request`. Two
  actions look at more than one place. `LockWrite` takes the record's mutex
  and looks `this->fd` up, because only a thread with that mutex changes the
  field, and a close before the look-up has the same effect as one before the
  mutex is taken. `FindReady` passes over the entries of `client[]` that are not in
  `rset`: the other thread only ever clears entries, and -1 is passed over as well.
- A mutex that is taken and released inside one action needs no state: the
  action is enabled when it is free. `fdMapMutex` and `infoMutex` are state because they
  are held across actions. `allset_mutex` never is, and `CopyAllset` does not
  wait for it.
- `secs` is modelled by its age; `Tick` is the clock.
- `conn[f]` is the connection descriptor f stands for. `EndCall` closes
  descriptors: a connection lives as long as a descriptor or a call in progress
  refers to it. The descriptor may be another connection's by then, as in the
  kernel.
- `owner[a]` is a history variable: the connection that address was leased to.
- `reported[f]` is a history variable too: the connection `select` reported under
  descriptor f, which another one may have taken over by the time it is read from.
- Errors the code goes on after are steps: select with a closed descriptor
  (`SelectFails`: the set is left as it was and `nready` is -1, so the loop goes to
  accept, and from there to the next iteration; nothing is read), accept without
  a free descriptor (`AcceptFails`: -1 goes into `client[]` and `FD_SET(-1)` sets
  any one bit or none), a search of `client[]` that finds no room (`FoundSlot` is
  `FD_SETSIZE`), a read of the element past the end of `client[]` (`FindReady`: any
  descriptor that is in rset), a store to it (`ClearPastEnd`), SIGPIPE (`alive`
  becomes FALSE).
- What lies behind `client[]` is up to the build. Compiled as the `Makefile` says,
  `client[FD_SETSIZE]` is the first word of `rset`, with optimisation it is `nready`;
  `ClearPastEnd` allows both: -1 there means that the iteration is over, or that
  the low descriptors are set in `rset` for the rest of it.

Left out of these modules: logging, `getpeername` and `addr_v6` (only printed),
`maxfd` (descriptors are below it), `incCount`, `i`, `pool_size`, `ipv4_used` and
`operator<` on `in6_addr` (never used), what is inside a packet, the `sendto` on the
raw socket (nothing depends on its result), and the bytes of a message: in these
modules a message arrives whole, which is what `Framing` shows of a stream that
is not cut short.

In the other modules:

- A byte of the stream is the pair of its message and its place in it, so that a
  byte that ends up in the wrong place is seen. The kernel hands a reader any
  prefix of what is asked for (`SendByte` and `ReadReturns`: what has arrived by
  then). `pc` in `Framing` is the place in `do_response`; `msg` and `n` are its
  variables; the header has one byte for the length, one for the type and the
  rest for the padding of `struct Msg_Hdr`.
- The length in a header is whatever the peer says, and neither `do_response` nor
  `recv_server` compares it with the room in `struct Msg`. A read that stores past
  that room leads to `pc` = "overrun", where the reader stops: what the program does
  then is up to the build, and nothing is claimed of it. Shorter messages have to
  fit (`FitsInMsg`).
- A read looks its descriptor up when it is called (`EnterRead`): a read that was
  waiting when the keep-alive thread closed the descriptor waits on.
- `n` is compared with an unsigned size in the loop for the header
  (`LessUnsigned`) and with a 32-bit length, as signed 64-bit numbers, in the
  loop for the payload.
- `AndroidClient` takes the reads of `Framing` over; its `pc` adds the places
  outside `recv_server`, `keeper` is the place in `client_keep_alive_thread`. The
  server of this model answers the one request at most once, and sends packets of
  any length and keep-alives, also before the answer: a keep-alive thread that is
  past `needSendKeepAlive` writes to the record that the request is granted, and a
  lease left behind under the number of the descriptor brings its packets.
- `FrameWriter` has one action for a byte the kernel takes and one for the return
  of a write, early or not. A write that fails adds -1 to `n`, and the next one
  begins one byte earlier (`error_check.cpp` 112); `link` says what it finds: a
  descriptor closed by the other thread, a reset to report, or SIGPIPE.
- `KeepAliveTiming` makes a pass of a thread one step, and gives it 1 to `MaxPass`
  ticks of the clock; `KeepAliveThread` and `AndroidClient` take the same pass
  apart. A message under way is its age. `lease` and `own` are records of `UserInfo`,
  the same operators as in the server.
- `Tunnel` makes a message one element of a bounded buffer; a write waits for room,
  and the main thread waits for the record's mutex where `setLatestTime` and
  `mutex_write_FD` take it. A packet in the network is a number: it comes back,
  with or without delay, or is lost.
- In `DnsQuery` characters and bytes are numbers; the question is built label by
  label as in the code, `countp` is the place of the count of the label under way.
  `Checksum` adds the carries back twice, as `in_cksum` does after its loop; the word
  is a parameter so that the theorem is about any.
- `TrafficRecord` counts with natural numbers: `unsigned long long` counters of GB
  do not overflow.

Left out of them: the pipes between the client and its Java side (the answer is
one step, `EstablishTun`), the printing of addresses, the write to the tunnel; of
the test client the reads that return less than a message (it does not look), the
IPv4 header, `printmessage`, which prints and nothing else (and is called on
`reqBuf`, line 330, not on the buffer that has just been filled), and what stands
after the `return` of `get_dns_request` (line 349).

## Runs

The configurations of the server use `MCServer`. They say `CHECK_DEADLOCK FALSE` because the
system may really stop: after SIGPIPE there is no process. `Conns` are symmetric
model values in the safety runs.

| Run | Specification | Instance | Shows |
|---|---|---|---|
| `ServerRaces` | `Spec` | 2 connections, 2 descriptors, 2 addresses, requests and signs of life | `KeepAliveNotSkipped`, `AcceptWaitsOnStale`, `NoMutexCycle`, `PoolSpec`, `WriteKeepsLease` under every interleaving |
| `ServerLimits` | `ApartSpec` | 3 connections, 1 descriptor, so that accept fails, 2 entries of `client[]`, 1 address | `StaysInClientArray`: `client[FD_SETSIZE]` is neither read nor written |
| `ServerApart` | `ApartSpec` | 2 connections, 2 descriptors, 2 addresses, one raw socket | `ConnectionsServed`, `LeaseHasConnection`, `MapMatchesTable`, `PacketGoesToLessee`, `ReadWaitsForNewcomer`, `SilentIsClosed` |
| `ServerTable` | `FairSpec` | 1 connection whose peer may stop reading, all messages, one raw socket | `TableLetGo` |
| `ServerLeases` | `FairSpec` | 2 connections on 1 descriptor, 1 entry of `client[]`, 2 addresses; the peers may stop reading | `DeadLeaseGivenBack` |
| `PacketStray` | `Spec` | 2 connections, 1 address, one raw socket | `PacketGoesToLessee` is violated |
| `Framing` | `FairFramingSpec` | 3 messages with payloads of 0, 2 and 3 bytes and room for 2, a header of 3; the stream ends anywhere, the descriptor may be closed at any point | `FitsInMsg`, `ChannelSpec` (implements `MessageChannel`), `SentIsHandled`, `GarbledIsLast` |
| `EndIgnored` | `FairFramingSpec` | 1 message, which may be cut short | `EndIsClosed` is violated |
| `AndroidClient` | `FairClientSpec` | the address and 2 more messages, a header of 2 bytes, a packet too long for `struct Msg` among the messages | `FitsInMsg`, `FlagMeansLeased`, `HandledInOrder`, `NothingLost`, `CarriedOver`, `ChannelSpec` (the client implements `MessageChannel`), `ClientEnds`, `KeeperEnds`, `SilenceEnds` |
| `FrameWriter` | `FairFrameSpec` | 2 messages of each thread: replies and packets of 3 bytes, the packets without the mutex, and keep-alives of 2; a connection that may be reset or closed at any point | `GuardedWhole`, `ThreadsWhole`, `WriteEnds` |
| `KeepAliveTiming` | `TimingSpec` | both clients; 2 passes of 1 or 2 ticks to a keep-alive, messages of up to 2 ticks, a start of up to 3, and the least `MaxTimeDur` that is `Timely` (12) | `KeptAlive`, `SilenceNoticed` |
| `TestClient` | `TestClientSpec` | 4 names, 4 values left in the field of the checksum, one of them the right checksum for one of the names; buffers of 2 and 1 messages, 2 keep-alives, 3 packets from outside | `QuestionReadsBack`, `AcceptedLeftovers`, `OnePacketEach`, `StuckOnlyWhenFull`, `AnsweredOrStuck` |

The runs of the other modules stop at their bounds on messages, or because a
connection or the client is done: they say `CHECK_DEADLOCK FALSE` too, but for
`KeepAliveTiming`, where time always goes on.

Bounds. `MaxFd`, `PoolSize` and `FdSetSize` are the sizes of the tables; two of each
let two connections meet and one be reused, one of each makes every limit
reachable: in `ServerLeases` accept fails while the one entry of `client[]` is in use,
so the search finds no room and the loop leaves the array. A connection is used
once, so a descriptor that is reused takes a second connection and a third makes
a reuse of a reuse (`ServerLimits`). `StaysInClientArray` holds with fewer
descriptors than entries, as in the server where a process has 1024 of each by
default and some are open from the start; on `Spec` the threads can leave entries
of closed descriptors behind, and with four connections TLC finds it violated. One
message at a time waits to be read (a second one would be read by a later
iteration in the same way). `MaxRequests` bounds address requests; one is what
the clients in the repository send; with two TLC finds `SilentIsClosed` violated
(see Findings). The properties of `ServerApart` that hold for any number of requests are
proved for any number (see Proofs).
`MaxCounter` = 1 makes a keep-alive due at every pass of the thread and
`MaxTimeDur` = 1 makes one tick of the clock a time-out: with larger values the
same steps happen after more idle passes. The passes run shorter or longer than
the server's 10 and 30 seconds relative to each other because `Tick` and the
thread are independent.

`MaxSent` = 3 messages let a read end in the message before, in and after another
one. Payloads of 0 bytes (the read asks for nothing and returns 0) and of more
than one (which can be cut) are the cases `do_response` tells apart, and one byte
more than there is room for is the least that does not fit; a header of 3
bytes can be cut before and after its type. The client's runs take a header of
2 bytes and no cut at the end, which is for `Framing` to show. With a unit of 2 two
packets of 2 bytes carry through two counters of `TrafficRecord`; the theorem is
about any unit and any number of packets.

In `FrameWriter` 3 and 2 bytes let a write be cut in several places and the count
come down to 0 over several failures; two messages of each thread let one be
written inside another one, and another one after it. In `KeepAliveTiming` `MaxTimeDur` is the least
number for which the theorem holds; one less, and TLC finds `KeptAlive` violated.
In `TestClient` buffers of 2 and 1 messages are filled by 2 keep-alives and 3
packets from outside with nothing to spare: `Stuck` is reached, and
`StuckOnlyWhenFull` is met with equality, so that one packet more for a keep-alive
would break it. The names have dots at the ends, together and not at all, and one
whose sum carries again after the carries have been added back. All of them fit
into the packet's `buf[512]` (`TestClientAssumption`). What is left in the field of
the checksum is 0, all ones, the right checksum of the question for
www.baidu.com, over which `in_cksum` gives 0, and something else.

### The two threads apart

`Overlap` is the state in which both threads have the same descriptor in hand,
`ApartSpec` the behaviours in which that never happens. Nothing in the code
prevents it: `ApartSpec` separates what goes wrong only through that race from
what is wrong anyway. Under `Spec` the properties of `ServerApart` do not hold:
the keep-alive thread tears a descriptor down while the main thread grants a
lease on it or closes it, and its number may be another connection's by then.
For `ReadWaitsForNewcomer` this takes a third connection: the late close of the
keep-alive thread hits the second one, which has taken over the number, and
leaves its entry in `client[]`; the third one gets the number and an entry of its
own, the loop serves it twice for one report of `select`, and the main thread
waits in read for a client that has its address (three connections on one
descriptor, two entries of `client[]`, one address, one request each).
`PacketStray` keeps one such case: the keep-alive thread tears a descriptor down
while the main thread is between `setUserInfo` and `set_fd_info_map`. It finds
nothing to free under the descriptor and closes it; the lease stays behind under
a number that the next connection is given, and with it come the packets for
the address. Or the lease is lost: no entry of `fd_map_info` leads to it, and neither
thread can free it any more. `DeadLeaseGivenBack` is about every schedule and
names that case (`Orphan`); without it TLC finds the property violated.

### Fairness

`FairSpec` assumes weak fairness of each thread (the kernel schedules both, and
a thread at a step that can be taken takes it) and of the clock; strong fairness
of a write that waits for room, because a peer may fill and drain its buffer again
and again while the write waits, and the kernel lets a blocked write have the
room it finds. Nothing is assumed of the peers: none need send, close or reset
anything, and one that has stopped reading need never go on (`Stall` without
`Drain`). A write to such a client then blocks for good, with the mutex of a record;
`TableLetGo` and `DeadLeaseGivenBack` name that outcome. The first says that nothing
else keeps `fd_map_mutex` locked; the second that a silent lease of a dead
connection is given back, unless it is an `Orphan`.
`FairFramingSpec` and `FairClientSpec` assume that the kernel schedules the
threads, the second also that time passes; peers need not send anything.
`FairFrameSpec` assumes that the kernel schedules each writer and finds room for its
next byte in the end (the peer reads, or the connection is given up).

`TunnelFairness` is weak fairness of the client, the main thread and the write of
a keep-alive. The network owes nothing, and the keep-alive thread need not begin.
Weak fairness is enough there,
although room in a buffer and the mutex may be taken away from a thread that
waits: each message a keep-alive puts where the main thread wanted to write costs
the client two messages that only the main thread reads, until all are `Stuck`,
which the property names; and while the keep-alive thread holds the mutex the
main thread gets no further than the client's next message. No step of
`KeepAliveTiming` needs fairness: its properties are invariants, and `Tick` waits for
what the bounds say is due.

### Findings

`PacketStray` and `EndIgnored` show behaviours of the code that contradict what a
message in it says; `PROJECT.json` quotes each. The properties name more cases in
their statements:

- `AcceptWaitsOnStale`: the main thread may block in accept with no connection
  pending, after `select` has failed on a descriptor the keep-alive thread closed;
- `ReadWaitsForNewcomer`: it may block in read on a connection that was accepted
  under the number of another one, which select had reported;
- `TableLetGo`: a client that stops reading for good keeps `fd_map_mutex` locked for
  good, and with it both threads, when its lease is torn down while the other
  thread writes to it;
- `DeadLeaseGivenBack`: a lease is lost when its descriptor is torn down between
  `setUserInfo` and `set_fd_info_map`;
- `FitsInMsg`: a message longer than `struct Msg` has room for is stored past its
  end, in the server and in the client, which is sent packets of any length;
- `ClientEnds`: a client whose keep-alive thread closes the descriptor inside a
  payload never ends;
- `GarbledIsLast`: a header of which the last bytes are missing may be taken for
  whole;
- `StuckOnlyWhenFull`: client, main thread and keep-alive thread may wait for each
  other for good, after as many keep-alives as fill the buffers;
- `AcceptedLeftovers`: the checksum of the test client is accepted only when the
  field held 0, all ones or the right checksum by chance.

Others are in the models without a property of their own: a client that asks twice
has a lease that is never renewed, and its time-out ends the connection
(`SilentIsClosed` with `MaxRequests` = 2); `free_resource_of_fd` may free a record that
has been leased to another descriptor since it was looked up, and
`keep_alive_thread` disconnect a client that got its address after the check of the
silence; `write_tun` writes to the tunnel after saying
that it is down (`RecvIpv4Packet` does not look at `flag`); packets are written
without the mutex that keeps messages whole (`Unguarded`), so a keep-alive can end
up inside a packet. What is left of the stream's order is `GuardedWhole`, the
messages that take the mutex are whole among themselves, and `ThreadsWhole`, so
are those of one thread. One suspicion is refuted: a failed write makes the next
one begin one byte earlier, but on one connection no write succeeds after one
that failed, so no shifted byte goes out (`ThreadsWhole`), and every message is
given up in the end (`WriteEnds`).

## Proofs

`ServerProofs` proves, for all values of the constants that satisfy the
assumptions (`SocketsAssumption`, `UserInfoAssumption`, `ServerAssumption`,
`RawFdsAssumption`: sizes are positive numbers, message kinds are known,
`NoConn` is no connection):

- `TypeCorrect`: `Spec => []TypeOK`;
- `KeepAlive`: `Spec => []KeepAliveNotSkipped`;
- `WriteKeepsLeaseThm`: `Spec => WriteKeepsLease`;
- `AcceptKnowsWhy`: `Spec => []AcceptWaitsOnStale`: the main thread comes to
  accept only from `select`, and until it gets there the others only close
  descriptors and add to the backlog;
- `NoDeadlock`: `Spec => []NoMutexCycle`. `MutexInv` says where a thread is that holds a
  mutex: with `fd_map_mutex` it is at "free", with a record's it is in `write`. No
  other step takes a mutex and keeps it (`HoldsNone`), so whoever is waited for
  waits at most for a write;
- `PoolImplemented`: `Spec => PoolSpec`, the refinement of `LeasePool`.

None of these is inductive. The inductive invariant is
`IInv == TypeOK /\ ThreadsInv /\ RecordsInv`:

- `ThreadsInv`: what each thread has in hand at each label (`ThreadOK`: at "setinfo"
  there is a record and a descriptor, at "lookup" a descriptor, at "state"
  the keep-alive thread stands at an address or past the last ...), and what backs it (`Backed`: a
  write in progress is covered by the record's mutex; the record the main
  thread is about to set is still FREE; a countdown at 0 is being restarted by
  the keep-alive thread). `TypeOK` needs it: that `FreeUnderLock` writes a record at
  all needs a record in hand.
- `RecordsInv`: a record is FREE iff it has no descriptor, and its count is not
  negative. `PoolSpec` needs it: `get_free_v4_addr` looks at `state`, the pool at
  `fd`. The key step is that nothing but `SetInfo`, which only the main thread
  takes, makes a FREE record used: the keep-alive thread may free the record
  between `GetFreeV4Addr` and `SetInfo`, but not lease it.

There is a lemma for every action that shows it preserves `IInv`, under it one
step for each conjunct it can disturb; `NextInv` puts them together, and
`Invariance` is the temporal step. `WriteKeepsLeaseThm` and `PoolImplemented`
follow from `IInv` and `FdsKept`, which says what steps may do to the
descriptors of the records. `TypeCorrect` bounds the index into `client[]` by
`FD_SETSIZE`, the place past its end included.

`ApartProofs` proves the properties of `ServerApart` on the schedules of `ApartSpec`, for
any number of connections, descriptors, addresses, raw sockets and entries of
`client[]`:

- for any number of requests: `MapsAgree`, `WatchedAndServed`, `NeverPastEnd`
  (`[]StaysInClientArray`) and `WaitsForNewcomer`. The last three also assume that `FD_SETSIZE` is at least the number of descriptors
  (`FdSetSize >= MaxFd`) and that accept never fails for want of a descriptor
  (`[][~AcceptFails]_vars`); `DescriptorsSuffice` proves the latter where there are as
  many descriptors as connections, as in the run;
- for clients that ask once (`MaxRequests <= 1`), as those in the repository do:
  `LeasesKept`, `PacketsReachLessee` and `TimedOutIsSilent`. They do not hold with two
  requests: the second lease takes the place of the first in `fd_map_info`, and the
  first is never renewed and never given back.

There are three invariants, of which each strengthens the one before, and a fourth
beside them:

- `TableInv` is `IInv`, that `fd_map_info` leads only to records of the descriptor it is
  asked for (`MapOK`), that a connection has one descriptor (`ConnsOK`), and what is
  known of the descriptor a thread has in hand (`MainOK`, `KeeperOK`). It says nothing
  of a lease to which the map does not lead: the connection may be closed
  before it, and the keep-alive thread then closes a descriptor that is not open.
- `WatchedInv` adds that what is open is in `allset` and once in `client[]`, except while
  a thread has it in hand (`SlotsOK`, `AllsetOK`, `ClientOK`, `HandOK`). A new connection
  finds an entry by the pigeonhole principle (`RoomForClient`).
- `DueInv` adds that what `select` reported and the loop has not come to can still be
  read, or is another connection's by now: the history `reported` has the one
  that was reported, and no connection that is closed is accepted again (`DueOK`,
  `RsetOK`, `ArrivalOK`); and that the count in `nready` does not turn negative in the
  loop (`CountOK`).
- `LeaseTableInv` adds to `TableInv` that the map leads to every lease, or will do so
  after `set_fd_info_map` (`LeasesOK`). A request is read only of a connection without
  a lease (`AsksOK`), so `setUserInfo` and `set_fd_info_map` find no entry of an earlier
  one; each tear-down frees exactly the lease of its descriptor before the thread
  is done with it (`MainLeaseOK`, `KeeperLeaseOK`). The bound on requests is used in one
  step, the one in which a client sends (`PeerLeases`).

`FramingProofs` proves `ReadsFit` (`[]FitsInMsg`), `HandedOver` (`[]GarbledIsLast`) and
`ChannelImplemented`, the refinement of `MessageChannel`, for any
messages, size of header and cut of the stream into reads, with or without a
descriptor closed by the other thread. It assumes that types 100 and 104 are
sent with length 0 (`WellFormed`), as `keep_alive_thread.cpp` 10,
`android_client_back.cpp` 204 and `test_client.cpp` 171 and 401 do: the reader does not
read a payload for them. `FramingInv` says of the bytes that have been sent and not
yet read that they continue those in `msg` (`WireOK`, `ReaderOK`), of a read in
progress where it looks (`CallOK`), and of a reader that has missed a byte that it
handles at most one more message. Nothing is assumed of the lengths of the
messages: what `ReadsFit` needs is that the place of a read and the count it asks
for add up to the length in the header, whose bytes are those of the message
under way. `FramingType` is the type invariant. The refinement also needs `BytesSent`: a message
that fills `msg` has been sent to its last byte, so the channel has it.

`FrameProofs` proves, for any threads, kinds of message, sizes and number of
messages, and any of the kinds written without the mutex: `FrameType`
(`[]FrameTypeOK`), `GuardedWritesKeepFrames` (`[]GuardedWhole`) and `ThreadsKeepFrames`
(`[]ThreadsWhole`). The last two rest on one invariant. A class is a set of messages of which one
is written at a time: those under the mutex, and those of one thread.
`ClassInv` says of a class that on the stream, with everything else left out, its
last byte is the last one the writer in progress has counted, or ends a message;
`WritersInv` that the mutex is held exactly while its holder writes, and that while
the connection is up no write has failed.

`ClientProofs` proves, for any messages, sizes and interleaving of the client's two
threads and the server:

- `TrafficExact` and `TrafficCarried`: `ClientSpec => [](NothingLost /\ CarriedOver)`, for
  any unit. The lemmas about `update` end in `CountPacketKeeps`; `CarriedOver` is what
  makes it right that `update` stops at the first counter that does not carry.
  `ClientInv` adds that what has arrived, and what is in `msg`, are bytes of messages
  that have been sent, so that the length that is counted is the length of a
  message;
- `ClientHandedOver`: `[]HandledInOrder`, under `WellFormed`, from `FramingInv`: every step
  of the client is a read of `Framing`, or a move between two messages;
- `FlagMeansLease`: `[]FlagMeansLeased`. `LeaseInv` needs that the address is handled
  once, and that `client_keep_alive_thread` starts after it; it uses that what is
  handled is what was sent, so it rests on `FramingInv`;
- `ClientReadsFit`: `[]FitsInMsg`, as in the server;
- `ClientImplementsChannel`: `ClientSpec => ChannelSpec`, under `WellFormed`: the client
  implements `MessageChannel` too. A step of the server that completes a message
  is a `Send`, the end of the handler a `Receive`, and all others are silent
  (`ReadIsSilent`, `LoopIsSilent`), the close by the other thread and a `read` that
  times out among them;
- `ClientType`: `[]ClientTypeOK`.

`KeepAliveProofs` proves, for every `MAX_COUNTER`, `MAX_TIME_DUR` and bounds on passes,
delays and the start of the tunnel:

- `TimelyIsKeptAlive`: `[]KeptAlive` for those that are `Timely`,
  `MaxStart + Period + 2 * MaxDelay < MaxTimeDur`. With 10, 30 and passes of one
  second, threads, network and Java side together may be late by about 20 seconds;
- `SilenceIsNoticed`: `[]SilenceNoticed`, for those whose tunnel starts in less than
  `MaxTimeDur`, on time or not;
- `SilentLeaseIsTakenBack`, whatever the pace: `[]TimingTypeOK`, and that the server
  takes the lease of a silent client back within `MaxTimeDur` and one pass.

`TimingInv` bounds the age of each record by what is next to renew it: the age of
the oldest message under way, or what is left of the count in passes, plus the
wait for them; and the silence by the age of the records. `PaceInv` is the part of
it that needs no bound to hold.

`TunnelProofs` proves `OnePacketForEach` and `StuckNeedsFullBuffers`, for buffers of any
size and any number of keep-alives and packets. `TunnelInv` has two sums that no
step raises but a new keep-alive and a packet from outside: `Rounds` counts the
packets on their way and the keep-alives that will be answered with one, `Filling`
what fills the buffers and what the threads in the middle of something will add.
The lemmas on `CountOf` say what appending and taking off do to the count of a
type; `Asking` accounts for the one request.

`TestClientProofs` proves two properties of the packet, for every set of names that fit
into it. `ReceiverChecksLeftover` is `TestClientSpec => []AcceptedLeftovers`, for everything
the field of the checksum may hold. A receiver of UDP does not check a field of
0 (`Accepts`), and `in_cksum` gives 0 over a field that holds the right checksum. The
argument has four parts:

- `ChecksumNeedsCleanField`: for any sum that two words hold, its checksum is
  accepted if and only if the field held 0, all ones or the checksum of the rest:
  folding keeps the residue modulo `Word - 1`;
- `SumOfCleanField`: the checksum over a clear field is that of the rest, so the third
  case is the right checksum;
- `SumsAgree`: what `udp_checksum` adds up, with the addresses the other way round, and
  what the receiver adds up differ in the field only, and are more than 0 and less
  than two words, since the pseudo header has the protocol and the packet at most
  504 bytes. `WordSum` is a fold over a set of words, whose order does not matter
  (`TakeOut`);
- `RequestIsBytes`: what `get_dns_request` writes are bytes, at most 18 more than the
  name has.

`QuestionIsRead` is `TestClientSpec => []QuestionReadsBack`, for names whose labels have less
than 192 characters (`Short`). A DNS server takes a larger count for a reference,
and `get_dns_request` puts no bound on them; a label in a DNS name has at most 63. What
is proved by induction over the characters is `Standing`: the labels of what has been
read so far stand in `buf` one after the other, each after its count (`Encodes`), and
`countp` is the count of the last one (`InLabel`) or a 0 behind them (`AfterDot`).
A second induction, over the labels from the last to the first, shows that
the reader finds them (`LabelsAreRead`).

The names are taken apart and read by recursive functions, and the community
modules define their folds by recursion over sets. `RecursionHasValues` shows that
such a recursion has a value at all when some bounded measure gets smaller, and
`AllNumbers` is induction for a set; the two stand in for the theorems of the library
that take an operator as a parameter. For that `ReadQuestion` ends with the message.
`TestClientKeepsTunnel` has the
properties of `Tunnel` for the client from its start: `[]TunnelTypeOK`,
`[]OnePacketEach` and `[]StuckOnlyWhenFull`.

Only model-checked:

- liveness, which needs ENABLED: `TableLetGo`, `DeadLeaseGivenBack`, `SentIsHandled`,
  `WriteEnds`, `AnsweredOrStuck`, `ClientEnds`, `KeeperEnds`, `SilenceEnds`.

Every invariant and every action property of the passing runs is stated by a
theorem.

## Not modelled

- `test_ip_queue.cpp` and `test_server_nat.cpp`: experiments that are not linked with
  the server. They hand packets between two kernel interfaces and keep nothing
  between them.
- `main.cpp`, `nat.sh`, the build files and the creation of sockets: they run once,
  before the first state of `Server`; a failure there ends the process.
- Of `process_packet`: the size of a packet, which is not compared with the room in
  `struct Msg` before it is copied there (`4over6_server.cpp` 40).
- Of the test client: `printmessage` (no state, no decision) and the code after the
  `return` of `get_dns_request`. Its reads are taken for whole
  messages, which its code does not make sure of: a short read leaves it out of
  step with the stream, and no property claims anything of that.
- Of the Android client: the pipes to the Java side and the calls that set up the
  tunnel, which are one step or none.
- Of the wrappers in `error_check.cpp` and `unp.h`: those that only print and exit.

## What is left

- The test client's single reads, with the stream of `Framing` under `Tunnel`.
