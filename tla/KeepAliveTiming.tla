-------------------------- MODULE KeepAliveTiming --------------------------
(***************************************************************************)
(* Keep-alives and silence against the clock: one leased connection from   *)
(* the moment the server grants the lease.  The server's keep_alive_thread *)
(* and the Android client's client_keep_alive_thread each make a pass      *)
(* about once a second, send a 104 every MaxCounter passes, and give the   *)
(* connection up when their record has not been renewed for MaxTimeDur.    *)
(* The Android client takes a 104 of the server as a sign of life and does *)
(* not answer it; the test client has no thread, and answers each of them. *)
(*                                                                         *)
(* A pass is one step here, since its steps share the mutexes only with    *)
(* short calls; KeepAliveThread and AndroidClient take it apart.  What the *)
(* code calls seconds are ticks; a pass comes 1 to MaxPass ticks after the *)
(* one before (sleep(1) and the time the pass takes), a message is handled *)
(* at most MaxDelay ticks after it was sent.                               *)
(***************************************************************************)
EXTENDS UserInfo, FiniteSets

CONSTANTS
  Clients,     \* the clients considered: "android", "test"
  MaxPass,     \* bound: ticks from one pass of a thread to the next
  MaxDelay,    \* bound: ticks from sending a message to handling it
  MaxStart     \* bound: ticks establish_tun waits for the Java side

ASSUME TimingAssumption ==
  /\ Clients \subseteq {"android", "test"}
  /\ MaxPass \in Nat \ {0}
  /\ MaxDelay \in Nat
  /\ MaxStart \in Nat
  /\ MaxCounter > 1

VARIABLES
  kind,        \* the client that is connected
  status,      \* where that client stands, see Statuses
  lease,       \* the server's record of the connection
  own,         \* the Android client's record of the server
  up,          \* the ages of the 104s under way to the server
  down,        \* the ages of the 104s under way to the client
  link,        \* the connection, see Links
  silent,      \* ticks since they do not, history
  serverWait,  \* ticks since the last pass of the server's thread
  clientWait   \* ticks since the client's status or its thread's last pass

messages == <<up, down>>
timingVars == <<kind, status, lease, own, messages, link, silent, serverWait,
                clientWait>>

\* asking: the 101 is under way; starting: establish_tun waits for the Java
\* side; running; quit: client_keep_alive_thread has given the server up.
Statuses == {"asking", "starting", "running", "quit"}

\* dead: the peers do not reach each other any more, and no one is told.
\* closed: a side has closed it before that.
Links == {"up", "dead", "closed"}

TheFd == 1

Records == UserInfoType({TheFd})

Period == MaxCounter * MaxPass
Limit == MaxTimeDur + MaxPass

TimingTypeOK ==
  /\ kind \in Clients /\ status \in Statuses /\ link \in Links
  /\ lease \in Records /\ own \in Records
  /\ up \subseteq 0..MaxDelay /\ down \subseteq 0..MaxDelay + MaxStart
  /\ silent \in 0..Limit
  /\ serverWait \in 0..MaxPass /\ clientWait \in Nat

\* reply_ipv4_request has leased the address and writes the 101.  The server's
\* thread may be anywhere between two passes.
TimingInit ==
  /\ kind \in Clients
  /\ status = "asking"
  /\ lease = SetUserInfo(TheFd)
  /\ own = NewUserInfo
  /\ up = {} /\ down = {}
  /\ link = "up"
  /\ silent = 0
  /\ serverWait \in 0..MaxPass
  /\ clientWait = 0

---------------------------------------------------------------------------
(* One pass over a record *)

Sends(r) == NeedSendKeepAlive(DecCount(r))

\* Faulty variant: the thread's own message renews the record.
AfterSendRenews(r) == SetLatestTime(ResetCount(r))
AfterSend(r) == ResetCount(r)

AfterPass(r) == IF Sends(r) THEN AfterSend(DecCount(r)) ELSE DecCount(r)

\* The messages under way when a pass over r has sent one, or not.
WithSent(S, r) == IF Sends(r) /\ link = "up" THEN S \cup {0} ELSE S

ServerPass ==
  /\ serverWait > 0
  /\ serverWait' = 0
  /\ lease.state = "USED" /\ ~IsTimeOut(lease)
  /\ lease' = AfterPass(lease)
  /\ down' = WithSent(down, lease)
  /\ UNCHANGED <<kind, status, own, up, link, silent, clientWait>>

\* state == FREE: continue.
ServerSkips ==
  /\ serverWait > 0
  /\ serverWait' = 0
  /\ lease.state = "FREE"
  /\ UNCHANGED <<kind, status, lease, own, messages, link, silent, clientWait>>

\* A side closes the connection.
CloseIt ==
  /\ link' = IF link = "up" THEN "closed" ELSE link
  /\ up' = {} /\ down' = {}

ServerTimesOut ==
  /\ serverWait > 0
  /\ serverWait' = 0
  /\ lease.state = "USED" /\ IsTimeOut(lease)
  /\ lease' = FreeResource(lease)
  /\ CloseIt
  /\ UNCHANGED <<kind, status, own, silent, clientWait>>

\* while(flag) of client_keep_alive_thread.
ThreadRuns == kind = "android" /\ status = "running"

ClientPass ==
  /\ ThreadRuns
  /\ clientWait > 0
  /\ clientWait' = 0
  /\ ~IsTimeOut(own)
  /\ own' = AfterPass(own)
  /\ up' = WithSent(up, own)
  /\ UNCHANGED <<kind, status, lease, down, link, silent, serverWait>>

ClientTimesOut ==
  /\ ThreadRuns
  /\ clientWait > 0
  /\ clientWait' = 0
  /\ IsTimeOut(own)
  /\ own' = FreeResource(own)
  /\ status' = "quit"
  /\ CloseIt
  /\ UNCHANGED <<kind, lease, silent, serverWait>>

---------------------------------------------------------------------------
(* Messages *)

\* recv_ipv4_addr sets the client's record; the test client has none.
ReceiveAddress ==
  /\ status = "asking" /\ link = "up"
  /\ clientWait' = 0
  /\ IF kind = "android"
     THEN status' = "starting" /\ own' = SetUserInfo(TheFd)
     ELSE status' = "running" /\ UNCHANGED own
  /\ UNCHANGED <<kind, lease, messages, link, silent, serverWait>>

\* The Java side has sent the descriptor of the tunnel: the thread begins, and
\* do_android_client goes on reading.
StartThread ==
  /\ status = "starting"
  /\ status' = "running"
  /\ clientWait' = 0
  /\ UNCHANGED <<kind, lease, own, messages, link, silent, serverWait>>

\* The 104 that was sent first is handled first.
Oldest(S, m) == m \in S /\ \A x \in S : x <= m

\* do_keep_alive of the client, and the first branch of do_client.
\* Faulty variant: the Android client does not renew its record.
ToClientUnheard(r) == r
ToClient(r) == SetLatestTime(r)

ClientReceives(m) ==
  /\ status = "running" /\ Oldest(down, m)
  /\ down' = down \ {m}
  /\ IF kind = "android"
     THEN own' = ToClient(own) /\ UNCHANGED up
     ELSE up' = up \cup {0} /\ UNCHANGED own
  /\ UNCHANGED <<kind, status, lease, link, silent, serverWait, clientWait>>

\* do_keep_alive of the server.
ServerReceives(m) ==
  /\ Oldest(up, m)
  /\ up' = up \ {m}
  /\ lease' = SetLatestTime(lease)
  /\ UNCHANGED <<kind, status, own, down, link, silent, serverWait, clientWait>>

---------------------------------------------------------------------------
(* Time, and the end of the connection *)

\* A peer is gone, or the network between them, and no one is told.
GoSilent ==
  /\ link = "up"
  /\ link' = "dead" /\ up' = {} /\ down' = {}
  /\ UNCHANGED <<kind, status, lease, own, silent, serverWait, clientWait>>

Later(S) == {x + 1 : x \in S}

\* What the client waits for comes in time: the 101, the Java side, a pass.
ClientWaits ==
  \/ status = "asking" /\ link = "up"
  \/ status = "starting"
  \/ ThreadRuns

WaitsAtMost ==
  CASE status = "asking" -> MaxDelay
    [] status = "starting" -> MaxStart
    [] OTHER -> MaxPass

Tick ==
  /\ serverWait < MaxPass
  /\ ClientWaits => clientWait < WaitsAtMost
  /\ \A x \in up : x < MaxDelay
  /\ status = "running" => \A x \in down : x < MaxDelay
  /\ lease' = Older(lease) /\ own' = Older(own)
  /\ up' = Later(up) /\ down' = Later(down)
  /\ serverWait' = serverWait + 1
  /\ clientWait' = IF ClientWaits THEN clientWait + 1 ELSE clientWait
  /\ silent' = IF link # "up" /\ silent < Limit THEN silent + 1 ELSE silent
  /\ UNCHANGED <<kind, status, link>>

TimingNext ==
  \/ ServerPass \/ ServerSkips \/ ServerTimesOut
  \/ ClientPass \/ ClientTimesOut
  \/ ReceiveAddress \/ StartThread
  \/ \E m \in down : ClientReceives(m)
  \/ \E m \in up : ServerReceives(m)
  \/ GoSilent
  \/ Tick

TimingSpec == TimingInit /\ [][TimingNext]_timingVars

---------------------------------------------------------------------------
(* Properties *)

\* How much slower the threads, the network and the Java side may be: with 10,
\* 30 and passes of 1 second they have about 20 seconds.
Timely == MaxStart + Period + 2 * MaxDelay < MaxTimeDur

\* As long as the peers reach each other, neither gives the other up: a 104
\* comes early enough (MAX_COUNTER against MAX_TIME_DUR) on both sides,
\* although each thread counts its own passes and nothing repeats a 104.
KeptAlive == link # "closed"

\* When they do not reach each other any more, the server takes the lease back,
\* and the Android client ends, no later than the first pass after MaxTimeDur.
SilenceNoticed ==
  /\ lease.state = "USED" => silent < Limit
  /\ ThreadRuns => silent < Limit

=============================================================================
