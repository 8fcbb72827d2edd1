-------------------------- MODULE KeepAliveProofs --------------------------
(***************************************************************************)
(* Whatever the constants of the code and the speed of the threads and the *)
(* network: as long as the peers reach each other and Timely holds, none   *)
(* gives the other up, and when they do not, both notice.                  *)
(***************************************************************************)
EXTENDS KeepAliveTiming, TLAPS

\* How long ago the last 104 was sent at most: the passes since, and the time
\* since the last pass.
Passed(r, wait) == (MaxCounter - r.count) * MaxPass + wait

\* A record is older than the oldest message under way by at most b.
Lag(S, age, b) == \A d \in Nat : (\A x \in S : x <= d) => age <= d + b

Leased == lease.state = "USED" /\ lease.count \in 1..MaxCounter

Owned == own.state = "USED" /\ own.count \in 1..MaxCounter

Heard == kind = "android" /\ status \in {"starting", "running"}

WaitsOK ==
  /\ ClientWaits => clientWait <= WaitsAtMost
  /\ Heard => Owned
  /\ status = "starting" => kind = "android"
  /\ status = "asking" => \A x \in down : x <= clientWait
  /\ status = "starting" => \A x \in down : x <= MaxDelay + clientWait

\* From the server to the client: the 101, then the 104s.
DownInv ==
  /\ Heard =>
       /\ down = {} => own.age <= Passed(lease, serverWait)
       /\ Lag(down, own.age, Period)
  /\ status = "running" =>
       own.age <= MaxStart \/ \A x \in down : x <= MaxDelay

\* Before the client has answered or sent anything.
AskingInv ==
  status = "asking" => up = {} /\ lease.age <= clientWait

\* To the server, from a client that answers each 104.
AnswerInv ==
  kind = "test" \/ status = "asking" =>
    /\ up = {} /\ down = {} => lease.age <= Passed(lease, serverWait)
    /\ up = {} => Lag(down, lease.age, Period)
    /\ Lag(up, lease.age, Period + MaxDelay)

\* To the server, from a client that sends 104s of its own.
ThreadInv ==
  kind = "android" =>
    /\ status = "starting" => up = {} /\ lease.age <= MaxDelay + clientWait
    /\ status = "running" =>
         /\ up = {} =>
              lease.age <= MaxDelay + MaxStart + Passed(own, clientWait)
         /\ Lag(up, lease.age, MaxDelay + MaxStart + Period)

UpInv ==
  link = "up" => Leased /\ DownInv /\ AskingInv /\ AnswerInv /\ ThreadInv

\* A record that is not renewed any more grows old with the silence.
Silent(r, wait) ==
  \/ r.age < MaxTimeDur /\ silent <= r.age
  \/ r.age = MaxTimeDur /\ silent < MaxTimeDur + wait

SilentInv ==
  /\ link = "up" => status # "quit" /\ silent = 0
  /\ link # "up" => up = {} /\ down = {}
  /\ lease.state = "USED" => Silent(lease, serverWait)
  /\ MaxStart < MaxTimeDur =>
       /\ Heard /\ status = "starting" =>
            own.age = clientWait /\ silent <= own.age
       /\ ThreadRuns => Silent(own, clientWait)

\* What holds at any pace of the threads, the network and the Java side.
PaceInv == TimingTypeOK /\ WaitsOK /\ SilentInv

\* What holds when they are Timely.
TimingInv == PaceInv /\ UpInv /\ link # "closed"

---------------------------------------------------------------------------
(* Lemmas on the operators *)

LEMMA Constants ==
  /\ MaxCounter \in Nat /\ MaxCounter > 1
  /\ MaxPass \in Nat /\ MaxPass > 0
  /\ MaxTimeDur \in Nat /\ MaxTimeDur > 0
  /\ MaxDelay \in Nat /\ MaxStart \in Nat
  /\ Period \in Nat /\ Limit \in Nat /\ Limit = MaxTimeDur + MaxPass
<1>1. /\ MaxCounter \in Nat /\ MaxCounter > 1
      /\ MaxPass \in Nat /\ MaxPass > 0
      /\ MaxTimeDur \in Nat /\ MaxTimeDur > 0
      /\ MaxDelay \in Nat /\ MaxStart \in Nat
  BY TimingAssumption, UserInfoAssumption
<1> QED BY <1>1 DEF Period, Limit

\* What the methods of User_Info do to a record.
LEMMA RecordFacts ==
  ASSUME NEW r \in Records
  PROVE  /\ r.age \in 0..MaxTimeDur /\ r.count \in Int
         /\ SetLatestTime(r) \in Records
         /\ SetLatestTime(r).age = 0
         /\ SetLatestTime(r).count = r.count
         /\ SetLatestTime(r).state = r.state
         /\ Older(r) \in Records
         /\ Older(r).count = r.count /\ Older(r).state = r.state
         /\ r.age < MaxTimeDur => Older(r).age = r.age + 1
         /\ r.age = MaxTimeDur => Older(r).age = r.age
         /\ FreeResource(r) \in Records
         /\ FreeResource(r).state = "FREE"
         /\ IsTimeOut(r) <=> r.age = MaxTimeDur
BY Constants
DEF Records, UserInfoType, SetLatestTime, Older, FreeResource, NewUserInfo, IsTimeOut

LEMMA NewRecords ==
  /\ NewUserInfo \in Records /\ NewUserInfo.state = "FREE"
  /\ SetUserInfo(TheFd) \in Records
  /\ SetUserInfo(TheFd).state = "USED"
  /\ SetUserInfo(TheFd).count = MaxCounter
  /\ SetUserInfo(TheFd).age = 0
BY Constants DEF Records, UserInfoType, SetUserInfo, NewUserInfo

\* What a pass does to a record.
LEMMA PassFacts ==
  ASSUME NEW r \in Records
  PROVE  /\ AfterPass(r) \in Records
         /\ AfterPass(r).age = r.age /\ AfterPass(r).state = r.state
         /\ Sends(r) <=> r.count = 1
         /\ Sends(r) => AfterPass(r).count = MaxCounter
         /\ ~Sends(r) => AfterPass(r).count = r.count - 1
<1> DEFINE d == DecCount(r)
<1>1. /\ d \in Records
      /\ d.age = r.age /\ d.state = r.state /\ d.count = r.count - 1
      /\ r.count \in Int
  BY Constants DEF Records, UserInfoType, DecCount
<1>2. Sends(r) <=> r.count = 1
  BY <1>1 DEF Sends, NeedSendKeepAlive
<1> HIDE DEF d
<1>3. /\ ResetCount(d) \in Records
      /\ ResetCount(d).age = d.age /\ ResetCount(d).state = d.state
      /\ ResetCount(d).count = MaxCounter
  BY <1>1, Constants DEF Records, UserInfoType, ResetCount
<1>4. AfterPass(r) = IF Sends(r) THEN ResetCount(d) ELSE d
  BY DEF AfterPass, AfterSend, d
<1> QED BY <1>1, <1>2, <1>3, <1>4

\* The time since the last 104 that a count stands for.
LEMMA PassedFacts ==
  ASSUME NEW r \in Records, r.count \in 1..MaxCounter,
         NEW w \in 0..MaxPass
  PROVE  /\ Passed(r, w) \in Nat /\ Passed(r, w) <= Period
         /\ ~Sends(r) => Passed(r, w) <= Passed(AfterPass(r), 0)
<1> DEFINE c == r.count
<1>1. c \in 1..MaxCounter /\ MaxCounter \in Nat /\ MaxPass \in Nat
  BY Constants
<1>2. (MaxCounter - c) * MaxPass \in Nat
  <2>1. MaxCounter - c \in Nat
    BY <1>1
  <2> QED BY <1>1, <2>1
<1>3. (MaxCounter - (c - 1)) * MaxPass = (MaxCounter - c) * MaxPass + MaxPass
  BY <1>1
<1>4. (MaxCounter - c) * MaxPass + MaxPass <= MaxCounter * MaxPass
  <2>1. MaxCounter * MaxPass
          = (MaxCounter - c) * MaxPass + (c - 1) * MaxPass + MaxPass
    BY <1>1
  <2>2. (c - 1) * MaxPass \in Nat
    <3>1. c - 1 \in Nat
      BY <1>1
    <3> QED BY <1>1, <3>1
  <2> HIDE DEF c
  <2> QED BY <1>1, <1>2, <2>1, <2>2
<1>5. Passed(r, w) = (MaxCounter - c) * MaxPass + w
  BY DEF Passed
<1>6. ~Sends(r) => Passed(AfterPass(r), 0) = (MaxCounter - (c - 1)) * MaxPass
  <2>1. ~Sends(r) => AfterPass(r).count = c - 1
    BY PassFacts
  <2>2. (MaxCounter - (c - 1)) * MaxPass \in Nat
    BY <1>1, <1>2, <1>3
  <2> QED BY <2>1, <2>2 DEF Passed
<1> HIDE DEF c
<1> QED BY <1>1, <1>2, <1>3, <1>4, <1>5, <1>6 DEF Period

LEMMA LagAtZero ==
  ASSUME NEW S, NEW b \in Nat
  PROVE  Lag(S, 0, b)
BY DEF Lag

LEMMA LagOfSent ==
  ASSUME NEW S, NEW a, NEW b, Lag(S, a, b)
  PROVE  Lag(S \cup {0}, a, b)
BY DEF Lag

LEMMA LagBounds ==
  ASSUME NEW S, NEW a, NEW b, Lag(S, a, b), NEW d \in Nat,
         \A x \in S : x <= d
  PROVE  a <= d + b
BY DEF Lag

LEMMA LagLater ==
  ASSUME NEW S \in SUBSET Nat, NEW a \in Nat, NEW b \in Nat, NEW c \in Nat,
         c <= a + 1, Lag(S, a, b), S = {} => c <= b
  PROVE  Lag(Later(S), c, b)
<1> SUFFICES ASSUME NEW d \in Nat, \A x \in Later(S) : x <= d
             PROVE  c <= d + b
  BY DEF Lag
<1>1. CASE S = {}
  BY <1>1
<1>2. CASE S # {}
  <2>1. \A x \in S : x + 1 <= d
    BY DEF Later
  <2>2. d - 1 \in Nat /\ \A x \in S : x <= d - 1
    <3>1. PICK y \in S : y \in Nat
      BY <1>2
    <3>2. d - 1 \in Nat
      BY <2>1, <3>1
    <3> QED BY <2>1, <3>2
  <2>3. a <= (d - 1) + b
    BY <2>2, LagBounds
  <2> QED BY <2>3
<1> QED BY <1>1, <1>2

LEMMA LaterFacts ==
  ASSUME NEW S \in SUBSET Nat
  PROVE  /\ Later(S) \in SUBSET Nat
         /\ Later(S) = {} <=> S = {}
         /\ \A d \in Nat : (\A x \in S : x < d) => Later(S) \subseteq 0..d
         /\ \A d \in Nat : (\A x \in S : x <= d) =>
              \A y \in Later(S) : y <= d + 1
BY DEF Later

\* What the invariant says of the types, in the form the steps use.
LEMMA TypeFacts ==
  ASSUME PaceInv
  PROVE  /\ lease \in Records /\ own \in Records
         /\ lease.age \in Nat /\ own.age \in Nat
         /\ up \in SUBSET Nat /\ down \in SUBSET Nat
         /\ \A x \in up : x <= MaxDelay
         /\ silent \in Nat /\ silent <= Limit
         /\ serverWait \in 0..MaxPass /\ clientWait \in Nat
<1>1. TimingTypeOK
  BY DEF PaceInv
<1>2. up \in SUBSET Nat /\ down \in SUBSET Nat /\ \A x \in up : x <= MaxDelay
  BY <1>1, Constants DEF TimingTypeOK
<1> QED BY <1>1, <1>2, Constants, RecordFacts DEF TimingTypeOK

---------------------------------------------------------------------------
(* The steps *)

LEMMA TimingInitially == TimingInit => TimingInv
<1> SUFFICES ASSUME TimingInit PROVE TimingInv
  OBVIOUS
<1>1. /\ lease \in Records /\ own \in Records
      /\ lease.state = "USED" /\ lease.count = MaxCounter /\ lease.age = 0
  BY NewRecords DEF TimingInit
<1>2. TimingTypeOK
  BY <1>1, Constants DEF TimingInit, TimingTypeOK, Statuses, Links
<1>3. WaitsOK
  BY Constants DEF TimingInit, WaitsOK, WaitsAtMost, Heard
<1>4. UpInv
  <2>1. Leased
    BY <1>1, Constants DEF Leased
  <2>2. 0 <= Passed(lease, serverWait)
    BY <1>1, <2>1, PassedFacts DEF TimingInit, Leased
  <2>3. Period + MaxDelay \in Nat /\ Period \in Nat
    BY Constants
  <2>4. AnswerInv
    BY <1>1, <2>2, <2>3, LagAtZero DEF TimingInit, AnswerInv
  <2> QED BY <1>1, <2>1, <2>4 DEF TimingInit, UpInv, DownInv, AskingInv,
                                 ThreadInv, Heard
<1>5. SilentInv
  BY <1>1, Constants DEF TimingInit, SilentInv, Silent, ThreadRuns
<1> QED BY <1>2, <1>3, <1>4, <1>5 DEF TimingInv, PaceInv, TimingInit

LEMMA ServerPassPace ==
  ASSUME PaceInv, ServerPass
  PROVE  PaceInv'
<1> USE TypeFacts, Constants
<1>1. /\ serverWait' = 0 /\ lease' = AfterPass(lease)
      /\ UNCHANGED <<kind, status, own, up, link, silent, clientWait>>
      /\ lease.state = "USED" /\ lease.age < MaxTimeDur
  BY DEF ServerPass, IsTimeOut
<1>2. /\ lease' \in Records
      /\ lease'.age = lease.age /\ lease'.state = lease.state
  BY <1>1, PassFacts
<1>3. down' = down \/ (down' = down \cup {0} /\ link = "up")
  BY DEF ServerPass, WithSent
<1>4. TimingTypeOK'
  <2>1. 0 \in 0..MaxDelay + MaxStart /\ 0 \in 0..MaxPass
    OBVIOUS
  <2>2. down' \subseteq 0..MaxDelay + MaxStart
    BY <1>3, <2>1 DEF PaceInv, TimingTypeOK
  <2> QED BY <1>1, <1>2, <2>1, <2>2 DEF PaceInv, TimingTypeOK
<1>5. WaitsOK'
  <2>1. status = "asking" => \A x \in down' : x <= clientWait
    BY <1>3 DEF PaceInv, WaitsOK
  <2>2. status = "starting" => \A x \in down' : x <= MaxDelay + clientWait
    BY <1>3 DEF PaceInv, WaitsOK
  <2> QED BY <1>1, <2>1, <2>2 DEF PaceInv, WaitsOK, ClientWaits,
                                 WaitsAtMost, Heard, Owned, ThreadRuns
<1>6. SilentInv'
  <2>1. Silent(lease, serverWait)'
    BY <1>1, <1>2 DEF PaceInv, SilentInv, Silent
  <2> QED BY <1>1, <1>2, <1>3, <2>1 DEF PaceInv, SilentInv, ThreadRuns,
                                       Silent, Heard
<1> QED BY <1>4, <1>5, <1>6 DEF PaceInv

LEMMA ServerPassKeeps ==
  ASSUME TimingInv, ServerPass
  PROVE  UpInv'
<1> USE TypeFacts, Constants DEF TimingInv
<1>1. /\ serverWait' = 0 /\ lease' = AfterPass(lease)
      /\ UNCHANGED <<kind, status, own, up, link, silent, clientWait>>
      /\ lease.state = "USED" /\ lease.age < MaxTimeDur
  BY DEF ServerPass, IsTimeOut
<1>2. /\ lease' \in Records
      /\ lease'.age = lease.age /\ lease'.state = lease.state
  BY <1>1, PassFacts
<1>3. down' = down \/ (down' = down \cup {0} /\ link = "up")
  BY DEF ServerPass, WithSent
<1>4. UpInv'
  <2> SUFFICES ASSUME link = "up"
               PROVE  Leased' /\ (DownInv /\ AskingInv /\ AnswerInv
                                                    /\ ThreadInv)'
    BY <1>1 DEF UpInv
  <2>1. Leased /\ DownInv /\ AskingInv /\ AnswerInv /\ ThreadInv
    BY DEF UpInv
  <2>2. Leased'
    BY <1>1, <1>2, <2>1, PassFacts DEF Leased
  <2>3. down' = {} =>
          /\ down = {}
          /\ Passed(lease, serverWait) <= Passed(lease', serverWait')
    <3>1. Sends(lease) => down' # {}
      BY DEF ServerPass, WithSent
    <3> QED BY <1>1, <1>3, <2>1, <3>1, PassedFacts DEF Leased
  <2>4. /\ Passed(lease, serverWait) \in Nat
        /\ Passed(lease', serverWait') \in Nat
    <3>1. Passed(lease', 0) \in Nat
      BY <1>2, <2>2, PassedFacts DEF Leased
    <3> QED BY <1>1, <2>1, <3>1, PassedFacts DEF Leased
  <2>5. DownInv'
    <3>1. Heard => Lag(down', own.age, Period)
      BY <1>3, <2>1, LagOfSent DEF DownInv
    <3>2. Heard => (down' = {} => own.age <= Passed(lease', serverWait'))
      BY <2>1, <2>3, <2>4 DEF DownInv
    <3>3. status = "running" =>
            own.age <= MaxStart \/ \A x \in down' : x <= MaxDelay
      BY <1>3, <2>1 DEF DownInv
    <3> QED BY <1>1, <3>1, <3>2, <3>3 DEF DownInv, Heard
  <2>6. AskingInv' /\ ThreadInv'
    BY <1>1, <1>2, <2>1 DEF AskingInv, ThreadInv, Passed
  <2>7. AnswerInv'
    <3> SUFFICES ASSUME kind = "test" \/ status = "asking"
                 PROVE  /\ up = {} /\ down' = {} =>
                             lease.age <= Passed(lease', serverWait')
                        /\ up = {} => Lag(down', lease.age, Period)
                        /\ Lag(up, lease.age, Period + MaxDelay)
      BY <1>1, <1>2 DEF AnswerInv
    <3> QED BY <1>3, <2>1, <2>3, <2>4, LagOfSent DEF AnswerInv
  <2> QED BY <2>2, <2>5, <2>6, <2>7
<1> QED BY <1>4

LEMMA ServerSkipsPace ==
  ASSUME PaceInv, ServerSkips
  PROVE  PaceInv'
<1> USE TypeFacts, Constants
<1>1. /\ serverWait' = 0 /\ lease.state = "FREE"
      /\ UNCHANGED <<kind, status, lease, own, up, down, link, silent,
                     clientWait>>
  BY DEF ServerSkips, messages
<1> QED BY <1>1 DEF PaceInv, TimingTypeOK, WaitsOK, ClientWaits, WaitsAtMost,
          Heard, Owned, SilentInv, Silent, ThreadRuns

LEMMA ServerSkipsKeeps ==
  ASSUME TimingInv, ServerSkips
  PROVE  UpInv'
BY DEF ServerSkips, TimingInv, UpInv, Leased

\* A lease that times out belongs to peers that do not reach each other.
LEMMA LeaseIsYoung ==
  ASSUME TimingInv, Timely, link = "up"
  PROVE  lease.age < MaxTimeDur
<1> USE TypeFacts, Constants DEF TimingInv
<1>1. /\ Leased /\ AskingInv /\ AnswerInv /\ ThreadInv
      /\ status # "quit" /\ WaitsOK /\ kind \in Clients /\ status \in Statuses
  BY DEF PaceInv, SilentInv, TimingTypeOK, UpInv
<1>2. MaxStart + Period + 2 * MaxDelay < MaxTimeDur
  BY DEF Timely
<1>3. CASE status = "asking"
  <2>1. clientWait <= MaxDelay
    BY <1>1, <1>3 DEF WaitsOK, ClientWaits, WaitsAtMost
  <2> QED BY <1>1, <1>2, <1>3, <2>1 DEF AskingInv
<1>4. CASE kind = "test" /\ status # "asking"
  <2>1. lease.age <= MaxDelay + (Period + MaxDelay)
    BY <1>1, <1>4, LagBounds DEF AnswerInv
  <2> QED BY <1>2, <2>1
<1>5. CASE kind = "android" /\ status = "starting"
  <2>1. clientWait <= MaxStart
    BY <1>1, <1>5 DEF WaitsOK, ClientWaits, WaitsAtMost
  <2> QED BY <1>1, <1>2, <1>5, <2>1 DEF ThreadInv
<1>6. CASE kind = "android" /\ status = "running"
  <2>1. lease.age <= MaxDelay + (MaxDelay + MaxStart + Period)
    BY <1>1, <1>6, LagBounds DEF ThreadInv
  <2> QED BY <1>2, <2>1
<1> QED BY <1>1, <1>3, <1>4, <1>5, <1>6, TimingAssumption DEF Statuses

LEMMA ServerTimesOutPace ==
  ASSUME PaceInv, ServerTimesOut
  PROVE  PaceInv'
<1> USE TypeFacts, Constants
<1>1. /\ serverWait' = 0 /\ lease' = FreeResource(lease)
      /\ link' \in Links \ {"up"} /\ up' = {} /\ down' = {}
      /\ UNCHANGED <<kind, status, own, silent, clientWait>>
  BY DEF ServerTimesOut, CloseIt, PaceInv, TimingTypeOK, Links
<1>2. lease' \in Records /\ lease'.state = "FREE"
  BY <1>1, RecordFacts
<1> QED BY <1>1, <1>2 DEF PaceInv, TimingTypeOK, WaitsOK, ClientWaits,
          WaitsAtMost, Heard, Owned, SilentInv, Silent, ThreadRuns

LEMMA ServerTimesOutKeeps ==
  ASSUME TimingInv, Timely, ServerTimesOut
  PROVE  UpInv' /\ link' = link
<1>1. link # "up"
  BY LeaseIsYoung, RecordFacts, TypeFacts DEF ServerTimesOut, TimingInv
<1> QED BY <1>1 DEF ServerTimesOut, CloseIt, UpInv

\* The client's record, when its thread looks at it.
LEMMA OwnIsYoung ==
  ASSUME TimingInv, Timely, link = "up", ThreadRuns
  PROVE  own.age < MaxTimeDur
<1> USE TypeFacts, Constants DEF TimingInv
<1>1. /\ Lag(down, own.age, Period)
      /\ own.age <= MaxStart \/ \A x \in down : x <= MaxDelay
  BY DEF UpInv, DownInv, Heard, ThreadRuns
<1>2. MaxStart + Period + 2 * MaxDelay < MaxTimeDur
  BY DEF Timely
<1>3. CASE own.age <= MaxStart
  BY <1>2, <1>3
<1>4. CASE \A x \in down : x <= MaxDelay
  <2>1. own.age <= MaxDelay + Period
    BY <1>1, <1>4, LagBounds
  <2> QED BY <1>2, <2>1
<1> QED BY <1>1, <1>3, <1>4

LEMMA ClientPassPace ==
  ASSUME PaceInv, ClientPass
  PROVE  PaceInv'
<1> USE TypeFacts, Constants
<1>1. /\ clientWait' = 0 /\ own' = AfterPass(own) /\ clientWait > 0
      /\ UNCHANGED <<kind, status, lease, down, link, silent, serverWait>>
      /\ kind = "android" /\ status = "running" /\ own.age < MaxTimeDur
  BY DEF ClientPass, IsTimeOut, ThreadRuns
<1>2. /\ Heard /\ own.state = "USED" /\ own.count \in 1..MaxCounter
      /\ clientWait \in 0..MaxPass
  BY <1>1 DEF PaceInv, WaitsOK, ClientWaits, WaitsAtMost, ThreadRuns, Heard,
              Owned
<1>3. /\ own' \in Records
      /\ own'.age = own.age /\ own'.state = own.state
      /\ own'.count \in 1..MaxCounter
  BY <1>1, <1>2, PassFacts
<1>4. up' = up \/ (up' = up \cup {0} /\ link = "up")
  BY DEF ClientPass, WithSent
<1>5. TimingTypeOK'
  <2>1. 0 \in 0..MaxDelay
    OBVIOUS
  <2>2. up' \subseteq 0..MaxDelay
    BY <1>4, <2>1 DEF PaceInv, TimingTypeOK
  <2> QED BY <1>1, <1>3, <2>2 DEF PaceInv, TimingTypeOK
<1>6. WaitsOK'
  <2>1. 0 <= WaitsAtMost'
    BY <1>1 DEF WaitsAtMost
  <2> QED BY <1>1, <1>2, <1>3, <2>1 DEF WaitsOK, ClientWaits, Heard, Owned
<1>7. SilentInv'
  <2>1. MaxStart < MaxTimeDur => Silent(own, clientWait)'
    BY <1>1, <1>3 DEF PaceInv, SilentInv, Silent, ThreadRuns
  <2> QED BY <1>1, <1>4, <2>1 DEF PaceInv, SilentInv, Silent, ThreadRuns,
                                 Heard
<1> QED BY <1>5, <1>6, <1>7 DEF PaceInv

LEMMA ClientPassKeeps ==
  ASSUME TimingInv, ClientPass
  PROVE  UpInv'
<1> USE TypeFacts, Constants DEF TimingInv
<1>1. /\ clientWait' = 0 /\ own' = AfterPass(own) /\ clientWait > 0
      /\ UNCHANGED <<kind, status, lease, down, link, silent, serverWait>>
      /\ kind = "android" /\ status = "running" /\ own.age < MaxTimeDur
  BY DEF ClientPass, IsTimeOut, ThreadRuns
<1>2. /\ Heard /\ own.state = "USED" /\ own.count \in 1..MaxCounter
      /\ clientWait \in 0..MaxPass
  BY <1>1 DEF PaceInv, WaitsOK, ClientWaits, WaitsAtMost, ThreadRuns, Heard,
              Owned
<1>3. /\ own' \in Records
      /\ own'.age = own.age /\ own'.state = own.state
      /\ own'.count \in 1..MaxCounter
  BY <1>1, <1>2, PassFacts
<1>4. up' = up \/ (up' = up \cup {0} /\ link = "up")
  BY DEF ClientPass, WithSent
<1>5. UpInv'
  <2> SUFFICES ASSUME link = "up"
               PROVE  Leased' /\ (DownInv /\ AskingInv /\ AnswerInv
                                                    /\ ThreadInv)'
    BY <1>1 DEF UpInv
  <2>1. Leased /\ DownInv /\ AskingInv /\ AnswerInv /\ ThreadInv
    BY DEF UpInv
  <2>2. DownInv' /\ Leased' /\ AskingInv' /\ AnswerInv'
    <3>1. Leased' /\ AskingInv' /\ AnswerInv'
      BY <1>1, <2>1 DEF Leased, AskingInv, AnswerInv
    <3>2. Passed(lease, serverWait)' = Passed(lease, serverWait)
      BY <1>1 DEF Passed
    <3>3. DownInv'
      BY <1>1, <1>3, <2>1, <3>2 DEF DownInv, Heard
    <3> QED BY <3>1, <3>3
  <2>3. up' = {} =>
          up = {} /\ Passed(own, clientWait) <= Passed(own', clientWait')
    <3>1. Sends(own) => up' # {}
      BY DEF ClientPass, WithSent
    <3> QED BY <1>1, <1>2, <1>4, <3>1, PassedFacts
  <2>4. /\ Passed(own, clientWait) \in Nat
        /\ Passed(own', clientWait') \in Nat
    <3>1. Passed(own', 0) \in Nat
      BY <1>3, PassedFacts
    <3> QED BY <1>1, <1>2, <3>1, PassedFacts
  <2>5. ThreadInv'
    <3>1. Lag(up', lease.age, MaxDelay + MaxStart + Period)
      BY <1>1, <1>4, <2>1, LagOfSent DEF ThreadInv
    <3>2. up' = {} =>
            lease.age <= MaxDelay + MaxStart + Passed(own', clientWait')
      BY <1>1, <2>1, <2>3, <2>4 DEF ThreadInv
    <3> QED BY <1>1, <3>1, <3>2 DEF ThreadInv
  <2> QED BY <2>2, <2>5
<1> QED BY <1>5

LEMMA ClientTimesOutPace ==
  ASSUME PaceInv, ClientTimesOut
  PROVE  PaceInv'
<1> USE TypeFacts, Constants
<1>1. /\ clientWait' = 0 /\ own' = FreeResource(own) /\ status' = "quit"
      /\ link' \in Links \ {"up"} /\ up' = {} /\ down' = {}
      /\ UNCHANGED <<kind, lease, silent, serverWait>>
  BY DEF ClientTimesOut, CloseIt, PaceInv, TimingTypeOK, Links
<1>2. own' \in Records
  BY <1>1, RecordFacts
<1> QED BY <1>1, <1>2 DEF PaceInv, TimingTypeOK, Statuses, WaitsOK,
          ClientWaits, WaitsAtMost, Heard, SilentInv, Silent, ThreadRuns

LEMMA ClientTimesOutKeeps ==
  ASSUME TimingInv, Timely, ClientTimesOut
  PROVE  UpInv' /\ link' = link
<1>1. link # "up"
  BY OwnIsYoung, TypeFacts, Constants DEF ClientTimesOut, IsTimeOut, TimingInv
<1> QED BY <1>1 DEF ClientTimesOut, CloseIt, UpInv

LEMMA ReceiveAddressPace ==
  ASSUME PaceInv, ReceiveAddress
  PROVE  PaceInv'
<1> USE TypeFacts, Constants
<1>1. /\ status = "asking" /\ link = "up" /\ clientWait' = 0
      /\ UNCHANGED <<kind, lease, up, down, link, silent, serverWait>>
      /\ \/ /\ kind = "android" /\ status' = "starting"
            /\ own' = SetUserInfo(TheFd)
         \/ /\ kind # "android" /\ status' = "running" /\ own' = own
  BY DEF ReceiveAddress, messages
<1>2. /\ own' \in Records
      /\ kind = "android" => Owned' /\ own'.age = 0
  BY <1>1, NewRecords DEF Owned
<1>3. /\ silent = 0 /\ kind \in Clients
      /\ clientWait <= MaxDelay /\ \A x \in down : x <= clientWait
  BY <1>1 DEF PaceInv, SilentInv, TimingTypeOK, WaitsOK, ClientWaits,
              WaitsAtMost
<1>4. TimingTypeOK'
  BY <1>1, <1>2 DEF PaceInv, TimingTypeOK, Statuses
<1>5. WaitsOK'
  <2>1. 0 <= WaitsAtMost'
    BY <1>1 DEF WaitsAtMost
  <2> QED BY <1>1, <1>2, <1>3, <2>1, TimingAssumption
          DEF WaitsOK, Heard
<1>6. SilentInv'
  BY <1>1, <1>2, <1>3 DEF PaceInv, SilentInv, Silent, ThreadRuns, Heard
<1> QED BY <1>4, <1>5, <1>6 DEF PaceInv

LEMMA ReceiveAddressKeeps ==
  ASSUME TimingInv, ReceiveAddress
  PROVE  UpInv'
<1> USE TypeFacts, Constants DEF TimingInv
<1>1. /\ status = "asking" /\ link = "up" /\ clientWait' = 0
      /\ UNCHANGED <<kind, lease, up, down, link, silent, serverWait>>
      /\ \/ /\ kind = "android" /\ status' = "starting"
            /\ own' = SetUserInfo(TheFd)
         \/ /\ kind # "android" /\ status' = "running" /\ own' = own
  BY DEF ReceiveAddress, messages
<1>2. /\ own' \in Records
      /\ kind = "android" => Owned' /\ own'.age = 0
  BY <1>1, NewRecords DEF Owned
<1>3. /\ Leased /\ AskingInv /\ AnswerInv /\ kind \in Clients
      /\ clientWait <= MaxDelay /\ \A x \in down : x <= clientWait
  BY <1>1 DEF UpInv, PaceInv, TimingTypeOK, WaitsOK, ClientWaits, WaitsAtMost
<1>4. UpInv'
  <2>1. Passed(lease, serverWait)' = Passed(lease, serverWait)
    BY <1>1 DEF Passed
  <2>2. Passed(lease, serverWait) \in Nat
    BY <1>3, PassedFacts DEF Leased
  <2>3. DownInv'
    <3>1. kind = "android" => Lag(down, own'.age, Period)
      BY <1>2, LagAtZero
    <3>2. kind = "android" => own'.age <= Passed(lease, serverWait)
      BY <1>2, <2>2
    <3>3. \A x \in down : x <= MaxDelay
      BY <1>3
    <3> QED BY <1>1, <2>1, <3>1, <3>2, <3>3 DEF DownInv, Heard
  <2>4. AskingInv' /\ Leased'
    BY <1>1, <1>3 DEF AskingInv, Leased
  <2>5. AnswerInv'
    BY <1>1, <1>3, <2>1 DEF AnswerInv
  <2>6. ThreadInv'
    BY <1>1, <1>3 DEF ThreadInv, AskingInv
  <2> QED BY <1>1, <1>3, <2>3, <2>4, <2>5, <2>6 DEF UpInv
<1> QED BY <1>4

LEMMA StartThreadPace ==
  ASSUME PaceInv, StartThread
  PROVE  PaceInv'
<1> USE TypeFacts, Constants
<1>1. /\ status = "starting" /\ status' = "running" /\ clientWait' = 0
      /\ UNCHANGED <<kind, lease, own, up, down, link, silent, serverWait>>
  BY DEF StartThread, messages
<1>2. clientWait <= MaxStart /\ Heard /\ Owned /\ kind = "android"
  BY <1>1 DEF PaceInv, WaitsOK, ClientWaits, WaitsAtMost, Heard
<1>3. TimingTypeOK'
  BY <1>1 DEF PaceInv, TimingTypeOK, Statuses
<1>4. WaitsOK'
  <2>1. 0 <= WaitsAtMost'
    BY <1>1 DEF WaitsAtMost
  <2> QED BY <1>1, <1>2, <2>1 DEF WaitsOK, Owned
<1>5. MaxStart < MaxTimeDur =>
        own.age = clientWait /\ silent <= own.age /\ own.age < MaxTimeDur
  BY <1>1, <1>2 DEF PaceInv, SilentInv
<1>6. SilentInv'
  BY <1>1, <1>5 DEF PaceInv, SilentInv, Silent, ThreadRuns, Heard
<1> QED BY <1>3, <1>4, <1>6 DEF PaceInv

LEMMA StartThreadKeeps ==
  ASSUME TimingInv, Timely, StartThread
  PROVE  UpInv'
<1> USE TypeFacts, Constants DEF TimingInv
<1>1. /\ status = "starting" /\ status' = "running" /\ clientWait' = 0
      /\ UNCHANGED <<kind, lease, own, up, down, link, silent, serverWait>>
  BY DEF StartThread, messages
<1>2. clientWait <= MaxStart /\ Heard /\ Owned /\ kind = "android"
  BY <1>1 DEF PaceInv, WaitsOK, ClientWaits, WaitsAtMost, Heard
<1>3. own.age = clientWait /\ silent <= own.age /\ own.age < MaxTimeDur
  BY <1>1, <1>2 DEF PaceInv, SilentInv, Timely
<1>4. UpInv'
  <2> SUFFICES ASSUME link = "up"
               PROVE  Leased' /\ (DownInv /\ AskingInv /\ AnswerInv
                                                    /\ ThreadInv)'
    BY <1>1 DEF UpInv
  <2>1. Leased /\ DownInv /\ ThreadInv
    BY DEF UpInv
  <2>2. Leased' /\ AskingInv' /\ AnswerInv'
    BY <1>1, <1>2, <2>1 DEF Leased, AskingInv, AnswerInv
  <2>3. Passed(lease, serverWait)' = Passed(lease, serverWait)
    BY <1>1 DEF Passed
  <2>4. DownInv'
    BY <1>1, <1>2, <1>3, <2>1, <2>3 DEF DownInv, Heard
  <2>5. ThreadInv'
    <3>1. Passed(own', 0) \in Nat
      BY <1>1, <1>2, PassedFacts DEF Owned
    <3>2. up = {} /\ lease.age <= MaxDelay + MaxStart
      BY <1>1, <1>2, <2>1 DEF ThreadInv
    <3>3. Lag(up, lease.age, MaxDelay + MaxStart + Period)
      BY <3>2 DEF Lag
    <3> QED BY <1>1, <3>1, <3>2, <3>3 DEF ThreadInv
  <2> QED BY <2>2, <2>4, <2>5
<1> QED BY <1>4

LEMMA ClientReceivesPace ==
  ASSUME PaceInv, NEW m \in down, ClientReceives(m)
  PROVE  PaceInv'
<1> USE TypeFacts, Constants
<1>1. /\ status = "running" /\ down' = down \ {m}
      /\ UNCHANGED <<kind, status, lease, link, silent, serverWait, clientWait>>
      /\ \/ /\ kind = "android" /\ own' = SetLatestTime(own) /\ up' = up
         \/ /\ kind # "android" /\ own' = own /\ up' = up \cup {0}
  BY DEF ClientReceives, ToClient
<1>2. link = "up"
  BY DEF PaceInv, SilentInv
<1>3. /\ own' \in Records
      /\ own'.count = own.count /\ own'.state = own.state
      /\ kind = "android" => own'.age = 0
  BY <1>1, RecordFacts
<1>4. TimingTypeOK'
  <2>1. 0 \in 0..MaxDelay
    OBVIOUS
  <2>2. up' \subseteq 0..MaxDelay /\ down' \subseteq 0..MaxDelay + MaxStart
    BY <1>1, <2>1 DEF PaceInv, TimingTypeOK
  <2> QED BY <1>1, <1>3, <2>2 DEF PaceInv, TimingTypeOK
<1>5. WaitsOK'
  BY <1>1, <1>3 DEF PaceInv, WaitsOK, ClientWaits, WaitsAtMost, ThreadRuns,
                    Heard, Owned
<1>6. SilentInv'
  <2>1. silent = 0
    BY <1>2 DEF PaceInv, SilentInv
  <2> QED BY <1>1, <1>2, <1>3, <2>1 DEF PaceInv, SilentInv, Silent,
                                       ThreadRuns, Heard
<1> QED BY <1>4, <1>5, <1>6 DEF PaceInv

LEMMA ClientReceivesKeeps ==
  ASSUME TimingInv, NEW m \in down, ClientReceives(m)
  PROVE  UpInv'
<1> USE TypeFacts, Constants DEF TimingInv
<1>1. /\ status = "running" /\ down' = down \ {m}
      /\ UNCHANGED <<kind, status, lease, link, silent, serverWait, clientWait>>
      /\ \/ /\ kind = "android" /\ own' = SetLatestTime(own) /\ up' = up
         \/ /\ kind # "android" /\ own' = own /\ up' = up \cup {0}
  BY DEF ClientReceives, ToClient
<1>2. link = "up"
  BY DEF PaceInv, SilentInv
<1>3. /\ own' \in Records
      /\ own'.count = own.count /\ own'.state = own.state
      /\ kind = "android" => own'.age = 0
  BY <1>1, RecordFacts
<1>4. UpInv'
  <2>1. Leased /\ DownInv /\ AnswerInv /\ ThreadInv
    BY <1>2 DEF UpInv
  <2>2. Leased' /\ AskingInv'
    BY <1>1, <2>1 DEF Leased, AskingInv
  <2>3. Passed(lease, serverWait)' = Passed(lease, serverWait)
        /\ Passed(lease, serverWait) \in Nat
    BY <1>1, <2>1, PassedFacts DEF Passed, Leased
  <2>4. DownInv'
    <3>1. kind = "android" => Lag(down', own'.age, Period)
      BY <1>3, LagAtZero
    <3>2. own'.age <= MaxStart \/ \A x \in down' : x <= MaxDelay
      BY <1>1, <1>3, <2>1, TimingAssumption DEF DownInv
    <3> QED BY <1>1, <1>3, <2>3, <3>1, <3>2 DEF DownInv, Heard
  <2>5. AnswerInv'
    <3>1. kind = "test" => Lag(up', lease.age, Period + MaxDelay)
      BY <1>1, <2>1, LagOfSent DEF AnswerInv
    <3>2. kind = "test" => up' # {}
      BY <1>1
    <3> QED BY <1>1, <3>1, <3>2 DEF AnswerInv
  <2>6. ThreadInv'
    <3>1. kind = "android" =>
            Passed(own, clientWait)' = Passed(own, clientWait)
      BY <1>1, <1>3 DEF Passed
    <3> QED BY <1>1, <2>1, <3>1 DEF ThreadInv
  <2> QED BY <1>1, <1>2, <2>2, <2>4, <2>5, <2>6 DEF UpInv
<1> QED BY <1>4

LEMMA ServerReceivesPace ==
  ASSUME PaceInv, NEW m \in up, ServerReceives(m)
  PROVE  PaceInv'
<1> USE TypeFacts, Constants
<1>1. /\ up' = up \ {m} /\ lease' = SetLatestTime(lease)
      /\ UNCHANGED <<kind, status, own, down, link, silent, serverWait,
                     clientWait>>
  BY DEF ServerReceives
<1>2. link = "up"
  BY DEF PaceInv, SilentInv
<1>3. /\ lease' \in Records /\ lease'.age = 0
      /\ lease'.count = lease.count /\ lease'.state = lease.state
  BY <1>1, RecordFacts
<1>4. TimingTypeOK'
  BY <1>1, <1>3 DEF PaceInv, TimingTypeOK
<1>5. WaitsOK'
  BY <1>1 DEF PaceInv, WaitsOK, ClientWaits, WaitsAtMost, ThreadRuns,
              Heard, Owned
<1>6. SilentInv'
  <2>1. silent = 0
    BY <1>2 DEF PaceInv, SilentInv
  <2> QED BY <1>1, <1>2, <1>3, <2>1 DEF PaceInv, SilentInv, Silent,
                                       ThreadRuns, Heard
<1> QED BY <1>4, <1>5, <1>6 DEF PaceInv

LEMMA ServerReceivesKeeps ==
  ASSUME TimingInv, NEW m \in up, ServerReceives(m)
  PROVE  UpInv'
<1> USE TypeFacts, Constants DEF TimingInv
<1>1. /\ up' = up \ {m} /\ lease' = SetLatestTime(lease)
      /\ UNCHANGED <<kind, status, own, down, link, silent, serverWait,
                     clientWait>>
  BY DEF ServerReceives
<1>2. link = "up"
  BY DEF PaceInv, SilentInv
<1>3. /\ lease' \in Records /\ lease'.age = 0
      /\ lease'.count = lease.count /\ lease'.state = lease.state
  BY <1>1, RecordFacts
<1>4. UpInv'
  <2>1. Leased /\ DownInv /\ AskingInv /\ AnswerInv /\ ThreadInv
    BY <1>2 DEF UpInv
  <2>2. status # "asking"
    BY <2>1 DEF AskingInv
  <2>3. Passed(lease, serverWait)' = Passed(lease, serverWait)
        /\ Passed(lease, serverWait) \in Nat
    BY <1>1, <1>3, <2>1, PassedFacts DEF Passed, Leased
  <2>4. Leased' /\ AskingInv' /\ DownInv'
    BY <1>1, <1>3, <2>1, <2>2, <2>3 DEF Leased, AskingInv, DownInv, Heard
  <2>5. AnswerInv'
    BY <1>1, <1>3, <2>2, <2>3, LagAtZero DEF AnswerInv
  <2>6. ThreadInv'
    <3>1. kind = "android" /\ status = "running" =>
            0 <= MaxDelay + MaxStart + Passed(own, clientWait)
      <4>1. kind = "android" /\ status = "running" =>
              Owned /\ clientWait \in 0..MaxPass
        BY DEF PaceInv, WaitsOK, ClientWaits, WaitsAtMost, ThreadRuns, Heard
      <4> QED BY <4>1, PassedFacts DEF Owned
    <3>2. Passed(own, clientWait)' = Passed(own, clientWait)
      BY <1>1 DEF Passed
    <3>3. status = "starting" /\ kind = "android" => up = {}
      BY <2>1 DEF ThreadInv
    <3> QED BY <1>1, <1>3, <3>1, <3>2, <3>3, LagAtZero DEF ThreadInv
  <2> QED BY <1>1, <1>2, <2>1, <2>4, <2>5, <2>6 DEF UpInv
<1> QED BY <1>4

LEMMA GoSilentPace ==
  ASSUME PaceInv, GoSilent
  PROVE  PaceInv'
<1> USE TypeFacts, Constants
<1>1. /\ link = "up" /\ link' = "dead" /\ up' = {} /\ down' = {}
      /\ UNCHANGED <<kind, status, lease, own, silent, serverWait, clientWait>>
  BY DEF GoSilent
<1> QED BY <1>1 DEF PaceInv, TimingTypeOK, Links, WaitsOK, ClientWaits,
          WaitsAtMost, Heard, Owned, SilentInv, Silent, ThreadRuns

\* Time passes: the bounds grow with the ages.
LEMMA TickKeepsTypes ==
  ASSUME PaceInv, Tick
  PROVE  TimingTypeOK' /\ WaitsOK'
<1> USE TypeFacts, Constants
<1>1. /\ lease' \in Records /\ own' \in Records
      /\ own'.count = own.count /\ own'.state = own.state
  BY RecordFacts DEF Tick
<1>2. /\ UNCHANGED <<kind, status, link>>
      /\ serverWait' \in 0..MaxPass
      /\ up' = Later(up) /\ down' = Later(down)
      /\ clientWait' = IF ClientWaits THEN clientWait + 1 ELSE clientWait
      /\ ClientWaits => clientWait < WaitsAtMost
      /\ silent' \in 0..Limit
  BY DEF Tick
<1>3. up' \subseteq 0..MaxDelay
  BY <1>2, LaterFacts DEF Tick
<1>4. /\ link # "up" => down = {}
      /\ status = "quit" => down = {}
      /\ status = "asking" => \A x \in down : x <= clientWait
      /\ status = "starting" => \A x \in down : x <= MaxDelay + clientWait
      /\ kind \in Clients /\ status \in Statuses
  BY DEF PaceInv, SilentInv, WaitsOK, TimingTypeOK
<1>5. /\ status = "asking" => \A x \in down' : x <= clientWait'
      /\ status = "starting" => \A x \in down' : x <= MaxDelay + clientWait'
  <2>1. CASE link = "up" /\ status = "asking"
    <3>1. clientWait' = clientWait + 1
      BY <1>2, <2>1 DEF ClientWaits
    <3> QED BY <1>2, <1>4, <2>1, <3>1, LaterFacts
  <2>2. CASE status = "starting"
    <3>1. clientWait' = clientWait + 1
      BY <1>2, <2>2 DEF ClientWaits
    <3>2. \A y \in down' : y <= MaxDelay + clientWait + 1
      BY <1>2, <1>4, <2>2, LaterFacts
    <3> QED BY <2>2, <3>1, <3>2
  <2>3. CASE link # "up"
    BY <1>2, <1>4, <2>3, LaterFacts
  <2> QED BY <2>1, <2>2, <2>3
<1>6. down' \subseteq 0..MaxDelay + MaxStart
  <2>1. down' \in SUBSET Nat
    BY <1>2, LaterFacts
  <2>2. CASE status = "running"
    <3>1. down' \subseteq 0..MaxDelay
      BY <1>2, <2>2, LaterFacts DEF Tick
    <3> QED BY <3>1
  <2>3. CASE link = "up" /\ status = "asking"
    <3>1. clientWait < MaxDelay
      BY <1>2, <2>3 DEF ClientWaits, WaitsAtMost
    <3>2. \A x \in down' : x <= clientWait + 1
      BY <1>2, <1>4, <2>3, LaterFacts
    <3> QED BY <2>1, <3>1, <3>2
  <2>4. CASE status = "starting"
    <3>1. clientWait < MaxStart
      BY <1>2, <2>4 DEF ClientWaits, WaitsAtMost
    <3>2. \A x \in down' : x <= MaxDelay + clientWait + 1
      BY <1>2, <1>4, <2>4, LaterFacts
    <3> QED BY <2>1, <3>1, <3>2
  <2>5. CASE link # "up" \/ status = "quit"
    BY <1>2, <1>4, <2>5, LaterFacts
  <2> QED BY <1>4, <2>2, <2>3, <2>4, <2>5 DEF Statuses
<1>7. TimingTypeOK'
  BY <1>1, <1>2, <1>3, <1>6 DEF PaceInv, TimingTypeOK
<1>8. WaitsOK'
  <2>1. ClientWaits' = ClientWaits /\ WaitsAtMost' = WaitsAtMost
    BY <1>2 DEF ClientWaits, WaitsAtMost, ThreadRuns
  <2>2. WaitsAtMost \in Nat
    BY <1>4 DEF WaitsAtMost, Statuses
  <2>3. ClientWaits' => clientWait' <= WaitsAtMost'
    BY <1>2, <2>1, <2>2
  <2> QED BY <1>1, <1>2, <1>5, <2>3 DEF PaceInv, WaitsOK, Heard, Owned
<1> QED BY <1>7, <1>8

LEMMA TickKeepsUp ==
  ASSUME TimingInv, Tick
  PROVE  UpInv'
<1> SUFFICES ASSUME link = "up" PROVE UpInv'
  BY DEF Tick, UpInv
<1> USE TypeFacts, Constants DEF TimingInv
<1>1. /\ lease' \in Records /\ own' \in Records
      /\ own'.count = own.count /\ own'.state = own.state
      /\ lease'.count = lease.count /\ lease'.state = lease.state
      /\ lease'.age \in Nat /\ lease'.age <= lease.age + 1
      /\ own'.age \in Nat /\ own'.age <= own.age + 1
  BY RecordFacts DEF Tick
<1>2. /\ UNCHANGED <<kind, status, link, silent>>
      /\ serverWait' = serverWait + 1 /\ serverWait' \in 0..MaxPass
      /\ up' = Later(up) /\ down' = Later(down)
      /\ ClientWaits => clientWait' = clientWait + 1
      /\ ClientWaits => clientWait < WaitsAtMost
  BY DEF Tick
<1>3. /\ Leased /\ DownInv /\ AskingInv /\ AnswerInv /\ ThreadInv
      /\ status # "quit" /\ WaitsOK
      /\ kind \in Clients /\ status \in Statuses
  BY DEF PaceInv, SilentInv, UpInv, TimingTypeOK
<1>4. /\ up' = {} <=> up = {}
      /\ down' = {} <=> down = {}
  BY <1>2, LaterFacts
<1>5. Leased'
  BY <1>1, <1>3 DEF Leased
<1>6. /\ Passed(lease', serverWait') = Passed(lease, serverWait) + 1
      /\ Passed(lease, serverWait) \in Nat
      /\ Passed(lease', serverWait') <= Period
  <2>1. /\ Passed(lease, serverWait) \in Nat
        /\ Passed(lease', serverWait') <= Period
    BY <1>1, <1>2, <1>3, <1>5, PassedFacts DEF Leased
  <2>2. (MaxCounter - lease.count) * MaxPass \in Int
    BY <1>3 DEF Leased
  <2>3. Passed(lease', serverWait') = Passed(lease, serverWait) + 1
    BY <1>1, <1>2, <2>2 DEF Passed
  <2> QED BY <2>1, <2>3
<1>7. DownInv'
  <2>1. Heard => Lag(down', own'.age, Period)
    <3>1. Heard => Lag(down, own.age, Period) /\ (down = {} => own'.age <= Period)
      BY <1>1, <1>3, <1>6 DEF DownInv
    <3> QED BY <1>1, <1>2, <3>1, LagLater
  <2>2. Heard => (down' = {} => own'.age <= Passed(lease', serverWait'))
    BY <1>1, <1>3, <1>4, <1>6 DEF DownInv
  <2>3. status = "running" => \A x \in down' : x <= MaxDelay
    <3>1. status = "running" => down' \subseteq 0..MaxDelay
      BY <1>2, LaterFacts DEF Tick
    <3> QED BY <3>1
  <2> QED BY <1>2, <2>1, <2>2, <2>3 DEF DownInv, Heard
<1>8. status = "asking" => /\ clientWait' = clientWait + 1
                           /\ clientWait < MaxDelay
  BY <1>2 DEF ClientWaits, WaitsAtMost
<1>9. AskingInv'
  BY <1>1, <1>2, <1>3, <1>4, <1>8 DEF AskingInv
<1>10. AnswerInv'
  <2> SUFFICES ASSUME kind = "test" \/ status = "asking"
               PROVE  /\ up = {} /\ down = {} =>
                           lease'.age <= Passed(lease', serverWait')
                      /\ up = {} => Lag(down', lease'.age, Period)
                      /\ Lag(up', lease'.age, Period + MaxDelay)
    BY <1>2, <1>4 DEF AnswerInv
  <2>1. /\ up = {} /\ down = {} => lease.age <= Passed(lease, serverWait)
        /\ up = {} => Lag(down, lease.age, Period)
        /\ Lag(up, lease.age, Period + MaxDelay)
    BY <1>3 DEF AnswerInv
  <2>2. up = {} /\ down = {} => lease'.age <= Passed(lease', serverWait')
    BY <1>1, <1>6, <2>1
  <2>3. up = {} => Lag(down', lease'.age, Period)
    <3>1. up = {} /\ down = {} => lease'.age <= Period
      BY <1>1, <1>6, <2>1
    <3> QED BY <1>1, <1>2, <2>1, <3>1, LagLater
  <2>4. up = {} => lease'.age <= Period + MaxDelay
    <3>1. CASE status = "asking"
      BY <1>1, <1>3, <1>8, <3>1 DEF AskingInv
    <3>2. CASE status = "running"
      <4>1. \A x \in down' : x <= MaxDelay
        <5>1. down' \subseteq 0..MaxDelay
          BY <1>2, <3>2, LaterFacts DEF Tick
        <5> QED BY <5>1
      <4>2. up = {} => lease'.age <= MaxDelay + Period
        BY <2>3, <4>1, LagBounds
      <4> QED BY <1>1, <4>2
    <3>3. status # "starting"
      BY <1>3 DEF WaitsOK
    <3> QED BY <1>3, <3>1, <3>2, <3>3 DEF Statuses
  <2>5. Lag(up', lease'.age, Period + MaxDelay)
    BY <1>1, <1>2, <2>1, <2>4, LagLater
  <2> QED BY <2>2, <2>3, <2>5
<1>11. ThreadInv'
  <2> SUFFICES ASSUME kind = "android"
               PROVE  ThreadInv'
    BY <1>2 DEF ThreadInv
  <2>1. CASE status = "starting"
    <3>1. clientWait' = clientWait + 1
      BY <1>2, <2>1 DEF ClientWaits
    <3> QED BY <1>1, <1>2, <1>3, <1>4, <2>1, <3>1 DEF ThreadInv
  <2>2. CASE status = "running"
    <3>1. /\ clientWait' = clientWait + 1 /\ clientWait' \in 0..MaxPass
          /\ clientWait \in 0..MaxPass
      BY <1>2, <2>2 DEF ClientWaits, WaitsAtMost, ThreadRuns
    <3>2. own.count \in 1..MaxCounter /\ own'.count \in 1..MaxCounter
      BY <1>1, <1>3, <2>2 DEF WaitsOK, Heard, Owned
    <3>3. /\ Passed(own, clientWait) \in Nat
          /\ Passed(own', clientWait') <= Period
          /\ Passed(own', clientWait') \in Nat
      BY <1>1, <3>1, <3>2, PassedFacts
    <3>4. Passed(own', clientWait') = Passed(own, clientWait) + 1
      <4>1. (MaxCounter - own.count) * MaxPass \in Int
        BY <3>2
      <4> QED BY <1>1, <3>1, <4>1 DEF Passed
    <3>5. up = {} =>
            lease'.age <= MaxDelay + MaxStart + Passed(own', clientWait')
      BY <1>1, <1>3, <2>2, <3>3, <3>4 DEF ThreadInv
    <3>6. Lag(up', lease'.age, MaxDelay + MaxStart + Period)
      <4>1. up = {} => lease'.age <= MaxDelay + MaxStart + Period
        BY <1>1, <3>3, <3>5
      <4>2. Lag(up, lease.age, MaxDelay + MaxStart + Period)
        BY <1>3, <2>2 DEF ThreadInv
      <4> QED BY <1>1, <1>2, <4>1, <4>2, LagLater
    <3> QED BY <1>2, <1>4, <2>2, <3>5, <3>6 DEF ThreadInv
  <2>3. CASE status = "asking"
    BY <1>2, <2>3 DEF ThreadInv
  <2> QED BY <1>3, <2>1, <2>2, <2>3 DEF Statuses
<1> QED BY <1>2, <1>3, <1>5, <1>7, <1>9, <1>10, <1>11 DEF UpInv

LEMMA TickKeepsSilent ==
  ASSUME PaceInv, Tick
  PROVE  SilentInv'
<1> USE TypeFacts, Constants
<1>1. /\ UNCHANGED <<kind, status, link>>
      /\ serverWait' = serverWait + 1 /\ serverWait \in Nat
      /\ up' = Later(up) /\ down' = Later(down)
      /\ ClientWaits => clientWait' = clientWait + 1
      /\ ClientWaits => clientWait < WaitsAtMost
      /\ silent' \in Nat /\ silent' <= silent + 1
      /\ lease' = Older(lease) /\ own' = Older(own)
  BY DEF Tick
<1>2. link # "up" => up' = {} /\ down' = {}
  BY <1>1, LaterFacts DEF PaceInv, SilentInv
<1>3. ASSUME lease.state = "USED" PROVE Silent(lease, serverWait)'
  <2>1. Silent(lease, serverWait)
    BY <1>3 DEF PaceInv, SilentInv
  <2>2. /\ lease.age < MaxTimeDur => lease'.age = lease.age + 1
        /\ lease.age = MaxTimeDur => lease'.age = lease.age
    BY <1>1, RecordFacts
  <2> QED BY <1>1, <2>1, <2>2 DEF Silent
<1>4. lease'.state = lease.state
  BY <1>1, RecordFacts
<1>5. ASSUME MaxStart < MaxTimeDur, Heard, status = "starting"
      PROVE  own'.age = clientWait' /\ silent' <= own'.age
  <2>1. clientWait' = clientWait + 1 /\ clientWait < MaxStart
    BY <1>1, <1>5 DEF ClientWaits, WaitsAtMost
  <2>2. own.age = clientWait /\ silent <= own.age
    BY <1>5 DEF PaceInv, SilentInv
  <2>3. own'.age = own.age + 1
    BY <1>1, <1>5, <2>1, <2>2, RecordFacts
  <2> QED BY <1>1, <2>1, <2>2, <2>3
<1>6. ASSUME MaxStart < MaxTimeDur, ThreadRuns
      PROVE  Silent(own, clientWait)'
  <2>1. Silent(own, clientWait)
    BY <1>6 DEF PaceInv, SilentInv
  <2>2. /\ own.age < MaxTimeDur => own'.age = own.age + 1
        /\ own.age = MaxTimeDur => own'.age = own.age
    BY <1>1, RecordFacts
  <2>3. clientWait' = clientWait + 1
    BY <1>1, <1>6 DEF ClientWaits
  <2> QED BY <1>1, <2>1, <2>2, <2>3 DEF Silent
<1>7. link = "up" => status # "quit" /\ silent' = 0
  BY DEF PaceInv, SilentInv, Tick
<1> QED BY <1>1, <1>2, <1>3, <1>4, <1>5, <1>6, <1>7
        DEF SilentInv, ThreadRuns, Heard

LEMMA PaceStep ==
  ASSUME PaceInv, [TimingNext]_timingVars
  PROVE  PaceInv'
<1>1. CASE Tick
  BY <1>1, TickKeepsTypes, TickKeepsSilent DEF PaceInv
<1>2. CASE TimingNext /\ ~Tick
  BY <1>2, ServerPassPace, ServerSkipsPace, ServerTimesOutPace,
     ClientPassPace, ClientTimesOutPace, ReceiveAddressPace, StartThreadPace,
     ClientReceivesPace, ServerReceivesPace, GoSilentPace DEF TimingNext
<1>3. CASE UNCHANGED timingVars
  BY <1>3 DEF timingVars, messages, PaceInv, TimingTypeOK, WaitsOK,
    ClientWaits, WaitsAtMost, Heard, Owned, SilentInv, Silent, ThreadRuns
<1> QED BY <1>1, <1>2, <1>3

LEMMA TimingStep ==
  ASSUME Timely, TimingInv, [TimingNext]_timingVars
  PROVE  TimingInv'
<1>1. PaceInv'
  BY PaceStep DEF TimingInv
<1>2. CASE ServerTimesOut \/ ClientTimesOut
  BY <1>1, <1>2, ServerTimesOutKeeps, ClientTimesOutKeeps DEF TimingInv
<1>3. CASE TimingNext /\ ~ServerTimesOut /\ ~ClientTimesOut
  <2>1. UpInv'
    <3>1. CASE GoSilent
      BY <3>1 DEF GoSilent, UpInv
    <3> QED BY <1>3, <3>1, ServerPassKeeps, ServerSkipsKeeps, ClientPassKeeps,
          ReceiveAddressKeeps, StartThreadKeeps, ClientReceivesKeeps,
          ServerReceivesKeeps, TickKeepsUp DEF TimingNext
  <2>2. link' = link \/ link' = "dead"
    BY <1>3 DEF TimingNext, ServerPass, ServerSkips, ClientPass,
       ReceiveAddress, StartThread, ClientReceives, ServerReceives, GoSilent,
       Tick
  <2> QED BY <1>1, <2>1, <2>2 DEF TimingInv
<1>4. CASE UNCHANGED timingVars
  BY <1>1, <1>4 DEF timingVars, messages, TimingInv, UpInv, Leased, DownInv,
    Heard, AskingInv, AnswerInv, ThreadInv, Passed, Lag
<1> QED BY <1>2, <1>3, <1>4

LEMMA NoticedInTime ==
  ASSUME PaceInv
  PROVE  /\ lease.state = "USED" => silent < Limit
         /\ MaxStart < MaxTimeDur => SilenceNoticed
<1> USE TypeFacts, Constants
<1>1. ThreadRuns => clientWait <= MaxPass
  BY DEF PaceInv, WaitsOK, ClientWaits, WaitsAtMost, ThreadRuns
<1>2. lease.state = "USED" => silent < Limit
  BY DEF PaceInv, SilentInv, Silent
<1> QED BY <1>1, <1>2 DEF PaceInv, SilentInv, Silent, SilenceNoticed

\* For every MAX_COUNTER, MAX_TIME_DUR and every pace of the threads, the
\* network and the Java side that Timely allows: neither side gives the other
\* up while they reach each other.
THEOREM TimelyIsKeptAlive ==
  ASSUME Timely
  PROVE  TimingSpec => []KeptAlive
<1>1. TimingInit => TimingInv
  BY TimingInitially
<1>2. TimingInv /\ [TimingNext]_timingVars => TimingInv'
  BY TimingStep
<1>3. TimingInv => KeptAlive
  BY DEF TimingInv, KeptAlive
<1> QED BY <1>1, <1>2, <1>3, PTL DEF TimingSpec

\* And when they do not, both notice within MaxTimeDur and one pass, Timely or
\* not: isTimeOut of keep_alive_thread and client_keep_alive_thread.  All it
\* takes is that the Java side starts the client's thread before the silence
\* limit of the record that recv_ipv4_addr has set.
THEOREM SilenceIsNoticed ==
  ASSUME MaxStart < MaxTimeDur
  PROVE  TimingSpec => []SilenceNoticed
<1>1. TimingInit => PaceInv
  BY TimingInitially DEF TimingInv
<1>2. PaceInv /\ [TimingNext]_timingVars => PaceInv'
  BY PaceStep
<1>3. PaceInv => SilenceNoticed
  BY NoticedInTime
<1> QED BY <1>1, <1>2, <1>3, PTL DEF TimingSpec

\* Whatever the constants and the pace, the records, the messages under way and
\* the waits stay within their types, and keep_alive_thread of the server takes
\* the lease of a silent client back within MaxTimeDur and one pass.
THEOREM SilentLeaseIsTakenBack ==
  TimingSpec => [](TimingTypeOK /\ (lease.state = "USED" => silent < Limit))
<1>1. TimingInit => PaceInv
  BY TimingInitially DEF TimingInv
<1>2. PaceInv /\ [TimingNext]_timingVars => PaceInv'
  BY PaceStep
<1>3. PaceInv => TimingTypeOK /\ (lease.state = "USED" => silent < Limit)
  BY NoticedInTime DEF PaceInv
<1> QED BY <1>1, <1>2, <1>3, PTL DEF TimingSpec

=============================================================================
