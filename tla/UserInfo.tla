------------------------------ MODULE UserInfo ------------------------------
(***************************************************************************)
(* struct User_Info: the record of one address of the pool, and the        *)
(* methods that read or change it.  Every method locks the record's mutex  *)
(* for its whole body, so each is one operator on the record; the modules  *)
(* that use them guard the step with the mutex.                            *)
(*                                                                         *)
(* secs, the time of the last sign of life, is modelled by age, the time   *)
(* that has passed since: secs = time(NULL) is age 0, and secs = 0 (the    *)
(* epoch) is an age of MaxTimeDur, the age at which it stops counting      *)
(* because isTimeOut cannot tell larger ones apart.  addr_v6 is only       *)
(* printed and i is never used: neither is kept.                           *)
(***************************************************************************)
EXTENDS Integers

CONSTANTS
  MaxCounter,   \* MAX_COUNTER: passes of the thread between two keep-alives
  MaxTimeDur    \* MAX_TIME_DUR: silence after which a lease is taken back

ASSUME UserInfoAssumption ==
  /\ MaxCounter \in Nat \ {0}
  /\ MaxTimeDur \in Nat \ {0}

NoFd == -1

\* D: the descriptors a record may hold
UserInfoType(D) ==
  [state : {"FREE", "USED"}, fd : D \cup {NoFd}, count : Int, age : 0..MaxTimeDur]

NewUserInfo ==
  [state |-> "FREE", fd |-> NoFd, count |-> MaxCounter, age |-> MaxTimeDur]

SetUserInfo(f) ==
  [state |-> "USED", fd |-> f, count |-> MaxCounter, age |-> 0]

\* Faulty variants of freeResource: the descriptor is zeroed like addr_v6; the
\* state is forgotten; the state and the descriptor are.
FreeResourceZeroesFd(u) == [NewUserInfo EXCEPT !.fd = 0]
FreeResourceKeepsState(u) == [NewUserInfo EXCEPT !.state = u.state]
FreeResourceKeepsLease(u) == [NewUserInfo EXCEPT !.state = u.state, !.fd = u.fd]

FreeResource(u) == NewUserInfo

DecCount(u) == [u EXCEPT !.count = @ - 1]

\* Faulty variant: the count is not restarted.
ResetCountForgotten(u) == u

ResetCount(u) == [u EXCEPT !.count = MaxCounter]

NeedSendKeepAlive(u) == u.count = 0

IsTimeOut(u) == u.age >= MaxTimeDur

SetLatestTime(u) == [u EXCEPT !.age = 0]

\* One unit of wall-clock time passes for the record.
Older(u) == [u EXCEPT !.age = IF @ < MaxTimeDur THEN @ + 1 ELSE @]

=============================================================================
