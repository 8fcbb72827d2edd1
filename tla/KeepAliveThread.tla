-------------------------- MODULE KeepAliveThread --------------------------
(***************************************************************************)
(* keep_alive_thread: once a second it goes through the pool; for every    *)
(* address in use it counts down to the next keep-alive message, and it    *)
(* takes the lease back and closes the connection when the client has been *)
(* silent for too long.                                                    *)
(***************************************************************************)
EXTENDS ServerState

WakeUp ==
  /\ At(Keeper, "sleep")
  /\ th' = [th EXCEPT ![Keeper].pc = "state", ![Keeper].it = 1]
  /\ UNCHANGED <<net, tables, mutexes, watch, alive>>

\* On to the next address; the locals of the last one are dead.
NextAddr ==
  [th EXCEPT ![Keeper] = Fresh("state", th[Keeper].it + 1)]

\* info->state is read without the mutex.
ReadState ==
  LET a == th[Keeper].it IN
  /\ At(Keeper, "state")
  /\ th' = IF a > PoolSize THEN [th EXCEPT ![Keeper] = Fresh("sleep", 0)]
           ELSE IF info[a].state = "FREE" THEN NextAddr
           ELSE [th EXCEPT ![Keeper].pc = "dec", ![Keeper].rec = a]
  /\ UNCHANGED <<net, tables, mutexes, watch, alive>>

CountDown ==
  LET a == th[Keeper].rec IN
  InfoStep(Keeper, "dec", a, DecCount(info[a]), "need")

\* The message itself is written by LockWrite and UnlockWrite.
CheckNeedSend ==
  LET a == th[Keeper].rec IN
  InfoStep(Keeper, "need", a, info[a],
           IF NeedSendKeepAlive(info[a]) THEN "lockwrite" ELSE "timeout")

RestartCount ==
  LET a == th[Keeper].rec IN
  InfoStep(Keeper, "reset", a, ResetCount(info[a]), "timeout")

CheckTimeOut ==
  LET a == th[Keeper].rec IN
  /\ At(Keeper, "timeout")
  /\ Unlocked(a)
  /\ th' = IF IsTimeOut(info[a])
           THEN [th EXCEPT ![Keeper].pc = "readfd"]
           ELSE NextAddr
  /\ UNCHANGED <<net, tables, mutexes, watch, alive>>

\* fd = info->fd, after the mutex of the check has been released.
ReadFd ==
  LET f == info[th[Keeper].rec].fd IN
  /\ At(Keeper, "readfd")
  /\ th' = IF f = NoFd THEN NextAddr
           ELSE [th EXCEPT ![Keeper].pc = "lookup", ![Keeper].fd = f]
  /\ UNCHANGED <<net, tables, mutexes, watch, alive>>

\* The search of client[]; the assignment (ClearSlot) is another step.
FindSlot ==
  LET hits == {s \in Slots : client[s] = th[Keeper].fd} IN
  /\ At(Keeper, "slot")
  /\ IF hits = {}
     THEN Goto(Keeper, "close")
     ELSE th' = [th EXCEPT ![Keeper].pc = "unslot",
                           ![Keeper].idx = Min(hits)]
  /\ UNCHANGED <<net, tables, mutexes, watch, alive>>

CloseTimedOut ==
  /\ At(Keeper, "close")
  /\ EndCall(Keeper, {th[Keeper].fd}, {})
  /\ th' = NextAddr
  /\ UNCHANGED <<tables, mutexes, watch, alive>>

KeeperStep ==
  \/ WakeUp
  \/ ReadState
  \/ CountDown
  \/ CheckNeedSend
  \/ RestartCount
  \/ CheckTimeOut
  \/ ReadFd
  \/ FindSlot
  \/ CloseTimedOut
  \/ SharedStep(Keeper)

=============================================================================
