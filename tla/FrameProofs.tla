---------------------------- MODULE FrameProofs ----------------------------
(***************************************************************************)
(* Whatever is written under the mutex and whatever is not: the messages   *)
(* of any class that at most one thread at a time is writing do not mix,   *)
(* whatever their sizes, however write cuts them, and whenever the         *)
(* connection breaks.  The messages written under the mutex are such a     *)
(* class, and so are those of one thread.                                  *)
(***************************************************************************)
EXTENDS FrameWriter, TLAPS

Inside(t) == writer[t].pc \in {"call", "write"}

\* A thread is inside Write_nByte with a guarded message only while it holds
\* the mutex.
Locked ==
  \A t \in Threads :
    Inside(t) /\ writer[t].kind \notin Unguarded => mutex = t

\* What a thread inside Write_nByte has counted: no byte before write is
\* called, and no failed write as long as its bytes may go out.
Counted ==
  \A t \in Threads : Inside(t) =>
    /\ writer[t].frame > 0
    /\ writer[t].pc = "call" => writer[t].taken = 0
    /\ link = "up" \/ writer[t].pc = "write" =>
         /\ writer[t].n >= 0
         /\ writer[t].first => writer[t].n = 0
         /\ ~writer[t].first => writer[t].n > 0

WritersInv == FrameTypeOK /\ Locked /\ Counted

---------------------------------------------------------------------------
(* A class of messages: a set C of pairs of a thread and a kind *)

\* The bytes of C on the stream.
Of(C) == {i \in 1..Len(out) : <<out[i].thread, out[i].kind>> \in C}

\* Thread t is inside Write_nByte with a message of C.
In(t, C) == Inside(t) /\ <<t, writer[t].kind>> \in C

\* Only one thread at a time is.
Alone(C) == \A t, u \in Threads : In(t, C) /\ In(u, C) => t = u

\* What thread t has written of its message.
Written(t) == writer[t].n + writer[t].taken

Midway(t, C) == In(t, C) /\ Written(t) > 0

\* Bytes of C may still go out: the connection is up, or a write that began
\* while it was is under way.
Flowing(C) ==
  link = "up" \/ \E t \in Threads : In(t, C) /\ writer[t].pc = "write"

\* i is the last byte of C.
IsLast(i, C) == i \in Of(C) /\ \A j \in Of(C) : j <= i

\* Byte i is the last that thread t has written of its message.
Newest(i, t) ==
  /\ out[i].thread = t
  /\ out[i].frame = writer[t].frame
  /\ out[i].byte + 1 = Written(t)
  /\ out[i].last <=> (Written(t) = FrameSize[writer[t].kind])

\* As long as bytes of C go out, the last of them is the last that the thread
\* inside Write_nByte has written, or ends a message.
LastByte(C) ==
  Flowing(C) =>
    /\ \A t \in Threads :
         Midway(t, C) => \E i \in Of(C) : IsLast(i, C) /\ Newest(i, t)
    /\ (\A t \in Threads : ~Midway(t, C)) =>
         \A i \in Of(C) : IsLast(i, C) => out[i].last

ClassInv(C) == LastByte(C) /\ Whole(Of(C))

---------------------------------------------------------------------------
(* The writers *)

LEMMA WriterFacts ==
  ASSUME FrameTypeOK, NEW t \in Threads
  PROVE  /\ writer[t] \in Writers
         /\ writer[t].pc \in {"idle", "call", "write", "killed"}
         /\ writer[t].frame \in 0..MaxFrames /\ writer[t].first \in BOOLEAN
         /\ writer[t].kind \in Kinds
         /\ writer[t].n \in Int /\ writer[t].taken \in Nat
         /\ FrameSize[writer[t].kind] \in Nat \ {0}
         /\ writer[t].n + writer[t].taken <= FrameSize[writer[t].kind]
  BY FrameAssumption DEF FrameTypeOK, Writers

LEMMA WritersInitially == FrameInit => WritersInv
<1> SUFFICES ASSUME FrameInit PROVE WritersInv
  OBVIOUS
<1>1. \A k \in Kinds : Idle(0, k) \in Writers
  BY FrameAssumption DEF Idle, Writers
<1>2. \A t \in Threads :
        /\ writer[t] \in Writers
        /\ writer[t].pc = "idle" /\ writer[t].n = 0 /\ writer[t].taken = 0
  BY <1>1 DEF FrameInit, Idle
<1>3. FrameTypeOK
  <2>1. writer \in [Threads -> Writers]
    BY <1>1 DEF FrameInit
  <2>2. \A t \in Threads : FrameSize[writer[t].kind] \in Nat
    BY <1>2, FrameAssumption DEF Writers
  <2> QED BY <1>2, <2>1, <2>2 DEF FrameInit, FrameTypeOK, Links
<1>4. Locked /\ Counted
  BY <1>2 DEF Locked, Counted, Inside
<1> QED BY <1>3, <1>4 DEF WritersInv

\* A step of thread t that leaves the other threads as they are.
LEMMA WriterChanges ==
  ASSUME FrameTypeOK, NEW t \in Threads, NEW r \in Writers,
         writer' = [writer EXCEPT ![t] = r],
         r.n + r.taken <= FrameSize[r.kind]
  PROVE  /\ writer' \in [Threads -> Writers] /\ writer'[t] = r
         /\ \A u \in Threads \ {t} : writer'[u] = writer[u]
         /\ \A u \in Threads :
              writer'[u].n + writer'[u].taken <= FrameSize[writer'[u].kind]
<1>1. /\ writer' \in [Threads -> Writers] /\ writer'[t] = r
      /\ \A u \in Threads \ {t} : writer'[u] = writer[u]
  BY DEF FrameTypeOK
<1> QED BY <1>1 DEF FrameTypeOK

\* What thread t does not change, the others keep.
LEMMA WritersKept ==
  ASSUME WritersInv, NEW t \in Threads, FrameTypeOK',
         \A u \in Threads \ {t} : writer'[u] = writer[u],
         \A u \in Threads \ {t} : mutex' = u <=> mutex = u,
         link' = "up" => link = "up",
         Inside(t)' /\ writer'[t].kind \notin Unguarded => mutex' = t,
         Inside(t)' =>
           /\ writer'[t].frame > 0
           /\ writer'[t].pc = "call" => writer'[t].taken = 0
           /\ link' = "up" \/ writer'[t].pc = "write" =>
                /\ writer'[t].n >= 0
                /\ writer'[t].first => writer'[t].n = 0
                /\ ~writer'[t].first => writer'[t].n > 0
  PROVE  WritersInv'
<1>1. Locked'
  BY DEF WritersInv, Locked, Inside
<1>2. Counted'
  <2> SUFFICES ASSUME NEW u \in Threads, Inside(u)'
               PROVE  /\ writer'[u].frame > 0
                      /\ writer'[u].pc = "call" => writer'[u].taken = 0
                      /\ link' = "up" \/ writer'[u].pc = "write" =>
                           /\ writer'[u].n >= 0
                           /\ writer'[u].first => writer'[u].n = 0
                           /\ ~writer'[u].first => writer'[u].n > 0
    BY DEF Counted
  <2>1. CASE u = t
    BY <2>1
  <2>2. CASE u # t
    BY <2>2 DEF WritersInv, Counted, Inside
  <2> QED BY <2>1, <2>2
<1> QED BY <1>1, <1>2 DEF WritersInv

\* What mutex_write_FD does to the mutex, seen by the other threads.
LEMMA BeginFrameWriters ==
  ASSUME WritersInv, NEW t \in Threads, NEW k \in Kinds, BeginFrame(t, k)
  PROVE  /\ WritersInv'
         /\ writer[t].pc = "idle" /\ UNCHANGED <<link, out>>
         /\ writer'[t].pc = "call" /\ Written(t)' = 0
         /\ writer'[t].kind = k
         /\ \A u \in Threads \ {t} : writer'[u] = writer[u]
<1> DEFINE r == [pc |-> "call", frame |-> writer[t].frame + 1, kind |-> k,
                 first |-> TRUE, n |-> 0, taken |-> 0]
<1>1. /\ mutex' = (IF k \in Unguarded THEN mutex ELSE t)
      /\ k \notin Unguarded => mutex = NoThread
      /\ UNCHANGED <<link, out>> /\ k \in Kinds
      /\ writer[t].pc = "idle" /\ writer' = [writer EXCEPT ![t] = r]
  BY DEF BeginFrame, Holder
<1>2. FrameTypeOK
  BY DEF WritersInv
<1>3. r \in Writers /\ r.n + r.taken <= FrameSize[r.kind] /\ r.frame > 0
  BY <1>2, FrameAssumption DEF BeginFrame, FrameTypeOK, Writers
<1>4. /\ r.pc = "call" /\ r.n = 0 /\ r.taken = 0 /\ r.first /\ r.kind = k
  OBVIOUS
<1> HIDE DEF r
<1>5. /\ writer' \in [Threads -> Writers] /\ writer'[t] = r
      /\ \A u \in Threads \ {t} : writer'[u] = writer[u]
      /\ \A u \in Threads :
           writer'[u].n + writer'[u].taken <= FrameSize[writer'[u].kind]
  BY <1>1, <1>2, <1>3, WriterChanges
<1>6. FrameTypeOK'
  BY <1>1, <1>2, <1>5 DEF FrameTypeOK
<1>7. \A u \in Threads \ {t} : mutex' = u <=> mutex = u
  BY <1>1, FrameAssumption
<1>8. WritersInv'
  BY <1>1, <1>3, <1>4, <1>5, <1>6, <1>7, WritersKept
<1> QED BY <1>1, <1>4, <1>5, <1>8 DEF Written

LEMMA EnterWriteWriters ==
  ASSUME WritersInv, NEW t \in Threads, EnterWrite(t)
  PROVE  /\ WritersInv'
         /\ writer[t].pc = "call" /\ link = "up" /\ UNCHANGED <<link, out>>
         /\ writer'[t].pc = "write" /\ Written(t)' = Written(t)
         /\ writer'[t].frame = writer[t].frame
         /\ writer'[t].kind = writer[t].kind
         /\ \A u \in Threads \ {t} : writer'[u] = writer[u]
<1> DEFINE w == writer[t]
           r == [pc |-> "write", frame |-> w.frame, kind |-> w.kind,
                 first |-> w.first, n |-> w.n, taken |-> w.taken]
<1>1. /\ w \in Writers /\ w.pc = "call" /\ link = "up" /\ FrameTypeOK
      /\ w.n + w.taken <= FrameSize[w.kind]
      /\ UNCHANGED <<mutex, link, out>>
  BY WriterFacts DEF EnterWrite, WritersInv
<1>2. writer' = [writer EXCEPT ![t] = r]
  <2>1. [w EXCEPT !.pc = "write"] = r
    BY <1>1 DEF Writers
  <2> QED BY <2>1 DEF EnterWrite
<1>3. r \in Writers /\ r.n + r.taken <= FrameSize[r.kind]
  BY <1>1 DEF Writers
<1>4. /\ r.pc = "write" /\ r.frame = w.frame /\ r.kind = w.kind
      /\ r.first = w.first /\ r.n = w.n /\ r.taken = w.taken
  OBVIOUS
<1> HIDE DEF r
<1>5. /\ writer' \in [Threads -> Writers] /\ writer'[t] = r
      /\ \A u \in Threads \ {t} : writer'[u] = writer[u]
      /\ \A u \in Threads :
           writer'[u].n + writer'[u].taken <= FrameSize[writer'[u].kind]
  BY <1>1, <1>2, <1>3, WriterChanges
<1>6. FrameTypeOK'
  BY <1>1, <1>5 DEF FrameTypeOK
<1>7. /\ w.frame > 0 /\ w.n >= 0
      /\ w.first => w.n = 0
      /\ ~w.first => w.n > 0
      /\ w.kind \notin Unguarded => mutex = t
  BY <1>1 DEF WritersInv, Locked, Counted, Inside
<1> HIDE DEF w
<1>8. WritersInv'
  BY <1>1, <1>4, <1>5, <1>6, <1>7, WritersKept
<1> QED BY <1>1, <1>4, <1>5, <1>8 DEF Written, w

\* The byte that write takes of the message of thread t.
ByteOf(t) ==
  [thread |-> t, frame |-> writer[t].frame, kind |-> writer[t].kind,
   byte |-> Written(t),
   last |-> Written(t) + 1 = FrameSize[writer[t].kind]]

LEMMA TakeByteWriters ==
  ASSUME WritersInv, NEW t \in Threads, TakeByte(t)
  PROVE  /\ WritersInv'
         /\ writer[t].pc = "write" /\ UNCHANGED link
         /\ out' = Append(out, ByteOf(t))
         /\ Written(t) \in Nat /\ Written(t) < FrameSize[writer[t].kind]
         /\ writer'[t].pc = "write" /\ Written(t)' = Written(t) + 1
         /\ writer'[t].frame = writer[t].frame
         /\ writer'[t].kind = writer[t].kind
         /\ \A u \in Threads \ {t} : writer'[u] = writer[u]
<1> DEFINE w == writer[t]
           r == [pc |-> "write", frame |-> w.frame, kind |-> w.kind,
                 first |-> w.first, n |-> w.n, taken |-> w.taken + 1]
<1>1. /\ w \in Writers /\ w.pc = "write" /\ FrameTypeOK
      /\ UNCHANGED <<mutex, link>>
  BY WriterFacts DEF TakeByte, WritersInv
<1>2. /\ FrameSize[w.kind] \in Nat /\ w.n \in Int /\ w.taken \in Nat
      /\ w.n + w.taken < FrameSize[w.kind]
  BY <1>1, WriterFacts DEF TakeByte, Wants
<1>3. writer' = [writer EXCEPT ![t] = r]
  <2>1. [w EXCEPT !.taken = @ + 1] = r
    BY <1>1 DEF Writers
  <2> QED BY <2>1 DEF TakeByte
<1>4. out' = Append(out, ByteOf(t))
  BY DEF TakeByte, Offset, ByteOf, Written
<1>5. r \in Writers /\ r.n + r.taken <= FrameSize[r.kind]
  BY <1>1, <1>2 DEF Writers
<1>6. /\ w.frame > 0 /\ w.n >= 0
      /\ w.first => w.n = 0
      /\ ~w.first => w.n > 0
      /\ w.kind \notin Unguarded => mutex = t
  BY <1>1 DEF WritersInv, Locked, Counted, Inside
<1>7. ByteOf(t) \in ByteType
  BY <1>1, <1>2, <1>6 DEF ByteType, ByteOf, Written, Writers
<1>8. /\ r.pc = "write" /\ r.frame = w.frame /\ r.kind = w.kind
      /\ r.first = w.first /\ r.n = w.n /\ r.taken = w.taken + 1
  OBVIOUS
<1> HIDE DEF r
<1>9. /\ writer' \in [Threads -> Writers] /\ writer'[t] = r
      /\ \A u \in Threads \ {t} : writer'[u] = writer[u]
      /\ \A u \in Threads :
           writer'[u].n + writer'[u].taken <= FrameSize[writer'[u].kind]
  BY <1>1, <1>3, <1>5, WriterChanges
<1>10. FrameTypeOK'
  <2>1. out' \in Seq(ByteType)
    BY <1>1, <1>4, <1>7 DEF FrameTypeOK
  <2> QED BY <1>1, <1>9, <2>1 DEF FrameTypeOK
<1>11. Written(t) = w.n + w.taken /\ Written(t)' = w.n + w.taken + 1
  BY <1>2, <1>8, <1>9 DEF Written
<1> HIDE DEF w
<1>12. WritersInv'
  BY <1>1, <1>6, <1>8, <1>9, <1>10, WritersKept
<1> QED BY <1>1, <1>2, <1>4, <1>6, <1>8, <1>9, <1>11, <1>12 DEF w

\* write's result is counted: the message ends, or write is called again.
LEMMA CountsWriters ==
  ASSUME WritersInv, NEW t \in Threads, NEW n \in Int, Inside(t),
         Counts(t, n), n <= FrameSize[writer[t].kind],
         link' \in Links, link' = "up" => link = "up" /\ n > 0, UNCHANGED out
  PROVE  /\ WritersInv'
         /\ \/ writer'[t].pc = "idle" /\ Done(writer[t], n)
            \/ /\ writer'[t].pc = "call" /\ ~Done(writer[t], n)
               /\ writer'[t].frame = writer[t].frame
               /\ Written(t)' = n
         /\ writer'[t].kind = writer[t].kind
         /\ \A u \in Threads \ {t} : writer'[u] = writer[u]
<1> DEFINE w == writer[t]
           idle == Idle(w.frame, w.kind)
           r == [pc |-> "call", frame |-> w.frame, kind |-> w.kind,
                 first |-> FALSE, n |-> n, taken |-> 0]
<1>1. /\ w \in Writers /\ w.frame \in 0..MaxFrames /\ w.kind \in Kinds
      /\ FrameTypeOK /\ FrameSize[w.kind] \in Nat
  BY WriterFacts DEF WritersInv
<1>2. w.frame > 0 /\ (w.kind \notin Unguarded => mutex = t)
  BY DEF WritersInv, Locked, Counted
<1>3. CASE Done(w, n)
  <2>1. /\ writer' = [writer EXCEPT ![t] = idle]
        /\ mutex' = IF w.kind \in Unguarded THEN mutex ELSE NoThread
    BY <1>1, <1>3 DEF Counts
  <2>2. /\ idle \in Writers /\ idle.n + idle.taken <= FrameSize[idle.kind]
        /\ idle.pc = "idle" /\ idle.kind = w.kind
    BY <1>1 DEF Idle, Writers
  <2> HIDE DEF idle
  <2>3. /\ writer' \in [Threads -> Writers] /\ writer'[t] = idle
        /\ \A u \in Threads \ {t} : writer'[u] = writer[u]
        /\ \A u \in Threads :
             writer'[u].n + writer'[u].taken <= FrameSize[writer'[u].kind]
    BY <1>1, <2>1, <2>2, WriterChanges
  <2>4. FrameTypeOK'
    BY <1>1, <2>1, <2>3 DEF FrameTypeOK
  <2>5. \A u \in Threads \ {t} : mutex' = u <=> mutex = u
    BY <1>2, <2>1, FrameAssumption
  <2>6. ~Inside(t)'
    BY <2>2, <2>3 DEF Inside
  <2>7. WritersInv'
    BY <2>3, <2>4, <2>5, <2>6, WritersKept
  <2> QED BY <1>3, <2>2, <2>3, <2>7
<1>4. CASE ~Done(w, n)
  <2>1. writer' = [writer EXCEPT ![t] = r] /\ mutex' = mutex
    BY <1>4 DEF Counts
  <2>2. r \in Writers /\ r.n + r.taken <= FrameSize[r.kind]
    BY <1>1 DEF Writers
  <2>3. /\ r.pc = "call" /\ r.frame = w.frame /\ r.kind = w.kind
        /\ ~r.first /\ r.n = n /\ r.taken = 0
    OBVIOUS
  <2> HIDE DEF r
  <2>4. /\ writer' \in [Threads -> Writers] /\ writer'[t] = r
        /\ \A u \in Threads \ {t} : writer'[u] = writer[u]
        /\ \A u \in Threads :
             writer'[u].n + writer'[u].taken <= FrameSize[writer'[u].kind]
    BY <1>1, <2>1, <2>2, WriterChanges
  <2>5. FrameTypeOK'
    BY <1>1, <2>1, <2>4 DEF FrameTypeOK
  <2> HIDE DEF w
  <2>6. WritersInv'
    BY <1>2, <2>1, <2>3, <2>4, <2>5, WritersKept
  <2>7. Written(t)' = n
    BY <2>3, <2>4 DEF Written
  <2> QED BY <1>4, <2>3, <2>4, <2>6, <2>7 DEF w
<1> QED BY <1>3, <1>4

LEMMA WriteReturnsWriters ==
  ASSUME WritersInv, NEW t \in Threads, WriteReturns(t)
  PROVE  /\ WritersInv'
         /\ writer[t].pc = "write" /\ UNCHANGED <<link, out>>
         /\ Written(t) > 0
         /\ \/ /\ writer'[t].pc = "idle"
               /\ Written(t) = FrameSize[writer[t].kind]
            \/ /\ writer'[t].pc = "call"
               /\ writer'[t].frame = writer[t].frame
               /\ Written(t)' = Written(t)
         /\ writer'[t].kind = writer[t].kind
         /\ \A u \in Threads \ {t} : writer'[u] = writer[u]
<1> DEFINE w == writer[t]
           n == w.n + w.taken
<1>1. /\ w.pc = "write" /\ UNCHANGED <<link, out>> /\ w.taken > 0
      /\ Counts(t, n)
  BY DEF WriteReturns
<1>2. /\ w.n \in Int /\ w.taken \in Nat /\ n \in Int
      /\ n <= FrameSize[w.kind]
      /\ link' \in Links
  BY <1>1, WriterFacts DEF WritersInv, FrameTypeOK
<1>3. w.n >= 0 /\ n > 0 /\ Inside(t)
  BY <1>1, <1>2 DEF WritersInv, Counted, Inside
<1>4. Written(t) = n
  BY DEF Written
<1> HIDE DEF w, n
<1>5. Done(w, n) => n = FrameSize[w.kind]
  BY <1>2, <1>3 DEF Done
<1>6. /\ WritersInv'
      /\ \/ writer'[t].pc = "idle" /\ Done(writer[t], n)
         \/ /\ writer'[t].pc = "call" /\ ~Done(writer[t], n)
            /\ writer'[t].frame = writer[t].frame
            /\ Written(t)' = n
      /\ writer'[t].kind = writer[t].kind
      /\ \A u \in Threads \ {t} : writer'[u] = writer[u]
  BY <1>1, <1>2, <1>3, CountsWriters DEF w
<1> QED BY <1>1, <1>3, <1>4, <1>5, <1>6 DEF w

LEMMA WriteFailsWriters ==
  ASSUME WritersInv, NEW t \in Threads, WriteFails(t)
  PROVE  /\ WritersInv'
         /\ Inside(t) /\ UNCHANGED out /\ link' # "up"
         /\ writer'[t].pc \in {"idle", "call"}
         /\ writer'[t].kind = writer[t].kind
         /\ \A u \in Threads \ {t} : writer'[u] = writer[u]
<1> DEFINE n == writer[t].n + Failed
<1>1. /\ Inside(t) /\ UNCHANGED out /\ Counts(t, n)
      /\ link' \in Links /\ link' # "up"
  BY DEF WriteFails, Inside, Links
<1>2. n \in Int /\ n <= FrameSize[writer[t].kind]
  <2>1. /\ writer[t].n \in Int /\ writer[t].taken \in Nat
        /\ FrameSize[writer[t].kind] \in Nat
        /\ writer[t].n + writer[t].taken <= FrameSize[writer[t].kind]
    BY WriterFacts DEF WritersInv
  <2> QED BY <2>1 DEF Failed
<1> HIDE DEF n
<1> QED BY <1>1, <1>2, CountsWriters

LEMMA BrokenPipeWriters ==
  ASSUME WritersInv, NEW t \in Threads, BrokenPipe(t)
  PROVE  /\ WritersInv'
         /\ UNCHANGED out /\ link' # "up"
         /\ \A u \in Threads : writer'[u].pc = "killed"
<1>1. UNCHANGED <<mutex, link, out>> /\ link = "drained"
  BY DEF BrokenPipe
<1>2. ASSUME NEW u \in Threads
      PROVE  /\ writer'[u] \in Writers /\ writer'[u].pc = "killed"
             /\ writer'[u].n + writer'[u].taken
                  <= FrameSize[writer'[u].kind]
  <2> DEFINE w == writer[u]
             r == [pc |-> "killed", frame |-> w.frame, kind |-> w.kind,
                   first |-> w.first, n |-> w.n, taken |-> w.taken]
  <2>1. w \in Writers /\ w.n + w.taken <= FrameSize[w.kind]
    BY DEF WritersInv, FrameTypeOK
  <2>2. [w EXCEPT !.pc = "killed"] = r
    BY <2>1 DEF Writers
  <2>3. writer'[u] = r
    BY <2>2 DEF BrokenPipe
  <2>4. /\ r \in Writers /\ r.pc = "killed"
        /\ r.n + r.taken <= FrameSize[r.kind]
    BY <2>1 DEF Writers
  <2> HIDE DEF r
  <2> QED BY <2>3, <2>4
<1>3. FrameTypeOK'
  <2>1. writer' = [u \in Threads |-> writer'[u]]
    BY DEF BrokenPipe
  <2>2. writer' \in [Threads -> Writers]
    BY <1>2, <2>1
  <2> QED BY <1>1, <1>2, <2>2 DEF WritersInv, FrameTypeOK
<1>4. Locked' /\ Counted'
  BY <1>2 DEF Locked, Counted, Inside
<1> QED BY <1>1, <1>2, <1>3, <1>4 DEF WritersInv

LEMMA LinkBreaksWriters ==
  ASSUME WritersInv, PeerResets \/ CloseElsewhere
  PROVE  WritersInv' /\ UNCHANGED <<writer, out>> /\ link' # "up"
<1>1. UNCHANGED <<mutex, writer, out>> /\ link' \in Links /\ link' # "up"
  BY DEF PeerResets, CloseElsewhere, Links
<1>2. FrameTypeOK' /\ Locked' /\ Counted'
  BY <1>1 DEF WritersInv, FrameTypeOK, Locked, Counted, Inside
<1> QED BY <1>1, <1>2 DEF WritersInv

LEMMA WritersStep ==
  ASSUME WritersInv, [FrameNext]_frameVars
  PROVE  WritersInv'
<1>1. CASE FrameNext
  BY <1>1, BeginFrameWriters, EnterWriteWriters, TakeByteWriters,
     WriteReturnsWriters, WriteFailsWriters, BrokenPipeWriters,
     LinkBreaksWriters DEF FrameNext, Writing
<1>2. CASE UNCHANGED frameVars
  BY <1>2 DEF frameVars, WritersInv, FrameTypeOK, Locked, Counted, Inside
<1> QED BY <1>1, <1>2

---------------------------------------------------------------------------
(* The bytes of a class *)

\* Without a new byte: it is enough to know the thread that is inside.
LEMMA SameBytes ==
  ASSUME NEW C, ClassInv(C), UNCHANGED out,
         Flowing(C)' => Flowing(C),
         \A u \in Threads : Midway(u, C)' <=> Midway(u, C),
         \A u \in Threads : Midway(u, C) =>
           /\ writer'[u].frame = writer[u].frame
           /\ writer'[u].kind = writer[u].kind
           /\ Written(u)' = Written(u)
  PROVE  ClassInv(C)'
<1>1. Of(C)' = Of(C) /\ \A i : IsLast(i, C)' <=> IsLast(i, C)
  BY DEF Of, IsLast
<1>2. Whole(Of(C))'
  BY <1>1 DEF ClassInv, Whole, Follows
<1>3. ASSUME NEW u \in Threads, NEW i, Midway(u, C), Newest(i, u)
      PROVE  Newest(i, u)'
  BY <1>3 DEF Newest
<1>4. LastByte(C)'
  <2> SUFFICES ASSUME Flowing(C)'
               PROVE  /\ \A u \in Threads : Midway(u, C)' =>
                           \E i \in Of(C)' : IsLast(i, C)' /\ Newest(i, u)'
                      /\ (\A u \in Threads : ~Midway(u, C)') =>
                           \A i \in Of(C)' : IsLast(i, C)' => out'[i].last
    BY DEF LastByte
  <2>1. ASSUME NEW u \in Threads, Midway(u, C)'
        PROVE  \E i \in Of(C)' : IsLast(i, C)' /\ Newest(i, u)'
    BY <1>1, <1>3, <2>1 DEF ClassInv, LastByte
  <2>2. ASSUME \A u \in Threads : ~Midway(u, C)'
        PROVE  \A i \in Of(C)' : IsLast(i, C)' => out'[i].last
    BY <1>1, <2>2 DEF ClassInv, LastByte
  <2> QED BY <2>1, <2>2
<1> QED BY <1>2, <1>4 DEF ClassInv

\* What thread t does outside of C: the others are inside as they were.
LEMMA OthersSame ==
  ASSUME NEW C, NEW t \in Threads,
         \A u \in Threads \ {t} : writer'[u] = writer[u],
         NEW u \in Threads \ {t}
  PROVE  /\ In(u, C)' <=> In(u, C)
         /\ Midway(u, C)' <=> Midway(u, C)
         /\ writer'[u].frame = writer[u].frame
         /\ writer'[u].kind = writer[u].kind
         /\ writer'[u].pc = writer[u].pc
         /\ Written(u)' = Written(u)
  BY DEF In, Inside, Midway, Written

LEMMA BeginFrameClass ==
  ASSUME WritersInv, NEW C, ClassInv(C),
         NEW t \in Threads, NEW k \in Kinds, BeginFrame(t, k)
  PROVE  ClassInv(C)'
<1>1. /\ writer[t].pc = "idle" /\ UNCHANGED <<link, out>>
      /\ writer'[t].pc = "call" /\ Written(t)' = 0
      /\ \A u \in Threads \ {t} : writer'[u] = writer[u]
  BY BeginFrameWriters
<1>2. ~Midway(t, C) /\ ~Midway(t, C)'
  BY <1>1 DEF Midway, In, Inside
<1>3. Flowing(C)' => Flowing(C)
  BY <1>1 DEF Flowing, In, Inside
<1> QED BY <1>1, <1>2, <1>3, OthersSame, SameBytes

LEMMA EnterWriteClass ==
  ASSUME WritersInv, NEW C, ClassInv(C), NEW t \in Threads, EnterWrite(t)
  PROVE  ClassInv(C)'
<1>1. /\ writer[t].pc = "call" /\ link = "up" /\ UNCHANGED <<link, out>>
      /\ writer'[t].pc = "write" /\ Written(t)' = Written(t)
      /\ writer'[t].frame = writer[t].frame
      /\ writer'[t].kind = writer[t].kind
      /\ \A u \in Threads \ {t} : writer'[u] = writer[u]
  BY EnterWriteWriters
<1>2. Midway(t, C)' <=> Midway(t, C)
  BY <1>1 DEF Midway, In, Inside
<1>3. Flowing(C)
  BY <1>1 DEF Flowing
<1> QED BY <1>1, <1>2, <1>3, OthersSame, SameBytes

LEMMA WriteReturnsClass ==
  ASSUME WritersInv, NEW C, Alone(C), ClassInv(C),
         NEW t \in Threads, WriteReturns(t)
  PROVE  ClassInv(C)'
<1>1. /\ writer[t].pc = "write" /\ UNCHANGED <<link, out>>
      /\ Written(t) > 0
      /\ \/ /\ writer'[t].pc = "idle"
            /\ Written(t) = FrameSize[writer[t].kind]
         \/ /\ writer'[t].pc = "call"
            /\ writer'[t].frame = writer[t].frame
            /\ Written(t)' = Written(t)
      /\ writer'[t].kind = writer[t].kind
      /\ \A u \in Threads \ {t} : writer'[u] = writer[u]
  BY WriteReturnsWriters
<1>2. Flowing(C)' => Flowing(C)
  BY <1>1 DEF Flowing, In, Inside
<1>3. CASE ~In(t, C)
  <2>1. ~Midway(t, C) /\ ~Midway(t, C)'
    BY <1>1, <1>3 DEF Midway, In, Inside
  <2> QED BY <1>1, <1>2, <2>1, OthersSame, SameBytes
<1>4. CASE In(t, C) /\ writer'[t].pc = "call"
  <2>1. /\ Midway(t, C)' <=> Midway(t, C)
        /\ writer'[t].frame = writer[t].frame /\ Written(t)' = Written(t)
    BY <1>1, <1>4 DEF Midway, In, Inside
  <2> QED BY <1>1, <1>2, <2>1, OthersSame, SameBytes
<1>5. CASE In(t, C) /\ writer'[t].pc = "idle"
  <2>1. Flowing(C) /\ Midway(t, C)
    BY <1>1, <1>5 DEF Flowing, Midway
  <2>2. \A u \in Threads : ~Midway(u, C)'
    <3>1. ~Midway(t, C)'
      BY <1>5 DEF Midway, In, Inside
    <3>2. \A u \in Threads \ {t} : ~Midway(u, C)'
      BY <1>1, <1>5, OthersSame DEF Alone, Midway
    <3> QED BY <3>1, <3>2
  <2>3. PICK i \in Of(C) : IsLast(i, C) /\ Newest(i, t)
    BY <2>1 DEF ClassInv, LastByte
  <2>4. out[i].last
    BY <1>1, <1>5, <2>3 DEF Newest
  <2>5. Of(C)' = Of(C) /\ \A j : IsLast(j, C)' <=> IsLast(j, C)
    BY <1>1 DEF Of, IsLast
  <2>6. \A j \in Of(C) : IsLast(j, C) => j = i
    BY <2>3 DEF IsLast, Of
  <2>7. LastByte(C)'
    BY <1>1, <2>2, <2>4, <2>5, <2>6 DEF LastByte
  <2>8. Whole(Of(C))'
    BY <1>1, <2>5 DEF ClassInv, Whole, Follows
  <2> QED BY <2>7, <2>8 DEF ClassInv
<1> QED BY <1>1, <1>3, <1>4, <1>5

\* After a failed write of the thread inside, no byte of C goes out any more.
LEMMA WriteFailsClass ==
  ASSUME WritersInv, NEW C, Alone(C), ClassInv(C),
         NEW t \in Threads, WriteFails(t)
  PROVE  ClassInv(C)'
<1>1. /\ Inside(t) /\ UNCHANGED out /\ link' # "up"
      /\ writer'[t].pc \in {"idle", "call"}
      /\ writer'[t].kind = writer[t].kind
      /\ \A u \in Threads \ {t} : writer'[u] = writer[u]
  BY WriteFailsWriters
<1>2. CASE In(t, C)
  <2>1. \A u \in Threads : ~(In(u, C)' /\ writer'[u].pc = "write")
    <3>1. \A u \in Threads \ {t} : ~In(u, C)'
      BY <1>1, <1>2, OthersSame DEF Alone
    <3> QED BY <1>1, <3>1
  <2>2. ~Flowing(C)'
    BY <1>1, <2>1 DEF Flowing
  <2>3. Of(C)' = Of(C)
    BY <1>1 DEF Of
  <2> QED BY <1>1, <2>2, <2>3 DEF ClassInv, LastByte, Whole, Follows
<1>3. CASE ~In(t, C)
  <2>1. ~Midway(t, C) /\ ~Midway(t, C)'
    BY <1>1, <1>3 DEF Midway, In
  <2>2. Flowing(C)' => Flowing(C)
    <3>1. \A u \in Threads : In(u, C)' /\ writer'[u].pc = "write" =>
            In(u, C) /\ writer[u].pc = "write"
      BY <1>1, OthersSame
    <3> QED BY <1>1, <3>1 DEF Flowing
  <2> QED BY <1>1, <2>1, <2>2, OthersSame, SameBytes
<1> QED BY <1>2, <1>3

\* No byte goes out: the process is killed.
LEMMA BrokenPipeClass ==
  ASSUME WritersInv, NEW C, ClassInv(C), NEW t \in Threads, BrokenPipe(t)
  PROVE  ClassInv(C)'
<1>1. /\ UNCHANGED out /\ link' # "up"
      /\ \A u \in Threads : writer'[u].pc = "killed"
  BY BrokenPipeWriters
<1>2. ~Flowing(C)'
  BY <1>1 DEF Flowing
<1>3. Of(C)' = Of(C)
  BY <1>1 DEF Of
<1> QED BY <1>1, <1>2, <1>3 DEF ClassInv, LastByte, Whole, Follows

\* The connection breaks: what is under way is what was.
LEMMA LinkBreaksClass ==
  ASSUME WritersInv, NEW C, ClassInv(C), PeerResets \/ CloseElsewhere
  PROVE  ClassInv(C)'
<1>1. UNCHANGED <<writer, out>> /\ link' # "up"
  BY LinkBreaksWriters
<1>2. /\ Flowing(C)' => Flowing(C)
      /\ \A u \in Threads : Midway(u, C)' <=> Midway(u, C)
      /\ \A u \in Threads : Written(u)' = Written(u)
  BY <1>1 DEF Flowing, In, Inside, Midway, Written
<1> QED BY <1>1, <1>2, SameBytes

\* A new byte at the end of the stream, of C or not.
LEMMA BytesAfter ==
  ASSUME NEW C, NEW b, out \in Seq(ByteType), out' = Append(out, b)
  PROVE  /\ Len(out) \in Nat /\ Len(out') = Len(out) + 1
         /\ out'[Len(out) + 1] = b
         /\ \A i \in 1..Len(out) : out'[i] = out[i]
         /\ <<b.thread, b.kind>> \notin C => Of(C)' = Of(C)
         /\ <<b.thread, b.kind>> \in C => Of(C)' = Of(C) \cup {Len(out) + 1}
         /\ Of(C) \subseteq 1..Len(out)
<1>1. /\ Len(out) \in Nat /\ Len(out') = Len(out) + 1
      /\ out'[Len(out) + 1] = b
      /\ \A i \in 1..Len(out) : out'[i] = out[i]
  OBVIOUS
<1>2. ASSUME NEW i
      PROVE  i \in Of(C)' <=>
               \/ i \in Of(C)
               \/ i = Len(out) + 1 /\ <<b.thread, b.kind>> \in C
  <2>1. /\ i \in 1..Len(out') <=> i \in 1..Len(out) \/ i = Len(out) + 1
        /\ Len(out) + 1 \notin 1..Len(out)
    BY <1>1
  <2>2. i \in Of(C)' <=>
          i \in 1..Len(out') /\ <<out'[i].thread, out'[i].kind>> \in C
    BY DEF Of
  <2>3. i \in Of(C) <=>
          i \in 1..Len(out) /\ <<out[i].thread, out[i].kind>> \in C
    BY DEF Of
  <2>4. CASE i = Len(out) + 1
    BY <1>1, <2>1, <2>2, <2>3, <2>4
  <2>5. CASE i # Len(out) + 1
    BY <1>1, <2>1, <2>2, <2>3, <2>5, Zenon
  <2> QED BY <2>4, <2>5
<1>3. Of(C) \subseteq 1..Len(out)
  BY DEF Of
<1> QED BY <1>1, <1>2, <1>3

LEMMA TakeByteOutside ==
  ASSUME WritersInv, NEW C, ClassInv(C),
         NEW t \in Threads, TakeByte(t), ~In(t, C)
  PROVE  ClassInv(C)'
<1> DEFINE b == ByteOf(t)
<1>1. /\ writer[t].pc = "write" /\ UNCHANGED link
      /\ out' = Append(out, b)
      /\ writer'[t].kind = writer[t].kind
      /\ \A u \in Threads \ {t} : writer'[u] = writer[u]
  BY TakeByteWriters
<1>2. <<b.thread, b.kind>> \notin C
  BY <1>1 DEF ByteOf, In, Inside
<1> HIDE DEF b
<1>3. /\ Of(C)' = Of(C) /\ Of(C) \subseteq 1..Len(out)
      /\ \A i \in 1..Len(out) : out'[i] = out[i]
  BY <1>1, <1>2, BytesAfter DEF WritersInv, FrameTypeOK
<1>4. \A i \in Of(C) : out'[i] = out[i] /\ (IsLast(i, C)' <=> IsLast(i, C))
  BY <1>3 DEF IsLast
<1>5. ~Midway(t, C) /\ ~Midway(t, C)'
  BY <1>1 DEF Midway, In, Inside
<1>6. Flowing(C)' => Flowing(C)
  <2>1. \A u \in Threads : In(u, C)' /\ writer'[u].pc = "write" =>
          In(u, C) /\ writer[u].pc = "write"
    BY <1>1, OthersSame DEF In, Inside
  <2> QED BY <1>1, <2>1 DEF Flowing
<1>7. LastByte(C)'
  <2>1. ASSUME NEW u \in Threads, Flowing(C)', Midway(u, C)'
        PROVE  \E i \in Of(C)' : IsLast(i, C)' /\ Newest(i, u)'
    <3>1. u # t /\ Midway(u, C)
      BY <1>1, <1>5, <2>1, OthersSame
    <3>2. PICK i \in Of(C) : IsLast(i, C) /\ Newest(i, u)
      BY <1>6, <2>1, <3>1 DEF ClassInv, LastByte
    <3>3. Newest(i, u)'
      BY <1>1, <1>4, <3>1, <3>2, OthersSame DEF Newest
    <3> QED BY <1>3, <1>4, <3>2, <3>3
  <2>2. ASSUME Flowing(C)', \A u \in Threads : ~Midway(u, C)',
               NEW i \in Of(C)', IsLast(i, C)'
        PROVE  out'[i].last
    <3>1. \A u \in Threads : ~Midway(u, C)
      BY <1>1, <1>5, <2>2, OthersSame
    <3> QED BY <1>3, <1>4, <1>6, <2>2, <3>1 DEF ClassInv, LastByte
  <2> QED BY <2>1, <2>2 DEF LastByte
<1>8. Whole(Of(C))'
  BY <1>3, <1>4 DEF ClassInv, Whole, Follows
<1> QED BY <1>7, <1>8 DEF ClassInv

LEMMA TakeByteInside ==
  ASSUME WritersInv, NEW C, Alone(C), ClassInv(C),
         NEW t \in Threads, TakeByte(t), In(t, C)
  PROVE  ClassInv(C)'
<1> DEFINE b == ByteOf(t)
<1>1. PICK last : last = Len(out) + 1
  OBVIOUS
<1>2. /\ writer[t].pc = "write" /\ UNCHANGED link
      /\ out' = Append(out, b)
      /\ Written(t) \in Nat /\ Written(t) < FrameSize[writer[t].kind]
      /\ writer'[t].pc = "write" /\ Written(t)' = Written(t) + 1
      /\ writer'[t].frame = writer[t].frame
      /\ writer'[t].kind = writer[t].kind
      /\ \A u \in Threads \ {t} : writer'[u] = writer[u]
  BY TakeByteWriters
<1>3. /\ <<b.thread, b.kind>> \in C /\ b.byte = Written(t) /\ b.thread = t
      /\ b.frame = writer[t].frame
      /\ b.last = (Written(t) + 1 = FrameSize[writer[t].kind])
  BY DEF ByteOf, In
<1> HIDE DEF b
<1>4. /\ Len(out) \in Nat /\ last \in Nat /\ out'[last] = b
      /\ Of(C)' = Of(C) \cup {last} /\ Of(C) \subseteq 1..Len(out)
      /\ \A i \in 1..Len(out) : out'[i] = out[i]
  BY <1>1, <1>2, <1>3, BytesAfter DEF WritersInv, FrameTypeOK
<1>5. /\ \A i \in Of(C) : i < last /\ out'[i] = out[i]
      /\ last \in Of(C)' /\ last \notin Of(C)
  BY <1>1, <1>4
<1>6. IsLast(last, C)' /\ \A i \in Of(C)' : IsLast(i, C)' => i = last
  <2>1. \A i \in Of(C)' : i <= last
    BY <1>1, <1>4
  <2>2. IsLast(last, C)'
    BY <1>5, <2>1 DEF IsLast
  <2>3. \A i \in Of(C) : ~(last <= i)
    BY <1>1, <1>4
  <2> QED BY <1>4, <1>5, <2>2, <2>3 DEF IsLast
<1>7. Midway(t, C)' /\ \A u \in Threads \ {t} : ~Midway(u, C) /\ ~Midway(u, C)'
  BY <1>2, OthersSame DEF Alone, Midway, In, Inside
<1>8. LastByte(C)'
  <2>1. Newest(last, t)'
    <3>1. b.last <=> (Written(t)' = FrameSize[writer'[t].kind])
      BY <1>2, <1>3
    <3>2. b.byte + 1 = Written(t)' /\ b.frame = writer'[t].frame
      BY <1>2, <1>3
    <3> QED BY <1>3, <1>4, <3>1, <3>2 DEF Newest
  <2>2. Midway(t, C)' => \E i \in Of(C)' : IsLast(i, C)' /\ Newest(i, t)'
    BY <1>5, <1>6, <2>1
  <2> QED BY <1>7, <2>2 DEF LastByte
<1>9. Flowing(C)
  BY <1>2 DEF Flowing
<1>10. Whole(Of(C))'
  <2>1. ASSUME NEW j \in Of(C)', \A i \in Of(C)' : j <= i
        PROVE  out'[j].byte = 0
    <3>1. CASE j \in Of(C)
      BY <1>4, <1>5, <2>1, <3>1 DEF ClassInv, Whole
    <3>2. CASE j = last
      <4>1. Of(C) = {}
        <5>1. \A i \in Of(C) : ~(last <= i)
          BY <1>1, <1>4
        <5> QED BY <1>4, <2>1, <3>2, <5>1
      <4>2. ~Midway(t, C)
        BY <1>9, <4>1 DEF ClassInv, LastByte
      <4>3. Written(t) = 0
        BY <1>2, <4>2 DEF Midway
      <4> QED BY <1>3, <1>4, <3>2, <4>3
    <3> QED BY <1>4, <3>1, <3>2
  <2>2. ASSUME NEW i \in Of(C)', NEW j \in Of(C)', i < j,
               \A k \in Of(C)' : k <= i \/ j <= k
        PROVE  Follows(j, i)'
    <3>1. i \in Of(C)
      <4>1. i # last
        BY <1>1, <1>4, <2>2
      <4> QED BY <1>4, <4>1
    <3>2. CASE j \in Of(C)
      <4>1. Follows(j, i)
        BY <1>4, <2>2, <3>1, <3>2 DEF ClassInv, Whole
      <4> QED BY <1>5, <3>1, <3>2, <4>1 DEF Follows
    <3>3. CASE j = last
      <4>1. IsLast(i, C)
        <5>1. \A k \in Of(C) : ~(last <= k)
          BY <1>1, <1>4
        <5> QED BY <1>4, <2>2, <3>1, <3>3, <5>1 DEF IsLast
      <4>2. CASE Midway(t, C)
        <5>1. PICK l \in Of(C) : IsLast(l, C) /\ Newest(l, t)
          BY <1>9, <4>2 DEF ClassInv, LastByte
        <5>2. l = i
          BY <1>4, <4>1, <5>1 DEF IsLast
        <5>3. /\ out[i].thread = t /\ out[i].frame = writer[t].frame
              /\ out[i].byte + 1 = Written(t) /\ ~out[i].last
          BY <1>2, <5>1, <5>2 DEF Newest
        <5>4. /\ out'[i] = out[i] /\ out'[j].byte = Written(t)
              /\ out'[j].thread = t /\ out'[j].frame = writer[t].frame
          BY <1>3, <1>4, <1>5, <3>1, <3>3
        <5> QED BY <5>3, <5>4 DEF Follows
      <4>3. CASE ~Midway(t, C)
        <5>1. \A u \in Threads : ~Midway(u, C)
          BY <1>7, <4>3
        <5>2. out[i].last
          BY <1>9, <3>1, <4>1, <5>1 DEF ClassInv, LastByte
        <5>3. Written(t) = 0
          BY <1>2, <4>3 DEF Midway
        <5>4. out'[i] = out[i] /\ out'[j].byte = 0
          BY <1>3, <1>4, <1>5, <3>1, <3>3, <5>3
        <5> QED BY <5>2, <5>4 DEF Follows
      <4> QED BY <4>2, <4>3
    <3> QED BY <1>4, <3>2, <3>3
  <2> QED BY <2>1, <2>2 DEF Whole
<1> QED BY <1>8, <1>10 DEF ClassInv

LEMMA ClassStep ==
  ASSUME WritersInv, NEW C, Alone(C), ClassInv(C), [FrameNext]_frameVars
  PROVE  ClassInv(C)'
<1>1. CASE FrameNext
  BY <1>1, BeginFrameClass, EnterWriteClass, TakeByteInside, TakeByteOutside,
     WriteReturnsClass, WriteFailsClass, BrokenPipeClass, LinkBreaksClass
     DEF FrameNext, Writing
<1>2. CASE UNCHANGED frameVars
  <2>1. /\ Flowing(C)' => Flowing(C)
        /\ \A u \in Threads : Midway(u, C)' <=> Midway(u, C)
        /\ \A u \in Threads : Written(u)' = Written(u)
    BY <1>2 DEF frameVars, Flowing, In, Inside, Midway, Written
  <2> QED BY <1>2, <2>1, SameBytes DEF frameVars
<1> QED BY <1>1, <1>2

LEMMA ClassInitially ==
  ASSUME FrameInit, NEW C
  PROVE  ClassInv(C)
<1>1. Of(C) = {} /\ \A t \in Threads : ~Inside(t)
  BY DEF FrameInit, Of, Inside, Idle
<1> QED BY <1>1 DEF ClassInv, LastByte, Whole, Midway, In

---------------------------------------------------------------------------
(* The two classes *)

Guarded == Threads \X (Kinds \ Unguarded)
One(t) == {t} \X Kinds

LEMMA GuardedAlone == WritersInv => Alone(Guarded)
BY DEF WritersInv, Locked, Alone, In, Guarded

LEMMA OneAlone ==
  ASSUME NEW t \in Threads
  PROVE  Alone(One(t))
BY DEF Alone, In, One

FrameInv ==
  WritersInv /\ ClassInv(Guarded) /\ \A t \in Threads : ClassInv(One(t))

LEMMA ClassesOfBytes ==
  ASSUME FrameTypeOK
  PROVE  /\ Of(Guarded) = {i \in 1..Len(out) : out[i].kind \notin Unguarded}
         /\ \A t \in Threads :
              Of(One(t)) = {i \in 1..Len(out) : out[i].thread = t}
<1>1. \A i \in 1..Len(out) : out[i].thread \in Threads /\ out[i].kind \in Kinds
  <2>1. \A i \in 1..Len(out) : out[i] \in ByteType
    BY DEF FrameTypeOK
  <2> QED BY <2>1 DEF ByteType
<1> QED BY <1>1 DEF Of, Guarded, One

LEMMA FrameInitially == FrameInit => FrameInv
  BY WritersInitially, ClassInitially DEF FrameInv

LEMMA FrameStep ==
  ASSUME FrameInv, [FrameNext]_frameVars
  PROVE  FrameInv'
<1>1. WritersInv'
  BY WritersStep DEF FrameInv
<1>2. ClassInv(Guarded)'
  <2> DEFINE C == Guarded
  <2>1. Alone(C) /\ ClassInv(C)
    BY GuardedAlone DEF FrameInv
  <2> HIDE DEF C
  <2>2. ClassInv(C)'
    BY <2>1, ClassStep DEF FrameInv
  <2> QED BY <2>2 DEF C
<1>3. ASSUME NEW t \in Threads PROVE ClassInv(One(t))'
  <2> DEFINE C == One(t)
  <2>1. Alone(C) /\ ClassInv(C)
    BY OneAlone DEF FrameInv
  <2> HIDE DEF C
  <2>2. ClassInv(C)'
    BY <2>1, ClassStep DEF FrameInv
  <2> QED BY <2>2 DEF C
<1> QED BY <1>1, <1>2, <1>3 DEF FrameInv

LEMMA FrameFacts ==
  ASSUME FrameInv
  PROVE  FrameTypeOK /\ GuardedWhole /\ ThreadsWhole
<1>1. FrameTypeOK
  BY DEF FrameInv, WritersInv
<1>2. GuardedWhole /\ ThreadsWhole
  BY <1>1, ClassesOfBytes DEF FrameInv, ClassInv, GuardedWhole, ThreadsWhole
<1> QED BY <1>1, <1>2

\* Where each thread stands in Write_nByte, and what the kernel has taken: no
\* write is asked for more than the rest of its message, although a failed write
\* is added to the count.
THEOREM FrameType == FairFrameSpec => []FrameTypeOK
<1>1. FrameInv /\ [FrameNext]_frameVars => FrameInv'
  BY FrameStep
<1>2. FrameInv => FrameTypeOK
  BY FrameFacts
<1> QED BY <1>1, <1>2, FrameInitially, PTL DEF FairFrameSpec, FrameSpec

\* Whichever messages process_packet and its like write without the mutex: the
\* messages that mutex_write_FD writes (replies and keep-alives) stay whole
\* among themselves, whatever their sizes, however write cuts them, and although
\* Write_nByte goes on one byte earlier after a write that failed.
THEOREM GuardedWritesKeepFrames == FairFrameSpec => []GuardedWhole
<1>1. FrameInv /\ [FrameNext]_frameVars => FrameInv'
  BY FrameStep
<1>2. FrameInv => GuardedWhole
  BY FrameFacts
<1> QED BY <1>1, <1>2, FrameInitially, PTL DEF FairFrameSpec, FrameSpec

\* The messages one thread writes never mix, guarded or not: Write_nByte does
\* not return before its message is out or given up.
THEOREM ThreadsKeepFrames == FairFrameSpec => []ThreadsWhole
<1>1. FrameInv /\ [FrameNext]_frameVars => FrameInv'
  BY FrameStep
<1>2. FrameInv => ThreadsWhole
  BY FrameFacts
<1> QED BY <1>1, <1>2, FrameInitially, PTL DEF FairFrameSpec, FrameSpec

=============================================================================
