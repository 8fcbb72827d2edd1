---------------------------- MODULE FrameWriter ----------------------------
(***************************************************************************)
(* How the two threads of the server write messages to one connection:     *)
(* Write_nByte, under the mutex of the record (mutex_write_FD) for replies *)
(* (type 101, main thread) and keep-alives (type 104), and without it for  *)
(* packets (type 103, process_packet in the main thread).                  *)
(*                                                                         *)
(* The kernel takes the bytes of a write as its buffer has room for them,  *)
(* so the bytes of two writes may mix; a write may return before it has    *)
(* taken all bytes, and Write_nByte then writes the rest.  A write fails    *)
(* when the other thread has closed the descriptor, or the peer has reset  *)
(* the connection; Write_nByte adds the -1 to its count like any result.   *)
(***************************************************************************)
EXTENDS Integers, Sequences

CONSTANTS
  Threads,    \* the threads that write
  NoThread,   \* no thread
  Writes,     \* Writes[t]: the kinds of message thread t writes
  Unguarded,  \* those written without the mutex
  FrameSize,  \* FrameSize[k]: header and payload of a message of kind k
  MaxFrames   \* bound: messages each thread writes

Kinds == UNION {Writes[t] : t \in Threads}

ASSUME FrameAssumption ==
  /\ NoThread \notin Threads
  /\ Unguarded \subseteq Kinds
  /\ FrameSize \in [Kinds -> Nat \ {0}]
  /\ MaxFrames \in Nat

VARIABLES
  mutex,   \* the thread that holds the record's mutex
  writer,  \* where each thread stands in Write_nByte, see Writers
  link,    \* what a new call of write finds, see Links
  out      \* the bytes the kernel has taken, see ByteType

frameVars == <<mutex, writer, link, out>>

\* frame: the messages the thread has begun; kind: of the last one.  call:
\* about to call write; write: in it.  first: the first write of the message;
\* n: the variable n of Write_nByte; taken: the bytes the write in progress has
\* given to the kernel.
Writers ==
  [pc : {"idle", "call", "write", "killed"}, frame : 0..MaxFrames, kind : Kinds,
   first : BOOLEAN, n : Int, taken : Nat]

\* closed: by the other thread.  reset: by the peer, which the next write
\* reports (ECONNRESET); drained: after that report every write raises SIGPIPE.
Links == {"up", "closed", "reset", "drained"}

\* A byte of a message: its offset, and whether it is the last.
ByteType ==
  [thread : Threads, frame : 1..MaxFrames, kind : Kinds, byte : Int,
   last : BOOLEAN]

FrameTypeOK ==
  /\ mutex \in Threads \cup {NoThread}
  /\ writer \in [Threads -> Writers]
  /\ \A t \in Threads :
       writer[t].n + writer[t].taken <= FrameSize[writer[t].kind]
  /\ link \in Links
  /\ out \in Seq(ByteType)

Idle(f, k) ==
  [pc |-> "idle", frame |-> f, kind |-> k, first |-> FALSE, n |-> 0, taken |-> 0]

FrameInit ==
  /\ mutex = NoThread
  /\ writer \in [Threads -> {Idle(0, k) : k \in Kinds}]
  /\ link = "up"
  /\ out = <<>>

---------------------------------------------------------------------------
(* Write_nByte *)

\* Who holds the mutex while a message of kind k is written.  Faulty variant:
\* mutex_write_FD does not lock.
HolderForgotten(t, k) == mutex
Holder(t, k) == IF k \in Unguarded THEN mutex ELSE t

\* mutex_write_FD or process_packet enters Write_nByte.
BeginFrame(t, k) ==
  /\ writer[t].pc = "idle"
  /\ k \in Writes[t]
  /\ writer[t].frame < MaxFrames
  /\ k \notin Unguarded => mutex = NoThread
  /\ mutex' = Holder(t, k)
  /\ writer' = [writer EXCEPT ![t] = [pc |-> "call", frame |-> @.frame + 1,
                                      kind |-> k, first |-> TRUE, n |-> 0,
                                      taken |-> 0]]
  /\ UNCHANGED <<link, out>>

\* write looks its descriptor up once: it goes on when that is closed later.
EnterWrite(t) ==
  /\ writer[t].pc = "call"
  /\ link = "up"
  /\ writer' = [writer EXCEPT ![t].pc = "write"]
  /\ UNCHANGED <<mutex, link, out>>

\* The offset in the message of the next byte that write takes from buf + n.
\* Faulty variant: the rest is written from buf.
FromStart(w) == w.taken
Offset(w) == w.n + w.taken

\* write has not been given all its bytes.  Faulty variant: Write_nByte asks
\* for all of them again.
WantsAllAgain(w) == w.taken < FrameSize[w.kind]
Wants(w) == w.n + w.taken < FrameSize[w.kind]

TakeByte(t) ==
  LET w == writer[t] IN
  /\ w.pc = "write"
  /\ link \notin {"reset", "drained"}
  /\ Wants(w)
  /\ out' = Append(out, [thread |-> t, frame |-> w.frame, kind |-> w.kind,
                         byte |-> Offset(w),
                         last |-> Offset(w) + 1 = FrameSize[w.kind]])
  /\ writer' = [writer EXCEPT ![t].taken = @ + 1]
  /\ UNCHANGED <<mutex, link>>

\* write has returned and n is the count with its result: while(n != nbyte),
\* and if(n <= 0), which the first write of a message does not come by.
Done(w, n) == n = FrameSize[w.kind] \/ (~w.first /\ n <= 0)

Counts(t, n) ==
  LET w == writer[t] IN
  IF Done(w, n)
  THEN /\ writer' = [writer EXCEPT ![t] = Idle(w.frame, w.kind)]
       /\ mutex' = IF w.kind \in Unguarded THEN mutex ELSE NoThread
  ELSE /\ writer' = [writer EXCEPT ![t] = [pc |-> "call", frame |-> w.frame,
                                           kind |-> w.kind, first |-> FALSE,
                                           n |-> n, taken |-> 0]]
       /\ UNCHANGED mutex

WriteReturns(t) ==
  /\ writer[t].pc = "write"
  /\ writer[t].taken > 0
  /\ Counts(t, writer[t].n + writer[t].taken)
  /\ UNCHANGED <<link, out>>

\* What a failed write adds to the count.  Faulty variant: nothing.
FailedIgnored == 0
Failed == -1

\* write returns -1: on a closed descriptor, or to report the reset.
WriteFails(t) ==
  /\ \/ writer[t].pc = "call" /\ link \in {"closed", "reset"}
     \/ writer[t].pc = "write" /\ writer[t].taken = 0 /\ link = "reset"
  /\ Counts(t, writer[t].n + Failed)
  /\ link' = IF link = "reset" THEN "drained" ELSE link
  /\ UNCHANGED out

\* Nothing handles SIGPIPE: it kills the process.
BrokenPipe(t) ==
  /\ \/ writer[t].pc = "call"
     \/ writer[t].pc = "write" /\ writer[t].taken = 0
  /\ link = "drained"
  /\ writer' = [u \in Threads |-> [writer[u] EXCEPT !.pc = "killed"]]
  /\ UNCHANGED <<mutex, link, out>>

---------------------------------------------------------------------------
(* The connection *)

PeerResets ==
  /\ link = "up"
  /\ link' = "reset"
  /\ UNCHANGED <<mutex, writer, out>>

\* A thread closes the descriptor, after the end of the stream or a time-out;
\* neither holds the record's mutex.
CloseElsewhere ==
  /\ link # "closed"
  /\ link' = "closed"
  /\ UNCHANGED <<mutex, writer, out>>

Writing(t) ==
  \/ EnterWrite(t)
  \/ TakeByte(t)
  \/ WriteReturns(t)
  \/ WriteFails(t)
  \/ BrokenPipe(t)

FrameNext ==
  \/ \E t \in Threads : (\E k \in Kinds : BeginFrame(t, k)) \/ Writing(t)
  \/ PeerResets
  \/ CloseElsewhere

FrameSpec == FrameInit /\ [][FrameNext]_frameVars

\* The kernel schedules the threads, and finds room for the next byte: the peer
\* reads on, or is given up.
FairFrameSpec == FrameSpec /\ \A t \in Threads : WF_frameVars(Writing(t))

---------------------------------------------------------------------------
(* Properties *)

\* Byte j comes right after byte i in a sequence of whole messages.
Follows(j, i) ==
  IF out[i].last
  THEN out[j].byte = 0
  ELSE /\ out[j].byte = out[i].byte + 1
       /\ out[j].thread = out[i].thread
       /\ out[j].frame = out[i].frame

\* The bytes at the places S are whole messages, of which only the last may be
\* unfinished.  The byte before the rest, which Write_nByte begins with after a
\* failed write, never goes out: on one connection no write succeeds after one
\* that failed.
Whole(S) ==
  /\ \A j \in S : (\A i \in S : j <= i) => out[j].byte = 0
  /\ \A i, j \in S :
       i < j /\ (\A k \in S : k <= i \/ j <= k) => Follows(j, i)

\* "tcp_payload[ Msg_Hdr[length | type] | Msg[ipv4_payload] ]": the mutex keeps
\* the messages written under it from each other; only the bytes of a message
\* written without it may come between their bytes, and theirs between its.
GuardedWhole == Whole({i \in 1..Len(out) : out[i].kind \notin Unguarded})

\* And what one thread writes never mixes with what else it writes, guarded or
\* not.
ThreadsWhole ==
  \A t \in Threads : Whole({i \in 1..Len(out) : out[i].thread = t})

\* Write_nByte comes to an end, and lets go of the record's mutex, although it
\* tries every failed write again: each one counts down to n <= 0.
WriteEnds ==
  \A t \in Threads :
    writer[t].pc \in {"call", "write"} ~> writer[t].pc \in {"idle", "killed"}

=============================================================================
