---------------------------- MODULE TunnelProofs ----------------------------
(***************************************************************************)
(* However large the buffers are, however many keep-alives and packets     *)
(* come, and in any interleaving: each puts one packet on the round at     *)
(* most, and it takes enough of them to fill both directions before the    *)
(* client and the server can wait for each other.                          *)
(*                                                                         *)
(* Both follow from a sum that only a new keep-alive and a new packet from *)
(* outside raise.  It counts the elements of the two buffers by type.      *)
(***************************************************************************)
EXTENDS Tunnel, FiniteSetTheorems, TLAPS

---------------------------------------------------------------------------
(* Counting in a sequence *)

Positions(s, t) == {i \in 1..Len(s) : s[i] = t}

LEMMA PositionsFinite ==
  ASSUME NEW S, NEW s \in Seq(S), NEW t
  PROVE  IsFiniteSet(Positions(s, t)) /\ CountOf(s, t) \in Nat
<1>1. IsFiniteSet(1..Len(s))
  BY FS_Interval
<1>2. Positions(s, t) \in SUBSET (1..Len(s))
  BY DEF Positions
<1>3. IsFiniteSet(Positions(s, t))
  BY <1>1, <1>2, FS_Subset
<1>4. CountOf(s, t) = Cardinality(Positions(s, t))
  BY DEF CountOf, Positions
<1> QED
  BY <1>3, <1>4, FS_CardinalityType

LEMMA CountEmpty ==
  ASSUME NEW t
  PROVE  CountOf(<<>>, t) = 0
<1>1. {i \in 1..Len(<<>>) : <<>>[i] = t} = {}
  OBVIOUS
<1> QED
  BY <1>1, FS_EmptySet DEF CountOf

LEMMA CountAppend ==
  ASSUME NEW S, NEW s \in Seq(S), NEW x \in S, NEW t
  PROVE  CountOf(Append(s, x), t)
           = CountOf(s, t) + (IF x = t THEN 1 ELSE 0)
<1> DEFINE r == Append(s, x)
<1> DEFINE P == Positions(s, t)
<1>1. Len(r) = Len(s) + 1 /\ r[Len(s) + 1] = x
  OBVIOUS
<1>2. \A i \in 1..Len(s) : r[i] = s[i]
  OBVIOUS
<1>3. Len(s) \in Nat
  OBVIOUS
<1>4. IsFiniteSet(P) /\ CountOf(s, t) \in Nat /\ CountOf(s, t) = Cardinality(P)
  BY PositionsFinite DEF CountOf, Positions
<1>5. Len(s) + 1 \notin P
  BY <1>3 DEF Positions
<1>6. CountOf(r, t) = Cardinality(Positions(r, t))
  BY DEF CountOf, Positions
<1> HIDE DEF r
<1>7. CASE x = t
  <2>1. Positions(r, t) = P \cup {Len(s) + 1}
    BY <1>1, <1>2, <1>3, <1>7 DEF Positions
  <2>2. Cardinality(P \cup {Len(s) + 1}) = Cardinality(P) + 1
    BY ONLY <1>4, <1>5, FS_AddElement
  <2>3. CountOf(r, t) = Cardinality(P \cup {Len(s) + 1})
    BY ONLY <1>6, <2>1
  <2> HIDE DEF P
  <2>4. CountOf(r, t) = CountOf(s, t) + (IF x = t THEN 1 ELSE 0)
    BY ONLY <1>4, <1>7, <2>2, <2>3
  <2> QED
    BY <2>4 DEF r
<1>8. CASE x # t
  <2>1. Positions(r, t) = P
    BY <1>1, <1>2, <1>3, <1>8 DEF Positions
  <2> QED
    BY <2>1, <1>4, <1>6, <1>8 DEF r
<1> QED
  BY <1>7, <1>8

LEMMA CountTail ==
  ASSUME NEW S, NEW s \in Seq(S), s # <<>>, NEW t
  PROVE  CountOf(s, t)
           = CountOf(Tail(s), t) + (IF Head(s) = t THEN 1 ELSE 0)
<1> DEFINE r == Tail(s)
<1> DEFINE P == Positions(r, t)
<1> DEFINE Q == {i \in 2..Len(s) : s[i] = t}
<1>1. r \in Seq(S) /\ Len(s) \in Nat \ {0} /\ Len(r) = Len(s) - 1
  OBVIOUS
<1>2. \A i \in 1..Len(r) : r[i] = s[i + 1]
  OBVIOUS
<1>3. Head(s) = s[1]
  OBVIOUS
<1>4. IsFiniteSet(P) /\ CountOf(r, t) \in Nat /\ CountOf(r, t) = Cardinality(P)
  BY <1>1, PositionsFinite DEF CountOf, Positions
<1>5. CountOf(s, t) = Cardinality(Positions(s, t))
  BY DEF CountOf, Positions
<1> HIDE DEF r
<1>6. ExistsBijection(P, Q)
  <2> DEFINE f == [i \in P |-> i + 1]
  <2>1. f \in [P -> Q]
    BY <1>1, <1>2 DEF Positions
  <2>2. \A i, j \in P : f[i] = f[j] => i = j
    BY <1>1 DEF Positions
  <2>3. \A j \in Q : \E i \in P : f[i] = j
    <3> SUFFICES ASSUME NEW j \in Q PROVE \E i \in P : f[i] = j
      OBVIOUS
    <3>1. j - 1 \in 1..Len(r) /\ (j - 1) + 1 = j
      BY <1>1
    <3>2. r[j - 1] = s[j]
      BY <3>1, <1>2
    <3>3. j - 1 \in P
      BY <3>1, <3>2 DEF Positions
    <3> QED
      BY <3>1, <3>3
  <2> HIDE DEF f
  <2>4. f \in Bijection(P, Q)
    BY <2>1, <2>2, <2>3 DEF Bijection, Injection, Surjection, IsInjective
  <2> QED
    BY <2>4 DEF ExistsBijection
<1>7. IsFiniteSet(Q) /\ Cardinality(Q) = CountOf(r, t)
  BY <1>4, <1>6, FS_Bijection
<1>8. 1 \notin Q
  OBVIOUS
<1>9. CASE Head(s) = t
  <2>1. Positions(s, t) = Q \cup {1}
    BY <1>1, <1>3, <1>9 DEF Positions
  <2> HIDE DEF Q
  <2>2. Cardinality(Q \cup {1}) = Cardinality(Q) + 1
    BY <1>7, <1>8, FS_AddElement
  <2>3. CountOf(s, t) = CountOf(r, t) + 1
    BY <2>1, <2>2, <1>5, <1>7
  <2> QED
    BY <2>3, <1>9 DEF r
<1>10. CASE Head(s) # t
  <2>1. Positions(s, t) = Q
    BY <1>1, <1>3, <1>10 DEF Positions
  <2> HIDE DEF Q
  <2>2. CountOf(s, t) = CountOf(r, t) /\ CountOf(r, t) \in Nat
    BY <2>1, <1>4, <1>5, <1>7
  <2> QED
    BY <2>2, <1>10 DEF r
<1> QED
  BY <1>9, <1>10

---------------------------------------------------------------------------
(* The invariant *)

\* What the threads have in hand, as numbers to add.
Replying == IF main = "reply" THEN 1 ELSE 0
Sending == IF main = "write" THEN 1 ELSE 0
Renewing == IF main = "renew" /\ hand = 102 THEN 1 ELSE 0
Busy == IF main \in {"write", "reply", "renew"} THEN 1 ELSE 0
Keeping == IF keeper = "write" THEN 1 ELSE 0
Awaiting == IF client = "await" THEN 1 ELSE 0
Answering == IF todo # <<>> THEN 1 ELSE 0

\* Where the threads stand, and what the main thread has seen there.
Places ==
  /\ main = "raw" /\ "raw" \in rset => raw > 0
  /\ main \in {"raw", "write", "client"} /\ "client" \in rset => up # <<>>
  /\ main = "reply" => hand = 100
  /\ main = "renew" => hand \in {102, 104}
  /\ todo # <<>> => client = "loop"

\* While the client waits for its address, its request or the reply is under
\* way, once, and at no other time.
Asking == CountOf(up, 100) + CountOf(down, 101) + Replying = Awaiting

\* The packets on their way round, and the keep-alives that will be answered
\* with one: in the buffers, in the network, in a thread's hand.
Buffered == CountOf(up, 102) + CountOf(down, 103) + CountOf(down, 104)
Network == net + raw
Carried == Sending + Renewing + Answering + Keeping

Rounds == Buffered + Network + Carried <= sent + outside

\* The messages that fill the buffers or are to be written, and those that
\* what a thread has in hand, or a keep-alive in a buffer, will add to them.
Queued == Len(up) + Len(down) + Len(todo)
Pending == CountOf(down, 104) + Busy + Keeping + Keeping
Paid == sent + sent + outside

Filling == Queued + Pending + Network <= Paid + Awaiting

TunnelInv == TunnelTypeOK /\ Places /\ Asking /\ Rounds /\ Filling

LEMMA CountsAreNat ==
  ASSUME TunnelTypeOK
  PROVE  \A t : CountOf(up, t) \in Nat /\ CountOf(down, t) \in Nat
<1>1. up \in Seq(ToServer) /\ down \in Seq(ToClient)
  BY DEF TunnelTypeOK
<1> QED
  BY <1>1, PositionsFinite

LEMMA NumbersAreNat ==
  ASSUME TunnelTypeOK
  PROVE  /\ net \in Nat /\ raw \in Nat /\ sent \in Nat /\ outside \in Nat
         /\ Len(up) \in Nat /\ Len(down) \in Nat /\ Len(todo) \in 0..2
<1>1. Len(todo) \in 0..2
  <2>1. Len(<<>>) = 0 /\ Len(<<102>>) = 1 /\ Len(<<104, 102>>) = 2
    OBVIOUS
  <2> QED
    BY <2>1 DEF TunnelTypeOK
<1>2. Len(up) \in Nat /\ Len(down) \in Nat
  BY DEF TunnelTypeOK
<1>3. net \in Nat /\ raw \in Nat /\ sent \in Nat /\ outside \in Nat
  BY TunnelAssumption DEF TunnelTypeOK
<1> QED
  BY <1>1, <1>2, <1>3

LEMMA HandsAreNat ==
  /\ Replying \in Nat /\ Sending \in Nat /\ Renewing \in Nat /\ Busy \in Nat
  /\ Keeping \in Nat /\ Awaiting \in Nat /\ Answering \in Nat
BY DEF Replying, Sending, Renewing, Busy, Keeping, Awaiting, Answering

LEMMA SumsAreNat ==
  ASSUME TunnelTypeOK
  PROVE  /\ Buffered \in Nat /\ Network \in Nat /\ Carried \in Nat
         /\ Queued \in Nat /\ Pending \in Nat /\ Paid \in Nat
<1>1. Buffered \in Nat
  BY CountsAreNat DEF Buffered
<1>2. Network \in Nat /\ Paid \in Nat /\ Queued \in Nat
  BY NumbersAreNat DEF Network, Paid, Queued
<1>3. Carried \in Nat
  BY HandsAreNat DEF Carried
<1>4. Pending \in Nat
  BY CountsAreNat, HandsAreNat DEF Pending
<1> QED
  BY <1>1, <1>2, <1>3, <1>4

LEMMA TodoLengths ==
  ASSUME TunnelTypeOK, todo # <<>>
  PROVE  /\ Len(todo) \in {1, 2} /\ Len(Tail(todo)) = Len(todo) - 1
         /\ Tail(todo) \in {<<>>, <<102>>}
         /\ Tail(todo) # <<>> <=> todo = <<104, 102>>
         /\ Head(todo) = IF todo = <<104, 102>> THEN 104 ELSE 102
<1>1. CASE todo = <<102>>
  <2>1. Tail(todo) = <<>> /\ Head(todo) = 102 /\ Len(todo) = 1
    BY <1>1
  <2>2. todo # <<104, 102>>
    BY <1>1
  <2> QED
    BY <2>1, <2>2
<1>2. CASE todo = <<104, 102>>
  <2>1. Tail(todo) = <<102>> /\ Head(todo) = 104 /\ Len(todo) = 2
    BY <1>2
  <2> QED
    BY <2>1, <1>2
<1> QED
  BY <1>1, <1>2 DEF TunnelTypeOK

LEMMA TunnelInitially ==
  ASSUME TunnelInit
  PROVE  TunnelInv
<1>1. \A t : CountOf(up, t) = 0 /\ CountOf(down, t) = 0
  BY CountEmpty DEF TunnelInit
<1>2. Len(up) = 0 /\ Len(down) = 0 /\ Len(todo) = 0
  BY DEF TunnelInit
<1>3. TunnelTypeOK
  <2>1. up \in Seq(ToServer) /\ down \in Seq(ToClient)
    BY DEF TunnelInit
  <2>2. todo \in {<<>>, <<102>>, <<104, 102>>}
    BY DEF TunnelInit
  <2>3. Len(up) <= UpCap /\ Len(down) <= DownCap
    BY <1>2, TunnelAssumption
  <2>4. /\ net \in Nat /\ raw \in 0..RawCap
        /\ sent \in 0..MaxKeepAlives /\ answered \in Nat
        /\ outside \in 0..MaxOutside
    BY TunnelAssumption DEF TunnelInit
  <2> QED
    BY <2>1, <2>2, <2>3, <2>4 DEF TunnelInit, TunnelTypeOK, ToServer
<1>4. Places
  BY DEF TunnelInit, Places
<1>5. Asking /\ Rounds /\ Filling
  BY <1>1, <1>2 
  DEF TunnelInit, Asking, Rounds, Filling, Buffered, Network, Carried, Queued,
      Pending, Paid, Replying, Sending, Renewing, Busy, Keeping, Awaiting,
      Answering
<1> QED
  BY <1>3, <1>4, <1>5 DEF TunnelInv

\* What the sums are before a step, and what the step must leave.
Sums ==
  /\ Buffered + Network + Carried <= sent + outside
  /\ Queued + Pending + Network <= Paid + Awaiting
  /\ Buffered \in Nat /\ Network \in Nat /\ Carried \in Nat
  /\ Queued \in Nat /\ Pending \in Nat /\ Paid \in Nat
  /\ Awaiting \in Nat /\ sent \in Nat /\ outside \in Nat

LEMMA SumsBefore ==
  ASSUME TunnelInv
  PROVE  Sums
<1>1. TunnelTypeOK /\ Rounds /\ Filling
  BY DEF TunnelInv
<1> QED
  BY <1>1, SumsAreNat, HandsAreNat, NumbersAreNat DEF Rounds, Filling, Sums

LEMMA Parts ==
  ASSUME TunnelInv
  PROVE  TunnelTypeOK /\ Places /\ Asking /\ Rounds /\ Filling
BY DEF TunnelInv

\* The type invariant, by what its conjuncts are about.
UpOK == up \in Seq(ToServer) /\ Len(up) <= UpCap
DownOK == down \in Seq(ToClient) /\ Len(down) <= DownCap
TodoOK == todo \in {<<>>, <<102>>, <<104, 102>>}
LabelsOK ==
  /\ client \in {"request", "await", "loop"}
  /\ main \in {"select", "raw", "write", "client", "reply", "renew"}
  /\ rset \subseteq {"raw", "client"}
  /\ hand \in ToServer
  /\ leased \in BOOLEAN
  /\ keeper \in {"sleep", "write"}
NumbersOK ==
  /\ net \in Nat /\ raw \in 0..RawCap
  /\ sent \in 0..MaxKeepAlives /\ answered \in Nat /\ outside \in 0..MaxOutside

LEMMA TypeBefore ==
  ASSUME TunnelInv
  PROVE  UpOK /\ DownOK /\ TodoOK /\ LabelsOK /\ NumbersOK
<1> TunnelTypeOK
  BY Parts
<1>1. UpOK /\ DownOK /\ TodoOK
  BY DEF TunnelTypeOK, UpOK, DownOK, TodoOK
<1>2. LabelsOK
  BY DEF TunnelTypeOK, LabelsOK
<1>3. NumbersOK
  BY DEF TunnelTypeOK, NumbersOK
<1> QED
  BY <1>1, <1>2, <1>3

LEMMA TypeAfter ==
  ASSUME UpOK', DownOK', TodoOK', LabelsOK', NumbersOK'
  PROVE  TunnelTypeOK'
BY DEF TunnelTypeOK, UpOK, DownOK, TodoOK, LabelsOK, NumbersOK

---------------------------------------------------------------------------
(* The client keeps the invariant *)

LEMMA RequestIpv4Keeps ==
  ASSUME TunnelInv, RequestIpv4
  PROVE  TunnelInv'
<1> TunnelTypeOK /\ Places /\ Asking
  BY Parts
<1> UpOK /\ DownOK /\ TodoOK /\ LabelsOK /\ NumbersOK
  BY TypeBefore
<1>1. up \in Seq(ToServer) /\ 100 \in ToServer /\ up' = Append(up, 100)
  BY DEF TunnelTypeOK, RequestIpv4, ToServer
<1>2. /\ up' \in Seq(ToServer) /\ up' # <<>>
      /\ Len(up') = Len(up) + 1 /\ Len(up) \in Nat
  BY <1>1
<1>3. /\ CountOf(up', 100) = CountOf(up, 100) + 1
      /\ CountOf(up', 102) = CountOf(up, 102)
  BY <1>1, CountAppend, CountsAreNat
<1>4. UNCHANGED <<down, todo, main, rset, hand, leased, keeper, net, raw, sent,
                  answered, outside>>
  BY DEF RequestIpv4, serverVars, history
<1>5. /\ Replying' = Replying /\ Carried' = Carried /\ Network' = Network
      /\ Pending' = Pending /\ Paid' = Paid
      /\ Awaiting' = Awaiting + 1
  BY <1>4 DEF RequestIpv4, Replying, Sending, Renewing, Busy, Keeping, Awaiting,
              Answering, Carried, Network, Pending, Paid
<1>6. Buffered' = Buffered
  BY <1>3, <1>4 DEF Buffered
<1>7. Queued' = Queued + 1
  BY <1>2, <1>4, NumbersAreNat DEF Queued
<1>8. TunnelTypeOK'
  <2>1. UpOK'
    BY <1>2, NumbersAreNat, TunnelAssumption DEF UpOK, RequestIpv4
  <2>2. DownOK'
    BY <1>4 DEF DownOK
  <2>3. TodoOK'
    BY <1>4 DEF TodoOK
  <2>4. LabelsOK'
    BY <1>4 DEF LabelsOK, RequestIpv4
  <2>5. NumbersOK'
    BY <1>4 DEF NumbersOK
  <2> QED
    BY <2>1, <2>2, <2>3, <2>4, <2>5, TypeAfter
<1>9. Places'
  BY <1>2, <1>4 DEF Places, RequestIpv4
<1>10. Asking'
  BY <1>3, <1>4, <1>5, CountsAreNat, HandsAreNat DEF Asking
<1>11. Rounds'
  BY <1>4, <1>5, <1>6, SumsBefore DEF Rounds, Sums
<1>12. Filling'
  BY <1>5, <1>7, SumsBefore DEF Filling, Sums
<1> QED
  BY <1>8, <1>9, <1>10, <1>11, <1>12 DEF TunnelInv

LEMMA ReadReplyKeeps ==
  ASSUME TunnelInv, ReadReply
  PROVE  TunnelInv'
<1> TunnelTypeOK /\ Places /\ Asking
  BY Parts
<1> UpOK /\ DownOK /\ TodoOK /\ LabelsOK /\ NumbersOK
  BY TypeBefore
<1>1. down \in Seq(ToClient) /\ down # <<>> /\ Head(down) = 101
  BY DEF TunnelTypeOK, ReadReply
<1>2. /\ down' = Tail(down) /\ down' \in Seq(ToClient)
      /\ Len(down') = Len(down) - 1 /\ Len(down) \in Nat /\ Len(down') \in Nat
  BY <1>1 DEF ReadReply
<1>3. /\ CountOf(down, 101) = CountOf(down', 101) + 1
      /\ CountOf(down, 103) = CountOf(down', 103) + 0
      /\ CountOf(down, 104) = CountOf(down', 104) + 0
  BY <1>1, <1>2, CountTail
<1>4. /\ CountOf(down', 101) \in Nat /\ CountOf(down', 103) \in Nat
      /\ CountOf(down', 104) \in Nat
  BY <1>2, PositionsFinite
<1>5. UNCHANGED <<up, todo, main, rset, hand, leased, keeper, net, raw, sent,
                  answered, outside>>
  BY DEF ReadReply, serverVars, history
<1>6. /\ CountOf(down', 103) = CountOf(down, 103)
      /\ CountOf(down', 104) = CountOf(down, 104)
  BY <1>3, <1>4
<1>7. /\ Replying' = Replying /\ Carried' = Carried /\ Network' = Network
      /\ Paid' = Paid /\ Awaiting = 1 /\ Awaiting' = 0
  BY <1>5 DEF ReadReply, Replying, Sending, Renewing, Keeping, Awaiting,
              Answering, Carried, Network, Paid
<1>8. Buffered' = Buffered /\ Pending' = Pending
  BY <1>5, <1>6 DEF Buffered, Pending, Busy, Keeping
<1>9. Queued' = Queued - 1
  BY <1>2, <1>5, NumbersAreNat DEF Queued
<1>10. TunnelTypeOK'
  <2>1. UpOK'
    BY <1>5 DEF UpOK
  <2>2. DownOK'
    BY <1>2, TunnelAssumption DEF DownOK
  <2>3. TodoOK'
    BY <1>5 DEF TodoOK
  <2>4. LabelsOK'
    BY <1>5 DEF LabelsOK, ReadReply
  <2>5. NumbersOK'
    BY <1>5 DEF NumbersOK
  <2> QED
    BY <2>1, <2>2, <2>3, <2>4, <2>5, TypeAfter
<1>11. Places'
  BY <1>5 DEF Places, ReadReply
<1>12. Asking'
  BY <1>3, <1>4, <1>5, <1>7, CountsAreNat, HandsAreNat DEF Asking
<1>13. Rounds'
  BY <1>5, <1>7, <1>8, SumsBefore DEF Rounds, Sums
<1>14. Filling'
  BY <1>7, <1>8, <1>9, SumsBefore DEF Filling, Sums
<1> QED
  BY <1>10, <1>11, <1>12, <1>13, <1>14 DEF TunnelInv

\* A keep-alive costs the buffers two messages, and the round one packet.
LEMMA ClientReadsKeeps ==
  ASSUME TunnelInv, ClientReads
  PROVE  TunnelInv'
<1> TunnelTypeOK /\ Places /\ Asking
  BY Parts
<1> UpOK /\ DownOK /\ TodoOK /\ LabelsOK /\ NumbersOK
  BY TypeBefore
<1> DEFINE m == Head(down)
<1>1. down \in Seq(ToClient) /\ down # <<>>
  BY DEF TunnelTypeOK, ClientReads
<1>2. /\ down' = Tail(down) /\ down' \in Seq(ToClient) /\ m \in ToClient
      /\ Len(down') = Len(down) - 1 /\ Len(down) \in Nat /\ Len(down') \in Nat
  BY <1>1 DEF ClientReads
<1>3. \A t : CountOf(down, t) = CountOf(down', t) + (IF m = t THEN 1 ELSE 0)
  BY <1>1, <1>2, CountTail
<1>4. /\ CountOf(down', 101) \in Nat /\ CountOf(down', 103) \in Nat
      /\ CountOf(down', 104) \in Nat
  BY <1>2, PositionsFinite
<1>5. UNCHANGED <<up, client, main, rset, hand, leased, keeper, net, raw, sent,
                  answered, outside>>
  BY DEF ClientReads, serverVars, history
<1>6. /\ todo = <<>> /\ Len(todo) = 0
      /\ todo' \in {<<102>>, <<104, 102>>} /\ todo' # <<>>
      /\ Len(todo') = IF m = 104 THEN 2 ELSE 1
  BY DEF ClientReads, Answers
<1> HIDE DEF m
<1>7. Awaiting = 0 /\ Awaiting' = 0 /\ Replying' = Replying
  BY <1>5 DEF ClientReads, Awaiting, Replying
<1>8. CountOf(up, 100) \in Nat /\ Replying \in Nat
  BY CountsAreNat, HandsAreNat
<1>9. m # 101
  <2> SUFFICES ASSUME m = 101 PROVE FALSE
    OBVIOUS
  <2>1. CountOf(down, 101) = CountOf(down', 101) + 1
    BY <1>3
  <2> QED
    BY <2>1, <1>4, <1>7, <1>8 DEF Asking
<1>10. CountOf(down', 101) = CountOf(down, 101)
  BY <1>3, <1>4, <1>9
<1>11. /\ CountOf(down', 103) + CountOf(down', 104) + 1
            = CountOf(down, 103) + CountOf(down, 104)
       /\ CountOf(down', 104) + (IF m = 104 THEN 1 ELSE 0) = CountOf(down, 104)
  <2>1. CASE m = 103
    <3>1. /\ CountOf(down, 103) = CountOf(down', 103) + 1
          /\ CountOf(down, 104) = CountOf(down', 104) + 0
      BY <1>3, <2>1
    <3> QED
      BY <3>1, <1>4, <2>1
  <2>2. CASE m = 104
    <3>1. /\ CountOf(down, 103) = CountOf(down', 103) + 0
          /\ CountOf(down, 104) = CountOf(down', 104) + 1
      BY <1>3, <2>2
    <3> QED
      BY <3>1, <1>4, <2>2
  <2> QED
    BY <2>1, <2>2, <1>2, <1>9 DEF ToClient
<1>12. Buffered' = Buffered - 1
  <2>1. /\ CountOf(up', 102) = CountOf(up, 102) /\ CountOf(up, 102) \in Nat
        /\ CountOf(down, 103) \in Nat /\ CountOf(down, 104) \in Nat
    BY <1>5, CountsAreNat
  <2> QED
    BY <2>1, <1>4, <1>11 DEF Buffered
<1>13. Carried' = Carried + 1 /\ Network' = Network /\ Paid' = Paid
  <2>1. Answering = 0 /\ Answering' = 1
    BY <1>6 DEF Answering
  <2>2. Sending' = Sending /\ Renewing' = Renewing /\ Keeping' = Keeping
    BY <1>5 DEF Sending, Renewing, Keeping
  <2>3. Network' = Network /\ Paid' = Paid
    BY <1>5 DEF Network, Paid
  <2> QED
    BY <2>1, <2>2, <2>3, HandsAreNat DEF Carried
<1>14. Queued' = Queued + (IF m = 104 THEN 1 ELSE 0)
  <2>1. Len(up') = Len(up) /\ Len(up) \in Nat
    BY <1>5, NumbersAreNat
  <2>2. Len(down') = Len(down) - 1 /\ Len(down) \in Nat
    BY ONLY <1>2
  <2>3. Len(todo) = 0 /\ Len(todo') = 1 + (IF m = 104 THEN 1 ELSE 0)
    BY ONLY <1>6
  <2> QED
    BY ONLY <2>1, <2>2, <2>3 DEF Queued
<1>15. Pending' = Pending - (IF m = 104 THEN 1 ELSE 0)
  <2>1. Busy' = Busy /\ Keeping' = Keeping
    BY <1>5 DEF Busy, Keeping
  <2>2. CountOf(down, 104) \in Nat
    BY CountsAreNat
  <2> QED
    BY <2>1, <2>2, <1>4, <1>11, HandsAreNat DEF Pending
<1>16. TunnelTypeOK'
  <2>1. UpOK'
    BY <1>5 DEF UpOK
  <2>2. DownOK'
    BY <1>2, TunnelAssumption DEF DownOK
  <2>3. TodoOK'
    BY <1>6 DEF TodoOK
  <2>4. LabelsOK'
    BY <1>5 DEF LabelsOK
  <2>5. NumbersOK'
    BY <1>5 DEF NumbersOK
  <2> QED
    BY <2>1, <2>2, <2>3, <2>4, <2>5, TypeAfter
<1>17. Places'
  BY <1>5 DEF Places, ClientReads
<1>18. Asking'
  BY <1>5, <1>7, <1>10 DEF Asking
<1>19. Rounds'
  BY <1>5, <1>12, <1>13, SumsBefore DEF Rounds, Sums
<1>20. Filling'
  BY <1>7, <1>13, <1>14, <1>15, SumsBefore DEF Filling, Sums
<1> QED
  BY <1>16, <1>17, <1>18, <1>19, <1>20 DEF TunnelInv

LEMMA ClientWritesKeeps ==
  ASSUME TunnelInv, ClientWrites
  PROVE  TunnelInv'
<1> TunnelTypeOK /\ Places /\ Asking
  BY Parts
<1> UpOK /\ DownOK /\ TodoOK /\ LabelsOK /\ NumbersOK
  BY TypeBefore
<1> DEFINE m == Head(todo)
<1>1. /\ todo # <<>> /\ todo' = Tail(todo) /\ up' = Append(up, m)
      /\ Len(up) < UpCap
  BY DEF ClientWrites
<1>2. /\ Len(todo) \in {1, 2} /\ Len(todo') = Len(todo) - 1
      /\ todo' \in {<<>>, <<102>>} /\ (todo' # <<>> <=> todo = <<104, 102>>)
      /\ m = IF todo = <<104, 102>> THEN 104 ELSE 102
  BY <1>1, TodoLengths
<1> HIDE DEF m
<1>3. up \in Seq(ToServer) /\ m \in ToServer
  BY <1>2 DEF TunnelTypeOK, ToServer
<1>4. /\ up' \in Seq(ToServer) /\ up' # <<>>
      /\ Len(up') = Len(up) + 1 /\ Len(up) \in Nat
  BY <1>1, <1>3
<1>5. \A t : CountOf(up', t) = CountOf(up, t) + (IF m = t THEN 1 ELSE 0)
  BY <1>1, <1>3, CountAppend
<1>6. UNCHANGED <<down, client, main, rset, hand, leased, keeper, net, raw,
                  sent, answered, outside>>
  BY DEF ClientWrites, serverVars, history
<1>7. CountOf(up, 100) \in Nat /\ CountOf(up, 102) \in Nat
  BY CountsAreNat
<1>8. CountOf(up', 100) = CountOf(up, 100)
  BY <1>2, <1>5, <1>7
<1>9. CountOf(up', 102) = CountOf(up, 102) + (IF todo' # <<>> THEN 0 ELSE 1)
  <2>1. m = 102 <=> todo' = <<>>
    BY <1>2
  <2> QED
    BY <2>1, <1>5
<1>10. /\ Replying' = Replying /\ Awaiting' = Awaiting /\ Network' = Network
       /\ Pending' = Pending /\ Paid' = Paid
  BY <1>6 DEF Replying, Awaiting, Network, Pending, Paid, Busy, Keeping
<1> DEFINE k == IF todo' # <<>> THEN 0 ELSE 1
<1>11. Buffered' = Buffered + k /\ Carried' = Carried - k
  <2>1. Answering = 1 /\ Answering' = 1 - k
    BY <1>1 DEF Answering
  <2>2. Sending' = Sending /\ Renewing' = Renewing /\ Keeping' = Keeping
    BY <1>6 DEF Sending, Renewing, Keeping
  <2>3. Carried' = Carried - k
    BY <2>1, <2>2, HandsAreNat DEF Carried
  <2>4. /\ CountOf(down', 103) = CountOf(down, 103)
        /\ CountOf(down', 104) = CountOf(down, 104)
        /\ CountOf(down, 103) \in Nat /\ CountOf(down, 104) \in Nat
    BY <1>6, CountsAreNat
  <2>5. Buffered' = Buffered + k
    BY <2>4, <1>7, <1>9 DEF Buffered
  <2> QED
    BY <2>3, <2>5
<1>12. Queued' = Queued
  <2>1. Len(down') = Len(down) /\ Len(down) \in Nat
    BY <1>6, NumbersAreNat
  <2> QED
    BY <2>1, <1>2, <1>4 DEF Queued
<1>13. TunnelTypeOK'
  <2>1. UpOK'
    BY <1>1, <1>4, TunnelAssumption DEF UpOK
  <2>2. DownOK'
    BY <1>6 DEF DownOK
  <2>3. TodoOK'
    BY <1>2 DEF TodoOK
  <2>4. LabelsOK'
    BY <1>6 DEF LabelsOK
  <2>5. NumbersOK'
    BY <1>6 DEF NumbersOK
  <2> QED
    BY <2>1, <2>2, <2>3, <2>4, <2>5, TypeAfter
<1>14. Places'
  BY <1>1, <1>4, <1>6 DEF Places
<1>15. Asking'
  BY <1>6, <1>8, <1>10 DEF Asking
<1>16. Rounds'
  <2>1. k \in {0, 1}
    OBVIOUS
  <2> HIDE DEF k
  <2> QED
    BY <2>1, <1>6, <1>10, <1>11, SumsBefore DEF Rounds, Sums
<1>17. Filling'
  BY <1>10, <1>12, SumsBefore DEF Filling, Sums
<1> QED
  BY <1>13, <1>14, <1>15, <1>16, <1>17 DEF TunnelInv

---------------------------------------------------------------------------
(* The main thread keeps it *)

LEMMA SelectKeeps ==
  ASSUME TunnelInv, Select
  PROVE  TunnelInv'
<1> TunnelTypeOK /\ Places /\ Asking
  BY Parts
<1> UpOK /\ DownOK /\ TodoOK /\ LabelsOK /\ NumbersOK
  BY TypeBefore
<1>1. UNCHANGED <<up, down, client, todo, hand, leased, keeper, net, raw, sent,
                  answered, outside>>
  BY DEF Select, history
<1>2. main = "select" /\ main' = "raw" /\ rset' = Ready
  BY DEF Select
<1>3. /\ Replying' = Replying /\ Awaiting' = Awaiting /\ Carried' = Carried
      /\ Buffered' = Buffered /\ Network' = Network
  BY <1>1, <1>2 DEF Replying, Awaiting, Carried, Buffered, Network, Sending,
                    Renewing, Answering, Keeping
<1>4. Queued' = Queued /\ Pending' = Pending /\ Paid' = Paid
  BY <1>1, <1>2 DEF Queued, Pending, Paid, Busy, Keeping
<1>5. TunnelTypeOK'
  <2>1. UpOK'
    BY <1>1 DEF UpOK
  <2>2. DownOK'
    BY <1>1 DEF DownOK
  <2>3. TodoOK'
    BY <1>1 DEF TodoOK
  <2>4. LabelsOK'
    BY <1>1, <1>2 DEF LabelsOK, Ready
  <2>5. NumbersOK'
    BY <1>1 DEF NumbersOK
  <2> QED
    BY <2>1, <2>2, <2>3, <2>4, <2>5, TypeAfter
<1>6. Places'
  BY <1>1, <1>2 DEF Places, Ready, TunnelTypeOK
<1>7. Asking'
  BY <1>1, <1>3 DEF Asking
<1>8. Rounds' /\ Filling'
  BY <1>1, <1>3, <1>4, SumsBefore DEF Rounds, Filling, Sums
<1> QED
  BY <1>5, <1>6, <1>7, <1>8 DEF TunnelInv

LEMMA AddBefore ==
  ASSUME NEW a \in Nat, NEW b \in Nat, NEW c \in Nat, NEW d \in Nat,
         b + c <= d
  PROVE  (a + b) + c <= a + d /\ a + b \in Nat
OBVIOUS

LEMMA RecvPacketKeeps ==
  ASSUME TunnelInv, RecvPacket
  PROVE  TunnelInv'
<1> TunnelTypeOK /\ Places /\ Asking
  BY Parts
<1> UpOK /\ DownOK /\ TodoOK /\ LabelsOK /\ NumbersOK
  BY TypeBefore
<1>1. UNCHANGED <<up, down, client, todo, rset, hand, leased, keeper, net, sent,
                  answered, outside>>
  BY DEF RecvPacket, history
<1>2. /\ main = "raw" /\ main' \in {"write", "client"}
      /\ IF "raw" \in rset
         THEN raw' = raw - 1 /\ raw > 0
         ELSE raw' = raw /\ main' = "client"
  BY DEF RecvPacket, Places
<1>3. raw \in Nat /\ raw' \in Nat /\ raw' <= raw /\ net \in Nat
  BY <1>2, NumbersAreNat
<1>4. /\ Replying = 0 /\ Replying' = 0 /\ Awaiting' = Awaiting
      /\ Buffered' = Buffered /\ Queued' = Queued /\ Paid' = Paid
  BY <1>1, <1>2 DEF Replying, Awaiting, Buffered, Queued, Paid
<1> DEFINE k == IF main' = "write" THEN 1 ELSE 0
<1>5. /\ Sending = 0 /\ Sending' = k /\ Renewing = 0 /\ Renewing' = 0
      /\ Busy = 0 /\ Busy' = k /\ Keeping' = Keeping /\ Answering' = Answering
      /\ CountOf(down', 104) = CountOf(down, 104)
  BY <1>1, <1>2 DEF Sending, Renewing, Busy, Keeping, Answering
<1>6. k \in {0, 1} /\ raw' + k <= raw
  <2>1. CASE "raw" \in rset
    BY <2>1, <1>2, <1>3
  <2>2. CASE "raw" \notin rset
    <3>1. raw' = raw /\ k = 0
      BY <2>2, <1>2
    <3> QED
      BY <3>1, <1>3
  <2> QED
    BY <2>1, <2>2
<1> HIDE DEF k
<1>7. Carried' = Carried + k
  BY <1>5, <1>6, HandsAreNat DEF Carried
<1>8. Pending' = Pending + k
  BY <1>5, <1>6, HandsAreNat, CountsAreNat DEF Pending
<1>9. Network' + k <= Network /\ Network' \in Nat
  <2>1. net' = net
    BY <1>1
  <2>2. k \in Nat
    BY <1>6
  <2>3. (net + raw') + k <= net + raw /\ net + raw' \in Nat
    BY <2>2, <1>3, <1>6, AddBefore
  <2>4. Network' = net + raw' /\ Network = net + raw
    BY <2>1 DEF Network
  <2> QED
    BY <2>3, <2>4
<1>10. TunnelTypeOK'
  <2>1. UpOK'
    BY <1>1 DEF UpOK
  <2>2. DownOK'
    BY <1>1 DEF DownOK
  <2>3. TodoOK'
    BY <1>1 DEF TodoOK
  <2>4. LabelsOK'
    BY <1>1, <1>2 DEF LabelsOK
  <2>5. NumbersOK'
    BY <1>1, <1>3, TunnelAssumption DEF NumbersOK
  <2> QED
    BY <2>1, <2>2, <2>3, <2>4, <2>5, TypeAfter
<1>11. Places'
  BY <1>1, <1>2 DEF Places
<1>12. Asking'
  BY <1>1, <1>4 DEF Asking
<1>13. Rounds'
  BY <1>1, <1>4, <1>6, <1>7, <1>9, SumsBefore DEF Rounds, Sums
<1>14. Filling'
  BY <1>4, <1>6, <1>8, <1>9, SumsBefore DEF Filling, Sums
<1> QED
  BY <1>10, <1>11, <1>12, <1>13, <1>14 DEF TunnelInv

LEMMA WritePacketKeeps ==
  ASSUME TunnelInv, WritePacket
  PROVE  TunnelInv'
<1> TunnelTypeOK /\ Places /\ Asking
  BY Parts
<1> UpOK /\ DownOK /\ TodoOK /\ LabelsOK /\ NumbersOK
  BY TypeBefore
<1>1. UNCHANGED <<up, client, todo, rset, hand, leased, keeper, net, raw, sent,
                  answered, outside>>
  BY DEF WritePacket, history
<1>2. /\ main = "write" /\ main' = "client"
      /\ down' = Append(down, 103) /\ Len(down) < DownCap
  BY DEF WritePacket
<1>3. down \in Seq(ToClient) /\ 103 \in ToClient
  BY DEF TunnelTypeOK, ToClient
<1>4. /\ down' \in Seq(ToClient) /\ Len(down') = Len(down) + 1
      /\ Len(down) \in Nat
  BY <1>2, <1>3
<1>5. /\ CountOf(down', 101) = CountOf(down, 101)
      /\ CountOf(down', 103) = CountOf(down, 103) + 1
      /\ CountOf(down', 104) = CountOf(down, 104)
  BY <1>2, <1>3, CountAppend, CountsAreNat
<1>6. /\ Replying' = Replying /\ Awaiting' = Awaiting
      /\ Network' = Network /\ Paid' = Paid
  BY <1>1, <1>2 DEF Replying, Awaiting, Network, Paid
<1>7. /\ Sending = 1 /\ Sending' = 0 /\ Renewing' = Renewing
      /\ Busy = 1 /\ Busy' = 0 /\ Keeping' = Keeping /\ Answering' = Answering
  BY <1>1, <1>2 DEF Sending, Renewing, Busy, Keeping, Answering
<1>8. Buffered' = Buffered + 1
  <2>1. /\ CountOf(up', 102) = CountOf(up, 102) /\ CountOf(up, 102) \in Nat
        /\ CountOf(down, 103) \in Nat /\ CountOf(down, 104) \in Nat
    BY <1>1, CountsAreNat
  <2> QED
    BY <2>1, <1>5 DEF Buffered
<1>9. Carried' = Carried - 1
  BY <1>7, HandsAreNat DEF Carried
<1>10. Queued' = Queued + 1
  BY <1>1, <1>4, NumbersAreNat DEF Queued
<1>11. Pending' = Pending - 1
  BY <1>5, <1>7, HandsAreNat, CountsAreNat DEF Pending
<1>12. TunnelTypeOK'
  <2>1. UpOK'
    BY <1>1 DEF UpOK
  <2>2. DownOK'
    BY <1>2, <1>4, TunnelAssumption DEF DownOK
  <2>3. TodoOK'
    BY <1>1 DEF TodoOK
  <2>4. LabelsOK'
    BY <1>1, <1>2 DEF LabelsOK
  <2>5. NumbersOK'
    BY <1>1 DEF NumbersOK
  <2> QED
    BY <2>1, <2>2, <2>3, <2>4, <2>5, TypeAfter
<1>13. Places'
  BY <1>1, <1>2 DEF Places
<1>14. Asking'
  BY <1>1, <1>5, <1>6 DEF Asking
<1>15. Rounds'
  BY <1>1, <1>6, <1>8, <1>9, SumsBefore DEF Rounds, Sums
<1>16. Filling'
  BY <1>6, <1>10, <1>11, SumsBefore DEF Filling, Sums
<1> QED
  BY <1>12, <1>13, <1>14, <1>15, <1>16 DEF TunnelInv

LEMMA DoResponseKeeps ==
  ASSUME TunnelInv, DoResponse
  PROVE  TunnelInv'
<1> TunnelTypeOK /\ Places /\ Asking
  BY Parts
<1> UpOK /\ DownOK /\ TodoOK /\ LabelsOK /\ NumbersOK
  BY TypeBefore
<1>1. UNCHANGED <<down, client, todo, rset, leased, keeper, net, raw, sent,
                  answered, outside>>
  BY DEF DoResponse, history
<1>2. main = "client"
  BY DEF DoResponse
<1>3. CASE "client" \notin rset
  <2>1. UNCHANGED <<up, hand>> /\ main' = "select"
    BY <1>3 DEF DoResponse
  <2>2. /\ Replying' = Replying /\ Awaiting' = Awaiting /\ Carried' = Carried
        /\ Buffered' = Buffered /\ Network' = Network
    BY <1>1, <1>2, <2>1 DEF Replying, Awaiting, Carried, Buffered, Network,
                            Sending, Renewing, Answering, Keeping
  <2>3. Queued' = Queued /\ Pending' = Pending /\ Paid' = Paid
    BY <1>1, <1>2, <2>1 DEF Queued, Pending, Paid, Busy, Keeping
  <2>4. TunnelTypeOK'
    <3>1. UpOK'
      BY <2>1 DEF UpOK
    <3>2. DownOK'
      BY <1>1 DEF DownOK
    <3>3. TodoOK'
      BY <1>1 DEF TodoOK
    <3>4. LabelsOK'
      BY <1>1, <2>1 DEF LabelsOK
    <3>5. NumbersOK'
      BY <1>1 DEF NumbersOK
    <3> QED
      BY <3>1, <3>2, <3>3, <3>4, <3>5, TypeAfter
  <2>5. Places'
    BY <1>1, <2>1 DEF Places
  <2>6. Asking'
    BY <1>1, <2>1, <2>2 DEF Asking
  <2>7. Rounds' /\ Filling'
    BY <1>1, <2>2, <2>3, SumsBefore DEF Rounds, Filling, Sums
  <2> QED
    BY <2>4, <2>5, <2>6, <2>7 DEF TunnelInv
<1>4. CASE "client" \in rset
  <2> DEFINE m == Head(up)
  <2>1. up \in Seq(ToServer) /\ up # <<>>
    BY <1>2, <1>4 DEF TunnelTypeOK, Places
  <2>2. /\ hand' = m /\ up' = Tail(up)
        /\ main' = IF m = 100 THEN "reply" ELSE "renew"
    BY <1>4 DEF DoResponse
  <2>3. /\ up' \in Seq(ToServer) /\ m \in ToServer
        /\ Len(up') = Len(up) - 1 /\ Len(up) \in Nat /\ Len(up') \in Nat
    BY <2>1, <2>2
  <2>4. \A t : CountOf(up, t) = CountOf(up', t) + (IF m = t THEN 1 ELSE 0)
    BY <2>1, <2>2, CountTail
  <2>5. CountOf(up', 100) \in Nat /\ CountOf(up', 102) \in Nat
    BY <2>3, PositionsFinite
  <2> HIDE DEF m
  <2>6. /\ Awaiting' = Awaiting /\ Network' = Network /\ Paid' = Paid
        /\ Replying = 0 /\ Replying' = IF m = 100 THEN 1 ELSE 0
    BY <1>1, <1>2, <2>2 DEF Awaiting, Network, Paid, Replying
  <2>7. /\ Sending = 0 /\ Sending' = 0 /\ Renewing = 0
        /\ Renewing' = (IF m = 102 THEN 1 ELSE 0)
        /\ Keeping' = Keeping /\ Answering' = Answering
        /\ Busy = 0 /\ Busy' = 1
    BY <1>1, <1>2, <2>2 DEF Sending, Renewing, Keeping, Answering, Busy
  <2>8. /\ CountOf(down', 103) = CountOf(down, 103)
        /\ CountOf(down', 104) = CountOf(down, 104)
        /\ CountOf(down', 101) = CountOf(down, 101)
        /\ CountOf(down, 103) \in Nat /\ CountOf(down, 104) \in Nat
        /\ CountOf(down, 101) \in Nat
    BY <1>1, CountsAreNat
  <2>9. Buffered' = Buffered - (IF m = 102 THEN 1 ELSE 0)
    <3>1. CountOf(up, 102) = CountOf(up', 102) + (IF m = 102 THEN 1 ELSE 0)
      BY <2>4
    <3> QED
      BY <3>1, <2>5, <2>8 DEF Buffered
  <2>10. Carried' = Carried + (IF m = 102 THEN 1 ELSE 0)
    BY <2>7, HandsAreNat DEF Carried
  <2>11. Queued' = Queued - 1
    BY <1>1, <2>3, NumbersAreNat DEF Queued
  <2>12. Pending' = Pending + 1
    BY <2>7, <2>8, HandsAreNat DEF Pending
  <2>13. TunnelTypeOK'
    <3>1. UpOK'
      BY <2>3, TunnelAssumption DEF UpOK
    <3>2. DownOK'
      BY <1>1 DEF DownOK
    <3>3. TodoOK'
      BY <1>1 DEF TodoOK
    <3>4. LabelsOK'
      BY <1>1, <2>2, <2>3 DEF LabelsOK
    <3>5. NumbersOK'
      BY <1>1 DEF NumbersOK
    <3> QED
      BY <3>1, <3>2, <3>3, <3>4, <3>5, TypeAfter
  <2>14. Places'
    BY <1>1, <2>2, <2>3 DEF Places, ToServer
  <2>15. Asking'
    <3>1. CountOf(up, 100) = CountOf(up', 100) + (IF m = 100 THEN 1 ELSE 0)
      BY <2>4
    <3> QED
      BY <3>1, <2>5, <2>6, <2>8, HandsAreNat DEF Asking
  <2>16. Rounds'
    BY <1>1, <2>6, <2>9, <2>10, SumsBefore DEF Rounds, Sums
  <2>17. Filling'
    BY <2>6, <2>11, <2>12, SumsBefore DEF Filling, Sums
  <2> QED
    BY <2>13, <2>14, <2>15, <2>16, <2>17 DEF TunnelInv
<1> QED
  BY <1>3, <1>4

LEMMA ReplyIpv4RequestKeeps ==
  ASSUME TunnelInv, ReplyIpv4Request
  PROVE  TunnelInv'
<1> TunnelTypeOK /\ Places /\ Asking
  BY Parts
<1> UpOK /\ DownOK /\ TodoOK /\ LabelsOK /\ NumbersOK
  BY TypeBefore
<1>1. UNCHANGED <<up, client, todo, rset, hand, keeper, net, raw, sent,
                  answered, outside>>
  BY DEF ReplyIpv4Request, history
<1>2. /\ main = "reply" /\ main' = "select" /\ leased' = TRUE
      /\ down' = Append(down, 101) /\ Len(down) < DownCap
  BY DEF ReplyIpv4Request
<1>3. down \in Seq(ToClient) /\ 101 \in ToClient
  BY DEF TunnelTypeOK, ToClient
<1>4. /\ down' \in Seq(ToClient) /\ Len(down') = Len(down) + 1
      /\ Len(down) \in Nat
  BY <1>2, <1>3
<1>5. /\ CountOf(down', 101) = CountOf(down, 101) + 1
      /\ CountOf(down', 103) = CountOf(down, 103)
      /\ CountOf(down', 104) = CountOf(down, 104)
  BY <1>2, <1>3, CountAppend, CountsAreNat
<1>6. /\ Replying = 1 /\ Replying' = 0 /\ Awaiting' = Awaiting
      /\ Network' = Network /\ Paid' = Paid
  BY <1>1, <1>2 DEF Replying, Awaiting, Network, Paid
<1>7. Carried' = Carried /\ Busy = 1 /\ Busy' = 0 /\ Keeping' = Keeping
  BY <1>1, <1>2 DEF Sending, Renewing, Busy, Keeping, Answering, Carried
<1>8. Buffered' = Buffered
  BY <1>1, <1>5 DEF Buffered
<1>9. Queued' = Queued + 1
  BY <1>1, <1>4, NumbersAreNat DEF Queued
<1>10. Pending' = Pending - 1
  BY <1>5, <1>7, HandsAreNat, CountsAreNat DEF Pending
<1>11. TunnelTypeOK'
  <2>1. UpOK'
    BY <1>1 DEF UpOK
  <2>2. DownOK'
    BY <1>2, <1>4, TunnelAssumption DEF DownOK
  <2>3. TodoOK'
    BY <1>1 DEF TodoOK
  <2>4. LabelsOK'
    BY <1>1, <1>2 DEF LabelsOK
  <2>5. NumbersOK'
    BY <1>1 DEF NumbersOK
  <2> QED
    BY <2>1, <2>2, <2>3, <2>4, <2>5, TypeAfter
<1>12. Places'
  BY <1>1, <1>2 DEF Places
<1>13. Asking'
  BY <1>1, <1>5, <1>6, CountsAreNat, HandsAreNat DEF Asking
<1>14. Rounds'
  BY <1>1, <1>6, <1>7, <1>8, SumsBefore DEF Rounds, Sums
<1>15. Filling'
  BY <1>6, <1>9, <1>10, SumsBefore DEF Filling, Sums
<1> QED
  BY <1>11, <1>12, <1>13, <1>14, <1>15 DEF TunnelInv

LEMMA RenewLeaseKeeps ==
  ASSUME TunnelInv, RenewLease
  PROVE  TunnelInv'
<1> TunnelTypeOK /\ Places /\ Asking
  BY Parts
<1> UpOK /\ DownOK /\ TodoOK /\ LabelsOK /\ NumbersOK
  BY TypeBefore
<1>1. UNCHANGED <<up, down, client, todo, rset, hand, leased, keeper, raw, sent,
                  outside>>
  BY DEF RenewLease
<1> DEFINE k == IF hand = 102 THEN 1 ELSE 0
<1>2. /\ main = "renew" /\ main' = "select"
      /\ answered' \in {answered, answered + 1} /\ answered \in Nat
      /\ net' = net + k /\ net \in Nat /\ k \in {0, 1}
  BY DEF RenewLease, TunnelTypeOK
<1>3. /\ Replying' = Replying /\ Awaiting' = Awaiting
      /\ Buffered' = Buffered /\ Queued' = Queued /\ Paid' = Paid
  BY <1>1, <1>2 DEF Replying, Awaiting, Buffered, Queued, Paid
<1>4. /\ Renewing = k /\ Renewing' = 0 /\ Sending' = Sending
      /\ Keeping' = Keeping /\ Answering' = Answering /\ Busy = 1 /\ Busy' = 0
      /\ CountOf(down', 104) = CountOf(down, 104)
  BY <1>1, <1>2 DEF Renewing, Sending, Keeping, Answering, Busy
<1> HIDE DEF k
<1>5. Network' = Network + k
  BY <1>1, <1>2, NumbersAreNat DEF Network
<1>6. Carried' = Carried - k
  BY <1>2, <1>4, HandsAreNat DEF Carried
<1>7. Pending' = Pending - 1
  BY <1>4, HandsAreNat, CountsAreNat DEF Pending
<1>8. TunnelTypeOK'
  <2>1. UpOK'
    BY <1>1 DEF UpOK
  <2>2. DownOK'
    BY <1>1 DEF DownOK
  <2>3. TodoOK'
    BY <1>1 DEF TodoOK
  <2>4. LabelsOK'
    BY <1>1, <1>2 DEF LabelsOK
  <2>5. NumbersOK'
    BY <1>1, <1>2 DEF NumbersOK
  <2> QED
    BY <2>1, <2>2, <2>3, <2>4, <2>5, TypeAfter
<1>9. Places'
  BY <1>1, <1>2 DEF Places
<1>10. Asking'
  BY <1>1, <1>3 DEF Asking
<1>11. Rounds'
  BY <1>1, <1>2, <1>3, <1>5, <1>6, SumsBefore DEF Rounds, Sums
<1>12. Filling'
  BY <1>2, <1>3, <1>5, <1>7, SumsBefore DEF Filling, Sums
<1> QED
  BY <1>8, <1>9, <1>10, <1>11, <1>12 DEF TunnelInv

---------------------------------------------------------------------------
(* So do the keep-alive thread and the network *)

LEMMA TakeMutexKeeps ==
  ASSUME TunnelInv, TakeMutex
  PROVE  TunnelInv'
<1> TunnelTypeOK /\ Places /\ Asking
  BY Parts
<1> UpOK /\ DownOK /\ TodoOK /\ LabelsOK /\ NumbersOK
  BY TypeBefore
<1>1. UNCHANGED <<up, down, client, todo, main, rset, hand, leased, net, raw,
                  answered, outside>>
  BY DEF TakeMutex, serverVars
<1>2. /\ keeper = "sleep" /\ keeper' = "write"
      /\ sent' = sent + 1 /\ sent < MaxKeepAlives
  BY DEF TakeMutex
<1>3. /\ Replying' = Replying /\ Awaiting' = Awaiting /\ Buffered' = Buffered
      /\ Queued' = Queued /\ Network' = Network
  BY <1>1 DEF Replying, Awaiting, Buffered, Queued, Network
<1>4. /\ Keeping = 0 /\ Keeping' = 1 /\ Sending' = Sending
      /\ Renewing' = Renewing /\ Answering' = Answering /\ Busy' = Busy
      /\ CountOf(down', 104) = CountOf(down, 104)
  BY <1>1, <1>2 DEF Renewing, Sending, Keeping, Answering, Busy
<1>5. Carried' = Carried + 1
  BY <1>4, HandsAreNat DEF Carried
<1>6. Pending' = Pending + 2
  BY <1>4, HandsAreNat, CountsAreNat DEF Pending
<1>7. Paid' = Paid + 2
  BY <1>1, <1>2, NumbersAreNat DEF Paid
<1>8. TunnelTypeOK'
  <2>1. UpOK'
    BY <1>1 DEF UpOK
  <2>2. DownOK'
    BY <1>1 DEF DownOK
  <2>3. TodoOK'
    BY <1>1 DEF TodoOK
  <2>4. LabelsOK'
    BY <1>1, <1>2 DEF LabelsOK
  <2>5. NumbersOK'
    BY <1>1, <1>2, TunnelAssumption DEF NumbersOK
  <2> QED
    BY <2>1, <2>2, <2>3, <2>4, <2>5, TypeAfter
<1>9. Places'
  BY <1>1 DEF Places
<1>10. Asking'
  BY <1>1, <1>3 DEF Asking
<1>11. Rounds'
  BY <1>1, <1>2, <1>3, <1>5, SumsBefore DEF Rounds, Sums
<1>12. Filling'
  BY <1>3, <1>6, <1>7, SumsBefore DEF Filling, Sums
<1> QED
  BY <1>8, <1>9, <1>10, <1>11, <1>12 DEF TunnelInv

LEMMA WriteKeepAliveKeeps ==
  ASSUME TunnelInv, WriteKeepAlive
  PROVE  TunnelInv'
<1> TunnelTypeOK /\ Places /\ Asking
  BY Parts
<1> UpOK /\ DownOK /\ TodoOK /\ LabelsOK /\ NumbersOK
  BY TypeBefore
<1>1. UNCHANGED <<up, client, todo, main, rset, hand, leased, net, raw, sent,
                  answered, outside>>
  BY DEF WriteKeepAlive, serverVars, history
<1>2. /\ keeper = "write" /\ keeper' = "sleep"
      /\ down' = Append(down, 104) /\ Len(down) < DownCap
  BY DEF WriteKeepAlive
<1>3. down \in Seq(ToClient) /\ 104 \in ToClient
  BY DEF TunnelTypeOK, ToClient
<1>4. /\ down' \in Seq(ToClient) /\ Len(down') = Len(down) + 1
      /\ Len(down) \in Nat
  BY <1>2, <1>3
<1>5. /\ CountOf(down', 101) = CountOf(down, 101)
      /\ CountOf(down', 103) = CountOf(down, 103)
      /\ CountOf(down', 104) = CountOf(down, 104) + 1
  <2>1. \A t : CountOf(down', t)
                = CountOf(down, t) + (IF 104 = t THEN 1 ELSE 0)
    BY ONLY <1>2, <1>3, CountAppend
  <2>2. \A t : CountOf(down, t) \in Nat
    BY CountsAreNat
  <2> QED
    BY ONLY <2>1, <2>2
<1>6. /\ Replying' = Replying /\ Awaiting' = Awaiting
      /\ Network' = Network /\ Paid' = Paid
  BY <1>1 DEF Replying, Awaiting, Network, Paid
<1>7. /\ Keeping = 1 /\ Keeping' = 0 /\ Sending' = Sending
      /\ Renewing' = Renewing /\ Answering' = Answering /\ Busy' = Busy
  BY <1>1, <1>2 DEF Sending, Renewing, Busy, Keeping, Answering
<1>8. Buffered' = Buffered + 1
  <2>1. /\ CountOf(up', 102) = CountOf(up, 102) /\ CountOf(up, 102) \in Nat
        /\ CountOf(down, 103) \in Nat /\ CountOf(down, 104) \in Nat
    BY <1>1, CountsAreNat
  <2> QED
    BY <2>1, <1>5 DEF Buffered
<1>9. Carried' = Carried - 1
  BY <1>7, HandsAreNat DEF Carried
<1>10. Queued' = Queued + 1
  BY <1>1, <1>4, NumbersAreNat DEF Queued
<1>11. Pending' = Pending - 1
  BY <1>5, <1>7, HandsAreNat, CountsAreNat DEF Pending
<1>12. TunnelTypeOK'
  <2>1. UpOK'
    BY <1>1 DEF UpOK
  <2>2. DownOK'
    BY <1>2, <1>4, TunnelAssumption DEF DownOK
  <2>3. TodoOK'
    BY <1>1 DEF TodoOK
  <2>4. LabelsOK'
    BY <1>1, <1>2 DEF LabelsOK
  <2>5. NumbersOK'
    BY <1>1 DEF NumbersOK
  <2> QED
    BY <2>1, <2>2, <2>3, <2>4, <2>5, TypeAfter
<1>13. Places'
  BY <1>1 DEF Places
<1>14. Asking'
  BY <1>1, <1>5, <1>6 DEF Asking
<1>15. Rounds'
  BY <1>1, <1>6, <1>8, <1>9, SumsBefore DEF Rounds, Sums
<1>16. Filling'
  BY <1>6, <1>10, <1>11, SumsBefore DEF Filling, Sums
<1> QED
  BY <1>12, <1>13, <1>14, <1>15, <1>16 DEF TunnelInv

LEMMA NetworkKeeps ==
  ASSUME TunnelInv, NetworkAnswers \/ NetworkLoses \/ NetworkSends
  PROVE  TunnelInv'
<1> TunnelTypeOK /\ Places /\ Asking
  BY Parts
<1> UpOK /\ DownOK /\ TodoOK /\ LabelsOK /\ NumbersOK
  BY TypeBefore
<1>1. UNCHANGED <<up, down, client, todo, main, rset, hand, leased, keeper,
                  sent, answered>>
  BY DEF NetworkAnswers, NetworkLoses, NetworkSends, serverVars, history
<1>2. /\ net \in Nat /\ net' \in Nat /\ raw \in 0..RawCap
      /\ raw' \in 0..RawCap /\ raw' >= raw
      /\ outside \in Nat /\ outside' \in 0..MaxOutside
  <2>1. net \in Nat /\ raw \in 0..RawCap /\ outside \in 0..MaxOutside
    BY DEF NumbersOK
  <2>2. RawCap \in Nat /\ MaxOutside \in Nat
    BY TunnelAssumption
  <2>3. CASE NetworkAnswers
    <3>1. /\ net > 0 /\ raw < RawCap /\ net' = net - 1 /\ raw' = raw + 1
          /\ outside' = outside
      BY <2>3 DEF NetworkAnswers, history
    <3> QED
      BY <3>1, <2>1, <2>2
  <2>4. CASE NetworkLoses
    <3>1. net > 0 /\ net' = net - 1 /\ raw' = raw /\ outside' = outside
      BY <2>4 DEF NetworkLoses, history
    <3> QED
      BY <3>1, <2>1, <2>2
  <2>5. CASE NetworkSends
    <3>1. /\ outside < MaxOutside /\ raw < RawCap /\ net' = net
          /\ raw' = raw + 1 /\ outside' = outside + 1
      BY <2>5 DEF NetworkSends
    <3> QED
      BY <3>1, <2>1, <2>2
  <2> QED
    BY <2>3, <2>4, <2>5
<1>3. PICK k \in {0, 1} :
        outside' = outside + k /\ net' + raw' <= (net + raw) + k
  <2>1. outside \in Nat /\ net \in Nat /\ raw \in Nat
    BY NumbersAreNat
  <2>2. CASE NetworkSends
    <3>1. outside' = outside + 1 /\ net' + raw' <= (net + raw) + 1
      BY <2>1, <2>2 DEF NetworkSends
    <3> QED
      BY <3>1
  <2>3. CASE NetworkAnswers
    <3>1. outside' = outside + 0 /\ net' + raw' <= (net + raw) + 0
      BY <2>1, <2>3 DEF NetworkAnswers, history
    <3> QED
      BY <3>1
  <2>4. CASE NetworkLoses
    <3>1. outside' = outside + 0 /\ net' + raw' <= (net + raw) + 0
      BY <2>1, <2>4 DEF NetworkLoses, history
    <3> QED
      BY <3>1
  <2> QED
    BY <2>2, <2>3, <2>4
<1>4. k \in Nat
  OBVIOUS
<1>5. /\ Replying' = Replying /\ Awaiting' = Awaiting /\ Buffered' = Buffered
      /\ Queued' = Queued /\ Carried' = Carried /\ Pending' = Pending
  BY <1>1 DEF Replying, Awaiting, Buffered, Queued, Carried, Pending, Sending,
              Renewing, Answering, Keeping, Busy
<1>6. Paid' = Paid + k
  BY <1>1, <1>3, <1>4, NumbersAreNat DEF Paid
<1>7. Network' <= Network + k /\ Network' \in Nat
  <2>1. raw' \in Nat
    BY <1>2, TunnelAssumption
  <2>2. Network' = net' + raw' /\ Network = net + raw
    BY DEF Network
  <2>3. net' \in Nat
    BY <1>2
  <2>4. \A a, b \in Nat : a + b \in Nat
    OBVIOUS
  <2>5. net' + raw' \in Nat
    BY <2>1, <2>3, <2>4
  <2> QED
    BY <2>2, <2>5, <1>3, <1>4
<1>8. TunnelTypeOK'
  <2>1. UpOK'
    BY <1>1 DEF UpOK
  <2>2. DownOK'
    BY <1>1 DEF DownOK
  <2>3. TodoOK'
    BY <1>1 DEF TodoOK
  <2>4. LabelsOK'
    BY <1>1 DEF LabelsOK
  <2>5. NumbersOK'
    BY <1>1, <1>2 DEF NumbersOK
  <2> QED
    BY <2>1, <2>2, <2>3, <2>4, <2>5, TypeAfter
<1>9. Places'
  <2>1. raw' > 0 \/ raw = 0
    BY <1>2, NumbersAreNat
  <2> QED
    BY <2>1, <1>1, NumbersAreNat DEF Places
<1>10. Asking'
  BY <1>1, <1>5 DEF Asking
<1>11. Rounds'
  BY <1>1, <1>3, <1>4, <1>5, <1>7, SumsBefore DEF Rounds, Sums
<1>12. Filling'
  BY <1>3, <1>5, <1>6, <1>7, SumsBefore DEF Filling, Sums
<1> QED
  BY <1>8, <1>9, <1>10, <1>11, <1>12 DEF TunnelInv

---------------------------------------------------------------------------
(* The theorems *)

LEMMA StutteringKeeps ==
  ASSUME TunnelInv, UNCHANGED tunnelVars
  PROVE  TunnelInv'
<1>1. UNCHANGED <<up, down, client, todo, main, rset, hand, leased, keeper, net,
                  raw, sent, answered, outside>>
  BY DEF tunnelVars
<1>2. /\ Replying' = Replying /\ Awaiting' = Awaiting /\ Buffered' = Buffered
      /\ Queued' = Queued /\ Carried' = Carried /\ Pending' = Pending
      /\ Network' = Network /\ Paid' = Paid
  BY <1>1 DEF Replying, Awaiting, Buffered, Queued, Carried, Pending, Sending,
              Renewing, Answering, Keeping, Busy, Network, Paid
<1>3. TunnelTypeOK' /\ Places'
  BY <1>1, Parts DEF TunnelTypeOK, Places
<1>4. Asking'
  BY <1>1, <1>2, Parts DEF Asking
<1>5. Rounds' /\ Filling'
  BY <1>1, <1>2, Parts DEF Rounds, Filling
<1> QED
  BY <1>3, <1>4, <1>5 DEF TunnelInv

LEMMA TunnelInductive ==
  ASSUME TunnelInv, [TunnelNext]_tunnelVars
  PROVE  TunnelInv'
<1>1. CASE ClientStep
  BY <1>1, RequestIpv4Keeps, ReadReplyKeeps, ClientReadsKeeps, ClientWritesKeeps
  DEF ClientStep
<1>2. CASE MainStep
  BY <1>2, SelectKeeps, RecvPacketKeeps, WritePacketKeeps, DoResponseKeeps,
     ReplyIpv4RequestKeeps, RenewLeaseKeeps
  DEF MainStep
<1>3. CASE TakeMutex \/ WriteKeepAlive
  BY <1>3, TakeMutexKeeps, WriteKeepAliveKeeps
<1>4. CASE NetworkAnswers \/ NetworkLoses \/ NetworkSends
  BY <1>4, NetworkKeeps
<1>5. CASE UNCHANGED tunnelVars
  BY <1>5, StutteringKeeps
<1> QED
  BY <1>1, <1>2, <1>3, <1>4, <1>5 DEF TunnelNext

\* What stands in a thread's way when all of them wait is counted in Filling.
LEMMA FillingBoundsStuck ==
  ASSUME TunnelInv
  PROVE  StuckOnlyWhenFull
<1> SUFFICES ASSUME Stuck PROVE 2 * sent + outside >= UpCap + DownCap + 2
  BY DEF StuckOnlyWhenFull
<1>1. TunnelTypeOK /\ Places
  BY Parts
<1>2. Len(todo) \in Nat /\ Len(todo) >= 1
  BY <1>1, TodoLengths DEF Stuck
<1>3. Queued >= UpCap + DownCap + 1 /\ Queued \in Nat
  BY <1>2, TunnelAssumption DEF Stuck, Queued
<1>4. Awaiting = 0
  BY <1>1 DEF Stuck, Places, Awaiting
<1>5. Busy = 1
  BY DEF Stuck, Busy
<1>6. Pending >= 1 /\ Pending \in Nat
  BY <1>1, <1>5, CountsAreNat, HandsAreNat DEF Pending
<1>7. Paid >= UpCap + DownCap + 2
  BY <1>3, <1>4, <1>6, SumsBefore, TunnelAssumption DEF Sums
<1> QED
  BY <1>7, SumsBefore, TunnelAssumption DEF Sums, Paid

LEMMA RoundsBoundCirculating ==
  ASSUME TunnelInv
  PROVE  OnePacketEach
<1>1. TunnelTypeOK
  BY Parts
<1>2. Circulating = CountOf(up, 102) + CountOf(down, 103) + net + raw + Sending
                      + Renewing + Answering
  BY DEF Circulating, Sending, Renewing, Answering
<1>3. Circulating <= Buffered + Network + Carried /\ Circulating \in Nat
  <2>1. /\ CountOf(up, 102) \in Nat /\ CountOf(down, 103) \in Nat
        /\ CountOf(down, 104) \in Nat /\ net \in Nat /\ raw \in Nat
    BY <1>1, CountsAreNat, NumbersAreNat
  <2> QED
    BY <2>1, <1>2, HandsAreNat DEF Buffered, Network, Carried
<1> QED
  BY <1>3, SumsBefore DEF Sums, OnePacketEach

\* Each keep-alive and each packet from outside puts one packet on the round
\* at most (do_client, test_client.cpp:161-188): for buffers of any size and
\* any number of them, in any interleaving of the client, the server's two
\* threads and the network.
THEOREM OnePacketForEach == FairTunnelSpec => []OnePacketEach
<1>1. TunnelInit => TunnelInv
  BY TunnelInitially
<1>2. TunnelInv /\ [TunnelNext]_tunnelVars => TunnelInv'
  BY TunnelInductive
<1>3. TunnelInv => OnePacketEach
  BY RoundsBoundCirculating
<1> QED
  BY <1>1, <1>2, <1>3, PTL DEF FairTunnelSpec, TunnelSpec

\* The client and the server wait for each other only after keep-alives and
\* packets enough to fill the buffers of both directions.
THEOREM StuckNeedsFullBuffers ==
  FairTunnelSpec => [](TunnelTypeOK /\ StuckOnlyWhenFull)
<1>1. TunnelInit => TunnelInv
  BY TunnelInitially
<1>2. TunnelInv /\ [TunnelNext]_tunnelVars => TunnelInv'
  BY TunnelInductive
<1>3. TunnelInv => TunnelTypeOK /\ StuckOnlyWhenFull
  BY Parts, FillingBoundsStuck
<1> QED
  BY <1>1, <1>2, <1>3, PTL DEF FairTunnelSpec, TunnelSpec

=============================================================================
