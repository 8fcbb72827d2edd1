------------------------------ MODULE DnsQuery ------------------------------
(***************************************************************************)
(* The packet the test client sends: a DNS question for a name             *)
(* (get_dns_request) in a UDP datagram, and its checksum (udp_checksum);   *)
(* and how the DNS server it is sent to reads the question.                *)
(***************************************************************************)
EXTENDS Checksum, Sequences, SequencesExt

Dot == 46

---------------------------------------------------------------------------
(* get_dns_request: p is the end of buf, countp the place of the count of  *)
(* the label under way                                                     *)

\* The header: an identifier, the flag for recursion, one question.
DnsHeader == <<102, 129, 1, 0, 0, 1, 0, 0, 0, 0, 0, 0>>

\* A dot begins the next label unless this one is empty; a faulty variant
\* begins one in any case.
NewLabelAlways(q) ==
  [buf |-> Append(q.buf, 0), countp |-> Len(q.buf) + 1]
NewLabel(q) ==
  IF q.buf[q.countp] = 0 THEN q
  ELSE [buf |-> Append(q.buf, 0), countp |-> Len(q.buf) + 1]

\* (*countp)++, in a byte.
CountedUp(buf, countp) == [buf EXCEPT ![countp] = (@ + 1) % 256]

AddChar(q, c) ==
  IF c = Dot THEN NewLabel(q)
  ELSE [q EXCEPT !.buf = Append(CountedUp(@, q.countp), c)]

\* The name ends with the 0 of an empty label, which a dot at its end has
\* left there already.
QName(name) ==
  LET q == FoldLeft(AddChar, [buf |-> <<0>>, countp |-> 1], name) IN
  IF q.buf[q.countp] # 0 THEN Append(q.buf, 0) ELSE q.buf

GetDnsRequest(name) == DnsHeader \o QName(name) \o <<0, 1, 0, 1>>

---------------------------------------------------------------------------
(* The question as a DNS server reads it, from after the header on.  (The  *)
(* test client has a reader too, printmessage, but calls it on a buffer it *)
(* has not filled.)                                                        *)

\* One label at p: a count of 192 and above is a reference to another place in
\* the message.
LabelAt(buf, p) ==
  LET at == IF buf[p] >= 192 THEN (buf[p] % 64) * 256 + buf[p + 1] + 1 ELSE p IN
  SubSeq(buf, at + 1, at + buf[at])

AfterLabel(buf, p) == IF buf[p] >= 192 THEN p + 2 ELSE p + 1 + buf[p]

\* The labels up to the 0, and where the type of the question is found.  What
\* lies behind the message ends it.
ReadQuestion(buf) ==
  LET read[p \in 1..Len(buf)] ==
        IF buf[p] = 0 THEN [labels |-> <<>>, next |-> p + 1]
        ELSE IF AfterLabel(buf, p) > Len(buf)
        THEN [labels |-> <<LabelAt(buf, p)>>, next |-> AfterLabel(buf, p)]
        ELSE LET rest == read[AfterLabel(buf, p)] IN
             [rest EXCEPT !.labels = <<LabelAt(buf, p)>> \o @]
  IN read[Len(DnsHeader) + 1]

---------------------------------------------------------------------------
(* The datagram *)

\* The words of a sequence of bytes, in the byte order of the machine (the low
\* one first); a last odd byte is the low one of a word.
WordAt(bytes, w) ==
  bytes[2*w - 1]
    + (IF 2*w \in DOMAIN bytes THEN 256 * bytes[2*w] ELSE 0)

Words(bytes) == {w \in DOMAIN bytes : 2*w - 1 \in DOMAIN bytes}

WordSum(bytes) ==
  FoldFunction(+, 0, [w \in Words(bytes) |-> WordAt(bytes, w)])

InCksum(bytes) == Complement(WordSum(bytes))

TwoBytes(n) == <<n \div 256, n % 256>>

\* 59.66.134.90, and 10.0.0.3: the first address of the pool, which the server
\* grants its first client; the client does not look at what it was granted.
IpDst == <<59, 66, 134, 90>>
IpSrc == <<10, 0, 0, 3>>

UdpLen(dns) == 8 + Len(dns)

\* The datagram with the bytes field where its checksum belongs.
Udp(dns, field) ==
  TwoBytes(33675) \o TwoBytes(6666) \o TwoBytes(UdpLen(dns)) \o field \o dns

\* The pseudo header with the addresses in the order they are given.
Pseudo(src, dst, len) == src \o dst \o <<0, 17>> \o TwoBytes(len)

\* udp_checksum is given the destination for the source and the other way
\* round, and the datagram with what its check field happens to hold: buf is
\* on the stack, and nothing has been written there.
UdpChecksum(dns, left) ==
  InCksum(Pseudo(IpDst, IpSrc, UdpLen(dns)) \o Udp(dns, left))

=============================================================================
