----------------------------- MODULE TestClient -----------------------------
(***************************************************************************)
(* The test client from its start: it builds the one packet it will send,  *)
(* then connects and enters the tunnel.                                    *)
(***************************************************************************)
EXTENDS Tunnel, DnsQuery

CONSTANTS
  Names,      \* names get_dns_request is asked for
  Leftovers   \* what the two bytes of udph->check hold before it is written

\* The packet, 20 and 8 bytes of headers and a question with at most 18 more
\* bytes than the name, fits into the array buf of do_client.
ASSUME TestClientAssumption ==
  /\ Word = 65536
  /\ Names \subseteq Seq(1..255)
  /\ \A n \in Names : 20 + 8 + (Len(n) + 18) <= 512
  /\ Leftovers \subseteq (0..255) \X (0..255)

VARIABLES
  prep,   \* how far the packet is
  name,   \* the name in question
  dns,    \* the DNS message
  left,   \* what was in udph->check when the checksum was computed
  check   \* the checksum

packetVars == <<prep, name, dns, left, check>>
testVars == <<tunnelVars, packetVars>>

TestClientInit ==
  /\ TunnelInit
  /\ prep = "name" /\ name \in Names
  /\ dns = <<>> /\ left \in Leftovers /\ check = 0

BuildQuestion ==
  /\ prep = "name"
  /\ dns' = GetDnsRequest(name)
  /\ prep' = "header"
  /\ UNCHANGED <<name, left, check, tunnelVars>>

\* The two bytes are taken as a word in the byte order of the machine, and
\* stored the same way.
FillHeaders ==
  /\ prep = "header"
  /\ check' = UdpChecksum(dns, left)
  /\ prep' = "ready"
  /\ UNCHANGED <<name, dns, left, tunnelVars>>

InTunnel ==
  /\ prep = "ready"
  /\ TunnelNext
  /\ UNCHANGED packetVars

TestClientNext == BuildQuestion \/ FillHeaders \/ InTunnel

TestClientSpec ==
  /\ TestClientInit /\ [][TestClientNext]_testVars
  /\ WF_testVars(BuildQuestion \/ FillHeaders)
  /\ TunnelFairness

---------------------------------------------------------------------------
(* Properties *)

\* A character of a name begins a label if it is the first or follows a dot, and
\* continues one otherwise.
WithChar(labels, n, i) ==
  IF n[i] = Dot THEN labels
  ELSE IF i = 1 \/ n[i - 1] = Dot THEN Append(labels, <<n[i]>>)
  ELSE [labels EXCEPT ![Len(labels)] = Append(@, n[i])]

LabelsOf(n) ==
  LET f[i \in 0..Len(n)] == IF i = 0 THEN <<>> ELSE WithChar(f[i - 1], n, i)
  IN f[Len(n)]

\* Wherever the dots are, also two together or at an end, the question asks for
\* the labels of the name, and its type and class follow where they are read.
QuestionReadsBack ==
  prep # "name" =>
    LET q == ReadQuestion(dns) IN
    /\ q.labels = LabelsOf(name)
    /\ SubSeq(dns, q.next, Len(dns)) = <<0, 1, 0, 1>>

\* What was in the field is part of the sum that is complemented.  The receiver
\* accepts the datagram if and only if that counts for nothing, or happens to
\* be the right checksum: then the sum is complemented to 0, and the field that
\* holds it is not checked.
AcceptedLeftovers ==
  prep = "ready" =>
    LET field == <<check % 256, check \div 256>>
        sum == WordSum(Pseudo(IpSrc, IpDst, UdpLen(dns)) \o Udp(dns, field))
        right == UdpChecksum(dns, <<0, 0>>)
    IN Accepts(check, sum) <=>
         left \in {<<0, 0>>, <<255, 255>>, <<right % 256, right \div 256>>}

=============================================================================
