------------------------------ MODULE Checksum ------------------------------
(***************************************************************************)
(* The Internet checksum as the test client computes it (in_cksum): the    *)
(* words of 16 bits are added up in 32 bits, the carries are added back,   *)
(* and the result is complemented.                                         *)
(***************************************************************************)
EXTENDS Integers

CONSTANT Word   \* the number of values of a word: 65536

ASSUME ChecksumAssumption == Word \in Nat /\ Word > 1

\* sum = (sum >> 16) + (sum & 0xffff)
AddBack(sum) == (sum \div Word) + (sum % Word)

\* The sum of 16 bits after both times the carries are added back; a faulty
\* variant adds them back once.
FoldOnce(sum) == AddBack(sum) % Word
Fold(sum) ==
  LET s == AddBack(sum) IN (s + (s \div Word)) % Word

\* answer = ~sum
Complement(sum) == (Word - 1) - Fold(sum)

\* What a receiver makes of a datagram with field for its checksum, the words of
\* which add up to sum: UDP does not check a field of 0.
Accepts(field, sum) == field = 0 \/ Fold(sum) = Word - 1

=============================================================================
