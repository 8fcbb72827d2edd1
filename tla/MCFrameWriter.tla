--------------------------- MODULE MCFrameWriter ---------------------------
(***************************************************************************)
(* FrameWriter for TLC: messages of a few bytes.                           *)
(***************************************************************************)
EXTENDS FrameWriter

\* What the main thread and the keep-alive thread write.
ServerWrites == [t \in Threads |-> IF t = "main" THEN {101, 103} ELSE {104}]
Packets == {103}
Sizes == [k \in Kinds |-> IF k = 104 THEN 2 ELSE 3]

=============================================================================
