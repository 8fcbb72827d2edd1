------------------------------ MODULE MCServer ------------------------------
(***************************************************************************)
(* The server for TLC.  Connections are model values that only differ in    *)
(* name; safety runs exploit it, the liveness runs do not.                 *)
(***************************************************************************)
EXTENDS Server, TLC

ConnSymmetry == Permutations(Conns)

=============================================================================
