------------------------- MODULE MCKeepAliveTiming -------------------------
(***************************************************************************)
(* One connection against the clock, for TLC: a limit just above what      *)
(* Timely asks for, so that every slack is used up in some behaviour.      *)
(***************************************************************************)
EXTENDS KeepAliveTiming

\* The run's constants are those the properties are claimed for.
ASSUME RunIsTimely == Timely

=============================================================================
