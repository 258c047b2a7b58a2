-------------------------------- MODULE Clock --------------------------------
(***************************************************************************)
(* The wall clock of one process, for the parts of the console that        *)
(* compare times.                                                          *)
(***************************************************************************)
EXTENDS Integers

CONSTANT MaxClock       \* bound on the clock

ASSUME ClockAssumption == MaxClock \in Nat

VARIABLE clock
=============================================================================
