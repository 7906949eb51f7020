------------------------------ MODULE MCClocks ------------------------------
(***************************************************************************)
(* A system clock of two ticks a second, a steady clock twice as fine. The *)
(* times: one before 1970, of which a Time makes 1970, one the clocks      *)
(* reach, and one they do not.                                             *)
(***************************************************************************)
EXTENDS Clocks

MCTimes == {-1, 1, 2}
MCSettings == {-3, 1}
MCSkews == -2 .. 1
=============================================================================
