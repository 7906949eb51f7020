------------------------------- MODULE MCLink -------------------------------
(***************************************************************************)
(* Link on a small instance. A default buffer of 8 cells holds two packets *)
(* without a body, one and a part of the next, and not quite the longest.  *)
(***************************************************************************)
EXTENDS Link
=============================================================================
