----------------------------- MODULE MCCalendar -----------------------------
(***************************************************************************)
(* Calendar in a zone ahead of UTC with summer time, from dates at the end *)
(* of months and years and around leap days.                               *)
(***************************************************************************)
EXTENDS Calendar

MCSteps == {-30, -1, 1, 28, 31}

MCStarts ==
  {Date(1970, 1, 1), Date(1999, 12, 31), Date(2000, 2, 28), Date(2024, 1, 31),
   Date(2025, 2, 28), Date(2025, 9, 30), Date(2100, 3, 1)}
=============================================================================
