-------------------------- MODULE MCFlippableQueue --------------------------
(***************************************************************************)
(* FlippableQueue with two or three producers.                             *)
(***************************************************************************)
EXTENDS FlippableQueue
=============================================================================
