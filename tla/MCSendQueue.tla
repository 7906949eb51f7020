---------------------------- MODULE MCSendQueue -----------------------------
(***************************************************************************)
(* SendQueueSpec on a small instance.                                      *)
(***************************************************************************)
EXTENDS SendQueueSpec
=============================================================================
