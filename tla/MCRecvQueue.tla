---------------------------- MODULE MCRecvQueue -----------------------------
(***************************************************************************)
(* RecvQueueSpec on a small instance: buffers of 2 and 4 cells stand for   *)
(* the default buffer and for the larger one a long packet gets.           *)
(***************************************************************************)
EXTENDS RecvQueueSpec
=============================================================================
