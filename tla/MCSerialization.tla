-------------------------- MODULE MCSerialization ---------------------------
(***************************************************************************)
(* SerializationSpec with two byte values, counts of two bytes, and types  *)
(* that nest containers in containers.                                     *)
(***************************************************************************)
EXTENDS SerializationSpec

MCTypes ==
  { Scalar(2),
    String,
    Struct(<< Scalar(1), String >>),
    SequenceOf(Scalar(1)),
    SequenceOf(Scalar(2)),
    SequenceOf(String),
    SequenceOf(SequenceOf(Scalar(1))),
    MapOf(Scalar(1), String) }
=============================================================================
