---------------------------- MODULE FlatBuffers -----------------------------
(***************************************************************************)
(* What a flatbuffer promises to the two ends of a connection: what the    *)
(* sender has built is what the receiver reads, where it lies, once the    *)
(* verifier has accepted it (TCPMessage.h:50-56).                          *)
(***************************************************************************)
EXTENDS FlatBufferSpec, FlatBufferReader

CONSTANT Schemas    \* what the receiver takes for Tables: the fields at the end may differ

\* The value of a type as a receiver with another schema should see it: fields it
\* does not know are left out, those the sender does not know have their default.
RECURSIVE Adapted(_, _, _)
Adapted(schema, type, value) ==
  CASE type.kind = "table" /\ value # Absent ->
         [f \in DOMAIN schema[type.name] |->
            LET field == schema[type.name][f]
            IN  CASE f \in DOMAIN value -> Adapted(schema, field, value[f])
                  [] f \notin DOMAIN value /\ field.kind = "scalar" -> field.default
                  [] OTHER -> Absent]
    [] type.kind = "vector" /\ value # Absent ->
         [i \in DOMAIN value |-> Adapted(schema, type.of, value[i])]
    [] OTHER -> value

\* A finished message passes the verifier, its alignment checks included, and
\* reads as the sender built it: for a receiver of the same schema, of an older
\* one and of a newer one.
FinishedMessageArrives ==
  builder.finished =>
    \A schema \in Schemas :
      LET root == building.root
      IN  /\ VerifyBuffer(schema, Data, root.type)
          /\ RootValue(schema, Data, root.type) = Adapted(schema, root.type, root.value)

\* A message that has lost its end is rejected by the verifier or reads as it was
\* built: no read leaves the bytes that are there (verifier.h, idl_gen_cpp.cpp:2884).
CutMessageIsRejected ==
  builder.finished =>
    \A n \in 0 .. Len(Data) - 1 :
      VerifyBuffer(Tables, SubSeq(Data, 1, n), building.root.type) =>
        RootValue(Tables, SubSeq(Data, 1, n), building.root.type) = building.root.value
=============================================================================
