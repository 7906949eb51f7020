--------------------------- MODULE MCFlatBuffers ----------------------------
(***************************************************************************)
(* FlatBuffers on a small schema: a point of a large and a small scalar,   *)
(* and a message with a name, a point, a list of points and a list of      *)
(* scalars. The receivers know the same schema, one that lacks the fields  *)
(* added last and one with a field more in each table.                     *)
(***************************************************************************)
EXTENDS FlatBuffers

Byte0 == [kind |-> "scalar", size |-> 1, default |-> << 0 >>]
Long0 == [kind |-> "scalar", size |-> 8, default |-> Scalar(0, 8)]

Longs == VectorOf([kind |-> "scalar", size |-> 8])

Point == << Byte0, Long0 >>
Message == << String, TableOf("point"), VectorOf(TableOf("point")), Longs >>

MCTables == [point |-> Point, message |-> Message]

MCStrings == {<< 0, 7, 7, 7 >>}

MCScalars == {Scalar(0, 1), Scalar(5, 1), Scalar(5, 8)}

MCScalarVectors == {[size |-> 8, elements |-> << Scalar(5, 8) >>]}

MCVectors == {[type |-> TableOf("point"), len |-> 2]}

MCSchemas ==
  {MCTables,
   [point |-> << Byte0 >>, message |-> SubSeq(Message, 1, 2)],
   [point |-> Append(Point, Byte0), message |-> Append(Message, String)]}
=============================================================================
