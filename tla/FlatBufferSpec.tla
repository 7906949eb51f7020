--------------------------- MODULE FlatBufferSpec ---------------------------
(***************************************************************************)
(* A program that builds a message with a FlatBufferBuilder, as the Pack   *)
(* functions of the generated code do (TCPMessage.h:43-47): strings,       *)
(* vectors and tables, each after the objects it refers to, in any order   *)
(* the assertions of the builder allow, then Finish. The builder can be    *)
(* cleared and used for the next message.                                  *)
(***************************************************************************)
EXTENDS FlatBufferAccess

CONSTANTS
  Tables,           \* the fields of each type of table, as FlatBufferAccess describes types
  Strings,          \* the strings that are written
  Scalars,          \* the scalars that are written, as bytes
  ScalarVectors,    \* the vectors of scalars that are written: [size, elements]
  Vectors,          \* the vectors of strings and tables that are written: [type, len]
  MaxObjects        \* a bound on the objects of all messages

\* The length of a vtable is a voffset_t.
MAX_FIELDS == 32765

\* FLATBUFFERS_MAX_BUFFER_SIZE
MAX_BUFFER_SIZE == 2147483647

ASSUME ObjectsAssumption ==
  /\ Strings \subseteq Seq(0 .. BYTE - 1) /\ \A chars \in Strings : Len(chars) \div Place[4] < BYTE \div 2
  /\ Scalars \subseteq Seq(0 .. BYTE - 1) /\ \A bytes \in Scalars : Len(bytes) \in {1, 2, 4, 8}
  /\ \A v \in ScalarVectors :
       v.size \in {1, 2, 4, 8} /\ v.elements \in Seq([1 .. v.size -> 0 .. BYTE - 1])
  /\ \A v \in Vectors : v.len \in Nat
  /\ \A name \in DOMAIN Tables : DOMAIN Tables[name] \subseteq 1 .. MAX_FIELDS
  /\ MaxObjects \in Nat

VARIABLES
  builder,      \* the FlatBufferBuilder
  objects,      \* what has been written: the offset the builder returned, the type, the value
  building,     \* the table or vector that is being built, or the message that is finished
  written       \* how many objects have been written for all messages

vars == << builder, objects, building, written >>

Nothing == [kind |-> "nothing"]

String == [kind |-> "string"]

TableOf(name) == [kind |-> "table", name |-> name]

VectorOf(type) == [kind |-> "vector", of |-> type]

Init ==
  /\ builder = EmptyBuilder
  /\ objects = << >>
  /\ building = Nothing
  /\ written = 0

\* NotNested, and Finish has not been called.
Ready == building = Nothing /\ ~builder.nested /\ ~builder.finished /\ written < MaxObjects

Written(off, type, value) ==
  /\ objects' = Append(objects, [off |-> off, type |-> type, value |-> value])
  /\ written' = written + 1

WriteString(chars) ==
  /\ Ready
  /\ builder' = CreateString(builder, chars)
  /\ Written(GetSize(builder'), String, chars)
  /\ UNCHANGED building

WriteSharedString(chars) ==
  LET shared == CreateSharedString(builder, chars)
  IN  /\ Ready
      /\ builder' = shared.builder
      /\ Written(shared.off, String, chars)
      /\ UNCHANGED building

WriteScalars(v) ==
  /\ Ready
  /\ builder' = CreateVector(builder, v.elements, v.size)
  /\ Written(GetSize(builder'), VectorOf([kind |-> "scalar", size |-> v.size]), v.elements)
  /\ UNCHANGED building

\* CreateVector(const Offset<T> *, size_t), which pushes the last element first.
BeginVector(type, len) ==
  /\ Ready
  /\ builder' = StartVector(builder, len, UOFFSET)
  /\ building' = [kind |-> "vector", type |-> type, len |-> len, elements |-> << >>]
  /\ UNCHANGED << objects, written >>

PushItem(o) ==
  /\ building.kind = "vector" /\ Len(building.elements) < building.len
  /\ o.type = building.type
  /\ builder' = PushOffset(builder, o.off)
  /\ building' = [building EXCEPT !.elements = << o.value >> \o @]
  /\ UNCHANGED << objects, written >>

FinishVector ==
  /\ building.kind = "vector" /\ Len(building.elements) = building.len
  /\ builder' = EndVector(builder, building.len)
  /\ Written(GetSize(builder'), VectorOf(building.type), building.elements)
  /\ building' = Nothing

BeginTable(name) ==
  /\ Ready
  /\ builder' = StartTable(builder)
  /\ building' = [kind |-> "table", name |-> name, start |-> GetSize(builder), added |-> {},
                  values |-> [f \in DOMAIN Tables[name] |->
                    LET field == Tables[name][f]
                    IN  IF field.kind = "scalar" THEN field.default ELSE Absent]]
  /\ UNCHANGED << objects, written >>

Adding(f) == building.kind = "table" /\ f \in DOMAIN Tables[building.name] \ building.added

Added(f, value) ==
  building' = [building EXCEPT !.added = @ \cup {f}, !.values[f] = value]

AddScalar(f, bytes) ==
  LET field == Tables[building.name][f]
  IN  /\ Adding(f) /\ field.kind = "scalar" /\ field.size = Len(bytes)
      /\ builder' = AddElement(builder, FieldIndexToOffset(f), bytes, field.default)
      /\ Added(f, bytes)
      /\ UNCHANGED << objects, written >>

AddObject(f, o) ==
  /\ Adding(f) /\ Tables[building.name][f] = o.type
  /\ builder' = AddOffset(builder, FieldIndexToOffset(f), o.off)
  /\ Added(f, o.value)
  /\ UNCHANGED << objects, written >>

\* Offsets from a table to its fields are voffset_t.
FinishTable ==
  /\ building.kind = "table" /\ TableOffset(builder) - building.start < BYTE * BYTE
  /\ builder' = EndTable(builder, building.start)
  /\ Written(TableOffset(builder), TableOf(building.name), building.values)
  /\ building' = Nothing

FinishMessage(o) ==
  /\ building = Nothing /\ ~builder.finished /\ o.type.kind = "table"
  /\ builder' = Finish(builder, o.off)
  /\ building' = [kind |-> "finished", root |-> o]
  /\ UNCHANGED << objects, written >>

Reuse ==
  /\ builder.finished
  /\ builder' = Clear(builder)
  /\ objects' = << >>
  /\ building' = Nothing
  /\ UNCHANGED written

Objects == {objects[i] : i \in DOMAIN objects}

Next ==
  \/ \E chars \in Strings : WriteString(chars) \/ WriteSharedString(chars)
  \/ \E v \in ScalarVectors : WriteScalars(v)
  \/ \E v \in Vectors : BeginVector(v.type, v.len)
  \/ \E o \in Objects : PushItem(o) \/ FinishMessage(o)
  \/ FinishVector
  \/ \E name \in DOMAIN Tables : BeginTable(name)
  \/ building.kind = "table" /\ \E f \in DOMAIN Tables[building.name] :
       (\E bytes \in Scalars : AddScalar(f, bytes)) \/ (\E o \in Objects : AddObject(f, o))
  \/ FinishTable
  \/ Reuse

Spec == Init /\ [][Next]_vars

-----------------------------------------------------------------------------
Data == Buffer(builder.buf)

\* The assertions of the builder and the bounds.
TypeOK ==
  /\ PadsApart(builder.buf)
  /\ Len(objects) <= written /\ written <= MaxObjects

\* No byte of a message is memory that nothing has been written to: padding is
\* filled, and a FieldLoc, which has padding of its own, stays in the scratch pad
\* (vector_downward.h:213-222, flatbuffer_builder.h:1285-1288).
BytesWritten == \A i \in DOMAIN Data : Data[i] \in 0 .. BYTE - 1

\* A string reads as it was written, at any time later. One that is shared does
\* although it has been written a second time and taken back (flatbuffer_builder.h:604-624).
StringsReadBack ==
  \A o \in Objects : o.type = String => PooledString(builder.buf, o.off) = o.value

\* Where an object is for a reader.
Position(o) == Len(Data) - o.off

\* What a reader finds at a position: a scalar, or an offset that leads to an
\* object with the value.
Found(at, type, value) ==
  /\ Inside(Data, at, ElementSize(type))
  /\ IF type.kind = "scalar"
     THEN Bytes(Data, at, type.size) = value
     ELSE \E o \in Objects :
            o.type = type /\ o.value = value /\ at + Offset(Data, at) = Position(o)

\* The length and each element of a vector are found where they belong, whatever
\* the alignment of what was written before (flatbuffer_builder.h:667-707).
VectorsReadBack ==
  \A o \in Objects : o.type.kind = "vector" =>
    /\ Inside(Data, Position(o), UOFFSET) /\ Offset(Data, Position(o)) = Len(o.value)
    /\ \A i \in 1 .. Len(o.value) :
         Found(Position(o) + UOFFSET + (i - 1) * ElementSize(o.type.of), o.type.of, o.value[i])

\* Each field of a table is found through its vtable, be it its own or one that
\* another table has left, and a field that was not added reads as its default
\* (flatbuffer_builder.h:418-483, table.h:36-46).
TablesReadBack ==
  \A o \in Objects : o.type.kind = "table" =>
    \A f \in DOMAIN Tables[o.type.name] :
      LET field == Tables[o.type.name][f]
          place == GetOptionalFieldOffset(Data, Position(o), FieldIndexToOffset(f))
      IN  IF place # 0
          THEN Found(Position(o) + place, field, o.value[f])
          ELSE o.value[f] = IF field.kind = "scalar" THEN field.default ELSE Absent

\* Every object reads as it was written, at any time later: growth, padding, a
\* string or a vtable that is taken back and the tables built since leave it alone.
ObjectsReadBack ==
  GetSize(builder) < MAX_BUFFER_SIZE => StringsReadBack /\ VectorsReadBack /\ TablesReadBack

\* Tables of the same layout share one vtable (flatbuffer_builder.h:454-469).
VTableOf(o) == GetVTable(Data, Position(o))

VTableBytes(o) == Bytes(Data, VTableOf(o), VOffset(Data, VTableOf(o)))

VTablesShared ==
  GetSize(builder) < MAX_BUFFER_SIZE =>
    \A o, p \in {x \in Objects : x.type.kind = "table"} :
      VTableBytes(o) = VTableBytes(p) => VTableOf(o) = VTableOf(p)

\* The first offset of a finished message leads to its root: the padding that aligns
\* the buffer lies behind it (flatbuffer_builder.h:1267-1281).
RootFound ==
  building.kind = "finished" /\ GetSize(builder) < MAX_BUFFER_SIZE =>
    building.root \in Objects /\ Offset(Data, 0) = Position(building.root)

Aligned(at, type) == at % ElementSize(type) = 0

\* From the first byte of a finished message on, objects, elements of vectors and
\* fields of tables are at multiples of their sizes, although they were aligned from
\* the end while nobody knew where the first byte would be: minalign_ has the size of
\* the largest (flatbuffer_builder.h:1274-1278). A scalar equal to its default is left
\* out here, as it is in the buffer unless ForceDefaults is set.
MessageAligned ==
  building.kind = "finished" /\ GetSize(builder) < MAX_BUFFER_SIZE =>
    \A o \in Objects :
      /\ Position(o) % UOFFSET = 0
      /\ o.type.kind = "vector" =>
           \A i \in 1 .. Len(o.value) :
             Aligned(Position(o) + UOFFSET + (i - 1) * ElementSize(o.type.of), o.type.of)
      /\ o.type.kind = "table" =>
           \A f \in DOMAIN Tables[o.type.name] :
             LET field == Tables[o.type.name][f]
                 place == GetOptionalFieldOffset(Data, Position(o), FieldIndexToOffset(f))
             IN  place # 0 /\ (field.kind = "scalar" => o.value[f] # field.default) =>
                   Aligned(Position(o) + place, field)

\* A finished message can be read from its first byte on, wherever that byte came to lie.
FinishedInPlace == RootFound /\ MessageAligned

\* What has been written stays as it is and where it is, counted from the end,
\* until the builder is cleared: the allocation grows and moves, padding and
\* vtables are taken back, EndTable goes back to write into the table, but never
\* into what was there before (vector_downward.h:141-148, :269-285, flatbuffer_builder.h:418-483).
BytesStay ==
  [][Reuse \/ At(builder.buf', GetSize(builder), GetSize(builder)) = Data]_vars
=============================================================================
