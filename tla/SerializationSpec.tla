------------------------- MODULE SerializationSpec --------------------------
(***************************************************************************)
(* Values are written to a stream, some of it arrives (the reader may run  *)
(* another version of the message, or be handed the wrong one), and they   *)
(* are read again, not necessarily as what they were written.              *)
(***************************************************************************)
EXTENDS Serialization

CONSTANTS
  Types,        \* what is written and read
  MaxLength,    \* a bound on the length of strings, sequences and maps
  MaxReads      \* a bound on the reads

ASSUME SerializationSpecAssumption ==
  /\ MaxLength \in Nat
  /\ MaxReads \in Nat
  /\ MaxLength < BYTE_BASE ^ COUNT_LEN    \* every length fits the count field

VARIABLES
  stream,     \* the Stream
  wrote,      \* what was written: its type and value
  whole,      \* all of it has arrived
  reads       \* what the reads returned, and how much they found

vars == << stream, wrote, whole, reads >>

Lengths == 0 .. MaxLength

\* The values of a type.
RECURSIVE Values(_)
Values(type) ==
  CASE type.kind = "scalar" -> [1 .. type.width -> Data]
    [] type.kind = "string" -> UNION {[1 .. n -> Data] : n \in Lengths}
    [] type.kind = "struct" ->
         {v \in [DOMAIN type.fields -> UNION {Values(type.fields[i]) : i \in DOMAIN type.fields}] :
            \A i \in DOMAIN v : v[i] \in Values(type.fields[i])}
    [] type.kind = "sequence" -> UNION {[1 .. n -> Values(type.of)] : n \in Lengths}
    [] type.kind = "map" ->
         UNION {[keys -> Values(type.value)] :
                  keys \in {k \in SUBSET Values(type.key) : Cardinality(k) <= MaxLength}}

Nothing == [type |-> Struct(<< >>), value |-> << >>]

Init ==
  /\ stream = NewStream(0)
  /\ wrote = Nothing
  /\ whole = TRUE
  /\ reads = << >>

Write(type, value, bytes) ==
  /\ wrote = Nothing
  /\ stream' = StreamWrite(stream, bytes)
  /\ wrote' = [type |-> type, value |-> value]
  /\ UNCHANGED << whole, reads >>

\* The reader's stream holds the first n bytes only.
Shorten(n) ==
  /\ whole
  /\ reads = << >>
  /\ n < StreamReadableSize(stream)
  /\ stream' = StreamOf(SubSeq(Unread(stream), 1, n))
  /\ whole' = FALSE
  /\ UNCHANGED << wrote, reads >>

ReadNext(type) ==
  LET r == Read(stream, type)
  IN  /\ wrote # Nothing
      /\ Len(reads) < MaxReads
      /\ stream' = r.stream
      /\ reads' = Append(reads, [type |-> type, readable |-> StreamReadableSize(stream),
                                 thrown |-> r.thrown, value |-> r.value])
      /\ UNCHANGED << wrote, whole >>

Next ==
  \/ \E type \in Types : \E value \in Values(type) : \E bytes \in Written(type, value) :
       Write(type, value, bytes)
  \/ \E n \in 0 .. StreamReadableSize(stream) : Shorten(n)
  \/ \E type \in Types : ReadNext(type)

Spec == Init /\ [][Next]_vars

-----------------------------------------------------------------------------
\* The first read, when it reads what was written.
FirstRead == Head(reads)
SameType == reads # << >> /\ FirstRead.type = wrote.type

\* What was written is what is read, and nothing of it is left, for nested
\* containers and for maps in any order.
RoundTrip ==
  SameType /\ whole =>
    /\ ~FirstRead.thrown
    /\ FirstRead.value = wrote.value
    /\ Len(reads) = 1 => StreamReadableSize(stream) = 0

\* One value is the other, or what is left of it when its containers are cut short.
RECURSIVE PartOf(_, _, _)
PartOf(type, part, value) ==
  CASE type.kind \in {"scalar", "string"} -> part = value
    [] type.kind = "struct" -> \A i \in DOMAIN part : PartOf(type.fields[i], part[i], value[i])
    [] type.kind = "sequence" ->
         Len(part) <= Len(value) /\ \A i \in DOMAIN part : PartOf(type.of, part[i], value[i])
    [] type.kind = "map" ->
         \A k \in DOMAIN part : k \in DOMAIN value /\ PartOf(type.value, part[k], value[k])

\* From a stream that was cut short a read throws, or returns elements that were
\* written; it never makes a value up.
NothingInvented ==
  SameType /\ ~FirstRead.thrown => PartOf(wrote.type, FirstRead.value, wrote.value)

\* What a read that threw has left of a value: each piece was written or is not
\* assigned, and an entry of a map is there whole or not at all.
RECURSIVE HalfOf(_, _, _)
HalfOf(type, part, value) ==
  \/ part = Blank
  \/ /\ type.kind \in {"scalar", "string"}
     /\ part = value
  \/ /\ type.kind = "struct"
     /\ \A i \in DOMAIN part : HalfOf(type.fields[i], part[i], value[i])
  \/ /\ type.kind = "sequence"
     /\ Len(part) <= Len(value)
     /\ \A i \in DOMAIN part : HalfOf(type.of, part[i], value[i])
  \/ /\ type.kind = "map"
     /\ PartOf(type, part, value)

\* A read that throws half way leaves the caller's variable with pieces of what was
\* written: the elements read before, elements that are not assigned, and no
\* entry of a map whose value was not read (Stream.h:194-205, 244-257).
HalfReadIsPart ==
  SameType /\ FirstRead.thrown => HalfOf(wrote.type, FirstRead.value, wrote.value)

\* Whatever is read as whatever else, and even when the read throws half way, the
\* cursors stay in bounds and a count cannot make a container larger than the
\* bytes that were there (Stream.h:66-77, 157-169, 199).
ReadsBounded ==
  /\ CursorsOK(stream)
  /\ \A i \in DOMAIN reads :
       reads[i].type.kind = "sequence" => Len(reads[i].value) <= reads[i].readable
=============================================================================
