------------------------- MODULE FlatBufferBuilder --------------------------
(***************************************************************************)
(* flatbuffers::FlatBufferBuilder (flatbuffer_builder.h) as far as a       *)
(* message of DKLibrary needs it (TCPMessage.h:41-48): strings, vectors    *)
(* and tables without 64-bit offsets. A builder is a record                *)
(*                                                                         *)
(*    buf             the bytes and the scratch pad, a vector_downward     *)
(*    num_field_loc   the fields of the table that is being built          *)
(*    max_voffset     the largest of them                                  *)
(*    nested          a table or a vector is being built                   *)
(*    finished        Finish has been called                               *)
(*    minalign        the largest alignment asked for                      *)
(*    pool            the offsets of the shared strings                    *)
(*                                                                         *)
(* The scratch pad holds the offsets of the vtables and, above them, the   *)
(* FieldLocs of the table that is being built.                             *)
(***************************************************************************)
EXTENDS VectorDownward

CONSTANTS
  force_defaults,    \* ForceDefaults: scalars equal to their default are stored
  Absent             \* what stands for an object that is not there, a null offset

ASSUME BuilderAssumption == force_defaults \in BOOLEAN

\* sizeof uoffset_t and soffset_t, voffset_t, FieldLoc
UOFFSET == 4
VOFFSET == 2
FIELD_LOC == 8

EmptyBuilder ==
  [buf |-> EmptyVector, num_field_loc |-> 0, max_voffset |-> 0, nested |-> FALSE,
   finished |-> FALSE, minalign |-> 1, pool |-> {}]

GetSize(b) == size(b.buf)

FieldIndexToOffset(field) == (field + 1) * VOFFSET

PaddingBytes(n, align) == (-n) % align

\* A mutant of TrackMinAlign: the last alignment is remembered, not the largest.
TrackLastAlign(b, align) == [b EXCEPT !.minalign = align]

TrackMinAlign(b, align) == [b EXCEPT !.minalign = Biggest(@, align)]

Align(b, align) ==
  [TrackMinAlign(b, align) EXCEPT !.buf = fill(@, PaddingBytes(size(@), align))]

\* Aligns such that what follows len more bytes is aligned.
PreAlign(b, len, align) ==
  IF len = 0
  THEN b
  ELSE [TrackMinAlign(b, align) EXCEPT !.buf = fill(@, PaddingBytes(size(@) + len, align))]

PushBytes(b, bytes) == [b EXCEPT !.buf = push(@, bytes)]

PushElement(b, bytes) == PushBytes(Align(b, Len(bytes)), bytes)

\* PushElement(ReferTo(off)): an offset is stored relative to where it is stored.
PushOffset(b, off) ==
  LET aligned == Align(b, UOFFSET)
  IN  PushElement(aligned, Scalar(GetSize(aligned) - off + UOFFSET, UOFFSET))

-----------------------------------------------------------------------------
\* Strings and vectors.

CreateString(b, chars) ==
  LET spaced == PushBytes(PreAlign(b, Len(chars) + 1, UOFFSET), << 0 >>)
  IN  PushElement(PushBytes(spaced, chars), Scalar(Len(chars), UOFFSET))

\* The characters of the string at an offset.
PooledString(v, off) == At(v, off - UOFFSET, Signed32(At(v, off, UOFFSET)))

\* A mutant of CreateSharedString: the offset of the copy that is taken back is returned.
CreateSharedStringCopy(b, chars) ==
  LET written == CreateString(b, chars)
      hits == {off \in b.pool : PooledString(written.buf, off) = chars}
  IN  IF hits # {}
      THEN [builder |-> [written EXCEPT !.buf = pop(@, size(@) - GetSize(b))],
            off |-> GetSize(written)]
      ELSE [builder |-> [written EXCEPT !.pool = @ \cup {GetSize(written)}],
            off |-> GetSize(written)]

\* CreateSharedString: the string is written, looked up in the pool and taken
\* back when it is there. The result is the builder and the offset.
CreateSharedString(b, chars) ==
  LET written == CreateString(b, chars)
      hits == {off \in b.pool : PooledString(written.buf, off) = chars}
  IN  IF hits # {}
      THEN [builder |-> [written EXCEPT !.buf = pop(@, size(@) - GetSize(b))],
            off |-> CHOOSE off \in hits : TRUE]
      ELSE [builder |-> [written EXCEPT !.pool = @ \cup {GetSize(written)}],
            off |-> GetSize(written)]

StartVector(b, len, elemsize) ==
  [PreAlign(PreAlign(b, len * elemsize, UOFFSET), len * elemsize, elemsize)
     EXCEPT !.nested = TRUE]

EndVector(b, len) == PushElement([b EXCEPT !.nested = FALSE], Scalar(len, UOFFSET))

\* CreateVector(const T *, size_t): the bytes of each element.
CreateVector(b, elements, elemsize) ==
  LET bytes == [i \in 1 .. Len(elements) * elemsize |->
                  elements[(i - 1) \div elemsize + 1][((i - 1) % elemsize) + 1]]
  IN  EndVector(PushBytes(StartVector(b, Len(elements), elemsize), bytes), Len(elements))

-----------------------------------------------------------------------------
\* Tables.

StartTable(b) == [b EXCEPT !.nested = TRUE]

TrackField(b, voffset, off) ==
  [b EXCEPT
     !.buf = scratch_push_small(@, Scalar(off, UOFFSET) \o Scalar(voffset, VOFFSET) \o << Uninit, Uninit >>),
     !.num_field_loc = @ + 1,
     !.max_voffset = Biggest(@, voffset)]

\* TrackField(field, PushElement(e)), unless e is the default.
AddElement(b, voffset, bytes, default) ==
  LET pushed == PushElement(b, bytes)
  IN  IF bytes = default /\ ~force_defaults THEN b ELSE TrackField(pushed, voffset, GetSize(pushed))

AddOffset(b, voffset, off) ==
  LET pushed == PushOffset(b, off) IN TrackField(pushed, voffset, GetSize(pushed))

ClearOffsets(b) ==
  [b EXCEPT !.buf = scratch_pop(@, b.num_field_loc * FIELD_LOC),
            !.num_field_loc = 0, !.max_voffset = 0]

\* The n bytes of the scratch pad after the first at.
ScratchAt(v, at, n) == SubSeq(v.buf, at + 1, at + n)

\* What the scratch pad knows of the table: where each field is, and its place in the vtable.
FieldLocs(b) ==
  LET v == b.buf
      place(i) == v.scratch - i * FIELD_LOC
  IN  {[off |-> Signed32(ScratchAt(v, place(i), UOFFSET)),
        id |-> Unsigned16(ScratchAt(v, place(i) + UOFFSET, VOFFSET))] : i \in 1 .. b.num_field_loc}

\* The offsets of the vtables the scratch pad remembers once the fields are gone.
KnownVTables(v) ==
  [k \in 1 .. v.scratch \div UOFFSET |-> Signed32(ScratchAt(v, (k - 1) * UOFFSET, UOFFSET))]

\* The vtable: its length, the length of the table, the place of each field in
\* the table or 0.
VTable(fields, vtsize, loc, start) ==
  LET slot(at) == CASE at = 0 -> vtsize
                    [] at = VOFFSET -> loc - start
                    [] at > VOFFSET /\ \E f \in fields : f.id = at
                         -> loc - (CHOOSE f \in fields : f.id = at).off
                    [] OTHER -> 0
  IN  [i \in 1 .. vtsize |->
         Scalar(slot(((i - 1) \div VOFFSET) * VOFFSET), VOFFSET)[((i - 1) % VOFFSET) + 1]]

\* A mutant of SameVTable: the sizes are compared, memcmp is left out.
SameSizeVTable(v, vtable) ==
  {k \in DOMAIN KnownVTables(v) :
     At(v, KnownVTables(v)[k], VOFFSET) = Scalar(Len(vtable), VOFFSET)}

\* A mutant of SameVTable: DedupVtables(false).
NoVTable(v, vtable) == {}

\* The vtables of the scratch pad that have the size and the bytes of vtable.
SameVTable(v, vtable) ==
  {k \in DOMAIN KnownVTables(v) :
     LET off == KnownVTables(v)[k]
     IN  /\ At(v, off, VOFFSET) = Scalar(Len(vtable), VOFFSET)
         /\ At(v, off, Len(vtable)) = vtable}

\* EndTable(start); the table is at the offset of its first element, which
\* points to the vtable.
EndTable(b, start) ==
  LET placed == PushElement(b, Scalar(0, UOFFSET))
      loc == GetSize(placed)
      vtsize == Biggest(b.max_voffset + VOFFSET, FieldIndexToOffset(1))
      vtable == VTable(FieldLocs(b), vtsize, loc, start)
      pushed == ClearOffsets(PushBytes(placed, vtable))
      same == SameVTable(pushed.buf, vtable)
      vt_use == IF same = {}
                THEN GetSize(pushed)
                ELSE KnownVTables(pushed.buf)[CHOOSE k \in same : \A j \in same : k <= j]
      kept == IF same = {}
              THEN scratch_push_small(pushed.buf, Scalar(vt_use, UOFFSET))
              ELSE pop(pushed.buf, size(pushed.buf) - loc)
  IN  [pushed EXCEPT !.buf = PutAt(kept, loc, Scalar(vt_use - loc, UOFFSET)),
                     !.nested = FALSE]

\* Where EndTable has put the table.
TableOffset(b) == GetSize(PushElement(b, Scalar(0, UOFFSET)))

-----------------------------------------------------------------------------
\* A mutant of Finish: only the root offset is aligned, not the buffer.
FinishUnaligned(b, root) ==
  [PushOffset([b EXCEPT !.buf = clear_scratch(@)], root) EXCEPT !.finished = TRUE]

\* A mutant of Finish: the buffer is aligned when the root offset has been written.
FinishThenAligned(b, root) ==
  LET written == PushOffset([b EXCEPT !.buf = clear_scratch(@)], root)
  IN  [Align(written, b.minalign) EXCEPT !.finished = TRUE]

\* Finish(root) without an identifier and without a size prefix.
Finish(b, root) ==
  LET aligned == PreAlign([b EXCEPT !.buf = clear_scratch(@)], UOFFSET, b.minalign)
  IN  [PushOffset(aligned, root) EXCEPT !.finished = TRUE]

\* Clear: the allocation is kept for the next buffer.
Clear(b) ==
  [EmptyBuilder EXCEPT !.buf = clear(b.buf)]
=============================================================================
