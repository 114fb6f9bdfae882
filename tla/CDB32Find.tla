------------------------------ MODULE CDB32Find ------------------------------
(***************************************************************************)
(* Reading a CDB file: cdb32_read's bounds, cdb32_find with its search     *)
(* state, and the walk over the records that counting and iterating share. *)
(* The loops of cdb32_find are taken in one go: SlotTable.tla has them     *)
(* step by step.                                                           *)
(***************************************************************************)
EXTENDS CDB32Format

(* cdb32_read and cdb32_read_map: reading past the end is a format error.  *)
Readable(f, offset, len) == offset + len <= Len(f)

ReadKey(f, offset, len) == SubSeq(f, offset + 1, offset + len)

ReadPointer(f, offset) ==
  [offset |-> Unpack(f, offset), length |-> Unpack(f, offset + WORD)]

ReadSlot(f, offset) ==
  [hash |-> Unpack(f, offset), offset |-> Unpack(f, offset + WORD)]

ReadDLength(f, offset) ==
  [klen |-> Unpack(f, offset), dlen |-> Unpack(f, offset + WORD)]

-----------------------------------------------------------------------------
(* The state of a search (cdb32_find_t); key_num is 0 until a slot has     *)
(* been consumed.                                                          *)
NewFind(key) ==
  [key |-> key, key_num |-> 0, table_offset |-> 0,
   table |-> [offset |-> 0, length |-> 0]]

(* table_offset += 8, wrapping at table_sentinel *)
TableSentinel(table) == U32(table.offset + table.length * SIZEOF_SLOT)

NextTableOffset(table, offset) ==
  IF U32(offset + SIZEOF_SLOT) = TableSentinel(table)
  THEN table.offset
  ELSE U32(offset + SIZEOF_SLOT)

(* What a call of cdb32_find returns: a pointer to the value, "miss"       *)
(* (value.offset = 0), or a format error, and the state of the search.     *)
Answer(res, offset, length, find) ==
  [res |-> res, offset |-> offset, length |-> length, find |-> find]

(* What the search makes of a key on disk: its length is compared, then    *)
(* the key itself.                                                         *)
CompareKey(f, at, klen, key) ==
  IF klen # Len(key) THEN "next"
  ELSE IF ~Readable(f, at, klen) THEN "error"
  ELSE IF ReadKey(f, at, klen) = key THEN "hit"
  ELSE "next"

(* Variants: a key with the same hash is taken for the key; one with the   *)
(* same hash and length is.                                                *)
ProbeHash(f, slot, key) ==
  IF slot.offset = 0 THEN "miss"
  ELSE IF slot.hash = Hash[key] THEN "hit"
  ELSE "next"

ProbeLength(f, slot, key) ==
  IF slot.offset = 0 THEN "miss"
  ELSE IF /\ slot.hash = Hash[key]
          /\ ReadDLength(f, slot.offset).klen = Len(key)
  THEN "hit"
  ELSE "next"

(* What it makes of a slot: a free one ends it; otherwise the stored hash  *)
(* is compared before anything else is read.                               *)
ProbeSlot(f, slot, key) ==
  IF slot.offset = 0 THEN "miss"
  ELSE IF slot.hash # Hash[key] THEN "next"
  ELSE IF ~Readable(f, slot.offset, SIZEOF_DLENGTH) THEN "error"
  ELSE CompareKey(f, slot.offset + SIZEOF_DLENGTH,
                  ReadDLength(f, slot.offset).klen, key)

Probe(f, offset, key) ==
  IF ~Readable(f, offset, SIZEOF_SLOT) THEN "error"
  ELSE ProbeSlot(f, ReadSlot(f, offset), key)

AnswerAt(f, res, slot, before, after) ==
  IF res # "hit" THEN Answer(res, 0, 0, before)
  ELSE Answer("hit", slot.offset + SIZEOF_DLENGTH + Len(after.key),
              ReadDLength(f, slot.offset).dlen, after)

(* cdb32_find from its while loop on: slots are consumed until one answers *)
(* or none is left.                                                        *)
ProbeSlots(f, find) ==
  LET slotAt[n \in 0 .. find.table.length] ==
        IF n = 0 THEN find.table_offset
        ELSE NextTableOffset(find.table, slotAt[n - 1])
      left == find.table.length - find.key_num
      After(n) == [find EXCEPT !.key_num = @ + n, !.table_offset = slotAt[n]]
      AnswerAfter(n) ==
        IF n = left THEN Answer("miss", 0, 0, After(n))
        ELSE AnswerAt(f, Probe(f, slotAt[n], find.key), ReadSlot(f, slotAt[n]),
                      After(n), After(n + 1))
  IN  AnswerAfter(Min({n \in 0 .. left :
                         n < left => Probe(f, slotAt[n], find.key) # "next"}))

(* A new search begins at the slot that the hash names. *)
ProbeTable(f, find, table) ==
  IF table.length = 0
  THEN Answer("miss", 0, 0, [find EXCEPT !.table.length = 0])
  ELSE ProbeSlots(f, [find EXCEPT !.table = table,
                        !.table_offset = PTR_SLOT(Hash[find.key], table)])

(* The whole of cdb32_find: a search that has not consumed a slot starts   *)
(* again from the table pointer.                                           *)
Find(f, find) ==
  LET pointer == PTR_TABLE(Hash[find.key])
  IN  IF find.key_num # 0 THEN ProbeSlots(f, find)
      ELSE IF ~Readable(f, pointer, SIZEOF_TPTR)
      THEN Answer("error", 0, 0, find)
      ELSE ProbeTable(f, find, ReadPointer(f, pointer))

FindFirst(f, key) == Find(f, NewFind(key))

ReadValue(f, answer) == ReadKey(f, answer.offset, answer.length)

-----------------------------------------------------------------------------
(* The search repeated until it finds nothing more, as get(all=True) does. *)
(* It finds at most one record for each slot of the table.                 *)
FindMore(f, first) ==
  LET More(all, n) ==
        IF all.last.res # "hit" THEN all
        ELSE [last |-> Find(f, all.last.find),
              values |-> Append(all.values, ReadValue(f, all.last))]
  IN  FoldLeft(More, [last |-> first, values |-> <<>>],
               [n \in 1 .. first.find.table.length |-> n])

FindAll(f, key) == FindMore(f, FindFirst(f, key))

(* CDB32_READ_SENTINEL: the records end where the first table starts.      *)
ReadSentinel(f) == Unpack(f, 0)

(* A record is the first one with its key if the value that a search for   *)
(* the key finds is the record's own.                                      *)
(* Variant: every record that can be found counts as a first one. *)
IsFirstAny(found, value) == found.res = "hit"

IsFirst(found, value) == found.offset = value

RecordWith(f, key, dlength, value) ==
  LET Described(found) ==
        [key |-> ReadKey(f, key, dlength.klen),
         value |-> ReadKey(f, value, dlength.dlen),
         first |-> IsFirst(found, value),
         res |-> found.res,
         at |-> value,
         next |-> value + dlength.dlen]
  IN  Described(FindFirst(f, ReadKey(f, key, dlength.klen)))

(* The record at pos. *)
RecordAt(f, pos) ==
  LET Behind(dlength) ==
        RecordWith(f, pos + SIZEOF_DLENGTH, dlength,
                   pos + SIZEOF_DLENGTH + dlength.klen)
  IN  Behind(ReadDLength(f, pos))

-----------------------------------------------------------------------------
(* cdb32_mmap maps the file up to the end of its last table, found from    *)
(* the table pointers alone.                                               *)
UsedTables(f) ==
  {j \in 0 .. TABLES - 1 : ReadPointer(f, j * SIZEOF_TPTR).length # 0}

(* Variant: the first table that is used. *)
FirstPointer(f) == ReadPointer(f, Min(UsedTables(f)) * SIZEOF_TPTR)

LastPointer(f) == ReadPointer(f, Max(UsedTables(f)) * SIZEOF_TPTR)

(* Variant: one slot too many. *)
EndOfTableLonger(f, last) == U32(last.offset + (last.length + 1) * SIZEOF_SLOT)

(* Length 0, which is 2^32 in 32 bits, makes Python map all of the file. *)
EndOfTable(f, last) ==
  LET size == U32(last.offset + U32(last.length * SIZEOF_SLOT))
  IN  IF size = 0 THEN Len(f) ELSE size

(* How much cdb32_mmap maps; a length beyond 32 bits is refused. *)
MapLength(f) ==
  IF UsedTables(f) = {} THEN SIZEOF_TABLE ELSE EndOfTable(f, LastPointer(f))

MapTooLong(last, len) == MAX_OFF = len \/ MAX_OFF - len < U32(last.offset - 1)

MapOverflows(f) ==
  LET Overflows(last) == MapTooLong(last, U32(last.length * SIZEOF_SLOT))
  IN  UsedTables(f) # {} /\ Overflows(LastPointer(f))

(* What a CDB instance may read from: the file, or a map of it.            *)
Mappable(f) ==
  Readable(f, 0, SIZEOF_TABLE) /\ ~MapOverflows(f) /\ MapLength(f) <= Len(f)

Views(f) ==
  {f} \union (IF Mappable(f) THEN {SubSeq(f, 1, MapLength(f))} ELSE {})
=============================================================================
