----------------------------- MODULE CDB32Format -----------------------------
(***************************************************************************)
(* The CDB file format of cdbx/cdb32.c, byte by byte, over a small machine *)
(* word: a byte has BYTE values instead of 256, an offset, a length and a  *)
(* hash have WORD bytes instead of 4, and there are TABLES hash tables     *)
(* instead of 256.  Every 32-bit computation wraps at BYTE^WORD.           *)
(*                                                                         *)
(*   table pointers | records (klen, dlen, key, value)* | slot tables      *)
(*                                                                         *)
(* A file is a sequence of bytes; the byte at file offset o is f[o + 1].   *)
(***************************************************************************)
EXTENDS Integers, Sequences, SequencesExt

CONSTANTS
  BYTE,      (* number of values of a byte                                 *)
  WORD,      (* bytes of an offset, a length or a hash                     *)
  TABLES,    (* number of hash tables                                      *)
  Keys,      (* the keys programs use: byte sequences                      *)
  Values,    (* the values they store: byte sequences                      *)
  Hash       (* the hash of each key                                       *)

MAX_OFF == BYTE^WORD - 1
U32(n) == n % (MAX_OFF + 1)

Bytes == 0 .. BYTE - 1
Words == 0 .. MAX_OFF

SIZEOF_DLENGTH == WORD + WORD
SIZEOF_SLOT == WORD + WORD
SIZEOF_TPTR == WORD + WORD
SIZEOF_TABLE == SIZEOF_TPTR * TABLES

Buckets == 0 .. TABLES - 1

(* CDB32_READ_CURPOS is the largest offset, so no file may need it.  What   *)
(* is said of the powers of BYTE is true of all numbers; it is spelled out  *)
(* because the proofs need it and the provers know nothing of powers.      *)
ASSUME FormatAssumption ==
  /\ BYTE \in Nat \ {0, 1}
  /\ WORD \in Nat \ {0}
  /\ TABLES \in Nat \ {0}
  /\ \A i \in 0 .. WORD : BYTE^i \in Nat \ {0}
  /\ BYTE^0 = 1 /\ \A i \in 1 .. WORD : BYTE^i = BYTE^(i - 1) * BYTE
  /\ SIZEOF_TABLE + 2 * SIZEOF_SLOT <= MAX_OFF
  /\ Keys \subseteq Seq(Bytes)
  /\ Values \subseteq Seq(Bytes)
  /\ \A s \in Keys \union Values : Len(s) <= MAX_OFF
  /\ Hash \in [Keys -> Words]

Record == [key : Keys, value : Values]
Slot == [hash : Words, offset : Words]
FreeSlot == [hash |-> 0, offset |-> 0]

-----------------------------------------------------------------------------
(* CDB32_PACK: the bytes of a word, the least significant one first. *)
Pack(num) == [i \in 1 .. WORD |-> (num \div BYTE^(i - 1)) % BYTE]

(* CDB32_UNPACK: the word at an offset of the file. *)
Unpack(f, offset) ==
  LET word[n \in 0 .. WORD] ==
        IF n = 0 THEN 0 ELSE word[n - 1] + f[offset + n] * BYTE^(n - 1)
  IN  word[WORD]

PackSlot(slot) == Pack(slot.hash) \o Pack(slot.offset)
PackDLength(key, value) == Pack(Len(key)) \o Pack(Len(value))

(* hash & 0xFF and hash >> 8 *)
Bucket(hash) == hash % TABLES
HashRest(hash) == hash \div TABLES

(* CDB32_PTR_TABLE and CDB32_PTR_SLOT *)
PTR_TABLE(hash) == Bucket(hash) * SIZEOF_TPTR
PTR_SLOT(hash, table) ==
  U32(table.offset + (HashRest(hash) % table.length) * SIZEOF_SLOT)

-----------------------------------------------------------------------------
(* A slot table is filled record by record: each goes to the first free    *)
(* slot from the one its hash names (SlotTable.tla takes this loop step by *)
(* step).                                                                  *)
PlaceSlot(slots, slot) ==
  LET max_slots == Cardinality(DOMAIN slots)
      At(n) == (HashRest(slot.hash) + n) % max_slots
      free == CHOOSE n \in 0 .. max_slots - 1 :
                /\ slots[At(n)].offset = 0
                /\ \A m \in 0 .. n - 1 : slots[At(m)].offset # 0
  IN  [slots EXCEPT ![At(free)] = slot]

FillTable(bucket) ==
  FoldLeft(PlaceSlot, [n \in 0 .. 2 * Len(bucket) - 1 |-> FreeSlot], bucket)

(* The table as it is written, slot after slot. *)
TableSlots(bucket) ==
  LET slots == FillTable(bucket)
  IN  [n \in 1 .. 2 * Len(bucket) |-> slots[n - 1]]

-----------------------------------------------------------------------------
(* What a file with these records is to look like.                         *)
Encode(record) ==
  PackDLength(record.key, record.value) \o record.key \o record.value

Encoded(records) == FlattenSeq([i \in DOMAIN records |-> Encode(records[i])])

(* A record is found where the records before it end. *)
OffsetOf(records, i) ==
  SIZEOF_TABLE + Len(Encoded(SubSeq(records, 1, i - 1)))

SlotOf(records, i) ==
  [hash |-> Hash[records[i].key], offset |-> OffsetOf(records, i)]

(* The slots of the records whose hash belongs to bucket j, oldest first. *)
BucketOf(records, j) ==
  FlattenSeq([i \in DOMAIN records |->
                IF Bucket(Hash[records[i].key]) = j THEN <<SlotOf(records, i)>>
                ELSE <<>>])

(* The slots of the first n buckets. *)
BucketsOf(records, n) ==
  FlattenSeq([t \in 1 .. n |-> BucketOf(records, t - 1)])

TablePointer(records, j) ==
  Pack(OffsetOf(records, Len(records) + 1)
         + SIZEOF_SLOT * 2 * Len(BucketsOf(records, j)))
  \o Pack(2 * Len(BucketOf(records, j)))

PackTable(slots) == FlattenSeq([n \in DOMAIN slots |-> PackSlot(slots[n])])

(* The first n slot tables. *)
SlotTables(records, n) ==
  FlattenSeq([t \in 1 .. n |-> PackTable(TableSlots(BucketOf(records, t - 1)))])

Image(records) ==
  FlattenSeq([t \in 1 .. TABLES |-> TablePointer(records, t - 1)])
  \o Encoded(records)
  \o SlotTables(records, TABLES)

(* The values that were stored under a key, oldest first.                  *)
ValuesOf(records, key) ==
  FlattenSeq([i \in DOMAIN records |->
                IF records[i].key = key THEN <<records[i].value>> ELSE <<>>])
=============================================================================
