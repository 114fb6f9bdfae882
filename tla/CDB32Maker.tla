----------------------------- MODULE CDB32Maker -----------------------------
(***************************************************************************)
(* A CDBMaker: add() and commit() of cdbx/cdbmaker.c down to the writes of *)
(* cdbx/cdb32.c.  A call is broken at the places where it can fail and     *)
(* where a crash or a reader of the file can see what it has done so far.  *)
(*                                                                         *)
(* Every write to the file may stop after any number of bytes (the disk is *)
(* full, a signal ends the process); the bytes it got to stay in the file. *)
(***************************************************************************)
EXTENDS CDB32Find

CONSTANTS
  WRITE_BUF_SIZE,    (* CDB32_WRITE_BUF_SIZE: bytes in the write buffer    *)
  SLOT_LIST_SIZE     (* CDB32_SLOT_LIST_SIZE: slots in a chunk of the list *)

(* A record's lengths and a slot fit into the buffer. *)
ASSUME MakerAssumption ==
  /\ WRITE_BUF_SIZE \in Nat
  /\ WRITE_BUF_SIZE >= SIZEOF_DLENGTH
  /\ SLOT_LIST_SIZE \in Nat \ {0}

VARIABLES
  file,              (* the bytes on disk                                  *)
  position,          (* the descriptor's file offset                       *)
  buf,               (* buf[0 .. buf_index)                                *)
  slot_counts,       (* records per bucket                                 *)
  slot_lists,        (* chunks of slots in insertion order, oldest first   *)
  slot_list_index,   (* entries used in the newest chunk                   *)
  offset,            (* where the next byte goes, buffered or not          *)
  size,              (* the file's length once committed, modulo 2^32      *)
  flags,             (* FL_ERROR, FL_COMMITTED, FL_CLOSED                  *)
  pc,                (* "idle" or the next step of the call in progress    *)
  record,            (* add(): the record ...                              *)
  start,             (* ... and its offset                                 *)
  sorted,            (* commit(): the slots, bucket by bucket              *)
  bucket,            (* commit(): j, the table it is at                    *)
  table,             (* commit(): the table pointers so far                *)
  result,            (* the CDB instance commit() returned, or none        *)
  added              (* the records whose add() has returned               *)

makerVars == <<slot_counts, slot_lists, slot_list_index, offset, size>>
diskVars == <<file, position, buf>>
addVars == <<record, start>>
commitVars == <<sorted, bucket, table>>
vars == <<file, position, buf, slot_counts, slot_lists, slot_list_index,
          offset, size, flags, pc, record, start, sorted, bucket, table,
          result, added>>

NoRecord == [key |-> <<>>, value |-> <<>>]

(* cdbx_cdb32_maker_create has truncated the file and left room for the    *)
(* table pointers.                                                         *)
Init ==
  /\ file = <<>>
  /\ position = SIZEOF_TABLE
  /\ buf = <<>>
  /\ slot_counts = [j \in Buckets |-> 0]
  /\ slot_lists = <<>>
  /\ slot_list_index = 0
  /\ offset = SIZEOF_TABLE
  /\ size = SIZEOF_TABLE
  /\ flags = {}
  /\ pc = "idle"
  /\ record = NoRecord
  /\ start = 0
  /\ sorted = <<>>
  /\ bucket = 0
  /\ table = <<>>
  /\ result = "none"
  /\ added = <<>>

-----------------------------------------------------------------------------
(* Buffered output: what a step sends to the file and what it leaves in    *)
(* the buffer.                                                             *)
Buffered == [out |-> <<>>, buf |-> buf]

(* cdb32_maker_buf_flush *)
Flush(o) == [out |-> o.out \o o.buf, buf |-> <<>>]

(* Variant: the buffer is not flushed to make room. *)
PutWordsUnflushed(o, bytes) == [out |-> o.out, buf |-> o.buf \o bytes]

(* Lengths and slots are packed straight into the buffer, which is flushed *)
(* first if they do not fit, and may be full afterwards.                   *)
PutWords(o, bytes) ==
  IF WRITE_BUF_SIZE - Len(o.buf) < Len(bytes)
  THEN [out |-> Flush(o).out, buf |-> bytes]
  ELSE [out |-> o.out, buf |-> o.buf \o bytes]

(* A slot table, slot by slot. *)
PutSlots(slots) ==
  FoldLeft(LAMBDA o, slot : PutWords(o, PackSlot(slot)), Buffered, slots)

(* cdb32_maker_buf_write copies byte by byte and flushes whenever the      *)
(* buffer is full, except that it does nothing at all for an empty string. *)
PutString(o, string) ==
  LET bytes == o.buf \o string
      full == (Len(bytes) \div WRITE_BUF_SIZE) * WRITE_BUF_SIZE
  IN  IF string = <<>> THEN o
      ELSE [out |-> o.out \o SubSeq(bytes, 1, full),
            buf |-> SubSeq(bytes, full + 1, Len(bytes))]

(* write(2) at the descriptor's offset; a gap before it reads as zeros.    *)
WriteAt(f, at, bytes) ==
  IF bytes = <<>> THEN f
  ELSE [i \in 1 .. Max({Len(f), at + Len(bytes)}) |->
          IF i \in at + 1 .. at + Len(bytes) THEN bytes[i - at]
          ELSE IF i <= Len(f) THEN f[i] ELSE 0]

(* cdb32_maker_write succeeds, or fails after n bytes: the call returns    *)
(* with the buffer empty and the maker is marked as broken.                *)
Write(o) ==
  /\ file' = WriteAt(file, position, o.out)
  /\ position' = position + Len(o.out)
  /\ buf' = o.buf

Fail ==
  /\ flags' = flags \union {"ERROR"}
  /\ pc' = "idle"

WriteFails(o) ==
  /\ \E n \in 0 .. Len(o.out) - 1 :
       /\ file' = WriteAt(file, position, SubSeq(o.out, 1, n))
       /\ position' = position + n
  /\ buf' = <<>>
  /\ Fail

-----------------------------------------------------------------------------
(* Variant: size - 1 is not computed in 32 bits. *)
TooBigUnwrapped(len) == MAX_OFF - len < size - 1

(* The file must stay addressable: size is compared as size - 1, so that   *)
(* it may reach 2^32, which is stored as 0.                                *)
TooBig(len) == MAX_OFF - len < U32(size - 1)

TooLong(string) == MAX_OFF = Len(string) \/ TooBig(Len(string))

(* add() and commit() refuse to do anything in these states. *)
Usable == flags \intersect {"CLOSED", "COMMITTED", "ERROR"} = {}

(* add(): the key's and the value's length ... *)
Grow(len) ==
  /\ offset' = U32(offset + len)
  /\ size' = U32(size + len)

AddLengths(r) ==
  /\ pc = "idle"
  /\ Usable
  /\ ~TooBig(SIZEOF_DLENGTH)
  /\ LET o == PutWords(Buffered, PackDLength(r.key, r.value)) IN
       \/ /\ Write(o)
          /\ Grow(SIZEOF_DLENGTH)
          /\ pc' = "key"
          /\ record' = r
          /\ start' = offset
          /\ UNCHANGED flags
       \/ /\ WriteFails(o)
          /\ UNCHANGED <<offset, size, addVars>>
  /\ UNCHANGED <<slot_counts, slot_lists, slot_list_index, commitVars, result,
                 added>>

(* ... the key, then the value (cdb32_maker_buf_write) ... *)
AddString(string, next) ==
  /\ ~TooLong(string)
  /\ Grow(Len(string))
  /\ LET o == PutString(Buffered, string) IN
       \/ Write(o) /\ pc' = next /\ UNCHANGED flags
       \/ WriteFails(o)
  /\ UNCHANGED <<slot_counts, slot_lists, slot_list_index, addVars, commitVars,
                 result, added>>

AddKey == pc = "key" /\ AddString(record.key, "value")
AddValue == pc = "value" /\ AddString(record.value, "slot")

(* ... and the slot, which counts twice because half of a table is free.   *)
RememberSlot(hash) ==
  LET full == slot_lists = <<>> \/ slot_list_index = SLOT_LIST_SIZE
      lists == IF full
               THEN Append(slot_lists,
                           [n \in 0 .. SLOT_LIST_SIZE - 1 |-> FreeSlot])
               ELSE slot_lists
      index == IF full THEN 0 ELSE slot_list_index
      slot == [hash |-> hash, offset |-> start]
  IN  /\ slot_lists' = [lists EXCEPT ![Len(lists)][index] = slot]
      /\ slot_list_index' = index + 1
      /\ slot_counts' = [slot_counts EXCEPT ![Bucket(hash)] = @ + 1]

AddSlot ==
  /\ pc = "slot"
  /\ ~TooBig(SIZEOF_SLOT + SIZEOF_SLOT)
  /\ size' = U32(size + SIZEOF_SLOT + SIZEOF_SLOT)
  /\ RememberSlot(Hash[record.key])
  /\ added' = Append(added, record)
  /\ pc' = "idle"
  /\ UNCHANGED <<diskVars, offset, flags, addVars, commitVars, result>>

(* The record does not fit. *)
AddOverflows ==
  /\ \/ pc = "idle" /\ Usable /\ TooBig(SIZEOF_DLENGTH)
     \/ pc = "key" /\ TooLong(record.key)
     \/ pc = "value" /\ TooLong(record.value)
     \/ pc = "slot" /\ TooBig(SIZEOF_SLOT + SIZEOF_SLOT)
  /\ Fail
  /\ UNCHANGED <<diskVars, makerVars, addVars, commitVars, result, added>>

(* A new chunk of slots is needed, but there is no memory for it. *)
AddNoMemory ==
  /\ pc = "slot"
  /\ ~TooBig(SIZEOF_SLOT + SIZEOF_SLOT)
  /\ slot_lists = <<>> \/ slot_list_index = SLOT_LIST_SIZE
  /\ size' = U32(size + SIZEOF_SLOT + SIZEOF_SLOT)
  /\ Fail
  /\ UNCHANGED <<diskVars, slot_counts, slot_lists, slot_list_index, offset,
                 addVars, commitVars, result, added>>

(* Neither bytes nor latin-1 text: cdb32_cstring refuses it, and from then *)
(* on so does the maker.                                                   *)
AddBadArgument ==
  /\ pc = "idle"
  /\ Usable
  /\ Fail
  /\ UNCHANGED <<diskVars, makerVars, addVars, commitVars, result, added>>

-----------------------------------------------------------------------------
(* Variant: full chunks are read only as far as the newest one is used. *)
NewestFirstShort ==
  LET entries(c) ==
        [i \in 1 .. slot_list_index |-> slot_lists[c][slot_list_index - i]]
  IN  FlattenSeq([i \in DOMAIN slot_lists |->
                    entries(Len(slot_lists) + 1 - i)])

(* commit(): the slots, newest first, are put into their buckets from the  *)
(* back, so that each bucket ends up in insertion order.                   *)
NewestFirst ==
  LET used(c) == IF c = Len(slot_lists) THEN slot_list_index
                 ELSE SLOT_LIST_SIZE
      entries(c) == [i \in 1 .. used(c) |-> slot_lists[c][used(c) - i]]
  IN  FlattenSeq([i \in DOMAIN slot_lists |->
                    entries(Len(slot_lists) + 1 - i)])

CountUpTo(j) ==
  FoldLeft(LAMBDA count, b : count + slot_counts[b], 0, [n \in 1 .. j + 1 |-> n - 1])

PutBack(s, slot) ==
  LET b == Bucket(slot.hash)
      at == s.starts[b] - 1
  IN  [sorted |-> [s.sorted EXCEPT ![at + 1] = slot],
       starts |-> [s.starts EXCEPT ![b] = at]]

SortSlots ==
  FoldLeft(PutBack,
           [sorted |-> [i \in 1 .. CountUpTo(TABLES - 1) |-> FreeSlot],
            starts |-> [j \in Buckets |-> CountUpTo(j)]],
           NewestFirst).sorted

CommitSort ==
  /\ pc = "idle"
  /\ Usable
  /\ sorted' = SortSlots
  /\ bucket' = 0
  /\ table' = <<>>
  /\ pc' = "tables"
  /\ UNCHANGED <<diskVars, makerVars, flags, addVars, result, added>>

(* Memory for the tables is refused. *)
CommitNoMemory ==
  /\ pc = "idle"
  /\ Usable
  /\ Fail
  /\ UNCHANGED <<diskVars, makerVars, addVars, commitVars, result, added>>

(* The table of the next bucket is filled and goes to the buffer, slot by  *)
(* slot; its pointer is kept for the header.                               *)
CommitTable ==
  LET sp == CountUpTo(bucket) - slot_counts[bucket]
      slots == TableSlots(SubSeq(sorted, sp + 1, sp + slot_counts[bucket]))
      o == PutSlots(slots)
      table_offset == offset + SIZEOF_SLOT * 2 * sp
  IN  /\ pc = "tables"
      /\ bucket \in Buckets
      /\ \/ /\ Write(o)
            /\ table' = table \o Pack(table_offset) \o Pack(Len(slots))
            /\ bucket' = bucket + 1
            /\ UNCHANGED <<flags, pc>>
         \/ /\ WriteFails(o)
            /\ UNCHANGED <<bucket, table>>
      /\ UNCHANGED <<makerVars, addVars, sorted, result, added>>

(* Variant: the header is written before the last slots. *)
CommitUnflushed ==
  /\ pc = "tables"
  /\ bucket \notin Buckets
  /\ pc' = "header"
  /\ UNCHANGED <<diskVars, flags, makerVars, addVars, commitVars, result, added>>

(* Variant: nobody looks whether the flush has failed. *)
CommitFlushUnchecked ==
  /\ pc = "tables"
  /\ bucket \notin Buckets
  /\ \E n \in 0 .. Len(buf) :
       /\ file' = WriteAt(file, position, SubSeq(buf, 1, n))
       /\ position' = position + n
  /\ buf' = <<>>
  /\ pc' = "header"
  /\ UNCHANGED <<flags, makerVars, addVars, commitVars, result, added>>

CommitFlush ==
  /\ pc = "tables"
  /\ bucket \notin Buckets
  /\ \/ Write(Flush(Buffered)) /\ pc' = "header" /\ UNCHANGED flags
     \/ WriteFails(Flush(Buffered))
  /\ UNCHANGED <<makerVars, addVars, commitVars, result, added>>

(* Variant: the descriptor is not moved back to the front. *)
CommitTrailer ==
  /\ pc = "header"
  /\ file' = WriteAt(file, position, table)
  /\ position' = position + Len(table)
  /\ flags' = flags \union {"COMMITTED"}
  /\ pc' = "open"
  /\ UNCHANGED <<buf, makerVars, addVars, commitVars, result, added>>

(* The table pointers are written last, at the front of the file. *)
CommitHeader ==
  /\ pc = "header"
  /\ \/ /\ file' = WriteAt(file, 0, table)
        /\ position' = Len(table)
        /\ flags' = flags \union {"COMMITTED"}
        /\ pc' = "open"
     \/ /\ \E n \in 0 .. Len(table) - 1 :
             /\ file' = WriteAt(file, 0, SubSeq(table, 1, n))
             /\ position' = n
        /\ Fail
  /\ UNCHANGED <<buf, makerVars, addVars, commitVars, result, added>>

(* The file is synced, a CDB instance made for it and the maker closed.    *)
(* If syncing or the CDB constructor fails, the maker stays as it is,      *)
(* committed but not closed; if closing fails, the CDB is dropped.         *)
CommitOpen ==
  /\ pc = "open"
  /\ \/ result' = "cdb" /\ flags' = flags \union {"CLOSED"}
     \/ UNCHANGED result /\ flags' \in {flags, flags \union {"CLOSED"}}
  /\ pc' = "idle"
  /\ UNCHANGED <<diskVars, makerVars, addVars, commitVars, added>>

(* close(), or the maker is garbage: what is buffered is dropped. *)
Close ==
  /\ pc = "idle"
  /\ flags' = flags \union {"CLOSED"}
  /\ buf' = <<>>
  /\ UNCHANGED <<file, position, makerVars, pc, addVars, commitVars, result,
                 added>>

-----------------------------------------------------------------------------
(* The steps of a call that has begun. *)
Step ==
  \/ AddKey \/ AddValue \/ AddSlot \/ AddNoMemory
  \/ CommitTable \/ CommitFlush \/ CommitHeader \/ CommitOpen

Next ==
  \/ \E r \in Record : AddLengths(r)
  \/ AddOverflows
  \/ AddBadArgument
  \/ CommitSort
  \/ CommitNoMemory
  \/ Close
  \/ Step

Spec == Init /\ [][Next]_vars

-----------------------------------------------------------------------------
TypeOK ==
  /\ file \in Seq(Bytes)
  /\ position \in Nat
  /\ buf \in Seq(Bytes) /\ Len(buf) <= WRITE_BUF_SIZE
  /\ slot_counts \in [Buckets -> Nat]
  /\ slot_lists \in Seq([0 .. SLOT_LIST_SIZE - 1 -> Slot])
  /\ slot_list_index \in 0 .. SLOT_LIST_SIZE
  /\ offset \in Words /\ size \in Words
  /\ flags \subseteq {"ERROR", "COMMITTED", "CLOSED"}
  /\ pc \in {"idle", "key", "value", "slot", "tables", "header", "open"}
  /\ record \in Record \union {NoRecord} /\ start \in Words
  /\ sorted \in Seq(Slot)
  /\ bucket \in Buckets \union {TABLES}
  /\ table \in Seq(Bytes)
  /\ result \in {"none", "cdb"}
  /\ added \in Seq(Record)

(* What add() and commit() have produced so far, the step of the call in   *)
(* progress included.                                                      *)
Produced ==
  Encoded(added) \o
    CASE pc = "key"    -> PackDLength(record.key, record.value)
      [] pc = "value"  -> PackDLength(record.key, record.value) \o record.key
      [] pc = "slot"   -> Encode(record)
      [] pc = "tables" -> SlotTables(added, bucket)
      [] pc = "header" -> SlotTables(added, TABLES)
      [] OTHER         -> <<>>

(* No byte is lost, repeated or put in the wrong place by the buffering:   *)
(* as long as nothing has failed, what is on disk behind the header,       *)
(* followed by what is in the buffer, is what the calls have produced.     *)
BufferedStream ==
  flags = {} /\ pc # "open" =>
    SubSeq(file, SIZEOF_TABLE + 1, Len(file)) \o buf = Produced

(* Between two calls offset is where the next byte goes, and size adds to  *)
(* it two slots for each record, computed in 32 bits but never beyond      *)
(* 2^32: the checks in add() subtract where a sum would wrap.              *)
SpaceReserved ==
  flags = {} /\ pc = "idle" =>
    LET final == offset + 2 * SIZEOF_SLOT * Len(added)
    IN  /\ offset = position + Len(buf)
        /\ final <= MAX_OFF + 1
        /\ size = U32(final)

(* The records a maker accepts can always be committed: the file they make *)
(* is at most 2^32 bytes long and size is its length, modulo 2^32.         *)
SizeReserved ==
  flags = {} /\ pc = "idle" =>
    /\ Len(Image(added)) <= MAX_OFF + 1
    /\ size = U32(Len(Image(added)))

(* Whatever the number of chunks, commit() gets back every slot that add() *)
(* remembered, grouped by bucket and in insertion order within a bucket.   *)
SortedByBucket ==
  pc = "tables" =>
    sorted = BucketsOf(added, TABLES)

(* Nothing is lost between the calls and the disk: neither bytes in the    *)
(* buffer, nor room that was promised, nor slots in the chunks.            *)
Accounted == BufferedStream /\ SizeReserved /\ SortedByBucket

(* The header is written last: as soon as it is not all zeros, also if the *)
(* write of it is cut short, the records and slot tables are complete.     *)
HeaderLast ==
  (\E o \in 1 .. Min({SIZEOF_TABLE, Len(file)}) : file[o] # 0) =>
    SubSeq(file, SIZEOF_TABLE + 1, Len(file))
      = Encoded(added) \o SlotTables(added, TABLES)

(* A committed file is exactly the image of the added records. *)
CommittedImage == "COMMITTED" \in flags => file = Image(added)

(* Looking up a key in it finds its values in the order they were added.   *)
CommittedFound ==
  "COMMITTED" \in flags =>
    \A key \in Keys :
      LET all == FindAll(file, key)
      IN  all.last.res = "miss" /\ all.values = ValuesOf(added, key)

(* Whenever a program opens the file, be it half written, left behind by a *)
(* crash or by a write that failed within the header, and maps or reads    *)
(* it: the value a search for a key returns is one that was added for it.  *)
FoundIsAdded ==
  \A key \in Keys : \A f \in Views(file) :
    LET found == FindFirst(f, key)
        ownValue == ReadValue(f, found)
    IN  found.res = "hit" =>
          /\ Readable(f, found.offset, found.length)
          /\ \E i \in DOMAIN added : added[i] = [key |-> key, value |-> ownValue]

(* What cdb32_find answers is right, from the first byte of the file on to *)
(* the committed one.                                                      *)
FoundRight == CommittedFound /\ FoundIsAdded

(* Once an add() has failed, with whatever error, the records before it    *)
(* never become a database: no commit() ends in one.                       *)
NeverCommittedTorn ==
  [][(result' = "cdb" /\ result = "none") =>
       file = Image(added) /\ "ERROR" \notin flags]_vars
=============================================================================
