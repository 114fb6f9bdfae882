------------------------------ MODULE SlotTable ------------------------------
(***************************************************************************)
(* One hash table of a CDB file: how cdbx_cdb32_maker_commit fills the     *)
(* slots of a bucket and how cdb32_find probes them, loop step by loop     *)
(* step.                                                                   *)
(*                                                                         *)
(* A bucket holds the records whose hashes agree in the low 8 bits, so     *)
(* Hash[k] stands for the bits above (hash >> 8), which choose the first   *)
(* slot to try.  Record i of the bucket is the i-th one added; its file    *)
(* offset is abstracted to i, and the offset 0 marks a free slot, as in    *)
(* the code.  Every call of cdb32_find for one key continues the search    *)
(* where the previous call for it stopped.                                 *)
(***************************************************************************)
EXTENDS Integers, Sequences

CONSTANTS
  Keys,         (* the keys a program may add or look up                   *)
  Hash,         (* hash >> 8 of each key; keys may collide                 *)
  MaxRecords    (* bound on the number of records in the bucket            *)

ASSUME SlotTableAssumption ==
  /\ Hash \in [Keys -> Nat]
  /\ MaxRecords \in Nat

VARIABLES
  sorted,       (* the keys of the bucket's records, in insertion order    *)
  slots,        (* the slot table: 0 for a free slot, else a record        *)
  sp,           (* the record to be placed next                            *)
  slot,         (* the slot tried for it                                   *)
  pc,           (* "fill", "skip": commit; "ready": the table is on disk;  *)
                (* "find": inside cdb32_find; "hit", "miss": it returned   *)
  key,          (* the key looked up                                       *)
  key_num,      (* how many slots the search has consumed                  *)
  table_offset, (* the slot it reads next                                  *)
  found         (* the records its calls have returned so far              *)

fillVars == <<sorted, slots, sp, slot>>
findVars == <<key, key_num, table_offset, found>>
vars == <<sorted, slots, sp, slot, pc, key, key_num, table_offset, found>>

-----------------------------------------------------------------------------
(* Variant: no slot stays free. *)
MaxSlotsFull(count) == count

(* The table has twice as many slots as the bucket has records. *)
MaxSlots(count) == count + count

Length == MaxSlots(Len(sorted))
Positions == 0 .. Length - 1
Records == 1 .. Len(sorted)

(* CDB32_PTR_SLOT, in slots instead of bytes *)
StartSlot(k) == Hash[k] % Length

Init ==
  /\ sorted \in UNION {[1 .. n -> Keys] : n \in 0 .. MaxRecords}
  /\ slots = [p \in 0 .. MaxSlots(Len(sorted)) - 1 |-> 0]
  /\ sp = 1
  /\ slot = 0
  /\ pc = "fill"
  /\ key \in Keys
  /\ key_num = 0
  /\ table_offset = 0
  /\ found = <<>>

-----------------------------------------------------------------------------
(* cdbx_cdb32_maker_commit: take the next record ... *)
TakeRecord ==
  /\ pc = "fill"
  /\ sp \in Records
  /\ slot' = StartSlot(sorted[sp])
  /\ pc' = "skip"
  /\ UNCHANGED <<sorted, slots, sp, findVars>>

(* ... skip the slots already taken ... *)
(* Variants: skipping backwards; always trying the same second slot. *)
NextSlotBackwards(s) == (s + Length - 1) % Length
NextSlotOnce(s) == (StartSlot(sorted[sp]) + 1) % Length

NextSlot(s) == (s + 1) % Length

SkipFilled ==
  /\ pc = "skip"
  /\ slots[slot] # 0
  /\ slot' = NextSlot(slot)
  /\ UNCHANGED <<sorted, slots, sp, pc, findVars>>

(* ... and put it in the first free one. *)
PlaceRecord ==
  /\ pc = "skip"
  /\ slots[slot] = 0
  /\ slots' = [slots EXCEPT ![slot] = sp]
  /\ sp' = sp + 1
  /\ pc' = "fill"
  /\ UNCHANGED <<sorted, slot, findVars>>

WriteTable ==
  /\ pc = "fill"
  /\ sp \notin Records
  /\ pc' = "ready"
  /\ UNCHANGED <<fillVars, findVars>>

-----------------------------------------------------------------------------
(* A new search: the first call of cdb32_find for k (key_num is 0) reads   *)
(* the table pointer and, unless the table is empty, goes to k's slot.     *)
FindFirst(k) ==
  /\ pc \in {"ready", "hit", "miss"}
  /\ key' = k
  /\ key_num' = 0
  /\ found' = <<>>
  /\ IF Length = 0
     THEN pc' = "miss" /\ UNCHANGED table_offset
     ELSE pc' = "find" /\ table_offset' = StartSlot(k)
  /\ UNCHANGED fillVars

(* The next call for the same key: nothing is initialised again, unless    *)
(* the first slot was free and key_num is still 0.                         *)
FindAgain ==
  /\ pc \in {"hit", "miss"}
  /\ Length # 0
  /\ pc' = "find"
  /\ table_offset' = IF key_num = 0 THEN StartSlot(key) ELSE table_offset
  /\ UNCHANGED <<fillVars, key, key_num, found>>

(* Variant: the search runs past the end of the table. *)
AdvanceToNoWrap(s) == s + 1

(* ++key_num and table_offset += 8, wrapping at table_sentinel *)
AdvanceTo(s) == IF s + 1 = Length THEN 0 ELSE s + 1

Advance ==
  /\ key_num' = key_num + 1
  /\ table_offset' = AdvanceTo(table_offset)

(* Variant: equal hashes are taken for equal keys. *)
MatchesHash(rec, k) == Hash[sorted[rec]] = Hash[k]

(* The stored hash is compared before the key on disk is read. *)
Matches(rec, k) == Hash[sorted[rec]] = Hash[k] /\ sorted[rec] = k

ProbeMatch ==
  /\ pc = "find"
  /\ key_num < Length
  /\ slots[table_offset] # 0
  /\ Matches(slots[table_offset], key)
  /\ Advance
  /\ found' = Append(found, slots[table_offset])
  /\ pc' = "hit"
  /\ UNCHANGED <<fillVars, key>>

(* Variant: the search does not move on to the next slot. *)
ProbeOtherStays ==
  /\ pc = "find"
  /\ key_num < Length
  /\ slots[table_offset] # 0
  /\ ~Matches(slots[table_offset], key)
  /\ UNCHANGED vars

ProbeOther ==
  /\ pc = "find"
  /\ key_num < Length
  /\ slots[table_offset] # 0
  /\ ~Matches(slots[table_offset], key)
  /\ Advance
  /\ UNCHANGED <<fillVars, pc, key, found>>

(* A free slot ends the search, and so does having consumed every slot. *)
ProbeEnd ==
  /\ pc = "find"
  /\ key_num < Length => slots[table_offset] = 0
  /\ pc' = "miss"
  /\ UNCHANGED <<fillVars, findVars>>

-----------------------------------------------------------------------------
Fill == TakeRecord \/ SkipFilled \/ PlaceRecord \/ WriteTable
Probe == ProbeMatch \/ ProbeOther \/ ProbeEnd

Next ==
  \/ Fill
  \/ \E k \in Keys : FindFirst(k)
  \/ FindAgain
  \/ Probe

Spec == Init /\ [][Next]_vars

(* Both loops run in one call of the extension and nothing preempts them.  *)
(* A program need not look anything up.                                    *)
FairSpec == Spec /\ WF_vars(Fill) /\ WF_vars(Probe)

-----------------------------------------------------------------------------
TypeOK ==
  /\ sorted \in Seq(Keys)
  /\ slots \in [Positions -> 0 .. Len(sorted)]
  /\ sp \in 1 .. Len(sorted) + 1
  /\ slot \in Nat
  /\ pc \in {"fill", "skip", "ready", "find", "hit", "miss"}
  /\ pc = "skip" => sp \in Records /\ slot \in Positions
  /\ key \in Keys
  /\ key_num \in 0 .. Length
  /\ table_offset \in Nat
  /\ pc \in {"find", "hit", "miss"} /\ Length # 0 => table_offset \in Positions
  /\ found \in Seq(Records)

(* Successive calls for a key return only records with that key, in the    *)
(* order they were added, and leave none out in between (get(all=True)     *)
(* relies on it, and __getitem__ and the iterator's "first" on the first   *)
(* one being the one added first).                                         *)
LookupInOrder ==
  /\ \A a \in DOMAIN found : sorted[found[a]] = key
  /\ \A a, b \in DOMAIN found : a < b => found[a] < found[b]
  /\ \A a \in DOMAIN found, i \in Records :
       sorted[i] = key /\ i < found[a] => \E b \in DOMAIN found : found[b] = i

(* When cdb32_find reports "not found", its calls have returned every      *)
(* record of the key, however the hashes collide and the probing wraps.    *)
LookupComplete ==
  pc = "miss" =>
    \A i \in Records : sorted[i] = key => \E a \in DOMAIN found : found[a] = i

(* The table keeps free slots, "which act as end-of-search markers": a     *)
(* search that ends has seen one and has not run around the whole table.   *)
EndOfSearchMarker ==
  pc = "miss" /\ Length # 0 => slots[table_offset] = 0 /\ key_num <= Len(sorted)

(* Placing the records ends, in particular the loop over the filled slots. *)
FillEnds == <>(pc = "ready")

(* Every call of cdb32_find returns. *)
LookupEnds == [](pc = "find" => <>(pc \in {"hit", "miss"}))
=============================================================================
