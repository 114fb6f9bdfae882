----------------------------- MODULE CDB32Reader -----------------------------
(***************************************************************************)
(* A CDB instance on a committed file: the calls of cdbx/cdbtype.c and     *)
(* cdbx/cdbiter.c down to the bytes cdbx/cdb32.c reads, with the values it *)
(* caches and the iterators it hands out.  A call is one step: it runs in  *)
(* C from the first read to the last, with the interpreter lock held.      *)
(***************************************************************************)
EXTENDS CDB32Find

CONSTANTS
  MaxRecords,   (* bound on the number of records in the file              *)
  Iterators     (* the iterators a program holds                           *)

ASSUME ReaderAssumption == MaxRecords \in Nat

VARIABLES
  records,      (* the records the maker was given                         *)
  file,         (* the bytes of the file                                   *)
  map_size,     (* length of the memory map; -1 if the file is read        *)
  sentinel,     (* cached end of the records, 0 if not read yet            *)
  num_keys,     (* cached number of distinct keys, -1 if not counted yet   *)
  open,         (* self->cdb32 is not NULL                                 *)
  iters,        (* pos and FL_ALL of each iterator; pos 0: none created    *)
  called,       (* the call that returned last, or the error it raised ...  *)
  ret           (* ... and what it returned                                *)

vars == <<records, file, map_size, sentinel, num_keys, open, iters, called,
          ret>>

-----------------------------------------------------------------------------
(* What the reads see. *)
View == IF map_size = -1 THEN file ELSE SubSeq(file, 1, map_size)

(* cdbx_cdb32_create; mmap=None goes without a map if there can be none.   *)
Init ==
  /\ records \in UNION {[1 .. n -> Record] : n \in 0 .. MaxRecords}
  /\ Len(Image(records)) <= MAX_OFF + 1
  /\ file = Image(records)
  /\ \/ map_size = -1
     \/ ~MapOverflows(file) /\ map_size = MapLength(file)
  /\ sentinel = 0
  /\ num_keys = -1
  /\ open = TRUE
  /\ iters = [i \in Iterators |-> [pos |-> 0, all |-> FALSE]]
  /\ called = "new"
  /\ ret = <<>>

Return(call, answer) ==
  /\ called' = call
  /\ ret' = answer

FormatError == Return("Format Error", <<>>)

Unchanged == UNCHANGED <<records, file, map_size>>
Cached == <<sentinel, num_keys>>

-----------------------------------------------------------------------------
(* A call that looks a key up answers, or finds the file damaged. *)
Answered(call, res, answer) ==
  /\ open
  /\ IF res = "error" THEN FormatError ELSE Return(call, answer)
  /\ Unchanged /\ UNCHANGED <<Cached, open, iters>>

(* cdbx_cdb32_contains *)
HasKey(k) ==
  LET Has(found) == Answered("contains", found.res, found.res = "hit")
  IN  Has(FindFirst(View, k))

(* CDBType_getitem, and CDBType_get without all *)
GetFirst(k) ==
  LET Get(found) ==
        Answered("get", found.res,
                 IF found.res = "hit" THEN <<ReadValue(View, found)>> ELSE <<>>)
  IN  Get(FindFirst(View, k))

(* CDBType_get with all *)
GetAll(k) ==
  LET Get(all) == Answered("getall", all.last.res, all.values)
  IN  Get(FindAll(View, k))

(* The sentinel is read by the first call that needs it. *)
Sentinel == IF sentinel # 0 THEN sentinel ELSE ReadSentinel(View)

Lost(r) == r.res # "hit"

(* The records of f from pos on, up to the sentinel, a record that no      *)
(* search finds, or one that is wanted: any, a first one, or none.         *)
Enough(wanted, r) ==
  Lost(r) \/ wanted = "any" \/ (wanted = "first" /\ r.first)

RecordsIn(f, pos, end, wanted) ==
  LET Add(walked, r) == [pos |-> IF Enough(wanted, r) THEN end ELSE r.next,
                         found |-> Append(walked.found, r)]
      Walk(walked, n) == IF walked.pos >= end THEN walked
                         ELSE Add(walked, RecordAt(f, walked.pos))
  IN  FoldLeft(Walk, [pos |-> pos, found |-> <<>>],
               [n \in 1 .. Len(f) \div SIZEOF_DLENGTH |-> n]).found

RecordsFrom(pos, wanted) == RecordsIn(View, pos, Sentinel, wanted)

(* cdbx_cdb32_count_keys: counted once, then cached *)
CountAll(counted) ==
  IF \E n \in DOMAIN counted : Lost(counted[n])
  THEN FormatError /\ UNCHANGED num_keys
  ELSE /\ num_keys' = Cardinality({n \in DOMAIN counted : counted[n].first})
       /\ Return("len", num_keys')

Count ==
  /\ open
  /\ \/ num_keys # -1 /\ Return("len", num_keys) /\ UNCHANGED Cached
     \/ num_keys = -1 /\ sentinel' = Sentinel /\ CountAll(RecordsFrom(SIZEOF_TABLE, "none"))
  /\ Unchanged /\ UNCHANGED <<open, iters>>

(* cdbx_iter_new *)
Iterate(i, all) ==
  /\ open
  /\ sentinel' = Sentinel
  /\ iters' = [iters EXCEPT ![i] = [pos |-> SIZEOF_TABLE, all |-> all]]
  /\ Return("iter", <<>>)
  /\ Unchanged /\ UNCHANGED <<num_keys, open>>

(* Where an iterator stands after a record. *)
IterPos(r) == IF Lost(r) THEN r.at ELSE r.next

(* CDBIterType_iternext goes on until it is at a record that is the first  *)
(* one with its key, unless all of them are wanted.                        *)
NextRecord(i) ==
  LET wanted == IF iters[i].all THEN "any" ELSE "first"
      At(r) ==
        /\ iters' = [iters EXCEPT ![i].pos = IterPos(r)]
        /\ IF Lost(r) THEN FormatError
           ELSE Return("next", IF Enough(wanted, r)
                               THEN <<[key |-> r.key, value |-> r.value]>>
                               ELSE <<>>)
      Walked(passed) ==
        \/ passed = <<>> /\ Return("next", <<>>) /\ UNCHANGED iters
        \/ passed # <<>> /\ At(Last(passed))
  IN  /\ open
      /\ iters[i].pos # 0
      /\ Walked(RecordsFrom(iters[i].pos, wanted))
      /\ Unchanged /\ UNCHANGED <<Cached, open>>

(* CDBType_close; iterators and further calls find no cdb32 any more. *)
Close ==
  /\ open' = FALSE
  /\ Return("closed", <<>>)
  /\ Unchanged /\ UNCHANGED <<Cached, iters>>

Refuse ==
  /\ ~open
  /\ Return("IOError", <<>>)
  /\ Unchanged /\ UNCHANGED <<Cached, open, iters>>

-----------------------------------------------------------------------------
Next ==
  \/ \E k \in Keys : HasKey(k) \/ GetFirst(k) \/ GetAll(k)
  \/ Count
  \/ \E i \in Iterators : NextRecord(i) \/ \E all \in BOOLEAN : Iterate(i, all)
  \/ Close
  \/ Refuse

Spec == Init /\ [][Next]_vars

-----------------------------------------------------------------------------
TypeOK ==
  /\ records \in Seq(Record)
  /\ file \in Seq(Bytes)
  /\ map_size \in -1 .. Len(file)
  /\ sentinel \in Words
  /\ num_keys \in -1 .. Len(records)
  /\ open \in BOOLEAN
  /\ iters \in [Iterators -> [pos : Words, all : BOOLEAN]]

(* The map that cdb32_mmap makes from the table pointers alone is exactly  *)
(* as long as the file, also where its length does not fit into 32 bits.   *)
MapCoversFile ==
  /\ ~MapOverflows(file)
  /\ map_size # -1 => map_size = Len(file)

(* An iterator always stands between two records, or at their end. *)
IteratorAtRecord ==
  \A i \in Iterators :
    iters[i].pos # 0 =>
      \E n \in 1 .. Len(records) + 1 : iters[i].pos = OffsetOf(records, n)

(* The caches never disagree with the dataset, whoever filled them. *)
CachesRight ==
  /\ sentinel # 0 => sentinel = OffsetOf(records, Len(records) + 1)
  /\ num_keys # -1 =>
       num_keys = Cardinality({records[n].key : n \in DOMAIN records})

(* What one call leaves to the next: the iterators' positions, and the end *)
(* of the records and the number of keys once they are known.              *)
PositionsRight == IteratorAtRecord /\ CachesRight

(* Every call answers as the abstract mapping does: the byte offset of an  *)
(* iterator stands for the number of records before it.                    *)
Store == INSTANCE CDBStore WITH
  cursor <- [i \in Iterators |->
               [at |-> IF iters[i].pos = 0 THEN 0
                       ELSE 1 + Cardinality({n \in DOMAIN records :
                              OffsetOf(records, n) < iters[i].pos}),
                all |-> iters[i].all]]

ImplementsStore == Store!Spec
=============================================================================
