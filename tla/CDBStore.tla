------------------------------ MODULE CDBStore ------------------------------
(***************************************************************************)
(* What a CDB instance promises: the records of the committed dataset, in  *)
(* the order they were added, as a read-only mapping from a key to its     *)
(* values.  CDB32Reader, which works on the bytes of the file, implements  *)
(* it.                                                                     *)
(***************************************************************************)
EXTENDS Integers, Sequences, FiniteSets, SequencesExt

CONSTANTS
  Keys,        (* the keys                                                 *)
  Iterators    (* the iterators a program holds                            *)

VARIABLES
  records,     (* the dataset: key and value of each record                *)
  open,        (* close() has not been called                              *)
  cursor,      (* the record each iterator looks at next, and whether it   *)
               (* returns all records or the first ones of the keys only   *)
  called,      (* the call that returned last, or the error it raised ...   *)
  ret          (* ... and what it returned                                 *)

vars == <<records, open, cursor, called, ret>>

NoCursor == [at |-> 0, all |-> FALSE]

Init ==
  /\ open = TRUE
  /\ cursor = [i \in Iterators |-> NoCursor]
  /\ called = "new"
  /\ ret = <<>>

ValuesOf(k) ==
  FlattenSeq([n \in DOMAIN records |->
                IF records[n].key = k THEN <<records[n].value>> ELSE <<>>])

IsFirst(n) == \A m \in 1 .. n - 1 : records[m].key # records[n].key

(* Each call answers and leaves the dataset alone. *)
Return(call, answer) ==
  /\ called' = call
  /\ ret' = answer
  /\ UNCHANGED <<records, open>>

(* key in cdb, cdb.has_key(key) *)
HasKey(k) ==
  /\ open
  /\ Return("contains", ValuesOf(k) # <<>>)
  /\ UNCHANGED cursor

(* cdb[key] and cdb.get(key): the first value, or none *)
GetFirst(k) ==
  /\ open
  /\ Return("get", IF ValuesOf(k) = <<>> THEN <<>> ELSE <<Head(ValuesOf(k))>>)
  /\ UNCHANGED cursor

(* cdb.get(key, all=True) *)
GetAll(k) ==
  /\ open
  /\ Return("getall", ValuesOf(k))
  /\ UNCHANGED cursor

(* len(cdb) counts the distinct keys. *)
Count ==
  /\ open
  /\ Return("len", Cardinality({n \in DOMAIN records : IsFirst(n)}))
  /\ UNCHANGED cursor

(* iter(cdb), cdb.keys(all), cdb.items(all) *)
Iterate(i, all) ==
  /\ open
  /\ cursor' = [cursor EXCEPT ![i] = [at |-> 1, all |-> all]]
  /\ Return("iter", <<>>)

(* next(iterator): the next record, or no more *)
NextRecord(i) ==
  LET wanted == {n \in DOMAIN records :
                   n >= cursor[i].at /\ (cursor[i].all \/ IsFirst(n))}
  IN  /\ open
      /\ cursor[i] # NoCursor
      /\ \/ /\ wanted = {}
            /\ cursor' = [cursor EXCEPT ![i].at = Len(records) + 1]
            /\ Return("next", <<>>)
         \/ \E n \in wanted :
              /\ \A m \in wanted : n <= m
              /\ cursor' = [cursor EXCEPT ![i].at = n + 1]
              /\ Return("next", <<records[n]>>)

Close ==
  /\ open' = FALSE
  /\ called' = "closed"
  /\ ret' = <<>>
  /\ UNCHANGED <<records, cursor>>

(* I/O operation on a closed file *)
Refuse ==
  /\ ~open
  /\ Return("IOError", <<>>)
  /\ UNCHANGED cursor

Next ==
  \/ \E k \in Keys : HasKey(k) \/ GetFirst(k) \/ GetAll(k)
  \/ Count
  \/ \E i \in Iterators : NextRecord(i) \/ \E all \in BOOLEAN : Iterate(i, all)
  \/ Close
  \/ Refuse

Spec == Init /\ [][Next]_vars
=============================================================================
