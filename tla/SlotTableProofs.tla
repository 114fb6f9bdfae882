--------------------------- MODULE SlotTableProofs ---------------------------
(***************************************************************************)
(* Why a lookup in a CDB hash table is right, for every set of keys, every *)
(* hash function and every number of records.                              *)
(*                                                                         *)
(* The argument is about the distance from the slot a key starts at to     *)
(* another slot, going round the table.  A record sits in a slot such that *)
(* all nearer slots (seen from its own start) are filled, and of two       *)
(* records with one start the one added first is nearer.  A search reads   *)
(* the slots by increasing distance, so it meets the records of its key in *)
(* order, and a free slot proves that there are no further ones.           *)
(***************************************************************************)
EXTENDS SlotTable, FiniteSetTheorems, TLAPS

(* How many steps of AdvanceTo lead from slot h to slot p *)
Distance(h, p) == IF h <= p THEN p - h ELSE p - h + Length

-----------------------------------------------------------------------------
(* The slots hold exactly the records placed so far, each of them once. *)
PlacedOnce ==
  /\ \A p \in Positions : slots[p] < sp
  /\ \A i \in 1 .. sp - 1 : \E p \in Positions : slots[p] = i
  /\ \A p, q \in Positions : slots[p] # 0 /\ slots[p] = slots[q] => p = q

(* Every slot nearer to a record's start than the record is filled. *)
NoHole ==
  \A p, q \in Positions :
    /\ slots[p] # 0
    /\ Distance(StartSlot(sorted[slots[p]]), q)
         < Distance(StartSlot(sorted[slots[p]]), p)
    => slots[q] # 0

(* Of two records with the same start, the one added first is nearer. *)
OldestNearest ==
  \A p, q \in Positions :
    /\ slots[p] # 0
    /\ slots[p] < slots[q]
    /\ StartSlot(sorted[slots[p]]) = StartSlot(sorted[slots[q]])
    => Distance(StartSlot(sorted[slots[p]]), p)
         < Distance(StartSlot(sorted[slots[p]]), q)

(* The skip loop has passed only filled slots. *)
SkippedFilled ==
  pc = "skip" =>
    \A q \in Positions :
      Distance(StartSlot(sorted[sp]), q) < Distance(StartSlot(sorted[sp]), slot)
        => slots[q] # 0

FillInv == PlacedOnce /\ NoHole /\ OldestNearest /\ SkippedFilled

(* The search has consumed the slots nearer than table_offset. *)
AtDistance ==
  /\ pc \in {"fill", "skip"} => found = <<>> /\ key_num = 0
  /\ pc \in {"ready", "find", "hit", "miss"} => sp = Len(sorted) + 1
  /\ pc \in {"find", "hit", "miss"} /\ key_num < Length =>
       Distance(StartSlot(key), table_offset) = key_num
  /\ pc = "miss" /\ key_num < Length => slots[table_offset] = 0

(* It has returned the key's records in those slots and no others. *)
FoundInSlots ==
  \A a \in DOMAIN found :
    /\ sorted[found[a]] = key
    /\ \E p \in Positions :
         slots[p] = found[a] /\ Distance(StartSlot(key), p) < key_num

FoundAllSoFar ==
  \A p \in Positions :
    /\ slots[p] # 0
    /\ sorted[slots[p]] = key
    /\ Distance(StartSlot(key), p) < key_num
    => \E a \in DOMAIN found : found[a] = slots[p]

FoundAscending ==
  \A a, b \in DOMAIN found : a < b => found[a] < found[b]

FindInv == AtDistance /\ FoundInSlots /\ FoundAllSoFar /\ FoundAscending

IInv == TypeOK /\ FillInv /\ FindInv

-----------------------------------------------------------------------------
LEMMA LengthNat == TypeOK => Length \in Nat
  BY SMT DEF TypeOK, Length, MaxSlots

LEMMA StartInTable ==
  ASSUME TypeOK, Length # 0, NEW k \in Keys
  PROVE  StartSlot(k) \in Positions
  BY LengthNat, SlotTableAssumption, SMT DEF StartSlot, Positions

(* The two ways the code wraps a position are the same. *)
LEMMA SameWrap ==
  ASSUME TypeOK, NEW s \in Positions
  PROVE  NextSlot(s) = AdvanceTo(s) /\ AdvanceTo(s) \in Positions
  BY LengthNat, SMT DEF NextSlot, AdvanceTo, Positions

(* Distances from one slot number the slots ... *)
LEMMA DistanceRange ==
  ASSUME TypeOK, NEW h \in Positions, NEW p \in Positions
  PROVE  /\ Distance(h, p) \in 0 .. Length - 1
         /\ Distance(h, h) = 0
  BY LengthNat, SMT DEF Distance, Positions

LEMMA DistanceInjective ==
  ASSUME TypeOK, NEW h \in Positions, NEW p \in Positions, NEW q \in Positions,
         Distance(h, p) = Distance(h, q)
  PROVE  p = q
  BY LengthNat, SMT DEF Distance, Positions

(* ... in the order AdvanceTo visits them, back to the start at the end. *)
LEMMA DistanceAdvance ==
  ASSUME TypeOK, NEW h \in Positions, NEW p \in Positions
  PROVE  /\ Distance(h, p) + 1 < Length
              => Distance(h, AdvanceTo(p)) = Distance(h, p) + 1
         /\ Distance(h, p) + 1 = Length => Distance(h, AdvanceTo(p)) = 0
  BY LengthNat, SMT DEF Distance, Positions, AdvanceTo

(* What a step that leaves the bucket's records alone leaves alone with it *)
LEMMA SameTable ==
  ASSUME sorted' = sorted
  PROVE  /\ Length' = Length
         /\ Positions' = Positions
         /\ Records' = Records
         /\ \A k : StartSlot(k)' = StartSlot(k)
         /\ \A h, p : Distance(h, p)' = Distance(h, p)
  BY DEF Length, MaxSlots, Positions, Records, StartSlot, Distance

-----------------------------------------------------------------------------
LEMMA InitType == Init => TypeOK
<1> SUFFICES ASSUME Init PROVE TypeOK
  OBVIOUS
<1>1. PICK n \in 0 .. MaxRecords : sorted \in [1 .. n -> Keys]
  BY DEF Init
<1>2. sorted \in Seq(Keys) /\ Len(sorted) = n
  BY <1>1, SlotTableAssumption, SMT
<1> QED
  BY <1>2, SMT DEF Init, TypeOK, Length, MaxSlots, Positions, Records

LEMMA NextType == TypeOK /\ [Next]_vars => TypeOK'
<1> SUFFICES ASSUME TypeOK, [Next]_vars PROVE TypeOK'
  OBVIOUS
<1> USE LengthNat DEF TypeOK
<1>1. CASE TakeRecord
  <2>1. sorted' = sorted /\ Length # 0 /\ sorted[sp] \in Keys
    BY <1>1, SMT DEF TakeRecord, Records, Length, MaxSlots
  <2> QED
    BY <1>1, <2>1, SameTable, StartInTable, SMT
       DEF TakeRecord, findVars, Positions
<1>2. CASE SkipFilled
  BY <1>2, SameTable, SameWrap, SMT DEF SkipFilled, findVars, Positions
<1>3. CASE PlaceRecord
  <2>1. sp \in Records /\ slot \in Positions
    BY <1>3 DEF PlaceRecord
  <2>2. slots' \in [Positions -> 0 .. Len(sorted)]
    BY <1>3, <2>1, SMT DEF PlaceRecord, Records
  <2>3. UNCHANGED <<sorted, slot, findVars, Length, Positions, Records>>
    BY <1>3, SameTable DEF PlaceRecord
  <2>4. sp' \in 1 .. Len(sorted) + 1 /\ pc' = "fill" /\ pc = "skip"
    BY <1>3, <2>1, SMT DEF PlaceRecord, Records
  <2> QED
    BY <2>2, <2>3, <2>4, SMT DEF findVars
<1>4. CASE WriteTable
  BY <1>4, SameTable, SMT DEF WriteTable, fillVars, findVars
<1>5. ASSUME NEW k \in Keys, FindFirst(k) PROVE TypeOK'
  BY <1>5, SameTable, StartInTable, SMT DEF FindFirst, fillVars, Positions
<1>6. CASE FindAgain
  BY <1>6, SameTable, StartInTable, SMT DEF FindAgain, fillVars, Positions
<1>7. CASE ProbeMatch
  <2>1. slots[table_offset] \in Records
    BY <1>7, SMT DEF ProbeMatch, Records
  <2>2. found' \in Seq(Records)
    BY <1>7, <2>1, SMT DEF ProbeMatch
  <2>3. UNCHANGED <<sorted, slots, sp, slot, key, Length, Positions, Records>>
    BY <1>7, SameTable DEF ProbeMatch, fillVars
  <2>4. pc' = "hit" /\ key_num' \in 0 .. Length
    BY <1>7, SMT DEF ProbeMatch, Advance
  <2>5. table_offset' \in Nat /\ (Length # 0 => table_offset' \in Positions)
    BY <1>7, SMT DEF ProbeMatch, Advance, AdvanceTo, Positions
  <2> QED
    BY <2>2, <2>3, <2>4, <2>5
<1>8. CASE ProbeOther
  <2>1. UNCHANGED <<sorted, slots, sp, slot, key, found, pc, Length, Positions, Records>>
    BY <1>8, SameTable DEF ProbeOther, fillVars
  <2>2. pc = "find" /\ key_num' \in 0 .. Length
    BY <1>8, SMT DEF ProbeOther, Advance
  <2>3. table_offset' \in Nat /\ (Length # 0 => table_offset' \in Positions)
    BY <1>8, SMT DEF ProbeOther, Advance, AdvanceTo, Positions
  <2> QED
    BY <2>1, <2>2, <2>3
<1>9. CASE ProbeEnd
  BY <1>9, SameTable, SMT DEF ProbeEnd, fillVars, findVars
<1>10. CASE UNCHANGED vars
  BY <1>10, SameTable, SMT DEF vars
<1> QED
  BY <1>1, <1>2, <1>3, <1>4, <1>5, <1>6, <1>7, <1>8, <1>9, <1>10
     DEF Next, Fill, Probe

(* Every variable keeps its type: no step reads a slot outside the table,  *)
(* in particular not the one taken modulo the length of an empty table.    *)
THEOREM TypeCorrect == Spec => []TypeOK
  BY InitType, NextType, PTL DEF Spec

-----------------------------------------------------------------------------
LEMMA InitIInv == Init => IInv
<1> SUFFICES ASSUME Init PROVE IInv
  OBVIOUS
<1>1. TypeOK
  BY InitType
<1>2. sp = 1 /\ found = <<>> /\ key_num = 0 /\ pc = "fill"
      /\ \A p \in Positions : slots[p] = 0
  BY DEF Init, Positions, Length
<1>3. FillInv
  BY <1>1, <1>2, SMT DEF FillInv, PlacedOnce, NoHole, OldestNearest, SkippedFilled
<1>4. FindInv
  BY <1>1, <1>2, SMT
     DEF FindInv, AtDistance, FoundInSlots, FoundAllSoFar, FoundAscending
<1> QED
  BY <1>1, <1>3, <1>4 DEF IInv

(* Looking up changes nothing the filling invariant is about. *)
LEMMA LookupKeepsFillInv ==
  ASSUME TypeOK, FillInv, UNCHANGED fillVars, pc' = "skip" => pc = "skip"
  PROVE  FillInv'
<1>1. UNCHANGED <<sorted, slots, sp, slot>>
  BY DEF fillVars
<1> QED
  BY <1>1, SameTable
     DEF FillInv, PlacedOnce, NoHole, OldestNearest, SkippedFilled

LEMMA TakeKeepsFillInv == TypeOK /\ FillInv /\ TakeRecord => FillInv'
<1> SUFFICES ASSUME TypeOK, FillInv, TakeRecord PROVE FillInv'
  OBVIOUS
<1>1. UNCHANGED <<sorted, slots, sp>>
  BY DEF TakeRecord
<1>2. PlacedOnce' /\ NoHole' /\ OldestNearest'
  BY <1>1, SameTable DEF FillInv, PlacedOnce, NoHole, OldestNearest
<1>3. Length # 0 /\ sorted[sp] \in Keys
  BY SMT DEF TakeRecord, Records, Length, MaxSlots, TypeOK
<1>4. StartSlot(sorted[sp]) \in Positions
  BY <1>3, StartInTable
<1>5. SkippedFilled'
  <2> SUFFICES ASSUME NEW q \in Positions,
                      Distance(StartSlot(sorted[sp]), q)
                        < Distance(StartSlot(sorted[sp]), slot')
               PROVE  FALSE
    BY <1>1, SameTable DEF SkippedFilled
  <2>1. slot' = StartSlot(sorted[sp])
    BY DEF TakeRecord
  <2> QED
    BY <2>1, <1>4, DistanceRange, SMT
<1> QED
  BY <1>2, <1>5 DEF FillInv

LEMMA SkipKeepsFillInv == TypeOK /\ FillInv /\ SkipFilled => FillInv'
<1> SUFFICES ASSUME TypeOK, FillInv, SkipFilled PROVE FillInv'
  OBVIOUS
<1>1. UNCHANGED <<sorted, slots, sp>> /\ pc = "skip" /\ slots[slot] # 0
      /\ sp \in Records /\ slot \in Positions
  BY DEF SkipFilled, TypeOK
<1>2. PlacedOnce' /\ NoHole' /\ OldestNearest'
  BY <1>1, SameTable DEF FillInv, PlacedOnce, NoHole, OldestNearest
<1> DEFINE h == StartSlot(sorted[sp])
<1>3. Length # 0 /\ sorted[sp] \in Keys
  BY <1>1, SMT DEF Records, Length, MaxSlots, TypeOK
<1>4. h \in Positions
  BY <1>3, StartInTable
<1>5. SkippedFilled'
  <2> SUFFICES ASSUME NEW q \in Positions, Distance(h, q) < Distance(h, slot')
               PROVE  slots[q] # 0
    BY <1>1, SameTable DEF SkippedFilled
  <2> HIDE DEF h
  <2>1. slot' = AdvanceTo(slot)
    BY <1>1, SameWrap DEF SkipFilled
  <2>2. Distance(h, q) \in Nat /\ Distance(h, slot) \in 0 .. Length - 1
    BY <1>1, <1>4, DistanceRange, SMT
  <2>3. Distance(h, q) <= Distance(h, slot)
    BY <2>1, <2>2, <1>1, <1>4, DistanceAdvance, LengthNat, SMT
  <2>4. CASE Distance(h, q) = Distance(h, slot)
    BY <2>4, <1>1, <1>4, DistanceInjective
  <2>5. CASE Distance(h, q) < Distance(h, slot)
    BY <2>5, <1>1 DEF h, FillInv, SkippedFilled
  <2> QED
    BY <2>2, <2>3, <2>4, <2>5, SMT
<1> QED
  BY <1>2, <1>5 DEF FillInv

LEMMA PlaceKeepsFillInv == TypeOK /\ FillInv /\ PlaceRecord => FillInv'
<1> SUFFICES ASSUME TypeOK, FillInv, PlaceRecord PROVE FillInv'
  OBVIOUS
<1>1. /\ UNCHANGED sorted
      /\ sp \in Records /\ slot \in Positions
      /\ slots[slot] = 0
      /\ slots' = [slots EXCEPT ![slot] = sp]
      /\ sp' = sp + 1
      /\ pc' = "fill" /\ pc = "skip"
  BY DEF PlaceRecord, TypeOK
<1>2. /\ slots'[slot] = sp
      /\ \A p \in Positions : p # slot => slots'[p] = slots[p]
      /\ sp # 0
  BY <1>1, SMT DEF TypeOK, Records
<1>3. \A p \in Positions : slots[p] \in Nat /\ sp \in Nat /\ slots[p] < sp
  BY SMT DEF TypeOK, FillInv, PlacedOnce
<1> DEFINE h == StartSlot(sorted[sp])
<1>4. Length # 0 /\ sorted[sp] \in Keys
  BY <1>1, SMT DEF Records, Length, MaxSlots, TypeOK
<1>5. h \in Positions
  BY <1>4, StartInTable
<1>6. SkippedFilled'
  BY <1>1 DEF SkippedFilled
<1>7. \A q \in Positions : Distance(h, q) < Distance(h, slot) => slots[q] # 0
  BY <1>1 DEF FillInv, SkippedFilled
<1> HIDE DEF h
<1>8. PlacedOnce'
  <2>1. \A p \in Positions : slots'[p] < sp'
    BY <1>1, <1>2, <1>3, SMT
  <2>2. ASSUME NEW i \in 1 .. sp' - 1 PROVE \E p \in Positions : slots'[p] = i
    <3>1. CASE i = sp
      BY <3>1, <1>1, <1>2
    <3>2. CASE i # sp
      <4>1. i \in 1 .. sp - 1
        BY <3>2, <1>1, SMT DEF Records
      <4>2. PICK p \in Positions : slots[p] = i
        BY <4>1 DEF FillInv, PlacedOnce
      <4>3. p # slot
        BY <4>1, <4>2, <1>1, SMT
      <4> QED
        BY <4>2, <4>3, <1>2
    <3> QED
      BY <3>1, <3>2
  <2>3. ASSUME NEW p \in Positions, NEW q \in Positions,
               slots'[p] # 0, slots'[p] = slots'[q]
        PROVE  p = q
    BY <2>3, <1>1, <1>2, <1>3, SMT DEF FillInv, PlacedOnce
  <2> QED
    BY <2>1, <2>2, <2>3, <1>1, SameTable DEF PlacedOnce
<1>9. NoHole'
  <2> SUFFICES ASSUME NEW p \in Positions, NEW q \in Positions,
                      slots'[p] # 0,
                      Distance(StartSlot(sorted[slots'[p]]), q)
                        < Distance(StartSlot(sorted[slots'[p]]), p)
               PROVE  slots'[q] # 0
    BY <1>1, SameTable DEF NoHole
  <2>1. CASE p = slot
    BY <2>1, <1>1, <1>2, <1>7 DEF h
  <2>2. CASE p # slot
    BY <2>2, <1>1, <1>2 DEF FillInv, NoHole
  <2> QED
    BY <2>1, <2>2
<1>10. OldestNearest'
  <2> SUFFICES ASSUME NEW p \in Positions, NEW q \in Positions,
                      slots'[p] # 0, slots'[p] < slots'[q],
                      StartSlot(sorted[slots'[p]]) = StartSlot(sorted[slots'[q]])
               PROVE  Distance(StartSlot(sorted[slots'[p]]), p)
                        < Distance(StartSlot(sorted[slots'[p]]), q)
    BY <1>1, SameTable DEF OldestNearest
  <2>1. p # slot
    BY <1>1, <1>2, <1>3, SMT
  <2>2. CASE q # slot
    BY <2>1, <2>2, <1>2 DEF FillInv, OldestNearest
  <2>3. CASE q = slot
    <3>1. StartSlot(sorted[slots[p]]) = h /\ slots[p] # 0
      BY <2>1, <2>3, <1>2 DEF h
    <3>2. ~ (Distance(h, slot) < Distance(h, p))
      BY <3>1, <1>1 DEF FillInv, NoHole
    <3>3. Distance(h, slot) # Distance(h, p)
      BY <2>1, <1>1, <1>5, DistanceInjective
    <3> QED
      BY <2>1, <2>3, <3>1, <3>2, <3>3, <1>1, <1>2, <1>5, DistanceRange, SMT
  <2> QED
    BY <2>2, <2>3
<1> QED
  BY <1>6, <1>8, <1>9, <1>10 DEF FillInv

-----------------------------------------------------------------------------
(* Filling happens before any search, so it finds the search state empty. *)
LEMMA FillKeepsFindInv == TypeOK /\ FindInv /\ Fill => FindInv'
<1> SUFFICES ASSUME TypeOK, FindInv, Fill PROVE FindInv'
  OBVIOUS
<1>1. /\ UNCHANGED <<sorted, key, key_num, table_offset, found>>
      /\ pc \in {"fill", "skip"} /\ pc' \in {"fill", "skip", "ready"}
      /\ pc' = "ready" => sp \notin Records /\ sp' = sp
  BY DEF Fill, TakeRecord, SkipFilled, PlaceRecord, WriteTable, fillVars, findVars
<1>2. found = <<>> /\ key_num = 0
  BY <1>1 DEF FindInv, AtDistance
<1>3. pc' = "ready" => sp' = Len(sorted) + 1
  BY <1>1, SMT DEF TypeOK, Records
<1>4. AtDistance'
  BY <1>1, <1>2, <1>3 DEF AtDistance
<1>5. FoundInSlots' /\ FoundAscending'
  BY <1>1, <1>2, SMT DEF FoundInSlots, FoundAscending
<1>6. FoundAllSoFar'
  <2> SUFFICES ASSUME NEW p \in Positions, slots'[p] # 0,
                      sorted[slots'[p]] = key, Distance(StartSlot(key), p) < 0
               PROVE  FALSE
    BY <1>1, <1>2, SameTable DEF FoundAllSoFar
  <2>1. Length # 0
    BY LengthNat, SMT DEF Positions
  <2> QED
    BY <2>1, StartInTable, DistanceRange, SMT DEF TypeOK
<1> QED
  BY <1>4, <1>5, <1>6 DEF FindInv

LEMMA FirstKeepsFindInv ==
  ASSUME TypeOK, FindInv, NEW k \in Keys, FindFirst(k)
  PROVE  FindInv'
<1>1. /\ UNCHANGED <<sorted, slots, sp, slot>>
      /\ key' = k /\ key_num' = 0 /\ found' = <<>>
      /\ pc \in {"ready", "hit", "miss"} /\ pc' \in {"miss", "find"}
  BY DEF FindFirst, fillVars
<1>2. AtDistance'
  <2>1. sp' = Len(sorted') + 1
    BY <1>1 DEF FindInv, AtDistance
  <2>2. CASE Length = 0
    BY <2>1, <2>2, <1>1, SameTable, SMT DEF AtDistance
  <2>3. CASE Length # 0
    <3>1. pc' = "find" /\ table_offset' = StartSlot(k) /\ StartSlot(k) \in Positions
      BY <2>3, StartInTable DEF FindFirst
    <3>2. Distance(StartSlot(k), StartSlot(k)) = 0
      BY <3>1, DistanceRange
    <3> QED
      BY <2>1, <3>1, <3>2, <1>1, SameTable DEF AtDistance
  <2> QED
    BY <2>2, <2>3
<1>3. FoundInSlots' /\ FoundAscending'
  BY <1>1, SMT DEF FoundInSlots, FoundAscending
<1>4. FoundAllSoFar'
  <2> SUFFICES ASSUME NEW p \in Positions, Distance(StartSlot(k), p) < 0
               PROVE  FALSE
    BY <1>1, SameTable DEF FoundAllSoFar
  <2>1. Length # 0
    BY LengthNat, SMT DEF Positions
  <2> QED
    BY <2>1, StartInTable, DistanceRange, SMT
<1> QED
  BY <1>2, <1>3, <1>4 DEF FindInv

LEMMA AgainKeepsFindInv == TypeOK /\ FindInv /\ FindAgain => FindInv'
<1> SUFFICES ASSUME TypeOK, FindInv, FindAgain PROVE FindInv'
  OBVIOUS
<1>1. /\ UNCHANGED <<sorted, slots, sp, slot, key, key_num, found>>
      /\ pc \in {"hit", "miss"} /\ pc' = "find" /\ Length # 0
  BY DEF FindAgain, fillVars
<1>2. StartSlot(key) \in Positions
  BY <1>1, StartInTable DEF TypeOK
<1>3. key_num < Length => Distance(StartSlot(key), table_offset') = key_num
  BY <1>1, <1>2, DistanceRange DEF FindAgain, FindInv, AtDistance
<1>4. AtDistance'
  BY <1>1, <1>3, SameTable DEF FindInv, AtDistance
<1>5. FoundInSlots' /\ FoundAscending' /\ FoundAllSoFar'
  BY <1>1, SameTable DEF FindInv, FoundInSlots, FoundAscending, FoundAllSoFar
<1> QED
  BY <1>4, <1>5 DEF FindInv

(* After one more slot is consumed, the slots consumed are those consumed  *)
(* before and the one just read.                                           *)
LEMMA ConsumeOne ==
  ASSUME TypeOK, AtDistance, pc = "find", key_num < Length, Advance,
         UNCHANGED sorted
  PROVE  /\ StartSlot(key) \in Positions /\ table_offset \in Positions
         /\ Distance(StartSlot(key), table_offset) = key_num
         /\ key_num' < Length
              => Distance(StartSlot(key), table_offset') = key_num'
         /\ \A p \in Positions :
              Distance(StartSlot(key), p) < key_num'
                <=> Distance(StartSlot(key), p) < key_num \/ p = table_offset
<1>1. Length # 0 /\ key_num \in Nat /\ key_num' = key_num + 1
  BY LengthNat, SMT DEF TypeOK, Advance
<1>2. StartSlot(key) \in Positions /\ table_offset \in Positions
  BY <1>1, StartInTable DEF TypeOK
<1>3. Distance(StartSlot(key), table_offset) = key_num
  BY DEF AtDistance
<1>4. key_num' < Length => Distance(StartSlot(key), table_offset') = key_num'
  BY <1>1, <1>2, <1>3, DistanceAdvance, LengthNat, SMT DEF Advance
<1>5. ASSUME NEW p \in Positions
      PROVE  Distance(StartSlot(key), p) < key_num'
               <=> Distance(StartSlot(key), p) < key_num \/ p = table_offset
  <2>1. Distance(StartSlot(key), p) \in Nat
    BY <1>2, DistanceRange, SMT
  <2>2. Distance(StartSlot(key), p) = key_num <=> p = table_offset
    BY <1>2, <1>3, DistanceInjective
  <2> QED
    BY <2>1, <2>2, <1>1, SMT
<1> QED
  BY <1>2, <1>3, <1>4, <1>5

LEMMA OtherKeepsFindInv == TypeOK /\ FindInv /\ ProbeOther => FindInv'
<1> SUFFICES ASSUME TypeOK, FindInv, ProbeOther PROVE FindInv'
  OBVIOUS
<1>1. /\ UNCHANGED <<sorted, slots, sp, slot, pc, key, found>>
      /\ pc = "find" /\ key_num < Length /\ Advance
      /\ ~ Matches(slots[table_offset], key)
  BY DEF ProbeOther, fillVars
<1>2. sorted[slots[table_offset]] # key
  BY <1>1 DEF Matches
<1>3. AtDistance'
  BY <1>1, ConsumeOne, SameTable DEF FindInv, AtDistance
<1>4. FoundInSlots'
  BY <1>1, ConsumeOne, SameTable DEF FindInv, FoundInSlots
<1>5. FoundAllSoFar'
  BY <1>1, <1>2, ConsumeOne, SameTable DEF FindInv, FoundAllSoFar
<1>6. FoundAscending'
  BY <1>1 DEF FindInv, FoundAscending
<1> QED
  BY <1>3, <1>4, <1>5, <1>6 DEF FindInv

LEMMA MatchKeepsFindInv == TypeOK /\ FillInv /\ FindInv /\ ProbeMatch => FindInv'
<1> SUFFICES ASSUME TypeOK, FillInv, FindInv, ProbeMatch PROVE FindInv'
  OBVIOUS
<1> DEFINE rec == slots[table_offset]
           h == StartSlot(key)
<1>1. /\ UNCHANGED <<sorted, slots, sp, slot, key>>
      /\ pc = "find" /\ pc' = "hit" /\ key_num < Length /\ Advance
      /\ rec # 0 /\ sorted[rec] = key
      /\ found' = Append(found, rec)
  BY DEF ProbeMatch, Matches, fillVars
<1>2. h \in Positions /\ table_offset \in Positions
      /\ Distance(h, table_offset) = key_num
      /\ \A p \in Positions :
           Distance(h, p) < key_num'
             <=> Distance(h, p) < key_num \/ p = table_offset
  BY <1>1, ConsumeOne DEF FindInv
<1>3. rec \in Records /\ found \in Seq(Records) /\ Len(found) \in Nat
  BY <1>1, <1>2, SMT DEF TypeOK, Records
<1>4. /\ DOMAIN found' = DOMAIN found \cup {Len(found) + 1}
      /\ \A a \in DOMAIN found : found'[a] = found[a] /\ a <= Len(found)
      /\ found'[Len(found) + 1] = rec
  BY <1>1, <1>3, SMT
<1>5. AtDistance'
  BY <1>1, ConsumeOne, SameTable DEF FindInv, AtDistance
<1> HIDE DEF rec, h
<1>6. FoundInSlots'
  <2> SUFFICES ASSUME NEW a \in DOMAIN found'
               PROVE  /\ sorted[found'[a]] = key
                      /\ \E p \in Positions :
                           slots[p] = found'[a] /\ Distance(h, p) < key_num'
    BY <1>1, SameTable DEF FoundInSlots, h
  <2>1. CASE a \in DOMAIN found
    BY <2>1, <1>2, <1>4 DEF FindInv, FoundInSlots, h
  <2>2. CASE a = Len(found) + 1
    BY <2>2, <1>1, <1>2, <1>4 DEF rec
  <2> QED
    BY <2>1, <2>2, <1>4
<1>7. FoundAllSoFar'
  <2> SUFFICES ASSUME NEW p \in Positions, slots[p] # 0, sorted[slots[p]] = key,
                      Distance(h, p) < key_num'
               PROVE  \E a \in DOMAIN found' : found'[a] = slots[p]
    BY <1>1, SameTable DEF FoundAllSoFar, h
  <2>1. CASE p = table_offset
    BY <2>1, <1>4 DEF rec
  <2>2. CASE Distance(h, p) < key_num
    BY <2>2, <1>4 DEF FindInv, FoundAllSoFar, h
  <2> QED
    BY <2>1, <2>2, <1>2
<1>8. FoundAscending'
  <2>1. ASSUME NEW a \in DOMAIN found PROVE found[a] < rec
    <3>1. PICK q \in Positions :
            slots[q] = found[a] /\ Distance(h, q) < key_num
      BY DEF FindInv, FoundInSlots, h
    <3>2. sorted[found[a]] = key
      BY DEF FindInv, FoundInSlots
    <3>3. found[a] # rec
      BY <3>1, <1>1, <1>2, DistanceRange, SMT DEF FillInv, PlacedOnce, rec
    <3>4. ~ (rec < found[a])
      BY <3>1, <3>2, <1>1, <1>2, DistanceRange, SMT DEF FillInv, OldestNearest, rec, h
    <3> QED
      BY <3>3, <3>4, <1>3, SMT DEF Records
  <2>2. \A a, b \in DOMAIN found : a < b => found[a] < found[b]
    BY DEF FindInv, FoundAscending
  <2> QED
    BY <2>1, <2>2, <1>3, <1>4, SMT DEF FoundAscending
<1> QED
  BY <1>5, <1>6, <1>7, <1>8 DEF FindInv

LEMMA EndKeepsFindInv == TypeOK /\ FindInv /\ ProbeEnd => FindInv'
<1> SUFFICES ASSUME TypeOK, FindInv, ProbeEnd PROVE FindInv'
  OBVIOUS
<1>1. /\ UNCHANGED <<sorted, slots, sp, slot, key, key_num, table_offset, found>>
      /\ pc = "find" /\ pc' = "miss"
      /\ key_num < Length => slots[table_offset] = 0
  BY DEF ProbeEnd, fillVars, findVars
<1>2. AtDistance'
  BY <1>1, SameTable DEF FindInv, AtDistance
<1>3. FoundInSlots' /\ FoundAllSoFar' /\ FoundAscending'
  BY <1>1, SameTable DEF FindInv, FoundInSlots, FoundAllSoFar, FoundAscending
<1> QED
  BY <1>2, <1>3 DEF FindInv

-----------------------------------------------------------------------------
LEMMA NextIInv == IInv /\ [Next]_vars => IInv'
<1> SUFFICES ASSUME IInv, [Next]_vars PROVE IInv'
  OBVIOUS
<1>1. TypeOK /\ FillInv /\ FindInv
  BY DEF IInv
<1>2. TypeOK'
  BY <1>1, NextType
<1>3. CASE Fill
  <2>1. FillInv'
    BY <1>1, <1>3, TakeKeepsFillInv, SkipKeepsFillInv, PlaceKeepsFillInv,
       LookupKeepsFillInv DEF Fill, WriteTable
  <2> QED
    BY <1>1, <1>2, <1>3, <2>1, FillKeepsFindInv DEF IInv
<1>4. ASSUME NEW k \in Keys, FindFirst(k) PROVE IInv'
  <2>1. FillInv'
    BY <1>1, <1>4, LookupKeepsFillInv DEF FindFirst
  <2> QED
    BY <1>1, <1>2, <1>4, <2>1, FirstKeepsFindInv DEF IInv
<1>5. CASE FindAgain \/ Probe
  <2>1. FillInv'
    BY <1>1, <1>5, LookupKeepsFillInv
       DEF FindAgain, Probe, ProbeMatch, ProbeOther, ProbeEnd
  <2>2. FindInv'
    BY <1>1, <1>5, AgainKeepsFindInv, MatchKeepsFindInv, OtherKeepsFindInv,
       EndKeepsFindInv DEF Probe
  <2> QED
    BY <1>2, <2>1, <2>2 DEF IInv
<1>6. CASE UNCHANGED vars
  <2>1. UNCHANGED fillVars /\ pc' = pc
    BY <1>6 DEF vars, fillVars
  <2>2. FillInv'
    BY <1>1, <2>1, LookupKeepsFillInv
  <2>3. FindInv'
    BY <1>1, <1>6, SameTable DEF vars, FindInv, AtDistance, FoundInSlots,
       FoundAllSoFar, FoundAscending
  <2> QED
    BY <1>2, <2>2, <2>3 DEF IInv
<1> QED
  BY <1>3, <1>4, <1>5, <1>6 DEF Next

THEOREM Invariance == Spec => []IInv
  BY InitIInv, NextIInv, PTL DEF Spec

(* Where a record of the key sought is, the search has been or will be. *)
LEMMA RecordOfKey ==
  ASSUME IInv, pc \in {"find", "hit", "miss"},
         NEW i \in Records, sorted[i] = key
  PROVE  \E p \in Positions :
           /\ slots[p] = i
           /\ Distance(StartSlot(key), p) < key_num
                => \E a \in DOMAIN found : found[a] = i
<1>1. sp = Len(sorted) + 1 /\ i \in 1 .. sp - 1 /\ i # 0
  BY SMT DEF IInv, FindInv, AtDistance, Records, TypeOK
<1>2. PICK p \in Positions : slots[p] = i
  BY <1>1 DEF IInv, FillInv, PlacedOnce
<1> QED
  BY <1>1, <1>2 DEF IInv, FindInv, FoundAllSoFar

LEMMA InOrder == IInv => LookupInOrder
<1> SUFFICES ASSUME IInv PROVE LookupInOrder
  OBVIOUS
<1>1. \A a \in DOMAIN found : sorted[found[a]] = key
  BY DEF IInv, FindInv, FoundInSlots
<1>2. \A a, b \in DOMAIN found : a < b => found[a] < found[b]
  BY DEF IInv, FindInv, FoundAscending
<1>3. ASSUME NEW a \in DOMAIN found, NEW i \in Records,
             sorted[i] = key, i < found[a]
      PROVE  \E b \in DOMAIN found : found[b] = i
  <2>1. pc \notin {"fill", "skip"}
    BY SMT DEF IInv, FindInv, AtDistance
  <2>2. PICK q \in Positions :
          slots[q] = found[a] /\ Distance(StartSlot(key), q) < key_num
    BY DEF IInv, FindInv, FoundInSlots
  <2>3. sp = Len(sorted) + 1 /\ i \in 1 .. sp - 1 /\ i # 0
    BY <2>1, SMT DEF IInv, FindInv, AtDistance, Records, TypeOK
  <2>4. PICK p \in Positions : slots[p] = i
    BY <2>3 DEF IInv, FillInv, PlacedOnce
  <2>5. Distance(StartSlot(key), p) < Distance(StartSlot(key), q)
    BY <1>1, <1>3, <2>2, <2>3, <2>4 DEF IInv, FillInv, OldestNearest
  <2>6. StartSlot(key) \in Positions
    BY StartInTable, LengthNat, SMT DEF IInv, TypeOK, Positions
  <2>7. Distance(StartSlot(key), p) < key_num
    BY <2>2, <2>5, <2>6, DistanceRange, SMT DEF IInv, TypeOK
  <2> QED
    BY <1>3, <2>3, <2>4, <2>7 DEF IInv, FindInv, FoundAllSoFar
<1> QED
  BY <1>1, <1>2, <1>3 DEF LookupInOrder

LEMMA Complete == IInv => LookupComplete
<1> SUFFICES ASSUME IInv, pc = "miss", NEW i \in Records, sorted[i] = key
             PROVE  \E a \in DOMAIN found : found[a] = i
  BY DEF LookupComplete
<1> DEFINE h == StartSlot(key)
<1>1. PICK p \in Positions :
        /\ slots[p] = i
        /\ Distance(h, p) < key_num => \E a \in DOMAIN found : found[a] = i
  BY RecordOfKey
<1>2. TypeOK /\ Length # 0 /\ i # 0
  BY <1>1, LengthNat, SMT DEF IInv, Positions, Records
<1>3. h \in Positions /\ table_offset \in Positions
  BY <1>2, StartInTable DEF TypeOK
<1> HIDE DEF h
<1>4. Distance(h, p) \in 0 .. Length - 1
  BY <1>2, <1>3, DistanceRange
<1>5. CASE key_num = Length
  BY <1>1, <1>4, <1>5, LengthNat, <1>2, SMT
<1>6. CASE key_num < Length
  <2>1. Distance(h, table_offset) = key_num /\ slots[table_offset] = 0
    BY <1>6 DEF IInv, FindInv, AtDistance, h
  <2>2. ~ (Distance(h, table_offset) < Distance(h, p))
    BY <1>1, <1>2, <1>3, <2>1 DEF IInv, FillInv, NoHole, h
  <2>3. Distance(h, p) # key_num
    BY <1>1, <1>2, <1>3, <2>1, DistanceInjective
  <2> QED
    BY <1>1, <1>2, <1>4, <2>1, <2>2, <2>3, SMT DEF TypeOK
<1> QED
  BY <1>2, <1>5, <1>6, LengthNat, SMT DEF TypeOK

(* For every set of keys, every hash function and any number of records:   *)
(* the calls of cdb32_find for a key return records of that key only, in   *)
(* the order in which they were added, without a gap.                      *)
THEOREM LookupInOrderCorrect == Spec => []LookupInOrder
  BY Invariance, InOrder, PTL

(* And when cdb32_find says that there are no more, there are none.        *)
THEOREM LookupCompleteCorrect == Spec => []LookupComplete
  BY Invariance, Complete, PTL

-----------------------------------------------------------------------------
(* The search ends at a free slot: all slots that it has consumed are      *)
(* filled, by different records, and there are more slots than records.    *)
ConsumedFilled ==
  pc \in {"find", "hit", "miss"} =>
    \A p \in Positions : Distance(StartSlot(key), p) < key_num => slots[p] # 0

LEMMA ConsumedInit == Init => ConsumedFilled
  BY DEF Init, ConsumedFilled

LEMMA ConsumedFirst ==
  ASSUME IInv, NEW k \in Keys, FindFirst(k)
  PROVE  ConsumedFilled'
<1>1. TypeOK /\ UNCHANGED sorted /\ key' = k /\ key_num' = 0
  BY DEF IInv, FindFirst, fillVars
<1>2. ASSUME NEW p \in Positions
      PROVE  ~(Distance(StartSlot(k), p) < 0)
  <2>1. Length # 0
    BY <1>1, LengthNat, SMT DEF Positions
  <2> QED
    BY <1>1, <2>1, StartInTable, DistanceRange, SMT
<1> QED
  BY <1>1, <1>2, SameTable DEF ConsumedFilled

LEMMA ConsumedNext == IInv /\ ConsumedFilled /\ [Next]_vars => ConsumedFilled'
<1> SUFFICES ASSUME IInv, ConsumedFilled, [Next]_vars PROVE ConsumedFilled'
  OBVIOUS
<1>1. TypeOK /\ AtDistance
  BY DEF IInv, FindInv
<1>2. CASE Fill
  BY <1>2 DEF Fill, TakeRecord, SkipFilled, PlaceRecord, WriteTable, ConsumedFilled
<1>3. CASE FindAgain \/ ProbeEnd \/ UNCHANGED vars
  <2>1. /\ UNCHANGED <<sorted, slots, key, key_num>>
        /\ pc' \in {"find", "hit", "miss"} => pc \in {"find", "hit", "miss"}
    BY <1>3 DEF FindAgain, ProbeEnd, vars, fillVars, findVars
  <2> QED
    BY <2>1, SameTable DEF ConsumedFilled
<1>4. CASE ProbeMatch \/ ProbeOther
  <2>1. /\ UNCHANGED <<sorted, slots, key>> /\ Advance
        /\ pc = "find" /\ key_num < Length /\ slots[table_offset] # 0
    BY <1>4 DEF ProbeMatch, ProbeOther, fillVars
  <2> QED
    BY <1>1, <2>1, ConsumeOne, SameTable DEF ConsumedFilled
<1> QED
  BY <1>2, <1>3, <1>4, ConsumedFirst DEF Next, Probe

(* The slot at a distance from another one. *)
SlotAt(h, d) == IF h + d < Length THEN h + d ELSE h + d - Length

LEMMA SlotAtDistance ==
  ASSUME TypeOK, NEW h \in Positions, NEW d \in 0 .. Length - 1
  PROVE  SlotAt(h, d) \in Positions /\ Distance(h, SlotAt(h, d)) = d
  BY LengthNat, SMT DEF SlotAt, Distance, Positions

LEMMA ConsumedBound ==
  ASSUME IInv, ConsumedFilled, pc \in {"find", "hit", "miss"}, Length # 0
  PROVE  key_num <= Len(sorted)
<1> DEFINE h == StartSlot(key)
           record == [d \in 1 .. key_num |-> slots[SlotAt(h, d - 1)]]
<1>1. TypeOK /\ PlacedOnce
  BY DEF IInv, FillInv
<1>2. /\ key_num \in Nat /\ key_num <= Length /\ Len(sorted) \in Nat
      /\ h \in Positions
  BY <1>1, LengthNat, StartInTable, SMT DEF TypeOK
<1>3. ASSUME NEW d \in 1 .. key_num
      PROVE  /\ SlotAt(h, d - 1) \in Positions
             /\ Distance(h, SlotAt(h, d - 1)) = d - 1
             /\ slots[SlotAt(h, d - 1)] \in 1 .. Len(sorted)
  <2>1. d - 1 \in 0 .. Length - 1 /\ d - 1 < key_num
    BY <1>1, <1>2, LengthNat, SMT
  <2>2. SlotAt(h, d - 1) \in Positions /\ Distance(h, SlotAt(h, d - 1)) = d - 1
    BY <1>1, <1>2, <2>1, SlotAtDistance
  <2>3. slots[SlotAt(h, d - 1)] # 0
    BY <2>1, <2>2 DEF ConsumedFilled
  <2> QED
    BY <1>1, <1>2, <2>2, <2>3, SMT DEF TypeOK
<1>4. record \in [1 .. key_num -> 1 .. Len(sorted)]
  BY <1>3
<1>5. ASSUME NEW d \in 1 .. key_num, NEW e \in 1 .. key_num, record[d] = record[e]
      PROVE  d = e
  <2>1. SlotAt(h, d - 1) = SlotAt(h, e - 1)
    BY <1>1, <1>3, <1>5 DEF PlacedOnce
  <2>2. d - 1 = e - 1
    BY <1>3, <2>1
  <2> QED
    BY <1>2, <2>2, SMT
<1>6. SUFFICES ASSUME Len(sorted) < key_num PROVE FALSE
  BY <1>2, SMT
<1> HIDE DEF record
<1>7. ASSUME NEW n \in Nat
      PROVE  IsFiniteSet(1 .. n) /\ Cardinality(1 .. n) = n
  <2>1. Cardinality(1 .. n) = IF 1 > n THEN 0 ELSE n - 1 + 1
    BY FS_Interval
  <2> QED
    BY <2>1, FS_Interval, SMT
<1>8. \E d, e \in 1 .. key_num : d # e /\ record[d] = record[e]
  BY <1>2, <1>4, <1>6, <1>7, FS_PigeonHole
<1> QED
  BY <1>5, <1>8

LEMMA EndsAtMarker == IInv /\ ConsumedFilled => EndOfSearchMarker
<1> SUFFICES ASSUME IInv, ConsumedFilled, pc = "miss", Length # 0
             PROVE  slots[table_offset] = 0 /\ key_num <= Len(sorted)
  BY DEF EndOfSearchMarker
<1>1. TypeOK /\ AtDistance
  BY DEF IInv, FindInv
<1>2. key_num <= Len(sorted)
  BY ConsumedBound
<1>3. key_num < Length
  BY <1>1, <1>2, SMT DEF TypeOK, Length, MaxSlots
<1> QED
  BY <1>1, <1>2, <1>3 DEF AtDistance

(* A search that ends has come to a free slot, after no more slots than    *)
(* there are records: it never runs around the whole table.                *)
THEOREM EndOfSearchMarkerCorrect == Spec => []EndOfSearchMarker
<1>1. Init => IInv /\ ConsumedFilled
  BY InitIInv, ConsumedInit
<1>2. IInv /\ ConsumedFilled /\ [Next]_vars => (IInv /\ ConsumedFilled)'
  BY NextIInv, ConsumedNext
<1> QED
  BY <1>1, <1>2, EndsAtMarker, PTL DEF Spec
=============================================================================
