-------------------------- MODULE CDB32ReaderProofs --------------------------
(***************************************************************************)
(* An instance on a committed file implements the store, for any word, any *)
(* number of tables, records and iterators and any contents.               *)
(*                                                                         *)
(* What the bytes say is known from CDB32FormatProofs; what is added here  *)
(* is what else an instance does with them: the length of its map, the     *)
(* walk from record to record, and which records are the first ones with   *)
(* their keys.                                                             *)
(***************************************************************************)
EXTENDS CDB32Reader, CDB32FormatProofs

-----------------------------------------------------------------------------
(* The first search for a key.                                             *)

FoundFirst(a, key, found) ==
  \/ Keyed(a, key) = {} /\ found.res = "miss"
  \/ \E i \in Keyed(a, key) :
       /\ \A k \in Keyed(a, key) : k >= i
       /\ found.res = "hit"
       /\ found.offset = OffsetOf(a, i) + SIZEOF_DLENGTH + Len(key)
       /\ found.length = Len(a[i].value)

(* It finds the first record with the key, if there is one. *)
LEMMA FirstFound ==
  ASSUME NEW a \in Seq(Record), Fits(a), NEW key \in Keys
  PROVE  FoundFirst(a, key, FindFirst(Image(a), key))
<1>1. PICK j : j = Bucket(Hash[key])
  OBVIOUS
<1>2. Hash[key] \in Words /\ j \in Buckets
  BY <1>1, BucketInRange
<1>3. PICK f : f = Image(a) /\ Laid(f, a)
  BY ImageHolds
<1>4. PICK first : first = FindFirst(f, key)
  OBVIOUS
<1>5. SlotsFor(a, j) \in Nat /\ Len(BucketOf(a, j)) \in Nat
  BY <1>2, TableEnds DEF SlotsFor
<1>6. CASE SlotsFor(a, j) = 0
  <2>1. first.res = "miss"
    BY <1>1, <1>3, <1>4, <1>6, FirstInImage
  <2>2. Keyed(a, key) = {}
    <3> SUFFICES ASSUME NEW i \in Keyed(a, key) PROVE FALSE
      OBVIOUS
    <3>1. i \in 1 .. Len(a) /\ a[i].key = key
      BY KeyedWith
    <3>2. Rank(a, i) \in 1 .. Len(BucketOf(a, j))
      BY <1>1, <3>1, RankOf
    <3> QED  BY <1>5, <1>6, <3>2 DEF SlotsFor
  <2> QED  BY <1>3, <1>4, <2>1, <2>2 DEF FoundFirst
<1>7. CASE SlotsFor(a, j) > 0
  <2>1. PICK place : InOrder(a, j, Hash[key], place)
    BY <1>1, <1>2, SlotsInOrder
  <2>2. PICK n \in Nat : n = SlotsFor(a, j) /\ n > 0
    BY <1>5, <1>7
  <2>3. first = ProbeSlots(f, Searching(key, TableAt(a, j), SlotsFor(a, j), 0))
    BY <1>1, <1>3, <1>4, <1>7, FirstInImage
  <2>4. NextFound(a, j, key, place, 0, first)
    <3>1. Passed(a, j, key, place, 0, 0)
      <4>1. \A c \in 0 .. 0 - 1 : FALSE
        OBVIOUS
      <4>2. \A i \in Keyed(a, key) : ~(i <= 0) /\ ~(place[i] < 0)
        <5> TAKE i \in Keyed(a, key)
        <5>1. i \in 1 .. Len(a) /\ i \in RecordsWith(a, Hash[key])
          BY KeyedWith
        <5>2. place[i] \in 0 .. n - 1
          BY <2>1, <2>2, <5>1 DEF InOrder
        <5> QED  BY <5>1, <5>2
      <4> QED  BY <4>1, <4>2 DEF Passed
    <3>2. 0 \in 0 .. SlotsFor(a, j) /\ 0 \in 0 .. Len(a)
      BY <2>2
    <3> QED  BY <1>1, <1>2, <1>3, <1>7, <2>1, <2>3, <3>1, <3>2, FindsNext
  <2>5. \A i \in Keyed(a, key) : i \in Nat /\ ~(i <= 0)
    BY KeyedWith
  <2>6. CASE first \in Misses(key, TableAt(a, j), SlotsFor(a, j))
             /\ \A k \in Keyed(a, key) : k <= 0
    <3>1. first.res = "miss"
      BY <2>6 DEF Misses, Answer
    <3>2. Keyed(a, key) = {}
      BY <2>5, <2>6
    <3> QED  BY <1>3, <1>4, <3>1, <3>2 DEF FoundFirst
  <2>7. ASSUME NEW i \in Keyed(a, key),
               \A k \in Keyed(a, key) : k <= 0 \/ k >= i,
               first = AnswerOf(a, i, key, Searching(key, TableAt(a, j), SlotsFor(a, j),
                                                     place[i] + 1))
        PROVE  FoundFirst(a, key, first)
    <3>1. \A k \in Keyed(a, key) : k >= i
      BY <2>5, <2>7
    <3>2. /\ first.res = "hit"
          /\ first.offset = OffsetOf(a, i) + SIZEOF_DLENGTH + Len(key)
          /\ first.length = Len(a[i].value)
      BY <2>7 DEF AnswerOf, Answer
    <3> QED  BY <3>1, <3>2 DEF FoundFirst
  <2> QED  BY <1>3, <1>4, <2>4, <2>6, <2>7 DEF NextFound
<1> QED  BY <1>5, <1>6, <1>7

-----------------------------------------------------------------------------
(* The map of a file.                                                      *)

(* A file with these records can be addressed if it is not too long. *)
LEMMA ImageFits ==
  ASSUME NEW a \in Seq(Record)
  PROVE  /\ Image(a) \in Seq(Bytes) /\ Len(Image(a)) \in Nat
         /\ Len(Image(a)) = RecordsEnd(a) + 2 * SIZEOF_SLOT * Len(a)
         /\ Len(Image(a)) <= MAX_OFF + 1 <=> Fits(a)
<1>1. Image(a) \in Seq(Bytes)
      /\ Len(Image(a)) = SIZEOF_TABLE + Len(Encoded(a)) + 2 * SIZEOF_SLOT * Len(a)
  BY ImageParts
<1>2. Len(Image(a)) = RecordsEnd(a) + 2 * SIZEOF_SLOT * Len(a)
  BY <1>1 DEF RecordsEnd
<1> QED  BY <1>1, <1>2 DEF Fits

(* The tables that are used are those with records. *)
LEMMA UsedBuckets ==
  ASSUME NEW a \in Seq(Record), Fits(a)
  PROVE  UsedTables(Image(a)) = {j \in Buckets : Len(BucketOf(a, j)) > 0}
<1>1. PICK f \in Seq(Bytes) : f = Image(a) /\ Holds(f, 0, Pointers(a, TABLES))
  BY ImageHolds, ImageFits
<1>2. ASSUME NEW j \in Buckets
      PROVE  ReadPointer(f, j * SIZEOF_TPTR).length # 0 <=> Len(BucketOf(a, j)) > 0
  <2>1. PICK n \in Nat : n = Len(BucketOf(a, j))
    BY TableEnds
  <2>2. 2 * n \in Words /\ 2 * n \in 0 .. MAX_OFF + 1
    BY <2>1, FitsTables, WordSizes DEF Words
  <2>3. U32(2 * n) = 2 * n
    <3>1. CASE n = 0
      <4>1. \A m \in Nat : 0 % (m + 1) = 0
        OBVIOUS
      <4>2. 2 * n = 0
        BY <3>1
      <4> QED  BY <4>1, <4>2, WordSizes DEF U32
    <3>2. CASE n > 0
      <4>1. 2 * n \in 1 .. MAX_OFF + 1 /\ 2 * n <= MAX_OFF
        BY <2>2, <3>2, WordSizes DEF Words
      <4> QED  BY <4>1, U32Exact
    <3> QED  BY <3>1, <3>2
  <2>4. ReadPointer(f, j * SIZEOF_TPTR).length = 2 * n
    <3>1. ReadPointer(f, j * SIZEOF_TPTR)
            = [offset |-> U32(TableAt(a, j)), length |-> U32(2 * Len(BucketOf(a, j)))]
      BY <1>1, PointerHolds
    <3> QED  BY <2>1, <2>3, <3>1
  <2> QED  BY <2>1, <2>4
<1> QED  BY <1>1, <1>2 DEF UsedTables, Buckets

(* Behind the last table that is used there is nothing. *)
LEMMA LastTableEnds ==
  ASSUME NEW a \in Seq(Record), NEW j \in Buckets,
         \A k \in Buckets : k > j => ~(Len(BucketOf(a, k)) > 0)
  PROVE  TableAt(a, j) + SIZEOF_SLOT * (2 * Len(BucketOf(a, j))) = Len(Image(a))
<1>1. TABLES \in Nat /\ j \in Nat /\ j < TABLES
  BY FormatAssumption DEF Buckets
<1>2. PICK m \in Nat : m = TABLES - (j + 1)
  BY <1>1
<1> DEFINE S == {d \in 0 .. m : Base(a, j + 1 + d) = Base(a, j + 1)}
<1>3. 0 \in S
  BY <1>1, <1>2
<1>4. ASSUME NEW d \in 0 .. m - 1, d \in S PROVE d + 1 \in S
  <2>1. PICK k \in Nat : k = j + 1 + d /\ k < TABLES /\ k > j
    BY <1>1, <1>2
  <2>2. k \in Buckets
    BY <1>1, <2>1 DEF Buckets
  <2>3. Len(BucketOf(a, k)) \in Nat /\ ~(Len(BucketOf(a, k)) > 0)
    BY <2>1, <2>2, TableEnds
  <2>4. Base(a, k) \in Nat /\ Base(a, k + 1) = Base(a, k) + Len(BucketOf(a, k))
    BY <2>1, BaseNext
  <2>5. Base(a, k + 1) = Base(a, k)
    BY <2>3, <2>4
  <2>6. j + 1 + (d + 1) = k + 1 /\ d + 1 \in 0 .. m
    BY <1>1, <1>2, <2>1
  <2> QED  BY <1>4, <2>1, <2>5, <2>6
<1> HIDE DEF S
<1>5. m \in S
  <2>1. \A d \in 0 .. m : d \in S
    BY <1>3, <1>4, UpTo
  <2> QED  BY <2>1
<1>6. Base(a, j + 1) = Len(a)
  <2>1. j + 1 + m = TABLES
    BY <1>1, <1>2
  <2>2. Base(a, j + 1 + m) = Base(a, j + 1)
    BY <1>5 DEF S
  <2> QED  BY <2>1, <2>2, BaseTotal
<1>7. PICK x \in Nat, n \in Nat, s \in Nat :
        x = Base(a, j) /\ n = Len(BucketOf(a, j)) /\ s = SIZEOF_SLOT
  BY TableEnds, WordSizes
<1>8. Len(a) = x + n
  BY <1>1, <1>6, <1>7, BaseNext
<1>9. PICK e \in Nat : e = RecordsEnd(a)
  BY <1>1, TableAtNat
<1>10. TableAt(a, j) = e + s * 2 * x
  BY <1>7, <1>9 DEF TableAt
<1>11. Len(Image(a)) = e + 2 * s * (x + n)
  BY <1>7, <1>8, <1>9, ImageFits
<1>12. \A b, u, v, w \in Nat : b + u * 2 * v + u * (2 * w) = b + 2 * u * (v + w)
  OBVIOUS
<1> QED  BY <1>7, <1>10, <1>11, <1>12

(* cdb32_mmap, from the table pointers alone, maps all of the file. *)
LEMMA MapIsFile ==
  ASSUME NEW a \in Seq(Record), Fits(a)
  PROVE  ~MapOverflows(Image(a)) /\ MapLength(Image(a)) = Len(Image(a))
<1>1. PICK f \in Seq(Bytes) : f = Image(a) /\ Holds(f, 0, Pointers(a, TABLES))
  BY ImageHolds, ImageFits
<1>2. PICK used : used = UsedTables(f) /\ used = {j \in Buckets : Len(BucketOf(a, j)) > 0}
  BY <1>1, UsedBuckets
<1>3. TABLES \in Nat /\ TABLES - 1 \in Nat /\ Buckets = 0 .. TABLES - 1 /\ 0 \in Buckets
  BY FormatAssumption DEF Buckets
<1>4. CASE used = {}
  <2>1. Len(BucketOf(a, 0)) \in Nat /\ ~(Len(BucketOf(a, 0)) > 0)
    BY <1>2, <1>3, <1>4, TableEnds
  <2>2. PICK n \in Nat, s \in Nat : n = Len(a) /\ s = SIZEOF_SLOT
    BY WordSizes
  <2>3. PICK e \in Nat : e = RecordsEnd(a)
    BY <1>3, TableAtNat
  <2>4. TableAt(a, 0) + SIZEOF_SLOT * (2 * Len(BucketOf(a, 0))) = Len(f)
    BY <1>1, <1>2, <1>3, <1>4, LastTableEnds
  <2>5. Base(a, 0) = 0
    BY <1>3, BaseNext
  <2>6. Len(BucketOf(a, 0)) = 0
    BY <2>1
  <2>7. e + s * 2 * 0 + s * (2 * 0) = e + 2 * s * n
    BY <1>1, <2>2, <2>3, <2>4, <2>5, <2>6, ImageFits DEF TableAt
  <2>8. \A u, v, w \in Nat : v > 0 /\ u + v * 2 * 0 + v * (2 * 0) = u + 2 * v * w => w = 0
    OBVIOUS
  <2>9. n = 0
    BY <2>2, <2>3, <2>7, <2>8, WordSizes
  <2>10. a = <<>>
    <3>1. \A r \in Seq(Record) : Len(r) = 0 => r = <<>>
      OBVIOUS
    <3>2. Len(a) = 0
      BY <2>2, <2>9
    <3> QED  BY <3>1, <3>2
  <2>11. Len(f) = SIZEOF_TABLE
    <3>1. Len(<<>>) = 0 /\ Len(a) = 0
      BY <2>10
    <3>2. Encoded(a) = <<>>
      BY <2>10, EncodedEmpty
    <3>3. Len(Image(a)) = SIZEOF_TABLE + Len(Encoded(a)) + 2 * SIZEOF_SLOT * Len(a)
      BY ImageParts
    <3>4. \A t, u \in Nat : t + 0 + 2 * u * 0 = t
      OBVIOUS
    <3> QED  BY <1>1, <3>1, <3>2, <3>3, <3>4, WordSizes
  <2>12. UsedTables(f) = {}
    BY <1>2, <1>4
  <2> QED  BY <1>1, <2>11, <2>12 DEF MapLength, MapOverflows
<1>5. CASE used # {}
  <2>1. PICK j : j = Max(used) /\ j \in used /\ \A k \in used : k <= j
    BY <1>2, <1>3, <1>5, LargestUpTo
  <2>2. j \in Buckets /\ j \in Nat /\ \A k \in Buckets : k > j => ~(Len(BucketOf(a, k)) > 0)
    <3>1. j \in Buckets /\ j \in Nat
      BY <1>2, <1>3, <2>1
    <3>2. ASSUME NEW k \in Buckets, k > j PROVE k \notin used
      <4>1. k \in Nat /\ ~(k <= j)
        BY <1>3, <3>1, <3>2
      <4> QED  BY <2>1, <4>1
    <3> QED  BY <1>2, <3>1, <3>2
  <2>3. TableAt(a, j) + SIZEOF_SLOT * (2 * Len(BucketOf(a, j))) = Len(f)
    BY <1>1, <2>2, LastTableEnds
  <2>4. PICK n \in Nat, t \in Nat, s \in Nat, m \in Nat :
          n = Len(BucketOf(a, j)) /\ t = TableAt(a, j) /\ s = SIZEOF_SLOT /\ m = MAX_OFF
    BY <2>2, TableEnds, TableAtNat, WordSizes
  <2>5. n > 0 /\ s > 0
    BY <1>2, <2>1, <2>4, WordSizes
  <2>6. PICK x \in Nat : x = s * (2 * n)
    <3>1. \A u, v \in Nat : u * (2 * v) \in Nat
      OBVIOUS
    <3> QED  BY <3>1
  <2>7. t + x = Len(f) /\ t + x <= m + 1
    BY <1>1, <2>3, <2>4, <2>6, ImageFits
  <2>8. t > 1 /\ x > 0
    <3>1. SIZEOF_TABLE > 1
      <4>1. \A p, q \in Nat : p > 0 /\ q > 0 => (p + p) * q > 1
        OBVIOUS
      <4>2. WORD \in Nat /\ WORD > 0 /\ TABLES \in Nat /\ TABLES > 0
        BY FormatAssumption
      <4> QED  BY <4>1, <4>2 DEF SIZEOF_TABLE, SIZEOF_TPTR
    <3>2. t >= RecordsEnd(a) /\ RecordsEnd(a) >= SIZEOF_TABLE /\ RecordsEnd(a) \in Nat
      BY <2>2, <2>4, TableAtNat
    <3>3. \A u, v \in Nat : u > 0 /\ v > 0 => u * (2 * v) > 0
      OBVIOUS
    <3> QED  BY <2>5, <2>6, <3>1, <3>2, <3>3, WordSizes
  <2>9. /\ t \in 1 .. m + 1 /\ t <= m /\ t - 1 \in 1 .. m + 1 /\ t - 1 <= m
        /\ x \in 1 .. m + 1 /\ x <= m /\ x < m
    BY <2>7, <2>8
  <2>10. U32(t) = t /\ U32(t - 1) = t - 1 /\ U32(x) = x
    BY <2>4, <2>9, U32Exact
  <2>11. 2 * n \in 1 .. m + 1 /\ 2 * n <= m
    <3>1. \A u, v \in Nat : u > 0 => u * (2 * v) >= 2 * v
      OBVIOUS
    <3>2. x >= 2 * n
      BY <2>5, <2>6, <3>1
    <3> QED  BY <2>5, <2>9, <3>2
  <2>12. U32(2 * n) = 2 * n
    BY <2>4, <2>11, U32Exact
  <2>13. PICK last : last = LastPointer(f)
    OBVIOUS
  <2>14. last = [offset |-> t, length |-> 2 * n]
    <3>1. ReadPointer(f, j * SIZEOF_TPTR)
            = [offset |-> U32(TableAt(a, j)), length |-> U32(2 * Len(BucketOf(a, j)))]
      BY <1>1, <2>2, PointerHolds
    <3>2. last = ReadPointer(f, j * SIZEOF_TPTR)
      BY <1>2, <2>1, <2>13 DEF LastPointer
    <3> QED  BY <2>4, <2>10, <2>12, <3>1, <3>2
  <2>15. last.offset = t /\ last.length = 2 * n
    BY <2>14
  <2>16. last.length * SIZEOF_SLOT = x
    <3>1. \A u, v \in Nat : (2 * v) * u = u * (2 * v)
      OBVIOUS
    <3> QED  BY <2>4, <2>6, <2>15, <3>1
  <2>17. U32(last.length * SIZEOF_SLOT) = x
    BY <2>10, <2>16
  <2>18. ~MapTooLong(last, x)
    <3>1. m # x /\ ~(m - x < t - 1)
      BY <2>7, <2>9
    <3> QED  BY <2>4, <2>10, <2>15, <3>1 DEF MapTooLong
  <2>19. ~MapOverflows(f)
    BY <2>13, <2>17, <2>18 DEF MapOverflows
  <2>20. EndOfTable(f, last) = Len(f)
    <3>1. EndOfTable(f, last) = IF U32(t + x) = 0 THEN Len(f) ELSE U32(t + x)
      BY <2>15, <2>17 DEF EndOfTable
    <3>2. CASE t + x <= m
      <4>1. t + x \in 1 .. MAX_OFF + 1 /\ t + x <= MAX_OFF
        BY <2>4, <2>8, <3>2
      <4>2. U32(t + x) = t + x
        BY <4>1, U32Exact
      <4> QED  BY <2>7, <3>1, <4>2
    <3>3. CASE t + x = m + 1
      <4>1. \A u \in Nat : (u + 1) % (u + 1) = 0
        OBVIOUS
      <4>2. U32(t + x) = 0
        BY <2>4, <3>3, <4>1 DEF U32
      <4> QED  BY <3>1, <4>2
    <3> QED  BY <2>7, <3>2, <3>3
  <2>21. MapLength(f) = Len(f)
    BY <1>2, <1>5, <2>13, <2>20 DEF MapLength
  <2> QED  BY <1>1, <2>19, <2>21
<1> QED  BY <1>4, <1>5

-----------------------------------------------------------------------------
(* The walk from record to record.                                         *)

(* The i-th record is the first one with its key. *)
FirstOne(a, i) == \A k \in 1 .. i - 1 : a[k].key # a[i].key

(* What the walk makes of the i-th record. *)
RecordOn(a, i) ==
  [key |-> a[i].key, value |-> a[i].value, first |-> FirstOne(a, i), res |-> "hit",
   at |-> OffsetOf(a, i) + SIZEOF_DLENGTH + Len(a[i].key), next |-> OffsetOf(a, i + 1)]

(* The search tells whether a record is the first one with its key. *)
LEMMA RecordAtIs ==
  ASSUME NEW a \in Seq(Record), Fits(a), NEW i \in 1 .. Len(a)
  PROVE  RecordAt(Image(a), OffsetOf(a, i)) = RecordOn(a, i)
<1>1. PICK f \in Seq(Bytes) : f = Image(a) /\ Holds(f, SIZEOF_TABLE, Encoded(a))
  BY ImageHolds, ImageFits DEF Laid
<1>2. a[i] \in Record /\ a[i].key \in Keys
  <2>1. a[i] \in Record
    OBVIOUS
  <2> QED  BY <2>1 DEF Record
<1>3. PICK k \in Nat, v \in Nat, d \in Nat, o \in Nat :
        k = Len(a[i].key) /\ v = Len(a[i].value) /\ d = SIZEOF_DLENGTH /\ o = OffsetOf(a, i)
  <2>1. Len(a[i].key) \in Nat /\ Len(a[i].value) \in Nat
    BY <1>2, LengthsFit, WordSizes DEF Words
  <2>2. SIZEOF_DLENGTH \in Nat /\ OffsetOf(a, i) \in Nat
    BY OffsetNext, WordSizes
  <2> QED  BY <2>1, <2>2
<1>4. a[i].key \in Seq(Bytes) /\ a[i].value \in Seq(Bytes)
  BY <1>2, LengthsFit
<1>5. /\ ReadDLength(f, o) = [klen |-> k, dlen |-> v]
      /\ Holds(f, o + d, a[i].key)
      /\ Holds(f, o + d + k, a[i].value)
  BY <1>1, <1>3, RecordRead
<1>6. ReadKey(f, o + d, k) = a[i].key
  BY <1>1, <1>3, <1>4, <1>5, HoldsKey
<1>7. ReadKey(f, o + d + k, v) = a[i].value
  BY <1>1, <1>3, <1>4, <1>5, HoldsKey
<1>8. PICK found : found = FindFirst(f, a[i].key)
  OBVIOUS
<1>9. found.res = "hit" /\ (found.offset = o + d + k <=> FirstOne(a, i))
  <2>1. FoundFirst(a, a[i].key, found)
    BY <1>1, <1>2, <1>8, FirstFound
  <2>2. i \in Keyed(a, a[i].key)
    BY DEF Keyed
  <2>3. PICK l \in Keyed(a, a[i].key) :
          /\ \A m \in Keyed(a, a[i].key) : m >= l
          /\ found.res = "hit"
          /\ found.offset = OffsetOf(a, l) + SIZEOF_DLENGTH + Len(a[i].key)
    BY <2>1, <2>2 DEF FoundFirst
  <2>4. l \in 1 .. Len(a) /\ a[l].key = a[i].key /\ l <= i
    BY <2>2, <2>3 DEF Keyed
  <2>5. OffsetOf(a, l) \in Nat /\ found.offset = OffsetOf(a, l) + d + k
    BY <1>3, <2>3, <2>4, OffsetNext
  <2>6. CASE l = i
    <3>1. FirstOne(a, i)
      <4> SUFFICES ASSUME NEW m \in 1 .. i - 1, a[m].key = a[i].key PROVE FALSE
        BY DEF FirstOne
      <4>1. m \in 1 .. Len(a) /\ ~(m >= i)
        OBVIOUS
      <4>2. m \in Keyed(a, a[i].key)
        BY <4>1 DEF Keyed
      <4> QED  BY <2>3, <2>6, <4>1, <4>2
    <3> QED  BY <1>3, <2>3, <2>5, <2>6, <3>1
  <2>7. CASE l # i
    <3>1. l < i /\ l \in 1 .. i - 1
      BY <2>4, <2>7
    <3>2. ~FirstOne(a, i)
      BY <2>4, <3>1 DEF FirstOne
    <3>3. l \in 1 .. Len(a) + 1 /\ i \in 1 .. Len(a) + 1
      BY <2>4
    <3>4. OffsetOf(a, l) < OffsetOf(a, i)
      BY <3>1, <3>3, OffsetGrows
    <3>5. found.offset # o + d + k
      BY <1>3, <2>5, <3>4
    <3> QED  BY <2>3, <3>2, <3>5
  <2> QED  BY <2>6, <2>7
<1>10. o + d + k + v = OffsetOf(a, i + 1)
  <2>1. OffsetOf(a, i + 1) = o + (d + k + v)
    BY <1>3, OffsetNext
  <2>2. o + d + k + v = o + (d + k + v)
    OBVIOUS
  <2> QED  BY <2>1, <2>2
<1>11. RecordAt(f, o) = RecordWith(f, o + d, [klen |-> k, dlen |-> v], o + d + k)
  BY <1>3, <1>5 DEF RecordAt
<1>12. RecordWith(f, o + d, [klen |-> k, dlen |-> v], o + d + k)
         = [key |-> a[i].key, value |-> a[i].value,
            first |-> IsFirst(found, o + d + k), res |-> found.res,
            at |-> o + d + k, next |-> o + d + k + v]
  BY <1>6, <1>7, <1>8 DEF RecordWith
<1>13. IsFirst(found, o + d + k) = FirstOne(a, i)
  <2>1. IsFirst(found, o + d + k) \in BOOLEAN /\ FirstOne(a, i) \in BOOLEAN
    BY DEF IsFirst, FirstOne
  <2> QED  BY <1>9, <2>1 DEF IsFirst
<1> QED  BY <1>1, <1>3, <1>9, <1>10, <1>11, <1>12, <1>13 DEF RecordOn

(* A record takes at least its two lengths. *)
LEMMA RecordsTakeRoom ==
  ASSUME NEW a \in Seq(Record)
  PROVE  /\ OffsetOf(a, 1) = SIZEOF_TABLE
         /\ OffsetOf(a, Len(a) + 1) = RecordsEnd(a)
         /\ RecordsEnd(a) >= SIZEOF_TABLE + Len(a) * SIZEOF_DLENGTH
<1>1. PICK n \in Nat, d \in Nat, t \in Nat : n = Len(a) /\ d = SIZEOF_DLENGTH /\ t = SIZEOF_TABLE
  BY WordSizes
<1> DEFINE S == {i \in 0 .. n : OffsetOf(a, i + 1) \in Nat /\ OffsetOf(a, i + 1) >= t + i * d}
<1>2. OffsetOf(a, 1) = SIZEOF_TABLE
  <2>1. 1 \in 1 .. Len(a) + 1 /\ 1 - 1 = 0
    OBVIOUS
  <2>2. OffsetOf(a, 1) = SIZEOF_TABLE + Len(Encoded(Prefix(a, 0)))
    BY <2>1, OffsetValue
  <2>3. Encoded(Prefix(a, 0)) = <<>> /\ Len(<<>>) = 0
    BY PrefixAll, EncodedEmpty
  <2> QED  BY <2>2, <2>3, WordSizes
<1>3. 0 \in S
  <2>1. 0 * d = 0 /\ 0 + 1 = 1 /\ 0 \in 0 .. n
    BY <1>1
  <2> QED  BY <1>1, <1>2, <2>1
<1>4. ASSUME NEW i \in 0 .. n - 1, i \in S PROVE i + 1 \in S
  <2>1. i + 1 \in 1 .. Len(a) /\ i + 1 \in 0 .. n
    BY <1>1
  <2>2. PICK k \in Nat, v \in Nat : k = Len(a[i + 1].key) /\ v = Len(a[i + 1].value)
    BY <2>1, OffsetNext, LengthsFit DEF Words
  <2>3. OffsetOf(a, i + 1 + 1) = OffsetOf(a, i + 1) + (d + k + v)
    BY <1>1, <2>1, <2>2, OffsetNext
  <2>4. \A x, y \in Nat : (x + 1) * y = x * y + y /\ x * y \in Nat
    OBVIOUS
  <2>5. (i + 1) * d = i * d + d /\ i * d \in Nat
    BY <2>4
  <2>6. PICK o \in Nat, x \in Nat : o = OffsetOf(a, i + 1) /\ x = i * d /\ o >= t + x
    BY <1>4, <2>5
  <2>7. OffsetOf(a, i + 1 + 1) = o + (d + k + v) /\ (i + 1) * d = x + d
    BY <2>3, <2>5, <2>6
  <2>8. o + (d + k + v) \in Nat /\ o + (d + k + v) >= t + (x + d)
    BY <2>6
  <2> QED  BY <2>1, <2>7, <2>8
<1> HIDE DEF S
<1>5. n \in S
  <2>1. \A i \in 0 .. n : i \in S
    BY <1>3, <1>4, UpTo
  <2> QED  BY <2>1
<1>6. OffsetOf(a, Len(a) + 1) = RecordsEnd(a)
  <2>1. Len(a) + 1 \in 1 .. Len(a) + 1 /\ (Len(a) + 1) - 1 = Len(a)
    OBVIOUS
  <2>2. OffsetOf(a, Len(a) + 1) = SIZEOF_TABLE + Len(Encoded(Prefix(a, Len(a))))
    BY <2>1, OffsetValue
  <2> QED  BY <2>2, PrefixAll DEF RecordsEnd
<1> QED  BY <1>1, <1>2, <1>5, <1>6 DEF S
(* A step of the walk, and all of them. *)
StepOf(f, end, wanted, walked) ==
  IF walked.pos >= end THEN walked
  ELSE [pos |-> IF Enough(wanted, RecordAt(f, walked.pos)) THEN end
                ELSE RecordAt(f, walked.pos).next,
        found |-> Append(walked.found, RecordAt(f, walked.pos))]

WalksBy(g, f, pos, end, wanted, n) ==
  /\ g[0] = [pos |-> pos, found |-> <<>>]
  /\ \A i \in 1 .. n : g[i] = StepOf(f, end, wanted, g[i - 1])
  /\ RecordsIn(f, pos, end, wanted) = g[n].found

LEMMA WalkTrace ==
  ASSUME NEW f, NEW pos, NEW end, NEW wanted, NEW n \in Nat,
         n = Len(f) \div SIZEOF_DLENGTH, NEW T,
         [pos |-> pos, found |-> <<>>] \in T,
         \A x \in T : StepOf(f, end, wanted, x) \in T
  PROVE  \E g \in [0 .. n -> T] : WalksBy(g, f, pos, end, wanted, n)
<1>1. PICK base \in T : base = [pos |-> pos, found |-> <<>>]
  OBVIOUS
<1> DEFINE seq == [i \in 1 .. n |-> i]
           Iter(h) == h = [s \in SUBSET DOMAIN seq |->
                             IF s = {} THEN base
                             ELSE StepOf(f, end, wanted, h[s \ {Max(s)}])]
           step == [p \in T \X (1 .. n) |-> StepOf(f, end, wanted, p[1])]
<1>2. step \in [T \X (1 .. n) -> T]
  OBVIOUS
<1>3. RecordsIn(f, pos, end, wanted) = (CHOOSE h : Iter(h))[DOMAIN seq].found
  BY <1>1 DEF RecordsIn, FoldLeft, MapThenFoldSet, StepOf
<1>4. DOMAIN seq = 1 .. n
  OBVIOUS
<1>5. \A x \in T, i \in 1 .. n : step[<<x, i>>] = StepOf(f, end, wanted, x)
  OBVIOUS
<1> HIDE DEF seq, step
<1>6. PICK h \in [SUBSET (1 .. n) -> T] : IsFold(h, base, step, n)
  BY <1>2, FoldExists
<1>7. ASSUME NEW s \in SUBSET (1 .. n), s # {}
      PROVE  Max(s) \in 1 .. n /\ s \ {Max(s)} \in SUBSET (1 .. n)
  BY <1>7, LargestOf
<1>8. Iter(h)
  <2>1. ASSUME NEW s \in SUBSET (1 .. n), s # {}
        PROVE  h[s] = StepOf(f, end, wanted, h[s \ {Max(s)}])
    BY <1>5, <1>6, <1>7, <2>1 DEF IsFold
  <2>2. h[{}] = base
    BY <1>6 DEF IsFold
  <2> QED  BY <1>4, <2>1, <2>2
<1>9. Iter(CHOOSE w : Iter(w))
  BY <1>8, Zenon
<1>10. PICK w : Iter(w) /\ RecordsIn(f, pos, end, wanted) = w[1 .. n].found
  BY <1>3, <1>4, <1>9
<1>11. FoldsIn(T, w, base, step, n)
  BY <1>4, <1>5, <1>7, <1>10 DEF FoldsIn
<1> HIDE DEF Iter
<1>12. HasTrace(T, w, base, step, n)
  BY <1>2, <1>11, FoldTrace
<1>13. PICK g \in [0 .. n -> T] : IsTrace(g, base, step, n) /\ w[1 .. n] = g[n]
  BY <1>12 DEF HasTrace
<1>14. \A i \in 1 .. n : g[i] = StepOf(f, end, wanted, g[i - 1])
  <2> TAKE i \in 1 .. n
  <2>1. g[i - 1] \in T
    <3>1. i - 1 \in 0 .. n
      OBVIOUS
    <3> QED  BY <3>1
  <2> QED  BY <1>5, <1>13, <2>1 DEF IsTrace
<1>15. g[0] = base
  BY <1>13 DEF IsTrace
<1> QED  BY <1>1, <1>10, <1>13, <1>14, <1>15 DEF WalksBy

(* The walk from the n-th record comes to an end after m records: at the   *)
(* first one that is wanted, or at the last of all.                        *)
Stopping(a, n, wanted, m) == m >= 1 /\ Enough(wanted, RecordOn(a, n + m - 1))

EndsAfter(a, n, wanted, m) ==
  /\ m \in 0 .. Len(a) + 1 - n
  /\ \A i \in 1 .. m - 1 : ~Enough(wanted, RecordOn(a, n + i - 1))
  /\ m = Len(a) + 1 - n \/ Stopping(a, n, wanted, m)

LEMMA WalkEnds ==
  ASSUME NEW a \in Seq(Record), NEW n \in 1 .. Len(a) + 1, NEW wanted
  PROVE  \E m : EndsAfter(a, n, wanted, m)
<1>1. PICK len \in Nat : len = Len(a) + 1 - n
  OBVIOUS
<1> DEFINE S == {m \in 1 .. len : Enough(wanted, RecordOn(a, n + m - 1))}
<1>2. CASE S = {}
  <2>1. len \in 0 .. Len(a) + 1 - n
    BY <1>1
  <2>2. \A i \in 1 .. len - 1 : i \in 1 .. len
    OBVIOUS
  <2>3. \A i \in 1 .. len - 1 : ~Enough(wanted, RecordOn(a, n + i - 1))
    BY <1>2, <2>2
  <2> QED  BY <1>1, <2>1, <2>3 DEF EndsAfter
<1>3. CASE S # {}
  <2>1. PICK m \in S : \A i \in S : m <= i
    <3>1. S \subseteq Nat
      OBVIOUS
    <3>2. S \in SUBSET Nat
      BY <3>1
    <3> HIDE DEF S
    <3> QED  BY <1>3, <3>2, LeastNat
  <2>2. m \in 1 .. len /\ Enough(wanted, RecordOn(a, n + m - 1))
    OBVIOUS
  <2>3. \A i \in 1 .. m - 1 : i \in 1 .. len /\ ~(m <= i)
    BY <2>2
  <2>4. \A i \in 1 .. m - 1 : ~Enough(wanted, RecordOn(a, n + i - 1))
    BY <2>1, <2>3
  <2>5. m \in 0 .. Len(a) + 1 - n /\ m >= 1
    BY <1>1, <2>2
  <2> QED  BY <2>2, <2>4, <2>5 DEF EndsAfter, Stopping
<1> QED  BY <1>2, <1>3

(* The walk finds these records, and no more. *)
Passing(a, n, m) == [i \in 1 .. m |-> RecordOn(a, n + i - 1)]

LEMMA WalkFinds ==
  ASSUME NEW a \in Seq(Record), Fits(a), NEW n \in 1 .. Len(a) + 1, NEW wanted, NEW m,
         EndsAfter(a, n, wanted, m)
  PROVE  RecordsIn(Image(a), OffsetOf(a, n), RecordsEnd(a), wanted) = Passing(a, n, m)
<1>1. PICK len \in Nat, k \in Nat : len = Len(a) /\ k = n /\ m \in Nat /\ k + m <= len + 1 /\ k >= 1
      /\ k <= len + 1
  BY DEF EndsAfter
<1>2. PICK f \in Seq(Bytes), end \in Nat : f = Image(a) /\ end = RecordsEnd(a)
      /\ end = OffsetOf(a, len + 1)
  <2>1. RecordsEnd(a) \in Nat /\ Image(a) \in Seq(Bytes)
    BY ImageFits, TableAtNat
  <2> QED  BY <1>1, <2>1, RecordsTakeRoom
<1> DEFINE At(i) == [pos |-> IF i < m THEN OffsetOf(a, k + i) ELSE end,
                     found |-> Passing(a, k, i)]
           T == {At(i) : i \in 0 .. m}
<1>3. ASSUME NEW i \in 0 .. m - 1
      PROVE  StepOf(f, end, wanted, At(i)) = At(i + 1)
  <2>1. k + i \in 1 .. len /\ k + i \in 1 .. Len(a)
    BY <1>1
  <2>2. At(i).pos = OffsetOf(a, k + i) /\ At(i).found = Passing(a, k, i)
    <3>1. i < m
      BY <1>1
    <3> QED  BY <3>1
  <2>3. OffsetOf(a, k + i) \in Nat /\ OffsetOf(a, k + i) < end
    <3>1. k + i \in 1 .. Len(a) + 1 /\ len + 1 \in 1 .. Len(a) + 1 /\ k + i < len + 1
      BY <1>1, <2>1
    <3>2. OffsetOf(a, k + i) < OffsetOf(a, len + 1)
      BY <3>1, OffsetGrows
    <3> QED  BY <1>2, <2>1, <3>2, OffsetNext
  <2>4. PICK r : r = RecordOn(a, k + i) /\ RecordAt(f, OffsetOf(a, k + i)) = r
    BY <1>2, <2>1, RecordAtIs
  <2>5. StepOf(f, end, wanted, At(i))
          = [pos |-> IF Enough(wanted, r) THEN end ELSE r.next,
             found |-> Append(Passing(a, k, i), r)]
    <3>1. ~(OffsetOf(a, k + i) >= end)
      BY <2>3
    <3> HIDE DEF At
    <3> QED  BY <2>2, <2>4, <3>1 DEF StepOf
  <2>6. Append(Passing(a, k, i), r) = Passing(a, k, i + 1)
    <3>1. PICK s : s = [x \in 1 .. i + 1 |-> RecordOn(a, k + x - 1)]
      OBVIOUS
    <3>2. Passing(a, k, i + 1) = s
      BY <3>1 DEF Passing
    <3>3. k + (i + 1) - 1 = k + i /\ i + 1 \in 1 .. i + 1
      OBVIOUS
    <3>4. s[i + 1] = r
      BY <2>4, <3>1, <3>3
    <3>5. \A q : Append([x \in 1 .. i |-> RecordOn(a, k + x - 1)], q)
                   = [x \in 1 .. i + 1 |-> IF x = i + 1 THEN q ELSE RecordOn(a, k + x - 1)]
      OBVIOUS
    <3>6. [x \in 1 .. i + 1 |-> IF x = i + 1 THEN r ELSE RecordOn(a, k + x - 1)] = s
      BY <3>1, <3>4
    <3> QED  BY <3>2, <3>5, <3>6 DEF Passing
  <2>7. (IF Enough(wanted, r) THEN end ELSE r.next)
          = IF i + 1 < m THEN OffsetOf(a, k + (i + 1)) ELSE end
    <3>1. r.next = OffsetOf(a, k + i + 1) /\ k + i + 1 = k + (i + 1)
      BY <1>1, <2>4 DEF RecordOn
    <3>2. CASE i + 1 < m
      <4>1. i + 1 \in 1 .. m - 1 /\ k + (i + 1) - 1 = k + i
        BY <1>1, <3>2
      <4>2. ~Enough(wanted, RecordOn(a, k + (i + 1) - 1))
        BY <1>1, <4>1 DEF EndsAfter
      <4>3. ~Enough(wanted, r)
        BY <2>4, <4>1, <4>2
      <4> QED  BY <3>1, <3>2, <4>3
    <3>3. CASE ~(i + 1 < m)
      <4>1. i + 1 = m /\ k + m - 1 = k + i
        BY <1>1, <3>3
      <4>2. CASE m = Len(a) + 1 - n
        <5>1. k + (i + 1) = len + 1
          BY <1>1, <4>1, <4>2
        <5> QED  BY <1>2, <3>1, <3>3, <5>1
      <4>3. CASE Stopping(a, n, wanted, m)
        <5>1. Enough(wanted, r)
          BY <1>1, <2>4, <4>1, <4>3 DEF Stopping
        <5> QED  BY <3>3, <5>1
      <4> QED  BY <4>2, <4>3 DEF EndsAfter
    <3> QED  BY <3>2, <3>3
  <2> QED  BY <2>5, <2>6, <2>7
<1>4. StepOf(f, end, wanted, At(m)) = At(m)
  <2>1. At(m).pos = end /\ end >= end
    BY <1>1, <1>2
  <2> HIDE DEF At
  <2> QED  BY <2>1 DEF StepOf
<1>5. [pos |-> OffsetOf(a, n), found |-> <<>>] = At(0)
  <2>1. Passing(a, k, 0) = <<>>
    BY DEF Passing
  <2>2. k + 0 = n
    BY <1>1
  <2>3. CASE 0 < m
    BY <2>1, <2>2, <2>3
  <2>4. CASE ~(0 < m)
    <3>1. m = 0
      BY <1>1, <2>4
    <3>2. n = len + 1
      BY <1>1, <3>1 DEF EndsAfter, Stopping
    <3> QED  BY <1>2, <2>1, <2>4, <3>2
  <2> QED  BY <2>3, <2>4
<1> HIDE DEF At
<1>6. [pos |-> OffsetOf(a, n), found |-> <<>>] \in T
  <2>1. 0 \in 0 .. m
    BY <1>1
  <2> QED  BY <1>5, <2>1
<1>7. \A x \in T : StepOf(f, end, wanted, x) \in T
  <2> TAKE x \in T
  <2>1. PICK i \in 0 .. m : x = At(i)
    OBVIOUS
  <2>2. CASE i = m
    BY <1>4, <2>1, <2>2
  <2>3. CASE i # m
    <3>1. i \in 0 .. m - 1 /\ i + 1 \in 0 .. m
      BY <1>1, <2>3
    <3> QED  BY <1>3, <2>1, <3>1
  <2> QED  BY <2>2, <2>3
<1>8. PICK N \in Nat : N = Len(f) \div SIZEOF_DLENGTH /\ N >= m
  <2>1. PICK d \in Nat \ {0}, t \in Nat : d = SIZEOF_DLENGTH /\ t = SIZEOF_TABLE
    BY WordSizes
  <2>2. PICK b \in Nat : b = Len(f)
    OBVIOUS
  <2>3. end >= t + len * d
    BY <1>1, <1>2, <2>1, RecordsTakeRoom
  <2>4. b >= end
    <3>1. \A u, v \in Nat : 2 * u * v \in Nat
      OBVIOUS
    <3>2. 2 * SIZEOF_SLOT * len \in Nat
      BY <3>1, WordSizes
    <3>3. b = end + 2 * SIZEOF_SLOT * len
      BY <1>1, <1>2, <2>2, ImageFits
    <3> QED  BY <3>2, <3>3
  <2>5. \A u, v \in Nat : u * v \in Nat
    OBVIOUS
  <2>6. b >= len * d
    <3>1. len * d \in Nat
      BY <2>5
    <3> QED  BY <2>3, <2>4, <3>1
  <2>7. \A x, y \in Nat, z \in Nat \ {0} : x >= y * z => x \div z >= y
    <3> TAKE x \in Nat, y \in Nat, z \in Nat \ {0}
    <3> HAVE x >= y * z
    <3>1. PICK q \in Nat, e \in 0 .. z - 1 : q = x \div z /\ x = z * q + e
      BY DivOf
    <3>2. \A u, v \in Nat, w \in Nat \ {0} : u < v => w * u + w <= v * w
      <4> TAKE u \in Nat, v \in Nat, w \in Nat \ {0}
      <4> HAVE u < v
      <4>1. PICK c \in Nat : v = u + 1 + c
        <5>1. v - (u + 1) \in Nat /\ v = u + 1 + (v - (u + 1))
          OBVIOUS
        <5> QED  BY <5>1
      <4>2. \A p, o \in Nat : (p + 1 + o) * w = w * p + w + o * w /\ o * w \in Nat /\ w * p \in Nat
        OBVIOUS
      <4> QED  BY <4>1, <4>2
    <3>3. CASE q < y
      <4>1. z * q + z <= y * z
        BY <3>2, <3>3
      <4>2. z * q \in Nat /\ y * z \in Nat
        OBVIOUS
      <4> QED  BY <3>1, <4>1, <4>2
    <3> QED  BY <3>1, <3>3
  <2>8. b \div d >= len
    BY <2>6, <2>7
  <2>9. b \div d \in Nat
    BY DivOf
  <2>10. len >= m
    BY <1>1
  <2> QED  BY <1>1, <2>1, <2>2, <2>8, <2>9, <2>10
<1> HIDE DEF T
<1>9. PICK g \in [0 .. N -> T] : WalksBy(g, f, OffsetOf(a, n), end, wanted, N)
  BY <1>6, <1>7, <1>8, WalkTrace
<1> DEFINE S == {i \in 0 .. N : g[i] = At(IF i < m THEN i ELSE m)}
<1>10. 0 \in S
  <2>1. (IF 0 < m THEN 0 ELSE m) = 0
    BY <1>1
  <2>2. g[0] = At(0)
    BY <1>5, <1>9 DEF WalksBy
  <2> QED  BY <1>8, <2>1, <2>2
<1>11. ASSUME NEW i \in 0 .. N - 1, i \in S PROVE i + 1 \in S
  <2>1. i + 1 \in 1 .. N /\ (i + 1) - 1 = i /\ i + 1 \in 0 .. N
    BY <1>8
  <2>2. g[i + 1] = StepOf(f, end, wanted, g[i])
    BY <1>9, <2>1 DEF WalksBy
  <2>3. g[i] = At(IF i < m THEN i ELSE m)
    BY <1>11
  <2>4. CASE i < m
    <3>1. i \in 0 .. m - 1 /\ (IF i + 1 < m THEN i + 1 ELSE m) = i + 1
      BY <1>1, <2>4
    <3>2. g[i + 1] = At(i + 1)
      BY <1>3, <2>2, <2>3, <2>4, <3>1
    <3> QED  BY <2>1, <3>1, <3>2
  <2>5. CASE ~(i < m)
    <3>1. (IF i + 1 < m THEN i + 1 ELSE m) = m
      BY <1>1, <2>5
    <3>2. g[i + 1] = At(m)
      BY <1>4, <2>2, <2>3, <2>5
    <3> QED  BY <2>1, <3>1, <3>2
  <2> QED  BY <2>4, <2>5
<1> HIDE DEF S
<1>12. N \in S
  <2>1. \A i \in 0 .. N : i \in S
    BY <1>8, <1>10, <1>11, UpTo
  <2> QED  BY <1>8, <2>1
<1>13. g[N] = At(m)
  <2>1. (IF N < m THEN N ELSE m) = m
    BY <1>1, <1>8
  <2> QED  BY <1>12, <2>1 DEF S
<1>14. At(m).found = Passing(a, k, m)
  BY DEF At
<1> QED  BY <1>1, <1>2, <1>9, <1>13, <1>14 DEF WalksBy
-----------------------------------------------------------------------------
(* The end of the records, the number of keys, and the first values.       *)

(* The sentinel: the first table starts where the records end. *)
LEMMA SentinelIs ==
  ASSUME NEW a \in Seq(Record), Fits(a)
  PROVE  /\ ReadSentinel(Image(a)) = RecordsEnd(a)
         /\ RecordsEnd(a) \in Words /\ RecordsEnd(a) # 0
<1>1. PICK f \in Seq(Bytes) : f = Image(a) /\ Holds(f, 0, Pointers(a, TABLES))
  BY ImageHolds, ImageFits
<1>2. 0 \in Buckets
  BY FormatAssumption DEF Buckets
<1>3. RecordsEnd(a) \in Words /\ RecordsEnd(a) >= SIZEOF_TABLE /\ SIZEOF_TABLE > 0
  <2>1. 0 \in Nat
    OBVIOUS
  <2> QED  BY <2>1, FitsRecords, TableAtNat, WordSizes
<1>4. PICK e \in Nat, m \in Nat, s \in Nat :
        e = RecordsEnd(a) /\ e \in 1 .. m /\ m = MAX_OFF /\ s = SIZEOF_SLOT
  BY <1>3, WordSizes DEF Words
<1>5. TableAt(a, 0) = e
  <2>1. Base(a, 0) = 0
    <3>1. 0 \in Nat
      OBVIOUS
    <3> QED  BY <3>1, BaseNext
  <2>2. TableAt(a, 0) = e + s * 2 * 0
    BY <1>4, <2>1 DEF TableAt
  <2> QED  BY <2>2
<1>6. U32(e) = e
  <2>1. e \in 1 .. MAX_OFF + 1 /\ e <= MAX_OFF
    BY <1>4
  <2> QED  BY <2>1, U32Exact
<1>7. 0 * SIZEOF_TPTR = 0
  BY FormatAssumption DEF SIZEOF_TPTR
<1>8. ReadPointer(f, 0) = [offset |-> e, length |-> U32(2 * Len(BucketOf(a, 0)))]
  BY <1>1, <1>2, <1>5, <1>6, <1>7, PointerHolds
<1>9. Unpack(f, 0) = e
  BY <1>8 DEF ReadPointer
<1> QED  BY <1>1, <1>3, <1>4, <1>9 DEF ReadSentinel

(* There are as many first records as there are keys. *)
FirstOnes(a) == {n \in DOMAIN a : FirstOne(a, n)}
KeysOf(a) == {a[n].key : n \in DOMAIN a}

LEMMA KeysCounted ==
  ASSUME NEW a \in Seq(Record)
  PROVE  /\ Cardinality(FirstOnes(a)) = Cardinality(KeysOf(a))
         /\ Cardinality(FirstOnes(a)) \in 0 .. Len(a)
<1>1. PICK len \in Nat : len = Len(a) /\ DOMAIN a = 1 .. len
  OBVIOUS
<1>2. FirstOnes(a) \in SUBSET (1 .. len)
  BY <1>1 DEF FirstOnes
<1>3. IsFiniteSet(FirstOnes(a)) /\ Cardinality(FirstOnes(a)) <= len
  <2>1. IsFiniteSet(1 .. len) /\ Cardinality(1 .. len) = len
    <3>1. 1 \in Int /\ len \in Int /\ (IF 1 > len THEN 0 ELSE len - 1 + 1) = len
      BY <1>1
    <3> QED  BY <3>1, FS_Interval
  <2> QED  BY <1>2, <2>1, FS_Subset
<1>4. Cardinality(FirstOnes(a)) \in Nat
  BY <1>3, FS_CardinalityType
<1> DEFINE f == [n \in FirstOnes(a) |-> a[n].key]
<1>5. f \in [FirstOnes(a) -> KeysOf(a)]
  BY DEF FirstOnes, KeysOf
<1>6. \A n, m \in FirstOnes(a) : f[n] = f[m] => n = m
  <2> SUFFICES ASSUME NEW n \in FirstOnes(a), NEW m \in FirstOnes(a), a[n].key = a[m].key, n < m
               PROVE  FALSE
    BY <1>1, <1>2
  <2>1. n \in 1 .. m - 1
    BY <1>1, <1>2
  <2> QED  BY <2>1 DEF FirstOnes, FirstOne
<1>7. \A k \in KeysOf(a) : \E n \in FirstOnes(a) : f[n] = k
  <2> TAKE k \in KeysOf(a)
  <2>1. PICK T : T = {n \in 1 .. len : a[n].key = k}
    OBVIOUS
  <2>2. T \subseteq Nat /\ T # {}
    BY <1>1, <2>1 DEF KeysOf
  <2>3. PICK n \in T : \A m \in T : n <= m
    BY <2>2, LeastNat
  <2>4. FirstOne(a, n)
    <3>1. \A m \in 1 .. n - 1 : m \in 1 .. len /\ ~(n <= m)
      BY <1>1, <2>1
    <3> QED  BY <2>1, <2>3, <3>1 DEF FirstOne
  <2>5. n \in FirstOnes(a) /\ a[n].key = k
    BY <1>1, <2>1, <2>4 DEF FirstOnes
  <2> QED  BY <2>5
<1>8. ExistsBijection(FirstOnes(a), KeysOf(a))
  <2> HIDE DEF f
  <2>1. f \in Bijection(FirstOnes(a), KeysOf(a))
    BY <1>5, <1>6, <1>7 DEF Bijection, Injection, Surjection, IsInjective
  <2> QED  BY <2>1 DEF ExistsBijection
<1> QED  BY <1>1, <1>3, <1>4, <1>8, FS_Bijection

(* A byte offset stands for the number of records before it. *)
LEMMA RecordsBefore ==
  ASSUME NEW a \in Seq(Record), NEW i \in 1 .. Len(a) + 1
  PROVE  Cardinality({n \in DOMAIN a : OffsetOf(a, n) < OffsetOf(a, i)}) = i - 1
<1>1. PICK len \in Nat : len = Len(a) /\ DOMAIN a = 1 .. len /\ i \in 1 .. len + 1
  OBVIOUS
<1>2. \A n \in 1 .. len : OffsetOf(a, n) < OffsetOf(a, i) <=> n \in 1 .. i - 1
  <2> TAKE n \in 1 .. len
  <2>1. n \in 1 .. Len(a) + 1
    BY <1>1
  <2>2. OffsetOf(a, n) \in Nat /\ OffsetOf(a, i) \in Nat
    BY <2>1, OffsetValue
  <2>3. CASE n < i
    <3>1. OffsetOf(a, n) < OffsetOf(a, i)
      BY <2>1, <2>3, OffsetGrows
    <3> QED  BY <1>1, <2>3, <3>1
  <2>4. CASE n = i
    BY <2>2, <2>4
  <2>5. CASE i < n
    <3>1. OffsetOf(a, i) < OffsetOf(a, n)
      BY <2>1, <2>5, OffsetGrows
    <3> QED  BY <1>1, <2>2, <2>5, <3>1
  <2> QED  BY <1>1, <2>3, <2>4, <2>5
<1>3. {n \in DOMAIN a : OffsetOf(a, n) < OffsetOf(a, i)} = 1 .. i - 1
  BY <1>1, <1>2
<1>4. Cardinality(1 .. i - 1) = i - 1
  BY <1>1, FS_Interval
<1> QED  BY <1>3, <1>4

(* The first of the values is the one of the first record with the key. *)
FirstValueIs(a, key) ==
  /\ Keyed(a, key) = {} => ValuesOf(a, key) = <<>>
  /\ \A i \in Keyed(a, key) :
       (\A k \in Keyed(a, key) : k >= i) =>
         ValuesOf(a, key) # <<>> /\ Head(ValuesOf(a, key)) = a[i].value

LEMMA FirstValue ==
  ASSUME NEW a \in Seq(Record), NEW key
  PROVE  FirstValueIs(a, key)
<1>1. PICK len \in Nat : len = Len(a) /\ Prefix(a, len) = a /\ Prefix(a, 0) = <<>>
  BY PrefixAll
<1>2. ValuesOf(<<>>, key) = <<>>
  BY ValuesOfNone
<1>3. ASSUME Keyed(a, key) = {} PROVE ValuesOf(a, key) = <<>>
  <2>1. 0 \in 0 .. Len(a) /\ len \in 0 .. Len(a) /\ 0 <= len
    BY <1>1
  <2>2. ValuesOf(Prefix(a, len), key) = ValuesOf(Prefix(a, 0), key)
    BY <1>3, <2>1, ValuesOfSkip
  <2> QED  BY <1>1, <1>2, <2>2
<1>4. ASSUME NEW i \in Keyed(a, key), \A k \in Keyed(a, key) : k >= i
      PROVE  ValuesOf(a, key) # <<>> /\ Head(ValuesOf(a, key)) = a[i].value
  <2>1. i \in 1 .. len /\ i \in 1 .. Len(a) /\ a[i].key = key /\ a[i] \in Record
    BY <1>1 DEF Keyed
  <2>2. 0 \in 0 .. Len(a) /\ i - 1 \in 0 .. Len(a) /\ 0 <= i - 1
    BY <2>1
  <2>3. \A k \in Keyed(a, key) : k <= 0 \/ k > i - 1
    BY <1>4, <2>1 DEF Keyed
  <2>4. ValuesOf(Prefix(a, i - 1), key) = <<>>
    BY <1>1, <1>2, <2>2, <2>3, ValuesOfSkip
  <2>5. ValuesOf(Prefix(a, i), key) = Append(<<>>, a[i].value)
    BY <2>1, <2>4, ValuesOfNext
  <2> DEFINE m == len - i
             S == {d \in 0 .. m : /\ ValuesOf(Prefix(a, i + d), key) \in Seq(Seq(Bytes))
                                  /\ ValuesOf(Prefix(a, i + d), key) # <<>>
                                  /\ Head(ValuesOf(Prefix(a, i + d), key)) = a[i].value}
  <2>6. m \in Nat /\ \A d \in 0 .. m : i + d \in 1 .. Len(a)
    BY <1>1, <2>1
  <2>7. 0 \in S
    <3>1. a[i].value \in Seq(Bytes)
      BY <2>1, LengthsFit
    <3>2. \A x \in Seq(Bytes) : /\ Append(<<>>, x) \in Seq(Seq(Bytes))
                                /\ Append(<<>>, x) # <<>> /\ Head(Append(<<>>, x)) = x
      OBVIOUS
    <3>3. i + 0 = i /\ 0 \in 0 .. m
      BY <2>1, <2>6
    <3> HIDE DEF m
    <3> QED  BY <2>5, <3>1, <3>2, <3>3
  <2>8. ASSUME NEW d \in 0 .. m - 1, d \in S PROVE d + 1 \in S
    <3>1. d + 1 \in 0 .. m /\ d \in Nat
      BY <2>6
    <3>2. i + (d + 1) \in 1 .. Len(a) /\ (i + (d + 1)) - 1 = i + d
      BY <2>1, <2>6, <3>1
    <3>3. PICK v \in Seq(Seq(Bytes)) : v = ValuesOf(Prefix(a, i + d), key)
                                       /\ v # <<>> /\ Head(v) = a[i].value
      BY <2>8
    <3>4. PICK x : x = a[i + (d + 1)].value
      OBVIOUS
    <3>5. x \in Seq(Bytes)
      <4>1. a[i + (d + 1)] \in Record
        BY <3>2
      <4> QED  BY <3>4, <4>1, LengthsFit
    <3>6. PICK w : w = ValuesOf(Prefix(a, i + (d + 1)), key)
      OBVIOUS
    <3>7. w = Append(v, x) \/ w = v
      <4>1. PICK n \in 1 .. Len(a) : n = i + (d + 1) /\ n - 1 = i + d
        BY <3>2
      <4> QED  BY <3>3, <3>4, <3>6, <4>1, ValuesOfNext
    <3>8. Append(v, x) \in Seq(Seq(Bytes)) /\ Append(v, x) # <<>> /\ Head(Append(v, x)) = Head(v)
      <4>1. \A T : \A s \in Seq(T), y \in T :
              s # <<>> => Append(s, y) \in Seq(T) /\ Append(s, y) # <<>> /\ Head(Append(s, y)) = Head(s)
        OBVIOUS
      <4> QED  BY <3>3, <3>5, <4>1
    <3>9. w \in Seq(Seq(Bytes)) /\ w # <<>> /\ Head(w) = a[i].value
      BY <3>3, <3>7, <3>8
    <3> QED  BY <3>1, <3>6, <3>9
  <2> HIDE DEF S, m
  <2>9. m \in S
    <3>1. m \in 0 .. m
      BY <2>6
    <3> QED  BY <2>6, <2>7, <2>8, <3>1, UpTo
  <2>10. i + m = len
    BY <1>1, <2>1 DEF m
  <2> QED  BY <1>1, <2>9, <2>10 DEF S
<1> QED  BY <1>3, <1>4 DEF FirstValueIs
(* Counting passes every record and takes the first ones. *)
AllCounted(a, counted) ==
  /\ \A n \in DOMAIN counted : ~Lost(counted[n])
  /\ {n \in DOMAIN counted : counted[n].first} = FirstOnes(a)

LEMMA CountsFirstOnes ==
  ASSUME NEW a \in Seq(Record), Fits(a)
  PROVE  AllCounted(a, RecordsIn(Image(a), SIZEOF_TABLE, RecordsEnd(a), "none"))
<1>1. PICK len \in Nat : len = Len(a) /\ DOMAIN a = 1 .. len
  OBVIOUS
<1>2. 1 \in 1 .. Len(a) + 1
  OBVIOUS
<1>3. PICK m : EndsAfter(a, 1, "none", m)
  BY <1>2, WalkEnds
<1>4. \A n : ~Enough("none", RecordOn(a, n)) /\ ~Lost(RecordOn(a, n))
  BY DEF Enough, Lost, RecordOn
<1>5. m = len
  <2>1. m = Len(a) + 1 - 1
    BY <1>3, <1>4 DEF EndsAfter, Stopping
  <2> QED  BY <1>1, <2>1
<1>6. RecordsIn(Image(a), OffsetOf(a, 1), RecordsEnd(a), "none") = Passing(a, 1, m)
  BY <1>2, <1>3, WalkFinds
<1>7. OffsetOf(a, 1) = SIZEOF_TABLE
  BY RecordsTakeRoom
<1>8. PICK c : c = Passing(a, 1, len)
  OBVIOUS
<1>9. DOMAIN c = 1 .. len /\ \A n \in 1 .. len : c[n] = RecordOn(a, n)
  <2>1. \A n \in 1 .. len : 1 + n - 1 = n
    OBVIOUS
  <2>2. DOMAIN c = 1 .. len /\ \A n \in 1 .. len : c[n] = RecordOn(a, 1 + n - 1)
    BY <1>8 DEF Passing
  <2> QED  BY <2>1, <2>2
<1>10. \A n : RecordOn(a, n).first = FirstOne(a, n)
  BY DEF RecordOn
<1>11. AllCounted(a, c)
  <2>1. \A n \in DOMAIN c : ~Lost(c[n])
    BY <1>4, <1>9
  <2>2. \A n \in DOMAIN c : c[n].first = FirstOne(a, n)
    BY <1>9, <1>10
  <2>3. {n \in DOMAIN c : c[n].first} = FirstOnes(a)
    BY <1>1, <1>9, <2>2 DEF FirstOnes
  <2> QED  BY <2>1, <2>3 DEF AllCounted
<1> QED  BY <1>5, <1>6, <1>7, <1>8, <1>11

-----------------------------------------------------------------------------
(* What holds between two calls.                                           *)

(* Where an iterator may stand: nowhere yet, at a record or at the end. *)
Places(a) == {0} \union {OffsetOf(a, n) : n \in 1 .. Len(a) + 1}

ReaderInv ==
  /\ records \in Seq(Record)
  /\ Fits(records)
  /\ file = Image(records)
  /\ map_size = -1 \/ map_size = Len(file)
  /\ sentinel = 0 \/ sentinel = RecordsEnd(records)
  /\ num_keys = -1 \/ num_keys = Cardinality(FirstOnes(records))
  /\ open \in BOOLEAN
  /\ iters \in [Iterators -> [pos : Places(records), all : BOOLEAN]]

(* What the calls read, whether there is a map or not. *)
LEMMA ReadsImage ==
  ASSUME ReaderInv
  PROVE  View = Image(records) /\ Sentinel = RecordsEnd(records)
<1>1. PICK f \in Seq(Bytes) : f = Image(records)
  BY ImageFits DEF ReaderInv
<1>2. SubSeq(f, 1, Len(f)) = f
  OBVIOUS
<1>3. View = f
  BY <1>1, <1>2 DEF View, ReaderInv
<1>4. ReadSentinel(f) = RecordsEnd(records)
  BY <1>1, SentinelIs DEF ReaderInv
<1> QED  BY <1>1, <1>3, <1>4 DEF Sentinel, ReaderInv

(* The records an iterator passes. *)
LEMMA PlaceOf ==
  ASSUME ReaderInv, NEW i \in Iterators
  PROVE  /\ iters[i] \in [pos : Places(records), all : BOOLEAN]
         /\ iters[i].pos # 0 => \E n \in 1 .. Len(records) + 1 : iters[i].pos = OffsetOf(records, n)
  BY DEF ReaderInv, Places

(* An instance starts with nothing cached and no iterator. *)
LEMMA ReaderInit ==
  ASSUME Init
  PROVE  ReaderInv
<1>1. records \in Seq(Record)
  BY DEF Init
<1>2. Fits(records)
  BY <1>1, ImageFits DEF Init
<1>3. map_size = -1 \/ map_size = Len(file)
  BY <1>1, <1>2, MapIsFile DEF Init
<1>4. iters \in [Iterators -> [pos : Places(records), all : BOOLEAN]]
  BY DEF Init, Places
<1> QED  BY <1>1, <1>2, <1>3, <1>4 DEF Init, ReaderInv

(* A call that leaves the iterators and the caches alone. *)
LEMMA ReaderUnchanged ==
  ASSUME ReaderInv, Unchanged, UNCHANGED <<Cached, iters>>, open' \in BOOLEAN
  PROVE  ReaderInv'
  BY DEF ReaderInv, Unchanged, Cached

(* Where an iterator is put. *)
LEMMA ReaderMoves ==
  ASSUME ReaderInv, Unchanged, UNCHANGED <<num_keys, open>>,
         sentinel' = sentinel \/ sentinel' = RecordsEnd(records),
         NEW i \in Iterators, NEW n \in 1 .. Len(records) + 1, NEW all \in BOOLEAN,
         iters' = [iters EXCEPT ![i] = [pos |-> OffsetOf(records, n), all |-> all]]
  PROVE  ReaderInv'
<1>1. records' = records /\ file' = file /\ map_size' = map_size
  BY DEF Unchanged
<1>2. PICK P : P = [pos : Places(records), all : BOOLEAN]
  OBVIOUS
<1>3. [pos |-> OffsetOf(records, n), all |-> all] \in P
  BY <1>2 DEF Places
<1>4. iters \in [Iterators -> P]
  BY <1>2 DEF ReaderInv
<1>5. iters' \in [Iterators -> P]
  BY <1>3, <1>4
<1>6. iters' \in [Iterators -> [pos : Places(records'), all : BOOLEAN]]
  BY <1>1, <1>2, <1>5
<1> QED  BY <1>1, <1>6 DEF ReaderInv
-----------------------------------------------------------------------------
(* What the calls do, told without bytes.                                  *)

(* len(cdb) *)
CountIs ==
  /\ open
  /\ called' = "len" /\ ret' = Cardinality(FirstOnes(records))
  /\ num_keys' = -1 \/ num_keys' = Cardinality(FirstOnes(records))
  /\ sentinel' = sentinel \/ sentinel' = RecordsEnd(records)
  /\ Unchanged /\ UNCHANGED <<open, iters>>

LEMMA CountDoes ==
  ASSUME ReaderInv, Count
  PROVE  CountIs
<1>1. open /\ Unchanged /\ UNCHANGED <<open, iters>>
  BY DEF Count
<1>2. CASE num_keys # -1 /\ Return("len", num_keys) /\ UNCHANGED Cached
  <2>1. num_keys = Cardinality(FirstOnes(records))
    BY <1>2 DEF ReaderInv
  <2>2. called' = "len" /\ ret' = num_keys /\ num_keys' = num_keys /\ sentinel' = sentinel
    BY <1>2 DEF Return, Cached
  <2> QED  BY <1>1, <2>1, <2>2 DEF CountIs
<1>3. CASE /\ num_keys = -1 /\ sentinel' = Sentinel
           /\ CountAll(RecordsFrom(SIZEOF_TABLE, "none"))
  <2>1. PICK c : c = RecordsFrom(SIZEOF_TABLE, "none")
    OBVIOUS
  <2>2. Sentinel = RecordsEnd(records) /\ View = Image(records)
    BY ReadsImage
  <2>3. AllCounted(records, c)
    <3>1. records \in Seq(Record) /\ Fits(records)
      BY DEF ReaderInv
    <3>2. c = RecordsIn(Image(records), SIZEOF_TABLE, RecordsEnd(records), "none")
      BY <2>1, <2>2 DEF RecordsFrom
    <3> QED  BY <3>1, <3>2, CountsFirstOnes
  <2>4. CountAll(c)
    BY <1>3, <2>1
  <2>5. /\ num_keys' = Cardinality({n \in DOMAIN c : c[n].first})
        /\ called' = "len" /\ ret' = num_keys'
    BY <2>3, <2>4 DEF CountAll, AllCounted, Return
  <2>6. num_keys' = Cardinality(FirstOnes(records))
    BY <2>3, <2>5 DEF AllCounted
  <2> QED  BY <1>1, <1>3, <2>2, <2>5, <2>6 DEF CountIs
<1> QED  BY <1>2, <1>3 DEF Count

(* next(iterator): of m records passed, the last may be one to return.     *)
Wants(i, p) == iters[i].all \/ FirstOne(records, p)

Returns(i, p) == IF Wants(i, p) THEN <<records[p]>> ELSE <<>>

Passes(i, n, m) ==
  /\ n \in 1 .. Len(records) + 1 /\ iters[i].pos = OffsetOf(records, n)
  /\ m \in 0 .. Len(records) + 1 - n
  /\ \A p \in n .. n + m - 2 : ~Wants(i, p)
  /\ n + m = Len(records) + 1 \/ (m >= 1 /\ Wants(i, n + m - 1))

NextRecordIs(i, n, m) ==
  /\ open
  /\ Passes(i, n, m)
  /\ iters' = [iters EXCEPT ![i] = [pos |-> OffsetOf(records, n + m), all |-> iters[i].all]]
  /\ called' = "next"
  /\ ret' = IF m = 0 THEN <<>> ELSE Returns(i, n + m - 1)
  /\ Unchanged /\ UNCHANGED <<Cached, open>>

LEMMA EnoughIs ==
  ASSUME NEW i, NEW p
  PROVE  /\ Enough(IF iters[i].all THEN "any" ELSE "first", RecordOn(records, p)) <=> Wants(i, p)
         /\ ~Lost(RecordOn(records, p))
<1>1. ~Lost(RecordOn(records, p)) /\ RecordOn(records, p).first = FirstOne(records, p)
  BY DEF Lost, RecordOn
<1>2. CASE iters[i].all
  BY <1>1, <1>2 DEF Enough, Wants
<1>3. CASE ~iters[i].all
  BY <1>1, <1>3 DEF Enough, Wants
<1> QED  BY <1>1, <1>2, <1>3

LEMMA NextRecordDoes ==
  ASSUME ReaderInv, NEW i \in Iterators, NextRecord(i)
  PROVE  \E n, m : NextRecordIs(i, n, m)
<1>1. /\ open /\ iters[i].pos # 0
      /\ Unchanged /\ UNCHANGED <<Cached, open>>
  BY DEF NextRecord
<1>2. PICK n \in 1 .. Len(records) + 1 : iters[i].pos = OffsetOf(records, n)
  BY <1>1, PlaceOf
<1>3. PICK it : it = iters[i] /\ it \in [pos : Places(records), all : BOOLEAN]
  BY PlaceOf
<1>4. PICK w : w = IF iters[i].all THEN "any" ELSE "first"
  OBVIOUS
<1>5. PICK len \in Nat : len = Len(records)
  BY DEF ReaderInv
<1>6. PICK m : EndsAfter(records, n, w, m)
  BY WalkEnds DEF ReaderInv
<1>7. m \in 0 .. Len(records) + 1 - n /\ m \in Nat
  BY <1>5, <1>6 DEF EndsAfter
<1>8. RecordsFrom(iters[i].pos, w) = Passing(records, n, m)
  <2>1. RecordsIn(Image(records), OffsetOf(records, n), RecordsEnd(records), w) = Passing(records, n, m)
    BY <1>6, WalkFinds DEF ReaderInv
  <2> QED  BY <1>2, <2>1, ReadsImage DEF RecordsFrom
<1>9. \A p : (Enough(w, RecordOn(records, p)) <=> Wants(i, p)) /\ ~Lost(RecordOn(records, p))
  BY <1>4, EnoughIs
<1>10. Passes(i, n, m)
  <2>1. \A p \in n .. n + m - 2 : ~Wants(i, p)
    <3> TAKE p \in n .. n + m - 2
    <3>1. PICK x \in 1 .. m - 1 : p = n + x - 1
      <4>1. p - n + 1 \in 1 .. m - 1 /\ p = n + (p - n + 1) - 1
        BY <1>5, <1>7
      <4> QED  BY <4>1
    <3>2. ~Enough(w, RecordOn(records, n + x - 1))
      BY <1>6 DEF EndsAfter
    <3> QED  BY <1>9, <3>1, <3>2
  <2>2. n + m = Len(records) + 1 \/ (m >= 1 /\ Wants(i, n + m - 1))
    <3>1. CASE m = Len(records) + 1 - n
      BY <1>5, <3>1
    <3>2. CASE Stopping(records, n, w, m)
      BY <1>9, <3>2 DEF Stopping
    <3> QED  BY <1>6, <3>1, <3>2 DEF EndsAfter
  <2> QED  BY <1>2, <1>7, <2>1, <2>2 DEF Passes
<1>11. PICK passed : passed = Passing(records, n, m)
  OBVIOUS
<1>12. CASE m = 0
  <2>1. passed = <<>>
    BY <1>11, <1>12 DEF Passing
  <2>2. iters' = iters /\ called' = "next" /\ ret' = <<>>
    BY <1>4, <1>8, <1>11, <2>1 DEF NextRecord, Return
  <2>3. iters' = [iters EXCEPT ![i] = [pos |-> OffsetOf(records, n + m), all |-> iters[i].all]]
    <3>1. n + m = n
      BY <1>5, <1>12
    <3>2. it = [pos |-> it.pos, all |-> it.all]
      BY <1>3
    <3>3. iters = [iters EXCEPT ![i] = it]
      BY <1>3 DEF ReaderInv
    <3> QED  BY <1>2, <1>3, <2>2, <3>1, <3>2, <3>3
  <2> QED  BY <1>1, <1>10, <1>12, <2>2, <2>3 DEF NextRecordIs
<1>13. CASE m # 0
  <2>1. PICK p \in 1 .. Len(records) : p = n + m - 1 /\ p + 1 = n + m
    <3>1. /\ n + m - 1 \in 1 .. Len(records)
          /\ (n + m - 1) + 1 = n + m
      BY <1>5, <1>7, <1>13
    <3> QED  BY <3>1
  <2>2. passed # <<>> /\ Last(passed) = RecordOn(records, p)
    <3>1. Len(passed) = m /\ m \in 1 .. m /\ passed[m] = RecordOn(records, n + m - 1)
      BY <1>7, <1>11, <1>13 DEF Passing
    <3>2. passed # <<>>
      BY <3>1
    <3> QED  BY <2>1, <3>1, <3>2 DEF Last
  <2>3. PICK r : r = RecordOn(records, p) /\ ~Lost(r) /\ (Enough(w, r) <=> Wants(i, p))
    BY <1>9
  <2>4. /\ iters' = [iters EXCEPT ![i].pos = IterPos(r)]
        /\ Return("next", IF Enough(w, r) THEN <<[key |-> r.key, value |-> r.value]>> ELSE <<>>)
    BY <1>4, <1>8, <1>11, <2>2, <2>3 DEF NextRecord
  <2>5. IterPos(r) = OffsetOf(records, n + m)
    BY <2>1, <2>3 DEF IterPos, RecordOn
  <2>6. [key |-> r.key, value |-> r.value] = records[p]
    <3>1. r.key = records[p].key /\ r.value = records[p].value
      BY <2>3 DEF RecordOn
    <3>2. records[p] \in Record
      BY DEF ReaderInv
    <3>3. \A x \in Record : x = [key |-> x.key, value |-> x.value]
      BY DEF Record
    <3> QED  BY <3>1, <3>2, <3>3
  <2>7. called' = "next" /\ ret' = Returns(i, n + m - 1)
    BY <2>1, <2>3, <2>4, <2>6 DEF Return, Returns
  <2>8. iters' = [iters EXCEPT ![i] = [pos |-> OffsetOf(records, n + m), all |-> iters[i].all]]
    <3>1. iters' = [iters EXCEPT ![i] = [it EXCEPT !.pos = OffsetOf(records, n + m)]]
      BY <1>3, <2>4, <2>5
    <3>2. [it EXCEPT !.pos = OffsetOf(records, n + m)] = [pos |-> OffsetOf(records, n + m), all |-> it.all]
      BY <1>3
    <3> QED  BY <1>3, <3>1, <3>2
  <2> QED  BY <1>1, <1>10, <1>13, <2>7, <2>8 DEF NextRecordIs
<1> QED  BY <1>12, <1>13
(* key in cdb, cdb[key] and cdb.get(key, all=True) *)
LookedUp(call, answer) ==
  /\ open
  /\ called' = call /\ ret' = answer
  /\ Unchanged /\ UNCHANGED <<Cached, open, iters>>

LEMMA LookUpDoes ==
  ASSUME ReaderInv, NEW k \in Keys
  PROVE  /\ HasKey(k) => LookedUp("contains", ValuesOf(records, k) # <<>>)
         /\ GetFirst(k) => LookedUp("get", IF ValuesOf(records, k) = <<>> THEN <<>>
                                           ELSE <<Head(ValuesOf(records, k))>>)
         /\ GetAll(k) => LookedUp("getall", ValuesOf(records, k))
<1>1. PICK a \in Seq(Record) : a = records /\ Fits(a) /\ View = Image(a)
  BY ReadsImage DEF ReaderInv
<1>2. PICK found : found = FindFirst(Image(a), k) /\ FoundFirst(a, k, found)
  BY <1>1, FirstFound
<1>3. PICK v : v = ValuesOf(a, k)
  OBVIOUS
<1>4. FirstValueIs(a, k)
  BY <1>1, FirstValue
<1>5. /\ found.res # "error"
      /\ found.res = "hit" <=> v # <<>>
      /\ found.res = "hit" => ReadValue(Image(a), found) = Head(v)
  <2>1. CASE Keyed(a, k) = {} /\ found.res = "miss"
    BY <1>3, <1>4, <2>1 DEF FirstValueIs
  <2>2. CASE \E i \in Keyed(a, k) :
               /\ \A n \in Keyed(a, k) : n >= i
               /\ found.res = "hit"
               /\ found.offset = OffsetOf(a, i) + SIZEOF_DLENGTH + Len(k)
               /\ found.length = Len(a[i].value)
    <3>1. PICK i \in Keyed(a, k) :
               /\ \A n \in Keyed(a, k) : n >= i
               /\ found.res = "hit"
               /\ found.offset = OffsetOf(a, i) + SIZEOF_DLENGTH + Len(k)
               /\ found.length = Len(a[i].value)
      BY <2>2
    <3>2. v # <<>> /\ Head(v) = a[i].value
      BY <1>3, <1>4, <3>1 DEF FirstValueIs
    <3>3. PICK f \in Seq(Bytes) : f = Image(a) /\ Holds(f, SIZEOF_TABLE, Encoded(a))
      BY ImageHolds, ImageFits DEF Laid
    <3>4. PICK ans : ans = AnswerOf(a, i, k, found.find)
      OBVIOUS
    <3>5. ReadValue(f, ans) = a[i].value
      BY <3>3, <3>4, ValueRead
    <3>6. ans.offset = found.offset /\ ans.length = found.length
      BY <3>1, <3>4 DEF AnswerOf, Answer
    <3>7. ReadValue(f, found) = ReadValue(f, ans)
      BY <3>6 DEF ReadValue
    <3> QED  BY <3>1, <3>2, <3>3, <3>5, <3>7
  <2> QED  BY <1>2, <2>1, <2>2 DEF FoundFirst
<1>6. HasKey(k) => LookedUp("contains", v # <<>>)
  <2> HAVE HasKey(k)
  <2>1. Answered("contains", found.res, found.res = "hit")
    BY <1>1, <1>2 DEF HasKey
  <2>2. (found.res = "hit") = (v # <<>>)
    BY <1>5
  <2>3. open /\ called' = "contains" /\ ret' = (found.res = "hit")
        /\ Unchanged /\ UNCHANGED <<Cached, open, iters>>
    BY <1>5, <2>1 DEF Answered, Return
  <2>4. ret' = (v # <<>>)
    BY <2>2, <2>3
  <2> QED  BY <2>3, <2>4 DEF LookedUp
<1>7. GetFirst(k) => LookedUp("get", IF v = <<>> THEN <<>> ELSE <<Head(v)>>)
  <2> HAVE GetFirst(k)
  <2>1. Answered("get", found.res, IF found.res = "hit" THEN <<ReadValue(Image(a), found)>> ELSE <<>>)
    BY <1>1, <1>2 DEF GetFirst
  <2> QED  BY <1>5, <2>1 DEF Answered, Return, LookedUp
<1>8. GetAll(k) => LookedUp("getall", v)
  <2> HAVE GetAll(k)
  <2>1. PICK all : all = FindAll(Image(a), k) /\ all.last.res = "miss" /\ all.values = v
    BY <1>1, <1>3, FindAllCorrect
  <2>2. Answered("getall", all.last.res, all.values)
    BY <1>1, <2>1 DEF GetAll
  <2> QED  BY <2>1, <2>2 DEF Answered, Return, LookedUp
<1> QED  BY <1>1, <1>3, <1>6, <1>7, <1>8

(* iter(cdb): the first record is behind the table pointers. *)
IterateIs(i, all) ==
  /\ open
  /\ iters' = [iters EXCEPT ![i] = [pos |-> OffsetOf(records, 1), all |-> all]]
  /\ called' = "iter" /\ ret' = <<>>
  /\ sentinel' = RecordsEnd(records)
  /\ Unchanged /\ UNCHANGED <<num_keys, open>>

LEMMA IterateDoes ==
  ASSUME ReaderInv, NEW i, NEW all, Iterate(i, all)
  PROVE  IterateIs(i, all)
<1>1. OffsetOf(records, 1) = SIZEOF_TABLE
  BY RecordsTakeRoom DEF ReaderInv
<1> QED  BY <1>1, ReadsImage DEF Iterate, Return, IterateIs

-----------------------------------------------------------------------------
(* The invariant is kept by every call.                                    *)

LEMMA ReaderNext ==
  ASSUME ReaderInv, [Next]_vars
  PROVE  ReaderInv'
<1>1. ASSUME NEW k \in Keys, HasKey(k) \/ GetFirst(k) \/ GetAll(k)
      PROVE  ReaderInv'
  <2>1. Unchanged /\ UNCHANGED <<Cached, open, iters>>
    BY <1>1, LookUpDoes DEF LookedUp
  <2>2. open' \in BOOLEAN
    BY <2>1 DEF ReaderInv
  <2> QED  BY <2>1, <2>2, ReaderUnchanged
<1>2. ASSUME Count PROVE ReaderInv'
  <2>1. CountIs
    BY <1>2, CountDoes
  <2> QED  BY <2>1 DEF CountIs, ReaderInv, Unchanged
<1>3. ASSUME NEW i \in Iterators, NextRecord(i) PROVE ReaderInv'
  <2>1. PICK n, m : NextRecordIs(i, n, m)
    BY <1>3, NextRecordDoes
  <2>2. n + m \in 1 .. Len(records) + 1
    <3>1. PICK len \in Nat : len = Len(records)
      BY DEF ReaderInv
    <3>2. n \in 1 .. len + 1 /\ m \in 0 .. len + 1 - n
      BY <2>1, <3>1 DEF NextRecordIs, Passes
    <3>3. n + m \in 1 .. len + 1
      BY <3>2
    <3> QED  BY <3>1, <3>3
  <2>3. iters[i].all \in BOOLEAN
    BY PlaceOf
  <2>4. PICK p \in 1 .. Len(records) + 1, all \in BOOLEAN : p = n + m /\ all = iters[i].all
    BY <2>2, <2>3
  <2>5. iters' = [iters EXCEPT ![i] = [pos |-> OffsetOf(records, p), all |-> all]]
    BY <2>1, <2>4 DEF NextRecordIs
  <2>6. Unchanged /\ UNCHANGED <<num_keys, open>> /\ sentinel' = sentinel
    BY <2>1 DEF NextRecordIs, Cached
  <2> QED  BY <2>5, <2>6, ReaderMoves
<1>4. ASSUME NEW i \in Iterators, NEW all \in BOOLEAN, Iterate(i, all) PROVE ReaderInv'
  <2>1. IterateIs(i, all)
    BY <1>4, IterateDoes
  <2>2. 1 \in 1 .. Len(records) + 1
    BY DEF ReaderInv
  <2>3. /\ iters' = [iters EXCEPT ![i] = [pos |-> OffsetOf(records, 1), all |-> all]]
        /\ Unchanged /\ UNCHANGED <<num_keys, open>> /\ sentinel' = RecordsEnd(records)
    BY <2>1 DEF IterateIs
  <2> QED  BY <2>2, <2>3, ReaderMoves
<1>5. ASSUME Close PROVE ReaderInv'
  BY <1>5, ReaderUnchanged DEF Close, Cached
<1>6. ASSUME Refuse PROVE ReaderInv'
  BY <1>6, ReaderUnchanged DEF Refuse, Cached, ReaderInv
<1>7. ASSUME UNCHANGED vars PROVE ReaderInv'
  BY <1>7 DEF vars, ReaderInv
<1> QED  BY <1>1, <1>2, <1>3, <1>4, <1>5, <1>6, <1>7 DEF Next

LEMMA ReaderAlways == Spec => []ReaderInv
<1>1. Init => ReaderInv
  BY ReaderInit
<1>2. ReaderInv /\ [Next]_vars => ReaderInv'
  BY ReaderNext
<1> QED  BY <1>1, <1>2, PTL DEF Spec

(* The variables keep their types, whatever is called in whatever order:   *)
(* a cached position fits into a word and a count into a length.           *)
THEOREM ReaderTyped == Spec => []TypeOK
<1>1. ReaderInv => TypeOK
  <2> HAVE ReaderInv
  <2>1. PICK a \in Seq(Record) : a = records /\ Fits(a)
    BY DEF ReaderInv
  <2>2. file \in Seq(Bytes) /\ Len(file) \in Nat
    BY <2>1, ImageFits DEF ReaderInv
  <2>3. map_size \in -1 .. Len(file)
    BY <2>2 DEF ReaderInv
  <2>4. RecordsEnd(a) \in Words /\ 0 \in Words
    BY <2>1, SentinelIs, WordSizes DEF Words
  <2>5. num_keys \in -1 .. Len(records)
    <3>1. Cardinality(FirstOnes(a)) \in 0 .. Len(a) /\ Len(a) \in Nat
      BY <2>1, KeysCounted
    <3> QED  BY <2>1, <3>1 DEF ReaderInv
  <2>6. Places(a) \subseteq Words
    <3>1. ASSUME NEW n \in 1 .. Len(a) + 1 PROVE OffsetOf(a, n) \in Words
      <4>1. CASE n = Len(a) + 1
        BY <2>4, <4>1, RecordsTakeRoom
      <4>2. CASE n # Len(a) + 1
        <5>1. n \in 1 .. Len(a)
          BY <4>2
        <5> QED  BY <2>1, <5>1, FitsRecords
      <4> QED  BY <4>1, <4>2
    <3> QED  BY <2>4, <3>1 DEF Places
  <2>7. iters \in [Iterators -> [pos : Words, all : BOOLEAN]]
    BY <2>1, <2>6 DEF ReaderInv
  <2> QED  BY <2>1, <2>2, <2>3, <2>4, <2>5, <2>7 DEF TypeOK, ReaderInv
<1> QED  BY <1>1, ReaderAlways, PTL

(* The map that is made from the table pointers alone is exactly as long   *)
(* as the file.                                                            *)
THEOREM MapCovers == Spec => []MapCoversFile
<1>1. ReaderInv => MapCoversFile
  BY MapIsFile DEF ReaderInv, MapCoversFile
<1> QED  BY <1>1, ReaderAlways, PTL

(* What one call leaves to the next is right: the iterators' positions and *)
(* both caches, whoever filled them and however often a file is closed.    *)
THEOREM PositionsKept == Spec => []PositionsRight
<1>1. ReaderInv => IteratorAtRecord
  BY PlaceOf DEF IteratorAtRecord
<1>2. ReaderInv => CachesRight
  <2> HAVE ReaderInv
  <2>1. records \in Seq(Record)
    BY DEF ReaderInv
  <2>2. OffsetOf(records, Len(records) + 1) = RecordsEnd(records)
    BY <2>1, RecordsTakeRoom
  <2>3. Cardinality(FirstOnes(records)) = Cardinality({records[n].key : n \in DOMAIN records})
    BY <2>1, KeysCounted DEF KeysOf
  <2> QED  BY <2>2, <2>3 DEF CachesRight, ReaderInv
<1>3. ReaderInv => PositionsRight
  BY <1>1, <1>2 DEF PositionsRight
<1> QED  BY <1>3, ReaderAlways, PTL
-----------------------------------------------------------------------------
(* Every call answers as the store does.                                   *)

(* The cursor that stands for an iterator. *)
CursorOf(a, it) ==
  [at |-> IF it.pos = 0 THEN 0
          ELSE 1 + Cardinality({n \in DOMAIN a : OffsetOf(a, n) < it.pos}),
   all |-> it.all]

Cursors(a, its) ==
  [i \in Iterators |->
     [at |-> IF its[i].pos = 0 THEN 0
             ELSE 1 + Cardinality({n \in DOMAIN a : OffsetOf(a, n) < its[i].pos}),
      all |-> its[i].all]]

LEMMA CursorAt ==
  ASSUME NEW a \in Seq(Record), NEW n \in 1 .. Len(a) + 1, NEW it,
         it.pos = OffsetOf(a, n)
  PROVE  CursorOf(a, it) = [at |-> n, all |-> it.all]
<1>1. it.pos # 0
  BY OffsetValue
<1>2. Cardinality({k \in DOMAIN a : OffsetOf(a, k) < OffsetOf(a, n)}) = n - 1
  BY RecordsBefore
<1>3. 1 + (n - 1) = n
  OBVIOUS
<1> QED  BY <1>1, <1>2, <1>3 DEF CursorOf

(* Moving an iterator moves its cursor. *)
LEMMA CursorMoves ==
  ASSUME ReaderInv, NEW i \in Iterators, NEW n \in 1 .. Len(records) + 1, NEW all,
         records' = records,
         iters' = [iters EXCEPT ![i] = [pos |-> OffsetOf(records, n), all |-> all]]
  PROVE  Cursors(records', iters')
           = [Cursors(records, iters) EXCEPT ![i] = [at |-> n, all |-> all]]
<1>1. PICK it : it = [pos |-> OffsetOf(records, n), all |-> all]
  OBVIOUS
<1>2. CursorOf(records, it) = [at |-> n, all |-> all]
  <2>1. records \in Seq(Record) /\ it.pos = OffsetOf(records, n) /\ it.all = all
    BY <1>1 DEF ReaderInv
  <2> QED  BY <2>1, CursorAt
<1>3. iters' = [iters EXCEPT ![i] = it] /\ DOMAIN iters = Iterators
  BY <1>1 DEF ReaderInv
<1>4. \A its : Cursors(records, its) = [k \in Iterators |-> CursorOf(records, its[k])]
  BY DEF Cursors, CursorOf
<1>5. \A k \in Iterators : iters'[k] = IF k = i THEN it ELSE iters[k]
  BY <1>3
<1>6. Cursors(records, iters') = [k \in Iterators |-> CursorOf(records, IF k = i THEN it ELSE iters[k])]
  <2>1. PICK its : its = iters'
    OBVIOUS
  <2>2. \A k \in Iterators : CursorOf(records, its[k])
                              = CursorOf(records, IF k = i THEN it ELSE iters[k])
    BY <1>5, <2>1
  <2>3. Cursors(records, its) = [k \in Iterators |-> CursorOf(records, its[k])]
    BY <1>4
  <2> QED  BY <2>1, <2>2, <2>3
<1>7. [Cursors(records, iters) EXCEPT ![i] = CursorOf(records, it)]
        = [k \in Iterators |-> IF k = i THEN CursorOf(records, it) ELSE CursorOf(records, iters[k])]
  BY <1>4
<1>8. \A k \in Iterators : CursorOf(records, IF k = i THEN it ELSE iters[k])
                            = IF k = i THEN CursorOf(records, it) ELSE CursorOf(records, iters[k])
  OBVIOUS
<1>9. Cursors(records, iters') = [Cursors(records, iters) EXCEPT ![i] = CursorOf(records, it)]
  BY <1>6, <1>7, <1>8
<1> QED  BY <1>2, <1>9

(* The store's terms are the format's. *)
LEMMA StoreTerms ==
  /\ \A k : Store!ValuesOf(k) = ValuesOf(records, k)
  /\ \A n : Store!IsFirst(n) <=> FirstOne(records, n)
  /\ Cardinality({n \in DOMAIN records : Store!IsFirst(n)}) = Cardinality(FirstOnes(records))
<1>1. \A k : Store!ValuesOf(k) = ValuesOf(records, k)
  <2>1. \A s : Store!FlattenSeq(s) = FlattenSeq(s)
    BY DEF Store!FlattenSeq, FlattenSeq
  <2> QED  BY <2>1 DEF Store!ValuesOf, ValuesOf
<1>2. \A n : Store!IsFirst(n) <=> FirstOne(records, n)
  BY DEF Store!IsFirst, FirstOne
<1>3. {n \in DOMAIN records : Store!IsFirst(n)} = FirstOnes(records)
  BY <1>2 DEF FirstOnes
<1> QED  BY <1>1, <1>2, <1>3

LEMMA StoreInit ==
  ASSUME Init
  PROVE  Store!Init
<1>1. Cursors(records, iters) = [i \in Iterators |-> Store!NoCursor]
  BY DEF Init, Cursors, Store!NoCursor
<1> QED  BY <1>1 DEF Init, Store!Init, Cursors

LEMMA StoreLooksUp ==
  ASSUME ReaderInv, NEW k \in Keys
  PROVE  /\ HasKey(k) => Store!HasKey(k)
         /\ GetFirst(k) => Store!GetFirst(k)
         /\ GetAll(k) => Store!GetAll(k)
<1>1. ASSUME NEW call, NEW answer, LookedUp(call, answer)
      PROVE  open /\ Store!Return(call, answer) /\ Cursors(records', iters') = Cursors(records, iters)
  <2>1. records' = records /\ iters' = iters /\ open /\ open' = open /\ called' = call /\ ret' = answer
    BY <1>1 DEF LookedUp, Unchanged
  <2> QED  BY <2>1 DEF Store!Return
<1>2. HasKey(k) => Store!HasKey(k)
  BY <1>1, LookUpDoes, StoreTerms DEF Store!HasKey, Cursors
<1>3. GetFirst(k) => Store!GetFirst(k)
  BY <1>1, LookUpDoes, StoreTerms DEF Store!GetFirst, Cursors
<1>4. GetAll(k) => Store!GetAll(k)
  BY <1>1, LookUpDoes, StoreTerms DEF Store!GetAll, Cursors
<1> QED  BY <1>2, <1>3, <1>4

LEMMA StoreCounts ==
  ASSUME ReaderInv, Count
  PROVE  Store!Count
<1>1. CountIs
  BY CountDoes
<1>2. records' = records /\ iters' = iters /\ open /\ open' = open
      /\ called' = "len" /\ ret' = Cardinality(FirstOnes(records))
  BY <1>1 DEF CountIs, Unchanged
<1>3. Cursors(records', iters') = Cursors(records, iters)
  BY <1>2
<1>4. Store!Cardinality({n \in DOMAIN records : Store!IsFirst(n)})
        = Cardinality({n \in DOMAIN records : Store!IsFirst(n)})
  BY DEF Store!Cardinality, Cardinality
<1> QED  BY <1>2, <1>3, <1>4, StoreTerms DEF Store!Count, Store!Return, Cursors

LEMMA StoreIterates ==
  ASSUME ReaderInv, NEW i \in Iterators, NEW all \in BOOLEAN, Iterate(i, all)
  PROVE  Store!Iterate(i, all)
<1>1. IterateIs(i, all)
  BY IterateDoes
<1>2. records' = records /\ open /\ open' = open /\ called' = "iter" /\ ret' = <<>>
      /\ iters' = [iters EXCEPT ![i] = [pos |-> OffsetOf(records, 1), all |-> all]]
  BY <1>1 DEF IterateIs, Unchanged
<1>3. 1 \in 1 .. Len(records) + 1
  BY DEF ReaderInv
<1>4. Cursors(records', iters') = [Cursors(records, iters) EXCEPT ![i] = [at |-> 1, all |-> all]]
  BY <1>2, <1>3, CursorMoves
<1> QED  BY <1>2, <1>4 DEF Store!Iterate, Store!Return, Cursors
(* The records that were passed are none the store would return; the last  *)
(* one is the first it would, unless there is none any more.               *)
LEMMA StoreSteps ==
  ASSUME ReaderInv, NEW i \in Iterators, NextRecord(i)
  PROVE  Store!NextRecord(i)
<1>1. PICK n, m : NextRecordIs(i, n, m)
  BY NextRecordDoes
<1>2. PICK len \in Nat : len = Len(records) /\ DOMAIN records = 1 .. len
  BY DEF ReaderInv
<1>3. n \in 1 .. len + 1 /\ m \in 0 .. len + 1 - n /\ iters[i].pos = OffsetOf(records, n)
  BY <1>1, <1>2 DEF NextRecordIs, Passes
<1>4. PICK it : it = iters[i] /\ it.pos = OffsetOf(records, n)
  BY <1>3
<1>5. PICK cursor : cursor = Cursors(records, iters)
  OBVIOUS
<1>6. cursor[i] = [at |-> n, all |-> it.all]
  <2>1. n \in 1 .. Len(records) + 1 /\ records \in Seq(Record)
    BY <1>2, <1>3 DEF ReaderInv
  <2>2. CursorOf(records, it) = [at |-> n, all |-> it.all]
    BY <1>4, <2>1, CursorAt
  <2> QED  BY <1>4, <1>5, <2>2 DEF Cursors, CursorOf
<1>7. PICK to \in 1 .. len + 1 : to = n + m /\ to \in n .. len + 1
  <2>1. n + m \in 1 .. len + 1 /\ n + m \in n .. len + 1
    BY <1>2, <1>3
  <2> QED  BY <2>1
<1>8. records' = records /\ open /\ open' = open /\ called' = "next"
      /\ iters' = [iters EXCEPT ![i] = [pos |-> OffsetOf(records, to), all |-> it.all]]
      /\ ret' = IF m = 0 THEN <<>> ELSE Returns(i, n + m - 1)
  BY <1>1, <1>4, <1>7 DEF NextRecordIs, Unchanged
<1>9. Cursors(records', iters') = [cursor EXCEPT ![i].at = to]
  <2>1. Cursors(records', iters') = [cursor EXCEPT ![i] = [at |-> to, all |-> it.all]]
    <3>1. to \in 1 .. Len(records) + 1
      BY <1>2, <1>7
    <3> QED  BY <1>5, <1>8, <3>1, CursorMoves
  <2>2. [cursor EXCEPT ![i].at = to] = [cursor EXCEPT ![i] = [cursor[i] EXCEPT !.at = to]]
    OBVIOUS
  <2>3. [cursor[i] EXCEPT !.at = to] = [at |-> to, all |-> it.all]
    BY <1>6
  <2> QED  BY <2>1, <2>2, <2>3
<1>10. PICK W : W = {p \in DOMAIN records : p >= cursor[i].at /\ (cursor[i].all \/ Store!IsFirst(p))}
  OBVIOUS
<1>11. W = {p \in 1 .. len : p >= n /\ Wants(i, p)}
  <2>1. \A p : Store!IsFirst(p) <=> FirstOne(records, p)
    BY StoreTerms
  <2>2. cursor[i].at = n /\ cursor[i].all = iters[i].all
    BY <1>4, <1>6
  <2>3. \A p : Wants(i, p) <=> cursor[i].all \/ Store!IsFirst(p)
    BY <2>1, <2>2 DEF Wants
  <2> QED  BY <1>2, <1>10, <2>2, <2>3
<1>12. \A p \in W : p >= to - 1
  <2> TAKE p \in W
  <2>1. \A q \in n .. n + m - 2 : ~Wants(i, q)
    BY <1>1 DEF NextRecordIs, Passes
  <2>2. p \in 1 .. len /\ p >= n /\ p \notin n .. n + m - 2
    BY <1>11, <2>1
  <2> QED  BY <1>2, <1>3, <1>7, <2>2
<1>13. Store!NoCursor # cursor[i]
  <2>1. Store!NoCursor.at = 0
    BY DEF Store!NoCursor
  <2>2. cursor[i].at = n /\ n # 0
    BY <1>3, <1>6
  <2> QED  BY <2>1, <2>2
<1>14. CASE m >= 1 /\ Wants(i, n + m - 1)
  <2>1. PICK p : p = to - 1
    OBVIOUS
  <2>2. p \in 1 .. len /\ p >= n /\ p + 1 = to /\ p = n + m - 1
    BY <1>2, <1>3, <1>7, <1>14, <2>1
  <2>3. p \in W /\ \A q \in W : p <= q
    <3>1. p \in W
      BY <1>11, <1>14, <2>2
    <3>2. \A q \in W : q >= p /\ q \in Int
      BY <1>11, <1>12, <2>1
    <3>3. \A q \in W : p <= q
      BY <2>2, <3>2
    <3> QED  BY <3>1, <3>3
  <2>4. ret' = <<records[p]>>
    <3>1. Returns(i, p) = <<records[p]>>
      BY <1>14, <2>2 DEF Returns
    <3>2. m # 0
      BY <1>2, <1>3, <1>14
    <3> QED  BY <1>8, <2>2, <3>1, <3>2
  <2>5. Cursors(records', iters') = [cursor EXCEPT ![i].at = p + 1]
    BY <1>9, <2>2
  <2> QED  BY <1>5, <1>8, <1>10, <1>13, <2>3, <2>4, <2>5
           DEF Store!NextRecord, Store!Return, Cursors
<1>15. CASE ~(m >= 1 /\ Wants(i, n + m - 1))
  <2>1. n + m = Len(records) + 1
    BY <1>1, <1>15 DEF NextRecordIs, Passes
  <2>2. to = len + 1
    BY <1>2, <1>7, <2>1
  <2>3. W = {}
    <3> SUFFICES ASSUME NEW p \in W PROVE FALSE
      OBVIOUS
    <3>1. p \in 1 .. len /\ p >= n /\ Wants(i, p)
      BY <1>11
    <3>2. p >= to - 1
      BY <1>12
    <3>3. p = n + m - 1 /\ m >= 1
      BY <1>2, <1>3, <1>7, <2>2, <3>1, <3>2
    <3> QED  BY <1>15, <3>1, <3>3
  <2>4. ret' = <<>>
    <3>1. CASE m = 0
      BY <1>8, <3>1
    <3>2. CASE m # 0
      <4>1. ~Wants(i, n + m - 1)
        BY <1>2, <1>3, <1>15, <3>2
      <4> QED  BY <1>8, <3>2, <4>1 DEF Returns
    <3> QED  BY <3>1, <3>2
  <2>5. Cursors(records', iters') = [cursor EXCEPT ![i].at = Len(records) + 1]
    BY <1>2, <1>9, <2>2
  <2> QED  BY <1>5, <1>8, <1>10, <1>13, <2>3, <2>4, <2>5
           DEF Store!NextRecord, Store!Return, Cursors
<1> QED  BY <1>14, <1>15

LEMMA StoreNext ==
  ASSUME ReaderInv, [Next]_vars
  PROVE  [Store!Next]_(Store!vars)
<1>1. ASSUME NEW k \in Keys, HasKey(k) \/ GetFirst(k) \/ GetAll(k)
      PROVE  Store!Next
  BY <1>1, StoreLooksUp DEF Store!Next
<1>2. ASSUME Count PROVE Store!Next
  BY <1>2, StoreCounts DEF Store!Next
<1>3. ASSUME NEW i \in Iterators, NextRecord(i) PROVE Store!Next
  BY <1>3, StoreSteps DEF Store!Next
<1>4. ASSUME NEW i \in Iterators, NEW all \in BOOLEAN, Iterate(i, all) PROVE Store!Next
  BY <1>4, StoreIterates DEF Store!Next
<1>5. ASSUME Close PROVE Store!Next
  <2>1. /\ records' = records /\ iters' = iters
        /\ open' = FALSE /\ called' = "closed" /\ ret' = <<>>
    BY <1>5 DEF Close, Return, Unchanged
  <2>2. Cursors(records', iters') = Cursors(records, iters)
    BY <2>1
  <2>3. Store!Close
    BY <2>1, <2>2 DEF Store!Close, Cursors
  <2> QED  BY <2>3 DEF Store!Next
<1>6. ASSUME Refuse PROVE Store!Next
  <2>1. /\ records' = records /\ iters' = iters /\ ~open
        /\ open' = open /\ called' = "IOError" /\ ret' = <<>>
    BY <1>6 DEF Refuse, Return, Unchanged
  <2>2. Cursors(records', iters') = Cursors(records, iters)
    BY <2>1
  <2>3. Store!Refuse
    BY <2>1, <2>2 DEF Store!Refuse, Store!Return, Cursors
  <2> QED  BY <2>3 DEF Store!Next
<1>7. ASSUME UNCHANGED vars PROVE UNCHANGED Store!vars
  <2>1. /\ records' = records /\ iters' = iters
        /\ open' = open /\ called' = called /\ ret' = ret
    BY <1>7 DEF vars
  <2>2. Cursors(records', iters') = Cursors(records, iters)
    BY <2>1
  <2> QED  BY <2>1, <2>2 DEF Store!vars, Cursors
<1> QED  BY <1>1, <1>2, <1>3, <1>4, <1>5, <1>6, <1>7 DEF Next

(* An instance on the bytes of a committed file is the mapping that the    *)
(* records make: every call, in whatever order the calls come, through a   *)
(* map or not, with caches filled or not, answers what the store answers,  *)
(* and no call ever takes the file for a damaged one.                      *)
THEOREM ReaderImplementsStore == Spec => ImplementsStore
<1>1. Init => Store!Init
  BY StoreInit
<1>2. ReaderInv /\ [Next]_vars => [Store!Next]_(Store!vars)
  BY StoreNext
<1> QED  BY <1>1, <1>2, ReaderAlways, PTL DEF Spec, ImplementsStore, Store!Spec
=============================================================================
