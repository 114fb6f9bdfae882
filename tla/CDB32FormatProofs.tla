------------------------- MODULE CDB32FormatProofs --------------------------
(***************************************************************************)
(* The file format and the search in it, for any word, number of tables    *)
(* and contents.                                                           *)
(*                                                                         *)
(* The first half is about writing: folds and flattened sequences, the     *)
(* buckets and their slots, the parts of a file and their lengths.  The    *)
(* second half reads what was written: a word can be unpacked again, and   *)
(* each record, slot and pointer is where the search looks for it; a table *)
(* is filled so that the search for a hash gets to its records in order    *)
(* before it gets to a free slot; the 32-bit offsets it computes on the    *)
(* way are exact.  FindAllCorrect follows by induction over the finds, and *)
(* FoundInViews for files that are not, or not to their end, written.      *)
(***************************************************************************)
EXTENDS CDB32Find, FiniteSetTheorems, TLAPS

-----------------------------------------------------------------------------
(* The sizes of the parts of a file.                                       *)

LEMMA WordSizes ==
  /\ MAX_OFF \in Nat
  /\ SIZEOF_SLOT \in Nat /\ SIZEOF_SLOT > 0
  /\ SIZEOF_DLENGTH = SIZEOF_SLOT
  /\ SIZEOF_TABLE \in Nat /\ SIZEOF_TABLE > 0
  /\ SIZEOF_TABLE + 2 * SIZEOF_SLOT <= MAX_OFF
<1>1. BYTE^WORD \in Nat \ {0}
  BY FormatAssumption
<1>2. MAX_OFF \in Nat
  BY <1>1 DEF MAX_OFF
<1>3. SIZEOF_TPTR \in Nat /\ SIZEOF_TPTR > 0
  BY FormatAssumption DEF SIZEOF_TPTR
<1>4. TABLES \in Nat /\ TABLES > 0
  BY FormatAssumption
<1>5. \A a, b \in Nat : a > 0 /\ b > 0 => a * b \in Nat /\ a * b > 0
  OBVIOUS
<1>6. SIZEOF_TABLE \in Nat /\ SIZEOF_TABLE > 0
  BY <1>3, <1>4, <1>5 DEF SIZEOF_TABLE
<1> QED
  BY <1>2, <1>6, FormatAssumption DEF SIZEOF_SLOT, SIZEOF_DLENGTH

(* A word is WORD bytes. *)
LEMMA PackBytes ==
  ASSUME NEW num \in Nat
  PROVE  Pack(num) \in Seq(Bytes) /\ Len(Pack(num)) = WORD
<1>1. \A i \in 1 .. WORD : (num \div BYTE^(i - 1)) % BYTE \in Bytes
  <2> SUFFICES ASSUME NEW i \in 1 .. WORD
               PROVE  (num \div BYTE^(i - 1)) % BYTE \in Bytes
    OBVIOUS
  <2>1. i - 1 \in 0 .. WORD
    BY FormatAssumption
  <2>2. BYTE^(i - 1) \in Nat \ {0}
    BY <2>1, FormatAssumption
  <2>3. \A d \in Nat \ {0} : num \div d \in Nat
    OBVIOUS
  <2>4. \A d \in Nat : d % BYTE \in 0 .. BYTE - 1
    BY FormatAssumption
  <2> QED
    BY <2>2, <2>3, <2>4 DEF Bytes
<1> QED
  BY <1>1, FormatAssumption DEF Pack

(* The two lengths before a record.                                        *)
LEMMA PackDLengthBytes ==
  ASSUME NEW r \in Record
  PROVE  /\ PackDLength(r.key, r.value) \in Seq(Bytes)
         /\ Len(PackDLength(r.key, r.value)) = SIZEOF_DLENGTH
<1>1. r.key \in Seq(Bytes) /\ r.value \in Seq(Bytes)
  BY FormatAssumption DEF Record
<1>2. Len(r.key) \in Nat /\ Len(r.value) \in Nat
  BY <1>1
<1>3. /\ Pack(Len(r.key)) \in Seq(Bytes) /\ Len(Pack(Len(r.key))) = WORD
      /\ Pack(Len(r.value)) \in Seq(Bytes) /\ Len(Pack(Len(r.value))) = WORD
  BY <1>2, PackBytes
<1> QED
  BY <1>3 DEF PackDLength, SIZEOF_DLENGTH

LEMMA U32Adds ==
  ASSUME NEW n \in 0 .. MAX_OFF + 1, NEW m \in 0 .. MAX_OFF,
         n + m <= MAX_OFF + 1
  PROVE  U32(U32(n) + m) = U32(n + m)
<1>1. MAX_OFF \in Nat
  BY WordSizes
<1>2. CASE n = MAX_OFF + 1
  <2>1. m = 0 /\ U32(n) = 0
    BY <1>1, <1>2 DEF U32
  <2> QED
    BY <1>1, <1>2, <2>1 DEF U32
<1>3. CASE n <= MAX_OFF
  <2>1. U32(n) = n
    BY <1>1, <1>3 DEF U32
  <2> QED
    BY <2>1
<1> QED
  BY <1>1, <1>2, <1>3
-----------------------------------------------------------------------------
(* Two slots more for each record. *)
LEMMA SlotsLength ==
  ASSUME NEW n \in Nat
  PROVE  /\ 2 * SIZEOF_SLOT * n \in Nat
         /\ 2 * SIZEOF_SLOT * (n + 1)
              = 2 * SIZEOF_SLOT * n + (SIZEOF_SLOT + SIZEOF_SLOT)
<1>1. \A s, m \in Nat :
        2 * s * m \in Nat /\ 2 * s * (m + 1) = 2 * s * m + (s + s)
  OBVIOUS
<1> QED
  BY <1>1, WordSizes

-----------------------------------------------------------------------------
(* Folds.  The community modules define FoldLeft by a recursive function on *)
(* sets of positions; here is what it computes one position after the other. *)

(* A set of numbers has a least element. *)
LEMMA LeastNat ==
  ASSUME NEW S, S \subseteq Nat, S # {}
  PROVE  \E n \in S : \A m \in S : n <= m
<1> DEFINE T == {0 .. n : n \in S}
<1>1. IsWellFoundedOn(StrictSubsetOrdering(Nat), FiniteSubsetsOf(Nat))
  BY FS_StrictSubsetOrderingWellFounded
<1>2. T \subseteq FiniteSubsetsOf(Nat)
  <2>1. SUFFICES ASSUME NEW n \in S PROVE 0 .. n \in FiniteSubsetsOf(Nat)
    OBVIOUS
  <2>2. IsFiniteSet(0 .. n)
    BY FS_Interval
  <2>3. QED BY <2>2 DEF FiniteSubsetsOf
<1>3. T # {}
  OBVIOUS
<1> HIDE DEF T
<1>4. PICK x \in T : \A y \in T : <<y, x>> \notin StrictSubsetOrdering(Nat)
  BY <1>1, <1>2, <1>3, WFMin
<1>5. PICK n \in S : x = 0 .. n
  BY DEF T
<1>6. ASSUME NEW m \in S, m < n
      PROVE  FALSE
  <2>1. <<0 .. m, 0 .. n>> \in StrictSubsetOrdering(Nat)
    BY <1>6 DEF StrictSubsetOrdering
  <2>2. 0 .. m \in T
    BY DEF T
  <2>3. QED BY <2>1, <2>2, <1>4, <1>5
<1>7. QED BY <1>6

(* Induction up to n, for a property given as the set of numbers that have it. *)
LEMMA UpTo ==
  ASSUME NEW n \in Nat, NEW S, 0 \in S,
         \A i \in 0 .. n - 1 : i \in S => i + 1 \in S
  PROVE  \A i \in 0 .. n : i \in S
<1> DEFINE T == {i \in 0 .. n : i \notin S}
<1>1. SUFFICES ASSUME T # {} PROVE FALSE
  OBVIOUS
<1>2. PICK i \in T : \A m \in T : i <= m
  <2>1. T \subseteq Nat
    OBVIOUS
  <2> HIDE DEF T
  <2> QED  BY <1>1, <2>1, LeastNat
<1>3. i # 0 /\ i \in 1 .. n
  OBVIOUS
<1>4. i - 1 \in 0 .. n - 1 /\ i - 1 \in S
  BY <1>2, <1>3
<1>5. (i - 1) + 1 \in S
  BY <1>4
<1> QED BY <1>3, <1>5

(* The community modules' Max, of some positions of a sequence. *)
LEMMA LargestUpTo ==
  ASSUME NEW n \in Nat, NEW S \in SUBSET (0 .. n), S # {}
  PROVE  Max(S) \in S /\ \A i \in S : i <= Max(S)
<1> DEFINE T == {i \in 0 .. n : \A j \in S : j <= i}
<1>1. T \subseteq Nat /\ n \in T
  OBVIOUS
<1>2. PICK i \in T : \A m \in T : i <= m
  <2> HIDE DEF T
  <2> QED  BY <1>1, LeastNat
<1>3. i \in S
  <2> SUFFICES ASSUME i \notin S PROVE FALSE
    OBVIOUS
  <2>1. PICK j \in S : TRUE
    OBVIOUS
  <2>2. i # 0
    BY <2>1
  <2>3. i - 1 \in T
    BY <2>2
  <2> QED  BY <1>2, <2>3
<1>4. \E x \in S : \A y \in S : x >= y
  BY <1>3
<1>5. Max(S) \in S /\ \A y \in S : Max(S) >= y
  BY <1>4 DEF Max
<1> QED  BY <1>5

LEMMA LargestOf ==
  ASSUME NEW n \in Nat, NEW S \in SUBSET (1 .. n), S # {}
  PROVE  Max(S) \in S /\ \A i \in S : i <= Max(S)
<1>1. S \in SUBSET (0 .. n)
  OBVIOUS
<1> QED  BY <1>1, LargestUpTo

(* f is what FoldLeft computes for a sequence of length n, for each set of  *)
(* its positions, if step takes it from one position to the next.           *)
IsFold(f, base, step, n) ==
  \A s \in SUBSET (1 .. n) :
    f[s] = IF s = {} THEN base ELSE step[<<f[s \ {Max(s)}], Max(s)>>]

(* Such an f exists, position by position; a fold is defined by CHOOSE. *)
LEMMA FoldExists ==
  ASSUME NEW T, NEW base \in T, NEW n \in Nat, NEW step \in [T \X (1 .. n) -> T]
  PROVE  \E f \in [SUBSET (1 .. n) -> T] : IsFold(f, base, step, n)
<1> DEFINE S == {i \in 0 .. n : \E f \in [SUBSET (1 .. i) -> T] : IsFold(f, base, step, i)}
<1>1. 0 \in S
  <2> DEFINE f == [s \in SUBSET (1 .. 0) |-> base]
  <2>1. f \in [SUBSET (1 .. 0) -> T] /\ IsFold(f, base, step, 0)
    BY DEF IsFold
  <2> HIDE DEF f
  <2>2. \E h \in [SUBSET (1 .. 0) -> T] : IsFold(h, base, step, 0)
    BY <2>1, Zenon
  <2>3. 0 \in 0 .. n
    OBVIOUS
  <2> QED  BY <2>2, <2>3, Zenon
<1>2. ASSUME NEW i \in 0 .. n - 1, i \in S
      PROVE  i + 1 \in S
  <2>1. PICK f \in [SUBSET (1 .. i) -> T] : IsFold(f, base, step, i)
    BY <1>2
  <2> DEFINE g == [s \in SUBSET (1 .. i + 1) |->
                     IF i + 1 \in s THEN step[<<f[s \ {i + 1}], i + 1>>] ELSE f[s]]
  <2>2. \A s \in SUBSET (1 .. i + 1) :
          /\ s \ {i + 1} \in SUBSET (1 .. i)
          /\ i + 1 \notin s => s \in SUBSET (1 .. i)
    OBVIOUS
  <2>3. \A s \in SUBSET (1 .. i + 1) : i + 1 \in s => Max(s) = i + 1
    <3> SUFFICES ASSUME NEW s \in SUBSET (1 .. i + 1), i + 1 \in s
                 PROVE  Max(s) = i + 1
      OBVIOUS
    <3>1. i + 1 \in Nat /\ s # {}
      OBVIOUS
    <3>2. Max(s) \in s /\ \A m \in s : m <= Max(s)
      BY <3>1, LargestOf
    <3>3. Max(s) \in 1 .. i + 1 /\ i + 1 <= Max(s)
      BY <3>2
    <3> QED  BY <3>3
  <2>4. g \in [SUBSET (1 .. i + 1) -> T]
    BY <2>2
  <2>5. \A s \in SUBSET (1 .. i) : g[s] = f[s]
    OBVIOUS
  <2>6. \A s \in SUBSET (1 .. i) : s \ {Max(s)} \in SUBSET (1 .. i)
    OBVIOUS
  <2>7. ASSUME NEW s \in SUBSET (1 .. i + 1)
        PROVE  g[s] = IF s = {} THEN base
                      ELSE step[<<g[s \ {Max(s)}], Max(s)>>]
    <3>1. CASE i + 1 \in s
      <4>1. g[s] = step[<<f[s \ {i + 1}], i + 1>>] /\ Max(s) = i + 1
        BY <2>3, <3>1
      <4>2. g[s \ {i + 1}] = f[s \ {i + 1}]
        BY <2>2, <2>5
      <4> QED  BY <3>1, <4>1, <4>2
    <3>2. CASE i + 1 \notin s
      <4>1. s \in SUBSET (1 .. i)
        BY <2>2, <3>2
      <4>2. g[s] = f[s] /\ g[s \ {Max(s)}] = f[s \ {Max(s)}]
        BY <2>5, <2>6, <4>1
      <4> HIDE DEF g
      <4> QED  BY <2>1, <4>1, <4>2 DEF IsFold
    <3> QED  BY <3>1, <3>2
  <2> HIDE DEF g
  <2>8. i + 1 \in 0 .. n
    OBVIOUS
  <2>9. IsFold(g, base, step, i + 1)
    BY <2>7 DEF IsFold
  <2> QED  BY <2>4, <2>8, <2>9
<1> HIDE DEF S
<1>3. n \in S
  <2>1. n \in 0 .. n
    OBVIOUS
  <2> QED  BY <1>1, <1>2, <2>1, UpTo
<1> QED  BY <1>3 DEF S

(* From the front to the back of the sequence. *)
IsTrace(g, base, step, n) ==
  g[0] = base /\ \A i \in 1 .. n : g[i] = step[<<g[i - 1], i>>]

HasTrace(T, f, base, step, n) ==
  \E g \in [0 .. n -> T] : IsTrace(g, base, step, n) /\ f[1 .. n] = g[n]

FoldsIn(T, f, base, step, n) ==
  /\ f[{}] = base
  /\ \A s \in SUBSET (1 .. n) :
       s # {} /\ f[s \ {Max(s)}] \in T =>
         f[s] = step[<<f[s \ {Max(s)}], Max(s)>>]

(* A fold has the intermediate values that its last one comes from. *)
LEMMA FoldTrace ==
  ASSUME NEW T, NEW base \in T, NEW n \in Nat, NEW step \in [T \X (1 .. n) -> T],
         NEW f, FoldsIn(T, f, base, step, n)
  PROVE  HasTrace(T, f, base, step, n)
<1> DEFINE g == [i \in 0 .. n |-> f[1 .. i]]
           S == {i \in 0 .. n : f[1 .. i] \in T}
<1>1. ASSUME NEW i \in 1 .. n, f[1 .. i - 1] \in T
      PROVE  f[1 .. i] = step[<<f[1 .. i - 1], i>>]
  <2>1. Max(1 .. i) = i /\ (1 .. i) \ {i} = 1 .. i - 1
    <3>1. i \in 1 .. i /\ i \in Nat
      OBVIOUS
    <3>2. Max(1 .. i) \in 1 .. i /\ i <= Max(1 .. i)
      BY <3>1, LargestOf
    <3> QED  BY <3>2
  <2>2. 1 .. i \in SUBSET (1 .. n) /\ 1 .. i # {}
    <3>1. i \in 1 .. i
      OBVIOUS
    <3> QED  BY <3>1
  <2> QED  BY <1>1, <2>1, <2>2 DEF FoldsIn
<1>2. 1 .. 0 = {}
  OBVIOUS
<1>3. \A i \in 0 .. n : i \in S
  <2>1. 0 \in S
    BY <1>2 DEF FoldsIn
  <2>2. ASSUME NEW i \in 0 .. n - 1, i \in S PROVE i + 1 \in S
    <3>1. i + 1 \in 1 .. n /\ (i + 1) - 1 = i
      OBVIOUS
    <3>2. f[1 .. i + 1] = step[<<f[1 .. i], i + 1>>]
      BY <1>1, <2>2, <3>1
    <3> QED  BY <2>2, <3>1, <3>2
  <2> HIDE DEF S
  <2> QED  BY <2>1, <2>2, UpTo
<1>4. g \in [0 .. n -> T]
  BY <1>3
<1>5. IsTrace(g, base, step, n)
  BY <1>1, <1>2, <1>3 DEF IsTrace, FoldsIn
<1>6. f[1 .. n] = g[n]
  OBVIOUS
<1> HIDE DEF g
<1> QED  BY <1>4, <1>5, <1>6 DEF HasTrace

(* There are such values whatever is folded. *)
LEMMA TraceExists ==
  ASSUME NEW T, NEW base \in T, NEW n \in Nat, NEW step \in [T \X (1 .. n) -> T]
  PROVE  \E g \in [0 .. n -> T] : IsTrace(g, base, step, n)
<1>1. PICK f \in [SUBSET (1 .. n) -> T] : IsFold(f, base, step, n)
  BY FoldExists
<1>2. FoldsIn(T, f, base, step, n)
  BY <1>1 DEF IsFold, FoldsIn
<1>3. HasTrace(T, f, base, step, n)
  BY <1>2, FoldTrace
<1> QED  BY <1>3 DEF HasTrace

(* The same for FlattenSeq. *)
IsFlat(g, seqs) ==
  g[0] = <<>> /\ \A i \in 1 .. Len(seqs) : g[i] = g[i - 1] \o seqs[i]

FlattensBy(g, seqs) == IsFlat(g, seqs) /\ FlattenSeq(seqs) = g[Len(seqs)]

(* FlattenSeq appends the sequences one after the other.                   *)
LEMMA FlattenTrace ==
  ASSUME NEW X, NEW seqs \in Seq(Seq(X))
  PROVE  \E g \in [0 .. Len(seqs) -> Seq(X)] : FlattensBy(g, seqs)
<1> DEFINE n == Len(seqs)
           step == [p \in Seq(X) \X (1 .. n) |-> p[1] \o seqs[p[2]]]
           Flat(f) == f = [i \in 1 .. n |->
                             IF i = 1 THEN seqs[i] ELSE f[i - 1] \o seqs[i]]
<1>1. n \in Nat /\ <<>> \in Seq(X) /\ step \in [Seq(X) \X (1 .. n) -> Seq(X)]
  OBVIOUS
<1>2. PICK g \in [0 .. n -> Seq(X)] : IsTrace(g, <<>>, step, n)
  <2> HIDE DEF n, step
  <2> QED  BY <1>1, TraceExists
<1>3. IsFlat(g, seqs)
  <2>1. ASSUME NEW i \in 1 .. n PROVE g[i] = g[i - 1] \o seqs[i]
    <3>1. i - 1 \in 0 .. n
      BY <1>1
    <3>2. g[i - 1] \in Seq(X) /\ g[i] = step[<<g[i - 1], i>>]
      BY <1>2, <3>1 DEF IsTrace
    <3> QED  BY <3>2
  <2> QED  BY <1>2, <2>1 DEF IsTrace, IsFlat
<1>a. \A i \in 1 .. n : seqs[i] \in Seq(X)
  OBVIOUS
<1>b. g[0] = <<>> /\ \A i \in 1 .. n : g[i] = g[i - 1] \o seqs[i]
  BY <1>3 DEF IsFlat
<1>4. CASE n = 0
  BY <1>3, <1>4 DEF FlattenSeq, FlattensBy, IsFlat
<1>5. CASE n # 0
  <2> DEFINE h == [i \in 1 .. n |-> g[i]]
  <2>0. g[1] = seqs[1]
    <3>1. 1 \in 1 .. n /\ 1 - 1 = 0
      BY <1>1, <1>5
    <3>2. g[1] = g[0] \o seqs[1] /\ seqs[1] \in Seq(X)
      BY <1>a, <1>b, <3>1
    <3>3. \A s \in Seq(X) : <<>> \o s = s
      OBVIOUS
    <3> QED  BY <1>b, <3>2, <3>3
  <2>1. Flat(h)
    <3>1. ASSUME NEW i \in 1 .. n
          PROVE  h[i] = IF i = 1 THEN seqs[i] ELSE h[i - 1] \o seqs[i]
      <4>1. g[i] = g[i - 1] \o seqs[i] /\ seqs[i] \in Seq(X)
        BY <1>a, <1>b
      <4>2. CASE i = 1
        BY <2>0, <4>2
      <4>3. CASE i # 1
        <5>1. i - 1 \in 1 .. n
          BY <1>1, <4>3
        <5> QED  BY <4>1, <4>3, <5>1
      <4> QED  BY <4>2, <4>3
    <3> QED  BY <3>1
  <2> HIDE DEF h
  <2>2. Flat(CHOOSE f : Flat(f))
    BY <2>1, Zenon
  <2>3. FlattenSeq(seqs) = (CHOOSE f : Flat(f))[n]
    BY <1>5 DEF FlattenSeq
  <2>4. PICK f : Flat(f) /\ FlattenSeq(seqs) = f[n]
    BY <2>2, <2>3
  <2> DEFINE S == {i \in 0 .. n : i # 0 => f[i] = g[i]}
  <2>5. \A i \in 0 .. n : i \in S
    <3>1. 0 \in S
      BY <1>1
    <3>2. ASSUME NEW i \in 0 .. n - 1, i \in S PROVE i + 1 \in S
      <4>0. i + 1 \in 1 .. n /\ (i + 1) - 1 = i
        BY <1>1
      <4>1. g[i + 1] = g[i] \o seqs[i + 1] /\ seqs[i + 1] \in Seq(X)
        BY <1>a, <1>b, <4>0
      <4>2. f[i + 1] = IF i + 1 = 1 THEN seqs[i + 1] ELSE f[i] \o seqs[i + 1]
        BY <2>4, <4>0
      <4>3. CASE i = 0
        BY <2>0, <4>0, <4>2, <4>3
      <4>4. CASE i # 0
        <5>1. f[i] = g[i]
          BY <3>2, <4>4
        <5>2. i + 1 # 1
          BY <4>4
        <5>3. f[i + 1] = f[i] \o seqs[i + 1]
          BY <4>2, <5>2
        <5>4. f[i + 1] = g[i + 1]
          BY <4>1, <5>1, <5>3
        <5> QED  BY <4>0, <5>4
      <4> QED  BY <4>3, <4>4
    <3> HIDE DEF S
    <3> QED  BY <1>1, <3>1, <3>2, UpTo
  <2>6. n \in S
    BY <1>1, <2>5
  <2> QED  BY <1>3, <1>5, <2>4, <2>6 DEF FlattensBy
<1> QED  BY <1>4, <1>5

(* Sequences that begin alike flatten alike as far as they do. *)
SameUpTo(s, t, n) == \A i \in 1 .. n : s[i] = t[i]

SameAt(g, h, n) == g[n] = h[n]

LEMMA FlatUnique ==
  ASSUME NEW X, NEW s \in Seq(Seq(X)), NEW t \in Seq(Seq(X)),
         NEW g, IsFlat(g, s), NEW h, IsFlat(h, t),
         NEW n \in Nat, n <= Len(s), n <= Len(t), SameUpTo(s, t, n)
  PROVE  SameAt(g, h, n)
<1> DEFINE S == {i \in 0 .. n : g[i] = h[i]}
<1>1. 0 \in S
  BY DEF IsFlat
<1>2. ASSUME NEW i \in 0 .. n - 1, i \in S PROVE i + 1 \in S
  <2>1. i + 1 \in 1 .. Len(s) /\ i + 1 \in 1 .. Len(t) /\ i + 1 \in 1 .. n
        /\ (i + 1) - 1 = i
    OBVIOUS
  <2>2. g[i + 1] = g[i] \o s[i + 1] /\ h[i + 1] = h[i] \o t[i + 1]
    BY <2>1 DEF IsFlat
  <2>3. s[i + 1] = t[i + 1] /\ g[i] = h[i]
    BY <1>2, <2>1 DEF SameUpTo
  <2>4. g[i + 1] = h[i + 1]
    BY <2>2, <2>3
  <2> QED  BY <2>1, <2>4
<1> HIDE DEF S
<1>3. n \in S
  <2>1. n \in 0 .. n
    OBVIOUS
  <2> QED  BY <1>1, <1>2, <2>1, UpTo
<1> QED  BY <1>3 DEF S, SameAt

(* What flattening returns, for any sequences, none and one more. *)
LEMMA FlattenType ==
  ASSUME NEW X, NEW seqs \in Seq(Seq(X))
  PROVE  FlattenSeq(seqs) \in Seq(X)
<1>1. PICK g \in [0 .. Len(seqs) -> Seq(X)] : FlattensBy(g, seqs)
  BY FlattenTrace
<1>2. Len(seqs) \in 0 .. Len(seqs)
  OBVIOUS
<1> QED  BY <1>1, <1>2 DEF FlattensBy

LEMMA FlattenEmpty == FlattenSeq(<<>>) = <<>>
  BY DEF FlattenSeq

(* One sequence more. *)
LEMMA FlattenAppend ==
  ASSUME NEW X, NEW s \in Seq(Seq(X)), NEW t \in Seq(Seq(X)),
         Len(t) = Len(s) + 1, \A i \in 1 .. Len(s) : s[i] = t[i]
  PROVE  FlattenSeq(t) = FlattenSeq(s) \o t[Len(t)]
<1>1. PICK g \in [0 .. Len(s) -> Seq(X)] : FlattensBy(g, s)
  BY FlattenTrace
<1>2. PICK h \in [0 .. Len(t) -> Seq(X)] : FlattensBy(h, t)
  BY FlattenTrace
<1>3. Len(s) \in Nat /\ Len(s) <= Len(s) /\ Len(s) <= Len(t)
      /\ SameUpTo(s, t, Len(s))
  BY DEF SameUpTo
<1>4. IsFlat(g, s) /\ IsFlat(h, t)
  BY <1>1, <1>2 DEF FlattensBy
<1>5. g[Len(s)] = h[Len(s)]
  <2>1. SameAt(g, h, Len(s))
    BY <1>3, <1>4, FlatUnique
  <2> QED  BY <2>1 DEF SameAt
<1>6. h[Len(t)] = h[Len(s)] \o t[Len(t)]
  <2>1. Len(t) \in 1 .. Len(t) /\ Len(t) - 1 = Len(s)
    BY <1>3
  <2> QED  BY <1>4, <2>1 DEF IsFlat
<1> QED  BY <1>1, <1>2, <1>5, <1>6 DEF FlattensBy

-----------------------------------------------------------------------------
(* The records of a file: their bytes, offsets, slots and buckets. *)

(* The records up to one of them. *)
Prefix(s, n) == SubSeq(s, 1, n)

LEMMA PrefixType ==
  ASSUME NEW X, NEW s \in Seq(X), NEW n \in 0 .. Len(s)
  PROVE  /\ Prefix(s, n) \in Seq(X) /\ Len(Prefix(s, n)) = n
         /\ \A i \in 1 .. n : Prefix(s, n)[i] = s[i]
  BY DEF Prefix

LEMMA PrefixAll ==
  ASSUME NEW X, NEW s \in Seq(X)
  PROVE  Prefix(s, Len(s)) = s /\ Prefix(s, 0) = <<>>
  BY DEF Prefix

LEMMA PrefixNext ==
  ASSUME NEW X, NEW s \in Seq(X), NEW n \in 0 .. Len(s) - 1
  PROVE  Prefix(s, n + 1) = Append(Prefix(s, n), s[n + 1])
<1>1. n \in 0 .. Len(s) /\ n + 1 \in 0 .. Len(s) /\ s[n + 1] \in X
  OBVIOUS
<1>2. /\ Prefix(s, n) \in Seq(X) /\ Len(Prefix(s, n)) = n
      /\ \A i \in 1 .. n : Prefix(s, n)[i] = s[i]
  BY <1>1, PrefixType
<1>3. /\ Prefix(s, n + 1) \in Seq(X) /\ Len(Prefix(s, n + 1)) = n + 1
      /\ \A i \in 1 .. n + 1 : Prefix(s, n + 1)[i] = s[i]
  BY <1>1, PrefixType
<1>4. /\ Append(Prefix(s, n), s[n + 1]) \in Seq(X)
      /\ Len(Append(Prefix(s, n), s[n + 1])) = n + 1
      /\ \A i \in 1 .. n : Append(Prefix(s, n), s[n + 1])[i] = s[i]
      /\ Append(Prefix(s, n), s[n + 1])[n + 1] = s[n + 1]
  BY <1>1, <1>2
<1>5. \A i \in 1 .. n + 1 : Prefix(s, n + 1)[i] = Append(Prefix(s, n), s[n + 1])[i]
  BY <1>3, <1>4
<1> QED  BY <1>3, <1>4, <1>5

LEMMA PrefixOfAppend ==
  ASSUME NEW X, NEW s \in Seq(X), NEW x \in X, NEW n \in 0 .. Len(s)
  PROVE  Prefix(Append(s, x), n) = Prefix(s, n)
<1>1. Append(s, x) \in Seq(X) /\ n \in 0 .. Len(Append(s, x))
      /\ \A i \in 1 .. n : Append(s, x)[i] = s[i]
  OBVIOUS
<1>2. /\ Prefix(s, n) \in Seq(X) /\ Len(Prefix(s, n)) = n
      /\ \A i \in 1 .. n : Prefix(s, n)[i] = s[i]
  BY PrefixType
<1>3. /\ Prefix(Append(s, x), n) \in Seq(X) /\ Len(Prefix(Append(s, x), n)) = n
      /\ \A i \in 1 .. n : Prefix(Append(s, x), n)[i] = Append(s, x)[i]
  BY <1>1, PrefixType
<1> QED  BY <1>1, <1>2, <1>3

-----------------------------------------------------------------------------
(* The bytes of the records. *)
LEMMA EncodeType ==
  ASSUME NEW r \in Record
  PROVE  /\ Encode(r) \in Seq(Bytes)
         /\ Len(Encode(r)) = SIZEOF_DLENGTH + Len(r.key) + Len(r.value)
<1>1. r.key \in Seq(Bytes) /\ r.value \in Seq(Bytes)
  BY FormatAssumption DEF Record
<1>2. /\ PackDLength(r.key, r.value) \in Seq(Bytes)
      /\ Len(PackDLength(r.key, r.value)) = SIZEOF_DLENGTH
  BY PackDLengthBytes
<1>3. \A s, u, v \in Seq(Bytes) :
        s \o u \o v \in Seq(Bytes) /\ Len(s \o u \o v) = Len(s) + Len(u) + Len(v)
  OBVIOUS
<1> QED  BY <1>1, <1>2, <1>3 DEF Encode

LEMMA EncodedType ==
  ASSUME NEW a \in Seq(Record)
  PROVE  /\ Encoded(a) \in Seq(Bytes)
         /\ [i \in DOMAIN a |-> Encode(a[i])] \in Seq(Seq(Bytes))
<1>1. \A i \in DOMAIN a : a[i] \in Record
  OBVIOUS
<1>2. \A i \in DOMAIN a : Encode(a[i]) \in Seq(Bytes)
  BY <1>1, EncodeType
<1>3. [i \in DOMAIN a |-> Encode(a[i])] \in Seq(Seq(Bytes))
  BY <1>2
<1> QED  BY <1>3, FlattenType DEF Encoded

LEMMA EncodedAppend ==
  ASSUME NEW a \in Seq(Record), NEW r \in Record
  PROVE  Encoded(Append(a, r)) = Encoded(a) \o Encode(r)
<1> DEFINE b == Append(a, r)
           s == [i \in DOMAIN a |-> Encode(a[i])]
           t == [i \in DOMAIN b |-> Encode(b[i])]
<1>1. /\ b \in Seq(Record) /\ Len(b) = Len(a) + 1 /\ Len(a) \in Nat
      /\ \A i \in 1 .. Len(a) : b[i] = a[i]
      /\ b[Len(b)] = r
  OBVIOUS
<1> HIDE DEF b
<1>2. s \in Seq(Seq(Bytes)) /\ t \in Seq(Seq(Bytes))
  BY <1>1, EncodedType
<1>3. Len(s) = Len(a) /\ Len(t) = Len(b)
  BY <1>1
<1>4. Len(t) = Len(s) + 1 /\ \A i \in 1 .. Len(s) : s[i] = t[i]
  BY <1>1, <1>3
<1>5. t[Len(t)] = Encode(r)
  BY <1>1, <1>3
<1> HIDE DEF s, t
<1>6. FlattenSeq(t) = FlattenSeq(s) \o t[Len(t)]
  BY <1>2, <1>4, FlattenAppend
<1> QED  BY <1>5, <1>6 DEF Encoded, s, t, b

LEMMA EncodedEmpty == Encoded(<<>>) = <<>>
<1>1. [i \in DOMAIN <<>> |-> Encode(<<>>[i])] = <<>>
  OBVIOUS
<1> QED  BY <1>1, FlattenEmpty DEF Encoded

(* A record that has been added keeps its place. *)
LEMMA OffsetValue ==
  ASSUME NEW a \in Seq(Record), NEW i \in 1 .. Len(a) + 1
  PROVE  /\ OffsetOf(a, i) = SIZEOF_TABLE + Len(Encoded(Prefix(a, i - 1)))
         /\ OffsetOf(a, i) \in Nat /\ OffsetOf(a, i) > 0
<1>1. i - 1 \in 0 .. Len(a)
  OBVIOUS
<1>2. Prefix(a, i - 1) \in Seq(Record)
  BY <1>1, PrefixType
<1>3. Encoded(Prefix(a, i - 1)) \in Seq(Bytes)
  BY <1>2, EncodedType
<1>4. Len(Encoded(Prefix(a, i - 1))) \in Nat
  BY <1>3
<1> QED  BY <1>4, WordSizes DEF OffsetOf, Prefix

(* A record keeps its place when another is added behind it. *)
LEMMA OffsetAppend ==
  ASSUME NEW a \in Seq(Record), NEW r \in Record, NEW i \in 1 .. Len(a) + 1
  PROVE  OffsetOf(Append(a, r), i) = OffsetOf(a, i)
<1>1. Prefix(Append(a, r), i - 1) = Prefix(a, i - 1)
  <2>1. i - 1 \in 0 .. Len(a)
    OBVIOUS
  <2> QED  BY <2>1, PrefixOfAppend
<1> QED  BY <1>1 DEF OffsetOf, Prefix

(* The next one begins where a record ends. *)
LEMMA OffsetOfNext ==
  ASSUME NEW a \in Seq(Record)
  PROVE  OffsetOf(a, Len(a) + 1) = SIZEOF_TABLE + Len(Encoded(a))
<1>1. (Len(a) + 1) - 1 = Len(a)
  OBVIOUS
<1>2. Prefix(a, Len(a)) = a
  BY PrefixAll
<1> QED  BY <1>1, <1>2 DEF OffsetOf, Prefix

(* A slot before its offset is known to fit into a word. *)
RawSlot == [hash : Words, offset : Nat]

LEMMA SlotOfType ==
  ASSUME NEW a \in Seq(Record), NEW i \in 1 .. Len(a)
  PROVE  SlotOf(a, i) \in RawSlot
<1>1. a[i] \in Record
  OBVIOUS
<1>2. Hash[a[i].key] \in Words
  BY <1>1, FormatAssumption DEF Record
<1>3. OffsetOf(a, i) \in Nat
  BY OffsetValue
<1> QED  BY <1>2, <1>3 DEF SlotOf, RawSlot

(* A record added does not move those before it.                           *)
LEMMA SlotOfAppend ==
  ASSUME NEW a \in Seq(Record), NEW r \in Record
  PROVE  /\ \A i \in 1 .. Len(a) : SlotOf(Append(a, r), i) = SlotOf(a, i)
         /\ SlotOf(Append(a, r), Len(a) + 1)
              = [hash |-> Hash[r.key], offset |-> SIZEOF_TABLE + Len(Encoded(a))]
<1>1. ASSUME NEW i \in 1 .. Len(a)
      PROVE  SlotOf(Append(a, r), i) = SlotOf(a, i)
  <2>1. Append(a, r)[i] = a[i]
    OBVIOUS
  <2>2. OffsetOf(Append(a, r), i) = OffsetOf(a, i)
    <3>1. i \in 1 .. Len(a) + 1
      OBVIOUS
    <3> QED  BY <3>1, OffsetAppend
  <2> QED  BY <2>1, <2>2 DEF SlotOf
<1>2. Append(a, r)[Len(a) + 1] = r
  OBVIOUS
<1>3. OffsetOf(Append(a, r), Len(a) + 1) = OffsetOf(a, Len(a) + 1)
  <2>1. Len(a) + 1 \in 1 .. Len(a) + 1
    OBVIOUS
  <2> QED  BY <2>1, OffsetAppend
<1>4. OffsetOf(a, Len(a) + 1) = SIZEOF_TABLE + Len(Encoded(a))
  BY OffsetOfNext
<1> QED  BY <1>1, <1>2, <1>3, <1>4 DEF SlotOf

(* What a record adds to a bucket. *)
InBucket(a, i, j) ==
  IF Bucket(Hash[a[i].key]) = j THEN <<SlotOf(a, i)>> ELSE <<>>

(* The bucket grows by a slot when the record's hash belongs to it. *)
LEMMA BucketOfType ==
  ASSUME NEW a \in Seq(Record), NEW j
  PROVE  /\ BucketOf(a, j) = FlattenSeq([i \in DOMAIN a |-> InBucket(a, i, j)])
         /\ [i \in DOMAIN a |-> InBucket(a, i, j)] \in Seq(Seq(RawSlot))
         /\ BucketOf(a, j) \in Seq(RawSlot)
<1>1. BucketOf(a, j) = FlattenSeq([i \in DOMAIN a |-> InBucket(a, i, j)])
  BY DEF BucketOf, InBucket
<1>2. \A i \in DOMAIN a : InBucket(a, i, j) \in Seq(RawSlot)
  <2> SUFFICES ASSUME NEW i \in DOMAIN a PROVE InBucket(a, i, j) \in Seq(RawSlot)
    OBVIOUS
  <2>1. SlotOf(a, i) \in RawSlot
    BY SlotOfType
  <2> QED  BY <2>1 DEF InBucket
<1>3. [i \in DOMAIN a |-> InBucket(a, i, j)] \in Seq(Seq(RawSlot))
  BY <1>2
<1> QED  BY <1>1, <1>3, FlattenType

(* A record added appends its slot to its own bucket.                      *)
LEMMA BucketOfAppend ==
  ASSUME NEW a \in Seq(Record), NEW r \in Record, NEW j
  PROVE  BucketOf(Append(a, r), j) =
           BucketOf(a, j) \o InBucket(Append(a, r), Len(a) + 1, j)
<1> DEFINE b == Append(a, r)
           s == [i \in DOMAIN a |-> InBucket(a, i, j)]
           t == [i \in DOMAIN b |-> InBucket(b, i, j)]
<1>1. /\ b \in Seq(Record) /\ Len(b) = Len(a) + 1 /\ Len(a) \in Nat
      /\ \A i \in 1 .. Len(a) : b[i] = a[i]
  OBVIOUS
<1>2. \A i \in 1 .. Len(a) : SlotOf(b, i) = SlotOf(a, i)
  BY SlotOfAppend
<1> HIDE DEF b
<1>3. /\ s \in Seq(Seq(RawSlot)) /\ BucketOf(a, j) = FlattenSeq(s)
      /\ t \in Seq(Seq(RawSlot)) /\ BucketOf(b, j) = FlattenSeq(t)
  BY <1>1, BucketOfType
<1>4. Len(s) = Len(a) /\ Len(t) = Len(b)
  BY <1>1
<1>5. \A i \in 1 .. Len(s) : s[i] = t[i]
  <2> SUFFICES ASSUME NEW i \in 1 .. Len(a) PROVE s[i] = t[i]
    BY <1>4
  <2>1. i \in DOMAIN a /\ i \in DOMAIN b
    BY <1>1
  <2>2. InBucket(a, i, j) = InBucket(b, i, j)
    BY <1>1, <1>2 DEF InBucket
  <2> QED  BY <2>1, <2>2
<1>6. t[Len(t)] = InBucket(b, Len(a) + 1, j)
  BY <1>1, <1>4
<1> HIDE DEF s, t
<1>7. FlattenSeq(t) = FlattenSeq(s) \o t[Len(t)]
  BY <1>1, <1>3, <1>4, <1>5, FlattenAppend
<1> QED  BY <1>3, <1>6, <1>7 DEF b

LEMMA BucketOfEmpty == \A j : BucketOf(<<>>, j) = <<>>
<1> SUFFICES ASSUME NEW j PROVE BucketOf(<<>>, j) = <<>>
  OBVIOUS
<1>1. [i \in DOMAIN <<>> |-> InBucket(<<>>, i, j)] = <<>>
  OBVIOUS
<1>2. <<>> \in Seq(Record)
  OBVIOUS
<1>3. PICK a \in Seq(Record) : a = <<>>
  BY <1>2
<1>4. BucketOf(a, j) = FlattenSeq([i \in DOMAIN a |-> InBucket(a, i, j)])
  BY BucketOfType
<1>5. [i \in DOMAIN a |-> InBucket(a, i, j)] = <<>>
  BY <1>3
<1> QED  BY <1>3, <1>4, <1>5, FlattenEmpty

(* The next record, in the bucket of its hash ... *)
LEMMA BucketOfOwn ==
  ASSUME NEW a \in Seq(Record), NEW i \in 1 .. Len(a),
         NEW j, j = Bucket(Hash[a[i].key])
  PROVE  BucketOf(Prefix(a, i), j) = Append(BucketOf(Prefix(a, i - 1), j), SlotOf(a, i))
<1>1. i - 1 \in 0 .. Len(a) - 1 /\ (i - 1) + 1 = i /\ a[i] \in Record
  OBVIOUS
<1>2. /\ Prefix(a, i - 1) \in Seq(Record) /\ Len(Prefix(a, i - 1)) = i - 1
  <2>1. i - 1 \in 0 .. Len(a)
    BY <1>1
  <2> QED  BY <2>1, PrefixType
<1> DEFINE p == Prefix(a, i - 1)
<1>3. Prefix(a, i) = Append(p, a[i])
  BY <1>1, PrefixNext
<1>4. BucketOf(Append(p, a[i]), j) = BucketOf(p, j) \o InBucket(Append(p, a[i]), Len(p) + 1, j)
  BY <1>1, <1>2, BucketOfAppend
<1>5. Append(p, a[i])[Len(p) + 1] = a[i]
  BY <1>1, <1>2
<1>6. InBucket(Append(p, a[i]), Len(p) + 1, j) = <<SlotOf(Append(p, a[i]), Len(p) + 1)>>
  BY <1>5 DEF InBucket
<1>7. SlotOf(Append(p, a[i]), Len(p) + 1)
        = [hash |-> Hash[a[i].key], offset |-> SIZEOF_TABLE + Len(Encoded(p))]
  BY <1>1, <1>2, SlotOfAppend
<1>8. OffsetOf(a, i) = SIZEOF_TABLE + Len(Encoded(p))
  <2>1. i \in 1 .. Len(a) + 1
    OBVIOUS
  <2> QED  BY <2>1, OffsetValue
<1>9. SlotOf(Append(p, a[i]), Len(p) + 1) = SlotOf(a, i)
  BY <1>7, <1>8 DEF SlotOf
<1>10. BucketOf(p, j) \in Seq(RawSlot) /\ SlotOf(a, i) \in RawSlot
  BY <1>2, BucketOfType, SlotOfType
<1> HIDE DEF p
<1>11. BucketOf(p, j) \o <<SlotOf(a, i)>> = Append(BucketOf(p, j), SlotOf(a, i))
  BY <1>10
<1> QED  BY <1>3, <1>4, <1>6, <1>9, <1>11 DEF p

(* ... and the others. *)
LEMMA BucketOfOther ==
  ASSUME NEW a \in Seq(Record), NEW i \in 1 .. Len(a),
         NEW j, j # Bucket(Hash[a[i].key])
  PROVE  BucketOf(Prefix(a, i), j) = BucketOf(Prefix(a, i - 1), j)
<1>1. i - 1 \in 0 .. Len(a) - 1 /\ (i - 1) + 1 = i /\ a[i] \in Record
  OBVIOUS
<1>2. /\ Prefix(a, i - 1) \in Seq(Record) /\ Len(Prefix(a, i - 1)) = i - 1
  <2>1. i - 1 \in 0 .. Len(a)
    BY <1>1
  <2> QED  BY <2>1, PrefixType
<1> DEFINE p == Prefix(a, i - 1)
<1>3. Prefix(a, i) = Append(p, a[i])
  BY <1>1, PrefixNext
<1>4. BucketOf(Append(p, a[i]), j) = BucketOf(p, j) \o InBucket(Append(p, a[i]), Len(p) + 1, j)
  BY <1>1, <1>2, BucketOfAppend
<1>5. Append(p, a[i])[Len(p) + 1] = a[i]
  BY <1>1, <1>2
<1>6. InBucket(Append(p, a[i]), Len(p) + 1, j) = <<>>
  BY <1>5 DEF InBucket
<1>7. BucketOf(p, j) \in Seq(RawSlot)
  BY <1>2, BucketOfType
<1> HIDE DEF p
<1>8. BucketOf(p, j) \o <<>> = BucketOf(p, j)
  BY <1>7
<1> QED  BY <1>3, <1>4, <1>6, <1>8 DEF p

(* t begins with s. *)
Extends(t, s) == Len(s) <= Len(t) /\ \A m \in 1 .. Len(s) : t[m] = s[m]

(* A bucket keeps what is in it. *)
LEMMA BucketGrows ==
  ASSUME NEW a \in Seq(Record), NEW i \in 0 .. Len(a), NEW j
  PROVE  Extends(BucketOf(a, j), BucketOf(Prefix(a, i), j))
<1> DEFINE n == Len(a) - i
           B(k) == BucketOf(Prefix(a, k), j)
           S == {k \in 0 .. n : Extends(B(i + k), B(i))}
<1>1. n \in Nat /\ i \in Nat /\ n \in 0 .. n
  OBVIOUS
<1>2. ASSUME NEW k \in 0 .. Len(a) PROVE B(k) \in Seq(RawSlot)
  <2>1. Prefix(a, k) \in Seq(Record)
    BY PrefixType
  <2> QED  BY <2>1, BucketOfType
<1>3. 0 \in S
  <2>1. Extends(B(i), B(i))
    BY <1>2 DEF Extends
  <2> HIDE DEF B
  <2> QED  BY <1>1, <2>1
<1>4. ASSUME NEW k \in 0 .. n - 1, k \in S PROVE k + 1 \in S
  <2>1. /\ i + k \in 0 .. Len(a) /\ i + (k + 1) \in 1 .. Len(a)
        /\ (i + (k + 1)) - 1 = i + k /\ k + 1 \in 0 .. n
        /\ i + (k + 1) \in 0 .. Len(a)
    OBVIOUS
  <2>2. B(i + k) \in Seq(RawSlot) /\ B(i + (k + 1)) \in Seq(RawSlot)
        /\ B(i) \in Seq(RawSlot)
    BY <1>2, <2>1
  <2>3. Extends(B(i + (k + 1)), B(i + k))
    <3> DEFINE q == i + (k + 1)
    <3>1. CASE j = Bucket(Hash[a[q].key])
      <4>1. B(q) = Append(B(q - 1), SlotOf(a, q))
        BY <2>1, <3>1, BucketOfOwn
      <4>2. SlotOf(a, q) \in RawSlot
        BY <2>1, SlotOfType
      <4> HIDE DEF B
      <4>3. B(q) = Append(B(i + k), SlotOf(a, q))
        BY <2>1, <4>1
      <4> QED  BY <2>2, <4>2, <4>3 DEF Extends
    <3>2. CASE j # Bucket(Hash[a[q].key])
      <4>1. B(q) = B(q - 1)
        BY <2>1, <3>2, BucketOfOther
      <4> HIDE DEF B
      <4>2. B(q) = B(i + k)
        BY <2>1, <4>1
      <4> QED  BY <2>2, <4>2 DEF Extends
    <3> QED  BY <3>1, <3>2
  <2>4. Extends(B(i + k), B(i))
    BY <1>4
  <2> HIDE DEF B
  <2>5. Extends(B(i + (k + 1)), B(i))
    <3>1. \A s, t, u \in Seq(RawSlot) : Extends(s, t) /\ Extends(t, u) => Extends(s, u)
      BY DEF Extends
    <3> QED  BY <2>2, <2>3, <2>4, <3>1
  <2> QED  BY <2>1, <2>5
<1> HIDE DEF S
<1>5. n \in S
  BY <1>1, <1>3, <1>4, UpTo
<1>6. Extends(B(i + n), B(i))
  BY <1>5 DEF S
<1>7. i + n = Len(a)
  OBVIOUS
<1>8. B(i + n) = BucketOf(a, j)
  BY <1>7, PrefixAll
<1> QED  BY <1>6, <1>8

(* A record's slot is in its bucket, behind those of the earlier ones. *)
LEMMA BucketPlace ==
  ASSUME NEW a \in Seq(Record), NEW i \in 1 .. Len(a),
         NEW j, j = Bucket(Hash[a[i].key])
  PROVE  /\ Len(BucketOf(Prefix(a, i - 1), j)) \in Nat
         /\ Len(BucketOf(Prefix(a, i), j)) = Len(BucketOf(Prefix(a, i - 1), j)) + 1
         /\ Len(BucketOf(Prefix(a, i), j)) \in 1 .. Len(BucketOf(a, j))
         /\ BucketOf(a, j)[Len(BucketOf(Prefix(a, i), j))] = SlotOf(a, i)
<1>1. i - 1 \in 0 .. Len(a) /\ i \in 0 .. Len(a)
  OBVIOUS
<1>2. Prefix(a, i - 1) \in Seq(Record)
  BY <1>1, PrefixType
<1>3. BucketOf(Prefix(a, i - 1), j) \in Seq(RawSlot) /\ BucketOf(a, j) \in Seq(RawSlot)
      /\ SlotOf(a, i) \in RawSlot
  BY <1>2, BucketOfType, SlotOfType
<1>4. BucketOf(Prefix(a, i), j) = Append(BucketOf(Prefix(a, i - 1), j), SlotOf(a, i))
  BY BucketOfOwn
<1>5. Extends(BucketOf(a, j), BucketOf(Prefix(a, i), j))
  BY <1>1, BucketGrows
<1>6. \A s, t \in Seq(RawSlot), x \in RawSlot :
        Extends(t, Append(s, x)) =>
          /\ Len(s) \in Nat
          /\ Len(Append(s, x)) = Len(s) + 1
          /\ Len(Append(s, x)) \in 1 .. Len(t)
          /\ t[Len(Append(s, x))] = x
  BY DEF Extends
<1> QED  BY <1>3, <1>4, <1>5, <1>6

-----------------------------------------------------------------------------
(* One bucket behind the other. *)
LEMMA BucketsOfType ==
  ASSUME NEW a \in Seq(Record), NEW n \in Nat
  PROVE  /\ [t \in 1 .. n |-> BucketOf(a, t - 1)] \in Seq(Seq(RawSlot))
         /\ BucketsOf(a, n) \in Seq(RawSlot)
<1>1. \A t \in 1 .. n : BucketOf(a, t - 1) \in Seq(RawSlot)
  BY BucketOfType
<1>2. [t \in 1 .. n |-> BucketOf(a, t - 1)] \in Seq(Seq(RawSlot))
  BY <1>1
<1> QED  BY <1>2, FlattenType DEF BucketsOf

LEMMA BucketsOfNone == \A a : BucketsOf(a, 0) = <<>>
<1> SUFFICES ASSUME NEW a PROVE BucketsOf(a, 0) = <<>>
  OBVIOUS
<1>1. [t \in 1 .. 0 |-> BucketOf(a, t - 1)] = <<>>
  OBVIOUS
<1> QED  BY <1>1, FlattenEmpty DEF BucketsOf

LEMMA BucketsOfNext ==
  ASSUME NEW a \in Seq(Record), NEW n \in Nat
  PROVE  BucketsOf(a, n + 1) = BucketsOf(a, n) \o BucketOf(a, n)
<1> DEFINE s == [t \in 1 .. n |-> BucketOf(a, t - 1)]
           u == [t \in 1 .. n + 1 |-> BucketOf(a, t - 1)]
<1>1. s \in Seq(Seq(RawSlot)) /\ u \in Seq(Seq(RawSlot))
  <2>1. n + 1 \in Nat
    OBVIOUS
  <2>2. s \in Seq(Seq(RawSlot))
    BY BucketsOfType
  <2>3. u \in Seq(Seq(RawSlot))
    BY <2>1, BucketsOfType
  <2> QED  BY <2>2, <2>3
<1>2. /\ Len(u) = Len(s) + 1 /\ \A i \in 1 .. Len(s) : s[i] = u[i]
      /\ u[Len(u)] = BucketOf(a, n)
  OBVIOUS
<1> HIDE DEF s, u
<1>3. FlattenSeq(u) = FlattenSeq(s) \o u[Len(u)]
  BY <1>1, <1>2, FlattenAppend
<1> QED  BY <1>2, <1>3 DEF BucketsOf, s, u

(* Where a bucket begins among all of them. *)
Base(a, n) == Len(BucketsOf(a, n))

LEMMA BaseNext ==
  ASSUME NEW a \in Seq(Record), NEW n \in Nat
  PROVE  /\ Base(a, n) \in Nat
         /\ Len(BucketOf(a, n)) \in Nat
         /\ Base(a, n + 1) = Base(a, n) + Len(BucketOf(a, n))
         /\ Base(a, 0) = 0
<1>1. BucketsOf(a, n) \in Seq(RawSlot) /\ BucketOf(a, n) \in Seq(RawSlot)
  BY BucketsOfType, BucketOfType
<1>2. BucketsOf(a, n + 1) = BucketsOf(a, n) \o BucketOf(a, n)
  BY BucketsOfNext
<1>3. BucketsOf(a, 0) = <<>>
  BY BucketsOfNone
<1> QED  BY <1>1, <1>2, <1>3 DEF Base

LEMMA BaseGrows ==
  ASSUME NEW a \in Seq(Record), NEW b \in Nat, NEW n \in Nat, b < n
  PROVE  Base(a, b) + Len(BucketOf(a, b)) <= Base(a, n)
<1> DEFINE S == {k \in 0 .. n - (b + 1) :
                   Base(a, b) + Len(BucketOf(a, b)) <= Base(a, (b + 1) + k)}
<1>1. n - (b + 1) \in Nat /\ n - (b + 1) \in 0 .. n - (b + 1)
      /\ (b + 1) + (n - (b + 1)) = n /\ (b + 1) + 0 = b + 1
  OBVIOUS
<1>2. Base(a, b + 1) = Base(a, b) + Len(BucketOf(a, b)) /\ Base(a, b + 1) \in Nat
  <2>1. b + 1 \in Nat
    OBVIOUS
  <2> QED  BY <2>1, BaseNext
<1>3. 0 \in S
  BY <1>1, <1>2
<1>4. ASSUME NEW k \in 0 .. (n - (b + 1)) - 1, k \in S PROVE k + 1 \in S
  <2>1. (b + 1) + k \in Nat /\ ((b + 1) + k) + 1 = (b + 1) + (k + 1)
        /\ k + 1 \in 0 .. n - (b + 1) /\ (b + 1) + (k + 1) \in Nat
    OBVIOUS
  <2>2. /\ Base(a, (b + 1) + k) \in Nat /\ Len(BucketOf(a, (b + 1) + k)) \in Nat
        /\ Base(a, (b + 1) + (k + 1))
             = Base(a, (b + 1) + k) + Len(BucketOf(a, (b + 1) + k))
    BY <2>1, BaseNext
  <2>3. Base(a, b) + Len(BucketOf(a, b)) <= Base(a, (b + 1) + k)
    BY <1>4
  <2>4. Base(a, b) \in Nat /\ Len(BucketOf(a, b)) \in Nat
    BY BaseNext
  <2> QED  BY <2>1, <2>2, <2>3, <2>4
<1> HIDE DEF S
<1>5. n - (b + 1) \in S
  BY <1>1, <1>3, <1>4, UpTo
<1> QED  BY <1>1, <1>5 DEF S

(* What stands where. *)
HoldsBucket(s, a, b) ==
  \A m \in 1 .. Len(BucketOf(a, b)) : s[Base(a, b) + m] = BucketOf(a, b)[m]

LEMMA BucketsOfAt ==
  ASSUME NEW a \in Seq(Record), NEW n \in Nat
  PROVE  \A b \in 0 .. n - 1 : HoldsBucket(BucketsOf(a, n), a, b)
<1> DEFINE Good(k) == \A b \in 0 .. k - 1 : HoldsBucket(BucketsOf(a, k), a, b)
           S == {k \in 0 .. n : Good(k)}
<1>1. 0 \in S
  OBVIOUS
<1>2. ASSUME NEW k \in 0 .. n - 1, k \in S PROVE k + 1 \in S
  <2>1. k \in Nat /\ k + 1 \in 0 .. n
    OBVIOUS
  <2>2. /\ BucketsOf(a, k) \in Seq(RawSlot) /\ BucketOf(a, k) \in Seq(RawSlot)
        /\ BucketsOf(a, k + 1) = BucketsOf(a, k) \o BucketOf(a, k)
    BY <2>1, BucketsOfType, BucketOfType, BucketsOfNext
  <2>3. HoldsBucket(BucketsOf(a, k + 1), a, k)
    BY <2>2 DEF HoldsBucket, Base
  <2>4. ASSUME NEW b \in 0 .. k - 1 PROVE HoldsBucket(BucketsOf(a, k + 1), a, b)
    <3>1. HoldsBucket(BucketsOf(a, k), a, b)
      BY <1>2, <2>4
    <3>2. Base(a, b) + Len(BucketOf(a, b)) <= Base(a, k)
      BY <2>1, BaseGrows
    <3>3. Base(a, b) \in Nat /\ Len(BucketOf(a, b)) \in Nat
      BY BaseNext
    <3> SUFFICES ASSUME NEW m \in 1 .. Len(BucketOf(a, b))
                 PROVE  BucketsOf(a, k + 1)[Base(a, b) + m] = BucketOf(a, b)[m]
      BY DEF HoldsBucket
    <3>4. Base(a, b) + m \in 1 .. Len(BucketsOf(a, k))
      BY <3>2, <3>3 DEF Base
    <3>5. BucketsOf(a, k + 1)[Base(a, b) + m] = BucketsOf(a, k)[Base(a, b) + m]
      BY <2>2, <3>4
    <3> QED  BY <3>1, <3>5 DEF HoldsBucket
  <2>5. Good(k + 1)
    <3> SUFFICES ASSUME NEW b \in 0 .. (k + 1) - 1
                 PROVE  HoldsBucket(BucketsOf(a, k + 1), a, b)
      OBVIOUS
    <3>1. b = k \/ b \in 0 .. k - 1
      OBVIOUS
    <3> QED  BY <2>3, <2>4, <3>1
  <2> QED  BY <2>1, <2>5
<1> HIDE DEF S
<1>3. n \in S
  <2>1. n \in 0 .. n
    OBVIOUS
  <2> QED  BY <1>1, <1>2, <2>1, UpTo
<1> QED  BY <1>3 DEF S

(* Every place among the buckets is that of a record. *)
LEMMA EveryPlace ==
  ASSUME NEW a \in Seq(Record), NEW n \in Nat, NEW p \in 1 .. Base(a, n)
  PROVE  \E b \in 0 .. n - 1 : \E m \in 1 .. Len(BucketOf(a, b)) : p = Base(a, b) + m
<1> DEFINE T == {k \in 0 .. n : p <= Base(a, k)}
<1>1. T \subseteq Nat /\ n \in T
  OBVIOUS
<1>2. PICK k \in T : \A i \in T : k <= i
  <2> HIDE DEF T
  <2> QED  BY <1>1, LeastNat
<1>3. Base(a, 0) = 0
  BY BaseNext
<1>4. k # 0 /\ k \in 1 .. n
  BY <1>3
<1>5. k - 1 \in 0 .. n - 1 /\ (k - 1) + 1 = k /\ k - 1 \in Nat
  BY <1>4
<1>6. /\ Base(a, k - 1) \in Nat /\ Len(BucketOf(a, k - 1)) \in Nat
      /\ Base(a, k) = Base(a, k - 1) + Len(BucketOf(a, k - 1))
  BY <1>5, BaseNext
<1>7. ~(p <= Base(a, k - 1))
  <2>1. k - 1 \notin T
    BY <1>2, <1>5
  <2> QED  BY <1>5, <2>1
<1>8. p <= Base(a, k)
  OBVIOUS
<1>9. p - Base(a, k - 1) \in 1 .. Len(BucketOf(a, k - 1))
      /\ p = Base(a, k - 1) + (p - Base(a, k - 1))
  BY <1>6, <1>7, <1>8
<1> QED  BY <1>5, <1>9

(* So there is only one sequence that holds every bucket at its place. *)
LEMMA SortedUnique ==
  ASSUME NEW a \in Seq(Record), NEW n \in Nat, NEW s \in Seq(RawSlot),
         Len(s) = Base(a, n), \A b \in 0 .. n - 1 : HoldsBucket(s, a, b)
  PROVE  s = BucketsOf(a, n)
<1>1. BucketsOf(a, n) \in Seq(RawSlot) /\ Len(BucketsOf(a, n)) = Base(a, n)
  BY BucketsOfType DEF Base
<1>2. \A b \in 0 .. n - 1 : HoldsBucket(BucketsOf(a, n), a, b)
  BY BucketsOfAt
<1>3. ASSUME NEW p \in 1 .. Base(a, n) PROVE s[p] = BucketsOf(a, n)[p]
  <2>1. PICK b \in 0 .. n - 1 : \E m \in 1 .. Len(BucketOf(a, b)) : p = Base(a, b) + m
    BY EveryPlace
  <2>2. PICK m \in 1 .. Len(BucketOf(a, b)) : p = Base(a, b) + m
    BY <2>1
  <2> QED  BY <1>2, <2>2 DEF HoldsBucket
<1> QED  BY <1>1, <1>3

(* Two records never share a place. *)
LEMMA PlacesDiffer ==
  ASSUME NEW a \in Seq(Record), NEW b \in Nat, NEW c \in Nat,
         NEW m \in 1 .. Len(BucketOf(a, b)), NEW k \in 1 .. Len(BucketOf(a, c)),
         Base(a, b) + m = Base(a, c) + k
  PROVE  b = c /\ m = k
<1>1. /\ Base(a, b) \in Nat /\ Len(BucketOf(a, b)) \in Nat
      /\ Base(a, c) \in Nat /\ Len(BucketOf(a, c)) \in Nat
  BY BaseNext
<1>2. ~(b < c)
  <2> SUFFICES ASSUME b < c PROVE FALSE
    OBVIOUS
  <2>1. Base(a, b) + Len(BucketOf(a, b)) <= Base(a, c)
    BY BaseGrows
  <2> QED  BY <1>1, <2>1
<1>3. ~(c < b)
  <2> SUFFICES ASSUME c < b PROVE FALSE
    OBVIOUS
  <2>1. Base(a, c) + Len(BucketOf(a, c)) <= Base(a, b)
    BY BaseGrows
  <2> QED  BY <1>1, <2>1
<1>4. b = c
  BY <1>2, <1>3
<1> QED  BY <1>1, <1>4

-----------------------------------------------------------------------------
(* The buckets have all of the records. *)
LEMMA HashBucket ==
  ASSUME NEW r \in Record
  PROVE  Bucket(Hash[r.key]) \in Buckets
<1>1. Hash[r.key] \in Words
  BY FormatAssumption DEF Record
<1>2. \A h \in Nat : h % TABLES \in 0 .. TABLES - 1
  BY FormatAssumption
<1> QED  BY <1>1, <1>2, WordSizes DEF Bucket, Buckets, Words

(* The slots of a bucket lie behind those of the buckets before it.        *)
LEMMA BaseOfRecord ==
  ASSUME NEW a \in Seq(Record), NEW i \in 1 .. Len(a), NEW n \in Nat
  PROVE  Base(Prefix(a, i), n)
           = Base(Prefix(a, i - 1), n) + (IF Bucket(Hash[a[i].key]) < n THEN 1 ELSE 0)
<1> DEFINE own == Bucket(Hash[a[i].key])
           p == Prefix(a, i - 1)
           q == Prefix(a, i)
           S == {k \in 0 .. n : Base(q, k) = Base(p, k) + (IF own < k THEN 1 ELSE 0)}
<1>1. i - 1 \in 0 .. Len(a) /\ i \in 0 .. Len(a) /\ a[i] \in Record
  OBVIOUS
<1>2. p \in Seq(Record) /\ q \in Seq(Record) /\ own \in Nat
  <2>1. own \in Buckets /\ TABLES \in Nat
    BY <1>1, HashBucket, FormatAssumption
  <2> QED  BY <1>1, <2>1, PrefixType DEF Buckets
<1>3. 0 \in S
  <2>1. Base(p, 0) = 0 /\ Base(q, 0) = 0
    BY <1>2, BaseNext
  <2> HIDE DEF p, q, own
  <2> QED  BY <1>2, <2>1
<1>4. ASSUME NEW k \in 0 .. n - 1, k \in S PROVE k + 1 \in S
  <2>1. k \in Nat /\ k + 1 \in 0 .. n
    OBVIOUS
  <2>2. /\ Base(p, k) \in Nat /\ Len(BucketOf(p, k)) \in Nat
        /\ Base(p, k + 1) = Base(p, k) + Len(BucketOf(p, k))
        /\ Base(q, k) \in Nat /\ Len(BucketOf(q, k)) \in Nat
        /\ Base(q, k + 1) = Base(q, k) + Len(BucketOf(q, k))
    BY <1>2, <2>1, BaseNext
  <2>3. Base(q, k) = Base(p, k) + (IF own < k THEN 1 ELSE 0)
    BY <1>4
  <2>4. Len(BucketOf(q, k)) = Len(BucketOf(p, k)) + (IF own = k THEN 1 ELSE 0)
    <3>1. CASE k = own
      <4>1. Len(BucketOf(q, k)) = Len(BucketOf(p, k)) + 1
        BY <3>1, BucketPlace
      <4> QED  BY <3>1, <4>1
    <3>2. CASE k # own
      <4>1. BucketOf(q, k) = BucketOf(p, k)
        BY <3>2, BucketOfOther
      <4> HIDE DEF p, q, own
      <4> QED  BY <2>2, <3>2, <4>1
    <3> QED  BY <3>1, <3>2
  <2> HIDE DEF p, q, own
  <2> QED  BY <1>2, <2>1, <2>2, <2>3, <2>4
<1> HIDE DEF S
<1>5. n \in S
  <2>1. n \in 0 .. n
    OBVIOUS
  <2> QED  BY <1>3, <1>4, <2>1, UpTo
<1> QED  BY <1>5 DEF S

(* There are as many places as records. *)
LEMMA BaseTotal ==
  ASSUME NEW a \in Seq(Record)
  PROVE  Base(a, TABLES) = Len(a)
<1> DEFINE n == Len(a)
           S == {i \in 0 .. n : Base(Prefix(a, i), TABLES) = i}
<1>1. TABLES \in Nat /\ n \in Nat
  BY FormatAssumption
<1>2. 0 \in S
  <2>1. Prefix(a, 0) = <<>>
    BY PrefixAll
  <2>2. BucketsOf(<<>>, TABLES) = <<>>
    <3> DEFINE U == {k \in 0 .. TABLES : Base(<<>>, k) = 0}
    <3>0. <<>> \in Seq(Record)
      OBVIOUS
    <3>1. PICK e \in Seq(Record) : e = <<>>
      BY <3>0
    <3>2. 0 \in U
      <4>1. Base(e, 0) = 0
        BY BaseNext
      <4>2. 0 \in 0 .. TABLES
        BY <1>1
      <4> QED  BY <3>1, <4>1, <4>2
    <3>3. ASSUME NEW k \in 0 .. TABLES - 1, k \in U PROVE k + 1 \in U
      <4>1. k \in Nat /\ k + 1 \in 0 .. TABLES
        BY <1>1
      <4>2. Base(e, k + 1) = Base(e, k) + Len(BucketOf(e, k))
        BY <4>1, BaseNext
      <4>3. BucketOf(e, k) = <<>>
        BY <3>1, BucketOfEmpty
      <4> QED  BY <3>1, <3>3, <4>1, <4>2, <4>3
    <3> HIDE DEF U
    <3>4. TABLES \in U
      <4>1. TABLES \in 0 .. TABLES
        BY <1>1
      <4> QED  BY <1>1, <3>2, <3>3, <4>1, UpTo
    <3>5. Base(e, TABLES) = 0
      BY <3>1, <3>4 DEF U
    <3>6. BucketsOf(e, TABLES) \in Seq(RawSlot)
      BY <1>1, BucketsOfType
    <3> QED  BY <3>1, <3>5, <3>6 DEF Base
  <2> QED  BY <1>1, <2>1, <2>2 DEF Base
<1>3. ASSUME NEW i \in 0 .. n - 1, i \in S PROVE i + 1 \in S
  <2>1. i + 1 \in 1 .. Len(a) /\ (i + 1) - 1 = i /\ a[i + 1] \in Record /\ i + 1 \in 0 .. n
    OBVIOUS
  <2>2. Bucket(Hash[a[i + 1].key]) < TABLES
    <3>1. Bucket(Hash[a[i + 1].key]) \in Buckets
      BY <2>1, HashBucket
    <3> QED  BY <1>1, <3>1 DEF Buckets
  <2>3. Base(Prefix(a, i + 1), TABLES)
          = Base(Prefix(a, (i + 1) - 1), TABLES)
              + (IF Bucket(Hash[a[i + 1].key]) < TABLES THEN 1 ELSE 0)
    BY <1>1, <2>1, BaseOfRecord
  <2>4. Base(Prefix(a, i + 1), TABLES) = Base(Prefix(a, i), TABLES) + 1
    BY <2>1, <2>2, <2>3
  <2> QED  BY <1>3, <2>1, <2>4
<1> HIDE DEF S
<1>4. n \in S
  <2>1. n \in 0 .. n
    BY <1>1
  <2> QED  BY <1>1, <1>2, <1>3, <2>1, UpTo
<1> QED  BY <1>4, PrefixAll DEF S

(* Concatenation, as the steps below need it. *)
LEMMA Concat ==
  \A s, t, u \in Seq(Bytes) : /\ s \o t \in Seq(Bytes)
                              /\ Len(s \o t) = Len(s) + Len(t)
                              /\ (s \o t) \o u = s \o (t \o u)
                              /\ s \o <<>> = s /\ <<>> \o s = s
<1> SUFFICES ASSUME NEW s \in Seq(Bytes), NEW t \in Seq(Bytes), NEW u \in Seq(Bytes)
             PROVE  /\ s \o t \in Seq(Bytes)
                    /\ Len(s \o t) = Len(s) + Len(t)
                    /\ (s \o t) \o u = s \o (t \o u)
                    /\ s \o <<>> = s /\ <<>> \o s = s
  OBVIOUS
<1>1. s \o t \in Seq(Bytes) /\ Len(s \o t) = Len(s) + Len(t)
  OBVIOUS
<1>2. (s \o t) \o u = s \o (t \o u)
  OBVIOUS
<1>3. s \o <<>> = s /\ <<>> \o s = s
  OBVIOUS
<1> QED  BY <1>1, <1>2, <1>3

LEMMA ConcatAssoc ==
  ASSUME NEW s \in Seq(Bytes), NEW t \in Seq(Bytes), NEW u \in Seq(Bytes)
  PROVE  s \o (t \o u) = (s \o t) \o u
  OBVIOUS

(* Writing a table slot by slot is writing its bytes. *)
LEMMA PackSlotBytes ==
  ASSUME NEW slot \in RawSlot
  PROVE  PackSlot(slot) \in Seq(Bytes) /\ Len(PackSlot(slot)) = SIZEOF_SLOT
<1>1. slot.hash \in Nat /\ slot.offset \in Nat
  BY WordSizes DEF RawSlot, Words
<1>2. /\ Pack(slot.hash) \in Seq(Bytes) /\ Len(Pack(slot.hash)) = WORD
      /\ Pack(slot.offset) \in Seq(Bytes) /\ Len(Pack(slot.offset)) = WORD
  BY <1>1, PackBytes
<1> QED  BY <1>2 DEF PackSlot, SIZEOF_SLOT

LEMMA PackedSlots ==
  ASSUME NEW slots \in Seq(RawSlot)
  PROVE  /\ [i \in DOMAIN slots |-> PackSlot(slots[i])] \in Seq(Seq(Bytes))
         /\ PackTable(slots) \in Seq(Bytes)
<1>1. \A i \in DOMAIN slots : slots[i] \in RawSlot
  OBVIOUS
<1>2. \A i \in DOMAIN slots : PackSlot(slots[i]) \in Seq(Bytes)
  BY <1>1, PackSlotBytes
<1>3. [i \in DOMAIN slots |-> PackSlot(slots[i])] \in Seq(Seq(Bytes))
  BY <1>2
<1> QED  BY <1>3, FlattenType DEF PackTable

(* A slot table while it is filled. *)
SlotArray(n) == [0 .. 2 * n - 1 -> RawSlot]

LEMMA PlaceSlotType ==
  ASSUME NEW n \in Nat, NEW slots \in SlotArray(n), NEW slot \in RawSlot
  PROVE  PlaceSlot(slots, slot) \in SlotArray(n)
<1>1. \A at : [slots EXCEPT ![at] = slot] \in SlotArray(n)
  BY DEF SlotArray
<1> QED  BY <1>1 DEF PlaceSlot

(* ... slot by slot. *)
Fills(g, slots) ==
  /\ g[0] = [i \in 0 .. 2 * Len(slots) - 1 |-> FreeSlot]
  /\ \A i \in 1 .. Len(slots) : g[i] = PlaceSlot(g[i - 1], slots[i])
  /\ FillTable(slots) = g[Len(slots)]

(* FillTable places one slot of the bucket after the other.                *)
LEMMA FillTableTrace ==
  ASSUME NEW slots \in Seq(RawSlot)
  PROVE  \E g \in [0 .. Len(slots) -> SlotArray(Len(slots))] : Fills(g, slots)
<1> DEFINE n == Len(slots)
           T == SlotArray(n)
<1>0. PICK base \in T : base = [i \in 0 .. 2 * Len(slots) - 1 |-> FreeSlot]
  <2>1. FreeSlot \in RawSlot
    BY WordSizes DEF FreeSlot, RawSlot, Words
  <2>2. [i \in 0 .. 2 * Len(slots) - 1 |-> FreeSlot] \in SlotArray(Len(slots))
    BY <2>1 DEF SlotArray
  <2> QED  BY <2>2
<1> DEFINE Iter(f) == f = [s \in SUBSET DOMAIN slots |->
                             IF s = {} THEN base
                             ELSE PlaceSlot(f[s \ {Max(s)}], slots[Max(s)])]
           step == [p \in T \X (1 .. n) |-> PlaceSlot(p[1], slots[p[2]])]
<1>1. n \in Nat /\ \A i \in 1 .. n : slots[i] \in RawSlot
  OBVIOUS
<1>2. ASSUME NEW o \in T, NEW i \in 1 .. n
      PROVE  PlaceSlot(o, slots[i]) \in T
  <2> HIDE DEF n
  <2> QED  BY <1>1, PlaceSlotType
<1> HIDE DEF T
<1>3. step \in [T \X (1 .. n) -> T]
  <2>1. \A p \in T \X (1 .. n) : PlaceSlot(p[1], slots[p[2]]) \in T
    BY <1>2
  <2> QED  BY <2>1
<1>4. FillTable(slots) = (CHOOSE f : Iter(f))[DOMAIN slots]
  BY <1>0 DEF FillTable, FoldLeft, MapThenFoldSet
<1>5. DOMAIN slots = 1 .. n
  OBVIOUS
<1>6. \A o \in T, i \in 1 .. n : step[<<o, i>>] = PlaceSlot(o, slots[i])
  OBVIOUS
<1> HIDE DEF step, n
<1>8. PICK h \in [SUBSET (1 .. n) -> T] : IsFold(h, base, step, n)
  BY <1>1, <1>3, FoldExists
<1>9. ASSUME NEW s \in SUBSET (1 .. n), s # {}
      PROVE  Max(s) \in 1 .. n /\ s \ {Max(s)} \in SUBSET (1 .. n)
  BY <1>1, <1>9, LargestOf
<1>10. Iter(h)
  <2>1. ASSUME NEW s \in SUBSET (1 .. n), s # {}
        PROVE  h[s] = PlaceSlot(h[s \ {Max(s)}], slots[Max(s)])
    BY <1>6, <1>8, <1>9, <2>1 DEF IsFold
  <2>2. h[{}] = base
    BY <1>8 DEF IsFold
  <2> QED  BY <1>5, <2>1, <2>2
<1>11. Iter(CHOOSE f : Iter(f))
  BY <1>10, Zenon
<1>12. PICK f : Iter(f) /\ FillTable(slots) = f[1 .. n]
  BY <1>4, <1>5, <1>11
<1>13. FoldsIn(T, f, base, step, n)
  BY <1>5, <1>6, <1>9, <1>12 DEF FoldsIn
<1> HIDE DEF Iter
<1>14. HasTrace(T, f, base, step, n)
  BY <1>1, <1>3, <1>13, FoldTrace
<1>15. PICK g \in [0 .. n -> T] : IsTrace(g, base, step, n) /\ f[1 .. n] = g[n]
  BY <1>14 DEF HasTrace
<1>16. \A i \in 1 .. n : g[i] = PlaceSlot(g[i - 1], slots[i])
  <2> SUFFICES ASSUME NEW i \in 1 .. n
               PROVE  g[i] = PlaceSlot(g[i - 1], slots[i])
    OBVIOUS
  <2>1. g[i - 1] \in T
    BY <1>1
  <2> QED  BY <1>6, <1>15, <2>1 DEF IsTrace
<1>17. g \in [0 .. Len(slots) -> SlotArray(Len(slots))]
  BY DEF T, n
<1>18. Fills(g, slots)
  BY <1>0, <1>12, <1>15, <1>16 DEF Fills, IsTrace, n
<1> QED  BY <1>17, <1>18

LEMMA FillTableType ==
  ASSUME NEW slots \in Seq(RawSlot)
  PROVE  FillTable(slots) \in SlotArray(Len(slots))
<1>1. PICK g \in [0 .. Len(slots) -> SlotArray(Len(slots))] : Fills(g, slots)
  BY FillTableTrace
<1>2. Len(slots) \in 0 .. Len(slots)
  OBVIOUS
<1> QED  BY <1>1, <1>2 DEF Fills

(* A table has two places for each slot of its bucket.                     *)
LEMMA TableSlotsType ==
  ASSUME NEW slots \in Seq(RawSlot)
  PROVE  /\ TableSlots(slots) \in Seq(RawSlot)
         /\ Len(TableSlots(slots)) = 2 * Len(slots)
<1>1. PICK filled : filled = FillTable(slots)
  OBVIOUS
<1>2. filled \in SlotArray(Len(slots))
  BY <1>1, FillTableType
<1>3. PICK n \in Nat : n = 2 * Len(slots)
  OBVIOUS
<1>4. \A i \in 1 .. n : filled[i - 1] \in RawSlot
  BY <1>2, <1>3 DEF SlotArray
<1>5. TableSlots(slots) = [i \in 1 .. n |-> filled[i - 1]]
  BY <1>1, <1>3 DEF TableSlots
<1>6. [i \in 1 .. n |-> filled[i - 1]] \in Seq(RawSlot)
  BY <1>4
<1> QED  BY <1>3, <1>5, <1>6

(* Pieces of the same length. *)
LEMMA FlattenUniform ==
  ASSUME NEW seqs \in Seq(Seq(Bytes)), NEW w \in Nat,
         \A i \in 1 .. Len(seqs) : Len(seqs[i]) = w
  PROVE  Len(FlattenSeq(seqs)) = w * Len(seqs)
<1>1. PICK n \in Nat : n = Len(seqs)
  OBVIOUS
<1>2. PICK h \in [0 .. Len(seqs) -> Seq(Bytes)] : FlattensBy(h, seqs)
  BY FlattenTrace
<1>3. /\ h \in [0 .. n -> Seq(Bytes)] /\ h[0] = <<>> /\ FlattenSeq(seqs) = h[n]
      /\ \A i \in 1 .. n : h[i] = h[i - 1] \o seqs[i]
  BY <1>1, <1>2 DEF FlattensBy, IsFlat
<1>4. \A i \in 1 .. n : seqs[i] \in Seq(Bytes) /\ Len(seqs[i]) = w
  BY <1>1
<1> DEFINE S == {i \in 0 .. n : Len(h[i]) = w * i}
<1>5. 0 \in S
  <2>1. Len(<<>>) = 0 /\ w * 0 = 0
    OBVIOUS
  <2> QED  BY <1>1, <1>3, <2>1
<1>6. ASSUME NEW i \in 0 .. n - 1, i \in S PROVE i + 1 \in S
  <2>1. i + 1 \in 1 .. n /\ (i + 1) - 1 = i /\ i \in 0 .. n /\ i + 1 \in 0 .. n /\ i \in Nat
    BY <1>1
  <2>2. h[i] \in Seq(Bytes) /\ seqs[i + 1] \in Seq(Bytes) /\ Len(seqs[i + 1]) = w
    BY <1>3, <1>4, <2>1
  <2>3. h[i + 1] = h[i] \o seqs[i + 1]
    BY <1>3, <2>1
  <2>4. Len(h[i + 1]) = Len(h[i]) + w
    BY <2>2, <2>3, Concat
  <2>5. Len(h[i]) = w * i
    BY <1>6
  <2>6. w * (i + 1) = w * i + w
    <3>1. \A x, y \in Nat : x * (y + 1) = x * y + x
      OBVIOUS
    <3> QED  BY <2>1, <3>1
  <2> QED  BY <2>1, <2>4, <2>5, <2>6
<1>7. n \in S
  <2>1. n \in 0 .. n
    BY <1>1
  <2> HIDE DEF S
  <2> QED  BY <1>1, <1>5, <1>6, <2>1, UpTo
<1> QED  BY <1>1, <1>3, <1>7

LEMMA PackTableLength ==
  ASSUME NEW slots \in Seq(RawSlot)
  PROVE  /\ PackTable(slots) \in Seq(Bytes)
         /\ Len(PackTable(slots)) = SIZEOF_SLOT * Len(slots)
<1>1. PICK packed : packed = [i \in DOMAIN slots |-> PackSlot(slots[i])]
  OBVIOUS
<1>2. packed \in Seq(Seq(Bytes)) /\ PackTable(slots) = FlattenSeq(packed)
  BY <1>1, PackedSlots DEF PackTable
<1>3. Len(packed) = Len(slots)
  BY <1>1
<1>4. \A i \in 1 .. Len(packed) : Len(packed[i]) = SIZEOF_SLOT
  <2>1. \A i \in 1 .. Len(slots) : slots[i] \in RawSlot
    OBVIOUS
  <2> QED  BY <1>1, <1>3, <2>1, PackSlotBytes
<1>5. Len(FlattenSeq(packed)) = SIZEOF_SLOT * Len(packed)
  BY <1>2, <1>4, WordSizes, FlattenUniform
<1> QED  BY <1>2, <1>3, <1>5, PackedSlots

-----------------------------------------------------------------------------
(* The tables one behind the other. *)
TableBytes(a, j) == PackTable(TableSlots(BucketOf(a, j)))

LEMMA TableBytesType ==
  ASSUME NEW a \in Seq(Record), NEW j
  PROVE  /\ TableBytes(a, j) \in Seq(Bytes)
         /\ Len(TableBytes(a, j)) = SIZEOF_SLOT * (2 * Len(BucketOf(a, j)))
<1>1. BucketOf(a, j) \in Seq(RawSlot)
  BY BucketOfType
<1>2. /\ TableSlots(BucketOf(a, j)) \in Seq(RawSlot)
      /\ Len(TableSlots(BucketOf(a, j))) = 2 * Len(BucketOf(a, j))
  BY <1>1, TableSlotsType
<1> QED  BY <1>2, PackTableLength DEF TableBytes

LEMMA SlotTablesType ==
  ASSUME NEW a \in Seq(Record), NEW n \in Nat
  PROVE  /\ [t \in 1 .. n |-> TableBytes(a, t - 1)] \in Seq(Seq(Bytes))
         /\ SlotTables(a, n) = FlattenSeq([t \in 1 .. n |-> TableBytes(a, t - 1)])
         /\ SlotTables(a, n) \in Seq(Bytes)
<1>1. \A t \in 1 .. n : TableBytes(a, t - 1) \in Seq(Bytes)
  BY TableBytesType
<1>2. [t \in 1 .. n |-> TableBytes(a, t - 1)] \in Seq(Seq(Bytes))
  BY <1>1
<1>3. SlotTables(a, n) = FlattenSeq([t \in 1 .. n |-> TableBytes(a, t - 1)])
  BY DEF SlotTables, TableBytes
<1> QED  BY <1>2, <1>3, FlattenType

LEMMA SlotTablesNone == \A a : SlotTables(a, 0) = <<>>
<1> SUFFICES ASSUME NEW a PROVE SlotTables(a, 0) = <<>>
  OBVIOUS
<1>1. [t \in 1 .. 0 |-> PackTable(TableSlots(BucketOf(a, t - 1)))] = <<>>
  OBVIOUS
<1> QED  BY <1>1, FlattenEmpty DEF SlotTables

LEMMA SlotTablesNext ==
  ASSUME NEW a \in Seq(Record), NEW n \in Nat
  PROVE  SlotTables(a, n + 1) = SlotTables(a, n) \o TableBytes(a, n)
<1>1. PICK s : s = [t \in 1 .. n |-> TableBytes(a, t - 1)]
  OBVIOUS
<1>2. PICK u : u = [t \in 1 .. n + 1 |-> TableBytes(a, t - 1)]
  OBVIOUS
<1>3. s \in Seq(Seq(Bytes)) /\ SlotTables(a, n) = FlattenSeq(s)
  BY <1>1, SlotTablesType
<1>4. u \in Seq(Seq(Bytes)) /\ SlotTables(a, n + 1) = FlattenSeq(u)
  <2>1. n + 1 \in Nat
    OBVIOUS
  <2> QED  BY <1>2, <2>1, SlotTablesType
<1>5. /\ Len(s) = n /\ Len(u) = Len(s) + 1
      /\ \A i \in 1 .. Len(s) : s[i] = u[i]
      /\ u[Len(u)] = TableBytes(a, (n + 1) - 1)
  BY <1>1, <1>2
<1>6. (n + 1) - 1 = n
  OBVIOUS
<1>7. FlattenSeq(u) = FlattenSeq(s) \o u[Len(u)]
  BY <1>3, <1>4, <1>5, FlattenAppend
<1> QED  BY <1>3, <1>4, <1>5, <1>6, <1>7

(* The slot tables take two places for each record.                        *)
LEMMA SlotTablesLength ==
  ASSUME NEW a \in Seq(Record), NEW n \in Nat
  PROVE  Len(SlotTables(a, n)) = SIZEOF_SLOT * 2 * Base(a, n)
<1> DEFINE S == {i \in 0 .. n : Len(SlotTables(a, i)) = SIZEOF_SLOT * 2 * Base(a, i)}
<1>1. 0 \in S
  <2>1. Len(<<>>) = 0 /\ SIZEOF_SLOT * 2 * 0 = 0
    BY WordSizes
  <2> QED  BY <2>1, SlotTablesNone, BaseNext
<1>2. ASSUME NEW i \in 0 .. n - 1, i \in S PROVE i + 1 \in S
  <2>1. i \in Nat /\ i + 1 \in 0 .. n
    OBVIOUS
  <2>2. PICK x \in Nat, y \in Nat : x = Base(a, i) /\ y = Len(BucketOf(a, i))
    BY <2>1, BaseNext
  <2>3. Base(a, i + 1) = x + y
    BY <2>1, <2>2, BaseNext
  <2>4. SlotTables(a, i + 1) = SlotTables(a, i) \o TableBytes(a, i)
    BY <2>1, SlotTablesNext
  <2>5. SlotTables(a, i) \in Seq(Bytes) /\ TableBytes(a, i) \in Seq(Bytes)
        /\ Len(TableBytes(a, i)) = SIZEOF_SLOT * (2 * y)
    BY <2>1, <2>2, SlotTablesType, TableBytesType
  <2>6. Len(SlotTables(a, i + 1)) = Len(SlotTables(a, i)) + Len(TableBytes(a, i))
    BY <2>4, <2>5, Concat
  <2>7. Len(SlotTables(a, i)) = SIZEOF_SLOT * 2 * x
    BY <1>2, <2>2
  <2>8. SIZEOF_SLOT * 2 * x + SIZEOF_SLOT * (2 * y) = SIZEOF_SLOT * 2 * (x + y)
    <3>1. \A s, p, q \in Nat : s * 2 * p + s * (2 * q) = s * 2 * (p + q)
      OBVIOUS
    <3> QED  BY <3>1, WordSizes
  <2> QED  BY <2>1, <2>3, <2>5, <2>6, <2>7, <2>8
<1> HIDE DEF S
<1>3. n \in S
  <2>1. n \in 0 .. n
    OBVIOUS
  <2> QED  BY <1>1, <1>2, <2>1, UpTo
<1> QED  BY <1>3 DEF S

-----------------------------------------------------------------------------
(* The header's first n pointers. *)
Pointers(a, n) == FlattenSeq([t \in 1 .. n |-> TablePointer(a, t - 1)])

(* The pointers to the tables, and the parts of a file. *)
LEMMA TablePointerType ==
  ASSUME NEW a \in Seq(Record), NEW j \in Nat
  PROVE  /\ TablePointer(a, j) \in Seq(Bytes)
         /\ Len(TablePointer(a, j)) = SIZEOF_TPTR
         /\ TablePointer(a, j)
              = Pack(SIZEOF_TABLE + Len(Encoded(a)) + SIZEOF_SLOT * 2 * Base(a, j))
                \o Pack(2 * Len(BucketOf(a, j)))
<1>1. PICK x : x = SIZEOF_TABLE + Len(Encoded(a)) + SIZEOF_SLOT * 2 * Base(a, j)
  OBVIOUS
<1>2. PICK y : y = 2 * Len(BucketOf(a, j))
  OBVIOUS
<1>3. x \in Nat
  <2>1. Base(a, j) \in Nat
    BY BaseNext
  <2>2. \A s, p \in Nat : s * 2 * p \in Nat
    OBVIOUS
  <2>3. PICK z \in Nat : z = SIZEOF_SLOT * 2 * Base(a, j)
    BY <2>1, <2>2, WordSizes
  <2>4. PICK e \in Nat : e = Len(Encoded(a))
    BY EncodedType
  <2>5. x = SIZEOF_TABLE + e + z
    BY <1>1, <2>3, <2>4
  <2> QED  BY <2>5, WordSizes
<1>4. y \in Nat
  BY <1>2, BaseNext
<1>5. TablePointer(a, j) = Pack(x) \o Pack(y)
  BY <1>1, <1>2, OffsetOfNext DEF TablePointer, Base
<1>6. /\ Pack(x) \in Seq(Bytes) /\ Len(Pack(x)) = WORD
      /\ Pack(y) \in Seq(Bytes) /\ Len(Pack(y)) = WORD
  BY <1>3, <1>4, PackBytes
<1>7. /\ Pack(x) \o Pack(y) \in Seq(Bytes)
      /\ Len(Pack(x) \o Pack(y)) = WORD + WORD
  BY <1>6, Concat
<1> QED  BY <1>1, <1>2, <1>5, <1>7 DEF SIZEOF_TPTR

LEMMA PointersType ==
  ASSUME NEW a \in Seq(Record), NEW n \in Nat
  PROVE  /\ [t \in 1 .. n |-> TablePointer(a, t - 1)] \in Seq(Seq(Bytes))
         /\ Pointers(a, n) \in Seq(Bytes)
         /\ Len(Pointers(a, n)) = SIZEOF_TPTR * n
<1>1. PICK s : s = [t \in 1 .. n |-> TablePointer(a, t - 1)]
  OBVIOUS
<1>2. \A t \in 1 .. n : /\ TablePointer(a, t - 1) \in Seq(Bytes)
                        /\ Len(TablePointer(a, t - 1)) = SIZEOF_TPTR
  <2>1. \A t \in 1 .. n : t - 1 \in Nat
    OBVIOUS
  <2> QED  BY <2>1, TablePointerType
<1>3. s \in Seq(Seq(Bytes)) /\ Len(s) = n
  BY <1>1, <1>2
<1>4. \A i \in 1 .. Len(s) : Len(s[i]) = SIZEOF_TPTR
  BY <1>1, <1>2, <1>3
<1>5. SIZEOF_TPTR \in Nat
  BY FormatAssumption DEF SIZEOF_TPTR
<1> QED  BY <1>1, <1>3, <1>4, <1>5, FlattenUniform, FlattenType DEF Pointers

LEMMA PointersNone == \A a : Pointers(a, 0) = <<>>
<1> SUFFICES ASSUME NEW a PROVE Pointers(a, 0) = <<>>
  OBVIOUS
<1>1. [t \in 1 .. 0 |-> TablePointer(a, t - 1)] = <<>>
  OBVIOUS
<1> QED  BY <1>1, FlattenEmpty DEF Pointers

LEMMA PointersNext ==
  ASSUME NEW a \in Seq(Record), NEW n \in Nat
  PROVE  Pointers(a, n + 1) = Pointers(a, n) \o TablePointer(a, n)
<1>1. PICK s : s = [t \in 1 .. n |-> TablePointer(a, t - 1)]
  OBVIOUS
<1>2. PICK u : u = [t \in 1 .. n + 1 |-> TablePointer(a, t - 1)]
  OBVIOUS
<1>3. s \in Seq(Seq(Bytes)) /\ Pointers(a, n) = FlattenSeq(s)
  BY <1>1, PointersType DEF Pointers
<1>4. u \in Seq(Seq(Bytes)) /\ Pointers(a, n + 1) = FlattenSeq(u)
  <2>1. n + 1 \in Nat
    OBVIOUS
  <2> QED  BY <1>2, <2>1, PointersType DEF Pointers
<1>5. /\ Len(s) = n /\ Len(u) = Len(s) + 1
      /\ \A i \in 1 .. Len(s) : s[i] = u[i]
      /\ u[Len(u)] = TablePointer(a, (n + 1) - 1)
  BY <1>1, <1>2
<1>6. (n + 1) - 1 = n
  OBVIOUS
<1>7. FlattenSeq(u) = FlattenSeq(s) \o u[Len(u)]
  BY <1>3, <1>4, <1>5, FlattenAppend
<1> QED  BY <1>3, <1>4, <1>5, <1>6, <1>7

(* The length of a file is known before its tables are. *)
LEMMA ImageParts ==
  ASSUME NEW a \in Seq(Record)
  PROVE  /\ Image(a) = Pointers(a, TABLES) \o (Encoded(a) \o SlotTables(a, TABLES))
         /\ Pointers(a, TABLES) \in Seq(Bytes)
         /\ Len(Pointers(a, TABLES)) = SIZEOF_TABLE
         /\ Image(a) \in Seq(Bytes)
         /\ Len(Image(a)) = SIZEOF_TABLE + Len(Encoded(a)) + 2 * SIZEOF_SLOT * Len(a)
<1>1. TABLES \in Nat
  BY FormatAssumption
<1>2. PICK p : p = Pointers(a, TABLES)
  OBVIOUS
<1>3. PICK e : e = Encoded(a)
  OBVIOUS
<1>4. PICK t : t = SlotTables(a, TABLES)
  OBVIOUS
<1>5. p \in Seq(Bytes) /\ e \in Seq(Bytes) /\ t \in Seq(Bytes) /\ Len(p) = SIZEOF_TABLE
  BY <1>1, <1>2, <1>3, <1>4, PointersType, EncodedType, SlotTablesType
  DEF SIZEOF_TABLE
<1>6. Image(a) = (p \o e) \o t
  BY <1>2, <1>3, <1>4 DEF Image, Pointers
<1>7. (p \o e) \o t = p \o (e \o t)
  BY <1>5, ConcatAssoc
<1>8. /\ Image(a) \in Seq(Bytes)
      /\ Len(Image(a)) = Len(p) + Len(e) + Len(t)
  <2>1. p \o e \in Seq(Bytes) /\ Len(p \o e) = Len(p) + Len(e)
    BY <1>5, Concat
  <2>2. (p \o e) \o t \in Seq(Bytes) /\ Len((p \o e) \o t) = Len(p \o e) + Len(t)
    BY <1>5, <2>1, Concat
  <2> QED  BY <1>6, <2>1, <2>2
<1>9. Len(t) = 2 * SIZEOF_SLOT * Len(a)
  <2>1. Len(t) = SIZEOF_SLOT * 2 * Base(a, TABLES)
    BY <1>1, <1>4, SlotTablesLength
  <2>2. Base(a, TABLES) = Len(a) /\ Len(a) \in Nat
    BY BaseTotal
  <2>3. \A s, x \in Nat : s * 2 * x = 2 * s * x
    OBVIOUS
  <2> QED  BY <2>1, <2>2, <2>3, WordSizes
<1> QED  BY <1>2, <1>3, <1>4, <1>5, <1>6, <1>7, <1>8, <1>9

-----------------------------------------------------------------------------
(* Writing to the file.  Before the header is written, what is behind it   *)
(* only grows.                                                             *)

(* A sequence that consists of two parts.                                  *)
LEMMA JoinedIs ==
  ASSUME NEW u \in Seq(Bytes), NEW v \in Seq(Bytes), NEW w \in Seq(Bytes),
         Len(w) = Len(u) + Len(v),
         \A i \in 1 .. Len(u) : w[i] = u[i],
         \A i \in 1 .. Len(v) : w[Len(u) + i] = v[i]
  PROVE  w = u \o v
<1>1. PICK k \in Nat : k = Len(u)
  OBVIOUS
<1>2. PICK l \in Nat : l = Len(v)
  OBVIOUS
<1>3. u \o v \in Seq(Bytes) /\ Len(u \o v) = k + l
  BY <1>1, <1>2
<1>4. ASSUME NEW i \in 1 .. k + l PROVE (u \o v)[i] = w[i]
  <2>1. CASE i <= k
    <3>1. i \in 1 .. Len(u)
      BY <1>1, <2>1
    <3>2. (u \o v)[i] = u[i]
      BY <3>1
    <3> QED  BY <3>1, <3>2
  <2>2. CASE i > k
    <3>1. i - k \in 1 .. Len(v) /\ k + (i - k) = i
      BY <1>1, <1>2, <2>2
    <3>2. (u \o v)[i] = v[i - k]
      BY <1>1, <1>2, <2>2, <3>1
    <3> QED  BY <1>1, <3>1, <3>2
  <2>3. i <= k \/ i > k
    OBVIOUS
  <2> QED  BY <2>1, <2>2, <2>3
<1>5. Len(w) = k + l
  BY <1>1, <1>2
<1> QED  BY <1>3, <1>4, <1>5

LEMMA MaxOfTwo ==
  ASSUME NEW m \in Nat, NEW n \in Nat, m <= n
  PROVE  Max({m, n}) = n /\ Max({n, m}) = n
<1>1. {m, n} = {n, m}
  OBVIOUS
<1>2. \E x \in {m, n} : \A y \in {m, n} : x >= y
  BY n >= m /\ n >= n
<1>3. Max({m, n}) \in {m, n} /\ \A y \in {m, n} : Max({m, n}) >= y
  BY <1>2 DEF Max
<1> QED  BY <1>1, <1>3

LEMMA MinOfTwo ==
  ASSUME NEW m \in Nat, NEW n \in Nat
  PROVE  Min({m, n}) \in Nat /\ \A o \in Nat : o <= Min({m, n}) <=> o <= m /\ o <= n
<1>1. \E x \in {m, n} : \A y \in {m, n} : x =< y
  <2>1. m <= n \/ n <= m
    OBVIOUS
  <2> QED  BY <2>1
<1>2. Min({m, n}) \in {m, n} /\ \A y \in {m, n} : Min({m, n}) =< y
  BY <1>1 DEF Min
<1> QED  BY <1>2

LEMMA U32InWords ==
  ASSUME NEW n \in Int PROVE U32(n) \in Words
<1>1. MAX_OFF + 1 \in Nat /\ MAX_OFF + 1 > 0 /\ MAX_OFF \in Nat
  BY WordSizes
<1>2. \A m \in Int, d \in Nat : d > 0 => m % d \in 0 .. d - 1
  OBVIOUS
<1>3. U32(n) \in 0 .. (MAX_OFF + 1) - 1
  BY <1>1, <1>2 DEF U32
<1> QED  BY <1>1, <1>3 DEF Words

(* One record more in its bucket. *)
LEMMA CountAppend ==
  ASSUME NEW a \in Seq(Record), NEW r \in Record, NEW b
  PROVE  /\ Len(BucketOf(a, b)) \in Nat
         /\ b = Bucket(Hash[r.key]) =>
              Len(BucketOf(Append(a, r), b)) = Len(BucketOf(a, b)) + 1
         /\ b # Bucket(Hash[r.key]) => BucketOf(Append(a, r), b) = BucketOf(a, b)
<1>1. PICK s \in Seq(RawSlot) : s = BucketOf(a, b)
  BY BucketOfType
<1>2. PICK t : t = Append(a, r)
  OBVIOUS
<1>3. t \in Seq(Record) /\ Len(t) = Len(a) + 1 /\ t[Len(a) + 1] = r
  BY <1>2
<1>4. PICK last : last = InBucket(t, Len(a) + 1, b)
  OBVIOUS
<1>5. BucketOf(t, b) = s \o last
  BY <1>1, <1>2, <1>4, BucketOfAppend
<1>6. CASE b = Bucket(Hash[r.key])
  <2>1. PICK slot \in RawSlot : slot = SlotOf(t, Len(a) + 1)
    <3>1. Len(a) + 1 \in 1 .. Len(t)
      BY <1>3
    <3> QED  BY <1>3, <3>1, SlotOfType
  <2>2. last = <<slot>>
    BY <1>3, <1>4, <1>6, <2>1 DEF InBucket
  <2>3. Len(s \o <<slot>>) = Len(s) + 1
    OBVIOUS
  <2> QED  BY <1>1, <1>2, <1>5, <1>6, <2>2, <2>3
<1>7. CASE b # Bucket(Hash[r.key])
  <2>1. last = <<>>
    BY <1>3, <1>4, <1>7 DEF InBucket
  <2>2. s \o <<>> = s
    OBVIOUS
  <2> QED  BY <1>1, <1>2, <1>5, <1>7, <2>1, <2>2
<1> QED  BY <1>6, <1>7

-----------------------------------------------------------------------------
(* Numbers and their bytes, whole and in part.                             *)

LEMMA DivOf ==
  ASSUME NEW a \in Nat, NEW b \in Nat \ {0}
  PROVE  /\ a \div b \in Nat /\ a % b \in 0 .. b - 1
         /\ a = b * (a \div b) + (a % b)
  OBVIOUS

(* Quotient and remainder are unique.                                      *)
LEMMA DivUnique ==
  ASSUME NEW b \in Nat \ {0}, NEW q \in Nat, NEW r \in 0 .. b - 1
  PROVE  (b * q + r) % b = r /\ (b * q + r) \div b = q
  OBVIOUS

LEMMA DivMod ==
  ASSUME NEW a \in Nat, NEW b \in Nat \ {0}, NEW c \in Nat \ {0}
  PROVE  a % (b * c) = (a % b) + ((a \div b) % c) * b
<1>1. PICK q \in Nat, r \in 0 .. b - 1 : q = a \div b /\ r = a % b /\ a = b * q + r
  BY DivOf
<1>2. PICK p \in Nat, s \in 0 .. c - 1 : p = q \div c /\ s = q % c /\ q = c * p + s
  BY DivOf
<1>3. a = (b * c) * p + (b * s + r)
  <2>1. \A w, x, y, z, u \in Nat : w * (x * y + z) + u = (w * x) * y + (w * z + u)
    OBVIOUS
  <2>2. a = b * (c * p + s) + r
    BY <1>1, <1>2
  <2> QED  BY <2>1, <2>2
<1>4. b * s + r \in 0 .. b * c - 1 /\ b * c \in Nat \ {0}
  <2>1. b * s <= b * (c - 1)
    BY <1>2
  <2>2. b * (c - 1) = b * c - b
    OBVIOUS
  <2> QED  BY <2>1, <2>2
<1>5. PICK m \in Nat \ {0} : m = b * c
  BY <1>4
<1>6. PICK t \in 0 .. m - 1 : t = b * s + r
  BY <1>4, <1>5
<1>7. a % m = t
  BY <1>3, <1>5, <1>6, DivUnique
<1>8. (a \div b) % c = s /\ b * s = s * b
  <2>1. q = a \div b /\ s = q % c
    BY <1>1, <1>2
  <2>2. (a \div b) % c = s
    BY <2>1, Zenon
  <2>3. \A x, y \in Nat : x * y = y * x
    OBVIOUS
  <2> QED  BY <2>2, <2>3
<1>9. a % (b * c) = b * s + r
  BY <1>5, <1>6, <1>7
<1> QED
  BY <1>1, <1>8, <1>9

(* A place value and the next one.                                         *)
LEMMA Powers ==
  /\ BYTE^0 = 1
  /\ \A i \in 1 .. WORD : BYTE^i = BYTE^(i - 1) * BYTE
  /\ \A i \in 0 .. WORD : BYTE^i \in Nat \ {0}
  BY FormatAssumption

(* The first k digits of a number, put together again.                     *)
LEMMA UnpackPart ==
  ASSUME NEW f, NEW o \in Nat, NEW num \in Nat, NEW k \in 0 .. WORD,
         \A i \in 1 .. WORD :
           f[o + i] = IF i <= k THEN (num \div BYTE^(i - 1)) % BYTE ELSE 0
  PROVE  Unpack(f, o) = num % BYTE^k
<1> DEFINE Is(w) == w = [n \in 0 .. WORD |->
                          IF n = 0 THEN 0
                          ELSE w[n - 1] + f[o + n] * BYTE^(n - 1)]
           h == [n \in 0 .. WORD |-> IF n <= k THEN num % BYTE^n ELSE num % BYTE^k]
<1>0. WORD \in Nat /\ BYTE \in Nat \ {0}
  BY FormatAssumption
<1>1. h[0] = 0
  BY <1>0, Powers
<1>2. ASSUME NEW n \in 1 .. WORD
      PROVE  h[n] = h[n - 1] + f[o + n] * BYTE^(n - 1)
  <2>1. PICK b \in Nat \ {0} : b = BYTE^(n - 1) /\ BYTE^n = b * BYTE
    <3>1. n - 1 \in 0 .. WORD
      BY <1>0
    <3> QED  BY <3>1, Powers
  <2>2. CASE n <= k
    <3>1. num % (b * BYTE) = (num % b) + ((num \div b) % BYTE) * b
      BY <1>0, <2>1, DivMod
    <3>2. h[n] = num % BYTE^n /\ h[n - 1] = num % BYTE^(n - 1)
      BY <1>0, <2>2
    <3>3. f[o + n] = (num \div b) % BYTE
      BY <2>1, <2>2
    <3> QED  BY <2>1, <3>1, <3>2, <3>3
  <2>3. CASE ~(n <= k)
    <3>1. n - 1 = k \/ ~(n - 1 <= k)
      BY <2>3
    <3>2. h[n] = num % BYTE^k /\ h[n - 1] = num % BYTE^k
      BY <1>0, <2>3, <3>1
    <3>3. f[o + n] * b = 0
      <4>1. \A x \in Nat : 0 * x = 0
        OBVIOUS
      <4> QED  BY <2>3, <4>1
    <3>4. num % BYTE^k \in Nat
      <4>1. PICK c \in Nat \ {0} : c = BYTE^k
        BY Powers
      <4>2. PICK q \in Nat, r \in 0 .. c - 1 : r = num % c
        BY <4>1, DivOf
      <4> QED  BY <4>1, <4>2
    <3> HIDE DEF h
    <3> QED  BY <2>1, <3>2, <3>3, <3>4
  <2> QED  BY <2>2, <2>3
<1>3. Is(h)
  <2>1. \A n \in 0 .. WORD : n = 0 \/ n \in 1 .. WORD
    OBVIOUS
  <2>2. \A n \in 0 .. WORD : h[n] = IF n = 0 THEN 0 ELSE h[n - 1] + f[o + n] * BYTE^(n - 1)
    BY <1>1, <1>2, <2>1
  <2>3. h = [n \in 0 .. WORD |-> h[n]]
    OBVIOUS
  <2> HIDE DEF h
  <2> QED  BY <2>2, <2>3
<1>4. Is(CHOOSE w : Is(w))
  <2> HIDE DEF Is
  <2> QED  BY <1>3, Zenon
<1>5. PICK w : Is(w) /\ Unpack(f, o) = w[WORD]
  BY <1>4 DEF Unpack
<1> DEFINE S == {n \in 0 .. WORD : w[n] = h[n]}
<1>6. 0 \in S
  BY <1>0, <1>1, <1>5
<1>7. ASSUME NEW n \in 0 .. WORD - 1, n \in S PROVE n + 1 \in S
  <2>1. n + 1 \in 1 .. WORD /\ (n + 1) - 1 = n /\ n + 1 \in 0 .. WORD
    BY <1>0
  <2>2. h[n + 1] = h[n] + f[o + (n + 1)] * BYTE^n
    BY <1>2, <2>1
  <2>3. w[n + 1] = w[n] + f[o + (n + 1)] * BYTE^n
    <3>1. w[n + 1] = IF n + 1 = 0 THEN 0
                     ELSE w[(n + 1) - 1] + f[o + (n + 1)] * BYTE^((n + 1) - 1)
      BY <1>5, <2>1
    <3>2. n + 1 # 0
      BY <2>1
    <3> QED  BY <2>1, <3>1, <3>2
  <2> HIDE DEF h
  <2> QED  BY <1>7, <2>1, <2>2, <2>3
<1>8. WORD \in S
  <2>1. WORD \in 0 .. WORD
    BY <1>0
  <2> HIDE DEF S
  <2> QED  BY <1>0, <1>6, <1>7, <2>1, UpTo
<1>9. h[WORD] = num % BYTE^k
  <2>1. WORD <= k => WORD = k
    BY <1>0
  <2> QED  BY <1>0, <2>1
<1> QED
  BY <1>5, <1>8, <1>9

(* All of them. *)
LEMMA UnpackDigits ==
  ASSUME NEW f, NEW o \in Nat, NEW num \in Nat,
         \A i \in 1 .. WORD : f[o + i] = (num \div BYTE^(i - 1)) % BYTE
  PROVE  Unpack(f, o) = U32(num)
<1>1. WORD \in 0 .. WORD /\ \A i \in 1 .. WORD : i <= WORD
  BY FormatAssumption
<1>2. Unpack(f, o) = num % BYTE^WORD
  BY <1>1, UnpackPart
<1>3. BYTE^WORD = MAX_OFF + 1
  BY <1>1, Powers DEF MAX_OFF
<1> QED
  BY <1>2, <1>3 DEF U32

-----------------------------------------------------------------------------
(* Bytes at an offset of a file.                                           *)

(* The bytes that a file has at an offset. *)
Holds(f, o, bytes) ==
  /\ o + Len(bytes) <= Len(f)
  /\ \A i \in 1 .. Len(bytes) : f[o + i] = bytes[i]

(* Bytes are at an offset if their parts are, one behind the other.        *)
LEMMA HoldsParts ==
  ASSUME NEW f \in Seq(Bytes), NEW o \in Nat, NEW u \in Seq(Bytes), NEW v \in Seq(Bytes),
         Holds(f, o, u \o v)
  PROVE  Holds(f, o, u) /\ Holds(f, o + Len(u), v)
<1>1. PICK k \in Nat, l \in Nat : k = Len(u) /\ l = Len(v)
  OBVIOUS
<1>2. Len(u \o v) = k + l
  BY <1>1
<1>3. /\ o + (k + l) <= Len(f)
      /\ \A i \in 1 .. k + l : f[o + i] = (u \o v)[i]
  BY <1>2 DEF Holds
<1>4. \A i \in 1 .. k : i \in 1 .. k + l /\ (u \o v)[i] = u[i]
  BY <1>1
<1>5. \A i \in 1 .. l : k + i \in 1 .. k + l /\ (u \o v)[k + i] = v[i]
  BY <1>1
<1>6. o + k <= Len(f) /\ (o + k) + l <= Len(f)
  BY <1>3
<1>7. \A i \in 1 .. l : f[(o + k) + i] = v[i]
  <2> SUFFICES ASSUME NEW i \in 1 .. l PROVE f[(o + k) + i] = v[i]
    OBVIOUS
  <2>1. (o + k) + i = o + (k + i)
    BY <1>1
  <2>2. f[o + (k + i)] = (u \o v)[k + i]
    BY <1>3, <1>5
  <2> QED  BY <1>5, <2>1, <2>2
<1> QED  BY <1>1, <1>3, <1>4, <1>6, <1>7 DEF Holds

LEMMA HoldsWhole ==
  ASSUME NEW f \in Seq(Bytes)
  PROVE  Holds(f, 0, f)
  BY DEF Holds

(* Of pieces of the same length each is where those before it end. *)
LEMMA HoldsPiece ==
  ASSUME NEW f \in Seq(Bytes), NEW o \in Nat, NEW seqs \in Seq(Seq(Bytes)),
         NEW w \in Nat, \A i \in 1 .. Len(seqs) : Len(seqs[i]) = w,
         Holds(f, o, FlattenSeq(seqs)), NEW m \in 1 .. Len(seqs)
  PROVE  Holds(f, o + w * (m - 1), seqs[m])
<1>1. PICK n \in Nat : n = Len(seqs)
  OBVIOUS
<1>2. PICK h \in [0 .. Len(seqs) -> Seq(Bytes)] : FlattensBy(h, seqs)
  BY FlattenTrace
<1>3. /\ h \in [0 .. n -> Seq(Bytes)] /\ h[0] = <<>> /\ FlattenSeq(seqs) = h[n]
      /\ \A i \in 1 .. n : h[i] = h[i - 1] \o seqs[i]
  BY <1>1, <1>2 DEF FlattensBy, IsFlat
<1>4. \A i \in 1 .. n : seqs[i] \in Seq(Bytes) /\ Len(seqs[i]) = w
  BY <1>1
<1> DEFINE S == {i \in 0 .. n : Len(h[i]) = w * i}
           Q == {i \in 0 .. n : Holds(f, o, h[n - i])}
<1>5. 0 \in S
  <2>1. Len(<<>>) = 0 /\ w * 0 = 0
    OBVIOUS
  <2> QED  BY <1>1, <1>3, <2>1
<1>6. ASSUME NEW i \in 0 .. n - 1, i \in S PROVE i + 1 \in S
  <2>1. i + 1 \in 1 .. n /\ (i + 1) - 1 = i /\ i \in 0 .. n /\ i + 1 \in 0 .. n /\ i \in Nat
    BY <1>1
  <2>2. h[i] \in Seq(Bytes) /\ seqs[i + 1] \in Seq(Bytes) /\ Len(seqs[i + 1]) = w
    BY <1>3, <1>4, <2>1
  <2>3. h[i + 1] = h[i] \o seqs[i + 1]
    BY <1>3, <2>1
  <2>4. Len(h[i + 1]) = Len(h[i]) + w
    BY <2>2, <2>3, Concat
  <2>5. Len(h[i]) = w * i
    BY <1>6
  <2>6. w * (i + 1) = w * i + w
    <3>1. \A x, y \in Nat : x * (y + 1) = x * y + x
      OBVIOUS
    <3> QED  BY <2>1, <3>1
  <2> QED  BY <2>1, <2>4, <2>5, <2>6
<1>7. \A k \in 0 .. n : k \in S
  <2> HIDE DEF S
  <2> QED  BY <1>1, <1>5, <1>6, UpTo
<1>8. 0 \in Q
  BY <1>1, <1>3
<1>9. ASSUME NEW i \in 0 .. n - 1, i \in Q PROVE i + 1 \in Q
  <2>1. n - i \in 1 .. n /\ (n - i) - 1 = n - (i + 1) /\ i + 1 \in 0 .. n
        /\ n - (i + 1) \in 0 .. n
    BY <1>1
  <2>2. PICK u \in Seq(Bytes), v \in Seq(Bytes) : u = h[n - (i + 1)] /\ v = seqs[n - i]
    BY <1>3, <1>4, <2>1
  <2>3. Holds(f, o, u \o v)
    BY <1>3, <1>9, <2>1, <2>2
  <2>4. Holds(f, o, u)
    BY <2>3, HoldsParts
  <2> QED  BY <2>1, <2>2, <2>4
<1>10. \A k \in 0 .. n : k \in Q
  <2> HIDE DEF Q
  <2> QED  BY <1>1, <1>8, <1>9, UpTo
<1>11. m \in 1 .. n /\ n - m \in 0 .. n /\ n - (n - m) = m /\ m - 1 \in 0 .. n
  BY <1>1
<1>12. PICK u \in Seq(Bytes), v \in Seq(Bytes) : u = h[m - 1] /\ v = seqs[m]
  BY <1>3, <1>4, <1>11
<1>13. Holds(f, o, u \o v)
  BY <1>3, <1>10, <1>11, <1>12
<1>14. Len(u) = w * (m - 1)
  BY <1>7, <1>11, <1>12
<1> QED  BY <1>12, <1>13, <1>14, HoldsParts

(* A word is read as it was written, if it fits. *)
LEMMA HoldsWord ==
  ASSUME NEW f \in Seq(Bytes), NEW o \in Nat, NEW num \in Nat, Holds(f, o, Pack(num))
  PROVE  Unpack(f, o) = U32(num) /\ (num \in Words => Unpack(f, o) = num)
<1>1. Len(Pack(num)) = WORD
  BY PackBytes
<1>2. \A i \in 1 .. WORD : f[o + i] = (num \div BYTE^(i - 1)) % BYTE
  BY <1>1 DEF Holds, Pack
<1>3. Unpack(f, o) = U32(num)
  BY <1>2, UnpackDigits
<1>4. num \in Words => U32(num) = num
  BY WordSizes DEF Words, U32
<1> QED  BY <1>3, <1>4

LEMMA HoldsWords ==
  ASSUME NEW f \in Seq(Bytes), NEW o \in Nat, NEW x \in Nat, NEW y \in Nat,
         Holds(f, o, Pack(x) \o Pack(y))
  PROVE  /\ Unpack(f, o) = U32(x) /\ (x \in Words => Unpack(f, o) = x)
         /\ Unpack(f, o + WORD) = U32(y) /\ (y \in Words => Unpack(f, o + WORD) = y)
<1>1. PICK p \in Seq(Bytes), q \in Seq(Bytes) : p = Pack(x) /\ q = Pack(y)
  BY PackBytes
<1>2. Len(p) = WORD /\ Len(q) = WORD
  BY <1>1, PackBytes
<1>3. Holds(f, o, p) /\ Holds(f, o + WORD, q)
  BY <1>1, <1>2, HoldsParts
<1>4. o + WORD \in Nat
  BY FormatAssumption
<1> QED  BY <1>1, <1>3, <1>4, HoldsWord

(* Bytes are read as they were written. *)
LEMMA HoldsKey ==
  ASSUME NEW f \in Seq(Bytes), NEW o \in Nat, NEW bytes \in Seq(Bytes), Holds(f, o, bytes)
  PROVE  ReadKey(f, o, Len(bytes)) = bytes /\ Readable(f, o, Len(bytes))
<1>1. PICK n \in Nat : n = Len(bytes)
  OBVIOUS
<1>2. o + n <= Len(f) /\ \A i \in 1 .. n : f[o + i] = bytes[i]
  BY <1>1 DEF Holds
<1>3. PICK s \in Seq(Bytes) : s = SubSeq(f, o + 1, o + n)
  <2>1. SubSeq(f, o + 1, o + n) \in Seq(Bytes)
    BY <1>2
  <2> QED  BY <2>1
<1>4. Len(s) = n /\ \A i \in 1 .. n : s[i] = f[o + i]
  <2>1. n = (o + n) - (o + 1) + 1
    BY <1>1
  <2>2. \A i \in 1 .. n : (o + 1) + i - 1 = o + i
    OBVIOUS
  <2> QED  BY <1>2, <1>3, <2>1, <2>2
<1>5. s = bytes
  <2>1. \A i \in 1 .. n : s[i] = bytes[i]
    BY <1>2, <1>4
  <2>2. s = [i \in 1 .. n |-> s[i]] /\ bytes = [i \in 1 .. n |-> bytes[i]]
    BY <1>1, <1>4
  <2> QED  BY <2>1, <2>2
<1> QED  BY <1>1, <1>2, <1>3, <1>5 DEF ReadKey, Readable

-----------------------------------------------------------------------------
(* Where the records are.                                                  *)

RecordsEnd(a) == SIZEOF_TABLE + Len(Encoded(a))
TableAt(a, j) == RecordsEnd(a) + SIZEOF_SLOT * 2 * Base(a, j)

(* The file with these records can be addressed. *)
Fits(a) == RecordsEnd(a) + 2 * SIZEOF_SLOT * Len(a) <= MAX_OFF + 1

(* What is behind the header. *)
Laid(f, a) ==
  /\ f \in Seq(Bytes)
  /\ Holds(f, SIZEOF_TABLE, Encoded(a))
  /\ Holds(f, RecordsEnd(a), SlotTables(a, TABLES))

LEMMA LaidParts ==
  ASSUME NEW a \in Seq(Record), NEW f \in Seq(Bytes),
         Holds(f, SIZEOF_TABLE, Encoded(a) \o SlotTables(a, TABLES))
  PROVE  Laid(f, a)
<1>1. PICK e \in Seq(Bytes) : e = Encoded(a)
  BY EncodedType
<1>2. PICK t \in Seq(Bytes) : t = SlotTables(a, TABLES)
  BY SlotTablesType, FormatAssumption
<1>3. Holds(f, SIZEOF_TABLE, e \o t)
  BY <1>1, <1>2
<1>4. Holds(f, SIZEOF_TABLE, e) /\ Holds(f, SIZEOF_TABLE + Len(e), t)
  BY <1>3, WordSizes, HoldsParts
<1> QED  BY <1>1, <1>2, <1>4 DEF Laid, RecordsEnd

(* The image of the records has its parts where they belong.               *)
LEMMA ImageHolds ==
  ASSUME NEW a \in Seq(Record)
  PROVE  Holds(Image(a), 0, Pointers(a, TABLES)) /\ Laid(Image(a), a)
<1>1. PICK f \in Seq(Bytes) : f = Image(a)
  BY ImageParts
<1>2. PICK p \in Seq(Bytes) : p = Pointers(a, TABLES)
  BY ImageParts
<1>3. PICK b \in Seq(Bytes) : b = Encoded(a) \o SlotTables(a, TABLES)
  <2>1. Encoded(a) \in Seq(Bytes) /\ SlotTables(a, TABLES) \in Seq(Bytes)
    BY EncodedType, SlotTablesType, FormatAssumption
  <2> QED  BY <2>1, Concat
<1>4. f = p \o b /\ Len(p) = SIZEOF_TABLE
  BY <1>1, <1>2, <1>3, ImageParts
<1>5. Holds(f, 0, p \o b)
  BY <1>4, HoldsWhole
<1>6. Holds(f, 0, p) /\ Holds(f, 0 + Len(p), b)
  BY <1>5, HoldsParts
<1>7. 0 + Len(p) = SIZEOF_TABLE
  BY <1>4, WordSizes
<1> QED  BY <1>1, <1>2, <1>3, <1>6, <1>7, LaidParts

-----------------------------------------------------------------------------
(* A record is where those before it end. *)
LEMMA OffsetNext ==
  ASSUME NEW a \in Seq(Record), NEW i \in 1 .. Len(a)
  PROVE  /\ a[i] \in Record
         /\ OffsetOf(a, i) \in Nat /\ OffsetOf(a, i) >= SIZEOF_TABLE
         /\ OffsetOf(a, i + 1) = OffsetOf(a, i) + Len(Encode(a[i]))
         /\ Len(Encode(a[i])) = SIZEOF_DLENGTH + Len(a[i].key) + Len(a[i].value)
<1>1. i - 1 \in 0 .. Len(a) - 1 /\ (i - 1) + 1 = i /\ (i + 1) - 1 = i
      /\ i \in 1 .. Len(a) + 1 /\ i + 1 \in 1 .. Len(a) + 1
  OBVIOUS
<1>2. a[i] \in Record
  OBVIOUS
<1>3. PICK p \in Seq(Record) : p = Prefix(a, i - 1)
  <2>1. i - 1 \in 0 .. Len(a)
    OBVIOUS
  <2> QED  BY <2>1, PrefixType
<1>4. Prefix(a, i) = Append(p, a[i])
  BY <1>1, <1>3, PrefixNext
<1>5. Encoded(Prefix(a, i)) = Encoded(p) \o Encode(a[i])
  BY <1>2, <1>4, EncodedAppend
<1>6. OffsetOf(a, i) = SIZEOF_TABLE + Len(Encoded(p))
      /\ OffsetOf(a, i + 1) = SIZEOF_TABLE + Len(Encoded(Prefix(a, i)))
  BY <1>1, <1>3, OffsetValue
<1>7. PICK e \in Seq(Bytes), r \in Seq(Bytes) : e = Encoded(p) /\ r = Encode(a[i])
  BY <1>2, EncodedType, EncodeType
<1>8. Len(e \o r) = Len(e) + Len(r) /\ Len(e) \in Nat /\ Len(r) \in Nat
  BY <1>7, Concat
<1>9. Encoded(Prefix(a, i)) = e \o r
  BY <1>5, <1>7
<1>10. PICK x \in Nat, y \in Nat : x = Len(e) /\ y = Len(r)
  BY <1>8
<1>11. OffsetOf(a, i) = SIZEOF_TABLE + x
  BY <1>6, <1>7, <1>10
<1>12. OffsetOf(a, i + 1) = SIZEOF_TABLE + (x + y)
  BY <1>6, <1>8, <1>9, <1>10
<1>13. /\ OffsetOf(a, i) \in Nat /\ OffsetOf(a, i) >= SIZEOF_TABLE
       /\ OffsetOf(a, i + 1) = OffsetOf(a, i) + y
  BY <1>11, <1>12, WordSizes
<1> QED  BY <1>2, <1>7, <1>10, <1>13, EncodeType

(* Later ones are further behind. *)
LEMMA OffsetGrows ==
  ASSUME NEW a \in Seq(Record), NEW i \in 1 .. Len(a) + 1, NEW k \in 1 .. Len(a) + 1, i < k
  PROVE  OffsetOf(a, i + 1) <= OffsetOf(a, k) /\ OffsetOf(a, i) < OffsetOf(a, k)
<1> DEFINE S == {n \in 0 .. Len(a) - i : OffsetOf(a, i + 1) <= OffsetOf(a, i + 1 + n)}
<1>1. i \in 1 .. Len(a) /\ \A n \in 0 .. Len(a) - i : i + 1 + n \in 1 .. Len(a) + 1
  OBVIOUS
<1>2. \A n \in 1 .. Len(a) + 1 : OffsetOf(a, n) \in Nat
  BY OffsetValue
<1>3. 0 \in S
  <2>1. i + 1 \in 1 .. Len(a) + 1 /\ 0 \in 0 .. Len(a) - i /\ i + 1 + 0 = i + 1
    BY <1>1
  <2>2. OffsetOf(a, i + 1) \in Nat
    BY <1>2, <2>1
  <2> QED  BY <2>1, <2>2
<1>4. ASSUME NEW n \in 0 .. (Len(a) - i) - 1, n \in S PROVE n + 1 \in S
  <2>1. PICK m \in 1 .. Len(a) : m = i + 1 + n
    BY <1>1
  <2>2. i + 1 + (n + 1) = m + 1 /\ n + 1 \in 0 .. Len(a) - i
    BY <2>1
  <2>3. a[m] \in Record /\ OffsetOf(a, m + 1) = OffsetOf(a, m) + Len(Encode(a[m]))
    BY OffsetNext
  <2>4. Len(Encode(a[m])) \in Nat /\ OffsetOf(a, m) \in Nat
    BY <1>2, <2>3, EncodeType
  <2>5. i + 1 \in 1 .. Len(a) + 1 /\ OffsetOf(a, i + 1) <= OffsetOf(a, m)
    BY <1>4, <1>1, <2>1
  <2>6. OffsetOf(a, i + 1) <= OffsetOf(a, m + 1)
    BY <1>2, <2>3, <2>4, <2>5
  <2> QED  BY <2>2, <2>6
<1>5. \A n \in 0 .. Len(a) - i : n \in S
  <2>1. Len(a) - i \in Nat
    BY <1>1
  <2> HIDE DEF S
  <2> QED  BY <1>3, <1>4, <2>1, UpTo
<1>6. k - (i + 1) \in 0 .. Len(a) - i /\ i + 1 + (k - (i + 1)) = k
  OBVIOUS
<1>7. OffsetOf(a, i + 1) <= OffsetOf(a, k)
  BY <1>5, <1>6
<1>8. OffsetOf(a, i) < OffsetOf(a, i + 1)
  <2>1. /\ OffsetOf(a, i + 1) = OffsetOf(a, i) + Len(Encode(a[i]))
        /\ Len(Encode(a[i])) = SIZEOF_DLENGTH + Len(a[i].key) + Len(a[i].value)
        /\ a[i] \in Record
    BY <1>1, OffsetNext
  <2>2. Len(a[i].key) \in Nat /\ Len(a[i].value) \in Nat
    BY <2>1, FormatAssumption DEF Record
  <2>3. PICK x \in Nat, y \in Nat : x = Len(a[i].key) /\ y = Len(a[i].value)
    BY <2>2
  <2>4. OffsetOf(a, i) \in Nat
    BY <1>2
  <2>5. OffsetOf(a, i + 1) = OffsetOf(a, i) + (SIZEOF_DLENGTH + x + y)
    BY <2>1, <2>3
  <2> QED  BY <2>4, <2>5, WordSizes
<1> QED  BY <1>1, <1>2, <1>7, <1>8

(* A record is on disk where its slot says.                                *)
LEMMA RecordHolds ==
  ASSUME NEW a \in Seq(Record), NEW f \in Seq(Bytes), Holds(f, SIZEOF_TABLE, Encoded(a)),
         NEW i \in 1 .. Len(a)
  PROVE  Holds(f, OffsetOf(a, i), Encode(a[i]))
<1> DEFINE n == Len(a)
           Q == {k \in 0 .. n : Holds(f, SIZEOF_TABLE, Encoded(Prefix(a, n - k)))}
<1>1. n \in Nat
  OBVIOUS
<1>2. 0 \in Q
  <2>1. n - 0 = Len(a) /\ 0 \in 0 .. n
    OBVIOUS
  <2>2. Prefix(a, Len(a)) = a
    BY PrefixAll
  <2> QED  BY <2>1, <2>2
<1>3. ASSUME NEW m \in 1 .. n, Holds(f, SIZEOF_TABLE, Encoded(Prefix(a, m)))
      PROVE  /\ Holds(f, SIZEOF_TABLE, Encoded(Prefix(a, m - 1)))
             /\ Holds(f, OffsetOf(a, m), Encode(a[m]))
  <2>1. m - 1 \in 0 .. n - 1 /\ (m - 1) + 1 = m /\ m - 1 \in 0 .. n
    OBVIOUS
  <2>2. PICK p \in Seq(Record) : p = Prefix(a, m - 1)
    BY <2>1, PrefixType
  <2>3. Prefix(a, m) = Append(p, a[m]) /\ a[m] \in Record
    BY <2>1, <2>2, PrefixNext
  <2>4. PICK u \in Seq(Bytes), v \in Seq(Bytes) : u = Encoded(p) /\ v = Encode(a[m])
    BY <2>3, EncodedType, EncodeType
  <2>5. Encoded(Prefix(a, m)) = u \o v
    BY <2>3, <2>4, EncodedAppend
  <2>6. Holds(f, SIZEOF_TABLE, u) /\ Holds(f, SIZEOF_TABLE + Len(u), v)
    BY <1>3, <2>5, WordSizes, HoldsParts
  <2>7. OffsetOf(a, m) = SIZEOF_TABLE + Len(u)
    <3>1. m \in 1 .. Len(a) + 1
      OBVIOUS
    <3> QED  BY <2>2, <2>4, <3>1, OffsetValue
  <2> QED  BY <2>2, <2>4, <2>6, <2>7
<1>4. ASSUME NEW k \in 0 .. n - 1, k \in Q PROVE k + 1 \in Q
  <2>1. n - k \in 1 .. n /\ (n - k) - 1 = n - (k + 1) /\ k + 1 \in 0 .. n
    BY <1>1
  <2>2. Holds(f, SIZEOF_TABLE, Encoded(Prefix(a, n - k)))
    BY <1>4
  <2> QED  BY <1>3, <2>1, <2>2
<1>5. \A k \in 0 .. n : k \in Q
  <2> HIDE DEF Q
  <2> QED  BY <1>1, <1>2, <1>4, UpTo
<1>6. n - i \in 0 .. n /\ n - (n - i) = i /\ i \in 1 .. n
  BY <1>1
<1>7. Holds(f, SIZEOF_TABLE, Encoded(Prefix(a, i)))
  BY <1>5, <1>6
<1> QED  BY <1>3, <1>6, <1>7

LEMMA LengthsFit ==
  ASSUME NEW r \in Record
  PROVE  /\ Len(r.key) \in Words /\ Len(r.value) \in Words
         /\ r.key \in Seq(Bytes) /\ r.value \in Seq(Bytes)
  BY FormatAssumption DEF Record, Words

(* What is read of a record. *)
LEMMA RecordRead ==
  ASSUME NEW a \in Seq(Record), NEW f \in Seq(Bytes), Holds(f, SIZEOF_TABLE, Encoded(a)),
         NEW i \in 1 .. Len(a), NEW o \in Nat, o = OffsetOf(a, i)
  PROVE  /\ Readable(f, o, SIZEOF_DLENGTH)
         /\ ReadDLength(f, o) = [klen |-> Len(a[i].key), dlen |-> Len(a[i].value)]
         /\ Holds(f, o + SIZEOF_DLENGTH, a[i].key)
         /\ Holds(f, o + SIZEOF_DLENGTH + Len(a[i].key), a[i].value)
<1>1. a[i] \in Record
  OBVIOUS
<1>2. PICK k \in Seq(Bytes), v \in Seq(Bytes) : k = a[i].key /\ v = a[i].value
  BY <1>1, LengthsFit
<1>3. Len(k) \in Words /\ Len(v) \in Words /\ Len(k) \in Nat /\ Len(v) \in Nat
  BY <1>1, <1>2, LengthsFit
<1>4. PICK p \in Seq(Bytes), q \in Seq(Bytes) : p = Pack(Len(k)) /\ q = Pack(Len(v))
  BY <1>3, PackBytes
<1>5. Len(p) = WORD /\ Len(q) = WORD
  BY <1>3, <1>4, PackBytes
<1>6. PICK d \in Seq(Bytes) : d = p \o q /\ Len(d) = SIZEOF_DLENGTH
  <2>1. p \o q \in Seq(Bytes) /\ Len(p \o q) = WORD + WORD
    <3>1. p \o q \in Seq(Bytes) /\ Len(p \o q) = Len(p) + Len(q)
      BY Concat
    <3> QED  BY <1>5, <3>1
  <2> QED  BY <2>1 DEF SIZEOF_DLENGTH
<1>7. Encode(a[i]) = (d \o k) \o v
  BY <1>2, <1>4, <1>6 DEF Encode, PackDLength
<1>8. Holds(f, o, (d \o k) \o v)
  BY <1>7, RecordHolds
<1>9. d \o k \in Seq(Bytes) /\ Len(d \o k) = SIZEOF_DLENGTH + Len(k)
  BY <1>6, Concat
<1>10. Holds(f, o, d \o k) /\ Holds(f, o + Len(d \o k), v)
  BY <1>8, <1>9, HoldsParts
<1>11. Holds(f, o, d) /\ Holds(f, o + SIZEOF_DLENGTH, k)
  BY <1>6, <1>10, HoldsParts
<1>12. o + Len(d \o k) = o + SIZEOF_DLENGTH + Len(k)
  BY <1>3, <1>9, WordSizes
<1>13. Unpack(f, o) = Len(k) /\ Unpack(f, o + WORD) = Len(v)
  BY <1>3, <1>4, <1>6, <1>11, HoldsWords
<1>14. o + SIZEOF_DLENGTH <= Len(f)
  BY <1>6, <1>11 DEF Holds
<1> QED  BY <1>2, <1>10, <1>11, <1>12, <1>13, <1>14 DEF ReadDLength, Readable

-----------------------------------------------------------------------------
(* Where the slot tables and their pointers are.                           *)

LEMMA TableAtNat ==
  ASSUME NEW a \in Seq(Record), NEW j \in Nat
  PROVE  /\ RecordsEnd(a) \in Nat /\ TableAt(a, j) \in Nat
         /\ RecordsEnd(a) >= SIZEOF_TABLE /\ TableAt(a, j) >= RecordsEnd(a)
<1>1. Len(Encoded(a)) \in Nat
  BY EncodedType
<1>2. PICK e \in Nat : e = Len(Encoded(a))
  BY <1>1
<1>3. PICK z \in Nat : z = SIZEOF_SLOT * 2 * Base(a, j)
  <2>1. Base(a, j) \in Nat
    BY BaseNext
  <2>2. \A s, p \in Nat : s * 2 * p \in Nat
    OBVIOUS
  <2> QED  BY <2>1, <2>2, WordSizes
<1> QED  BY <1>2, <1>3, WordSizes DEF RecordsEnd, TableAt

(* A table is where those before it end. *)
LEMMA TableHolds ==
  ASSUME NEW a \in Seq(Record), NEW f \in Seq(Bytes),
         Holds(f, RecordsEnd(a), SlotTables(a, TABLES)), NEW j \in Buckets
  PROVE  Holds(f, TableAt(a, j), TableBytes(a, j))
<1>0. TABLES \in Nat /\ j \in Nat /\ j + 1 \in 0 .. TABLES
  BY FormatAssumption DEF Buckets
<1> DEFINE Q == {k \in 0 .. TABLES : Holds(f, RecordsEnd(a), SlotTables(a, TABLES - k))}
<1>1. 0 \in Q
  BY <1>0
<1>2. ASSUME NEW m \in Nat, Holds(f, RecordsEnd(a), SlotTables(a, m + 1))
      PROVE  /\ Holds(f, RecordsEnd(a), SlotTables(a, m))
             /\ Holds(f, TableAt(a, m), TableBytes(a, m))
  <2>1. PICK u \in Seq(Bytes), v \in Seq(Bytes) : u = SlotTables(a, m) /\ v = TableBytes(a, m)
    BY SlotTablesType, TableBytesType
  <2>2. SlotTables(a, m + 1) = u \o v
    BY <2>1, SlotTablesNext
  <2>3. RecordsEnd(a) \in Nat
    BY TableAtNat
  <2>4. Holds(f, RecordsEnd(a), u) /\ Holds(f, RecordsEnd(a) + Len(u), v)
    BY <1>2, <2>2, <2>3, HoldsParts
  <2>5. Len(u) = SIZEOF_SLOT * 2 * Base(a, m)
    BY <2>1, SlotTablesLength
  <2> QED  BY <2>1, <2>4, <2>5 DEF TableAt
<1>3. ASSUME NEW k \in 0 .. TABLES - 1, k \in Q PROVE k + 1 \in Q
  <2>1. TABLES - (k + 1) \in Nat /\ (TABLES - (k + 1)) + 1 = TABLES - k
        /\ k + 1 \in 0 .. TABLES
    BY <1>0
  <2>2. Holds(f, RecordsEnd(a), SlotTables(a, TABLES - k))
    BY <1>3
  <2> QED  BY <1>2, <2>1, <2>2
<1>4. \A k \in 0 .. TABLES : k \in Q
  <2> HIDE DEF Q
  <2> QED  BY <1>0, <1>1, <1>3, UpTo
<1>5. TABLES - (j + 1) \in 0 .. TABLES /\ TABLES - (TABLES - (j + 1)) = j + 1
  BY <1>0
<1>6. Holds(f, RecordsEnd(a), SlotTables(a, j + 1))
  BY <1>4, <1>5
<1> QED  BY <1>0, <1>2, <1>6

(* ... and so is a slot in it. *)
LEMMA SlotHolds ==
  ASSUME NEW a \in Seq(Record), NEW f \in Seq(Bytes), NEW j \in Buckets,
         Holds(f, TableAt(a, j), TableBytes(a, j)),
         NEW p \in 0 .. 2 * Len(BucketOf(a, j)) - 1
  PROVE  /\ FillTable(BucketOf(a, j))[p] \in RawSlot
         /\ Holds(f, TableAt(a, j) + SIZEOF_SLOT * p, PackSlot(FillTable(BucketOf(a, j))[p]))
<1>0. j \in Nat
  BY FormatAssumption DEF Buckets
<1>1. PICK slots \in Seq(RawSlot) : slots = TableSlots(BucketOf(a, j))
  BY BucketOfType, TableSlotsType
<1>2. Len(slots) = 2 * Len(BucketOf(a, j)) /\ p + 1 \in 1 .. Len(slots)
  <2>1. Len(slots) = 2 * Len(BucketOf(a, j))
    BY <1>1, BucketOfType, TableSlotsType
  <2>2. Len(BucketOf(a, j)) \in Nat
    BY <1>0, BaseNext
  <2> QED  BY <2>1, <2>2
<1>3. slots[p + 1] = FillTable(BucketOf(a, j))[p]
  <2>1. (p + 1) - 1 = p /\ p + 1 \in 1 .. 2 * Len(BucketOf(a, j))
    BY <1>2
  <2> QED  BY <1>1, <2>1 DEF TableSlots
<1>4. PICK seqs \in Seq(Seq(Bytes)) : seqs = [i \in DOMAIN slots |-> PackSlot(slots[i])]
  BY PackedSlots
<1>5. TableBytes(a, j) = FlattenSeq(seqs)
  BY <1>1, <1>4 DEF TableBytes, PackTable
<1>6. /\ Len(seqs) = Len(slots)
      /\ \A i \in 1 .. Len(seqs) : slots[i] \in RawSlot /\ seqs[i] = PackSlot(slots[i])
  BY <1>4
<1>7. \A i \in 1 .. Len(seqs) : Len(seqs[i]) = SIZEOF_SLOT
  BY <1>6, PackSlotBytes
<1>8. TableAt(a, j) \in Nat /\ Holds(f, TableAt(a, j), FlattenSeq(seqs))
  BY <1>0, <1>5, TableAtNat
<1>9. p + 1 \in 1 .. Len(seqs) /\ (p + 1) - 1 = p
  BY <1>2, <1>6
<1>10. Holds(f, TableAt(a, j) + SIZEOF_SLOT * ((p + 1) - 1), seqs[p + 1])
  BY <1>7, <1>8, <1>9, WordSizes, HoldsPiece
<1> QED  BY <1>3, <1>6, <1>9, <1>10

(* The pointer to a table. *)
LEMMA PointerHolds ==
  ASSUME NEW a \in Seq(Record), NEW f \in Seq(Bytes),
         Holds(f, 0, Pointers(a, TABLES)), NEW j \in Buckets
  PROVE  /\ j * SIZEOF_TPTR \in Nat
         /\ Holds(f, j * SIZEOF_TPTR, TablePointer(a, j))
         /\ Readable(f, j * SIZEOF_TPTR, SIZEOF_TPTR)
         /\ ReadPointer(f, j * SIZEOF_TPTR)
              = [offset |-> U32(TableAt(a, j)), length |-> U32(2 * Len(BucketOf(a, j)))]
<1>0. TABLES \in Nat /\ j \in Nat /\ j + 1 \in 1 .. TABLES /\ (j + 1) - 1 = j
      /\ SIZEOF_TPTR \in Nat
  BY FormatAssumption DEF Buckets, SIZEOF_TPTR
<1>1. PICK seqs \in Seq(Seq(Bytes)) : seqs = [t \in 1 .. TABLES |-> TablePointer(a, t - 1)]
  BY <1>0, PointersType
<1>2. /\ Len(seqs) = TABLES
      /\ \A i \in 1 .. Len(seqs) : i - 1 \in Nat /\ seqs[i] = TablePointer(a, i - 1)
  BY <1>0, <1>1
<1>3. \A i \in 1 .. Len(seqs) : Len(seqs[i]) = SIZEOF_TPTR
  BY <1>2, TablePointerType
<1>4. Holds(f, 0, FlattenSeq(seqs))
  BY <1>1 DEF Pointers
<1>5. Holds(f, 0 + SIZEOF_TPTR * ((j + 1) - 1), seqs[j + 1])
  BY <1>0, <1>2, <1>3, <1>4, HoldsPiece
<1>6. 0 + SIZEOF_TPTR * ((j + 1) - 1) = j * SIZEOF_TPTR /\ j * SIZEOF_TPTR \in Nat
  <2>1. \A x, y \in Nat : 0 + x * y = y * x /\ y * x \in Nat
    OBVIOUS
  <2> QED  BY <1>0, <2>1
<1>7. Holds(f, j * SIZEOF_TPTR, TablePointer(a, j))
  BY <1>0, <1>2, <1>5, <1>6
<1>8. PICK x \in Nat, y \in Nat : x = TableAt(a, j) /\ y = 2 * Len(BucketOf(a, j))
  BY <1>0, TableAtNat, BaseNext
<1>9. TablePointer(a, j) = Pack(x) \o Pack(y)
  BY <1>0, <1>8, TablePointerType DEF TableAt, RecordsEnd
<1>10. Unpack(f, j * SIZEOF_TPTR) = U32(x) /\ Unpack(f, j * SIZEOF_TPTR + WORD) = U32(y)
  BY <1>6, <1>7, <1>9, HoldsWords
<1>11. j * SIZEOF_TPTR + SIZEOF_TPTR <= Len(f)
  <2>1. Len(TablePointer(a, j)) = SIZEOF_TPTR
    BY <1>0, TablePointerType
  <2> QED  BY <1>7, <2>1 DEF Holds
<1> QED  BY <1>6, <1>7, <1>8, <1>10, <1>11 DEF ReadPointer, Readable

(* Where a table that is not empty ends. *)
LEMMA TableEnds ==
  ASSUME NEW a \in Seq(Record), NEW j \in Buckets
  PROVE  /\ Base(a, j) \in Nat /\ Len(BucketOf(a, j)) \in Nat
         /\ Base(a, j) + Len(BucketOf(a, j)) <= Len(a)
         /\ TableAt(a, j) + SIZEOF_SLOT * (2 * Len(BucketOf(a, j)))
              <= RecordsEnd(a) + 2 * SIZEOF_SLOT * Len(a)
<1>0. TABLES \in Nat /\ j \in Nat /\ j < TABLES
  BY FormatAssumption DEF Buckets
<1>1. PICK x \in Nat, y \in Nat : x = Base(a, j) /\ y = Len(BucketOf(a, j))
  BY <1>0, BaseNext
<1>2. x + y <= Len(a)
  BY <1>0, <1>1, BaseGrows, BaseTotal
<1>3. PICK z \in Nat, r \in Nat : x + y + z = Len(a) /\ r = RecordsEnd(a)
  <2>1. RecordsEnd(a) \in Nat /\ Len(a) \in Nat
    BY <1>0, TableAtNat
  <2>2. Len(a) - (x + y) \in Nat /\ x + y + (Len(a) - (x + y)) = Len(a)
    BY <1>2, <2>1
  <2> QED  BY <2>1, <2>2
<1>4. \A s, u, v, w \in Nat : s * 2 * u + s * (2 * v) <= 2 * s * (u + v + w)
  <2> SUFFICES ASSUME NEW s \in Nat, NEW u \in Nat, NEW v \in Nat, NEW w \in Nat
               PROVE  s * 2 * u + s * (2 * v) <= 2 * s * (u + v + w)
    OBVIOUS
  <2>1. 2 * s * (u + v + w) = s * 2 * u + s * (2 * v) + 2 * s * w
    OBVIOUS
  <2>2. 2 * s * w \in Nat /\ s * 2 * u \in Nat /\ s * (2 * v) \in Nat
    OBVIOUS
  <2> QED  BY <2>1, <2>2
<1>5. PICK s \in Nat : s = SIZEOF_SLOT
  BY WordSizes
<1>6. s * 2 * x + s * (2 * y) <= 2 * s * (x + y + z)
  BY <1>4
<1>7. PICK p \in Nat, q \in Nat, m \in Nat :
        p = s * 2 * x /\ q = s * (2 * y) /\ m = 2 * s * (x + y + z)
  <2>1. \A u, v \in Nat : u * 2 * v \in Nat /\ u * (2 * v) \in Nat /\ 2 * u * v \in Nat
    OBVIOUS
  <2>2. x + y + z \in Nat
    OBVIOUS
  <2> QED  BY <2>1, <2>2
<1>8. (r + p) + q <= r + m
  BY <1>6, <1>7
<1>9. TableAt(a, j) = r + p
  BY <1>1, <1>3, <1>5, <1>7 DEF TableAt
<1>10. 2 * SIZEOF_SLOT * Len(a) = m /\ SIZEOF_SLOT * (2 * Len(BucketOf(a, j))) = q
  BY <1>1, <1>3, <1>5, <1>7
<1> QED  BY <1>1, <1>2, <1>3, <1>8, <1>9, <1>10

-----------------------------------------------------------------------------
(* What the search reads at a slot.                                        *)

(* Every offset and length in a file that fits is a word. *)
LEMMA FitsRecords ==
  ASSUME NEW a \in Seq(Record), Fits(a)
  PROVE  /\ RecordsEnd(a) \in Words
         /\ \A i \in 1 .. Len(a) : OffsetOf(a, i) \in Words \ {0}
<1>1. PICK n \in Nat : n = Len(a)
  OBVIOUS
<1>2. RecordsEnd(a) \in Nat /\ RecordsEnd(a) = OffsetOf(a, n + 1)
  <2>1. Len(Encoded(a)) \in Nat
    BY EncodedType
  <2> QED  BY <1>1, <2>1, OffsetOfNext, WordSizes DEF RecordsEnd
<1>3. RecordsEnd(a) \in Words
  <2>1. CASE n = 0
    <3>1. a = <<>>
      <4>1. \A x \in Seq(Record) : Len(x) = 0 => x = <<>>
        OBVIOUS
      <4> QED  BY <1>1, <2>1, <4>1
    <3>2. Len(<<>>) = 0
      OBVIOUS
    <3>3. RecordsEnd(a) = SIZEOF_TABLE
      BY <3>1, <3>2, EncodedEmpty, WordSizes DEF RecordsEnd
    <3> QED  BY <3>3, WordSizes DEF Words
  <2>2. CASE n > 0
    <3>1. 2 * SIZEOF_SLOT * n > 0 /\ 2 * SIZEOF_SLOT * n \in Nat
      <4>1. \A s, m \in Nat : s > 0 /\ m > 0 => 2 * s * m > 0 /\ 2 * s * m \in Nat
        OBVIOUS
      <4> QED  BY <2>2, <4>1, WordSizes
    <3>2. PICK x \in Nat, r \in Nat : x = 2 * SIZEOF_SLOT * n /\ r = RecordsEnd(a)
      BY <1>2, <3>1
    <3>3. r + x <= MAX_OFF + 1 /\ x > 0
      BY <1>1, <3>1, <3>2 DEF Fits
    <3> QED  BY <3>2, <3>3, WordSizes DEF Words
  <2> QED  BY <2>1, <2>2
<1>4. ASSUME NEW i \in 1 .. Len(a) PROVE OffsetOf(a, i) \in Words \ {0}
  <2>1. OffsetOf(a, i) < OffsetOf(a, n + 1)
    BY <1>1, OffsetGrows
  <2>2. OffsetOf(a, i) \in Nat /\ OffsetOf(a, i) > 0
    <3>1. OffsetOf(a, i) \in Nat /\ OffsetOf(a, i) >= SIZEOF_TABLE
      BY OffsetNext
    <3> QED  BY <3>1, WordSizes
  <2> QED  BY <1>2, <1>3, <2>1, <2>2, WordSizes DEF Words
<1> QED  BY <1>3, <1>4

(* The tables of a file that fits end within the words.                    *)
LEMMA FitsTables ==
  ASSUME NEW a \in Seq(Record), Fits(a), NEW j \in Buckets
  PROVE  /\ TableAt(a, j) \in Nat
         /\ Len(BucketOf(a, j)) > 0 => TableAt(a, j) \in Words
         /\ 2 * Len(BucketOf(a, j)) \in Words
         /\ TableAt(a, j) + SIZEOF_SLOT * (2 * Len(BucketOf(a, j))) <= MAX_OFF + 1
<1>0. j \in Nat
  BY FormatAssumption DEF Buckets
<1>1. PICK t \in Nat, n \in Nat, s \in Nat :
        t = TableAt(a, j) /\ n = Len(BucketOf(a, j)) /\ s = SIZEOF_SLOT
  BY <1>0, TableAtNat, TableEnds, WordSizes
<1>2. PICK x \in Nat : x = s * (2 * n)
  <2>1. \A u, v \in Nat : u * (2 * v) \in Nat
    OBVIOUS
  <2> QED  BY <2>1
<1>3. t + x <= MAX_OFF + 1
  <2>1. t + x <= RecordsEnd(a) + 2 * SIZEOF_SLOT * Len(a)
    BY <1>1, <1>2, TableEnds
  <2>2. RecordsEnd(a) + 2 * SIZEOF_SLOT * Len(a) \in Nat
    <3>1. 2 * SIZEOF_SLOT * Len(a) \in Nat
      <4>1. \A u, v \in Nat : 2 * u * v \in Nat
        OBVIOUS
      <4> QED  BY <4>1, WordSizes
    <3>2. RecordsEnd(a) \in Nat
      BY <1>0, TableAtNat
    <3> QED  BY <3>1, <3>2
  <2> QED  BY <2>1, <2>2, WordSizes DEF Fits
<1>4. x >= 2 * n
  <2>1. \A u, v \in Nat : u > 0 => u * (2 * v) >= 2 * v
    OBVIOUS
  <2> QED  BY <1>1, <1>2, <2>1, WordSizes
<1>5. t > 0
  <2>1. t >= SIZEOF_TABLE
    BY <1>0, <1>1, TableAtNat, WordSizes
  <2> QED  BY <2>1, WordSizes
<1>6. 2 * n \in Words /\ (n > 0 => t \in Words)
  BY <1>3, <1>4, <1>5, WordSizes DEF Words
<1> QED  BY <1>1, <1>2, <1>3, <1>6

-----------------------------------------------------------------------------
(* What the search makes of a slot. *)
LEMMA SlotRead ==
  ASSUME NEW f \in Seq(Bytes), NEW o \in Nat, NEW slot \in RawSlot,
         slot.offset \in Words, Holds(f, o, PackSlot(slot))
  PROVE  ReadSlot(f, o) = slot /\ Readable(f, o, SIZEOF_SLOT)
<1>1. slot.hash \in Words /\ slot.hash \in Nat /\ slot.offset \in Nat
  BY WordSizes DEF RawSlot, Words
<1>2. PICK x \in Nat, y \in Nat : x = slot.hash /\ y = slot.offset
  BY <1>1
<1>3. Holds(f, o, Pack(x) \o Pack(y))
  BY <1>2 DEF PackSlot
<1>4. Unpack(f, o) = x /\ Unpack(f, o + WORD) = y
  BY <1>1, <1>2, <1>3, HoldsWords
<1>5. slot = [hash |-> x, offset |-> y]
  BY <1>2 DEF RawSlot
<1>6. Readable(f, o, SIZEOF_SLOT)
  BY PackSlotBytes DEF Holds, Readable
<1> QED  BY <1>4, <1>5, <1>6 DEF ReadSlot

LEMMA FreeSlotType == FreeSlot \in RawSlot /\ FreeSlot.offset = 0 /\ 0 \in Words
  BY WordSizes DEF FreeSlot, RawSlot, Words

(* A free slot ends the search.                                            *)
LEMMA ProbeFree ==
  ASSUME NEW f \in Seq(Bytes), NEW o \in Nat, Holds(f, o, PackSlot(FreeSlot)), NEW key
  PROVE  Probe(f, o, key) = "miss"
  BY FreeSlotType, SlotRead DEF Probe, ProbeSlot

(* The key of a record on disk is compared with all of its bytes.          *)
LEMMA KeyRead ==
  ASSUME NEW a \in Seq(Record), NEW f \in Seq(Bytes), Holds(f, SIZEOF_TABLE, Encoded(a)),
         NEW i \in 1 .. Len(a), NEW key \in Keys
  PROVE  CompareKey(f, OffsetOf(a, i) + SIZEOF_DLENGTH,
                    ReadDLength(f, OffsetOf(a, i)).klen, key)
           = IF a[i].key = key THEN "hit" ELSE "next"
<1>1. PICK o \in Nat : o = OffsetOf(a, i)
  BY OffsetNext
<1>2. PICK k \in Seq(Bytes) : k = a[i].key
  <2>1. a[i] \in Record
    OBVIOUS
  <2> QED  BY <2>1, LengthsFit
<1>3. ReadDLength(f, o).klen = Len(k) /\ Holds(f, o + SIZEOF_DLENGTH, k)
  BY <1>1, <1>2, RecordRead
<1>4. o + SIZEOF_DLENGTH \in Nat
  BY WordSizes
<1>5. /\ ReadKey(f, o + SIZEOF_DLENGTH, Len(k)) = k
      /\ Readable(f, o + SIZEOF_DLENGTH, Len(k))
  BY <1>3, <1>4, HoldsKey
<1>6. PICK c : c = CompareKey(f, o + SIZEOF_DLENGTH, ReadDLength(f, o).klen, key)
  OBVIOUS
<1>7. CASE key = k
  BY <1>1, <1>2, <1>3, <1>5, <1>7 DEF CompareKey
<1>8. CASE key # k
  BY <1>1, <1>2, <1>3, <1>5, <1>8 DEF CompareKey
<1> QED  BY <1>7, <1>8

LEMMA SlotOfFields ==
  ASSUME NEW a \in Seq(Record), NEW i \in 1 .. Len(a)
  PROVE  /\ SlotOf(a, i).hash = Hash[a[i].key] /\ SlotOf(a, i).offset = OffsetOf(a, i)
         /\ Hash[a[i].key] \in Words
<1>1. a[i] \in Record
  OBVIOUS
<1> QED  BY <1>1, FormatAssumption DEF SlotOf, Record

(* The slot of a record is a hit if the key is the same, and nothing else  *)
(* is.                                                                     *)
LEMMA ProbeRecord ==
  ASSUME NEW a \in Seq(Record), Fits(a), NEW f \in Seq(Bytes),
         Holds(f, SIZEOF_TABLE, Encoded(a)), NEW i \in 1 .. Len(a), NEW o \in Nat,
         Holds(f, o, PackSlot(SlotOf(a, i))), NEW key \in Keys
  PROVE  /\ ReadSlot(f, o) = SlotOf(a, i)
         /\ Probe(f, o, key) = IF a[i].key = key THEN "hit" ELSE "next"
<1>1. OffsetOf(a, i) \in Words \ {0}
  BY FitsRecords
<1>2. PICK slot \in RawSlot : slot = SlotOf(a, i)
  BY SlotOfType
<1>3. slot.hash = Hash[a[i].key] /\ slot.offset = OffsetOf(a, i)
  BY <1>2, SlotOfFields
<1>4. ReadSlot(f, o) = slot /\ Readable(f, o, SIZEOF_SLOT)
  BY <1>1, <1>2, <1>3, SlotRead
<1>5. PICK v \in Nat : v = OffsetOf(a, i)
  BY OffsetNext
<1>6. Readable(f, v, SIZEOF_DLENGTH)
  BY <1>5, RecordRead
<1>7. CompareKey(f, v + SIZEOF_DLENGTH, ReadDLength(f, v).klen, key)
        = IF a[i].key = key THEN "hit" ELSE "next"
  BY <1>5, KeyRead
<1>8. Probe(f, o, key) = ProbeSlot(f, slot, key)
  BY <1>4 DEF Probe
<1>9. CASE slot.hash # Hash[key]
  <2>1. a[i].key # key
    BY <1>3, <1>9
  <2> QED  BY <1>1, <1>2, <1>3, <1>4, <1>8, <1>9, <2>1 DEF ProbeSlot
<1>10. CASE slot.hash = Hash[key]
  <2>1. slot.offset = v /\ v # 0
    BY <1>1, <1>3, <1>5
  <2>2. ProbeSlot(f, slot, key)
          = CompareKey(f, v + SIZEOF_DLENGTH, ReadDLength(f, v).klen, key)
    BY <1>6, <1>10, <2>1 DEF ProbeSlot
  <2> QED  BY <1>2, <1>4, <1>7, <1>8, <2>2
<1> QED  BY <1>9, <1>10

-----------------------------------------------------------------------------
(* How a slot table is filled: each slot goes to the first free place from *)
(* the one its hash names, so that no place before it is free.             *)

(* Where a search for a hash gets to in d steps. *)
Reached(n, hash, d) == (HashRest(hash) + d) % n

LEMMA ReachedRange ==
  ASSUME NEW n \in Nat \ {0}, NEW hash \in Nat, NEW d \in Nat
  PROVE  Reached(n, hash, d) \in 0 .. n - 1 /\ HashRest(hash) \in Nat
<1>1. HashRest(hash) \in Nat
  BY FormatAssumption DEF HashRest
<1>2. PICK h \in Nat : h = HashRest(hash)
  BY <1>1
<1>3. (h + d) % n \in 0 .. n - 1
  OBVIOUS
<1> QED  BY <1>1, <1>2, <1>3 DEF Reached

(* It gets to every slot once in a round. *)
LEMMA ReachedAll ==
  ASSUME NEW n \in Nat \ {0}, NEW hash \in Nat, NEW p \in 0 .. n - 1
  PROVE  \E d \in 0 .. n - 1 : Reached(n, hash, d) = p
<1>1. PICK h \in Nat : h = HashRest(hash)
  BY ReachedRange
<1>2. PICK q \in Nat, r \in 0 .. n - 1 : h = n * q + r
  BY DivOf
<1>3. CASE p >= r
  <2>1. p - r \in 0 .. n - 1 /\ h + (p - r) = n * q + p
    BY <1>2, <1>3
  <2>2. (h + (p - r)) % n = p
    BY <2>1, DivUnique
  <2> QED  BY <1>1, <2>1, <2>2 DEF Reached
<1>4. CASE p < r
  <2>1. n + p - r \in 0 .. n - 1
    BY <1>4
  <2>2. n * (q + 1) = n * q + n
    OBVIOUS
  <2>3. PICK z \in Nat : z = n * q
    OBVIOUS
  <2>4. h + (n + p - r) = n * (q + 1) + p
    BY <1>2, <2>2, <2>3
  <2>5. (h + (n + p - r)) % n = p
    <3>1. PICK y \in Nat : y = q + 1
      OBVIOUS
    <3>2. (n * y + p) % n = p
      BY DivUnique
    <3> QED  BY <2>4, <3>1, <3>2
  <2> QED  BY <1>1, <2>1, <2>5 DEF Reached
<1> QED  BY <1>3, <1>4

(* In fewer than n steps no slot is reached twice.                         *)
LEMMA ReachedOnce ==
  ASSUME NEW n \in Nat \ {0}, NEW hash \in Nat, NEW c \in 0 .. n - 1, NEW d \in 0 .. n - 1,
         Reached(n, hash, c) = Reached(n, hash, d)
  PROVE  c = d
<1>1. PICK h \in Nat : h = HashRest(hash)
  BY ReachedRange
<1>2. PICK q \in Nat, r \in 0 .. n - 1 : h + c = n * q + r /\ r = (h + c) % n
  <2>1. h + c \in Nat
    OBVIOUS
  <2>2. (h + c) \div n \in Nat /\ (h + c) % n \in 0 .. n - 1
        /\ h + c = n * ((h + c) \div n) + ((h + c) % n)
    BY <2>1, DivOf
  <2> QED  BY <2>2
<1>3. PICK t \in Nat, u \in 0 .. n - 1 : h + d = n * t + u /\ u = (h + d) % n
  <2>1. h + d \in Nat
    OBVIOUS
  <2>2. (h + d) \div n \in Nat /\ (h + d) % n \in 0 .. n - 1
        /\ h + d = n * ((h + d) \div n) + ((h + d) % n)
    BY <2>1, DivOf
  <2> QED  BY <2>2
<1>4. u = r
  BY <1>1, <1>2, <1>3 DEF Reached
<1>5. c - d = n * q - n * t /\ n * q - n * t = n * (q - t)
  <2>1. n * q - n * t = n * (q - t)
    OBVIOUS
  <2>2. PICK x \in Nat, y \in Nat : x = n * q /\ y = n * t
    OBVIOUS
  <2> QED  BY <1>2, <1>3, <1>4, <2>1, <2>2
<1>6. q - t \in Int /\ c - d < n /\ c - d > 0 - n
  OBVIOUS
<1>7. \A z \in Int : n * z < n /\ n * z > 0 - n => z = 0
  <2> SUFFICES ASSUME NEW z \in Int, n * z < n, n * z > 0 - n, z # 0 PROVE FALSE
    OBVIOUS
  <2>1. CASE z >= 1
    <3>1. n * z >= n
      BY <2>1
    <3> QED  BY <3>1
  <2>2. CASE z <= 0 - 1
    <3>1. n * z <= 0 - n
      BY <2>2
    <3> QED  BY <3>1
  <2> QED  BY <2>1, <2>2
<1>8. q - t = 0
  BY <1>5, <1>6, <1>7
<1>9. n * 0 = 0
  OBVIOUS
<1> QED  BY <1>5, <1>8, <1>9

-----------------------------------------------------------------------------
(* The first i slots of a bucket are in the table, each where its search    *)
(* gets to after dist[m] slots that are taken; nothing else is.             *)
PlacedBy(slots, bucket, i, dist) ==
  LET n == 2 * Len(bucket)
      At(m, d) == Reached(n, bucket[m].hash, d)
  IN  /\ dist \in [1 .. i -> 0 .. n - 1]
      /\ \A m \in 1 .. i : slots[At(m, dist[m])] = bucket[m]
      /\ \A m \in 1 .. i : \A d \in 0 .. dist[m] - 1 : slots[At(m, d)].offset # 0
      /\ \A p \in 0 .. n - 1 :
           slots[p] = FreeSlot \/ \E m \in 1 .. i : p = At(m, dist[m])
      /\ \A l, m \in 1 .. i :
           l < m /\ HashRest(bucket[l].hash) = HashRest(bucket[m].hash)
             => dist[l] < dist[m]

FilledBy(slots, bucket, i) ==
  /\ slots \in SlotArray(Len(bucket))
  /\ \E dist : PlacedBy(slots, bucket, i, dist)

UsedSlots == {s \in RawSlot : s.offset # 0}

(* A table has a free place as long as its bucket has fewer slots than     *)
(* places.                                                                 *)
LEMMA RoomLeft ==
  ASSUME NEW bucket \in Seq(UsedSlots), Len(bucket) > 0, NEW i \in 0 .. Len(bucket),
         NEW slots, FilledBy(slots, bucket, i)
  PROVE  \E p \in 0 .. 2 * Len(bucket) - 1 : slots[p] = FreeSlot
<1> SUFFICES ASSUME \A p \in 0 .. 2 * Len(bucket) - 1 : slots[p] # FreeSlot
             PROVE  FALSE
  OBVIOUS
<1>1. PICK n \in Nat : n = 2 * Len(bucket) /\ i < n
  OBVIOUS
<1>2. PICK dist : PlacedBy(slots, bucket, i, dist)
  BY DEF FilledBy
<1> DEFINE At(m) == Reached(n, bucket[m].hash, dist[m])
           f == [p \in 0 .. n - 1 |-> CHOOSE m \in 1 .. i : p = At(m)]
<1>3. \A p \in 0 .. n - 1 : \E m \in 1 .. i : p = At(m)
  BY <1>1, <1>2 DEF PlacedBy
<1>4. \A p \in 0 .. n - 1 : f[p] \in 1 .. i /\ p = At(f[p])
  BY <1>3
<1>5. f \in [0 .. n - 1 -> 1 .. i]
  BY <1>4
<1>6. /\ IsFiniteSet(0 .. n - 1) /\ Cardinality(0 .. n - 1) = n
      /\ IsFiniteSet(1 .. i) /\ Cardinality(1 .. i) = i
  <2>1. 0 \in Int /\ n - 1 \in Int /\ 1 \in Int /\ i \in Int
    OBVIOUS
  <2>2. /\ IsFiniteSet(0 .. n - 1)
        /\ Cardinality(0 .. n - 1) = IF 0 > n - 1 THEN 0 ELSE (n - 1) - 0 + 1
    BY <2>1, FS_Interval
  <2>3. /\ IsFiniteSet(1 .. i)
        /\ Cardinality(1 .. i) = IF 1 > i THEN 0 ELSE i - 1 + 1
    BY <2>1, FS_Interval
  <2> QED  BY <2>2, <2>3
<1> HIDE DEF f
<1>7. PICK p \in 0 .. n - 1, q \in 0 .. n - 1 : p # q /\ f[p] = f[q]
  <2>1. Cardinality(1 .. i) < Cardinality(0 .. n - 1)
    BY <1>1, <1>6
  <2> QED  BY <1>5, <1>6, <2>1, FS_PigeonHole
<1> QED  BY <1>4, <1>7

(* Placing the next slot keeps the earlier ones reachable, and in order.   *)
LEMMA PlaceSlotFills ==
  ASSUME NEW bucket \in Seq(UsedSlots), NEW i \in 0 .. Len(bucket) - 1, NEW slots,
         FilledBy(slots, bucket, i)
  PROVE  FilledBy(PlaceSlot(slots, bucket[i + 1]), bucket, i + 1)
<1>1. PICK n \in Nat \ {0} : n = 2 * Len(bucket) /\ i < n
  OBVIOUS
<1>2. PICK dist : PlacedBy(slots, bucket, i, dist)
  BY DEF FilledBy
<1>3. slots \in [0 .. n - 1 -> RawSlot] /\ DOMAIN slots = 0 .. n - 1
  BY <1>1 DEF FilledBy, SlotArray
<1>4. Cardinality(DOMAIN slots) = n
  <2>1. 0 \in Int /\ n - 1 \in Int
    OBVIOUS
  <2>2. Cardinality(0 .. n - 1) = IF 0 > n - 1 THEN 0 ELSE (n - 1) - 0 + 1
    BY <2>1, FS_Interval
  <2> QED  BY <1>3, <2>2
<1>5. PICK slot \in UsedSlots : slot = bucket[i + 1]
  <2>1. i + 1 \in 1 .. Len(bucket)
    OBVIOUS
  <2> QED  BY <2>1
<1>6. slot \in RawSlot /\ slot.offset # 0 /\ slot.hash \in Nat
  BY WordSizes DEF UsedSlots, RawSlot, Words
<1>7. \A m \in 1 .. i + 1 : bucket[m] \in RawSlot /\ bucket[m].offset # 0 /\ bucket[m].hash \in Nat
  <2>1. \A m \in 1 .. i + 1 : m \in 1 .. Len(bucket)
    OBVIOUS
  <2>2. \A m \in 1 .. i + 1 : bucket[m] \in UsedSlots
    BY <2>1
  <2> QED  BY <2>2, WordSizes DEF UsedSlots, RawSlot, Words
<1> DEFINE Is(d) == /\ slots[Reached(n, slot.hash, d)].offset = 0
                    /\ \A e \in 0 .. d - 1 : slots[Reached(n, slot.hash, e)].offset # 0
<1>8. \E d \in 0 .. n - 1 : Is(d)
  <2> DEFINE T == {d \in 0 .. n - 1 : slots[Reached(n, slot.hash, d)].offset = 0}
  <2>1. PICK p \in 0 .. n - 1 : slots[p] = FreeSlot
    BY <1>1, RoomLeft
  <2>2. PICK d \in 0 .. n - 1 : Reached(n, slot.hash, d) = p
    BY <1>6, ReachedAll
  <2>3. d \in T
    BY <2>1, <2>2, FreeSlotType
  <2>4. T \subseteq Nat
    OBVIOUS
  <2>5. PICK e \in T : \A c \in T : e <= c
    <3> HIDE DEF T
    <3> QED  BY <2>3, <2>4, LeastNat
  <2>6. \A c \in 0 .. e - 1 : c \notin T /\ c \in 0 .. n - 1
    BY <2>5
  <2>7. Is(e)
    BY <2>5, <2>6
  <2> QED  BY <2>5, <2>7
<1>9. PICK free \in 0 .. n - 1 :
        /\ Is(free)
        /\ PlaceSlot(slots, slot) = [slots EXCEPT ![Reached(n, slot.hash, free)] = slot]
  <2>1. PICK free : free = CHOOSE d \in 0 .. n - 1 : Is(d)
    OBVIOUS
  <2>2. free \in 0 .. n - 1 /\ Is(free)
    <3> HIDE DEF Is
    <3> QED  BY <1>8, <2>1
  <2>3. PlaceSlot(slots, slot) = [slots EXCEPT ![Reached(n, slot.hash, free)] = slot]
    BY <1>4, <2>1 DEF PlaceSlot, Reached
  <2> QED  BY <2>2, <2>3
<1>10. PICK at \in 0 .. n - 1 : at = Reached(n, slot.hash, free)
  <2>1. free \in Nat
    OBVIOUS
  <2>2. Reached(n, slot.hash, free) \in 0 .. n - 1
    BY <1>6, <2>1, ReachedRange
  <2> QED  BY <2>2
<1>11. PICK new : new = [slots EXCEPT ![at] = slot]
  OBVIOUS
<1>12. /\ new \in [0 .. n - 1 -> RawSlot] /\ new[at] = slot
       /\ \A p \in 0 .. n - 1 : p # at => new[p] = slots[p]
       /\ slots[at].offset = 0
  BY <1>3, <1>6, <1>9, <1>10, <1>11
<1>13. \A p \in 0 .. n - 1 : slots[p].offset # 0 => new[p] = slots[p] /\ new[p].offset # 0
  BY <1>12
<1> DEFINE At(m, d) == Reached(n, bucket[m].hash, d)
           longer == [m \in 1 .. i + 1 |-> IF m = i + 1 THEN free ELSE dist[m]]
<1>14. \A m \in 1 .. i + 1 : m \in 1 .. i \/ m = i + 1
  OBVIOUS
<1>15. \A m \in 1 .. i : /\ m \in 1 .. i + 1 /\ longer[m] = dist[m]
                         /\ dist[m] \in 0 .. n - 1
  BY <1>1, <1>2 DEF PlacedBy
<1>16. longer[i + 1] = free /\ i + 1 \in 1 .. i + 1 /\ longer \in [1 .. i + 1 -> 0 .. n - 1]
  <2>1. \A m \in 1 .. i + 1 : (IF m = i + 1 THEN free ELSE dist[m]) \in 0 .. n - 1
    BY <1>14, <1>15
  <2> QED  BY <2>1
<1>17. \A m \in 1 .. i + 1 : \A d \in Nat : At(m, d) \in 0 .. n - 1
  BY <1>7, ReachedRange
<1>18. /\ \A m \in 1 .. i : slots[At(m, dist[m])] = bucket[m]
       /\ \A m \in 1 .. i : \A d \in 0 .. dist[m] - 1 : slots[At(m, d)].offset # 0
       /\ \A p \in 0 .. n - 1 :
            slots[p] = FreeSlot \/ \E m \in 1 .. i : p = At(m, dist[m])
       /\ \A l, m \in 1 .. i :
            l < m /\ HashRest(bucket[l].hash) = HashRest(bucket[m].hash)
              => dist[l] < dist[m]
  BY <1>1, <1>2 DEF PlacedBy
<1>19. At(i + 1, free) = at /\ \A d : At(i + 1, d) = Reached(n, slot.hash, d)
  BY <1>5, <1>10
<1> HIDE DEF longer, At
<1>20. \A m \in 1 .. i + 1 : new[At(m, longer[m])] = bucket[m]
  <2>1. ASSUME NEW m \in 1 .. i PROVE new[At(m, longer[m])] = bucket[m]
    <3>1. slots[At(m, dist[m])].offset # 0
      BY <1>7, <1>15, <1>18
    <3>2. At(m, dist[m]) \in 0 .. n - 1
      <4>1. dist[m] \in Nat /\ m \in 1 .. i + 1
        BY <1>15
      <4> QED  BY <1>17, <4>1
    <3> QED  BY <1>13, <1>15, <1>18, <3>1, <3>2
  <2>2. new[At(i + 1, longer[i + 1])] = bucket[i + 1]
    BY <1>5, <1>12, <1>16, <1>19
  <2> QED  BY <1>14, <2>1, <2>2
<1>21. \A m \in 1 .. i + 1 : \A d \in 0 .. longer[m] - 1 : new[At(m, d)].offset # 0
  <2>1. ASSUME NEW m \in 1 .. i, NEW d \in 0 .. dist[m] - 1 PROVE new[At(m, d)].offset # 0
    <3>1. d \in Nat /\ m \in 1 .. i + 1
      BY <1>15
    <3> QED  BY <1>13, <1>17, <1>18, <3>1
  <2>2. ASSUME NEW d \in 0 .. free - 1 PROVE new[At(i + 1, d)].offset # 0
    <3>1. d \in Nat /\ At(i + 1, d) \in 0 .. n - 1
      <4>1. d \in Nat
        OBVIOUS
      <4> QED  BY <1>16, <1>17, <4>1
    <3>2. slots[At(i + 1, d)].offset # 0
      BY <1>9, <1>19
    <3> QED  BY <1>13, <3>1, <3>2
  <2> QED  BY <1>14, <1>15, <1>16, <2>1, <2>2
<1>22. \A p \in 0 .. n - 1 : new[p] = FreeSlot \/ \E m \in 1 .. i + 1 : p = At(m, longer[m])
  <2> SUFFICES ASSUME NEW p \in 0 .. n - 1, new[p] # FreeSlot
               PROVE  \E m \in 1 .. i + 1 : p = At(m, longer[m])
    OBVIOUS
  <2>1. CASE p = at
    BY <1>16, <1>19, <2>1
  <2>2. CASE p # at
    <3>1. slots[p] # FreeSlot
      BY <1>12, <2>2
    <3>2. PICK m \in 1 .. i : p = At(m, dist[m])
      BY <1>18, <3>1
    <3> QED  BY <1>15, <3>2
  <2> QED  BY <2>1, <2>2
<1>23. \A l, m \in 1 .. i + 1 :
         l < m /\ HashRest(bucket[l].hash) = HashRest(bucket[m].hash)
           => longer[l] < longer[m]
  <2> SUFFICES ASSUME NEW l \in 1 .. i + 1, NEW m \in 1 .. i + 1, l < m,
                      HashRest(bucket[l].hash) = HashRest(bucket[m].hash)
               PROVE  longer[l] < longer[m]
    OBVIOUS
  <2>1. l \in 1 .. i
    OBVIOUS
  <2>2. CASE m \in 1 .. i
    BY <1>15, <1>18, <2>1, <2>2
  <2>3. CASE m = i + 1
    <3>1. \A d : At(l, d) = At(m, d)
      BY DEF At, Reached
    <3>2. longer[m] = free /\ At(m, free) = at
      BY <1>16, <1>19, <2>3
    <3>3. slots[At(l, dist[l])].offset # 0
      BY <1>7, <1>15, <1>18, <2>1
    <3>4. dist[l] # free
      BY <1>12, <3>1, <3>2, <3>3
    <3>5. ~(free \in 0 .. dist[l] - 1)
      BY <1>12, <1>18, <2>1, <3>1, <3>2
    <3> QED  BY <1>15, <2>1, <3>2, <3>4, <3>5
  <2> QED  BY <1>14, <2>2, <2>3
<1>24. PlacedBy(new, bucket, i + 1, longer)
  BY <1>1, <1>16, <1>20, <1>21, <1>22, <1>23 DEF PlacedBy, At
<1>25. PlaceSlot(slots, bucket[i + 1]) = new
  BY <1>5, <1>9, <1>10, <1>11
<1>26. new \in SlotArray(Len(bucket))
  BY <1>1, <1>12 DEF SlotArray
<1> QED  BY <1>24, <1>25, <1>26 DEF FilledBy

-----------------------------------------------------------------------------
(* A record and its slot.                                                  *)

(* The table that FillTable makes has all slots of the bucket.             *)
LEMMA BucketFilled ==
  ASSUME NEW bucket \in Seq(UsedSlots)
  PROVE  FilledBy(FillTable(bucket), bucket, Len(bucket))
<1>1. PICK n \in Nat : n = Len(bucket)
  OBVIOUS
<1>2. bucket \in Seq(RawSlot)
  <2>1. UsedSlots \subseteq RawSlot
    BY DEF UsedSlots
  <2> QED  BY <2>1
<1>3. PICK g \in [0 .. Len(bucket) -> SlotArray(Len(bucket))] : Fills(g, bucket)
  BY <1>2, FillTableTrace
<1> DEFINE S == {i \in 0 .. n : FilledBy(g[i], bucket, i)}
<1>4. 0 \in S
  <2>1. g[0] = [p \in 0 .. 2 * Len(bucket) - 1 |-> FreeSlot] /\ g[0] \in SlotArray(Len(bucket))
    <3>1. 0 \in 0 .. Len(bucket)
      BY <1>1
    <3> QED  BY <1>3, <3>1 DEF Fills
  <2>2. \A p \in 0 .. 2 * Len(bucket) - 1 : g[0][p] = FreeSlot
    BY <2>1
  <2>3. PICK none : none \in [1 .. 0 -> 0 .. 2 * Len(bucket) - 1]
    <3>1. [m \in 1 .. 0 |-> 0] \in [1 .. 0 -> 0 .. 2 * Len(bucket) - 1]
      OBVIOUS
    <3> QED  BY <3>1
  <2>4. PlacedBy(g[0], bucket, 0, none)
    BY <2>2, <2>3 DEF PlacedBy
  <2> QED  BY <1>1, <2>1, <2>4 DEF FilledBy
<1>5. ASSUME NEW i \in 0 .. n - 1, i \in S PROVE i + 1 \in S
  <2>1. i + 1 \in 1 .. Len(bucket) /\ (i + 1) - 1 = i /\ i + 1 \in 0 .. n
        /\ i \in 0 .. Len(bucket) - 1
    BY <1>1
  <2>2. g[i + 1] = PlaceSlot(g[i], bucket[i + 1])
    BY <1>3, <2>1 DEF Fills
  <2>3. FilledBy(g[i], bucket, i)
    BY <1>5
  <2>4. FilledBy(g[i + 1], bucket, i + 1)
    BY <2>1, <2>2, <2>3, PlaceSlotFills
  <2> QED  BY <2>1, <2>4
<1>6. n \in S
  <2>1. n \in 0 .. n
    BY <1>1
  <2> HIDE DEF S
  <2> QED  BY <1>1, <1>4, <1>5, <2>1, UpTo
<1> QED  BY <1>1, <1>3, <1>6 DEF Fills

-----------------------------------------------------------------------------
(* The place of a record in its bucket. *)
Rank(a, i) == Len(BucketOf(Prefix(a, i), Bucket(Hash[a[i].key])))

(* How many slots of its bucket are before that of a record.               *)
LEMMA RankOf ==
  ASSUME NEW a \in Seq(Record), NEW i \in 1 .. Len(a), NEW j, j = Bucket(Hash[a[i].key])
  PROVE  /\ Rank(a, i) \in 1 .. Len(BucketOf(a, j))
         /\ BucketOf(a, j)[Rank(a, i)] = SlotOf(a, i)
         /\ Rank(a, i) = Len(BucketOf(Prefix(a, i - 1), j)) + 1
  BY BucketPlace DEF Rank

(* How many slots a bucket has after i records. *)
LEMMA BucketLonger ==
  ASSUME NEW a \in Seq(Record), NEW j, NEW i \in 0 .. Len(a), NEW k \in 0 .. Len(a), i <= k
  PROVE  Len(BucketOf(Prefix(a, i), j)) <= Len(BucketOf(Prefix(a, k), j))
<1> DEFINE Size(n) == Len(BucketOf(Prefix(a, n), j))
           S == {n \in 0 .. Len(a) - i : Size(i) <= Size(i + n)}
<1>1. \A n \in 0 .. Len(a) : Size(n) \in Nat
  <2> SUFFICES ASSUME NEW n \in 0 .. Len(a) PROVE Size(n) \in Nat
    OBVIOUS
  <2>1. Prefix(a, n) \in Seq(Record)
    BY PrefixType
  <2>2. BucketOf(Prefix(a, n), j) \in Seq(RawSlot)
    BY <2>1, BucketOfType
  <2> QED  BY <2>2
<1>2. \A n \in 1 .. Len(a) : Size(n - 1) <= Size(n)
  <2> SUFFICES ASSUME NEW n \in 1 .. Len(a) PROVE Size(n - 1) <= Size(n)
    OBVIOUS
  <2>1. n - 1 \in 0 .. Len(a) /\ Size(n - 1) \in Nat
    <3>1. n - 1 \in 0 .. Len(a)
      OBVIOUS
    <3> QED  BY <1>1, <3>1
  <2>2. CASE j = Bucket(Hash[a[n].key])
    <3>1. Size(n) = Size(n - 1) + 1
      BY <2>2, BucketPlace
    <3> QED  BY <2>1, <3>1
  <2>3. CASE j # Bucket(Hash[a[n].key])
    <3>1. Size(n) = Size(n - 1)
      BY <2>3, BucketOfOther
    <3> QED  BY <2>1, <3>1
  <2> QED  BY <2>2, <2>3
<1> HIDE DEF Size
<1>3. 0 \in S
  <2>1. i + 0 = i /\ Size(i) \in Nat /\ 0 \in 0 .. Len(a) - i
    BY <1>1
  <2> QED  BY <2>1
<1>4. ASSUME NEW n \in 0 .. (Len(a) - i) - 1, n \in S PROVE n + 1 \in S
  <2>1. i + (n + 1) \in 1 .. Len(a) /\ (i + (n + 1)) - 1 = i + n /\ n + 1 \in 0 .. Len(a) - i
        /\ i + n \in 0 .. Len(a) /\ i + (n + 1) \in 0 .. Len(a)
    OBVIOUS
  <2>2. Size(i + n) <= Size(i + (n + 1)) /\ Size(i) <= Size(i + n)
    BY <1>2, <1>4, <2>1
  <2>3. Size(i) \in Nat /\ Size(i + n) \in Nat /\ Size(i + (n + 1)) \in Nat
    BY <1>1, <2>1
  <2> QED  BY <2>1, <2>2, <2>3
<1>5. \A n \in 0 .. Len(a) - i : n \in S
  <2>1. Len(a) - i \in Nat
    OBVIOUS
  <2> HIDE DEF S
  <2> QED  BY <1>3, <1>4, <2>1, UpTo
<1>6. k - i \in 0 .. Len(a) - i /\ i + (k - i) = k
  OBVIOUS
<1>7. Size(i) <= Size(k)
  BY <1>5, <1>6
<1> QED  BY <1>7 DEF Size

(* Later records come later in the bucket. *)
LEMMA RankGrows ==
  ASSUME NEW a \in Seq(Record), NEW i \in 1 .. Len(a), NEW k \in 1 .. Len(a), i < k,
         Bucket(Hash[a[i].key]) = Bucket(Hash[a[k].key])
  PROVE  Rank(a, i) < Rank(a, k)
<1>1. PICK j : j = Bucket(Hash[a[k].key])
  OBVIOUS
<1>2. i \in 0 .. Len(a) /\ k - 1 \in 0 .. Len(a) /\ i <= k - 1
  OBVIOUS
<1>3. Len(BucketOf(Prefix(a, i), j)) <= Len(BucketOf(Prefix(a, k - 1), j))
  BY <1>2, BucketLonger
<1>4. Rank(a, i) = Len(BucketOf(Prefix(a, i), j)) /\ Rank(a, i) \in Nat
  <2>1. Rank(a, i) \in 1 .. Len(BucketOf(a, j))
    BY <1>1, RankOf
  <2> QED  BY <1>1, <2>1 DEF Rank
<1>5. Rank(a, k) = Len(BucketOf(Prefix(a, k - 1), j)) + 1 /\ Rank(a, k) \in Nat
  <2>1. Rank(a, k) \in 1 .. Len(BucketOf(a, j))
    BY <1>1, RankOf
  <2> QED  BY <1>1, <2>1, RankOf
<1>6. PICK x \in Nat : x = Len(BucketOf(Prefix(a, k - 1), j))
  <2>1. Len(BucketOf(Prefix(a, k - 1), j)) \in Nat
    BY <1>1, BucketPlace
  <2> QED  BY <2>1
<1> QED  BY <1>3, <1>4, <1>5, <1>6

(* Every slot of a bucket is that of a record. *)
LEMMA RankReached ==
  ASSUME NEW a \in Seq(Record), NEW j, NEW m \in 1 .. Len(BucketOf(a, j))
  PROVE  \E i \in 1 .. Len(a) : Bucket(Hash[a[i].key]) = j /\ Rank(a, i) = m
<1> DEFINE Size(n) == Len(BucketOf(Prefix(a, n), j))
           T == {n \in 0 .. Len(a) : m <= Size(n)}
<1>1. BucketOf(a, j) \in Seq(RawSlot) /\ m \in Nat /\ m > 0
  <2>1. BucketOf(a, j) \in Seq(RawSlot)
    BY BucketOfType
  <2> QED  BY <2>1
<1>2. Len(a) \in T
  <2>1. Prefix(a, Len(a)) = a /\ Len(a) \in 0 .. Len(a)
    BY PrefixAll
  <2> QED  BY <1>1, <2>1
<1>3. PICK n \in T : \A k \in T : n <= k
  <2>1. T \subseteq Nat
    OBVIOUS
  <2> HIDE DEF T
  <2> QED  BY <1>2, <2>1, LeastNat
<1>4. n # 0
  <2>1. Prefix(a, 0) = <<>>
    BY DEF Prefix
  <2>2. Size(0) = 0
    <3>1. Len(<<>>) = 0
      OBVIOUS
    <3> QED  BY <2>1, <3>1, BucketOfEmpty
  <2> QED  BY <1>1, <1>3, <2>2
<1>5. n \in 1 .. Len(a) /\ n - 1 \in 0 .. Len(a)
  BY <1>3, <1>4
<1>6. Size(n - 1) \in Nat
  <2>1. Prefix(a, n - 1) \in Seq(Record)
    BY <1>5, PrefixType
  <2>2. BucketOf(Prefix(a, n - 1), j) \in Seq(RawSlot)
    BY <2>1, BucketOfType
  <2> QED  BY <2>2
<1>7. ~(m <= Size(n - 1))
  BY <1>3, <1>5
<1>8. m <= Size(n)
  BY <1>3
<1>9. CASE j # Bucket(Hash[a[n].key])
  <2>1. Size(n) = Size(n - 1)
    BY <1>5, <1>9, BucketOfOther
  <2> QED  BY <1>7, <1>8, <2>1
<1>10. CASE j = Bucket(Hash[a[n].key])
  <2>1. Size(n) = Size(n - 1) + 1 /\ Rank(a, n) = Size(n)
    BY <1>5, <1>10, BucketPlace DEF Rank
  <2>2. Rank(a, n) = m
    <3> HIDE DEF Size
    <3> QED  BY <1>1, <1>6, <1>7, <1>8, <2>1
  <2> QED  BY <1>5, <1>10, <2>2
<1> QED  BY <1>9, <1>10

-----------------------------------------------------------------------------
(* The offsets a search goes through, in 32 bits.                          *)

(* The next slot, with the wrap at the end of the table.                   *)
LEMMA ReachedNext ==
  ASSUME NEW n \in Nat \ {0}, NEW hash \in Nat, NEW d \in Nat
  PROVE  Reached(n, hash, d + 1)
           = IF Reached(n, hash, d) = n - 1 THEN 0 ELSE Reached(n, hash, d) + 1
<1>1. PICK h \in Nat : h = HashRest(hash)
  BY ReachedRange
<1>2. PICK x \in Nat : x = h + d
  OBVIOUS
<1>3. PICK q \in Nat, r \in 0 .. n - 1 : x = n * q + r /\ r = x % n
  BY DivOf
<1>4. CASE r = n - 1
  <2>1. PICK y \in Nat : y = q + 1
    OBVIOUS
  <2>2. n * y = n * q + n
    <3>1. \A u, v \in Nat : u * (v + 1) = u * v + u
      OBVIOUS
    <3> QED  BY <2>1, <3>1
  <2>3. PICK z \in Nat : z = n * q
    OBVIOUS
  <2>4. x + 1 = n * y + 0
    BY <1>3, <1>4, <2>2, <2>3
  <2>5. 0 \in 0 .. n - 1
    OBVIOUS
  <2>6. (x + 1) % n = 0
    BY <2>4, <2>5, DivUnique
  <2>7. h + (d + 1) = x + 1
    BY <1>2
  <2> QED  BY <1>1, <1>2, <1>3, <1>4, <2>6, <2>7 DEF Reached
<1>5. CASE r # n - 1
  <2>1. r + 1 \in 0 .. n - 1
    BY <1>5
  <2>2. x + 1 = n * q + (r + 1)
    <3>1. PICK z \in Nat : z = n * q
      OBVIOUS
    <3> QED  BY <1>3, <3>1
  <2>3. (x + 1) % n = r + 1
    BY <2>1, <2>2, DivUnique
  <2>4. h + (d + 1) = x + 1
    BY <1>2
  <2> QED  BY <1>1, <1>2, <1>3, <1>5, <2>3, <2>4 DEF Reached
<1> QED  BY <1>4, <1>5

-----------------------------------------------------------------------------
(* The offsets that a search in a table of n slots at t goes through.      *)
OffsetReached(t, n, hash, d) == t + SIZEOF_SLOT * Reached(n, hash, d)

LEMMA U32Exact ==
  ASSUME NEW x \in 1 .. MAX_OFF + 1, NEW y \in 1 .. MAX_OFF + 1
  PROVE  /\ U32(x) = U32(y) <=> x = y
         /\ x <= MAX_OFF => U32(x) = x
<1>1. PICK m \in Nat : m = MAX_OFF
  BY WordSizes
<1>2. \A z \in 0 .. m : z % (m + 1) = z
  OBVIOUS
<1>3. (m + 1) % (m + 1) = 0
  OBVIOUS
<1>4. \A z \in 1 .. m + 1 : z = m + 1 \/ z \in 0 .. m
  OBVIOUS
<1>5. \A z \in 1 .. m + 1 : (z % (m + 1)) = IF z = m + 1 THEN 0 ELSE z
  BY <1>2, <1>3, <1>4
<1>6. U32(x) = IF x = m + 1 THEN 0 ELSE x
  BY <1>1, <1>5 DEF U32
<1>7. U32(y) = IF y = m + 1 THEN 0 ELSE y
  BY <1>1, <1>5 DEF U32
<1>8. x \in 1 .. m + 1 /\ y \in 1 .. m + 1
  BY <1>1
<1> HIDE DEF U32
<1> QED  BY <1>1, <1>6, <1>7, <1>8

(* A slot is wholly within the table, and the table within the words.      *)
LEMMA OffsetInTable ==
  ASSUME NEW t \in Nat \ {0}, NEW n \in Nat \ {0}, t + SIZEOF_SLOT * n <= MAX_OFF + 1,
         NEW r \in 0 .. n - 1
  PROVE  /\ t + SIZEOF_SLOT * r \in 1 .. MAX_OFF
         /\ t + SIZEOF_SLOT * r + SIZEOF_SLOT \in 1 .. MAX_OFF + 1
         /\ t + SIZEOF_SLOT * r + SIZEOF_SLOT <= t + SIZEOF_SLOT * n
         /\ t + SIZEOF_SLOT * r + SIZEOF_SLOT = t + SIZEOF_SLOT * (r + 1)
         /\ t + SIZEOF_SLOT * r + SIZEOF_SLOT = t + SIZEOF_SLOT * n <=> r = n - 1
<1>1. PICK s \in Nat, m \in Nat : s = SIZEOF_SLOT /\ m = MAX_OFF /\ s > 0
  BY WordSizes
<1>2. s * (r + 1) = s * r + s
  OBVIOUS
<1>3. PICK k \in Nat : n = (r + 1) + k
  <2>1. n - (r + 1) \in Nat /\ n = (r + 1) + (n - (r + 1))
    OBVIOUS
  <2> QED  BY <2>1
<1>4. s * n = s * (r + 1) + s * k
  BY <1>3
<1>5. s * k \in Nat /\ (k = 0 => s * k = 0) /\ (k > 0 => s * k > 0)
  BY <1>1
<1>6. PICK x \in Nat, y \in Nat : x = s * r /\ y = s * k
  BY <1>5
<1>7. s * n = x + s + y /\ t + (x + s + y) <= m + 1
  BY <1>1, <1>2, <1>4, <1>6
<1>8. y = 0 <=> r = n - 1
  BY <1>3, <1>5, <1>6
<1> QED  BY <1>1, <1>2, <1>6, <1>7, <1>8

(* The offset of the next slot is exact, although the code adds in 32      *)
(* bits.                                                                   *)
LEMMA NextReached ==
  ASSUME NEW t \in Nat \ {0}, NEW n \in Nat \ {0}, t + SIZEOF_SLOT * n <= MAX_OFF + 1,
         NEW hash \in Nat, NEW d \in Nat
  PROVE  NextTableOffset([offset |-> t, length |-> n], OffsetReached(t, n, hash, d))
           = OffsetReached(t, n, hash, d + 1)
<1>1. PICK r \in 0 .. n - 1 : r = Reached(n, hash, d)
  BY ReachedRange
<1>2. PICK s \in Nat : s = SIZEOF_SLOT /\ s > 0
  BY WordSizes
<1>3. /\ t + s * r \in 1 .. MAX_OFF
      /\ t + s * r + s \in 1 .. MAX_OFF + 1
      /\ t + s * r + s <= t + s * n
      /\ t + s * r + s = t + s * (r + 1)
      /\ t + s * r + s = t + s * n <=> r = n - 1
  BY <1>2, OffsetInTable
<1>4. PICK o \in Nat : o = t + s * r
  BY <1>3
<1>5. PICK e \in Nat : e = t + s * n
  <2>1. s * n \in Nat
    OBVIOUS
  <2> QED  BY <2>1
<1>6. o + s \in 1 .. MAX_OFF + 1 /\ e \in 1 .. MAX_OFF + 1 /\ (o + s = e <=> r = n - 1)
      /\ o + s = t + s * (r + 1) /\ o + s <= e
  <2>1. e <= MAX_OFF + 1
    BY <1>2, <1>5
  <2>2. o + s <= e /\ o + s >= 1
    BY <1>3, <1>4, <1>5
  <2> QED  BY <1>3, <1>4, <1>5, <2>1, <2>2, WordSizes
<1>7. U32(o + s) = U32(e) <=> r = n - 1
  BY <1>6, U32Exact
<1>8. r # n - 1 => U32(o + s) = o + s
  <2>1. r # n - 1 => o + s < e
    BY <1>6
  <2>2. r # n - 1 => o + s <= MAX_OFF
    BY <1>6, <2>1, WordSizes
  <2> QED  BY <1>6, <2>2, U32Exact
<1>9. TableSentinel([offset |-> t, length |-> n]) = U32(e)
  <2>1. n * s = s * n
    OBVIOUS
  <2> QED  BY <1>2, <1>5, <2>1 DEF TableSentinel
<1>10. OffsetReached(t, n, hash, d) = o
  BY <1>1, <1>2, <1>4 DEF OffsetReached
<1>11. NextTableOffset([offset |-> t, length |-> n], o) = IF r = n - 1 THEN t ELSE o + s
  BY <1>2, <1>7, <1>8, <1>9 DEF NextTableOffset
<1>12. CASE r = n - 1
  <2>1. Reached(n, hash, d + 1) = IF r = n - 1 THEN 0 ELSE r + 1
    BY <1>1, ReachedNext
  <2>3. Reached(n, hash, d + 1) = 0
    BY <1>12, <2>1
  <2>2. t + s * 0 = t
    OBVIOUS
  <2> QED  BY <1>2, <1>10, <1>11, <1>12, <2>3, <2>2 DEF OffsetReached
<1>13. CASE r # n - 1
  <2>1. Reached(n, hash, d + 1) = r + 1
    BY <1>1, <1>13, ReachedNext
  <2> QED  BY <1>2, <1>6, <1>10, <1>11, <1>13, <2>1 DEF OffsetReached
<1> QED  BY <1>12, <1>13

-----------------------------------------------------------------------------
(* The offsets that ProbeSlots computes, one after the other. *)
OffsetsOf(at, find) ==
  /\ at = [n \in 0 .. find.table.length |-> at[n]]
  /\ at[0] = find.table_offset
  /\ \A n \in 1 .. find.table.length : at[n] = NextTableOffset(find.table, at[n - 1])

ProbesAt(f, find, at) ==
  LET left == find.table.length - find.key_num
      After(n) == [find EXCEPT !.key_num = @ + n, !.table_offset = at[n]]
      AnswerAfter(n) ==
        IF n = left THEN Answer("miss", 0, 0, After(n))
        ELSE AnswerAt(f, Probe(f, at[n], find.key), ReadSlot(f, at[n]),
                      After(n), After(n + 1))
  IN  AnswerAfter(Min({n \in 0 .. left : n < left => Probe(f, at[n], find.key) # "next"}))

(* ProbeSlots looks at the slots at these offsets until one ends the       *)
(* search.                                                                 *)
LEMMA ProbesAtOffsets ==
  ASSUME NEW f, NEW find, find.table.length \in Nat, NEW at, OffsetsOf(at, find)
  PROVE  ProbeSlots(f, find) = ProbesAt(f, find, at)
<1>1. PICK l \in Nat : l = find.table.length
  OBVIOUS
<1> DEFINE Is(w) == w = [n \in 0 .. find.table.length |->
                          IF n = 0 THEN find.table_offset
                          ELSE NextTableOffset(find.table, w[n - 1])]
<1>2. Is(at)
  <2>1. \A n \in 0 .. l : n = 0 \/ n \in 1 .. l
    OBVIOUS
  <2>2. \A n \in 0 .. l : at[n] = IF n = 0 THEN find.table_offset
                                  ELSE NextTableOffset(find.table, at[n - 1])
    BY <1>1, <2>1 DEF OffsetsOf
  <2>3. at = [n \in 0 .. l |-> at[n]]
    BY <1>1 DEF OffsetsOf
  <2> QED  BY <1>1, <2>2, <2>3
<1>3. Is(CHOOSE w : Is(w))
  <2> HIDE DEF Is
  <2> QED  BY <1>2, Zenon
<1>4. PICK w : w = CHOOSE u : Is(u)
  OBVIOUS
<1>5. Is(w)
  BY <1>3, <1>4
<1> DEFINE S == {n \in 0 .. l : w[n] = at[n]}
<1>6. 0 \in S
  BY <1>1, <1>2, <1>5
<1>7. ASSUME NEW n \in 0 .. l - 1, n \in S PROVE n + 1 \in S
  <2>1. n + 1 \in 1 .. l /\ (n + 1) - 1 = n /\ n + 1 \in 0 .. l /\ n + 1 # 0
    OBVIOUS
  <2>2. w[n + 1] = NextTableOffset(find.table, w[n])
    BY <1>1, <1>5, <2>1
  <2>3. at[n + 1] = NextTableOffset(find.table, at[n])
    BY <1>1, <1>2, <2>1
  <2> QED  BY <1>7, <2>1, <2>2, <2>3
<1>8. \A n \in 0 .. l : n \in S
  <2> HIDE DEF S
  <2> QED  BY <1>6, <1>7, UpTo
<1>9. w = at
  <2>1. w = [n \in 0 .. l |-> w[n]]
    BY <1>1, <1>5
  <2>2. at = [n \in 0 .. l |-> at[n]]
    BY <1>1 DEF OffsetsOf
  <2> HIDE DEF Is
  <2> QED  BY <1>8, <2>1, <2>2
<1>10. ProbeSlots(f, find) = ProbesAt(f, find, w)
  BY <1>4 DEF ProbeSlots, ProbesAt
<1> QED  BY <1>9, <1>10

-----------------------------------------------------------------------------
(* Where a search stops.                                                   *)

(* A search for a key in the table of n slots at t that has consumed d.    *)
Searching(key, t, n, d) ==
  [key |-> key, key_num |-> d, table_offset |-> OffsetReached(t, n, Hash[key], d),
   table |-> [offset |-> t, length |-> n]]

(* What it makes of the d-th slot it gets to. *)
ProbeReached(f, key, t, n, d) == Probe(f, OffsetReached(t, n, Hash[key], d), key)

(* It passes over the slots before the e-th one and ends there. *)
Stops(f, key, t, n, d, e) ==
  /\ \A c \in d .. e - 1 : ProbeReached(f, key, t, n, c) = "next"
  /\ e < n => ProbeReached(f, key, t, n, e) # "next"

StopsWith(f, key, t, n, e) ==
  IF e = n THEN Answer("miss", 0, 0, Searching(key, t, n, n))
  ELSE AnswerAt(f, ProbeReached(f, key, t, n, e),
                ReadSlot(f, OffsetReached(t, n, Hash[key], e)),
                Searching(key, t, n, e), Searching(key, t, n, e + 1))

(* A set of numbers up to n that n belongs to has a least one. *)
LEMMA LeastUpTo ==
  ASSUME NEW n \in Nat, NEW S, S \subseteq 0 .. n, n \in S
  PROVE  /\ Min(S) \in S
         /\ \A x \in 0 .. Min(S) - 1 : x \notin S
<1> DEFINE T == {k \in 0 .. n : \A x \in 0 .. k : x \notin S}
<1>1. \E m \in S : \A x \in S : m <= x
  <2> SUFFICES ASSUME \A m \in S : \E x \in S : ~(m <= x) PROVE FALSE
    OBVIOUS
  <2>1. 0 \in T
    <3>1. ASSUME 0 \in S PROVE FALSE
      <4>1. PICK x \in S : ~(0 <= x)
        BY <3>1
      <4> QED  BY <4>1
    <3> QED  BY <3>1
  <2>2. ASSUME NEW k \in 0 .. n - 1, k \in T PROVE k + 1 \in T
    <3>1. \A x \in 0 .. k + 1 : x \in 0 .. k \/ x = k + 1
      OBVIOUS
    <3>2. ASSUME k + 1 \in S PROVE FALSE
      <4>1. PICK x \in S : ~(k + 1 <= x)
        BY <3>2
      <4>2. x \in 0 .. k
        BY <4>1
      <4> QED  BY <2>2, <4>2
    <3>3. k + 1 \in 0 .. n
      OBVIOUS
    <3> QED  BY <2>2, <3>1, <3>2, <3>3
  <2>3. n \in T
    <3>1. n \in 0 .. n
      OBVIOUS
    <3> HIDE DEF T
    <3> QED  BY <2>1, <2>2, <3>1, UpTo
  <2> QED  BY <2>3
<1>2. Min(S) \in S /\ \A x \in S : Min(S) <= x
  BY <1>1 DEF Min
<1>3. PICK m \in 0 .. n : m = Min(S)
  BY <1>2
<1> QED  BY <1>2, <1>3

(* A search stops at the first slot that is free or a hit, or when all are *)
(* consumed.                                                               *)
LEMMA ProbeStops ==
  ASSUME NEW f, NEW key, Hash[key] \in Nat, NEW t \in Nat \ {0}, NEW n \in Nat \ {0},
         t + SIZEOF_SLOT * n <= MAX_OFF + 1, NEW d \in 0 .. n
  PROVE  \E e \in d .. n : /\ Stops(f, key, t, n, d, e)
                           /\ ProbeSlots(f, Searching(key, t, n, d))
                                = StopsWith(f, key, t, n, e)
<1> DEFINE find == Searching(key, t, n, d)
           at == [x \in 0 .. n |-> OffsetReached(t, n, Hash[key], d + x)]
<1>1. PICK h \in Nat : h = Hash[key]
  OBVIOUS
<1>2. /\ find.key = key /\ find.key_num = d
      /\ find.table_offset = OffsetReached(t, n, h, d)
      /\ find.table = [offset |-> t, length |-> n]
      /\ find.table.length = n
  BY <1>1 DEF Searching
<1>3. \A x \in Nat : NextTableOffset([offset |-> t, length |-> n],
                                     OffsetReached(t, n, h, d + x))
                       = OffsetReached(t, n, h, d + x + 1)
  <2> TAKE x \in Nat
  <2>1. d + x \in Nat
    OBVIOUS
  <2> QED  BY <2>1, NextReached
<1>4. OffsetsOf(at, find)
  <2>1. \A x \in 1 .. n : x - 1 \in 0 .. n /\ x - 1 \in Nat /\ d + (x - 1) + 1 = d + x
                          /\ x \in 0 .. n
    OBVIOUS
  <2>2. \A x \in 0 .. n : at[x] = OffsetReached(t, n, h, d + x)
    BY <1>1
  <2>3. \A x \in 1 .. n : at[x] = NextTableOffset(find.table, at[x - 1])
    <3> HIDE DEF at, find
    <3> TAKE x \in 1 .. n
    <3>1. at[x - 1] = OffsetReached(t, n, h, d + (x - 1))
      BY <2>1, <2>2
    <3>2. at[x] = OffsetReached(t, n, h, d + (x - 1) + 1)
      BY <2>1, <2>2
    <3> QED  BY <1>2, <1>3, <2>1, <3>1, <3>2
  <2>4. at[0] = find.table_offset
    <3>1. 0 \in 0 .. n /\ d + 0 = d
      OBVIOUS
    <3> QED  BY <1>2, <2>2, <3>1
  <2>5. at = [x \in 0 .. n |-> at[x]]
    OBVIOUS
  <2> HIDE DEF at, find
  <2> QED  BY <1>2, <2>3, <2>4, <2>5 DEF OffsetsOf
<1>5. ProbeSlots(f, find) = ProbesAt(f, find, at)
  <2> HIDE DEF find, at
  <2> QED  BY <1>2, <1>4, ProbesAtOffsets
<1>6. PICK left \in Nat : left = n - d /\ left <= n
  OBVIOUS
<1> DEFINE S == {x \in 0 .. left : x < left => Probe(f, at[x], key) # "next"}
<1>7. PICK m \in 0 .. left : m = Min(S) /\ m \in S /\ \A x \in 0 .. m - 1 : x \notin S
  <2>1. S \subseteq 0 .. left /\ left \in S
    BY <1>6
  <2> HIDE DEF S
  <2> QED  BY <1>6, <2>1, LeastUpTo
<1>8. PICK e \in d .. n : e = d + m
  BY <1>6
<1>9. \A x \in 0 .. n : at[x] = OffsetReached(t, n, Hash[key], d + x)
  OBVIOUS
<1>10. \A x \in 0 .. left :
         [find EXCEPT !.key_num = @ + x, !.table_offset = at[x]] = Searching(key, t, n, d + x)
  <2> TAKE x \in 0 .. left
  <2>1. x \in 0 .. n
    BY <1>6
  <2>2. at[x] = OffsetReached(t, n, Hash[key], d + x)
    BY <1>9, <2>1
  <2>3. PICK o, p, q : /\ o = OffsetReached(t, n, Hash[key], d)
                       /\ p = OffsetReached(t, n, Hash[key], d + x)
                       /\ q = [offset |-> t, length |-> n]
    OBVIOUS
  <2>4. find = [key |-> key, key_num |-> d, table_offset |-> o, table |-> q]
    BY <2>3 DEF Searching
  <2>5. Searching(key, t, n, d + x)
          = [key |-> key, key_num |-> d + x, table_offset |-> p, table |-> q]
    BY <2>3 DEF Searching
  <2>6. at[x] = p
    BY <2>2, <2>3
  <2>7. find.key_num = d
    BY <1>2
  <2> HIDE DEF at, find
  <2>8. [find EXCEPT !.key_num = @ + x, !.table_offset = at[x]]
          = [[find EXCEPT !.key_num = d + x] EXCEPT !.table_offset = p]
    BY <2>6, <2>7
  <2>9. [[key |-> key, key_num |-> d, table_offset |-> o, table |-> q]
           EXCEPT !.key_num = d + x]
          = [key |-> key, key_num |-> d + x, table_offset |-> o, table |-> q]
    OBVIOUS
  <2>10. [[key |-> key, key_num |-> d + x, table_offset |-> o, table |-> q]
            EXCEPT !.table_offset = p]
           = [key |-> key, key_num |-> d + x, table_offset |-> p, table |-> q]
    OBVIOUS
  <2> QED  BY <2>4, <2>5, <2>8, <2>9, <2>10
<1>11. m = left <=> e = n
  BY <1>6, <1>8
<1>12. ProbesAt(f, find, at)
         = IF m = left
           THEN Answer("miss", 0, 0, [find EXCEPT !.key_num = @ + m, !.table_offset = at[m]])
           ELSE AnswerAt(f, Probe(f, at[m], key), ReadSlot(f, at[m]),
                         [find EXCEPT !.key_num = @ + m, !.table_offset = at[m]],
                         [find EXCEPT !.key_num = @ + (m + 1), !.table_offset = at[m + 1]])
  <2>1. S = {x \in 0 .. left : x < left => Probe(f, at[x], find.key) # "next"}
    <3> HIDE DEF find, at
    <3> QED  BY <1>2
  <2> HIDE DEF find, at, S
  <2> QED  BY <1>2, <1>6, <1>7, <2>1 DEF ProbesAt
<1>13. ProbesAt(f, find, at) = StopsWith(f, key, t, n, e)
  <2>1. CASE m = left
    <3>1. [find EXCEPT !.key_num = @ + m, !.table_offset = at[m]] = Searching(key, t, n, n)
      BY <1>8, <1>10, <1>11, <2>1
    <3> HIDE DEF find, at
    <3> QED  BY <1>11, <1>12, <2>1, <3>1 DEF StopsWith
  <2>2. CASE m # left
    <3>1. m + 1 \in 0 .. left /\ m \in 0 .. left /\ d + (m + 1) = e + 1 /\ m \in 0 .. n
      <4>1. m \in 0 .. left /\ e = d + m /\ left = n - d
        BY <1>6, <1>7, <1>8
      <4> HIDE DEF S, at, find
      <4> QED  BY <1>6, <2>2, <4>1
    <3>2. [find EXCEPT !.key_num = @ + m, !.table_offset = at[m]] = Searching(key, t, n, e)
      BY <1>8, <1>10, <3>1
    <3>3. [find EXCEPT !.key_num = @ + (m + 1), !.table_offset = at[m + 1]]
            = Searching(key, t, n, e + 1)
      BY <1>10, <3>1
    <3>4. at[m] = OffsetReached(t, n, Hash[key], e)
      BY <1>8, <1>9, <3>1
    <3> HIDE DEF find, at
    <3> QED  BY <1>11, <1>12, <2>2, <3>2, <3>3, <3>4 DEF StopsWith, ProbeReached
  <2> QED  BY <2>1, <2>2
<1>14. Stops(f, key, t, n, d, e)
  <2>1. ASSUME NEW c \in d .. e - 1 PROVE ProbeReached(f, key, t, n, c) = "next"
    <3>1. PICK x \in 0 .. m - 1 : c = d + x /\ x \in 0 .. n /\ x < left /\ x \in 0 .. left
      <4>1. c - d \in 0 .. m - 1 /\ c = d + (c - d) /\ c - d < left
        <5>1. m \in 0 .. left /\ e = d + m
          BY <1>7, <1>8
        <5> HIDE DEF S, at, find
        <5> QED  BY <1>6, <5>1
      <4> HIDE DEF S, at, find
      <4> QED  BY <1>6, <4>1
    <3>2. Probe(f, at[x], key) = "next"
      <4> HIDE DEF at
      <4> QED  BY <1>7, <3>1
    <3>3. at[x] = OffsetReached(t, n, Hash[key], c)
      BY <1>9, <3>1
    <3> QED  BY <3>2, <3>3 DEF ProbeReached
  <2>2. ASSUME e < n PROVE ProbeReached(f, key, t, n, e) # "next"
    <3>1. m < left /\ m \in 0 .. n
      BY <1>6, <1>8, <2>2
    <3>2. Probe(f, at[m], key) # "next"
      <4> HIDE DEF at
      <4> QED  BY <1>7, <3>1
    <3>3. at[m] = OffsetReached(t, n, Hash[key], e)
      BY <1>8, <1>9, <3>1
    <3> QED  BY <3>2, <3>3 DEF ProbeReached
  <2> QED  BY <2>1, <2>2 DEF Stops
<1> HIDE DEF find
<1>15. ProbeSlots(f, find) = StopsWith(f, key, t, n, e)
  <2> HIDE DEF at
  <2> QED  BY <1>5, <1>13
<1> QED  BY <1>14, <1>15 DEF find

-----------------------------------------------------------------------------
(* The records with one hash are in their table in the order of the records. *)

(* The table of bucket j as a search for a hash goes through it. *)
SlotsFor(a, j) == 2 * Len(BucketOf(a, j))
SlotReached(a, j, hash, d) == FillTable(BucketOf(a, j))[Reached(SlotsFor(a, j), hash, d)]

RecordsWith(a, hash) == {i \in 1 .. Len(a) : Hash[a[i].key] = hash}

(* The records with this hash are reached in the order they were added,    *)
(* each behind slots that are all taken; a free slot is reached, too.      *)
InOrder(a, j, hash, place) ==
  /\ place \in [RecordsWith(a, hash) -> 0 .. SlotsFor(a, j) - 1]
  /\ \A i, k \in RecordsWith(a, hash) : i < k => place[i] < place[k]
  /\ \A i \in RecordsWith(a, hash) :
       \A d \in 0 .. place[i] - 1 : SlotReached(a, j, hash, d).offset # 0
  /\ \A i \in RecordsWith(a, hash) : \A d \in 0 .. SlotsFor(a, j) - 1 :
       SlotReached(a, j, hash, d) = SlotOf(a, i) <=> d = place[i]

LEMMA BucketUsed ==
  ASSUME NEW a \in Seq(Record), NEW j
  PROVE  BucketOf(a, j) \in Seq(UsedSlots)
<1>1. BucketOf(a, j) \in Seq(RawSlot)
  BY BucketOfType
<1>2. PICK s \in Seq(RawSlot) : s = BucketOf(a, j)
  BY <1>1
<1>3. \A m \in 1 .. Len(s) : s[m] \in UsedSlots
  <2> TAKE m \in 1 .. Len(s)
  <2>1. PICK i \in 1 .. Len(a) : Bucket(Hash[a[i].key]) = j /\ Rank(a, i) = m
    BY <1>2, RankReached
  <2>2. s[m] = SlotOf(a, i)
    BY <1>2, <2>1, RankOf
  <2>3. SlotOf(a, i).offset # 0
    <3>1. OffsetOf(a, i) >= SIZEOF_TABLE /\ OffsetOf(a, i) \in Nat
      BY OffsetNext
    <3> QED  BY <3>1, SlotOfFields, WordSizes
  <2>4. s[m] \in RawSlot
    BY <1>2
  <2> QED  BY <2>2, <2>3, <2>4 DEF UsedSlots
<1>4. s \in Seq(UsedSlots)
  <2>1. s = [m \in 1 .. Len(s) |-> s[m]] /\ Len(s) \in Nat
    BY <1>2
  <2>2. [m \in 1 .. Len(s) |-> s[m]] \in Seq(UsedSlots)
    BY <1>3, <2>1
  <2> QED  BY <2>1, <2>2
<1> QED  BY <1>2, <1>4

(* A record is the only one at its offset. *)
LEMMA SlotOfOnce ==
  ASSUME NEW a \in Seq(Record), NEW i \in 1 .. Len(a), NEW k \in 1 .. Len(a),
         SlotOf(a, i) = SlotOf(a, k)
  PROVE  i = k
<1>1. OffsetOf(a, i) = OffsetOf(a, k)
  BY SlotOfFields
<1>2. i \in 1 .. Len(a) + 1 /\ k \in 1 .. Len(a) + 1
  OBVIOUS
<1>3. i < k => OffsetOf(a, i) < OffsetOf(a, k)
  BY <1>2, OffsetGrows
<1>4. k < i => OffsetOf(a, k) < OffsetOf(a, i)
  BY <1>2, OffsetGrows
<1>5. OffsetOf(a, i) \in Nat
  BY OffsetNext
<1> QED  BY <1>1, <1>3, <1>4, <1>5

(* Every place holds nothing or a record of the bucket, one is free, and   *)
(* the records with a hash are reached in their order.                     *)
LEMMA SlotsInOrder ==
  ASSUME NEW a \in Seq(Record), NEW hash \in Words, NEW j, j = Bucket(hash)
  PROVE  /\ \A d \in Nat : SlotsFor(a, j) > 0 =>
              \/ SlotReached(a, j, hash, d) = FreeSlot
              \/ \E i \in 1 .. Len(a) : SlotReached(a, j, hash, d) = SlotOf(a, i)
         /\ SlotsFor(a, j) > 0 => \E d \in 0 .. SlotsFor(a, j) - 1 :
                                     SlotReached(a, j, hash, d) = FreeSlot
         /\ \E place : InOrder(a, j, hash, place)
<1>1. PICK bucket \in Seq(UsedSlots) : bucket = BucketOf(a, j)
  BY BucketUsed
<1>2. PICK n \in Nat : n = 2 * Len(bucket) /\ n = SlotsFor(a, j)
  BY <1>1 DEF SlotsFor
<1>3. PICK slots : slots = FillTable(bucket)
  OBVIOUS
<1>4. FilledBy(slots, bucket, Len(bucket))
  BY <1>3, BucketFilled
<1>5. PICK dist : PlacedBy(slots, bucket, Len(bucket), dist)
  BY <1>4 DEF FilledBy
<1>6. hash \in Nat
  BY WordSizes DEF Words
<1>7. \A d : SlotReached(a, j, hash, d) = slots[Reached(n, hash, d)]
  BY <1>1, <1>2, <1>3 DEF SlotReached
<1>8. /\ dist \in [1 .. Len(bucket) -> 0 .. n - 1]
      /\ \A m \in 1 .. Len(bucket) : slots[Reached(n, bucket[m].hash, dist[m])] = bucket[m]
      /\ \A m \in 1 .. Len(bucket) : \A d \in 0 .. dist[m] - 1 :
           slots[Reached(n, bucket[m].hash, d)].offset # 0
      /\ \A p \in 0 .. n - 1 :
           slots[p] = FreeSlot
             \/ \E m \in 1 .. Len(bucket) : p = Reached(n, bucket[m].hash, dist[m])
      /\ \A l, m \in 1 .. Len(bucket) :
           l < m /\ HashRest(bucket[l].hash) = HashRest(bucket[m].hash) => dist[l] < dist[m]
  BY <1>2, <1>5 DEF PlacedBy
<1>9. \A i \in RecordsWith(a, hash) :
        /\ i \in 1 .. Len(a) /\ Bucket(Hash[a[i].key]) = j
        /\ Rank(a, i) \in 1 .. Len(bucket)
        /\ bucket[Rank(a, i)] = SlotOf(a, i)
        /\ bucket[Rank(a, i)].hash = hash
  <2> TAKE i \in RecordsWith(a, hash)
  <2>1. i \in 1 .. Len(a) /\ Hash[a[i].key] = hash /\ j = Bucket(Hash[a[i].key])
    BY DEF RecordsWith
  <2>2. Rank(a, i) \in 1 .. Len(BucketOf(a, j)) /\ BucketOf(a, j)[Rank(a, i)] = SlotOf(a, i)
    BY <2>1, RankOf
  <2>3. SlotOf(a, i).hash = hash
    BY <2>1, SlotOfFields
  <2> QED  BY <1>1, <2>1, <2>2, <2>3
<1>10. \A m \in 1 .. Len(bucket) : \E i \in 1 .. Len(a) :
         Bucket(Hash[a[i].key]) = j /\ Rank(a, i) = m /\ bucket[m] = SlotOf(a, i)
  <2> TAKE m \in 1 .. Len(bucket)
  <2>1. PICK i \in 1 .. Len(a) : Bucket(Hash[a[i].key]) = j /\ Rank(a, i) = m
    BY <1>1, RankReached
  <2>2. BucketOf(a, j)[Rank(a, i)] = SlotOf(a, i)
    BY <2>1, RankOf
  <2> QED  BY <1>1, <2>1, <2>2
<1>11. ASSUME NEW d \in Nat, n > 0, slots[Reached(n, hash, d)] # FreeSlot
       PROVE  \E i \in 1 .. Len(a) :
                /\ slots[Reached(n, hash, d)] = SlotOf(a, i)
                /\ Bucket(Hash[a[i].key]) = j
                /\ Rank(a, i) \in 1 .. Len(bucket)
                /\ Reached(n, hash, d)
                     = Reached(n, bucket[Rank(a, i)].hash, dist[Rank(a, i)])
  <2>4. n \in Nat \ {0}
    BY <1>11
  <2>1. Reached(n, hash, d) \in 0 .. n - 1
    BY <1>6, <2>4, ReachedRange
  <2>2. PICK m \in 1 .. Len(bucket) :
          Reached(n, hash, d) = Reached(n, bucket[m].hash, dist[m])
    BY <1>8, <1>11, <2>1
  <2>3. slots[Reached(n, hash, d)] = bucket[m]
    BY <1>8, <2>2
  <2> QED  BY <1>10, <2>2, <2>3
<1>12. n > 0 => \E d \in 0 .. n - 1 : slots[Reached(n, hash, d)] = FreeSlot
  <2> SUFFICES ASSUME n > 0 PROVE \E d \in 0 .. n - 1 : slots[Reached(n, hash, d)] = FreeSlot
    OBVIOUS
  <2>1. Len(bucket) > 0 /\ Len(bucket) \in 0 .. Len(bucket)
    BY <1>2
  <2>2. PICK p \in 0 .. n - 1 : slots[p] = FreeSlot
    BY <1>2, <1>4, <2>1, RoomLeft
  <2>4. n \in Nat \ {0}
    OBVIOUS
  <2>3. PICK d \in 0 .. n - 1 : Reached(n, hash, d) = p
    BY <1>6, <2>4, ReachedAll
  <2> QED  BY <2>2, <2>3
<1> DEFINE place == [i \in RecordsWith(a, hash) |-> dist[Rank(a, i)]]
<1>13. \A i \in RecordsWith(a, hash) : place[i] = dist[Rank(a, i)] /\ place[i] \in 0 .. n - 1
  BY <1>8, <1>9
<1>14. InOrder(a, j, hash, place)
  <2>1. place \in [RecordsWith(a, hash) -> 0 .. SlotsFor(a, j) - 1]
    BY <1>2, <1>13
  <2>2. ASSUME NEW i \in RecordsWith(a, hash), NEW k \in RecordsWith(a, hash), i < k
        PROVE  place[i] < place[k]
    <3>1. Rank(a, i) < Rank(a, k)
      <4>1. i \in 1 .. Len(a) /\ k \in 1 .. Len(a)
            /\ Bucket(Hash[a[i].key]) = Bucket(Hash[a[k].key])
        BY <1>9
      <4> QED  BY <2>2, <4>1, RankGrows
    <3>2. HashRest(bucket[Rank(a, i)].hash) = HashRest(bucket[Rank(a, k)].hash)
      BY <1>9
    <3>3. dist[Rank(a, i)] < dist[Rank(a, k)]
      BY <1>8, <1>9, <3>1, <3>2
    <3> QED  BY <1>13, <3>3
  <2>3. ASSUME NEW i \in RecordsWith(a, hash), NEW d \in 0 .. place[i] - 1
        PROVE  SlotReached(a, j, hash, d).offset # 0
    <3>1. d \in 0 .. dist[Rank(a, i)] - 1 /\ Rank(a, i) \in 1 .. Len(bucket)
          /\ bucket[Rank(a, i)].hash = hash
      BY <1>9, <1>13
    <3>2. slots[Reached(n, bucket[Rank(a, i)].hash, d)].offset # 0
      BY <1>8, <3>1
    <3> QED  BY <1>7, <3>1, <3>2
  <2>4. ASSUME NEW i \in RecordsWith(a, hash)
        PROVE  SlotReached(a, j, hash, place[i]) = SlotOf(a, i)
    <3>1. /\ Rank(a, i) \in 1 .. Len(bucket) /\ bucket[Rank(a, i)].hash = hash
          /\ bucket[Rank(a, i)] = SlotOf(a, i)
      BY <1>9
    <3>2. slots[Reached(n, bucket[Rank(a, i)].hash, dist[Rank(a, i)])] = bucket[Rank(a, i)]
      BY <1>8, <3>1
    <3> QED  BY <1>7, <1>13, <3>1, <3>2
  <2>5. ASSUME NEW i \in RecordsWith(a, hash), NEW d \in 0 .. SlotsFor(a, j) - 1,
               SlotReached(a, j, hash, d) = SlotOf(a, i)
        PROVE  d = place[i]
    <3>1. d \in 0 .. n - 1 /\ d \in Nat /\ n > 0
      BY <1>2
    <3>2. slots[Reached(n, hash, d)] = SlotOf(a, i) /\ i \in 1 .. Len(a)
      BY <1>7, <1>9, <2>5
    <3>3. slots[Reached(n, hash, d)] # FreeSlot
      <4>1. OffsetOf(a, i) >= SIZEOF_TABLE /\ OffsetOf(a, i) \in Nat
        BY <3>2, OffsetNext
      <4>2. SlotOf(a, i).offset # 0
        BY <3>2, <4>1, SlotOfFields, WordSizes
      <4> QED  BY <3>2, <4>2, FreeSlotType
    <3>4. PICK k \in 1 .. Len(a) :
            /\ slots[Reached(n, hash, d)] = SlotOf(a, k)
            /\ Reached(n, hash, d) = Reached(n, bucket[Rank(a, k)].hash, dist[Rank(a, k)])
      BY <1>11, <3>1, <3>3
    <3>5. k = i
      BY <3>2, <3>4, SlotOfOnce
    <3>6. Reached(n, hash, d) = Reached(n, hash, place[i])
      BY <1>9, <1>13, <3>4, <3>5
    <3>7. place[i] \in 0 .. n - 1
      BY <1>13
    <3> HIDE DEF place
    <3> QED  BY <1>6, <3>1, <3>6, <3>7, ReachedOnce
  <2> HIDE DEF place
  <2> QED  BY <2>1, <2>2, <2>3, <2>4, <2>5 DEF InOrder
<1>15. \A d \in Nat : n > 0 =>
         \/ slots[Reached(n, hash, d)] = FreeSlot
         \/ \E i \in 1 .. Len(a) : slots[Reached(n, hash, d)] = SlotOf(a, i)
  BY <1>11
<1> HIDE DEF place
<1> QED  BY <1>2, <1>7, <1>12, <1>14, <1>15

-----------------------------------------------------------------------------
(* The next record that a search finds.                                    *)

(* A new search begins in the slot that the hash names. *)
LEMMA SearchBegins ==
  ASSUME NEW f, NEW key, Hash[key] \in Nat, NEW t \in Nat \ {0}, NEW n \in Nat \ {0},
         t + SIZEOF_SLOT * n <= MAX_OFF + 1
  PROVE  ProbeTable(f, NewFind(key), [offset |-> t, length |-> n])
           = ProbeSlots(f, Searching(key, t, n, 0))
<1>1. PICK h \in Nat : h = Hash[key]
  OBVIOUS
<1>2. PICK r \in 0 .. n - 1 : r = Reached(n, h, 0) /\ HashRest(h) \in Nat
  <2>1. 0 \in Nat
    OBVIOUS
  <2> QED  BY <2>1, ReachedRange
<1>3. r = HashRest(h) % n
  <2>1. HashRest(h) + 0 = HashRest(h)
    BY <1>2
  <2> QED  BY <1>2, <2>1 DEF Reached
<1>4. t + SIZEOF_SLOT * r \in 1 .. MAX_OFF
  BY OffsetInTable
<1>5. r * SIZEOF_SLOT = SIZEOF_SLOT * r
  BY WordSizes
<1>6. PICK o \in 1 .. MAX_OFF : o = t + SIZEOF_SLOT * r
  BY <1>4
<1>7. U32(o) = o
  <2>1. o \in 1 .. MAX_OFF + 1 /\ o <= MAX_OFF
    BY WordSizes
  <2> QED  BY <2>1, U32Exact
<1>8. PTR_SLOT(Hash[key], [offset |-> t, length |-> n]) = OffsetReached(t, n, h, 0)
  BY <1>1, <1>2, <1>3, <1>5, <1>6, <1>7 DEF PTR_SLOT, OffsetReached
<1>9. PICK table, p : table = [offset |-> t, length |-> n] /\ p = OffsetReached(t, n, h, 0)
  OBVIOUS
<1>10. table.length = n
  BY <1>9
<1>11. [NewFind(key) EXCEPT !.table = table, !.table_offset = p]
         = Searching(key, t, n, 0)
  <2>1. [NewFind(key) EXCEPT !.table = table, !.table_offset = p]
          = [[NewFind(key) EXCEPT !.table = table] EXCEPT !.table_offset = p]
    OBVIOUS
  <2>2. [NewFind(key) EXCEPT !.table = table]
          = [key |-> key, key_num |-> 0, table_offset |-> 0, table |-> table]
    BY DEF NewFind
  <2>3. [[key |-> key, key_num |-> 0, table_offset |-> 0, table |-> table]
           EXCEPT !.table_offset = p]
          = [key |-> key, key_num |-> 0, table_offset |-> p, table |-> table]
    OBVIOUS
  <2>4. Searching(key, t, n, 0)
          = [key |-> key, key_num |-> 0, table_offset |-> p, table |-> table]
    BY <1>1, <1>9 DEF Searching
  <2> QED  BY <2>1, <2>2, <2>3, <2>4
<1>12. NewFind(key).key = key
  BY DEF NewFind
<1> QED  BY <1>1, <1>8, <1>9, <1>10, <1>11, <1>12 DEF ProbeTable

-----------------------------------------------------------------------------
Keyed(a, key) == {i \in 1 .. Len(a) : a[i].key = key}

(* What the search makes of a slot of the table that is laid out. *)
LEMMA ProbeLaid ==
  ASSUME NEW a \in Seq(Record), Fits(a), NEW f, Laid(f, a), NEW key \in Keys,
         NEW j \in Buckets, NEW d \in Nat, SlotsFor(a, j) > 0,
         NEW n \in Nat, n = SlotsFor(a, j), NEW t \in Nat, t = TableAt(a, j)
  PROVE  /\ SlotReached(a, j, Hash[key], d) = FreeSlot
              => ProbeReached(f, key, t, n, d) = "miss"
         /\ \A i \in 1 .. Len(a) : SlotReached(a, j, Hash[key], d) = SlotOf(a, i) =>
              /\ ProbeReached(f, key, t, n, d) = (IF a[i].key = key THEN "hit" ELSE "next")
              /\ ReadSlot(f, OffsetReached(t, n, Hash[key], d)) = SlotOf(a, i)
<1>1. f \in Seq(Bytes) /\ Holds(f, SIZEOF_TABLE, Encoded(a))
      /\ Holds(f, RecordsEnd(a), SlotTables(a, TABLES))
  BY DEF Laid
<1>2. Holds(f, TableAt(a, j), TableBytes(a, j))
  BY <1>1, TableHolds
<1>3. PICK h \in Nat : h = Hash[key]
  BY FormatAssumption, WordSizes DEF Words
<1>4. n \in Nat \ {0}
  OBVIOUS
<1>5. PICK p \in 0 .. n - 1 : p = Reached(n, h, d)
  BY <1>4, ReachedRange
<1>6. p \in 0 .. 2 * Len(BucketOf(a, j)) - 1
  BY DEF SlotsFor
<1>7. Holds(f, t + SIZEOF_SLOT * p, PackSlot(FillTable(BucketOf(a, j))[p]))
  BY <1>1, <1>2, <1>6, SlotHolds
<1>8. PICK o \in Nat : o = t + SIZEOF_SLOT * p
  <2>1. SIZEOF_SLOT * p \in Nat
    BY WordSizes
  <2> QED  BY <2>1
<1>9. OffsetReached(t, n, Hash[key], d) = o
  BY <1>3, <1>5, <1>8 DEF OffsetReached
<1>10. SlotReached(a, j, Hash[key], d) = FillTable(BucketOf(a, j))[p]
  BY <1>3, <1>5 DEF SlotReached
<1>11. Holds(f, o, PackSlot(SlotReached(a, j, Hash[key], d)))
  BY <1>7, <1>8, <1>10
<1>12. SlotReached(a, j, Hash[key], d) = FreeSlot => Probe(f, o, key) = "miss"
  BY <1>1, <1>11, ProbeFree
<1>13. \A i \in 1 .. Len(a) : SlotReached(a, j, Hash[key], d) = SlotOf(a, i) =>
         /\ Probe(f, o, key) = (IF a[i].key = key THEN "hit" ELSE "next")
         /\ ReadSlot(f, o) = SlotOf(a, i)
  BY <1>1, <1>11, ProbeRecord
<1> QED  BY <1>9, <1>12, <1>13 DEF ProbeReached

-----------------------------------------------------------------------------
(* The search has got past the slots of the first records with the key,    *)
(* which are among the first lo, and no further.                           *)
Passed(a, j, key, place, d, lo) ==
  /\ \A c \in 0 .. d - 1 : SlotReached(a, j, Hash[key], c).offset # 0
  /\ \A i \in Keyed(a, key) : i <= lo <=> place[i] < d

AnswerOf(a, i, key, find) ==
  Answer("hit", OffsetOf(a, i) + SIZEOF_DLENGTH + Len(key), Len(a[i].value), find)

Misses(key, t, n) == {Answer("miss", 0, 0, Searching(key, t, n, e)) : e \in 0 .. n}

(* The answer is the next record with the key, or there is none. *)
NextFound(a, j, key, place, lo, answer) ==
  \/ /\ answer \in Misses(key, TableAt(a, j), SlotsFor(a, j))
     /\ \A k \in Keyed(a, key) : k <= lo
  \/ \E i \in Keyed(a, key) :
       /\ i > lo
       /\ \A k \in Keyed(a, key) : k <= lo \/ k >= i
       /\ answer = AnswerOf(a, i, key, Searching(key, TableAt(a, j), SlotsFor(a, j),
                                                 place[i] + 1))
       /\ Passed(a, j, key, place, place[i] + 1, i)

LEMMA KeyedWith ==
  ASSUME NEW a \in Seq(Record), NEW key
  PROVE  \A i \in Keyed(a, key) : i \in 1 .. Len(a) /\ a[i].key = key
                                  /\ i \in RecordsWith(a, Hash[key])
  BY DEF Keyed, RecordsWith

(* From where the last hit left it, a search finds the next record with    *)
(* the key, or misses if there is none.                                    *)
LEMMA FindsNext ==
  ASSUME NEW a \in Seq(Record), Fits(a), NEW f, Laid(f, a), NEW key \in Keys,
         NEW j \in Buckets, j = Bucket(Hash[key]), SlotsFor(a, j) > 0,
         NEW place, InOrder(a, j, Hash[key], place),
         NEW d \in 0 .. SlotsFor(a, j), NEW lo \in 0 .. Len(a),
         Passed(a, j, key, place, d, lo)
  PROVE  NextFound(a, j, key, place, lo,
                   ProbeSlots(f, Searching(key, TableAt(a, j), SlotsFor(a, j), d)))
<1>1. PICK n \in Nat, t \in Nat : n = SlotsFor(a, j) /\ t = TableAt(a, j) /\ n > 0
      /\ t > 0 /\ t + SIZEOF_SLOT * n <= MAX_OFF + 1
  <2>1. Len(BucketOf(a, j)) \in Nat
    BY TableEnds
  <2>2. SlotsFor(a, j) \in Nat /\ SlotsFor(a, j) = 2 * Len(BucketOf(a, j))
    BY <2>1 DEF SlotsFor
  <2>3. /\ TableAt(a, j) \in Nat
        /\ TableAt(a, j) + SIZEOF_SLOT * SlotsFor(a, j) <= MAX_OFF + 1
    BY <2>2, FitsTables
  <2>4. TableAt(a, j) > 0
    <3>1. /\ RecordsEnd(a) \in Nat /\ RecordsEnd(a) >= SIZEOF_TABLE
          /\ TableAt(a, j) >= RecordsEnd(a) /\ TableAt(a, j) \in Nat
      BY TableAtNat DEF Buckets
    <3> QED  BY <3>1, WordSizes
  <2> QED  BY <2>2, <2>3, <2>4
<1>2. PICK h \in Words : h = Hash[key] /\ h \in Nat
  BY FormatAssumption, WordSizes DEF Words
<1>3. t \in Nat \ {0} /\ n \in Nat \ {0} /\ d \in 0 .. n /\ Hash[key] \in Nat
  BY <1>1, <1>2
<1>4. PICK e \in d .. n : /\ Stops(f, key, t, n, d, e)
                          /\ ProbeSlots(f, Searching(key, t, n, d)) = StopsWith(f, key, t, n, e)
  <2>1. t \in Nat \ {0} /\ n \in Nat \ {0}
    BY <1>3
  <2>2. d \in 0 .. n
    BY <1>3
  <2>3. t + SIZEOF_SLOT * n <= MAX_OFF + 1
    BY <1>1
  <2>4. Hash[key] \in Nat
    BY <1>3
  <2> QED  BY <2>1, <2>2, <2>3, <2>4, ProbeStops
<1> DEFINE At(c) == SlotReached(a, j, h, c)
           Pr(c) == ProbeReached(f, key, t, n, c)
<1>5. \A c \in Nat :
        /\ At(c) = FreeSlot => Pr(c) = "miss"
        /\ \A i \in 1 .. Len(a) : At(c) = SlotOf(a, i) =>
             /\ Pr(c) = (IF a[i].key = key THEN "hit" ELSE "next")
             /\ ReadSlot(f, OffsetReached(t, n, Hash[key], c)) = SlotOf(a, i)
  BY <1>1, <1>2, ProbeLaid
<1>6. /\ \A c \in Nat : At(c) = FreeSlot \/ \E i \in 1 .. Len(a) : At(c) = SlotOf(a, i)
      /\ \E c \in 0 .. n - 1 : At(c) = FreeSlot
  BY <1>1, <1>2, SlotsInOrder
<1>7. FreeSlot.offset = 0
  BY FreeSlotType
<1>8. /\ \A i \in RecordsWith(a, h) : place[i] \in 0 .. n - 1
      /\ \A i, k \in RecordsWith(a, h) : i < k => place[i] < place[k]
      /\ \A i \in RecordsWith(a, h) : \A c \in 0 .. place[i] - 1 : At(c).offset # 0
      /\ \A i \in RecordsWith(a, h) : \A c \in 0 .. n - 1 : At(c) = SlotOf(a, i) <=> c = place[i]
  BY <1>1, <1>2 DEF InOrder
<1>9. /\ \A c \in 0 .. d - 1 : At(c).offset # 0
      /\ \A i \in Keyed(a, key) : i <= lo <=> place[i] < d
  BY <1>2 DEF Passed
<1>10. \A i \in Keyed(a, key) : /\ i \in 1 .. Len(a) /\ a[i].key = key
                                /\ i \in RecordsWith(a, h) /\ place[i] \in 0 .. n - 1
                                /\ At(place[i]) = SlotOf(a, i)
                                /\ Pr(place[i]) = "hit"
  <2> TAKE i \in Keyed(a, key)
  <2>1. i \in 1 .. Len(a) /\ a[i].key = key /\ i \in RecordsWith(a, h)
    BY <1>2, KeyedWith
  <2>2. place[i] \in 0 .. n - 1
    BY <1>8, <2>1
  <2>3. At(place[i]) = SlotOf(a, i)
    BY <1>8, <2>1, <2>2
  <2>4. Pr(place[i]) = "hit"
    <3>1. place[i] \in Nat
      BY <2>2
    <3> HIDE DEF At, Pr
    <3> QED  BY <1>5, <2>1, <2>3, <3>1
  <2> QED  BY <2>1, <2>2, <2>3, <2>4
<1>11. /\ \A c \in d .. e - 1 : Pr(c) = "next"
       /\ e < n => Pr(e) # "next"
  BY <1>4 DEF Stops
<1> HIDE DEF At, Pr
<1>12. \A c \in 0 .. e - 1 : c \in Nat /\ At(c).offset # 0 /\ At(c) # FreeSlot
  <2> TAKE c \in 0 .. e - 1
  <2>1. CASE c < d
    <3>1. c \in 0 .. d - 1
      BY <2>1
    <3> QED  BY <1>7, <1>9, <3>1
  <2>2. CASE c >= d
    <3>1. c \in d .. e - 1 /\ c \in Nat
      BY <2>2
    <3>2. At(c) # FreeSlot
      BY <1>5, <1>11, <3>1
    <3>3. PICK i \in 1 .. Len(a) : At(c) = SlotOf(a, i)
      BY <1>6, <3>1, <3>2
    <3>4. SlotOf(a, i).offset # 0
      <4>1. OffsetOf(a, i) >= SIZEOF_TABLE /\ OffsetOf(a, i) \in Nat
        BY OffsetNext
      <4> QED  BY <4>1, SlotOfFields, WordSizes
    <3> QED  BY <3>1, <3>2, <3>3, <3>4
  <2> QED  BY <2>1, <2>2
<1>13. e < n
  <2>1. PICK c \in 0 .. n - 1 : At(c) = FreeSlot
    BY <1>6
  <2>2. c \notin 0 .. e - 1
    BY <1>12, <2>1
  <2> QED  BY <2>2
<1>14. e \in Nat /\ e \in 0 .. n - 1 /\ Pr(e) # "next"
  BY <1>11, <1>13
<1>15. ASSUME NEW k \in Keyed(a, key), place[k] < e PROVE k <= lo
  <2>1. place[k] \in 0 .. n - 1 /\ Pr(place[k]) = "hit"
    BY <1>10
  <2>2. place[k] \notin d .. e - 1
    BY <1>11, <2>1
  <2>3. place[k] < d
    BY <1>15, <2>1, <2>2
  <2> QED  BY <1>9, <2>3
<1>16. StopsWith(f, key, t, n, e)
         = AnswerAt(f, Pr(e), ReadSlot(f, OffsetReached(t, n, Hash[key], e)),
                    Searching(key, t, n, e), Searching(key, t, n, e + 1))
  BY <1>13 DEF StopsWith, Pr
<1> DEFINE answer == ProbeSlots(f, Searching(key, t, n, d))
<1>17. CASE At(e) = FreeSlot
  <2>1. Pr(e) = "miss"
    BY <1>5, <1>14, <1>17
  <2>2. answer = Answer("miss", 0, 0, Searching(key, t, n, e))
    BY <1>4, <1>16, <2>1 DEF AnswerAt
  <2>3. answer \in Misses(key, t, n)
    <3>1. e \in 0 .. n
      BY <1>13, <1>14
    <3> HIDE DEF answer
    <3> QED  BY <2>2, <3>1 DEF Misses
  <2>4. ASSUME NEW k \in Keyed(a, key) PROVE k <= lo
    <3>1. k \in RecordsWith(a, h) /\ place[k] \in 0 .. n - 1 /\ Pr(place[k]) = "hit"
      BY <1>10
    <3>2. place[k] # e
      BY <2>1, <3>1
    <3>3. e \notin 0 .. place[k] - 1
      BY <1>7, <1>8, <1>17, <3>1
    <3>4. place[k] < e
      BY <1>14, <3>1, <3>2, <3>3
    <3> QED  BY <1>15, <3>4
  <2> HIDE DEF answer
  <2>5. NextFound(a, j, key, place, lo, answer)
    BY <1>1, <2>3, <2>4 DEF NextFound
  <2> QED  BY <1>1, <2>5 DEF answer
<1>18. CASE At(e) # FreeSlot
  <2>1. PICK i \in 1 .. Len(a) : At(e) = SlotOf(a, i)
    BY <1>6, <1>14, <1>18
  <2>2. /\ Pr(e) = (IF a[i].key = key THEN "hit" ELSE "next")
        /\ ReadSlot(f, OffsetReached(t, n, Hash[key], e)) = SlotOf(a, i)
    BY <1>5, <1>14, <2>1
  <2>3. a[i].key = key /\ Pr(e) = "hit"
    BY <1>14, <2>2
  <2>4. i \in Keyed(a, key) /\ i \in RecordsWith(a, h)
    BY <1>2, <2>3, KeyedWith DEF Keyed
  <2>5. place[i] = e
    BY <1>8, <1>14, <2>1, <2>4
  <2>6. i > lo
    <3>1. ~(place[i] < d)
      BY <2>5
    <3> QED  BY <1>9, <2>4, <3>1
  <2>7. ASSUME NEW k \in Keyed(a, key) PROVE k <= lo \/ k >= i
    <3>1. k \in RecordsWith(a, h) /\ k \in 1 .. Len(a)
      BY <1>10
    <3>2. k < i => place[k] < e
      BY <1>8, <2>4, <2>5, <3>1
    <3>3. k < i => k <= lo
      BY <1>15, <3>2
    <3> QED  BY <3>1, <3>3
  <2>8. answer = AnswerOf(a, i, key, Searching(key, t, n, e + 1))
    <3>1. a[i] \in Record
      OBVIOUS
    <3>2. PICK o \in Nat : o = OffsetOf(a, i)
      BY OffsetNext
    <3>3. ReadDLength(f, o) = [klen |-> Len(a[i].key), dlen |-> Len(a[i].value)]
      <4>1. f \in Seq(Bytes) /\ Holds(f, SIZEOF_TABLE, Encoded(a))
        BY DEF Laid
      <4> QED  BY <3>2, <4>1, RecordRead
    <3>4. ReadDLength(f, o).dlen = Len(a[i].value)
      BY <3>3
    <3>5. SlotOf(a, i).offset = o
      BY <3>2, SlotOfFields
    <3>6. Searching(key, t, n, e + 1).key = key
      BY DEF Searching
    <3>7. AnswerAt(f, Pr(e), ReadSlot(f, OffsetReached(t, n, Hash[key], e)),
                   Searching(key, t, n, e), Searching(key, t, n, e + 1))
            = Answer("hit", o + SIZEOF_DLENGTH + Len(key), Len(a[i].value),
                     Searching(key, t, n, e + 1))
      BY <2>2, <2>3, <3>4, <3>5, <3>6 DEF AnswerAt
    <3> QED  BY <1>4, <1>16, <3>2, <3>7 DEF AnswerOf
  <2>9. Passed(a, j, key, place, e + 1, i)
    <3>1. \A c \in 0 .. (e + 1) - 1 : At(c).offset # 0
      <4>1. \A c \in 0 .. (e + 1) - 1 : c \in 0 .. e - 1 \/ c = e
        BY <1>14
      <4>2. At(e).offset # 0
        <5>1. OffsetOf(a, i) >= SIZEOF_TABLE /\ OffsetOf(a, i) \in Nat
          BY OffsetNext
        <5> QED  BY <2>1, <5>1, SlotOfFields, WordSizes
      <4> QED  BY <1>12, <4>1, <4>2
    <3>2. ASSUME NEW k \in Keyed(a, key) PROVE k <= i <=> place[k] < e + 1
      <4>1. k \in RecordsWith(a, h) /\ k \in 1 .. Len(a) /\ place[k] \in 0 .. n - 1
        BY <1>10
      <4>2. k < i => place[k] < e
        BY <1>8, <2>4, <2>5, <4>1
      <4>3. i < k => e < place[k]
        BY <1>8, <2>4, <2>5, <4>1
      <4> QED  BY <1>14, <2>5, <4>1, <4>2, <4>3
    <3> QED  BY <1>2, <3>1, <3>2 DEF Passed, At
  <2> HIDE DEF answer
  <2>10. NextFound(a, j, key, place, lo, answer)
    BY <1>1, <2>4, <2>5, <2>6, <2>7, <2>8, <2>9 DEF NextFound
  <2> QED  BY <1>1, <2>10 DEF answer
<1> QED  BY <1>17, <1>18

-----------------------------------------------------------------------------
(* The values of a key, and the search repeated.                           *)

(* What a record adds to the values of a key. *)
OwnValue(r, key) == IF r.key = key THEN <<r.value>> ELSE <<>>

LEMMA ValuesOfType ==
  ASSUME NEW a \in Seq(Record), NEW key
  PROVE  /\ ValuesOf(a, key) = FlattenSeq([i \in DOMAIN a |-> OwnValue(a[i], key)])
         /\ [i \in DOMAIN a |-> OwnValue(a[i], key)] \in Seq(Seq(Seq(Bytes)))
         /\ ValuesOf(a, key) \in Seq(Seq(Bytes))
<1>1. ValuesOf(a, key) = FlattenSeq([i \in DOMAIN a |-> OwnValue(a[i], key)])
  BY DEF ValuesOf, OwnValue
<1>2. \A i \in DOMAIN a : OwnValue(a[i], key) \in Seq(Seq(Bytes))
  <2> TAKE i \in DOMAIN a
  <2>1. a[i] \in Record
    OBVIOUS
  <2>2. a[i].value \in Seq(Bytes)
    BY <2>1, LengthsFit
  <2> QED  BY <2>2 DEF OwnValue
<1>3. [i \in DOMAIN a |-> OwnValue(a[i], key)] \in Seq(Seq(Seq(Bytes)))
  BY <1>2
<1> QED  BY <1>1, <1>3, FlattenType

LEMMA ValuesOfNone == \A key : ValuesOf(<<>>, key) = <<>>
<1> TAKE key
<1>1. PICK a \in Seq(Record) : a = <<>>
  <2>1. <<>> \in Seq(Record)
    OBVIOUS
  <2> QED  BY <2>1
<1>2. [i \in DOMAIN a |-> OwnValue(a[i], key)] = <<>>
  BY <1>1
<1>3. ValuesOf(a, key) = FlattenSeq([i \in DOMAIN a |-> OwnValue(a[i], key)])
  BY ValuesOfType
<1> QED  BY <1>1, <1>2, <1>3, FlattenEmpty

(* A record with the key adds its value, any other nothing.                *)
LEMMA ValuesOfAppend ==
  ASSUME NEW a \in Seq(Record), NEW r \in Record, NEW key
  PROVE  ValuesOf(Append(a, r), key) = ValuesOf(a, key) \o OwnValue(r, key)
<1> DEFINE b == Append(a, r)
           s == [i \in DOMAIN a |-> OwnValue(a[i], key)]
           t == [i \in DOMAIN b |-> OwnValue(b[i], key)]
<1>1. /\ b \in Seq(Record) /\ Len(b) = Len(a) + 1 /\ Len(a) \in Nat
      /\ \A i \in 1 .. Len(a) : b[i] = a[i]
      /\ b[Len(b)] = r
  OBVIOUS
<1> HIDE DEF b
<1>2. /\ s \in Seq(Seq(Seq(Bytes))) /\ ValuesOf(a, key) = FlattenSeq(s)
      /\ t \in Seq(Seq(Seq(Bytes))) /\ ValuesOf(b, key) = FlattenSeq(t)
  BY <1>1, ValuesOfType
<1>3. Len(s) = Len(a) /\ Len(t) = Len(b)
  BY <1>1
<1>4. Len(t) = Len(s) + 1 /\ \A i \in 1 .. Len(s) : s[i] = t[i]
  BY <1>1, <1>3
<1>5. t[Len(t)] = OwnValue(r, key)
  BY <1>1, <1>3
<1> HIDE DEF s, t
<1>6. FlattenSeq(t) = FlattenSeq(s) \o t[Len(t)]
  BY <1>2, <1>4, FlattenAppend
<1> QED  BY <1>2, <1>5, <1>6 DEF b

(* Record by record. *)
LEMMA ValuesOfNext ==
  ASSUME NEW a \in Seq(Record), NEW i \in 1 .. Len(a), NEW key
  PROVE  /\ ValuesOf(Prefix(a, i - 1), key) \in Seq(Seq(Bytes))
         /\ ValuesOf(Prefix(a, i), key)
              = IF a[i].key = key
                THEN Append(ValuesOf(Prefix(a, i - 1), key), a[i].value)
                ELSE ValuesOf(Prefix(a, i - 1), key)
<1>1. i - 1 \in 0 .. Len(a) - 1 /\ (i - 1) + 1 = i /\ a[i] \in Record /\ i - 1 \in 0 .. Len(a)
  OBVIOUS
<1>2. PICK p \in Seq(Record) : p = Prefix(a, i - 1)
  BY <1>1, PrefixType
<1>3. Prefix(a, i) = Append(p, a[i])
  BY <1>1, <1>2, PrefixNext
<1>4. ValuesOf(Append(p, a[i]), key) = ValuesOf(p, key) \o OwnValue(a[i], key)
  BY <1>1, ValuesOfAppend
<1>5. PICK v \in Seq(Seq(Bytes)) : v = ValuesOf(p, key)
  BY ValuesOfType
<1>6. a[i].value \in Seq(Bytes)
  BY <1>1, LengthsFit
<1>7. v \o <<a[i].value>> = Append(v, a[i].value) /\ v \o <<>> = v
  BY <1>6
<1> QED  BY <1>2, <1>3, <1>4, <1>5, <1>7 DEF OwnValue

LEMMA ValuesOfSkip ==
  ASSUME NEW a \in Seq(Record), NEW key, NEW lo \in 0 .. Len(a), NEW hi \in 0 .. Len(a),
         lo <= hi, \A k \in Keyed(a, key) : k <= lo \/ k > hi
  PROVE  ValuesOf(Prefix(a, hi), key) = ValuesOf(Prefix(a, lo), key)
<1>1. PICK m \in Nat : hi = lo + m
  <2>1. hi - lo \in Nat /\ hi = lo + (hi - lo)
    OBVIOUS
  <2> QED  BY <2>1
<1> DEFINE S == {n \in 0 .. m : ValuesOf(Prefix(a, lo + n), key) = ValuesOf(Prefix(a, lo), key)}
<1>2. 0 \in S
  <2>1. lo + 0 = lo /\ 0 \in 0 .. m
    OBVIOUS
  <2> QED  BY <2>1
<1>3. ASSUME NEW n \in 0 .. m - 1, n \in S PROVE n + 1 \in S
  <2>1. PICK i \in 1 .. Len(a) : i = lo + n + 1
    BY <1>1
  <2>2. i - 1 = lo + n /\ lo + (n + 1) = i /\ n + 1 \in 0 .. m /\ i > lo /\ i <= hi
    BY <1>1, <2>1
  <2>3. i \notin Keyed(a, key)
    BY <2>2
  <2>4. a[i].key # key
    BY <2>3 DEF Keyed
  <2>5. ValuesOf(Prefix(a, i), key) = ValuesOf(Prefix(a, i - 1), key)
    BY <2>4, ValuesOfNext
  <2> QED  BY <1>3, <2>2, <2>5
<1>4. m \in S
  <2>1. m \in 0 .. m
    OBVIOUS
  <2> HIDE DEF S
  <2> QED  BY <1>2, <1>3, <2>1, UpTo
<1> QED  BY <1>1, <1>4

-----------------------------------------------------------------------------
(* FindMore, call by call. *)
MoreOf(f, all) ==
  IF all.last.res # "hit" THEN all
  ELSE [last |-> Find(f, all.last.find),
        values |-> Append(all.values, ReadValue(f, all.last))]

FindsBy(g, f, first, n) ==
  /\ g[0] = [last |-> first, values |-> <<>>]
  /\ \A i \in 1 .. n : g[i] = MoreOf(f, g[i - 1])
  /\ FindMore(f, first) = g[n]

(* FindMore repeats the search until it is not a hit.                      *)
LEMMA FindMoreTrace ==
  ASSUME NEW f, NEW first, NEW n \in Nat, n = first.find.table.length, NEW T,
         [last |-> first, values |-> <<>>] \in T, \A x \in T : MoreOf(f, x) \in T
  PROVE  \E g \in [0 .. n -> T] : FindsBy(g, f, first, n)
<1>1. PICK base \in T : base = [last |-> first, values |-> <<>>]
  OBVIOUS
<1> DEFINE seq == [i \in 1 .. n |-> i]
           Iter(h) == h = [s \in SUBSET DOMAIN seq |->
                             IF s = {} THEN base
                             ELSE MoreOf(f, h[s \ {Max(s)}])]
           step == [p \in T \X (1 .. n) |-> MoreOf(f, p[1])]
<1>2. step \in [T \X (1 .. n) -> T]
  OBVIOUS
<1>3. FindMore(f, first) = (CHOOSE h : Iter(h))[DOMAIN seq]
  BY <1>1 DEF FindMore, FoldLeft, MapThenFoldSet, MoreOf
<1>4. DOMAIN seq = 1 .. n
  OBVIOUS
<1>5. \A x \in T, i \in 1 .. n : step[<<x, i>>] = MoreOf(f, x)
  OBVIOUS
<1> HIDE DEF seq, step
<1>6. PICK h \in [SUBSET (1 .. n) -> T] : IsFold(h, base, step, n)
  BY <1>2, FoldExists
<1>7. ASSUME NEW s \in SUBSET (1 .. n), s # {}
      PROVE  Max(s) \in 1 .. n /\ s \ {Max(s)} \in SUBSET (1 .. n)
  BY <1>7, LargestOf
<1>8. Iter(h)
  <2>1. ASSUME NEW s \in SUBSET (1 .. n), s # {}
        PROVE  h[s] = MoreOf(f, h[s \ {Max(s)}])
    BY <1>5, <1>6, <1>7, <2>1 DEF IsFold
  <2>2. h[{}] = base
    BY <1>6 DEF IsFold
  <2> QED  BY <1>4, <2>1, <2>2
<1>9. Iter(CHOOSE w : Iter(w))
  BY <1>8, Zenon
<1>10. PICK w : Iter(w) /\ FindMore(f, first) = w[1 .. n]
  BY <1>3, <1>4, <1>9
<1>11. FoldsIn(T, w, base, step, n)
  BY <1>4, <1>5, <1>7, <1>10 DEF FoldsIn
<1> HIDE DEF Iter
<1>12. HasTrace(T, w, base, step, n)
  BY <1>2, <1>11, FoldTrace
<1>13. PICK g \in [0 .. n -> T] : IsTrace(g, base, step, n) /\ w[1 .. n] = g[n]
  BY <1>12 DEF HasTrace
<1>14. \A i \in 1 .. n : g[i] = MoreOf(f, g[i - 1])
  <2> TAKE i \in 1 .. n
  <2>1. g[i - 1] \in T
    <3>1. i - 1 \in 0 .. n
      OBVIOUS
    <3> QED  BY <3>1
  <2> QED  BY <1>5, <1>13, <2>1 DEF IsTrace
<1>15. g[0] = base
  BY <1>13 DEF IsTrace
<1> QED  BY <1>1, <1>10, <1>13, <1>14, <1>15 DEF FindsBy

-----------------------------------------------------------------------------
(* One more value.                                                         *)

(* What get(all=True) has after some calls: the values of the first        *)
(* records with the key, and the answer of the last call.                  *)
Collected(a, j, key, place, lo, all) ==
  /\ all.values = ValuesOf(Prefix(a, lo), key)
  /\ NextFound(a, j, key, place, lo, all.last)

(* As every call that finds a record consumes a slot, the search is over   *)
(* after as many as the table has.                                         *)
ReachesSlot(place, all, n) ==
  all.last.res = "hit" => all.last.find.key_num > n

LEMMA AnswerFields ==
  ASSUME NEW res, NEW offset, NEW length, NEW find
  PROVE  /\ Answer(res, offset, length, find).res = res
         /\ Answer(res, offset, length, find).offset = offset
         /\ Answer(res, offset, length, find).length = length
         /\ Answer(res, offset, length, find).find = find
  BY DEF Answer

LEMMA SearchingFields ==
  ASSUME NEW key, NEW t, NEW n, NEW d
  PROVE  /\ Searching(key, t, n, d).key = key
         /\ Searching(key, t, n, d).key_num = d
         /\ Searching(key, t, n, d).table = [offset |-> t, length |-> n]
         /\ Searching(key, t, n, d).table.length = n
         /\ Searching(key, t, n, d).table_offset = OffsetReached(t, n, Hash[key], d)
  BY DEF Searching

(* The value that an answer points to. *)
LEMMA ValueRead ==
  ASSUME NEW a \in Seq(Record), NEW f \in Seq(Bytes), Holds(f, SIZEOF_TABLE, Encoded(a)),
         NEW key, NEW i \in Keyed(a, key), NEW find
  PROVE  /\ ReadValue(f, AnswerOf(a, i, key, find)) = a[i].value
         /\ Readable(f, AnswerOf(a, i, key, find).offset, AnswerOf(a, i, key, find).length)
<1>1. i \in 1 .. Len(a) /\ a[i].key = key /\ a[i] \in Record
  BY DEF Keyed
<1>3. PICK o \in Nat : o = OffsetOf(a, i)
  BY <1>1, OffsetNext
<1>4. a[i].value \in Seq(Bytes) /\ key \in Seq(Bytes)
  BY <1>1, LengthsFit
<1>5. Holds(f, o + SIZEOF_DLENGTH + Len(key), a[i].value)
  BY <1>1, <1>3, RecordRead
<1>6. PICK p \in Nat : p = o + SIZEOF_DLENGTH + Len(key)
  BY <1>4, WordSizes
<1>7. ReadKey(f, p, Len(a[i].value)) = a[i].value /\ Readable(f, p, Len(a[i].value))
  BY <1>4, <1>5, <1>6, HoldsKey
<1>8. AnswerOf(a, i, key, find).offset = p
      /\ AnswerOf(a, i, key, find).length = Len(a[i].value)
  BY <1>3, <1>6, AnswerFields DEF AnswerOf
<1> QED  BY <1>7, <1>8 DEF ReadValue

(* One more call of cdb32_find. *)
LEMMA CollectsNext ==
  ASSUME NEW a \in Seq(Record), Fits(a), NEW f, Laid(f, a), NEW key \in Keys,
         NEW j \in Buckets, j = Bucket(Hash[key]), SlotsFor(a, j) > 0,
         NEW place, InOrder(a, j, Hash[key], place),
         NEW lo \in 0 .. Len(a), NEW all, Collected(a, j, key, place, lo, all)
  PROVE  /\ \E hi \in 0 .. Len(a) : Collected(a, j, key, place, hi, MoreOf(f, all))
         /\ \A n \in Nat : ReachesSlot(place, all, n) => ReachesSlot(place, MoreOf(f, all), n + 1)
<1>1. CASE all.last.res # "hit"
  BY <1>1 DEF MoreOf, ReachesSlot
<1>2. CASE all.last.res = "hit"
  <2>1. ~(all.last \in Misses(key, TableAt(a, j), SlotsFor(a, j)))
    BY <1>2, AnswerFields DEF Misses
  <2>2. PICK i \in Keyed(a, key) :
          /\ i > lo
          /\ \A k \in Keyed(a, key) : k <= lo \/ k >= i
          /\ all.last = AnswerOf(a, i, key, Searching(key, TableAt(a, j), SlotsFor(a, j),
                                                      place[i] + 1))
          /\ Passed(a, j, key, place, place[i] + 1, i)
    BY <2>1 DEF Collected, NextFound
  <2>3. i \in 1 .. Len(a) /\ a[i].key = key /\ i \in RecordsWith(a, Hash[key])
    BY KeyedWith
  <2>4. PICK n \in Nat, d \in 0 .. SlotsFor(a, j), t \in Nat :
          n = SlotsFor(a, j) /\ d = place[i] + 1 /\ d > 0 /\ t = TableAt(a, j)
    <3>1. Len(BucketOf(a, j)) \in Nat
      BY TableEnds
    <3>2. SlotsFor(a, j) \in Nat
      BY <3>1 DEF SlotsFor
    <3>3. place[i] \in 0 .. SlotsFor(a, j) - 1
      BY <2>3 DEF InOrder
    <3>4. TableAt(a, j) \in Nat
      BY TableAtNat DEF Buckets
    <3>5. place[i] + 1 \in 0 .. SlotsFor(a, j) /\ place[i] + 1 > 0
      BY <3>2, <3>3
    <3> QED  BY <3>2, <3>4, <3>5
  <2>5. PICK find : find = Searching(key, t, n, d)
    OBVIOUS
  <2>6. all.last = AnswerOf(a, i, key, find) /\ all.last.find = find
    BY <2>2, <2>4, <2>5, AnswerFields DEF AnswerOf
  <2>7. Find(f, find) = ProbeSlots(f, find)
    <3>1. find.key_num = d /\ d # 0
      BY <2>4, <2>5 DEF Searching
    <3> QED  BY <3>1 DEF Find
  <2>8. NextFound(a, j, key, place, i, Find(f, find))
    <3>1. i \in 0 .. Len(a)
      BY <2>3
    <3>2. Passed(a, j, key, place, d, i)
      BY <2>2, <2>4
    <3>3. NextFound(a, j, key, place, i,
                    ProbeSlots(f, Searching(key, TableAt(a, j), SlotsFor(a, j), d)))
      BY <3>1, <3>2, FindsNext
    <3> QED  BY <2>4, <2>5, <2>7, <3>3
  <2>9. ReadValue(f, all.last) = a[i].value
    <3>1. ReadValue(f, AnswerOf(a, i, key, find)) = a[i].value
      BY ValueRead DEF Laid
    <3> QED  BY <2>6, <3>1
  <2>10. MoreOf(f, all) = [last |-> Find(f, find),
                           values |-> Append(all.values, a[i].value)]
    BY <1>2, <2>6, <2>9 DEF MoreOf
  <2>11. Append(all.values, a[i].value) = ValuesOf(Prefix(a, i), key)
    <3>1. ValuesOf(Prefix(a, i), key) = Append(ValuesOf(Prefix(a, i - 1), key), a[i].value)
      BY <2>3, ValuesOfNext
    <3>2. ValuesOf(Prefix(a, i - 1), key) = ValuesOf(Prefix(a, lo), key)
      <4>1. i - 1 \in 0 .. Len(a) /\ lo <= i - 1
        BY <2>2, <2>3
      <4>2. \A k \in Keyed(a, key) : k <= lo \/ k > i - 1
        <5> TAKE k \in Keyed(a, key)
        <5>1. k \in 1 .. Len(a) /\ (k <= lo \/ k >= i)
          BY <2>2, KeyedWith
        <5> QED  BY <2>3, <5>1
      <4> QED  BY <4>1, <4>2, ValuesOfSkip
    <3> QED  BY <3>1, <3>2 DEF Collected
  <2>12. Collected(a, j, key, place, i, MoreOf(f, all)) /\ i \in 0 .. Len(a)
    BY <2>3, <2>8, <2>10, <2>11 DEF Collected
  <2>13. ASSUME NEW m \in Nat, ReachesSlot(place, all, m), Find(f, find).res = "hit"
         PROVE  Find(f, find).find.key_num > m + 1
    <3>1. d > m
      <4>1. all.last.find.key_num = d
        BY <2>5, <2>6 DEF Searching
      <4> QED  BY <1>2, <2>13, <4>1 DEF ReachesSlot
    <3>2. ~(Find(f, find) \in Misses(key, TableAt(a, j), SlotsFor(a, j)))
      BY <2>13, AnswerFields DEF Misses
    <3>3. PICK k \in Keyed(a, key) :
            /\ k > i
            /\ Find(f, find) = AnswerOf(a, k, key, Searching(key, TableAt(a, j),
                                                             SlotsFor(a, j), place[k] + 1))
      BY <2>8, <3>2 DEF NextFound
    <3>4. Find(f, find).find.key_num = place[k] + 1
      BY <3>3 DEF AnswerOf, Answer, Searching
    <3>5. k \in RecordsWith(a, Hash[key])
      BY KeyedWith
    <3>6. place[i] < place[k] /\ place[k] \in 0 .. SlotsFor(a, j) - 1
          /\ place[i] \in 0 .. SlotsFor(a, j) - 1
      BY <2>3, <3>3, <3>5 DEF InOrder
    <3> QED  BY <2>4, <3>1, <3>4, <3>6
  <2>14. \A m \in Nat : ReachesSlot(place, all, m) => ReachesSlot(place, MoreOf(f, all), m + 1)
    <3>1. MoreOf(f, all).last = Find(f, find)
      BY <2>10
    <3> QED  BY <2>13, <3>1 DEF ReachesSlot
  <2> QED  BY <2>12, <2>14
<1> QED  BY <1>1, <1>2

-----------------------------------------------------------------------------
(* A whole search.                                                         *)

(* A search that begins, from the table pointer on. *)
LEMMA FindFirstIs ==
  ASSUME NEW f, NEW key
  PROVE  FindFirst(f, key)
           = IF ~Readable(f, PTR_TABLE(Hash[key]), SIZEOF_TPTR)
             THEN Answer("error", 0, 0, NewFind(key))
             ELSE ProbeTable(f, NewFind(key), ReadPointer(f, PTR_TABLE(Hash[key])))
  BY DEF FindFirst, Find, NewFind

(* The search in an empty table. *)
LEMMA NoTable ==
  ASSUME NEW f, NEW key, NEW table, table.length = 0
  PROVE  /\ ProbeTable(f, NewFind(key), table).res = "miss"
         /\ ProbeTable(f, NewFind(key), table).find.table.length = 0
<1>1. ProbeTable(f, NewFind(key), table)
        = Answer("miss", 0, 0, [NewFind(key) EXCEPT !.table.length = 0])
  BY DEF ProbeTable
<1>2. [NewFind(key) EXCEPT !.table.length = 0].table.length = 0
  BY DEF NewFind
<1>3. PICK find : /\ ProbeTable(f, NewFind(key), table) = Answer("miss", 0, 0, find)
                  /\ find.table.length = 0
  BY <1>1, <1>2
<1> QED  BY <1>3, AnswerFields

LEMMA BucketInRange ==
  ASSUME NEW key \in Keys
  PROVE  Hash[key] \in Words /\ Hash[key] \in Nat /\ Bucket(Hash[key]) \in Buckets
<1>1. Hash[key] \in Words /\ Hash[key] \in Nat
  BY FormatAssumption, WordSizes DEF Words
<1>2. \A h \in Nat : h % TABLES \in 0 .. TABLES - 1
  BY FormatAssumption
<1> QED  BY <1>1, <1>2 DEF Bucket, Buckets

(* The first search reads the pointer of its table, and begins in the      *)
(* table.                                                                  *)
LEMMA FirstInImage ==
  ASSUME NEW a \in Seq(Record), Fits(a), NEW key \in Keys, NEW j, j = Bucket(Hash[key])
  PROVE  /\ SlotsFor(a, j) = 0 =>
              /\ FindFirst(Image(a), key).res = "miss"
              /\ FindFirst(Image(a), key).find.table.length = 0
         /\ SlotsFor(a, j) > 0 =>
              FindFirst(Image(a), key)
                = ProbeSlots(Image(a), Searching(key, TableAt(a, j), SlotsFor(a, j), 0))
<1>1. Hash[key] \in Words /\ Hash[key] \in Nat /\ j \in Buckets
  BY BucketInRange
<1>2. PICK f : f = Image(a)
  OBVIOUS
<1>3. Holds(f, 0, Pointers(a, TABLES)) /\ f \in Seq(Bytes)
  BY <1>2, ImageHolds DEF Laid
<1>4. /\ Readable(f, j * SIZEOF_TPTR, SIZEOF_TPTR)
      /\ ReadPointer(f, j * SIZEOF_TPTR)
           = [offset |-> U32(TableAt(a, j)), length |-> U32(2 * Len(BucketOf(a, j)))]
  BY <1>1, <1>3, PointerHolds
<1>5. PTR_TABLE(Hash[key]) = j * SIZEOF_TPTR
  BY DEF PTR_TABLE
<1>6. /\ TableAt(a, j) \in Nat /\ Len(BucketOf(a, j)) \in Nat
      /\ Len(BucketOf(a, j)) > 0 => TableAt(a, j) \in Words
      /\ SlotsFor(a, j) = 2 * Len(BucketOf(a, j))
      /\ SlotsFor(a, j) \in Words /\ SlotsFor(a, j) \in Nat
      /\ TableAt(a, j) + SIZEOF_SLOT * SlotsFor(a, j) <= MAX_OFF + 1
  <2>1. Len(BucketOf(a, j)) \in Nat
    BY <1>1, TableEnds
  <2> QED  BY <1>1, <2>1, FitsTables DEF SlotsFor
<1>7. U32(SlotsFor(a, j)) = SlotsFor(a, j)
  <2>1. \A m \in Nat : \A x \in 0 .. m : x % (m + 1) = x
    OBVIOUS
  <2> QED  BY <1>6, <2>1, WordSizes DEF U32, Words
<1>8. PICK table : table = [offset |-> U32(TableAt(a, j)), length |-> SlotsFor(a, j)]
  OBVIOUS
<1>9. FindFirst(f, key) = ProbeTable(f, NewFind(key), table)
  BY <1>4, <1>5, <1>6, <1>7, <1>8, FindFirstIs
<1>10. CASE SlotsFor(a, j) = 0
  <2>1. table.length = 0
    BY <1>8, <1>10
  <2> QED  BY <1>2, <1>9, <1>10, <2>1, NoTable
<1>11. CASE SlotsFor(a, j) > 0
  <2>1. TableAt(a, j) \in Words /\ TableAt(a, j) \in Nat \ {0}
    <3>1. TableAt(a, j) > 0
      <4>1. /\ RecordsEnd(a) \in Nat /\ RecordsEnd(a) >= SIZEOF_TABLE
            /\ TableAt(a, j) >= RecordsEnd(a)
        BY <1>1, TableAtNat DEF Buckets
      <4> QED  BY <1>6, <4>1, WordSizes
    <3> QED  BY <1>6, <1>11, <3>1
  <2>2. U32(TableAt(a, j)) = TableAt(a, j)
    <3>1. \A m \in Nat : \A x \in 0 .. m : x % (m + 1) = x
      OBVIOUS
    <3> QED  BY <2>1, <3>1, WordSizes DEF U32, Words
  <2>3. PICK t \in Nat \ {0}, n \in Nat \ {0} :
          t = TableAt(a, j) /\ n = SlotsFor(a, j) /\ t + SIZEOF_SLOT * n <= MAX_OFF + 1
    BY <1>6, <1>11, <2>1
  <2>4. table = [offset |-> t, length |-> n]
    BY <1>8, <2>2, <2>3
  <2>5. ProbeTable(f, NewFind(key), [offset |-> t, length |-> n])
          = ProbeSlots(f, Searching(key, t, n, 0))
    BY <1>1, <2>3, SearchBegins
  <2> QED  BY <1>2, <1>9, <1>11, <2>3, <2>4, <2>5
<1> QED  BY <1>6, <1>10, <1>11

-----------------------------------------------------------------------------
(* Looking up a key in a file finds its values in the order of the         *)
(* records, and nothing else (cdbx_cdb32_get_iter over cdbx_cdb32_find).   *)
THEOREM FindAllCorrect ==
  ASSUME NEW a \in Seq(Record), Fits(a), NEW key \in Keys
  PROVE  /\ FindAll(Image(a), key).last.res = "miss"
         /\ FindAll(Image(a), key).values = ValuesOf(a, key)
<1>1. PICK j : j = Bucket(Hash[key])
  OBVIOUS
<1>2. Hash[key] \in Words /\ j \in Buckets
  BY <1>1, BucketInRange
<1>3. PICK f : f = Image(a) /\ Laid(f, a)
  BY ImageHolds
<1>4. PICK first : first = FindFirst(f, key)
  OBVIOUS
<1>5. FindAll(f, key) = FindMore(f, first)
  BY <1>4 DEF FindAll
<1>6. SlotsFor(a, j) \in Nat /\ Len(BucketOf(a, j)) \in Nat
  BY <1>2, TableEnds DEF SlotsFor
<1>7. CASE SlotsFor(a, j) = 0
  <2>1. first.res = "miss" /\ first.find.table.length = 0
    BY <1>1, <1>3, <1>4, <1>7, FirstInImage
  <2>2. PICK base : base = [last |-> first, values |-> <<>>]
    OBVIOUS
  <2>3. MoreOf(f, base) = base
    BY <2>1, <2>2 DEF MoreOf
  <2>4. PICK g \in [0 .. 0 -> {base}] : FindsBy(g, f, first, 0)
    <3>1. PICK n \in Nat : n = 0
      OBVIOUS
    <3>2. n = first.find.table.length
      BY <2>1, <3>1
    <3>3. [last |-> first, values |-> <<>>] \in {base} /\ \A x \in {base} : MoreOf(f, x) \in {base}
      BY <2>2, <2>3
    <3>4. \E g \in [0 .. n -> {base}] : FindsBy(g, f, first, n)
      BY <3>2, <3>3, FindMoreTrace
    <3> QED  BY <3>1, <3>4
  <2>5. FindAll(f, key) = base
    BY <1>5, <2>2, <2>4 DEF FindsBy
  <2>6. Keyed(a, key) = {}
    <3> SUFFICES ASSUME NEW i \in Keyed(a, key) PROVE FALSE
      OBVIOUS
    <3>1. i \in 1 .. Len(a) /\ a[i].key = key
      BY KeyedWith
    <3>2. Rank(a, i) \in 1 .. Len(BucketOf(a, j))
      BY <1>1, <3>1, RankOf
    <3> QED  BY <1>6, <1>7, <3>2 DEF SlotsFor
  <2>7. ValuesOf(a, key) = <<>>
    <3>1. 0 \in 0 .. Len(a) /\ Len(a) \in 0 .. Len(a) /\ 0 <= Len(a)
      OBVIOUS
    <3>2. ValuesOf(Prefix(a, Len(a)), key) = ValuesOf(Prefix(a, 0), key)
      BY <2>6, <3>1, ValuesOfSkip
    <3> QED  BY <3>2, PrefixAll, ValuesOfNone
  <2> QED  BY <1>3, <2>1, <2>2, <2>5, <2>7
<1>8. CASE SlotsFor(a, j) > 0
  <2>1. PICK place : InOrder(a, j, Hash[key], place)
    BY <1>1, <1>2, SlotsInOrder
  <2>2. PICK n \in Nat : n = SlotsFor(a, j) /\ n > 0
    BY <1>6, <1>8
  <2>3. first = ProbeSlots(f, Searching(key, TableAt(a, j), SlotsFor(a, j), 0))
    BY <1>1, <1>3, <1>4, <1>8, FirstInImage
  <2>4. NextFound(a, j, key, place, 0, first)
    <3>1. Passed(a, j, key, place, 0, 0)
      <4>1. \A c \in 0 .. 0 - 1 : FALSE
        OBVIOUS
      <4>2. \A i \in Keyed(a, key) : ~(i <= 0) /\ ~(place[i] < 0)
        <5> TAKE i \in Keyed(a, key)
        <5>1. i \in 1 .. Len(a) /\ i \in RecordsWith(a, Hash[key])
          BY KeyedWith
        <5>2. place[i] \in 0 .. n - 1
          BY <2>1, <2>2, <5>1 DEF InOrder
        <5> QED  BY <5>1, <5>2
      <4> QED  BY <4>1, <4>2 DEF Passed
    <3>2. 0 \in 0 .. SlotsFor(a, j) /\ 0 \in 0 .. Len(a)
      BY <2>2
    <3> QED  BY <1>1, <1>2, <1>3, <1>8, <2>1, <2>3, <3>1, <3>2, FindsNext
  <2>5. first.find.table.length = n
    <3>1. CASE first \in Misses(key, TableAt(a, j), SlotsFor(a, j))
      BY <2>2, <3>1 DEF Misses, Answer, Searching
    <3>2. CASE first \notin Misses(key, TableAt(a, j), SlotsFor(a, j))
      BY <2>2, <2>4, <3>2 DEF NextFound, AnswerOf, Answer, Searching
    <3> QED  BY <3>1, <3>2
  <2> DEFINE S == {Prefix(a, lo) : lo \in 0 .. Len(a)}
             U == Misses(key, TableAt(a, j), SlotsFor(a, j))
                    \union {AnswerOf(a, i, key, Searching(key, TableAt(a, j), SlotsFor(a, j),
                                                          place[i] + 1)) : i \in Keyed(a, key)}
             All == [last : U, values : {ValuesOf(s, key) : s \in S}]
             T == {all \in All : \E lo \in 0 .. Len(a) : Collected(a, j, key, place, lo, all)}
  <2>6. ASSUME NEW lo \in 0 .. Len(a), NEW last, NEW values,
               Collected(a, j, key, place, lo, [last |-> last, values |-> values])
        PROVE  [last |-> last, values |-> values] \in T
    <3>1. values = ValuesOf(Prefix(a, lo), key) /\ NextFound(a, j, key, place, lo, last)
      BY <2>6 DEF Collected
    <3>2. last \in U
      BY <3>1 DEF NextFound
    <3>3. values \in {ValuesOf(s, key) : s \in S}
      BY <3>1
    <3> HIDE DEF U, S
    <3> QED  BY <2>6, <3>2, <3>3
  <2>7. [last |-> first, values |-> <<>>] \in T
    <3>1. 0 \in 0 .. Len(a) /\ ValuesOf(Prefix(a, 0), key) = <<>>
      BY PrefixAll, ValuesOfNone
    <3>2. Collected(a, j, key, place, 0, [last |-> first, values |-> <<>>])
      BY <2>4, <3>1 DEF Collected
    <3> HIDE DEF T
    <3> QED  BY <2>6, <3>1, <3>2
  <2>8. \A all \in T : MoreOf(f, all) \in T
    <3> TAKE all \in T
    <3>1. PICK lo \in 0 .. Len(a) : Collected(a, j, key, place, lo, all)
      OBVIOUS
    <3>2. PICK hi \in 0 .. Len(a) : Collected(a, j, key, place, hi, MoreOf(f, all))
      BY <1>1, <1>2, <1>3, <1>8, <2>1, <3>1, CollectsNext
    <3>3. CASE all.last.res # "hit"
      BY <3>3 DEF MoreOf
    <3>4. CASE all.last.res = "hit"
      <4>1. MoreOf(f, all) = [last |-> Find(f, all.last.find),
                              values |-> Append(all.values, ReadValue(f, all.last))]
        BY <3>4 DEF MoreOf
      <4> HIDE DEF T
      <4> QED  BY <2>6, <3>2, <4>1
    <3> QED  BY <3>3, <3>4
  <2>9. \A all \in T : \E lo \in 0 .. Len(a) : Collected(a, j, key, place, lo, all)
    OBVIOUS
  <2> HIDE DEF T
  <2>10. PICK g \in [0 .. n -> T] : FindsBy(g, f, first, n)
    BY <2>5, <2>7, <2>8, FindMoreTrace
  <2> DEFINE R == {i \in 0 .. n : ReachesSlot(place, g[i], i)}
  <2>11. 0 \in R
    <3>1. g[0].last = first
      BY <2>10 DEF FindsBy
    <3>2. first.res = "hit" => first.find.key_num > 0
      <4> SUFFICES ASSUME first.res = "hit" PROVE first.find.key_num > 0
        OBVIOUS
      <4>1. ~(first \in Misses(key, TableAt(a, j), SlotsFor(a, j)))
        BY AnswerFields DEF Misses
      <4>2. PICK i \in Keyed(a, key) :
              first = AnswerOf(a, i, key, Searching(key, TableAt(a, j), SlotsFor(a, j),
                                                    place[i] + 1))
        BY <2>4, <4>1 DEF NextFound
      <4>3. first.find.key_num = place[i] + 1
        BY <4>2 DEF AnswerOf, Answer, Searching
      <4>4. i \in RecordsWith(a, Hash[key])
        BY KeyedWith
      <4>5. place[i] \in 0 .. n - 1
        BY <2>1, <2>2, <4>4 DEF InOrder
      <4> QED  BY <4>3, <4>5
    <3> QED  BY <3>1, <3>2 DEF ReachesSlot
  <2>12. ASSUME NEW i \in 0 .. n - 1, i \in R PROVE i + 1 \in R
    <3>1. i \in 0 .. n /\ i + 1 \in 1 .. n /\ (i + 1) - 1 = i /\ i + 1 \in 0 .. n /\ i \in Nat
      BY <2>2
    <3>2. g[i + 1] = MoreOf(f, g[i])
      BY <2>10, <3>1 DEF FindsBy
    <3>3. g[i] \in T /\ ReachesSlot(place, g[i], i)
      BY <2>12, <3>1
    <3>4. PICK all : all = g[i] /\ \E lo \in 0 .. Len(a) : Collected(a, j, key, place, lo, all)
      BY <2>9, <3>3
    <3>6. PICK lo \in 0 .. Len(a) : Collected(a, j, key, place, lo, all)
      BY <3>4
    <3>5. ReachesSlot(place, all, i) => ReachesSlot(place, MoreOf(f, all), i + 1)
      BY <1>1, <1>2, <1>3, <1>8, <2>1, <3>1, <3>6, CollectsNext
    <3> QED  BY <3>1, <3>2, <3>3, <3>4, <3>5
  <2>13. n \in R /\ n \in 0 .. n
    <3>1. n \in 0 .. n
      BY <2>2
    <3> HIDE DEF R
    <3> QED  BY <2>11, <2>12, <3>1, UpTo
  <2>14. PICK all, lo \in 0 .. Len(a) :
           /\ all = FindAll(f, key)
           /\ Collected(a, j, key, place, lo, all) /\ ReachesSlot(place, all, n)
    <3>1. g[n] \in T /\ FindAll(f, key) = g[n] /\ ReachesSlot(place, g[n], n)
      BY <1>5, <2>10, <2>13 DEF FindsBy
    <3> QED  BY <2>9, <3>1
  <2>15. all.last \in Misses(key, TableAt(a, j), SlotsFor(a, j))
         /\ \A k \in Keyed(a, key) : k <= lo
    <3> SUFFICES ASSUME NEW i \in Keyed(a, key),
                        all.last = AnswerOf(a, i, key, Searching(key, TableAt(a, j),
                                                         SlotsFor(a, j), place[i] + 1))
                 PROVE  FALSE
      BY <2>14 DEF Collected, NextFound
    <3>1. all.last.res = "hit" /\ all.last.find.key_num = place[i] + 1
      BY DEF AnswerOf, Answer, Searching
    <3>2. i \in RecordsWith(a, Hash[key])
      BY KeyedWith
    <3>3. place[i] \in 0 .. n - 1
      BY <2>1, <2>2, <3>2 DEF InOrder
    <3> QED  BY <2>14, <3>1, <3>3 DEF ReachesSlot
  <2>16. all.last.res = "miss"
    BY <2>15 DEF Misses, Answer
  <2>17. all.values = ValuesOf(a, key)
    <3>1. Len(a) \in 0 .. Len(a) /\ lo <= Len(a)
      OBVIOUS
    <3>2. \A k \in Keyed(a, key) : k <= lo \/ k > Len(a)
      BY <2>15
    <3>3. ValuesOf(Prefix(a, Len(a)), key) = ValuesOf(Prefix(a, lo), key)
      BY <3>1, <3>2, ValuesOfSkip
    <3> QED  BY <2>14, <3>3, PrefixAll DEF Collected
  <2> QED  BY <1>3, <2>14, <2>16, <2>17
<1> QED  BY <1>6, <1>7, <1>8

-----------------------------------------------------------------------------
(* A header that is not written to its end.                                *)

(* A file whose header has been written up to byte n, and is still empty   *)
(* behind it.                                                              *)
HeaderUpTo(f, a, n) ==
  \A o \in 1 .. SIZEOF_TABLE :
    o <= Len(f) => f[o] = IF o <= n THEN Pointers(a, TABLES)[o] ELSE 0

(* The table pointers are in the header. *)
LEMMA PointerInHeader ==
  ASSUME NEW j \in Buckets
  PROVE  \E o \in Nat : o = j * SIZEOF_TPTR /\ o + SIZEOF_TPTR <= SIZEOF_TABLE
<1>1. /\ SIZEOF_TPTR \in Nat /\ TABLES \in Nat /\ j \in Nat /\ j <= TABLES - 1
      /\ SIZEOF_TABLE = SIZEOF_TPTR * TABLES
  BY FormatAssumption DEF Buckets, SIZEOF_TPTR, SIZEOF_TABLE
<1>2. PICK m \in Nat : TABLES = j + 1 + m
  <2>1. TABLES - (j + 1) \in Nat /\ TABLES = j + 1 + (TABLES - (j + 1))
    BY <1>1
  <2> QED  BY <2>1
<1>3. \A s, x, y \in Nat : x * s \in Nat /\ s * y \in Nat
                           /\ s * (x + 1 + y) = x * s + s + s * y
  OBVIOUS
<1>4. j * SIZEOF_TPTR \in Nat /\ SIZEOF_TPTR * m \in Nat
      /\ SIZEOF_TABLE = j * SIZEOF_TPTR + SIZEOF_TPTR + SIZEOF_TPTR * m
  BY <1>1, <1>2, <1>3
<1>5. SIZEOF_TABLE \in Nat /\ j * SIZEOF_TPTR + SIZEOF_TPTR <= SIZEOF_TABLE
  BY <1>1, <1>4
<1> QED  BY <1>4, <1>5

(* The table pointer of a key in such a file names the table, or a part of *)
(* it from its first slot on, or nothing.                                  *)
LEMMA TornPointer ==
  ASSUME NEW a \in Seq(Record), Fits(a), NEW f \in Seq(Bytes), NEW n \in Nat,
         HeaderUpTo(f, a, n), NEW j \in Buckets, Readable(f, j * SIZEOF_TPTR, SIZEOF_TPTR),
         NEW table, table = ReadPointer(f, j * SIZEOF_TPTR)
  PROVE  /\ table.length \in 0 .. SlotsFor(a, j)
         /\ table.length > 0 => table = [offset |-> TableAt(a, j), length |-> table.length]
<1>1. PICK o \in Nat : o = j * SIZEOF_TPTR /\ o + SIZEOF_TPTR <= SIZEOF_TABLE
      /\ o + SIZEOF_TPTR <= Len(f)
  <2>1. PICK i \in Nat : i = j * SIZEOF_TPTR /\ i + SIZEOF_TPTR <= SIZEOF_TABLE
    BY PointerInHeader
  <2> QED  BY <2>1 DEF Readable
<1>2. PICK x \in Nat, y \in Nat :
        x = TableAt(a, j) /\ y = SlotsFor(a, j) /\ y \in Words /\ (y > 0 => x \in Words)
  <2>1. Len(BucketOf(a, j)) \in Nat
    BY TableEnds
  <2> QED  BY <2>1, FitsTables DEF SlotsFor
<1>3. PICK p \in Seq(Bytes), q \in Seq(Bytes) :
        p = Pack(x) /\ q = Pack(y) /\ Len(p) = WORD /\ Len(q) = WORD
  BY PackBytes
<1>4. PICK head \in Seq(Bytes) : head = Pointers(a, TABLES) /\ Len(head) = SIZEOF_TABLE
  BY ImageParts
<1>5. WORD \in Nat /\ SIZEOF_TPTR = WORD + WORD
  BY FormatAssumption DEF SIZEOF_TPTR
<1>6. Holds(head, o, p) /\ Holds(head, o + WORD, q)
  <2>1. Holds(head, 0, Pointers(a, TABLES))
    BY <1>4, HoldsWhole
  <2>2. Holds(head, o, TablePointer(a, j))
    BY <1>1, <1>4, <2>1, PointerHolds
  <2>3. TablePointer(a, j) = p \o q
    <3>1. j \in Nat
      BY DEF Buckets
    <3>2. OffsetOf(a, Len(a) + 1) = RecordsEnd(a)
      BY OffsetOfNext DEF RecordsEnd
    <3> QED  BY <1>2, <1>3, <3>2 DEF TablePointer, TableAt, SlotsFor, Base
  <2> QED  BY <1>3, <2>2, <2>3, HoldsParts
<1>7. /\ \A i \in 1 .. WORD : head[o + i] = p[i]
      /\ \A i \in 1 .. WORD : head[o + WORD + i] = q[i]
  BY <1>3, <1>6 DEF Holds
<1>8. /\ \A i \in 1 .. WORD : f[o + i] = IF o + i <= n THEN p[i] ELSE 0
      /\ \A i \in 1 .. WORD : f[o + WORD + i] = IF o + WORD + i <= n THEN q[i] ELSE 0
  <2>1. \A i \in 1 .. WORD : /\ o + i \in 1 .. SIZEOF_TABLE /\ o + i <= Len(f)
                             /\ o + WORD + i \in 1 .. SIZEOF_TABLE /\ o + WORD + i <= Len(f)
    BY <1>1, <1>5, WordSizes
  <2>2. \A i \in 1 .. SIZEOF_TABLE : i <= Len(f) => f[i] = IF i <= n THEN head[i] ELSE 0
    BY <1>4 DEF HeaderUpTo
  <2> QED  BY <1>7, <2>1, <2>2
<1>9. /\ \A i \in 1 .. WORD : p[i] = (x \div BYTE^(i - 1)) % BYTE
      /\ \A i \in 1 .. WORD : q[i] = (y \div BYTE^(i - 1)) % BYTE
  BY <1>3 DEF Pack
<1>10. table = [offset |-> Unpack(f, o), length |-> Unpack(f, o + WORD)]
  BY <1>1 DEF ReadPointer
<1>11. PICK w \in Nat : w = o + WORD
  BY <1>5
<1>12. CASE n <= o + WORD
  <2>1. PICK k \in 0 .. WORD : k = 0
    BY <1>5
  <2>2. \A i \in 1 .. WORD : ~(i <= k) /\ ~(w + i <= n)
    BY <1>5, <1>11, <1>12, <2>1
  <2>3. \A i \in 1 .. WORD : f[w + i]
                               = IF i <= k THEN (y \div BYTE^(i - 1)) % BYTE ELSE 0
    BY <1>8, <1>11, <2>2
  <2>4. Unpack(f, w) = y % BYTE^k
    BY <2>3, UnpackPart
  <2>5. y % 1 = 0
    OBVIOUS
  <2>6. table.length = 0
    BY <1>10, <1>11, <2>1, <2>4, <2>5, Powers
  <2> QED  BY <1>2, <2>6
<1>13. CASE n > o + WORD
  <2>1. PICK k \in 0 .. WORD : \A i \in 1 .. WORD : o + WORD + i <= n <=> i <= k
    <3>1. CASE n > o + WORD + WORD
      <4>1. \A i \in 1 .. WORD : o + WORD + i <= n /\ i <= WORD
        BY <1>5, <3>1
      <4>2. WORD \in 0 .. WORD
        BY <1>5
      <4> QED  BY <4>1, <4>2
    <3>2. CASE n <= o + WORD + WORD
      <4>1. n - (o + WORD) \in 0 .. WORD
        BY <1>5, <1>13, <3>2
      <4>2. \A i \in 1 .. WORD : o + WORD + i <= n <=> i <= n - (o + WORD)
        BY <1>5
      <4> QED  BY <4>1, <4>2
    <3> QED  BY <1>5, <3>1, <3>2
  <2>2. \A i \in 1 .. WORD : f[w + i]
                               = IF i <= k THEN (y \div BYTE^(i - 1)) % BYTE ELSE 0
    BY <1>8, <1>9, <1>11, <2>1
  <2>3. Unpack(f, o + WORD) = y % BYTE^k
    <3>1. Unpack(f, w) = y % BYTE^k
      BY <2>2, UnpackPart
    <3> QED  BY <1>11, <3>1
  <2>4. PICK c \in Nat \ {0} : c = BYTE^k
    BY Powers
  <2>5. PICK d \in Nat, r \in 0 .. c - 1 : y = c * d + r /\ r = y % c
    BY DivOf
  <2>6. r <= y
    <3>1. c * d \in Nat
      OBVIOUS
    <3> QED  BY <2>5, <3>1
  <2>7. table.length = r /\ r \in 0 .. y
    BY <1>10, <2>3, <2>4, <2>5, <2>6
  <2>8. Unpack(f, o) = U32(x)
    <3>1. \A i \in 1 .. WORD : o + i <= n
      BY <1>5, <1>13
    <3>2. \A i \in 1 .. WORD : f[o + i] = (x \div BYTE^(i - 1)) % BYTE
      BY <1>8, <1>9, <3>1
    <3> QED  BY <3>2, UnpackDigits
  <2>9. r > 0 => U32(x) = x
    <3>1. r > 0 => x \in Words
      BY <1>2, <2>7
    <3>2. \A m \in Nat : \A z \in 0 .. m : z % (m + 1) = z
      OBVIOUS
    <3> QED  BY <3>1, <3>2, WordSizes DEF U32, Words
  <2>10. table.length > 0 => table = [offset |-> x, length |-> table.length]
    BY <1>10, <2>7, <2>8, <2>9
  <2> QED  BY <1>2, <2>7, <2>10
<1> QED  BY <1>5, <1>12, <1>13

-----------------------------------------------------------------------------
(* A file that is not written to its end.                                  *)

(* A piece of a file from its first byte on. *)
Starts(f, file) ==
  /\ f \in Seq(Bytes) /\ Len(f) <= Len(file)
  /\ \A i \in 1 .. Len(f) : f[i] = file[i]

LEMMA HoldsInStart ==
  ASSUME NEW file \in Seq(Bytes), NEW f, Starts(f, file), NEW o \in Nat,
         NEW bytes \in Seq(Bytes), Holds(file, o, bytes), o + Len(bytes) <= Len(f)
  PROVE  Holds(f, o, bytes)
<1>1. Len(f) \in Nat /\ Len(bytes) \in Nat
  BY DEF Starts
<1>2. \A i \in 1 .. Len(bytes) : o + i \in 1 .. Len(f)
  BY <1>1
<1> QED  BY <1>1, <1>2 DEF Holds, Starts

(* A file in which the table pointers, or the first bytes of them, are     *)
(* written only if everything behind them is.                              *)
Written(file, a) ==
  /\ file \in Seq(Bytes)
  /\ \E n \in 0 .. SIZEOF_TABLE :
       /\ HeaderUpTo(file, a, n)
       /\ n > 0 => /\ Fits(a)
                   /\ SubSeq(file, SIZEOF_TABLE + 1, Len(file))
                        = Encoded(a) \o SlotTables(a, TABLES)

(* An empty list of records, whose table pointers are all zero.            *)
LEMMA NoRecords ==
  /\ <<>> \in Seq(Record) /\ Fits(<<>>)
  /\ \A j \in Buckets : SlotsFor(<<>>, j) = 0
<1>1. PICK a \in Seq(Record) : a = <<>> /\ Len(a) = 0
  <2>1. <<>> \in Seq(Record) /\ Len(<<>>) = 0
    OBVIOUS
  <2> QED  BY <2>1
<1>2. Encoded(a) = <<>>
  BY <1>1, EncodedEmpty
<1>3. RecordsEnd(a) = SIZEOF_TABLE
  <2>1. Len(<<>>) = 0
    OBVIOUS
  <2> QED  BY <1>2, <2>1, WordSizes DEF RecordsEnd
<1>4. 2 * SIZEOF_SLOT * Len(a) = 0
  <2>1. \A x \in Nat : x * 0 = 0
    OBVIOUS
  <2>2. 2 * SIZEOF_SLOT \in Nat
    BY WordSizes
  <2> QED  BY <1>1, <2>1, <2>2
<1>5. Fits(a)
  BY <1>3, <1>4, WordSizes DEF Fits
<1>6. \A j \in Buckets : SlotsFor(a, j) = 0
  <2> TAKE j \in Buckets
  <2>1. BucketOf(a, j) = <<>>
    BY <1>1, BucketOfEmpty
  <2> QED  BY <2>1 DEF SlotsFor
<1> QED  BY <1>1, <1>5, <1>6

(* What is behind the header, if there are records at all.                 *)
LEMMA WrittenLaid ==
  ASSUME NEW a \in Seq(Record), NEW file \in Seq(Bytes), NEW i \in 1 .. Len(a),
         SubSeq(file, SIZEOF_TABLE + 1, Len(file)) = Encoded(a) \o SlotTables(a, TABLES)
  PROVE  Laid(file, a)
<1>1. PICK e \in Seq(Bytes), t \in Seq(Bytes) : e = Encoded(a) /\ t = SlotTables(a, TABLES)
  <2>1. Encoded(a) \in Seq(Bytes) /\ SlotTables(a, TABLES) \in Seq(Bytes)
    BY EncodedType, SlotTablesType, FormatAssumption
  <2> QED  BY <2>1
<1>2. PICK b \in Seq(Bytes) : b = e \o t /\ Len(b) = Len(e) + Len(t)
  BY Concat
<1>3. Len(e) > 0
  <2>1. OffsetOf(a, i) \in Nat /\ OffsetOf(a, i) >= SIZEOF_TABLE
        /\ OffsetOf(a, i) < OffsetOf(a, Len(a) + 1)
    <3>1. i \in 1 .. Len(a) + 1 /\ Len(a) + 1 \in 1 .. Len(a) + 1 /\ i < Len(a) + 1
      OBVIOUS
    <3> QED  BY <3>1, OffsetNext, OffsetGrows
  <2>2. OffsetOf(a, Len(a) + 1) = SIZEOF_TABLE + Len(e)
    BY <1>1, OffsetOfNext
  <2>3. Len(e) \in Nat
    OBVIOUS
  <2> QED  BY <2>1, <2>2, <2>3, WordSizes
<1>4. PICK h \in Nat, m \in Nat : h = SIZEOF_TABLE /\ m = Len(file)
  <2>1. SIZEOF_TABLE \in Nat /\ Len(file) \in Nat
    BY WordSizes
  <2> QED  BY <2>1
<1>5. SubSeq(file, h + 1, m) = b
  BY <1>1, <1>2, <1>4
<1>6. m > h
  <2>1. CASE m <= h
    <3>1. SubSeq(file, h + 1, m) = <<>>
      BY <1>4, <2>1
    <3>2. Len(b) = 0
      BY <1>5, <3>1
    <3> QED  BY <1>2, <1>3, <3>2
  <2> QED  BY <1>4, <2>1
<1>7. Len(b) = m - h /\ \A q \in 1 .. m - h : file[h + q] = b[q]
  <2>1. /\ Len(SubSeq(file, h + 1, m)) = m - h
        /\ \A q \in 1 .. m - h : SubSeq(file, h + 1, m)[q] = file[h + q]
    BY <1>4, <1>6
  <2> QED  BY <1>5, <2>1
<1>8. Holds(file, h, b)
  BY <1>4, <1>7 DEF Holds
<1> QED  BY <1>1, <1>2, <1>4, <1>8, LaidParts

-----------------------------------------------------------------------------
(* What is found in it.                                                    *)

(* A search in a table, or in the first slots of one, that answers at a    *)
(* slot: the slot is in the file, and it is the record's.                  *)
LEMMA HitIsRecord ==
  ASSUME NEW a \in Seq(Record), Fits(a), NEW file \in Seq(Bytes), Laid(file, a),
         NEW f, Starts(f, file), NEW k \in Keys, NEW j \in Buckets, j = Bucket(Hash[k]),
         NEW t \in Nat, t = TableAt(a, j), NEW r \in 0 .. SlotsFor(a, j) - 1,
         NEW o \in Nat, o = t + SIZEOF_SLOT * r, Probe(f, o, k) = "hit"
  PROVE  /\ Holds(f, SIZEOF_TABLE, Encoded(a))
         /\ \E i \in Keyed(a, k) : ReadSlot(f, o) = SlotOf(a, i)
<1>1. /\ f \in Seq(Bytes) /\ Len(f) \in Nat /\ Len(f) <= Len(file)
      /\ Holds(file, SIZEOF_TABLE, Encoded(a))
      /\ Holds(file, RecordsEnd(a), SlotTables(a, TABLES))
  BY DEF Starts, Laid
<1>2. o + SIZEOF_SLOT <= Len(f)
  BY DEF Probe, Readable
<1>3. Hash[k] \in Words /\ Hash[k] \in Nat
  BY BucketInRange
<1>4. PICK slot : slot = FillTable(BucketOf(a, j))[r]
  OBVIOUS
<1>5. slot \in RawSlot /\ Holds(file, o, PackSlot(slot))
  <2>1. r \in 0 .. 2 * Len(BucketOf(a, j)) - 1
    BY DEF SlotsFor
  <2>2. Holds(file, TableAt(a, j), TableBytes(a, j))
    BY <1>1, TableHolds
  <2> QED  BY <1>4, <2>1, <2>2, SlotHolds
<1>6. Holds(f, o, PackSlot(slot))
  <2>1. PICK p \in Seq(Bytes) : p = PackSlot(slot) /\ Len(p) = SIZEOF_SLOT
    BY <1>5, PackSlotBytes
  <2>2. o + Len(p) <= Len(f)
    BY <1>2, <2>1
  <2>3. Holds(file, o, p)
    BY <1>5, <2>1
  <2> QED  BY <2>1, <2>2, <2>3, HoldsInStart
<1>7. Holds(f, SIZEOF_TABLE, Encoded(a))
  <2>1. PICK e \in Seq(Bytes) : e = Encoded(a)
    BY EncodedType
  <2>2. t >= SIZEOF_TABLE + Len(e)
    <3>1. j \in Nat
      BY DEF Buckets
    <3>2. TableAt(a, j) >= RecordsEnd(a)
      BY <3>1, TableAtNat
    <3> QED  BY <2>1, <3>2 DEF RecordsEnd
  <2>3. o >= t
    <3>1. SIZEOF_SLOT * r \in Nat
      BY WordSizes
    <3> QED  BY <3>1
  <2>4. SIZEOF_TABLE \in Nat /\ SIZEOF_SLOT \in Nat /\ Len(e) \in Nat
    BY WordSizes
  <2>5. SIZEOF_TABLE + Len(e) <= Len(f)
    BY <1>1, <1>2, <2>2, <2>3, <2>4
  <2>6. Holds(file, SIZEOF_TABLE, e)
    BY <1>1, <2>1
  <2> QED  BY <2>1, <2>4, <2>5, <2>6, HoldsInStart
<1>8. PICK n \in Nat \ {0} : n = SlotsFor(a, j)
  <2>1. SlotsFor(a, j) \in Nat
    BY TableEnds DEF SlotsFor
  <2> QED  BY <2>1
<1>9. PICK d \in 0 .. n - 1 : Reached(n, Hash[k], d) = r
  <2>1. r \in 0 .. n - 1
    BY <1>8
  <2> QED  BY <1>3, <2>1, ReachedAll
<1>10. d \in Nat /\ SlotReached(a, j, Hash[k], d) = slot
  BY <1>4, <1>8, <1>9 DEF SlotReached
<1>11. slot = FreeSlot \/ \E i \in 1 .. Len(a) : slot = SlotOf(a, i)
  <2>1. SlotsFor(a, j) > 0
    BY <1>8
  <2> QED  BY <1>3, <1>10, <2>1, SlotsInOrder
<1>12. slot # FreeSlot
  <2>1. slot = FreeSlot => Probe(f, o, k) = "miss"
    BY <1>1, <1>6, ProbeFree
  <2> QED  BY <2>1
<1>13. PICK i \in 1 .. Len(a) : slot = SlotOf(a, i)
  BY <1>11, <1>12
<1>14. /\ ReadSlot(f, o) = SlotOf(a, i)
       /\ Probe(f, o, k) = IF a[i].key = k THEN "hit" ELSE "next"
  BY <1>1, <1>6, <1>7, <1>13, ProbeRecord
<1>15. i \in Keyed(a, k)
  BY <1>14 DEF Keyed
<1> QED  BY <1>7, <1>14, <1>15

-----------------------------------------------------------------------------
(* What a search for a key finds is a value that was added for it.         *)
FoundAdded(f, a, k) ==
  LET found == FindFirst(f, k)
      ownValue == ReadValue(f, found)
  IN  found.res = "hit" =>
        /\ Readable(f, found.offset, found.length)
        /\ \E i \in DOMAIN a : a[i] = [key |-> k, value |-> ownValue]

(* The answer is a record's. *)
LEMMA AnswerAdded ==
  ASSUME NEW a \in Seq(Record), NEW f \in Seq(Bytes), Holds(f, SIZEOF_TABLE, Encoded(a)),
         NEW k, NEW i \in Keyed(a, k), NEW find, FindFirst(f, k) = AnswerOf(a, i, k, find)
  PROVE  FoundAdded(f, a, k)
<1>1. PICK found : found = AnswerOf(a, i, k, find)
  OBVIOUS
<1>2. ReadValue(f, found) = a[i].value /\ Readable(f, found.offset, found.length)
  BY <1>1, ValueRead
<1>3. i \in DOMAIN a /\ a[i] \in Record /\ a[i].key = k
  BY DEF Keyed
<1>4. a[i] = [key |-> a[i].key, value |-> a[i].value]
  BY <1>3 DEF Record
<1> QED  BY <1>1, <1>2, <1>3, <1>4 DEF FoundAdded

(* What is found in a file that ends early, or has only a part of its      *)
(* header, was added.                                                      *)
LEMMA FoundInStart ==
  ASSUME NEW a \in Seq(Record), NEW file, Written(file, a), NEW f, Starts(f, file),
         NEW k \in Keys
  PROVE  FoundAdded(f, a, k)
<1> SUFFICES ASSUME FindFirst(f, k).res = "hit" PROVE FoundAdded(f, a, k)
  BY DEF FoundAdded
<1>1. file \in Seq(Bytes) /\ f \in Seq(Bytes) /\ Len(f) \in Nat
  BY DEF Written, Starts
<1>2. PICK j \in Buckets : j = Bucket(Hash[k])
  BY BucketInRange
<1>3. Hash[k] \in Nat /\ PTR_TABLE(Hash[k]) = j * SIZEOF_TPTR
  BY <1>2, BucketInRange DEF PTR_TABLE
<1>4. PICK n \in 0 .. SIZEOF_TABLE :
        /\ HeaderUpTo(file, a, n)
        /\ n > 0 => /\ Fits(a)
                    /\ SubSeq(file, SIZEOF_TABLE + 1, Len(file))
                         = Encoded(a) \o SlotTables(a, TABLES)
  BY DEF Written
<1>5. HeaderUpTo(f, a, n) /\ n \in Nat
  <2>1. \A o \in 1 .. SIZEOF_TABLE : o <= Len(f) => o \in 1 .. Len(f) /\ o <= Len(file)
    BY <1>1, WordSizes DEF Starts
  <2>2. \A o \in 1 .. SIZEOF_TABLE :
          o <= Len(file) => file[o] = IF o <= n THEN Pointers(a, TABLES)[o] ELSE 0
    BY <1>4 DEF HeaderUpTo
  <2>3. \A o \in 1 .. Len(f) : f[o] = file[o]
    BY DEF Starts
  <2>4. \A o \in 1 .. SIZEOF_TABLE :
          o <= Len(f) => f[o] = IF o <= n THEN Pointers(a, TABLES)[o] ELSE 0
    BY <2>1, <2>2, <2>3
  <2> QED  BY <2>4, WordSizes DEF HeaderUpTo
<1>6. Readable(f, j * SIZEOF_TPTR, SIZEOF_TPTR)
  <2>1. SUFFICES ASSUME ~Readable(f, j * SIZEOF_TPTR, SIZEOF_TPTR) PROVE FALSE
    OBVIOUS
  <2>2. FindFirst(f, k) = Answer("error", 0, 0, NewFind(k))
    BY <1>3, <2>1, FindFirstIs
  <2> QED  BY <2>2 DEF Answer
<1>7. PICK table : table = ReadPointer(f, j * SIZEOF_TPTR)
  OBVIOUS
<1>8. FindFirst(f, k) = ProbeTable(f, NewFind(k), table)
  BY <1>3, <1>6, <1>7, FindFirstIs
<1>9. table.length # 0
  BY <1>8, NoTable
<1>10. n > 0
  <2>1. SUFFICES ASSUME n = 0 PROVE FALSE
    BY <1>5
  <2>2. PICK none \in Seq(Record) : Fits(none) /\ SlotsFor(none, j) = 0
    BY NoRecords
  <2>3. \A o \in 1 .. SIZEOF_TABLE : ~(o <= 0)
    OBVIOUS
  <2>4. HeaderUpTo(f, none, n)
    BY <1>5, <2>1, <2>3 DEF HeaderUpTo
  <2>5. table.length \in 0 .. SlotsFor(none, j)
    BY <1>1, <1>5, <1>6, <1>7, <2>2, <2>4, TornPointer
  <2>6. table.length \in 0 .. 0
    BY <2>2, <2>5
  <2> QED  BY <1>9, <2>6
<1>11. /\ Fits(a)
       /\ SubSeq(file, SIZEOF_TABLE + 1, Len(file)) = Encoded(a) \o SlotTables(a, TABLES)
  BY <1>4, <1>10
<1>12. /\ table.length \in 0 .. SlotsFor(a, j)
       /\ table.length > 0 => table = [offset |-> TableAt(a, j), length |-> table.length]
  BY <1>1, <1>5, <1>6, <1>7, <1>11, TornPointer
<1>13. /\ Base(a, j) \in Nat /\ Len(BucketOf(a, j)) \in Nat
       /\ Base(a, j) + Len(BucketOf(a, j)) <= Len(a)
       /\ SlotsFor(a, j) = 2 * Len(BucketOf(a, j))
  BY TableEnds DEF SlotsFor
<1>14. PICK m \in Nat \ {0} : m = table.length /\ m <= SlotsFor(a, j) /\ SlotsFor(a, j) \in Nat
  BY <1>9, <1>12, <1>13
<1>15. Laid(file, a)
  <2>1. Len(BucketOf(a, j)) > 0
    BY <1>13, <1>14
  <2>2. Len(a) \in Nat
    OBVIOUS
  <2>3. 1 \in 1 .. Len(a)
    BY <1>13, <2>1, <2>2
  <2> QED  BY <1>1, <1>11, <2>3, WrittenLaid
<1>16. PICK t \in Nat \ {0} : t = TableAt(a, j) /\ t + SIZEOF_SLOT * SlotsFor(a, j) <= MAX_OFF + 1
  <2>1. TableAt(a, j) \in Nat
        /\ TableAt(a, j) + SIZEOF_SLOT * SlotsFor(a, j) <= MAX_OFF + 1
    BY <1>11, FitsTables DEF SlotsFor
  <2>2. j \in Nat
    BY DEF Buckets
  <2>3. RecordsEnd(a) \in Nat /\ RecordsEnd(a) >= SIZEOF_TABLE /\ TableAt(a, j) >= RecordsEnd(a)
    BY <2>2, TableAtNat
  <2>4. TableAt(a, j) > 0
    BY <2>1, <2>3, WordSizes
  <2> QED  BY <2>1, <2>4
<1>17. t + SIZEOF_SLOT * m <= MAX_OFF + 1
  <2>1. \A s, x, y \in Nat : x <= y => s * x \in Nat /\ s * y \in Nat /\ s * x <= s * y
    OBVIOUS
  <2>2. SIZEOF_SLOT * m \in Nat /\ SIZEOF_SLOT * SlotsFor(a, j) \in Nat
        /\ SIZEOF_SLOT * m <= SIZEOF_SLOT * SlotsFor(a, j)
    BY <1>14, <2>1, WordSizes
  <2> QED  BY <1>16, <2>2, WordSizes
<1>18. FindFirst(f, k) = ProbeSlots(f, Searching(k, t, m, 0))
  <2>1. table = [offset |-> t, length |-> m]
    BY <1>12, <1>14, <1>16
  <2>2. ProbeTable(f, NewFind(k), [offset |-> t, length |-> m])
          = ProbeSlots(f, Searching(k, t, m, 0))
    BY <1>3, <1>17, SearchBegins
  <2> QED  BY <1>8, <2>1, <2>2
<1>19. PICK e \in 0 .. m : FindFirst(f, k) = StopsWith(f, k, t, m, e)
  <2>1. 0 \in 0 .. m
    OBVIOUS
  <2> QED  BY <1>3, <1>17, <1>18, <2>1, ProbeStops
<1>20. e # m
  <2>1. e = m => FindFirst(f, k) = Answer("miss", 0, 0, Searching(k, t, m, m))
    BY <1>19 DEF StopsWith
  <2>2. Answer("miss", 0, 0, Searching(k, t, m, m)).res = "miss"
    BY AnswerFields
  <2> QED  BY <2>1, <2>2
<1>21. PICK r \in 0 .. m - 1 : r = Reached(m, Hash[k], e)
  <2>1. e \in Nat
    OBVIOUS
  <2>2. Reached(m, Hash[k], e) \in 0 .. m - 1
    BY <1>3, <2>1, ReachedRange
  <2> QED  BY <2>2
<1>22. PICK o \in Nat : o = t + SIZEOF_SLOT * r /\ o = OffsetReached(t, m, Hash[k], e)
  <2>1. SIZEOF_SLOT * r \in Nat
    BY WordSizes
  <2>2. t + SIZEOF_SLOT * r \in Nat
    BY <2>1
  <2> QED  BY <1>21, <2>2 DEF OffsetReached
<1>23. FindFirst(f, k) = AnswerAt(f, Probe(f, o, k), ReadSlot(f, o),
                                  Searching(k, t, m, e), Searching(k, t, m, e + 1))
  BY <1>19, <1>20, <1>22 DEF StopsWith, ProbeReached
<1>24. Probe(f, o, k) = "hit"
  <2>1. SUFFICES ASSUME Probe(f, o, k) # "hit" PROVE FALSE
    OBVIOUS
  <2>2. FindFirst(f, k) = Answer(Probe(f, o, k), 0, 0, Searching(k, t, m, e))
    BY <1>23, <2>1 DEF AnswerAt
  <2> QED  BY <2>1, <2>2, AnswerFields
<1>25. Holds(f, SIZEOF_TABLE, Encoded(a)) /\ \E i \in Keyed(a, k) : ReadSlot(f, o) = SlotOf(a, i)
  <2>1. r \in 0 .. SlotsFor(a, j) - 1
    BY <1>14
  <2> QED  BY <1>1, <1>2, <1>11, <1>15, <1>16, <1>22, <1>24, <2>1, HitIsRecord
<1>26. PICK i \in Keyed(a, k) : ReadSlot(f, o) = SlotOf(a, i)
  BY <1>25
<1>27. i \in 1 .. Len(a)
  BY DEF Keyed
<1>28. FindFirst(f, k) = AnswerOf(a, i, k, Searching(k, t, m, e + 1))
  <2>1. PICK p \in Nat : p = OffsetOf(a, i)
    BY <1>27, OffsetNext
  <2>2. ReadDLength(f, p) = [klen |-> Len(a[i].key), dlen |-> Len(a[i].value)]
    BY <1>1, <1>25, <1>27, <2>1, RecordRead
  <2>3. ReadDLength(f, p).dlen = Len(a[i].value)
    BY <2>2
  <2>4. SlotOf(a, i).offset = p
    BY <1>27, <2>1, SlotOfFields
  <2>5. Searching(k, t, m, e + 1).key = k
    BY DEF Searching
  <2>6. AnswerAt(f, Probe(f, o, k), ReadSlot(f, o),
                 Searching(k, t, m, e), Searching(k, t, m, e + 1))
          = Answer("hit", p + SIZEOF_DLENGTH + Len(k), Len(a[i].value),
                   Searching(k, t, m, e + 1))
    BY <1>24, <1>26, <2>3, <2>4, <2>5 DEF AnswerAt
  <2> QED  BY <1>23, <2>1, <2>6 DEF AnswerOf
<1> QED  BY <1>1, <1>25, <1>28, AnswerAdded

-----------------------------------------------------------------------------
(* A file and its map.                                                     *)

(* What is read from the bytes of a file is a number. *)
LEMMA UnpackNat ==
  ASSUME NEW f \in Seq(Bytes), NEW o \in Nat, o + WORD <= Len(f)
  PROVE  Unpack(f, o) \in Nat
<1> DEFINE Is(w) == w = [n \in 0 .. WORD |->
                          IF n = 0 THEN 0
                          ELSE w[n - 1] + f[o + n] * BYTE^(n - 1)]
           step == [x \in Nat \X (1 .. WORD) |-> x[1] + f[o + x[2]] * BYTE^(x[2] - 1)]
<1>0. WORD \in Nat
  BY FormatAssumption
<1>1. \A n \in 1 .. WORD : f[o + n] * BYTE^(n - 1) \in Nat
  <2> TAKE n \in 1 .. WORD
  <2>1. o + n \in 1 .. Len(f) /\ n - 1 \in 0 .. WORD
    BY <1>0
  <2>2. f[o + n] \in Nat
    <3>1. f[o + n] \in Bytes
      BY <2>1
    <3> QED  BY <3>1, FormatAssumption DEF Bytes
  <2>3. BYTE^(n - 1) \in Nat
    BY <2>1, Powers
  <2>4. \A x, y \in Nat : x * y \in Nat
    OBVIOUS
  <2> QED  BY <2>2, <2>3, <2>4
<1>2. PICK g \in [0 .. WORD -> Nat] : IsTrace(g, 0, step, WORD)
  <2>1. ASSUME NEW x \in Nat, NEW n \in 1 .. WORD
        PROVE  x + f[o + n] * BYTE^(n - 1) \in Nat
    <3>1. PICK y \in Nat : y = f[o + n] * BYTE^(n - 1)
      BY <1>1
    <3> QED  BY <3>1
  <2>2. step \in [Nat \X (1 .. WORD) -> Nat]
    BY <2>1
  <2>3. 0 \in Nat
    OBVIOUS
  <2> HIDE DEF step
  <2> QED  BY <1>0, <2>2, <2>3, TraceExists
<1>3. Is(g)
  <2>1. \A n \in 0 .. WORD : n = 0 \/ (n \in 1 .. WORD /\ n # 0)
    BY <1>0
  <2>2. \A n \in 1 .. WORD : g[n] = step[<<g[n - 1], n>>] /\ g[n - 1] \in Nat
    <3>1. \A n \in 1 .. WORD : n - 1 \in 0 .. WORD
      BY <1>0
    <3> HIDE DEF step
    <3> QED  BY <1>2, <3>1 DEF IsTrace
  <2>3. \A n \in 1 .. WORD : g[n] = g[n - 1] + f[o + n] * BYTE^(n - 1)
    BY <2>2
  <2>4. \A n \in 0 .. WORD : g[n] = IF n = 0 THEN 0 ELSE g[n - 1] + f[o + n] * BYTE^(n - 1)
    BY <1>2, <2>1, <2>3 DEF IsTrace
  <2>5. g = [n \in 0 .. WORD |-> g[n]]
    OBVIOUS
  <2> QED  BY <2>4, <2>5
<1>4. Is(CHOOSE w : Is(w))
  <2> HIDE DEF Is
  <2> QED  BY <1>3, Zenon
<1>5. PICK w : Is(w) /\ Unpack(f, o) = w[WORD]
  BY <1>4 DEF Unpack
<1> DEFINE S == {n \in 0 .. WORD : w[n] \in Nat}
<1>6. 0 \in S
  BY <1>0, <1>5
<1>7. ASSUME NEW n \in 0 .. WORD - 1, n \in S PROVE n + 1 \in S
  <2>1. n + 1 \in 1 .. WORD /\ (n + 1) - 1 = n /\ n + 1 \in 0 .. WORD /\ n + 1 # 0
    BY <1>0
  <2>2. PICK y \in Nat : y = f[o + (n + 1)] * BYTE^n
    BY <1>1, <2>1
  <2>3. w[n + 1] = w[n] + y
    <3>1. w[n + 1] = IF n + 1 = 0 THEN 0
                     ELSE w[(n + 1) - 1] + f[o + (n + 1)] * BYTE^((n + 1) - 1)
      BY <1>5, <2>1
    <3> QED  BY <2>1, <2>2, <3>1
  <2> QED  BY <1>7, <2>1, <2>3
<1>8. WORD \in S
  <2>1. WORD \in 0 .. WORD
    BY <1>0
  <2> HIDE DEF S
  <2> QED  BY <1>0, <1>6, <1>7, <2>1, UpTo
<1> QED  BY <1>5, <1>8

(* A pointer that is read consists of two numbers.                         *)
LEMMA PointerRead ==
  ASSUME NEW f \in Seq(Bytes), Readable(f, 0, SIZEOF_TABLE), NEW j \in Buckets
  PROVE  /\ ReadPointer(f, j * SIZEOF_TPTR).offset \in Nat
         /\ ReadPointer(f, j * SIZEOF_TPTR).length \in Nat
<1>1. PICK o \in Nat : o = j * SIZEOF_TPTR /\ o + SIZEOF_TPTR <= SIZEOF_TABLE
  BY PointerInHeader
<1>2. PICK q \in Nat : q = o + WORD /\ q + WORD <= Len(f) /\ o + WORD <= Len(f)
  <2>1. WORD \in Nat /\ SIZEOF_TPTR = WORD + WORD
    BY FormatAssumption DEF SIZEOF_TPTR
  <2>2. SIZEOF_TABLE \in Nat /\ SIZEOF_TABLE <= Len(f) /\ Len(f) \in Nat
    BY WordSizes DEF Readable
  <2>3. o + WORD \in Nat /\ o + WORD + WORD <= Len(f) /\ o + WORD <= Len(f)
    BY <1>1, <2>1, <2>2
  <2> QED  BY <2>3
<1>3. Unpack(f, o) \in Nat /\ Unpack(f, q) \in Nat
  BY <1>2, UnpackNat
<1>4. ReadPointer(f, o) = [offset |-> Unpack(f, o), length |-> Unpack(f, q)]
  BY <1>2 DEF ReadPointer
<1> QED  BY <1>1, <1>3, <1>4

(* A map of a file is a piece of it from its first byte on (cdb32_mmap).   *)
LEMMA MapLengthNat ==
  ASSUME NEW f \in Seq(Bytes), Mappable(f)
  PROVE  MapLength(f) \in 0 .. Len(f)
<1>1. Readable(f, 0, SIZEOF_TABLE) /\ MapLength(f) <= Len(f)
  BY DEF Mappable
<1>2. CASE UsedTables(f) = {}
  BY <1>1, <1>2, WordSizes DEF MapLength
<1>3. CASE UsedTables(f) # {}
  <2>1. Max(UsedTables(f)) \in Buckets
    <3>1. UsedTables(f) \subseteq 0 .. TABLES - 1 /\ TABLES \in Nat
      BY FormatAssumption DEF UsedTables
    <3>2. UsedTables(f) \subseteq 0 .. TABLES
      BY <3>1
    <3>3. Max(UsedTables(f)) \in UsedTables(f)
      BY <1>3, <3>1, <3>2, LargestUpTo
    <3> QED  BY <3>1, <3>3 DEF Buckets
  <2>2. PICK x \in Nat, y \in Nat : x = LastPointer(f).offset /\ y = LastPointer(f).length
    BY <1>1, <2>1, PointerRead DEF LastPointer
  <2>3. \A z \in Nat : U32(z) \in Nat
    BY U32InWords DEF Words
  <2>4. y * SIZEOF_SLOT \in Nat
    <3>1. \A s \in Nat : y * s \in Nat
      OBVIOUS
    <3> QED  BY <3>1, WordSizes
  <2>5. x + U32(y * SIZEOF_SLOT) \in Nat
    <3>1. PICK z \in Nat : z = U32(y * SIZEOF_SLOT)
      BY <2>3, <2>4
    <3> QED  BY <3>1
  <2>6. U32(x + U32(y * SIZEOF_SLOT)) \in Nat
    BY <2>3, <2>5
  <2>7. MapLength(f) = IF U32(x + U32(y * SIZEOF_SLOT)) = 0 THEN Len(f)
                       ELSE U32(x + U32(y * SIZEOF_SLOT))
    BY <1>3, <2>2 DEF MapLength, EndOfTable
  <2> QED  BY <1>1, <2>6, <2>7
<1> QED  BY <1>2, <1>3

(* A map is a file up to where it ends.                                    *)
LEMMA ViewStarts ==
  ASSUME NEW file \in Seq(Bytes), NEW f \in Views(file)
  PROVE  Starts(f, file)
<1>1. Starts(file, file)
  BY DEF Starts
<1>2. CASE Mappable(file) /\ f = SubSeq(file, 1, MapLength(file))
  <2>1. PICK m \in 0 .. Len(file) : m = MapLength(file)
    BY <1>2, MapLengthNat
  <2>2. SubSeq(file, 1, m) \in Seq(Bytes) /\ Len(SubSeq(file, 1, m)) = m
        /\ \A i \in 1 .. m : SubSeq(file, 1, m)[i] = file[i]
    OBVIOUS
  <2> QED  BY <1>2, <2>1, <2>2 DEF Starts
<1> QED  BY <1>1, <1>2 DEF Views

-----------------------------------------------------------------------------
(* Whenever a program opens a file whose header is written last, maps or   *)
(* reads it: the value a search for a key returns is one that was added    *)
(* for it (cdb32_find over cdb32_mmap).                                    *)
THEOREM FoundInViews ==
  ASSUME NEW a \in Seq(Record), NEW file, Written(file, a), NEW f \in Views(file),
         NEW k \in Keys
  PROVE  FoundAdded(f, a, k)
<1>1. file \in Seq(Bytes)
  BY DEF Written
<1> QED  BY <1>1, ViewStarts, FoundInStart
=============================================================================
