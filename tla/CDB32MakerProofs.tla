-------------------------- MODULE CDB32MakerProofs --------------------------
(***************************************************************************)
(* The maker, for any word, buffer and chunk size, any number of tables    *)
(* and any contents.                                                       *)
(*                                                                         *)
(* First the arithmetic of add(): the 32-bit offset and size never lose    *)
(* track of the file, although every sum in the code wraps.  Between the   *)
(* steps of add() the offset may have wrapped to 0 (the key and the value  *)
(* of a record may end at 2^32 exactly); the room for the slots, checked   *)
(* last, then refuses the record.  So SpaceInv speaks of the exact length, *)
(* which no variable of the code holds.                                    *)
(*                                                                         *)
(* Then the bytes: ImageInv says what is on disk, in the buffer and in the *)
(* chunks at every step until commit() has made the file the image of the  *)
(* records.  What is known of such a file is in CDB32FormatProofs.         *)
(***************************************************************************)
EXTENDS CDB32Maker, CDB32FormatProofs

AddSteps == {"idle", "key", "value", "slot"}

(* What has been written or buffered, and what the file will need. *)
Produces == position + Len(buf)
Needs == Produces + 2 * SIZEOF_SLOT * Len(added)

SpaceInv ==
  /\ pc = "open" => flags # {}
  /\ flags = {} /\ pc \in AddSteps =>
       /\ position \in Nat
       /\ buf \in Seq(Bytes)
       /\ added \in Seq(Record)
       /\ pc # "idle" => record \in Record
       /\ offset = U32(Produces)
       /\ Needs \in 1 .. MAX_OFF + 1
       /\ size = U32(Needs)
       /\ pc = "idle" => Produces <= MAX_OFF

-----------------------------------------------------------------------------
(* Neither way of writing loses or adds a byte. *)
LEMMA PutWordsLength ==
  ASSUME buf \in Seq(Bytes), NEW bytes \in Seq(Bytes)
  PROVE  /\ PutWords(Buffered, bytes).buf \in Seq(Bytes)
         /\ PutWords(Buffered, bytes).out \in Seq(Bytes)
         /\ Len(PutWords(Buffered, bytes).out) + Len(PutWords(Buffered, bytes).buf)
              = Len(buf) + Len(bytes)
<1>1. <<>> \in Seq(Bytes) /\ Len(<<>>) = 0 /\ <<>> \o buf = buf
  OBVIOUS
<1>2. Len(buf) \in Nat /\ Len(bytes) \in Nat
  OBVIOUS
<1>3. CASE WRITE_BUF_SIZE - Len(buf) < Len(bytes)
  <2>1. PutWords(Buffered, bytes) = [out |-> <<>> \o buf, buf |-> bytes]
    BY <1>3 DEF PutWords, Buffered, Flush
  <2>2. /\ PutWords(Buffered, bytes).out = buf
        /\ PutWords(Buffered, bytes).buf = bytes
    BY <1>1, <2>1
  <2> QED
    BY <2>2
<1>4. CASE ~(WRITE_BUF_SIZE - Len(buf) < Len(bytes))
  <2>1. PutWords(Buffered, bytes) = [out |-> <<>>, buf |-> buf \o bytes]
    BY <1>4 DEF PutWords, Buffered
  <2>2. /\ PutWords(Buffered, bytes).out = <<>>
        /\ PutWords(Buffered, bytes).buf = buf \o bytes
    BY <2>1
  <2>3. buf \o bytes \in Seq(Bytes) /\ Len(buf \o bytes) = Len(buf) + Len(bytes)
    OBVIOUS
  <2> QED
    BY <1>1, <1>2, <2>2, <2>3
<1> QED
  BY <1>3, <1>4

LEMMA PutStringLength ==
  ASSUME buf \in Seq(Bytes), NEW string \in Seq(Bytes)
  PROVE  /\ PutString(Buffered, string).buf \in Seq(Bytes)
         /\ PutString(Buffered, string).out \in Seq(Bytes)
         /\ Len(PutString(Buffered, string).out)
              + Len(PutString(Buffered, string).buf) = Len(buf) + Len(string)
<1> DEFINE bytes == buf \o string
           full == (Len(bytes) \div WRITE_BUF_SIZE) * WRITE_BUF_SIZE
           written == SubSeq(bytes, 1, full)
           kept == SubSeq(bytes, full + 1, Len(bytes))
<1>1. <<>> \in Seq(Bytes) /\ Len(<<>>) = 0 /\ Len(buf) \in Nat
  OBVIOUS
<1>2. CASE string = <<>>
  <2>1. PutString(Buffered, string) = [out |-> <<>>, buf |-> buf]
    BY <1>2 DEF PutString, Buffered
  <2>2. /\ PutString(Buffered, string).out = <<>>
        /\ PutString(Buffered, string).buf = buf
    BY <2>1
  <2>3. Len(string) = 0
    BY <1>1, <1>2
  <2>4. 0 + Len(buf) = Len(buf) + Len(string)
    BY <1>1, <2>3
  <2> QED
    BY <1>1, <2>2, <2>4
<1>3. CASE string # <<>>
  <2>1. bytes \in Seq(Bytes) /\ Len(bytes) = Len(buf) + Len(string)
    OBVIOUS
  <2>2. WRITE_BUF_SIZE \in Nat /\ WRITE_BUF_SIZE > 0
    BY MakerAssumption, FormatAssumption DEF SIZEOF_DLENGTH
  <2>3. \A n \in Nat, d \in Nat \ {0} : (n \div d) * d \in 0 .. n
    OBVIOUS
  <2>4. full \in 0 .. Len(bytes)
    BY <2>1, <2>2, <2>3
  <2>5. PutString(Buffered, string) = [out |-> <<>> \o written, buf |-> kept]
    BY <1>3 DEF PutString, Buffered
  <2> HIDE DEF bytes, full
  <2>6. written \in Seq(Bytes) /\ Len(written) = full
    BY <2>1, <2>4
  <2>7. kept \in Seq(Bytes) /\ Len(kept) = Len(bytes) - full
    BY <2>1, <2>4
  <2> HIDE DEF written, kept
  <2>8. <<>> \o written = written
    BY <2>6
  <2>9. /\ PutString(Buffered, string).out = written
        /\ PutString(Buffered, string).buf = kept
    BY <2>5, <2>8
  <2>10. full + (Len(bytes) - full) = Len(buf) + Len(string)
    BY <2>1, <2>4
  <2> QED
    BY <2>6, <2>7, <2>9, <2>10
<1> QED
  BY <1>2, <1>3

(* TooBig, computed in 32 bits, decides whether the exact length stays     *)
(* within 2^32, and Grow then keeps offset and size exact modulo 2^32.     *)
LEMMA TooBigExact ==
  ASSUME NEW needs \in 1 .. MAX_OFF + 1, NEW len \in 0 .. MAX_OFF,
         size = U32(needs), ~TooBig(len)
  PROVE  needs + len \in 1 .. MAX_OFF + 1
<1>1. MAX_OFF \in Nat
  BY WordSizes
<1>2. CASE needs = MAX_OFF + 1
  <2>1. size = 0
    BY <1>1, <1>2 DEF U32
  <2>2. U32(size - 1) = MAX_OFF
    BY <1>1, <2>1 DEF U32
  <2> QED
    BY <1>1, <1>2, <2>2 DEF TooBig
<1>3. CASE needs <= MAX_OFF
  <2>1. size = needs
    BY <1>1, <1>3 DEF U32
  <2>2. U32(size - 1) = needs - 1
    BY <1>1, <1>3, <2>1 DEF U32
  <2> QED
    BY <1>1, <1>3, <2>2 DEF TooBig
<1> QED
  BY <1>1, <1>2, <1>3

LEMMA NeedsLength ==
  ASSUME position \in Nat, buf \in Seq(Bytes), added \in Seq(Record)
  PROVE  Produces \in Nat /\ Needs \in Nat /\ Produces <= Needs
<1>1. Len(buf) \in Nat /\ Len(added) \in Nat
  OBVIOUS
<1>2. 2 * SIZEOF_SLOT * Len(added) \in Nat
  BY <1>1, SlotsLength
<1> QED
  BY <1>1, <1>2 DEF Produces, Needs

(* A step that was checked with TooBig and adds len bytes to the file.     *)
LEMMA GrowKeepsSpace ==
  ASSUME SpaceInv, flags = {}, pc \in AddSteps,
         NEW len \in 0 .. MAX_OFF, ~TooBig(len), Grow(len),
         Produces' = Produces + len, added' = added
  PROVE  /\ offset' = U32(Produces')
         /\ Needs' \in 1 .. MAX_OFF + 1
         /\ size' = U32(Needs')
<1>1. MAX_OFF \in Nat
  BY WordSizes
<1>2. /\ position \in Nat /\ buf \in Seq(Bytes) /\ added \in Seq(Record)
      /\ offset = U32(Produces)
      /\ Needs \in 1 .. MAX_OFF + 1
      /\ size = U32(Needs)
  BY DEF SpaceInv
<1>3. Produces \in Nat /\ Needs \in Nat /\ Produces <= Needs
  BY <1>2, NeedsLength
<1>4. Needs + len \in 1 .. MAX_OFF + 1
  BY <1>2, TooBigExact
<1>5. Produces \in 0 .. MAX_OFF + 1 /\ Produces + len <= MAX_OFF + 1
  BY <1>1, <1>3, <1>4
<1>6. offset' = U32(Produces + len)
  BY <1>2, <1>5, U32Adds DEF Grow
<1>7. size' = U32(Needs + len)
  <2>1. Needs \in 0 .. MAX_OFF + 1 /\ Needs + len <= MAX_OFF + 1
    BY <1>1, <1>2, <1>4
  <2> QED
    BY <1>2, <2>1, U32Adds DEF Grow
<1>8. Needs' = Needs + len
  <2>1. Needs' = Produces' + 2 * SIZEOF_SLOT * Len(added)
    BY DEF Needs
  <2>2. 2 * SIZEOF_SLOT * Len(added) \in Nat
    <3>1. Len(added) \in Nat
      BY <1>2
    <3> QED
      BY <3>1, SlotsLength
  <2> QED
    BY <1>3, <2>1, <2>2 DEF Needs
<1> QED
  BY <1>4, <1>6, <1>7, <1>8

LEMMA SpaceInit == Init => SpaceInv
<1> SUFFICES ASSUME Init PROVE SpaceInv
  OBVIOUS
<1>1. /\ position = SIZEOF_TABLE /\ buf = <<>> /\ added = <<>>
      /\ offset = SIZEOF_TABLE /\ size = SIZEOF_TABLE /\ pc = "idle"
  BY DEF Init
<1>2. /\ Len(buf) = 0 /\ buf \in Seq(Bytes)
      /\ Len(added) = 0 /\ added \in Seq(Record)
  BY <1>1
<1>3. Produces = SIZEOF_TABLE
  BY <1>1, <1>2, WordSizes DEF Produces
<1>4. Needs = SIZEOF_TABLE
  BY <1>2, <1>3, WordSizes DEF Needs
<1>5. SIZEOF_TABLE \in 1 .. MAX_OFF
  BY WordSizes
<1>6. U32(SIZEOF_TABLE) = SIZEOF_TABLE
  BY <1>5, WordSizes DEF U32
<1> QED
  BY <1>1, <1>2, <1>3, <1>4, <1>5, <1>6, WordSizes DEF SpaceInv

LEMMA LengthsKeepSpace ==
  ASSUME SpaceInv, NEW r \in Record, AddLengths(r)
  PROVE  SpaceInv'
<1> DEFINE o == PutWords(Buffered, PackDLength(r.key, r.value))
<1>1. pc = "idle" /\ ~TooBig(SIZEOF_DLENGTH)
  BY DEF AddLengths
<1>2. CASE WriteFails(o)
  BY <1>2 DEF WriteFails, Fail, SpaceInv
<1>3. CASE /\ Write(o) /\ Grow(SIZEOF_DLENGTH) /\ pc' = "key" /\ record' = r
           /\ UNCHANGED flags
  <2> SUFFICES ASSUME flags = {} PROVE SpaceInv'
    BY <1>3 DEF SpaceInv
  <2>1. /\ position \in Nat /\ buf \in Seq(Bytes) /\ added \in Seq(Record)
    BY <1>1 DEF SpaceInv, AddSteps
  <2>2. /\ o.buf \in Seq(Bytes) /\ o.out \in Seq(Bytes)
        /\ Len(o.out) + Len(o.buf) = Len(buf) + SIZEOF_DLENGTH
    BY <2>1, PackDLengthBytes, PutWordsLength
  <2>3. position' = position + Len(o.out) /\ buf' = o.buf
    BY <1>3 DEF Write
  <2>4. added' = added
    BY DEF AddLengths
  <2> HIDE DEF o
  <2>5. Len(o.out) \in Nat /\ Len(o.buf) \in Nat /\ Len(buf) \in Nat
    BY <2>1, <2>2
  <2>6. position' \in Nat /\ buf' \in Seq(Bytes)
    BY <2>1, <2>2, <2>3, <2>5
  <2>7. Produces' = Produces + SIZEOF_DLENGTH
    <3>1. Len(buf') = Len(o.buf)
      BY <2>3
    <3>2. Produces' = (position + Len(o.out)) + Len(o.buf)
      BY <2>3, <3>1 DEF Produces
    <3>3. /\ position \in Nat /\ Len(buf) \in Nat /\ SIZEOF_DLENGTH \in Nat
          /\ Len(o.out) \in Nat /\ Len(o.buf) \in Nat
      BY <2>1, <2>5, WordSizes
    <3>4. Len(o.out) + Len(o.buf) = Len(buf) + SIZEOF_DLENGTH
      BY <2>2
    <3>5. (position + Len(o.out)) + Len(o.buf) = (position + Len(buf)) + SIZEOF_DLENGTH
      <4> DEFINE a == Len(o.out)
                 b == Len(o.buf)
                 c == Len(buf)
                 d == SIZEOF_DLENGTH
      <4>1. /\ position \in Nat /\ a \in Nat /\ b \in Nat /\ c \in Nat /\ d \in Nat
            /\ a + b = c + d
        BY <3>3, <3>4
      <4> HIDE DEF a, b, c, d
      <4>2. (position + a) + b = (position + c) + d
        BY <4>1
      <4> QED
        BY <4>2 DEF a, b, c, d
    <3> QED
      BY <3>2, <3>5 DEF Produces
  <2>8. SIZEOF_DLENGTH \in 0 .. MAX_OFF
    BY WordSizes
  <2>9. pc \in AddSteps
    BY <1>1 DEF AddSteps
  <2>10. /\ offset' = U32(Produces')
         /\ Needs' \in 1 .. MAX_OFF + 1
         /\ size' = U32(Needs')
    BY <1>1, <1>3, <2>4, <2>7, <2>8, <2>9, GrowKeepsSpace
  <2> QED
    BY <1>3, <2>1, <2>4, <2>6, <2>10 DEF SpaceInv
<1> QED
  BY <1>2, <1>3 DEF AddLengths

LEMMA StringKeepsSpace ==
  ASSUME SpaceInv, pc \in {"key", "value"},
         NEW string \in {record.key, record.value},
         NEW next \in {"value", "slot"},
         AddString(string, next)
  PROVE  SpaceInv'
<1> DEFINE o == PutString(Buffered, string)
<1>1. ~TooLong(string) /\ Grow(Len(string)) /\ added' = added /\ record' = record
  BY DEF AddString, addVars
<1>2. CASE WriteFails(o)
  BY <1>2 DEF WriteFails, Fail, SpaceInv
<1>3. CASE Write(o) /\ pc' = next /\ UNCHANGED flags
  <2> SUFFICES ASSUME flags = {} PROVE SpaceInv'
    BY <1>3 DEF SpaceInv
  <2>1. pc \in AddSteps /\ pc # "idle"
    BY DEF AddSteps
  <2>2. /\ position \in Nat /\ buf \in Seq(Bytes) /\ added \in Seq(Record)
        /\ record \in Record
    BY <2>1 DEF SpaceInv
  <2>3. string \in Seq(Bytes) /\ Len(string) <= MAX_OFF
    BY <2>2, FormatAssumption DEF Record
  <2>4. /\ o.buf \in Seq(Bytes) /\ o.out \in Seq(Bytes)
        /\ Len(o.out) + Len(o.buf) = Len(buf) + Len(string)
    BY <2>2, <2>3, PutStringLength
  <2>5. position' = position + Len(o.out) /\ buf' = o.buf
    BY <1>3 DEF Write
  <2> HIDE DEF o
  <2>6. /\ Len(o.out) \in Nat /\ Len(o.buf) \in Nat /\ Len(buf) \in Nat
        /\ Len(string) \in Nat
    BY <2>2, <2>3, <2>4
  <2>7. position' \in Nat /\ buf' \in Seq(Bytes)
    BY <2>2, <2>4, <2>5, <2>6
  <2>8. Produces' = Produces + Len(string)
    <3>1. Len(buf') = Len(o.buf)
      BY <2>5
    <3>2. Produces' = (position + Len(o.out)) + Len(o.buf)
      BY <2>5, <3>1 DEF Produces
    <3>3. /\ position \in Nat /\ Len(buf) \in Nat /\ Len(string) \in Nat
          /\ Len(o.out) \in Nat /\ Len(o.buf) \in Nat
      BY <2>2, <2>6
    <3>4. Len(o.out) + Len(o.buf) = Len(buf) + Len(string)
      BY <2>4
    <3>5. (position + Len(o.out)) + Len(o.buf) = (position + Len(buf)) + Len(string)
      <4> DEFINE a == Len(o.out)
                 b == Len(o.buf)
                 c == Len(buf)
                 d == Len(string)
      <4>1. /\ position \in Nat /\ a \in Nat /\ b \in Nat /\ c \in Nat /\ d \in Nat
            /\ a + b = c + d
        BY <3>3, <3>4
      <4> HIDE DEF a, b, c, d
      <4>2. (position + a) + b = (position + c) + d
        BY <4>1
      <4> QED
        BY <4>2 DEF a, b, c, d
    <3> QED
      BY <3>2, <3>5 DEF Produces
  <2>9. Len(string) \in 0 .. MAX_OFF
    BY <2>3, <2>6, WordSizes
  <2>10. ~TooBig(Len(string))
    BY <1>1 DEF TooLong
  <2>11. /\ offset' = U32(Produces')
         /\ Needs' \in 1 .. MAX_OFF + 1
         /\ size' = U32(Needs')
    BY <1>1, <2>1, <2>8, <2>9, <2>10, GrowKeepsSpace
  <2> QED
    BY <1>1, <1>3, <2>2, <2>7, <2>11 DEF SpaceInv
<1> QED
  BY <1>2, <1>3 DEF AddString

LEMMA SlotKeepsSpace ==
  ASSUME SpaceInv, AddSlot
  PROVE  SpaceInv'
<1> DEFINE two == SIZEOF_SLOT + SIZEOF_SLOT
<1>1. /\ pc = "slot" /\ pc' = "idle" /\ ~TooBig(two)
      /\ size' = U32(size + SIZEOF_SLOT + SIZEOF_SLOT)
      /\ added' = Append(added, record)
      /\ position' = position /\ buf' = buf /\ offset' = offset
      /\ flags' = flags
  BY DEF AddSlot, diskVars
<1> SUFFICES ASSUME flags = {} PROVE SpaceInv'
  BY <1>1 DEF SpaceInv
<1>2. pc \in AddSteps
  BY <1>1 DEF AddSteps
<1>3. /\ position \in Nat /\ buf \in Seq(Bytes) /\ added \in Seq(Record)
      /\ record \in Record
      /\ offset = U32(Produces)
      /\ Needs \in 1 .. MAX_OFF + 1
      /\ size = U32(Needs)
  BY <1>1, <1>2 DEF SpaceInv
<1>4. MAX_OFF \in Nat /\ SIZEOF_SLOT \in Nat /\ SIZEOF_SLOT > 0
      /\ two \in 0 .. MAX_OFF
  BY WordSizes
<1>5. Needs + two \in 1 .. MAX_OFF + 1
  BY <1>1, <1>3, <1>4, TooBigExact
<1>6. U32(Needs) \in Nat
  BY <1>3, <1>4 DEF U32
<1>7. size' = U32(Needs + two)
  <2>1. size + SIZEOF_SLOT + SIZEOF_SLOT = U32(Needs) + two
    BY <1>3, <1>4, <1>6
  <2>2. Needs \in 0 .. MAX_OFF + 1 /\ Needs + two <= MAX_OFF + 1
    BY <1>3, <1>4, <1>5
  <2> HIDE DEF two
  <2> QED
    BY <1>1, <1>4, <2>1, <2>2, U32Adds
<1>8. /\ added' \in Seq(Record)
      /\ Len(added) \in Nat /\ Len(added') = Len(added) + 1
  BY <1>1, <1>3
<1>9. Produces \in Nat /\ Produces <= Needs
  BY <1>3, NeedsLength
<1>10. Produces' = Produces
  BY <1>1 DEF Produces
<1>11. Needs' = Needs + two
  <2>1. /\ 2 * SIZEOF_SLOT * Len(added) \in Nat
        /\ 2 * SIZEOF_SLOT * (Len(added) + 1)
             = 2 * SIZEOF_SLOT * Len(added) + two
    BY <1>8, SlotsLength
  <2>2. Needs' = Produces + 2 * SIZEOF_SLOT * (Len(added) + 1)
    BY <1>8, <1>10 DEF Needs
  <2> HIDE DEF two
  <2> QED
    BY <1>4, <1>9, <2>1, <2>2 DEF Needs
<1>12. Produces' <= MAX_OFF
  BY <1>3, <1>4, <1>5, <1>9, <1>10
<1> QED
  BY <1>1, <1>3, <1>5, <1>7, <1>8, <1>10, <1>11, <1>12 DEF SpaceInv

LEMMA SpaceNext == SpaceInv /\ [Next]_vars => SpaceInv'
<1> SUFFICES ASSUME SpaceInv, [Next]_vars
             PROVE  SpaceInv'
  OBVIOUS
<1>1. ASSUME NEW r \in Record, AddLengths(r) PROVE SpaceInv'
  BY <1>1, LengthsKeepSpace
<1>2. CASE AddKey
  BY <1>2, StringKeepsSpace DEF AddKey
<1>3. CASE AddValue
  BY <1>3, StringKeepsSpace DEF AddValue
<1>4. CASE AddSlot
  BY <1>4, SlotKeepsSpace
<1>5. CASE AddOverflows \/ AddNoMemory \/ AddBadArgument \/ CommitNoMemory
  BY <1>5 DEF AddOverflows, AddNoMemory, AddBadArgument, CommitNoMemory, Fail,
              SpaceInv
<1>6. CASE CommitSort
  BY <1>6 DEF CommitSort, SpaceInv, AddSteps
<1>7. CASE CommitTable
  <2>1. CASE pc' = pc
    BY <1>7, <2>1 DEF CommitTable, SpaceInv, AddSteps
  <2>2. CASE Fail
    BY <2>2 DEF Fail, SpaceInv
  <2> QED
    BY <1>7, <2>1, <2>2 DEF CommitTable, WriteFails
<1>8. CASE CommitFlush
  <2>1. CASE pc' = "header"
    BY <2>1 DEF SpaceInv, AddSteps
  <2>2. CASE Fail
    BY <2>2 DEF Fail, SpaceInv
  <2> QED
    BY <1>8, <2>1, <2>2 DEF CommitFlush, WriteFails
<1>9. CASE CommitHeader
  BY <1>9 DEF CommitHeader, Fail, SpaceInv
<1>10. CASE CommitOpen
  BY <1>10 DEF CommitOpen, SpaceInv
<1>11. CASE Close
  BY <1>11 DEF Close, SpaceInv
<1>12. CASE UNCHANGED vars
  <2>1. UNCHANGED <<position, buf, added, record, offset, size, flags, pc>>
    BY <1>12 DEF vars
  <2> QED
    BY <2>1 DEF SpaceInv, Needs, Produces
<1> QED
  BY <1>1, <1>2, <1>3, <1>4, <1>5, <1>6, <1>7, <1>8, <1>9, <1>10, <1>11, <1>12
  DEF Next, Step

LEMMA SpaceIsReserved == SpaceInv => SpaceReserved
<1> SUFFICES ASSUME SpaceInv, flags = {}, pc = "idle"
             PROVE  /\ offset = position + Len(buf)
                    /\ offset + 2 * SIZEOF_SLOT * Len(added) <= MAX_OFF + 1
                    /\ size = U32(offset + 2 * SIZEOF_SLOT * Len(added))
  BY DEF SpaceReserved
<1>1. /\ position \in Nat /\ buf \in Seq(Bytes) /\ added \in Seq(Record)
      /\ offset = U32(Produces) /\ Produces <= MAX_OFF
      /\ Needs \in 1 .. MAX_OFF + 1 /\ size = U32(Needs)
  BY DEF SpaceInv, AddSteps
<1>2. Produces \in Nat
  BY <1>1, NeedsLength
<1>3. offset = Produces
  BY <1>1, <1>2, WordSizes DEF U32
<1> QED
  BY <1>1, <1>3 DEF Needs, Produces

(* The offset and the size that add() keeps in 32 bits are exact for every *)
(* word size, buffer size and contents: cdbx_cdb32_maker_add refuses a     *)
(* record before a sum wraps, except for the size that is exactly 2^32.    *)
THEOREM SpaceReservedCorrect == Spec => []SpaceReserved
  BY SpaceInit, SpaceNext, SpaceIsReserved, PTL DEF Spec

-----------------------------------------------------------------------------
(* The write buffer. *)

(* What the buffer may hold, and all that has been sent or buffered. *)
Output == [out : Seq(Bytes), buf : {b \in Seq(Bytes) : Len(b) <= WRITE_BUF_SIZE}]
Joined(o) == o.out \o o.buf

(* A sequence is what one gets by cutting it. *)
LEMMA CutAndJoined ==
  ASSUME NEW s \in Seq(Bytes), NEW k \in 0 .. Len(s)
  PROVE  /\ SubSeq(s, 1, k) \in Seq(Bytes) /\ SubSeq(s, k + 1, Len(s)) \in Seq(Bytes)
         /\ Len(SubSeq(s, k + 1, Len(s))) = Len(s) - k
         /\ SubSeq(s, 1, k) \o SubSeq(s, k + 1, Len(s)) = s
<1>1. SubSeq(s, 1, k) \in Seq(Bytes) /\ Len(SubSeq(s, 1, k)) = k
      /\ \A i \in 1 .. k : SubSeq(s, 1, k)[i] = s[i]
  OBVIOUS
<1>2. SubSeq(s, k + 1, Len(s)) \in Seq(Bytes)
      /\ Len(SubSeq(s, k + 1, Len(s))) = Len(s) - k
      /\ \A i \in 1 .. Len(s) - k : SubSeq(s, k + 1, Len(s))[i] = s[k + i]
  OBVIOUS
<1>3. PICK u, v : u = SubSeq(s, 1, k) /\ v = SubSeq(s, k + 1, Len(s))
  OBVIOUS
<1>4. u \in Seq(Bytes) /\ Len(u) = k /\ \A i \in 1 .. k : u[i] = s[i]
  BY <1>1, <1>3
<1>5. v \in Seq(Bytes) /\ Len(v) = Len(s) - k /\ \A i \in 1 .. Len(s) - k : v[i] = s[k + i]
  BY <1>2, <1>3
<1>6. u \o v = s
  <2>1. u \o v \in Seq(Bytes) /\ Len(u \o v) = k + (Len(s) - k)
    BY <1>4, <1>5
  <2>2. ASSUME NEW i \in 1 .. Len(s) PROVE (u \o v)[i] = s[i]
    <3>1. CASE i <= k
      <4>1. i \in 1 .. Len(u) /\ i \in 1 .. k
        BY <1>4, <3>1
      <4>2. (u \o v)[i] = u[i]
        BY <1>4, <1>5, <4>1
      <4> QED  BY <1>4, <4>1, <4>2
    <3>2. CASE i > k
      <4>1. i - k \in 1 .. Len(s) - k /\ k + (i - k) = i
        BY <3>2
      <4>2. (u \o v)[i] = v[i - k]
        BY <1>4, <1>5, <3>2, <4>1
      <4> QED  BY <1>5, <4>1, <4>2
    <3>3. i <= k \/ i > k
      <4>1. i \in Nat /\ k \in Nat
        OBVIOUS
      <4> QED  BY <4>1
    <3> QED  BY <3>1, <3>2, <3>3
  <2>3. k + (Len(s) - k) = Len(s)
    OBVIOUS
  <2> QED  BY <2>1, <2>2, <2>3
<1> QED  BY <1>1, <1>2, <1>3, <1>6

LEMMA OutputFields ==
  ASSUME NEW o \in Output
  PROVE  /\ o.out \in Seq(Bytes) /\ o.buf \in Seq(Bytes)
         /\ Len(o.buf) <= WRITE_BUF_SIZE /\ Len(o.buf) \in Nat
         /\ Joined(o) \in Seq(Bytes) /\ Len(Joined(o)) = Len(o.out) + Len(o.buf)
<1>1. o.out \in Seq(Bytes) /\ o.buf \in Seq(Bytes) /\ Len(o.buf) <= WRITE_BUF_SIZE
  BY DEF Output
<1>2. Joined(o) \in Seq(Bytes) /\ Len(Joined(o)) = Len(o.out) + Len(o.buf)
  BY <1>1, Concat DEF Joined
<1> QED  BY <1>1, <1>2

LEMMA OutputOf ==
  ASSUME NEW s \in Seq(Bytes), NEW t \in Seq(Bytes), Len(t) <= WRITE_BUF_SIZE
  PROVE  /\ [out |-> s, buf |-> t] \in Output
         /\ Joined([out |-> s, buf |-> t]) = s \o t
  BY DEF Output, Joined

(* p is o with bytes behind it, wherever the buffer was emptied. *)
Puts(o, bytes, p) == p \in Output /\ Joined(p) = Joined(o) \o bytes

(* Neither way of writing moves, loses or repeats a byte, and the buffer   *)
(* never overflows.                                                        *)
LEMMA PutWordsKeeps ==
  ASSUME NEW o \in Output, NEW bytes \in Seq(Bytes), Len(bytes) <= WRITE_BUF_SIZE
  PROVE  Puts(o, bytes, PutWords(o, bytes))
<1>1. /\ o.out \in Seq(Bytes) /\ o.buf \in Seq(Bytes)
      /\ Len(o.buf) <= WRITE_BUF_SIZE /\ Len(o.buf) \in Nat
  BY OutputFields
<1>2. WRITE_BUF_SIZE \in Nat /\ Len(bytes) \in Nat
  BY MakerAssumption
<1>3. CASE WRITE_BUF_SIZE - Len(o.buf) < Len(bytes)
  <2>1. Flush(o).out = o.out \o o.buf
    BY DEF Flush
  <2>2. PutWords(o, bytes) = [out |-> o.out \o o.buf, buf |-> bytes]
    BY <1>3, <2>1 DEF PutWords
  <2>3. o.out \o o.buf \in Seq(Bytes)
    BY <1>1, Concat
  <2> QED  BY <2>2, <2>3, OutputOf DEF Puts, Joined
<1>4. CASE ~(WRITE_BUF_SIZE - Len(o.buf) < Len(bytes))
  <2>1. PutWords(o, bytes) = [out |-> o.out, buf |-> o.buf \o bytes]
    BY <1>4 DEF PutWords
  <2>2. o.buf \o bytes \in Seq(Bytes) /\ Len(o.buf \o bytes) <= WRITE_BUF_SIZE
    BY <1>1, <1>2, <1>4, Concat
  <2>3. o.out \o (o.buf \o bytes) = (o.out \o o.buf) \o bytes
    BY <1>1, ConcatAssoc
  <2>4. /\ PutWords(o, bytes) \in Output
        /\ Joined(PutWords(o, bytes)) = o.out \o (o.buf \o bytes)
    BY <1>1, <2>1, <2>2, OutputOf
  <2> QED  BY <2>3, <2>4 DEF Puts, Joined
<1> QED  BY <1>3, <1>4

LEMMA PutStringKeeps ==
  ASSUME NEW o \in Output, NEW string \in Seq(Bytes)
  PROVE  Puts(o, string, PutString(o, string))
<1> DEFINE bytes == o.buf \o string
           full == (Len(bytes) \div WRITE_BUF_SIZE) * WRITE_BUF_SIZE
           written == SubSeq(bytes, 1, full)
           kept == SubSeq(bytes, full + 1, Len(bytes))
<1>1. /\ o.out \in Seq(Bytes) /\ o.buf \in Seq(Bytes)
      /\ Len(o.buf) <= WRITE_BUF_SIZE /\ Len(o.buf) \in Nat
      /\ Joined(o) \in Seq(Bytes)
  BY OutputFields
<1>2. CASE string = <<>>
  <2>1. PutString(o, string) = o
    BY <1>2 DEF PutString
  <2>2. Joined(o) \o <<>> = Joined(o)
    BY <1>1, Concat
  <2> QED  BY <1>2, <2>1, <2>2 DEF Puts
<1>3. CASE string # <<>>
  <2>1. bytes \in Seq(Bytes) /\ Len(bytes) \in Nat
    BY <1>1
  <2>2. WRITE_BUF_SIZE \in Nat /\ WRITE_BUF_SIZE > 0
    BY MakerAssumption, FormatAssumption DEF SIZEOF_DLENGTH
  <2>3. \A n \in Nat, d \in Nat \ {0} : (n \div d) * d \in 0 .. n /\ n - (n \div d) * d < d
    OBVIOUS
  <2>4. full \in 0 .. Len(bytes) /\ Len(bytes) - full < WRITE_BUF_SIZE
    <3>1. PICK n \in Nat, d \in Nat \ {0} : n = Len(bytes) /\ d = WRITE_BUF_SIZE
      BY <2>1, <2>2
    <3>2. (n \div d) * d \in 0 .. n /\ n - (n \div d) * d < d
      BY <2>3
    <3> QED  BY <3>1, <3>2
  <2>5. PutString(o, string) = [out |-> o.out \o written, buf |-> kept]
    BY <1>3 DEF PutString
  <2> HIDE DEF full
  <2> HIDE DEF bytes
  <2>7. /\ written \in Seq(Bytes) /\ kept \in Seq(Bytes)
        /\ Len(kept) <= WRITE_BUF_SIZE /\ written \o kept = bytes
    <3>1. /\ written \in Seq(Bytes) /\ kept \in Seq(Bytes)
          /\ Len(kept) = Len(bytes) - full /\ written \o kept = bytes
      BY <2>1, <2>4, CutAndJoined
    <3>2. full \in Nat
      BY <2>4
    <3> HIDE DEF written, kept
    <3> QED  BY <2>1, <2>2, <2>4, <3>1, <3>2
  <2> HIDE DEF written, kept
  <2>8. (o.out \o written) \o kept = Joined(o) \o string
    <3>1. (o.out \o written) \o kept = o.out \o bytes
      BY <1>1, <2>7, ConcatAssoc
    <3>2. o.out \o bytes = (o.out \o o.buf) \o string
      BY <1>1, ConcatAssoc DEF bytes
    <3> QED  BY <3>1, <3>2 DEF Joined
  <2>9. o.out \o written \in Seq(Bytes)
    BY <1>1, <2>7, Concat
  <2> QED  BY <2>5, <2>7, <2>8, <2>9, OutputOf DEF Puts
<1> QED  BY <1>2, <1>3

-----------------------------------------------------------------------------
(* The slot tables and the image of a file. *)

(* CountUpTo adds up the counts of the buckets. *)
LEMMA CountTrace ==
  ASSUME slot_counts \in [Buckets -> Nat], NEW j \in Buckets
  PROVE  \E g \in [0 .. j + 1 -> Nat] :
           /\ g[0] = 0
           /\ \A i \in 1 .. j + 1 : g[i] = g[i - 1] + slot_counts[i - 1]
           /\ CountUpTo(j) = g[j + 1]
<1> DEFINE n == j + 1
           seq == [i \in 1 .. n |-> i - 1]
           Iter(f) == f = [s \in SUBSET DOMAIN seq |->
                             IF s = {} THEN 0
                             ELSE f[s \ {Max(s)}] + slot_counts[seq[Max(s)]]]
           step == [p \in Nat \X (1 .. n) |-> p[1] + slot_counts[p[2] - 1]]
<1>1. n \in Nat /\ TABLES \in Nat /\ \A i \in 1 .. n : i - 1 \in Buckets
  BY FormatAssumption DEF Buckets
<1>2. \A i \in 1 .. n : slot_counts[i - 1] \in Nat /\ seq[i] = i - 1
  BY <1>1
<1>3. step \in [Nat \X (1 .. n) -> Nat]
  <2>1. \A p \in Nat \X (1 .. n) : p[1] + slot_counts[p[2] - 1] \in Nat
    BY <1>2
  <2> QED  BY <2>1
<1>4. CountUpTo(j) = (CHOOSE f : Iter(f))[DOMAIN seq]
  BY DEF CountUpTo, FoldLeft, MapThenFoldSet
<1>5. DOMAIN seq = 1 .. n
  OBVIOUS
<1>6. \A x \in Nat, i \in 1 .. n : step[<<x, i>>] = x + slot_counts[seq[i]]
  BY <1>2
<1>7. 0 \in Nat
  OBVIOUS
<1> HIDE DEF seq, step, n
<1>8. PICK h \in [SUBSET (1 .. n) -> Nat] : IsFold(h, 0, step, n)
  BY <1>1, <1>3, <1>7, FoldExists
<1>9. ASSUME NEW s \in SUBSET (1 .. n), s # {}
      PROVE  Max(s) \in 1 .. n /\ s \ {Max(s)} \in SUBSET (1 .. n)
  BY <1>1, <1>9, LargestOf
<1>10. Iter(h)
  <2>1. ASSUME NEW s \in SUBSET (1 .. n), s # {}
        PROVE  h[s] = h[s \ {Max(s)}] + slot_counts[seq[Max(s)]]
    BY <1>6, <1>8, <1>9, <2>1 DEF IsFold
  <2>2. h[{}] = 0
    BY <1>8 DEF IsFold
  <2> QED  BY <1>5, <2>1, <2>2
<1>11. Iter(CHOOSE f : Iter(f))
  BY <1>10, Zenon
<1>12. PICK f : Iter(f) /\ CountUpTo(j) = f[1 .. n]
  BY <1>4, <1>5, <1>11
<1>13. FoldsIn(Nat, f, 0, step, n)
  BY <1>5, <1>6, <1>9, <1>12 DEF FoldsIn
<1> HIDE DEF Iter
<1>14. HasTrace(Nat, f, 0, step, n)
  BY <1>1, <1>3, <1>7, <1>13, FoldTrace
<1>15. PICK g \in [0 .. n -> Nat] : IsTrace(g, 0, step, n) /\ f[1 .. n] = g[n]
  BY <1>14 DEF HasTrace
<1>16. \A i \in 1 .. n : g[i] = g[i - 1] + slot_counts[i - 1]
  <2> SUFFICES ASSUME NEW i \in 1 .. n
               PROVE  g[i] = g[i - 1] + slot_counts[i - 1]
    OBVIOUS
  <2>1. g[i - 1] \in Nat
    BY <1>1
  <2> QED  BY <1>2, <1>6, <1>15, <2>1 DEF IsTrace
<1> QED  BY <1>12, <1>15, <1>16 DEF IsTrace, n

(* When the counts are right it is where the bucket ends. *)
LEMMA CountIsBase ==
  ASSUME slot_counts \in [Buckets -> Nat], NEW a \in Seq(Record),
         \A b \in Buckets : slot_counts[b] = Len(BucketOf(a, b)),
         NEW j \in Buckets
  PROVE  CountUpTo(j) = Base(a, j + 1)
<1> DEFINE n == j + 1
<1>1. n \in Nat /\ n \in 0 .. n /\ \A i \in 1 .. n : i - 1 \in Buckets /\ i - 1 \in Nat
  BY FormatAssumption DEF Buckets
<1>2. PICK g \in [0 .. n -> Nat] :
         /\ g[0] = 0
         /\ \A i \in 1 .. n : g[i] = g[i - 1] + slot_counts[i - 1]
         /\ CountUpTo(j) = g[n]
  BY CountTrace
<1> DEFINE S == {i \in 0 .. n : g[i] = Base(a, i)}
<1>3. 0 \in S
  <2>1. Base(a, 0) = 0
    BY BaseNext
  <2> QED  BY <1>1, <1>2, <2>1
<1>4. ASSUME NEW i \in 0 .. n - 1, i \in S PROVE i + 1 \in S
  <2>1. i \in Nat /\ i + 1 \in 1 .. n /\ (i + 1) - 1 = i /\ i \in Buckets
    BY <1>1
  <2>2. g[i + 1] = g[i] + slot_counts[i]
    BY <1>2, <2>1
  <2>3. Base(a, i + 1) = Base(a, i) + Len(BucketOf(a, i))
    BY <2>1, BaseNext
  <2>4. g[i] = Base(a, i) /\ slot_counts[i] = Len(BucketOf(a, i))
    BY <1>4, <2>1
  <2>5. i + 1 \in 0 .. n
    BY <2>1
  <2> QED  BY <2>2, <2>3, <2>4, <2>5
<1> HIDE DEF S
<1>5. n \in S
  BY <1>1, <1>3, <1>4, UpTo
<1>6. g[n] = Base(a, n)
  BY <1>5 DEF S
<1>7. CountUpTo(j) = Base(a, n)
  <2> HIDE DEF n
  <2> QED  BY <1>2, <1>6, Zenon
<1> QED  BY <1>7

LEMMA PutSlotsTrace ==
  ASSUME Buffered \in Output, NEW slots \in Seq(RawSlot)
  PROVE  \E g \in [0 .. Len(slots) -> Output] :
           /\ g[0] = Buffered
           /\ \A i \in 1 .. Len(slots) : g[i] = PutWords(g[i - 1], PackSlot(slots[i]))
           /\ PutSlots(slots) = g[Len(slots)]
<1> DEFINE n == Len(slots)
<1>0. PICK base \in Output : base = Buffered
  OBVIOUS
<1> DEFINE Iter(f) == f = [s \in SUBSET DOMAIN slots |->
                             IF s = {} THEN base
                             ELSE PutWords(f[s \ {Max(s)}], PackSlot(slots[Max(s)]))]
           step == [p \in Output \X (1 .. n) |-> PutWords(p[1], PackSlot(slots[p[2]]))]
<1>1. n \in Nat /\ \A i \in 1 .. n : slots[i] \in RawSlot
  OBVIOUS
<1>2. ASSUME NEW o \in Output, NEW i \in 1 .. n
      PROVE  PutWords(o, PackSlot(slots[i])) \in Output
  <2>1. PackSlot(slots[i]) \in Seq(Bytes) /\ Len(PackSlot(slots[i])) = SIZEOF_SLOT
    BY <1>1, PackSlotBytes
  <2>2. SIZEOF_SLOT <= WRITE_BUF_SIZE
    BY MakerAssumption, WordSizes
  <2> QED  BY <2>1, <2>2, PutWordsKeeps DEF Puts
<1>3. step \in [Output \X (1 .. n) -> Output]
  <2>1. \A p \in Output \X (1 .. n) : PutWords(p[1], PackSlot(slots[p[2]])) \in Output
    BY <1>2
  <2> QED  BY <2>1
<1>4. PutSlots(slots) = (CHOOSE f : Iter(f))[DOMAIN slots]
  BY <1>0 DEF PutSlots, FoldLeft, MapThenFoldSet
<1>5. DOMAIN slots = 1 .. n
  OBVIOUS
<1>6. \A o \in Output, i \in 1 .. n : step[<<o, i>>] = PutWords(o, PackSlot(slots[i]))
  OBVIOUS
<1> HIDE DEF step, n
<1>8. PICK h \in [SUBSET (1 .. n) -> Output] : IsFold(h, base, step, n)
  BY <1>1, <1>3, FoldExists
<1>9. ASSUME NEW s \in SUBSET (1 .. n), s # {}
      PROVE  Max(s) \in 1 .. n /\ s \ {Max(s)} \in SUBSET (1 .. n)
  BY <1>1, <1>9, LargestOf
<1>10. Iter(h)
  <2>1. ASSUME NEW s \in SUBSET (1 .. n), s # {}
        PROVE  h[s] = PutWords(h[s \ {Max(s)}], PackSlot(slots[Max(s)]))
    BY <1>6, <1>8, <1>9, <2>1 DEF IsFold
  <2>2. h[{}] = base
    BY <1>8 DEF IsFold
  <2> QED  BY <1>5, <2>1, <2>2
<1>11. Iter(CHOOSE f : Iter(f))
  BY <1>10, Zenon
<1>12. PICK f : Iter(f) /\ PutSlots(slots) = f[1 .. n]
  BY <1>4, <1>5, <1>11
<1>13. FoldsIn(Output, f, base, step, n)
  BY <1>5, <1>6, <1>9, <1>12 DEF FoldsIn
<1> HIDE DEF Iter
<1>14. HasTrace(Output, f, base, step, n)
  BY <1>1, <1>3, <1>13, FoldTrace
<1>15. PICK g \in [0 .. n -> Output] : IsTrace(g, base, step, n) /\ f[1 .. n] = g[n]
  BY <1>14 DEF HasTrace
<1>16. \A i \in 1 .. n : g[i] = PutWords(g[i - 1], PackSlot(slots[i]))
  <2> SUFFICES ASSUME NEW i \in 1 .. n
               PROVE  g[i] = PutWords(g[i - 1], PackSlot(slots[i]))
    OBVIOUS
  <2>1. g[i - 1] \in Output
    BY <1>1
  <2> QED  BY <1>6, <1>15, <2>1 DEF IsTrace
<1> QED  BY <1>0, <1>12, <1>15, <1>16 DEF IsTrace, n

LEMMA PutSlotsKeeps ==
  ASSUME Buffered \in Output, NEW slots \in Seq(RawSlot)
  PROVE  Puts(Buffered, PackTable(slots), PutSlots(slots))
<1> DEFINE n == Len(slots)
           packed == [i \in DOMAIN slots |-> PackSlot(slots[i])]
<1>1. n \in Nat /\ n \in 0 .. n /\ Len(packed) = n
      /\ \A i \in 1 .. n : slots[i] \in RawSlot /\ packed[i] = PackSlot(slots[i])
  OBVIOUS
<1>2. packed \in Seq(Seq(Bytes)) /\ PackTable(slots) = FlattenSeq(packed)
  BY PackedSlots DEF PackTable
<1>3. PICK base \in Output : base = Buffered
  OBVIOUS
<1>4. PICK g \in [0 .. n -> Output] :
         /\ g[0] = base
         /\ \A i \in 1 .. n : g[i] = PutWords(g[i - 1], PackSlot(slots[i]))
         /\ PutSlots(slots) = g[n]
  BY <1>3, PutSlotsTrace
<1> HIDE DEF packed
<1>5. PICK h \in [0 .. Len(packed) -> Seq(Bytes)] : FlattensBy(h, packed)
  BY <1>2, FlattenTrace
<1>6. /\ h \in [0 .. n -> Seq(Bytes)] /\ h[0] = <<>> /\ PackTable(slots) = h[n]
      /\ \A i \in 1 .. n : h[i] = h[i - 1] \o PackSlot(slots[i])
  BY <1>1, <1>2, <1>5 DEF FlattensBy, IsFlat
<1> DEFINE S == {i \in 0 .. n : Joined(g[i]) = Joined(base) \o h[i]}
<1>7. Joined(base) \in Seq(Bytes)
  BY OutputFields
<1> HIDE DEF n
<1>8. 0 \in S
  <2>1. Joined(base) \o <<>> = Joined(base)
    BY <1>7, Concat
  <2>2. Joined(g[0]) = Joined(base) \o h[0]
    BY <1>4, <1>6, <2>1
  <2> QED  BY <1>1, <2>2
<1>9. ASSUME NEW i \in 0 .. n - 1, i \in S PROVE i + 1 \in S
  <2>1. i + 1 \in 1 .. n /\ (i + 1) - 1 = i /\ i \in 0 .. n /\ i + 1 \in 0 .. n
    BY <1>1
  <2>2. PICK bytes : bytes = PackSlot(slots[i + 1])
    OBVIOUS
  <2>3. bytes \in Seq(Bytes) /\ Len(bytes) <= WRITE_BUF_SIZE
    BY <1>1, <2>1, <2>2, PackSlotBytes, MakerAssumption, WordSizes
  <2>4. g[i] \in Output /\ h[i] \in Seq(Bytes)
    BY <1>6, <2>1
  <2>5. g[i + 1] = PutWords(g[i], bytes) /\ h[i + 1] = h[i] \o bytes
    BY <1>4, <1>6, <2>1, <2>2
  <2>6. Joined(g[i + 1]) = Joined(g[i]) \o bytes
    BY <2>3, <2>4, <2>5, PutWordsKeeps DEF Puts
  <2>7. Joined(g[i]) = Joined(base) \o h[i]
    BY <1>9
  <2>8. Joined(base) \o (h[i] \o bytes) = (Joined(base) \o h[i]) \o bytes
    BY <1>7, <2>3, <2>4, ConcatAssoc
  <2> QED  BY <2>1, <2>5, <2>6, <2>7, <2>8
<1>10. n \in S
  <2> HIDE DEF S
  <2> QED  BY <1>1, <1>8, <1>9, UpTo
<1> QED  BY <1>1, <1>3, <1>4, <1>6, <1>10 DEF Puts

-----------------------------------------------------------------------------
(* What is behind the header. *)
Body(f) == SubSeq(f, SIZEOF_TABLE + 1, Len(f))

LEMMA BodyOf ==
  ASSUME NEW f \in Seq(Bytes)
  PROVE  /\ Body(f) \in Seq(Bytes)
         /\ Len(f) <= SIZEOF_TABLE => Body(f) = <<>>
         /\ Len(f) >= SIZEOF_TABLE =>
              /\ Len(Body(f)) = Len(f) - SIZEOF_TABLE
              /\ \A i \in 1 .. Len(f) - SIZEOF_TABLE : Body(f)[i] = f[SIZEOF_TABLE + i]
<1>1. PICK k \in Nat : k = SIZEOF_TABLE
  BY WordSizes
<1>2. PICK n \in Nat : n = Len(f)
  OBVIOUS
<1>3. Body(f) = SubSeq(f, k + 1, n)
  BY <1>1, <1>2 DEF Body
<1>4. Len(f) <= SIZEOF_TABLE => Body(f) = <<>>
  BY <1>1, <1>2, <1>3
<1>5. ASSUME n >= k
      PROVE  /\ Body(f) \in Seq(Bytes) /\ Len(Body(f)) = n - k
             /\ \A i \in 1 .. n - k : Body(f)[i] = f[k + i]
  <2>1. /\ SubSeq(f, k + 1, n) \in Seq(Bytes) /\ Len(SubSeq(f, k + 1, n)) = n - k
        /\ \A i \in 1 .. n - k : SubSeq(f, k + 1, n)[i] = f[k + i]
    BY <1>2, <1>5
  <2> QED  BY <1>3, <2>1
<1>6. Body(f) \in Seq(Bytes)
  <2>1. n <= k \/ n >= k
    OBVIOUS
  <2>2. CASE n <= k
    <3>1. Body(f) = <<>>
      BY <1>1, <1>2, <1>4, <2>2
    <3> QED  BY <3>1
  <2>3. CASE n >= k
    BY <1>5, <2>3
  <2> QED  BY <2>1, <2>2, <2>3
<1> QED  BY <1>1, <1>2, <1>4, <1>5, <1>6

(* Where the next byte goes: behind the last one, or behind the room left  *)
(* for the header.                                                         *)
PlacedAt(f, at) ==
  /\ at \in Nat
  /\ at >= SIZEOF_TABLE
  /\ (f = <<>> /\ at = SIZEOF_TABLE) \/ Len(f) = at

LEMMA PlacedBody ==
  ASSUME NEW f \in Seq(Bytes), NEW at, PlacedAt(f, at)
  PROVE  /\ Len(Body(f)) = at - SIZEOF_TABLE
         /\ f # <<>> => Len(f) = at
         /\ f = <<>> => at = SIZEOF_TABLE
<1>1. SIZEOF_TABLE \in Nat /\ SIZEOF_TABLE > 0 /\ Len(<<>>) = 0
  BY WordSizes
<1>2. CASE f = <<>> /\ at = SIZEOF_TABLE
  <2>1. Body(f) = <<>>
    <3>1. Len(f) <= SIZEOF_TABLE
      BY <1>1, <1>2
    <3> QED  BY <3>1, BodyOf
  <2>2. Len(Body(f)) = 0 /\ at - SIZEOF_TABLE = 0
    BY <1>1, <1>2, <2>1
  <2> QED  BY <1>2, <2>2
<1>3. CASE Len(f) = at
  <2>1. at >= SIZEOF_TABLE
    BY DEF PlacedAt
  <2>2. Len(Body(f)) = at - SIZEOF_TABLE
    BY <1>3, <2>1, BodyOf
  <2>3. f # <<>>
    BY <1>1, <1>3, <2>1
  <2> QED  BY <1>3, <2>2, <2>3
<1> QED  BY <1>2, <1>3 DEF PlacedAt

(* Nothing is in the header yet. *)
ZeroHeader(f) == \A o \in 1 .. SIZEOF_TABLE : o <= Len(f) => f[o] = 0

(* A write behind what has been written. *)
LEMMA WriteAtAt ==
  ASSUME NEW f \in Seq(Bytes), NEW at \in Nat, NEW bytes \in Seq(Bytes),
         bytes # <<>>, Len(f) <= at + Len(bytes)
  PROVE  /\ WriteAt(f, at, bytes) \in Seq(Bytes)
         /\ Len(WriteAt(f, at, bytes)) = at + Len(bytes)
         /\ \A i \in 1 .. at + Len(bytes) :
              WriteAt(f, at, bytes)[i] = IF i \in at + 1 .. at + Len(bytes) THEN bytes[i - at]
                                         ELSE IF i <= Len(f) THEN f[i] ELSE 0
<1>1. PICK n \in Nat : n = at + Len(bytes)
  OBVIOUS
<1>2. Max({Len(f), at + Len(bytes)}) = n
  BY <1>1, MaxOfTwo
<1> DEFINE byte(i) == IF i \in at + 1 .. n THEN bytes[i - at]
                      ELSE IF i <= Len(f) THEN f[i] ELSE 0
<1>3. WriteAt(f, at, bytes) = [i \in 1 .. n |-> byte(i)]
  BY <1>1, <1>2 DEF WriteAt
<1>4. \A i \in 1 .. n : byte(i) \in Bytes
  <2> SUFFICES ASSUME NEW i \in 1 .. n PROVE byte(i) \in Bytes
    OBVIOUS
  <2>1. CASE i \in at + 1 .. n
    <3>1. i - at \in 1 .. Len(bytes)
      BY <1>1, <2>1
    <3> QED  BY <2>1, <3>1
  <2>2. CASE i \notin at + 1 .. n /\ i <= Len(f)
    BY <2>2
  <2>3. CASE i \notin at + 1 .. n /\ ~(i <= Len(f))
    <3>1. 0 \in Bytes
      BY FormatAssumption DEF Bytes
    <3> QED  BY <2>3, <3>1
  <2> QED  BY <2>1, <2>2, <2>3
<1> HIDE DEF byte
<1>5. [i \in 1 .. n |-> byte(i)] \in Seq(Bytes)
  BY <1>4
<1>6. \A i \in 1 .. n : WriteAt(f, at, bytes)[i] = byte(i)
  BY <1>3
<1>7. Len(WriteAt(f, at, bytes)) = n
  BY <1>3
<1> QED  BY <1>1, <1>3, <1>5, <1>6, <1>7 DEF byte

(* A write behind the header appends to what is there. *)
Appends(f, bytes, g) == Body(g) = Body(f) \o bytes

LEMMA WriteBehind ==
  ASSUME NEW f \in Seq(Bytes), NEW at, PlacedAt(f, at), ZeroHeader(f),
         NEW bytes \in Seq(Bytes)
  PROVE  /\ WriteAt(f, at, bytes) \in Seq(Bytes)
         /\ PlacedAt(WriteAt(f, at, bytes), at + Len(bytes))
         /\ ZeroHeader(WriteAt(f, at, bytes))
         /\ Appends(f, bytes, WriteAt(f, at, bytes))
<1>1. PICK g : g = WriteAt(f, at, bytes)
  OBVIOUS
<1>2. PICK k \in Nat : k = SIZEOF_TABLE
  BY WordSizes
<1>3. PICK n \in Nat : n = Len(bytes)
  OBVIOUS
<1>4. at \in Nat /\ at >= k
  BY <1>2 DEF PlacedAt
<1>5. CASE bytes = <<>>
  <2>1. g = f
    BY <1>1, <1>5 DEF WriteAt
  <2>2. at + Len(bytes) = at
    BY <1>4, <1>5
  <2>3. Body(f) \o <<>> = Body(f)
    BY BodyOf, Concat
  <2> QED  BY <1>1, <1>5, <2>1, <2>2, <2>3 DEF Appends
<1>6. CASE bytes # <<>>
  <2>1. n > 0
    BY <1>3, <1>6
  <2>2. Len(Body(f)) = at - k /\ (f # <<>> => Len(f) = at) /\ (f = <<>> => at = k)
    BY <1>2, PlacedBody
  <2>3. Len(f) <= at /\ Len(f) \in Nat
    <3>1. CASE f = <<>>
      <4>1. Len(f) = 0
        BY <3>1
      <4> QED  BY <1>4, <4>1
    <3>2. CASE f # <<>>
      BY <2>2, <3>2, <1>4
    <3> QED  BY <3>1, <3>2
  <2>4. Len(f) <= at + Len(bytes)
    BY <1>3, <1>4, <2>3
  <2>5. /\ g \in Seq(Bytes) /\ Len(g) = at + n
        /\ \A i \in 1 .. at + n : g[i] = IF i \in at + 1 .. at + n THEN bytes[i - at]
                                         ELSE IF i <= Len(f) THEN f[i] ELSE 0
    BY <1>1, <1>3, <1>4, <1>6, <2>4, WriteAtAt
  <2>6. ZeroHeader(g)
    <3> SUFFICES ASSUME NEW o \in 1 .. k, o <= Len(g) PROVE g[o] = 0
      BY <1>2 DEF ZeroHeader
    <3>1. o \in 1 .. at + n /\ o \notin at + 1 .. at + n
      BY <1>4, <2>5
    <3>2. g[o] = IF o <= Len(f) THEN f[o] ELSE 0
      BY <2>5, <3>1
    <3>3. o <= Len(f) => f[o] = 0
      BY <1>2 DEF ZeroHeader
    <3> QED  BY <3>2, <3>3
  <2>7. PlacedAt(g, at + n)
    BY <1>2, <1>4, <2>5 DEF PlacedAt
  <2>8. PICK u \in Seq(Bytes) : u = Body(f)
    BY BodyOf
  <2>9. PICK w \in Seq(Bytes) : w = Body(g)
    BY <2>5, BodyOf
  <2>10. Len(g) >= k
    BY <1>4, <2>5
  <2>11. Len(w) = (at + n) - k /\ \A i \in 1 .. (at + n) - k : w[i] = g[k + i]
    BY <1>2, <2>5, <2>9, <2>10, BodyOf
  <2>12. Len(u) = at - k
    BY <2>2, <2>8
  <2>13. ASSUME NEW i \in 1 .. Len(u) PROVE w[i] = u[i]
    <3>1. i \in 1 .. at - k
      BY <2>12
    <3>2. i \in 1 .. (at + n) - k /\ k + i \in 1 .. at + n /\ k + i \notin at + 1 .. at + n
      BY <1>4, <3>1
    <3>3. f # <<>>
      <4>1. at # k
        BY <1>4, <3>1
      <4> QED  BY <2>2, <4>1
    <3>4. Len(f) = at
      BY <2>2, <3>3
    <3>5. k + i <= Len(f)
      BY <1>4, <3>1, <3>4
    <3>6. w[i] = f[k + i]
      BY <2>5, <2>11, <3>2, <3>5
    <3>7. u[i] = f[k + i]
      BY <1>2, <1>4, <2>8, <3>1, <3>4, BodyOf
    <3> QED  BY <3>6, <3>7
  <2>14. ASSUME NEW i \in 1 .. Len(bytes) PROVE w[Len(u) + i] = bytes[i]
    <3>1. i \in 1 .. n
      BY <1>3
    <3>2. PICK j \in Nat : j = Len(u) + i
      BY <1>4, <2>12, <3>1
    <3>3. /\ j \in 1 .. (at + n) - k /\ k + j = at + i
          /\ k + j \in 1 .. at + n /\ k + j \in at + 1 .. at + n /\ (k + j) - at = i
      BY <1>4, <2>12, <3>1, <3>2
    <3>4. w[j] = g[k + j]
      BY <2>11, <3>3
    <3>5. g[k + j] = bytes[(k + j) - at]
      BY <2>5, <3>3
    <3> QED  BY <3>2, <3>3, <3>4, <3>5
  <2>15. Len(w) = Len(u) + Len(bytes)
    BY <1>3, <1>4, <2>11, <2>12
  <2>16. w = u \o bytes
    BY <2>13, <2>14, <2>15, JoinedIs
  <2> QED  BY <1>1, <1>3, <2>5, <2>6, <2>7, <2>8, <2>9, <2>16 DEF Appends
<1> QED  BY <1>5, <1>6

(* A write within the file leaves its length alone. *)
LEMMA WriteInside ==
  ASSUME NEW f \in Seq(Bytes), NEW bytes \in Seq(Bytes),
         bytes # <<>>, Len(bytes) <= Len(f)
  PROVE  /\ WriteAt(f, 0, bytes) \in Seq(Bytes)
         /\ Len(WriteAt(f, 0, bytes)) = Len(f)
         /\ \A i \in 1 .. Len(f) :
              WriteAt(f, 0, bytes)[i] = IF i <= Len(bytes) THEN bytes[i] ELSE f[i]
<1>1. PICK n \in Nat : n = Len(f)
  OBVIOUS
<1>2. Max({Len(f), 0 + Len(bytes)}) = n
  <2>1. 0 + Len(bytes) = Len(bytes) /\ Len(bytes) \in Nat
    OBVIOUS
  <2> QED  BY <1>1, <2>1, MaxOfTwo
<1>3. PICK g : g = WriteAt(f, 0, bytes)
  OBVIOUS
<1>4. g = [i \in 1 .. n |-> IF i \in 0 + 1 .. 0 + Len(bytes) THEN bytes[i - 0]
                            ELSE IF i <= Len(f) THEN f[i] ELSE 0]
  BY <1>2, <1>3 DEF WriteAt
<1>5. \A i \in 1 .. n : g[i] = IF i <= Len(bytes) THEN bytes[i] ELSE f[i]
  BY <1>1, <1>4
<1>6. \A i \in 1 .. n : g[i] \in Bytes
  BY <1>1, <1>5
<1>7. g \in Seq(Bytes) /\ Len(g) = n
  BY <1>4, <1>6
<1> QED  BY <1>1, <1>3, <1>5, <1>7

(* The header, or a part of it, leaves what is behind it alone. *)
Headed(f, bytes) ==
  \A o \in 1 .. SIZEOF_TABLE :
    o <= Len(f) => f[o] = IF o <= Len(bytes) THEN bytes[o] ELSE 0

LEMMA WriteFront ==
  ASSUME NEW f \in Seq(Bytes), NEW at, PlacedAt(f, at), ZeroHeader(f),
         NEW bytes \in Seq(Bytes), Len(bytes) <= SIZEOF_TABLE
  PROVE  /\ WriteAt(f, 0, bytes) \in Seq(Bytes)
         /\ Body(WriteAt(f, 0, bytes)) = Body(f)
         /\ Headed(WriteAt(f, 0, bytes), bytes)
         /\ Len(bytes) = SIZEOF_TABLE => WriteAt(f, 0, bytes) = bytes \o Body(f)
<1>1. PICK g : g = WriteAt(f, 0, bytes)
  OBVIOUS
<1>2. PICK k \in Nat : k = SIZEOF_TABLE /\ k > 0
  BY WordSizes
<1>3. PICK n \in Nat : n = Len(bytes)
  OBVIOUS
<1>4. CASE bytes = <<>>
  <2>1. g = f /\ n = 0
    BY <1>1, <1>3, <1>4 DEF WriteAt
  <2>2. \A o \in 1 .. k : ~(o <= n)
    BY <2>1
  <2>3. Headed(g, bytes)
    BY <1>2, <1>3, <2>1, <2>2 DEF Headed, ZeroHeader
  <2> QED  BY <1>1, <1>2, <1>3, <2>1, <2>3
<1>5. CASE bytes # <<>> /\ f = <<>>
  <2>1. Len(f) = 0 /\ 0 + Len(bytes) = n
    BY <1>3, <1>5
  <2>2. /\ g \in Seq(Bytes) /\ Len(g) = n
        /\ \A i \in 1 .. n : g[i] = IF i \in 0 + 1 .. n THEN bytes[i - 0]
                                    ELSE IF i <= Len(f) THEN f[i] ELSE 0
    <3>1. PICK z \in Nat : z = 0
      OBVIOUS
    <3>2. Len(f) <= z + Len(bytes)
      BY <1>3, <2>1, <3>1
    <3>3. /\ WriteAt(f, z, bytes) \in Seq(Bytes)
          /\ Len(WriteAt(f, z, bytes)) = z + Len(bytes)
          /\ \A i \in 1 .. z + Len(bytes) :
               WriteAt(f, z, bytes)[i] = IF i \in z + 1 .. z + Len(bytes) THEN bytes[i - z]
                                         ELSE IF i <= Len(f) THEN f[i] ELSE 0
      BY <1>5, <3>2, WriteAtAt
    <3>4. g = WriteAt(f, z, bytes) /\ z + Len(bytes) = n
      BY <1>1, <2>1, <3>1
    <3> QED  BY <3>1, <3>3, <3>4
  <2>3. g = bytes
    BY <1>3, <2>2
  <2>4. Len(f) <= SIZEOF_TABLE
    BY <1>2, <2>1
  <2>5. Body(f) = <<>> /\ Body(g) = <<>>
    BY <1>3, <2>2, <2>3, <2>4, BodyOf
  <2>6. bytes \o <<>> = bytes
    BY Concat
  <2>7. Headed(g, bytes)
    BY <2>3 DEF Headed
  <2> QED  BY <1>1, <2>2, <2>3, <2>5, <2>6, <2>7
<1>6. CASE bytes # <<>> /\ f # <<>>
  <2>1. Len(f) = at /\ at \in Nat /\ at >= k
    BY <1>2, <1>6, PlacedBody DEF PlacedAt
  <2>2. n <= at
    BY <1>2, <1>3, <2>1
  <2>3. /\ g \in Seq(Bytes) /\ Len(g) = at
        /\ \A i \in 1 .. at : g[i] = IF i <= n THEN bytes[i] ELSE f[i]
    BY <1>1, <1>3, <1>6, <2>1, <2>2, WriteInside
  <2>4. PICK u \in Seq(Bytes) : u = Body(f)
    BY BodyOf
  <2>5. PICK w \in Seq(Bytes) : w = Body(g)
    BY <2>3, BodyOf
  <2>6. Len(u) = at - k /\ \A i \in 1 .. at - k : u[i] = f[k + i]
    BY <1>2, <2>1, <2>4, BodyOf
  <2>7. Len(w) = at - k /\ \A i \in 1 .. at - k : w[i] = g[k + i]
    BY <1>2, <2>1, <2>3, <2>5, BodyOf
  <2>8. ASSUME NEW i \in 1 .. at - k PROVE g[k + i] = f[k + i]
    <3>1. k + i \in 1 .. at /\ ~(k + i <= n)
      BY <1>2, <1>3, <2>1
    <3> QED  BY <2>3, <3>1
  <2>9. u = w
    BY <2>6, <2>7, <2>8
  <2>10. ASSUME n = k PROVE g = bytes \o u
    <3>1. Len(g) = Len(bytes) + Len(u)
      BY <1>3, <2>1, <2>3, <2>6, <2>10
    <3>2. \A i \in 1 .. Len(bytes) : g[i] = bytes[i]
      BY <1>3, <2>2, <2>3
    <3>3. \A i \in 1 .. Len(u) : g[Len(bytes) + i] = u[i]
      <4>1. Len(bytes) = k /\ Len(u) = at - k
        BY <1>3, <2>6, <2>10
      <4> QED  BY <2>6, <2>8, <4>1
    <3> QED  BY <2>3, <3>1, <3>2, <3>3, JoinedIs
  <2>11. Headed(g, bytes)
    <3>1. \A o \in 1 .. k : o \in 1 .. at
      BY <1>2, <2>1
    <3>2. \A o \in 1 .. k : f[o] = 0
      BY <1>2, <2>1, <3>1 DEF ZeroHeader
    <3> QED  BY <1>2, <1>3, <2>3, <3>1, <3>2 DEF Headed
  <2> QED  BY <1>1, <1>2, <1>3, <2>3, <2>4, <2>5, <2>9, <2>10, <2>11
<1> QED  BY <1>4, <1>5, <1>6

-----------------------------------------------------------------------------
(* The slots in memory: chunks, newest first, and the counting sort. *)

(* The chunks hold the slots of the records, oldest first. *)
Used(lists, index, c) == IF c = Len(lists) THEN index ELSE SLOT_LIST_SIZE

Counts(lists, index, a) ==
  IF lists = <<>> THEN index = 0 /\ a = <<>>
  ELSE index >= 1 /\ Len(a) = (Len(lists) - 1) * SLOT_LIST_SIZE + index

Chunk == [0 .. SLOT_LIST_SIZE - 1 -> Slot]

Filled(lists, index, a) ==
  /\ lists \in Seq(Chunk) /\ index \in 0 .. SLOT_LIST_SIZE
  /\ Counts(lists, index, a)
  /\ \A c \in 1 .. Len(lists), k \in 0 .. SLOT_LIST_SIZE - 1 :
       k < Used(lists, index, c) =>
         lists[c][k] = SlotOf(a, (c - 1) * SLOT_LIST_SIZE + k + 1)

(* s holds the slots of the records, newest first. *)
Backwards(s, a) == \A p \in 1 .. Len(s) : s[p] = SlotOf(a, Len(a) + 1 - p)

(* A chunk read backwards. *)
Reversed(lists, index, c) ==
  [i \in 1 .. Used(lists, index, c) |-> lists[c][Used(lists, index, c) - i]]

LEMMA ReversedType ==
  ASSUME NEW a, NEW lists, NEW index, Filled(lists, index, a), NEW c \in 1 .. Len(lists)
  PROVE  /\ Reversed(lists, index, c) \in Seq(Slot)
         /\ Len(Reversed(lists, index, c)) = Used(lists, index, c)
         /\ Used(lists, index, c) \in 0 .. SLOT_LIST_SIZE
         /\ \A i \in 1 .. Used(lists, index, c) :
              Reversed(lists, index, c)[i]
                = SlotOf(a, (c - 1) * SLOT_LIST_SIZE + (Used(lists, index, c) - i) + 1)
<1>1. PICK n : n = Used(lists, index, c)
  OBVIOUS
<1>2. SLOT_LIST_SIZE \in Nat /\ n \in 0 .. SLOT_LIST_SIZE
  BY <1>1, MakerAssumption DEF Filled, Used
<1>3. lists[c] \in Chunk
  BY DEF Filled
<1>4. \A i \in 1 .. n : n - i \in 0 .. SLOT_LIST_SIZE - 1 /\ n - i < n
  BY <1>2
<1>5. \A i \in 1 .. n : lists[c][n - i] \in Slot
  BY <1>3, <1>4 DEF Chunk
<1>6. \A i \in 1 .. n : lists[c][n - i] = SlotOf(a, (c - 1) * SLOT_LIST_SIZE + (n - i) + 1)
  BY <1>1, <1>4 DEF Filled
<1>7. Reversed(lists, index, c) = [i \in 1 .. n |-> lists[c][n - i]]
  BY <1>1 DEF Reversed
<1>8. [i \in 1 .. n |-> lists[c][n - i]] \in Seq(Slot)
  BY <1>2, <1>5
<1>9. Len([i \in 1 .. n |-> lists[c][n - i]]) = n
  BY <1>2
<1> QED  BY <1>1, <1>2, <1>6, <1>7, <1>8, <1>9

(* The order in which commit() goes through the chunks. *)
LEMMA NewestFirstIs ==
  ASSUME NEW a, a = added, a \in Seq(Record),
         NEW lists, lists = slot_lists, NEW x, x = slot_list_index,
         Filled(lists, x, a)
  PROVE  /\ NewestFirst \in Seq(Slot)
         /\ Len(NewestFirst) = Len(a)
         /\ Backwards(NewestFirst, a)
<1>1. lists \in Seq(Chunk) /\ x \in 0 .. SLOT_LIST_SIZE /\ SLOT_LIST_SIZE \in Nat
  BY MakerAssumption DEF Filled
<1>2. PICK l \in Nat : l = Len(lists)
  BY <1>1
<1>3. PICK n \in Nat : n = Len(a)
  OBVIOUS
<1>4. PICK seqs : seqs = [i \in 1 .. l |-> Reversed(lists, x, l + 1 - i)]
  OBVIOUS
<1>5. NewestFirst = FlattenSeq(seqs)
  <2>1. DOMAIN slot_lists = 1 .. l
    BY <1>1, <1>2
  <2> QED  BY <1>2, <1>4, <2>1 DEF NewestFirst, Reversed, Used
<1>6. \A i \in 1 .. l : l + 1 - i \in 1 .. l
  OBVIOUS
<1>7. \A i \in 1 .. l : Reversed(lists, x, l + 1 - i) \in Seq(Slot)
  BY <1>2, <1>6, ReversedType
<1>8. seqs \in Seq(Seq(Slot)) /\ Len(seqs) = l
  BY <1>4, <1>7
<1>9. PICK h \in [0 .. Len(seqs) -> Seq(Slot)] : FlattensBy(h, seqs)
  BY <1>8, FlattenTrace
<1>10. /\ h \in [0 .. l -> Seq(Slot)] /\ h[0] = <<>> /\ NewestFirst = h[l]
       /\ \A i \in 1 .. l : h[i] = h[i - 1] \o seqs[i]
  BY <1>5, <1>8, <1>9 DEF FlattensBy, IsFlat
<1>11. CASE lists = <<>>
  <2>1. l = 0 /\ n = 0
    BY <1>2, <1>3, <1>11 DEF Filled, Counts
  <2>2. NewestFirst = <<>>
    BY <1>10, <2>1
  <2> QED  BY <1>3, <2>1, <2>2 DEF Backwards
<1>12. CASE lists # <<>>
  <2>1. x >= 1 /\ n = (l - 1) * SLOT_LIST_SIZE + x /\ l >= 1
    BY <1>1, <1>2, <1>3, <1>12 DEF Filled, Counts
  <2> DEFINE Gathered(i) == Len(h[i]) = x + (i - 1) * SLOT_LIST_SIZE /\ Backwards(h[i], a)
             S == {i \in 0 .. l - 1 : Gathered(i + 1)}
  <2>2. 0 \in S
    <3>1. 0 + 1 \in 1 .. l /\ (0 + 1) - 1 = 0 /\ l + 1 - (0 + 1) = l /\ 0 + 1 = 1
      BY <2>1
    <3>2. PICK r : r = Reversed(lists, x, l)
      OBVIOUS
    <3>3. l \in 1 .. Len(lists) /\ Used(lists, x, l) = x
      BY <1>2, <2>1 DEF Used
    <3>4. /\ r \in Seq(Slot) /\ Len(r) = x
          /\ \A i \in 1 .. x : r[i] = SlotOf(a, (l - 1) * SLOT_LIST_SIZE + (x - i) + 1)
      BY <3>2, <3>3, ReversedType
    <3>5. h[1] = r
      <4>1. h[1] = <<>> \o seqs[1]
        BY <1>10, <3>1
      <4>2. seqs[1] = r
        BY <1>4, <3>1, <3>2
      <4>3. <<>> \o r = r
        BY <3>4
      <4> QED  BY <4>1, <4>2, <4>3
    <3>6. x + ((0 + 1) - 1) * SLOT_LIST_SIZE = x
      BY <1>1
    <3>7. Backwards(r, a)
      <4> SUFFICES ASSUME NEW p \in 1 .. Len(r) PROVE r[p] = SlotOf(a, Len(a) + 1 - p)
        BY DEF Backwards
      <4>1. PICK y \in Int : y = (l - 1) * SLOT_LIST_SIZE
        BY <1>1
      <4>2. p \in 1 .. x
        BY <3>4
      <4>3. y + (x - p) + 1 = Len(a) + 1 - p
        BY <1>1, <1>3, <2>1, <4>1, <4>2
      <4> QED  BY <3>4, <4>1, <4>2, <4>3
    <3>8. Gathered(0 + 1)
      BY <3>1, <3>4, <3>5, <3>6, <3>7
    <3> QED  BY <2>1, <3>8
  <2>3. ASSUME NEW i \in 0 .. (l - 1) - 1, i \in S PROVE i + 1 \in S
    <3>1. PICK j \in Nat : j = i + 1
      OBVIOUS
    <3>2. /\ j \in 1 .. l - 1 /\ j + 1 \in 1 .. l /\ (j + 1) - 1 = j
          /\ j \in 0 .. l - 1 /\ j \in 0 .. l /\ l + 1 - (j + 1) = l - j /\ l - j \in 1 .. l
      BY <3>1
    <3>3. Gathered(j)
      BY <2>3, <3>1
    <3>4. PICK r : r = Reversed(lists, x, l - j)
      OBVIOUS
    <3>5. l - j \in 1 .. Len(lists) /\ Used(lists, x, l - j) = SLOT_LIST_SIZE
      BY <1>2, <3>2 DEF Used
    <3>6. /\ r \in Seq(Slot) /\ Len(r) = SLOT_LIST_SIZE
          /\ \A q \in 1 .. SLOT_LIST_SIZE :
               r[q] = SlotOf(a, ((l - j) - 1) * SLOT_LIST_SIZE + (SLOT_LIST_SIZE - q) + 1)
      BY <3>4, <3>5, ReversedType
    <3>7. h[j + 1] = h[j] \o r
      BY <1>4, <1>10, <3>2, <3>4
    <3>8. PICK u \in Seq(Slot) : u = h[j]
      BY <1>10, <3>2
    <3>9. PICK y \in Nat : y = (j - 1) * SLOT_LIST_SIZE
      <4>1. \A m, s \in Nat : m * s \in Nat
        OBVIOUS
      <4>2. j - 1 \in Nat
        BY <3>2
      <4> QED  BY <1>1, <4>1, <4>2
    <3>10. PICK z \in Nat : z = ((l - j) - 1) * SLOT_LIST_SIZE
      <4>1. \A m, s \in Nat : m * s \in Nat
        OBVIOUS
      <4>2. (l - j) - 1 \in Nat
        BY <3>2
      <4> QED  BY <1>1, <4>1, <4>2
    <3>11. ((j + 1) - 1) * SLOT_LIST_SIZE = y + SLOT_LIST_SIZE
      <4>1. \A m \in Int, s \in Nat : ((m + 1) - 1) * s = (m - 1) * s + s
        OBVIOUS
      <4> QED  BY <1>1, <3>9, <4>1
    <3>12. (l - 1) * SLOT_LIST_SIZE = y + SLOT_LIST_SIZE + z
      <4>1. \A m, k \in Int, s \in Nat : (m - 1) * s = (k - 1) * s + s + ((m - k) - 1) * s
        OBVIOUS
      <4> QED  BY <1>1, <3>9, <3>10, <4>1
    <3>13. Len(u) = x + y
      BY <3>3, <3>8, <3>9
    <3>14. PICK w \in Seq(Slot) : w = h[j + 1]
      BY <1>10, <3>2
    <3>15. w = u \o r
      BY <3>7, <3>8, <3>14
    <3>16. Len(w) = x + y + SLOT_LIST_SIZE
      <4>1. Len(w) = Len(u) + Len(r)
        BY <3>6, <3>15
      <4> QED  BY <1>1, <3>6, <3>13, <4>1
    <3>17. Backwards(w, a)
      <4> SUFFICES ASSUME NEW p \in 1 .. Len(w) PROVE w[p] = SlotOf(a, Len(a) + 1 - p)
        BY DEF Backwards
      <4>1. CASE p <= Len(u)
        <5>1. p \in 1 .. Len(u)
          BY <4>1
        <5>2. w[p] = u[p]
          BY <3>6, <3>15, <5>1
        <5>3. u[p] = SlotOf(a, Len(a) + 1 - p)
          BY <3>3, <3>8, <5>1 DEF Backwards
        <5> QED  BY <5>2, <5>3
      <4>2. CASE p > Len(u)
        <5>1. PICK q \in 1 .. SLOT_LIST_SIZE : p = Len(u) + q
          <6>1. p - (x + y) \in 1 .. SLOT_LIST_SIZE /\ p = (x + y) + (p - (x + y))
            BY <1>1, <3>13, <3>16, <4>2
          <6> QED  BY <3>13, <6>1
        <5>2. w[p] = r[q]
          <6>1. p - Len(u) = q /\ p \in 1 .. Len(u) + Len(r)
            BY <1>1, <3>6, <3>13, <3>16, <5>1
          <6> QED  BY <3>6, <3>15, <4>2, <6>1
        <5>3. z + (SLOT_LIST_SIZE - q) + 1 = Len(a) + 1 - p
          <6>1. n = y + SLOT_LIST_SIZE + z + x
            BY <2>1, <3>12
          <6> QED  BY <1>1, <1>3, <3>13, <5>1, <6>1
        <5> QED  BY <3>6, <3>10, <5>2, <5>3
      <4>3. p <= Len(u) \/ p > Len(u)
        BY <1>1, <3>13
      <4> QED  BY <4>1, <4>2, <4>3
    <3>18. Gathered(j + 1)
      BY <1>1, <3>11, <3>14, <3>16, <3>17
    <3> QED  BY <3>1, <3>2, <3>18
  <2> HIDE DEF S
  <2>4. l - 1 \in S
    <3>1. l - 1 \in Nat /\ l - 1 \in 0 .. l - 1
      BY <2>1
    <3> QED  BY <2>2, <2>3, <3>1, UpTo
  <2>5. Gathered((l - 1) + 1)
    BY <2>4 DEF S
  <2>6. (l - 1) + 1 = l
    OBVIOUS
  <2>7. Len(h[l]) = x + (l - 1) * SLOT_LIST_SIZE /\ Backwards(h[l], a)
    BY <2>5, <2>6
  <2>8. h[l] \in Seq(Slot)
    BY <1>10
  <2>9. x + (l - 1) * SLOT_LIST_SIZE = n
    BY <1>1, <2>1
  <2> QED  BY <1>3, <1>10, <2>7, <2>8, <2>9
<1> QED  BY <1>11, <1>12

(* What PutBack works on. *)
SortState(n) == [sorted : [1 .. n -> Slot], starts : [Buckets -> Int]]

LEMMA SlotBucket ==
  ASSUME NEW slot \in Slot
  PROVE  Bucket(slot.hash) \in Buckets
<1>1. slot.hash \in Nat
  BY WordSizes DEF Slot, Words
<1>2. TABLES \in Nat /\ TABLES > 0
  BY FormatAssumption
<1>3. \A h, t \in Nat : t > 0 => h % t \in 0 .. t - 1
  OBVIOUS
<1> QED  BY <1>1, <1>2, <1>3 DEF Bucket, Buckets

(* What PutBack changes. *)
LEMMA PutBackIs ==
  ASSUME NEW n \in Nat, NEW s \in SortState(n), NEW slot \in Slot
  PROVE  /\ PutBack(s, slot) \in SortState(n)
         /\ PutBack(s, slot).sorted
              = [s.sorted EXCEPT ![(s.starts[Bucket(slot.hash)] - 1) + 1] = slot]
         /\ PutBack(s, slot).starts
              = [s.starts EXCEPT ![Bucket(slot.hash)] = s.starts[Bucket(slot.hash)] - 1]
<1>1. PICK b : b = Bucket(slot.hash)
  OBVIOUS
<1>2. b \in Buckets
  BY <1>1, SlotBucket
<1>3. s.sorted \in [1 .. n -> Slot] /\ s.starts \in [Buckets -> Int]
  BY DEF SortState
<1>4. PICK at \in Int : at = s.starts[b] - 1
  BY <1>2, <1>3
<1>5. PutBack(s, slot) = [sorted |-> [s.sorted EXCEPT ![at + 1] = slot],
                          starts |-> [s.starts EXCEPT ![b] = at]]
  BY <1>1, <1>4 DEF PutBack
<1>6. [s.sorted EXCEPT ![at + 1] = slot] \in [1 .. n -> Slot]
  BY <1>3
<1>7. [s.starts EXCEPT ![b] = at] \in [Buckets -> Int]
  BY <1>3, <1>4
<1> QED  BY <1>1, <1>4, <1>5, <1>6, <1>7 DEF SortState

(* g are the states that SortSlots goes through. *)
SortsBy(g, slots, n) ==
  /\ g[0].sorted = [i \in 1 .. n |-> FreeSlot]
  /\ g[0].starts = [j \in Buckets |-> CountUpTo(j)]
  /\ \A i \in 1 .. Len(slots) : g[i] = PutBack(g[i - 1], slots[i])
  /\ SortSlots = g[Len(slots)].sorted

LEMMA SortTrace ==
  ASSUME NEW slots, slots = NewestFirst, slots \in Seq(Slot),
         NEW size0, size0 = CountUpTo(TABLES - 1), size0 \in Nat,
         \A j \in Buckets : CountUpTo(j) \in Int
  PROVE  \E g \in [0 .. Len(slots) -> SortState(size0)] : SortsBy(g, slots, size0)
<1> DEFINE n == Len(slots)
           T == SortState(size0)
<1>0. PICK base \in T : base = [sorted |-> [i \in 1 .. CountUpTo(TABLES - 1) |-> FreeSlot],
                                starts |-> [j \in Buckets |-> CountUpTo(j)]]
  <2>1. FreeSlot \in Slot
    BY WordSizes DEF FreeSlot, Slot, Words
  <2>2. [i \in 1 .. CountUpTo(TABLES - 1) |-> FreeSlot] \in [1 .. size0 -> Slot]
    BY <2>1
  <2>3. [j \in Buckets |-> CountUpTo(j)] \in [Buckets -> Int]
    OBVIOUS
  <2> QED  BY <2>2, <2>3 DEF SortState
<1> DEFINE Iter(f) == f = [s \in SUBSET DOMAIN slots |->
                             IF s = {} THEN base
                             ELSE PutBack(f[s \ {Max(s)}], slots[Max(s)])]
           step == [p \in T \X (1 .. n) |-> PutBack(p[1], slots[p[2]])]
<1>1. n \in Nat /\ \A i \in 1 .. n : slots[i] \in Slot
  OBVIOUS
<1>2. ASSUME NEW o \in T, NEW i \in 1 .. n
      PROVE  PutBack(o, slots[i]) \in T
  <2> HIDE DEF n
  <2> QED  BY <1>1, PutBackIs
<1>20. base.sorted = [i \in 1 .. size0 |-> FreeSlot]
       /\ base.starts = [j \in Buckets |-> CountUpTo(j)]
  BY <1>0
<1> HIDE DEF T
<1>3. step \in [T \X (1 .. n) -> T]
  <2>1. \A p \in T \X (1 .. n) : PutBack(p[1], slots[p[2]]) \in T
    BY <1>2
  <2> QED  BY <2>1
<1>40. PICK s0 : s0 = FoldLeft(PutBack, base, slots)
  OBVIOUS
<1>41. SortSlots = s0.sorted
  BY <1>0, <1>40 DEF SortSlots
<1>4. s0 = (CHOOSE f : Iter(f))[DOMAIN slots]
  BY <1>40 DEF FoldLeft, MapThenFoldSet
<1>5. DOMAIN slots = 1 .. n
  OBVIOUS
<1>6. \A o \in T, i \in 1 .. n : step[<<o, i>>] = PutBack(o, slots[i])
  OBVIOUS
<1> HIDE DEF step, n
<1>8. PICK h \in [SUBSET (1 .. n) -> T] : IsFold(h, base, step, n)
  BY <1>1, <1>3, FoldExists
<1>9. ASSUME NEW s \in SUBSET (1 .. n), s # {}
      PROVE  Max(s) \in 1 .. n /\ s \ {Max(s)} \in SUBSET (1 .. n)
  BY <1>1, <1>9, LargestOf
<1>10. Iter(h)
  <2>1. ASSUME NEW s \in SUBSET (1 .. n), s # {}
        PROVE  h[s] = PutBack(h[s \ {Max(s)}], slots[Max(s)])
    BY <1>6, <1>8, <1>9, <2>1 DEF IsFold
  <2>2. h[{}] = base
    BY <1>8 DEF IsFold
  <2> QED  BY <1>5, <2>1, <2>2
<1>11. Iter(CHOOSE f : Iter(f))
  BY <1>10, Zenon
<1>12. PICK f : Iter(f) /\ s0 = f[1 .. n]
  BY <1>4, <1>5, <1>11
<1>13. FoldsIn(T, f, base, step, n)
  BY <1>5, <1>6, <1>9, <1>12 DEF FoldsIn
<1> HIDE DEF Iter
<1>14. HasTrace(T, f, base, step, n)
  BY <1>1, <1>3, <1>13, FoldTrace
<1>15. PICK g \in [0 .. n -> T] : IsTrace(g, base, step, n) /\ f[1 .. n] = g[n]
  BY <1>14 DEF HasTrace
<1>16. \A i \in 1 .. n : g[i] = PutBack(g[i - 1], slots[i])
  <2> SUFFICES ASSUME NEW i \in 1 .. n
               PROVE  g[i] = PutBack(g[i - 1], slots[i])
    OBVIOUS
  <2>1. g[i - 1] \in T
    BY <1>1
  <2> QED  BY <1>6, <1>15, <2>1 DEF IsTrace
<1>17. g[0] = base
  BY <1>15 DEF IsTrace
<1>18. SortSlots = g[n].sorted
  BY <1>12, <1>15, <1>41
<1> QED  BY <1>16, <1>17, <1>18, <1>20 DEF T, n, SortsBy

(* The records after the first i have been put back. *)
PutUpTo(s, a, i) ==
  \A b \in Buckets :
    /\ s.starts[b] = Base(a, b) + Len(BucketOf(Prefix(a, i), b))
    /\ \A m \in 1 .. Len(BucketOf(a, b)) :
         m > Len(BucketOf(Prefix(a, i), b)) =>
           s.sorted[Base(a, b) + m] = BucketOf(a, b)[m]

(* Each slot goes to the end of what is left of its bucket. *)
LEMMA PutBackKeeps ==
  ASSUME NEW a \in Seq(Record), NEW n \in Nat, n = Base(a, TABLES),
         NEW s \in SortState(n), NEW i \in 1 .. Len(a), PutUpTo(s, a, i),
         NEW slot \in Slot, slot = SlotOf(a, i)
  PROVE  PutUpTo(PutBack(s, slot), a, i - 1)
<1>1. PICK b : b = Bucket(Hash[a[i].key])
  OBVIOUS
<1>2. Bucket(slot.hash) = b
  BY <1>1 DEF SlotOf
<1>3. b \in Buckets /\ b \in Nat /\ b < TABLES /\ TABLES \in Nat
  BY <1>2, SlotBucket, FormatAssumption DEF Buckets
<1>4. PICK k \in Nat : k = Len(BucketOf(Prefix(a, i - 1), b))
  BY <1>1, BucketPlace
<1>5. /\ Len(BucketOf(Prefix(a, i), b)) = k + 1
      /\ k + 1 \in 1 .. Len(BucketOf(a, b))
      /\ BucketOf(a, b)[k + 1] = slot
  BY <1>1, <1>4, BucketPlace
<1>6. PICK p \in Nat : p = Base(a, b)
  BY <1>3, BaseNext
<1>7. s.starts[b] = p + (k + 1)
  BY <1>3, <1>5, <1>6 DEF PutUpTo
<1>8. PICK u : u = PutBack(s, slot)
  OBVIOUS
<1>9. /\ u.sorted = [s.sorted EXCEPT ![(s.starts[b] - 1) + 1] = slot]
      /\ u.starts = [s.starts EXCEPT ![b] = s.starts[b] - 1]
  BY <1>2, <1>8, PutBackIs
<1>10. (s.starts[b] - 1) + 1 = p + (k + 1) /\ s.starts[b] - 1 = p + k
  BY <1>7
<1>11. /\ u.sorted = [s.sorted EXCEPT ![p + (k + 1)] = slot]
       /\ u.starts = [s.starts EXCEPT ![b] = p + k]
  BY <1>9, <1>10
<1>12. s.sorted \in [1 .. n -> Slot] /\ s.starts \in [Buckets -> Int]
  BY DEF SortState
<1>13. p + (k + 1) \in 1 .. n
  <2>1. p + Len(BucketOf(a, b)) <= n
    BY <1>3, <1>6, BaseGrows
  <2>2. PICK l \in Nat : l = Len(BucketOf(a, b))
    BY <1>3, BaseNext
  <2> QED  BY <1>5, <2>1, <2>2
<1>14. ASSUME NEW c \in Buckets
       PROVE  /\ u.starts[c] = Base(a, c) + Len(BucketOf(Prefix(a, i - 1), c))
              /\ \A m \in 1 .. Len(BucketOf(a, c)) :
                   m > Len(BucketOf(Prefix(a, i - 1), c)) =>
                     u.sorted[Base(a, c) + m] = BucketOf(a, c)[m]
  <2>1. c \in Nat
    BY <1>14, FormatAssumption DEF Buckets
  <2>2. CASE c = b
    <3>1. u.starts[c] = p + k
      BY <1>3, <1>11, <1>12, <2>2
    <3>2. ASSUME NEW m \in 1 .. Len(BucketOf(a, b)), m > k
          PROVE  u.sorted[p + m] = BucketOf(a, b)[m]
      <4>0. m \in Nat
        OBVIOUS
      <4>1. CASE m = k + 1
        BY <1>5, <1>11, <1>12, <1>13, <4>1
      <4>2. CASE m > k + 1
        <5>1. s.sorted[p + m] = BucketOf(a, b)[m]
          BY <1>3, <1>5, <1>6, <4>2 DEF PutUpTo
        <5>2. p + m # p + (k + 1)
          BY <4>0, <4>2
        <5>3. u.sorted[p + m] = s.sorted[p + m]
          <6>1. p + m \in 1 .. n
            <7>1. p + Len(BucketOf(a, b)) <= n
              BY <1>3, <1>6, BaseGrows
            <7>2. PICK l \in Nat : l = Len(BucketOf(a, b))
              BY <1>3, BaseNext
            <7> QED  BY <7>1, <7>2
          <6> QED  BY <1>11, <1>12, <5>2, <6>1
        <5> QED  BY <5>1, <5>3
      <4>3. m = k + 1 \/ m > k + 1
        BY <3>2, <4>0
      <4> QED  BY <4>1, <4>2, <4>3
    <3> QED  BY <1>4, <1>6, <2>2, <3>1, <3>2
  <2>3. CASE c # b
    <3>1. BucketOf(Prefix(a, i), c) = BucketOf(Prefix(a, i - 1), c)
      BY <1>1, <2>3, BucketOfOther
    <3>2. u.starts[c] = s.starts[c]
      BY <1>11, <1>12, <2>3
    <3>3. s.starts[c] = Base(a, c) + Len(BucketOf(Prefix(a, i), c))
      BY DEF PutUpTo
    <3>4. ASSUME NEW m \in 1 .. Len(BucketOf(a, c)),
                 m > Len(BucketOf(Prefix(a, i - 1), c))
          PROVE  u.sorted[Base(a, c) + m] = BucketOf(a, c)[m]
      <4>1. s.sorted[Base(a, c) + m] = BucketOf(a, c)[m]
        BY <3>1, <3>4 DEF PutUpTo
      <4>2. Base(a, c) + m # p + (k + 1)
        BY <1>3, <1>5, <1>6, <2>1, <2>3, PlacesDiffer
      <4>3. Base(a, c) + m \in 1 .. n
        <5>1. Base(a, c) + Len(BucketOf(a, c)) <= n
          BY <1>3, <2>1, BaseGrows, FormatAssumption DEF Buckets
        <5>2. PICK l \in Nat : l = Len(BucketOf(a, c))
          BY <2>1, BaseNext
        <5>3. Base(a, c) \in Nat
          BY <2>1, BaseNext
        <5> QED  BY <5>1, <5>2, <5>3
      <4>4. u.sorted[Base(a, c) + m] = s.sorted[Base(a, c) + m]
        BY <1>11, <1>12, <4>2, <4>3
      <4> QED  BY <4>1, <4>4
    <3> QED  BY <3>1, <3>2, <3>3, <3>4
  <2> QED  BY <2>2, <2>3
<1> QED  BY <1>8, <1>14 DEF PutUpTo

(* Putting the slots back from the newest to the oldest sorts them.        *)
LEMMA SortedByBuckets ==
  ASSUME NEW a, a = added, a \in Seq(Record),
         Filled(slot_lists, slot_list_index, added),
         slot_counts \in [Buckets -> Nat],
         \A b \in Buckets : slot_counts[b] = Len(BucketOf(added, b))
  PROVE  SortSlots \in Seq(Slot) /\ SortSlots = BucketsOf(added, TABLES)
<1>1. PICK n \in Nat : n = Len(a)
  OBVIOUS
<1>2. PICK slots : slots = NewestFirst
  OBVIOUS
<1>3. slots \in Seq(Slot) /\ Len(slots) = n /\ Backwards(slots, a)
  BY <1>1, <1>2, NewestFirstIs
<1>4. \A j \in Buckets : CountUpTo(j) = Base(a, j + 1) /\ j + 1 \in Nat /\ j \in Nat
  <2>1. \A j \in Buckets : j + 1 \in Nat /\ j \in Nat
    BY FormatAssumption DEF Buckets
  <2>2. \A b \in Buckets : slot_counts[b] = Len(BucketOf(a, b))
    OBVIOUS
  <2>3. \A j \in Buckets : CountUpTo(j) = Base(a, j + 1)
    BY <2>2, CountIsBase
  <2> QED  BY <2>1, <2>3
<1>5. PICK size0 : size0 = CountUpTo(TABLES - 1)
  OBVIOUS
<1>6. size0 = Base(a, TABLES) /\ TABLES \in Nat
  <2>1. TABLES - 1 \in Buckets /\ (TABLES - 1) + 1 = TABLES /\ TABLES \in Nat
    BY FormatAssumption DEF Buckets
  <2> QED  BY <1>4, <1>5, <2>1
<1>7. size0 \in Nat
  BY <1>6, BaseNext
<1>8. \A j \in Buckets : CountUpTo(j) \in Int
  <2>1. \A j \in Buckets : Base(a, j + 1) \in Nat
    BY <1>4, BaseNext
  <2> QED  BY <1>4, <2>1
<1>9. PICK g \in [0 .. Len(slots) -> SortState(size0)] : SortsBy(g, slots, size0)
  BY <1>2, <1>3, <1>5, <1>7, <1>8, SortTrace
<1>10. /\ g \in [0 .. n -> SortState(size0)]
       /\ \A i \in 1 .. n : g[i] = PutBack(g[i - 1], slots[i])
  BY <1>3, <1>9 DEF SortsBy
<1> DEFINE S == {i \in 0 .. n : PutUpTo(g[i], a, n - i)}
<1>11. 0 \in S
  <2>1. n - 0 = n /\ 0 \in 0 .. n
    OBVIOUS
  <2>2. Prefix(a, n) = a
    BY <1>1, PrefixAll
  <2>3. ASSUME NEW b \in Buckets
        PROVE  /\ g[0].starts[b] = Base(a, b) + Len(BucketOf(a, b))
               /\ \A m \in 1 .. Len(BucketOf(a, b)) : ~(m > Len(BucketOf(a, b)))
    <3>1. b \in Nat
      BY <1>4
    <3>2. g[0].starts[b] = Base(a, b + 1)
      BY <1>4, <1>9 DEF SortsBy
    <3>3. Len(BucketOf(a, b)) \in Nat
      BY <3>1, BaseNext
    <3> QED  BY <3>1, <3>2, <3>3, BaseNext
  <2>4. PutUpTo(g[0], a, n)
    BY <2>2, <2>3 DEF PutUpTo
  <2> QED  BY <2>1, <2>4
<1>12. ASSUME NEW i \in 0 .. n - 1, i \in S PROVE i + 1 \in S
  <2>1. PICK r \in Nat : r = n - i
    OBVIOUS
  <2>2. /\ r \in 1 .. n /\ i + 1 \in 1 .. n /\ i + 1 \in 0 .. n /\ (i + 1) - 1 = i
        /\ i \in 0 .. n /\ n - (i + 1) = r - 1 /\ n + 1 - (i + 1) = r
    BY <2>1
  <2>3. PutUpTo(g[i], a, r)
    BY <1>12, <2>1
  <2>4. slots[i + 1] = SlotOf(a, r) /\ slots[i + 1] \in Slot
    <3>1. i + 1 \in 1 .. Len(slots)
      BY <1>3, <2>2
    <3>2. slots[i + 1] = SlotOf(a, Len(a) + 1 - (i + 1))
      BY <1>3, <3>1 DEF Backwards
    <3>3. Len(a) + 1 - (i + 1) = r
      BY <1>1, <2>2
    <3> QED  BY <1>3, <3>1, <3>2, <3>3
  <2>5. g[i + 1] = PutBack(g[i], slots[i + 1])
    BY <1>10, <2>2
  <2>6. g[i] \in SortState(size0)
    BY <1>10, <2>2
  <2>7. r \in 1 .. Len(a)
    BY <1>1, <2>2
  <2>8. PutUpTo(PutBack(g[i], slots[i + 1]), a, r - 1)
    BY <1>6, <1>7, <2>3, <2>4, <2>6, <2>7, PutBackKeeps
  <2> QED  BY <2>2, <2>5, <2>8
<1>13. n \in S
  <2>1. n \in 0 .. n
    OBVIOUS
  <2> HIDE DEF S
  <2> QED  BY <1>11, <1>12, <2>1, UpTo
<1>14. PICK s : s = g[n].sorted
  OBVIOUS
<1>15. PutUpTo(g[n], a, 0) /\ SortSlots = s
  <2>1. n - n = 0
    OBVIOUS
  <2> QED  BY <1>3, <1>9, <1>13, <1>14, <2>1 DEF SortsBy
<1>16. s \in [1 .. size0 -> Slot]
  <2>1. g[n] \in SortState(size0)
    BY <1>10
  <2> QED  BY <1>14, <2>1 DEF SortState
<1>17. s \in Seq(Slot) /\ Len(s) = size0
  BY <1>7, <1>16
<1>18. s \in Seq(RawSlot)
  <2>1. \A slot \in Slot : slot \in RawSlot
    BY WordSizes DEF Slot, RawSlot, Words
  <2>2. \A p \in 1 .. size0 : s[p] \in RawSlot
    BY <1>16, <2>1
  <2> QED  BY <1>17, <2>2
<1>19. \A b \in 0 .. TABLES - 1 : HoldsBucket(s, a, b)
  <2> SUFFICES ASSUME NEW b \in Buckets PROVE HoldsBucket(s, a, b)
    BY DEF Buckets
  <2>1. Len(BucketOf(Prefix(a, 0), b)) = 0
    <3>1. Prefix(a, 0) = <<>>
      BY PrefixAll
    <3>2. BucketOf(<<>>, b) = <<>>
      BY BucketOfEmpty
    <3> QED  BY <3>1, <3>2
  <2>2. ASSUME NEW m \in 1 .. Len(BucketOf(a, b))
        PROVE  s[Base(a, b) + m] = BucketOf(a, b)[m]
    <3>1. m > 0
      OBVIOUS
    <3> QED  BY <1>14, <1>15, <2>1, <3>1 DEF PutUpTo
  <2> QED  BY <2>2 DEF HoldsBucket
<1>20. s = BucketsOf(a, TABLES)
  BY <1>6, <1>17, <1>18, <1>19, SortedUnique
<1> QED  BY <1>15, <1>17, <1>20

(* The part of it that belongs to a bucket. *)
LEMMA PartOfBuckets ==
  ASSUME NEW a \in Seq(Record), NEW b \in Buckets
  PROVE  SubSeq(BucketsOf(a, TABLES), Base(a, b) + 1, Base(a, b) + Len(BucketOf(a, b)))
           = BucketOf(a, b)
<1>1. b \in Nat /\ b < TABLES /\ TABLES \in Nat /\ b \in 0 .. TABLES - 1
  BY FormatAssumption DEF Buckets
<1>2. PICK p \in Nat : p = Base(a, b)
  BY <1>1, BaseNext
<1>3. PICK l \in Nat : l = Len(BucketOf(a, b))
  BY <1>1, BaseNext
<1>4. PICK s \in Seq(RawSlot) : s = BucketsOf(a, TABLES)
  BY <1>1, BucketsOfType
<1>5. p + l <= Len(s)
  BY <1>1, <1>2, <1>3, <1>4, BaseGrows DEF Base
<1>6. \A m \in 1 .. l : s[p + m] = BucketOf(a, b)[m]
  BY <1>1, <1>2, <1>3, <1>4, BucketsOfAt DEF HoldsBucket
<1>7. PICK u : u = SubSeq(s, p + 1, p + l)
  OBVIOUS
<1>8. u \in Seq(RawSlot) /\ Len(u) = l /\ \A m \in 1 .. l : u[m] = s[p + m]
  <2>1. /\ SubSeq(s, p + 1, p + l) \in Seq(RawSlot) /\ Len(SubSeq(s, p + 1, p + l)) = l
        /\ \A m \in 1 .. l : SubSeq(s, p + 1, p + l)[m] = s[p + m]
    <3>1. Len(s) \in Nat
      OBVIOUS
    <3>2. p + 1 \in Nat /\ p + l \in Nat /\ (p + l) - (p + 1) + 1 = l
      OBVIOUS
    <3>3. \A m \in 1 .. l : p + m \in 1 .. Len(s) /\ (p + 1) + m - 1 = p + m
      BY <1>5, <3>1
    <3>4. SubSeq(s, p + 1, p + l) = [m \in 1 .. l |-> s[p + m]]
      BY <3>2, <3>3
    <3>7. \A i \in 1 .. Len(s) : s[i] \in RawSlot
      OBVIOUS
    <3>5. \A m \in 1 .. l : s[p + m] \in RawSlot
      BY <3>3, <3>7
    <3>6. [m \in 1 .. l |-> s[p + m]] \in Seq(RawSlot)
      BY <3>5
    <3>8. Len([m \in 1 .. l |-> s[p + m]]) = l
      OBVIOUS
    <3>9. \A m \in 1 .. l : [i \in 1 .. l |-> s[p + i]][m] = s[p + m]
      OBVIOUS
    <3> QED  BY <3>4, <3>6, <3>8, <3>9
  <2> QED  BY <1>7, <2>1
<1>9. BucketOf(a, b) \in Seq(RawSlot)
  BY BucketOfType
<1>10. u = BucketOf(a, b)
  BY <1>3, <1>6, <1>8, <1>9
<1> QED  BY <1>2, <1>3, <1>4, <1>7, <1>10

-----------------------------------------------------------------------------
(* The invariant.  That a committed file is the image of the records can   *)
(* only be known if it is known at every step before what is on disk and   *)
(* in the buffer, what the chunks and counts hold, and where the next byte *)
(* goes.                                                                   *)

(* The slots that add() has remembered and counted. *)
SlotsKept ==
  /\ Filled(slot_lists, slot_list_index, added)
  /\ \A b \in Buckets : slot_counts[b] = Len(BucketOf(added, b))

(* Only a maker without an error gets past the first step of a call. *)
FlagsKept ==
  /\ pc \notin {"idle", "open"} => flags = {}
  /\ pc = "open" => flags = {"COMMITTED"}

(* Until the header is written: the place of the next byte, the room left  *)
(* for the header, and the stream.                                         *)
DiskKept ==
  flags = {} => /\ PlacedAt(file, position)
                /\ ZeroHeader(file)
                /\ Body(file) \o buf = Produced

(* Within add(). *)
AddKept ==
  pc \in {"key", "value", "slot"} => record \in Record /\ start = RecordsEnd(added)

(* Within commit(): the tables that have been written. *)
CommitKept ==
  /\ pc \in {"tables", "header"} => offset = RecordsEnd(added) /\ Fits(added)
  /\ pc = "tables" => /\ sorted = BucketsOf(added, TABLES)
                      /\ table = Pointers(added, bucket)
  /\ pc = "header" => table = Pointers(added, TABLES) /\ buf = <<>>

(* The header is written last, and only when everything else is on disk. *)
HeaderKept == Written(file, added)

(* A committed file can be read with the offsets that are in it. *)
CommittedKept == "COMMITTED" \in flags => file = Image(added) /\ Fits(added)

(* The inductive invariant of the bytes. *)
ImageInv ==
  /\ TypeOK
  /\ SlotsKept
  /\ FlagsKept
  /\ DiskKept
  /\ AddKept
  /\ CommitKept
  /\ HeaderKept
  /\ CommittedKept

-----------------------------------------------------------------------------
LEMMA NoneInHeader ==
  ASSUME NEW f \in Seq(Bytes), ZeroHeader(f)
  PROVE  ~ \E o \in 1 .. Min({SIZEOF_TABLE, Len(f)}) : f[o] # 0
<1>1. PICK n \in Nat : n = Len(f)
  OBVIOUS
<1>2. SIZEOF_TABLE \in Nat
  BY WordSizes
<1>3. PICK m \in Nat : m = Min({SIZEOF_TABLE, Len(f)})
                       /\ \A o \in Nat : o <= m <=> o <= SIZEOF_TABLE /\ o <= n
  BY <1>1, <1>2, MinOfTwo
<1>4. \A o \in 1 .. m : o \in 1 .. SIZEOF_TABLE /\ o <= Len(f)
  <2> SUFFICES ASSUME NEW o \in 1 .. m PROVE o \in 1 .. SIZEOF_TABLE /\ o <= Len(f)
    OBVIOUS
  <2>1. o \in Nat /\ o <= m /\ o >= 1
    OBVIOUS
  <2>2. o <= SIZEOF_TABLE /\ o <= n
    BY <1>3, <2>1
  <2> QED  BY <1>1, <1>2, <2>1, <2>2
<1>5. \A o \in 1 .. m : f[o] = 0
  BY <1>4 DEF ZeroHeader
<1> QED  BY <1>3, <1>5

LEMMA NoHeaderYet ==
  ASSUME NEW f \in Seq(Bytes), ZeroHeader(f), NEW a
  PROVE  Written(f, a)
<1>1. PICK n \in 0 .. SIZEOF_TABLE : n = 0
  BY WordSizes
<1>2. \A o \in 1 .. SIZEOF_TABLE : ~(o <= n)
  BY <1>1
<1>3. HeaderUpTo(f, a, n)
  BY <1>2 DEF HeaderUpTo, ZeroHeader
<1> QED  BY <1>1, <1>3 DEF Written

LEMMA UsableNoFlags ==
  ASSUME TypeOK, Usable PROVE flags = {}
  BY DEF TypeOK, Usable

LEMMA BufferedOutput ==
  ASSUME TypeOK PROVE Buffered \in Output /\ Joined(Buffered) = buf
<1>1. buf \in Seq(Bytes) /\ Len(buf) <= WRITE_BUF_SIZE /\ <<>> \in Seq(Bytes)
  BY DEF TypeOK
<1>2. Buffered = [out |-> <<>>, buf |-> buf]
  BY DEF Buffered
<1>3. <<>> \o buf = buf
  BY <1>1, Concat
<1> QED  BY <1>1, <1>2, <1>3, OutputOf

(* What a successful write leaves. *)
Wrote(bytes) ==
  /\ file' \in Seq(Bytes) /\ position' \in Nat
  /\ buf' \in Seq(Bytes) /\ Len(buf') <= WRITE_BUF_SIZE
  /\ PlacedAt(file', position') /\ ZeroHeader(file')
  /\ Body(file') \o buf' = (Body(file) \o buf) \o bytes

LEMMA WriteKeeps ==
  ASSUME TypeOK, PlacedAt(file, position), ZeroHeader(file),
         NEW bytes \in Seq(Bytes), NEW o, Puts(Buffered, bytes, o), Write(o)
  PROVE  Wrote(bytes)
<1>1. o \in Output /\ Joined(o) = Joined(Buffered) \o bytes
  BY DEF Puts
<1>2. PICK out \in Seq(Bytes), rest \in Seq(Bytes) : out = o.out /\ rest = o.buf
  BY <1>1, OutputFields
<1>3. Len(rest) <= WRITE_BUF_SIZE /\ out \o rest = buf \o bytes
  BY <1>1, <1>2, OutputFields, BufferedOutput DEF Joined
<1>4. file \in Seq(Bytes) /\ position \in Nat /\ buf \in Seq(Bytes)
  BY DEF TypeOK
<1>5. file' = WriteAt(file, position, out) /\ position' = position + Len(out) /\ buf' = rest
  BY <1>2 DEF Write
<1>6. /\ file' \in Seq(Bytes) /\ PlacedAt(file', position') /\ ZeroHeader(file')
      /\ Body(file') = Body(file) \o out
  BY <1>2, <1>4, <1>5, WriteBehind DEF Appends
<1>7. position' \in Nat
  BY <1>6 DEF PlacedAt
<1>8. Body(file) \in Seq(Bytes)
  BY <1>4, BodyOf
<1>9. (Body(file) \o out) \o rest = Body(file) \o (out \o rest)
  BY <1>2, <1>8, ConcatAssoc
<1>10. Body(file) \o (buf \o bytes) = (Body(file) \o buf) \o bytes
  BY <1>4, <1>8, ConcatAssoc
<1> QED  BY <1>2, <1>3, <1>5, <1>6, <1>7, <1>9, <1>10 DEF Wrote

(* What a failed write leaves. *)
Failed ==
  /\ file' \in Seq(Bytes) /\ position' \in Nat /\ buf' = <<>>
  /\ ZeroHeader(file')
  /\ Fail

LEMMA WriteFailsKeeps ==
  ASSUME TypeOK, PlacedAt(file, position), ZeroHeader(file),
         NEW o \in Output, WriteFails(o)
  PROVE  Failed
<1>1. PICK out \in Seq(Bytes) : out = o.out
  BY OutputFields
<1>2. PICK n \in 0 .. Len(out) - 1 :
        file' = WriteAt(file, position, SubSeq(out, 1, n)) /\ position' = position + n
  BY <1>1 DEF WriteFails
<1>3. SubSeq(out, 1, n) \in Seq(Bytes) /\ n \in Nat
  BY <1>1, <1>2
<1>4. file \in Seq(Bytes) /\ position \in Nat
  BY DEF TypeOK
<1>5. file' \in Seq(Bytes) /\ ZeroHeader(file')
  BY <1>2, <1>3, <1>4, WriteBehind
<1>6. position' \in Nat
  BY <1>2, <1>3, <1>4
<1> QED  BY <1>5, <1>6 DEF Failed, WriteFails

(* A call that ends with an error, before the header is written. *)
LEMMA FailKeeps ==
  ASSUME ImageInv, flags = {}, Fail,
         file' \in Seq(Bytes), position' \in Nat,
         buf' \in Seq(Bytes), Len(buf') <= WRITE_BUF_SIZE,
         offset' \in Words, size' \in Words, ZeroHeader(file'),
         UNCHANGED <<slot_counts, slot_lists, slot_list_index, record, start,
                     sorted, bucket, table, result, added>>
  PROVE  ImageInv'
<1>1. flags' = {"ERROR"} /\ pc' = "idle"
  BY DEF Fail
<1>2. TypeOK'
  BY <1>1 DEF ImageInv, TypeOK
<1>3. SlotsKept'
  BY DEF ImageInv, SlotsKept
<1>4. FlagsKept' /\ DiskKept' /\ AddKept' /\ CommitKept' /\ CommittedKept'
  BY <1>1 DEF FlagsKept, DiskKept, AddKept, CommitKept, CommittedKept
<1>5. HeaderKept'
  BY NoHeaderYet DEF HeaderKept
<1> QED  BY <1>2, <1>3, <1>4, <1>5 DEF ImageInv

LEMMA GrowInWords ==
  ASSUME TypeOK, NEW len \in Nat, Grow(len)
  PROVE  offset' \in Words /\ size' \in Words
<1>1. offset \in Int /\ size \in Int
  BY WordSizes DEF TypeOK, Words
<1>2. offset + len \in Int /\ size + len \in Int
  BY <1>1
<1> QED  BY <1>2, U32InWords DEF Grow

(* Where the next record starts is what offset says. *)
LEMMA OffsetIsEnd ==
  ASSUME ImageInv, SpaceInv, flags = {}, pc = "idle"
  PROVE  offset = RecordsEnd(added)
<1>1. TypeOK /\ DiskKept
  BY DEF ImageInv
<1>2. /\ PlacedAt(file, position) /\ Body(file) \o buf = Encoded(added) \o <<>>
  BY <1>1 DEF DiskKept, Produced
<1>3. /\ position \in Nat /\ buf \in Seq(Bytes) /\ added \in Seq(Record) /\ file \in Seq(Bytes)
  BY <1>1 DEF TypeOK
<1>4. offset = U32(Produces) /\ Produces <= MAX_OFF /\ Produces \in Nat
  BY <1>3, NeedsLength DEF SpaceInv, AddSteps
<1>5. offset = position + Len(buf)
  BY <1>4, WordSizes DEF U32, Produces
<1>6. PICK e \in Seq(Bytes) : e = Encoded(added)
  BY <1>3, EncodedType
<1>7. PICK body \in Seq(Bytes) : body = Body(file)
  BY <1>3, BodyOf
<1>8. Len(body) = position - SIZEOF_TABLE
  BY <1>2, <1>3, <1>7, PlacedBody
<1>9. body \o buf = e
  <2>1. e \o <<>> = e
    BY Concat
  <2> QED  BY <1>2, <1>6, <1>7, <2>1
<1>10. Len(e) = Len(body) + Len(buf)
  BY <1>3, <1>9, Concat
<1> QED  BY <1>3, <1>5, <1>6, <1>8, <1>10, WordSizes DEF RecordsEnd

(* The steps of add() that write. *)
LEMMA LengthsKeepImage ==
  ASSUME ImageInv, SpaceInv, NEW r \in Record, AddLengths(r)
  PROVE  ImageInv'
<1> DEFINE bytes == PackDLength(r.key, r.value)
           o == PutWords(Buffered, bytes)
<1>1. /\ TypeOK /\ SlotsKept /\ DiskKept /\ pc = "idle" /\ flags = {}
  BY UsableNoFlags DEF AddLengths, ImageInv
<1>2. /\ PlacedAt(file, position) /\ ZeroHeader(file)
      /\ Body(file) \o buf = Encoded(added) \o <<>>
  BY <1>1 DEF DiskKept, Produced
<1>3. bytes \in Seq(Bytes) /\ Len(bytes) <= WRITE_BUF_SIZE
  BY PackDLengthBytes, MakerAssumption
<1>4. added \in Seq(Record) /\ buf \in Seq(Bytes) /\ file \in Seq(Bytes)
  BY <1>1 DEF TypeOK
<1>5. UNCHANGED <<slot_counts, slot_lists, slot_list_index, sorted, bucket, table,
                  result, added>>
  BY DEF AddLengths, commitVars
<1> HIDE DEF bytes
<1>6. Puts(Buffered, bytes, o)
  BY <1>1, <1>3, BufferedOutput, PutWordsKeeps
<1> HIDE DEF o
<1>7. CASE WriteFails(o) /\ UNCHANGED <<offset, size, addVars>>
  <2>1. Failed
    BY <1>1, <1>2, <1>6, <1>7, WriteFailsKeeps DEF Puts
  <2>2. <<>> \in Seq(Bytes) /\ Len(<<>>) <= WRITE_BUF_SIZE
    BY MakerAssumption, WordSizes
  <2> QED
    BY <1>1, <1>5, <1>7, <2>1, <2>2, FailKeeps DEF Failed, addVars, TypeOK
<1>8. CASE /\ Write(o) /\ Grow(SIZEOF_DLENGTH) /\ pc' = "key" /\ record' = r
           /\ start' = offset /\ flags' = flags
  <2>1. Wrote(bytes)
    BY <1>1, <1>2, <1>3, <1>6, <1>8, WriteKeeps
  <2>2. offset' \in Words /\ size' \in Words
    BY <1>1, <1>8, GrowInWords, WordSizes
  <2>3. TypeOK'
    BY <1>1, <1>5, <1>8, <2>1, <2>2 DEF TypeOK, Wrote
  <2>4. SlotsKept'
    BY <1>1, <1>5 DEF SlotsKept
  <2>5. FlagsKept' /\ CommitKept' /\ CommittedKept'
    BY <1>1, <1>8 DEF FlagsKept, CommitKept, CommittedKept
  <2>6. DiskKept'
    <3>1. Produced' = Encoded(added) \o bytes
      BY <1>5, <1>8 DEF Produced, bytes
    <3>2. Encoded(added) \o <<>> = Encoded(added)
      BY <1>4, EncodedType, Concat
    <3>3. Body(file') \o buf' = Encoded(added) \o bytes
      BY <1>2, <2>1, <3>2 DEF Wrote
    <3> QED  BY <2>1, <3>1, <3>3 DEF DiskKept, Wrote
  <2>7. AddKept'
    BY <1>1, <1>5, <1>8, OffsetIsEnd DEF AddKept
  <2>8. HeaderKept'
    BY <2>1, NoHeaderYet DEF HeaderKept, Wrote
  <2> QED  BY <2>3, <2>4, <2>5, <2>6, <2>7, <2>8 DEF ImageInv
<1> QED  BY <1>7, <1>8 DEF AddLengths, o, bytes

(* The key or the value, after what came before it. *)
LEMMA StringKeepsImage ==
  ASSUME ImageInv, flags = {}, pc \in {"key", "value"},
         NEW string \in Seq(Bytes), NEW next \in {"value", "slot"},
         AddString(string, next),
         NEW before \in Seq(Bytes), Produced = Encoded(added) \o before,
         pc' = next => Produced' = Encoded(added) \o (before \o string)
  PROVE  ImageInv'
<1> DEFINE o == PutString(Buffered, string)
<1>1. /\ TypeOK /\ SlotsKept /\ DiskKept /\ AddKept
  BY DEF ImageInv
<1>2. /\ PlacedAt(file, position) /\ ZeroHeader(file)
      /\ Body(file) \o buf = Encoded(added) \o before
  BY <1>1 DEF DiskKept
<1>4. added \in Seq(Record) /\ buf \in Seq(Bytes) /\ file \in Seq(Bytes)
  BY <1>1 DEF TypeOK
<1>5. UNCHANGED <<slot_counts, slot_lists, slot_list_index, record, start,
                  sorted, bucket, table, result, added>>
  BY DEF AddString, addVars, commitVars
<1>6. Puts(Buffered, string, o)
  BY <1>1, BufferedOutput, PutStringKeeps
<1>7. offset' \in Words /\ size' \in Words
  <2>1. Len(string) \in Nat /\ Grow(Len(string))
    BY DEF AddString
  <2> QED  BY <1>1, <2>1, GrowInWords
<1> HIDE DEF o
<1>8. CASE WriteFails(o)
  <2>1. Failed
    BY <1>1, <1>2, <1>6, <1>8, WriteFailsKeeps DEF Puts
  <2>2. <<>> \in Seq(Bytes) /\ Len(<<>>) <= WRITE_BUF_SIZE
    BY MakerAssumption, WordSizes
  <2> QED
    BY <1>5, <1>7, <2>1, <2>2, FailKeeps DEF Failed
<1>9. CASE Write(o) /\ pc' = next /\ flags' = flags
  <2>1. Wrote(string)
    BY <1>1, <1>2, <1>6, <1>9, WriteKeeps
  <2>3. TypeOK'
    BY <1>1, <1>5, <1>7, <1>9, <2>1 DEF TypeOK, Wrote
  <2>4. SlotsKept'
    BY <1>1, <1>5 DEF SlotsKept
  <2>5. FlagsKept' /\ CommitKept' /\ CommittedKept' /\ AddKept'
    BY <1>1, <1>5, <1>9 DEF FlagsKept, CommitKept, CommittedKept, AddKept
  <2>6. DiskKept'
    <3>1. (Encoded(added) \o before) \o string = Encoded(added) \o (before \o string)
      BY <1>4, EncodedType, ConcatAssoc
    <3>2. Body(file') \o buf' = Encoded(added) \o (before \o string)
      BY <1>2, <2>1, <3>1 DEF Wrote
    <3> QED  BY <1>9, <2>1, <3>2 DEF DiskKept, Wrote
  <2>8. HeaderKept'
    BY <2>1, NoHeaderYet DEF HeaderKept, Wrote
  <2> QED  BY <2>3, <2>4, <2>5, <2>6, <2>8 DEF ImageInv
<1> QED  BY <1>8, <1>9 DEF AddString, o

LEMMA AddStringsKeepImage ==
  ASSUME ImageInv, AddKey \/ AddValue
  PROVE  ImageInv'
<1>1. flags = {} /\ pc \in {"key", "value"} /\ record \in Record
  BY DEF ImageInv, FlagsKept, AddKept, AddKey, AddValue
<1>2. record.key \in Seq(Bytes) /\ record.value \in Seq(Bytes)
  BY <1>1, FormatAssumption DEF Record
<1>3. PICK lengths \in Seq(Bytes) : lengths = PackDLength(record.key, record.value)
  BY <1>1, PackDLengthBytes
<1>4. CASE AddKey
  <2>1. pc = "key" /\ AddString(record.key, "value") /\ UNCHANGED <<record, added>>
    BY <1>4 DEF AddKey, AddString, addVars
  <2>2. Produced = Encoded(added) \o lengths
    BY <1>3, <2>1 DEF Produced
  <2>3. pc' = "value" => Produced' = Encoded(added) \o (lengths \o record.key)
    BY <1>3, <2>1 DEF Produced
  <2> QED  BY <1>1, <1>2, <2>1, <2>2, <2>3, StringKeepsImage
<1>5. CASE AddValue
  <2>1. pc = "value" /\ AddString(record.value, "slot") /\ UNCHANGED <<record, added>>
    BY <1>5 DEF AddValue, AddString, addVars
  <2>2. lengths \o record.key \in Seq(Bytes)
    BY <1>2, Concat
  <2>3. Produced = Encoded(added) \o (lengths \o record.key)
    BY <1>3, <2>1 DEF Produced
  <2>4. pc' = "slot" => Produced' = Encoded(added) \o ((lengths \o record.key) \o record.value)
    BY <1>3, <2>1 DEF Produced, Encode
  <2> QED  BY <1>1, <1>2, <2>1, <2>2, <2>3, <2>4, StringKeepsImage
<1> QED  BY <1>4, <1>5

(* A used entry of a chunk belongs to a record. *)
LEMMA EntryIndex ==
  ASSUME NEW a \in Seq(Record), NEW lists, NEW x, Filled(lists, x, a),
         NEW c \in 1 .. Len(lists), NEW k \in Nat, k < Used(lists, x, c)
  PROVE  (c - 1) * SLOT_LIST_SIZE + k + 1 \in 1 .. Len(a)
<1>1. lists \in Seq(Chunk) /\ x \in 0 .. SLOT_LIST_SIZE /\ SLOT_LIST_SIZE \in Nat
  BY MakerAssumption DEF Filled
<1>2. PICK l \in Nat : l = Len(lists)
  BY <1>1
<1>3. PICK n \in Nat : n = Len(a)
  OBVIOUS
<1>4. lists # <<>>
  BY <1>2
<1>5. n = (l - 1) * SLOT_LIST_SIZE + x
  BY <1>2, <1>3, <1>4 DEF Filled, Counts
<1>6. PICK y \in Nat : y = (c - 1) * SLOT_LIST_SIZE
  <2>1. \A m, s \in Nat : m * s \in Nat
    OBVIOUS
  <2>2. c - 1 \in Nat
    BY <1>2
  <2> QED  BY <1>1, <2>1, <2>2
<1>7. CASE c = l
  <2>1. k < x
    BY <1>2, <1>7 DEF Used
  <2> QED  BY <1>1, <1>3, <1>5, <1>6, <1>7, <2>1
<1>8. CASE c # l
  <2>1. k < SLOT_LIST_SIZE
    BY <1>2, <1>8 DEF Used
  <2>2. PICK d \in Nat : l - 1 = (c - 1) + 1 + d
    <3>1. c < l /\ c \in Nat
      BY <1>2, <1>8
    <3>2. l - 1 - c \in Nat /\ l - 1 = (c - 1) + 1 + (l - 1 - c)
      BY <3>1
    <3> QED  BY <3>2
  <2>3. \A m, e, s \in Nat : (m + 1 + e) * s = m * s + s + e * s /\ e * s \in Nat
    OBVIOUS
  <2>4. c - 1 \in Nat
    BY <1>2
  <2>5. PICK z \in Nat : z = d * SLOT_LIST_SIZE
    BY <1>1, <2>3
  <2>6. (l - 1) * SLOT_LIST_SIZE = y + SLOT_LIST_SIZE + z
    BY <1>1, <1>6, <2>2, <2>3, <2>4, <2>5
  <2> QED  BY <1>1, <1>3, <1>5, <1>6, <2>1, <2>5, <2>6
<1> QED  BY <1>7, <1>8

(* The next entry of the newest chunk. *)
LEMMA EntryKeeps ==
  ASSUME NEW a \in Seq(Record), NEW r \in Record, NEW lists, NEW x,
         Filled(lists, x, a), lists # <<>>, x # SLOT_LIST_SIZE,
         NEW slot \in Slot, slot = SlotOf(Append(a, r), Len(a) + 1)
  PROVE  Filled([lists EXCEPT ![Len(lists)][x] = slot], x + 1, Append(a, r))
<1>1. lists \in Seq(Chunk) /\ x \in 0 .. SLOT_LIST_SIZE /\ SLOT_LIST_SIZE \in Nat
  BY MakerAssumption DEF Filled
<1>2. PICK l \in Nat : l = Len(lists) /\ l \in 1 .. Len(lists)
  BY <1>1
<1>3. PICK n \in Nat : n = Len(a)
  OBVIOUS
<1>4. n = (l - 1) * SLOT_LIST_SIZE + x
  BY <1>2, <1>3 DEF Filled, Counts
<1>5. PICK chunk : chunk = [lists[l] EXCEPT ![x] = slot]
  OBVIOUS
<1>6. lists[l] \in Chunk /\ x \in 0 .. SLOT_LIST_SIZE - 1
  BY <1>1, <1>2
<1>7. /\ chunk \in Chunk /\ chunk[x] = slot
      /\ \A k \in 0 .. SLOT_LIST_SIZE - 1 : k # x => chunk[k] = lists[l][k]
  BY <1>5, <1>6 DEF Chunk
<1>8. PICK new : new = [lists EXCEPT ![l] = chunk]
  OBVIOUS
<1>9. [lists EXCEPT ![Len(lists)][x] = slot] = new
  BY <1>2, <1>5, <1>8
<1>10. /\ new \in Seq(Chunk) /\ Len(new) = l /\ new[l] = chunk
       /\ \A c \in 1 .. l : c # l => new[c] = lists[c]
  BY <1>1, <1>2, <1>7, <1>8
<1>11. Append(a, r) \in Seq(Record) /\ Len(Append(a, r)) = n + 1
  BY <1>3
<1>12. Counts(new, x + 1, Append(a, r))
  <2>1. new # <<>>
    BY <1>2, <1>10
  <2>2. PICK y \in Int : y = (l - 1) * SLOT_LIST_SIZE
    BY <1>1
  <2>3. n + 1 = y + (x + 1) /\ x + 1 >= 1
    BY <1>1, <1>4, <2>2
  <2> QED  BY <1>10, <1>11, <2>1, <2>2, <2>3 DEF Counts
<1>13. ASSUME NEW c \in 1 .. l, NEW k \in 0 .. SLOT_LIST_SIZE - 1,
              k < Used(new, x + 1, c)
       PROVE  new[c][k] = SlotOf(Append(a, r), (c - 1) * SLOT_LIST_SIZE + k + 1)
  <2>1. CASE c = l /\ k = x
    <3>1. (c - 1) * SLOT_LIST_SIZE + k + 1 = Len(a) + 1
      BY <1>3, <1>4, <2>1
    <3> QED  BY <1>7, <1>10, <2>1, <3>1
  <2>2. CASE ~(c = l /\ k = x)
    <3>1. k < Used(lists, x, c)
      BY <1>1, <1>2, <1>10, <1>13, <2>2 DEF Used
    <3>2. lists[c][k] = SlotOf(a, (c - 1) * SLOT_LIST_SIZE + k + 1)
      BY <1>2, <3>1 DEF Filled
    <3>3. k \in Nat /\ c \in 1 .. Len(lists)
      BY <1>1, <1>2
    <3>4. (c - 1) * SLOT_LIST_SIZE + k + 1 \in 1 .. Len(a)
      BY <3>1, <3>3, EntryIndex
    <3>5. SlotOf(Append(a, r), (c - 1) * SLOT_LIST_SIZE + k + 1)
            = SlotOf(a, (c - 1) * SLOT_LIST_SIZE + k + 1)
      BY <3>4, SlotOfAppend
    <3>6. new[c][k] = lists[c][k]
      <4>1. CASE c = l
        BY <1>7, <1>10, <2>2, <4>1
      <4>2. CASE c # l
        BY <1>10, <4>2
      <4> QED  BY <4>1, <4>2
    <3> QED  BY <3>2, <3>5, <3>6
  <2> QED  BY <2>1, <2>2
<1>14. x + 1 \in 0 .. SLOT_LIST_SIZE
  BY <1>1
<1> QED  BY <1>9, <1>10, <1>12, <1>13, <1>14 DEF Filled

Replaced(t, X, s, m, x) ==
  /\ t \in Seq(X) /\ Len(t) = Len(s) /\ t[m] = x
  /\ \A c \in 1 .. Len(s) : c # m => t[c] = s[c]

LEMMA EntryReplaced ==
  ASSUME NEW X, NEW s \in Seq(X), NEW m \in 1 .. Len(s), NEW x \in X
  PROVE  Replaced([s EXCEPT ![m] = x], X, s, m, x)
  BY DEF Replaced

(* The first entry of a new chunk. *)
LEMMA NewChunkKeeps ==
  ASSUME NEW a \in Seq(Record), NEW r \in Record, NEW lists, NEW x,
         Filled(lists, x, a), lists = <<>> \/ x = SLOT_LIST_SIZE,
         NEW fresh \in Chunk, NEW grown, grown = Append(lists, fresh),
         NEW slot \in Slot, slot = SlotOf(Append(a, r), Len(a) + 1)
  PROVE  Filled([grown EXCEPT ![Len(grown)][0] = slot], 0 + 1, Append(a, r))
<1>1. /\ lists \in Seq(Chunk) /\ x \in 0 .. SLOT_LIST_SIZE
      /\ SLOT_LIST_SIZE \in Nat /\ SLOT_LIST_SIZE >= 1
  BY MakerAssumption DEF Filled
<1>2. PICK l \in Nat : l = Len(lists)
  BY <1>1
<1>3. PICK n \in Nat : n = Len(a)
  OBVIOUS
<1>4. n = l * SLOT_LIST_SIZE
  <2>1. CASE lists = <<>>
    <3>1. n = 0 /\ l = 0
      BY <1>2, <1>3, <2>1 DEF Filled, Counts
    <3> QED  BY <1>1, <3>1
  <2>2. CASE lists # <<>>
    <3>1. n = (l - 1) * SLOT_LIST_SIZE + SLOT_LIST_SIZE
      BY <1>2, <1>3, <2>2 DEF Filled, Counts
    <3>2. \A m \in Nat, s \in Nat : (m - 1) * s + s = m * s
      OBVIOUS
    <3> QED  BY <1>1, <3>1, <3>2
  <2> QED  BY <2>1, <2>2
<1>5. PICK chunk : chunk = [fresh EXCEPT ![0] = slot]
  OBVIOUS
<1>6. chunk \in Chunk /\ chunk[0] = slot
  BY <1>1, <1>5 DEF Chunk
<1>7. /\ grown \in Seq(Chunk) /\ Len(grown) = l + 1 /\ grown[l + 1] = fresh
      /\ \A c \in 1 .. l : grown[c] = lists[c]
  BY <1>1, <1>2
<1>8. PICK new : new = [grown EXCEPT ![l + 1] = chunk]
  OBVIOUS
<1>9. [grown EXCEPT ![Len(grown)][0] = slot] = new
  BY <1>5, <1>7, <1>8
<1>10. /\ new \in Seq(Chunk) /\ Len(new) = l + 1 /\ new[l + 1] = chunk
       /\ \A c \in 1 .. l : new[c] = lists[c]
  <2>1. PICK m \in Nat : m = l + 1
    OBVIOUS
  <2>2. new = [grown EXCEPT ![m] = chunk] /\ Len(grown) = m /\ m \in 1 .. Len(grown)
    BY <1>7, <1>8, <2>1
  <2>3. /\ new \in Seq(Chunk) /\ Len(new) = m /\ new[m] = chunk
        /\ \A c \in 1 .. m : c # m => new[c] = grown[c]
    <3>1. grown \in Seq(Chunk) /\ m \in 1 .. Len(grown) /\ chunk \in Chunk
      BY <1>6, <1>7, <2>2
    <3>2. Replaced([grown EXCEPT ![m] = chunk], Chunk, grown, m, chunk)
      BY <3>1, EntryReplaced, Zenon
    <3>3. Replaced(new, Chunk, grown, m, chunk)
      BY <2>2, <3>2, Zenon
    <3> QED  BY <2>2, <3>3 DEF Replaced
  <2>4. \A c \in 1 .. l : c \in 1 .. m /\ c # m
    BY <2>1
  <2> QED  BY <1>7, <2>1, <2>3, <2>4
<1>11. Append(a, r) \in Seq(Record) /\ Len(Append(a, r)) = n + 1
  BY <1>3
<1>12. Counts(new, 0 + 1, Append(a, r))
  <2>1. new # <<>>
    BY <1>10
  <2>2. (l + 1) - 1 = l /\ 0 + 1 >= 1
    OBVIOUS
  <2>3. Len(new) - 1 = l
    BY <1>10, <2>2
  <2>4. PICK y \in Int : y = l * SLOT_LIST_SIZE
    BY <1>1
  <2>5. n + 1 = y + (0 + 1)
    BY <1>4, <2>4
  <2> QED  BY <1>11, <2>1, <2>2, <2>3, <2>4, <2>5 DEF Counts
<1>13. ASSUME NEW c \in 1 .. l + 1, NEW k \in 0 .. SLOT_LIST_SIZE - 1,
              k < Used(new, 0 + 1, c)
       PROVE  new[c][k] = SlotOf(Append(a, r), (c - 1) * SLOT_LIST_SIZE + k + 1)
  <2>1. CASE c = l + 1
    <3>1. k = 0
      BY <1>10, <1>13, <2>1 DEF Used
    <3>2. c - 1 = l
      BY <2>1
    <3>3. PICK y \in Int : y = l * SLOT_LIST_SIZE
      BY <1>1
    <3>4. y + k + 1 = Len(a) + 1
      BY <1>3, <1>4, <3>1, <3>3
    <3> QED  BY <1>6, <1>10, <2>1, <3>1, <3>2, <3>3, <3>4
  <2>2. CASE c # l + 1
    <3>0. c \in 1 .. Len(lists) /\ c \in 1 .. l
      BY <1>2, <2>2
    <3>1. k < Used(lists, x, c)
      <4>1. lists # <<>>
        BY <3>0
      <4>2. Used(lists, x, c) = SLOT_LIST_SIZE
        BY <4>1 DEF Used
      <4> QED  BY <1>1, <4>2
    <3>2. lists[c][k] = SlotOf(a, (c - 1) * SLOT_LIST_SIZE + k + 1)
      BY <3>0, <3>1 DEF Filled
    <3>3. k \in Nat
      BY <1>1
    <3>4. (c - 1) * SLOT_LIST_SIZE + k + 1 \in 1 .. Len(a)
      BY <3>0, <3>1, <3>3, EntryIndex
    <3>5. SlotOf(Append(a, r), (c - 1) * SLOT_LIST_SIZE + k + 1)
            = SlotOf(a, (c - 1) * SLOT_LIST_SIZE + k + 1)
      BY <3>4, SlotOfAppend
    <3>6. new[c][k] = lists[c][k]
      BY <1>10, <3>0
    <3> QED  BY <3>2, <3>5, <3>6
  <2> QED  BY <2>1, <2>2
<1>14. 0 + 1 \in 0 .. SLOT_LIST_SIZE
  BY <1>1
<1> QED  BY <1>9, <1>10, <1>12, <1>13, <1>14 DEF Filled

(* The slot is remembered and counted in one step. *)
LEMMA SlotKeepsSlots ==
  ASSUME TypeOK, SlotsKept, AddKept, AddSlot
  PROVE  SlotsKept' /\ slot_counts' \in [Buckets -> Nat]
<1>1. PICK a \in Seq(Record) : a = added
  BY DEF TypeOK
<1>2. PICK r \in Record : r = record
  BY DEF AddKept, AddSlot
<1>3. PICK b \in Buckets : b = Bucket(Hash[r.key])
  BY HashBucket
<1>4. start = RecordsEnd(a) /\ start \in Words /\ added' = Append(a, r)
  BY <1>1, <1>2 DEF AddKept, AddSlot, TypeOK
<1>5. PICK slot : slot = [hash |-> Hash[r.key], offset |-> start]
  OBVIOUS
<1>6. slot \in Slot
  BY <1>4, <1>5, FormatAssumption DEF Slot, Record
<1>7. slot = SlotOf(Append(a, r), Len(a) + 1)
  BY <1>4, <1>5, SlotOfAppend DEF RecordsEnd
<1>8. PICK lists, x : lists = slot_lists /\ x = slot_list_index
  OBVIOUS
<1>9. Filled(lists, x, a)
  BY <1>1, <1>8 DEF SlotsKept
<1>10. RememberSlot(Hash[r.key])
  BY <1>2 DEF AddSlot
<1>11. Filled(slot_lists', slot_list_index', Append(a, r))
  <2>1. CASE lists = <<>> \/ x = SLOT_LIST_SIZE
    <3>1. PICK fresh : fresh = [n \in 0 .. SLOT_LIST_SIZE - 1 |-> FreeSlot]
      OBVIOUS
    <3>2. fresh \in Chunk
      <4>1. FreeSlot \in Slot
        BY WordSizes DEF FreeSlot, Slot, Words
      <4> QED  BY <3>1, <4>1 DEF Chunk
    <3>3. PICK grown : grown = Append(lists, fresh)
      OBVIOUS
    <3>4. /\ slot_lists' = [grown EXCEPT ![Len(grown)][0] = slot]
          /\ slot_list_index' = 0 + 1
      BY <1>5, <1>8, <1>10, <2>1, <3>1, <3>3 DEF RememberSlot
    <3>5. Filled([grown EXCEPT ![Len(grown)][0] = slot], 0 + 1, Append(a, r))
      BY <1>6, <1>7, <1>9, <2>1, <3>2, <3>3, NewChunkKeeps
    <3> QED  BY <3>4, <3>5
  <2>2. CASE ~(lists = <<>> \/ x = SLOT_LIST_SIZE)
    <3>1. /\ slot_lists' = [lists EXCEPT ![Len(lists)][x] = slot]
          /\ slot_list_index' = x + 1
      BY <1>5, <1>8, <1>10, <2>2 DEF RememberSlot
    <3>2. Filled([lists EXCEPT ![Len(lists)][x] = slot], x + 1, Append(a, r))
      BY <1>6, <1>7, <1>9, <2>2, EntryKeeps
    <3> QED  BY <3>1, <3>2
  <2> QED  BY <2>1, <2>2
<1>12. slot_counts' = [slot_counts EXCEPT ![b] = slot_counts[b] + 1]
  BY <1>3, <1>10 DEF RememberSlot
<1>13. slot_counts \in [Buckets -> Nat]
  BY DEF TypeOK
<1>14. ASSUME NEW c \in Buckets
       PROVE  slot_counts'[c] = Len(BucketOf(Append(a, r), c))
  <2>1. slot_counts[c] = Len(BucketOf(a, c))
    BY <1>1 DEF SlotsKept
  <2>2. CASE c = b
    BY <1>3, <1>12, <1>13, <2>1, <2>2, CountAppend
  <2>3. CASE c # b
    <3>1. BucketOf(Append(a, r), c) = BucketOf(a, c)
      BY <1>3, <2>3, CountAppend
    <3> QED  BY <1>12, <1>13, <2>1, <2>3, <3>1
  <2> QED  BY <2>2, <2>3
<1> QED  BY <1>4, <1>11, <1>12, <1>13, <1>14 DEF SlotsKept

LEMMA SlotKeepsImage ==
  ASSUME ImageInv, AddSlot
  PROVE  ImageInv'
<1>1. /\ TypeOK /\ SlotsKept /\ AddKept /\ DiskKept /\ pc = "slot" /\ flags = {}
      /\ record \in Record
  BY DEF ImageInv, AddSlot, FlagsKept, AddKept
<1>2. /\ pc' = "idle" /\ flags' = flags /\ added' = Append(added, record)
      /\ UNCHANGED <<file, position, buf, offset, record, start, sorted, bucket,
                     table, result>>
  BY DEF AddSlot, diskVars, addVars, commitVars
<1>3. SlotsKept' /\ slot_counts' \in [Buckets -> Nat]
  BY <1>1, SlotKeepsSlots
<1>4. added \in Seq(Record) /\ file \in Seq(Bytes)
  BY <1>1 DEF TypeOK
<1>5. TypeOK'
  <2>1. size' \in Words
    <3>1. size + SIZEOF_SLOT + SIZEOF_SLOT \in Int
      BY <1>1, WordSizes DEF TypeOK, Words
    <3> QED  BY <3>1, U32InWords DEF AddSlot
  <2>2. added' \in Seq(Record)
    BY <1>1, <1>2, <1>4
  <2>3. slot_lists' \in Seq(Chunk) /\ slot_list_index' \in 0 .. SLOT_LIST_SIZE
    BY <1>3 DEF SlotsKept, Filled
  <2> QED  BY <1>1, <1>2, <1>3, <2>1, <2>2, <2>3 DEF TypeOK, Chunk
<1>6. FlagsKept' /\ AddKept' /\ CommitKept' /\ CommittedKept'
  BY <1>1, <1>2 DEF FlagsKept, AddKept, CommitKept, CommittedKept
<1>7. DiskKept'
  <2>1. Produced = Encoded(added) \o Encode(record)
    BY <1>1 DEF Produced
  <2>2. Produced' = Encoded(Append(added, record)) \o <<>>
    BY <1>2 DEF Produced
  <2>3. Encoded(Append(added, record)) = Encoded(added) \o Encode(record)
    BY <1>1, <1>4, EncodedAppend
  <2>4. Encoded(Append(added, record)) \in Seq(Bytes)
    <3>1. Append(added, record) \in Seq(Record)
      BY <1>1, <1>4
    <3> QED  BY <3>1, EncodedType
  <2>5. Produced' = Produced
    BY <2>1, <2>2, <2>3, <2>4, Concat
  <2> QED  BY <1>1, <1>2, <2>5 DEF DiskKept
<1>8. HeaderKept'
  <2>1. ZeroHeader(file)
    BY <1>1 DEF DiskKept
  <2> QED  BY <1>2, <1>4, <2>1, NoHeaderYet DEF HeaderKept
<1> QED  BY <1>3, <1>5, <1>6, <1>7, <1>8 DEF ImageInv

-----------------------------------------------------------------------------
(* The calls that fail without a write. *)
LEMMA RefusalsKeepImage ==
  ASSUME ImageInv, AddOverflows \/ AddNoMemory \/ AddBadArgument \/ CommitNoMemory
  PROVE  ImageInv'
<1>1. /\ TypeOK /\ DiskKept /\ flags = {}
  BY UsableNoFlags DEF ImageInv, FlagsKept, AddOverflows, AddNoMemory, AddBadArgument,
                       CommitNoMemory
<1>2. /\ Fail
      /\ UNCHANGED <<file, position, buf, slot_counts, slot_lists, slot_list_index,
                     offset, record, start, sorted, bucket, table, result, added>>
  BY DEF AddOverflows, AddNoMemory, AddBadArgument, CommitNoMemory, diskVars, makerVars,
         addVars, commitVars
<1>3. size' \in Words
  <2>1. size + SIZEOF_SLOT + SIZEOF_SLOT \in Int
    BY <1>1, WordSizes DEF TypeOK, Words
  <2>2. size' = U32(size + SIZEOF_SLOT + SIZEOF_SLOT) \/ size' = size
    BY DEF AddOverflows, AddNoMemory, AddBadArgument, CommitNoMemory, makerVars
  <2> QED  BY <1>1, <2>1, <2>2, U32InWords DEF TypeOK
<1>4. ZeroHeader(file')
  BY <1>1, <1>2 DEF DiskKept
<1> QED  BY <1>1, <1>2, <1>3, <1>4, FailKeeps DEF TypeOK

(* The steps of commit(). *)
LEMMA SortKeepsImage ==
  ASSUME ImageInv, SpaceInv, CommitSort
  PROVE  ImageInv'
<1>1. /\ TypeOK /\ SlotsKept /\ DiskKept /\ pc = "idle" /\ flags = {}
  BY UsableNoFlags DEF CommitSort, ImageInv
<1>2. /\ sorted' = SortSlots /\ bucket' = 0 /\ table' = <<>> /\ pc' = "tables"
      /\ UNCHANGED <<file, position, buf, slot_counts, slot_lists, slot_list_index,
                     offset, size, flags, record, start, result, added>>
  BY DEF CommitSort, diskVars, makerVars, addVars
<1>3. added \in Seq(Record) /\ file \in Seq(Bytes) /\ slot_counts \in [Buckets -> Nat]
  BY <1>1 DEF TypeOK
<1>4. SortSlots \in Seq(Slot) /\ SortSlots = BucketsOf(added, TABLES)
  BY <1>1, <1>3, SortedByBuckets DEF SlotsKept
<1>5. TypeOK'
  <2>1. 0 \in Buckets /\ <<>> \in Seq(Bytes)
    BY FormatAssumption DEF Buckets
  <2> QED  BY <1>1, <1>2, <1>4, <2>1 DEF TypeOK
<1>6. SlotsKept' /\ FlagsKept' /\ AddKept' /\ CommittedKept'
  BY <1>1, <1>2 DEF SlotsKept, FlagsKept, AddKept, CommittedKept
<1>7. CommitKept'
  <2>1. offset = RecordsEnd(added)
    BY <1>1, OffsetIsEnd
  <2>2. Pointers(added, 0) = <<>>
    BY PointersNone
  <2>3. Fits(added)
    BY <1>1, <2>1, SpaceIsReserved DEF SpaceReserved, Fits
  <2> QED  BY <1>2, <1>4, <2>1, <2>2, <2>3 DEF CommitKept
<1>8. DiskKept'
  <2>1. Produced = Encoded(added) \o <<>>
    BY <1>1 DEF Produced
  <2>2. Produced' = Encoded(added) \o SlotTables(added, 0)
    BY <1>2 DEF Produced
  <2>3. Produced' = Produced
    BY <2>1, <2>2, SlotTablesNone
  <2> QED  BY <1>1, <1>2, <2>3 DEF DiskKept
<1>9. HeaderKept'
  <2>1. ZeroHeader(file)
    BY <1>1 DEF DiskKept
  <2> QED  BY <1>2, <1>3, <2>1, NoHeaderYet DEF HeaderKept
<1> QED  BY <1>5, <1>6, <1>7, <1>8, <1>9 DEF ImageInv

LEMMA TableKeepsImage ==
  ASSUME ImageInv, CommitTable
  PROVE  ImageInv'
<1>1. /\ TypeOK /\ SlotsKept /\ DiskKept /\ CommitKept
      /\ pc = "tables" /\ flags = {} /\ bucket \in Buckets
  BY DEF CommitTable, ImageInv, FlagsKept
<1>2. UNCHANGED <<slot_counts, slot_lists, slot_list_index, offset, size, record,
                  start, sorted, result, added>>
  BY DEF CommitTable, makerVars, addVars
<1>3. PICK a \in Seq(Record), b \in Buckets : a = added /\ b = bucket
  BY <1>1 DEF TypeOK
<1>4. b \in Nat /\ b + 1 \in Buckets \union {TABLES}
  BY FormatAssumption DEF Buckets
<1>5. PICK l \in Nat : l = slot_counts[b]
  BY <1>1, <1>3 DEF TypeOK
<1>6. l = Len(BucketOf(a, b))
  BY <1>1, <1>3, <1>5 DEF SlotsKept
<1>7. PICK sp \in Nat : sp = Base(a, b)
  BY <1>4, BaseNext
<1>8. CountUpTo(b) - l = sp
  <2>1. slot_counts \in [Buckets -> Nat]
    BY <1>1 DEF TypeOK
  <2>2. \A c \in Buckets : slot_counts[c] = Len(BucketOf(a, c))
    BY <1>1, <1>3 DEF SlotsKept
  <2>3. CountUpTo(b) = Base(a, b + 1)
    BY <2>1, <2>2, CountIsBase
  <2>4. Base(a, b + 1) = sp + l
    BY <1>4, <1>6, <1>7, BaseNext
  <2> QED  BY <2>3, <2>4
<1>9. SubSeq(sorted, sp + 1, sp + l) = BucketOf(a, b)
  <2>1. sorted = BucketsOf(a, TABLES)
    BY <1>1, <1>3 DEF CommitKept
  <2> QED  BY <1>6, <1>7, <2>1, PartOfBuckets
<1>10. PICK slots : slots = TableSlots(BucketOf(a, b))
  OBVIOUS
<1>11. slots \in Seq(RawSlot) /\ Len(slots) = 2 * l
  <2>1. BucketOf(a, b) \in Seq(RawSlot)
    BY BucketOfType
  <2> QED  BY <1>6, <1>10, <2>1, TableSlotsType
<1>12. PICK o : o = PutSlots(slots)
  OBVIOUS
<1>13. PICK bytes \in Seq(Bytes) : bytes = PackTable(slots) /\ bytes = TableBytes(a, b)
  BY <1>10, TableBytesType DEF TableBytes
<1>14. Puts(Buffered, bytes, o)
  BY <1>1, <1>11, <1>12, <1>13, BufferedOutput, PutSlotsKeeps
<1>15. PICK pointer : pointer = Pack(offset + SIZEOF_SLOT * 2 * sp)
  OBVIOUS
<1>16. PICK length : length = Pack(2 * l)
  OBVIOUS
<1>17. \/ /\ Write(o) /\ table' = table \o pointer \o length /\ bucket' = b + 1
          /\ flags' = flags /\ pc' = pc
       \/ WriteFails(o) /\ bucket' = bucket /\ table' = table
  BY <1>3, <1>5, <1>8, <1>9, <1>10, <1>11, <1>12, <1>15, <1>16 DEF CommitTable
<1>18. /\ PlacedAt(file, position) /\ ZeroHeader(file)
       /\ Body(file) \o buf = Encoded(a) \o SlotTables(a, b)
  BY <1>1, <1>3 DEF DiskKept, Produced
<1>19. offset = RecordsEnd(a)
  BY <1>1, <1>3 DEF CommitKept
<1>20. CASE WriteFails(o) /\ bucket' = bucket /\ table' = table
  <2>1. Failed
    BY <1>1, <1>14, <1>18, <1>20, WriteFailsKeeps DEF Puts
  <2>2. <<>> \in Seq(Bytes) /\ Len(<<>>) <= WRITE_BUF_SIZE
    BY MakerAssumption, WordSizes
  <2> QED
    BY <1>1, <1>2, <1>20, <2>1, <2>2, FailKeeps DEF Failed, TypeOK
<1>21. CASE /\ Write(o) /\ table' = table \o pointer \o length /\ bucket' = b + 1
            /\ flags' = flags /\ pc' = pc
  <2>1. Wrote(bytes)
    BY <1>1, <1>14, <1>18, <1>21, WriteKeeps
  <2>2. table' = Pointers(a, b + 1)
    <3>1. table = Pointers(a, b) /\ table \in Seq(Bytes)
      BY <1>1, <1>3 DEF CommitKept, TypeOK
    <3>2. TablePointer(a, b) = pointer \o length
      BY <1>4, <1>6, <1>7, <1>15, <1>16, <1>19, TablePointerType DEF RecordsEnd
    <3>3. pointer \in Seq(Bytes) /\ length \in Seq(Bytes)
      <4>1. offset \in Nat
        BY <1>1, WordSizes DEF TypeOK, Words
      <4>2. PICK z \in Nat : z = SIZEOF_SLOT * 2 * sp
        <5>1. \A s, p \in Nat : s * 2 * p \in Nat
          OBVIOUS
        <5> QED  BY <5>1, WordSizes
      <4>3. offset + z \in Nat
        BY <4>1, <4>2
      <4>4. 2 * l \in Nat
        OBVIOUS
      <4>5. pointer \in Seq(Bytes)
        BY <1>15, <4>2, <4>3, PackBytes
      <4> QED  BY <1>16, <4>4, <4>5, PackBytes
    <3>4. table \o (pointer \o length) = (table \o pointer) \o length
      BY <3>1, <3>3, ConcatAssoc
    <3>5. Pointers(a, b + 1) = table \o (pointer \o length)
      BY <1>4, <3>1, <3>2, PointersNext
    <3> QED  BY <1>21, <3>4, <3>5
  <2>3. TypeOK'
    <3>1. table' \in Seq(Bytes)
      <4>1. b + 1 \in Nat
        BY <1>4
      <4> QED  BY <2>2, <4>1, PointersType
    <3> QED  BY <1>1, <1>2, <1>4, <1>21, <2>1, <3>1 DEF TypeOK, Wrote
  <2>4. SlotsKept'
    BY <1>1, <1>2 DEF SlotsKept
  <2>5. FlagsKept' /\ AddKept' /\ CommittedKept'
    BY <1>1, <1>2, <1>21 DEF FlagsKept, AddKept, CommittedKept
  <2>6. CommitKept'
    BY <1>1, <1>2, <1>3, <1>21, <2>2 DEF CommitKept
  <2>7. DiskKept'
    <3>1. Produced' = Encoded(a) \o SlotTables(a, b + 1)
      BY <1>1, <1>2, <1>3, <1>21 DEF Produced
    <3>2. SlotTables(a, b + 1) = SlotTables(a, b) \o bytes
      BY <1>4, <1>13, SlotTablesNext
    <3>3. Encoded(a) \o (SlotTables(a, b) \o bytes) = (Encoded(a) \o SlotTables(a, b)) \o bytes
      BY <1>4, EncodedType, SlotTablesType, ConcatAssoc
    <3>4. Body(file') \o buf' = Produced'
      BY <1>18, <2>1, <3>1, <3>2, <3>3 DEF Wrote
    <3> QED  BY <2>1, <3>4 DEF DiskKept, Wrote
  <2>8. HeaderKept'
    BY <2>1, NoHeaderYet DEF HeaderKept, Wrote
  <2> QED  BY <2>3, <2>4, <2>5, <2>6, <2>7, <2>8 DEF ImageInv
<1> QED  BY <1>17, <1>20, <1>21

LEMMA FlushKeepsImage ==
  ASSUME ImageInv, CommitFlush
  PROVE  ImageInv'
<1>1. /\ TypeOK /\ SlotsKept /\ DiskKept /\ CommitKept
      /\ pc = "tables" /\ flags = {} /\ bucket = TABLES
  BY DEF CommitFlush, ImageInv, FlagsKept, TypeOK
<1>2. UNCHANGED <<slot_counts, slot_lists, slot_list_index, offset, size, record,
                  start, sorted, bucket, table, result, added>>
  BY DEF CommitFlush, makerVars, addVars, commitVars
<1>3. added \in Seq(Record) /\ buf \in Seq(Bytes) /\ file \in Seq(Bytes)
  BY <1>1 DEF TypeOK
<1>4. PICK o : o = Flush(Buffered)
  OBVIOUS
<1>5. /\ PlacedAt(file, position) /\ ZeroHeader(file)
      /\ Body(file) \o buf = Encoded(added) \o SlotTables(added, TABLES)
  BY <1>1 DEF DiskKept, Produced
<1>6. <<>> \in Seq(Bytes) /\ Len(<<>>) <= WRITE_BUF_SIZE
  BY MakerAssumption, WordSizes
<1>7. Puts(Buffered, <<>>, o) /\ o.buf = <<>>
  <2>1. o = [out |-> buf, buf |-> <<>>]
    <3>1. o = [out |-> <<>> \o buf, buf |-> <<>>]
      BY <1>4 DEF Flush, Buffered
    <3>2. <<>> \o buf = buf
      BY <1>3, Concat
    <3> QED  BY <3>1, <3>2
  <2>2. o \in Output /\ Joined(o) = buf \o <<>>
    BY <1>3, <1>6, <2>1, OutputOf
  <2> QED  BY <1>1, <2>1, <2>2, BufferedOutput DEF Puts
<1>8. CASE WriteFails(o)
  <2>1. Failed
    BY <1>1, <1>5, <1>7, <1>8, WriteFailsKeeps DEF Puts
  <2> QED
    BY <1>1, <1>2, <1>6, <2>1, FailKeeps DEF Failed, TypeOK
<1>9. CASE Write(o) /\ pc' = "header" /\ flags' = flags
  <2>1. Wrote(<<>>)
    BY <1>1, <1>5, <1>6, <1>7, <1>9, WriteKeeps
  <2>2. TypeOK'
    BY <1>1, <1>2, <1>9, <2>1 DEF TypeOK, Wrote
  <2>3. SlotsKept'
    BY <1>1, <1>2 DEF SlotsKept
  <2>4. FlagsKept' /\ AddKept' /\ CommittedKept'
    BY <1>1, <1>2, <1>9 DEF FlagsKept, AddKept, CommittedKept
  <2>5. CommitKept'
    <3>1. buf' = <<>>
      BY <1>7, <1>9 DEF Write
    <3> QED  BY <1>1, <1>2, <1>9, <3>1 DEF CommitKept
  <2>6. DiskKept'
    <3>1. Produced' = Encoded(added) \o SlotTables(added, TABLES)
      BY <1>2, <1>9 DEF Produced
    <3>2. Body(file) \o buf \in Seq(Bytes)
      BY <1>3, BodyOf, Concat
    <3>3. (Body(file) \o buf) \o <<>> = Body(file) \o buf
      BY <3>2, Concat
    <3>4. Body(file') \o buf' = Produced'
      BY <1>5, <2>1, <3>1, <3>3 DEF Wrote
    <3> QED  BY <2>1, <3>4 DEF DiskKept, Wrote
  <2>7. HeaderKept'
    BY <2>1, NoHeaderYet DEF HeaderKept, Wrote
  <2> QED  BY <2>2, <2>3, <2>4, <2>5, <2>6, <2>7 DEF ImageInv
<1> QED  BY <1>4, <1>8, <1>9 DEF CommitFlush

LEMMA HeaderKeepsImage ==
  ASSUME ImageInv, CommitHeader
  PROVE  ImageInv'
<1>1. /\ TypeOK /\ SlotsKept /\ DiskKept /\ CommitKept /\ pc = "header" /\ flags = {}
  BY DEF CommitHeader, ImageInv, FlagsKept
<1>2. UNCHANGED <<buf, slot_counts, slot_lists, slot_list_index, offset, size, record,
                  start, sorted, bucket, table, result, added>>
  BY DEF CommitHeader, makerVars, addVars, commitVars
<1>3. added \in Seq(Record) /\ file \in Seq(Bytes) /\ table \in Seq(Bytes)
  BY <1>1 DEF TypeOK
<1>4. PICK body \in Seq(Bytes) : body = Body(file)
  BY <1>3, BodyOf
<1>5. body = Encoded(added) \o SlotTables(added, TABLES)
  <2>1. body \o <<>> = Encoded(added) \o SlotTables(added, TABLES)
    BY <1>1, <1>4 DEF DiskKept, CommitKept, Produced
  <2> QED  BY <2>1, Concat
<1>6. PlacedAt(file, position)
  BY <1>1 DEF DiskKept
<1>7. table = Pointers(added, TABLES) /\ Len(table) = SIZEOF_TABLE
  BY <1>1, <1>3, ImageParts DEF CommitKept
<1>8. SlotsKept'
  BY <1>1, <1>2 DEF SlotsKept
<1>9. ASSUME NEW bytes \in Seq(Bytes), NEW n \in 0 .. SIZEOF_TABLE, Len(bytes) = n,
             \A o \in 1 .. n : bytes[o] = table[o], file' = WriteAt(file, 0, bytes)
      PROVE  file' \in Seq(Bytes) /\ HeaderKept'
  <2>1. Len(bytes) <= SIZEOF_TABLE
    BY <1>9, WordSizes
  <2>2. file' \in Seq(Bytes) /\ Body(file') = body /\ Headed(file', bytes)
    BY <1>1, <1>3, <1>4, <1>6, <1>9, <2>1, WriteFront DEF DiskKept
  <2>3. SubSeq(file', SIZEOF_TABLE + 1, Len(file'))
          = Encoded(added) \o SlotTables(added, TABLES)
    BY <1>5, <2>2 DEF Body
  <2>4. \A o \in 1 .. SIZEOF_TABLE : o <= n => o \in 1 .. n
    BY WordSizes
  <2>5. HeaderUpTo(file', added, n)
    BY <1>7, <1>9, <2>2, <2>4 DEF Headed, HeaderUpTo
  <2>6. Fits(added)
    BY <1>1 DEF CommitKept
  <2>7. Written(file', added)
    BY <2>2, <2>3, <2>5, <2>6 DEF Written
  <2> QED  BY <1>2, <2>2, <2>7 DEF HeaderKept
<1>10. CASE /\ file' = WriteAt(file, 0, table) /\ position' = Len(table)
            /\ flags' = flags \union {"COMMITTED"} /\ pc' = "open"
  <2>1. Len(table) <= SIZEOF_TABLE /\ Len(table) \in Nat
    BY <1>7, WordSizes
  <2>2. file' \in Seq(Bytes) /\ HeaderKept'
    <3>1. SIZEOF_TABLE \in 0 .. SIZEOF_TABLE
      BY WordSizes
    <3> QED  BY <1>3, <1>7, <1>9, <1>10, <3>1
  <2>3. file' = Image(added)
    <3>1. file' = table \o body
      BY <1>1, <1>3, <1>4, <1>6, <1>7, <1>10, <2>1, WriteFront DEF DiskKept
    <3> QED  BY <1>3, <1>5, <1>7, <3>1, ImageParts
  <2>4. TypeOK'
    BY <1>1, <1>2, <1>10, <2>1, <2>2 DEF TypeOK
  <2>5. FlagsKept' /\ AddKept' /\ CommitKept' /\ CommittedKept' /\ DiskKept'
    BY <1>1, <1>2, <1>10, <2>3, <1>1 DEF FlagsKept, AddKept, CommitKept, CommittedKept, DiskKept
  <2> QED  BY <1>8, <2>2, <2>4, <2>5 DEF ImageInv
<1>11. CASE /\ \E n \in 0 .. Len(table) - 1 :
                 file' = WriteAt(file, 0, SubSeq(table, 1, n)) /\ position' = n
            /\ Fail
  <2>1. PICK n \in 0 .. Len(table) - 1 :
          file' = WriteAt(file, 0, SubSeq(table, 1, n)) /\ position' = n
    BY <1>11
  <2>2. SubSeq(table, 1, n) \in Seq(Bytes) /\ Len(SubSeq(table, 1, n)) = n /\ n \in Nat
    BY <1>3, <2>1
  <2>3. n \in 0 .. SIZEOF_TABLE /\ \A o \in 1 .. n : SubSeq(table, 1, n)[o] = table[o]
    <3>1. Len(table) \in Nat
      BY <1>3
    <3> QED  BY <1>3, <1>7, <2>1, <3>1
  <2>4. file' \in Seq(Bytes) /\ HeaderKept'
    BY <1>9, <2>1, <2>2, <2>3
  <2>5. flags' = {"ERROR"} /\ pc' = "idle"
    BY <1>1, <1>11 DEF Fail
  <2>6. TypeOK'
    BY <1>1, <1>2, <2>1, <2>2, <2>4, <2>5 DEF TypeOK
  <2>7. FlagsKept' /\ AddKept' /\ CommitKept' /\ CommittedKept' /\ DiskKept'
    BY <2>5 DEF FlagsKept, AddKept, CommitKept, CommittedKept, DiskKept
  <2> QED  BY <1>8, <2>4, <2>6, <2>7 DEF ImageInv
<1> QED  BY <1>10, <1>11 DEF CommitHeader

LEMMA OpenKeepsImage ==
  ASSUME ImageInv, CommitOpen
  PROVE  ImageInv'
<1>1. TypeOK /\ SlotsKept /\ HeaderKept /\ CommittedKept /\ pc = "open" /\ flags = {"COMMITTED"}
  BY DEF CommitOpen, ImageInv, FlagsKept
<1>2. /\ UNCHANGED <<file, position, buf, slot_counts, slot_lists, slot_list_index,
                     offset, size, record, start, sorted, bucket, table, added>>
      /\ pc' = "idle" /\ "COMMITTED" \in flags' /\ flags' \subseteq {"COMMITTED", "CLOSED"}
      /\ result' \in {result, "cdb"}
  BY <1>1 DEF CommitOpen, diskVars, makerVars, addVars, commitVars
<1>3. TypeOK'
  BY <1>1, <1>2 DEF TypeOK
<1>4. SlotsKept' /\ HeaderKept'
  BY <1>1, <1>2 DEF SlotsKept, HeaderKept
<1>5. FlagsKept' /\ AddKept' /\ CommitKept' /\ CommittedKept' /\ DiskKept'
  BY <1>1, <1>2 DEF FlagsKept, AddKept, CommitKept, CommittedKept, DiskKept
<1> QED  BY <1>3, <1>4, <1>5 DEF ImageInv

LEMMA CloseKeepsImage ==
  ASSUME ImageInv, Close
  PROVE  ImageInv'
<1>1. TypeOK /\ SlotsKept /\ HeaderKept /\ CommittedKept /\ pc = "idle"
  BY DEF Close, ImageInv
<1>2. /\ UNCHANGED <<file, position, slot_counts, slot_lists, slot_list_index, pc,
                     offset, size, record, start, sorted, bucket, table, result, added>>
      /\ flags' = flags \union {"CLOSED"} /\ buf' = <<>>
  BY DEF Close, makerVars, addVars, commitVars
<1>3. TypeOK'
  <2>1. <<>> \in Seq(Bytes) /\ Len(<<>>) <= WRITE_BUF_SIZE
    BY MakerAssumption, WordSizes
  <2> QED  BY <1>1, <1>2, <2>1 DEF TypeOK
<1>4. SlotsKept' /\ HeaderKept'
  BY <1>1, <1>2 DEF SlotsKept, HeaderKept
<1>5. FlagsKept' /\ AddKept' /\ CommitKept' /\ CommittedKept' /\ DiskKept'
  BY <1>1, <1>2 DEF FlagsKept, AddKept, CommitKept, CommittedKept, DiskKept
<1> QED  BY <1>3, <1>4, <1>5 DEF ImageInv

-----------------------------------------------------------------------------
(* The invariant holds at the start and is kept by every step. *)
LEMMA ImageInit == Init => ImageInv
<1> SUFFICES ASSUME Init PROVE ImageInv
  OBVIOUS
<1>1. /\ file = <<>> /\ position = SIZEOF_TABLE /\ buf = <<>>
      /\ slot_lists = <<>> /\ slot_list_index = 0 /\ added = <<>> /\ pc = "idle"
      /\ flags = {}
  BY DEF Init
<1>2. <<>> \in Seq(Bytes) /\ <<>> \in Seq(Record) /\ <<>> \in Seq(Chunk)
      /\ <<>> \in Seq(Slot) /\ Len(<<>>) = 0
  OBVIOUS
<1>3. SLOT_LIST_SIZE \in Nat /\ 0 <= WRITE_BUF_SIZE
  BY MakerAssumption, WordSizes
<1>4. TypeOK
  <2>1. SIZEOF_TABLE \in Nat /\ SIZEOF_TABLE \in Words /\ 0 \in Words
    BY WordSizes DEF Words
  <2>2. 0 \in Buckets
    BY FormatAssumption DEF Buckets
  <2>3. slot_counts \in [Buckets -> Nat]
    BY DEF Init
  <2> QED  BY <1>1, <1>2, <1>3, <2>1, <2>2, <2>3 DEF TypeOK, Init, Chunk
<1>5. SlotsKept
  <2>1. Filled(<<>>, 0, <<>>)
    BY <1>2, <1>3 DEF Filled, Counts
  <2>2. \A b \in Buckets : slot_counts[b] = Len(BucketOf(<<>>, b))
    BY <1>2, BucketOfEmpty DEF Init
  <2> QED  BY <1>1, <2>1, <2>2 DEF SlotsKept
<1>6. FlagsKept /\ AddKept /\ CommitKept /\ CommittedKept
  BY <1>1 DEF FlagsKept, AddKept, CommitKept, CommittedKept
<1>7. ZeroHeader(<<>>)
  BY <1>2 DEF ZeroHeader
<1>8. DiskKept
  <2>1. PlacedAt(<<>>, SIZEOF_TABLE)
    BY WordSizes DEF PlacedAt
  <2>2. Body(<<>>) = <<>>
    <3>1. Len(<<>>) <= SIZEOF_TABLE
      BY <1>2, WordSizes
    <3>2. \A f \in Seq(Bytes) : Len(f) <= SIZEOF_TABLE => Body(f) = <<>>
      BY BodyOf
    <3> QED  BY <1>2, <3>1, <3>2
  <2>3. Produced = <<>> \o <<>>
    BY <1>1, EncodedEmpty DEF Produced
  <2> QED  BY <1>1, <1>7, <2>1, <2>2, <2>3 DEF DiskKept
<1>9. HeaderKept
  BY <1>1, <1>2, <1>7, NoHeaderYet DEF HeaderKept
<1> QED  BY <1>4, <1>5, <1>6, <1>8, <1>9 DEF ImageInv

LEMMA ImageNext == ImageInv /\ SpaceInv /\ [Next]_vars => ImageInv'
<1> SUFFICES ASSUME ImageInv, SpaceInv, [Next]_vars PROVE ImageInv'
  OBVIOUS
<1>1. ASSUME NEW r \in Record, AddLengths(r) PROVE ImageInv'
  BY <1>1, LengthsKeepImage
<1>2. CASE AddKey \/ AddValue
  BY <1>2, AddStringsKeepImage
<1>3. CASE AddSlot
  BY <1>3, SlotKeepsImage
<1>4. CASE AddOverflows \/ AddNoMemory \/ AddBadArgument \/ CommitNoMemory
  BY <1>4, RefusalsKeepImage
<1>5. CASE CommitSort
  BY <1>5, SortKeepsImage
<1>6. CASE CommitTable
  BY <1>6, TableKeepsImage
<1>7. CASE CommitFlush
  BY <1>7, FlushKeepsImage
<1>8. CASE CommitHeader
  BY <1>8, HeaderKeepsImage
<1>9. CASE CommitOpen
  BY <1>9, OpenKeepsImage
<1>10. CASE Close
  BY <1>10, CloseKeepsImage
<1>11. CASE UNCHANGED vars
  <2>1. UNCHANGED <<file, position, buf, slot_counts, slot_lists, slot_list_index,
                    offset, size, flags, pc, record, start, sorted, bucket, table,
                    result, added>>
    BY <1>11 DEF vars
  <2>2. TypeOK'
    BY <2>1 DEF ImageInv, TypeOK
  <2>3. SlotsKept' /\ FlagsKept' /\ AddKept' /\ CommitKept' /\ CommittedKept' /\ HeaderKept'
    BY <2>1 DEF ImageInv, SlotsKept, FlagsKept, AddKept, CommitKept, CommittedKept,
                HeaderKept
  <2>4. DiskKept'
    <3>1. Produced' = Produced
      BY <2>1 DEF Produced
    <3> QED  BY <2>1, <3>1 DEF ImageInv, DiskKept
  <2> QED  BY <2>2, <2>3, <2>4 DEF ImageInv
<1> QED
  BY <1>1, <1>2, <1>3, <1>4, <1>5, <1>6, <1>7, <1>8, <1>9, <1>10, <1>11 DEF Next, Step

LEMMA ImageAlways == Spec => [](ImageInv /\ SpaceInv)
<1>1. ImageInv /\ SpaceInv /\ [Next]_vars => (ImageInv /\ SpaceInv)'
  BY ImageNext, SpaceNext
<1> QED  BY <1>1, ImageInit, SpaceInit, PTL DEF Spec

(* Whatever is added and whatever fails, the maker's values keep their     *)
(* ranges: the buffer holds at most WRITE_BUF_SIZE bytes, a chunk index stays *)
(* within its chunk, offsets, sizes and counts fit their words, a committed *)
(* maker has a result.                                                     *)
THEOREM TypeCorrect == Spec => []TypeOK
<1>1. ImageInv => TypeOK
  BY DEF ImageInv
<1> QED  BY <1>1, ImageAlways, PTL

(* The bytes on disk and in the buffer are the records that have been added, *)
(* in order and whole, and, within commit(), the tables up to the one it is *)
(* at; the size that add() has kept is that of the file to come; and the   *)
(* counting sort of cdbx_cdb32_commit leaves every bucket in insertion order. *)
THEOREM AccountedCorrect == Spec => []Accounted
<1>1. ImageInv /\ SpaceInv => Accounted
  <2> SUFFICES ASSUME ImageInv, SpaceInv PROVE Accounted
    OBVIOUS
  <2>1. TypeOK /\ DiskKept /\ CommitKept
    BY DEF ImageInv
  <2>2. BufferedStream
    BY <2>1 DEF DiskKept, BufferedStream, Body
  <2>3. SizeReserved
    <3> SUFFICES ASSUME flags = {}, pc = "idle"
                 PROVE  /\ Len(Image(added)) <= MAX_OFF + 1
                        /\ size = U32(Len(Image(added)))
      BY DEF SizeReserved
    <3>1. added \in Seq(Record)
      BY <2>1 DEF TypeOK
    <3>2. offset = RecordsEnd(added)
      BY OffsetIsEnd
    <3>3. Len(Image(added)) = offset + 2 * SIZEOF_SLOT * Len(added)
      BY <3>1, <3>2, ImageParts DEF RecordsEnd
    <3> QED  BY <3>3, SpaceIsReserved DEF SpaceReserved
  <2>4. SortedByBucket
    BY <2>1 DEF CommitKept, SortedByBucket
  <2> QED  BY <2>2, <2>3, <2>4 DEF Accounted
<1> QED  BY <1>1, ImageAlways, PTL

(* The header is empty until everything behind it is written: no failure of *)
(* add() or commit() leaves a file that looks like a database.             *)
THEOREM HeaderLastCorrect == Spec => []HeaderLast
<1>1. ImageInv => HeaderLast
  <2> SUFFICES ASSUME ImageInv, ~HeaderLast PROVE FALSE
    OBVIOUS
  <2>1. PICK n \in 0 .. SIZEOF_TABLE :
          /\ HeaderUpTo(file, added, n)
          /\ n > 0 => SubSeq(file, SIZEOF_TABLE + 1, Len(file))
                       = Encoded(added) \o SlotTables(added, TABLES)
    BY DEF ImageInv, HeaderKept, Written
  <2>2. n = 0
    <3>1. SubSeq(file, SIZEOF_TABLE + 1, Len(file)) # Encoded(added) \o SlotTables(added, TABLES)
      BY DEF HeaderLast
    <3>2. n \in Nat /\ ~(n > 0)
      BY <2>1, <3>1, WordSizes
    <3> QED  BY <3>2
  <2>3. \A o \in 1 .. SIZEOF_TABLE : ~(o <= 0)
    OBVIOUS
  <2>4. ZeroHeader(file) /\ file \in Seq(Bytes)
    BY <2>1, <2>2, <2>3 DEF HeaderUpTo, ZeroHeader, ImageInv, TypeOK
  <2> QED  BY <2>4, NoneInHeader DEF HeaderLast
<1> QED  BY <1>1, ImageAlways, PTL

(* When commit() returns without an error the file is byte for byte the image *)
(* of the records added, for every word size, buffer size, chunk size, number *)
(* of tables and set of keys.                                              *)
THEOREM CommittedImageCorrect == Spec => []CommittedImage
<1>1. ImageInv => CommittedImage
  BY DEF ImageInv, CommittedKept, CommittedImage
<1> QED  BY <1>1, ImageAlways, PTL

(* cdb32_find answers right at every step of the maker, for every file     *)
(* that its steps and their failures leave: in a committed file it finds   *)
(* all values of a key in the order they were added and nothing else, and  *)
(* in any other, read or mapped, nothing but values that were added.       *)
THEOREM FoundRightCorrect == Spec => []FoundRight
<1>1. ImageInv => CommittedFound
  <2> SUFFICES ASSUME ImageInv, "COMMITTED" \in flags, NEW k \in Keys
               PROVE  /\ FindAll(file, k).last.res = "miss"
                      /\ FindAll(file, k).values = ValuesOf(added, k)
    BY DEF CommittedFound
  <2>1. added \in Seq(Record) /\ file = Image(added) /\ Fits(added)
    BY DEF ImageInv, TypeOK, CommittedKept
  <2> QED  BY <2>1, FindAllCorrect
<1>2. ImageInv => FoundIsAdded
  <2> SUFFICES ASSUME ImageInv, NEW k \in Keys, NEW f \in Views(file)
               PROVE  FoundAdded(f, added, k)
    BY DEF FoundIsAdded, FoundAdded
  <2>1. added \in Seq(Record) /\ Written(file, added)
    BY DEF ImageInv, TypeOK, HeaderKept
  <2> QED  BY <2>1, FoundInViews
<1> QED  BY <1>1, <1>2, ImageAlways, PTL DEF FoundRight

(* commit() makes a database only out of a file that is complete, and never *)
(* after an error of any earlier call.                                     *)
THEOREM NeverCommittedTornCorrect == Spec => NeverCommittedTorn
<1> DEFINE Good == (result' = "cdb" /\ result = "none") =>
                     file = Image(added) /\ "ERROR" \notin flags
<1>1. ImageInv /\ [Next]_vars => [Good]_vars
  <2> SUFFICES ASSUME ImageInv, [Next]_vars PROVE Good \/ UNCHANGED vars
    OBVIOUS
  <2>1. CASE CommitOpen
    BY <2>1 DEF CommitOpen, ImageInv, FlagsKept, CommittedKept
  <2>2. CASE result' = result
    BY <2>2
  <2> QED
    BY <2>1, <2>2 DEF Next, Step, vars, AddLengths, AddKey, AddValue, AddString, AddSlot,
      AddOverflows, AddNoMemory, AddBadArgument, CommitSort, CommitNoMemory, CommitTable,
      CommitFlush, CommitHeader, Close
<1> QED  BY <1>1, ImageAlways, PTL DEF Spec, NeverCommittedTorn
=============================================================================
