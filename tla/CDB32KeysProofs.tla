-------------------------- MODULE CDB32KeysProofs --------------------------
(***************************************************************************)
(* For every file, key, size of the blocks and of the buffer, for every    *)
(* way to cut a read short and wherever the descriptor stands: keys are    *)
(* hashed and compared as if that were done in one go.                     *)
(***************************************************************************)
EXTENDS CDB32Keys, TLAPS

-----------------------------------------------------------------------------
(* Parts of a sequence.                                                    *)
LEMMA PartIsSeq ==
  ASSUME NEW S, NEW f, NEW k \in Nat, NEW n \in Nat,
         \A i \in 1 .. n : f[k + i] \in S
  PROVE  /\ [i \in 1 .. n |-> f[k + i]] \in Seq(S)
         /\ Len([i \in 1 .. n |-> f[k + i]]) = n
  OBVIOUS

LEMMA JoinParts ==
  ASSUME NEW S, NEW f, NEW k \in Nat, NEW n \in Nat, NEW m \in Nat,
         \A i \in 1 .. n + m : f[k + i] \in S
  PROVE  [i \in 1 .. n |-> f[k + i]] \o [i \in 1 .. m |-> f[(k + n) + i]]
           = [i \in 1 .. n + m |-> f[k + i]]
<1> DEFINE a == [i \in 1 .. n |-> f[k + i]]
           b == [i \in 1 .. m |-> f[(k + n) + i]]
           c == [i \in 1 .. n + m |-> f[k + i]]
<1>1. a \in Seq(S) /\ Len(a) = n
  BY PartIsSeq
<1>2. b \in Seq(S) /\ Len(b) = m
  <2>1. \A i \in 1 .. m : f[(k + n) + i] \in S
    <3> TAKE i \in 1 .. m
    <3>1. n + i \in 1 .. n + m /\ k + (n + i) = (k + n) + i
      OBVIOUS
    <3> QED  BY <3>1
  <2> QED  BY <2>1, PartIsSeq
<1>3. c \in Seq(S) /\ Len(c) = n + m
  BY PartIsSeq
<1>4. Len(a \o b) = n + m /\ a \o b \in Seq(S)
  BY <1>1, <1>2
<1>5. ASSUME NEW i \in 1 .. n + m
      PROVE  (a \o b)[i] = c[i]
  <2>1. CASE i <= n
    <3>1. (a \o b)[i] = a[i]
      BY <1>1, <1>2, <2>1
    <3> QED  BY <2>1, <3>1
  <2>2. CASE i > n
    <3>1. (a \o b)[i] = b[i - n] /\ i - n \in 1 .. m
      BY <1>1, <1>2, <2>2
    <3>2. (k + n) + (i - n) = k + i
      OBVIOUS
    <3> QED  BY <3>1, <3>2
  <2> QED  BY <2>1, <2>2
<1> QED  BY <1>1, <1>3, <1>4, <1>5

LEMMA ContentIsSeq ==
  ASSUME TypeOK, NEW at \in Nat, NEW n \in Nat, at + n <= SIZE
  PROVE  Content(at, n) \in Seq(Byte) /\ Len(Content(at, n)) = n
<1>1. \A i \in 1 .. n : file[at + i] \in Byte
  BY KeysAssumption DEF TypeOK
<1> QED  BY <1>1, PartIsSeq DEF Content

LEMMA ContentJoins ==
  ASSUME TypeOK, NEW at \in Nat, NEW n \in Nat, NEW m \in Nat,
         at + n + m <= SIZE
  PROVE  Content(at, n) \o Content(at + n, m) = Content(at, n + m)
<1>1. \A i \in 1 .. n + m : file[at + i] \in Byte
  BY KeysAssumption DEF TypeOK
<1> QED  BY <1>1, JoinParts DEF Content

(* call.key is a sequence of bytes. *)
LEMMA KeyTyped ==
  ASSUME TypeOK
  PROVE  \E n \in Lens : call.key \in [1 .. n -> Byte]
  BY DEF TypeOK, Key

LEMMA KeyIsSeq ==
  ASSUME TypeOK, NEW at \in Nat, NEW n \in Nat, at + n <= Len(call.key)
  PROVE  KeyPart(at, n) \in Seq(Byte) /\ Len(KeyPart(at, n)) = n
<1>1. PICK l \in Lens : call.key \in [1 .. l -> Byte]
  BY KeyTyped
<1>2. l \in Nat /\ Len(call.key) = l
  BY <1>1, KeysAssumption DEF Lens
<1>3. \A i \in 1 .. n : call.key[at + i] \in Byte
  BY <1>1, <1>2
<1> QED  BY <1>3, PartIsSeq DEF KeyPart

LEMMA KeyJoins ==
  ASSUME TypeOK, NEW at \in Nat, NEW n \in Nat, NEW m \in Nat,
         at + n + m <= Len(call.key)
  PROVE  KeyPart(at, n) \o KeyPart(at + n, m) = KeyPart(at, n + m)
<1>1. PICK l \in Lens : call.key \in [1 .. l -> Byte]
  BY KeyTyped
<1>2. l \in Nat /\ Len(call.key) = l
  BY <1>1, KeysAssumption DEF Lens
<1>3. \A i \in 1 .. n + m : call.key[at + i] \in Byte
  BY <1>1, <1>2
<1>4. PICK key : key = call.key
  OBVIOUS
<1>5. \A i \in 1 .. n + m : key[at + i] \in Byte
  BY <1>3, <1>4
<1>6. [i \in 1 .. n |-> key[at + i]] \o [i \in 1 .. m |-> key[(at + n) + i]]
        = [i \in 1 .. n + m |-> key[at + i]]
  BY <1>5, JoinParts
<1> QED  BY <1>4, <1>6 DEF KeyPart

-----------------------------------------------------------------------------
(* The inductive invariant.                                                *)

(* Idle, nothing is left of the last call; an answer ends a call.          *)
IdleInv ==
  /\ pc = "idle" => call = NoCall /\ done = 0 /\ hashed = <<>>
  /\ answer # "none" <=> pc = "over"

(* The key in memory is as long as the call has been told. *)
KeyInv == call.op \in {"mem", "write"} => call.len = Len(call.key)

Running == pc \in {"loop", "key", "read"}

(* Everything before offset has been hashed, or compared and found equal.  *)
LoopInv ==
  Running =>
    /\ call.op \in {"hash", "mem", "disk", "write"}
    /\ call.op # "write" => call.at + done <= SIZE
    /\ call.op = "disk" => call.keyAt + done <= SIZE
    /\ call.op = "hash" => hashed = Content(call.at, done)
    /\ call.op = "write" => pc = "loop" /\ hashed = KeyPart(0, done)
    /\ call.op \in {"mem", "disk"} => Matches(done)

(* Hashing finds the descriptor where it left it. *)
HashInv ==
  call.op = "hash" /\ pc = "loop" /\ call.len > 0 => position = call.at + done

(* A block b that is being read, from where the call is behind at.         *)
BlockFrom(at, b) ==
  /\ position = at + done + Len(b)
  /\ position <= SIZE
  /\ b = Content(at + done, Len(b))

BlockInv ==
  /\ pc \in {"key", "read"} => block > 0 /\ done + block <= call.len
  /\ pc = "key" => call.op = "disk" /\ buf = <<>> /\ BlockFrom(call.keyAt, sbuf)
  /\ pc = "read" => BlockFrom(call.at, buf)
  /\ pc = "read" /\ call.op = "disk" =>
       /\ Len(sbuf) = block
       /\ call.keyAt + done + block <= SIZE
       /\ sbuf = Content(call.keyAt + done, block)

KeysInv ==
  /\ TypeOK /\ IdleInv /\ KeyInv /\ LoopInv /\ HashInv /\ BlockInv
  /\ HashRight /\ CompareRight /\ FormatErrorRight

LEMMA KeysInvInit == Init => KeysInv
  BY KeysAssumption
  DEF Init, KeysInv, TypeOK, IdleInv, KeyInv, LoopInv, HashInv, BlockInv,
      HashRight, CompareRight, FormatErrorRight, NoCall, Key, Lens, Offsets,
      Block, Running

-----------------------------------------------------------------------------
(* Each call begins with nothing done.                                     *)
LEMMA CallStep ==
  ASSUME KeysInv, NEW c, Calls(c),
         c \in [op : {"hash", "mem", "disk", "write"}, at : Offsets,
                len : Lens, key : Key, keyAt : Offsets],
         c.op \in {"mem", "write"} => c.len = Len(c.key),
         position' \in Nat,
         c.op = "hash" /\ c.len > 0 => position' = c.at,
         \/ Loops
         \/ c.op = "disk" /\ c.at = c.keyAt /\ Returns("match")
  PROVE  KeysInv'
<1> USE KeysAssumption
<1>1. /\ call' = c /\ pc = "idle" /\ answer = "none"
      /\ done = 0 /\ done' = 0 /\ hashed = <<>> /\ hashed' = <<>>
      /\ UNCHANGED <<file, buf_index, block, sbuf, buf>>
  BY DEF Calls, KeysInv, IdleInv, blockVars
<1>2. c.at \in 0 .. SIZE /\ c.keyAt \in 0 .. SIZE /\ c.len \in Nat
  BY DEF Offsets, Lens
<1>3. \/ pc' = "loop" /\ answer' = "none"
      \/ pc' = "over" /\ answer' = "match" /\ c.op = "disk" /\ c.at = c.keyAt
  BY <1>1 DEF Loops, Returns
<1>4. block = 0
  BY <1>1 DEF KeysInv, TypeOK, IdleInv, NoCall
<1>5. TypeOK'
  BY <1>1, <1>2, <1>3, <1>4 DEF KeysInv, TypeOK, Block
<1>6. IdleInv' /\ KeyInv' /\ BlockInv'
  BY <1>1, <1>3 DEF IdleInv, KeyInv, BlockInv
<1>7. LoopInv'
  BY <1>1, <1>2, <1>3 DEF LoopInv, Running, Content, KeyPart, Matches
<1>8. HashInv'
  BY <1>1, <1>2 DEF HashInv
<1>9. HashRight' /\ CompareRight' /\ FormatErrorRight'
  BY <1>1, <1>3 DEF HashRight, CompareRight, FormatErrorRight
<1> QED  BY <1>5, <1>6, <1>7, <1>8, <1>9 DEF KeysInv

LEMMA CallSteps ==
  ASSUME KeysInv
  PROVE  /\ \A at \in Offsets, len \in Lens : HashDisk(at, len) => KeysInv'
         /\ \A at \in Offsets, key \in Key : CmpKeyMem(at, key) => KeysInv'
         /\ \A at, keyAt \in Offsets, len \in Lens :
              CmpKeyDisk(at, keyAt, len) => KeysInv'
         /\ \A key \in Key : BufWrite(key) => KeysInv'
<1> USE KeysAssumption
<1>1. position \in Nat /\ Offsets \subseteq Nat /\ 0 \in Offsets /\ 0 \in Lens
  BY DEF KeysInv, TypeOK, Offsets, Lens
<1>2. <<>> \in Key
  BY DEF Key, Lens
<1>3. \A key \in Key : Len(key) \in Lens
  BY DEF Key, Lens
<1>4. ASSUME NEW at \in Offsets, NEW len \in Lens, HashDisk(at, len)
      PROVE  KeysInv'
  <2> DEFINE c == [NoCall EXCEPT !.op = "hash", !.at = at, !.len = len]
  <2>1. /\ c.op = "hash" /\ c.at = at /\ c.len = len
        /\ c \in [op : {"hash", "mem", "disk", "write"}, at : Offsets,
                   len : Lens, key : Key, keyAt : Offsets]
    BY <1>1, <1>2 DEF NoCall
  <2>2. Calls(c) /\ Loops /\ position' = IF len > 0 THEN at ELSE position
    BY <1>4 DEF HashDisk
  <2> HIDE DEF c
  <2> QED  BY <1>1, <2>1, <2>2, CallStep
<1>5. ASSUME NEW at \in Offsets, NEW key \in Key, CmpKeyMem(at, key)
      PROVE  KeysInv'
  <2> DEFINE c == [NoCall EXCEPT !.op = "mem", !.at = at, !.key = key, !.len = Len(key)]
  <2>1. /\ c.op = "mem" /\ c.at = at /\ c.len = Len(key) /\ c.key = key
        /\ c \in [op : {"hash", "mem", "disk", "write"}, at : Offsets,
                   len : Lens, key : Key, keyAt : Offsets]
    BY <1>1, <1>3 DEF NoCall
  <2>2. Calls(c) /\ Loops /\ position' = position
    BY <1>5 DEF CmpKeyMem
  <2> HIDE DEF c
  <2> QED  BY <1>1, <2>1, <2>2, CallStep
<1>6. ASSUME NEW at \in Offsets, NEW keyAt \in Offsets, NEW len \in Lens,
             CmpKeyDisk(at, keyAt, len)
      PROVE  KeysInv'
  <2> DEFINE c == [NoCall EXCEPT !.op = "disk", !.at = at, !.keyAt = keyAt, !.len = len]
  <2>1. /\ c.op = "disk" /\ c.at = at /\ c.keyAt = keyAt /\ c.len = len
        /\ c \in [op : {"hash", "mem", "disk", "write"}, at : Offsets,
                   len : Lens, key : Key, keyAt : Offsets]
    BY <1>1, <1>2 DEF NoCall
  <2>2. /\ Calls(c) /\ position' = position
        /\ IF at = keyAt THEN Returns("match") ELSE Loops
    BY <1>6 DEF CmpKeyDisk
  <2> HIDE DEF c
  <2> QED  BY <1>1, <2>1, <2>2, CallStep
<1>7. ASSUME NEW key \in Key, BufWrite(key)
      PROVE  KeysInv'
  <2> DEFINE c == [NoCall EXCEPT !.op = "write", !.key = key, !.len = Len(key)]
  <2>1. /\ c.op = "write" /\ c.len = Len(key) /\ c.key = key
        /\ c \in [op : {"hash", "mem", "disk", "write"}, at : Offsets,
                   len : Lens, key : Key, keyAt : Offsets]
    BY <1>1, <1>3 DEF NoCall
  <2>2. Calls(c) /\ Loops /\ position' = position
    BY <1>7 DEF BufWrite
  <2> HIDE DEF c
  <2> QED  BY <1>1, <2>1, <2>2, CallStep
<1> QED  BY <1>4, <1>5, <1>6, <1>7

-----------------------------------------------------------------------------
(* The loops.                                                              *)

(* What a step that returns has to show.                                   *)
LEMMA ReturnStep ==
  ASSUME KeysInv, Running,
         NEW result \in {"hashed", "match", "differ", "format", "ioerror"},
         Returns(result),
         UNCHANGED <<file, position, call, blockVars>>,
         buf_index' \in 0 .. WRITE_BUF_SIZE, hashed' \in Seq(Byte),
         done' \in 0 .. call.len,
         HashRight', CompareRight', FormatErrorRight'
  PROVE  KeysInv'
<1> USE KeysAssumption
<1>1. pc' = "over" /\ answer' = result
  BY DEF Returns
<1>2. TypeOK'
  BY <1>1 DEF KeysInv, TypeOK, blockVars, Block
<1>3. IdleInv' /\ KeyInv' /\ LoopInv' /\ HashInv' /\ BlockInv'
  BY <1>1 DEF KeysInv, IdleInv, KeyInv, LoopInv, HashInv, BlockInv, Running
<1> QED  BY <1>2, <1>3 DEF KeysInv

LEMMA LoopEndsStep ==
  ASSUME KeysInv, LoopEnds
  PROVE  KeysInv'
<1> USE KeysAssumption
<1>1. /\ pc = "loop" /\ Running /\ done = call.len
      /\ call.op \in {"hash", "mem", "disk", "write"}
      /\ UNCHANGED <<file, position, buf_index, call, done, block, sbuf, buf, hashed>>
  BY DEF LoopEnds, Running, KeysInv, LoopInv, blockVars
<1>2. CASE call.op \in {"hash", "write"}
  <2>1. answer' = "hashed" /\ Returns("hashed")
    BY <1>2 DEF LoopEnds, Returns
  <2>2. ASSUME call.op = "hash"
        PROVE  HashRight'
    <3>1. hashed = Content(call.at, call.len) /\ InFile(call.at)
      BY <1>1, <2>2 DEF KeysInv, LoopInv, InFile
    <3> QED  BY <1>1, <2>2, <3>1 DEF HashRight, Content, InFile
  <2>3. ASSUME call.op = "write"
        PROVE  HashRight'
    <3>1. hashed = KeyPart(0, Len(call.key))
      BY <1>1, <2>3 DEF KeysInv, LoopInv, KeyInv
    <3>2. PICK l \in Lens : call.key \in [1 .. l -> Byte]
      BY KeyTyped DEF KeysInv
    <3>3. KeyPart(0, Len(call.key)) = call.key
      BY <3>2 DEF KeyPart, Lens
    <3> QED  BY <1>1, <2>3, <3>1, <3>3 DEF HashRight
  <2>4. CompareRight' /\ FormatErrorRight'
    BY <2>1 DEF CompareRight, FormatErrorRight
  <2> QED
    BY <1>1, <1>2, <2>1, <2>2, <2>3, <2>4, ReturnStep DEF KeysInv, TypeOK, blockVars
<1>3. CASE call.op \in {"mem", "disk"}
  <2>1. answer' = "match" /\ Returns("match")
    BY <1>3 DEF LoopEnds, Returns
  <2>2. call.at + call.len <= SIZE /\ Matches(call.len)
    BY <1>1, <1>3 DEF KeysInv, LoopInv
  <2>3. CompareRight'
    BY <1>1, <2>1, <2>2 DEF CompareRight, InFile, Matches, SameAt
  <2>4. HashRight' /\ FormatErrorRight'
    BY <2>1 DEF HashRight, FormatErrorRight
  <2> QED
    BY <1>1, <2>1, <2>3, <2>4, ReturnStep DEF KeysInv, TypeOK, blockVars
<1> QED  BY <1>1, <1>2, <1>3

(* A step within a call that does not return: what stays and what is to be *)
(* shown.                                                                  *)
LEMMA InnerStep ==
  ASSUME KeysInv, Running, Running',
         UNCHANGED <<file, call, answer>>,
         TypeOK', LoopInv', HashInv', BlockInv'
  PROVE  KeysInv'
<1>1. answer = "none" /\ answer' = "none"
  BY DEF KeysInv, IdleInv, Running
<1>2. IdleInv'
  BY <1>1 DEF IdleInv, Running
<1>3. KeyInv'
  BY DEF KeysInv, KeyInv
<1>4. HashRight' /\ CompareRight' /\ FormatErrorRight'
  BY <1>1 DEF HashRight, CompareRight, FormatErrorRight
<1> QED  BY <1>2, <1>3, <1>4 DEF KeysInv

(* What LoopInv says does not depend on where in the loop the call is.     *)
LEMMA LoopStays ==
  ASSUME KeysInv, Running, Running', call.op # "write",
         UNCHANGED <<file, call, done, hashed>>
  PROVE  LoopInv'
  BY DEF KeysInv, LoopInv, Content, Matches, SameAt

LEMMA NextBlockStep ==
  ASSUME KeysInv, NextBlock
  PROVE  KeysInv'
<1> USE KeysAssumption
<1>1. /\ pc = "loop" /\ Running /\ done < call.len
      /\ call.op \in {"hash", "mem", "disk"}
      /\ UNCHANGED <<file, buf_index, call, done, hashed, answer>>
      /\ sbuf' = <<>> /\ buf' = <<>>
  BY DEF NextBlock, Running, KeysInv, LoopInv
<1>2. done \in Nat /\ call.len \in Nat /\ call.at \in Nat /\ call.keyAt \in Nat
  BY DEF KeysInv, TypeOK, Offsets, Lens
<1>3. Block[call.op] \in Nat \ {0}
  BY <1>1 DEF Block
<1>4. /\ block' = Smaller(Block[call.op], call.len - done)
      /\ block' \in Nat /\ block' > 0 /\ block' <= Block[call.op]
      /\ done + block' <= call.len
  BY <1>1, <1>2, <1>3 DEF NextBlock, Smaller
<1>5. /\ call.op = "disk" => pc' = "key" /\ position' = call.keyAt + done
      /\ call.op = "mem" => pc' = "read" /\ position' = call.at + done
      /\ call.op = "hash" => pc' = "read" /\ position' = position
  BY <1>1 DEF NextBlock, BlockAt
<1>6. call.op = "hash" => position = call.at + done
  BY <1>1, <1>2 DEF KeysInv, HashInv
<1>7. /\ call.at + done <= SIZE
      /\ call.op = "disk" => call.keyAt + done <= SIZE
  BY <1>1 DEF KeysInv, LoopInv
<1>8. position' \in Nat /\ Running'
  BY <1>1, <1>2, <1>5, <1>6 DEF Running
<1>9. TypeOK'
  BY <1>1, <1>2, <1>4, <1>5, <1>8 DEF KeysInv, TypeOK
<1>10. LoopInv'
  BY <1>1, <1>8, LoopStays
<1>11. HashInv'
  BY <1>1, <1>5 DEF HashInv
<1>12. ASSUME NEW at \in Nat
       PROVE  <<>> = [i \in 1 .. 0 |-> file'[at + i]]
  OBVIOUS
<1>13. BlockInv'
  <2>1. CASE call.op = "disk"
    BY <1>1, <1>2, <1>4, <1>5, <1>7, <1>12, <2>1 DEF BlockInv, BlockFrom, Content
  <2>2. CASE call.op # "disk"
    <3>1. pc' = "read" /\ position' = call.at + done
      BY <1>1, <1>5, <1>6, <2>2
    <3> QED  BY <1>1, <1>2, <1>4, <1>7, <1>12, <2>2, <3>1 DEF BlockInv, BlockFrom, Content
  <2> QED  BY <2>1, <2>2
<1> QED  BY <1>1, <1>8, <1>9, <1>10, <1>11, <1>13, InnerStep

-----------------------------------------------------------------------------
(* Reading.                                                                *)
LEMMA ReadOn ==
  ASSUME TypeOK, NEW at \in Nat, NEW b, b \in Seq(Byte), BlockFrom(at, b),
         NEW n \in Nat, Reads(n)
  PROVE  /\ b \o Content(position, n) \in Seq(Byte)
         /\ Len(b \o Content(position, n)) = Len(b) + n
         /\ b \o Content(position, n) = Content(at + done, Len(b) + n)
         /\ position' = at + done + (Len(b) + n)
         /\ position' <= SIZE
<1> USE KeysAssumption
<1>1. position = at + done + Len(b) /\ position + n <= SIZE /\ position' = position + n
  BY DEF BlockFrom, Reads, TypeOK
<1>2. done \in Nat /\ Len(b) \in Nat /\ position \in Nat
  BY DEF TypeOK, Lens
<1>3. Content(position, n) \in Seq(Byte) /\ Len(Content(position, n)) = n
  BY <1>1, <1>2, ContentIsSeq
<1>4. b = Content(at + done, Len(b))
  BY DEF BlockFrom
<1>4a. PICK len \in Nat : len = Len(b)
  BY <1>2
<1>5. PICK start \in Nat : start = at + done
  BY <1>2
<1>6. start + len + n <= SIZE
  BY <1>1, <1>4a, <1>5
<1>6a. Content(start, len) \o Content(start + len, n) = Content(start, len + n)
  BY <1>6, ContentJoins
<1>7. b \o Content(position, n) = Content(at + done, Len(b) + n)
  BY <1>1, <1>4, <1>4a, <1>5, <1>6a
<1>8. b \o Content(position, n) \in Seq(Byte)
  BY <1>3
<1>9. Len(b \o Content(position, n)) = Len(b) + n
  BY <1>3
<1>10. position' = at + done + (Len(b) + n)
  BY <1>1, <1>2, <1>5
<1>11. position' <= SIZE
  BY <1>1
<1> QED  BY <1>7, <1>8, <1>9, <1>10, <1>11

LEMMA ReadKeyStep ==
  ASSUME KeysInv, ReadKey
  PROVE  KeysInv'
<1> USE KeysAssumption
<1>1. /\ pc = "key" /\ Running /\ Running'
      /\ UNCHANGED <<file, buf_index, pc, call, done, block, buf, hashed, answer>>
  BY DEF ReadKey, Running
<1>2. PICK n \in 1 .. Missing(sbuf) : Reads(n) /\ sbuf' = sbuf \o Content(position, n)
  BY DEF ReadKey
<1>3. /\ call.op = "disk" /\ buf = <<>> /\ BlockFrom(call.keyAt, sbuf)
      /\ block > 0 /\ done + block <= call.len
  BY <1>1 DEF KeysInv, BlockInv
<1>4. /\ call.keyAt \in Nat /\ sbuf \in Seq(Byte) /\ Len(sbuf) \in Nat
      /\ done \in Nat /\ block \in Nat /\ call.len \in Nat /\ n \in Nat
      /\ Len(sbuf) + n <= block
  BY <1>2 DEF KeysInv, TypeOK, Offsets, Lens, Missing
<1>5. /\ sbuf' \in Seq(Byte) /\ Len(sbuf') = Len(sbuf) + n
      /\ sbuf' = Content(call.keyAt + done, Len(sbuf) + n)
      /\ position' = call.keyAt + done + Len(sbuf') /\ position' <= SIZE
  <2>1. TypeOK /\ Reads(n)
    BY <1>2 DEF KeysInv
  <2>2. /\ sbuf \o Content(position, n) \in Seq(Byte)
        /\ Len(sbuf \o Content(position, n)) = Len(sbuf) + n
        /\ sbuf \o Content(position, n) = Content(call.keyAt + done, Len(sbuf) + n)
        /\ position' = call.keyAt + done + (Len(sbuf) + n)
        /\ position' <= SIZE
    BY <1>3, <1>4, <2>1, ReadOn
  <2> QED  BY <1>2, <1>4, <2>2
<1>6. TypeOK'
  BY <1>1, <1>3, <1>4, <1>5 DEF KeysInv, TypeOK
<1>7. LoopInv' /\ HashInv'
  BY <1>1, <1>3, LoopStays DEF HashInv
<1>8. BlockInv'
  BY <1>1, <1>3, <1>5 DEF BlockInv, BlockFrom, Content
<1> QED  BY <1>1, <1>6, <1>7, <1>8, InnerStep

LEMMA ReadFileStep ==
  ASSUME KeysInv, ReadFile
  PROVE  KeysInv'
<1> USE KeysAssumption
<1>1. /\ pc = "read" /\ Running /\ Running'
      /\ UNCHANGED <<file, buf_index, pc, call, done, block, sbuf, hashed, answer>>
  BY DEF ReadFile, Running
<1>2. PICK n \in 1 .. Missing(buf) : Reads(n) /\ buf' = buf \o Content(position, n)
  BY DEF ReadFile
<1>3. /\ BlockFrom(call.at, buf) /\ block > 0 /\ done + block <= call.len
      /\ call.op # "write"
  BY <1>1 DEF KeysInv, BlockInv, LoopInv, Running
<1>4. /\ call.at \in Nat /\ buf \in Seq(Byte) /\ Len(buf) \in Nat
      /\ done \in Nat /\ block \in Nat /\ call.len \in Nat /\ n \in Nat
      /\ Len(buf) + n <= block
  BY <1>2 DEF KeysInv, TypeOK, Offsets, Lens, Missing
<1>5. /\ buf' \in Seq(Byte) /\ Len(buf') = Len(buf) + n
      /\ buf' = Content(call.at + done, Len(buf) + n)
      /\ position' = call.at + done + Len(buf') /\ position' <= SIZE
  <2>1. TypeOK /\ Reads(n)
    BY <1>2 DEF KeysInv
  <2>2. /\ buf \o Content(position, n) \in Seq(Byte)
        /\ Len(buf \o Content(position, n)) = Len(buf) + n
        /\ buf \o Content(position, n) = Content(call.at + done, Len(buf) + n)
        /\ position' = call.at + done + (Len(buf) + n)
        /\ position' <= SIZE
    BY <1>3, <1>4, <2>1, ReadOn
  <2> QED  BY <1>2, <1>4, <2>2
<1>6. TypeOK'
  BY <1>1, <1>3, <1>4, <1>5 DEF KeysInv, TypeOK
<1>7. LoopInv' /\ HashInv'
  BY <1>1, <1>3, LoopStays DEF HashInv
<1>8. BlockInv'
  BY <1>1, <1>3, <1>5 DEF KeysInv, BlockInv, BlockFrom, Content
<1> QED  BY <1>1, <1>6, <1>7, <1>8, InnerStep

LEMMA AtEndStep ==
  ASSUME KeysInv, AtEnd
  PROVE  KeysInv'
<1> USE KeysAssumption
<1>1. /\ Reading /\ position >= SIZE /\ Returns("format") /\ answer' = "format"
      /\ UNCHANGED <<file, position, buf_index, call, done, block, sbuf, buf, hashed>>
  BY DEF AtEnd, Returns, blockVars
<1>2. Running
  BY <1>1 DEF Reading, Running
<1>3. /\ done \in Nat /\ block \in Nat /\ call.len \in Nat /\ Len(buf) \in Nat
      /\ Len(sbuf) \in Nat /\ call.at \in Nat /\ call.keyAt \in Nat
      /\ position \in Nat
  BY DEF KeysInv, TypeOK, Offsets, Lens
<1>4. CASE pc = "key"
  <2>1. /\ Len(sbuf) < block /\ done + block <= call.len /\ call.op = "disk"
        /\ position = call.keyAt + done + Len(sbuf)
    BY <1>1, <1>3, <1>4 DEF KeysInv, BlockInv, BlockFrom, Reading, Missing
  <2>2. FormatErrorRight'
    BY <1>1, <1>3, <2>1 DEF FormatErrorRight, InFile
  <2> QED
    BY <1>1, <1>2, <2>2, ReturnStep
    DEF HashRight, CompareRight, KeysInv, TypeOK, blockVars
<1>5. CASE pc = "read"
  <2>1. /\ Len(buf) < block /\ done + block <= call.len
        /\ position = call.at + done + Len(buf)
    BY <1>1, <1>3, <1>5 DEF KeysInv, BlockInv, BlockFrom, Reading, Missing
  <2>2. FormatErrorRight'
    BY <1>1, <1>3, <2>1 DEF FormatErrorRight, InFile
  <2> QED
    BY <1>1, <1>2, <2>2, ReturnStep
    DEF HashRight, CompareRight, KeysInv, TypeOK, blockVars
<1> QED  BY <1>1, <1>4, <1>5 DEF Reading

LEMMA ReadFailsStep ==
  ASSUME KeysInv, ReadFails
  PROVE  KeysInv'
<1>1. /\ Reading /\ Returns("ioerror") /\ answer' = "ioerror"
      /\ UNCHANGED <<file, position, buf_index, call, done, blockVars, hashed>>
  BY DEF ReadFails, Returns
<1>2. Running
  BY <1>1 DEF Reading, Running
<1>3. HashRight' /\ CompareRight' /\ FormatErrorRight'
  BY <1>1 DEF HashRight, CompareRight, FormatErrorRight
<1> QED  BY <1>1, <1>2, <1>3, ReturnStep DEF KeysInv, TypeOK

LEMMA KeyReadStep ==
  ASSUME KeysInv, KeyRead
  PROVE  KeysInv'
<1> USE KeysAssumption
<1>1. /\ pc = "key" /\ pc' = "read" /\ Running /\ Running'
      /\ position' = call.at + done
      /\ UNCHANGED <<file, buf_index, call, done, block, sbuf, buf, hashed, answer>>
  BY DEF KeyRead, Running, blockVars
<1>2. /\ call.op = "disk" /\ buf = <<>> /\ BlockFrom(call.keyAt, sbuf)
      /\ block > 0 /\ done + block <= call.len
  BY <1>1 DEF KeysInv, BlockInv
<1>3. /\ call.at \in Nat /\ call.keyAt \in Nat /\ done \in Nat /\ block \in Nat
      /\ Len(sbuf) \in Nat /\ Len(sbuf) = block
  BY DEF KeyRead, Missing, KeysInv, TypeOK, Offsets, Lens
<1>4. call.at + done <= SIZE
  BY <1>1, <1>2 DEF KeysInv, LoopInv
<1>5. TypeOK'
  BY <1>1, <1>3 DEF KeysInv, TypeOK
<1>6. LoopInv' /\ HashInv'
  BY <1>1, <1>2, LoopStays DEF HashInv
<1>7. ASSUME NEW at \in Nat
      PROVE  <<>> = [i \in 1 .. 0 |-> file'[at + i]]
  OBVIOUS
<1>8. BlockInv'
  BY <1>1, <1>2, <1>3, <1>4, <1>7 DEF BlockInv, BlockFrom, Content
<1> QED  BY <1>1, <1>5, <1>6, <1>8, InnerStep

LEMMA HashBlockStep ==
  ASSUME KeysInv, HashBlock
  PROVE  KeysInv'
<1> USE KeysAssumption
<1>1. /\ pc = "read" /\ pc' = "loop" /\ Running /\ Running' /\ call.op = "hash"
      /\ hashed' = hashed \o buf /\ done' = done + block
      /\ UNCHANGED <<file, position, buf_index, call, block, sbuf, buf, answer>>
  BY DEF HashBlock, BlockRead, Running, blockVars
<1>2. /\ BlockFrom(call.at, buf) /\ block > 0 /\ done + block <= call.len
      /\ hashed = Content(call.at, done)
  BY <1>1 DEF KeysInv, BlockInv, LoopInv
<1>3. /\ call.at \in Nat /\ done \in Nat /\ block \in Nat /\ call.len \in Nat
      /\ Len(buf) \in Nat /\ Len(buf) = block
      /\ hashed \in Seq(Byte) /\ buf \in Seq(Byte)
  BY DEF HashBlock, BlockRead, Missing, KeysInv, TypeOK, Offsets, Lens
<1>4. /\ position = call.at + done + block /\ position <= SIZE
      /\ buf = Content(call.at + done, block)
  BY <1>2, <1>3 DEF BlockFrom
<1>5. hashed \o buf = Content(call.at, done + block)
  <2>1. TypeOK /\ call.at + done + block <= SIZE
    BY <1>4 DEF KeysInv
  <2>1a. PICK at \in Nat, n \in Nat : at = call.at /\ n = done
    BY <1>3
  <2>1b. PICK m \in Nat : m = block
    BY <1>3
  <2>1c. TypeOK /\ at + n + m <= SIZE
    BY <2>1, <2>1a, <2>1b
  <2>1d. Content(at, n) \o Content(at + n, m) = Content(at, n + m)
    BY <2>1c, ContentJoins
  <2>2. Content(call.at, done) \o Content(call.at + done, block)
          = Content(call.at, done + block)
    BY <2>1a, <2>1b, <2>1d
  <2> QED  BY <1>2, <1>4, <2>2
<1>6. hashed \o buf \in Seq(Byte)
  BY <1>3
<1>7. TypeOK'
  BY <1>1, <1>2, <1>3, <1>6 DEF KeysInv, TypeOK
<1>8. LoopInv'
  <2>1. hashed' = Content(call.at, done)'
    BY <1>1, <1>5 DEF Content
  <2> QED  BY <1>1, <1>3, <1>4, <2>1 DEF LoopInv
<1>9. HashInv' /\ BlockInv'
  BY <1>1, <1>3, <1>4 DEF HashInv, BlockInv
<1> QED  BY <1>1, <1>7, <1>8, <1>9, InnerStep

(* A block that has been compared.                                         *)
LEMMA BlockCompared ==
  ASSUME KeysInv, BlockRead, call.op \in {"mem", "disk"}
  PROVE  /\ block \in Nat /\ block > 0 /\ done \in Nat /\ done + block <= call.len
         /\ call.at \in Nat /\ call.at + done + block <= SIZE
         /\ call.op = "disk" => call.keyAt \in Nat /\ call.keyAt + done + block <= SIZE
         /\ buf = KeyBlock <=> \A i \in 1 .. block : SameAt(done + i)
<1> USE KeysAssumption
<1>1. /\ pc = "read" /\ BlockFrom(call.at, buf) /\ block > 0
      /\ done + block <= call.len
  BY DEF BlockRead, KeysInv, BlockInv
<1>2. /\ call.at \in Nat /\ call.keyAt \in Nat /\ done \in Nat /\ block \in Nat
      /\ call.len \in Nat /\ Len(buf) \in Nat /\ Len(buf) = block
  BY DEF BlockRead, Missing, KeysInv, TypeOK, Offsets, Lens
<1>3. /\ call.at + done + block <= SIZE
      /\ buf = [i \in 1 .. block |-> file[(call.at + done) + i]]
  BY <1>1, <1>2 DEF BlockFrom, Content
<1>4. ASSUME NEW i \in 1 .. block
      PROVE  (call.at + done) + i = call.at + (done + i)
  BY <1>2
<1>5. CASE call.op = "mem"
  <2>1. KeyBlock = [i \in 1 .. block |-> call.key[done + i]]
    BY <1>5 DEF KeyBlock, KeyPart
  <2>2. buf = KeyBlock <=> \A i \in 1 .. block : SameAt(done + i)
    BY <1>3, <1>4, <1>5, <2>1 DEF SameAt
  <2> QED  BY <1>1, <1>2, <1>3, <1>5, <2>2
<1>6. CASE call.op = "disk"
  <2>1. /\ KeyBlock = [i \in 1 .. block |-> file[(call.keyAt + done) + i]]
        /\ call.keyAt + done + block <= SIZE
    BY <1>1, <1>6 DEF KeyBlock, KeysInv, BlockInv, Content
  <2>2. ASSUME NEW i \in 1 .. block
        PROVE  (call.keyAt + done) + i = call.keyAt + (done + i)
    BY <1>2
  <2>3. buf = KeyBlock <=> \A i \in 1 .. block : SameAt(done + i)
    BY <1>3, <1>4, <1>6, <2>1, <2>2 DEF SameAt
  <2> QED  BY <1>1, <1>2, <1>3, <2>1, <2>3
<1> QED  BY <1>5, <1>6

LEMMA CompareBlockStep ==
  ASSUME KeysInv, CompareBlock
  PROVE  KeysInv'
<1> USE KeysAssumption
<1>1. /\ BlockRead /\ pc = "read" /\ Running /\ call.op \in {"mem", "disk"}
      /\ UNCHANGED <<file, position, buf_index, call, block, sbuf, buf, hashed>>
  BY DEF CompareBlock, BlockRead, Running, blockVars
<1>2. /\ block \in Nat /\ block > 0 /\ done \in Nat /\ done + block <= call.len
      /\ call.at \in Nat /\ call.at + done + block <= SIZE
      /\ call.op = "disk" => call.keyAt \in Nat /\ call.keyAt + done + block <= SIZE
      /\ buf = KeyBlock <=> \A i \in 1 .. block : SameAt(done + i)
  BY <1>1, BlockCompared
<1>3. Matches(done)
  BY <1>1 DEF KeysInv, LoopInv
<1>4. call.len \in Nat
  BY DEF KeysInv, TypeOK, Lens
<1>5. CASE buf = KeyBlock
  <2>1. /\ done' = done + block /\ pc' = "loop" /\ answer' = answer /\ Running'
    BY <1>5 DEF CompareBlock, Running
  <2>2. \A i \in 1 .. done + block : SameAt(i)
    <3> TAKE i \in 1 .. done + block
    <3>1. CASE i <= done
      BY <1>2, <1>3, <3>1 DEF Matches
    <3>2. CASE i > done
      <4>1. i - done \in 1 .. block /\ done + (i - done) = i
        BY <1>2, <3>2
      <4> QED  BY <1>2, <1>5, <4>1
    <3> QED  BY <1>2, <3>1, <3>2
  <2>3. Matches(done)'
    BY <1>1, <2>1, <2>2 DEF Matches, SameAt
  <2>4. TypeOK'
    BY <1>1, <1>2, <2>1 DEF KeysInv, TypeOK
  <2>5. LoopInv'
    BY <1>1, <1>2, <2>1, <2>3 DEF LoopInv
  <2>6. HashInv' /\ BlockInv'
    BY <1>1, <2>1 DEF HashInv, BlockInv
  <2> QED  BY <1>1, <2>1, <2>4, <2>5, <2>6, InnerStep
<1>6. CASE buf # KeyBlock
  <2>1. Returns("differ") /\ answer' = "differ" /\ done' = done
    BY <1>6 DEF CompareBlock, Returns
  <2>2. PICK i \in 1 .. block : ~SameAt(done + i)
    BY <1>2, <1>6
  <2>3. done + i \in 1 .. call.len
    BY <1>2, <1>4
  <2>4. ~Matches(call.len)
    BY <2>2, <2>3 DEF Matches
  <2>5. CompareRight'
    BY <1>1, <2>1, <2>4 DEF CompareRight, Matches, SameAt
  <2>6. HashRight' /\ FormatErrorRight'
    BY <2>1 DEF HashRight, FormatErrorRight
  <2> QED
    BY <1>1, <2>1, <2>5, <2>6, ReturnStep DEF KeysInv, TypeOK, blockVars
<1> QED  BY <1>5, <1>6

-----------------------------------------------------------------------------
(* The maker, and what happens between the calls.                          *)
LEMMA WriteBlockStep ==
  ASSUME KeysInv, WriteBlock
  PROVE  KeysInv'
<1> USE KeysAssumption
<1> DEFINE n == Smaller(call.len - done, WRITE_BUF_SIZE - buf_index)
<1>1. /\ pc = "loop" /\ Running /\ call.op = "write" /\ done < call.len
      /\ hashed' = hashed \o KeyPart(done, n) /\ done' = done + n
      /\ UNCHANGED <<file, position, call, blockVars>>
  BY DEF WriteBlock, Running
<1>2. /\ call.len \in Nat /\ call.len = Len(call.key) /\ done \in Nat
      /\ buf_index \in 0 .. WRITE_BUF_SIZE
      /\ hashed = KeyPart(0, done)
  BY <1>1 DEF KeysInv, TypeOK, Lens, LoopInv, KeyInv
<1>3. /\ n \in Nat /\ done + n <= Len(call.key)
      /\ buf_index + n <= WRITE_BUF_SIZE
  BY <1>1, <1>2 DEF Smaller
<1>4. buf_index' \in 0 .. WRITE_BUF_SIZE
  BY <1>2, <1>3 DEF WriteBlock
<1> HIDE DEF n
<1>5. hashed' = KeyPart(0, done + n) /\ hashed' \in Seq(Byte)
  <2>1. /\ TypeOK /\ 0 \in Nat /\ 0 + done + n <= Len(call.key) /\ 0 + done = done
        /\ done + n \in Nat /\ 0 + (done + n) <= Len(call.key)
    BY <1>2, <1>3 DEF KeysInv
  <2>1a. PICK old \in Nat, more \in Nat : old = done /\ more = n
    BY <1>2, <1>3
  <2>1b. TypeOK /\ 0 \in Nat /\ 0 + old + more <= Len(call.key)
    BY <2>1, <2>1a
  <2>1c. KeyPart(0, old) \o KeyPart(0 + old, more) = KeyPart(0, old + more)
    BY <2>1b, KeyJoins
  <2>2. KeyPart(0, done) \o KeyPart(0 + done, n) = KeyPart(0, done + n)
    BY <2>1a, <2>1c
  <2>3. KeyPart(0, done + n) \in Seq(Byte)
    BY <2>1, KeyIsSeq
  <2> QED  BY <1>1, <1>2, <2>1, <2>2, <2>3
<1>6. CASE UNCHANGED <<pc, answer>>
  <2>1. TypeOK'
    BY <1>1, <1>2, <1>3, <1>4, <1>5, <1>6 DEF KeysInv, TypeOK, blockVars
  <2>2. hashed' = KeyPart(0, done)'
    BY <1>1, <1>5 DEF KeyPart
  <2>3. LoopInv' /\ HashInv' /\ BlockInv' /\ Running'
    BY <1>1, <1>6, <2>2 DEF LoopInv, HashInv, BlockInv, Running
  <2> QED  BY <1>1, <1>6, <2>1, <2>3, InnerStep
<1>7. CASE Returns("ioerror")
  <2>1. HashRight' /\ CompareRight' /\ FormatErrorRight'
    BY <1>7 DEF Returns, HashRight, CompareRight, FormatErrorRight
  <2>2. done' \in 0 .. call.len
    BY <1>1, <1>2, <1>3
  <2> QED  BY <1>1, <1>4, <1>5, <1>7, <2>1, <2>2, ReturnStep
<1> QED  BY <1>6, <1>7 DEF WriteBlock

LEMMA OverStep ==
  ASSUME KeysInv, Over \/ Moved
  PROVE  KeysInv'
<1> USE KeysAssumption
<1>1. CASE Over
  <2>1. /\ pc' = "idle" /\ call' = NoCall /\ answer' = "none" /\ done' = 0
        /\ block' = 0 /\ sbuf' = <<>> /\ buf' = <<>> /\ hashed' = <<>>
        /\ UNCHANGED <<file, position, buf_index>>
    BY <1>1 DEF Over
  <2>2. NoCall \in [op : {"none", "hash", "mem", "disk", "write"}, at : Offsets,
                    len : Lens, key : Key, keyAt : Offsets]
    BY DEF NoCall, Offsets, Lens, Key
  <2>3. TypeOK'
    BY <2>1, <2>2 DEF KeysInv, TypeOK, NoCall, Block
  <2> QED
    BY <2>1, <2>3
    DEF KeysInv, IdleInv, KeyInv, LoopInv, HashInv, BlockInv, HashRight,
        CompareRight, FormatErrorRight, Running, NoCall
<1>2. CASE Moved
  <2>1. /\ pc = "idle" /\ answer = "none" /\ position' \in Nat
        /\ buf_index' \in 0 .. WRITE_BUF_SIZE
        /\ UNCHANGED <<file, pc, call, done, block, sbuf, buf, hashed, answer>>
    BY <1>2 DEF Moved, KeysInv, IdleInv, Offsets, blockVars
  <2>2. TypeOK'
    BY <2>1 DEF KeysInv, TypeOK
  <2> QED
    BY <2>1, <2>2
    DEF KeysInv, IdleInv, KeyInv, LoopInv, HashInv, BlockInv, HashRight,
        CompareRight, FormatErrorRight, Running
<1> QED  BY <1>1, <1>2

LEMMA KeysInvNext ==
  ASSUME KeysInv, [Next]_vars
  PROVE  KeysInv'
<1>1. CASE UNCHANGED vars
  BY <1>1
  DEF vars, KeysInv, TypeOK, IdleInv, KeyInv, LoopInv, HashInv, BlockInv,
      BlockFrom, HashRight, CompareRight, FormatErrorRight, InFile, Matches,
      SameAt, Running, Content, KeyPart, blockVars
<1>2. CASE Next
  BY <1>2, CallSteps, LoopEndsStep, NextBlockStep, ReadKeyStep, ReadFileStep,
     AtEndStep, ReadFailsStep, KeyReadStep, HashBlockStep, CompareBlockStep,
     WriteBlockStep, OverStep
  DEF Next, Step
<1> QED  BY <1>1, <1>2

(* The variables stay within their types: no read goes beyond a buffer.    *)
THEOREM KeysTypeCorrect == Spec => []TypeOK
<1>1. KeysInv => TypeOK
  BY DEF KeysInv
<1> QED  BY <1>1, KeysInvInit, KeysInvNext, PTL DEF Spec

(* cdb32_hash_disk and cdb32_maker_buf_write hash exactly the key.         *)
THEOREM HashRightCorrect == Spec => []HashRight
<1>1. KeysInv => HashRight
  BY DEF KeysInv
<1> QED  BY <1>1, KeysInvInit, KeysInvNext, PTL DEF Spec

(* cdb32_cmp_key_mem and cdb32_cmp_key_disk compare all of two keys.       *)
THEOREM CompareRightCorrect == Spec => []CompareRight
<1>1. KeysInv => CompareRight
  BY DEF KeysInv
<1> QED  BY <1>1, KeysInvInit, KeysInvNext, PTL DEF Spec

(* cdb32_read reports a format error only for keys beyond the file's end.  *)
THEOREM FormatErrorRightCorrect == Spec => []FormatErrorRight
<1>1. KeysInv => FormatErrorRight
  BY DEF KeysInv
<1> QED  BY <1>1, KeysInvInit, KeysInvNext, PTL DEF Spec
=============================================================================
