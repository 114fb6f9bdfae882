----------------------------- MODULE CDB32Keys -----------------------------
(***************************************************************************)
(* Keys that are hashed and compared piece by piece: cdb32_hash_disk,      *)
(* cdb32_cmp_key_mem, cdb32_cmp_key_disk and the hashing in                *)
(* cdb32_maker_buf_write of cdbx/cdb32.c, down to single read(2) calls.    *)
(* CDB32Find and CDB32Maker take each of them in one go.                   *)
(*                                                                         *)
(* The descriptor's position belongs to everyone who has the descriptor:   *)
(* other instances on the same file, the rest of the program.  They move   *)
(* it between two calls, not during one, which keeps the interpreter's     *)
(* lock.                                                                   *)
(*                                                                         *)
(* A hash mixes in one byte after the other and depends on nothing but     *)
(* these bytes and their order, so it is represented by the sequence of    *)
(* them: cdb32_hash_mem(key) is key.                                       *)
(***************************************************************************)
EXTENDS Integers, Sequences

CONSTANTS
  Byte,          (* the values of a byte                                   *)
  SIZE,          (* length of the file                                     *)
  MaxLen,        (* bound on the length of a key                           *)
  HASH_BLOCK,    (* sizeof buf in cdb32_hash_disk                          *)
  MEM_BLOCK,     (* sizeof buf in cdb32_cmp_key_mem                        *)
  DISK_BLOCK,    (* sizeof sbuf in cdb32_cmp_key_disk                      *)
  WRITE_BUF_SIZE (* CDB32_WRITE_BUF_SIZE                                   *)

ASSUME KeysAssumption ==
  /\ SIZE \in Nat /\ MaxLen \in Nat
  /\ HASH_BLOCK \in Nat \ {0} /\ MEM_BLOCK \in Nat \ {0}
  /\ DISK_BLOCK \in Nat \ {0} /\ WRITE_BUF_SIZE \in Nat \ {0}

VARIABLES
  file,         (* the bytes, the one at offset o is file[o + 1]           *)
  position,     (* the descriptor's file offset                            *)
  buf_index,    (* bytes in the maker's write buffer                       *)
  pc,           (* where the call is                                       *)
  call,         (* its name and arguments                                  *)
  done,         (* how far offset and key have been moved on               *)
  block,        (* buflen                                                  *)
  sbuf,         (* cdb32_cmp_key_disk: the block of the key                *)
  buf,          (* the block of the file                                   *)
  hashed,       (* the bytes that result has mixed in                      *)
  answer        (* what the call has returned                              *)

vars == <<file, position, buf_index, pc, call, done, block, sbuf, buf, hashed,
          answer>>
blockVars == <<block, sbuf, buf>>

Offsets == 0 .. SIZE
Lens == 0 .. MaxLen
Key == UNION {[1 .. n -> Byte] : n \in Lens}

Block == [hash |-> HASH_BLOCK, mem |-> MEM_BLOCK, disk |-> DISK_BLOCK]
NoCall == [op |-> "none", at |-> 0, len |-> 0, key |-> <<>>, keyAt |-> 0]

Smaller(m, n) == IF m < n THEN m ELSE n

(* n bytes of the file, and of the key in memory. *)
Content(at, n) == [i \in 1 .. n |-> file[at + i]]
KeyPart(at, n) == [i \in 1 .. n |-> call.key[at + i]]

Init ==
  /\ file \in [1 .. SIZE -> Byte]
  /\ position \in Offsets
  /\ buf_index \in 0 .. WRITE_BUF_SIZE
  /\ pc = "idle"
  /\ call = NoCall
  /\ done = 0
  /\ block = 0
  /\ sbuf = <<>>
  /\ buf = <<>>
  /\ hashed = <<>>
  /\ answer = "none"

-----------------------------------------------------------------------------
(* The calls.                                                              *)
Calls(c) ==
  /\ pc = "idle"
  /\ call' = c
  /\ UNCHANGED <<file, buf_index, done, blockVars, hashed>>

Loops == pc' = "loop" /\ UNCHANGED answer

Returns(result) == pc' = "over" /\ answer' = result

(* cdb32_hash_disk moves to the key once.  (Variant: it does not.) *)
HashDiskHere(at, len) ==
  /\ Calls([NoCall EXCEPT !.op = "hash", !.at = at, !.len = len])
  /\ Loops
  /\ UNCHANGED position

HashDisk(at, len) ==
  /\ Calls([NoCall EXCEPT !.op = "hash", !.at = at, !.len = len])
  /\ Loops
  /\ position' = IF len > 0 THEN at ELSE position

CmpKeyMem(at, key) ==
  /\ Calls([NoCall EXCEPT !.op = "mem", !.at = at, !.key = key, !.len = Len(key)])
  /\ Loops
  /\ UNCHANGED position

CmpKeyDisk(at, keyAt, len) ==
  /\ Calls([NoCall EXCEPT !.op = "disk", !.at = at, !.keyAt = keyAt, !.len = len])
  /\ IF at = keyAt THEN Returns("match") ELSE Loops
  /\ UNCHANGED position

(* cdb32_maker_buf_write, for a key *)
BufWrite(key) ==
  /\ Calls([NoCall EXCEPT !.op = "write", !.key = key, !.len = Len(key)])
  /\ Loops
  /\ UNCHANGED position

-----------------------------------------------------------------------------
(* The loops, block by block.                                              *)
LoopEnds ==
  /\ pc = "loop"
  /\ done = call.len
  /\ Returns(IF call.op \in {"hash", "write"} THEN "hashed" ELSE "match")
  /\ UNCHANGED <<file, position, buf_index, call, done, blockVars, hashed>>

(* Hashing goes on where it is, comparing moves each time.  (Variant:      *)
(* hashing moves too, but always to the same place.)                       *)
BlockAtOffset ==
  CASE call.op = "hash" -> call.at
    [] call.op = "mem"  -> call.at + done
    [] call.op = "disk" -> call.keyAt + done

BlockAt ==
  CASE call.op = "hash" -> position
    [] call.op = "mem"  -> call.at + done
    [] call.op = "disk" -> call.keyAt + done

NextBlock ==
  /\ pc = "loop"
  /\ done < call.len /\ call.op # "write"
  /\ block' = Smaller(Block[call.op], call.len - done)
  /\ sbuf' = <<>>
  /\ buf' = <<>>
  /\ pc' = IF call.op = "disk" THEN "key" ELSE "read"
  /\ position' = BlockAt
  /\ UNCHANGED <<file, buf_index, call, done, hashed, answer>>

(* read(2) for a buffer returns some of the bytes that are missing ... *)
Missing(b) == block - Len(b)

Reads(n) == n \in 1 .. SIZE - position /\ position' = position + n

ReadKey ==
  /\ pc = "key"
  /\ Missing(sbuf) > 0
  /\ \E n \in 1 .. Missing(sbuf) : Reads(n) /\ sbuf' = sbuf \o Content(position, n)
  /\ UNCHANGED <<file, buf_index, pc, call, done, block, buf, hashed, answer>>

ReadFile ==
  /\ pc = "read"
  /\ Missing(buf) > 0
  /\ \E n \in 1 .. Missing(buf) : Reads(n) /\ buf' = buf \o Content(position, n)
  /\ UNCHANGED <<file, buf_index, pc, call, done, block, sbuf, hashed, answer>>

Reading ==
  \/ pc = "key" /\ Missing(sbuf) > 0
  \/ pc = "read" /\ Missing(buf) > 0

(* ... or none at the end of the file (variants: that is tried again; a    *)
(* read that returns less than was asked for counts as the end), or fails. *)
AtEndAgain == Reading /\ position >= SIZE /\ UNCHANGED vars

AtEndShort ==
  /\ Reading
  /\ position >= SIZE \/ buf # <<>>
  /\ Returns("format")
  /\ UNCHANGED <<file, position, buf_index, call, done, blockVars, hashed>>

AtEnd ==
  /\ Reading
  /\ position >= SIZE
  /\ Returns("format")
  /\ UNCHANGED <<file, position, buf_index, call, done, blockVars, hashed>>

ReadFails ==
  /\ Reading
  /\ Returns("ioerror")
  /\ UNCHANGED <<file, position, buf_index, call, done, blockVars, hashed>>

(* Variant: the file is read on from there. *)
KeyReadOn ==
  /\ pc = "key"
  /\ Missing(sbuf) = 0
  /\ pc' = "read"
  /\ UNCHANGED <<file, position, buf_index, call, done, blockVars, hashed, answer>>

(* The block of the key on disk is complete. *)
KeyRead ==
  /\ pc = "key"
  /\ Missing(sbuf) = 0
  /\ position' = call.at + done
  /\ pc' = "read"
  /\ UNCHANGED <<file, buf_index, call, done, blockVars, hashed, answer>>

(* The block is complete. *)
BlockRead == pc = "read" /\ Missing(buf) = 0

HashBlock ==
  /\ BlockRead /\ call.op = "hash"
  /\ hashed' = hashed \o buf
  /\ done' = done + block
  /\ pc' = "loop"
  /\ UNCHANGED <<file, position, buf_index, call, blockVars, answer>>

(* Variant: key is not moved on. *)
KeyBlockFirst == IF call.op = "mem" THEN KeyPart(0, block) ELSE sbuf

KeyBlock == IF call.op = "mem" THEN KeyPart(done, block) ELSE sbuf

CompareBlock ==
  /\ BlockRead /\ call.op \in {"mem", "disk"}
  /\ IF buf = KeyBlock THEN done' = done + block /\ pc' = "loop" /\ UNCHANGED answer
     ELSE Returns("differ") /\ UNCHANGED done
  /\ UNCHANGED <<file, position, buf_index, call, blockVars, hashed>>

(* The maker's buffer takes what fits, and is flushed when it is full. *)
WriteBlock ==
  LET n == Smaller(call.len - done, WRITE_BUF_SIZE - buf_index)
      full == buf_index + n = WRITE_BUF_SIZE
  IN  /\ pc = "loop" /\ call.op = "write"
      /\ done < call.len
      /\ hashed' = hashed \o KeyPart(done, n)
      /\ done' = done + n
      /\ buf_index' = IF full THEN 0 ELSE buf_index + n
      /\ \/ UNCHANGED <<pc, answer>>
         \/ full /\ Returns("ioerror")
      /\ UNCHANGED <<file, position, call, blockVars>>

Step ==
  \/ LoopEnds \/ NextBlock
  \/ ReadKey \/ ReadFile \/ AtEnd
  \/ KeyRead \/ HashBlock \/ CompareBlock \/ WriteBlock

(* Before the next call, others move the descriptor, and the maker packs   *)
(* lengths into its buffer.                                                *)
Over ==
  /\ pc = "over"
  /\ pc' = "idle" /\ call' = NoCall /\ answer' = "none"
  /\ done' = 0 /\ block' = 0
  /\ sbuf' = <<>> /\ buf' = <<>> /\ hashed' = <<>>
  /\ UNCHANGED <<file, position, buf_index>>

Moved ==
  /\ pc = "idle"
  /\ position' \in Offsets
  /\ buf_index' \in 0 .. WRITE_BUF_SIZE
  /\ UNCHANGED <<file, pc, call, done, blockVars, hashed, answer>>

Next ==
  \/ \E at \in Offsets, len \in Lens : HashDisk(at, len)
  \/ \E at \in Offsets, key \in Key : CmpKeyMem(at, key)
  \/ \E at, keyAt \in Offsets, len \in Lens : CmpKeyDisk(at, keyAt, len)
  \/ \E key \in Key : BufWrite(key)
  \/ Step
  \/ ReadFails
  \/ Over \/ Moved

(* A call is C code that runs on as long as read(2) returns, which need    *)
(* not fail.                                                               *)
Spec == Init /\ [][Next]_vars /\ WF_vars(Step)

-----------------------------------------------------------------------------
(* Types; no block is read beyond the buffer for it.                       *)
TypeOK ==
  /\ file \in [1 .. SIZE -> Byte]
  /\ position \in Nat
  /\ buf_index \in 0 .. WRITE_BUF_SIZE
  /\ pc \in {"idle", "loop", "key", "read", "over"}
  /\ call \in [op : {"none", "hash", "mem", "disk", "write"}, at : Offsets,
               len : Lens, key : Key, keyAt : Offsets]
  /\ done \in 0 .. call.len
  /\ block \in 0 .. call.len
  /\ call.op \in DOMAIN Block => block <= Block[call.op]
  /\ buf \in Seq(Byte) /\ Len(buf) <= block
  /\ sbuf \in Seq(Byte) /\ Len(sbuf) <= block
  /\ hashed \in Seq(Byte)
  /\ answer \in {"none", "hashed", "match", "differ", "format", "ioerror"}

InFile(at) == at + call.len <= SIZE

(* However a key is cut into blocks, into reads and by the write buffer,   *)
(* and wherever the descriptor stood: its hash is the hash of its bytes,   *)
(* the same for the maker that wrote it and an iterator that reads it.     *)
HashRight ==
  answer = "hashed" =>
    IF call.op = "write" THEN hashed = call.key
    ELSE InFile(call.at) /\ hashed = Content(call.at, call.len)

(* Two keys match if and only if all their bytes are the same; a key is not *)
(* read to be compared with itself.                                         *)
SameAt(i) ==
  file[call.at + i]
    = IF call.op = "mem" THEN call.key[i] ELSE file[call.keyAt + i]

Matches(n) == \A i \in 1 .. n : SameAt(i)

CompareRight ==
  /\ answer = "match" /\ ~(call.op = "disk" /\ call.at = call.keyAt) =>
       InFile(call.at) /\ Matches(call.len)
  /\ answer = "differ" => ~Matches(call.len)

(* A file is found damaged only if the key reaches beyond its end: a short *)
(* read is not taken for the end of the file.                              *)
FormatErrorRight ==
  answer = "format" =>
    ~InFile(call.at) \/ (call.op = "disk" /\ ~InFile(call.keyAt))

(* Every call comes back, from a damaged file too. *)
CallEnds == pc = "loop" ~> pc = "over"
=============================================================================
