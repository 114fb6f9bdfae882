---------------------------- MODULE MCCDB32Maker ----------------------------
(* Model values for CDB32Maker: words of three digits to the base 5, so     *)
(* that 125 bytes are what 2^32 bytes are for the program and the length of *)
(* a table may take two of its bytes; two tables, and three keys, two of    *)
(* which have the same hash and length.  The lengths are such that a file   *)
(* of up to six records can be full to the last byte.                       *)
EXTENDS CDB32Maker

KeyOf(byte) == [i \in 1 .. 12 |-> byte]

MCKeys == {<<>>, KeyOf(1), KeyOf(2)}
MCValues == {<<>>, [i \in 1 .. 23 |-> 3]}
MCHash == (<<>> :> 12) @@ (KeyOf(1) :> 15) @@ (KeyOf(2) :> 15)
=============================================================================
