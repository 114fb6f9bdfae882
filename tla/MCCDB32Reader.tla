---------------------------- MODULE MCCDB32Reader ----------------------------
(* Model values for CDB32Reader: 49 bytes are the largest file, which three *)
(* records can fill exactly.  Two keys of different length have the same    *)
(* hash, and so the same bucket.                                            *)
EXTENDS CDB32Reader

CONSTANTS i1
MCKeys == {<<>>, <<3>>, <<5>>}
MCValues == {<<>>, <<6>>}
MCHash == (<<>> :> 6) @@ (<<3>> :> 5) @@ (<<5>> :> 6)
MCIterators == {i1}
=============================================================================
