---------------------------- MODULE MCCDBPublish ----------------------------
(* Model values for CDBPublish: two makers, so that one can be abandoned,  *)
(* a reader, and a file for each name, for the reader and to spare.        *)
EXTENDS CDBPublish, TLC

CONSTANTS m1, m2, r1, i1, i2, i3, i4
MCMakers == {m1, m2}
MCReaders == {r1}
MCInodes == {i1, i2, i3, i4}
Symmetric == Permutations(MCMakers) \union Permutations(MCInodes)
=============================================================================
