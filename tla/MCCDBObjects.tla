---------------------------- MODULE MCCDBObjects ----------------------------
(* Model values for CDBObjects: up to two instances and two files that can *)
(* have the name.                                                          *)
EXTENDS CDBObjects, TLC

CONSTANTS c1, c2, f1, f2
OneCdb == {c1}
TwoCdbs == {c1, c2}
OneFile == {f1}
TwoFiles == {f1, f2}
Symmetric == Permutations(TwoCdbs) \union Permutations(TwoFiles)
=============================================================================
