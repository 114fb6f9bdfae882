----------------------------- MODULE MCCDBCalls -----------------------------
(* Model values for CDBCalls: three threads *)
EXTENDS CDBCalls, TLC

CONSTANTS t1, t2, t3
MCThreads == {t1, t2, t3}
Symmetric == Permutations(MCThreads)
=============================================================================
