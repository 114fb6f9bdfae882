-------------------------- MODULE MCCDBMakerCalls --------------------------
(* Model values for CDBMakerCalls: three threads *)
EXTENDS CDBMakerCalls, TLC

CONSTANTS t1, t2, t3
MCThreads == {t1, t2, t3}
Symmetric == Permutations(MCThreads)
=============================================================================
