----------------------------- MODULE CDBThreads -----------------------------
(***************************************************************************)
(* What the calls on a CDB (CDBCalls) and on a CDBMaker (CDBMakerCalls)    *)
(* have in common: a thread begins a call, is interrupted where the call   *)
(* asks the interpreter for something that may run Python code or give up  *)
(* the interpreter's lock, goes on, and returns.                           *)
(***************************************************************************)
CONSTANT Threads   (* threads, and finalizers that run inside of a call *)

VARIABLES
  fp,           (* self->fp is not NULL                                    *)
  pc,           (* where each thread has been interrupted                  *)
  answer        (* what the last call of each thread has returned          *)

Begins(t) == pc[t] = "idle"

Interrupted(t, at) ==
  /\ pc' = [pc EXCEPT ![t] = at]
  /\ UNCHANGED answer

Returns(t, result) ==
  /\ pc' = [pc EXCEPT ![t] = "idle"]
  /\ answer' = [answer EXCEPT ![t] = result]
=============================================================================
