------------------------------ MODULE CDBCalls ------------------------------
(***************************************************************************)
(* Calls on one CDB instance by several threads, and by finalizers that    *)
(* the garbage collector runs in the middle of a call: the order of checks *)
(* and uses in cdbx/cdbtype.c and cdbx/cdbiter.c.  What the calls answer   *)
(* from an open file is the subject of CDB32Reader.                        *)
(*                                                                         *)
(* The extension never gives up the interpreter's lock itself.  A call is  *)
(* interrupted only where it asks the interpreter for something that may   *)
(* run Python code or collect garbage: the truth value of an argument, a   *)
(* new list, tuple or object, closing a stream.  These are the steps; a    *)
(* finalizer that runs inside a call is one more thread.                   *)
(***************************************************************************)
EXTENDS CDBThreads, Naturals

VARIABLES
  alive,        (* self->cdb32 is not NULL                                 *)
  stream,       (* the stream or descriptor is open                        *)
  released,     (* how often the reference to the stream has been dropped  *)
  iterator      (* there is an iterator                                    *)

vars == <<alive, fp, stream, released, iterator, pc, answer>>
instance == <<alive, fp, stream, released>>

Points == {"idle", "get_truth", "get_list", "iter_truth", "iter_alloc",
           "next_tuple", "close_stream"}
Answers == {"none", "value", "closed", "error", "crash", "crash_get"}

(* An instance with its stream, or one that was given a number to close.   *)
Init ==
  /\ alive = TRUE
  /\ fp \in BOOLEAN
  /\ stream = TRUE
  /\ released = 0
  /\ iterator = FALSE
  /\ pc = [t \in Threads |-> "idle"]
  /\ answer = [t \in Threads |-> "none"]

-----------------------------------------------------------------------------
(* Whatever reads the file goes through cdb32, which close() frees.  That  *)
(* get(all=...) does so too late is told apart.                            *)
Used == IF alive THEN "value" ELSE "crash"
UsedInGet == IF alive THEN "value" ELSE "crash_get"

(* get without all, contains, getitem, len, fileno: not interrupted *)
Lookup(t) ==
  /\ Begins(t)
  /\ Returns(t, IF alive THEN Used ELSE "closed")
  /\ UNCHANGED <<instance, iterator>>

(* CDBType_get with all *)
GetAll(t) ==
  /\ Begins(t)
  /\ IF alive THEN Interrupted(t, "get_truth") ELSE Returns(t, "closed")
  /\ UNCHANGED <<instance, iterator>>

GetTruth(t) ==
  /\ pc[t] = "get_truth"
  /\ \/ Returns(t, "error")
     \/ Returns(t, UsedInGet)
     \/ Interrupted(t, "get_list")
  /\ UNCHANGED <<instance, iterator>>

GetList(t) ==
  /\ pc[t] = "get_list"
  /\ Returns(t, UsedInGet)
  /\ UNCHANGED <<instance, iterator>>

(* CDBType_iter; CDBType_keys and CDBType_items with or without all; then  *)
(* cdbx_iter_new, which looks again once the iterator is allocated.        *)
Iterate(t) ==
  /\ Begins(t)
  /\ \/ ~alive /\ Returns(t, "closed")
     \/ alive /\ Interrupted(t, "iter_alloc")
     \/ alive /\ Interrupted(t, "iter_truth")
  /\ UNCHANGED <<instance, iterator>>

IterTruth(t) ==
  /\ pc[t] = "iter_truth"
  /\ Returns(t, "error") \/ Interrupted(t, "iter_alloc")
  /\ UNCHANGED <<instance, iterator>>

(* Variant: it does not look again. *)
IterNewUnchecked(t) ==
  /\ pc[t] = "iter_alloc"
  /\ Returns(t, Used)
  /\ iterator' = TRUE
  /\ UNCHANGED instance

IterNew(t) ==
  /\ pc[t] = "iter_alloc"
  /\ Returns(t, IF alive THEN Used ELSE "closed")
  /\ iterator' = (iterator \/ alive)
  /\ UNCHANGED instance

(* CDBIterType_iternext: the records are read before the tuple is made. *)
IterNext(t) ==
  /\ Begins(t) /\ iterator
  /\ IF ~alive THEN Returns(t, "closed")
     ELSE Returns(t, Used) \/ Interrupted(t, "next_tuple")
  /\ UNCHANGED <<instance, iterator>>

IterTuple(t) ==
  /\ pc[t] = "next_tuple"
  /\ Returns(t, "value") \/ Returns(t, "error")
  /\ UNCHANGED <<instance, iterator>>

-----------------------------------------------------------------------------
(* CDBType_close: the handle is freed and the stream is taken away before  *)
(* its close() is called.                                                  *)

(* Variant: the stream is taken away after its close(). *)
CloseKeeping(t) ==
  /\ Begins(t)
  /\ alive' = FALSE
  /\ IF fp THEN Interrupted(t, "close_stream") /\ UNCHANGED stream
     ELSE Returns(t, "value") /\ stream' = FALSE
  /\ UNCHANGED <<fp, released, iterator>>

(* Variant: the handle is freed afterwards. *)
CloseStreamFirst(t) ==
  /\ Begins(t)
  /\ stream' = FALSE
  /\ fp' = FALSE
  /\ IF fp THEN Interrupted(t, "close_stream") /\ UNCHANGED alive
     ELSE Returns(t, "value") /\ alive' = FALSE
  /\ UNCHANGED <<released, iterator>>

Close(t) ==
  /\ Begins(t)
  /\ alive' = FALSE
  /\ fp' = FALSE
  /\ IF fp THEN Interrupted(t, "close_stream") /\ UNCHANGED stream
     ELSE Returns(t, "value") /\ stream' = (stream /\ ~alive)
  /\ UNCHANGED <<released, iterator>>

CloseStream(t) ==
  /\ pc[t] = "close_stream"
  /\ stream' = FALSE
  /\ released' = released + 1
  /\ Returns(t, "value") \/ Returns(t, "error")
  /\ UNCHANGED <<alive, fp, iterator>>

Step(t) ==
  \/ Lookup(t)
  \/ GetAll(t) \/ GetTruth(t) \/ GetList(t)
  \/ Iterate(t) \/ IterTruth(t) \/ IterNew(t)
  \/ IterNext(t) \/ IterTuple(t)
  \/ Close(t) \/ CloseStream(t)

Next == \E t \in Threads : Step(t)

Spec == Init /\ [][Next]_vars

-----------------------------------------------------------------------------
TypeOK ==
  /\ alive \in BOOLEAN /\ fp \in BOOLEAN /\ stream \in BOOLEAN
  /\ iterator \in BOOLEAN
  /\ released \in {0, 1}
  /\ pc \in [Threads -> Points]
  /\ answer \in [Threads -> Answers]

(* No call goes on with a handle that was freed while it was interrupted:  *)
(* a call on a closed CDB is refused, wherever it was closed.  The code    *)
(* sees to it for every call but get(all=...).                             *)
CheckedUsed == \A t \in Threads : answer[t] # "crash"
OnlyOpenUsed == \A t \in Threads : answer[t] \notin {"crash", "crash_get"}

(* As long as calls may use the handle, the file below it is open: it is   *)
(* closed last.                                                            *)
FileUnderHandle == alive => stream

(* Whichever calls close the instance at the same time, exactly one of     *)
(* them closes the stream and gives up the instance's reference to it.     *)
ReleasedOnce ==
  /\ fp => released = 0
  /\ \A t, u \in Threads :
       pc[t] = "close_stream" /\ pc[u] = "close_stream" => t = u
=============================================================================
