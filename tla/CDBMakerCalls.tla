--------------------------- MODULE CDBMakerCalls ---------------------------
(***************************************************************************)
(* Calls on one CDBMaker by several threads: cdbx/cdbmaker.c, for a maker  *)
(* that was given a name.  As in CDBCalls, a call is interrupted where it  *)
(* asks the interpreter for something: commit() while it makes the CDB     *)
(* instance, close() while the stream is closed and the file unlinked.     *)
(* What is written into the file is the subject of CDB32Maker.             *)
(***************************************************************************)
EXTENDS CDBThreads

VARIABLES
  flags,        (* self->flags                                             *)
  maker32,      (* self->maker32 is not NULL                               *)
  filename,     (* self->filename is not NULL                              *)
  path,         (* the file is there                                       *)
  failed,       (* closing the stream or removing the file has failed      *)
  made          (* the threads that commit() has returned an instance to   *)

makerVars == <<flags, maker32, fp, filename, path, failed, made, pc, answer>>
makerObject == <<flags, maker32, fp>>
file == <<filename, path, failed>>

Flags == {"DESTROY", "CLOSED", "COMMITTED", "ERROR"}
MakerPoints == {"idle", "commit_new", "commit_made", "commit_close", "close", "unlink"}
MakerAnswers == {"none", "done", "instance", "closed", "error", "crash"}

MakerInit ==
  /\ flags = {"DESTROY"}
  /\ maker32 = TRUE /\ fp = TRUE
  /\ filename = TRUE /\ path = TRUE /\ failed = FALSE
  /\ made = {}
  /\ pc = [t \in Threads |-> "idle"]
  /\ answer = [t \in Threads |-> "none"]

-----------------------------------------------------------------------------
MakerUsed == IF maker32 THEN "done" ELSE "crash"

(* Variant: only the commit counts. *)
RefusedOnceCommitted == flags \intersect {"COMMITTED", "ERROR"} # {}

Refused == flags \intersect {"CLOSED", "COMMITTED", "ERROR"} # {}

MakerAdd(t) ==
  /\ Begins(t)
  /\ \/ Refused /\ Returns(t, "closed") /\ UNCHANGED makerObject
     \/ ~Refused /\ Returns(t, MakerUsed) /\ UNCHANGED makerObject
     \/ /\ ~Refused
        /\ Returns(t, "error")
        /\ flags' = flags \union {"ERROR"}
        /\ UNCHANGED <<maker32, fp>>
  /\ UNCHANGED <<file, made>>

Fileno(t) ==
  /\ Begins(t)
  /\ Returns(t, IF "CLOSED" \in flags THEN "closed" ELSE MakerUsed)
  /\ UNCHANGED <<makerObject, file, made>>

-----------------------------------------------------------------------------
(* CDBMakerType_commit: the file is completed and synced in one go.        *)
CommitRefused(t) ==
  /\ Begins(t)
  /\ Refused
  /\ Returns(t, "closed")
  /\ UNCHANGED <<makerObject, file, made>>

(* Variant: the maker counts as committed when all is done. *)
CommittedLater == flags

(* Variant: the file is not to be destroyed from now on. *)
CommittedKept == (flags \ {"DESTROY"}) \union {"COMMITTED"}

Committed == flags \union {"COMMITTED"}

Commit(t) ==
  /\ Begins(t)
  /\ ~Refused
  /\ \/ ~maker32 /\ Returns(t, "crash") /\ UNCHANGED flags
     \/ maker32 /\ flags' = flags \union {"ERROR"} /\ Returns(t, "error")
     \/ maker32 /\ flags' = Committed /\ Returns(t, "error")
     \/ maker32 /\ flags' = Committed /\ Interrupted(t, "commit_new")
  /\ UNCHANGED <<maker32, fp, file, made>>

CommitNew(t) ==
  /\ pc[t] = "commit_new"
  /\ \/ path /\ Interrupted(t, "commit_made")
     \/ Returns(t, "error")
  /\ UNCHANGED <<makerObject, file, made>>

(* The file is handed over to the instance, and CDBMakerType_close called. *)
CommitClose(t) ==
  /\ pc[t] = "commit_made"
  /\ flags' = (flags \ {"DESTROY"}) \union {"CLOSED"}
  /\ maker32' = FALSE
  /\ fp' = FALSE
  /\ IF fp THEN Interrupted(t, "commit_close") /\ UNCHANGED made
     ELSE Returns(t, "instance") /\ made' = made \union {t}
  /\ UNCHANGED file

CommitReturns(t) ==
  /\ pc[t] = "commit_close"
  /\ \/ Returns(t, "instance") /\ made' = made \union {t} /\ UNCHANGED failed
     \/ Returns(t, "error") /\ failed' = TRUE /\ UNCHANGED made
  /\ UNCHANGED <<makerObject, filename, path>>

-----------------------------------------------------------------------------
(* CDBMakerType_close *)

MakerClose(t) ==
  /\ Begins(t)
  /\ flags' = flags \union {"CLOSED"}
  /\ maker32' = FALSE
  /\ fp' = FALSE
  /\ IF fp THEN Interrupted(t, "close") ELSE Returns(t, "done")
  /\ UNCHANGED <<file, made>>

MakerCloseStream(t) ==
  /\ pc[t] = "close"
  /\ \/ Returns(t, "error") /\ failed' = TRUE /\ UNCHANGED filename
     \/ /\ IF "DESTROY" \in flags /\ filename
           THEN Interrupted(t, "unlink") /\ filename' = FALSE
           ELSE Returns(t, "done") /\ UNCHANGED filename
        /\ UNCHANGED failed
  /\ UNCHANGED <<makerObject, path, made>>

Unlink(t) ==
  /\ pc[t] = "unlink"
  /\ \/ path' = FALSE /\ Returns(t, "done") /\ UNCHANGED failed
     \/ failed' = TRUE /\ Returns(t, "error") /\ UNCHANGED path
  /\ UNCHANGED <<makerObject, filename, made>>

MakerStep(t) ==
  \/ MakerAdd(t) \/ Fileno(t)
  \/ CommitRefused(t) \/ Commit(t) \/ CommitNew(t) \/ CommitClose(t) \/ CommitReturns(t)
  \/ MakerClose(t) \/ MakerCloseStream(t) \/ Unlink(t)

MakerNext == \E t \in Threads : MakerStep(t)

MakerSpec == MakerInit /\ [][MakerNext]_makerVars

-----------------------------------------------------------------------------
(* Types; the flag that calls look at and the pointer that they use agree. *)
MakerTypeOK ==
  /\ flags \subseteq Flags
  /\ "CLOSED" \in flags <=> ~maker32
  /\ maker32 \in BOOLEAN /\ fp \in BOOLEAN
  /\ filename \in BOOLEAN /\ path \in BOOLEAN /\ failed \in BOOLEAN
  /\ made \subseteq Threads
  /\ pc \in [Threads -> MakerPoints]
  /\ answer \in [Threads -> MakerAnswers]

(* No call uses the freed maker32: the flags that the calls look at are    *)
(* set before a call is interrupted.                                       *)
MakerOnlyOpenUsed == \A t \in Threads : answer[t] # "crash"

(* A file is committed once, by one of the calls, whichever are made at    *)
(* the same time.                                                          *)
CommittedOnce ==
  \A t, u \in Threads :
    pc[t] \in {"commit_new", "commit_made", "commit_close"} =>
      /\ made = {}
      /\ pc[u] \in {"commit_new", "commit_made", "commit_close"} => t = u

(* When the maker is closed and its calls are over, the file of a maker    *)
(* that has returned no instance is gone (unless closing the stream or     *)
(* removing the file has failed).                                          *)
UncommittedGone ==
  "CLOSED" \in flags /\ (\A t \in Threads : pc[t] = "idle") /\ made = {} /\ ~failed =>
    ~path
=============================================================================
