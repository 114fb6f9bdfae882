------------------------ MODULE CDBConcurrencyProofs ------------------------
(***************************************************************************)
(* What happens at the same time: the calls of threads on an instance and  *)
(* on a maker, and processes that replace and read a database.             *)
(*                                                                         *)
(* For any threads: the stream of an instance is released once and after   *)
(* the handle, and no call but get(all=...) uses a freed handle; no call   *)
(* of a maker uses the freed maker32, commit is in progress in one thread  *)
(* only, before any instance is returned, and a file without an instance   *)
(* is unlinked.  For any makers, readers and files: readers see whole      *)
(* databases only.                                                         *)
(***************************************************************************)
EXTENDS CDBCalls, CDBMakerCalls, CDBPublish, TLAPS

-----------------------------------------------------------------------------
(* Calls on one instance (CDBCalls)                                        *)

(* While a stream is closed, the handle is gone already, and the stream    *)
(* has not been given up yet.                                              *)
ClosingFreed ==
  \A t \in Threads : pc[t] = "close_stream" => ~alive /\ ~fp /\ released = 0

CallsInv == TypeOK /\ FileUnderHandle /\ ReleasedOnce /\ ClosingFreed

LEMMA CallsInvInit == Init => CallsInv
  BY DEF Init, CallsInv, TypeOK, FileUnderHandle, ReleasedOnce, ClosingFreed,
         Points, Answers

(* A step that neither closes nor leaves or enters close_stream.           *)
LEMMA QuietStep ==
  ASSUME CallsInv, NEW t \in Threads, NEW at \in Points \ {"close_stream"},
         UNCHANGED instance, iterator' \in BOOLEAN,
         pc[t] # "close_stream",
         pc' = [pc EXCEPT ![t] = at],
         answer' \in [Threads -> Answers]
  PROVE  CallsInv'
<1>1. TypeOK'
  BY DEF CallsInv, TypeOK, instance, Points
<1>2. FileUnderHandle'
  BY DEF CallsInv, FileUnderHandle, instance
<1>3. \A u \in Threads : pc'[u] = "close_stream" => pc[u] = "close_stream"
  BY DEF CallsInv, TypeOK, Points
<1>4. ReleasedOnce'
  BY <1>3 DEF CallsInv, ReleasedOnce, instance
<1>5. ClosingFreed'
  BY <1>3 DEF CallsInv, ClosingFreed, instance
<1> QED  BY <1>1, <1>2, <1>4, <1>5 DEF CallsInv

LEMMA ReturnsTyped ==
  ASSUME TypeOK, NEW t \in Threads, NEW result \in Answers, Returns(t, result)
  PROVE  /\ pc' = [pc EXCEPT ![t] = "idle"]
         /\ answer' \in [Threads -> Answers]
  BY DEF TypeOK, Returns

LEMMA InterruptedTyped ==
  ASSUME TypeOK, NEW t \in Threads, NEW at, Interrupted(t, at)
  PROVE  /\ pc' = [pc EXCEPT ![t] = at]
         /\ answer' \in [Threads -> Answers]
  BY DEF TypeOK, Interrupted

(* What the actions that leave the instance alone have in common.          *)
LEMMA QuietActions ==
  ASSUME CallsInv, NEW t \in Threads,
         \/ Lookup(t) \/ GetAll(t) \/ GetTruth(t) \/ GetList(t)
         \/ Iterate(t) \/ IterTruth(t) \/ IterNew(t)
         \/ IterNext(t) \/ IterTuple(t)
  PROVE  CallsInv'
<1>1. UNCHANGED instance
  BY DEF Lookup, GetAll, GetTruth, GetList, Iterate, IterTruth, IterNew,
         IterNext, IterTuple
<1>2. iterator' \in BOOLEAN
  BY DEF Lookup, GetAll, GetTruth, GetList, Iterate, IterTruth, IterNew,
         IterNext, IterTuple, CallsInv, TypeOK
<1>3. pc[t] # "close_stream"
  BY DEF Lookup, GetAll, GetTruth, GetList, Iterate, IterTruth, IterNew,
         IterNext, IterTuple, Begins
<1>4. \/ \E result \in Answers : Returns(t, result)
      \/ \E at \in Points \ {"close_stream"} : Interrupted(t, at)
  BY DEF Lookup, GetAll, GetTruth, GetList, Iterate, IterTruth, IterNew,
         IterNext, IterTuple, Used, UsedInGet, Answers, Points
<1>5. \E at \in Points \ {"close_stream"} :
        pc' = [pc EXCEPT ![t] = at] /\ answer' \in [Threads -> Answers]
  BY <1>4, ReturnsTyped, InterruptedTyped DEF CallsInv, Points
<1> QED  BY <1>1, <1>2, <1>3, <1>5, QuietStep

LEMMA CloseStep ==
  ASSUME CallsInv, NEW t \in Threads, Close(t)
  PROVE  CallsInv'
<1>1. pc[t] = "idle" /\ pc \in [Threads -> Points]
  BY DEF Close, Begins, CallsInv, TypeOK
<1>2. CASE fp
  <2>1. pc' = [pc EXCEPT ![t] = "close_stream"] /\ UNCHANGED <<stream, released, iterator, answer>>
    BY <1>2 DEF Close, Interrupted
  <2>2. ~alive' /\ ~fp' /\ released' = 0
    BY <1>2, <2>1 DEF Close, CallsInv, ReleasedOnce
  <2>3. \A u \in Threads : pc[u] # "close_stream"
    BY <1>2 DEF CallsInv, ClosingFreed
  <2>4. \A u \in Threads : pc'[u] = "close_stream" => u = t
    BY <2>1, <2>3, <1>1
  <2>5. TypeOK'
    BY <2>1, <2>2, <1>1 DEF CallsInv, TypeOK, Points, Close
  <2> QED
    BY <2>1, <2>2, <2>4, <2>5
    DEF CallsInv, FileUnderHandle, ReleasedOnce, ClosingFreed
<1>3. CASE ~fp
  <2>1. /\ Returns(t, "value") /\ stream' = (stream /\ ~alive)
        /\ alive' = FALSE /\ fp' = FALSE /\ UNCHANGED <<released, iterator>>
    BY <1>3 DEF Close
  <2>2. pc' = [pc EXCEPT ![t] = "idle"] /\ answer' \in [Threads -> Answers]
    BY <2>1, ReturnsTyped DEF CallsInv, Answers
  <2>3. \A u \in Threads : pc'[u] = "close_stream" => pc[u] = "close_stream"
    BY <2>2, <1>1
  <2>4. stream' \in BOOLEAN
    BY <2>1, Zenon
  <2>5. TypeOK'
    BY <2>1, <2>2, <2>4, <1>1 DEF CallsInv, TypeOK, Points
  <2>6. ReleasedOnce'
    BY <2>1, <2>3, <1>3 DEF CallsInv, ReleasedOnce
  <2>7. ClosingFreed'
    BY <2>1, <2>3 DEF CallsInv, ClosingFreed
  <2> QED
    BY <2>1, <2>5, <2>6, <2>7 DEF CallsInv, FileUnderHandle
<1> QED  BY <1>2, <1>3

LEMMA CloseStreamStep ==
  ASSUME CallsInv, NEW t \in Threads, CloseStream(t)
  PROVE  CallsInv'
<1>1. pc[t] = "close_stream" /\ ~alive /\ ~fp /\ released = 0
  BY DEF CloseStream, CallsInv, ReleasedOnce, ClosingFreed
<1>2. /\ stream' = FALSE /\ released' = 1
      /\ UNCHANGED <<alive, fp, iterator>>
  BY <1>1 DEF CloseStream
<1>3. pc' = [pc EXCEPT ![t] = "idle"] /\ answer' \in [Threads -> Answers]
  BY ReturnsTyped DEF CloseStream, CallsInv, Answers
<1>4. \A u \in Threads : pc'[u] # "close_stream"
  BY <1>1, <1>3 DEF CallsInv, ReleasedOnce, TypeOK
<1>5. TypeOK'
  BY <1>2, <1>3 DEF CallsInv, TypeOK, Points
<1> QED
  BY <1>1, <1>2, <1>4, <1>5
  DEF CallsInv, FileUnderHandle, ReleasedOnce, ClosingFreed

LEMMA CallsInvNext ==
  ASSUME CallsInv, [Next]_vars
  PROVE  CallsInv'
<1>1. CASE UNCHANGED vars
  BY <1>1 DEF vars, CallsInv, TypeOK, FileUnderHandle, ReleasedOnce, ClosingFreed
<1>2. CASE Next
  BY <1>2, QuietActions, CloseStep, CloseStreamStep DEF Next, Step
<1> QED  BY <1>1, <1>2

(* The variables stay within their types. *)
THEOREM CallsTypeCorrect == Spec => []TypeOK
<1>1. CallsInv => TypeOK
  BY DEF CallsInv
<1> QED  BY <1>1, CallsInvInit, CallsInvNext, PTL DEF Spec

(* CDBType_close frees the handle before it closes the file.               *)
THEOREM FileUnderHandleCorrect == Spec => []FileUnderHandle
<1>1. CallsInv => FileUnderHandle
  BY DEF CallsInv
<1> QED  BY <1>1, CallsInvInit, CallsInvNext, PTL DEF Spec

(* Any number of CDBType_close calls at the same time closes the stream    *)
(* once.                                                                   *)
THEOREM ReleasedOnceCorrect == Spec => []ReleasedOnce
<1>1. CallsInv => ReleasedOnce
  BY DEF CallsInv
<1> QED  BY <1>1, CallsInvInit, CallsInvNext, PTL DEF Spec

-----------------------------------------------------------------------------
(* Every call but get(all=...) looks at the handle after its last          *)
(* interruption, and none of them uses a freed one.                        *)
THEOREM CheckedUsedCorrect == Spec => []CheckedUsed
<1> DEFINE Survived == Answers \ {"crash"}
           Inv == answer \in [Threads -> Survived]
<1>1. Init => Inv
  BY DEF Init, Answers
<1>2. ASSUME Inv, [Next]_vars
      PROVE  Inv'
  <2>1. CASE UNCHANGED vars
    BY <1>2, <2>1 DEF vars
  <2>2. ASSUME NEW t \in Threads, Step(t)
        PROVE  Inv'
    <3>1. \/ \E result \in Survived : Returns(t, result)
          \/ UNCHANGED answer
      BY <2>2
      DEF Step, Lookup, GetAll, GetTruth, GetList, Iterate, IterTruth, IterNew,
          IterNext, IterTuple, Close, CloseStream, Used, UsedInGet, Answers,
          Interrupted
    <3> QED  BY <1>2, <3>1 DEF Returns
  <2> QED  BY <1>2, <2>1, <2>2 DEF Next
<1>3. Inv => CheckedUsed
  BY DEF CheckedUsed
<1> QED  BY <1>1, <1>2, <1>3, PTL DEF Spec

-----------------------------------------------------------------------------
(* Calls on one maker (CDBMakerCalls)                                      *)

Committing == {"commit_new", "commit_made", "commit_close"}

(* A commit in progress, or over, has set the flag that refuses the next.  *)
CommitFlagged ==
  /\ made # {} => "COMMITTED" \in flags
  /\ \A t \in Threads : pc[t] \in Committing => "COMMITTED" \in flags

MakerInv == MakerTypeOK /\ MakerOnlyOpenUsed /\ CommittedOnce /\ CommitFlagged

LEMMA MakerInvInit == MakerInit => MakerInv
  BY DEF MakerInit, MakerInv, MakerTypeOK, MakerOnlyOpenUsed, CommittedOnce, CommitFlagged,
         Committing, Flags, MakerPoints, MakerAnswers

(* Each step is one of the following, as far as threads are concerned:     *)
(* thread t goes on or returns, and no new commit begins; or one begins.   *)
Continues(t) ==
  \/ \E result \in MakerAnswers \ {"crash", "instance"} : Returns(t, result) /\ UNCHANGED made
  \/ \E at \in {"close", "unlink"} : Interrupted(t, at) /\ UNCHANGED made

Proceeds(t) ==
  /\ pc[t] \in Committing
  /\ \/ \E at \in Committing : Interrupted(t, at) /\ UNCHANGED made
     \/ Returns(t, "instance") /\ made' = made \union {t}

CommitBegins(t) ==
  /\ ~Refused
  /\ Interrupted(t, "commit_new") /\ UNCHANGED made
  /\ "COMMITTED" \in flags'

LEMMA StepKinds ==
  ASSUME MakerInv, NEW t \in Threads, MakerStep(t)
  PROVE  Continues(t) \/ Proceeds(t) \/ CommitBegins(t)
<1>1. "CLOSED" \in flags <=> ~maker32
  BY DEF MakerInv, MakerTypeOK
<1>2. CASE MakerAdd(t) \/ Fileno(t) \/ CommitRefused(t) \/ MakerClose(t)
  BY <1>1, <1>2
  DEF MakerAdd, Fileno, CommitRefused, MakerClose, Continues, MakerUsed, Refused, MakerAnswers
<1>3. CASE Commit(t)
  BY <1>1, <1>3 DEF Commit, Committed, Refused, Continues, CommitBegins, MakerAnswers
<1>4. CASE CommitNew(t) \/ CommitClose(t) \/ CommitReturns(t)
  BY <1>4 DEF CommitNew, CommitClose, CommitReturns, Continues, Proceeds,
              Committing, MakerAnswers, makerObject
<1>5. CASE MakerCloseStream(t) \/ Unlink(t)
  BY <1>5 DEF MakerCloseStream, Unlink, Continues, MakerAnswers
<1> QED  BY <1>2, <1>3, <1>4, <1>5 DEF MakerStep

LEMMA StepFlags ==
  ASSUME MakerInv, NEW t \in Threads, MakerStep(t)
  PROVE  /\ flags' \subseteq Flags
         /\ "CLOSED" \in flags' <=> ~maker32'
         /\ "COMMITTED" \in flags => "COMMITTED" \in flags'
<1>1. /\ flags \subseteq Flags
      /\ maker32 \in BOOLEAN
      /\ "CLOSED" \in flags <=> maker32 = FALSE
  BY DEF MakerInv, MakerTypeOK
<1>2. \/ flags' = flags /\ UNCHANGED maker32
      \/ flags' = flags \union {"ERROR"} /\ UNCHANGED maker32
      \/ flags' = flags \union {"COMMITTED"} /\ UNCHANGED maker32
      \/ flags' = (flags \ {"DESTROY"}) \union {"CLOSED"} /\ maker32' = FALSE
      \/ flags' = flags \union {"CLOSED"} /\ maker32' = FALSE
  <2>1. CASE MakerAdd(t) \/ Fileno(t) \/ CommitRefused(t)
    BY <2>1 DEF MakerAdd, Fileno, CommitRefused, makerObject
  <2>2. CASE Commit(t)
    BY <2>2 DEF Commit, Committed
  <2>3. CASE CommitNew(t) \/ CommitClose(t) \/ CommitReturns(t)
    BY <2>3 DEF CommitNew, CommitClose, CommitReturns, makerObject
  <2>4. CASE MakerClose(t) \/ MakerCloseStream(t) \/ Unlink(t)
    BY <2>4 DEF MakerClose, MakerCloseStream, Unlink, makerObject
  <2> QED  BY <2>1, <2>2, <2>3, <2>4 DEF MakerStep
<1>3. "CLOSED" \in flags' <=> maker32' = FALSE
  BY <1>1, <1>2
<1>4. maker32' \in BOOLEAN
  BY <1>1, <1>2
<1>5. "CLOSED" \in flags' <=> ~maker32'
  BY <1>3, <1>4
<1> QED  BY <1>1, <1>2, <1>5 DEF Flags

LEMMA StepTyped ==
  ASSUME MakerInv, NEW t \in Threads, MakerStep(t)
  PROVE  /\ maker32' \in BOOLEAN /\ fp' \in BOOLEAN
         /\ filename' \in BOOLEAN /\ path' \in BOOLEAN /\ failed' \in BOOLEAN
  BY DEF MakerInv, MakerTypeOK, MakerStep, MakerAdd, Fileno, CommitRefused, Commit, CommitNew,
         CommitClose, CommitReturns, MakerClose, MakerCloseStream, Unlink, makerObject, file

LEMMA StepThreads ==
  ASSUME MakerInv, NEW t \in Threads, MakerStep(t)
  PROVE  /\ made' \subseteq Threads
         /\ pc' \in [Threads -> MakerPoints]
         /\ answer' \in [Threads -> MakerAnswers]
         /\ MakerOnlyOpenUsed'
  BY StepKinds
  DEF MakerInv, MakerTypeOK, Continues, Proceeds, CommitBegins, Committing, Returns,
      Interrupted, MakerPoints, MakerAnswers, MakerOnlyOpenUsed

LEMMA StepCommitted ==
  ASSUME MakerInv, NEW t \in Threads, MakerStep(t)
  PROVE  CommittedOnce' /\ CommitFlagged'
<1> USE DEF Committing
<1>1. /\ pc \in [Threads -> MakerPoints]
      /\ "COMMITTED" \in flags => "COMMITTED" \in flags'
  BY StepFlags DEF MakerInv, MakerTypeOK
<1>2. CASE Continues(t)
  <2>1. UNCHANGED made
    BY <1>2 DEF Continues
  <2>2. \A u \in Threads : pc'[u] \in Committing => pc[u] \in Committing
    BY <1>1, <1>2 DEF Continues, Returns, Interrupted
  <2> QED  BY <1>1, <2>1, <2>2 DEF MakerInv, CommittedOnce, CommitFlagged
<1>3. CASE Proceeds(t)
  <2>1. \A u \in Threads : pc'[u] \in Committing => pc[u] \in Committing
    BY <1>1, <1>3 DEF Proceeds, Returns, Interrupted
  <2>2. "COMMITTED" \in flags'
    BY <1>1, <1>3 DEF Proceeds, MakerInv, CommitFlagged
  <2>3. \A u \in Threads : pc[u] \in Committing => u = t
    BY <1>3 DEF Proceeds, MakerInv, CommittedOnce
  <2>4. CASE UNCHANGED made
    BY <2>1, <2>2, <2>4 DEF MakerInv, CommittedOnce, CommitFlagged
  <2>5. CASE Returns(t, "instance")
    <3>1. \A u \in Threads : pc'[u] \notin Committing
      BY <1>1, <2>1, <2>3, <2>5 DEF Returns
    <3> QED  BY <2>2, <3>1 DEF CommittedOnce, CommitFlagged
  <2> QED  BY <1>3, <2>4, <2>5 DEF Proceeds
<1>4. CASE CommitBegins(t)
  <2>1. made' = {} /\ \A u \in Threads : pc[u] \notin Committing
    BY <1>4 DEF CommitBegins, Refused, MakerInv, CommitFlagged
  <2>2. \A u \in Threads : pc'[u] \in Committing => u = t
    BY <1>1, <1>4, <2>1 DEF CommitBegins, Interrupted
  <2> QED  BY <1>4, <2>1, <2>2 DEF CommitBegins, CommittedOnce, CommitFlagged
<1> QED  BY <1>2, <1>3, <1>4, StepKinds

LEMMA MakerInvNext ==
  ASSUME MakerInv, [MakerNext]_makerVars
  PROVE  MakerInv'
<1>1. CASE UNCHANGED makerVars
  BY <1>1
  DEF makerVars, MakerInv, MakerTypeOK, MakerOnlyOpenUsed, CommittedOnce, CommitFlagged
<1>2. CASE MakerNext
  <2>1. PICK t \in Threads : MakerStep(t)
    BY <1>2 DEF MakerNext
  <2> QED
    BY <2>1, StepFlags, StepTyped, StepThreads, StepCommitted DEF MakerInv, MakerTypeOK
<1> QED  BY <1>1, <1>2

(* FL_CLOSED and maker32 always agree. *)
THEOREM MakerTypeCorrect == MakerSpec => []MakerTypeOK
<1>1. MakerInv => MakerTypeOK
  BY DEF MakerInv
<1> QED  BY <1>1, MakerInvInit, MakerInvNext, PTL DEF MakerSpec

(* add(), commit() and fileno() never use maker32 after close().           *)
THEOREM MakerOnlyOpenUsedCorrect == MakerSpec => []MakerOnlyOpenUsed
<1>1. MakerInv => MakerOnlyOpenUsed
  BY DEF MakerInv
<1> QED  BY <1>1, MakerInvInit, MakerInvNext, PTL DEF MakerSpec

(* Whichever threads call commit(), one of them makes an instance.         *)
THEOREM CommittedOnceCorrect == MakerSpec => []CommittedOnce
<1>1. MakerInv => CommittedOnce
  BY DEF MakerInv
<1> QED  BY <1>1, MakerInvInit, MakerInvNext, PTL DEF MakerSpec

-----------------------------------------------------------------------------
(* The file goes away.  Until then some call still has to see to it: to    *)
(* close the stream, to unlink the file or to return the instance.         *)
At(step) == \E t \in Threads : pc[t] = step

GivenUpClosed == ~fp => "CLOSED" \in flags
ClosedStream ==
  "CLOSED" \in flags /\ "DESTROY" \in flags /\ filename /\ ~failed => At("close")
Unlinked == ~filename /\ path /\ ~failed => At("unlink")
HandedOver == "DESTROY" \notin flags => made # {} \/ failed \/ At("commit_close")

DestroyInv == GivenUpClosed /\ ClosedStream /\ Unlinked /\ HandedOver

(* What other threads have to do is not taken from them. *)
LEMMA OthersStay ==
  ASSUME MakerTypeOK, NEW t \in Threads, NEW at \in MakerPoints, pc' = [pc EXCEPT ![t] = at],
         NEW step \in MakerPoints, At(step)
  PROVE  pc[t] = step \/ At(step)'
  BY DEF MakerTypeOK, At

LEMMA Enters ==
  ASSUME MakerTypeOK, NEW t \in Threads, NEW at \in MakerPoints, pc' = [pc EXCEPT ![t] = at]
  PROVE  At(at)'
  BY DEF MakerTypeOK, At

LEMMA DestroyInit == MakerInit => DestroyInv
  BY DEF MakerInit, DestroyInv, GivenUpClosed, ClosedStream, Unlinked, HandedOver

(* A step that neither closes nor was about to. *)
LEMMA KeepsDestroy ==
  ASSUME MakerInv, DestroyInv, NEW t \in Threads, NEW at \in MakerPoints,
         pc' = [pc EXCEPT ![t] = at],
         pc[t] \notin {"close", "unlink", "commit_close"},
         UNCHANGED <<fp, file, made>>,
         "CLOSED" \in flags' <=> "CLOSED" \in flags,
         "DESTROY" \in flags' <=> "DESTROY" \in flags
  PROVE  DestroyInv'
<1>1. MakerTypeOK
  BY DEF MakerInv
<1>2. /\ At("close") => At("close")'
      /\ At("unlink") => At("unlink")'
      /\ At("commit_close") => At("commit_close")'
  BY <1>1, OthersStay DEF MakerPoints
<1> QED
  BY <1>2 DEF DestroyInv, GivenUpClosed, ClosedStream, Unlinked, HandedOver, file

(* An idle call that returns, a commit that goes on. *)
LEMMA QuietKeepsDestroy ==
  ASSUME MakerInv, DestroyInv, NEW t \in Threads,
         MakerAdd(t) \/ Fileno(t) \/ CommitRefused(t) \/ Commit(t) \/ CommitNew(t)
  PROVE  DestroyInv'
<1>1. \E at \in MakerPoints : pc' = [pc EXCEPT ![t] = at]
  BY DEF MakerAdd, Fileno, CommitRefused, Commit, CommitNew, Returns, Interrupted, MakerPoints
<1>2. pc[t] \in {"idle", "commit_new"} /\ UNCHANGED <<fp, file, made>>
  BY DEF MakerAdd, Fileno, CommitRefused, Commit, CommitNew, Begins, makerObject
<1>3. \/ UNCHANGED flags
      \/ flags' = flags \union {"ERROR"}
      \/ flags' = flags \union {"COMMITTED"}
  BY DEF MakerAdd, Fileno, CommitRefused, Commit, CommitNew, makerObject, Committed
<1>4. /\ "CLOSED" \in flags' <=> "CLOSED" \in flags
      /\ "DESTROY" \in flags' <=> "DESTROY" \in flags
  BY <1>3
<1> QED  BY <1>1, <1>2, <1>4, KeepsDestroy

LEMMA CloseKeepsDestroy ==
  ASSUME MakerInv, DestroyInv, NEW t \in Threads, MakerClose(t)
  PROVE  DestroyInv'
<1>1. MakerTypeOK
  BY DEF MakerInv
<1>2. PICK at \in {"idle", "close"} :
        pc' = [pc EXCEPT ![t] = at] /\ (fp => at = "close")
  BY DEF MakerClose, Returns, Interrupted
<1>3. /\ At("close") \/ fp => At("close")'
      /\ At("unlink") => At("unlink")'
      /\ At("commit_close") => At("commit_close")'
  BY <1>1, <1>2, OthersStay, Enters DEF MakerClose, Begins, MakerPoints
<1>4. /\ "CLOSED" \in flags'
      /\ "DESTROY" \in flags' <=> "DESTROY" \in flags
      /\ UNCHANGED <<filename, path, failed, made>>
  BY DEF MakerClose, file
<1> QED
  BY <1>3, <1>4 DEF DestroyInv, GivenUpClosed, ClosedStream, Unlinked, HandedOver

LEMMA CommitCloseKeepsDestroy ==
  ASSUME MakerInv, DestroyInv, NEW t \in Threads, CommitClose(t)
  PROVE  DestroyInv'
<1>1. MakerTypeOK
  BY DEF MakerInv
<1>2. PICK at \in {"idle", "commit_close"} :
        /\ pc' = [pc EXCEPT ![t] = at]
        /\ at = "idle" => made' # {}
  BY DEF CommitClose, Returns, Interrupted
<1>3. /\ At("unlink") => At("unlink")'
      /\ made' # {} \/ At("commit_close")'
  BY <1>1, <1>2, OthersStay, Enters DEF CommitClose, MakerPoints
<1>4. /\ "CLOSED" \in flags' /\ "DESTROY" \notin flags'
      /\ UNCHANGED <<filename, path, failed>>
  BY DEF CommitClose, file
<1> QED
  BY <1>3, <1>4 DEF DestroyInv, GivenUpClosed, ClosedStream, Unlinked, HandedOver

LEMMA CommitReturnsKeepsDestroy ==
  ASSUME MakerInv, DestroyInv, NEW t \in Threads, CommitReturns(t)
  PROVE  DestroyInv'
<1>1. MakerTypeOK
  BY DEF MakerInv
<1>2. pc' = [pc EXCEPT ![t] = "idle"] /\ pc[t] = "commit_close"
  BY DEF CommitReturns, Returns
<1>3. /\ At("close") => At("close")'
      /\ At("unlink") => At("unlink")'
  BY <1>1, <1>2, OthersStay DEF MakerPoints
<1>4. /\ UNCHANGED <<flags, fp, filename, path>>
      /\ failed' \/ (failed' = failed /\ made' # {})
  BY DEF CommitReturns, makerObject
<1> QED
  BY <1>3, <1>4 DEF DestroyInv, GivenUpClosed, ClosedStream, Unlinked, HandedOver

LEMMA CloseStreamKeepsDestroy ==
  ASSUME MakerInv, DestroyInv, NEW t \in Threads, MakerCloseStream(t)
  PROVE  DestroyInv'
<1>1. MakerTypeOK
  BY DEF MakerInv
<1>2. PICK at \in {"idle", "unlink"} : pc' = [pc EXCEPT ![t] = at]
  BY DEF MakerCloseStream, Returns, Interrupted
<1>3. /\ pc[t] = "close" /\ UNCHANGED <<flags, fp, path, made>>
      /\ \/ failed' /\ filename' = filename
         \/ /\ failed' = failed /\ filename' = FALSE
            /\ pc' = [pc EXCEPT ![t] = "unlink"]
         \/ /\ failed' = failed /\ filename' = filename
            /\ ~("DESTROY" \in flags /\ filename)
  BY DEF MakerCloseStream, makerObject, Interrupted
<1>4. /\ At("unlink") => At("unlink")'
      /\ At("commit_close") => At("commit_close")'
      /\ pc' = [pc EXCEPT ![t] = "unlink"] => At("unlink")'
  BY <1>1, <1>2, <1>3, OthersStay, Enters DEF MakerPoints
<1> QED
  BY <1>3, <1>4 DEF DestroyInv, GivenUpClosed, ClosedStream, Unlinked, HandedOver

LEMMA UnlinkKeepsDestroy ==
  ASSUME MakerInv, DestroyInv, NEW t \in Threads, Unlink(t)
  PROVE  DestroyInv'
<1>1. MakerTypeOK
  BY DEF MakerInv
<1>2. pc' = [pc EXCEPT ![t] = "idle"] /\ pc[t] = "unlink"
  BY DEF Unlink, Returns
<1>3. /\ At("close") => At("close")'
      /\ At("commit_close") => At("commit_close")'
  BY <1>1, <1>2, OthersStay DEF MakerPoints
<1>4. /\ UNCHANGED <<flags, fp, filename, made>>
      /\ failed' \/ (path' = FALSE /\ failed' = failed)
  BY DEF Unlink, makerObject
<1> QED
  BY <1>3, <1>4 DEF DestroyInv, GivenUpClosed, ClosedStream, Unlinked, HandedOver

LEMMA DestroyNext ==
  ASSUME MakerInv, DestroyInv, [MakerNext]_makerVars
  PROVE  DestroyInv'
<1>1. CASE UNCHANGED makerVars
  BY <1>1
  DEF makerVars, DestroyInv, GivenUpClosed, ClosedStream, Unlinked, HandedOver, At
<1>2. ASSUME NEW t \in Threads, MakerStep(t)
      PROVE  DestroyInv'
  BY <1>2, QuietKeepsDestroy, CloseKeepsDestroy, CommitCloseKeepsDestroy,
     CommitReturnsKeepsDestroy, CloseStreamKeepsDestroy, UnlinkKeepsDestroy
  DEF MakerStep
<1> QED  BY <1>1, <1>2 DEF MakerNext

(* However close() and commit() are interleaved, a file that no commit()   *)
(* has returned an instance for does not outlive the maker and its calls.  *)
THEOREM UncommittedGoneCorrect == MakerSpec => []UncommittedGone
<1>1. MakerInit => MakerInv /\ DestroyInv
  BY MakerInvInit, DestroyInit
<1>2. MakerInv /\ DestroyInv /\ [MakerNext]_makerVars => (MakerInv /\ DestroyInv)'
  BY MakerInvNext, DestroyNext
<1>3. MakerInv /\ DestroyInv => UncommittedGone
  BY DEF MakerInv, MakerTypeOK, DestroyInv, ClosedStream, Unlinked, HandedOver, At,
         UncommittedGone
<1> QED  BY <1>1, <1>2, <1>3, PTL DEF MakerSpec

-----------------------------------------------------------------------------
(* A database is replaced while it is in use (CDBPublish)                  *)

(* The files that readers have open or may find, now or after a crash.     *)
Seen(i) ==
  \/ i = names.real
  \/ i = onDisk.real
  \/ \E r \in Readers : reader[r] = i

SeenWhole == \A i \in Inodes : Seen(i) => data[i] = "whole" /\ i \in synced

(* None of them is written to: it is neither the next to be made nor the   *)
(* one in the making.                                                      *)
TmpUnseen ==
  /\ names.tmp # None => ~Seen(names.tmp)
  /\ onDisk.tmp # None => onDisk.tmp # onDisk.real

(* What the program knows of its maker's file.                             *)
ActiveFile ==
  active # None =>
    /\ maker[active].at # "none"
    /\ maker[active].inode \in Inodes
    /\ ~Seen(maker[active].inode)
    /\ names.tmp \in {None, maker[active].inode}
    /\ maker[active].at \in {"written", "synced", "committed"} =>
         data[maker[active].inode] = "whole"
    /\ maker[active].at \in {"synced", "committed"} => maker[active].inode \in synced

PublishInv == PublishTypeOK /\ SeenWhole /\ TmpUnseen /\ ActiveFile

LEMMA PublishInvInit == PublishInit => PublishInv
  BY PublishAssumption
  DEF PublishInit, PublishInv, PublishTypeOK, SeenWhole, TmpUnseen, ActiveFile, Seen, Contents,
      Stages, NoMaker

LEMMA MakeStep ==
  ASSUME PublishInv, NEW m \in Makers, NEW i \in Inodes, Make(m, i)
  PROVE  PublishInv' /\ ~Seen(i)
<1> USE PublishAssumption DEF PublishInv
<1>1. ~Seen(i)
  BY DEF Make, Unused, Seen, TmpUnseen, PublishTypeOK
<1>2. \A j \in Inodes : Seen(j)' <=> Seen(j)
  BY DEF Make, Seen, PublishTypeOK
<1>3. PublishTypeOK'
  BY DEF Make, PublishTypeOK, Contents, Stages
<1>4. SeenWhole'
  BY <1>1, <1>2 DEF Make, SeenWhole, PublishTypeOK
<1>5. TmpUnseen'
  BY <1>1, <1>2 DEF Make, TmpUnseen, PublishTypeOK
<1>6. ActiveFile'
  <2>1. /\ active' = m /\ names'.tmp = i
        /\ maker'[m].at = "writing" /\ maker'[m].inode = i
    BY DEF Make, PublishTypeOK
  <2> QED  BY <1>1, <1>2, <2>1 DEF ActiveFile
<1> QED  BY <1>1, <1>3, <1>4, <1>5, <1>6

(* Steps of the active maker that leave all names and readers alone.       *)
LEMMA WriteStep ==
  ASSUME PublishInv, NEW m \in Makers, Add(m) \/ CommitWrite(m)
  PROVE  PublishInv'
<1> USE PublishAssumption DEF PublishInv
<1> DEFINE i == maker[m].inode
<1>1. active = m /\ active # None /\ i \in Inodes /\ ~Seen(i)
  BY DEF Add, CommitWrite, ActiveFile
<1>2. UNCHANGED <<names, onDisk, active, reader>> /\ synced' = synced \ {i}
  BY DEF Add, CommitWrite
<1>3. \A j \in Inodes : Seen(j)' <=> Seen(j)
  BY <1>2 DEF Seen
<1>4. \E what \in {"part", "whole"}, at \in {"writing", "failed", "written"} :
        /\ data' = [data EXCEPT ![i] = what] \/ data' = data
        /\ maker' = [maker EXCEPT ![m].at = at] \/ (maker' = maker /\ at = maker[m].at)
        /\ at = "written" => data' = [data EXCEPT ![i] = "whole"]
  BY DEF Add, CommitWrite, Moves
<1>5. PublishTypeOK'
  BY <1>2, <1>4 DEF PublishTypeOK, Contents, Stages
<1>6. SeenWhole'
  BY <1>1, <1>2, <1>3, <1>4 DEF SeenWhole, PublishTypeOK
<1>7. TmpUnseen'
  BY <1>2, <1>3 DEF TmpUnseen, PublishTypeOK
<1>8. ActiveFile'
  <2>1. /\ maker'[m].at \in {"writing", "failed", "written"} /\ maker'[m].inode = i
        /\ maker'[m].at = "written" => data'[i] = "whole"
    BY <1>1, <1>4 DEF PublishTypeOK
  <2> QED  BY <1>1, <1>2, <1>3, <2>1 DEF ActiveFile
<1> QED  BY <1>5, <1>6, <1>7, <1>8

LEMMA CommitStep ==
  ASSUME PublishInv, NEW m \in Makers, CommitSync(m) \/ CommitOpen(m)
  PROVE  PublishInv'
<1> USE PublishAssumption DEF PublishInv
<1> DEFINE i == maker[m].inode
<1>1. active = m /\ active # None /\ i \in Inodes /\ ~Seen(i) /\ data[i] = "whole"
  BY DEF CommitSync, CommitOpen, ActiveFile
<1>2. UNCHANGED <<data, names, onDisk, active, reader>>
  BY DEF CommitSync, CommitOpen
<1>3. \A j \in Inodes : Seen(j)' <=> Seen(j)
  BY <1>2 DEF Seen
<1>4. \E at \in {"failed", "synced", "committed"} :
        /\ maker' = [maker EXCEPT ![m].at = at]
        /\ synced' = synced \union {i} \/ synced' = synced
        /\ at # "failed" => i \in synced'
  BY <1>1 DEF CommitSync, CommitOpen, Moves, ActiveFile
<1>5. PublishTypeOK'
  BY <1>1, <1>2, <1>4 DEF PublishTypeOK, Stages
<1>6. SeenWhole'
  BY <1>2, <1>3, <1>4 DEF SeenWhole
<1>7. TmpUnseen'
  BY <1>2, <1>3 DEF TmpUnseen, PublishTypeOK
<1>8. ActiveFile'
  <2>1. /\ maker'[m].at \in {"failed", "synced", "committed"} /\ maker'[m].inode = i
        /\ maker'[m].at # "failed" => i \in synced'
    BY <1>1, <1>4 DEF PublishTypeOK
  <2> QED  BY <1>1, <1>2, <1>3, <2>1 DEF ActiveFile
<1> QED  BY <1>5, <1>6, <1>7, <1>8

LEMMA RenameStep ==
  ASSUME PublishInv, NEW m \in Makers, Rename(m)
  PROVE  PublishInv'
<1> USE PublishAssumption DEF PublishInv
<1>1. /\ active = m /\ active # None /\ active' = None
      /\ UNCHANGED <<data, synced, onDisk, reader>>
  BY DEF Rename
<1>2. names.tmp # None =>
        names.tmp \in Inodes /\ data[names.tmp] = "whole" /\ names.tmp \in synced
  BY DEF Rename, ActiveFile
<1>3. PublishTypeOK'
  BY <1>1 DEF Rename, PublishTypeOK, NoMaker, Stages
<1>4. \A j \in Inodes : Seen(j)' => Seen(j) \/ j = names.tmp
  BY <1>1 DEF Rename, Seen
<1>5. SeenWhole'
  BY <1>1, <1>2, <1>4 DEF SeenWhole
<1>6. names'.tmp = None
  BY DEF Rename
<1> QED  BY <1>1, <1>3, <1>5, <1>6 DEF TmpUnseen, ActiveFile

LEMMA DropStep ==
  ASSUME PublishInv, NEW m \in Makers, Abandon(m) \/ Drop(m)
  PROVE  PublishInv'
<1> USE PublishAssumption DEF PublishInv
<1>1. /\ UNCHANGED <<data, synced, onDisk, reader>>
      /\ names' = names \/ names' = [names EXCEPT !.tmp = None]
  BY DEF Abandon, Drop
<1>2. \A j \in Inodes : Seen(j)' <=> Seen(j)
  BY <1>1 DEF Seen, PublishTypeOK
<1>3. PublishTypeOK'
  BY <1>1 DEF Abandon, Drop, PublishTypeOK, NoMaker, Stages
<1>4. SeenWhole'
  BY <1>1, <1>2 DEF SeenWhole
<1>5. TmpUnseen'
  BY <1>1, <1>2 DEF TmpUnseen, PublishTypeOK
<1>6. ActiveFile'
  <2>1. active' # None => active' = active /\ maker'[active] = maker[active]
    BY DEF Abandon, Drop, PublishTypeOK
  <2>2. names'.tmp \in {None, names.tmp}
    BY <1>1 DEF PublishTypeOK
  <2> QED  BY <1>1, <1>2, <2>1, <2>2 DEF ActiveFile
<1> QED  BY <1>3, <1>4, <1>5, <1>6

LEMMA ReaderStep ==
  ASSUME PublishInv, NEW r \in Readers, ReaderOpen(r) \/ ReaderClose(r)
  PROVE  PublishInv'
<1> USE PublishAssumption DEF PublishInv
<1>1. UNCHANGED <<data, synced, names, onDisk, maker, active>>
  BY DEF ReaderOpen, ReaderClose
<1>2. \A j \in Inodes : Seen(j)' => Seen(j)
  BY <1>1 DEF ReaderOpen, ReaderClose, Seen, PublishTypeOK
<1>3. PublishTypeOK'
  BY <1>1 DEF ReaderOpen, ReaderClose, PublishTypeOK
<1> QED
  BY <1>1, <1>2, <1>3 DEF SeenWhole, TmpUnseen, ActiveFile, PublishTypeOK

LEMMA SystemStep ==
  ASSUME PublishInv, SyncNames \/ Kill \/ Crash
  PROVE  PublishInv'
<1> USE PublishAssumption DEF PublishInv
<1>1. CASE SyncNames
  <2>1. \A j \in Inodes : Seen(j)' => Seen(j)
    BY <1>1 DEF SyncNames, Seen
  <2>2. TmpUnseen'
    BY <1>1, <2>1 DEF SyncNames, TmpUnseen, Seen, PublishTypeOK
  <2> QED  BY <1>1, <2>1, <2>2 DEF SyncNames, PublishTypeOK, SeenWhole, ActiveFile
<1>2. CASE Kill
  <2>1. \A j \in Inodes : Seen(j)' <=> Seen(j)
    BY <1>2 DEF Kill, Seen
  <2>2. PublishTypeOK'
    BY <1>2 DEF Kill, PublishTypeOK, NoMaker, Stages
  <2> QED  BY <1>2, <2>1, <2>2 DEF Kill, PublishTypeOK, SeenWhole, TmpUnseen, ActiveFile
<1>3. CASE Crash
  <2>1. PublishTypeOK'
    BY <1>3 DEF Crash, PublishTypeOK, NoMaker, Stages, Contents
  <2>2. \A j \in Inodes : Seen(j)' => j = onDisk.real
    BY <1>3 DEF Crash, Seen
  <2>3. \A j \in Inodes : j \in synced => data'[j] = data[j]
    BY <1>3 DEF Crash
  <2>4. SeenWhole'
    BY <1>3, <2>2, <2>3 DEF Crash, SeenWhole, Seen
  <2>5. TmpUnseen'
    BY <1>3, <2>2 DEF Crash, TmpUnseen, PublishTypeOK
  <2> QED  BY <1>3, <2>1, <2>4, <2>5 DEF Crash, ActiveFile
<1> QED  BY <1>1, <1>2, <1>3

LEMMA PublishInvNext ==
  ASSUME PublishInv, [PublishNext]_publishVars
  PROVE  PublishInv'
<1>1. CASE UNCHANGED publishVars
  BY <1>1
  DEF publishVars, PublishInv, PublishTypeOK, SeenWhole, TmpUnseen, ActiveFile, Seen
<1>2. CASE PublishNext
  BY <1>2, MakeStep, WriteStep, CommitStep, RenameStep, DropStep, ReaderStep,
     SystemStep
  DEF PublishNext, Program
<1> QED  BY <1>1, <1>2

(* Readers find and have open whole databases only, through failures,      *)
(* abandoned makers and crashes.                                           *)
THEOREM WholeSeenCorrect == PublishSpec => []WholeSeen
<1>1. PublishInv => WholeSeen
  BY PublishAssumption DEF PublishInv, SeenWhole, WholeSeen, Seen, PublishTypeOK
<1> QED  BY <1>1, PublishInvInit, PublishInvNext, PTL DEF PublishSpec
=============================================================================
