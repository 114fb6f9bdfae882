----------------------------- MODULE CDBPublish -----------------------------
(***************************************************************************)
(* A database is replaced while it is in use, as docs/_userdoc/index.txt   *)
(* recommends: it is made under another name, committed, and moved to its  *)
(* own name.  The program may abandon a maker and try again, it may be     *)
(* killed, and the system may crash; readers are other processes.          *)
(*                                                                         *)
(* A file (inode) has its contents in memory.  What is on disk is certain  *)
(* only after fsync; until then a crash leaves anything.  Names reach the  *)
(* disk by themselves, in order, at some time.                             *)
(***************************************************************************)
EXTENDS Naturals

CONSTANTS Inodes, Makers, Readers, None

ASSUME PublishAssumption == None \notin Inodes \union Makers

VARIABLES
  data,         (* what is in each file                                    *)
  synced,       (* the files whose contents are on disk                    *)
  names,        (* the files that have the names "tmp" and "real"          *)
  onDisk,       (* the names that are on disk                              *)
  maker,        (* how far each CDBMaker has come, and its file            *)
  active,       (* the maker the program works with; it has let go of the  *)
                (* others, which are garbage                               *)
  reader        (* the file each reader has open                           *)

publishVars == <<data, synced, names, onDisk, maker, active, reader>>

Contents == {"empty", "part", "whole", "torn"}
Stages == {"none", "writing", "failed", "written", "synced", "committed"}

NoMaker == [at |-> "none", inode |-> None]

PublishInit ==
  /\ data = [i \in Inodes |-> "empty"]
  /\ synced = {}
  /\ names = [tmp |-> None, real |-> None]
  /\ onDisk = names
  /\ maker = [m \in Makers |-> NoMaker]
  /\ active = None
  /\ reader = [r \in Readers |-> None]

-----------------------------------------------------------------------------
Unused(i) ==
  /\ i \notin {names.tmp, names.real, onDisk.tmp, onDisk.real}
  /\ \A m \in Makers : maker[m].inode # i
  /\ \A r \in Readers : reader[r] # i

Moves(m, to) == maker' = [maker EXCEPT ![m].at = to]

(* CDB.make("tmp"): the file is created, or an existing one truncated.     *)
Make(m, i) ==
  /\ active = None
  /\ maker[m].at = "none"
  /\ IF names.tmp = None THEN Unused(i) ELSE i = names.tmp
  /\ data' = [data EXCEPT ![i] = "empty"]
  /\ synced' = synced \ {i}
  /\ names' = [names EXCEPT !.tmp = i]
  /\ maker' = [maker EXCEPT ![m] = [at |-> "writing", inode |-> i]]
  /\ active' = m
  /\ UNCHANGED <<onDisk, reader>>

(* add() keeps records in the buffer or writes, or fails. *)
Add(m) ==
  /\ active = m /\ maker[m].at = "writing"
  /\ \/ data' = [data EXCEPT ![maker[m].inode] = "part"] /\ UNCHANGED maker
     \/ Moves(m, "failed") /\ UNCHANGED data
  /\ synced' = synced \ {maker[m].inode}
  /\ UNCHANGED <<names, onDisk, active, reader>>

(* commit(): the rest is written; *)
CommitWrite(m) ==
  /\ active = m /\ maker[m].at = "writing"
  /\ \/ data' = [data EXCEPT ![maker[m].inode] = "whole"] /\ Moves(m, "written")
     \/ data' = [data EXCEPT ![maker[m].inode] = "part"] /\ Moves(m, "failed")
  /\ synced' = synced \ {maker[m].inode}
  /\ UNCHANGED <<names, onDisk, active, reader>>

(* the file is synced; (variant: it is not) *)
CommitNoSync(m) ==
  /\ active = m /\ maker[m].at = "written"
  /\ Moves(m, "synced")
  /\ UNCHANGED <<data, synced, names, onDisk, active, reader>>

CommitSync(m) ==
  /\ active = m /\ maker[m].at = "written"
  /\ \/ Moves(m, "synced") /\ synced' = synced \union {maker[m].inode}
     \/ Moves(m, "failed") /\ UNCHANGED synced
  /\ UNCHANGED <<data, names, onDisk, active, reader>>

(* and opened again by its name, for the new instance, which may fail for  *)
(* other reasons than that the name is gone.                               *)
CommitOpen(m) ==
  /\ active = m /\ maker[m].at = "synced"
  /\ (names.tmp # None /\ Moves(m, "committed")) \/ Moves(m, "failed")
  /\ UNCHANGED <<data, synced, names, onDisk, active, reader>>

(* os.rename("tmp", "real"), and the program is done with the maker.       *)
Rename(m) ==
  /\ active = m /\ maker[m].at = "committed"
  /\ names' = IF names.tmp = None THEN names ELSE [tmp |-> None, real |-> names.tmp]
  /\ maker' = [maker EXCEPT ![m] = NoMaker]
  /\ active' = None
  /\ UNCHANGED <<data, synced, onDisk, reader>>

(* An exception: the program lets go of the maker, which need not be       *)
(* destroyed at once.                                                      *)
Abandon(m) ==
  /\ active = m
  /\ active' = None
  /\ UNCHANGED <<data, synced, names, onDisk, maker, reader>>

(* close() or garbage collection: unless committed, the file is destroyed, *)
(* by its name, unless that fails; what is in the buffer is not written.   *)
Drop(m) ==
  /\ active # m /\ maker[m].at # "none"
  /\ \/ maker[m].at # "committed" /\ names' = [names EXCEPT !.tmp = None]
     \/ UNCHANGED names
  /\ maker' = [maker EXCEPT ![m] = NoMaker]
  /\ UNCHANGED <<data, synced, onDisk, active, reader>>

-----------------------------------------------------------------------------
(* CDB("real") in another process, and its close() *)
ReaderOpen(r) ==
  /\ reader[r] = None /\ names.real # None
  /\ reader' = [reader EXCEPT ![r] = names.real]
  /\ UNCHANGED <<data, synced, names, onDisk, maker, active>>

ReaderClose(r) ==
  /\ reader[r] # None
  /\ reader' = [reader EXCEPT ![r] = None]
  /\ UNCHANGED <<data, synced, names, onDisk, maker, active>>

(* The system writes the directory. *)
SyncNames ==
  /\ onDisk' = names
  /\ UNCHANGED <<data, synced, names, maker, active, reader>>

(* The program is killed. *)
Kill ==
  /\ maker' = [m \in Makers |-> NoMaker]
  /\ active' = None
  /\ UNCHANGED <<data, synced, names, onDisk, reader>>

(* The system crashes. *)
Crash ==
  /\ names' = onDisk
  /\ \E lost \in SUBSET (Inodes \ synced) :
       data' = [i \in Inodes |-> IF i \in lost THEN "torn" ELSE data[i]]
  /\ synced' = Inodes
  /\ maker' = [m \in Makers |-> NoMaker]
  /\ active' = None
  /\ reader' = [r \in Readers |-> None]
  /\ UNCHANGED onDisk

Program(m) ==
  \/ \E i \in Inodes : Make(m, i)
  \/ Add(m) \/ CommitWrite(m) \/ CommitSync(m) \/ CommitOpen(m) \/ Rename(m)
  \/ Abandon(m) \/ Drop(m)

PublishNext ==
  \/ \E m \in Makers : Program(m)
  \/ \E r \in Readers : ReaderOpen(r) \/ ReaderClose(r)
  \/ SyncNames \/ Kill \/ Crash

PublishSpec == PublishInit /\ [][PublishNext]_publishVars

-----------------------------------------------------------------------------
PublishTypeOK ==
  /\ data \in [Inodes -> Contents]
  /\ synced \subseteq Inodes
  /\ names \in [tmp : Inodes \union {None}, real : Inodes \union {None}]
  /\ onDisk \in [tmp : Inodes \union {None}, real : Inodes \union {None}]
  /\ maker \in [Makers -> [at : Stages, inode : Inodes \union {None}]]
  /\ active \in Makers \union {None}
  /\ reader \in [Readers -> Inodes \union {None}]

(* Whatever fails and whenever the system crashes: what readers find, or   *)
(* have open, is a whole database, the old one or the new one.             *)
WholeSeen ==
  /\ names.real # None => data[names.real] = "whole"
  /\ \A r \in Readers : reader[r] # None => data[reader[r]] = "whole"

(* The file of the maker that the program works with is there: abandoned   *)
(* makers destroy their own files only.                                    *)
MakerKeepsFile ==
  active # None => names.tmp = maker[active].inode
=============================================================================
