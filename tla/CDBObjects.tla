----------------------------- MODULE CDBObjects -----------------------------
(***************************************************************************)
(* Who closes what: the maker and CDB objects of cdbx/cdbmaker.c and       *)
(* cdbx/cdbtype.c, the streams they open or are given, the process's       *)
(* descriptors and the name of the file.  What is in the file is the       *)
(* subject of CDB32Maker.                                                  *)
(*                                                                         *)
(* A descriptor is a small number that the next open uses again once it is *)
(* closed: closing one twice closes somebody else's.  So the process has   *)
(* another descriptor, open at times, that cdbx knows nothing about.       *)
(***************************************************************************)
EXTENDS Integers, FiniteSets, FiniteSetsExt

CONSTANTS
  Cdbs,         (* the CDB instances a program holds at a time             *)
  Files,        (* the files the name may refer to over time               *)
  MaxFd,        (* bound on the descriptors                                *)
  EXT3          (* built for Python 3 (else for Python 2)                  *)

ASSUME ObjectsAssumption ==
  /\ MaxFd \in Nat /\ EXT3 \in BOOLEAN
  /\ {"free", "tmp", "other", "none"} \intersect Files = {}
  /\ {"own", "maker", "other", "none"} \intersect Cdbs = {}

VARIABLES
  fds,          (* what each descriptor refers to: a file, or "free"       *)
  streams,      (* the descriptor of each Python stream, -1: closed        *)
  path,         (* the file the name refers to, or "none"                  *)
  maker,        (* the CDBMaker                                            *)
  cdb,          (* the CDB instances                                       *)
  own,          (* the program's own temporary file: how it is passed to   *)
                (* cdbx, and its descriptor if the program must close it   *)
  other         (* the other descriptor of the process, -1: not open       *)

vars == <<fds, streams, path, maker, cdb, own, other>>

Fds == 0 .. MaxFd
Inodes == Files \union {"tmp", "other"}
StreamNames == Cdbs \union {"own", "maker"}

(* How a file is passed to CDB() and CDB.make().  Whether it is mapped is  *)
(* left open: with mmap=None it depends on the system.                     *)
Args == {"path", "stream", "int"}

NoMaker == [live |-> FALSE, flags |-> {}, fp |-> "none", fd |-> -1,
            filename |-> FALSE, file |-> "none",
            made |-> FALSE, failed |-> FALSE]
NoCdb == [live |-> FALSE, opened |-> FALSE, fp |-> "none", fd |-> -1,
          map |-> -1, file |-> "none"]
NotOwn == [as |-> "none", fd |-> -1]

Init ==
  /\ fds = [n \in Fds |-> "free"]
  /\ streams = [s \in StreamNames |-> -1]
  /\ path = "none"
  /\ maker = NoMaker
  /\ cdb = [c \in Cdbs |-> NoCdb]
  /\ own = NotOwn
  /\ other = -1

-----------------------------------------------------------------------------
(* Descriptors and streams, together: os = [fds, streams].                 *)
OS == [fds |-> fds, streams |-> streams]

FreeFds(os) == {n \in Fds : os.fds[n] = "free"}
NextFd(os) == Min(FreeFds(os))

OpenFd(os, file) == [os EXCEPT !.fds[NextFd(os)] = file]

CloseFd(os, fd) == [os EXCEPT !.fds[fd] = "free"]

OpenStream(os, s, file) ==
  [OpenFd(os, file) EXCEPT !.streams[s] = NextFd(os)]

(* Closing a closed stream does nothing. *)
CloseStream(os, s) ==
  IF os.streams[s] = -1 THEN os
  ELSE [CloseFd(os, os.streams[s]) EXCEPT !.streams[s] = -1]

Becomes(os) == fds' = os.fds /\ streams' = os.streams

(* cdbx_obj_as_fd: what a file argument opens, and the descriptor it has.  *)
Opened(os, arg, s, file) == IF arg = "path" THEN OpenStream(os, s, file) ELSE os

StreamOf(arg, s) ==
  CASE arg = "path" -> s [] arg = "stream" -> "own" [] arg = "int" -> "none"

-----------------------------------------------------------------------------
(* CDBType_close.  Python 2 unmaps the file and closes the map's own       *)
(* descriptor.  For Python 3 the map has been asked for a buffer that      *)
(* nobody releases, which keeps the map alive.                             *)
(* Variant: it always does. *)
UnmappedNever(os, c) == os

Unmapped(os, c) == IF c.map = -1 \/ EXT3 THEN os ELSE CloseFd(os, c.map)

CdbClosed(os, c) ==
  IF c.fp # "none"
  THEN IF c.opened THEN CloseStream(Unmapped(os, c), c.fp) ELSE Unmapped(os, c)
  ELSE IF c.fd # -1 /\ c.opened THEN CloseFd(Unmapped(os, c), c.fd)
  ELSE Unmapped(os, c)

(* Variant: the instance goes on to have what it has closed. *)
ClosedKeeping(c) == c

Closed(c) == [c EXCEPT !.fp = "none", !.fd = -1, !.map = -1]

(* CDBType_new, for the instance c: a possible outcome is the instance, or *)
(* none because an argument is refused before or after close was looked    *)
(* at, or the map failed; the half-made instance is closed.                *)
HalfMade(c, arg, close) ==
  [NoCdb EXCEPT !.fp = StreamOf(arg, c), !.opened = arg = "path" \/ close]

NotMade(os, half) == [os |-> CdbClosed(os, half), cdb |-> NoCdb]

Made(os, half, fd, file) ==
  [os |-> os,
   cdb |-> [half EXCEPT !.live = TRUE, !.fd = fd, !.file = file]]

MadeMapped(os, half, fd, file) ==
  [os |-> OpenFd(os, file),
   cdb |-> [Made(os, half, fd, file).cdb EXCEPT !.map = NextFd(os)]]

(* Variant: a missing file is not noticed. *)
MissingUnnoticed(arg) == FALSE

Missing(arg) == arg = "path" /\ path = "none"

(* fd is the descriptor of the stream or the number that is passed. *)
NewCdbs(c, arg, fd, close) ==
  LET file == IF arg = "path" THEN path ELSE "tmp"
      os == Opened(OS, arg, c, file)
      on == IF arg = "path" THEN NextFd(OS) ELSE fd
      half == HalfMade(c, arg, close)
  IN  IF Missing(arg) THEN {[os |-> OS, cdb |-> NoCdb]}
      ELSE {NotMade(os, HalfMade(c, arg, FALSE)), NotMade(os, half),
            Made(os, half, on, file), MadeMapped(os, half, on, file)}

(* Enough descriptors for a stream and a map. *)
RoomToOpen == Cardinality(FreeFds(OS)) >= 2

-----------------------------------------------------------------------------
Flag(f) == f \in maker.flags
Usable == maker.live /\ maker.flags \intersect {"CLOSED", "COMMITTED", "ERROR"} = {}

(* The program's own file may be passed on: to several CDB instances, but  *)
(* to one owner only if that one is to close it.                           *)
UsesOwn(o) == o.file = "tmp" /\ o.fd # -1
OwnInUse == UsesOwn(maker) \/ \E c \in Cdbs : UsesOwn(cdb[c])
OwnLent ==
  \/ maker.file = "tmp" /\ maker.fd # -1 /\ Flag("FP_CLOSE")
  \/ \E c \in Cdbs : UsesOwn(cdb[c]) /\ cdb[c].opened

MayPass(arg, close) ==
  \/ arg = "path" /\ ~close
  \/ /\ arg # "path"
     /\ own.as = arg
     /\ arg = "stream" => streams["own"] # -1
     /\ ~OwnLent
     /\ close => ~OwnInUse

OwnFd == IF own.as = "stream" THEN streams["own"] ELSE own.fd

(* A number that has been passed on to be closed is not the program's any  *)
(* more.                                                                   *)
PassedOn(arg, close) ==
  own' = IF arg = "int" /\ close THEN NotOwn ELSE own

(* What closing a maker may fail at. *)
Failures == {"nothing", "close", "unlink"}

(* The file that the name refers to once it has been opened for writing.   *)
Named(file) ==
  IF path = "none" THEN file \notin {fds[n] : n \in Fds} ELSE file = path

(* cdbx_maker_new, from a name: the file is created or truncated.          *)
MakeFromPath(file) ==
  /\ ~maker.live
  /\ RoomToOpen
  /\ Named(file)
  /\ path' = file
  /\ Becomes(OpenStream(OS, "maker", file))
  /\ maker' = [NoMaker EXCEPT !.live = TRUE, !.flags = {"DESTROY", "FP_OPENED"},
                 !.fp = "maker", !.fd = NextFd(OS), !.filename = TRUE,
                 !.file = file]
  /\ UNCHANGED <<cdb, own, other>>

(* ... or an argument is refused, and what has been opened is destroyed,   *)
(* or not, if that fails as well.                                          *)
MakeFromPathFails(file, fails) ==
  /\ ~maker.live
  /\ RoomToOpen
  /\ Named(file)
  /\ path' = IF fails = "nothing" THEN "none" ELSE file
  /\ maker' = NoMaker
  /\ UNCHANGED <<fds, streams, cdb, own, other>>

(* ... or from the program's own file. *)
MakeFromOwn(arg, close) ==
  /\ ~maker.live
  /\ arg # "path" /\ MayPass(arg, close) /\ ~OwnInUse
  /\ maker' = [NoMaker EXCEPT !.live = TRUE,
                 !.flags = {"DESTROY"} \union (IF close THEN {"FP_CLOSE"} ELSE {}),
                 !.fp = StreamOf(arg, "maker"), !.fd = OwnFd,
                 !.file = "tmp"]
  /\ PassedOn(arg, close)
  /\ UNCHANGED <<fds, streams, path, cdb, other>>

MakeFromOwnFails(close) ==
  /\ ~maker.live
  /\ MayPass("stream", close) /\ ~OwnInUse
  /\ Becomes(IF close THEN CloseStream(OS, "own") ELSE OS)
  /\ maker' = NoMaker
  /\ UNCHANGED <<path, cdb, own, other>>

(* add() or the writing part of commit() has failed. *)
MakerFails ==
  /\ Usable
  /\ maker' = [maker EXCEPT !.flags = @ \union {"ERROR"}]
  /\ UNCHANGED <<fds, streams, path, cdb, own, other>>

(* CDBMakerType_close.  The file is removed by its name, once its stream   *)
(* has been closed without an error.                                       *)
ClosesStream(m) ==
  m.fp # "none" /\ m.flags \intersect {"FP_OPENED", "FP_CLOSE"} # {}

(* The name is forgotten before the file is removed. *)
Unlinks(m, fails) ==
  ClosesStream(m) /\ fails # "close" /\ "DESTROY" \in m.flags /\ m.filename

FailsClosing(m, fails) ==
  \/ ClosesStream(m) /\ fails = "close"
  \/ Unlinks(m, fails) /\ fails = "unlink"

PathAfter(m, fails) ==
  IF Unlinks(m, fails) /\ fails # "unlink" THEN "none" ELSE path

(* Variant: the maker goes on to have the descriptor. *)
MakerClosedKeeping(m, fails) ==
  [m EXCEPT !.flags = @ \union {"CLOSED"}, !.fp = "none",
            !.filename = @ /\ ~Unlinks(m, fails),
            !.failed = @ \/ FailsClosing(m, fails)]

MakerClosed(m, fails) ==
  [m EXCEPT !.flags = @ \union {"CLOSED"}, !.fp = "none", !.fd = -1,
            !.filename = @ /\ ~Unlinks(m, fails),
            !.failed = @ \/ FailsClosing(m, fails)]

MakerCloses(os, m) ==
  IF ClosesStream(m) THEN CloseStream(os, m.fp)
  ELSE IF m.fp = "none" /\ m.fd # -1 /\ "FP_CLOSE" \in m.flags
  THEN CloseFd(os, m.fd)
  ELSE os

CloseMaker(fails) ==
  /\ maker.live
  /\ Becomes(MakerCloses(OS, maker))
  /\ maker' = MakerClosed(maker, fails)
  /\ path' = PathAfter(maker, fails)
  /\ UNCHANGED <<cdb, own, other>>

(* The maker is garbage. *)
DropMaker(fails) ==
  /\ maker.live
  /\ Becomes(MakerCloses(OS, maker))
  /\ maker' = [MakerClosed(maker, fails) EXCEPT !.live = FALSE]
  /\ path' = PathAfter(maker, fails)
  /\ UNCHANGED <<cdb, own, other>>

-----------------------------------------------------------------------------
(* CDBMakerType_commit, from the moment that the file is complete: syncing *)
(* fails, or making the CDB instance does, or the maker gives up the file  *)
(* to the new instance and is closed.                                      *)
CommitArg ==
  IF maker.filename THEN "path" ELSE IF maker.fp # "none" THEN "stream" ELSE "int"

(* Variant: the maker goes on to own what it was to close. *)
HandedOverToo ==
  [maker EXCEPT !.flags = (@ \ {"DESTROY"}) \union {"COMMITTED"}]

(* Variant: it goes on to destroy the file. *)
HandedOverDestroying ==
  [maker EXCEPT !.flags =
     IF maker.filename THEN @ \union {"FP_CLOSE", "COMMITTED"}
     ELSE (@ \ {"FP_CLOSE"}) \union {"COMMITTED"}]

HandedOver ==
  [maker EXCEPT !.flags =
     IF maker.filename THEN (@ \ {"DESTROY"}) \union {"FP_CLOSE", "COMMITTED"}
     ELSE (@ \ {"DESTROY", "FP_CLOSE"}) \union {"COMMITTED"}]

CommitNew(c) == NewCdbs(c, CommitArg, maker.fd, Flag("FP_CLOSE"))

CommitUnsynced ==
  /\ Usable
  /\ maker' = [maker EXCEPT !.flags = @ \union {"COMMITTED"}]
  /\ UNCHANGED <<fds, streams, path, cdb, own, other>>

CommitNoCdb(c) ==
  /\ Usable /\ ~cdb[c].live /\ RoomToOpen
  /\ \E new \in CommitNew(c) : ~new.cdb.live /\ Becomes(new.os)
  /\ maker' = [maker EXCEPT !.flags = @ \union {"COMMITTED"}]
  /\ UNCHANGED <<path, cdb, own, other>>

Commit(c) ==
  /\ Usable /\ ~cdb[c].live /\ RoomToOpen
  /\ \E new \in CommitNew(c) :
       /\ new.cdb.live
       /\ Becomes(MakerCloses(new.os, HandedOver))
       /\ cdb' = [cdb EXCEPT ![c] = new.cdb]
  /\ maker' = [MakerClosed(HandedOver, "nothing") EXCEPT !.made = TRUE]
  /\ path' = PathAfter(HandedOver, "nothing")
  /\ UNCHANGED <<own, other>>

(* Closing the maker fails: the new instance is dropped. *)
CommitDropped(c) ==
  /\ Usable /\ ~cdb[c].live /\ RoomToOpen
  /\ ClosesStream(HandedOver)
  /\ \E new \in CommitNew(c) :
       /\ new.cdb.live
       /\ Becomes(CdbClosed(MakerCloses(new.os, HandedOver), new.cdb))
  /\ maker' = MakerClosed(HandedOver, "close")
  /\ UNCHANGED <<path, cdb, own, other>>

-----------------------------------------------------------------------------
(* CDB(file, close) *)
NewCdb(c, arg, close) ==
  /\ ~cdb[c].live /\ RoomToOpen
  /\ MayPass(arg, close)
  /\ ~UsesOwn(maker) \/ arg = "path"
  /\ \E new \in NewCdbs(c, arg, OwnFd, close) :
       /\ Becomes(new.os)
       /\ cdb' = [cdb EXCEPT ![c] = new.cdb]
       /\ IF new.cdb.live THEN PassedOn(arg, close) ELSE UNCHANGED own
  /\ UNCHANGED <<path, maker, other>>

(* close(), which may be called again, and garbage *)
CloseCdb(c) ==
  /\ cdb[c].live
  /\ Becomes(CdbClosed(OS, cdb[c]))
  /\ cdb' = [cdb EXCEPT ![c] = Closed(@)]
  /\ UNCHANGED <<path, maker, own, other>>

DropCdb(c) ==
  /\ cdb[c].live
  /\ Becomes(CdbClosed(OS, cdb[c]))
  /\ cdb' = [cdb EXCEPT ![c] = NoCdb]
  /\ UNCHANGED <<path, maker, own, other>>

-----------------------------------------------------------------------------
(* The rest of the program opens a temporary file, and closes it when no   *)
(* maker and no instance without a map needs it any more.                  *)
OpenOwn(as) ==
  /\ own = NotOwn /\ streams["own"] = -1
  /\ RoomToOpen
  /\ \/ /\ as = "stream"
        /\ Becomes(OpenStream(OS, "own", "tmp"))
        /\ own' = [as |-> as, fd |-> -1]
     \/ /\ as = "int"
        /\ Becomes(OpenFd(OS, "tmp"))
        /\ own' = [as |-> as, fd |-> NextFd(OS)]
  /\ UNCHANGED <<path, maker, cdb, other>>

CloseOwn ==
  /\ own # NotOwn
  /\ ~UsesOwn(maker)
  /\ \A c \in Cdbs : UsesOwn(cdb[c]) => ~cdb[c].opened /\ cdb[c].map # -1
  /\ Becomes(IF own.as = "stream" THEN CloseStream(OS, "own") ELSE CloseFd(OS, own.fd))
  /\ own' = NotOwn
  /\ UNCHANGED <<path, maker, cdb, other>>

OpenOther ==
  /\ other = -1
  /\ RoomToOpen
  /\ Becomes(OpenFd(OS, "other"))
  /\ other' = NextFd(OS)
  /\ UNCHANGED <<path, maker, cdb, own>>

CloseOther ==
  /\ other # -1
  /\ Becomes(CloseFd(OS, other))
  /\ other' = -1
  /\ UNCHANGED <<path, maker, cdb, own>>

-----------------------------------------------------------------------------
Maker ==
  \/ \E file \in Files : MakeFromPath(file)
  \/ \E file \in Files, fails \in Failures : MakeFromPathFails(file, fails)
  \/ \E close \in BOOLEAN : MakeFromOwnFails(close)
  \/ \E arg \in Args, close \in BOOLEAN :
       MakeFromOwn(arg, close)
  \/ MakerFails
  \/ \E fails \in Failures : CloseMaker(fails) \/ DropMaker(fails)
  \/ CommitUnsynced
  \/ \E c \in Cdbs : CommitNoCdb(c) \/ Commit(c) \/ CommitDropped(c)

Instance(c) ==
  \/ \E arg \in Args, close \in BOOLEAN :
       NewCdb(c, arg, close)
  \/ CloseCdb(c)
  \/ DropCdb(c)

Surroundings ==
  \/ \E as \in {"stream", "int"} : OpenOwn(as)
  \/ CloseOwn
  \/ OpenOther
  \/ CloseOther

Next == Surroundings \/ Maker \/ (\E c \in Cdbs : Instance(c))

Spec == Init /\ [][Next]_vars

-----------------------------------------------------------------------------
TypeOK ==
  /\ fds \in [Fds -> Inodes \union {"free"}]
  /\ streams \in [StreamNames -> Fds \union {-1}]
  /\ path \in Files \union {"none"}
  /\ maker \in [live : BOOLEAN, made : BOOLEAN, failed : BOOLEAN,
                filename : BOOLEAN, fd : Fds \union {-1},
                fp : {"own", "maker", "none"}, file : Files \union {"tmp", "none"},
                flags : SUBSET {"FP_OPENED", "FP_CLOSE", "DESTROY", "CLOSED",
                                "COMMITTED", "ERROR"}]
  /\ cdb \in [Cdbs -> [live : BOOLEAN, opened : BOOLEAN, fd : Fds \union {-1},
                       map : Fds \union {-1}, file : Files \union {"tmp", "none"},
                       fp : Cdbs \union {"own", "none"}]]
  /\ own \in [as : {"none", "stream", "int"}, fd : Fds \union {-1}]
  /\ other \in Fds \union {-1}

(* cdbx closes what it has opened or been given, and each of these once:   *)
(* never a descriptor that somebody else has got in the meantime.          *)
OthersUntouched == other # -1 => fds[other] = "other"

(* Whatever is closed, dropped or refused: an open CDB instance still has  *)
(* the file it was made for, and so does a maker that takes records.       *)
InUseOpen ==
  /\ Usable => fds[maker.fd] = maker.file
  /\ \A c \in Cdbs :
       cdb[c].fd # -1 =>
         fds[IF cdb[c].map = -1 THEN cdb[c].fd ELSE cdb[c].map] = cdb[c].file

(* Once the maker and the instances are closed and the program has closed  *)
(* what it did not pass on to be closed, no descriptor is left over: a     *)
(* temporary file is gone.                                                 *)
NothingLeft ==
  (maker.fd = -1 /\ own = NotOwn /\ \A c \in Cdbs : cdb[c].fd = -1) =>
    \A n \in Fds : fds[n] \in {"free", "other"}

(* A maker that was given a name and is closed leaves a file with that     *)
(* name behind exactly if commit() has returned a CDB instance, whichever  *)
(* way it was closed and whatever failed before; that closing the stream   *)
(* or removing the file fails is the exception.                            *)
CommitDecides ==
  "CLOSED" \in maker.flags /\ maker.file \in Files /\ ~maker.failed =>
    (path = maker.file <=> maker.made)

(* The temporary file of the documentation's example: passed to            *)
(* CDB.make(fp, close=True), committed and closed, with the instance the   *)
(* maker made, it is gone.                                                 *)
TemporaryGone ==
  /\ own.as = "stream" /\ streams["own"] = -1
  /\ maker.made /\ maker.file = "tmp" /\ maker.fd = -1
  /\ \A c \in Cdbs : cdb[c].fd = -1
  => \A n \in Fds : fds[n] # "tmp"
=============================================================================
