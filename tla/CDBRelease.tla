----------------------------- MODULE CDBRelease ------------------------------
(***************************************************************************)
(* Making a release of cdbx: the tasks build.version, build.release,       *)
(* build.dist, build.source, build.wheels, doc.*, upload.* and clean.*,    *)
(* with the files they leave in the checkout.                              *)
(*                                                                         *)
(* One task is invoked at a time, by a developer who edits and commits in  *)
(* between.  Each step of a task, a file rewritten in place or a program   *)
(* that is run, may fail: the disk is full, the program is not there or    *)
(* returns an error.  Then the rest of the task is not executed, and what  *)
(* the steps have done so far stays.                                       *)
(***************************************************************************)
EXTENDS InvokeTasks, Integers, FiniteSets

CONSTANTS
  LastVersion,       (* versions are 1 .. LastVersion, in this order       *)
  DevVersions,       (* those with "dev" in their name                     *)
  Installations,     (* sets of programs that may be found in PATH         *)
  StableBlock,       (* website_download.txt.in has a block for stable     *)
  Machine,           (* the architecture of the developer's machine        *)
  WheelSpecs,        (* settings["wheels"]: arch, libc, image, python      *)
  Interpreters,      (* what the images have in /opt/python, PyPy apart: a *)
                     (* spec with the abi, of which a python may have two  *)
  TagSets,           (* the manylinux tags that auditwheel gives to a file *)
  Menu,              (* the tasks that are invoked, ...                    *)
  MaxInvocations     (* ... and how many of those that change files        *)

(* The settings name one image for each interpreter, architecture and      *)
(* libc, and a manylinux tag is known by two numbers, see Best.            *)
ASSUME ReleaseAssumption ==
  /\ LastVersion \in Nat \ {0}
  /\ MaxInvocations \in Nat
  /\ IsFiniteSet(WheelSpecs)
  /\ \A s \in WheelSpecs : s.libc \in {"manylinux", "musllinux"}
  /\ \A s, t \in WheelSpecs :
       s.arch = t.arch /\ s.libc = t.libc /\ s.python = t.python => s = t
  /\ \A names \in TagSets : names # {} /\ names \subseteq Nat \X Nat

Versions == 1 .. LastVersion
None == 0            (* not there, or no version is named yet              *)
Lost == -1           (* the file was truncated and not written again       *)

VARIABLES
  programs,          (* what is installed                                  *)
  head,              (* the tracked files: as committed ...                *)
  work,              (* ... and in the working tree                        *)
  tags,              (* the commit each version's tag is for               *)
  userdoc,           (* docs/userdoc, by the release it names              *)
  dist,              (* dist/                                              *)
  digests,           (* the digests file in dist/                          *)
  staged,            (* wheel/*.tar.gz                                     *)
  wheels,            (* wheel/dist/                                        *)
  todo,              (* the steps that the invoked task has left           *)
  local,             (* files: the archives of dist(); began: the release  *)
                     (* that conf.py named when the task was invoked       *)
  left               (* how many more tasks that change files are invoked  *)

control == <<todo, local>>
inDist == <<dist, digests>>
inWheel == <<staged, wheels>>
vars == <<programs, head, work, tags, userdoc, dist,
          digests, staged, wheels, todo, local, left>>

NoPage == [stable |-> None, dev |-> None, rest |-> Lost]
NoLocals == [files |-> {}, began |-> None]
NoDigests == [version |-> None, lists |-> {}, signed |-> FALSE]

(* What is tracked: __version__, and where it is repeated. *)
Content ==
  [version : Versions,
   conf : Versions \union {Lost},              (* docs/_userdoc/conf.py     *)
   page : [stable : Versions \union {None},    (* website_download.txt      *)
           dev : Versions \union {None},
           rest : Versions \union {Lost}],
   changes : Versions \union {None, Lost}]     (* top of CHANGES            *)

(* A file in dist/: the version in its name, and the one that the document *)
(* in it names.                                                            *)
Forms == {"tar", "zip", "gz", "bz2", "xz", "CHANGES"}
File(form, text, whole) ==
  [form |-> form, version |-> work.version, text |-> text, whole |-> whole]

Of(form) == {f \in dist : f.form = form}

(* The download page that is made of the template. *)
PageOf(version) ==
  IF version \in DevVersions
  THEN [stable |-> None, dev |-> version, rest |-> version]
  ELSE [stable |-> IF StableBlock THEN version ELSE None, dev |-> None, rest |-> version]

(* The checkout is new, or build.source has been at work in it before. *)
Init ==
  /\ programs \in Installations
  /\ head = [version |-> 1, conf |-> 1, changes |-> 1, page |-> PageOf(1)]
  /\ work = head
  /\ tags = [v \in Versions |-> {}]
  /\ userdoc \in {None, 1}
  /\ dist = IF userdoc = None THEN {} ELSE {File("gz", 1, TRUE)}
  /\ digests = NoDigests
  /\ staged = {}
  /\ wheels = {}
  /\ todo = <<>>
  /\ local = NoLocals
  /\ left = MaxInvocations

-----------------------------------------------------------------------------
(* The developer, between two invocations; a heading without a version may *)
(* be added to CHANGES for the new one, or be forgotten.                   *)
Edit ==
  /\ todo = <<>>
  /\ work.version < LastVersion
  /\ \E heading \in {None, work.changes} :
       work' = [work EXCEPT !.version = @ + 1, !.changes = heading]
  /\ UNCHANGED <<programs, head, tags, userdoc, inDist, inWheel, control, left>>

Commit ==
  /\ todo = <<>>
  /\ head' = work
  /\ UNCHANGED <<programs, work, tags, userdoc, inDist, inWheel, control, left>>

Restore ==
  /\ todo = <<>>
  /\ work' = head
  /\ UNCHANGED <<programs, head, tags, userdoc, inDist, inWheel, control, left>>

-----------------------------------------------------------------------------
(* What each task does, step by step.  version() and dist() are called by  *)
(* release() as functions: what runs before them as tasks does not.        *)
Do(steps) == [i \in DOMAIN steps |-> [op |-> steps[i]]]

VersionSteps == <<"conf", "page", "changes">>
DistSteps == <<"wipe", "sdist", "gz", "bz2", "xz", "untar", "digest", "sign",
               "changelog">>

ReleaseSteps == <<"committed">> \o VersionSteps \o <<"tag">> \o DistSteps

Body ==
  [t \in Tasks |->
     CASE t = "build.version"  -> VersionSteps
       [] t = "build.dist"     -> DistSteps
       [] t = "build.release"  -> ReleaseSteps
       [] t = "build.source"   -> <<"source">>
       [] t = "build.wheels"   -> <<"emulate", "newwheels">>
       [] t = "upload.source"  -> <<"upload">>
       [] t = "upload.wheels"  -> <<"uploadwheels">>
       [] t = "doc.userdoc"    -> <<"run", "sphinx">>
       [] t \in {"clean.clean", "clean.dist"} -> <<"clean">>
       [] t \in {"doc.doc", "clean.py", "clean.cache", "clean.so"} -> <<>>
       [] OTHER                -> <<"run">>]

(* A collecting task runs what it has collected with another executor. *)
StepsOf(task, installed) ==
  IF task \in DOMAIN Collections
  THEN LET members == Session(Collected(task, installed))
       IN  FlattenSeq([i \in DOMAIN members |-> Do(Body[members[i]])])
  ELSE Do(Body[task])

Steps ==
  [installed \in Installations |->
     [t \in Tasks |->
        LET session == Session(<<t>>)
        IN  FlattenSeq([i \in DOMAIN session |-> StepsOf(session[i], installed)])]]

Startable ==
  [installed \in Installations |->
     IF SetupFails(installed) THEN {} ELSE Menu \intersect Registered(installed)]

(* Tasks that only read the checkout. *)
Reading(task) ==
  task \in {"upload.source", "upload.wheels", "check.all", "format.all"}

Invoke(task) ==
  /\ todo = <<>>
  /\ task \in Startable[programs]
  /\ todo' = Steps[programs][task]
  /\ local' = [files |-> {}, began |-> work.conf]
  /\ IF Reading(task) THEN UNCHANGED left ELSE left > 0 /\ left' = left - 1
  /\ UNCHANGED <<programs, head, work, tags, userdoc, inDist, inWheel>>

(* A step has its turn; the task goes on with its locals changed, or it    *)
(* ends, with the exception that nobody catches.                           *)
Doing(op) == todo # <<>> /\ Head(todo).op = op

DoneWith(changed) ==
  /\ todo' = Tail(todo)
  /\ local' = IF Tail(todo) = <<>> THEN NoLocals ELSE changed
  /\ UNCHANGED left

Done == DoneWith(local)

Fail ==
  /\ todo' = <<>>
  /\ local' = NoLocals
  /\ UNCHANGED left

(* A program that changes nothing here: pip, pylint, pytest ... *)
Run ==
  /\ Doing("run")
  /\ Done \/ Fail
  /\ UNCHANGED <<programs, head, work, tags, userdoc, inDist, inWheel>>

-----------------------------------------------------------------------------
(* _version.update: each file is read, truncated and written. *)
Rewrite(content) ==
  /\ work' = content
  /\ UNCHANGED <<programs, head, tags, userdoc, inDist, inWheel>>

(* Variant: it is not checked that the lines have been found. *)
StampConfUnchecked ==
  /\ Doing("conf")
  /\ \/ Done /\ Rewrite([work EXCEPT !.conf = IF @ = Lost THEN Lost ELSE work.version])
     \/ Fail /\ Rewrite([work EXCEPT !.conf = Lost])

(* An empty conf.py has no lines to be replaced: an AssertionError.        *)
StampConf ==
  /\ Doing("conf")
  /\ \/ work.conf # Lost /\ Done /\ Rewrite([work EXCEPT !.conf = work.version])
     \/ Fail /\ \E old \in {work.conf, Lost} : Rewrite([work EXCEPT !.conf = old])

(* Variant: the template is taken as it is. *)
PageUnfilled ==
  IF work.version \in DevVersions /\ work.page.stable # None
  THEN [work.page EXCEPT !.dev = work.version]
  ELSE [stable |-> None, dev |-> None, rest |-> None]

(* A development version goes into its block of a page that already shows  *)
(* a stable one; otherwise the page is made anew from the template.        *)
PageFor(version, page) ==
  IF version \in DevVersions /\ page.stable # None
  THEN [page EXCEPT !.dev = version]
  ELSE PageOf(version)

Page == PageFor(work.version, work.page)

StampPage ==
  /\ Doing("page")
  /\ \/ Done /\ Rewrite([work EXCEPT !.page = Page])
     \/ Fail /\ \E old \in {work.page, NoPage} : Rewrite([work EXCEPT !.page = old])

(* The heading without a version gets one; nobody minds if there is none.  *)
StampChanges ==
  /\ Doing("changes")
  /\ \/ /\ Done
        /\ Rewrite([work EXCEPT !.changes = IF @ = None THEN work.version ELSE @])
     \/ Fail /\ \E old \in {work.changes, Lost} : Rewrite([work EXCEPT !.changes = old])

-----------------------------------------------------------------------------
(* Variant: nobody asks git for its status. *)
CommittedBranchOnly == "git" \in programs

(* _release.check_committed; it fails, too, on a branch that is not for    *)
(* releases.                                                               *)
Committed == "git" \in programs /\ work = head

CheckCommitted ==
  /\ Doing("committed")
  /\ (Committed /\ Done) \/ Fail
  /\ UNCHANGED <<programs, head, work, tags, userdoc, inDist, inWheel>>

(* _release.add_tag: the name is that of the working tree, the tag is for  *)
(* the commit; an existing tag is not replaced.                            *)
AddTag ==
  /\ Doing("tag")
  /\ \/ /\ "git" \in programs
        /\ tags[work.version] = {}
        /\ tags' = [tags EXCEPT ![work.version] = {head}]
        /\ Done
     \/ Fail /\ UNCHANGED tags
  /\ UNCHANGED <<programs, head, work, userdoc, inDist, inWheel>>

(* The documentation names the release that is in conf.py. *)
Sphinx ==
  /\ Doing("sphinx")
  /\ \/ Done /\ userdoc' = work.conf
     \/ Fail /\ userdoc' \in {userdoc, Lost}
  /\ UNCHANGED <<programs, head, work, tags, inDist, inWheel>>

-----------------------------------------------------------------------------
InDist == UNCHANGED <<programs, head, work, tags, userdoc, inWheel>>

(* Variant: what earlier invocations left in dist/ stays. *)
WipeNothing ==
  /\ Doing("wipe")
  /\ Done
  /\ InDist
  /\ UNCHANGED inDist

(* dist(): dist/ is wiped first ... *)
Wipe ==
  /\ Doing("wipe")
  /\ dist' = {}
  /\ digests' = NoDigests
  /\ Done
  /\ InDist

(* ... then setup.py sdist is run under fakeroot; without fakeroot there   *)
(* is no program called None.  Formats are made one after the other, and a *)
(* file of the same name is replaced.                                      *)
Replacing(new) ==
  {f \in dist : \A n \in new : <<f.form, f.version>> # <<n.form, n.version>>}
    \union new

Made(forms) == Replacing({File(form, userdoc, TRUE) : form \in forms})

Sdist ==
  /\ Doing("sdist")
  /\ \/ /\ "fakeroot" \in programs
        /\ dist' = Made({"tar", "zip"})
        /\ DoneWith([local EXCEPT !.files = {f \in dist' : f.form = "zip"}])
     \/ /\ dist' \in {dist, Replacing({File("tar", userdoc, FALSE)}), Made({"tar"}),
                      Made({"tar"}) \union {File("zip", userdoc, FALSE)}}
        /\ Fail
  /\ InDist
  /\ UNCHANGED digests

(* source(): a tar.gz is added to dist/ as it is. *)
Source ==
  /\ Doing("source")
  /\ \/ Done /\ dist' = Made({"gz"})
     \/ /\ Fail
        /\ dist' \in {dist, Replacing({File("gz", userdoc, FALSE)})}
  /\ InDist
  /\ UNCHANGED digests

(* The tar is compressed by the programs that are there; the shell creates *)
(* the file before the program runs.                                       *)
Compressors == [gz |-> "gzip", bz2 |-> "bzip2", xz |-> "xz"]

Compressed(form, whole) ==
  {[t EXCEPT !.form = form, !.whole = whole] : t \in Of("tar")}

Compress(form) ==
  /\ Doing(form)
  /\ \/ /\ Compressors[form] \in programs
        /\ dist' = Replacing(Compressed(form, TRUE))
        /\ DoneWith([local EXCEPT !.files = @ \union Compressed(form, TRUE)])
     \/ /\ Compressors[form] \in programs
        /\ dist' = Replacing(Compressed(form, FALSE))
        /\ Fail
     \/ /\ Compressors[form] \notin programs
        /\ Done
        /\ UNCHANGED dist
  /\ InDist
  /\ UNCHANGED digests

(* Once it is compressed it is removed. *)
Untar ==
  /\ Doing("untar")
  /\ dist' = dist \ Of("tar")
  /\ Done
  /\ InDist
  /\ UNCHANGED digests

(* The digests file is named after the first zip file. *)
DigestsOf(archives) ==
  LET zips == {f \in archives : f.form = "zip"}
  IN  [version |-> Min({f.version : f \in zips}), lists |-> archives, signed |-> FALSE]

Digest ==
  /\ Doing("digest")
  /\ \/ Done /\ digests' = DigestsOf(local.files)
     \/ Fail /\ digests' \in {digests, DigestsOf(local.files)}
  /\ InDist
  /\ UNCHANGED dist

(* The signed copy replaces it. *)
Sign ==
  /\ Doing("sign")
  /\ \/ "gpg" \in programs /\ Done /\ digests' = [digests EXCEPT !.signed = TRUE]
     \/ Fail /\ UNCHANGED digests
  /\ InDist
  /\ UNCHANGED dist

CopyChanges ==
  /\ Doing("changelog")
  /\ \/ Done /\ dist' = Replacing({File("CHANGES", work.changes, TRUE)})
     \/ Fail /\ dist' \in {dist, Replacing({File("CHANGES", work.changes, FALSE)})}
  /\ InDist
  /\ UNCHANGED digests

-----------------------------------------------------------------------------
(* build.wheels: an architecture that needs emulation makes docker run an  *)
(* image first.                                                            *)
ArchesInOrder ==
  IF Machine = "x86_64" THEN <<"x86_64", "i686", "aarch64">> ELSE <<Machine>>

Arches == Range(ArchesInOrder)
Emulated == {a \in Arches \ {Machine} : ~(Machine = "x86_64" /\ a = "i686")}

InWheel == UNCHANGED <<programs, head, work, tags, userdoc, inDist>>

Emulate ==
  /\ Doing("emulate")
  /\ Done \/ (Emulated # {} /\ Fail)
  /\ InWheel
  /\ UNCHANGED inWheel

(* The interpreters of an architecture are built in one go for each image. *)
(* An architecture without settings is a KeyError when it has its turn: it *)
(* stands here as a group that nothing can be built for.                   *)
GroupsOf(arch, libc) ==
  LET specs == {s \in WheelSpecs : s.arch = arch /\ s.libc = libc}
      group(image, pythons) ==
        [arch |-> arch, libc |-> libc, image |-> image, pythons |-> pythons]
  IN  IF \A s \in WheelSpecs : s.arch # arch THEN {group("", {})}
      ELSE {group(i, {s.python : s \in {t \in specs : t.image = i}})
              : i \in {s.image : s \in specs}}

Libcs == <<"manylinux", "musllinux">>
Groups == UNION {GroupsOf(arch, libc) : arch \in Arches, libc \in Range(Libcs)}

GroupsInOrder ==
  FlattenSeq([a \in DOMAIN ArchesInOrder |->
    FlattenSeq([l \in DOMAIN Libcs |-> SetToSeq(GroupsOf(ArchesInOrder[a], Libcs[l]))])])

PackageSteps(file) ==
  LET groups == GroupsInOrder
  IN  <<[op |-> "stage", file |-> file]>>
        \o [i \in DOMAIN groups |-> [op |-> "docker", file |-> file, group |-> groups[i]]]
        \o <<[op |-> "unstage", file |-> file]>>

(* dist/ has one tarball of a version at most. *)
Tarballs(version) == {f \in Of("gz") : f.version = version}

WheelSteps ==
  FlattenSeq([v \in Versions |->
                IF Tarballs(v) = {} THEN <<>>
                ELSE PackageSteps(CHOOSE f \in Tarballs(v) : TRUE)])
  \o <<[op |-> "rename"]>>

(* Variant: what is in wheel/dist stays. *)
NewWheelsKeeping ==
  /\ Doing("newwheels")
  /\ todo' = IF Of("gz") = {} THEN <<>> ELSE WheelSteps
  /\ InWheel
  /\ UNCHANGED <<inWheel, local, left>>

(* wheel/dist is wiped, and then wheels are built for each tarball.  When  *)
(* there is none, nothing makes the directory again that is listed next.   *)
NewWheels ==
  /\ Doing("newwheels")
  /\ wheels' = {}
  /\ \/ /\ Of("gz") # {}
        /\ todo' = WheelSteps
        /\ UNCHANGED <<local, left>>
     \/ Of("gz") = {} /\ Fail
  /\ InWheel
  /\ UNCHANGED staged

OthersStaged(file) == {f \in staged : f.version # file.version}

(* The tarball is copied to where docker sees it ... *)
Stage ==
  /\ Doing("stage")
  /\ LET file == Head(todo).file
         partial == [file EXCEPT !.whole = FALSE]
     IN  \/ Done /\ staged' = OthersStaged(file) \union {file}
         \/ Fail /\ staged' \in {staged, OthersStaged(file) \union {partial}}
  /\ InWheel
  /\ UNCHANGED wheels

(* build.sh: what it finds of the interpreters that it is asked for; those *)
(* that the image does not have are passed over.                           *)
Found(group) ==
  {i \in Interpreters : /\ i.arch = group.arch /\ i.libc = group.libc
                        /\ i.image = group.image /\ i.python \in group.pythons}

(* The wheels that a container has moved to wheel/dist: one for each abi.  *)
WheelsFor(step, names, interpreters) ==
  {[version |-> step.file.version, arch |-> step.group.arch, libc |-> step.group.libc,
    python |-> i.python, abi |-> i.abi, tags |-> names] : i \in interpreters}

(* A container succeeds if it has found one interpreter at least, and if   *)
(* the wheels of all that it has found could be built, repaired and moved. *)
Docked ==
  LET step == Head(todo)
  IN  /\ step.file.whole
      /\ Found(step.group) # {}
      /\ \E names \in TagSets :
           wheels' = wheels \union WheelsFor(step, names, Found(step.group))
      /\ Done
      /\ UNCHANGED staged

(* Any command of it may fail and end it (set -e): before the wheels are   *)
(* moved, or between two of them.                                          *)
DockedInPart ==
  LET step == Head(todo)
  IN  /\ \E names \in TagSets, moved \in SUBSET Found(step.group) :
           /\ step.file.whole \/ moved = {}
           /\ wheels' = wheels \union WheelsFor(step, names, moved)
      /\ Fail

(* ... build.sh builds wheels of it in the image of each group, and        *)
(* whatever happens, the copy is removed.                                  *)
Docker ==
  /\ Doing("docker")
  /\ Docked \/ (DockedInPart /\ staged' = OthersStaged(Head(todo).file))
  /\ InWheel

Unstage ==
  /\ Doing("unstage")
  /\ staged' = OthersStaged(Head(todo).file)
  /\ Done
  /\ InWheel
  /\ UNCHANGED wheels

(* _best_manylinux: manylinux1, 2010 and 2014 come before manylinux_x_y,   *)
(* and of each the lower ones first.                                       *)
Best(names) ==
  CHOOSE n \in names :
    \A m \in names : n[1] < m[1] \/ (n[1] = m[1] /\ n[2] <= m[2])

Rename ==
  /\ Doing("rename")
  /\ wheels' = {IF w.libc = "manylinux" THEN [w EXCEPT !.tags = {Best(@)}] ELSE w
                  : w \in wheels}
  /\ Done
  /\ InWheel
  /\ UNCHANGED staged

-----------------------------------------------------------------------------
(* upload.source refuses to choose. *)
OnlyTarball == IF Cardinality(Of("gz")) = 1 THEN Of("gz") ELSE {}

Upload(what) ==
  /\ (what # {} /\ Done) \/ Fail
  /\ UNCHANGED <<programs, head, work, tags, userdoc, inDist, inWheel>>

UploadSource == Doing("upload") /\ Upload(OnlyTarball)
UploadWheels == Doing("uploadwheels") /\ Upload(wheels)

Clean ==
  /\ Doing("clean")
  /\ userdoc' = None
  /\ dist' = {}
  /\ digests' = NoDigests
  /\ wheels' = {}
  /\ Done
  /\ UNCHANGED <<programs, head, work, tags, staged>>

-----------------------------------------------------------------------------
Developer == Edit \/ Commit \/ Restore \/ \E t \in Menu : Invoke(t)

Step ==
  \/ Run \/ StampConf \/ StampPage \/ StampChanges
  \/ CheckCommitted \/ AddTag \/ Sphinx
  \/ Wipe \/ Sdist \/ Source \/ (\E form \in DOMAIN Compressors : Compress(form))
  \/ Untar \/ Digest \/ Sign \/ CopyChanges
  \/ Emulate \/ NewWheels \/ Stage \/ Docker \/ Unstage \/ Rename
  \/ UploadSource \/ UploadWheels \/ Clean

Next == Developer \/ Step

Spec == Init /\ [][Next]_vars

-----------------------------------------------------------------------------
Names == Versions \union {None, Lost}
Archives == [form : Forms, version : Versions, text : Names, whole : BOOLEAN]
Wheels ==
  [version : Versions, arch : Arches, libc : {"manylinux", "musllinux"},
   python : {i.python : i \in Interpreters}, abi : {i.abi : i \in Interpreters},
   tags : SUBSET UNION TagSets]

TypeOK ==
  /\ programs \in Installations
  /\ head \in Content /\ work \in Content
  /\ \A v \in Versions : tags[v] \subseteq Content
  /\ userdoc \in Names
  /\ dist \subseteq Archives /\ staged \subseteq Archives
  /\ digests.version \in Names /\ digests.lists \subseteq Archives
  /\ wheels \subseteq Wheels
  /\ local.files \subseteq Archives /\ local.began \in Names
  /\ left \in 0 .. MaxInvocations

(* Whatever programs are missing, a task that exists names only tasks that *)
(* exist, before it or as its members; but the archives need the documents *)
(* and thereby sphinx-build, and without it there are no tasks at all.     *)
NamesResolve ==
  LET registered == Registered(programs)
  IN  \A task \in registered :
        LET named == Range(Pre[task]) \union
                       (IF task \in DOMAIN Collections
                        THEN Range(Collected(task, programs)) ELSE {})
        IN  "sphinx-build" \in programs \/ "doc.doc" \notin named
              => named \subseteq registered

(* A tag names a commit of the version it is the tag of, whatever has been *)
(* edited, stamped or left half-written in the working tree: the check for *)
(* a clean checkout comes before the files are stamped, the tag after it.  *)
TagNamesVersion ==
  \A v \in Versions : \A commit \in tags[v] : commit.version = v

(* build.version has been at work in it, to the end. *)
StampedBefore(content) ==
  /\ content.conf = content.version
  /\ content.page = PageFor(content.version, content.page)
  /\ content.changes # None

(* When a version is tagged, conf.py and the download page name it, also   *)
(* when an earlier attempt has lost one of them and the loss was committed *)
(* (the page shows a development version if this is one, and no stable     *)
(* version that is newer).  CHANGES is that of the commit with its heading *)
(* stamped: if it has no version then, the commit had no heading to stamp, *)
(* be it forgotten or lost, and nothing is said of that.                   *)
(* The tag is for the commit, the archives are made of the working tree:   *)
(* both are the same if build.version was run and committed before, and    *)
(* otherwise they differ in nothing but what the version is stamped into.  *)
TaggedStamped ==
  [][tags' # tags =>
       /\ work.conf = work.version
       /\ work.page.dev = IF work.version \in DevVersions THEN work.version ELSE None
       /\ work.page.stable \in {None} \union ((1 .. work.version) \ DevVersions)
       /\ work.changes = IF head.changes = None THEN work.version ELSE head.changes
       /\ work = [head EXCEPT !.conf = work.conf, !.page = work.page,
                              !.changes = work.changes]
       /\ StampedBefore(head) => work = head
     ]_vars

(* What is signed is complete: every archive in dist/ is listed, whole, of *)
(* the version in the name of the digests file, and is not an uncompressed *)
(* one; whatever earlier, failed or other tasks have left there.           *)
SignedComplete ==
  [][digests'.signed /\ ~digests.signed =>
       /\ digests.lists = dist
       /\ Of("tar") = {}
       /\ Of("zip") # {}
       /\ \A f \in dist : f.whole /\ f.version = digests.version
     ]_vars

(* A finished archive contains the documentation as conf.py was when the   *)
(* task was invoked, never what an earlier task has left in docs/userdoc.  *)
DocsOfTheTask ==
  [][\A f \in dist' \ dist :
       f.whole /\ f.form # "CHANGES" => f.text = local.began]_vars

IsFor(wheel, file, i) ==
  /\ wheel.version = file.version
  /\ wheel.arch = i.arch /\ wheel.libc = i.libc
  /\ wheel.python = i.python /\ wheel.abi = i.abi

(* When build.wheels comes to its end there is, for every tarball, exactly *)
(* one wheel of each interpreter that was asked for and that an image has, *)
(* at least one for each architecture, libc and image of the settings, and *)
(* no other, whatever was there before; a manylinux wheel has one tag, and *)
(* no tarball is left in wheel/ that is not a piece of one.                *)
WheelsComplete ==
  [][Doing("rename") =>
       /\ \A f \in staged : ~f.whole
       /\ \A f \in Of("gz"), g \in Groups :
            /\ \E w \in wheels' : \E i \in Found(g) : IsFor(w, f, i)
            /\ \A i \in Found(g) : Cardinality({w \in wheels' : IsFor(w, f, i)}) = 1
       /\ \A w \in wheels' : \E f \in Of("gz"), g \in Groups :
            \E i \in Found(g) : IsFor(w, f, i)
       /\ \A w \in wheels' : w.libc = "manylinux" => Cardinality(w.tags) = 1
     ]_vars
=============================================================================
