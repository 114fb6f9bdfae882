# Verification of cdbx

cdbx is a Python extension, written in C, that makes and reads CDB files: constant
databases of at most 2^32 bytes.  This directory holds TLA+ models of it, the TLC
configurations that check them on small instances, and theorems with proofs that
the TLA+ proof system (TLAPS) checks for every value of the constants.  The models
are translated from the source; every definition's place in it is listed under `map`
in `PROJECT.json`, together with the hazards that the properties are about.

    tlc -config CDB32Reader.cfg MCCDB32Reader      check a model (X.cfg with MCX.tla)
    tlapm CDB32KeysProofs.tla                      check the proofs of a module

## The system

A **CDB file** is `table pointers | records | slot tables`.  A record is two lengths,
key and value.  A key's hash chooses one of 256 tables (low 8 bits) and the slot to
start from (the other bits); slots are filled by linear probing.  All numbers have 32
bits, and so all sums of them wrap.

| Part | State | Operations | Correct if |
|---|---|---|---|
| slot tables (`cdb32.c`: the fill loop of `cdbx_cdb32_maker_commit`, `cdb32_find`) | the table; the search: key, slots consumed, next slot | fill a bucket; find, find again | repeated finds return the key's records, all of them, in insertion order; both loops end |
| maker (`cdb32.c`, `cdbmaker.c`) | write buffer, offset and size modulo 2^32, chunks of slots, flags | add, commit, close | the committed file is the image of the added records; a file that was not completed never passes for one |
| reader (`cdb32.c`, `cdbtype.c`, `cdbiter.c`) | map or descriptor, cached end of records and number of keys; position of each iterator | contains, get, get all, len, iterate, close | it answers as an ordered multimap does |
| keys in blocks (`cdb32.c`) | the descriptor's position, the block, how far it has come | hash a key on disk, compare a key with one in memory or on disk, hash while writing | the cuts do not show in the answer |
| objects and descriptors (`cdbmaker.c`, `cdbtype.c`, `util.c`) | for each object: stream, descriptor, map, who closes it; the file's name | construct from name, stream or number; commit; close; destruction | all is closed, once, by its owner; a name is left behind iff it was committed |
| calls of several threads (`cdbtype.c`, `cdbiter.c`, `cdbmaker.c`) | the handle, and where each call was interrupted | all methods | no call uses a handle that was freed in between |
| replacing a database (`docs/_userdoc/index.txt`, `cdbmaker.c`) | files, names, what is on disk | make, commit, rename; open; kill, crash | readers see whole databases |
| release tooling (`tasks/`) | the checkout, `dist/`, `wheel/`, tags | the invoke tasks | what is tagged, signed and built is of one piece |

They interact as follows.  A `CDBMaker` hands its stream or descriptor, or the name to
be opened again, over to the `CDB` that `commit()` returns.  Iterators hold their
instance and read its `cdb32` handle at every step.  Instances on one file share
nothing but possibly the descriptor's position.  The extension keeps the
interpreter's lock throughout; other threads and finalizers run only where it asks the
interpreter for something (truth of an argument, allocation, a stream's `close()`).

What is hard to test here: 32-bit sums at the upper end of the file, which a test
would need 4 GiB for; failing or partial writes at every byte; calls interrupted in
the middle; descriptor numbers that are used again; crashes between write, sync and
rename; a release that fails in the middle and is tried again.

## The modules

    CDB32Format ── CDB32Find ──┬── CDB32FormatProofs ─┬─────┐
                               ├── CDB32Maker ────────┴── CDB32MakerProofs
                               └── CDB32Reader ───────────┴── CDB32ReaderProofs
                                     implements CDBStore
    SlotTable ──── SlotTableProofs          (the loops that CDB32Find takes at once)
    CDB32Keys ──── CDB32KeysProofs          (the reads that CDB32Find takes at once)
    CDBObjects ─── CDBObjectsProofs
    CDBThreads ─┬─ CDBCalls ───────┬── CDBConcurrencyProofs
                └─ CDBMakerCalls ──┤
                   CDBPublish ─────┘
    InvokeTasks ── CDBRelease ── CDBReleaseProofs

Each model `X` has a module `MCX` with model values.  Operators called *variants* in
the comments are what a plausible mistake would make of the definition that follows
them; they are not part of the specifications and serve to show, for each property,
that it would notice (`mutants` in `PROJECT.json`).

**SlotTable.** One bucket.  `TakeRecord`, `SkipFilled`, `PlaceRecord` are the loop of
`commit()`; `FindFirst`, `FindAgain` the beginning of a `cdb32_find` call, `ProbeEnd`,
`ProbeOther`, `ProbeMatch` an iteration of its loop.  A record's file offset is
abstracted to its number; 0 marks a free slot as in the code.

**CDB32Format, CDB32Find.** The bytes: packing, the image of a list of records,
`cdb32_read` with its bounds, `cdb32_find` with the state that it keeps from call to
call, the walk that `len` and the iterators share, the length of the map.  Over words
of WORD digits to the base BYTE instead of four bytes.  Pure operators.

**CDB32Maker.** `add()` in four steps (lengths, key, value, slot) and `commit()` in
four (sort and table by table, flush, header, open): the places where either can fail.
`offset`, `size`, `slot_counts`, `slot_lists`, `slot_list_index`, the buffer and the
flags are those of the code.  A write may stop after any number of bytes.

**CDB32Reader, CDBStore.** `CDBStore` is what an instance promises: records in order,
cursors that step through them.  `CDB32Reader` does it on bytes, a call to a step
(they are not interruptible).  It implements `CDBStore` under the mapping from an
iterator's byte offset to the number of records before it (`ImplementsStore`).

**CDB32Keys.** `cdb32_hash_disk`, `cdb32_cmp_key_mem`, `cdb32_cmp_key_disk` and the
hashing within `cdb32_maker_buf_write`, a step for each block and for each `read(2)`.
Between calls others move the descriptor's position.  A hash is represented by the
bytes mixed in, in order: it depends on nothing else.

**CDBObjects.** `fds` is the process's table of descriptors, the next one opened is
the lowest free one; `streams` the Python file objects.  `Make...`, `Commit...`,
`CloseMaker`, `DropMaker`, `NewCdb`, `CloseCdb`, `DropCdb` are constructors, methods
and destructors with each way to fail, closing a stream and
removing the file (`Failures`) included.  The program has a temporary file of its own
that it passes on, and the process another descriptor that cdbx has nothing to do
with.  EXT3 chooses between the builds for Python 2 and 3.

**CDBThreads, CDBCalls, CDBMakerCalls.** Threads whose calls are interrupted at the
points named in `pc`; CDBThreads is what the calls of both types have in common.  The
answer "crash" stands for the use of a freed handle, a null pointer in C; "crash_get"
for the same in `get(all=...)`.

**CDBPublish.** The program of the user documentation: `make` under another name, add,
commit (write, fsync, open), `os.rename`.  Data are on disk for certain only after
fsync, names whenever the system writes them.  Any step may fail.  Makers may be abandoned and collected
later; the program may be killed, the system may crash; readers are other processes.

**InvokeTasks, CDBRelease.** `InvokeTasks`: features, the tasks that exist given what
is installed, collections, pre-tasks and the order of execution.  `CDBRelease`: a task
is a sequence of steps (`todo`), each of which can fail and leave what it has done;
the developer edits, commits, restores files and invokes the next one.  `Docked` and
`DockedInPart` are `wheel/build.sh` in a container: it builds with those interpreters
of the image that it was asked for (`Found`), of which a version may have none or two,
and needs to find one.

## Runs

All runs check for deadlock; none has one, as every model has a call that can be made
at any time.  States are distinct states, up to symmetry where the cfg says so.

| Run | States | Instance | Shows |
|---|---|---|---|
| slot_table | 22,160 | up to 4 records over 4 keys: two with the same hash, one with the same first slot as these | `LookupInOrder`, `LookupComplete`: finds return the key's records in insertion order and skip none; `EndOfSearchMarker`: there is a free slot to stop at; `FillEnds`, `LookupEnds`: the loops end |
| maker | 60,628 | base 5, 3 digits: 125 bytes are the program's 2^32; 2 tables; up to 6 records; chunks of 2 slots, a buffer of 7 bytes | `Accounted`: no byte, reserved room or slot is lost in buffer, size or chunks; `SpaceReserved`; `HeaderLast`; `CommittedImage`; `FoundRight`: the committed file answers in full, and any file left half-written, header included, never with a value that was not added for the key; `NeverCommittedTorn` |
| reader | 85,708 | base 7, 2 digits: 49 bytes; every list of up to 3 records over 3 keys; mapped or read; an iterator | `MapCoversFile`: the length computed in 32 bits is the file's, also for the largest; `PositionsRight`; `ImplementsStore` |
| keys | 108,884 | every file of 4 bytes, every key of up to 3, two values of a byte, blocks and buffer of 2 | `HashRight`, `CompareRight`, `FormatErrorRight`, `CallEnds` |
| objects | 939,504 | 2 instances, 2 files, 5 descriptors, Python 2 build | `OthersUntouched`: no descriptor closed twice; `InUseOpen`: none too early; `NothingLeft`: none left; `CommitDecides`: a name is left behind iff committed |
| objects_map_leak | violation | 1 instance, Python 3 build | `TemporaryGone` fails, see findings |
| calls | 6,265 | 3 threads | `CheckedUsed`, `FileUnderHandle`, `ReleasedOnce` |
| calls_get | violation | 3 threads | `OnlyOpenUsed` fails, see findings |
| maker_calls | 667 | 3 threads | `MakerOnlyOpenUsed`, `CommittedOnce`, `UncommittedGone` |
| publish | 273,934 | 2 makers, a reader, 4 files | `WholeSeen` |
| publish_retry | violation | the same | `MakerKeepsFile` fails, see findings |
| release | 449,858 | 3 versions, one a development version, with or without a heading in CHANGES; 2 tasks that change files and any number that do not; 3 sets of programs; one image that lacks an interpreter and has another twice; wheels of a container bear either of two sets of tags | `NamesResolve`: no task names one that is missing; `TagNamesVersion`; `TaggedStamped`; `SignedComplete`; `DocsOfTheTask`; `WheelsComplete`: one wheel for each interpreter found, for each image at least one |

Why the bounds are enough:

- *slot_table*: a search is disturbed by a record of the same hash, by one displaced
  from the same start, and by wrapping; with four records in eight slots all of them
  occur together.
- *maker*: the lengths of keys and values are such that the largest file is filled to
  its last byte, and that a record is refused for its lengths, its key, its value or
  its slots; chunks are filled and begun; strings are longer than the buffer or empty,
  and end at every place in it that the code treats differently.  TABLES, and with it
  the header, is small so that records take most of the file.
- *reader*: three records of length 0 and 1 fill 49 bytes exactly; keys repeat, and
  differ in the same bucket.  A second iterator would add nothing: iterators share only
  the two caches, which are written once with a value that does not depend on who asks.
- *keys*: more than one block, one not full, keys that end with the file or behind it.
  Hash and comparison treat all bytes alike, two values are enough to differ.
- *objects*: each object has at most a stream and a map open, and the maker and the
  program one each; the number freed by any of them can be taken by any other.
- *calls*, *maker_calls*: one thread that is interrupted, one that closes and a
  third in between.
- *publish*: a maker in use and an abandoned one; one file each for "real", for "tmp",
  for the reader, and to spare.
- *release*: what one task leaves behind meets the next one; two are enough for that.
  The checkout is new or has the work of `build.source` in it.  MaxInvocations bounds
  tasks that change files, LastVersion the edits.  One image has everything asked for
  and no more, one lacks an interpreter and has another twice, one has an interpreter
  too many (Interpreters); auditwheel gives a wheel one set of tags.

Bounds that occur in guards of the models: MaxRecords (SlotTable, CDB32Reader),
SIZE and MaxLen (CDB32Keys), MaxFd (CDBObjects: opening fails when there is no
descriptor), LastVersion and MaxInvocations (CDBRelease).  CDB32Maker has none: the
code's own limit on the file ends it.

Fairness: `SlotTable!FairSpec` has weak fairness of the fill loop and of the probe
loop, `CDB32Keys!Spec` of a call's steps.  All are C code that runs on within one call
with the interpreter's lock held; that a program makes a next call, or that reading
fails, is never assumed.  `read(2)` is taken to return.

## Proofs

Eight modules, for all values of the constants that satisfy the named assumptions:

- **SlotTableProofs** (`SlotTableAssumption`: hashes are numbers).  `IInv` = `TypeOK`,
  `FillInv`, `FindInv`.  `LookupInOrder` is not inductive: it speaks of the records
  returned, and what makes it true is where they are.  `FillInv` says that each record
  is in one slot, that no free slot lies between a record and the slot its hash starts
  from, and that of two records with one hash the older one is nearer to it; `FindInv`
  that the search has consumed the slots up to a distance and returned precisely the
  records of the key that are in these.  Distances on the ring of slots are the lemmas
  at the beginning.  `ConsumedFilled` adds that the slots consumed are filled; as they
  hold different records, the pigeonhole principle says that there are no more of them
  than records, and so a free slot comes before the end.  Proved: `TypeOK`,
  `LookupInOrder`, `LookupComplete`, `EndOfSearchMarker`.
- **CDB32FormatProofs** (`FormatAssumption`).  About the operators of CDB32Format and
  CDB32Find, without any state.  What folds and `FlattenSeq` compute (`FoldTrace`,
  `FlattenTrace`: the community modules define them by recursive functions on sets of
  positions, so the induction is one on finite sets); that a record's slot has a place
  of its own among the buckets and every place is taken (`PlacesDiffer`, `EveryPlace`);
  how long the parts of a file are (`ImageParts`).  Then reading: unpacking a word
  undoes packing it (`UnpackDigits`), and gives no more than the word if only its first
  bytes are written (`UnpackPart`); each record, slot and table pointer is read where it
  was put (`RecordRead`, `SlotHolds`, `PointerHolds`).  A table being filled keeps for
  each slot the distance from where its hash starts, with no free slot on the way and
  the slots of one hash in order (`PlacedBy`; `PlaceSlotFills` is its step), and by
  counting there is room (`RoomLeft`); so a search gets to the records of its hash in
  order and then to a free slot (`SlotsInOrder`).  The offsets it computes on the way
  are exact although the code adds in 32 bits and the last table may end at 2^32
  (`NextReached`).  `FindsNext` says what one call of `cdb32_find` returns, and
  induction over the calls gives `FindAllCorrect`: a key's values in the order they were
  added and nothing else.  Its hypothesis, `Fits`, is that the file can be addressed,
  which the maker's invariant provides.  `FoundInViews` is about files that the maker
  left half-written, header included: a pointer of which only the first bytes are there
  names the table, the first slots of it, or nothing (`TornPointer`), and what is found
  in these slots was added.
- **CDB32MakerProofs** (`FormatAssumption`, `MakerAssumption`).  Two invariants.
  `SpaceReserved` holds between calls; in the middle of an `add()` the offset may have
  wrapped to 0.  `SpaceInv` therefore speaks of the true lengths, which no variable of
  the code holds (`Produces`, `Needs`), and says that `offset` and `size` are these
  modulo 2^32 and that `Needs` is in range, so that the modulus loses nothing.
  `TooBigExact` is the heart: the code's test on 32-bit differences is exact.

  `ImageInv` is about the bytes.  That a committed file is the image of the records
  follows from no single step; one must know throughout what is on disk and in the
  buffer (`DiskKept`: together they are what the calls have produced, the next byte
  goes to the end, the header is empty), what the chunks and counts hold (`SlotsKept`:
  the slot of every record, in order, and the size of every bucket), where a record
  that is being added begins (`AddKept`), how far `commit()` has come (`CommitKept`:
  the slots are sorted, so many pointers are made, and the file fits), that only a
  maker without an error comes that far (`FlagsKept`), and, also after an error, that
  the first n bytes of the header are written, where n is 0 unless all else is on disk
  (`HeaderKept`).  TLC has checked it on the instance of run maker (60,628 states).
  The lemmas say that the counting sort over the chunks from the newest to the oldest
  puts each slot in its place (`PutBackKeeps`, `SortedByBuckets`), and that neither way
  of writing moves a byte wherever the buffer is emptied (`PutWordsKeeps`,
  `PutStringKeeps`).  The pair of the two invariants is kept by every step: the first
  shows that offsets in slots and pointers are true ones.  With CDB32FormatProofs
  it says what any reader of the file finds.  Proved: `TypeOK`, `SpaceReserved`,
  `Accounted`, `HeaderLast`, `CommittedImage`, `FoundRight`, `NeverCommittedTorn`.
- **CDB32KeysProofs** (`KeysAssumption`: blocks are not empty).  `KeysInv`: the bytes
  before `done` are hashed or equal (`LoopInv`), the descriptor stands where a hash
  will go on to read (`HashInv`), and a block in progress is a piece of the file from
  where it began (`BlockInv`).  Lemmas say when two pieces of a file or a key join.
  Proved: `TypeOK`, `HashRight`, `CompareRight`, `FormatErrorRight`.
- **CDB32ReaderProofs** (`FormatAssumption`, `ReaderAssumption`).  `ReaderInv` says that
  the file is the image of the records and fits, that the cached length of the map, end
  of the records and number of keys are either unset or right, and that each iterator
  stands at a record or at the end.  The lemmas are about what the calls compute from the
  bytes: the length of the map is that of the file although it is derived from the last
  table that is in use, in 32 bits (`MapIsFile`); the end of the records is where the
  first of the table pointers leads (`SentinelIs`); a walk gets from
  each record to the one behind it, stops at the first that is wanted or at the end, and
  is told which records are the first with their keys by searching for these
  (`RecordAtIs`, `WalkFinds`); as many records are the first with their keys as there
  are keys (`KeysCounted`), so that `len` counts keys (`CountsFirstOnes`).  For each call
  one lemma says what it does to the caches and what it answers (`LookUpDoes`,
  `CountDoes`, `NextRecordDoes`, `IterateIs`); the invariant and the refinement both
  follow from these.  A record's number is recovered from its byte offset, because no
  two records begin at the same one (`CursorAt`).  Proved: `TypeOK`, `MapCoversFile`,
  `PositionsRight`, and `ImplementsStore`: initial states are initial states of
  CDBStore, and each call is the CDBStore operation with its answer.
- **CDBConcurrencyProofs** (none for threads, `PublishAssumption`).  `CallsInv` adds that
  while a stream is being closed the handle is gone and the stream has not been given up
  (`ClosingFreed`).  Proved of CDBCalls: `TypeOK`, `CheckedUsed`, `FileUnderHandle`,
  `ReleasedOnce`.

  `MakerInv` adds that a commit in progress or over has set its flag; `MakerTypeOK`
  contains the agreement of the CLOSED flag with the pointer, which the first of the
  properties rests on.  `DestroyInv` says which call still owes what: as long as the
  file is there and nothing has failed, one is about to close the stream, to unlink, or
  to return the instance.
  Proved of CDBMakerCalls: `MakerTypeOK`, `MakerOnlyOpenUsed`, `CommittedOnce`,
  `UncommittedGone`.

  `PublishInv`: a file that anybody may see, now or after a crash, is whole and on disk;
  the file under "tmp" is none of them; what the program's step says of its file is so.
  Proved of CDBPublish: `WholeSeen`.
- **CDBObjectsProofs** (`ObjectsAssumption`: the set of numbers is finite, the model
  values differ).  None of the properties is inductive, because each speaks of one
  object and what keeps it true is what no other object does.  `Inv` says who holds
  what: of the streams, the map objects, the numbers on their way to a `close()` and the
  rest of the process, no two hold the same descriptor (`Owned`, `Sound`), a descriptor
  held refers to the file that its holder thinks it does, and, unless a map's buffer
  keeps it, each open descriptor has a holder; an instance or a maker only closes what
  was opened for it (`MakerEntitled`, `CdbEntitled`, `OwnEntitled`, `OwnedByOne`); and
  the step of `commit()` and the fate of the file agree (`FileDecides`).  The lemmas say
  what opening, handing on and closing a descriptor do to this, for any number of
  instances and descriptors.  Proved: `TypeOK`, `OthersUntouched`, `InUseOpen`,
  `NothingLeft` (for builds without the extra reference), `CommitDecides`.

- **CDBReleaseProofs** (`ReleaseAssumption`: there is a first version and a bound of
  invocations; the list of interpreters is finite and, as the settings are dictionaries
  in dictionaries, names one image for an interpreter, architecture and libc; a
  manylinux tag is known by two numbers).  A task takes its steps from the front of
  `todo`, and a failure drops the rest.  So what is true of the files depends on how far
  the task has come, and `ReleaseInv` says that for each step which may come next: the
  documentation is of `conf.py` as it was (`DocsMade`), these files have been stamped
  (`Stamped`), these archives have been made, all of them whole, of one version, and
  known to the task (`DistMade`).  It also says that between check and tag nothing else
  is committed (`CommitKept`), that no page shows a stable version from the future
  (`PagesRight`), that a tarball is in `wheel/` only while containers are run for it
  (`StagedUsed`), and that an interpreter of an image has its one wheel of a tarball
  exactly if the container for it is behind (`WheelsMade`).  TLC has checked it on the
  instance of run release (449,858 states).  `CommitKept` and `PagesRight` are what
  makes the tagged commit and the tree that the archives are made of agree, but for the
  stamps (`TaggedStamped`).

  That such facts carry over from step to step needs the order of the steps: for any
  list of tasks in any order, with what they name and run before them, the step that
  stamps a page comes right after that for `conf.py`, and so on (`Chained`), and
  `sphinx` comes before what archives (`Ordered`, `Ahead`).  Tasks, their members and
  their steps are joined by `FlattenSeq`, of which the first lemmas say what it returns
  (`FlattenTrace`; induction is one on finite sets here too, `UpTo`).  For
  `build.wheels` the steps are made of the tarballs and groups of interpreters: no
  container is run twice, each between bringing its tarball and taking it away
  (`WheelStepsGood`).  Proved: `TypeOK`, `NamesResolve`, `TagNamesVersion`, and of the
  action properties `TaggedStamped`, `SignedComplete`, `DocsOfTheTask`,
  `WheelsComplete`.

Only model-checked: liveness (`FillEnds`, `LookupEnds`, `CallEnds`), which TLAPS cannot
prove.  The bounds of the runs do not matter for anything else that is claimed here,
but for the findings, where one instance is enough.

## Findings

- **The map of a closed instance stays** (`cdbx/cdb32.c:878`, run objects_map_leak).
  In a build for Python 3 a buffer of the mmap object is requested and never released.
  `close()` drops the object, which the buffer keeps alive, and with it the map and its
  descriptor.  The documentation's example passes a temporary file to `CDB.make(...,
  close=True)`, commits and closes, and says "now it's gone" (`index.txt:78-92`); the run
  does the same, and a descriptor of the file is left.
- **get(all=...) on an instance closed in between** (`cdbx/cdbtype.c:173`, run
  calls_get).  The handle is checked before the truth value of `all` is asked for, and
  used after it.  Other calls check again, or are not interrupted.
- **An abandoned maker removes the file of its successor** (`cdbx/cdbmaker.c:193`, run
  publish_retry).  The maker remembers the name, not the file.  Readers are not
  affected (`WholeSeen` holds), but the second attempt fails at `commit()` or rename.

Observed; no run is about these, as the documents say less, or little:

- A maker seeks when it is created and before it writes the header; in between it
  relies on the descriptor's position (`cdb32.c:931`), which `fileno()` gives away.
- `close()` from another thread while `commit()` makes the instance
  (`cdbmaker.c:92`) may unlink the file that `commit()` goes on to return.
- `cdbx_obj_as_fd` keeps a reference to the name when `fname_` is NULL
  (`util.c:128-153`).
- The tag is for the commit, the archives are of the working tree, which `release()` has
  stamped after checking that it is clean: unless `build.version` was run and committed
  before, the two differ in the stamps.
- `wheel/build.sh` passes over interpreters that the image lacks, builds for every
  directory of a version (cp27m and cp27mu), and succeeds with one (`build.sh:43-54`);
  `build.wheels` does not notice that a wheel is missing (`WheelsComplete` speaks of
  those found).  An architecture without settings is a `KeyError` (`build_.py:137`), in
  the model a group that nothing can be built for.
- Without sphinx-build no task works (`build_.py:232`): `doc.doc` is optional
  (`doc/tasks.py:46`), and `development.txt:26` installs Sphinx for Python 3.10 and
  later only, but `build.source`, `build.dist` and `build.release` name it as a
  pre-task, a `KeyError` in `setup_tasks`.  `NamesResolve` excepts it.
- A version can be tagged that CHANGES does not have (`_version.py:136`): a heading is
  stamped if there is one.  If it was forgotten, or the file was emptied by an attempt
  that failed and then committed, nothing is said; the same in `conf.py` is an error.
  `TaggedStamped` says that CHANGES then lacks nothing that the commit does not lack.
- `release()` stamps the version after the documentation was built.
- A failing `gzip` leaves a piece of a tarball under the name that `upload.source`
  looks for; `build.source` adds a tarball to a `dist/` that is already signed.
- `dist()` wipes `dist/` before it finds out that fakeroot or gpg is missing.
- Files rewritten in place are lost when the write fails.
- The marker of the stable block in `website_download.txt.in` is indented, so that it
  is not recognised; StableBlock = TRUE models the intended template.

## Not modelled

- `main.c`, `cdbx.h`, `__init__.py`, `cext.h`: registration, declarations.
- In the reader: MemoryError, and damaged files other than those that a maker leaves
  half-written; in CDB32Keys the mapped variants, which are one `memcmp`.  A call is taken to have the descriptor's
  position for itself: another thread that uses the same descriptor without the
  interpreter's lock could move it between `lseek` and `read` (`cdb32.c:285-291`).
- A failing `lseek` between the last flush and the header; the position of a descriptor
  shared with another process after fork; the collector's clearing of iterators.
- CDBObjects has one maker with one name.  CDBMakerCalls takes a maker with a name:
  the others differ in what they close, which is CDBObjects' subject.
- `setup.py`, `tasks/deps`, the test runner and `conf.py`: arguments handed to other
  programs.
- In the release tooling: universal wheels (not selected by the settings),
  `doc.website` (publishes nothing), the quoting of shell commands.

## What could follow

CDBObjects with two makers of one name,
which would join it with CDBPublish.
