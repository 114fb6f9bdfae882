-------------------------- MODULE CDBObjectsProofs --------------------------
EXTENDS CDBObjects, FiniteSetTheorems, TLAPS

(* A non-empty set of natural numbers has a least element: the intervals   *)
(* 0 .. n that end in the set have a smallest one.                         *)
LEMMA LeastNat ==
  ASSUME NEW S, S \subseteq Nat, S # {}
  PROVE  \E n \in S : \A m \in S : n <= m
<1> DEFINE T == {0 .. n : n \in S}
<1>1. IsWellFoundedOn(StrictSubsetOrdering(Nat), FiniteSubsetsOf(Nat))
  BY FS_StrictSubsetOrderingWellFounded
<1>2. T \subseteq FiniteSubsetsOf(Nat)
  <2>1. SUFFICES ASSUME NEW n \in S PROVE 0 .. n \in FiniteSubsetsOf(Nat)
    OBVIOUS
  <2>2. IsFiniteSet(0 .. n)
    BY FS_Interval
  <2>3. QED BY <2>2 DEF FiniteSubsetsOf
<1>3. T # {}
  OBVIOUS
<1> HIDE DEF T
<1>4. PICK x \in T : \A y \in T : <<y, x>> \notin StrictSubsetOrdering(Nat)
  BY <1>1, <1>2, <1>3, WFMin
<1>5. PICK n \in S : x = 0 .. n
  BY DEF T
<1>6. ASSUME NEW m \in S, m < n
      PROVE  FALSE
  <2>1. <<0 .. m, 0 .. n>> \in StrictSubsetOrdering(Nat)
    BY <1>6 DEF StrictSubsetOrdering
  <2>2. 0 .. m \in T
    BY DEF T
  <2>3. QED BY <2>1, <2>2, <1>4, <1>5
<1>7. QED BY <1>6

(* The next descriptor is a free one as long as there is one.              *)
LEMMA NextFdFree ==
  ASSUME NEW os, FreeFds(os) # {}
  PROVE  NextFd(os) \in Fds /\ os.fds[NextFd(os)] = "free"
<1>1. FreeFds(os) \subseteq Nat
  BY ObjectsAssumption DEF FreeFds, Fds
<1>2. \E n \in FreeFds(os) : \A m \in FreeFds(os) : n <= m
  BY <1>1, LeastNat
<1>3. NextFd(os) \in FreeFds(os)
  BY <1>2 DEF NextFd, Min
<1> QED  BY <1>3 DEF FreeFds

(* Room to open is enough for two: there is a descriptor left after one.   *)
LEMMA RoomForTwo ==
  ASSUME RoomToOpen
  PROVE  \A n : \E m \in FreeFds(OS) : m # n
<1>1. IsFiniteSet(FreeFds(OS))
  <2>1. IsFiniteSet(Fds)
    BY FS_Interval, ObjectsAssumption DEF Fds
  <2> QED  BY <2>1, FS_Subset DEF FreeFds
<1>2. ASSUME NEW n, FreeFds(OS) \subseteq {n}
      PROVE  FALSE
  <2>1. Cardinality({n}) = 1 /\ IsFiniteSet({n})
    BY FS_Singleton
  <2>2. Cardinality(FreeFds(OS)) <= 1
    BY <1>2, <2>1, FS_Subset
  <2>3. Cardinality(FreeFds(OS)) \in Nat
    BY <1>1, FS_CardinalityType
  <2> QED  BY <2>2, <2>3 DEF RoomToOpen
<1> QED  BY <1>2

-----------------------------------------------------------------------------
MakerType ==
  [live : BOOLEAN, made : BOOLEAN, failed : BOOLEAN, filename : BOOLEAN,
   fd : Fds \union {-1}, fp : {"own", "maker", "none"},
   file : Files \union {"tmp", "none"},
   flags : SUBSET {"FP_OPENED", "FP_CLOSE", "DESTROY", "CLOSED", "COMMITTED",
                   "ERROR"}]
CdbType ==
  [live : BOOLEAN, opened : BOOLEAN, fd : Fds \union {-1},
   map : Fds \union {-1}, file : Files \union {"tmp", "none"},
   fp : Cdbs \union {"own", "none"}]
OwnType == [as : {"none", "stream", "int"}, fd : Fds \union {-1}]

(* What may have a descriptor: everything but the descriptors themselves.  *)
States ==
  [streams : [StreamNames -> Fds \union {-1}], maker : MakerType,
   cdb : [Cdbs -> CdbType], own : OwnType, other : Fds \union {-1}]

State == [streams |-> streams, maker |-> maker, cdb |-> cdb, own |-> own,
          other |-> other]

(* Who has a descriptor to close: a stream, a map, whoever a number was    *)
(* passed to, and the rest of the process.                                 *)
Holders == ({"stream"} \X StreamNames) \union ({"map"} \X Cdbs)
             \union ({"number"} \X (StreamNames \union {"other"}))

MakerNumber(m) ==
  IF m.fp = "none" /\ "FP_CLOSE" \in m.flags THEN m.fd ELSE -1

CdbNumber(y) == IF y.fp = "none" /\ y.opened THEN y.fd ELSE -1

NumberOf(S, n) ==
  IF n = "other" THEN S.other
  ELSE IF n = "own" THEN S.own.fd
  ELSE IF n = "maker" THEN MakerNumber(S.maker)
  ELSE CdbNumber(S.cdb[n])

(* The descriptor each of them has ...                                     *)
Held(S) ==
  [h \in Holders |->
     IF h[1] = "stream" THEN S.streams[h[2]]
     ELSE IF h[1] = "map" THEN S.cdb[h[2]].map
     ELSE NumberOf(S, h[2])]

(* ... and the file it is to refer to.                                     *)
FileOf(S) ==
  [h \in Holders |->
     IF h[2] = "other" THEN "other"
     ELSE IF h[1] = "number" \/ h[2] = "own" THEN "tmp"
     ELSE IF h[2] = "maker" THEN S.maker.file
     ELSE S.cdb[h[2]].file]

(* Nobody has what another one has; a descriptor that somebody has is open *)
(* and refers to the right file; and, unless maps leak, somebody has every *)
(* descriptor that is open.                                                *)
Sound(f, held, file) ==
  /\ f \in [Fds -> Inodes \union {"free"}]
  /\ held \in [Holders -> Fds \union {-1}]
  /\ \A h, k \in Holders : h # k /\ held[h] # -1 => held[h] # held[k]
  /\ \A h \in Holders : held[h] # -1 => f[held[h]] = file[h] /\ file[h] \in Inodes
  /\ ~EXT3 => \A n \in Fds : f[n] # "free" => \E h \in Holders : held[h] = n

(* The holder k opens a descriptor.                                        *)
LEMMA SoundOpened ==
  ASSUME NEW f, NEW h, NEW w, Sound(f, h, w),
         NEW n \in Fds, f[n] = "free",
         NEW k \in Holders, h[k] = -1,
         NEW file \in Inodes,
         NEW h2 \in [Holders -> Fds \union {-1}], NEW w2,
         h2[k] = n, w2[k] = file,
         \A j \in Holders \ {k} : h2[j] = h[j],
         \A j \in Holders \ {k} : h2[j] # -1 => w2[j] = w[j]
  PROVE  Sound([f EXCEPT ![n] = file], h2, w2)
<1> DEFINE f2 == [f EXCEPT ![n] = file]
<1>1. f2 \in [Fds -> Inodes \union {"free"}]
  BY DEF Sound
<1>2. \A j \in Holders : h[j] # -1 => h[j] # n
  BY ObjectsAssumption DEF Sound, Inodes
<1>3. n # -1
  BY ObjectsAssumption DEF Fds
<1>4. \A i, j \in Holders : i # j /\ h2[i] # -1 => h2[i] # h2[j]
  BY <1>2, <1>3 DEF Sound
<1>5. \A j \in Holders : h2[j] # -1 => f2[h2[j]] = w2[j] /\ w2[j] \in Inodes
  BY <1>2, <1>3 DEF Sound
<1>6. ASSUME ~EXT3, NEW m \in Fds, f2[m] # "free"
      PROVE  \E j \in Holders : h2[j] = m
  <2>1. CASE m = n
    BY <2>1
  <2>2. CASE m # n
    <3>1. f[m] # "free"
      BY <1>6, <2>2 DEF Sound
    <3>2. PICK j \in Holders : h[j] = m
      BY <1>6, <3>1 DEF Sound
    <3>3. j # k
      BY <1>3, <3>2 DEF Fds
    <3> QED  BY <3>2, <3>3
  <2> QED  BY <2>1, <2>2
<1> QED  BY <1>1, <1>4, <1>5, <1>6 DEF Sound

(* It closes the one it has.                                               *)
LEMMA SoundClosed ==
  ASSUME NEW f, NEW h, NEW w, Sound(f, h, w),
         NEW k \in Holders, h[k] # -1,
         NEW h2 \in [Holders -> Fds \union {-1}], NEW w2,
         h2[k] = -1,
         \A j \in Holders \ {k} : h2[j] = h[j],
         \A j \in Holders : h2[j] # -1 => w2[j] = w[j]
  PROVE  Sound([f EXCEPT ![h[k]] = "free"], h2, w2)
<1> DEFINE f2 == [f EXCEPT ![h[k]] = "free"]
<1>1. f2 \in [Fds -> Inodes \union {"free"}]
  BY DEF Sound
<1>2. \A j \in Holders \ {k} : h[j] # h[k]
  BY DEF Sound
<1>4. \A i, j \in Holders : i # j /\ h2[i] # -1 => h2[i] # h2[j]
  BY DEF Sound
<1>5. \A j \in Holders : h2[j] # -1 => f2[h2[j]] = w2[j] /\ w2[j] \in Inodes
  BY <1>2 DEF Sound
<1>6. ~EXT3 => \A m \in Fds : f2[m] # "free" => \E j \in Holders : h2[j] = m
  BY <1>2 DEF Sound
<1> QED  BY <1>1, <1>4, <1>5, <1>6 DEF Sound

(* It hands the one it has over to the holder l, or keeps it (l = k).      *)
LEMMA SoundPassed ==
  ASSUME NEW f, NEW h, NEW w, Sound(f, h, w),
         NEW k \in Holders, NEW l \in Holders, h[l] = -1,
         NEW h2 \in [Holders -> Fds \union {-1}], NEW w2,
         h2[k] = -1, h2[l] = h[k], w2[l] = w[k],
         \A j \in Holders \ {k, l} : h2[j] = h[j],
         \A j \in Holders \ {k, l} : h2[j] # -1 => w2[j] = w[j]
  PROVE  Sound(f, h2, w2)
<1>4. \A i, j \in Holders : i # j /\ h2[i] # -1 => h2[i] # h2[j]
  BY DEF Sound
<1>5. \A j \in Holders : h2[j] # -1 => f[h2[j]] = w2[j] /\ w2[j] \in Inodes
  BY DEF Sound
<1>6. ~EXT3 => \A m \in Fds : f[m] # "free" => \E j \in Holders : h2[j] = m
  <2>1. -1 \notin Fds
    BY ObjectsAssumption DEF Fds
  <2>2. \A j \in Holders : h[j] # -1 => \E i \in Holders : h2[i] = h[j]
    BY DEF Sound
  <2> QED  BY <2>1, <2>2 DEF Sound
<1> QED  BY <1>4, <1>5, <1>6 DEF Sound

(* Without a map's release, the descriptor stays open and nobody has it.   *)
LEMMA SoundLeaked ==
  ASSUME NEW f, NEW h, NEW w, Sound(f, h, w), EXT3,
         NEW k \in Holders,
         NEW h2 \in [Holders -> Fds \union {-1}], NEW w2,
         h2[k] = -1,
         \A j \in Holders \ {k} : h2[j] = h[j],
         \A j \in Holders : h2[j] # -1 => w2[j] = w[j]
  PROVE  Sound(f, h2, w2)
<1>1. \A i, j \in Holders : i # j /\ h2[i] # -1 => h2[i] # h2[j]
  BY DEF Sound
<1>2. \A j \in Holders : h2[j] # -1 => f[h2[j]] = w2[j] /\ w2[j] \in Inodes
  BY DEF Sound
<1> QED  BY <1>1, <1>2 DEF Sound

LEMMA SoundKept ==
  ASSUME NEW f, NEW h, NEW w, Sound(f, h, w), NEW w2,
         \A j \in Holders : h[j] # -1 => w2[j] = w[j]
  PROVE  Sound(f, h, w2)
  BY DEF Sound

-----------------------------------------------------------------------------
Owned(f, S) == Sound(f, Held(S), FileOf(S))

LEMMA HolderCases ==
  /\ \A s \in StreamNames : <<"stream", s>> \in Holders
  /\ \A c \in Cdbs : <<"map", c>> \in Holders
  /\ \A n \in StreamNames \union {"other"} : <<"number", n>> \in Holders
  /\ \A h \in Holders :
       \/ \E s \in StreamNames : h = <<"stream", s>>
       \/ \E c \in Cdbs : h = <<"map", c>>
       \/ \E n \in StreamNames \union {"other"} : h = <<"number", n>>
  BY DEF Holders

LEMMA HeldValues ==
  ASSUME NEW S
  PROVE  /\ \A s \in StreamNames : Held(S)[<<"stream", s>>] = S.streams[s]
         /\ \A c \in Cdbs : Held(S)[<<"map", c>>] = S.cdb[c].map
         /\ \A n \in StreamNames \union {"other"} :
              Held(S)[<<"number", n>>] = NumberOf(S, n)
  BY HolderCases DEF Held

LEMMA CdbNumberValue ==
  ASSUME NEW y \in CdbType
  PROVE  /\ CdbNumber(y) \in Fds \union {-1}
         /\ y.fp # "none" => CdbNumber(y) = -1
         /\ y.fd = -1 => CdbNumber(y) = -1
         /\ ~y.opened => CdbNumber(y) = -1
         /\ y.fp = "none" /\ y.opened => CdbNumber(y) = y.fd
  BY DEF CdbNumber, CdbType

LEMMA MakerNumberValue ==
  ASSUME NEW m \in MakerType
  PROVE  /\ MakerNumber(m) \in Fds \union {-1}
         /\ m.fp # "none" => MakerNumber(m) = -1
         /\ m.fd = -1 => MakerNumber(m) = -1
         /\ "FP_CLOSE" \notin m.flags => MakerNumber(m) = -1
         /\ m.fp = "none" /\ "FP_CLOSE" \in m.flags => MakerNumber(m) = m.fd
  BY DEF MakerNumber, MakerType

LEMMA HeldTyped ==
  ASSUME NEW S \in States
  PROVE  Held(S) \in [Holders -> Fds \union {-1}]
<1>1. ASSUME NEW n \in StreamNames \union {"other"}
      PROVE  NumberOf(S, n) \in Fds \union {-1}
  <2>1. MakerNumber(S.maker) \in Fds \union {-1}
    BY MakerNumberValue DEF States
  <2>2. ASSUME NEW c \in Cdbs
        PROVE  CdbNumber(S.cdb[c]) \in Fds \union {-1}
    BY CdbNumberValue DEF States
  <2>3. S.own.fd \in Fds \union {-1} /\ S.other \in Fds \union {-1}
    BY DEF States, OwnType
  <2> QED  BY <2>1, <2>2, <2>3 DEF NumberOf, StreamNames
<1>2. \A c \in Cdbs : S.cdb[c].map \in Fds \union {-1}
  BY DEF States, CdbType
<1>3. \A s \in StreamNames : S.streams[s] \in Fds \union {-1}
  BY DEF States
<1> QED  BY <1>1, <1>2, <1>3, HolderCases, HeldValues DEF Held

(* From S to T everybody but those in K keeps what they have, and the file *)
(* it refers to.                                                           *)
SameBut(K, S, T) ==
  /\ \A s \in StreamNames : <<"stream", s>> \in K \/ T.streams[s] = S.streams[s]
  /\ \A c \in Cdbs : <<"map", c>> \in K \/ T.cdb[c].map = S.cdb[c].map
  /\ \A c \in Cdbs : \/ <<"number", c>> \in K
                     \/ CdbNumber(T.cdb[c]) = CdbNumber(S.cdb[c])
  /\ <<"number", "maker">> \in K \/ MakerNumber(T.maker) = MakerNumber(S.maker)
  /\ <<"number", "own">> \in K \/ T.own.fd = S.own.fd
  /\ <<"number", "other">> \in K \/ T.other = S.other
  /\ \/ <<"stream", "maker">> \in K \/ T.streams["maker"] = -1
     \/ T.maker.file = S.maker.file
  /\ \A c \in Cdbs : \/ <<"stream", c>> \in K \/ T.streams[c] = -1
                     \/ T.cdb[c].file = S.cdb[c].file
  /\ \A c \in Cdbs : \/ <<"map", c>> \in K \/ T.cdb[c].map = -1
                     \/ T.cdb[c].file = S.cdb[c].file

LEMMA SameHeld ==
  ASSUME NEW S, NEW T, NEW K, SameBut(K, S, T), NEW j \in Holders, j \notin K
  PROVE  /\ Held(T)[j] = Held(S)[j]
         /\ Held(T)[j] # -1 => FileOf(T)[j] = FileOf(S)[j]
<1>1. ASSUME NEW s \in StreamNames, j = <<"stream", s>>
      PROVE  /\ Held(T)[j] = Held(S)[j]
             /\ Held(T)[j] # -1 => FileOf(T)[j] = FileOf(S)[j]
  <2>1. Held(T)[j] = Held(S)[j] /\ Held(T)[j] = T.streams[s]
    BY <1>1, HeldValues DEF SameBut
  <2> QED  BY <1>1, <2>1 DEF SameBut, FileOf, StreamNames
<1>2. ASSUME NEW c \in Cdbs, j = <<"map", c>>
      PROVE  /\ Held(T)[j] = Held(S)[j]
             /\ Held(T)[j] # -1 => FileOf(T)[j] = FileOf(S)[j]
  <2>1. Held(T)[j] = Held(S)[j] /\ Held(T)[j] = T.cdb[c].map
    BY <1>2, HeldValues DEF SameBut
  <2> QED  BY <1>2, <2>1, ObjectsAssumption DEF SameBut, FileOf
<1>3. ASSUME NEW n \in StreamNames \union {"other"}, j = <<"number", n>>
      PROVE  /\ Held(T)[j] = Held(S)[j]
             /\ Held(T)[j] # -1 => FileOf(T)[j] = FileOf(S)[j]
  <2>1. NumberOf(T, n) = NumberOf(S, n)
    BY <1>3 DEF SameBut, NumberOf, StreamNames
  <2> QED  BY <1>3, <2>1, HeldValues DEF FileOf
<1> QED  BY <1>1, <1>2, <1>3, HolderCases

LEMMA OwnedOpened ==
  ASSUME NEW f, NEW S \in States, NEW T \in States, Owned(f, S),
         NEW n \in Fds, f[n] = "free", NEW k \in Holders,
         Held(S)[k] = -1, Held(T)[k] = n, FileOf(T)[k] \in Inodes,
         SameBut({k}, S, T)
  PROVE  Owned([f EXCEPT ![n] = FileOf(T)[k]], T)
<1>1. \A j \in Holders \ {k} : Held(T)[j] = Held(S)[j]
  BY SameHeld
<1>2. \A j \in Holders \ {k} : Held(T)[j] # -1 => FileOf(T)[j] = FileOf(S)[j]
  BY SameHeld
<1>3. Held(T) \in [Holders -> Fds \union {-1}]
  BY HeldTyped
<1> QED  BY <1>1, <1>2, <1>3, SoundOpened DEF Owned

LEMMA OwnedClosed ==
  ASSUME NEW f, NEW S \in States, NEW T \in States, Owned(f, S),
         NEW k \in Holders, Held(S)[k] # -1, Held(T)[k] = -1,
         SameBut({k}, S, T)
  PROVE  Owned([f EXCEPT ![Held(S)[k]] = "free"], T)
<1>1. \A j \in Holders \ {k} : Held(T)[j] = Held(S)[j]
  BY SameHeld
<1>2. \A j \in Holders : Held(T)[j] # -1 => FileOf(T)[j] = FileOf(S)[j]
  BY SameHeld
<1>3. Held(T) \in [Holders -> Fds \union {-1}]
  BY HeldTyped
<1> QED  BY <1>1, <1>2, <1>3, SoundClosed DEF Owned

LEMMA OwnedLeaked ==
  ASSUME NEW f, NEW S \in States, NEW T \in States, Owned(f, S), EXT3,
         NEW k \in Holders, Held(T)[k] = -1, SameBut({k}, S, T)
  PROVE  Owned(f, T)
<1>1. \A j \in Holders \ {k} : Held(T)[j] = Held(S)[j]
  BY SameHeld
<1>2. \A j \in Holders : Held(T)[j] # -1 => FileOf(T)[j] = FileOf(S)[j]
  BY SameHeld
<1>3. Held(T) \in [Holders -> Fds \union {-1}]
  BY HeldTyped
<1> QED  BY <1>1, <1>2, <1>3, SoundLeaked DEF Owned

LEMMA OwnedPassed ==
  ASSUME NEW f, NEW S \in States, NEW T \in States, Owned(f, S),
         NEW k \in Holders, NEW l \in Holders,
         Held(S)[l] = -1, Held(T)[k] = -1, Held(T)[l] = Held(S)[k],
         FileOf(T)[l] = FileOf(S)[k],
         SameBut({k, l}, S, T)
  PROVE  Owned(f, T)
<1>1. \A j \in Holders \ {k, l} : Held(T)[j] = Held(S)[j]
  BY SameHeld
<1>2. \A j \in Holders \ {k, l} :
        Held(T)[j] # -1 => FileOf(T)[j] = FileOf(S)[j]
  BY SameHeld
<1>3. Held(T) \in [Holders -> Fds \union {-1}]
  BY HeldTyped
<1> QED  BY <1>1, <1>2, <1>3, SoundPassed DEF Owned

LEMMA OwnedKept ==
  ASSUME NEW f, NEW S \in States, NEW T \in States, Owned(f, S),
         SameBut({}, S, T)
  PROVE  Owned(f, T)
<1>1. \A j \in Holders : Held(T)[j] = Held(S)[j]
  BY SameHeld
<1>2. \A j \in Holders : Held(T)[j] # -1 => FileOf(T)[j] = FileOf(S)[j]
  BY SameHeld
<1>3. Held(T) = Held(S)
  BY <1>1 DEF Held
<1> QED  BY <1>2, <1>3, SoundKept DEF Owned

-----------------------------------------------------------------------------
(* What the operations on descriptors and streams come to.                 *)
Os(f, st) == [fds |-> f, streams |-> st]

LEMMA OpenFdOs ==
  ASSUME NEW f, NEW st, NEW file
  PROVE  OpenFd(Os(f, st), file)
           = Os([f EXCEPT ![NextFd(Os(f, st))] = file], st)
  BY DEF OpenFd, Os

LEMMA CloseFdOs ==
  ASSUME NEW f, NEW st, NEW n
  PROVE  CloseFd(Os(f, st), n) = Os([f EXCEPT ![n] = "free"], st)
  BY DEF CloseFd, Os

LEMMA OpenStreamOs ==
  ASSUME NEW f, NEW st, NEW s, NEW file
  PROVE  OpenStream(Os(f, st), s, file)
           = Os([f EXCEPT ![NextFd(Os(f, st))] = file],
                [st EXCEPT ![s] = NextFd(Os(f, st))])
<1> DEFINE n == NextFd(Os(f, st))
<1>1. OpenStream(Os(f, st), s, file)
        = [Os([f EXCEPT ![n] = file], st) EXCEPT !.streams[s] = n]
  BY OpenFdOs, Zenon DEF OpenStream
<1>2. [Os([f EXCEPT ![n] = file], st) EXCEPT !.streams[s] = n]
        = Os([f EXCEPT ![n] = file], [st EXCEPT ![s] = n])
  BY DEF Os
<1> QED  BY <1>1, <1>2, Zenon

LEMMA CloseClosedOs ==
  ASSUME NEW f, NEW st, NEW s, st[s] = -1
  PROVE  CloseStream(Os(f, st), s) = Os(f, st)
<1>1. Os(f, st).streams = st
  BY DEF Os
<1> QED  BY <1>1 DEF CloseStream

LEMMA CloseOpenOs ==
  ASSUME NEW f, NEW st, NEW s, st[s] # -1
  PROVE  CloseStream(Os(f, st), s)
           = Os([f EXCEPT ![st[s]] = "free"], [st EXCEPT ![s] = -1])
<1>1. Os(f, st).streams = st
  BY DEF Os
<1>2. [CloseFd(Os(f, st), st[s]) EXCEPT !.streams[s] = -1]
        = Os([f EXCEPT ![st[s]] = "free"], [st EXCEPT ![s] = -1])
  <2>1. [Os([f EXCEPT ![st[s]] = "free"], st) EXCEPT !.streams[s] = -1]
          = Os([f EXCEPT ![st[s]] = "free"], [st EXCEPT ![s] = -1])
    BY DEF Os
  <2> QED  BY <2>1, CloseFdOs, Zenon
<1> QED  BY <1>1, <1>2, Zenon DEF CloseStream

LEMMA NextFdOs ==
  ASSUME NEW f, NEW st, NEW m \in Fds, f[m] = "free"
  PROVE  NextFd(Os(f, st)) \in Fds /\ f[NextFd(Os(f, st))] = "free"
<1>1. m \in FreeFds(Os(f, st))
  BY DEF FreeFds, Os
<1>2. NextFd(Os(f, st)) \in Fds /\ Os(f, st).fds[NextFd(Os(f, st))] = "free"
  BY <1>1, NextFdFree
<1> QED  BY <1>2 DEF Os

-----------------------------------------------------------------------------
(* What the maker m is entitled to: a stream it has opened itself, or what *)
(* the program has passed to it.                                           *)
MakerEntitled(S) ==
  LET m == S.maker IN
  /\ m.fp = "maker" <=> S.streams["maker"] # -1
  /\ m.fp = "maker" =>
       m.fd = S.streams["maker"] /\ "FP_OPENED" \in m.flags /\ m.file \in Files
  /\ m.fd # -1 /\ "FP_OPENED" \in m.flags => m.fp = "maker"
  /\ m.fp = "own" => m.fd # -1 /\ S.own.as = "stream"
  /\ m.fp = "own" /\ m.flags \intersect {"CLOSED", "COMMITTED", "ERROR"} = {} =>
       m.fd = S.streams["own"]
  /\ m.fd # -1 /\ m.fp # "maker" => m.file = "tmp"
  /\ m.fd # -1 /\ m.fp = "none" /\ "FP_CLOSE" \notin m.flags =>
       S.own.as = "int" /\ S.own.fd = m.fd
  /\ m.fd # -1 <=> m.live /\ "CLOSED" \notin m.flags
  /\ m.filename => m.file \in Files
  /\ m.filename /\ m.fd # -1 => m.fp = "maker"

(* ... and the instance c.  The number of the program's own file may be    *)
(* stale where the instance has a map and is not to close the file.        *)
CdbEntitled(S, c) ==
  LET y == S.cdb[c] IN
  /\ y.fp \in {c, "own", "none"}
  /\ y.fp = c <=> S.streams[c] # -1
  /\ y.fp = c => y.opened /\ y.fd = S.streams[c] /\ y.file \in Files
  /\ y.fd = -1 => y.fp = "none" /\ y.map = -1
  /\ ~y.live => y.fd = -1
  /\ y.fd # -1 /\ y.fp # c => y.file = "tmp"
  /\ y.fp = "own" /\ (y.opened \/ y.map = -1) =>
       S.own.as = "stream" /\ S.streams["own"] = y.fd
  /\ y.fd # -1 /\ y.fp = "none" /\ ~y.opened /\ y.map = -1 =>
       S.own.as = "int" /\ S.own.fd = y.fd

OwnEntitled(S) ==
  /\ S.own.as = "int" <=> S.own.fd # -1
  /\ S.streams["own"] # -1 => S.own.as = "stream"

(* The program's own file has one user, or some that do not close it.      *)
OwnedByOne(S) ==
  /\ UsesOwn(S.maker) => \A c \in Cdbs : ~UsesOwn(S.cdb[c])
  /\ \A c, d \in Cdbs :
       UsesOwn(S.cdb[c]) /\ S.cdb[c].opened /\ UsesOwn(S.cdb[d]) => c = d

Entitled(S) ==
  /\ MakerEntitled(S)
  /\ \A c \in Cdbs : CdbEntitled(S, c)
  /\ OwnEntitled(S)
  /\ OwnedByOne(S)

-----------------------------------------------------------------------------
(* Closing an instance gives back what it holds and nothing else.          *)
LEMMA CdbMapGone ==
  ASSUME NEW f, NEW S \in States, Owned(f, S), NEW c \in Cdbs,
         NEW T \in States,
         T.streams = S.streams, T.maker = S.maker, T.own = S.own,
         T.other = S.other,
         \A d \in Cdbs \ {c} : T.cdb[d] = S.cdb[d],
         T.cdb[c] = [S.cdb[c] EXCEPT !.map = -1]
  PROVE  LET os == Unmapped(Os(f, S.streams), S.cdb[c]) IN
           os = Os(os.fds, S.streams) /\ Owned(os.fds, T)
<1> DEFINE k == <<"map", c>>
           y == S.cdb[c]
<1>1. k \in Holders /\ Held(S)[k] = y.map /\ Held(T)[k] = -1
  <2>1. T.cdb[c].map = -1
    BY DEF States, CdbType
  <2>2. k \in Holders
    BY HolderCases
  <2>3. Held(S)[k] = S.cdb[c].map
    BY HeldValues
  <2>4. Held(T)[k] = T.cdb[c].map
    BY HeldValues
  <2> QED  BY <2>1, <2>2, <2>3, <2>4
<1>2. SameBut({k}, S, T)
  <2>1. CdbNumber(T.cdb[c]) = CdbNumber(S.cdb[c]) /\ T.cdb[c].file = S.cdb[c].file
    BY DEF States, CdbType, CdbNumber
  <2> QED  BY <2>1 DEF SameBut
<1>3. CASE y.map = -1
  <2>1. Unmapped(Os(f, S.streams), y) = Os(f, S.streams)
    BY <1>3 DEF Unmapped
  <2>2. SameBut({}, S, T)
    <3>1. T.cdb[c] = S.cdb[c]
      BY <1>3 DEF States, CdbType
    <3> QED  BY <3>1, <1>2 DEF SameBut
  <2>3. Owned(f, T)
    BY <2>2, OwnedKept
  <2> QED  BY <2>1, <2>3 DEF Os
<1>4. CASE y.map # -1 /\ EXT3
  <2>1. Unmapped(Os(f, S.streams), y) = Os(f, S.streams)
    BY <1>4 DEF Unmapped
  <2>2. Owned(f, T)
    BY <1>1, <1>2, <1>4, OwnedLeaked
  <2> QED  BY <2>1, <2>2 DEF Os
<1>5. CASE y.map # -1 /\ ~EXT3
  <2>1. Unmapped(Os(f, S.streams), y) = Os([f EXCEPT ![y.map] = "free"], S.streams)
    BY <1>5, CloseFdOs DEF Unmapped
  <2>2. Owned([f EXCEPT ![y.map] = "free"], T)
    BY <1>1, <1>2, <1>5, OwnedClosed
  <2> QED  BY <2>1, <2>2 DEF Os
<1> QED  BY <1>3, <1>4, <1>5, ObjectsAssumption

LEMMA CdbCloses ==
  ASSUME NEW f, NEW S \in States, Owned(f, S), NEW c \in Cdbs,
         CdbEntitled(S, c),
         NEW T \in States,
         T.maker = S.maker, T.own = S.own, T.other = S.other,
         \A d \in Cdbs \ {c} : T.cdb[d] = S.cdb[d],
         T.cdb[c].fp = "none", T.cdb[c].fd = -1, T.cdb[c].map = -1,
         T.streams = IF S.cdb[c].fp # "none" /\ S.cdb[c].opened
                     THEN [S.streams EXCEPT ![S.cdb[c].fp] = -1]
                     ELSE S.streams
  PROVE  LET os == CdbClosed(Os(f, S.streams), S.cdb[c]) IN
           os = Os(os.fds, T.streams) /\ Owned(os.fds, T)
<1> DEFINE y == S.cdb[c]
           U == [S EXCEPT !.cdb = [S.cdb EXCEPT ![c] = [y EXCEPT !.map = -1]]]
           g == Unmapped(Os(f, S.streams), y).fds
<1>1. U \in States
  BY DEF States, CdbType
<1>2. /\ U.streams = S.streams /\ U.maker = S.maker /\ U.own = S.own
      /\ U.other = S.other
      /\ \A d \in Cdbs \ {c} : U.cdb[d] = S.cdb[d]
      /\ U.cdb[c] = [y EXCEPT !.map = -1]
  BY DEF States
<1> HIDE DEF U
<1>3. Unmapped(Os(f, S.streams), y) = Os(g, S.streams) /\ Owned(g, U)
  BY <1>1, <1>2, CdbMapGone
<1> HIDE DEF g
<1>4. /\ U.cdb[c].map = -1 /\ U.cdb[c].fp = y.fp /\ U.cdb[c].fd = y.fd
      /\ U.cdb[c].opened = y.opened /\ U.cdb[c] \in CdbType
      /\ y \in CdbType /\ T.cdb[c] \in CdbType
  BY <1>1, <1>2 DEF States, CdbType
<1>5. CdbNumber(T.cdb[c]) = -1
  BY <1>4, CdbNumberValue
<1>6. c \in StreamNames /\ "own" \in StreamNames /\ c # "own" /\ c # "maker"
  BY ObjectsAssumption DEF StreamNames
<1>7. CASE y.fp # "none" /\ y.opened
  <2>1. PICK s \in {c, "own"} : s = y.fp
    BY <1>7 DEF CdbEntitled
  <2> DEFINE k == <<"stream", s>>
  <2>2. s \in StreamNames /\ s # "maker"
    BY <1>6
  <2>3. CdbClosed(Os(f, S.streams), y) = CloseStream(Os(g, S.streams), s)
    BY <1>3, <1>7, <2>1 DEF CdbClosed
  <2>4. T.streams = [S.streams EXCEPT ![s] = -1]
    BY <1>7, <2>1
  <2>5. T.streams[s] = -1 /\ \A t \in StreamNames \ {s} : T.streams[t] = S.streams[t]
    BY <2>2, <2>4 DEF States
  <2>6. T.streams[c] = -1
    BY <1>6, <2>1, <2>5 DEF CdbEntitled, States
  <2>7. CdbNumber(U.cdb[c]) = -1
    BY <1>4, <1>7, CdbNumberValue
  <2>8. SameBut({k}, U, T)
    <3>1. \A t \in StreamNames : <<"stream", t>> \in {k} \/ T.streams[t] = U.streams[t]
      BY <1>2, <2>5
    <3>2. \A d \in Cdbs : /\ T.cdb[d].map = U.cdb[d].map
                          /\ CdbNumber(T.cdb[d]) = CdbNumber(U.cdb[d])
      BY <1>2, <1>4, <1>5, <2>7
    <3>3. \A d \in Cdbs : /\ T.streams[d] = -1 \/ T.cdb[d].file = U.cdb[d].file
                          /\ T.cdb[d].map = -1 \/ T.cdb[d].file = U.cdb[d].file
      BY <1>2, <2>6
    <3> QED  BY <1>2, <3>1, <3>2, <3>3 DEF SameBut
  <2>9. k \in Holders /\ Held(U)[k] = S.streams[s] /\ Held(T)[k] = -1
    <3>1. k \in Holders
      BY <2>2, HolderCases
    <3>2. Held(U)[k] = U.streams[s] /\ Held(T)[k] = T.streams[s]
      BY <2>2, HeldValues
    <3> QED  BY <1>2, <2>5, <3>1, <3>2
  <2>10. CASE S.streams[s] = -1
    <3>1. T.streams = S.streams
      BY <2>2, <2>4, <2>10 DEF States
    <3>2. CloseStream(Os(g, S.streams), s) = Os(g, S.streams)
      BY <2>10, CloseClosedOs
    <3>3. SameBut({}, U, T)
      <4>1. \A t \in StreamNames : T.streams[t] = U.streams[t]
        BY <1>2, <3>1
      <4>2. \A d \in Cdbs : /\ T.cdb[d].map = U.cdb[d].map
                            /\ CdbNumber(T.cdb[d]) = CdbNumber(U.cdb[d])
        BY <1>2, <1>4, <1>5, <2>7
      <4>3. \A d \in Cdbs : /\ T.streams[d] = -1 \/ T.cdb[d].file = U.cdb[d].file
                            /\ T.cdb[d].map = -1 \/ T.cdb[d].file = U.cdb[d].file
        BY <1>2, <2>6
      <4> QED  BY <1>2, <4>1, <4>2, <4>3 DEF SameBut
    <3>4. Owned(g, T)
      BY <1>1, <1>3, <3>3, OwnedKept
    <3> QED  BY <2>3, <3>1, <3>2, <3>4 DEF Os
  <2>11. CASE S.streams[s] # -1
    <3>1. CloseStream(Os(g, S.streams), s)
            = Os([g EXCEPT ![S.streams[s]] = "free"], T.streams)
      BY <2>4, <2>11, CloseOpenOs
    <3>2. Owned([g EXCEPT ![S.streams[s]] = "free"], T)
      BY <1>1, <1>3, <2>8, <2>9, <2>11, OwnedClosed
    <3> QED  BY <2>3, <3>1, <3>2 DEF Os
  <2> QED  BY <2>10, <2>11
<1>8. CASE y.fp = "none" /\ y.opened /\ y.fd # -1
  <2> DEFINE k == <<"number", c>>
  <2>1. CdbClosed(Os(f, S.streams), y) = Os([g EXCEPT ![y.fd] = "free"], S.streams)
    BY <1>3, <1>8, CloseFdOs DEF CdbClosed
  <2>2. T.streams = S.streams
    BY <1>8
  <2>3. S.streams[c] = -1
    BY <1>6, <1>8, ObjectsAssumption DEF CdbEntitled
  <2>4. SameBut({k}, U, T)
    <3>1. \A s \in StreamNames : T.streams[s] = U.streams[s]
      BY <1>2, <2>2
    <3>2. \A d \in Cdbs \ {c} : T.cdb[d] = U.cdb[d]
      BY <1>2
    <3>3. T.cdb[c].map = -1 /\ U.cdb[c].map = -1 /\ T.streams[c] = -1
      BY <1>4, <2>2, <2>3
    <3>4. T.maker = U.maker /\ T.own = U.own /\ T.other = U.other
      BY <1>2
    <3> QED  BY <1>5, <3>1, <3>2, <3>3, <3>4 DEF SameBut
  <2>5. CdbNumber(U.cdb[c]) = y.fd
    BY <1>4, <1>8, CdbNumberValue
  <2>6. k \in Holders /\ Held(U)[k] = y.fd /\ Held(T)[k] = -1
    <3>1. NumberOf(U, c) = y.fd /\ NumberOf(T, c) = -1
      BY <1>5, <2>5, ObjectsAssumption DEF NumberOf
    <3>2. k \in Holders
      BY <1>6, HolderCases
    <3>3. Held(U)[k] = NumberOf(U, c)
      BY <1>6, HeldValues
    <3>4. Held(T)[k] = NumberOf(T, c)
      BY <1>6, HeldValues
    <3> QED  BY <3>1, <3>2, <3>3, <3>4
  <2>7. Owned([g EXCEPT ![y.fd] = "free"], T)
    BY <1>1, <1>3, <1>8, <2>4, <2>6, OwnedClosed
  <2> QED  BY <2>1, <2>2, <2>7 DEF Os
<1>9. CASE ~y.opened \/ (y.fp = "none" /\ y.fd = -1)
  <2>1. CdbClosed(Os(f, S.streams), y) = Os(g, S.streams)
    BY <1>3, <1>9 DEF CdbClosed
  <2>2. T.streams = S.streams
    BY <1>9
  <2>3. S.streams[c] = -1
    BY <1>6, <1>9, ObjectsAssumption DEF CdbEntitled
  <2>4. CdbNumber(U.cdb[c]) = -1
    BY <1>4, <1>9, CdbNumberValue
  <2>5. SameBut({}, U, T)
    <3>1. \A s \in StreamNames : T.streams[s] = U.streams[s]
      BY <1>2, <2>2
    <3>2. \A d \in Cdbs \ {c} : T.cdb[d] = U.cdb[d]
      BY <1>2
    <3>3. T.cdb[c].map = -1 /\ U.cdb[c].map = -1 /\ T.streams[c] = -1
      BY <1>4, <2>2, <2>3
    <3>4. T.maker = U.maker /\ T.own = U.own /\ T.other = U.other
      BY <1>2
    <3> QED  BY <1>5, <3>1, <3>2, <3>3, <3>4, <2>4 DEF SameBut
  <2>6. Owned(g, T)
    BY <1>1, <1>3, <2>5, OwnedKept
  <2> QED  BY <2>1, <2>2, <2>6 DEF Os
<1> QED  BY <1>7, <1>8, <1>9

(* So does closing the maker.                                              *)
LEMMA MakerGivesBack ==
  ASSUME NEW f, NEW S \in States, Owned(f, S),
         S.maker.fp = "maker" <=> S.streams["maker"] # -1,
         S.maker.fp = "maker" => "FP_OPENED" \in S.maker.flags,
         NEW T \in States,
         T.cdb = S.cdb, T.own = S.own, T.other = S.other,
         T.maker.fp = "none", T.maker.fd = -1,
         T.streams = IF ClosesStream(S.maker)
                     THEN [S.streams EXCEPT ![S.maker.fp] = -1]
                     ELSE S.streams
  PROVE  LET os == MakerCloses(Os(f, S.streams), S.maker) IN
           os = Os(os.fds, T.streams) /\ Owned(os.fds, T)
<1> DEFINE m == S.maker
<1>1. m \in MakerType /\ T.maker \in MakerType /\ m.fp \in {"own", "maker", "none"}
  BY DEF States, MakerType
<1>2. MakerNumber(T.maker) = -1
  BY <1>1, MakerNumberValue
<1>3. CASE ClosesStream(m)
  <2>1. PICK s \in {"own", "maker"} : s = m.fp
    BY <1>1, <1>3 DEF ClosesStream
  <2> DEFINE k == <<"stream", s>>
  <2>2. s \in StreamNames /\ "maker" \in StreamNames /\ "own" \in StreamNames
    BY DEF StreamNames
  <2>3. MakerCloses(Os(f, S.streams), m) = CloseStream(Os(f, S.streams), s)
    BY <1>3, <2>1 DEF MakerCloses
  <2>4. T.streams = [S.streams EXCEPT ![s] = -1]
    BY <1>3, <2>1
  <2>5. T.streams[s] = -1 /\ \A t \in StreamNames \ {s} : T.streams[t] = S.streams[t]
    BY <2>2, <2>4 DEF States
  <2>6. T.streams["maker"] = -1
    <3>1. CASE s = "maker"
      BY <2>5, <3>1
    <3>2. CASE s = "own"
      BY <2>1, <2>2, <2>5, <3>2 DEF States
    <3> QED  BY <3>1, <3>2
  <2>7. MakerNumber(m) = -1
    BY <1>1, <2>1, MakerNumberValue
  <2>8. SameBut({k}, S, T)
    BY <1>2, <2>5, <2>6, <2>7 DEF SameBut
  <2>9. k \in Holders /\ Held(S)[k] = S.streams[s] /\ Held(T)[k] = -1
    <3>1. k \in Holders
      BY <2>2, HolderCases
    <3>2. Held(S)[k] = S.streams[s] /\ Held(T)[k] = T.streams[s]
      BY <2>2, HeldValues
    <3> QED  BY <2>5, <3>1, <3>2
  <2>10. CASE S.streams[s] = -1
    <3>1. T.streams = S.streams
      BY <2>2, <2>4, <2>10 DEF States
    <3>2. CloseStream(Os(f, S.streams), s) = Os(f, S.streams)
      BY <2>10, CloseClosedOs
    <3>3. SameBut({}, S, T)
      BY <1>2, <3>1, <2>6, <2>7 DEF SameBut
    <3>4. Owned(f, T)
      BY <3>3, OwnedKept
    <3> QED  BY <2>3, <3>1, <3>2, <3>4 DEF Os
  <2>11. CASE S.streams[s] # -1
    <3>1. CloseStream(Os(f, S.streams), s)
            = Os([f EXCEPT ![S.streams[s]] = "free"], T.streams)
      BY <2>4, <2>11, CloseOpenOs
    <3>2. Owned([f EXCEPT ![S.streams[s]] = "free"], T)
      BY <2>8, <2>9, <2>11, OwnedClosed
    <3> QED  BY <2>3, <3>1, <3>2 DEF Os
  <2> QED  BY <2>10, <2>11
<1>4. CASE ~ClosesStream(m)
  <2>1. m.fp # "maker" /\ S.streams["maker"] = -1
    BY <1>4 DEF ClosesStream, States, StreamNames
  <2>2. T.streams = S.streams
    BY <1>4
  <2>3. CASE m.fp = "none" /\ m.fd # -1 /\ "FP_CLOSE" \in m.flags
    <3> DEFINE k == <<"number", "maker">>
    <3>1. MakerCloses(Os(f, S.streams), m) = Os([f EXCEPT ![m.fd] = "free"], S.streams)
      BY <1>4, <2>3, CloseFdOs DEF MakerCloses
    <3>2. SameBut({k}, S, T)
      BY <2>1, <2>2 DEF SameBut
    <3>3. k \in Holders /\ Held(S)[k] = m.fd /\ Held(T)[k] = -1
      <4>1. NumberOf(S, "maker") = m.fd /\ NumberOf(T, "maker") = -1
        BY <1>1, <1>2, <2>3, MakerNumberValue DEF NumberOf
      <4>2. "maker" \in StreamNames
        BY DEF StreamNames
      <4> QED  BY <4>1, <4>2, HolderCases, HeldValues
    <3>4. Owned([f EXCEPT ![m.fd] = "free"], T)
      BY <2>3, <3>2, <3>3, OwnedClosed
    <3> QED  BY <2>2, <3>1, <3>4 DEF Os
  <2>4. CASE ~(m.fp = "none" /\ m.fd # -1 /\ "FP_CLOSE" \in m.flags)
    <3>1. MakerCloses(Os(f, S.streams), m) = Os(f, S.streams)
      BY <1>4, <2>4 DEF MakerCloses
    <3>2. MakerNumber(m) = -1
      BY <1>1, <2>4, MakerNumberValue
    <3>3. SameBut({}, S, T)
      BY <1>2, <2>1, <2>2, <3>2 DEF SameBut
    <3>4. Owned(f, T)
      BY <3>3, OwnedKept
    <3> QED  BY <2>2, <3>1, <3>4 DEF Os
  <2> QED  BY <2>3, <2>4
<1> QED  BY <1>3, <1>4

-----------------------------------------------------------------------------
(* Opening.                                                                *)
LEMMA StreamOpens ==
  ASSUME NEW f, NEW S \in States, Owned(f, S), NEW T \in States,
         NEW free \in Fds, f[free] = "free",
         NEW s \in StreamNames, S.streams[s] = -1, NEW file \in Inodes,
         T.streams[s] = NextFd(Os(f, S.streams)),
         FileOf(T)[<<"stream", s>>] = file,
         SameBut({<<"stream", s>>}, S, T)
  PROVE  LET os == OpenStream(Os(f, S.streams), s, file) IN
           os = Os(os.fds, T.streams) /\ Owned(os.fds, T)
<1> DEFINE n == NextFd(Os(f, S.streams))
           k == <<"stream", s>>
<1>1. n \in Fds /\ f[n] = "free"
  BY NextFdOs
<1>2. k \in Holders
  BY HolderCases
<1>3. Held(S)[k] = -1 /\ Held(T)[k] = n
  BY HeldValues
<1>4. OpenStream(Os(f, S.streams), s, file)
        = Os([f EXCEPT ![n] = file], [S.streams EXCEPT ![s] = n])
  BY OpenStreamOs, Zenon
<1>5. [S.streams EXCEPT ![s] = n] = T.streams
  BY DEF States, SameBut
<1> HIDE DEF n
<1>6. Owned([f EXCEPT ![n] = file], T)
  BY <1>1, <1>2, <1>3, OwnedOpened
<1> QED  BY <1>4, <1>5, <1>6 DEF Os

LEMMA MapOpens ==
  ASSUME NEW f, NEW S \in States, Owned(f, S), NEW T \in States,
         NEW free \in Fds, f[free] = "free",
         NEW c \in Cdbs, S.cdb[c].map = -1, S.cdb[c].file \in Inodes,
         T.streams = S.streams, T.maker = S.maker, T.own = S.own,
         T.other = S.other,
         T.cdb[c].map = NextFd(Os(f, S.streams)),
         T.cdb[c].file = S.cdb[c].file,
         CdbNumber(T.cdb[c]) = CdbNumber(S.cdb[c]),
         \A d \in Cdbs \ {c} : T.cdb[d] = S.cdb[d]
  PROVE  LET os == OpenFd(Os(f, S.streams), S.cdb[c].file) IN
           os = Os(os.fds, T.streams) /\ Owned(os.fds, T)
<1> DEFINE n == NextFd(Os(f, S.streams))
           k == <<"map", c>>
           file == S.cdb[c].file
<1>1. n \in Fds /\ f[n] = "free"
  BY NextFdOs
<1>2. k \in Holders
  BY HolderCases
<1>6. OpenFd(Os(f, S.streams), file) = Os([f EXCEPT ![n] = file], S.streams)
  BY OpenFdOs
<1> HIDE DEF n
<1>7. Held(S)[k] = -1 /\ Held(T)[k] = n
  BY HeldValues DEF n
<1>8. FileOf(T)[k] = file
  BY <1>2, ObjectsAssumption DEF FileOf
<1>9. SameBut({k}, S, T)
  BY DEF SameBut
<1>10. Owned([f EXCEPT ![n] = file], T)
  BY <1>1, <1>2, <1>7, <1>8, <1>9, OwnedOpened
<1> QED  BY <1>6, <1>10 DEF Os

LEMMA NumberOpens ==
  ASSUME NEW f, NEW S \in States, Owned(f, S), NEW T \in States,
         NEW free \in Fds, f[free] = "free",
         NEW who \in {"own", "other"}, NumberOf(S, who) = -1, NEW file \in Inodes,
         NumberOf(T, who) = NextFd(Os(f, S.streams)),
         file = IF who = "own" THEN "tmp" ELSE "other",
         T.streams = S.streams,
         SameBut({<<"number", who>>}, S, T)
  PROVE  LET os == OpenFd(Os(f, S.streams), file) IN
           os = Os(os.fds, T.streams) /\ Owned(os.fds, T)
<1> DEFINE n == NextFd(Os(f, S.streams))
           k == <<"number", who>>
<1>1. n \in Fds /\ f[n] = "free"
  BY NextFdOs
<1>2. who \in StreamNames \union {"other"}
  BY DEF StreamNames
<1>3. k \in Holders
  BY <1>2, HolderCases
<1>4. Held(S)[k] = -1 /\ Held(T)[k] = n
  BY <1>2, HeldValues
<1>5. OpenFd(Os(f, S.streams), file) = Os([f EXCEPT ![n] = file], T.streams)
  BY OpenFdOs
<1>6. FileOf(T)[k] = file
  BY <1>3 DEF FileOf
<1> HIDE DEF n
<1>7. Owned([f EXCEPT ![n] = file], T)
  BY <1>1, <1>3, <1>4, <1>6, OwnedOpened
<1> QED  BY <1>5, <1>7 DEF Os

LEMMA StreamOfValues ==
  ASSUME NEW s
  PROVE  /\ StreamOf("path", s) = s
         /\ StreamOf("stream", s) = "own"
         /\ StreamOf("int", s) = "none"
  BY DEF StreamOf

LEMMA HalfMadeValues ==
  ASSUME NEW c \in Cdbs, NEW arg \in Args, NEW close \in BOOLEAN
  PROVE  HalfMade(c, arg, close) =
           [live |-> FALSE, opened |-> (arg = "path" \/ close),
            fp |-> IF arg = "path" THEN c ELSE IF arg = "stream" THEN "own" ELSE "none",
            fd |-> -1, map |-> -1, file |-> "none"]
<1>1. StreamOf(arg, c)
        = IF arg = "path" THEN c ELSE IF arg = "stream" THEN "own" ELSE "none"
  BY StreamOfValues DEF Args
<1>2. HalfMade(c, arg, close)
        = [NoCdb EXCEPT !.fp = StreamOf(arg, c), !.opened = arg = "path" \/ close]
  BY DEF HalfMade
<1> QED  BY <1>1, <1>2 DEF NoCdb

(* The instance y is made of it, for the descriptor fd of a file.          *)
IsMade(y, c, arg, close, fd, file) ==
  /\ y \in CdbType /\ y.live
  /\ y.opened <=> arg = "path" \/ close
  /\ y.fp = IF arg = "path" THEN c ELSE IF arg = "stream" THEN "own" ELSE "none"
  /\ y.fd = fd /\ y.map = -1 /\ y.file = file

LEMMA MadeValues ==
  ASSUME NEW c \in Cdbs, NEW arg \in Args, NEW close \in BOOLEAN, NEW os,
         NEW fd \in Fds \union {-1}, NEW file \in Files \union {"tmp"}
  PROVE  IsMade(Made(os, HalfMade(c, arg, close), fd, file).cdb,
                c, arg, close, fd, file)
<1> DEFINE half == HalfMade(c, arg, close)
           fp == IF arg = "path" THEN c ELSE IF arg = "stream" THEN "own" ELSE "none"
           y == [half EXCEPT !.live = TRUE, !.fd = fd, !.file = file]
<1>1. half = [live |-> FALSE, opened |-> (arg = "path" \/ close), fp |-> fp,
              fd |-> -1, map |-> -1, file |-> "none"]
  BY HalfMadeValues, Zenon
<1>2. half \in CdbType /\ half.fp = fp /\ half.map = -1
  BY <1>1 DEF CdbType
<1>3. PICK b \in BOOLEAN : b <=> (arg = "path" \/ close)
  OBVIOUS
<1>11. half.opened = b
  <2>1. b = (arg = "path" \/ close)
    BY <1>3
  <2>2. half = [live |-> FALSE, opened |-> b, fp |-> fp,
                fd |-> -1, map |-> -1, file |-> "none"]
    BY <1>1, <2>1, Zenon
  <2> QED  BY <2>2
<1> HIDE DEF half, fp
<1>4. y \in CdbType
  BY <1>2 DEF CdbType
<1>5. y.live /\ y.fp = fp /\ y.fd = fd /\ y.map = -1 /\ y.file = file
  BY <1>2 DEF CdbType
<1>6. y.opened = half.opened
  BY <1>2 DEF CdbType
<1>7. Made(os, half, fd, file) = [os |-> os, cdb |-> y]
  BY DEF Made
<1> HIDE DEF y
<1>8. Made(os, half, fd, file).cdb = y
  BY <1>7
<1>9. IsMade(y, c, arg, close, fd, file)
  BY <1>3, <1>4, <1>5, <1>6, <1>11 DEF IsMade, fp
<1> QED  BY <1>8, <1>9 DEF half

LEMMA MappedValues ==
  ASSUME NEW half, NEW os, NEW fd, NEW file
  PROVE  /\ Made(os, half, fd, file).os = os
         /\ MadeMapped(os, half, fd, file).os = OpenFd(os, file)
         /\ MadeMapped(os, half, fd, file).cdb
              = [Made(os, half, fd, file).cdb EXCEPT !.map = NextFd(os)]
  BY DEF Made, MadeMapped

(* A stream that is opened and closed again leaves nothing behind.         *)
LEMMA OpenedAndClosed ==
  ASSUME NEW f \in [Fds -> Inodes \union {"free"}],
         NEW st \in [StreamNames -> Fds \union {-1}],
         NEW s \in StreamNames, st[s] = -1,
         NEW free \in Fds, f[free] = "free", NEW file \in Inodes
  PROVE  CloseStream(OpenStream(Os(f, st), s, file), s) = Os(f, st)
<1> DEFINE n == NextFd(Os(f, st))
           f2 == [f EXCEPT ![n] = file]
           st2 == [st EXCEPT ![s] = n]
<1>1. n \in Fds /\ f[n] = "free" /\ n # -1
  BY NextFdOs, ObjectsAssumption DEF Fds
<1>2. OpenStream(Os(f, st), s, file) = Os(f2, st2)
  BY OpenStreamOs, Zenon
<1> HIDE DEF n
<1>3. st2[s] = n /\ f2 \in [Fds -> Inodes \union {"free"}]
  BY <1>1
<1>4. [f2 EXCEPT ![n] = "free"] = f /\ [st2 EXCEPT ![s] = -1] = st
  BY <1>1
<1> HIDE DEF f2, st2
<1>5. CloseStream(Os(f2, st2), s) = Os([f2 EXCEPT ![st2[s]] = "free"], [st2 EXCEPT ![s] = -1])
  BY <1>1, <1>3, CloseOpenOs
<1> QED  BY <1>2, <1>3, <1>4, <1>5

(* What making an instance comes to: nothing but that a stream that was    *)
(* passed on may be closed ...                                             *)
LEMMA NotMadeShape ==
  ASSUME NEW c \in Cdbs, NEW arg \in Args, NEW fd, NEW close \in BOOLEAN,
         fds \in [Fds -> Inodes \union {"free"}], path \in Files \union {"none"},
         State \in States, streams[c] = -1, RoomToOpen, fd \in Fds \union {-1},
         NEW new \in NewCdbs(c, arg, fd, close), ~new.cdb.live
  PROVE  /\ new.cdb = NoCdb
         /\ \/ new.os = OS
            \/ arg = "stream" /\ close /\ new.os = CloseStream(OS, "own")
<1> DEFINE file == IF arg = "path" THEN path ELSE "tmp"
           os == Opened(OS, arg, c, file)
<1>1. OS = Os(fds, streams)
  BY DEF OS, Os
<1>2. c \in StreamNames /\ streams \in [StreamNames -> Fds \union {-1}]
  BY DEF StreamNames, State, States
<1>5. NextFd(OS) \in Fds
  BY RoomForTwo, NextFdFree
<1>3. CASE Missing(arg)
  BY <1>3 DEF NewCdbs
<1>4. CASE ~Missing(arg)
  <2>1. PICK keep \in {FALSE, close} : new = NotMade(os, HalfMade(c, arg, keep))
    <3>0. PICK on \in Fds \union {-1} : on = IF arg = "path" THEN NextFd(OS) ELSE fd
      BY <1>5
    <3>1. PICK fl \in Files \union {"tmp"} : fl = file
      BY <1>4 DEF Missing
    <3>2. PICK o : o = os
      OBVIOUS
    <3> DEFINE half == HalfMade(c, arg, close)
               y == Made(o, half, on, fl).cdb
    <3> HIDE DEF file, os
    <3>3. new \in {NotMade(o, HalfMade(c, arg, FALSE)), NotMade(o, half),
                  Made(o, half, on, fl), MadeMapped(o, half, on, fl)}
      BY <1>4, <3>0, <3>1, <3>2, Zenon DEF NewCdbs, file, os
    <3>4. IsMade(y, c, arg, close, on, fl)
      BY MadeValues
    <3>6. MadeMapped(o, half, on, fl).cdb = [y EXCEPT !.map = NextFd(o)]
      BY MappedValues
    <3>5. new # Made(o, half, on, fl) /\ new # MadeMapped(o, half, on, fl)
      <4> HIDE DEF half
      <4>1. y.live /\ [y EXCEPT !.map = NextFd(o)].live
        <5> HIDE DEF y
        <5> QED  BY <3>4 DEF IsMade, CdbType
      <4> QED  BY <3>6, <4>1, Zenon
    <3> QED  BY <3>2, <3>3, <3>5
  <2> DEFINE half == HalfMade(c, arg, keep)
  <2>2. half = [live |-> FALSE, opened |-> (arg = "path" \/ keep),
                fp |-> IF arg = "path" THEN c ELSE IF arg = "stream" THEN "own" ELSE "none",
                fd |-> -1, map |-> -1, file |-> "none"]
    <3>1. keep \in BOOLEAN
      OBVIOUS
    <3> QED  BY <3>1, HalfMadeValues, Zenon
  <2> HIDE DEF half
  <2>3. new.cdb = NoCdb /\ new.os = CdbClosed(os, half)
    BY <2>1 DEF NotMade, half
  <2>4. Unmapped(os, half) = os
    BY <2>2 DEF Unmapped
  <2>5. CASE arg = "path"
    <3>1. new.os = CloseStream(OpenStream(OS, c, path), c)
      BY <2>2, <2>3, <2>4, <2>5, ObjectsAssumption DEF CdbClosed, Opened
    <3>2. path \in Inodes
      BY <1>4, <2>5 DEF Missing, Inodes
    <3>3. PICK free \in FreeFds(OS) : TRUE
      BY RoomForTwo
    <3>4. free \in Fds /\ fds[free] = "free"
      BY <1>1 DEF FreeFds, Os
    <3>5. new.os = OS
      BY <1>1, <1>2, <3>1, <3>2, <3>4, OpenedAndClosed
    <3> QED  BY <2>3, <3>5
  <2>6. CASE arg = "stream"
    <3>1. os = OS
      BY <2>6 DEF Opened
    <3>2. CASE keep
      BY <2>2, <2>3, <2>4, <2>6, <3>1, <3>2 DEF CdbClosed
    <3>3. CASE ~keep
      BY <2>2, <2>3, <2>4, <2>6, <3>1, <3>3 DEF CdbClosed
    <3> QED  BY <3>2, <3>3
  <2>7. CASE arg = "int"
    BY <2>2, <2>3, <2>4, <2>7 DEF CdbClosed, Opened
  <2> QED  BY <2>5, <2>6, <2>7 DEF Args
<1> QED  BY <1>3, <1>4

(* ... or an instance, with or without a map.                              *)
FileFor(arg) == IF arg = "path" THEN path ELSE "tmp"

NewFrom(y, new, c, arg, fd, close) ==
  LET file == FileFor(arg)
      os   == Opened(OS, arg, c, file)
  IN  /\ IsMade(y, c, arg, close, IF arg = "path" THEN NextFd(OS) ELSE fd, file)
      /\ \/ new.os = os /\ new.cdb = y
         \/ new.os = OpenFd(os, file) /\ new.cdb = [y EXCEPT !.map = NextFd(os)]

LEMMA MadeShape ==
  ASSUME NEW c \in Cdbs, NEW arg \in Args, NEW fd \in Fds \union {-1},
         NEW close \in BOOLEAN,
         path \in Files \union {"none"}, RoomToOpen,
         NEW new \in NewCdbs(c, arg, fd, close), new.cdb.live
  PROVE  ~Missing(arg) /\ \E y : NewFrom(y, new, c, arg, fd, close)
<1>11. PICK file : file = FileFor(arg)
  OBVIOUS
<1>12. PICK os : os = Opened(OS, arg, c, file)
  OBVIOUS
<1>1. ~NoCdb.live
  BY DEF NoCdb
<1>2. ASSUME Missing(arg)
      PROVE  FALSE
  <2>1. new = [os |-> OS, cdb |-> NoCdb]
    BY <1>2, Zenon DEF NewCdbs
  <2> QED  BY <1>1, <2>1
<1>3. NextFd(OS) \in Fds
  BY RoomForTwo, NextFdFree
<1>4. PICK on \in Fds \union {-1} : on = IF arg = "path" THEN NextFd(OS) ELSE fd
  BY <1>3
<1>5. file \in Files \union {"tmp"}
  BY <1>2, <1>11 DEF Missing, FileFor
<1> DEFINE half == HalfMade(c, arg, close)
           y == Made(os, half, on, file).cdb
<1>6. new \in {NotMade(os, HalfMade(c, arg, FALSE)), NotMade(os, half),
              Made(os, half, on, file), MadeMapped(os, half, on, file)}
  BY <1>2, <1>4, <1>11, <1>12, Zenon DEF NewCdbs, FileFor
<1>7. \A x : NotMade(os, x).cdb = NoCdb
  BY DEF NotMade
<1>8. new \in {Made(os, half, on, file), MadeMapped(os, half, on, file)}
  BY <1>1, <1>6, <1>7, Zenon
<1>9. IsMade(y, c, arg, close, on, file)
  BY <1>5, MadeValues
<1>10. \/ new.os = os /\ new.cdb = y
       \/ new.os = OpenFd(os, file) /\ new.cdb = [y EXCEPT !.map = NextFd(os)]
  <2> HIDE DEF half
  <2>1. CASE new = Made(os, half, on, file)
    BY <2>1, MappedValues
  <2>2. CASE new = MadeMapped(os, half, on, file)
    BY <2>2, MappedValues
  <2> QED  BY <1>8, <2>1, <2>2
<1> HIDE DEF y
<1> QED  BY <1>2, <1>4, <1>9, <1>10, <1>11, <1>12, Zenon DEF NewFrom

(* An instance that is not live has nothing.                               *)
LEMMA NotLiveValues ==
  ASSUME NEW S \in States, NEW c \in Cdbs, CdbEntitled(S, c), ~S.cdb[c].live
  PROVE  /\ S.cdb[c].fd = -1 /\ S.cdb[c].fp = "none" /\ S.cdb[c].map = -1
         /\ S.streams[c] = -1 /\ CdbNumber(S.cdb[c]) = -1
<1>1. S.cdb[c].fd = -1 /\ S.cdb[c].fp = "none" /\ S.cdb[c].map = -1
  BY DEF CdbEntitled
<1>2. S.streams[c] = -1
  BY <1>1, ObjectsAssumption DEF CdbEntitled
<1>3. S.cdb[c] \in CdbType
  BY DEF States
<1> QED  BY <1>1, <1>2, <1>3, CdbNumberValue

(* The instance y appears as c, and who passes a number on to it.          *)
Appears(T, c, y) ==
  /\ T.cdb[c] = y /\ \A d \in Cdbs \ {c} : T.cdb[d] = cdb[d]
  /\ T.other = other /\ T.maker.file = maker.file

Passes(T, who, fd, passes) ==
  IF passes
  THEN /\ NumberOf(State, who) = fd /\ NumberOf(T, who) = -1
       /\ who = "own" => MakerNumber(T.maker) = MakerNumber(maker)
       /\ who = "maker" => T.own.fd = own.fd
  ELSE MakerNumber(T.maker) = MakerNumber(maker) /\ T.own.fd = own.fd

OpenedIs(os, arg, s, file) ==
  /\ os = Os(os.fds, os.streams)
  /\ os.fds = IF arg = "path" THEN [fds EXCEPT ![NextFd(OS)] = file] ELSE fds
  /\ os.streams = IF arg = "path" THEN [streams EXCEPT ![s] = NextFd(OS)]
                  ELSE streams

LEMMA OpenedValues ==
  ASSUME NEW arg, NEW s, NEW file
  PROVE  OpenedIs(Opened(OS, arg, s, file), arg, s, file)
<1> DEFINE os == Opened(OS, arg, s, file)
<1>1. PICK f, st : f = fds /\ st = streams
  OBVIOUS
<1>2. OS = Os(f, st)
  BY <1>1 DEF OS, Os
<1>3. CASE arg = "path"
  <2>1. OpenStream(Os(f, st), s, file)
          = Os([f EXCEPT ![NextFd(Os(f, st))] = file],
               [st EXCEPT ![s] = NextFd(Os(f, st))])
    BY OpenStreamOs, Zenon
  <2>2. PICK a, b : /\ a = [f EXCEPT ![NextFd(Os(f, st))] = file]
                    /\ b = [st EXCEPT ![s] = NextFd(Os(f, st))]
    OBVIOUS
  <2>3. os = Os(a, b)
    BY <1>2, <1>3, <2>1, <2>2 DEF Opened
  <2>4. os.fds = a /\ os.streams = b
    BY <2>3 DEF Os
  <2>5. a = [fds EXCEPT ![NextFd(OS)] = file]
    BY <1>1, <1>2, <2>2
  <2>6. b = [streams EXCEPT ![s] = NextFd(OS)]
    BY <1>1, <1>2, <2>2
  <2> QED  BY <1>3, <2>3, <2>4, <2>5, <2>6 DEF OpenedIs
<1>4. CASE arg # "path"
  BY <1>1, <1>2, <1>4 DEF Opened, Os, OpenedIs
<1> QED  BY <1>3, <1>4

(* What has been opened for a new instance, or passed to it by who, is its *)
(* own ...                                                                 *)
LEMMA InstanceUnmapped ==
  ASSUME NEW c \in Cdbs, NEW arg \in Args, NEW close \in BOOLEAN,
         NEW fd \in Fds \union {-1}, NEW file \in Files \union {"tmp"},
         file = "tmp" \/ arg = "path",
         NEW y, IsMade(y, c, arg, close, IF arg = "path" THEN NextFd(OS) ELSE fd, file),
         State \in States, Owned(fds, State), CdbEntitled(State, c),
         ~cdb[c].live, RoomToOpen,
         NEW os, os = Opened(OS, arg, c, file),
         NEW T \in States, T.streams = os.streams, Appears(T, c, y),
         NEW who \in {"own", "maker"}, Passes(T, who, fd, arg = "int" /\ close)
  PROVE  os = Os(os.fds, T.streams) /\ Owned(os.fds, T)
<1> DEFINE S == State
<1>1. /\ S.streams = streams /\ S.maker = maker /\ S.cdb = cdb /\ S.own = own
      /\ S.other = other
  BY DEF State
<1>2. OS = Os(fds, S.streams)
  BY DEF OS, Os, State
<1> HIDE DEF S
<1>3. /\ S.cdb[c].fd = -1 /\ S.cdb[c].fp = "none" /\ S.cdb[c].map = -1
      /\ S.streams[c] = -1 /\ CdbNumber(S.cdb[c]) = -1
  <2>1. S \in States /\ CdbEntitled(S, c) /\ ~S.cdb[c].live
    BY <1>1 DEF S
  <2> QED  BY <2>1, NotLiveValues
<1>4. y \in CdbType /\ y.map = -1
  BY DEF IsMade
<1>5. c \in StreamNames /\ c \notin {"own", "maker", "other"}
  BY ObjectsAssumption DEF StreamNames
<1>6. \A d \in Cdbs : T.cdb[d].map = S.cdb[d].map
  BY <1>1, <1>3, <1>4 DEF Appears
<1>7. S \in States /\ Owned(fds, S)
  BY DEF S
<1>8. CASE arg = "path"
  <2>1. y.fp = c /\ y.file = file /\ y.fd = NextFd(OS) /\ c # "none"
    BY <1>8, ObjectsAssumption DEF IsMade
  <2>2. CdbNumber(y) = -1
    BY <1>4, <2>1, CdbNumberValue
  <2>3. os = OpenStream(Os(fds, S.streams), c, file)
    BY <1>2, <1>8 DEF Opened
  <2>4. PICK free \in Fds : fds[free] = "free"
    <3>1. PICK free \in FreeFds(OS) : TRUE
      BY RoomForTwo
    <3> QED  BY <3>1 DEF FreeFds, OS
  <2>6. T.streams = [S.streams EXCEPT ![c] = NextFd(OS)]
    <3>1. OpenedIs(os, arg, c, file)
      BY OpenedValues
    <3> QED  BY <1>1, <1>8, <3>1 DEF OpenedIs
  <2>7. /\ T.streams[c] = NextFd(OS)
        /\ \A s \in StreamNames \ {c} : T.streams[s] = S.streams[s]
    BY <1>5, <1>7, <2>6 DEF States
  <2>8. SameBut({<<"stream", c>>}, S, T)
    BY <1>1, <1>3, <1>4, <1>6, <1>8, <2>2, <2>7 DEF SameBut, Appears, Passes
  <2>9. FileOf(T)[<<"stream", c>>] = file
    <3>1. <<"stream", c>> \in Holders
      BY <1>5, HolderCases
    <3> QED  BY <1>5, <2>1, <3>1 DEF FileOf, Appears
  <2>10. file \in Inodes
    BY DEF Inodes
  <2> QED  BY <1>2, <1>3, <1>5, <1>7, <2>3, <2>4, <2>7, <2>8, <2>9, <2>10, StreamOpens
<1>9. CASE arg # "path"
  <2>1. os = Os(fds, S.streams) /\ T.streams = S.streams
    BY <1>2, <1>9 DEF Opened, Os
  <2>2. CASE ~(arg = "int" /\ close)
    <3>1. y.fp # "none" \/ ~y.opened
      BY <1>9, <2>2 DEF IsMade, Args
    <3>2. CdbNumber(y) = -1
      BY <1>4, <3>1, CdbNumberValue
    <3>3. SameBut({}, S, T)
      BY <1>1, <1>3, <1>4, <2>1, <2>2, <3>2 DEF SameBut, Appears, Passes
    <3>4. Owned(fds, T)
      BY <1>7, <3>3, OwnedKept
    <3> QED  BY <2>1, <3>4 DEF Os
  <2>3. CASE arg = "int" /\ close
    <3> DEFINE k == <<"number", who>>
               l == <<"number", c>>
    <3>1. y.fp = "none" /\ y.opened /\ y.fd = fd
      BY <2>3 DEF IsMade
    <3>2. CdbNumber(y) = fd
      BY <1>4, <3>1, CdbNumberValue
    <3>3. NumberOf(S, who) = fd /\ NumberOf(T, who) = -1
      BY <2>3 DEF S, Passes
    <3>4. NumberOf(S, c) = -1 /\ NumberOf(T, c) = fd
      BY <1>3, <1>5, <3>2 DEF NumberOf, Appears
    <3>5. k \in Holders /\ l \in Holders
      BY <1>5, HolderCases DEF StreamNames
    <3>6. /\ Held(S)[k] = fd /\ Held(T)[k] = -1
          /\ Held(S)[l] = -1 /\ Held(T)[l] = fd
      BY <1>5, <3>3, <3>4, HeldValues DEF StreamNames
    <3>7. FileOf(T)[l] = FileOf(S)[k]
      BY <1>5, <3>5 DEF FileOf
    <3>8. SameBut({k, l}, S, T)
      BY <1>1, <1>3, <1>4, <2>1, <2>3 DEF SameBut, Appears, Passes
    <3>9. Owned(fds, T)
      BY <1>7, <3>5, <3>6, <3>7, <3>8, OwnedPassed
    <3> QED  BY <2>1, <3>9 DEF Os
  <2> QED  BY <2>2, <2>3
<1> QED  BY <1>8, <1>9

(* ... and so is its map.                                                  *)
LEMMA InstanceMade ==
  ASSUME NEW c \in Cdbs, NEW arg \in Args, NEW close \in BOOLEAN,
         NEW fd \in Fds \union {-1}, path \in Files \union {"none"},
         State \in States, Owned(fds, State), CdbEntitled(State, c),
         ~cdb[c].live, RoomToOpen,
         NEW new \in NewCdbs(c, arg, fd, close), new.cdb.live,
         NEW T \in States, T.streams = new.os.streams, Appears(T, c, new.cdb),
         NEW who \in {"own", "maker"}, Passes(T, who, fd, arg = "int" /\ close)
  PROVE  new.os = Os(new.os.fds, T.streams) /\ Owned(new.os.fds, T)
<1>1. PICK file : file = FileFor(arg)
  OBVIOUS
<1>2. PICK os : os = Opened(OS, arg, c, file)
  OBVIOUS
<1>3. ~Missing(arg)
  BY MadeShape
<1>4. \E y :
        /\ IsMade(y, c, arg, close, IF arg = "path" THEN NextFd(OS) ELSE fd, file)
        /\ \/ new.os = os /\ new.cdb = y
           \/ new.os = OpenFd(os, file) /\ new.cdb = [y EXCEPT !.map = NextFd(os)]
  <2>1. \E y : NewFrom(y, new, c, arg, fd, close)
    BY MadeShape
  <2> QED  BY <1>1, <1>2, <2>1, Zenon DEF NewFrom
<1>14. PICK y :
        /\ IsMade(y, c, arg, close, IF arg = "path" THEN NextFd(OS) ELSE fd, file)
        /\ \/ new.os = os /\ new.cdb = y
           \/ new.os = OpenFd(os, file) /\ new.cdb = [y EXCEPT !.map = NextFd(os)]
  BY <1>4
<1>5. file \in Files \union {"tmp"} /\ (file = "tmp" \/ arg = "path") /\ file \in Inodes
  BY <1>1, <1>3 DEF Missing, Inodes, FileFor
<1>6. ASSUME NEW U \in States, U.streams = os.streams, Appears(U, c, y),
             Passes(U, who, fd, arg = "int" /\ close)
      PROVE  os = Os(os.fds, U.streams) /\ Owned(os.fds, U)
  BY <1>2, <1>14, <1>5, <1>6, InstanceUnmapped
<1>7. CASE new.os = os /\ new.cdb = y
  BY <1>6, <1>7
<1>8. CASE new.os = OpenFd(os, file) /\ new.cdb = [y EXCEPT !.map = NextFd(os)]
  <2> DEFINE U == [T EXCEPT !.cdb = [T.cdb EXCEPT ![c] = y]]
  <2>1. y \in CdbType /\ y.map = -1 /\ y.file = file
    BY <1>14 DEF IsMade
  <2>2. U \in States
    BY <2>1 DEF States
  <2>3. /\ U.streams = T.streams /\ U.maker = T.maker /\ U.own = T.own
        /\ U.other = T.other /\ U.cdb = [T.cdb EXCEPT ![c] = y]
    BY DEF States
  <2> HIDE DEF U
  <2>4. U.cdb[c] = y /\ Appears(U, c, y)
    BY <2>3 DEF States, Appears
  <2>5. T.streams = os.streams
    <3>1. os = Os(os.fds, os.streams)
      BY <1>2, OpenedValues DEF OpenedIs
    <3> QED  BY <1>8, <3>1 DEF OpenFd, Os
  <2>6. Passes(U, who, fd, arg = "int" /\ close)
    BY <2>3 DEF NumberOf, Passes
  <2>7. os = Os(os.fds, U.streams) /\ Owned(os.fds, U)
    BY <1>6, <2>2, <2>3, <2>4, <2>5, <2>6
  <2>8. /\ T.cdb[c] = [U.cdb[c] EXCEPT !.map = NextFd(os)]
        /\ \A d \in Cdbs \ {c} : T.cdb[d] = U.cdb[d]
    BY <1>8, <2>4 DEF Appears
  <2>9. PICK free \in Fds : os.fds[free] = "free"
    <3>1. PICK free \in FreeFds(OS) : free # NextFd(OS)
      BY RoomForTwo
    <3>2. free \in Fds /\ fds[free] = "free" /\ fds \in [Fds -> Inodes \union {"free"}]
      BY <3>1 DEF FreeFds, OS, Owned, Sound
    <3>3. OpenedIs(os, arg, c, file)
      BY <1>2, OpenedValues
    <3>4. os.fds[free] = "free"
      BY <3>1, <3>2, <3>3 DEF OpenedIs
    <3> QED  BY <3>2, <3>4
  <2>10. PICK f : f = os.fds
    OBVIOUS
  <2>11. os = Os(f, U.streams)
    BY <2>7, <2>10
  <2>12. PICK o2 : o2 = OpenFd(Os(f, U.streams), U.cdb[c].file)
    OBVIOUS
  <2>13. /\ Owned(f, U) /\ f[free] = "free"
         /\ U.cdb[c].map = -1 /\ U.cdb[c].file \in Inodes
         /\ T.cdb[c].map = NextFd(Os(f, U.streams))
         /\ T.cdb[c].file = U.cdb[c].file
         /\ CdbNumber(T.cdb[c]) = CdbNumber(U.cdb[c])
         /\ \A d \in Cdbs \ {c} : T.cdb[d] = U.cdb[d]
    <3>1. /\ T.cdb[c].map = NextFd(os) /\ T.cdb[c].file = y.file
          /\ T.cdb[c].fp = y.fp /\ T.cdb[c].fd = y.fd /\ T.cdb[c].opened = y.opened
      BY <2>1, <2>4, <2>8 DEF CdbType
    <3>2. CdbNumber(T.cdb[c]) = CdbNumber(y)
      BY <3>1 DEF CdbNumber
    <3> QED  BY <1>5, <2>1, <2>4, <2>7, <2>8, <2>9, <2>10, <2>11, <3>1, <3>2
  <2>14. o2 = Os(o2.fds, T.streams) /\ Owned(o2.fds, T)
    <3>1. /\ OpenFd(Os(f, U.streams), U.cdb[c].file)
              = Os(OpenFd(Os(f, U.streams), U.cdb[c].file).fds, T.streams)
          /\ Owned(OpenFd(Os(f, U.streams), U.cdb[c].file).fds, T)
      BY <2>2, <2>3, <2>13, MapOpens, Zenon
    <3> QED  BY <2>12, <3>1, Zenon
  <2>15. o2 = new.os
    BY <1>8, <2>1, <2>4, <2>11, <2>12
  <2> QED  BY <2>14, <2>15
<1> QED  BY <1>14, <1>7, <1>8

NewIs(new, c, arg, fd, close) ==
  /\ ~Missing(arg) /\ new.cdb \in CdbType
  /\ new.cdb.opened <=> arg = "path" \/ close
  /\ new.cdb.fp = IF arg = "path" THEN c ELSE IF arg = "stream" THEN "own" ELSE "none"
  /\ new.cdb.fd = IF arg = "path" THEN NextFd(OS) ELSE fd
  /\ new.cdb.file = IF arg = "path" THEN path ELSE "tmp"
  /\ NextFd(OS) \in Fds
  /\ new.os.streams = IF arg = "path" THEN [streams EXCEPT ![c] = NextFd(OS)]
                      ELSE streams

LEMMA NewValues ==
  ASSUME NEW c \in Cdbs, NEW arg \in Args, NEW fd \in Fds \union {-1},
         NEW close \in BOOLEAN,
         path \in Files \union {"none"}, RoomToOpen,
         NEW new \in NewCdbs(c, arg, fd, close), new.cdb.live
  PROVE  NewIs(new, c, arg, fd, close)
<1>1. PICK file : file = FileFor(arg)
  OBVIOUS
<1>2. PICK os : os = Opened(OS, arg, c, file)
  OBVIOUS
<1>3. ~Missing(arg)
  BY MadeShape
<1>4. \E y :
        /\ IsMade(y, c, arg, close, IF arg = "path" THEN NextFd(OS) ELSE fd, file)
        /\ \/ new.os = os /\ new.cdb = y
           \/ new.os = OpenFd(os, file) /\ new.cdb = [y EXCEPT !.map = NextFd(os)]
  <2>1. \E y : NewFrom(y, new, c, arg, fd, close)
    BY MadeShape
  <2> QED  BY <1>1, <1>2, <2>1, Zenon DEF NewFrom
<1>14. PICK y :
        /\ IsMade(y, c, arg, close, IF arg = "path" THEN NextFd(OS) ELSE fd, file)
        /\ \/ new.os = os /\ new.cdb = y
           \/ new.os = OpenFd(os, file) /\ new.cdb = [y EXCEPT !.map = NextFd(os)]
  BY <1>4
<1>5. NextFd(OS) \in Fds
  BY RoomForTwo, NextFdFree
<1>6. OpenedIs(os, arg, c, file)
  BY <1>2, OpenedValues
<1>7. new.os.streams = os.streams
  BY <1>14, <1>6 DEF OpenFd, Os, OpenedIs
<1>8. y \in CdbType
  BY <1>14 DEF IsMade
<1>9. /\ new.cdb \in CdbType /\ new.cdb.opened = y.opened /\ new.cdb.fp = y.fp
      /\ new.cdb.fd = y.fd /\ new.cdb.file = y.file
  <2>1. CASE new.cdb = y
    BY <1>8, <2>1
  <2>2. CASE new.os = OpenFd(os, file) /\ new.cdb = [y EXCEPT !.map = NextFd(os)]
    <3>1. PICK free \in FreeFds(OS) : free # NextFd(OS)
      BY RoomForTwo
    <3>2. free \in FreeFds(os)
      BY <1>6, <3>1 DEF FreeFds, OS, OpenedIs
    <3>3. NextFd(os) \in Fds
      BY <3>2, NextFdFree
    <3> QED  BY <1>8, <2>2, <3>3 DEF CdbType
  <2> QED  BY <1>14, <2>1, <2>2
<1> QED  BY <1>1, <1>3, <1>14, <1>5, <1>6, <1>7, <1>9 DEF IsMade, FileFor, OpenedIs, NewIs

-----------------------------------------------------------------------------
(* Closing the program's own stream.                                       *)
LEMMA OwnStreamCloses ==
  ASSUME NEW f, NEW S \in States, Owned(f, S), NEW T \in States,
         T.streams = [S.streams EXCEPT !["own"] = -1],
         SameBut({<<"stream", "own">>}, S, T)
  PROVE  LET os == CloseStream(Os(f, S.streams), "own") IN
           os = Os(os.fds, T.streams) /\ Owned(os.fds, T)
<1> DEFINE k == <<"stream", "own">>
<1>1. "own" \in StreamNames
  BY DEF StreamNames
<1>2. k \in Holders /\ Held(S)[k] = S.streams["own"] /\ Held(T)[k] = -1
  BY <1>1, HolderCases, HeldValues DEF States
<1>3. CASE S.streams["own"] = -1
  <2>1. T.streams = S.streams
    BY <1>1, <1>3 DEF States
  <2>2. CloseStream(Os(f, S.streams), "own") = Os(f, S.streams)
    BY <1>3, CloseClosedOs
  <2>3. SameBut({}, S, T)
    <3>1. \A c \in Cdbs : <<"stream", c>> # k
      BY ObjectsAssumption
    <3>2. /\ \A s \in StreamNames : T.streams[s] = S.streams[s]
          /\ \A c \in Cdbs : /\ T.cdb[c].map = S.cdb[c].map
                             /\ CdbNumber(T.cdb[c]) = CdbNumber(S.cdb[c])
          /\ MakerNumber(T.maker) = MakerNumber(S.maker)
          /\ T.own.fd = S.own.fd /\ T.other = S.other
      BY <2>1 DEF SameBut
    <3>3. /\ T.streams["maker"] = -1 \/ T.maker.file = S.maker.file
          /\ \A c \in Cdbs : /\ T.streams[c] = -1 \/ T.cdb[c].file = S.cdb[c].file
                             /\ T.cdb[c].map = -1 \/ T.cdb[c].file = S.cdb[c].file
      BY <3>1 DEF SameBut
    <3> QED  BY <3>2, <3>3 DEF SameBut
  <2>4. Owned(f, T)
    BY <2>3, OwnedKept
  <2> QED  BY <2>1, <2>2, <2>4 DEF Os
<1>4. CASE S.streams["own"] # -1
  <2>1. CloseStream(Os(f, S.streams), "own")
          = Os([f EXCEPT ![S.streams["own"]] = "free"], T.streams)
    <3>1. CloseStream(Os(f, S.streams), "own")
            = Os([f EXCEPT ![S.streams["own"]] = "free"],
                 [S.streams EXCEPT !["own"] = -1])
      BY <1>4, CloseOpenOs, Zenon
    <3> QED  BY <3>1, Zenon
  <2>2. Owned([f EXCEPT ![S.streams["own"]] = "free"], T)
    BY <1>2, <1>4, OwnedClosed
  <2> QED  BY <2>1, <2>2 DEF Os
<1> QED  BY <1>3, <1>4

-----------------------------------------------------------------------------
(* While a maker that was given a name is open, the name is that of its    *)
(* file, which it is going to destroy.                                     *)
FileDecides ==
  maker.file \in Files =>
    /\ "CLOSED" \notin maker.flags =>
         /\ maker.filename /\ {"DESTROY", "FP_OPENED"} \subseteq maker.flags
         /\ maker.fp = "maker" /\ path = maker.file
         /\ ~maker.made /\ ~maker.failed /\ maker.live
    /\ maker.made => ~maker.failed
    /\ CommitDecides

Inv ==
  /\ State \in States
  /\ path \in Files \union {"none"}
  /\ Owned(fds, State)
  /\ Entitled(State)
  /\ FileDecides

LEMMA StateIs ==
  /\ State.streams = streams /\ State.maker = maker /\ State.cdb = cdb
  /\ State.own = own /\ State.other = other
  BY DEF State

LEMMA InvTyped ==
  ASSUME Inv
  PROVE  /\ fds \in [Fds -> Inodes \union {"free"}]
         /\ streams \in [StreamNames -> Fds \union {-1}]
         /\ maker \in MakerType /\ cdb \in [Cdbs -> CdbType] /\ own \in OwnType
         /\ other \in Fds \union {-1} /\ path \in Files \union {"none"}
  BY DEF Inv, Owned, Sound, State, States

LEMMA InvInit ==
  ASSUME Init
  PROVE  Inv
<1>1. State \in States
  BY DEF Init, State, States, MakerType, CdbType, OwnType, NoMaker, NoCdb, NotOwn
<1>2. \A h \in Holders : Held(State)[h] = -1
  <2>1. MakerNumber(maker) = -1 /\ \A c \in Cdbs : CdbNumber(cdb[c]) = -1
    BY DEF Init, MakerNumber, CdbNumber, NoMaker, NoCdb
  <2>2. \A n \in StreamNames \union {"other"} : NumberOf(State, n) = -1
    BY <2>1, ObjectsAssumption DEF Init, NumberOf, State, StreamNames, NotOwn
  <2>3. \A s \in StreamNames : streams[s] = -1
    BY DEF Init
  <2>4. \A c \in Cdbs : cdb[c].map = -1
    BY DEF Init, NoCdb
  <2> QED  BY <2>2, <2>3, <2>4, HolderCases, HeldValues, StateIs
<1>3. Owned(fds, State)
  <2>1. Held(State) \in [Holders -> Fds \union {-1}]
    BY <1>1, HeldTyped
  <2>2. fds \in [Fds -> Inodes \union {"free"}] /\ \A n \in Fds : fds[n] = "free"
    BY DEF Init
  <2> QED  BY <1>2, <2>1, <2>2 DEF Owned, Sound
<1>4. MakerEntitled(State) /\ OwnEntitled(State)
  BY DEF Init, State, MakerEntitled, OwnEntitled, NoMaker, NotOwn, StreamNames
<1>5. \A c \in Cdbs : CdbEntitled(State, c)
  BY ObjectsAssumption DEF Init, State, CdbEntitled, NoCdb, StreamNames
<1>6. OwnedByOne(State)
  BY DEF Init, State, OwnedByOne, UsesOwn, NoMaker, NoCdb
<1>7. FileDecides /\ path \in Files \union {"none"}
  BY ObjectsAssumption DEF Init, FileDecides, NoMaker
<1> QED  BY <1>1, <1>3, <1>4, <1>5, <1>6, <1>7 DEF Inv, Entitled

(* Writing fails, or syncing.                                              *)
LEMMA FlagAdded ==
  ASSUME Inv, Usable, NEW flag \in {"ERROR", "COMMITTED"},
         maker' = [maker EXCEPT !.flags = @ \union {flag}],
         UNCHANGED <<fds, streams, path, cdb, own, other>>
  PROVE  Inv'
<1>1. /\ maker' \in MakerType /\ maker'.flags = maker.flags \union {flag}
      /\ maker'.live = maker.live /\ maker'.made = maker.made
      /\ maker'.failed = maker.failed /\ maker'.filename = maker.filename
      /\ maker'.fd = maker.fd /\ maker'.fp = maker.fp /\ maker'.file = maker.file
  BY InvTyped DEF MakerType
<1>2. State' \in States
  BY <1>1, InvTyped DEF State, States
<1>3. Owned(fds', State')
  <2>1. MakerNumber(maker') = MakerNumber(maker)
    BY <1>1 DEF MakerNumber
  <2>2. SameBut({}, State, State')
    BY <1>1, <2>1 DEF SameBut, State
  <2> QED  BY <1>2, <2>2, OwnedKept DEF Inv
<1>4. MakerEntitled(State') /\ OwnEntitled(State')
  BY <1>1 DEF Inv, Entitled, MakerEntitled, OwnEntitled, State
<1>5. \A c \in Cdbs : CdbEntitled(State', c)
  BY DEF Inv, Entitled, CdbEntitled, State
<1>6. OwnedByOne(State')
  BY <1>1 DEF Inv, Entitled, OwnedByOne, State, UsesOwn
<1>7. FileDecides'
  BY <1>1 DEF Inv, FileDecides, CommitDecides
<1> QED  BY <1>2, <1>3, <1>4, <1>5, <1>6, <1>7, InvTyped DEF Inv, Entitled

LEMMA NoMakerTyped ==
  /\ NoMaker \in MakerType /\ ~NoMaker.live /\ NoMaker.flags = {}
  /\ NoMaker.fp = "none" /\ NoMaker.fd = -1 /\ ~NoMaker.filename
  /\ NoMaker.file = "none" /\ ~NoMaker.made /\ ~NoMaker.failed
  BY DEF NoMaker, MakerType

(* A maker that is not live has nothing.                                   *)
LEMMA DeadMakerValues ==
  ASSUME Inv, ~maker.live
  PROVE  /\ maker.fd = -1 /\ maker.fp = "none" /\ streams["maker"] = -1
         /\ MakerNumber(maker) = -1
<1>1. maker.fd = -1 /\ maker.fp = "none" /\ streams["maker"] = -1
  BY InvTyped DEF Inv, Entitled, MakerEntitled, State, MakerType
<1>2. maker \in MakerType
  BY InvTyped
<1> QED  BY <1>1, <1>2, MakerNumberValue

LEMMA MakeFromPathStep ==
  ASSUME Inv, NEW file \in Files, MakeFromPath(file)
  PROVE  Inv'
<1>1. /\ maker' \in MakerType /\ maker'.live /\ maker'.flags = {"DESTROY", "FP_OPENED"}
      /\ maker'.fp = "maker" /\ maker'.fd = NextFd(OS) /\ maker'.filename
      /\ maker'.file = file /\ ~maker'.made /\ ~maker'.failed
  <2>1. NextFd(OS) \in Fds
    BY RoomForTwo, NextFdFree DEF MakeFromPath
  <2>2. maker' = [NoMaker EXCEPT !.live = TRUE, !.flags = {"DESTROY", "FP_OPENED"},
                    !.fp = "maker", !.fd = NextFd(OS), !.filename = TRUE,
                    !.file = file]
    BY DEF MakeFromPath
  <2> QED  BY <2>1, <2>2, NoMakerTyped DEF MakerType
<1>2. OpenedIs(OpenStream(OS, "maker", file), "path", "maker", file)
  BY OpenedValues DEF Opened
<1>3. streams' = [streams EXCEPT !["maker"] = NextFd(OS)]
  BY <1>2 DEF MakeFromPath, Becomes, OpenedIs
<1>4. NextFd(OS) \in Fds /\ NextFd(OS) # -1
  BY RoomForTwo, NextFdFree, ObjectsAssumption DEF MakeFromPath, Fds
<1>5. /\ cdb' = cdb /\ own' = own /\ other' = other /\ ~maker.live /\ path' = file
      /\ "maker" \in StreamNames /\ "maker" \notin Cdbs
  BY ObjectsAssumption DEF MakeFromPath, StreamNames
<1>6. State' \in States
  BY <1>1, <1>3, <1>4, <1>5, InvTyped DEF State, States, StreamNames
<1>7. Owned(fds', State')
  <2>1. PICK f, S, T : f = fds /\ S = State /\ T = State'
    OBVIOUS
  <2>2. PICK free \in Fds : f[free] = "free"
    <3>1. PICK free \in FreeFds(OS) : TRUE
      BY RoomForTwo DEF MakeFromPath
    <3> QED  BY <2>1, <3>1 DEF FreeFds, OS
  <2>3. OS = Os(f, S.streams)
    BY <2>1 DEF OS, Os, State
  <2>4. /\ S.streams = streams /\ S.maker = maker /\ S.cdb = cdb /\ S.own = own
        /\ S.other = other
        /\ T.streams = streams' /\ T.maker = maker' /\ T.cdb = cdb /\ T.own = own
        /\ T.other = other
    BY <1>5, <2>1 DEF State
  <2>5. MakerNumber(maker') = -1 /\ MakerNumber(maker) = -1 /\ S.streams["maker"] = -1
    BY <1>1, <1>5, <2>4, MakerNumberValue, DeadMakerValues
  <2>6. /\ T.streams["maker"] = NextFd(OS)
        /\ \A s \in StreamNames \ {"maker"} : T.streams[s] = S.streams[s]
    BY <1>3, <1>5, <2>4, InvTyped
  <2>7. SameBut({<<"stream", "maker">>}, S, T)
    BY <1>5, <2>4, <2>5, <2>6 DEF SameBut
  <2>8. FileOf(T)[<<"stream", "maker">>] = file
    <3>1. <<"stream", "maker">> \in Holders
      BY <1>5, HolderCases
    <3> QED  BY <1>1, <2>4, <3>1 DEF FileOf
  <2>9. file \in Inodes /\ S \in States /\ T \in States /\ Owned(f, S)
    BY <1>6, <2>1 DEF Inodes, Inv
  <2>10. PICK os : os = OpenStream(Os(f, S.streams), "maker", file)
    OBVIOUS
  <2>11. os = Os(os.fds, T.streams) /\ Owned(os.fds, T)
    BY <1>5, <2>2, <2>3, <2>5, <2>6, <2>7, <2>8, <2>9, <2>10, StreamOpens
  <2>12. fds' = os.fds
    BY <2>3, <2>10 DEF MakeFromPath, Becomes
  <2> QED  BY <2>1, <2>11, <2>12
<1>8. MakerEntitled(State') /\ OwnEntitled(State')
  BY <1>1, <1>3, <1>4, <1>5, InvTyped
  DEF Inv, Entitled, MakerEntitled, OwnEntitled, State, StreamNames
<1>9. \A c \in Cdbs : CdbEntitled(State', c)
  <2>1. \A c \in Cdbs : streams'[c] = streams[c]
    BY <1>3, <1>5, InvTyped DEF StreamNames
  <2>2. streams'["own"] = streams["own"]
    BY <1>3, <1>5, InvTyped DEF StreamNames
  <2> QED  BY <1>5, <2>1, <2>2 DEF Inv, Entitled, CdbEntitled, State
<1>10. OwnedByOne(State')
  BY <1>1, <1>5, ObjectsAssumption DEF Inv, Entitled, OwnedByOne, State, UsesOwn
<1>11. FileDecides'
  BY <1>1, <1>5 DEF FileDecides, CommitDecides
<1> QED
  BY <1>5, <1>6, <1>7, <1>8, <1>9, <1>10, <1>11 DEF Inv, Entitled

LEMMA MakeFromPathFailsStep ==
  ASSUME Inv, NEW file \in Files, NEW fails \in Failures, MakeFromPathFails(file, fails)
  PROVE  Inv'
<1>1. /\ cdb' = cdb /\ own' = own /\ other' = other /\ ~maker.live /\ path' \in {"none", file}
      /\ fds' = fds /\ streams' = streams /\ maker' = NoMaker
  BY DEF MakeFromPathFails
<1>2. State' \in States
  BY <1>1, NoMakerTyped, InvTyped DEF State, States
<1>3. Owned(fds', State')
  <2>1. MakerNumber(maker') = -1 /\ MakerNumber(maker) = -1 /\ streams["maker"] = -1
    BY <1>1, NoMakerTyped, MakerNumberValue, DeadMakerValues
  <2>2. SameBut({}, State, State')
    BY <1>1, <2>1 DEF SameBut, State
  <2> QED  BY <1>1, <1>2, <2>2, OwnedKept DEF Inv
<1>4. MakerEntitled(State') /\ OwnEntitled(State')
  BY <1>1, NoMakerTyped, DeadMakerValues
  DEF Inv, Entitled, MakerEntitled, OwnEntitled, State
<1>5. \A c \in Cdbs : CdbEntitled(State', c)
  BY <1>1 DEF Inv, Entitled, CdbEntitled, State
<1>6. OwnedByOne(State')
  BY <1>1, NoMakerTyped DEF Inv, Entitled, OwnedByOne, State, UsesOwn
<1>7. FileDecides' /\ path' \in Files \union {"none"}
  BY <1>1, NoMakerTyped, ObjectsAssumption DEF FileDecides
<1> QED  BY <1>1, <1>2, <1>3, <1>4, <1>5, <1>6, <1>7 DEF Inv, Entitled

(* Whoever has something that is not its own has the program's file.       *)
LEMMA OwnUsers ==
  ASSUME NEW S \in States, NEW c \in Cdbs, CdbEntitled(S, c), ~UsesOwn(S.cdb[c])
  PROVE  /\ S.cdb[c].fp # "own"
         /\ S.cdb[c].fd # -1 => S.cdb[c].fp = c /\ c # "none"
  BY ObjectsAssumption DEF CdbEntitled, UsesOwn

LEMMA MakeFromOwnStep ==
  ASSUME Inv, NEW arg \in Args, NEW close \in BOOLEAN, MakeFromOwn(arg, close)
  PROVE  Inv'
<1>1. /\ ~maker.live /\ arg \in {"stream", "int"} /\ own.as = arg
      /\ arg = "stream" => streams["own"] # -1
      /\ \A c \in Cdbs : ~UsesOwn(cdb[c])
      /\ fds' = fds /\ streams' = streams /\ path' = path /\ cdb' = cdb
      /\ other' = other
      /\ own' = IF arg = "int" /\ close THEN NotOwn ELSE own
  BY DEF MakeFromOwn, MayPass, PassedOn, OwnInUse, Args
<1>2. OwnFd \in Fds /\ OwnFd = (IF arg = "stream" THEN streams["own"] ELSE own.fd)
  <2>1. own.fd # -1 \/ arg = "stream"
    BY <1>1 DEF Inv, Entitled, OwnEntitled, State
  <2> QED  BY <1>1, <2>1, InvTyped DEF OwnFd, OwnType, StreamNames
<1>3. PICK fp \in {"own", "none"} :
        fp = StreamOf(arg, "maker") /\ (fp = "own" <=> arg = "stream")
  BY <1>1, StreamOfValues
<1>4. PICK flags :
        flags = {"DESTROY"} \union (IF close THEN {"FP_CLOSE"} ELSE {})
  OBVIOUS
<1>5. /\ maker' \in MakerType /\ maker'.live /\ maker'.flags = flags
      /\ maker'.fp = fp /\ maker'.fd = OwnFd /\ ~maker'.filename
      /\ maker'.file = "tmp" /\ ~maker'.made /\ ~maker'.failed
  <2>1. maker' = [NoMaker EXCEPT !.live = TRUE, !.flags = flags, !.fp = fp,
                    !.fd = OwnFd, !.file = "tmp"]
    BY <1>3, <1>4 DEF MakeFromOwn
  <2>2. flags \subseteq {"DESTROY", "FP_CLOSE"}
    BY <1>4
  <2> QED  BY <1>2, <2>1, <2>2, NoMakerTyped DEF MakerType
<1>6. own' \in OwnType
  BY <1>1, InvTyped, ObjectsAssumption DEF NotOwn, OwnType
<1>7. State' \in States
  BY <1>1, <1>5, <1>6, InvTyped DEF State, States
<1>8. Owned(fds', State')
  <2>1. MakerNumber(maker) = -1 /\ streams["maker"] = -1
    BY <1>1, DeadMakerValues
  <2>2. CASE ~(arg = "int" /\ close)
    <3>1. MakerNumber(maker') = -1
      <4>1. maker'.fp # "none" \/ "FP_CLOSE" \notin maker'.flags
        BY <1>1, <1>3, <1>4, <1>5, <2>2
      <4> QED  BY <1>5, <4>1, MakerNumberValue
    <3>2. SameBut({}, State, State')
      BY <1>1, <2>1, <2>2, <3>1 DEF SameBut, State
    <3> QED  BY <1>1, <1>7, <3>2, OwnedKept DEF Inv
  <2>3. CASE arg = "int" /\ close
    <3> DEFINE k == <<"number", "own">>
               l == <<"number", "maker">>
    <3>1. MakerNumber(maker') = own.fd
      <4>1. maker'.fp = "none" /\ "FP_CLOSE" \in maker'.flags /\ maker'.fd = own.fd
        BY <1>2, <1>3, <1>4, <1>5, <2>3
      <4> QED  BY <1>5, <4>1, MakerNumberValue
    <3>2. k \in Holders /\ l \in Holders /\ "own" \in StreamNames /\ "maker" \in StreamNames
      BY HolderCases DEF StreamNames
    <3>3. /\ NumberOf(State, "own") = own.fd /\ NumberOf(State, "maker") = -1
          /\ NumberOf(State', "own") = -1 /\ NumberOf(State', "maker") = own.fd
      BY <1>1, <2>1, <2>3, <3>1 DEF NumberOf, State, NotOwn
    <3>4. PICK S, T : S = State /\ T = State'
      OBVIOUS
    <3>5. /\ Held(S)[k] = own.fd /\ Held(S)[l] = -1
          /\ Held(T)[k] = -1 /\ Held(T)[l] = own.fd
      BY <3>2, <3>3, <3>4, HeldValues
    <3>6. FileOf(T)[l] = FileOf(S)[k]
      BY <3>2 DEF FileOf
    <3>7. SameBut({k, l}, S, T)
      BY <1>1, <2>1, <3>4 DEF SameBut, State
    <3>8. S \in States /\ T \in States /\ Owned(fds, S)
      BY <1>7, <3>4 DEF Inv
    <3>9. Owned(fds, T)
      BY <3>2, <3>5, <3>6, <3>7, <3>8, OwnedPassed
    <3> QED  BY <1>1, <3>4, <3>9
  <2> QED  BY <2>2, <2>3
<1>9. OwnEntitled(State')
  BY <1>1, InvTyped DEF Inv, Entitled, OwnEntitled, State, NotOwn, OwnType
<1>10. MakerEntitled(State')
  <2>1. streams["maker"] = -1 /\ -1 \notin Fds /\ "tmp" \notin Files
    BY <1>1, DeadMakerValues, ObjectsAssumption DEF Fds
  <2>2. "FP_OPENED" \notin flags /\ "CLOSED" \notin flags
    BY <1>4
  <2>3. arg = "int" /\ "FP_CLOSE" \notin flags => ~close
    BY <1>4
  <2> QED  BY <1>1, <1>2, <1>3, <1>5, <2>1, <2>2, <2>3 DEF MakerEntitled, State
<1>11. ASSUME NEW c \in Cdbs
       PROVE  CdbEntitled(State', c) /\ ~UsesOwn(cdb[c])
  <2>1. CdbEntitled(State, c) /\ State \in States /\ ~UsesOwn(State.cdb[c])
    BY <1>1, StateIs DEF Inv, Entitled
  <2>2. cdb[c].fp # "own" /\ (cdb[c].fd # -1 => cdb[c].fp = c /\ c # "none")
    BY <2>1, OwnUsers, StateIs
  <2> QED  BY <1>1, <2>1, <2>2 DEF CdbEntitled, State
<1>12. OwnedByOne(State')
  BY <1>1 DEF OwnedByOne, State
<1>13. FileDecides' /\ path' \in Files \union {"none"}
  BY <1>1, <1>5, InvTyped, ObjectsAssumption DEF FileDecides
<1> QED  BY <1>7, <1>8, <1>9, <1>10, <1>11, <1>12, <1>13 DEF Inv, Entitled

LEMMA OsFields ==
  ASSUME NEW f, NEW st
  PROVE  Os(f, st).fds = f /\ Os(f, st).streams = st
  BY DEF Os

(* The stream s is closed in st2, which is st otherwise.                   *)
StreamGone(st, s, st2) ==
  /\ st2 \in [StreamNames -> Fds \union {-1}]
  /\ st2[s] = -1 /\ \A t \in StreamNames \ {s} : st2[t] = st[t]

LEMMA CloseStreamValues ==
  ASSUME NEW f, NEW st \in [StreamNames -> Fds \union {-1}], NEW s \in StreamNames
  PROVE  StreamGone(st, s, CloseStream(Os(f, st), s).streams)
<1>3. PICK b : b = [st EXCEPT ![s] = -1]
  OBVIOUS
<1>4. StreamGone(st, s, b)
  BY <1>3 DEF StreamGone
<1>1. CASE st[s] = -1
  <2>1. b = st
    BY <1>1, <1>3
  <2>2. CloseStream(Os(f, st), s) = Os(f, st)
    BY <1>1, CloseClosedOs
  <2>3. CloseStream(Os(f, st), s).streams = st
    BY <2>2, OsFields
  <2> QED  BY <1>4, <2>1, <2>3
<1>2. CASE st[s] # -1
  <2>1. PICK a : a = [f EXCEPT ![st[s]] = "free"]
    OBVIOUS
  <2>2. CloseStream(Os(f, st), s)
          = Os([f EXCEPT ![st[s]] = "free"], [st EXCEPT ![s] = -1])
    BY <1>2, CloseOpenOs, Zenon
  <2>3. CloseStream(Os(f, st), s) = Os(a, b)
    BY <1>3, <2>1, <2>2, Zenon
  <2> QED  BY <1>4, <2>3, OsFields
<1> QED  BY <1>1, <1>2

(* The program's own stream is closed, by whoever it was passed to or by   *)
(* the program itself.                                                     *)
LEMMA OwnStreamClosed ==
  ASSUME Inv, Becomes(CloseStream(OS, "own")),
         maker' \in MakerType, own' \in OwnType, cdb' \in [Cdbs -> CdbType],
         \A c \in Cdbs :
           /\ CdbNumber(cdb'[c]) = CdbNumber(cdb[c]) /\ cdb'[c].map = cdb[c].map
           /\ cdb'[c].file = cdb[c].file \/ (streams[c] = -1 /\ cdb[c].map = -1),
         other' = other, own'.fd = own.fd,
         MakerNumber(maker') = MakerNumber(maker),
         maker'.file = maker.file \/ streams["maker"] = -1
  PROVE  /\ streams' = [streams EXCEPT !["own"] = -1]
         /\ State' \in States /\ Owned(fds', State')
<1>1. "own" \in StreamNames /\ OS = Os(fds, streams) /\ "own" \notin Cdbs
  BY ObjectsAssumption DEF StreamNames, OS, Os
<1>2. CloseStream(OS, "own").streams = [streams EXCEPT !["own"] = -1]
  <2>1. StreamGone(streams, "own", CloseStream(Os(fds, streams), "own").streams)
    BY <1>1, InvTyped, CloseStreamValues
  <2> QED  BY <1>1, <2>1, InvTyped DEF StreamGone
<1>3. streams' = [streams EXCEPT !["own"] = -1]
  BY <1>2 DEF Becomes
<1>4. State' \in States
  BY <1>1, <1>3, InvTyped DEF State, States
<1>5. Owned(fds', State')
  <2>1. PICK f, S, T : f = fds /\ S = State /\ T = State'
    OBVIOUS
  <2>2. /\ S.streams = streams /\ S.maker = maker /\ S.cdb = cdb /\ S.own = own
        /\ S.other = other
        /\ T.streams = streams' /\ T.maker = maker' /\ T.cdb = cdb' /\ T.own = own'
        /\ T.other = other
    BY <2>1 DEF State
  <2>3. \A s \in StreamNames \ {"own"} : streams'[s] = streams[s]
    BY <1>1, <1>3, InvTyped
  <2>4. SameBut({<<"stream", "own">>}, S, T)
    BY <2>2, <2>3 DEF SameBut, StreamNames
  <2>5. S \in States /\ T \in States /\ Owned(f, S)
    BY <1>4, <2>1 DEF Inv
  <2>6. T.streams = [S.streams EXCEPT !["own"] = -1]
    BY <1>3, <2>2
  <2>7. PICK os : os = CloseStream(Os(f, S.streams), "own")
    OBVIOUS
  <2>8. os = Os(os.fds, T.streams) /\ Owned(os.fds, T)
    BY <2>4, <2>5, <2>6, <2>7, OwnStreamCloses
  <2>9. fds' = os.fds
    BY <1>1, <2>1, <2>2, <2>7 DEF Becomes
  <2> QED  BY <2>1, <2>8, <2>9
<1> QED  BY <1>3, <1>4, <1>5

LEMMA MakeFromOwnFailsStep ==
  ASSUME Inv, NEW close \in BOOLEAN, MakeFromOwnFails(close)
  PROVE  Inv'
<1>1. /\ ~maker.live /\ own.as = "stream"
      /\ \A c \in Cdbs : ~UsesOwn(cdb[c])
      /\ path' = path /\ cdb' = cdb /\ own' = own /\ other' = other
      /\ maker' = NoMaker
  BY DEF MakeFromOwnFails, MayPass, OwnInUse
<1>2. MakerNumber(maker') = -1 /\ MakerNumber(maker) = -1 /\ streams["maker"] = -1
  BY <1>1, NoMakerTyped, MakerNumberValue, DeadMakerValues
<1>3. /\ State' \in States /\ Owned(fds', State')
      /\ streams' = streams \/ streams' = [streams EXCEPT !["own"] = -1]
  <2>1. CASE close
    <3>1. Becomes(CloseStream(OS, "own"))
      BY <2>1 DEF MakeFromOwnFails
    <3> QED  BY <1>1, <1>2, <3>1, InvTyped, NoMakerTyped, OwnStreamClosed
  <2>2. CASE ~close
    <3>1. fds' = fds /\ streams' = streams
      BY <2>2 DEF MakeFromOwnFails, Becomes, OS
    <3>2. State' \in States
      BY <1>1, <3>1, NoMakerTyped, InvTyped DEF State, States
    <3>3. SameBut({}, State, State')
      BY <1>1, <1>2, <3>1 DEF SameBut, State
    <3> QED  BY <3>1, <3>2, <3>3, OwnedKept DEF Inv
  <2> QED  BY <2>1, <2>2
<1>4. \A s \in StreamNames \ {"own"} : streams'[s] = streams[s]
  BY <1>3, InvTyped
<1>5. streams'["own"] # -1 => streams["own"] # -1
  BY <1>3, InvTyped
<1>6. MakerEntitled(State') /\ OwnEntitled(State')
  BY <1>1, <1>2, <1>4, <1>5, NoMakerTyped
  DEF Inv, Entitled, MakerEntitled, OwnEntitled, State, StreamNames
<1>7. ASSUME NEW c \in Cdbs
      PROVE  CdbEntitled(State', c)
  <2>1. CdbEntitled(State, c) /\ State \in States /\ ~UsesOwn(State.cdb[c])
    BY <1>1, StateIs DEF Inv, Entitled
  <2>2. cdb[c].fp # "own" /\ (cdb[c].fd # -1 => cdb[c].fp = c /\ c # "none")
    BY <2>1, OwnUsers, StateIs
  <2>3. streams'[c] = streams[c]
    BY <1>4, ObjectsAssumption DEF StreamNames
  <2> QED  BY <1>1, <2>1, <2>2, <2>3 DEF CdbEntitled, State
<1>8. OwnedByOne(State')
  BY <1>1, NoMakerTyped DEF Inv, Entitled, OwnedByOne, State, UsesOwn
<1>9. FileDecides' /\ path' \in Files \union {"none"}
  BY <1>1, NoMakerTyped, InvTyped, ObjectsAssumption DEF FileDecides
<1> QED  BY <1>3, <1>6, <1>7, <1>8, <1>9 DEF Inv, Entitled

(* Not making an instance of a maker's file closes nothing but the         *)
(* program's own stream, and that one if the maker was to close it.        *)
LEMMA CommitNoCdbStep ==
  ASSUME Inv, NEW c \in Cdbs, CommitNoCdb(c)
  PROVE  Inv'
<1>1. /\ maker' = [maker EXCEPT !.flags = @ \union {"COMMITTED"}]
      /\ Usable /\ ~cdb[c].live /\ RoomToOpen
      /\ path' = path /\ cdb' = cdb /\ own' = own /\ other' = other
  BY DEF CommitNoCdb
<1>2. PICK new \in CommitNew(c) : ~new.cdb.live /\ Becomes(new.os)
  BY DEF CommitNoCdb
<1>3. new.os = OS \/ (CommitArg = "stream" /\ new.os = CloseStream(OS, "own"))
  <2>1. new \in NewCdbs(c, CommitArg, maker.fd, Flag("FP_CLOSE"))
    BY <1>2 DEF CommitNew
  <2>2. CommitArg \in Args /\ Flag("FP_CLOSE") \in BOOLEAN
    BY DEF CommitArg, Args, Flag
  <2>3. streams[c] = -1
    <3>1. CdbEntitled(State, c) /\ State \in States /\ ~State.cdb[c].live
      BY <1>1, StateIs DEF Inv, Entitled
    <3> QED  BY <3>1, NotLiveValues, StateIs
  <2>4. maker.fd \in Fds \union {-1}
    BY InvTyped DEF MakerType
  <2>5. PICK arg \in Args, close \in BOOLEAN, fd \in Fds \union {-1} :
          arg = CommitArg /\ close = Flag("FP_CLOSE") /\ fd = maker.fd
    BY <2>2, <2>4, Zenon
  <2>6. new \in NewCdbs(c, arg, fd, close)
    BY <2>1, <2>5, Zenon
  <2>7. \/ new.os = OS
        \/ arg = "stream" /\ close /\ new.os = CloseStream(OS, "own")
    BY <1>1, <1>2, <2>3, <2>6, InvTyped, NotMadeShape DEF Inv
  <2> QED  BY <2>5, <2>7
<1>4. CASE new.os = OS
  <2>1. fds' = fds /\ streams' = streams
    BY <1>2, <1>4 DEF Becomes, OS
  <2> QED  BY <1>1, <2>1, FlagAdded
<1>5. CASE CommitArg = "stream" /\ new.os = CloseStream(OS, "own")
  <2>1. /\ maker' \in MakerType /\ maker'.flags = maker.flags \union {"COMMITTED"}
        /\ maker'.live = maker.live /\ maker'.made = maker.made
        /\ maker'.failed = maker.failed /\ maker'.filename = maker.filename
        /\ maker'.fd = maker.fd /\ maker'.fp = maker.fp /\ maker'.file = maker.file
    BY <1>1, InvTyped DEF MakerType
  <2>2. maker.fp = "own" /\ UsesOwn(maker)
    <3>1. maker.fp # "none" /\ ~maker.filename /\ maker.fp \in {"own", "maker", "none"}
      BY <1>5, InvTyped DEF CommitArg, MakerType
    <3>2. maker.fp # "maker"
      <4>1. ASSUME maker.fp = "maker"
            PROVE  maker.file \in Files /\ "CLOSED" \notin maker.flags
        BY <1>1, <4>1 DEF Inv, Entitled, MakerEntitled, State, Usable
      <4> QED  BY <3>1, <4>1 DEF Inv, FileDecides
    <3> QED  BY <3>1, <3>2 DEF Inv, Entitled, MakerEntitled, State, UsesOwn
  <2>3. MakerNumber(maker') = MakerNumber(maker)
    BY <2>1 DEF MakerNumber
  <2>4. /\ State' \in States /\ Owned(fds', State')
        /\ streams' = [streams EXCEPT !["own"] = -1]
    BY <1>1, <1>2, <1>5, <2>1, <2>3, InvTyped, OwnStreamClosed
  <2>5. \A s \in StreamNames \ {"own"} : streams'[s] = streams[s]
    BY <2>4, InvTyped
  <2>6. MakerEntitled(State') /\ OwnEntitled(State')
    <3>1. streams'["maker"] = streams["maker"] /\ streams'["own"] = -1
      BY <2>4, InvTyped DEF StreamNames
    <3> QED
      BY <1>1, <2>1, <2>2, <3>1
      DEF Inv, Entitled, MakerEntitled, OwnEntitled, State, StreamNames
  <2>7. ASSUME NEW d \in Cdbs
        PROVE  CdbEntitled(State', d)
    <3>1. CdbEntitled(State, d) /\ State \in States /\ ~UsesOwn(State.cdb[d])
      BY <2>2, StateIs DEF Inv, Entitled, OwnedByOne
    <3>2. cdb[d].fp # "own" /\ (cdb[d].fd # -1 => cdb[d].fp = d /\ d # "none")
      BY <3>1, OwnUsers, StateIs
    <3>3. streams'[d] = streams[d]
      BY <2>5, ObjectsAssumption DEF StreamNames
    <3> QED  BY <1>1, <3>1, <3>2, <3>3 DEF CdbEntitled, State
  <2>8. OwnedByOne(State')
    BY <1>1, <2>1 DEF Inv, Entitled, OwnedByOne, State, UsesOwn
  <2>9. FileDecides' /\ path' \in Files \union {"none"}
    BY <1>1, <2>1, InvTyped DEF Inv, FileDecides, CommitDecides
  <2> QED  BY <2>4, <2>6, <2>7, <2>8, <2>9 DEF Inv, Entitled
<1> QED  BY <1>3, <1>4, <1>5

-----------------------------------------------------------------------------
(* Closing the maker, of whatever state.                                   *)
LEMMA MakerClosesStreams ==
  ASSUME NEW f, NEW st \in [StreamNames -> Fds \union {-1}], NEW m \in MakerType,
         NEW os, os = MakerCloses(Os(f, st), m)
  PROVE  /\ ClosesStream(m) => StreamGone(st, m.fp, os.streams)
         /\ ~ClosesStream(m) => os.streams = st
         /\ os.streams \in [StreamNames -> Fds \union {-1}]
<1>1. CASE ClosesStream(m)
  <2>1. PICK s \in StreamNames : s = m.fp
    BY <1>1 DEF ClosesStream, MakerType, StreamNames
  <2>2. os = CloseStream(Os(f, st), s)
    BY <1>1, <2>1 DEF MakerCloses
  <2>3. StreamGone(st, s, os.streams)
    BY <2>2, CloseStreamValues
  <2> QED  BY <1>1, <2>1, <2>3 DEF StreamGone
<1>2. CASE ~ClosesStream(m)
  <2>1. os = Os(f, st) \/ os = CloseFd(Os(f, st), m.fd)
    BY <1>2 DEF MakerCloses
  <2>2. os.streams = st
    BY <2>1 DEF CloseFd, Os
  <2> QED  BY <1>2, <2>2
<1> QED  BY <1>1, <1>2

(* What it takes, which holds of a maker that has handed its file over.    *)
Closable(S) ==
  /\ S.maker.fp = "maker" <=> S.streams["maker"] # -1
  /\ S.maker.fp = "maker" => "FP_OPENED" \in S.maker.flags
  /\ S.maker.fp = "own" /\ ClosesStream(S.maker) =>
       \A c \in Cdbs : ~UsesOwn(S.cdb[c])
  /\ \A c \in Cdbs : CdbEntitled(S, c)
  /\ OwnEntitled(S)
  /\ \A c, d \in Cdbs :
       UsesOwn(S.cdb[c]) /\ S.cdb[c].opened /\ UsesOwn(S.cdb[d]) => c = d

LEMMA EntitledClosable ==
  ASSUME NEW S, Entitled(S)
  PROVE  Closable(S)
  BY DEF Entitled, Closable, MakerEntitled, OwnedByOne, UsesOwn

LEMMA MakerIsClosed ==
  ASSUME NEW f, NEW S \in States, Owned(f, S), Closable(S),
         NEW os, os = MakerCloses(Os(f, S.streams), S.maker),
         NEW T \in States, T.streams = os.streams,
         T.cdb = S.cdb, T.own = S.own, T.other = S.other,
         T.maker.fp = "none", T.maker.fd = -1, "CLOSED" \in T.maker.flags,
         T.maker.filename => T.maker.file \in Files
  PROVE  os = Os(os.fds, T.streams) /\ Owned(os.fds, T) /\ Entitled(T)
<1>1. /\ S.maker \in MakerType /\ S.streams \in [StreamNames -> Fds \union {-1}]
      /\ T.streams \in [StreamNames -> Fds \union {-1}]
  BY DEF States
<1>2. /\ ClosesStream(S.maker) => StreamGone(S.streams, S.maker.fp, T.streams)
      /\ ~ClosesStream(S.maker) => T.streams = S.streams
  BY <1>1, MakerClosesStreams
<1>3. /\ S.maker.fp = "maker" <=> S.streams["maker"] # -1
      /\ S.maker.fp = "maker" => "FP_OPENED" \in S.maker.flags
  BY DEF Closable
<1>4. T.streams = IF ClosesStream(S.maker)
                  THEN [S.streams EXCEPT ![S.maker.fp] = -1]
                  ELSE S.streams
  <2>1. CASE ClosesStream(S.maker)
    <3>1. S.maker.fp \in StreamNames
      BY <1>1, <2>1 DEF ClosesStream, MakerType, StreamNames
    <3>2. PICK s \in StreamNames : s = S.maker.fp
      BY <3>1
    <3>3. T.streams = [S.streams EXCEPT ![s] = -1]
      BY <1>1, <1>2, <2>1, <3>2 DEF StreamGone
    <3> QED  BY <2>1, <3>2, <3>3
  <2>2. CASE ~ClosesStream(S.maker)
    BY <1>2, <2>2
  <2> QED  BY <2>1, <2>2
<1>5. os = Os(os.fds, T.streams) /\ Owned(os.fds, T)
  BY <1>3, <1>4, MakerGivesBack, Zenon
<1>6. T.streams["maker"] = -1
  <2>1. CASE S.maker.fp = "maker"
    BY <1>2, <1>3, <2>1 DEF ClosesStream, StreamGone
  <2>2. CASE S.maker.fp # "maker"
    BY <1>2, <1>3, <2>2 DEF StreamGone, StreamNames
  <2> QED  BY <2>1, <2>2
<1>7. \A s \in StreamNames :
        /\ T.streams[s] # -1 => T.streams[s] = S.streams[s]
        /\ s \notin {"own", "maker"} => T.streams[s] = S.streams[s]
  <2>1. S.maker.fp \in {"own", "maker", "none"}
    BY <1>1 DEF MakerType
  <2>2. CASE ClosesStream(S.maker)
    <3>1. S.maker.fp \in {"own", "maker"}
      BY <2>1, <2>2 DEF ClosesStream
    <3>2. StreamGone(S.streams, S.maker.fp, T.streams)
      BY <1>2, <2>2
    <3> QED  BY <3>1, <3>2 DEF StreamGone
  <2>3. CASE ~ClosesStream(S.maker)
    BY <1>2, <2>3
  <2> QED  BY <2>2, <2>3
<1>8. MakerEntitled(T)
  BY <1>6, <1>1 DEF MakerEntitled
<1>9. OwnEntitled(T)
  BY <1>7 DEF Closable, OwnEntitled, StreamNames
<1>10. ASSUME NEW c \in Cdbs
       PROVE  CdbEntitled(T, c)
  <2>1. CdbEntitled(S, c) /\ T.cdb[c] = S.cdb[c] /\ T.streams[c] = S.streams[c]
    BY <1>7, ObjectsAssumption DEF Closable, StreamNames
  <2>2. CASE S.maker.fp = "own" /\ ClosesStream(S.maker)
    <3>1. ~UsesOwn(S.cdb[c])
      BY <2>2 DEF Closable
    <3>2. S.cdb[c].fp # "own"
      BY <2>1, <3>1, OwnUsers
    <3> QED  BY <2>1, <3>2 DEF CdbEntitled
  <2>3. CASE ~(S.maker.fp = "own" /\ ClosesStream(S.maker))
    <3>1. T.streams["own"] = S.streams["own"]
      BY <1>1, <1>2, <2>3 DEF StreamGone, StreamNames
    <3> QED  BY <2>1, <3>1 DEF CdbEntitled
  <2> QED  BY <2>2, <2>3
<1>11. OwnedByOne(T)
  BY DEF Closable, OwnedByOne, UsesOwn
<1> QED  BY <1>5, <1>8, <1>9, <1>10, <1>11 DEF Entitled

LEMMA MakerClosedValues ==
  ASSUME NEW m \in MakerType, NEW fails \in Failures, NEW m2, m2 = MakerClosed(m, fails)
  PROVE  /\ m2 \in MakerType /\ m2.fp = "none" /\ m2.fd = -1
         /\ m2.flags = m.flags \union {"CLOSED"}
         /\ m2.file = m.file /\ m2.made = m.made /\ m2.live = m.live
         /\ m2.filename <=> m.filename /\ ~Unlinks(m, fails)
         /\ m2.failed <=> m.failed \/ FailsClosing(m, fails)
<1>0. PICK p, q, r, t \in BOOLEAN :
        /\ p = m.filename /\ q = Unlinks(m, fails)
        /\ r = m.failed /\ t = FailsClosing(m, fails)
  BY DEF MakerType, Unlinks, FailsClosing, ClosesStream
<1>1. PICK b, d \in BOOLEAN : b = (p /\ ~q) /\ d = (r \/ t)
  OBVIOUS
<1>2. m2 = [m EXCEPT !.flags = m.flags \union {"CLOSED"}, !.fp = "none", !.fd = -1,
                     !.filename = b, !.failed = d]
  <2>1. b = (m.filename /\ ~Unlinks(m, fails))
    BY <1>0, <1>1, Zenon
  <2>2. d = (m.failed \/ FailsClosing(m, fails))
    BY <1>0, <1>1, Zenon
  <2> QED  BY <2>1, <2>2, Zenon DEF MakerClosed
<1>3. m.flags \union {"CLOSED"}
        \subseteq {"FP_OPENED", "FP_CLOSE", "DESTROY", "CLOSED", "COMMITTED", "ERROR"}
  BY DEF MakerType
<1>4. /\ m2 \in MakerType /\ m2.fp = "none" /\ m2.fd = -1
      /\ m2.flags = m.flags \union {"CLOSED"}
      /\ m2.file = m.file /\ m2.made = m.made /\ m2.live = m.live
      /\ m2.filename = b /\ m2.failed = d
  BY <1>2, <1>3 DEF MakerType
<1>5. m2.filename <=> m.filename /\ ~Unlinks(m, fails)
  BY <1>0, <1>1, <1>4
<1>6. m2.failed <=> m.failed \/ FailsClosing(m, fails)
  BY <1>0, <1>1, <1>4
<1> QED  BY <1>4, <1>5, <1>6

LEMMA MakerClosedStep ==
  ASSUME Inv, NEW fails \in Failures, NEW live \in BOOLEAN, maker.live,
         Becomes(MakerCloses(OS, maker)),
         maker' = [MakerClosed(maker, fails) EXCEPT !.live = live],
         path' = PathAfter(maker, fails),
         UNCHANGED <<cdb, own, other>>
  PROVE  Inv'
<1>1. /\ maker' \in MakerType /\ maker'.fp = "none" /\ maker'.fd = -1
      /\ maker'.flags = maker.flags \union {"CLOSED"}
      /\ maker'.file = maker.file /\ maker'.made = maker.made
      /\ maker'.filename <=> maker.filename /\ ~Unlinks(maker, fails)
      /\ maker'.failed <=> maker.failed \/ FailsClosing(maker, fails)
  <2>1. PICK m2 : m2 = MakerClosed(maker, fails)
    OBVIOUS
  <2>2. /\ m2 \in MakerType /\ m2.fp = "none" /\ m2.fd = -1
        /\ m2.flags = maker.flags \union {"CLOSED"}
        /\ m2.file = maker.file /\ m2.made = maker.made
        /\ m2.filename <=> maker.filename /\ ~Unlinks(maker, fails)
        /\ m2.failed <=> maker.failed \/ FailsClosing(maker, fails)
    BY <2>1, InvTyped, MakerClosedValues
  <2>3. maker' = [m2 EXCEPT !.live = live]
    BY <2>1
  <2> QED  BY <2>2, <2>3 DEF MakerType
<1>2. PICK S, T, f, os : /\ f = fds /\ S = State /\ T = State'
                         /\ os = MakerCloses(Os(f, S.streams), S.maker)
  OBVIOUS
<1>3. os = MakerCloses(OS, maker) /\ fds' = os.fds /\ streams' = os.streams
  BY <1>2, StateIs DEF OS, Os, Becomes
<1>4. S \in States /\ Owned(f, S) /\ Entitled(S)
  BY <1>2 DEF Inv
<1>5. /\ S.streams = streams /\ S.maker = maker /\ S.cdb = cdb /\ S.own = own
      /\ S.other = other
      /\ T.streams = streams' /\ T.maker = maker' /\ T.cdb = cdb /\ T.own = own
      /\ T.other = other
  BY <1>2 DEF State
<1>6. streams' \in [StreamNames -> Fds \union {-1}]
  <2>1. S.streams \in [StreamNames -> Fds \union {-1}] /\ S.maker \in MakerType
    BY <1>4 DEF States
  <2>2. os.streams \in [StreamNames -> Fds \union {-1}]
    BY <1>2, <2>1, MakerClosesStreams, Zenon
  <2> QED  BY <1>3, <2>2
<1>7. T \in States
  BY <1>1, <1>2, <1>6, InvTyped DEF State, States
<1>8. T.maker.filename => T.maker.file \in Files
  BY <1>1, <1>4, <1>5 DEF Entitled, MakerEntitled
<1>9. Owned(os.fds, T) /\ Entitled(T)
  <2>1. /\ T.streams = os.streams /\ T.cdb = S.cdb /\ T.own = S.own /\ T.other = S.other
        /\ T.maker.fp = "none" /\ T.maker.fd = -1 /\ "CLOSED" \in T.maker.flags
    BY <1>1, <1>3, <1>5
  <2>2. os = MakerCloses(Os(f, S.streams), S.maker)
    BY <1>2
  <2>3. Closable(S)
    BY <1>4, EntitledClosable
  <2> QED  BY <1>4, <1>7, <1>8, <2>1, <2>2, <2>3, MakerIsClosed, Zenon
<1>10. FileDecides'
  <2>1. CASE maker.file \in Files
    <3>1. CASE "CLOSED" \notin maker.flags
      <4>1. /\ ClosesStream(maker) /\ (Unlinks(maker, fails) <=> fails # "close")
            /\ ~maker.made /\ ~maker.failed /\ "none" \notin Files
        BY <2>1, <3>1, ObjectsAssumption DEF Inv, FileDecides, ClosesStream, Unlinks
      <4>2. maker'.failed <=> fails \in {"close", "unlink"}
        BY <1>1, <4>1 DEF FailsClosing
      <4>3. fails = "nothing" => path' = "none"
        BY <4>1 DEF PathAfter
      <4> QED  BY <1>1, <2>1, <4>1, <4>2, <4>3 DEF FileDecides, CommitDecides, Failures
    <3>2. CASE "CLOSED" \in maker.flags
      <4>1. maker.fp = "none"
        BY <3>2, InvTyped DEF Inv, Entitled, MakerEntitled, State, MakerType
      <4>2. ~FailsClosing(maker, fails) /\ ~Unlinks(maker, fails) /\ path' = path
        BY <4>1 DEF ClosesStream, Unlinks, FailsClosing, PathAfter
      <4> QED  BY <1>1, <2>1, <3>2, <4>2 DEF Inv, FileDecides, CommitDecides
    <3> QED  BY <3>1, <3>2
  <2>2. CASE maker.file \notin Files
    BY <1>1, <2>2 DEF FileDecides
  <2> QED  BY <2>1, <2>2
<1>11. path' \in Files \union {"none"}
  BY InvTyped DEF PathAfter
<1> QED  BY <1>2, <1>3, <1>7, <1>9, <1>10, <1>11 DEF Inv

-----------------------------------------------------------------------------
(* The maker hands its file over to a new instance.                        *)
LEMMA HandedOverValues ==
  ASSUME maker \in MakerType
  PROVE  /\ HandedOver \in MakerType
         /\ HandedOver.live = maker.live /\ HandedOver.made = maker.made
         /\ HandedOver.failed = maker.failed /\ HandedOver.filename = maker.filename
         /\ HandedOver.fd = maker.fd /\ HandedOver.fp = maker.fp
         /\ HandedOver.file = maker.file
         /\ HandedOver.flags =
              IF maker.filename
              THEN (maker.flags \ {"DESTROY"}) \union {"FP_CLOSE", "COMMITTED"}
              ELSE (maker.flags \ {"DESTROY", "FP_CLOSE"}) \union {"COMMITTED"}
<1>1. PICK flags :
        flags = IF maker.filename
                THEN (maker.flags \ {"DESTROY"}) \union {"FP_CLOSE", "COMMITTED"}
                ELSE (maker.flags \ {"DESTROY", "FP_CLOSE"}) \union {"COMMITTED"}
  OBVIOUS
<1>2. HandedOver = [maker EXCEPT !.flags = flags]
  BY <1>1 DEF HandedOver
<1>3. flags \subseteq {"FP_OPENED", "FP_CLOSE", "DESTROY", "CLOSED", "COMMITTED", "ERROR"}
  BY <1>1 DEF MakerType
<1> QED  BY <1>1, <1>2, <1>3 DEF MakerType

(* What a maker has that may be committed.                                 *)
LEMMA UsableValues ==
  ASSUME Inv, Usable
  PROVE  /\ maker.live /\ maker.fd # -1 /\ CommitArg \in Args
         /\ "CLOSED" \notin maker.flags
         /\ CommitArg = "path" =>
              /\ maker.filename /\ maker.fp = "maker" /\ maker.file \in Files
              /\ path = maker.file /\ ~maker.made /\ ~maker.failed
         /\ CommitArg = "stream" =>
              /\ ~maker.filename /\ maker.fp = "own" /\ own.as = "stream"
              /\ maker.fd = streams["own"]
         /\ CommitArg = "int" => ~maker.filename /\ maker.fp = "none"
         /\ CommitArg # "path" => maker.file = "tmp" /\ "FP_OPENED" \notin maker.flags
         /\ CommitArg # "path" => \A c \in Cdbs : ~UsesOwn(cdb[c])
<1>1. MakerEntitled(State) /\ FileDecides /\ OwnedByOne(State)
  BY DEF Inv, Entitled
<1>2. maker.live /\ "CLOSED" \notin maker.flags /\ CommitArg \in Args
  BY DEF Usable, CommitArg, Args
<1>3. maker.fd # -1
  BY <1>1, <1>2 DEF MakerEntitled, State
<1>4. maker.fp \in {"own", "maker", "none"}
  BY InvTyped DEF MakerType
<1>5. CASE maker.filename
  BY <1>1, <1>2, <1>3, <1>5 DEF MakerEntitled, State, FileDecides, CommitArg
<1>6. CASE ~maker.filename
  <2>1. maker.fp # "maker"
    BY <1>1, <1>2, <1>6 DEF MakerEntitled, State, FileDecides
  <2>2. maker.file = "tmp" /\ "FP_OPENED" \notin maker.flags
    BY <1>1, <1>3, <2>1 DEF MakerEntitled, State
  <2>3. \A c \in Cdbs : ~UsesOwn(cdb[c])
    BY <1>1, <1>3, <2>2 DEF OwnedByOne, UsesOwn, State
  <2>4. maker.fp = "own" => own.as = "stream" /\ maker.fd = streams["own"]
    BY <1>1 DEF MakerEntitled, State, Usable
  <2> QED  BY <1>2, <1>3, <1>4, <1>6, <2>1, <2>2, <2>3, <2>4 DEF CommitArg
<1> QED  BY <1>5, <1>6

(* Between the two, the maker and the instance both refer to the file.     *)
LEMMA CommitMade ==
  ASSUME Inv, NEW c \in Cdbs, Usable, ~cdb[c].live, RoomToOpen,
         NEW new \in CommitNew(c), new.cdb.live,
         NEW M, M = [streams |-> new.os.streams, maker |-> HandedOver,
                     cdb |-> [cdb EXCEPT ![c] = new.cdb], own |-> own,
                     other |-> other]
  PROVE  /\ M \in States /\ new.os = Os(new.os.fds, M.streams)
         /\ Owned(new.os.fds, M) /\ Closable(M)
<1>1. PICK arg \in Args, close \in BOOLEAN, fd \in Fds \union {-1} :
        arg = CommitArg /\ close = Flag("FP_CLOSE") /\ fd = maker.fd
  <2>1. CommitArg \in Args /\ Flag("FP_CLOSE") \in BOOLEAN
    BY DEF CommitArg, Args, Flag
  <2>2. maker.fd \in Fds \union {-1}
    BY InvTyped DEF MakerType
  <2> QED  BY <2>1, <2>2, Zenon
<1>2. new \in NewCdbs(c, arg, fd, close)
  BY <1>1, Zenon DEF CommitNew
<1>3. close <=> "FP_CLOSE" \in maker.flags
  BY <1>1 DEF Flag
<1>4. /\ ~Missing(arg) /\ new.cdb \in CdbType
      /\ new.cdb.opened <=> arg = "path" \/ close
      /\ new.cdb.fp = IF arg = "path" THEN c
                      ELSE IF arg = "stream" THEN "own" ELSE "none"
      /\ new.cdb.fd = IF arg = "path" THEN NextFd(OS) ELSE fd
      /\ new.cdb.file = IF arg = "path" THEN path ELSE "tmp"
      /\ NextFd(OS) \in Fds
      /\ new.os.streams = IF arg = "path" THEN [streams EXCEPT ![c] = NextFd(OS)]
                          ELSE streams
  <2>1. NewIs(new, c, arg, fd, close)
    BY <1>2, InvTyped, NewValues
  <2> QED  BY <2>1 DEF NewIs
<1>5. /\ maker.live /\ maker.fd # -1 /\ "CLOSED" \notin maker.flags
      /\ arg = "path" =>
           /\ maker.filename /\ maker.fp = "maker" /\ maker.file \in Files
           /\ path = maker.file
      /\ arg = "stream" =>
           /\ ~maker.filename /\ maker.fp = "own" /\ own.as = "stream"
           /\ maker.fd = streams["own"]
      /\ arg = "int" => ~maker.filename /\ maker.fp = "none"
      /\ arg # "path" => maker.file = "tmp" /\ "FP_OPENED" \notin maker.flags
      /\ arg # "path" => \A d \in Cdbs : ~UsesOwn(cdb[d])
  BY <1>1, UsableValues
<1>6. /\ HandedOver \in MakerType /\ HandedOver.filename = maker.filename
      /\ HandedOver.fd = maker.fd /\ HandedOver.fp = maker.fp
      /\ HandedOver.file = maker.file
      /\ HandedOver.flags =
           IF maker.filename
           THEN (maker.flags \ {"DESTROY"}) \union {"FP_CLOSE", "COMMITTED"}
           ELSE (maker.flags \ {"DESTROY", "FP_CLOSE"}) \union {"COMMITTED"}
  BY InvTyped, HandedOverValues
<1>7. PICK h \in MakerType : h = HandedOver
  BY <1>6
<1>8. c \in StreamNames /\ c \notin {"own", "maker", "none", "other"} /\ -1 \notin Fds
  BY ObjectsAssumption DEF StreamNames, Fds
<1>9. PICK st \in [StreamNames -> Fds \union {-1}] :
        /\ st = new.os.streams
        /\ st[c] = IF arg = "path" THEN NextFd(OS) ELSE streams[c]
        /\ \A s \in StreamNames \ {c} : st[s] = streams[s]
  BY <1>4, <1>8, InvTyped
<1>10. PICK cs \in [Cdbs -> CdbType] :
         /\ cs = [cdb EXCEPT ![c] = new.cdb]
         /\ cs[c] = new.cdb /\ \A d \in Cdbs \ {c} : cs[d] = cdb[d]
  BY <1>4, InvTyped
<1>11. M = [streams |-> st, maker |-> h, cdb |-> cs, own |-> own, other |-> other]
  BY <1>7, <1>9, <1>10
<1>12. /\ M \in States
       /\ M.streams = st /\ M.maker = h /\ M.cdb = cs /\ M.own = own /\ M.other = other
  BY <1>11, InvTyped DEF States
<1>13. CdbEntitled(State, c) /\ State \in States /\ Owned(fds, State)
  BY DEF Inv, Entitled
<1>14. Appears(M, c, new.cdb)
  BY <1>6, <1>7, <1>10, <1>12 DEF Appears
<1>15. Passes(M, "maker", fd, arg = "int" /\ close)
  <2>1. CASE arg = "int" /\ close
    <3>1. MakerNumber(maker) = fd
      BY <1>1, <1>3, <1>5, <2>1, InvTyped, MakerNumberValue
    <3>2. "FP_CLOSE" \notin h.flags
      BY <1>5, <1>6, <1>7, <2>1
    <3>3. MakerNumber(h) = -1
      BY <3>2, MakerNumberValue
    <3> QED  BY <1>12, <2>1, <3>1, <3>3, StateIs DEF Passes, NumberOf
  <2>2. CASE ~(arg = "int" /\ close)
    <3>1. maker.fp # "none" \/ "FP_CLOSE" \notin maker.flags
      BY <1>3, <1>5, <2>2 DEF Args
    <3>2. h.fp # "none" \/ "FP_CLOSE" \notin h.flags
      BY <1>5, <1>6, <1>7, <3>1 DEF Args
    <3>3. MakerNumber(maker) = -1 /\ MakerNumber(h) = -1
      BY <3>1, <3>2, InvTyped, MakerNumberValue
    <3> QED  BY <1>12, <2>2, <3>3 DEF Passes
  <2> QED  BY <2>1, <2>2
<1>16. new.os = Os(new.os.fds, M.streams) /\ Owned(new.os.fds, M)
  <2>1. M.streams = new.os.streams
    BY <1>9, <1>12
  <2> QED  BY <1>2, <1>12, <1>13, <1>14, <1>15, <2>1, InvTyped, InstanceMade
<1>17. Closable(M)
  <2>1. /\ h.fp = "maker" <=> st["maker"] # -1
        /\ h.fp = "maker" => "FP_OPENED" \in h.flags
    <3>1. /\ maker.fp = "maker" <=> streams["maker"] # -1
          /\ maker.fp = "maker" => "FP_OPENED" \in maker.flags
      BY DEF Inv, Entitled, MakerEntitled, State
    <3> QED  BY <1>6, <1>7, <1>8, <1>9, <3>1 DEF StreamNames
  <2>2. h.fp = "own" => ~ClosesStream(h)
    <3>1. ASSUME h.fp = "own"
          PROVE  ~maker.filename /\ "FP_OPENED" \notin maker.flags
      BY <1>5, <1>6, <1>7, <3>1 DEF Args
    <3> QED  BY <1>6, <1>7, <3>1 DEF ClosesStream
  <2>3. ASSUME NEW d \in Cdbs
        PROVE  CdbEntitled(M, d)
    <3>1. st["own"] = streams["own"]
      BY <1>8, <1>9 DEF StreamNames
    <3>2. CASE d # c
      <4>1. CdbEntitled(State, d) /\ st[d] = streams[d]
        BY <1>9, <3>2 DEF Inv, Entitled, StreamNames
      <4> QED  BY <1>10, <1>12, <3>1, <3>2, <4>1 DEF CdbEntitled, State
    <3>3. CASE d = c
      <4>1. CASE arg = "path"
        BY <1>4, <1>5, <1>8, <1>9, <1>10, <1>12, <3>3, <4>1 DEF CdbEntitled
      <4>2. CASE arg # "path"
        <5>1. st[c] = -1
          <6>1. ~State.cdb[c].live
            BY StateIs
          <6>2. State.streams[c] = -1
            BY <1>13, <6>1, NotLiveValues
          <6> QED  BY <1>9, <4>2, <6>2, StateIs
        <5>2. arg = "int" /\ ~close => own.as = "int" /\ own.fd = fd
          BY <1>1, <1>3, <1>5 DEF Inv, Entitled, MakerEntitled, State
        <5>3. fd # -1
          BY <1>1, <1>5
        <5>4. CASE arg = "stream"
          <6>1. /\ cs[c].fp = "own" /\ cs[c].fd = streams["own"]
                /\ cs[c].file = "tmp" /\ cs[c].fd # -1
            BY <1>1, <1>4, <1>5, <1>10, <5>3, <5>4
          <6> QED  BY <1>5, <1>8, <1>12, <3>1, <3>3, <5>1, <5>4, <6>1 DEF CdbEntitled
        <5>5. CASE arg = "int"
          <6>1. /\ cs[c].fp = "none" /\ cs[c].fd = fd
                /\ cs[c].file = "tmp" /\ (cs[c].opened <=> close)
            BY <1>4, <1>10, <5>5
          <6> QED  BY <1>8, <1>12, <3>3, <5>1, <5>2, <5>3, <5>5, <6>1 DEF CdbEntitled
        <5> QED  BY <4>2, <5>4, <5>5 DEF Args
      <4> QED  BY <4>1, <4>2
    <3> QED  BY <3>2, <3>3
  <2>4. OwnEntitled(M)
    <3>1. st["own"] = streams["own"]
      BY <1>8, <1>9 DEF StreamNames
    <3> QED  BY <1>12, <3>1 DEF Inv, Entitled, OwnEntitled, State
  <2>5. \A d, e \in Cdbs : UsesOwn(cs[d]) /\ cs[d].opened /\ UsesOwn(cs[e]) => d = e
    <3>1. CASE arg = "path"
      <4>1. new.cdb.file # "tmp"
        BY <1>4, <1>5, <3>1, ObjectsAssumption
      <4> QED  BY <1>10, <4>1 DEF UsesOwn, Inv, Entitled, OwnedByOne, State
    <3>2. CASE arg # "path"
      BY <1>5, <1>10, <3>2
    <3> QED  BY <3>1, <3>2
  <2> QED  BY <1>12, <2>1, <2>2, <2>3, <2>4, <2>5 DEF Closable
<1> QED  BY <1>12, <1>16, <1>17

LEMMA CommitStep ==
  ASSUME Inv, NEW c \in Cdbs, Commit(c)
  PROVE  Inv'
<1>1. /\ Usable /\ ~cdb[c].live /\ RoomToOpen
      /\ own' = own /\ other' = other
      /\ maker' = [MakerClosed(HandedOver, "nothing") EXCEPT !.made = TRUE]
      /\ path' = PathAfter(HandedOver, "nothing")
  BY DEF Commit
<1>2. PICK new \in CommitNew(c) :
        /\ new.cdb.live
        /\ Becomes(MakerCloses(new.os, HandedOver))
        /\ cdb' = [cdb EXCEPT ![c] = new.cdb]
  BY DEF Commit
<1>3. PICK M : M = [streams |-> new.os.streams, maker |-> HandedOver,
                    cdb |-> [cdb EXCEPT ![c] = new.cdb], own |-> own,
                    other |-> other]
  OBVIOUS
<1>4. /\ M \in States /\ new.os = Os(new.os.fds, M.streams)
      /\ Owned(new.os.fds, M) /\ Closable(M)
  BY <1>1, <1>2, <1>3, CommitMade
<1>5. /\ M.maker = HandedOver /\ M.cdb = cdb' /\ M.own = own /\ M.other = other
  BY <1>2, <1>3
<1>6. PICK f, os, T, h : /\ f = new.os.fds /\ h = HandedOver /\ T = State'
                         /\ os = MakerCloses(Os(f, M.streams), M.maker)
  OBVIOUS
<1>7. os = MakerCloses(new.os, HandedOver) /\ fds' = os.fds /\ streams' = os.streams
  BY <1>2, <1>4, <1>5, <1>6 DEF Becomes
<1>8. /\ h \in MakerType /\ h.live = maker.live /\ h.made = maker.made
      /\ h.failed = maker.failed /\ h.filename = maker.filename
      /\ h.fd = maker.fd /\ h.fp = maker.fp /\ h.file = maker.file
      /\ h.flags = IF maker.filename
                   THEN (maker.flags \ {"DESTROY"}) \union {"FP_CLOSE", "COMMITTED"}
                   ELSE (maker.flags \ {"DESTROY", "FP_CLOSE"}) \union {"COMMITTED"}
  BY <1>6, InvTyped, HandedOverValues
<1>9. ~Unlinks(h, "nothing") /\ ~FailsClosing(h, "nothing")
  BY <1>8 DEF Unlinks, FailsClosing
<1>10. /\ maker' \in MakerType /\ maker'.fp = "none" /\ maker'.fd = -1
       /\ "CLOSED" \in maker'.flags /\ maker'.file = maker.file
       /\ maker'.filename <=> maker.filename
       /\ maker'.failed <=> maker.failed
       /\ maker'.made /\ maker'.live = maker.live
  <2>1. PICK fails, m2 : /\ fails \in Failures /\ fails = "nothing"
                         /\ m2 = MakerClosed(h, fails)
    BY DEF Failures
  <2>2. /\ m2 \in MakerType /\ m2.fp = "none" /\ m2.fd = -1
        /\ m2.flags = h.flags \union {"CLOSED"}
        /\ m2.file = h.file /\ m2.live = h.live
        /\ m2.filename <=> h.filename /\ ~Unlinks(h, fails)
        /\ m2.failed <=> h.failed \/ FailsClosing(h, fails)
    BY <1>8, <2>1, MakerClosedValues
  <2>3. maker' = [m2 EXCEPT !.made = TRUE]
    BY <1>1, <1>6, <2>1
  <2>4. ~FailsClosing(h, fails) /\ ~Unlinks(h, fails)
    BY <1>9, <2>1
  <2> QED  BY <1>8, <2>2, <2>3, <2>4 DEF MakerType
<1>11. /\ T.streams = streams' /\ T.maker = maker' /\ T.cdb = cdb' /\ T.own = own
       /\ T.other = other
  BY <1>1, <1>6 DEF State
<1>12. T \in States
  <2>1. M.streams \in [StreamNames -> Fds \union {-1}] /\ M.maker \in MakerType
        /\ M.cdb \in [Cdbs -> CdbType]
    BY <1>4 DEF States
  <2>2. os.streams \in [StreamNames -> Fds \union {-1}]
    BY <1>6, <2>1, MakerClosesStreams, Zenon
  <2> QED  BY <1>1, <1>5, <1>6, <1>7, <1>10, <2>1, <2>2, InvTyped DEF State, States
<1>13. T.maker.filename => T.maker.file \in Files
  BY <1>10, <1>11 DEF Inv, Entitled, MakerEntitled, State
<1>14. Owned(os.fds, T) /\ Entitled(T)
  <2>1. /\ T.streams = os.streams /\ T.cdb = M.cdb /\ T.own = M.own /\ T.other = M.other
        /\ T.maker.fp = "none" /\ T.maker.fd = -1 /\ "CLOSED" \in T.maker.flags
    BY <1>5, <1>7, <1>10, <1>11
  <2>2. Owned(f, M) /\ os = MakerCloses(Os(f, M.streams), M.maker)
    BY <1>4, <1>6
  <2> QED  BY <1>4, <1>12, <1>13, <2>1, <2>2, MakerIsClosed, Zenon
<1>15. FileDecides'
  <2>1. path' = path
    BY <1>1, <1>6, <1>9 DEF PathAfter
  <2>2. maker.file \in Files => path = maker.file /\ ~maker.failed
    BY <1>1, UsableValues DEF Inv, FileDecides
  <2> QED  BY <1>10, <2>1, <2>2 DEF FileDecides, CommitDecides
<1> QED  BY <1>1, <1>6, <1>7, <1>9, <1>12, <1>14, <1>15, InvTyped DEF Inv, PathAfter
-----------------------------------------------------------------------------
(* Closing an instance, of whatever state.                                 *)
LEMMA CdbClosesStreams ==
  ASSUME NEW f, NEW st \in [StreamNames -> Fds \union {-1}], NEW y \in CdbType,
         NEW os, os = CdbClosed(Os(f, st), y)
  PROVE  /\ y.fp # "none" /\ y.opened => StreamGone(st, y.fp, os.streams)
         /\ ~(y.fp # "none" /\ y.opened) => os.streams = st
         /\ os.streams \in [StreamNames -> Fds \union {-1}]
<1>1. PICK g : Unmapped(Os(f, st), y) = Os(g, st)
  <2>1. CloseFd(Os(f, st), y.map) = Os([f EXCEPT ![y.map] = "free"], st)
    BY CloseFdOs
  <2> QED  BY <2>1 DEF Unmapped
<1>2. CASE y.fp # "none" /\ y.opened
  <2>1. PICK s \in StreamNames : s = y.fp
    BY <1>2 DEF CdbType, StreamNames
  <2>2. os = CloseStream(Os(g, st), s)
    BY <1>1, <1>2, <2>1 DEF CdbClosed
  <2>3. StreamGone(st, s, os.streams)
    BY <2>2, CloseStreamValues
  <2> QED  BY <1>2, <2>1, <2>3 DEF StreamGone
<1>3. CASE ~(y.fp # "none" /\ y.opened)
  <2>1. os = Os(g, st) \/ os = CloseFd(Os(g, st), y.fd)
    BY <1>1, <1>3 DEF CdbClosed
  <2>2. os.streams = st
    BY <2>1 DEF CloseFd, Os
  <2> QED  BY <1>3, <2>2
<1> QED  BY <1>2, <1>3

LEMMA CdbIsClosed ==
  ASSUME NEW f, NEW S \in States, Owned(f, S), Entitled(S), NEW c \in Cdbs,
         NEW os, os = CdbClosed(Os(f, S.streams), S.cdb[c]),
         NEW T \in States, T.streams = os.streams,
         T.maker = S.maker, T.own = S.own, T.other = S.other,
         \A d \in Cdbs \ {c} : T.cdb[d] = S.cdb[d],
         T.cdb[c].fp = "none", T.cdb[c].fd = -1, T.cdb[c].map = -1
  PROVE  os = Os(os.fds, T.streams) /\ Owned(os.fds, T) /\ Entitled(T)
<1> DEFINE y == S.cdb[c]
<1>1. /\ y \in CdbType /\ S.streams \in [StreamNames -> Fds \union {-1}]
      /\ T.streams \in [StreamNames -> Fds \union {-1}]
      /\ CdbEntitled(S, c) /\ y.fp \in {c, "own", "none"}
  BY DEF States, Entitled, CdbEntitled
<1>2. /\ y.fp # "none" /\ y.opened => StreamGone(S.streams, y.fp, T.streams)
      /\ ~(y.fp # "none" /\ y.opened) => T.streams = S.streams
  BY <1>1, CdbClosesStreams
<1>3. c \in StreamNames /\ c \notin {"own", "maker", "none"}
  BY ObjectsAssumption DEF StreamNames
<1>4. T.streams = IF y.fp # "none" /\ y.opened
                  THEN [S.streams EXCEPT ![y.fp] = -1]
                  ELSE S.streams
  <2>1. CASE y.fp # "none" /\ y.opened
    <3>1. PICK s \in StreamNames : s = y.fp
      BY <1>1, <1>3, <2>1 DEF StreamNames
    <3>2. T.streams = [S.streams EXCEPT ![s] = -1]
      BY <1>1, <1>2, <2>1, <3>1 DEF StreamGone
    <3> QED  BY <2>1, <3>1, <3>2
  <2>2. CASE ~(y.fp # "none" /\ y.opened)
    BY <1>2, <2>2
  <2> QED  BY <2>1, <2>2
<1>5. os = Os(os.fds, T.streams) /\ Owned(os.fds, T)
  BY <1>1, <1>4, CdbCloses, Zenon
<1>6. \A s \in StreamNames :
        /\ T.streams[s] # -1 => T.streams[s] = S.streams[s]
        /\ s \notin {"own", c} => T.streams[s] = S.streams[s]
        /\ s = "own" /\ ~(y.fp = "own" /\ y.opened) => T.streams[s] = S.streams[s]
  <2>1. CASE y.fp # "none" /\ y.opened
    <3>1. StreamGone(S.streams, y.fp, T.streams) /\ y.fp \in {c, "own"}
      BY <1>1, <1>2, <2>1
    <3> QED  BY <1>3, <2>1, <3>1 DEF StreamGone
  <2>2. CASE ~(y.fp # "none" /\ y.opened)
    BY <1>2, <2>2
  <2> QED  BY <2>1, <2>2
<1>7. T.streams[c] = -1
  <2>1. CASE y.fp = c
    BY <1>1, <1>2, <1>3, <2>1 DEF CdbEntitled, StreamGone
  <2>2. CASE y.fp # c
    BY <1>1, <1>3, <1>6, <2>2 DEF CdbEntitled
  <2> QED  BY <2>1, <2>2
<1>8. y.fp = "own" /\ y.opened =>
        /\ S.maker.fp # "own"
        /\ \A d \in Cdbs \ {c} : S.cdb[d].fp # "own"
  <2>1. ASSUME y.fp = "own", y.opened
        PROVE  UsesOwn(y)
    BY <1>1, <1>3, <2>1 DEF CdbEntitled, UsesOwn
  <2>2. ASSUME S.maker.fp = "own"
        PROVE  UsesOwn(S.maker)
    BY <2>2 DEF Entitled, MakerEntitled, UsesOwn
  <2>3. ASSUME NEW d \in Cdbs \ {c}, ~UsesOwn(S.cdb[d])
        PROVE  S.cdb[d].fp # "own"
    BY <2>3, OwnUsers DEF Entitled
  <2> QED  BY <2>1, <2>2, <2>3 DEF Entitled, OwnedByOne
<1>9. MakerEntitled(T)
  <2>1. T.streams["maker"] = S.streams["maker"]
    BY <1>3, <1>6 DEF StreamNames
  <2>2. S.maker.fp = "own" => T.streams["own"] = S.streams["own"]
    BY <1>6, <1>8 DEF StreamNames
  <2> QED  BY <2>1, <2>2 DEF Entitled, MakerEntitled
<1>10. OwnEntitled(T)
  BY <1>6 DEF Entitled, OwnEntitled, StreamNames
<1>11. ASSUME NEW d \in Cdbs
       PROVE  CdbEntitled(T, d)
  <2>1. CASE d = c
    BY <1>3, <1>7, <2>1 DEF CdbEntitled
  <2>2. CASE d # c
    <3>1. T.streams[d] = S.streams[d]
      BY <1>6, <2>2, ObjectsAssumption DEF StreamNames
    <3>2. S.cdb[d].fp = "own" => T.streams["own"] = S.streams["own"]
      BY <1>6, <1>8, <2>2 DEF StreamNames
    <3> QED  BY <2>2, <3>1, <3>2 DEF Entitled, CdbEntitled
  <2> QED  BY <2>1, <2>2
<1>12. OwnedByOne(T)
  BY DEF Entitled, OwnedByOne, UsesOwn
<1> QED  BY <1>5, <1>9, <1>10, <1>11, <1>12 DEF Entitled

(* An instance is closed, and goes on to be live or not.                   *)
LEMMA CdbClosedStep ==
  ASSUME Inv, NEW c \in Cdbs, CloseCdb(c) \/ DropCdb(c)
  PROVE  Inv'
<1>1. /\ Becomes(CdbClosed(OS, cdb[c]))
      /\ path' = path /\ maker' = maker /\ own' = own /\ other' = other
  BY DEF CloseCdb, DropCdb
<1>2. /\ cdb' \in [Cdbs -> CdbType] /\ \A d \in Cdbs \ {c} : cdb'[d] = cdb[d]
      /\ cdb'[c].fp = "none" /\ cdb'[c].fd = -1 /\ cdb'[c].map = -1
  <2>1. CASE CloseCdb(c)
    <3>1. cdb' = [cdb EXCEPT ![c] = Closed(cdb[c])]
      BY <2>1, InvTyped DEF CloseCdb
    <3>2. /\ Closed(cdb[c]) \in CdbType /\ Closed(cdb[c]).fp = "none"
          /\ Closed(cdb[c]).fd = -1 /\ Closed(cdb[c]).map = -1
      <4>1. cdb[c] \in CdbType
        BY InvTyped
      <4> QED  BY <4>1 DEF Closed, CdbType
    <3> QED  BY <3>1, <3>2, InvTyped
  <2>2. CASE DropCdb(c)
    <3>1. cdb' = [cdb EXCEPT ![c] = NoCdb]
      BY <2>2 DEF DropCdb
    <3>2. NoCdb \in CdbType /\ NoCdb.fp = "none" /\ NoCdb.fd = -1 /\ NoCdb.map = -1
      BY DEF NoCdb, CdbType
    <3> QED  BY <3>1, <3>2, InvTyped
  <2> QED  BY <2>1, <2>2
<1>3. PICK f, S, T, os : /\ f = fds /\ S = State /\ T = State'
                         /\ os = CdbClosed(Os(f, S.streams), S.cdb[c])
  OBVIOUS
<1>4. /\ S.streams = streams /\ S.maker = maker /\ S.cdb = cdb /\ S.own = own
      /\ S.other = other
      /\ T.streams = streams' /\ T.maker = maker /\ T.cdb = cdb' /\ T.own = own
      /\ T.other = other
  BY <1>1, <1>3 DEF State
<1>5. fds' = os.fds /\ streams' = os.streams
  BY <1>1, <1>3, <1>4 DEF Becomes, OS, Os
<1>6. S \in States /\ Owned(f, S) /\ Entitled(S)
  BY <1>3 DEF Inv
<1>7. os.streams \in [StreamNames -> Fds \union {-1}]
  <2>1. S.streams \in [StreamNames -> Fds \union {-1}] /\ S.cdb[c] \in CdbType
    BY <1>6 DEF States
  <2> QED  BY <1>3, <2>1, CdbClosesStreams, Zenon
<1>8. T \in States
  BY <1>1, <1>2, <1>3, <1>5, <1>7, InvTyped DEF State, States
<1>9. Owned(os.fds, T) /\ Entitled(T)
  <2>1. /\ T.streams = os.streams /\ T.maker = S.maker /\ T.own = S.own
        /\ T.other = S.other
        /\ \A d \in Cdbs \ {c} : T.cdb[d] = S.cdb[d]
        /\ T.cdb[c].fp = "none" /\ T.cdb[c].fd = -1 /\ T.cdb[c].map = -1
    BY <1>2, <1>4, <1>5
  <2>2. os = CdbClosed(Os(f, S.streams), S.cdb[c])
    BY <1>3
  <2> QED  BY <1>6, <1>8, <2>1, <2>2, CdbIsClosed
<1>10. FileDecides'
  BY <1>1 DEF Inv, FileDecides, CommitDecides
<1> QED  BY <1>1, <1>3, <1>5, <1>8, <1>9, <1>10, InvTyped DEF Inv

(* Closing the maker fails after the instance has been made.               *)
LEMMA CommitDroppedStep ==
  ASSUME Inv, NEW c \in Cdbs, CommitDropped(c)
  PROVE  Inv'
<1>1. /\ Usable /\ ~cdb[c].live /\ RoomToOpen /\ ClosesStream(HandedOver)
      /\ path' = path /\ cdb' = cdb /\ own' = own /\ other' = other
      /\ maker' = MakerClosed(HandedOver, "close")
  BY DEF CommitDropped
<1>2. PICK new \in CommitNew(c) :
        /\ new.cdb.live
        /\ Becomes(CdbClosed(MakerCloses(new.os, HandedOver), new.cdb))
  BY DEF CommitDropped
<1>3. PICK M : M = [streams |-> new.os.streams, maker |-> HandedOver,
                    cdb |-> [cdb EXCEPT ![c] = new.cdb], own |-> own,
                    other |-> other]
  OBVIOUS
<1>4. /\ M \in States /\ new.os = Os(new.os.fds, M.streams)
      /\ Owned(new.os.fds, M) /\ Closable(M)
  BY <1>1, <1>2, <1>3, CommitMade
<1>5. /\ M.maker = HandedOver /\ M.own = own /\ M.other = other
      /\ M.cdb[c] = new.cdb /\ \A d \in Cdbs \ {c} : M.cdb[d] = cdb[d]
  BY <1>3, InvTyped
<1>6. PICK f, os, h : /\ f = new.os.fds /\ h = HandedOver
                      /\ os = MakerCloses(Os(f, M.streams), M.maker)
  OBVIOUS
<1>7. os = MakerCloses(new.os, HandedOver)
  BY <1>4, <1>5, <1>6
<1>8. /\ h \in MakerType /\ h.live = maker.live /\ h.made = maker.made
      /\ h.failed = maker.failed /\ h.filename = maker.filename
      /\ h.fd = maker.fd /\ h.fp = maker.fp /\ h.file = maker.file
      /\ h.flags = IF maker.filename
                   THEN (maker.flags \ {"DESTROY"}) \union {"FP_CLOSE", "COMMITTED"}
                   ELSE (maker.flags \ {"DESTROY", "FP_CLOSE"}) \union {"COMMITTED"}
  BY <1>6, InvTyped, HandedOverValues
<1>9. /\ maker' \in MakerType /\ maker'.fp = "none" /\ maker'.fd = -1
      /\ "CLOSED" \in maker'.flags /\ maker'.file = maker.file
      /\ maker'.filename => maker.filename
      /\ maker'.failed /\ maker'.made = maker.made /\ maker'.live = maker.live
  <2>0. PICK fails \in Failures : fails = "close"
    BY DEF Failures
  <2>1. PICK m2 : m2 = MakerClosed(h, fails)
    OBVIOUS
  <2>2. /\ m2 \in MakerType /\ m2.fp = "none" /\ m2.fd = -1
        /\ m2.flags = h.flags \union {"CLOSED"}
        /\ m2.file = h.file /\ m2.live = h.live
        /\ m2.filename <=> h.filename /\ ~Unlinks(h, fails)
        /\ m2.failed <=> h.failed \/ FailsClosing(h, fails)
    BY <1>8, <2>1, MakerClosedValues
  <2>4. m2.made = h.made
    BY <1>8, <2>1 DEF MakerClosed, MakerType
  <2>3. maker' = m2 /\ FailsClosing(h, fails)
    BY <1>1, <1>6, <2>0, <2>1 DEF FailsClosing
  <2> QED  BY <1>8, <2>2, <2>3, <2>4
<1>10. PICK U : U = [M EXCEPT !.streams = os.streams, !.maker = maker']
  OBVIOUS
<1>11. M.streams \in [StreamNames -> Fds \union {-1}] /\ M.maker \in MakerType
  BY <1>4 DEF States
<1>12. os.streams \in [StreamNames -> Fds \union {-1}]
  BY <1>6, <1>11, MakerClosesStreams, Zenon
<1>13. /\ U \in States /\ U.streams = os.streams /\ U.maker = maker'
       /\ U.cdb = M.cdb /\ U.own = M.own /\ U.other = M.other
  BY <1>4, <1>9, <1>10, <1>12 DEF States
<1>14. U.maker.filename => U.maker.file \in Files
  BY <1>9, <1>13 DEF Inv, Entitled, MakerEntitled, State
<1>15. os = Os(os.fds, U.streams) /\ Owned(os.fds, U) /\ Entitled(U)
  <2>1. U.maker.fp = "none" /\ U.maker.fd = -1 /\ "CLOSED" \in U.maker.flags
    BY <1>9, <1>13
  <2>2. Owned(f, M) /\ os = MakerCloses(Os(f, M.streams), M.maker)
    BY <1>4, <1>6
  <2> QED  BY <1>4, <1>13, <1>14, <2>1, <2>2, MakerIsClosed
<1>16. PICK T, g, o2 : /\ T = State' /\ g = os.fds
                       /\ o2 = CdbClosed(Os(g, U.streams), U.cdb[c])
  OBVIOUS
<1>17. /\ o2 = CdbClosed(os, new.cdb)
       /\ fds' = o2.fds /\ streams' = o2.streams
  BY <1>2, <1>5, <1>7, <1>13, <1>15, <1>16 DEF Becomes
<1>18. o2.streams \in [StreamNames -> Fds \union {-1}]
  <2>1. U.streams \in [StreamNames -> Fds \union {-1}] /\ U.cdb[c] \in CdbType
    BY <1>13 DEF States
  <2> QED  BY <1>16, <2>1, CdbClosesStreams, Zenon
<1>19. /\ T \in States /\ T.streams = o2.streams /\ T.maker = maker' /\ T.cdb = cdb
       /\ T.own = own /\ T.other = other
  BY <1>1, <1>9, <1>16, <1>17, <1>18, InvTyped DEF State, States
<1>20. cdb[c].fp = "none" /\ cdb[c].fd = -1 /\ cdb[c].map = -1
  <2>1. State \in States /\ CdbEntitled(State, c) /\ ~State.cdb[c].live
    BY <1>1, StateIs DEF Inv, Entitled
  <2> QED  BY <2>1, NotLiveValues, StateIs
<1>21. Owned(o2.fds, T) /\ Entitled(T)
  <2>1. /\ T.maker = U.maker /\ T.own = U.own /\ T.other = U.other
        /\ \A d \in Cdbs \ {c} : T.cdb[d] = U.cdb[d]
        /\ T.cdb[c].fp = "none" /\ T.cdb[c].fd = -1 /\ T.cdb[c].map = -1
    BY <1>5, <1>13, <1>19, <1>20
  <2>2. Owned(g, U) /\ o2 = CdbClosed(Os(g, U.streams), U.cdb[c])
    BY <1>15, <1>16
  <2>3. T.streams = o2.streams
    BY <1>19
  <2> QED  BY <1>13, <1>15, <1>19, <2>1, <2>2, <2>3, CdbIsClosed
<1>22. FileDecides'
  <2>1. maker.file \in Files => ~maker.made
    BY <1>1 DEF Inv, FileDecides, Usable
  <2> QED  BY <1>9, <2>1 DEF FileDecides, CommitDecides
<1> QED  BY <1>1, <1>16, <1>17, <1>19, <1>21, <1>22, InvTyped DEF Inv

-----------------------------------------------------------------------------
(* CDB(file, close) fails.                                                 *)
LEMMA NotMadeStep ==
  ASSUME Inv, NEW c \in Cdbs, NEW arg \in Args, NEW close \in BOOLEAN,
         NEW fd \in Fds \union {-1}, NEW new \in NewCdbs(c, arg, fd, close),
         ~new.cdb.live, Becomes(new.os), cdb' = [cdb EXCEPT ![c] = new.cdb],
         ~cdb[c].live, RoomToOpen, arg = "stream" /\ close => ~OwnInUse,
         maker' = maker, own' = own, other' = other, path' = path
  PROVE  Inv'
<1>1. /\ cdb[c].fd = -1 /\ cdb[c].fp = "none" /\ cdb[c].map = -1
      /\ streams[c] = -1 /\ CdbNumber(cdb[c]) = -1
  <2>1. CdbEntitled(State, c) /\ State \in States /\ ~State.cdb[c].live
    BY StateIs DEF Inv, Entitled
  <2> QED  BY <2>1, NotLiveValues, StateIs
<1>2. /\ new.cdb = NoCdb
      /\ \/ new.os = OS
         \/ arg = "stream" /\ close /\ new.os = CloseStream(OS, "own")
  BY <1>1, InvTyped, NotMadeShape DEF Inv
<1>3. /\ NoCdb \in CdbType /\ NoCdb.fp = "none" /\ NoCdb.fd = -1 /\ NoCdb.map = -1
      /\ NoCdb.file = "none" /\ CdbNumber(NoCdb) = -1
  BY DEF NoCdb, CdbType, CdbNumber
<1>4. /\ cdb' \in [Cdbs -> CdbType] /\ cdb'[c] = NoCdb
      /\ \A d \in Cdbs \ {c} : cdb'[d] = cdb[d]
  BY <1>2, <1>3, InvTyped
<1>5. \A d \in Cdbs :
        /\ CdbNumber(cdb'[d]) = CdbNumber(cdb[d]) /\ cdb'[d].map = cdb[d].map
        /\ cdb'[d].file = cdb[d].file \/ (streams[d] = -1 /\ cdb[d].map = -1)
  BY <1>1, <1>3, <1>4
<1>6. /\ State' \in States /\ Owned(fds', State')
      /\ \/ streams' = streams
         \/ streams' = [streams EXCEPT !["own"] = -1] /\ ~OwnInUse
  <2>1. CASE new.os = OS
    <3>1. fds' = fds /\ streams' = streams
      BY <2>1 DEF Becomes, OS
    <3>2. State' \in States
      BY <1>4, <3>1, InvTyped DEF State, States
    <3>3. SameBut({}, State, State')
      BY <1>5, <3>1 DEF SameBut, State
    <3> QED  BY <3>1, <3>2, <3>3, OwnedKept DEF Inv
  <2>2. CASE arg = "stream" /\ close /\ new.os = CloseStream(OS, "own")
    <3>1. Becomes(CloseStream(OS, "own"))
      BY <2>2
    <3>2. MakerNumber(maker') = MakerNumber(maker)
      OBVIOUS
    <3> QED  BY <1>4, <1>5, <2>2, <3>1, <3>2, InvTyped, OwnStreamClosed
  <2> QED  BY <1>2, <2>1, <2>2
<1>7. \A s \in StreamNames \ {"own"} : streams'[s] = streams[s]
  BY <1>6, InvTyped
<1>8. streams'["own"] = streams["own"] \/ (streams'["own"] = -1 /\ ~OwnInUse)
  BY <1>6, InvTyped DEF StreamNames
<1>9. "maker" \in StreamNames \ {"own"} /\ \A d \in Cdbs : d \in StreamNames \ {"own"}
  BY ObjectsAssumption DEF StreamNames
<1>10. MakerEntitled(State')
  <2>1. maker.fp = "own" => UsesOwn(maker)
    BY DEF Inv, Entitled, MakerEntitled, State, UsesOwn
  <2> QED  BY <1>7, <1>8, <1>9, <2>1 DEF Inv, Entitled, MakerEntitled, State, OwnInUse
<1>11. OwnEntitled(State')
  BY <1>8 DEF Inv, Entitled, OwnEntitled, State
<1>12. ASSUME NEW d \in Cdbs
       PROVE  CdbEntitled(State', d)
  <2>1. CASE d = c
    BY <1>1, <1>3, <1>4, <1>7, <1>9, <2>1, ObjectsAssumption DEF CdbEntitled, State
  <2>2. CASE d # c
    <3>1. CdbEntitled(State, d) /\ State \in States
      BY DEF Inv, Entitled
    <3>2. cdb[d].fp = "own" => UsesOwn(cdb[d])
      BY <3>1, OwnUsers, StateIs
    <3> QED  BY <1>4, <1>7, <1>8, <1>9, <2>2, <3>1, <3>2 DEF CdbEntitled, State, OwnInUse
  <2> QED  BY <2>1, <2>2
<1>13. OwnedByOne(State')
  BY <1>3, <1>4 DEF Inv, Entitled, OwnedByOne, State, UsesOwn
<1>14. FileDecides' /\ path' \in Files \union {"none"}
  BY InvTyped DEF Inv, FileDecides, CommitDecides
<1> QED  BY <1>6, <1>10, <1>11, <1>12, <1>13, <1>14 DEF Inv, Entitled

(* CDB(file, close) succeeds.                                              *)
LEMMA MadeStep ==
  ASSUME Inv, NEW c \in Cdbs, NEW arg \in Args, NEW close \in BOOLEAN,
         NEW fd \in Fds \union {-1}, fd = OwnFd, MayPass(arg, close),
         NEW new \in NewCdbs(c, arg, fd, close),
         new.cdb.live, Becomes(new.os), cdb' = [cdb EXCEPT ![c] = new.cdb],
         ~cdb[c].live, RoomToOpen, ~UsesOwn(maker) \/ arg = "path",
         PassedOn(arg, close), maker' = maker, other' = other, path' = path
  PROVE  Inv'
<1>1. /\ ~Missing(arg) /\ new.cdb \in CdbType
      /\ new.cdb.opened <=> arg = "path" \/ close
      /\ new.cdb.fp = IF arg = "path" THEN c
                      ELSE IF arg = "stream" THEN "own" ELSE "none"
      /\ new.cdb.fd = IF arg = "path" THEN NextFd(OS) ELSE fd
      /\ new.cdb.file = IF arg = "path" THEN path ELSE "tmp"
      /\ NextFd(OS) \in Fds
      /\ new.os.streams = IF arg = "path" THEN [streams EXCEPT ![c] = NextFd(OS)]
                          ELSE streams
  <2>1. NewIs(new, c, arg, fd, close)
    BY InvTyped, NewValues
  <2> QED  BY <2>1 DEF NewIs
<1>2. /\ arg # "path" => own.as = arg /\ ~OwnLent /\ (close => ~OwnInUse)
      /\ arg = "path" => ~close
      /\ arg = "stream" => fd = streams["own"] /\ fd # -1
      /\ arg = "int" => fd = own.fd /\ fd # -1
  BY DEF MayPass, OwnFd, Inv, Entitled, OwnEntitled, State
<1>3. own' = IF arg = "int" /\ close THEN NotOwn ELSE own
  BY DEF PassedOn
<1>4. own' \in OwnType /\ NotOwn.as = "none" /\ NotOwn.fd = -1
  BY <1>3, InvTyped, ObjectsAssumption DEF NotOwn, OwnType
<1>5. c \in StreamNames /\ c \notin {"own", "maker", "none", "other"} /\ -1 \notin Fds
  BY ObjectsAssumption DEF StreamNames, Fds
<1>6. /\ cdb' \in [Cdbs -> CdbType] /\ cdb'[c] = new.cdb
      /\ \A d \in Cdbs \ {c} : cdb'[d] = cdb[d]
  BY <1>1, InvTyped
<1>7. /\ fds' = new.os.fds /\ streams' = new.os.streams
      /\ streams' \in [StreamNames -> Fds \union {-1}]
      /\ streams'[c] = IF arg = "path" THEN NextFd(OS) ELSE streams[c]
      /\ \A s \in StreamNames \ {c} : streams'[s] = streams[s]
  BY <1>1, <1>5, InvTyped DEF Becomes
<1>8. State' \in States
  BY <1>4, <1>6, <1>7, InvTyped DEF State, States
<1>9. PICK T : T = State'
  OBVIOUS
<1>10. /\ T.streams = streams' /\ T.maker = maker /\ T.cdb = cdb' /\ T.own = own'
       /\ T.other = other /\ T \in States
  BY <1>8, <1>9 DEF State
<1>11. Owned(fds', T)
  <2>1. Appears(T, c, new.cdb)
    BY <1>6, <1>10 DEF Appears
  <2>2. Passes(T, "own", fd, arg = "int" /\ close)
    <3>1. CASE arg = "int" /\ close
      <4>1. NumberOf(State, "own") = fd /\ NumberOf(T, "own") = -1
        BY <1>2, <1>3, <1>4, <1>10, <3>1, StateIs DEF NumberOf
      <4> QED  BY <1>10, <3>1, <4>1 DEF Passes
    <3>2. CASE ~(arg = "int" /\ close)
      BY <1>3, <1>10, <3>2 DEF Passes
    <3> QED  BY <3>1, <3>2
  <2>3. CdbEntitled(State, c) /\ State \in States /\ Owned(fds, State)
    BY DEF Inv, Entitled
  <2>4. T.streams = new.os.streams
    BY <1>7, <1>10
  <2>5. Owned(new.os.fds, T)
    BY <1>10, <2>1, <2>2, <2>3, <2>4, InvTyped, InstanceMade
  <2> QED  BY <1>7, <2>5
<1>12. OwnLent \/ \A d \in Cdbs : ~(UsesOwn(cdb[d]) /\ cdb[d].opened)
  BY DEF OwnLent
<1>13. own' = own \/ (~UsesOwn(maker) /\ \A d \in Cdbs : ~UsesOwn(cdb[d]))
  BY <1>2, <1>3 DEF OwnInUse
<1>14. "maker" \in StreamNames \ {c} /\ "own" \in StreamNames \ {c}
  BY <1>5 DEF StreamNames
<1>15. MakerEntitled(State')
  <2>1. maker.fd # -1 /\ maker.fp # "maker" => UsesOwn(maker)
    BY DEF Inv, Entitled, MakerEntitled, State, UsesOwn
  <2> QED
    BY <1>7, <1>13, <1>14, <2>1, InvTyped
    DEF Inv, Entitled, MakerEntitled, State, MakerType
<1>16. OwnEntitled(State')
  BY <1>2, <1>3, <1>4, <1>7, <1>14 DEF Inv, Entitled, OwnEntitled, State
<1>17. ASSUME NEW d \in Cdbs, d # c
       PROVE  CdbEntitled(State', d)
  <2>1. CdbEntitled(State, d) /\ State \in States /\ streams'[d] = streams[d]
    BY <1>7, <1>17 DEF Inv, Entitled, StreamNames
  <2>2. CASE own' = own
    BY <1>6, <1>7, <1>14, <1>17, <2>1, <2>2 DEF CdbEntitled, State
  <2>3. CASE ~UsesOwn(cdb[d])
    <3>1. cdb[d].fp # "own" /\ (cdb[d].fd # -1 => cdb[d].fp = d /\ d # "none")
      BY <2>1, <2>3, OwnUsers, StateIs
    <3> QED  BY <1>6, <1>17, <2>1, <3>1 DEF CdbEntitled, State
  <2> QED  BY <1>13, <2>2, <2>3
<1>18. CdbEntitled(State', c)
  <2>1. streams[c] = -1
    <3>1. CdbEntitled(State, c) /\ State \in States /\ ~State.cdb[c].live
      BY StateIs DEF Inv, Entitled
    <3> QED  BY <3>1, NotLiveValues, StateIs
  <2>2. CASE arg = "path"
    <3>1. path \in Files
      BY <1>1, <2>2, InvTyped DEF Missing
    <3>2. /\ new.cdb.fp = c /\ new.cdb.opened /\ new.cdb.fd = streams'[c]
          /\ new.cdb.file \in Files /\ new.cdb.fd # -1 /\ new.cdb.live
          /\ streams'[c] # -1
      BY <1>1, <1>5, <1>7, <2>2, <3>1
    <3> QED  BY <1>5, <1>6, <3>2 DEF CdbEntitled, State
  <2>3. CASE arg = "stream"
    <3>1. /\ new.cdb.fp = "own" /\ new.cdb.fd = streams'["own"] /\ new.cdb.fd # -1
          /\ new.cdb.file = "tmp" /\ streams'[c] = -1 /\ own' = own
          /\ own.as = "stream"
      BY <1>1, <1>2, <1>3, <1>7, <1>14, <2>1, <2>3
    <3> QED  BY <1>5, <1>6, <3>1 DEF CdbEntitled, State
  <2>4. CASE arg = "int"
    <3>1. /\ new.cdb.fp = "none" /\ new.cdb.fd = own.fd /\ new.cdb.fd # -1
          /\ new.cdb.file = "tmp" /\ streams'[c] = -1 /\ own.as = "int"
          /\ ~new.cdb.opened => own' = own
      BY <1>1, <1>2, <1>3, <1>7, <2>1, <2>4
    <3> QED  BY <1>5, <1>6, <3>1 DEF CdbEntitled, State
  <2> QED  BY <2>2, <2>3, <2>4 DEF Args
<1>19. OwnedByOne(State')
  <2>1. CASE arg = "path"
    <3>1. path \in Files /\ path # "tmp"
      BY <1>1, <2>1, InvTyped, ObjectsAssumption DEF Missing
    <3>2. ~UsesOwn(cdb'[c])
      BY <1>1, <1>6, <2>1, <3>1 DEF UsesOwn
    <3> QED  BY <1>6, <3>2 DEF Inv, Entitled, OwnedByOne, State
  <2>2. CASE arg # "path"
    <3>1. /\ ~UsesOwn(maker)
          /\ \A d \in Cdbs \ {c} : ~(UsesOwn(cdb'[d]) /\ cdb'[d].opened)
          /\ cdb'[c].opened => \A d \in Cdbs \ {c} : ~UsesOwn(cdb'[d])
      BY <1>1, <1>2, <1>6, <1>12, <2>2 DEF OwnInUse
    <3> QED  BY <3>1 DEF OwnedByOne, State
  <2> QED  BY <2>1, <2>2
<1>20. FileDecides' /\ path' \in Files \union {"none"}
  BY InvTyped DEF Inv, FileDecides, CommitDecides
<1>21. \A d \in Cdbs : CdbEntitled(State', d)
  BY <1>17, <1>18
<1> QED  BY <1>8, <1>9, <1>11, <1>15, <1>16, <1>19, <1>20, <1>21 DEF Inv, Entitled

LEMMA NewCdbStep ==
  ASSUME Inv, NEW c \in Cdbs, NEW arg \in Args, NEW close \in BOOLEAN,
         NewCdb(c, arg, close)
  PROVE  Inv'
<1>1. /\ ~cdb[c].live /\ RoomToOpen /\ MayPass(arg, close)
      /\ ~UsesOwn(maker) \/ arg = "path"
      /\ path' = path /\ maker' = maker /\ other' = other
  BY DEF NewCdb
<1>2. PICK fd \in Fds \union {-1} : fd = OwnFd
  BY InvTyped DEF OwnFd, OwnType, StreamNames
<1>3. PICK new \in NewCdbs(c, arg, fd, close) :
        /\ Becomes(new.os)
        /\ cdb' = [cdb EXCEPT ![c] = new.cdb]
        /\ IF new.cdb.live THEN PassedOn(arg, close) ELSE UNCHANGED own
  BY <1>2, Zenon DEF NewCdb
<1>4. CASE new.cdb.live
  BY <1>1, <1>2, <1>3, <1>4, MadeStep
<1>5. CASE ~new.cdb.live
  <2>1. arg = "stream" /\ close => ~OwnInUse
    BY <1>1 DEF MayPass
  <2> QED  BY <1>1, <1>3, <1>5, <2>1, NotMadeStep
<1> QED  BY <1>4, <1>5

-----------------------------------------------------------------------------
(* The rest of the program, which leaves cdbx's objects alone.             *)
LEMMA FreeInRoom ==
  ASSUME RoomToOpen
  PROVE  /\ NextFd(OS) \in Fds /\ NextFd(OS) # -1
         /\ \E free \in Fds : fds[free] = "free"
<1>1. NextFd(OS) \in Fds /\ NextFd(OS) # -1
  BY RoomForTwo, NextFdFree, ObjectsAssumption DEF Fds
<1>2. PICK free \in FreeFds(OS) : TRUE
  BY RoomForTwo
<1> QED  BY <1>1, <1>2 DEF FreeFds, OS

LEMMA OpenOwnStep ==
  ASSUME Inv, NEW as \in {"stream", "int"}, OpenOwn(as)
  PROVE  Inv'
<1>1. /\ own = NotOwn /\ streams["own"] = -1 /\ RoomToOpen /\ path' = path
      /\ maker' = maker /\ cdb' = cdb /\ other' = other
      /\ own.as = "none" /\ own.fd = -1
  BY DEF OpenOwn, NotOwn
<1>2. PICK f, S, T : f = fds /\ S = State /\ T = State'
  OBVIOUS
<1>3. /\ S.streams = streams /\ S.maker = maker /\ S.cdb = cdb /\ S.own = own
      /\ S.other = other
      /\ T.streams = streams' /\ T.maker = maker /\ T.cdb = cdb /\ T.own = own'
      /\ T.other = other
  BY <1>1, <1>2 DEF State
<1>4. /\ OS = Os(f, S.streams) /\ S \in States /\ Owned(f, S)
  BY <1>2 DEF Inv, OS, Os, State
<1>5. /\ NextFd(OS) \in Fds /\ NextFd(OS) # -1
      /\ "tmp" \in Inodes /\ "own" \in StreamNames /\ "own" \notin Cdbs
  BY <1>1, FreeInRoom, ObjectsAssumption DEF Inodes, StreamNames
<1>6. PICK free \in Fds : f[free] = "free"
  BY <1>1, <1>2, FreeInRoom
<1>7. /\ T \in States /\ Owned(fds', T) /\ OwnEntitled(State')
      /\ \A s \in StreamNames \ {"own"} : streams'[s] = streams[s]
  <2>1. CASE as = "stream"
    <3>1. PICK os : os = OpenStream(Os(f, S.streams), "own", "tmp")
      OBVIOUS
    <3>2. fds' = os.fds /\ streams' = os.streams /\ own' = [as |-> "stream", fd |-> -1]
      BY <1>4, <2>1, <3>1 DEF OpenOwn, Becomes
    <3>3. streams' = [streams EXCEPT !["own"] = NextFd(OS)]
      <4>1. OpenedIs(OpenStream(OS, "own", "tmp"), "path", "own", "tmp")
        BY OpenedValues DEF Opened
      <4> QED  BY <1>4, <3>1, <3>2, <4>1 DEF OpenedIs
    <3>4. /\ streams' \in [StreamNames -> Fds \union {-1}]
          /\ streams'["own"] = NextFd(OS)
          /\ \A s \in StreamNames \ {"own"} : streams'[s] = streams[s]
      BY <1>5, <3>3, InvTyped
    <3>5. T \in States
      BY <1>1, <1>2, <3>2, <3>4, InvTyped DEF State, States, OwnType
    <3>6. SameBut({<<"stream", "own">>}, S, T)
      BY <1>1, <1>3, <1>5, <3>2, <3>4 DEF SameBut, StreamNames
    <3>7. FileOf(T)[<<"stream", "own">>] = "tmp"
      BY <1>5, HolderCases DEF FileOf
    <3>8. S.streams["own"] = -1 /\ T.streams["own"] = NextFd(Os(f, S.streams))
      BY <1>1, <1>3, <1>4, <3>4
    <3>9. Owned(os.fds, T)
      BY <1>4, <1>5, <1>6, <3>1, <3>5, <3>6, <3>7, <3>8, StreamOpens
    <3> QED  BY <3>2, <3>4, <3>5, <3>9 DEF OwnEntitled, State
  <2>2. CASE as = "int"
    <3>1. PICK os : os = OpenFd(Os(f, S.streams), "tmp")
      OBVIOUS
    <3>2. fds' = os.fds /\ streams' = os.streams /\ own' = [as |-> "int", fd |-> NextFd(OS)]
      BY <1>4, <2>2, <3>1 DEF OpenOwn, Becomes
    <3>3. streams' = streams
      BY <1>3, <3>1, <3>2 DEF OpenFd, Os
    <3>4. T \in States
      BY <1>1, <1>2, <1>5, <3>2, <3>3, InvTyped DEF State, States, OwnType
    <3>5. SameBut({<<"number", "own">>}, S, T)
      BY <1>3, <3>3 DEF SameBut
    <3>6. NumberOf(S, "own") = -1 /\ NumberOf(T, "own") = NextFd(Os(f, S.streams))
      BY <1>1, <1>3, <1>4, <3>2 DEF NumberOf
    <3>7. T.streams = S.streams
      BY <1>3, <3>3
    <3>8. Owned(os.fds, T)
      <4>1. PICK who \in {"own", "other"}, file \in Inodes : who = "own" /\ file = "tmp"
        BY <1>5
      <4>2. file = IF who = "own" THEN "tmp" ELSE "other"
        BY <4>1
      <4> QED
        BY <1>4, <1>6, <3>1, <3>4, <3>5, <3>6, <3>7, <4>1, <4>2, NumberOpens
    <3> QED  BY <1>1, <1>5, <3>2, <3>3, <3>4, <3>8 DEF OwnEntitled, State
  <2> QED  BY <2>1, <2>2
<1>8. MakerEntitled(State')
  <2>1. streams'["maker"] = streams["maker"]
    BY <1>7 DEF StreamNames
  <2> QED  BY <1>1, <2>1 DEF Inv, Entitled, MakerEntitled, State
<1>9. ASSUME NEW c \in Cdbs
      PROVE  CdbEntitled(State', c)
  <2>1. CdbEntitled(State, c) /\ streams'[c] = streams[c]
    BY <1>5, <1>7 DEF Inv, Entitled, StreamNames
  <2> QED  BY <1>1, <2>1 DEF CdbEntitled, State
<1>10. OwnedByOne(State')
  BY <1>1 DEF Inv, Entitled, OwnedByOne, State
<1>11. FileDecides' /\ path' \in Files \union {"none"}
  BY <1>1, InvTyped DEF Inv, FileDecides, CommitDecides
<1> QED  BY <1>2, <1>7, <1>8, <1>9, <1>10, <1>11 DEF Inv, Entitled

(* A number of the program's or of the rest of the process is closed.      *)
LEMMA NumberCloses ==
  ASSUME NEW f, NEW S \in States, Owned(f, S), NEW T \in States,
         NEW who \in {"own", "other"}, NEW n \in Fds,
         NumberOf(S, who) = n, NumberOf(T, who) = -1,
         SameBut({<<"number", who>>}, S, T)
  PROVE  Owned([f EXCEPT ![n] = "free"], T)
<1> DEFINE k == <<"number", who>>
<1>1. k \in Holders /\ who \in StreamNames \union {"other"}
  BY HolderCases DEF StreamNames
<1>2. Held(S)[k] = n /\ Held(T)[k] = -1
  BY <1>1, HeldValues
<1>3. Held(S)[k] # -1
  BY <1>2, ObjectsAssumption DEF Fds
<1> HIDE DEF k
<1>4. Owned([f EXCEPT ![Held(S)[k]] = "free"], T)
  BY <1>1, <1>2, <1>3, OwnedClosed DEF k
<1> QED  BY <1>2, <1>4

LEMMA CloseOwnStep ==
  ASSUME Inv, CloseOwn
  PROVE  Inv'
<1>1. /\ own # NotOwn /\ ~UsesOwn(maker) /\ own' = NotOwn
      /\ \A c \in Cdbs : UsesOwn(cdb[c]) => ~cdb[c].opened /\ cdb[c].map # -1
      /\ path' = path /\ maker' = maker /\ cdb' = cdb /\ other' = other
  BY DEF CloseOwn
<1>2. NotOwn \in OwnType /\ NotOwn.as = "none" /\ NotOwn.fd = -1
  BY ObjectsAssumption DEF NotOwn, OwnType
<1>3. OwnEntitled(State)
  BY DEF Inv, Entitled
<1>4. /\ State' \in States /\ Owned(fds', State')
      /\ \A s \in StreamNames \ {"own"} : streams'[s] = streams[s]
      /\ streams'["own"] = -1
  <2>1. CASE own.as = "stream"
    <3>1. own'.fd = own.fd
      BY <1>1, <1>2, <1>3, <2>1 DEF OwnEntitled, State
    <3>2. Becomes(CloseStream(OS, "own"))
      BY <2>1 DEF CloseOwn
    <3>3. streams' = [streams EXCEPT !["own"] = -1] /\ State' \in States /\ Owned(fds', State')
      BY <1>1, <1>2, <3>1, <3>2, InvTyped, OwnStreamClosed
    <3> QED  BY <3>3, InvTyped DEF StreamNames
  <2>2. CASE own.as # "stream"
    <3>1. own.fd \in Fds /\ streams["own"] = -1
      BY <1>1, <1>3, <2>2, InvTyped DEF OwnEntitled, State, OwnType, NotOwn
    <3>2. Becomes(CloseFd(OS, own.fd))
      BY <2>2 DEF CloseOwn
    <3>3. fds' = [fds EXCEPT ![own.fd] = "free"] /\ streams' = streams
      BY <3>2 DEF Becomes, CloseFd, OS
    <3>4. PICK S, T : S = State /\ T = State'
      OBVIOUS
    <3>5. /\ S.streams = streams /\ S.maker = maker /\ S.cdb = cdb /\ S.own = own
          /\ S.other = other
          /\ T.streams = streams /\ T.maker = maker /\ T.cdb = cdb /\ T.own = NotOwn
          /\ T.other = other
      BY <1>1, <3>3, <3>4 DEF State
    <3>6. S \in States /\ Owned(fds, S)
      BY <3>4 DEF Inv
    <3>7. T \in States
      BY <1>1, <1>2, <3>3, <3>4, InvTyped DEF State, States
    <3>8. SameBut({<<"number", "own">>}, S, T)
      BY <3>5 DEF SameBut
    <3>9. NumberOf(S, "own") = own.fd /\ NumberOf(T, "own") = -1
      BY <1>2, <3>5 DEF NumberOf
    <3>10. Owned([fds EXCEPT ![own.fd] = "free"], T)
      <4>1. PICK n, f : n \in Fds /\ n = own.fd /\ f = fds
        BY <3>1
      <4> QED  BY <3>6, <3>7, <3>8, <3>9, <4>1, NumberCloses
    <3> QED  BY <3>1, <3>3, <3>4, <3>7, <3>10
  <2> QED  BY <2>1, <2>2
<1>5. MakerEntitled(State')
  <2>1. maker.fd # -1 => maker.fp = "maker"
    BY <1>1 DEF Inv, Entitled, MakerEntitled, State, UsesOwn
  <2>2. streams'["maker"] = streams["maker"]
    BY <1>4 DEF StreamNames
  <2> QED  BY <1>1, <2>1, <2>2 DEF Inv, Entitled, MakerEntitled, State
<1>6. OwnEntitled(State')
  BY <1>1, <1>2, <1>4 DEF OwnEntitled, State
<1>7. ASSUME NEW c \in Cdbs
      PROVE  CdbEntitled(State', c)
  <2>1. CdbEntitled(State, c) /\ streams'[c] = streams[c]
    BY <1>4, ObjectsAssumption DEF Inv, Entitled, StreamNames
  <2>2. /\ c # "own" /\ c # "none"
        /\ cdb[c].fd # -1 /\ cdb[c].fp # c => ~cdb[c].opened /\ cdb[c].map # -1
    BY <1>1, <2>1, ObjectsAssumption DEF CdbEntitled, State, UsesOwn
  <2> QED  BY <1>1, <2>1, <2>2 DEF CdbEntitled, State
<1>8. OwnedByOne(State')
  BY <1>1 DEF Inv, Entitled, OwnedByOne, State
<1>9. FileDecides' /\ path' \in Files \union {"none"}
  BY <1>1, InvTyped DEF Inv, FileDecides, CommitDecides
<1> QED  BY <1>4, <1>5, <1>6, <1>7, <1>8, <1>9 DEF Inv, Entitled

LEMMA OtherStep ==
  ASSUME Inv, OpenOther \/ CloseOther
  PROVE  Inv'
<1>1. path' = path /\ maker' = maker /\ cdb' = cdb /\ own' = own
  BY DEF OpenOther, CloseOther
<1>2. PICK f, S, T : f = fds /\ S = State /\ T = State'
  OBVIOUS
<1>3. /\ S.streams = streams /\ S.maker = maker /\ S.cdb = cdb /\ S.own = own
      /\ S.other = other
      /\ T.streams = streams' /\ T.maker = maker /\ T.cdb = cdb /\ T.own = own
      /\ T.other = other'
  BY <1>1, <1>2 DEF State
<1>4. /\ OS = Os(f, S.streams) /\ S \in States /\ Owned(f, S)
  BY <1>2 DEF Inv, OS, Os, State
<1>5. T \in States /\ Owned(fds', T) /\ streams' = streams
  <2>1. CASE OpenOther
    <3>1. /\ other = -1 /\ RoomToOpen /\ other' = NextFd(OS)
          /\ Becomes(OpenFd(OS, "other"))
      BY <2>1 DEF OpenOther
    <3>2. PICK os : os = OpenFd(Os(f, S.streams), "other")
      OBVIOUS
    <3>3. fds' = os.fds /\ streams' = streams
      BY <1>3, <1>4, <3>1, <3>2 DEF Becomes, OpenFd, Os
    <3>4. PICK free \in Fds : f[free] = "free"
      BY <1>2, <3>1, FreeInRoom
    <3>5. T \in States
      BY <1>1, <1>2, <3>1, <3>3, FreeInRoom, InvTyped DEF State, States
    <3>6. PICK who \in {"own", "other"}, file \in Inodes : who = "other" /\ file = "other"
      BY DEF Inodes
    <3>7. file = IF who = "own" THEN "tmp" ELSE "other"
      BY <3>6
    <3>8. NumberOf(S, who) = -1 /\ NumberOf(T, who) = NextFd(Os(f, S.streams))
      BY <1>3, <1>4, <3>1, <3>6 DEF NumberOf
    <3>9. SameBut({<<"number", who>>}, S, T)
      BY <1>3, <3>3, <3>6 DEF SameBut
    <3>10. T.streams = S.streams
      BY <1>3, <3>3
    <3>11. Owned(os.fds, T)
      BY <1>4, <3>2, <3>4, <3>5, <3>6, <3>7, <3>8, <3>9, <3>10, NumberOpens
    <3> QED  BY <3>3, <3>5, <3>11
  <2>2. CASE CloseOther
    <3>1. other # -1 /\ other' = -1 /\ Becomes(CloseFd(OS, other))
      BY <2>2 DEF CloseOther
    <3>2. fds' = [f EXCEPT ![other] = "free"] /\ streams' = streams
      BY <1>2, <3>1 DEF Becomes, CloseFd, OS
    <3>3. T \in States
      BY <1>1, <1>2, <3>1, <3>2, InvTyped DEF State, States
    <3>4. PICK who \in {"own", "other"}, n \in Fds : who = "other" /\ n = other
      BY <3>1, InvTyped
    <3>5. NumberOf(S, who) = n /\ NumberOf(T, who) = -1
      BY <1>3, <3>1, <3>4 DEF NumberOf
    <3>6. SameBut({<<"number", who>>}, S, T)
      BY <1>3, <3>2, <3>4 DEF SameBut
    <3>7. Owned([f EXCEPT ![n] = "free"], T)
      BY <1>4, <3>3, <3>5, <3>6, NumberCloses
    <3> QED  BY <3>2, <3>3, <3>4, <3>7
  <2> QED  BY <2>1, <2>2
<1>6. Entitled(State')
  BY <1>1, <1>5 DEF Inv, Entitled, MakerEntitled, CdbEntitled, OwnEntitled, OwnedByOne, State
<1>7. FileDecides' /\ path' \in Files \union {"none"}
  BY <1>1, InvTyped DEF Inv, FileDecides, CommitDecides
<1> QED  BY <1>2, <1>5, <1>6, <1>7 DEF Inv

-----------------------------------------------------------------------------
LEMMA MakerStep ==
  ASSUME Inv, Maker
  PROVE  Inv'
<1>1. CASE \E file \in Files : MakeFromPath(file)
  BY <1>1, MakeFromPathStep
<1>2. CASE \E file \in Files, fails \in Failures : MakeFromPathFails(file, fails)
  BY <1>2, MakeFromPathFailsStep
<1>3. CASE \E close \in BOOLEAN : MakeFromOwnFails(close)
  BY <1>3, MakeFromOwnFailsStep
<1>4. CASE \E arg \in Args, close \in BOOLEAN : MakeFromOwn(arg, close)
  BY <1>4, MakeFromOwnStep
<1>5. CASE MakerFails
  BY <1>5, FlagAdded DEF MakerFails
<1>6. ASSUME NEW fails \in Failures, CloseMaker(fails) \/ DropMaker(fails)
      PROVE  Inv'
  <2>1. PICK live \in BOOLEAN : maker' = [MakerClosed(maker, fails) EXCEPT !.live = live]
    <3>1. CASE CloseMaker(fails)
      <4>1. maker' = MakerClosed(maker, fails) /\ maker.live
        BY <3>1 DEF CloseMaker
      <4>2. maker' = [MakerClosed(maker, fails) EXCEPT !.live = TRUE]
        BY <4>1, InvTyped DEF MakerClosed, MakerType
      <4> QED  BY <4>2
    <3>2. CASE DropMaker(fails)
      BY <3>2 DEF DropMaker
    <3> QED  BY <1>6, <3>1, <3>2
  <2>2. /\ maker.live /\ Becomes(MakerCloses(OS, maker))
        /\ path' = PathAfter(maker, fails)
        /\ UNCHANGED <<cdb, own, other>>
    BY <1>6 DEF CloseMaker, DropMaker
  <2> QED  BY <2>1, <2>2, MakerClosedStep
<1>7. CASE CommitUnsynced
  BY <1>7, FlagAdded DEF CommitUnsynced
<1>8. CASE \E c \in Cdbs : CommitNoCdb(c) \/ Commit(c) \/ CommitDropped(c)
  BY <1>8, CommitNoCdbStep, CommitStep, CommitDroppedStep
<1> QED  BY <1>1, <1>2, <1>3, <1>4, <1>5, <1>6, <1>7, <1>8 DEF Maker

LEMMA InvNext ==
  ASSUME Inv, [Next]_vars
  PROVE  Inv'
<1>1. CASE Maker
  BY <1>1, MakerStep
<1>2. ASSUME NEW c \in Cdbs, Instance(c)
      PROVE  Inv'
  BY <1>2, NewCdbStep, CdbClosedStep DEF Instance
<1>3. CASE Surroundings
  BY <1>3, OpenOwnStep, CloseOwnStep, OtherStep DEF Surroundings
<1>4. CASE UNCHANGED vars
  <2>1. State' = State /\ fds' = fds /\ path' = path /\ maker' = maker
    BY <1>4 DEF vars, State
  <2> QED  BY <2>1 DEF Inv, FileDecides, CommitDecides
<1> QED  BY <1>1, <1>2, <1>3, <1>4 DEF Next

(* Every descriptor that a stream, a map, or a number on its way to be     *)
(* closed has is theirs alone, and refers to the file it was opened for.   *)
THEOREM DescriptorsOwned == Spec => []Inv
<1> QED  BY InvInit, InvNext, PTL DEF Spec

(* Descriptors, streams and the objects' fields stay in their ranges.      *)
THEOREM ObjectsTyped == Spec => []TypeOK
<1>1. ASSUME Inv
      PROVE  TypeOK
  BY <1>1, InvTyped DEF TypeOK, MakerType, CdbType, OwnType
<1> QED  BY <1>1, DescriptorsOwned, PTL

LEMMA HeldIsOpen ==
  ASSUME Inv
  PROVE  /\ \A s \in StreamNames : streams[s] # -1 =>
              fds[streams[s]] = FileOf(State)[<<"stream", s>>]
         /\ \A c \in Cdbs : cdb[c].map # -1 =>
              fds[cdb[c].map] = FileOf(State)[<<"map", c>>]
         /\ \A n \in StreamNames \union {"other"} : NumberOf(State, n) # -1 =>
              fds[NumberOf(State, n)] = FileOf(State)[<<"number", n>>]
<1>1. \A h \in Holders : Held(State)[h] # -1 =>
        fds[Held(State)[h]] = FileOf(State)[h]
  BY DEF Inv, Owned, Sound
<1> QED  BY <1>1, HolderCases, HeldValues, StateIs

(* cdbx closes what it has opened or been given, and each of these once:   *)
(* the descriptor that somebody else in the process has stays theirs.      *)
THEOREM NobodyElsesClosed == Spec => []OthersUntouched
<1>1. ASSUME Inv
      PROVE  OthersUntouched
  <2>1. <<"number", "other">> \in Holders
    BY HolderCases
  <2>2. NumberOf(State, "other") = other
    BY StateIs DEF NumberOf
  <2>3. FileOf(State)[<<"number", "other">>] = "other"
    BY <2>1 DEF FileOf
  <2> QED  BY <1>1, <2>2, <2>3, HeldIsOpen DEF OthersUntouched
<1> QED  BY <1>1, DescriptorsOwned, PTL

(* An open instance and a maker that takes records have the file they were *)
(* made for, whatever else has been closed, dropped or refused.            *)
THEOREM FilesStayOpen == Spec => []InUseOpen
<1>1. ASSUME Inv
      PROVE  InUseOpen
  <2>1. /\ "own" \in StreamNames /\ "maker" \in StreamNames /\ "own" \notin Cdbs
        /\ "maker" \notin Cdbs /\ "other" \notin Cdbs /\ "none" \notin Cdbs
        /\ \A c \in Cdbs : c \in StreamNames
    BY ObjectsAssumption DEF StreamNames
  <2>2. /\ streams["own"] # -1 => fds[streams["own"]] = "tmp"
        /\ own.fd # -1 => fds[own.fd] = "tmp"
    <3>1. /\ FileOf(State)[<<"stream", "own">>] = "tmp"
          /\ FileOf(State)[<<"number", "own">>] = "tmp"
      BY <2>1, HolderCases DEF FileOf
    <3>2. NumberOf(State, "own") = own.fd
      BY StateIs DEF NumberOf
    <3> QED  BY <1>1, <2>1, <3>1, <3>2, HeldIsOpen
  <2>3. Usable => fds[maker.fd] = maker.file
    <3>1. ASSUME Usable
          PROVE  fds[maker.fd] = maker.file
      <4>1. /\ maker.fd # -1 /\ MakerEntitled(State) /\ OwnEntitled(State)
            /\ maker.fp \in {"own", "maker", "none"}
        BY <1>1, <3>1, InvTyped DEF Inv, Entitled, MakerEntitled, State, Usable, MakerType
      <4>2. CASE maker.fp = "maker"
        <5>1. FileOf(State)[<<"stream", "maker">>] = maker.file
          BY <2>1, HolderCases, StateIs DEF FileOf
        <5>2. maker.fd = streams["maker"]
          BY <4>1, <4>2 DEF MakerEntitled, State
        <5> QED  BY <1>1, <2>1, <4>1, <5>1, <5>2, HeldIsOpen
      <4>3. CASE maker.fp = "own"
        BY <2>2, <3>1, <4>1, <4>3 DEF MakerEntitled, State, Usable
      <4>4. CASE maker.fp = "none" /\ "FP_CLOSE" \notin maker.flags
        BY <2>2, <4>1, <4>4 DEF MakerEntitled, State
      <4>5. CASE maker.fp = "none" /\ "FP_CLOSE" \in maker.flags
        <5>1. NumberOf(State, "maker") = maker.fd
          BY <4>5, StateIs DEF NumberOf, MakerNumber
        <5>2. FileOf(State)[<<"number", "maker">>] = "tmp"
          BY <2>1, HolderCases DEF FileOf
        <5>3. maker.file = "tmp"
          BY <4>1, <4>5 DEF MakerEntitled, State
        <5> QED  BY <1>1, <2>1, <4>1, <5>1, <5>2, <5>3, HeldIsOpen
      <4> QED  BY <4>1, <4>2, <4>3, <4>4, <4>5
    <3> QED  BY <3>1
  <2>4. ASSUME NEW c \in Cdbs, cdb[c].fd # -1
        PROVE  fds[IF cdb[c].map = -1 THEN cdb[c].fd ELSE cdb[c].map] = cdb[c].file
    <3>1. CdbEntitled(State, c) /\ cdb[c].fp \in {c, "own", "none"} /\ c # "own" /\ c # "none"
      BY <1>1, <2>1 DEF Inv, Entitled, CdbEntitled, State
    <3>2. CASE cdb[c].map # -1
      <4>1. FileOf(State)[<<"map", c>>] = cdb[c].file
        BY <2>1, HolderCases, StateIs DEF FileOf
      <4> QED  BY <1>1, <3>2, <4>1, HeldIsOpen
    <3>3. CASE cdb[c].map = -1 /\ cdb[c].fp = c
      <4>1. FileOf(State)[<<"stream", c>>] = cdb[c].file
        BY <2>1, HolderCases, StateIs DEF FileOf
      <4>2. cdb[c].fd = streams[c]
        BY <3>1, <3>3 DEF CdbEntitled, State
      <4> QED  BY <1>1, <2>1, <2>4, <3>3, <4>1, <4>2, HeldIsOpen
    <3>4. CASE cdb[c].map = -1 /\ cdb[c].fp = "own"
      BY <2>2, <2>4, <3>1, <3>4 DEF CdbEntitled, State
    <3>5. CASE cdb[c].map = -1 /\ cdb[c].fp = "none" /\ ~cdb[c].opened
      BY <2>2, <2>4, <3>1, <3>5 DEF CdbEntitled, State
    <3>6. CASE cdb[c].map = -1 /\ cdb[c].fp = "none" /\ cdb[c].opened
      <4>1. NumberOf(State, c) = cdb[c].fd
        BY <2>1, <3>6, StateIs DEF NumberOf, CdbNumber
      <4>2. FileOf(State)[<<"number", c>>] = "tmp"
        BY <2>1, HolderCases DEF FileOf
      <4>3. cdb[c].file = "tmp"
        BY <2>4, <3>1, <3>6 DEF CdbEntitled, State
      <4> QED  BY <1>1, <2>1, <2>4, <3>6, <4>1, <4>2, <4>3, HeldIsOpen
    <3> QED  BY <3>1, <3>2, <3>3, <3>4, <3>5, <3>6
  <2> QED  BY <2>3, <2>4 DEF InUseOpen
<1> QED  BY <1>1, DescriptorsOwned, PTL

(* Built for Python 2, cdbx leaves no descriptor behind: once the maker,   *)
(* the instances and the program's own file are closed, what is open is    *)
(* the rest of the process's.  (Built for Python 3 the maps leak.)         *)
THEOREM DescriptorsGivenBack ==
  ASSUME ~EXT3
  PROVE  Spec => []NothingLeft
<1>1. ASSUME Inv
      PROVE  NothingLeft
  <2> SUFFICES ASSUME maker.fd = -1, own = NotOwn, \A c \in Cdbs : cdb[c].fd = -1,
                      NEW n \in Fds, fds[n] # "free"
               PROVE  fds[n] = "other"
    BY DEF NothingLeft
  <2>1. PICK h \in Holders : Held(State)[h] = n
    BY <1>1 DEF Inv, Owned, Sound
  <2>2. n # -1 /\ NotOwn.fd = -1 /\ NotOwn.as = "none"
    BY ObjectsAssumption DEF Fds, NotOwn
  <2>3. \A s \in StreamNames : streams[s] = -1
    <3>1. streams["maker"] = -1 /\ streams["own"] = -1
      BY <1>1, <2>2, InvTyped, ObjectsAssumption
      DEF Inv, Entitled, MakerEntitled, OwnEntitled, State, StreamNames, Fds
    <3>2. ASSUME NEW c \in Cdbs
          PROVE  streams[c] = -1
      BY <1>1, ObjectsAssumption DEF Inv, Entitled, CdbEntitled, State
    <3> QED  BY <3>1, <3>2 DEF StreamNames
  <2>4. \A c \in Cdbs : cdb[c].map = -1 /\ CdbNumber(cdb[c]) = -1
    BY <1>1 DEF Inv, Entitled, CdbEntitled, State, CdbNumber
  <2>5. MakerNumber(maker) = -1
    BY DEF MakerNumber
  <2>6. \A m \in StreamNames : NumberOf(State, m) = -1
    BY <2>2, <2>4, <2>5, StateIs, ObjectsAssumption DEF NumberOf, StreamNames
  <2>7. h = <<"number", "other">>
    <3>1. ASSUME NEW s \in StreamNames
          PROVE  h # <<"stream", s>>
      BY <2>1, <2>2, <2>3, HeldValues, StateIs
    <3>2. ASSUME NEW c \in Cdbs
          PROVE  h # <<"map", c>>
      BY <2>1, <2>2, <2>4, HeldValues, StateIs
    <3>3. ASSUME NEW s \in StreamNames
          PROVE  h # <<"number", s>>
      BY <2>1, <2>2, <2>6, HeldValues
    <3> QED  BY <3>1, <3>2, <3>3, HolderCases
  <2>8. FileOf(State)[h] = "other"
    BY <2>7 DEF FileOf
  <2> QED  BY <1>1, <2>1, <2>2, <2>8 DEF Inv, Owned, Sound
<1> QED  BY <1>1, DescriptorsOwned, PTL

(* A named file that the maker has closed is there exactly if commit() has *)
(* returned an instance, unless closing the stream or removing it failed.  *)
THEOREM FileLeftIfCommitted == Spec => []CommitDecides
<1>1. ASSUME Inv
      PROVE  CommitDecides
  BY <1>1 DEF Inv, FileDecides, CommitDecides
<1> QED  BY <1>1, DescriptorsOwned, PTL
=============================================================================
