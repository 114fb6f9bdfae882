-------------------------- MODULE CDBReleaseProofs --------------------------
(* What CDBRelease states about the tasks, for every number of versions     *)
(* and invocations, every set of installed programs and every list of       *)
(* interpreters.  The argument goes along the steps that are left: a task   *)
(* is a sequence of steps, a step is taken from its front, a failure drops  *)
(* the rest, so what holds of the files is what the front step says about   *)
(* the steps behind it.                                                     *)
EXTENDS CDBRelease, FiniteSetTheorems, TLAPS

-----------------------------------------------------------------------------
(* Least numbers and recursion along a sequence: what FlattenSeq returns.  *)

(* A nonempty set of natural numbers has a least element.                  *)
LEMMA LeastNat ==
  ASSUME NEW S, S \subseteq Nat, S # {}
  PROVE  \E n \in S : \A m \in S : n <= m
<1> DEFINE T == {0 .. n : n \in S}
<1>1. IsWellFoundedOn(StrictSubsetOrdering(Nat), FiniteSubsetsOf(Nat))
  BY FS_StrictSubsetOrderingWellFounded
<1>2. T \subseteq FiniteSubsetsOf(Nat)
  <2>1. SUFFICES ASSUME NEW n \in S PROVE 0 .. n \in FiniteSubsetsOf(Nat)
    OBVIOUS
  <2>2. IsFiniteSet(0 .. n)
    BY FS_Interval
  <2>3. QED BY <2>2 DEF FiniteSubsetsOf
<1>3. T # {}
  OBVIOUS
<1> HIDE DEF T
<1>4. PICK x \in T : \A y \in T : <<y, x>> \notin StrictSubsetOrdering(Nat)
  BY <1>1, <1>2, <1>3, WFMin
<1>5. PICK n \in S : x = 0 .. n
  BY DEF T
<1>6. ASSUME NEW m \in S, m < n
      PROVE  FALSE
  <2>1. <<0 .. m, 0 .. n>> \in StrictSubsetOrdering(Nat)
    BY <1>6 DEF StrictSubsetOrdering
  <2>2. 0 .. m \in T
    BY DEF T
  <2>3. QED BY <2>1, <2>2, <1>4, <1>5
<1>7. QED BY <1>6

(* Induction up to n, for a property given as the set of numbers that have it. *)
LEMMA UpTo ==
  ASSUME NEW n \in Nat, NEW S, 0 \in S,
         \A i \in 0 .. n - 1 : i \in S => i + 1 \in S
  PROVE  \A i \in 0 .. n : i \in S
<1> DEFINE T == {i \in 0 .. n : i \notin S}
<1>1. SUFFICES ASSUME T # {} PROVE FALSE
  OBVIOUS
<1>2. PICK i \in T : \A m \in T : i <= m
  <2>1. T \subseteq Nat
    OBVIOUS
  <2> HIDE DEF T
  <2> QED  BY <1>1, <2>1, LeastNat
<1>3. i # 0 /\ i \in 1 .. n
  OBVIOUS
<1>4. i - 1 \in 0 .. n - 1 /\ i - 1 \in S
  BY <1>2, <1>3
<1>5. (i - 1) + 1 \in S
  BY <1>4
<1> QED BY <1>3, <1>5

(* The values that a step takes from one position to the next. *)
IsTrace(g, base, step, n) ==
  g[0] = base /\ \A i \in 1 .. n : g[i] = step[<<g[i - 1], i>>]

LEMMA TraceExists ==
  ASSUME NEW T, NEW base \in T, NEW n \in Nat, NEW step \in [T \X (1 .. n) -> T]
  PROVE  \E g \in [0 .. n -> T] : IsTrace(g, base, step, n)
<1> DEFINE S == {i \in 0 .. n : \E g \in [0 .. i -> T] : IsTrace(g, base, step, i)}
<1>1. 0 \in S
  <2>1. [k \in 0 .. 0 |-> base] \in [0 .. 0 -> T]
    OBVIOUS
  <2>2. IsTrace([k \in 0 .. 0 |-> base], base, step, 0)
    BY DEF IsTrace
  <2> QED
    BY <2>1, <2>2
<1>2. ASSUME NEW i \in 0 .. n - 1, i \in S PROVE i + 1 \in S
  <2>1. PICK g \in [0 .. i -> T] : IsTrace(g, base, step, i)
    BY <1>2
  <2> DEFINE h == [k \in 0 .. i + 1 |-> IF k = i + 1 THEN step[<<g[i], i + 1>>] ELSE g[k]]
  <2>2. i \in 0 .. i /\ i + 1 \in 1 .. n /\ i + 1 \in 0 .. n
    OBVIOUS
  <2>3. step[<<g[i], i + 1>>] \in T
    BY <2>1, <2>2
  <2>4. \A k \in 0 .. i + 1 : k # i + 1 => k \in 0 .. i
    OBVIOUS
  <2>5. h \in [0 .. i + 1 -> T]
    BY <2>1, <2>3, <2>4
  <2>6. \A k \in 0 .. i : h[k] = g[k]
    OBVIOUS
  <2>7. h[i + 1] = step[<<h[i], i + 1>>]
    BY <2>2, <2>6
  <2> HIDE DEF h
  <2>8. ASSUME NEW k \in 1 .. i + 1 PROVE h[k] = step[<<h[k - 1], k>>]
    <3>1. CASE k = i + 1
      <4>1. k - 1 = i
        BY <3>1
      <4> QED
        BY <2>7, <3>1, <4>1
    <3>2. CASE k # i + 1
      <4>1. k \in 1 .. i /\ k \in 0 .. i /\ k - 1 \in 0 .. i
        BY <3>2
      <4>2. g[k] = step[<<g[k - 1], k>>]
        BY <2>1, <4>1 DEF IsTrace
      <4> QED
        BY <2>6, <4>1, <4>2
    <3> QED
      BY <3>1, <3>2
  <2>9. h[0] = base
    <3>1. 0 \in 0 .. i
      OBVIOUS
    <3> QED
      BY <2>1, <2>6, <3>1 DEF IsTrace
  <2>10. IsTrace(h, base, step, i + 1)
    BY <2>8, <2>9 DEF IsTrace
  <2> QED
    BY <2>2, <2>5, <2>10
<1> HIDE DEF S
<1>3. n \in S
  <2>1. n \in 0 .. n
    OBVIOUS
  <2> QED
    BY <1>1, <1>2, <2>1, UpTo
<1> QED
  BY <1>3 DEF S

IsFlat(g, seqs) ==
  g[0] = <<>> /\ \A i \in 1 .. Len(seqs) : g[i] = g[i - 1] \o seqs[i]

FlattensBy(g, seqs) == IsFlat(g, seqs) /\ FlattenSeq(seqs) = g[Len(seqs)]

LEMMA FlattenTrace ==
  ASSUME NEW X, NEW seqs \in Seq(Seq(X))
  PROVE  \E g \in [0 .. Len(seqs) -> Seq(X)] : FlattensBy(g, seqs)
<1> DEFINE n == Len(seqs)
           step == [p \in Seq(X) \X (1 .. n) |-> p[1] \o seqs[p[2]]]
           Flat(f) == f = [i \in 1 .. n |->
                             IF i = 1 THEN seqs[i] ELSE f[i - 1] \o seqs[i]]
<1>1. n \in Nat /\ <<>> \in Seq(X) /\ step \in [Seq(X) \X (1 .. n) -> Seq(X)]
  OBVIOUS
<1>2. PICK g \in [0 .. n -> Seq(X)] : IsTrace(g, <<>>, step, n)
  <2> HIDE DEF n, step
  <2> QED  BY <1>1, TraceExists
<1>3. IsFlat(g, seqs)
  <2>1. ASSUME NEW i \in 1 .. n PROVE g[i] = g[i - 1] \o seqs[i]
    <3>1. i - 1 \in 0 .. n
      BY <1>1
    <3>2. g[i - 1] \in Seq(X) /\ g[i] = step[<<g[i - 1], i>>]
      BY <1>2, <3>1 DEF IsTrace
    <3> QED  BY <3>2
  <2> QED  BY <1>2, <2>1 DEF IsTrace, IsFlat
<1>a. \A i \in 1 .. n : seqs[i] \in Seq(X)
  OBVIOUS
<1>b. g[0] = <<>> /\ \A i \in 1 .. n : g[i] = g[i - 1] \o seqs[i]
  BY <1>3 DEF IsFlat
<1>4. CASE n = 0
  BY <1>3, <1>4 DEF FlattenSeq, FlattensBy, IsFlat
<1>5. CASE n # 0
  <2> DEFINE h == [i \in 1 .. n |-> g[i]]
  <2>0. g[1] = seqs[1]
    <3>1. 1 \in 1 .. n /\ 1 - 1 = 0
      BY <1>1, <1>5
    <3>2. g[1] = g[0] \o seqs[1] /\ seqs[1] \in Seq(X)
      BY <1>a, <1>b, <3>1
    <3>3. \A s \in Seq(X) : <<>> \o s = s
      OBVIOUS
    <3> QED  BY <1>b, <3>2, <3>3
  <2>1. Flat(h)
    <3>1. ASSUME NEW i \in 1 .. n
          PROVE  h[i] = IF i = 1 THEN seqs[i] ELSE h[i - 1] \o seqs[i]
      <4>1. g[i] = g[i - 1] \o seqs[i] /\ seqs[i] \in Seq(X)
        BY <1>a, <1>b
      <4>2. CASE i = 1
        BY <2>0, <4>2
      <4>3. CASE i # 1
        <5>1. i - 1 \in 1 .. n
          BY <1>1, <4>3
        <5> QED  BY <4>1, <4>3, <5>1
      <4> QED  BY <4>2, <4>3
    <3> QED  BY <3>1
  <2> HIDE DEF h
  <2>2. Flat(CHOOSE f : Flat(f))
    BY <2>1, Zenon
  <2>3. FlattenSeq(seqs) = (CHOOSE f : Flat(f))[n]
    BY <1>5 DEF FlattenSeq
  <2>4. PICK f : Flat(f) /\ FlattenSeq(seqs) = f[n]
    BY <2>2, <2>3
  <2> DEFINE S == {i \in 0 .. n : i # 0 => f[i] = g[i]}
  <2>5. \A i \in 0 .. n : i \in S
    <3>1. 0 \in S
      BY <1>1
    <3>2. ASSUME NEW i \in 0 .. n - 1, i \in S PROVE i + 1 \in S
      <4>0. i + 1 \in 1 .. n /\ (i + 1) - 1 = i
        BY <1>1
      <4>1. g[i + 1] = g[i] \o seqs[i + 1] /\ seqs[i + 1] \in Seq(X)
        BY <1>a, <1>b, <4>0
      <4>2. f[i + 1] = IF i + 1 = 1 THEN seqs[i + 1] ELSE f[i] \o seqs[i + 1]
        BY <2>4, <4>0
      <4>3. CASE i = 0
        BY <2>0, <4>0, <4>2, <4>3
      <4>4. CASE i # 0
        <5>1. f[i] = g[i]
          BY <3>2, <4>4
        <5>2. i + 1 # 1
          BY <4>4
        <5>3. f[i + 1] = f[i] \o seqs[i + 1]
          BY <4>2, <5>2
        <5>4. f[i + 1] = g[i + 1]
          BY <4>1, <5>1, <5>3
        <5> QED  BY <4>0, <5>4
      <4> QED  BY <4>3, <4>4
    <3> HIDE DEF S
    <3> QED  BY <1>1, <3>1, <3>2, UpTo
  <2>6. n \in S
    BY <1>1, <2>5
  <2> QED  BY <1>3, <1>5, <2>4, <2>6 DEF FlattensBy
<1> QED  BY <1>4, <1>5

SameUpTo(s, t, n) == \A i \in 1 .. n : s[i] = t[i]

SameAt(g, h, n) == g[n] = h[n]

LEMMA FlatUnique ==
  ASSUME NEW X, NEW s \in Seq(Seq(X)), NEW t \in Seq(Seq(X)),
         NEW g, IsFlat(g, s), NEW h, IsFlat(h, t),
         NEW n \in Nat, n <= Len(s), n <= Len(t), SameUpTo(s, t, n)
  PROVE  SameAt(g, h, n)
<1> DEFINE S == {i \in 0 .. n : g[i] = h[i]}
<1>1. 0 \in S
  BY DEF IsFlat
<1>2. ASSUME NEW i \in 0 .. n - 1, i \in S PROVE i + 1 \in S
  <2>1. i + 1 \in 1 .. Len(s) /\ i + 1 \in 1 .. Len(t) /\ i + 1 \in 1 .. n
        /\ (i + 1) - 1 = i
    OBVIOUS
  <2>2. g[i + 1] = g[i] \o s[i + 1] /\ h[i + 1] = h[i] \o t[i + 1]
    BY <2>1 DEF IsFlat
  <2>3. s[i + 1] = t[i + 1] /\ g[i] = h[i]
    BY <1>2, <2>1 DEF SameUpTo
  <2>4. g[i + 1] = h[i + 1]
    BY <2>2, <2>3
  <2> QED  BY <2>1, <2>4
<1> HIDE DEF S
<1>3. n \in S
  <2>1. n \in 0 .. n
    OBVIOUS
  <2> QED  BY <1>1, <1>2, <2>1, UpTo
<1> QED  BY <1>3 DEF S, SameAt

LEMMA FlattenType ==
  ASSUME NEW X, NEW seqs \in Seq(Seq(X))
  PROVE  FlattenSeq(seqs) \in Seq(X)
<1>1. PICK g \in [0 .. Len(seqs) -> Seq(X)] : FlattensBy(g, seqs)
  BY FlattenTrace
<1>2. Len(seqs) \in 0 .. Len(seqs)
  OBVIOUS
<1> QED  BY <1>1, <1>2 DEF FlattensBy

LEMMA FlattenEmpty == FlattenSeq(<<>>) = <<>>
  BY DEF FlattenSeq

(* One sequence more. *)
LEMMA FlattenAppend ==
  ASSUME NEW X, NEW s \in Seq(Seq(X)), NEW t \in Seq(Seq(X)),
         Len(t) = Len(s) + 1, \A i \in 1 .. Len(s) : s[i] = t[i]
  PROVE  FlattenSeq(t) = FlattenSeq(s) \o t[Len(t)]
<1>1. PICK g \in [0 .. Len(s) -> Seq(X)] : FlattensBy(g, s)
  BY FlattenTrace
<1>2. PICK h \in [0 .. Len(t) -> Seq(X)] : FlattensBy(h, t)
  BY FlattenTrace
<1>3. Len(s) \in Nat /\ Len(s) <= Len(s) /\ Len(s) <= Len(t)
      /\ SameUpTo(s, t, Len(s))
  BY DEF SameUpTo
<1>4. IsFlat(g, s) /\ IsFlat(h, t)
  BY <1>1, <1>2 DEF FlattensBy
<1>5. g[Len(s)] = h[Len(s)]
  <2>1. SameAt(g, h, Len(s))
    BY <1>3, <1>4, FlatUnique
  <2> QED  BY <2>1 DEF SameAt
<1>6. h[Len(t)] = h[Len(s)] \o t[Len(t)]
  <2>1. Len(t) \in 1 .. Len(t) /\ Len(t) - 1 = Len(s)
    BY <1>3
  <2> QED  BY <1>4, <2>1 DEF IsFlat
<1> QED  BY <1>1, <1>2, <1>5, <1>6 DEF FlattensBy

-----------------------------------------------------------------------------
(* What the collections name, and the tasks that can be called.            *)

(* Members of a collection are tasks that are enabled. *)
LEMMA CollectedEnabled ==
  ASSUME NEW p, NEW t \in DOMAIN Collections
  PROVE  Collected(t, p) \in Seq({u \in Checks \union Formats : Enabled(Optional[u], p)})
<1> DEFINE may == Collections[t]
           E == {u \in Checks \union Formats : Enabled(Optional[u], p)}
           F(i) == IF Enabled(Optional[may[i]], p) THEN <<may[i]>> ELSE <<>>
<1>1. may \in Seq(Checks \union Formats)
  <2>1. t \in {"check.tf", "check.sam", "check.all", "format.all"}
    BY DEF Collections
  <2>2. CASE t = "check.tf"
    BY <2>2 DEF Collections, Checks
  <2>3. CASE t = "check.sam"
    BY <2>3 DEF Collections, Checks
  <2>4. CASE t = "check.all"
    BY <2>4 DEF Collections, Checks
  <2>5. CASE t = "format.all"
    BY <2>5 DEF Collections, Formats
  <2> QED
    BY <2>1, <2>2, <2>3, <2>4, <2>5
<1> HIDE DEF may
<1>2. \A i \in 1 .. Len(may) : F(i) \in Seq(E)
  <2> SUFFICES ASSUME NEW i \in 1 .. Len(may) PROVE F(i) \in Seq(E)
    OBVIOUS
  <2>1. may[i] \in Checks \union Formats
    BY <1>1
  <2>2. CASE Enabled(Optional[may[i]], p)
    <3>1. F(i) = <<may[i]>>
      BY <2>2
    <3>2. may[i] \in E
      BY <2>1, <2>2
    <3> HIDE DEF E, F
    <3>3. \A e \in E : <<e>> \in Seq(E)
      OBVIOUS
    <3> QED
      BY <3>1, <3>2, <3>3
  <2>3. CASE ~Enabled(Optional[may[i]], p)
    <3>1. F(i) = <<>>
      BY <2>3
    <3> QED
      BY <3>1
  <2> QED
    BY <2>2, <2>3
<1>3. Len(may) \in Nat /\ DOMAIN may = 1 .. Len(may)
  BY <1>1
<1> HIDE DEF E
<1>4. [i \in 1 .. Len(may) |-> F(i)] \in Seq(Seq(E))
  BY <1>2, <1>3
<1>5. FlattenSeq([i \in 1 .. Len(may) |-> F(i)]) \in Seq(E)
  BY <1>4, FlattenType
<1> QED
  BY <1>3, <1>5 DEF Collected, may, E

LEMMA SphinxEnabled ==
  ASSUME NEW p PROVE Enabled("sphinx", p) <=> "sphinx-build" \in p
  BY DEF Enabled, Features, FromPath

LEMMA DocumentsSphinx ==
  \A t \in Documents : t \in DOMAIN Optional /\ Optional[t] = "sphinx"
  BY DEF Documents, Optional, Checks, Formats

LEMMA NamesAlwaysResolve ==
  ASSUME NEW p, NEW task \in Registered(p),
         NEW t \in Range(Pre[task]) \union
                  (IF task \in DOMAIN Collections THEN Range(Collected(task, p)) ELSE {}),
         "sphinx-build" \in p \/ t # "doc.doc"
  PROVE  t \in Registered(p)
<1>1. CASE t \in Range(Pre[task])
  <2>1. task \in Tasks
    BY DEF Registered, Tasks
  <2>2. CASE Pre[task] = <<>>
    BY <1>1, <2>2 DEF Range
  <2>3. CASE Pre[task] = <<"clean.py">>
    <3>1. t = "clean.py"
      BY <1>1, <2>3 DEF Range
    <3> QED
      BY <3>1 DEF Registered, Always
  <2>4. CASE Pre[task] = <<"doc.doc">>
    <3>1. t = "doc.doc"
      BY <1>1, <2>4 DEF Range
    <3>2. Enabled("sphinx", p)
      BY <3>1, SphinxEnabled
    <3> QED
      BY <3>1, <3>2, DocumentsSphinx DEF Registered, Documents
  <2>5. CASE task = "doc.doc" /\ Pre[task] = <<"doc.userdoc">>
    <3>1. t = "doc.userdoc"
      BY <1>1, <2>5 DEF Range
    <3>2. Enabled(Optional["doc.doc"], p)
      BY <2>5 DEF Registered, Always, Collections
    <3> QED
      BY <3>1, <3>2, DocumentsSphinx DEF Registered, Documents
  <2>6. \/ Pre[task] = <<>> \/ Pre[task] = <<"clean.py">> \/ Pre[task] = <<"doc.doc">>
        \/ task = "doc.doc" /\ Pre[task] = <<"doc.userdoc">>
    BY <2>1 DEF Pre
  <2> QED
    BY <2>2, <2>3, <2>4, <2>5, <2>6
<1>2. CASE task \in DOMAIN Collections /\ t \in Range(Collected(task, p))
  <2> DEFINE E == {u \in Checks \union Formats : Enabled(Optional[u], p)}
  <2>1. PICK s \in Seq(E) : s = Collected(task, p)
    BY <1>2, CollectedEnabled
  <2>2. \A i \in DOMAIN s : s[i] \in E
    BY <2>1
  <2>3. t \in E
    BY <1>2, <2>1, <2>2 DEF Range
  <2> QED
    BY <2>3 DEF Registered, Optional
<1> QED
  BY <1>1, <1>2

(* Whatever programs are installed, every task that exists names only tasks*)
(* that exist, before it or as its members, unless it needs the documents  *)
(* and there is no sphinx-build.                                           *)
THEOREM NamesResolveCorrect == Spec => []NamesResolve
<1>1. NamesResolve
  <2> SUFFICES ASSUME NEW task \in Registered(programs),
                      NEW named, named = Range(Pre[task]) \union
                        (IF task \in DOMAIN Collections
                         THEN Range(Collected(task, programs)) ELSE {}),
                      "sphinx-build" \in programs \/ "doc.doc" \notin named,
                      NEW t \in named
               PROVE  t \in Registered(programs)
    BY Zenon DEF NamesResolve
  <2> QED
    BY NamesAlwaysResolve
<1> QED
  BY <1>1, PTL

-----------------------------------------------------------------------------
(* Sequences that are mapped, flattened and searched.                      *)

LEMMA SameSeq ==
  ASSUME NEW X, NEW s \in Seq(X), NEW t \in Seq(X), Len(s) = Len(t),
         \A i \in 1 .. Len(s) : s[i] = t[i]
  PROVE  s = t
  OBVIOUS

(* Sequences that are written out. *)
LEMMA AppendTwo ==
  ASSUME NEW X, NEW a \in X, NEW b \in X
  PROVE  Append(<<a>>, b) = <<a, b>>
<1>1. PICK s \in Seq(X) : s = <<a>> /\ Len(s) = 1 /\ s[1] = a
  <2>1. <<a>> \in Seq(X) /\ Len(<<a>>) = 1 /\ <<a>>[1] = a
    OBVIOUS
  <2> QED
    BY <2>1
<1>2. PICK t \in Seq(X) : t = <<a, b>> /\ Len(t) = 2 /\ t[1] = a /\ t[2] = b
  <2>1. /\ <<a, b>> \in Seq(X) /\ Len(<<a, b>>) = 2
        /\ <<a, b>>[1] = a /\ <<a, b>>[2] = b
    OBVIOUS
  <2> QED
    BY <2>1
<1>3. Append(s, b) \in Seq(X) /\ Len(Append(s, b)) = 2
      /\ Append(s, b)[1] = a /\ Append(s, b)[2] = b
  BY <1>1
<1>4. \A i \in 1 .. 2 : i = 1 \/ i = 2
  OBVIOUS
<1>5. Append(s, b) = t
  BY <1>2, <1>3, <1>4, SameSeq
<1> QED
  BY <1>1, <1>2, <1>5

LEMMA AppendThree ==
  ASSUME NEW X, NEW a \in X, NEW b \in X, NEW c \in X
  PROVE  Append(<<a, b>>, c) = <<a, b, c>>
<1>1. PICK s \in Seq(X) : s = <<a, b>> /\ Len(s) = 2 /\ s[1] = a /\ s[2] = b
  <2>1. /\ <<a, b>> \in Seq(X) /\ Len(<<a, b>>) = 2
        /\ <<a, b>>[1] = a /\ <<a, b>>[2] = b
    OBVIOUS
  <2> QED
    BY <2>1
<1>2. PICK t \in Seq(X) : t = <<a, b, c>> /\ Len(t) = 3 /\ t[1] = a /\ t[2] = b /\ t[3] = c
  <2>1. /\ <<a, b, c>> \in Seq(X) /\ Len(<<a, b, c>>) = 3
        /\ <<a, b, c>>[1] = a /\ <<a, b, c>>[2] = b /\ <<a, b, c>>[3] = c
    OBVIOUS
  <2> QED
    BY <2>1
<1>3. Append(s, c) \in Seq(X) /\ Len(Append(s, c)) = 3
      /\ Append(s, c)[1] = a /\ Append(s, c)[2] = b /\ Append(s, c)[3] = c
  BY <1>1
<1>4. \A i \in 1 .. 3 : i = 1 \/ i = 2 \/ i = 3
  OBVIOUS
<1>5. Append(s, c) = t
  BY <1>2, <1>3, <1>4, SameSeq
<1> QED
  BY <1>1, <1>2, <1>5

LEMMA ConcatOne ==
  ASSUME NEW X, NEW s \in Seq(X), NEW a \in X
  PROVE  s \o <<a>> = Append(s, a)
  OBVIOUS

LEMMA FlattenOne ==
  ASSUME NEW X, NEW s \in Seq(X)
  PROVE  FlattenSeq(<<s>>) = s
<1>1. <<>> \in Seq(Seq(X)) /\ <<s>> \in Seq(Seq(X)) /\ Len(<<s>>) = 1 /\ Len(<<>>) = 0
  OBVIOUS
<1>2. FlattenSeq(<<s>>) = FlattenSeq(<<>>) \o <<s>>[1]
  <2>1. \A i \in 1 .. Len(<<>>) : <<>>[i] = <<s>>[i]
    OBVIOUS
  <2>2. PICK e \in Seq(Seq(X)) : e = <<>>
    BY <1>1
  <2>3. PICK t \in Seq(Seq(X)) : t = <<s>>
    BY <1>1
  <2>5. Len(t) = Len(e) + 1 /\ \A i \in 1 .. Len(e) : e[i] = t[i]
    BY <1>1, <2>2, <2>3
  <2>4. FlattenSeq(t) = FlattenSeq(e) \o t[Len(t)]
    BY <2>5, FlattenAppend
  <2> QED
    BY <1>1, <2>2, <2>3, <2>4
<1>3. <<>> \o s = s
  OBVIOUS
<1> QED
  BY <1>2, <1>3, FlattenEmpty

LEMMA FlattenTwo ==
  ASSUME NEW X, NEW s \in Seq(X), NEW t \in Seq(X)
  PROVE  FlattenSeq(<<s, t>>) = s \o t
<1>0. <<s>> \in Seq(Seq(X)) /\ <<s, t>> \in Seq(Seq(X))
  OBVIOUS
<1>1. PICK a \in Seq(Seq(X)) : a = <<s>>
  BY <1>0
<1>2. PICK b \in Seq(Seq(X)) : b = <<s, t>>
  BY <1>0
<1>3. Len(b) = Len(a) + 1 /\ b[Len(b)] = t /\ \A i \in 1 .. Len(a) : a[i] = b[i]
  BY <1>1, <1>2
<1>4. FlattenSeq(b) = FlattenSeq(a) \o b[Len(b)]
  BY <1>3, FlattenAppend
<1> QED
  BY <1>1, <1>2, <1>3, <1>4, FlattenOne

JoinsThree(s, t, u) == FlattenSeq(<<s, t, u>>) = (s \o t) \o u

LEMMA FlattenThree ==
  ASSUME NEW X, NEW s \in Seq(X), NEW t \in Seq(X), NEW u \in Seq(X)
  PROVE  JoinsThree(s, t, u)
<1>0. <<s, t>> \in Seq(Seq(X)) /\ <<s, t, u>> \in Seq(Seq(X))
  OBVIOUS
<1>1. PICK a \in Seq(Seq(X)) : a = <<s, t>>
  BY <1>0
<1>2. PICK b \in Seq(Seq(X)) : b = <<s, t, u>>
  BY <1>0
<1>3. Len(b) = Len(a) + 1 /\ b[Len(b)] = u /\ \A i \in 1 .. Len(a) : a[i] = b[i]
  BY <1>1, <1>2
<1>4. FlattenSeq(b) = FlattenSeq(a) \o b[Len(b)]
  BY <1>3, FlattenAppend
<1> QED
  BY <1>1, <1>2, <1>3, <1>4, FlattenTwo DEF JoinsThree

-----------------------------------------------------------------------------
(* Nothing is left out of a session of different tasks. *)
LEMMA OnceOne == \A t : Once(<<t>>) = <<t>>
<1> SUFFICES ASSUME NEW t PROVE Once(<<t>>) = <<t>>
  OBVIOUS
<1>1. [i \in DOMAIN <<t>> |-> IF \E j \in 1 .. i - 1 : <<t>>[j] = <<t>>[i]
                              THEN <<>> ELSE <<<<t>>[i]>>] = << <<t>> >>
  OBVIOUS
<1>2. <<t>> \in Seq({t})
  OBVIOUS
<1> QED
  BY <1>1, <1>2, FlattenOne DEF Once

LEMMA OnceTwo == \A t, u : t # u => Once(<<t, u>>) = <<t, u>>
<1> SUFFICES ASSUME NEW t, NEW u, t # u PROVE Once(<<t, u>>) = <<t, u>>
  OBVIOUS
<1> DEFINE s == <<t, u>>
<1>1. [i \in DOMAIN s |-> IF \E j \in 1 .. i - 1 : s[j] = s[i]
                          THEN <<>> ELSE <<s[i]>>] = << <<t>>, <<u>> >>
  OBVIOUS
<1>2. <<t>> \in Seq({t, u}) /\ <<u>> \in Seq({t, u}) /\ t \in {t, u} /\ u \in {t, u}
  OBVIOUS
<1>3. <<t>> \o <<u>> = <<t, u>>
  BY <1>2, ConcatOne, AppendTwo
<1> QED
  BY <1>1, <1>2, <1>3, FlattenTwo DEF Once

LEMMA OnceThree ==
  \A t, u, v : t # u /\ t # v /\ u # v => Once(<<t, u, v>>) = <<t, u, v>>
<1> SUFFICES ASSUME NEW t, NEW u, NEW v, t # u, t # v, u # v
             PROVE  Once(<<t, u, v>>) = <<t, u, v>>
  OBVIOUS
<1> DEFINE tasks == <<t, u, v>>
<1>1. [i \in DOMAIN tasks |-> IF \E j \in 1 .. i - 1 : tasks[j] = tasks[i]
                          THEN <<>> ELSE <<tasks[i]>>] = << <<t>>, <<u>>, <<v>> >>
  OBVIOUS
<1>2. /\ <<t>> \in Seq({t, u, v}) /\ <<u>> \in Seq({t, u, v})
      /\ <<v>> \in Seq({t, u, v}) /\ <<t, u>> \in Seq({t, u, v})
  OBVIOUS
<1>3. t \in {t, u, v} /\ u \in {t, u, v} /\ v \in {t, u, v}
  OBVIOUS
<1>4. <<t>> \o <<u>> = <<t, u>>
  BY <1>2, <1>3, ConcatOne, AppendTwo
<1>5. <<t, u>> \o <<v>> = <<t, u, v>>
  BY <1>2, <1>3, ConcatOne, AppendThree
<1> HIDE DEF tasks
<1>6. Once(tasks) = (<<t>> \o <<u>>) \o <<v>>
  <2>1. Once(tasks) = FlattenSeq(<< <<t>>, <<u>>, <<v>> >>)
    BY <1>1 DEF Once
  <2>2. PICK X : <<t>> \in Seq(X) /\ <<u>> \in Seq(X) /\ <<v>> \in Seq(X)
    BY <1>2
  <2>3. FlattenSeq(<< <<t>>, <<u>>, <<v>> >>) = (<<t>> \o <<u>>) \o <<v>>
    <3>1. PICK a \in Seq(X), b \in Seq(X), c \in Seq(X) : a = <<t>> /\ b = <<u>> /\ c = <<v>>
      BY <2>2
    <3>2. JoinsThree(a, b, c)
      BY FlattenThree
    <3> QED
      BY <3>1, <3>2 DEF JoinsThree
  <2> QED
    BY <2>1, <2>3
<1> QED
  BY <1>4, <1>5, <1>6 DEF tasks

(* The order in which the executor runs a task and those before it. *)
LEMMA SessionOf ==
  ASSUME NEW t \in Tasks
  PROVE  /\ Pre[t] = <<>> => Session(<<t>>) = <<t>>
         /\ Pre[t] = <<"clean.py">> => Session(<<t>>) = <<"clean.py", t>>
         /\ Pre[t] = <<"doc.userdoc">> => Session(<<t>>) = <<"doc.userdoc", t>>
         /\ Pre[t] = <<"doc.doc">> => Session(<<t>>) = <<"doc.userdoc", "doc.doc", t>>
<1> DEFINE s == <<t>>
           b(u) == Append(Pre[u], u)
<1>1. [i \in DOMAIN s |-> Append(Before(s[i]), s[i])] = <<Append(Before(t), t)>>
  OBVIOUS
<1>2. ASSUME NEW before \in Seq(Tasks), before = Before(t)
      PROVE  Session(<<t>>) = Once(Append(before, t))
  <2>1. Append(before, t) \in Seq(Tasks)
    OBVIOUS
  <2>2. FlattenSeq(<<Append(before, t)>>) = Append(before, t)
    BY <2>1, FlattenOne
  <2> QED
    BY <1>1, <1>2, <2>2 DEF Session
<1>3. /\ "doc.doc" \in Tasks /\ "doc.userdoc" \in Tasks /\ "clean.py" \in Tasks
      /\ Pre["doc.doc"] = <<"doc.userdoc">> /\ Pre["doc.userdoc"] = <<>>
      /\ Pre["clean.py"] = <<>>
  BY DEF Tasks, Pre, Always, Optional, Documents
<1>4. ASSUME Pre[t] = <<>> PROVE Session(<<t>>) = <<t>>
  <2>1. Before(t) = <<>>
    <3>1. [i \in DOMAIN Pre[t] |-> b(Pre[t][i])] = <<>>
      BY <1>4
    <3> QED
      BY <3>1, FlattenEmpty DEF Before
  <2>2. <<>> \in Seq(Tasks) /\ Append(<<>>, t) = <<t>>
    OBVIOUS
  <2> QED
    BY <1>2, <2>1, <2>2, OnceOne
<1>5. ASSUME NEW u \in Tasks, Pre[t] = <<u>>, NEW w \in Seq(Tasks), w = b(u)
      PROVE  Before(t) = w
  <2>1. [i \in DOMAIN Pre[t] |-> b(Pre[t][i])] = <<w>>
    BY <1>5
  <2> QED
    BY <2>1, FlattenOne DEF Before
<1>6. ASSUME NEW u \in Tasks, Pre[t] = <<u>>, Pre[u] = <<>>
      PROVE  Session(<<t>>) = <<u, t>>
  <2>1. b(u) = <<u>> /\ <<u>> \in Seq(Tasks)
    BY <1>6
  <2>2. Before(t) = <<u>>
    BY <1>5, <1>6, <2>1
  <2>3. Append(<<u>>, t) = <<u, t>>
    BY AppendTwo
  <2>4. u # t
    BY <1>6
  <2> QED
    BY <1>2, <2>1, <2>2, <2>3, <2>4, OnceTwo
<1>7. ASSUME Pre[t] = <<"doc.doc">>
      PROVE  Session(<<t>>) = <<"doc.userdoc", "doc.doc", t>>
  <2> DEFINE w == <<"doc.userdoc", "doc.doc">>
  <2>1. b("doc.doc") = w /\ w \in Seq(Tasks)
    <3>1. b("doc.doc") = Append(<<"doc.userdoc">>, "doc.doc")
      BY <1>3
    <3>2. Append(<<"doc.userdoc">>, "doc.doc") = w
      BY <1>3, AppendTwo
    <3>3. w \in Seq(Tasks)
      BY <1>3
    <3> QED
      BY <3>1, <3>2, <3>3
  <2>2. Before(t) = w
    BY <1>3, <1>5, <1>7, <2>1
  <2>3. Append(w, t) = <<"doc.userdoc", "doc.doc", t>>
    BY <1>3, AppendThree
  <2>4. t # "doc.doc" /\ t # "doc.userdoc"
    BY <1>3, <1>7
  <2> QED
    BY <1>2, <2>1, <2>2, <2>3, <2>4, OnceThree
<1> QED
  BY <1>3, <1>4, <1>6, <1>7

-----------------------------------------------------------------------------
(* Joined sequences.                                                       *)

ConcatIs(s, t, u) ==
  /\ Len(u) = Len(s) + Len(t)
  /\ \A i \in 1 .. Len(s) : u[i] = s[i]
  /\ \A i \in 1 .. Len(t) : u[Len(s) + i] = t[i]

LEMMA ConcatAt ==
  ASSUME NEW X, NEW s \in Seq(X), NEW t \in Seq(X)
  PROVE  s \o t \in Seq(X) /\ ConcatIs(s, t, s \o t)
  BY DEF ConcatIs

LEMMA ConcatSame ==
  ASSUME NEW X, NEW s \in Seq(X), NEW t \in Seq(X), NEW u \in Seq(X), ConcatIs(s, t, u)
  PROVE  s \o t = u
<1>1. PICK v \in Seq(X) : v = s \o t /\ ConcatIs(s, t, v)
  BY ConcatAt
<1>2. Len(v) = Len(u) /\ Len(u) = Len(s) + Len(t) /\ Len(s) \in Nat /\ Len(t) \in Nat
  BY <1>1 DEF ConcatIs
<1>3. ASSUME NEW i \in 1 .. Len(v) PROVE v[i] = u[i]
  <2>1. CASE i \in 1 .. Len(s)
    BY <1>1, <2>1 DEF ConcatIs
  <2>2. CASE i \notin 1 .. Len(s)
    <3>1. PICK j \in 1 .. Len(t) : i = Len(s) + j
      <4>1. i - Len(s) \in 1 .. Len(t) /\ i = Len(s) + (i - Len(s))
        BY <1>2, <2>2
      <4> QED  BY <4>1
    <3> QED
      BY <1>1, <3>1 DEF ConcatIs
  <2> QED  BY <2>1, <2>2
<1> QED  BY <1>1, <1>2, <1>3, SameSeq

(* What a step may be called.                                              *)
Ops == {"run", "sphinx", "committed", "conf", "page", "changes", "tag", "wipe", "sdist",
        "source", "gz", "bz2", "xz", "untar", "digest", "sign", "changelog", "emulate",
        "newwheels", "upload", "uploadwheels", "clean"}

LEMMA DoOps ==
  ASSUME NEW s \in Seq(Ops)
  PROVE  /\ Do(s) \in Seq({[op |-> o] : o \in Ops})
         /\ Len(Do(s)) = Len(s) /\ DOMAIN Do(s) = 1 .. Len(s)
         /\ \A i \in 1 .. Len(s) : Do(s)[i] = [op |-> s[i]]
  BY DEF Do

LEMMA DoConcat ==
  ASSUME NEW s \in Seq(Ops), NEW t \in Seq(Ops), NEW u \in Seq(Ops),
         ConcatIs(s, t, u)
  PROVE  Do(s) \o Do(t) = Do(u)
<1> DEFINE X == {[op |-> o] : o \in Ops}
<1>1. PICK a \in Seq(X), b \in Seq(X), c \in Seq(X) :
        a = Do(s) /\ b = Do(t) /\ c = Do(u)
  <2> HIDE DEF X
  <2> QED
    BY DoOps DEF X
<1>2. /\ Len(a) = Len(s) /\ \A i \in 1 .. Len(s) : a[i] = [op |-> s[i]]
  BY <1>1, DoOps
<1>3. /\ Len(b) = Len(t) /\ \A i \in 1 .. Len(t) : b[i] = [op |-> t[i]]
  BY <1>1, DoOps
<1>4. /\ Len(c) = Len(u) /\ \A i \in 1 .. Len(u) : c[i] = [op |-> u[i]]
  BY <1>1, DoOps
<1> HIDE DEF X
<1>5. ConcatIs(a, b, c)
  <2>1. Len(c) = Len(a) + Len(b)
    BY <1>2, <1>3, <1>4 DEF ConcatIs
  <2>2. ASSUME NEW i \in 1 .. Len(a) PROVE c[i] = a[i]
    <3>1. u[i] = s[i] /\ i \in 1 .. Len(u)
      BY <1>2, <1>3, <1>4, <2>1 DEF ConcatIs
    <3> QED  BY <1>2, <1>4, <3>1
  <2>3. ASSUME NEW i \in 1 .. Len(b) PROVE c[Len(a) + i] = b[i]
    <3>1. u[Len(s) + i] = t[i] /\ Len(s) + i \in 1 .. Len(u)
      BY <1>2, <1>3, <1>4, <2>1 DEF ConcatIs
    <3> QED  BY <1>2, <1>3, <1>4, <3>1
  <2> QED  BY <2>1, <2>2, <2>3 DEF ConcatIs
<1> QED
  BY <1>1, <1>5, ConcatSame

(* Sequences that are written out, by what they hold. *)
LEMMA VersionIs ==
  /\ VersionSteps \in Seq(Ops) /\ Len(VersionSteps) = 3
  /\ VersionSteps[1] = "conf" /\ VersionSteps[2] = "page" /\ VersionSteps[3] = "changes"
  BY DEF VersionSteps, Ops

DistHolds(s, k) ==
  /\ s[k + 1] = "wipe" /\ s[k + 2] = "sdist" /\ s[k + 3] = "gz" /\ s[k + 4] = "bz2"
  /\ s[k + 5] = "xz" /\ s[k + 6] = "untar" /\ s[k + 7] = "digest" /\ s[k + 8] = "sign"
  /\ s[k + 9] = "changelog"

LEMMA DistIs ==
  DistSteps \in Seq(Ops) /\ Len(DistSteps) = 9 /\ DistHolds(DistSteps, 0)
  BY DEF DistSteps, DistHolds, Ops

LEMMA ReleaseIs ==
  /\ ReleaseSteps \in Seq(Ops) /\ Len(ReleaseSteps) = 14
  /\ ReleaseSteps[1] = "committed" /\ ReleaseSteps[2] = "conf"
  /\ ReleaseSteps[3] = "page" /\ ReleaseSteps[4] = "changes"
  /\ ReleaseSteps[5] = "tag" /\ DistHolds(ReleaseSteps, 5)
<1>1. PICK a \in Seq(Ops) : a = <<"committed">> /\ Len(a) = 1 /\ a[1] = "committed"
  <2>1. <<"committed">> \in Seq(Ops) /\ Len(<<"committed">>) = 1
        /\ <<"committed">>[1] = "committed"
    BY DEF Ops
  <2> QED  BY <2>1
<1>2. PICK b \in Seq(Ops) : b = a \o VersionSteps /\ ConcatIs(a, VersionSteps, b)
  BY VersionIs, ConcatAt
<1>3. /\ Len(b) = 4 /\ b[1] = "committed" /\ b[2] = "conf" /\ b[3] = "page"
      /\ b[4] = "changes"
  BY <1>1, <1>2, VersionIs DEF ConcatIs
<1>4. PICK c \in Seq(Ops) : c = <<"tag">> /\ Len(c) = 1 /\ c[1] = "tag"
  <2>1. <<"tag">> \in Seq(Ops) /\ Len(<<"tag">>) = 1 /\ <<"tag">>[1] = "tag"
    BY DEF Ops
  <2> QED  BY <2>1
<1>5. PICK d \in Seq(Ops) : d = b \o c /\ ConcatIs(b, c, d)
  BY ConcatAt
<1>6. /\ Len(d) = 5 /\ d[1] = "committed" /\ d[2] = "conf" /\ d[3] = "page"
      /\ d[4] = "changes" /\ d[5] = "tag"
  BY <1>3, <1>4, <1>5 DEF ConcatIs
<1>7. PICK e \in Seq(Ops) : e = d \o DistSteps /\ ConcatIs(d, DistSteps, e)
  BY DistIs, ConcatAt
<1>8. /\ Len(e) = 14 /\ e[1] = "committed" /\ e[2] = "conf" /\ e[3] = "page"
      /\ e[4] = "changes" /\ e[5] = "tag"
  <2>1. /\ Len(e) = Len(d) + Len(DistSteps)
        /\ \A i \in 1 .. Len(d) : e[i] = d[i]
    BY <1>7 DEF ConcatIs
  <2>2. Len(d) = 5 /\ Len(DistSteps) = 9
    BY <1>6, DistIs
  <2>3. /\ Len(e) = 14 /\ e[1] = d[1] /\ e[2] = d[2] /\ e[3] = d[3]
        /\ e[4] = d[4] /\ e[5] = d[5]
    BY <2>1, <2>2
  <2> QED  BY <1>6, <2>3
<1>9. DistHolds(e, 5)
  <2>0. Len(d) = 5 /\ Len(DistSteps) = 9
    BY <1>6, DistIs
  <2>1. \A i \in 1 .. 9 : e[5 + i] = DistSteps[i]
    BY <1>7, <2>0 DEF ConcatIs
  <2> QED  BY <2>1, DistIs DEF DistHolds
<1>10. ReleaseSteps = e
  BY <1>1, <1>2, <1>4, <1>5, <1>7 DEF ReleaseSteps
<1> QED  BY <1>8, <1>9, <1>10

-----------------------------------------------------------------------------
(* What a task is made of.                                                 *)
Archiving == {"build.source", "build.dist", "build.release"}

(* The steps of a task: its own, after those of the documentation.         *)
PlanOf(t, q) ==
  \/ t \notin Archiving \union {"doc.doc"} /\ t \notin DOMAIN Collections /\ q = Body[t]
  \/ t \in Archiving \union {"doc.doc"} /\ ConcatIs(<<"run", "sphinx">>, Body[t], q)
  \/ t \in DOMAIN Collections /\ \A i \in 1 .. Len(q) : q[i] = "run"

LEMMA BodyTyped ==
  ASSUME NEW t \in Tasks
  PROVE  Body[t] \in Seq(Ops)
<1>1. Body[t] \in {VersionSteps, DistSteps, ReleaseSteps, <<"source">>,
        <<"emulate", "newwheels">>, <<"upload">>, <<"uploadwheels">>,
        <<"run", "sphinx">>, <<"clean">>, <<>>, <<"run">>}
  BY DEF Body
<1>2. /\ <<"source">> \in Seq(Ops) /\ <<"emulate", "newwheels">> \in Seq(Ops)
      /\ <<"upload">> \in Seq(Ops) /\ <<"uploadwheels">> \in Seq(Ops)
      /\ <<"run", "sphinx">> \in Seq(Ops) /\ <<"clean">> \in Seq(Ops)
      /\ <<>> \in Seq(Ops) /\ <<"run">> \in Seq(Ops)
  BY DEF Ops
<1> QED  BY <1>1, <1>2, VersionIs, DistIs, ReleaseIs

Acts == {[op |-> o] : o \in Ops}

LEMMA DoTyped ==
  ASSUME NEW t \in Tasks
  PROVE  Do(Body[t]) \in Seq(Acts)
  BY BodyTyped, DoOps DEF Acts

(* Tasks that no other task is made of. *)
LEMMA SimpleSteps ==
  ASSUME NEW t \in Tasks \ DOMAIN Collections, NEW p
  PROVE  StepsOf(t, p) = Do(Body[t])
  BY DEF StepsOf

LEMMA PreIs ==
  ASSUME NEW t \in Tasks
  PROVE  \/ t \in Archiving /\ Pre[t] = <<"doc.doc">>
         \/ t = "doc.doc" /\ Pre[t] = <<"doc.userdoc">>
         \/ t \notin Archiving \union {"doc.doc"} /\ Pre[t] = <<"clean.py">>
         \/ t \notin Archiving \union {"doc.doc"} /\ Pre[t] = <<>>
  BY DEF Pre, Archiving

LEMMA TasksKnown ==
  /\ "doc.doc" \in Tasks /\ "doc.userdoc" \in Tasks /\ "clean.py" \in Tasks
  /\ "doc.doc" \notin DOMAIN Collections /\ "doc.userdoc" \notin DOMAIN Collections
  /\ "clean.py" \notin DOMAIN Collections
  /\ Body["doc.doc"] = <<>> /\ Body["clean.py"] = <<>>
  /\ Body["doc.userdoc"] = <<"run", "sphinx">>
  /\ \A t \in Archiving \union {"doc.doc"} : t \in Tasks /\ t \notin DOMAIN Collections
<1>1. /\ "doc.doc" \in Tasks /\ "doc.userdoc" \in Tasks /\ "clean.py" \in Tasks
      /\ \A t \in Archiving \union {"doc.doc"} : t \in Tasks
  BY DEF Tasks, Always, Optional, Documents, Archiving
<1>2. DOMAIN Collections = {"check.tf", "check.sam", "check.all", "format.all"}
  BY DEF Collections
<1>3. /\ Body["doc.doc"] = <<>> /\ Body["clean.py"] = <<>>
      /\ Body["doc.userdoc"] = <<"run", "sphinx">>
  BY <1>1 DEF Body
<1> QED  BY <1>1, <1>2, <1>3 DEF Archiving

StepsPlanned(t, s) == \E q \in Seq(Ops) : s = Do(q) /\ PlanOf(t, q)

(* A task that collects nothing. *)
LEMMA PlainSteps ==
  ASSUME NEW p \in Installations, NEW t \in Tasks \ DOMAIN Collections
  PROVE  StepsPlanned(t, Steps[p][t])
<1> DEFINE Of1(s) == FlattenSeq([i \in DOMAIN s |-> StepsOf(s[i], p)])
<1>0. Steps[p][t] = Of1(Session(<<t>>))
  BY DEF Steps
<1> HIDE DEF Of1
<1>1. PICK a \in Seq(Acts), q \in Seq(Ops) :
        a = Do(q) /\ q = Body[t] /\ a = StepsOf(t, p)
  BY BodyTyped, DoTyped, SimpleSteps
<1>2. <<>> \in Seq(Acts) /\ Do(<<>>) = <<>>
  BY DEF Do
<1>3. CASE Pre[t] = <<>>
  <2>1. Session(<<t>>) = <<t>>
    BY <1>3, SessionOf
  <2>2. [i \in DOMAIN <<t>> |-> StepsOf(<<t>>[i], p)] = <<a>>
    BY <1>1
  <2>3. Of1(<<t>>) = a
    BY <2>2, FlattenOne DEF Of1
  <2>4. t \notin Archiving \union {"doc.doc"}
    <3>1. <<>> # <<"doc.doc">>
      OBVIOUS
    <3>2. <<>> # <<"doc.userdoc">>
      OBVIOUS
    <3>3. Pre[t] # <<"doc.doc">> /\ Pre[t] # <<"doc.userdoc">>
      BY <1>3, <3>1, <3>2
    <3> QED  BY <3>3, PreIs
  <2> QED
    BY <1>0, <1>1, <2>1, <2>3, <2>4 DEF StepsPlanned, PlanOf
<1>4. CASE Pre[t] = <<"clean.py">>
  <2>1. Session(<<t>>) = <<"clean.py", t>>
    BY <1>4, SessionOf
  <2>2. StepsOf("clean.py", p) = <<>>
    BY <1>2, SimpleSteps, TasksKnown
  <2>3. [i \in DOMAIN <<"clean.py", t>> |-> StepsOf(<<"clean.py", t>>[i], p)] = <<<<>>, a>>
    BY <1>1, <2>2
  <2>4. Of1(<<"clean.py", t>>) = <<>> \o a
    BY <1>2, <2>3, FlattenTwo DEF Of1
  <2>5. <<>> \o a = a
    OBVIOUS
  <2>6. t \notin Archiving \union {"doc.doc"}
    BY <1>4, PreIs
  <2> QED
    BY <1>0, <1>1, <2>1, <2>4, <2>5, <2>6 DEF StepsPlanned, PlanOf
<1>5. PICK d \in Seq(Acts) : d = Do(<<"run", "sphinx">>)
                               /\ d = StepsOf("doc.userdoc", p)
  BY SimpleSteps, TasksKnown, DoTyped
<1>6. PICK r \in Seq(Ops) : r = <<"run", "sphinx">>
  BY BodyTyped, TasksKnown
<1>7. CASE t = "doc.doc"
  <2>1. Session(<<t>>) = <<"doc.userdoc", t>>
    BY <1>7, PreIs, SessionOf DEF Archiving
  <2>2. a = <<>> /\ q = <<>>
    BY <1>1, <1>2, <1>7, TasksKnown
  <2>3. [i \in DOMAIN <<"doc.userdoc", t>> |-> StepsOf(<<"doc.userdoc", t>>[i], p)] = <<d, a>>
    BY <1>1, <1>5
  <2>4. Of1(<<"doc.userdoc", t>>) = d \o a
    BY <2>3, FlattenTwo DEF Of1
  <2>5. d \o a = d
    BY <2>2
  <2>6. ConcatIs(r, q, r)
    BY <2>2 DEF ConcatIs
  <2>7. PlanOf(t, r)
    BY <1>1, <1>6, <1>7, <2>6 DEF PlanOf
  <2> QED
    BY <1>0, <1>5, <1>6, <2>1, <2>4, <2>5, <2>7 DEF StepsPlanned
<1>8. CASE t \in Archiving
  <2> DEFINE s == <<"doc.userdoc", "doc.doc", t>>
  <2>1. Session(<<t>>) = s
    BY <1>8, PreIs, SessionOf DEF Archiving
  <2>2. StepsOf("doc.doc", p) = <<>>
    BY <1>2, SimpleSteps, TasksKnown
  <2>3. [i \in DOMAIN s |-> StepsOf(s[i], p)] = <<d, <<>>, a>>
    BY <1>1, <1>5, <2>2
  <2>4. PICK n \in Seq(Acts) : n = <<>>
    BY <1>2
  <2>5. FlattenSeq(<<d, n, a>>) = (d \o n) \o a
    <3>1. JoinsThree(d, n, a)
      BY FlattenThree
    <3> QED  BY <3>1 DEF JoinsThree
  <2>6. d \o n = d
    BY <2>4
  <2>7. Of1(s) = d \o a
    BY <2>3, <2>4, <2>5, <2>6 DEF Of1
  <2>8. PICK u \in Seq(Ops) : ConcatIs(r, q, u)
    BY ConcatAt
  <2>9. d \o a = Do(u)
    BY <1>1, <1>5, <1>6, <2>8, DoConcat
  <2>10. PlanOf(t, u)
    BY <1>1, <1>6, <1>8, <2>8 DEF PlanOf
  <2> QED
    BY <1>0, <2>1, <2>7, <2>9, <2>10 DEF StepsPlanned
<1> QED  BY <1>3, <1>4, <1>7, <1>8, PreIs

(* The tasks that are collected, and what runs before them. *)
Members == Checks \union Formats \union {"clean.py"}

LEMMA MembersKnown ==
  ASSUME NEW t \in Members
  PROVE  /\ t \in Tasks \ DOMAIN Collections
         /\ Pre[t] \in Seq({"clean.py"})
         /\ Body[t] = <<"run">> \/ Body[t] = <<>>
<1>1. t \in Tasks
  BY DEF Members, Tasks, Optional, Always
<1>2. t \notin DOMAIN Collections
  BY DEF Members, Checks, Formats, Collections
<1>3. Pre[t] \in Seq({"clean.py"})
  <2>1. Pre[t] = <<"clean.py">> \/ Pre[t] = <<>>
    BY <1>1 DEF Pre, Members, Checks, Formats
  <2>2. <<"clean.py">> \in Seq({"clean.py"}) /\ <<>> \in Seq({"clean.py"})
    OBVIOUS
  <2> QED  BY <2>1, <2>2
<1>4. Body[t] = <<"run">> \/ Body[t] = <<>>
  BY <1>1 DEF Body, Members, Checks, Formats
<1> QED  BY <1>1, <1>2, <1>3, <1>4

LEMMA OnceTyped ==
  ASSUME NEW X, NEW s \in Seq(X)
  PROVE  Once(s) \in Seq(X)
<1> DEFINE f(i) == IF \E j \in 1 .. i - 1 : s[j] = s[i] THEN <<>> ELSE <<s[i]>>
<1>1. ASSUME NEW i \in 1 .. Len(s) PROVE f(i) \in Seq(X)
  <2>1. s[i] \in X
    OBVIOUS
  <2>2. \A x \in X : <<x>> \in Seq(X)
    OBVIOUS
  <2> QED  BY <2>1, <2>2
<1> HIDE DEF f
<1>2. [i \in 1 .. Len(s) |-> f(i)] \in Seq(Seq(X))
  BY <1>1
<1>3. FlattenSeq([i \in 1 .. Len(s) |-> f(i)]) \in Seq(X)
  BY <1>2, FlattenType
<1>4. DOMAIN s = 1 .. Len(s)
  OBVIOUS
<1> QED  BY <1>3, <1>4 DEF Once, f

-----------------------------------------------------------------------------
(* The tasks that an invocation runs, and the steps they are made of.      *)

LEMMA BeforeTyped ==
  ASSUME NEW t \in Members
  PROVE  Before(t) \in Seq(Members)
<1>1. PICK s \in Seq({"clean.py"}) : s = Pre[t]
  BY MembersKnown
<1>2. Pre["clean.py"] = <<>> /\ "clean.py" \in Members /\ <<>> \in Seq(Members)
  BY TasksKnown DEF Pre, Members
<1> DEFINE f(i) == Append(Pre[s[i]], s[i])
<1>3. ASSUME NEW i \in 1 .. Len(s) PROVE f(i) \in Seq(Members)
  <2>1. s[i] = "clean.py"
    OBVIOUS
  <2>2. f(i) = Append(<<>>, "clean.py")
    BY <1>2, <2>1
  <2>3. \A e \in Seq(Members), m \in Members : Append(e, m) \in Seq(Members)
    OBVIOUS
  <2> QED  BY <1>2, <2>2, <2>3
<1> HIDE DEF f
<1>4. [i \in 1 .. Len(s) |-> f(i)] \in Seq(Seq(Members))
  BY <1>3
<1>5. FlattenSeq([i \in 1 .. Len(s) |-> f(i)]) \in Seq(Members)
  BY <1>4, FlattenType
<1>6. DOMAIN s = 1 .. Len(s)
  OBVIOUS
<1> QED  BY <1>1, <1>5, <1>6 DEF Before, f

LEMMA SessionTyped ==
  ASSUME NEW s \in Seq(Members)
  PROVE  Session(s) \in Seq(Members)
<1> DEFINE f(i) == Append(Before(s[i]), s[i])
<1>1. ASSUME NEW i \in 1 .. Len(s) PROVE f(i) \in Seq(Members)
  <2>1. s[i] \in Members
    OBVIOUS
  <2> QED  BY <2>1, BeforeTyped
<1> HIDE DEF f
<1>2. [i \in 1 .. Len(s) |-> f(i)] \in Seq(Seq(Members))
  BY <1>1
<1>3. PICK u \in Seq(Members) : u = FlattenSeq([i \in 1 .. Len(s) |-> f(i)])
  BY <1>2, FlattenType
<1>4. Once(u) \in Seq(Members)
  BY OnceTyped
<1>5. DOMAIN s = 1 .. Len(s)
  OBVIOUS
<1> QED  BY <1>3, <1>4, <1>5 DEF Session, f

Runs == {[op |-> "run"]}

LEMMA MemberRuns ==
  ASSUME NEW t \in Members
  PROVE  Do(Body[t]) \in Seq(Runs)
<1>1. CASE Body[t] = <<"run">>
  <2>1. Do(Body[t]) = <<[op |-> "run"]>>
    BY <1>1 DEF Do
  <2> QED  BY <2>1 DEF Runs
<1>2. CASE Body[t] = <<>>
  <2>1. Do(Body[t]) = <<>>
    BY <1>2 DEF Do
  <2> QED  BY <2>1
<1> QED  BY <1>1, <1>2, MembersKnown

LEMMA CollectingRuns ==
  ASSUME NEW p, NEW t \in DOMAIN Collections
  PROVE  StepsOf(t, p) \in Seq(Runs)
<1> DEFINE E == {u \in Checks \union Formats : Enabled(Optional[u], p)}
<1>1. PICK c \in Seq(Members) : c = Collected(t, p)
  <2>1. Collected(t, p) \in Seq(E)
    BY CollectedEnabled
  <2>2. E \subseteq Members
    BY DEF Members
  <2> HIDE DEF E
  <2>3. Collected(t, p) \in Seq(Members)
    BY <2>1, <2>2
  <2> QED  BY <2>3
<1>2. PICK m \in Seq(Members) : m = Session(c)
  BY SessionTyped
<1> DEFINE f(i) == Do(Body[m[i]])
<1>3. ASSUME NEW i \in 1 .. Len(m) PROVE f(i) \in Seq(Runs)
  <2>1. m[i] \in Members
    OBVIOUS
  <2> QED  BY <2>1, MemberRuns
<1> HIDE DEF f
<1>4. [i \in 1 .. Len(m) |-> f(i)] \in Seq(Seq(Runs))
  BY <1>3
<1>5. FlattenSeq([i \in 1 .. Len(m) |-> f(i)]) \in Seq(Runs)
  BY <1>4, FlattenType
<1>6. DOMAIN m = 1 .. Len(m)
  OBVIOUS
<1>7. StepsOf(t, p) = FlattenSeq([i \in DOMAIN m |-> Do(Body[m[i]])])
  BY <1>1, <1>2 DEF StepsOf
<1> QED  BY <1>5, <1>6, <1>7 DEF f

(* Every task has the steps that are planned for it. *)
LEMMA TaskSteps ==
  ASSUME NEW p \in Installations, NEW t \in Tasks
  PROVE  StepsPlanned(t, Steps[p][t])
<1>1. CASE t \notin DOMAIN Collections
  BY <1>1, PlainSteps
<1>2. CASE t \in DOMAIN Collections
  <2>1. t \in {"check.tf", "check.sam", "check.all", "format.all"}
    BY <1>2 DEF Collections
  <2>2. Pre[t] = <<>>
    BY <2>1 DEF Pre
  <2>3. Session(<<t>>) = <<t>>
    BY <2>2, SessionOf
  <2>4. PICK s \in Seq(Runs) : s = StepsOf(t, p)
    BY <1>2, CollectingRuns
  <2>5. [i \in DOMAIN <<t>> |-> StepsOf(<<t>>[i], p)] = <<s>>
    BY <2>4
  <2>6. Steps[p][t] = s
    BY <2>3, <2>5, FlattenOne DEF Steps
  <2> DEFINE q == [i \in 1 .. Len(s) |-> "run"]
  <2>7. q \in Seq(Ops) /\ Len(q) = Len(s) /\ \A i \in 1 .. Len(q) : q[i] = "run"
    BY DEF Ops
  <2>8. s = Do(q)
    <3>1. /\ Do(q) \in Seq(Acts) /\ Len(Do(q)) = Len(q)
          /\ \A i \in 1 .. Len(q) : Do(q)[i] = [op |-> q[i]]
      <4> HIDE DEF q
      <4> QED  BY <2>7, DoOps DEF Acts
    <3>2. \A i \in 1 .. Len(s) : s[i] = [op |-> "run"]
      BY DEF Runs
    <3>3. s \in Seq(Acts)
      BY DEF Runs, Acts, Ops
    <3> HIDE DEF q
    <3> QED  BY <2>7, <3>1, <3>2, <3>3, SameSeq
  <2>9. PlanOf(t, q)
    BY <1>2, <2>7 DEF PlanOf
  <2> QED  BY <2>6, <2>7, <2>8, <2>9 DEF StepsPlanned
<1> QED  BY <1>1, <1>2

-----------------------------------------------------------------------------
(* The order of the steps that are left.                                   *)

(* A step y that is not the next one comes right after a step x.           *)
Behind(s, x, y) == \A i \in 2 .. Len(s) : s[i].op = y => s[i - 1].op = x

(* There is a step x before each y.                                        *)
Ahead(s, x, y) ==
  \A i \in 1 .. Len(s) : s[i].op = y => \E j \in 1 .. i - 1 : s[j].op = x

(* No step y comes after a step x.                                         *)
Never(s, x, y) ==
  \A i \in 1 .. Len(s) : s[i].op = x => \A j \in i + 1 .. Len(s) : s[j].op # y

Chained(s) ==
  /\ Behind(s, "conf", "page") /\ Behind(s, "page", "changes")
  /\ Behind(s, "changes", "tag")
  /\ Behind(s, "wipe", "sdist") /\ Behind(s, "sdist", "gz")
  /\ Behind(s, "gz", "bz2") /\ Behind(s, "bz2", "xz") /\ Behind(s, "xz", "untar")
  /\ Behind(s, "untar", "digest") /\ Behind(s, "digest", "sign")

Ordered(s) ==
  /\ Never(s, "conf", "sphinx") /\ Never(s, "clean", "sdist") /\ Never(s, "clean", "source")

Seconds == {"page", "changes", "tag", "sdist", "gz", "bz2", "xz", "untar", "digest", "sign"}

Started(s) ==
  /\ s # <<>> => s[1].op \notin Seconds
  /\ Ahead(s, "committed", "tag")
  /\ Ahead(s, "sphinx", "sdist") /\ Ahead(s, "sphinx", "source")

LEMMA TailOrder ==
  ASSUME NEW S, NEW s \in Seq(S), s # <<>>, NEW x, NEW y
  PROVE  /\ Behind(s, x, y) => Behind(Tail(s), x, y)
         /\ Never(s, x, y) => Never(Tail(s), x, y)
         /\ Ahead(s, x, y) => Ahead(Tail(s), x, y) \/ Head(s).op = x
         /\ Behind(s, x, y) /\ Tail(s) # <<>> /\ Head(Tail(s)).op = y => Head(s).op = x
         /\ Ahead(s, x, y) => Head(s).op # y
<1>0. Tail(s) \in Seq(S)
  OBVIOUS
<1>1. PICK t \in Seq(S) : t = Tail(s)
  BY <1>0
<1>2. Len(t) = Len(s) - 1 /\ Len(s) \in Nat \ {0}
  BY <1>1
<1>3. ASSUME NEW i \in 1 .. Len(t) PROVE t[i] = s[i + 1] /\ i + 1 \in 1 .. Len(s)
  BY <1>1, <1>2
<1>4. Head(s) = s[1]
  OBVIOUS
<1>5. ASSUME Behind(s, x, y) PROVE Behind(t, x, y)
  <2>1. ASSUME NEW i \in 2 .. Len(t), t[i].op = y PROVE t[i - 1].op = x
    <3>1. t[i] = s[i + 1] /\ i + 1 \in 2 .. Len(s)
      BY <1>2, <1>3
    <3>2. s[(i + 1) - 1].op = x
      BY <1>5, <2>1, <3>1 DEF Behind
    <3>3. i - 1 \in 1 .. Len(t) /\ (i - 1) + 1 = i /\ (i + 1) - 1 = i
      BY <1>2
    <3> QED  BY <1>3, <3>2, <3>3
  <2> QED  BY <2>1 DEF Behind
<1>6. ASSUME Never(s, x, y) PROVE Never(t, x, y)
  <2>1. ASSUME NEW i \in 1 .. Len(t), t[i].op = x, NEW j \in i + 1 .. Len(t)
        PROVE  t[j].op # y
    <3>1. t[i] = s[i + 1] /\ t[j] = s[j + 1]
      BY <1>2, <1>3
    <3>2. i + 1 \in 1 .. Len(s) /\ j + 1 \in (i + 1) + 1 .. Len(s)
      BY <1>2
    <3> QED  BY <1>6, <2>1, <3>1, <3>2 DEF Never
  <2> QED  BY <2>1 DEF Never
<1>7. ASSUME Ahead(s, x, y), Head(s).op # x PROVE Ahead(t, x, y)
  <2>1. ASSUME NEW i \in 1 .. Len(t), t[i].op = y
        PROVE  \E j \in 1 .. i - 1 : t[j].op = x
    <3>1. t[i] = s[i + 1] /\ i + 1 \in 1 .. Len(s)
      BY <1>3
    <3>2. PICK j \in 1 .. (i + 1) - 1 : s[j].op = x
      BY <1>7, <2>1, <3>1 DEF Ahead
    <3>3. j # 1
      BY <1>4, <1>7, <3>2
    <3>4. j - 1 \in 1 .. i - 1 /\ j - 1 \in 1 .. Len(t) /\ (j - 1) + 1 = j
      BY <1>2, <3>3
    <3> QED  BY <1>3, <3>2, <3>4
  <2> QED  BY <2>1 DEF Ahead
<1>8. ASSUME Behind(s, x, y), t # <<>>, Head(t).op = y PROVE Head(s).op = x
  <2>1. 1 \in 1 .. Len(t) /\ Head(t) = t[1]
    BY <1>8
  <2>2. t[1] = s[2] /\ 2 \in 2 .. Len(s) /\ 2 - 1 = 1
    BY <1>2, <1>3, <2>1
  <2> QED  BY <1>4, <1>8, <2>1, <2>2 DEF Behind
<1>9. ASSUME Ahead(s, x, y) PROVE Head(s).op # y
  <2>1. 1 \in 1 .. Len(s) /\ \A j \in 1 .. 1 - 1 : FALSE
    BY <1>2
  <2> QED  BY <1>4, <1>9, <2>1 DEF Ahead
<1> QED  BY <1>1, <1>5, <1>6, <1>7, <1>8, <1>9

LEMMA TailChained ==
  ASSUME NEW S, NEW s \in Seq(S), s # <<>>
  PROVE  /\ Chained(s) => Chained(Tail(s))
         /\ Ordered(s) => Ordered(Tail(s))
<1>1. \A x, y : /\ Behind(s, x, y) => Behind(Tail(s), x, y)
                /\ Never(s, x, y) => Never(Tail(s), x, y)
  BY TailOrder
<1> QED  BY <1>1 DEF Chained, Ordered

-----------------------------------------------------------------------------
(* The same of the names of the steps. *)
PlannedOrder(q) ==
  /\ \A i \in 2 .. Len(q) :
       /\ q[i] = "page" => q[i - 1] = "conf"
       /\ q[i] = "changes" => q[i - 1] = "page"
       /\ q[i] = "tag" => q[i - 1] = "changes"
       /\ q[i] = "sdist" => q[i - 1] = "wipe"
       /\ q[i] = "gz" => q[i - 1] = "sdist"
       /\ q[i] = "bz2" => q[i - 1] = "gz"
       /\ q[i] = "xz" => q[i - 1] = "bz2"
       /\ q[i] = "untar" => q[i - 1] = "xz"
       /\ q[i] = "digest" => q[i - 1] = "untar"
       /\ q[i] = "sign" => q[i - 1] = "digest"
  /\ Len(q) > 0 => q[1] \notin Seconds
  /\ \A i \in 1 .. Len(q) :
       /\ q[i] = "sphinx" => i = 2 /\ q[1] = "run"
       /\ q[i] \in {"sdist", "source"} => i > 2 /\ q[2] = "sphinx"
       /\ q[i] = "tag" => \E j \in 1 .. i - 1 : q[j] = "committed"
       /\ q[i] = "clean" => Len(q) = 1

LEMMA OrderOf ==
  ASSUME NEW q \in Seq(Ops), PlannedOrder(q)
  PROVE  Chained(Do(q)) /\ Ordered(Do(q)) /\ Started(Do(q))
<1>1. PICK s \in Seq(Acts) :
        s = Do(q) /\ Len(s) = Len(q) /\ \A i \in 1 .. Len(q) : s[i] = [op |-> q[i]]
  BY DoOps DEF Acts
<1>2. \A i \in 1 .. Len(s) : s[i].op = q[i]
  <2>1. SUFFICES ASSUME NEW i \in 1 .. Len(s) PROVE s[i].op = q[i]
    OBVIOUS
  <2>2. s[i] = [op |-> q[i]]
    BY <1>1
  <2> QED  BY <2>2
<1>3. Len(q) \in Nat /\ Len(s) = Len(q) /\ \A i \in 2 .. Len(q) : i \in 1 .. Len(q) /\ i - 1 \in 1 .. Len(q)
  BY <1>1
<1>4. Chained(s)
  BY <1>2, <1>3 DEF Chained, Behind, PlannedOrder
<1>5. Never(s, "conf", "sphinx")
  <2>1. SUFFICES ASSUME NEW i \in 1 .. Len(s), s[i].op = "conf", NEW j \in i + 1 .. Len(s),
                        s[j].op = "sphinx"
                 PROVE  FALSE
    BY DEF Never
  <2>2. q[j] = "sphinx" /\ j \in 1 .. Len(q) /\ q[i] = "conf"
    BY <1>2, <1>3, <2>1
  <2>3. j = 2 /\ q[1] = "run"
    BY <2>2 DEF PlannedOrder
  <2> QED  BY <2>2, <2>3
<1>6. ASSUME NEW y PROVE Never(s, "clean", y)
  <2>1. ASSUME NEW i \in 1 .. Len(s), s[i].op = "clean", NEW j \in i + 1 .. Len(s)
        PROVE  FALSE
    <3>1. q[i] = "clean"
      BY <1>2, <2>1
    <3>2. Len(q) = 1
      BY <1>3, <3>1 DEF PlannedOrder
    <3> QED  BY <1>3, <3>2
  <2> QED  BY <2>1 DEF Never
<1>7. s # <<>> => s[1].op \notin Seconds
  <2>1. s # <<>> => Len(s) > 0 /\ 1 \in 1 .. Len(s)
    OBVIOUS
  <2> QED  BY <1>2, <1>3, <2>1 DEF PlannedOrder
<1>8. Ahead(s, "committed", "tag")
  <2>1. SUFFICES ASSUME NEW i \in 1 .. Len(s), s[i].op = "tag"
                 PROVE  \E j \in 1 .. i - 1 : s[j].op = "committed"
    BY DEF Ahead
  <2>2. PICK j \in 1 .. i - 1 : q[j] = "committed"
    BY <1>2, <1>3, <2>1 DEF PlannedOrder
  <2>3. j \in 1 .. Len(s)
    OBVIOUS
  <2> QED  BY <1>2, <2>2, <2>3
<1>9. ASSUME NEW y \in {"sdist", "source"} PROVE Ahead(s, "sphinx", y)
  <2>1. SUFFICES ASSUME NEW i \in 1 .. Len(s), s[i].op = y
                 PROVE  \E j \in 1 .. i - 1 : s[j].op = "sphinx"
    BY DEF Ahead
  <2>2. i > 2 /\ q[2] = "sphinx"
    BY <1>2, <1>3, <2>1 DEF PlannedOrder
  <2>3. 2 \in 1 .. i - 1 /\ 2 \in 1 .. Len(s)
    BY <2>2
  <2> QED  BY <1>2, <2>2, <2>3
<1> QED  BY <1>1, <1>4, <1>5, <1>6, <1>7, <1>8, <1>9 DEF Ordered, Started

-----------------------------------------------------------------------------
(* The order within each task, and in the tasks one after another.         *)

(* The bodies of the tasks, by what they hold. *)
LEMMA BodyIs ==
  ASSUME NEW t \in Tasks \ DOMAIN Collections
  PROVE  \/ t = "build.version" /\ Body[t] = VersionSteps
         \/ t = "build.dist" /\ Body[t] = DistSteps
         \/ t = "build.release" /\ Body[t] = ReleaseSteps
         \/ t = "build.source" /\ Body[t] = <<"source">>
         \/ t = "build.wheels" /\ Body[t] = <<"emulate", "newwheels">>
         \/ t = "upload.source" /\ Body[t] = <<"upload">>
         \/ t = "upload.wheels" /\ Body[t] = <<"uploadwheels">>
         \/ t = "doc.userdoc" /\ Body[t] = <<"run", "sphinx">>
         \/ t \in {"clean.clean", "clean.dist"} /\ Body[t] = <<"clean">>
         \/ t \notin Archiving /\ Body[t] = <<>>
         \/ t \notin Archiving /\ Body[t] = <<"run">>
  BY DEF Body, Archiving

LEMMA PlanShort ==
  ASSUME NEW q \in Seq(Ops),
         \/ q = <<"upload">> \/ q = <<"uploadwheels">> \/ q = <<"emulate", "newwheels">>
         \/ q = <<"run", "sphinx">> \/ q = <<"clean">> \/ q = <<>> \/ q = <<"run">>
  PROVE  PlannedOrder(q)
<1>1. CASE q = <<>>
  BY <1>1 DEF PlannedOrder
<1>2. CASE \/ q = <<"upload">> \/ q = <<"uploadwheels">>
           \/ q = <<"clean">> \/ q = <<"run">>
  <2>1. Len(q) = 1 /\ q[1] \in {"upload", "uploadwheels", "clean", "run"}
    BY <1>2
  <2>2. \A i \in 1 .. Len(q) : i = 1
    BY <2>1
  <2> QED  BY <2>1, <2>2 DEF PlannedOrder, Seconds
<1>3. CASE q = <<"emulate", "newwheels">> \/ q = <<"run", "sphinx">>
  <2>1. /\ Len(q) = 2
        /\ (q[1] = "emulate" /\ q[2] = "newwheels") \/ (q[1] = "run" /\ q[2] = "sphinx")
    BY <1>3
  <2>2. /\ \A i \in 1 .. Len(q) : i = 1 \/ i = 2
        /\ \A i \in 2 .. Len(q) : i = 2
    BY <2>1
  <2> QED  BY <2>1, <2>2 DEF PlannedOrder, Seconds
<1> QED  BY <1>1, <1>2, <1>3

LEMMA PlanVersion ==
  PlannedOrder(VersionSteps)
<1>1. PICK q \in Seq(Ops) : q = VersionSteps
  BY VersionIs
<1>2. Len(q) = 3 /\ q[1] = "conf" /\ q[2] = "page" /\ q[3] = "changes"
  BY <1>1, VersionIs
<1>3. /\ \A i \in 1 .. Len(q) : i = 1 \/ i = 2 \/ i = 3
      /\ \A i \in 2 .. Len(q) : i = 2 \/ i = 3
  BY <1>2
<1>4. PlannedOrder(q)
  BY <1>2, <1>3 DEF PlannedOrder, Seconds
<1> QED  BY <1>1, <1>4

(* The documentation comes first. *)
Documented(q, n) == Len(q) = n /\ q[1] = "run" /\ q[2] = "sphinx"

LEMMA PlanSource ==
  ASSUME NEW q \in Seq(Ops), Documented(q, 3), q[3] = "source"
  PROVE  PlannedOrder(q)
<1>3. /\ \A i \in 1 .. Len(q) : i = 1 \/ i = 2 \/ i = 3
      /\ \A i \in 2 .. Len(q) : i = 2 \/ i = 3
  BY DEF Documented
<1> QED  BY <1>3 DEF PlannedOrder, Seconds, Documented

LEMMA PlanDist ==
  ASSUME NEW q \in Seq(Ops), Documented(q, 11), DistHolds(q, 2)
  PROVE  PlannedOrder(q)
<1>1. /\ Len(q) = 11 /\ q[1] = "run" /\ q[2] = "sphinx" /\ q[3] = "wipe" /\ q[4] = "sdist"
      /\ q[5] = "gz" /\ q[6] = "bz2" /\ q[7] = "xz" /\ q[8] = "untar" /\ q[9] = "digest"
      /\ q[10] = "sign" /\ q[11] = "changelog"
  BY DEF Documented, DistHolds
<1>3. /\ \A i \in 1 .. Len(q) : \/ i = 1 \/ i = 2 \/ i = 3 \/ i = 4 \/ i = 5 \/ i = 6
                                \/ i = 7 \/ i = 8 \/ i = 9 \/ i = 10 \/ i = 11
      /\ \A i \in 2 .. Len(q) : i \in 1 .. Len(q) /\ i # 1
  BY <1>1
<1>4. ASSUME NEW i \in 1 .. Len(q)
      PROVE  /\ q[i] = "sdist" => i - 1 = 3
             /\ q[i] = "gz" => i - 1 = 4
             /\ q[i] = "bz2" => i - 1 = 5
             /\ q[i] = "xz" => i - 1 = 6
             /\ q[i] = "untar" => i - 1 = 7
  BY <1>1, <1>3
<1>5. ASSUME NEW i \in 1 .. Len(q)
      PROVE  /\ q[i] = "digest" => i - 1 = 8
             /\ q[i] = "sign" => i - 1 = 9
             /\ q[i] # "page" /\ q[i] # "changes" /\ q[i] # "tag"
  BY <1>1, <1>3
<1>6. \A i \in 2 .. Len(q) : i \in 1 .. Len(q)
  BY <1>1
<1>7. ASSUME NEW i \in 2 .. Len(q)
      PROVE  /\ q[i] = "sdist" => q[i - 1] = "wipe"
             /\ q[i] = "gz" => q[i - 1] = "sdist"
             /\ q[i] = "bz2" => q[i - 1] = "gz"
             /\ q[i] = "xz" => q[i - 1] = "bz2"
             /\ q[i] = "untar" => q[i - 1] = "xz"
  BY <1>1, <1>4, <1>6
<1>8. ASSUME NEW i \in 2 .. Len(q)
      PROVE  /\ q[i] = "page" => q[i - 1] = "conf"
             /\ q[i] = "changes" => q[i - 1] = "page"
             /\ q[i] = "tag" => q[i - 1] = "changes"
             /\ q[i] = "digest" => q[i - 1] = "untar"
             /\ q[i] = "sign" => q[i - 1] = "digest"
  BY <1>1, <1>5, <1>6
<1>9. ASSUME NEW i \in 1 .. Len(q)
      PROVE  /\ q[i] = "sphinx" => i = 2 /\ q[1] = "run"
             /\ q[i] \in {"sdist", "source"} => i > 2 /\ q[2] = "sphinx"
             /\ q[i] # "tag"
             /\ q[i] # "clean"
  BY <1>1, <1>3
<1> QED  BY <1>1, <1>7, <1>8, <1>9 DEF PlannedOrder, Seconds

LEMMA PlanRelease ==
  ASSUME NEW q \in Seq(Ops), Documented(q, 16),
         q[3] = "committed", q[4] = "conf", q[5] = "page", q[6] = "changes", q[7] = "tag",
         DistHolds(q, 7)
  PROVE  PlannedOrder(q)
<1>1. /\ Len(q) = 16 /\ q[1] = "run" /\ q[2] = "sphinx" /\ q[3] = "committed"
      /\ q[4] = "conf" /\ q[5] = "page" /\ q[6] = "changes" /\ q[7] = "tag"
      /\ q[8] = "wipe" /\ q[9] = "sdist"
      /\ q[10] = "gz" /\ q[11] = "bz2" /\ q[12] = "xz" /\ q[13] = "untar" /\ q[14] = "digest"
      /\ q[15] = "sign" /\ q[16] = "changelog"
  BY DEF Documented, DistHolds
<1>2. /\ \A i \in 1 .. Len(q) : \/ i = 1 \/ i = 2 \/ i = 3 \/ i = 4 \/ i = 5 \/ i = 6
                                \/ i = 7 \/ i = 8 \/ i = 9 \/ i = 10 \/ i = 11
                                \/ i = 12 \/ i = 13 \/ i = 14 \/ i = 15 \/ i = 16
      /\ \A i \in 2 .. Len(q) : i \in 1 .. Len(q) /\ i # 1
  BY <1>1
<1>3. ASSUME NEW i \in 1 .. Len(q)
      PROVE  /\ q[i] = "page" => i - 1 = 4
             /\ q[i] = "changes" => i - 1 = 5
             /\ q[i] = "tag" => i - 1 = 6
             /\ q[i] = "sdist" => i - 1 = 8
             /\ q[i] = "gz" => i - 1 = 9
  BY <1>1, <1>2
<1>4. ASSUME NEW i \in 1 .. Len(q)
      PROVE  /\ q[i] = "bz2" => i - 1 = 10
             /\ q[i] = "xz" => i - 1 = 11
             /\ q[i] = "untar" => i - 1 = 12
             /\ q[i] = "digest" => i - 1 = 13
             /\ q[i] = "sign" => i - 1 = 14
  BY <1>1, <1>2
<1>5. \A i \in 2 .. Len(q) : i \in 1 .. Len(q)
  BY <1>1
<1>6. ASSUME NEW i \in 2 .. Len(q)
      PROVE  /\ q[i] = "page" => q[i - 1] = "conf"
             /\ q[i] = "changes" => q[i - 1] = "page"
             /\ q[i] = "tag" => q[i - 1] = "changes"
             /\ q[i] = "sdist" => q[i - 1] = "wipe"
             /\ q[i] = "gz" => q[i - 1] = "sdist"
  BY <1>1, <1>3, <1>5
<1>7. ASSUME NEW i \in 2 .. Len(q)
      PROVE  /\ q[i] = "bz2" => q[i - 1] = "gz"
             /\ q[i] = "xz" => q[i - 1] = "bz2"
             /\ q[i] = "untar" => q[i - 1] = "xz"
             /\ q[i] = "digest" => q[i - 1] = "untar"
             /\ q[i] = "sign" => q[i - 1] = "digest"
  BY <1>1, <1>4, <1>5
<1>8. ASSUME NEW i \in 1 .. Len(q)
      PROVE  /\ q[i] = "sphinx" => i = 2 /\ q[1] = "run"
             /\ q[i] = "tag" => i = 7
             /\ q[i] # "clean"
  BY <1>1, <1>2
<1>9. ASSUME NEW i \in 1 .. Len(q), q[i] \in {"sdist", "source"}
      PROVE  i > 2 /\ q[2] = "sphinx"
  <2>1. i # 1 /\ i # 2
    BY <1>1, <1>9
  <2> QED  BY <1>1, <2>1
<1>10. 3 \in 1 .. 7 - 1
  OBVIOUS
<1> QED  BY <1>1, <1>6, <1>7, <1>8, <1>9, <1>10 DEF PlannedOrder, Seconds

LEMMA PlanOrder ==
  ASSUME NEW t \in Tasks, NEW q \in Seq(Ops), PlanOf(t, q)
  PROVE  PlannedOrder(q)
<1>1. CASE t \in DOMAIN Collections
  <2>1. t \notin Archiving \union {"doc.doc"}
    BY <1>1, TasksKnown
  <2>2. \A i \in 1 .. Len(q) : q[i] = "run"
    BY <1>1, <2>1 DEF PlanOf
  <2>3. \A i \in 2 .. Len(q) : i \in 1 .. Len(q)
    OBVIOUS
  <2>4. Len(q) > 0 => 1 \in 1 .. Len(q)
    OBVIOUS
  <2> QED  BY <2>2, <2>3, <2>4 DEF PlannedOrder, Seconds
<1>2. CASE t \notin DOMAIN Collections /\ t \notin Archiving \union {"doc.doc"}
  <2>1. q = Body[t]
    BY <1>2 DEF PlanOf
  <2>2. \/ q = VersionSteps
        \/ q = <<"upload">> \/ q = <<"uploadwheels">> \/ q = <<"emulate", "newwheels">>
        \/ q = <<"run", "sphinx">> \/ q = <<"clean">> \/ q = <<>> \/ q = <<"run">>
    BY <1>2, <2>1, BodyIs DEF Archiving
  <2> QED  BY <2>2, PlanShort, PlanVersion
<1>3. CASE t \in Archiving \union {"doc.doc"}
  <2>1. t \notin DOMAIN Collections /\ ConcatIs(<<"run", "sphinx">>, Body[t], q)
    BY <1>3, TasksKnown DEF PlanOf
  <2>2. PICK r \in Seq(Ops) : /\ r = <<"run", "sphinx">> /\ Len(r) = 2
                              /\ r[1] = "run" /\ r[2] = "sphinx"
    <3>1. /\ <<"run", "sphinx">> \in Seq(Ops) /\ Len(<<"run", "sphinx">>) = 2
          /\ <<"run", "sphinx">>[1] = "run" /\ <<"run", "sphinx">>[2] = "sphinx"
      BY DEF Ops
    <3> QED  BY <3>1
  <2>3. PICK b \in Seq(Ops) : b = Body[t]
    BY BodyTyped
  <2>4. /\ Documented(q, 2 + Len(b))
        /\ \A i \in 1 .. Len(b) : q[2 + i] = b[i]
    <3>1. ConcatIs(r, b, q)
      BY <2>1, <2>2, <2>3
    <3> QED  BY <2>2, <3>1 DEF ConcatIs, Documented
  <2>5. CASE t = "doc.doc"
    <3>1. b = <<>>
      BY <2>3, <2>5, TasksKnown
    <3>2. Len(q) = 2 /\ q[1] = "run" /\ q[2] = "sphinx"
      BY <2>4, <3>1 DEF Documented
    <3>3. \A i \in 1 .. 2 : q[i] = r[i]
      <4>1. \A i \in 1 .. 2 : i = 1 \/ i = 2
        OBVIOUS
      <4> QED  BY <2>2, <3>2, <4>1
    <3>4. q = r
      BY <2>2, <3>2, <3>3, SameSeq
    <3> QED  BY <2>2, <3>4, PlanShort
  <2>6. CASE t = "build.source"
    <3>1. b = <<"source">>
      BY <2>1, <2>3, <2>6, BodyIs DEF Archiving
    <3>2. Len(b) = 1 /\ b[1] = "source" /\ 1 \in 1 .. 1
      BY <3>1
    <3>3. Documented(q, 3) /\ q[3] = "source"
      BY <2>4, <3>2
    <3> QED  BY <3>3, PlanSource
  <2>7. CASE t = "build.dist"
    <3>1. b = DistSteps
      BY <2>1, <2>3, <2>7, BodyIs DEF Archiving
    <3>2. Documented(q, 11) /\ \A i \in 1 .. 9 : q[2 + i] = DistSteps[i]
      BY <2>4, <3>1, DistIs
    <3>3. DistHolds(q, 2)
      BY <3>2, DistIs DEF DistHolds
    <3> QED  BY <3>2, <3>3, PlanDist
  <2>8. CASE t = "build.release"
    <3>1. b = ReleaseSteps
      BY <2>1, <2>3, <2>8, BodyIs DEF Archiving
    <3>2. Documented(q, 16) /\ \A i \in 1 .. 14 : q[2 + i] = ReleaseSteps[i]
      BY <2>4, <3>1, ReleaseIs
    <3>3. DistHolds(q, 7)
      BY <3>2, ReleaseIs DEF DistHolds
    <3>4. /\ q[3] = "committed" /\ q[4] = "conf" /\ q[5] = "page"
          /\ q[6] = "changes" /\ q[7] = "tag"
      BY <3>2, ReleaseIs
    <3> QED  BY <3>2, <3>3, <3>4, PlanRelease
  <2> QED  BY <1>3, <2>5, <2>6, <2>7, <2>8 DEF Archiving
<1> QED  BY <1>1, <1>2, <1>3

(* What is invoked is in order. *)
LEMMA InvokedOrder ==
  ASSUME NEW p \in Installations, NEW t \in Tasks
  PROVE  LET s == Steps[p][t]
         IN  s \in Seq(Acts) /\ Chained(s) /\ Ordered(s) /\ Started(s)
<1>1. PICK q \in Seq(Ops) : Steps[p][t] = Do(q) /\ PlanOf(t, q)
  BY TaskSteps DEF StepsPlanned
<1>2. PlannedOrder(q)
  BY <1>1, PlanOrder
<1>3. Do(q) \in Seq(Acts)
  BY DoOps DEF Acts
<1> QED  BY <1>1, <1>2, <1>3, OrderOf

-----------------------------------------------------------------------------
(* The groups of interpreters.                                             *)

(* The specs of the image that an interpreter is built in, and the group.  *)
SameImage(s) ==
  {t \in WheelSpecs : t.arch = s.arch /\ t.libc = s.libc /\ t.image = s.image}

GroupFor(s) ==
  [arch |-> s.arch, libc |-> s.libc, image |-> s.image,
   pythons |-> {t.python : t \in SameImage(s)}]

(* The group of an architecture that has no settings. *)
NoGroup(arch, libc) == [arch |-> arch, libc |-> libc, image |-> "", pythons |-> {}]

LEMMA GroupsOfAre ==
  ASSUME NEW arch, NEW libc
  PROVE  \/ GroupsOf(arch, libc) = {NoGroup(arch, libc)}
         \/ GroupsOf(arch, libc) =
              {GroupFor(s) : s \in {t \in WheelSpecs : t.arch = arch /\ t.libc = libc}}
<1> DEFINE specs == {s \in WheelSpecs : s.arch = arch /\ s.libc = libc}
           images == {s.image : s \in specs}
           group(i) == [arch |-> arch, libc |-> libc, image |-> i,
                        pythons |-> {s.python : s \in {t \in specs : t.image = i}}]
<1>1. CASE \A s \in WheelSpecs : s.arch # arch
  BY <1>1 DEF GroupsOf, NoGroup
<1>2. CASE ~\A s \in WheelSpecs : s.arch # arch
  <2>1. GroupsOf(arch, libc) = {group(i) : i \in images}
    BY <1>2, Zenon DEF GroupsOf
  <2>2. ASSUME NEW s \in specs PROVE group(s.image) = GroupFor(s)
    <3>1. {t \in specs : t.image = s.image} = SameImage(s)
      BY DEF SameImage
    <3>2. s.arch = arch /\ s.libc = libc
      OBVIOUS
    <3> QED  BY <3>1, <3>2, Zenon DEF GroupFor
  <2> HIDE DEF group
  <2>3. {group(i) : i \in images} = {GroupFor(s) : s \in specs}
    BY <2>2
  <2> QED  BY <2>1, <2>3
<1> QED  BY <1>1, <1>2

LEMMA GroupsOfIs ==
  ASSUME NEW arch, NEW libc, NEW g \in GroupsOf(arch, libc)
  PROVE  /\ g.arch = arch /\ g.libc = libc
         /\ \A p \in g.pythons : \E s \in WheelSpecs :
              g = GroupFor(s) /\ s.arch = arch /\ s.libc = libc /\ s.python = p
<1>1. CASE g = NoGroup(arch, libc)
  BY <1>1 DEF NoGroup
<1>2. ASSUME NEW r \in WheelSpecs, r.arch = arch, r.libc = libc, g = GroupFor(r)
      PROVE  /\ g.arch = arch /\ g.libc = libc
             /\ \A p \in g.pythons : \E s \in WheelSpecs :
                  g = GroupFor(s) /\ s.arch = arch /\ s.libc = libc /\ s.python = p
  <2>1. g.arch = arch /\ g.libc = libc /\ g.pythons = {t.python : t \in SameImage(r)}
    BY <1>2 DEF GroupFor
  <2>2. ASSUME NEW p \in g.pythons
        PROVE  \E s \in WheelSpecs :
                 g = GroupFor(s) /\ s.arch = arch /\ s.libc = libc /\ s.python = p
    <3>1. PICK s \in SameImage(r) : s.python = p
      BY <2>1
    <3>2. s \in WheelSpecs /\ s.arch = r.arch /\ s.libc = r.libc /\ s.image = r.image
      BY DEF SameImage
    <3>3. SameImage(s) = SameImage(r)
      BY <3>2 DEF SameImage
    <3>4. GroupFor(s) = GroupFor(r)
      BY <3>2, <3>3, Zenon DEF GroupFor
    <3> QED  BY <1>2, <3>1, <3>2, <3>4
  <2> QED  BY <2>1, <2>2
<1> QED  BY <1>1, <1>2, GroupsOfAre

LEMMA GroupsOfFinite ==
  ASSUME NEW arch, NEW libc
  PROVE  IsFiniteSet(GroupsOf(arch, libc))
<1> DEFINE specs == {s \in WheelSpecs : s.arch = arch /\ s.libc = libc}
           h == [s \in specs |-> GroupFor(s)]
<1>1. CASE GroupsOf(arch, libc) = {NoGroup(arch, libc)}
  BY <1>1, FS_Singleton
<1>2. CASE GroupsOf(arch, libc) = {GroupFor(s) : s \in specs}
  <2>1. IsFiniteSet(specs)
    BY ReleaseAssumption, FS_Subset
  <2>2. h \in Surjection(specs, GroupsOf(arch, libc))
    BY <1>2 DEF Surjection
  <2> HIDE DEF h, specs
  <2> QED  BY <2>1, <2>2, FS_Surjection
<1> QED  BY <1>1, <1>2, GroupsOfAre

LEMMA LibcsAre == Range(Libcs) = {"manylinux", "musllinux"}
  BY DEF Range, Libcs

(* An interpreter is built in one group only. *)
LEMMA GroupIs ==
  ASSUME NEW g \in Groups
  PROVE  /\ g.arch \in Arches /\ g.libc \in {"manylinux", "musllinux"}
         /\ \A p \in g.pythons : \E s \in WheelSpecs :
              g = GroupFor(s) /\ s.arch = g.arch /\ s.libc = g.libc /\ s.python = p
<1>1. PICK arch \in Arches, libc \in {"manylinux", "musllinux"} : g \in GroupsOf(arch, libc)
  BY LibcsAre DEF Groups
<1> QED  BY <1>1, GroupsOfIs

LEMMA KeyGroup ==
  ASSUME NEW g \in Groups, NEW h \in Groups, NEW i \in Found(g), NEW j \in Found(h),
         i.arch = j.arch, i.libc = j.libc, i.python = j.python
  PROVE  g = h
<1>1. /\ i.arch = g.arch /\ i.libc = g.libc /\ i.python \in g.pythons
      /\ j.arch = h.arch /\ j.libc = h.libc /\ j.python \in h.pythons
  BY DEF Found
<1>2. PICK s \in WheelSpecs :
        g = GroupFor(s) /\ s.arch = g.arch /\ s.libc = g.libc /\ s.python = i.python
  BY <1>1, GroupIs
<1>3. PICK t \in WheelSpecs :
        h = GroupFor(t) /\ t.arch = h.arch /\ t.libc = h.libc /\ t.python = j.python
  BY <1>1, GroupIs
<1>4. s.arch = t.arch /\ s.libc = t.libc /\ s.python = t.python
  BY <1>1, <1>2, <1>3
<1>5. s = t
  BY <1>4, ReleaseAssumption
<1> QED  BY <1>2, <1>3, <1>5

-----------------------------------------------------------------------------
(* Sequences that have each element of a set once.                         *)
Enumerates(s, S) ==
  /\ s \in Seq(S)
  /\ \A x \in S : \E i \in 1 .. Len(s) : s[i] = x
  /\ \A i, j \in 1 .. Len(s) : s[i] = s[j] => i = j

LEMMA SeqOfSet ==
  ASSUME NEW S, IsFiniteSet(S)
  PROVE  Enumerates(SetToSeq(S), S)
<1> DEFINE n == Cardinality(S)
<1>1. n \in Nat /\ ExistsBijection(1 .. n, S)
  BY FS_CardinalityType
<1>2. \E f \in [1 .. n -> S] : IsInjective(f)
  BY <1>1 DEF ExistsBijection, Bijection, Injection, IsInjective
<1>3. PICK f \in [1 .. n -> S] : IsInjective(f) /\ f = SetToSeq(S)
  BY <1>2 DEF SetToSeq
<1>4. f \in Injection(1 .. n, S)
  BY <1>3 DEF Injection, IsInjective
<1>5. Cardinality(1 .. n) = n
  <2>1. 1 \in Int /\ n \in Int
    BY <1>1
  <2> QED  BY <1>1, <2>1, FS_Interval
<1>6. f \in Surjection(1 .. n, S)
  <2> HIDE DEF n
  <2> QED  BY <1>4, <1>5, FS_Injection DEF n
<1>7. \A x \in S : \E i \in 1 .. n : f[i] = x
  BY <1>6 DEF Surjection
<1>8. f \in Seq(S) /\ Len(f) = n
  BY <1>1, <1>3
<1>9. \A i, j \in 1 .. n : f[i] = f[j] => i = j
  BY <1>3 DEF IsInjective
<1> QED  BY <1>3, <1>7, <1>8, <1>9 DEF Enumerates

(* Where a step of two joined sequences comes from. *)
LEMMA JoinedFrom ==
  ASSUME NEW X, NEW s \in Seq(X), NEW t \in Seq(X), NEW u, ConcatIs(s, t, u),
         NEW i \in 1 .. Len(u)
  PROVE  \/ i \in 1 .. Len(s) /\ u[i] = s[i]
         \/ i - Len(s) \in 1 .. Len(t) /\ u[i] = t[i - Len(s)]
<1>1. Len(s) \in Nat /\ Len(t) \in Nat /\ Len(u) = Len(s) + Len(t)
  BY DEF ConcatIs
<1>2. CASE i \in 1 .. Len(s)
  BY <1>2 DEF ConcatIs
<1>3. CASE i \notin 1 .. Len(s)
  <2>1. i - Len(s) \in 1 .. Len(t) /\ Len(s) + (i - Len(s)) = i
    BY <1>1, <1>3
  <2> QED  BY <2>1 DEF ConcatIs
<1> QED  BY <1>2, <1>3

LEMMA JoinedEnumerates ==
  ASSUME NEW S, NEW T, NEW s, NEW t, Enumerates(s, S), Enumerates(t, T), S \cap T = {}
  PROVE  Enumerates(s \o t, S \union T)
<1> DEFINE X == S \union T
<1>1. s \in Seq(X) /\ t \in Seq(X)
  <2>1. s \in Seq(S) /\ t \in Seq(T)
    BY DEF Enumerates
  <2> QED  BY <2>1
<1>2. /\ \A i \in 1 .. Len(s) : s[i] \in S
      /\ \A i \in 1 .. Len(t) : t[i] \in T
  BY DEF Enumerates
<1> HIDE DEF X
<1>3. PICK u \in Seq(X) : u = s \o t /\ ConcatIs(s, t, u)
  BY <1>1, ConcatAt
<1>4. Len(s) \in Nat /\ Len(t) \in Nat /\ Len(u) = Len(s) + Len(t)
  BY <1>1, <1>3 DEF ConcatIs
<1>5. ASSUME NEW x \in X PROVE \E i \in 1 .. Len(u) : u[i] = x
  <2>1. CASE x \in S
    <3>1. PICK i \in 1 .. Len(s) : s[i] = x
      BY <2>1 DEF Enumerates
    <3>2. i \in 1 .. Len(u) /\ u[i] = x
      BY <1>3, <1>4, <3>1 DEF ConcatIs
    <3> QED  BY <3>2
  <2>2. CASE x \in T
    <3>1. PICK i \in 1 .. Len(t) : t[i] = x
      BY <2>2 DEF Enumerates
    <3>2. Len(s) + i \in 1 .. Len(u) /\ u[Len(s) + i] = x
      BY <1>3, <1>4, <3>1 DEF ConcatIs
    <3> QED  BY <3>2
  <2> QED  BY <2>1, <2>2 DEF X
<1>6. ASSUME NEW i \in 1 .. Len(u), NEW j \in 1 .. Len(u), u[i] = u[j]
      PROVE  i = j
  <2> DEFINE InS(k) == k \in 1 .. Len(s) /\ u[k] = s[k]
             InT(k) == k - Len(s) \in 1 .. Len(t) /\ u[k] = t[k - Len(s)]
  <2>1. (InS(i) \/ InT(i)) /\ (InS(j) \/ InT(j))
    BY <1>1, <1>3, JoinedFrom
  <2>2. CASE InS(i) /\ InS(j)
    BY <1>6, <2>2 DEF Enumerates
  <2>3. CASE InT(i) /\ InT(j)
    <3>1. i - Len(s) = j - Len(s)
      BY <1>6, <2>3 DEF Enumerates
    <3> QED  BY <1>4, <3>1
  <2>4. ~(InS(i) /\ InT(j)) /\ ~(InT(i) /\ InS(j))
    BY <1>2, <1>6
  <2> QED  BY <2>1, <2>2, <2>3, <2>4
<1> QED  BY <1>3, <1>5, <1>6 DEF Enumerates, X

(* The groups of an architecture, and of all of them. *)
GroupsFor(arch) == GroupsOf(arch, "manylinux") \union GroupsOf(arch, "musllinux")

GroupsForInOrder(arch) ==
  FlattenSeq([l \in DOMAIN Libcs |-> SetToSeq(GroupsOf(arch, Libcs[l]))])

LEMMA ArchInOrder ==
  ASSUME NEW arch
  PROVE  Enumerates(GroupsForInOrder(arch), GroupsFor(arch))
<1> DEFINE S == GroupsOf(arch, "manylinux")
           T == GroupsOf(arch, "musllinux")
<1>1. PICK s, t : /\ s = SetToSeq(S) /\ Enumerates(s, S)
                  /\ t = SetToSeq(T) /\ Enumerates(t, T)
  BY GroupsOfFinite, SeqOfSet
<1>2. S \cap T = {}
  BY GroupsOfIs
<1>3. [l \in DOMAIN Libcs |-> SetToSeq(GroupsOf(arch, Libcs[l]))] = <<s, t>>
  <2>1. DOMAIN Libcs = 1 .. 2 /\ Libcs[1] = "manylinux" /\ Libcs[2] = "musllinux"
    BY DEF Libcs
  <2> DEFINE f == [l \in 1 .. 2 |-> SetToSeq(GroupsOf(arch, Libcs[l]))]
  <2>2. f[1] = s /\ f[2] = t
    BY <1>1, <2>1
  <2>3. f = <<f[1], f[2]>>
    OBVIOUS
  <2> QED  BY <2>1, <2>2, <2>3
<1> HIDE DEF S, T
<1>4. s \in Seq(S \union T) /\ t \in Seq(S \union T)
  <2>1. s \in Seq(S) /\ t \in Seq(T)
    BY <1>1 DEF Enumerates
  <2> QED  BY <2>1
<1>5. FlattenSeq(<<s, t>>) = s \o t
  BY <1>4, FlattenTwo
<1>6. Enumerates(s \o t, S \union T)
  BY <1>1, <1>2, JoinedEnumerates
<1> QED  BY <1>3, <1>5, <1>6 DEF GroupsForInOrder, GroupsFor, S, T

LEMMA GroupsApart ==
  ASSUME NEW a, NEW b, a # b
  PROVE  GroupsFor(a) \cap GroupsFor(b) = {}
  BY GroupsOfIs DEF GroupsFor

LEMMA AllInOrder == Enumerates(GroupsInOrder, Groups)
<1>1. Groups = UNION {GroupsFor(a) : a \in Arches}
  <2>1. Groups = UNION {GroupsOf(arch, libc) : arch \in Arches, libc \in {"manylinux", "musllinux"}}
    BY LibcsAre DEF Groups
  <2> QED  BY <2>1 DEF GroupsFor
<1>2. GroupsInOrder = FlattenSeq([a \in DOMAIN ArchesInOrder |-> GroupsForInOrder(ArchesInOrder[a])])
  BY Zenon DEF GroupsInOrder, GroupsForInOrder
<1>3. CASE Machine = "x86_64"
  <2> DEFINE A == GroupsFor("x86_64")
             B == GroupsFor("i686")
             C == GroupsFor("aarch64")
             X == (A \union B) \union C
  <2>1. PICK a, b, c : /\ a = GroupsForInOrder("x86_64") /\ Enumerates(a, A)
                       /\ b = GroupsForInOrder("i686") /\ Enumerates(b, B)
                       /\ c = GroupsForInOrder("aarch64") /\ Enumerates(c, C)
    BY ArchInOrder
  <2>2. A \cap B = {} /\ (A \union B) \cap C = {}
    <3>1. A \cap B = {} /\ A \cap C = {} /\ B \cap C = {}
      BY GroupsApart
    <3> QED  BY <3>1
  <2>3. ArchesInOrder = <<"x86_64", "i686", "aarch64">>
    BY <1>3 DEF ArchesInOrder
  <2>4. Arches = {"x86_64", "i686", "aarch64"}
    BY <2>3 DEF Arches, Range
  <2>5. Groups = X
    BY <1>1, <2>4
  <2>6. [i \in DOMAIN ArchesInOrder |-> GroupsForInOrder(ArchesInOrder[i])] = <<a, b, c>>
    <3>1. /\ DOMAIN ArchesInOrder = 1 .. 3 /\ ArchesInOrder[1] = "x86_64"
          /\ ArchesInOrder[2] = "i686" /\ ArchesInOrder[3] = "aarch64"
      BY <2>3
    <3> DEFINE f == [i \in 1 .. 3 |-> GroupsForInOrder(ArchesInOrder[i])]
    <3>2. f[1] = a /\ f[2] = b /\ f[3] = c
      BY <2>1, <3>1
    <3>3. f = <<f[1], f[2], f[3]>>
      OBVIOUS
    <3> QED  BY <3>1, <3>2, <3>3
  <2> HIDE DEF A, B, C, X
  <2>7. a \in Seq(X) /\ b \in Seq(X) /\ c \in Seq(X)
    <3>1. a \in Seq(A) /\ b \in Seq(B) /\ c \in Seq(C)
      BY <2>1 DEF Enumerates
    <3> QED  BY <3>1 DEF X
  <2>8. FlattenSeq(<<a, b, c>>) = (a \o b) \o c
    <3>1. JoinsThree(a, b, c)
      BY <2>7, FlattenThree
    <3> QED  BY <3>1 DEF JoinsThree
  <2>9. Enumerates(a \o b, A \union B)
    BY <2>1, <2>2, JoinedEnumerates
  <2>10. Enumerates((a \o b) \o c, X)
    BY <2>1, <2>2, <2>9, JoinedEnumerates DEF X
  <2> QED  BY <1>2, <2>5, <2>6, <2>8, <2>10
<1>4. CASE Machine # "x86_64"
  <2>1. PICK a : a = GroupsForInOrder(Machine) /\ Enumerates(a, GroupsFor(Machine))
    BY ArchInOrder
  <2>2. ArchesInOrder = <<Machine>>
    BY <1>4 DEF ArchesInOrder
  <2>3. Arches = {Machine}
    BY <2>2 DEF Arches, Range
  <2>4. Groups = GroupsFor(Machine)
    BY <1>1, <2>3
  <2>5. [i \in DOMAIN ArchesInOrder |-> GroupsForInOrder(ArchesInOrder[i])] = <<a>>
    <3>1. DOMAIN ArchesInOrder = 1 .. 1 /\ ArchesInOrder[1] = Machine
      BY <2>2
    <3> DEFINE f == [i \in 1 .. 1 |-> GroupsForInOrder(ArchesInOrder[i])]
    <3>2. f[1] = a
      BY <2>1, <3>1
    <3>3. f = <<f[1]>>
      OBVIOUS
    <3> QED  BY <3>1, <3>2, <3>3
  <2>6. a \in Seq(GroupsFor(Machine))
    BY <2>1 DEF Enumerates
  <2>7. FlattenSeq(<<a>>) = a
    BY <2>6, FlattenOne
  <2> QED  BY <1>2, <2>1, <2>4, <2>5, <2>7
<1> QED  BY <1>3, <1>4

-----------------------------------------------------------------------------
(* The steps of build.wheels.                                              *)
StageOf(f) == [op |-> "stage", file |-> f]
DockerOf(f, g) == [op |-> "docker", file |-> f, group |-> g]
UnstageOf(f) == [op |-> "unstage", file |-> f]

PackageActs ==
  {StageOf(f) : f \in Archives} \union {UnstageOf(f) : f \in Archives}
    \union {DockerOf(f, g) : f \in Archives, g \in Groups}

WheelActs == PackageActs \union {[op |-> "rename"]}

(* What is staged or used is used next, or removed. *)
Flow(s) ==
  \A i \in 1 .. Len(s) : s[i].op \in {"stage", "docker"} =>
    /\ i + 1 \in 1 .. Len(s)
    /\ s[i + 1].op \in {"docker", "unstage"}
    /\ s[i + 1].file = s[i].file

IsDocker(a, v, g) == a.op = "docker" /\ a.file.version = v /\ a.group = g

(* No group is built twice for one version. *)
NotTwice(s) ==
  \A i, j \in 1 .. Len(s) :
    /\ s[i].op = "docker" /\ s[j].op = "docker"
    /\ s[i].file.version = s[j].file.version /\ s[i].group = s[j].group
    => i = j

(* There is a group left to be built for a version. *)
Left(s, v, g) == \E i \in 1 .. Len(s) : IsDocker(s[i], v, g)

Within(s, F) == \A i \in 1 .. Len(s) : s[i].op # "rename" => s[i].file \in F

RenameLast(s) == \A i \in 1 .. Len(s) : s[i].op = "rename" => i = Len(s)

LEMMA WheelActIs ==
  /\ \A a \in PackageActs : a.op # "rename" /\ a.file \in Archives
  /\ \A a \in WheelActs : a.op \in {"stage", "docker", "unstage", "rename"}
  /\ \A a \in WheelActs : a.op = "docker" => a.group \in Groups /\ a = DockerOf(a.file, a.group)
  /\ \A a \in WheelActs : a.op # "rename" => a.file \in Archives
  BY DEF PackageActs, WheelActs, StageOf, UnstageOf, DockerOf

PackageIs(f, s) ==
  LET groups == GroupsInOrder
      n == Len(groups)
  IN  /\ s \in Seq(PackageActs)
      /\ Len(s) = n + 2
      /\ s[1] = StageOf(f)
      /\ s[n + 2] = UnstageOf(f)
      /\ \A i \in 1 .. n : s[i + 1] = DockerOf(f, groups[i])

LEMMA PackageStepsAre ==
  ASSUME NEW f \in Archives
  PROVE  PackageIs(f, PackageSteps(f))
<1>1. PICK groups \in Seq(Groups) : groups = GroupsInOrder
  BY AllInOrder DEF Enumerates
<1> DEFINE n == Len(groups)
           d == [i \in DOMAIN groups |-> [op |-> "docker", file |-> f, group |-> groups[i]]]
<1>2. DOMAIN groups = 1 .. n /\ n \in Nat /\ \A i \in 1 .. n : groups[i] \in Groups
  OBVIOUS
<1>3. \A i \in 1 .. n : DockerOf(f, groups[i]) \in PackageActs
  BY <1>2 DEF PackageActs
<1>4. /\ d \in Seq(PackageActs) /\ Len(d) = n
      /\ \A i \in 1 .. n : d[i] = DockerOf(f, groups[i])
  BY <1>2, <1>3 DEF DockerOf
<1>5. PICK a \in Seq(PackageActs) : a = <<StageOf(f)>> /\ Len(a) = 1 /\ a[1] = StageOf(f)
  <2>1. StageOf(f) \in PackageActs
    BY DEF PackageActs
  <2>2. <<StageOf(f)>> \in Seq(PackageActs)
    BY <2>1
  <2> QED  BY <2>2
<1>6. PICK b \in Seq(PackageActs) : b = <<UnstageOf(f)>> /\ Len(b) = 1 /\ b[1] = UnstageOf(f)
  <2>1. UnstageOf(f) \in PackageActs
    BY DEF PackageActs
  <2>2. <<UnstageOf(f)>> \in Seq(PackageActs)
    BY <2>1
  <2> QED  BY <2>2
<1>7. PackageSteps(f) = (a \o d) \o b
  BY <1>1, <1>5, <1>6 DEF PackageSteps, StageOf, UnstageOf
<1> HIDE DEF d, n
<1>8. PICK c \in Seq(PackageActs) : c = a \o d /\ ConcatIs(a, d, c)
  BY <1>4, ConcatAt
<1>9. PICK s \in Seq(PackageActs) : s = c \o b /\ ConcatIs(c, b, s)
  BY ConcatAt
<1>10. /\ Len(c) = n + 1 /\ c[1] = StageOf(f)
       /\ \A i \in 1 .. n : c[1 + i] = DockerOf(f, groups[i])
  BY <1>2, <1>4, <1>5, <1>8 DEF ConcatIs
<1>11. Len(s) = n + 2 /\ s[1] = StageOf(f)
  BY <1>2, <1>6, <1>9, <1>10 DEF ConcatIs
<1>12. s[n + 2] = UnstageOf(f)
  <2>1. s[Len(c) + 1] = b[1]
    BY <1>6, <1>9 DEF ConcatIs
  <2> QED  BY <1>2, <1>6, <1>10, <2>1
<1>13. ASSUME NEW i \in 1 .. n PROVE s[i + 1] = DockerOf(f, groups[i])
  <2>1. i + 1 \in 1 .. Len(c) /\ 1 + i = i + 1
    BY <1>2, <1>10
  <2>2. s[i + 1] = c[i + 1]
    BY <1>9, <2>1 DEF ConcatIs
  <2> QED  BY <1>10, <2>1, <2>2
<1> QED  BY <1>1, <1>7, <1>8, <1>9, <1>11, <1>12, <1>13 DEF PackageIs, n

(* The steps for one tarball. *)
LEMMA PackageGood ==
  ASSUME NEW f \in Archives, NEW s, PackageIs(f, s)
  PROVE  /\ s \in Seq(PackageActs) /\ Flow(s) /\ NotTwice(s) /\ Within(s, {f})
         /\ \A g \in Groups : Left(s, f.version, g)
<1>1. PICK groups \in Seq(Groups), n \in Nat :
        groups = GroupsInOrder /\ n = Len(groups) /\ Enumerates(groups, Groups)
  <2>1. GroupsInOrder \in Seq(Groups)
    BY AllInOrder DEF Enumerates
  <2> QED  BY <2>1, AllInOrder
<1>2. /\ s \in Seq(PackageActs) /\ Len(s) = n + 2
      /\ s[1] = StageOf(f) /\ s[n + 2] = UnstageOf(f)
      /\ \A i \in 1 .. n : s[i + 1] = DockerOf(f, groups[i])
  BY <1>1 DEF PackageIs
<1>3. ASSUME NEW i \in 1 .. Len(s)
      PROVE  \/ i = 1 /\ s[i] = StageOf(f)
             \/ i = n + 2 /\ s[i] = UnstageOf(f)
             \/ i - 1 \in 1 .. n /\ s[i] = DockerOf(f, groups[i - 1])
  <2>1. CASE i \in 2 .. n + 1
    <3>1. i - 1 \in 1 .. n /\ (i - 1) + 1 = i
      BY <2>1
    <3> QED  BY <1>2, <3>1
  <2>2. i = 1 \/ i = n + 2 \/ i \in 2 .. n + 1
    BY <1>2
  <2> QED  BY <1>2, <2>1, <2>2
<1>4. ASSUME NEW i \in 1 .. Len(s)
      PROVE  s[i].file = f /\ (s[i].op = "unstage" <=> i = n + 2)
             /\ (s[i].op = "docker" <=> i # 1 /\ i # n + 2)
             /\ s[i].op \in {"stage", "docker", "unstage"}
  BY <1>2, <1>3 DEF StageOf, UnstageOf, DockerOf
<1>5. Flow(s)
  <2>1. SUFFICES ASSUME NEW i \in 1 .. Len(s), s[i].op \in {"stage", "docker"}
                 PROVE  /\ i + 1 \in 1 .. Len(s)
                        /\ s[i + 1].op \in {"docker", "unstage"}
                        /\ s[i + 1].file = s[i].file
    BY DEF Flow
  <2>2. i # n + 2
    BY <1>4, <2>1
  <2>3. i + 1 \in 1 .. Len(s) /\ i + 1 # 1
    BY <1>2, <2>2
  <2> QED  BY <1>4, <2>3
<1>6. NotTwice(s)
  <2>1. SUFFICES ASSUME NEW i \in 1 .. Len(s), NEW j \in 1 .. Len(s),
                        s[i].op = "docker", s[j].op = "docker", s[i].group = s[j].group
                 PROVE  i = j
    BY DEF NotTwice
  <2>2. /\ i - 1 \in 1 .. n /\ s[i] = DockerOf(f, groups[i - 1])
        /\ j - 1 \in 1 .. n /\ s[j] = DockerOf(f, groups[j - 1])
    BY <1>3, <2>1 DEF StageOf, UnstageOf
  <2>3. groups[i - 1] = groups[j - 1]
    BY <2>1, <2>2 DEF DockerOf
  <2>4. i - 1 = j - 1
    BY <1>1, <2>2, <2>3 DEF Enumerates
  <2> QED  BY <2>4
<1>7. Within(s, {f})
  BY <1>4 DEF Within
<1>8. ASSUME NEW g \in Groups PROVE Left(s, f.version, g)
  <2>1. PICK i \in 1 .. n : groups[i] = g
    BY <1>1 DEF Enumerates
  <2>2. i + 1 \in 1 .. Len(s) /\ s[i + 1] = DockerOf(f, g)
    BY <1>2, <2>1
  <2>3. IsDocker(s[i + 1], f.version, g)
    BY <2>2 DEF IsDocker, DockerOf
  <2> QED  BY <2>2, <2>3 DEF Left
<1> QED  BY <1>2, <1>5, <1>6, <1>7, <1>8

-----------------------------------------------------------------------------
(* The steps of build.wheels, package by package.                          *)

LEMMA JoinedGood ==
  ASSUME NEW s \in Seq(WheelActs), NEW t \in Seq(WheelActs), NEW u \in Seq(WheelActs),
         ConcatIs(s, t, u), Flow(s), Flow(t), NotTwice(s), NotTwice(t),
         \A i \in 1 .. Len(s), j \in 1 .. Len(t) :
           s[i].op = "docker" /\ t[j].op = "docker" => s[i].file.version # t[j].file.version
  PROVE  Flow(u) /\ NotTwice(u)
<1>1. Len(s) \in Nat /\ Len(t) \in Nat /\ Len(u) = Len(s) + Len(t)
  BY DEF ConcatIs
<1>2. Flow(u)
  <2>1. SUFFICES ASSUME NEW i \in 1 .. Len(u), u[i].op \in {"stage", "docker"}
                 PROVE  /\ i + 1 \in 1 .. Len(u)
                        /\ u[i + 1].op \in {"docker", "unstage"}
                        /\ u[i + 1].file = u[i].file
    BY DEF Flow
  <2>2. CASE i \in 1 .. Len(s) /\ u[i] = s[i]
    <3>1. /\ i + 1 \in 1 .. Len(s)
          /\ s[i + 1].op \in {"docker", "unstage"} /\ s[i + 1].file = s[i].file
      BY <2>1, <2>2 DEF Flow
    <3>2. u[i + 1] = s[i + 1] /\ i + 1 \in 1 .. Len(u)
      BY <1>1, <3>1 DEF ConcatIs
    <3> QED  BY <2>2, <3>1, <3>2
  <2>3. CASE i - Len(s) \in 1 .. Len(t) /\ u[i] = t[i - Len(s)]
    <3> DEFINE k == i - Len(s)
    <3>1. /\ k + 1 \in 1 .. Len(t)
          /\ t[k + 1].op \in {"docker", "unstage"} /\ t[k + 1].file = t[k].file
      BY <2>1, <2>3 DEF Flow
    <3>2. Len(s) + (k + 1) = i + 1 /\ i + 1 \in 1 .. Len(u)
      BY <1>1, <3>1
    <3>3. u[Len(s) + (k + 1)] = t[k + 1]
      BY <3>1 DEF ConcatIs
    <3>4. u[i + 1] = t[k + 1]
      BY <3>2, <3>3
    <3> QED  BY <2>3, <3>1, <3>2, <3>4
  <2> QED  BY <2>2, <2>3, JoinedFrom
<1>3. NotTwice(u)
  <2>1. SUFFICES ASSUME NEW i \in 1 .. Len(u), NEW j \in 1 .. Len(u),
                        u[i].op = "docker", u[j].op = "docker",
                        u[i].file.version = u[j].file.version, u[i].group = u[j].group
                 PROVE  i = j
    BY DEF NotTwice
  <2> DEFINE InS(k) == k \in 1 .. Len(s) /\ u[k] = s[k]
             InT(k) == k - Len(s) \in 1 .. Len(t) /\ u[k] = t[k - Len(s)]
  <2>2. (InS(i) \/ InT(i)) /\ (InS(j) \/ InT(j))
    BY JoinedFrom
  <2>3. CASE InS(i) /\ InS(j)
    BY <2>1, <2>3 DEF NotTwice
  <2>4. CASE InT(i) /\ InT(j)
    <3>1. i - Len(s) = j - Len(s)
      BY <2>1, <2>4 DEF NotTwice
    <3> QED  BY <1>1, <3>1
  <2>5. CASE InS(i) /\ InT(j)
    BY <2>1, <2>5
  <2>6. CASE InT(i) /\ InS(j)
    BY <2>1, <2>6
  <2> QED  BY <2>2, <2>3, <2>4, <2>5, <2>6
<1> QED  BY <1>2, <1>3

LEMMA JoinedLeft ==
  ASSUME NEW s \in Seq(WheelActs), NEW t \in Seq(WheelActs), NEW u \in Seq(WheelActs),
         ConcatIs(s, t, u), NEW v, NEW g, Left(s, v, g) \/ Left(t, v, g)
  PROVE  Left(u, v, g)
<1>1. Len(s) \in Nat /\ Len(t) \in Nat /\ Len(u) = Len(s) + Len(t)
  BY DEF ConcatIs
<1>2. CASE Left(s, v, g)
  <2>1. PICK i \in 1 .. Len(s) : IsDocker(s[i], v, g)
    BY <1>2 DEF Left
  <2>2. i \in 1 .. Len(u) /\ u[i] = s[i]
    BY <1>1 DEF ConcatIs
  <2> QED  BY <2>1, <2>2 DEF Left
<1>3. CASE Left(t, v, g)
  <2>1. PICK i \in 1 .. Len(t) : IsDocker(t[i], v, g)
    BY <1>3 DEF Left
  <2>2. Len(s) + i \in 1 .. Len(u) /\ u[Len(s) + i] = t[i]
    BY <1>1 DEF ConcatIs
  <2> QED  BY <2>1, <2>2 DEF Left
<1> QED  BY <1>2, <1>3

(* The steps for the tarballs of the versions up to k. *)
GoodUpTo(s, k) ==
  /\ s \in Seq(PackageActs) /\ Flow(s) /\ NotTwice(s)
  /\ Within(s, {f \in Of("gz") : f.version <= k})
  /\ \A v \in 1 .. k : Tarballs(v) # {} => \A g \in Groups : Left(s, v, g)

LEMMA OneMore ==
  ASSUME dist \subseteq Archives, NEW k \in Nat, NEW s, GoodUpTo(s, k),
         NEW t \in Seq(PackageActs),
         \/ Tarballs(k + 1) = {} /\ t = <<>>
         \/ \E f \in Tarballs(k + 1) : PackageIs(f, t)
  PROVE  GoodUpTo(s \o t, k + 1)
<1>1. s \in Seq(PackageActs) /\ s \in Seq(WheelActs) /\ t \in Seq(WheelActs)
  BY DEF GoodUpTo, WheelActs
<1>2. \A f \in Of("gz") : f \in Archives /\ f.version \in Nat
  BY DEF Of, Archives, Versions
<1>3. CASE Tarballs(k + 1) = {} /\ t = <<>>
  <2>1. s \o t = s
    BY <1>1, <1>3
  <2>2. Within(s, {f \in Of("gz") : f.version <= k + 1})
    BY <1>2 DEF GoodUpTo, Within
  <2>3. \A v \in 1 .. k + 1 : Tarballs(v) # {} => v \in 1 .. k
    BY <1>3
  <2> QED  BY <2>1, <2>2, <2>3 DEF GoodUpTo
<1>4. ASSUME NEW f \in Tarballs(k + 1), PackageIs(f, t)
      PROVE  GoodUpTo(s \o t, k + 1)
  <2>1. f \in Of("gz") /\ f \in Archives /\ f.version = k + 1
    BY <1>2 DEF Tarballs
  <2>2. /\ Flow(t) /\ NotTwice(t) /\ Within(t, {f})
        /\ \A g \in Groups : Left(t, k + 1, g)
    BY <1>4, <2>1, PackageGood
  <2>3. PICK u \in Seq(PackageActs) : u = s \o t /\ ConcatIs(s, t, u)
    BY <1>1, ConcatAt
  <2>4. u \in Seq(WheelActs)
    BY DEF WheelActs
  <2>5. ASSUME NEW i \in 1 .. Len(s)
        PROVE  s[i].file \in Of("gz") /\ s[i].file.version <= k
    <3>1. s[i].op # "rename"
      BY <1>1, WheelActIs
    <3> QED  BY <3>1 DEF GoodUpTo, Within
  <2>6. ASSUME NEW j \in 1 .. Len(t) PROVE t[j].file = f
    <3>1. t[j].op # "rename"
      BY WheelActIs
    <3> QED  BY <2>2, <3>1 DEF Within
  <2>7. \A i \in 1 .. Len(s), j \in 1 .. Len(t) : s[i].file.version # t[j].file.version
    BY <1>2, <2>1, <2>5, <2>6
  <2>8. Flow(u) /\ NotTwice(u)
    BY <1>1, <2>2, <2>3, <2>4, <2>7, JoinedGood DEF GoodUpTo
  <2>9. Within(u, {h \in Of("gz") : h.version <= k + 1})
    <3>1. SUFFICES ASSUME NEW i \in 1 .. Len(u)
                   PROVE  u[i].file \in Of("gz") /\ u[i].file.version <= k + 1
      BY DEF Within
    <3>2. \/ i \in 1 .. Len(s) /\ u[i] = s[i]
          \/ i - Len(s) \in 1 .. Len(t) /\ u[i] = t[i - Len(s)]
      BY <1>1, <2>3, JoinedFrom
    <3>3. CASE i \in 1 .. Len(s) /\ u[i] = s[i]
      BY <1>2, <2>5, <3>3
    <3>4. CASE i - Len(s) \in 1 .. Len(t) /\ u[i] = t[i - Len(s)]
      BY <2>1, <2>6, <3>4
    <3> QED  BY <3>2, <3>3, <3>4
  <2>10. ASSUME NEW v \in 1 .. k + 1, Tarballs(v) # {}, NEW g \in Groups
         PROVE  Left(u, v, g)
    <3>1. CASE v \in 1 .. k
      <4>1. Left(s, v, g)
        BY <2>10, <3>1 DEF GoodUpTo
      <4> QED  BY <1>1, <2>3, <2>4, <4>1, JoinedLeft
    <3>2. CASE v = k + 1
      <4>1. Left(t, v, g)
        BY <2>2, <3>2
      <4> QED  BY <1>1, <2>3, <2>4, <4>1, JoinedLeft
    <3> QED  BY <3>1, <3>2
  <2> QED  BY <2>3, <2>8, <2>9, <2>10 DEF GoodUpTo
<1> QED  BY <1>3, <1>4

(* What is left of the steps for the tarballs that are in dist/. *)
WheelsLeft(s) ==
  /\ s \in Seq(WheelActs) /\ Flow(s) /\ NotTwice(s) /\ RenameLast(s)
  /\ Within(s, Of("gz"))

LEMMA WheelStepsGood ==
  ASSUME dist \subseteq Archives
  PROVE  /\ WheelsLeft(WheelSteps)
         /\ \A v \in Versions : Tarballs(v) # {} =>
              \A g \in Groups : Left(WheelSteps, v, g)
<1> DEFINE n == LastVersion
           piece(v) == IF Tarballs(v) = {} THEN <<>>
                       ELSE PackageSteps(CHOOSE f \in Tarballs(v) : TRUE)
           pieces == [v \in 1 .. n |-> piece(v)]
<1>1. n \in Nat
  BY ReleaseAssumption
<1>2. ASSUME NEW v \in 1 .. n
      PROVE  /\ piece(v) \in Seq(PackageActs)
             /\ \/ Tarballs(v) = {} /\ piece(v) = <<>>
                \/ \E f \in Tarballs(v) : PackageIs(f, piece(v))
  <2>1. CASE Tarballs(v) = {}
    <3>1. piece(v) = <<>>
      BY <2>1
    <3> HIDE DEF piece
    <3> QED  BY <2>1, <3>1
  <2>2. CASE Tarballs(v) # {}
    <3>1. PICK f \in Tarballs(v) : f = CHOOSE h \in Tarballs(v) : TRUE
      BY <2>2
    <3>2. f \in Archives
      BY DEF Tarballs, Of
    <3>3. piece(v) = PackageSteps(f)
      BY <2>2, <3>1
    <3>4. PackageIs(f, piece(v))
      BY <3>2, <3>3, PackageStepsAre
    <3> HIDE DEF piece
    <3>5. piece(v) \in Seq(PackageActs)
      BY <3>4 DEF PackageIs
    <3> QED  BY <3>4, <3>5
  <2> QED  BY <2>1, <2>2
<1> HIDE DEF piece
<1>3. pieces \in Seq(Seq(PackageActs)) /\ Len(pieces) = n /\ \A v \in 1 .. n : pieces[v] = piece(v)
  BY <1>1, <1>2
<1> HIDE DEF pieces
<1>4. PICK g \in [0 .. n -> Seq(PackageActs)] : FlattensBy(g, pieces)
  BY <1>3, FlattenTrace
<1>5. /\ g[0] = <<>> /\ FlattenSeq(pieces) = g[n]
      /\ \A i \in 1 .. n : g[i] = g[i - 1] \o piece(i)
  BY <1>3, <1>4 DEF FlattensBy, IsFlat
<1> DEFINE T == {k \in 0 .. n : GoodUpTo(g[k], k)}
<1>6. 0 \in T
  <2>1. GoodUpTo(<<>>, 0)
    BY DEF GoodUpTo, Flow, NotTwice, Within
  <2> QED  BY <1>1, <1>5, <2>1
<1>7. ASSUME NEW k \in 0 .. n - 1, k \in T PROVE k + 1 \in T
  <2>1. k \in Nat /\ k + 1 \in 1 .. n /\ (k + 1) - 1 = k /\ k + 1 \in 0 .. n
    BY <1>1
  <2>2. GoodUpTo(g[k], k)
    BY <1>7
  <2>3. g[k + 1] = g[k] \o piece(k + 1)
    BY <1>5, <2>1
  <2>4. GoodUpTo(g[k] \o piece(k + 1), k + 1)
    BY <1>2, <2>1, <2>2, OneMore
  <2> QED  BY <2>1, <2>3, <2>4
<1> HIDE DEF T
<1>8. n \in T
  <2>1. n \in 0 .. n
    BY <1>1
  <2> HIDE DEF n
  <2> QED  BY <1>1, <1>6, <1>7, <2>1, UpTo
<1>9. PICK s : s = g[n] /\ GoodUpTo(s, n)
  BY <1>8 DEF T
<1>10. PICK r \in Seq(WheelActs) :
         r = <<[op |-> "rename"]>> /\ Len(r) = 1 /\ r[1].op = "rename"
  <2>1. [op |-> "rename"] \in WheelActs /\ [op |-> "rename"].op = "rename"
    BY DEF WheelActs
  <2>2. <<[op |-> "rename"]>> \in Seq(WheelActs)
    BY <2>1
  <2> QED  BY <2>1, <2>2
<1>11. s \in Seq(PackageActs) /\ s \in Seq(WheelActs)
  BY <1>9 DEF GoodUpTo, WheelActs
<1>12. WheelSteps = s \o r
  BY <1>5, <1>9, <1>10 DEF WheelSteps, Versions, pieces, piece
<1>13. PICK u \in Seq(WheelActs) : u = s \o r /\ ConcatIs(s, r, u)
  BY <1>11, ConcatAt
<1>14. \A j \in 1 .. Len(r) : j = 1
  BY <1>10
<1>15. Flow(u) /\ NotTwice(u)
  <2>1. Flow(r) /\ NotTwice(r)
    BY <1>10, <1>14 DEF Flow, NotTwice
  <2>2. \A i \in 1 .. Len(s), j \in 1 .. Len(r) :
           s[i].op = "docker" /\ r[j].op = "docker" => s[i].file.version # r[j].file.version
    BY <1>10, <1>14
  <2> QED  BY <1>9, <1>11, <1>13, <2>1, <2>2, JoinedGood DEF GoodUpTo
<1>16. ASSUME NEW i \in 1 .. Len(u)
       PROVE  \/ i \in 1 .. Len(s) /\ u[i] = s[i] /\ s[i].op # "rename"
              \/ i = Len(u) /\ u[i].op = "rename"
  <2>1. \/ i \in 1 .. Len(s) /\ u[i] = s[i]
        \/ i - Len(s) \in 1 .. Len(r) /\ u[i] = r[i - Len(s)]
    BY <1>11, <1>13, JoinedFrom
  <2>2. Len(u) = Len(s) + 1 /\ Len(s) \in Nat
    BY <1>10, <1>11, <1>13 DEF ConcatIs
  <2>3. CASE i - Len(s) \in 1 .. Len(r) /\ u[i] = r[i - Len(s)]
    <3>1. i - Len(s) = 1
      BY <1>14, <2>3
    <3>2. i = Len(u)
      BY <2>2, <3>1
    <3> QED  BY <1>10, <2>3, <3>1, <3>2
  <2>4. CASE i \in 1 .. Len(s) /\ u[i] = s[i]
    <3>1. s[i].op # "rename"
      BY <1>11, <2>4, WheelActIs
    <3> QED  BY <2>4, <3>1
  <2> QED  BY <2>1, <2>3, <2>4
<1>17. RenameLast(u) /\ Within(u, Of("gz"))
  <2>1. RenameLast(u)
    BY <1>16 DEF RenameLast
  <2>2. Within(u, Of("gz"))
    BY <1>9, <1>16 DEF GoodUpTo, Within
  <2> QED  BY <2>1, <2>2
<1>18. ASSUME NEW v \in Versions, Tarballs(v) # {}, NEW h \in Groups
       PROVE  Left(u, v, h)
  <2>1. Left(s, v, h)
    BY <1>9, <1>18 DEF GoodUpTo, Versions
  <2> QED  BY <1>11, <1>13, <2>1, JoinedLeft
<1> QED  BY <1>12, <1>13, <1>15, <1>17, <1>18 DEF WheelsLeft

-----------------------------------------------------------------------------
(* The inductive invariant.                                                *)

LEMMA TailAt ==
  ASSUME NEW X, NEW s \in Seq(X), s # <<>>
  PROVE  /\ Tail(s) \in Seq(X) /\ Len(Tail(s)) = Len(s) - 1 /\ Len(s) \in Nat \ {0}
         /\ Head(s) = s[1] /\ Head(s) \in X
         /\ \A i \in 1 .. Len(Tail(s)) : Tail(s)[i] = s[i + 1] /\ i + 1 \in 1 .. Len(s)
  OBVIOUS

LEMMA TailWheels ==
  ASSUME NEW s, WheelsLeft(s), s # <<>>
  PROVE  /\ WheelsLeft(Tail(s))
         /\ Head(s).op \in {"stage", "docker"} =>
              /\ Tail(s) # <<>> /\ Head(Tail(s)).op \in {"docker", "unstage"}
              /\ Head(Tail(s)).file = Head(s).file
         /\ Head(s).op = "rename" => Tail(s) = <<>>
<1>1. s \in Seq(WheelActs) /\ Flow(s) /\ NotTwice(s) /\ RenameLast(s) /\ Within(s, Of("gz"))
  BY DEF WheelsLeft
<1>2. PICK t \in Seq(WheelActs) :
        /\ t = Tail(s) /\ Len(t) = Len(s) - 1 /\ Len(s) \in Nat \ {0}
        /\ Head(s) = s[1]
        /\ \A i \in 1 .. Len(t) : t[i] = s[i + 1] /\ i + 1 \in 1 .. Len(s)
  BY <1>1, TailAt
<1>3. Flow(t)
  <2>1. SUFFICES ASSUME NEW i \in 1 .. Len(t), t[i].op \in {"stage", "docker"}
                 PROVE  /\ i + 1 \in 1 .. Len(t)
                        /\ t[i + 1].op \in {"docker", "unstage"}
                        /\ t[i + 1].file = t[i].file
    BY DEF Flow
  <2>2. /\ (i + 1) + 1 \in 1 .. Len(s)
        /\ s[(i + 1) + 1].op \in {"docker", "unstage"}
        /\ s[(i + 1) + 1].file = s[i + 1].file
    BY <1>1, <1>2, <2>1 DEF Flow
  <2>3. i + 1 \in 1 .. Len(t)
    BY <1>2, <2>2
  <2> QED  BY <1>2, <2>2, <2>3
<1>4. NotTwice(t)
  <2>1. SUFFICES ASSUME NEW i \in 1 .. Len(t), NEW j \in 1 .. Len(t),
                        t[i].op = "docker", t[j].op = "docker",
                        t[i].file.version = t[j].file.version, t[i].group = t[j].group
                 PROVE  i = j
    BY DEF NotTwice
  <2>2. i + 1 = j + 1
    BY <1>1, <1>2, <2>1 DEF NotTwice
  <2> QED  BY <2>2
<1>5. RenameLast(t)
  <2>1. SUFFICES ASSUME NEW i \in 1 .. Len(t), t[i].op = "rename" PROVE i = Len(t)
    BY DEF RenameLast
  <2>2. i + 1 = Len(s)
    BY <1>1, <1>2, <2>1 DEF RenameLast
  <2>3. Len(t) = Len(s) - 1 /\ Len(s) \in Nat \ {0}
    BY <1>2
  <2> QED  BY <2>2, <2>3
<1>6. Within(t, Of("gz"))
  BY <1>1, <1>2 DEF Within
<1>7. ASSUME Head(s).op \in {"stage", "docker"}
      PROVE  /\ t # <<>> /\ Head(t).op \in {"docker", "unstage"}
             /\ Head(t).file = Head(s).file
  <2>1. 1 \in 1 .. Len(s) /\ 1 + 1 = 2
    BY <1>2
  <2>2. /\ 2 \in 1 .. Len(s) /\ s[2].op \in {"docker", "unstage"} /\ s[2].file = s[1].file
    BY <1>1, <1>2, <1>7, <2>1 DEF Flow
  <2>3. 1 \in 1 .. Len(t) /\ t[1] = s[2]
    BY <1>2, <2>1, <2>2
  <2>4. t # <<>> /\ Head(t) = t[1]
    BY <2>3
  <2> QED  BY <1>2, <2>2, <2>3, <2>4
<1>8. ASSUME Head(s).op = "rename" PROVE t = <<>>
  <2>1. 1 \in 1 .. Len(s)
    BY <1>2
  <2>2. Len(s) = 1
    BY <1>1, <1>2, <1>8, <2>1 DEF RenameLast
  <2> QED  BY <1>2, <2>2
<1> QED  BY <1>2, <1>3, <1>4, <1>5, <1>6, <1>7, <1>8 DEF WheelsLeft

LEMMA TailLeft ==
  ASSUME NEW s, WheelsLeft(s), s # <<>>, NEW v, NEW g
  PROVE  /\ Left(s, v, g) <=> IsDocker(Head(s), v, g) \/ Left(Tail(s), v, g)
         /\ IsDocker(Head(s), v, g) => ~Left(Tail(s), v, g)
<1>1. s \in Seq(WheelActs) /\ NotTwice(s)
  BY DEF WheelsLeft
<1>2. PICK t \in Seq(WheelActs) :
        /\ t = Tail(s) /\ Len(t) = Len(s) - 1 /\ Len(s) \in Nat \ {0}
        /\ Head(s) = s[1]
        /\ \A i \in 1 .. Len(t) : t[i] = s[i + 1] /\ i + 1 \in 1 .. Len(s)
  BY <1>1, TailAt
<1>3. ASSUME Left(s, v, g) PROVE IsDocker(Head(s), v, g) \/ Left(t, v, g)
  <2>1. PICK i \in 1 .. Len(s) : IsDocker(s[i], v, g)
    BY <1>3 DEF Left
  <2>2. CASE i = 1
    BY <1>2, <2>1, <2>2
  <2>3. CASE i # 1
    <3>1. i - 1 \in 1 .. Len(t) /\ (i - 1) + 1 = i
      BY <1>2, <2>3
    <3>2. IsDocker(t[i - 1], v, g)
      BY <1>2, <2>1, <3>1
    <3> QED  BY <3>1, <3>2 DEF Left
  <2> QED  BY <2>2, <2>3
<1>4. ASSUME Left(t, v, g) PROVE Left(s, v, g)
  <2>1. PICK i \in 1 .. Len(t) : IsDocker(t[i], v, g)
    BY <1>4 DEF Left
  <2> QED  BY <1>2, <2>1 DEF Left
<1>5. ASSUME IsDocker(Head(s), v, g) PROVE Left(s, v, g)
  <2>1. 1 \in 1 .. Len(s)
    BY <1>2
  <2> QED  BY <1>2, <1>5, <2>1 DEF Left
<1>6. ASSUME IsDocker(Head(s), v, g), Left(t, v, g) PROVE FALSE
  <2>1. PICK i \in 1 .. Len(t) : IsDocker(t[i], v, g)
    BY <1>6 DEF Left
  <2>2. i + 1 \in 1 .. Len(s) /\ IsDocker(s[i + 1], v, g) /\ 1 \in 1 .. Len(s)
        /\ IsDocker(s[1], v, g)
    BY <1>2, <1>6, <2>1
  <2>3. i + 1 = 1
    BY <1>1, <2>2 DEF NotTwice, IsDocker
  <2> QED  BY <2>3
<1> QED  BY <1>2, <1>3, <1>4, <1>5, <1>6

-----------------------------------------------------------------------------
(* What an invariant has to say.                                           *)
PlanLeft(s) == s \in Seq(Acts) /\ Chained(s) /\ Ordered(s)

Building == todo # <<>> /\ Head(todo).op \in {"stage", "docker", "unstage", "rename"}

Typed ==
  /\ programs \in Installations
  /\ head \in Content /\ work \in Content
  /\ tags \in [Versions -> SUBSET Content]
  /\ userdoc \in Names
  /\ dist \subseteq Archives /\ staged \subseteq Archives
  /\ digests \in [version : Names, lists : SUBSET Archives, signed : BOOLEAN]
  /\ wheels \subseteq Wheels
  /\ local \in [files : SUBSET Archives, began : Names]
  /\ left \in 0 .. MaxInvocations
  /\ PlanLeft(todo) \/ WheelsLeft(todo)

(* The stable version that a page shows is not a newer one. *)
Released(content) ==
  content.page.stable \in {None} \union ((1 .. content.version) \ DevVersions)

PagesRight == Released(head) /\ Released(work)

(* Between the check and the tag nothing is committed or edited, and what  *)
(* is stamped is nothing new if it has been committed with its stamps.     *)
ChangesKept ==
  work.changes = head.changes \/ (head.changes = None /\ work.changes = work.version)

SameTree ==
  /\ head.version = work.version
  /\ ChangesKept
  /\ StampedBefore(head) => work = head

CommitKept == Ahead(todo, "committed", "tag") \/ SameTree

Has(s, x) == \E i \in 1 .. Len(s) : s[i].op = x

(* The documents are made of conf.py as it was, before anything is archived. *)
DocsMade ==
  /\ Has(todo, "sphinx") => work.conf = local.began
  /\ Ahead(todo, "sphinx", "sdist") \/ userdoc = local.began
  /\ Ahead(todo, "sphinx", "source") \/ userdoc = local.began

DevShown ==
  work.page.dev = IF work.version \in DevVersions THEN work.version ELSE None

Stamped ==
  /\ Doing("page") => work.conf = work.version
  /\ Doing("changes") => work.conf = work.version /\ DevShown
  /\ Doing("tag") => work.conf = work.version /\ DevShown /\ work.changes # None

(* What dist() has made so far. *)
Gathered(forms) ==
  /\ \A f \in dist : /\ f.whole /\ f.version = work.version
                     /\ f.text = local.began /\ f.form \in forms
  /\ local.files = dist \ Of("tar")
  /\ Of("zip") # {}

DistMade ==
  /\ Doing("sdist") => dist = {}
  /\ Doing("gz") => Gathered({"tar", "zip"})
  /\ Doing("bz2") => Gathered({"tar", "zip", "gz"})
  /\ Doing("xz") => Gathered({"tar", "zip", "gz", "bz2"})
  /\ Doing("untar") => Gathered({"tar", "zip", "gz", "bz2", "xz"})
  /\ Doing("digest") => Gathered({"zip", "gz", "bz2", "xz"})
  /\ Doing("sign") => /\ Gathered({"zip", "gz", "bz2", "xz"})
                      /\ digests.version = work.version /\ digests.lists = dist

(* The wheels that are there for an interpreter. *)
WheelsOf(v, i) ==
  {w \in wheels : /\ w.version = v /\ w.arch = i.arch /\ w.libc = i.libc
                  /\ w.python = i.python /\ w.abi = i.abi}

StagedUsed ==
  \A f \in staged : f.whole =>
    /\ todo # <<>> /\ Head(todo).op \in {"docker", "unstage"}
    /\ Head(todo).file.version = f.version

OneWheel(v, g, i) ==
  IF Left(todo, v, g) THEN WheelsOf(v, i) = {}
  ELSE \E w \in wheels : WheelsOf(v, i) = {w}

(* The wheels of a package in an image: still to come, or there.           *)
Served(v, g) ==
  /\ Left(todo, v, g) \/ Found(g) # {}
  /\ \A i \in Found(g) : OneWheel(v, g, i)

IsWanted(w) == \E f \in Of("gz"), g \in Groups : \E i \in Found(g) : IsFor(w, f, i)

WheelsMade ==
  /\ \A w \in wheels : w.tags # {}
  /\ Building =>
       /\ \A w \in wheels : IsWanted(w)
       /\ \A f \in Of("gz"), g \in Groups : Served(f.version, g)

ReleaseInv ==
  /\ Typed /\ PagesRight /\ CommitKept /\ TagNamesVersion /\ DocsMade /\ Stamped
  /\ DistMade /\ StagedUsed /\ WheelsMade

-----------------------------------------------------------------------------
(* How a step changes what is left.                                        *)
Passes ==
  /\ todo # <<>> /\ todo' = Tail(todo)
  /\ todo' = <<>> => local' = NoLocals
  /\ todo' # <<>> => local'.began = local.began
  /\ left' = left

Ends == todo # <<>> /\ todo' = <<>> /\ local' = NoLocals /\ left' = left

Unfolds == Doing("newwheels") /\ todo' = WheelSteps /\ local' = local /\ left' = left

LEMMA DonePasses ==
  /\ \A op : Doing(op) /\ Done => Passes
  /\ \A op : Doing(op) /\ Fail => Ends
  BY DEF Doing, Done, DoneWith, Fail, Passes, Ends

LEMMA StepTurns ==
  ASSUME Typed, Step
  PROVE  Passes \/ Ends \/ Unfolds
<1>1. ASSUME NEW op, NEW files, Doing(op), DoneWith([local EXCEPT !.files = files])
      PROVE  Passes
  <2>1. [local EXCEPT !.files = files].began = local.began
    BY DEF Typed
  <2> QED  BY <1>1, <2>1 DEF Doing, DoneWith, Passes
<1>2. CASE Run
  BY <1>2, DonePasses DEF Run
<1>3. CASE StampConf
  BY <1>3, DonePasses DEF StampConf
<1>4. CASE StampPage
  BY <1>4, DonePasses DEF StampPage
<1>5. CASE StampChanges
  BY <1>5, DonePasses DEF StampChanges
<1>6. CASE CheckCommitted
  BY <1>6, DonePasses DEF CheckCommitted
<1>7. CASE AddTag
  BY <1>7, DonePasses DEF AddTag
<1>8. CASE Sphinx
  BY <1>8, DonePasses DEF Sphinx
<1>9. CASE Wipe
  BY <1>9, DonePasses DEF Wipe
<1>10. CASE Sdist
  BY <1>1, <1>10, DonePasses DEF Sdist
<1>11. CASE Source
  BY <1>11, DonePasses DEF Source
<1>12. ASSUME NEW form \in DOMAIN Compressors, Compress(form) PROVE Passes \/ Ends
  <2>1. Doing(form) /\ Done => Passes
    BY DonePasses
  <2>2. Doing(form) /\ Fail => Ends
    BY DonePasses
  <2>3. Doing(form) /\ DoneWith([local EXCEPT !.files = local.files \union Compressed(form, TRUE)])
          => Passes
    BY <1>1
  <2> QED  BY <1>12, <2>1, <2>2, <2>3 DEF Compress
<1>13. CASE Untar
  BY <1>13, DonePasses DEF Untar
<1>14. CASE Digest
  BY <1>14, DonePasses DEF Digest
<1>15. CASE Sign
  BY <1>15, DonePasses DEF Sign
<1>16. CASE CopyChanges
  BY <1>16, DonePasses DEF CopyChanges
<1>17. CASE Emulate
  BY <1>17, DonePasses DEF Emulate
<1>18. CASE NewWheels
  <2>1. Doing("newwheels") /\ Fail => Ends
    BY DonePasses
  <2> QED  BY <1>18, <2>1 DEF NewWheels, Unfolds
<1>19. CASE Stage
  BY <1>19, DonePasses DEF Stage
<1>20. CASE Docker
  BY <1>20, DonePasses DEF Docker, Docked, DockedInPart
<1>21. CASE Unstage
  BY <1>21, DonePasses DEF Unstage
<1>22. CASE Rename
  BY <1>22, DonePasses DEF Rename
<1>23. CASE UploadSource \/ UploadWheels
  BY <1>23, DonePasses DEF UploadSource, UploadWheels, Upload
<1>24. CASE Clean
  BY <1>24, DonePasses DEF Clean
<1> QED
  BY <1>2, <1>3, <1>4, <1>5, <1>6, <1>7, <1>8, <1>9, <1>10, <1>11, <1>12, <1>13, <1>14,
     <1>15, <1>16, <1>17, <1>18, <1>19, <1>20, <1>21, <1>22, <1>23, <1>24 DEF Step

(* Which step it is, by its name. *)
LEMMA StepIs ==
  ASSUME Step
  PROVE  /\ Doing("conf") => StampConf
         /\ Doing("page") => StampPage
         /\ Doing("changes") => StampChanges
         /\ Doing("committed") => CheckCommitted
         /\ Doing("tag") => AddTag
         /\ Doing("sphinx") => Sphinx
         /\ Doing("wipe") => Wipe
         /\ Doing("sdist") => Sdist
         /\ Doing("source") => Source
         /\ Doing("gz") => Compress("gz")
         /\ Doing("bz2") => Compress("bz2")
         /\ Doing("xz") => Compress("xz")
         /\ Doing("untar") => Untar
         /\ Doing("digest") => Digest
         /\ Doing("sign") => Sign
         /\ Doing("changelog") => CopyChanges
         /\ Doing("newwheels") => NewWheels
         /\ Doing("stage") => Stage
         /\ Doing("docker") => Docker
         /\ Doing("unstage") => Unstage
         /\ Doing("rename") => Rename
         /\ Doing("clean") => Clean
<1>1. \A x, y : Doing(x) /\ Doing(y) => x = y
  BY DEF Doing
<1> QED
  BY <1>1 DEF Step, Run, StampConf, StampPage, StampChanges, CheckCommitted, AddTag, Sphinx,
       Wipe, Sdist, Source, Compress, Compressors, Untar, Digest, Sign, CopyChanges, Emulate,
       NewWheels, Stage, Docker, Unstage, Rename, UploadSource, UploadWheels, Clean

(* What a step leaves alone. *)
LEMMA StepKeeps ==
  ASSUME Step
  PROVE  /\ programs' = programs /\ head' = head
         /\ work' # work => Doing("conf") \/ Doing("page") \/ Doing("changes")
         /\ tags' # tags => Doing("tag")
         /\ userdoc' # userdoc => Doing("sphinx") \/ Doing("clean")
         /\ dist' # dist => \/ Doing("wipe") \/ Doing("sdist") \/ Doing("source")
                            \/ Doing("gz") \/ Doing("bz2") \/ Doing("xz")
                            \/ Doing("untar") \/ Doing("changelog") \/ Doing("clean")
         /\ digests' # digests => \/ Doing("wipe") \/ Doing("digest") \/ Doing("sign")
                                  \/ Doing("clean")
         /\ staged' # staged => Doing("stage") \/ Doing("docker") \/ Doing("unstage")
         /\ wheels' # wheels => \/ Doing("newwheels") \/ Doing("docker") \/ Doing("rename")
                                \/ Doing("clean")
  BY DEF Step, Run, StampConf, StampPage, StampChanges, CheckCommitted, AddTag, Sphinx,
       Wipe, Sdist, Source, Compress, Compressors, Untar, Digest, Sign, CopyChanges, Emulate,
       NewWheels, Stage, Docker, Docked, DockedInPart, Unstage, Rename, UploadSource,
       UploadWheels, Upload, Clean, Rewrite, InDist, InWheel, inDist, inWheel

-----------------------------------------------------------------------------
(* The plan stays in order while it is worked off.                         *)

(* What is left is of one kind or the other. *)
LEMMA TodoKinds ==
  ASSUME todo # <<>>
  PROVE  /\ PlanLeft(todo) => Head(todo).op \in Ops /\ ~Building
         /\ WheelsLeft(todo) => Head(todo) \in WheelActs /\ Building
<1>1. ASSUME PlanLeft(todo) PROVE Head(todo).op \in Ops /\ ~Building
  <2>1. todo \in Seq(Acts)
    BY <1>1 DEF PlanLeft
  <2>2. Head(todo) \in Acts
    BY <2>1, TailAt
  <2> QED  BY <2>2 DEF Acts, Ops, Building
<1>2. ASSUME WheelsLeft(todo) PROVE Head(todo) \in WheelActs /\ Building
  <2>1. todo \in Seq(WheelActs)
    BY <1>2 DEF WheelsLeft
  <2>2. Head(todo) \in WheelActs
    BY <2>1, TailAt
  <2> QED  BY <2>2, WheelActIs DEF Building
<1> QED  BY <1>1, <1>2

LEMMA EmptyLeft ==
  ASSUME NEW s, s = <<>>
  PROVE  /\ PlanLeft(s) /\ \A x, y : Ahead(s, x, y) /\ ~Has(s, x)
         /\ \A v, g : ~Left(s, v, g)
<1>1. s \in Seq(Acts) /\ Len(s) = 0
  OBVIOUS
<1> QED
  BY <1>1 DEF PlanLeft, Chained, Ordered, Behind, Never, Ahead, Has, Left

LEMMA WheelOrder ==
  ASSUME NEW s \in Seq(WheelActs)
  PROVE  \A x : x \notin {"stage", "docker", "unstage", "rename"} =>
           /\ ~Has(s, x)
           /\ \A y : Ahead(s, y, x)
<1>1. \A i \in 1 .. Len(s) : s[i].op \in {"stage", "docker", "unstage", "rename"}
  BY WheelActIs
<1> QED  BY <1>1 DEF Has, Ahead

LEMMA TodoStep ==
  ASSUME Typed, Step
  PROVE  PlanLeft(todo)' \/ WheelsLeft(todo)'
<1>1. CASE todo' = <<>>
  <2>1. PlanLeft(todo')
    BY <1>1, EmptyLeft
  <2> QED  BY <2>1 DEF PlanLeft, Chained, Ordered, Behind, Never
<1>2. CASE Passes /\ PlanLeft(todo)
  <2>1. PlanLeft(Tail(todo))
    BY <1>2, TailChained, TailAt DEF PlanLeft, Passes
  <2>2. PlanLeft(todo')
    BY <1>2, <2>1 DEF Passes
  <2> QED  BY <2>2 DEF PlanLeft, Chained, Ordered, Behind, Never
<1>3. ASSUME NEW s, s = todo', dist' = dist, WheelsLeft(s) PROVE WheelsLeft(todo)'
  BY <1>3 DEF WheelsLeft, Flow, NotTwice, RenameLast, Within, Of
<1>4. CASE Passes /\ WheelsLeft(todo)
  <2>1. todo # <<>> /\ Building
    BY <1>4, TodoKinds DEF Passes
  <2>2. dist' = dist
    BY <2>1, StepKeeps DEF Building, Doing
  <2>3. WheelsLeft(Tail(todo))
    BY <1>4, <2>1, TailWheels
  <2> QED  BY <1>3, <1>4, <2>2, <2>3 DEF Passes
<1>5. CASE Unfolds
  <2>1. dist' = dist
    BY <1>5, StepKeeps DEF Unfolds, Doing
  <2>2. WheelsLeft(WheelSteps)
    BY WheelStepsGood DEF Typed
  <2> QED  BY <1>3, <1>5, <2>1, <2>2 DEF Unfolds
<1> QED  BY <1>1, <1>2, <1>4, <1>5, StepTurns DEF Typed, Ends

(* A step that is not the first of a task comes after the one it needs. *)
LEMMA CameFrom ==
  ASSUME Typed, Step, todo' # <<>>, NEW x, NEW y, Head(todo').op = y,
         y \in Seconds,
         PlanLeft(todo) => Behind(todo, x, y)
  PROVE  Doing(x) /\ Passes
<1>1. CASE Passes /\ PlanLeft(todo)
  <2>1. Head(todo).op = x
    BY <1>1, TailOrder DEF Passes, PlanLeft
  <2> QED  BY <1>1, <2>1 DEF Doing, Passes
<1>2. ASSUME NEW s \in Seq(WheelActs), s = todo' PROVE FALSE
  <2>1. Head(s) \in WheelActs
    BY <1>2, TailAt
  <2> QED  BY <1>2, <2>1, WheelActIs DEF Seconds
<1>3. CASE Passes /\ WheelsLeft(todo)
  <2>1. Tail(todo) \in Seq(WheelActs)
    BY <1>3, TailAt DEF Passes, WheelsLeft
  <2> QED  BY <1>2, <1>3, <2>1 DEF Passes
<1>4. CASE Unfolds
  <2>1. WheelSteps \in Seq(WheelActs)
    BY WheelStepsGood DEF Typed, WheelsLeft
  <2> QED  BY <1>2, <1>4, <2>1 DEF Unfolds
<1> QED  BY <1>1, <1>3, <1>4, StepTurns DEF Typed, Ends

(* The same of a step that is needed sometime before. *)
LEMMA StillAhead ==
  ASSUME Typed, Step, NEW x, NEW y, y \in Ops, Ahead(todo, x, y)
  PROVE  Ahead(todo', x, y) \/ (Doing(x) /\ Passes)
<1>1. CASE Passes
  <2>1. \E S : todo \in Seq(S)
    BY DEF Typed, PlanLeft, WheelsLeft
  <2>2. Ahead(Tail(todo), x, y) \/ Head(todo).op = x
    BY <1>1, <2>1, TailOrder DEF Passes
  <2> QED  BY <1>1, <2>2 DEF Passes, Doing
<1>2. CASE Unfolds
  <2>1. WheelSteps \in Seq(WheelActs)
    BY WheelStepsGood DEF Typed, WheelsLeft
  <2>2. y \notin {"stage", "docker", "unstage", "rename"}
    BY DEF Ops
  <2>3. Ahead(WheelSteps, x, y)
    BY <2>1, <2>2, WheelOrder
  <2> QED  BY <1>2, <2>3 DEF Unfolds
<1>3. CASE Ends
  BY <1>3, EmptyLeft DEF Ends
<1> QED  BY <1>1, <1>2, <1>3, StepTurns

LEMMA StillHas ==
  ASSUME Typed, Step, NEW x \in Ops, Has(todo', x)
  PROVE  Has(todo, x) /\ Passes
<1>1. CASE Passes
  <2>1. PICK S : todo \in Seq(S)
    BY DEF Typed, PlanLeft, WheelsLeft
  <2>2. PICK i \in 1 .. Len(Tail(todo)) : Tail(todo)[i].op = x
    BY <1>1 DEF Passes, Has
  <2>3. Tail(todo)[i] = todo[i + 1] /\ i + 1 \in 1 .. Len(todo)
    BY <1>1, <2>1, TailAt DEF Passes
  <2> QED  BY <1>1, <2>2, <2>3 DEF Has
<1>2. CASE Unfolds
  <2>1. WheelSteps \in Seq(WheelActs)
    BY WheelStepsGood DEF Typed, WheelsLeft
  <2>2. x \notin {"stage", "docker", "unstage", "rename"}
    BY DEF Ops
  <2> QED  BY <1>2, <2>1, <2>2, WheelOrder DEF Unfolds
<1>3. CASE Ends
  BY <1>3, EmptyLeft DEF Ends
<1> QED  BY <1>1, <1>2, <1>3, StepTurns

-----------------------------------------------------------------------------
LEMMA CommitStep ==
  ASSUME Typed, CommitKept, Step
  PROVE  CommitKept'
<1>1. work' # work => work'.version = work.version
  <2>1. ASSUME NEW c, NEW conf, c = [work EXCEPT !.conf = conf] PROVE c.version = work.version
    BY <2>1 DEF Typed, Content
  <2>2. ASSUME NEW c, NEW page, c = [work EXCEPT !.page = page] PROVE c.version = work.version
    BY <2>2 DEF Typed, Content
  <2>3. ASSUME NEW c, NEW x, c = [work EXCEPT !.changes = x] PROVE c.version = work.version
    BY <2>3 DEF Typed, Content
  <2>4. CASE Doing("conf")
    BY <2>1, <2>4, StepIs DEF StampConf, Rewrite
  <2>5. CASE Doing("page")
    BY <2>2, <2>5, StepIs DEF StampPage, Rewrite
  <2>6. CASE Doing("changes")
    BY <2>3, <2>6, StepIs DEF StampChanges, Rewrite
  <2> QED  BY <2>4, <2>5, <2>6, StepKeeps
<1>2. head' = head /\ work'.version = work.version
  BY <1>1, StepKeeps
<1>3. CASE todo' = <<>>
  <2>1. Ahead(todo', "committed", "tag")
    BY <1>3, EmptyLeft
  <2>2. Ahead(todo, "committed", "tag")'
    BY <2>1 DEF Ahead
  <2> QED  BY <2>2 DEF CommitKept
<1>4. CASE todo' # <<>> /\ Ahead(todo, "committed", "tag")
  <2>1. CASE Ahead(todo', "committed", "tag")
    <3>1. Ahead(todo, "committed", "tag")'
      BY <2>1 DEF Ahead
    <3> QED  BY <3>1 DEF CommitKept
  <2>2. CASE Doing("committed") /\ Passes
    <3>1. work = head /\ work' = work
      BY <1>4, <2>2, StepIs DEF CheckCommitted, Fail, Committed
    <3>2. SameTree'
      BY <1>2, <3>1 DEF SameTree, ChangesKept
    <3> QED  BY <3>2 DEF CommitKept
  <2>3. "tag" \in Ops
    BY DEF Ops
  <2> QED  BY <1>4, <2>1, <2>2, <2>3, StillAhead
<1>5. CASE todo' # <<>> /\ SameTree
  <2>1. ASSUME StampedBefore(head), work = head PROVE work' = work
    <3>1. /\ work.conf = work.version /\ work.page = Page /\ work.changes # None
          /\ work \in Content
      BY <2>1 DEF StampedBefore, Page, Typed
    <3>2. CASE Doing("conf")
      <4>1. work' = [work EXCEPT !.conf = work.version]
        BY <1>5, <3>2, StepIs DEF StampConf, Rewrite, Fail
      <4> QED  BY <3>1, <4>1 DEF Content
    <3>3. CASE Doing("page")
      <4>1. work' = [work EXCEPT !.page = Page]
        BY <1>5, <3>3, StepIs DEF StampPage, Rewrite, Fail
      <4> QED  BY <3>1, <4>1 DEF Content
    <3>4. CASE Doing("changes")
      <4>1. work' = [work EXCEPT !.changes = work.changes]
        BY <1>5, <3>1, <3>4, StepIs DEF StampChanges, Rewrite, Fail
      <4> QED  BY <3>1, <4>1 DEF Content
    <3> QED  BY <3>2, <3>3, <3>4, StepKeeps
  <2>2. StampedBefore(head') => work' = head'
    BY <1>2, <1>5, <2>1 DEF SameTree
  <2>3. ChangesKept'
    <3>1. work \in Content
      BY DEF Typed
    <3>2. CASE Doing("conf")
      <4>1. work' = [work EXCEPT !.conf = work.version]
        BY <1>5, <3>2, StepIs DEF StampConf, Rewrite, Fail
      <4>2. work'.changes = work.changes
        BY <3>1, <4>1 DEF Content
      <4> QED  BY <1>2, <1>5, <4>2 DEF SameTree, ChangesKept
    <3>3. CASE Doing("page")
      <4>1. work' = [work EXCEPT !.page = Page]
        BY <1>5, <3>3, StepIs DEF StampPage, Rewrite, Fail
      <4>2. work'.changes = work.changes
        BY <3>1, <4>1 DEF Content
      <4> QED  BY <1>2, <1>5, <4>2 DEF SameTree, ChangesKept
    <3>4. CASE Doing("changes")
      <4>1. PICK x : /\ x = IF work.changes = None THEN work.version ELSE work.changes
                     /\ work' = [work EXCEPT !.changes = x]
        BY <1>5, <3>4, StepIs DEF StampChanges, Rewrite, Fail
      <4>2. work'.changes = x
        BY <3>1, <4>1 DEF Content
      <4> QED  BY <1>2, <1>5, <4>1, <4>2 DEF SameTree, ChangesKept
    <3>5. CASE work' = work
      BY <1>2, <1>5, <3>5 DEF SameTree, ChangesKept
    <3> QED  BY <3>2, <3>3, <3>4, <3>5, StepKeeps
  <2>4. SameTree'
    BY <1>2, <1>5, <2>2, <2>3 DEF SameTree, StampedBefore
  <2> QED  BY <2>4 DEF CommitKept
<1> QED  BY <1>3, <1>4, <1>5 DEF CommitKept

(* There is nothing to be waited for when the tag is made. *)
LEMMA TagTime ==
  ASSUME Typed, CommitKept, Doing("tag")
  PROVE  SameTree
<1>1. PICK S : todo \in Seq(S)
  BY DEF Typed, PlanLeft, WheelsLeft
<1>2. ~Ahead(todo, "committed", "tag")
  BY <1>1, TailOrder DEF Doing
<1> QED  BY <1>2 DEF CommitKept

LEMMA TagStep ==
  ASSUME Typed, CommitKept, TagNamesVersion, Step
  PROVE  TagNamesVersion'
<1>1. CASE tags' = tags
  BY <1>1 DEF TagNamesVersion
<1>2. CASE tags' # tags
  <2>1. Doing("tag") /\ AddTag
    BY <1>2, StepKeeps, StepIs
  <2>2. head.version = work.version
    BY <2>1, TagTime DEF SameTree
  <2>3. tags' = [tags EXCEPT ![work.version] = {head}] /\ tags \in [Versions -> SUBSET Content]
    BY <1>2, <2>1 DEF AddTag, Typed
  <2>4. ASSUME NEW v \in Versions, NEW commit \in tags'[v] PROVE commit.version = v
    <3>1. CASE v = work.version
      BY <2>2, <2>3, <2>4, <3>1
    <3>2. CASE v # work.version
      BY <2>3, <2>4, <3>2 DEF TagNamesVersion
    <3> QED  BY <3>1, <3>2
  <2> QED  BY <2>4 DEF TagNamesVersion
<1> QED  BY <1>1, <1>2

-----------------------------------------------------------------------------
(* The working tree, the commit, the tags and the documentation.           *)

LEMMA ContentParts ==
  ASSUME NEW c \in Content
  PROVE  /\ c.version \in Versions /\ c.conf \in Versions \union {Lost}
         /\ c.changes \in Versions \union {None, Lost}
         /\ c.page \in [stable : Versions \union {None}, dev : Versions \union {None},
                        rest : Versions \union {Lost}]
         /\ \A x : LET d == [c EXCEPT !.conf = x]
                   IN  /\ d.version = c.version /\ d.page = c.page /\ d.changes = c.changes
                       /\ d.conf = x /\ (x \in Versions \union {Lost} => d \in Content)
         /\ \A x : LET d == [c EXCEPT !.changes = x]
                   IN  /\ d.version = c.version /\ d.page = c.page /\ d.conf = c.conf
                       /\ d.changes = x /\ (x \in Versions \union {None, Lost} => d \in Content)
         /\ \A x : LET d == [c EXCEPT !.page = x]
                   IN  /\ d.version = c.version /\ d.conf = c.conf /\ d.changes = c.changes
                       /\ d.page = x
                       /\ (c.page = x => d \in Content)
                       /\ (x \in [stable : Versions \union {None}, dev : Versions \union {None},
                                  rest : Versions \union {Lost}] => d \in Content)
  BY DEF Content

PageType ==
  [stable : Versions \union {None}, dev : Versions \union {None},
   rest : Versions \union {Lost}]

LEMMA PageOfRight ==
  ASSUME NEW v \in Versions
  PROVE  /\ PageOf(v) \in PageType
         /\ PageOf(v).stable \in {None} \union ((1 .. v) \ DevVersions)
         /\ PageOf(v).dev = IF v \in DevVersions THEN v ELSE None
<1>1. v \in 1 .. v /\ v \in Nat
  BY DEF Versions
<1> QED  BY <1>1 DEF PageOf, PageType

(* The page that is made for the version of the working tree. *)
LEMMA PageRight ==
  ASSUME Typed, PagesRight
  PROVE  /\ Page \in PageType
         /\ Page.stable \in {None} \union ((1 .. work.version) \ DevVersions)
         /\ Page.dev = IF work.version \in DevVersions THEN work.version ELSE None
<1>1. work.version \in Versions /\ work.page \in PageType
  BY ContentParts DEF Typed, PageType
<1>2. CASE work.version \in DevVersions /\ work.page.stable # None
  <2>1. Page = [work.page EXCEPT !.dev = work.version]
    BY <1>2 DEF Page, PageFor
  <2>2. Page \in PageType /\ Page.stable = work.page.stable /\ Page.dev = work.version
    BY <1>1, <2>1 DEF PageType
  <2> QED  BY <1>2, <2>2 DEF PagesRight, Released
<1>3. CASE ~(work.version \in DevVersions /\ work.page.stable # None)
  <2>1. Page = PageOf(work.version)
    BY <1>3 DEF Page, PageFor
  <2> QED  BY <1>1, <2>1, PageOfRight
<1> QED  BY <1>2, <1>3

LEMMA NoPageRight == NoPage \in PageType /\ NoPage.stable = None
  BY DEF NoPage, PageType

(* What the steps of version() do to the files. *)
LEMMA WorkStep ==
  ASSUME Typed, PagesRight, Step
  PROVE  /\ work' \in Content /\ work'.version = work.version
         /\ Released(work')
         /\ work'.conf # work.conf => Doing("conf")
<1>0. work \in Content /\ work.version \in Versions
  BY ContentParts DEF Typed
<1>1. CASE Doing("conf")
  <2>1. PICK x \in Versions \union {Lost} : work' = [work EXCEPT !.conf = x]
    <3>1. work.conf \in Versions \union {Lost}
      BY <1>0, ContentParts
    <3> QED  BY <1>0, <1>1, <3>1, StepIs DEF StampConf, Rewrite
  <2>2. work' \in Content /\ work'.version = work.version /\ work'.page = work.page
    BY <1>0, <2>1, ContentParts
  <2> QED  BY <1>1, <2>2 DEF PagesRight, Released
<1>2. CASE Doing("page")
  <2>1. PICK x \in PageType :
          /\ work' = [work EXCEPT !.page = x]
          /\ x.stable \in {None} \union ((1 .. work.version) \ DevVersions)
    <3>1. work.page \in PageType
      BY <1>0, ContentParts DEF PageType
    <3>2. work.page.stable \in {None} \union ((1 .. work.version) \ DevVersions)
      BY DEF PagesRight, Released
    <3> QED  BY <1>2, <3>1, <3>2, StepIs, PageRight, NoPageRight DEF StampPage, Rewrite
  <2>2. /\ work' \in Content /\ work'.version = work.version /\ work'.page = x
        /\ work'.conf = work.conf
    BY <1>0, <2>1, ContentParts DEF PageType
  <2> QED  BY <2>1, <2>2 DEF Released
<1>3. CASE Doing("changes")
  <2>1. PICK x \in Versions \union {None, Lost} : work' = [work EXCEPT !.changes = x]
    <3>1. work.changes \in Versions \union {None, Lost}
      BY <1>0, ContentParts
    <3> QED  BY <1>0, <1>3, <3>1, StepIs DEF StampChanges, Rewrite
  <2>2. /\ work' \in Content /\ work'.version = work.version /\ work'.page = work.page
        /\ work'.conf = work.conf
    BY <1>0, <2>1, ContentParts
  <2> QED  BY <2>2 DEF PagesRight, Released
<1>4. CASE work' = work
  BY <1>0, <1>4 DEF PagesRight
<1> QED  BY <1>1, <1>2, <1>3, <1>4, StepKeeps

LEMMA PagesStep ==
  ASSUME Typed, PagesRight, Step
  PROVE  PagesRight'
<1>1. head' = head /\ Released(work')
  BY StepKeeps, WorkStep
<1> QED  BY <1>1 DEF PagesRight, Released

LEMMA DoingNext ==
  ASSUME NEW y, Doing(y)'
  PROVE  todo' # <<>> /\ Head(todo').op = y
  BY DEF Doing

LEMMA StampedStep ==
  ASSUME Typed, PagesRight, Stamped, Step
  PROVE  Stamped'
<1>0. work \in Content /\ work.version \in Versions /\ None \notin Versions /\ None # Lost
  BY ContentParts DEF Typed, Versions, None, Lost
<1>1. PlanLeft(todo) => /\ Behind(todo, "conf", "page") /\ Behind(todo, "page", "changes")
                        /\ Behind(todo, "changes", "tag")
  BY DEF PlanLeft, Chained
<1>2. ASSUME Doing("page")' PROVE work'.conf = work'.version
  <2>1. Doing("conf") /\ Passes
    BY <1>1, <1>2, DoingNext, CameFrom DEF Seconds
  <2>2. work' = [work EXCEPT !.conf = work.version]
    BY <1>2, <2>1, DoingNext, StepIs DEF StampConf, Rewrite, Fail
  <2> QED  BY <1>0, <2>2, ContentParts
<1>3. ASSUME Doing("changes")' PROVE work'.conf = work'.version /\ DevShown'
  <2>1. Doing("page") /\ Passes
    BY <1>1, <1>3, DoingNext, CameFrom DEF Seconds
  <2>2. work' = [work EXCEPT !.page = Page]
    BY <1>3, <2>1, DoingNext, StepIs DEF StampPage, Rewrite, Fail
  <2>3. work'.conf = work.conf /\ work'.version = work.version /\ work'.page = Page
    BY <1>0, <2>2, ContentParts
  <2>4. work'.page.dev = IF work'.version \in DevVersions THEN work'.version ELSE None
    BY <2>3, PageRight
  <2> QED  BY <2>1, <2>3, <2>4 DEF Stamped, DevShown
<1>4. ASSUME Doing("tag")'
      PROVE  work'.conf = work'.version /\ DevShown' /\ work'.changes # None
  <2>1. Doing("changes") /\ Passes
    BY <1>1, <1>4, DoingNext, CameFrom DEF Seconds
  <2>2. work' = [work EXCEPT !.changes = IF @ = None THEN work.version ELSE @]
    BY <1>4, <2>1, DoingNext, StepIs DEF StampChanges, Rewrite, Fail
  <2>3. PICK x : /\ x = (IF work.changes = None THEN work.version ELSE work.changes)
                 /\ work' = [work EXCEPT !.changes = x]
    BY <2>2
  <2>4. /\ work'.conf = work.conf /\ work'.version = work.version
        /\ work'.page = work.page /\ work'.changes = x
    BY <1>0, <2>3, ContentParts
  <2>5. x # None
    BY <1>0, <2>3
  <2> QED  BY <2>1, <2>4, <2>5 DEF Stamped, DevShown
<1> QED  BY <1>2, <1>3, <1>4 DEF Stamped

-----------------------------------------------------------------------------
LEMMA DocsStep ==
  ASSUME Typed, PagesRight, DocsMade, Step
  PROVE  DocsMade'
<1>0. {"sphinx", "sdist", "source", "conf", "clean"} \subseteq Ops
  BY DEF Ops
<1>1. ASSUME Has(todo', "sphinx") PROVE work'.conf = local'.began
  <2>1. Has(todo, "sphinx") /\ Passes
    BY <1>0, <1>1, StillHas
  <2>2. local'.began = local.began
    BY <1>1, <2>1, EmptyLeft DEF Passes
  <2>3. ~Doing("conf")
    <3>1. SUFFICES ASSUME Doing("conf") PROVE FALSE
      OBVIOUS
    <3>2. PICK i \in 1 .. Len(Tail(todo)) : Tail(todo)[i].op = "sphinx"
      BY <1>1, <2>1 DEF Passes, Has
    <3>3. PlanLeft(todo)
      BY <3>1, TodoKinds DEF Typed, Doing, Building
    <3>4. todo \in Seq(Acts) /\ Never(todo, "conf", "sphinx")
      BY <3>3 DEF PlanLeft, Ordered
    <3>5. /\ Tail(todo)[i] = todo[i + 1] /\ i + 1 \in 1 .. Len(todo) /\ Head(todo) = todo[1]
          /\ Len(todo) \in Nat \ {0}
      BY <2>1, <3>4, TailAt DEF Passes
    <3>6. 1 \in 1 .. Len(todo) /\ i + 1 \in 1 + 1 .. Len(todo)
      BY <3>5
    <3> QED  BY <3>1, <3>2, <3>4, <3>5, <3>6 DEF Never, Doing
  <2>4. work'.conf = work.conf
    BY <2>3, WorkStep
  <2> QED  BY <2>1, <2>2, <2>4 DEF DocsMade
<1>2. ASSUME NEW y \in {"sdist", "source"},
             Ahead(todo, "sphinx", y) \/ userdoc = local.began
      PROVE  Ahead(todo', "sphinx", y) \/ userdoc' = local'.began
  <2>0. y \in Ops
    BY <1>0
  <2>a. SUFFICES ASSUME ~Ahead(todo', "sphinx", y)
                 PROVE  userdoc' = local'.began
    OBVIOUS
  <2>b. Has(todo', y)
    BY <2>a DEF Ahead, Has
  <2>c. Has(todo, y) /\ Passes /\ todo' # <<>>
    BY <2>0, <2>b, StillHas, EmptyLeft
  <2>d. local'.began = local.began
    BY <2>c DEF Passes
  <2>1. CASE Ahead(todo, "sphinx", y)
    <3>1. Doing("sphinx") /\ Passes
      BY <2>0, <2>1, <2>a, StillAhead
    <3>2. userdoc' = work.conf
      BY <2>c, <3>1, StepIs DEF Sphinx, Fail
    <3>3. 1 \in 1 .. Len(todo) /\ Head(todo) = todo[1]
      <4>1. PICK S : todo \in Seq(S)
        BY DEF Typed, PlanLeft, WheelsLeft
      <4> QED  BY <2>c, <4>1 DEF Passes
    <3>4. Has(todo, "sphinx")
      BY <3>1, <3>3 DEF Has, Doing
    <3> QED  BY <2>d, <3>2, <3>4 DEF DocsMade
  <2>2. CASE userdoc = local.began /\ ~Ahead(todo, "sphinx", y)
    <3>1. ~Doing("clean")
      <4>1. SUFFICES ASSUME Doing("clean") PROVE FALSE
        OBVIOUS
      <4>2. PICK i \in 1 .. Len(Tail(todo)) : Tail(todo)[i].op = y
        BY <2>b, <2>c DEF Passes, Has
      <4>3. PlanLeft(todo)
        BY <4>1, TodoKinds DEF Typed, Doing, Building
      <4>4. todo \in Seq(Acts) /\ Never(todo, "clean", y)
        BY <4>3 DEF PlanLeft, Ordered
      <4>5. /\ Tail(todo)[i] = todo[i + 1] /\ i + 1 \in 1 .. Len(todo) /\ Head(todo) = todo[1]
            /\ Len(todo) \in Nat \ {0}
        BY <2>c, <4>4, TailAt DEF Passes
      <4>6. 1 \in 1 .. Len(todo) /\ i + 1 \in 1 + 1 .. Len(todo)
        BY <4>5
      <4> QED  BY <4>1, <4>2, <4>4, <4>5, <4>6 DEF Never, Doing
    <3>2. CASE Doing("sphinx")
      <4>1. userdoc' = work.conf
        BY <2>c, <3>2, StepIs DEF Sphinx, Fail
      <4>2. 1 \in 1 .. Len(todo) /\ Head(todo) = todo[1]
        <5>1. PICK S : todo \in Seq(S)
          BY DEF Typed, PlanLeft, WheelsLeft
        <5> QED  BY <2>c, <5>1 DEF Passes
      <4>3. Has(todo, "sphinx")
        BY <3>2, <4>2 DEF Has, Doing
      <4> QED  BY <2>d, <4>1, <4>3 DEF DocsMade
    <3>3. CASE ~Doing("sphinx")
      <4>1. userdoc' = userdoc
        BY <3>1, <3>3, StepKeeps
      <4> QED  BY <2>2, <2>d, <4>1
    <3> QED  BY <3>2, <3>3
  <2> QED  BY <1>2, <2>1, <2>2
<1>3. /\ Has(todo', "sphinx") => work'.conf = local'.began
      /\ Ahead(todo', "sphinx", "sdist") \/ userdoc' = local'.began
      /\ Ahead(todo', "sphinx", "source") \/ userdoc' = local'.began
  BY <1>1, <1>2 DEF DocsMade
<1> QED  BY <1>3 DEF DocsMade, Has, Ahead

-----------------------------------------------------------------------------
(* What is in dist/.                                                       *)

(* Nothing is waited for when the documents are archived. *)
LEMMA DocsTime ==
  ASSUME Typed, DocsMade, NEW y \in {"sdist", "source"}, Doing(y)
  PROVE  userdoc = local.began
<1>1. PICK S : todo \in Seq(S)
  BY DEF Typed, PlanLeft, WheelsLeft
<1>2. ~Ahead(todo, "sphinx", y)
  BY <1>1, TailOrder DEF Doing
<1> QED  BY <1>2 DEF DocsMade

LEMMA FileTyped ==
  ASSUME Typed, NEW form \in Forms, NEW text \in Names, NEW whole \in BOOLEAN
  PROVE  /\ File(form, text, whole) \in Archives
         /\ File(form, text, whole).form = form /\ File(form, text, whole).text = text
         /\ File(form, text, whole).whole = whole
         /\ File(form, text, whole).version = work.version
<1>1. work.version \in Versions
  BY ContentParts DEF Typed
<1> QED  BY <1>1 DEF File, Archives

LEMMA CompressedTyped ==
  ASSUME Typed, NEW form \in Forms, NEW whole \in BOOLEAN
  PROVE  \A f \in Compressed(form, whole) :
           /\ f \in Archives /\ f.form = form /\ f.whole = whole
           /\ \E t \in Of("tar") : f.version = t.version /\ f.text = t.text
<1>1. SUFFICES ASSUME NEW t \in Of("tar"), NEW f,
                      f = [t EXCEPT !.form = form, !.whole = whole]
               PROVE  /\ f \in Archives /\ f.form = form /\ f.whole = whole
                      /\ f.version = t.version /\ f.text = t.text
  BY DEF Compressed
<1>2. t \in Archives
  BY DEF Typed, Of
<1> QED  BY <1>1, <1>2 DEF Archives

LEMMA ReplacingIn ==
  ASSUME NEW new
  PROVE  /\ Replacing(new) \subseteq dist \union new
         /\ new \subseteq Replacing(new)
         /\ ((\A f \in dist, n \in new : f.form # n.form) => Replacing(new) = dist \union new)
  BY DEF Replacing

LEMMA MadeIn ==
  ASSUME Typed, NEW forms, forms \subseteq Forms
  PROVE  /\ \A f \in Made(forms) : f \in dist \/ \E form \in forms : f = File(form, userdoc, TRUE)
         /\ \A form \in forms : File(form, userdoc, TRUE) \in Made(forms)
         /\ dist = {} => Made(forms) = {File(form, userdoc, TRUE) : form \in forms}
         /\ Made(forms) \subseteq Archives
<1> DEFINE new == {File(form, userdoc, TRUE) : form \in forms}
<1>1. Made(forms) = Replacing(new)
  BY DEF Made
<1>2. \A form \in forms : File(form, userdoc, TRUE) \in Archives
  <2>1. userdoc \in Names /\ TRUE \in BOOLEAN
    BY DEF Typed
  <2> QED  BY <2>1, FileTyped
<1>3. new \subseteq Archives
  BY <1>2
<1>4. dist = {} => Replacing(new) = new
  BY DEF Replacing
<1>5. dist \subseteq Archives
  BY DEF Typed
<1>6. \A form \in forms : File(form, userdoc, TRUE) \in new
  OBVIOUS
<1>7. \A f \in new : \E form \in forms : f = File(form, userdoc, TRUE)
  OBVIOUS
<1>8. Replacing(new) \subseteq dist \union new /\ new \subseteq Replacing(new)
  BY ReplacingIn
<1>9. dist = {} => Made(forms) = {File(form, userdoc, TRUE) : form \in forms}
  BY <1>1, <1>4
<1> HIDE DEF new
<1> QED  BY <1>1, <1>3, <1>5, <1>6, <1>7, <1>8, <1>9

(* The tar and the zip file are there. *)
LEMMA SdistMade ==
  ASSUME Typed, DocsMade, DistMade, Doing("sdist"), Step, todo' # <<>>
  PROVE  Gathered({"tar", "zip"})'
<1>1. dist = {} /\ userdoc = local.began /\ work' = work
  BY DocsTime, StepKeeps DEF DistMade, Doing
<1>2. /\ dist' = Made({"tar", "zip"})
      /\ local' = [local EXCEPT !.files = {f \in dist' : f.form = "zip"}]
  BY StepIs DEF Sdist, Fail, DoneWith
<1>3. local'.files = {f \in dist' : f.form = "zip"} /\ local'.began = local.began
  BY <1>2 DEF Typed
<1>4. PICK a, b : a = File("tar", userdoc, TRUE) /\ b = File("zip", userdoc, TRUE)
  OBVIOUS
<1>5. dist' = {a, b}
  <2>1. {"tar", "zip"} \subseteq Forms
    BY DEF Forms
  <2>2. dist' = {File(form, userdoc, TRUE) : form \in {"tar", "zip"}}
    BY <1>1, <1>2, <2>1, MadeIn
  <2> QED  BY <1>4, <2>2
<1>6. \A f \in {a, b} : f.whole /\ f.version = work.version /\ f.text = local.began
  <2>1. "tar" \in Forms /\ "zip" \in Forms /\ userdoc \in Names /\ TRUE \in BOOLEAN
    BY DEF Forms, Typed
  <2>2. a.whole = TRUE /\ a.version = work.version /\ a.text = userdoc
    BY <1>4, <2>1, FileTyped
  <2>3. b.whole = TRUE /\ b.version = work.version /\ b.text = userdoc
    BY <1>4, <2>1, FileTyped
  <2> QED  BY <1>1, <2>2, <2>3
<1>7. a.form = "tar" /\ b.form = "zip"
  BY <1>4 DEF File
<1>8. \A f \in dist' : /\ f.whole /\ f.version = work'.version
                       /\ f.text = local'.began /\ f.form \in {"tar", "zip"}
  BY <1>1, <1>3, <1>5, <1>6, <1>7
<1>9. local'.files = dist' \ {f \in dist' : f.form = "tar"}
  BY <1>3, <1>8
<1>10. b \in {f \in dist' : f.form = "zip"}
  BY <1>5, <1>7
<1> QED  BY <1>8, <1>9, <1>10 DEF Gathered, Of

(* One more archive, if the program is there. *)
LEMMA CompressMade ==
  ASSUME Typed, NEW form \in {"gz", "bz2", "xz"}, NEW forms, form \notin forms,
         Gathered(forms), Compress(form), todo' # <<>>
  PROVE  Gathered(forms \union {form})'
<1>1. work' = work
  BY DEF Compress, InDist
<1>2. form \in Forms /\ TRUE \in BOOLEAN /\ form # "tar" /\ form # "zip"
  BY DEF Forms
<1>3. CASE Compressors[form] \notin programs /\ Done /\ UNCHANGED dist
  <2>1. local' = local
    BY <1>3 DEF Done, DoneWith
  <2> QED  BY <1>1, <1>3, <2>1 DEF Gathered, Of
<1>4. CASE /\ dist' = Replacing(Compressed(form, TRUE))
           /\ DoneWith([local EXCEPT !.files = @ \union Compressed(form, TRUE)])
  <2>1. local'.files = local.files \union Compressed(form, TRUE) /\ local'.began = local.began
    BY <1>4 DEF DoneWith, Typed
  <2>2. \A f \in Compressed(form, TRUE) :
           /\ f.form = form /\ f.whole = TRUE
           /\ \E t \in Of("tar") : f.version = t.version /\ f.text = t.text
    BY <1>2, CompressedTyped
  <2>3. \A f \in Compressed(form, TRUE) :
           /\ f.form = form /\ f.whole /\ f.version = work.version /\ f.text = local.began
    BY <2>2 DEF Gathered, Of
  <2>4. dist' = dist \union Compressed(form, TRUE)
    <3>1. \A f \in dist, n \in Compressed(form, TRUE) : f.form # n.form
      BY <2>3 DEF Gathered
    <3> QED  BY <1>4, <3>1, ReplacingIn
  <2>5. \A f \in dist' : /\ f.whole /\ f.version = work'.version
                         /\ f.text = local'.began /\ f.form \in forms \union {form}
    BY <1>1, <2>1, <2>3, <2>4 DEF Gathered
  <2>6. local'.files = dist' \ {f \in dist' : f.form = "tar"}
    <3>1. local.files = dist \ {f \in dist : f.form = "tar"}
      BY DEF Gathered, Of
    <3> HIDE DEF Gathered
    <3> QED  BY <1>2, <2>1, <2>3, <2>4, <3>1
  <2>7. {f \in dist' : f.form = "zip"} # {}
    BY <2>4 DEF Gathered, Of
  <2> QED  BY <2>5, <2>6, <2>7 DEF Gathered, Of
<1> QED  BY <1>3, <1>4 DEF Compress, Fail

LEMMA UntarMade ==
  ASSUME Typed, Gathered({"tar", "zip", "gz", "bz2", "xz"}), Untar, todo' # <<>>
  PROVE  Gathered({"zip", "gz", "bz2", "xz"})'
<1>1. work' = work /\ local' = local /\ dist' = dist \ Of("tar")
  BY DEF Untar, InDist, Done, DoneWith
<1>2. local.files = dist'
  BY <1>1 DEF Gathered
<1>3. \A f \in dist' : f.form # "tar"
  BY <1>1 DEF Of
<1>4. {f \in dist' : f.form = "zip"} # {}
  BY <1>1 DEF Gathered, Of
<1>5. dist' \ {f \in dist' : f.form = "tar"} = dist'
  BY <1>3
<1>6. \A f \in dist' : /\ f.whole /\ f.version = work'.version
                       /\ f.text = local'.began /\ f.form \in {"zip", "gz", "bz2", "xz"}
  BY <1>1, <1>3 DEF Gathered
<1> QED  BY <1>1, <1>2, <1>4, <1>5, <1>6 DEF Gathered, Of

LEMMA DigestsMade ==
  ASSUME Typed, Gathered({"zip", "gz", "bz2", "xz"})
  PROVE  /\ local.files = dist
         /\ DigestsOf(local.files) =
              [version |-> work.version, lists |-> dist, signed |-> FALSE]
<1>1. local.files = dist
  BY DEF Gathered, Of
<1>2. work.version \in Nat
  BY ContentParts DEF Typed, Versions
<1>3. {f.version : f \in {g \in local.files : g.form = "zip"}} = {work.version}
  BY <1>1 DEF Gathered, Of
<1>4. Min({work.version}) = work.version
  BY <1>2 DEF Min
<1> QED  BY <1>1, <1>3, <1>4 DEF DigestsOf

LEMMA DistStep ==
  ASSUME Typed, DocsMade, DistMade, Step
  PROVE  DistMade'
<1>1. PlanLeft(todo) =>
        /\ Behind(todo, "wipe", "sdist") /\ Behind(todo, "sdist", "gz")
        /\ Behind(todo, "gz", "bz2") /\ Behind(todo, "bz2", "xz") /\ Behind(todo, "xz", "untar")
        /\ Behind(todo, "untar", "digest") /\ Behind(todo, "digest", "sign")
  BY DEF PlanLeft, Chained
<1>2. ASSUME Doing("sdist")' PROVE dist' = {}
  <2>1. Doing("wipe")
    BY <1>1, <1>2, DoingNext, CameFrom DEF Seconds
  <2> QED  BY <2>1, StepIs DEF Wipe
<1>3. ASSUME Doing("gz")' PROVE Gathered({"tar", "zip"})'
  <2>1. Doing("sdist")
    BY <1>1, <1>3, DoingNext, CameFrom DEF Seconds
  <2> QED  BY <1>3, <2>1, DoingNext, SdistMade
<1>4. ASSUME Doing("bz2")' PROVE Gathered({"tar", "zip", "gz"})'
  <2>1. Doing("gz")
    BY <1>1, <1>4, DoingNext, CameFrom DEF Seconds
  <2>2. Compress("gz") /\ Gathered({"tar", "zip"}) /\ todo' # <<>>
    BY <1>4, <2>1, DoingNext, StepIs DEF DistMade
  <2>3. Gathered({"tar", "zip"} \union {"gz"})'
    BY <2>2, CompressMade
  <2>4. {"tar", "zip"} \union {"gz"} = {"tar", "zip", "gz"}
    OBVIOUS
  <2> QED  BY <2>3, <2>4
<1>5. ASSUME Doing("xz")' PROVE Gathered({"tar", "zip", "gz", "bz2"})'
  <2>1. Doing("bz2")
    BY <1>1, <1>5, DoingNext, CameFrom DEF Seconds
  <2>2. Compress("bz2") /\ Gathered({"tar", "zip", "gz"}) /\ todo' # <<>>
    BY <1>5, <2>1, DoingNext, StepIs DEF DistMade
  <2>3. Gathered({"tar", "zip", "gz"} \union {"bz2"})'
    BY <2>2, CompressMade
  <2>4. {"tar", "zip", "gz"} \union {"bz2"} = {"tar", "zip", "gz", "bz2"}
    OBVIOUS
  <2> QED  BY <2>3, <2>4
<1>6. ASSUME Doing("untar")' PROVE Gathered({"tar", "zip", "gz", "bz2", "xz"})'
  <2>1. Doing("xz")
    BY <1>1, <1>6, DoingNext, CameFrom DEF Seconds
  <2>2. Compress("xz") /\ Gathered({"tar", "zip", "gz", "bz2"}) /\ todo' # <<>>
    BY <1>6, <2>1, DoingNext, StepIs DEF DistMade
  <2>3. Gathered({"tar", "zip", "gz", "bz2"} \union {"xz"})'
    BY <2>2, CompressMade
  <2>4. {"tar", "zip", "gz", "bz2"} \union {"xz"} = {"tar", "zip", "gz", "bz2", "xz"}
    OBVIOUS
  <2> QED  BY <2>3, <2>4
<1>7. ASSUME Doing("digest")' PROVE Gathered({"zip", "gz", "bz2", "xz"})'
  <2>1. Doing("untar")
    BY <1>1, <1>7, DoingNext, CameFrom DEF Seconds
  <2> QED  BY <1>7, <2>1, DoingNext, StepIs, UntarMade DEF DistMade
<1>8. ASSUME Doing("sign")'
      PROVE  /\ Gathered({"zip", "gz", "bz2", "xz"})'
             /\ digests'.version = work'.version /\ digests'.lists = dist'
  <2>1. Doing("digest") /\ todo' # <<>>
    BY <1>1, <1>8, DoingNext, CameFrom DEF Seconds
  <2>2. /\ digests' = DigestsOf(local.files) /\ dist' = dist /\ work' = work /\ local' = local
    BY <2>1, StepIs DEF Digest, Fail, Done, DoneWith, InDist
  <2>3. Gathered({"zip", "gz", "bz2", "xz"})
    BY <2>1 DEF DistMade
  <2>4. Gathered({"zip", "gz", "bz2", "xz"})'
    BY <2>2, <2>3 DEF Gathered, Of
  <2>5. digests'.version = work.version /\ digests'.lists = dist
    BY <2>2, <2>3, DigestsMade
  <2> QED  BY <2>2, <2>4, <2>5
<1> QED  BY <1>2, <1>3, <1>4, <1>5, <1>6, <1>7, <1>8 DEF DistMade

-----------------------------------------------------------------------------
(* The wheels.                                                             *)

LEMMA BestIn ==
  ASSUME NEW names, names # {}, names \subseteq Nat \X Nat
  PROVE  Best(names) \in names
<1> DEFINE firsts == {n[1] : n \in names}
<1>1. firsts \subseteq Nat /\ firsts # {}
  OBVIOUS
<1>2. PICK a \in firsts : \A m \in firsts : a <= m
  <2> HIDE DEF firsts
  <2> QED  BY <1>1, LeastNat
<1> DEFINE best == {n \in names : n[1] = a}
           seconds == {n[2] : n \in best}
<1>3. seconds \subseteq Nat /\ seconds # {}
  OBVIOUS
<1>4. PICK b \in seconds : \A m \in seconds : b <= m
  <2> HIDE DEF seconds
  <2> QED  BY <1>3, LeastNat
<1>5. PICK n \in names : n[1] = a /\ n[2] = b
  OBVIOUS
<1>6. ASSUME NEW m \in names PROVE n[1] < m[1] \/ (n[1] = m[1] /\ n[2] <= m[2])
  <2>1. m[1] \in Nat /\ m[1] \in firsts /\ a \in Nat
    BY <1>1
  <2>2. a <= m[1]
    BY <1>2, <2>1
  <2>3. CASE m[1] = a
    <3>1. m[2] \in seconds
      BY <2>3
    <3>2. b <= m[2]
      BY <1>4, <3>1
    <3> QED  BY <1>5, <2>3, <3>2
  <2>4. CASE m[1] # a
    BY <1>5, <2>1, <2>2, <2>4
  <2> QED  BY <2>3, <2>4
<1> QED  BY <1>5, <1>6 DEF Best

(* What build.wheels is about to do. *)
LEMMA HeadWheel ==
  ASSUME Typed, Building
  PROVE  /\ WheelsLeft(todo) /\ Head(todo) \in WheelActs
         /\ Head(todo).op # "rename" => Head(todo).file \in Of("gz") /\ Head(todo).file \in Archives
         /\ Head(todo).op = "docker" =>
              Head(todo).group \in Groups /\ Head(todo) = DockerOf(Head(todo).file, Head(todo).group)
<1>1. WheelsLeft(todo) /\ Head(todo) \in WheelActs /\ todo # <<>>
  BY TodoKinds DEF Typed, Building
<1>2. todo \in Seq(WheelActs) /\ Within(todo, Of("gz"))
  BY <1>1 DEF WheelsLeft
<1>3. Head(todo) = todo[1] /\ 1 \in 1 .. Len(todo)
  BY <1>1, <1>2
<1>4. Head(todo).op # "rename" => Head(todo).file \in Of("gz")
  BY <1>2, <1>3 DEF Within
<1> QED  BY <1>1, <1>4, WheelActIs

(* The wheels that a container makes. *)
WheelOf(f, i, names) ==
  [version |-> f.version, arch |-> i.arch, libc |-> i.libc,
   python |-> i.python, abi |-> i.abi, tags |-> names]

LEMMA WheelsForAre ==
  ASSUME NEW f, NEW g, NEW names, NEW moved \in SUBSET Found(g)
  PROVE  WheelsFor(DockerOf(f, g), names, moved) = {WheelOf(f, i, names) : i \in moved}
<1>1. \A i \in moved : i.arch = g.arch /\ i.libc = g.libc
  BY DEF Found
<1>2. DockerOf(f, g).file = f /\ DockerOf(f, g).group = g
  BY DEF DockerOf
<1> QED  BY <1>1, <1>2 DEF WheelsFor, WheelOf

LEMMA WheelsForIs ==
  ASSUME NEW f \in Archives, NEW g \in Groups, NEW names \in TagSets,
         NEW moved \in SUBSET Found(g),
         NEW w \in WheelsFor(DockerOf(f, g), names, moved)
  PROVE  /\ w \in Wheels /\ w.tags = names /\ names # {}
         /\ \E i \in moved : IsFor(w, f, i)
<1>1. PICK i \in moved : w = WheelOf(f, i, names)
  BY WheelsForAre
<1>2. /\ i \in Interpreters /\ i.arch \in Arches
      /\ i.libc \in {"manylinux", "musllinux"}
  BY GroupIs DEF Found
<1>3. f.version \in Versions
  BY DEF Archives
<1>4. names \in SUBSET UNION TagSets /\ names # {}
  BY ReleaseAssumption
<1>5. w \in Wheels
  BY <1>1, <1>2, <1>3, <1>4 DEF Wheels, WheelOf
<1>6. IsFor(w, f, i) /\ w.tags = names
  BY <1>1 DEF IsFor, WheelOf
<1> QED  BY <1>4, <1>5, <1>6

Renamed(w) == IF w.libc = "manylinux" THEN [w EXCEPT !.tags = {Best(@)}] ELSE w

LEMMA RenamedIs ==
  ASSUME NEW w \in Wheels, w.tags # {}
  PROVE  /\ Renamed(w) \in Wheels /\ Renamed(w).version = w.version
         /\ Renamed(w).arch = w.arch /\ Renamed(w).libc = w.libc
         /\ Renamed(w).python = w.python /\ Renamed(w).abi = w.abi
         /\ Renamed(w).tags # {}
         /\ w.libc = "manylinux" => Renamed(w).tags = {Best(w.tags)}
<1>1. w.tags \subseteq UNION TagSets
  BY DEF Wheels
<1>2. w.tags \subseteq Nat \X Nat
  BY <1>1, ReleaseAssumption
<1>3. Best(w.tags) \in w.tags
  BY <1>2, BestIn
<1>4. CASE w.libc = "manylinux"
  <2>1. Renamed(w) = [w EXCEPT !.tags = {Best(w.tags)}]
    BY <1>4 DEF Renamed
  <2>2. {Best(w.tags)} \in SUBSET UNION TagSets
    BY <1>1, <1>3
  <2> QED  BY <2>1, <2>2 DEF Wheels
<1>5. CASE w.libc # "manylinux"
  BY <1>5 DEF Renamed
<1> QED  BY <1>4, <1>5

LEMMA RenameIs ==
  Rename => wheels' = {Renamed(w) : w \in wheels}
  BY DEF Rename, Renamed

-----------------------------------------------------------------------------
(* The types.                                                              *)
LEMMA DistTyped ==
  ASSUME Typed, Step
  PROVE  dist' \subseteq Archives
<1>0. dist \subseteq Archives /\ userdoc \in Names /\ work \in Content
  BY DEF Typed
<1>1. ASSUME NEW form \in Forms, NEW text \in Names, NEW whole \in BOOLEAN
      PROVE  Replacing({File(form, text, whole)}) \subseteq Archives
  <2>1. File(form, text, whole) \in Archives
    BY FileTyped
  <2>2. Replacing({File(form, text, whole)}) \subseteq dist \union {File(form, text, whole)}
    BY ReplacingIn
  <2> QED  BY <1>0, <2>1, <2>2
<1>2. {"tar", "zip", "gz", "bz2", "xz", "CHANGES"} \subseteq Forms
      /\ TRUE \in BOOLEAN /\ FALSE \in BOOLEAN
  BY DEF Forms
<1>3. ASSUME NEW forms, forms \subseteq Forms PROVE Made(forms) \subseteq Archives
  BY <1>3, MadeIn
<1>4. CASE Doing("wipe") \/ Doing("clean") \/ Doing("untar")
  BY <1>0, <1>4, StepIs DEF Wipe, Clean, Untar
<1>5. CASE Doing("sdist")
  <2>1. /\ Made({"tar", "zip"}) \subseteq Archives /\ Made({"tar"}) \subseteq Archives
        /\ Replacing({File("tar", userdoc, FALSE)}) \subseteq Archives
        /\ File("zip", userdoc, FALSE) \in Archives
    <3>1. {"tar", "zip"} \subseteq Forms /\ {"tar"} \subseteq Forms
      BY <1>2
    <3>2. Made({"tar", "zip"}) \subseteq Archives /\ Made({"tar"}) \subseteq Archives
      BY <1>3, <3>1
    <3>3. "tar" \in Forms /\ "zip" \in Forms /\ userdoc \in Names /\ FALSE \in BOOLEAN
      BY <1>0, <1>2
    <3>4. Replacing({File("tar", userdoc, FALSE)}) \subseteq Archives
      BY <1>1, <3>3
    <3>5. File("zip", userdoc, FALSE) \in Archives
      BY <3>3, FileTyped
    <3> QED  BY <3>2, <3>4, <3>5
  <2> QED  BY <1>0, <1>5, <2>1, StepIs DEF Sdist
<1>6. CASE Doing("source")
  <2>1. Made({"gz"}) \subseteq Archives /\ Replacing({File("gz", userdoc, FALSE)}) \subseteq Archives
    BY <1>0, <1>1, <1>2, <1>3
  <2> QED  BY <1>0, <1>6, <2>1, StepIs DEF Source
<1>7. ASSUME NEW form \in {"gz", "bz2", "xz"}, Compress(form) PROVE dist' \subseteq Archives
  <2>1. ASSUME NEW whole \in BOOLEAN PROVE Replacing(Compressed(form, whole)) \subseteq Archives
    <3>1. Compressed(form, whole) \subseteq Archives
      BY <1>2, CompressedTyped
    <3>2. Replacing(Compressed(form, whole)) \subseteq dist \union Compressed(form, whole)
      BY ReplacingIn
    <3> QED  BY <1>0, <3>1, <3>2
  <2>2. Replacing(Compressed(form, TRUE)) \subseteq Archives
        /\ Replacing(Compressed(form, FALSE)) \subseteq Archives
    BY <1>2, <2>1
  <2> QED  BY <1>0, <1>7, <2>2 DEF Compress
<1>8. CASE Doing("changelog")
  <2>1. work.changes \in Names
    BY <1>0, ContentParts DEF Names
  <2>2. /\ Replacing({File("CHANGES", work.changes, TRUE)}) \subseteq Archives
        /\ Replacing({File("CHANGES", work.changes, FALSE)}) \subseteq Archives
    BY <1>1, <1>2, <2>1
  <2> QED  BY <1>0, <1>8, <2>2, StepIs DEF CopyChanges
<1> QED  BY <1>0, <1>4, <1>5, <1>6, <1>7, <1>8, StepKeeps, StepIs

DigestsType == [version : Names, lists : SUBSET Archives, signed : BOOLEAN]

LEMMA DigestsTyped ==
  ASSUME Typed, DistMade, Step
  PROVE  digests' \in DigestsType
<1>0. digests \in DigestsType /\ dist \subseteq Archives /\ work.version \in Names
  BY ContentParts DEF Typed, DigestsType, Names
<1>1. NoDigests \in DigestsType
  BY DEF NoDigests, DigestsType, Names
<1>2. CASE Doing("wipe") \/ Doing("clean")
  BY <1>1, <1>2, StepIs DEF Wipe, Clean
<1>3. CASE Doing("digest")
  <2>1. DigestsOf(local.files) = [version |-> work.version, lists |-> dist, signed |-> FALSE]
    BY <1>3, DigestsMade DEF DistMade
  <2>2. DigestsOf(local.files) \in DigestsType
    BY <1>0, <2>1 DEF DigestsType
  <2> QED  BY <1>0, <1>3, <2>2, StepIs DEF Digest
<1>4. CASE Doing("sign")
  <2>1. [digests EXCEPT !.signed = TRUE] \in DigestsType
    BY <1>0 DEF DigestsType
  <2> QED  BY <1>0, <1>4, <2>1, StepIs DEF Sign
<1> QED  BY <1>0, <1>2, <1>3, <1>4, StepKeeps

LocalType == [files : SUBSET Archives, began : Names]

LEMMA LocalTyped ==
  ASSUME Typed, Step
  PROVE  local' \in LocalType
<1>0. local \in LocalType /\ NoLocals \in LocalType
  BY DEF Typed, LocalType, NoLocals, Names
<1>1. ASSUME NEW files \in SUBSET Archives, DoneWith([local EXCEPT !.files = files])
      PROVE  local' \in LocalType
  <2>1. [local EXCEPT !.files = files] \in LocalType
    BY <1>0 DEF LocalType
  <2> QED  BY <1>0, <1>1, <2>1 DEF DoneWith
<1>2. Done => local' \in LocalType
  BY <1>0 DEF Done, DoneWith
<1>3. Fail => local' \in LocalType
  BY <1>0 DEF Fail
<1>4. CASE Doing("sdist")
  <2>1. {f \in dist' : f.form = "zip"} \in SUBSET Archives
    BY DistTyped
  <2>2. PICK files \in SUBSET Archives : files = {f \in dist' : f.form = "zip"}
    BY <2>1
  <2>3. Sdist
    BY <1>4, StepIs
  <2>4. DoneWith([local EXCEPT !.files = files]) \/ Fail
    BY <2>2, <2>3 DEF Sdist
  <2> QED  BY <1>1, <1>3, <2>4
<1>5. ASSUME NEW form \in {"gz", "bz2", "xz"}, Compress(form) PROVE local' \in LocalType
  <2>1. local.files \union Compressed(form, TRUE) \in SUBSET Archives
    <3>1. form \in Forms /\ TRUE \in BOOLEAN
      BY DEF Forms
    <3>2. Compressed(form, TRUE) \subseteq Archives
      BY <3>1, CompressedTyped
    <3> QED  BY <1>0, <3>2 DEF LocalType
  <2>2. PICK files \in SUBSET Archives : files = local.files \union Compressed(form, TRUE)
    BY <2>1
  <2>3. DoneWith([local EXCEPT !.files = files]) \/ Fail \/ Done
    BY <1>5, <2>2 DEF Compress
  <2> QED  BY <1>1, <1>2, <1>3, <2>3
<1>6. CASE Doing("gz") \/ Doing("bz2") \/ Doing("xz")
  BY <1>5, <1>6, StepIs
<1>7. CASE Unfolds
  BY <1>0, <1>7 DEF Unfolds
<1>8. CASE ~(Doing("sdist") \/ Doing("gz") \/ Doing("bz2") \/ Doing("xz") \/ Doing("newwheels"))
  <2>1. Done \/ Fail
    BY <1>8 DEF Step, Run, StampConf, StampPage, StampChanges, CheckCommitted, AddTag, Sphinx,
       Wipe, Sdist, Source, Compress, Compressors, Untar, Digest, Sign, CopyChanges, Emulate,
       NewWheels, Stage, Docker, Docked, DockedInPart, Unstage, Rename, UploadSource,
       UploadWheels, Upload, Clean
  <2> QED  BY <1>2, <1>3, <2>1
<1>9. CASE Doing("newwheels")
  BY <1>0, <1>3, <1>9, StepIs DEF NewWheels
<1> QED  BY <1>4, <1>6, <1>8, <1>9

LEMMA StagedTyped ==
  ASSUME Typed, Step
  PROVE  staged' \subseteq Archives
<1>0. staged \subseteq Archives
  BY DEF Typed
<1>1. ASSUME NEW f PROVE OthersStaged(f) \subseteq Archives
  BY <1>0 DEF OthersStaged
<1>2. CASE Doing("stage")
  <2>1. Building
    BY <1>2 DEF Doing, Building
  <2>2. PICK file \in Archives : file = Head(todo).file
    BY <1>2, <2>1, HeadWheel DEF Doing
  <2>3. [file EXCEPT !.whole = FALSE] \in Archives
    BY DEF Archives
  <2>4. /\ OthersStaged(file) \union {file} \subseteq Archives
        /\ OthersStaged(file) \union {[file EXCEPT !.whole = FALSE]} \subseteq Archives
    BY <1>1, <2>3
  <2> QED  BY <1>0, <1>2, <2>2, <2>4, StepIs DEF Stage
<1>3. CASE Doing("docker")
  BY <1>0, <1>1, <1>3, StepIs DEF Docker, Docked
<1>4. CASE Doing("unstage")
  BY <1>1, <1>4, StepIs DEF Unstage
<1> QED  BY <1>0, <1>2, <1>3, <1>4, StepKeeps

(* What a container adds. *)
Adds(f, g, names, moved) ==
  /\ f \in Archives /\ Head(todo) = DockerOf(f, g)
  /\ wheels' = wheels \union WheelsFor(DockerOf(f, g), names, moved)
  /\ todo' # <<>> => moved = Found(g) /\ Found(g) # {}

LEMMA DockerAdds ==
  ASSUME Typed, Step, Doing("docker")
  PROVE  \E f \in Of("gz"), g \in Groups, names \in TagSets :
           \E moved \in SUBSET Found(g) : Adds(f, g, names, moved)
<1>1. Building
  BY DEF Doing, Building
<1>2. PICK f \in Of("gz"), g \in Groups : f \in Archives /\ Head(todo) = DockerOf(f, g)
  BY <1>1, HeadWheel DEF Doing
<1>3. DockerOf(f, g).group = g
  BY DEF DockerOf
<1>4. CASE Docked
  <2>1. PICK names \in TagSets :
          wheels' = wheels \union WheelsFor(DockerOf(f, g), names, Found(g))
    BY <1>2, <1>3, <1>4 DEF Docked
  <2>2. Found(g) # {}
    BY <1>2, <1>3, <1>4 DEF Docked
  <2>3. Adds(f, g, names, Found(g))
    BY <1>2, <2>1, <2>2 DEF Adds
  <2> QED  BY <2>3
<1>5. CASE DockedInPart
  <2>1. PICK names \in TagSets, moved \in SUBSET Found(Head(todo).group) :
          wheels' = wheels \union WheelsFor(Head(todo), names, moved)
    BY <1>5 DEF DockedInPart
  <2>2. todo' = <<>>
    BY <1>5 DEF DockedInPart, Fail
  <2>3. moved \in SUBSET Found(g)
    BY <1>2, <1>3, <2>1
  <2>4. Adds(f, g, names, moved)
    BY <1>2, <2>1, <2>2 DEF Adds
  <2> QED  BY <2>3, <2>4
<1> QED  BY <1>4, <1>5, StepIs DEF Docker

LEMMA WheelsTyped ==
  ASSUME Typed, \A w \in wheels : w.tags # {}, Step
  PROVE  wheels' \subseteq Wheels /\ \A w \in wheels' : w.tags # {}
<1>0. wheels \subseteq Wheels
  BY DEF Typed
<1>1. CASE Doing("newwheels") \/ Doing("clean")
  BY <1>1, StepIs DEF NewWheels, Clean
<1>2. CASE Doing("docker")
  <2>1. PICK f \in Of("gz"), g \in Groups, names \in TagSets :
           \E moved \in SUBSET Found(g) : Adds(f, g, names, moved)
    BY <1>2, DockerAdds
  <2>2. PICK moved \in SUBSET Found(g) : Adds(f, g, names, moved)
    BY <2>1
  <2>3. f \in Archives /\ wheels' = wheels \union WheelsFor(DockerOf(f, g), names, moved)
    BY <2>2 DEF Adds
  <2>4. ASSUME NEW w \in WheelsFor(DockerOf(f, g), names, moved)
        PROVE  w \in Wheels /\ w.tags # {}
    BY <2>3, WheelsForIs
  <2> QED  BY <1>0, <2>3, <2>4
<1>3. CASE Doing("rename")
  <2>1. wheels' = {Renamed(w) : w \in wheels}
    BY <1>3, StepIs, RenameIs
  <2> QED  BY <1>0, <2>1, RenamedIs
<1> QED  BY <1>0, <1>1, <1>2, <1>3, StepKeeps

LEMMA TypedStep ==
  ASSUME ReleaseInv, Step
  PROVE  Typed'
<1>0. Typed /\ PagesRight /\ DistMade /\ WheelsMade /\ work \in Content
  BY DEF ReleaseInv, Typed
<1>1. programs' \in Installations /\ head' \in Content
  BY <1>0, StepKeeps DEF Typed
<1>2. work' \in Content
  BY <1>0, WorkStep
<1>3. tags' \in [Versions -> SUBSET Content]
  <2>1. CASE tags' = tags
    BY <1>0, <2>1 DEF Typed
  <2>2. CASE tags' # tags
    <3>1. tags' = [tags EXCEPT ![work.version] = {head}]
      BY <2>2, StepKeeps, StepIs DEF AddTag
    <3>2. head \in Content /\ tags \in [Versions -> SUBSET Content]
      BY <1>0 DEF Typed
    <3> QED  BY <3>1, <3>2
  <2> QED  BY <2>1, <2>2
<1>4. userdoc' \in Names
  <2>1. userdoc \in Names /\ work.conf \in Names /\ Lost \in Names /\ None \in Names
    BY <1>0, ContentParts DEF Typed, Names
  <2>2. CASE Doing("sphinx")
    BY <2>1, <2>2, StepIs DEF Sphinx
  <2>3. CASE Doing("clean")
    BY <2>1, <2>3, StepIs DEF Clean
  <2> QED  BY <2>1, <2>2, <2>3, StepKeeps
<1>5. left' \in 0 .. MaxInvocations
  BY <1>0, StepTurns DEF Passes, Ends, Unfolds, Typed
<1>6. dist' \subseteq Archives /\ staged' \subseteq Archives /\ wheels' \subseteq Wheels
  BY <1>0, DistTyped, StagedTyped, WheelsTyped DEF WheelsMade
<1>7. digests' \in DigestsType /\ local' \in LocalType
  BY <1>0, DigestsTyped, LocalTyped
<1>8. PlanLeft(todo)' \/ WheelsLeft(todo)'
  BY <1>0, TodoStep
<1> QED  BY <1>1, <1>2, <1>3, <1>4, <1>5, <1>6, <1>7, <1>8 DEF Typed, DigestsType, LocalType

-----------------------------------------------------------------------------
(* Packages that are staged.                                               *)

LEMMA StagedStep ==
  ASSUME Typed, StagedUsed, Step
  PROVE  StagedUsed'
<1>0. SUFFICES ASSUME NEW f \in staged', f.whole
               PROVE  /\ todo' # <<>> /\ Head(todo').op \in {"docker", "unstage"}
                      /\ Head(todo').file.version = f.version
  BY DEF StagedUsed
<1>1. ASSUME f \in staged
      PROVE  /\ todo # <<>> /\ Head(todo).op \in {"docker", "unstage"}
             /\ Head(todo).file.version = f.version
  BY <1>0, <1>1 DEF StagedUsed
<1>2. CASE Doing("stage")
  <2>1. Stage /\ Building
    BY <1>2, StepIs DEF Doing, Building
  <2>2. f \notin staged
    BY <1>1, <1>2 DEF Doing
  <2>3. PICK file \in Archives : file = Head(todo).file
    BY <1>2, <2>1, HeadWheel DEF Doing
  <2>4. f \notin OthersStaged(file)
    BY <2>2 DEF OthersStaged
  <2>5. [file EXCEPT !.whole = FALSE].whole = FALSE
    BY DEF Archives
  <2>6. f # [file EXCEPT !.whole = FALSE]
    BY <1>0, <2>5
  <2>7. Done /\ f = file
    BY <2>1, <2>2, <2>3, <2>4, <2>6 DEF Stage
  <2>8. todo' = Tail(todo) /\ todo # <<>> /\ WheelsLeft(todo) /\ Head(todo).op = "stage"
    BY <1>2, <2>1, <2>7, HeadWheel DEF Done, DoneWith, Doing
  <2>9. /\ Tail(todo) # <<>> /\ Head(Tail(todo)).op \in {"docker", "unstage"}
        /\ Head(Tail(todo)).file = Head(todo).file
    BY <2>8, TailWheels
  <2> QED  BY <2>3, <2>7, <2>8, <2>9
<1>3. CASE Doing("docker")
  <2>1. Docker /\ Building
    BY <1>3, StepIs DEF Doing, Building
  <2>2. f \notin OthersStaged(Head(todo).file)
    BY <1>1 DEF OthersStaged
  <2>3. Done /\ f \in staged
    BY <2>1, <2>2 DEF Docker, Docked
  <2>4. todo' = Tail(todo) /\ todo # <<>> /\ WheelsLeft(todo) /\ Head(todo).op = "docker"
    BY <1>3, <2>1, <2>3, HeadWheel DEF Done, DoneWith, Doing
  <2>5. /\ Tail(todo) # <<>> /\ Head(Tail(todo)).op \in {"docker", "unstage"}
        /\ Head(Tail(todo)).file = Head(todo).file
    BY <2>4, TailWheels
  <2> QED  BY <1>1, <2>3, <2>4, <2>5
<1>4. CASE Doing("unstage")
  <2>1. f \in OthersStaged(Head(todo).file)
    BY <1>4, StepIs DEF Unstage
  <2> QED  BY <1>1, <2>1 DEF OthersStaged
<1>5. CASE ~(Doing("stage") \/ Doing("docker") \/ Doing("unstage"))
  <2>1. f \in staged
    BY <1>5, StepKeeps
  <2> QED  BY <1>1, <1>5, <2>1 DEF Doing
<1> QED  BY <1>2, <1>3, <1>4, <1>5

-----------------------------------------------------------------------------

(* A container makes the wheel of each interpreter that it finds. *)
LEMMA OneWheelDocker ==
  ASSUME Typed, WheelsMade, NEW f \in Of("gz"), NEW g \in Groups, NEW names \in TagSets,
         f \in Archives, todo # <<>>, WheelsLeft(todo), Head(todo) = DockerOf(f, g),
         wheels' = wheels \union WheelsFor(DockerOf(f, g), names, Found(g)),
         todo' = Tail(todo), NEW v, NEW h \in Groups, NEW i \in Found(h), OneWheel(v, h, i)
  PROVE  OneWheel(v, h, i)'
<1> DEFINE made == WheelsFor(DockerOf(f, g), names, Found(g))
           Key(w) == /\ w.version = v /\ w.arch = i.arch /\ w.libc = i.libc
                     /\ w.python = i.python /\ w.abi = i.abi
<1>1. IsDocker(Head(todo), v, h) <=> f.version = v /\ g = h
  BY DEF IsDocker, DockerOf
<1>2. /\ Left(todo, v, h) <=> IsDocker(Head(todo), v, h) \/ Left(todo', v, h)
      /\ IsDocker(Head(todo), v, h) => ~Left(todo', v, h)
  BY TailLeft
<1>3. \A w \in made : Key(w) => f.version = v /\ g = h
  <2>1. SUFFICES ASSUME NEW w \in made, Key(w) PROVE f.version = v /\ g = h
    OBVIOUS
  <2>2. PICK j \in Found(g) : IsFor(w, f, j)
    BY <2>1, WheelsForIs
  <2>3. i.arch = j.arch /\ i.libc = j.libc /\ i.python = j.python /\ f.version = v
    BY <2>1, <2>2 DEF IsFor
  <2> QED  BY <2>3, KeyGroup
<1>4. WheelsOf(v, i)' = WheelsOf(v, i) \union {w \in made : Key(w)}
  BY DEF WheelsOf
<1>5. CASE f.version = v /\ g = h
  <2>1. WheelsOf(v, i) = {} /\ ~Left(todo', v, h)
    BY <1>1, <1>2, <1>5 DEF OneWheel
  <2>2. made = {WheelOf(f, j, names) : j \in Found(g)}
    BY WheelsForAre
  <2>3. WheelOf(f, i, names) \in made /\ Key(WheelOf(f, i, names))
    BY <1>5, <2>2 DEF WheelOf
  <2>4. ASSUME NEW w \in made, Key(w) PROVE w = WheelOf(f, i, names)
    <3>1. PICK j \in Found(g) : w = WheelOf(f, j, names)
      BY <2>2
    <3>2. /\ j.arch = i.arch /\ j.libc = i.libc /\ j.python = i.python /\ j.abi = i.abi
      BY <2>4, <3>1 DEF WheelOf
    <3> QED  BY <3>1, <3>2 DEF WheelOf
  <2>5. WheelsOf(v, i)' = {WheelOf(f, i, names)}
    BY <1>4, <2>1, <2>3, <2>4
  <2>6. WheelOf(f, i, names) \in wheels'
    BY <2>3
  <2>7. \E w \in wheels' : WheelsOf(v, i)' = {w}
    BY <2>5, <2>6
  <2> HIDE DEF made, Key
  <2> QED  BY <2>1, <2>7 DEF OneWheel, Left
<1>6. CASE ~(f.version = v /\ g = h)
  <2>1. WheelsOf(v, i)' = WheelsOf(v, i)
    BY <1>3, <1>4, <1>6
  <2>2. Left(todo', v, h) <=> Left(todo, v, h)
    BY <1>1, <1>2, <1>6
  <2>3. wheels \subseteq wheels'
    OBVIOUS
  <2> HIDE DEF made, Key
  <2> QED  BY <2>1, <2>2, <2>3 DEF OneWheel, Left
<1> QED  BY <1>5, <1>6

LEMMA WheelsStep ==
  ASSUME Typed, WheelsMade, Step
  PROVE  WheelsMade'
<1>1. \A w \in wheels' : w.tags # {}
  BY WheelsTyped DEF WheelsMade
<1>2. ASSUME Building'
      PROVE  /\ \A w \in wheels' : IsWanted(w)'
             /\ \A f \in Of("gz")', g \in Groups : Served(f.version, g)'
  <2>1. CASE Unfolds
    <3>1. wheels' = {} /\ dist' = dist /\ todo' = WheelSteps
      BY <2>1, StepIs, StepKeeps DEF Unfolds, Doing, NewWheels
    <3>2. ASSUME NEW f \in Of("gz"), NEW g \in Groups PROVE Served(f.version, g)'
      <4>1. f \in Tarballs(f.version) /\ f.version \in Versions
        BY DEF Tarballs, Of, Typed, Archives
      <4>2. Left(WheelSteps, f.version, g)
        BY <4>1, WheelStepsGood DEF Typed
      <4>3. Left(todo', f.version, g)
        BY <3>1, <4>2
      <4>4. \A i : WheelsOf(f.version, i)' = {}
        BY <3>1 DEF WheelsOf
      <4> QED  BY <4>3, <4>4 DEF Served, OneWheel, Left
    <3>3. Of("gz")' = Of("gz")
      BY <3>1 DEF Of
    <3> QED  BY <3>1, <3>2, <3>3
  <2>2. CASE Passes
    <3>1. todo # <<>> /\ todo' = Tail(todo) /\ todo' # <<>>
      BY <1>2, <2>2 DEF Passes, Building
    <3>2. ~PlanLeft(todo)
      <4>1. SUFFICES ASSUME PlanLeft(todo) PROVE FALSE
        OBVIOUS
      <4>2. Tail(todo) \in Seq(Acts)
        BY <3>1, <4>1, TailAt DEF PlanLeft
      <4>3. Head(todo') \in Acts
        BY <3>1, <4>2, TailAt
      <4> QED  BY <1>2, <4>3 DEF Building, Acts, Ops
    <3>3. WheelsLeft(todo) /\ Building
      BY <3>1, <3>2, TodoKinds DEF Typed
    <3>4. dist' = dist /\ Of("gz")' = Of("gz")
      BY <3>3, StepKeeps DEF Building, Doing, Of
    <3>5. ~Doing("rename")
      BY <3>1, <3>3, TailWheels DEF Doing
    <3>6. ASSUME NEW w, IsWanted(w) PROVE IsWanted(w)'
      BY <3>4, <3>6 DEF IsWanted
    <3>7. ASSUME NEW e \in Of("gz"), NEW h \in Groups PROVE Served(e.version, h)
      BY <3>3 DEF WheelsMade
    <3>8. CASE Doing("docker")
      <4>1. PICK f \in Of("gz"), g \in Groups, names \in TagSets :
              \E moved \in SUBSET Found(g) : Adds(f, g, names, moved)
        BY <3>8, DockerAdds
      <4>2. /\ f \in Archives /\ Head(todo) = DockerOf(f, g)
            /\ wheels' = wheels \union WheelsFor(DockerOf(f, g), names, Found(g))
            /\ Found(g) # {}
        BY <3>1, <4>1 DEF Adds
      <4>3. ASSUME NEW e \in Of("gz"), NEW h \in Groups PROVE Served(e.version, h)'
        <5>1. Served(e.version, h)
          BY <3>7
        <5>2. ASSUME NEW i \in Found(h) PROVE OneWheel(e.version, h, i)'
          <6>1. OneWheel(e.version, h, i)
            BY <5>1 DEF Served
          <6> QED  BY <3>1, <3>3, <4>2, <6>1, OneWheelDocker
        <5>3. Left(todo', e.version, h) \/ Found(h) # {}
          <6>1. CASE IsDocker(Head(todo), e.version, h)
            <7>1. g = h
              BY <4>2, <6>1 DEF IsDocker, DockerOf
            <7> QED  BY <4>2, <7>1
          <6>2. CASE ~IsDocker(Head(todo), e.version, h)
            BY <3>1, <3>3, <5>1, <6>2, TailLeft DEF Served
          <6> QED  BY <6>1, <6>2
        <5> QED  BY <5>2, <5>3 DEF Served, Left
      <4>4. ASSUME NEW w \in wheels' PROVE IsWanted(w)
        <5>1. CASE w \in wheels
          BY <3>3, <5>1 DEF WheelsMade
        <5>2. CASE w \in WheelsFor(DockerOf(f, g), names, Found(g))
          <6>1. \E i \in Found(g) : IsFor(w, f, i)
            BY <4>2, <5>2, WheelsForIs
          <6> QED  BY <6>1 DEF IsWanted
        <5> QED  BY <4>2, <5>1, <5>2
      <4> QED  BY <3>4, <3>6, <4>3, <4>4
    <3>9. CASE ~Doing("docker")
      <4>1. wheels' = wheels
        BY <3>3, <3>5, <3>9, StepKeeps DEF Building, Doing
      <4>2. ASSUME NEW v, NEW g PROVE Left(todo', v, g) <=> Left(todo, v, g)
        <5>1. ~IsDocker(Head(todo), v, g)
          BY <3>1, <3>9 DEF IsDocker, Doing
        <5> QED  BY <3>1, <3>3, <5>1, TailLeft
      <4>3. ASSUME NEW e \in Of("gz"), NEW h \in Groups PROVE Served(e.version, h)'
        <5>1. Served(e.version, h)
          BY <3>7
        <5>2. \A i : WheelsOf(e.version, i)' = WheelsOf(e.version, i)
          BY <4>1 DEF WheelsOf
        <5>3. Left(todo', e.version, h) <=> Left(todo, e.version, h)
          BY <4>2
        <5> QED  BY <4>1, <5>1, <5>2, <5>3 DEF Served, OneWheel, Left
      <4>4. \A w \in wheels' : IsWanted(w)
        BY <3>3, <4>1 DEF WheelsMade
      <4> QED  BY <3>4, <3>6, <4>3, <4>4
    <3> QED  BY <3>8, <3>9
  <2> QED  BY <1>2, <2>1, <2>2, StepTurns DEF Ends, Building
<1> QED  BY <1>1, <1>2 DEF WheelsMade

-----------------------------------------------------------------------------
(* Every step keeps the invariant; the theorems.                           *)

(* Nothing is left of a task. *)
LEMMA Idle ==
  ASSUME todo = <<>>
  PROVE  /\ PlanLeft(todo) /\ CommitKept /\ DocsMade /\ Stamped /\ DistMade /\ ~Building
<1>1. /\ PlanLeft(todo)
      /\ \A x, y : Ahead(todo, x, y) /\ ~Has(todo, x)
  BY EmptyLeft
<1>2. \A x : ~Doing(x)
  BY DEF Doing
<1> QED  BY <1>1, <1>2 DEF CommitKept, DocsMade, Stamped, DistMade, Building

LEMMA IdleNext ==
  ASSUME todo' = <<>>
  PROVE  /\ PlanLeft(todo)' /\ CommitKept' /\ DocsMade' /\ Stamped' /\ DistMade' /\ ~Building'
<1>1. /\ PlanLeft(todo')
      /\ \A x, y : Ahead(todo', x, y) /\ ~Has(todo', x)
  BY EmptyLeft
<1>2. \A x : ~Doing(x)'
  BY DEF Doing
<1>3. PlanLeft(todo)'
  BY <1>1 DEF PlanLeft, Chained, Ordered, Behind, Never
<1>4. CommitKept'
  BY <1>1 DEF CommitKept, Ahead
<1>5. DocsMade'
  BY <1>1 DEF DocsMade, Ahead, Has
<1>6. Stamped'
  BY <1>2 DEF Stamped
<1>7. DistMade'
  BY <1>2 DEF DistMade
<1> QED  BY <1>3, <1>4, <1>5, <1>6, <1>7 DEF Building

LEMMA InitInv ==
  ASSUME Init
  PROVE  ReleaseInv
<1>0. 1 \in Versions /\ MaxInvocations \in Nat
  BY ReleaseAssumption DEF Versions
<1>1. head \in Content /\ work \in Content /\ work.version = 1
  <2>1. head = [version |-> 1, conf |-> 1, changes |-> 1, page |-> PageOf(1)] /\ work = head
    BY DEF Init
  <2>2. PageOf(1) \in PageType
    BY <1>0, PageOfRight
  <2> QED  BY <1>0, <2>1, <2>2 DEF Content, PageType
<1>2. Released(head) /\ Released(work)
  <2>1. head.page = PageOf(1) /\ head.version = 1 /\ work = head
    BY DEF Init
  <2> QED  BY <1>0, <2>1, PageOfRight DEF Released
<1>3. dist \subseteq Archives /\ userdoc \in Names
  <2>1. userdoc \in Names
    BY <1>0 DEF Init, Names
  <2>2. File("gz", 1, TRUE) \in Archives
    BY <1>0, <1>1 DEF File, Archives, Forms, Names
  <2> QED  BY <2>1, <2>2 DEF Init
<1>4. todo = <<>> /\ staged = {} /\ wheels = {} /\ local = NoLocals /\ digests = NoDigests
      /\ tags = [v \in Versions |-> {}] /\ programs \in Installations /\ left = MaxInvocations
  BY DEF Init
<1>5. /\ PlanLeft(todo) /\ CommitKept /\ DocsMade /\ Stamped /\ DistMade /\ ~Building
  BY <1>4, Idle
<1>6. digests \in DigestsType /\ local \in LocalType /\ staged \subseteq Archives
      /\ wheels \subseteq Wheels /\ left \in 0 .. MaxInvocations
  BY <1>0, <1>4 DEF NoDigests, NoLocals, DigestsType, LocalType, Names
<1>7. tags \in [Versions -> SUBSET Content] /\ TagNamesVersion
  BY <1>4 DEF TagNamesVersion
<1>8. Typed
  BY <1>1, <1>3, <1>4, <1>5, <1>6, <1>7 DEF Typed, DigestsType, LocalType
<1>9. StagedUsed /\ WheelsMade
  BY <1>4, <1>5 DEF StagedUsed, WheelsMade
<1> QED  BY <1>2, <1>5, <1>7, <1>8, <1>9 DEF ReleaseInv, PagesRight

LEMMA EditInv ==
  ASSUME ReleaseInv, Edit \/ Commit \/ Restore
  PROVE  ReleaseInv'
<1>0. Typed /\ PagesRight /\ TagNamesVersion /\ StagedUsed /\ WheelsMade
      /\ work \in Content /\ head \in Content
  BY DEF ReleaseInv, Typed
<1>1. /\ todo = <<>> /\ todo' = <<>>
      /\ programs' = programs /\ tags' = tags /\ userdoc' = userdoc /\ dist' = dist
      /\ digests' = digests /\ staged' = staged /\ wheels' = wheels /\ local' = local
      /\ left' = left
  BY DEF Edit, Commit, Restore, inDist, inWheel, control
<1>2. /\ PlanLeft(todo)' /\ CommitKept' /\ DocsMade' /\ Stamped' /\ DistMade' /\ ~Building'
  BY <1>1, IdleNext
<1>3. work' \in Content /\ head' \in Content /\ Released(work') /\ Released(head')
  <2>1. CASE Edit
    <3>1. PICK heading \in {None, work.changes} :
            /\ work' = [work EXCEPT !.version = @ + 1, !.changes = heading] /\ head' = head
            /\ work.version < LastVersion
      BY <2>1 DEF Edit
    <3>2. work.version \in Versions /\ LastVersion \in Nat
      BY <1>0, ContentParts, ReleaseAssumption
    <3>3. work.version + 1 \in Versions
      BY <3>1, <3>2 DEF Versions
    <3>4. work'.version = work.version + 1 /\ work'.page = work.page /\ work' \in Content
      <4>1. heading \in Versions \union {None, Lost}
        BY <1>0, ContentParts
      <4> QED  BY <1>0, <3>1, <3>3, <4>1 DEF Content
    <3>5. 1 .. work.version \subseteq 1 .. work'.version
      BY <3>2, <3>4 DEF Versions
    <3> QED  BY <1>0, <3>1, <3>4, <3>5 DEF PagesRight, Released
  <2>2. CASE Commit
    BY <1>0, <2>2 DEF Commit, PagesRight
  <2>3. CASE Restore
    BY <1>0, <2>3 DEF Restore, PagesRight
  <2> QED  BY <2>1, <2>2, <2>3
<1>4. Typed'
  BY <1>0, <1>1, <1>2, <1>3 DEF Typed
<1>5. PagesRight'
  BY <1>3 DEF PagesRight, Released
<1>6. TagNamesVersion'
  BY <1>0, <1>1 DEF TagNamesVersion
<1>7. StagedUsed'
  BY <1>0, <1>1 DEF StagedUsed
<1>8. WheelsMade'
  BY <1>0, <1>1, <1>2 DEF WheelsMade
<1> QED  BY <1>2, <1>4, <1>5, <1>6, <1>7, <1>8 DEF ReleaseInv

LEMMA InvokeInv ==
  ASSUME ReleaseInv, NEW task, Invoke(task)
  PROVE  ReleaseInv'
<1>0. Typed /\ PagesRight /\ TagNamesVersion /\ StagedUsed /\ WheelsMade
      /\ work \in Content
  BY DEF ReleaseInv, Typed
<1>1. /\ todo = <<>> /\ todo' = Steps[programs][task]
      /\ programs' = programs /\ head' = head /\ work' = work /\ tags' = tags
      /\ userdoc' = userdoc /\ dist' = dist /\ digests' = digests /\ staged' = staged
      /\ wheels' = wheels /\ local' = [files |-> {}, began |-> work.conf]
  BY DEF Invoke, inDist, inWheel
<1>2. task \in Tasks /\ programs \in Installations
  <2>1. programs \in Installations
    BY <1>0 DEF Typed
  <2> QED  BY <2>1 DEF Invoke, Startable, Registered, Tasks
<1>3. PICK s : s = todo' /\ s \in Seq(Acts) /\ Chained(s) /\ Ordered(s) /\ Started(s)
  BY <1>1, <1>2, InvokedOrder
<1>4. PlanLeft(todo)'
  BY <1>3 DEF PlanLeft, Chained, Ordered, Behind, Never
<1>5. s # <<>> => Head(s) = s[1] /\ Head(s) \in Acts
  BY <1>3
<1>6. ~Building'
  BY <1>3, <1>5 DEF Building, Acts, Ops
<1>7. \A x \in Seconds : ~Doing(x)'
  BY <1>3, <1>5 DEF Started, Doing
<1>8. Stamped' /\ DistMade'
  BY <1>7 DEF Stamped, DistMade, Seconds
<1>9. CommitKept'
  BY <1>3 DEF CommitKept, Started, Ahead
<1>10. DocsMade'
  BY <1>1, <1>3 DEF DocsMade, Started, Ahead, Has
<1>11. left' \in 0 .. MaxInvocations
  BY <1>0, ReleaseAssumption DEF Invoke, Typed
<1>12. Typed'
  <2>1. work.conf \in Names
    BY <1>0, ContentParts DEF Names
  <2> QED  BY <1>0, <1>1, <1>4, <1>11, <2>1 DEF Typed
<1>13. PagesRight'
  BY <1>0, <1>1 DEF PagesRight, Released
<1>14. TagNamesVersion'
  BY <1>0, <1>1 DEF TagNamesVersion
<1>15. StagedUsed'
  BY <1>0, <1>1 DEF StagedUsed
<1>16. WheelsMade'
  BY <1>0, <1>1, <1>6 DEF WheelsMade
<1> QED
  BY <1>8, <1>9, <1>10, <1>12, <1>13, <1>14, <1>15, <1>16 DEF ReleaseInv

LEMMA StepInv ==
  ASSUME ReleaseInv, Step
  PROVE  ReleaseInv'
<1>1. Typed /\ PagesRight /\ CommitKept /\ TagNamesVersion /\ DocsMade /\ Stamped
      /\ DistMade /\ StagedUsed /\ WheelsMade
  BY DEF ReleaseInv
<1>2. Typed'
  BY TypedStep
<1>3. PagesRight' /\ CommitKept' /\ TagNamesVersion' /\ DocsMade' /\ Stamped'
  BY <1>1, PagesStep, CommitStep, TagStep, DocsStep, StampedStep
<1>4. DistMade' /\ StagedUsed' /\ WheelsMade'
  BY <1>1, DistStep, StagedStep, WheelsStep
<1> QED  BY <1>2, <1>3, <1>4 DEF ReleaseInv

LEMMA StutterInv ==
  ASSUME ReleaseInv, UNCHANGED vars
  PROVE  ReleaseInv'
<1>1. /\ programs' = programs /\ head' = head /\ work' = work /\ tags' = tags
      /\ userdoc' = userdoc /\ dist' = dist /\ digests' = digests /\ staged' = staged
      /\ wheels' = wheels /\ local' = local /\ left' = left /\ todo' = todo
  BY DEF vars
<1>2. Typed'
  <2>1. PlanLeft(todo') \/ WheelsLeft(todo)'
    <3>1. CASE PlanLeft(todo)
      BY <1>1, <3>1
    <3>2. CASE WheelsLeft(todo)
      BY <1>1, <3>2 DEF WheelsLeft, Of
    <3> QED  BY <3>1, <3>2 DEF ReleaseInv, Typed
  <2> QED  BY <1>1, <2>1 DEF ReleaseInv, Typed
<1>3. PagesRight' /\ CommitKept' /\ TagNamesVersion' /\ DocsMade' /\ Stamped'
  BY <1>1 DEF ReleaseInv, PagesRight, Released, CommitKept, TagNamesVersion, DocsMade, Stamped,
     Ahead, Has, Doing, DevShown, SameTree, ChangesKept
<1>4. DistMade' /\ StagedUsed'
  BY <1>1 DEF ReleaseInv, DistMade, Gathered, Of, Doing, StagedUsed
<1>5. WheelsMade'
  <2>1. Of("gz")' = Of("gz") /\ (Building' <=> Building)
    BY <1>1 DEF Of, Building
  <2>2. ASSUME NEW v, NEW g, Served(v, g)
        PROVE  Served(v, g)'
    BY <1>1, <2>2 DEF Served, OneWheel, WheelsOf, Left
  <2>3. ASSUME NEW w, IsWanted(w)
        PROVE  IsWanted(w)'
    BY <2>1, <2>3 DEF IsWanted
  <2> QED  BY <1>1, <2>1, <2>2, <2>3 DEF ReleaseInv, WheelsMade
<1> QED  BY <1>2, <1>3, <1>4, <1>5 DEF ReleaseInv

(* The steps that are left are in the order of a task's body, or are those *)
(* of build.wheels; what has been stamped, built and archived so far is what*)
(* the steps behind have done: see ReleaseInv.                             *)
THEOREM ReleaseInvCorrect == Spec => []ReleaseInv
<1>1. Init => ReleaseInv
  BY InitInv
<1>2. ReleaseInv /\ [Next]_vars => ReleaseInv'
  BY EditInv, InvokeInv, StepInv, StutterInv DEF Next, Developer
<1> QED  BY <1>1, <1>2, PTL DEF Spec

(* Files, tags, archives, wheels and the locals of a task stay in their    *)
(* ranges.                                                                 *)
THEOREM ReleaseTypeCorrect == Spec => []TypeOK
<1>1. ReleaseInv => TypeOK
  BY DEF ReleaseInv, Typed, TypeOK
<1> QED  BY <1>1, ReleaseInvCorrect, PTL

(* Each tag that build.version adds names a commit of its own version,     *)
(* whatever has been edited, stamped or left half-written.                 *)
THEOREM TagNamesVersionCorrect == Spec => []TagNamesVersion
<1>1. ReleaseInv => TagNamesVersion
  BY DEF ReleaseInv
<1> QED  BY <1>1, ReleaseInvCorrect, PTL

LEMMA DeveloperKeeps ==
  ASSUME Developer
  PROVE  /\ todo = <<>> /\ tags' = tags /\ dist' = dist /\ digests' = digests
  BY DEF Developer, Edit, Commit, Restore, Invoke, inDist

(* When a version is tagged, conf.py and the download page have it: the    *)
(* steps before the tag have not failed.  The working tree is the commit   *)
(* but for what was stamped since - in CHANGES a heading that the commit   *)
(* has without a version - and the commit itself if that had its stamps:   *)
(* the check for a clean checkout comes first.                             *)
THEOREM TaggedStampedCorrect == Spec => TaggedStamped
<1> DEFINE P == tags' # tags =>
       /\ work.conf = work.version
       /\ work.page.dev = IF work.version \in DevVersions THEN work.version ELSE None
       /\ work.page.stable \in {None} \union ((1 .. work.version) \ DevVersions)
       /\ work.changes = IF head.changes = None THEN work.version ELSE head.changes
       /\ work = [head EXCEPT !.conf = work.conf, !.page = work.page,
                              !.changes = work.changes]
       /\ StampedBefore(head) => work = head
<1>1. ReleaseInv /\ [Next]_vars => [P]_vars
  <2>1. ASSUME ReleaseInv, Step, tags' # tags PROVE P
    <3>1. Doing("tag")
      BY <2>1, StepKeeps
    <3>2. /\ work.conf = work.version /\ DevShown /\ work.changes # None
          /\ Released(work) /\ SameTree
      BY <2>1, <3>1, TagTime DEF ReleaseInv, Stamped, PagesRight
    <3>3. work = [head EXCEPT !.conf = work.conf, !.page = work.page,
                              !.changes = work.changes]
      <4>1. head \in Content /\ work \in Content /\ head.version = work.version
        BY <2>1, <3>2 DEF ReleaseInv, Typed, SameTree
      <4> QED  BY <4>1 DEF Content
    <3>4. work.changes = IF head.changes = None THEN work.version ELSE head.changes
      BY <3>2 DEF SameTree, ChangesKept
    <3> QED  BY <3>2, <3>3, <3>4 DEF DevShown, Released, SameTree
  <2>2. ReleaseInv /\ Step => P
    BY <2>1
  <2>3. Developer => P
    BY DeveloperKeeps
  <2> HIDE DEF P
  <2> QED  BY <2>2, <2>3 DEF Next
<1>2. Spec => [][P]_vars
  BY <1>1, ReleaseInvCorrect, PTL DEF Spec
<1> QED  BY <1>2 DEF TaggedStamped

(* The digests that build.release signs list every archive in dist/, whole *)
(* and of the version that is in the name: dist/ is wiped first, and a step*)
(* that fails ends the task.                                               *)
THEOREM SignedCompleteCorrect == Spec => SignedComplete
<1> DEFINE P == digests'.signed /\ ~digests.signed =>
       /\ digests.lists = dist
       /\ Of("tar") = {}
       /\ Of("zip") # {}
       /\ \A f \in dist : f.whole /\ f.version = digests.version
<1>1. ReleaseInv /\ [Next]_vars => [P]_vars
  <2>1. ASSUME ReleaseInv, Step, digests'.signed, ~digests.signed PROVE P
    <3>1. Doing("sign")
      <4>1. digests' # digests
        BY <2>1
      <4>2. Typed /\ DistMade
        BY <2>1 DEF ReleaseInv
      <4>3. digests' # NoDigests
        BY <2>1 DEF NoDigests
      <4>4. CASE Doing("digest")
        <5>1. DigestsOf(local.files).signed = FALSE
          BY DEF DigestsOf
        <5> QED  BY <2>1, <4>1, <4>4, <5>1, StepIs DEF Digest
      <4> QED  BY <2>1, <4>1, <4>3, <4>4, StepKeeps, StepIs DEF Wipe, Clean
    <3>2. /\ Gathered({"zip", "gz", "bz2", "xz"})
          /\ digests.version = work.version /\ digests.lists = dist
      BY <2>1, <3>1 DEF ReleaseInv, DistMade
    <3> QED  BY <3>2 DEF Gathered, Of
  <2>2. ReleaseInv /\ Step => P
    BY <2>1
  <2>3. Developer => P
    BY DeveloperKeeps
  <2> HIDE DEF P
  <2> QED
    BY <2>2, <2>3 DEF Next
<1>2. Spec => [][P]_vars
  BY <1>1, ReleaseInvCorrect, PTL DEF Spec
<1> QED  BY <1>2 DEF SignedComplete

(* What is new in dist/. *)
LEMMA NewArchives ==
  ASSUME ReleaseInv, Step, NEW f \in dist' \ dist, f.whole, f.form # "CHANGES"
  PROVE  f.text = local.began
<1>0. Typed /\ DocsMade /\ DistMade /\ userdoc \in Names
  BY DEF ReleaseInv, Typed
<1>1. ASSUME NEW form \in Forms, NEW text \in Names
      PROVE  /\ File(form, text, TRUE).text = text
             /\ File(form, text, FALSE).whole = FALSE
             /\ File(form, text, TRUE).form = form
             /\ f \in Replacing({File(form, text, FALSE)}) => FALSE
  <2>1. /\ File(form, text, TRUE).text = text /\ File(form, text, FALSE).whole = FALSE
        /\ File(form, text, TRUE).form = form
    BY DEF File
  <2>2. Replacing({File(form, text, FALSE)}) \subseteq dist \union {File(form, text, FALSE)}
    BY ReplacingIn
  <2>3. ASSUME f \in Replacing({File(form, text, FALSE)}) PROVE FALSE
    <3>1. f = File(form, text, FALSE)
      BY <2>2, <2>3
    <3> QED  BY <2>1, <3>1
  <2> QED  BY <2>1, <2>3
<1>2. ASSUME NEW forms, forms \subseteq Forms, f \in Made(forms) PROVE f.text = userdoc
  <2>1. PICK form \in forms : f = File(form, userdoc, TRUE)
    BY <1>0, <1>2, MadeIn
  <2> QED  BY <2>1 DEF File
<1>3. {"tar", "zip", "gz", "bz2", "xz", "CHANGES"} \subseteq Forms
  BY DEF Forms
<1>4. CASE Doing("wipe") \/ Doing("untar") \/ Doing("clean")
  BY <1>4, StepIs DEF Wipe, Untar, Clean
<1>5. CASE Doing("sdist")
  <2>1. userdoc = local.began
    BY <1>0, <1>5, DocsTime
  <2>2. f # File("zip", userdoc, FALSE) /\ f \notin Replacing({File("tar", userdoc, FALSE)})
    <3>1. "zip" \in Forms /\ "tar" \in Forms /\ userdoc \in Names /\ f.whole
      BY <1>0, <1>3
    <3>2. File("zip", userdoc, FALSE).whole = FALSE
      BY <1>1, <3>1
    <3>3. f \notin Replacing({File("tar", userdoc, FALSE)})
      BY <1>1, <3>1
    <3> QED  BY <3>1, <3>2, <3>3
  <2>3. f \in Made({"tar", "zip"}) \/ f \in Made({"tar"})
    BY <1>5, <2>2, StepIs DEF Sdist
  <2> QED  BY <1>2, <1>3, <2>1, <2>3
<1>6. CASE Doing("source")
  <2>1. userdoc = local.began
    BY <1>0, <1>6, DocsTime
  <2>2. f \notin Replacing({File("gz", userdoc, FALSE)})
    BY <1>0, <1>1, <1>3
  <2>3. f \in Made({"gz"})
    BY <1>6, <2>2, StepIs DEF Source
  <2> QED  BY <1>2, <1>3, <2>1, <2>3
<1>7. ASSUME NEW form \in {"gz", "bz2", "xz"}, Compress(form),
             NEW forms, Gathered(forms)
      PROVE  f.text = local.began
  <2>1. form \in Forms /\ TRUE \in BOOLEAN /\ FALSE \in BOOLEAN
    BY <1>3
  <2>2. PICK whole \in BOOLEAN : f \in Compressed(form, whole)
    <3>1. \A whole : Replacing(Compressed(form, whole)) \subseteq dist \union Compressed(form, whole)
      BY ReplacingIn
    <3> QED  BY <1>7, <3>1 DEF Compress
  <2>3. PICK t \in Of("tar") : f.text = t.text
    BY <1>0, <2>1, <2>2, CompressedTyped
  <2> QED  BY <1>7, <2>3 DEF Gathered, Of
<1>8. CASE Doing("gz") \/ Doing("bz2") \/ Doing("xz")
  BY <1>0, <1>7, <1>8, StepIs DEF DistMade
<1>9. CASE Doing("changelog")
  <2>1. work.changes \in Names
    BY <1>0, ContentParts DEF Names, Typed
  <2>2. f \notin Replacing({File("CHANGES", work.changes, FALSE)})
    BY <1>1, <1>3, <2>1
  <2>3. Replacing({File("CHANGES", work.changes, TRUE)})
          \subseteq dist \union {File("CHANGES", work.changes, TRUE)}
    BY ReplacingIn
  <2>4. CopyChanges
    BY <1>0, <1>9, StepIs
  <2>5. \/ dist' = Replacing({File("CHANGES", work.changes, TRUE)})
        \/ dist' = dist
        \/ dist' = Replacing({File("CHANGES", work.changes, FALSE)})
    BY <2>4 DEF CopyChanges
  <2>6. f \in dist' /\ f \notin dist
    BY <1>0
  <2>7. f = File("CHANGES", work.changes, TRUE)
    <3>1. CASE dist' = Replacing({File("CHANGES", work.changes, TRUE)})
      BY <2>3, <2>6, <3>1
    <3>2. CASE dist' = dist
      BY <2>6, <3>2
    <3>3. CASE dist' = Replacing({File("CHANGES", work.changes, FALSE)})
      <4>1. f \in Replacing({File("CHANGES", work.changes, FALSE)})
        BY <2>6, <3>3
      <4> QED  BY <2>2, <4>1
    <3> QED  BY <2>5, <3>1, <3>2, <3>3
  <2> QED  BY <2>7 DEF File
<1> QED  BY <1>4, <1>5, <1>6, <1>8, <1>9, StepKeeps

(* Finished archives have the documentation of the conf.py that the task   *)
(* has begun with: sphinx runs before the archiving and before the stamp.  *)
THEOREM DocsOfTheTaskCorrect == Spec => DocsOfTheTask
<1> DEFINE P == \A f \in dist' \ dist :
                  f.whole /\ f.form # "CHANGES" => f.text = local.began
<1>1. ReleaseInv /\ [Next]_vars => [P]_vars
  <2>1. ReleaseInv /\ Step => P
    BY NewArchives
  <2>2. Developer => P
    BY DeveloperKeeps
  <2> HIDE DEF P
  <2> QED  BY <2>1, <2>2 DEF Next
<1>2. Spec => [][P]_vars
  BY <1>1, ReleaseInvCorrect, PTL DEF Spec
<1> QED  BY <1>2 DEF DocsOfTheTask

(* When the last step of build.wheels is left. *)
LEMMA AllBuilt ==
  ASSUME Typed, StagedUsed, WheelsMade, Doing("rename")
  PROVE  /\ \A f \in staged : ~f.whole
         /\ \A w \in wheels : IsWanted(w)
         /\ \A f \in Of("gz"), g \in Groups :
              /\ Found(g) # {}
              /\ \A i \in Found(g) : \E w \in wheels : WheelsOf(f.version, i) = {w}
<1>1. Building /\ todo # <<>> /\ Head(todo).op = "rename"
  BY DEF Doing, Building
<1>2. WheelsLeft(todo)
  BY <1>1, HeadWheel
<1>3. Tail(todo) = <<>>
  BY <1>1, <1>2, TailWheels
<1>4. ASSUME NEW v, NEW g PROVE ~Left(todo, v, g)
  <2>1. ~Left(Tail(todo), v, g)
    BY <1>3, EmptyLeft
  <2>2. ~IsDocker(Head(todo), v, g)
    BY <1>1 DEF IsDocker
  <2> QED  BY <1>1, <1>2, <2>1, <2>2, TailLeft
<1>5. \A f \in staged : ~f.whole
  BY <1>1 DEF StagedUsed
<1> QED  BY <1>1, <1>4, <1>5 DEF WheelsMade, Served, OneWheel

LEMMA RenameKeepsKeys ==
  ASSUME Typed, WheelsMade, NEW f, NEW i, NEW w \in wheels, WheelsOf(f.version, i) = {w},
         Rename
  PROVE  {u \in wheels' : IsFor(u, f, i)} = {Renamed(w)}
<1>1. wheels' = {Renamed(u) : u \in wheels}
  BY RenameIs
<1>2. ASSUME NEW u \in wheels PROVE IsFor(Renamed(u), f, i) <=> IsFor(u, f, i)
  BY RenamedIs DEF Typed, WheelsMade, IsFor
<1>3. ASSUME NEW u \in wheels PROVE IsFor(u, f, i) <=> u = w
  BY DEF WheelsOf, IsFor
<1> QED  BY <1>1, <1>2, <1>3

(* After build.wheels there is exactly one wheel of each tarball for each  *)
(* interpreter that an image has of those that were asked for, at least    *)
(* one of each image, and no other: a container that makes it was still to *)
(* come exactly as long as the wheel was missing, and the settings name one*)
(* image for it.                                                           *)
THEOREM WheelsCompleteCorrect == Spec => WheelsComplete
<1> DEFINE P == Doing("rename") =>
       /\ \A f \in staged : ~f.whole
       /\ \A f \in Of("gz"), g \in Groups :
            /\ \E w \in wheels' : \E i \in Found(g) : IsFor(w, f, i)
            /\ \A i \in Found(g) : Cardinality({w \in wheels' : IsFor(w, f, i)}) = 1
       /\ \A w \in wheels' : \E f \in Of("gz"), g \in Groups :
            \E i \in Found(g) : IsFor(w, f, i)
       /\ \A w \in wheels' : w.libc = "manylinux" => Cardinality(w.tags) = 1
<1>1. ReleaseInv /\ [Next]_vars => [P]_vars
  <2>1. ASSUME ReleaseInv, Step, Doing("rename") PROVE P
    <3>0. Typed /\ StagedUsed /\ WheelsMade /\ Rename
      BY <2>1, StepIs DEF ReleaseInv
    <3>1. \A f \in staged : ~f.whole
      BY <2>1, <3>0, AllBuilt
    <3>2. wheels' = {Renamed(u) : u \in wheels}
      BY <3>0, RenameIs
    <3>3. ASSUME NEW u \in wheels
          PROVE  /\ Renamed(u).version = u.version /\ Renamed(u).arch = u.arch
                 /\ Renamed(u).libc = u.libc /\ Renamed(u).python = u.python
                 /\ Renamed(u).abi = u.abi
                 /\ u.libc = "manylinux" => Renamed(u).tags = {Best(u.tags)}
      BY <3>0, RenamedIs DEF Typed, WheelsMade
    <3>4. ASSUME NEW f \in Of("gz"), NEW g \in Groups, NEW i \in Found(g)
          PROVE  /\ Cardinality({w \in wheels' : IsFor(w, f, i)}) = 1
                 /\ \E w \in wheels' : IsFor(w, f, i)
      <4>1. PICK w \in wheels : WheelsOf(f.version, i) = {w}
        BY <2>1, <3>0, AllBuilt
      <4>2. {u \in wheels' : IsFor(u, f, i)} = {Renamed(w)}
        BY <3>0, <4>1, RenameKeepsKeys
      <4> QED  BY <4>2, FS_Singleton
    <3>5. ASSUME NEW f \in Of("gz"), NEW g \in Groups PROVE Found(g) # {}
      BY <2>1, <3>0, AllBuilt
    <3>6. ASSUME NEW w \in wheels', w.libc = "manylinux" PROVE Cardinality(w.tags) = 1
      <4>1. PICK u \in wheels : w = Renamed(u)
        BY <3>2
      <4>2. w.tags = {Best(u.tags)}
        BY <3>3, <3>6, <4>1
      <4> QED  BY <4>2, FS_Singleton
    <3>7. ASSUME NEW w \in wheels'
          PROVE  \E f \in Of("gz"), g \in Groups : \E i \in Found(g) : IsFor(w, f, i)
      <4>1. PICK u \in wheels : w = Renamed(u)
        BY <3>2
      <4>2. IsWanted(u)
        BY <2>1, <3>0, AllBuilt
      <4>3. PICK f \in Of("gz"), g \in Groups : \E i \in Found(g) : IsFor(u, f, i)
        BY <4>2 DEF IsWanted
      <4>4. PICK i \in Found(g) : IsFor(u, f, i)
        BY <4>3
      <4>5. IsFor(w, f, i)
        BY <3>3, <4>1, <4>4 DEF IsFor
      <4> QED  BY <4>5
    <3> QED  BY <3>1, <3>4, <3>5, <3>6, <3>7
  <2>2. ReleaseInv /\ Step => P
    BY <2>1
  <2>3. Developer => P
    BY DeveloperKeeps DEF Doing
  <2> HIDE DEF P
  <2> QED  BY <2>2, <2>3 DEF Next
<1>2. Spec => [][P]_vars
  BY <1>1, ReleaseInvCorrect, PTL DEF Spec
<1> QED  BY <1>2, PTL DEF WheelsComplete, P
=============================================================================
