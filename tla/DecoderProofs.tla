--------------------------- MODULE DecoderProofs ----------------------------
(***************************************************************************)
(* Theorems about Decoders: for inputs of any length.                      *)
(***************************************************************************)
EXTENDS Decoders, FiniteSetTheorems, WellFoundedInduction, TLAPS

----------------------------------------------------------------------------
(* Induction over the numbers, with a set in place of a predicate: of the  *)
(* intervals from zero to a member of a set one is least, since proper     *)
(* inclusion of finite sets is well founded.                               *)

\* A set of numbers with a member has a least one.
LEMMA LeastMember ==
  ASSUME NEW S \in SUBSET Nat, S # {}
  PROVE  \E x \in S : \A y \in S : x <= y
  <1>1. PICK top \in S : TRUE
    OBVIOUS
  <1> DEFINE W == 0..top
             R == StrictSubsetOrdering(W)
             Up == {0..i : i \in S \cap W}
  <1>2. IsWellFoundedOn(R, SUBSET W)
    <2>1. IsFiniteSet(W)
      BY FS_Interval
    <2>2. FiniteSubsetsOf(W) = SUBSET W
      BY <2>1, FS_FiniteSubsetsOfFinite
    <2> QED BY <2>2, FS_StrictSubsetOrderingWellFounded
  <1>3. Up \in SUBSET SUBSET W /\ Up # {}
    OBVIOUS
  <1>4. PICK least \in Up : \A t \in Up : <<t, least>> \notin R
    <2> HIDE DEF R, Up
    <2> QED BY <1>2, <1>3, WFMin
  <1>5. PICK x \in S \cap W : least = 0..x
    OBVIOUS
  <1>6. ASSUME NEW y \in S, y < x
        PROVE  FALSE
    <2>1. 0..y \in Up /\ 0..y \subseteq 0..x /\ 0..y # 0..x /\ 0..y \in SUBSET W /\ 0..x \in SUBSET W
      BY <1>6
    <2>2. <<0..y, 0..x>> \in R
      BY <2>1 DEF StrictSubsetOrdering
    <2> QED BY <2>1, <2>2, <1>4, <1>5
  <1> QED BY <1>6

\* What holds at zero and goes from each number to the next holds of every number.
LEMMA Induction ==
  ASSUME NEW S, 0 \in S, \A n \in Nat : n \in S => n + 1 \in S
  PROVE  Nat \subseteq S
  <1> SUFFICES ASSUME Nat \ S # {} PROVE FALSE
    OBVIOUS
  <1>1. PICK x \in Nat \ S : \A y \in Nat \ S : x <= y
    BY LeastMember
  <1>2. x # 0 /\ x - 1 \in Nat
    OBVIOUS
  <1>3. x - 1 \in S
    BY <1>1, <1>2
  <1> QED BY <1>2, <1>3

----------------------------------------------------------------------------
(* Sequences                                                               *)

Listed(s) == s \in Seq({s[k] : k \in 1..Len(s)})

LEMMA AppendListed ==
  ASSUME NEW s, Listed(s), NEW e
  PROVE  /\ Listed(Append(s, e)) /\ Len(s) \in Nat /\ Len(Append(s, e)) = Len(s) + 1
         /\ \A k \in 1..Len(s) : Append(s, e)[k] = s[k]
         /\ Append(s, e)[Len(s) + 1] = e
  <1> DEFINE S == {s[k] : k \in 1..Len(s)}
             t == Append(s, e)
  <1>1. s \in Seq(S) /\ s \in Seq(S \cup {e})
    BY DEF Listed
  <1>2. /\ t \in Seq(S \cup {e}) /\ Len(s) \in Nat /\ Len(t) = Len(s) + 1
        /\ \A k \in 1..Len(s) : t[k] = s[k]
        /\ t[Len(s) + 1] = e
    BY <1>1
  <1> HIDE DEF t
  <1>3. t \in Seq({t[k] : k \in 1..Len(t)})
    BY <1>2
  <1> QED BY <1>2, <1>3 DEF Listed, t

----------------------------------------------------------------------------
(* Bytes                                                                   *)

LEMMA BytesAreNumbers == \A x \in Bytes : x \in Nat /\ x < 256
  BY DEF Bytes

\* The first bytes of an input, and a piece that lies within them.
LEMMA Beginning ==
  ASSUME NEW b \in Seq(Bytes), NEW n \in 0..Len(b)
  PROVE  /\ AD!Take(b, 0, n) \in Seq(Bytes)
         /\ Len(AD!Take(b, 0, n)) = n
         /\ \A i \in 1..n : AD!Take(b, 0, n)[i] = b[i] /\ b[i] \in Bytes
  BY DEF AD!Take

LEMMA PieceOfBeginning ==
  ASSUME NEW b \in Seq(Bytes), NEW n \in 0..Len(b), NEW at \in 0..n, NEW k \in 0..n - at
  PROVE  AD!Take(AD!Take(b, 0, n), at, k) = AD!Take(b, at, k)
  BY DEF AD!Take

LEMMA Piece ==
  ASSUME NEW b \in Seq(Bytes), NEW at \in 0..Len(b), NEW k \in 0..Len(b) - at
  PROVE  /\ AD!Take(b, at, k) \in Seq(Bytes)
         /\ Len(AD!Take(b, at, k)) = k
         /\ \A i \in 1..k : AD!Take(b, at, k)[i] = b[at + i]
  BY DEF AD!Take

LEMMA CanonicalBytes ==
  ASSUME NEW d \in Seq(Bytes)
  PROVE  AD!Canonical(d) \in Seq(Bytes)
  <1> DEFINE zeros == {i \in 1..Len(d) : \A j \in 1..i : d[j] = 0}
  <1>1. Cardinality(zeros) \in Nat
    <2>1. IsFiniteSet(1..Len(d)) /\ zeros \subseteq 1..Len(d)
      BY FS_Interval
    <2> HIDE DEF zeros
    <2> QED BY <2>1, FS_Subset, FS_CardinalityType
  <1>2. AD!Cardinality(zeros) = Cardinality(zeros)
    BY Zenon DEF AD!Cardinality, Cardinality
  <1>3. AD!Canonical(d) = SubSeq(d, Cardinality(zeros) + 1, Len(d))
    BY <1>2, Zenon DEF AD!Canonical
  <1> HIDE DEF zeros
  <1> QED BY <1>1, <1>3

LEMMA LengthsOf ==
  ASSUME NEW d \in Seq(Bytes), NEW type, NEW items
  PROVE  AD!AsLength(AD!Value(type, d, items)) \in Nat
  <1> DEFINE byte(i) == IF i > 0 THEN d[i] ELSE 0
  <1>1. ASSUME NEW i \in Int, i <= Len(d) PROVE byte(i) \in Nat
    <2>1. CASE i > 0
      <3>1. d[i] \in Bytes
        BY <1>1, <2>1
      <3>2. d[i] \in Nat
        BY <3>1, BytesAreNumbers
      <3> QED BY <2>1, <3>2
    <2> QED BY <1>1, <2>1
  <1>2. AD!AsLength(AD!Value(type, d, items)) =
          IF Len(d) > 3 THEN 2 ^ 24 ELSE 65536 * byte(Len(d) - 2) + 256 * byte(Len(d) - 1) + byte(Len(d))
    BY DEF AD!AsLength, AD!Value
  <1>3. 2 ^ 24 \in Nat
    OBVIOUS
  <1>4. byte(Len(d) - 2) \in Nat /\ byte(Len(d) - 1) \in Nat /\ byte(Len(d)) \in Nat
    BY <1>1
  <1> HIDE DEF byte
  <1> QED BY <1>2, <1>3, <1>4

LEMMA SurfaceLength ==
  ASSUME NEW d \in Seq(Bytes)
  PROVE  AD!AsLength(AD!Surface(d)) \in Nat
  <1> DEFINE type == IF AD!Safe(d) THEN "number" ELSE "bigint"
  <1>1. AD!AsLength(AD!Value(type, d, <<>>)) \in Nat
    BY LengthsOf
  <1> QED BY <1>1, Zenon DEF AD!Surface

----------------------------------------------------------------------------
(* One item                                                                *)

\* What is read of an input from a place on ends within it, or nothing is read.
Reads(b, v, at) == IF v.ok THEN v.next \in at..Len(b) ELSE v = AD!Fail

\* What is left of it when the input ends after n bytes.
Within(v, n) == IF v.ok /\ v.next <= n THEN v ELSE AD!Fail

LEMMA Results ==
  ASSUME NEW value, NEW next
  PROVE  /\ AD!Done(value, next).ok /\ AD!Done(value, next).next = next /\ AD!Done(value, next).value = value
         /\ ~AD!Fail.ok
  BY DEF AD!Done, AD!Fail

LEMMA Widths ==
  ASSUME NEW info \in 24..27
  PROVE  AD!Width(info) \in 1..8
  BY DEF AD!Width

LEMMA UintBegun ==
  ASSUME NEW b \in Seq(Bytes), NEW n \in 0..Len(b), NEW at \in 0..Len(b), NEW size \in 1..8
  PROVE  LET v == AD!Uint(b, at, size)
             w == AD!Uint(AD!Take(b, 0, n), at, size)
         IN  /\ Reads(b, v, at)
             /\ at <= n => w = Within(v, n)
             /\ v.ok => AD!AsLength(v.value) \in Nat
  <1> DEFINE v == AD!Uint(b, at, size)
             w == AD!Uint(AD!Take(b, 0, n), at, size)
             value == AD!Surface(AD!Canonical(AD!Take(b, at, size)))
  <1>1. v = IF size <= Len(b) - at THEN AD!Done(value, at + size) ELSE AD!Fail
    BY DEF AD!Uint, AD!Fits
  <1>2. Reads(b, v, at)
    BY <1>1, Results DEF Reads
  <1>3. at <= n => w = IF size <= n - at THEN AD!Done(value, at + size) ELSE AD!Fail
    BY Beginning, PieceOfBeginning DEF AD!Uint, AD!Fits
  <1>4. at <= n => w = Within(v, n)
    <2> HIDE DEF value, v, w
    <2> QED BY <1>1, <1>3, Results DEF Within
  <1>5. v.ok => AD!AsLength(v.value) \in Nat
    <2> HAVE v.ok
    <2>1. size <= Len(b) - at
      BY <1>1, Results
    <2>2. v.value = value
      BY <1>1, <2>1, Results
    <2>3. AD!Canonical(AD!Take(b, at, size)) \in Seq(Bytes)
      <3>1. size \in 0..Len(b) - at
        BY <2>1
      <3>2. AD!Take(b, at, size) \in Seq(Bytes)
        BY <3>1, Piece
      <3> QED BY <3>2, CanonicalBytes
    <2> HIDE DEF v
    <2> QED BY <2>2, <2>3, SurfaceLength
  <1> QED BY <1>2, <1>4, <1>5

LEMMA ArgumentBegun ==
  ASSUME NEW b \in Seq(Bytes), NEW n \in 0..Len(b), NEW at \in 0..Len(b), NEW info \in 0..31
  PROVE  LET v == AD!ReadArgument(b, at, info)
             w == AD!ReadArgument(AD!Take(b, 0, n), at, info)
         IN  /\ Reads(b, v, at)
             /\ at <= n => w = Within(v, n)
             /\ v.ok => AD!AsLength(v.value) \in Nat
  <1> DEFINE v == AD!ReadArgument(b, at, info)
             w == AD!ReadArgument(AD!Take(b, 0, n), at, info)
  <1> SUFFICES Reads(b, v, at) /\ (at <= n => w = Within(v, n)) /\ (v.ok => AD!AsLength(v.value) \in Nat)
    OBVIOUS
  <1>1. CASE info < 24
    <2> DEFINE r == AD!Done(AD!Surface(AD!Canonical(<<info>>)), at)
    <2>1. v = r /\ w = r
      BY <1>1 DEF AD!ReadArgument
    <2>2. <<info>> \in Seq(Bytes)
      BY DEF Bytes
    <2>3. AD!AsLength(AD!Surface(AD!Canonical(<<info>>))) \in Nat
      BY <2>2, CanonicalBytes, SurfaceLength
    <2> HIDE DEF v, w
    <2> QED BY <2>1, <2>3, Results DEF Reads, Within
  <1>2. CASE info \in 24..27
    <2>1. v = AD!Uint(b, at, AD!Width(info)) /\ w = AD!Uint(AD!Take(b, 0, n), at, AD!Width(info))
      BY <1>2 DEF AD!ReadArgument
    <2> HIDE DEF v, w
    <2> QED BY <1>2, <2>1, Widths, UintBegun
  <1>3. CASE info = 31
    <2>1. v = AD!Done(AD!Open, at) /\ w = AD!Done(AD!Open, at)
      BY <1>3 DEF AD!ReadArgument
    <2>2. AD!AsLength(AD!Open) \in Nat
      <3>1. <<>> \in Seq(Bytes)
        OBVIOUS
      <3> QED BY <3>1, LengthsOf DEF AD!Open
    <2> HIDE DEF v, w
    <2> QED BY <2>1, <2>2, Results DEF Reads, Within
  <1>4. CASE info \in 28..30
    <2>1. v = AD!Fail /\ w = AD!Fail
      BY <1>4 DEF AD!ReadArgument
    <2> HIDE DEF v, w
    <2> QED BY <2>1, Results DEF Reads, Within
  <1> QED BY <1>1, <1>2, <1>3, <1>4

LEMMA SimpleBegun ==
  ASSUME NEW b \in Seq(Bytes), NEW n \in 0..Len(b), NEW at \in 0..Len(b), NEW info \in 0..31
  PROVE  LET v == AD!Simple(b, at, info)
             w == AD!Simple(AD!Take(b, 0, n), at, info)
         IN  Reads(b, v, at) /\ (at <= n => w = Within(v, n))
  <1> DEFINE v == AD!Simple(b, at, info)
             w == AD!Simple(AD!Take(b, 0, n), at, info)
             size == AD!Width(info)
  <1> SUFFICES Reads(b, v, at) /\ (at <= n => w = Within(v, n))
    OBVIOUS
  <1>1. CASE info \in 20..23
    <2>1. v = AD!Done(AD!Value("simple", <<info>>, <<>>), at) /\ w = AD!Done(AD!Value("simple", <<info>>, <<>>), at)
      BY <1>1 DEF AD!Simple
    <2> HIDE DEF v, w
    <2> QED BY <2>1, Results DEF Reads, Within
  <1>2. CASE info \in 25..27
    <2> DEFINE value == IF size = 2 THEN AD!Half(b[at + 1], b[at + 2])
                        ELSE AD!Value("fraction", AD!Take(b, at, size), <<>>)
    <2>1. size \in 1..8
      BY <1>2, Widths
    <2>2. v = IF size <= Len(b) - at THEN AD!Done(value, at + size) ELSE AD!Fail
      BY <1>2, <2>1 DEF AD!Simple, AD!Fits
    <2>3. at <= n => w = IF size <= n - at THEN AD!Done(value, at + size) ELSE AD!Fail
      <3> SUFFICES ASSUME at <= n PROVE w = IF size <= n - at THEN AD!Done(value, at + size) ELSE AD!Fail
        OBVIOUS
      <3>1. w = IF ~(size <= n - at) THEN AD!Fail
                ELSE IF size = 2 THEN AD!Done(AD!Half(AD!Take(b, 0, n)[at + 1], AD!Take(b, 0, n)[at + 2]), at + 2)
                ELSE AD!Done(AD!Value("fraction", AD!Take(AD!Take(b, 0, n), at, size), <<>>), at + size)
        BY <1>2, Beginning DEF AD!Simple, AD!Fits
      <3>2. CASE ~(size <= n - at)
        <4> HIDE DEF value, w, size
        <4> QED BY <3>1, <3>2
      <3>3. CASE size <= n - at
        <4>1. AD!Take(AD!Take(b, 0, n), at, size) = AD!Take(b, at, size)
          BY <2>1, <3>3, PieceOfBeginning
        <4>2. size = 2 => AD!Take(b, 0, n)[at + 1] = b[at + 1] /\ AD!Take(b, 0, n)[at + 2] = b[at + 2]
          BY <2>1, <3>3, Beginning
        <4> HIDE DEF w, size
        <4> QED BY <3>1, <3>3, <4>1, <4>2
      <3> QED BY <3>2, <3>3
    <2> HIDE DEF value, v, w, size
    <2> QED BY <2>1, <2>2, <2>3, Results DEF Reads, Within
  <1>3. CASE info \notin 20..23 /\ info \notin 25..27
    <2>1. v = AD!Fail /\ w = AD!Fail
      BY <1>3 DEF AD!Simple
    <2> HIDE DEF v, w
    <2> QED BY <2>1, Results DEF Reads, Within
  <1> QED BY <1>1, <1>2, <1>3

LEMMA StringBegun ==
  ASSUME NEW b \in Seq(Bytes), NEW n \in 0..Len(b), NEW at \in 0..Len(b), NEW size \in Nat, NEW major
  PROVE  LET v == AD!String(b, at, size, major)
             w == AD!String(AD!Take(b, 0, n), at, size, major)
         IN  Reads(b, v, at) /\ (at <= n => w = Within(v, n))
  <1> DEFINE v == AD!String(b, at, size, major)
             w == AD!String(AD!Take(b, 0, n), at, size, major)
             ascii == \A i \in at + 1..at + size : b[i] < 128
             value == AD!Value(AD!TypeOf(major), AD!Take(b, at, size), <<>>)
  <1>1. v = IF size <= Len(b) - at /\ (major = 2 \/ ascii) THEN AD!Done(value, at + size) ELSE AD!Fail
    BY DEF AD!String, AD!Fits
  <1>2. at <= n => w = IF size <= n - at /\ (major = 2 \/ ascii) THEN AD!Done(value, at + size) ELSE AD!Fail
    <2> SUFFICES ASSUME at <= n
                 PROVE  w = IF size <= n - at /\ (major = 2 \/ ascii) THEN AD!Done(value, at + size) ELSE AD!Fail
      OBVIOUS
    <2>1. w = IF size <= n - at /\ (major = 2 \/ \A i \in at + 1..at + size : AD!Take(b, 0, n)[i] < 128)
              THEN AD!Done(AD!Value(AD!TypeOf(major), AD!Take(AD!Take(b, 0, n), at, size), <<>>), at + size)
              ELSE AD!Fail
      BY Beginning DEF AD!String, AD!Fits
    <2>2. size <= n - at => AD!Take(AD!Take(b, 0, n), at, size) = AD!Take(b, at, size)
      BY PieceOfBeginning
    <2>3. size <= n - at => ((\A i \in at + 1..at + size : AD!Take(b, 0, n)[i] < 128) <=> ascii)
      <3> HAVE size <= n - at
      <3>1. \A i \in at + 1..at + size : i \in 1..n
        OBVIOUS
      <3>2. \A i \in at + 1..at + size : AD!Take(b, 0, n)[i] = b[i]
        BY <3>1, Beginning
      <3> QED BY <3>2
    <2> HIDE DEF w, ascii
    <2> QED BY <2>1, <2>2, <2>3
  <1> HIDE DEF value, v, w, ascii
  <1>3. Reads(b, v, at) /\ (at <= n => w = Within(v, n))
    BY <1>1, <1>2, Results DEF Reads, Within
  <1> QED BY <1>3 DEF v, w

----------------------------------------------------------------------------
(* A loop over items                                                       *)

\* Every item that begins at a place ends after it.
Readings(b, read) ==
  \A at \in 0..Len(b) : IF read[at].ok THEN read[at].next \in at + 1..Len(b) ELSE read[at] = AD!Fail

\* The same items are read of the first n bytes, those that end within them.
Begun(read, short, n) == \A at \in 0..n : short[at] = Within(read[at], n)

Shape(p) == p \in [ok : BOOLEAN, at : Nat, items : {p.items}, left : Int]

\* A turn leaves a loop that is over alone, and takes a byte at least of one that
\* goes on; a loop over a number of items takes as many bytes at least.
LEMMA OneTurn ==
  ASSUME NEW b \in Seq(Bytes), NEW read, Readings(b, read), NEW major,
         NEW p, Shape(p), p.at \in 0..Len(b)
  PROVE  LET q == AD!ReadOne(b, read, major, p)
         IN  /\ Shape(q) /\ q.at \in p.at..Len(b)
             /\ AD!Over(p) => q = p
             /\ q.at > p.at \/ AD!Over(q)
             /\ q.ok /\ p.left \in Nat => q.left \in Nat /\ q.at + q.left >= p.at + p.left
  <1> DEFINE q == AD!ReadOne(b, read, major, p)
             first == read[p.at]
             break == p.left = AD!Forever /\ p.at < Len(b) /\ b[p.at + 1] = AD!BREAK
             bad == ~first.ok \/ (major # AD!Either /\ b[p.at + 1] \div 32 # major)
             Claim == /\ Shape(q) /\ q.at \in p.at..Len(b)
                      /\ AD!Over(p) => q = p
                      /\ q.at > p.at \/ AD!Over(q)
                      /\ q.ok /\ p.left \in Nat => q.left \in Nat /\ q.at + q.left >= p.at + p.left
  <1> SUFFICES Claim
    OBVIOUS
  <1>1. p.at \in Nat /\ p.left \in Int /\ p.ok \in BOOLEAN /\ AD!Forever = -1
    BY DEF Shape, AD!Forever
  <1>2. CASE AD!Over(p)
    <2>1. q = p
      BY <1>2 DEF AD!ReadOne
    <2> HIDE DEF q
    <2> QED BY <1>1, <1>2, <2>1
  <1>3. CASE ~AD!Over(p) /\ break
    <2>1. q = [p EXCEPT !.at = p.at + 1, !.left = 0]
      BY <1>3, Zenon DEF AD!ReadOne, AD!AfterBreak
    <2> HIDE DEF q
    <2>2. q.at = p.at + 1 /\ q.left = 0 /\ q.ok = p.ok /\ Shape(q)
      <3>1. p.at + 1 \in Nat
        BY <1>1
      <3>2. q = [ok |-> p.ok, at |-> p.at + 1, items |-> p.items, left |-> 0]
        BY <2>1 DEF Shape
      <3> QED BY <1>1, <3>1, <3>2 DEF Shape
    <2> QED BY <1>1, <1>3, <2>2
  <1>4. CASE ~AD!Over(p) /\ ~break /\ bad
    <2>1. q = [p EXCEPT !.ok = FALSE]
      BY <1>4, Zenon DEF AD!ReadOne
    <2> HIDE DEF q
    <2>2. q.at = p.at /\ ~q.ok /\ Shape(q)
      BY <1>1, <2>1 DEF Shape
    <2> QED BY <1>1, <1>4, <2>2 DEF AD!Over
  <1>5. CASE ~AD!Over(p) /\ ~break /\ ~bad
    <2> DEFINE left == IF p.left = AD!Forever THEN AD!Forever ELSE p.left - 1
    <2>1. q = [ok |-> TRUE, at |-> first.next, items |-> Append(p.items, first.value), left |-> left]
      BY <1>5, Zenon DEF AD!ReadOne
    <2>2. first.next \in p.at + 1..Len(b)
      BY <1>5 DEF Readings
    <2>3. left \in Int /\ (p.left \in Nat => left = p.left - 1 /\ left \in Nat)
      BY <1>1, <1>5 DEF AD!Over
    <2> HIDE DEF q, left
    <2>4. q.at = first.next /\ q.left = left /\ q.ok /\ Shape(q)
      <3>1. first.next \in Nat
        BY <1>1, <2>2
      <3> HIDE DEF first
      <3> QED BY <2>1, <2>3, <3>1 DEF Shape
    <2> HIDE DEF first
    <2> QED BY <1>1, <1>5, <2>2, <2>3, <2>4
  <1> QED BY <1>2, <1>3, <1>4, <1>5

\* What a loop has done is done of the first n bytes too, or fails there.
Same(p, q, n) == IF p.ok /\ p.at <= n THEN q = p ELSE ~q.ok

LEMMA OneTurnBegun ==
  ASSUME NEW b \in Seq(Bytes), NEW n \in 0..Len(b), NEW read, NEW short, NEW major,
         Readings(b, read), Begun(read, short, n),
         NEW p, NEW q, Shape(p), Shape(q), p.at \in 0..Len(b), Same(p, q, n)
  PROVE  Same(AD!ReadOne(b, read, major, p), AD!ReadOne(AD!Take(b, 0, n), short, major, q), n)
  <1> DEFINE p2 == AD!ReadOne(b, read, major, p)
             q2 == AD!ReadOne(AD!Take(b, 0, n), short, major, q)
             first == read[p.at]
  <1>1. p.at \in Nat /\ p.left \in Int /\ p.ok \in BOOLEAN /\ AD!Forever = -1 /\ AD!BREAK = 255 /\ q.ok \in BOOLEAN
    BY DEF Shape, AD!Forever, AD!BREAK
  <1>2. p2.at >= p.at /\ p2.at \in Nat /\ (AD!Over(p) => p2 = p)
    BY <1>1, OneTurn DEF Shape
  <1> SUFFICES Same(p2, q2, n)
    OBVIOUS
  <1>3. CASE ~(p.ok /\ p.at <= n)
    <2>1. ~q.ok
      BY <1>3 DEF Same
    <2>2. q2 = q
      BY <2>1 DEF AD!ReadOne, AD!Over
    <2>3. ~(p2.ok /\ p2.at <= n)
      <3>1. CASE ~p.ok
        <4>1. p2 = p
          BY <1>2, <3>1 DEF AD!Over
        <4> HIDE DEF p2
        <4> QED BY <3>1, <4>1
      <3>2. CASE p.ok
        <4> HIDE DEF p2
        <4> QED BY <1>1, <1>2, <1>3, <3>2
      <3> QED BY <3>1, <3>2
    <2> HIDE DEF p2, q2
    <2> QED BY <2>1, <2>2, <2>3 DEF Same
  <1>4. CASE p.ok /\ p.at <= n /\ AD!Over(p)
    <2>1. q = p /\ p2 = p
      BY <1>2, <1>4 DEF Same
    <2>2. q2 = q
      BY <1>4, <2>1 DEF AD!ReadOne
    <2> HIDE DEF p2, q2
    <2> QED BY <1>4, <2>1, <2>2 DEF Same
  <1>5. CASE p.ok /\ p.at <= n /\ ~AD!Over(p)
    <2>1. q = p
      BY <1>5 DEF Same
    <2>2. short[p.at] = Within(first, n)
      BY <1>1, <1>5 DEF Begun
    <2>3. IF first.ok THEN first.next \in p.at + 1..Len(b) ELSE first = AD!Fail
      BY <1>1 DEF Readings
    <2>4. Len(AD!Take(b, 0, n)) = n /\ (p.at < n => AD!Take(b, 0, n)[p.at + 1] = b[p.at + 1])
      BY <1>1, Beginning
    <2> DEFINE going == p.left = AD!Forever
               stop == b[p.at + 1] = AD!BREAK
               other == major # AD!Either /\ b[p.at + 1] \div 32 # major
               after == [p EXCEPT !.at = p.at + 1, !.left = 0]
               failed == [p EXCEPT !.ok = FALSE]
               next(v) == [ok |-> TRUE, at |-> v.next, items |-> Append(p.items, v.value),
                           left |-> IF going THEN AD!Forever ELSE p.left - 1]
    <2>5. p2 = IF going /\ p.at < Len(b) /\ stop THEN after
               ELSE IF ~first.ok \/ other THEN failed ELSE next(first)
      BY <1>5, Zenon DEF AD!ReadOne, AD!AfterBreak
    <2>6. after.ok /\ after.at = p.at + 1 /\ ~failed.ok
      BY <1>1, <1>5 DEF Shape
    <2>7. CASE p.at = n
      <3>1. short[p.at] = AD!Fail
        BY <1>1, <2>2, <2>3, <2>7 DEF Within
      <3>2. q2 = failed
        <4>1. ~(p.at < Len(AD!Take(b, 0, n)))
          BY <1>1, <2>4, <2>7
        <4>2. ~short[p.at].ok
          BY <3>1, Results
        <4> QED BY <1>5, <2>1, <4>1, <4>2, Zenon DEF AD!ReadOne
      <3>3. ~(p2.ok /\ p2.at <= n)
        <4>1. first.ok => next(first).at > n
          BY <1>1, <2>3, <2>7
        <4>2. after.at > n
          BY <1>1, <2>6, <2>7
        <4>3. p2 = after \/ p2 = failed \/ (first.ok /\ p2 = next(first))
          <5> HIDE DEF p2, after, failed, next, first, going, stop, other
          <5> QED BY <2>5
        <4> HIDE DEF p2, after, failed
        <4> QED BY <1>1, <2>3, <2>6, <4>1, <4>2, <4>3
      <3> HIDE DEF p2, q2, failed
      <3> QED BY <2>6, <3>2, <3>3 DEF Same
    <2>8. CASE p.at < n
      <3>1. q2 = IF going /\ stop THEN after
                 ELSE IF ~short[p.at].ok \/ other THEN failed ELSE next(short[p.at])
        BY <1>1, <1>5, <2>1, <2>4, <2>8 DEF AD!ReadOne, AD!AfterBreak
      <3>2. p2 = IF going /\ stop THEN after
                 ELSE IF ~first.ok \/ other THEN failed ELSE next(first)
        BY <1>1, <2>5, <2>8
      <3>3. next(first).at = first.next
        OBVIOUS
      <3>4. CASE going /\ stop
        <4> HIDE DEF p2, q2, after
        <4> QED BY <1>1, <2>6, <2>8, <3>1, <3>2, <3>4 DEF Same
      <3>5. CASE ~(going /\ stop) /\ first.ok /\ first.next <= n
        <4>1. short[p.at] = first
          BY <2>2, <3>5 DEF Within
        <4>2. q2 = p2
          <5> HIDE DEF p2, q2, first
          <5> QED BY <3>1, <3>2, <4>1, Zenon
        <4>3. p2 = failed \/ p2 = next(first)
          <5> HIDE DEF p2, q2, next, failed, first
          <5> QED BY <3>2, <3>5
        <4>4. CASE p2 = failed
          <5> HIDE DEF p2, q2, failed
          <5> QED BY <2>6, <4>2, <4>4 DEF Same
        <4>5. CASE p2 = next(first)
          <5>1. p2.ok /\ p2.at <= n
            <6> HIDE DEF p2, first
            <6> QED BY <3>5, <4>5
          <5> HIDE DEF p2, q2
          <5> QED BY <4>2, <5>1 DEF Same
        <4> QED BY <4>3, <4>4, <4>5
      <3>6. CASE ~(going /\ stop) /\ ~(first.ok /\ first.next <= n)
        <4>1. ~short[p.at].ok
          BY <2>2, <3>6, Results DEF Within
        <4>2. q2 = failed
          <5> HIDE DEF p2, q2, first, failed, next
          <5> QED BY <3>1, <3>6, <4>1
        <4>3. p2 = failed \/ (p2 = next(first) /\ first.next > n)
          <5>1. first.ok => first.next \in Nat
            BY <1>1, <2>3
          <5> HIDE DEF p2, q2, first, failed, next
          <5> QED BY <3>2, <3>6, <5>1
        <4>4. ~(p2.ok /\ p2.at <= n)
          <5>1. first.ok => first.next \in Nat
            BY <1>1, <2>3
          <5>2. CASE p2 = failed
            <6> HIDE DEF p2, failed
            <6> QED BY <2>6, <5>2
          <5>3. CASE p2 = next(first) /\ first.next > n
            <6>1. p2.at = first.next
              <7> HIDE DEF p2, first
              <7> QED BY <5>3
            <6>2. p2.at \in Nat
              BY <1>2
            <6> HIDE DEF p2, first
            <6> QED BY <5>3, <6>1, <6>2
          <5> QED BY <4>3, <5>2, <5>3
        <4> HIDE DEF p2, q2, failed
        <4> QED BY <2>6, <4>2, <4>4 DEF Same
      <3> QED BY <3>4, <3>5, <3>6
    <2> QED BY <1>1, <1>5, <2>7, <2>8
  <1> QED BY <1>3, <1>4, <1>5


\* The turns of a loop.
Turns(b, read, at, left, major, t) ==
  /\ t[0] = [ok |-> TRUE, at |-> at, items |-> <<>>, left |-> left]
  /\ \A i \in 1..Len(b) : t[i] = AD!ReadOne(b, read, major, t[i - 1])

LEMMA TurnsAre ==
  ASSUME NEW b \in Seq(Bytes), NEW read, NEW at, NEW left, NEW major
  PROVE  \E t : /\ Turns(b, read, at, left, major, t)
                /\ AD!ReadItems(b, read, at, left, major) =
                     [ok |-> t[Len(b)].ok /\ t[Len(b)].left = 0, at |-> t[Len(b)].at, items |-> t[Len(b)].items]
  <1> DEFINE start == [ok |-> TRUE, at |-> at, items |-> <<>>, left |-> left]
             step(p) == AD!ReadOne(b, read, major, p)
             Row(t, n) == t = [i \in 0..n |-> IF i = 0 THEN start ELSE step(t[i - 1])]
             Numbers_ == {n \in Nat : \E t : Row(t, n)}
  <1> HIDE DEF start, step
  <1>1. 0 \in Numbers_
    <2>1. Row([i \in 0..0 |-> start], 0)
      OBVIOUS
    <2> QED BY <2>1
  <1>2. ASSUME NEW n \in Nat, n \in Numbers_
        PROVE  n + 1 \in Numbers_
    <2>1. PICK t : Row(t, n)
      BY <1>2
    <2> DEFINE u == [i \in 0..n + 1 |-> IF i = n + 1 THEN step(t[n]) ELSE t[i]]
    <2>2. ASSUME NEW i \in 0..n + 1 PROVE u[i] = IF i = 0 THEN start ELSE step(u[i - 1])
      <3>1. CASE i = n + 1
        <4>1. u[i] = step(t[n]) /\ u[n] = t[n] /\ i - 1 = n /\ i # 0
          BY <3>1
        <4> HIDE DEF u
        <4> QED BY <4>1
      <3>2. CASE i \in 1..n
        <4>1. t[i] = step(t[i - 1])
          BY <2>1, <3>2
        <4>2. u[i] = t[i] /\ u[i - 1] = t[i - 1] /\ i # 0
          BY <3>2
        <4> HIDE DEF u
        <4> QED BY <4>1, <4>2
      <3>3. CASE i = 0
        <4>1. t[0] = start
          BY <2>1
        <4>2. u[0] = t[0]
          OBVIOUS
        <4> HIDE DEF u
        <4> QED BY <3>3, <4>1, <4>2
      <3> QED BY <3>1, <3>2, <3>3
    <2>3. Row(u, n + 1)
      <3>1. u = [i \in 0..n + 1 |-> u[i]]
        OBVIOUS
      <3> HIDE DEF u
      <3> QED BY <2>2, <3>1
    <2> HIDE DEF u, Row
    <2> QED BY <2>3
  <1>3. Len(b) \in Numbers_
    <2>1. \A n \in Nat : n \in Numbers_ => n + 1 \in Numbers_
      BY <1>2
    <2>2. Len(b) \in Nat
      OBVIOUS
    <2> HIDE DEF Numbers_
    <2> QED BY <1>1, <2>1, <2>2, Induction
  <1>4. \E t : t = [i \in 0..Len(b) |-> IF i = 0 THEN start ELSE step(t[i - 1])]
    BY <1>3
  <1> DEFINE turn == CHOOSE t : t = [i \in 0..Len(b) |-> IF i = 0 THEN start ELSE step(t[i - 1])]
  <1>5. turn = [i \in 0..Len(b) |-> IF i = 0 THEN start ELSE step(turn[i - 1])]
    BY <1>4
  <1>6. AD!ReadItems(b, read, at, left, major) =
          [ok |-> turn[Len(b)].ok /\ turn[Len(b)].left = 0, at |-> turn[Len(b)].at, items |-> turn[Len(b)].items]
    BY Zenon DEF AD!ReadItems, start, step
  <1> HIDE DEF turn
  <1>7. turn[0] = start /\ \A i \in 1..Len(b) : turn[i] = step(turn[i - 1])
    BY <1>5
  <1>8. Turns(b, read, at, left, major, turn)
    BY <1>7 DEF Turns, start, step
  <1> QED BY <1>6, <1>8

LEMMA TurnsRun ==
  ASSUME NEW b \in Seq(Bytes), NEW read, Readings(b, read), NEW at \in 0..Len(b),
         NEW left \in Int, NEW major, NEW t, Turns(b, read, at, left, major, t)
  PROVE  \A i \in 0..Len(b) :
            /\ Shape(t[i]) /\ t[i].at \in at..Len(b)
            /\ AD!Over(t[i]) \/ t[i].at >= at + i
            /\ t[i].ok /\ left \in Nat => t[i].left \in Nat /\ t[i].at + t[i].left >= at + left
  <1> DEFINE Runs(i) == /\ Shape(t[i]) /\ t[i].at \in at..Len(b)
                        /\ AD!Over(t[i]) \/ t[i].at >= at + i
                        /\ t[i].ok /\ left \in Nat => t[i].left \in Nat /\ t[i].at + t[i].left >= at + left
             Long == {i \in Nat : i <= Len(b) => Runs(i)}
  <1>1. 0 \in Long
    <2>1. t[0] = [ok |-> TRUE, at |-> at, items |-> <<>>, left |-> left]
      BY DEF Turns
    <2>2. Shape(t[0]) /\ t[0].at = at /\ t[0].left = left
      BY <2>1 DEF Shape
    <2> QED BY <2>2
  <1>2. ASSUME NEW i \in Nat, i \in Long, i + 1 <= Len(b) PROVE Runs(i + 1)
    <2>1. Runs(i)
      BY <1>2
    <2>2. t[i + 1] = AD!ReadOne(b, read, major, t[i])
      BY <1>2 DEF Turns
    <2>3. t[i].at \in 0..Len(b)
      BY <2>1
    <2>4. /\ Shape(t[i + 1]) /\ t[i + 1].at \in t[i].at..Len(b)
          /\ AD!Over(t[i]) => t[i + 1] = t[i]
          /\ t[i + 1].at > t[i].at \/ AD!Over(t[i + 1])
          /\ t[i + 1].ok /\ t[i].left \in Nat => t[i + 1].left \in Nat /\ t[i + 1].at + t[i + 1].left >= t[i].at + t[i].left
      BY <2>1, <2>2, <2>3, OneTurn
    <2>5. t[i + 1].at \in at..Len(b) /\ t[i].at \in Nat /\ t[i + 1].at \in Nat
      BY <2>1, <2>4
    <2>6. AD!Over(t[i + 1]) \/ t[i + 1].at >= at + (i + 1)
      <3>1. CASE AD!Over(t[i])
        BY <2>4, <3>1
      <3>2. CASE ~AD!Over(t[i])
        BY <2>1, <2>4, <2>5, <3>2
      <3> QED BY <3>1, <3>2
    <2>7. ASSUME t[i + 1].ok, left \in Nat
          PROVE  t[i + 1].left \in Nat /\ t[i + 1].at + t[i + 1].left >= at + left
      <3>1. t[i].ok
        BY <2>4, <2>7 DEF AD!Over
      <3>2. t[i].left \in Nat /\ t[i].at + t[i].left >= at + left
        BY <2>1, <2>7, <3>1
      <3>3. t[i + 1].left \in Nat /\ t[i + 1].at + t[i + 1].left >= t[i].at + t[i].left
        BY <2>4, <2>7, <3>2
      <3>4. /\ at + left \in Int /\ t[i].at + t[i].left \in Int /\ t[i + 1].at + t[i + 1].left \in Int
        <4>1. at \in Int /\ left \in Int
          OBVIOUS
        <4>2. t[i].at \in Int /\ t[i].left \in Int
          BY <2>5, <3>2
        <4>3. t[i + 1].at \in Int /\ t[i + 1].left \in Int
          BY <2>5, <3>3
        <4>4. \A x, y \in Int : x + y \in Int
          OBVIOUS
        <4> QED BY <4>1, <4>2, <4>3, <4>4, Zenon
      <3>5. \A x, y, z \in Int : x >= y /\ y >= z => x >= z
        OBVIOUS
      <3>6. t[i + 1].at + t[i + 1].left >= at + left
        <4> DEFINE x == t[i + 1].at + t[i + 1].left
                   y == t[i].at + t[i].left
                   z == at + left
        <4>1. x \in Int /\ y \in Int /\ z \in Int /\ x >= y /\ y >= z
          BY <3>2, <3>3, <3>4
        <4> HIDE DEF x, y, z
        <4>2. x >= z
          BY <3>5, <4>1
        <4> QED BY <4>2 DEF x, y, z
      <3> QED BY <3>3, <3>6
    <2> QED BY <2>4, <2>5, <2>6, <2>7
  <1>3. Nat \subseteq Long
    <2>1. \A i \in Nat : i \in Long => i + 1 \in Long
      BY <1>2
    <2> HIDE DEF Long
    <2> QED BY <1>1, <2>1, Induction
  <1>4. \A i \in 0..Len(b) : Runs(i)
    <2> HIDE DEF Runs
    <2> QED BY <1>3
  <1> QED BY <1>4

LEMMA TurnsStay ==
  ASSUME NEW b \in Seq(Bytes), NEW read, Readings(b, read), NEW at \in 0..Len(b),
         NEW left \in Int, NEW major, NEW t, Turns(b, read, at, left, major, t),
         NEW i \in 0..Len(b), NEW j \in i..Len(b)
  PROVE  t[j].at >= t[i].at /\ (AD!Over(t[i]) => t[j] = t[i])
  <1> DEFINE Stays(k) == t[k].at >= t[i].at /\ (AD!Over(t[i]) => t[k] = t[i])
             Later == {d \in Nat : i + d <= Len(b) => Stays(i + d)}
  <1>1. \A k \in 0..Len(b) : Shape(t[k]) /\ t[k].at \in 0..Len(b)
    BY TurnsRun
  <1>2. 0 \in Later
    BY <1>1
  <1>3. ASSUME NEW d \in Nat, d \in Later, i + (d + 1) <= Len(b) PROVE Stays(i + (d + 1))
    <2> DEFINE k == i + d
    <2>1. Stays(k) /\ k \in 0..Len(b) /\ k + 1 \in 1..Len(b) /\ i + (d + 1) = k + 1
      BY <1>3
    <2> HIDE DEF k
    <2>2. t[k + 1] = AD!ReadOne(b, read, major, t[k])
      BY <2>1 DEF Turns
    <2>3. t[k + 1].at \in t[k].at..Len(b) /\ (AD!Over(t[k]) => t[k + 1] = t[k])
      BY <1>1, <2>1, <2>2, OneTurn
    <2>4. t[i].at \in Nat /\ t[k].at \in Nat /\ t[k + 1].at \in Nat
      BY <1>1, <2>1
    <2>5. Stays(k + 1)
      BY <2>1, <2>3, <2>4
    <2> QED BY <2>1, <2>5
  <1>4. Nat \subseteq Later
    <2>1. \A d \in Nat : d \in Later => d + 1 \in Later
      BY <1>3
    <2> HIDE DEF Later
    <2> QED BY <1>2, <2>1, Induction
  <1>5. j - i \in Later /\ i + (j - i) = j
    BY <1>4
  <1> QED BY <1>5

LEMMA ShortReadings ==
  ASSUME NEW b \in Seq(Bytes), NEW n \in 0..Len(b), NEW read, NEW short, Readings(b, read), Begun(read, short, n)
  PROVE  Readings(AD!Take(b, 0, n), short)
  <1> SUFFICES ASSUME NEW at \in 0..n
               PROVE  IF short[at].ok THEN short[at].next \in at + 1..n ELSE short[at] = AD!Fail
    BY Beginning DEF Readings
  <1>1. short[at] = IF read[at].ok /\ read[at].next <= n THEN read[at] ELSE AD!Fail
    BY DEF Begun, Within
  <1>2. read[at].ok => read[at].next \in at + 1..Len(b)
    BY DEF Readings
  <1>3. CASE read[at].ok /\ read[at].next <= n
    BY <1>1, <1>2, <1>3
  <1>4. CASE ~(read[at].ok /\ read[at].next <= n)
    BY <1>1, <1>4, Results
  <1> QED BY <1>3, <1>4

LEMMA TurnsBegun ==
  ASSUME NEW b \in Seq(Bytes), NEW n \in 0..Len(b), NEW read, NEW short,
         Readings(b, read), Begun(read, short, n), NEW at \in 0..n, NEW left \in Int, NEW major,
         NEW t, Turns(b, read, at, left, major, t),
         NEW u, Turns(AD!Take(b, 0, n), short, at, left, major, u)
  PROVE  \A i \in 0..n : Same(t[i], u[i], n) /\ Shape(u[i])
  <1> DEFINE Alike == {i \in Nat : i <= n => Same(t[i], u[i], n)}
  <1>1. \A i \in 0..Len(b) : Shape(t[i]) /\ t[i].at \in 0..Len(b)
    BY TurnsRun
  <1>2. \A i \in 0..n : Shape(u[i])
    <2>1. Readings(AD!Take(b, 0, n), short)
      BY ShortReadings
    <2>2. AD!Take(b, 0, n) \in Seq(Bytes) /\ Len(AD!Take(b, 0, n)) = n
      BY Beginning
    <2> QED BY <2>1, <2>2, TurnsRun
  <1>3. 0 \in Alike
    <2>1. t[0] = [ok |-> TRUE, at |-> at, items |-> <<>>, left |-> left] /\ u[0] = t[0]
      BY DEF Turns
    <2>2. t[0].ok /\ t[0].at <= n
      BY <2>1
    <2> QED BY <2>1, <2>2 DEF Same
  <1>4. ASSUME NEW i \in Nat, i \in Alike, i + 1 <= n PROVE Same(t[i + 1], u[i + 1], n)
    <2>1. i \in 0..n /\ i \in 0..Len(b) /\ i + 1 \in 1..n /\ i + 1 \in 1..Len(b) /\ (i + 1) - 1 = i
      BY <1>4
    <2>2. Same(t[i], u[i], n)
      BY <1>4, <2>1
    <2>3. t[i + 1] = AD!ReadOne(b, read, major, t[i])
      BY <2>1 DEF Turns
    <2>4. u[i + 1] = AD!ReadOne(AD!Take(b, 0, n), short, major, u[i])
      <3>1. Len(AD!Take(b, 0, n)) = n
        BY Beginning
      <3> QED BY <2>1, <3>1 DEF Turns
    <2>5. Shape(t[i]) /\ t[i].at \in 0..Len(b) /\ Shape(u[i])
      BY <1>1, <1>2, <2>1
    <2> QED BY <2>2, <2>3, <2>4, <2>5, OneTurnBegun
  <1>5. Nat \subseteq Alike
    <2>1. \A i \in Nat : i \in Alike => i + 1 \in Alike
      BY <1>4
    <2> HIDE DEF Alike
    <2> QED BY <1>3, <2>1, Induction
  <1> QED BY <1>2, <1>5

LEMMA ItemsRead ==
  ASSUME NEW b \in Seq(Bytes), NEW read, Readings(b, read), NEW at \in 0..Len(b), NEW left \in Int, NEW major
  PROVE  LET r == AD!ReadItems(b, read, at, left, major)
         IN  r.at \in at..Len(b) /\ (r.ok /\ left \in Nat => r.at >= at + left)
  <1>1. PICK t : /\ Turns(b, read, at, left, major, t)
                 /\ AD!ReadItems(b, read, at, left, major) =
                      [ok |-> t[Len(b)].ok /\ t[Len(b)].left = 0, at |-> t[Len(b)].at, items |-> t[Len(b)].items]
    BY TurnsAre
  <1> DEFINE last == t[Len(b)]
  <1>2. /\ Shape(last) /\ last.at \in at..Len(b)
        /\ last.ok /\ left \in Nat => last.left \in Nat /\ last.at + last.left >= at + left
    BY <1>1, TurnsRun
  <1> HIDE DEF last
  <1>3. last.at \in Nat
    BY <1>2
  <1> DEFINE r == AD!ReadItems(b, read, at, left, major)
  <1>4. r = [ok |-> last.ok /\ last.left = 0, at |-> last.at, items |-> last.items]
    BY <1>1 DEF last
  <1> HIDE DEF r
  <1>5. r.at = last.at /\ (r.ok => last.ok /\ last.left = 0)
    BY <1>4
  <1>6. r.at \in at..Len(b) /\ (r.ok /\ left \in Nat => r.at >= at + left)
    BY <1>2, <1>3, <1>5
  <1> QED BY <1>6 DEF r

LEMMA ItemsBegun ==
  ASSUME NEW b \in Seq(Bytes), NEW n \in 0..Len(b), NEW read, NEW short,
         Readings(b, read), Begun(read, short, n), NEW at \in 1..n, NEW left \in Int, NEW major
  PROVE  LET r == AD!ReadItems(b, read, at, left, major)
             s == AD!ReadItems(AD!Take(b, 0, n), short, at, left, major)
         IN  IF r.ok /\ r.at <= n THEN s = r ELSE ~s.ok
  <1> DEFINE r == AD!ReadItems(b, read, at, left, major)
             s == AD!ReadItems(AD!Take(b, 0, n), short, at, left, major)
  <1>1. PICK t : /\ Turns(b, read, at, left, major, t)
                 /\ r = [ok |-> t[Len(b)].ok /\ t[Len(b)].left = 0, at |-> t[Len(b)].at, items |-> t[Len(b)].items]
    BY TurnsAre
  <1>2. AD!Take(b, 0, n) \in Seq(Bytes) /\ Len(AD!Take(b, 0, n)) = n
    BY Beginning
  <1>3. PICK u : /\ Turns(AD!Take(b, 0, n), short, at, left, major, u)
                 /\ s = [ok |-> u[n].ok /\ u[n].left = 0, at |-> u[n].at, items |-> u[n].items]
    BY <1>2, TurnsAre
  <1> HIDE DEF r, s
  <1>4. Same(t[n], u[n], n) /\ Shape(u[n])
    BY <1>1, <1>3, TurnsBegun
  <1>5. Shape(t[n]) /\ t[n].at \in Nat /\ t[Len(b)].at \in Nat /\ (AD!Over(t[n]) \/ t[n].at >= at + n)
    BY <1>1, TurnsRun DEF Shape
  <1>6. t[Len(b)].at >= t[n].at /\ (AD!Over(t[n]) => t[Len(b)] = t[n])
    BY <1>1, TurnsStay
  <1> SUFFICES IF r.ok /\ r.at <= n THEN s = r ELSE ~s.ok
    BY DEF r, s
  <1>7. CASE AD!Over(t[n])
    <2>1. r = [ok |-> t[n].ok /\ t[n].left = 0, at |-> t[n].at, items |-> t[n].items]
      BY <1>1, <1>6, <1>7
    <2>2. CASE t[n].ok /\ t[n].at <= n
      <3>1. u[n] = t[n]
        BY <1>4, <2>2 DEF Same
      <3>2. s = r
        BY <1>3, <2>1, <3>1
      <3>3. s.ok => s.at <= n
        BY <2>1, <2>2, <3>2
      <3> QED BY <3>2, <3>3
    <2>3. CASE ~(t[n].ok /\ t[n].at <= n)
      <3>1. ~u[n].ok
        BY <1>4, <2>3 DEF Same
      <3>2. ~(r.ok /\ r.at <= n)
        BY <2>1, <2>3
      <3>3. ~s.ok
        BY <1>3, <3>1
      <3> QED BY <3>2, <3>3
    <2> QED BY <2>2, <2>3
  <1>8. CASE ~AD!Over(t[n])
    <2>1. t[n].at > n
      BY <1>5, <1>8
    <2>2. ~s.ok
      <3> SUFFICES ASSUME u[n].ok PROVE u[n].left # 0
        BY <1>3
      <3>1. u[n] = t[n]
        BY <1>4 DEF Same
      <3> QED BY <1>8, <3>1 DEF AD!Over
    <2>3. ~(r.ok /\ r.at <= n)
      <3> SUFFICES ASSUME r.ok, r.at <= n PROVE FALSE
        OBVIOUS
      <3>1. t[Len(b)].at <= n /\ t[Len(b)].ok /\ t[Len(b)].left = 0
        BY <1>1
      <3> QED BY <1>5, <1>6, <2>1, <3>1
    <2> QED BY <2>2, <2>3
  <1> QED BY <1>7, <1>8

----------------------------------------------------------------------------
(* A value                                                                 *)

Major(b, at) == b[at + 1] \div 32
Info(b, at) == b[at + 1] % 32
Arg(b, at) == AD!ReadArgument(b, at + 1, Info(b, at))

LEMMA ReadValueIs ==
  ASSUME NEW b, NEW read, NEW at
  PROVE  AD!ReadValue(b, read, at) =
           IF at >= Len(b) THEN AD!Fail
           ELSE IF Major(b, at) = 7 THEN AD!Simple(b, at + 1, Info(b, at))
           ELSE IF ~Arg(b, at).ok \/ (Arg(b, at).value = AD!Open /\ Major(b, at) \in {0, 1, 6}) THEN AD!Fail
           ELSE AD!AfterHead(b, read, Major(b, at), Arg(b, at))
  BY DEF AD!ReadValue, Arg, Info, Major

LEMMA Sizes ==
  ASSUME NEW major, NEW arg, AD!AsLength(arg.value) \in Nat
  PROVE  AD!Declared(major, arg) \in Nat
  BY DEF AD!Declared

LEMMA OfItemsEnds ==
  ASSUME NEW major, NEW loop
  PROVE  LET v == AD!OfItems(major, loop) IN IF v.ok THEN v.next = loop.at ELSE v = AD!Fail
  BY Results DEF AD!OfItems

LEMMA AfterHeadRead ==
  ASSUME NEW b \in Seq(Bytes), NEW read, Readings(b, read), NEW major,
         NEW arg, arg.ok, arg.next \in 0..Len(b), AD!AsLength(arg.value) \in Nat
  PROVE  Reads(b, AD!AfterHead(b, read, major, arg), arg.next)
  <1> DEFINE v == AD!AfterHead(b, read, major, arg)
             open == arg.value = AD!Open
             size == AD!Declared(major, arg)
             loop == AD!Loop(b, read, major, arg)
  <1> SUFFICES Reads(b, v, arg.next)
    OBVIOUS
  <1>1. arg.next \in arg.next..Len(b) /\ arg.next \in Nat
    OBVIOUS
  <1>2. CASE major = 0
    <2>1. v = arg
      BY <1>2 DEF AD!AfterHead
    <2> HIDE DEF v
    <2> QED BY <1>1, <2>1 DEF Reads
  <1>3. CASE major = 1
    <2>1. v = AD!Done(AD!Negative(arg.value), arg.next)
      BY <1>3 DEF AD!AfterHead
    <2> HIDE DEF v
    <2> QED BY <1>1, <2>1, Results DEF Reads
  <1>4. CASE major = 6
    <2>1. v = read[arg.next]
      BY <1>4 DEF AD!AfterHead
    <2>2. IF v.ok THEN v.next \in arg.next + 1..Len(b) ELSE v = AD!Fail
      BY <2>1 DEF Readings
    <2> HIDE DEF v
    <2> QED BY <1>1, <2>2 DEF Reads
  <1>5. CASE major \notin {0, 1, 6} /\ major \in {2, 3} /\ ~open
    <2>1. v = AD!String(b, arg.next, size, major)
      BY <1>5 DEF AD!AfterHead
    <2>2. size \in Nat /\ Len(b) \in 0..Len(b)
      BY Sizes
    <2> HIDE DEF v, size
    <2> QED BY <2>1, <2>2, StringBegun
  <1>6. CASE major \notin {0, 1, 6} /\ ~(major \in {2, 3} /\ ~open)
    <2>1. v = AD!Fail \/ v = AD!OfItems(major, loop)
      BY <1>6 DEF AD!AfterHead
    <2>2. loop.at \in arg.next..Len(b)
      <3> DEFINE left == IF open THEN AD!Forever ELSE size
      <3>1. left \in Int
        BY Sizes DEF AD!Forever
      <3> HIDE DEF left
      <3>2. AD!ReadItems(b, read, arg.next, left, IF major < 4 THEN major ELSE AD!Either).at \in arg.next..Len(b)
        BY <3>1, ItemsRead
      <3> QED BY <3>2, Zenon DEF AD!Loop, left
    <2> HIDE DEF v, loop
    <2> QED BY <2>1, <2>2, OfItemsEnds, Results DEF Reads
  <1> QED BY <1>2, <1>3, <1>4, <1>5, <1>6

LEMMA AfterHeadBegun ==
  ASSUME NEW b \in Seq(Bytes), NEW n \in 0..Len(b), NEW read, NEW short,
         Readings(b, read), Begun(read, short, n), NEW major,
         NEW arg, arg.ok, arg.next \in 1..n, AD!AsLength(arg.value) \in Nat
  PROVE  AD!AfterHead(AD!Take(b, 0, n), short, major, arg) = Within(AD!AfterHead(b, read, major, arg), n)
  <1> DEFINE v == AD!AfterHead(b, read, major, arg)
             w == AD!AfterHead(AD!Take(b, 0, n), short, major, arg)
             open == arg.value = AD!Open
             size == AD!Declared(major, arg)
             loop == AD!Loop(b, read, major, arg)
             cut == AD!Loop(AD!Take(b, 0, n), short, major, arg)
  <1> SUFFICES w = Within(v, n)
    OBVIOUS
  <1>1. arg.next \in Nat /\ arg.next <= n /\ arg.next \in 0..n /\ arg.next \in 0..Len(b) /\ Len(AD!Take(b, 0, n)) = n
    BY Beginning
  <1>2. CASE major = 0
    <2>1. v = arg /\ w = arg
      BY <1>2 DEF AD!AfterHead
    <2> HIDE DEF v, w
    <2> QED BY <1>1, <2>1 DEF Within
  <1>3. CASE major = 1
    <2>1. v = AD!Done(AD!Negative(arg.value), arg.next) /\ w = v
      BY <1>3 DEF AD!AfterHead
    <2> HIDE DEF v, w
    <2> QED BY <1>1, <2>1, Results DEF Within
  <1>4. CASE major = 6
    <2>1. v = read[arg.next] /\ w = short[arg.next]
      BY <1>4 DEF AD!AfterHead
    <2> HIDE DEF v, w
    <2> QED BY <1>1, <2>1 DEF Begun
  <1>5. CASE major \notin {0, 1, 6} /\ major \in {2, 3} /\ ~open
    <2>1. v = AD!String(b, arg.next, size, major) /\ w = AD!String(AD!Take(b, 0, n), arg.next, size, major)
      BY <1>5 DEF AD!AfterHead
    <2>2. size \in Nat
      BY Sizes
    <2> HIDE DEF v, w, size
    <2> QED BY <1>1, <2>1, <2>2, StringBegun
  <1>6. CASE major \notin {0, 1, 6} /\ ~(major \in {2, 3} /\ ~open)
    <2>1. v = IF ~open /\ ~(size <= Len(b) - arg.next) THEN AD!Fail
              ELSE IF ~loop.ok THEN AD!Fail ELSE AD!OfItems(major, loop)
      BY <1>6 DEF AD!AfterHead, AD!Fits
    <2>2. w = IF ~open /\ ~(size <= n - arg.next) THEN AD!Fail
              ELSE IF ~cut.ok THEN AD!Fail ELSE AD!OfItems(major, cut)
      BY <1>1, <1>6 DEF AD!AfterHead, AD!Fits
    <2> DEFINE left == IF open THEN AD!Forever ELSE size
               kind == IF major < 4 THEN major ELSE AD!Either
    <2>3. left \in Int /\ size \in Nat /\ (~open => left = size)
      BY Sizes DEF AD!Forever
    <2>4. loop = AD!ReadItems(b, read, arg.next, left, kind) /\ cut = AD!ReadItems(AD!Take(b, 0, n), short, arg.next, left, kind)
      BY Zenon DEF AD!Loop
    <2> HIDE DEF v, w, left, kind, loop, cut, size
    <2>5. IF loop.ok /\ loop.at <= n THEN cut = loop ELSE ~cut.ok
      BY <1>1, <2>3, <2>4, ItemsBegun
    <2>6. loop.at \in arg.next..Len(b) /\ (loop.ok /\ left \in Nat => loop.at >= arg.next + left)
      BY <1>1, <2>3, <2>4, ItemsRead
    <2>7. IF AD!OfItems(major, loop).ok THEN AD!OfItems(major, loop).next = loop.at ELSE AD!OfItems(major, loop) = AD!Fail
      BY OfItemsEnds
    <2>8. CASE loop.ok /\ loop.at <= n
      <3>1. cut = loop
        BY <2>5, <2>8
      <3>2. ~open => size <= n - arg.next /\ size <= Len(b) - arg.next
        BY <1>1, <2>3, <2>6, <2>8
      <3>3. v = AD!OfItems(major, loop) /\ w = v
        BY <2>1, <2>2, <2>8, <3>1, <3>2
      <3> QED BY <2>7, <2>8, <3>3, Results DEF Within
    <2>9. CASE ~(loop.ok /\ loop.at <= n)
      <3>1. w = AD!Fail
        BY <2>2, <2>5, <2>9
      <3>2. v = AD!Fail \/ (v.ok /\ ~(v.next <= n))
        BY <2>1, <2>7, <2>9
      <3> QED BY <3>1, <3>2, Results DEF Within
    <2> QED BY <2>8, <2>9
  <1> QED BY <1>2, <1>3, <1>4, <1>5, <1>6

LEMMA HeadIs ==
  ASSUME NEW b \in Seq(Bytes), NEW at \in 0..Len(b), at < Len(b)
  PROVE  Major(b, at) \in 0..7 /\ Info(b, at) \in 0..31 /\ at + 1 \in 1..Len(b)
  <1>1. b[at + 1] \in Nat /\ b[at + 1] < 256
    BY BytesAreNumbers
  <1>2. \A x \in Nat : x < 256 => x \div 32 \in 0..7 /\ x % 32 \in 0..31
    OBVIOUS
  <1>3. at + 1 \in 1..Len(b)
    OBVIOUS
  <1> QED BY <1>1, <1>2, <1>3 DEF Major, Info

LEMMA ValueRead ==
  ASSUME NEW b \in Seq(Bytes), NEW read, Readings(b, read), NEW at \in 0..Len(b)
  PROVE  LET v == AD!ReadValue(b, read, at)
         IN  IF v.ok THEN v.next \in at + 1..Len(b) ELSE v = AD!Fail
  <1> DEFINE v == AD!ReadValue(b, read, at)
             arg == Arg(b, at)
             major == Major(b, at)
  <1> SUFFICES IF v.ok THEN v.next \in at + 1..Len(b) ELSE v = AD!Fail
    OBVIOUS
  <1>1. CASE at >= Len(b)
    <2>1. v = AD!Fail
      BY <1>1, ReadValueIs
    <2> HIDE DEF v
    <2> QED BY <2>1, Results
  <1>2. CASE at < Len(b)
    <2>1. v = IF major = 7 THEN AD!Simple(b, at + 1, Info(b, at))
              ELSE IF ~arg.ok \/ (arg.value = AD!Open /\ major \in {0, 1, 6}) THEN AD!Fail
              ELSE AD!AfterHead(b, read, major, arg)
      BY <1>2, ReadValueIs
    <2>2. Info(b, at) \in 0..31 /\ at + 1 \in 0..Len(b) /\ Len(b) \in 0..Len(b)
      BY <1>2, HeadIs
    <2>3. Reads(b, arg, at + 1) /\ (arg.ok => AD!AsLength(arg.value) \in Nat)
      BY <2>2, ArgumentBegun DEF Arg
    <2>4. Reads(b, AD!Simple(b, at + 1, Info(b, at)), at + 1)
      BY <2>2, SimpleBegun
    <2> HIDE DEF v, arg, major
    <2>5. CASE v = AD!Fail
      BY <2>5, Results
    <2>6. CASE v = AD!Simple(b, at + 1, Info(b, at))
      BY <2>4, <2>6 DEF Reads
    <2>7. CASE arg.ok /\ v = AD!AfterHead(b, read, major, arg)
      <3>1. arg.next \in at + 1..Len(b) /\ arg.next \in 0..Len(b)
        BY <2>3, <2>7 DEF Reads
      <3>2. Reads(b, v, arg.next)
        BY <2>3, <2>7, <3>1, AfterHeadRead
      <3> QED BY <3>1, <3>2 DEF Reads
    <2> QED BY <2>1, <2>5, <2>6, <2>7
  <1> QED BY <1>1, <1>2

LEMMA ValueBegun ==
  ASSUME NEW b \in Seq(Bytes), NEW n \in 0..Len(b), NEW read, NEW short,
         Readings(b, read), Begun(read, short, n), NEW at \in 0..n
  PROVE  AD!ReadValue(AD!Take(b, 0, n), short, at) = Within(AD!ReadValue(b, read, at), n)
  <1> DEFINE v == AD!ReadValue(b, read, at)
             c == AD!Take(b, 0, n)
             w == AD!ReadValue(c, short, at)
             arg == Arg(b, at)
             major == Major(b, at)
  <1>1. /\ c \in Seq(Bytes) /\ Len(c) = n /\ at \in 0..Len(b)
        /\ at < n => c[at + 1] = b[at + 1]
    BY Beginning
  <1>2. IF v.ok THEN v.next \in at + 1..Len(b) ELSE v = AD!Fail
    BY <1>1, ValueRead
  <1> HIDE DEF c
  <1> SUFFICES w = Within(v, n)
    BY DEF c
  <1>3. CASE at = n
    <2>1. w = AD!Fail
      BY <1>1, <1>3, ReadValueIs
    <2> HIDE DEF v, w
    <2> QED BY <1>2, <1>3, <2>1 DEF Within
  <1>4. CASE at < n
    <2>1. v = IF major = 7 THEN AD!Simple(b, at + 1, Info(b, at))
              ELSE IF ~arg.ok \/ (arg.value = AD!Open /\ major \in {0, 1, 6}) THEN AD!Fail
              ELSE AD!AfterHead(b, read, major, arg)
      BY <1>4, ReadValueIs
    <2>2. Info(c, at) = Info(b, at) /\ Major(c, at) = major
      BY <1>1, <1>4 DEF Info, Major
    <2>3. w = IF major = 7 THEN AD!Simple(c, at + 1, Info(b, at))
              ELSE IF ~Arg(c, at).ok \/ (Arg(c, at).value = AD!Open /\ major \in {0, 1, 6}) THEN AD!Fail
              ELSE AD!AfterHead(c, short, major, Arg(c, at))
      BY <1>1, <1>4, <2>2, ReadValueIs
    <2>4. Info(b, at) \in 0..31 /\ at + 1 \in 0..Len(b) /\ at + 1 <= n /\ at + 1 \in Nat
      <3>1. at \in 0..Len(b) /\ at < Len(b) /\ at + 1 <= n /\ at + 1 \in 0..Len(b) /\ at + 1 \in Nat
        BY <1>4
      <3> QED BY <3>1, HeadIs
    <2>5. Reads(b, arg, at + 1) /\ (arg.ok => AD!AsLength(arg.value) \in Nat)
      BY <2>4, ArgumentBegun DEF Arg
    <2>6. Arg(c, at) = Within(arg, n)
      BY <2>2, <2>4, ArgumentBegun DEF Arg, c
    <2>7. AD!Simple(c, at + 1, Info(b, at)) = Within(AD!Simple(b, at + 1, Info(b, at)), n)
      BY <2>4, SimpleBegun DEF c
    <2> HIDE DEF v, w, arg, major
    <2>8. CASE major = 7
      BY <2>1, <2>3, <2>7, <2>8
    <2>9. CASE major # 7 /\ (~arg.ok \/ (arg.value = AD!Open /\ major \in {0, 1, 6}))
      <3>1. v = AD!Fail
        BY <2>1, <2>9
      <3>2. w = AD!Fail
        BY <2>3, <2>6, <2>9, Results DEF Within
      <3> QED BY <3>1, <3>2 DEF Within
    <2>10. CASE major # 7 /\ arg.ok /\ ~(arg.value = AD!Open /\ major \in {0, 1, 6}) /\ arg.next <= n
      <3>1. Arg(c, at) = arg
        BY <2>6, <2>10 DEF Within
      <3>2. v = AD!AfterHead(b, read, major, arg) /\ w = AD!AfterHead(c, short, major, arg)
        BY <2>1, <2>3, <2>10, <3>1
      <3>3. arg.next \in 1..n
        BY <2>4, <2>5, <2>10 DEF Reads
      <3> QED BY <2>5, <2>10, <3>2, <3>3, AfterHeadBegun DEF c
    <2>11. CASE major # 7 /\ arg.ok /\ ~(arg.value = AD!Open /\ major \in {0, 1, 6}) /\ ~(arg.next <= n)
      <3>1. w = AD!Fail
        BY <2>3, <2>6, <2>11, Results DEF Within
      <3>2. v = AD!AfterHead(b, read, major, arg)
        BY <2>1, <2>11
      <3>3. arg.next \in 0..Len(b) /\ arg.next \in Nat
        BY <2>4, <2>5, <2>11 DEF Reads
      <3>4. Reads(b, v, arg.next)
        BY <2>5, <2>11, <3>2, <3>3, AfterHeadRead
      <3>5. v.ok => ~(v.next <= n)
        BY <2>11, <3>3, <3>4 DEF Reads
      <3> QED BY <3>1, <3>5 DEF Within
    <2> QED BY <2>8, <2>9, <2>10, <2>11
  <1> QED BY <1>3, <1>4

----------------------------------------------------------------------------
(* Levels of nesting                                                       *)

LEMMA LevelsAre ==
  ASSUME NEW b \in Seq(Bytes)
  PROVE  \A k \in 0..MaxDepth + 1 :
           AD!Levels(b)[k] = [at \in 0..Len(b) |-> IF k = 0 THEN AD!Fail ELSE AD!ReadValue(b, AD!Levels(b)[k - 1], at)]
  <1> DEFINE step(k, below) == [at \in 0..Len(b) |-> IF k = 0 THEN AD!Fail ELSE AD!ReadValue(b, below, at)]
             Row(level, n) == level = [k \in 0..n |-> step(k, level[k - 1])]
             Depths == {n \in Nat : \E level : Row(level, n)}
  <1>1. \A x, y : step(0, x) = step(0, y)
    OBVIOUS
  <1> HIDE DEF step
  <1>2. 0 \in Depths
    <2> DEFINE bottom == [k \in 0..0 |-> step(0, 0)]
    <2>1. \A k \in 0..0 : bottom[k] = step(k, bottom[k - 1])
      BY <1>1
    <2>2. bottom = [k \in 0..0 |-> bottom[k]]
      OBVIOUS
    <2> HIDE DEF bottom
    <2>3. Row(bottom, 0)
      BY <2>1, <2>2
    <2> QED BY <2>3
  <1>3. ASSUME NEW n \in Nat, n \in Depths PROVE n + 1 \in Depths
    <2>1. PICK level : Row(level, n)
      BY <1>3
    <2> DEFINE more == [k \in 0..n + 1 |-> IF k = n + 1 THEN step(k, level[n]) ELSE level[k]]
    <2>2. ASSUME NEW k \in 0..n + 1 PROVE more[k] = step(k, more[k - 1])
      <3>1. CASE k = n + 1
        <4>1. more[k] = step(k, level[n]) /\ more[n] = level[n] /\ k - 1 = n
          BY <3>1
        <4> HIDE DEF more
        <4> QED BY <4>1
      <3>2. CASE k \in 1..n
        <4>1. level[k] = step(k, level[k - 1])
          BY <2>1, <3>2
        <4>2. more[k] = level[k] /\ more[k - 1] = level[k - 1]
          BY <3>2
        <4> HIDE DEF more
        <4> QED BY <4>1, <4>2
      <3>3. CASE k = 0
        <4>1. level[0] = step(0, level[0 - 1])
          BY <2>1
        <4>2. more[0] = level[0]
          OBVIOUS
        <4> HIDE DEF more
        <4> QED BY <1>1, <3>3, <4>1, <4>2
      <3> QED BY <3>1, <3>2, <3>3
    <2>3. Row(more, n + 1)
      <3>1. more = [k \in 0..n + 1 |-> more[k]]
        OBVIOUS
      <3> HIDE DEF more
      <3> QED BY <2>2, <3>1
    <2> HIDE DEF more, Row
    <2> QED BY <2>3
  <1>4. MaxDepth + 1 \in Depths
    <2>1. \A n \in Nat : n \in Depths => n + 1 \in Depths
      BY <1>3
    <2>2. MaxDepth + 1 \in Nat
      BY DecodersAssumption
    <2> HIDE DEF Depths
    <2> QED BY <1>2, <2>1, <2>2, Induction
  <1>5. \E level : level = [k \in 0..MaxDepth + 1 |-> step(k, level[k - 1])]
    BY <1>4
  <1> DEFINE levels == CHOOSE level : level = [k \in 0..MaxDepth + 1 |-> step(k, level[k - 1])]
  <1>6. levels = [k \in 0..MaxDepth + 1 |-> step(k, levels[k - 1])]
    BY <1>5
  <1>7. AD!Levels(b) = levels
    BY Zenon DEF AD!Levels, step
  <1> HIDE DEF levels
  <1>8. \A k \in 0..MaxDepth + 1 : levels[k] = step(k, levels[k - 1])
    BY <1>6
  <1> QED BY <1>7, <1>8 DEF step

LEMMA LevelIs ==
  ASSUME NEW b \in Seq(Bytes), NEW at \in 0..Len(b)
  PROVE  /\ AD!Levels(b)[0][at] = AD!Fail
         /\ \A k \in 0..MaxDepth : AD!Levels(b)[k + 1][at] = AD!ReadValue(b, AD!Levels(b)[k], at)
  <1>1. ASSUME NEW k \in 0..MaxDepth + 1
        PROVE  AD!Levels(b)[k][at] = IF k = 0 THEN AD!Fail ELSE AD!ReadValue(b, AD!Levels(b)[k - 1], at)
    <2> DEFINE row == [place \in 0..Len(b) |-> IF k = 0 THEN AD!Fail ELSE AD!ReadValue(b, AD!Levels(b)[k - 1], place)]
    <2>1. AD!Levels(b)[k] = row
      BY LevelsAre
    <2>2. row[at] = IF k = 0 THEN AD!Fail ELSE AD!ReadValue(b, AD!Levels(b)[k - 1], at)
      OBVIOUS
    <2> HIDE DEF row
    <2> QED BY <2>1, <2>2
  <1>2. 0 \in 0..MaxDepth + 1
    BY DecodersAssumption
  <1>3. ASSUME NEW k \in 0..MaxDepth
        PROVE  AD!Levels(b)[k + 1][at] = AD!ReadValue(b, AD!Levels(b)[k], at)
    <2>1. k + 1 \in 0..MaxDepth + 1 /\ k + 1 # 0 /\ (k + 1) - 1 = k
      BY DecodersAssumption
    <2>2. AD!Levels(b)[k + 1][at] = IF k + 1 = 0 THEN AD!Fail ELSE AD!ReadValue(b, AD!Levels(b)[(k + 1) - 1], at)
      BY <1>1, <2>1
    <2> QED BY <2>1, <2>2
  <1> QED BY <1>1, <1>2, <1>3

LEMMA LevelsRead ==
  ASSUME NEW b \in Seq(Bytes)
  PROVE  \A k \in 0..MaxDepth + 1 : Readings(b, AD!Levels(b)[k])
  <1> DEFINE Depths == {k \in Nat : k <= MaxDepth + 1 => Readings(b, AD!Levels(b)[k])}
  <1>1. 0 \in Depths /\ MaxDepth \in Nat
    BY DecodersAssumption, LevelIs, Results DEF Readings
  <1>2. ASSUME NEW k \in Nat, k \in Depths, k + 1 <= MaxDepth + 1
        PROVE  Readings(b, AD!Levels(b)[k + 1])
    <2>1. Readings(b, AD!Levels(b)[k])
      BY <1>1, <1>2
    <2>2. k \in 0..MaxDepth
      BY <1>1, <1>2
    <2>3. \A at \in 0..Len(b) : AD!Levels(b)[k + 1][at] = AD!ReadValue(b, AD!Levels(b)[k], at)
      BY <2>2, LevelIs
    <2> DEFINE below == AD!Levels(b)[k]
               level == AD!Levels(b)[k + 1]
    <2> HIDE DEF below, level
    <2>4. \A at \in 0..Len(b) : IF level[at].ok THEN level[at].next \in at + 1..Len(b) ELSE level[at] = AD!Fail
      <3>1. Readings(b, below) /\ \A at \in 0..Len(b) : level[at] = AD!ReadValue(b, below, at)
        BY <2>1, <2>3 DEF below, level
      <3> QED BY <3>1, ValueRead
    <2> QED BY <2>4 DEF Readings, level
  <1>3. Nat \subseteq Depths
    <2>1. \A k \in Nat : k \in Depths => k + 1 \in Depths
      BY <1>2
    <2> HIDE DEF Depths
    <2> QED BY <1>1, <2>1, Induction
  <1> QED BY <1>3

LEMMA LevelsBegun ==
  ASSUME NEW b \in Seq(Bytes), NEW n \in 0..Len(b)
  PROVE  \A k \in 0..MaxDepth + 1 : Begun(AD!Levels(b)[k], AD!Levels(AD!Take(b, 0, n))[k], n)
  <1> DEFINE c == AD!Take(b, 0, n)
             Depths == {k \in Nat : k <= MaxDepth + 1 => Begun(AD!Levels(b)[k], AD!Levels(c)[k], n)}
  <1>1. c \in Seq(Bytes) /\ Len(c) = n /\ MaxDepth \in Nat
    BY Beginning, DecodersAssumption
  <1> HIDE DEF c
  <1>2. 0 \in Depths
    <2>1. \A at \in 0..n : AD!Levels(b)[0][at] = AD!Fail /\ AD!Levels(c)[0][at] = AD!Fail
      BY <1>1, LevelIs
    <2> QED BY <2>1 DEF Begun, Within
  <1>3. ASSUME NEW k \in Nat, k \in Depths, k + 1 <= MaxDepth + 1
        PROVE  Begun(AD!Levels(b)[k + 1], AD!Levels(c)[k + 1], n)
    <2>1. k \in 0..MaxDepth + 1 /\ k \in 0..MaxDepth
      BY <1>1, <1>3
    <2>2. Begun(AD!Levels(b)[k], AD!Levels(c)[k], n) /\ Readings(b, AD!Levels(b)[k])
      BY <1>3, <2>1, LevelsRead
    <2>3. \A at \in 0..n : /\ AD!Levels(b)[k + 1][at] = AD!ReadValue(b, AD!Levels(b)[k], at)
                           /\ AD!Levels(c)[k + 1][at] = AD!ReadValue(c, AD!Levels(c)[k], at)
      BY <1>1, <2>1, LevelIs
    <2>4. \A at \in 0..n : AD!ReadValue(c, AD!Levels(c)[k], at) = Within(AD!ReadValue(b, AD!Levels(b)[k], at), n)
      BY <2>2, ValueBegun DEF c
    <2> QED BY <2>3, <2>4 DEF Begun
  <1>4. Nat \subseteq Depths
    <2>1. \A k \in Nat : k \in Depths => k + 1 \in Depths
      BY <1>3
    <2> HIDE DEF Depths
    <2> QED BY <1>2, <2>1, Induction
  <1> QED BY <1>4 DEF c

----------------------------------------------------------------------------
(* What ends where                                                         *)

LEMMA FirstRead ==
  ASSUME NEW b \in Seq(Bytes)
  PROVE  IF AD!DecodeFirst(b).ok THEN AD!DecodeFirst(b).next \in 1..Len(b) ELSE AD!DecodeFirst(b) = AD!Fail
  <1>1. MaxDepth + 1 \in 0..MaxDepth + 1 /\ 0 \in 0..Len(b)
    BY DecodersAssumption
  <1> QED BY <1>1, LevelsRead DEF Readings, AD!DecodeFirst

\* Of the first n bytes the same item is decoded, if it ends within them.
LEMMA FirstBegun ==
  ASSUME NEW b \in Seq(Bytes), NEW n \in 0..Len(b)
  PROVE  AD!DecodeFirst(AD!Take(b, 0, n)) = Within(AD!DecodeFirst(b), n)
  <1>1. MaxDepth + 1 \in 0..MaxDepth + 1 /\ 0 \in 0..n
    BY DecodersAssumption
  <1> QED BY <1>1, LevelsBegun DEF Begun, AD!DecodeFirst

LEMMA Delimited ==
  ASSUME input \in Seq(Bytes)
  PROVE  AD!SelfDelimiting
  <1> DEFINE first == AD!DecodeFirst(input)
  <1> SUFFICES ASSUME first.ok, NEW n \in 0..first.next
               PROVE  AD!DecodeFirst(AD!Take(input, 0, n)) = (IF n = first.next THEN first ELSE AD!Fail)
    BY DEF AD!SelfDelimiting
  <1>1. first.next \in 1..Len(input)
    BY FirstRead
  <1>2. n \in 0..Len(input)
    BY <1>1
  <1>3. AD!DecodeFirst(AD!Take(input, 0, n)) = Within(first, n)
    BY <1>2, FirstBegun
  <1> HIDE DEF first
  <1> QED BY <1>1, <1>2, <1>3 DEF Within

LEMMA NoBitIsLost ==
  ASSUME input \in Seq(Bytes)
  PROVE  AD!IntegersAreExact
  <1> DEFINE v == AD!DecodeFirst(input)
             arg == Arg(input, 0)
             info == Info(input, 0)
             major == Major(input, 0)
             digits == IF Len(input) = 1 THEN <<input[1] % 32>> ELSE Tail(input)
  <1> SUFFICES ASSUME AD!Decode(input).ok, input[1] < 64
               PROVE  AD!Decode(input).value.bytes = AD!Canonical(digits)
    BY DEF AD!IntegersAreExact
  <1>1. AD!Decode(input) = v /\ v.ok /\ v.next = Len(input)
    BY Results DEF AD!Decode
  <1>2. Len(input) >= 1
    BY <1>1, FirstRead
  <1>3. major \in {0, 1} /\ info \in 0..31 /\ info = input[1] % 32
    <2>1. input[1] \in Nat
      BY <1>2, BytesAreNumbers
    <2>2. \A x \in Nat : x < 64 => x \div 32 \in {0, 1} /\ x % 32 \in 0..31
      OBVIOUS
    <2>3. major = input[1] \div 32 /\ info = input[1] % 32
      BY DEF Major, Info
    <2> HIDE DEF major, info
    <2> QED BY <2>1, <2>2, <2>3
  <1>4. v = AD!ReadValue(input, AD!Levels(input)[MaxDepth], 0)
    BY LevelIs, DecodersAssumption DEF AD!DecodeFirst
  <1>5. v = IF ~arg.ok \/ (arg.value = AD!Open /\ major \in {0, 1, 6}) THEN AD!Fail
            ELSE AD!AfterHead(input, AD!Levels(input)[MaxDepth], major, arg)
    BY <1>2, <1>3, <1>4, ReadValueIs
  <1> HIDE DEF v, digits
  <1>6. arg.ok /\ arg.value # AD!Open /\ v = AD!AfterHead(input, AD!Levels(input)[MaxDepth], major, arg)
    BY <1>1, <1>3, <1>5, Results
  <1>7. v = arg \/ v = AD!Done(AD!Negative(arg.value), arg.next)
    BY <1>3, <1>6 DEF AD!AfterHead
  <1>8. arg.next = Len(input)
    BY <1>1, <1>7, Results
  <1>9. arg.value = AD!Surface(AD!Canonical(digits))
    <2>1. arg = AD!ReadArgument(input, 1, info)
      BY DEF Arg
    <2> HIDE DEF arg, info
    <2>2. CASE info < 24
      <3>1. arg = AD!Done(AD!Surface(AD!Canonical(<<info>>)), 1)
        BY <2>1, <2>2 DEF AD!ReadArgument
      <3>2. digits = <<info>>
        BY <1>3, <1>8, <3>1, Results DEF digits
      <3> QED BY <3>1, <3>2, Results
    <2>3. CASE info \in 24..27
      <3> DEFINE size == AD!Width(info)
      <3>1. arg = AD!Uint(input, 1, size)
        BY <1>3, <2>1, <2>3 DEF AD!ReadArgument
      <3>2. size \in 1..8
        BY <2>3, Widths
      <3> HIDE DEF size
      <3>3. arg = AD!Done(AD!Surface(AD!Canonical(AD!Take(input, 1, size))), 1 + size)
        BY <1>6, <3>1, Results DEF AD!Uint
      <3>4. Len(input) = 1 + size
        BY <1>8, <3>3, Results
      <3>5. AD!Take(input, 1, size) = Tail(input)
        BY <3>2, <3>4 DEF AD!Take
      <3>6. digits = Tail(input)
        BY <3>2, <3>4 DEF digits
      <3>7. arg.value = AD!Surface(AD!Canonical(AD!Take(input, 1, size)))
        BY <3>3, Results
      <3> QED BY <3>5, <3>6, <3>7
    <2>4. CASE info = 31
      <3>1. arg = AD!Done(AD!Open, 1)
        BY <2>1, <2>4 DEF AD!ReadArgument
      <3> QED BY <1>6, <3>1, Results
    <2>5. CASE info \in 28..30
      <3>1. arg = AD!Fail
        BY <2>1, <2>5 DEF AD!ReadArgument
      <3> QED BY <1>6, <3>1, Results
    <2>6. info \in 0..31
      BY <1>3 DEF info
    <2> QED BY <2>2, <2>3, <2>4, <2>5, <2>6
  <1> HIDE DEF arg
  <1>10. arg.value.bytes = AD!Canonical(digits) /\ AD!Negative(arg.value).bytes = AD!Canonical(digits)
    BY <1>9 DEF AD!Surface, AD!Value, AD!Negative
  <1>11. v.value.bytes = AD!Canonical(digits)
    BY <1>7, <1>10, Results
  <1> QED BY <1>1, <1>11

----------------------------------------------------------------------------
(* Authenticator data                                                      *)

LEMMA PiecesJoin ==
  ASSUME NEW b \in Seq(Bytes), NEW at \in Nat, NEW m \in Nat, NEW k \in Nat,
         NEW middle \in Nat, middle = at + m, NEW both \in Nat, both = m + k, at + both <= Len(b)
  PROVE  AD!Take(b, at, m) \o AD!Take(b, middle, k) = AD!Take(b, at, both)
  BY DEF AD!Take

LEMMA ShortPieces ==
  ASSUME NEW b \in Seq(Bytes), NEW at \in Nat
  PROVE  /\ AD!Take(b, at, 0) = <<>>
         /\ at + 1 <= Len(b) => AD!Take(b, at, 1) = <<b[at + 1]>>
         /\ at + 2 <= Len(b) => AD!Take(b, at, 2) = <<b[at + 1], b[at + 2]>>
         /\ AD!Take(b, 0, Len(b)) = b
  <1>1. AD!Take(b, at, 0) = <<>>
    BY DEF AD!Take
  <1>2. ASSUME at + 1 <= Len(b) PROVE AD!Take(b, at, 1) = <<b[at + 1]>>
    <2> DEFINE t == AD!Take(b, at, 1)
    <2>1. at \in 0..Len(b) /\ 1 \in 0..Len(b) - at
      BY <1>2
    <2>2. t \in Seq(Bytes) /\ Len(t) = 1 /\ t[1] = b[at + 1]
      <3>1. t \in Seq(Bytes) /\ Len(t) = 1 /\ \A i \in 1..1 : t[i] = b[at + i]
        BY <2>1, Piece
      <3> HIDE DEF t
      <3> QED BY <3>1
    <2> HIDE DEF t
    <2>3. t = <<t[1]>>
      BY <2>2
    <2> QED BY <2>2, <2>3 DEF t
  <1>3. ASSUME at + 2 <= Len(b) PROVE AD!Take(b, at, 2) = <<b[at + 1], b[at + 2]>>
    <2> DEFINE t == AD!Take(b, at, 2)
    <2>1. at \in 0..Len(b) /\ 2 \in 0..Len(b) - at
      BY <1>3
    <2>2. t \in Seq(Bytes) /\ Len(t) = 2 /\ t[1] = b[at + 1] /\ t[2] = b[at + 2]
      <3>1. t \in Seq(Bytes) /\ Len(t) = 2 /\ \A i \in 1..2 : t[i] = b[at + i]
        BY <2>1, Piece
      <3> HIDE DEF t
      <3> QED BY <3>1
    <2> HIDE DEF t
    <2>3. t = <<t[1], t[2]>>
      BY <2>2
    <2> QED BY <2>2, <2>3 DEF t
  <1>4. AD!Take(b, 0, Len(b)) = b
    BY DEF AD!Take
  <1> QED BY <1>1, <1>2, <1>3, <1>4

\* Where the fields are.
IdLength(b) == 256 * b[AD!IdAt - 1] + b[AD!IdAt]
KeyAt(b) == AD!IdAt + IdLength(b)
HasKey(b) == AD!Set(b[HashBytes + 1], AD!AT)
HasMore(b) == AD!Set(b[HashBytes + 1], AD!ED)
MoreAt(b) == IF HasKey(b) THEN KeyAt(b) + AD!KeyLength(b, KeyAt(b)) ELSE AD!HeaderBytes
More(b) == AD!DecodeFirst(AD!Rest(b, MoreAt(b)))

LEMMA Parsed ==
  ASSUME NEW b \in Seq(Bytes), AD!ParseAuthenticatorData(b).ok
  PROVE  LET p == AD!ParseAuthenticatorData(b)
         IN  /\ Len(b) >= AD!HeaderBytes
             /\ HasKey(b) => /\ Len(b) >= AD!IdAt /\ IdLength(b) \in 1..MaxIdLength /\ Len(b) >= KeyAt(b)
                             /\ AD!DecodeFirst(AD!Rest(b, KeyAt(b))).ok
             /\ HasMore(b) => More(b).value.type = "map"
             /\ MoreAt(b) + (IF HasMore(b) THEN More(b).next ELSE 0) = Len(b)
             /\ p.rpIdHash = AD!Take(b, 0, HashBytes)
             /\ p.flags = b[HashBytes + 1]
             /\ p.signCount = AD!Take(b, HashBytes + 1, CounterBytes)
             /\ HasKey(b) => /\ p.aaguid = AD!Take(b, AD!HeaderBytes, AaguidBytes)
                             /\ p.id = AD!Take(b, AD!IdAt, IdLength(b))
                             /\ p.key = AD!Take(b, KeyAt(b), AD!KeyLength(b, KeyAt(b)))
             /\ p.extensions = IF HasMore(b) THEN AD!Take(b, MoreAt(b), More(b).next) ELSE <<>>
  <1> DEFINE p == AD!ParseAuthenticatorData(b)
             end == MoreAt(b) + (IF HasMore(b) THEN More(b).next ELSE 0)
             refused == \/ AD!Set(b[HashBytes + 1], AD!BS) /\ ~AD!Set(b[HashBytes + 1], AD!BE)
                        \/ HasKey(b) /\ \/ Len(b) < AD!IdAt
                                        \/ IdLength(b) \notin 1..MaxIdLength
                                        \/ Len(b) < KeyAt(b)
                                        \/ ~AD!DecodeFirst(AD!Rest(b, KeyAt(b))).ok
                        \/ HasMore(b) /\ More(b).value.type # "map"
                        \/ end # Len(b)
             read == [ok         |-> TRUE,
                      rpIdHash   |-> AD!Take(b, 0, HashBytes),
                      flags      |-> b[HashBytes + 1],
                      signCount  |-> AD!Take(b, HashBytes + 1, CounterBytes),
                      aaguid     |-> IF HasKey(b) THEN AD!Take(b, AD!HeaderBytes, AaguidBytes) ELSE <<>>,
                      id         |-> IF HasKey(b) THEN AD!Take(b, AD!IdAt, IdLength(b)) ELSE <<>>,
                      key        |-> IF HasKey(b) THEN AD!Take(b, KeyAt(b), AD!KeyLength(b, KeyAt(b))) ELSE <<>>,
                      extensions |-> IF HasMore(b) THEN AD!Take(b, MoreAt(b), More(b).next) ELSE <<>>]
  <1>1. p = IF Len(b) < AD!HeaderBytes THEN AD!Refused ELSE IF refused THEN AD!Refused ELSE read
    BY Zenon DEF AD!ParseAuthenticatorData, AD!Leftover, HasKey, HasMore, IdLength, KeyAt, MoreAt, More
  <1>2. ~AD!Refused.ok
    BY DEF AD!Refused
  <1>3. AD!HeaderBytes \in Nat /\ AD!IdAt \in Nat
    BY DecodersAssumption DEF AD!HeaderBytes, AD!IdAt
  <1> HIDE DEF p, refused, read
  <1>4. Len(b) >= AD!HeaderBytes /\ ~refused /\ p = read
    <2>1. p.ok
      BY DEF p
    <2> QED BY <1>1, <1>2, <1>3, <2>1
  <1>5. /\ p.rpIdHash = AD!Take(b, 0, HashBytes)
        /\ p.flags = b[HashBytes + 1]
        /\ p.signCount = AD!Take(b, HashBytes + 1, CounterBytes)
        /\ p.extensions = IF HasMore(b) THEN AD!Take(b, MoreAt(b), More(b).next) ELSE <<>>
        /\ HasKey(b) => /\ p.aaguid = AD!Take(b, AD!HeaderBytes, AaguidBytes)
                        /\ p.id = AD!Take(b, AD!IdAt, IdLength(b))
                        /\ p.key = AD!Take(b, KeyAt(b), AD!KeyLength(b, KeyAt(b)))
    BY <1>4 DEF read
  <1>6. /\ HasKey(b) => /\ ~(Len(b) < AD!IdAt) /\ IdLength(b) \in 1..MaxIdLength /\ ~(Len(b) < KeyAt(b))
                        /\ AD!DecodeFirst(AD!Rest(b, KeyAt(b))).ok
        /\ HasMore(b) => More(b).value.type = "map"
        /\ end = Len(b)
    BY <1>4, Zenon DEF refused
  <1>7. HasKey(b) => Len(b) >= AD!IdAt
    BY <1>3, <1>6
  <1>8. HasKey(b) => KeyAt(b) \in Int
    BY <1>3, <1>6 DEF KeyAt
  <1>9. HasKey(b) => Len(b) >= KeyAt(b)
    BY <1>6, <1>8
  <1> QED BY <1>4, <1>5, <1>6, <1>7, <1>9 DEF p

\* The key lies within the data and is an item by itself.
LEMMA KeyLies ==
  ASSUME NEW b \in Seq(Bytes), AD!ParseAuthenticatorData(b).ok, HasKey(b)
  PROVE  /\ KeyAt(b) \in Nat /\ AD!IdAt \in Nat /\ IdLength(b) \in Nat
         /\ AD!KeyLength(b, KeyAt(b)) \in Nat
         /\ KeyAt(b) + AD!KeyLength(b, KeyAt(b)) <= Len(b)
         /\ AD!Decode(AD!Take(b, KeyAt(b), AD!KeyLength(b, KeyAt(b)))).ok
  <1> DEFINE at == KeyAt(b)
             rest == AD!Rest(b, at)
             first == AD!DecodeFirst(rest)
             size == AD!KeyLength(b, at)
             key == AD!Take(b, at, size)
  <1>1. IdLength(b) \in 1..MaxIdLength /\ Len(b) >= at /\ first.ok
    BY Parsed
  <1>2. AD!IdAt \in Nat /\ IdLength(b) \in Nat /\ at \in Nat
    BY <1>1, DecodersAssumption DEF AD!HeaderBytes, AD!IdAt, KeyAt
  <1> HIDE DEF at
  <1>3. rest \in Seq(Bytes) /\ Len(rest) = Len(b) - at
    BY <1>1, <1>2 DEF AD!Rest
  <1>4. size = first.next
    BY DEF AD!KeyLength
  <1>5. first.next \in 1..Len(rest)
    BY <1>1, <1>3, FirstRead
  <1>6. size \in 0..Len(rest) /\ size \in Nat /\ at + size <= Len(b)
    BY <1>1, <1>2, <1>3, <1>4, <1>5
  <1> HIDE DEF size
  <1>7. key = AD!Take(rest, 0, size)
    BY <1>1, <1>2, <1>3, <1>6 DEF AD!Take, AD!Rest
  <1> HIDE DEF rest, first
  <1>8. AD!DecodeFirst(key) = AD!DecodeFirst(rest)
    <2>1. AD!DecodeFirst(AD!Take(rest, 0, size)) = Within(AD!DecodeFirst(rest), size)
      BY <1>3, <1>6, FirstBegun
    <2> QED BY <1>1, <1>4, <1>5, <1>7, <2>1 DEF Within, first
  <1>9. Len(key) = size
    BY <1>1, <1>2, <1>6, Piece
  <1>10. AD!Decode(key).ok
    <2> HIDE DEF key
    <2> QED BY <1>1, <1>4, <1>8, <1>9 DEF AD!Decode, first
  <1> QED BY <1>2, <1>6, <1>10 DEF at, size


LEMMA KeysStandAlone ==
  ASSUME input \in Seq(Bytes)
  PROVE  AD!KeyStandsAlone
  <1> DEFINE p == AD!ParseAuthenticatorData(input)
  <1> SUFFICES ASSUME p.ok, AD!Set(p.flags, AD!AT) PROVE AD!Decode(p.key).ok
    BY DEF AD!KeyStandsAlone
  <1> HIDE DEF p
  <1>1. p.flags = input[HashBytes + 1]
    BY Parsed DEF p
  <1>2. HasKey(input)
    BY <1>1 DEF HasKey
  <1>3. p.key = AD!Take(input, KeyAt(input), AD!KeyLength(input, KeyAt(input)))
    BY <1>2, Parsed DEF p
  <1> QED BY <1>2, <1>3, KeyLies DEF p

\* The fields up to the extensions, written again, are the bytes up to there.
LEMMA FieldsUpToMore ==
  ASSUME NEW b \in Seq(Bytes), AD!ParseAuthenticatorData(b).ok
  PROVE  /\ MoreAt(b) \in Nat /\ MoreAt(b) <= Len(b)
         /\ AD!BuildAuthData(AD!ParseAuthenticatorData(b)) = AD!Take(b, 0, MoreAt(b))
  <1> DEFINE p == AD!ParseAuthenticatorData(b)
             H == HashBytes
             C == CounterBytes
             A == AaguidBytes
  <1>1. /\ H \in Nat /\ C \in Nat /\ A \in Nat
        /\ AD!HeaderBytes = H + 1 + C /\ AD!IdAt = (H + 1 + C) + A + 2
    BY DecodersAssumption DEF AD!HeaderBytes, AD!IdAt
  <1>2. Len(b) \in Nat /\ H + 1 + C <= Len(b)
    BY <1>1, Parsed
  <1> DEFINE head == (p.rpIdHash \o <<p.flags>>) \o p.signCount
  <1>3. head = AD!Take(b, 0, H + 1 + C)
    <2>1. /\ p.rpIdHash = AD!Take(b, 0, H) /\ p.flags = b[H + 1] /\ p.signCount = AD!Take(b, H + 1, C)
      BY Parsed
    <2>2. <<p.flags>> = AD!Take(b, H, 1)
      BY <1>1, <1>2, <2>1, ShortPieces
    <2> DEFINE one == 1
               m1 == H + 1
               m2 == H + 1 + C
    <2>3. 0 \in Nat /\ H \in Nat /\ one \in Nat /\ m1 \in Nat /\ H = 0 + H /\ m1 = H + one /\ 0 + m1 <= Len(b)
      BY <1>1, <1>2
    <2>4. 0 \in Nat /\ C \in Nat /\ m1 \in Nat /\ m2 \in Nat /\ m1 = 0 + m1 /\ m2 = m1 + C /\ 0 + m2 <= Len(b)
      BY <1>1, <1>2
    <2>5. <<p.flags>> = AD!Take(b, H, one) /\ p.signCount = AD!Take(b, m1, C)
      BY <2>1, <2>2
    <2> HIDE DEF p, one, m1, m2, H, C
    <2>6. AD!Take(b, 0, H) \o AD!Take(b, H, one) = AD!Take(b, 0, m1)
      BY <2>3, PiecesJoin
    <2>7. AD!Take(b, 0, m1) \o AD!Take(b, m1, C) = AD!Take(b, 0, m2)
      BY <2>4, PiecesJoin
    <2> QED BY <2>1, <2>5, <2>6, <2>7 DEF m2
  <1>4. CASE ~HasKey(b)
    <2>1. ~AD!Set(p.flags, AD!AT)
      BY <1>4, Parsed DEF HasKey
    <2>2. AD!BuildAuthData(p) = head \o <<>>
      BY <2>1 DEF AD!BuildAuthData
    <2>3. MoreAt(b) = H + 1 + C
      BY <1>1, <1>4 DEF MoreAt
    <2>4. H + 1 + C \in 0..Len(b)
      BY <1>1, <1>2
    <2>5. AD!Take(b, 0, H + 1 + C) \o <<>> = AD!Take(b, 0, H + 1 + C)
      <3>1. AD!Take(b, 0, H + 1 + C) \in Seq(Bytes)
        BY <2>4, Beginning
      <3> QED BY <3>1
    <2> HIDE DEF p, head
    <2> QED BY <1>1, <1>2, <1>3, <2>2, <2>3, <2>5 DEF p
  <1>5. CASE HasKey(b)
    <2> DEFINE I == IdLength(b)
               K == AD!KeyLength(b, KeyAt(b))
               hd == H + 1 + C
               two == <<Len(p.id) \div 256, Len(p.id) % 256>>
               tail == ((p.aaguid \o two) \o p.id) \o p.key
    <2>1. /\ I \in Nat /\ K \in Nat /\ KeyAt(b) = AD!IdAt + I
          /\ AD!IdAt + I + K <= Len(b)
      BY <1>5, KeyLies DEF KeyAt
    <2>2. /\ p.aaguid = AD!Take(b, hd, A) /\ p.id = AD!Take(b, AD!IdAt, I) /\ p.key = AD!Take(b, AD!IdAt + I, K)
      BY <1>1, <1>5, <2>1, Parsed
    <2>3. two = AD!Take(b, hd + A, 2)
      <3> DEFINE x == b[AD!IdAt - 1]
                 y == b[AD!IdAt]
      <3>1. AD!IdAt - 1 = hd + A + 1 /\ AD!IdAt = hd + A + 2 /\ hd + A + 2 <= Len(b) /\ hd + A \in Nat
        BY <1>1, <1>2, <2>1
      <3>2. AD!Take(b, hd + A, 2) = <<x, y>>
        <4> HIDE DEF hd
        <4> QED BY <3>1, ShortPieces
      <3>3. x \in Nat /\ x < 256 /\ y \in Nat /\ y < 256
        <4>1. AD!IdAt - 1 \in 1..Len(b) /\ AD!IdAt \in 1..Len(b)
          BY <1>1, <1>2, <3>1
        <4>2. x \in Bytes /\ y \in Bytes
          BY <4>1
        <4> QED BY <4>2, BytesAreNumbers
      <3>4. Len(p.id) = 256 * x + y
        <4>1. I = 256 * x + y
          BY DEF IdLength
        <4>2. AD!IdAt \in 0..Len(b) /\ I \in 0..Len(b) - AD!IdAt
          BY <1>1, <1>2, <2>1
        <4> HIDE DEF I, x, y
        <4> QED BY <2>2, <4>1, <4>2, Piece
      <3> HIDE DEF x, y
      <3>5. (256 * x + y) \div 256 = x /\ (256 * x + y) % 256 = y
        BY <3>3
      <3> QED BY <3>2, <3>4, <3>5
    <2> HIDE DEF I, K
    <2>4. tail = AD!Take(b, hd, A + 2 + I + K)
      <3> DEFINE a1 == hd + A
                 a2 == AD!IdAt
                 a3 == AD!IdAt + I
                 k2 == A + 2
                 k3 == A + 2 + I
                 k4 == A + 2 + I + K
      <3>1. /\ hd \in Nat /\ I \in Nat /\ K \in Nat /\ A \in Nat /\ 2 \in Nat /\ k2 \in Nat /\ k3 \in Nat /\ k4 \in Nat
            /\ a1 \in Nat /\ a2 \in Nat /\ a3 \in Nat /\ a1 = hd + A /\ k2 = A + 2 /\ hd + k2 <= Len(b)
        BY <1>1, <1>2, <2>1
      <3>2. a2 = hd + k2 /\ k3 = k2 + I /\ hd + k3 <= Len(b)
        BY <1>1, <1>2, <2>1
      <3>3. a3 = hd + k3 /\ k4 = k3 + K /\ hd + k4 <= Len(b)
        BY <1>1, <1>2, <2>1
      <3>4. /\ p.aaguid = AD!Take(b, hd, A) /\ two = AD!Take(b, a1, 2)
            /\ p.id = AD!Take(b, a2, I) /\ p.key = AD!Take(b, a3, K)
        BY <2>2, <2>3
      <3> HIDE DEF hd, a1, a2, a3, k2, k3, k4, p, two
      <3>5. AD!Take(b, hd, A) \o AD!Take(b, a1, 2) = AD!Take(b, hd, k2)
        BY <3>1, PiecesJoin
      <3>6. AD!Take(b, hd, k2) \o AD!Take(b, a2, I) = AD!Take(b, hd, k3)
        BY <3>1, <3>2, PiecesJoin
      <3>7. AD!Take(b, hd, k3) \o AD!Take(b, a3, K) = AD!Take(b, hd, k4)
        BY <3>1, <3>3, PiecesJoin
      <3>8. tail = AD!Take(b, hd, k4)
        BY <3>4, <3>5, <3>6, <3>7
      <3> QED BY <3>8 DEF k4
    <2>5. AD!Set(p.flags, AD!AT)
      BY <1>5, Parsed DEF HasKey
    <2>6. AD!BuildAuthData(p) = head \o tail
      BY <2>5 DEF AD!BuildAuthData
    <2>7. MoreAt(b) = hd + (A + 2 + I + K)
      BY <1>1, <1>5, <2>1 DEF MoreAt, K
    <2>8. /\ hd \in Nat /\ A + 2 + I + K \in Nat /\ 0 \in Nat /\ hd = 0 + hd
          /\ hd + (A + 2 + I + K) \in Nat /\ hd + (A + 2 + I + K) <= Len(b) /\ 0 + (hd + (A + 2 + I + K)) <= Len(b)
      BY <1>1, <1>2, <2>1
    <2>9. AD!Take(b, 0, hd) \o AD!Take(b, hd, A + 2 + I + K) = AD!Take(b, 0, hd + (A + 2 + I + K))
      <3> DEFINE k == A + 2 + I + K
                 both == hd + k
      <3>1. hd \in Nat /\ k \in Nat /\ both \in Nat /\ 0 \in Nat /\ hd = 0 + hd /\ both = hd + k /\ 0 + both <= Len(b)
        BY <2>8
      <3> HIDE DEF hd, k, both
      <3>2. AD!Take(b, 0, hd) \o AD!Take(b, hd, k) = AD!Take(b, 0, both)
        BY <3>1, PiecesJoin
      <3> QED BY <3>2 DEF k, both
    <2> HIDE DEF p, head, tail
    <2> QED BY <1>3, <2>4, <2>6, <2>7, <2>8, <2>9 DEF p
  <1> QED BY <1>4, <1>5

LEMMA FieldsCover ==
  ASSUME input \in Seq(Bytes)
  PROVE  AD!FieldsCoverTheData
  <1> DEFINE p == AD!ParseAuthenticatorData(input)
             at == MoreAt(input)
             more == More(input)
  <1> SUFFICES ASSUME p.ok PROVE AD!BuildAuthData(p) \o p.extensions = input
    BY DEF AD!FieldsCoverTheData
  <1>1. at \in Nat /\ at <= Len(input) /\ AD!BuildAuthData(p) = AD!Take(input, 0, at)
    BY FieldsUpToMore
  <1>2. /\ at + (IF HasMore(input) THEN more.next ELSE 0) = Len(input)
        /\ p.extensions = IF HasMore(input) THEN AD!Take(input, at, more.next) ELSE <<>>
        /\ HasMore(input) => more.value.type = "map"
    BY Parsed
  <1> HIDE DEF p
  <1>3. CASE HasMore(input)
    <2>1. more.ok
      <3>1. more.value.type # AD!Fail.value.type
        BY <1>2, <1>3 DEF AD!Fail, AD!Value
      <3>2. AD!Rest(input, at) \in Seq(Bytes)
        BY <1>1 DEF AD!Rest
      <3> QED BY <3>1, <3>2, FirstRead DEF More
    <2>2. more.next \in Nat
      <3>1. AD!Rest(input, at) \in Seq(Bytes)
        BY <1>1 DEF AD!Rest
      <3> QED BY <2>1, <3>1, FirstRead DEF More
    <2> HIDE DEF at, more
    <2>3. at + more.next = Len(input) /\ at = 0 + at /\ 0 + (at + more.next) <= Len(input) /\ 0 \in Nat
      BY <1>1, <1>2, <1>3
    <2>4. AD!Take(input, 0, at) \o AD!Take(input, at, more.next) = AD!Take(input, 0, at + more.next)
      <3> DEFINE k == more.next
                 both == at + k
      <3>1. at \in Nat /\ k \in Nat /\ both \in Nat /\ 0 \in Nat /\ at = 0 + at /\ both = at + k /\ 0 + both <= Len(input)
        BY <1>1, <2>2, <2>3
      <3> HIDE DEF k, both
      <3>2. AD!Take(input, 0, at) \o AD!Take(input, at, k) = AD!Take(input, 0, both)
        BY <3>1, PiecesJoin
      <3> QED BY <3>2 DEF k, both
    <2>5. AD!Take(input, 0, Len(input)) = input
      BY ShortPieces
    <2> QED BY <1>1, <1>2, <1>3, <2>3, <2>4, <2>5
  <1>4. CASE ~HasMore(input)
    <2>1. at = Len(input)
      BY <1>1, <1>2, <1>4
    <2>2. AD!Take(input, 0, Len(input)) = input
      BY ShortPieces
    <2> HIDE DEF at
    <2> QED BY <1>1, <1>2, <1>4, <2>1, <2>2
  <1> QED BY <1>3, <1>4

----------------------------------------------------------------------------
(* DER elements                                                            *)

Short(b, offset) == DE!At(b, offset + 1) < 128
Start(b, offset) == offset + 2 + (IF Short(b, offset) THEN 0 ELSE DE!At(b, offset + 1) - 128)
LengthAt(b, offset) ==
  IF Short(b, offset) THEN DE!At(b, offset + 1) ELSE DE!Length(DE!Cut(b, offset + 2, Start(b, offset)))

LEMMA ReadElementIs ==
  ASSUME NEW b, NEW offset
  PROVE  DE!ReadElement(b, offset) =
           IF offset + 2 > Len(b) \/ DE!At(b, offset) % 32 = 31 THEN DE!Fail
           ELSE IF ~Short(b, offset) /\ (DE!At(b, offset + 1) - 128 \notin 1..4 \/ Start(b, offset) > Len(b)) THEN DE!Fail
           ELSE IF LengthAt(b, offset) \notin (IF Short(b, offset) THEN 0 ELSE 128)..Len(b) - Start(b, offset) THEN DE!Fail
           ELSE [ok |-> TRUE, tag |-> DE!At(b, offset), constructed |-> (DE!At(b, offset) \div 32) % 2 = 1,
                 content |-> DE!Cut(b, Start(b, offset), Start(b, offset) + LengthAt(b, offset)),
                 raw |-> DE!Cut(b, offset, Start(b, offset) + LengthAt(b, offset)),
                 next |-> Start(b, offset) + LengthAt(b, offset)]
  BY Zenon DEF DE!ReadElement, DE!HeaderFrom, Short, Start, LengthAt

LEMMA Cuts ==
  ASSUME NEW b \in Seq(Bytes), NEW from \in Nat, NEW to \in from..Len(b)
  PROVE  /\ DE!Cut(b, from, to) \in Seq(Bytes)
         /\ Len(DE!Cut(b, from, to)) = to - from
         /\ \A i \in 1..to - from : DE!Cut(b, from, to)[i] = b[from + i]
  BY DEF DE!Cut

LEMMA CutOfCut ==
  ASSUME NEW b \in Seq(Bytes), NEW from \in Nat, NEW to \in from..Len(b), NEW i \in Nat, NEW j \in i..to - from
  PROVE  DE!Cut(DE!Cut(b, from, to), i, j) = DE!Cut(b, from + i, from + j)
  BY DEF DE!Cut

\* An element lies where it was found, and its bytes alone are the same element.
LEMMA ElementLies ==
  ASSUME NEW b \in Seq(Bytes), NEW offset \in 0..Len(b), DE!ReadElement(b, offset).ok
  PROVE  LET e == DE!ReadElement(b, offset)
         IN  /\ e.next \in offset + 2..Len(b)
             /\ e.raw = DE!Cut(b, offset, e.next)
             /\ DE!ReadElement(e.raw, 0) = [e EXCEPT !.next = Len(e.raw)]
             /\ e.content \in Seq(Bytes)
  <1> DEFINE e == DE!ReadElement(b, offset)
             first == DE!At(b, offset + 1)
             start == Start(b, offset)
             length == LengthAt(b, offset)
             end == start + length
             r == DE!Cut(b, offset, end)
             found(n) == [ok |-> TRUE, tag |-> DE!At(b, offset), constructed |-> (DE!At(b, offset) \div 32) % 2 = 1,
                          content |-> DE!Cut(b, start, end), raw |-> r, next |-> n]
  <1>1. ~DE!Fail.ok
    BY DEF DE!Fail
  <1>2. /\ ~(offset + 2 > Len(b)) /\ DE!At(b, offset) % 32 # 31
        /\ ~Short(b, offset) => first - 128 \in 1..4 /\ ~(start > Len(b))
        /\ length \in (IF Short(b, offset) THEN 0 ELSE 128)..Len(b) - start
        /\ e = found(end)
    BY <1>1, ReadElementIs, Zenon
  <1>3. first \in Nat
    BY <1>2, BytesAreNumbers DEF DE!At
  <1>4. start \in offset + 2..Len(b) /\ start \in Nat
    <2>1. start = offset + 2 + (IF Short(b, offset) THEN 0 ELSE first - 128)
      BY DEF Start
    <2>2. offset + 2 <= Len(b) /\ (~Short(b, offset) => first - 128 \in 1..4 /\ ~(start > Len(b)))
      BY <1>2
    <2> HIDE DEF start, first
    <2> QED BY <1>3, <2>1, <2>2
  <1> DEFINE least == IF Short(b, offset) THEN 0 ELSE 128
  <1>5. least \in Nat /\ length \in least..Len(b) - start
    BY <1>2
  <1> HIDE DEF start, length, least
  <1>6. length \in Nat /\ end \in start..Len(b) /\ end \in offset + 2..Len(b) /\ end \in Nat
    BY <1>4, <1>5
  <1>7. /\ e.next = end /\ e.raw = r /\ e.content = DE!Cut(b, start, end)
        /\ [e EXCEPT !.next = Len(r)] = found(Len(r))
    <2> DEFINE tag == DE!At(b, offset)
               constructed == (DE!At(b, offset) \div 32) % 2 = 1
               content == DE!Cut(b, start, end)
               rest == Len(r)
    <2>1. e = [ok |-> TRUE, tag |-> tag, constructed |-> constructed, content |-> content, raw |-> r, next |-> end]
      BY <1>2
    <2>2. found(Len(r)) =
            [ok |-> TRUE, tag |-> tag, constructed |-> constructed, content |-> content, raw |-> r, next |-> rest]
      OBVIOUS
    <2> HIDE DEF e, tag, constructed, content, r, end, rest, found
    <2>3. e.next = end /\ e.raw = r /\ e.content = content
      BY <2>1
    <2>4. [e EXCEPT !.next = rest] =
             [ok |-> TRUE, tag |-> tag, constructed |-> constructed, content |-> content, raw |-> r, next |-> rest]
      <3> DEFINE f == [e EXCEPT !.next = rest]
                 g == [ok |-> TRUE, tag |-> tag, constructed |-> constructed, content |-> content, raw |-> r, next |-> rest]
                 Fields == {"ok", "tag", "constructed", "content", "raw", "next"}
      <3>1. DOMAIN f = Fields /\ DOMAIN g = Fields
        BY <2>1
      <3>2. /\ f.ok = g.ok /\ f.tag = g.tag /\ f.constructed = g.constructed
            /\ f.content = g.content /\ f.raw = g.raw /\ f.next = g.next
        BY <2>1
      <3>3. \A x \in Fields : f[x] = g[x]
        BY <3>2
      <3>4. f = [x \in Fields |-> f[x]] /\ g = [x \in Fields |-> g[x]]
        BY <3>1
      <3> HIDE DEF f, g
      <3>5. f = g
        BY <3>3, <3>4
      <3> QED BY <3>5 DEF f, g
    <2> QED BY <2>2, <2>3, <2>4, Zenon DEF content, rest
  <1> HIDE DEF e, end
  <1>8. /\ r \in Seq(Bytes) /\ Len(r) = end - offset
        /\ \A i \in 1..end - offset : r[i] = b[offset + i]
    BY <1>6, Cuts
  <1>9. DE!At(r, 0) = DE!At(b, offset) /\ DE!At(r, 1) = first
    <2>1. 1 \in 1..end - offset /\ 2 \in 1..end - offset /\ offset + 2 = (offset + 1) + 1
      BY <1>6
    <2>2. r[1] = b[offset + 1] /\ r[2] = b[offset + 2]
      BY <1>8, <2>1
    <2> HIDE DEF r
    <2> QED BY <2>1, <2>2 DEF DE!At
  <1>10. Short(r, 0) = Short(b, offset) /\ Start(r, 0) = start - offset
    <2>1. DE!At(r, 0 + 1) = first
      BY <1>9
    <2> HIDE DEF r
    <2> QED BY <1>3, <2>1 DEF Short, Start, start
  <1>11. LengthAt(r, 0) = length
    <2>1. CASE Short(b, offset)
      <3>1. DE!At(r, 0 + 1) = first
        BY <1>9
      <3> HIDE DEF r
      <3> QED BY <1>10, <2>1, <3>1 DEF LengthAt, length
    <2>2. CASE ~Short(b, offset)
      <3>1. 2 \in Nat /\ start - offset \in 2..end - offset /\ offset + (start - offset) = start /\ offset \in Nat /\ end \in offset..Len(b)
        BY <1>4, <1>6
      <3>2. DE!Cut(r, 2, start - offset) = DE!Cut(b, offset + 2, offset + (start - offset))
        BY <3>1, CutOfCut
      <3> HIDE DEF r
      <3>3. DE!Cut(r, 0 + 2, Start(r, 0)) = DE!Cut(b, offset + 2, Start(b, offset))
        BY <1>10, <3>1, <3>2 DEF start
      <3> QED BY <1>10, <2>2, <3>3 DEF LengthAt, length
    <2> QED BY <2>1, <2>2
  <1>12. DE!Cut(r, start - offset, end - offset) = DE!Cut(b, start, end)
    <2>1. /\ offset \in Nat /\ end \in offset..Len(b) /\ start - offset \in Nat /\ end - offset \in start - offset..end - offset
          /\ offset + (start - offset) = start /\ offset + (end - offset) = end
      BY <1>4, <1>6
    <2>2. DE!Cut(r, start - offset, end - offset) = DE!Cut(b, offset + (start - offset), offset + (end - offset))
      BY <2>1, CutOfCut
    <2> HIDE DEF r
    <2> QED BY <2>1, <2>2
  <1>13. DE!Cut(r, 0, end - offset) = r
    <2> HIDE DEF r
    <2> QED BY <1>8 DEF DE!Cut
  <1>14. DE!ReadElement(r, 0) = found(Len(r))
    <2> DEFINE s0 == start - offset
               e0 == end - offset
    <2>1. ~(0 + 2 > Len(r)) /\ ~(s0 > Len(r)) /\ length \in least..Len(r) - s0 /\ s0 + length = e0
      BY <1>4, <1>5, <1>6, <1>8 DEF end
    <2>2. DE!Cut(r, s0, e0) = DE!Cut(b, start, end) /\ DE!Cut(r, 0, e0) = r /\ e0 = Len(r)
      BY <1>8, <1>12, <1>13
    <2> HIDE DEF r, s0, e0
    <2>3. DE!At(r, 0 + 1) = first /\ Start(r, 0) = s0
      BY <1>9, <1>10 DEF s0
    <2>4. DE!ReadElement(r, 0) =
            IF 0 + 2 > Len(r) \/ DE!At(b, offset) % 32 = 31 THEN DE!Fail
            ELSE IF ~Short(b, offset) /\ (first - 128 \notin 1..4 \/ s0 > Len(r)) THEN DE!Fail
            ELSE IF length \notin least..Len(r) - s0 THEN DE!Fail
            ELSE [ok |-> TRUE, tag |-> DE!At(b, offset), constructed |-> (DE!At(b, offset) \div 32) % 2 = 1,
                  content |-> DE!Cut(r, s0, s0 + length), raw |-> DE!Cut(r, 0, s0 + length), next |-> s0 + length]
      <3>1. least = IF Short(r, 0) THEN 0 ELSE 128
        BY <1>10 DEF least
      <3> QED BY <1>9, <1>10, <1>11, <2>3, <3>1, ReadElementIs, Zenon
    <2>5. DE!ReadElement(r, 0) =
            [ok |-> TRUE, tag |-> DE!At(b, offset), constructed |-> (DE!At(b, offset) \div 32) % 2 = 1,
             content |-> DE!Cut(r, s0, s0 + length), raw |-> DE!Cut(r, 0, s0 + length), next |-> s0 + length]
      BY <1>2, <2>1, <2>4, Zenon
    <2> QED BY <2>1, <2>2, <2>5
  <1>15. DE!Cut(b, start, end) \in Seq(Bytes)
    BY <1>4, <1>6, Cuts
  <1> HIDE DEF r, found
  <1>16. /\ e.next \in offset + 2..Len(b)
         /\ e.raw = DE!Cut(b, offset, e.next)
         /\ DE!ReadElement(e.raw, 0) = [e EXCEPT !.next = Len(e.raw)]
         /\ e.content \in Seq(Bytes)
    BY <1>6, <1>7, <1>14, <1>15 DEF r
  <1> QED BY <1>16 DEF e

\* The children read so far lie one behind the other.
EndOf(children, i) == IF i = 0 THEN 0 ELSE children[i].next

Tiled(c, p) ==
  /\ p \in [ok : BOOLEAN, at : 0..Len(c), children : {p.children}]
  /\ Listed(p.children) /\ p.at = EndOf(p.children, Len(p.children))
  /\ \A i \in 1..Len(p.children) :
       /\ EndOf(p.children, i - 1) \in 0..Len(c)
       /\ p.children[i] = DE!ReadElement(c, EndOf(p.children, i - 1))
       /\ p.children[i].ok

LEMMA OneChild ==
  ASSUME NEW c \in Seq(Bytes), NEW p, Tiled(c, p)
  PROVE  Tiled(c, DE!NextChild(c, p))
  <1> DEFINE q == DE!NextChild(c, p)
             child == DE!ReadElement(c, p.at)
             s == p.children
             t == Append(s, child)
             n == Len(s)
  <1> SUFFICES Tiled(c, q)
    OBVIOUS
  <1>1. /\ p \in [ok : BOOLEAN, at : 0..Len(c), children : {s}]
        /\ Listed(s) /\ p.at = EndOf(s, n) /\ p.at \in 0..Len(c) /\ p.ok \in BOOLEAN
    BY DEF Tiled
  <1>2. CASE ~p.ok \/ p.at >= Len(c)
    <2>1. q = p
      BY <1>2, Zenon DEF DE!NextChild
    <2> HIDE DEF q
    <2> QED BY <2>1
  <1>3. CASE ~(~p.ok \/ p.at >= Len(c)) /\ ~child.ok
    <2>1. q = [p EXCEPT !.ok = FALSE]
      BY <1>3, Zenon DEF DE!NextChild
    <2> HIDE DEF q
    <2>2. q.children = s /\ q.at = p.at /\ q \in [ok : BOOLEAN, at : 0..Len(c), children : {s}]
      BY <1>1, <2>1
    <2>3. \A i \in 1..Len(s) :
             EndOf(s, i - 1) \in 0..Len(c) /\ s[i] = DE!ReadElement(c, EndOf(s, i - 1)) /\ s[i].ok
      BY DEF Tiled
    <2>4. Listed(s) /\ p.at = EndOf(s, Len(s))
      BY <1>1
    <2> HIDE DEF s
    <2> QED BY <2>2, <2>3, <2>4, Zenon DEF Tiled
  <1>4. CASE ~(~p.ok \/ p.at >= Len(c)) /\ child.ok
    <2>1. q = [ok |-> TRUE, at |-> child.next, children |-> t]
      BY <1>4, Zenon DEF DE!NextChild
    <2>2. child.next \in 0..Len(c)
      <3>1. child.next \in p.at + 2..Len(c)
        BY <1>1, <1>4, ElementLies
      <3> QED BY <1>1, <3>1
    <2>3. /\ Listed(t) /\ n \in Nat /\ Len(t) = n + 1 /\ t[n + 1] = child
          /\ \A k \in 1..n : t[k] = s[k]
      BY <1>1, AppendListed
    <2> HIDE DEF q, t, n
    <2>4. q.at = child.next /\ q.children = t /\ q \in [ok : BOOLEAN, at : 0..Len(c), children : {t}]
      <3> HIDE DEF child
      <3> QED BY <2>1, <2>2
    <2>5. q.at = EndOf(t, n + 1)
      BY <2>3, <2>4 DEF EndOf
    <2>6. \A k \in 0..n : EndOf(t, k) = EndOf(s, k)
      BY <2>3 DEF EndOf
    <2>7. ASSUME NEW i \in 1..n + 1
          PROVE  EndOf(t, i - 1) \in 0..Len(c) /\ t[i] = DE!ReadElement(c, EndOf(t, i - 1)) /\ t[i].ok
      <3>1. CASE i = n + 1
        <4>1. EndOf(t, i - 1) = p.at
          BY <1>1, <2>3, <2>6, <3>1 DEF n
        <4> QED BY <1>1, <1>4, <2>3, <3>1, <4>1
      <3>2. CASE i \in 1..n
        <4>1. EndOf(t, i - 1) = EndOf(s, i - 1) /\ t[i] = s[i]
          BY <2>3, <2>6, <3>2
        <4>2. EndOf(s, i - 1) \in 0..Len(c) /\ s[i] = DE!ReadElement(c, EndOf(s, i - 1)) /\ s[i].ok
          BY <3>2 DEF Tiled, n
        <4> QED BY <4>1, <4>2
      <3> QED BY <2>3, <3>1, <3>2
    <2>8. /\ q \in [ok : BOOLEAN, at : 0..Len(c), children : {q.children}]
          /\ Listed(q.children) /\ q.at = EndOf(q.children, Len(q.children))
      BY <2>3, <2>4, <2>5, Zenon
    <2>9. \A i \in 1..Len(q.children) :
             /\ EndOf(q.children, i - 1) \in 0..Len(c)
             /\ q.children[i] = DE!ReadElement(c, EndOf(q.children, i - 1))
             /\ q.children[i].ok
      BY <2>3, <2>4, <2>7, Zenon
    <2> QED BY <2>8, <2>9, Zenon DEF Tiled
  <1> QED BY <1>2, <1>3, <1>4

LEMMA ChildrenAre ==
  ASSUME NEW c \in Seq(Bytes)
  PROVE  \E p : Tiled(c, p) /\ DE!ReadChildren(c) = [ok |-> p.ok /\ p.at >= Len(c), children |-> p.children]
  <1> DEFINE start == [ok |-> TRUE, at |-> 0, children |-> <<>>]
             step(p) == DE!NextChild(c, p)
             turns == (Len(c) + 1) \div 2
             Row(t, n) == t = [i \in 0..n |-> IF i = 0 THEN start ELSE step(t[i - 1])]
             Rows == {n \in Nat : \E t : Row(t, n)}
  <1>1. Tiled(c, start)
    <2>1. Listed(<<>>) /\ Len(<<>>) = 0 /\ 0 \in 0..Len(c)
      BY DEF Listed
    <2> QED BY <2>1 DEF Tiled, EndOf
  <1>2. turns \in Nat
    OBVIOUS
  <1> HIDE DEF start, step, turns
  <1>3. 0 \in Rows
    <2>1. Row([i \in 0..0 |-> start], 0)
      OBVIOUS
    <2> QED BY <2>1
  <1>4. ASSUME NEW n \in Nat, n \in Rows PROVE n + 1 \in Rows
    <2>1. PICK t : Row(t, n)
      BY <1>4
    <2> DEFINE u == [i \in 0..n + 1 |-> IF i = n + 1 THEN step(t[n]) ELSE t[i]]
    <2>2. ASSUME NEW i \in 0..n + 1 PROVE u[i] = IF i = 0 THEN start ELSE step(u[i - 1])
      <3>1. CASE i = n + 1
        <4>1. u[i] = step(t[n]) /\ u[n] = t[n] /\ i - 1 = n /\ i # 0
          BY <3>1
        <4> HIDE DEF u
        <4> QED BY <4>1
      <3>2. CASE i \in 1..n
        <4>1. t[i] = step(t[i - 1])
          BY <2>1, <3>2
        <4>2. u[i] = t[i] /\ u[i - 1] = t[i - 1] /\ i # 0
          BY <3>2
        <4> HIDE DEF u
        <4> QED BY <4>1, <4>2
      <3>3. CASE i = 0
        <4>1. t[0] = start
          BY <2>1
        <4>2. u[0] = t[0]
          OBVIOUS
        <4> HIDE DEF u
        <4> QED BY <3>3, <4>1, <4>2
      <3> QED BY <3>1, <3>2, <3>3
    <2>3. Row(u, n + 1)
      <3>1. u = [i \in 0..n + 1 |-> u[i]]
        OBVIOUS
      <3> HIDE DEF u
      <3> QED BY <2>2, <3>1
    <2> HIDE DEF u, Row
    <2> QED BY <2>3
  <1>5. turns \in Rows
    <2>1. \A n \in Nat : n \in Rows => n + 1 \in Rows
      BY <1>4
    <2> HIDE DEF Rows
    <2> QED BY <1>2, <1>3, <2>1, Induction
  <1>6. \E t : t = [i \in 0..turns |-> IF i = 0 THEN start ELSE step(t[i - 1])]
    BY <1>5
  <1> DEFINE turn == CHOOSE t : t = [i \in 0..turns |-> IF i = 0 THEN start ELSE step(t[i - 1])]
  <1>7. turn = [i \in 0..turns |-> IF i = 0 THEN start ELSE step(turn[i - 1])]
    BY <1>6
  <1>8. DE!ReadChildren(c) = [ok |-> turn[turns].ok /\ turn[turns].at >= Len(c), children |-> turn[turns].children]
    BY Zenon DEF DE!ReadChildren, start, step, turns
  <1> HIDE DEF turn
  <1>9. turn[0] = start /\ \A i \in 1..turns : turn[i] = step(turn[i - 1])
    BY <1>2, <1>7
  <1> DEFINE Good == {i \in Nat : i <= turns => Tiled(c, turn[i])}
  <1>10. 0 \in Good
    BY <1>1, <1>9
  <1>11. ASSUME NEW i \in Nat, i \in Good, i + 1 <= turns PROVE Tiled(c, turn[i + 1])
    <2>1. Tiled(c, turn[i])
      BY <1>2, <1>11
    <2>2. turn[i + 1] = DE!NextChild(c, turn[i])
      BY <1>2, <1>9, <1>11 DEF step
    <2> QED BY <2>1, <2>2, OneChild
  <1>12. turns \in Good
    <2>1. \A i \in Nat : i \in Good => i + 1 \in Good
      BY <1>11
    <2> HIDE DEF Good
    <2> QED BY <1>2, <1>10, <2>1, Induction
  <1> QED BY <1>2, <1>8, <1>12

LEMMA Tile ==
  ASSUME input \in Seq(Bytes)
  PROVE  DE!ChildrenTile
  <1> DEFINE element == DE!ReadElement(input, 0)
             c == element.content
             read == DE!ReadChildren(c)
             end(i) == IF i = 0 THEN 0 ELSE read.children[i].next
  <1> SUFFICES ASSUME element.ok, read.ok
               PROVE  /\ end(Len(read.children)) = Len(c)
                      /\ \A i \in 1..Len(read.children) :
                           /\ read.children[i].raw = DE!Cut(c, end(i - 1), end(i))
                           /\ DE!ReadElement(read.children[i].raw, 0) =
                                [read.children[i] EXCEPT !.next = Len(read.children[i].raw)]
    BY DEF DE!ChildrenTile
  <1>1. c \in Seq(Bytes)
    <2>1. 0 \in 0..Len(input)
      OBVIOUS
    <2>2. element.ok
      OBVIOUS
    <2> QED BY <2>1, <2>2, ElementLies
  <1> HIDE DEF c
  <1>2. PICK p : Tiled(c, p) /\ read = [ok |-> p.ok /\ p.at >= Len(c), children |-> p.children]
    BY <1>1, ChildrenAre
  <1> HIDE DEF read
  <1>3. p.at >= Len(c) /\ read.children = p.children
    BY <1>2
  <1>4. /\ p.at \in 0..Len(c) /\ Listed(p.children) /\ p.at = EndOf(p.children, Len(p.children))
    BY <1>2 DEF Tiled
  <1>5. p.at = Len(c)
    BY <1>1, <1>3, <1>4
  <1>6. \A i : end(i) = EndOf(p.children, i)
    BY <1>3 DEF EndOf
  <1> HIDE DEF end
  <1>7. ASSUME NEW i \in 1..Len(p.children)
        PROVE  /\ p.children[i].raw = DE!Cut(c, end(i - 1), end(i))
               /\ DE!ReadElement(p.children[i].raw, 0) = [p.children[i] EXCEPT !.next = Len(p.children[i].raw)]
    <2> DEFINE from == EndOf(p.children, i - 1)
               child == p.children[i]
    <2>1. from \in 0..Len(c) /\ child = DE!ReadElement(c, from) /\ child.ok
      BY <1>2 DEF Tiled
    <2> HIDE DEF from, child
    <2>2. child.raw = DE!Cut(c, from, child.next) /\ DE!ReadElement(child.raw, 0) = [child EXCEPT !.next = Len(child.raw)]
      BY <1>1, <2>1, ElementLies
    <2>3. end(i - 1) = from /\ end(i) = child.next
      <3>1. i # 0
        OBVIOUS
      <3> QED BY <1>6, <3>1 DEF from, child, EndOf
    <2> QED BY <2>2, <2>3 DEF child
  <1> QED BY <1>3, <1>4, <1>5, <1>6, <1>7

----------------------------------------------------------------------------
(* Numbers and their digits                                                *)

Symbol == 0..Base - 1

LEMMA BaseIs == Base \in Nat /\ Base > 8 /\ Base = 2 * High /\ High \in Nat /\ Size \in Nat \ {0} /\ 2 * (Size + 3) < Base
  BY CurveAssumption DEF High

LEMMA DigitsAre ==
  ASSUME NEW x \in Nat, NEW y \in Nat, NEW d \in Symbol, NEW e \in Symbol, Base * x + d = Base * y + e
  PROVE  x = y /\ d = e
  <1>1. ASSUME NEW p \in Nat, NEW q \in Nat, NEW f \in Symbol, NEW g \in Symbol, Base * p + f = Base * q + g, p < q
        PROVE  FALSE
    <2>1. PICK k \in Nat : q = p + 1 + k
      <3>1. q - p - 1 \in Nat /\ q = p + 1 + (q - p - 1)
        BY <1>1
      <3> QED BY <3>1
    <2>2. Base * q = Base * p + Base + Base * k
      BY <2>1, BaseIs
    <2>3. Base * k \in Nat /\ Base * p \in Nat
      BY BaseIs
    <2> DEFINE u == Base * p
               v == Base * k
    <2>4. u + f = u + Base + v + g /\ u \in Nat /\ v \in Nat
      BY <1>1, <2>2, <2>3
    <2> HIDE DEF u, v
    <2> QED BY <1>1, <2>4, BaseIs DEF Symbol
  <1>2. x = y
    BY <1>1
  <1> DEFINE u == Base * x
  <1>3. u + d = u + e /\ u \in Nat
    BY <1>2, BaseIs
  <1> HIDE DEF u
  <1>4. d = e
    BY <1>3 DEF Symbol
  <1> QED BY <1>2, <1>4

\* A number moved by one place, which only the lemmas above and the next look into.
Moved(x) == Base * x

LEMMA MovedIs == Moved(0) = 0 /\ \A x \in Nat : Moved(x) \in Nat /\ Moved(x) >= x
  <1>1. Moved(0) = 0
    BY BaseIs DEF Moved
  <1>2. ASSUME NEW x \in Nat PROVE Moved(x) \in Nat /\ Moved(x) >= x
    BY BaseIs DEF Moved
  <1> QED BY <1>1, <1>2

LEMMA MovedDigits ==
  ASSUME NEW x \in Nat, NEW y \in Nat, NEW d \in Symbol, NEW e \in Symbol, Moved(x) + d = Moved(y) + e
  PROVE  x = y /\ d = e
  BY DigitsAre DEF Moved

LEMMA SymbolAt ==
  ASSUME NEW d \in Seq(Symbol), NEW i \in 1..Len(d)
  PROVE  d[i] \in Symbol /\ d[i] \in Nat
  <1>1. d[i] \in Symbol
    OBVIOUS
  <1> QED BY <1>1, BaseIs DEF Symbol

\* The values of the beginnings of a word.
Values(d, v) ==
  /\ v[0] = 0
  /\ \A i \in 1..Len(d) : v[i] = Moved(v[i - 1]) + d[i]
  /\ \A i \in 0..Len(d) : v[i] \in Nat

LEMMA ValuesAre ==
  ASSUME NEW d \in Seq(Symbol)
  PROVE  \E v : Values(d, v) /\ ValueOf(d) = v[Len(d)]
  <1> DEFINE Row(v, n) == /\ v \in [0..n -> Nat] /\ v[0] = 0
                          /\ \A i \in 1..n : v[i] = Moved(v[i - 1]) + d[i]
             Rows == {n \in Nat : n <= Len(d) => \E v : Row(v, n)}
  <1>1. 0 \in Rows
    <2>1. Row([i \in 0..0 |-> 0], 0)
      OBVIOUS
    <2> QED BY <2>1
  <1>2. ASSUME NEW n \in Nat, n \in Rows, n + 1 <= Len(d)
        PROVE  n + 1 \in Rows
    <2>1. PICK v : Row(v, n)
      <3> HIDE DEF Row
      <3> QED BY <1>2
    <2> DEFINE w == [i \in 0..n + 1 |-> IF i = n + 1 THEN Moved(v[n]) + d[n + 1] ELSE v[i]]
    <2>2. Moved(v[n]) + d[n + 1] \in Nat
      <3>1. v[n] \in Nat
        BY <2>1
      <3>2. n + 1 \in 1..Len(d)
        BY <1>2
      <3>3. d[n + 1] \in Nat
        BY <3>2, SymbolAt
      <3>4. Moved(v[n]) \in Nat
        BY <3>1, MovedIs
      <3> QED BY <3>3, <3>4
    <2>3. w \in [0..n + 1 -> Nat] /\ w[0] = 0 /\ w[n + 1] = Moved(w[n]) + d[n + 1]
      BY <2>1, <2>2
    <2>4. ASSUME NEW i \in 1..n PROVE w[i] = Moved(w[i - 1]) + d[i]
      <3>1. w[i] = v[i] /\ w[i - 1] = v[i - 1]
        OBVIOUS
      <3> QED BY <2>1, <3>1
    <2>5. Row(w, n + 1)
      <3> HIDE DEF w
      <3>1. ASSUME NEW i \in 1..n + 1 PROVE w[i] = Moved(w[i - 1]) + d[i]
        <4>1. CASE i = n + 1
          BY <2>3, <4>1
        <4>2. CASE i \in 1..n
          BY <2>4, <4>2
        <4> QED BY <4>1, <4>2
      <3> QED BY <2>3, <3>1
    <2> HIDE DEF Row, w
    <2> QED BY <2>5
  <1>3. Nat \subseteq Rows
    <2> HIDE DEF Row
    <2>1. \A n \in Nat : n \in Rows => n + 1 \in Rows
      BY <1>2
    <2> HIDE DEF Rows
    <2> QED BY <1>1, <2>1, Induction
  <1>4. PICK v : Row(v, Len(d))
    <2> HIDE DEF Row
    <2> QED BY <1>3
  <1>5. v = [i \in 0..Len(d) |-> IF i = 0 THEN 0 ELSE Moved(v[i - 1]) + d[i]]
    BY <1>4
  <1> DEFINE chosen == CHOOSE u : u = [i \in 0..Len(d) |-> IF i = 0 THEN 0 ELSE Moved(u[i - 1]) + d[i]]
  <1>6. chosen = [i \in 0..Len(d) |-> IF i = 0 THEN 0 ELSE Moved(chosen[i - 1]) + d[i]]
    BY <1>5
  <1>7. ValueOf(d) = chosen[Len(d)]
    BY DEF ValueOf, Moved
  <1> HIDE DEF chosen
  <1>8. chosen[0] = 0 /\ \A i \in 1..Len(d) : chosen[i] = Moved(chosen[i - 1]) + d[i]
    BY <1>6
  <1> DEFINE Whole == {n \in Nat : n <= Len(d) => chosen[n] \in Nat}
  <1>9. Nat \subseteq Whole
    <2>1. 0 \in Whole
      BY <1>8
    <2>2. ASSUME NEW n \in Nat, n \in Whole, n + 1 <= Len(d) PROVE chosen[n + 1] \in Nat
      <3>1. n + 1 \in 1..Len(d) /\ chosen[n] \in Nat
        BY <2>2
      <3>3. d[n + 1] \in Nat
        BY <3>1, SymbolAt
      <3>4. Moved(chosen[n]) \in Nat
        BY <3>1, MovedIs
      <3>2. chosen[n + 1] = Moved(chosen[n]) + d[n + 1]
        BY <1>8, <2>2
      <3> QED BY <3>2, <3>3, <3>4
    <2>3. \A n \in Nat : n \in Whole => n + 1 \in Whole
      BY <2>2
    <2> HIDE DEF Whole
    <2> QED BY <2>1, <2>3, Induction
  <1>10. \A i \in 0..Len(d) : chosen[i] \in Nat
    BY <1>9
  <1>11. Values(d, chosen)
    BY <1>8, <1>10 DEF Values
  <1> QED BY <1>7, <1>11

\* A word has one value.
LEMMA OneValue ==
  ASSUME NEW d \in Seq(Symbol), NEW w, Values(d, w)
  PROVE  ValueOf(d) = w[Len(d)]
  <1>1. PICK v : Values(d, v) /\ ValueOf(d) = v[Len(d)]
    BY ValuesAre
  <1> DEFINE Equal == {i \in Nat : i <= Len(d) => v[i] = w[i]}
  <1>2. 0 \in Equal
    BY <1>1 DEF Values
  <1>3. ASSUME NEW i \in Nat, i \in Equal, i + 1 <= Len(d) PROVE v[i + 1] = w[i + 1]
    <2>1. v[i] = w[i] /\ i + 1 \in 1..Len(d) /\ (i + 1) - 1 = i
      BY <1>3
    <2>2. v[i + 1] = Moved(v[i]) + d[i + 1] /\ w[i + 1] = Moved(w[i]) + d[i + 1]
      BY <1>1, <2>1 DEF Values
    <2> QED BY <2>1, <2>2
  <1>4. \A i \in Nat : i \in Equal => i + 1 \in Equal
    BY <1>3
  <1>5. Len(d) \in Equal
    <2> HIDE DEF Equal
    <2> QED BY <1>2, <1>4, Induction
  <1> QED BY <1>1, <1>5

\* Two words that do not begin with zero and have one value are one word.
LEMMA WordsAreOne ==
  ASSUME NEW a \in Seq(Symbol), NEW b \in Seq(Symbol), a # <<>>, b # <<>>, a[1] # 0, b[1] # 0,
         ValueOf(a) = ValueOf(b), Len(a) <= Len(b)
  PROVE  a = b
  <1>1. PICK v : Values(a, v) /\ ValueOf(a) = v[Len(a)]
    BY ValuesAre
  <1>2. PICK w : Values(b, w) /\ ValueOf(b) = w[Len(b)]
    BY ValuesAre
  <1> DEFINE m == Len(a)
             k == Len(b) - Len(a)
             Equal == {i \in Nat : i <= m => v[m - i] = w[k + (m - i)]}
  <1>3. m \in Nat /\ k \in Nat /\ k + m = Len(b) /\ m >= 1
    OBVIOUS
  <1>4. ASSUME NEW j \in 1..m, v[j] = w[k + j]
        PROVE  v[j - 1] = w[k + (j - 1)] /\ a[j] = b[k + j]
    <2> DEFINE x == v[j - 1]
               y == w[k + (j - 1)]
               d == a[j]
               e == b[k + j]
    <2>1. v[j] = Moved(x) + d /\ x \in Nat /\ d \in Symbol
      BY <1>1, <1>3, SymbolAt DEF Values
    <2>2. k + j \in 1..Len(b) /\ (k + j) - 1 = k + (j - 1) /\ k + (j - 1) \in 0..Len(b)
      BY <1>3
    <2>3. w[k + j] = Moved(y) + e /\ y \in Nat /\ e \in Symbol
      BY <1>2, <2>2, SymbolAt DEF Values
    <2> HIDE DEF x, y, d, e
    <2>4. x = y /\ d = e
      BY <1>4, <2>1, <2>3, MovedDigits
    <2> QED BY <2>4 DEF x, y, d, e
  <1>5. 0 \in Equal
    <2>1. k + m = Len(b) /\ m - 0 = m
      BY <1>3
    <2>2. v[m] = w[Len(b)]
      BY <1>1, <1>2
    <2> HIDE DEF m, k
    <2> QED BY <2>1, <2>2
  <1>6. ASSUME NEW i \in Nat, i \in Equal, i + 1 <= m PROVE v[m - (i + 1)] = w[k + (m - (i + 1))]
    <2>1. m - i \in 1..m /\ (m - i) - 1 = m - (i + 1) /\ v[m - i] = w[k + (m - i)]
      BY <1>3, <1>6
    <2> HIDE DEF m, k
    <2> QED BY <1>4, <2>1
  <1>7. Nat \subseteq Equal
    <2> HIDE DEF m, k
    <2>1. \A i \in Nat : i \in Equal => i + 1 \in Equal
      BY <1>6
    <2> HIDE DEF Equal
    <2> QED BY <1>5, <2>1, Induction
  <1>8. ASSUME NEW j \in 0..m PROVE v[j] = w[k + j]
    <2>1. m - j \in Nat /\ m - j <= m /\ m - (m - j) = j
      BY <1>3
    <2>2. m - j \in Equal
      BY <1>7, <2>1
    <2> QED BY <2>1, <2>2
  <1>9. k = 0
    <2> SUFFICES ASSUME k >= 1 PROVE FALSE
      BY <1>3
    <2> DEFINE Positive == {i \in Nat : i + 1 <= Len(b) => w[i + 1] >= 1}
    <2>1. 0 \in Positive
      <3>0. 1 \in 1..Len(b) /\ 1 - 1 = 0
        BY <1>3
      <3>1. w[1] = Moved(w[0]) + b[1] /\ w[0] = 0 /\ b[1] \in Nat
        BY <1>2, <3>0, SymbolAt DEF Values
      <3>2. Moved(0) = 0
        BY MovedIs
      <3> QED BY <3>1, <3>2
    <2>2. ASSUME NEW i \in Nat, i \in Positive, (i + 1) + 1 <= Len(b) PROVE w[(i + 1) + 1] >= 1
      <3> DEFINE n == i + 1
      <3>1. n + 1 \in 1..Len(b) /\ (n + 1) - 1 = n /\ n \in 0..Len(b)
        BY <2>2
      <3>2. w[n + 1] = Moved(w[n]) + b[n + 1] /\ w[n] \in Nat /\ b[n + 1] \in Nat /\ w[n] >= 1
        <4>1. w[n + 1] = Moved(w[n]) + b[n + 1] /\ w[n] \in Nat
          BY <1>2, <3>1 DEF Values
        <4>2. b[n + 1] \in Nat
          BY <3>1, SymbolAt
        <4>3. w[n] >= 1
          BY <2>2, <3>1
        <4> QED BY <4>1, <4>2, <4>3
      <3> HIDE DEF n
      <3>3. Moved(w[n]) \in Nat /\ Moved(w[n]) >= w[n]
        BY <3>2, MovedIs
      <3> QED BY <3>2, <3>3 DEF n
    <2>3. Nat \subseteq Positive
      <3>1. \A i \in Nat : i \in Positive => i + 1 \in Positive
        BY <2>2
      <3> HIDE DEF Positive
      <3> QED BY <2>1, <3>1, Induction
    <2>4. k - 1 \in Positive
      BY <1>3, <2>3
    <2>5. w[k] >= 1
      BY <1>3, <2>4
    <2>6. 0 \in 0..m /\ k + 0 = k
      BY <1>3
    <2>7. v[0] = w[k] /\ v[0] = 0
      BY <1>1, <1>8, <2>6 DEF Values
    <2> QED BY <2>5, <2>7
  <1>10. ASSUME NEW j \in 1..m PROVE a[j] = b[j]
    <2>1. v[j] = w[k + j]
      BY <1>8
    <2>2. a[j] = b[k + j]
      BY <1>4, <2>1
    <2> QED BY <1>9, <2>2
  <1> QED BY <1>3, <1>9, <1>10


\* A row of members of a set that follows a step from a start exists for every length.
Follows(t, S, start, F, m) == t \in [0..m -> S] /\ t[0] = start /\ \A i \in 1..m : t[i] = F[i][t[i - 1]]

LEMMA RowExists ==
  ASSUME NEW S, NEW start \in S, NEW F \in [Nat -> [S -> S]], NEW m \in Nat
  PROVE  \E t : Follows(t, S, start, F, m)
  <1> DEFINE Row(t, n) == t \in [0..n -> S] /\ t[0] = start /\ \A i \in 1..n : t[i] = F[i][t[i - 1]]
             Rows == {n \in Nat : \E t : Row(t, n)}
  <1>1. 0 \in Rows
    <2>1. Row([i \in 0..0 |-> start], 0)
      OBVIOUS
    <2> QED BY <2>1
  <1>2. ASSUME NEW n \in Nat, n \in Rows PROVE n + 1 \in Rows
    <2>1. PICK t : Row(t, n)
      <3> HIDE DEF Row
      <3> QED BY <1>2
    <2> DEFINE next == F[n + 1][t[n]]
               u == [i \in 0..n + 1 |-> IF i = n + 1 THEN next ELSE t[i]]
    <2>2. next \in S
      <3>1. n + 1 \in Nat /\ t[n] \in S
        BY <2>1
      <3> QED BY <3>1
    <2>3. u \in [0..n + 1 -> S] /\ u[0] = start
      <3> HIDE DEF next
      <3> QED BY <2>1, <2>2
    <2>4. ASSUME NEW i \in 1..n + 1 PROVE u[i] = F[i][u[i - 1]]
      <3>1. CASE i = n + 1
        <4>1. u[i] = next /\ u[n] = t[n] /\ i - 1 = n
          BY <3>1
        <4> HIDE DEF u
        <4> QED BY <3>1, <4>1
      <3>2. CASE i \in 1..n
        <4>1. t[i] = F[i][t[i - 1]]
          BY <2>1, <3>2
        <4>2. u[i] = t[i] /\ u[i - 1] = t[i - 1]
          BY <3>2
        <4> HIDE DEF u
        <4> QED BY <4>1, <4>2
      <3> QED BY <3>1, <3>2
    <2> HIDE DEF u
    <2>5. Row(u, n + 1)
      BY <2>3, <2>4
    <2> HIDE DEF Row
    <2> QED BY <2>5
  <1>3. m \in Rows
    <2> HIDE DEF Row
    <2>1. \A n \in Nat : n \in Rows => n + 1 \in Rows
      BY <1>2
    <2> HIDE DEF Rows
    <2> QED BY <1>1, <2>1, Induction
  <1> QED BY <1>3 DEF Follows

LEMMA Divided ==
  ASSUME NEW x \in Nat
  PROVE  x \div Base \in Nat /\ x % Base \in Symbol /\ x = Moved(x \div Base) + (x % Base)
  <1>1. Base \in Nat /\ Base > 0
    BY BaseIs
  <1>2. x \div Base \in Nat /\ x % Base \in 0..Base - 1 /\ x = Base * (x \div Base) + (x % Base)
    BY <1>1
  <1> QED BY <1>2, Zenon DEF Symbol, Moved

LEMMA MovedApart ==
  ASSUME NEW x \in Nat, NEW y \in Nat, x > y
  PROVE  Moved(x) >= Moved(y) + Base
  <1>1. x - y - 1 \in Nat /\ x = y + 1 + (x - y - 1)
    OBVIOUS
  <1> DEFINE k == x - y - 1
  <1>2. k \in Nat /\ x = y + 1 + k
    BY <1>1
  <1> HIDE DEF k
  <1>3. Base * x = Base * y + Base + Base * k
    BY <1>2, BaseIs
  <1>4. Base * k \in Nat /\ Base * y \in Nat /\ Base \in Nat
    BY <1>2, BaseIs
  <1> DEFINE u == Base * y
             v == Base * k
  <1>5. Base * x = u + Base + v /\ u \in Nat /\ v \in Nat
    BY <1>3, <1>4
  <1> HIDE DEF u, v
  <1>6. Base * x >= u + Base
    BY <1>4, <1>5
  <1> QED BY <1>6 DEF u, Moved

LEMMA Remains ==
  ASSUME NEW value \in Nat
  PROVE  LET r == Remaining(value)
         IN  /\ r[0] = value /\ \A i \in 0..Size : r[i] \in Nat
             /\ \A i \in 1..Size : r[i] = r[i - 1] \div Base
  <1> DEFINE F == [i \in Nat |-> [x \in Nat |-> x \div Base]]
             r == CHOOSE r : r = [i \in 0..Size |-> IF i = 0 THEN value ELSE r[i - 1] \div Base]
  <1>1. F \in [Nat -> [Nat -> Nat]]
    BY Divided
  <1>2. Size \in Nat
    BY BaseIs
  <1> HIDE DEF F
  <1>3. PICK t \in [0..Size -> Nat] : t[0] = value /\ \A i \in 1..Size : t[i] = F[i][t[i - 1]]
    <2>1. \E t : Follows(t, Nat, value, F, Size)
      BY <1>1, <1>2, RowExists
    <2> QED BY <2>1 DEF Follows
  <1>4. ASSUME NEW i \in 1..Size PROVE t[i] = t[i - 1] \div Base
    <2>1. i - 1 \in 0..Size /\ i \in Nat
      BY <1>2
    <2>2. t[i - 1] \in Nat
      BY <1>3, <2>1
    <2>3. F[i][t[i - 1]] = t[i - 1] \div Base
      BY <2>1, <2>2 DEF F
    <2> QED BY <1>3, <2>3
  <1>5. t = [i \in 0..Size |-> IF i = 0 THEN value ELSE t[i - 1] \div Base]
    BY <1>2, <1>3, <1>4
  <1>6. r = [i \in 0..Size |-> IF i = 0 THEN value ELSE r[i - 1] \div Base]
    BY <1>5
  <1>7. Remaining(value) = r
    BY Zenon DEF Remaining
  <1> HIDE DEF r
  <1>8. r[0] = value /\ \A i \in 1..Size : r[i] = r[i - 1] \div Base
    <2>1. 0 \in 0..Size
      BY <1>2
    <2>2. r[0] = value
      BY <1>6, <2>1
    <2>3. ASSUME NEW i \in 1..Size PROVE r[i] = r[i - 1] \div Base
      <3>1. i \in 0..Size /\ i # 0
        BY <1>2
      <3> QED BY <1>6, <3>1
    <2> QED BY <2>2, <2>3
  <1> DEFINE Whole == {i \in Nat : i <= Size => r[i] \in Nat}
  <1>9. 0 \in Whole
    BY <1>8
  <1>10. ASSUME NEW i \in Nat, i \in Whole, i + 1 <= Size PROVE r[i + 1] \in Nat
    <2>1. r[i] \in Nat /\ i + 1 \in 1..Size /\ (i + 1) - 1 = i
      BY <1>2, <1>10
    <2>2. r[i + 1] = r[i] \div Base
      BY <1>8, <2>1
    <2> QED BY <2>1, <2>2, Divided
  <1>11. \A i \in Nat : i \in Whole => i + 1 \in Whole
    BY <1>10
  <1>12. Nat \subseteq Whole
    <2> HIDE DEF Whole
    <2> QED BY <1>9, <1>11, Induction
  <1>13. \A i \in 0..Size : r[i] \in Nat
    BY <1>2, <1>12
  <1> QED BY <1>7, <1>8, <1>13

\* A number below the order is written in its width, and is the value of it.
LEMMA FixedWidth ==
  ASSUME NEW value \in 1..Order - 1
  PROVE  /\ FitsTheWidth(value)
         /\ ToFixedWidth(value) \in Seq(Symbol) /\ Len(ToFixedWidth(value)) = Size
         /\ ValueOf(ToFixedWidth(value)) = value
  <1> DEFINE r == Remaining(value)
             d == ToFixedWidth(value)
             most == [i \in 1..Size |-> Base - 1]
             w == [i \in 0..Size |-> r[Size - i]]
  <1>1. value \in Nat /\ Size \in Nat /\ Base \in Nat /\ Base > 8 /\ value <= ValueOf(most)
    <2> DEFINE top == ValueOf(most)
    <2>1. Order \in Nat /\ Order - 1 \in 1..top
      BY CurveAssumption
    <2>3. most \in Seq(Symbol)
      <3>1. Size \in Nat /\ Base - 1 \in Symbol
        BY BaseIs DEF Symbol
      <3>2. most \in [1..Size -> Symbol]
        BY <3>1
      <3> QED BY <3>1, <3>2
    <2>4. PICK m : Values(most, m) /\ top = m[Len(most)]
      BY <2>3, ValuesAre
    <2>5. Len(most) \in 0..Len(most)
      <3> HIDE DEF most
      <3> QED BY <2>3
    <2>6. top \in Nat
      <3> HIDE DEF most, top
      <3> QED BY <2>4, <2>5 DEF Values
    <2> HIDE DEF top, most
    <2>2. top \in Int /\ value \in Nat /\ value <= top
      BY <2>1, <2>6
    <2> QED BY <2>2, BaseIs DEF top
  <1>2. /\ r[0] = value /\ \A i \in 0..Size : r[i] \in Nat
        /\ \A i \in 1..Size : r[i] = r[i - 1] \div Base
    BY <1>1, Remains
  <1> HIDE DEF r
  <1>3. ASSUME NEW i \in 0..Size - 1
        PROVE  r[i] = Moved(r[i + 1]) + (r[i] % Base) /\ r[i] % Base \in Symbol
    <2>1. i + 1 \in 1..Size /\ (i + 1) - 1 = i /\ i \in 0..Size
      BY <1>1
    <2>2. r[i + 1] = r[i] \div Base /\ r[i] \in Nat
      BY <1>2, <2>1
    <2> QED BY <2>2, Divided
  <1>4. most \in Seq(Symbol) /\ Len(most) = Size
    <2>1. Base - 1 \in Symbol
      BY <1>1 DEF Symbol
    <2>2. most \in [1..Size -> Symbol]
      BY <2>1
    <2> QED BY <1>1, <2>2
  <1>5. PICK m : Values(most, m) /\ ValueOf(most) = m[Size]
    BY <1>4, ValuesAre
  <1>6. /\ m[0] = 0 /\ \A i \in 0..Size : m[i] \in Nat
        /\ \A i \in 1..Size : m[i] = Moved(m[i - 1]) + (Base - 1)
    BY <1>4, <1>5 DEF Values
  <1> DEFINE Below == {i \in Nat : i <= Size => r[i] <= m[Size - i]}
  <1>7. 0 \in Below
    BY <1>1, <1>2, <1>5
  <1>8. ASSUME NEW i \in Nat, i \in Below, i + 1 <= Size PROVE r[i + 1] <= m[Size - (i + 1)]
    <2> DEFINE x == r[i + 1]
               y == m[Size - (i + 1)]
               high == m[Size - i]
               low == r[i] % Base
    <2>1. /\ i \in 0..Size - 1 /\ i + 1 \in 0..Size /\ Size - i \in 1..Size
          /\ (Size - i) - 1 = Size - (i + 1) /\ Size - (i + 1) \in 0..Size
      BY <1>1, <1>8
    <2>2. r[i] <= high
      <3>1. i <= Size
        BY <1>1, <1>8
      <3> HIDE DEF high
      <3>2. r[i] <= m[Size - i]
        BY <1>8, <3>1
      <3> QED BY <3>2 DEF high
    <2>3. r[i] = Moved(x) + low /\ low \in Symbol /\ r[i] \in Nat /\ x \in Nat
      <3>1. r[i] = Moved(x) + low /\ low \in Symbol
        BY <1>3, <2>1
      <3>2. i \in 0..Size
        BY <2>1, <1>1
      <3> HIDE DEF x, low
      <3>3. r[i] \in Nat
        BY <1>2, <3>2
      <3>4. x \in Nat
        BY <1>2, <2>1 DEF x
      <3> QED BY <3>1, <3>3, <3>4
    <2>4. high = Moved(y) + (Base - 1) /\ y \in Nat
      <3>1. high = Moved(m[(Size - i) - 1]) + (Base - 1)
        BY <1>6, <2>1
      <3>2. y \in Nat
        BY <1>6, <2>1
      <3> HIDE DEF high
      <3> QED BY <2>1, <3>1, <3>2
    <2> HIDE DEF x, y, high, low
    <2>5. Moved(x) \in Nat /\ Moved(y) \in Nat /\ (x > y => Moved(x) >= Moved(y) + Base)
      BY <2>3, <2>4, MovedIs, MovedApart
    <2>6. low \in Nat
      BY <1>1, <2>3 DEF Symbol
    <2>7. x <= y
      BY <1>1, <2>2, <2>3, <2>4, <2>5, <2>6
    <2> QED BY <2>7 DEF x, y
  <1>9. Size \in Below
    <2>1. \A i \in Nat : i \in Below => i + 1 \in Below
      BY <1>8
    <2> HIDE DEF Below
    <2> QED BY <1>1, <1>7, <2>1, Induction
  <1>10. r[Size] = 0
    <2>1. r[Size] <= m[Size - Size] /\ Size - Size = 0 /\ Size \in 0..Size
      BY <1>1, <1>9
    <2>2. r[Size] <= 0 /\ r[Size] \in Nat
      BY <1>2, <1>6, <2>1
    <2> QED BY <2>2
  <1>11. d = [i \in 1..Size |-> r[Size - i] % Base]
    BY Zenon DEF ToFixedWidth, r
  <1> HIDE DEF d
  <1>12. d \in Seq(Symbol) /\ Len(d) = Size
    <2>1. ASSUME NEW i \in 1..Size PROVE r[Size - i] % Base \in Symbol
      <3>1. Size - i \in 0..Size - 1
        BY <1>1
      <3> QED BY <1>3, <3>1
    <2>2. d \in [1..Size -> Symbol]
      BY <1>11, <2>1
    <2> QED BY <1>1, <2>2
  <1>13. Values(d, w)
    <2>1. w[0] = 0
      BY <1>1, <1>10
    <2>2. ASSUME NEW i \in 1..Size PROVE w[i] = Moved(w[i - 1]) + d[i]
      <3>1. Size - i \in 0..Size - 1 /\ (Size - i) + 1 = Size - (i - 1) /\ i \in 0..Size /\ i - 1 \in 0..Size
        BY <1>1
      <3>2. w[i] = r[Size - i] /\ w[i - 1] = r[Size - (i - 1)] /\ d[i] = r[Size - i] % Base
        BY <1>11, <3>1
      <3>3. r[Size - i] = Moved(r[(Size - i) + 1]) + (r[Size - i] % Base)
        BY <1>3, <3>1
      <3> HIDE DEF w
      <3> QED BY <3>1, <3>2, <3>3
    <2>3. ASSUME NEW i \in 0..Size PROVE w[i] \in Nat
      <3>1. Size - i \in 0..Size
        BY <1>1
      <3> QED BY <1>2, <3>1
    <2> HIDE DEF w
    <2> QED BY <1>12, <2>1, <2>2, <2>3 DEF Values
  <1>14. ValueOf(d) = w[Size]
    <2> HIDE DEF w
    <2> QED BY <1>12, <1>13, OneValue
  <1>15. w[Size] = value
    <2>1. Size \in 0..Size /\ Size - Size = 0
      BY <1>1
    <2> QED BY <1>2, <2>1
  <1> QED BY <1>10, <1>12, <1>14, <1>15 DEF FitsTheWidth, r, d


----------------------------------------------------------------------------
(* Integers of a signature                                                 *)

\* Zeros in front do not count.
LEMMA FrontZeros ==
  ASSUME NEW d \in Seq(Symbol), NEW start \in 1..Len(d), \A j \in 1..start - 1 : d[j] = 0
  PROVE  /\ SubSeq(d, start, Len(d)) \in Seq(Symbol)
         /\ ValueOf(SubSeq(d, start, Len(d))) = ValueOf(d)
  <1> DEFINE w == SubSeq(d, start, Len(d))
             k == start - 1
  <1>1. PICK v : Values(d, v) /\ ValueOf(d) = v[Len(d)]
    BY ValuesAre
  <1>2. k \in Nat /\ k < Len(d) /\ k + 1 = start
    OBVIOUS
  <1>3. w \in Seq(Symbol) /\ Len(w) = Len(d) - k /\ \A i \in 1..Len(w) : w[i] = d[k + i]
    <2>1. w \in Seq(Symbol) /\ Len(w) = Len(d) - k
      OBVIOUS
    <2>2. ASSUME NEW i \in 1..Len(w) PROVE w[i] = d[k + i]
      <3>1. start + i - 1 = k + i
        BY <2>2
      <3>2. w[i] = d[start + i - 1]
        BY <2>1, <2>2
      <3> QED BY <3>1, <3>2
    <2> QED BY <2>1, <2>2
  <1> DEFINE Zero == {i \in Nat : i <= k => v[i] = 0}
  <1>4. 0 \in Zero
    BY <1>1 DEF Values
  <1>5. ASSUME NEW i \in Nat, i \in Zero, i + 1 <= k PROVE v[i + 1] = 0
    <2>1. v[i] = 0 /\ i + 1 \in 1..Len(d) /\ (i + 1) - 1 = i /\ d[i + 1] = 0
      BY <1>2, <1>5
    <2>2. v[i + 1] = Moved(v[i]) + d[i + 1]
      BY <1>1, <2>1 DEF Values
    <2> QED BY <2>1, <2>2, MovedIs
  <1>6. v[k] = 0
    <2>1. \A i \in Nat : i \in Zero => i + 1 \in Zero
      BY <1>5
    <2>2. k \in Zero
      <3> HIDE DEF Zero, k
      <3> QED BY <1>2, <1>4, <2>1, Induction
    <2> QED BY <1>2, <2>2
  <1> DEFINE u == [i \in 0..Len(w) |-> v[k + i]]
  <1>7. Values(w, u)
    <2> HIDE DEF w, k
    <2>0. Len(w) \in Nat /\ Len(d) \in Nat
      BY <1>3
    <2>1. u[0] = 0
      BY <1>2, <1>6, <2>0
    <2>2. ASSUME NEW i \in 1..Len(w) PROVE u[i] = Moved(u[i - 1]) + w[i]
      <3>1. k + i \in 1..Len(d) /\ (k + i) - 1 = k + (i - 1) /\ i \in 0..Len(w) /\ i - 1 \in 0..Len(w)
        BY <1>2, <1>3, <2>0
      <3>2. u[i] = v[k + i] /\ u[i - 1] = v[k + (i - 1)] /\ w[i] = d[k + i]
        BY <1>3, <3>1
      <3>3. v[k + i] = Moved(v[(k + i) - 1]) + d[k + i]
        BY <1>1, <3>1 DEF Values
      <3> HIDE DEF u
      <3> QED BY <3>1, <3>2, <3>3
    <2>3. ASSUME NEW i \in 0..Len(w) PROVE u[i] \in Nat
      <3>1. k + i \in 0..Len(d)
        BY <1>2, <1>3, <2>0
      <3> QED BY <1>1, <3>1 DEF Values
    <2> HIDE DEF u
    <2> QED BY <2>1, <2>2, <2>3 DEF Values
  <1>8. ValueOf(w) = u[Len(w)]
    <2> HIDE DEF w, u
    <2> QED BY <1>3, <1>7, OneValue
  <1>9. u[Len(w)] = v[Len(d)]
    <2> HIDE DEF w, k
    <2>1. Len(w) \in 0..Len(w) /\ k + Len(w) = Len(d)
      BY <1>2, <1>3
    <2> QED BY <2>1
  <1> HIDE DEF w, u
  <1>10. w \in Seq(Symbol) /\ ValueOf(w) = ValueOf(d)
    BY <1>1, <1>3, <1>8, <1>9
  <1> QED BY <1>10 DEF w

\* A word without zeros in front, and the form it has as an integer.
Bare(w) == w \in Seq(Symbol) /\ w # <<>> /\ w[1] # 0
Padded(w) == IF w[1] >= High THEN <<0>> \o w ELSE w
Encoding(w) == <<INTEGER, Len(Padded(w))>> \o Padded(w)
Spells(e, value, width) == \E w : Bare(w) /\ ValueOf(w) = value /\ Len(w) <= width /\ e = Encoding(w)

LEMMA ZeroWord ==
  ASSUME NEW d \in Seq(Symbol), \A j \in 1..Len(d) : d[j] = 0
  PROVE  ValueOf(d) = 0
  <1>1. PICK v : Values(d, v) /\ ValueOf(d) = v[Len(d)]
    BY ValuesAre
  <1> DEFINE Zero == {i \in Nat : i <= Len(d) => v[i] = 0}
  <1>4. 0 \in Zero
    BY <1>1 DEF Values
  <1>5. ASSUME NEW i \in Nat, i \in Zero, i + 1 <= Len(d) PROVE v[i + 1] = 0
    <2>1. v[i] = 0 /\ i + 1 \in 1..Len(d) /\ (i + 1) - 1 = i /\ d[i + 1] = 0
      BY <1>5
    <2>2. v[i + 1] = Moved(v[i]) + d[i + 1]
      BY <1>1, <2>1 DEF Values
    <2> QED BY <2>1, <2>2, MovedIs
  <1>6. \A i \in Nat : i \in Zero => i + 1 \in Zero
    BY <1>5
  <1>7. Len(d) \in Zero
    <2> HIDE DEF Zero
    <2> QED BY <1>4, <1>6, Induction
  <1> QED BY <1>1, <1>7

LEMMA Encoded ==
  ASSUME NEW d \in Seq(Symbol), ValueOf(d) # 0
  PROVE  Spells(EncodeInteger(d), ValueOf(d), Len(d))
  <1> DEFINE Starts(i) == (i = Len(d) \/ d[i] # 0) /\ \A j \in 1..i - 1 : d[j] = 0
             start == CHOOSE i \in 1..Len(d) : Starts(i)
             w == SubSeq(d, start, Len(d))
  <1>1. \E i \in 1..Len(d) : Starts(i)
    <2> DEFINE Digits == {i \in 1..Len(d) : d[i] # 0}
    <2>1. Digits \in SUBSET Nat /\ Digits # {}
      BY ZeroWord
    <2>2. PICK i \in Digits : \A j \in Digits : i <= j
      <3> HIDE DEF Digits
      <3> QED BY <2>1, LeastMember
    <2>3. i \in 1..Len(d) /\ d[i] # 0
      BY <2>2
    <2>4. ASSUME NEW j \in 1..i - 1 PROVE d[j] = 0
      BY <2>2, <2>3
    <2> QED BY <2>3, <2>4
  <1>2. start \in 1..Len(d) /\ Starts(start)
    <2> HIDE DEF Starts
    <2> QED BY <1>1
  <1>3. EncodeInteger(d) = Encoding(w)
    BY DEF EncodeInteger, Encoding, Padded
  <1> HIDE DEF start
  <1>4. d[start] # 0
    <2> SUFFICES ASSUME d[start] = 0 PROVE FALSE
      OBVIOUS
    <2>1. start = Len(d)
      BY <1>2
    <2>2. \A j \in 1..Len(d) : d[j] = 0
      BY <1>2, <2>1
    <2> QED BY <2>2, ZeroWord
  <1>5. w \in Seq(Symbol) /\ ValueOf(w) = ValueOf(d)
    BY <1>2, FrontZeros
  <1>6. Len(w) = Len(d) - start + 1 /\ w[1] = d[start]
    BY <1>2
  <1> HIDE DEF w, Starts
  <1>7. Len(w) <= Len(d) /\ Len(w) >= 1
    BY <1>2, <1>6
  <1>8. Bare(w)
    BY <1>4, <1>5, <1>6, <1>7 DEF Bare
  <1> QED BY <1>3, <1>5, <1>7, <1>8 DEF Spells

\* A number has one spelling, and no integer is spelled in more bytes than it needs.
LEMMA SpelledOnce ==
  ASSUME NEW e, NEW f, NEW value, NEW m, NEW n, Spells(e, value, m), Spells(f, value, n)
  PROVE  e = f
  <1>1. PICK a : Bare(a) /\ ValueOf(a) = value /\ e = Encoding(a)
    BY DEF Spells
  <1>2. PICK b : Bare(b) /\ ValueOf(b) = value /\ f = Encoding(b)
    BY DEF Spells
  <1>3. a = b
    <2>1. Len(a) \in Nat /\ Len(b) \in Nat
      BY <1>1, <1>2 DEF Bare
    <2>2. CASE Len(a) <= Len(b)
      BY <1>1, <1>2, <2>2, WordsAreOne DEF Bare
    <2>3. CASE Len(b) <= Len(a)
      BY <1>1, <1>2, <2>3, WordsAreOne DEF Bare
    <2> QED BY <2>1, <2>2, <2>3
  <1> QED BY <1>1, <1>2, <1>3

LEMMA EncodingIs ==
  ASSUME NEW w, Bare(w)
  PROVE  /\ Padded(w) \in Seq(Symbol) /\ Len(Padded(w)) \in Len(w)..Len(w) + 1 /\ Len(w) \in Nat \ {0}
         /\ Minimal(Padded(w)) /\ ValueOf(Padded(w)) = ValueOf(w)
  <1>1. w \in Seq(Symbol) /\ Len(w) \in Nat \ {0} /\ w[1] \in Symbol /\ w[1] \in Nat /\ w[1] # 0 /\ High \in Nat /\ High > 4
    <2>1. w \in Seq(Symbol) /\ Len(w) \in Nat \ {0} /\ w[1] # 0
      BY DEF Bare
    <2>2. 1 \in 1..Len(w)
      BY <2>1
    <2> QED BY <2>1, <2>2, SymbolAt, BaseIs
  <1>2. CASE w[1] < High
    <2>1. Padded(w) = w
      BY <1>1, <1>2 DEF Padded
    <2>2. Minimal(w)
      BY <1>1, <1>2 DEF Minimal
    <2> QED BY <1>1, <2>1, <2>2
  <1>3. CASE w[1] >= High
    <2> DEFINE p == <<0>> \o w
    <2>1. Padded(w) = p
      BY <1>3 DEF Padded
    <2>2. p \in Seq(Symbol) /\ Len(p) = Len(w) + 1 /\ p[1] = 0 /\ p[2] = w[1] /\ SubSeq(p, 2, Len(p)) = w
      <3>1. 0 \in Symbol
        BY BaseIs DEF Symbol
      <3>2. <<0>> \in Seq(Symbol)
        BY <3>1
      <3>3. p \in Seq(Symbol) /\ Len(p) = Len(w) + 1 /\ p[1] = 0 /\ p[2] = w[1]
        BY <1>1, <3>2
      <3>4. SubSeq(p, 2, Len(p)) = w
        <4> DEFINE q == SubSeq(p, 2, Len(p))
        <4>1. q \in Seq(Symbol) /\ Len(q) = Len(w)
          BY <1>1, <3>3
        <4>2. ASSUME NEW i \in 1..Len(w) PROVE q[i] = w[i]
          BY <1>1, <3>3
        <4> HIDE DEF q
        <4>3. q = w
          BY <1>1, <4>1, <4>2
        <4> QED BY <4>3 DEF q
      <3> QED BY <3>3, <3>4
    <2> HIDE DEF p
    <2>3. 2 \in 1..Len(p) /\ \A j \in 1..2 - 1 : p[j] = 0
      BY <1>1, <2>2
    <2>4. ValueOf(w) = ValueOf(p)
      BY <2>2, <2>3, FrontZeros
    <2>5. Minimal(p)
      BY <1>1, <1>3, <2>2 DEF Minimal
    <2> QED BY <1>1, <2>1, <2>2, <2>4, <2>5
  <1> QED BY <1>1, <1>2, <1>3

\* What is minimal is the form of its word without the zero in front.
LEMMA MinimalIs ==
  ASSUME NEW d \in Seq(Symbol), Len(d) >= 1, Minimal(d)
  PROVE  \E w : Bare(w) /\ ValueOf(w) = ValueOf(d) /\ d = Padded(w)
  <1>1. d[1] \in Nat /\ d[1] < High /\ High \in Nat /\ High > 4 /\ Len(d) \in Nat
    <2>1. 1 \in 1..Len(d)
      OBVIOUS
    <2> QED BY <2>1, SymbolAt, BaseIs DEF Minimal
  <1>2. CASE d[1] # 0
    <2>1. Bare(d)
      BY <1>2 DEF Bare
    <2>2. d = Padded(d)
      BY <1>1 DEF Padded
    <2> QED BY <2>1, <2>2
  <1>3. CASE d[1] = 0
    <2> DEFINE w == SubSeq(d, 2, Len(d))
    <2>1. Len(d) >= 2 /\ d[2] >= High
      BY <1>1, <1>3 DEF Minimal
    <2>2. w \in Seq(Symbol) /\ ValueOf(w) = ValueOf(d)
      <3>1. 2 \in 1..Len(d) /\ \A j \in 1..2 - 1 : d[j] = 0
        BY <1>1, <1>3, <2>1
      <3> QED BY <3>1, FrontZeros
    <2>3. Len(w) = Len(d) - 1 /\ w[1] = d[2] /\ \A i \in 1..Len(w) : w[i] = d[i + 1]
      BY <1>1, <2>1
    <2> HIDE DEF w
    <2>4. Bare(w)
      <3>1. Len(w) >= 1 /\ w[1] # 0
        BY <1>1, <2>1, <2>3
      <3> QED BY <2>2, <3>1 DEF Bare
    <2>5. d = Padded(w)
      <3> DEFINE p == <<0>> \o w
      <3>0. Padded(w) = p
        BY <2>1, <2>3 DEF Padded
      <3>1. Len(p) = Len(d) /\ p[1] = 0 /\ \A i \in 1..Len(w) : p[i + 1] = w[i]
        BY <2>2, <2>3
      <3>2. p \in Seq(Symbol)
        <4>1. 0 \in Symbol
          BY BaseIs DEF Symbol
        <4>2. <<0>> \in Seq(Symbol)
          BY <4>1
        <4> QED BY <2>2, <4>2
      <3> HIDE DEF p
      <3>3. ASSUME NEW i \in 1..Len(d) PROVE p[i] = d[i]
        <4>1. CASE i = 1
          BY <1>3, <3>1, <4>1
        <4>2. CASE i # 1
          <5>1. i - 1 \in 1..Len(w) /\ (i - 1) + 1 = i
            BY <2>1, <2>2, <2>3, <4>2
          <5> QED BY <2>3, <3>1, <5>1
        <4> QED BY <4>1, <4>2
      <3>4. p = d
        BY <3>1, <3>2, <3>3
      <3> QED BY <3>0, <3>4
    <2> QED BY <2>2, <2>4, <2>5
  <1> QED BY <1>2, <1>3

\* The integer that the inverse writes for a number below the order.
Integer_(value) == EncodeInteger(ToFixedWidth(value))

LEMMA IntegerIs ==
  ASSUME NEW value \in 1..Order - 1
  PROVE  LET e == Integer_(value)
             digits == SubSeq(e, 3, Len(e))
         IN  /\ Spells(e, value, Size)
             /\ e \in Seq(Symbol) /\ Len(e) \in 3..Size + 3 /\ e[1] = INTEGER /\ e[2] = Len(e) - 2
             /\ digits \in Seq(Symbol) /\ Len(digits) = Len(e) - 2
             /\ Minimal(digits) /\ ValueOf(digits) = value
  <1> DEFINE e == Integer_(value)
             d == ToFixedWidth(value)
  <1>1. d \in Seq(Symbol) /\ Len(d) = Size /\ ValueOf(d) = value
    BY FixedWidth
  <1>2. value # 0 /\ Size \in Nat /\ 2 * (Size + 3) < Base /\ Base \in Nat
    <2>1. Order \in Nat
      BY CurveAssumption
    <2> QED BY <2>1, BaseIs
  <1>3. Spells(e, value, Size)
    <2> HIDE DEF d
    <2>1. Spells(EncodeInteger(d), ValueOf(d), Len(d))
      BY <1>1, <1>2, Encoded
    <2> QED BY <1>1, <2>1, Zenon DEF d, Integer_
  <1>4. PICK w : Bare(w) /\ ValueOf(w) = value /\ Len(w) <= Size /\ e = Encoding(w)
    BY <1>3 DEF Spells
  <1> DEFINE p == Padded(w)
  <1>5. p \in Seq(Symbol) /\ Len(p) \in 1..Size + 1 /\ Minimal(p) /\ ValueOf(p) = value
    <2>1. /\ p \in Seq(Symbol) /\ Len(p) \in Len(w)..Len(w) + 1 /\ Len(w) \in Nat \ {0}
          /\ Minimal(p) /\ ValueOf(p) = ValueOf(w)
      BY <1>4, EncodingIs
    <2> HIDE DEF p
    <2>2. Len(p) \in 1..Size + 1
      BY <1>2, <1>4, <2>1
    <2> QED BY <1>4, <2>1, <2>2
  <1>6. e = <<INTEGER, Len(p)>> \o p
    BY <1>4 DEF Encoding
  <1> HIDE DEF p, e
  <1>7. <<INTEGER, Len(p)>> \in Seq(Symbol)
    <2>1. INTEGER \in Symbol
      BY CurveAssumption DEF Symbol
    <2>2. Len(p) \in Symbol
      BY <1>2, <1>5 DEF Symbol
    <2> QED BY <2>1, <2>2
  <1>8. /\ e \in Seq(Symbol) /\ Len(e) = Len(p) + 2 /\ e[1] = INTEGER /\ e[2] = Len(p)
        /\ \A i \in 1..Len(p) : e[i + 2] = p[i]
    BY <1>5, <1>6, <1>7
  <1> DEFINE digits == SubSeq(e, 3, Len(e))
  <1>9. digits = p
    <2>1. digits \in Seq(Symbol) /\ Len(digits) = Len(p)
      BY <1>5, <1>8
    <2>2. ASSUME NEW i \in 1..Len(p) PROVE digits[i] = p[i]
      <3>1. digits[i] = e[i + 2]
        BY <1>5, <1>8, <2>2
      <3> QED BY <1>8, <3>1
    <2> HIDE DEF digits
    <2> QED BY <1>5, <2>1, <2>2
  <1> HIDE DEF digits
  <1>10. Len(e) \in 3..Size + 3 /\ e[2] = Len(e) - 2 /\ Len(digits) = Len(e) - 2
    BY <1>2, <1>5, <1>8, <1>9
  <1>11. digits \in Seq(Symbol) /\ Minimal(digits) /\ ValueOf(digits) = value
    BY <1>5, <1>9
  <1> QED BY <1>3, <1>8, <1>10, <1>11 DEF e, digits

\* What is read as an integer is spelled as the inverse spells it.
LEMMA IntegerRead ==
  ASSUME NEW b \in Seq(Symbol), NEW offset \in Nat, ReadInteger(b, offset).ok
  PROVE  LET r == ReadInteger(b, offset)
         IN  /\ r.next \in offset + 3..Len(b)
             /\ r.value \in 1..Order - 1 => SubSeq(b, offset + 1, r.next) = Integer_(r.value)
  <1> DEFINE r == ReadInteger(b, offset)
             length == At(b, offset + 1)
             end == offset + 2 + length
             digits == SubSeq(b, offset + 3, end)
             e == SubSeq(b, offset + 1, end)
  <1>1. Len(b) \in Nat /\ High \in Nat
    BY BaseIs
  <1>2. /\ offset + 1 < Len(b) /\ At(b, offset) = INTEGER /\ length \in 1..High - 1 /\ end <= Len(b) /\ Minimal(digits)
        /\ r = [ok |-> TRUE, value |-> ValueOf(digits), next |-> end]
    BY <1>1 DEF ReadInteger, Malformed
  <1>3. r.next = end /\ r.value = ValueOf(digits)
    <2> HIDE DEF r, end, digits
    <2> QED BY <1>2
  <1>4. b[offset + 1] = INTEGER /\ b[offset + 2] = length /\ length \in Nat /\ length >= 1
    BY <1>1, <1>2 DEF At
  <1> HIDE DEF length
  <1>5. digits \in Seq(Symbol) /\ Len(digits) = length /\ \A i \in 1..length : digits[i] = b[offset + 2 + i]
    <2>1. digits \in Seq(Symbol) /\ Len(digits) = length
      BY <1>1, <1>2, <1>4
    <2>2. ASSUME NEW i \in 1..length PROVE digits[i] = b[offset + 2 + i]
      <3>1. (offset + 3) + i - 1 = offset + 2 + i /\ i \in 1..end - (offset + 3) + 1
        BY <1>4
      <3>2. digits[i] = b[(offset + 3) + i - 1]
        BY <1>1, <1>2, <1>4, <3>1
      <3> QED BY <3>1, <3>2
    <2> QED BY <2>1, <2>2
  <1>6. /\ e \in Seq(Symbol) /\ Len(e) = length + 2 /\ e[1] = INTEGER /\ e[2] = length
        /\ \A i \in 1..length : e[i + 2] = b[offset + 2 + i]
    <2>1. e \in Seq(Symbol) /\ Len(e) = length + 2
      BY <1>1, <1>2, <1>4
    <2>2. ASSUME NEW i \in 1..length + 2 PROVE e[i] = b[offset + i]
      <3>1. (offset + 1) + i - 1 = offset + i /\ i \in 1..end - (offset + 1) + 1
        BY <1>4
      <3>2. e[i] = b[(offset + 1) + i - 1]
        BY <1>1, <1>2, <1>4, <3>1
      <3> QED BY <3>1, <3>2
    <2> HIDE DEF e
    <2>3. e[1] = INTEGER /\ e[2] = length
      BY <1>4, <2>2
    <2>4. ASSUME NEW i \in 1..length PROVE e[i + 2] = b[offset + 2 + i]
      <3>1. i + 2 \in 1..length + 2 /\ offset + (i + 2) = offset + 2 + i
        BY <1>4
      <3> QED BY <2>2, <3>1
    <2> QED BY <2>1, <2>3, <2>4
  <1> HIDE DEF digits, e
  <1>7. PICK w : Bare(w) /\ ValueOf(w) = ValueOf(digits) /\ digits = Padded(w)
    <2>1. Len(digits) >= 1
      BY <1>4, <1>5
    <2> QED BY <1>2, <1>5, <2>1, MinimalIs
  <1>8. e = Encoding(w)
    <2> DEFINE f == <<INTEGER, length>> \o digits
    <2>1. Encoding(w) = f
      BY <1>5, <1>7 DEF Encoding
    <2>2. Len(f) = length + 2 /\ f[1] = INTEGER /\ f[2] = length /\ \A i \in 1..length : f[i + 2] = digits[i]
      BY <1>4, <1>5
    <2>3. f \in Seq(Symbol)
      <3>1. INTEGER \in Symbol /\ length \in Symbol
        <4>1. e[1] \in Symbol /\ e[2] \in Symbol
          <5>1. 1 \in 1..Len(e) /\ 2 \in 1..Len(e)
            BY <1>4, <1>6
          <5> QED BY <1>6, <5>1, SymbolAt
        <4> QED BY <1>6, <4>1
      <3>2. <<INTEGER, length>> \in Seq(Symbol)
        BY <3>1
      <3> QED BY <1>5, <3>2
    <2> HIDE DEF f
    <2>4. ASSUME NEW i \in 1..length + 2 PROVE e[i] = f[i]
      <3>1. CASE i \in {1, 2}
        BY <1>6, <2>2, <3>1
      <3>2. CASE i \notin {1, 2}
        <4>1. i - 2 \in 1..length /\ (i - 2) + 2 = i
          BY <1>4, <3>2
        <4> QED BY <1>5, <1>6, <2>2, <4>1
      <3> QED BY <3>1, <3>2
    <2>5. e = f
      BY <1>4, <1>6, <2>2, <2>3, <2>4
    <2> QED BY <2>1, <2>5
  <1>9. Spells(e, r.value, Len(w))
    <2>1. Len(w) <= Len(w)
      BY <1>7 DEF Bare
    <2> HIDE DEF r
    <2> QED BY <1>3, <1>7, <1>8, <2>1 DEF Spells
  <1>10. ASSUME r.value \in 1..Order - 1 PROVE e = Integer_(r.value)
    <2> HIDE DEF r
    <2>1. Spells(Integer_(r.value), r.value, Size)
      BY <1>10, IntegerIs
    <2> QED BY <1>9, <2>1, SpelledOnce
  <1>11. r.next \in offset + 3..Len(b)
    <2> HIDE DEF r
    <2>1. r.next = offset + 2 + length
      BY <1>3
    <2> QED BY <1>1, <1>2, <1>4, <2>1
  <1>12. e = SubSeq(b, offset + 1, r.next)
    <2> HIDE DEF r, end
    <2> QED BY <1>3 DEF e
  <1> QED BY <1>10, <1>11, <1>12 DEF r

\* And what the inverse writes is read.
LEMMA IntegerIsRead ==
  ASSUME NEW b \in Seq(Symbol), NEW offset \in Nat, NEW value \in 1..Order - 1,
         offset + Len(Integer_(value)) <= Len(b),
         SubSeq(b, offset + 1, offset + Len(Integer_(value))) = Integer_(value)
  PROVE  ReadInteger(b, offset) = [ok |-> TRUE, value |-> value, next |-> offset + Len(Integer_(value))]
  <1> DEFINE e == Integer_(value)
             n == Len(e)
             digits == SubSeq(e, 3, n)
  <1>1. /\ e \in Seq(Symbol) /\ n \in 3..Size + 3 /\ e[1] = INTEGER /\ e[2] = n - 2
        /\ digits \in Seq(Symbol) /\ Len(digits) = n - 2 /\ Minimal(digits) /\ ValueOf(digits) = value
    BY IntegerIs
  <1>2. Size \in Nat /\ High \in Nat /\ Size + 3 < High /\ Len(b) \in Nat
    BY BaseIs
  <1>3. offset + n <= Len(b) /\ SubSeq(b, offset + 1, offset + n) = e
    OBVIOUS
  <1> HIDE DEF e
  <1>4. n \in Nat /\ n >= 3 /\ n <= Size + 3
    BY <1>1, <1>2
  <1> HIDE DEF n
  <1>5. ASSUME NEW i \in 1..n PROVE e[i] = b[offset + i]
    <2>1. (offset + 1) + i - 1 = offset + i /\ i \in 1..(offset + n) - (offset + 1) + 1
      BY <1>4
    <2>2. e[i] = b[(offset + 1) + i - 1]
      BY <1>2, <1>3, <1>4, <2>1
    <2> QED BY <2>1, <2>2
  <1>6. b[offset + 1] = INTEGER /\ b[offset + 2] = n - 2
    <2>1. 1 \in 1..n /\ 2 \in 1..n
      BY <1>4
    <2> QED BY <1>1, <1>5, <2>1
  <1> DEFINE length == At(b, offset + 1)
             end == offset + 2 + length
             read == SubSeq(b, offset + 3, end)
  <1>7. At(b, offset) = INTEGER /\ length = n - 2 /\ end = offset + n
    <2>1. offset + 1 + 1 = offset + 2 /\ offset + 2 + (n - 2) = offset + n
      BY <1>4
    <2>2. At(b, offset) = INTEGER /\ length = n - 2
      BY <1>6, <2>1 DEF At
    <2> HIDE DEF length
    <2> QED BY <2>1, <2>2
  <1>8. read = digits
    <2> HIDE DEF length, end
    <2>1. read \in Seq(Symbol) /\ Len(read) = n - 2
      BY <1>2, <1>3, <1>4, <1>7
    <2>2. ASSUME NEW i \in 1..n - 2 PROVE read[i] = digits[i]
      <3>1. (offset + 3) + i - 1 = offset + (i + 2) /\ i \in 1..end - (offset + 3) + 1 /\ i + 2 \in 1..n /\ 3 + i - 1 = i + 2 /\ i \in 1..n - 3 + 1
        BY <1>4, <1>7
      <3>2. read[i] = b[(offset + 3) + i - 1]
        BY <1>2, <1>3, <1>4, <1>7, <3>1
      <3>3. digits[i] = e[3 + i - 1]
        BY <1>1, <1>4, <3>1 DEF n
      <3>4. e[i + 2] = b[offset + (i + 2)]
        BY <1>5, <3>1
      <3> QED BY <3>1, <3>2, <3>3, <3>4
    <2> HIDE DEF read, digits
    <2> QED BY <1>1, <1>4, <2>1, <2>2
  <1>9. ReadInteger(b, offset) = [ok |-> TRUE, value |-> ValueOf(read), next |-> end]
    <2>1. ~(offset + 1 >= Len(b))
      BY <1>2, <1>3, <1>4
    <2>2. length \in 1..High - 1 /\ ~(end > Len(b))
      <3> HIDE DEF length, end
      <3> QED BY <1>2, <1>3, <1>4, <1>7
    <2>3. Minimal(read)
      <3> HIDE DEF read, digits
      <3> QED BY <1>1, <1>8
    <2> QED BY <1>7, <2>1, <2>2, <2>3, Zenon DEF ReadInteger
  <1> HIDE DEF read, digits, end, length
  <1> QED BY <1>1, <1>7, <1>8, <1>9 DEF n, e

----------------------------------------------------------------------------
(* Signatures                                                              *)

\* A content with its head in front.
Headed(body) == (IF Len(body) < High THEN <<SEQUENCE, Len(body)>> ELSE <<SEQUENCE, High + 1, Len(body)>>) \o body

LEMMA OneDigit ==
  ASSUME NEW d \in Seq(Symbol), Len(d) = 1
  PROVE  ValueOf(d) = d[1]
  <1>1. PICK v : Values(d, v) /\ ValueOf(d) = v[Len(d)]
    BY ValuesAre
  <1>2. 1 \in 1..Len(d) /\ 1 - 1 = 0 /\ d[1] \in Nat
    BY SymbolAt
  <1>3. v[1] = Moved(v[0]) + d[1] /\ v[0] = 0
    BY <1>1, <1>2 DEF Values
  <1> QED BY <1>1, <1>2, <1>3, MovedIs

LEMMA Glued ==
  ASSUME NEW b \in Seq(Symbol), NEW h \in Seq(Symbol), Len(h) <= Len(b), \A i \in 1..Len(h) : h[i] = b[i]
  PROVE  b = h \o SubSeq(b, Len(h) + 1, Len(b))
  <1> DEFINE t == SubSeq(b, Len(h) + 1, Len(b))
             c == h \o t
  <1>1. t \in Seq(Symbol) /\ Len(t) = Len(b) - Len(h) /\ Len(h) \in Nat /\ Len(b) \in Nat
    OBVIOUS
  <1>2. ASSUME NEW i \in 1..Len(t) PROVE t[i] = b[Len(h) + i]
    <2>1. (Len(h) + 1) + i - 1 = Len(h) + i
      BY <1>1
    <2>2. t[i] = b[(Len(h) + 1) + i - 1]
      BY <1>1
    <2> QED BY <2>1, <2>2
  <1> HIDE DEF t
  <1>3. c \in Seq(Symbol) /\ Len(c) = Len(b) /\ (\A i \in 1..Len(h) : c[i] = h[i]) /\ \A i \in 1..Len(t) : c[Len(h) + i] = t[i]
    BY <1>1
  <1> HIDE DEF c
  <1>4. ASSUME NEW i \in 1..Len(b) PROVE c[i] = b[i]
    <2>1. CASE i <= Len(h)
      BY <1>1, <1>3, <2>1
    <2>2. CASE i > Len(h)
      <3>1. i - Len(h) \in 1..Len(t) /\ Len(h) + (i - Len(h)) = i
        BY <1>1, <2>2
      <3> QED BY <1>2, <1>3, <3>1
    <2> QED BY <1>1, <2>1, <2>2
  <1>5. c = b
    BY <1>3, <1>4
  <1> QED BY <1>5 DEF c, t

\* The content that is found is the one that the shortest head announces.
LEMMA ContentFound ==
  ASSUME NEW b \in Seq(Symbol), Len(b) >= 8, At(b, 0) = SEQUENCE, ContentStart(b) # 0,
         NEW body, body = SubSeq(b, ContentStart(b) + 1, Len(b)), Len(body) < Base
  PROVE  ContentStart(b) \in Nat /\ ContentStart(b) <= Len(b) /\ b = Headed(body)
  <1> DEFINE first == At(b, 1)
             lengthBytes == first - High
             declared == ValueOf(SubSeq(b, 3, 2 + lengthBytes))
             start == ContentStart(b)
  <1>1. Len(b) \in Nat /\ High \in Nat /\ Base = 2 * High /\ High > 4
    BY BaseIs
  <1>2. b[1] = SEQUENCE /\ first = b[2] /\ first \in Nat /\ first < Base
    <2>1. 2 \in 1..Len(b)
      OBVIOUS
    <2>2. b[2] \in Symbol /\ b[2] \in Nat
      BY <2>1, SymbolAt
    <2> QED BY <2>2, <1>1 DEF At, Symbol
  <1> HIDE DEF first
  <1>3. CASE first < High
    <2>1. 2 + first = Len(b) /\ start = 2
      BY <1>3 DEF ContentStart, first
    <2>2. body = SubSeq(b, 3, Len(b)) /\ Len(body) = first
      BY <1>2, <2>1
    <2>3. Headed(body) = <<b[1], b[2]>> \o body
      BY <1>2, <1>3, <2>2 DEF Headed
    <2>4. b = <<b[1], b[2]>> \o body
      <3> DEFINE h == <<b[1], b[2]>>
      <3>1. b[1] \in Symbol /\ b[2] \in Symbol
        BY <1>1
      <3>2. h \in Seq(Symbol) /\ Len(h) = 2 /\ h[1] = b[1] /\ h[2] = b[2]
        BY <3>1
      <3> HIDE DEF h
      <3>3. Len(h) <= Len(b) /\ \A i \in 1..Len(h) : h[i] = b[i]
        BY <1>1, <3>2
      <3>4. b = h \o SubSeq(b, Len(h) + 1, Len(b))
        BY <3>2, <3>3, Glued
      <3>5. Len(h) + 1 = 3
        BY <3>2
      <3>6. SubSeq(b, Len(h) + 1, Len(b)) = body
        BY <2>2, <3>5, Zenon
      <3> QED BY <3>4, <3>6, Zenon DEF h
    <2>5. b = Headed(body)
      BY <2>3, <2>4, Zenon
    <2> QED BY <1>1, <2>1, <2>5
  <1>4. CASE first >= High
    <2>0. ~(first < High)
      BY <1>1, <1>2, <1>4
    <2>1. /\ lengthBytes \in 1..2 /\ 2 + lengthBytes <= Len(b) /\ Shortest(lengthBytes, declared)
          /\ 2 + lengthBytes + declared = Len(b) /\ start = 2 + lengthBytes
      BY <2>0 DEF ContentStart, first
    <2>2. SubSeq(b, 3, 2 + lengthBytes) \in Seq(Symbol) /\ Len(SubSeq(b, 3, 2 + lengthBytes)) = lengthBytes
      BY <1>1, <2>1
    <2>3. declared \in Nat
      <3> DEFINE d == SubSeq(b, 3, 2 + lengthBytes)
      <3>1. d \in Seq(Symbol) /\ Len(d) \in 0..Len(d)
        BY <2>1, <2>2
      <3> HIDE DEF d
      <3>2. ValueOf(d) \in Nat
        BY <3>1, ValuesAre DEF Values
      <3> QED BY <3>2 DEF d
    <2> HIDE DEF declared
    <2>4. Len(body) = declared
      BY <1>1, <2>1, <2>3
    <2>5. lengthBytes = 1 /\ declared >= High
      BY <1>1, <2>1, <2>3, <2>4 DEF Shortest
    <2>6. first = High + 1 /\ start = 3
      BY <1>1, <1>2, <2>1, <2>5
    <2>7. declared = b[3]
      <3> DEFINE d == SubSeq(b, 3, 2 + lengthBytes)
      <3>1. Len(d) = 1 /\ d[1] = b[3] /\ d \in Seq(Symbol)
        BY <1>1, <2>1, <2>2, <2>5
      <3> HIDE DEF d
      <3>2. ValueOf(d) = b[3]
        BY <3>1, OneDigit
      <3> QED BY <3>2 DEF d, declared
    <2>8. Headed(body) = <<b[1], b[2], b[3]>> \o body
      <3>0. ~(declared < High)
        <4> HIDE DEF lengthBytes
        <4> QED BY <1>1, <2>3, <2>5
      <3>1. ~(Len(body) < High)
        BY <2>4, <3>0, Zenon
      <3>2. Headed(body) = <<SEQUENCE, High + 1, Len(body)>> \o body
        BY <3>1, Zenon DEF Headed
      <3>3. b[2] = High + 1 /\ b[3] = Len(body)
        BY <1>2, <2>4, <2>6, <2>7
      <3> QED BY <1>2, <3>2, <3>3
    <2>9. body = SubSeq(b, 4, Len(b))
      BY <2>6
    <2>10. b = <<b[1], b[2], b[3]>> \o body
      <3> DEFINE h == <<b[1], b[2], b[3]>>
      <3>1. b[1] \in Symbol /\ b[2] \in Symbol /\ b[3] \in Symbol
        BY <1>1
      <3>2. h \in Seq(Symbol) /\ Len(h) = 3 /\ h[1] = b[1] /\ h[2] = b[2] /\ h[3] = b[3]
        BY <3>1
      <3> HIDE DEF h
      <3>3. Len(h) <= Len(b) /\ \A i \in 1..Len(h) : h[i] = b[i]
        BY <1>1, <3>2
      <3>4. b = h \o SubSeq(b, Len(h) + 1, Len(b))
        BY <3>2, <3>3, Glued
      <3>5. Len(h) + 1 = 4
        BY <3>2
      <3>6. SubSeq(b, Len(h) + 1, Len(b)) = body
        BY <2>9, <3>5, Zenon
      <3> QED BY <3>4, <3>6, Zenon DEF h
    <2>11. b = Headed(body)
      BY <2>8, <2>10, Zenon
    <2> QED BY <1>1, <2>6, <2>11
  <1> QED BY <1>1, <1>2, <1>3, <1>4

\* The head that is written is read.
LEMMA HeadRead ==
  ASSUME NEW body \in Seq(Symbol), Len(body) < Base
  PROVE  LET b == Headed(body)
             start == ContentStart(b)
         IN  /\ b \in Seq(Symbol) /\ At(b, 0) = SEQUENCE
             /\ start \in {2, 3} /\ Len(b) = start + Len(body)
             /\ \A i \in 1..Len(body) : b[start + i] = body[i]
  <1> DEFINE b == Headed(body)
             n == Len(body)
  <1>1. n \in Nat /\ High \in Nat /\ Base = 2 * High /\ High > 4 /\ n < Base /\ SEQUENCE \in Symbol
    BY BaseIs, CurveAssumption DEF Symbol
  <1> HIDE DEF n
  <1>2. n \in Symbol /\ High + 1 \in Symbol
    BY <1>1 DEF Symbol
  <1>3. CASE n < High
    <2>1. <<SEQUENCE, n>> \in Seq(Symbol)
      BY <1>1, <1>2
    <2>2. b = <<SEQUENCE, n>> \o body
      BY <1>3 DEF Headed, n
    <2> HIDE DEF b
    <2>3. b \in Seq(Symbol) /\ Len(b) = 2 + n /\ b[1] = SEQUENCE /\ b[2] = n /\ \A i \in 1..n : b[2 + i] = body[i]
      BY <1>1, <2>1, <2>2 DEF n
    <2>4. At(b, 0) = SEQUENCE /\ At(b, 1) = n
      BY <2>3 DEF At
    <2>5. ContentStart(b) = 2
      BY <1>3, <2>3, <2>4 DEF ContentStart
    <2> QED BY <2>3, <2>4, <2>5 DEF b, n
  <1>4. CASE ~(n < High)
    <2>1. <<SEQUENCE, High + 1, n>> \in Seq(Symbol)
      BY <1>1, <1>2
    <2>2. b = <<SEQUENCE, High + 1, n>> \o body
      BY <1>4 DEF Headed, n
    <2> HIDE DEF b
    <2>3. /\ b \in Seq(Symbol) /\ Len(b) = 3 + n /\ b[1] = SEQUENCE /\ b[2] = High + 1 /\ b[3] = n
          /\ \A i \in 1..n : b[3 + i] = body[i]
      BY <1>1, <2>1, <2>2 DEF n
    <2>4. At(b, 0) = SEQUENCE /\ At(b, 1) = High + 1
      BY <2>3 DEF At
    <2> DEFINE lengthBytes == At(b, 1) - High
               d == SubSeq(b, 3, 2 + lengthBytes)
    <2>5. lengthBytes = 1
      BY <1>1, <2>4
    <2>6. d \in Seq(Symbol) /\ Len(d) = 1 /\ d[1] = n
      BY <1>1, <2>3, <2>5
    <2> HIDE DEF d
    <2>7. ValueOf(d) = n
      BY <2>6, OneDigit
    <2>8. Shortest(lengthBytes, ValueOf(d)) /\ ~(At(b, 1) < High) /\ lengthBytes \in 1..2 /\ ~(2 + lengthBytes > Len(b))
          /\ 2 + lengthBytes + ValueOf(d) = Len(b) /\ 2 + lengthBytes = 3
      BY <1>1, <1>4, <2>3, <2>4, <2>5, <2>7 DEF Shortest
    <2>9. ContentStart(b) = 2 + lengthBytes
      BY <2>8, Zenon DEF ContentStart, d
    <2>10. ContentStart(b) = 3
      BY <2>5, <2>9
    <2> QED BY <2>3, <2>4, <2>10 DEF b, n
  <1> QED BY <1>3, <1>4

LEMMA Joining ==
  ASSUME NEW p \in Seq(Symbol), NEW q \in Seq(Symbol)
  PROVE  /\ p \o q \in Seq(Symbol) /\ Len(p \o q) = Len(p) + Len(q)
         /\ \A k \in 1..Len(p) : (p \o q)[k] = p[k]
         /\ \A k \in 1..Len(q) : (p \o q)[Len(p) + k] = q[k]
  OBVIOUS

LEMMA CutIs ==
  ASSUME NEW b \in Seq(Symbol), NEW from \in Nat, NEW to \in Nat, from <= to, to <= Len(b)
  PROVE  /\ SubSeq(b, from + 1, to) \in Seq(Symbol) /\ Len(SubSeq(b, from + 1, to)) = to - from
         /\ \A k \in 1..to - from : SubSeq(b, from + 1, to)[k] = b[from + k]
  <1> DEFINE w == SubSeq(b, from + 1, to)
  <1>1. w \in Seq(Symbol) /\ Len(w) = to - from
    OBVIOUS
  <1>2. ASSUME NEW k \in 1..to - from PROVE w[k] = b[from + k]
    <2>1. (from + 1) + k - 1 = from + k
      OBVIOUS
    <2>2. w[k] = b[(from + 1) + k - 1]
      OBVIOUS
    <2> QED BY <2>1, <2>2
  <1> QED BY <1>1, <1>2

LEMMA Parted ==
  ASSUME NEW b \in Seq(Symbol), NEW i \in Nat, NEW j \in Nat, i <= j, j <= Len(b)
  PROVE  SubSeq(b, i + 1, Len(b)) = SubSeq(b, i + 1, j) \o SubSeq(b, j + 1, Len(b))
  <1> DEFINE w == SubSeq(b, i + 1, Len(b))
             p == SubSeq(b, i + 1, j)
             q == SubSeq(b, j + 1, Len(b))
             c == p \o q
  <1>0. Len(b) \in Nat /\ i <= Len(b)
    OBVIOUS
  <1>1. w \in Seq(Symbol) /\ Len(w) = Len(b) - i /\ \A k \in 1..Len(b) - i : w[k] = b[i + k]
    BY <1>0, CutIs
  <1>2. p \in Seq(Symbol) /\ Len(p) = j - i /\ \A k \in 1..j - i : p[k] = b[i + k]
    BY <1>0, CutIs
  <1>3. q \in Seq(Symbol) /\ Len(q) = Len(b) - j /\ \A k \in 1..Len(b) - j : q[k] = b[j + k]
    BY <1>0, CutIs
  <1> HIDE DEF w, p, q
  <1>4. /\ c \in Seq(Symbol) /\ Len(c) = Len(w)
        /\ \A k \in 1..Len(p) : c[k] = p[k]
        /\ \A k \in 1..Len(q) : c[Len(p) + k] = q[k]
    <2>1. /\ p \o q \in Seq(Symbol) /\ Len(p \o q) = Len(p) + Len(q)
          /\ \A k \in 1..Len(p) : (p \o q)[k] = p[k]
          /\ \A k \in 1..Len(q) : (p \o q)[Len(p) + k] = q[k]
      BY <1>2, <1>3, Joining
    <2>2. Len(p) + Len(q) = Len(w)
      <3>1. Len(w) = Len(b) - i /\ Len(p) = j - i /\ Len(q) = Len(b) - j
        BY <1>1, <1>2, <1>3
      <3> QED BY <1>0, <3>1
    <2> QED BY <2>1, <2>2, Zenon
  <1> HIDE DEF c
  <1>5. ASSUME NEW k \in 1..Len(w) PROVE c[k] = w[k]
    <2>0. k \in Nat /\ k >= 1 /\ k <= Len(b) - i /\ Len(p) = j - i /\ Len(q) = Len(b) - j /\ k \in 1..Len(b) - i
      <3>1. Len(w) = Len(b) - i /\ Len(p) = j - i /\ Len(q) = Len(b) - j
        BY <1>1, <1>2, <1>3
      <3> QED BY <1>0, <3>1
    <2>1. CASE k <= j - i
      <3>1. k \in 1..Len(p) /\ k \in 1..j - i
        BY <2>0, <2>1
      <3> QED BY <1>1, <1>2, <1>4, <2>0, <3>1
    <2>2. CASE k > j - i
      <3> DEFINE x == k - (j - i)
      <3>2. x \in 1..Len(q) /\ x \in 1..Len(b) - j /\ Len(p) + x = k /\ j + x = i + k
        BY <1>0, <2>0, <2>2
      <3> HIDE DEF x
      <3>3. c[Len(p) + x] = q[x] /\ q[x] = b[j + x] /\ w[k] = b[i + k]
        BY <1>1, <1>3, <1>4, <2>0, <3>2
      <3> QED BY <3>2, <3>3, Zenon
    <2> QED BY <2>0, <2>1, <2>2
  <1>6. c = w
    <2>1. c \in Seq(Symbol) /\ w \in Seq(Symbol) /\ Len(c) = Len(w)
      BY <1>1, <1>4
    <2> QED BY <1>5, <2>1
  <1> QED BY <1>6 DEF c, w, p, q

\* The two integers of a signature.
Body(r, s) == Integer_(r) \o Integer_(s)

LEMMA BodyIs ==
  ASSUME NEW r \in 1..Order - 1, NEW s \in 1..Order - 1
  PROVE  /\ Body(r, s) \in Seq(Symbol) /\ Len(Body(r, s)) = Len(Integer_(r)) + Len(Integer_(s))
         /\ Len(Body(r, s)) >= 6 /\ Len(Body(r, s)) < Base
         /\ \A i \in 1..Len(Integer_(r)) : Body(r, s)[i] = Integer_(r)[i]
         /\ \A i \in 1..Len(Integer_(s)) : Body(r, s)[Len(Integer_(r)) + i] = Integer_(s)[i]
  <1> DEFINE e == Integer_(r)
             f == Integer_(s)
  <1>1. e \in Seq(Symbol) /\ Len(e) \in 3..Size + 3
    BY IntegerIs
  <1>2. f \in Seq(Symbol) /\ Len(f) \in 3..Size + 3
    BY IntegerIs
  <1>3. Body(r, s) = e \o f
    BY DEF Body
  <1> HIDE DEF e, f
  <1>4. /\ e \o f \in Seq(Symbol) /\ Len(e \o f) = Len(e) + Len(f)
        /\ \A i \in 1..Len(e) : (e \o f)[i] = e[i]
        /\ \A i \in 1..Len(f) : (e \o f)[Len(e) + i] = f[i]
    BY <1>1, <1>2
  <1>5. Len(e) + Len(f) >= 6 /\ Len(e) + Len(f) < Base
    BY <1>1, <1>2, BaseIs
  <1> QED BY <1>3, <1>4, <1>5 DEF e, f

\* The fixed-width form of two numbers, and its halves.
Fixed(r, s) == ToFixedWidth(r) \o ToFixedWidth(s)

LEMMA HalvesAre ==
  ASSUME NEW r \in 1..Order - 1, NEW s \in 1..Order - 1
  PROVE  /\ SubSeq(Fixed(r, s), 1, Size) = ToFixedWidth(r) /\ SubSeq(Fixed(r, s), Size + 1, 2 * Size) = ToFixedWidth(s)
         /\ P1363ToDer(Fixed(r, s)) = Headed(Body(r, s))
         /\ Fixed(r, s) # <<>>
  <1> DEFINE d == ToFixedWidth(r)
             e == ToFixedWidth(s)
             f == Fixed(r, s)
  <1>1. d \in Seq(Symbol) /\ Len(d) = Size /\ e \in Seq(Symbol) /\ Len(e) = Size
    BY FixedWidth
  <1>2. Size \in Nat \ {0}
    BY BaseIs
  <1>3. f = d \o e
    BY DEF Fixed
  <1> HIDE DEF d, e, f
  <1>4. /\ f \in Seq(Symbol) /\ Len(f) = 2 * Size
        /\ (\A i \in 1..Size : f[i] = d[i]) /\ \A i \in 1..Size : f[Size + i] = e[i]
    <2>1. /\ d \o e \in Seq(Symbol) /\ Len(d \o e) = Len(d) + Len(e)
          /\ \A k \in 1..Len(d) : (d \o e)[k] = d[k]
          /\ \A k \in 1..Len(e) : (d \o e)[Len(d) + k] = e[k]
      BY <1>1, Joining
    <2>2. Size + Size = 2 * Size
      BY <1>2
    <2> QED BY <1>1, <1>3, <2>1, <2>2, Zenon
  <1>5. SubSeq(f, 1, Size) = d
    <2> DEFINE g == SubSeq(f, 1, Size)
    <2>1. g \in Seq(Symbol) /\ Len(g) = Size
      BY <1>2, <1>4
    <2>2. ASSUME NEW i \in 1..Size PROVE g[i] = d[i]
      BY <1>2, <1>4
    <2> HIDE DEF g
    <2>3. g = d
      BY <1>1, <2>1, <2>2
    <2> QED BY <2>3 DEF g
  <1>6. SubSeq(f, Size + 1, 2 * Size) = e
    <2> DEFINE g == SubSeq(f, Size + 1, 2 * Size)
    <2>1. g \in Seq(Symbol) /\ Len(g) = Size
      BY <1>2, <1>4
    <2>2. ASSUME NEW i \in 1..Size PROVE g[i] = e[i]
      <3>1. (Size + 1) + i - 1 = Size + i
        BY <1>2
      <3>2. g[i] = f[(Size + 1) + i - 1]
        BY <1>2, <1>4
      <3> QED BY <1>4, <3>1, <3>2
    <2> HIDE DEF g
    <2>3. g = e
      BY <1>1, <2>1, <2>2
    <2> QED BY <2>3 DEF g
  <1>7. f # <<>>
    BY <1>2, <1>4
  <1>8. P1363ToDer(f) = Headed(Body(r, s))
    BY <1>5, <1>6, Zenon DEF P1363ToDer, Headed, Body, Integer_, d, e
  <1> QED BY <1>5, <1>6, <1>7, <1>8 DEF d, e, f

LEMMA ContentLies ==
  ASSUME NEW b \in Seq(Symbol), Len(b) >= 8
  PROVE  ContentStart(b) \in {0, 2, 3, 4}
  <1> DEFINE lengthBytes == At(b, 1) - High
             declared == ValueOf(SubSeq(b, 3, 2 + lengthBytes))
  <1>1. ContentStart(b) \in {0, 2} \/ (lengthBytes \in 1..2 /\ ContentStart(b) = 2 + lengthBytes)
    <2> HIDE DEF declared
    <2> QED BY DEF ContentStart, declared
  <1> HIDE DEF lengthBytes
  <1> QED BY <1>1

LEMMA EncodedOnce == input \in Seq(Symbol) => OneEncoding
  <1> SUFFICES ASSUME input \in Seq(Symbol), DerToP1363(input) # None PROVE OneEncoding
    BY DEF OneEncoding
  <1> DEFINE start == ContentStart(input)
             p == ReadInteger(input, start)
             q == ReadInteger(input, p.next)
             r == p.value
             s == q.value
  <1>1. Len(input) >= 8 /\ At(input, 0) = SEQUENCE /\ start # 0
    <2>1. Len(input) \in Nat
      OBVIOUS
    <2> QED BY <2>1 DEF DerToP1363
  <1>2. /\ p.ok /\ q.ok /\ q.next = Len(input) /\ InRange(r) /\ InRange(s)
        /\ DerToP1363(input) = ToFixedWidth(r) \o ToFixedWidth(s)
    BY <1>1, Zenon DEF DerToP1363
  <1>3. start \in Nat /\ start <= Len(input)
    <2> HIDE DEF start
    <2>1. start \in {2, 3, 4}
      BY <1>1, ContentLies DEF start
    <2> QED BY <1>1, <2>1
  <1>4. r \in 1..Order - 1 /\ s \in 1..Order - 1
    BY <1>2 DEF InRange
  <1> HIDE DEF start
  <1>5. p.next \in start + 3..Len(input) /\ SubSeq(input, start + 1, p.next) = Integer_(r)
    BY <1>2, <1>3, <1>4, IntegerRead
  <1>6. p.next \in Nat /\ start <= p.next /\ p.next <= Len(input)
    BY <1>3, <1>5
  <1>7. SubSeq(input, p.next + 1, q.next) = Integer_(s)
    <2> DEFINE k == p.next
    <2>1. k \in Nat /\ ReadInteger(input, k).ok /\ s = ReadInteger(input, k).value
      BY <1>2, <1>6
    <2> HIDE DEF k, p
    <2>2. SubSeq(input, k + 1, ReadInteger(input, k).next) = Integer_(s)
      BY <1>4, <2>1, IntegerRead
    <2> QED BY <2>2 DEF k
  <1> HIDE DEF p, q
  <1>8. SubSeq(input, start + 1, Len(input)) = Body(r, s)
    <2>1. SubSeq(input, start + 1, Len(input)) = SubSeq(input, start + 1, p.next) \o SubSeq(input, p.next + 1, Len(input))
      BY <1>3, <1>6, Parted
    <2> QED BY <1>2, <1>5, <1>7, <2>1, Zenon DEF Body
  <1> HIDE DEF r, s
  <1>9. input = Headed(Body(r, s))
    <2>1. Len(Body(r, s)) < Base
      BY <1>4, BodyIs
    <2> QED BY <1>1, <1>8, <2>1, ContentFound DEF start
  <1>10. DerToP1363(input) = Fixed(r, s)
    BY <1>2 DEF Fixed
  <1> DEFINE half(i) == ValueOf(SubSeq(Fixed(r, s), i * Size + 1, (i + 1) * Size)) % Order
  <1>11. half(0) = r /\ half(1) = s
    <2>1. Size \in Nat /\ Order \in Nat
      BY BaseIs, CurveAssumption
    <2>2. 0 * Size + 1 = 1 /\ (0 + 1) * Size = Size /\ 1 * Size + 1 = Size + 1 /\ (1 + 1) * Size = 2 * Size
      BY <2>1
    <2>3. ValueOf(ToFixedWidth(r)) = r /\ ValueOf(ToFixedWidth(s)) = s
      BY <1>4, FixedWidth
    <2>4. r % Order = r /\ s % Order = s
      BY <1>4, <2>1
    <2>5. half(0) = ValueOf(SubSeq(Fixed(r, s), 1, Size)) % Order /\ half(1) = ValueOf(SubSeq(Fixed(r, s), Size + 1, 2 * Size)) % Order
      BY <2>2, Zenon
    <2>6. SubSeq(Fixed(r, s), 1, Size) = ToFixedWidth(r) /\ SubSeq(Fixed(r, s), Size + 1, 2 * Size) = ToFixedWidth(s)
      BY <1>4, HalvesAre
    <2> QED BY <2>3, <2>4, <2>5, <2>6, Zenon
  <1>12. r # 0 /\ s # 0 /\ P1363ToDer(Fixed(r, s)) = Headed(Body(r, s))
    <2>1. Order \in Nat
      BY CurveAssumption
    <2> QED BY <1>4, <2>1, HalvesAre
  <1>13. half(0) # 0 /\ half(1) # 0 /\ input = P1363ToDer(ToFixedWidth(half(0)) \o ToFixedWidth(half(1)))
    <2> HIDE DEF half
    <2> QED BY <1>9, <1>11, <1>12, Zenon DEF Fixed
  <1> QED BY <1>10, <1>13, Zenon DEF OneEncoding

LEMMA AllAreRead == EverySignatureIsRead
  <1> SUFFICES ASSUME NEW r \in 1..Order - 1, NEW s \in 1..Order - 1
               PROVE  DerToP1363(P1363ToDer(Fixed(r, s))) = Fixed(r, s)
    BY DEF EverySignatureIsRead, Fixed
  <1> DEFINE body == Body(r, s)
             b == Headed(body)
             start == ContentStart(b)
             m == Len(Integer_(r))
             n == Len(Integer_(s))
  <1>1. /\ body \in Seq(Symbol) /\ Len(body) = m + n /\ Len(body) >= 6 /\ Len(body) < Base
        /\ \A i \in 1..m : body[i] = Integer_(r)[i]
        /\ \A i \in 1..n : body[m + i] = Integer_(s)[i]
    BY BodyIs
  <1>2. Integer_(r) \in Seq(Symbol) /\ Integer_(s) \in Seq(Symbol)
    BY IntegerIs
  <1> HIDE DEF body
  <1>3. /\ b \in Seq(Symbol) /\ At(b, 0) = SEQUENCE
        /\ start \in {2, 3} /\ Len(b) = start + Len(body)
        /\ \A i \in 1..Len(body) : b[start + i] = body[i]
    BY <1>1, HeadRead
  <1> HIDE DEF b, start
  <1>4. m \in Nat /\ n \in Nat /\ start \in Nat /\ start # 0 /\ Len(b) \in Nat /\ Len(b) >= 8 /\ Len(b) = (start + m) + n
    BY <1>1, <1>2, <1>3
  <1> HIDE DEF m, n
  <1>5. SubSeq(b, start + 1, start + m) = Integer_(r)
    <2> DEFINE g == SubSeq(b, start + 1, start + m)
               e == Integer_(r)
    <2>1. g \in Seq(Symbol) /\ Len(g) = m /\ \A i \in 1..m : g[i] = b[start + i]
      <3> DEFINE to == start + m
      <3>1. to \in Nat /\ start <= to /\ to <= Len(b) /\ to - start = m
        BY <1>4
      <3> HIDE DEF to
      <3>2. /\ SubSeq(b, start + 1, to) \in Seq(Symbol) /\ Len(SubSeq(b, start + 1, to)) = to - start
            /\ \A k \in 1..to - start : SubSeq(b, start + 1, to)[k] = b[start + k]
        BY <1>3, <1>4, <3>1, CutIs
      <3> QED BY <3>1, <3>2 DEF to
    <2>2. e \in Seq(Symbol) /\ Len(e) = m
      BY <1>2 DEF m
    <2>3. \A i \in 1..m : body[i] = e[i]
      BY <1>1
    <2> HIDE DEF g, e
    <2>4. ASSUME NEW i \in 1..m PROVE g[i] = e[i]
      <3>1. i \in 1..Len(body)
        BY <1>1, <1>4
      <3> QED BY <1>3, <2>1, <2>3, <3>1
    <2>5. g = e
      BY <2>1, <2>2, <2>4
    <2> QED BY <2>5 DEF g, e
  <1>6. SubSeq(b, (start + m) + 1, (start + m) + n) = Integer_(s)
    <2> DEFINE from == start + m
               g == SubSeq(b, from + 1, from + n)
               e == Integer_(s)
    <2>0. from \in Nat /\ from + n = Len(b)
      BY <1>4
    <2>1. g \in Seq(Symbol) /\ Len(g) = n /\ \A i \in 1..n : g[i] = b[from + i]
      <3> DEFINE to == from + n
      <3> HIDE DEF from
      <3>1. to \in Nat /\ from <= to /\ to <= Len(b) /\ to - from = n
        BY <1>4, <2>0
      <3> HIDE DEF to
      <3>2. /\ SubSeq(b, from + 1, to) \in Seq(Symbol) /\ Len(SubSeq(b, from + 1, to)) = to - from
            /\ \A k \in 1..to - from : SubSeq(b, from + 1, to)[k] = b[from + k]
        BY <1>3, <2>0, <3>1, CutIs
      <3> QED BY <3>1, <3>2 DEF to
    <2>2. e \in Seq(Symbol) /\ Len(e) = n
      BY <1>2 DEF n
    <2>3. \A i \in 1..n : body[m + i] = e[i]
      BY <1>1
    <2> HIDE DEF g, e
    <2>4. ASSUME NEW i \in 1..n PROVE g[i] = e[i]
      <3>1. m + i \in 1..Len(body) /\ start + (m + i) = from + i
        BY <1>1, <1>4
      <3>2. b[start + (m + i)] = body[m + i]
        BY <1>3, <3>1
      <3> HIDE DEF from
      <3> QED BY <2>1, <2>3, <3>1, <3>2
    <2>5. g = e
      BY <2>1, <2>2, <2>4
    <2> QED BY <2>5 DEF g, e
  <1> DEFINE p == ReadInteger(b, start)
             q == ReadInteger(b, p.next)
  <1>7. p = [ok |-> TRUE, value |-> r, next |-> start + m]
    <2>1. start + m <= Len(b)
      BY <1>4
    <2> QED BY <1>3, <1>4, <1>5, <2>1, IntegerIsRead DEF m
  <1> HIDE DEF p
  <1>8. p.ok /\ p.value = r /\ p.next = start + m
    BY <1>7
  <1>9. ReadInteger(b, start + m) = [ok |-> TRUE, value |-> s, next |-> (start + m) + n]
    <2> DEFINE k == start + m
    <2>1. k \in Nat /\ k + n <= Len(b) /\ SubSeq(b, k + 1, k + n) = Integer_(s)
      BY <1>4, <1>6
    <2> HIDE DEF k
    <2>2. ReadInteger(b, k) = [ok |-> TRUE, value |-> s, next |-> k + n]
      BY <1>3, <2>1, IntegerIsRead DEF n
    <2> QED BY <2>2 DEF k
  <1>10. q.ok /\ q.value = s /\ q.next = Len(b)
    <2>1. q = [ok |-> TRUE, value |-> s, next |-> (start + m) + n]
      BY <1>8, <1>9, Zenon
    <2> HIDE DEF q
    <2> QED BY <1>4, <2>1
  <1> HIDE DEF q
  <1>11. InRange(r) /\ InRange(s) /\ FitsTheWidth(r) /\ FitsTheWidth(s)
    BY FixedWidth DEF InRange
  <1>12. \A value \in {p.value, q.value} : InRange(value) /\ FitsTheWidth(value)
    BY <1>8, <1>10, <1>11
  <1>13. ~(Len(b) < 8)
    BY <1>4
  <1>14. DerToP1363(b) = ToFixedWidth(p.value) \o ToFixedWidth(q.value)
    BY <1>3, <1>4, <1>8, <1>10, <1>12, <1>13, Zenon DEF DerToP1363, p, q, start
  <1>15. DerToP1363(b) = Fixed(r, s)
    BY <1>8, <1>10, <1>14, Zenon DEF Fixed
  <1>16. P1363ToDer(Fixed(r, s)) = b
    BY HalvesAre DEF b, body
  <1> QED BY <1>15, <1>16

----------------------------------------------------------------------------
(* Object identifiers                                                      *)

Flat(parts) == DO!S!FlattenSeq(parts)

LEMMA Join ==
  ASSUME NEW p \in Seq(Bytes), NEW q \in Seq(Bytes)
  PROVE  /\ p \o q \in Seq(Bytes) /\ Len(p \o q) = Len(p) + Len(q)
         /\ \A k \in 1..Len(p) : (p \o q)[k] = p[k]
         /\ \A k \in 1..Len(q) : (p \o q)[Len(p) + k] = q[k]
  OBVIOUS

LEMMA JoinJoin ==
  ASSUME NEW p \in Seq(Bytes), NEW q \in Seq(Bytes), NEW r \in Seq(Bytes)
  PROVE  (p \o q) \o r = p \o (q \o r)
  OBVIOUS

\* The parts one after the other.
Beside(t, parts) ==
  /\ t \in [0..Len(parts) -> Seq(Bytes)] /\ t[0] = <<>>
  /\ \A i \in 1..Len(parts) : t[i] = t[i - 1] \o parts[i]

LEMMA FlatIs ==
  ASSUME NEW parts \in Seq(Seq(Bytes))
  PROVE  \E t : Beside(t, parts) /\ Flat(parts) = t[Len(parts)]
  <1> DEFINE n == Len(parts)
             F == [i \in Nat |-> [x \in Seq(Bytes) |-> IF i \in 1..n THEN x \o parts[i] ELSE x]]
             W == Seq(Bytes)
  <1>1. n \in Nat /\ \A i \in 1..n : parts[i] \in Seq(Bytes)
    OBVIOUS
  <1> HIDE DEF n
  <1>2. F \in [Nat -> [W -> W]]
    BY <1>1, Join
  <1>3. <<>> \in W
    OBVIOUS
  <1> HIDE DEF F, W
  <1>4. PICK t : Follows(t, W, <<>>, F, n)
    BY <1>1, <1>2, <1>3, RowExists
  <1>5. t \in [0..n -> Seq(Bytes)] /\ t[0] = <<>>
    BY <1>4 DEF Follows, W
  <1>6. ASSUME NEW i \in 1..n PROVE t[i] = t[i - 1] \o parts[i] /\ t[i - 1] \in Seq(Bytes)
    <2>1. i - 1 \in 0..n /\ i \in Nat
      BY <1>1
    <2>2. t[i - 1] \in Seq(Bytes)
      BY <1>5, <2>1
    <2>3. F[i][t[i - 1]] = t[i - 1] \o parts[i]
      BY <2>1, <2>2 DEF F
    <2>4. t[i] = F[i][t[i - 1]]
      BY <1>4 DEF Follows
    <2> QED BY <2>2, <2>3, <2>4
  <1>7. Beside(t, parts)
    BY <1>5, <1>6 DEF Beside, n
  <1>8. Flat(parts) = t[n]
    <2>1. CASE n = 0
      <3>1. parts = <<>> /\ Flat(parts) = parts
        BY <2>1 DEF Flat, DO!S!FlattenSeq, n
      <3> QED BY <1>5, <2>1, <3>1
    <2>2. CASE n # 0
      <3> DEFINE u == [i \in 1..n |-> t[i]]
                 flatten == CHOOSE g : g = [i \in 1..n |-> IF i = 1 THEN parts[i] ELSE g[i - 1] \o parts[i]]
      <3>1. ASSUME NEW i \in 1..n PROVE u[i] = IF i = 1 THEN parts[i] ELSE u[i - 1] \o parts[i]
        <4>1. u[i] = t[i] /\ t[i] = t[i - 1] \o parts[i]
          BY <1>6
        <4>2. CASE i = 1
          <5>1. t[i - 1] = <<>>
            BY <1>5, <4>2
          <5>2. <<>> \o parts[i] = parts[i]
            BY <1>1
          <5> QED BY <4>1, <4>2, <5>1, <5>2
        <4>3. CASE i # 1
          <5>1. u[i - 1] = t[i - 1]
            BY <1>1, <4>3
          <5> QED BY <4>1, <4>3, <5>1
        <4> QED BY <4>2, <4>3
      <3>2. u = [i \in 1..n |-> IF i = 1 THEN parts[i] ELSE u[i - 1] \o parts[i]]
        <4>1. u = [i \in 1..n |-> u[i]]
          OBVIOUS
        <4> HIDE DEF u
        <4> QED BY <3>1, <4>1
      <3>3. flatten = [i \in 1..n |-> IF i = 1 THEN parts[i] ELSE flatten[i - 1] \o parts[i]]
        <4> HIDE DEF u
        <4> QED BY <3>2
      <3>4. Flat(parts) = flatten[n]
        BY <2>2, Zenon DEF Flat, DO!S!FlattenSeq, n
      <3> HIDE DEF flatten, u
      <3>5. ASSUME NEW i \in 1..n PROVE flatten[i] = IF i = 1 THEN parts[i] ELSE flatten[i - 1] \o parts[i]
        BY <3>3
      <3> DEFINE Equal == {i \in Nat : i + 1 <= n => flatten[i + 1] = t[i + 1]}
      <3>6. 0 \in Equal
        <4>1. 1 \in 1..n
          BY <1>1, <2>2
        <4>2. flatten[1] = parts[1] /\ t[1] = t[1 - 1] \o parts[1] /\ parts[1] \in Seq(Bytes)
          BY <1>1, <1>6, <3>5, <4>1
        <4>3. t[1 - 1] = <<>> /\ <<>> \o parts[1] = parts[1]
          BY <1>5, <4>2
        <4>4. flatten[1] = t[1]
          BY <4>2, <4>3
        <4> QED BY <4>4
      <3>7. ASSUME NEW i \in Nat, i \in Equal, (i + 1) + 1 <= n PROVE flatten[(i + 1) + 1] = t[(i + 1) + 1]
        <4> DEFINE k == i + 1
        <4>1. k + 1 \in 1..n /\ k + 1 # 1 /\ (k + 1) - 1 = k /\ flatten[k] = t[k]
          BY <1>1, <3>7
        <4> HIDE DEF k
        <4>2. flatten[k + 1] = flatten[k] \o parts[k + 1] /\ t[k + 1] = t[k] \o parts[k + 1]
          BY <1>6, <3>5, <4>1
        <4> QED BY <4>1, <4>2 DEF k
      <3>8. Nat \subseteq Equal
        <4>1. \A i \in Nat : i \in Equal => i + 1 \in Equal
          BY <3>7
        <4> HIDE DEF Equal
        <4> QED BY <3>6, <4>1, Induction
      <3>9. n - 1 \in Nat /\ (n - 1) + 1 = n
        BY <1>1, <2>2
      <3>10. flatten[n] = t[n]
        BY <3>8, <3>9
      <3> QED BY <3>4, <3>10
    <2> QED BY <2>1, <2>2
  <1> QED BY <1>7, <1>8 DEF n

LEMMA FlatLonger ==
  ASSUME NEW parts \in Seq(Seq(Bytes)), NEW part \in Seq(Bytes)
  PROVE  Flat(parts) \in Seq(Bytes) /\ Flat(Append(parts, part)) = Flat(parts) \o part
  <1> DEFINE more == Append(parts, part)
             n == Len(parts)
  <1>1. more \in Seq(Seq(Bytes)) /\ Len(more) = n + 1 /\ n \in Nat /\ more[n + 1] = part /\ \A i \in 1..n : more[i] = parts[i]
    OBVIOUS
  <1> HIDE DEF more
  <1>2. PICK t : Beside(t, parts) /\ Flat(parts) = t[Len(parts)]
    BY FlatIs
  <1>3. PICK u : Beside(u, more) /\ Flat(more) = u[Len(more)]
    BY <1>1, FlatIs
  <1>4. /\ t \in [0..n -> Seq(Bytes)] /\ t[0] = <<>> /\ Flat(parts) = t[n]
        /\ \A i \in 1..n : t[i] = t[i - 1] \o parts[i]
    BY <1>2 DEF Beside
  <1>5. /\ u[0] = <<>> /\ Flat(more) = u[n + 1]
        /\ \A i \in 1..n + 1 : u[i] = u[i - 1] \o more[i]
    BY <1>1, <1>3 DEF Beside
  <1> HIDE DEF n
  <1> DEFINE Equal == {i \in Nat : i <= n => u[i] = t[i]}
  <1>6. 0 \in Equal
    BY <1>4, <1>5
  <1>7. ASSUME NEW i \in Nat, i \in Equal, i + 1 <= n PROVE u[i + 1] = t[i + 1]
    <2>1. i + 1 \in 1..n /\ i + 1 \in 1..n + 1 /\ (i + 1) - 1 = i /\ u[i] = t[i]
      BY <1>1, <1>7
    <2>2. u[i + 1] = u[i] \o more[i + 1] /\ t[i + 1] = t[i] \o parts[i + 1] /\ more[i + 1] = parts[i + 1]
      BY <1>1, <1>4, <1>5, <2>1
    <2> QED BY <2>1, <2>2
  <1>8. n \in Equal
    <2>1. \A i \in Nat : i \in Equal => i + 1 \in Equal
      BY <1>7
    <2> HIDE DEF Equal
    <2> QED BY <1>1, <1>6, <2>1, Induction
  <1>9. u[n] = t[n] /\ u[n + 1] = u[n] \o part /\ t[n] \in Seq(Bytes)
    <2>1. n + 1 \in 1..n + 1 /\ (n + 1) - 1 = n /\ n \in 0..n
      BY <1>1
    <2>2. u[n + 1] = u[n] \o more[n + 1]
      BY <1>5, <2>1
    <2> QED BY <1>1, <1>4, <1>8, <2>1, <2>2
  <1> QED BY <1>4, <1>5, <1>9 DEF more

\* A number in base 128: every byte but the last has the continuation bit.
Marked(h) == [i \in DOMAIN h |-> IF i = Len(h) THEN (h[i] % 128) + 128 ELSE h[i]]
Spelling(n, f) == IF n < 128 THEN <<n>> ELSE Marked(f[n \div 128]) \o <<n % 128>>
Spells128(f) == /\ f \in [0..LargestArc -> Seq(Bytes)]
                /\ \A n \in 0..LargestArc : f[n] = Spelling(n, f)

LEMMA ByteIs ==
  /\ \A b \in Bytes : /\ b \in Nat /\ b % 128 \in 0..127 /\ b % 128 \in Bytes /\ (b % 128) + 128 \in Bytes
                      /\ b < 128 => b % 128 = b
                      /\ b >= 128 => (b % 128) + 128 = b
  /\ \A n \in Nat : n < 128 => n \in Bytes
  BY DEF Bytes

LEMMA MarkedBytes ==
  ASSUME NEW h \in Seq(Bytes)
  PROVE  Marked(h) \in Seq(Bytes)
  <1>1. ASSUME NEW i \in 1..Len(h) PROVE (IF i = Len(h) THEN (h[i] % 128) + 128 ELSE h[i]) \in Bytes
    <2>1. h[i] \in Bytes
      OBVIOUS
    <2> QED BY <2>1, ByteIs
  <1>2. DOMAIN h = 1..Len(h) /\ Len(h) \in Nat
    OBVIOUS
  <1>3. Marked(h) \in [1..Len(h) -> Bytes]
    BY <1>1, <1>2 DEF Marked
  <1> HIDE DEF Marked
  <1> QED BY <1>2, <1>3

LEMMA MarkedLast ==
  ASSUME NEW h \in Seq(Bytes), NEW x \in Bytes
  PROVE  Marked(h \o <<x>>) = h \o <<(x % 128) + 128>>
  <1> DEFINE y == (x % 128) + 128
             c == h \o <<x>>
             d == h \o <<y>>
  <1>1. y \in Bytes
    BY ByteIs
  <1> HIDE DEF y
  <1>2. <<x>> \in Seq(Bytes) /\ <<y>> \in Seq(Bytes) /\ Len(h) \in Nat
    BY <1>1
  <1>3. /\ c \in Seq(Bytes) /\ Len(c) = Len(h) + 1 /\ c[Len(h) + 1] = x /\ \A i \in 1..Len(h) : c[i] = h[i]
    BY <1>2
  <1>4. /\ d \in Seq(Bytes) /\ Len(d) = Len(h) + 1 /\ d[Len(h) + 1] = y /\ \A i \in 1..Len(h) : d[i] = h[i]
    BY <1>2
  <1> HIDE DEF c, d
  <1> DEFINE m == Marked(c)
  <1>5. m \in Seq(Bytes)
    BY <1>3, MarkedBytes
  <1>6. DOMAIN c = 1..Len(h) + 1
    BY <1>3
  <1>7. m = [i \in 1..Len(h) + 1 |-> IF i = Len(c) THEN (c[i] % 128) + 128 ELSE c[i]]
    BY <1>6, Zenon DEF Marked
  <1> HIDE DEF m
  <1>8. Len(m) = Len(h) + 1
    BY <1>2, <1>5, <1>7
  <1>9. ASSUME NEW i \in 1..Len(h) + 1 PROVE m[i] = d[i]
    <2>1. CASE i = Len(h) + 1
      <3>1. m[i] = (x % 128) + 128
        BY <1>3, <1>7, <2>1
      <3> QED BY <1>4, <2>1, <3>1 DEF y
    <2>2. CASE i # Len(h) + 1
      <3>1. i \in 1..Len(h) /\ i # Len(c)
        BY <1>2, <1>3, <2>2
      <3>2. m[i] = c[i]
        BY <1>7, <3>1
      <3> QED BY <1>3, <1>4, <3>1, <3>2
    <2> QED BY <2>1, <2>2
  <1>10. m = d
    BY <1>4, <1>5, <1>8, <1>9
  <1> QED BY <1>10 DEF m, c, d, y

LEMMA SpellingIs ==
  ASSUME NEW n \in Nat, NEW f, n >= 128 => f[n \div 128] \in Seq(Bytes)
  PROVE  Spelling(n, f) \in Seq(Bytes)
  <1>1. CASE n < 128
    <2>1. n \in Bytes
      BY <1>1, ByteIs
    <2>2. <<n>> \in Seq(Bytes)
      BY <2>1
    <2> QED BY <1>1, <2>2 DEF Spelling
  <1>2. CASE ~(n < 128)
    <2>1. Marked(f[n \div 128]) \in Seq(Bytes)
      <3>1. f[n \div 128] \in Seq(Bytes)
        BY <1>2
      <3> DEFINE h == f[n \div 128]
      <3> HIDE DEF h
      <3>2. Marked(h) \in Seq(Bytes)
        BY <3>1, MarkedBytes DEF h
      <3> QED BY <3>2 DEF h
    <2>2. n % 128 \in Bytes
      BY DEF Bytes
    <2>3. <<n % 128>> \in Seq(Bytes)
      BY <2>2
    <2>4. Marked(f[n \div 128]) \o <<n % 128>> \in Seq(Bytes)
      BY <2>1, <2>3, Join
    <2> QED BY <1>2, <2>4, Zenon DEF Spelling
  <1> QED BY <1>1, <1>2

\* Such a table exists: a number is spelled with one that is smaller.
Spellings(f, m) == f \in [0..m -> Seq(Bytes)] /\ \A n \in 0..m : f[n] = Spelling(n, f)

LEMMA SpellingsExist ==
  ASSUME NEW m \in Nat
  PROVE  \E f : Spellings(f, m)
  <1> DEFINE Rows == {n \in Nat : \E f : Spellings(f, n)}
  <1>1. 0 \in Rows
    <2> DEFINE f == [i \in 0..0 |-> <<0>>]
    <2>1. f[0] = <<0>> /\ Spelling(0, f) = <<0>>
      BY DEF Spelling
    <2>2. <<0>> \in Seq(Bytes)
      BY DEF Bytes
    <2>3. f \in [0..0 -> Seq(Bytes)]
      BY <2>2
    <2>4. \A n \in 0..0 : n = 0
      OBVIOUS
    <2> HIDE DEF f
    <2>5. Spellings(f, 0)
      BY <2>1, <2>3, <2>4 DEF Spellings
    <2> QED BY <2>5
  <1>2. ASSUME NEW n \in Nat, n \in Rows PROVE n + 1 \in Rows
    <2>1. PICK f : Spellings(f, n)
      BY <1>2
    <2> DEFINE next == Spelling(n + 1, f)
               g == [i \in 0..n + 1 |-> IF i = n + 1 THEN next ELSE f[i]]
    <2>2. next \in Seq(Bytes)
      <3>1. n + 1 \in Nat
        OBVIOUS
      <3>2. ASSUME n + 1 >= 128 PROVE f[(n + 1) \div 128] \in Seq(Bytes)
        <4>1. (n + 1) \div 128 \in 0..n
          BY <3>2
        <4> QED BY <2>1, <4>1 DEF Spellings
      <3> DEFINE k == n + 1
      <3>3. k \in Nat /\ (k >= 128 => f[k \div 128] \in Seq(Bytes))
        BY <3>1, <3>2
      <3> HIDE DEF k
      <3>4. Spelling(k, f) \in Seq(Bytes)
        BY <3>3, SpellingIs
      <3> QED BY <3>4 DEF k
    <2> HIDE DEF next
    <2>3. g \in [0..n + 1 -> Seq(Bytes)]
      BY <2>1, <2>2 DEF Spellings
    <2>4. g[n + 1] = next /\ \A i \in 0..n : g[i] = f[i]
      OBVIOUS
    <2> HIDE DEF g
    <2>5. ASSUME NEW i \in 0..n + 1 PROVE Spelling(i, g) = Spelling(i, f)
      <3>1. CASE i < 128
        BY <3>1 DEF Spelling
      <3>2. CASE ~(i < 128)
        <4>1. i \div 128 \in 0..n
          BY <3>2
        <4>2. g[i \div 128] = f[i \div 128]
          BY <2>4, <4>1
        <4> QED BY <3>2, <4>2, Zenon DEF Spelling
      <3> QED BY <3>1, <3>2
    <2>6. ASSUME NEW i \in 0..n + 1 PROVE g[i] = Spelling(i, g)
      <3>1. CASE i = n + 1
        BY <2>4, <2>5, <3>1 DEF next
      <3>2. CASE i \in 0..n
        BY <2>1, <2>4, <2>5, <3>2 DEF Spellings
      <3> QED BY <3>1, <3>2
    <2>7. Spellings(g, n + 1)
      BY <2>3, <2>6 DEF Spellings
    <2> QED BY <2>7
  <1>3. \A n \in Nat : n \in Rows => n + 1 \in Rows
    BY <1>2
  <1>4. m \in Rows
    <2> HIDE DEF Rows
    <2> QED BY <1>1, <1>3, Induction
  <1> QED BY <1>4

\* The table of the specification is one.
Base128 == CHOOSE f : f = [n \in 0..LargestArc |-> IF n < 128 THEN <<n>> ELSE
             LET high == f[n \div 128]
             IN  [i \in DOMAIN high |-> IF i = Len(high) THEN (high[i] % 128) + 128 ELSE high[i]] \o <<n % 128>>]

LEMMA Base128Is == Spells128(Base128)
  <1> DEFINE L == LargestArc
  <1>1. L \in Nat
    BY DecodersAssumption
  <1>3. Base128 = CHOOSE f : f = [n \in 0..L |-> Spelling(n, f)]
    BY Zenon DEF Base128, Spelling, Marked
  <1> HIDE DEF L
  <1>4. PICK f : Spellings(f, L)
    BY <1>1, SpellingsExist
  <1>5. f = [n \in 0..L |-> Spelling(n, f)]
    <2>1. f = [n \in 0..L |-> f[n]]
      BY <1>4 DEF Spellings
    <2> QED BY <1>4, <2>1 DEF Spellings
  <1> DEFINE chosen == CHOOSE g : g = [n \in 0..L |-> Spelling(n, g)]
  <1>6. chosen = [n \in 0..L |-> Spelling(n, chosen)]
    BY <1>5
  <1>7. Base128 = chosen
    BY <1>3
  <1> HIDE DEF chosen
  <1>8. \A n \in 0..L : chosen[n] = Spelling(n, chosen)
    BY <1>6
  <1> DEFINE Whole == {n \in Nat : \A k \in 0..n : k <= L => chosen[k] \in Seq(Bytes)}
  <1>9. 0 \in Whole
    <2>1. ASSUME NEW k \in 0..0, k <= L PROVE chosen[k] \in Seq(Bytes)
      <3>1. k \in 0..L /\ k \in Nat /\ ~(k >= 128)
        BY <2>1
      <3>2. Spelling(k, chosen) \in Seq(Bytes)
        BY <3>1, SpellingIs
      <3> QED BY <1>8, <3>1, <3>2
    <2> QED BY <2>1
  <1>10. ASSUME NEW n \in Nat, n \in Whole PROVE n + 1 \in Whole
    <2>1. ASSUME NEW k \in 0..n + 1, k <= L PROVE chosen[k] \in Seq(Bytes)
      <3>1. CASE k \in 0..n
        BY <1>10, <2>1, <3>1
      <3>2. CASE k = n + 1
        <4>1. k \in 0..L /\ k \in Nat
          BY <2>1, <1>1
        <4>2. ASSUME k >= 128 PROVE chosen[k \div 128] \in Seq(Bytes)
          <5>1. k \div 128 \in 0..n /\ k \div 128 <= L
            BY <1>1, <2>1, <3>2, <4>2
          <5> QED BY <1>10, <5>1
        <4>3. Spelling(k, chosen) \in Seq(Bytes)
          BY <4>1, <4>2, SpellingIs
        <4> QED BY <1>8, <4>1, <4>3
      <3> QED BY <3>1, <3>2
    <2> QED BY <2>1
  <1>11. Nat \subseteq Whole
    <2> HIDE DEF Whole
    <2> QED BY <1>9, <1>10, Induction
  <1>12. ASSUME NEW k \in 0..L PROVE chosen[k] \in Seq(Bytes)
    <2>1. L \in Whole
      BY <1>1, <1>11
    <2> QED BY <1>1, <2>1
  <1>13. chosen \in [0..L -> Seq(Bytes)]
    <2>1. chosen = [n \in 0..L |-> chosen[n]]
      <3> DEFINE h == [n \in 0..L |-> Spelling(n, chosen)]
      <3>1. h = [n \in 0..L |-> h[n]]
        OBVIOUS
      <3> HIDE DEF h
      <3> QED BY <1>6, <3>1 DEF h
    <2> QED BY <1>12, <2>1
  <1> QED BY <1>7, <1>8, <1>13 DEF Spells128, L

Arc == 0..LargestArc

\* The bytes of the subidentifiers that are complete.
Written(done) == [k \in DOMAIN done |-> Base128[done[k]]]

LEMMA WrittenIs ==
  ASSUME NEW done \in Seq(Arc)
  PROVE  /\ Written(done) \in Seq(Seq(Bytes))
         /\ \A v \in Arc : Base128[v] \in Seq(Bytes) /\ Append(done, v) \in Seq(Arc)
                           /\ Written(Append(done, v)) = Append(Written(done), Base128[v])
  <1>1. \A v \in Arc : Base128[v] \in Seq(Bytes)
    BY Base128Is DEF Spells128, Arc
  <1>2. ASSUME NEW d \in Seq(Arc)
        PROVE  Written(d) \in Seq(Seq(Bytes)) /\ Len(Written(d)) = Len(d) /\ \A k \in 1..Len(d) : Written(d)[k] = Base128[d[k]]
    <2>1. DOMAIN d = 1..Len(d) /\ Len(d) \in Nat /\ \A k \in 1..Len(d) : d[k] \in Arc
      OBVIOUS
    <2>2. Written(d) = [k \in 1..Len(d) |-> Base128[d[k]]]
      BY <2>1 DEF Written
    <2>3. Written(d) \in [1..Len(d) -> Seq(Bytes)]
      BY <1>1, <2>1, <2>2
    <2> QED BY <2>1, <2>2, <2>3
  <1>3. ASSUME NEW v \in Arc PROVE Append(done, v) \in Seq(Arc) /\ Written(Append(done, v)) = Append(Written(done), Base128[v])
    <2> DEFINE d == Append(done, v)
               w == Written(done)
               x == Append(w, Base128[v])
    <2>1. d \in Seq(Arc) /\ Len(d) = Len(done) + 1 /\ d[Len(done) + 1] = v /\ \A k \in 1..Len(done) : d[k] = done[k]
      OBVIOUS
    <2>2. w \in Seq(Seq(Bytes)) /\ Len(w) = Len(done) /\ \A k \in 1..Len(done) : w[k] = Base128[done[k]]
      BY <1>2
    <2> HIDE DEF d, w
    <2>3. x \in Seq(Seq(Bytes)) /\ Len(x) = Len(done) + 1 /\ x[Len(done) + 1] = Base128[v] /\ \A k \in 1..Len(done) : x[k] = w[k]
      BY <1>1, <2>2
    <2>4. Written(d) \in Seq(Seq(Bytes)) /\ Len(Written(d)) = Len(d) /\ \A k \in 1..Len(d) : Written(d)[k] = Base128[d[k]]
      BY <1>2, <2>1
    <2> HIDE DEF x
    <2> DEFINE y == Written(d)
    <2>8. y \in Seq(Seq(Bytes)) /\ Len(y) = Len(done) + 1 /\ \A k \in 1..Len(done) + 1 : y[k] = Base128[d[k]]
      BY <2>1, <2>4
    <2> HIDE DEF y
    <2>5. ASSUME NEW k \in 1..Len(done) + 1 PROVE y[k] = x[k]
      <3>1. CASE k = Len(done) + 1
        BY <2>1, <2>3, <2>8, <3>1
      <3>2. CASE k # Len(done) + 1
        <4>1. k \in 1..Len(done)
          BY <3>2
        <4>2. y[k] = Base128[d[k]]
          BY <2>8
        <4>3. d[k] = done[k]
          BY <2>1, <4>1
        <4>4. x[k] = w[k] /\ w[k] = Base128[done[k]]
          BY <2>2, <2>3, <4>1
        <4> QED BY <4>2, <4>3, <4>4, Zenon
      <3> QED BY <3>1, <3>2
    <2>7. y = x
      BY <2>3, <2>5, <2>8
    <2> QED BY <2>1, <2>7 DEF x, y, d, w
  <1> QED BY <1>1, <1>2, <1>3

\* What has been read is what the subidentifiers are written as, the one that is
\* being read with a continuation bit in every byte.
Unfinished(p) == IF p.started THEN Marked(Base128[p.value]) ELSE <<>>

Read(p, b) ==
  /\ p \in [ok : BOOLEAN, done : {p.done}, value : {p.value}, started : {p.started}]
  /\ p.ok => /\ p.done \in Seq(Arc) /\ p.value \in Arc /\ p.started \in BOOLEAN
             /\ IF p.started THEN p.value > 0 ELSE p.value = 0
             /\ b = Flat(Written(p.done)) \o Unfinished(p)

LEMMA SmallArc ==
  ASSUME NEW n \in Nat, n < 128
  PROVE  n \in Arc /\ Base128[n] = <<n>>
  <1>1. n \in Arc
    BY DecodersAssumption DEF Arc
  <1> QED BY <1>1, Base128Is DEF Spells128, Spelling, Arc

LEMMA LongerArc ==
  ASSUME NEW v \in Arc, v > 0, v <= (LargestArc - 127) \div 128, NEW c \in 0..127
  PROVE  /\ v * 128 + c \in Arc /\ v * 128 + c > 0
         /\ Base128[v * 128 + c] = Marked(Base128[v]) \o <<c>>
  <1> DEFINE n == v * 128 + c
  <1>0. LargestArc \in Nat /\ LargestArc >= 127
    BY DecodersAssumption
  <1>1. n \in Nat /\ n > 0 /\ n <= LargestArc /\ ~(n < 128) /\ n \div 128 = v /\ n % 128 = c
    BY <1>0 DEF Arc
  <1> HIDE DEF n
  <1>2. n \in Arc
    BY <1>0, <1>1 DEF Arc
  <1>3. Base128[n] = Spelling(n, Base128)
    BY <1>2, Base128Is DEF Spells128, Arc
  <1>4. Base128[n] = Marked(Base128[v]) \o <<c>>
    BY <1>1, <1>3, Zenon DEF Spelling
  <1> QED BY <1>1, <1>2, <1>4 DEF n

LEMMA OneByte ==
  ASSUME NEW p, NEW b \in Seq(Bytes), NEW byte \in Bytes, Read(p, b)
  PROVE  Read(DO!NextByte(p, byte), b \o <<byte>>)
  <1> DEFINE value == p.value * 128 + (byte % 128)
             next == DO!NextByte(p, byte)
             throws == ~p.ok \/ (~p.started /\ ~DO!ArcMayBegin(byte)) \/ p.value > (LargestArc - 127) \div 128
  <1>1. p \in [ok : BOOLEAN, done : {p.done}, value : {p.value}, started : {p.started}]
    BY DEF Read
  <1>2. CASE throws
    <2>1. next = [p EXCEPT !.ok = FALSE]
      BY <1>2, Zenon DEF DO!NextByte
    <2>2. next \in [ok : BOOLEAN, done : {next.done}, value : {next.value}, started : {next.started}] /\ ~next.ok
      <3> HIDE DEF next, throws
      <3> QED BY <1>1, <2>1
    <2> HIDE DEF next
    <2>3. Read(next, b \o <<byte>>)
      BY <2>2, Zenon DEF Read
    <2> QED BY <2>3 DEF next
  <1>3. CASE ~throws
    <2>1. p.ok /\ (p.started \/ byte # 128) /\ ~(p.value > (LargestArc - 127) \div 128)
      BY <1>3 DEF DO!ArcMayBegin
    <2>2. /\ p.done \in Seq(Arc) /\ p.value \in Arc /\ p.started \in BOOLEAN
          /\ IF p.started THEN p.value > 0 ELSE p.value = 0
          /\ b = Flat(Written(p.done)) \o Unfinished(p)
      BY <2>1 DEF Read
    <2>3. /\ byte \in Nat /\ byte % 128 \in 0..127 /\ (byte < 128 => byte % 128 = byte)
          /\ (byte >= 128 => (byte % 128) + 128 = byte) /\ byte % 128 \in Bytes
      BY ByteIs, Zenon
    <2>4. LargestArc \in Nat /\ LargestArc >= 127
      BY DecodersAssumption
    <2> DEFINE flat == Flat(Written(p.done))
    <2>5. flat \in Seq(Bytes) /\ \A v \in Arc : Base128[v] \in Seq(Bytes) /\ Append(p.done, v) \in Seq(Arc)
                                  /\ Flat(Written(Append(p.done, v))) = flat \o Base128[v]
      <3>1. /\ Written(p.done) \in Seq(Seq(Bytes))
            /\ \A v \in Arc : Base128[v] \in Seq(Bytes) /\ Append(p.done, v) \in Seq(Arc)
                              /\ Written(Append(p.done, v)) = Append(Written(p.done), Base128[v])
        BY <2>2, WrittenIs
      <3> DEFINE w == Written(p.done)
      <3> HIDE DEF w
      <3>2. \A x \in Seq(Bytes) : Flat(w) \in Seq(Bytes) /\ Flat(Append(w, x)) = Flat(w) \o x
        BY <3>1, FlatLonger DEF w
      <3>3. <<>> \in Seq(Bytes)
        OBVIOUS
      <3>4. flat \in Seq(Bytes)
        BY <3>2, <3>3 DEF w
      <3>5. ASSUME NEW v \in Arc PROVE Flat(Written(Append(p.done, v))) = flat \o Base128[v]
        <4>1. Base128[v] \in Seq(Bytes) /\ Written(Append(p.done, v)) = Append(w, Base128[v])
          BY <3>1 DEF w
        <4>2. Flat(Append(w, Base128[v])) = Flat(w) \o Base128[v]
          BY <3>2, <4>1
        <4> QED BY <4>1, <4>2, Zenon DEF w
      <3> QED BY <3>1, <3>4, <3>5
    <2>6. <<byte>> \in Seq(Bytes)
      OBVIOUS
    <2> HIDE DEF flat
    \* The subidentifier with this byte, and what it is written as.
    <2>7. /\ value \in Arc
          /\ byte < 128 => Unfinished(p) \o <<byte>> = Base128[value]
          /\ byte >= 128 => value > 0 /\ Unfinished(p) \o <<byte>> = Marked(Base128[value])
          /\ Unfinished(p) \in Seq(Bytes)
      <3>1. CASE ~p.started
        <4>1. p.value = 0 /\ Unfinished(p) = <<>> /\ byte # 128
          BY <2>1, <2>2, <3>1 DEF Unfinished
        <4>2. value = byte % 128
          BY <2>3, <4>1
        <4> HIDE DEF value
        <4>3. value \in Nat /\ value < 128 /\ value \in Bytes
          BY <2>3, <4>2
        <4>4. value \in Arc /\ Base128[value] = <<value>>
          BY <4>3, SmallArc
        <4>5. Marked(<<value>>) = <<(value % 128) + 128>>
          <5>1. <<>> \in Seq(Bytes) /\ <<>> \o <<value>> = <<value>> /\ <<>> \o <<(value % 128) + 128>> = <<(value % 128) + 128>>
            OBVIOUS
          <5> QED BY <4>3, <5>1, MarkedLast
        <4>6. value % 128 = value
          BY <4>3
        <4>7. <<>> \o <<byte>> = <<byte>> /\ <<>> \in Seq(Bytes)
          OBVIOUS
        <4>8. byte < 128 => <<byte>> = Base128[value]
          BY <2>3, <4>2, <4>4
        <4>9. byte >= 128 => value > 0 /\ <<byte>> = Marked(Base128[value])
          <5>1. ASSUME byte >= 128 PROVE value > 0 /\ value + 128 = byte
            BY <2>3, <4>1, <4>2, <5>1
          <5> QED BY <4>4, <4>5, <4>6, <5>1
        <4> QED BY <4>1, <4>4, <4>7, <4>8, <4>9
      <3>2. CASE p.started
        <4> DEFINE h == Marked(Base128[p.value])
                   c == byte % 128
        <4>1. Unfinished(p) = h
          BY <3>2 DEF Unfinished
        <4>2. h \in Seq(Bytes)
          <5>1. Base128[p.value] \in Seq(Bytes)
            BY <2>2, <2>5
          <5> QED BY <5>1, MarkedBytes
        <4>3. p.value > 0 /\ p.value <= (LargestArc - 127) \div 128
          BY <2>1, <2>2, <2>4, <3>2 DEF Arc
        <4>4. value \in Arc /\ value > 0 /\ Base128[value] = h \o <<c>>
          BY <2>2, <2>3, <4>3, LongerArc
        <4>5. Marked(Base128[value]) = h \o <<(c % 128) + 128>>
          <5>1. c \in Bytes
            BY <2>3
          <5> HIDE DEF c, h, value
          <5>2. Marked(h \o <<c>>) = h \o <<(c % 128) + 128>>
            BY <4>2, <5>1, MarkedLast
          <5> QED BY <4>4, <5>2
        <4>6. c % 128 = c
          BY <2>3
        <4> HIDE DEF h, value
        <4>7. byte < 128 => Unfinished(p) \o <<byte>> = Base128[value]
          BY <2>3, <4>1, <4>4
        <4>8. byte >= 128 => Unfinished(p) \o <<byte>> = Marked(Base128[value])
          <5>1. ASSUME byte >= 128 PROVE (c % 128) + 128 = byte
            BY <2>3, <4>6, <5>1
          <5> QED BY <4>1, <4>5, <5>1
        <4> QED BY <4>1, <4>2, <4>4, <4>7, <4>8
      <3> QED BY <2>2, <3>1, <3>2
    <2> HIDE DEF value, throws
    <2>8. b \o <<byte>> = flat \o (Unfinished(p) \o <<byte>>)
      <3> DEFINE u == Unfinished(p)
                 x == <<byte>>
      <3>1. u \in Seq(Bytes) /\ x \in Seq(Bytes) /\ b = flat \o u
        BY <2>2, <2>6, <2>7 DEF flat
      <3> HIDE DEF u, x
      <3>2. (flat \o u) \o x = flat \o (u \o x)
        BY <2>5, <3>1, JoinJoin
      <3> QED BY <3>1, <3>2 DEF u, x
    <2>9. CASE byte < 128
      <3>1. next = [p EXCEPT !.done = Append(@, value), !.value = 0, !.started = FALSE]
        BY <1>3, <2>9, Zenon DEF DO!NextByte, value, throws
      <3> DEFINE more == Append(p.done, value)
      <3> HIDE DEF next
      <3>2. next = [p EXCEPT !.done = more, !.value = 0, !.started = FALSE]
        BY <3>1
      <3>3. more \in Seq(Arc) /\ Flat(Written(more)) = flat \o Base128[value]
        BY <2>5, <2>7
      <3> HIDE DEF more
      <3>4. next.ok = p.ok /\ next.done = more /\ next.value = 0 /\ next.started = FALSE
        BY <1>1, <3>2
      <3>5. next \in [ok : BOOLEAN, done : {next.done}, value : {next.value}, started : {next.started}]
        BY <1>1, <3>2
      <3>6. 0 \in Arc
        BY <2>4 DEF Arc
      <3>7. flat \o Base128[value] \in Seq(Bytes)
        <4>1. Base128[value] \in Seq(Bytes)
          BY <2>5, <2>7
        <4> QED BY <2>5, <4>1, Join
      <3>8. Unfinished(next) = <<>> /\ (flat \o Base128[value]) \o <<>> = flat \o Base128[value]
        <4>1. Unfinished(next) = <<>>
          BY <3>4 DEF Unfinished
        <4> DEFINE z == flat \o Base128[value]
        <4>2. z \in Seq(Bytes)
          BY <3>7
        <4> HIDE DEF z
        <4>3. z \o <<>> = z
          BY <4>2
        <4> QED BY <4>1, <4>3 DEF z
      <3>9. b \o <<byte>> = Flat(Written(next.done)) \o Unfinished(next)
        BY <2>7, <2>8, <2>9, <3>3, <3>4, <3>8, Zenon
      <3>10. Read(next, b \o <<byte>>)
        BY <2>1, <3>3, <3>4, <3>5, <3>6, <3>9, Zenon DEF Read
      <3> QED BY <3>10 DEF next
    <2>10. CASE ~(byte < 128)
      <3>1. next = [p EXCEPT !.value = value, !.started = TRUE]
        BY <1>3, <2>10, Zenon DEF DO!NextByte, value, throws
      <3> HIDE DEF next
      <3>2. byte >= 128
        BY <2>3, <2>10
      <3>4. next.ok = p.ok /\ next.done = p.done /\ next.value = value /\ next.started = TRUE
        BY <1>1, <3>1
      <3>5. next \in [ok : BOOLEAN, done : {next.done}, value : {next.value}, started : {next.started}]
        BY <1>1, <3>1
      <3>6. Unfinished(next) = Marked(Base128[value])
        BY <3>4 DEF Unfinished
      <3>7. b \o <<byte>> = Flat(Written(next.done)) \o Unfinished(next)
        BY <2>7, <2>8, <3>2, <3>4, <3>6, Zenon DEF flat
      <3>8. Read(next, b \o <<byte>>)
        BY <2>1, <2>2, <2>7, <3>2, <3>4, <3>5, <3>7, Zenon DEF Read
      <3> QED BY <3>8 DEF next
    <2> QED BY <2>9, <2>10
  <1> QED BY <1>2, <1>3

LEMMA NothingRead == Read([ok |-> TRUE, done |-> <<>>, value |-> 0, started |-> FALSE], <<>>)
  <1> DEFINE p == [ok |-> TRUE, done |-> <<>>, value |-> 0, started |-> FALSE]
  <1>1. p.ok = TRUE /\ p.done = <<>> /\ p.value = 0 /\ p.started = FALSE
    OBVIOUS
  <1>2. p \in [ok : BOOLEAN, done : {p.done}, value : {p.value}, started : {p.started}]
    OBVIOUS
  <1>3. Written(<<>>) = <<>>
    BY DEF Written
  <1>4. Flat(<<>>) = <<>>
    <2>1. <<>> \in Seq(Seq(Bytes)) /\ Len(<<>>) = 0
      OBVIOUS
    <2>2. PICK t : Beside(t, <<>>) /\ Flat(<<>>) = t[Len(<<>>)]
      BY <2>1, FlatIs
    <2> QED BY <2>1, <2>2 DEF Beside
  <1>5. 0 \in Arc /\ <<>> \in Seq(Arc)
    BY DecodersAssumption DEF Arc
  <1>6. <<>> \o <<>> = <<>>
    OBVIOUS
  <1> HIDE DEF p
  <1>7. Unfinished(p) = <<>>
    BY <1>1 DEF Unfinished
  <1>8. <<>> = Flat(Written(p.done)) \o Unfinished(p)
    BY <1>1, <1>3, <1>4, <1>6, <1>7
  <1>9. Read(p, <<>>)
    BY <1>1, <1>2, <1>5, <1>8 DEF Read
  <1> QED BY <1>9 DEF p

LEMMA ArcsAre ==
  ASSUME NEW c \in Seq(Bytes)
  PROVE  Read(DO!Arcs(c), c)
  <1> DEFINE start == [ok |-> TRUE, done |-> <<>>, value |-> 0, started |-> FALSE]
             step(p, i) == DO!NextByte(p, c[i])
             n == Len(c)
             Row(t, m) == t = [i \in 0..m |-> IF i = 0 THEN start ELSE step(t[i - 1], i)]
             Rows == {m \in Nat : \E t : Row(t, m)}
  <1>1. Read(start, <<>>)
    BY NothingRead
  <1>2. n \in Nat /\ \A i \in 1..n : c[i] \in Bytes
    OBVIOUS
  <1> HIDE DEF start, step, n
  <1>3. 0 \in Rows
    <2>1. Row([i \in 0..0 |-> start], 0)
      OBVIOUS
    <2> QED BY <2>1
  <1>4. ASSUME NEW m \in Nat, m \in Rows PROVE m + 1 \in Rows
    <2>1. PICK t : Row(t, m)
      BY <1>4
    <2> DEFINE u == [i \in 0..m + 1 |-> IF i = m + 1 THEN step(t[m], m + 1) ELSE t[i]]
    <2>2. ASSUME NEW i \in 0..m + 1 PROVE u[i] = IF i = 0 THEN start ELSE step(u[i - 1], i)
      <3>1. CASE i = m + 1
        <4>1. u[i] = step(t[m], i) /\ u[m] = t[m] /\ i - 1 = m /\ i # 0
          BY <3>1
        <4> HIDE DEF u
        <4> QED BY <4>1
      <3>2. CASE i \in 1..m
        <4>1. t[i] = step(t[i - 1], i)
          BY <2>1, <3>2
        <4>2. u[i] = t[i] /\ u[i - 1] = t[i - 1] /\ i # 0
          BY <3>2
        <4> HIDE DEF u
        <4> QED BY <4>1, <4>2
      <3>3. CASE i = 0
        <4>1. t[0] = start
          BY <2>1
        <4>2. u[0] = t[0]
          OBVIOUS
        <4> HIDE DEF u
        <4> QED BY <3>3, <4>1, <4>2
      <3> QED BY <3>1, <3>2, <3>3
    <2>3. Row(u, m + 1)
      <3>1. u = [i \in 0..m + 1 |-> u[i]]
        OBVIOUS
      <3> HIDE DEF u
      <3> QED BY <2>2, <3>1
    <2> HIDE DEF u, Row
    <2> QED BY <2>3
  <1>5. n \in Rows
    <2>1. \A m \in Nat : m \in Rows => m + 1 \in Rows
      BY <1>4
    <2> HIDE DEF Rows
    <2> QED BY <1>2, <1>3, <2>1, Induction
  <1>6. \E t : t = [i \in 0..n |-> IF i = 0 THEN start ELSE step(t[i - 1], i)]
    BY <1>5
  <1> DEFINE turn == CHOOSE t : t = [i \in 0..n |-> IF i = 0 THEN start ELSE step(t[i - 1], i)]
  <1>7. turn = [i \in 0..n |-> IF i = 0 THEN start ELSE step(turn[i - 1], i)]
    BY <1>6
  <1>8. DO!Arcs(c) = turn[n]
    BY Zenon DEF DO!Arcs, start, step, n
  <1> HIDE DEF turn
  <1>9. turn[0] = start /\ \A i \in 1..n : turn[i] = step(turn[i - 1], i)
    BY <1>2, <1>7
  <1> DEFINE Good == {i \in Nat : i <= n => Read(turn[i], SubSeq(c, 1, i))}
  <1>10. 0 \in Good
    <2>1. SubSeq(c, 1, 0) = <<>>
      OBVIOUS
    <2>2. Read(turn[0], SubSeq(c, 1, 0))
      BY <1>1, <1>9, <2>1
    <2> QED BY <2>2
  <1>11. ASSUME NEW i \in Nat, i \in Good, i + 1 <= n PROVE Read(turn[i + 1], SubSeq(c, 1, i + 1))
    <2> DEFINE p == turn[i]
               b == SubSeq(c, 1, i)
               byte == c[i + 1]
    <2>1. Read(p, b)
      BY <1>2, <1>11
    <2>2. i + 1 \in 1..n /\ (i + 1) - 1 = i
      BY <1>2, <1>11
    <2>3. turn[i + 1] = DO!NextByte(p, byte)
      BY <1>9, <2>2 DEF step
    <2>4. b \in Seq(Bytes) /\ byte \in Bytes
      BY <1>2, <2>2 DEF n
    <2>5. SubSeq(c, 1, i + 1) = b \o <<byte>>
      BY <1>2, <2>2 DEF n
    <2> HIDE DEF p, b, byte
    <2>6. Read(DO!NextByte(p, byte), b \o <<byte>>)
      BY <2>1, <2>4, OneByte
    <2> QED BY <2>3, <2>5, <2>6
  <1>12. n \in Good
    <2>1. \A i \in Nat : i \in Good => i + 1 \in Good
      BY <1>11
    <2> HIDE DEF Good
    <2> QED BY <1>2, <1>10, <2>1, Induction
  <1>13. SubSeq(c, 1, n) = c
    BY DEF n
  <1>14. Read(turn[n], SubSeq(c, 1, n))
    BY <1>2, <1>12
  <1> QED BY <1>8, <1>13, <1>14

LEMMA Spelled ==
  ASSUME input \in Seq(Bytes)
  PROVE  DO!OneSpelling
  <1> DEFINE oid == DO!ReadOID(input)
             a == DO!Arcs(input)
             done == a.done
             d == done[1]
             first == IF d < 80 THEN d \div 40 ELSE 2
             packed == <<40 * oid.arcs[1] + oid.arcs[2]>> \o SubSeq(oid.arcs, 3, Len(oid.arcs))
  <1> SUFFICES ASSUME oid.ok
               PROVE  /\ input = Flat([i \in DOMAIN packed |-> Base128[packed[i]]])
                      /\ oid.arcs[1] < 2 => oid.arcs[2] < 40
    BY Zenon DEF DO!OneSpelling, Base128, Flat
  <1>1. /\ input # <<>> /\ a.ok /\ ~a.started
        /\ oid = [ok |-> TRUE, arcs |-> <<first, d - 40 * first>> \o Tail(done)]
    <2>1. ~(DO!Fail).ok
      BY DEF DO!Fail
    <2>2. oid = IF input = <<>> THEN DO!Fail
                ELSE IF ~a.ok \/ a.started THEN DO!Fail
                ELSE [ok |-> TRUE, arcs |-> <<first, d - 40 * first>> \o Tail(done)]
      BY Zenon DEF DO!ReadOID
    <2> HIDE DEF oid, a, first
    <2> QED BY <2>1, <2>2
  <1>2. Read(a, input)
    BY ArcsAre
  <1> HIDE DEF a, oid
  <1>3. /\ done \in Seq(Arc) /\ a.started \in BOOLEAN
        /\ input = Flat(Written(done)) \o Unfinished(a)
    BY <1>1, <1>2 DEF Read
  <1>4. Unfinished(a) = <<>>
    BY <1>1 DEF Unfinished
  <1> HIDE DEF done
  <1>5. input = Flat(Written(done))
    <2>1. Written(done) \in Seq(Seq(Bytes))
      BY <1>3, WrittenIs
    <2> DEFINE w == Written(done)
    <2> HIDE DEF w
    <2>2. Flat(w) \in Seq(Bytes)
      <3>1. <<>> \in Seq(Bytes)
        OBVIOUS
      <3> QED BY <2>1, <3>1, FlatLonger DEF w
    <2> DEFINE f == Flat(w)
    <2> HIDE DEF f
    <2>3. f \o <<>> = f
      BY <2>2 DEF f
    <2> QED BY <1>3, <1>4, <2>3 DEF f, w
  <1>6. done # <<>>
    <2>1. ASSUME done = <<>> PROVE FALSE
      <3>1. Written(<<>>) = <<>>
        BY DEF Written
      <3>2. <<>> \in Seq(Seq(Bytes)) /\ Len(<<>>) = 0
        OBVIOUS
      <3>3. PICK t : Beside(t, <<>>) /\ Flat(<<>>) = t[Len(<<>>)]
        BY <3>2, FlatIs
      <3>4. Flat(<<>>) = <<>>
        BY <3>2, <3>3 DEF Beside
      <3> QED BY <1>1, <1>5, <2>1, <3>1, <3>4
    <2> QED BY <2>1
  <1>7. /\ d \in Nat /\ d \in Arc /\ done = <<d>> \o Tail(done) /\ Tail(done) \in Seq(Arc)
    <2>1. Len(done) \in Nat /\ Len(done) # 0
      BY <1>3, <1>6
    <2>2. d \in Arc
      BY <1>3, <2>1
    <2>3. d \in Nat
      BY <2>2, DecodersAssumption DEF Arc
    <2>4. Tail(done) \in Seq(Arc) /\ done = <<d>> \o Tail(done)
      BY <1>3, <2>1
    <2> QED BY <2>2, <2>3, <2>4
  <1> HIDE DEF d
  <1>8. first \in 0..2 /\ (first < 2 => d - 40 * first < 40) /\ 40 * first + (d - 40 * first) = d /\ d - 40 * first \in Int
    <2>1. CASE d < 40
      <3>1. first = 0
        BY <1>7, <2>1
      <3> QED BY <1>7, <2>1, <3>1
    <2>2. CASE d >= 40 /\ d < 80
      <3>1. first = 1
        BY <1>7, <2>2
      <3> QED BY <1>7, <2>2, <3>1
    <2>3. CASE d >= 80
      <3>1. first = 2
        BY <1>7, <2>3
      <3> QED BY <1>7, <2>3, <3>1
    <2> QED BY <1>7, <2>1, <2>2, <2>3
  <1> DEFINE second == d - 40 * first
             rest == Tail(done)
  <1> HIDE DEF first, second, rest
  <1>9. oid.arcs = <<first, second>> \o rest /\ rest \in Seq(Arc)
    BY <1>1, <1>7 DEF second, rest
  <1>10. oid.arcs[1] = first /\ oid.arcs[2] = second /\ SubSeq(oid.arcs, 3, Len(oid.arcs)) = rest
    <2>1. LargestArc \in Nat /\ LargestArc >= 127 /\ d \in 0..LargestArc
      BY <1>7, DecodersAssumption DEF Arc
    <2>2. first \in Arc /\ second \in Arc
      <3>1. first \in Arc
        BY <1>8, <2>1 DEF Arc
      <3>2. CASE d < 40
        <4>1. first = 0
          BY <1>7, <3>2 DEF first
        <4> QED BY <2>1, <4>1 DEF second, Arc
      <3>3. CASE d >= 40 /\ d < 80
        <4>1. first = 1
          BY <1>7, <3>3 DEF first
        <4> QED BY <2>1, <3>3, <4>1 DEF second, Arc
      <3>4. CASE d >= 80
        <4>1. first = 2
          BY <1>7, <3>4 DEF first
        <4> QED BY <2>1, <3>4, <4>1 DEF second, Arc
      <3> QED BY <2>1, <3>1, <3>2, <3>3, <3>4
    <2> DEFINE arcs == <<first, second>> \o rest
    <2>3. /\ arcs \in Seq(Arc) /\ Len(arcs) = Len(rest) + 2 /\ arcs[1] = first /\ arcs[2] = second
          /\ \A k \in 1..Len(rest) : arcs[2 + k] = rest[k]
      BY <1>9, <2>2
    <2> HIDE DEF arcs
    <2> DEFINE cut == SubSeq(arcs, 3, Len(arcs))
    <2>4. cut \in Seq(Arc) /\ Len(cut) = Len(rest) /\ \A k \in 1..Len(rest) : cut[k] = arcs[2 + k]
      BY <1>9, <2>2, <2>3
    <2> HIDE DEF cut
    <2>5. cut = rest
      BY <1>9, <2>3, <2>4
    <2>6. oid.arcs = arcs
      BY <1>9 DEF arcs
    <2> QED BY <2>3, <2>5, <2>6 DEF cut
  <1>11. packed = done
    <2>1. 40 * first + second = d
      BY <1>8 DEF second
    <2> QED BY <1>7, <1>10, <2>1 DEF rest
  <1> HIDE DEF packed
  <1>12. [i \in DOMAIN packed |-> Base128[packed[i]]] = Written(done)
    BY <1>11 DEF Written
  <1>13. oid.arcs[1] < 2 => oid.arcs[2] < 40
    BY <1>8, <1>10 DEF second
  <1> QED BY <1>5, <1>12, <1>13

----------------------------------------------------------------------------
(* What the decoders are given, and what holds of it                       *)

OfBytes == {"cbor items", "cbor numbers", "authenticator data", "der elements", "der oids"}

BytesInv == decoder \in OfBytes => input \in Seq(Bytes)

LEMMA BytesInit == DecodersInit => BytesInv
  <1> SUFFICES ASSUME DecodersInit, decoder \in OfBytes PROVE input \in Seq(Bytes)
    BY DEF BytesInv
  <1>1. CASE decoder = "authenticator data"
    BY <1>1, DecodersAssumption DEF DecodersInit, AD!DataInit
  <1>2. CASE decoder # "authenticator data"
    <2>1. input = <<>>
      BY <1>2, Zenon DEF DecodersInit, Init
    <2> QED BY <2>1
  <1> QED BY <1>1, <1>2

LEMMA Longer ==
  ASSUME NEW b \in Seq(Bytes), NEW token \in Items \cup Numbers \cup DataHeaders \cup Pieces \cup Elements \cup ArcBytes
  PROVE  b \o token \in Seq(Bytes)
  <1>1. token \in Seq(Bytes)
    BY DecodersAssumption
  <1> QED BY <1>1

LEMMA BytesStep == BytesInv /\ [DecodersNext]_<<decoder, input, tokens>> => BytesInv'
  <1> SUFFICES ASSUME BytesInv, [DecodersNext]_<<decoder, input, tokens>>, (decoder \in OfBytes)'
               PROVE  input' \in Seq(Bytes)
    BY DEF BytesInv
  <1>1. CASE UNCHANGED <<decoder, input, tokens>>
    BY <1>1 DEF BytesInv
  <1>2. CASE DecodersNext
    <2>1. decoder' = decoder /\ decoder \in OfBytes
      BY <1>2, Zenon DEF DecodersNext
    <2>2. input \in Seq(Bytes)
      BY <2>1 DEF BytesInv
    <2>3. CASE decoder = "cbor items"
      <3>1. PICK token \in Items : input' = input \o token
        BY <1>2, <2>3 DEF DecodersNext, AD!Append_
      <3> QED BY <2>2, <3>1, Longer
    <2>4. CASE decoder = "cbor numbers"
      <3>1. PICK token \in Numbers : input' = input \o token
        BY <1>2, <2>4 DEF DecodersNext, AD!Append_
      <3> QED BY <2>2, <3>1, Longer
    <2>5. CASE decoder = "authenticator data"
      <3>1. PICK token \in Pieces : input' = input \o token
        BY <1>2, <2>5 DEF DecodersNext, AD!Next, AD!Append_
      <3> QED BY <2>2, <3>1, Longer
    <2>6. CASE decoder = "der elements"
      <3>1. PICK token \in Elements : input' = input \o token
        BY <1>2, <2>6 DEF DecodersNext, DE!Next, DE!Append_
      <3> QED BY <2>2, <3>1, Longer
    <2>7. CASE decoder = "der oids"
      <3>1. PICK token \in ArcBytes : input' = input \o token
        BY <1>2, <2>7 DEF DecodersNext, DO!Next, DO!Append_
      <3> QED BY <2>2, <3>1, Longer
    <2> QED BY <2>1, <2>3, <2>4, <2>5, <2>6, <2>7 DEF OfBytes
  <1> QED BY <1>1, <1>2

\* What is read of any input ends exactly where it ends, whatever tokens it is made
\* of and however deep items may nest: nothing of the input is read twice, left
\* out, or read differently when it is cut out and parsed alone.
THEOREM Boundaries == DecodersSpec => []BoundariesAreExact
  <1>1. BytesInv => BoundariesAreExact
    <2> SUFFICES ASSUME BytesInv PROVE BoundariesAreExact
      OBVIOUS
    <2>1. decoder \in {"cbor items", "cbor numbers"} => AD!SelfDelimiting /\ AD!IntegersAreExact
      BY Delimited, NoBitIsLost DEF BytesInv, OfBytes
    <2>2. decoder = "authenticator data" => AD!FieldsCoverTheData /\ AD!KeyStandsAlone
      BY FieldsCover, KeysStandAlone DEF BytesInv, OfBytes
    <2>3. decoder = "der elements" => DE!ChildrenTile
      BY Tile DEF BytesInv, OfBytes
    <2> QED BY <2>1, <2>2, <2>3 DEF BoundariesAreExact
  <1> QED BY <1>1, BytesInit, BytesStep, PTL DEF DecodersSpec

SymbolInv == decoder = "signature" => input \in Seq(Symbol)

LEMMA SymbolInit == DecodersInit => SymbolInv
  <1> SUFFICES ASSUME DecodersInit, decoder = "signature" PROVE input \in Seq(Symbol)
    BY DEF SymbolInv
  <1>1. input = <<>>
    BY Zenon DEF DecodersInit, Init
  <1> QED BY <1>1

LEMMA SymbolStep == SymbolInv /\ [DecodersNext]_<<decoder, input, tokens>> => SymbolInv'
  <1> SUFFICES ASSUME SymbolInv, [DecodersNext]_<<decoder, input, tokens>>, decoder' = "signature"
               PROVE  input' \in Seq(Symbol)
    BY DEF SymbolInv
  <1>1. CASE UNCHANGED <<decoder, input, tokens>>
    BY <1>1 DEF SymbolInv
  <1>2. CASE DecodersNext
    <2>1. decoder' = decoder /\ decoder = "signature"
      BY <1>2, Zenon DEF DecodersNext
    <2>2. input \in Seq(Symbol)
      BY <2>1 DEF SymbolInv
    <2>3. AddPart
      BY <1>2, <2>1 DEF DecodersNext, Next
    <2>4. PICK part \in Headers \cup Integers_ \cup Trailers : input' = input \o part
      BY <2>3 DEF AddPart
    <2>5. part \in Seq(Symbol)
      BY CurveAssumption DEF Symbol
    <2> QED BY <2>2, <2>4, <2>5
  <1> QED BY <1>1, <1>2

\* Whatever the base, the width and the order of the curve, a word of any length
\* that is read as a signature is the one the inverse writes for it, and every
\* pair of numbers below the order has one; and an object identifier of any length
\* that is read is what its arcs are written as.
THEOREM OneSpellingEach == DecodersSpec => []OneSpellingOnly
  <1>1. BytesInv /\ SymbolInv => OneSpellingOnly
    <2> SUFFICES ASSUME BytesInv, SymbolInv PROVE OneSpellingOnly
      OBVIOUS
    <2>1. decoder = "signature" => OneEncoding /\ EverySignatureIsRead
      BY EncodedOnce, AllAreRead DEF SymbolInv
    <2>2. decoder = "der oids" => DO!OneSpelling
      BY Spelled DEF BytesInv, OfBytes
    <2> QED BY <2>1, <2>2 DEF OneSpellingOnly
  <1> QED BY <1>1, BytesInit, BytesStep, SymbolInit, SymbolStep, PTL DEF DecodersSpec

=============================================================================
