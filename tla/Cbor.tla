-------------------------------- MODULE Cbor --------------------------------
(***************************************************************************)
(* The CBOR decoder (server/crypto/cbor.ts) over every word of a few       *)
(* tokens.                                                                 *)
(*                                                                         *)
(* An integer is its big-endian digits in base 256, without leading zeros: *)
(* two JavaScript numbers are one map key exactly when their digits are.   *)
(* Texts are ASCII; a float wider than a half is kept as its bytes.        *)
(***************************************************************************)
EXTENDS Integers, Sequences, FiniteSets
S == INSTANCE SequencesExt

CONSTANTS
    Tokens,        \* pieces the input is put together from
    MaxTokens,
    MaxDepth       \* MAX_DEPTH

VARIABLES input, tokens
vars == <<input, tokens>>

Value(type, bytes, items) == [type |-> type, bytes |-> bytes, items |-> items]
Done(value, next) == [ok |-> TRUE, value |-> value, next |-> next]
Fail == [ok |-> FALSE, value |-> Value("none", <<>>, <<>>), next |-> 0]

Canonical(bytes) ==
    LET zeros == {i \in 1..Len(bytes) : \A j \in 1..i : bytes[j] = 0}
    IN  SubSeq(bytes, Cardinality(zeros) + 1, Len(bytes))

----------------------------------------------------------------------------
(* Reader and head                                                         *)

Take(b, at, n) == SubSeq(b, at + 1, at + n)

\* Variant: every count leaves a byte behind it.
FitsWithRoom(count, left) == count < left

Fits(count, left) == count <= left

\* Beyond 2^53 - 1 a number would lose its low bits: it stays a bigint.
Safe(digits) == Len(digits) < 7 \/ (Len(digits) = 7 /\ digits[1] <= 31)

\* Variant: Number(value) whatever the value.
SurfaceRounded(digits) ==
    Value("number", IF Safe(digits) THEN digits ELSE [digits EXCEPT ![Len(digits)] = 0], <<>>)

Surface(digits) == Value(IF Safe(digits) THEN "number" ELSE "bigint", digits, <<>>)

Uint(b, at, size) ==
    IF Fits(size, Len(b) - at) THEN Done(Surface(Canonical(Take(b, at, size))), at + size) ELSE Fail

Open == Value("open", <<>>, <<>>)      \* the indefinite-length marker, null

Width(info) == CASE info = 24 -> 1 [] info = 25 -> 2 [] info = 26 -> 4 [] info = 27 -> 8

ReadArgument(b, at, info) ==
    CASE info < 24       -> Done(Surface(Canonical(<<info>>)), at)
      [] info \in 24..27 -> Uint(b, at, Width(info))
      [] info = 31       -> Done(Open, at)
      [] OTHER           -> Fail

\* A length of four bytes is more than an input has.
AsLength(value) ==
    LET d == value.bytes
        byte(i) == IF i > 0 THEN d[i] ELSE 0
    IN  IF Len(d) > 3 THEN 2 ^ 24 ELSE 65536 * byte(Len(d) - 2) + 256 * byte(Len(d) - 1) + byte(Len(d))

\* readFloat16; a whole number is that number, negative ones as -1 - n.
Half(h, l) ==
    LET exponent == (h % 128) \div 4
        fraction == 256 * (h % 4) + l
        whole == IF exponent >= 25 THEN (fraction + 1024) * 2 ^ (exponent - 25)
                 ELSE (fraction + 1024) \div 2 ^ (25 - exponent)
        exact == exponent >= 25 \/ (fraction + 1024) % 2 ^ (25 - exponent) = 0
        digits(n) == Canonical(<<n \div 256, n % 256>>)
    IN  IF exponent = 0 /\ fraction = 0 THEN Surface(<<>>)
        ELSE IF exponent = 31 \/ ~exact
          THEN Value("fraction", IF exponent = 31 /\ fraction # 0 THEN <<>> ELSE <<h, l>>, <<>>)
        ELSE IF h < 128 THEN Surface(digits(whole))
        ELSE Value("negative", digits(whole - 1), <<>>)

Simple(b, at, info) ==
    CASE info \in 20..23 -> Done(Value("simple", <<info>>, <<>>), at)
      [] info \in 25..27 ->
           LET size == Width(info)
           IN  IF ~Fits(size, Len(b) - at) THEN Fail
               ELSE IF size = 2 THEN Done(Half(b[at + 1], b[at + 2]), at + 2)
               ELSE Done(Value("fraction", Take(b, at, size), <<>>), at + size)
      [] OTHER           -> Fail

----------------------------------------------------------------------------
(* readValue                                                               *)

BREAK == 255
Either == 8
Forever == -1
TypeOf(major) == IF major = 2 THEN "bytes" ELSE "text"

String(b, at, n, major) ==
    IF Fits(n, Len(b) - at) /\ (major = 2 \/ \A i \in at + 1..at + n : b[i] < 128)
      THEN Done(Value(TypeOf(major), Take(b, at, n), <<>>), at + n) ELSE Fail

Negative(value) == [value EXCEPT !.type = IF @ = "number" THEN "negative" ELSE "negativeBig"]
Joined(major, chunks) ==
    Value(TypeOf(major), S!FlattenSeq([i \in DOMAIN chunks |-> chunks[i].bytes]), <<>>)

IsKey(value) == value.type \in {"text", "number", "negative", "bigint", "negativeBig", "fraction"}
Keys(items) == {i \in 1..Len(items) : i % 2 = 1}
GoodMap(items) ==
    /\ Len(items) % 2 = 0
    /\ \A i \in Keys(items) : IsKey(items[i]) /\ \A j \in Keys(items) : items[i] = items[j] => i = j

\* Variant: the break is looked at and not taken.
AfterBreakUntaken(at) == at

AfterBreak(at) == at + 1

\* A loop over items knows where it stands, what it has and how many are left, or
\* that it goes on up to a break; read tells what begins at each place.
Over(p) == ~p.ok \/ p.left = 0

ReadOne(b, read, major, p) ==
    LET first == read[p.at]
    IN  IF Over(p) THEN p
        ELSE IF p.left = Forever /\ p.at < Len(b) /\ b[p.at + 1] = BREAK
          THEN [p EXCEPT !.at = AfterBreak(@), !.left = 0]
        ELSE IF ~first.ok \/ (major # Either /\ b[p.at + 1] \div 32 # major) THEN [p EXCEPT !.ok = FALSE]
        ELSE [ok |-> TRUE, at |-> first.next, items |-> Append(p.items, first.value),
              left |-> IF p.left = Forever THEN Forever ELSE p.left - 1]

\* Every turn takes a byte at least, so it is over after as many as there are.
ReadItems(b, read, at, left, major) ==
    LET turn[i \in 0..Len(b)] ==
          IF i = 0 THEN [ok |-> TRUE, at |-> at, items |-> <<>>, left |-> left]
          ELSE ReadOne(b, read, major, turn[i - 1])
        last == turn[Len(b)]
    IN  [ok |-> last.ok /\ last.left = 0, at |-> last.at, items |-> last.items]

\* How many bytes, items, or keys and values a head declares.
Declared(major, arg) == AsLength(arg.value) * (IF major = 5 THEN 2 ELSE 1)

Loop(b, read, major, arg) ==
    ReadItems(b, read, arg.next, IF arg.value = Open THEN Forever ELSE Declared(major, arg),
              IF major < 4 THEN major ELSE Either)

OfItems(major, loop) ==
    IF major \in {2, 3} THEN Done(Joined(major, loop.items), loop.at)
    ELSE IF major = 5 /\ ~GoodMap(loop.items) THEN Fail
    ELSE Done(Value(IF major = 4 THEN "array" ELSE "map", <<>>, loop.items), loop.at)

\* What follows the argument of a head.
AfterHead(b, read, major, arg) ==
    IF major = 0 THEN arg
    ELSE IF major = 1 THEN Done(Negative(arg.value), arg.next)
    ELSE IF major = 6 THEN read[arg.next]
    ELSE IF major \in {2, 3} /\ arg.value # Open THEN String(b, arg.next, Declared(major, arg), major)
    ELSE IF arg.value # Open /\ ~Fits(Declared(major, arg), Len(b) - arg.next) THEN Fail
    ELSE IF ~Loop(b, read, major, arg).ok THEN Fail
    ELSE OfItems(major, Loop(b, read, major, arg))

\* What begins at a place, when read tells what begins one level deeper.
ReadValue(b, read, at) ==
    IF at >= Len(b) THEN Fail ELSE
    LET major == b[at + 1] \div 32
        info == b[at + 1] % 32
        arg == ReadArgument(b, at + 1, info)
    IN  IF major = 7 THEN Simple(b, at + 1, info)
        ELSE IF ~arg.ok \/ (arg.value = Open /\ major \in {0, 1, 6}) THEN Fail
        ELSE AfterHead(b, read, major, arg)

\* Level by level, the deepest first: below it nothing is read.
Levels(b) ==
    LET level[k \in 0..MaxDepth + 1] ==
          [at \in 0..Len(b) |-> IF k = 0 THEN Fail ELSE ReadValue(b, level[k - 1], at)]
    IN  level

DecodeFirst(b) == Levels(b)[MaxDepth + 1][0]
Decode(b) == IF DecodeFirst(b).next = Len(b) THEN DecodeFirst(b) ELSE Fail
DecodeMap(b) == IF Decode(b).value.type = "map" THEN Decode(b) ELSE Fail

----------------------------------------------------------------------------
Init == input = <<>> /\ tokens = 0

Append_(token) == tokens' = tokens + 1 /\ input' = input \o token
Next == tokens < MaxTokens /\ \E token \in Tokens : Append_(token)
Spec == Init /\ [][Next]_vars

----------------------------------------------------------------------------
\* Where an item ends does not depend on what follows it: the bytes read decode
\* alone to the same value, and no beginning of them does.  The key in
\* authenticator data is cut out this way (cbor.ts:333-344) and parsed again.
SelfDelimiting ==
    LET first == DecodeFirst(input) IN
    first.ok => \A n \in 0..first.next :
        DecodeFirst(Take(input, 0, n)) = (IF n = first.next THEN first ELSE Fail)

\* An integer of any width is read without losing a bit (cbor.ts:13, 103-104).
IntegersAreExact ==
    LET first == Decode(input) IN
    first.ok /\ input[1] < 64 =>
        first.value.bytes = Canonical(IF Len(input) = 1 THEN <<input[1] % 32>> ELSE Tail(input))
=============================================================================
