-------------------------------- MODULE Asn1 --------------------------------
(***************************************************************************)
(* The DER reader under the certificates (server/crypto/asn1.ts): elements *)
(* and their children, and object identifiers, over every word of a few    *)
(* tokens.                                                                 *)
(***************************************************************************)
EXTENDS Integers, Sequences
S == INSTANCE SequencesExt

CONSTANTS
    Tokens, MaxTokens,
    LargestArc           \* where an arc is too large: 2^53 - 1

VARIABLES input, tokens
vars == <<input, tokens>>

Fail == [ok |-> FALSE]
At(b, offset) == b[offset + 1]
Cut(b, from, to) == SubSeq(b, from + 1, to)

\* Variant: the length bytes belong to the content.
RawFrom(offset, contentStart) == contentStart

HeaderFrom(offset, contentStart) == offset

\* The number that up to four bytes are; above three the input is always too short.
Length(digits) ==
    IF Len(digits) = 4 /\ digits[1] # 0 THEN 2 ^ 24
    ELSE LET v[i \in 0..Len(digits)] == IF i = 0 THEN 0 ELSE 256 * v[i - 1] + digits[i] IN v[Len(digits)]

ReadElement(b, offset) ==
    IF offset + 2 > Len(b) \/ At(b, offset) % 32 = 31 THEN Fail ELSE
    LET tag == At(b, offset)
        first == At(b, offset + 1)
        n == first - 128
        short == first < 128
        start == offset + 2 + (IF short THEN 0 ELSE n)
        length == IF short THEN first ELSE Length(Cut(b, offset + 2, start))
        end == start + length
    IN  IF ~short /\ (n \notin 1..4 \/ start > Len(b)) THEN Fail
        ELSE IF length \notin (IF short THEN 0 ELSE 128)..Len(b) - start THEN Fail
        ELSE [ok |-> TRUE, tag |-> tag, constructed |-> (tag \div 32) % 2 = 1,
              content |-> Cut(b, start, end), raw |-> Cut(b, HeaderFrom(offset, start), end), next |-> end]

\* The loop over the children: where it is and those it has, or that it threw.
NextChild(content, p) ==
    LET child == ReadElement(content, p.at)
    IN  IF ~p.ok \/ p.at >= Len(content) THEN p
        ELSE IF ~child.ok THEN [p EXCEPT !.ok = FALSE]
        ELSE [ok |-> TRUE, at |-> child.next, children |-> Append(p.children, child)]

\* A child takes two bytes at least, so the loop is over after so many turns.
ReadChildren(content) ==
    LET turn[i \in 0..(Len(content) + 1) \div 2] ==
          IF i = 0 THEN [ok |-> TRUE, at |-> 0, children |-> <<>>] ELSE NextChild(content, turn[i - 1])
        last == turn[(Len(content) + 1) \div 2]
    IN  [ok |-> last.ok /\ last.at >= Len(content), children |-> last.children]

----------------------------------------------------------------------------
(* OBJECT IDENTIFIER                                                       *)

\* Variant: arcs may begin with a byte that adds nothing.
ArcMayBeginAny(byte) == TRUE

ArcMayBegin(byte) == byte # 128

\* The loop over the bytes: the subidentifiers that are complete, the one being
\* read, and whether there is one; or that it threw.
NextByte(p, byte) ==
    LET value == p.value * 128 + (byte % 128)
    IN  IF ~p.ok \/ (~p.started /\ ~ArcMayBegin(byte)) \/ p.value > (LargestArc - 127) \div 128
          THEN [p EXCEPT !.ok = FALSE]
        ELSE IF byte < 128
          THEN [p EXCEPT !.done = Append(@, value), !.value = 0, !.started = FALSE]
        ELSE [p EXCEPT !.value = value, !.started = TRUE]

Arcs(bytes) ==
    LET turn[i \in 0..Len(bytes)] ==
          IF i = 0 THEN [ok |-> TRUE, done |-> <<>>, value |-> 0, started |-> FALSE]
          ELSE NextByte(turn[i - 1], bytes[i])
    IN  turn[Len(bytes)]

ReadOID(bytes) ==
    LET arcs == Arcs(bytes)
        packed == arcs.done[1]
        first == IF packed < 80 THEN packed \div 40 ELSE 2
    IN  IF bytes = <<>> THEN Fail
        ELSE IF ~arcs.ok \/ arcs.started THEN Fail
        ELSE [ok |-> TRUE, arcs |-> <<first, packed - 40 * first>> \o Tail(arcs.done)]

----------------------------------------------------------------------------
Init == input = <<>> /\ tokens = 0
Append_(token) == tokens < MaxTokens /\ tokens' = tokens + 1 /\ input' = input \o token
Next == \E token \in Tokens : Append_(token)
Spec == Init /\ [][Next]_vars

----------------------------------------------------------------------------
\* The children of an element cover its content without gap or overlap, and each
\* one's raw bytes read alone are that element: a signature covers exactly the
\* part that was parsed (asn1.ts:43-46, x509.ts:207).
ChildrenTile ==
    LET element == ReadElement(input, 0)
        read == ReadChildren(element.content)
        end(i) == IF i = 0 THEN 0 ELSE read.children[i].next
    IN  element.ok /\ element.constructed /\ read.ok =>
            /\ end(Len(read.children)) = Len(element.content)
            /\ \A i \in 1..Len(read.children) :
                 LET child == read.children[i]
                 IN  /\ child.raw = Cut(element.content, end(i - 1), end(i))
                     /\ ReadElement(child.raw, 0) = [child EXCEPT !.next = Len(child.raw)]

\* An identifier has one spelling: the arcs of an accepted content, packed again,
\* are that content (asn1.ts:121-147); an extension is looked up by its arcs.
OneSpelling ==
    LET oid == ReadOID(input)
        base128[n \in 0..LargestArc] == IF n < 128 THEN <<n>> ELSE
            LET high == base128[n \div 128]
            IN  [i \in DOMAIN high |-> IF i = Len(high) THEN (high[i] % 128) + 128 ELSE high[i]] \o <<n % 128>>
        packed == <<40 * oid.arcs[1] + oid.arcs[2]>> \o SubSeq(oid.arcs, 3, Len(oid.arcs))
    IN  oid.ok =>
            /\ input = S!FlattenSeq([i \in DOMAIN packed |-> base128[packed[i]]])
            /\ oid.arcs[1] < 2 => oid.arcs[2] < 40
=============================================================================
