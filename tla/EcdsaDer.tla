------------------------------ MODULE EcdsaDer ------------------------------
(***************************************************************************)
(* The conversion between the DER and the fixed-width form of an ECDSA     *)
(* signature (server/crypto/ecdsa-der.ts).  A byte has Base values instead *)
(* of 256, so that a signature of a curve of Size bytes needs the long     *)
(* form of a length, as P-521 does.                                        *)
(***************************************************************************)
EXTENDS Integers, Sequences

CONSTANTS
    Base,            \* 256, an even number
    Size, Order,     \* CURVES: coordinate width and group order
    Headers, Integers_, Trailers,    \* what a signature is put together from
    SEQUENCE, INTEGER

VARIABLES input, tokens     \* the signature, and how many parts it has so far
vars == <<input, tokens>>

High == Base \div 2                       \* 0x80
ValueOf(digits) == LET v[i \in 0..Len(digits)] == IF i = 0 THEN 0 ELSE Base * v[i - 1] + digits[i]
                   IN  v[Len(digits)]

\* Numbers below the order have Size bytes, and two integers of one more a length
\* of a byte.
ASSUME CurveAssumption ==
    /\ Base \in Nat /\ Base % 2 = 0 /\ Size \in Nat \ {0} /\ 2 * (2 + Size + 1) < Base
    /\ Order \in Nat /\ Order - 1 \in 1..ValueOf([i \in 1..Size |-> Base - 1])
    /\ {SEQUENCE, INTEGER} \subseteq 0..Base - 1
    /\ Headers \cup Integers_ \cup Trailers \subseteq Seq(0..Base - 1)

Malformed == [ok |-> FALSE, value |-> 0, next |-> 0]
At(b, offset) == b[offset + 1]

\* Variant: a leading zero is skipped wherever it stands.
MinimalOrPadded(digits) == digits[1] < High /\ ValueOf(digits) # 0

\* No sign, no redundant zero, and not zero.
Minimal(digits) ==
    /\ digits[1] < High
    /\ digits[1] = 0 => Len(digits) > 1 /\ digits[2] >= High

ReadInteger(b, offset) ==
    IF offset + 1 >= Len(b) THEN Malformed ELSE
    LET length == At(b, offset + 1)
        end == offset + 2 + length
        digits == SubSeq(b, offset + 3, end)
    IN  IF At(b, offset) # INTEGER \/ length \notin 1..High - 1 \/ end > Len(b) THEN Malformed
        ELSE IF ~Minimal(digits) THEN Malformed
        ELSE [ok |-> TRUE, value |-> ValueOf(digits), next |-> end]

\* Variant: the long form begins one later.
ShortestBeyond(lengthBytes, declared) == declared > High

Shortest(lengthBytes, declared) == declared >= High /\ (lengthBytes = 2 => declared >= Base)

\* Where the content starts; 0 if the length is not the shortest form of it.
ContentStart(b) ==
    LET lengthBytes == At(b, 1) - High
        declared == ValueOf(SubSeq(b, 3, 2 + lengthBytes))
    IN  IF At(b, 1) < High THEN (IF 2 + At(b, 1) = Len(b) THEN 2 ELSE 0)
        ELSE IF lengthBytes \notin 1..2 \/ 2 + lengthBytes > Len(b) THEN 0
        ELSE IF Shortest(lengthBytes, declared) /\ 2 + lengthBytes + declared = Len(b)
          THEN 2 + lengthBytes ELSE 0

\* Big-endian in exactly Size bytes, the last one first; nothing may remain.
Remaining(value) ==
    LET left[i \in 0..Size] == IF i = 0 THEN value ELSE left[i - 1] \div Base IN left
ToFixedWidth(value) == [i \in 1..Size |-> Remaining(value)[Size - i] % Base]
FitsTheWidth(value) == Remaining(value)[Size] = 0

InRange(value) == value \in 1..Order - 1

None == <<>>

DerToP1363(b) ==
    IF Len(b) < 8 THEN None
    ELSE IF At(b, 0) # SEQUENCE \/ ContentStart(b) = 0 THEN None
    ELSE LET r == ReadInteger(b, ContentStart(b))
             s == ReadInteger(b, r.next)
         IN  IF /\ r.ok /\ s.ok /\ s.next = Len(b)
                /\ \A value \in {r.value, s.value} : InRange(value) /\ FitsTheWidth(value)
               THEN ToFixedWidth(r.value) \o ToFixedWidth(s.value) ELSE None

EncodeInteger(digits) ==
    LET start == CHOOSE i \in 1..Len(digits) :
                     (i = Len(digits) \/ digits[i] # 0) /\ \A j \in 1..i - 1 : digits[j] = 0
        trimmed == SubSeq(digits, start, Len(digits))
        padded == IF trimmed[1] >= High THEN <<0>> \o trimmed ELSE trimmed
    IN  <<INTEGER, Len(padded)>> \o padded

P1363ToDer(rs) ==
    LET body == EncodeInteger(SubSeq(rs, 1, Size)) \o EncodeInteger(SubSeq(rs, Size + 1, 2 * Size))
    IN  (IF Len(body) < High THEN <<SEQUENCE, Len(body)>> ELSE <<SEQUENCE, High + 1, Len(body)>>) \o body

----------------------------------------------------------------------------
Init == input = <<>> /\ tokens = 0

AddPart ==
    /\ tokens < 4 /\ tokens' = tokens + 1
    /\ \E part \in (CASE tokens = 0 -> Headers [] tokens = 3 -> Trailers [] OTHER -> Integers_) :
           input' = input \o part

Next == AddPart
Spec == Init /\ [][Next]_vars

----------------------------------------------------------------------------
\* One signature has one encoding: what is accepted is the word that the inverse
\* writes for r and s reduced by the group order, byte for byte, and neither is
\* zero (ecdsa-der.ts:10-22).
OneEncoding ==
    LET rs == DerToP1363(input)
        half(i) == ValueOf(SubSeq(rs, i * Size + 1, (i + 1) * Size)) % Order
    IN  rs # None =>
            /\ half(0) # 0 /\ half(1) # 0
            /\ input = P1363ToDer(ToFixedWidth(half(0)) \o ToFixedWidth(half(1)))

\* And every signature in range has it: both forms of the length and both signs
\* of the leading bit are read back (ecdsa-der.ts:123-147).
EverySignatureIsRead ==
    tokens = 0 => \A r, s \in 1..Order - 1 :
        LET rs == ToFixedWidth(r) \o ToFixedWidth(s) IN DerToP1363(P1363ToDer(rs)) = rs
=============================================================================
