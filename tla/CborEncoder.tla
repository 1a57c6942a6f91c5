----------------------------- MODULE CborEncoder -----------------------------
(***************************************************************************)
(* The encoder of the test kit (testing/cbor-encode.ts), which was written *)
(* apart from the decoder so that they check each other.                   *)
(***************************************************************************)
EXTENDS Cbor

\* Variant: 24 still fits the head byte.
HeadWide(major, d) ==
    CASE d = <<>>                   -> <<32 * major>>
      [] Len(d) = 1 /\ d[1] <= 24   -> <<32 * major + d[1]>>
      [] Len(d) = 1 /\ d[1] > 24    -> <<32 * major + 24>> \o d
      [] Len(d) = 2                 -> <<32 * major + 25>> \o d
      [] OTHER                      -> <<32 * major + 26>> \o [i \in 1..4 - Len(d) |-> 0] \o d

HeadOf(major, d) ==
    CASE d = <<>>                   -> <<32 * major>>
      [] Len(d) = 1 /\ d[1] < 24    -> <<32 * major + d[1]>>
      [] Len(d) = 1 /\ d[1] >= 24   -> <<32 * major + 24>> \o d
      [] Len(d) = 2                 -> <<32 * major + 25>> \o d
      [] OTHER                      -> <<32 * major + 26>> \o [i \in 1..4 - Len(d) |-> 0] \o d

Count(n) == Canonical(<<n>>)

Shorter(p, q) ==
    \/ Len(p[1]) < Len(q[1])
    \/ /\ Len(p[1]) = Len(q[1])
       /\ \E i \in 1..Len(p[1]) : p[1][i] < q[1][i] /\ \A j \in 1..i - 1 : p[1][j] = q[1][j]

RECURSIVE Encodable(_), EncodeCBOR(_)
Encodable(v) ==
    /\ v.type \in {"number", "negative", "text", "bytes", "simple", "array", "map"}
    /\ v.type \in {"number", "negative"} => Len(v.bytes) <= 4
    /\ v.type = "simple" => v.bytes # <<23>>
    /\ \A i \in DOMAIN v.items : Encodable(v.items[i])

EncodeCBOR(v) ==
    LET parts == [i \in DOMAIN v.items |-> EncodeCBOR(v.items[i])]
        pairs == [i \in 1..Len(parts) \div 2 |-> <<parts[2 * i - 1], parts[2 * i]>>]
    IN  CASE v.type = "number"   -> HeadOf(0, v.bytes)
          [] v.type = "negative" -> HeadOf(1, v.bytes)
          [] v.type = "bytes"    -> HeadOf(2, Count(Len(v.bytes))) \o v.bytes
          [] v.type = "text"     -> HeadOf(3, Count(Len(v.bytes))) \o v.bytes
          [] v.type = "array"    -> HeadOf(4, Count(Len(parts))) \o S!FlattenSeq(parts)
          [] v.type = "map"      -> HeadOf(5, Count(Len(pairs))) \o S!FlattenSeq(S!FlattenSeq(S!SortSeq(pairs, Shorter)))
          [] v.type = "simple"   -> <<224 + v.bytes[1]>>

----------------------------------------------------------------------------
\* Whatever is accepted, written again in canonical form, is accepted, is no
\* longer, and stays as it is when that is repeated (cbor-encode.ts:1-8).
CanonicalForm ==
    LET first == Decode(input)
        once == EncodeCBOR(first.value)
    IN  first.ok /\ Encodable(first.value) =>
            /\ Len(once) <= Len(input)
            /\ Decode(once).ok /\ EncodeCBOR(Decode(once).value) = once
==============================================================================
