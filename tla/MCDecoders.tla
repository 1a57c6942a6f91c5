----------------------------- MODULE MCDecoders -----------------------------
(***************************************************************************)
(* The decoders on words of a few tokens, and what they accept written     *)
(* again.                                                                  *)
(***************************************************************************)
EXTENDS Decoders

Byte(b) == <<b>>

CE == INSTANCE CborEncoder WITH Tokens <- Items, MaxTokens <- MaxTokens["cbor items"]

----------------------------------------------------------------------------
(* Tokens.                                                                 *)

\* 0, 24, a byte string and a text of one byte, both without a length, an array
\* of one and one without a length, a tag, true, a break and a text's letter.
MCItems == {Byte(b) : b \in {0, 24, 65, 97, 95, 127, 129, 159, 192, 255}}

\* 0, 24, -1, a map of two and without a length, a half, a break, and the
\* beginning of 2^53 - 1 (which a byte of 255 completes) and above.
MCNumbers == {Byte(b) : b \in {0, 24, 32, 162, 191, 249, 255}}
           \cup {<<27, 0, 31, 255, 255, 255, 255, 255>>, <<27, 0, 32, 0, 0, 0, 0, 0>>}

\* A hash of one byte, every combination of the flags that are looked at, and a
\* counter of one byte.
MCDataHeaders == {<<9, 1 + b + s + a + e, 5>> : b \in {0, 8}, s \in {0, 16}, a \in {0, 64}, e \in {0, 128}}

\* An AAGUID, alone and with an id of 0, 1 and 3 bytes, a byte, a key {1: 2}, an
\* empty map, and an array of one.
MCPieces == {<<4>>, <<4, 0, 0>>, <<4, 0, 1, 4>>, <<4, 0, 3>>, <<161, 1, 2>>, <<160>>, <<129>>}

\* Lengths in the short form, in the long form with one and two bytes, right and
\* wrong; the indefinite form; and one that announces more bytes than are there.
AllHeaders == {<<3, x>> : x \in 0..15}
              \cup {<<3, x, y>> : x \in {8, 9, 11}, y \in 5..9}
              \cup {<<3, 10, x, y>> : x \in 0..1, y \in 6..9}

\* One byte; two with a leading zero, needed or not; none; more than there are.
AllIntegers == {<<2, 1, x>> : x \in {0, 1, 7, 8, 12, 13}}
               \cup {<<2, 2, 0, x>> : x \in {0, 7, 8, 12, 13}}
               \cup {<<2, 2, 1, 0>>, <<2, 0>>, <<2, 9, 1>>, <<4, 1, 1>>}
AllTrailers == {<<0>>, <<2, 1, 1>>}

\* A sequence and an octet string by tag and length, short and long, right and
\* wrong; single bytes; and enough zeros for the long form.
MCElements == {<<48, n>> : n \in {0, 2, 3, 4, 6}}
            \cup {<<48, 129, 131>>, <<48, 130, 0, 131>>, <<4, 0>>, <<4, 1>>, <<4, 129, 128>>, <<4, 128>>, <<31, 0>>, <<9>>,
                  [i \in 1..128 |-> 0]}

\* Around the bounds of a byte of an arc, of 40 and of 80.
MCArcBytes == {Byte(b) : b \in {0, 1, 39, 40, 79, 80, 119, 127, 128, 129, 255}}

MCMaxTokens ==
    [d \in {"signature", "cbor items", "cbor numbers", "authenticator data", "der elements", "der oids", "base64url"} |->
        CASE d \in {"cbor items", "cbor numbers"} -> 5 [] d = "base64url" -> 6 [] OTHER -> 4]

----------------------------------------------------------------------------
\* What is accepted can be written again: CBOR survives canonical encoding, and
\* base64url loses no bit and skips no character (cbor-encode.ts:1-8,
\* base64url.ts:49-90).
NothingIsLost ==
    /\ decoder \in {"cbor items", "cbor numbers"} => CE!CanonicalForm
    /\ decoder = "base64url" => BU!RoundTrip /\ BU!NothingIsSkipped
=============================================================================
