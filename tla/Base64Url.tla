----------------------------- MODULE Base64Url -----------------------------
(***************************************************************************)
(* base64url (shared/base64url.ts) over every text of a few characters,    *)
(* and the way of a challenge: issued as a text, decoded by the browser    *)
(* package (client/encoding.ts), written into clientDataJSON by a browser, *)
(* and looked up and compared by the server (crypto/client-data.ts).       *)
(***************************************************************************)
EXTENDS Integers, Sequences

CONSTANTS Characters, MaxLength

VARIABLE text
vars == <<text>>

Url == {"A", "B", "Q", "g", "w", "9", "-", "_"}        \* the ALPHABET's part here

\* LOOKUP takes both alphabets.
Sextet(c) ==
    CASE c = "A" -> 0 [] c = "B" -> 1 [] c = "Q" -> 16 [] c = "g" -> 32 [] c = "w" -> 48 [] c = "9" -> 61
      [] c \in {"-", "+"} -> 62 [] c \in {"_", "/"} -> 63 [] OTHER -> -1
Letter(sextet) == CHOOSE c \in Url : Sextet(c) = sextet

\* The texts of a few characters have the sextets of these only.
Sextets == {Sextet(c) : c \in Url}

\* The end of the text before any padding.
End(t) == CHOOSE n \in 0..Len(t) :
              (n = 0 \/ t[n] # "=") /\ \A i \in n + 1..Len(t) : t[i] = "="

\* Variant: a rest of two characters gives its low bits.
RestByteLow(t, i) == Sextet(t[i]) * 4 + (Sextet(t[i + 1]) % 4)

RestByte(t, i) == Sextet(t[i]) * 4 + Sextet(t[i + 1]) \div 16

Bad == [ok |-> FALSE]

\* Variant: a lone last character is dropped.
WholeOrDropped(end) == TRUE

Whole(end) == end % 4 # 1

\* Byte i of a text: of the group of four it lies in, or of the rest.
FromBase64Url(t) ==
    LET end == End(t)
        byte(i) ==
          LET g == 4 * ((i - 1) \div 3)
          IN  CASE i % 3 = 1 -> RestByte(t, g + 1)
                [] i % 3 = 2 -> (Sextet(t[g + 2]) % 16) * 16 + Sextet(t[g + 3]) \div 4
                [] i % 3 = 0 -> (Sextet(t[g + 3]) % 4) * 64 + Sextet(t[g + 4])
    IN  IF ~Whole(end) \/ \E i \in 1..end : Sextet(t[i]) < 0 THEN Bad
        ELSE [ok |-> TRUE, bytes |-> [i \in 1..(3 * end) \div 4 |-> byte(i)]]

\* As sextets; Letter spells them.
ToSextets(bytes) ==
    LET n == Len(bytes)
        at(i) == IF i <= n THEN bytes[i] ELSE 0
        sextet(k) ==
          LET g == 3 * ((k - 1) \div 4)
          IN  CASE k % 4 = 1 -> at(g + 1) \div 4
                [] k % 4 = 2 -> (at(g + 1) % 4) * 16 + at(g + 2) \div 16
                [] k % 4 = 3 -> (at(g + 2) % 16) * 4 + at(g + 3) \div 64
                [] k % 4 = 0 -> at(g + 3) % 64
    IN  [k \in 1..(4 * n + 2) \div 3 |-> sextet(k)]

ToBase64Url(bytes) == [k \in DOMAIN ToSextets(bytes) |-> Letter(ToSextets(bytes)[k])]
Spellable(bytes) == \A k \in DOMAIN ToSextets(bytes) : ToSextets(bytes)[k] \in Sextets

----------------------------------------------------------------------------
(* The way of a challenge: the browser has the bytes, and signs a text.    *)

\* toBuffer (encoding.ts:25-28) of what was issued.
ToBuffer(issued) == FromBase64Url(issued).bytes

ChallengeMatches(signed, expected) ==
    \/ signed = expected
    \/ /\ FromBase64Url(signed).ok /\ FromBase64Url(expected).ok
       /\ FromBase64Url(signed).bytes = FromBase64Url(expected).bytes

\* The row is looked up by the signed text, then compared (registration.ts:200-225).
FoundAndMatched(signed, issued) == signed = issued /\ ChallengeMatches(signed, issued)

----------------------------------------------------------------------------
Init == text = <<>>
Type(c) == Len(text) < MaxLength /\ text' = Append(text, c)
Next == \E c \in Characters : Type(c)
Spec == Init /\ [][Next]_vars

----------------------------------------------------------------------------
\* No byte is lost either way: what a text decodes to is spelled by a text no
\* longer, without padding, that decodes to the same (base64url.ts:49-54); and a
\* challenge comes back from the browser as the text it was issued as.
RoundTrip ==
    LET d == FromBase64Url(text) IN
    d.ok /\ Spellable(d.bytes) =>
        /\ FromBase64Url(ToBase64Url(d.bytes)) = d
        /\ Len(ToBase64Url(d.bytes)) <= Len(text)
        /\ LET issued == ToBase64Url(d.bytes)
           IN  FoundAndMatched(ToBase64Url(ToBuffer(issued)), issued)

\* Nothing but padding is skipped: every character of an accepted text is one of
\* the alphabets, and the two alphabets differ in two letters only, so the text
\* is what it decodes to, up to the bits that a last letter has to spare.
NothingIsSkipped ==
    LET d == FromBase64Url(text)
        n == End(text)
        whole == IF n % 4 = 0 THEN n ELSE n - 1
    IN  d.ok => /\ Len(ToSextets(d.bytes)) = n
                /\ \A k \in 1..whole : ToSextets(d.bytes)[k] = Sextet(text[k])
=============================================================================
