---------------------------- MODULE MCResponses -----------------------------
(***************************************************************************)
(* What becomes of an authenticator's response: it is decoded              *)
(* (MCDecoders), its key is imported and verified with, its certificates   *)
(* are judged, its attestation statement is verified (Responses), and the  *)
(* checks are traced.  A behaviour is one of these.                        *)
(***************************************************************************)
EXTENDS MCDecoders, Responses

CONSTANTS Parts, c1, c2, c3

VARIABLE part

bytes == <<decoder, vars>>
responses == <<matter, certificates, attestation, keys, trace>>

----------------------------------------------------------------------------
(* Keys.  Bytes have four values; P-256 and Ed25519 have coordinates of    *)
(* two of them, P-384 of three, an RSA modulus two.                        *)

Coordinates == [crv \in {1, 2, 6} |-> IF crv = 2 THEN 3 ELSE 2]
Digits(n) == UNION {[1..k -> {0, 1, 3}] : k \in 0..n}

Key(kty, alg, crv, n, x, y) ==
    [kty |-> kty, alg |-> alg, crv |-> crv, n |-> n, x |-> x, y |-> y, onCurve |-> x # <<0, 3>>]
Presented(key, signature) == [key |-> key, signature |-> signature]

\* A call with any key: every kind and curve against every algorithm, and every
\* number against each kind.
AnyKey ==
    {Presented(Key(kty, alg, crv, n, <<1>>, y), "genuine") :
        kty \in 0..4, alg \in {"ES256", "ES384", "PS256", "EdDSA", "RS1", "missing"}, crv \in {0, 1, 2, 6},
        n \in {<<>>, <<1, 1>>}, y \in {<<>>, <<3, 0>>}}
    \cup {Presented(Key(2, "ES256", 1, <<>>, x, y), signature) :
        x \in Digits(3), y \in Digits(2), signature \in {"genuine", "malformed"}}
    \cup {Presented(Key(2, "ES384", 2, <<>>, x, y), "genuine") : x \in Digits(3), y \in Digits(2)}
    \cup {Presented(Key(3, "PS256", 0, n, e, <<>>), "other") : n \in Digits(3), e \in Digits(2)}
    \cup {Presented(Key(1, "EdDSA", 6, <<>>, x, <<>>), "other") : x \in Digits(3)}

\* Calls side by side: Ed25519 and others, and the question.
SideBySide ==
    {[alg |-> alg] : alg \in {"EdDSA", "ES256", "RS1"}}
    \cup {Presented(Key(1, "EdDSA", 6, <<>>, <<1, 1>>, <<>>), signature) : signature \in {"genuine", "malformed"}}
    \cup {Presented(Key(2, "ES256", 1, <<>>, <<1>>, <<1>>), "genuine")}

MCKeyCalls == AnyKey \cup SideBySide
MCKeyCallers == {c1, c2, c3}

\* One call with any key, or three side by side.
SomeCalls ==
    IF part = "any key"
      THEN {[c \in MCKeyCallers |-> IF c = c1 THEN asked ELSE [alg |-> "ES256"]] : asked \in AnyKey}
      ELSE [MCKeyCallers -> SideBySide]

----------------------------------------------------------------------------
(* Certificates and statements.                                            *)

Good == [children |-> 3, tbs |-> <<"integer", "structure", "structure", "validity", "structure", "key">>]
NoSerial == [children |-> 3, tbs |-> <<>>]
Truncated == [children |-> 2, tbs |-> <<>>]

Cert(subject, key, issuer, signer) ==
    [subject |-> subject, key |-> key, issuer |-> issuer, signer |-> signer, ca |-> "false", notBefore |-> 0,
     notAfter |-> 9, known |-> TRUE, nonce |-> "none", form |-> Good]
Authority(subject, key, issuer, signer) == [Cert(subject, key, issuer, signer) EXCEPT !.ca = "true"]

Root == Authority("R", "kR", "R", "kR")
Middle == Authority("M", "kM", "R", "kR")
Unreadable == [Middle EXCEPT !.ca = "malformed"]
Leaf == Cert("L", "kL", "M", "kM")

\* A root and a namesake with another key, one that is no authority, one that has
\* expired; authorities below, one whose constraints cannot be read; leaves, genuine,
\* forged and of an unknown algorithm.
MCPool ==
    {Root, Authority("R", "kX", "R", "kX"), [Root EXCEPT !.ca = "false"], [Root EXCEPT !.notAfter = 0],
     Middle, [Middle EXCEPT !.ca = "false"], Unreadable, [Middle EXCEPT !.notAfter = 0],
     Authority("M", "kM", "X", "kX"),
     Leaf, [Leaf EXCEPT !.signer = "kX"], [Leaf EXCEPT !.issuer = "R", !.signer = "kR"], [Leaf EXCEPT !.known = FALSE]}

\* Leaves that are genuine, forged, expiring, unreadable, with each nonce, of either key.
Leaves ==
    {Leaf, [Leaf EXCEPT !.signer = "kX"], [Leaf EXCEPT !.notAfter = 1], [Leaf EXCEPT !.notBefore = 1],
     [Leaf EXCEPT !.ca = "true"], [Leaf EXCEPT !.ca = "malformed"], [Leaf EXCEPT !.known = FALSE],
     [Leaf EXCEPT !.form = NoSerial], [Leaf EXCEPT !.form = Truncated]}
    \cup {[Leaf EXCEPT !.key = key, !.nonce = nonce] :
             key \in {"kL", "kCred"}, nonce \in {"response", "other", "malformed"}}

List(certs) == [kind |-> "list", chain |-> certs]
Absent == [kind |-> "absent", chain |-> <<>>]
Chains ==
    {Absent, [kind |-> "malformed", chain |-> <<>>], List(<<>>), List(<<Leaf, Unreadable>>)}
    \cup {List(<<leaf>>) : leaf \in Leaves} \cup {List(<<leaf, Middle>>) : leaf \in Leaves}
    \cup {List(<<leaf, [Middle EXCEPT !.notAfter = 1]>>) : leaf \in Leaves}

Signed(by, hash, over) == [kind |-> "signed", by |-> by, hash |-> hash, over |-> over]
Unsigned(kind) == [kind |-> kind, by |-> "", hash |-> "", over |-> ""]
Signatures ==
    {Unsigned("missing"), Unsigned("malformed"), Signed("kL", "SHA-384", "response")}
    \cup {Signed(by, "SHA-256", over) : by \in {"kCred", "kL", "kX"}, over \in {"response", "u2f", "other"}}

Statement(alg, sig, x5c) == [empty |-> FALSE, alg |-> alg, sig |-> sig, x5c |-> x5c]
NothingStated == [Statement("missing", Unsigned("missing"), Absent) EXCEPT !.empty = TRUE]
Input(format, requested, stated, alg, anchors) ==
    [format |-> format, requested |-> requested, statement |-> stated,
     credential |-> [key |-> "kCred", alg |-> alg], roots |-> anchors]

Anchors == {<<>>, <<Root>>, <<Middle>>, <<[Root EXCEPT !.form = NoSerial]>>}
CredentialAlgs == {"ES256", "RS256"}

\* What a format does not look at is fixed.
MCStatements ==
    {Input("packed", "direct", Statement(alg, sig, x5c), key, anchors) :
        alg \in {"missing", "ES256", "ES384", "RS1"}, sig \in Signatures, x5c \in Chains,
        key \in CredentialAlgs, anchors \in Anchors}
    \cup {Input("fido-u2f", "direct", Statement("ES256", sig, x5c), key, anchors) :
        sig \in Signatures, x5c \in Chains, key \in CredentialAlgs, anchors \in Anchors}
    \cup {Input("apple", "direct", Statement("ES256", Unsigned("missing"), x5c), key, anchors) :
        x5c \in Chains, key \in CredentialAlgs, anchors \in Anchors}
    \cup {Input(format, requested, Statement("ES256", Unsigned("missing"), Absent), key, <<>>) :
        format \in {"tpm", "none"}, requested \in {"none", "direct"}, key \in CredentialAlgs}
    \cup {Input("none", "direct", NothingStated, "ES256", <<>>)}

MCShown == Leaves \cup {Middle, Unreadable, [Middle EXCEPT !.notAfter = 1], Root, [Root EXCEPT !.form = NoSerial]}

\* Up to two flaws.
MCFlaws == {{}} \cup {{i, j} : i, j \in 1..40}

----------------------------------------------------------------------------
\* What stays away from a part begins as something fixed.
MCInit ==
    /\ part \in Parts
    /\ IF part = "bytes" THEN DecodersInit ELSE decoder = "none" /\ Init
    /\ matter = (CASE part \in {"any key", "keys"} -> "keys" [] part = "bytes" -> "certificates" [] OTHER -> part)
    /\ matter = "keys" => call \in SomeCalls
    /\ ResponsesInit

MCNext ==
    /\ UNCHANGED part
    /\ \/ part = "bytes" /\ DecodersNext /\ UNCHANGED responses
       \/ part # "bytes" /\ ResponsesNext /\ UNCHANGED bytes
    /\ part = "any key" => \A c \in {c2, c3} : at'[c] = at[c]

MCSpec == MCInit /\ [][MCNext]_<<part, bytes, responses>>
=============================================================================
