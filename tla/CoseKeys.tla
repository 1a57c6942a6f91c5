------------------------------ MODULE CoseKeys ------------------------------
(***************************************************************************)
(* COSE keys and signatures over WebCrypto (server/crypto/cose.ts): calls  *)
(* that run side by side read a key, import it and verify a signature, or  *)
(* only ask whether an algorithm can be verified, and share the cached     *)
(* name of Ed25519.  A byte has Base values.                               *)
(***************************************************************************)
EXTENDS Integers, Sequences

CONSTANTS
    Base, ModulusBytes,     \* 256 and the 256 bytes of an RSA modulus
    CoordinateSize,         \* of each curve of EC_CURVES
    Offered,                \* the names of Ed25519 the runtime's importKey knows
    Callers, Calls          \* what is asked: [alg] or [key, signature]

VARIABLES
    ed25519Name,     \* undefined, null while no name is known, or the name
    call, at, result
vars == <<ed25519Name, call, at, result>>

Candidates == <<"Ed25519", "NODE-ED25519">>
OKP == 1
EC2 == 2
RSA == 3
P256 == 1
P384 == 2
Ed25519 == 6

\* Three of the ECDSA, and of the seven RSA algorithms two; the others differ in
\* their hash.
ALGORITHMS == [ES256 |-> [keyType |-> EC2, curve |-> P256, family |-> "ECDSA"],
               ES384 |-> [keyType |-> EC2, curve |-> P384, family |-> "ECDSA"],
               EdDSA |-> [keyType |-> OKP, curve |-> Ed25519, family |-> "Ed25519"],
               RS256 |-> [keyType |-> RSA, curve |-> 0, family |-> "RSASSA-PKCS1-v1_5"],
               PS256 |-> [keyType |-> RSA, curve |-> 0, family |-> "RSA-PSS"]]
Known(alg) == alg \in DOMAIN ALGORITHMS

----------------------------------------------------------------------------
(* Reading a key: a map of labels to integers and to bytes.  RSA has its   *)
(* modulus and exponent where the others have their curve and x.           *)

Refused(code) == [code |-> code]
Missing == 0

\* Variant: the padding goes after the digits.
PadAfter(value, size) == [i \in 1..size |-> IF i <= Len(value) THEN value[i] ELSE 0]

PadCoordinate(value, size) ==
    [i \in 1..size |-> IF i <= size - Len(value) THEN 0 ELSE value[i - size + Len(value)]]

StripLeadingZeros(value) ==
    LET start == CHOOSE i \in 1..Len(value) :
                     (i = Len(value) \/ value[i] # 0) /\ \A j \in 1..i - 1 : value[j] = 0
    IN  SubSeq(value, start, Len(value))

\* What importKey is given.
ReadECKey(key, spec) ==
    LET size == CoordinateSize[spec.curve]
        Fits(value) == Len(value) \in 1..size
    IN  IF key.crv # spec.curve THEN Refused("parse_error")
        ELSE IF ~Fits(key.x) \/ ~Fits(key.y) THEN Refused("parse_error")
        ELSE [code |-> "ok", x |-> PadCoordinate(key.x, size), y |-> PadCoordinate(key.y, size)]

ReadOKPKey(key) ==
    IF key.crv = Missing THEN Refused("parse_error")
    ELSE IF key.crv # Ed25519 THEN Refused("unsupported_algorithm")
    ELSE IF Len(key.x) # CoordinateSize[Ed25519] THEN Refused("parse_error")
    ELSE [code |-> "ok", x |-> key.x, y |-> <<>>]

\* Variant: the length is taken with the zeros in front.
ReadRSAKeyAsSent(key) ==
    IF Len(key.n) < ModulusBytes \/ key.x = <<>> THEN Refused("parse_error")
    ELSE [code |-> "ok", x |-> StripLeadingZeros(key.n), y |-> StripLeadingZeros(key.x)]

ReadRSAKey(key) ==
    IF key.n = <<>> \/ key.x = <<>> THEN Refused("parse_error")
    ELSE LET n == StripLeadingZeros(key.n)
         IN  IF Len(n) < ModulusBytes THEN Refused("parse_error")
             ELSE [code |-> "ok", x |-> n, y |-> StripLeadingZeros(key.x)]

ReadKey(key) ==
    IF key.kty = Missing \/ key.alg = "missing" THEN Refused("parse_error")
    ELSE IF ~Known(key.alg) THEN Refused("unsupported_algorithm")
    ELSE LET spec == ALGORITHMS[key.alg]
         IN  IF spec.keyType # key.kty THEN Refused("parse_error")
             ELSE CASE key.kty = EC2 -> ReadECKey(key, spec)
                    [] key.kty = OKP -> ReadOKPKey(key)
                    [] key.kty = RSA -> ReadRSAKey(key)

----------------------------------------------------------------------------
(* The calls                                                               *)

Init ==
    /\ ed25519Name = "undefined"
    /\ call \in [Callers -> Calls]
    /\ at = [c \in Callers |-> "begin"] /\ result = [c \in Callers |-> "none"]

IsQuestion(c) == "key" \notin DOMAIN call[c]
AlgOf(c) == IF IsQuestion(c) THEN call[c].alg ELSE call[c].key.alg
Family(c) == ALGORITHMS[AlgOf(c)].family

End(c, outcome) == at' = [at EXCEPT ![c] = "done"] /\ result' = [result EXCEPT ![c] = outcome]
Go(c, place) == at' = [at EXCEPT ![c] = place] /\ UNCHANGED result

NoEd25519(c) == End(c, IF IsQuestion(c) THEN "false" ELSE "unsupported_algorithm")

\* Variant: the name is looked up again while one is known.
ResolveAfresh(c, next, probing) ==
    IF ed25519Name = "null" THEN UNCHANGED ed25519Name /\ NoEd25519(c)
    ELSE ed25519Name' = "null" /\ Go(c, probing)

\* resolveEd25519Name up to its first await.
Resolve(c, next, probing) ==
    CASE ed25519Name = "undefined" -> ed25519Name' = "null" /\ Go(c, probing)
      [] ed25519Name = "null"      -> UNCHANGED ed25519Name /\ NoEd25519(c)
      [] OTHER                     -> UNCHANGED ed25519Name /\ next

\* The first await of canVerifyAlgorithm and of parseCOSEPublicKey.
Ask(c) ==
    /\ at[c] = "begin" /\ IsQuestion(c)
    /\ IF Known(AlgOf(c)) /\ Family(c) = "Ed25519" THEN Resolve(c, End(c, "true"), "probing 1")
       ELSE End(c, IF Known(AlgOf(c)) THEN "true" ELSE "false") /\ UNCHANGED ed25519Name
    /\ UNCHANGED call

Parse(c) ==
    /\ at[c] = "begin" /\ ~IsQuestion(c)
    /\ LET jwk == ReadKey(call[c].key)
       IN  IF jwk.code # "ok" THEN End(c, jwk.code) /\ UNCHANGED ed25519Name
           ELSE IF Family(c) = "Ed25519" THEN Resolve(c, Go(c, "importing"), "probing 1")
           ELSE Go(c, "importing") /\ UNCHANGED ed25519Name
    /\ UNCHANGED call

\* importKey has answered for one of the names.
Probed(c, i) ==
    /\ at[c] = (IF i = 1 THEN "probing 1" ELSE "probing 2")
    /\ IF Candidates[i] \in Offered
         THEN /\ ed25519Name' = Candidates[i]
              /\ IF IsQuestion(c) THEN End(c, "true") ELSE Go(c, "importing")
         ELSE /\ UNCHANGED ed25519Name
              /\ IF i = 1 THEN Go(c, "probing 2") ELSE NoEd25519(c)
    /\ UNCHANGED call

\* The platform checks the point; the parsed key goes on to verifySignature.
Import(c) ==
    /\ at[c] = "importing"
    /\ IF call[c].key.onCurve THEN Go(c, "parsed") ELSE End(c, "parse_error")
    /\ UNCHANGED <<ed25519Name, call>>

\* verifySignature up to its first await; derToP1363 stands before the try.
Verify(c) ==
    /\ at[c] = "parsed"
    /\ CASE Family(c) = "ECDSA" /\ call[c].signature = "malformed" ->
                End(c, "bad_signature") /\ UNCHANGED ed25519Name
         [] Family(c) = "Ed25519" -> Resolve(c, Go(c, "verifying"), "probing 1")
         [] OTHER -> Go(c, "verifying") /\ UNCHANGED ed25519Name
    /\ UNCHANGED call

\* subtle.verify, whose exceptions are caught.
Verified(c) ==
    /\ at[c] = "verifying"
    /\ End(c, IF call[c].signature = "genuine" THEN "true" ELSE "false")
    /\ UNCHANGED <<ed25519Name, call>>

Over == (\A c \in Callers : at[c] = "done") /\ UNCHANGED vars

Next == Over \/ \E c \in Callers : Ask(c) \/ Parse(c) \/ Probed(c, 1) \/ Probed(c, 2)
                                   \/ Import(c) \/ Verify(c) \/ Verified(c)
Spec == Init /\ [][Next]_vars

----------------------------------------------------------------------------
Value(digits) == LET v[i \in 0..Len(digits)] == IF i = 0 THEN 0 ELSE Base * v[i - 1] + digits[i]
                 IN  v[Len(digits)]
Passed(c) == ~IsQuestion(c) /\ at[c] \in {"importing", "parsed", "verifying"}
ReadAs(c) == ReadKey(call[c].key)

\* The key that is imported is the key that was sent: whatever zeros its numbers
\* were sent with, they have the curve's width, or none in front for RSA, and their
\* value is unchanged (cose.ts:166-195).
KeepsTheNumbers ==
    \A c \in Callers : Passed(c) =>
        LET key == call[c].key
            isRSA == key.kty = RSA
            from == IF isRSA THEN key.n ELSE key.x
            second == IF isRSA THEN key.x ELSE IF key.kty = EC2 THEN key.y ELSE <<>>
        IN  /\ Value(ReadAs(c).x) = Value(from) /\ Value(ReadAs(c).y) = Value(second)
            /\ isRSA => Len(ReadAs(c).x) >= ModulusBytes /\ ReadAs(c).x[1] # 0
            /\ ~isRSA => Len(ReadAs(c).x) = CoordinateSize[ALGORITHMS[key.alg].curve]

\* A key that was imported is verified with: the name it was imported under is
\* still known when its signature is checked, however many other calls ran in
\* between (cose.ts:309 and :370).
ImportedIsVerified ==
    \A c \in Callers : at[c] \in {"parsed", "verifying"} /\ Family(c) = "Ed25519" =>
        ed25519Name \in Offered

=============================================================================
