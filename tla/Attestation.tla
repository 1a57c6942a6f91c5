---------------------------- MODULE Attestation -----------------------------
(***************************************************************************)
(* Verifying an attestation statement (server/crypto/attestation.ts), from *)
(* registration's call to its answer, while the clock goes on.  What is    *)
(* signed is named: "response" is authenticatorData and clientDataHash of  *)
(* this ceremony, "u2f" the blob put together from them by hand.           *)
(***************************************************************************)
EXTENDS Certificates

CONSTANTS
    Inputs,      \* format, statement (alg, sig, x5c), credential, roots, requested
    MaxTime      \* bounds the clock

VARIABLES input, clock, began, at, result
vars == <<input, clock, began, at, result>>

Answer(type, trusted) == [code |-> "ok", type |-> type, trusted |-> trusted]
Throw(code) == [code |-> code, type |-> "none", trusted |-> FALSE]
Fail == Throw("attestation_failed")
None == Throw("")

----------------------------------------------------------------------------
(* The parts of a statement                                                *)

X5c == input.statement.x5c
Sig == input.statement.sig
Leaf == X5c.chain[1]

\* Variant: what parsing throws is not wrapped.
GetChainUnwrapped ==
    IF X5c.kind = "absent" THEN "undefined"
    ELSE IF X5c.kind = "malformed" \/ X5c.chain = <<>> THEN "attestation_failed"
    ELSE FirstFailure([i \in 1..Len(X5c.chain) |-> Parse(X5c.chain[i].form)])

\* undefined, ok, or what it throws.
GetChain ==
    IF X5c.kind = "absent" THEN "undefined"
    ELSE IF X5c.kind = "malformed" \/ X5c.chain = <<>> THEN "attestation_failed"
    ELSE IF \E i \in 1..Len(X5c.chain) : Parse(X5c.chain[i].form) # "ok" THEN "attestation_failed"
    ELSE "ok"

InWindow(certificate) == IsValidAt(certificate, clock)

\* digestForAlgorithm, and SHA-256 where the algorithm names none.
Hash(alg) == CASE alg = "ES384" -> "SHA-384" [] alg = "RS1" -> "unsupported_algorithm" [] OTHER -> "SHA-256"

\* Variant: only that there is a signature.
VerifyAnySignature(hash, data) == Sig.kind = "signed"

VerifyWithCertificate(hash, data) ==
    Sig.kind = "signed" /\ Sig.by = Leaf.key /\ Sig.hash = hash /\ Sig.over = data

\* uncompressedECPoint: of a P-256 key only.
HasECPoint == input.credential.alg = "ES256"

\* Variant: the promise of the answer is not awaited.
TrustUnawaited(type) == IF input.roots = <<>> THEN Answer(type, FALSE) ELSE Answer(type, TRUE)

\* chainIsTrusted, and the answer with it.
Trust(type) ==
    IF input.roots = <<>> THEN Answer(type, FALSE)
    ELSE IF \E i \in 1..Len(input.roots) : Parse(input.roots[i].form) # "ok" THEN Throw("configuration_error")
    ELSE IF \E i \in 1..Len(X5c.chain) : ~InWindow(X5c.chain[i]) THEN Fail
    ELSE LET trusted == ChainIsTrusted(X5c.chain, input.roots, clock)
         IN  IF trusted \in {"true", "false"} THEN Answer(type, trusted = "true") ELSE Throw(trusted)

----------------------------------------------------------------------------
(* verifyAttestation, by format: up to its first await, and from there.    *)

Init == input \in Inputs /\ clock = 0 /\ began = 0 /\ at = "waiting" /\ result = None

Done(answer) == at' = "done" /\ result' = answer
GoOn(place) == at' = place /\ UNCHANGED result

BeginPacked ==
    CASE input.statement.alg = "missing" \/ Sig.kind = "missing" -> Done(Fail)
      [] GetChain = "undefined" ->
            IF input.credential.alg # input.statement.alg THEN Done(Fail)
            ELSE IF Sig.kind = "malformed" /\ HasECPoint THEN Done(Throw("bad_signature"))
            ELSE GoOn("self")
      [] GetChain \notin {"undefined", "ok"} -> Done(Throw(GetChain))
      [] GetChain = "ok" ->
            IF ~InWindow(Leaf) \/ Leaf.ca = "true" THEN Done(Fail)
            ELSE IF Leaf.ca = "malformed" THEN Done(Throw("parse_error"))
            ELSE IF Hash(input.statement.alg) = "unsupported_algorithm" THEN Done(Throw("unsupported_algorithm"))
            ELSE GoOn("packed")

BeginU2f ==
    CASE Sig.kind = "missing" -> Done(Fail)
      [] GetChain \notin {"undefined", "ok"} -> Done(Throw(GetChain))
      [] OTHER -> IF GetChain = "undefined" \/ Len(X5c.chain) # 1 THEN Done(Fail)
                  ELSE IF ~InWindow(Leaf) \/ ~HasECPoint THEN Done(Fail)
                  ELSE GoOn("fido-u2f")

BeginApple ==
    CASE GetChain = "ok" -> IF InWindow(Leaf) THEN GoOn("apple") ELSE Done(Fail)
      [] GetChain = "undefined" -> Done(Fail)
      [] OTHER -> Done(Throw(GetChain))

Begin ==
    /\ at = "waiting" /\ began' = clock
    /\ CASE input.format = "none" -> Done(IF input.statement.empty THEN Answer("none", FALSE) ELSE Fail)
         [] input.format = "packed"   -> BeginPacked
         [] input.format = "fido-u2f" -> BeginU2f
         [] input.format = "apple"    -> BeginApple
         [] OTHER -> Done(IF input.requested = "none" THEN Answer("none", FALSE)
                          ELSE Throw("unsupported_feature"))
    /\ UNCHANGED <<input, clock>>

FinishSelf ==
    /\ at = "self"
    /\ Done(IF Sig.kind = "signed" /\ Sig.by = input.credential.key /\ Sig.over = "response" /\ Sig.hash = "SHA-256"
              THEN Answer("self", FALSE) ELSE Fail)

FinishPacked ==
    /\ at = "packed"
    /\ Done(IF VerifyWithCertificate(Hash(input.statement.alg), "response") THEN Trust("basic") ELSE Fail)

FinishU2f ==
    /\ at = "fido-u2f"
    /\ Done(IF VerifyWithCertificate("SHA-256", "u2f") THEN Trust("basic") ELSE Fail)

\* Variant: the nonce is found, the key of the certificate not compared.
AppleByNonce ==
    /\ at = "apple"
    /\ Done(IF Leaf.nonce = "response" /\ HasECPoint THEN Trust("attca") ELSE Fail)

FinishApple ==
    /\ at = "apple"
    /\ Done(IF Leaf.nonce = "malformed" THEN Throw("parse_error")
            ELSE IF Leaf.nonce # "response" \/ ~HasECPoint \/ Leaf.key # input.credential.key THEN Fail
            ELSE Trust("attca"))

Finish == (FinishSelf \/ FinishPacked \/ FinishU2f \/ FinishApple) /\ UNCHANGED <<input, clock, began>>

Tick == clock < MaxTime /\ at # "done" /\ clock' = clock + 1 /\ UNCHANGED <<input, began, at, result>>

Next == Begin \/ Finish \/ Tick
Spec == Init /\ [][Next]_vars

----------------------------------------------------------------------------
\* A statement is accepted for this response and this key, whatever its format: the
\* credential signed the response itself, or the holder of the leaf signed the
\* response or the blob that holds the new key, or the leaf is a certificate of the
\* new key and names the response (attestation.ts:206-337).
AcceptedForThisResponse ==
    result.code = "ok" =>
        CASE result.type = "none"  -> ~result.trusted
          [] result.type = "self"  -> Sig.by = input.credential.key /\ Sig.over = "response"
          [] result.type = "basic" -> Sig.by = Leaf.key /\ Sig.over \in {"response", "u2f"}
          [] result.type = "attca" -> Leaf.nonce = "response" /\ Leaf.key = input.credential.key

\* "trusted" is said only of a chain that at one moment of the call had a proof from
\* a root the site supplied, of a leaf that was valid when the call began as well
\* (attestation.ts:16-18, :49-52).
TrustedIsProven ==
    result.trusted =>
        /\ \E t \in began..clock : HasAProof(X5c.chain, input.roots, t)
        /\ IsValidAt(Leaf, began)

\* Whatever the authenticator sends, the call answers or throws a PasskeyError: a
\* certificate that cannot be read never surfaces as a fault (attestation.ts:104-108).
NoFaultEscapes == result.code # "TypeError"
=============================================================================
