----------------------------- MODULE Responses ------------------------------
(***************************************************************************)
(* The trust in an authenticator's response, for any certificates,         *)
(* statements, keys and flaws: chains are judged, attestation statements   *)
(* are verified, keys are imported and verified with, and the checks of a  *)
(* ceremony are traced.  Each is one subject.                              *)
(***************************************************************************)
EXTENDS Integers, Sequences

CONSTANTS
    Matters,                         \* "certificates", "attestation", "keys", "trace"
    Pool, LongestChain, MostRoots,   \* the certificates, and how many are presented and supplied
    Statements, MaxTime,             \* of Attestation
    Shown,                           \* the certificates and the roots of Statements
    KeyBase, ModulusBytes, CoordinateSize, Offered, KeyCallers, KeyCalls,   \* of CoseKeys
    Flaws                            \* of VerificationTrace

ASSUME ResponsesAssumption ==
    /\ Matters \subseteq {"certificates", "attestation", "keys", "trace"}
    /\ MaxTime \in Nat
    /\ \A s \in Statements : s.statement.x5c.chain \in Seq(Shown) /\ s.roots \in Seq(Shown)
    /\ KeyBase \in Nat /\ ModulusBytes \in Nat \ {0, 1}
    /\ \A curve \in {1, 2, 6} : CoordinateSize[curve] \in Nat
    /\ Offered \subseteq {"Ed25519", "NODE-ED25519"}
    /\ \A c \in KeyCalls : "key" \in DOMAIN c =>
          c.key.n \in Seq(0..KeyBase - 1) /\ c.key.x \in Seq(0..KeyBase - 1) /\ c.key.y \in Seq(0..KeyBase - 1)

VARIABLES
    matter,
    chain, roots,                            \* certificates
    statement, clock, began, place, answer,  \* of Attestation
    ed25519Name, call, at, result,           \* of CoseKeys
    ceremony, flaws, challenge, step, events, done, outcome    \* of VerificationTrace

certificates == <<chain, roots>>
attestation == <<statement, clock, began, place, answer>>
keys == <<ed25519Name, call, at, result>>
trace == <<ceremony, flaws, challenge, step, events, done, outcome>>

T == INSTANCE Attestation WITH Inputs <- Statements, input <- statement, at <- place, result <- answer
K == INSTANCE CoseKeys WITH Base <- KeyBase, Callers <- KeyCallers, Calls <- KeyCalls
V == INSTANCE VerificationTrace WITH at <- step

----------------------------------------------------------------------------
Present == Len(chain) < LongestChain /\ (\E c \in Pool : chain' = Append(chain, c)) /\ UNCHANGED roots
Supply == Len(roots) < MostRoots /\ (\E c \in Pool : roots' = Append(roots, c)) /\ UNCHANGED chain

\* What stays away from a matter begins as something fixed.
AnyStatement ==
    [format |-> "none", requested |-> "none", roots |-> <<>>, credential |-> [key |-> "none", alg |-> "none"],
     statement |-> [empty |-> TRUE, alg |-> "none", sig |-> [kind |-> "missing"],
                    x5c |-> [kind |-> "absent", chain |-> <<>>]]]
AnyQuestion == [c \in KeyCallers |-> [alg |-> "none"]]

ResponsesInit ==
    /\ matter \in Matters
    /\ chain = <<>> /\ roots = <<>>
    /\ IF matter = "attestation" THEN T!Init
       ELSE statement = AnyStatement /\ clock = 0 /\ began = 0 /\ place = "waiting" /\ answer = T!None
    /\ IF matter = "keys" THEN K!Init
       ELSE /\ ed25519Name = "undefined" /\ call = AnyQuestion
            /\ at = [c \in KeyCallers |-> "begin"] /\ result = [c \in KeyCallers |-> "none"]
    /\ IF matter = "trace" THEN V!Init
       ELSE /\ ceremony = "registration" /\ flaws = {} /\ challenge = "none" /\ step = 1
            /\ events = <<>> /\ done = {} /\ outcome = "none"

ResponsesNext ==
    /\ UNCHANGED matter
    /\ \/ matter = "certificates" /\ (Present \/ Supply) /\ UNCHANGED <<attestation, keys, trace>>
       \/ matter = "attestation" /\ T!Next /\ UNCHANGED <<certificates, keys, trace>>
       \/ matter = "keys" /\ K!Next /\ UNCHANGED <<certificates, attestation, trace>>
       \/ matter = "trace" /\ V!Next /\ UNCHANGED <<certificates, attestation, keys>>

ResponsesSpec == ResponsesInit /\ [][ResponsesNext]_<<matter, certificates, attestation, keys, trace>>

----------------------------------------------------------------------------
\* Trust is proven, in a chain and in a statement, and another root never takes it
\* away (x509.ts:368-405, attestation.ts:49-52).
TrustIsProven ==
    /\ \A t \in 0..MaxTime : T!TrustHasAProof(chain, roots, t)
    /\ \A t \in 0..MaxTime, root \in Pool : T!MoreRootsTrustMore(chain, roots, root, t)
    /\ T!TrustedIsProven

\* A statement is accepted for this response only, and whatever it holds the call
\* answers or throws a PasskeyError (attestation.ts:206-337, 104-108).
StatementsAreJudged == T!AcceptedForThisResponse /\ T!NoFaultEscapes

\* A key is imported with the numbers it was sent with, and a key that was
\* imported is verified with (cose.ts:166-195, 309, 370).
KeysServe == K!KeepsTheNumbers /\ K!ImportedIsVerified

\* What is accepted has passed every check of the registry, accounts and passkeys
\* change after the last, checks are reached in the order and refuse with the
\* codes of the registry but for three, and the trace tells where it stopped and
\* whether the challenge is spent (trace.ts:1-16, checks.ts:26, 31,
\* registration.ts:198-200, 387, store.ts:242-249).
TraceTellsTheTruth ==
    /\ V!AcceptedPassedEveryCheck /\ V!ChangesComeLast
    /\ V!SpentIfFound /\ V!TraceStopsAtFailure /\ V!FollowsTheRegistry
=============================================================================
