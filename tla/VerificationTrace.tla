------------------------- MODULE VerificationTrace --------------------------
(***************************************************************************)
(* The registry of checks (shared/checks.ts), the trace that a verifier    *)
(* leaves in it (shared/trace.ts), and the two verifiers as the sequences  *)
(* of steps that they are: verifyRegistration (server/registration.ts) and *)
(* verifyAuthentication (server/authentication.ts).  A response has flaws, *)
(* each of which one step would refuse.                                    *)
(***************************************************************************)
EXTENDS Naturals, Sequences

CONSTANT Flaws           \* sets of places, each the flaws of a response

VARIABLES
    ceremony, flaws,     \* flaws: the places of the steps that fail
    challenge,           \* the row the response asks for: live, expired or none
    at, events, done,    \* done: what has been changed for the account
    outcome              \* none, accepted or the code of the error thrown
vars == <<ceremony, flaws, challenge, at, events, done, outcome>>

----------------------------------------------------------------------------
(* The registry: the checks of each ceremony in order, with their codes.   *)

Registered(id, code) == [id |-> id, code |-> code]

REGISTRATION ==
    << Registered("response_well_formed", "malformed_response"), Registered("challenge_found", "challenge_not_found"),
       Registered("challenge_kind", "type_mismatch"), Registered("challenge_matches", "challenge_mismatch"),
       Registered("client_data_type", "type_mismatch"), Registered("origin_allowed", "origin_mismatch"),
       Registered("not_cross_origin", "origin_mismatch"), Registered("attestation_object_shape", "parse_error"),
       Registered("rp_id_hash", "rpid_mismatch"), Registered("user_present", "user_not_present"),
       Registered("user_verified", "user_not_verified"), Registered("backup_flags_consistent", "parse_error"),
       Registered("backup_eligible_required", "attestation_failed"), Registered("attested_data_present", "parse_error"),
       Registered("raw_id_matches", "parse_error"), Registered("algorithm_offered", "unsupported_algorithm"),
       Registered("attestation_statement", "attestation_failed"), Registered("credential_unique", "credential_exists") >>

AUTHENTICATION ==
    << Registered("response_well_formed", "malformed_response"), Registered("challenge_found", "challenge_not_found"),
       Registered("challenge_kind", "type_mismatch"), Registered("challenge_matches", "challenge_mismatch"),
       Registered("client_data_type", "type_mismatch"), Registered("origin_allowed", "origin_mismatch"),
       Registered("not_cross_origin", "origin_mismatch"), Registered("credential_known", "unknown_credential"),
       Registered("credential_belongs_to_account", "unknown_credential"),
       Registered("user_handle_matches", "unknown_credential"), Registered("rp_id_hash", "rpid_mismatch"),
       Registered("user_present", "user_not_present"), Registered("user_verified", "user_not_verified"),
       Registered("signature_verifies", "bad_signature"), Registered("counter_not_regressed", "counter_regression") >>

\* A sign-up is a registration for an account that is still to be made.
Registry == IF ceremony = "authentication" THEN AUTHENTICATION ELSE REGISTRATION

IndexOf(id) == CHOOSE i \in 1..Len(Registry) : Registry[i].id = id

----------------------------------------------------------------------------
(* The verifiers.  A step is an assertion of the trace, a record in it,    *)
(* the taking of the challenge, a change for the account, or a call that   *)
(* throws past the trace.                                                  *)

Assert_(id, code) == [kind |-> "assert", id |-> id, code |-> code]
Record(id) == [kind |-> "record", id |-> id, code |-> ""]
Change(what, code) == [kind |-> "change", id |-> what, code |-> code]
Throws(code) == [kind |-> "throws", id |-> "", code |-> code]
Take == [kind |-> "take", id |-> "", code |-> ""]

ShapeSteps ==
    <<Throws("malformed_response"), Record("response_well_formed"), Throws("malformed_response"), Throws("parse_error")>>

\* Variant: the challenge is only removed once its kind is known.
ChallengeReadFirst ==
    <<Assert_("challenge_found", "challenge_not_found"), Assert_("challenge_kind", "type_mismatch"),
      Take, Assert_("challenge_matches", "challenge_mismatch")>>

ChallengeSteps ==
    <<Take, Assert_("challenge_found", "challenge_not_found"),
      Assert_("challenge_kind", "type_mismatch"), Assert_("challenge_matches", "challenge_mismatch")>>

ClientDataSteps ==
    <<Assert_("client_data_type", "type_mismatch"), Assert_("origin_allowed", "origin_mismatch"),
      Assert_("not_cross_origin", "origin_mismatch")>>

\* Variant: the hash of the relying party is compared last.
HashAfterwards ==
    <<Assert_("user_present", "user_not_present"), Assert_("user_verified", "user_not_verified"),
      Assert_("rp_id_hash", "rpid_mismatch")>>

PresenceSteps ==
    <<Assert_("rp_id_hash", "rpid_mismatch"), Assert_("user_present", "user_not_present"),
      Assert_("user_verified", "user_not_verified")>>

AttestationObjectSteps ==
    <<Throws("malformed_response"), Throws("parse_error"), Assert_("attestation_object_shape", "parse_error"),
      Throws("parse_error"), Record("backup_flags_consistent")>>

AttestedSteps ==
    <<Assert_("attested_data_present", "parse_error"), Throws("malformed_response"),
      Assert_("raw_id_matches", "malformed_response")>>

\* Variant: whatever algorithm the key has, if only it parses.
KeyStepsAny == <<Throws("parse_error")>>

KeySteps == <<Throws("parse_error"), Assert_("algorithm_offered", "unsupported_algorithm")>>

StatementSteps ==
    <<Throws("attestation_failed"), Record("attestation_statement"),
      Assert_("backup_eligible_required", "attestation_failed")>>

\* Variant: the account is made before the passkey is known to be new.
AccountFirst ==
    <<IF ceremony = "sign-up" THEN Change("createUser", "credential_exists") ELSE Throws("unknown_user"),
      Assert_("credential_unique", "credential_exists"), Change("createCredential", "credential_exists")>>

\* The name of a sign-up may have been taken since, the account of another
\* registration may have gone, and the passkey may have come.
AccountSteps ==
    <<Assert_("credential_unique", "credential_exists"),
      IF ceremony = "sign-up" THEN Change("createUser", "credential_exists") ELSE Throws("unknown_user"),
      Change("createCredential", "credential_exists")>>

CredentialSteps ==
    <<Throws("malformed_response"), Assert_("credential_known", "unknown_credential"),
      Assert_("credential_belongs_to_account", "unknown_credential"), Throws("malformed_response"),
      Assert_("user_handle_matches", "unknown_credential"), Throws("malformed_response"), Throws("parse_error")>>

SignatureSteps ==
    <<Throws("malformed_response"), Throws("parse_error"), Throws("bad_signature"),
      Assert_("signature_verifies", "bad_signature"), Throws("unknown_user"),
      Assert_("counter_not_regressed", "counter_regression"), Change("updateCredential", "unknown_credential")>>

Steps ==
    ShapeSteps \o ChallengeSteps \o ClientDataSteps
    \o IF ceremony = "authentication"
         THEN CredentialSteps \o PresenceSteps \o SignatureSteps
         ELSE AttestationObjectSteps \o PresenceSteps \o AttestedSteps \o KeySteps \o StatementSteps \o AccountSteps

----------------------------------------------------------------------------
\* A challenge is not found when its row has expired or there is none.
NotFound == \E i \in flaws : Steps[i].id = "challenge_found"

Init ==
    /\ ceremony \in {"sign-up", "registration", "authentication"}
    /\ flaws \in {places \cap {i \in 1..Len(Steps) : Steps[i].code # ""} : places \in Flaws}
    /\ challenge \in (IF NotFound THEN {"expired", "none"} ELSE {"live"})
    /\ at = 1 /\ events = <<>> /\ done = {} /\ outcome = "none"

Step == Steps[at]
Emit(ok, code) == events' = Append(events, [id |-> Step.id, index |-> IndexOf(Step.id), ok |-> ok, code |-> code])
Proceed == at' = at + 1 /\ UNCHANGED outcome
Throw(code) == outcome' = code /\ UNCHANGED at
Running(kind) == outcome = "none" /\ at <= Len(Steps) /\ Step.kind = kind

\* Variant: the failed check is put down as it would have passed.
AssertAfterwards ==
    /\ Running("assert") /\ Emit(TRUE, "")
    /\ IF at \notin flaws THEN Proceed ELSE Throw(Step.code)
    /\ UNCHANGED <<ceremony, flaws, challenge, done>>

Assert ==
    /\ Running("assert")
    /\ IF at \notin flaws THEN Emit(TRUE, "") /\ Proceed ELSE Emit(FALSE, Step.code) /\ Throw(Step.code)
    /\ UNCHANGED <<ceremony, flaws, challenge, done>>

RecordPassed ==
    /\ Running("record") /\ Emit(TRUE, "") /\ Proceed
    /\ UNCHANGED <<ceremony, flaws, challenge, done>>

\* takeChallenge deletes the row it finds, and answers null when it has expired.
TakeChallenge ==
    /\ Running("take") /\ Proceed
    /\ challenge' = "none"
    /\ UNCHANGED <<ceremony, flaws, events, done>>

Call ==
    /\ Running("throws")
    /\ IF at \notin flaws THEN Proceed ELSE Throw(Step.code)
    /\ UNCHANGED <<ceremony, flaws, challenge, events, done>>

ChangeStore ==
    /\ Running("change")
    /\ IF at \in flaws THEN Throw(Step.code) /\ UNCHANGED done
       ELSE Proceed /\ done' = done \cup {Step.id}
    /\ UNCHANGED <<ceremony, flaws, challenge, events>>

Accept ==
    /\ outcome = "none" /\ at > Len(Steps) /\ outcome' = "accepted"
    /\ UNCHANGED <<ceremony, flaws, challenge, at, events, done>>

Next == Assert \/ RecordPassed \/ TakeChallenge \/ Call \/ ChangeStore \/ Accept
Spec == Init /\ [][Next]_vars

----------------------------------------------------------------------------
Ended == outcome # "none"
Ids == {events[i].id : i \in 1..Len(events)}
AllPassed == /\ Ids = {Registry[i].id : i \in 1..Len(Registry)} /\ Len(events) = Len(Registry)
             /\ \A i \in 1..Len(events) : events[i].ok

\* What is accepted has passed every check of the registry, each once, and has no
\* flaw: the table and the verifier agree in both directions (trace.ts:1-16).
AcceptedPassedEveryCheck == outcome = "accepted" => AllPassed /\ flaws = {}

\* Accounts and passkeys change only after the last check has passed (registration.ts:387).
ChangesComeLast == done # {} => AllPassed

\* The trace tells whether the response can be sent again: no row is left once
\* the trace says anything of it, an expired one included, and a row that could
\* be taken is gone only if the trace says that it was found
\* (registration.ts:198-200, store.ts:242-249).
SpentIfFound ==
    Ended => /\ "challenge_found" \in Ids => challenge = "none"
             /\ challenge = "none" /\ ~NotFound =>
                  \E i \in 1..Len(events) : events[i].id = "challenge_found" /\ events[i].ok

\* A failed check is the last event of its trace, with the code that was thrown; a
\* refusal with no failed check at the end was thrown past the trace.
TraceStopsAtFailure ==
    /\ \A i \in 1..Len(events) : ~events[i].ok => i = Len(events) /\ events[i].code = outcome
    /\ Ended /\ outcome # "accepted" /\ Step.kind = "assert" => events # <<>> /\ ~events[Len(events)].ok

\* Where the verifiers and the registry differ: the parser decides the flags
\* before the verifier compares a hash, eligibility waits for the statement
\* (registration.ts:285, 371), and a rawId that differs is malformed (:335).
Early == {"backup_flags_consistent"}
Late == {"backup_eligible_required"}
OtherCode == {"raw_id_matches"}

\* Otherwise the order of the registry is the verifiers': no check is reached
\* before those registered above it have passed, and one that fails throws its
\* registered code (checks.ts:26, 31).
FollowsTheRegistry ==
    \A i \in 1..Len(events), n \in 1..Len(Registry) : Registry[n].id = events[i].id =>
        /\ events[i].id \notin Early =>
             \A m \in 1..n - 1 : Registry[m].id \notin Late =>
                \E k \in 1..i - 1 : events[k].id = Registry[m].id /\ events[k].ok
        /\ ~events[i].ok /\ events[i].id \notin OtherCode => events[i].code = Registry[n].code
=============================================================================
