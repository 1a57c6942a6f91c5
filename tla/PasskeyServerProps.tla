------------------------- MODULE PasskeyServerProps -------------------------
(***************************************************************************)
(* What the passkify server has to keep while its requests interleave.     *)
(***************************************************************************)
EXTENDS PasskeyServer

\* The request holds the row takeChallenge gave it and is not finished.
Holds(r, c) == req[r].chal = c

Verified(c) == completions[c] > 0

-----------------------------------------------------------------------------
(***************************************************************************)
(* Ceremonies.                                                             *)
(***************************************************************************)
\* A challenge verifies at most one ceremony, however often its answer is
\* posted, to whichever route and in however many requests at once
\* (registration.ts, authentication.ts: takeChallenge comes first).
ChallengeSingleUse ==
  \A c \in Challenges :
    /\ completions[c] <= 1
    /\ \A r \in Requests : Holds(r, c) => ~Verified(c)
    /\ \A r, s \in Requests : Holds(r, c) /\ Holds(s, c) => r = s

\* Nothing can come of the ceremony any more: its row is gone or too old and
\* no request has it in hand.
Dead(c) == /\ issued[c] # None
           /\ \A r \in Requests : ~Holds(r, c)
           /\ challenges[c] # None => challenges[c].expiresAt < now

LedgerStatus(c) ==
  CASE issued[c] = None -> "unissued"
    [] issued[c] # None /\ Verified(c) -> "verified"
    [] issued[c] # None /\ ~Verified(c) /\ Dead(c) -> "over"
    [] OTHER -> "open"

Ledger == INSTANCE CeremonyLedger WITH
  Ceremonies <- Challenges, Accounts <- UserIds, Anyone <- None,
  status <- [c \in Challenges |-> LedgerStatus(c)],
  scope <- [c \in Challenges |-> IF issued[c] = None THEN None ELSE issued[c].user],
  sessions <- signedIn

\* The server implements the ledger of ceremonies: each one is verified at
\* most once, for an account it was issued for, and nothing but a verified
\* ceremony begins a session.  A ceremony not answered in time, or whose one
\* attempt is over, stays over, whatever is delivered later (routes.ts hands
\* the hooks an outcome only from a finish route).
ImplementsLedger == Ledger!LedgerSpec

\* The demands a ceremony was started with bind the request that ends it: a
\* login started for one account signs in that account, the account is the one
\* the passkey was made for (whether or not the answer says so), and where user
\* verification was demanded the answer shows it (the context saved with the
\* challenge survives to the verifier and is obeyed there).
CeremonyKeepsItsTerms ==
  \A r \in Requests : req[r].at \in {"regReply", "logReply"} =>
    LET options == issued[req[r].chal]
        answer == answers[req[r].chal]
    IN /\ options.kind = answer.kind
       /\ options.user # None => req[r].user = options.user
       /\ options.uv => answer.flags.uv
       /\ answer.flags.originOk /\ answer.flags.sigOk
       /\ wallet[answer.cred].handle = req[r].user

-----------------------------------------------------------------------------
(***************************************************************************)
(* Accounts and credentials.                                               *)
(***************************************************************************)
\* Sign-ups that race for one username, in any spelling, make one account:
\* the check at the start of the ceremony is long stale when the account is
\* made (store.ts createUser, registration.ts getUserByUsername).
OneAccountPerName ==
  \A u, v \in UserIds :
    HasAccount(u) /\ HasAccount(v) /\ NameKey[users[u]] = NameKey[users[v]] => u = v

\* Server and authenticator agree: a stored credential belongs to an existing
\* account, and it is the account whose handle the passkey was made with, so
\* a usernameless login finds its way back.
CredentialMatchesPasskey ==
  \A k \in CredIds : Stored(k) =>
    /\ HasAccount(creds[k].owner)
    /\ Held(k)
    /\ wallet[k].handle = creds[k].owner

\* Whoever gains a further passkey was signed in: a sign-up that nobody
\* authenticated gives an account its first passkey and nothing more.
OnlySignedInGainPasskeys ==
  [][\A k \in CredIds :
       ~Stored(k) /\ Stored(k)' =>
         LET u == creds'[k].owner
         IN u \in signedIn \/ \A x \in CredIds : ~(Stored(x) /\ creds[x].owner = u)]_vars

\* What a user removed stays removed: no login, rename or registration that
\* read the credential before its removal writes it back.
RevokedStaysRevoked == \A k \in revoked : ~Stored(k)

-----------------------------------------------------------------------------
(***************************************************************************)
(* The signature counter.                                                  *)
(***************************************************************************)
\* The server's counter never runs ahead of the authenticator's: an honest
\* authenticator's next signature is above what is stored, so a passkey is
\* not locked out by the order in which its logins were processed.
CounterNotAhead ==
  \A k \in CredIds : Stored(k) => creds[k].counter <= wallet[k].count

\* The signature counter of a stored credential never goes backwards, as the
\* check auth.counter_not_regressed promises; without the hook's consent.
CounterNeverDecreases ==
  [][\A k \in CredIds : Stored(k) /\ Stored(k)' => creds'[k].counter >= creds[k].counter]_vars

\* What is left of that promise when logins interleave: the counter goes down
\* only in a login that either was seen to regress and got the hook's consent,
\* or whose look at the row is out of date, another login having raised the
\* counter since (authentication.ts: the check reads one row, the update
\* writes another).
CounterFallsOnlyToARace ==
  [][\A k \in CredIds : Stored(k) /\ Stored(k)' /\ creds'[k].counter < creds[k].counter =>
       \E r \in Requests :
         /\ At(r, "logUpdate") /\ req[r].cred = k
         /\ \/ TRUE \in HookAllows /\ Regressed(answers[req[r].chal].count, req[r].stored.counter)
            \/ req[r].stored.counter < creds[k].counter]_vars

-----------------------------------------------------------------------------
(***************************************************************************)
(* Nobody is locked out.                                                   *)
(***************************************************************************)
\* An account that has a passkey never loses its last one: deleteCredential
\* refuses it (passkey-server.ts last_credential).
LastPasskeyIsKept ==
  [][\A u \in UserIds : CredentialsOf(u) # {} => CredentialsOf(u)' # {}]_vars

\* What is left of that refusal when removals interleave: the last passkey of
\* an account goes only to a removal that had counted others, each of which
\* another removal has taken since (passkey-server.ts: the list is read, then
\* the row is deleted).
LastGoesOnlyToARace ==
  [][\A u \in UserIds : CredentialsOf(u) # {} /\ CredentialsOf(u)' = {} =>
       \E r \in Requests :
         LET others == req[r].listed \ {req[r].cred}
         IN At(r, "delDrop") /\ req[r].user = u /\ others # {} /\ others \subseteq revoked]_vars

\* No account is left without a passkey by a registration that did not
\* succeed: one without is one a registration is at this moment filling.
NoHalfRegisteredAccount ==
  \A u \in UserIds :
    HasAccount(u) /\ CredentialsOf(u) = {} => \E r \in Requests : At(r, "regStore") /\ req[r].user = u

-----------------------------------------------------------------------------
(***************************************************************************)
(* Progress.                                                               *)
(***************************************************************************)
\* Every request comes to an end, whatever the others do to the rows it read.
EveryRequestEnds == \A r \in Requests : ~At(r, "idle") ~> At(r, "idle")

\* When no store call fails, visitors who race to sign up under one name do
\* not all lose: once one of them has passed the checks, the name ends up
\* with an account that has a passkey.
ContestedNameIsWon ==
  \A r \in Requests, n \in Usernames :
    (At(r, "regAccount") /\ req[r].pending.isNew /\ req[r].pending.name = n)
      ~> (\E u \in AccountsNamed(n) : CredentialsOf(u) # {})
=============================================================================
