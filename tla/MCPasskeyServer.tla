--------------------------- MODULE MCPasskeyServer ---------------------------
(***************************************************************************)
(* Small instances of PasskeyServer for TLC.                               *)
(***************************************************************************)
EXTENDS PasskeyServerProps, TLC

CONSTANTS u1, u2, k1, k2, k3, ana, AnaCaps, ben

Lower == ana :> ana @@ AnaCaps :> ana @@ ben :> ben
MCNameKey == [n \in Usernames |-> Lower[n]]

OneDeviceEach == [k \in CredIds |-> k]
TwoDevices == [k \in CredIds |-> IF k = k3 THEN "phone" ELSE "laptop"]

Sound == [originOk |-> TRUE, uv |-> TRUE, sigOk |-> TRUE]
SoundOnly == {Sound}
WithoutUV == {Sound, [Sound EXCEPT !.uv = FALSE]}
OneFlaw == {Sound, [Sound EXCEPT !.uv = FALSE], [Sound EXCEPT !.originOk = FALSE],
            [Sound EXCEPT !.sigOk = FALSE]}

Nobody == [u \in UserIds |-> None]
NoCredential == [k \in CredIds |-> None]

\* A new site.
Empty == [users |-> Nobody, creds |-> NoCredential, wallet |-> NoCredential, signedIn |-> {}]

\* ana has an account with the passkeys in "keys", and a session.
OneAccount(keys) ==
  [users |-> [Nobody EXCEPT ![u1] = ana],
   creds |-> [k \in CredIds |-> IF k \in keys
                THEN [owner |-> u1, counter |-> 0, nickname |-> None] ELSE None],
   wallet |-> [k \in CredIds |-> IF k \in keys
                THEN [handle |-> u1, count |-> 0] ELSE None],
   signedIn |-> {u1}]

\* Besides, ben has an account and no passkey, as a failed sign-up or two
\* removals at once leave it, and nobody is signed in.
TwoAccounts ==
  [OneAccount({k1, k2}) EXCEPT !.users[u2] = ben, !.signedIn = {}]

EmptySite == {Empty}
OnePasskey == {OneAccount({k1})}
TwoPasskeys == {OneAccount({k1, k2})}
TwoPeople == {TwoAccounts}

Symmetry == Permutations(Requests) \cup Permutations(Challenges)
=============================================================================
