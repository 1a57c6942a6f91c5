--------------------------- MODULE PasskeyServer ---------------------------
(***************************************************************************)
(* The passkify server: the registration and the login ceremony, and the   *)
(* management of an account's passkeys, as requests that interleave.       *)
(*                                                                         *)
(* A request runs undisturbed between two awaited store calls and every    *)
(* store call is atomic (module PasskeyStore), so each action of a request *)
(* is one store call with the code around it; the location "at" of the     *)
(* request names the call that comes next.  The first call of a request is *)
(* part of the action that starts it.  A request refused at its first call *)
(* that has changed nothing is no step.                                    *)
(*                                                                         *)
(* Around the server stand the browsers and authenticators: they receive   *)
(* options, sign answers to them, and may post one answer any number of    *)
(* times, late, to either finish route, or never.                          *)
(***************************************************************************)
EXTENDS PasskeyStore

CONSTANTS
  Requests,      \* request slots: how many requests can be in flight at once
  Ops,           \* which kinds of request arrive in this instance
  UVChoices,     \* user verification demands a ceremony may start with
  AnswerFlags,   \* what an answer's own bytes may say: [originOk, uv, sigOk]
  HookAllows,    \* what the onCounterRegression hook may answer
  Counting,      \* the credentials whose authenticator counts signatures
  Discoverable,  \* the credentials an authenticator finds without an allow list
  DeviceOf,      \* DeviceOf[k]: the device credential k would be made on
  Seeds,         \* the databases and passkeys the server may start with
  Faults         \* whether a store call or a hook may throw

OpNames == {"signUp", "addPasskey", "login", "delete", "rename"}
Flags == [originOk : BOOLEAN, uv : BOOLEAN, sigOk : BOOLEAN]

ASSUME ServerAssumption ==
  /\ Ops \subseteq OpNames
  /\ UVChoices \subseteq BOOLEAN
  /\ AnswerFlags \subseteq Flags
  /\ HookAllows \subseteq BOOLEAN
  /\ Counting \subseteq CredIds
  /\ Discoverable \subseteq CredIds
  /\ DOMAIN DeviceOf = CredIds
  /\ Faults \in BOOLEAN

VARIABLES
  issued,       \* issued[c]: the options sent to a browser with challenge c
  answers,      \* answers[c]: the answer some authenticator signed for c
  wallet,       \* wallet[k]: what the authenticator keeps of passkey k
  req,          \* req[r]: the request in slot r
  signedIn,     \* accounts with a session: the onRegister and onLogin hooks
  completions,  \* history: how often a ceremony with challenge c was verified
  revoked       \* history: credentials that were removed from their account

outside == <<issued, answers, wallet>>
history == <<completions, revoked>>
vars == <<now, users, creds, challenges, issued, answers, wallet,
          req, signedIn, completions, revoked>>

OptionalUser == UserIds \cup {None}
Options == [kind : Kinds, user : OptionalUser, listed : SUBSET CredIds, uv : BOOLEAN]
Answer == [kind : Kinds, cred : CredIds, handle : OptionalUser,
           count : 0 .. MaxCount, flags : Flags]
Passkey == [handle : UserIds, count : 0 .. MaxCount]

Locations == {"idle",
              "regList", "regSave", "regUnique", "regAccount", "regStore", "regReply",
              "logList", "logSave", "logFind", "logOwner", "logUpdate", "logReply",
              "delList", "delDrop", "renSet"}

\* The local variables a handler keeps across its awaits.
Request == [at : Locations,
            user : OptionalUser,                \* the account acted for
            name : Usernames \cup {None},       \* the username of a sign-up
            listed : SUBSET CredIds,            \* ids read for a list, or to be counted
            chal : Challenges \cup {None},      \* the challenge of the answer posted
            pending : ChallengeRow \cup {None}, \* the row takeChallenge returned
            cred : CredIds \cup {None},         \* the credential acted on
            stored : CredRow \cup {None},       \* its row as read, possibly stale
            label : Nicknames \cup {None}]      \* the new nickname

ASSUME NoneServerAssumption ==
  /\ None \notin Options /\ None \notin Answer /\ None \notin Passkey

Idle == [at |-> "idle", user |-> None, name |-> None, listed |-> {}, chal |-> None,
         pending |-> None, cred |-> None, stored |-> None, label |-> None]

ServerTypeOK ==
  /\ issued \in [Challenges -> Options \cup {None}]
  /\ answers \in [Challenges -> Answer \cup {None}]
  /\ wallet \in [CredIds -> Passkey \cup {None}]
  /\ req \in [Requests -> Request]
  /\ signedIn \subseteq UserIds
  /\ completions \in [Challenges -> Nat]
  /\ revoked \subseteq CredIds

\* Every variable keeps to its type: in particular no handler ever writes a
\* row with a missing column or acts for an account it never looked up.
TypeOK == StoreTypeOK /\ ServerTypeOK

-----------------------------------------------------------------------------
\* A database as earlier ceremonies leave it: accounts with distinct names,
\* every stored credential owned by an account its passkey names; a passkey
\* whose authenticator counts no signatures has signed with zero throughout.
ConsistentSeed(s) ==
  /\ s.users \in [UserIds -> UserCell]
  /\ s.creds \in [CredIds -> CredRow \cup {None}]
  /\ s.wallet \in [CredIds -> Passkey \cup {None}]
  /\ s.signedIn \subseteq {u \in UserIds : s.users[u] # None}
  /\ \A u, v \in UserIds :
       s.users[u] # None /\ s.users[v] # None /\ NameKey[s.users[u]] = NameKey[s.users[v]]
         => u = v
  /\ \A k \in CredIds : s.creds[k] # None =>
       /\ s.wallet[k] # None
       /\ s.wallet[k].handle = s.creds[k].owner
       /\ s.creds[k].counter <= s.wallet[k].count
       /\ s.users[s.creds[k].owner] # None
  /\ \A k \in CredIds : s.wallet[k] # None => s.users[s.wallet[k].handle] # None
  /\ \A k \in CredIds \ Counting : s.wallet[k] # None => s.wallet[k].count = 0

ASSUME SeedAssumption == \A s \in Seeds : ConsistentSeed(s)

Init ==
  /\ \E s \in Seeds : /\ users = s.users
                      /\ creds = s.creds
                      /\ wallet = s.wallet
                      /\ signedIn = s.signedIn
  /\ now = 0
  /\ challenges = [c \in Challenges |-> None]
  /\ issued = [c \in Challenges |-> None]
  /\ answers = [c \in Challenges |-> None]
  /\ req = [r \in Requests |-> Idle]
  /\ completions = [c \in Challenges |-> 0]
  /\ revoked = {}

-----------------------------------------------------------------------------
At(r, place) == req[r].at = place
Become(r, request) == req' = [req EXCEPT ![r] = request]
GoTo(r, place) == Become(r, [req[r] EXCEPT !.at = place])
End(r) == Become(r, Idle)

\* One answer of the store decides: go on to the next call, or throw.
Proceed(r, condition, place) == IF condition THEN GoTo(r, place) ELSE End(r)

Saving == {"regList", "regSave", "logList", "logSave"}
FreshChallenges == {c \in Challenges : issued[c] = None}

\* Bound: ceremonies start only while the pool of challenges lasts.
MayIssue == Cardinality(FreshChallenges) > Cardinality({r \in Requests : req[r].at \in Saving})

\* randomUUID() never repeats a handle: not an account's, not one promised
\* to a browser, not one an authenticator holds.
FreshUsers == {u \in UserIds : /\ ~HasAccount(u)
                               /\ \A c \in Challenges : issued[c] # None => issued[c].user # u
                               /\ \A k \in CredIds : wallet[k] # None => wallet[k].handle # u}

\* Bound: sign-ups start only while the pool of handles lasts.
MayMint == Cardinality(FreshUsers) > Cardinality({r \in Requests : At(r, "regSave") /\ req[r].user = None})

-----------------------------------------------------------------------------
(***************************************************************************)
(* POST /register/start: createRegistrationOptions.                        *)
(***************************************************************************)
\* Variant: a username that has an account gets a passkey for that account.
StartSignUpOrJoin(r, n) ==
  /\ "signUp" \in Ops /\ At(r, "idle") /\ MayIssue /\ MayMint
  /\ IF NameTaken(n)
       THEN \E u \in AccountsNamed(n) :
              Become(r, [Idle EXCEPT !.at = "regList", !.user = u, !.name = n])
       ELSE Become(r, [Idle EXCEPT !.at = "regSave", !.name = n])
  /\ UNCHANGED <<now, tables, outside, signedIn, history>>

\* Without a session: the username must be free, no account is made yet.
StartSignUp(r, n) ==
  /\ "signUp" \in Ops /\ At(r, "idle") /\ MayIssue /\ MayMint
  /\ ~NameTaken(n)
  /\ Become(r, [Idle EXCEPT !.at = "regSave", !.name = n])
  /\ UNCHANGED <<now, tables, outside, signedIn, history>>

\* With a session the body's username is not looked at.
StartAddPasskey(r, u) ==
  /\ "addPasskey" \in Ops /\ At(r, "idle") /\ MayIssue
  /\ u \in signedIn
  /\ HasAccount(u)
  /\ Become(r, [Idle EXCEPT !.at = "regList", !.user = u, !.name = users[u]])
  /\ UNCHANGED <<now, tables, outside, signedIn, history>>

ListExcluded(r) ==
  /\ At(r, "regList")
  /\ Become(r, [req[r] EXCEPT !.at = "regSave", !.listed = CredentialsOf(req[r].user)])
  /\ UNCHANGED <<now, tables, outside, signedIn, history>>

SaveRegistration(r, c, u, uv) ==
  /\ At(r, "regSave")
  /\ c \in FreshChallenges
  /\ IF req[r].user = None THEN u \in FreshUsers ELSE u = req[r].user
  /\ SaveChallenge(c, [kind |-> "registration", user |-> u,
                       expiresAt |-> now + ChallengeTimeout, name |-> req[r].name,
                       isNew |-> req[r].user = None, uv |-> uv])
  /\ issued' = [issued EXCEPT ![c] = [kind |-> "registration", user |-> u,
                                      listed |-> req[r].listed, uv |-> uv]]
  /\ End(r)
  /\ UNCHANGED <<now, answers, wallet, signedIn, history>>

(***************************************************************************)
(* POST /login/start: createAuthenticationOptions.  A username that names  *)
(* nobody gets the same options as no username.                            *)
(***************************************************************************)
StartLogin(r) ==
  /\ "login" \in Ops /\ At(r, "idle") /\ MayIssue
  /\ Become(r, [Idle EXCEPT !.at = "logSave"])
  /\ UNCHANGED <<now, tables, outside, signedIn, history>>

StartScopedLogin(r, n) ==
  /\ "login" \in Ops /\ At(r, "idle") /\ MayIssue
  /\ \E u \in AccountsNamed(n) : Become(r, [Idle EXCEPT !.at = "logList", !.user = u])
  /\ UNCHANGED <<now, tables, outside, signedIn, history>>

ListAllowed(r) ==
  /\ At(r, "logList")
  /\ Become(r, [req[r] EXCEPT !.at = "logSave", !.listed = CredentialsOf(req[r].user)])
  /\ UNCHANGED <<now, tables, outside, signedIn, history>>

SaveLogin(r, c, uv) ==
  /\ At(r, "logSave")
  /\ c \in FreshChallenges
  /\ SaveChallenge(c, [kind |-> "authentication", user |-> req[r].user,
                       expiresAt |-> now + ChallengeTimeout, name |-> None,
                       isNew |-> FALSE, uv |-> uv])
  /\ issued' = [issued EXCEPT ![c] = [kind |-> "authentication", user |-> req[r].user,
                                      listed |-> req[r].listed, uv |-> uv]]
  /\ End(r)
  /\ UNCHANGED <<now, answers, wallet, signedIn, history>>

-----------------------------------------------------------------------------
(***************************************************************************)
(* The authenticators.  One answers the options of challenge c with a new  *)
(* passkey k, unless its device holds an excluded one, or signs with a     *)
(* passkey it has: one of the allow list, or any discoverable one when     *)
(* there is no list.  Only a discoverable one returns the user handle.     *)
(***************************************************************************)
Held(k) == wallet[k] # None

CreatePasskey(c, k, flags) ==
  /\ issued[c] # None /\ issued[c].kind = "registration" /\ answers[c] = None
  /\ ~Held(k)
  /\ \A x \in issued[c].listed : Held(x) => DeviceOf[x] # DeviceOf[k]
  /\ wallet' = [wallet EXCEPT ![k] = [handle |-> issued[c].user, count |-> 0]]
  /\ answers' = [answers EXCEPT ![c] = [kind |-> "registration", cred |-> k,
                                        handle |-> issued[c].user, count |-> 0,
                                        flags |-> flags]]
  /\ UNCHANGED <<now, tables, issued, req, signedIn, history>>

SignCount(k) == IF k \in Counting THEN wallet[k].count + 1 ELSE 0

GetAssertion(c, k, flags) ==
  /\ issued[c] # None /\ issued[c].kind = "authentication" /\ answers[c] = None
  /\ Held(k)
  /\ k \in (IF issued[c].listed = {} THEN Discoverable ELSE issued[c].listed)
  /\ SignCount(k) <= MaxCount
  /\ wallet' = [wallet EXCEPT ![k].count = SignCount(k)]
  /\ answers' = [answers EXCEPT ![c] = [kind |-> "authentication", cred |-> k,
                                        handle |-> IF k \in Discoverable
                                                     THEN wallet[k].handle ELSE None,
                                        count |-> SignCount(k), flags |-> flags]]
  /\ UNCHANGED <<now, tables, issued, req, signedIn, history>>

-----------------------------------------------------------------------------
(***************************************************************************)
(* POST /register/finish: verifyRegistration.                              *)
(***************************************************************************)
\* The checks between takeChallenge and getCredentialById.
RegistrationVerifies(row, answer) ==
  /\ row # None
  /\ row.kind = "registration" /\ answer.kind = "registration"
  /\ answer.flags.originOk
  /\ row.uv => answer.flags.uv
  /\ answer.flags.sigOk

FinishRegistration(r, c) ==
  /\ At(r, "idle") /\ answers[c] # None
  /\ IF RegistrationVerifies(Taken(c), answers[c])
       THEN Become(r, [Idle EXCEPT !.at = "regUnique", !.chal = c, !.pending = Taken(c),
                                   !.user = Taken(c).user, !.cred = answers[c].cred])
       ELSE UNCHANGED req
  /\ TakeChallenge(c)
  /\ UNCHANGED <<now, outside, signedIn, history>>

CheckUnique(r) ==
  /\ At(r, "regUnique")
  /\ Proceed(r, ~Stored(req[r].cred), "regAccount")
  /\ UNCHANGED <<now, tables, outside, signedIn, history>>

\* Only now is the account made: createUser may find the name taken.
MakeAccount(r) ==
  /\ At(r, "regAccount") /\ req[r].pending.isNew
  /\ Proceed(r, ~NameTaken(req[r].pending.name), "regStore")
  /\ IF NameTaken(req[r].pending.name)
       THEN UNCHANGED tables
       ELSE CreateUser(req[r].user, req[r].pending.name)
  /\ UNCHANGED <<now, outside, signedIn, history>>

FindAccount(r) ==
  /\ At(r, "regAccount") /\ ~req[r].pending.isNew
  /\ Proceed(r, HasAccount(req[r].user), "regStore")
  /\ UNCHANGED <<now, tables, outside, signedIn, history>>

StoreCredential(r) ==
  /\ At(r, "regStore")
  /\ Proceed(r, ~Stored(req[r].cred), "regReply")
  /\ IF Stored(req[r].cred)
       THEN UNCHANGED tables
       ELSE PutCredential(req[r].cred,
                          [owner |-> req[r].user, counter |-> answers[req[r].chal].count,
                           nickname |-> None])
  /\ UNCHANGED <<now, outside, signedIn, history>>

\* The hooks have run: the ceremony is verified and the account has a session.
Reply(r) ==
  /\ req[r].at \in {"regReply", "logReply"}
  /\ signedIn' = signedIn \cup {req[r].user}
  /\ completions' = [completions EXCEPT ![req[r].chal] = @ + 1]
  /\ End(r)
  /\ UNCHANGED <<now, tables, outside, revoked>>

-----------------------------------------------------------------------------
(***************************************************************************)
(* POST /login/finish: verifyAuthentication.                               *)
(***************************************************************************)
LoginAnswers(row, answer) ==
  /\ row # None
  /\ row.kind = "authentication" /\ answer.kind = "authentication"
  /\ answer.flags.originOk

FinishLogin(r, c) ==
  /\ At(r, "idle") /\ answers[c] # None
  /\ IF LoginAnswers(Taken(c), answers[c])
       THEN Become(r, [Idle EXCEPT !.at = "logFind", !.chal = c, !.pending = Taken(c),
                                   !.cred = answers[c].cred])
       ELSE UNCHANGED req
  /\ TakeChallenge(c)
  /\ UNCHANGED <<now, outside, signedIn, history>>

\* Variant: the login need not be by the account it was started for.
AssertionVerifiesUnscoped(row, answer, credential) ==
  /\ credential # None
  /\ answer.handle # None => answer.handle = credential.owner
  /\ row.uv => answer.flags.uv
  /\ answer.flags.sigOk

\* The checks between getCredentialById and getUserById, on the row just read.
AssertionVerifies(row, answer, credential) ==
  /\ credential # None
  /\ row.user # None => credential.owner = row.user
  /\ answer.handle # None => answer.handle = credential.owner
  /\ row.uv => answer.flags.uv
  /\ answer.flags.sigOk

FindCredential(r) ==
  /\ At(r, "logFind")
  /\ LET row == creds[req[r].cred]
     IN IF AssertionVerifies(req[r].pending, answers[req[r].chal], row)
          THEN Become(r, [req[r] EXCEPT !.at = "logOwner", !.stored = row, !.user = row.owner])
          ELSE End(r)
  /\ UNCHANGED <<now, tables, outside, signedIn, history>>

\* Variant: only a counter that falls back to zero is noticed.
RegressedToZero(presented, kept) == kept > 0 /\ presented = 0

\* A counter that moves must move up; one that stays zero says nothing.
Regressed(presented, kept) == (presented > 0 \/ kept > 0) /\ presented <= kept

CheckOwner(r, allow) ==
  /\ At(r, "logOwner")
  /\ Proceed(r, /\ HasAccount(req[r].user)
                /\ Regressed(answers[req[r].chal].count, req[r].stored.counter) => allow,
             "logUpdate")
  /\ UNCHANGED <<now, tables, outside, signedIn, history>>

\* Variant: the row read earlier is written back whole, whether or not it is
\* still there.
RecordLoginWritesBack(r) ==
  /\ At(r, "logUpdate")
  /\ GoTo(r, "logReply")
  /\ PutCredential(req[r].cred, [req[r].stored EXCEPT !.counter = answers[req[r].chal].count])
  /\ UNCHANGED <<now, outside, signedIn, history>>

RecordLogin(r) ==
  /\ At(r, "logUpdate")
  /\ Proceed(r, Stored(req[r].cred), "logReply")
  /\ IF Stored(req[r].cred)
       THEN UpdateCounter(req[r].cred, answers[req[r].chal].count)
       ELSE UNCHANGED tables
  /\ UNCHANGED <<now, outside, signedIn, history>>

-----------------------------------------------------------------------------
(***************************************************************************)
(* DELETE and PATCH /credentials/:id, both from a session.                 *)
(***************************************************************************)
Owns(u, k) == Stored(k) /\ creds[k].owner = u

StartDelete(r, u, k) ==
  /\ "delete" \in Ops /\ At(r, "idle") /\ u \in signedIn
  /\ Owns(u, k)
  /\ Become(r, [Idle EXCEPT !.at = "delList", !.user = u, !.cred = k])
  /\ UNCHANGED <<now, tables, outside, signedIn, history>>

\* Variant: off by one, the last passkey may go.
ListRemainingOffByOne(r) ==
  /\ At(r, "delList")
  /\ IF Cardinality(CredentialsOf(req[r].user)) >= 1
       THEN Become(r, [req[r] EXCEPT !.at = "delDrop", !.listed = CredentialsOf(req[r].user)])
       ELSE End(r)
  /\ UNCHANGED <<now, tables, outside, signedIn, history>>

\* Variant: the refusal of the last passkey is never answered.
ListRemainingSilent(r) ==
  /\ At(r, "delList")
  /\ Cardinality(CredentialsOf(req[r].user)) > 1
  /\ Become(r, [req[r] EXCEPT !.at = "delDrop", !.listed = CredentialsOf(req[r].user)])
  /\ UNCHANGED <<now, tables, outside, signedIn, history>>

ListRemaining(r) ==
  /\ At(r, "delList")
  /\ IF Cardinality(CredentialsOf(req[r].user)) > 1
       THEN Become(r, [req[r] EXCEPT !.at = "delDrop", !.listed = CredentialsOf(req[r].user)])
       ELSE End(r)
  /\ UNCHANGED <<now, tables, outside, signedIn, history>>

DropCredential(r) ==
  /\ At(r, "delDrop")
  /\ DeleteCredential(req[r].cred)
  /\ revoked' = revoked \cup {req[r].cred}
  /\ End(r)
  /\ UNCHANGED <<now, outside, signedIn, completions>>

StartRename(r, u, k, label) ==
  /\ "rename" \in Ops /\ At(r, "idle") /\ u \in signedIn
  /\ Owns(u, k)
  /\ Become(r, [Idle EXCEPT !.at = "renSet", !.user = u, !.cred = k, !.label = label])
  /\ UNCHANGED <<now, tables, outside, signedIn, history>>

SetNickname(r) ==
  /\ At(r, "renSet")
  /\ IF Stored(req[r].cred) THEN UpdateNickname(req[r].cred, req[r].label) ELSE UNCHANGED tables
  /\ End(r)
  /\ UNCHANGED <<now, outside, signedIn, history>>

-----------------------------------------------------------------------------
\* A store call or a hook throws, or the process is gone: the handler stops
\* where it was and what it wrote before stays.
Abort(r) ==
  /\ Faults /\ ~At(r, "idle")
  /\ End(r)
  /\ UNCHANGED <<now, tables, outside, signedIn, history>>

Tick ==
  /\ now < MaxTime
  /\ now' = now + 1
  /\ UNCHANGED <<tables, outside, req, signedIn, history>>

Arrive(r) ==
  \/ \E n \in Usernames : StartSignUp(r, n) \/ StartScopedLogin(r, n)
  \/ \E u \in UserIds : StartAddPasskey(r, u)
  \/ StartLogin(r)
  \/ \E c \in Challenges : FinishRegistration(r, c) \/ FinishLogin(r, c)
  \/ \E u \in UserIds, k \in CredIds :
       StartDelete(r, u, k) \/ \E label \in Nicknames : StartRename(r, u, k, label)

Handle(r) ==
  \/ ListExcluded(r) \/ ListAllowed(r)
  \/ \E c \in Challenges, uv \in UVChoices :
       SaveLogin(r, c, uv) \/ \E u \in UserIds : SaveRegistration(r, c, u, uv)
  \/ CheckUnique(r) \/ MakeAccount(r) \/ FindAccount(r) \/ StoreCredential(r)
  \/ FindCredential(r) \/ RecordLogin(r) \/ Reply(r)
  \/ \E allow \in HookAllows : CheckOwner(r, allow)
  \/ ListRemaining(r) \/ DropCredential(r) \/ SetNickname(r)

Sign == \E c \in Challenges, k \in CredIds, flags \in AnswerFlags :
          CreatePasskey(c, k, flags) \/ GetAssertion(c, k, flags)

Next ==
  \/ \E r \in Requests : Arrive(r) \/ Handle(r) \/ Abort(r)
  \/ Sign
  \/ Tick

Spec == Init /\ [][Next]_vars

\* The event loop and the database answer: a request that has a next call
\* gets to make it.  Nothing obliges a visitor, an authenticator or the clock.
Fairness == \A r \in Requests : WF_vars(Handle(r))

FairSpec == Spec /\ Fairness
=============================================================================
