--------------------- MODULE PasskeyServerCredentialProofs ---------------------
(***************************************************************************)
(* Theorems about PasskeyServer on what may happen to a credential: it is  *)
(* stored once, by one registration, for an account entitled to it; its    *)
(* counter moves one way; and it goes for good, but never the last one.    *)
(***************************************************************************)
EXTENDS PasskeyServerBindingProofs, FiniteSetTheorems

Unstored == {"regUnique", "regAccount", "regStore"}
Registering == Unstored \cup {"regReply"}
SigningIn == {"logOwner", "logUpdate", "logReply"}
Deleting == {"delList", "delDrop"}

\* The server has stored credential k at some time.
Known(k) == Stored(k) \/ k \in revoked

\* The answer to challenge c makes credential k.
Makes(c, k) == answers[c] # None /\ answers[c].kind = "registration" /\ answers[c].cred = k

\* The ceremony of challenge c may still store a credential.
Open(c) == challenges[c] # None \/ \E r \in Requests : Holds(r, c) /\ req[r].at \in Unstored

-----------------------------------------------------------------------------
\* An authenticator makes a credential in one ceremony only, and once the
\* server has stored the credential that ceremony is over.
OneMaker(c, k) ==
  Makes(c, k) =>
    /\ \A d \in Challenges : Makes(d, k) => c = d
    /\ Open(c) => ~Known(k)

\* What was removed is not stored; whatever was stored has its passkey.
KnownOK(k) ==
  /\ Known(k) => Held(k)
  /\ k \in revoked => ~Stored(k)

\* A registration holds an answer that made a passkey; a request that deletes
\* a credential or signs in with one has found it stored.
RouteOK(q) ==
  /\ q.at \in Registering => answers[q.chal].kind = "registration"
  /\ q.at \in Deleting \cup SigningIn => Known(q.cred)

PasskeyInv ==
  /\ \A c \in Challenges, k \in CredIds : OneMaker(c, k)
  /\ \A k \in CredIds : KnownOK(k)
  /\ \A r \in Requests : RouteOK(req[r])

-----------------------------------------------------------------------------
\* The authenticator is never behind an answer it gave or a row the server
\* keeps, and one that does not count stays at zero.
CountInv ==
  /\ \A c \in Challenges : answers[c] # None => answers[c].count <= wallet[answers[c].cred].count
  /\ CounterNotAhead
  /\ \A k \in CredIds : Held(k) /\ k \notin Counting => wallet[k].count = 0

-----------------------------------------------------------------------------
\* The ceremony of challenge c makes the account it stores a credential for.
Founding(c) ==
  \/ challenges[c] # None /\ challenges[c].kind = "registration" /\ challenges[c].isNew
  \/ \E r \in Requests : Holds(r, c) /\ req[r].at \in Unstored /\ req[r].pending.isNew

\* An account still to be founded is nobody's yet: no session, no passkey, no
\* other ceremony and no login is for it.
FoundingOK(c) ==
  Founding(c) =>
    /\ issued[c].user \notin signedIn
    /\ CredentialsOf(issued[c].user) = {}
    /\ \A d \in Challenges :
         issued[d] # None /\ issued[d].kind = "registration" /\ issued[d].user = issued[c].user => d = c
    /\ \A r \in Requests : req[r].at \in SigningIn => req[r].user # issued[c].user

\* A registration for an account that exists was begun in its session.
JoiningOK(q) ==
  /\ q.at \in {"regList", "regSave"} => q.user = None \/ q.user \in signedIn
  /\ q.at \in Unstored => q.pending.isNew \/ q.user \in signedIn

GainInv ==
  /\ \A c \in Challenges : FoundingOK(c)
  /\ \A c \in Challenges : challenges[c] # None /\ challenges[c].kind = "registration" =>
       challenges[c].isNew \/ challenges[c].user \in signedIn
  /\ \A r \in Requests : JoiningOK(req[r])
  /\ \A r \in Requests : req[r].at \in SigningIn => HasAccount(req[r].user)
  /\ \A u \in signedIn : HasAccount(u)

-----------------------------------------------------------------------------
\* A login about to write its counter found it a step forward from the row it
\* read, unless the hook may consent.
CounterInv ==
  \A r \in Requests : req[r].at = "logUpdate" =>
    (Regressed(answers[req[r].chal].count, req[r].stored.counter) => TRUE \in HookAllows)

\* A removal about to delete its row counted another passkey than its own; each
\* passkey it counted is still the account's, or another removal took it.
Counted(q) ==
  /\ q.listed \ {q.cred} # {}
  /\ \A k \in q.listed : k \in revoked \/ k \in CredentialsOf(q.user)

DropInv ==
  /\ \A r \in Requests : req[r].at \in Deleting /\ Stored(req[r].cred) =>
       creds[req[r].cred].owner = req[r].user
  /\ \A r \in Requests : req[r].at = "delDrop" => Counted(req[r])

-----------------------------------------------------------------------------
(***************************************************************************)
(* What one step does to the requests.                                     *)
(***************************************************************************)
\* A route writes to no slot but its own.
LEMMA OthersStay ==
  ASSUME TypeInv, NEW r \in Requests, Arrive(r) \/ Handle(r) \/ Abort(r)
  PROVE  /\ \A s \in Requests : s # r => req'[s] = req[s]
         /\ UNCHANGED req \/ \E x : Become(r, x) /\ req'[r] = x
  <1>1. req \in [Requests -> Request]
    BY DEF TypeInv, TypeOK, ServerTypeOK
  <1>2. UNCHANGED req \/ \E x : Become(r, x)
    <2>1. ASSUME Arrive(r) PROVE UNCHANGED req \/ \E x : Become(r, x)
      BY <2>1 DEF Arrive, StartSignUp, StartScopedLogin, StartAddPasskey, StartLogin, StartDelete,
           StartRename, FinishRegistration, FinishLogin
    <2>2. ASSUME Handle(r) \/ Abort(r) PROVE \E x : Become(r, x)
      BY <2>2 DEF Handle, Abort, ListExcluded, ListAllowed, SaveLogin, SaveRegistration, CheckUnique,
           MakeAccount, FindAccount, StoreCredential, FindCredential, RecordLogin, Reply,
           CheckOwner, ListRemaining, DropCredential, SetNickname, Proceed, GoTo, End
    <2>3. QED
      BY <2>1, <2>2
  <1>3. QED
    BY <1>1, <1>2 DEF Become

\* The request a finish route begins for a verified answer.
Verifying(r, c) ==
  LET q == req'[r]
  IN /\ q.chal = c /\ q.cred = answers[c].cred /\ q.pending = challenges[c]
     /\ answers[c] # None /\ challenges[c] # None
     /\ answers[c].kind = challenges[c].kind
     /\ \/ q.at = "regUnique" /\ answers[c].kind = "registration" /\ q.user = challenges[c].user
        \/ q.at = "logFind" /\ answers[c].kind = "authentication"

\* How a route begins: what its first call has made sure of.
Begins(r) ==
  LET q == req'[r]
  IN \/ UNCHANGED req
     \/ q.at \in {"logList", "logSave", "renSet"}
     \/ q.at = "regSave" /\ q.user = None
     \/ q.at = "regList" /\ q.user \in signedIn
     \/ q.at = "delList" /\ Owns(q.user, q.cred)
     \/ \E c \in Challenges : Verifying(r, c)

LEMMA ArriveBegins ==
  ASSUME TypeInv, NEW r \in Requests, Arrive(r)
  PROVE  /\ Begins(r)
         /\ UNCHANGED <<users, creds, outside, signedIn, history>>
         /\ \A c \in Challenges : challenges'[c] \in {challenges[c], None}
  <1>1. /\ req \in [Requests -> Request]
        /\ challenges \in [Challenges -> ChallengeRow \cup {None}]
        /\ users \in [UserIds -> UserCell]
    BY DEF TypeInv, TypeOK, StoreTypeOK, ServerTypeOK
  <1>2. ASSUME NEW x, Become(r, x) PROVE req'[r] = x
    BY <1>1, <1>2 DEF Become
  <1>3. ASSUME NEW n \in Usernames, StartSignUp(r, n) PROVE Begins(r)
    <2>1. req'[r] = [Idle EXCEPT !.at = "regSave", !.name = n]
      BY <1>2, <1>3 DEF StartSignUp
    <2>2. QED
      BY <2>1 DEF Begins, Idle
  <1>4. ASSUME NEW n \in Usernames, StartScopedLogin(r, n) PROVE Begins(r)
    <2>1. PICK u : req'[r] = [Idle EXCEPT !.at = "logList", !.user = u]
      BY <1>2, <1>4 DEF StartScopedLogin
    <2>2. QED
      BY <2>1 DEF Begins, Idle
  <1>5. ASSUME NEW u \in UserIds, StartAddPasskey(r, u) PROVE Begins(r)
    <2>1. req'[r] = [Idle EXCEPT !.at = "regList", !.user = u, !.name = users[u]] /\ u \in signedIn
      BY <1>2, <1>5 DEF StartAddPasskey
    <2>2. QED
      BY <2>1 DEF Begins, Idle
  <1>6. ASSUME StartLogin(r) PROVE Begins(r)
    <2>1. req'[r] = [Idle EXCEPT !.at = "logSave"]
      BY <1>2, <1>6 DEF StartLogin
    <2>2. QED
      BY <2>1 DEF Begins, Idle
  <1>7. ASSUME NEW u \in UserIds, NEW k \in CredIds, StartDelete(r, u, k) PROVE Begins(r)
    <2>1. /\ req'[r] = [Idle EXCEPT !.at = "delList", !.user = u, !.cred = k]
          /\ Owns(u, k)
      BY <1>2, <1>7 DEF StartDelete
    <2>2. req'[r].at = "delList" /\ req'[r].user = u /\ req'[r].cred = k
      BY <2>1 DEF Idle
    <2>3. QED
      BY <2>1, <2>2 DEF Begins
  <1>8. ASSUME NEW u \in UserIds, NEW k \in CredIds, NEW label \in Nicknames,
               StartRename(r, u, k, label)
        PROVE  Begins(r)
    <2>1. req'[r] = [Idle EXCEPT !.at = "renSet", !.user = u, !.cred = k, !.label = label]
      BY <1>2, <1>8 DEF StartRename
    <2>2. QED
      BY <2>1 DEF Begins, Idle
  <1>9. ASSUME NEW c \in Challenges, FinishRegistration(r, c) PROVE Begins(r)
    <2>1. CASE RegistrationVerifies(Taken(c), answers[c])
      <3>1. Taken(c) = challenges[c] /\ challenges[c] # None
        BY <2>1, TakenType DEF RegistrationVerifies
      <3>2. req'[r] = [Idle EXCEPT !.at = "regUnique", !.chal = c, !.pending = challenges[c],
                                   !.user = challenges[c].user, !.cred = answers[c].cred]
        BY <1>2, <1>9, <2>1, <3>1 DEF FinishRegistration
      <3>3. /\ req'[r].at = "regUnique" /\ req'[r].chal = c /\ req'[r].pending = challenges[c]
            /\ req'[r].user = challenges[c].user /\ req'[r].cred = answers[c].cred
        BY <3>2 DEF Idle
      <3>4. Verifying(r, c)
        BY <1>9, <2>1, <3>1, <3>3 DEF Verifying, RegistrationVerifies, FinishRegistration
      <3>5. QED
        BY <3>4 DEF Begins
    <2>2. QED
      BY <1>9, <2>1 DEF FinishRegistration, Begins
  <1>10. ASSUME NEW c \in Challenges, FinishLogin(r, c) PROVE Begins(r)
    <2>1. CASE LoginAnswers(Taken(c), answers[c])
      <3>1. Taken(c) = challenges[c] /\ challenges[c] # None
        BY <2>1, TakenType DEF LoginAnswers
      <3>2. req'[r] = [Idle EXCEPT !.at = "logFind", !.chal = c, !.pending = challenges[c],
                                   !.cred = answers[c].cred]
        BY <1>2, <1>10, <2>1, <3>1 DEF FinishLogin
      <3>3. /\ req'[r].at = "logFind" /\ req'[r].chal = c /\ req'[r].pending = challenges[c]
            /\ req'[r].cred = answers[c].cred
        BY <3>2 DEF Idle
      <3>4. Verifying(r, c)
        BY <1>10, <2>1, <3>1, <3>3 DEF Verifying, LoginAnswers, FinishLogin
      <3>5. QED
        BY <3>4 DEF Begins
    <2>2. QED
      BY <1>10, <2>1 DEF FinishLogin, Begins
  <1>11. Begins(r)
    BY <1>3, <1>4, <1>5, <1>6, <1>7, <1>8, <1>9, <1>10 DEF Arrive
  <1>12. UNCHANGED <<users, creds, outside, signedIn, history>>
    BY DEF Arrive, StartSignUp, StartScopedLogin, StartAddPasskey, StartLogin, StartDelete,
         StartRename, FinishRegistration, FinishLogin, TakeChallenge, tables
  <1>13. \A c \in Challenges : challenges'[c] \in {challenges[c], None}
    <2>1. UNCHANGED challenges \/ \E c \in Challenges : challenges' = [challenges EXCEPT ![c] = None]
      BY DEF Arrive, StartSignUp, StartScopedLogin, StartAddPasskey, StartLogin, StartDelete,
           StartRename, FinishRegistration, FinishLogin, TakeChallenge, tables
    <2>2. QED
      BY <1>1, <2>1
  <1>14. QED
    BY <1>11, <1>12, <1>13

\* The calls of each route in their order.
Succession ==
  {<<"regList", "regSave">>, <<"regUnique", "regAccount">>, <<"regAccount", "regStore">>,
   <<"regStore", "regReply">>, <<"logList", "logSave">>, <<"logFind", "logOwner">>,
   <<"logOwner", "logUpdate">>, <<"logUpdate", "logReply">>, <<"delList", "delDrop">>}

\* How a route goes on: with its next call and what it knew, or not at all.
Continues(r) ==
  LET p == req[r]
      q == req'[r]
  IN \/ q = Idle
     \/ /\ <<p.at, q.at>> \in Succession
        /\ q.chal = p.chal /\ q.cred = p.cred /\ q.pending = p.pending
        /\ \/ p.at # "logFind" /\ q.user = p.user /\ q.stored = p.stored
           \/ /\ p.at = "logFind" /\ Stored(p.cred)
              /\ q.stored = creds[p.cred] /\ q.user = creds[p.cred].owner
        /\ p.at = "regStore" => StoreCredential(r) /\ ~Stored(p.cred)
        /\ p.at = "logUpdate" => RecordLogin(r)
        /\ p.at = "logOwner" => \E allow \in HookAllows :
             Regressed(answers[p.chal].count, p.stored.counter) => allow
        /\ p.at = "delList" => /\ Cardinality(CredentialsOf(p.user)) > 1
                               /\ q.listed = CredentialsOf(p.user)

LEMMA HandleContinues ==
  ASSUME TypeInv, NEW r \in Requests, Handle(r) \/ Abort(r)
  PROVE  Continues(r)
  <1> DEFINE p == req[r]
             Next1(place) == [p EXCEPT !.at = place]
  <1>1. req \in [Requests -> Request] /\ p \in Request
    BY DEF TypeInv, TypeOK, ServerTypeOK
  <1>2. ASSUME NEW x, Become(r, x) PROVE req'[r] = x
    BY <1>1, <1>2 DEF Become
  <1>3. CASE Become(r, Idle)
    BY <1>2, <1>3 DEF Continues
  <1>4. CASE ListExcluded(r)
    <2>1. req'[r] = [p EXCEPT !.at = "regSave", !.listed = CredentialsOf(p.user)] /\ p.at = "regList"
      BY <1>2, <1>4 DEF ListExcluded, At
    <2>2. QED
      BY <1>1, <2>1 DEF Continues, Succession, Request
  <1>5. CASE ListAllowed(r)
    <2>1. req'[r] = [p EXCEPT !.at = "logSave", !.listed = CredentialsOf(p.user)] /\ p.at = "logList"
      BY <1>2, <1>5 DEF ListAllowed, At
    <2>2. QED
      BY <1>1, <2>1 DEF Continues, Succession, Request
  <1>6. ASSUME NEW place, req'[r] = Next1(place)
        PROVE  /\ req'[r].at = place /\ req'[r].chal = p.chal /\ req'[r].cred = p.cred
               /\ req'[r].pending = p.pending /\ req'[r].user = p.user /\ req'[r].stored = p.stored
    BY <1>1, <1>6 DEF Request
  <1>7. CASE CheckUnique(r)
    <2>1. Become(r, Idle) \/ (req'[r] = Next1("regAccount") /\ p.at = "regUnique")
      BY <1>2, <1>7 DEF CheckUnique, At, Proceed, GoTo, End
    <2>2. QED
      BY <1>3, <1>6, <2>1 DEF Continues, Succession
  <1>8. CASE MakeAccount(r) \/ FindAccount(r)
    <2>1. Become(r, Idle) \/ (req'[r] = Next1("regStore") /\ p.at = "regAccount")
      BY <1>2, <1>8 DEF MakeAccount, FindAccount, At, Proceed, GoTo, End
    <2>2. QED
      BY <1>3, <1>6, <2>1 DEF Continues, Succession
  <1>9. CASE StoreCredential(r)
    <2>1. \/ Become(r, Idle)
          \/ req'[r] = Next1("regReply") /\ p.at = "regStore" /\ ~Stored(p.cred)
      BY <1>2, <1>9 DEF StoreCredential, At, Proceed, GoTo, End
    <2>2. QED
      BY <1>3, <1>6, <1>9, <2>1 DEF Continues, Succession
  <1>10. CASE FindCredential(r)
    <2>1. CASE AssertionVerifies(p.pending, answers[p.chal], creds[p.cred])
      <3>1. /\ req'[r] = [p EXCEPT !.at = "logOwner", !.stored = creds[p.cred],
                                   !.user = creds[p.cred].owner]
            /\ p.at = "logFind" /\ Stored(p.cred)
        BY <1>2, <1>10, <2>1 DEF FindCredential, At, AssertionVerifies, Stored
      <3>2. /\ req'[r].at = "logOwner" /\ req'[r].chal = p.chal /\ req'[r].cred = p.cred
            /\ req'[r].pending = p.pending /\ req'[r].stored = creds[p.cred]
            /\ req'[r].user = creds[p.cred].owner
        BY <1>1, <3>1 DEF Request
      <3>3. QED
        BY <3>1, <3>2 DEF Continues, Succession
    <2>2. QED
      BY <1>3, <1>10, <2>1 DEF FindCredential, End
  <1>11. ASSUME NEW allow \in HookAllows, CheckOwner(r, allow) PROVE Continues(r)
    <2>1. \/ Become(r, Idle)
          \/ /\ req'[r] = Next1("logUpdate") /\ p.at = "logOwner"
             /\ Regressed(answers[p.chal].count, p.stored.counter) => allow
      BY <1>2, <1>11 DEF CheckOwner, At, Proceed, GoTo, End
    <2>2. QED
      BY <1>3, <1>6, <2>1 DEF Continues, Succession
  <1>12. CASE RecordLogin(r)
    <2>1. Become(r, Idle) \/ (req'[r] = Next1("logReply") /\ p.at = "logUpdate")
      BY <1>2, <1>12 DEF RecordLogin, At, Proceed, GoTo, End
    <2>2. QED
      BY <1>3, <1>6, <1>12, <2>1 DEF Continues, Succession
  <1>13. CASE ListRemaining(r)
    <2>1. \/ Become(r, Idle)
          \/ /\ req'[r] = [p EXCEPT !.at = "delDrop", !.listed = CredentialsOf(p.user)]
             /\ p.at = "delList" /\ Cardinality(CredentialsOf(p.user)) > 1
      BY <1>2, <1>13 DEF ListRemaining, At, End
    <2>2. ASSUME req'[r] = [p EXCEPT !.at = "delDrop", !.listed = CredentialsOf(p.user)]
          PROVE  /\ req'[r].at = "delDrop" /\ req'[r].chal = p.chal /\ req'[r].cred = p.cred
                 /\ req'[r].pending = p.pending /\ req'[r].user = p.user
                 /\ req'[r].stored = p.stored /\ req'[r].listed = CredentialsOf(p.user)
      BY <1>1, <2>2 DEF Request
    <2>3. QED
      BY <1>3, <2>1, <2>2 DEF Continues, Succession
  <1>14. QED
    BY <1>3, <1>4, <1>5, <1>7, <1>8, <1>9, <1>10, <1>11, <1>12, <1>13
    DEF Handle, Abort, SaveLogin, SaveRegistration, Reply, DropCredential, SetNickname, End

-----------------------------------------------------------------------------
(***************************************************************************)
(* What one step does to the tables.                                       *)
(***************************************************************************)
\* A request that has a credential in hand has one.
LEMMA HasCred ==
  ASSUME TypeInv, NEW r \in Requests,
         req[r].at \in Finishing \cup {"delList", "delDrop", "renSet"}
  PROVE  req[r].cred \in CredIds
  BY DEF TypeInv, TypeOK, ServerTypeOK, Request, RequestOK

\* Credential k is stored by a registration, which found it absent.
Stores(r, k) ==
  /\ StoreCredential(r) /\ req[r].at = "regStore" /\ req[r].cred = k /\ ~Stored(k)
  /\ creds'[k] = [owner |-> req[r].user, counter |-> answers[req[r].chal].count, nickname |-> None]

\* A login writes its counter to the row it finds.
Records(r, k) ==
  /\ RecordLogin(r) /\ req[r].at = "logUpdate" /\ req[r].cred = k /\ Stored(k)
  /\ creds'[k] = [creds[k] EXCEPT !.counter = answers[req[r].chal].count]

\* A rename writes its label to the row it finds.
Relabels(k) == Stored(k) /\ \E r \in Requests : creds'[k] = [creds[k] EXCEPT !.nickname = req[r].label]

Drops(r, k) ==
  /\ DropCredential(r) /\ req[r].at = "delDrop" /\ req[r].cred = k
  /\ creds'[k] = None /\ revoked' = revoked \cup {k}

\* A rewritten row is still there and keeps its owner.
LEMMA RewriteKeeps ==
  ASSUME TypeInv, NEW k \in CredIds,
         Relabels(k) \/ \E r \in Requests : Records(r, k)
  PROVE  Stored(k) /\ creds'[k] \in CredRow /\ creds'[k].owner = creds[k].owner
  <1>1. Stored(k) /\ creds[k] \in CredRow
    BY DEF Relabels, Records, Stored, TypeInv, TypeOK, StoreTypeOK
  <1>2. ASSUME NEW r \in Requests, creds'[k] = [creds[k] EXCEPT !.nickname = req[r].label]
        PROVE  creds'[k] \in CredRow /\ creds'[k].owner = creds[k].owner
    <2>1. req[r].label \in Nicknames \cup {None}
      BY DEF TypeInv, TypeOK, ServerTypeOK, Request
    <2>2. QED
      BY <1>1, <1>2, <2>1 DEF CredRow
  <1>3. ASSUME NEW r \in Requests, Records(r, k)
        PROVE  creds'[k] \in CredRow /\ creds'[k].owner = creds[k].owner
    <2>1. req[r].chal \in Challenges /\ answers[req[r].chal] # None
      BY <1>3 DEF Records, TypeInv, TypeOK, ServerTypeOK, Request, RequestOK, Finishing
    <2>2. answers[req[r].chal].count \in 0 .. MaxCount
      BY <2>1 DEF TypeInv, TypeOK, ServerTypeOK, Answer
    <2>3. QED
      BY <1>1, <1>3, <2>2 DEF Records, CredRow
  <1>4. QED
    BY <1>1, <1>2, <1>3 DEF Relabels

\* Four calls write a credential's row.
LEMMA CredChange ==
  ASSUME TypeInv, [Next]_vars, NEW k \in CredIds
  PROVE  \/ creds'[k] = creds[k]
         \/ Relabels(k)
         \/ \E r \in Requests : Stores(r, k) \/ Records(r, k) \/ Drops(r, k)
  <1>1. creds \in [CredIds -> CredRow \cup {None}]
    BY DEF TypeInv, TypeOK, StoreTypeOK
  <1>2. ASSUME NEW r \in Requests, StoreCredential(r) PROVE creds'[k] = creds[k] \/ Stores(r, k)
    BY <1>1, <1>2 DEF StoreCredential, At, PutCredential, tables, Stores
  <1>3. ASSUME NEW r \in Requests, RecordLogin(r) PROVE creds'[k] = creds[k] \/ Records(r, k)
    BY <1>1, <1>3 DEF RecordLogin, At, UpdateCounter, PutCredential, tables, Records
  <1>4. ASSUME NEW r \in Requests, SetNickname(r) PROVE creds'[k] = creds[k] \/ Relabels(k)
    BY <1>1, <1>4 DEF SetNickname, UpdateNickname, PutCredential, tables, Relabels
  <1>5. ASSUME NEW r \in Requests, DropCredential(r) PROVE creds'[k] = creds[k] \/ Drops(r, k)
    BY <1>1, <1>5 DEF DropCredential, At, DeleteCredential, PutCredential, Drops
  <1>6. ASSUME NEW r \in Requests, Handle(r) \/ Abort(r)
        PROVE  \/ UNCHANGED creds
               \/ StoreCredential(r) \/ RecordLogin(r) \/ SetNickname(r) \/ DropCredential(r)
    BY <1>6 DEF Handle, Abort, ListExcluded, ListAllowed, SaveLogin, SaveRegistration,
         SaveChallenge, CheckUnique, MakeAccount, FindAccount, FindCredential,
         Reply, CheckOwner, ListRemaining, CreateUser, tables
  <1>7. ASSUME NEW r \in Requests, Arrive(r) PROVE UNCHANGED creds
    BY <1>7, ArriveBegins
  <1>8. CASE Sign \/ Tick \/ UNCHANGED vars
    BY <1>8 DEF Sign, CreatePasskey, GetAssertion, Tick, vars, tables
  <1>9. QED
    BY <1>2, <1>3, <1>4, <1>5, <1>6, <1>7, <1>8 DEF Next

\* Only a removal adds to the removed credentials.
LEMMA RevokedChange ==
  ASSUME TypeInv, [Next]_vars
  PROVE  UNCHANGED revoked \/ \E r \in Requests : Drops(r, req[r].cred)
  <1>1. ASSUME NEW r \in Requests, DropCredential(r) PROVE Drops(r, req[r].cred)
    <2>1. req[r].cred \in CredIds
      BY <1>1, HasCred DEF DropCredential, At
    <2>2. QED
      BY <1>1, <2>1 DEF DropCredential, At, DeleteCredential, PutCredential, Drops,
           TypeInv, TypeOK, StoreTypeOK
  <1>2. ASSUME NEW r \in Requests, Handle(r) \/ Abort(r) PROVE UNCHANGED revoked \/ DropCredential(r)
    BY <1>2 DEF Handle, Abort, ListExcluded, ListAllowed, SaveLogin, SaveRegistration,
         CheckUnique, MakeAccount, FindAccount, StoreCredential, FindCredential, RecordLogin,
         Reply, CheckOwner, ListRemaining, SetNickname, history
  <1>3. ASSUME NEW r \in Requests, Arrive(r) PROVE UNCHANGED revoked
    BY <1>3, ArriveBegins DEF history
  <1>4. CASE Sign \/ Tick \/ UNCHANGED vars
    BY <1>4 DEF Sign, CreatePasskey, GetAssertion, Tick, vars, history
  <1>5. QED
    BY <1>1, <1>2, <1>3, <1>4 DEF Next

\* A start route adds the row of a fresh challenge; no other step adds one.
LEMMA RowChange ==
  ASSUME TypeInv, [Next]_vars, NEW c \in Challenges, issued[c] # None
  PROVE  challenges'[c] \in {challenges[c], None}
  <1>1. challenges \in [Challenges -> ChallengeRow \cup {None}]
    BY DEF TypeInv, TypeOK, StoreTypeOK
  <1>2. ASSUME NEW r \in Requests, Arrive(r) PROVE challenges'[c] \in {challenges[c], None}
    BY <1>2, ArriveBegins
  <1>3. ASSUME NEW r \in Requests, Handle(r) \/ Abort(r)
        PROVE  \/ \E d \in Challenges, uv \in UVChoices :
                    SaveLogin(r, d, uv) \/ \E u \in UserIds : SaveRegistration(r, d, u, uv)
               \/ UNCHANGED challenges
    BY <1>3 DEF Handle, Abort, ListExcluded, ListAllowed, CheckUnique,
           MakeAccount, FindAccount, StoreCredential, FindCredential, RecordLogin, Reply,
           CheckOwner, ListRemaining, DropCredential, SetNickname, CreateUser, PutCredential,
           UpdateCounter, UpdateNickname, DeleteCredential, tables
  <1>4. ASSUME NEW r \in Requests, NEW d \in Challenges, NEW uv \in UVChoices,
               SaveLogin(r, d, uv) \/ \E u \in UserIds : SaveRegistration(r, d, u, uv)
        PROVE  challenges'[c] \in {challenges[c], None}
    <2>1. d # c
      BY <1>4 DEF SaveLogin, SaveRegistration, FreshChallenges
    <2>2. QED
      BY <1>4, <2>1 DEF SaveLogin, SaveRegistration, SaveChallenge
  <1>5. CASE Sign \/ Tick \/ UNCHANGED vars
    BY <1>5 DEF Sign, CreatePasskey, GetAssertion, Tick, vars, tables
  <1>6. QED
    BY <1>2, <1>3, <1>4, <1>5 DEF Next

-----------------------------------------------------------------------------
(***************************************************************************)
(* A credential is stored once.                                            *)
(***************************************************************************)
\* A request registering credential k holds the answer that makes k.
LEMMA RegisteringMakes ==
  ASSUME TypeInv, BindInv, PasskeyInv, NEW r \in Requests, req[r].at \in Registering
  PROVE  /\ req[r].chal \in Challenges /\ req[r].cred \in CredIds
         /\ Makes(req[r].chal, req[r].cred)
         /\ issued[req[r].chal] # None /\ issued[req[r].chal].kind = "registration"
  <1>1. PendingOK(req[r]) /\ RouteOK(req[r]) /\ req[r].at \in Finishing
    BY DEF BindInv, Agreement, PasskeyInv, Registering, Unstored, Finishing
  <1>2. AnswerOK(req[r].chal)
    BY <1>1 DEF PendingOK, BindInv, Agreement
  <1>3. QED
    BY <1>1, <1>2, HasCred DEF PendingOK, RouteOK, Makes, AnswerOK

\* What is stored now was not known to the server before.
LEMMA StoresUnknown ==
  ASSUME TypeInv, BindInv, PasskeyInv, NEW r \in Requests, NEW k \in CredIds, Stores(r, k)
  PROVE  ~Known(k) /\ Held(k) /\ Makes(req[r].chal, k)
  <1>1. req[r].at \in Unstored /\ req[r].at \in Registering /\ req[r].cred = k
    BY DEF Stores, Unstored, Registering
  <1>2. req[r].chal \in Challenges /\ Makes(req[r].chal, k)
    BY <1>1, RegisteringMakes
  <1>3. Open(req[r].chal)
    BY <1>1 DEF Open, Holds
  <1>4. Held(k)
    BY <1>2 DEF Makes, BindInv, Agreement, AnswerOK
  <1>5. QED
    BY <1>2, <1>3, <1>4 DEF PasskeyInv, OneMaker

LEMMA KnownChange ==
  ASSUME TypeInv, BindInv, PasskeyInv, [Next]_vars, NEW k \in CredIds
  PROVE  /\ Known(k) => Known(k)'
         /\ Known(k)' => Known(k) \/ \E r \in Requests : Stores(r, k)
  <1>1. creds \in [CredIds -> CredRow \cup {None}]
    BY DEF TypeInv, TypeOK, StoreTypeOK
  <1>2. ASSUME NEW r \in Requests, Drops(r, req[r].cred) PROVE Known(req[r].cred)
    BY <1>2 DEF Drops, PasskeyInv, RouteOK, Deleting
  <1>3. k \in revoked => k \in revoked'
    BY RevokedChange DEF Drops
  <1>4. k \in revoked' => Known(k)
    BY <1>2, RevokedChange DEF Drops, Known
  <1>5. Stored(k) => Known(k)'
    <2>1. SUFFICES ASSUME Stored(k), creds'[k] = None PROVE k \in revoked'
      BY DEF Known, Stored
    <2>2. PICK r \in Requests : Drops(r, k)
      BY <2>1, CredChange, RewriteKeeps, NoneAssumption DEF Stores, Stored
    <2>3. QED
      BY <2>2 DEF Drops
  <1>6. Stored(k)' => Known(k) \/ \E r \in Requests : Stores(r, k)
    BY CredChange DEF Stored, Known, Relabels, Records, Drops
  <1>7. QED
    BY <1>3, <1>4, <1>5, <1>6 DEF Known

\* A ceremony that was answered opens no more.
LEMMA OpenShrinks ==
  ASSUME TypeInv, BindInv, [Next]_vars, NEW c \in Challenges, answers[c] # None, Open(c)'
  PROVE  Open(c)
  <1>1. issued[c] # None
    BY DEF BindInv, Agreement, AnswerOK
  <1>2. CASE challenges'[c] # None
    BY <1>1, <1>2, RowChange DEF Open
  <1>3. ASSUME NEW s \in Requests, Holds(s, c)', req'[s].at \in Unstored
        PROVE  Open(c)
    <2>1. CASE req'[s] = req[s]
      BY <1>3, <2>1 DEF Holds, Open
    <2>2. CASE req'[s] # req[s]
      <3>1. Arrive(s) \/ Handle(s) \/ Abort(s)
        BY <2>2, OthersStay DEF Next, Sign, CreatePasskey, GetAssertion, Tick, vars
      <3>2. CASE Arrive(s)
        BY <1>3, <2>2, <3>2, ArriveBegins DEF Begins, Verifying, Unstored, Holds, Open
      <3>3. CASE Handle(s) \/ Abort(s)
        BY <1>3, <3>3, HandleContinues DEF Continues, Succession, Idle, Unstored, Holds, Open
      <3>4. QED
        BY <3>1, <3>2, <3>3
    <2>3. QED
      BY <2>1, <2>2
  <1>4. QED
    BY <1>2, <1>3 DEF Open

\* The step that stores a credential ends its ceremony.
LEMMA StoringCloses ==
  ASSUME TypeInv, SingleUseInv, BindInv, PasskeyInv, [Next]_vars,
         NEW r \in Requests, NEW k \in CredIds, Stores(r, k),
         NEW c \in Challenges, c = req[r].chal
  PROVE  ~Open(c)'
  <1>1. /\ c \in Challenges /\ Holds(r, c) /\ OnePlace(c) /\ issued[c] # None
    BY RegisteringMakes DEF Stores, Registering, Unstored, Holds, SingleUseInv
  <1>2. challenges'[c] = None
    BY <1>1, RowChange DEF OnePlace
  <1>3. ASSUME NEW s \in Requests, Holds(s, c)', req'[s].at \in Unstored
        PROVE  FALSE
    <2>1. Handle(r)
      BY DEF Handle, Stores
    <2>2. CASE s = r
      BY <1>3, <2>1, <2>2, HandleContinues DEF Continues, Succession, Unstored, Idle, Stores
    <2>3. CASE s # r
      <3>1. Holds(s, c)
        BY <1>3, <2>1, <2>3, OthersStay DEF Holds
      <3>2. QED
        BY <1>1, <2>3, <3>1 DEF OnePlace
    <2>4. QED
      BY <2>2, <2>3
  <1>4. QED
    BY <1>2, <1>3 DEF Open

\* Nothing that signs or waits is a request that moves.
LEMMA MovedByItself ==
  ASSUME TypeInv, [Next]_vars, NEW s \in Requests, req'[s] # req[s]
  PROVE  Arrive(s) \/ Handle(s) \/ Abort(s)
  BY OthersStay DEF Next, Sign, CreatePasskey, GetAssertion, Tick, vars

\* Requests write no answer and fill no wallet.
LEMMA SignedAlone ==
  ASSUME TypeInv, [Next]_vars, ~Sign
  PROVE  UNCHANGED <<answers, wallet>>
  BY IssuedGrows DEF Next, Tick, vars, outside

LEMMA OneMakerNext ==
  ASSUME TypeInv, SingleUseInv, BindInv, PasskeyInv, [Next]_vars
  PROVE  \A c \in Challenges, k \in CredIds : OneMaker(c, k)'
  <1>0. answers \in [Challenges -> Answer \cup {None}]
    BY DEF TypeInv, TypeOK, ServerTypeOK
  <1>1. ASSUME NEW c \in Challenges, NEW k \in CredIds, Makes(c, k), OneMaker(c, k), Open(c)',
               Known(k)'
        PROVE  FALSE
    <2>1. ~Known(k)
      BY <1>1, OpenShrinks DEF OneMaker, Makes
    <2>2. PICK r \in Requests : Stores(r, k)
      BY <1>1, <2>1, KnownChange
    <2>3. req[r].chal \in Challenges /\ Makes(req[r].chal, k)
      BY <2>2, RegisteringMakes DEF Stores, Registering, Unstored
    <2>4. req[r].chal = c
      BY <1>1, <2>3 DEF OneMaker
    <2>5. QED
      BY <1>1, <2>2, <2>4, StoringCloses
  <1>2. CASE UNCHANGED answers
    <2>1. ASSUME NEW c \in Challenges, NEW k \in CredIds PROVE Makes(c, k)' <=> Makes(c, k)
      BY <1>2 DEF Makes
    <2>2. ASSUME NEW c \in Challenges, NEW k \in CredIds PROVE OneMaker(c, k)'
      <3>1. OneMaker(c, k)
        BY DEF PasskeyInv
      <3>2. QED
        BY <1>1, <2>1, <3>1 DEF OneMaker
    <2>3. QED
      BY <2>2
  <1>3. ASSUME NEW b \in Challenges, NEW x \in CredIds, NEW flags \in AnswerFlags,
               CreatePasskey(b, x, flags) \/ GetAssertion(b, x, flags)
        PROVE  \A c \in Challenges, k \in CredIds : OneMaker(c, k)'
    <2>1. /\ answers[b] = None /\ UNCHANGED <<creds, revoked>>
          /\ \A d \in Challenges : d # b => answers'[d] = answers[d]
      BY <1>0, <1>3 DEF CreatePasskey, GetAssertion, tables, history
    <2>2. ASSUME NEW k \in CredIds, Makes(b, k)' PROVE k = x /\ ~Held(k) /\ CreatePasskey(b, x, flags)
      BY <1>0, <1>3, <2>2 DEF CreatePasskey, GetAssertion, Makes
    <2>3. ASSUME NEW d \in Challenges, NEW k \in CredIds, Makes(d, k) PROVE Held(k)
      BY <2>3 DEF Makes, BindInv, Agreement, AnswerOK
    <2>4. ASSUME NEW d \in Challenges, NEW k \in CredIds, d # b PROVE Makes(d, k)' <=> Makes(d, k)
      BY <2>1, <2>4 DEF Makes
    <2>5. ASSUME NEW c \in Challenges, NEW k \in CredIds, Makes(c, k)' PROVE OneMaker(c, k)'
      <3>1. OneMaker(c, k) /\ KnownOK(k)
        BY DEF PasskeyInv
      <3>2. CASE c = b
        <4>1. ~Known(k)'
          BY <2>1, <2>2, <2>5, <3>1, <3>2 DEF Known, Stored, KnownOK
        <4>2. QED
          BY <2>2, <2>3, <2>4, <2>5, <3>2, <4>1 DEF OneMaker
      <3>3. CASE c # b
        <4>1. Makes(c, k) /\ Held(k)
          BY <2>3, <2>4, <2>5, <3>3
        <4>2. \A d \in Challenges : Makes(d, k)' => c = d
          BY <2>2, <2>4, <3>1, <4>1 DEF OneMaker
        <4>3. QED
          BY <1>1, <3>1, <4>1, <4>2 DEF OneMaker
      <3>4. QED
        BY <3>2, <3>3
    <2>6. QED
      BY <2>5 DEF OneMaker
  <1>4. QED
    BY <1>2, <1>3, SignedAlone DEF Sign

LEMMA KnownNext ==
  ASSUME TypeInv, SingleUseInv, BindInv, PasskeyInv, [Next]_vars, NEW k \in CredIds
  PROVE  KnownOK(k)'
  <1>1. KnownOK(k) /\ (Held(k) => Held(k)')
    BY StepGrows DEF PasskeyInv, Grows, Held
  <1>2. Known(k)' => Held(k)'
    BY <1>1, KnownChange, StoresUnknown DEF KnownOK
  <1>3. ASSUME k \in revoked', Stored(k)' PROVE FALSE
    <2>1. CASE k \in revoked
      <3>1. ~Stored(k) /\ Known(k)
        BY <1>1, <2>1 DEF KnownOK, Known
      <3>2. QED
        BY <1>3, <3>1, CredChange, RewriteKeeps, StoresUnknown DEF Stored, Drops, Records
    <2>2. CASE k \notin revoked
      <3>1. PICK r \in Requests : Drops(r, req[r].cred)
        BY <1>3, <2>2, RevokedChange
      <3>2. req[r].cred = k
        BY <1>3, <2>2, <3>1 DEF Drops
      <3>3. QED
        BY <1>3, <3>1, <3>2 DEF Drops, Stored
    <2>3. QED
      BY <2>1, <2>2
  <1>4. QED
    BY <1>2, <1>3 DEF KnownOK

LEMMA RouteNext ==
  ASSUME TypeInv, SingleUseInv, BindInv, PasskeyInv, [Next]_vars, NEW s \in Requests
  PROVE  RouteOK(req[s])'
  <1>1. RouteOK(req[s]) /\ Grows
    BY StepGrows DEF PasskeyInv
  <1>2. req[s].at \in Registering => req[s].chal \in Challenges /\ answers[req[s].chal] # None
    BY RegisteringMakes DEF Makes
  <1> DEFINE StillKnown(k) == creds'[k] # None \/ k \in revoked'
  <1>3. req[s].at \in Deleting \cup SigningIn => StillKnown(req[s].cred)
    <2>1. req[s].at \in Deleting \cup SigningIn => req[s].cred \in CredIds
      BY HasCred DEF Deleting, SigningIn, Finishing
    <2>2. QED
      BY <1>1, <2>1, KnownChange DEF RouteOK, Known, Stored
  <1>4. CASE req'[s] = req[s]
    BY <1>1, <1>2, <1>3, <1>4 DEF RouteOK, Grows, Known, Stored
  <1>5. CASE Arrive(s) /\ req'[s] # req[s]
    <2>1. Begins(s) /\ UNCHANGED <<creds, answers, revoked>>
      BY <1>5, ArriveBegins DEF outside, history
    <2>2. CASE \E c \in Challenges : Verifying(s, c)
      BY <2>1, <2>2 DEF Verifying, RouteOK, Registering, Unstored, Deleting, SigningIn
    <2>3. CASE ~\E c \in Challenges : Verifying(s, c)
      BY <1>5, <2>1, <2>3
      DEF Begins, RouteOK, Registering, Unstored, Deleting, SigningIn, Known, Owns, Stored
    <2>4. QED
      BY <2>2, <2>3
  <1>6. CASE Handle(s) \/ Abort(s)
    <2>1. Continues(s) /\ UNCHANGED answers
      BY <1>6, HandleContinues, IssuedGrows
    <2>2. CASE req'[s] = Idle
      BY <2>2 DEF RouteOK, Idle, Registering, Unstored, Deleting, SigningIn
    <2>3. CASE req'[s] # Idle /\ req[s].at = "logFind"
      <3>1. req'[s].at = "logOwner" /\ req'[s].cred = req[s].cred /\ Stored(req[s].cred)
        BY <2>1, <2>3 DEF Continues, Succession
      <3>2. req[s].cred \in CredIds
        BY <2>3, HasCred DEF Finishing
      <3>3. StillKnown(req[s].cred)
        BY <3>1, <3>2, KnownChange DEF Known, Stored
      <3>4. QED
        BY <3>1, <3>3 DEF RouteOK, Registering, Unstored, Known, Stored
    <2>4. CASE req'[s] # Idle /\ req[s].at # "logFind"
      <3>1. /\ <<req[s].at, req'[s].at>> \in Succession
            /\ req'[s].chal = req[s].chal /\ req'[s].cred = req[s].cred
        BY <2>1, <2>4 DEF Continues
      <3>2. req'[s].at \in Registering => req[s].at \in Registering
        BY <3>1 DEF Succession, Registering, Unstored
      <3>3. req'[s].at \in Deleting \cup SigningIn => req[s].at \in Deleting \cup SigningIn
        BY <2>4, <3>1 DEF Succession, Deleting, SigningIn
      <3>4. QED
        BY <1>1, <1>3, <2>1, <3>1, <3>2, <3>3 DEF RouteOK, Known, Stored
    <2>5. QED
      BY <2>2, <2>3, <2>4
  <1>7. QED
    BY <1>4, <1>5, <1>6, MovedByItself

LEMMA PasskeyInit == Init => PasskeyInv
  <1> SUFFICES ASSUME Init PROVE PasskeyInv
    OBVIOUS
  <1>1. CredentialMatchesPasskey
    BY BindInvInit DEF BindInv
  <1>2. \A c \in Challenges, k \in CredIds : OneMaker(c, k)
    BY DEF Init, OneMaker, Makes
  <1>3. \A k \in CredIds : KnownOK(k)
    BY <1>1 DEF Init, KnownOK, Known, CredentialMatchesPasskey
  <1>4. \A r \in Requests : RouteOK(req[r])
    BY DEF Init, RouteOK, Idle, Registering, Unstored, Deleting, SigningIn
  <1>5. QED
    BY <1>2, <1>3, <1>4 DEF PasskeyInv

LEMMA PasskeyInvariant == Spec => []PasskeyInv
  <1>1. TypeInv /\ SingleUseInv /\ BindInv /\ PasskeyInv /\ [Next]_vars => PasskeyInv'
    BY OneMakerNext, KnownNext, RouteNext DEF PasskeyInv
  <1>2. QED
    BY <1>1, PasskeyInit, TypeInvariant, SingleUseInvariant, BindInvariant, PTL DEF Spec

\* What was removed stays removed, whatever logins, renames and registrations
\* were under way when deleteCredential was called: the two updates write to a
\* row that is there, and a registration (registration.ts verifyRegistration)
\* stores a credential the server has never had.
THEOREM RevokedForGood == Spec => []RevokedStaysRevoked
  <1>1. TypeInv /\ PasskeyInv => RevokedStaysRevoked
    BY DEF TypeInv, TypeOK, ServerTypeOK, PasskeyInv, KnownOK, RevokedStaysRevoked
  <1>2. QED
    BY <1>1, TypeInvariant, PasskeyInvariant, PTL

-----------------------------------------------------------------------------
(***************************************************************************)
(* The signature counter.                                                  *)
(***************************************************************************)
\* A signature moves the authenticator's counter up, or leaves it at zero.
LEMMA WalletCounts ==
  ASSUME TypeInv, CountInv, [Next]_vars, NEW k \in CredIds, Held(k)
  PROVE  wallet[k].count \in Nat /\ wallet'[k].count \in Nat /\ wallet[k].count <= wallet'[k].count
  <1>0. /\ wallet \in [CredIds -> Passkey \cup {None}]
        /\ wallet[k] \in Passkey /\ wallet[k].count \in Nat
    BY BoundAssumption DEF TypeInv, TypeOK, ServerTypeOK, Held, Passkey
  <1>1. CASE UNCHANGED wallet
    BY <1>0, <1>1
  <1>2. ASSUME NEW c \in Challenges, NEW x \in CredIds, NEW flags \in AnswerFlags,
               CreatePasskey(c, x, flags)
        PROVE  wallet'[k] = wallet[k]
    BY <1>0, <1>2 DEF CreatePasskey, Held
  <1>3. ASSUME NEW c \in Challenges, NEW x \in CredIds, NEW flags \in AnswerFlags,
               GetAssertion(c, x, flags)
        PROVE  wallet'[k].count \in Nat /\ wallet[k].count <= wallet'[k].count
    <2>1. CASE x = k
      <3>1. wallet'[k].count = SignCount(k)
        BY <1>0, <1>3, <2>1 DEF GetAssertion, Passkey
      <3>2. SignCount(k) \in Nat /\ wallet[k].count <= SignCount(k)
        BY <1>0 DEF SignCount, CountInv
      <3>3. QED
        BY <3>1, <3>2
    <2>2. CASE x # k
      BY <1>0, <1>3, <2>2 DEF GetAssertion
    <2>3. QED
      BY <2>1, <2>2
  <1>4. QED
    BY <1>0, <1>1, <1>2, <1>3, SignedAlone DEF Sign

\* A new answer carries the count its authenticator kept; the others stay.
LEMMA AnswersNotAhead ==
  ASSUME TypeInv, BindInv, CountInv, [Next]_vars, NEW c \in Challenges, answers'[c] # None
  PROVE  answers'[c].count <= wallet'[answers'[c].cred].count
  <1>0. /\ answers \in [Challenges -> Answer \cup {None}]
        /\ wallet \in [CredIds -> Passkey \cup {None}]
    BY DEF TypeInv, TypeOK, ServerTypeOK
  <1>1. CASE answers'[c] = answers[c]
    <2>1. /\ answers[c].cred \in CredIds /\ Held(answers[c].cred) /\ answers[c].count \in Nat
          /\ answers[c].count <= wallet[answers[c].cred].count
      BY <1>0, <1>1, BoundAssumption DEF Answer, BindInv, Agreement, AnswerOK, CountInv
    <2>2. QED
      BY <1>1, <2>1, WalletCounts
  <1>2. ASSUME NEW b \in Challenges, NEW k \in CredIds, NEW flags \in AnswerFlags,
               CreatePasskey(b, k, flags), answers'[c] # answers[c]
        PROVE  answers'[c].count <= wallet'[answers'[c].cred].count
    <2>1. /\ answers'[c].count = 0 /\ answers'[c].cred = k
          /\ wallet'[k].count = 0
      BY <1>0, <1>2 DEF CreatePasskey
    <2>2. QED
      BY <2>1
  <1>3. ASSUME NEW b \in Challenges, NEW k \in CredIds, NEW flags \in AnswerFlags,
               GetAssertion(b, k, flags), answers'[c] # answers[c]
        PROVE  answers'[c].count <= wallet'[answers'[c].cred].count
    <2>1. answers'[c].count = SignCount(k) /\ answers'[c].cred = k
      BY <1>0, <1>3 DEF GetAssertion
    <2>2. wallet[k] \in Passkey /\ wallet' = [wallet EXCEPT ![k] = [wallet[k] EXCEPT !.count = SignCount(k)]]
      BY <1>0, <1>3 DEF GetAssertion, Held
    <2>3. wallet'[k].count = SignCount(k)
      BY <1>0, <2>2 DEF Passkey
    <2>4. SignCount(k) \in Nat
      BY <2>2, BoundAssumption DEF SignCount, Passkey
    <2>5. QED
      BY <2>1, <2>3, <2>4
  <1>4. QED
    BY <1>1, <1>2, <1>3, SignedAlone DEF Sign

LEMMA CountNext ==
  ASSUME TypeInv, BindInv, CountInv, [Next]_vars
  PROVE  CountInv'
  <1>0. /\ creds \in [CredIds -> CredRow \cup {None}]
        /\ answers \in [Challenges -> Answer \cup {None}]
        /\ wallet \in [CredIds -> Passkey \cup {None}]
    BY DEF TypeInv, TypeOK, StoreTypeOK, ServerTypeOK
  <1>1. \A c \in Challenges : answers'[c] # None => answers'[c].count <= wallet'[answers'[c].cred].count
    BY AnswersNotAhead
  <1>2. ASSUME NEW k \in CredIds, Stored(k)' PROVE creds'[k].counter <= wallet'[k].count
    <2>1. ASSUME Stored(k), creds'[k].counter = creds[k].counter
          PROVE  creds'[k].counter <= wallet'[k].count
      <3>1. Held(k) /\ creds[k].counter \in Nat /\ creds[k].counter <= wallet[k].count
        BY <1>0, <2>1, BoundAssumption DEF Stored, CredRow, BindInv, CredentialMatchesPasskey, CountInv, CounterNotAhead
      <3>2. QED
        BY <2>1, <3>1, WalletCounts
    <2>2. ASSUME NEW r \in Requests, req[r].at \in Finishing, req[r].cred = k,
                 creds'[k].counter = answers[req[r].chal].count
          PROVE  creds'[k].counter <= wallet'[k].count
      <3>1. req[r].chal \in Challenges /\ answers[req[r].chal] # None /\ answers[req[r].chal].cred = k
        BY <2>2 DEF BindInv, Agreement, PendingOK
      <3>2. /\ answers[req[r].chal].count \in Nat /\ answers[req[r].chal].count <= wallet[k].count
            /\ Held(k)
        BY <1>0, <3>1, BoundAssumption DEF Answer, CountInv, BindInv, Agreement, AnswerOK
      <3>3. QED
        BY <2>2, <3>2, WalletCounts
    <2>3. CASE creds'[k] = creds[k]
      BY <1>2, <2>1, <2>3 DEF Stored
    <2>4. CASE Relabels(k)
      <3>1. Stored(k) /\ creds[k] \in CredRow
        BY <1>0, <2>4 DEF Relabels, Stored
      <3>2. creds'[k].counter = creds[k].counter
        BY <2>4, <3>1 DEF Relabels, CredRow
      <3>3. QED
        BY <2>1, <3>1, <3>2
    <2>5. ASSUME NEW r \in Requests, Stores(r, k)
          PROVE  creds'[k].counter <= wallet'[k].count
      BY <2>2, <2>5 DEF Stores, Finishing
    <2>6. ASSUME NEW r \in Requests, Records(r, k)
          PROVE  creds'[k].counter <= wallet'[k].count
      <3>1. creds[k] \in CredRow
        BY <1>0, <2>6 DEF Records, Stored
      <3>2. creds'[k].counter = answers[req[r].chal].count
        BY <2>6, <3>1 DEF Records, CredRow
      <3>3. QED
        BY <2>2, <2>6, <3>2 DEF Records, Finishing
    <2>7. QED
      BY <1>2, <2>3, <2>4, <2>5, <2>6, CredChange DEF Drops, Stored
  <1>3. ASSUME NEW k \in CredIds, Held(k)', k \notin Counting PROVE wallet'[k].count = 0
    <2>1. CASE UNCHANGED wallet
      BY <1>3, <2>1 DEF CountInv, Held
    <2>2. ASSUME NEW b \in Challenges, NEW x \in CredIds, NEW flags \in AnswerFlags,
                 CreatePasskey(b, x, flags) \/ GetAssertion(b, x, flags)
          PROVE  wallet'[k].count = 0
      <3>1. CASE x # k
        BY <1>0, <1>3, <2>2, <3>1 DEF CreatePasskey, GetAssertion, CountInv, Held
      <3>2. CASE x = k /\ CreatePasskey(b, x, flags)
        BY <1>0, <3>2 DEF CreatePasskey
      <3>3. CASE x = k /\ GetAssertion(b, x, flags)
        <4>1. wallet[k] \in Passkey /\ SignCount(k) = 0
          BY <1>0, <1>3, <3>3 DEF GetAssertion, Held, SignCount
        <4>2. wallet' = [wallet EXCEPT ![k] = [wallet[k] EXCEPT !.count = SignCount(k)]]
          BY <3>3 DEF GetAssertion
        <4>3. QED
          BY <1>0, <4>1, <4>2 DEF Passkey
      <3>4. QED
        BY <2>2, <3>1, <3>2, <3>3
    <2>3. QED
      BY <2>1, <2>2, SignedAlone DEF Sign
  <1>4. QED
    BY <1>1, <1>2, <1>3 DEF CountInv, CounterNotAhead

LEMMA CountInit == Init => CountInv
  <1> SUFFICES ASSUME Init PROVE CountInv
    OBVIOUS
  <1>1. PICK s \in Seeds : creds = s.creds /\ wallet = s.wallet
    BY DEF Init
  <1>2. ConsistentSeed(s)
    BY SeedAssumption
  <1>3. QED
    BY <1>1, <1>2 DEF Init, CountInv, CounterNotAhead, ConsistentSeed, Stored, Held

LEMMA CountInvariant == Spec => []CountInv
  <1>1. TypeInv /\ BindInv /\ CountInv /\ [Next]_vars => CountInv'
    BY CountNext
  <1>2. QED
    BY <1>1, CountInit, TypeInvariant, BindInvariant, PTL DEF Spec

\* The counter the server keeps is one the authenticator has reached, in
\* whatever order logins are processed and however late one is: an honest
\* authenticator's next signature is above it, so auth.counter_not_regressed
\* (authentication.ts) locks no honest passkey out.
THEOREM CounterBehindDevice == Spec => []CounterNotAhead
  <1>1. CountInv => CounterNotAhead
    BY DEF CountInv
  <1>2. QED
    BY <1>1, CountInvariant, PTL

-----------------------------------------------------------------------------
(***************************************************************************)
(* Who may gain a passkey.                                                 *)
(***************************************************************************)
\* A registration is for the account its options named.
LEMMA RegistrationFor ==
  ASSUME TypeInv, BindInv, PasskeyInv, NEW r \in Requests, req[r].at \in Registering
  PROVE  req[r].user = issued[req[r].chal].user /\ req[r].user \in UserIds
  <1>1. PendingOK(req[r]) /\ req[r].at \in Finishing /\ req[r].at \in Checked
    BY DEF BindInv, Agreement, Registering, Unstored, Finishing, Checked
  <1>2. /\ req[r].chal \in Challenges /\ issued[req[r].chal] # None
        /\ issued[req[r].chal].kind = "registration"
    BY RegisteringMakes
  <1>3. issued[req[r].chal].user # None /\ issued[req[r].chal].user \in OptionalUser
    BY <1>2 DEF TypeInv, RowOK, TypeOK, ServerTypeOK, Options
  <1>4. QED
    BY <1>1, <1>3 DEF PendingOK, OptionalUser

\* A session begins with the reply of a finish route; none ends.
LEMMA SignedInChange ==
  ASSUME TypeInv, [Next]_vars
  PROVE  \/ UNCHANGED signedIn
         \/ \E r \in Requests : /\ req[r].at \in {"regReply", "logReply"}
                                /\ signedIn' = signedIn \cup {req[r].user}
  <1>1. ASSUME NEW r \in Requests, Handle(r) \/ Abort(r) PROVE UNCHANGED signedIn \/ Reply(r)
    BY <1>1 DEF Handle, Abort, ListExcluded, ListAllowed, SaveLogin, SaveRegistration,
         CheckUnique, MakeAccount, FindAccount, StoreCredential, FindCredential, RecordLogin,
         CheckOwner, ListRemaining, DropCredential, SetNickname
  <1>2. ASSUME NEW r \in Requests, Arrive(r) PROVE UNCHANGED signedIn
    BY <1>2, ArriveBegins
  <1>3. CASE Sign \/ Tick \/ UNCHANGED vars
    BY <1>3 DEF Sign, CreatePasskey, GetAssertion, Tick, vars
  <1>4. QED
    BY <1>1, <1>2, <1>3 DEF Next, Reply

\* A challenge is issued by the two start routes.
LEMMA IssueChange ==
  ASSUME TypeInv, [Next]_vars, NEW c \in Challenges
  PROVE  \/ issued'[c] = issued[c] /\ challenges'[c] \in {challenges[c], None}
         \/ \E r \in Requests, uv \in UVChoices :
              SaveLogin(r, c, uv) \/ \E u \in UserIds : SaveRegistration(r, c, u, uv)
  <1>0. /\ issued \in [Challenges -> Options \cup {None}]
        /\ challenges \in [Challenges -> ChallengeRow \cup {None}]
    BY DEF TypeInv, TypeOK, StoreTypeOK, ServerTypeOK
  <1>1. ASSUME NEW r \in Requests, Arrive(r)
        PROVE  issued'[c] = issued[c] /\ challenges'[c] \in {challenges[c], None}
    BY <1>1, ArriveBegins DEF outside
  <1>2. ASSUME NEW r \in Requests, Handle(r) \/ Abort(r)
        PROVE  \/ \E d \in Challenges, uv \in UVChoices :
                    SaveLogin(r, d, uv) \/ \E u \in UserIds : SaveRegistration(r, d, u, uv)
               \/ UNCHANGED <<issued, challenges>>
    BY <1>2 DEF Handle, Abort, ListExcluded, ListAllowed, CheckUnique,
           MakeAccount, FindAccount, StoreCredential, FindCredential, RecordLogin, Reply,
           CheckOwner, ListRemaining, DropCredential, SetNickname, CreateUser, PutCredential,
           UpdateCounter, UpdateNickname, DeleteCredential, tables, outside
  <1>3. ASSUME NEW r \in Requests, NEW d \in Challenges, NEW uv \in UVChoices, d # c,
               SaveLogin(r, d, uv) \/ \E u \in UserIds : SaveRegistration(r, d, u, uv)
        PROVE  issued'[c] = issued[c] /\ challenges'[c] \in {challenges[c], None}
    BY <1>0, <1>3 DEF SaveLogin, SaveRegistration, SaveChallenge
  <1>4. CASE Sign \/ Tick \/ UNCHANGED vars
    BY <1>4 DEF Sign, CreatePasskey, GetAssertion, Tick, vars, tables, outside
  <1>5. QED
    BY <1>1, <1>2, <1>3, <1>4 DEF Next

\* A ceremony founds an account from its start or never.
LEMMA FoundingShrinks ==
  ASSUME TypeInv, BindInv, [Next]_vars, NEW c \in Challenges, issued[c] # None, Founding(c)'
  PROVE  Founding(c)
  <1>1. CASE challenges'[c] # None /\ challenges'[c].kind = "registration" /\ challenges'[c].isNew
    BY <1>1, RowChange DEF Founding
  <1>2. ASSUME NEW s \in Requests, Holds(s, c)', req'[s].at \in Unstored, req'[s].pending.isNew
        PROVE  Founding(c)
    <2>1. CASE req'[s] = req[s]
      BY <1>2, <2>1 DEF Holds, Founding
    <2>2. CASE Arrive(s) /\ req'[s] # req[s]
      BY <1>2, <2>2, ArriveBegins DEF Begins, Verifying, Unstored, Holds, Founding
    <2>3. CASE Handle(s) \/ Abort(s)
      BY <1>2, <2>3, HandleContinues DEF Continues, Succession, Idle, Unstored, Holds, Founding
    <2>4. QED
      BY <2>1, <2>2, <2>3, MovedByItself
  <1>3. QED
    BY <1>1, <1>2 DEF Founding

\* A ceremony that founds an account starts with a handle nobody has.
LEMMA FoundingStarts ==
  ASSUME TypeInv, SingleUseInv, BindInv, GainInv, [Next]_vars, NEW c \in Challenges,
         issued[c] = None, Founding(c)'
  PROVE  FoundingOK(c)'
  <1>1. OnePlace(c) /\ challenges[c] = None /\ \A s \in Requests : ~Holds(s, c)
    BY DEF SingleUseInv, OnePlace
  <1>2. \A s \in Requests : ~Holds(s, c)'
    <2>1. SUFFICES ASSUME NEW s \in Requests, Holds(s, c)' PROVE FALSE
      OBVIOUS
    <2>2. CASE req'[s] = req[s]
      BY <1>1, <2>1, <2>2 DEF Holds
    <2>3. CASE Arrive(s) /\ req'[s] # req[s]
      <3>1. Begins(s) /\ req'[s].chal = c /\ RequestOK(req[s])'
        BY <2>1, <2>3, ArriveBegins, TypeInvNext DEF Holds, TypeInv
      <3>2. req'[s].at \in Finishing
        BY <3>1, NoneAssumption DEF RequestOK
      <3>3. QED
        BY <1>1, <2>3, <3>1, <3>2 DEF Begins, Verifying, Finishing
    <2>4. CASE Handle(s) \/ Abort(s)
      <3>1. req'[s] = Idle \/ req'[s].chal = req[s].chal
        BY <2>4, HandleContinues DEF Continues
      <3>2. req'[s].chal = c
        BY <2>1 DEF Holds
      <3>3. QED
        BY <1>1, <3>1, <3>2, NoneAssumption DEF Holds, Idle
    <2>5. QED
      BY <2>2, <2>3, <2>4, MovedByItself
  <1>3. /\ challenges'[c] # None /\ challenges'[c].kind = "registration" /\ challenges'[c].isNew
    BY <1>2 DEF Founding
  <1>4. PICK r \in Requests, uv \in UVChoices, u \in UserIds : SaveRegistration(r, c, u, uv)
    BY <1>1, <1>3, IssueChange DEF SaveLogin, SaveChallenge
  <1>5. req[r].user = None /\ u \in FreshUsers
    BY <1>3, <1>4 DEF SaveRegistration, SaveChallenge
  <1>6. /\ issued' = [issued EXCEPT ![c] = [kind |-> "registration", user |-> u,
                                            listed |-> req[r].listed, uv |-> uv]]
        /\ UNCHANGED <<creds, users, signedIn>> /\ Become(r, Idle)
    BY <1>4 DEF SaveRegistration, SaveChallenge, End
  <1>7. /\ issued \in [Challenges -> Options \cup {None}] /\ req \in [Requests -> Request]
        /\ creds \in [CredIds -> CredRow \cup {None}]
    BY DEF TypeInv, TypeOK, StoreTypeOK, ServerTypeOK
  <1>8. issued'[c].user = u /\ \A d \in Challenges : d # c => issued'[d] = issued[d]
    BY <1>6, <1>7
  <1>9. ~HasAccount(u) /\ \A d \in Challenges : issued[d] # None => issued[d].user # u
    BY <1>5 DEF FreshUsers
  <1>10. u \notin signedIn'
    BY <1>6, <1>9 DEF GainInv
  <1>11. \A k \in CredIds : ~(creds'[k] # None /\ creds'[k].owner = u)
    BY <1>6, <1>9 DEF BindInv, CredentialMatchesPasskey, Stored
  <1>12. \A d \in Challenges : issued'[d] # None /\ issued'[d].user = u => d = c
    BY <1>8, <1>9
  <1>13. ASSUME NEW s \in Requests, req'[s].at \in SigningIn PROVE req'[s].user # u
    <2>1. req'[s] = req[s]
      BY <1>6, <1>7, <1>13 DEF Become, Idle, SigningIn
    <2>2. QED
      BY <1>9, <1>13, <2>1 DEF GainInv
  <1>14. QED
    BY <1>8, <1>10, <1>11, <1>12, <1>13 DEF FoundingOK, CredentialsOf, Stored

\* An account being founded gains no session before its ceremony is done.
LEMMA FoundingUnsigned ==
  ASSUME TypeInv, SingleUseInv, BindInv, PasskeyInv, GainInv, [Next]_vars,
         NEW c \in Challenges, Founding(c), issued[c] # None
  PROVE  issued[c].user \notin signedIn'
  <1>1. FoundingOK(c) /\ OnePlace(c)
    BY DEF GainInv, SingleUseInv
  <1>2. ASSUME NEW r \in Requests, req[r].at = "regReply", req[r].user = issued[c].user
        PROVE  FALSE
    <2>1. req[r].chal = c
      BY <1>1, <1>2, RegisteringMakes, RegistrationFor DEF FoundingOK, Registering
    <2>2. Holds(r, c) /\ req[r].at \notin Unstored
      BY <1>2, <2>1 DEF Holds, Unstored
    <2>3. QED
      BY <1>1, <2>2 DEF Founding, OnePlace
  <1>3. ASSUME NEW r \in Requests, req[r].at = "logReply" PROVE req[r].user # issued[c].user
    BY <1>1, <1>3 DEF FoundingOK, SigningIn
  <1>4. QED
    BY <1>1, <1>2, <1>3, SignedInChange DEF FoundingOK

\* It gains its first passkey in the step that ends its ceremony.
LEMMA FoundingEmpty ==
  ASSUME TypeInv, SingleUseInv, BindInv, PasskeyInv, GainInv, [Next]_vars,
         NEW c \in Challenges, Founding(c), Founding(c)', issued[c] # None,
         NEW k \in CredIds
  PROVE  ~(Stored(k)' /\ creds'[k].owner = issued[c].user)
  <1>1. FoundingOK(c) /\ ~(Stored(k) /\ creds[k].owner = issued[c].user)
    BY DEF GainInv, FoundingOK, CredentialsOf
  <1>2. ASSUME NEW r \in Requests, Stores(r, k), creds'[k].owner = issued[c].user PROVE FALSE
    <2>1. req[r].at \in Registering /\ req[r].user = issued[c].user
      BY <1>2 DEF Stores, Registering, Unstored
    <2>2. req[r].chal = c
      BY <1>1, <2>1, RegisteringMakes, RegistrationFor DEF FoundingOK
    <2>3. ~Open(c)'
      BY <1>2, <2>2, StoringCloses
    <2>4. QED
      BY <2>3 DEF Founding, Open
  <1>3. QED
    BY <1>1, <1>2, CredChange, RewriteKeeps DEF Stored, Drops

\* No second registration is begun for it, since it has no session.
LEMMA FoundingAlone ==
  ASSUME TypeInv, SingleUseInv, BindInv, PasskeyInv, GainInv, [Next]_vars,
         NEW c \in Challenges, Founding(c), issued[c] # None,
         NEW d \in Challenges, issued'[d] # None, issued'[d].kind = "registration",
         issued'[d].user = issued[c].user
  PROVE  d = c
  <1>0. issued \in [Challenges -> Options \cup {None}]
    BY DEF TypeInv, TypeOK, ServerTypeOK
  <1>1. FoundingOK(c)
    BY DEF GainInv
  <1>2. issued[c].user # None
    <2>1. CASE challenges[c] # None /\ challenges[c].kind = "registration"
      BY <2>1 DEF TypeInv, RowOK, BindInv, Agreement, RowAgrees
    <2>2. CASE \E r \in Requests : Holds(r, c) /\ req[r].at \in Unstored
      BY <2>2, RegistrationFor, NoneAssumption DEF Holds, Registering
    <2>3. QED
      BY <2>1, <2>2 DEF Founding
  <1>3. ASSUME NEW r \in Requests, NEW u \in UserIds, NEW uv \in UVChoices,
               SaveRegistration(r, d, u, uv)
        PROVE  FALSE
    <2>1. issued'[d].user = u
      BY <1>0, <1>3 DEF SaveRegistration
    <2>2. CASE req[r].user = None
      BY <1>3, <2>1, <2>2 DEF SaveRegistration, FreshUsers
    <2>3. CASE req[r].user # None
      <3>1. u = req[r].user /\ req[r].at = "regSave"
        BY <1>3, <2>3 DEF SaveRegistration, At
      <3>2. u \in signedIn
        BY <2>3, <3>1 DEF GainInv, JoiningOK
      <3>3. QED
        BY <1>1, <2>1, <3>2 DEF FoundingOK
    <2>4. QED
      BY <2>2, <2>3
  <1>4. ASSUME NEW r \in Requests, NEW uv \in UVChoices, SaveLogin(r, d, uv) PROVE FALSE
    BY <1>0, <1>4 DEF SaveLogin
  <1>5. issued'[d] = issued[d]
    BY <1>3, <1>4, IssueChange
  <1>6. QED
    BY <1>1, <1>5 DEF FoundingOK

\* Nobody logs in to it: there is no passkey to log in with.
LEMMA FoundingQuiet ==
  ASSUME TypeInv, BindInv, GainInv, [Next]_vars,
         NEW c \in Challenges, Founding(c),
         NEW s \in Requests, req'[s].at \in SigningIn
  PROVE  req'[s].user # issued[c].user
  <1>1. FoundingOK(c)
    BY DEF GainInv
  <1>2. CASE req'[s] = req[s]
    BY <1>1, <1>2 DEF FoundingOK
  <1>3. CASE Arrive(s) /\ req'[s] # req[s]
    BY <1>3, ArriveBegins DEF Begins, Verifying, SigningIn
  <1>4. CASE (Handle(s) \/ Abort(s)) /\ req[s].at = "logFind"
    <2>1. /\ Stored(req[s].cred) /\ req'[s].user = creds[req[s].cred].owner
      BY <1>4, HandleContinues DEF Continues, Succession, Idle, SigningIn
    <2>2. req[s].cred \in CredIds
      BY <1>4, HasCred DEF Finishing
    <2>3. QED
      BY <1>1, <2>1, <2>2 DEF FoundingOK, CredentialsOf
  <1>5. CASE (Handle(s) \/ Abort(s)) /\ req[s].at # "logFind"
    <2>1. req[s].at \in SigningIn /\ req'[s].user = req[s].user
      BY <1>5, HandleContinues DEF Continues, Succession, Idle, SigningIn
    <2>2. QED
      BY <1>1, <2>1 DEF FoundingOK
  <1>6. QED
    BY <1>2, <1>3, <1>4, <1>5, MovedByItself

LEMMA FoundingNext ==
  ASSUME TypeInv, SingleUseInv, BindInv, PasskeyInv, GainInv, [Next]_vars, NEW c \in Challenges
  PROVE  FoundingOK(c)'
  <1>1. CASE issued[c] = None
    BY <1>1, FoundingStarts DEF FoundingOK
  <1>2. CASE issued[c] # None
    <2>1. SUFFICES ASSUME Founding(c)' PROVE FoundingOK(c)'
      BY DEF FoundingOK
    <2>2. Founding(c) /\ issued'[c] = issued[c]
      BY <1>2, <2>1, FoundingShrinks, StepGrows DEF Grows
    <2>3. issued[c].user \notin signedIn'
      BY <1>2, <2>2, FoundingUnsigned
    <2>4. \A k \in CredIds : ~(Stored(k)' /\ creds'[k].owner = issued[c].user)
      BY <1>2, <2>1, <2>2, FoundingEmpty
    <2>5. \A d \in Challenges :
            issued'[d] # None /\ issued'[d].kind = "registration" /\ issued'[d].user = issued[c].user
              => d = c
      BY <1>2, <2>2, FoundingAlone
    <2>6. \A s \in Requests : req'[s].at \in SigningIn => req'[s].user # issued[c].user
      BY <2>2, FoundingQuiet
    <2>7. QED
      BY <2>2, <2>3, <2>4, <2>5, <2>6 DEF FoundingOK, CredentialsOf, Stored
  <1>3. QED
    BY <1>1, <1>2

\* What is known of a request's account stays known.
LEMMA JoiningNext ==
  ASSUME TypeInv, BindInv, GainInv, [Next]_vars, NEW s \in Requests
  PROVE  /\ JoiningOK(req[s])'
         /\ req'[s].at \in SigningIn => HasAccount(req[s].user)'
  <1>0. /\ JoiningOK(req[s]) /\ Grows /\ signedIn \subseteq signedIn'
        /\ req[s].at \in SigningIn => HasAccount(req[s].user) /\ req[s].user \in UserIds
    BY StepGrows, SignedInChange
    DEF GainInv, TypeInv, TypeOK, ServerTypeOK, RequestOK, Acting, SigningIn, Request, OptionalUser
  <1>1. CASE req'[s] = req[s]
    BY <1>0, <1>1 DEF JoiningOK, HasAccount, Grows
  <1>2. CASE Arrive(s) /\ req'[s] # req[s]
    <2>1. Begins(s)
      BY <1>2, ArriveBegins
    <2>2. CASE \E c \in Challenges : Verifying(s, c)
      BY <1>0, <2>2 DEF Verifying, JoiningOK, GainInv, SigningIn, Unstored
    <2>3. CASE ~\E c \in Challenges : Verifying(s, c)
      BY <1>0, <1>2, <2>1, <2>3 DEF Begins, JoiningOK, SigningIn, Unstored
    <2>4. QED
      BY <2>2, <2>3
  <1>3. CASE (Handle(s) \/ Abort(s)) /\ req[s].at = "logFind"
    <2>1. CASE req'[s] = Idle
      BY <2>1 DEF JoiningOK, Idle, SigningIn, Unstored
    <2>2. CASE req'[s] # Idle
      <3>1. /\ req'[s].at = "logOwner" /\ Stored(req[s].cred) /\ req[s].cred \in CredIds
            /\ req'[s].user = creds[req[s].cred].owner
        BY <1>3, <2>2, HandleContinues, HasCred DEF Continues, Succession, Finishing
      <3>2. /\ creds[req[s].cred].owner \in UserIds
            /\ users[creds[req[s].cred].owner] # None
        BY <3>1 DEF BindInv, CredentialMatchesPasskey, HasAccount, TypeInv, TypeOK, StoreTypeOK,
           CredRow, Stored
      <3>3. QED
        BY <1>0, <3>1, <3>2 DEF JoiningOK, SigningIn, Unstored, HasAccount, Grows
    <2>3. QED
      BY <2>1, <2>2
  <1>4. CASE (Handle(s) \/ Abort(s)) /\ req[s].at # "logFind"
    <2>1. CASE req'[s] = Idle
      BY <2>1 DEF JoiningOK, Idle, SigningIn, Unstored
    <2>2. CASE req'[s] # Idle
      <3>1. /\ <<req[s].at, req'[s].at>> \in Succession
            /\ req'[s].user = req[s].user /\ req'[s].pending = req[s].pending
        BY <1>4, <2>2, HandleContinues DEF Continues
      <3>2. JoiningOK(req[s])'
        BY <1>0, <3>1 DEF Succession, JoiningOK, Unstored
      <3>3. req'[s].at \in SigningIn => req[s].at \in SigningIn
        BY <1>4, <3>1 DEF Succession, SigningIn
      <3>4. QED
        BY <1>0, <3>1, <3>2, <3>3 DEF HasAccount, Grows
    <2>3. QED
      BY <2>1, <2>2
  <1>5. QED
    BY <1>1, <1>2, <1>3, <1>4, MovedByItself

\* A row for an existing account is saved by a request from its session.
LEMMA JoinedRows ==
  ASSUME TypeInv, SingleUseInv, BindInv, GainInv, [Next]_vars, NEW c \in Challenges,
         challenges'[c] # None, challenges'[c].kind = "registration"
  PROVE  challenges'[c].isNew \/ challenges'[c].user \in signedIn'
  <1>1. signedIn \subseteq signedIn'
    BY SignedInChange
  <1>2. CASE challenges'[c] = challenges[c]
    BY <1>1, <1>2 DEF GainInv
  <1>3. ASSUME NEW r \in Requests, NEW uv \in UVChoices, NEW u \in UserIds,
               SaveRegistration(r, c, u, uv)
        PROVE  challenges'[c].isNew \/ challenges'[c].user \in signedIn'
    <2>1. challenges'[c].isNew = (req[r].user = None) /\ challenges'[c].user = u
      BY <1>3 DEF SaveRegistration, SaveChallenge
    <2>2. req[r].user # None => u = req[r].user /\ JoiningOK(req[r]) /\ req[r].at = "regSave"
      BY <1>3 DEF SaveRegistration, At, GainInv
    <2>3. QED
      BY <1>1, <2>1, <2>2 DEF JoiningOK
  <1>4. ASSUME NEW r \in Requests, NEW uv \in UVChoices, SaveLogin(r, c, uv) PROVE FALSE
    BY <1>4 DEF SaveLogin, SaveChallenge
  <1>5. QED
    BY <1>2, <1>3, <1>4, IssueChange

LEMMA GainNext ==
  ASSUME TypeInv, SingleUseInv, BindInv, PasskeyInv, GainInv, [Next]_vars
  PROVE  GainInv'
  <1>1. ASSUME NEW u \in signedIn' PROVE HasAccount(u)'
    <2>1. CASE u \in signedIn
      BY <2>1, StepGrows DEF GainInv, HasAccount, Grows, TypeInv, TypeOK, ServerTypeOK
    <2>2. CASE u \notin signedIn
      <3>1. PICK r \in Requests : req[r].at \in {"regReply", "logReply"} /\ u = req[r].user
        BY <2>2, SignedInChange
      <3>2. u \in UserIds
        BY <3>1 DEF TypeInv, TypeOK, ServerTypeOK, RequestOK, Acting, Request, OptionalUser
      <3>3. HasAccount(u)
        BY <3>1 DEF BindInv, Agreement, AccountOK, Funded, GainInv, SigningIn
      <3>4. QED
        BY <3>2, <3>3, StepGrows DEF HasAccount, Grows
    <2>3. QED
      BY <2>1, <2>2
  <1>2. QED
    BY <1>1, FoundingNext, JoiningNext, JoinedRows DEF GainInv

LEMMA GainInit == Init => GainInv
  <1> SUFFICES ASSUME Init PROVE GainInv
    OBVIOUS
  <1>1. \A u \in signedIn : HasAccount(u)
    BY SeedAssumption DEF Init, ConsistentSeed, HasAccount
  <1>2. \A c \in Challenges : ~Founding(c)
    BY DEF Init, Founding, Idle, Unstored
  <1>3. \A r \in Requests : JoiningOK(req[r]) /\ req[r].at \notin SigningIn
    BY DEF Init, JoiningOK, Idle, Unstored, SigningIn
  <1>4. QED
    BY <1>1, <1>2, <1>3 DEF Init, GainInv, FoundingOK

LEMMA GainInvariant == Spec => []GainInv
  <1>1. TypeInv /\ SingleUseInv /\ BindInv /\ PasskeyInv /\ GainInv /\ [Next]_vars => GainInv'
    BY GainNext
  <1>2. QED
    BY <1>1, GainInit, TypeInvariant, SingleUseInvariant, BindInvariant, PasskeyInvariant, PTL DEF Spec

\* A sign-up that nobody authenticated gives an account its first passkey and
\* nothing more; every further passkey is for an account that has a session,
\* which only a registration or a login of that account begins
\* (register/start looks at the session before it takes a username).
THEOREM OnlyOwnersGain == Spec => OnlySignedInGainPasskeys
  <1>1. ASSUME TypeInv, BindInv, PasskeyInv, GainInv, [Next]_vars,
               NEW k \in CredIds, ~Stored(k), Stored(k)'
        PROVE  LET u == creds'[k].owner
               IN u \in signedIn \/ \A x \in CredIds : ~(Stored(x) /\ creds[x].owner = u)
    <2>1. PICK r \in Requests : Stores(r, k)
      BY <1>1, CredChange, RewriteKeeps DEF Drops, Stored
    <2>2. /\ req[r].at \in Unstored /\ req[r].at \in Registering
          /\ creds'[k].owner = req[r].user
      BY <2>1 DEF Stores, Unstored, Registering
    <2>3. CASE req[r].pending.isNew
      <3>1. /\ req[r].chal \in Challenges /\ req[r].user = issued[req[r].chal].user
            /\ Founding(req[r].chal)
        BY <1>1, <2>2, <2>3, RegisteringMakes, RegistrationFor DEF Founding, Holds
      <3>2. CredentialsOf(req[r].user) = {}
        BY <1>1, <3>1 DEF GainInv, FoundingOK
      <3>3. QED
        BY <2>2, <3>2 DEF CredentialsOf
    <2>4. CASE ~req[r].pending.isNew
      BY <1>1, <2>2, <2>4 DEF GainInv, JoiningOK
    <2>5. QED
      BY <2>3, <2>4
  <1>2. TypeInv /\ BindInv /\ PasskeyInv /\ GainInv /\ [Next]_vars =>
          [\A k \in CredIds :
             ~Stored(k) /\ Stored(k)' =>
               LET u == creds'[k].owner
               IN u \in signedIn \/ \A x \in CredIds : ~(Stored(x) /\ creds[x].owner = u)]_vars
    BY <1>1
  <1>3. QED
    BY <1>2, TypeInvariant, BindInvariant, PasskeyInvariant, GainInvariant, PTL
    DEF Spec, OnlySignedInGainPasskeys

-----------------------------------------------------------------------------
(***************************************************************************)
(* What a handler read and what it then writes.                            *)
(***************************************************************************)
\* A counter moves in no other step than these.
LEMMA CounterKept ==
  ASSUME TypeInv, [Next]_vars, NEW k \in CredIds, Stored(k)',
         \A r \in Requests : ~Stores(r, k) /\ ~Records(r, k)
  PROVE  Stored(k) /\ creds'[k].counter = creds[k].counter
  <1>1. creds'[k] = creds[k] \/ Relabels(k)
    BY CredChange DEF Drops, Stored
  <1>2. CASE Relabels(k)
    <2>1. creds[k] \in CredRow
      BY <1>2 DEF Relabels, Stored, TypeInv, TypeOK, StoreTypeOK
    <2>2. QED
      BY <1>2, <2>1 DEF Relabels, CredRow
  <1>3. QED
    BY <1>1, <1>2 DEF Stored

LEMMA CounterNext ==
  ASSUME TypeInv, BindInv, CounterInv, [Next]_vars
  PROVE  CounterInv'
  <1>1. SUFFICES ASSUME NEW s \in Requests, req'[s].at = "logUpdate",
                        Regressed(answers'[req'[s].chal].count, req'[s].stored.counter)
                 PROVE  TRUE \in HookAllows
    BY DEF CounterInv, Regressed
  <1>2. req[s].at \in {"logOwner", "logUpdate"}
        /\ req'[s].chal = req[s].chal /\ req'[s].stored = req[s].stored
    BY <1>1, MovedByItself, ArriveBegins, HandleContinues
    DEF Begins, Verifying, Continues, Succession, Idle
  <1>3. answers'[req[s].chal] = answers[req[s].chal]
    BY <1>2, StepGrows DEF BindInv, Agreement, PendingOK, Finishing, Grows
  <1>4. Regressed(answers[req[s].chal].count, req[s].stored.counter)
    BY <1>1, <1>2, <1>3
  <1>5. CASE req'[s] = req[s]
    BY <1>1, <1>4, <1>5 DEF CounterInv
  <1>6. CASE req'[s] # req[s]
    <2>1. Handle(s) \/ Abort(s)
      BY <1>1, <1>6, MovedByItself, ArriveBegins DEF Begins, Verifying
    <2>2. \E allow \in HookAllows :
            Regressed(answers[req[s].chal].count, req[s].stored.counter) => allow
      BY <1>1, <1>2, <2>1, HandleContinues DEF Continues, Succession, Idle
    <2>3. QED
      BY <1>4, <2>2, ServerAssumption
  <1>7. QED
    BY <1>5, <1>6

LEMMA CounterInvariant == Spec => []CounterInv
  <1>1. Init => CounterInv
    BY DEF Init, CounterInv, Idle
  <1>2. TypeInv /\ BindInv /\ CounterInv /\ [Next]_vars => CounterInv'
    BY CounterNext
  <1>3. QED
    BY <1>1, <1>2, TypeInvariant, BindInvariant, PTL DEF Spec

\* Whatever registrations, logins, renames and removals run beside, the stored
\* counter of a credential goes down only by a login that was seen to regress
\* and got the hook's consent, or whose look at the row (authentication.ts:
\* getCredentialById) is older than another login's update of it.  The run
\* CounterRace shows that such a login there is.
THEOREM CounterOnlyByRace == Spec => CounterFallsOnlyToARace
  <1>1. ASSUME TypeInv, BindInv, CounterInv, [Next]_vars, NEW k \in CredIds,
               Stored(k), Stored(k)', creds'[k].counter < creds[k].counter
        PROVE  \E r \in Requests :
                 /\ At(r, "logUpdate") /\ req[r].cred = k
                 /\ \/ TRUE \in HookAllows /\ Regressed(answers[req[r].chal].count, req[r].stored.counter)
                    \/ req[r].stored.counter < creds[k].counter
    <2>1. creds[k] \in CredRow /\ creds[k].counter \in Nat
      BY <1>1, BoundAssumption DEF Stored, CredRow, TypeInv, TypeOK, StoreTypeOK
    <2>2. PICK r \in Requests : Records(r, k)
      BY <1>1, <2>1, CounterKept DEF Stores
    <2>3. req[r].at = "logUpdate" /\ req[r].cred = k
          /\ creds'[k].counter = answers[req[r].chal].count
      BY <2>1, <2>2 DEF Records, CredRow
    <2>4. answers[req[r].chal].count \in Nat
      <3>1. req[r].chal \in Challenges /\ answers[req[r].chal] # None
        BY <1>1, <2>3 DEF BindInv, Agreement, PendingOK, Finishing
      <3>2. QED
        BY <1>1, <3>1, BoundAssumption DEF TypeInv, TypeOK, ServerTypeOK, Answer
    <2>5. req[r].stored.counter \in Nat
      <3>1. req[r].stored \in CredRow
        BY <1>1, <2>3 DEF TypeInv, TypeOK, ServerTypeOK, Request, RequestOK
      <3>2. QED
        BY <3>1, BoundAssumption DEF CredRow
    <2>6. CASE Regressed(answers[req[r].chal].count, req[r].stored.counter)
      BY <1>1, <2>3, <2>6 DEF CounterInv, At
    <2>7. CASE ~Regressed(answers[req[r].chal].count, req[r].stored.counter)
      <3> DEFINE new == answers[req[r].chal].count
                 seen == req[r].stored.counter
                 kept == creds[k].counter
      <3>1. new \in Nat /\ seen \in Nat /\ kept \in Nat /\ new < kept
        BY <1>1, <2>1, <2>3, <2>4, <2>5
      <3>2. (new = 0 /\ seen = 0) \/ seen < new
        <4>1. ~((new > 0 \/ seen > 0) /\ new <= seen)
          BY <2>7 DEF Regressed
        <4> HIDE DEF new, seen, kept
        <4>2. QED
          BY <3>1, <4>1
      <3>3. seen < kept
        <4> HIDE DEF new, seen, kept
        <4>1. QED
          BY <3>1, <3>2
      <3>4. QED
        BY <2>3, <3>3 DEF At
    <2>8. QED
      BY <2>6, <2>7
  <1>2. TypeInv /\ BindInv /\ CounterInv /\ [Next]_vars =>
          [\A k \in CredIds : Stored(k) /\ Stored(k)' /\ creds'[k].counter < creds[k].counter =>
             \E r \in Requests :
               /\ At(r, "logUpdate") /\ req[r].cred = k
               /\ \/ TRUE \in HookAllows /\ Regressed(answers[req[r].chal].count, req[r].stored.counter)
                  \/ req[r].stored.counter < creds[k].counter]_vars
    BY <1>1
  <1>3. QED
    BY <1>2, TypeInvariant, BindInvariant, CounterInvariant, PTL DEF Spec, CounterFallsOnlyToARace

-----------------------------------------------------------------------------
\* A stored credential keeps its owner until it is dropped.
LEMMA StoredStays ==
  ASSUME TypeInv, [Next]_vars, NEW k \in CredIds, Stored(k)
  PROVE  \/ Stored(k)' /\ creds'[k].owner = creds[k].owner
         \/ \E r \in Requests : Drops(r, k)
  <1>1. CASE creds'[k] = creds[k]
    BY <1>1 DEF Stored
  <1>2. CASE Relabels(k) \/ \E r \in Requests : Records(r, k)
    <2>1. creds'[k] \in CredRow /\ creds'[k].owner = creds[k].owner
      BY <1>2, RewriteKeeps
    <2>2. QED
      BY <2>1, NoneAssumption DEF Stored
  <1>3. QED
    BY <1>1, <1>2, CredChange DEF Stores

\* A set with more than one member has another than the one named.
LEMMA AnotherMember ==
  ASSUME NEW S, NEW x, Cardinality(S) > 1
  PROVE  \E y \in S : y # x
  <1>1. SUFFICES ASSUME \A y \in S : y = x PROVE FALSE
    OBVIOUS
  <1>2. S = {} \/ S = {x}
    BY <1>1
  <1>3. Cardinality(S) = 0 \/ Cardinality(S) = 1
    BY <1>2, FS_EmptySet, FS_Singleton
  <1>4. QED
    BY <1>3

\* An account's passkey is still the account's after a step, or removed for good.
LEMMA PasskeyStays ==
  ASSUME TypeInv, [Next]_vars, NEW u, NEW k \in CredentialsOf(u)
  PROVE  k \in revoked' \/ k \in CredentialsOf(u)'
  <1>1. k \in CredIds /\ Stored(k) /\ creds[k].owner = u
    BY DEF CredentialsOf
  <1>2. CASE Stored(k)' /\ creds'[k].owner = creds[k].owner
    BY <1>1, <1>2 DEF CredentialsOf, Stored
  <1>3. CASE \E r \in Requests : Drops(r, k)
    BY <1>3 DEF Drops
  <1>4. QED
    BY <1>1, <1>2, <1>3, StoredStays

\* One removal takes one passkey.
LEMMA OneDrop ==
  ASSUME TypeInv, NEW r \in Requests, NEW s \in Requests,
         NEW k \in CredIds, NEW x \in CredIds, Drops(r, k), Drops(s, x), Stored(x)
  PROVE  x = k
  <1>1. creds \in [CredIds -> CredRow \cup {None}]
    BY DEF TypeInv, TypeOK, StoreTypeOK
  <1>2. creds' = [creds EXCEPT ![k] = None]
    BY DEF Drops, DropCredential, DeleteCredential, PutCredential
  <1>3. creds'[x] = None /\ creds[x] # None
    BY DEF Drops, Stored
  <1>4. QED
    BY <1>1, <1>2, <1>3

\* A removal about to delete, or about to count, is one that was.
LEMMA DeletingCame ==
  ASSUME TypeInv, [Next]_vars, NEW s \in Requests, req'[s].at \in Deleting
  PROVE  \/ /\ req[s].at \in Deleting
            /\ req'[s].user = req[s].user /\ req'[s].cred = req[s].cred
            /\ \/ req'[s] = req[s]
               \/ /\ Cardinality(CredentialsOf(req[s].user)) > 1
                  /\ req'[s].listed = CredentialsOf(req[s].user)
         \/ req'[s].at = "delList" /\ Owns(req'[s].user, req'[s].cred)
  <1>1. CASE Arrive(s) /\ req'[s] # req[s]
    BY <1>1, ArriveBegins DEF Begins, Verifying, Deleting
  <1>2. CASE Handle(s) \/ Abort(s)
    <2>1. <<req[s].at, req'[s].at>> \in Succession \/ req'[s] = Idle
      BY <1>2, HandleContinues DEF Continues
    <2>2. req[s].at = "delList"
      BY <2>1 DEF Succession, Idle, Deleting
    <2>3. req'[s] # Idle
      BY DEF Idle, Deleting
    <2>4. QED
      BY <1>2, <2>2, <2>3, HandleContinues DEF Continues, Deleting
  <1>3. QED
    BY <1>1, <1>2, MovedByItself

LEMMA DropNext ==
  ASSUME TypeInv, BindInv, PasskeyInv, DropInv, [Next]_vars
  PROVE  DropInv'
  <1>1. ASSUME NEW s \in Requests, req'[s].at \in Deleting,
               NEW k \in CredIds, k = req'[s].cred, Stored(k)'
        PROVE  creds'[k].owner = req'[s].user
    <2>1. Known(k) /\ (Stored(k) => creds[k].owner = req'[s].user)
      BY <1>1, DeletingCame DEF DropInv, PasskeyInv, RouteOK, Owns, Known
    <2>2. ASSUME NEW r \in Requests, Stores(r, k) PROVE FALSE
      BY <2>1, <2>2, StoresUnknown
    <2>3. ASSUME NEW r \in Requests, Drops(r, k) PROVE FALSE
      BY <1>1, <2>3 DEF Drops, Stored
    <2>4. Stored(k)
      BY <1>1, <2>2, <2>3, CredChange DEF Stored, Relabels, Records
    <2>5. QED
      BY <2>1, <2>3, <2>4, StoredStays
  <1>2. ASSUME NEW s \in Requests, req'[s].at = "delDrop",
               NEW u, u = req'[s].user, NEW L, L = req'[s].listed
        PROVE  L \ {req'[s].cred} # {} /\ \A k \in L : k \in revoked' \/ k \in CredentialsOf(u)'
    <2>1. L \ {req'[s].cred} # {} /\ \A k \in L : k \in revoked \/ k \in CredentialsOf(u)
      <3>1. CASE req'[s] = req[s]
        BY <1>2, <3>1 DEF DropInv, Counted
      <3>2. CASE /\ req'[s].user = req[s].user
                 /\ Cardinality(CredentialsOf(req[s].user)) > 1
                 /\ req'[s].listed = CredentialsOf(req[s].user)
        <4>1. L = CredentialsOf(u) /\ Cardinality(L) > 1
          BY <1>2, <3>2
        <4>2. \E y \in L : y # req'[s].cred
          BY <4>1, AnotherMember
        <4>3. QED
          BY <4>1, <4>2
      <3>3. QED
        BY <1>2, <3>1, <3>2, DeletingCame DEF Deleting
    <2>2. revoked \subseteq revoked'
      BY RevokedChange DEF Drops
    <2>3. QED
      BY <2>1, <2>2, PasskeyStays
  <1>3. \A s \in Requests : req'[s].at \in Deleting => req'[s].cred \in CredIds
    BY TypeInvNext DEF TypeInv, TypeOK, ServerTypeOK, Request, RequestOK, Deleting
  <1>4. \A s \in Requests : req'[s].at \in Deleting /\ Stored(req[s].cred)' =>
          creds'[req'[s].cred].owner = req'[s].user
    BY <1>1, <1>3 DEF Stored
  <1>5. \A s \in Requests : req'[s].at = "delDrop" => Counted(req[s])'
    BY <1>2 DEF Counted, CredentialsOf
  <1>6. QED
    BY <1>4, <1>5 DEF DropInv

LEMMA DropInvariant == Spec => []DropInv
  <1>1. Init => DropInv
    BY DEF Init, DropInv, Idle, Deleting
  <1>2. TypeInv /\ BindInv /\ PasskeyInv /\ DropInv /\ [Next]_vars => DropInv'
    BY DropNext
  <1>3. QED
    BY <1>1, <1>2, TypeInvariant, BindInvariant, PasskeyInvariant, PTL DEF Spec

\* However requests interleave, an account loses its last passkey only to a
\* removal that, when it counted (passkey-server.ts, the last_credential
\* refusal), saw others, every one of which another removal took before this
\* one deleted its own.  The run LastPasskeyRace shows such removals.
THEOREM LastOnlyByRace == Spec => LastGoesOnlyToARace
  <1>1. ASSUME TypeInv, DropInv, [Next]_vars, NEW u \in UserIds,
               CredentialsOf(u) # {}, CredentialsOf(u)' = {}
        PROVE  \E r \in Requests :
                 LET others == req[r].listed \ {req[r].cred}
                 IN At(r, "delDrop") /\ req[r].user = u /\ others # {} /\ others \subseteq revoked
    <2>1. PICK k \in CredentialsOf(u) : TRUE
      BY <1>1
    <2>2. k \in CredIds /\ Stored(k) /\ creds[k].owner = u
      BY DEF CredentialsOf
    <2>3. ASSUME NEW x \in CredentialsOf(u) PROVE \E r \in Requests : Drops(r, x)
      <3>1. x \in CredIds /\ Stored(x) /\ creds[x].owner = u
        BY <2>3 DEF CredentialsOf
      <3>2. CASE Stored(x)' /\ creds'[x].owner = creds[x].owner
        BY <1>1, <3>1, <3>2 DEF CredentialsOf, Stored
      <3>3. QED
        BY <1>1, <3>1, <3>2, StoredStays
    <2>4. PICK r \in Requests : Drops(r, k)
      BY <2>3
    <2>5. req[r].at = "delDrop" /\ req[r].at \in Deleting /\ req[r].cred = k
      BY <2>4 DEF Drops, Deleting
    <2>6. req[r].user = u
      BY <1>1, <2>2, <2>5 DEF DropInv
    <2>7. Counted(req[r])
      BY <1>1, <2>5 DEF DropInv
    <2>8. ASSUME NEW x \in req[r].listed, x # k PROVE x \in revoked
      <3>1. SUFFICES ASSUME x \in CredentialsOf(u) PROVE FALSE
        BY <2>6, <2>7, <2>8 DEF Counted
      <3>2. x \in CredIds /\ Stored(x)
        BY <3>1 DEF CredentialsOf
      <3>3. PICK s \in Requests : Drops(s, x)
        BY <2>3, <3>1
      <3>4. QED
        BY <1>1, <2>2, <2>4, <2>8, <3>2, <3>3, OneDrop
    <2>9. QED
      BY <2>5, <2>6, <2>7, <2>8 DEF Counted, At
  <1>2. TypeInv /\ DropInv /\ [Next]_vars =>
          [\A u \in UserIds : CredentialsOf(u) # {} /\ CredentialsOf(u)' = {} =>
             \E r \in Requests :
               LET others == req[r].listed \ {req[r].cred}
               IN At(r, "delDrop") /\ req[r].user = u /\ others # {} /\ others \subseteq revoked]_vars
    BY <1>1
  <1>3. QED
    BY <1>2, TypeInvariant, DropInvariant, PTL DEF Spec, LastGoesOnlyToARace
=============================================================================
