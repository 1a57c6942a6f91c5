--------------------- MODULE PasskeyServerBindingProofs ---------------------
(***************************************************************************)
(* Theorems about PasskeyServer that relate what the server stores to what *)
(* the authenticators keep, and the end of a ceremony to its start.  All   *)
(* rest on one invariant: whatever stands for a ceremony (the options      *)
(* sent, the row saved, the answer signed, the request that handles it)    *)
(* agrees with the others.  The last of them is that PasskeyServer         *)
(* implements CeremonyLedger.                                              *)
(***************************************************************************)
EXTENDS PasskeyServerProofs

\* An answer is what an authenticator holding the passkey made of the options.
AnswerOK(c) ==
  answers[c] # None =>
    /\ issued[c] # None
    /\ answers[c].kind = issued[c].kind
    /\ Held(answers[c].cred)
    /\ answers[c].kind = "registration" => wallet[answers[c].cred].handle = issued[c].user

\* The row saved with a challenge carries the terms of the options sent.
RowAgrees(c) ==
  challenges[c] # None =>
    /\ issued[c] # None
    /\ challenges[c].user = issued[c].user
    /\ challenges[c].uv = issued[c].uv

Funded == {"regStore", "regReply"}
Checked == {"regUnique", "regAccount", "regStore", "regReply", "logOwner", "logUpdate", "logReply"}

\* What a request with an answer in hand has made sure of.
PendingOK(q) ==
  /\ q.at \in Finishing =>
       /\ q.chal \in Challenges /\ answers[q.chal] # None
       /\ q.pending.user = issued[q.chal].user
       /\ q.pending.uv = issued[q.chal].uv
       /\ q.cred = answers[q.chal].cred
       /\ answers[q.chal].flags.originOk
  /\ q.at \in Checked =>
       /\ q.pending.user # None => q.user = q.pending.user
       /\ q.pending.uv => answers[q.chal].flags.uv
       /\ answers[q.chal].flags.sigOk
       /\ wallet[q.cred].handle = q.user

\* A registration that stores its credential has an account to store it for.
AccountOK(q) == q.at \in Funded => q.user \in UserIds /\ HasAccount(q.user)

Agreement ==
  /\ \A c \in Challenges : AnswerOK(c) /\ RowAgrees(c)
  /\ \A r \in Requests : PendingOK(req[r]) /\ AccountOK(req[r])

\* CredentialMatchesPasskey is what a login relies on, so the two are
\* inductive only together.
BindInv == Agreement /\ CredentialMatchesPasskey

-----------------------------------------------------------------------------
(***************************************************************************)
(* What is sent, signed, made or opened stays.                             *)
(***************************************************************************)
Grows ==
  /\ \A c \in Challenges : issued[c] # None => issued'[c] = issued[c]
  /\ \A c \in Challenges : answers[c] # None => answers'[c] = answers[c]
  /\ \A k \in CredIds : wallet[k] # None => wallet'[k] # None /\ wallet'[k].handle = wallet[k].handle
  /\ \A u \in UserIds : users[u] # None => users'[u] # None

LEMMA UsersGrow ==
  ASSUME TypeInv, [Next]_vars
  PROVE  \A u \in UserIds : users[u] # None => users'[u] # None
  <1>1. users \in [UserIds -> UserCell]
    BY DEF TypeInv, TypeOK, StoreTypeOK
  <1>2. ASSUME NEW u \in UserIds, NEW n \in Usernames, CreateUser(u, n)
        PROVE  \A v \in UserIds : users[v] # None => users'[v] # None
    BY <1>1, <1>2, NoneAssumption DEF CreateUser
  <1>3. QED
    BY <1>2, UsersChange

LEMMA SignGrows ==
  ASSUME TypeInv, Sign
  PROVE  Grows
  <1>1. PICK c \in Challenges, k \in CredIds, flags \in AnswerFlags :
          CreatePasskey(c, k, flags) \/ GetAssertion(c, k, flags)
    BY DEF Sign
  <1>2. /\ answers \in [Challenges -> Answer \cup {None}]
        /\ wallet \in [CredIds -> Passkey \cup {None}]
        /\ UNCHANGED <<users, issued>>
        /\ answers[c] = None
    BY <1>1 DEF TypeInv, TypeOK, ServerTypeOK, CreatePasskey, GetAssertion, tables
  <1>3. \A d \in Challenges : answers[d] # None => answers'[d] = answers[d]
    BY <1>1, <1>2 DEF CreatePasskey, GetAssertion
  <1>4. \A x \in CredIds : wallet[x] # None => wallet'[x] # None /\ wallet'[x].handle = wallet[x].handle
    <2>1. CASE CreatePasskey(c, k, flags)
      BY <1>2, <2>1 DEF CreatePasskey, Held
    <2>2. CASE GetAssertion(c, k, flags)
      <3>1. wallet' = [wallet EXCEPT ![k] = [wallet[k] EXCEPT !.count = SignCount(k)]]
        BY <2>2 DEF GetAssertion
      <3>2. wallet[k] \in Passkey
        BY <1>2, <2>2 DEF GetAssertion, Held
      <3>3. [wallet[k] EXCEPT !.count = SignCount(k)].handle = wallet[k].handle
        BY <3>2 DEF Passkey
      <3>4. [wallet[k] EXCEPT !.count = SignCount(k)] # None
        BY <1>1, <2>2, <3>2, NoneServerAssumption, BoundAssumption
        DEF GetAssertion, Passkey, SignCount
      <3>5. QED
        BY <1>2, <3>1, <3>3, <3>4
    <2>3. QED
      BY <1>1, <2>1, <2>2
  <1>5. QED
    BY <1>2, <1>3, <1>4 DEF Grows

\* A challenge is given out only once.
LEMMA IssuedGrows ==
  ASSUME TypeInv, NEW r \in Requests, Arrive(r) \/ Handle(r) \/ Abort(r)
  PROVE  /\ UNCHANGED <<answers, wallet>>
         /\ \A c \in Challenges : issued[c] # None => issued'[c] = issued[c]
  <1>1. UNCHANGED <<answers, wallet>>
    BY DEF Arrive, StartSignUp, StartScopedLogin, StartAddPasskey, StartLogin,
           StartDelete, StartRename, FinishRegistration, FinishLogin,
           Handle, Abort, ListExcluded, ListAllowed, SaveLogin, SaveRegistration,
           CheckUnique, MakeAccount, FindAccount, StoreCredential, FindCredential, RecordLogin,
           Reply, CheckOwner, ListRemaining, DropCredential, SetNickname, outside
  <1>2. \/ UNCHANGED issued
        \/ \E c \in Challenges, uv \in UVChoices :
             SaveLogin(r, c, uv) \/ \E u \in UserIds : SaveRegistration(r, c, u, uv)
    BY DEF Arrive, StartSignUp, StartScopedLogin, StartAddPasskey, StartLogin,
           StartDelete, StartRename, FinishRegistration, FinishLogin,
           Handle, Abort, ListExcluded, ListAllowed,
           CheckUnique, MakeAccount, FindAccount, StoreCredential, FindCredential, RecordLogin,
           Reply, CheckOwner, ListRemaining, DropCredential, SetNickname, outside
  <1>3. ASSUME NEW c \in Challenges, NEW uv \in UVChoices,
               SaveLogin(r, c, uv) \/ \E u \in UserIds : SaveRegistration(r, c, u, uv)
        PROVE  \A d \in Challenges : issued[d] # None => issued'[d] = issued[d]
    BY <1>3 DEF SaveLogin, SaveRegistration, FreshChallenges, TypeInv, TypeOK, ServerTypeOK
  <1>4. QED
    BY <1>1, <1>2, <1>3

LEMMA StepGrows ==
  ASSUME TypeInv, [Next]_vars
  PROVE  Grows
  <1>1. ASSUME NEW r \in Requests, Arrive(r) \/ Handle(r) \/ Abort(r) PROVE Grows
    BY <1>1, IssuedGrows, UsersGrow DEF Grows
  <1>2. CASE Sign
    BY <1>2, SignGrows
  <1>3. CASE Tick \/ UNCHANGED vars
    BY <1>3 DEF Tick, vars, tables, outside, Grows
  <1>4. QED
    BY <1>1, <1>2, <1>3 DEF Next

-----------------------------------------------------------------------------
(***************************************************************************)
(* What a request made sure of stays so while it waits.                    *)
(***************************************************************************)
LEMMA PendingStable ==
  ASSUME TypeInv, Agreement, Grows, NEW s \in Requests, NEW x, PendingOK(x), req'[s] = x
  PROVE  PendingOK(req[s])'
  <1>1. ASSUME x.at \in Finishing
        PROVE  /\ answers'[x.chal] = answers[x.chal]
               /\ issued'[x.chal] = issued[x.chal]
               /\ wallet'[x.cred].handle = wallet[x.cred].handle
    <2>1. x.chal \in Challenges /\ answers[x.chal] # None /\ x.cred = answers[x.chal].cred
      BY <1>1 DEF PendingOK
    <2>2. answers[x.chal] \in Answer
      BY <2>1 DEF TypeInv, TypeOK, ServerTypeOK
    <2>3. issued[x.chal] # None /\ wallet[x.cred] # None /\ x.cred \in CredIds
      BY <2>1, <2>2 DEF Agreement, AnswerOK, Held, Answer
    <2>4. QED
      BY <2>1, <2>3 DEF Grows
  <1>2. CASE x.at \in Finishing
    BY <1>1, <1>2 DEF PendingOK, Finishing, Checked
  <1>3. CASE x.at \notin Finishing
    BY <1>3 DEF PendingOK, Finishing, Checked
  <1>4. QED
    BY <1>2, <1>3

\* The request r goes on as a request x that has made sure of what it should.
Moves(r) ==
  \E x : /\ Become(r, x)
         /\ PendingOK(x)
         /\ x.at \in Funded => x.user \in UserIds /\ users'[x.user] # None

LEMMA MovesAgree ==
  ASSUME TypeInv, Agreement, Grows, NEW r \in Requests, Moves(r) \/ UNCHANGED req
  PROVE  \A s \in Requests : (PendingOK(req[s]) /\ AccountOK(req[s]))'
  <1>1. req \in [Requests -> Request]
    BY DEF TypeInv, TypeOK, ServerTypeOK
  <1>2. ASSUME NEW s \in Requests, req'[s] = req[s]
        PROVE  (PendingOK(req[s]) /\ AccountOK(req[s]))'
    <2>1. PendingOK(req[s]) /\ AccountOK(req[s])
      BY DEF Agreement
    <2>2. PendingOK(req[s])'
      BY <1>2, <2>1, PendingStable
    <2>3. AccountOK(req[s])'
      BY <1>2, <2>1 DEF AccountOK, HasAccount, Grows
    <2>4. QED
      BY <2>2, <2>3
  <1>3. CASE UNCHANGED req
    BY <1>2, <1>3
  <1>4. CASE Moves(r)
    <2>1. PICK x : /\ Become(r, x)
                   /\ PendingOK(x)
                   /\ x.at \in Funded => x.user \in UserIds /\ users'[x.user] # None
      BY <1>4 DEF Moves
    <2>2. req'[r] = x /\ \A s \in Requests : s # r => req'[s] = req[s]
      BY <1>1, <2>1 DEF Become
    <2>3. PendingOK(req[r])'
      BY <2>1, <2>2, PendingStable
    <2>4. AccountOK(req[r])'
      BY <2>1, <2>2 DEF AccountOK, HasAccount
    <2>5. ASSUME NEW s \in Requests PROVE (PendingOK(req[s]) /\ AccountOK(req[s]))'
      <3>1. CASE s = r
        BY <2>3, <2>4, <3>1
      <3>2. CASE s # r
        BY <1>2, <2>2, <3>2
      <3>3. QED
        BY <3>1, <3>2
    <2>6. QED
      BY <2>5
  <1>5. QED
    BY <1>3, <1>4

\* A request without an answer in hand has nothing to have made sure of.
LEMMA PlainMove ==
  ASSUME NEW r \in Requests, NEW x, Become(r, x), x.at \notin Finishing
  PROVE  Moves(r)
  BY DEF Moves, PendingOK, Finishing, Checked, Funded

LEMMA EndMoves ==
  ASSUME NEW r \in Requests, Become(r, Idle)
  PROVE  Moves(r)
  <1>1. Idle.at \notin Finishing
    BY DEF Idle, Finishing
  <1>2. QED
    BY <1>1, PlainMove

\* A handler that went on to its next call keeps what it knows.
LEMMA NextCallMoves ==
  ASSUME TypeInv, Agreement, NEW r \in Requests, NEW place \in Finishing,
         Become(r, [req[r] EXCEPT !.at = place]),
         req[r].at \in Finishing,
         place \in Checked => req[r].at \in Checked,
         place \in Funded => req[r].user \in UserIds /\ users'[req[r].user] # None
  PROVE  Moves(r)
  <1> DEFINE q == req[r]
             x == [q EXCEPT !.at = place]
  <1>1. q \in Request /\ PendingOK(q)
    BY DEF TypeInv, TypeOK, ServerTypeOK, Agreement
  <1>2. /\ x.at = place /\ x.user = q.user /\ x.chal = q.chal
        /\ x.pending = q.pending /\ x.cred = q.cred
    BY <1>1 DEF Request
  <1>3. PendingOK(x)
    BY <1>1, <1>2 DEF PendingOK
  <1>4. x.at \in Funded => x.user \in UserIds /\ users'[x.user] # None
    BY <1>2
  <1>5. QED
    BY <1>3, <1>4 DEF Moves

\* The row taken and the answer posted are about the same ceremony.
LEMMA FinishMoves ==
  ASSUME TypeInv, Agreement, NEW r \in Requests, NEW c \in Challenges,
         FinishRegistration(r, c) \/ FinishLogin(r, c)
  PROVE  Moves(r) \/ UNCHANGED req
  <1> DEFINE row == Taken(c)
             answer == answers[c]
  <1>1. /\ answer \in Answer /\ answer # None /\ AnswerOK(c) /\ RowAgrees(c)
        /\ Idle \in Request
    BY IdleOK
    DEF TypeInv, TypeOK, ServerTypeOK, Agreement, FinishRegistration, FinishLogin
  <1>2. CASE FinishRegistration(r, c) /\ RegistrationVerifies(row, answer)
    <2> DEFINE x == [Idle EXCEPT !.at = "regUnique", !.chal = c, !.pending = row,
                                 !.user = row.user, !.cred = answer.cred]
    <2>1. row # None /\ row = challenges[c] /\ challenges[c] # None
      BY <1>2, TakenType DEF RegistrationVerifies
    <2>2. /\ x.at = "regUnique" /\ x.chal = c /\ x.pending = row
          /\ x.user = row.user /\ x.cred = answer.cred
      BY DEF Idle
    <2>3. /\ row.user = issued[c].user /\ row.uv = issued[c].uv
          /\ wallet[answer.cred].handle = row.user
      BY <1>1, <1>2, <2>1 DEF RowAgrees, AnswerOK, RegistrationVerifies
    <2>4. PendingOK(x)
      BY <1>1, <1>2, <2>2, <2>3 DEF PendingOK, Finishing, Checked, RegistrationVerifies
    <2>5. x.at \notin Funded
      BY <2>2 DEF Funded
    <2>6. Become(r, x)
      BY <1>2 DEF FinishRegistration
    <2>7. QED
      BY <2>4, <2>5, <2>6 DEF Moves
  <1>3. CASE FinishLogin(r, c) /\ LoginAnswers(row, answer)
    <2> DEFINE x == [Idle EXCEPT !.at = "logFind", !.chal = c, !.pending = row,
                                 !.cred = answer.cred]
    <2>1. row # None /\ row = challenges[c] /\ challenges[c] # None
      BY <1>3, TakenType DEF LoginAnswers
    <2>2. x.at = "logFind" /\ x.chal = c /\ x.pending = row /\ x.cred = answer.cred
      BY DEF Idle
    <2>3. row.user = issued[c].user /\ row.uv = issued[c].uv
      BY <1>1, <2>1 DEF RowAgrees
    <2>4. PendingOK(x)
      BY <1>1, <1>3, <2>2, <2>3 DEF PendingOK, Finishing, Checked, LoginAnswers
    <2>5. x.at \notin Funded
      BY <2>2 DEF Funded
    <2>6. Become(r, x)
      BY <1>3 DEF FinishLogin
    <2>7. QED
      BY <2>4, <2>5, <2>6 DEF Moves
  <1>4. QED
    BY <1>2, <1>3 DEF FinishRegistration, FinishLogin

\* The credential found belongs to the account its passkey names, and that is
\* the account the login was started for, if for any.
LEMMA FindCredentialMoves ==
  ASSUME TypeInv, BindInv, NEW r \in Requests, FindCredential(r)
  PROVE  Moves(r)
  <1> DEFINE q == req[r]
             row == creds[q.cred]
             x == [q EXCEPT !.at = "logOwner", !.stored = row, !.user = row.owner]
  <1>1. /\ q \in Request /\ PendingOK(q) /\ q.at = "logFind"
        /\ q.chal \in Challenges /\ q.cred \in CredIds
    BY DEF TypeInv, TypeOK, ServerTypeOK, BindInv, Agreement, FindCredential, At, Request,
           RequestOK, Finishing
  <1>2. CASE AssertionVerifies(q.pending, answers[q.chal], row)
    <2>1. /\ x.at = "logOwner" /\ x.chal = q.chal /\ x.pending = q.pending
          /\ x.user = row.owner /\ x.cred = q.cred
      BY <1>1 DEF Request
    <2>2. wallet[q.cred].handle = row.owner
      BY <1>1, <1>2 DEF AssertionVerifies, BindInv, CredentialMatchesPasskey, Stored
    <2>3. PendingOK(x)
      BY <1>1, <1>2, <2>1, <2>2 DEF PendingOK, Finishing, Checked, AssertionVerifies
    <2>4. x.at \notin Funded
      BY <2>1 DEF Funded
    <2>5. Become(r, x)
      BY <1>2 DEF FindCredential
    <2>6. QED
      BY <2>3, <2>4, <2>5 DEF Moves
  <1>3. CASE ~AssertionVerifies(q.pending, answers[q.chal], row)
    BY <1>3, EndMoves DEF FindCredential, End
  <1>4. QED
    BY <1>2, <1>3

LEMMA ArriveMoves ==
  ASSUME TypeInv, Agreement, NEW r \in Requests, Arrive(r)
  PROVE  Moves(r) \/ UNCHANGED req
  <1>1. ASSUME NEW n \in Usernames, StartSignUp(r, n) PROVE Moves(r)
    <2>1. [Idle EXCEPT !.at = "regSave", !.name = n].at \notin Finishing
      BY DEF Idle, Finishing
    <2>2. QED
      BY <1>1, <2>1, PlainMove DEF StartSignUp
  <1>2. ASSUME NEW n \in Usernames, StartScopedLogin(r, n) PROVE Moves(r)
    <2>1. PICK u \in AccountsNamed(n) : Become(r, [Idle EXCEPT !.at = "logList", !.user = u])
      BY <1>2 DEF StartScopedLogin
    <2>2. [Idle EXCEPT !.at = "logList", !.user = u].at \notin Finishing
      BY DEF Idle, Finishing
    <2>3. QED
      BY <2>1, <2>2, PlainMove
  <1>3. ASSUME NEW u \in UserIds, StartAddPasskey(r, u) PROVE Moves(r)
    <2>1. [Idle EXCEPT !.at = "regList", !.user = u, !.name = users[u]].at \notin Finishing
      BY DEF Idle, Finishing
    <2>2. QED
      BY <1>3, <2>1, PlainMove DEF StartAddPasskey
  <1>4. CASE StartLogin(r)
    <2>1. [Idle EXCEPT !.at = "logSave"].at \notin Finishing
      BY DEF Idle, Finishing
    <2>2. QED
      BY <1>4, <2>1, PlainMove DEF StartLogin
  <1>5. ASSUME NEW u \in UserIds, NEW k \in CredIds, StartDelete(r, u, k) PROVE Moves(r)
    <2>1. [Idle EXCEPT !.at = "delList", !.user = u, !.cred = k].at \notin Finishing
      BY DEF Idle, Finishing
    <2>2. QED
      BY <1>5, <2>1, PlainMove DEF StartDelete
  <1>6. ASSUME NEW u \in UserIds, NEW k \in CredIds, NEW label \in Nicknames,
               StartRename(r, u, k, label)
        PROVE  Moves(r)
    <2>1. [Idle EXCEPT !.at = "renSet", !.user = u, !.cred = k, !.label = label].at \notin Finishing
      BY DEF Idle, Finishing
    <2>2. QED
      BY <1>6, <2>1, PlainMove DEF StartRename
  <1>7. QED
    BY <1>1, <1>2, <1>3, <1>4, <1>5, <1>6, FinishMoves DEF Arrive

\* The calls of a finish route after the first: each goes on with what the
\* handler knows, or ends it.
LEMMA FinishingMoves ==
  ASSUME TypeInv, BindInv, NEW r \in Requests,
         \/ CheckUnique(r) \/ MakeAccount(r) \/ FindAccount(r) \/ StoreCredential(r)
         \/ FindCredential(r) \/ RecordLogin(r)
         \/ \E allow \in HookAllows : CheckOwner(r, allow)
  PROVE  Moves(r)
  <1> DEFINE q == req[r]
  <1>1. Agreement /\ q \in Request /\ RequestOK(q) /\ AccountOK(q)
    BY DEF BindInv, Agreement, TypeInv, TypeOK, ServerTypeOK
  <1>2. CASE CheckUnique(r)
    <2>1. q.at = "regUnique" /\ (Become(r, [q EXCEPT !.at = "regAccount"]) \/ Become(r, Idle))
      BY <1>2 DEF CheckUnique, At, Proceed, GoTo, End
    <2>2. QED
      BY <1>1, <2>1, NextCallMoves, EndMoves DEF Finishing, Checked, Funded
  <1>3. CASE MakeAccount(r) \/ FindAccount(r)
    <2>1. q.at = "regAccount" /\ (Become(r, [q EXCEPT !.at = "regStore"]) \/ Become(r, Idle))
      BY <1>3 DEF MakeAccount, FindAccount, At, Proceed, GoTo, End
    <2>2. q.user \in UserIds
      BY <1>1, <2>1 DEF RequestOK, Acting, Request, OptionalUser
    <2>3. CASE Become(r, Idle)
      BY <2>3, EndMoves
    <2>4. CASE ~Become(r, Idle)
      <3>1. users'[q.user] # None
        <4>1. CASE MakeAccount(r)
          <5>1. q.pending.name \in Usernames
            BY <1>1, <2>1, <4>1 DEF MakeAccount, RequestOK, Finishing, Request, ChallengeRow
          <5>2. users' = [users EXCEPT ![q.user] = q.pending.name]
            BY <2>4, <4>1 DEF MakeAccount, Proceed, End, CreateUser
          <5>3. QED
            BY <2>2, <5>1, <5>2, NoneAssumption DEF TypeInv, TypeOK, StoreTypeOK
        <4>2. CASE FindAccount(r)
          BY <2>4, <4>2 DEF FindAccount, Proceed, End, HasAccount, tables
        <4>3. QED
          BY <1>3, <4>1, <4>2
      <3>2. QED
        BY <1>1, <2>1, <2>2, <2>4, <3>1, NextCallMoves DEF Finishing, Checked
    <2>5. QED
      BY <2>3, <2>4
  <1>4. CASE StoreCredential(r)
    <2>1. /\ q.at = "regStore" /\ UNCHANGED users
          /\ Become(r, [q EXCEPT !.at = "regReply"]) \/ Become(r, Idle)
      BY <1>4 DEF StoreCredential, PutCredential, tables, At, Proceed, GoTo, End
    <2>2. q.user \in UserIds /\ users'[q.user] # None
      BY <1>1, <2>1 DEF AccountOK, HasAccount, Funded
    <2>3. QED
      BY <1>1, <2>1, <2>2, NextCallMoves, EndMoves DEF Finishing, Checked
  <1>5. ASSUME NEW allow \in HookAllows, CheckOwner(r, allow) PROVE Moves(r)
    <2>1. q.at = "logOwner" /\ (Become(r, [q EXCEPT !.at = "logUpdate"]) \/ Become(r, Idle))
      BY <1>5 DEF CheckOwner, At, Proceed, GoTo, End
    <2>2. QED
      BY <1>1, <2>1, NextCallMoves, EndMoves DEF Finishing, Checked, Funded
  <1>6. CASE RecordLogin(r)
    <2>1. q.at = "logUpdate" /\ (Become(r, [q EXCEPT !.at = "logReply"]) \/ Become(r, Idle))
      BY <1>6 DEF RecordLogin, At, Proceed, GoTo, End
    <2>2. QED
      BY <1>1, <2>1, NextCallMoves, EndMoves DEF Finishing, Checked, Funded
  <1>7. QED
    BY <1>2, <1>3, <1>4, <1>5, <1>6, FindCredentialMoves

LEMMA HandleMoves ==
  ASSUME TypeInv, BindInv, NEW r \in Requests, Handle(r) \/ Abort(r)
  PROVE  Moves(r)
  <1> DEFINE q == req[r]
  <1>1. q \in Request
    BY DEF TypeInv, TypeOK, ServerTypeOK
  <1>2. \/ CheckUnique(r) \/ MakeAccount(r) \/ FindAccount(r) \/ StoreCredential(r)
        \/ FindCredential(r) \/ RecordLogin(r)
        \/ \E allow \in HookAllows : CheckOwner(r, allow)
        \/ ListExcluded(r) \/ ListAllowed(r) \/ ListRemaining(r)
        \/ Become(r, Idle)
    BY DEF Handle, Abort, SaveLogin, SaveRegistration, Reply, DropCredential, SetNickname, End
  <1>3. CASE ListExcluded(r)
    <2> DEFINE x == [q EXCEPT !.at = "regSave", !.listed = CredentialsOf(q.user)]
    <2>1. Become(r, x) /\ x.at \notin Finishing
      BY <1>1, <1>3 DEF ListExcluded, Request, Finishing
    <2>2. QED
      BY <2>1, PlainMove
  <1>4. CASE ListAllowed(r)
    <2> DEFINE x == [q EXCEPT !.at = "logSave", !.listed = CredentialsOf(q.user)]
    <2>1. Become(r, x) /\ x.at \notin Finishing
      BY <1>1, <1>4 DEF ListAllowed, Request, Finishing
    <2>2. QED
      BY <2>1, PlainMove
  <1>5. CASE ListRemaining(r)
    <2> DEFINE x == [q EXCEPT !.at = "delDrop", !.listed = CredentialsOf(q.user)]
    <2>1. (Become(r, x) /\ x.at \notin Finishing) \/ Become(r, Idle)
      BY <1>1, <1>5 DEF ListRemaining, End, Request, Finishing
    <2>2. QED
      BY <2>1, PlainMove, EndMoves
  <1>6. QED
    BY <1>2, <1>3, <1>4, <1>5, FinishingMoves, EndMoves

-----------------------------------------------------------------------------
(***************************************************************************)
(* Rows and answers agree with the options sent.                           *)
(***************************************************************************)
LEMMA SaveAgrees ==
  ASSUME TypeInv, Agreement, Grows, NEW r \in Requests, NEW c \in Challenges, NEW uv \in UVChoices,
         SaveLogin(r, c, uv) \/ \E u \in UserIds : SaveRegistration(r, c, u, uv)
  PROVE  \A d \in Challenges : RowAgrees(d)'
  <1>1. PICK row, o :
          /\ row.user = o.user /\ row.uv = o.uv
          /\ SaveChallenge(c, row)
          /\ issued' = [issued EXCEPT ![c] = o]
          /\ o \in Options
    <2>1. req[r] \in Request /\ uv \in BOOLEAN
      BY ServerAssumption DEF TypeInv, TypeOK, ServerTypeOK
    <2>2. CASE SaveLogin(r, c, uv)
      <3> DEFINE row == [kind |-> "authentication", user |-> req[r].user,
                         expiresAt |-> now + ChallengeTimeout, name |-> None,
                         isNew |-> FALSE, uv |-> uv]
                 o == [kind |-> "authentication", user |-> req[r].user,
                       listed |-> req[r].listed, uv |-> uv]
      <3>1. row.user = o.user /\ row.uv = o.uv /\ o \in Options
        BY <2>1 DEF Options, Kinds, Request
      <3>2. SaveChallenge(c, row) /\ issued' = [issued EXCEPT ![c] = o]
        BY <2>2 DEF SaveLogin
      <3>3. QED
        BY <3>1, <3>2
    <2>3. ASSUME NEW u \in UserIds, SaveRegistration(r, c, u, uv)
          PROVE  \E row, o : /\ row.user = o.user /\ row.uv = o.uv
                             /\ SaveChallenge(c, row)
                             /\ issued' = [issued EXCEPT ![c] = o]
                             /\ o \in Options
      <3> DEFINE row == [kind |-> "registration", user |-> u,
                         expiresAt |-> now + ChallengeTimeout, name |-> req[r].name,
                         isNew |-> req[r].user = None, uv |-> uv]
                 o == [kind |-> "registration", user |-> u, listed |-> req[r].listed, uv |-> uv]
      <3>1. row.user = o.user /\ row.uv = o.uv /\ o \in Options
        BY <2>1 DEF Options, Kinds, Request, OptionalUser
      <3>2. SaveChallenge(c, row) /\ issued' = [issued EXCEPT ![c] = o]
        BY <2>3 DEF SaveRegistration
      <3>3. QED
        BY <3>1, <3>2
    <2>4. QED
      BY <2>2, <2>3
  <1>2. /\ o # None
        /\ issued \in [Challenges -> Options \cup {None}]
    BY <1>1, NoneServerAssumption DEF TypeInv, TypeOK, ServerTypeOK
  <1>3. ASSUME NEW d \in Challenges PROVE RowAgrees(d)'
    <2>1. CASE d = c
      <3>1. challenges'[d] = row /\ issued'[d] = o
        BY <1>1, <1>2, <2>1 DEF SaveChallenge
      <3>2. QED
        BY <1>1, <1>2, <3>1 DEF RowAgrees
    <2>2. CASE d # c
      <3>1. challenges'[d] \in {challenges[d], None}
        BY <1>1, <2>2 DEF SaveChallenge
      <3>2. RowAgrees(d)
        BY DEF Agreement
      <3>3. QED
        BY <3>1, <3>2 DEF RowAgrees, Grows
    <2>3. QED
      BY <2>1, <2>2
  <1>4. QED
    BY <1>3

\* No other call adds a row.
LEMMA KeepAgrees ==
  ASSUME Agreement, Grows, \A d \in Challenges : challenges'[d] \in {challenges[d], None}
  PROVE  \A d \in Challenges : RowAgrees(d)'
  BY DEF Agreement, RowAgrees, Grows

LEMMA RowsAgree ==
  ASSUME TypeInv, Agreement, Grows, [Next]_vars
  PROVE  \A d \in Challenges : RowAgrees(d)'
  <1>1. ASSUME NEW r \in Requests, Arrive(r)
        PROVE  \A d \in Challenges : challenges'[d] \in {challenges[d], None}
    <2>1. \/ UNCHANGED challenges
          \/ \E c \in Challenges : challenges' = [challenges EXCEPT ![c] = None]
      BY <1>1 DEF Arrive, StartSignUp, StartScopedLogin, StartAddPasskey, StartLogin,
           StartDelete, StartRename, FinishRegistration, FinishLogin, TakeChallenge, tables
    <2>2. QED
      BY <2>1 DEF TypeInv, TypeOK, StoreTypeOK
  <1>2. ASSUME NEW r \in Requests, Handle(r) \/ Abort(r)
        PROVE  \/ \E c \in Challenges, uv \in UVChoices :
                    SaveLogin(r, c, uv) \/ \E u \in UserIds : SaveRegistration(r, c, u, uv)
               \/ UNCHANGED challenges
    BY <1>2 DEF Handle, Abort, ListExcluded, ListAllowed, CheckUnique,
           MakeAccount, FindAccount, StoreCredential, FindCredential, RecordLogin, Reply,
           CheckOwner, ListRemaining, DropCredential, SetNickname, CreateUser, PutCredential,
           UpdateCounter, UpdateNickname, DeleteCredential, tables
  <1>3. CASE Sign \/ Tick \/ UNCHANGED vars
    BY <1>3, KeepAgrees DEF Sign, CreatePasskey, GetAssertion, Tick, vars, tables
  <1>4. QED
    BY <1>1, <1>2, <1>3, SaveAgrees, KeepAgrees DEF Next

\* Answers that were there still agree; requests make no answers.
LEMMA OldAnswerOK ==
  ASSUME TypeInv, Agreement, Grows, NEW c \in Challenges, answers'[c] = answers[c]
  PROVE  AnswerOK(c)'
  <1>1. CASE answers[c] = None
    BY <1>1 DEF AnswerOK
  <1>2. CASE answers[c] # None
    <2>1. answers[c] \in Answer /\ AnswerOK(c)
      BY <1>2 DEF TypeInv, TypeOK, ServerTypeOK, Agreement
    <2>2. /\ issued'[c] = issued[c] /\ issued[c] # None
          /\ wallet'[answers[c].cred] # None
          /\ wallet'[answers[c].cred].handle = wallet[answers[c].cred].handle
      BY <1>2, <2>1 DEF AnswerOK, Grows, Held, Answer
    <2>3. QED
      BY <1>2, <2>1, <2>2 DEF AnswerOK, Held
  <1>3. QED
    BY <1>1, <1>2

LEMMA SignAgrees ==
  ASSUME TypeInv, Agreement, Grows, NEW c \in Challenges, NEW k \in CredIds,
         NEW flags \in AnswerFlags,
         CreatePasskey(c, k, flags) \/ GetAssertion(c, k, flags)
  PROVE  \A d \in Challenges : AnswerOK(d)'
  <1>1. /\ answers \in [Challenges -> Answer \cup {None}]
        /\ wallet \in [CredIds -> Passkey \cup {None}]
        /\ issued[c] # None /\ issued' = issued
    BY DEF TypeInv, TypeOK, ServerTypeOK, CreatePasskey, GetAssertion
  <1>2. AnswerOK(c)'
    <2>1. CASE CreatePasskey(c, k, flags)
      <3>1. wallet'[k] = [handle |-> issued[c].user, count |-> 0]
        BY <1>1, <2>1 DEF CreatePasskey
      <3>2. wallet'[k] # None
        <4>1. issued[c].user \in UserIds
          BY <1>1, <2>1 DEF CreatePasskey, TypeInv, TypeOK, ServerTypeOK, RowOK, Options, OptionalUser
        <4>2. [handle |-> issued[c].user, count |-> 0] \in Passkey
          BY <4>1, BoundAssumption DEF Passkey
        <4>3. QED
          BY <3>1, <4>2, NoneServerAssumption
      <3>3. /\ answers'[c].kind = "registration" /\ answers'[c].cred = k
            /\ issued[c].kind = "registration"
        BY <1>1, <2>1 DEF CreatePasskey
      <3>4. QED
        BY <1>1, <3>1, <3>2, <3>3 DEF AnswerOK, Held
    <2>2. CASE GetAssertion(c, k, flags)
      <3>1. wallet'[k] # None
        BY <2>2 DEF GetAssertion, Held, Grows
      <3>2. /\ answers'[c].kind = "authentication" /\ answers'[c].cred = k
            /\ issued[c].kind = "authentication"
        BY <1>1, <2>2 DEF GetAssertion
      <3>3. QED
        BY <1>1, <3>1, <3>2 DEF AnswerOK, Held
    <2>3. QED
      BY <2>1, <2>2
  <1>3. ASSUME NEW d \in Challenges, d # c PROVE AnswerOK(d)'
    <2>1. answers'[d] = answers[d]
      BY <1>1, <1>3 DEF CreatePasskey, GetAssertion
    <2>2. QED
      BY <2>1, OldAnswerOK
  <1>4. QED
    BY <1>2, <1>3

LEMMA AnswersAgree ==
  ASSUME TypeInv, Agreement, Grows, [Next]_vars
  PROVE  \A d \in Challenges : AnswerOK(d)'
  <1>1. CASE Sign
    BY <1>1, SignAgrees DEF Sign
  <1>2. CASE ~Sign
    <2>1. UNCHANGED answers
      BY <1>2, IssuedGrows DEF Next, Tick, vars, outside
    <2>2. QED
      BY <2>1, OldAnswerOK
  <1>3. QED
    BY <1>1, <1>2

LEMMA AgreementNext ==
  ASSUME TypeInv, BindInv, [Next]_vars
  PROVE  Agreement'
  <1>1. Agreement /\ Grows
    BY StepGrows DEF BindInv
  <1>2. \A c \in Challenges : AnswerOK(c)' /\ RowAgrees(c)'
    BY <1>1, RowsAgree, AnswersAgree
  <1>3. \A s \in Requests : (PendingOK(req[s]) /\ AccountOK(req[s]))'
    <2>1. ASSUME NEW r \in Requests, Arrive(r) \/ Handle(r) \/ Abort(r)
          PROVE  Moves(r) \/ UNCHANGED req
      BY <1>1, <2>1, ArriveMoves, HandleMoves
    <2>2. CASE Sign \/ Tick \/ UNCHANGED vars
      <3>1. UNCHANGED req
        BY <2>2 DEF Sign, CreatePasskey, GetAssertion, Tick, vars
      <3>2. CASE Requests = {}
        BY <3>2
      <3>3. QED
        BY <1>1, <3>1, <3>2, MovesAgree
    <2>3. QED
      BY <1>1, <2>1, <2>2, MovesAgree DEF Next
  <1>4. QED
    BY <1>2, <1>3 DEF Agreement

-----------------------------------------------------------------------------
(***************************************************************************)
(* Stored credentials keep their owner.                                    *)
(***************************************************************************)
\* After the step credential k is gone or belongs to whom it belonged.
SameOwner(k) ==
  creds'[k] # None => creds[k] # None /\ creds'[k].owner = creds[k].owner

LEMMA SameOwnerMatches ==
  ASSUME TypeInv, CredentialMatchesPasskey, Grows, NEW k \in CredIds, SameOwner(k)
  PROVE  Stored(k)' => (/\ HasAccount(creds[k].owner)
                        /\ Held(k)
                        /\ wallet[k].handle = creds[k].owner)'
  <1> SUFFICES ASSUME creds'[k] # None
               PROVE  /\ users'[creds'[k].owner] # None
                      /\ wallet'[k] # None
                      /\ wallet'[k].handle = creds'[k].owner
    BY DEF Stored, HasAccount, Held
  <1>1. creds[k] # None /\ creds'[k].owner = creds[k].owner
    BY DEF SameOwner
  <1>2. creds[k].owner \in UserIds
    BY <1>1 DEF TypeInv, TypeOK, StoreTypeOK, CredRow
  <1>3. /\ users[creds[k].owner] # None
        /\ wallet[k] # None /\ wallet[k].handle = creds[k].owner
    BY <1>1 DEF CredentialMatchesPasskey, Stored, HasAccount, Held
  <1>4. QED
    BY <1>1, <1>2, <1>3 DEF Grows

\* Only a registration changes an owner: from none.
LEMMA OwnerStays ==
  ASSUME TypeInv, [Next]_vars, \A r \in Requests : ~StoreCredential(r)
  PROVE  \A k \in CredIds : SameOwner(k)
  <1>0. creds \in [CredIds -> CredRow \cup {None}]
    BY DEF TypeInv, TypeOK, StoreTypeOK
  <1>1. ASSUME NEW r \in Requests, RecordLogin(r) PROVE \A k \in CredIds : SameOwner(k)
    <2>1. CASE Stored(req[r].cred)
      <3>1. req[r].cred \in CredIds
        BY <1>1 DEF RecordLogin, At, TypeInv, TypeOK, ServerTypeOK, Request, RequestOK, Finishing
      <3>2. creds[req[r].cred] \in CredRow
        BY <1>0, <2>1, <3>1 DEF Stored
      <3> DEFINE row == [creds[req[r].cred] EXCEPT !.counter = answers[req[r].chal].count]
      <3>3. row.owner = creds[req[r].cred].owner
        BY <3>2 DEF CredRow
      <3>4. creds' = [creds EXCEPT ![req[r].cred] = row]
        BY <1>1, <2>1 DEF RecordLogin, UpdateCounter, PutCredential
      <3>5. QED
        BY <1>0, <2>1, <3>1, <3>3, <3>4 DEF SameOwner, Stored
    <2>2. CASE ~Stored(req[r].cred)
      BY <1>1, <2>2 DEF RecordLogin, tables, SameOwner
    <2>3. QED
      BY <2>1, <2>2
  <1>2. ASSUME NEW r \in Requests, SetNickname(r) PROVE \A k \in CredIds : SameOwner(k)
    <2>1. CASE Stored(req[r].cred)
      <3>1. req[r].cred \in CredIds
        BY <1>2 DEF SetNickname, At, TypeInv, TypeOK, ServerTypeOK, Request, RequestOK
      <3>2. creds[req[r].cred] \in CredRow
        BY <1>0, <2>1, <3>1 DEF Stored
      <3> DEFINE row == [creds[req[r].cred] EXCEPT !.nickname = req[r].label]
      <3>3. row.owner = creds[req[r].cred].owner
        BY <3>2 DEF CredRow
      <3>4. creds' = [creds EXCEPT ![req[r].cred] = row]
        BY <1>2, <2>1 DEF SetNickname, UpdateNickname, PutCredential
      <3>5. QED
        BY <1>0, <2>1, <3>1, <3>3, <3>4 DEF SameOwner, Stored
    <2>2. CASE ~Stored(req[r].cred)
      BY <1>2, <2>2 DEF SetNickname, tables, SameOwner
    <2>3. QED
      BY <2>1, <2>2
  <1>3. ASSUME NEW r \in Requests, DropCredential(r) PROVE \A k \in CredIds : SameOwner(k)
    BY <1>0, <1>3 DEF DropCredential, DeleteCredential, PutCredential, SameOwner
  <1>4. ASSUME NEW r \in Requests, Arrive(r) PROVE UNCHANGED creds
    BY <1>4 DEF Arrive, StartSignUp, StartScopedLogin, StartAddPasskey, StartLogin,
         StartDelete, StartRename, FinishRegistration, FinishLogin, TakeChallenge, tables
  <1>5. ASSUME NEW r \in Requests, Handle(r) \/ Abort(r)
        PROVE  UNCHANGED creds \/ RecordLogin(r) \/ SetNickname(r) \/ DropCredential(r)
    BY <1>5 DEF Handle, Abort, ListExcluded, ListAllowed, SaveLogin, SaveRegistration,
         SaveChallenge, CheckUnique, MakeAccount, FindAccount, FindCredential,
         Reply, CheckOwner, ListRemaining, CreateUser, tables
  <1>6. CASE Sign \/ Tick \/ UNCHANGED vars
    BY <1>6 DEF Sign, CreatePasskey, GetAssertion, Tick, vars, tables, SameOwner
  <1>7. CASE UNCHANGED creds
    BY <1>7 DEF SameOwner
  <1>8. QED
    BY <1>1, <1>2, <1>3, <1>4, <1>5, <1>6, <1>7 DEF Next

\* A registration stores the passkey for the account its handle names.
LEMMA StoreCredentialMatches ==
  ASSUME TypeInv, BindInv, Grows, NEW r \in Requests, StoreCredential(r)
  PROVE  CredentialMatchesPasskey'
  <1> DEFINE q == req[r]
  <1>1. /\ q \in Request /\ RequestOK(q) /\ PendingOK(q) /\ AccountOK(q) /\ q.at = "regStore"
        /\ creds \in [CredIds -> CredRow \cup {None}]
    BY DEF TypeInv, TypeOK, StoreTypeOK, ServerTypeOK, BindInv, Agreement, StoreCredential, At
  <1>2. CASE Stored(q.cred)
    <2>1. UNCHANGED creds
      BY <1>2 DEF StoreCredential, tables
    <2>2. \A k \in CredIds : SameOwner(k)
      BY <2>1 DEF SameOwner
    <2>3. QED
      BY <2>2, SameOwnerMatches DEF BindInv, CredentialMatchesPasskey
  <1>3. CASE ~Stored(q.cred)
    <2> DEFINE row == [owner |-> q.user, counter |-> answers[q.chal].count, nickname |-> None]
    <2>1. creds' = [creds EXCEPT ![q.cred] = row]
      BY <1>3 DEF StoreCredential, PutCredential
    <2>2. /\ q.cred \in CredIds /\ q.user \in UserIds
          /\ users[q.user] # None
          /\ wallet[q.cred].handle = q.user
      BY <1>1 DEF RequestOK, PendingOK, AccountOK, HasAccount, Finishing, Checked, Funded, Request
    <2>3. wallet[q.cred] # None
      BY <1>1 DEF PendingOK, Finishing, BindInv, Agreement, AnswerOK, Held
    <2>4. /\ users'[q.user] # None /\ wallet'[q.cred] # None
          /\ wallet'[q.cred].handle = q.user
      BY <2>2, <2>3 DEF Grows
    <2>5. creds'[q.cred].owner = q.user
      BY <1>1, <2>1, <2>2
    <2>6. \A k \in CredIds : k # q.cred => SameOwner(k)
      BY <1>1, <2>1 DEF SameOwner
    <2>7. ASSUME NEW k \in CredIds, Stored(k)'
          PROVE  (/\ HasAccount(creds[k].owner)
                  /\ Held(k)
                  /\ wallet[k].handle = creds[k].owner)'
      <3>1. CASE k = q.cred
        BY <2>4, <2>5, <3>1 DEF HasAccount, Held
      <3>2. CASE k # q.cred
        BY <2>6, <2>7, <3>2, SameOwnerMatches DEF BindInv
      <3>3. QED
        BY <3>1, <3>2
    <2>8. QED
      BY <2>7 DEF CredentialMatchesPasskey
  <1>4. QED
    BY <1>2, <1>3

LEMMA BindInvNext == TypeInv /\ BindInv /\ [Next]_vars => BindInv'
  <1> SUFFICES ASSUME TypeInv, BindInv, [Next]_vars PROVE BindInv'
    OBVIOUS
  <1>1. Agreement' /\ Grows
    BY AgreementNext, StepGrows
  <1>2. ASSUME NEW r \in Requests, StoreCredential(r) PROVE CredentialMatchesPasskey'
    BY <1>1, <1>2, StoreCredentialMatches
  <1>3. CASE \A r \in Requests : ~StoreCredential(r)
    BY <1>1, <1>3, OwnerStays, SameOwnerMatches DEF BindInv, CredentialMatchesPasskey
  <1>4. QED
    BY <1>1, <1>2, <1>3 DEF BindInv

LEMMA BindInvInit == Init => BindInv
  <1> SUFFICES ASSUME Init PROVE BindInv
    OBVIOUS
  <1>1. CredentialMatchesPasskey
    BY SeedAssumption DEF Init, ConsistentSeed, CredentialMatchesPasskey, Stored, HasAccount, Held
  <1>2. Agreement
    BY DEF Init, Agreement, AnswerOK, RowAgrees, PendingOK, AccountOK, Idle, Finishing, Checked, Funded
  <1>3. QED
    BY <1>1, <1>2 DEF BindInv

LEMMA BindInvariant == Spec => []BindInv
  BY BindInvInit, BindInvNext, TypeInvariant, PTL DEF Spec

\* Server and authenticator agree for ever about whose passkey it is: every
\* stored credential has an existing owner, and the passkey's own user handle
\* names that owner, so verifyAuthentication finds the way back from either.
THEOREM CredentialsBound == Spec => []CredentialMatchesPasskey
  <1>1. BindInv => CredentialMatchesPasskey
    BY DEF BindInv
  <1>2. QED
    BY <1>1, BindInvariant, PTL

\* The account, the kind of ceremony and the user verification a ceremony was
\* started with hold of the request that completes it, however many requests
\* and expiries come between: what verifyRegistration and verifyAuthentication
\* take from the challenge row is what the browser was sent.
THEOREM TermsKept == Spec => []CeremonyKeepsItsTerms
  <1>1. ASSUME TypeInv, BindInv, NEW r \in Requests, req[r].at \in {"regReply", "logReply"}
        PROVE  LET options == issued[req[r].chal]
                   answer == answers[req[r].chal]
               IN /\ options.kind = answer.kind
                  /\ options.user # None => req[r].user = options.user
                  /\ options.uv => answer.flags.uv
                  /\ answer.flags.originOk /\ answer.flags.sigOk
                  /\ wallet[answer.cred].handle = req[r].user
    <2>1. PendingOK(req[r])
      BY <1>1 DEF BindInv, Agreement
    <2>2. AnswerOK(req[r].chal)
      BY <1>1, <2>1 DEF PendingOK, Finishing, BindInv, Agreement
    <2>3. QED
      BY <1>1, <2>1, <2>2 DEF PendingOK, AnswerOK, Finishing, Checked
  <1>2. TypeInv /\ BindInv => CeremonyKeepsItsTerms
    BY <1>1 DEF CeremonyKeepsItsTerms
  <1>3. QED
    BY <1>2, TypeInvariant, BindInvariant, PTL

-----------------------------------------------------------------------------
(***************************************************************************)
(* The ledger.  A step of the server is one of three steps of the ledger:  *)
(* a start route that saves its challenge issues a ceremony, a reply       *)
(* verifies one, and every other step closes some, often none.             *)
(***************************************************************************)
\* Ceremonies that come to nothing are never revived.
DeadStays == \A d \in Challenges : Dead(d) => Dead(d)'

-----------------------------------------------------------------------------
LEMMA StatusValues ==
  ASSUME NEW c \in Challenges
  PROVE  /\ issued[c] = None => LedgerStatus(c) = "unissued"
         /\ issued[c] # None /\ Verified(c) => LedgerStatus(c) = "verified"
         /\ issued[c] # None /\ ~Verified(c) /\ Dead(c) => LedgerStatus(c) = "over"
         /\ issued[c] # None /\ ~Verified(c) /\ ~Dead(c) => LedgerStatus(c) = "open"
  BY DEF LedgerStatus

LEMMA StatusValuesNext ==
  ASSUME NEW c \in Challenges
  PROVE  /\ issued'[c] = None => LedgerStatus(c)' = "unissued"
         /\ issued'[c] # None /\ Verified(c)' => LedgerStatus(c)' = "verified"
         /\ issued'[c] # None /\ ~Verified(c)' /\ Dead(c)' => LedgerStatus(c)' = "over"
         /\ issued'[c] # None /\ ~Verified(c)' /\ ~Dead(c)' => LedgerStatus(c)' = "open"
  BY DEF LedgerStatus

\* A step after which ceremonies are as they were, or over, closes the latter.
LEMMA ClosingStep ==
  ASSUME TypeInv, SingleUseInv, DeadStays, UNCHANGED <<issued, completions, signedIn>>
  PROVE  Ledger!LedgerNext
  <1> DEFINE closing == {c \in Challenges : LedgerStatus(c) = "open" /\ LedgerStatus(c)' = "over"}
  <1>1. ASSUME NEW c \in Challenges
        PROVE  LedgerStatus(c)' = IF c \in closing THEN "over" ELSE LedgerStatus(c)
    <2>1. Verified(c)' = Verified(c) /\ (Dead(c) => Dead(c)')
      BY DEF Verified, DeadStays
    <2>2. QED
      BY <2>1, StatusValues, StatusValuesNext
  <1>2. Ledger!Close(closing)
    BY <1>1 DEF Ledger!Close
  <1>3. closing \in SUBSET Challenges
    OBVIOUS
  <1>4. QED
    BY <1>2, <1>3 DEF Ledger!LedgerNext

-----------------------------------------------------------------------------
(***************************************************************************)
(* Dead ceremonies stay dead: their row is never saved again and the clock *)
(* never goes back, so no request can take it.                             *)
(***************************************************************************)
LEMMA LetGoStaysDead ==
  ASSUME TypeInv, LetsGo, now' \in Nat, now <= now',
         UNCHANGED issued,
         \A d \in Challenges : challenges'[d] \in {challenges[d], None}
  PROVE  DeadStays
  <1> SUFFICES ASSUME NEW d \in Challenges, Dead(d)
               PROVE  Dead(d)'
    BY DEF DeadStays
  <1>1. \A r \in Requests : ~Holds(r, d)'
    BY DEF Dead, LetsGo
  <1>2. ASSUME challenges'[d] # None PROVE challenges'[d].expiresAt < now'
    <2>1. challenges'[d] = challenges[d] /\ challenges[d] # None
      BY <1>2
    <2>2. challenges[d].expiresAt \in Nat /\ now \in Nat
      BY <2>1, BoundAssumption DEF TypeInv, TypeOK, StoreTypeOK, ChallengeRow
    <2>3. challenges[d].expiresAt < now
      BY <2>1 DEF Dead
    <2>4. QED
      BY <2>1, <2>2, <2>3
  <1>3. issued'[d] # None
    BY DEF Dead
  <1>4. QED
    BY <1>1, <1>2, <1>3 DEF Dead

\* takeChallenge answers null for a ceremony that is over.
LEMMA FinishStaysDead ==
  ASSUME TypeInv, NEW r \in Requests, NEW c \in Challenges,
         FinishRegistration(r, c) \/ FinishLogin(r, c)
  PROVE  DeadStays
  <1>1. /\ req \in [Requests -> Request] /\ Idle \in Request
        /\ challenges \in [Challenges -> ChallengeRow \cup {None}]
        /\ challenges' = [challenges EXCEPT ![c] = None]
        /\ UNCHANGED <<now, issued>>
        /\ answers[c] \in Answer
    BY IdleOK
    DEF TypeInv, TypeOK, StoreTypeOK, ServerTypeOK, FinishRegistration, FinishLogin, TakeChallenge,
        outside
  <1>2. \/ UNCHANGED req
        \/ Taken(c) # None /\ \E x : x.chal = c /\ Become(r, x)
    <2>1. CASE FinishRegistration(r, c) /\ RegistrationVerifies(Taken(c), answers[c])
      <3>1. [Idle EXCEPT !.at = "regUnique", !.chal = c, !.pending = Taken(c),
                         !.user = Taken(c).user, !.cred = answers[c].cred].chal = c
        BY DEF Idle
      <3>2. QED
        BY <2>1, <3>1 DEF FinishRegistration, RegistrationVerifies
    <2>2. CASE FinishLogin(r, c) /\ LoginAnswers(Taken(c), answers[c])
      <3>1. [Idle EXCEPT !.at = "logFind", !.chal = c, !.pending = Taken(c),
                         !.cred = answers[c].cred].chal = c
        BY DEF Idle
      <3>2. QED
        BY <2>2, <3>1 DEF FinishLogin, LoginAnswers
    <2>3. QED
      BY <2>1, <2>2 DEF FinishRegistration, FinishLogin
  <1>3. ASSUME NEW d \in Challenges, Dead(d), NEW s \in Requests PROVE ~Holds(s, d)'
    <2>1. ~Holds(s, d)
      BY <1>3 DEF Dead
    <2>2. CASE UNCHANGED req
      BY <2>1, <2>2 DEF Holds
    <2>3. CASE Taken(c) # None /\ \E x : x.chal = c /\ Become(r, x)
      <3>1. d # c
        BY <1>3, <2>3, TakenType DEF Dead, Taken, Expired
      <3>2. QED
        BY <1>1, <2>1, <2>3, <3>1 DEF Become, Holds
    <2>4. QED
      BY <1>2, <2>2, <2>3
  <1>4. QED
    BY <1>1, <1>3 DEF DeadStays, Dead

-----------------------------------------------------------------------------
(***************************************************************************)
(* The three kinds of step.                                                *)
(***************************************************************************)
\* A start route saves a challenge nobody has seen, with time left; the rows
\* it sweeps belong to ceremonies that were over.
LEMMA IssuingStep ==
  ASSUME TypeInv, SingleUseInv, NEW r \in Requests, NEW c \in Challenges, NEW uv \in UVChoices,
         SaveLogin(r, c, uv) \/ \E u \in UserIds : SaveRegistration(r, c, u, uv)
  PROVE  Ledger!LedgerNext
  <1>1. PICK row, o :
          /\ row.expiresAt = now + ChallengeTimeout /\ row # None
          /\ SaveChallenge(c, row)
          /\ issued' = [issued EXCEPT ![c] = o]
          /\ o \in Options
    <2>1. /\ req[r] \in Request /\ uv \in BOOLEAN
          /\ now + ChallengeTimeout \in 0 .. MaxTime + ChallengeTimeout
      BY ServerAssumption, BoundAssumption DEF TypeInv, TypeOK, StoreTypeOK, ServerTypeOK
    <2>2. CASE SaveLogin(r, c, uv)
      <3> DEFINE row == [kind |-> "authentication", user |-> req[r].user,
                         expiresAt |-> now + ChallengeTimeout, name |-> None,
                         isNew |-> FALSE, uv |-> uv]
                 o == [kind |-> "authentication", user |-> req[r].user,
                       listed |-> req[r].listed, uv |-> uv]
      <3>1. o \in Options /\ row \in ChallengeRow /\ row.expiresAt = now + ChallengeTimeout
        BY <2>1 DEF Options, Kinds, Request, ChallengeRow, OptionalUser
      <3>2. SaveChallenge(c, row) /\ issued' = [issued EXCEPT ![c] = o]
        BY <2>2 DEF SaveLogin
      <3>3. QED
        BY <3>1, <3>2, NoneAssumption
    <2>3. ASSUME NEW u \in UserIds, SaveRegistration(r, c, u, uv)
          PROVE  \E row, o : /\ row.expiresAt = now + ChallengeTimeout /\ row # None
                             /\ SaveChallenge(c, row)
                             /\ issued' = [issued EXCEPT ![c] = o]
                             /\ o \in Options
      <3> DEFINE row == [kind |-> "registration", user |-> u,
                         expiresAt |-> now + ChallengeTimeout, name |-> req[r].name,
                         isNew |-> req[r].user = None, uv |-> uv]
                 o == [kind |-> "registration", user |-> u, listed |-> req[r].listed, uv |-> uv]
      <3>1. o \in Options /\ row \in ChallengeRow /\ row.expiresAt = now + ChallengeTimeout
        BY <2>1 DEF Options, Kinds, Request, ChallengeRow, OptionalUser
      <3>2. SaveChallenge(c, row) /\ issued' = [issued EXCEPT ![c] = o]
        BY <2>3 DEF SaveRegistration
      <3>3. QED
        BY <3>1, <3>2, NoneAssumption
    <2>4. QED
      BY <2>2, <2>3
  <1>2. /\ now \in Nat /\ ChallengeTimeout \in Nat
        /\ req \in [Requests -> Request] /\ req[r].chal = None
        /\ issued \in [Challenges -> Options \cup {None}]
        /\ issued[c] = None
        /\ UNCHANGED <<now, signedIn, completions>>
        /\ req' = [req EXCEPT ![r] = Idle]
        /\ o # None
    <2>1. o # None /\ ChallengeTimeout \in Nat
      BY <1>1, BoundAssumption, NoneServerAssumption
    <2>2. /\ issued[c] = None /\ UNCHANGED <<now, signedIn, completions>>
          /\ req' = [req EXCEPT ![r] = Idle]
          /\ req[r].at \in {"regSave", "logSave"}
      BY DEF SaveLogin, SaveRegistration, FreshChallenges, End, Become, history, At
    <2>3. req[r].chal = None
      BY <2>2 DEF TypeInv, RequestOK, Finishing
    <2>4. now \in Nat
      BY BoundAssumption DEF TypeInv, TypeOK, StoreTypeOK
    <2>5. QED
      BY <2>1, <2>2, <2>3, <2>4 DEF TypeInv, TypeOK, ServerTypeOK
  <1>3. ASSUME NEW d \in Challenges, NEW s \in Requests PROVE Holds(s, d)' <=> Holds(s, d)
    BY <1>2 DEF Holds, Idle
  <1>4. LedgerStatus(c) = "unissued" /\ LedgerStatus(c)' = "open"
    <2>1. ~Verified(c)'
      BY <1>2 DEF SingleUseInv, OnePlace, Verified, TypeInv, TypeOK, ServerTypeOK
    <2>2. ~Dead(c)'
      BY <1>1, <1>2 DEF SaveChallenge, Dead
    <2>3. issued'[c] # None
      BY <1>1, <1>2
    <2>4. QED
      BY <1>2, <2>1, <2>2, <2>3, StatusValues, StatusValuesNext
  <1>5. ASSUME NEW d \in Challenges, d # c PROVE LedgerStatus(d)' = LedgerStatus(d)
    <2>1. issued'[d] = issued[d] /\ Verified(d)' = Verified(d)
      BY <1>1, <1>2, <1>5 DEF Verified
    <2>2. challenges'[d] = IF Expired(d) THEN None ELSE challenges[d]
      BY <1>1, <1>5 DEF SaveChallenge
    <2>3. Dead(d)' = Dead(d)
      BY <1>2, <1>3, <2>1, <2>2 DEF Dead, Expired
    <2>4. QED
      BY <2>1, <2>3, StatusValues, StatusValuesNext
  <1>6. Ledger!Issue(c)
    <2>1. o.user \in UserIds \cup {None}
      BY <1>1 DEF Options, OptionalUser
    <2>2. \A d \in Challenges : (IF issued'[d] = None THEN None ELSE issued'[d].user)
                                  = IF d = c THEN o.user
                                    ELSE IF issued[d] = None THEN None ELSE issued[d].user
      BY <1>1, <1>2
    <2>3. QED
      BY <1>2, <1>4, <1>5, <2>1, <2>2 DEF Ledger!Issue
  <1>7. QED
    BY <1>6 DEF Ledger!LedgerNext

\* A reply completes an open ceremony for an account it is open to.
LEMMA VerifyingStep ==
  ASSUME TypeInv, SingleUseInv, BindInv, NEW r \in Requests, Reply(r)
  PROVE  Ledger!LedgerNext
  <1>1. PICK c \in Challenges, a \in UserIds :
          /\ c = req[r].chal /\ a = req[r].user
          /\ req \in [Requests -> Request]
          /\ completions \in [Challenges -> Nat]
          /\ PendingOK(req[r])
          /\ req[r].at \in {"regReply", "logReply"}
    BY DEF TypeInv, TypeOK, ServerTypeOK, BindInv, Agreement, Reply, RequestOK, Finishing, Acting,
           Request, OptionalUser
  <1>2. /\ UNCHANGED <<now, challenges, issued>>
        /\ signedIn' = signedIn \cup {a}
        /\ completions' = [completions EXCEPT ![c] = @ + 1]
        /\ req' = [req EXCEPT ![r] = Idle]
    BY <1>1 DEF Reply, tables, outside, End, Become
  <1>3. Holds(r, c) /\ issued[c] # None /\ completions[c] = 0
    BY <1>1 DEF Holds, SingleUseInv, OnePlace
  <1>4. LedgerStatus(c) = "open" /\ LedgerStatus(c)' = "verified"
    <2>1. ~Verified(c) /\ ~Dead(c)
      BY <1>1, <1>3 DEF Verified, Dead
    <2>2. Verified(c)'
      BY <1>1, <1>2, <1>3 DEF Verified
    <2>3. QED
      BY <1>1, <1>2, <1>3, <2>1, <2>2, StatusValues, StatusValuesNext
  <1>5. ASSUME NEW d \in Challenges, d # c PROVE LedgerStatus(d)' = LedgerStatus(d)
    <2>1. \A s \in Requests : Holds(s, d)' <=> Holds(s, d)
      BY <1>1, <1>2, <1>5, NoneAssumption DEF Holds, Idle
    <2>2. Dead(d)' = Dead(d) /\ Verified(d)' = Verified(d)
      BY <1>1, <1>2, <1>5, <2>1 DEF Dead, Verified
    <2>3. QED
      BY <1>2, <2>2, StatusValues, StatusValuesNext
  <1>6. issued[c].user \in {a, None}
    BY <1>1 DEF PendingOK, Finishing, Checked
  <1>7. Ledger!Verify(c, a)
    BY <1>1, <1>2, <1>3, <1>4, <1>5, <1>6 DEF Ledger!Verify
  <1>8. QED
    BY <1>1, <1>7 DEF Ledger!LedgerNext

LEMMA RequestStepsLedger ==
  ASSUME TypeInv, SingleUseInv, BindInv, NEW r \in Requests, Arrive(r) \/ Handle(r) \/ Abort(r)
  PROVE  Ledger!LedgerNext
  <1>0. now \in Nat
    BY BoundAssumption DEF TypeInv, TypeOK, StoreTypeOK
  <1>1. CASE Arrive(r)
    <2>1. \/ \E x : /\ Become(r, x) /\ x.chal = None
                    /\ UNCHANGED <<now, tables, outside, signedIn, history>>
          \/ \E c \in Challenges : FinishRegistration(r, c) \/ FinishLogin(r, c)
      BY <1>1 DEF Arrive, StartSignUp, StartScopedLogin, StartAddPasskey, StartLogin, StartDelete,
             StartRename, Idle
    <2>2. UNCHANGED <<issued, completions, signedIn>>
      BY <2>1 DEF FinishRegistration, FinishLogin, outside, history
    <2>3. DeadStays
      BY <1>0, <2>1, BecomeLetsGo, LetGoStaysDead, FinishStaysDead DEF tables, outside
    <2>4. QED
      BY <2>2, <2>3, ClosingStep
  <1>2. CASE Handle(r) \/ Abort(r)
    <2>1. \/ \E c \in Challenges, uv \in UVChoices :
               SaveLogin(r, c, uv) \/ \E u \in UserIds : SaveRegistration(r, c, u, uv)
          \/ Reply(r)
          \/ UNCHANGED <<now, challenges, issued, completions, signedIn>>
      BY <1>2 DEF Handle, Abort, ListExcluded, ListAllowed, CheckUnique,
             MakeAccount, FindAccount, StoreCredential, FindCredential, RecordLogin,
             CheckOwner, ListRemaining, DropCredential, SetNickname, CreateUser, PutCredential,
             UpdateCounter, UpdateNickname, DeleteCredential, tables, outside, history
    <2>2. CASE UNCHANGED <<now, challenges, issued, completions, signedIn>>
      <3>1. LetsGo
        BY <1>2, HandleLetsGo
      <3>2. DeadStays
        BY <1>0, <2>2, <3>1, LetGoStaysDead
      <3>3. QED
        BY <2>2, <3>2, ClosingStep
    <2>3. QED
      BY <2>1, <2>2, IssuingStep, VerifyingStep
  <1>3. QED
    BY <1>1, <1>2

\* Nothing but the requests touches a ceremony; time alone may end some.
LEMMA OtherStepsLedger ==
  ASSUME TypeInv, SingleUseInv, Sign \/ Tick
  PROVE  Ledger!LedgerNext
  <1>1. UNCHANGED <<challenges, issued, completions, signedIn, req>>
    BY DEF Sign, CreatePasskey, GetAssertion, Tick, tables, outside, history
  <1>2. now' \in Nat /\ now <= now'
    BY BoundAssumption DEF TypeInv, TypeOK, StoreTypeOK, Sign, CreatePasskey, GetAssertion, Tick
  <1>3. LetsGo
    BY <1>1 DEF LetsGo, Holds
  <1>4. DeadStays
    BY <1>1, <1>2, <1>3, LetGoStaysDead
  <1>5. QED
    BY <1>1, <1>4, ClosingStep

LEMMA StutterLedger ==
  ASSUME UNCHANGED vars
  PROVE  UNCHANGED Ledger!ledger
  <1>1. ASSUME NEW c \in Challenges PROVE LedgerStatus(c)' = LedgerStatus(c)
    <2>1. Verified(c)' = Verified(c) /\ Dead(c)' = Dead(c) /\ issued' = issued
      BY DEF vars, Verified, Dead, Holds
    <2>2. QED
      BY <2>1, StatusValues, StatusValuesNext
  <1>2. UNCHANGED <<issued, signedIn>>
    BY DEF vars
  <1>3. QED
    BY <1>1, <1>2 DEF Ledger!ledger

LEMMA LedgerInitHolds == Init => Ledger!LedgerInit
  BY SeedAssumption, StatusValues DEF Init, ConsistentSeed, Ledger!LedgerInit

\* The server implements the ledger of ceremonies: whatever requests overlap
\* and whatever is delivered late or twice, each ceremony comes to one end, a
\* verified one is for an account it was issued for, and sessions begin in no
\* other way (registration.ts, authentication.ts, routes.ts).
THEOREM LedgerImplemented == Spec => ImplementsLedger
  <1>1. TypeInv /\ SingleUseInv /\ BindInv /\ [Next]_vars => [Ledger!LedgerNext]_(Ledger!ledger)
    <2> SUFFICES ASSUME TypeInv, SingleUseInv, BindInv, [Next]_vars
                 PROVE  Ledger!LedgerNext \/ UNCHANGED Ledger!ledger
      OBVIOUS
    <2>1. QED
      BY RequestStepsLedger, OtherStepsLedger, StutterLedger DEF Next
  <1>2. QED
    BY LedgerInitHolds, <1>1, TypeInvariant, SingleUseInvariant, BindInvariant, PTL
    DEF Spec, ImplementsLedger, Ledger!LedgerSpec
=============================================================================
