------------------------- MODULE PasskeyServerProofs -------------------------
(***************************************************************************)
(* Theorems about PasskeyServer, for every value of its constants.         *)
(***************************************************************************)
EXTENDS PasskeyServerProps, TLAPS

\* Locations at which the request has an answer in hand.
Finishing == {"regUnique", "regAccount", "regStore", "regReply",
              "logFind", "logOwner", "logUpdate", "logReply"}

\* Locations at which the request acts for a known account.
Acting == {"regList", "regUnique", "regAccount", "regStore", "regReply",
           "logList", "logOwner", "logUpdate", "logReply", "delList", "delDrop", "renSet"}

\* What a handler knows from the calls it has already made.
RequestOK(q) ==
  /\ q.at \in Acting => q.user # None
  /\ q.at \in {"delList", "delDrop", "renSet"} => q.cred # None
  /\ q.at \in {"logOwner", "logUpdate"} => q.stored # None
  /\ q.at \in {"regList", "regSave"} => q.name # None
  /\ q.at \in Finishing => q.cred # None /\ q.pending # None /\ q.chal # None /\ answers[q.chal] # None
  /\ q.at \notin Finishing => q.chal = None
  /\ q.at \in {"regUnique", "regAccount", "regStore", "regReply"} =>
       (q.pending.isNew => q.pending.name # None)

\* A registration is always for an account, and for a name when it is new.
RowOK(c) ==
  /\ challenges[c] # None /\ challenges[c].kind = "registration" =>
       /\ challenges[c].user # None
       /\ challenges[c].isNew => challenges[c].name # None
  /\ issued[c] # None /\ issued[c].kind = "registration" => issued[c].user # None

TypeInv ==
  /\ TypeOK
  /\ \A r \in Requests : RequestOK(req[r])
  /\ \A c \in Challenges : RowOK(c)

\* One challenge is in one place: in the table, in one request, or spent.
OnePlace(c) ==
  /\ challenges[c] # None => issued[c] # None
  /\ challenges[c] # None => \A r \in Requests : ~Holds(r, c)
  /\ challenges[c] # None => completions[c] = 0
  /\ \A r \in Requests : Holds(r, c) => issued[c] # None
  /\ \A r \in Requests : Holds(r, c) => completions[c] = 0
  /\ \A r, s \in Requests : Holds(r, c) /\ Holds(s, c) => r = s
  /\ completions[c] <= 1
  /\ completions[c] # 0 => issued[c] # None

SingleUseInv == \A c \in Challenges : OnePlace(c)

-----------------------------------------------------------------------------
\* A finished or refused handler leaves nothing behind in its slot.
LEMMA IdleOK == Idle \in Request /\ RequestOK(Idle)
  BY DEF Idle, Request, RequestOK, Locations, OptionalUser, Acting, Finishing

\* Replacing one request by a sound one keeps all requests sound, when the
\* answers they refer to are still there.
LEMMA BecomeOK ==
  ASSUME TypeInv, NEW r \in Requests, NEW x \in Request, RequestOK(x), Become(r, x),
         UNCHANGED answers
  PROVE  /\ req' \in [Requests -> Request]
         /\ (\A s \in Requests : RequestOK(req[s]))'
  <1>1. req \in [Requests -> Request]
    BY DEF TypeInv, TypeOK, ServerTypeOK
  <1>2. req' \in [Requests -> Request]
    BY <1>1 DEF Become
  <1>3. ASSUME NEW s \in Requests PROVE RequestOK(req[s])'
    <2>1. CASE s = r
      BY <1>1, <2>1 DEF Become, RequestOK
    <2>2. CASE s # r
      <3>1. req'[s] = req[s] /\ RequestOK(req[s])
        BY <1>1, <2>2 DEF Become, TypeInv
      <3>2. QED
        BY <3>1 DEF RequestOK
    <2>3. QED
      BY <2>1, <2>2
  <1>4. QED
    BY <1>2, <1>3

\* A step that only moves one request.
LEMMA RequestStep ==
  ASSUME TypeInv, NEW r \in Requests, NEW x \in Request, RequestOK(x), Become(r, x),
         UNCHANGED <<now, tables, outside, signedIn, history>>
  PROVE  TypeInv'
  <1>1. /\ req' \in [Requests -> Request]
        /\ (\A s \in Requests : RequestOK(req[s]))'
    BY BecomeOK DEF outside
  <1>2. TypeOK'
    BY <1>1 DEF TypeInv, TypeOK, StoreTypeOK, ServerTypeOK, tables, outside, history
  <1>3. (\A c \in Challenges : RowOK(c))'
    BY DEF TypeInv, RowOK, tables, outside
  <1>4. QED
    BY <1>1, <1>2, <1>3 DEF TypeInv

LEMMA TypeInvInit == Init => TypeInv
  <1> SUFFICES ASSUME Init PROVE TypeInv
    OBVIOUS
  <1>1. PICK s \in Seeds : users = s.users /\ creds = s.creds /\ wallet = s.wallet /\ signedIn = s.signedIn
    BY DEF Init
  <1>2. ConsistentSeed(s)
    BY SeedAssumption
  <1>3. StoreTypeOK
    BY <1>1, <1>2, BoundAssumption DEF Init, StoreTypeOK, ConsistentSeed
  <1>4. ServerTypeOK
    BY <1>1, <1>2, IdleOK DEF Init, ServerTypeOK, ConsistentSeed
  <1>5. \A r \in Requests : RequestOK(req[r])
    BY IdleOK DEF Init
  <1>6. \A c \in Challenges : RowOK(c)
    BY DEF Init, RowOK
  <1>7. QED
    BY <1>3, <1>4, <1>5, <1>6 DEF TypeInv, TypeOK

-----------------------------------------------------------------------------
\* The type invariant holds over the first and the reading calls of a request.
LEMMA ReadingStepsOK ==
  ASSUME TypeInv, NEW r \in Requests,
         \/ \E n \in Usernames : StartSignUp(r, n) \/ StartScopedLogin(r, n)
         \/ \E u \in UserIds : StartAddPasskey(r, u)
         \/ StartLogin(r)
         \/ \E u \in UserIds, k \in CredIds :
              StartDelete(r, u, k) \/ \E label \in Nicknames : StartRename(r, u, k, label)
         \/ ListExcluded(r) \/ ListAllowed(r)
         \/ CheckUnique(r) \/ FindAccount(r) \/ FindCredential(r)
         \/ \E allow \in HookAllows : CheckOwner(r, allow)
         \/ ListRemaining(r) \/ Abort(r)
  PROVE  TypeInv'
  <1> DEFINE q == req[r]
  <1>0. /\ q \in Request /\ RequestOK(q)
        /\ users \in [UserIds -> UserCell] /\ creds \in [CredIds -> CredRow \cup {None}]
        /\ Idle \in Request /\ RequestOK(Idle)
    BY IdleOK DEF TypeInv, TypeOK, ServerTypeOK, StoreTypeOK
  <1>1. ASSUME NEW n \in Usernames, StartSignUp(r, n) PROVE TypeInv'
    <2> DEFINE x == [Idle EXCEPT !.at = "regSave", !.name = n]
    <2>1. x \in Request /\ RequestOK(x)
      BY NoneAssumption DEF Idle, Request, RequestOK, Locations, OptionalUser, Acting, Finishing
    <2>2. Become(r, x) /\ UNCHANGED <<now, tables, outside, signedIn, history>>
      BY <1>1 DEF StartSignUp
    <2>3. QED
      BY <2>1, <2>2, RequestStep
  <1>2. ASSUME NEW n \in Usernames, StartScopedLogin(r, n) PROVE TypeInv'
    <2>1. PICK u \in AccountsNamed(n) : Become(r, [Idle EXCEPT !.at = "logList", !.user = u])
      BY <1>2 DEF StartScopedLogin
    <2> DEFINE x == [Idle EXCEPT !.at = "logList", !.user = u]
    <2>2. u \in UserIds
      BY DEF AccountsNamed
    <2>3. x \in Request /\ RequestOK(x)
      BY <2>2, NoneAssumption DEF Idle, Request, RequestOK, Locations, OptionalUser, Acting, Finishing
    <2>4. UNCHANGED <<now, tables, outside, signedIn, history>>
      BY <1>2 DEF StartScopedLogin
    <2>5. QED
      BY <2>1, <2>3, <2>4, RequestStep
  <1>3. ASSUME NEW u \in UserIds, StartAddPasskey(r, u) PROVE TypeInv'
    <2> DEFINE x == [Idle EXCEPT !.at = "regList", !.user = u, !.name = users[u]]
    <2>1. x \in Request /\ RequestOK(x)
      BY <1>0, <1>3, NoneAssumption
      DEF StartAddPasskey, HasAccount, Idle, Request, RequestOK, Locations, OptionalUser,
          Acting, Finishing, UserCell
    <2>2. Become(r, x) /\ UNCHANGED <<now, tables, outside, signedIn, history>>
      BY <1>3 DEF StartAddPasskey
    <2>3. QED
      BY <2>1, <2>2, RequestStep
  <1>4. CASE StartLogin(r)
    <2> DEFINE x == [Idle EXCEPT !.at = "logSave"]
    <2>1. x \in Request /\ RequestOK(x)
      BY DEF Idle, Request, RequestOK, Locations, OptionalUser, Acting, Finishing
    <2>2. Become(r, x) /\ UNCHANGED <<now, tables, outside, signedIn, history>>
      BY <1>4 DEF StartLogin
    <2>3. QED
      BY <2>1, <2>2, RequestStep
  <1>5. ASSUME NEW u \in UserIds, NEW k \in CredIds, StartDelete(r, u, k) PROVE TypeInv'
    <2> DEFINE x == [Idle EXCEPT !.at = "delList", !.user = u, !.cred = k]
    <2>1. x \in Request /\ RequestOK(x)
      BY NoneAssumption DEF Idle, Request, RequestOK, Locations, OptionalUser, Acting, Finishing
    <2>2. Become(r, x) /\ UNCHANGED <<now, tables, outside, signedIn, history>>
      BY <1>5 DEF StartDelete
    <2>3. QED
      BY <2>1, <2>2, RequestStep
  <1>6. ASSUME NEW u \in UserIds, NEW k \in CredIds, NEW label \in Nicknames,
               StartRename(r, u, k, label)
        PROVE TypeInv'
    <2> DEFINE x == [Idle EXCEPT !.at = "renSet", !.user = u, !.cred = k, !.label = label]
    <2>1. x \in Request /\ RequestOK(x)
      BY NoneAssumption DEF Idle, Request, RequestOK, Locations, OptionalUser, Acting, Finishing
    <2>2. Become(r, x) /\ UNCHANGED <<now, tables, outside, signedIn, history>>
      BY <1>6 DEF StartRename
    <2>3. QED
      BY <2>1, <2>2, RequestStep
  <1>7. CASE ListExcluded(r)
    <2> DEFINE x == [q EXCEPT !.at = "regSave", !.listed = CredentialsOf(q.user)]
    <2>1. CredentialsOf(q.user) \subseteq CredIds
      BY DEF CredentialsOf
    <2>2. x \in Request
      BY <1>0, <2>1 DEF Request, Locations
    <2>3. RequestOK(x)
      BY <1>0, <1>7 DEF ListExcluded, At, Request, RequestOK, Acting, Finishing
    <2>4. Become(r, x) /\ UNCHANGED <<now, tables, outside, signedIn, history>>
      BY <1>7 DEF ListExcluded
    <2>5. QED
      BY <2>2, <2>3, <2>4, RequestStep
  <1>8. CASE ListAllowed(r)
    <2> DEFINE x == [q EXCEPT !.at = "logSave", !.listed = CredentialsOf(q.user)]
    <2>1. CredentialsOf(q.user) \subseteq CredIds
      BY DEF CredentialsOf
    <2>2. x \in Request
      BY <1>0, <2>1 DEF Request, Locations
    <2>3. RequestOK(x)
      BY <1>0, <1>8 DEF ListAllowed, At, Request, RequestOK, Acting, Finishing
    <2>4. Become(r, x) /\ UNCHANGED <<now, tables, outside, signedIn, history>>
      BY <1>8 DEF ListAllowed
    <2>5. QED
      BY <2>2, <2>3, <2>4, RequestStep
  <1>9. CASE CheckUnique(r)
    <2> DEFINE x == [q EXCEPT !.at = "regAccount"]
    <2>1. x \in Request
      BY <1>0 DEF Request, Locations
    <2>2. RequestOK(x)
      BY <1>0, <1>9 DEF CheckUnique, At, Request, RequestOK, Acting, Finishing
    <2>3. /\ Become(r, x) \/ Become(r, Idle)
          /\ UNCHANGED <<now, tables, outside, signedIn, history>>
      BY <1>9 DEF CheckUnique, Proceed, GoTo, End
    <2>4. QED
      BY <1>0, <2>1, <2>2, <2>3, RequestStep
  <1>10. CASE FindAccount(r)
    <2> DEFINE x == [q EXCEPT !.at = "regStore"]
    <2>1. x \in Request
      BY <1>0 DEF Request, Locations
    <2>2. RequestOK(x)
      BY <1>0, <1>10 DEF FindAccount, At, Request, RequestOK, Acting, Finishing
    <2>3. /\ Become(r, x) \/ Become(r, Idle)
          /\ UNCHANGED <<now, tables, outside, signedIn, history>>
      BY <1>10 DEF FindAccount, Proceed, GoTo, End
    <2>4. QED
      BY <1>0, <2>1, <2>2, <2>3, RequestStep
  <1>11. CASE FindCredential(r)
    <2> DEFINE row == creds[q.cred]
               x == [q EXCEPT !.at = "logOwner", !.stored = row, !.user = row.owner]
    <2>1. CASE AssertionVerifies(q.pending, answers[q.chal], row)
      <3>1. row \in CredRow
        BY <1>0, <1>11, <2>1
        DEF FindCredential, At, Request, RequestOK, Finishing, AssertionVerifies
      <3>2. x \in Request
        BY <1>0, <3>1 DEF Request, Locations, CredRow, OptionalUser
      <3>3. row.owner # None /\ row # None
        BY <3>1, NoneAssumption DEF CredRow
      <3>4. RequestOK(x)
        BY <1>0, <1>11, <3>3 DEF FindCredential, At, Request, RequestOK, Acting, Finishing
      <3>5. Become(r, x) /\ UNCHANGED <<now, tables, outside, signedIn, history>>
        BY <1>11, <2>1 DEF FindCredential
      <3>6. QED
        BY <3>2, <3>4, <3>5, RequestStep
    <2>2. CASE ~AssertionVerifies(q.pending, answers[q.chal], row)
      <3>1. Become(r, Idle) /\ UNCHANGED <<now, tables, outside, signedIn, history>>
        BY <1>11, <2>2 DEF FindCredential, End
      <3>2. QED
        BY <1>0, <3>1, RequestStep
    <2>3. QED
      BY <2>1, <2>2
  <1>12. ASSUME NEW allow \in HookAllows, CheckOwner(r, allow) PROVE TypeInv'
    <2> DEFINE x == [q EXCEPT !.at = "logUpdate"]
    <2>1. x \in Request
      BY <1>0 DEF Request, Locations
    <2>2. RequestOK(x)
      BY <1>0, <1>12 DEF CheckOwner, At, Request, RequestOK, Acting, Finishing
    <2>3. /\ Become(r, x) \/ Become(r, Idle)
          /\ UNCHANGED <<now, tables, outside, signedIn, history>>
      BY <1>12 DEF CheckOwner, Proceed, GoTo, End
    <2>4. QED
      BY <1>0, <2>1, <2>2, <2>3, RequestStep
  <1>13. CASE ListRemaining(r)
    <2> DEFINE x == [q EXCEPT !.at = "delDrop", !.listed = CredentialsOf(q.user)]
    <2>1. CredentialsOf(q.user) \subseteq CredIds
      BY DEF CredentialsOf
    <2>2. x \in Request
      BY <1>0, <2>1 DEF Request, Locations
    <2>3. RequestOK(x)
      BY <1>0, <1>13 DEF ListRemaining, At, Request, RequestOK, Acting, Finishing
    <2>4. /\ Become(r, x) \/ Become(r, Idle)
          /\ UNCHANGED <<now, tables, outside, signedIn, history>>
      BY <1>13 DEF ListRemaining, End
    <2>5. QED
      BY <1>0, <2>2, <2>3, <2>4, RequestStep
  <1>14. CASE Abort(r)
    <2>1. Become(r, Idle) /\ UNCHANGED <<now, tables, outside, signedIn, history>>
      BY <1>14 DEF Abort, End
    <2>2. QED
      BY <1>0, <2>1, RequestStep
  <1>15. QED
    BY <1>1, <1>2, <1>3, <1>4, <1>5, <1>6, <1>7, <1>8, <1>9, <1>10, <1>11, <1>12, <1>13, <1>14

\* Both start routes store a row of their challenge and send its options.
Saves(c) ==
  \E row \in ChallengeRow, o \in Options :
    /\ SaveChallenge(c, row)
    /\ issued' = [issued EXCEPT ![c] = o]
    /\ row.kind = "registration" => row.user # None /\ (row.isNew => row.name # None)
    /\ o.kind = "registration" => o.user # None

LEMMA SaveStepSaves ==
  ASSUME TypeInv, NEW r \in Requests, NEW c \in Challenges, NEW uv \in UVChoices,
         SaveLogin(r, c, uv) \/ \E u \in UserIds : SaveRegistration(r, c, u, uv)
  PROVE  Saves(c)
  <1> DEFINE q == req[r]
  <1>0. /\ q \in Request /\ RequestOK(q)
        /\ uv \in BOOLEAN
        /\ now + ChallengeTimeout \in 0 .. MaxTime + ChallengeTimeout
    BY ServerAssumption, BoundAssumption DEF TypeInv, TypeOK, ServerTypeOK, StoreTypeOK
  <1>1. CASE SaveLogin(r, c, uv)
    <2> DEFINE row == [kind |-> "authentication", user |-> q.user,
                       expiresAt |-> now + ChallengeTimeout, name |-> None,
                       isNew |-> FALSE, uv |-> uv]
               o == [kind |-> "authentication", user |-> q.user,
                     listed |-> q.listed, uv |-> uv]
    <2>1. row \in ChallengeRow /\ o \in Options
      BY <1>0 DEF ChallengeRow, Options, Kinds, Request, OptionalUser
    <2>2. SaveChallenge(c, row) /\ issued' = [issued EXCEPT ![c] = o]
      BY <1>1 DEF SaveLogin
    <2>3. QED
      BY <2>1, <2>2 DEF Saves
  <1>2. ASSUME NEW u \in UserIds, SaveRegistration(r, c, u, uv)
        PROVE  Saves(c)
    <2> DEFINE row == [kind |-> "registration", user |-> u,
                       expiresAt |-> now + ChallengeTimeout, name |-> q.name,
                       isNew |-> q.user = None, uv |-> uv]
               o == [kind |-> "registration", user |-> u, listed |-> q.listed, uv |-> uv]
    <2>1. row \in ChallengeRow /\ o \in Options
      BY <1>0 DEF ChallengeRow, Options, Kinds, Request, OptionalUser
    <2>2. SaveChallenge(c, row) /\ issued' = [issued EXCEPT ![c] = o]
      BY <1>2 DEF SaveRegistration
    <2>3. u # None /\ q.name # None
      BY <1>0, <1>2, NoneAssumption DEF SaveRegistration, At, RequestOK
    <2>4. QED
      BY <2>1, <2>2, <2>3 DEF Saves
  <1>3. QED
    BY <1>1, <1>2

\* The type invariant holds over the calls that write.
LEMMA SaveStepsOK ==
  ASSUME TypeInv, NEW r \in Requests, NEW c \in Challenges, NEW uv \in UVChoices,
         SaveLogin(r, c, uv) \/ \E u \in UserIds : SaveRegistration(r, c, u, uv)
  PROVE  TypeInv'
  <1>1. Become(r, Idle) /\ UNCHANGED <<now, users, creds, answers, wallet, signedIn, history>>
    BY DEF SaveLogin, SaveRegistration, SaveChallenge, End
  <1>2. /\ req' \in [Requests -> Request]
        /\ (\A s \in Requests : RequestOK(req[s]))'
    BY <1>1, IdleOK, BecomeOK
  <1>3. PICK row \in ChallengeRow, o \in Options :
          /\ SaveChallenge(c, row)
          /\ issued' = [issued EXCEPT ![c] = o]
          /\ row.kind = "registration" => row.user # None /\ (row.isNew => row.name # None)
          /\ o.kind = "registration" => o.user # None
    BY SaveStepSaves DEF Saves
  <1>4. TypeOK'
    BY <1>1, <1>2, <1>3
    DEF TypeInv, TypeOK, StoreTypeOK, ServerTypeOK, SaveChallenge, history
  <1>5. ASSUME NEW d \in Challenges PROVE RowOK(d)'
    <2>1. challenges \in [Challenges -> ChallengeRow \cup {None}] /\ RowOK(d)
          /\ issued \in [Challenges -> Options \cup {None}]
      BY DEF TypeInv, TypeOK, StoreTypeOK, ServerTypeOK
    <2>2. challenges'[d] = row \/ challenges'[d] = None \/ challenges'[d] = challenges[d]
      BY <1>3, <2>1 DEF SaveChallenge
    <2>3. issued'[d] = o \/ issued'[d] = issued[d]
      BY <1>3, <2>1
    <2>4. QED
      BY <1>3, <2>1, <2>2, <2>3 DEF RowOK
  <1>6. QED
    BY <1>2, <1>4, <1>5 DEF TypeInv

\* Only the answers and the wallets change when an authenticator signs.
LEMMA SignStepsOK ==
  ASSUME TypeInv, NEW c \in Challenges, NEW k \in CredIds, NEW flags \in AnswerFlags,
         CreatePasskey(c, k, flags) \/ GetAssertion(c, k, flags)
  PROVE  TypeInv'
  <1>0. /\ flags \in Flags
        /\ issued \in [Challenges -> Options \cup {None}]
        /\ answers \in [Challenges -> Answer \cup {None}]
        /\ wallet \in [CredIds -> Passkey \cup {None}]
    BY ServerAssumption DEF TypeInv, TypeOK, ServerTypeOK
  <1>1. UNCHANGED <<now, tables, issued, req, signedIn, history>>
    BY DEF CreatePasskey, GetAssertion
  <1>2. \E a \in Answer, w \in Passkey :
          /\ answers' = [answers EXCEPT ![c] = a]
          /\ wallet' = [wallet EXCEPT ![k] = w]
    <2>1. CASE CreatePasskey(c, k, flags)
      <3>1. issued[c].user \in UserIds
        BY <1>0, <2>1 DEF CreatePasskey, TypeInv, RowOK, Options, OptionalUser
      <3>2. 0 \in 0 .. MaxCount
        BY BoundAssumption
      <3>3. /\ [handle |-> issued[c].user, count |-> 0] \in Passkey
            /\ [kind |-> "registration", cred |-> k, handle |-> issued[c].user,
                count |-> 0, flags |-> flags] \in Answer
        BY <1>0, <3>1, <3>2 DEF Passkey, Answer, Kinds, OptionalUser
      <3>4. QED
        BY <2>1, <3>3 DEF CreatePasskey
    <2>2. CASE GetAssertion(c, k, flags)
      <3>1. wallet[k] \in Passkey
        BY <1>0, <2>2 DEF GetAssertion, Held
      <3>2. SignCount(k) \in 0 .. MaxCount
        BY <2>2, <3>1, BoundAssumption DEF GetAssertion, SignCount, Passkey
      <3>3. /\ [wallet[k] EXCEPT !.count = SignCount(k)] \in Passkey
            /\ [kind |-> "authentication", cred |-> k,
                handle |-> IF k \in Discoverable THEN wallet[k].handle ELSE None,
                count |-> SignCount(k), flags |-> flags] \in Answer
        BY <1>0, <3>1, <3>2 DEF Passkey, Answer, Kinds, OptionalUser
      <3>4. wallet' = [wallet EXCEPT ![k] = [wallet[k] EXCEPT !.count = SignCount(k)]]
        BY <1>0, <2>2 DEF GetAssertion
      <3>5. QED
        BY <2>2, <3>3, <3>4 DEF GetAssertion
    <2>3. QED
      BY <2>1, <2>2
  <1>3. PICK a \in Answer, w \in Passkey :
          /\ answers' = [answers EXCEPT ![c] = a]
          /\ wallet' = [wallet EXCEPT ![k] = w]
    BY <1>2
  <1>4. TypeOK'
    BY <1>0, <1>1, <1>3 DEF TypeInv, TypeOK, StoreTypeOK, ServerTypeOK, tables, history
  <1>5. \A d \in Challenges : answers[d] # None => answers'[d] # None
    BY <1>0, <1>3, NoneServerAssumption
  <1>6. ASSUME NEW s \in Requests PROVE RequestOK(req[s])'
    <2>1. req[s] \in Request /\ RequestOK(req[s]) /\ req'[s] = req[s]
      BY <1>1 DEF TypeInv, TypeOK, ServerTypeOK
    <2>2. QED
      BY <1>5, <2>1 DEF RequestOK, Request
  <1>7. (\A d \in Challenges : RowOK(d))'
    BY <1>1 DEF TypeInv, RowOK, tables
  <1>8. QED
    BY <1>4, <1>6, <1>7 DEF TypeInv

\* What takeChallenge answers is null or a row of the table.
LEMMA TakenType ==
  ASSUME TypeInv, NEW c \in Challenges, Taken(c) # None
  PROVE  Taken(c) \in ChallengeRow /\ Taken(c) = challenges[c] /\ challenges[c] # None
  BY DEF TypeInv, TypeOK, StoreTypeOK, Taken

LEMMA FinishStepsOK ==
  ASSUME TypeInv, NEW r \in Requests, NEW c \in Challenges,
         FinishRegistration(r, c) \/ FinishLogin(r, c)
  PROVE  TypeInv'
  <1> DEFINE row == Taken(c)
             answer == answers[c]
             x == IF FinishRegistration(r, c)
                    THEN [Idle EXCEPT !.at = "regUnique", !.chal = c, !.pending = row,
                                      !.user = row.user, !.cred = answer.cred]
                    ELSE [Idle EXCEPT !.at = "logFind", !.chal = c, !.pending = row,
                                      !.cred = answer.cred]
  <1>0. /\ answer \in Answer /\ answer # None
        /\ req \in [Requests -> Request]
        /\ UNCHANGED <<now, users, creds, outside, signedIn, history>>
        /\ challenges' = [challenges EXCEPT ![c] = None]
    BY DEF TypeInv, TypeOK, ServerTypeOK, FinishRegistration, FinishLogin, TakeChallenge
  <1>1. (Become(r, x) /\ x \in Request /\ RequestOK(x)) \/ UNCHANGED req
    <2>1. CASE FinishRegistration(r, c) /\ RegistrationVerifies(row, answer)
      <3> DEFINE y == [Idle EXCEPT !.at = "regUnique", !.chal = c, !.pending = row,
                                   !.user = row.user, !.cred = answer.cred]
      <3>1. row \in ChallengeRow /\ row = challenges[c] /\ row.kind = "registration" /\ row # None
        BY <2>1, TakenType DEF RegistrationVerifies
      <3>2. row.user # None /\ (row.isNew => row.name # None)
        BY <3>1 DEF TypeInv, RowOK
      <3>3. y \in Request
        BY <1>0, <3>1, IdleOK DEF Request, Locations, Answer, ChallengeRow, OptionalUser
      <3>4. y.cred # None /\ y.chal # None
        BY <1>0, IdleOK, NoneAssumption DEF Answer, Request
      <3>5. RequestOK(y)
        BY <1>0, <3>1, <3>2, <3>4, IdleOK DEF RequestOK, Request, Acting, Finishing
      <3>6. Become(r, y) /\ x = y
        BY <2>1 DEF FinishRegistration
      <3>7. QED
        BY <3>3, <3>5, <3>6
    <2>2. CASE FinishRegistration(r, c) /\ ~RegistrationVerifies(row, answer)
      BY <2>2 DEF FinishRegistration
    <2>3. CASE ~FinishRegistration(r, c) /\ LoginAnswers(row, answer)
      <3> DEFINE y == [Idle EXCEPT !.at = "logFind", !.chal = c, !.pending = row,
                                   !.cred = answer.cred]
      <3>1. row \in ChallengeRow /\ row # None
        BY <2>3, TakenType DEF LoginAnswers
      <3>2. y \in Request
        BY <1>0, <3>1, IdleOK DEF Request, Locations, Answer
      <3>3. y.cred # None /\ y.chal # None
        BY <1>0, IdleOK, NoneAssumption DEF Answer, Request
      <3>4. RequestOK(y)
        BY <1>0, <3>1, <3>3, IdleOK DEF RequestOK, Request, Acting, Finishing
      <3>5. Become(r, y) /\ x = y
        BY <2>3 DEF FinishLogin
      <3>6. QED
        BY <3>2, <3>4, <3>5
    <2>4. CASE ~FinishRegistration(r, c) /\ ~LoginAnswers(row, answer)
      BY <2>4 DEF FinishLogin
    <2>5. QED
      BY <2>1, <2>2, <2>3, <2>4
  <1>2. /\ req' \in [Requests -> Request]
        /\ (\A s \in Requests : RequestOK(req[s]))'
    <2>1. CASE Become(r, x) /\ x \in Request /\ RequestOK(x)
      <3>1. UNCHANGED answers
        BY <1>0 DEF outside
      <3>2. QED
        BY <2>1, <3>1, BecomeOK
    <2>2. CASE UNCHANGED req
      BY <1>0, <2>2 DEF TypeInv, RequestOK, outside
    <2>3. QED
      BY <1>1, <2>1, <2>2
  <1>3. TypeOK'
    BY <1>0, <1>2 DEF TypeInv, TypeOK, StoreTypeOK, ServerTypeOK, outside, history
  <1>4. ASSUME NEW d \in Challenges PROVE RowOK(d)'
    <2>1. challenges'[d] = None \/ challenges'[d] = challenges[d]
      BY <1>0 DEF TypeInv, TypeOK, StoreTypeOK
    <2>2. QED
      BY <1>0, <2>1 DEF TypeInv, RowOK, outside
  <1>5. QED
    BY <1>2, <1>3, <1>4 DEF TypeInv

\* A step that moves one request and writes accounts, credentials or history.
LEMMA WritingStep ==
  ASSUME TypeInv, NEW r \in Requests, NEW x \in Request, RequestOK(x), Become(r, x),
         users' \in [UserIds -> UserCell],
         creds' \in [CredIds -> CredRow \cup {None}],
         signedIn' \subseteq UserIds,
         completions' \in [Challenges -> Nat],
         revoked' \subseteq CredIds,
         UNCHANGED <<now, challenges, outside>>
  PROVE  TypeInv'
  <1>1. /\ req' \in [Requests -> Request]
        /\ (\A s \in Requests : RequestOK(req[s]))'
    BY BecomeOK DEF outside
  <1>2. TypeOK'
    BY <1>1 DEF TypeInv, TypeOK, StoreTypeOK, ServerTypeOK, outside
  <1>3. (\A c \in Challenges : RowOK(c))'
    BY DEF TypeInv, RowOK, outside
  <1>4. QED
    BY <1>1, <1>2, <1>3 DEF TypeInv

LEMMA WritingStepsOK ==
  ASSUME TypeInv, NEW r \in Requests,
         \/ MakeAccount(r) \/ StoreCredential(r) \/ RecordLogin(r) \/ Reply(r)
         \/ DropCredential(r) \/ SetNickname(r)
  PROVE  TypeInv'
  <1> DEFINE q == req[r]
  <1>0. /\ q \in Request /\ RequestOK(q)
        /\ users \in [UserIds -> UserCell] /\ creds \in [CredIds -> CredRow \cup {None}]
        /\ answers \in [Challenges -> Answer \cup {None}]
        /\ signedIn \subseteq UserIds /\ revoked \subseteq CredIds
        /\ completions \in [Challenges -> Nat]
        /\ Idle \in Request /\ RequestOK(Idle)
    BY IdleOK DEF TypeInv, TypeOK, ServerTypeOK, StoreTypeOK
  <1>1. CASE MakeAccount(r)
    <2> DEFINE x == [q EXCEPT !.at = "regStore"]
    <2>1. x \in Request
      BY <1>0 DEF Request, Locations
    <2>2. RequestOK(x)
      BY <1>0, <1>1 DEF MakeAccount, At, Request, RequestOK, Acting, Finishing
    <2>3. q.pending \in ChallengeRow
      BY <1>0, <1>1 DEF MakeAccount, At, Request, RequestOK, Finishing
    <2>4. users' \in [UserIds -> UserCell]
      BY <1>0, <1>1, <2>3 DEF MakeAccount, CreateUser, tables, ChallengeRow, UserCell
    <2>5. /\ Become(r, x) \/ Become(r, Idle)
          /\ UNCHANGED <<now, creds, challenges, outside, signedIn, history>>
      BY <1>1 DEF MakeAccount, CreateUser, tables, Proceed, GoTo, End
    <2>6. QED
      BY <1>0, <2>1, <2>2, <2>4, <2>5, WritingStep DEF history
  <1>2. CASE StoreCredential(r)
    <2> DEFINE x == [q EXCEPT !.at = "regReply"]
               row == [owner |-> q.user, counter |-> answers[q.chal].count, nickname |-> None]
    <2>1. x \in Request
      BY <1>0 DEF Request, Locations
    <2>2. RequestOK(x)
      BY <1>0, <1>2 DEF StoreCredential, At, Request, RequestOK, Acting, Finishing
    <2>3. q.user \in UserIds /\ answers[q.chal] \in Answer
      BY <1>0, <1>2
      DEF StoreCredential, At, Request, RequestOK, Acting, Finishing, OptionalUser
    <2>4. row \in CredRow
      BY <2>3 DEF CredRow, Answer
    <2>5. creds' \in [CredIds -> CredRow \cup {None}]
      BY <1>0, <1>2, <2>4 DEF StoreCredential, PutCredential, tables
    <2>6. /\ Become(r, x) \/ Become(r, Idle)
          /\ UNCHANGED <<now, users, challenges, outside, signedIn, history>>
      BY <1>2 DEF StoreCredential, PutCredential, tables, Proceed, GoTo, End
    <2>7. QED
      BY <1>0, <2>1, <2>2, <2>5, <2>6, WritingStep DEF history
  <1>3. CASE RecordLogin(r)
    <2> DEFINE x == [q EXCEPT !.at = "logReply"]
               row == [creds[q.cred] EXCEPT !.counter = answers[q.chal].count]
    <2>1. x \in Request
      BY <1>0 DEF Request, Locations
    <2>2. RequestOK(x)
      BY <1>0, <1>3 DEF RecordLogin, At, Request, RequestOK, Acting, Finishing
    <2>3. q.cred \in CredIds /\ answers[q.chal] \in Answer
      BY <1>0, <1>3 DEF RecordLogin, At, Request, RequestOK, Finishing
    <2>4. Stored(q.cred) => row \in CredRow
      BY <1>0, <2>3 DEF Stored, CredRow, Answer
    <2>5. creds' \in [CredIds -> CredRow \cup {None}]
      BY <1>0, <1>3, <2>4 DEF RecordLogin, UpdateCounter, PutCredential, tables
    <2>6. /\ Become(r, x) \/ Become(r, Idle)
          /\ UNCHANGED <<now, users, challenges, outside, signedIn, history>>
      BY <1>3 DEF RecordLogin, UpdateCounter, PutCredential, tables, Proceed, GoTo, End
    <2>7. QED
      BY <1>0, <2>1, <2>2, <2>5, <2>6, WritingStep DEF history
  <1>4. CASE Reply(r)
    <2>1. q.user \in UserIds /\ q.chal \in Challenges
      BY <1>0, <1>4 DEF Reply, Request, RequestOK, Acting, Finishing, OptionalUser
    <2>2. signedIn' \subseteq UserIds /\ completions' \in [Challenges -> Nat]
      BY <1>0, <1>4, <2>1 DEF Reply
    <2>3. Become(r, Idle) /\ UNCHANGED <<now, tables, outside, revoked>>
      BY <1>4 DEF Reply, End
    <2>4. QED
      BY <1>0, <2>2, <2>3, WritingStep DEF tables
  <1>5. CASE DropCredential(r)
    <2>1. q.cred \in CredIds
      BY <1>0, <1>5 DEF DropCredential, At, Request, RequestOK
    <2>2. /\ creds' \in [CredIds -> CredRow \cup {None}]
          /\ revoked' \subseteq CredIds
      BY <1>0, <1>5, <2>1 DEF DropCredential, DeleteCredential, PutCredential
    <2>3. Become(r, Idle) /\ UNCHANGED <<now, users, challenges, outside, signedIn, completions>>
      BY <1>5 DEF DropCredential, DeleteCredential, PutCredential, End
    <2>4. QED
      BY <1>0, <2>2, <2>3, WritingStep
  <1>6. CASE SetNickname(r)
    <2> DEFINE row == [creds[q.cred] EXCEPT !.nickname = q.label]
    <2>1. q.cred \in CredIds /\ q.label \in Nicknames \cup {None}
      BY <1>0, <1>6 DEF SetNickname, At, Request, RequestOK
    <2>2. Stored(q.cred) => row \in CredRow
      BY <1>0, <2>1 DEF Stored, CredRow
    <2>3. creds' \in [CredIds -> CredRow \cup {None}]
      BY <1>0, <1>6, <2>2 DEF SetNickname, UpdateNickname, PutCredential, tables
    <2>4. Become(r, Idle) /\ UNCHANGED <<now, users, challenges, outside, signedIn, history>>
      BY <1>6 DEF SetNickname, UpdateNickname, PutCredential, tables, End
    <2>5. QED
      BY <1>0, <2>3, <2>4, WritingStep DEF history
  <1>7. QED
    BY <1>1, <1>2, <1>3, <1>4, <1>5, <1>6

LEMMA TypeInvNext == TypeInv /\ [Next]_vars => TypeInv'
  <1> SUFFICES ASSUME TypeInv, [Next]_vars PROVE TypeInv'
    OBVIOUS
  <1>1. ASSUME NEW r \in Requests, Arrive(r) PROVE TypeInv'
    BY <1>1, ReadingStepsOK, FinishStepsOK DEF Arrive
  <1>2. ASSUME NEW r \in Requests, Handle(r) PROVE TypeInv'
    BY <1>2, ReadingStepsOK, SaveStepsOK, WritingStepsOK DEF Handle
  <1>3. ASSUME NEW r \in Requests, Abort(r) PROVE TypeInv'
    BY <1>3, ReadingStepsOK
  <1>4. CASE Sign
    BY <1>4, SignStepsOK DEF Sign
  <1>5. CASE Tick
    <2>1. now' \in 0 .. MaxTime
      BY <1>5, BoundAssumption DEF TypeInv, TypeOK, StoreTypeOK, Tick
    <2>2. TypeOK'
      BY <1>5, <2>1 DEF TypeInv, TypeOK, StoreTypeOK, ServerTypeOK, Tick, tables, outside, history
    <2>3. QED
      BY <1>5, <2>2 DEF TypeInv, RequestOK, RowOK, Tick, tables, outside
  <1>6. CASE UNCHANGED vars
    <2>1. TypeOK'
      BY <1>6 DEF TypeInv, TypeOK, StoreTypeOK, ServerTypeOK, vars
    <2>2. QED
      BY <1>6, <2>1 DEF TypeInv, RequestOK, RowOK, vars
  <1>7. QED
    BY <1>1, <1>2, <1>3, <1>4, <1>5, <1>6 DEF Next

LEMMA TypeInvariant == Spec => []TypeInv
  BY TypeInvInit, TypeInvNext, PTL DEF Spec

\* Every reachable state is well typed, whatever the instance: no handler
\* writes a row with a column missing, although it uses rows and accounts it
\* looked up several awaits ago.
THEOREM TypeCorrect == Spec => []TypeOK
  <1>1. TypeInv => TypeOK
    BY DEF TypeInv
  <1>2. QED
    BY <1>1, TypeInvariant, PTL

-----------------------------------------------------------------------------
(***************************************************************************)
(* A challenge is used once.  ChallengeSingleUse alone is not inductive:   *)
(* that a request never holds a spent challenge rests on the row being     *)
(* gone from the table before any request holds it, and on no challenge    *)
(* being issued twice.  OnePlace says so.                                  *)
(***************************************************************************)
\* No request comes to hold a challenge it did not hold before.
LetsGo == \A s \in Requests, c \in Challenges : Holds(s, c)' => Holds(s, c)

LEMMA BecomeLetsGo ==
  ASSUME TypeInv, NEW r \in Requests, NEW x, Become(r, x), x.chal \in {req[r].chal, None}
  PROVE  LetsGo
  <1> SUFFICES ASSUME NEW s \in Requests, NEW c \in Challenges, Holds(s, c)'
               PROVE  Holds(s, c)
    BY DEF LetsGo
  <1>1. req \in [Requests -> Request]
    BY DEF TypeInv, TypeOK, ServerTypeOK
  <1>2. CASE s = r
    BY <1>1, <1>2, NoneAssumption DEF Become, Holds
  <1>3. CASE s # r
    BY <1>1, <1>3 DEF Become, Holds
  <1>4. QED
    BY <1>2, <1>3

\* Every step of a handler but the take of a challenge lets go or keeps.
LEMMA HandleLetsGo ==
  ASSUME TypeInv, NEW r \in Requests, Handle(r) \/ Abort(r)
  PROVE  LetsGo
  <1> DEFINE q == req[r]
  <1>1. \/ Become(r, Idle)
        \/ \E place \in Locations : Become(r, [q EXCEPT !.at = place])
        \/ \E place \in Locations : Become(r, [q EXCEPT !.at = place,
                                                        !.listed = CredentialsOf(q.user)])
        \/ Become(r, [q EXCEPT !.at = "logOwner", !.stored = creds[q.cred],
                               !.user = creds[q.cred].owner])
    BY DEF Handle, Abort, ListExcluded, ListAllowed, SaveLogin, SaveRegistration, CheckUnique,
           MakeAccount, FindAccount, StoreCredential, FindCredential, RecordLogin, Reply,
           CheckOwner, ListRemaining, DropCredential, SetNickname, Proceed, GoTo, End, Locations
  <1>2. q \in Request /\ Idle.chal = None
    BY DEF TypeInv, TypeOK, ServerTypeOK, Idle
  <1>3. CASE Become(r, Idle)
    BY <1>2, <1>3, BecomeLetsGo
  <1>4. ASSUME NEW place \in Locations, Become(r, [q EXCEPT !.at = place]) PROVE LetsGo
    <2>1. [q EXCEPT !.at = place].chal = q.chal
      BY <1>2 DEF Request
    <2>2. QED
      BY <1>4, <2>1, BecomeLetsGo
  <1>5. ASSUME NEW place \in Locations,
               Become(r, [q EXCEPT !.at = place, !.listed = CredentialsOf(q.user)])
        PROVE LetsGo
    <2>1. [q EXCEPT !.at = place, !.listed = CredentialsOf(q.user)].chal = q.chal
      BY <1>2 DEF Request
    <2>2. QED
      BY <1>5, <2>1, BecomeLetsGo
  <1>6. CASE Become(r, [q EXCEPT !.at = "logOwner", !.stored = creds[q.cred],
                                 !.user = creds[q.cred].owner])
    <2>1. [q EXCEPT !.at = "logOwner", !.stored = creds[q.cred],
                    !.user = creds[q.cred].owner].chal = q.chal
      BY <1>2 DEF Request
    <2>2. QED
      BY <1>6, <2>1, BecomeLetsGo
  <1>7. QED
    BY <1>1, <1>3, <1>4, <1>5, <1>6

\* A step after which every challenge is where it was, or nowhere.
LEMMA StillOnePlace ==
  ASSUME SingleUseInv, LetsGo,
         \A c \in Challenges : challenges'[c] \in {challenges[c], None},
         UNCHANGED <<issued, completions>>
  PROVE  SingleUseInv'
  BY DEF SingleUseInv, OnePlace, LetsGo

\* What a request of no finish route begins with.
LEMMA StartStep ==
  ASSUME TypeInv, SingleUseInv, NEW r \in Requests, NEW x, Become(r, x), x.chal = None,
         UNCHANGED <<now, tables, outside, signedIn, history>>
  PROVE  SingleUseInv'
  <1>1. LetsGo
    BY BecomeLetsGo
  <1>2. QED
    BY <1>1, StillOnePlace DEF tables, outside, history

LEMMA FinishOnePlace ==
  ASSUME TypeInv, SingleUseInv, NEW r \in Requests, NEW c \in Challenges,
         FinishRegistration(r, c) \/ FinishLogin(r, c)
  PROVE  SingleUseInv'
  <1>0. /\ req \in [Requests -> Request]
        /\ challenges' = [challenges EXCEPT ![c] = None]
        /\ challenges \in [Challenges -> ChallengeRow \cup {None}]
        /\ UNCHANGED <<issued, completions>>
        /\ req[r].chal = None
    BY DEF TypeInv, TypeOK, StoreTypeOK, ServerTypeOK, FinishRegistration, FinishLogin, TakeChallenge,
           outside, history, RequestOK, At, Finishing
  <1>1. \/ UNCHANGED req
        \/ /\ Taken(c) # None
           /\ \E x \in Request : x.chal = c /\ Become(r, x)
    <2>0. Idle \in Request /\ answers[c] \in Answer
      BY IdleOK DEF TypeInv, TypeOK, ServerTypeOK, FinishRegistration, FinishLogin
    <2>1. CASE FinishRegistration(r, c) /\ RegistrationVerifies(Taken(c), answers[c])
      <3> DEFINE y == [Idle EXCEPT !.at = "regUnique", !.chal = c, !.pending = Taken(c),
                                   !.user = Taken(c).user, !.cred = answers[c].cred]
      <3>1. Taken(c) \in ChallengeRow /\ Taken(c) # None
        BY <2>1, TakenType DEF RegistrationVerifies
      <3>2. y \in Request /\ y.chal = c
        BY <2>0, <3>1 DEF Request, Locations, Answer, ChallengeRow, OptionalUser
      <3>3. QED
        BY <2>1, <3>1, <3>2 DEF FinishRegistration
    <2>2. CASE FinishRegistration(r, c) /\ ~RegistrationVerifies(Taken(c), answers[c])
      BY <2>2 DEF FinishRegistration
    <2>3. CASE FinishLogin(r, c) /\ LoginAnswers(Taken(c), answers[c])
      <3> DEFINE y == [Idle EXCEPT !.at = "logFind", !.chal = c, !.pending = Taken(c),
                                   !.cred = answers[c].cred]
      <3>1. Taken(c) \in ChallengeRow /\ Taken(c) # None
        BY <2>3, TakenType DEF LoginAnswers
      <3>2. y \in Request /\ y.chal = c
        BY <2>0, <3>1 DEF Request, Locations, Answer
      <3>3. QED
        BY <2>3, <3>1, <3>2 DEF FinishLogin
    <2>4. CASE FinishLogin(r, c) /\ ~LoginAnswers(Taken(c), answers[c])
      BY <2>4 DEF FinishLogin
    <2>5. QED
      BY <2>1, <2>2, <2>3, <2>4
  <1>2. CASE UNCHANGED req
    <2>1. LetsGo
      BY <1>2 DEF LetsGo, Holds
    <2>2. \A d \in Challenges : challenges'[d] \in {challenges[d], None}
      BY <1>0
    <2>3. QED
      BY <1>0, <2>1, <2>2, StillOnePlace
  <1>3. ASSUME Taken(c) # None, NEW x \in Request, x.chal = c, Become(r, x)
        PROVE  SingleUseInv'
    <2>1. challenges[c] # None /\ OnePlace(c)
      BY <1>3, TakenType DEF SingleUseInv
    <2>2. ASSUME NEW s \in Requests, NEW d \in Challenges
          PROVE  Holds(s, d)' <=> (IF s = r THEN d = c ELSE Holds(s, d))
      BY <1>0, <1>3 DEF Become, Holds
    <2>3. ASSUME NEW d \in Challenges PROVE OnePlace(d)'
      <3>1. OnePlace(d)
        BY DEF SingleUseInv
      <3>2. CASE d = c
        BY <1>0, <2>1, <2>2, <3>2 DEF OnePlace
      <3>3. CASE d # c
        BY <1>0, <2>2, <3>1, <3>3 DEF OnePlace
      <3>4. QED
        BY <3>2, <3>3
    <2>4. QED
      BY <2>3 DEF SingleUseInv
  <1>4. QED
    BY <1>1, <1>2, <1>3

\* A challenge is issued fresh, so it is nowhere else yet; the sweep only
\* takes rows away.
LEMMA SaveOnePlace ==
  ASSUME TypeInv, SingleUseInv, NEW r \in Requests, NEW c \in Challenges, NEW uv \in UVChoices,
         SaveLogin(r, c, uv) \/ \E u \in UserIds : SaveRegistration(r, c, u, uv)
  PROVE  SingleUseInv'
  <1>1. LetsGo
    BY HandleLetsGo DEF Handle
  <1>2. PICK row \in ChallengeRow, o \in Options :
          /\ challenges' = [d \in Challenges |->
                              IF d = c THEN row ELSE IF Expired(d) THEN None ELSE challenges[d]]
          /\ issued' = [issued EXCEPT ![c] = o]
    BY SaveStepSaves DEF Saves, SaveChallenge
  <1>3. /\ issued[c] = None /\ o # None
        /\ issued \in [Challenges -> Options \cup {None}]
        /\ completions \in [Challenges -> Nat]
        /\ UNCHANGED completions
    BY NoneServerAssumption
    DEF TypeInv, TypeOK, ServerTypeOK, SaveLogin, SaveRegistration, FreshChallenges, history
  <1>4. ASSUME NEW d \in Challenges PROVE OnePlace(d)'
    <2>1. OnePlace(d)
      BY DEF SingleUseInv
    <2>2. \A s \in Requests : Holds(s, d)' => Holds(s, d)
      BY <1>1 DEF LetsGo
    <2>3. CASE d = c
      <3>1. issued'[c] # None
        BY <1>2, <1>3
      <3>2. \A s \in Requests : ~Holds(s, c) /\ ~Holds(s, c)'
        BY <1>3, <2>1, <2>2, <2>3 DEF OnePlace
      <3>3. completions[c] = 0
        BY <1>3, <2>1, <2>3 DEF OnePlace
      <3>4. QED
        BY <1>3, <2>3, <3>1, <3>2, <3>3 DEF OnePlace
    <2>4. CASE d # c
      <3>1. issued'[d] = issued[d] /\ challenges'[d] \in {challenges[d], None}
        BY <1>2, <1>3, <2>4
      <3>2. QED
        BY <1>3, <2>1, <2>2, <3>1 DEF OnePlace
    <2>5. QED
      BY <2>3, <2>4
  <1>5. QED
    BY <1>4 DEF SingleUseInv

\* A verified request gives its challenge up in the step that counts it.
LEMMA ReplyOnePlace ==
  ASSUME TypeInv, SingleUseInv, NEW r \in Requests, Reply(r)
  PROVE  SingleUseInv'
  <1>0. PICK c \in Challenges : c = req[r].chal
    BY DEF TypeInv, TypeOK, ServerTypeOK, Reply, RequestOK, Finishing, Request
  <1>1. /\ req \in [Requests -> Request] /\ RequestOK(req[r])
        /\ completions \in [Challenges -> Nat]
        /\ UNCHANGED <<challenges, issued>>
        /\ completions' = [completions EXCEPT ![c] = @ + 1]
        /\ req' = [req EXCEPT ![r] = Idle]
    BY <1>0 DEF TypeInv, TypeOK, ServerTypeOK, Reply, tables, outside, End, Become
  <1>2. Holds(r, c)
    BY <1>0 DEF Holds
  <1>3. LetsGo
    BY HandleLetsGo DEF Handle
  <1>4. ASSUME NEW d \in Challenges PROVE OnePlace(d)'
    <2>1. OnePlace(d) /\ OnePlace(c)
      BY <1>2 DEF SingleUseInv
    <2>2. \A s \in Requests : Holds(s, d)' => Holds(s, d)
      BY <1>3 DEF LetsGo
    <2>3. CASE d = c
      <3>1. \A s \in Requests : ~Holds(s, c)'
        <4>1. ~Holds(r, c)'
          BY <1>1, <1>2, NoneAssumption DEF Holds, Idle
        <4>2. ASSUME NEW s \in Requests, Holds(s, c)' PROVE FALSE
          BY <1>2, <2>1, <2>2, <2>3, <4>1, <4>2 DEF OnePlace
        <4>3. QED
          BY <4>2
      <3>2. completions[c] = 0 /\ completions'[c] = 1
        BY <1>1, <1>2, <2>1 DEF OnePlace
      <3>3. issued'[c] # None /\ challenges'[c] = None
        BY <1>1, <1>2, <2>1 DEF OnePlace
      <3>4. QED
        BY <2>3, <3>1, <3>2, <3>3 DEF OnePlace
    <2>4. CASE d # c
      <3>1. completions'[d] = completions[d]
        BY <1>1, <1>2, <2>4
      <3>2. QED
        BY <1>1, <2>1, <2>2, <3>1 DEF OnePlace
    <2>5. QED
      BY <2>3, <2>4
  <1>5. QED
    BY <1>4 DEF SingleUseInv

LEMMA ArriveOnePlace ==
  ASSUME TypeInv, SingleUseInv, NEW r \in Requests, Arrive(r)
  PROVE  SingleUseInv'
  <1>1. \/ \E x : /\ Become(r, x) /\ x.chal = None
                  /\ UNCHANGED <<now, tables, outside, signedIn, history>>
        \/ \E c \in Challenges : FinishRegistration(r, c) \/ FinishLogin(r, c)
    BY DEF Arrive, StartSignUp, StartScopedLogin, StartAddPasskey, StartLogin, StartDelete,
           StartRename, Idle
  <1>2. QED
    BY <1>1, StartStep, FinishOnePlace

LEMMA HandleOnePlace ==
  ASSUME TypeInv, SingleUseInv, NEW r \in Requests, Handle(r) \/ Abort(r)
  PROVE  SingleUseInv'
  <1>1. \/ \E c \in Challenges, uv \in UVChoices :
             SaveLogin(r, c, uv) \/ \E u \in UserIds : SaveRegistration(r, c, u, uv)
        \/ Reply(r)
        \/ UNCHANGED <<challenges, issued, completions>>
    BY DEF Handle, Abort, ListExcluded, ListAllowed, CheckUnique,
           MakeAccount, FindAccount, StoreCredential, FindCredential, RecordLogin,
           CheckOwner, ListRemaining, DropCredential, SetNickname, CreateUser, PutCredential,
           UpdateCounter, UpdateNickname, DeleteCredential, tables, outside, history
  <1>2. CASE UNCHANGED <<challenges, issued, completions>>
    BY <1>2, HandleLetsGo, StillOnePlace
  <1>3. QED
    BY <1>1, <1>2, SaveOnePlace, ReplyOnePlace

LEMMA SingleUseNext == TypeInv /\ SingleUseInv /\ [Next]_vars => SingleUseInv'
  <1> SUFFICES ASSUME TypeInv, SingleUseInv, [Next]_vars PROVE SingleUseInv'
    OBVIOUS
  <1>1. ASSUME NEW r \in Requests, Arrive(r) \/ Handle(r) \/ Abort(r) PROVE SingleUseInv'
    BY <1>1, ArriveOnePlace, HandleOnePlace
  <1>2. CASE Sign \/ Tick \/ UNCHANGED vars
    <2>1. UNCHANGED <<challenges, issued, completions, req>>
      BY <1>2 DEF Sign, CreatePasskey, GetAssertion, Tick, vars, tables, outside, history
    <2>2. LetsGo
      BY <2>1 DEF LetsGo, Holds
    <2>3. QED
      BY <2>1, <2>2, StillOnePlace
  <1>3. QED
    BY <1>1, <1>2 DEF Next

LEMMA SingleUseInit == Init => SingleUseInv
  BY NoneAssumption DEF Init, SingleUseInv, OnePlace, Holds, Idle

LEMMA SingleUseInvariant == Spec => []SingleUseInv
  BY SingleUseInit, SingleUseNext, TypeInvariant, PTL DEF Spec

\* One challenge verifies at most one ceremony, for any number of requests
\* that post its answer at once: no request that still holds it finds it
\* already verified, and no two requests hold it.
THEOREM SingleUse == Spec => []ChallengeSingleUse
  <1>1. TypeInv /\ SingleUseInv => ChallengeSingleUse
    BY DEF SingleUseInv, OnePlace, ChallengeSingleUse, Verified, TypeInv, TypeOK, ServerTypeOK
  <1>2. QED
    BY <1>1, TypeInvariant, SingleUseInvariant, PTL

-----------------------------------------------------------------------------
(***************************************************************************)
(* One account per username.  Only createUser writes the table of          *)
(* accounts, and it looks for the name in the same atomic step; the checks *)
(* made when the ceremonies began play no part in the argument.            *)
(***************************************************************************)
LEMMA CreateUserKeepsNames ==
  ASSUME TypeInv, OneAccountPerName, NEW u \in UserIds, NEW n \in Usernames,
         ~NameTaken(n), CreateUser(u, n)
  PROVE  OneAccountPerName'
  <1>1. users \in [UserIds -> UserCell] /\ users' = [users EXCEPT ![u] = n]
    BY DEF TypeInv, TypeOK, StoreTypeOK, CreateUser
  <1>2. \A v \in UserIds : HasAccount(v) => NameKey[users[v]] # NameKey[n]
    BY DEF NameTaken, AccountsNamed
  <1>3. ASSUME NEW v \in UserIds, NEW w \in UserIds, HasAccount(v)', HasAccount(w)',
               NameKey[users'[v]] = NameKey[users'[w]]
        PROVE  v = w
    <2>1. CASE v = u /\ w # u
      BY <1>1, <1>2, <1>3, <2>1 DEF HasAccount
    <2>2. CASE v # u /\ w = u
      BY <1>1, <1>2, <1>3, <2>2 DEF HasAccount
    <2>3. CASE v # u /\ w # u
      <3>1. users'[v] = users[v] /\ users'[w] = users[w]
        BY <1>1, <2>3
      <3>2. QED
        BY <1>3, <3>1 DEF HasAccount, OneAccountPerName
    <2>4. QED
      BY <2>1, <2>2, <2>3
  <1>4. QED
    BY <1>3 DEF OneAccountPerName, HasAccount

LEMMA UsersChange ==
  ASSUME TypeInv, [Next]_vars
  PROVE  \/ UNCHANGED users
         \/ \E u \in UserIds, n \in Usernames : ~NameTaken(n) /\ CreateUser(u, n)
  <1>1. ASSUME NEW r \in Requests, MakeAccount(r), ~UNCHANGED users
        PROVE  \E u \in UserIds, n \in Usernames : ~NameTaken(n) /\ CreateUser(u, n)
    <2> DEFINE q == req[r]
    <2>1. q \in Request /\ RequestOK(q) /\ At(r, "regAccount")
      BY <1>1 DEF TypeInv, TypeOK, ServerTypeOK, MakeAccount
    <2>2. q.user \in UserIds
      BY <2>1 DEF At, RequestOK, Acting, Request, OptionalUser
    <2>3. q.pending.name \in Usernames
      BY <1>1, <2>1 DEF At, MakeAccount, RequestOK, Finishing, Request, ChallengeRow
    <2>4. ~NameTaken(q.pending.name) /\ CreateUser(q.user, q.pending.name)
      BY <1>1 DEF MakeAccount, tables
    <2>5. QED
      BY <2>2, <2>3, <2>4
  <1>2. ASSUME NEW r \in Requests, Arrive(r) PROVE UNCHANGED users
    BY <1>2 DEF Arrive, StartSignUp, StartScopedLogin, StartAddPasskey, StartLogin,
         StartDelete, StartRename, FinishRegistration, FinishLogin, TakeChallenge, tables
  <1>3. ASSUME NEW r \in Requests, Handle(r) \/ Abort(r) PROVE UNCHANGED users \/ MakeAccount(r)
    BY <1>3 DEF Handle, Abort, ListExcluded, ListAllowed, SaveLogin, SaveRegistration,
         SaveChallenge, CheckUnique, FindAccount, StoreCredential, FindCredential, RecordLogin,
         Reply, CheckOwner, ListRemaining, DropCredential, SetNickname, PutCredential,
         UpdateCounter, UpdateNickname, DeleteCredential, tables
  <1>4. CASE Sign \/ Tick \/ UNCHANGED vars
    BY <1>4 DEF Sign, CreatePasskey, GetAssertion, Tick, vars, tables
  <1>5. QED
    BY <1>1, <1>2, <1>3, <1>4 DEF Next

\* Sign-ups that race for one username make one account, for any number of
\* visitors and any way of spelling it.
THEOREM OneAccount == Spec => []OneAccountPerName
  <1>1. Init => OneAccountPerName
    BY SeedAssumption DEF Init, ConsistentSeed, OneAccountPerName, HasAccount
  <1>2. TypeInv /\ OneAccountPerName /\ [Next]_vars => OneAccountPerName'
    <2> SUFFICES ASSUME TypeInv, OneAccountPerName, [Next]_vars PROVE OneAccountPerName'
      OBVIOUS
    <2>1. CASE UNCHANGED users
      BY <2>1 DEF OneAccountPerName, HasAccount
    <2>2. QED
      BY <2>1, UsersChange, CreateUserKeepsNames
  <1>3. QED
    BY <1>1, <1>2, TypeInvariant, PTL DEF Spec
=============================================================================
