---------------------------- MODULE StoresProofs ----------------------------
(***************************************************************************)
(* Theorems about the stores.  RedisStore: for any number of clients,      *)
(* accounts, passkeys and challenges, for any clock and for calls that are *)
(* cut short anywhere.  The invariants of accounts, of passkeys, of lists  *)
(* and of challenges are separate: each action touches one of them, and    *)
(* leaves a call in a place the others do not look at.  StoreAgreement: a  *)
(* database beside MemoryStore, for any names, accounts, passkeys and      *)
(* challenges, and calls without end.                                      *)
(***************************************************************************)
EXTENDS Stores, TLAPS

\* The types that TypeOK leaves out: those of the history.
Shape ==
  /\ TypeOK
  /\ saved \in [Challenges -> {None} \cup Int]
  /\ handedOut \in [Challenges -> Nat]
  /\ throughout \in [Clients -> SUBSET CredIds]
  /\ meanwhile \in [Clients -> SUBSET CredIds]

\* A name that a call has claimed is the claimed account's.
AccountsInv ==
  /\ NamesAndAccountsAgree
  /\ \A c \in Clients : At(c, "setUser") => names[Lower[call[c].name]] = call[c].user

\* A stored passkey that nobody removed is listed for its owner, or will be by a
\* call for this owner, or was cut.
ListedInv ==
  \A k \in CredIds \ revoked : Stored(k) =>
    \/ k \in members[creds[k].owner]
    \/ k \in cut
    \/ \E c \in Clients : At(c, "addMember") /\ call[c].cred = k /\ call[c].user = creds[k].owner

\* A row that will be written back is that of a removed passkey, or kept its owner.
WriteBackInv ==
  \A c \in Clients : At(c, "setCred") /\ call[c].cred \notin revoked =>
    Stored(call[c].cred) /\ creds[call[c].cred].owner = call[c].row.owner

\* Only removed passkeys are taken out of a set.
RemoveInv == \A c \in Clients : At(c, "remMember") => call[c].cred \in revoked

PasskeysInv == ListedInv /\ WriteBackInv /\ RemoveInv

\* A list under way has found, or will look at, what was there all the time.
ListInv ==
  \A c \in Clients : At(c, "read") =>
    /\ throughout[c] \subseteq call[c].left \cup call[c].found
    /\ call[c].found \subseteq meanwhile[c]
    /\ \A k \in throughout[c] : Stored(k)
    /\ \A k \in CredIds : Stored(k) => k \in meanwhile[c]

\* A challenge is on its way to Redis, there, on its way back or handed out.
ChallengesInv ==
  /\ HandedOutOnce
  /\ \A h \in Challenges : saved[h] = None => pending[h] = None /\ handedOut[h] = 0
  /\ \A h \in Challenges : pending[h] # None => handedOut[h] = 0
  /\ \A h \in Challenges, c \in Clients : Judging(c, h) => pending[h] = None /\ saved[h] # None
  /\ \A c \in Clients : At(c, "setChallenge") => saved[call[c].chal] = None
  /\ \A c, d \in Clients :
       At(c, "setChallenge") /\ At(d, "setChallenge") /\ call[c].chal = call[d].chal => c = d

\* A key and a key on its way live as long as their challenge.
LifetimeInv ==
  /\ \A h \in Challenges : pending[h] # None => pending[h].expiresAt <= pending[h].until
  /\ \A c \in Clients : At(c, "setChallenge") => call[c].expiresAt <= now + call[c].ttl * TicksPerSecond

-----------------------------------------------------------------------------
\* What a call keeps between two commands, by where it is.
LEMMA CallShapes ==
  ASSUME NEW q \in Calls
  PROVE  /\ q.at = "setUser" => q \in [at : {"setUser"}, user : UserIds, name : Usernames]
         /\ q.at = "addMember" => q \in [at : {"addMember"}, cred : CredIds, user : UserIds]
         /\ q.at = "setCred" =>
              \/ q \in [at : {"setCred"}, cred : CredIds, row : Row, field : {"counter"}, value : 0 .. MaxCount]
              \/ q \in [at : {"setCred"}, cred : CredIds, row : Row, field : {"nickname"}, value : Nicknames]
         /\ q.at \in {"delCred", "remMember"} =>
              q \in [at : {"delCred", "remMember"}, cred : CredIds, user : UserIds]
         /\ q.at = "read" =>
              q \in [at : {"read"}, user : UserIds, left : SUBSET CredIds, found : SUBSET CredIds]
         /\ q.at = "setChallenge" =>
              q \in [at : {"setChallenge"}, chal : Challenges, expiresAt : Int, ttl : Int]
         /\ q.at = "judge" => q \in [at : {"judge"}, chal : Challenges, raw : Expiry]
         /\ q.at \in {"idle", "setUser", "addMember", "setCred", "delCred", "remMember", "read", "setChallenge", "judge"}
  BY DEF Calls, Idle

\* A step of one call leaves the other calls where they are.
LEMMA ThenFacts ==
  ASSUME Shape, NEW c \in Clients, NEW q \in Calls, Then(c, q)
  PROVE  /\ call' \in [Clients -> Calls]
         /\ call'[c] = q
         /\ \A d \in Clients \ {c} : call'[d] = call[d]
  BY DEF Shape, TypeOK, Then

\* That much holds of whatever the call keeps.
LEMMA ThenOthers ==
  ASSUME Shape, NEW c \in Clients, NEW q, Then(c, q)
  PROVE  /\ call'[c] = q
         /\ \A d \in Clients \ {c} : call'[d] = call[d]
  BY DEF Shape, TypeOK, Then

\* A call that is over keeps nothing.
LEMMA IdleFacts == Idle \in Calls /\ Idle.at = "idle"
  BY DEF Idle, Calls

\* A row that is written back has the owner that was read.
LEMMA UpdatedFacts ==
  ASSUME Shape, NEW c \in Clients, At(c, "setCred")
  PROVE  call[c].cred \in CredIds /\ Updated(c) \in Row /\ Updated(c).owner = call[c].row.owner
  <1>1. call[c] \in Calls /\ call[c].at = "setCred"
    BY DEF Shape, TypeOK, At
  <1> DEFINE q == call[c]
  <1> HIDE DEF q
  <1>2. CASE q \in [at : {"setCred"}, cred : CredIds, row : Row, field : {"counter"}, value : 0 .. MaxCount]
    <2>1. [q.row EXCEPT !["counter"] = q.value] \in Row /\ [q.row EXCEPT !["counter"] = q.value].owner = q.row.owner
      BY <1>2 DEF Row
    <2> QED BY <1>2, <2>1 DEF Updated, q
  <1>3. CASE q \in [at : {"setCred"}, cred : CredIds, row : Row, field : {"nickname"}, value : Nicknames]
    <2>1. [q.row EXCEPT !["nickname"] = q.value] \in Row /\ [q.row EXCEPT !["nickname"] = q.value].owner = q.row.owner
      BY <1>3 DEF Row
    <2> QED BY <1>3, <2>1 DEF Updated, q
  <1> QED BY <1>1, <1>2, <1>3, CallShapes DEF q

\* Redis' seconds cover the ticks they stand for.
LEMMA SecondsCover ==
  ASSUME NEW ticks \in Int
  PROVE  Seconds(ticks) \in Int /\ ticks <= Seconds(ticks) * TicksPerSecond
  <1> DEFINE T == TicksPerSecond
             n == (ticks + T - 1) \div T
  <1>1. T \in Nat /\ T > 0
    BY RedisAssumption
  <1>2. n \in Int /\ n * T >= ticks
    BY <1>1, SMTT(30)
  <1>3. CASE n < 1
    <2>1. Seconds(ticks) = 1
      BY <1>3 DEF Seconds, AtLeastOne
    <2>2. n * T <= 0
      BY <1>1, <1>2, <1>3
    <2> QED BY <1>1, <1>2, <2>1, <2>2
  <1>4. CASE ~(n < 1)
    BY <1>2, <1>4 DEF Seconds, AtLeastOne
  <1> QED BY <1>3, <1>4

-----------------------------------------------------------------------------
\* Every variable keeps its type when Redis starts.
LEMMA InitShape ==
  ASSUME Init, Seeds \subseteq [CredIds -> Row \cup {None}] PROVE Shape
  <1>1. Idle \in Calls
    BY IdleFacts
  <1>2. now \in 0 .. MaxTime
    BY RedisAssumption DEF Init
  <1>3. TypeOK
    BY <1>1, <1>2 DEF Init, TypeOK
  <1> QED BY <1>3 DEF Init, Shape

\* A step that leaves what is stored alone keeps the types, if its call does.
LEMMA CallKeepsShape ==
  ASSUME Shape, call' \in [Clients -> Calls], UNCHANGED <<now, accounts, passkeys, challenges>>
  PROVE  Shape'
  BY DEF Shape, TypeOK, accounts, passkeys, challenges

\* The history of the lists keeps its type whenever a row is written.
LEMMA WitnessFacts ==
  ASSUME Shape, NEW rows, Witness(rows)
  PROVE  /\ throughout' \in [Clients -> SUBSET CredIds] /\ meanwhile' \in [Clients -> SUBSET CredIds]
         /\ \A c \in Clients : /\ throughout'[c] = throughout[c] \cap {k \in CredIds : rows[k] # None}
                               /\ At(c, "read") =>
                                    meanwhile'[c] = meanwhile[c] \cup {k \in CredIds : rows[k] # None}
  BY DEF Shape, Witness

\* A step at the accounts keeps the types.
LEMMA AccountsShape ==
  ASSUME Shape, NEW c \in Clients,
         \/ \E u \in UserIds, n \in Usernames : ClaimName(c, u, n)
         \/ WriteUser(c)
  PROVE  Shape' /\ call' \in [Clients -> Calls]
  <1>1. ASSUME NEW u \in UserIds, NEW n \in Usernames, ClaimName(c, u, n)
        PROVE  Shape' /\ call' \in [Clients -> Calls]
    <2>1. [at |-> "setUser", user |-> u, name |-> n] \in Calls
      BY DEF Calls
    <2>2. call' \in [Clients -> Calls]
      BY <1>1, <2>1, ThenFacts DEF ClaimName
    <2>3. names' \in [Keys -> UserIds \cup {None}]
      BY <1>1 DEF ClaimName, Shape, TypeOK
    <2> QED BY <1>1, <2>2, <2>3 DEF ClaimName, Shape, TypeOK, passkeys, challenges
  <1>2. CASE WriteUser(c)
    <2>1. call' \in [Clients -> Calls]
      BY <1>2, IdleFacts, ThenFacts DEF WriteUser, Ends
    <2>2. call[c].name \in Usernames /\ call[c].user \in UserIds
      BY <1>2, CallShapes DEF WriteUser, At, Shape, TypeOK
    <2>3. users' \in [UserIds -> Usernames \cup {None}]
      BY <1>2, <2>2 DEF WriteUser, Shape, TypeOK
    <2> QED BY <1>2, <2>1, <2>3 DEF WriteUser, Shape, TypeOK, passkeys, challenges
  <1> QED BY <1>1, <1>2

\* The first command of creating a passkey, and the last, keep the types.
LEMMA CreateShape ==
  ASSUME Shape, NEW c \in Clients,
         \/ \E k \in CredIds, u \in UserIds : ClaimCredential(c, k, u)
         \/ AddMember(c)
  PROVE  Shape'
  <1>1. ASSUME NEW k \in CredIds, NEW u \in UserIds, ClaimCredential(c, k, u) PROVE Shape'
    <2>1. [at |-> "addMember", cred |-> k, user |-> u] \in Calls
      BY DEF Calls
    <2>2. call' \in [Clients -> Calls]
      BY <1>1, <2>1, ThenFacts DEF ClaimCredential
    <2>3. [owner |-> u, counter |-> 0, nickname |-> None] \in Row
      BY RedisAssumption DEF Row
    <2>4. creds' \in [CredIds -> Row \cup {None}]
      BY <1>1, <2>3 DEF ClaimCredential, SetCred, Shape, TypeOK
    <2>5. throughout' \in [Clients -> SUBSET CredIds] /\ meanwhile' \in [Clients -> SUBSET CredIds]
      BY <1>1, WitnessFacts DEF ClaimCredential, SetCred
    <2> QED BY <1>1, <2>2, <2>4, <2>5 DEF ClaimCredential, Shape, TypeOK, accounts, challenges
  <1>2. CASE AddMember(c)
    <2>1. call' \in [Clients -> Calls]
      BY <1>2, IdleFacts, ThenFacts DEF AddMember, Ends
    <2>2. call[c].cred \in CredIds
      BY <1>2, CallShapes DEF AddMember, At, Shape, TypeOK
    <2>3. members' \in [UserIds -> SUBSET CredIds]
      BY <1>2, <2>2 DEF AddMember, Shape, TypeOK
    <2> QED BY <1>2, <2>1, <2>3 DEF AddMember, Shape, TypeOK, accounts, challenges
  <1> QED BY <1>1, <1>2

\* A row that is written back keeps the types.
LEMMA UpdateShape ==
  ASSUME Shape, NEW c \in Clients,
         \/ \E k \in CredIds, n \in 1 .. MaxCount : ReadForUpdate(c, k, "counter", n)
         \/ \E k \in CredIds, l \in Nicknames : ReadForUpdate(c, k, "nickname", l)
         \/ WriteBack(c)
  PROVE  Shape'
  <1>1. ASSUME NEW k \in CredIds, NEW n \in 1 .. MaxCount, ReadForUpdate(c, k, "counter", n) PROVE Shape'
    <2>1. creds[k] \in Row /\ n \in 0 .. MaxCount
      BY <1>1, RedisAssumption DEF ReadForUpdate, Stored, Shape, TypeOK
    <2>2. [at |-> "setCred", cred |-> k, row |-> creds[k], field |-> "counter", value |-> n]
            \in [at : {"setCred"}, cred : CredIds, row : Row, field : {"counter"}, value : 0 .. MaxCount]
      BY <2>1
    <2> QED BY <1>1, <2>2, ThenFacts, CallKeepsShape DEF ReadForUpdate, Calls
  <1>2. ASSUME NEW k \in CredIds, NEW l \in Nicknames, ReadForUpdate(c, k, "nickname", l) PROVE Shape'
    <2>1. creds[k] \in Row
      BY <1>2 DEF ReadForUpdate, Stored, Shape, TypeOK
    <2>2. [at |-> "setCred", cred |-> k, row |-> creds[k], field |-> "nickname", value |-> l]
            \in [at : {"setCred"}, cred : CredIds, row : Row, field : {"nickname"}, value : Nicknames]
      BY <2>1
    <2> QED BY <1>2, <2>2, ThenFacts, CallKeepsShape DEF ReadForUpdate, Calls
  <1>3. CASE WriteBack(c)
    <2>1. call' \in [Clients -> Calls]
      BY <1>3, IdleFacts, ThenFacts DEF WriteBack, Ends
    <2>2. creds' \in [CredIds -> Row \cup {None}]
      BY <1>3, UpdatedFacts DEF WriteBack, SetCred, Shape, TypeOK
    <2>3. throughout' \in [Clients -> SUBSET CredIds] /\ meanwhile' \in [Clients -> SUBSET CredIds]
      BY <1>3, WitnessFacts DEF WriteBack, SetCred
    <2> QED BY <1>3, <2>1, <2>2, <2>3 DEF WriteBack, Shape, TypeOK, accounts, challenges
  <1> QED BY <1>1, <1>2, <1>3

\* A removal keeps the types.
LEMMA DeleteShape ==
  ASSUME Shape, NEW c \in Clients,
         \/ \E k \in CredIds : ReadForDelete(c, k)
         \/ DeleteCred(c)
         \/ RemoveMember(c)
  PROVE  Shape'
  <1>1. ASSUME NEW k \in CredIds, ReadForDelete(c, k) PROVE Shape'
    <2>1. creds[k].owner \in UserIds
      BY <1>1 DEF ReadForDelete, Stored, Shape, TypeOK, Row
    <2>2. [at |-> "delCred", cred |-> k, user |-> creds[k].owner] \in Calls
      BY <2>1 DEF Calls
    <2> QED BY <1>1, <2>2, ThenFacts, CallKeepsShape DEF ReadForDelete
  <1>2. CASE DeleteCred(c)
    <2> DEFINE q == call[c]
               r == [q EXCEPT !.at = "remMember"]
    <2>1. q \in [at : {"delCred", "remMember"}, cred : CredIds, user : UserIds]
      BY <1>2, CallShapes DEF DeleteCred, At, Shape, TypeOK
    <2> HIDE DEF q
    <2>2. r \in [at : {"delCred", "remMember"}, cred : CredIds, user : UserIds]
      BY <2>1
    <2>3. r \in Calls
      BY <2>2 DEF Calls
    <2>4. call' \in [Clients -> Calls]
      BY <1>2, <2>3, ThenFacts DEF DeleteCred, q
    <2>5. creds' \in [CredIds -> Row \cup {None}] /\ revoked' \subseteq CredIds
      BY <1>2, <2>1 DEF DeleteCred, SetCred, Shape, TypeOK, q
    <2>6. throughout' \in [Clients -> SUBSET CredIds] /\ meanwhile' \in [Clients -> SUBSET CredIds]
      BY <1>2, WitnessFacts DEF DeleteCred, SetCred
    <2> QED BY <1>2, <2>4, <2>5, <2>6 DEF DeleteCred, Shape, TypeOK, accounts, challenges
  <1>3. CASE RemoveMember(c)
    <2>1. call' \in [Clients -> Calls]
      BY <1>3, IdleFacts, ThenFacts DEF RemoveMember, Ends
    <2>2. members' \in [UserIds -> SUBSET CredIds]
      BY <1>3 DEF RemoveMember, Shape, TypeOK
    <2> QED BY <1>3, <2>1, <2>2 DEF RemoveMember, Shape, TypeOK, accounts, challenges
  <1> QED BY <1>1, <1>2, <1>3

\* A list keeps the types.
LEMMA ListShape ==
  ASSUME Shape, NEW c \in Clients,
         \/ \E u \in UserIds : ListMembers(c, u)
         \/ \E k \in CredIds : ReadMember(c, k)
         \/ EndList(c)
  PROVE  Shape'
  <1>1. ASSUME NEW u \in UserIds, ListMembers(c, u) PROVE Shape'
    <2>1. [at |-> "read", user |-> u, left |-> members[u], found |-> {}] \in Calls
      BY DEF Calls, Shape, TypeOK
    <2>2. call' \in [Clients -> Calls]
      BY <1>1, <2>1, ThenFacts DEF ListMembers
    <2>3. throughout' \in [Clients -> SUBSET CredIds] /\ meanwhile' \in [Clients -> SUBSET CredIds]
      BY <1>1 DEF ListMembers, Shape, TypeOK
    <2> QED BY <1>1, <2>2, <2>3 DEF ListMembers, Shape, TypeOK, accounts, challenges
  <1>2. ASSUME NEW k \in CredIds, ReadMember(c, k) PROVE Shape'
    <2>1. call[c] \in [at : {"read"}, user : UserIds, left : SUBSET CredIds, found : SUBSET CredIds]
      BY <1>2, CallShapes DEF ReadMember, At, Shape, TypeOK
    <2>2. Found(c, k) \in [at : {"read"}, user : UserIds, left : SUBSET CredIds, found : SUBSET CredIds]
      BY <2>1 DEF Found
    <2>3. Found(c, k) \in Calls
      BY <2>2 DEF Calls
    <2> QED BY <1>2, <2>3, ThenFacts, CallKeepsShape DEF ReadMember
  <1>3. CASE EndList(c)
    <2>1. call' \in [Clients -> Calls]
      BY <1>3, IdleFacts, ThenFacts DEF EndList, Ends
    <2>2. throughout' \in [Clients -> SUBSET CredIds] /\ meanwhile' \in [Clients -> SUBSET CredIds]
      BY <1>3 DEF EndList, Shape
    <2> QED BY <1>3, <2>1, <2>2 DEF EndList, Shape, TypeOK, accounts, challenges
  <1> QED BY <1>1, <1>2, <1>3

\* Of every shape of the client library the reply is what was stored.
LEMMA ReplyFacts ==
  ASSUME NEW v, ReplyShape # "neither"
  PROVE  FirstReply(TakeReply(v)) = v
  BY RedisAssumption DEF FirstReply, TakeReply

\* What is taken is the key, or nothing once Redis has dropped it.
LEMMA GetDelFacts ==
  ASSUME Shape, NEW c \in Clients, NEW h \in Challenges, GetDel(c, h)
  PROVE  \/ Then(c, Idle)
         \/ /\ pending[h] # None /\ pending[h] \in Expiry
            /\ Then(c, [at |-> "judge", chal |-> h, raw |-> pending[h]])
  <1>1. FirstReply(TakeReply(Live(h))) = Live(h)
    BY ReplyFacts DEF GetDel
  <1>2. Live(h) = None \/ Live(h) = pending[h]
    BY DEF Live
  <1>3. pending[h] # None => pending[h] \in Expiry
    BY DEF Shape, TypeOK
  <1> QED BY <1>1, <1>2, <1>3 DEF GetDel

\* Challenges keep the types.
LEMMA ChallengesShape ==
  ASSUME Shape, NEW c \in Clients,
         Lifetimes \subseteq Int,
         \/ \E h \in Challenges, life \in Lifetimes : ComputeLifetime(c, h, life)
         \/ WriteChallenge(c)
         \/ \E h \in Challenges : GetDel(c, h)
         \/ Judge(c)
  PROVE  Shape'
  <1>1. ASSUME NEW h \in Challenges, NEW life \in Lifetimes, ComputeLifetime(c, h, life) PROVE Shape'
    <2>1. now + life \in Int /\ Seconds(life) \in Int
      BY SecondsCover DEF Shape, TypeOK
    <2>2. [at |-> "setChallenge", chal |-> h, expiresAt |-> now + life, ttl |-> Seconds(life)] \in Calls
      BY <2>1 DEF Calls
    <2> QED BY <1>1, <2>2, ThenFacts, CallKeepsShape DEF ComputeLifetime
  <1>2. CASE WriteChallenge(c)
    <2>1. call' \in [Clients -> Calls]
      BY <1>2, IdleFacts, ThenFacts DEF WriteChallenge, Ends
    <2>2. call[c] \in [at : {"setChallenge"}, chal : Challenges, expiresAt : Int, ttl : Int]
      BY <1>2, CallShapes DEF WriteChallenge, At, Shape, TypeOK
    <2>3. TicksPerSecond \in Int /\ now \in Int
      BY RedisAssumption DEF Shape, TypeOK
    <2>4. [expiresAt |-> call[c].expiresAt, until |-> now + call[c].ttl * TicksPerSecond] \in Expiry
      BY <2>2, <2>3 DEF Expiry
    <2>5. pending' \in [Challenges -> {None} \cup Expiry]
      BY <1>2, <2>4 DEF WriteChallenge, Shape, TypeOK
    <2>6. saved' \in [Challenges -> {None} \cup Int]
      BY <1>2, <2>2 DEF WriteChallenge, Shape
    <2> QED BY <1>2, <2>1, <2>5, <2>6 DEF WriteChallenge, Shape, TypeOK, accounts, passkeys
  <1>3. ASSUME NEW h \in Challenges, GetDel(c, h) PROVE Shape'
    <2>1. call' \in [Clients -> Calls]
      <3>1. CASE Then(c, Idle)
        BY <3>1, IdleFacts, ThenFacts
      <3>2. CASE pending[h] \in Expiry /\ Then(c, [at |-> "judge", chal |-> h, raw |-> pending[h]])
        <4>1. [at |-> "judge", chal |-> h, raw |-> pending[h]] \in Calls
          BY <3>2 DEF Calls
        <4> QED BY <3>2, <4>1, ThenFacts
      <3> QED BY <1>3, <3>1, <3>2, GetDelFacts
    <2>2. pending' \in [Challenges -> {None} \cup Expiry]
      BY <1>3 DEF GetDel, AfterGetDel, Shape, TypeOK
    <2> QED BY <1>3, <2>1, <2>2 DEF GetDel, Shape, TypeOK, accounts, passkeys
  <1>4. CASE Judge(c)
    <2>1. call' \in [Clients -> Calls]
      BY <1>4, IdleFacts, ThenFacts DEF Judge, Ends
    <2>2. handedOut' \in [Challenges -> Nat]
      <3>1. CASE handedOut' = handedOut
        BY <3>1 DEF Shape
      <3>2. CASE handedOut' = [handedOut EXCEPT ![call[c].chal] = handedOut[call[c].chal] + 1]
        <4>1. call[c].chal \in Challenges
          BY <1>4, CallShapes DEF Judge, At, Shape, TypeOK
        <4> QED BY <3>2, <4>1 DEF Shape
      <3> QED BY <1>4, <3>1, <3>2 DEF Judge, Shape
    <2> QED BY <1>4, <2>1, <2>2 DEF Judge, Shape, TypeOK, accounts, passkeys
  <1> QED BY <1>1, <1>2, <1>3, <1>4

\* Every step keeps the types.
LEMMA NextShape == ASSUME Shape, [Next]_vars PROVE Shape'
  <1>1. ASSUME NEW c \in Clients, CutShort(c) PROVE Shape'
    BY <1>1, IdleFacts, ThenFacts, CallKeepsShape DEF CutShort, Ends
  <1>2. CASE Tick
    <2>1. now' \in 0 .. MaxTime
      BY <1>2, RedisAssumption DEF Tick, Shape, TypeOK
    <2> QED BY <1>2, <2>1 DEF Tick, Shape, TypeOK, accounts, passkeys, challenges
  <1>3. CASE UNCHANGED vars
    BY <1>3 DEF vars, Shape, TypeOK, accounts, passkeys, challenges
  <1>4. Lifetimes \subseteq Int
    BY RedisAssumption
  <1> QED BY <1>1, <1>2, <1>3, <1>4, AccountsShape, CreateShape, UpdateShape, DeleteShape, ListShape, ChallengesShape
             DEF Next

-----------------------------------------------------------------------------
\* A step of a call that neither creates an account nor ends doing so keeps what is
\* known of names and accounts.
LEMMA AccountsAside ==
  ASSUME Shape, AccountsInv, NEW c \in Clients, NEW q, Then(c, q),
         ~At(c, "setUser"), q.at # "setUser",
         UNCHANGED accounts, cut \subseteq cut'
  PROVE  AccountsInv'
  <1>1. /\ call'[c] = q
        /\ \A d \in Clients \ {c} : call'[d] = call[d]
    BY ThenOthers
  <1>2. \A d \in Clients : At(d, "setUser")' <=> At(d, "setUser")
    BY <1>1 DEF At
  <1>3. \A d \in Clients : At(d, "setUser") => call'[d] = call[d]
    BY <1>1
  <1>4. NamesAndAccountsAgree'
    BY <1>2, <1>3 DEF AccountsInv, NamesAndAccountsAgree, accounts
  <1>5. \A d \in Clients : At(d, "setUser")' => names'[Lower[call'[d].name]] = call'[d].user
    BY <1>2, <1>3 DEF AccountsInv, accounts
  <1> QED BY <1>4, <1>5 DEF AccountsInv

\* What is known of a call that is about to write its account.
LEMMA SetUserFacts ==
  ASSUME Shape, NEW c \in Clients, At(c, "setUser")
  PROVE  call[c].user \in UserIds /\ call[c].name \in Usernames /\ Lower[call[c].name] \in Keys
  <1>1. call[c] \in [at : {"setUser"}, user : UserIds, name : Usernames]
    BY CallShapes DEF At, Shape, TypeOK
  <1> QED BY <1>1 DEF Keys

\* A name is claimed by one account, which has no other.
LEMMA ClaimNameKeeps ==
  ASSUME Shape, AccountsInv, NEW c \in Clients, NEW u \in UserIds, NEW n \in Usernames, ClaimName(c, u, n)
  PROVE  AccountsInv'
  <1> DEFINE q == [at |-> "setUser", user |-> u, name |-> n]
  <1>1. q \in Calls /\ q.at = "setUser" /\ q.user = u /\ q.name = n
    BY DEF Calls
  <1>2. /\ call'[c] = q
        /\ \A d \in Clients \ {c} : call'[d] = call[d]
    BY <1>1, ThenFacts DEF ClaimName
  <1> HIDE DEF q
  <1>3. /\ names[Lower[n]] = None /\ Lower[n] \in Keys
        /\ names' = [names EXCEPT ![Lower[n]] = u] /\ users' = users /\ cut' = cut
        /\ names \in [Keys -> UserIds \cup {None}]
    BY DEF ClaimName, NameFree, Keys, Shape, TypeOK
  <1>4. names'[Lower[n]] = u /\ \A m \in Keys \ {Lower[n]} : names'[m] = names[m]
    BY <1>3
  <1>5. \A v \in UserIds : users'[v] # None => names'[Lower[users'[v]]] = v
    <2> SUFFICES ASSUME NEW v \in UserIds, users[v] # None PROVE names'[Lower[users[v]]] = v
      BY <1>3
    <2>1. users[v] \in Usernames /\ Lower[users[v]] \in Keys
      BY DEF Shape, TypeOK, Keys
    <2>2. names[Lower[users[v]]] = v /\ v # None
      BY RedisAssumption DEF AccountsInv, NamesAndAccountsAgree
    <2> QED BY <1>3, <1>4, <2>1, <2>2
  <1>6. \A d \in Clients : At(d, "setUser")' => names'[Lower[call'[d].name]] = call'[d].user
    <2>1. names'[Lower[call'[c].name]] = call'[c].user
      BY <1>1, <1>2, <1>4
    <2>2. ASSUME NEW d \in Clients \ {c}, At(d, "setUser")' PROVE names'[Lower[call'[d].name]] = call'[d].user
      <3>1. At(d, "setUser") /\ call'[d] = call[d]
        BY <1>2, <2>2 DEF At
      <3>2. names[Lower[call[d].name]] = call[d].user /\ call[d].user # None /\ Lower[call[d].name] \in Keys
        BY <3>1, SetUserFacts, RedisAssumption DEF AccountsInv
      <3> QED BY <1>3, <1>4, <3>1, <3>2
    <2> QED BY <2>1, <2>2
  <1>7. ASSUME NEW m \in Keys, names'[m] # None
        PROVE  \/ users'[names'[m]] # None
               \/ names'[m] \in cut'
               \/ \E d \in Clients : At(d, "setUser")' /\ call'[d].user = names'[m]
    <2>1. CASE m = Lower[n]
      BY <1>1, <1>2, <1>4, <2>1 DEF At
    <2>2. CASE m # Lower[n]
      <3>1. names'[m] = names[m] /\ names[m] # None
        BY <1>4, <1>7, <2>2
      <3>2. ASSUME NEW d \in Clients, At(d, "setUser"), call[d].user = names[m]
            PROVE  At(d, "setUser")' /\ call'[d].user = names[m]
        BY <1>2, <3>2 DEF At, ClaimName, Begins
      <3> QED BY <1>3, <3>1, <3>2 DEF AccountsInv, NamesAndAccountsAgree
    <2> QED BY <2>1, <2>2
  <1> QED BY <1>5, <1>6, <1>7 DEF AccountsInv, NamesAndAccountsAgree

\* The account is written under the name that was claimed for it.
LEMMA WriteUserKeeps ==
  ASSUME Shape, AccountsInv, NEW c \in Clients, WriteUser(c) PROVE AccountsInv'
  <1> DEFINE u == call[c].user
             n == call[c].name
  <1>1. At(c, "setUser") /\ u \in UserIds /\ n \in Usernames /\ n # None /\ names[Lower[n]] = u
    BY SetUserFacts, RedisAssumption DEF WriteUser, AccountsInv
  <1>2. /\ call'[c].at = "idle"
        /\ \A d \in Clients \ {c} : call'[d] = call[d]
    BY IdleFacts, ThenFacts DEF WriteUser, Ends
  <1>3. /\ users' = [users EXCEPT ![u] = n] /\ names' = names /\ cut' = cut
        /\ users \in [UserIds -> Usernames \cup {None}]
    BY DEF WriteUser, Shape, TypeOK
  <1>4. users'[u] = n /\ \A v \in UserIds \ {u} : users'[v] = users[v]
    BY <1>1, <1>3
  <1>5. \A v \in UserIds : users'[v] # None => names'[Lower[users'[v]]] = v
    BY <1>1, <1>3, <1>4 DEF AccountsInv, NamesAndAccountsAgree
  <1>6. \A d \in Clients : At(d, "setUser")' => names'[Lower[call'[d].name]] = call'[d].user
    BY <1>2, <1>3 DEF AccountsInv, At
  <1>7. ASSUME NEW m \in Keys, names'[m] # None
        PROVE  \/ users'[names'[m]] # None
               \/ names'[m] \in cut'
               \/ \E d \in Clients : At(d, "setUser")' /\ call'[d].user = names'[m]
    <2>1. CASE names[m] = u
      BY <1>1, <1>3, <1>4, <2>1
    <2>2. CASE names[m] # u
      <3>1. names[m] \in UserIds \ {u}
        BY <1>3, <1>7, <2>2 DEF Shape, TypeOK
      <3>2. ASSUME NEW d \in Clients, At(d, "setUser"), call[d].user = names[m]
            PROVE  At(d, "setUser")' /\ call'[d].user = names[m]
        BY <1>2, <2>2, <3>2 DEF At
      <3> QED BY <1>3, <1>4, <1>7, <3>1, <3>2 DEF AccountsInv, NamesAndAccountsAgree
    <2> QED BY <2>1, <2>2
  <1> QED BY <1>5, <1>6, <1>7 DEF AccountsInv, NamesAndAccountsAgree

\* A call that is cut short puts what it names among the accounts and passkeys
\* that were cut.
LEMMA CutFacts ==
  ASSUME Shape, NEW c \in Clients, CutShort(c)
  PROVE  /\ cut \subseteq cut'
         /\ At(c, "setUser") => call[c].user \in cut'
         /\ At(c, "addMember") => call[c].cred \in cut'
         /\ At(c, "setChallenge") => call[c].chal \in cut'
         /\ Then(c, Idle) /\ UNCHANGED <<now, accounts, passkeys, challenges>>
  <1>1. \A f \in DOMAIN call[c] \cap {"user", "cred", "chal"} : call[c][f] \in cut'
    BY DEF CutShort
  <1>2. At(c, "setUser") => "user" \in DOMAIN call[c] /\ call[c].user = call[c]["user"]
    BY CallShapes DEF At, Shape, TypeOK
  <1>3. At(c, "addMember") => "cred" \in DOMAIN call[c] /\ call[c].cred = call[c]["cred"]
    BY CallShapes DEF At, Shape, TypeOK
  <1>4. At(c, "setChallenge") => "chal" \in DOMAIN call[c] /\ call[c].chal = call[c]["chal"]
    BY CallShapes DEF At, Shape, TypeOK
  <1> QED BY <1>1, <1>2, <1>3, <1>4 DEF CutShort, Ends

\* A sign-up that is cut short leaves its name to an account that was cut.
LEMMA CutKeepsAccounts ==
  ASSUME Shape, AccountsInv, NEW c \in Clients, CutShort(c) PROVE AccountsInv'
  <1>1. /\ call'[c].at = "idle"
        /\ \A d \in Clients \ {c} : call'[d] = call[d]
    BY CutFacts, IdleFacts, ThenFacts
  <1>2. users' = users /\ names' = names /\ cut \subseteq cut' /\ (At(c, "setUser") => call[c].user \in cut')
    BY CutFacts DEF accounts
  <1>3. \A d \in Clients : At(d, "setUser")' => At(d, "setUser") /\ call'[d] = call[d]
    BY <1>1 DEF At
  <1>4. \A d \in Clients : At(d, "setUser") => call[d].user \in cut' \/ (At(d, "setUser")' /\ call'[d] = call[d])
    BY <1>1, <1>2 DEF At
  <1>5. NamesAndAccountsAgree'
    BY <1>2, <1>4 DEF AccountsInv, NamesAndAccountsAgree
  <1> QED BY <1>2, <1>3, <1>5 DEF AccountsInv

-----------------------------------------------------------------------------
\* A step of a call that writes no row and no set keeps what is known of passkeys.
LEMMA PasskeysAside ==
  ASSUME Shape, PasskeysInv, NEW c \in Clients, NEW q, Then(c, q),
         At(c, "addMember") => call[c].cred \in cut',
         q.at \notin {"addMember", "setCred", "remMember"},
         UNCHANGED <<creds, members, revoked>>, cut \subseteq cut'
  PROVE  PasskeysInv'
  <1>1. /\ call'[c] = q
        /\ \A d \in Clients \ {c} : call'[d] = call[d]
    BY ThenOthers
  <1>2. \A k \in CredIds : Stored(k)' <=> Stored(k)
    BY DEF Stored
  <1>3. ListedInv'
    <2> SUFFICES ASSUME NEW k \in CredIds \ revoked', Stored(k)'
                 PROVE  \/ k \in members'[creds'[k].owner]
                        \/ k \in cut'
                        \/ \E d \in Clients : At(d, "addMember")' /\ call'[d].cred = k /\ call'[d].user = creds'[k].owner
      BY DEF ListedInv
    <2> QED BY <1>1, <1>2 DEF PasskeysInv, ListedInv, At
  <1>4. WriteBackInv'
    <2> SUFFICES ASSUME NEW d \in Clients, At(d, "setCred")', call'[d].cred \notin revoked'
                 PROVE  creds'[call'[d].cred] # None /\ creds'[call'[d].cred].owner = call'[d].row.owner
      BY DEF WriteBackInv, Stored
    <2> QED BY <1>1 DEF PasskeysInv, WriteBackInv, At, Stored
  <1>5. RemoveInv'
    BY <1>1 DEF PasskeysInv, RemoveInv, At
  <1> QED BY <1>3, <1>4, <1>5 DEF PasskeysInv

\* A credential that is created was never stored before, or it was removed: no call
\* will write an older row of it back.
LEMMA ClaimCredentialKeeps ==
  ASSUME Shape, PasskeysInv, NEW c \in Clients, NEW k \in CredIds, NEW u \in UserIds, ClaimCredential(c, k, u)
  PROVE  PasskeysInv'
  <1> DEFINE q == [at |-> "addMember", cred |-> k, user |-> u]
             r == [owner |-> u, counter |-> 0, nickname |-> None]
  <1>1. q.at = "addMember" /\ q.cred = k /\ q.user = u /\ r.owner = u
    OBVIOUS
  <1>2. Then(c, q) /\ creds' = [creds EXCEPT ![k] = r] /\ ~Stored(k) /\ k \notin revoked
        /\ members' = members /\ revoked' = revoked /\ cut' = cut /\ call[c].at = "idle"
    BY DEF ClaimCredential, SetCred, Begins, At
  <1> HIDE DEF q, r
  <1>3. /\ call'[c] = q
        /\ \A d \in Clients \ {c} : call'[d] = call[d]
    BY <1>2, ThenOthers
  <1>4. creds'[k] = r /\ \A j \in CredIds \ {k} : creds'[j] = creds[j]
    BY <1>2 DEF Shape, TypeOK
  <1>5. ListedInv'
    <2> SUFFICES ASSUME NEW j \in CredIds \ revoked', Stored(j)'
                 PROVE  \/ j \in members'[creds'[j].owner]
                        \/ j \in cut'
                        \/ \E d \in Clients : At(d, "addMember")' /\ call'[d].cred = j /\ call'[d].user = creds'[j].owner
      BY DEF ListedInv
    <2>1. CASE j = k
      BY <1>1, <1>3, <1>4, <2>1 DEF At
    <2>2. CASE j # k
      <3>1. creds'[j] = creds[j] /\ Stored(j)
        BY <1>4, <2>2 DEF Stored
      <3>2. \A d \in Clients : At(d, "addMember") => At(d, "addMember")' /\ call'[d] = call[d]
        BY <1>2, <1>3 DEF At
      <3> QED BY <1>2, <3>1, <3>2 DEF PasskeysInv, ListedInv
    <2> QED BY <2>1, <2>2
  <1>6. WriteBackInv'
    <2> SUFFICES ASSUME NEW d \in Clients, At(d, "setCred")', call'[d].cred \notin revoked'
                 PROVE  creds'[call'[d].cred] # None /\ creds'[call'[d].cred].owner = call'[d].row.owner
      BY DEF WriteBackInv, Stored
    <2>1. At(d, "setCred") /\ call'[d] = call[d]
      BY <1>1, <1>3 DEF At
    <2>2. Stored(call[d].cred) /\ creds[call[d].cred].owner = call[d].row.owner /\ call[d].cred \in CredIds
      BY <1>2, <2>1, UpdatedFacts DEF PasskeysInv, WriteBackInv
    <2> QED BY <1>2, <1>4, <2>1, <2>2 DEF Stored
  <1>7. RemoveInv'
    BY <1>1, <1>2, <1>3 DEF PasskeysInv, RemoveInv, At
  <1> QED BY <1>5, <1>6, <1>7 DEF PasskeysInv

\* A passkey that joins its owner's set is in it; other sets only grow.
LEMMA AddMemberKeeps ==
  ASSUME Shape, PasskeysInv, NEW c \in Clients, AddMember(c) PROVE PasskeysInv'
  <1> DEFINE u == call[c].user
             k == call[c].cred
  <1>1. At(c, "addMember") /\ u \in UserIds /\ k \in CredIds
    BY CallShapes DEF AddMember, At, Shape, TypeOK
  <1>2. /\ call'[c].at = "idle"
        /\ \A d \in Clients \ {c} : call'[d] = call[d]
    BY IdleFacts, ThenOthers DEF AddMember, Ends
  <1>3. members' = [members EXCEPT ![u] = members[u] \cup {k}] /\ creds' = creds /\ revoked' = revoked /\ cut' = cut
    BY DEF AddMember
  <1>4. k \in members'[u] /\ \A v \in UserIds : members[v] \subseteq members'[v]
    BY <1>1, <1>3 DEF Shape, TypeOK
  <1>5. ListedInv'
    <2> SUFFICES ASSUME NEW j \in CredIds \ revoked', Stored(j)'
                 PROVE  \/ j \in members'[creds'[j].owner]
                        \/ j \in cut'
                        \/ \E d \in Clients : At(d, "addMember")' /\ call'[d].cred = j /\ call'[d].user = creds'[j].owner
      BY DEF ListedInv
    <2>1. Stored(j) /\ creds'[j].owner = creds[j].owner /\ creds[j].owner \in UserIds
      BY <1>3 DEF Stored, Shape, TypeOK, Row
    <2>2. CASE j \in members[creds[j].owner] \/ j \in cut
      BY <1>3, <1>4, <2>1, <2>2
    <2>3. CASE \E d \in Clients : At(d, "addMember") /\ call[d].cred = j /\ call[d].user = creds[j].owner
      <3>1. PICK d \in Clients : At(d, "addMember") /\ call[d].cred = j /\ call[d].user = creds[j].owner
        BY <2>3
      <3>2. CASE d = c
        BY <1>4, <2>1, <3>1, <3>2
      <3>3. CASE d # c
        BY <1>2, <2>1, <3>1, <3>3 DEF At
      <3> QED BY <3>2, <3>3
    <2> QED BY <1>3, <2>1, <2>2, <2>3 DEF PasskeysInv, ListedInv
  <1>6. WriteBackInv'
    <2> SUFFICES ASSUME NEW d \in Clients, At(d, "setCred")', call'[d].cred \notin revoked'
                 PROVE  creds'[call'[d].cred] # None /\ creds'[call'[d].cred].owner = call'[d].row.owner
      BY DEF WriteBackInv, Stored
    <2> QED BY <1>2, <1>3 DEF PasskeysInv, WriteBackInv, At, Stored
  <1>7. RemoveInv'
    BY <1>2, <1>3 DEF PasskeysInv, RemoveInv, At
  <1> QED BY <1>5, <1>6, <1>7 DEF PasskeysInv

\* A row that was read for an update is the stored one.
LEMMA ReadForUpdateKeeps ==
  ASSUME Shape, PasskeysInv, NEW c \in Clients, NEW k \in CredIds, NEW field, NEW value,
         ReadForUpdate(c, k, field, value)
  PROVE  PasskeysInv'
  <1> DEFINE q == [at |-> "setCred", cred |-> k, row |-> creds[k], field |-> field, value |-> value]
  <1>1. q.at = "setCred" /\ q.cred = k /\ q.row = creds[k]
    OBVIOUS
  <1>2. Then(c, q) /\ Stored(k) /\ call[c].at = "idle"
        /\ creds' = creds /\ members' = members /\ revoked' = revoked /\ cut' = cut
    BY DEF ReadForUpdate, Begins, At, passkeys
  <1> HIDE DEF q
  <1>3. /\ call'[c] = q
        /\ \A d \in Clients \ {c} : call'[d] = call[d]
    BY <1>2, ThenOthers
  <1>4. ListedInv'
    <2> SUFFICES ASSUME NEW j \in CredIds \ revoked', Stored(j)'
                 PROVE  \/ j \in members'[creds'[j].owner]
                        \/ j \in cut'
                        \/ \E d \in Clients : At(d, "addMember")' /\ call'[d].cred = j /\ call'[d].user = creds'[j].owner
      BY DEF ListedInv
    <2>1. Stored(j)
      BY <1>2 DEF Stored
    <2>2. \A d \in Clients : At(d, "addMember") => At(d, "addMember")' /\ call'[d] = call[d]
      BY <1>2, <1>3 DEF At
    <2> QED BY <1>2, <2>1, <2>2 DEF PasskeysInv, ListedInv
  <1>5. WriteBackInv'
    <2> SUFFICES ASSUME NEW d \in Clients, At(d, "setCred")', call'[d].cred \notin revoked'
                 PROVE  creds'[call'[d].cred] # None /\ creds'[call'[d].cred].owner = call'[d].row.owner
      BY DEF WriteBackInv, Stored
    <2>1. CASE d = c
      BY <1>1, <1>2, <1>3, <2>1 DEF Stored
    <2>2. CASE d # c
      BY <1>2, <1>3, <2>2 DEF PasskeysInv, WriteBackInv, At, Stored
    <2> QED BY <2>1, <2>2
  <1>6. RemoveInv'
    BY <1>1, <1>2, <1>3 DEF PasskeysInv, RemoveInv, At
  <1> QED BY <1>4, <1>5, <1>6 DEF PasskeysInv

\* A row that is written back brings a removed passkey back, and no other.
LEMMA WriteBackKeeps ==
  ASSUME Shape, PasskeysInv, NEW c \in Clients, WriteBack(c) PROVE PasskeysInv'
  <1> DEFINE k == call[c].cred
             r == Updated(c)
  <1>1. At(c, "setCred") /\ k \in CredIds /\ r \in Row /\ r.owner = call[c].row.owner /\ r # None
    BY UpdatedFacts, RowsAreSome DEF WriteBack
  <1>2. k \notin revoked => Stored(k) /\ creds[k].owner = r.owner
    BY <1>1 DEF PasskeysInv, WriteBackInv
  <1>3. /\ call'[c].at = "idle"
        /\ \A d \in Clients \ {c} : call'[d] = call[d]
    BY IdleFacts, ThenOthers DEF WriteBack, Ends
  <1>4. creds' = [creds EXCEPT ![k] = r] /\ members' = members /\ revoked' = revoked /\ cut' = cut
    BY DEF WriteBack, SetCred
  <1>5. creds'[k] = r /\ \A j \in CredIds \ {k} : creds'[j] = creds[j]
    BY <1>1, <1>4 DEF Shape, TypeOK
  <1>6. \A j \in CredIds \ revoked : Stored(j)' => Stored(j) /\ creds'[j].owner = creds[j].owner
    BY <1>2, <1>5 DEF Stored
  <1>7. ListedInv'
    <2> SUFFICES ASSUME NEW j \in CredIds \ revoked', Stored(j)'
                 PROVE  \/ j \in members'[creds'[j].owner]
                        \/ j \in cut'
                        \/ \E d \in Clients : At(d, "addMember")' /\ call'[d].cred = j /\ call'[d].user = creds'[j].owner
      BY DEF ListedInv
    <2>1. Stored(j) /\ creds'[j].owner = creds[j].owner
      BY <1>4, <1>6
    <2>2. \A d \in Clients : At(d, "addMember") => At(d, "addMember")' /\ call'[d] = call[d]
      BY <1>1, <1>3 DEF At
    <2> QED BY <1>4, <2>1, <2>2 DEF PasskeysInv, ListedInv
  <1>8. WriteBackInv'
    <2> SUFFICES ASSUME NEW d \in Clients, At(d, "setCred")', call'[d].cred \notin revoked'
                 PROVE  creds'[call'[d].cred] # None /\ creds'[call'[d].cred].owner = call'[d].row.owner
      BY DEF WriteBackInv, Stored
    <2>1. At(d, "setCred") /\ call'[d] = call[d]
      BY <1>3 DEF At
    <2>2. Stored(call[d].cred) /\ creds[call[d].cred].owner = call[d].row.owner /\ call[d].cred \in CredIds
      BY <1>4, <2>1, UpdatedFacts DEF PasskeysInv, WriteBackInv
    <2>3. CASE call[d].cred = k
      BY <1>1, <1>2, <1>4, <1>5, <2>1, <2>2, <2>3
    <2>4. CASE call[d].cred # k
      BY <1>5, <2>1, <2>2, <2>4 DEF Stored
    <2> QED BY <2>3, <2>4
  <1>9. RemoveInv'
    BY <1>3, <1>4 DEF PasskeysInv, RemoveInv, At
  <1> QED BY <1>7, <1>8, <1>9 DEF PasskeysInv

\* A removed row is remembered as removed before its owner's set is looked at.
LEMMA DeleteCredKeeps ==
  ASSUME Shape, PasskeysInv, NEW c \in Clients, DeleteCred(c) PROVE PasskeysInv'
  <1> DEFINE k == call[c].cred
             q == [call[c] EXCEPT !.at = "remMember"]
  <1>1. At(c, "delCred") /\ k \in CredIds /\ q.at = "remMember" /\ q.cred = k
    BY CallShapes DEF DeleteCred, At, Shape, TypeOK
  <1>2. Then(c, q) /\ creds' = [creds EXCEPT ![k] = None] /\ members' = members
        /\ revoked' = revoked \cup {k} /\ cut' = cut
    BY DEF DeleteCred, SetCred
  <1> HIDE DEF q
  <1>3. /\ call'[c] = q
        /\ \A d \in Clients \ {c} : call'[d] = call[d]
    BY <1>2, ThenOthers
  <1>4. \A j \in CredIds \ {k} : creds'[j] = creds[j]
    BY <1>2 DEF Shape, TypeOK
  <1>5. ListedInv'
    <2> SUFFICES ASSUME NEW j \in CredIds \ revoked', Stored(j)'
                 PROVE  \/ j \in members'[creds'[j].owner]
                        \/ j \in cut'
                        \/ \E d \in Clients : At(d, "addMember")' /\ call'[d].cred = j /\ call'[d].user = creds'[j].owner
      BY DEF ListedInv
    <2>1. j \in CredIds \ revoked /\ Stored(j) /\ creds'[j] = creds[j]
      BY <1>2, <1>4 DEF Stored
    <2>2. \A d \in Clients : At(d, "addMember") => At(d, "addMember")' /\ call'[d] = call[d]
      BY <1>1, <1>3 DEF At
    <2> QED BY <1>2, <2>1, <2>2 DEF PasskeysInv, ListedInv
  <1>6. WriteBackInv'
    <2> SUFFICES ASSUME NEW d \in Clients, At(d, "setCred")', call'[d].cred \notin revoked'
                 PROVE  creds'[call'[d].cred] # None /\ creds'[call'[d].cred].owner = call'[d].row.owner
      BY DEF WriteBackInv, Stored
    <2>1. At(d, "setCred") /\ call'[d] = call[d] /\ call[d].cred # k /\ call[d].cred \notin revoked
      BY <1>1, <1>2, <1>3 DEF At
    <2>2. Stored(call[d].cred) /\ creds[call[d].cred].owner = call[d].row.owner /\ call[d].cred \in CredIds
      BY <2>1, UpdatedFacts DEF PasskeysInv, WriteBackInv
    <2> QED BY <1>4, <2>1, <2>2 DEF Stored
  <1>7. RemoveInv'
    BY <1>1, <1>2, <1>3 DEF PasskeysInv, RemoveInv, At
  <1> QED BY <1>5, <1>6, <1>7 DEF PasskeysInv

\* What is taken out of a set was removed.
LEMMA RemoveMemberKeeps ==
  ASSUME Shape, PasskeysInv, NEW c \in Clients, RemoveMember(c) PROVE PasskeysInv'
  <1> DEFINE u == call[c].user
             k == call[c].cred
  <1>1. At(c, "remMember") /\ k \in revoked
    BY DEF RemoveMember, PasskeysInv, RemoveInv
  <1>2. /\ call'[c].at = "idle"
        /\ \A d \in Clients \ {c} : call'[d] = call[d]
    BY IdleFacts, ThenOthers DEF RemoveMember, Ends
  <1>3. members' = [members EXCEPT ![u] = members[u] \ {k}] /\ creds' = creds /\ revoked' = revoked /\ cut' = cut
    BY DEF RemoveMember
  <1>4. \A v \in UserIds : members[v] \ {k} \subseteq members'[v]
    BY <1>3 DEF Shape, TypeOK
  <1>5. ListedInv'
    <2> SUFFICES ASSUME NEW j \in CredIds \ revoked', Stored(j)'
                 PROVE  \/ j \in members'[creds'[j].owner]
                        \/ j \in cut'
                        \/ \E d \in Clients : At(d, "addMember")' /\ call'[d].cred = j /\ call'[d].user = creds'[j].owner
      BY DEF ListedInv
    <2>1. Stored(j) /\ creds'[j] = creds[j] /\ creds[j].owner \in UserIds /\ j # k
      BY <1>1, <1>3 DEF Stored, Shape, TypeOK, Row
    <2>2. \A d \in Clients : At(d, "addMember") => At(d, "addMember")' /\ call'[d] = call[d]
      BY <1>1, <1>2 DEF At
    <2> QED BY <1>3, <1>4, <2>1, <2>2 DEF PasskeysInv, ListedInv
  <1>6. WriteBackInv'
    <2> SUFFICES ASSUME NEW d \in Clients, At(d, "setCred")', call'[d].cred \notin revoked'
                 PROVE  creds'[call'[d].cred] # None /\ creds'[call'[d].cred].owner = call'[d].row.owner
      BY DEF WriteBackInv, Stored
    <2> QED BY <1>2, <1>3 DEF PasskeysInv, WriteBackInv, At, Stored
  <1>7. RemoveInv'
    BY <1>2, <1>3 DEF PasskeysInv, RemoveInv, At
  <1> QED BY <1>5, <1>6, <1>7 DEF PasskeysInv

-----------------------------------------------------------------------------
\* A step that writes no row, of a call that does not list, keeps what is known of
\* lists.
LEMMA ListsAside ==
  ASSUME Shape, ListInv, NEW c \in Clients, NEW q, Then(c, q), q.at # "read",
         throughout' = [throughout EXCEPT ![c] = {}] \/ throughout' = throughout,
         meanwhile' = [meanwhile EXCEPT ![c] = {}] \/ meanwhile' = meanwhile,
         creds' = creds
  PROVE  ListInv'
  <1>1. /\ call'[c] = q
        /\ \A d \in Clients \ {c} : call'[d] = call[d]
    BY ThenOthers
  <1> SUFFICES ASSUME NEW d \in Clients, At(d, "read")'
               PROVE  /\ throughout'[d] \subseteq call'[d].left \cup call'[d].found
                      /\ call'[d].found \subseteq meanwhile'[d]
                      /\ \A k \in throughout'[d] : Stored(k)'
                      /\ \A k \in CredIds : Stored(k)' => k \in meanwhile'[d]
    BY DEF ListInv
  <1>2. At(d, "read") /\ d # c /\ call'[d] = call[d]
    BY <1>1 DEF At
  <1>3. throughout'[d] = throughout[d] /\ meanwhile'[d] = meanwhile[d]
    BY <1>2 DEF Shape
  <1>4. \A k : Stored(k)' <=> Stored(k)
    BY DEF Stored
  <1> QED BY <1>2, <1>3, <1>4 DEF ListInv

\* A list under way gives up what is removed, and may show what was there.
LEMMA ListsWitness ==
  ASSUME Shape, ListInv, NEW c \in Clients, NEW q, Then(c, q), q.at # "read", Witness(creds')
  PROVE  ListInv'
  <1>1. /\ call'[c] = q
        /\ \A d \in Clients \ {c} : call'[d] = call[d]
    BY ThenOthers
  <1> SUFFICES ASSUME NEW d \in Clients, At(d, "read")'
               PROVE  /\ throughout'[d] \subseteq call'[d].left \cup call'[d].found
                      /\ call'[d].found \subseteq meanwhile'[d]
                      /\ \A k \in throughout'[d] : Stored(k)'
                      /\ \A k \in CredIds : Stored(k)' => k \in meanwhile'[d]
    BY DEF ListInv
  <1>2. At(d, "read") /\ call'[d] = call[d]
    BY <1>1 DEF At
  <1> DEFINE there == {k \in CredIds : creds'[k] # None}
  <1>3. throughout'[d] = throughout[d] \cap there /\ meanwhile'[d] = meanwhile[d] \cup there
    BY <1>2 DEF Witness
  <1>4. \A k \in CredIds : Stored(k)' <=> k \in there
    BY DEF Stored
  <1>5. throughout[d] \subseteq call[d].left \cup call[d].found /\ call[d].found \subseteq meanwhile[d]
    BY <1>2 DEF ListInv
  <1>6. there \subseteq CredIds
    OBVIOUS
  <1> HIDE DEF there
  <1> QED BY <1>2, <1>3, <1>4, <1>5, <1>6

\* A list begins with the members that are stored, and finds none yet.
LEMMA ListMembersKeeps ==
  ASSUME Shape, ListInv, NEW c \in Clients, NEW u \in UserIds, ListMembers(c, u) PROVE ListInv'
  <1> DEFINE q == [at |-> "read", user |-> u, left |-> members[u], found |-> {}]
  <1>1. q.left = members[u] /\ q.found = {}
    OBVIOUS
  <1>2. Then(c, q)
        /\ throughout' = [throughout EXCEPT ![c] = {k \in members[u] : Stored(k)}]
        /\ meanwhile' = [meanwhile EXCEPT ![c] = {k \in CredIds : Stored(k)}]
        /\ creds' = creds
    BY DEF ListMembers
  <1> HIDE DEF q
  <1>3. /\ call'[c] = q
        /\ \A d \in Clients \ {c} : call'[d] = call[d]
    BY <1>2, ThenOthers
  <1>4. \A k : Stored(k)' <=> Stored(k)
    BY <1>2 DEF Stored
  <1>5. /\ throughout'[c] = {k \in members[u] : Stored(k)} /\ meanwhile'[c] = {k \in CredIds : Stored(k)}
        /\ \A d \in Clients \ {c} : throughout'[d] = throughout[d] /\ meanwhile'[d] = meanwhile[d]
    BY <1>2 DEF Shape
  <1> SUFFICES ASSUME NEW d \in Clients, At(d, "read")'
               PROVE  /\ throughout'[d] \subseteq call'[d].left \cup call'[d].found
                      /\ call'[d].found \subseteq meanwhile'[d]
                      /\ \A k \in throughout'[d] : Stored(k)'
                      /\ \A k \in CredIds : Stored(k)' => k \in meanwhile'[d]
    BY DEF ListInv
  <1>6. CASE d = c
    BY <1>1, <1>3, <1>4, <1>5, <1>6
  <1>7. CASE d # c
    <2>1. call'[d] = call[d] /\ At(d, "read")
      BY <1>3, <1>7 DEF At
    <2> QED BY <1>4, <1>5, <1>7, <2>1 DEF ListInv
  <1> QED BY <1>6, <1>7

\* A member that was there all the time is found when it is looked at.
LEMMA ReadMemberKeeps ==
  ASSUME Shape, ListInv, NEW c \in Clients, NEW k \in CredIds, ReadMember(c, k) PROVE ListInv'
  <1> DEFINE q == Found(c, k)
  <1>1. /\ q.left = call[c].left \ {k}
        /\ q.found = IF Stored(k) THEN call[c].found \cup {k} ELSE call[c].found
    BY CallShapes DEF ReadMember, At, Shape, TypeOK, Found
  <1>2. Then(c, q) /\ At(c, "read") /\ throughout' = throughout /\ meanwhile' = meanwhile /\ creds' = creds
    BY DEF ReadMember, passkeys
  <1> HIDE DEF q
  <1>3. /\ call'[c] = q
        /\ \A d \in Clients \ {c} : call'[d] = call[d]
    BY <1>2, ThenOthers
  <1>4. \A j : Stored(j)' <=> Stored(j)
    BY <1>2 DEF Stored
  <1> SUFFICES ASSUME NEW d \in Clients, At(d, "read")'
               PROVE  /\ throughout'[d] \subseteq call'[d].left \cup call'[d].found
                      /\ call'[d].found \subseteq meanwhile'[d]
                      /\ \A j \in throughout'[d] : Stored(j)'
                      /\ \A j \in CredIds : Stored(j)' => j \in meanwhile'[d]
    BY DEF ListInv
  <1>5. CASE d = c
    <2>1. /\ throughout[c] \subseteq call[c].left \cup call[c].found /\ call[c].found \subseteq meanwhile[c]
          /\ \A j \in throughout[c] : Stored(j)
          /\ \A j \in CredIds : Stored(j) => j \in meanwhile[c]
      BY <1>2 DEF ListInv
    <2>2. CASE Stored(k)
      BY <1>1, <1>2, <1>3, <1>4, <1>5, <2>1, <2>2
    <2>3. CASE ~Stored(k)
      <3>1. k \notin throughout[c]
        BY <2>1, <2>3
      <3> QED BY <1>1, <1>2, <1>3, <1>4, <1>5, <2>1, <2>3, <3>1
    <2> QED BY <2>2, <2>3
  <1>6. CASE d # c
    <2>1. call'[d] = call[d] /\ At(d, "read")
      BY <1>3, <1>6 DEF At
    <2> QED BY <1>2, <1>4, <1>6, <2>1 DEF ListInv
  <1> QED BY <1>5, <1>6

-----------------------------------------------------------------------------
\* A step at accounts and passkeys, or the end of a save that is cut short, keeps
\* what is known of challenges and of their keys.
LEMMA ChallengesAside ==
  ASSUME Shape, ChallengesInv, LifetimeInv, NEW c \in Clients, NEW q, Then(c, q),
         q.at \notin {"setChallenge", "judge"}, UNCHANGED <<now, challenges>>
  PROVE  ChallengesInv' /\ LifetimeInv'
  <1>1. /\ call'[c] = q
        /\ \A d \in Clients \ {c} : call'[d] = call[d]
    BY ThenOthers
  <1>2. now' = now /\ pending' = pending /\ saved' = saved /\ handedOut' = handedOut
    BY DEF challenges
  <1>3. \A d \in Clients : At(d, "setChallenge")' => At(d, "setChallenge") /\ call'[d] = call[d]
    BY <1>1 DEF At
  <1>4. \A d \in Clients, h \in Challenges : Judging(d, h)' => Judging(d, h)
    BY <1>1 DEF Judging, At
  <1>5. HandedOutOnce'
    BY <1>2, <1>4 DEF ChallengesInv, HandedOutOnce
  <1>6. ChallengesInv'
    BY <1>2, <1>3, <1>4, <1>5 DEF ChallengesInv
  <1>7. LifetimeInv'
    BY <1>2, <1>3 DEF LifetimeInv
  <1> QED BY <1>6, <1>7

\* A challenge that is about to be saved was not saved before, and its seconds
\* reach as far as it does.
LEMMA ComputeLifetimeKeeps ==
  ASSUME Shape, ChallengesInv, LifetimeInv, NEW c \in Clients, NEW h \in Challenges, NEW life \in Lifetimes,
         ComputeLifetime(c, h, life)
  PROVE  ChallengesInv' /\ LifetimeInv'
  <1> DEFINE q == [at |-> "setChallenge", chal |-> h, expiresAt |-> now + life, ttl |-> Seconds(life)]
  <1>1. q.at = "setChallenge" /\ q.chal = h /\ q.expiresAt = now + life /\ q.ttl = Seconds(life)
    OBVIOUS
  <1>2. /\ Then(c, q) /\ saved[h] = None
        /\ \A d \in Clients : At(d, "setChallenge") => call[d].chal # h
        /\ now' = now /\ pending' = pending /\ saved' = saved /\ handedOut' = handedOut
    BY DEF ComputeLifetime, challenges
  <1> HIDE DEF q
  <1>3. /\ call'[c] = q
        /\ \A d \in Clients \ {c} : call'[d] = call[d]
    BY <1>2, ThenOthers
  <1>4. \A d \in Clients : At(d, "setChallenge")' => d = c \/ (At(d, "setChallenge") /\ call'[d] = call[d])
    BY <1>3 DEF At
  <1>5. \A d \in Clients, g \in Challenges : Judging(d, g)' => Judging(d, g)
    BY <1>1, <1>3 DEF Judging, At
  <1>6. HandedOutOnce'
    BY <1>2, <1>5 DEF ChallengesInv, HandedOutOnce
  <1>7. \A d \in Clients : At(d, "setChallenge")' => saved'[call'[d].chal] = None
    BY <1>1, <1>2, <1>3, <1>4 DEF ChallengesInv
  <1>8. \A d, e \in Clients :
          At(d, "setChallenge")' /\ At(e, "setChallenge")' /\ call'[d].chal = call'[e].chal => d = e
    BY <1>1, <1>2, <1>3, <1>4 DEF ChallengesInv
  <1>9. ChallengesInv'
    BY <1>2, <1>5, <1>6, <1>7, <1>8 DEF ChallengesInv
  <1>10. now + life <= now + Seconds(life) * TicksPerSecond
    <2>1. life \in Int /\ now \in Int /\ TicksPerSecond \in Int
      BY RedisAssumption DEF Shape, TypeOK
    <2>2. Seconds(life) \in Int /\ life <= Seconds(life) * TicksPerSecond
      BY <2>1, SecondsCover
    <2> QED BY <2>1, <2>2
  <1>11. \A d \in Clients : At(d, "setChallenge")' => call'[d].expiresAt <= now' + call'[d].ttl * TicksPerSecond
    BY <1>1, <1>2, <1>3, <1>4, <1>10 DEF LifetimeInv
  <1>12. LifetimeInv'
    BY <1>2, <1>11 DEF LifetimeInv
  <1> QED BY <1>9, <1>12

\* A challenge that is saved was neither there nor handed out.
LEMMA WriteChallengeKeeps ==
  ASSUME Shape, ChallengesInv, LifetimeInv, NEW c \in Clients, WriteChallenge(c)
  PROVE  ChallengesInv' /\ LifetimeInv'
  <1> DEFINE h == call[c].chal
             r == [expiresAt |-> call[c].expiresAt, until |-> now + call[c].ttl * TicksPerSecond]
  <1>1. At(c, "setChallenge") /\ h \in Challenges /\ call[c].expiresAt \in Int /\ call[c].expiresAt # None
    BY CallShapes, RedisAssumption DEF WriteChallenge, At, Shape, TypeOK
  <1>2. r.expiresAt <= r.until
    BY <1>1 DEF LifetimeInv
  <1>3. saved[h] = None /\ pending[h] = None /\ handedOut[h] = 0 /\ \A d \in Clients : ~Judging(d, h)
    BY <1>1 DEF ChallengesInv
  <1>4. /\ now' = now /\ handedOut' = handedOut
        /\ pending' = [pending EXCEPT ![h] = r] /\ saved' = [saved EXCEPT ![h] = call[c].expiresAt]
    BY DEF WriteChallenge
  <1> HIDE DEF r
  <1>5. /\ pending'[h] = r /\ saved'[h] # None
        /\ \A g \in Challenges \ {h} : pending'[g] = pending[g] /\ saved'[g] = saved[g]
    BY <1>1, <1>4 DEF Shape, TypeOK
  <1>6. /\ call'[c].at = "idle"
        /\ \A d \in Clients \ {c} : call'[d] = call[d]
    BY IdleFacts, ThenOthers DEF WriteChallenge, Ends
  <1>7. \A d \in Clients : At(d, "setChallenge")' =>
          At(d, "setChallenge") /\ call'[d] = call[d] /\ call[d].chal # h
    BY <1>1, <1>6 DEF At, ChallengesInv
  <1>8. \A d \in Clients : At(d, "setChallenge") => call[d].chal \in Challenges
    BY CallShapes DEF At, Shape, TypeOK
  <1>9. \A d \in Clients, g \in Challenges : Judging(d, g)' => Judging(d, g) /\ g # h
    BY <1>3, <1>6 DEF Judging, At
  <1>10. HandedOutOnce'
    BY <1>4, <1>9 DEF ChallengesInv, HandedOutOnce
  <1>11. \A g \in Challenges : saved'[g] = None => pending'[g] = None /\ handedOut'[g] = 0
    BY <1>4, <1>5 DEF ChallengesInv
  <1>12. \A g \in Challenges : pending'[g] # None => handedOut'[g] = 0
    BY <1>3, <1>4, <1>5 DEF ChallengesInv
  <1>13. \A g \in Challenges, d \in Clients : Judging(d, g)' => pending'[g] = None /\ saved'[g] # None
    BY <1>5, <1>9 DEF ChallengesInv
  <1>14. \A d \in Clients : At(d, "setChallenge")' => saved'[call'[d].chal] = None
    BY <1>5, <1>7, <1>8 DEF ChallengesInv
  <1>15. \A d, e \in Clients :
          At(d, "setChallenge")' /\ At(e, "setChallenge")' /\ call'[d].chal = call'[e].chal => d = e
    BY <1>7 DEF ChallengesInv
  <1>16. \A g \in Challenges : pending'[g] # None => pending'[g].expiresAt <= pending'[g].until
    BY <1>2, <1>5 DEF LifetimeInv
  <1>17. \A d \in Clients : At(d, "setChallenge")' => call'[d].expiresAt <= now' + call'[d].ttl * TicksPerSecond
    BY <1>4, <1>7 DEF LifetimeInv
  <1>18. ChallengesInv'
    BY <1>10, <1>11, <1>12, <1>13, <1>14, <1>15 DEF ChallengesInv
  <1>19. LifetimeInv'
    BY <1>16, <1>17 DEF LifetimeInv
  <1> QED BY <1>18, <1>19

\* A challenge that is taken is there no more, and one call judges it.
LEMMA GetDelKeeps ==
  ASSUME Shape, ChallengesInv, LifetimeInv, NEW c \in Clients, NEW h \in Challenges, GetDel(c, h)
  PROVE  ChallengesInv' /\ LifetimeInv'
  <1>1. /\ now' = now /\ handedOut' = handedOut /\ saved' = saved /\ saved[h] # None
        /\ pending' = [pending EXCEPT ![h] = None]
    BY DEF GetDel, AfterGetDel
  <1>2. pending'[h] = None /\ \A g \in Challenges \ {h} : pending'[g] = pending[g]
    BY <1>1 DEF Shape, TypeOK
  <1>3. PICK q : /\ Then(c, q) /\ q.at # "setChallenge"
                 /\ q.at = "judge" => q.chal = h /\ pending[h] # None
    <2>1. CASE Then(c, Idle)
      BY <2>1, IdleFacts
    <2>2. CASE pending[h] # None /\ Then(c, [at |-> "judge", chal |-> h, raw |-> pending[h]])
      <3>1. /\ [at |-> "judge", chal |-> h, raw |-> pending[h]].at = "judge"
            /\ [at |-> "judge", chal |-> h, raw |-> pending[h]].chal = h
        OBVIOUS
      <3> QED BY <2>2, <3>1
    <2> QED BY <2>1, <2>2, GetDelFacts
  <1>4. /\ call'[c] = q
        /\ \A d \in Clients \ {c} : call'[d] = call[d]
    BY <1>3, ThenOthers
  <1>5. \A d \in Clients : At(d, "setChallenge")' => At(d, "setChallenge") /\ call'[d] = call[d]
    BY <1>3, <1>4 DEF At
  <1>6. \A d \in Clients, g \in Challenges :
          Judging(d, g)' => Judging(d, g) \/ (d = c /\ g = h /\ pending[h] # None)
    BY <1>3, <1>4 DEF Judging, At
  <1>7. pending[h] # None => handedOut[h] = 0 /\ \A d \in Clients : ~Judging(d, h)
    BY DEF ChallengesInv
  <1>8. HandedOutOnce'
    BY <1>1, <1>6, <1>7 DEF ChallengesInv, HandedOutOnce
  <1>9. \A g \in Challenges : /\ saved'[g] = None => pending'[g] = None /\ handedOut'[g] = 0
                              /\ pending'[g] # None => handedOut'[g] = 0
    BY <1>1, <1>2 DEF ChallengesInv
  <1>10. \A g \in Challenges, d \in Clients : Judging(d, g)' => pending'[g] = None /\ saved'[g] # None
    BY <1>1, <1>2, <1>6 DEF ChallengesInv
  <1>11. ChallengesInv'
    BY <1>1, <1>5, <1>8, <1>9, <1>10 DEF ChallengesInv
  <1>12. LifetimeInv'
    BY <1>1, <1>2, <1>5 DEF LifetimeInv
  <1> QED BY <1>11, <1>12

\* The one call that judges a challenge hands it out once.
LEMMA JudgeKeeps ==
  ASSUME Shape, ChallengesInv, LifetimeInv, NEW c \in Clients, Judge(c)
  PROVE  ChallengesInv' /\ LifetimeInv'
  <1> DEFINE h == call[c].chal
  <1>1. Judging(c, h) /\ h \in Challenges
    BY CallShapes DEF Judge, Judging, At, Shape, TypeOK
  <1>2. handedOut[h] = 0 /\ pending[h] = None /\ saved[h] # None /\ \A d \in Clients : Judging(d, h) => d = c
    BY <1>1 DEF ChallengesInv, HandedOutOnce
  <1>3. now' = now /\ pending' = pending /\ saved' = saved
    BY DEF Judge
  <1>4. handedOut' = handedOut \/ handedOut' = [handedOut EXCEPT ![h] = handedOut[h] + 1]
    BY DEF Judge
  <1>5. handedOut'[h] <= 1 /\ \A g \in Challenges \ {h} : handedOut'[g] = handedOut[g]
    BY <1>1, <1>2, <1>4 DEF Shape
  <1>6. /\ call'[c].at = "idle"
        /\ \A d \in Clients \ {c} : call'[d] = call[d]
    BY IdleFacts, ThenOthers DEF Judge, Ends
  <1>7. \A d \in Clients : At(d, "setChallenge")' => At(d, "setChallenge") /\ call'[d] = call[d]
    BY <1>6 DEF At
  <1>8. \A d \in Clients, g \in Challenges : Judging(d, g)' => Judging(d, g) /\ g # h
    BY <1>2, <1>6 DEF Judging, At
  <1>9. HandedOutOnce'
    BY <1>5, <1>8 DEF ChallengesInv, HandedOutOnce
  <1>10. \A g \in Challenges : /\ saved'[g] = None => pending'[g] = None /\ handedOut'[g] = 0
                               /\ pending'[g] # None => handedOut'[g] = 0
    BY <1>2, <1>3, <1>5 DEF ChallengesInv
  <1>11. ChallengesInv'
    BY <1>3, <1>7, <1>8, <1>9, <1>10 DEF ChallengesInv
  <1>12. LifetimeInv'
    BY <1>3, <1>7 DEF LifetimeInv
  <1> QED BY <1>11, <1>12

-----------------------------------------------------------------------------
IInv == Shape /\ AccountsInv /\ PasskeysInv /\ ListInv /\ ChallengesInv /\ LifetimeInv

\* The parts of the invariant but the types.
Parts == AccountsInv /\ PasskeysInv /\ ListInv /\ ChallengesInv /\ LifetimeInv

\* What the rows of an instance are at first; the sets are those of their owners.
SeedsAreRows == Seeds \subseteq [CredIds -> Row \cup {None}]

\* Redis starts with passkeys that are listed, no account and nothing under way.
LEMMA InitIInv == ASSUME SeedsAreRows, Init PROVE IInv
  <1>1. Shape
    BY InitShape DEF SeedsAreRows
  <1>2. \A c \in Clients : call[c].at = "idle"
    BY IdleFacts DEF Init
  <1>3. AccountsInv
    BY <1>2 DEF Init, AccountsInv, NamesAndAccountsAgree, At
  <1>4. ListedInv
    <2> SUFFICES ASSUME NEW k \in CredIds, Stored(k) PROVE k \in members[creds[k].owner]
      BY DEF ListedInv
    <2>1. creds[k].owner \in UserIds
      BY <1>1 DEF Shape, TypeOK, Stored, Row
    <2> QED BY <2>1 DEF Init
  <1>5. WriteBackInv /\ RemoveInv /\ ListInv
    BY <1>2 DEF WriteBackInv, RemoveInv, ListInv, At
  <1>6. ChallengesInv
    BY <1>2 DEF Init, ChallengesInv, HandedOutOnce, Judging, At
  <1>7. LifetimeInv
    BY <1>2 DEF Init, LifetimeInv, At
  <1> QED BY <1>1, <1>3, <1>4, <1>5, <1>6, <1>7 DEF IInv, PasskeysInv

\* The steps at the accounts keep every part.
LEMMA AccountsSteps ==
  ASSUME IInv, NEW c \in Clients,
         \/ \E u \in UserIds, n \in Usernames : ClaimName(c, u, n)
         \/ WriteUser(c)
  PROVE  Parts'
  <1> USE DEF IInv
  <1>1. ASSUME NEW u \in UserIds, NEW n \in Usernames, ClaimName(c, u, n) PROVE Parts'
    <2> DEFINE q == [at |-> "setUser", user |-> u, name |-> n]
    <2>1. /\ Then(c, q) /\ q.at = "setUser" /\ ~At(c, "addMember")
          /\ UNCHANGED <<now, passkeys, challenges, cut>>
      BY <1>1 DEF ClaimName, Begins, At
    <2> HIDE DEF q
    <2>2. PasskeysInv'
      BY <2>1, PasskeysAside DEF passkeys
    <2>3. ListInv'
      BY <2>1, ListsAside DEF passkeys
    <2>4. ChallengesInv' /\ LifetimeInv'
      BY <2>1, ChallengesAside
    <2> QED BY <1>1, <2>2, <2>3, <2>4, ClaimNameKeeps DEF Parts
  <1>2. CASE WriteUser(c)
    <2>1. /\ Then(c, Idle) /\ ~At(c, "addMember")
          /\ UNCHANGED <<now, passkeys, challenges, cut>>
      BY <1>2 DEF WriteUser, Ends, At
    <2>2. PasskeysInv'
      BY <2>1, IdleFacts, PasskeysAside DEF passkeys
    <2>3. ListInv'
      BY <2>1, IdleFacts, ListsAside DEF passkeys
    <2>4. ChallengesInv' /\ LifetimeInv'
      BY <2>1, IdleFacts, ChallengesAside
    <2> QED BY <1>2, <2>2, <2>3, <2>4, WriteUserKeeps DEF Parts
  <1> QED BY <1>1, <1>2

\* The steps that create, update and remove passkeys keep every part.
LEMMA PasskeysSteps ==
  ASSUME IInv, NEW c \in Clients,
         \/ \E k \in CredIds, u \in UserIds : ClaimCredential(c, k, u)
         \/ AddMember(c)
         \/ \E k \in CredIds, n \in 1 .. MaxCount : ReadForUpdate(c, k, "counter", n)
         \/ \E k \in CredIds, l \in Nicknames : ReadForUpdate(c, k, "nickname", l)
         \/ WriteBack(c)
         \/ \E k \in CredIds : ReadForDelete(c, k)
         \/ DeleteCred(c)
         \/ RemoveMember(c)
  PROVE  Parts'
  <1> USE DEF IInv
  <1>1. ASSUME NEW q, Then(c, q), ~At(c, "setUser"),
               q.at \in {"idle", "addMember", "setCred", "delCred", "remMember"},
               UNCHANGED <<now, accounts, challenges, cut>>
        PROVE  AccountsInv' /\ ChallengesInv' /\ LifetimeInv'
    BY <1>1, AccountsAside, ChallengesAside
  <1>2. ASSUME NEW q, Then(c, q), q.at # "read", UNCHANGED <<creds, throughout, meanwhile>>
        PROVE  ListInv'
    BY <1>2, ListsAside
  <1>3. ASSUME NEW k \in CredIds, NEW u \in UserIds, ClaimCredential(c, k, u) PROVE Parts'
    <2> DEFINE q == [at |-> "addMember", cred |-> k, user |-> u]
    <2>1. /\ Then(c, q) /\ q.at = "addMember" /\ ~At(c, "setUser") /\ Witness(creds')
          /\ UNCHANGED <<now, accounts, challenges, cut>>
      BY <1>3 DEF ClaimCredential, SetCred, Begins, At
    <2> HIDE DEF q
    <2> QED BY <1>1, <1>3, <2>1, ClaimCredentialKeeps, ListsWitness DEF Parts
  <1>4. CASE AddMember(c)
    <2>1. /\ Then(c, Idle) /\ ~At(c, "setUser")
          /\ UNCHANGED <<now, accounts, challenges, cut>> /\ UNCHANGED <<creds, throughout, meanwhile>>
      BY <1>4 DEF AddMember, Ends, At
    <2> QED BY <1>1, <1>2, <1>4, <2>1, IdleFacts, AddMemberKeeps DEF Parts
  <1>5. ASSUME NEW k \in CredIds, NEW field, NEW value, ReadForUpdate(c, k, field, value) PROVE Parts'
    <2> DEFINE q == [at |-> "setCred", cred |-> k, row |-> creds[k], field |-> field, value |-> value]
    <2>1. /\ Then(c, q) /\ q.at = "setCred" /\ ~At(c, "setUser")
          /\ UNCHANGED <<now, accounts, challenges, cut>> /\ UNCHANGED <<creds, throughout, meanwhile>>
      BY <1>5 DEF ReadForUpdate, Begins, At, passkeys
    <2> HIDE DEF q
    <2> QED BY <1>1, <1>2, <1>5, <2>1, ReadForUpdateKeeps DEF Parts
  <1>6. CASE WriteBack(c)
    <2>1. /\ Then(c, Idle) /\ ~At(c, "setUser") /\ Witness(creds')
          /\ UNCHANGED <<now, accounts, challenges, cut>>
      BY <1>6 DEF WriteBack, SetCred, Ends, At
    <2> QED BY <1>1, <1>6, <2>1, IdleFacts, WriteBackKeeps, ListsWitness DEF Parts
  <1>7. ASSUME NEW k \in CredIds, ReadForDelete(c, k) PROVE Parts'
    <2> DEFINE q == [at |-> "delCred", cred |-> k, user |-> creds[k].owner]
    <2>1. /\ Then(c, q) /\ q.at = "delCred" /\ ~At(c, "setUser") /\ ~At(c, "addMember")
          /\ UNCHANGED <<now, accounts, challenges, cut>> /\ UNCHANGED <<creds, throughout, meanwhile>>
          /\ UNCHANGED <<creds, members, revoked>>
      BY <1>7 DEF ReadForDelete, Begins, At, passkeys
    <2> HIDE DEF q
    <2> QED BY <1>1, <1>2, <1>7, <2>1, PasskeysAside DEF Parts
  <1>8. CASE DeleteCred(c)
    <2> DEFINE q == [call[c] EXCEPT !.at = "remMember"]
    <2>1. q.at = "remMember"
      BY <1>8, CallShapes DEF DeleteCred, At, Shape, TypeOK
    <2>2. /\ Then(c, q) /\ ~At(c, "setUser") /\ Witness(creds')
          /\ UNCHANGED <<now, accounts, challenges, cut>>
      BY <1>8 DEF DeleteCred, SetCred, At
    <2> HIDE DEF q
    <2> QED BY <1>1, <1>8, <2>1, <2>2, DeleteCredKeeps, ListsWitness DEF Parts
  <1>9. CASE RemoveMember(c)
    <2>1. /\ Then(c, Idle) /\ ~At(c, "setUser")
          /\ UNCHANGED <<now, accounts, challenges, cut>> /\ UNCHANGED <<creds, throughout, meanwhile>>
      BY <1>9 DEF RemoveMember, Ends, At
    <2> QED BY <1>1, <1>2, <1>9, <2>1, IdleFacts, RemoveMemberKeeps DEF Parts
  <1> QED BY <1>3, <1>4, <1>5, <1>6, <1>7, <1>8, <1>9

\* The steps of a list and of challenges keep every part.
LEMMA OtherSteps ==
  ASSUME IInv, NEW c \in Clients,
         \/ \E u \in UserIds : ListMembers(c, u)
         \/ \E k \in CredIds : ReadMember(c, k)
         \/ EndList(c)
         \/ \E h \in Challenges, life \in Lifetimes : ComputeLifetime(c, h, life)
         \/ WriteChallenge(c)
         \/ \E h \in Challenges : GetDel(c, h)
         \/ Judge(c)
         \/ CutShort(c)
  PROVE  Parts'
  <1> USE DEF IInv
  <1>1. ASSUME NEW q, Then(c, q), ~At(c, "setUser"), ~At(c, "addMember"),
               q.at \in {"idle", "read", "setChallenge", "judge"},
               UNCHANGED <<accounts, cut>>, UNCHANGED <<creds, members, revoked>>
        PROVE  AccountsInv' /\ PasskeysInv'
    BY <1>1, AccountsAside, PasskeysAside
  <1>2. ASSUME NEW q, Then(c, q), q.at \in {"idle", "read"}, UNCHANGED <<now, challenges>>
        PROVE  ChallengesInv' /\ LifetimeInv'
    BY <1>2, ChallengesAside
  <1>3. ASSUME NEW q, Then(c, q), q.at # "read", UNCHANGED <<creds, throughout, meanwhile>>
        PROVE  ListInv'
    BY <1>3, ListsAside
  <1>4. ASSUME NEW u \in UserIds, ListMembers(c, u) PROVE Parts'
    <2> DEFINE q == [at |-> "read", user |-> u, left |-> members[u], found |-> {}]
    <2>1. /\ Then(c, q) /\ q.at = "read" /\ ~At(c, "setUser") /\ ~At(c, "addMember")
          /\ UNCHANGED <<accounts, cut>> /\ UNCHANGED <<creds, members, revoked>> /\ UNCHANGED <<now, challenges>>
      BY <1>4 DEF ListMembers, Begins, At
    <2> HIDE DEF q
    <2> QED BY <1>1, <1>2, <1>4, <2>1, ListMembersKeeps DEF Parts
  <1>5. ASSUME NEW k \in CredIds, ReadMember(c, k) PROVE Parts'
    <2> DEFINE q == Found(c, k)
    <2>1. q.at = "read"
      BY <1>5, CallShapes DEF ReadMember, At, Shape, TypeOK, Found
    <2>2. /\ Then(c, q) /\ ~At(c, "setUser") /\ ~At(c, "addMember")
          /\ UNCHANGED <<accounts, cut>> /\ UNCHANGED <<creds, members, revoked>> /\ UNCHANGED <<now, challenges>>
      BY <1>5 DEF ReadMember, At, passkeys
    <2> HIDE DEF q
    <2> QED BY <1>1, <1>2, <1>5, <2>1, <2>2, ReadMemberKeeps DEF Parts
  <1>6. CASE EndList(c)
    <2>1. /\ Then(c, Idle) /\ ~At(c, "setUser") /\ ~At(c, "addMember")
          /\ UNCHANGED <<accounts, cut>> /\ UNCHANGED <<creds, members, revoked>> /\ UNCHANGED <<now, challenges>>
      BY <1>6 DEF EndList, Ends, At
    <2>2. /\ throughout' = [throughout EXCEPT ![c] = {}]
          /\ meanwhile' = [meanwhile EXCEPT ![c] = {}] /\ creds' = creds
      BY <1>6 DEF EndList
    <2>3. ListInv'
      BY <2>1, <2>2, IdleFacts, ListsAside
    <2> QED BY <1>1, <1>2, <2>1, <2>3, IdleFacts DEF Parts
  <1>7. ASSUME NEW h \in Challenges, NEW life \in Lifetimes, ComputeLifetime(c, h, life) PROVE Parts'
    <2> DEFINE q == [at |-> "setChallenge", chal |-> h, expiresAt |-> now + life, ttl |-> Seconds(life)]
    <2>1. /\ Then(c, q) /\ q.at = "setChallenge" /\ ~At(c, "setUser") /\ ~At(c, "addMember")
          /\ UNCHANGED <<accounts, cut>> /\ UNCHANGED <<creds, members, revoked>>
          /\ UNCHANGED <<creds, throughout, meanwhile>>
      BY <1>7 DEF ComputeLifetime, Begins, At, passkeys
    <2> HIDE DEF q
    <2> QED BY <1>1, <1>3, <1>7, <2>1, ComputeLifetimeKeeps DEF Parts
  <1>8. CASE WriteChallenge(c)
    <2>1. /\ Then(c, Idle) /\ ~At(c, "setUser") /\ ~At(c, "addMember")
          /\ UNCHANGED <<accounts, cut>> /\ UNCHANGED <<creds, members, revoked>>
          /\ UNCHANGED <<creds, throughout, meanwhile>>
      BY <1>8 DEF WriteChallenge, Ends, At, passkeys
    <2> QED BY <1>1, <1>3, <1>8, <2>1, IdleFacts, WriteChallengeKeeps DEF Parts
  <1>9. ASSUME NEW h \in Challenges, GetDel(c, h) PROVE Parts'
    <2>1. /\ ~At(c, "setUser") /\ ~At(c, "addMember")
          /\ UNCHANGED <<accounts, cut>> /\ UNCHANGED <<creds, members, revoked>>
          /\ UNCHANGED <<creds, throughout, meanwhile>>
      BY <1>9 DEF GetDel, Begins, At, passkeys
    <2>2. PICK q : Then(c, q) /\ q.at \in {"idle", "judge"}
      <3>1. CASE Then(c, Idle)
        BY <3>1, IdleFacts
      <3>2. CASE Then(c, [at |-> "judge", chal |-> h, raw |-> pending[h]])
        <4>1. [at |-> "judge", chal |-> h, raw |-> pending[h]].at = "judge"
          OBVIOUS
        <4> QED BY <3>2, <4>1
      <3> QED BY <1>9, <3>1, <3>2, GetDelFacts
    <2> QED BY <1>1, <1>3, <1>9, <2>1, <2>2, GetDelKeeps DEF Parts
  <1>10. CASE Judge(c)
    <2>1. /\ Then(c, Idle) /\ ~At(c, "setUser") /\ ~At(c, "addMember")
          /\ UNCHANGED <<accounts, cut>> /\ UNCHANGED <<creds, members, revoked>>
          /\ UNCHANGED <<creds, throughout, meanwhile>>
      BY <1>10 DEF Judge, Ends, At, passkeys
    <2> QED BY <1>1, <1>3, <1>10, <2>1, IdleFacts, JudgeKeeps DEF Parts
  <1>11. CASE CutShort(c)
    <2>1. /\ cut \subseteq cut' /\ (At(c, "addMember") => call[c].cred \in cut') /\ Then(c, Idle)
          /\ UNCHANGED <<creds, members, revoked>> /\ UNCHANGED <<creds, throughout, meanwhile>>
          /\ UNCHANGED <<now, challenges>>
      BY <1>11, CutFacts DEF passkeys
    <2>2. PasskeysInv'
      BY <2>1, IdleFacts, PasskeysAside
    <2> QED BY <1>2, <1>3, <1>11, <2>1, <2>2, IdleFacts, CutKeepsAccounts DEF Parts
  <1> QED BY <1>4, <1>5, <1>6, <1>7, <1>8, <1>9, <1>10, <1>11

\* The clock makes keys on their way live no shorter.
LEMMA TickKeeps == ASSUME IInv, Tick PROVE Parts'
  <1> USE DEF IInv
  <1>1. UNCHANGED <<accounts, passkeys, challenges, call, cut>>
    BY DEF Tick
  <1>2. AccountsInv' /\ PasskeysInv' /\ ListInv'
    BY <1>1 DEF accounts, passkeys, AccountsInv, NamesAndAccountsAgree, PasskeysInv, ListedInv, WriteBackInv,
                RemoveInv, ListInv, At, Stored
  <1>3. ChallengesInv'
    BY <1>1 DEF challenges, ChallengesInv, HandedOutOnce, Judging, At
  <1>4. \A c \in Clients : At(c, "setChallenge")' => call'[c].expiresAt <= now' + call'[c].ttl * TicksPerSecond
    <2> SUFFICES ASSUME NEW c \in Clients, At(c, "setChallenge")
                 PROVE  call[c].expiresAt <= now' + call[c].ttl * TicksPerSecond
      BY <1>1 DEF At
    <2>1. call[c].expiresAt \in Int /\ call[c].ttl \in Int
      BY CallShapes DEF At, Shape, TypeOK
    <2>2. now \in Int /\ now' = now + 1 /\ TicksPerSecond \in Int
      BY RedisAssumption DEF Tick, Shape, TypeOK
    <2> DEFINE length == call[c].ttl * TicksPerSecond
    <2>3. length \in Int
      BY <2>1, <2>2
    <2>4. call[c].expiresAt <= now + length
      BY DEF LifetimeInv
    <2> HIDE DEF length
    <2>5. call[c].expiresAt <= now' + length
      BY <2>1, <2>2, <2>3, <2>4
    <2> QED BY <2>5 DEF length
  <1>5. LifetimeInv'
    BY <1>1, <1>4 DEF challenges, LifetimeInv
  <1> QED BY <1>2, <1>3, <1>5 DEF Parts

\* Every step keeps the invariant.
LEMMA NextIInv == ASSUME IInv, [Next]_vars PROVE IInv'
  <1>1. Shape'
    BY NextShape DEF IInv
  <1>2. CASE UNCHANGED vars
    <2>1. UNCHANGED <<now, accounts, passkeys, challenges, call, cut>>
      BY <1>2 DEF vars
    <2> QED
      BY <1>1, <2>1 DEF IInv, accounts, passkeys, challenges, AccountsInv, NamesAndAccountsAgree, PasskeysInv,
                        ListedInv, WriteBackInv, RemoveInv, ListInv, ChallengesInv, HandedOutOnce, Judging,
                        LifetimeInv, At, Stored
  <1>3. CASE Next
    <2>1. Parts'
      BY <1>3, AccountsSteps, PasskeysSteps, OtherSteps, TickKeeps DEF Next
    <2> QED BY <1>1, <2>1 DEF IInv, Parts
  <1> QED BY <1>2, <1>3

\* The invariant holds of every store that starts with rows.
LEMMA Invariance == SeedsAreRows => (Spec => []IInv)
  <1> SUFFICES ASSUME SeedsAreRows PROVE Spec => []IInv
    OBVIOUS
  <1>1. Init => IInv
    BY InitIInv
  <1>2. IInv /\ [Next]_vars => IInv'
    BY NextIInv
  <1> QED BY <1>1, <1>2, PTL DEF Spec

-----------------------------------------------------------------------------
\* Every variable keeps to its type, and every call keeps what its next command
\* needs (redis.ts:73-165).
THEOREM RedisTyped == SeedsAreRows => (Spec => []TypeOK)
  <1> SUFFICES ASSUME SeedsAreRows PROVE Spec => []TypeOK
    OBVIOUS
  <1>1. IInv => TypeOK
    BY DEF IInv, Shape
  <1> QED BY <1>1, Invariance, PTL

\* However many sign-ups race, in whatever spellings and however they are cut
\* short: an account has its name and a claimed name has an account, is about to
\* get one, or was left by a call that was cut short (redis.ts:82-95).
THEOREM NamesAgree == SeedsAreRows => (Spec => []NamesAndAccountsAgree)
  <1> SUFFICES ASSUME SeedsAreRows PROVE Spec => []NamesAndAccountsAgree
    OBVIOUS
  <1>1. IInv => NamesAndAccountsAgree
    BY DEF IInv, AccountsInv
  <1> QED BY <1>1, Invariance, PTL

\* However many calls create, update, remove and list passkeys at once: a stored
\* passkey that is in no list was removed, or its creation was cut short
\* (redis.ts:97-137).
THEOREM OnlyCutsStrand == SeedsAreRows => (Spec => []OnlyCutCallsStrand)
  <1> SUFFICES ASSUME SeedsAreRows PROVE Spec => []OnlyCutCallsStrand
    OBVIOUS
  <1>1. IInv => OnlyCutCallsStrand
    BY DEF IInv, PasskeysInv, ListedInv, OnlyCutCallsStrand
  <1> QED BY <1>1, Invariance, PTL

\* A list of any length, read among any other calls, has what was there all the
\* time and nothing that never was (redis.ts:108-116).
THEOREM ListsAreSound == SeedsAreRows => (Spec => []ListIsSound)
  <1> SUFFICES ASSUME SeedsAreRows PROVE Spec => []ListIsSound
    OBVIOUS
  <1>1. IInv => ListIsSound
    <2> SUFFICES ASSUME IInv, NEW c \in Clients, At(c, "read"), call[c].left = {}
                 PROVE  throughout[c] \subseteq call[c].found /\ call[c].found \subseteq meanwhile[c]
      BY DEF ListIsSound
    <2>1. throughout[c] \subseteq call[c].left \cup call[c].found /\ call[c].found \subseteq meanwhile[c]
      BY DEF IInv, ListInv
    <2> QED BY <2>1
  <1> QED BY <1>1, Invariance, PTL

\* However many calls ask for a challenge, with whichever client library and
\* however late they judge it, one gets it (redis.ts:144-161).
THEOREM TakenOnce == SeedsAreRows => (Spec => []HandedOutOnce)
  <1> SUFFICES ASSUME SeedsAreRows PROVE Spec => []HandedOutOnce
    OBVIOUS
  <1>1. IInv => HandedOutOnce
    BY DEF IInv, ChallengesInv
  <1> QED BY <1>1, Invariance, PTL

\* Whatever the lifetime and however fine the clock: Redis drops no challenge that
\* is still good (redis.ts:139).
THEOREM KeysOutlive == SeedsAreRows => (Spec => []KeyOutlivesChallenge)
  <1> SUFFICES ASSUME SeedsAreRows PROVE Spec => []KeyOutlivesChallenge
    OBVIOUS
  <1>1. IInv => KeyOutlivesChallenge
    <2> SUFFICES ASSUME IInv, NEW h \in Challenges, pending[h] # None, now <= pending[h].expiresAt
                 PROVE  Live(h) # None
      BY DEF KeyOutlivesChallenge
    <2>1. pending[h].expiresAt <= pending[h].until
      BY DEF IInv, LifetimeInv
    <2>2. pending[h].expiresAt \in Int /\ pending[h].until \in Int /\ now \in Int
      BY DEF IInv, Shape, TypeOK, Expiry
    <2>3. ~(now > pending[h].until)
      BY <2>1, <2>2
    <2> QED BY <2>3 DEF Live
  <1> QED BY <1>1, Invariance, PTL

----------------------------------------------------------------------------
(* A database beside MemoryStore                                           *)

\* The stores whose unique index folds names as their lookup does, and that have
\* one on ids: Postgres, SQLite, and MongoDB set up as its documentation asks.
FoldingStores == {"postgres", "sqlite", "mongoKeys"}

\* The two databases never differ, nor did the last two answers.
AInv ==
  /\ subject \in Subjects
  /\ memory = database
  /\ answers[1] = answers[2]

\* What the traits of these stores are.
LEMMA FoldingTraits ==
  ASSUME NEW s \in FoldingStores, NEW db, NEW c
  PROVE  \E t : /\ A!RunOn(s, db, c) = A!Run(t, db, c)
                /\ t.index = "folded" /\ t.lookup = "folded" /\ t.userIds /\ t.credIds
                /\ t.emptyUpdate = "returns"
  <1>1. CASE s \in {"postgres", "sqlite"}
    <2>1. A!RunOn(s, db, c) = A!Run(A!SqlTraits, db, c)
      BY <1>1 DEF A!RunOn, A!Postgres, A!Sqlite
    <2> QED BY <2>1 DEF A!SqlTraits
  <1>2. CASE s = "mongoKeys"
    <2>1. A!RunOn(s, db, c) = A!Run(A!MongoTraits(TRUE), db, c)
      BY <1>2 DEF A!RunOn, A!Mongo
    <2>2. /\ A!MongoTraits(TRUE).index = "folded" /\ A!MongoTraits(TRUE).lookup = "folded"
          /\ A!MongoTraits(TRUE).emptyUpdate = "returns"
      BY DEF A!MongoTraits, A!SqlTraits
    <2>3. A!MongoTraits(TRUE).userIds /\ A!MongoTraits(TRUE).credIds
      BY DEF A!MongoTraits, A!SqlTraits
    <2> QED BY <2>1, <2>2, <2>3
  <1> QED BY <1>1, <1>2 DEF FoldingStores

\* A call the server may make: ids of accounts are new, owners exist, and an
\* update changes something.
Legal(db, c) ==
  /\ c.op = "createUser" => \A u \in db.users : u.id # c.id
  /\ c.op = "createCredential" => \E u \in db.users : u.id = c.row.owner
  /\ c.op = "updateCredential" => DOMAIN c.changes # {}

\* On one database, a legal call does at such a store what it does at MemoryStore.
LEMMA SameOnOne ==
  ASSUME NEW s \in FoldingStores, NEW db, NEW c, Legal(db, c)
  PROVE  A!RunOn(s, db, c) = A!RunOn("memory", db, c)
  <1> DEFINE m == A!MemoryTraits
  <1>1. PICK t : /\ A!RunOn(s, db, c) = A!Run(t, db, c)
                 /\ t.index = "folded" /\ t.lookup = "folded" /\ t.userIds /\ t.credIds
                 /\ t.emptyUpdate = "returns"
    BY FoldingTraits
  <1>2. /\ m.index = "folded" /\ m.lookup = "folded" /\ ~m.userIds /\ m.credIds
        /\ ~m.owners /\ m.emptyUpdate = "looks"
    BY DEF A!MemoryTraits
  <1>3. A!RunOn("memory", db, c) = A!Run(m, db, c)
    BY DEF A!RunOn
  <1> HIDE DEF m
  <1>4. A!GetUserByUsername(t, db, c) = A!GetUserByUsername(m, db, c)
    BY <1>1, <1>2 DEF A!GetUserByUsername, A!Named
  <1>5. c.op = "createUser" => A!CreateUser(t, db, c) = A!CreateUser(m, db, c)
    <2> SUFFICES ASSUME \A u \in db.users : u.id # c.id PROVE A!CreateUser(t, db, c) = A!CreateUser(m, db, c)
      BY DEF Legal
    <2>1. {u \in db.users : u.id # c.id} = db.users
      OBVIOUS
    <2>2. (\E u \in db.users : A!SameName(t.index, u.name, c.name) \/ (t.userIds /\ u.id = c.id))
          <=> (\E u \in db.users : A!SameName(m.index, u.name, c.name) \/ (m.userIds /\ u.id = c.id))
      BY <1>1, <1>2
    <2> QED BY <1>1, <1>2, <2>1, <2>2 DEF A!CreateUser
  <1>6. c.op = "createCredential" => A!CreateCredential(t, db, c) = A!CreateCredential(m, db, c)
    BY <1>1, <1>2 DEF A!CreateCredential, Legal
  <1>7. c.op = "updateCredential" => A!UpdateCredential(t, db, c) = A!UpdateCredential(m, db, c)
    BY <1>1, <1>2 DEF A!UpdateCredential, Legal
  <1>8. /\ A!GetUserById(t, db, c) = A!GetUserById(m, db, c)
        /\ A!GetCredentialById(t, db, c) = A!GetCredentialById(m, db, c)
        /\ A!ListCredentialsByUserId(t, db, c) = A!ListCredentialsByUserId(m, db, c)
        /\ A!DeleteCredential(t, db, c) = A!DeleteCredential(m, db, c)
        /\ A!SaveChallenge(t, db, c) = A!SaveChallenge(m, db, c)
        /\ A!TakeChallenge(t, db, c) = A!TakeChallenge(m, db, c)
        /\ A!DeleteExpiredChallenges(t, db, c) = A!DeleteExpiredChallenges(m, db, c)
    BY DEF A!GetUserById, A!GetCredentialById, A!ListCredentialsByUserId, A!DeleteCredential,
           A!SaveChallenge, A!TakeChallenge, A!DeleteExpiredChallenges
  <1>9. A!Run(t, db, c) = A!Run(m, db, c)
    BY <1>4, <1>5, <1>6, <1>7, <1>8 DEF A!Run
  <1> QED BY <1>1, <1>3, <1>9

\* A legal call leaves the two databases and the two answers the same.
LEMMA CallAgrees ==
  ASSUME Subjects \subseteq FoldingStores, AInv, NEW c, Legal(memory, c), A!Call(c)
  PROVE  AInv'
  <1>1. A!RunOn(subject, database, c) = A!RunOn("memory", memory, c)
    BY SameOnOne DEF AInv
  <1>2. /\ database' = A!RunOn(subject, database, c).db /\ memory' = A!RunOn("memory", memory, c).db
        /\ answers' = <<A!RunOn(subject, database, c).reply, A!RunOn("memory", memory, c).reply>>
        /\ subject' = subject
    BY DEF A!Call
  <1>3. answers'[1] = answers'[2]
    BY <1>1, <1>2
  <1> QED BY <1>1, <1>2, <1>3 DEF AInv

\* Every step is a legal call.
LEMMA StepAgrees ==
  ASSUME Subjects \subseteq FoldingStores, AInv, [A!Next]_(A!vars)
  PROVE  AInv'
  <1>1. CASE A!Accounts
    <2>1. ASSUME NEW u \in UserIds, NEW n \in Usernames, ~A!Known(u), A!Call([op |-> "createUser", id |-> u, name |-> n])
          PROVE  AInv'
      <3>1. Legal(memory, [op |-> "createUser", id |-> u, name |-> n])
        BY <2>1 DEF Legal, A!Known
      <3> QED BY <2>1, <3>1, CallAgrees
    <2>2. ASSUME NEW n \in Usernames, A!Call([op |-> "getUserByUsername", name |-> n]) PROVE AInv'
      <3>1. Legal(memory, [op |-> "getUserByUsername", name |-> n])
        BY DEF Legal
      <3> QED BY <2>2, <3>1, CallAgrees
    <2>3. ASSUME NEW u \in UserIds, A!Call([op |-> "getUserById", id |-> u]) PROVE AInv'
      <3>1. Legal(memory, [op |-> "getUserById", id |-> u])
        BY DEF Legal
      <3> QED BY <2>3, <3>1, CallAgrees
    <2> QED BY <1>1, <2>1, <2>2, <2>3 DEF A!Accounts
  <1>2. CASE A!Credentials
    <2>1. ASSUME NEW k \in CredIds, NEW u \in UserIds, A!Known(u),
                 A!Call([op |-> "createCredential", row |-> A!NewRow(k, u)])
          PROVE  AInv'
      <3>1. Legal(memory, [op |-> "createCredential", row |-> A!NewRow(k, u)])
        BY <2>1 DEF Legal, A!Known, A!NewRow
      <3> QED BY <2>1, <3>1, CallAgrees
    <2>2. ASSUME NEW k \in CredIds, NEW op \in {"getCredentialById", "deleteCredential"},
                 A!Call([op |-> op, id |-> k])
          PROVE  AInv'
      <3>1. Legal(memory, [op |-> op, id |-> k])
        BY DEF Legal
      <3> QED BY <2>2, <3>1, CallAgrees
    <2>3. ASSUME NEW u \in UserIds, A!Call([op |-> "listCredentialsByUserId", id |-> u]) PROVE AInv'
      <3>1. Legal(memory, [op |-> "listCredentialsByUserId", id |-> u])
        BY DEF Legal
      <3> QED BY <2>3, <3>1, CallAgrees
    <2>4. ASSUME NEW k \in CredIds, NEW changes \in A!Changes,
                 A!Call([op |-> "updateCredential", id |-> k, changes |-> changes])
          PROVE  AInv'
      <3>1. DOMAIN changes # {}
        BY <2>4 DEF A!Changes
      <3>2. Legal(memory, [op |-> "updateCredential", id |-> k, changes |-> changes])
        BY <3>1 DEF Legal
      <3> QED BY <2>4, <3>2, CallAgrees
    <2> QED BY <1>2, <2>1, <2>2, <2>3, <2>4 DEF A!Credentials
  <1>3. CASE A!Ceremonies
    <2>1. ASSUME NEW c, c.op \in {"saveChallenge", "takeChallenge", "deleteExpiredChallenges"}, A!Call(c)
          PROVE  AInv'
      <3>1. Legal(memory, c)
        BY <2>1 DEF Legal
      <3> QED BY <2>1, <3>1, CallAgrees
    <2>2. CASE \E h \in Challenges, life \in {-1, 1} :
                 A!Call([op |-> "saveChallenge", row |-> [challenge |-> h, expiresAt |-> Instant + life]])
      BY <2>1, <2>2
    <2>3. CASE \E h \in Challenges : A!Call([op |-> "takeChallenge", challenge |-> h])
      BY <2>1, <2>3
    <2>4. CASE A!Call([op |-> "deleteExpiredChallenges"])
      BY <2>1, <2>4
    <2> QED BY <1>3, <2>2, <2>3, <2>4 DEF A!Ceremonies
  <1>4. CASE UNCHANGED A!vars
    BY <1>4 DEF A!vars, AInv
  <1> QED BY <1>1, <1>2, <1>3, <1>4 DEF A!Next

\* However many calls a server makes, of whichever accounts, passkeys and
\* challenges: Postgres, SQLite and MongoDB with its ids indexed answer each as
\* MemoryStore does (stores/postgres.ts, sqlite.ts, mongodb.ts).
THEOREM DatabasesAnswerAsMemory ==
  Subjects \subseteq FoldingStores => (A!Spec => []AnswersAsMemoryStore)
  <1> SUFFICES ASSUME Subjects \subseteq FoldingStores PROVE A!Spec => []AnswersAsMemoryStore
    OBVIOUS
  <1>1. A!Init => AInv
    BY DEF A!Init, AInv
  <1>2. AInv /\ [A!Next]_(A!vars) => AInv'
    BY StepAgrees
  <1>3. AInv => AnswersAsMemoryStore
    BY DEF AInv, AnswersAsMemoryStore, A!AnswersAsMemoryStore
  <1> QED BY <1>1, <1>2, <1>3, PTL DEF A!Spec
=============================================================================
