----------------------------- MODULE RedisStore -----------------------------
(***************************************************************************)
(* The store over Redis (function redisStore).  An operation of the        *)
(* contract is a sequence of Redis commands; a command is atomic, and      *)
(* between two commands of one call every other client may run its own.   *)
(* A call can be cut short between two of its commands, by a lost          *)
(* connection or a process that dies: what it wrote before stays.          *)
(* The first command is part of the action that starts a call.  A call     *)
(* that is refused at its first command, or only reads one key, changes    *)
(* nothing and is no step.                                                 *)
(***************************************************************************)
EXTENDS Integers, FiniteSets, TLC

CONSTANTS
  Clients,         \* calls that can be under way at once
  UserIds, Usernames,
  Lower,           \* Lower[n]: n in lower case
  CredIds, Nicknames, MaxCount,
  Challenges,
  Lifetimes,       \* how long a saved challenge may be meant to live, in ticks
  TicksPerSecond,  \* Redis counts an expiry given with EX in whole seconds
  MaxTime,
  ReplyShape,      \* how the client library answers a take: see TakeReply
  Seeds,           \* the credentials there may be at first
  Ops,             \* which operations are called in this instance
  Faults,          \* whether calls may be cut short
  None

ASSUME RedisAssumption ==
  /\ DOMAIN Lower = Usernames
  /\ Lifetimes \subseteq Int
  /\ TicksPerSecond \in Nat \ {0}
  /\ MaxTime \in Nat /\ MaxCount \in Nat
  /\ ReplyShape \in {"getdel", "pairs", "plain", "neither"}
  /\ Faults \in BOOLEAN
  /\ None \notin UserIds \cup Usernames \cup Int

VARIABLES
  now,
  users,      \* user:<id>, the account's JSON, here its username
  names,      \* username:<lower case>, the id of the account that has the name
  creds,      \* cred:<id>
  members,    \* user:<id>:creds, a set of credential ids
  pending,    \* challenge:<challenge> with the time its key expires at
  call,       \* call[c]: what client c keeps between two commands
  throughout, \* throughout[c]: stored and listed ever since c's list began
  meanwhile,  \* meanwhile[c]: stored at some moment since
  saved,      \* history: the expiry every challenge was saved with
  handedOut,  \* history: how often takeChallenge answered with a challenge
  revoked,    \* history: credentials that were deleted
  cut         \* history: the accounts and credentials a call was cut short at

accounts == <<users, names>>
passkeys == <<creds, members, throughout, meanwhile, revoked>>
challenges == <<pending, saved, handedOut>>
vars == <<now, accounts, passkeys, challenges, call, cut>>

Keys == {Lower[n] : n \in Usernames}
Row == [owner : UserIds, counter : 0 .. MaxCount, nickname : Nicknames \cup {None}]
Expiry == [expiresAt : Int, until : Int]
ASSUME RowsAreSome == None \notin Row \cup Expiry
Stored(k) == creds[k] # None
Idle == [at |-> "idle"]
At(c, where) == call[c].at = where
Then(c, next) == call' = [call EXCEPT ![c] = next]
Begins(c, op) == At(c, "idle") /\ op \in Ops
Ends(c) == Then(c, Idle)

Calls ==
  {Idle}
  \cup [at : {"setUser"}, user : UserIds, name : Usernames]
  \cup [at : {"addMember"}, cred : CredIds, user : UserIds]
  \cup [at : {"setCred"}, cred : CredIds, row : Row, field : {"counter"}, value : 0 .. MaxCount]
  \cup [at : {"setCred"}, cred : CredIds, row : Row, field : {"nickname"}, value : Nicknames]
  \cup [at : {"delCred", "remMember"}, cred : CredIds, user : UserIds]
  \cup [at : {"read"}, user : UserIds, left : SUBSET CredIds, found : SUBSET CredIds]
  \cup [at : {"setChallenge"}, chal : Challenges, expiresAt : Int, ttl : Int]
  \cup [at : {"judge"}, chal : Challenges, raw : Expiry]

\* Every variable keeps to its type; a call keeps what its next command needs.
TypeOK ==
  /\ now \in 0 .. MaxTime
  /\ users \in [UserIds -> Usernames \cup {None}]
  /\ names \in [Keys -> UserIds \cup {None}]
  /\ creds \in [CredIds -> Row \cup {None}]
  /\ members \in [UserIds -> SUBSET CredIds]
  /\ pending \in [Challenges -> {None} \cup Expiry]
  /\ call \in [Clients -> Calls]
  /\ revoked \subseteq CredIds

Init ==
  /\ now = 0
  /\ users = [u \in UserIds |-> None]
  /\ names = [n \in Keys |-> None]
  /\ creds \in Seeds
  /\ members = [u \in UserIds |-> {k \in CredIds : Stored(k) /\ creds[k].owner = u}]
  /\ pending = [h \in Challenges |-> None]
  /\ call = [c \in Clients |-> Idle]
  /\ throughout = [c \in Clients |-> {}] /\ meanwhile = [c \in Clients |-> {}]
  /\ saved = [h \in Challenges |-> None] /\ handedOut = [h \in Challenges |-> 0]
  /\ revoked = {} /\ cut = {}

-----------------------------------------------------------------------------
(***************************************************************************)
(* createUser: SETNX username:<name>, then SET user:<id>.                  *)
(***************************************************************************)
\* Variant: the name is set without NX, as if getUserByUsername were enough.
NameFreeToLookup(n) == IF names[Lower[n]] = None THEN TRUE ELSE users[names[Lower[n]]] = None

NameFree(n) == names[Lower[n]] = None

\* The id was minted for this account and is in no other call.
ClaimName(c, u, n) ==
  /\ Begins(c, "createUser")
  /\ users[u] = None /\ u \notin cut
  /\ \A d \in Clients : At(d, "setUser") => call[d].user # u
  /\ NameFree(n)
  /\ names' = [names EXCEPT ![Lower[n]] = u]
  /\ Then(c, [at |-> "setUser", user |-> u, name |-> n])
  /\ UNCHANGED <<now, users, passkeys, challenges, cut>>

WriteUser(c) ==
  /\ At(c, "setUser")
  /\ users' = [users EXCEPT ![call[c].user] = call[c].name]
  /\ Ends(c)
  /\ UNCHANGED <<now, names, passkeys, challenges, cut>>

-----------------------------------------------------------------------------
(***************************************************************************)
(* Credentials.                                                            *)
(***************************************************************************)
\* A row was written: the lists under way are owed what stayed, and may show
\* what was there at any time.
Witness(newCreds) ==
  LET there == {k \in CredIds : newCreds[k] # None}
  IN /\ throughout' = [c \in Clients |-> throughout[c] \cap there]
     /\ meanwhile' = [c \in Clients |-> IF At(c, "read") THEN meanwhile[c] \cup there ELSE {}]

SetCred(k, row) ==
  /\ creds' = [creds EXCEPT ![k] = row]
  /\ Witness(creds')

\* createCredential: SETNX cred:<id>, then SADD.  Authenticators mint no id
\* twice, so one that was deleted is not created again.
ClaimCredential(c, k, u) ==
  /\ Begins(c, "createCredential")
  /\ ~Stored(k) /\ k \notin revoked
  /\ SetCred(k, [owner |-> u, counter |-> 0, nickname |-> None])
  /\ Then(c, [at |-> "addMember", cred |-> k, user |-> u])
  /\ UNCHANGED <<now, accounts, members, revoked, challenges, cut>>

AddMember(c) ==
  /\ At(c, "addMember")
  /\ members' = [members EXCEPT ![call[c].user] = @ \cup {call[c].cred}]
  /\ Ends(c)
  /\ UNCHANGED <<now, accounts, creds, throughout, meanwhile, revoked, challenges, cut>>

\* updateCredential: GET, then SET of the whole row with the changes.
ReadForUpdate(c, k, field, value) ==
  /\ Begins(c, "updateCredential")
  /\ Stored(k)
  /\ Then(c, [at |-> "setCred", cred |-> k, row |-> creds[k], field |-> field, value |-> value])
  /\ UNCHANGED <<now, accounts, passkeys, challenges, cut>>

Updated(c) == [call[c].row EXCEPT ![call[c].field] = call[c].value]

WriteBack(c) ==
  /\ At(c, "setCred")
  /\ SetCred(call[c].cred, Updated(c))
  /\ Ends(c)
  /\ UNCHANGED <<now, accounts, members, revoked, challenges, cut>>

\* deleteCredential: GET for the owner, DEL, SREM.
ReadForDelete(c, k) ==
  /\ Begins(c, "deleteCredential")
  /\ Stored(k)
  /\ Then(c, [at |-> "delCred", cred |-> k, user |-> creds[k].owner])
  /\ UNCHANGED <<now, accounts, passkeys, challenges, cut>>

\* Variant: the row goes by its owner's set, so only what is listed goes.
DeleteCredIfListed(c) ==
  /\ At(c, "delCred")
  /\ call[c].cred \in members[call[c].user]
  /\ SetCred(call[c].cred, None)
  /\ members' = [members EXCEPT ![call[c].user] = {}]
  /\ revoked' = revoked \cup {call[c].cred}
  /\ Then(c, [call[c] EXCEPT !.at = "remMember"])
  /\ UNCHANGED <<now, accounts, challenges, cut>>

DeleteCred(c) ==
  /\ At(c, "delCred")
  /\ SetCred(call[c].cred, None)
  /\ revoked' = revoked \cup {call[c].cred}
  /\ Then(c, [call[c] EXCEPT !.at = "remMember"])
  /\ UNCHANGED <<now, accounts, members, challenges, cut>>

RemoveMember(c) ==
  /\ At(c, "remMember")
  /\ members' = [members EXCEPT ![call[c].user] = @ \ {call[c].cred}]
  /\ Ends(c)
  /\ UNCHANGED <<now, accounts, creds, throughout, meanwhile, revoked, challenges, cut>>

\* listCredentialsByUserId: SMEMBERS, then a GET for each member at once; a
\* member without a row is left out.
ListMembers(c, u) ==
  /\ Begins(c, "list")
  /\ Then(c, [at |-> "read", user |-> u, left |-> members[u], found |-> {}])
  /\ throughout' = [throughout EXCEPT ![c] = {k \in members[u] : Stored(k)}]
  /\ meanwhile' = [meanwhile EXCEPT ![c] = {k \in CredIds : Stored(k)}]
  /\ UNCHANGED <<now, accounts, creds, members, revoked, challenges, cut>>

\* Variant: the first member without a row ends the list.
FoundUntilGap(c, k) ==
  [call[c] EXCEPT !.left = IF Stored(k) THEN @ \ {k} ELSE {},
                  !.found = IF Stored(k) THEN @ \cup {k} ELSE @]

Found(c, k) ==
  [call[c] EXCEPT !.left = @ \ {k}, !.found = IF Stored(k) THEN @ \cup {k} ELSE @]

ReadMember(c, k) ==
  /\ At(c, "read") /\ k \in call[c].left
  /\ Then(c, Found(c, k))
  /\ UNCHANGED <<now, accounts, passkeys, challenges, cut>>

EndList(c) ==
  /\ At(c, "read") /\ call[c].left = {}
  /\ Ends(c)
  /\ throughout' = [throughout EXCEPT ![c] = {}]
  /\ meanwhile' = [meanwhile EXCEPT ![c] = {}]
  /\ UNCHANGED <<now, accounts, creds, members, revoked, challenges, cut>>

-----------------------------------------------------------------------------
(***************************************************************************)
(* Challenges.  Redis itself drops a key once its time to live has passed. *)
(***************************************************************************)
AtLeastOne(n) == IF n < 1 THEN 1 ELSE n

\* Variant: rounded down.
SecondsDown(ticks) == AtLeastOne(ticks \div TicksPerSecond)

Seconds(ticks) == AtLeastOne((ticks + TicksPerSecond - 1) \div TicksPerSecond)

\* saveChallenge reads the clock for the time to live and then issues its SET.
ComputeLifetime(c, h, life) ==
  /\ Begins(c, "saveChallenge")
  /\ saved[h] = None /\ h \notin cut
  /\ \A d \in Clients : At(d, "setChallenge") => call[d].chal # h
  /\ Then(c, [at |-> "setChallenge", chal |-> h, expiresAt |-> now + life, ttl |-> Seconds(life)])
  /\ UNCHANGED <<now, accounts, passkeys, challenges, cut>>

WriteChallenge(c) ==
  /\ At(c, "setChallenge")
  /\ pending' = [pending EXCEPT ![call[c].chal] =
       [expiresAt |-> call[c].expiresAt, until |-> now + call[c].ttl * TicksPerSecond]]
  /\ saved' = [saved EXCEPT ![call[c].chal] = call[c].expiresAt]
  /\ Ends(c)
  /\ UNCHANGED <<now, accounts, passkeys, handedOut, cut>>

Live(h) == IF pending[h] # None /\ now > pending[h].until THEN None ELSE pending[h]

\* What GETDEL, or the EXEC of a transaction of GET and DEL, answers: ioredis
\* answers EXEC with pairs of error and value, node-redis with the values.
TakeReply(v) ==
  CASE ReplyShape = "getdel" -> v
    [] ReplyShape = "pairs" -> <<<<"noError", v>>, <<"noError", "deleted">>>>
    [] ReplyShape = "plain" -> <<v, "deleted">>

FirstReply(reply) ==
  CASE ReplyShape = "getdel" -> reply
    [] ReplyShape = "pairs" -> reply[1][2]
    [] ReplyShape = "plain" -> reply[1]

\* Variant: GET now, DEL once the challenge has been judged.
AfterGet(h) == pending

AfterGetDel(h) == [pending EXCEPT ![h] = None]

\* takeChallenge: a client with neither command is refused before any.
GetDel(c, h) ==
  /\ Begins(c, "takeChallenge")
  /\ ReplyShape # "neither"
  /\ saved[h] # None
  /\ LET raw == FirstReply(TakeReply(Live(h)))
     IN Then(c, IF raw = None THEN Idle ELSE [at |-> "judge", chal |-> h, raw |-> raw])
  /\ pending' = AfterGetDel(h)
  /\ UNCHANGED <<now, accounts, passkeys, saved, handedOut, cut>>

Judge(c) ==
  /\ At(c, "judge")
  /\ handedOut' = IF call[c].raw.expiresAt < now THEN handedOut
                  ELSE [handedOut EXCEPT ![call[c].chal] = @ + 1]
  /\ Ends(c)
  /\ UNCHANGED <<now, accounts, passkeys, pending, saved, cut>>

-----------------------------------------------------------------------------
\* The call ends where it is: what its record names is left half done.
CutShort(c) ==
  /\ Faults /\ ~At(c, "idle")
  /\ cut' = cut \cup {call[c][f] : f \in DOMAIN call[c] \cap {"user", "cred", "chal"}}
  /\ Ends(c)
  /\ UNCHANGED <<now, accounts, passkeys, challenges>>

Tick ==
  /\ now < MaxTime
  /\ now' = now + 1
  /\ UNCHANGED <<accounts, passkeys, challenges, call, cut>>

Next ==
  \/ \E c \in Clients :
       \/ \E u \in UserIds, n \in Usernames : ClaimName(c, u, n)
       \/ WriteUser(c)
       \/ \E k \in CredIds, u \in UserIds : ClaimCredential(c, k, u)
       \/ AddMember(c)
       \/ \E k \in CredIds, n \in 1 .. MaxCount : ReadForUpdate(c, k, "counter", n)
       \/ \E k \in CredIds, l \in Nicknames : ReadForUpdate(c, k, "nickname", l)
       \/ WriteBack(c)
       \/ \E k \in CredIds : ReadForDelete(c, k)
       \/ DeleteCred(c)
       \/ RemoveMember(c)
       \/ \E u \in UserIds : ListMembers(c, u)
       \/ \E k \in CredIds : ReadMember(c, k)
       \/ EndList(c)
       \/ \E h \in Challenges, life \in Lifetimes : ComputeLifetime(c, h, life)
       \/ WriteChallenge(c)
       \/ \E h \in Challenges : GetDel(c, h)
       \/ Judge(c)
       \/ CutShort(c)
  \/ Tick

Spec == Init /\ [][Next]_vars

-----------------------------------------------------------------------------
\* Calls that race for one name, in two spellings, make one account and the
\* name leads to it, whatever getUserByUsername said before; and a name that is
\* claimed has an account or is about to get one, unless a call was cut short
\* (redis.ts createUser: SETNX first, SET second).
NamesAndAccountsAgree ==
  /\ \A u \in UserIds : users[u] # None => names[Lower[users[u]]] = u
  /\ \A n \in Keys : names[n] # None =>
       \/ users[names[n]] # None
       \/ names[n] \in cut
       \/ \E c \in Clients : At(c, "setUser") /\ call[c].user = names[n]

\* A stored passkey that nobody removed is in its owner's list, or about to be,
\* unless a call was cut short (redis.ts createCredential: SETNX, then SADD).
OnlyCutCallsStrand ==
  \A k \in CredIds \ revoked : Stored(k) =>
    \/ k \in members[creds[k].owner]
    \/ k \in cut
    \/ \E c \in Clients : At(c, "addMember") /\ call[c].cred = k

\* A finished list has every passkey that was there all the time and none
\* that was not there at some time, though its rows were read one by one
\* (redis.ts:110).
ListIsSound ==
  \A c \in Clients : At(c, "read") /\ call[c].left = {} =>
    throughout[c] \subseteq call[c].found /\ call[c].found \subseteq meanwhile[c]

Judging(c, h) == At(c, "judge") /\ call[c].chal = h

\* takeChallenge answers with a challenge once, whoever else asks for it and
\* in whichever order the answers are judged.
HandedOutOnce ==
  \A h \in Challenges :
    /\ handedOut[h] <= 1
    /\ \A c \in Clients : Judging(c, h) => handedOut[h] = 0 /\ \A d \in Clients : Judging(d, h) => d = c

\* Redis never drops a challenge that is still good, although it counts in
\* whole seconds and the time to live was computed some time before the key
\* was written (redis.ts:139).
KeyOutlivesChallenge ==
  \A h \in Challenges : pending[h] # None /\ now <= pending[h].expiresAt => Live(h) # None
=============================================================================
