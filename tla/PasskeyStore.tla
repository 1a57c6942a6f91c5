---------------------------- MODULE PasskeyStore ----------------------------
(***************************************************************************)
(* The storage contract of passkify (interface PasskeyStore) with the      *)
(* behaviour of the in-memory implementation (class MemoryStore): three    *)
(* tables and the operations on them.  Every operation is one atomic step, *)
(* which is what one JavaScript turn of MemoryStore is and what one        *)
(* statement of the SQL stores is.  The order in which the server calls    *)
(* the operations, and what may happen between two calls, is in module     *)
(* PasskeyServer.                                                          *)
(***************************************************************************)
EXTENDS Naturals, FiniteSets

CONSTANTS
  UserIds,           \* user handles randomUUID() may mint
  Usernames,         \* usernames as visitors type them
  NameKey,           \* NameKey[n]: n trimmed and lower-cased
  CredIds,           \* credential ids authenticators may mint
  Challenges,        \* challenges randomBytes() may mint
  Nicknames,         \* labels a user may give a passkey
  MaxCount,          \* bound on an authenticator's signature counter
  ChallengeTimeout,  \* config.challengeTimeout, in clock ticks
  MaxTime,           \* bound on the clock
  None               \* null: no row, no value

ASSUME NameKeyAssumption == DOMAIN NameKey = Usernames

ASSUME BoundAssumption ==
  /\ MaxCount \in Nat
  /\ ChallengeTimeout \in Nat
  /\ MaxTime \in Nat

VARIABLES
  now,         \* the clock expiry is measured by
  users,       \* users[u]: the username of account u, None when there is none
  creds,       \* creds[k]: the stored row of credential k, None when absent
  challenges   \* challenges[c]: the pending row of challenge c, None when absent

tables == <<users, creds, challenges>>

Kinds == {"registration", "authentication"}

UserCell == Usernames \cup {None}

\* The columns that decide an outcome; key material, transports, AAGUID,
\* device type and dates are carried along unread.
CredRow == [owner : UserIds, counter : 0 .. MaxCount, nickname : Nicknames \cup {None}]

ChallengeRow == [kind : Kinds,
                 user : UserIds \cup {None},
                 expiresAt : 0 .. MaxTime + ChallengeTimeout,
                 name : Usernames \cup {None},
                 isNew : BOOLEAN,
                 uv : BOOLEAN]

ASSUME NoneAssumption ==
  /\ None \notin UserIds /\ None \notin Usernames /\ None \notin CredIds
  /\ None \notin Challenges /\ None \notin Nicknames
  /\ None \notin CredRow /\ None \notin ChallengeRow

StoreTypeOK ==
  /\ now \in 0 .. MaxTime
  /\ users \in [UserIds -> UserCell]
  /\ creds \in [CredIds -> CredRow \cup {None}]
  /\ challenges \in [Challenges -> ChallengeRow \cup {None}]

-----------------------------------------------------------------------------
(***************************************************************************)
(* Accounts.                                                               *)
(***************************************************************************)
HasAccount(u) == users[u] # None

\* The accounts getUserByUsername(n) may answer with.
AccountsNamed(n) == {u \in UserIds : HasAccount(u) /\ NameKey[users[u]] = NameKey[n]}

\* Variant: the unique index compares the spelling (a case-sensitive column).
NameTakenAsSpelled(n) == \E u \in UserIds : users[u] = n

\* Variant: a name also counts as taken while some sign-up for it is pending.
NameTakenOrPending(n) ==
  \/ AccountsNamed(n) # {}
  \/ \E c \in Challenges : /\ challenges[c] # None
                           /\ challenges[c].name # None
                           /\ NameKey[challenges[c].name] = NameKey[n]

NameTaken(n) == AccountsNamed(n) # {}

\* Variant: the account gets an id of the database's own making.
CreateUserUnderOwnId(u, n) ==
  /\ \E v \in UserIds \ {u} : users' = [users EXCEPT ![v] = n]
  /\ UNCHANGED <<creds, challenges>>

\* Variant: id and username swap columns.
CreateUserSwapped(u, n) ==
  /\ users' = [users EXCEPT ![u] = u]
  /\ UNCHANGED <<creds, challenges>>

\* createUser once the username was found free.
CreateUser(u, n) ==
  /\ users' = [users EXCEPT ![u] = n]
  /\ UNCHANGED <<creds, challenges>>

(***************************************************************************)
(* Credentials.                                                            *)
(***************************************************************************)
Stored(k) == creds[k] # None

CredentialsOf(u) == {k \in CredIds : Stored(k) /\ creds[k].owner = u}

PutCredential(k, row) ==
  /\ creds' = [creds EXCEPT ![k] = row]
  /\ UNCHANGED <<users, challenges>>

\* Variant: the store counts logins instead of keeping the presented counter.
UpdateCounterByOne(k, n) == PutCredential(k, [creds[k] EXCEPT !.counter = @ + 1])

\* updateCredential on a row that is there: only the named columns change.
UpdateCounter(k, n) == PutCredential(k, [creds[k] EXCEPT !.counter = n])
UpdateNickname(k, label) == PutCredential(k, [creds[k] EXCEPT !.nickname = label])

\* deleteCredential: idempotent.
DeleteCredential(k) == PutCredential(k, None)

(***************************************************************************)
(* Challenges.                                                             *)
(***************************************************************************)
Expired(c) == challenges[c] # None /\ challenges[c].expiresAt < now

\* saveChallenge sweeps the expired rows, then inserts.
SaveChallenge(c, row) ==
  /\ challenges' = [d \in Challenges |->
                      IF d = c THEN row ELSE IF Expired(d) THEN None ELSE challenges[d]]
  /\ UNCHANGED <<users, creds>>

\* Variant: expiry is left to the sweep.
TakenThoughExpired(c) == challenges[c]

\* What takeChallenge(c) answers: null for a missing and for an expired row.
Taken(c) == IF Expired(c) THEN None ELSE challenges[c]

\* Variant: the row is read, and deleted some other time.
TakeChallengeKeepsRow(c) == UNCHANGED <<users, creds, challenges>> /\ c \in Challenges

\* takeChallenge deletes the row whatever it answers.
TakeChallenge(c) ==
  /\ challenges' = [challenges EXCEPT ![c] = None]
  /\ UNCHANGED <<users, creds>>

=============================================================================
