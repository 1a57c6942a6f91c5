--------------------------- MODULE DatabaseStores ---------------------------
(***************************************************************************)
(* The stores of stores/: Postgres, SQLite, Prisma and MongoDB, beside     *)
(* MemoryStore.  Each operation is one statement, so it is modelled as a   *)
(* function: from a database and a call to a database and a reply.  What   *)
(* the engines do differently are the traits of a store: which names the   *)
(* unique index and the lookup take for the same, which columns have a     *)
(* unique index at all, whether owners are foreign keys, and what an       *)
(* update without changes does.                                            *)
(***************************************************************************)
EXTENDS Integers, Sequences, FiniteSets, SequencesExt, TLC

CONSTANTS Fold,   \* Fold[n]: the name n in lower case, as lower() and the collation give it
          Now,    \* the clock: the stores of this module are called in one instant
          None

Refused(code) == [error |-> code]
EmptyDb == [users |-> {}, creds |-> <<>>, chals |-> {}]

\* Variant: the unique index of the schema is on the column as it is spelled.
SqlTraitsPlainIndex ==
  [index |-> "exact", lookup |-> "folded", userIds |-> TRUE, credIds |-> TRUE,
   owners |-> TRUE, emptyUpdate |-> "returns"]

\* The tables and indexes of stores/schema.ts.
SqlTraits ==
  [index |-> "folded", lookup |-> "folded", userIds |-> TRUE, credIds |-> TRUE,
   owners |-> TRUE, emptyUpdate |-> "returns"]

MemoryTraits ==
  [index |-> "folded", lookup |-> "folded", userIds |-> FALSE, credIds |-> TRUE,
   owners |-> FALSE, emptyUpdate |-> "looks"]

SameName(how, a, b) == IF how = "folded" THEN Fold[a] = Fold[b] ELSE a = b

-----------------------------------------------------------------------------
\* The accounts the lookup may answer with.
Named(t, db, name) == {u \in db.users : SameName(t.lookup, u.name, name)}

GetUserByUsername(t, db, c) ==
  [db |-> db, reply |-> IF Named(t, db, c.name) = {} THEN None
                        ELSE CHOOSE u \in Named(t, db, c.name) : TRUE]

GetUserById(t, db, c) ==
  LET found == {u \in db.users : u.id = c.id}
  IN [db |-> db, reply |-> IF found = {} THEN None ELSE CHOOSE u \in found : TRUE]

\* Any violation of a unique index is reported as a username that is taken.
CreateUser(t, db, c) ==
  LET user == [id |-> c.id, name |-> c.name]
      others == IF t.userIds THEN db.users ELSE {u \in db.users : u.id # c.id}
  IN IF \E u \in db.users : SameName(t.index, u.name, c.name) \/ (t.userIds /\ u.id = c.id)
     THEN [db |-> db, reply |-> Refused("credential_exists")]
     ELSE [db |-> [db EXCEPT !.users = others \cup {user}], reply |-> user]

\* A row comes back without the columns that are empty.
ToCredential(row) ==
  [f \in {x \in DOMAIN row : row[x] # None} |-> row[f]]

RowsWithId(db, id) == {i \in DOMAIN db.creds : db.creds[i].id = id}

CreateCredential(t, db, c) ==
  IF t.credIds /\ RowsWithId(db, c.row.id) # {}
  THEN [db |-> db, reply |-> Refused("credential_exists")]
  ELSE IF t.owners /\ ~\E u \in db.users : u.id = c.row.owner
  THEN [db |-> db, reply |-> Refused("foreign_key")]
  ELSE [db |-> [db EXCEPT !.creds = Append(@, c.row)], reply |-> None]

FirstRow(db, id) == CHOOSE i \in RowsWithId(db, id) : \A j \in RowsWithId(db, id) : i <= j

GetCredentialById(t, db, c) ==
  [db |-> db, reply |-> IF RowsWithId(db, c.id) = {} THEN None
                        ELSE ToCredential(db.creds[FirstRow(db, c.id)])]

\* Oldest first (no two are made in one instant here).
Older(a, b) == a.created < b.created

ListCredentialsByUserId(t, db, c) ==
  LET own == SortSeq(SelectSeq(db.creds, LAMBDA row : row.owner = c.id), Older)
  IN [db |-> db, reply |-> [i \in DOMAIN own |-> ToCredential(own[i])]]

\* Variant: the columns not given are cleared.
ChangedRowCleared(row, changes) ==
  [f \in DOMAIN row |-> IF f \in DOMAIN changes THEN changes[f]
                        ELSE IF f = "nickname" THEN None ELSE row[f]]

\* Only the columns given change; an empty change is no statement at all.
ChangedRow(row, changes) ==
  [f \in DOMAIN row |-> IF f \in DOMAIN changes THEN changes[f] ELSE row[f]]

UpdateCredential(t, db, c) ==
  IF DOMAIN c.changes = {} /\ t.emptyUpdate = "returns" THEN [db |-> db, reply |-> None]
  ELSE IF RowsWithId(db, c.id) = {} THEN [db |-> db, reply |-> Refused("unknown_credential")]
  ELSE LET i == FirstRow(db, c.id)
       IN [db |-> [db EXCEPT !.creds[i] = ChangedRow(@, c.changes)], reply |-> None]

DeleteCredential(t, db, c) ==
  [db |-> IF RowsWithId(db, c.id) = {} THEN db
          ELSE [db EXCEPT !.creds = RemoveAt(@, FirstRow(db, c.id))],
   reply |-> None]

-----------------------------------------------------------------------------
Saved(db, ch) == {h \in db.chals : h.challenge = ch}

\* An insert that replaces a row with the same challenge.
SaveChallenge(t, db, c) ==
  [db |-> [db EXCEPT !.chals = (@ \ Saved(db, c.row.challenge)) \cup {c.row}], reply |-> None]

AfterTake(db, ch) == [db EXCEPT !.chals = @ \ Saved(db, ch)]

\* Deleted either way: an expired challenge is spent, not reusable.
TakeChallenge(t, db, c) ==
  LET good == {h \in Saved(db, c.challenge) : h.expiresAt >= Now}
  IN [db |-> AfterTake(db, c.challenge),
      reply |-> IF good = {} THEN None ELSE CHOOSE h \in good : TRUE]

DeleteExpiredChallenges(t, db, c) ==
  [db |-> [db EXCEPT !.chals = {h \in @ : h.expiresAt >= Now}], reply |-> None]

\* One call of the contract, by its name.
Run(t, db, c) ==
  CASE c.op = "getUserByUsername" -> GetUserByUsername(t, db, c)
    [] c.op = "getUserById" -> GetUserById(t, db, c)
    [] c.op = "createUser" -> CreateUser(t, db, c)
    [] c.op = "createCredential" -> CreateCredential(t, db, c)
    [] c.op = "getCredentialById" -> GetCredentialById(t, db, c)
    [] c.op = "listCredentialsByUserId" -> ListCredentialsByUserId(t, db, c)
    [] c.op = "updateCredential" -> UpdateCredential(t, db, c)
    [] c.op = "deleteCredential" -> DeleteCredential(t, db, c)
    [] c.op = "saveChallenge" -> SaveChallenge(t, db, c)
    [] c.op = "takeChallenge" -> TakeChallenge(t, db, c)
    [] c.op = "deleteExpiredChallenges" -> DeleteExpiredChallenges(t, db, c)

-----------------------------------------------------------------------------
(***************************************************************************)
(* The stores.                                                             *)
(***************************************************************************)
Postgres(db, c) == Run(SqlTraits, db, c)

Sqlite(db, c) == Run(SqlTraits, db, c)

\* The unique index of the Prisma schema is on the username as it is spelled.
\* Lookups fold only where mode: 'insensitive' is supported, on Postgres.
PrismaTraits(lookup) == [SqlTraits EXCEPT !.index = "exact", !.lookup = lookup]
Prisma(lookup, db, c) == Run(PrismaTraits(lookup), db, c)

\* The documented indexes are on usernames, owners and expiry, not on ids.
MongoTraits(idsIndexed) ==
  [SqlTraits EXCEPT !.userIds = idsIndexed, !.credIds = idsIndexed, !.owners = FALSE]
Mongo(idsIndexed, db, c) == Run(MongoTraits(idsIndexed), db, c)

RunOn(store, db, c) ==
  CASE store = "memory" -> Run(MemoryTraits, db, c)
    [] store = "postgres" -> Postgres(db, c)
    [] store = "sqlite" -> Sqlite(db, c)
    [] store = "prismaPg" -> Prisma("folded", db, c)
    [] store = "prisma" -> Prisma("exact", db, c)
    [] store = "mongo" -> Mongo(FALSE, db, c)
    [] store = "mongoKeys" -> Mongo(TRUE, db, c)
=============================================================================
