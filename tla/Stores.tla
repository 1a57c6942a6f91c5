------------------------------- MODULE Stores -------------------------------
(***************************************************************************)
(* The stores side by side: a Redis store, and a database store under the  *)
(* calls of a server beside MemoryStore.                                   *)
(***************************************************************************)
EXTENDS RedisStore

CONSTANTS
  Instant,      \* the clock of the database stores
  Subjects,     \* the database stores compared, by their names in RunOn
  MaxCalls      \* calls to them are cut off here

ASSUME StoresAssumption == Instant \in Int /\ MaxCalls \in Nat

VARIABLES subject, memory, database, answers, calls     \* of StoreAgreement

A == INSTANCE StoreAgreement WITH Fold <- Lower, Now <- Instant, Names <- Usernames

\* A store over a database answers the calls of a server as MemoryStore does
\* (StoreAgreement: stores/postgres.ts, sqlite.ts, mongodb.ts).
AnswersAsMemoryStore == A!AnswersAsMemoryStore
=============================================================================
