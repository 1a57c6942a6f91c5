--------------------------- MODULE StoreAgreement ---------------------------
(***************************************************************************)
(* A store and MemoryStore under the same calls, in the order the server   *)
(* may make them: accounts get ids of their own, owners exist, names are   *)
(* trimmed.  What the server is proved to do with MemoryStore's operations *)
(* (module PasskeyStore) it does with every store that answers the same.   *)
(***************************************************************************)
EXTENDS DatabaseStores

CONSTANTS Subjects, UserIds, Names, CredIds, Challenges, MaxCalls

VARIABLES subject, memory, database, answers, calls

vars == <<subject, memory, database, answers, calls>>

Init ==
  /\ subject \in Subjects
  /\ memory = EmptyDb /\ database = EmptyDb
  /\ answers = <<None, None>> /\ calls = 0

Call(c) ==
  /\ calls < MaxCalls
  /\ LET there == RunOn(subject, database, c)
         here == RunOn("memory", memory, c)
     IN /\ database' = there.db /\ memory' = here.db
        /\ answers' = <<there.reply, here.reply>>
  /\ calls' = calls + 1
  /\ UNCHANGED subject

Known(u) == \E v \in memory.users : v.id = u
NewRow(k, u) == [id |-> k, owner |-> u, created |-> calls, counter |-> 0, nickname |-> None]
Changes == {[counter |-> 1], [nickname |-> "laptop"]}

Accounts ==
  \/ \E u \in UserIds, n \in Names : ~Known(u) /\ Call([op |-> "createUser", id |-> u, name |-> n])
  \/ \E n \in Names : Call([op |-> "getUserByUsername", name |-> n])
  \/ \E u \in UserIds : Call([op |-> "getUserById", id |-> u])

Credentials ==
  \/ \E k \in CredIds, u \in UserIds :
       Known(u) /\ Call([op |-> "createCredential", row |-> NewRow(k, u)])
  \/ \E k \in CredIds, op \in {"getCredentialById", "deleteCredential"} : Call([op |-> op, id |-> k])
  \/ \E u \in UserIds : Call([op |-> "listCredentialsByUserId", id |-> u])
  \/ \E k \in CredIds, changes \in Changes :
       Call([op |-> "updateCredential", id |-> k, changes |-> changes])

Ceremonies ==
  \/ \E h \in Challenges, life \in {-1, 1} :
       Call([op |-> "saveChallenge", row |-> [challenge |-> h, expiresAt |-> Now + life]])
  \/ \E h \in Challenges : Call([op |-> "takeChallenge", challenge |-> h])
  \/ Call([op |-> "deleteExpiredChallenges"])

Next == Accounts \/ Credentials \/ Ceremonies

Spec == Init /\ [][Next]_vars

-----------------------------------------------------------------------------
\* Whatever was called before, the store answers a call as MemoryStore does
\* (stores/postgres.ts, sqlite.ts, prisma.ts, mongodb.ts).
AnswersAsMemoryStore == answers[1] = answers[2]
=============================================================================
