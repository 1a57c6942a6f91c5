------------------------------ MODULE MCStores ------------------------------
(***************************************************************************)
(* The stores on small instances.  A behaviour is one workload: sign-ups,  *)
(* passkeys or challenges at a Redis store, a database store beside        *)
(* MemoryStore, or a case of the conformance kit.                          *)
(***************************************************************************)
EXTENDS Stores

CONSTANTS Workloads, u1, u2, k1, k2, ana, AnaCaps, ben, laptop

VARIABLES
  work,                                          \* the workload
  store, flaw, case, db, replies, open, verdict  \* of StoreConformance

agreement == <<subject, memory, database, answers, calls>>
kit == <<store, flaw, case, db, replies, open, verdict>>

Folded == "Ada" :> "ada" @@ "ada" :> "ada" @@ "ben" :> "ben" @@ "bob" :> "bob" @@ "odd" :> "odd" @@ "x" :> "x"

\* keepsExpired stays away: the case for it does not look whether the row is gone.
K == INSTANCE StoreConformance WITH
       Fold <- Folded, Now <- Instant, subject <- store,
       Flaws <- {"readThenDelete", "inventsIds", "overwrites", "returnsExpired", "silentMiss", "wholeRow",
                 "narrowCounter", "listsEverybody", "stringBooleans", "stringDates", "keepsTaken", "checkThenInsert"},
       StoresUnderTest <- {"memory", "postgres", "sqlite", "prismaPg", "prisma", "mongoKeys"},
       Skipped <- {"hostileKey"}, CounterTop <- 255, Callers <- 3

-----------------------------------------------------------------------------
MCLower == [n \in Usernames |-> IF n = AnaCaps THEN ana ELSE n]
NoPasskeys == [k \in CredIds |-> None]
OnePasskey == [NoPasskeys EXCEPT ![k1] = [owner |-> u1, counter |-> 0, nickname |-> None]]
MCSeeds == {NoPasskeys, OnePasskey}

\* In time, expired as it is saved, and for less and more than a second.
SomeLifetimes == {-1, 1, 3}
Symmetry == Permutations(Clients)

\* The workloads of the Redis store, by the first step of the calls they make:
\* passkeys are those of one account, and renamed beside removals only.
RedisWork == {"accounts", "passkeys", "renames", "challenges"}
Makes(step) ==
  CASE work = "accounts"   -> step.at = "setUser"
    [] work = "passkeys"   -> IF step.at = "setCred" THEN step.field = "counter"
                              ELSE step.at \in {"addMember", "delCred", "read"} /\ step.user = u1
    [] work = "renames"    -> step.at \in {"setCred", "delCred"}
    [] work = "challenges" -> step.at \in {"setChallenge", "judge"}

RedisStep ==
  /\ Next
  /\ work # "challenges" => now' = now
  /\ \A c \in Clients : At(c, "idle") /\ call'[c] # Idle => Makes(call'[c])
  /\ work = "passkeys" => Cardinality({c \in Clients : call'[c] # Idle}) <= 2

MCInit ==
  /\ work \in Workloads
  /\ Init /\ creds = (IF work \in {"passkeys", "renames"} THEN OnePasskey ELSE NoPasskeys)
  /\ A!Init /\ (work = "agreement" \/ subject = "sqlite")
  /\ K!Init /\ (work = "kit" \/ (store = "memory" /\ flaw = None /\ case = "hostileKey"))

MCNext ==
  /\ UNCHANGED work
  /\ \/ work \in RedisWork /\ RedisStep /\ UNCHANGED <<agreement, kit>>
     \/ work = "agreement" /\ A!Next /\ UNCHANGED <<vars, kit>>
     \/ work = "kit" /\ K!Next /\ UNCHANGED <<vars, agreement>>

MCSpec == MCInit /\ [][MCNext]_<<work, vars, agreement, kit>>

-----------------------------------------------------------------------------
\* Refuted.  listCredentialsByUserId answers with every credential belonging to
\* the account: when nothing is under way, what is stored is in its owner's set
\* (store.ts:101; redis.ts:124-128 writes a removed row back).
EveryCredentialIsListed ==
  (\A c \in Clients : At(c, "idle")) =>
    \A k \in CredIds : Stored(k) => k \in members[creds[k].owner]

\* The conformance kit passes the stores that ship, catches the mistakes it exists
\* for, races among them, and cleans up after every case
\* (conformance/index.ts:113-460, 510-512, test/conformance-catches.test.ts).
KitJudgesRightly == K!ShippedStoresConform /\ K!FlawsAreCaught /\ K!KitCleansUp
=============================================================================
