-------------------------- MODULE StoreConformance --------------------------
(***************************************************************************)
(* The conformance kit (conformance/index.ts): cases of a few calls each,  *)
(* run by runStoreConformance against a store that is fresh for every      *)
(* case.  The calls of one stage of a case are made at the same time.      *)
(* The kit runs here against the stores of module DatabaseStores and       *)
(* against MemoryStore with the mistakes the kit exists for.               *)
(***************************************************************************)
EXTENDS DatabaseStores

CONSTANTS StoresUnderTest,  \* stores RunOn knows
          Flaws,            \* mistakes built into MemoryStore
          Skipped,          \* cases skipped with a reason
          CounterTop,       \* the largest counter: 2^32 - 1 in the code
          Callers           \* options.concurrency

VARIABLES subject,   \* the store the kit was given
          flaw,      \* the mistake in it, None if it is meant to conform
          case,      \* the case that runs
          db,        \* the database of its store
          replies,   \* what the stages so far answered
          open,      \* the store was created and not cleaned up
          verdict    \* "new", "running", "passed", "failed" or "skipped"

vars == <<subject, flaw, case, db, replies, open, verdict>>

Save(ch, life) == [op |-> "saveChallenge",
  row |-> [challenge |-> ch, kind |-> "registration", expiresAt |-> Now + life,
           user |-> "user-1", isNewUser |-> "boolean true", dates |-> "Date"]]
Take(ch) == [op |-> "takeChallenge", challenge |-> ch]
User(id, name) == [op |-> "createUser", id |-> id, name |-> name]
UserById(id) == [op |-> "getUserById", id |-> id]
UserByName(name) == [op |-> "getUserByUsername", name |-> name]
Row(id, owner, created) == [id |-> id, owner |-> owner, created |-> created, counter |-> 0,
  publicKey |-> "key", transports |-> "internal", nickname |-> "Phone"]
BareRow(id, owner) == [Row(id, owner, 2) EXCEPT !.transports = None, !.nickname = None]
Credential(row) == [op |-> "createCredential", row |-> row]
CredentialById(id) == [op |-> "getCredentialById", id |-> id]
Update(id, n) == [op |-> "updateCredential", id |-> id, changes |-> [counter |-> n]]
Delete(id) == [op |-> "deleteCredential", id |-> id]
List(id) == [op |-> "listCredentialsByUserId", id |-> id]
Repeat(call) == [i \in 1 .. Callers |-> call]

\* The stages of each case, in the order of conformanceCases.
ChallengeCases ==
  [takenOnce  |-> << <<Save("ch", 60)>>, <<Take("ch")>>, <<Take("ch")>> >>,
   takeRace   |-> << <<Save("ch", 60)>>, Repeat(Take("ch")) >>,
   expired    |-> << <<Save("ch", -1)>>, <<Take("ch")>> >>,
   hostileKey |-> << <<Take("'; DROP TABLE")>> >>,
   context    |-> << <<Save("ch", 60)>>, <<Take("ch")>> >>,
   dateBack   |-> << <<Save("ch", 60)>>, <<Take("ch")>> >>]

UserCases ==
  [verbatimId |-> << <<User("u", "ada")>>, <<UserById("u")>> >>,
   nameRace   |-> << [i \in 1 .. Callers |-> User(<<"u", i>>, "ada")] >>,
   misses     |-> << <<UserById("x")>>, <<UserByName("x")>>, <<CredentialById("x")>> >>,
   anyCase    |-> << <<User("u", "Ada")>>, <<UserByName("ada")>> >>]

\* ada has an account and the passkey k, and then come some further calls.
WithPasskey(calls) ==
  << <<User("u", "ada")>>, <<Credential(Row("k", "u", 2))>> >> \o [i \in DOMAIN calls |-> <<calls[i]>>]

CredentialCases ==
  [roundTrip      |-> WithPasskey(<<CredentialById("k")>>),
   bareRow        |-> << <<User("u", "ada")>>, <<Credential(BareRow("k", "u"))>>, <<CredentialById("k")>> >>,
   duplicate      |-> WithPasskey(<<Credential(Row("k", "u", 2))>>),
   partialUpdate  |-> WithPasskey(<<Update("k", 42), CredentialById("k")>>),
   updateMissing  |-> << <<Update("x", 1)>> >>,
   fullCounter    |-> WithPasskey(<<Update("k", CounterTop), CredentialById("k")>>),
   deleteTwice    |-> WithPasskey(<<Delete("k"), CredentialById("k"), Delete("k"), Delete("x")>>),
   ownListInOrder |-> WithPasskey(<<User("v", "bob"), Credential(Row("k1", "u", 1)),
                                    Credential(Row("k3", "v", 1)), List("u"), List("x")>>),
   unicodeName    |-> << <<User("u", "odd")>>, <<UserById("u")>> >>]

Stages == ChallengeCases @@ UserCases @@ CredentialCases

Cases == DOMAIN Stages
Required == Cases \ {"anyCase"}

Has(reply, f, v) == reply # None /\ f \in DOMAIN reply /\ reply[f] = v

\* Variant: a race is won if anybody won it.
AnyWins(stage) == IF \E i \in DOMAIN stage : stage[i] # None THEN 1 ELSE 0

Wins(stage) == Cardinality({i \in DOMAIN stage : stage[i] # None /\ "error" \notin DOMAIN stage[i]})

\* What the assertions at the end of a case look at; r are the replies.
Passes(name, r) ==
  LET last == r[Len(r)][1]
  IN CASE name = "takenOnce" -> r[2][1] # None /\ last = None
       [] name \in {"takeRace", "nameRace"} -> Wins(r[Len(r)]) = 1
       [] name \in {"expired", "hostileKey"} -> last = None
       [] name = "context" -> Has(last, "isNewUser", "boolean true") /\ Has(last, "user", "user-1")
       [] name = "dateBack" -> Has(last, "dates", "Date") /\ Has(last, "expiresAt", Now + 60)
       [] name = "verbatimId" -> Has(r[1][1], "id", "u") /\ Has(last, "id", "u")
       [] name = "misses" -> \A i \in 1 .. 3 : r[i][1] = None
       [] name = "anyCase" -> last # None
       [] name = "roundTrip" -> last # None /\ last = Row("k", "u", 2)
       [] name = "bareRow" -> last # None /\ "transports" \notin DOMAIN last /\ "nickname" \notin DOMAIN last
       [] name = "duplicate" -> last # None /\ last = Refused("credential_exists")
       [] name = "partialUpdate" -> last # None /\ last = [Row("k", "u", 2) EXCEPT !.counter = 42]
       [] name = "updateMissing" -> last # None /\ last = Refused("unknown_credential")
       [] name = "fullCounter" -> Has(last, "counter", CounterTop)
       [] name = "deleteTwice" -> r[4][1] = None
       [] name = "ownListInOrder" -> last = <<>> /\ [i \in DOMAIN r[6][1] |-> r[6][1][i].id] = <<"k1", "k">>
       [] name = "unicodeName" -> Has(last, "name", "odd")

-----------------------------------------------------------------------------
(***************************************************************************)
(* Mistakes a store may make: each replaces one operation of MemoryStore.  *)
(***************************************************************************)
FlawOf ==
  [readThenDelete |-> "takeRace",     inventsIds    |-> "verbatimId", overwrites |-> "duplicate",
   returnsExpired |-> "expired",      silentMiss    |-> "updateMissing", wholeRow |-> "partialUpdate",
   narrowCounter  |-> "fullCounter",  listsEverybody |-> "ownListInOrder", stringBooleans |-> "context", stringDates |-> "dateBack",
   keepsTaken     |-> "takenOnce",    checkThenInsert |-> "nameRace", keepsExpired |-> "expired"]

\* MemoryStore with the mistake.
RunFlawed(d, c) ==
  LET sound == RunOn(subject, d, c) IN
  CASE flaw = "inventsIds" /\ c.op = "createUser" -> RunOn(subject, d, [c EXCEPT !.id = "generated"])
    [] flaw = "overwrites" /\ c.op = "createCredential" -> Run([MemoryTraits EXCEPT !.credIds = FALSE], d, c)
    [] flaw = "returnsExpired" /\ c.op = "takeChallenge" ->
         [sound EXCEPT !.reply = IF Saved(d, c.challenge) = {} THEN None
                                 ELSE CHOOSE h \in Saved(d, c.challenge) : TRUE]
    [] flaw = "silentMiss" /\ c.op = "updateCredential" -> [sound EXCEPT !.reply = None]
    [] flaw = "wholeRow" /\ c.op = "updateCredential" ->
         RunOn(subject, d, [c EXCEPT !.changes = [publicKey |-> "undefined"] @@ @])
    [] flaw = "narrowCounter" /\ c.op = "updateCredential" ->
         RunOn(subject, d, [c EXCEPT !.changes.counter = @ % ((CounterTop + 1) \div 2)])
    [] flaw = "listsEverybody" /\ c.op = "listCredentialsByUserId" ->
         [sound EXCEPT !.reply = SortSeq(d.creds, Older)]
    [] flaw = "stringBooleans" /\ c.op = "saveChallenge" -> RunOn(subject, d, [c EXCEPT !.row.isNewUser = "string true"])
    [] flaw = "stringDates" /\ c.op = "saveChallenge" -> RunOn(subject, d, [c EXCEPT !.row.dates = "string"])
    [] flaw = "keepsTaken" /\ c.op = "takeChallenge" -> [sound EXCEPT !.db = d]
    [] flaw = "keepsExpired" /\ c.op = "takeChallenge" /\ sound.reply = None -> [sound EXCEPT !.db = d]
    [] OTHER -> sound

\* The calls of a stage, begun together: each runs as one statement, but where
\* a flawed store awaits between looking and writing all of them look first.
LooksFirst(c) == \/ flaw = "readThenDelete" /\ c.op = "takeChallenge"
                 \/ flaw = "checkThenInsert" /\ c.op = "createUser"

RunStage(calls) ==
  FoldLeft(LAMBDA done, c :
             LET next == RunFlawed(done.db, c)
             IN [db |-> next.db,
                 replies |-> Append(done.replies, IF LooksFirst(c) THEN RunFlawed(db, c).reply
                                                  ELSE next.reply)],
           [db |-> db, replies |-> <<>>], calls)

-----------------------------------------------------------------------------
Init ==
  /\ \/ subject \in StoresUnderTest /\ flaw = None
     \/ subject = "memory" /\ flaw \in Flaws
  /\ case \in Cases
  /\ db = EmptyDb /\ replies = <<>> /\ open = FALSE /\ verdict = "new"

Skip ==
  /\ verdict = "new" /\ case \in Skipped
  /\ verdict' = "skipped"
  /\ UNCHANGED <<subject, flaw, case, db, replies, open>>

CreateStore ==
  /\ verdict = "new" /\ case \notin Skipped
  /\ verdict' = "running" /\ open' = TRUE
  /\ UNCHANGED <<subject, flaw, case, db, replies>>

\* The assertions of a case are judged together at its end; a store that
\* throws where none expects it would fail them as well.
Stage ==
  /\ verdict = "running" /\ Len(replies) < Len(Stages[case])
  /\ LET done == RunStage(Stages[case][Len(replies) + 1])
     IN db' = done.db /\ replies' = Append(replies, done.replies)
  /\ UNCHANGED <<subject, flaw, case, open, verdict>>

\* Variant: cleanup only after a case that passed.
StillOpen(passed) == ~passed

\* The finally block runs whatever the case did.
OpenAfter(passed) == FALSE

Finish ==
  /\ verdict = "running" /\ Len(replies) = Len(Stages[case])
  /\ verdict' = IF Passes(case, replies) THEN "passed" ELSE "failed"
  /\ open' = OpenAfter(Passes(case, replies))
  /\ UNCHANGED <<subject, flaw, case, db, replies>>

Next == Skip \/ CreateStore \/ Stage \/ Finish

Spec == Init /\ [][Next]_vars

-----------------------------------------------------------------------------
\* Every store that ships passes every required case (stores/*.ts on the
\* schemas of stores/schema.ts; MongoDB with the ids indexed).
ShippedStoresConform == flaw = None /\ case \in Required => verdict # "failed"

\* The kit catches each mistake by the case written for it, in the races too
\* (conformance/index.ts, test/conformance-catches.test.ts).
FlawsAreCaught == flaw # None /\ case = FlawOf[flaw] => verdict # "passed"

\* A store the kit opened is cleaned up, also after a case that failed
\* (conformance/index.ts, the finally block).
KitCleansUp == verdict \in {"passed", "failed", "skipped"} => ~open
=============================================================================
