# A verification of passkify

passkify lets a site sign its visitors in with passkeys (WebAuthn). The core is
a server library: two ceremonies of two requests each, a handful of management
calls and a storage contract the application fulfils with a database. Around it
stand HTTP adapters, a browser library, React hooks, parsers for what
authenticators send, and a command line. Paths below are relative to
`packages/passkify/src/` unless they begin with `apps/` or `skills/`.

* [The system](#the-system)
* [What is modelled](#what-is-modelled)
* [The runs](#the-runs)
* [Findings](#findings)
* [Fairness](#fairness)
* [The proofs](#the-proofs)
* [What is not modelled](#what-is-not-modelled)
* [Plan](#plan)

## The system

### Components, their state and their operations

| component | state | operations |
|---|---|---|
| store contract, `server/store.ts` | accounts, credentials, pending challenges | get/create user, create/get/list/update/delete credential, save/take challenge |
| registration, `server/registration.ts` | none of its own: the challenge row carries a ceremony from its start to its end | `createRegistrationOptions`, `verifyRegistration` |
| authentication, `server/authentication.ts` | as above | `createAuthenticationOptions`, `verifyAuthentication` |
| management, `server/passkey-server.ts` | none | list, delete and rename a credential, `signals` |
| routes and adapters, `server/http/`, `adapters/` | what was read of a body; the application's sessions through hooks | nine routes, error rendering, body limits |
| Redis store, `stores/redis.ts` | five kinds of keys | the contract, several commands per operation |
| other stores, `stores/` | three tables | the contract, one statement per operation |
| conformance kit, `conformance/` | the store of each case | cases of calls at once, verdicts, cleanup |
| browser ceremonies, `client/ceremony.ts`, `client/index.ts` | the one active ceremony | register, login, autofill, cancel |
| browser signals, `client/signals.ts`, `client/credentials.ts` | the platform's passkeys | sync, signal an unknown credential, list, rename, delete |
| React hooks, `react/index.ts` | pending, error, result per hook; the list of passkeys | start, reset, refresh |
| parsers and trust, `server/crypto/` | the cached name of Ed25519 | CBOR, ASN.1, DER signatures, COSE keys, X.509, authenticator data, attestation |
| configuration, `server/config.ts`, `server/related-origin.ts` | none after construction | validation, label counting |
| shared, `shared/` | none | base64url, errors, the catalogue of checks |
| testing, `cli/`, `apps/docs` | a virtual authenticator's counter | test drivers, generators, documentation |

### How they interact, and what is hard

A browser asks a start route for options. The server makes a challenge, saves a
row for it and answers. The browser hands the options to an authenticator, which
signs, and posts the answer to a finish route. The server *takes* the row (reads
and deletes it in one step), runs some twenty checks and then reads and writes
accounts and credentials. A hook of the application begins the session.

Nothing in the server is locked. Every `await` of a store call lets every other
request run, so a request works with what it read several calls ago. That makes
these hard to get right and hard to test:

* **Interleaved requests.** Two sign-ups for one name; two logins with one
  passkey; two removals; a login while its passkey is removed.
* **Stale knowledge between the two requests of a ceremony.** A minute may pass
  in between: the name is no longer free, the list of passkeys is older than the
  passkeys, the account and the demands the ceremony began with are known only
  from the row.
* **Delivery.** Answers are posted twice, late, to the wrong route, or never.
* **Partial failure.** A handler makes up to four store calls; any of them or
  the hook may throw, and nothing is rolled back.
* **Time.** A row expires while it still stands in the table; the sweep runs
  only when somebody else starts a ceremony.

Elsewhere the same kinds return in other forms: at Redis an operation is several
commands and may be cut between two; on a page calls share one controller and
their answers arrive in any order; a body arrives in chunks; a runtime is asked for
its Ed25519 by several calls at once; and the parsers meet numbers and lengths at
the edge of their ranges.

### What makes each component correct

* Ceremonies: one challenge, one verified ceremony; a ceremony that is over
  stays over; a session begins with a verified ceremony and no other way; the
  terms of the start bind the end.
* Accounts: one per username in any spelling; no account without a passkey
  except while it is being made.
* Credentials: owned by the account the authenticator knows them under; only a
  session adds one to an existing account; a removed one never comes back; an
  account's last one stays.
* Counters: never ahead of the authenticator's, never backwards.
* Requests: each ends, and of several that exclude one another one succeeds.
* Stores: an operation of several commands behaves as the one step the contract
  promises, also when it stops half way.
* Browser: one request at a time, one that can be aborted; what was aborted ends; a
  component that is gone hears nothing; the platform is never told to remove a
  passkey that works.
* Edge: every site the configuration names is served or the configuration is
  refused; a request means the same through every adapter; memory is bounded.
* Parsers: what is read ends where it ends, and nothing of it is lost.
* Trust: a statement is accepted for this response, and called trusted with a proof
  from a supplied root; what is accepted passed every check.

`PROJECT.json` lists the hazards one by one, with the line where each bites and
the properties that are about it.

## What is modelled

Five groups of modules. The first module of a line is parameterised; where a
configuration file can not say the values, a module of instances (`MC…`) does.

```
the server            PasskeyStore <- PasskeyServer <- PasskeyServerProps <- MCPasskeyServer
                                                            |  CeremonyLedger (abstract)
stores                RedisStore <- Stores <- MCStores -> StoreConformance -> DatabaseStores
                                      |  StoreAgreement -> DatabaseStores
the page              ClientCeremony <- Page -> CeremonyHook, AutofillHook, PasskeysHook, Signals
the server's edge     OriginConfig <- Http <- MCHttp
                                        |  HttpAdapters, BodyReader
responses             Responses -> CoseKeys, Attestation (-> Certificates), VerificationTrace
                      EcdsaDer <- Decoders -> AuthenticatorData (-> Cbor), Asn1, Base64Url
                      Cbor <- CborEncoder;  Decoders <- MCDecoders -> CborEncoder
                      Responses, MCDecoders <- MCResponses
```

`<-` is extended by, `->` and `|` have an instance of. `Page`, `Http` and
`Responses`, and the MC modules, begin a behaviour by choosing which of their parts
takes part; the others stay as they are, so that the parts share a run without
multiplying their states.

Proofs are in `PasskeyServerProofs`, `PasskeyServerBindingProofs`,
`PasskeyServerCredentialProofs`, `StoresProofs`, `PageProofs`, `HttpProofs`,
`DecoderProofs` and `ResponsesProofs`.

### The server

**`PasskeyStore`** is `MemoryStore` operation by operation: the account table
with its normalised name index (`NameKey[n]` is `trim().toLowerCase()` of `n`),
credentials reduced to owner, counter and nickname (the other columns are
carried along and decide nothing), challenge rows with everything that must
survive until verification. `SaveChallenge` includes the sweep, `TakeChallenge`
deletes whatever `Taken` answers. The other stores
are compared with it below.

**`PasskeyServer`** has a set of request slots. `req[r]` keeps what a handler's
local variables keep across its awaits, and `at` names the store call that comes
next. One action is one store call with all the code from the previous `await`
to the next one:

| route | actions |
|---|---|
| `POST /register/start` | `StartSignUp` or `StartAddPasskey`, `ListExcluded`, `SaveRegistration` |
| `POST /register/finish` | `FinishRegistration` (takes the row, runs the checks), `CheckUnique`, `MakeAccount` or `FindAccount`, `StoreCredential`, `Reply` |
| `POST /login/start` | `StartLogin` or `StartScopedLogin`, `ListAllowed`, `SaveLogin` |
| `POST /login/finish` | `FinishLogin`, `FindCredential`, `CheckOwner` (with the counter rule and its hook), `RecordLogin`, `Reply` |
| `DELETE /credentials/:id` | `StartDelete`, `ListRemaining`, `DropCredential` |
| `PATCH /credentials/:id` | `StartRename`, `SetNickname` |

`Abort` ends any handler at any of its awaits: a store call or hook that throws,
or a process that is gone. What was written before stays. A call that *answers*
with an error (a name is taken, a row is missing) is part of its own action.

Outside the server, `issued[c]` is what a browser received, `answers[c]` what an
authenticator signed (it can be posted any number of times, to either finish
route) and `wallet[k]` what an authenticator keeps. `CreatePasskey` respects the
exclude list on the device it runs on, `GetAssertion` the allow list; both are
modelled from how the server uses the answers, since browsers and authenticators
are not part of the repository. Checks on the answer's own bytes are three flags here
(the bytes have modules of their own, below): the client data is in order (`originOk`), the user was verified (`uv`),
everything else that is computed from the bytes and the stored key (`sigOk`).
A passkey in `Discoverable` can answer without an allow list and returns its user
handle; any other needs a list and returns none, so that the server has only its
own row to tell whose it is. An answer's challenge, type, credential and user handle are true to the
authenticator that made it: forging is not part of the model.

`signedIn` are the accounts with a session. Sessions are the application's and
only the hooks give one; they do not end in the model, which lets a request come
from any session that ever existed. `completions` and `revoked` are history.

**`CeremonyLedger`** says what the two ceremonies promise and nothing of how: a
ceremony is issued once, for one account or for any, is verified at most once,
for an account it is open to, or is over for good; sessions begin only so.
`PasskeyServerProps!ImplementsLedger` is the refinement. Its mapping calls a
ceremony over when its row is gone or too old and no request has it in hand, so
a single tick of the clock may close several, and the abstract step allows that.

### The stores

**`RedisStore`** makes every Redis command a step: `createUser` is SETNX of the
name and SET of the account, `createCredential` SETNX and SADD,
`updateCredential` GET and SET, `deleteCredential` GET, DEL and SREM,
`listCredentialsByUserId` SMEMBERS and one GET for each member, `saveChallenge`
a time to live that is computed and a SET some time later, `takeChallenge` a
GETDEL (or the script for a client without it) and a judgement of what it answered.
`call[c]` is what a call keeps between two commands. With `Faults` a call is cut
short between any two commands, by a connection or a process that is lost; `cut`
remembers what it was cut at, so that the invariants can say "unless". Keys
expire by a clock of half seconds, which Redis sees in whole ones.

**`DatabaseStores`** is the other four. Each of their operations is one statement,
so each is a function from a database and a call to a database and a reply; what
engines and schemas do differently are *traits*: which spellings the unique index
and the lookup take for one name, which columns have a unique index, whether
owners are foreign keys, what an update without columns does. `MemoryTraits` is
`MemoryStore` in the same form. **`StoreAgreement`** gives the same calls to a
store and to `MemoryStore`, in the order in which a server can make them, and
compares the replies. It is checked of Postgres, SQLite and MongoDB with unique
indexes on the ids; MongoDB without them and Prisma on Postgres do not agree
(Disagreements). What is shown of `PasskeyServer` over `MemoryStore` then holds
over the store. **`StoreConformance`** is the conformance kit, each case as
stages of calls that are made at once and a verdict on the replies, with the
runner's skipping and cleaning up; it judges the shipped stores, and copies of
`MemoryStore` with one mistake each.

### The page

**`ClientCeremony`**: calls of `register`, `login` and `signInWithAutofill`, each
with its awaits (`probing` for conditional mediation, `starting`, `asking` the
browser, `finishing`), the shared `activeCeremony`, the page's own signals, and
`cancelPendingCeremony`. A step is where a promise settles, with all the code up
to the next await. `TranslateWebAuthnError` decides what the caller sees.
**`CeremonyHook`** is `useCeremony` beneath `useRegister` and `useLogin`,
**`AutofillHook`** `usePasskeyAutofill`, **`PasskeysHook`** `usePasskeys`, whose
requests reach the server in one order and are answered in another. **`Signals`**
is the list of passkeys a platform offers, against the rows of the server, through
`syncPasskeys`, `deletePasskey`, registration and a login refused as unknown, by
calls of several tabs and devices that overlap as they may.

### The server's edge

**`OriginConfig`**: a configuration is accepted or refused (`resolveConfig`,
`assertResolvedConfig`), the file of related origins is derived, with the server's
own host first and the others in any order (the code sorts them; no property
depends on it), and pages of the configured sites try a ceremony in a browser, which reads the file with the true
list of public suffixes while the server has its short table, or the labels that
the configuration declares. A host is the sequence of its labels. **`HttpAdapters`**: one request through the Express
adapter and one through the fetch handler, each in its own order of reading the
body, asking for the session, dispatching, calling the session hook and replying,
with the statuses of `shared/errors.ts`, the bridges of the six frameworks, and
what `client/transport.ts` makes of the reply. **`BodyReader`**: `readJsonBody` of
Express, chunk by chunk, against a stream that ends, breaks or exceeds the cap.

### Responses

**`Cbor`**, **`AuthenticatorData`**, **`EcdsaDer`**, **`Asn1`** and **`Base64Url`**
are decoders as operators over sequences of bytes; `Decoders` puts them side by
side. An input is put together token by token, so that a behaviour
visits every word of a few tokens, the malformed ones included. `readValue` of
CBOR calls itself for what is nested, one level deeper each time up to
`MAX_DEPTH`: `Levels` is what begins at each place of the input at each of these
levels, the deepest first, and a loop over items (`ReadItems`) is a function of
the number of its turns. A declared length is exact up to three bytes and more
than any input beyond. **`CborEncoder`** is the encoder of the test kit, which the
code has apart from the decoder so that they check each other. **`CoseKeys`** has
calls that import keys and verify signatures side by side and share the cached
name of Ed25519; what `importKey` and `verify` answer is the environment's.
**`Certificates`** and **`Attestation`** are the chain walk and the statements of
every format, with a clock that goes on during the awaits; signatures are named by
who made them over what. **`VerificationTrace`** is the registry of checks and the
two verifiers as sequences of steps, against responses with any flaws, whose
challenge has a live row, an expired one or none; the run makes up to two flaws at a
time. The order and the codes of the registry are compared with what is emitted.

### Variants

Definitions whose comment begins with *Variant* are not used by any
specification. Each is a definition of the code with a plausible mistake in it,
kept beside the right one: replacing the right one by it breaks a property
(`PROJECT.json`, "mutants", names one for each property), which shows that the
property depends on the code. Where a property is a conjunction of several, there
is a variant for each of them.

## The runs

### The server (MCPasskeyServer)

Every bound is a constant:

| bound | value | why it is enough |
|---|---|---|
| `Requests` | 2 | every hazard above is between two handlers; whatever a third does in between, one that has ended has done too |
| `Challenges` | 2, 3 in SignUps | two ceremonies that overlap; the third adds a passkey after two sign-ups |
| `UserIds` | 2 | the accounts two racing sign-ups would make, or two people |
| `CredIds` | 2 or 3 | two to keep or lose, a third to add |
| `MaxCount` | 2 | two counted signatures can be recorded in the wrong order |
| `ChallengeTimeout`, `MaxTime` | 1 and 2; 0 and 1 in Manage, 1 and 1 in Progress | a challenge can be answered in time, at its last moment and too late; a row can be expired and not yet swept. A ceremony of Manage is answered in its own tick or too late. In Progress none expires: there the question is what requests do to each other |

When challenges, handles or counter values are used up no ceremony begins any
more and, as in a real site nobody visits, nothing happens: deadlock is
therefore not checked, and `EveryRequestEnds` says what deadlock freedom is
meant to say.

| run | instance | shows |
|---|---|---|
| SignUps | an empty site; one name in two spellings; two passkeys of three on one device; store calls may fail | `TypeOK`, `OneAccountPerName`, `CredentialMatchesPasskey`, `OnlySignedInGainPasskeys`, `ImplementsLedger` |
| Logins | two people, one of them without a passkey; answers with each flaw; one passkey counts and needs an allow list; the regression hook may allow | `ChallengeSingleUse`, `CeremonyKeepsItsTerms`, `CounterNotAhead`, `ImplementsLedger` |
| Manage | one account signs in, adds, removes and renames, two handlers at a time | `RevokedStaysRevoked`, `LastGoesOnlyToARace`, `CounterFallsOnlyToARace` |
| Progress | sign-ups, logins and removals, nothing fails | `EveryRequestEnds`, `ContestedNameIsWon` |
| LastPasskeyRace, CounterRace, HalfRegistered | see Findings | one property each, violated |

`LastPasskeyIsKept` and `CounterNeverDecreases` are false of the code (the first two
findings). `Manage` says what is left of them when handlers interleave as they like:
a step that takes the last passkey is a removal that had counted two, so that another
removal came between its list and its delete; a step that lowers a counter is the
record of a login that had read the row before the counter it lowers was recorded, or
one that the hook was asked about and let in. Additions, renames, failures and logins
beside removals do no harm of that kind. In no run is anything serialised that the
code does not serialise.

The symmetry used is of request slots and of challenges, which no definition
tells apart; the runs with liveness use none.

### Stores, Page, Http, Responses

| run | instance | shows |
|---|---|---|
| Stores | six workloads: at Redis sign-ups under one name in two spellings, passkeys of one account, renames beside removals, challenges; the databases beside `MemoryStore`; the kit | `NamesAndAccountsAgree`, `OnlyCutCallsStrand`, `ListIsSound`, `HandedOutOnce`, `KeyOutlivesChallenge`, `AnswersAsMemoryStore`, `KitJudgesRightly` |
| Page | five pages: calls of the client, a component, a form, a settings page, a browser | `OneRequestAtATime`, `AbortReadsAsCancelled`, `HooksHoldOneCall`, `OfferedIsWhatWorks`, `UnwantedCallsEnd`, `TheGoneHearNothing`, `RemovalsShow` |
| Http | a site, a request, a body | `EveryConfiguredOriginWorks`, `AdaptersAgree`, `OutcomeIsTold`, `BodiesAreWhole`, `OversizedIsAnswered` |
| Responses | seven decoders, keys alone and side by side, chains, statements, traces | `OneSpellingOnly`, `BoundariesAreExact`, `NothingIsLost`, `KeysServe`, `TrustIsProven`, `StatementsAreJudged`, `TraceTellsTheTruth` |
| RevokedReturns | renames beside removals at Redis, nothing cut short | `EveryCredentialIsListed`, violated |

The bounds, and why they are enough:

| where | bound | why |
|---|---|---|
| Redis | three clients (two for passkeys), two accounts, three names, two credentials, two challenges | a race has two parties; the third client tells whether a loser lets somebody else win, and a challenge is asked for twice while it is saved |
| | `TicksPerSecond` 2, lifetimes -1, 1 and 3, `MaxTime` 5 | less and more than a second, neither a multiple of it, and a challenge that is expired when it is saved |
| databases | any five calls, two accounts, two names that differ in case and a third, two credentials, two challenges | create, collide, change, remove and look; replies depend on rows, and no operation looks at more than one of each table but the list |
| kit | counters to 255, three callers at once | the narrow counter of the flawed store overflows below that; a race needs two |
| client | two calls of any kind, signals that abort with `AbortError` or another error | who supersedes whom is between two; one reason that the translation knows and one that it does not |
| hooks, signals | four starts of a component or form, two calls of a settings page besides its first refresh, three calls that the platform hears of, overlapping as they may | starts, unmounts and late answers of the previous but one; a list, a registration beside it, and a removal or a refusal |
| sites | up to three entries of five hosts, under a suffix of two labels that the table lists, under one that it does not, and under none; spelled plainly, with a slash at the end, with a path or as a pattern; labels declared or not; a cap of two labels | the cap is passed by the third label |
| bodies | a cap of 4 and up to 9 bytes in chunks of any size | below, at and above the cap, also twice over |
| decoders | four or five tokens of those in `MCDecoders` | heads of every width, nesting to the limit and past it, an item after the item; lengths in short and long form, right and wrong |
| keys | bytes of four values, coordinates of two and three; one call with any key, or three side by side | a leading zero, a number too long by one; one call that probes, one that waits and one that finds |
| chains | three certificates and a root of thirteen, judged at three times; statements before, at and after the end of a window | a root that is a namesake, no authority or expired; an intermediate that is forged; basic constraints that do not parse |

Each part of a run ends when its calls are used up, so deadlock is not checked;
that things end is `UnwantedCallsEnd` and `OversizedIsAnswered`.

The symmetry of Stores is of clients.

## Findings

Four promises of the documentation do not hold of the code. The shortest
behaviours TLC finds:

1. **The last passkey can be removed** (LastPasskeyRace). An account has two
   passkeys; two `DELETE` requests for the two of them both list two remaining
   and both delete. `deleteCredential` says it refuses "to remove the last
   passkey on this account, which would lock the user out".
2. **The stored counter can go back** (CounterRace). Two logins with one passkey,
   with counts 1 and 2, both find 0 stored. The one with 2 is recorded, then the
   one with 1. Neither is a regression to the check, and the hook is not asked.
   `CounterNotAhead` holds all the same, so nobody is locked out by it.
3. **A failed registration can leave an account behind** (HalfRegistered).
   `createUser` succeeds and `createCredential` fails: the account has no passkey
   and holds the name. `stores/schema.ts` says a failed registration leaves no
   trace.
4. **A revoked passkey returns at Redis** (RevokedReturns). A login reads the row
   of a passkey (GET); the owner removes the passkey (DEL, SREM); the login writes
   the row back with its counter (SET). The passkey signs in again, and as it left
   its owner's set it is in no list and cannot be removed from the settings page.
   `PasskeyServer` with a store whose update is one statement has
   `RevokedStaysRevoked`.

### Disagreements seen while modelling

Where a doc, a comment or a test says one thing and the code does another, found
while the definitions were written, and followed by hand or on instances like
those of the runs. They are not runs of the project; the models keep to what the
code does, and where a property needs it the instance or the property says what is
left out.

* `stores/redis.ts:128`: updateCredential of the Redis store reads the whole row
  (line 124) and writes the whole row back (line 128). A rename written between
  the two commands of a login's update is undone, although that update was given
  only the counter and the dates. The conformance kit requires
  (conformance/index.ts:375) 'updateCredential changes only what it was given';
  it calls the store from one caller at a time and does not see it. The SQL,
  Prisma and Mongo stores change the given columns in one statement.
* `stores/mongodb.ts:127`: createCredential relies on a duplicate key error to
  refuse an id that is taken (line 129), but none of the indexes the module
  tells its user to create (lines 11-18, and
  apps/docs/app/docs/storage/adapters/page.mdx:432) is on credentials.id: a
  second document with the id is stored. conformance/index.ts:360 requires 'the
  same credential id cannot be registered twice'.
* `stores/prisma.ts:92`: getUserByUsername matches without case on Postgres
  (line 92), while the schema's unique index (stores/schema.ts:108) compares the
  spelling. Two calls of createUser, one for each spelling, both succeed, and a
  lookup answers with either account: conformance/index.ts:256 says 'Two
  accounts with the same username make username-first login ambiguous'.
* `conformance/index.ts:171`: The case 'an expired challenge is not returned,
  and is deleted' (conformance/index.ts:161) takes the expired challenge once
  and looks only whether null came back: a store that keeps the row passes it.
* `client/ceremony.ts:34`: beginCeremony aborts whatever ceremony is active when
  the options of a call arrive, so an autofill call that was made first and
  answered last aborts the login that was made after it, even when its own
  signal has fired already. client/index.ts:181 says of autofill 'A pending
  request is aborted automatically when `login` or `register` runs', and
  react/index.ts:119 'a conditional-mediation request outliving its form blocks
  the next ceremony'.
* `client/ceremony.ts:59`: cancelPendingCeremony aborts only a call that has
  reached the browser; one that is waiting for the start request, which carries
  no signal, goes on and shows its prompt.
  apps/docs/app/docs/client/page.mdx:239 says 'Aborts whatever ceremony is in
  flight.' and client/ceremony.ts:54 'Cancel any in-flight ceremony, for example
  when unmounting a sign-in component'.
* `client/ceremony.ts:40`: The controller is aborted with the caller's own
  reason, which the browser rejects with; translateWebAuthnError knows only the
  name AbortError (client/errors.ts:30), so AbortSignal.timeout or abort(error)
  ends as not_allowed. apps/docs/app/docs/client/page.mdx:287 says '|
  `AbortError` | `cancelled` | Superseded by another ceremony, or your signal
  fired |'.
* `react/index.ts:71`: A second start aborts the first ceremony, whose rejection
  arrives later and passes the test for mounted, the only one there is: the
  component shows the first one's cancellation, and no longer pending, while the
  second is under way, or loses the second one's result. react/index.ts:39 says
  'Shared machinery: one in-flight ceremony'.
* `react/index.ts:166`: refresh sets whatever list arrives, in the order in
  which the answers arrive: a list read before a removal and answered after the
  refresh that followed it shows the removed passkey until the next refresh.
  react/index.ts:157 says 'The signed-in account's passkeys, for a settings
  page.'
* `client/signals.ts:115`: syncPasskeys hands over the list it was answered
  with, however old: a passkey created, or stored, after the server read the
  list is not in it, and the platform hides it although it works.
  client/signals.ts:79 says 'Tell the platform what this account's passkeys
  actually are.'
* `client/index.ts:141`: The server answers unknown_credential also for a
  passkey it knows, when the login was started for another account
  (server/authentication.ts:209). An account without passkeys, such as a
  half-registered one, gives no allowCredentials, so the visitor can pick any
  passkey of the site, and finishLogin reports it. client/index.ts:124 says
  '`unknown_credential` means the browser offered a passkey this site has no
  record of'.
* `server/config.ts:269`: resolveConfig parses an entry of origin with new URL,
  accepts it when the path is '/' and keeps it as it was written; originAllowed
  (server/crypto/client-data.ts:81) compares it letter by letter with what the
  browser reports. 'https://example.com/', a default port or capitals are
  accepted, and published, and refuse every ceremony. server/related-origin.ts:9
  says 'The thing that goes wrong with this feature is drift: the published file
  says one set of origins, the server accepts another' and line 13 'the cases
  where a derivation is impossible are refused at construction'.
* `server/related-origin.ts:153`: With shop.com and shop.com.bo the optimistic
  labels are shop and com, and the browser counts one. Six such domains of one
  name are refused although they are one label. server/related-origin.ts:112
  says 'Labels assuming every suffix is single-part — the smallest plausible
  count.'
* `server/http/fetch.ts:143`: GET /signals of an account without passkeys is {
  status: 204, body: null } (server/http/routes.ts:157). The fetch handler
  builds new Response(JSON.stringify(null), { status: 204 }), and the Response
  constructor throws a TypeError when a null-body status has a body: the handler
  renders 500 server_error, where Express answers 204. server/http/routes.ts:5
  says 'Keeping the routing here means the Express and fetch adapters cannot
  drift apart'.
* `shared/errors.ts:162`: defaultStatus sends counter_regression with 403, and
  requireSession sends unknown_user with 401 (server/http/routes.ts:77).
  apps/docs/app/docs/errors/page.mdx:148 says '`counter_regression` | 401' and
  line 152 '`unknown_user` | 404 | No such account, or no session on a protected
  route'.
* `server/http/express.ts:202`: Past the cap the request is resumed and every
  further chunk is read and dropped. server/http/express.ts:174 says 'The cap is
  enforced by destroying the connection, not merely by refusing to buffer'.
* `server/crypto/cbor.ts:232`: readEntry accepts every key whose typeof is
  'number', so the map {1.0585: 0} is decoded, and a half-precision 1.0 is the
  integer key 1. The error at server/crypto/cbor.ts:233 says 'map keys must be
  integers or text strings' and test/cbor.test.ts:129 'non-integer, non-string
  map keys are rejected'.
* `server/registration.ts:200`: The pending ceremony is looked up by the text
  the browser signed, so a padded spelling of the issued challenge finds no row
  and challengeMatches, which would accept it, is never asked.
  test/client-data.test.ts:100 says 'Same bytes, padded encoding: a browser that
  pads must not be rejected' and server/crypto/client-data.ts:53 'a padded vs.
  unpadded encoding of the same bytes still matches'.
* `server/crypto/cose.ts:209`: The cache is set to null before the probe's first
  await, so a second caller that arrives meanwhile finds null, not undefined,
  and throws unsupported_algorithm (or canVerifyAlgorithm answers false) on a
  runtime that has Ed25519. server/crypto/cose.ts:239 says 'True when this
  runtime can actually verify the given COSE algorithm' and :200 'Probe once, on
  first use, and cache'.
* `server/crypto/cose.ts:363`: derToP1363 stands before the try block of line
  377, so a malformed ECDSA signature throws bad_signature out of
  verifySignature. server/crypto/cose.ts:339 says 'Returns a boolean rather than
  throwing' and :361 'it is caught below'.
* `server/crypto/cose.ts:314`: The bytes of the modulus are counted after
  leading zero bytes are stripped, so 256 bytes that begin with 0x01 are a
  modulus of 2041 bits and pass. The message, server/crypto/cose.ts:315, says
  'refusing anything below 2048'.
* `server/crypto/x509.ts:173`: readInteger, readOID and readChildren are called
  with a child that need not exist (lines 173, 194, 203, 345-346), and the check
  of line 180 comes after the first of them. test/x509.test.ts:170 says 'garbage
  is rejected as parse_error, never as a TypeError'.
* `server/crypto/x509.ts:391`: A certificate presented above another must be a
  CA, a supplied root need not: the same root ends a chain that stops below it
  and not one that includes it. server/crypto/x509.ts:398 says 'The chain may
  already include the root, or stop just below it'.
* `server/crypto/x509.ts:287`: verifySignatureBy throws unsupported_feature for
  a signature algorithm it does not know, and chainIsTrusted does not catch it.
  server/crypto/x509.ts:281 says 'Returns false rather than throwing: an invalid
  signature is an expected outcome when walking a chain'.
* `server/crypto/attestation.ts:230`: A malformed signature of a self
  attestation throws bad_signature, a malformed nonce extension parse_error, an
  unknown alg unsupported_algorithm. server/crypto/attestation.ts:199 says
  'Throws `PasskeyError('attestation_failed')` if a statement is present but
  internally inconsistent'.
* `server/registration.ts:285`: verifyRegistration decides
  backup_flags_consistent (registered twelfth) before rp_id_hash (ninth), and
  backup_eligible_required (thirteenth) after attestation_statement
  (seventeenth). test/checks.test.ts:107 says 'the trace records checks in
  registry order' and samples only a response refused at the sixth check;
  shared/checks.ts:26 'Position in the verifier, 1-based. Order is itself a
  security property'.
* `server/registration.ts:335`: A rawId that does not match the attested
  credential throws malformed_response where the registry has parse_error
  (shared/checks.ts:185). shared/checks.ts:31 says of the code 'The code thrown
  when it fails'.
* `server/registration.ts:355`: The shape of the response, the flags, the key
  and the attestation statement are recorded once they have passed and throw
  past the trace when they do not, so the hook is told of no failure.
  server/config.ts:191 says 'Called as each verification check is decided, in
  order, pass or fail' and shared/checks.ts:4 'Both ceremony verifiers route
  every check through `trace.assert`'.

## Fairness

`FairSpec` assumes weak fairness of `Handle(r)` for each request: a handler whose
store call is outstanding gets its answer and goes on. The event loop and the
database provide that; `EveryRequestEnds` and `ContestedNameIsWon` are about runs
without failures (`Faults = FALSE`). Nothing is assumed of visitors,
authenticators or the clock: nobody has to answer a challenge. Every handler is a
straight line of at most five store calls without a loop or a wait for another
request, so weak fairness is enough.

The two race runs use `FairSpec` so that their counterexamples are behaviours of
a system that keeps going.

`ClientCeremony` assumes weak fairness of `Replies(c)` (a request is answered or
fails), of `Aborted(c)` (a browser rejects an aborted request) and of
`TimesOut(c)` (a browser ends a prompt nobody touches), the last not for the
autofill dropdown, which may wait for ever; of no visitor anything. `AutofillHook`
assumes that an aborted call ends, which is `AbortedCallsSettle` of
`ClientCeremony`. `BodyReader` assumes that Node reports the end of a stream that
has ended, and that the event loop comes to the answer; never that a client goes
on sending, which is why `OversizedIsAnswered` is worth stating. All other
properties of those runs are safety properties.

## The proofs

Eight modules prove, for every value of the constants that satisfies the
assumptions named in the modules:

| module | theorem | states |
|---|---|---|
| `PasskeyServerProofs` | `TypeCorrect`, `SingleUse`, `OneAccount` | `TypeOK`, `ChallengeSingleUse`, `OneAccountPerName` |
| `PasskeyServerBindingProofs` | `CredentialsBound`, `TermsKept` | `CredentialMatchesPasskey`, `CeremonyKeepsItsTerms` |
| | `LedgerImplemented` | `Spec => ImplementsLedger` |
| `PasskeyServerCredentialProofs` | `RevokedForGood`, `CounterBehindDevice` | `RevokedStaysRevoked`, `CounterNotAhead` |
| | `OnlyOwnersGain` | the action property `OnlySignedInGainPasskeys` |
| | `CounterOnlyByRace`, `LastOnlyByRace` | the action properties `CounterFallsOnlyToARace`, `LastGoesOnlyToARace`, of handlers that interleave as they may |
| `StoresProofs` | `RedisTyped`, `NamesAgree`, `OnlyCutsStrand`, `ListsAreSound`, `TakenOnce`, `KeysOutlive` | types and the five invariants of the Redis store |
| | `DatabasesAnswerAsMemory` | `AnswersAsMemoryStore`, of Postgres, SQLite and MongoDB with its ids indexed |
| `PageProofs` | `CallsAreTyped`, `OneRequest`, `AbortIsCancelled` | types, `OneRequestAtATime`, `AbortReadsAsCancelled`, of the client alone |
| | `PageCalls` | the calls of a page are those of the client: `PageSpec => Spec /\ []OneRequestAtATime` |
| | `OneCallPerHook`, `GoneHearNothing` | `HooksHoldOneCall`, the action property `TheGoneHearNothing` |
| | `PickerOffersWhatWorks`, `RemovalsAreShown` | `OfferedIsWhatWorks`, the action property `RemovalsShow` |
| `HttpProofs` | `ConfiguredSitesWork`, `AnsweredAlike`, `OutcomeArrives`, `BodiesReadWhole` | `EveryConfiguredOriginWorks`, `AdaptersAgree`, `OutcomeIsTold`, `BodiesAreWhole` |
| `ResponsesProofs` | `TrustProven`, `StatementsJudged`, `KeysServed` | `TrustIsProven`, `StatementsAreJudged`, `KeysServe` |
| | `TraceTrue` | `TraceTellsTheTruth`, of a response with any set of flaws |
| `DecoderProofs` | `Boundaries` | `BoundariesAreExact`, of every word of every length |
| | `OneSpellingEach` | `OneSpellingOnly`, for every base, width and order of a curve and every word |

Assumed of the server's constants are only these facts: `NameKey` is defined on all
names, bounds are naturals, `None` is none of the values it is set beside, and a
seed is a database as earlier ceremonies leave it (`ConsistentSeed`). TLC evaluates
all of them in every run. The model's own assumptions remain: an application of the
theorems to the code needs the actions to be faithful, the store's operations to
be atomic, and the authenticators to be honest.

Three have a hypothesis, and each is needed:

| theorem | hypothesis | without it |
|---|---|---|
| `NamesAgree` and the others of Redis | a seed is a table of rows | it is none that the code can leave |
| `DatabasesAnswerAsMemory` | the unique index folds names as the lookup does, and there is one on ids | Disagreements: Prisma on Postgres, MongoDB without the index |
| `RemovalsAreShown` | the browser hears of unknown passkeys | there is nobody to report to |

No theorem assumes that handlers, calls or requests do not overlap. Where the code
has a race that nothing excludes, the property itself says which interleaving it takes
(`LastGoesOnlyToARace`, `CounterFallsOnlyToARace`, `OfferedIsWhatWorks`,
`RemovalsShow`), or which input it does not speak of: a reason of the caller's own in
`AbortReadsAsCancelled`, a spelling or an unlisted suffix in
`EveryConfiguredOriginWorks`, three checks in `TraceTellsTheTruth`. Each of these
exceptions is an entry under Findings or Disagreements.

*TypeCorrect.* `TypeOK` is not inductive: `StoreCredential` writes a row whose
owner is `req[r].user`, and only the way the request came there says that it is
an account and not `None`. `TypeInv` adds that (`RequestOK`: what a handler knows
at each of its awaits; `RowOK`: a registration row has a user, and a name when
the account is new). Steps that only read share one lemma (`RequestStep`), steps
that write the tables another (`WritingStep`).

*SingleUse.* `ChallengeSingleUse` is not inductive either: that no request holds
a verified challenge rests on the row being gone before any request holds it and
on challenges being issued fresh. `OnePlace(c)` says that a challenge is in the
table, in one request, or spent, and never in two places. Most steps only let a
challenge go (`LetsGo`, `StillOnePlace`); the three that matter have a lemma
each: `SaveOnePlace`, `FinishOnePlace`, `ReplyOnePlace`.

*OneAccount.* Inductive as it stands. The proof shows where the promise comes
from: `UsersChange` finds that only `createUser` writes accounts, and the look
for the name in the same atomic step is all that is used. The check made when the
ceremony began plays no part.

*CredentialsBound and TermsKept.* Both are about four things that stand for one
ceremony at different times: the options sent, the row saved, the answer signed
and the request that handles it. `Agreement` says that they agree, and at each of
its awaits what a request has made sure of (`PendingOK`, `AccountOK`). A login is
sure whose passkey it has in hand because stored credentials match their
passkeys, and a registration stores a matching credential because of what it is
sure of, so neither is inductive without the other: `BindInv` is both. What a
request has made sure of stays so while it waits, since options, answers, handles
and accounts never change once they are there (`Grows`, `PendingStable`); what
does change in the meantime, credentials and their counters, is in none of it.

*LedgerImplemented.* Every step is one of three of the ledger's: `IssuingStep`,
`VerifyingStep`, and `ClosingStep` for the rest. The first needs that the rows it
sweeps belong to ceremonies that were over already, the second `OnePlace` (the
ceremony is open while a request holds it) and `PendingOK` (the account is one it
was open to), the third that a ceremony which is over is never revived
(`DeadStays`: its row is not saved again, the clock does not go back, and
`takeChallenge` answers null for an expired row).

*RevokedForGood.* A credential is known to the server when it is stored or was
removed. `PasskeyInv` says that each has one ceremony that made it, which is over by
then (`OneMaker`): an authenticator makes an id once, and the challenge it answered is
taken once, so no second registration gets as far as storing it. The two updates, of a login and of a rename, write only to a row that
is there, which is what the Redis store lacks.

*CounterBehindDevice.* Besides rows, `CountInv` bounds the answers that are still on
their way by the authenticator's counter. A login records the count of an answer,
whenever it comes to it; the counter of the authenticator never goes back, so the
order does not matter. An authenticator that does not count is at zero throughout,
in a seed too, which `ConsistentSeed` had to be told.

*OnlyOwnersGain.* An account without a session gains a passkey only by the ceremony
that makes it. `GainInv` follows that ceremony from the row (`isNew`) to the last
store call: no other ceremony founds the same account, the account exists only from
`createUser` on and has no passkey until `createCredential`; any other registration
is for an account that has a session, and was when it began.

*CounterOnlyByRace and LastOnlyByRace.* Nothing is assumed of how handlers
interleave. `CounterInv`: a login that waits to record has made sure that its count is
above the counter it had read, or has asked the hook; so a step that lowers the stored
counter has another counter before it than the one that was read. `DropInv`: of the
passkeys a removal counted, each is still the account's or is among the revoked
(`Counted`), whatever was added, renamed or signed in with since; so when a delete takes
the last one, the others it counted were revoked while it waited, and only a
removal revokes.

*The Redis store.* Under `RedisAssumption`, `RowsAreSome` (`None` is no row) and
`SeedsAreRows` (a seed is a table of rows). One invariant for each concern, and
nearly every action touches one of them: it leaves a call at a command the others
do not look at (`ThenFacts`). *Accounts*: a call at its SET still holds the name it
claimed. *Passkeys*: `OnlyCutCallsStrand` is not inductive, since a SET could write
back a row of another owner; `WriteBackInv` says that a row in hand is that of a
removed passkey or has the stored one's owner, and `RemoveInv` that only removed
passkeys leave a set. *Lists*: what was there all the time is in the part that was
read or in the part still to be read. *Challenges*: saved once, in Redis, in one
call's hand or handed out, in this order; GETDEL moves it. *Lifetimes*: the time
to live, rounded up and counted from a later moment, ends no earlier.

*The client.* `OneRequestAtATime` is not inductive alone: that `EndCeremony` of an
old call leaves the new one's controller in place needs that `activeCeremony` is
never a call the browser is not asking (`ActiveAsks`). `AbortReadsAsCancelled` needs
to know what a controller was aborted with. The first abort gives the reason, and it is
`AbortError` when a successor or the page's cancel gives it; the caller's own signal may
give any error, and what the property says then is that the error is that
signal's (`OwnReason`).

*The databases.* `AInv`: both databases are the same and so were the last two
answers. Each operation of a database whose traits are those of `FoldingStores` is
shown to do what it does with the traits of `MemoryStore`, for the calls a server
can make (`Legal`): ids of accounts are new, owners exist, an update has a column.

*The page.* `HInv`: whatever runs unaborted is what the ref names. `FInv`: only the
last run of an effect was not cleaned up. `LInv`, for a settings page: from the
moment a removal has returned, what it removed is neither on the server nor
in a list that was asked for since, by whichever call, however many others are answered
in between (`AskedAfter`). A list that was asked for before may still arrive and show
it, which is under Disagreements.
`GInv`, for the platform, about calls that overlap as they may: `Besides` keeps who
overlapped whom; `NewKeys` says that a passkey being registered is nobody else's, and
`ListOK` and `ReportOK` what a call that is about to hand over a list, or to report a
refusal, can be wrong about: only what was registered, or removed, beside it, or, of a
refusal, a passkey of another account. `HiddenOK` and `GoneOK` say the same of what was
handed over already.

*The edge.* `BInv`: until the cap is passed all that came is kept, and how the body
ended decides the promise and the reply. `RInv`: a handled request was answered by
each adapter as it would answer it, after which the theorems are about the two
orders of the same steps and the table of statuses, for any set of codes. `SInv`: a
constructed server follows from its configuration. The file of related origins is
complete because the server counts labels no lower than the browser does: where a
configuration declares its labels in full nothing is to be shown, and where the
table knows its suffixes, the label the browser takes is the last but the suffix, the
true label is a function of the optimistic one, so the true labels are no more
than the optimistic ones, and these are no more than the cap. That counts sets, and
the browser reads a file: it stops at the first label above the cap, which is never
reached in whatever order the entries stand.

*Chains.* `TrustIsProven` says that the first certificate of a trusted chain is in
every set that has what a given root signed, or is, and what an authority in the set
signed: trust as a least fixed point, without counting steps. The proof goes down the chain from
its end by induction over positions. The induction theorem of the library takes a
predicate as parameter, which the provers can not instantiate; `LeastMember` gets a
least number from the well-foundedness of proper inclusion between finite sets
(`WFMin`, `FS_StrictSubsetOrderingWellFounded`), and `Induction` follows with a *set*
of numbers in place of the predicate. `FirstOtherIs` says what the two loops of
`chainIsTrusted` find. Another root takes no trust away, since roots are asked
one after another and the first that ends the chain decides; it may, where an
algorithm is not known and asking throws (Disagreements).

*Statements.* `StatementInv`: nothing is answered before the end, and what goes on
past its first await with a chain has a leaf that was valid when the call began. Every
answer other than that of the whole path is `Plain`: it trusts nobody and accepts at
most that there is no statement.

*Keys.* The number that bytes stand for is a recursive function; `ValueIs` shows by
`Induction` that a row of values which follows the definition exists for every
length, after which padding in front and stripping in front keep the number. `KeyInv`:
an Ed25519 key in hand means that the name it was imported by is known, through the
awaits of the probe and beside any number of other calls. Keys have at least two bytes
of modulus (`ResponsesAssumption`; 256 in the code), since stripping keeps one.

*Traces.* `TraceInv` counts: the events are those of the checks behind the step a
verifier is at, all of them passed, and one more, failed and with the code thrown, if it
stopped at an assertion; no step behind it is flawed. The row of the challenge is as it
was before the fifth step and gone after it, and the sixth tells of it. The two
verifiers enter the proof as
their layout only (`Layout`): how many events come before each step; every check of the
registry is among the steps, and those registered above it are at earlier steps
(`Orderly`), with the registered code (`Coded`), the named exceptions apart; the
challenge is taken at the fifth step and accounts change at the end. How many flaws a
response has plays no part, while the run makes two at most.

*Boundaries.* That an item of CBOR ends where it ends is about two readings: of
the whole input, and of what was read, cut out. `Within` compares them at one
place: what is read from the whole input and ends in the cut is read from the cut
with the same value and end, and what is read from the cut is read from the whole.
It goes from one level of nesting to the next (`ReadValue`), within a level
from turn to turn of a loop over items (`ReadOne`, `Begun`), which needs that each
turn takes a byte, so that as many turns as there are bytes are enough for both
readings. For the deepest level it holds because nothing is read there.
`IntegersAreExact` and the fields of authenticator data follow by cases of the
head and of the flags, and `KeyStandsAlone` is the first part again, of the key. The children of a
DER element tile it because each begins where the one before ended
(`NextChild`). All inductions are over turns or levels, with `Induction` (Chains,
above), and the rows of turns and levels exist by the same lemma. No bound
on words, tokens, depth or the size of a hash is used.

*Spellings.* Two ways of writing a number are compared, digit by digit from the
end. `WordsAreOne`: words of one length with one value are one word, since the
last digit is the remainder and the rest the quotient; a longer word without a zero
in front has a larger value. So the digits that `readInteger` accepts, which begin
with at most the one zero that keeps them positive, are those `EncodeInteger` is left
with after it strips the zeros that `toFixedWidth` put in front, and the length of
the whole has one form. In the other direction a number below the order fits the
width: nothing remains to be divided (`FitsTheWidth`), which the code calls
unreachable (`ecdsa-der.ts:104`). The assumption on a curve is what this takes:
the numbers below the order have at most `Size` bytes, and two integers of one byte
more a length of one byte. An object identifier is
read by a loop; `Read` says that what came so far is what the complete arcs
are written as, and the one begun, with a continuation bit in each byte. One byte
keeps that (`OneByte`): an arc that does not begin with 0x80 is above zero from
its first byte on, so its bytes are those of the shortest form, and the bound
on arcs keeps it in the table of what numbers are written as.

Everything here holds for any number of requests, clients, calls, starts, bytes and
certificates; the runs show it on the bounds above.

### Only model-checked

* Liveness, which the prover does not reach: `EveryRequestEnds`,
  `ContestedNameIsWon`, `UnwantedCallsEnd`, `OversizedIsAnswered`.
* `NothingIsLost`: the encoder of the test kit calls itself for what is nested in
  a value, whose depth has no bound of its own; as a RECURSIVE operator it leaves the prover
  without its backend, and base64url is checked beside it.
* `KitJudgesRightly` is a computation over finite tables (the stores and mistakes of the
  kit), and TLC goes through all of them: a kit's verdict depends on the calls of its
  cases only.

## What is not modelled

* Digests, random numbers and the arithmetic of signatures: the platform's. What
  `importKey` and `verify` answer is a choice of the environment, what was signed
  by whom is a name.
* Dates and display names inside certificates; floats of CBOR wider than a half,
  beyond where they end; texts outside ASCII.
* `client/encoding.ts` and `client/capabilities.ts`: conversion field by field, and
  feature detection without state; base64url beneath them is `Base64Url`.
* `usePasskeySupport` only reads. `GET` routes of the server change nothing.
  `reset()` of `MemoryStore` is a test helper.
* Options of the server other than origin, rpID and related origins: each is a
  default or is refused by itself.
* `cli/` and `apps/docs`: file generation, diagnostics and documentation; nothing
  there outlives a call.
* The virtual authenticator is modelled as far as its counter; what it writes is
  read back in `AuthenticatorData`.
* Accounts are never removed, as passkify has no operation for it; the branches
  for an account that is gone are in the model and unreachable from a seed the code
  can leave. Sessions are the application's and do not expire in the model.
* One hazard has no property: the exclude list is as old as the start of a
  ceremony, so an authenticator may make two passkeys for one account in two
  ceremonies begun together. Nothing in the code or its documents says it may not.

## Plan

Done: the server and its ledger, the stores, the browser package, the server's
edge, and the reading and judging of responses, with their runs.

Proved since: every safety property of the runs but the two named above.

Next:

1. A composition of `PasskeyServer` with the commands of `RedisStore` in place of
   `PasskeyStore`'s operations, for challenges and for accounts.
