----------------------------- MODULE HttpProofs -----------------------------
(***************************************************************************)
(* Theorems about Http: the sites of a configuration, a request through    *)
(* the adapters, and the reader of a body, for any hosts, codes and sizes. *)
(***************************************************************************)
EXTENDS Http, FiniteSetTheorems, SequenceTheorems, TLAPS

\* Whatever happens at the edge, each of its parts makes a step of its own or none.
LEMMA EdgeStep ==
  ASSUME [HttpNext]_everything
  PROVE  [Next]_vars /\ [edge = "request" /\ D!Next]_(D!vars) /\ [B!Next]_(B!vars) /\ UNCHANGED edge
  BY DEF HttpNext, everything, adapters, body, D!vars, B!vars

-----------------------------------------------------------------------------
(***************************************************************************)
(* The reader of a body.                                                   *)
(***************************************************************************)
ReaderTypes ==
  /\ left \in Nat /\ total \in Nat /\ size \in Nat /\ stored \in Nat
  /\ left <= total
  /\ ended \in {"open", "end", "error"}
  /\ overflowed \in BOOLEAN
  /\ promise \in {"pending", "read", "tooLarge", "broken"}
  /\ reply \in {"none", "413", "dispatched", "dispatchedEmpty"}

\* Until the cap is passed everything that came is kept; from then on nothing is.
AllIsCounted ==
  /\ ~overflowed => stored = total - left /\ size = stored /\ stored <= Cap
  /\ overflowed => stored = 0 /\ total > Cap
  /\ ended = "end" => left = 0

\* What the promise was settled with tells how the body ended.
PromiseTells ==
  /\ overflowed => promise = "tooLarge"
  /\ ~overflowed /\ ended = "open" => promise = "pending"
  /\ ~overflowed /\ ended = "end" => promise = "read"
  /\ ~overflowed /\ ended = "error" => promise = "broken"

ReplyTells ==
  /\ reply = "413" => promise = "tooLarge"
  /\ reply = "dispatched" => promise = "read" /\ stored > 0
  /\ reply = "dispatchedEmpty" => (promise = "read" /\ stored = 0) \/ promise = "broken"

BInv == ReaderTypes /\ AllIsCounted /\ PromiseTells /\ ReplyTells

-----------------------------------------------------------------------------
\* A reader starts with nothing read.
LEMMA ReaderInit == ASSUME B!Init PROVE BInv
  <1>1. total \in Nat /\ left = total /\ size = 0 /\ stored = 0
    BY HttpAssumption DEF B!Init
  <1>2. overflowed = FALSE /\ ended = "open" /\ promise = "pending" /\ reply = "none"
    BY DEF B!Init
  <1>3. ReaderTypes
    <2>1. left \in Nat /\ total \in Nat /\ size \in Nat /\ stored \in Nat /\ left <= total
      BY <1>1
    <2>2. overflowed \in BOOLEAN
      BY <1>2
    <2> QED BY <1>2, <2>1, <2>2 DEF ReaderTypes
  <1>4. AllIsCounted
    BY <1>1, <1>2, HttpAssumption DEF AllIsCounted
  <1>5. PromiseTells /\ ReplyTells
    BY <1>2 DEF PromiseTells, ReplyTells
  <1> QED BY <1>3, <1>4, <1>5 DEF BInv

\* A chunk is added, or the cap is passed and nothing is kept any more.
LEMMA ReaderData == ASSUME BInv, NEW n \in 1..MostBytes, B!Data(n) PROVE BInv'
  <1>1. /\ n \in Nat /\ n > 0 /\ n <= left /\ left' = left - n /\ ended = "open"
        /\ total' = total /\ ended' = ended /\ reply' = reply
    BY HttpAssumption DEF B!Data
  <1>2. CASE overflowed
    <2>1. size' = size /\ stored' = 0 /\ overflowed' /\ promise' = promise
      BY <1>2 DEF B!Data, B!Kept, B!PassesCap, BInv, PromiseTells, ReaderTypes
    <2> QED BY <1>1, <1>2, <2>1 DEF BInv, ReaderTypes, AllIsCounted, PromiseTells, ReplyTells
  <1>3. CASE ~overflowed /\ size + n > Cap
    <2>1. size' = size + n /\ stored' = 0 /\ overflowed' /\ promise' = "tooLarge" /\ promise = "pending"
      BY <1>1, <1>3 DEF B!Data, B!Kept, B!PassesCap, B!Settle, BInv, PromiseTells
    <2>2. total > Cap
      BY <1>1, <1>3, HttpAssumption DEF BInv, ReaderTypes, AllIsCounted
    <2>3. overflowed' = TRUE
      BY <1>3 DEF B!Data, B!PassesCap, BInv, ReaderTypes
    <2> QED BY <1>1, <1>3, <2>1, <2>2, <2>3 DEF BInv, ReaderTypes, AllIsCounted, PromiseTells, ReplyTells
  <1>4. CASE ~overflowed /\ ~(size + n > Cap)
    <2>1. size' = size + n /\ stored' = stored + n /\ promise' = promise /\ promise = "pending"
      BY <1>1, <1>4 DEF B!Data, B!Kept, B!PassesCap, BInv, PromiseTells
    <2>2. overflowed' = FALSE
      BY <1>4 DEF B!Data, B!PassesCap
    <2>3. /\ left' \in Nat /\ size' \in Nat /\ stored' \in Nat /\ left' <= total'
          /\ size' = stored' /\ stored' <= Cap /\ stored' = total' - left'
      BY <1>1, <1>4, <2>1, HttpAssumption DEF BInv, ReaderTypes, AllIsCounted
    <2>4. ReaderTypes'
      BY <1>1, <2>1, <2>2, <2>3 DEF BInv, ReaderTypes
    <2>5. AllIsCounted'
      BY <1>1, <2>2, <2>3 DEF AllIsCounted
    <2> QED BY <1>1, <1>4, <2>1, <2>2, <2>4, <2>5 DEF BInv, PromiseTells, ReplyTells
  <1> QED BY <1>2, <1>3, <1>4

\* Every step keeps the invariant.
LEMMA ReaderNext == ASSUME BInv, [B!Next]_(B!vars) PROVE BInv'
  <1>1. CASE B!End
    BY <1>1 DEF B!End, B!Settle, BInv, ReaderTypes, AllIsCounted, PromiseTells, ReplyTells
  <1>2. CASE B!Break
    BY <1>2 DEF B!Break, B!Settle, BInv, ReaderTypes, AllIsCounted, PromiseTells, ReplyTells
  <1>3. CASE B!Answer
    BY <1>3 DEF B!Answer, B!MayAnswer, BInv, ReaderTypes, AllIsCounted, PromiseTells, ReplyTells
  <1>4. CASE UNCHANGED B!vars
    BY <1>4 DEF B!vars, BInv, ReaderTypes, AllIsCounted, PromiseTells, ReplyTells
  <1> QED BY <1>1, <1>2, <1>3, <1>4, ReaderData DEF B!Next

\* However long a body is and however it is cut into chunks: no more than the cap
\* is kept at any time; what is dispatched is all of it, what is refused is above
\* the cap, and nothing is dispatched as empty that arrived (express.ts:82, 194-218).
THEOREM BodiesReadWhole == HttpSpec => []BodiesAreWhole
  <1>1. HttpInit => BInv
    BY ReaderInit DEF HttpInit
  <1>2. BInv /\ [HttpNext]_everything => BInv'
    BY ReaderNext, EdgeStep
  <1>3. BInv => BodiesAreWhole
    BY HttpAssumption DEF BInv, ReaderTypes, AllIsCounted, PromiseTells, ReplyTells,
       BodiesAreWhole, B!MemoryIsBounded, B!WholeBodiesOnly
  <1> QED BY <1>1, <1>2, <1>3, PTL DEF HttpSpec

-----------------------------------------------------------------------------
(***************************************************************************)
(* A request through the adapters.                                         *)
(***************************************************************************)

\* A request that was handled was answered by each adapter as it would answer it.
RInv ==
  /\ edge = "request" => request \in D!Requests
  /\ D!Done => edge = "request" /\ express = D!Express(request) /\ fetch = D!Fetch(request)

LEMMA RequestInit == ASSUME HttpInit PROVE RInv
  BY DEF HttpInit, RInv, D!Init, D!Done

LEMMA RequestNext == ASSUME RInv, [HttpNext]_everything PROVE RInv'
  <1>1. CASE edge = "request" /\ D!Next
    BY <1>1, EdgeStep DEF RInv, D!Next, D!Handle, D!Done
  <1>2. CASE UNCHANGED D!vars
    BY <1>2, EdgeStep DEF RInv, D!vars, D!Done
  <1> QED BY <1>1, <1>2, EdgeStep

\* What a request's fields are.
LEMMA RequestFields ==
  ASSUME NEW r \in D!Requests
  PROVE  /\ r = [route |-> r.route, body |-> r.body, session |-> r.session, server |-> r.server, hook |-> r.hook]
         /\ r.route \in D!Routes /\ r.body \in Bodies /\ r.session \in BOOLEAN /\ r.server \in Thrown \cup Answers
         /\ r.hook \in {"none", "headers", "response", "throws"}
  BY DEF D!Requests

\* The body apart, the fetch handler sees the request there is.
LEMMA UnreadFields ==
  ASSUME NEW r \in D!Requests
  PROVE  /\ D!Unread(r).route = r.route /\ D!Unread(r).session = r.session
         /\ D!Unread(r).server = r.server /\ D!Unread(r).hook = r.hook
  BY RequestFields DEF D!Unread

\* The routes do not tell whether a body that is not too long was read.
LEMMA UnreadAlike ==
  ASSUME NEW r \in D!Requests, r.body # "oversized"
  PROVE  /\ D!Dispatch(D!Unread(r)) = D!Dispatch(r)
         /\ \A answer : D!AfterHook(D!Unread(r), answer) = D!AfterHook(r, answer)
  <1> DEFINE u == D!Unread(r)
  <1>1. /\ u.route = r.route /\ u.session = r.session /\ u.server = r.server /\ u.hook = r.hook
        /\ r.route.verb # "GET" => u.body = r.body
    BY RequestFields DEF D!Unread
  <1> HIDE DEF u
  <1>2. D!FromServer(u) = D!FromServer(r)
    BY <1>1 DEF D!FromServer
  <1>3. r.route.verb = "PATCH" => u.body = r.body
    BY <1>1
  <1>4. D!Dispatch(u) = D!Dispatch(r)
    BY <1>1, <1>2, <1>3 DEF D!Dispatch
  <1>5. \A answer : D!AfterHook(u, answer) = D!AfterHook(r, answer)
    BY <1>1 DEF D!AfterHook
  <1> QED BY <1>4, <1>5 DEF u

\* What is sent when something is thrown is an error; its status is a number.
LEMMA StatusType == ASSUME NEW code PROVE D!DefaultStatus(code) \in 400..599
  BY DEF D!DefaultStatus

\* Express answers what the routes and the hook came to, unless it passes it on.
LEMMA ExpressAnswers ==
  ASSUME NEW r, r.body # "oversized", D!Express(r).kind # "next"
  PROVE  D!Express(r) = D!AfterHook(r, D!Dispatch(r)) /\ r.route.at # "outside"
  BY DEF D!Express, D!Pass, D!Answer

LEMMA FetchAnswers ==
  ASSUME NEW r \in D!Requests, r.body # "oversized", r.route.at # "outside"
  PROVE  LET answer == D!AfterHook(r, D!Dispatch(r))
         IN  D!Fetch(r) = IF r.hook = "response" /\ answer.kind \in {"registered", "authenticated"}
                            THEN D!Answer("hook", 200, "ok") ELSE D!Json(answer)
  BY UnreadAlike, RequestFields DEF D!Fetch, D!Unread

\* What the routes come to: nothing but a ceremony that is over is "registered" or
\* "authenticated", and it is a success.
LEMMA CeremoniesSucceed ==
  ASSUME NEW r, D!AfterHook(r, D!Dispatch(r)).kind \in {"registered", "authenticated"}
  PROVE  D!AfterHook(r, D!Dispatch(r)).status = 200
  BY DEF D!AfterHook, D!Dispatch, D!FromServer, D!Answer, D!NotFound, D!Fails, D!NoSession, D!Crash

\* Whatever the server throws and whatever the hook does: what Express answers
\* itself, the fetch handler answers alike, but for a body above the cap and for a
\* list of nothing (routes.ts:4-6).
THEOREM AnsweredAlike == HttpSpec => []AdaptersAgree
  <1>1. RInv => AdaptersAgree
    <2> SUFFICES ASSUME RInv, D!Done, express.kind # "next", request.body # "oversized", express.status # 204
                 PROVE  fetch.status = express.status /\ D!CodeSeen(fetch) = D!CodeSeen(express)
      BY DEF AdaptersAgree, D!AdaptersAgree
    <2> DEFINE answer == D!AfterHook(request, D!Dispatch(request))
    <2>1. request \in D!Requests /\ express = D!Express(request) /\ fetch = D!Fetch(request)
      BY DEF RInv
    <2>2. express = answer /\ request.route.at # "outside"
      BY <2>1, ExpressAnswers
    <2>3. D!Json(answer) = express
      BY <2>2 DEF D!Json
    <2>4. fetch = IF request.hook = "response" /\ answer.kind \in {"registered", "authenticated"}
                    THEN D!Answer("hook", 200, "ok") ELSE express
      BY <2>1, <2>2, <2>3, FetchAnswers
    <2>5. answer.kind \in {"registered", "authenticated"} => express.status = 200
      BY <2>2, CeremoniesSucceed
    <2> HIDE DEF answer
    <2> QED BY <2>4, <2>5 DEF D!CodeSeen, D!Answer
  <1> QED BY <1>1, RequestInit, RequestNext, PTL DEF HttpSpec

\* What is not a success, and says so.
Refusal(answer) ==
  /\ answer.kind \in {"error", "not-found"}
  /\ answer.status \in 400..599
  /\ answer.code # "ok"

LEMMA RefusalsShow ==
  ASSUME NEW answer, Refusal(answer)
  PROVE  D!CodeSeen(answer) # "ok" /\ D!Json(answer) = answer
  BY DEF Refusal, D!CodeSeen, D!Json

LEMMA FailsRefuses ==
  ASSUME NEW code, code # "ok"
  PROVE  Refusal(D!Fails(code)) /\ D!Fails(code).kind = "error" /\ D!Fails(code).code = code
  BY StatusType DEF Refusal, D!Fails, D!Answer

LEMMA FixedRefusals == Refusal(D!NotFound) /\ Refusal(D!NoSession) /\ Refusal(D!Crash)
  <1>1. Refusal(D!Crash)
    BY FailsRefuses DEF D!Crash
  <1> QED BY <1>1 DEF Refusal, D!NotFound, D!NoSession, D!Answer

\* What each adapter makes of a refusal is a refusal.
LEMMA RefusalsArrive ==
  ASSUME NEW r \in D!Requests,
         Refusal(D!AfterHook(r, D!Dispatch(r))),
         Refusal(D!AfterHook(D!Unread(r), D!Dispatch(D!Unread(r))))
  PROVE  D!CodeSeen(D!Express(r)) # "ok" /\ D!CodeSeen(D!Fetch(r)) # "ok"
  <1> DEFINE here == D!AfterHook(r, D!Dispatch(r))
             there == D!AfterHook(D!Unread(r), D!Dispatch(D!Unread(r)))
  <1>1. D!CodeSeen(D!Pass) # "ok"
    BY DEF D!CodeSeen, D!Pass, D!Answer
  <1>2. D!CodeSeen(D!Fails("payload_too_large")) # "ok"
    BY FailsRefuses, RefusalsShow
  <1>3. D!CodeSeen(here) # "ok"
    BY RefusalsShow
  <1>4. D!CodeSeen(D!Express(r)) # "ok"
    BY <1>1, <1>2, <1>3 DEF D!Express
  <1>5. there.kind \notin {"registered", "authenticated"} /\ D!CodeSeen(D!Json(there)) # "ok"
    BY RefusalsShow DEF Refusal
  <1>6. D!CodeSeen(D!Answer("json", 404, "configuration_error")) # "ok"
    BY DEF D!CodeSeen, D!Answer
  <1>7. there = D!AfterHook(r, D!Dispatch(D!Unread(r)))
    BY UnreadFields DEF D!AfterHook
  <1>8. D!Fetch(r) = D!Answer("json", 404, "configuration_error") \/ D!Fetch(r) = D!Json(there)
    BY <1>5, <1>7 DEF D!Fetch
  <1> QED BY <1>4, <1>5, <1>6, <1>8

\* A ceremony whose hook throws is refused.
LEMMA HookRefuses ==
  ASSUME NEW r, r.hook = "throws", r.route.at \in {"/register/finish", "/login/finish"},
         r.server \in Thrown \cup Answers
  PROVE  Refusal(D!AfterHook(r, D!Dispatch(r)))
  <1>1. \/ D!Dispatch(r) = D!NotFound
        \/ D!Dispatch(r) = D!FromServer(r)
        \/ D!Dispatch(r) = D!NoSession
        \/ D!Dispatch(r) = D!Fails("malformed_response")
    BY DEF D!Dispatch
  <1>2. \/ r.server \in Thrown /\ D!FromServer(r) = D!Fails(r.server)
        \/ D!FromServer(r) = D!Crash
        \/ D!FromServer(r).kind \in {"registered", "authenticated"}
    BY DEF D!FromServer, D!Answer
  <1>3. CASE D!FromServer(r).kind \in {"registered", "authenticated"} /\ D!Dispatch(r) = D!FromServer(r)
    BY <1>3, FixedRefusals DEF D!AfterHook
  <1>4. CASE Refusal(D!Dispatch(r))
    BY <1>4 DEF D!AfterHook, Refusal
  <1>5. r.server \in Thrown => Refusal(D!Fails(r.server))
    BY FailsRefuses, HttpAssumption
  <1> QED BY <1>1, <1>2, <1>3, <1>4, <1>5, FixedRefusals, FailsRefuses

\* Without a session nothing about an account's passkeys is answered.
LEMMA ManagingRefuses ==
  ASSUME NEW r, r.session = FALSE, r.route.at \in {"/signals", "/credentials", "/credentials/id"},
         r.route \in D!Routes
  PROVE  Refusal(D!AfterHook(r, D!Dispatch(r)))
  <1>1. r.route = D!Route(r.route.verb, r.route.at) /\ r.route.verb \in {"GET", "POST", "PATCH", "DELETE"}
    BY DEF D!Routes, D!Route
  <1>2. ~D!NeedsSession(r.route) => ~D!Served(r.route)
    BY <1>1 DEF D!NeedsSession, D!Served, D!Route
  <1>3. D!Dispatch(r) \in {D!NoSession, D!NotFound}
    BY <1>2 DEF D!Dispatch
  <1> QED BY <1>3, FixedRefusals DEF D!AfterHook, Refusal

\* An error thrown on purpose is what every framework answers.
LEMMA ErrorsSurvive ==
  ASSUME NEW r \in D!Requests, r.body # "oversized", D!Dispatch(r).kind = "error", D!Dispatch(r).status < 500
  PROVE  /\ D!Express(r) = D!Dispatch(r) /\ D!Fetch(r) = D!Dispatch(r) /\ r.route.at \notin {"outside", "wellKnown"}
         /\ D!CodeSeen(D!Dispatch(r)) = D!Dispatch(r).code
  <1> DEFINE d == D!Dispatch(r)
  <1>1. r.route.at \notin {"outside", "wellKnown"}
    <2>1. r.route.at = "wellKnown" => d.kind # "error"
      BY DEF D!Dispatch, D!Answer, D!NotFound
    <2>2. r.route.at = "outside" => d = D!NotFound
      BY DEF D!Dispatch, D!NeedsSession, D!Served, D!Route
    <2> QED BY <2>1, <2>2 DEF D!NotFound, D!Answer
  <1>2. d.status \in 400..599
    BY <1>1, StatusType DEF D!Dispatch, D!FromServer, D!Answer, D!NotFound, D!Fails, D!NoSession, D!Crash
  <1>3. D!AfterHook(r, d) = d
    BY DEF D!AfterHook
  <1>4. D!Json(d) = d /\ D!CodeSeen(d) = d.code
    BY <1>2 DEF D!Json, D!CodeSeen
  <1>5. D!Express(r) = d
    BY <1>1, <1>2, <1>3 DEF D!Express
  <1>6. D!Fetch(r) = d
    BY <1>1, <1>3, <1>4, FetchAnswers
  <1> QED BY <1>1, <1>4, <1>5, <1>6

\* Whatever is thrown, asked for and posted: a code thrown on purpose is the one
\* the caller sees, through every framework; a ceremony whose hook fails is no
\* success; and without a session no passkey is listed, renamed or deleted
\* (transport.ts:4-6, express.ts:146-151, fetch.ts:110-125, routes.ts:75-82).
THEOREM OutcomeArrives == HttpSpec => []OutcomeIsTold
  <1>1. RInv => OutcomeIsTold
    <2> SUFFICES ASSUME RInv, D!Done PROVE OutcomeIsTold
      BY DEF OutcomeIsTold, D!CodeSurvives, D!HookFailureShows, D!ManagingNeedsSession
    <2>1. request \in D!Requests /\ express = D!Express(request) /\ fetch = D!Fetch(request)
      BY DEF RInv
    <2>2. D!CodeSurvives
      <3> SUFFICES ASSUME request.body # "oversized", D!Dispatch(request).kind = "error", D!Dispatch(request).status < 500
                   PROVE  \A seen \in {D!Express(request), D!Fetch(request), D!Fastify(request), D!Next_js(request),
                                       D!Hono(request), D!Worker(request), D!SvelteKit(request), D!Remix(request)} :
                            D!CodeSeen(seen) = D!Dispatch(request).code
        BY DEF D!CodeSurvives
      <3>1. request.route.at \notin {"outside", "wellKnown"}
        BY <2>1, ErrorsSurvive
      <3>2. D!Fastify(request) = D!Fetch(request)
        BY <3>1 DEF D!Fastify
      <3>3. D!Next_js(request) = D!Fetch(request)
        BY <3>1 DEF D!Next_js, D!Route
      <3> QED BY <2>1, <3>2, <3>3, ErrorsSurvive DEF D!Hono, D!Worker, D!SvelteKit, D!Remix
    <2>3. D!HookFailureShows
      BY <2>1, HookRefuses, RefusalsArrive, UnreadFields, RequestFields DEF D!HookFailureShows
    <2>4. D!ManagingNeedsSession
      <3> SUFFICES ASSUME request.route.at \in {"/signals", "/credentials", "/credentials/id"}, ~request.session
                   PROVE  D!CodeSeen(express) # "ok" /\ D!CodeSeen(fetch) # "ok"
        BY DEF D!ManagingNeedsSession
      <3>1. request.session = FALSE /\ request.route \in D!Routes
        BY <2>1, RequestFields
      <3> QED BY <2>1, <3>1, ManagingRefuses, RefusalsArrive, UnreadFields
    <2> QED BY <2>2, <2>3, <2>4 DEF OutcomeIsTold
  <1> QED BY <1>1, RequestInit, RequestNext, PTL DEF HttpSpec

-----------------------------------------------------------------------------
(***************************************************************************)
(* The sites of a configuration.                                           *)
(***************************************************************************)

\* A host has labels.
LEMMA HostIsSeq ==
  ASSUME NEW h \in Hosts
  PROVE  h \in Seq({h[i] : i \in DOMAIN h}) /\ Len(h) \in Nat /\ Len(h) >= 1
  <1>1. h \in Seq({h[i] : i \in DOMAIN h}) /\ h # <<>>
    BY OriginAssumption
  <1>2. Len(h) \in Nat
    BY <1>1, LenProperties
  <1>3. Len(h) # 0
    BY <1>1
  <1> QED BY <1>1, <1>2, <1>3

\* Where the table lists the suffix, the label counted is the browser's; a host that
\* is a suffix itself is counted as its two labels and is one to the browser.
LEMMA LabelShapes ==
  ASSUME NEW h \in Hosts, Listed(h)
  PROVE  \/ Len(Optimistic(h)) = 1 /\ TrueLabel(h) = Optimistic(h)
         \/ Len(Optimistic(h)) = 2 /\ TrueLabel(h) = <<Optimistic(h)[1]>>
  <1>1. Len(h) \in Nat /\ Len(h) >= 1
    BY HostIsSeq
  <1>2. CASE Len(h) < 2
    <2>1. \A n \in Nat : n >= 1 /\ n < 2 => n = 1
      OBVIOUS
    <2>2. Len(h) = 1
      BY <1>1, <1>2, <2>1, Zenon
    <2>3. Optimistic(h) = h
      BY <1>2 DEF Optimistic
    <2>4. TrueLabel(h) = h
      BY <1>2 DEF TrueLabel
    <2> QED BY <2>2, <2>3, <2>4
  <1>3. CASE Len(h) >= 2 /\ LastTwo(h) \notin Table
    <2>1. LastTwo(h) \notin TrueSuffixes
      BY <1>3 DEF Listed
    <2>2. TrueLabel(h) = Label(h, 1) /\ Optimistic(h) = Label(h, 1)
      BY <1>1, <1>3, <2>1 DEF Optimistic, TrueLabel
    <2> QED BY <2>2 DEF Label
  <1>4. CASE Len(h) >= 3 /\ LastTwo(h) \in Table
    <2>1. TrueLabel(h) = Label(h, 2) /\ Optimistic(h) = Label(h, 2)
      BY <1>1, <1>4, OriginAssumption DEF Optimistic, TrueLabel
    <2> QED BY <2>1 DEF Label
  <1>5. CASE Len(h) = 2 /\ LastTwo(h) \in Table
    <2>1. TrueLabel(h) = <<h[1]>> /\ Optimistic(h) = SubSeq(h, 1, 2)
      BY <1>1, <1>5 DEF Optimistic, TrueLabel, LastTwo, Label
    <2>2. SubSeq(h, 1, 2) = h
      BY <1>5, HostIsSeq, SubSeqFull
    <2> QED BY <2>1, <2>2, <1>5
  <1>6. \A n \in Nat : n < 2 \/ (n = 2 /\ n >= 2) \/ (n >= 3 /\ n >= 2)
    OBVIOUS
  <1>7. Len(h) < 2 \/ (Len(h) = 2 /\ Len(h) >= 2) \/ (Len(h) >= 3 /\ Len(h) >= 2)
    BY <1>1, <1>6, Zenon
  <1> QED BY <1>2, <1>3, <1>4, <1>5, <1>7

\* So there are no more labels than were counted.
LEMMA NoMoreLabels ==
  ASSUME NEW S \in SUBSET Hosts, IsFiniteSet(S), \A h \in S : Listed(h)
  PROVE  /\ IsFiniteSet({Optimistic(h) : h \in S}) /\ IsFiniteSet(TrueLabels(S))
         /\ Cardinality(TrueLabels(S)) <= Cardinality({Optimistic(h) : h \in S})
  <1> DEFINE O == {Optimistic(h) : h \in S}
             f == [h \in S |-> Optimistic(h)]
             g == [x \in O |-> IF Len(x) = 2 THEN <<x[1]>> ELSE x]
  <1>1. f \in Surjection(S, O)
    BY DEF Surjection
  <1>2. IsFiniteSet(O)
    BY <1>1, FS_Surjection
  <1>3. \A h \in S : g[Optimistic(h)] = TrueLabel(h)
    BY LabelShapes
  <1>4. g \in Surjection(O, TrueLabels(S))
    <2>1. g \in [O -> TrueLabels(S)]
      BY <1>3 DEF TrueLabels
    <2>2. \A t \in TrueLabels(S) : \E x \in O : g[x] = t
      BY <1>3 DEF TrueLabels
    <2> QED BY <2>1, <2>2 DEF Surjection
  <1> QED BY <1>2, <1>4, FS_Surjection

LEMMA ConfigFields ==
  ASSUME NEW c \in Configs
  PROVE  Len(c.origin) \in Nat /\ \A i \in 1..Len(c.origin) : c.origin[i] \in Entries
  <1>1. c.origin \in SeqOf(Entries, Most)
    BY DEF Configs
  <1>2. PICK m \in 0..Most : c.origin \in [1..m -> Entries]
    BY <1>1 DEF SeqOf
  <1>3. m \in Nat
    OBVIOUS
  <1>4. Len(c.origin) = m
    BY <1>2, <1>3
  <1> QED BY <1>2, <1>3, <1>4

\* What was declared is a finite set.
LEMMA DeclaredFinite ==
  ASSUME NEW c \in Configs, c.labels # <<>>
  PROVE  IsFiniteSet(c.labels[1])
  <1>1. c.labels \in SeqOf(Declared, 1)
    BY DEF Configs
  <1>2. PICK m \in 0..1 : c.labels \in [1..m -> Declared]
    BY <1>1 DEF SeqOf
  <1>3. m = 1
    <2>1. m = 0 => c.labels = <<>>
      BY <1>2
    <2> QED BY <2>1
  <1>4. c.labels[1] \in Declared
    BY <1>2, <1>3
  <1> QED BY <1>4, OriginAssumption

\* There are finitely many entries that are plain strings.
LEMMA FiniteStrings ==
  ASSUME NEW c \in Configs
  PROVE  IsFiniteSet(Strings(c)) /\ Strings(c) \subseteq Entries
         /\ IsFiniteSet(StringHosts(c)) /\ StringHosts(c) \subseteq Hosts
  <1> DEFINE I == {j \in 1..Len(c.origin) : IsString(c.origin[j])}
             f == [i \in I |-> c.origin[i]]
             g == [e \in Strings(c) |-> e.host]
  <1>1. IsFiniteSet(1..Len(c.origin))
    <2>1. Len(c.origin) \in Int /\ 1 \in Int
      BY ConfigFields
    <2> QED BY <2>1, FS_Interval
  <1>2. IsFiniteSet(I)
    BY <1>1, FS_Subset
  <1>3. f \in Surjection(I, Strings(c))
    BY DEF Surjection, Strings
  <1>4. IsFiniteSet(Strings(c))
    BY <1>2, <1>3, FS_Surjection
  <1>5. g \in Surjection(Strings(c), StringHosts(c))
    BY DEF Surjection, StringHosts
  <1>6. IsFiniteSet(StringHosts(c))
    BY <1>4, <1>5, FS_Surjection
  <1>7. Strings(c) \subseteq Entries
    BY ConfigFields DEF Strings
  <1>8. StringHosts(c) \subseteq Hosts
    BY <1>7 DEF StringHosts, Entries
  <1> QED BY <1>4, <1>6, <1>7, <1>8

\* The file lists every plain string.
LEMMA FileLists ==
  ASSUME NEW c \in Configs, c.related, NEW file \in Published(c)
  PROVE  /\ Len(file) \in Nat
         /\ \A i \in 1..Len(file) : file[i].host \in StringHosts(c)
         /\ \A h \in StringHosts(c) : \E i \in 1..Len(file) : file[i].host = h
  <1> DEFINE n == Cardinality(Strings(c))
  <1>1. file \in SetToSeqs(Strings(c))
    BY DEF Published
  <1>2. n \in Nat
    BY FiniteStrings, FS_CardinalityType
  <1>3. file \in [1..n -> Strings(c)] /\ \A i, j \in 1..n : i # j => file[i] # file[j]
    BY <1>1 DEF SetToSeqs
  <1> HIDE DEF n
  <1>4. Len(file) = n
    BY <1>2, <1>3
  <1>5. file \in Injection(1..n, Strings(c))
    BY <1>3 DEF Injection, IsInjective
  <1>6. Cardinality(1..n) = n
    BY <1>2, FS_Interval
  <1>7. file \in Surjection(1..n, Strings(c))
    BY <1>5, <1>6, FiniteStrings, FS_Injection DEF n
  <1>8. \A e \in Strings(c) : \E i \in 1..n : file[i] = e
    BY <1>7 DEF Surjection
  <1> QED BY <1>2, <1>3, <1>4, <1>8 DEF StringHosts

\* A browser reads all of it.
LEMMA FileIsRead ==
  ASSUME NEW c \in Configs, c.related, CanPublish(c), LabelsKnown(c), NEW file \in Published(c)
  PROVE  ReadByBrowser(file) = 1..Len(file)
  <1> SUFFICES ASSUME NEW i \in 1..Len(file)
               PROVE  Cardinality(TrueLabels({file[j].host : j \in 1..i})) <= MaxLabels
    BY DEF ReadByBrowser
  <1> DEFINE read == {file[j].host : j \in 1..i}
             counted == Effective(c)
  <1>1. read \subseteq StringHosts(c)
    BY FileLists
  <1>2. TrueLabels(read) \subseteq TrueLabels(StringHosts(c))
    BY <1>1 DEF TrueLabels
  <1>3. /\ IsFiniteSet(TrueLabels(StringHosts(c)))
        /\ IsFiniteSet(counted)
        /\ Cardinality(TrueLabels(StringHosts(c))) <= Cardinality(counted)
    <2>1. CASE c.labels = <<>>
      <3>1. \A h \in StringHosts(c) : Listed(h)
        BY <2>1 DEF LabelsKnown
      <3>2. counted = {Optimistic(h) : h \in StringHosts(c)}
        BY <2>1 DEF Effective
      <3> HIDE DEF counted
      <3> QED BY <3>1, <3>2, FiniteStrings, NoMoreLabels
    <2>2. CASE c.labels # <<>>
      <3>1. TrueLabels(StringHosts(c)) \subseteq c.labels[1]
        BY <2>2 DEF LabelsKnown
      <3>2. counted = c.labels[1]
        BY <2>2 DEF Effective
      <3>3. IsFiniteSet(c.labels[1])
        BY <2>2, DeclaredFinite
      <3> HIDE DEF counted
      <3> QED BY <3>1, <3>2, <3>3, FS_Subset
    <2> QED BY <2>1, <2>2
  <1>4. /\ IsFiniteSet(TrueLabels(read))
        /\ Cardinality(TrueLabels(read)) <= Cardinality(TrueLabels(StringHosts(c)))
    BY <1>2, <1>3, FS_Subset
  <1>5. Cardinality(counted) <= MaxLabels
    BY DEF CanPublish
  <1>6. /\ Cardinality(TrueLabels(read)) \in Nat /\ Cardinality(counted) \in Nat
        /\ Cardinality(TrueLabels(StringHosts(c))) \in Nat /\ MaxLabels \in Nat
    BY <1>3, <1>4, FS_CardinalityType, OriginAssumption
  <1> HIDE DEF read, counted
  <1>7. Cardinality(TrueLabels(read)) <= MaxLabels
    BY <1>3, <1>4, <1>5, <1>6
  <1> QED BY <1>7 DEF read

\* The browser lets a configured site use the rpID, and the server accepts it.
LEMMA SiteWorks ==
  ASSUME NEW c \in Configs, Accepted(c), LabelsKnown(c), NEW file \in Published(c),
         NEW h, \E e \in Strings(c) : e.host = h /\ e.spelling = "canonical"
  PROVE  BrowserAllows(Resolved(c, file), h) /\ OriginAllowed(Resolved(c, file), h)
  <1> DEFINE r == Resolved(c, file)
  <1>1. r.rpID = RpID(c) /\ r.origins = c.origin /\ r.file = file
    BY DEF Resolved
  <1> HIDE DEF r
  <1>2. OriginAllowed(r, h) /\ h \in StringHosts(c)
    BY <1>1 DEF OriginAllowed, StringHosts, Strings
  <1>3. CASE ~c.related
    <2>1. IsRegistrableSuffix(h, RpID(c))
      BY <1>2, <1>3 DEF Accepted, RpIDFits
    <2> QED BY <1>1, <1>2, <2>1 DEF BrowserAllows, r
  <1>4. CASE c.related
    <2>1. PICK own \in StringHosts(c) : IsRegistrableSuffix(own, RpID(c))
      BY <1>4 DEF Accepted, RpIDFits
    <2>2. \E i \in 1..Len(c.origin) : c.origin[i].host = own
      BY DEF StringHosts, Strings
    <2>3. \E i \in 1..Len(r.origins) : IsRegistrableSuffix(r.origins[i].host, r.rpID)
      BY <1>1, <2>1, <2>2
    <2>4. ReadByBrowser(file) = 1..Len(file)
      BY <1>4, FileIsRead DEF Accepted
    <2>5. \E i \in ReadByBrowser(r.file) : r.file[i].host = h
      BY <1>1, <1>2, <1>4, <2>4, FileLists
    <2> QED BY <1>2, <2>3, <2>5 DEF BrowserAllows, r
  <1> QED BY <1>3, <1>4

\* A server that was constructed follows from its configuration, and a visit was
\* judged by that server.
SInv ==
  /\ edge = "sites" => config \in Configs
  /\ resolved = <<>> => attempt = <<>>
  /\ resolved # <<>> =>
       /\ edge = "sites" /\ Accepted(config)
       /\ \E file \in Published(config) : resolved = <<Resolved(config, file)>>
  /\ attempt = <<>> \/
       \E h \in Hosts : attempt = <<[host |-> h, asked |-> BrowserAllows(resolved[1], h),
                                     allowed |-> OriginAllowed(resolved[1], h)]>>

LEMMA SitesInit == ASSUME HttpInit PROVE SInv
  BY DEF HttpInit, Init, SInv

LEMMA SitesNext == ASSUME SInv, [HttpNext]_everything PROVE SInv'
  <1>1. edge' = edge
    BY EdgeStep
  <1>2. CASE edge = "sites" /\ Construct
    <2>1. PICK file \in Published(config) : resolved' = <<Resolved(config, file)>>
      BY <1>2 DEF Construct
    <2>2. config' = config /\ attempt' = attempt /\ attempt = <<>> /\ Accepted(config)
      BY <1>2 DEF Construct, SInv
    <2> QED BY <1>1, <1>2, <2>1, <2>2 DEF SInv
  <1>3. ASSUME NEW h \in Hosts, edge = "sites", Visit(h) PROVE SInv'
    <2>1. config' = config /\ resolved' = resolved /\ resolved # <<>>
      BY <1>3 DEF Visit
    <2>2. attempt' = <<[host |-> h, asked |-> BrowserAllows(resolved'[1], h),
                        allowed |-> OriginAllowed(resolved'[1], h)]>>
      BY <1>3, <2>1 DEF Visit
    <2> QED BY <1>1, <2>1, <2>2 DEF SInv
  <1>4. CASE UNCHANGED vars
    BY <1>1, <1>4 DEF vars, SInv
  <1>5. \/ edge = "sites" /\ Construct
        \/ edge = "sites" /\ \E h \in Hosts : Visit(h)
        \/ UNCHANGED vars
    BY DEF HttpNext, everything, Next
  <1> QED BY <1>2, <1>3, <1>4, <1>5

\* Whatever sites are configured: a server that could be constructed, and whose
\* labels are declared in full or worked out from suffixes the table lists,
\* completes the ceremonies of every site that a plain string names as browsers
\* write it, and the browser reads the whole file, in whatever order its entries
\* are (related-origin.ts:9-14, 212-215, config.ts:398-400).
THEOREM ConfiguredSitesWork == HttpSpec => []EveryConfiguredOriginWorks
  <1>1. SInv => EveryConfiguredOriginWorks
    <2> SUFFICES ASSUME SInv, NEW i \in 1..Len(attempt), Configured(attempt[i].host), LabelsKnown(config)
                 PROVE  attempt[i].asked /\ attempt[i].allowed
      BY DEF EveryConfiguredOriginWorks
    <2>1. attempt # <<>> /\ resolved # <<>>
      BY DEF SInv
    <2>2. PICK h \in Hosts : attempt = <<[host |-> h, asked |-> BrowserAllows(resolved[1], h),
                                          allowed |-> OriginAllowed(resolved[1], h)]>>
      BY <2>1 DEF SInv
    <2>3. i = 1 /\ attempt[i].host = h
      BY <2>2
    <2>4. PICK file \in Published(config) : resolved = <<Resolved(config, file)>>
      BY <2>1 DEF SInv
    <2>5. resolved[1] = Resolved(config, file)
      BY <2>4
    <2>6. config \in Configs /\ Accepted(config)
          /\ \E e \in Strings(config) : e.host = h /\ e.spelling = "canonical"
      BY <2>1, <2>3 DEF SInv, Configured
    <2>7. BrowserAllows(resolved[1], h) /\ OriginAllowed(resolved[1], h)
      BY <2>5, <2>6, SiteWorks
    <2> QED BY <2>2, <2>3, <2>7
  <1> QED BY <1>1, SitesInit, SitesNext, PTL DEF HttpSpec

=============================================================================
