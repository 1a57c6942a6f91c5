---------------------------- MODULE HttpAdapters ----------------------------
(***************************************************************************)
(* One request through the two adapters, Express (server/http/express.ts)  *)
(* and fetch (fetch.ts), which share the routes (routes.ts); the bridges   *)
(* of the frameworks, which share the fetch handler; and what the browser  *)
(* package makes of the answer (client/transport.ts).  What the server     *)
(* behind the routes does is PasskeyServer's matter: here it answers, has  *)
(* nothing to answer, or throws.                                           *)
(***************************************************************************)
EXTENDS Naturals

CONSTANTS
    Thrown,      \* codes of the PasskeyErrors the server throws
    Answers,     \* what else the server does: ok, empty (null), crash
    Bodies       \* what the client posts: absent, good, oversized

VARIABLES request, express, fetch
vars == <<request, express, fetch>>

Routes == [verb : {"GET", "POST", "PATCH", "DELETE"},
           at : {"/register/start", "/register/finish", "/login/start", "/login/finish", "/signals",
                 "/credentials", "/credentials/id", "/credentials/%", "/", "wellKnown", "outside"}]

Requests == [route : Routes, body : Bodies, session : BOOLEAN, server : Thrown \cup Answers,
             hook : {"none", "headers", "response", "throws"}]

----------------------------------------------------------------------------
(* Errors: their status, and what is sent of them.                         *)

DefaultStatus(code) ==
    CASE code \in {"configuration_error", "unsupported_feature", "server_error"} -> 500
      [] code \in {"unknown_user", "unknown_credential"}                         -> 404
      [] code \in {"credential_exists", "last_credential"}                       -> 409
      [] code \in {"malformed_response", "parse_error"}                          -> 400
      [] code = "payload_too_large"                                              -> 413
      [] code = "counter_regression"                                             -> 403
      [] OTHER                                                                   -> 401

Answer(kind, status, code) == [kind |-> kind, status |-> status, code |-> code, cached |-> FALSE]
NotFound == Answer("not-found", 404, "not_found")
Fails(code) == Answer("error", DefaultStatus(code), code)
NoSession == Answer("error", 401, "unknown_user")
Crash == Fails("server_error")

----------------------------------------------------------------------------
(* dispatch                                                                *)

Route(verb, at) == [verb |-> verb, at |-> at]

\* Variant: the session is asked for where something is changed.
ClosedForWriting(route) == route.verb # "GET" /\ route.at \in {"/credentials/id", "/credentials/%"}

NeedsSession(route) ==
    route \in {Route("GET", "/signals"), Route("GET", "/credentials")} \cup
              [verb : {"GET", "POST", "PATCH", "DELETE"}, at : {"/credentials/id", "/credentials/%"}]

Served(route) ==
    \/ route.verb = "POST" /\ route.at \in {"/register/start", "/register/finish", "/login/start", "/login/finish"}
    \/ route \in {Route("GET", "/signals"), Route("GET", "/credentials"),
                  Route("DELETE", "/credentials/id"), Route("PATCH", "/credentials/id")}

FromServer(r) ==
    CASE r.server \in Thrown                              -> Fails(r.server)
      [] r.server = "crash"                               -> Crash
      [] r.server = "empty" /\ r.route.at = "/signals"    -> Answer("json", 204, "null")
      [] r.route.at = "/register/finish"                  -> Answer("registered", 200, "ok")
      [] r.route.at = "/login/finish"                     -> Answer("authenticated", 200, "ok")
      [] OTHER                                            -> Answer("json", 200, "ok")

Dispatch(r) ==
    IF r.route.at = "wellKnown"
      THEN IF r.route.verb = "GET" /\ r.server # "empty"
             THEN [Answer("json", 200, "ok") EXCEPT !.cached = TRUE] ELSE NotFound
    ELSE IF NeedsSession(r.route) /\ ~r.session THEN NoSession
    ELSE IF r.route.at = "/credentials/%" THEN Crash            \* decodeURIComponent throws
    ELSE IF ~Served(r.route) THEN NotFound
    ELSE IF r.route.verb = "PATCH" /\ r.body # "good" THEN Fails("malformed_response")
    ELSE FromServer(r)

\* Variant: the reply goes out and the hook is left to itself.
AfterReply(r, answer) == answer

\* onRegister and onLogin: awaited before the reply; a throw is a fault.
AfterHook(r, answer) ==
    IF answer.kind \in {"registered", "authenticated"} /\ r.hook = "throws" THEN Crash ELSE answer

----------------------------------------------------------------------------
(* The adapters.                                                           *)

Pass == Answer("next", 0, "none")       \* next(), or next(error)

Express(r) ==
    IF r.route.at = "outside" THEN Pass
    ELSE IF r.body = "oversized" /\ r.route.at # "wellKnown" THEN Fails("payload_too_large")
    ELSE LET answer == AfterHook(r, Dispatch(r)) IN
         IF answer.kind = "not-found" \/ answer.status >= 500 THEN Pass ELSE answer

\* Variant: a body is what a POST has.
UnreadUnlessPost(r) == [r EXCEPT !.body = IF r.route.verb = "POST" THEN @ ELSE "absent"]

\* The body of a GET is not read, and one that is read has no cap.
Unread(r) == [r EXCEPT !.body = IF r.route.verb = "GET" THEN "absent"
                                ELSE IF r.body = "oversized" THEN "good" ELSE @]

\* A Response with status 204 may not be given a body, not even "null".
Json(answer) == IF answer.status = 204 THEN Crash ELSE answer

Fetch(r) ==
    IF r.route.at = "outside" THEN Answer("json", 404, "configuration_error")
    ELSE LET answer == AfterHook(r, Dispatch(Unread(r))) IN
         IF r.hook = "response" /\ answer.kind \in {"registered", "authenticated"}
           THEN Answer("hook", 200, "ok") ELSE Json(answer)

\* Fastify registers the mount and, if there is a list, the well-known path.
Fastify(r) ==
    IF r.route.at = "outside" \/ (r.route.at = "wellKnown" /\ (r.route.verb # "GET" \/ r.server = "empty"))
      THEN Answer("framework", 404, "not_found") ELSE Fetch(r)

\* Next.js: the well-known path has a route of its own.
WellKnownRoute(r) ==
    IF r.server = "empty" THEN NotFound ELSE [Answer("json", 200, "ok") EXCEPT !.cached = TRUE]
Next_js(r) == IF r.route = Route("GET", "wellKnown") THEN WellKnownRoute(r) ELSE Fetch(r)

Hono(r) == Fetch(r)
Worker(r) == Fetch(r)
SvelteKit(r) == Fetch(r)
Remix(r) == Fetch(r)

\* Variant: a 404 is taken for a wrong baseUrl.
CodeSeenUnless404(answer) ==
    IF answer.status \in {200, 204} THEN "ok"
    ELSE IF answer.kind = "next" \/ answer.status = 404 THEN "server_error" ELSE answer.code

\* transport.ts: the code a caller of the browser package can branch on; what
\* the application makes of a request passed on has none.
CodeSeen(answer) ==
    IF answer.status \in {200, 204} THEN "ok"
    ELSE IF answer.kind = "next" THEN "server_error" ELSE answer.code

----------------------------------------------------------------------------
Waiting == Answer("waiting", 0, "none")

Init == request \in Requests /\ express = Waiting /\ fetch = Waiting

Handle ==
    /\ express = Waiting
    /\ express' = Express(request)
    /\ fetch' = Fetch(request)
    /\ UNCHANGED request

Next == Handle
Spec == Init /\ [][Next]_vars

Done == express # Waiting

----------------------------------------------------------------------------
\* What Express answers itself, the fetch handler answers alike, status and code
\* (routes.ts:4-6), but for a body above the cap, which only Express has, and for
\* a list of nothing, which only Express can send (204).
AdaptersAgree ==
    Done /\ express.kind # "next" /\ request.body # "oversized" /\ express.status # 204 =>
        fetch.status = express.status /\ CodeSeen(fetch) = CodeSeen(express)

\* An error the server throws on purpose reaches the browser's caller as the
\* same code, whichever framework is between them (transport.ts:4-6); a body above the
\* cap is refused before it gets there.
CodeSurvives ==
    Done /\ request.body # "oversized" /\ Dispatch(request).kind = "error" /\ Dispatch(request).status < 500 =>
        \A seen \in {Express(request), Fetch(request), Fastify(request), Next_js(request),
                     Hono(request), Worker(request), SvelteKit(request), Remix(request)} :
            CodeSeen(seen) = Dispatch(request).code

\* The list of an account's passkeys, and every change to them, is answered with
\* success only to a session (routes.ts:75-82, 152-183).
ManagingNeedsSession ==
    Done /\ request.route.at \in {"/signals", "/credentials", "/credentials/id"} /\ ~request.session
        => CodeSeen(express) # "ok" /\ CodeSeen(fetch) # "ok"

\* A session hook that fails is not reported as a success (express.ts:146-151,
\* fetch.ts:110-125), although the ceremony is over and cannot be repeated.
HookFailureShows ==
    Done /\ request.hook = "throws" /\ request.route.at \in {"/register/finish", "/login/finish"}
        => CodeSeen(express) # "ok" /\ CodeSeen(fetch) # "ok"
=============================================================================
