-------------------------------- MODULE Http --------------------------------
(***************************************************************************)
(* The server's edge.  A behaviour is a server that is configured and      *)
(* visited, a request through the adapters, or a body that is read.        *)
(***************************************************************************)
EXTENDS OriginConfig

CONSTANTS
    Edges,                     \* "sites", "request", "body"
    Thrown, Answers, Bodies,   \* of HttpAdapters
    Cap, MostBytes             \* of BodyReader

ASSUME HttpAssumption ==
    /\ Edges \subseteq {"sites", "request", "body"}
    /\ "ok" \notin Thrown
    /\ Answers \subseteq {"ok", "crash", "empty"}
    /\ Bodies \subseteq {"absent", "good", "oversized"}
    /\ Cap \in Nat /\ MostBytes \in Nat

VARIABLES
    edge,
    request, express, fetch,                                             \* of HttpAdapters
    left, total, ended, size, stored, overflowed, promise, reply         \* of BodyReader

adapters == <<request, express, fetch>>
body == <<left, total, ended, size, stored, overflowed, promise, reply>>
everything == <<edge, vars, adapters, body>>

D == INSTANCE HttpAdapters
B == INSTANCE BodyReader

\* What stays away from an edge begins as something fixed.
AnyRequest == [route |-> D!Route("GET", "/"), body |-> "absent", session |-> FALSE, server |-> "ok", hook |-> "none"]
AnyConfig == [origin |-> <<>>, rpID |-> None, related |-> FALSE, labels |-> <<>>]

HttpInit ==
    /\ edge \in Edges
    /\ IF edge = "sites" THEN Init ELSE config = AnyConfig /\ resolved = <<>> /\ attempt = <<>>
    /\ IF edge = "request" THEN D!Init ELSE request = AnyRequest /\ express = D!Waiting /\ fetch = D!Waiting
    /\ B!Init /\ (edge = "body" \/ total = 0)

HttpNext ==
    /\ UNCHANGED edge
    /\ \/ edge = "sites" /\ Next /\ UNCHANGED <<adapters, body>>
       \/ edge = "request" /\ D!Next /\ UNCHANGED <<vars, body>>
       \/ edge = "body" /\ B!Next /\ UNCHANGED <<vars, adapters>>

HttpSpec == HttpInit /\ [][HttpNext]_everything

\* Node reports the end of a stream, and the event loop comes to the answer.
FairHttpSpec ==
    /\ HttpSpec
    /\ WF_everything(edge = "body" /\ B!End /\ UNCHANGED <<edge, vars, adapters>>)
    /\ WF_everything(edge = "body" /\ B!Answer /\ UNCHANGED <<edge, vars, adapters>>)

----------------------------------------------------------------------------
\* Express and fetch answer alike (routes.ts:4-6).
AdaptersAgree == D!AdaptersAgree

\* What the browser is told is what happened: a code thrown on purpose arrives, a
\* failing session hook is no success, and nobody manages passkeys without a
\* session (transport.ts:4-6, express.ts:146-151, routes.ts:75-82).
OutcomeIsTold == D!CodeSurvives /\ D!HookFailureShows /\ D!ManagingNeedsSession

\* A body is kept up to the cap at most, and parsed whole or not at all
\* (express.ts:196-201, 212-218).
BodiesAreWhole == B!MemoryIsBounded /\ B!WholeBodiesOnly

\* A body above the cap is answered (express.ts:160-165).
OversizedIsAnswered == B!OversizedIsAnswered
=============================================================================
