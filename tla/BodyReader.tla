----------------------------- MODULE BodyReader -----------------------------
(***************************************************************************)
(* readJsonBody of the Express adapter (server/http/express.ts:179-228):   *)
(* a request body that arrives in chunks, of any size, is read up to a cap *)
(* and answered, also while the rest of it is still arriving.              *)
(***************************************************************************)
EXTENDS Naturals

CONSTANTS
    Cap,             \* MAX_BODY_BYTES, in units of a small chunk
    MostBytes        \* the longest body a client sends

VARIABLES
    left,            \* bytes the client has still to send
    total,           \* bytes it set out to send
    ended,           \* the stream: open, end or error
    size, stored, overflowed,
    promise,         \* pending, read, tooLarge or broken
    reply            \* none, 413 or dispatched

vars == <<left, total, ended, size, stored, overflowed, promise, reply>>

Init ==
    /\ total \in 0..MostBytes /\ left = total
    /\ ended = "open"
    /\ size = 0 /\ stored = 0 /\ overflowed = FALSE
    /\ promise = "pending" /\ reply = "none"

\* A promise settles once.
Settle(outcome) == promise' = IF promise = "pending" THEN outcome ELSE promise

\* Variant: a chunk is kept before the cap is looked at.
KeepThenCheck(n) == stored + n

\* Nothing is kept once the cap is passed, and what was kept is let go.
Kept(n) == IF overflowed \/ size + n > Cap THEN 0 ELSE stored + n

\* Variant: a body of exactly the cap is too long.
PassesCapEarly(n) == size + n >= Cap

PassesCap(n) == size + n > Cap

Data(n) ==
    /\ ended = "open" /\ n <= left
    /\ left' = left - n
    /\ size' = IF overflowed THEN size ELSE size + n
    /\ stored' = Kept(n)
    /\ overflowed' = (overflowed \/ PassesCap(n))
    /\ IF ~overflowed /\ PassesCap(n) THEN Settle("tooLarge") ELSE UNCHANGED promise
    /\ UNCHANGED <<total, ended, reply>>

End ==
    /\ ended = "open" /\ left = 0 /\ ended' = "end"
    /\ Settle("read")
    /\ UNCHANGED <<left, total, size, stored, overflowed, reply>>

\* The client goes away; Node reports an error.
Break ==
    /\ ended = "open" /\ left > 0 /\ ended' = "error"
    /\ Settle("broken")
    /\ UNCHANGED <<left, total, size, stored, overflowed, reply>>

\* Variant: the answer waits for the end of the upload.
MayAnswerAfterEnd == ended # "open"

MayAnswer == promise # "pending"

\* A body that was read is parsed and dispatched; a broken one as if it were
\* absent; one that is too large is refused.
Answer ==
    /\ reply = "none" /\ MayAnswer
    /\ reply' = IF promise = "tooLarge" THEN "413"
                ELSE IF promise = "read" /\ stored > 0 THEN "dispatched" ELSE "dispatchedEmpty"
    /\ UNCHANGED <<left, total, ended, size, stored, overflowed, promise>>

Next == (\E n \in 1..MostBytes : Data(n)) \/ End \/ Break \/ Answer

\* Node reports the end of a stream, and the event loop comes to the answer; a
\* client need not go on sending.
Spec == Init /\ [][Next]_vars /\ WF_vars(End) /\ WF_vars(Answer)

----------------------------------------------------------------------------
\* Memory holds no more than the cap at any time, whatever is sent
\* (express.ts:82, 196-201).
MemoryIsBounded == stored <= Cap

\* What is parsed is the whole body: never the beginning of one that was cut off,
\* and every body within the cap that arrives (express.ts:194, 212-218).
WholeBodiesOnly ==
    /\ reply = "dispatched" => stored = total /\ total <= Cap
    /\ reply = "413" => total > Cap
    /\ reply = "dispatchedEmpty" => total = 0 \/ ended = "error"

\* A body above the cap is refused even if its client never ends it
\* (express.ts:160-165, errors.ts:28-32).
OversizedIsAnswered == overflowed ~> reply = "413"
=============================================================================
