--------------------------- MODULE ClientCeremony ---------------------------
(***************************************************************************)
(* The browser half of the ceremonies (client/ceremony.ts, index.ts,       *)
(* transport.ts, errors.ts): calls of register, login and                  *)
(* signInWithAutofill on one page, which share the module-level variable   *)
(* activeCeremony and the one WebAuthn request a browser allows.           *)
(*                                                                         *)
(* Calls are numbered in the order in which they are made.  A call makes a *)
(* step where its promise settles; what it does until the next await is    *)
(* that step.                                                              *)
(***************************************************************************)
EXTENDS Naturals

CONSTANTS
    Count,       \* how many calls the page makes
    Reasons      \* what the page's own signals abort with: names, or codes of a PasskeyError

ASSUME CountAssumption == Count \in Nat \ {0}

Calls == 1..Count
Nobody == 0

VARIABLES
    call,        \* what has become of each call
    active       \* activeCeremony: the call whose controller it is, or Nobody

vars == <<call, active>>

Kinds == {"register", "login", "autofill"}
NoAbort == "none"

ASSUME ReasonsAssumption == NoAbort \notin Reasons

----------------------------------------------------------------------------
(* Names of the errors a browser rejects with, and what callers see.       *)

BrowserErrors == {"NotAllowedError", "InvalidStateError", "SecurityError",
                  "NotSupportedError", "ConstraintError", "TypeError"}

Codes == {"cancelled", "already_registered", "insecure_context", "unsupported", "not_allowed"}

\* What request() throws: the code the server sent, or server_error when no
\* answer, or none that says why, arrives.
RequestErrors == {"server_error", "unknown_credential"}

\* Variant: an aborted request is reported like an unknown failure.
TranslateWithoutAbort(name) ==
    CASE name \in Codes \cup RequestErrors -> name
      [] name = "NotAllowedError"         -> "cancelled"
      [] name = "InvalidStateError"       -> "already_registered"
      [] OTHER                            -> "not_allowed"

\* A PasskeyError, told here by its code, is passed on as it is.
TranslateWebAuthnError(name) ==
    CASE name \in Codes \cup RequestErrors            -> name
      [] name \in {"NotAllowedError", "AbortError"} -> "cancelled"
      [] name = "InvalidStateError"                 -> "already_registered"
      [] name = "SecurityError"                     -> "insecure_context"
      [] name = "NotSupportedError"                 -> "unsupported"
      [] OTHER                                      -> "not_allowed"

----------------------------------------------------------------------------
Init ==
    /\ call = [c \in Calls |->
                 [kind |-> "login", pc |-> "idle", result |-> "none",
                  signal |-> NoAbort,        \* the reason the page's signal fired with
                  controller |-> "none",     \* none, live or aborted
                  why |-> NoAbort]]          \* the reason the controller aborted with
    /\ active = Nobody

Settle(c, result) == [call EXCEPT ![c].pc = "done", ![c].result = result]

\* f with the controller of c aborted, if it is live: an abort is the last one.
Abort(f, c, reason) ==
    IF c \in Calls /\ f[c].controller = "live"
      THEN [f EXCEPT ![c].controller = "aborted", ![c].why = reason]
      ELSE f

\* A page calls; before autofill the browser is asked whether it can do it.
Begin(c, kind) ==
    /\ call[c].pc = "idle"
    /\ \A b \in 1..c - 1 : call[b].pc # "idle"
    /\ call' = [call EXCEPT ![c].kind = kind,
                            ![c].pc = IF kind = "autofill" THEN "probing" ELSE "starting"]
    /\ UNCHANGED active

Probed(c) ==
    /\ call[c].pc = "probing"
    /\ \/ call' = [call EXCEPT ![c].pc = "starting"]
       \/ call' = Settle(c, "null")
    /\ UNCHANGED active

StartFails(c) ==
    /\ call[c].pc = "starting"
    /\ call' = Settle(c, "server_error")
    /\ UNCHANGED active

\* Variant: a signal that fired before the options arrived is not looked at.
LinkLateSignal(f, c) == [f EXCEPT ![c].controller = "live"]

\* The new controller follows the page's signal, also one that fired already.
LinkSignal(f, c) ==
    IF f[c].signal = NoAbort
      THEN [f EXCEPT ![c].controller = "live"]
      ELSE [f EXCEPT ![c].controller = "aborted", ![c].why = f[c].signal]

\* Variant: the ceremony that was active is left running.
BeginWithoutAbort(c) == LinkSignal([call EXCEPT ![c].pc = "asking"], c)

BeginCeremony(c) ==
    LinkSignal(Abort([call EXCEPT ![c].pc = "asking"], active, "AbortError"), c)

\* The options arrive, and the browser is asked for a credential.
Options(c) ==
    /\ call[c].pc = "starting"
    /\ call' = BeginCeremony(c)
    /\ active' = c

\* Variant: whoever ends clears the active ceremony.
EndAnyCeremony(c) == Nobody

EndCeremony(c) == IF active = c THEN Nobody ELSE active

\* The browser answers: with a credential, with null, with an error, or with
\* the abort of the controller.
Credential(c) ==
    /\ call[c].pc = "asking" /\ call[c].controller = "live"
    /\ call' = [call EXCEPT ![c].pc = "finishing"]
    /\ active' = EndCeremony(c)

NoCredential(c) ==
    /\ call[c].pc = "asking" /\ call[c].controller = "live"
    /\ call' = Settle(c, "cancelled")
    /\ active' = EndCeremony(c)

Refused(c) ==
    /\ call[c].pc = "asking" /\ call[c].controller = "live"
    /\ \E name \in BrowserErrors : call' = Settle(c, TranslateWebAuthnError(name))
    /\ active' = EndCeremony(c)

Aborted(c) ==
    /\ call[c].pc = "asking" /\ call[c].controller = "aborted"
    /\ call' = Settle(c, TranslateWebAuthnError(call[c].why))
    /\ active' = EndCeremony(c)

\* The answer of the finish request is the answer of the call: nothing is
\* aborted any more.
Finish(c) ==
    /\ call[c].pc = "finishing"
    /\ \E result \in RequestErrors \cup {"ok"} : call' = Settle(c, result)
    /\ UNCHANGED active

\* The page's own signal fires.  The listener exists from BeginCeremony on.
SignalFires(c) ==
    /\ call[c].pc \in {"probing", "starting", "asking", "finishing"}
    /\ call[c].signal = NoAbort
    /\ \E reason \in Reasons :
          call' = Abort([call EXCEPT ![c].signal = reason], c, reason)
    /\ UNCHANGED active

CancelPendingCeremony ==
    /\ call' = Abort(call, active, "AbortError")
    /\ active' = Nobody

Replies(c) == Probed(c) \/ StartFails(c) \/ Options(c) \/ Finish(c)
Prompt(c) == Credential(c) \/ NoCredential(c) \/ Refused(c) \/ Aborted(c)

Next ==
    \/ \E c \in Calls :
          \/ \E kind \in Kinds : Begin(c, kind)
          \/ Replies(c) \/ Prompt(c) \/ SignalFires(c)
    \/ CancelPendingCeremony

Spec == Init /\ [][Next]_vars

\* Requests are answered or fail, and a browser rejects an aborted request.
\* A prompt nobody touches times out, except in the autofill dropdown.
TimesOut(c) == call[c].kind # "autofill" /\ Refused(c)
Fairness ==
    \A c \in Calls : WF_vars(Replies(c)) /\ WF_vars(Aborted(c)) /\ WF_vars(TimesOut(c))

FairSpec == Spec /\ Fairness

----------------------------------------------------------------------------
\* The types of the variables: what a call is asked, where it is, and what it
\* became (index.ts, ceremony.ts).
TypeOK ==
    /\ active \in Calls \cup {Nobody}
    /\ call \in [Calls ->
         [kind : Kinds,
          pc : {"idle", "probing", "starting", "asking", "finishing", "done"},
          result : Codes \cup RequestErrors \cup {"none", "null", "ok"},
          signal : Reasons \cup {NoAbort},
          controller : {"none", "live", "aborted"},
          why : Reasons \cup {NoAbort, "AbortError"}]]

\* In front of the browser, and not told to stop.
Prompting(c) == call[c].pc = "asking" /\ call[c].controller = "live"

\* Of all calls at most one is in front of the browser, and it is the one that
\* activeCeremony can abort: a call that ends late does not make its successor
\* unreachable (ceremony.ts:25-31, 47-51).
OneRequestAtATime == \A c \in Calls : Prompting(c) => active = c

\* The page's own signal stopped the call, with an error of another name.
OwnReason(q) == q.why = q.signal /\ q.why \notin {"AbortError", "NotAllowedError"}

\* A call that was aborted, by its page or by a later call, and ends in the
\* browser ends as cancelled, which a page shows to nobody.  Only an error that
\* the call's own signal gives, before anything else aborts it, reads otherwise:
\* no page is told of another's (docs/client/page.mdx:287, ceremony.ts:36-44).
AbortReadsAsCancelled ==
    \A c \in Calls :
        call[c].pc = "done" /\ call[c].controller = "aborted" /\ call[c].result \in Codes
            => call[c].result = "cancelled" \/ OwnReason(call[c])

\* A call whose page fired its signal ends, whenever the signal fired, although
\* an autofill request may wait for a visitor for ever (index.ts:81, 167-172).
AbortedCallsSettle == \A c \in Calls : call[c].signal # NoAbort ~> call[c].pc = "done"

\* When a later call reaches the browser, the earlier ones end
\* (index.ts:181-182: an armed autofill does not block login).
EarlierCallsYield ==
    \A c, d \in Calls : c < d =>
        (Prompting(c) /\ call[d].pc = "starting"
            ~> call[c].pc = "done" \/ call[c].pc = "finishing" \/ call[d].pc = "done")
=============================================================================
