---------------------------- MODULE AutofillHook ----------------------------
(***************************************************************************)
(* usePasskeyAutofill (react/index.ts:123-155): an effect that keeps one   *)
(* call of signInWithAutofill under way for as long as the form is shown,  *)
(* and is run again whenever the component hands it another config.        *)
(***************************************************************************)
EXTENDS Naturals

CONSTANT Count      \* how often the effect runs

Effects == 1..Count

VARIABLES
    effect,         \* the runs of the effect: where each call is, and its flags
    current,        \* the run that has not been cleaned up, or 0
    active,         \* what the component shows
    told            \* the runs whose sign-in onSuccess was called for

vars == <<effect, current, active, told>>

Init ==
    /\ effect = [e \in Effects |-> [pc |-> "idle", cancelled |-> FALSE, aborted |-> FALSE]]
    /\ current = 0
    /\ active = FALSE
    /\ told = {}

\* Variant: the cleanup stops listening and leaves the request to itself.
CleanedWithoutAbort(f, e) == IF e = 0 THEN f ELSE [f EXCEPT ![e].cancelled = TRUE]

Cleaned(f, e) == IF e = 0 THEN f ELSE [f EXCEPT ![e].cancelled = TRUE, ![e].aborted = TRUE]

\* The component is mounted, or rendered with another config: the cleanup of
\* the last run, then the effect.
RunEffect(e) ==
    /\ effect[e].pc = "idle" /\ \A d \in 1..e - 1 : effect[d].pc # "idle"
    /\ effect' = [Cleaned(effect, current) EXCEPT ![e].pc = "running"]
    /\ current' = e
    /\ active' = TRUE
    /\ UNCHANGED told

Unmount ==
    /\ current # 0 /\ current' = 0
    /\ effect' = Cleaned(effect, current)
    /\ UNCHANGED <<active, told>>

\* Variant: the flag is not looked at.
Listening(e) == TRUE

NotCancelled(e) == ~effect[e].cancelled

\* The call settles: with a sign-in (an abort may come too late to stop it),
\* with null or with an error.
Settle(e) ==
    /\ effect[e].pc = "running"
    /\ effect' = [effect EXCEPT ![e].pc = "settled"]
    /\ \E signedIn \in BOOLEAN :
          told' = IF signedIn /\ NotCancelled(e) THEN told \cup {e} ELSE told
    /\ active' = IF NotCancelled(e) THEN FALSE ELSE active
    /\ UNCHANGED current

Next == (\E e \in Effects : RunEffect(e) \/ Settle(e)) \/ Unmount

\* An aborted call ends (ClientCeremony, AbortedCallsSettle).
Fairness == \A e \in Effects : WF_vars(effect[e].aborted /\ Settle(e))

Spec == Init /\ [][Next]_vars /\ Fairness

----------------------------------------------------------------------------
\* While the form is shown it shows autofill as active exactly when a call that
\* nothing aborted is under way: the call of an earlier config, ending late,
\* does not switch it off (react/index.ts:143).
ActiveMeansArmed ==
    current # 0 =>
        (active <=> effect[current].pc = "running" /\ ~effect[current].aborted)

\* A sign-in that ends after its form is gone is not reported
\* (react/index.ts:138).
OnlyTheShownFormIsTold == [][told' # told => told' = told \cup {current}]_vars

\* Every request outlived by its form ends (react/index.ts:119-121).
NothingOutlivesTheForm == \A e \in Effects : effect[e].pc = "running" /\ current # e ~> effect[e].pc = "settled"
=============================================================================
