-------------------------------- MODULE Page --------------------------------
(***************************************************************************)
(* The browser package.  A behaviour is one page: calls of the client      *)
(* (ClientCeremony), a component with a sign-in hook, a form with autofill,*)
(* a settings page, or a browser that is told about changed passkeys.      *)
(***************************************************************************)
EXTENDS ClientCeremony

CONSTANTS
    Pages,                  \* which of the five are looked at
    Starts,                 \* how many ceremonies a component starts
    Renders,                \* how often the effect of a form runs
    Uses,                   \* how many calls a settings page makes
    Steps,                  \* how many calls change or use the passkeys of a browser
    AtOnce,                 \* how many of those may be under way at once
    Keys, First,            \* ids of passkeys, and those the account begins with
    Support                 \* the signal methods of the browser

ASSUME PageAssumption ==
    /\ Starts \in Nat /\ Renders \in Nat /\ Uses \in Nat /\ Steps \in Nat
    /\ First \subseteq Keys

VARIABLES
    page,
    run, controller, mounted, state,             \* of CeremonyHook
    effect, current, armed, told,                \* of AutofillHook
    server, request, passkeys, error, pending,   \* of PasskeysHook
    rows, held, offered, signal                  \* of Signals

component == <<run, controller, mounted, state>>
form == <<effect, current, armed, told>>
settings == <<server, request, passkeys, error, pending>>
browser == <<rows, held, offered, signal>>
everything == <<page, vars, component, form, settings, browser>>

H == INSTANCE CeremonyHook WITH Count <- Starts
F == INSTANCE AutofillHook WITH Count <- Renders, active <- armed
L == INSTANCE PasskeysHook WITH Count <- Uses, call <- request
G == INSTANCE Signals WITH Count <- Steps, call <- signal

PageInit == page \in Pages /\ Init /\ H!Init /\ F!Init /\ L!Init /\ G!Init

PageNext ==
    /\ UNCHANGED page
    /\ \/ page = "calls" /\ Next /\ UNCHANGED <<component, form, settings, browser>>
       \/ page = "component" /\ H!Next /\ UNCHANGED <<vars, form, settings, browser>>
       \/ page = "form" /\ F!Next /\ UNCHANGED <<vars, component, settings, browser>>
       \/ page = "settings" /\ L!Next /\ UNCHANGED <<vars, component, form, browser>>
       \/ page = "browser" /\ G!Next /\ UNCHANGED <<vars, component, form, settings>>

PageSpec == PageInit /\ [][PageNext]_everything

FairPageSpec == PageSpec /\ Fairness /\ F!Fairness

----------------------------------------------------------------------------
\* A component has at most one ceremony that nothing aborted, which it can abort,
\* and a form says that autofill is armed when it is (react/index.ts:39, 143).
HooksHoldOneCall == H!OneInFlight /\ F!ActiveMeansArmed

\* A component that goes away aborts what it started and is shown nothing any
\* more, and a form that is gone is not told of a sign-in (react/index.ts:51, 64,
\* 71, 138).
TheGoneHearNothing == H!UnmountAbortsAll /\ H!SilentOnceGone /\ F!OnlyTheShownFormIsTold

\* A call nobody waits for ends: its signal fired, a later call reached the
\* browser, or its form is gone (client/index.ts:81, 181, react/index.ts:119).
UnwantedCallsEnd == AbortedCallsSettle /\ EarlierCallsYield /\ F!NothingOutlivesTheForm

\* The platform offers the passkeys that work, and none that was removed here;
\* where it does not, two calls overlapped, one registering or removing the
\* passkey, or a login was for another account (client/signals.ts:106-108,
\* client/index.ts:121-127, client/credentials.ts:59-61).
OfferedIsWhatWorks == G!WhatWorksIsOffered /\ G!RemovedIsNotOffered

\* A list the page asked for after a removal had returned never shows what it
\* removed, however its calls cross; and a passkey that the server refused as
\* unknown is reported (react/index.ts:166, 187-193, client/signals.ts:143-149).
RemovalsShow == L!RemovalShows /\ G!UnknownIsForgotten
=============================================================================
