---------------------------- MODULE CeremonyHook ----------------------------
(***************************************************************************)
(* useCeremony (react/index.ts:40-80), the state machine behind            *)
(* useRegister and useLogin: a component starts ceremonies, goes away and, *)
(* in React's strict mode, has its effect run again.                       *)
(*                                                                         *)
(* A run is a call of the client (ClientCeremony): once its signal fired   *)
(* it may still take its time, since the start request is not aborted, and *)
(* may even succeed, since the finish request is not either.               *)
(***************************************************************************)
EXTENDS Naturals

CONSTANT Count      \* how many ceremonies the component starts

Runs == 1..Count

VARIABLES
    run,            \* each ceremony: not started, running or settled, and its signal
    controller,     \* controller.current, named by its run; 0 for null
    mounted,        \* mounted.current
    state           \* what the component shows, and 'of' which run it is

vars == <<run, controller, mounted, state>>

Idle == [pending |-> FALSE, outcome |-> "none", of |-> 0]

Running(r) == run[r].pc = "running"
Fired(f, r) == IF r = 0 THEN f ELSE [f EXCEPT ![r].aborted = TRUE]

Init ==
    /\ run = [r \in Runs |-> [pc |-> "idle", aborted |-> FALSE]]
    /\ controller = 0
    /\ mounted = TRUE
    /\ state = Idle

\* Variant: the ceremony before is not aborted.
StartBeside(r) == [run EXCEPT ![r].pc = "running"]

\* What was running is aborted, and the new run gets a controller of its own.
StartAfterAbort(r) == [Fired(run, controller) EXCEPT ![r].pc = "running"]

Start(r) ==
    /\ run[r].pc = "idle" /\ \A q \in 1..r - 1 : run[q].pc # "idle"
    /\ run' = StartAfterAbort(r)
    /\ controller' = r
    /\ state' = [pending |-> TRUE, outcome |-> "none", of |-> r]
    /\ UNCHANGED mounted

\* Variant: the component is told although it is gone.
ShowAlways(r, outcome) == [pending |-> FALSE, outcome |-> outcome, of |-> r]

Show(r, outcome) ==
    IF mounted THEN [pending |-> FALSE, outcome |-> outcome, of |-> r] ELSE state

\* The promise of a run settles; the result or the error is shown.
Settle(r) ==
    /\ Running(r)
    /\ run' = [run EXCEPT ![r].pc = "settled"]
    /\ \E outcome \in {"result", "error"} : state' = Show(r, outcome)
    /\ UNCHANGED <<controller, mounted>>

Reset ==
    /\ state' = Idle
    /\ UNCHANGED <<run, controller, mounted>>

\* The cleanup of the effect.
Unmount ==
    /\ mounted /\ mounted' = FALSE
    /\ run' = Fired(run, controller)
    /\ UNCHANGED <<controller, state>>

\* The effect runs again on the same refs.
Remount ==
    /\ ~mounted /\ mounted' = TRUE
    /\ UNCHANGED <<run, controller, state>>

Next ==
    \/ \E r \in Runs : Start(r) \/ Settle(r)
    \/ Reset \/ Unmount \/ Remount

Spec == Init /\ [][Next]_vars

----------------------------------------------------------------------------
\* The types of the variables (react/index.ts:40-51).
TypeOK ==
    /\ run \in [Runs -> [pc : {"idle", "running", "settled"}, aborted : BOOLEAN]]
    /\ controller \in 0..Count
    /\ mounted \in BOOLEAN
    /\ state \in [pending : BOOLEAN, outcome : {"none", "result", "error"}, of : 0..Count]

\* At most one ceremony of the component runs unaborted, and the ref can abort
\* it, through any number of starts and of unmounts (react/index.ts:39).
OneInFlight == \A r \in Runs : Running(r) /\ ~run[r].aborted => controller = r

\* The component going away leaves nothing running that was not told to stop
\* (react/index.ts:5-7, 51).
UnmountAbortsAll ==
    [][Unmount => \A r \in Runs : Running(r) => run'[r].aborted]_vars

\* No outcome reaches a component that is gone (react/index.ts:64, 71).
SilentOnceGone == [][~mounted => state'.outcome = "none" \/ state' = state]_vars
=============================================================================
