---------------------------- MODULE PasskeysHook ----------------------------
(***************************************************************************)
(* usePasskeys (react/index.ts:158-196): the list of a settings page, with *)
(* refresh, rename and remove, any of which may be called again before     *)
(* they are done.  The requests reach the server in any order, and their   *)
(* answers the page in any other.                                          *)
(***************************************************************************)
EXTENDS Naturals, FiniteSets

CONSTANTS
    Keys,        \* ids of the account's passkeys
    Count        \* how many calls the page makes

Calls == 0..Count      \* call 0 is the refresh of the mount

VARIABLES
    server,      \* the passkeys the server has
    call,        \* each call, the list its refresh was answered with, and
                 \* the removals that had returned when it asked for it
    passkeys, error, pending

vars == <<server, call, passkeys, error, pending>>

Unknown == {"unknown"}     \* the state before the first list: null

\* Where a call goes on with its refresh.
Returned(f, c) == {b \in Calls : f[b].removes # {} /\ (b = c \/ f[b].pc # "removing")}
Refreshing(f, c) == [f EXCEPT ![c].pc = "listing", ![c].after = Returned(f, c)]

Init ==
    /\ server = Keys
    /\ call = [c \in Calls |->
                 [pc |-> IF c = 0 THEN "listing" ELSE "idle",
                  removes |-> {}, list |-> {}, after |-> {}]]
    /\ passkeys = Unknown
    /\ error = FALSE
    /\ pending = TRUE

MayBegin(c) == call[c].pc = "idle" /\ \A b \in 1..c - 1 : call[b].pc # "idle"

Refresh(c) ==
    /\ MayBegin(c)
    /\ call' = Refreshing(call, c)
    /\ pending' = TRUE
    /\ UNCHANGED <<server, passkeys, error>>

\* Variant: the list is asked for without waiting for the removal.
BeginAndList(c, k) == Refreshing([call EXCEPT ![c].removes = {k}], c)

BeginRemoval(c, k) == [call EXCEPT ![c].pc = "removing", ![c].removes = {k}]

Remove(c) ==
    /\ MayBegin(c)
    /\ \E k \in Keys : call' = BeginRemoval(c, k)
    /\ UNCHANGED <<server, passkeys, error, pending>>

\* The server refuses to remove a passkey it does not have, and the last one.
MayRemove(c) == call[c].removes \subseteq server /\ Cardinality(server) > 1

\* The server removes the passkey and answers; then the call refreshes.
Removed(c) ==
    /\ call[c].pc = "removing" /\ MayRemove(c)
    /\ server' = server \ call[c].removes
    /\ call' = Refreshing(call, c)
    /\ pending' = TRUE
    /\ UNCHANGED <<passkeys, error>>

\* The call throws when the server refuses, and when no answer arrives, whether
\* the passkey was removed or not.
NotRemoved(c) ==
    /\ call[c].pc = "removing"
    /\ \/ UNCHANGED server
       \/ MayRemove(c) /\ server' = server \ call[c].removes
    /\ call' = [call EXCEPT ![c].pc = "done", ![c].removes = {}]
    /\ UNCHANGED <<passkeys, error, pending>>

\* The server reads the list for a refresh.
Listed(c) ==
    /\ call[c].pc = "listing"
    /\ call' = [call EXCEPT ![c].pc = "answered", ![c].list = server]
    /\ UNCHANGED <<server, passkeys, error, pending>>

Answered(c) ==
    /\ call[c].pc = "answered"
    /\ call' = [call EXCEPT ![c].pc = "done"]
    /\ passkeys' = call[c].list
    /\ error' = FALSE
    /\ pending' = FALSE
    /\ UNCHANGED server

\* A list that does not arrive: the error is kept, and the call resolves.
NotAnswered(c) ==
    /\ call[c].pc \in {"listing", "answered"}
    /\ call' = [call EXCEPT ![c].pc = "done"]
    /\ error' = TRUE
    /\ pending' = FALSE
    /\ UNCHANGED <<server, passkeys>>

Next == \E c \in Calls :
    Refresh(c) \/ Remove(c) \/ Removed(c) \/ NotRemoved(c)
    \/ Listed(c) \/ Answered(c) \/ NotAnswered(c)

Spec == Init /\ [][Next]_vars

----------------------------------------------------------------------------
\* What a removal took from the list comes back to it only with a list that was
\* asked for before that removal returned and arrives late: a refresh that is
\* asked for later, by this call or any other, never shows it again.  So the
\* list a removal resolves with is without it (react/index.ts:166, 187-193).
RemovalShows ==
    [][\A c \in Calls :
         call[c].pc = "answered" /\ call'[c].pc = "done" /\ ~error'
             => \A b \in call[c].after : passkeys' \cap call[b].removes = {}]_vars
=============================================================================
