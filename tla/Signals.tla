------------------------------ MODULE Signals ------------------------------
(***************************************************************************)
(* The picker of the operating system and what passkify tells it           *)
(* (client/signals.ts, credentials.ts, finishLogin of index.ts, the        *)
(* server's signals): which passkeys of one account the platform offers,   *)
(* against which of them the server would accept.                          *)
(*                                                                         *)
(* Several calls may be under way at once, in tabs of one browser or on    *)
(* devices that share their passkeys.                                      *)
(***************************************************************************)
EXTENDS Naturals, FiniteSets

CONSTANTS
    Keys,            \* ids of passkeys
    First,           \* those the account begins with
    Count,           \* how many calls are made
    AtOnce,          \* how many of them may be under way at once
    Support          \* the signal methods of the browser, of allAcceptedCredentials,
                     \* currentUserDetails and unknownCredential

Calls == 1..Count

VARIABLES
    rows,            \* ids the server has for the account
    held,            \* passkeys the authenticator holds
    offered,         \* those of them the platform offers
    call

vars == <<rows, held, offered, call>>

Init ==
    /\ rows = First /\ held = First /\ offered = First
    /\ call = [c \in Calls |->
                 [op |-> "none", pc |-> "idle", key |-> {}, list |-> {},
                  scoped |-> FALSE, setting |-> "default", beside |-> {}]]

Ended == {"done", "reported", "unanswered", "refused"}
Busy == {c \in Calls : call[c].pc \notin Ended \cup {"idle"}}
At(c, op, pc) == call[c].op = op /\ call[c].pc = pc
Go(c, pc) == call' = [call EXCEPT ![c].pc = pc]

\* History: which calls were under way when a call began; two calls overlap when
\* one of them was under way as the other began.
Begin(c, op, pc, key, scoped, setting) ==
    call' = [call EXCEPT ![c] = [op |-> op, pc |-> pc, key |-> key, list |-> {},
                                 scoped |-> scoped, setting |-> setting, beside |-> Busy]]
Overlapped(c, d) == c \in call[d].beside \/ d \in call[c].beside

MayBegin(c) ==
    /\ call[c].pc = "idle" /\ \A b \in 1..c - 1 : call[b].pc # "idle"
    /\ Cardinality(Busy) < AtOnce

\* What goes on after a change, where the browser has signals at all.
CanSync == Support \cap {"allAcceptedCredentials", "currentUserDetails"} # {}

\* Variant: only syncPasskeys itself talks to the platform.
ThenReturn == "done"

ThenSync == IF CanSync THEN "asking" ELSE "done"

----------------------------------------------------------------------------
\* register, signed in: the authenticator has the passkey before the server.
Create(c) ==
    /\ MayBegin(c)
    /\ \E k \in Keys \ held :
          /\ held' = held \cup {k}
          /\ offered' = offered \cup {k}
          /\ Begin(c, "register", "finishing", {k}, FALSE, "default")
    /\ UNCHANGED rows

FinishRegister(c) ==
    /\ At(c, "register", "finishing")
    /\ rows' \in {rows \cup call[c].key, rows}      \* verified, or refused
    /\ Go(c, "done")
    /\ UNCHANGED <<held, offered>>

----------------------------------------------------------------------------
\* deletePasskey, renamePasskey and syncPasskeys.
Manage(c) ==
    /\ MayBegin(c)
    /\ \E op \in {"delete", "rename", "sync"}, k \in rows :
          Begin(c, op, IF op = "sync" THEN ThenSync ELSE "changing", {k}, FALSE, "default")
    /\ UNCHANGED <<rows, held, offered>>

\* The server changes the row, unless it is gone or, for a removal, the last.
\* The call ends there, too, when the server's answer is lost.
Change(c) ==
    /\ call[c].pc = "changing"
    /\ LET refused == \/ ~(call[c].key \subseteq rows)
                      \/ call[c].op = "delete" /\ Cardinality(rows) <= 1
       IN /\ rows' = IF call[c].op = "delete" /\ ~refused THEN rows \ call[c].key ELSE rows
          /\ \/ Go(c, "refused")
             \/ ~refused /\ Go(c, ThenSync)
    /\ UNCHANGED <<held, offered>>

\* GET /signals: the server reads the list.  204 for an empty one, or no answer
\* at all, ends the call with the platform as it was.
ReadList(c) ==
    /\ call[c].pc = "asking"
    /\ \/ /\ rows # {}
          /\ call' = [call EXCEPT ![c].pc = "signalling", ![c].list = rows]
       \/ Go(c, "unanswered")
    /\ UNCHANGED <<rows, held, offered>>

\* signalAllAcceptedCredentials: the platform offers what is in the list.
HandOver(c) ==
    /\ call[c].pc = "signalling"
    /\ offered' = IF "allAcceptedCredentials" \in Support THEN held \cap call[c].list ELSE offered
    /\ Go(c, "done")
    /\ UNCHANGED <<rows, held>>

----------------------------------------------------------------------------
\* login: a name with passkeys limits the picker to them; no name, or the name
\* of an account without passkeys, leaves it open, and in the second case no
\* passkey picked is one of the account asked for.  "default" stands for
\* signalUnknownCredentials left out.
Ask(c) ==
    /\ MayBegin(c)
    /\ \E scoped \in BOOLEAN, k \in offered, setting \in {"default", "off"} :
          Begin(c, "login", "finishing", {k}, scoped, setting)
    /\ UNCHANGED <<rows, held, offered>>

\* The server answers unknown_credential for a passkey it does not have, and
\* for one of another account than the login was started for.
Unknown(c) == ~(call[c].key \subseteq rows) \/ call[c].scoped

\* Variant: whatever the refusal, the passkey is reported.
SignalOnAnyError(c) == call[c].setting # "off" /\ "unknownCredential" \in Support

\* Variant: the setting is off unless it is switched on.
SignalOnlyIfSet(c) == call[c].setting = "on" /\ Unknown(c) /\ "unknownCredential" \in Support

\* The options of this server always name the site (rpId).
SignalAfterRefusal(c) == call[c].setting # "off" /\ Unknown(c) /\ "unknownCredential" \in Support

FinishLogin(c) ==
    /\ At(c, "login", "finishing")
    /\ \E refused \in BOOLEAN :                 \* for any other reason
          call' = [call EXCEPT ![c].pc =
                     IF (refused \/ Unknown(c)) /\ SignalAfterRefusal(c) THEN "reporting" ELSE "done"]
    /\ UNCHANGED <<rows, held, offered>>

\* signalUnknownCredential.
Report(c) ==
    /\ call[c].pc = "reporting"
    /\ offered' = offered \ call[c].key
    /\ Go(c, "reported")
    /\ UNCHANGED <<rows, held>>

Next == \E c \in Calls :
    \/ Create(c) \/ FinishRegister(c)
    \/ Manage(c) \/ Change(c) \/ ReadList(c) \/ HandOver(c)
    \/ Ask(c) \/ FinishLogin(c) \/ Report(c)

Spec == Init /\ [][Next]_vars

----------------------------------------------------------------------------
\* The call has handed the platform the list it read.
HandedOver(d) == call[d].pc = "done" /\ call[d].list # {}

\* The passkey was being registered while call d was under way.
RegisteredBeside(k, d) ==
    \E c \in Calls : call[c].op = "register" /\ k \in call[c].key /\ Overlapped(c, d)

\* A passkey that the server accepts and the platform does not offer was hidden
\* in one of three ways, however the calls cross: a list was handed over that
\* was asked for while the passkey was being registered; a login with it was
\* refused while it was being registered; or a login with it was for the name of
\* an account without passkeys (signals.ts:106-108, index.ts:121-127).
WhatWorksIsOffered ==
    \A k \in (rows \cap held) \ offered : \E d \in Calls :
        \/ HandedOver(d) /\ k \notin call[d].list /\ RegisteredBeside(k, d)
        \/ /\ call[d].op = "login" /\ call[d].pc = "reported" /\ k \in call[d].key
           /\ call[d].scoped \/ RegisteredBeside(k, d)

\* A passkey whose removal was followed by a list handed over is offered again
\* only by a call that overlapped the removal and had read its list before
\* (credentials.ts:59-61).
RemovedIsNotOffered ==
    "allAcceptedCredentials" \in Support =>
        \A c \in Calls : At(c, "delete", "done") =>
            \A k \in call[c].key \cap offered : \E d \in Calls :
                HandedOver(d) /\ k \in call[d].list /\ Overlapped(c, d)

\* A passkey the server did not know is not offered again after the login that
\* found out, unless the page switched that off (signals.ts:143-149).
UnknownIsForgotten ==
    [][\A c \in Calls :
         At(c, "login", "finishing") /\ call[c].setting # "off" /\ ~(call[c].key \subseteq rows)
             => call'[c].pc # "done"]_vars
=============================================================================
