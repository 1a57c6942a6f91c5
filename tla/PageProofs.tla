----------------------------- MODULE PageProofs -----------------------------
(***************************************************************************)
(* Theorems about Page and the ceremonies on it: the client's calls, the   *)
(* hooks, the settings page and the picker, for any number of calls, any   *)
(* passkeys and any reasons that a page's signals give.                    *)
(***************************************************************************)
EXTENDS Page, FiniteSetTheorems, TLAPS

----------------------------------------------------------------------------
(* The ceremonies themselves, for any reasons that a page's signals give.  *)

AbortReasons == Reasons \cup {"AbortError"}

\* What is known of one call: it has a controller from the moment it asks, what
\* aborted it is known, and, unless that was its own page's error, it ends as
\* cancelled.
CallOK(q) ==
    /\ q.pc \in {"idle", "probing", "starting"} => q.controller = "none"
    /\ q.controller = "aborted" => q.why = "AbortError" \/ (q.why = q.signal /\ q.why \in Reasons)
    /\ q.pc = "done" /\ q.controller = "aborted" /\ q.result \in Codes
         => q.result = "cancelled" \/ OwnReason(q)

\* activeCeremony is never the controller of a call that is not in the browser.
ActiveAsks == active \in Calls => call[active].pc = "asking"

IInv ==
    /\ TypeOK
    /\ OneRequestAtATime
    /\ ActiveAsks
    /\ \A c \in Calls : CallOK(call[c])

Record == [kind : Kinds,
           pc : {"idle", "probing", "starting", "asking", "finishing", "done"},
           result : Codes \cup RequestErrors \cup {"none", "null", "ok"},
           signal : Reasons \cup {NoAbort},
           controller : {"none", "live", "aborted"},
           why : Reasons \cup {NoAbort, "AbortError"}]

-----------------------------------------------------------------------------
\* A promise that settles changes the place and the outcome of its own call.
LEMMA SettleFacts ==
    ASSUME call \in [Calls -> Record], NEW c \in Calls,
           NEW result \in Codes \cup RequestErrors \cup {"none", "null", "ok"}
    PROVE  /\ Settle(c, result) \in [Calls -> Record]
           /\ \A d \in Calls \ {c} : Settle(c, result)[d] = call[d]
           /\ Settle(c, result)[c] = [call[c] EXCEPT !.pc = "done", !.result = result]
  <1> DEFINE q == [call[c] EXCEPT !.pc = "done", !.result = result]
  <1>1. q \in Record
    BY DEF Record
  <1>2. Settle(c, result) = [call EXCEPT ![c] = q]
    BY DEF Settle, Record
  <1> HIDE DEF q
  <1>3. /\ Settle(c, result) \in [Calls -> Record]
        /\ \A d \in Calls \ {c} : Settle(c, result)[d] = call[d]
        /\ Settle(c, result)[c] = q
    BY <1>1, <1>2
  <1> QED BY <1>3 DEF q

\* An abort stops a live controller and remembers why, and changes nothing else.
LEMMA AbortFacts ==
    ASSUME NEW f \in [Calls -> Record], NEW c, NEW reason \in AbortReasons
    PROVE  /\ Abort(f, c, reason) \in [Calls -> Record]
           /\ \A d \in Calls \ {c} : Abort(f, c, reason)[d] = f[d]
           /\ c \in Calls => /\ Abort(f, c, reason)[c].pc = f[c].pc
                             /\ Abort(f, c, reason)[c].result = f[c].result
                             /\ Abort(f, c, reason)[c].signal = f[c].signal
                             /\ Abort(f, c, reason)[c].controller # "live"
                             /\ f[c].controller = "live" => Abort(f, c, reason)[c].why = reason
                             /\ f[c].controller # "live" => Abort(f, c, reason)[c] = f[c]
  <1>1. CASE c \in Calls /\ f[c].controller = "live"
    <2>1. Abort(f, c, reason) = [f EXCEPT ![c] = [f[c] EXCEPT !.controller = "aborted", !.why = reason]]
      BY <1>1 DEF Abort
    <2>2. [f[c] EXCEPT !.controller = "aborted", !.why = reason] \in Record
      BY <1>1 DEF Record, AbortReasons
    <2> QED BY <1>1, <2>1, <2>2 DEF Record
  <1>2. CASE ~(c \in Calls /\ f[c].controller = "live")
    <2>1. Abort(f, c, reason) = f
      BY <1>2 DEF Abort
    <2> QED BY <1>2, <2>1 DEF Record
  <1> QED BY <1>1, <1>2

\* A translated error is one of the codes, and a plain abort reads as cancelled.
LEMMA TranslateFacts ==
    ASSUME NEW name
    PROVE  /\ TranslateWebAuthnError(name) \in Codes \cup RequestErrors
           /\ name \in {"NotAllowedError", "AbortError"} => TranslateWebAuthnError(name) = "cancelled"
    BY DEF TranslateWebAuthnError, Codes, RequestErrors

-----------------------------------------------------------------------------
\* One call changes, to a sound one that asks only if it is the active one, and
\* the active ceremony stays or ends with that call.
LEMMA OneCallChanges ==
    ASSUME IInv, NEW c \in Calls,
           call' \in [Calls -> Record], \A d \in Calls \ {c} : call'[d] = call[d],
           CallOK(call'[c]),
           \/ active' = active /\ active # c /\ call'[c].pc # "asking"
           \/ active' = EndCeremony(c) /\ call'[c].pc # "asking"
           \/ /\ active' = active /\ call'[c].pc = call[c].pc
              /\ call'[c].controller = "live" => call[c].controller = "live"
    PROVE  IInv'
  <1>1. TypeOK /\ OneRequestAtATime /\ ActiveAsks /\ \A d \in Calls : CallOK(call[d])
    BY DEF IInv
  <1>2. TypeOK'
    BY <1>1 DEF TypeOK, Record, EndCeremony, Nobody
  <1>3. OneRequestAtATime'
    BY <1>1 DEF OneRequestAtATime, Prompting, EndCeremony, Nobody, TypeOK
  <1>4. ActiveAsks'
    <2> SUFFICES ASSUME active' \in Calls PROVE call'[active'].pc = "asking"
      BY DEF ActiveAsks
    <2>1. Nobody \notin Calls
      BY CountAssumption DEF Nobody, Calls
    <2>2. active' = active
      BY <2>1 DEF EndCeremony
    <2>3. CASE active = c
      BY <1>1, <2>1, <2>2, <2>3 DEF ActiveAsks, EndCeremony
    <2>4. CASE active # c
      BY <1>1, <2>2, <2>4 DEF ActiveAsks
    <2> QED BY <2>3, <2>4
  <1>5. \A d \in Calls : CallOK(call'[d])
    BY <1>1
  <1> QED BY <1>2, <1>3, <1>4, <1>5 DEF IInv, CallOK

\* The page makes its calls with nothing in front of the browser.
LEMMA InitIInv == Init => IInv
  <1> SUFFICES ASSUME Init PROVE IInv
    OBVIOUS
  <1>1. TypeOK
    BY DEF Init, TypeOK, Kinds
  <1>2. OneRequestAtATime /\ ActiveAsks
    BY CountAssumption DEF Init, OneRequestAtATime, Prompting, ActiveAsks, Nobody, Calls
  <1>3. \A c \in Calls : CallOK(call[c])
    BY DEF Init, CallOK
  <1> QED BY <1>1, <1>2, <1>3 DEF IInv

\* The options of a call arrive: who was in front of the browser is aborted.
LEMMA OptionsKeeps ==
    ASSUME IInv, NEW c \in Calls, Options(c) PROVE IInv'
  <1> DEFINE f == [call EXCEPT ![c].pc = "asking"]
             g == Abort(f, active, "AbortError")
  <1>1. TypeOK /\ OneRequestAtATime /\ ActiveAsks /\ \A d \in Calls : CallOK(call[d])
    BY DEF IInv
  <1>2. call \in [Calls -> Record] /\ call[c].pc = "starting" /\ active # c /\ active' = c
    BY <1>1 DEF Options, TypeOK, Record, ActiveAsks
  <1>3. f = [call EXCEPT ![c] = [call[c] EXCEPT !.pc = "asking"]]
    BY <1>2
  <1>4. [call[c] EXCEPT !.pc = "asking"] \in Record
    BY <1>2 DEF Record
  <1>5. f \in [Calls -> Record] /\ f[c] = [call[c] EXCEPT !.pc = "asking"]
           /\ \A d \in Calls \ {c} : f[d] = call[d]
    BY <1>2, <1>3, <1>4
  <1> HIDE DEF f
  <1>6. /\ g \in [Calls -> Record]
        /\ \A d \in Calls \ {active} : g[d] = f[d]
        /\ active \in Calls => /\ g[active].pc = f[active].pc
                               /\ g[active].controller # "live"
                               /\ f[active].controller = "live" => g[active].why = "AbortError"
                               /\ f[active].controller # "live" => g[active] = f[active]
    BY <1>5, AbortFacts DEF AbortReasons
  <1>7. g[c] = f[c]
    BY <1>2, <1>6
  <1>8. call' = LinkSignal(g, c)
    BY DEF Options, BeginCeremony, f
  <1> HIDE DEF g
  <1>9. PICK q \in Record :
           /\ call' = [g EXCEPT ![c] = q]
           /\ q.pc = "asking"
           /\ q.controller = "aborted" => q.why = q.signal /\ q.why \in Reasons
    <2>1. CASE g[c].signal = NoAbort
      <3>1. call' = [g EXCEPT ![c] = [g[c] EXCEPT !.controller = "live"]]
        BY <1>6, <1>8, <2>1 DEF LinkSignal
      <3>2. [g[c] EXCEPT !.controller = "live"] \in Record
        BY <1>6 DEF Record
      <3>3. [g[c] EXCEPT !.controller = "live"].pc = "asking"
        BY <1>2, <1>5, <1>7 DEF Record
      <3>4. [g[c] EXCEPT !.controller = "live"].controller = "live"
        BY <1>6 DEF Record
      <3> QED BY <3>1, <3>2, <3>3, <3>4
    <2>2. CASE g[c].signal # NoAbort
      <3> DEFINE q == [g[c] EXCEPT !.controller = "aborted", !.why = g[c].signal]
      <3>1. call' = [g EXCEPT ![c] = q]
        BY <1>6, <1>8, <2>2 DEF LinkSignal
      <3>2. g[c] \in Record /\ g[c].signal \in Reasons
        BY <1>6, <2>2 DEF Record
      <3>4. q \in Record /\ q.why = q.signal /\ q.why \in Reasons
        BY <3>2 DEF Record
      <3>3. q.pc = "asking"
        BY <1>2, <1>5, <1>7 DEF Record
      <3> QED BY <3>1, <3>3, <3>4
    <2> QED BY <2>1, <2>2
  <1>10. call' \in [Calls -> Record] /\ call'[c] = q /\ \A d \in Calls \ {c} : call'[d] = g[d]
    BY <1>6, <1>9
  <1>11. TypeOK'
    BY <1>2, <1>10 DEF TypeOK, Record
  <1>12. \A d \in Calls \ {c} : ~Prompting(d)'
    <2> SUFFICES ASSUME NEW d \in Calls \ {c} PROVE ~Prompting(d)'
      OBVIOUS
    <2>1. CASE d = active
      BY <1>6, <1>10, <2>1 DEF Prompting
    <2>2. CASE d # active
      BY <1>1, <1>5, <1>6, <1>10, <2>2 DEF OneRequestAtATime, Prompting
    <2> QED BY <2>1, <2>2
  <1>13. OneRequestAtATime'
    BY <1>2, <1>12 DEF OneRequestAtATime
  <1>14. ActiveAsks'
    BY <1>2, <1>9, <1>10 DEF ActiveAsks
  <1>15. \A d \in Calls : CallOK(call'[d])
    <2>1. CallOK(call'[c])
      BY <1>9, <1>10 DEF CallOK
    <2>2. ASSUME NEW d \in Calls \ {c}, d # active PROVE CallOK(call'[d])
      BY <1>1, <1>5, <1>6, <1>10, <2>2
    <2>3. ASSUME active \in Calls \ {c} PROVE CallOK(call'[active])
      <3>1. f[active] = call[active] /\ call[active].pc = "asking"
        BY <1>1, <1>5, <2>3 DEF ActiveAsks
      <3>2. CASE f[active].controller = "live"
        <4>1. call'[active].why = "AbortError" /\ call'[active].pc = "asking"
          BY <1>6, <1>10, <2>3, <3>1, <3>2
        <4> QED BY <4>1 DEF CallOK
      <3>3. CASE f[active].controller # "live"
        <4>1. call'[active] = call[active]
          BY <1>6, <1>10, <2>3, <3>1, <3>3
        <4> QED BY <1>1, <2>3, <4>1
      <3> QED BY <3>2, <3>3
    <2> QED BY <2>1, <2>2, <2>3
  <1> QED BY <1>11, <1>13, <1>14, <1>15 DEF IInv, CallOK

-----------------------------------------------------------------------------
\* A call that settles keeps the invariant: in the browser as a code that is right
\* for its controller, elsewhere without touching activeCeremony.
LEMMA SettleKeeps ==
    ASSUME IInv, NEW c \in Calls,
           NEW result \in Codes \cup RequestErrors \cup {"none", "null", "ok"},
           call' = Settle(c, result),
           call[c].controller = "aborted" /\ result \in Codes => result = "cancelled" \/ OwnReason(call[c]),
           \/ active' = active /\ call[c].pc # "asking"
           \/ active' = EndCeremony(c)
    PROVE  IInv'
  <1>1. call \in [Calls -> Record] /\ CallOK(call[c])
    BY DEF IInv, TypeOK, Record
  <1>2. /\ call' \in [Calls -> Record]
        /\ \A d \in Calls \ {c} : call'[d] = call[d]
        /\ call'[c] = [call[c] EXCEPT !.pc = "done", !.result = result]
    <2>1. /\ Settle(c, result) \in [Calls -> Record]
          /\ \A d \in Calls \ {c} : Settle(c, result)[d] = call[d]
          /\ Settle(c, result)[c] = [call[c] EXCEPT !.pc = "done", !.result = result]
      BY <1>1, SettleFacts
    <2> QED BY <2>1
  <1>3. call'[c].pc = "done" /\ call'[c].result = result /\ call'[c].signal = call[c].signal
        /\ call'[c].controller = call[c].controller /\ call'[c].why = call[c].why
    BY <1>1, <1>2 DEF Record
  <1>4. CallOK(call'[c])
    BY <1>1, <1>3 DEF CallOK, OwnReason
  <1>5. \/ active' = active /\ active # c
        \/ active' = EndCeremony(c)
    BY DEF IInv, ActiveAsks
  <1> QED BY <1>2, <1>3, <1>4, <1>5, OneCallChanges

\* A call that moves on keeps the invariant, unless it starts to ask.
LEMMA MoveKeeps ==
    ASSUME IInv, NEW c \in Calls, NEW kind \in Kinds,
           NEW pc \in {"probing", "starting", "finishing"},
           call' = [call EXCEPT ![c] = [call[c] EXCEPT !.kind = kind, !.pc = pc]],
           \/ active' = active /\ call[c].pc \in {"idle", "probing"} /\ pc # "finishing"
           \/ active' = EndCeremony(c) /\ pc = "finishing"
    PROVE  IInv'
  <1>1. call \in [Calls -> Record] /\ CallOK(call[c])
    BY DEF IInv, TypeOK, Record
  <1>2. [call[c] EXCEPT !.kind = kind, !.pc = pc] \in Record
    BY <1>1 DEF Record
  <1>3. /\ call' \in [Calls -> Record] /\ \A d \in Calls \ {c} : call'[d] = call[d]
        /\ call'[c] = [call[c] EXCEPT !.kind = kind, !.pc = pc]
    BY <1>1, <1>2
  <1>4. call'[c].pc = pc /\ call'[c].controller = call[c].controller /\ call'[c].why = call[c].why
        /\ call'[c].signal = call[c].signal
    BY <1>1, <1>3 DEF Record
  <1>5. CallOK(call'[c])
    BY <1>1, <1>4 DEF CallOK
  <1>6. \/ active' = active /\ active # c
        \/ active' = EndCeremony(c)
    BY DEF IInv, ActiveAsks
  <1> QED BY <1>3, <1>4, <1>5, <1>6, OneCallChanges

\* The page's signal stops the controller of its own call only.
LEMMA SignalKeeps ==
    ASSUME IInv, NEW c \in Calls, SignalFires(c) PROVE IInv'
  <1>1. call \in [Calls -> Record] /\ CallOK(call[c]) /\ call[c].pc # "done" /\ active' = active
        /\ call[c].signal \notin Reasons
    BY ReasonsAssumption DEF IInv, TypeOK, Record, SignalFires
  <1>2. PICK reason \in Reasons : call' = Abort([call EXCEPT ![c].signal = reason], c, reason)
    BY DEF SignalFires
  <1> DEFINE f == [call EXCEPT ![c].signal = reason]
  <1>3. f = [call EXCEPT ![c] = [call[c] EXCEPT !.signal = reason]]
    BY <1>1
  <1>4. [call[c] EXCEPT !.signal = reason] \in Record
    BY <1>1 DEF Record
  <1>5. f \in [Calls -> Record] /\ f[c] = [call[c] EXCEPT !.signal = reason]
           /\ \A d \in Calls \ {c} : f[d] = call[d]
    BY <1>1, <1>3, <1>4
  <1>6. call' = Abort(f, c, reason)
    BY <1>2
  <1> HIDE DEF f
  <1>7. /\ call' \in [Calls -> Record]
        /\ \A d \in Calls \ {c} : call'[d] = f[d]
        /\ call'[c].pc = f[c].pc
        /\ call'[c].controller # "live" /\ call'[c].signal = f[c].signal
        /\ f[c].controller = "live" => call'[c].why = reason
        /\ f[c].controller # "live" => call'[c] = f[c]
    <2>1. reason \in AbortReasons
      BY DEF AbortReasons
    <2>2. /\ Abort(f, c, reason) \in [Calls -> Record]
          /\ \A d \in Calls \ {c} : Abort(f, c, reason)[d] = f[d]
          /\ Abort(f, c, reason)[c].pc = f[c].pc
          /\ Abort(f, c, reason)[c].controller # "live"
          /\ Abort(f, c, reason)[c].signal = f[c].signal
          /\ f[c].controller = "live" => Abort(f, c, reason)[c].why = reason
          /\ f[c].controller # "live" => Abort(f, c, reason)[c] = f[c]
      <3>1. c \in Calls /\ f \in [Calls -> Record]
        BY <1>5
      <3> QED BY <3>1, <2>1, AbortFacts
    <2> QED BY <1>6, <2>2
  <1>8. f[c].pc = call[c].pc /\ f[c].controller = call[c].controller /\ f[c].why = call[c].why
        /\ f[c].signal = reason
    BY <1>1, <1>5 DEF Record
  <1>9. CallOK(call'[c])
    <2>1. CASE f[c].controller = "live"
      BY <1>1, <1>7, <1>8, <2>1 DEF CallOK
    <2>2. CASE f[c].controller # "live"
      BY <1>1, <1>7, <1>8, <2>2 DEF CallOK
    <2> QED BY <2>1, <2>2
  <1>10. \A d \in Calls \ {c} : call'[d] = call[d]
    BY <1>5, <1>7
  <1> QED BY <1>1, <1>7, <1>8, <1>9, <1>10, OneCallChanges

\* Cancelling stops the active ceremony, and none is active then.
LEMMA CancelKeeps ==
    ASSUME IInv, CancelPendingCeremony PROVE IInv'
  <1>1. TypeOK /\ OneRequestAtATime /\ ActiveAsks /\ \A d \in Calls : CallOK(call[d])
    BY DEF IInv
  <1>2. /\ call \in [Calls -> Record] /\ active' = Nobody /\ Nobody \notin Calls
        /\ call' = Abort(call, active, "AbortError")
    BY <1>1, CountAssumption DEF TypeOK, Record, CancelPendingCeremony, Nobody, Calls
  <1>3. /\ call' \in [Calls -> Record]
        /\ \A d \in Calls \ {active} : call'[d] = call[d]
        /\ active \in Calls => /\ call'[active].pc = call[active].pc
                               /\ call'[active].controller # "live"
                               /\ call[active].controller = "live" => call'[active].why = "AbortError"
                               /\ call[active].controller # "live" => call'[active] = call[active]
    BY <1>2, AbortFacts DEF AbortReasons
  <1>4. TypeOK'
    BY <1>2, <1>3 DEF TypeOK, Record
  <1>5. \A d \in Calls : ~Prompting(d)'
    BY <1>1, <1>3 DEF OneRequestAtATime, Prompting
  <1>6. OneRequestAtATime' /\ ActiveAsks'
    BY <1>2, <1>5 DEF OneRequestAtATime, ActiveAsks
  <1>7. \A d \in Calls : CallOK(call'[d])
    <2>1. ASSUME NEW d \in Calls, d # active PROVE CallOK(call'[d])
      BY <1>1, <1>3, <2>1
    <2>2. ASSUME active \in Calls PROVE CallOK(call'[active])
      <3>1. call[active].pc = "asking"
        BY <1>1, <2>2 DEF ActiveAsks
      <3>2. CASE call[active].controller = "live"
        <4>1. call'[active].why = "AbortError" /\ call'[active].pc = "asking"
          BY <1>3, <2>2, <3>1, <3>2
        <4> QED BY <4>1 DEF CallOK
      <3>3. CASE call[active].controller # "live"
        <4>1. call'[active] = call[active]
          BY <1>3, <2>2, <3>3
        <4> QED BY <1>1, <2>2, <4>1
      <3> QED BY <3>2, <3>3
    <2> QED BY <2>1, <2>2
  <1> QED BY <1>4, <1>6, <1>7 DEF IInv, CallOK

-----------------------------------------------------------------------------
\* Every step of a page keeps the invariant.
LEMMA NextKeeps ==
    ASSUME IInv, [Next]_vars PROVE IInv'
  <1>1. call \in [Calls -> Record] /\ \A d \in Calls : CallOK(call[d])
    BY DEF IInv, TypeOK, Record
  <1>2. ASSUME NEW c \in Calls, NEW kind \in Kinds, Begin(c, kind) PROVE IInv'
    <2>1. PICK pc \in {"probing", "starting"} :
             call' = [call EXCEPT ![c].kind = kind, ![c].pc = pc]
      BY <1>2 DEF Begin
    <2>2. call' = [call EXCEPT ![c] = [call[c] EXCEPT !.kind = kind, !.pc = pc]]
      BY <1>1, <2>1
    <2> QED BY <1>2, <2>2, MoveKeeps DEF Begin
  <1>3. ASSUME NEW c \in Calls, Probed(c) PROVE IInv'
    <2>1. CASE call' = [call EXCEPT ![c].pc = "starting"]
      <3>1. call' = [call EXCEPT ![c] = [call[c] EXCEPT !.kind = call[c].kind, !.pc = "starting"]]
        BY <1>1, <2>1 DEF Record
      <3>2. call[c].kind \in Kinds
        BY <1>1 DEF Record
      <3> QED BY <1>3, <3>1, <3>2, MoveKeeps DEF Probed
    <2>2. CASE call' = Settle(c, "null")
      <3>1. "null" \notin Codes
        BY DEF Codes
      <3> QED BY <1>3, <2>2, <3>1, SettleKeeps DEF Probed
    <2> QED BY <1>3, <2>1, <2>2 DEF Probed
  <1>4. ASSUME NEW c \in Calls, StartFails(c) PROVE IInv'
    <2>1. "server_error" \notin Codes /\ "server_error" \in RequestErrors
      BY DEF Codes, RequestErrors
    <2> QED BY <1>4, <2>1, SettleKeeps DEF StartFails
  <1>5. ASSUME NEW c \in Calls, Options(c) PROVE IInv'
    BY <1>5, OptionsKeeps
  <1>6. ASSUME NEW c \in Calls, Finish(c) PROVE IInv'
    <2>1. PICK result \in RequestErrors \cup {"ok"} : call' = Settle(c, result)
      BY <1>6 DEF Finish
    <2>2. result \notin Codes
      BY DEF Codes, RequestErrors
    <2> QED BY <1>6, <2>1, <2>2, SettleKeeps DEF Finish
  <1>7. ASSUME NEW c \in Calls, Credential(c) PROVE IInv'
    <2>1. call' = [call EXCEPT ![c] = [call[c] EXCEPT !.kind = call[c].kind, !.pc = "finishing"]]
      BY <1>1, <1>7 DEF Credential, Record
    <2>2. call[c].kind \in Kinds
      BY <1>1 DEF Record
    <2> QED BY <1>7, <2>1, <2>2, MoveKeeps DEF Credential
  <1>8. ASSUME NEW c \in Calls, NoCredential(c) PROVE IInv'
    <2>1. "cancelled" \in Codes
      BY DEF Codes
    <2> QED BY <1>8, <2>1, SettleKeeps DEF NoCredential
  <1>9. ASSUME NEW c \in Calls, Refused(c) PROVE IInv'
    <2>1. PICK name \in BrowserErrors : call' = Settle(c, TranslateWebAuthnError(name))
      BY <1>9 DEF Refused
    <2> QED BY <1>9, <2>1, TranslateFacts, SettleKeeps DEF Refused
  <1>10. ASSUME NEW c \in Calls, Aborted(c) PROVE IInv'
    <2>1. call[c].why \in {"AbortError", "NotAllowedError"} \/ OwnReason(call[c])
      BY <1>1, <1>10 DEF Aborted, CallOK, OwnReason
    <2>2. /\ TranslateWebAuthnError(call[c].why) \in Codes \cup RequestErrors
          /\ TranslateWebAuthnError(call[c].why) = "cancelled" \/ OwnReason(call[c])
      BY <2>1, TranslateFacts
    <2> QED BY <1>10, <2>2, SettleKeeps DEF Aborted
  <1>11. ASSUME NEW c \in Calls, SignalFires(c) PROVE IInv'
    BY <1>11, SignalKeeps
  <1>12. CASE CancelPendingCeremony
    BY <1>12, CancelKeeps
  <1>13. CASE UNCHANGED vars
    BY <1>13 DEF vars, IInv, TypeOK, OneRequestAtATime, Prompting, ActiveAsks, CallOK
  <1> QED
    BY <1>2, <1>3, <1>4, <1>5, <1>6, <1>7, <1>8, <1>9, <1>10, <1>11, <1>12, <1>13
       DEF Next, Replies, Prompt

\* The invariant holds of every page.
LEMMA Invariance == Spec => []IInv
  <1>1. IInv /\ [Next]_vars => IInv'
    BY NextKeeps
  <1> QED BY <1>1, InitIInv, PTL DEF Spec

\* A call is always in one place, with a result that a page can be given
\* (ceremony.ts:20-52, index.ts).
THEOREM CallsAreTyped == Spec => []TypeOK
  <1>1. IInv => TypeOK
    BY DEF IInv
  <1> QED BY <1>1, Invariance, PTL

\* However many calls a page makes, and whenever and for whatever reason they are
\* aborted: at most one is in front of the browser, and activeCeremony can abort
\* it (ceremony.ts:25-51).
THEOREM OneRequest == Spec => []OneRequestAtATime
  <1>1. IInv => OneRequestAtATime
    BY DEF IInv
  <1> QED BY <1>1, Invariance, PTL

\* However many calls a page makes, and whatever its signals give, one that was
\* aborted in the browser ends as cancelled, or with the translation of the error
\* its own signal gave (ceremony.ts:36-44, errors.ts:30-31).
THEOREM AbortIsCancelled == Spec => []AbortReadsAsCancelled
  <1>1. IInv => AbortReadsAsCancelled
    BY DEF IInv, CallOK, AbortReadsAsCancelled
  <1> QED BY <1>1, Invariance, PTL

\* A page makes its calls as ClientCeremony does, whatever else is on it.
THEOREM PageCalls == PageSpec => Spec /\ []OneRequestAtATime
  <1>1. PageInit => Init
    BY DEF PageInit
  <1>2. [PageNext]_everything => [Next]_vars
    BY DEF PageNext, everything, vars
  <1>3. PageSpec => Spec
    BY <1>1, <1>2, PTL DEF PageSpec, Spec
  <1> QED BY <1>3, OneRequest, PTL

----------------------------------------------------------------------------
(* The hooks.                                                              *)

\* Whatever a page does, each of its parts makes a step of its own or none.
LEMMA PageStep ==
  ASSUME [PageNext]_everything
  PROVE  [H!Next]_(H!vars) /\ [F!Next]_(F!vars) /\ [L!Next]_(L!vars) /\ [G!Next]_(G!vars)
  BY DEF PageNext, everything, component, form, settings, browser, H!vars, F!vars, L!vars, G!vars

-----------------------------------------------------------------------------
(***************************************************************************)
(* The ceremony hook.                                                      *)
(***************************************************************************)
\* Who went away told the run in the ref to stop, and a start comes after that only
\* from the component itself: at no time two runs are unaborted.
HInv == H!TypeOK /\ H!OneInFlight

RunSlot == [pc : {"idle", "running", "settled"}, aborted : BOOLEAN]

-----------------------------------------------------------------------------
\* An abort reaches the run that the ref names and no other.
LEMMA FiredFacts ==
    ASSUME run \in [H!Runs -> RunSlot], controller \in {0} \cup H!Runs
    PROVE  /\ H!Fired(run, controller) \in [H!Runs -> RunSlot]
           /\ \A q \in H!Runs : H!Fired(run, controller)[q].pc = run[q].pc
           /\ \A q \in H!Runs \ {controller} : H!Fired(run, controller)[q] = run[q]
           /\ controller \in H!Runs => H!Fired(run, controller)[controller].aborted
  <1>1. 0 \notin H!Runs
    BY DEF H!Runs
  <1>2. CASE controller = 0
    BY <1>1, <1>2 DEF H!Fired
  <1>3. CASE controller \in H!Runs
    <2>1. H!Fired(run, controller) = [run EXCEPT ![controller] = [run[controller] EXCEPT !.aborted = TRUE]]
      BY <1>1, <1>3 DEF H!Fired, RunSlot
    <2>2. [run[controller] EXCEPT !.aborted = TRUE] \in RunSlot
      BY <1>3 DEF RunSlot
    <2>3. H!Fired(run, controller)[controller] = [run[controller] EXCEPT !.aborted = TRUE]
      BY <1>3, <2>1
    <2> QED BY <1>3, <2>1, <2>2, <2>3 DEF RunSlot
  <1> QED BY <1>2, <1>3

\* What TypeOK says of the runs and of the ref.
LEMMA RunTypes ==
    ASSUME H!TypeOK
    PROVE  run \in [H!Runs -> RunSlot] /\ controller \in {0} \cup H!Runs
  BY DEF H!TypeOK, RunSlot, H!Runs

-----------------------------------------------------------------------------
\* A component starts with nothing running.
LEMMA HookInit == ASSUME H!Init PROVE HInv
  <1>1. H!TypeOK
    BY PageAssumption DEF H!Init, H!TypeOK, H!Idle
  <1>2. H!OneInFlight
    BY DEF H!Init, H!OneInFlight, H!Running
  <1> QED BY <1>1, <1>2 DEF HInv

\* A start aborts what the ref names, which was all that ran unaborted.
LEMMA HookStart == ASSUME HInv, NEW r \in H!Runs, H!Start(r) PROVE HInv'
  <1>1. run \in [H!Runs -> RunSlot] /\ controller \in {0} \cup H!Runs
    BY RunTypes DEF HInv
  <1> DEFINE f == H!Fired(run, controller)
  <1>2. /\ f \in [H!Runs -> RunSlot]
        /\ \A q \in H!Runs : f[q].pc = run[q].pc
        /\ \A q \in H!Runs \ {controller} : f[q] = run[q]
        /\ controller \in H!Runs => f[controller].aborted
    BY <1>1, FiredFacts
  <1>3. run' = [f EXCEPT ![r].pc = "running"] /\ controller' = r
    BY DEF H!Start, H!StartAfterAbort
  <1> HIDE DEF f
  <1>4. run' = [f EXCEPT ![r] = [f[r] EXCEPT !.pc = "running"]]
    BY <1>2, <1>3 DEF RunSlot
  <1>5. [f[r] EXCEPT !.pc = "running"] \in RunSlot
    BY <1>2 DEF RunSlot
  <1>6. run' \in [H!Runs -> RunSlot] /\ \A q \in H!Runs \ {r} : run'[q] = f[q]
    BY <1>2, <1>4, <1>5
  <1>7. H!TypeOK'
    <2>1. state' \in [pending : BOOLEAN, outcome : {"none", "result", "error"}, of : 0..Starts]
      BY DEF H!Start, H!Runs
    <2>2. mounted' \in BOOLEAN /\ controller' \in 0..Starts
      BY <1>3 DEF H!Start, HInv, H!TypeOK, H!Runs
    <2> QED BY <1>6, <2>1, <2>2 DEF H!TypeOK, RunSlot
  <1>8. \A q \in H!Runs \ {r} : H!Running(q)' => run'[q].aborted
    <2> SUFFICES ASSUME NEW q \in H!Runs \ {r}, H!Running(q)' PROVE run'[q].aborted
      OBVIOUS
    <2>1. run'[q] = f[q] /\ run[q].pc = "running"
      BY <1>2, <1>6 DEF H!Running
    <2>2. CASE q = controller
      BY <1>2, <2>1, <2>2
    <2>3. CASE q # controller
      BY <1>2, <2>1, <2>3 DEF HInv, H!OneInFlight, H!Running
    <2> QED BY <2>2, <2>3
  <1>9. H!OneInFlight'
    BY <1>3, <1>8 DEF H!OneInFlight
  <1> QED BY <1>7, <1>9 DEF HInv

\* A promise that settles starts nothing.
LEMMA HookSettle == ASSUME HInv, NEW r \in H!Runs, H!Settle(r) PROVE HInv'
  <1>1. run \in [H!Runs -> RunSlot] /\ controller \in {0} \cup H!Runs
    BY RunTypes DEF HInv
  <1>2. run' = [run EXCEPT ![r] = [run[r] EXCEPT !.pc = "settled"]] /\ controller' = controller
    BY <1>1 DEF H!Settle
  <1>3. [run[r] EXCEPT !.pc = "settled"] \in RunSlot /\ [run[r] EXCEPT !.pc = "settled"].pc = "settled"
    BY <1>1 DEF RunSlot
  <1>4. /\ run' \in [H!Runs -> RunSlot] /\ run'[r].pc = "settled"
        /\ \A q \in H!Runs \ {r} : run'[q] = run[q]
    BY <1>1, <1>2, <1>3
  <1>5. H!TypeOK'
    <2>1. PICK outcome \in {"result", "error"} : state' = H!Show(r, outcome)
      BY DEF H!Settle
    <2>2. state' \in [pending : BOOLEAN, outcome : {"none", "result", "error"}, of : 0..Starts]
      BY <2>1 DEF H!Show, HInv, H!TypeOK, H!Runs
    <2> QED BY <1>2, <1>4, <2>2 DEF H!Settle, HInv, H!TypeOK, RunSlot
  <1>6. H!OneInFlight'
    BY <1>2, <1>4 DEF HInv, H!OneInFlight, H!Running
  <1> QED BY <1>5, <1>6 DEF HInv

\* The cleanup of the effect leaves nothing running that was not told to stop.
LEMMA HookUnmount ==
    ASSUME HInv, H!Unmount
    PROVE  HInv' /\ \A r \in H!Runs : H!Running(r) => run'[r].aborted
  <1>1. run \in [H!Runs -> RunSlot] /\ controller \in {0} \cup H!Runs
    BY RunTypes DEF HInv
  <1>2. /\ run' \in [H!Runs -> RunSlot]
        /\ \A q \in H!Runs : run'[q].pc = run[q].pc
        /\ \A q \in H!Runs \ {controller} : run'[q] = run[q]
        /\ controller \in H!Runs => run'[controller].aborted
    BY <1>1, FiredFacts DEF H!Unmount
  <1>3. \A r \in H!Runs : H!Running(r) => run'[r].aborted
    <2> SUFFICES ASSUME NEW r \in H!Runs, H!Running(r) PROVE run'[r].aborted
      OBVIOUS
    <2>1. CASE r = controller
      BY <1>2, <2>1
    <2>2. CASE r # controller
      BY <1>2, <2>2 DEF HInv, H!OneInFlight
    <2> QED BY <2>1, <2>2
  <1>4. H!TypeOK'
    BY <1>2 DEF H!Unmount, HInv, H!TypeOK, RunSlot
  <1>5. H!OneInFlight'
    BY <1>2, <1>3 DEF H!OneInFlight, H!Running
  <1> QED BY <1>3, <1>4, <1>5 DEF HInv

\* Every step of the component keeps the invariant.
LEMMA HookNext == ASSUME HInv, [H!Next]_(H!vars) PROVE HInv'
  <1>1. CASE H!Reset
    BY <1>1, PageAssumption DEF H!Reset, HInv, H!TypeOK, H!OneInFlight, H!Running, H!Idle
  <1>2. CASE H!Remount
    BY <1>2 DEF H!Remount, HInv, H!TypeOK, H!OneInFlight, H!Running
  <1>3. CASE UNCHANGED H!vars
    BY <1>3 DEF H!vars, HInv, H!TypeOK, H!OneInFlight, H!Running
  <1> QED BY <1>1, <1>2, <1>3, HookStart, HookSettle, HookUnmount DEF H!Next

-----------------------------------------------------------------------------
(***************************************************************************)
(* The autofill hook.                                                      *)
(***************************************************************************)
EffectSlot == [pc : {"idle", "running", "settled"}, cancelled : BOOLEAN, aborted : BOOLEAN]

FormTypes ==
  /\ effect \in [F!Effects -> EffectSlot]
  /\ current \in {0} \cup F!Effects
  /\ armed \in BOOLEAN
  /\ told \subseteq F!Effects

\* Only the last run of the effect was not cleaned up, and one that has not run yet
\* was not.
LastListens ==
  /\ \A e \in F!Effects : effect[e].pc # "idle" /\ e # current => effect[e].cancelled
  /\ \A e \in F!Effects : effect[e].pc = "idle" => ~effect[e].cancelled /\ ~effect[e].aborted /\ e # current
  /\ current # 0 => ~effect[current].cancelled /\ ~effect[current].aborted

FInv == FormTypes /\ LastListens /\ F!ActiveMeansArmed

-----------------------------------------------------------------------------
\* The cleanup touches the run it belongs to and no other.
LEMMA CleanedFacts ==
  ASSUME FormTypes
  PROVE  /\ F!Cleaned(effect, current) \in [F!Effects -> EffectSlot]
         /\ \A e \in F!Effects : F!Cleaned(effect, current)[e].pc = effect[e].pc
         /\ \A e \in F!Effects \ {current} : F!Cleaned(effect, current)[e] = effect[e]
         /\ current # 0 => F!Cleaned(effect, current)[current].cancelled
  <1>1. CASE current = 0
    <2>1. F!Cleaned(effect, current) = effect
      BY <1>1 DEF F!Cleaned
    <2> QED BY <1>1, <2>1 DEF FormTypes
  <1>2. CASE current # 0
    <2> DEFINE q == [effect[current] EXCEPT !.cancelled = TRUE, !.aborted = TRUE]
    <2>1. current \in F!Effects /\ effect[current] \in EffectSlot
      BY <1>2 DEF FormTypes
    <2>2. F!Cleaned(effect, current) = [effect EXCEPT ![current] = q]
      BY <1>2, <2>1 DEF F!Cleaned, FormTypes, EffectSlot
    <2>3. q \in EffectSlot /\ q.pc = effect[current].pc /\ q.cancelled
      BY <2>1 DEF EffectSlot
    <2> HIDE DEF q
    <2> QED BY <2>1, <2>2, <2>3 DEF FormTypes
  <1> QED BY <1>1, <1>2

\* A form starts with no run of its effect.
LEMMA FormInit == ASSUME F!Init PROVE FInv
  <1>1. FormTypes
    BY DEF F!Init, FormTypes, EffectSlot
  <1>2. LastListens
    BY DEF F!Init, LastListens, F!Effects
  <1>3. F!ActiveMeansArmed
    BY DEF F!Init, F!ActiveMeansArmed
  <1> QED BY <1>1, <1>2, <1>3 DEF FInv

\* A new run is the one that is armed, and the run before listens no more.
LEMMA FormEffect == ASSUME FInv, NEW e \in F!Effects, F!RunEffect(e) PROVE FInv'
  <1> DEFINE f == F!Cleaned(effect, current)
  <1>1. /\ f \in [F!Effects -> EffectSlot]
        /\ \A d \in F!Effects : f[d].pc = effect[d].pc
        /\ \A d \in F!Effects \ {current} : f[d] = effect[d]
        /\ current # 0 => f[current].cancelled
    BY CleanedFacts DEF FInv
  <1>2. /\ effect[e].pc = "idle" /\ e # current /\ ~effect[e].cancelled /\ ~effect[e].aborted
        /\ effect' = [f EXCEPT ![e].pc = "running"] /\ current' = e /\ armed' = TRUE /\ told' = told
        /\ current \in {0} \cup F!Effects /\ e # 0
    BY DEF F!RunEffect, FInv, LastListens, FormTypes, F!Effects
  <1> HIDE DEF f
  <1> DEFINE q == [f[e] EXCEPT !.pc = "running"]
  <1>3. effect' = [f EXCEPT ![e] = q]
    BY <1>1, <1>2 DEF EffectSlot
  <1>4. q \in EffectSlot /\ q.pc = "running" /\ ~q.cancelled /\ ~q.aborted
    BY <1>1, <1>2 DEF EffectSlot
  <1> HIDE DEF q
  <1>5. /\ effect' \in [F!Effects -> EffectSlot] /\ effect'[e] = q
        /\ \A d \in F!Effects \ {e} : effect'[d] = f[d]
    BY <1>1, <1>3, <1>4
  <1>6. FormTypes'
    BY <1>2, <1>5 DEF FInv, FormTypes
  <1>7. ASSUME NEW d \in F!Effects, effect'[d].pc # "idle", d # e PROVE effect'[d].cancelled
    <2>1. effect'[d] = f[d] /\ effect[d].pc # "idle"
      BY <1>1, <1>5, <1>7
    <2>2. CASE d = current
      BY <1>1, <1>7, <2>1, <2>2 DEF F!Effects
    <2>3. CASE d # current
      BY <1>1, <2>1, <2>3 DEF FInv, LastListens
    <2> QED BY <2>2, <2>3
  <1>8. ASSUME NEW d \in F!Effects, effect'[d].pc = "idle"
        PROVE  ~effect'[d].cancelled /\ ~effect'[d].aborted /\ d # e
    <2>1. d # e
      BY <1>4, <1>5, <1>8
    <2>2. effect'[d] = f[d] /\ effect[d].pc = "idle"
      BY <1>1, <1>5, <1>8, <2>1
    <2>3. ~effect[d].cancelled /\ ~effect[d].aborted /\ d # current
      BY <2>2 DEF FInv, LastListens
    <2> QED BY <1>1, <2>1, <2>2, <2>3
  <1>9. LastListens'
    BY <1>2, <1>4, <1>5, <1>7, <1>8 DEF LastListens
  <1>10. F!ActiveMeansArmed'
    BY <1>2, <1>4, <1>5 DEF F!ActiveMeansArmed
  <1> QED BY <1>6, <1>9, <1>10 DEF FInv

\* A form that goes away has no current run.
LEMMA FormUnmount == ASSUME FInv, F!Unmount PROVE FInv'
  <1>1. /\ effect' \in [F!Effects -> EffectSlot]
        /\ \A d \in F!Effects : effect'[d].pc = effect[d].pc
        /\ \A d \in F!Effects \ {current} : effect'[d] = effect[d]
        /\ effect'[current].cancelled
        /\ current # 0 /\ current' = 0 /\ armed' = armed /\ told' = told
    BY CleanedFacts DEF FInv, F!Unmount
  <1>2. FormTypes'
    BY <1>1 DEF FInv, FormTypes
  <1>3. LastListens'
    <2>1. 0 \notin F!Effects
      BY DEF F!Effects
    <2>2. ASSUME NEW d \in F!Effects, effect'[d].pc # "idle" PROVE effect'[d].cancelled
      BY <1>1, <2>2 DEF FInv, LastListens
    <2>3. ASSUME NEW d \in F!Effects, effect'[d].pc = "idle" PROVE ~effect'[d].cancelled /\ ~effect'[d].aborted
      BY <1>1, <2>3 DEF FInv, LastListens
    <2> QED BY <1>1, <2>1, <2>2, <2>3 DEF LastListens
  <1>4. F!ActiveMeansArmed'
    BY <1>1 DEF F!ActiveMeansArmed
  <1> QED BY <1>2, <1>3, <1>4 DEF FInv

\* Only the run that listens switches the form off.
LEMMA FormSettle == ASSUME FInv, NEW e \in F!Effects, F!Settle(e) PROVE FInv'
  <1> DEFINE q == [effect[e] EXCEPT !.pc = "settled"]
  <1>1. effect \in [F!Effects -> EffectSlot] /\ effect[e].pc = "running" /\ current' = current
        /\ armed' = (IF F!NotCancelled(e) THEN FALSE ELSE armed)
        /\ effect' = [effect EXCEPT ![e] = q]
    BY DEF FInv, FormTypes, EffectSlot, F!Settle
  <1>2. q \in EffectSlot /\ q.pc = "settled" /\ q.cancelled = effect[e].cancelled /\ q.aborted = effect[e].aborted
    BY <1>1 DEF EffectSlot
  <1> HIDE DEF q
  <1>3. /\ effect' \in [F!Effects -> EffectSlot] /\ effect'[e] = q
        /\ \A d \in F!Effects \ {e} : effect'[d] = effect[d]
    BY <1>1, <1>2
  <1>4. FormTypes'
    BY <1>1, <1>3 DEF FInv, FormTypes, F!Settle
  <1>5. LastListens'
    BY <1>1, <1>2, <1>3 DEF FInv, LastListens
  <1>6. F!ActiveMeansArmed'
    <2> SUFFICES ASSUME current # 0
                 PROVE  armed' <=> effect'[current].pc = "running" /\ ~effect'[current].aborted
      BY <1>1 DEF F!ActiveMeansArmed
    <2>1. current \in F!Effects /\ ~effect[current].cancelled
      BY DEF FInv, FormTypes, LastListens
    <2>2. CASE e = current
      BY <1>1, <1>2, <1>3, <2>1, <2>2 DEF F!NotCancelled
    <2>3. CASE e # current
      <3>1. effect[e].cancelled
        BY <1>1, <2>3 DEF FInv, LastListens
      <3>2. armed' = armed
        BY <1>1, <3>1 DEF F!NotCancelled
      <3> QED BY <1>3, <2>1, <2>3, <3>2 DEF FInv, F!ActiveMeansArmed
    <2> QED BY <2>2, <2>3
  <1> QED BY <1>4, <1>5, <1>6 DEF FInv

\* Every step keeps the invariant.
LEMMA FormNext == ASSUME FInv, [F!Next]_(F!vars) PROVE FInv'
  <1>1. CASE UNCHANGED F!vars
    BY <1>1 DEF F!vars, FInv, FormTypes, LastListens, F!ActiveMeansArmed
  <1> QED BY <1>1, FormEffect, FormSettle, FormUnmount DEF F!Next

-----------------------------------------------------------------------------
\* Through any number of starts, unmounts and renders: a component has at most
\* one ceremony that nothing aborted, and the ref can abort it; a form shows
\* autofill as armed exactly while its own call is under way
\* (react/index.ts:39, 143).
THEOREM OneCallPerHook == PageSpec => []HooksHoldOneCall
  <1>1. PageInit => HInv /\ FInv
    BY HookInit, FormInit DEF PageInit
  <1>2. HInv /\ FInv /\ [PageNext]_everything => (HInv /\ FInv)'
    BY PageStep, HookNext, FormNext
  <1>3. HInv /\ FInv => HooksHoldOneCall
    BY DEF HInv, FInv, HooksHoldOneCall
  <1>4. QED
    BY <1>1, <1>2, <1>3, PTL DEF PageSpec

\* Nothing that settles late shows in a component that is gone.
LEMMA SilentStep ==
  ASSUME [H!Next]_(H!vars), ~mounted
  PROVE  state'.outcome = "none" \/ state' = state
  <1>1. ASSUME NEW r \in H!Runs, H!Start(r) PROVE state'.outcome = "none"
    BY <1>1 DEF H!Start
  <1>2. ASSUME NEW r \in H!Runs, H!Settle(r) PROVE state' = state
    BY <1>2 DEF H!Settle, H!Show
  <1>3. CASE H!Reset
    BY <1>3 DEF H!Reset, H!Idle
  <1>4. CASE H!Unmount \/ H!Remount \/ UNCHANGED H!vars
    BY <1>4 DEF H!Unmount, H!Remount, H!vars
  <1>5. QED
    BY <1>1, <1>2, <1>3, <1>4 DEF H!Next

\* A sign-in is told to the run that listens.
LEMMA ToldStep ==
  ASSUME FInv, [F!Next]_(F!vars), told' # told
  PROVE  told' = told \cup {current}
  <1>1. PICK e \in F!Effects : F!Settle(e)
    BY DEF F!Next, F!RunEffect, F!Unmount, F!vars
  <1>2. told' = told \cup {e} /\ ~effect[e].cancelled /\ effect[e].pc = "running"
    BY <1>1 DEF F!Settle, F!NotCancelled
  <1>3. e = current
    BY <1>2 DEF FInv, LastListens
  <1>4. QED
    BY <1>2, <1>3

\* A component that goes away, however it got there, leaves no run that was not
\* told to stop, and what settles late does not show in it; a sign-in is told to
\* the form that is shown, never to an earlier one (react/index.ts:51, 64, 71,
\* 138).
THEOREM GoneHearNothing == PageSpec => TheGoneHearNothing
  <1>1. PageInit => HInv /\ FInv
    BY HookInit, FormInit DEF PageInit
  <1>2. HInv /\ FInv /\ [PageNext]_everything => (HInv /\ FInv)'
    BY PageStep, HookNext, FormNext
  <1>3. HInv /\ [PageNext]_everything =>
          [H!Unmount => \A r \in H!Runs : H!Running(r) => run'[r].aborted]_(H!vars)
    BY HookUnmount
  <1>4. [PageNext]_everything => [~mounted => state'.outcome = "none" \/ state' = state]_(H!vars)
    BY PageStep, SilentStep
  <1>5. FInv /\ [PageNext]_everything => [told' # told => told' = told \cup {current}]_(F!vars)
    BY PageStep, ToldStep
  <1>6. QED
    BY <1>1, <1>2, <1>3, <1>4, <1>5, PTL
    DEF PageSpec, TheGoneHearNothing, H!UnmountAbortsAll, H!SilentOnceGone, F!OnlyTheShownFormIsTold

-----------------------------------------------------------------------------
(***************************************************************************)
(* The settings page.                                                      *)
(***************************************************************************)
UseRecord == [pc : {"idle", "removing", "listing", "answered", "done"},
              removes : SUBSET Keys, list : SUBSET Keys, after : SUBSET L!Calls]

\* A removal that returned is past: what it removed is gone from the server, and
\* what a call removes is not changed any more.
Served == {"listing", "answered", "done"}
UseOK(q) ==
  /\ q.pc = "idle" => q.removes = {}
  /\ q.pc \in Served => q.removes \cap server = {}

\* A list that was asked for after a removal had returned is without what it removed.
AskedAfter(c) ==
  \A b \in request[c].after :
    /\ request[b].pc \in Served
    /\ request[c].pc = "answered" => request[c].list \cap request[b].removes = {}

LInv ==
  /\ server \subseteq Keys
  /\ request \in [L!Calls -> UseRecord]
  /\ \A c \in L!Calls : UseOK(request[c]) /\ AskedAfter(c)

\* A page begins with one refresh, which removes nothing.
LEMMA SettingsInit == L!Init => LInv
  BY DEF L!Init, LInv, UseRecord, UseOK, AskedAfter

\* A step of one call, which goes on as x.
LEMMA UseMoves ==
  ASSUME LInv, NEW c \in L!Calls, NEW x \in UseRecord, request' = [request EXCEPT ![c] = x],
         server' \subseteq server,
         x.pc = "idle" => x.removes = {},
         x.pc \in Served => x.removes \cap server' = {},
         request[c].pc \in Served => x.pc \in Served /\ x.removes = request[c].removes,
         \A b \in x.after : request[b].pc \in Served \/ (b = c /\ x.pc \in Served),
         x.pc = "answered" => \A b \in x.after : x.list \cap request'[b].removes = {}
  PROVE  LInv'
  <1>1. request' \in [L!Calls -> UseRecord] /\ server' \subseteq Keys
    BY DEF LInv
  <1>2. request'[c] = x /\ \A d \in L!Calls : d # c => request'[d] = request[d]
    BY DEF LInv
  <1>3. ASSUME NEW d \in L!Calls PROVE UseOK(request[d])'
    BY <1>2 DEF LInv, UseOK
  <1>4. ASSUME NEW b \in L!Calls, request[b].pc \in Served
        PROVE  request'[b].pc \in Served /\ request'[b].removes = request[b].removes
    BY <1>2, <1>4
  <1>5. x.after \subseteq L!Calls /\ \A d \in L!Calls : request[d].after \subseteq L!Calls
    BY DEF LInv, UseRecord
  <1>6. ASSUME NEW d \in L!Calls, d # c PROVE AskedAfter(d)'
    <2>1. request'[d] = request[d] /\ AskedAfter(d)
      BY <1>2, <1>6 DEF LInv
    <2>2. ASSUME NEW b \in request[d].after
          PROVE  /\ request'[b].pc \in Served
                 /\ request[d].pc = "answered" => request[d].list \cap request'[b].removes = {}
      BY <1>4, <1>5, <2>1, <2>2 DEF AskedAfter
    <2>3. QED
      BY <2>1, <2>2 DEF AskedAfter
  <1>7. AskedAfter(c)'
    <2>1. ASSUME NEW b \in x.after PROVE request'[b].pc \in Served
      BY <1>2, <1>4, <1>5, <2>1
    <2>2. QED
      BY <1>2, <2>1 DEF AskedAfter
  <1>8. QED
    BY <1>1, <1>3, <1>6, <1>7 DEF LInv

LEMMA SettingsNext ==
  ASSUME LInv, [L!Next]_(L!vars)
  PROVE  LInv'
  <1>1. CASE UNCHANGED L!vars
    BY <1>1 DEF L!vars, LInv, UseOK, AskedAfter
  <1>2. ASSUME NEW c \in L!Calls, \/ L!Refresh(c) \/ L!Remove(c) \/ L!Removed(c) \/ L!NotRemoved(c)
                                  \/ L!Listed(c) \/ L!Answered(c) \/ L!NotAnswered(c)
        PROVE  LInv'
    <2> DEFINE q == request[c]
    <2>1. q \in UseRecord /\ UseOK(q) /\ request \in [L!Calls -> UseRecord] /\ server \subseteq Keys
      BY DEF LInv
    <2>2. q.after \subseteq L!Calls /\ \A b \in q.after : request[b].pc \in Served
      BY DEF LInv, UseRecord, AskedAfter
    <2>3. \A b \in L!Returned(request, c) :
            b \in L!Calls /\ (b = c \/ request[b].pc \in Served)
      BY DEF L!Returned, LInv, UseRecord, UseOK, Served
    <2>4. CASE L!Refresh(c)
      <3> DEFINE x == [q EXCEPT !.pc = "listing", !.after = L!Returned(request, c)]
      <3>1. request' = [request EXCEPT ![c] = x] /\ server' = server /\ q.pc = "idle"
        BY <2>1, <2>4 DEF L!Refresh, L!Refreshing, L!MayBegin
      <3>2. x \in UseRecord /\ x.pc = "listing" /\ x.removes = {} /\ x.after = L!Returned(request, c)
        BY <2>1, <2>3, <3>1 DEF UseRecord, UseOK
      <3> HIDE DEF x
      <3>3. QED
        BY <2>3, <3>1, <3>2, UseMoves DEF Served
    <2>5. CASE L!Remove(c)
      <3>1. PICK k \in Keys : request' = [request EXCEPT ![c] = [q EXCEPT !.pc = "removing", !.removes = {k}]]
        BY <2>1, <2>5 DEF L!Remove, L!BeginRemoval
      <3> DEFINE x == [q EXCEPT !.pc = "removing", !.removes = {k}]
      <3>2. x \in UseRecord /\ x.pc = "removing" /\ x.after = q.after
        BY <2>1 DEF UseRecord
      <3>3. q.pc = "idle" /\ server' = server
        BY <2>5 DEF L!Remove, L!MayBegin
      <3>4. request' = [request EXCEPT ![c] = x]
        BY <3>1
      <3> HIDE DEF x
      <3>5. QED
        BY <2>2, <3>2, <3>3, <3>4, UseMoves DEF Served
    <2>6. CASE L!Removed(c)
      <3> DEFINE x == [q EXCEPT !.pc = "listing", !.after = L!Returned(request, c)]
      <3>1. request' = [request EXCEPT ![c] = x] /\ server' = server \ q.removes /\ q.pc = "removing"
        BY <2>1, <2>6 DEF L!Removed, L!Refreshing
      <3>2. x \in UseRecord /\ x.pc = "listing" /\ x.removes = q.removes /\ x.after = L!Returned(request, c)
        BY <2>1, <2>3 DEF UseRecord
      <3> HIDE DEF x
      <3>3. x.removes \cap server' = {} /\ server' \subseteq server
        BY <3>1, <3>2
      <3>4. q.pc \notin Served /\ x.pc \in Served
        BY <3>1, <3>2 DEF Served
      <3>5. \A b \in x.after : request[b].pc \in Served \/ (b = c /\ x.pc \in Served)
        BY <2>3, <3>2, <3>4
      <3>6. request' = [request EXCEPT ![c] = x]
        BY <3>1
      <3>7. QED
        BY <3>2, <3>3, <3>4, <3>5, <3>6, UseMoves
    <2>7. CASE L!NotRemoved(c)
      <3> DEFINE x == [q EXCEPT !.pc = "done", !.removes = {}]
      <3>1. request' = [request EXCEPT ![c] = x] /\ server' \subseteq server /\ q.pc = "removing"
        BY <2>1, <2>7 DEF L!NotRemoved
      <3>2. x \in UseRecord /\ x.pc = "done" /\ x.removes = {} /\ x.after = q.after
        BY <2>1 DEF UseRecord
      <3> HIDE DEF x
      <3>3. QED
        BY <2>2, <3>1, <3>2, UseMoves DEF Served
    <2>8. CASE L!Listed(c)
      <3> DEFINE x == [q EXCEPT !.pc = "answered", !.list = server]
      <3>1. request' = [request EXCEPT ![c] = x] /\ server' = server /\ q.pc = "listing"
        BY <2>1, <2>8 DEF L!Listed
      <3>2. x \in UseRecord /\ x.pc = "answered" /\ x.removes = q.removes /\ x.list = server /\ x.after = q.after
        BY <2>1 DEF UseRecord
      <3> HIDE DEF x
      <3>3. \A b \in L!Calls : request'[b].removes = request[b].removes
        BY <2>1, <3>1, <3>2
      <3>4. \A b \in q.after : server \cap request[b].removes = {}
        BY <2>2 DEF LInv, UseOK
      <3>5. x.pc = "answered" => \A b \in x.after : x.list \cap request'[b].removes = {}
        BY <2>2, <3>2, <3>3, <3>4
      <3>6. q.removes \cap server = {}
        BY <2>1, <3>1 DEF UseOK, Served
      <3>7. QED
        BY <2>2, <3>1, <3>2, <3>5, <3>6, UseMoves DEF Served
    <2>9. CASE L!Answered(c) \/ L!NotAnswered(c)
      <3> DEFINE x == [q EXCEPT !.pc = "done"]
      <3>1. request' = [request EXCEPT ![c] = x] /\ server' = server /\ q.pc \in {"listing", "answered"}
        BY <2>1, <2>9 DEF L!Answered, L!NotAnswered
      <3>2. x \in UseRecord /\ x.pc = "done" /\ x.removes = q.removes /\ x.after = q.after
        BY <2>1 DEF UseRecord
      <3> HIDE DEF x
      <3>3. q.removes \cap server = {}
        BY <2>1, <3>1 DEF UseOK, Served
      <3>4. QED
        BY <2>2, <3>1, <3>2, <3>3, UseMoves DEF Served
    <2>10. QED
      BY <1>2, <2>4, <2>5, <2>6, <2>7, <2>8, <2>9
  <1>3. QED
    BY <1>1, <1>2 DEF L!Next

\* A list that was asked for after a removal returned is without it.
LEMMA RemovalStep ==
  ASSUME LInv, [L!Next]_(L!vars), NEW c \in L!Calls,
         request[c].pc = "answered", request'[c].pc = "done", ~error'
  PROVE  \A b \in request[c].after : passkeys' \cap request[b].removes = {}
  <1>1. request \in [L!Calls -> UseRecord] /\ AskedAfter(c)
    BY DEF LInv
  <1>2. PICK d \in L!Calls : \/ L!Refresh(d) \/ L!Remove(d) \/ L!Removed(d) \/ L!NotRemoved(d)
                             \/ L!Listed(d) \/ L!Answered(d) \/ L!NotAnswered(d)
    BY DEF L!Next, L!vars
  <1>3. c = d
    BY <1>1, <1>2 DEF L!Refresh, L!Remove, L!Removed, L!NotRemoved, L!Listed, L!Answered, L!NotAnswered,
         L!Refreshing, L!BeginRemoval, UseRecord
  <1>4. passkeys' = request[c].list
    BY <1>2, <1>3 DEF L!Refresh, L!Remove, L!Removed, L!NotRemoved, L!Listed, L!Answered, L!NotAnswered, L!MayBegin
  <1>5. QED
    BY <1>1, <1>4 DEF AskedAfter

-----------------------------------------------------------------------------
(***************************************************************************)
(* The picker.                                                             *)
(***************************************************************************)
SignalRecord == [op : {"none", "register", "delete", "rename", "sync", "login"},
                 pc : {"idle", "finishing", "changing", "asking", "signalling", "reporting",
                       "done", "reported", "unanswered", "refused"},
                 key : SUBSET Keys, list : SUBSET Keys, scoped : BOOLEAN,
                 setting : {"default", "off"}, beside : SUBSET G!Calls]

\* The row of a removal at one of these places is gone.
Past == {"asking", "signalling", "done", "unanswered"}

Registers(c) == signal[c].op = "register" /\ signal[c].pc = "finishing"
Removed(c) == signal[c].op = "delete" /\ signal[c].pc \in Past

\* Call d hid the passkey k that works.
Hides(d, k) ==
  \/ G!HandedOver(d) /\ k \notin signal[d].list /\ G!RegisteredBeside(k, d)
  \/ /\ signal[d].op = "login" /\ signal[d].pc = "reported" /\ k \in signal[d].key
     /\ signal[d].scoped \/ G!RegisteredBeside(k, d)

PickerTypes ==
  /\ held \subseteq Keys /\ rows \subseteq held /\ offered \subseteq held
  /\ signal \in [G!Calls -> SignalRecord]
  /\ \A c \in G!Calls : /\ signal[c].key \subseteq held
                        /\ signal[c].pc = "idle" => signal[c].op = "none" /\ signal[c].beside = {}

Single(key) == \E k \in Keys : key = {k}

\* A call under way is one of some kind; a login is of one passkey.
CallsOK ==
  \A c \in G!Calls :
    /\ signal[c].pc # "idle" => signal[c].op # "none"
    /\ signal[c].op = "login" => Single(signal[c].key)

\* Two calls under way overlap.
Besides == \A c, d \in G!Busy : c # d => G!Overlapped(c, d)

\* What is being registered is new: to the server and to every other call.
NewKeys ==
  \A c \in G!Calls : Registers(c) =>
    /\ signal[c].key \cap rows = {}
    /\ \A d \in G!Calls : d # c /\ Registers(d) => signal[c].key \cap signal[d].key = {}

\* A list about to be handed over lacks no passkey but one registered since.
ListOK ==
  \A d \in G!Calls : signal[d].pc = "signalling" =>
    /\ signal[d].list # {}
    /\ \A k \in rows \ signal[d].list : G!RegisteredBeside(k, d)

\* A passkey about to be reported does not work, or was registered since.
ReportOK ==
  \A d \in G!Calls : signal[d].pc = "reporting" =>
    /\ signal[d].op = "login"
    /\ signal[d].scoped \/ \A k \in signal[d].key \cap rows : G!RegisteredBeside(k, d)

\* A passkey that works, or is about to, and is not offered was hidden.
HiddenOK ==
  \A k \in held \ offered :
    (k \in rows \/ \E c \in G!Calls : Registers(c) /\ k \in signal[c].key)
      => \E d \in G!Calls : Hides(d, k)

\* What was removed is nowhere but in lists read before.
GoneOK ==
  \A c \in G!Calls : Removed(c) =>
    /\ signal[c].key \cap rows = {}
    /\ \A d \in G!Calls : Registers(d) => signal[c].key \cap signal[d].key = {}
    /\ signal[c].pc = "signalling" => signal[c].key \cap signal[c].list = {}
    /\ \A d \in G!Calls : d # c /\ signal[d].pc = "signalling" /\ signal[c].key \cap signal[d].list # {}
         => G!Overlapped(c, d)

GInv == /\ PickerTypes /\ CallsOK /\ Besides /\ NewKeys /\ ListOK /\ ReportOK /\ HiddenOK /\ GoneOK
        /\ G!RemovedIsNotOffered

\* A step of call c, which goes on as x, and what it may do to the tables.
Takes(c, x) ==
  LET q == signal[c]
  IN /\ x \in SignalRecord /\ signal' = [signal EXCEPT ![c] = x]
     /\ q.pc \notin G!Ended /\ x.pc # "idle" /\ x.op # "none"
     /\ q.pc = "idle" => x.beside = G!Busy
     /\ q.pc # "idle" => /\ x.op = q.op /\ x.key = q.key
                         /\ x.scoped = q.scoped /\ x.beside = q.beside
     /\ x.key \subseteq held' /\ (x.op = "login" => Single(x.key))
     /\ held \subseteq held' /\ held' \subseteq Keys /\ rows' \subseteq held' /\ offered' \subseteq held'

Rows(c, x) ==
  LET q == signal[c]
  IN /\ \/ rows' \subseteq rows
        \/ Registers(c) /\ x.pc = "done" /\ rows' \subseteq rows \cup q.key
     /\ x.op = "register" /\ x.pc = "finishing" => x.key \cap held = {} /\ rows' = rows
     /\ x.pc = "signalling" => x.list = rows' /\ rows' # {}
     /\ x.pc = "reporting" => x.op = "login" /\ (x.scoped \/ x.key \cap rows' = {})
     /\ x.op = "delete" /\ x.pc \in Past =>
          /\ x.key \cap rows' = {}
          /\ \/ q.pc = "changing" /\ x.key \subseteq rows
             \/ q.pc \in Past

Hands(c, x) ==
  /\ signal[c].pc = "signalling" /\ x.pc = "done" /\ x.list = signal[c].list
  /\ rows' = rows /\ held' = held /\ offered' = held \cap x.list

Reports(c, x) ==
  /\ signal[c].pc = "reporting" /\ x.pc = "reported"
  /\ rows' = rows /\ held' = held /\ offered' = offered \ x.key

Offers(c, x) ==
  /\ \/ offered' = offered \cup (held' \ held)
     \/ Hands(c, x)
     \/ Reports(c, x)
  /\ "allAcceptedCredentials" \in Support /\ x.op = "delete" /\ x.pc = "done" => Hands(c, x)

LEMMA PickerInit == G!Init => GInv
  <1>1. ASSUME G!Init PROVE PickerTypes
    BY <1>1, PageAssumption DEF G!Init, PickerTypes, SignalRecord
  <1>2. ASSUME G!Init, NEW c \in G!Calls
        PROVE  signal[c].op = "none" /\ signal[c].pc = "idle"
    BY <1>2 DEF G!Init
  <1>3. ASSUME G!Init PROVE held \subseteq offered
    BY <1>3 DEF G!Init
  <1>4. QED
    BY <1>1, <1>2, <1>3
    DEF GInv, CallsOK, Besides, NewKeys, ListOK, ReportOK, HiddenOK, GoneOK, G!RemovedIsNotOffered, G!At,
        G!Busy, Registers, Removed

-----------------------------------------------------------------------------
\* What calls did, and beside which others, is not forgotten.
LEMMA PickerRemembers ==
  ASSUME PickerTypes, NEW c \in G!Calls, NEW x, Takes(c, x)
  PROVE  /\ signal'[c] = x
         /\ \A d \in G!Calls : d # c => signal'[d] = signal[d]
         /\ \A a, b \in G!Calls : G!Overlapped(a, b) => G!Overlapped(a, b)'
  <1>1. signal'[c] = x /\ \A d \in G!Calls : d # c => signal'[d] = signal[d]
    BY DEF PickerTypes, Takes
  <1>2. \A a \in G!Calls : signal[a].beside \subseteq signal'[a].beside
    BY <1>1 DEF PickerTypes, Takes
  <1>3. QED
    BY <1>1, <1>2 DEF G!Overlapped

LEMMA RegisteredRemains ==
  ASSUME PickerTypes, NEW c \in G!Calls, NEW x, Takes(c, x),
         NEW k, NEW d \in G!Calls, G!RegisteredBeside(k, d)
  PROVE  G!RegisteredBeside(k, d)'
  <1>1. PICK a \in G!Calls : signal[a].op = "register" /\ k \in signal[a].key /\ G!Overlapped(a, d)
    BY DEF G!RegisteredBeside
  <1>2. signal'[a].op = "register" /\ k \in signal'[a].key
    <2>1. CASE a # c
      BY <1>1, <2>1, PickerRemembers
    <2>2. CASE a = c
      BY <1>1, <2>2, PickerRemembers DEF PickerTypes, Takes
    <2>3. QED
      BY <2>1, <2>2
  <1>3. G!Overlapped(a, d)'
    BY <1>1, PickerRemembers
  <1>4. QED
    BY <1>2, <1>3 DEF G!RegisteredBeside

LEMMA HiddenRemains ==
  ASSUME PickerTypes, NEW c \in G!Calls, NEW x, Takes(c, x),
         NEW k, NEW d \in G!Calls, Hides(d, k)
  PROVE  Hides(d, k)'
  <1>1. d # c
    BY DEF Hides, G!HandedOver, Takes, G!Ended
  <1>2. signal'[d] = signal[d]
    BY <1>1, PickerRemembers
  <1>3. G!RegisteredBeside(k, d) => G!RegisteredBeside(k, d)'
    BY RegisteredRemains
  <1>4. G!HandedOver(d)' <=> G!HandedOver(d)
    BY <1>2 DEF G!HandedOver
  <1>5. QED
    BY <1>2, <1>3, <1>4 DEF Hides

\* What is registered in a step was being registered beside every other call.
LEMMA RegisteredNow ==
  ASSUME GInv, NEW c \in G!Calls, NEW x, Takes(c, x),
         NEW a \in G!Calls, Registers(a), NEW k \in signal[a].key,
         NEW d \in G!Busy, a # d
  PROVE  G!RegisteredBeside(k, d)'
  <1>1. a \in G!Busy
    BY DEF Registers, G!Busy, G!Ended
  <1>2. G!Overlapped(a, d)
    BY <1>1 DEF GInv, Besides
  <1>3. G!RegisteredBeside(k, d)
    BY <1>2 DEF G!RegisteredBeside, Registers
  <1>4. QED
    BY <1>3, RegisteredRemains DEF GInv, G!Busy

LEMMA TypesStay ==
  ASSUME PickerTypes, NEW c \in G!Calls, NEW x, Takes(c, x)
  PROVE  PickerTypes'
  <1>1. signal' \in [G!Calls -> SignalRecord]
    BY DEF PickerTypes, Takes
  <1>2. \A d \in G!Calls : /\ signal'[d].key \subseteq held'
                           /\ signal'[d].pc = "idle" => signal'[d].op = "none" /\ signal'[d].beside = {}
    BY PickerRemembers DEF PickerTypes, Takes
  <1>3. QED
    BY <1>1, <1>2 DEF PickerTypes, Takes, SignalRecord, G!Calls

LEMMA CallsStay ==
  ASSUME GInv, NEW c \in G!Calls, NEW x, Takes(c, x)
  PROVE  CallsOK'
  <1>1. SUFFICES ASSUME NEW d \in G!Calls
                 PROVE  /\ signal'[d].pc # "idle" => signal'[d].op # "none"
                        /\ signal'[d].op = "login" => Single(signal'[d].key)
    BY DEF CallsOK
  <1>2. CASE d = c
    <2>1. signal'[d] = x
      BY <1>2, PickerRemembers DEF GInv
    <2>2. x.op # "none" /\ (x.op = "login" => Single(x.key))
      BY DEF Takes
    <2>3. QED
      BY <2>1, <2>2
  <1>3. CASE d # c
    BY <1>3, PickerRemembers DEF CallsOK, GInv
  <1>4. QED
    BY <1>2, <1>3

LEMMA BesidesStay ==
  ASSUME GInv, NEW c \in G!Calls, NEW x, Takes(c, x)
  PROVE  Besides'
  <1>1. SUFFICES ASSUME NEW a \in G!Calls, NEW b \in G!Calls, a # b, a \in G!Busy', b \in G!Busy'
                 PROVE  G!Overlapped(a, b)'
    BY DEF Besides, G!Busy
  <1>2. ASSUME NEW d \in G!Calls, d # c, d \in G!Busy' PROVE d \in G!Busy /\ G!Overlapped(c, d)'
    <2>1. d \in G!Busy
      BY <1>2, PickerRemembers DEF G!Busy, GInv
    <2>2. CASE signal[c].pc = "idle"
      <3>1. d \in signal'[c].beside
        BY <2>1, <2>2, PickerRemembers DEF GInv, Takes
      <3>2. QED
        BY <2>1, <3>1 DEF G!Overlapped
    <2>3. CASE signal[c].pc # "idle"
      <3>1. c \in G!Busy
        BY <2>3 DEF Takes, G!Busy
      <3>2. QED
        BY <1>2, <2>1, <3>1, PickerRemembers DEF GInv, Besides
    <2>4. QED
      BY <2>1, <2>2, <2>3
  <1>3. CASE a # c /\ b # c
    <2>1. a \in G!Busy /\ b \in G!Busy
      BY <1>1, <1>2, <1>3
    <2>2. QED
      BY <1>1, <2>1, PickerRemembers DEF GInv, Besides
  <1>4. CASE a = c
    BY <1>1, <1>2, <1>4
  <1>5. CASE b = c
    <2>1. G!Overlapped(c, a)'
      BY <1>1, <1>2, <1>5
    <2>2. QED
      BY <1>5, <2>1 DEF G!Overlapped
  <1>6. QED
    BY <1>3, <1>4, <1>5

LEMMA NewKeysStay ==
  ASSUME GInv, NEW c \in G!Calls, NEW x, Takes(c, x), Rows(c, x)
  PROVE  NewKeys'
  <1>1. SUFFICES ASSUME NEW a \in G!Calls, Registers(a)'
                 PROVE  /\ signal'[a].key \cap rows' = {}
                        /\ \A d \in G!Calls : d # a /\ Registers(d)' => signal'[a].key \cap signal'[d].key = {}
    BY DEF NewKeys, Registers
  <1>2. ASSUME NEW d \in G!Calls, d # c, Registers(d)'
        PROVE  Registers(d) /\ signal'[d].key = signal[d].key /\ signal[d].key \subseteq held
    BY <1>2, PickerRemembers DEF GInv, PickerTypes, Registers
  <1>3. CASE a = c
    <2>1. signal'[a].key \cap held = {} /\ rows' = rows /\ rows \subseteq held
      BY <1>1, <1>3, PickerRemembers DEF Rows, Registers, GInv, PickerTypes
    <2>2. QED
      BY <1>2, <1>3, <2>1
  <1>4. CASE a # c
    <2>1. Registers(a) /\ signal'[a].key = signal[a].key /\ signal[a].key \subseteq held
      BY <1>1, <1>2, <1>4
    <2>2. signal[a].key \cap rows' = {}
      BY <1>4, <2>1 DEF Rows, GInv, NewKeys
    <2>3. ASSUME NEW d \in G!Calls, d # a, Registers(d)' PROVE signal'[a].key \cap signal'[d].key = {}
      <3>1. CASE d = c
        BY <2>1, <2>3, <3>1, PickerRemembers DEF Rows, Registers, GInv
      <3>2. CASE d # c
        BY <1>2, <2>1, <2>3, <3>2 DEF GInv, NewKeys
      <3>3. QED
        BY <3>1, <3>2
    <2>4. QED
      BY <2>1, <2>2, <2>3
  <1>5. QED
    BY <1>3, <1>4

\* A passkey that the server has after a step it had before, or c registered it.
LEMMA RowCame ==
  ASSUME NEW c, NEW x, Rows(c, x), NEW k \in rows', k \notin rows
  PROVE  Registers(c) /\ k \in signal[c].key /\ x.pc = "done"
  BY DEF Rows

LEMMA ListStays ==
  ASSUME GInv, NEW c \in G!Calls, NEW x, Takes(c, x), Rows(c, x)
  PROVE  ListOK'
  <1>1. SUFFICES ASSUME NEW d \in G!Calls, signal'[d].pc = "signalling"
                 PROVE  /\ signal'[d].list # {}
                        /\ \A k \in rows' \ signal'[d].list : G!RegisteredBeside(k, d)'
    BY DEF ListOK
  <1>2. CASE d = c
    BY <1>1, <1>2, PickerRemembers DEF Rows, GInv
  <1>3. CASE d # c
    <2>1. signal'[d] = signal[d] /\ d \in G!Busy
      BY <1>1, <1>3, PickerRemembers DEF GInv, G!Busy, G!Ended
    <2>2. ASSUME NEW k \in rows' \ signal[d].list PROVE G!RegisteredBeside(k, d)'
      <3>1. CASE k \in rows
        <4>1. G!RegisteredBeside(k, d)
          BY <1>1, <2>1, <2>2, <3>1 DEF GInv, ListOK
        <4>2. QED
          BY <4>1, RegisteredRemains DEF GInv
      <3>2. CASE k \notin rows
        BY <1>3, <2>1, <2>2, <3>2, RowCame, RegisteredNow
      <3>3. QED
        BY <3>1, <3>2
    <2>3. QED
      BY <1>1, <2>1, <2>2 DEF GInv, ListOK
  <1>4. QED
    BY <1>2, <1>3

LEMMA ReportStays ==
  ASSUME GInv, NEW c \in G!Calls, NEW x, Takes(c, x), Rows(c, x)
  PROVE  ReportOK'
  <1>1. SUFFICES ASSUME NEW d \in G!Calls, signal'[d].pc = "reporting"
                 PROVE  /\ signal'[d].op = "login"
                        /\ signal'[d].scoped \/ \A k \in signal'[d].key \cap rows' : G!RegisteredBeside(k, d)'
    BY DEF ReportOK
  <1>2. CASE d = c
    BY <1>1, <1>2, PickerRemembers DEF Rows, GInv
  <1>3. CASE d # c
    <2>1. signal'[d] = signal[d] /\ d \in G!Busy
      BY <1>1, <1>3, PickerRemembers DEF GInv, G!Busy, G!Ended
    <2>2. signal[d].pc = "reporting" /\ signal[d].op = "login"
      BY <1>1, <2>1 DEF GInv, ReportOK
    <2>3. ASSUME ~signal[d].scoped, NEW k \in signal[d].key \cap rows' PROVE G!RegisteredBeside(k, d)'
      <3>1. CASE k \in rows
        <4>1. G!RegisteredBeside(k, d)
          BY <2>2, <2>3, <3>1 DEF GInv, ReportOK
        <4>2. QED
          BY <4>1, RegisteredRemains DEF GInv
      <3>2. CASE k \notin rows
        BY <1>3, <2>1, <2>3, <3>2, RowCame, RegisteredNow
      <3>3. QED
        BY <3>1, <3>2
    <2>4. QED
      BY <2>1, <2>2, <2>3
  <1>4. QED
    BY <1>2, <1>3

LEMMA HiddenStays ==
  ASSUME GInv, NEW c \in G!Calls, NEW x, Takes(c, x), Rows(c, x), Offers(c, x)
  PROVE  HiddenOK'
  <1>1. SUFFICES ASSUME NEW k \in held' \ offered',
                        k \in rows' \/ \E a \in G!Calls : Registers(a)' /\ k \in signal'[a].key
                 PROVE  \E d \in G!Calls : Hides(d, k)'
    BY DEF HiddenOK, Registers
  <1> DEFINE Coming == \E a \in G!Calls : Registers(a) /\ k \in signal[a].key
  <1>2. ASSUME k \in held PROVE k \in rows \/ Coming
    <2>1. CASE k \in rows'
      BY <2>1, RowCame
    <2>2. CASE \E a \in G!Calls : Registers(a)' /\ k \in signal'[a].key
      <3>1. PICK a \in G!Calls : Registers(a)' /\ k \in signal'[a].key
        BY <2>2
      <3>2. a # c
        BY <1>2, <3>1, PickerRemembers DEF Rows, Registers, GInv
      <3>3. QED
        BY <3>1, <3>2, PickerRemembers DEF Registers, GInv
    <2>3. QED
      BY <1>1, <2>1, <2>2
  <1>3. ASSUME k \in held, k \notin offered PROVE \E d \in G!Calls : Hides(d, k)'
    <2>1. PICK d \in G!Calls : Hides(d, k)
      BY <1>2, <1>3 DEF GInv, HiddenOK
    <2>2. QED
      BY <2>1, HiddenRemains DEF GInv
  <1>4. CASE offered' = offered \cup (held' \ held)
    BY <1>1, <1>3, <1>4
  <1>5. ASSUME signal[c].pc \in {"signalling", "reporting"}, k \in held, k \notin rows
        PROVE  G!RegisteredBeside(k, c)'
    <2>1. PICK a \in G!Calls : Registers(a) /\ k \in signal[a].key
      BY <1>2, <1>5
    <2>2. a # c /\ c \in G!Busy
      BY <1>5, <2>1 DEF Registers, G!Busy, G!Ended
    <2>3. QED
      BY <2>1, <2>2, RegisteredNow
  <1>6. CASE Hands(c, x)
    <2>1. k \in held /\ k \notin signal[c].list /\ signal[c].pc = "signalling"
      BY <1>1, <1>6 DEF Hands
    <2>2. G!RegisteredBeside(k, c)'
      <3>1. CASE k \in rows
        <4>1. G!RegisteredBeside(k, c)
          BY <2>1, <3>1 DEF GInv, ListOK
        <4>2. QED
          BY <4>1, RegisteredRemains DEF GInv
      <3>2. QED
        BY <1>5, <2>1, <3>1
    <2>3. G!HandedOver(c)' /\ k \notin signal'[c].list
      BY <1>6, <2>1, PickerRemembers DEF Hands, G!HandedOver, GInv, ListOK
    <2>4. Hides(c, k)'
      BY <2>2, <2>3 DEF Hides
    <2>5. QED
      BY <2>4
  <1>7. CASE Reports(c, x)
    <2>1. CASE k \notin signal[c].key
      <3>1. k \in held /\ k \notin offered
        BY <1>1, <1>7, <2>1 DEF Reports, Takes
      <3>2. QED
        BY <1>3, <3>1
    <2>2. CASE k \in signal[c].key
      <3>1. k \in held /\ signal[c].pc = "reporting" /\ signal[c].op = "login"
        BY <1>1, <1>7 DEF Reports, GInv, ReportOK
      <3>2. /\ signal'[c].op = "login" /\ signal'[c].pc = "reported" /\ k \in signal'[c].key
            /\ signal'[c].scoped = signal[c].scoped
        BY <1>7, <2>2, <3>1, PickerRemembers DEF Reports, Takes, GInv
      <3>3. signal[c].scoped \/ G!RegisteredBeside(k, c)'
        <4>1. CASE k \in rows
          <5>1. signal[c].scoped \/ G!RegisteredBeside(k, c)
            BY <2>2, <3>1, <4>1 DEF GInv, ReportOK
          <5>2. QED
            BY <5>1, RegisteredRemains DEF GInv
        <4>2. QED
          BY <1>5, <3>1, <4>1
      <3>4. Hides(c, k)'
        BY <3>2, <3>3 DEF Hides
      <3>5. QED
        BY <3>4
    <2>3. QED
      BY <2>1, <2>2
  <1>8. QED
    BY <1>4, <1>6, <1>7 DEF Offers

LEMMA GoneStays ==
  ASSUME GInv, NEW c \in G!Calls, NEW x, Takes(c, x), Rows(c, x)
  PROVE  GoneOK'
  <1>1. SUFFICES ASSUME NEW a \in G!Calls, Removed(a)'
                 PROVE  /\ signal'[a].key \cap rows' = {}
                        /\ \A d \in G!Calls : Registers(d)' => signal'[a].key \cap signal'[d].key = {}
                        /\ signal'[a].pc = "signalling" => signal'[a].key \cap signal'[a].list = {}
                        /\ \A d \in G!Calls :
                             d # a /\ signal'[d].pc = "signalling" /\ signal'[a].key \cap signal'[d].list # {}
                               => G!Overlapped(a, d)'
    BY DEF GoneOK, Removed, Registers
  <1>2. signal'[a].key \cap rows' = {}
    <2>1. CASE a = c
      BY <1>1, <2>1, PickerRemembers DEF Rows, Removed, GInv
    <2>2. CASE a # c
      <3>1. signal'[a] = signal[a] /\ Removed(a)
        BY <1>1, <2>2, PickerRemembers DEF Removed, GInv
      <3>2. QED
        BY <3>1 DEF Rows, GInv, GoneOK
    <2>3. QED
      BY <2>1, <2>2
  <1>3. a # c => signal'[a] = signal[a] /\ Removed(a)
    BY <1>1, PickerRemembers DEF Removed, GInv
  <1>4. a = c => /\ signal'[a].key = signal[a].key
                 /\ \/ Removed(a)
                    \/ signal[a].pc = "changing" /\ signal[a].key \subseteq rows
    BY <1>1, PickerRemembers DEF Rows, Takes, Removed, Past, GInv
  <1>5. ASSUME NEW d \in G!Calls, Registers(d)' PROVE signal'[a].key \cap signal'[d].key = {}
    <2>1. signal'[a].key = signal[a].key /\ signal[a].key \subseteq held
      BY <1>3, <1>4 DEF GInv, PickerTypes
    <2>2. CASE d = c
      BY <1>5, <2>1, <2>2, PickerRemembers DEF Rows, Registers, GInv
    <2>3. CASE d # c
      <3>1. Registers(d) /\ signal'[d].key = signal[d].key
        BY <1>5, <2>3, PickerRemembers DEF Registers, GInv
      <3>2. CASE Removed(a)
        BY <2>1, <3>1, <3>2 DEF GInv, GoneOK
      <3>3. CASE signal[a].key \subseteq rows
        BY <2>1, <3>1, <3>3 DEF GInv, NewKeys
      <3>4. QED
        BY <1>3, <1>4, <3>2, <3>3
    <2>4. QED
      BY <2>2, <2>3
  <1>6. signal'[a].pc = "signalling" => signal'[a].key \cap signal'[a].list = {}
    <2>1. CASE a = c
      BY <1>2, <2>1, PickerRemembers DEF Rows, GInv
    <2>2. CASE a # c
      BY <1>3, <2>2 DEF GInv, GoneOK
    <2>3. QED
      BY <2>1, <2>2
  <1>7. ASSUME NEW d \in G!Calls, d # a, signal'[d].pc = "signalling",
               signal'[a].key \cap signal'[d].list # {}
        PROVE  G!Overlapped(a, d)'
    <2>1. d # c
      BY <1>2, <1>7, PickerRemembers DEF Rows, GInv
    <2>2. signal'[d] = signal[d] /\ d \in G!Busy
      BY <1>7, <2>1, PickerRemembers DEF GInv, G!Busy, G!Ended
    <2>3. G!Overlapped(a, d)
      <3>1. CASE Removed(a)
        BY <1>3, <1>4, <1>7, <2>2, <3>1 DEF GInv, GoneOK
      <3>2. CASE signal[a].pc = "changing"
        <4>1. a \in G!Busy
          BY <3>2 DEF G!Busy, G!Ended
        <4>2. QED
          BY <1>7, <2>2, <4>1 DEF GInv, Besides
      <3>3. QED
        BY <1>3, <1>4, <3>1, <3>2
    <2>4. QED
      BY <2>3, PickerRemembers DEF GInv
  <1>8. QED
    BY <1>2, <1>5, <1>6, <1>7

LEMMA RemovedStays ==
  ASSUME GInv, NEW c \in G!Calls, NEW x, Takes(c, x), Offers(c, x)
  PROVE  G!RemovedIsNotOffered'
  <1>1. SUFFICES ASSUME "allAcceptedCredentials" \in Support, NEW a \in G!Calls,
                        signal'[a].op = "delete", signal'[a].pc = "done",
                        NEW k \in signal'[a].key, k \in offered'
                 PROVE  \E d \in G!Calls :
                          G!HandedOver(d)' /\ k \in signal'[d].list /\ G!Overlapped(a, d)'
    BY DEF G!RemovedIsNotOffered, G!At
  <1>2. CASE a = c
    <2>1. Hands(c, x) /\ x.op = "delete"
      BY <1>1, <1>2, PickerRemembers DEF Offers, GInv
    <2>2. Removed(c) /\ signal[c].pc = "signalling" /\ k \in signal[c].key
      BY <1>1, <1>2, <2>1, PickerRemembers DEF Hands, Takes, Removed, Past, GInv
    <2>3. k \notin signal[c].list
      BY <2>2 DEF GInv, GoneOK
    <2>4. QED
      BY <1>1, <2>1, <2>3 DEF Hands
  <1>3. CASE a # c
    <2>1. signal'[a] = signal[a] /\ Removed(a) /\ k \in held
      BY <1>1, <1>3, PickerRemembers DEF Removed, Past, GInv, PickerTypes
    <2>2. CASE k \in offered
      <3>1. PICK d \in G!Calls : G!HandedOver(d) /\ k \in signal[d].list /\ G!Overlapped(a, d)
        BY <1>1, <2>1, <2>2 DEF GInv, G!RemovedIsNotOffered, G!At
      <3>2. d # c
        BY <3>1 DEF G!HandedOver, Takes, G!Ended
      <3>3. G!HandedOver(d)' /\ k \in signal'[d].list
        BY <3>1, <3>2, PickerRemembers DEF GInv, G!HandedOver
      <3>4. G!Overlapped(a, d)'
        BY <3>1, PickerRemembers DEF GInv
      <3>5. QED
        BY <3>3, <3>4
    <2>3. CASE k \notin offered
      <3>1. Hands(c, x)
        BY <1>1, <2>1, <2>3 DEF Offers, Reports
      <3>2. signal[c].pc = "signalling" /\ k \in signal[c].list
        BY <1>1, <3>1 DEF Hands
      <3>3. G!Overlapped(a, c)
        BY <1>3, <2>1, <3>2, <1>1 DEF GInv, GoneOK
      <3>4. G!HandedOver(c)' /\ k \in signal'[c].list
        BY <3>1, <3>2, PickerRemembers DEF Hands, G!HandedOver, GInv
      <3>5. G!Overlapped(a, c)'
        BY <3>3, PickerRemembers DEF GInv
      <3>6. QED
        BY <3>4, <3>5
    <2>4. QED
      BY <2>2, <2>3
  <1>4. QED
    BY <1>2, <1>3

-----------------------------------------------------------------------------
\* A call that begins, with the tables as they are but for a new passkey.
LEMMA PickerBegins ==
  ASSUME PickerTypes, NEW c \in G!Calls, G!MayBegin(c),
         NEW op \in {"register", "delete", "rename", "sync", "login"},
         NEW pc \in {"finishing", "changing", "asking", "done"},
         NEW key \in SUBSET Keys, NEW scoped \in BOOLEAN, NEW setting \in {"default", "off"},
         G!Begin(c, op, pc, key, scoped, setting),
         rows' = rows, held \subseteq held', held' \subseteq Keys,
         offered' = offered \cup (held' \ held), key \subseteq held',
         op = "register" => key \cap held = {},
         op = "delete" => pc = "changing",
         op = "login" => Single(key)
  PROVE  \E x : Takes(c, x) /\ Rows(c, x) /\ Offers(c, x)
  <1> DEFINE x == [op |-> op, pc |-> pc, key |-> key, list |-> {}, scoped |-> scoped,
                   setting |-> setting, beside |-> G!Busy]
  <1>1. x \in SignalRecord
    BY DEF SignalRecord, G!Busy
  <1>2. /\ x.op = op /\ x.pc = pc /\ x.key = key /\ x.beside = G!Busy
        /\ signal' = [signal EXCEPT ![c] = x] /\ signal[c].pc = "idle"
    BY DEF G!Begin, G!MayBegin
  <1>3. signal[c].op = "none"
    BY <1>2 DEF PickerTypes
  <1> HIDE DEF x
  <1>4. Takes(c, x)
    BY <1>1, <1>2 DEF Takes, PickerTypes, G!Ended
  <1>5. Rows(c, x)
    BY <1>2 DEF Rows, Past
  <1>6. Offers(c, x)
    BY <1>2 DEF Offers
  <1>7. QED
    BY <1>4, <1>5, <1>6

\* A call under way that goes on to another place.
LEMMA PickerGoes ==
  ASSUME PickerTypes, NEW c \in G!Calls,
         NEW pc \in {"asking", "reporting", "done", "reported", "unanswered", "refused"},
         G!Go(c, pc)
  PROVE  LET x == [signal[c] EXCEPT !.pc = pc]
         IN /\ x \in SignalRecord /\ signal' = [signal EXCEPT ![c] = x]
            /\ x.op = signal[c].op /\ x.pc = pc /\ x.key = signal[c].key /\ x.list = signal[c].list
            /\ x.scoped = signal[c].scoped /\ x.beside = signal[c].beside
  BY DEF PickerTypes, SignalRecord, G!Go

LEMMA PickerMoves ==
  ASSUME GInv, NEW c \in G!Calls,
         \/ G!Create(c) \/ G!FinishRegister(c)
         \/ G!Manage(c) \/ G!Change(c) \/ G!ReadList(c) \/ G!HandOver(c)
         \/ G!Ask(c) \/ G!FinishLogin(c) \/ G!Report(c)
  PROVE  \E x : Takes(c, x) /\ Rows(c, x) /\ Offers(c, x)
  <1> DEFINE q == signal[c]
             y(pc) == [q EXCEPT !.pc = pc]
  <1>1. /\ q \in SignalRecord /\ signal \in [G!Calls -> SignalRecord] /\ q.key \subseteq held
        /\ held \subseteq Keys /\ offered \subseteq held /\ rows \subseteq held /\ PickerTypes
    BY DEF GInv, PickerTypes
  <1>2. G!ThenSync \in {"asking", "done"} /\ ("allAcceptedCredentials" \in Support => G!ThenSync = "asking")
    BY DEF G!ThenSync, G!CanSync
  <1>3. q.op = "login" => Single(q.key)
    BY DEF GInv, CallsOK
  <1>4. CASE G!Create(c)
    <2>1. PICK k \in Keys \ held :
            /\ held' = held \cup {k} /\ offered' = offered \cup {k} /\ rows' = rows
            /\ G!Begin(c, "register", "finishing", {k}, FALSE, "default") /\ G!MayBegin(c)
      BY <1>4 DEF G!Create
    <2>2. offered' = offered \cup (held' \ held) /\ held' \subseteq Keys /\ {k} \in SUBSET Keys
      BY <1>1, <2>1
    <2>3. held \subseteq held' /\ {k} \subseteq held' /\ {k} \cap held = {}
      BY <2>1
    <2> DEFINE key == {k}
    <2>4. /\ key \in SUBSET Keys /\ key \subseteq held' /\ key \cap held = {}
          /\ G!Begin(c, "register", "finishing", key, FALSE, "default")
      BY <2>1, <2>2, <2>3
    <2> HIDE DEF key
    <2>5. QED
      BY <1>1, <2>1, <2>2, <2>3, <2>4, PickerBegins
  <1>5. CASE G!Manage(c)
    <2>1. PICK op \in {"delete", "rename", "sync"}, k \in rows :
            G!Begin(c, op, IF op = "sync" THEN G!ThenSync ELSE "changing", {k}, FALSE, "default")
      BY <1>5 DEF G!Manage
    <2>2. rows' = rows /\ held' = held /\ offered' = offered /\ G!MayBegin(c)
      BY <1>5 DEF G!Manage
    <2> DEFINE place == IF op = "sync" THEN G!ThenSync ELSE "changing"
    <2>3. place \in {"changing", "asking", "done"} /\ (op = "delete" => place = "changing")
      BY <1>2
    <2> DEFINE key == {k}
               scoped == FALSE
               setting == "default"
    <2>4. /\ G!Begin(c, op, place, key, scoped, setting)
          /\ scoped \in BOOLEAN /\ setting \in {"default", "off"}
      BY <2>1
    <2>5. key \in SUBSET Keys /\ key \subseteq held' /\ offered' = offered \cup (held' \ held)
      BY <1>1, <2>2
    <2>6. /\ op \in {"register", "delete", "rename", "sync", "login"}
          /\ op = "register" => key \cap held = {}
          /\ op = "login" => Single(key)
      OBVIOUS
    <2>7. place \in {"finishing", "changing", "asking", "done"} /\ held \subseteq held' /\ held' \subseteq Keys
      BY <1>1, <2>2, <2>3
    <2> HIDE DEF place, key, scoped, setting
    <2>8. QED
      BY <1>1, <2>2, <2>3, <2>4, <2>5, <2>6, <2>7, PickerBegins
  <1>6. CASE G!Ask(c)
    <2>1. PICK named \in BOOLEAN, k \in offered, choice \in {"default", "off"} :
            G!Begin(c, "login", "finishing", {k}, named, choice)
      BY <1>6 DEF G!Ask
    <2>2. rows' = rows /\ held' = held /\ offered' = offered /\ G!MayBegin(c)
      BY <1>6 DEF G!Ask
    <2> DEFINE key == {k}
               op == "login"
               place == "finishing"
               scoped == named
               setting == choice
    <2>3. /\ key \in SUBSET Keys /\ key \subseteq held' /\ offered' = offered \cup (held' \ held)
          /\ Single(key)
          /\ held \subseteq held' /\ held' \subseteq Keys
      BY <1>1, <2>1, <2>2 DEF Single
    <2>4. G!Begin(c, op, place, key, scoped, setting)
      BY <2>1
    <2>5. /\ op \in {"register", "delete", "rename", "sync", "login"}
          /\ op = "register" => key \cap held = {}
          /\ op = "delete" => place = "changing"
          /\ op = "login" => Single(key)
      BY <2>3
    <2>6. /\ place \in {"finishing", "changing", "asking", "done"}
          /\ scoped \in BOOLEAN /\ setting \in {"default", "off"}
      BY <2>1
    <2>7. rows' = rows /\ held \subseteq held' /\ held' \subseteq Keys
      BY <2>2, <2>3
    <2> HIDE DEF key, op, place, scoped, setting
    <2>8. QED
      BY <1>1, <2>2, <2>3, <2>4, <2>5, <2>6, <2>7, PickerBegins
  <1>7. CASE G!FinishRegister(c)
    <2> DEFINE x == y("done")
    <2>1. /\ q.op = "register" /\ q.pc = "finishing" /\ G!Go(c, "done")
          /\ rows' \subseteq rows \cup q.key /\ held' = held /\ offered' = offered
      BY <1>7 DEF G!FinishRegister, G!At
    <2>2. /\ x \in SignalRecord /\ signal' = [signal EXCEPT ![c] = x]
          /\ x.op = q.op /\ x.pc = "done" /\ x.key = q.key
          /\ x.scoped = q.scoped /\ x.beside = q.beside
      BY <1>1, <2>1, PickerGoes
    <2> HIDE DEF x
    <2>3. Takes(c, x)
      BY <1>1, <1>3, <2>1, <2>2 DEF Takes, G!Ended
    <2>4. Rows(c, x) /\ Offers(c, x)
      BY <2>1, <2>2 DEF Rows, Offers, Registers
    <2>5. QED
      BY <2>3, <2>4
  <1>8. CASE G!Change(c)
    <2>1. /\ q.pc = "changing" /\ held' = held /\ offered' = offered
          /\ \/ G!Go(c, "refused") /\ rows' \subseteq rows
             \/ /\ G!Go(c, G!ThenSync) /\ q.key \subseteq rows
                /\ rows' = IF q.op = "delete" THEN rows \ q.key ELSE rows
      BY <1>8 DEF G!Change
    <2>2. q.op # "none"
      BY <2>1 DEF GInv, CallsOK
    <2>3. PICK pc \in {"refused", "asking", "done"} :
            /\ G!Go(c, pc) /\ rows' \subseteq rows
            /\ pc # "refused" => /\ pc = G!ThenSync /\ q.key \subseteq rows
                                 /\ q.op = "delete" => rows' = rows \ q.key
      BY <1>2, <2>1
    <2> DEFINE x == [q EXCEPT !.pc = pc]
    <2>4. /\ x \in SignalRecord /\ signal' = [signal EXCEPT ![c] = x]
          /\ x.op = q.op /\ x.pc = pc /\ x.key = q.key
          /\ x.scoped = q.scoped /\ x.beside = q.beside
      BY <1>1, <2>3 DEF SignalRecord, G!Go
    <2> HIDE DEF x
    <2>5. Takes(c, x)
      BY <1>1, <1>3, <2>1, <2>2, <2>3, <2>4 DEF Takes, G!Ended
    <2>6. Rows(c, x)
      BY <2>1, <2>3, <2>4 DEF Rows, Past
    <2>7. Offers(c, x)
      BY <1>2, <2>1, <2>3, <2>4 DEF Offers
    <2>8. QED
      BY <2>5, <2>6, <2>7
  <1>9. CASE G!ReadList(c)
    <2>1. /\ q.pc = "asking" /\ rows' = rows /\ held' = held /\ offered' = offered
          /\ \/ rows # {} /\ signal' = [signal EXCEPT ![c].pc = "signalling", ![c].list = rows]
             \/ G!Go(c, "unanswered")
      BY <1>9 DEF G!ReadList
    <2>2. q.op # "none"
      BY <2>1 DEF GInv, CallsOK
    <2>3. ASSUME rows # {}, signal' = [signal EXCEPT ![c].pc = "signalling", ![c].list = rows]
          PROVE  \E x : Takes(c, x) /\ Rows(c, x) /\ Offers(c, x)
      <3> DEFINE x == [q EXCEPT !.pc = "signalling", !.list = rows]
      <3>1. signal' = [signal EXCEPT ![c] = x]
        BY <1>1, <2>3
      <3>2. /\ x \in SignalRecord /\ x.op = q.op /\ x.pc = "signalling" /\ x.key = q.key
            /\ x.list = rows /\ x.scoped = q.scoped /\ x.beside = q.beside
        BY <1>1 DEF SignalRecord
      <3> HIDE DEF x
      <3>3. Takes(c, x)
        BY <1>1, <1>3, <2>1, <2>2, <3>1, <3>2 DEF Takes, G!Ended
      <3>4. x.op = "delete" => q.key \cap rows = {}
        BY <2>1, <3>2 DEF GInv, GoneOK, Removed, Past
      <3>5. Rows(c, x) /\ Offers(c, x)
        BY <2>1, <2>3, <3>2, <3>4 DEF Rows, Offers, Past
      <3>6. QED
        BY <3>3, <3>5
    <2>4. ASSUME G!Go(c, "unanswered") PROVE \E x : Takes(c, x) /\ Rows(c, x) /\ Offers(c, x)
      <3> DEFINE x == y("unanswered")
      <3>1. /\ x \in SignalRecord /\ signal' = [signal EXCEPT ![c] = x]
            /\ x.op = q.op /\ x.pc = "unanswered" /\ x.key = q.key
            /\ x.scoped = q.scoped /\ x.beside = q.beside
        BY <1>1, <2>4, PickerGoes
      <3> HIDE DEF x
      <3>2. Takes(c, x)
        BY <1>1, <1>3, <2>1, <2>2, <3>1 DEF Takes, G!Ended
      <3>3. x.op = "delete" => q.key \cap rows = {}
        BY <2>1, <3>1 DEF GInv, GoneOK, Removed, Past
      <3>4. Rows(c, x) /\ Offers(c, x)
        BY <2>1, <3>1, <3>3 DEF Rows, Offers, Past
      <3>5. QED
        BY <3>2, <3>4
    <2>5. QED
      BY <2>1, <2>3, <2>4
  <1>10. CASE G!HandOver(c)
    <2> DEFINE x == y("done")
    <2>1. /\ q.pc = "signalling" /\ G!Go(c, "done") /\ rows' = rows /\ held' = held
          /\ offered' = IF "allAcceptedCredentials" \in Support THEN held \cap q.list ELSE offered
      BY <1>10 DEF G!HandOver
    <2>2. q.op # "none"
      BY <2>1 DEF GInv, CallsOK
    <2>3. /\ x \in SignalRecord /\ signal' = [signal EXCEPT ![c] = x]
          /\ x.op = q.op /\ x.pc = "done" /\ x.key = q.key /\ x.list = q.list
          /\ x.scoped = q.scoped /\ x.beside = q.beside
      BY <1>1, <2>1, PickerGoes
    <2> HIDE DEF x
    <2>4. Takes(c, x)
      BY <1>1, <1>3, <2>1, <2>2, <2>3 DEF Takes, G!Ended
    <2>5. x.op = "delete" => q.key \cap rows = {}
      BY <2>1, <2>3 DEF GInv, GoneOK, Removed, Past
    <2>6. Rows(c, x)
      BY <2>1, <2>3, <2>5 DEF Rows, Past
    <2>7. Offers(c, x)
      BY <2>1, <2>3 DEF Offers, Hands
    <2>8. QED
      BY <2>4, <2>6, <2>7
  <1>11. CASE G!FinishLogin(c)
    <2>1. PICK pc \in {"reporting", "done"} :
            /\ signal' = [signal EXCEPT ![c].pc = pc]
            /\ pc = "reporting" => G!Unknown(c)
      BY <1>11 DEF G!FinishLogin, G!SignalAfterRefusal
    <2>2. rows' = rows /\ held' = held /\ offered' = offered /\ q.op = "login" /\ q.pc = "finishing"
      BY <1>11 DEF G!FinishLogin, G!At
    <2>3. pc = "reporting" => q.scoped \/ q.key \cap rows = {}
      BY <2>1, <2>2 DEF G!Unknown, GInv, CallsOK, Single
    <2> DEFINE x == [q EXCEPT !.pc = pc]
    <2>4. /\ x \in SignalRecord /\ signal' = [signal EXCEPT ![c] = x]
          /\ x.op = q.op /\ x.pc = pc /\ x.key = q.key
          /\ x.scoped = q.scoped /\ x.beside = q.beside
      BY <1>1, <2>1 DEF SignalRecord
    <2> HIDE DEF x
    <2>5. Takes(c, x)
      BY <1>1, <1>3, <2>1, <2>2, <2>4 DEF Takes, G!Ended
    <2>6. Rows(c, x) /\ Offers(c, x)
      BY <2>2, <2>3, <2>4 DEF Rows, Offers, Past
    <2>7. QED
      BY <2>5, <2>6
  <1>12. CASE G!Report(c)
    <2> DEFINE x == y("reported")
    <2>1. /\ q.pc = "reporting" /\ G!Go(c, "reported") /\ rows' = rows /\ held' = held
          /\ offered' = offered \ q.key
      BY <1>12 DEF G!Report
    <2>2. q.op = "login"
      BY <2>1 DEF GInv, ReportOK
    <2>3. /\ x \in SignalRecord /\ signal' = [signal EXCEPT ![c] = x]
          /\ x.op = q.op /\ x.pc = "reported" /\ x.key = q.key
          /\ x.scoped = q.scoped /\ x.beside = q.beside
      BY <1>1, <2>1, PickerGoes
    <2> HIDE DEF x
    <2>4. Takes(c, x)
      BY <1>1, <1>3, <2>1, <2>2, <2>3 DEF Takes, G!Ended
    <2>5. Rows(c, x) /\ Offers(c, x)
      BY <2>1, <2>2, <2>3 DEF Rows, Offers, Reports, Past
    <2>6. QED
      BY <2>4, <2>5
  <1>13. QED
    BY <1>4, <1>5, <1>6, <1>7, <1>8, <1>9, <1>10, <1>11, <1>12

LEMMA PickerNext ==
  ASSUME GInv, [G!Next]_(G!vars)
  PROVE  GInv'
  <1>1. CASE UNCHANGED G!vars
    BY <1>1 DEF G!vars, GInv, PickerTypes, CallsOK, Besides, NewKeys, ListOK, ReportOK, HiddenOK, GoneOK,
       G!RemovedIsNotOffered, G!Busy, Hides, Registers, Removed, G!HandedOver, G!RegisteredBeside,
       G!Overlapped, G!At
  <1>2. ASSUME NEW c \in G!Calls,
               \/ G!Create(c) \/ G!FinishRegister(c)
               \/ G!Manage(c) \/ G!Change(c) \/ G!ReadList(c) \/ G!HandOver(c)
               \/ G!Ask(c) \/ G!FinishLogin(c) \/ G!Report(c)
        PROVE  GInv'
    <2>1. PICK x : Takes(c, x) /\ Rows(c, x) /\ Offers(c, x)
      BY <1>2, PickerMoves
    <2>2. PickerTypes' /\ CallsOK'
      BY <2>1, TypesStay, CallsStay DEF GInv
    <2>3. Besides' /\ NewKeys' /\ ListOK' /\ ReportOK'
      BY <2>1, BesidesStay, NewKeysStay, ListStays, ReportStays
    <2>4. HiddenOK' /\ GoneOK' /\ G!RemovedIsNotOffered'
      BY <2>1, HiddenStays, GoneStays, RemovedStays
    <2>5. QED
      BY <2>2, <2>3, <2>4 DEF GInv
  <1>3. QED
    BY <1>1, <1>2 DEF G!Next

\* However many calls overlap and whatever the browser supports: a passkey that
\* works is hidden only by a list or a refusal that came while it was being
\* registered, or by a login for another account; and what was removed here is
\* offered again only by a list that was read before, beside the removal
\* (client/signals.ts:106-108, client/index.ts:121-127, client/credentials.ts:59-61).
THEOREM PickerOffersWhatWorks == PageSpec => []OfferedIsWhatWorks
  <1>1. PageInit => GInv
    BY PickerInit DEF PageInit
  <1>2. GInv /\ [PageNext]_everything => GInv'
    BY PageStep, PickerNext
  <1>3. ASSUME GInv PROVE G!WhatWorksIsOffered
    <2>1. SUFFICES ASSUME NEW k \in (rows \cap held) \ offered PROVE \E d \in G!Calls : Hides(d, k)
      BY DEF G!WhatWorksIsOffered, Hides
    <2>2. QED
      BY <1>3 DEF GInv, HiddenOK
  <1>4. GInv => OfferedIsWhatWorks
    BY <1>3 DEF GInv, OfferedIsWhatWorks
  <1>5. QED
    BY <1>1, <1>2, <1>4, PTL DEF PageSpec

\* A login that the server refused because it does not know the passkey does
\* not end before it is reported.
LEMMA RefusalStep ==
  ASSUME "unknownCredential" \in Support, signal \in [G!Calls -> SignalRecord],
         [G!Next]_(G!vars), NEW c \in G!Calls,
         G!At(c, "login", "finishing"), signal[c].setting # "off", ~(signal[c].key \subseteq rows)
  PROVE  signal'[c].pc # "done"
  <1>1. signal[c].pc = "finishing" /\ signal[c].op = "login"
    BY DEF G!At
  <1>2. ASSUME NEW d \in G!Calls, d # c,
               \/ G!Create(d) \/ G!FinishRegister(d)
               \/ G!Manage(d) \/ G!Change(d) \/ G!ReadList(d) \/ G!HandOver(d)
               \/ G!Ask(d) \/ G!FinishLogin(d) \/ G!Report(d)
        PROVE  signal'[c] = signal[c]
    BY <1>2 DEF G!Create, G!FinishRegister, G!Manage, G!Change, G!ReadList, G!HandOver,
         G!Ask, G!FinishLogin, G!Report, G!Go, G!Begin
  <1>3. ASSUME \/ G!Create(c) \/ G!FinishRegister(c)
               \/ G!Manage(c) \/ G!Change(c) \/ G!ReadList(c) \/ G!HandOver(c)
               \/ G!Ask(c) \/ G!FinishLogin(c) \/ G!Report(c)
        PROVE  G!FinishLogin(c)
    BY <1>1, <1>3 DEF G!Create, G!FinishRegister, G!Manage, G!Change, G!ReadList, G!HandOver,
         G!Ask, G!Report, G!At, G!MayBegin
  <1>4. ASSUME G!FinishLogin(c) PROVE signal'[c].pc = "reporting"
    <2>1. G!SignalAfterRefusal(c) /\ G!Unknown(c)
      BY DEF G!SignalAfterRefusal, G!Unknown
    <2>2. signal' = [signal EXCEPT ![c].pc = "reporting"]
      BY <1>4, <2>1 DEF G!FinishLogin
    <2>3. QED
      BY <2>2 DEF SignalRecord
  <1>5. QED
    BY <1>1, <1>2, <1>3, <1>4 DEF G!Next, G!vars

\* However the calls of a page and their answers cross, a list that was asked for
\* after a removal had returned does not show what it removed; and a passkey
\* that the server refused as unknown is reported to a browser that listens,
\* however many calls overlap (react/index.ts:187-193, client/signals.ts:143-149).
THEOREM RemovalsAreShown == "unknownCredential" \in Support => (PageSpec => RemovalsShow)
  <1> SUFFICES ASSUME "unknownCredential" \in Support PROVE PageSpec => RemovalsShow
    OBVIOUS
  <1>1. PageInit => LInv /\ GInv
    BY PickerInit, SettingsInit DEF PageInit
  <1>2. LInv /\ GInv /\ [PageNext]_everything => (LInv /\ GInv)'
    BY PageStep, SettingsNext, PickerNext
  <1>3. LInv /\ [PageNext]_everything =>
          [\A c \in L!Calls :
             request[c].pc = "answered" /\ request'[c].pc = "done" /\ ~error'
                 => \A b \in request[c].after : passkeys' \cap request[b].removes = {}]_(L!vars)
    BY PageStep, RemovalStep
  <1>4. GInv /\ [PageNext]_everything =>
          [\A c \in G!Calls :
             G!At(c, "login", "finishing") /\ signal[c].setting # "off" /\ ~(signal[c].key \subseteq rows)
                 => signal'[c].pc # "done"]_(G!vars)
    BY PageStep, RefusalStep DEF GInv, PickerTypes
  <1>5. QED
    BY <1>1, <1>2, <1>3, <1>4, PTL DEF PageSpec, RemovalsShow, L!RemovalShows, G!UnknownIsForgotten
=============================================================================
