--------------------------- MODULE CeremonyLedger ---------------------------
(***************************************************************************)
(* What the two ceremonies promise, with nothing said of how: a ceremony   *)
(* is issued once, open to one account or to any, and comes to one end.    *)
(* Either some account it is open to is verified, which begins a session   *)
(* for that account, or it is over.  Sessions begin in no other way.       *)
(***************************************************************************)
CONSTANTS Ceremonies, Accounts, Anyone

VARIABLES
  status,    \* status[c]: how far ceremony c has come
  scope,     \* scope[c]: the account it is open to, Anyone when not restricted
  sessions   \* the accounts with a session

ledger == <<status, scope, sessions>>

LedgerInit ==
  /\ status = [c \in Ceremonies |-> "unissued"]
  /\ scope = [c \in Ceremonies |-> Anyone]
  /\ sessions \subseteq Accounts

Issue(c) ==
  /\ status[c] = "unissued"
  /\ status' = [status EXCEPT ![c] = "open"]
  /\ \E s \in Accounts \cup {Anyone} : scope' = [scope EXCEPT ![c] = s]
  /\ UNCHANGED sessions

Verify(c, a) ==
  /\ status[c] = "open"
  /\ scope[c] \in {a, Anyone}
  /\ status' = [status EXCEPT ![c] = "verified"]
  /\ sessions' = sessions \cup {a}
  /\ UNCHANGED scope

\* One attempt failed, or the clock ran out on several at once.
Close(closing) ==
  /\ \A c \in closing : status[c] = "open"
  /\ status' = [c \in Ceremonies |-> IF c \in closing THEN "over" ELSE status[c]]
  /\ UNCHANGED <<scope, sessions>>

LedgerNext ==
  \/ \E c \in Ceremonies : Issue(c) \/ \E a \in Accounts : Verify(c, a)
  \/ \E closing \in SUBSET Ceremonies : Close(closing)

LedgerSpec == LedgerInit /\ [][LedgerNext]_ledger
=============================================================================
