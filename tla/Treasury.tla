------------------------------ MODULE Treasury ------------------------------
(***************************************************************************)
(* What the system promises of a transfer intent, without handlers, rows   *)
(* or reconcilers (docs/invariants.md, I1 and I3; docs/architecture.md,    *)
(* "chain state authoritative"): an intent is authorised before a transfer *)
(* is sent for it, at most one transfer is ever sent for it, and it is     *)
(* reported as confirmed only once its transfer is confirmed.  A report    *)
(* may be withdrawn: rejecting an intent is allowed in every status.       *)
(***************************************************************************)
CONSTANTS
    Intent,
    Transfer,   \* the possible transfers
    OwnerOf     \* the intent a transfer is sent for

VARIABLES
    authorised, \* intents that were authorised
    fate,       \* what became of a transfer
    reported    \* intents reported as confirmed

treasury == <<authorised, fate, reported>>

Init ==
    /\ authorised = {}
    /\ fate = [t \in Transfer |-> "none"]
    /\ reported = {}

Authorise(i) ==
    /\ authorised' = authorised \cup {i}
    /\ UNCHANGED <<fate, reported>>

Send(t) ==
    /\ OwnerOf[t] \in authorised
    /\ \A u \in Transfer : OwnerOf[u] = OwnerOf[t] => fate[u] = "none"
    /\ fate' = [fate EXCEPT ![t] = "pending"]
    /\ UNCHANGED <<authorised, reported>>

Settle(t) ==
    /\ fate[t] = "pending"
    /\ \E o \in {"confirmed", "failed"} : fate' = [fate EXCEPT ![t] = o]
    /\ UNCHANGED <<authorised, reported>>

Report(i) ==
    /\ \E t \in Transfer : OwnerOf[t] = i /\ fate[t] = "confirmed"
    /\ reported' = reported \cup {i}
    /\ UNCHANGED <<authorised, fate>>

Withdraw(i) ==
    /\ reported' = reported \ {i}
    /\ UNCHANGED <<authorised, fate>>

Next ==
    \/ \E i \in Intent : Authorise(i) \/ Report(i) \/ Withdraw(i)
    \/ \E t \in Transfer : Send(t) \/ Settle(t)

Spec == Init /\ [][Next]_treasury
=============================================================================
