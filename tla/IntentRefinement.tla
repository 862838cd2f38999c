-------------------------- MODULE IntentRefinement --------------------------
(* The intent handlers and the reconciler as an implementation of Treasury. *)
EXTENDS IntentLifecycle

\* The intents whose row says "confirmed".
ReportedIntents == {i \in Intent : row[i].status = "confirmed"}

T == INSTANCE Treasury WITH Transfer   <- Request,
                            OwnerOf    <- TargetOf,
                            authorised <- authorized,
                            fate       <- chain,
                            reported   <- ReportedIntents

\* With a client that sends the executions of an intent one after the other,
\* and no failing store, RPC answer or process, the handlers and the
\* reconciler do what the treasury promises: every step authorises, sends
\* once, settles, reports what the chain confirmed, withdraws a report, or
\* changes nothing a customer sees.
ImplementsTreasury == T!Spec
=============================================================================
