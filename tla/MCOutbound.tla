----------------------------- MODULE MCOutbound -----------------------------
(***************************************************************************)
(* The two clients of the API server that retry over a network: the Solana *)
(* RPC client and the webhook notifier.  They share no state; a behaviour  *)
(* follows one of them and the other stays in its initial state.           *)
(***************************************************************************)
EXTENDS SolanaClient, WebhookDelivery

VARIABLE client_of      \* "rpc" or "webhook"

outbound == <<rpcVars, webhookVars, client_of>>

OutboundInit == RpcInit /\ WebhookInit /\ client_of \in {"rpc", "webhook"}

FollowRpc     == client_of = "rpc" /\ UNCHANGED <<webhookVars, client_of>>
FollowWebhook == client_of = "webhook" /\ UNCHANGED <<rpcVars, client_of>>

OutboundNext == (FollowRpc /\ RpcNext) \/ (FollowWebhook /\ WebhookNext)

\* Goroutines run; the network, the cluster and the endpoints owe nothing.
OutboundSpec ==
    /\ OutboundInit /\ [][OutboundNext]_outbound
    /\ WF_outbound(FollowRpc /\ Client)
    /\ \A d \in Delivery : WF_outbound(FollowWebhook /\ deliver(d))

\* Both clients are well formed; neither loop runs more often than it may.
OutboundTypeOK == RpcTypeOK /\ WebhookTypeOK

\* Submission and reconciliation come to an end whatever the network and the
\* cluster do: no answer is awaited for ever.
ExecutionEnds == client_of = "rpc" => Ends
=============================================================================
