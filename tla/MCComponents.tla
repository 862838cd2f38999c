---------------------------- MODULE MCComponents ----------------------------
(***************************************************************************)
(* Five components side by side, each driven by arbitrary callers: the     *)
(* rate limiter of the API server, the stations of ExecutionPipeline, the  *)
(* policy and signing crates of a signing node, and the vault program.     *)
(* They share no state; a behaviour follows one of them and the others     *)
(* stay in their initial state.                                            *)
(***************************************************************************)
EXTENDS MCExecutionPipeline, RateLimiter, PolicyCrate, ThresholdSigning, VaultProgram

VARIABLE focus      \* the component the behaviour is about

all == <<vars, pipelineVars, policyVars, signingVars, vaultVars, focus>>

\* The tables of the pipeline start in any state; one will do for the others.
ComponentsInit ==
    /\ Init /\ PipelineInit /\ PolicyInit /\ SigningInit /\ VaultInit
    /\ \/ focus = "pipeline"
       \/ /\ focus \in {"limiter", "policy", "signing", "vault"}
          /\ policyTable = {} /\ shareTable = {}

FocusOn(component, others) == focus = component /\ UNCHANGED <<others, focus>>

ComponentsNext ==
    \/ FocusOn("limiter", <<pipelineVars, policyVars, signingVars, vaultVars>>) /\ Next
    \/ FocusOn("pipeline", <<vars, policyVars, signingVars, vaultVars>>) /\ PipelineNext
    \/ FocusOn("policy", <<vars, pipelineVars, signingVars, vaultVars>>) /\ PolicyNext
    \/ FocusOn("signing", <<vars, pipelineVars, policyVars, vaultVars>>) /\ SigningNext
    \/ FocusOn("vault", <<vars, pipelineVars, policyVars, signingVars>>) /\ VaultNext

ComponentsSpec == ComponentsInit /\ [][ComponentsNext]_all

\* Four components are well formed (the pipeline has an invariant of its own):
\* tokens stay between none and a full load, keys are tenant:version, shares are
\* whole or erased, and vaults have a threshold of one to three and lie at their
\* owner's address.
ComponentsTypeOK == TypeOK /\ PolicyTypeOK /\ SigningTypeOK /\ VaultTypeOK

-----------------------------------------------------------------------------

CONSTANTS c1, c2, b1, b2, b3, k1

(* The policy crate: amounts on both sides of the default limits; version  *)
(* and intent labels of which two pairs read the same one after the other  *)
(* ("v", "ij" and "vi", "j"); the empty intent id.                         *)

MCTenant    == {<<"t">>}
MCVersion   == {<<"v">>, <<"v", "i">>}
MCIntentId  == {<<>>, <<"j">>, <<"i", "j">>}
MCWalletId  == {<<"w">>}
MCAmount    == {0, 1, 25000, 25001}
MCLimit     == {1, 100000}
MCToken     == {"USDC", "BONK"}
MCRecipient == {"merchant_1", "merchant_3"}

(* The signing crate: contexts that differ from the first in one field     *)
(* each, and two that divide the same bytes differently; no participant    *)
(* and one.                                                                *)

Ctx(intent, transaction, chain, domain, time) ==
    [intent_hash |-> intent, transaction_hash |-> transaction, chain |-> chain,
     domain |-> domain, timestamp |-> time]

MCByte == {"a", "b", "s", "v", "w"}

MCContext == {Ctx(<<"a">>, <<"b">>, <<"s">>, <<"v">>, 1),
              Ctx(<<"b">>, <<"b">>, <<"s">>, <<"v">>, 1),
              Ctx(<<"a">>, <<"a">>, <<"s">>, <<"v">>, 1),
              Ctx(<<"a">>, <<"b">>, <<"w">>, <<"v">>, 1),
              Ctx(<<"a">>, <<"b">>, <<"s">>, <<"w">>, 1),
              Ctx(<<"a">>, <<"b">>, <<"s">>, <<"v">>, 2),
              Ctx(<<"a", "b">>, <<"s">>, <<"v">>, <<>>, 1),
              Ctx(<<"a">>, <<"b">>, <<"s", "v">>, <<>>, 1)}

MCParticipants == {<<>>, <<2>>}

(* The vault program: lists of signers up to one more than fit. *)

MCSignerList == {<<>>, <<"o">>, <<"o", "p">>, <<"o", "p", "p">>}
=============================================================================
