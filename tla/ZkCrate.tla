------------------------------ MODULE ZkCrate -------------------------------
(***************************************************************************)
(* crates/zk/src/lib.rs: the prover, the builder and the verifier of the   *)
(* Rust signing nodes.  A digest is the tuple of what was written into the *)
(* hash.  Strings are sequences of characters, because version, intent and *)
(* wallet are hashed one after the other without a separator.              *)
(***************************************************************************)
EXTENDS Integers, Sequences

CONSTANT Missing    \* a field of the builder that was not set

Labels(public) == public.policy_version \o public.intent_id \o public.wallet_id

\* Prover and Verifier each have their own copy of the next two hashes.
prover_domain(public) == <<"domain", Labels(public)>>

\* A wrong copy: the wallet is forgotten.
verifier_domain_no_wallet(public) ==
    <<"domain", public.policy_version \o public.intent_id>>

verifier_domain(public) == <<"domain", Labels(public)>>

prover_response(commitment, challenge, domain) ==
    <<"response", domain, challenge, commitment>>

verifier_response(commitment, challenge, domain) ==
    <<"response", domain, challenge, commitment>>

Commitment(value, blinding, domain) == <<"commit", domain, value, blinding>>

\* A wrong from_transcript: the amount is not part of the transcript.
from_transcript_no_amount(commitments, public) ==
    <<"challenge", commitments, Labels(public)>>

from_transcript(commitments, public) ==
    <<"challenge", commitments, public.amount, Labels(public)>>

Provable(private, public) ==
    /\ public.amount # 0
    /\ public.amount <= private.daily_limit
    /\ public.amount <= private.per_wallet_limit

\* The three blinding factors are random, hence different.
prove(private, public) ==
    LET domain      == prover_domain(public)
        commitments == <<Commitment(private.daily_limit, "b1", domain),
                         Commitment(public.amount, "b2", domain),
                         Commitment(private.daily_limit - public.amount, "b3", domain)>>
        challenge   == from_transcript(commitments, public)
    IN  [commitments |-> commitments, challenge |-> challenge, public_inputs |-> public,
         responses |-> [k \in 1 .. 3 |-> prover_response(commitments[k], challenge, domain)]]

\* ProofBuilder: the fields that were set, in any order.
PublicOf(b) == [amount |-> b.amount, policy_version |-> b.policy_version,
                intent_id |-> b.intent_id, wallet_id |-> b.wallet_id]

PrivateOf(b) == [daily_limit |-> b.daily_limit, per_wallet_limit |-> b.per_wallet_limit]

Complete(b) == \A f \in DOMAIN b : b[f] # Missing

\* The checks that no digest is all zero always pass here.
verify(proof) ==
    LET public == proof.public_inputs
    IN  IF public.amount = 0 \/ public.intent_id = <<>> THEN "InvalidProof"
        ELSE IF /\ proof.challenge = from_transcript(proof.commitments, public)
                /\ \A k \in 1 .. 3 :
                      proof.responses[k] = verifier_response(proof.commitments[k],
                                               proof.challenge, verifier_domain(public))
             THEN "valid" ELSE "invalid"

verify_zk_policy_proof(proof) ==
    [valid |-> verify(proof), amount |-> proof.public_inputs.amount]
=============================================================================
