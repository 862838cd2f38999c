------------------------------ MODULE ZkPolicy ------------------------------
(***************************************************************************)
(* core/zk_verifier.go.  SHA-256 is symbolic: a digest is the tuple of     *)
(* what was written into the hash, so digests agree exactly when that      *)
(* does.  (The fields are written without separators, but NewIntent leaves *)
(* the policy version empty and GenerateUUID's ids have one length.)       *)
(***************************************************************************)
EXTENDS Integers

CONSTANTS DailyLimit    \* the limit ApproveIntent passes (100000)

ASSUME DailyLimitAssumption == DailyLimit \in Nat

computeDomain(pub) == <<"domain", pub.policyVersion, pub.intentID, pub.walletID>>

computeCommitment(value, blinding, domain) == <<"commit", domain, value, blinding>>

\* A wrong computeChallenge: the amount is not part of the transcript.
computeChallengeNoAmount(commitments, pub) ==
    <<"challenge", commitments, pub.policyVersion, pub.intentID, pub.walletID>>

computeChallenge(commitments, pub) ==
    <<"challenge", commitments, pub.amount, pub.policyVersion, pub.intentID, pub.walletID>>

computeResponseCheck(commitment, challenge, domain) ==
    <<"response", domain, challenge, commitment>>

\* The statement and the values committed to: limit, amount and difference.
\* The blinding factors are random, hence different.
ProvableAmount(pub) == 0 < pub.amount /\ pub.amount <= DailyLimit

GenerateProof(pub) ==
    LET domain      == computeDomain(pub)
        commitments == <<computeCommitment(DailyLimit, "b1", domain),
                         computeCommitment(pub.amount, "b2", domain),
                         computeCommitment(DailyLimit - pub.amount, "b3", domain)>>
        challenge   == computeChallenge(commitments, pub)
    IN  [commitments |-> commitments, challenge |-> challenge, public |-> pub,
         responses |-> [k \in 1 .. 3 |->
                           computeResponseCheck(commitments[k], challenge, domain)]]

\* Symbolic digests are never all zero.
VerifyPolicyProof(proof) ==
    /\ proof.public.amount # 0
    /\ proof.challenge = computeChallenge(proof.commitments, proof.public)
    /\ \A k \in 1 .. 3 :
          proof.responses[k] = computeResponseCheck(proof.commitments[k], proof.challenge,
                                                    computeDomain(proof.public))
=============================================================================
