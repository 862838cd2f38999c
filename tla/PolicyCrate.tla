---------------------------- MODULE PolicyCrate -----------------------------
(***************************************************************************)
(* crates/policy/src/lib.rs with the proofs of crates/zk: one engine of a  *)
(* signing node, called in any order by a node that loads policies, builds *)
(* a proof, passes it on (where its public inputs may be changed, as the   *)
(* crate's tests do) and asks for a verdict.                               *)
(***************************************************************************)
EXTENDS ZkCrate

CONSTANTS
    Tenant,         \* strings: sequences of characters
    Version,
    IntentId,
    WalletId,
    Amount,
    Limit,          \* the limits a proof may be built with
    Token,
    Recipient,
    Time,           \* readings of the system clock
    FarFuture,      \* the end_time of the default policy
    Nothing         \* no proof, no answer

ASSUME AmountAssumption == Amount \subseteq Nat /\ Limit \subseteq Nat
ASSUME ClockAssumption  == Time \subseteq Nat /\ FarFuture \in Nat

VARIABLES
    policies,   \* the HashMap of the engine
    proof,      \* the proof at hand
    built,      \* history: the builder's fields of that proof
    answer      \* the last verdict

policyVars == <<policies, proof, built, answer>>

Builder == [daily_limit : Limit \cup {Missing}, per_wallet_limit : Limit,
            amount : Amount, policy_version : Version,
            intent_id : IntentId \cup {Missing}, wallet_id : WalletId]

PublicInputs == [amount : Amount, policy_version : Version, intent_id : IntentId,
                 wallet_id : WalletId]

Request == [amount : Amount, token : Token, recipient : Recipient]

\* Neither a builder nor a proof, whatever its public inputs, is taken for nothing.
ASSUME NothingAssumption ==
    /\ Nothing \notin Builder
    /\ \A b \in {c \in Builder : Complete(c)}, public \in PublicInputs :
          [prove(PrivateOf(b), PublicOf(b)) EXCEPT !.public_inputs = public] # Nothing

\* The only configuration load_policy ever inserts.
DefaultPolicy ==
    [single_tx_limit |-> 25000, daily_limit |-> 100000,
     allowed_recipients |-> {"merchant_1", "merchant_2"}, blocked_recipients |-> {},
     allowed_tokens |-> {"USDC", "SOL"},
     window_enabled |-> FALSE, start_time |-> 0, end_time |-> FarFuture]

PolicyInit ==
    /\ policies = <<>>
    /\ proof = Nothing
    /\ built = Nothing
    /\ answer = Nothing

-----------------------------------------------------------------------------
(* The policy engine *)

\* format!("{}:{}", tenant_id, policy_version)
PolicyKey(tenant, version) == tenant \o <<":">> \o version

Loaded(key, config) ==
    policies' = [k \in DOMAIN policies \cup {key} |->
                    IF k \in DOMAIN policies THEN policies[k] ELSE config]

\* A key that is present keeps its configuration.
LoadPolicy(tenant, version) ==
    /\ answer = Nothing
    /\ Loaded(PolicyKey(tenant, version), DefaultPolicy)
    /\ UNCHANGED <<proof, built, answer>>

Permits(p, req, now) ==
    /\ req.amount <= p.daily_limit
    /\ req.amount <= p.single_tx_limit
    /\ req.token \in p.allowed_tokens
    /\ \/ p.allowed_recipients = {}
       \/ req.recipient \in p.allowed_recipients \cup p.blocked_recipients
    /\ req.recipient \notin p.blocked_recipients
    /\ p.window_enabled => p.start_time <= now /\ now <= p.end_time

\* The verdicts evaluate may give: it takes whichever value the HashMap
\* yields first.
Verdicts(req, now) ==
    IF policies = <<>> THEN {"Deny"}
    ELSE {IF Permits(policies[k], req, now) THEN "Allow" ELSE "Deny" : k \in DOMAIN policies}

Answer(call, req, verdict) == [call |-> call, req |-> req, verdict |-> verdict]

evaluate(req) ==
    /\ answer = Nothing
    /\ \E now \in Time : \E v \in Verdicts(req, now) :
          answer' = Answer("evaluate", req, v)
    /\ UNCHANGED <<policies, proof, built>>

\* The second half of evaluate_with_zk.
ZkVerdict(req) ==
    LET result == verify_zk_policy_proof(proof)
    IN  CASE result.valid = "InvalidProof" -> "ZKVerification"
          [] result.valid = "valid" /\ result.amount = req.amount -> "Allow"
          [] OTHER -> "Deny"

evaluate_with_zk(req) ==
    /\ answer = Nothing /\ proof # Nothing
    /\ \E now \in Time : \E v \in Verdicts(req, now) :
          answer' = Answer("evaluate_with_zk", req, IF v = "Allow" THEN ZkVerdict(req) ELSE v)
    /\ UNCHANGED <<policies, proof, built>>

-----------------------------------------------------------------------------
(* The proof on its way *)

\* ProofBuilder::build.  A missing field or a violated constraint is an error
\* and there is no proof.  (One proof is enough: the engine remembers none.)
Build(b) ==
    LET ok == Complete(b) /\ Provable(PrivateOf(b), PublicOf(b))
    IN  /\ answer = Nothing /\ proof = Nothing
        /\ proof' = IF ok THEN prove(PrivateOf(b), PublicOf(b)) ELSE Nothing
        /\ built' = IF ok THEN b ELSE Nothing
        /\ UNCHANGED <<policies, answer>>

\* The caller overwrites the public inputs of the proof, all of which are pub.
\* (Once: overwriting them twice is overwriting them once.)
Relabel(public) ==
    /\ answer = Nothing
    /\ proof # Nothing /\ proof.public_inputs = PublicOf(built)
    /\ proof' = [proof EXCEPT !.public_inputs = public]
    /\ UNCHANGED <<policies, built, answer>>

\* The caller has taken note of the answer and makes its next call.
GoOn ==
    /\ answer # Nothing
    /\ answer' = Nothing
    /\ UNCHANGED <<policies, proof, built>>

PolicyNext ==
    \/ \E t \in Tenant, v \in Version : LoadPolicy(t, v)
    \/ \E b \in Builder : Build(b)
    \/ \E public \in PublicInputs : Relabel(public)
    \/ \E req \in Request : evaluate(req) \/ evaluate_with_zk(req)
    \/ GoOn

PolicySpec == PolicyInit /\ [][PolicyNext]_policyVars

-----------------------------------------------------------------------------
(* Properties *)

TenantVersion == {t \o <<":">> \o v : t \in Tenant, v \in Version}

\* Every state is well formed: keys are tenant:version, and there is a proof
\* exactly when build succeeded.
PolicyTypeOK ==
    /\ DOMAIN policies \subseteq TenantVersion
    /\ built \in Builder \cup {Nothing}
    /\ (proof = Nothing) = (built = Nothing)
    /\ answer # Nothing => answer.verdict \in {"Allow", "Deny", "ZKVerification"}

\* What evaluate_with_zk allows was proved: whatever became of the proof
\* between the builder and the engine, it was built for this amount, within
\* both limits given to the builder, and for the same labels read as one string.
ZkAllowSound ==
    (answer # Nothing /\ answer.call = "evaluate_with_zk" /\ answer.verdict = "Allow") =>
        /\ policies # <<>>
        /\ built.amount = answer.req.amount
        /\ 0 < built.amount /\ built.amount <= built.daily_limit
        /\ built.amount <= built.per_wallet_limit
        /\ Labels(proof.public_inputs) = Labels(PublicOf(built))

\* A request that evaluate would allow, with the proof that was built for it and
\* that nobody changed, is allowed by evaluate_with_zk.  (A builder takes an
\* empty intent id, for which verify returns an error.)
HonestProofAccepted ==
    (/\ answer # Nothing /\ answer.call = "evaluate_with_zk"
     /\ proof.public_inputs = PublicOf(built)
     /\ built.intent_id # <<>>
     /\ built.amount = answer.req.amount
     /\ \A now \in Time : Verdicts(answer.req, now) = {"Allow"}) => answer.verdict = "Allow"
=============================================================================
