------------------------- MODULE ExecutionPipeline -------------------------
(***************************************************************************)
(* The stations an intent passes on its way to the cluster, with the data  *)
(* they look at: input validation, policy evaluation and ZK proof on       *)
(* approval; simulation, the second evaluation, MPC signing and submission *)
(* on execution.  Intents are processed concurrently while an operator     *)
(* edits the policies and mpc_shares tables and the clock runs.  How the   *)
(* handlers share the intent rows, and what they do when a call fails, is  *)
(* the subject of IntentLifecycle.                                         *)
(***************************************************************************)
EXTENDS PolicyEngine, ZkPolicy, FiniteSets, FiniteSetsExt

CONSTANTS
    Intent,         \* the intents of one wallet
    AmountOf,       \* the amount in the create request
    DestinationOf,
    TokenOf,
    Rows,           \* the rows the policies table may hold, by key
    MaxRows,        \* bound on the rows held at a time
    WalletLimit,    \* wallet.DailyLimit
    Share,          \* the rows of share_type "frost" that mpc_shares may hold
    MaxSecond,      \* bound on the clock
    NotYet          \* nothing yet

ASSUME IntentAssumption == AmountOf \in [Intent -> 0 .. MaxInt]
ASSUME SecondAssumption == MaxSecond \in Nat

VARIABLES
    stage,          \* how far an intent has come
    policyTable,    \* the keys in the policies table
    shareTable,     \* the mpc_shares table
    second,         \* the clock, in seconds
    zkProof,        \* the ZK proof made on approval
    txHash,         \* TransactionHash of the simulation
    signature,      \* the aggregated signature
    sent,           \* the bytes submitted
    obeyed          \* history: the intent obeyed all rules whenever it was evaluated

tables       == <<policyTable, shareTable, second>>
papers       == <<zkProof, txHash, signature, sent>>
pipelineVars == <<stage, tables, papers, obeyed>>

Stage == {"new", "invalid", "pending", "rejected", "approved", "failed", "simulated",
          "checked", "signed", "sent"}

\* The stations after a successful approval.
Cleared == {"approved", "simulated", "checked", "signed", "sent"}

\* Every state is well formed, and the papers an intent has are those of its
\* station: a proof before it is approved, a transaction before it is
\* checked, a signature before it is sent.
PipelineTypeOK ==
    /\ stage \in [Intent -> Stage]
    /\ policyTable \subseteq DOMAIN Rows
    /\ shareTable \subseteq Share
    /\ second \in 0 .. MaxSecond
    /\ obeyed \in [Intent -> BOOLEAN]
    /\ \A i \in Intent :
          /\ stage[i] \in Cleared => zkProof[i] # NotYet
          /\ stage[i] \in Cleared \ {"approved"} => txHash[i] # NotYet
          /\ stage[i] \in {"signed", "sent"} <=> signature[i] # NotYet
          /\ stage[i] = "sent" <=> sent[i] # NotYet

PipelineInit ==
    /\ stage = [i \in Intent |-> "new"]
    /\ policyTable \in {ks \in SUBSET DOMAIN Rows : Cardinality(ks) <= MaxRows}
    /\ shareTable \in SUBSET Share
    /\ second = 0
    /\ zkProof = [i \in Intent |-> NotYet]
    /\ txHash = [i \in Intent |-> NotYet]
    /\ signature = [i \in Intent |-> NotYet]
    /\ sent = [i \in Intent |-> NotYet]
    /\ obeyed = [i \in Intent |-> TRUE]

Goto(i, s) == stage' = [stage EXCEPT ![i] = s]

\* The row that NewIntent makes.  It sets no policy version.
NewIntent(i) == [amount |-> AmountToString[AmountOf[i]], destination |-> DestinationOf[i],
                 token |-> TokenOf[i]]

ProofInputs(i) == [amount |-> AmountOf[i], policyVersion |-> "", intentID |-> i,
                   walletID |-> "wallet"]

Allowed(i) == Evaluate([k \in policyTable |-> Rows[k]], NewIntent(i), WalletLimit, second)

-----------------------------------------------------------------------------
(* What the rules ask of one intent, for the amount that was asked for.  A *)
(* daily limit binds the day's intents together as well: see the last      *)
(* property of this module.                                                *)

LimitOf(p) == IF p.config # Bad THEN p.config
              ELSE IF p.rule = "daily_limit" THEN WalletLimit ELSE 0

Listed(p, name) == \E r \in p.config : FoldOf[r] = FoldOf[name]

Obeys(i, p) ==
    /\ p.rule \in {"daily_limit", "single_tx_limit"} /\ LimitOf(p) > 0 => AmountOf[i] <= LimitOf(p)
    /\ p.rule = "required_signatures" => p.config # Bad /\ p.config <= 0
    /\ p.rule = "allowed_recipients" /\ p.config # Bad => Listed(p, DestinationOf[i])
    /\ p.rule = "blocked_recipients" /\ p.config # Bad => ~Listed(p, DestinationOf[i])
    /\ p.rule = "allowed_tokens" /\ p.config # Bad => Listed(p, TokenOf[i])
    /\ p.rule = "time_restriction" /\ p.config # Bad =>
          /\ p.config.start # Bad => p.config.start <= second
          /\ p.config.end # Bad => second <= p.config.end

Active == {k \in policyTable : Rows[k].isActive}

\* The history of an evaluation of intent i.
Evaluated(i) ==
    obeyed' = [obeyed EXCEPT ![i] = @ /\ \A k \in Active : Obeys(i, Rows[k])]

-----------------------------------------------------------------------------
(* CreateIntent, ApproveIntent *)

ValidateIntentInput(i) == 0 < AmountOf[i] /\ AmountOf[i] <= MaxInt \div 2

CreateIntent(i) ==
    /\ stage[i] = "new"
    /\ Goto(i, IF ValidateIntentInput(i) THEN "pending" ELSE "invalid")
    /\ UNCHANGED <<tables, papers, obeyed>>

\* Evaluation first, then the proof.  A proof that cannot be made (the amount
\* exceeds the limit) leaves the intent pending.
ApproveIntent(i) ==
    /\ stage[i] = "pending"
    /\ Evaluated(i)
    /\ \/ /\ ~Allowed(i)
          /\ Goto(i, "rejected")
          /\ UNCHANGED zkProof
       \/ /\ Allowed(i)
          /\ ~ProvableAmount(ProofInputs(i))
          /\ UNCHANGED <<stage, zkProof>>
       \/ /\ Allowed(i)
          /\ ProvableAmount(ProofInputs(i))
          /\ zkProof' = [zkProof EXCEPT ![i] = GenerateProof(ProofInputs(i))]
          /\ Goto(i, IF VerifyPolicyProof(zkProof'[i]) THEN "approved" ELSE "rejected")
    /\ UNCHANGED <<tables, txHash, signature, sent>>

-----------------------------------------------------------------------------
(* ExecuteIntent *)

\* Build: the digest covers the intent's fields and the time of the call.
BuildTx(i) == [row |-> NewIntent(i), at |-> second]

\* No proof, transaction or signature is taken for nothing.
ASSUME NotYetAssumption ==
    \A i \in Intent :
        /\ GenerateProof(ProofInputs(i)) # NotYet
        /\ \A t \in 0 .. MaxSecond :
              LET tx == [row |-> NewIntent(i), at |-> t]
              IN  /\ tx # NotYet
                  /\ \A q \in SUBSET Share : [by |-> q, message |-> <<i, NewIntent(i), tx>>] # NotYet

\* Simulate parses the amount anew (with strconv.ParseInt, which agrees with
\* parseIntentAmount on the digits of any amount that validation accepts).
Simulate(i) ==
    /\ stage[i] = "approved"
    /\ IF parseIntentAmount(NewIntent(i).amount) > 0
       THEN Goto(i, "simulated") /\ txHash' = [txHash EXCEPT ![i] = BuildTx(i)]
       ELSE Goto(i, "failed") /\ UNCHANGED txHash
    /\ UNCHANGED <<tables, zkProof, signature, sent, obeyed>>

\* A wrong execution: the policies are not evaluated again.
CheckPolicyOnce(i) ==
    /\ stage[i] = "simulated"
    /\ Evaluated(i)
    /\ Goto(i, "checked")
    /\ UNCHANGED <<tables, papers>>

CheckPolicy(i) ==
    /\ stage[i] = "simulated"
    /\ Evaluated(i)
    /\ Goto(i, IF Allowed(i) THEN "checked" ELSE "failed")
    /\ UNCHANGED <<tables, papers>>

\* computeSigningMessage: the intent's hash and id, and the transaction hash.
SigningMessage(i) == <<i, NewIntent(i), txHash[i]>>

\* A wrong Sign: whatever shares there are will do.
SignWithoutQuorum(i) ==
    /\ stage[i] = "checked"
    /\ signature' = [signature EXCEPT ![i] = [by |-> shareTable, message |-> SigningMessage(i)]]
    /\ Goto(i, "signed")
    /\ UNCHANGED <<tables, zkProof, txHash, sent, obeyed>>

\* MPCSignerImpl.Sign: the first two rows that the database returns, in no
\* particular order and of whatever tenant.
Sign(i) ==
    /\ stage[i] = "checked"
    /\ \/ /\ Cardinality(shareTable) < 2
          /\ Goto(i, "failed")
          /\ UNCHANGED signature
       \/ /\ \E q \in kSubset(2, shareTable) :
                signature' = [signature EXCEPT ![i] = [by |-> q, message |-> SigningMessage(i)]]
          /\ Goto(i, "signed")
    /\ UNCHANGED <<tables, zkProof, txHash, sent, obeyed>>

\* A wrong submission of an execution that failed before it signed: the
\* error path of Sign does not return.
SubmitUnsigned(i) ==
    /\ stage[i] \in {"signed", "failed"}
    /\ sent' = [sent EXCEPT ![i] = BuildTx(i)]
    /\ Goto(i, "sent")
    /\ UNCHANGED <<tables, zkProof, txHash, signature, obeyed>>

\* The bytes submitted are built anew.  (What SubmitTransaction makes of a bad
\* connection is the subject of SolanaClient.)
Submit(i) ==
    /\ stage[i] = "signed"
    /\ sent' = [sent EXCEPT ![i] = BuildTx(i)]
    /\ Goto(i, "sent")
    /\ UNCHANGED <<tables, zkProof, txHash, signature, obeyed>>

-----------------------------------------------------------------------------
(* The operator and the clock *)

EditPolicies ==
    /\ \E k \in DOMAIN Rows : policyTable' \in {policyTable \cup {k}, policyTable \ {k}}
    /\ Cardinality(policyTable') <= MaxRows
    /\ UNCHANGED <<stage, shareTable, second, papers, obeyed>>

EditShares ==
    /\ \E s \in Share : shareTable' \in {shareTable \cup {s}, shareTable \ {s}}
    /\ UNCHANGED <<stage, policyTable, second, papers, obeyed>>

SecondPasses ==
    /\ second < MaxSecond
    /\ second' = second + 1
    /\ UNCHANGED <<stage, policyTable, shareTable, papers, obeyed>>

PipelineNext ==
    \/ \E i \in Intent : \/ CreateIntent(i) \/ ApproveIntent(i)
                         \/ Simulate(i) \/ CheckPolicy(i) \/ Sign(i) \/ Submit(i)
    \/ EditPolicies \/ EditShares \/ SecondPasses

PipelineSpec == PipelineInit /\ [][PipelineNext]_pipelineVars

-----------------------------------------------------------------------------

\* Whatever the operator edits until the second evaluation, an intent that
\* reached the cluster obeyed every rule in force when it was approved and
\* every rule in force when it was executed, each rule read for this intent
\* alone, for the amount its creator asked for and not merely for what the
\* engine parses from the digits (I1, I2).
RulesKept ==
    \A i \in Intent : stage[i] = "sent" =>
        obeyed[i] /\ AmountOf[i] \in 1 .. DailyLimit

\* The proof of an approved intent is for this intent and this amount: the
\* verifier takes it as it is and refuses it under other public inputs.
ProofsBind ==
    \A i \in Intent : stage[i] \in Cleared =>
        \A j \in Intent, a \in {AmountOf[h] : h \in Intent} :
            VerifyPolicyProof([zkProof[i] EXCEPT !.public.intentID = j, !.public.amount = a])
                <=> j = i /\ a = AmountOf[i]

\* A signature is of two different share records, over this intent and the
\* transaction simulated for it, and no two intents share one, even if shares
\* are removed or added while intents are executed (I5, I8).
QuorumSigned ==
    \A i \in Intent : signature[i] # NotYet =>
        /\ Cardinality(signature[i].by) = 2
        /\ signature[i].message[3] = txHash[i]
        /\ \A j \in Intent \ {i} : signature[j] # signature[i]

-----------------------------------------------------------------------------
(* Statements of the documentation that the code does not keep *)

\* I8, "The transaction bytes being signed are bound to the approved intent
\* hash": the bytes submitted are the bytes that were simulated and signed.
SignedIsSubmitted ==
    \A i \in Intent : stage[i] = "sent" => sent[i] = signature[i].message[3]

\* architecture.md, Policy Engine: "Supports: max amount, daily spending": an
\* intent that the second evaluation would let pass fits into every daily limit
\* in force together with what was sent before it.  (A behaviour lasts MaxSecond
\* seconds: everything happens on one day.)
DailySpendingKept ==
    \A i \in Intent, k \in Active :
        (/\ stage[i] = "simulated" /\ Allowed(i)
         /\ Rows[k].rule = "daily_limit" /\ LimitOf(Rows[k]) > 0)
        => LET spent == MapThenSumSet(LAMBDA j : AmountOf[j], {j \in Intent : stage[j] = "sent"})
           IN  spent + AmountOf[i] <= LimitOf(Rows[k])
=============================================================================
