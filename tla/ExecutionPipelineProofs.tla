---------------------- MODULE ExecutionPipelineProofs ----------------------
(***************************************************************************)
(* What holds of an intent that reached the cluster, for every number of   *)
(* intents, every amount, policy row, share and sequence of edits.         *)
(***************************************************************************)
EXTENDS ExecutionPipeline, WellFoundedInduction, TLAPS

-----------------------------------------------------------------------------
(* The papers of an intent *)

Transaction(i, t) == [row |-> NewIntent(i), at |-> t]

Signed(i, q, tx) == [by |-> q, message |-> <<i, NewIntent(i), tx>>]

\* Each paper says which intent it belongs to, and stays what it was made.
PapersInv(i) ==
    /\ stage[i] \in Cleared =>
          zkProof[i] = GenerateProof(ProofInputs(i)) /\ ProvableAmount(ProofInputs(i))
    /\ stage[i] \in Cleared \ {"approved"} =>
          \E t \in 0 .. MaxSecond : txHash[i] = Transaction(i, t)
    /\ stage[i] \in {"signed", "sent"} =>
          \E q \in kSubset(2, Share) : signature[i] = Signed(i, q, txHash[i])
    /\ stage[i] \notin {"signed", "sent"} => signature[i] = NotYet
    /\ stage[i] = "sent" => \E t \in 0 .. MaxSecond : sent[i] = Transaction(i, t)
    /\ stage[i] # "sent" => sent[i] = NotYet

PipelineInv ==
    /\ stage \in [Intent -> Stage]
    /\ policyTable \subseteq DOMAIN Rows
    /\ shareTable \subseteq Share
    /\ second \in 0 .. MaxSecond
    /\ zkProof = [i \in Intent |-> zkProof[i]] /\ txHash = [i \in Intent |-> txHash[i]]
    /\ signature = [i \in Intent |-> signature[i]] /\ sent = [i \in Intent |-> sent[i]]
    /\ \A i \in Intent : PapersInv(i)

LEMMA PipelineStart == PipelineInit => PipelineInv
<1> SUFFICES ASSUME PipelineInit PROVE PipelineInv
    OBVIOUS
<1>1. second \in 0 .. MaxSecond /\ policyTable \subseteq DOMAIN Rows /\ shareTable \subseteq Share
    BY SecondAssumption DEF PipelineInit
<1>2. ASSUME NEW i \in Intent PROVE PapersInv(i)
    BY DEF PipelineInit, PapersInv, Cleared
<1> QED
    BY <1>1, <1>2 DEF PipelineInit, PipelineInv, Stage

\* A step of intent i, seen from every intent.
LEMMA IntentMoves ==
    ASSUME PipelineInv, NEW i \in Intent, NEW s \in Stage,
           stage' = [stage EXCEPT ![i] = s],
           UNCHANGED <<policyTable, shareTable, second>>,
           \E p : zkProof' = [zkProof EXCEPT ![i] = p],
           \E p : txHash' = [txHash EXCEPT ![i] = p],
           \E p : signature' = [signature EXCEPT ![i] = p],
           \E p : sent' = [sent EXCEPT ![i] = p],
           PapersInv(i)'
    PROVE  PipelineInv'
<1>1. stage' \in [Intent -> Stage] /\ stage'[i] = s
      /\ \A j \in Intent \ {i} : stage'[j] = stage[j]
    BY DEF PipelineInv
<1>2. /\ zkProof' = [j \in Intent |-> zkProof'[j]] /\ txHash' = [j \in Intent |-> txHash'[j]]
      /\ signature' = [j \in Intent |-> signature'[j]] /\ sent' = [j \in Intent |-> sent'[j]]
      /\ \A j \in Intent \ {i} : /\ zkProof'[j] = zkProof[j] /\ txHash'[j] = txHash[j]
                                 /\ signature'[j] = signature[j] /\ sent'[j] = sent[j]
    BY DEF PipelineInv
<1>3. ASSUME NEW j \in Intent PROVE PapersInv(j)'
  <2>1. CASE j = i
    BY <2>1 DEF PapersInv
  <2>2. CASE j # i
    <3>1. /\ stage'[j] = stage[j] /\ zkProof'[j] = zkProof[j] /\ txHash'[j] = txHash[j]
          /\ signature'[j] = signature[j] /\ sent'[j] = sent[j]
        BY <1>1, <1>2, <2>2
    <3>2. PapersInv(j)
        BY DEF PipelineInv
    <3> QED
        BY <3>1, <3>2 DEF PapersInv
  <2> QED
    BY <2>1, <2>2
<1> QED
    BY <1>1, <1>2, <1>3 DEF PipelineInv

LEMMA PipelineStep == PipelineInv /\ [PipelineNext]_pipelineVars => PipelineInv'
<1> SUFFICES ASSUME PipelineInv, [PipelineNext]_pipelineVars PROVE PipelineInv'
    OBVIOUS
<1> USE DEF Goto
<1>1. ASSUME NEW i \in Intent,
             \/ CreateIntent(i) \/ ApproveIntent(i) \/ Simulate(i) \/ CheckPolicy(i) \/ Sign(i)
             \/ Submit(i)
      PROVE  PipelineInv'
  <2>1. /\ zkProof = [zkProof EXCEPT ![i] = zkProof[i]] /\ txHash = [txHash EXCEPT ![i] = txHash[i]]
        /\ signature = [signature EXCEPT ![i] = signature[i]] /\ sent = [sent EXCEPT ![i] = sent[i]]
        /\ stage = [stage EXCEPT ![i] = stage[i]] /\ stage[i] \in Stage /\ PapersInv(i)
    BY DEF PipelineInv
  <2>2. /\ \A p : /\ [zkProof EXCEPT ![i] = p][i] = p /\ [txHash EXCEPT ![i] = p][i] = p
                  /\ [signature EXCEPT ![i] = p][i] = p /\ [sent EXCEPT ![i] = p][i] = p
                  /\ [stage EXCEPT ![i] = p][i] = p
    BY DEF PipelineInv
  <2>3. CASE CreateIntent(i)
    <3>1. /\ UNCHANGED <<policyTable, shareTable, second, zkProof, txHash, signature, sent>> /\ stage[i] = "new"
          /\ \E s \in {"pending", "invalid"} : stage' = [stage EXCEPT ![i] = s]
        BY <2>3 DEF CreateIntent, tables, papers
    <3>2. PICK s \in {"pending", "invalid"} : stage' = [stage EXCEPT ![i] = s]
        BY <3>1
    <3>3. PapersInv(i)'
        BY <2>1, <2>2, <3>1, <3>2 DEF PapersInv, Cleared
    <3> QED
        BY <2>1, <3>1, <3>2, <3>3, IntentMoves DEF Stage
  <2>4. CASE ApproveIntent(i)
    <3>1. UNCHANGED <<policyTable, shareTable, second, txHash, signature, sent>> /\ stage[i] = "pending"
        BY <2>4 DEF ApproveIntent, tables
    <3>2. CASE UNCHANGED zkProof /\ stage' = [stage EXCEPT ![i] = "rejected"]
      <4>1. PapersInv(i)'
        BY <2>1, <2>2, <3>1, <3>2 DEF PapersInv, Cleared
      <4> QED
        BY <2>1, <3>1, <3>2, <4>1, IntentMoves DEF Stage
    <3>3. CASE UNCHANGED <<zkProof, stage>>
      <4>1. PapersInv(i)'
        BY <2>1, <3>1, <3>3 DEF PapersInv
      <4> QED
        BY <2>1, <3>1, <3>3, <4>1, IntentMoves
    <3>4. CASE /\ ProvableAmount(ProofInputs(i))
               /\ zkProof' = [zkProof EXCEPT ![i] = GenerateProof(ProofInputs(i))]
               /\ \E s \in {"approved", "rejected"} : stage' = [stage EXCEPT ![i] = s]
      <4>1. PICK s \in {"approved", "rejected"} : stage' = [stage EXCEPT ![i] = s]
        BY <3>4
      <4>2. PapersInv(i)'
        BY <2>1, <2>2, <3>1, <3>4, <4>1 DEF PapersInv, Cleared
      <4> QED
        BY <2>1, <3>1, <3>4, <4>1, <4>2, IntentMoves DEF Stage
    <3> QED
        BY <2>4, <3>2, <3>3, <3>4 DEF ApproveIntent
  <2>5. CASE Simulate(i)
    <3>1. UNCHANGED <<policyTable, shareTable, second, zkProof, signature, sent>> /\ stage[i] = "approved"
        BY <2>5 DEF Simulate, tables
    <3>2. CASE stage' = [stage EXCEPT ![i] = "simulated"] /\ txHash' = [txHash EXCEPT ![i] = BuildTx(i)]
      <4>1. BuildTx(i) = Transaction(i, second) /\ second \in 0 .. MaxSecond
        BY DEF BuildTx, Transaction, PipelineInv
      <4>2. txHash'[i] = Transaction(i, second)
        BY <2>2, <3>2, <4>1
      <4>3. PapersInv(i)'
        BY <2>1, <2>2, <3>1, <3>2, <4>1, <4>2 DEF PapersInv, Cleared
      <4> QED
        BY <2>1, <3>1, <3>2, <4>3, IntentMoves DEF Stage
    <3>3. CASE stage' = [stage EXCEPT ![i] = "failed"] /\ UNCHANGED txHash
      <4>1. PapersInv(i)'
        BY <2>1, <2>2, <3>1, <3>3 DEF PapersInv, Cleared
      <4> QED
        BY <2>1, <3>1, <3>3, <4>1, IntentMoves DEF Stage
    <3> QED
        BY <2>5, <3>2, <3>3 DEF Simulate
  <2>6. CASE CheckPolicy(i)
    <3>1. /\ UNCHANGED <<policyTable, shareTable, second, zkProof, txHash, signature, sent>>
          /\ stage[i] = "simulated" /\ \E s \in {"checked", "failed"} : stage' = [stage EXCEPT ![i] = s]
        BY <2>6 DEF CheckPolicy, tables, papers
    <3>2. PICK s \in {"checked", "failed"} : stage' = [stage EXCEPT ![i] = s]
        BY <3>1
    <3>3. PapersInv(i)'
        BY <2>1, <2>2, <3>1, <3>2 DEF PapersInv, Cleared
    <3> QED
        BY <2>1, <3>1, <3>2, <3>3, IntentMoves DEF Stage
  <2>7. CASE Sign(i)
    <3>1. UNCHANGED <<policyTable, shareTable, second, zkProof, txHash, sent>> /\ stage[i] = "checked"
        BY <2>7 DEF Sign, tables
    <3>2. CASE stage' = [stage EXCEPT ![i] = "failed"] /\ UNCHANGED signature
      <4>1. PapersInv(i)'
        BY <2>1, <2>2, <3>1, <3>2 DEF PapersInv, Cleared
      <4> QED
        BY <2>1, <3>1, <3>2, <4>1, IntentMoves DEF Stage
    <3>3. ASSUME NEW q \in kSubset(2, shareTable), stage' = [stage EXCEPT ![i] = "signed"],
                 signature' = [signature EXCEPT ![i] = [by |-> q, message |-> SigningMessage(i)]]
          PROVE  PipelineInv'
      <4>1. q \in kSubset(2, Share)
        BY DEF kSubset, PipelineInv
      <4>2. signature'[i] = Signed(i, q, txHash[i])
        BY <2>2, <3>3 DEF Signed, SigningMessage
      <4>3. PapersInv(i)'
        BY <2>1, <2>2, <3>1, <3>3, <4>1, <4>2 DEF PapersInv, Cleared
      <4> QED
        BY <2>1, <3>1, <3>3, <4>3, IntentMoves DEF Stage
    <3> QED
        BY <2>7, <3>2, <3>3 DEF Sign
  <2>8. CASE Submit(i)
    <3>1. /\ UNCHANGED <<policyTable, shareTable, second, zkProof, txHash, signature>> /\ stage[i] = "signed"
          /\ stage' = [stage EXCEPT ![i] = "sent"] /\ sent' = [sent EXCEPT ![i] = BuildTx(i)]
        BY <2>8 DEF Submit, tables
    <3>2. second \in 0 .. MaxSecond /\ sent'[i] = Transaction(i, second)
        BY <2>2, <3>1 DEF BuildTx, Transaction, PipelineInv
    <3>3. PapersInv(i)'
        BY <2>1, <2>2, <3>1, <3>2 DEF PapersInv, Cleared
    <3> QED
        BY <2>1, <3>1, <3>3, IntentMoves DEF Stage
  <2> QED
    BY <1>1, <2>3, <2>4, <2>5, <2>6, <2>7, <2>8
<1>2. CASE EditPolicies \/ EditShares \/ SecondPasses
  <2>1. UNCHANGED <<stage, zkProof, txHash, signature, sent>>
    BY <1>2 DEF EditPolicies, EditShares, SecondPasses, papers
  <2>2. policyTable' \subseteq DOMAIN Rows /\ shareTable' \subseteq Share /\ second' \in 0 .. MaxSecond
    BY <1>2, SecondAssumption DEF EditPolicies, EditShares, SecondPasses, PipelineInv
  <2> QED
    BY <2>1, <2>2 DEF PipelineInv, PapersInv
<1>3. CASE UNCHANGED pipelineVars
    BY <1>3 DEF pipelineVars, tables, papers, PipelineInv, PapersInv
<1> QED
    BY <1>1, <1>2, <1>3 DEF PipelineNext

LEMMA PipelineInvariant == PipelineSpec => []PipelineInv
    BY PipelineStart, PipelineStep, PTL DEF PipelineSpec

\* MPCSigner.Sign signs with two different share records, over this intent and the
\* transaction simulated for it, and no two intents share a signature, whatever an
\* operator does to mpc_shares meanwhile.
THEOREM SignedByQuorum == PipelineSpec => []QuorumSigned
<1>1. PipelineInv => QuorumSigned
  <2> SUFFICES ASSUME PipelineInv, NEW i \in Intent, signature[i] # NotYet
               PROVE  /\ Cardinality(signature[i].by) = 2
                      /\ signature[i].message[3] = txHash[i]
                      /\ \A j \in Intent \ {i} : signature[j] # signature[i]
    BY DEF QuorumSigned
  <2>1. ASSUME NEW j \in Intent, signature[j] # NotYet
        PROVE  \E q \in kSubset(2, Share) : signature[j] = Signed(j, q, txHash[j])
    BY <2>1 DEF PipelineInv, PapersInv
  <2>2. PICK q \in kSubset(2, Share) : signature[i] = Signed(i, q, txHash[i])
    BY <2>1
  <2>3. Cardinality(signature[i].by) = 2 /\ signature[i].message[3] = txHash[i]
    BY <2>2 DEF Signed, kSubset
  <2>4. ASSUME NEW j \in Intent \ {i}, signature[j] = signature[i] PROVE FALSE
    <3>1. PICK r \in kSubset(2, Share) : signature[j] = Signed(j, r, txHash[j])
        BY <2>1, <2>4
    <3>2. signature[j].message[1] = j /\ signature[i].message[1] = i
        BY <2>2, <3>1 DEF Signed
    <3> QED
        BY <2>4, <3>2
  <2> QED
    BY <2>3, <2>4
<1> QED
    BY <1>1, PipelineInvariant, PTL

\* What VerifyPolicyProof makes of a proof whose intent and amount were exchanged.
LEMMA ExchangedProof ==
    ASSUME NEW i \in Intent, NEW j, NEW a, ProvableAmount(ProofInputs(i))
    PROVE  VerifyPolicyProof([GenerateProof(ProofInputs(i)) EXCEPT !.public.intentID = j,
                                                                    !.public.amount = a])
              <=> j = i /\ a = AmountOf[i]
<1> DEFINE pub == ProofInputs(i)
           own == GenerateProof(pub)
           new == [pub EXCEPT !.intentID = j, !.amount = a]
           p   == [own EXCEPT !.public.intentID = j, !.public.amount = a]
           cs  == own.commitments
<1>1. /\ pub.amount = AmountOf[i] /\ pub.intentID = i /\ pub.policyVersion = "" /\ pub.walletID = "wallet"
      /\ new.amount = a /\ new.intentID = j /\ new.policyVersion = "" /\ new.walletID = "wallet"
    BY DEF ProofInputs
<1>2. /\ own.public = pub /\ own.challenge = computeChallenge(cs, pub)
      /\ own.responses = [k \in 1 .. 3 |-> computeResponseCheck(cs[k], own.challenge, computeDomain(pub))]
    BY DEF GenerateProof
<1>3. p.public = new /\ p.commitments = cs /\ p.challenge = own.challenge /\ p.responses = own.responses
    BY DEF GenerateProof, ProofInputs
<1>4. AmountOf[i] # 0
  <2>1. 0 < AmountOf[i]
    BY <1>1 DEF ProvableAmount
  <2>2. AmountOf[i] \in 0 .. MaxInt
    BY IntentAssumption
  <2> QED
    BY <2>1, <2>2
<1> HIDE DEF pub, own, new, p, cs
<1>5. ASSUME p.challenge = computeChallenge(p.commitments, p.public)
      PROVE  j = i /\ a = AmountOf[i]
  <2>1. computeChallenge(cs, pub) = computeChallenge(cs, new)
    BY <1>2, <1>3, <1>5
  <2>2. pub.intentID = new.intentID /\ pub.amount = new.amount
    BY <2>1 DEF computeChallenge
  <2> QED
    BY <1>1, <2>2
<1>6. ASSUME j = i, a = AmountOf[i] PROVE VerifyPolicyProof(p)
  <2>1. p.challenge = computeChallenge(p.commitments, p.public)
    BY <1>1, <1>2, <1>3, <1>6 DEF computeChallenge
  <2>2. computeDomain(p.public) = computeDomain(pub)
    BY <1>1, <1>3, <1>6 DEF computeDomain
  <2>3. \A k \in 1 .. 3 : p.responses[k] = computeResponseCheck(p.commitments[k], p.challenge,
                                                                computeDomain(p.public))
    BY <1>2, <1>3, <2>2
  <2>4. p.public.amount # 0
    BY <1>1, <1>3, <1>4, <1>6
  <2> QED
    BY <2>1, <2>3, <2>4 DEF VerifyPolicyProof
<1>7. VerifyPolicyProof(p) <=> j = i /\ a = AmountOf[i]
    BY <1>5, <1>6 DEF VerifyPolicyProof
<1> QED
    BY <1>7 DEF p, own, pub

\* The proof GenerateProof makes on approval is for one intent and one amount: the
\* verifier takes it as it is and refuses it for any other.
THEOREM ProofsBound == PipelineSpec => []ProofsBind
<1>1. PipelineInv => ProofsBind
    BY ExchangedProof DEF PipelineInv, PapersInv, ProofsBind
<1> QED
    BY <1>1, PipelineInvariant, PTL

-----------------------------------------------------------------------------
(* The digits of an amount *)

\* Induction, as the absence of a least counterexample.
LEMMA Least ==
    ASSUME NEW T \in SUBSET Nat, T # {}
    PROVE  \E x \in T : \A y \in T : x <= y
<1> DEFINE R == OpToRel(<, Nat)
<1>1. IsWellFoundedOn(R, Nat)
    BY NatLessThanWellFounded
<1>2. PICK x \in T : \A y \in T : ~(<<y, x>> \in R)
  <2> HIDE DEF R
  <2> QED
    BY <1>1, WFMin
<1>3. \A y \in T : ~(y < x)
    BY <1>2 DEF OpToRel
<1> QED
    BY <1>3

LEMMA Digits ==
    ASSUME NEW n \in Nat
    PROVE  /\ (n \div 10) * 10 + (n % 10) = n /\ n \div 10 \in Nat /\ n % 10 \in 0 .. 9
           /\ n >= 10 => n \div 10 < n
    OBVIOUS

LEMMA WrapIdle == ASSUME NEW n \in 0 .. MaxInt PROVE Wrap(n) = n
    BY MaxIntAssumption DEF Wrap

\* One step of AmountToString, of which g has the digits of the smaller amounts.
StringStep(g, n) == IF n < 10 THEN <<n>> ELSE Append(g[n \div 10], n % 10)

\* The digits of the amounts up to n.
LEMMA StringsExist ==
    ASSUME NEW n \in Nat
    PROVE  \E g : g = [m \in 0 .. n |-> StringStep(g, m)]
<1> DEFINE Good(g, k) == g = [m \in 0 .. k |-> StringStep(g, m)]
           T == {k \in Nat : ~\E g : Good(g, k)}
<1>1. ASSUME T # {} PROVE FALSE
  <2>1. PICK k \in T : \A l \in T : k <= l
    BY <1>1, Least
  <2>2. \E h : h = [m \in 0 .. k - 1 |-> StringStep(h, m)]
    <3>1. CASE k = 0
      <4>1. 0 .. k - 1 = {}
        BY <3>1
      <4> QED
        BY <4>1
    <3>2. CASE k # 0
      <4>1. k - 1 \in Nat /\ ~(k <= k - 1)
        BY <3>2
      <4> QED
        BY <2>1, <4>1
    <3> QED
        BY <3>1, <3>2
  <2>3. PICK h : h = [m \in 0 .. k - 1 |-> StringStep(h, m)]
    BY <2>2
  <2> DEFINE g == [m \in 0 .. k |-> IF m < k THEN h[m] ELSE StringStep(h, m)]
  <2>4. ASSUME NEW m \in 0 .. k PROVE g[m] = StringStep(g, m)
    <3>1. m >= 10 => m \div 10 \in 0 .. k - 1 /\ m \div 10 \in 0 .. k /\ m \div 10 < k
        BY Digits
    <3>2. m >= 10 => g[m \div 10] = h[m \div 10]
        BY <3>1
    <3>3. g[m] = StringStep(h, m)
      <4>1. m < k => m \in 0 .. k - 1
        OBVIOUS
      <4> QED
        BY <2>3, <4>1
    <3> QED
        BY <3>2, <3>3 DEF StringStep
  <2>5. Good(g, k)
    BY <2>4
  <2> QED
    BY <2>1, <2>5
<1> QED
    BY <1>1

\* They do not depend on n.
LEMMA StringsUnique ==
    ASSUME NEW n \in Nat, NEW k \in Nat, n <= k, NEW g, NEW h,
           g = [m \in 0 .. n |-> StringStep(g, m)], h = [m \in 0 .. k |-> StringStep(h, m)]
    PROVE  \A m \in 0 .. n : g[m] = h[m]
<1> DEFINE T == {m \in 0 .. n : g[m] # h[m]}
<1>1. ASSUME T # {} PROVE FALSE
  <2>0. T \in SUBSET Nat
    OBVIOUS
  <2>1. PICK m \in T : \A l \in T : m <= l
    <3> HIDE DEF T
    <3> QED
        BY <1>1, <2>0, Least
  <2>2. m >= 10 => m \div 10 \in 0 .. n /\ ~(m <= m \div 10)
    BY Digits
  <2>3. m >= 10 => g[m \div 10] = h[m \div 10]
    BY <2>1, <2>2
  <2>4. g[m] = StringStep(g, m) /\ h[m] = StringStep(h, m)
    <3>1. m \in 0 .. n /\ m \in 0 .. k
        OBVIOUS
    <3>2. /\ [x \in 0 .. n |-> StringStep(g, x)][m] = StringStep(g, m)
          /\ [x \in 0 .. k |-> StringStep(h, x)][m] = StringStep(h, m)
        BY <3>1, Zenon
    <3> QED
        BY <3>2, Zenon
  <2> QED
    BY <2>3, <2>4 DEF StringStep
<1> QED
    BY <1>1

\* AmountToString is what its recursive definition says.
LEMMA Strings ==
    \A n \in Nat : AmountToString[n] = StringStep(AmountToString, n)
<1> DEFINE C(n) == CHOOSE g : g = [m \in 0 .. n |-> StringStep(g, m)]
           G == [n \in Nat |-> C(n)[n]]
           P(f) == f = [n \in Nat |-> StringStep(f, n)]
<1>1. ASSUME NEW n \in Nat PROVE C(n) = [m \in 0 .. n |-> StringStep(C(n), m)]
    BY StringsExist, Zenon
<1> HIDE DEF C
<1>2. ASSUME NEW n \in Nat PROVE G[n] = StringStep(G, n)
  <2>1. C(n)[n] = StringStep(C(n), n)
    BY <1>1
  <2>2. CASE n >= 10
    <3>1. n \div 10 \in Nat /\ n \div 10 <= n /\ n \div 10 \in 0 .. n \div 10
        BY <2>2, Digits
    <3>2. C(n \div 10)[n \div 10] = C(n)[n \div 10]
        BY <1>1, <3>1, StringsUnique
    <3> QED
        BY <2>1, <3>1, <3>2 DEF StringStep
  <2>3. CASE ~(n >= 10)
    BY <2>1, <2>3 DEF StringStep
  <2> QED
    BY <2>2, <2>3
<1>3. P(G)
    BY <1>2
<1>4. AmountToString = CHOOSE f : P(f)
    BY Zenon DEF AmountToString, StringStep
<1> HIDE DEF P
<1>5. P(AmountToString)
    BY <1>3, <1>4, Zenon
<1> QED
    BY <1>5 DEF P

\* One step of parseIntentAmount's loop over the digits of s.
ParseStep(s, g, k) == IF k = 0 THEN 0 ELSE Wrap(g[k - 1] * 10 + s[k])

LEMMA ParseExists ==
    ASSUME NEW s, NEW n \in Nat
    PROVE  \E g : g = [k \in 0 .. n |-> ParseStep(s, g, k)]
<1> DEFINE Good(g, k) == g = [m \in 0 .. k |-> ParseStep(s, g, m)]
           T == {k \in Nat : ~\E g : Good(g, k)}
<1>1. ASSUME T # {} PROVE FALSE
  <2>1. PICK k \in T : \A l \in T : k <= l
    BY <1>1, Least
  <2>2. \E h : h = [m \in 0 .. k - 1 |-> ParseStep(s, h, m)]
    <3>1. CASE k = 0
      <4>1. 0 .. k - 1 = {}
        BY <3>1
      <4> QED
        BY <4>1
    <3>2. CASE k # 0
      <4>1. k - 1 \in Nat /\ ~(k <= k - 1)
        BY <3>2
      <4> QED
        BY <2>1, <4>1
    <3> QED
        BY <3>1, <3>2
  <2>3. PICK h : h = [m \in 0 .. k - 1 |-> ParseStep(s, h, m)]
    BY <2>2
  <2> DEFINE g == [m \in 0 .. k |-> IF m < k THEN h[m] ELSE ParseStep(s, h, m)]
  <2>4. ASSUME NEW m \in 0 .. k PROVE g[m] = ParseStep(s, g, m)
    <3>1. m # 0 => m - 1 \in 0 .. k - 1 /\ m - 1 \in 0 .. k /\ m - 1 < k
        OBVIOUS
    <3>2. m # 0 => g[m - 1] = h[m - 1]
        BY <3>1
    <3>3. g[m] = ParseStep(s, h, m)
      <4>1. m < k => m \in 0 .. k - 1
        OBVIOUS
      <4> QED
        BY <2>3, <4>1
    <3> QED
        BY <3>2, <3>3 DEF ParseStep
  <2>5. Good(g, k)
    BY <2>4
  <2> QED
    BY <2>1, <2>5
<1> QED
    BY <1>1

\* The values of the loop's variable, whose last one is the result.
Loop(s) == CHOOSE g : g = [k \in 0 .. Len(s) |-> ParseStep(s, g, k)]

LEMMA Loops ==
    ASSUME NEW s, Len(s) \in Nat
    PROVE  /\ parseIntentAmount(s) = Loop(s)[Len(s)]
           /\ \A k \in 0 .. Len(s) : Loop(s)[k] = ParseStep(s, Loop(s), k)
<1>1. parseIntentAmount(s) = Loop(s)[Len(s)]
    BY Zenon DEF parseIntentAmount, Loop, ParseStep
<1>2. Loop(s) = [k \in 0 .. Len(s) |-> ParseStep(s, Loop(s), k)]
    BY ParseExists, Zenon DEF Loop
<1>3. ASSUME NEW k \in 0 .. Len(s) PROVE Loop(s)[k] = ParseStep(s, Loop(s), k)
  <2>1. [x \in 0 .. Len(s) |-> ParseStep(s, Loop(s), x)][k] = ParseStep(s, Loop(s), k)
    BY Zenon
  <2> QED
    BY <1>2, <2>1, Zenon
<1> QED
    BY <1>1, <1>3

LEMMA ParseOne ==
    ASSUME NEW d \in 0 .. 9
    PROVE  parseIntentAmount(<<d>>) = Wrap(d)
<1> DEFINE s == <<d>>
<1>1. Len(s) = 1 /\ s[1] = d
    OBVIOUS
<1> HIDE DEF s
<1>2. parseIntentAmount(s) = Loop(s)[1] /\ Loop(s)[1] = ParseStep(s, Loop(s), 1)
      /\ Loop(s)[0] = ParseStep(s, Loop(s), 0)
  <2>1. Len(s) \in Nat /\ 0 \in 0 .. Len(s) /\ 1 \in 0 .. Len(s)
    BY <1>1
  <2>2. /\ parseIntentAmount(s) = Loop(s)[Len(s)]
        /\ \A k \in 0 .. Len(s) : Loop(s)[k] = ParseStep(s, Loop(s), k)
    BY <2>1, Loops, Zenon
  <2>3. Loop(s)[0] = ParseStep(s, Loop(s), 0) /\ Loop(s)[1] = ParseStep(s, Loop(s), 1)
    BY <2>1, <2>2, Zenon
  <2> QED
    BY <1>1, <2>2, <2>3, Zenon
<1>3. Loop(s)[0] = 0
    BY <1>2 DEF ParseStep
<1>4. ParseStep(s, Loop(s), 1) = Wrap(0 * 10 + d)
    BY <1>1, <1>3 DEF ParseStep
<1> QED
    BY <1>2, <1>4 DEF s

LEMMA ParseAppend ==
    ASSUME NEW s \in Seq(0 .. 9), NEW d \in 0 .. 9
    PROVE  parseIntentAmount(Append(s, d)) = Wrap(parseIntentAmount(s) * 10 + d)
<1> DEFINE l == Len(s)
           t == Append(s, d)
           T == {k \in 0 .. l : Loop(s)[k] # Loop(t)[k]}
<1>1. l \in Nat /\ Len(t) = l + 1 /\ t[l + 1] = d /\ \A k \in 1 .. l : t[k] = s[k]
    OBVIOUS
<1> HIDE DEF t, l
<1>2. /\ parseIntentAmount(s) = Loop(s)[l] /\ parseIntentAmount(t) = Loop(t)[l + 1]
      /\ \A k \in 0 .. l : Loop(s)[k] = ParseStep(s, Loop(s), k)
      /\ \A k \in 0 .. l + 1 : Loop(t)[k] = ParseStep(t, Loop(t), k)
    BY <1>1, Loops DEF l
<1>3. T \in SUBSET Nat
    BY <1>1
<1>4. ASSUME T # {} PROVE FALSE
  <2>1. PICK k \in T : \A m \in T : k <= m
    <3> HIDE DEF T
    <3> QED
        BY <1>3, <1>4, Least
  <2>2. k # 0 => k - 1 \in 0 .. l /\ ~(k <= k - 1) /\ k \in 1 .. l
    BY <1>1
  <2>3. k # 0 => Loop(s)[k - 1] = Loop(t)[k - 1]
    BY <2>1, <2>2
  <2>4. k \in 0 .. l + 1
    BY <1>1
  <2>5. ParseStep(s, Loop(s), k) = ParseStep(t, Loop(t), k)
    BY <1>1, <2>2, <2>3 DEF ParseStep
  <2> QED
    BY <1>2, <2>4, <2>5
<1>5. Loop(s)[l] = Loop(t)[l]
    BY <1>1, <1>4
<1>6. Loop(t)[l + 1] = Wrap(Loop(t)[l] * 10 + d)
  <2>1. l + 1 \in 0 .. l + 1 /\ l + 1 # 0 /\ (l + 1) - 1 = l
    BY <1>1
  <2> QED
    BY <1>1, <1>2, <2>1 DEF ParseStep
<1> QED
    BY <1>2, <1>5, <1>6 DEF t

\* parseIntentAmount reads what Sprintf wrote, without overflow, up to math.MaxInt64.
LEMMA StringsRead ==
    ASSUME NEW n \in 0 .. MaxInt
    PROVE  AmountToString[n] \in Seq(0 .. 9) /\ parseIntentAmount(AmountToString[n]) = n
<1> DEFINE T == {k \in 0 .. MaxInt : ~(/\ AmountToString[k] \in Seq(0 .. 9)
                                      /\ parseIntentAmount(AmountToString[k]) = k)}
<1>0. T \in SUBSET Nat
    BY MaxIntAssumption
<1>1. ASSUME T # {} PROVE FALSE
  <2>1. PICK k \in T : \A l \in T : k <= l
    <3> HIDE DEF T
    <3> QED
        BY <1>0, <1>1, Least
  <2>2. k \in Nat /\ k \in 0 .. MaxInt
    BY <1>0
  <2>3. CASE k < 10
    <3>0. k \in 0 .. 9
        BY <2>2, <2>3
    <3>1. AmountToString[k] = <<k>>
      <4>1. AmountToString[k] = StringStep(AmountToString, k)
        BY <2>2, Strings, Zenon
      <4> QED
        BY <2>3, <4>1, Zenon DEF StringStep
    <3>2. <<k>> \in Seq(0 .. 9)
        BY <3>0
    <3>3. parseIntentAmount(<<k>>) = k
        BY <2>2, <3>0, ParseOne, WrapIdle
    <3> QED
        BY <3>1, <3>2, <3>3
  <2>4. CASE ~(k < 10)
    <3> DEFINE q == k \div 10
               d == k % 10
    <3>1. q * 10 + d = k /\ q \in Nat /\ d \in 0 .. 9 /\ q < k
        BY <2>2, <2>4, Digits
    <3>2. AmountToString[k] = Append(AmountToString[q], d)
        BY <2>2, <2>4, Strings DEF StringStep
    <3> HIDE DEF q, d
    <3>3. q \in 0 .. MaxInt /\ ~(k <= q)
        BY <2>2, <3>1, MaxIntAssumption
    <3>4. AmountToString[q] \in Seq(0 .. 9) /\ parseIntentAmount(AmountToString[q]) = q
        BY <2>1, <3>3
    <3>5. Append(AmountToString[q], d) \in Seq(0 .. 9)
        BY <3>1, <3>4
    <3>6. parseIntentAmount(Append(AmountToString[q], d)) = Wrap(q * 10 + d)
        BY <3>1, <3>4, ParseAppend
    <3>7. Wrap(q * 10 + d) = k
        BY <2>2, <3>1, WrapIdle
    <3> QED
        BY <3>2, <3>5, <3>6, <3>7
  <2> QED
    BY <2>3, <2>4
<1> QED
    BY <1>1
-----------------------------------------------------------------------------
(* Rules *)

\* The engine reads back the amount that was asked for.
LEMMA ReadsBack ==
    ASSUME NEW i \in Intent
    PROVE  parseIntentAmount(NewIntent(i).amount) = AmountOf[i]
<1>1. AmountOf[i] \in 0 .. MaxInt
    BY IntentAssumption
<1> QED
    BY <1>1, StringsRead DEF NewIntent

LEMMA AllowedObeys ==
    ASSUME NEW i \in Intent, ValidateIntentInput(i), Allowed(i)
    PROVE  \A k \in Active : Obeys(i, Rows[k])
<1> SUFFICES ASSUME NEW k \in Active PROVE Obeys(i, Rows[k])
    OBVIOUS
<1> DEFINE p == Rows[k]
           r == NewIntent(i)
<1>1. k \in policyTable /\ p.isActive
    BY DEF Active
<1>2. /\ p.rule = "daily_limit" => evaluateDailyLimit(p, r, WalletLimit)
      /\ p.rule = "single_tx_limit" => evaluateSingleTxLimit(p, r)
      /\ p.rule = "allowed_recipients" => evaluateAllowedRecipients(p, r)
      /\ p.rule = "blocked_recipients" => evaluateBlockedRecipients(p, r)
      /\ p.rule = "allowed_tokens" => evaluateAllowedTokens(p, r)
      /\ p.rule = "required_signatures" => evaluateRequiredSigs(p)
      /\ p.rule = "time_restriction" => evaluateTimeRestriction(p, second)
    BY <1>1 DEF Allowed, Evaluate
<1>3. parseIntentAmount(r.amount) = AmountOf[i]
    BY ReadsBack
<1>4. r.destination = DestinationOf[i] /\ r.token = TokenOf[i]
    BY DEF NewIntent
<1> HIDE DEF p, r
<1>5. p.rule \in {"daily_limit", "single_tx_limit"} /\ LimitOf(p) > 0 => AmountOf[i] <= LimitOf(p)
    BY <1>2, <1>3 DEF evaluateDailyLimit, evaluateSingleTxLimit, Within, parseConfigInt, LimitOf
<1>6. p.rule = "required_signatures" => p.config # Bad /\ p.config <= 0
    BY <1>2 DEF evaluateRequiredSigs, parseConfigInt
<1>7. /\ p.rule = "allowed_recipients" /\ p.config # Bad => Listed(p, DestinationOf[i])
      /\ p.rule = "blocked_recipients" /\ p.config # Bad => ~Listed(p, DestinationOf[i])
      /\ p.rule = "allowed_tokens" /\ p.config # Bad => Listed(p, TokenOf[i])
    BY <1>2, <1>4 DEF evaluateAllowedRecipients, evaluateBlockedRecipients, evaluateAllowedTokens,
                      EqualFold, Listed
<1>8. p.rule = "time_restriction" /\ p.config # Bad =>
         /\ p.config.start # Bad => p.config.start <= second
         /\ p.config.end # Bad => second <= p.config.end
    BY <1>2 DEF evaluateTimeRestriction
<1>9. Obeys(i, p)
    BY <1>5, <1>6, <1>7, <1>8 DEF Obeys
<1> QED
    BY <1>9 DEF p

\* Whoever is neither rejected nor failed obeyed whenever it was evaluated.
RulesInv ==
    /\ obeyed \in [Intent -> BOOLEAN]
    /\ \A i \in Intent : /\ stage[i] \notin {"new", "invalid"} => ValidateIntentInput(i)
                         /\ stage[i] \notin {"rejected", "failed"} => obeyed[i]

LEMMA RulesStart == PipelineInit => RulesInv
    BY DEF PipelineInit, RulesInv

\* An evaluation of intent i and what may follow it.
LEMMA EvaluationKeeps ==
    ASSUME PipelineInv, RulesInv, NEW i \in Intent, NEW s \in Stage \ {"new", "invalid"},
           stage[i] \in {"pending", "simulated"}, Evaluated(i), stage' = [stage EXCEPT ![i] = s],
           ~Allowed(i) => s \in {"rejected", "failed"}
    PROVE  RulesInv'
<1> DEFINE b == obeyed[i] /\ \A k \in Active : Obeys(i, Rows[k])
<1>1. b \in BOOLEAN
    OBVIOUS
<1>2. obeyed' = [obeyed EXCEPT ![i] = b]
    BY DEF Evaluated
<1>3. ValidateIntentInput(i) /\ obeyed[i]
    BY DEF RulesInv
<1>4. Allowed(i) => b
    BY <1>3, AllowedObeys
<1> HIDE DEF b
<1>5. /\ obeyed' \in [Intent -> BOOLEAN] /\ obeyed'[i] = b /\ stage'[i] = s
      /\ \A j \in Intent \ {i} : obeyed'[j] = obeyed[j] /\ stage'[j] = stage[j]
    BY <1>1, <1>2 DEF RulesInv, PipelineInv
<1>6. ASSUME NEW j \in Intent
      PROVE  /\ stage'[j] \notin {"new", "invalid"} => ValidateIntentInput(j)
             /\ stage'[j] \notin {"rejected", "failed"} => obeyed'[j]
  <2>1. CASE j = i
    BY <1>3, <1>4, <1>5, <2>1
  <2>2. CASE j # i
    BY <1>5, <2>2 DEF RulesInv
  <2> QED
    BY <2>1, <2>2
<1>7. \A j \in Intent : ValidateIntentInput(j)' <=> ValidateIntentInput(j)
    BY DEF ValidateIntentInput
<1> QED
    BY <1>5, <1>6, <1>7 DEF RulesInv

\* A step of intent i without an evaluation.
LEMMA MoveKeeps ==
    ASSUME PipelineInv, RulesInv, NEW i \in Intent, NEW s \in Stage, obeyed' = obeyed,
           stage' = [stage EXCEPT ![i] = s],
           s \notin {"new", "invalid"} => ValidateIntentInput(i),
           s \notin {"rejected", "failed"} => obeyed[i]
    PROVE  RulesInv'
<1>1. stage'[i] = s /\ \A j \in Intent \ {i} : stage'[j] = stage[j]
    BY DEF PipelineInv
<1>2. ASSUME NEW j \in Intent
      PROVE  /\ stage'[j] \notin {"new", "invalid"} => ValidateIntentInput(j)
             /\ stage'[j] \notin {"rejected", "failed"} => obeyed'[j]
  <2>1. CASE j = i
    BY <1>1, <2>1
  <2>2. CASE j # i
    BY <1>1, <2>2 DEF RulesInv
  <2> QED
    BY <2>1, <2>2
<1> QED
    BY <1>2 DEF RulesInv, ValidateIntentInput

LEMMA RulesStep ==
    ASSUME PipelineInv, RulesInv, [PipelineNext]_pipelineVars
    PROVE  RulesInv'
<1> USE DEF Goto
<1>1. ASSUME NEW i \in Intent, CreateIntent(i) PROVE RulesInv'
  <2>1. /\ obeyed' = obeyed /\ obeyed[i]
        /\ stage' = [stage EXCEPT ![i] = IF ValidateIntentInput(i) THEN "pending" ELSE "invalid"]
    BY <1>1 DEF CreateIntent, RulesInv
  <2>2. CASE ValidateIntentInput(i)
    BY <2>1, <2>2, MoveKeeps DEF Stage
  <2>3. CASE ~ValidateIntentInput(i)
    BY <2>1, <2>3, MoveKeeps DEF Stage
  <2> QED
    BY <2>2, <2>3
<1>2. ASSUME NEW i \in Intent, ApproveIntent(i) PROVE RulesInv'
  <2>1. stage[i] = "pending" /\ Evaluated(i) /\ stage = [stage EXCEPT ![i] = stage[i]]
    BY <1>2 DEF ApproveIntent, PipelineInv
  <2>2. CASE ~Allowed(i) /\ stage' = [stage EXCEPT ![i] = "rejected"]
    BY <2>1, <2>2, EvaluationKeeps DEF Stage
  <2>3. CASE Allowed(i) /\ stage' = stage
    BY <2>1, <2>3, EvaluationKeeps DEF Stage
  <2>4. CASE Allowed(i) /\ \E s \in {"approved", "rejected"} : stage' = [stage EXCEPT ![i] = s]
    BY <2>1, <2>4, EvaluationKeeps DEF Stage
  <2> QED
    BY <1>2, <2>2, <2>3, <2>4 DEF ApproveIntent
<1>3. ASSUME NEW i \in Intent, Simulate(i) PROVE RulesInv'
  <2>1. /\ obeyed' = obeyed /\ obeyed[i] /\ ValidateIntentInput(i)
        /\ \E s \in {"simulated", "failed"} : stage' = [stage EXCEPT ![i] = s]
    BY <1>3 DEF Simulate, RulesInv
  <2> QED
    BY <2>1, MoveKeeps DEF Stage
<1>4. ASSUME NEW i \in Intent, CheckPolicy(i) PROVE RulesInv'
  <2>1. stage[i] = "simulated" /\ Evaluated(i)
    BY <1>4 DEF CheckPolicy
  <2>2. CASE Allowed(i)
    BY <1>4, <2>1, <2>2, EvaluationKeeps DEF CheckPolicy, Stage
  <2>3. CASE ~Allowed(i)
    BY <1>4, <2>1, <2>3, EvaluationKeeps DEF CheckPolicy, Stage
  <2> QED
    BY <2>2, <2>3
<1>5. ASSUME NEW i \in Intent, Sign(i) PROVE RulesInv'
  <2>1. /\ obeyed' = obeyed /\ obeyed[i] /\ ValidateIntentInput(i)
        /\ \E s \in {"signed", "failed"} : stage' = [stage EXCEPT ![i] = s]
    BY <1>5 DEF Sign, RulesInv
  <2> QED
    BY <2>1, MoveKeeps DEF Stage
<1>6. ASSUME NEW i \in Intent, Submit(i) PROVE RulesInv'
  <2>1. /\ obeyed' = obeyed /\ obeyed[i] /\ ValidateIntentInput(i)
        /\ stage' = [stage EXCEPT ![i] = "sent"]
    BY <1>6 DEF Submit, RulesInv
  <2> QED
    BY <2>1, MoveKeeps DEF Stage
<1>7. CASE UNCHANGED <<stage, obeyed>>
    BY <1>7 DEF RulesInv, ValidateIntentInput
<1> QED
    BY <1>1, <1>2, <1>3, <1>4, <1>5, <1>6, <1>7
    DEF PipelineNext, EditPolicies, EditShares, SecondPasses, pipelineVars

\* Whatever the operator edits meanwhile, an intent that reached the cluster obeyed every
\* active row when it was approved and when it was executed, for the amount asked for in
\* the request and not merely for the digits the engine parses.
THEOREM RulesAreKept == PipelineSpec => []RulesKept
<1>1. PipelineInv /\ RulesInv => RulesKept
  <2> SUFFICES ASSUME PipelineInv, RulesInv, NEW i \in Intent, stage[i] = "sent"
               PROVE  obeyed[i] /\ AmountOf[i] \in 1 .. DailyLimit
    BY DEF RulesKept
  <2>1. obeyed[i]
    BY DEF RulesInv
  <2>2. ProvableAmount(ProofInputs(i))
    BY DEF PipelineInv, PapersInv, Cleared
  <2>3. 0 < AmountOf[i] /\ AmountOf[i] <= DailyLimit
    BY <2>2 DEF ProvableAmount, ProofInputs
  <2>4. AmountOf[i] \in Int
    BY IntentAssumption, MaxIntAssumption
  <2> QED
    BY <2>1, <2>3, <2>4, DailyLimitAssumption
<1> QED
    BY <1>1, PipelineInvariant, RulesStart, RulesStep, PTL DEF PipelineSpec

\* Every state of the pipeline is well formed, and an intent has the papers of its station:
\* no execution goes on without the proof, the transaction or the signature it needs.
THEOREM PipelineTyped == PipelineSpec => []PipelineTypeOK
<1>1. PipelineInv /\ RulesInv => PipelineTypeOK
  <2> SUFFICES ASSUME PipelineInv, RulesInv PROVE PipelineTypeOK
    OBVIOUS
  <2>1. ASSUME NEW i \in Intent
        PROVE  /\ stage[i] \in Cleared => zkProof[i] # NotYet
               /\ stage[i] \in Cleared \ {"approved"} => txHash[i] # NotYet
               /\ stage[i] \in {"signed", "sent"} <=> signature[i] # NotYet
               /\ stage[i] = "sent" <=> sent[i] # NotYet
    <3>1. PapersInv(i)
        BY DEF PipelineInv
    <3>2. stage[i] \in Cleared => zkProof[i] # NotYet
        BY <3>1, NotYetAssumption DEF PapersInv
    <3>3. \A t \in 0 .. MaxSecond : Transaction(i, t) # NotYet
        BY NotYetAssumption DEF Transaction
    <3>4. ASSUME stage[i] \in {"signed", "sent"} PROVE signature[i] # NotYet
      <4>1. stage[i] \in Cleared \ {"approved"}
        BY <3>4 DEF Cleared
      <4>2. PICK t \in 0 .. MaxSecond : txHash[i] = Transaction(i, t)
        BY <3>1, <4>1 DEF PapersInv
      <4>3. PICK q \in kSubset(2, Share) : signature[i] = Signed(i, q, Transaction(i, t))
        BY <3>1, <3>4, <4>2 DEF PapersInv
      <4>4. q \in SUBSET Share
        BY DEF kSubset
      <4> QED
        BY <4>3, <4>4, NotYetAssumption DEF Signed, Transaction
    <3> QED
        BY <3>1, <3>2, <3>3, <3>4 DEF PapersInv
  <2> QED
    BY <2>1 DEF PipelineInv, RulesInv, PipelineTypeOK
<1> QED
    BY <1>1, PipelineInvariant, RulesStart, RulesStep, PTL DEF PipelineSpec
=============================================================================
