--------------------------- MODULE ComponentProofs --------------------------
(***************************************************************************)
(* The vault program, the signing crate and the policy crate, for every    *)
(* set of owners, signer lists and amounts, every key, context and list of *)
(* participants, every policy, builder and request; and these three and    *)
(* the rate limiter side by side.                                          *)
(***************************************************************************)
EXTENDS MCComponents, RateLimiterProofs, FiniteSetTheorems, SequenceTheorems

-----------------------------------------------------------------------------
(* The vault program *)

\* The limits in an account are those its owner asked for last, and what was
\* verified still would be, because a change of the policy makes it forgotten.
VaultInv ==
    /\ vaults \in [Owner -> Vault \cup {NoVault}]
    /\ wanted \in [Owner -> [daily_limit : VaultAmount \cup {0},
                             single_tx_limit : VaultAmount \cup {0}]]
    /\ \A o \in Owner :
          wanted[o] = IF vaults[o] = NoVault THEN Limits(0, 0)
                      ELSE Limits(vaults[o].daily_limit, vaults[o].single_tx_limit)
    /\ \A i \in verified :
          /\ i.vault \in Owner /\ i.amount \in VaultAmount
          /\ VerifyResult(i.vault, i.amount, i.destination) = "Ok"
    /\ VaultTypeOK

LEMMA VaultStart == VaultInit => VaultInv
    BY DEF VaultInit, VaultInv, VaultTypeOK, Limits

\* The account that initialize_vault makes.
LEMMA VaultMade ==
    ASSUME NEW o \in Owner, NEW t \in Threshold, NEW s \in SignerList,
           InitializeResult(o, t, s) = "Ok"
    PROVE  vaults[o] = NoVault /\ NewVault(o, t, s) \in Vault
<1>1. vaults[o] = NoVault /\ ~(t < 1 \/ t > 3)
    BY DEF InitializeResult
<1>2. t \in 1 .. 3 /\ s \in Seq(Owner)
    BY <1>1, VaultAmountAssumption, SignerListAssumption
<1>3. 0 \in 0 .. MaxNonce
    BY NonceAssumption
<1>4. NewVault(o, t, s) \in Vault
    BY <1>2, <1>3 DEF NewVault, Vault
<1> QED
    BY <1>1, <1>4

LEMMA VaultStep == VaultInv /\ [VaultNext]_vaultVars => VaultInv'
<1> SUFFICES ASSUME VaultInv, [VaultNext]_vaultVars PROVE VaultInv'
    OBVIOUS
<1>1. ASSUME NEW o \in Owner, NEW t \in Threshold, NEW s \in SignerList, initialize_vault(o, t, s)
      PROVE  VaultInv'
  <2> DEFINE v == NewVault(o, t, s)
  <2>1. /\ vaults' = [vaults EXCEPT ![o] = v] /\ UNCHANGED <<attested, wanted, verified>>
        /\ InitializeResult(o, t, s) = "Ok"
    BY <1>1 DEF initialize_vault
  <2>2. vaults[o] = NoVault /\ v \in Vault
    BY <2>1, VaultMade
  <2>3. v.owner = o /\ v.daily_limit = 0 /\ v.single_tx_limit = 0
    BY DEF NewVault
  <2> HIDE DEF v
  <2>4. /\ vaults' \in [Owner -> Vault \cup {NoVault}] /\ vaults'[o] = v
        /\ \A p \in Owner : p # o => vaults'[p] = vaults[p]
    BY <2>1, <2>2 DEF VaultInv
  <2>5. VaultTypeOK'
    BY <2>1, <2>2, <2>3, <2>4 DEF VaultInv, VaultTypeOK
  <2>6. ASSUME NEW p \in Owner
        PROVE  wanted'[p] = IF vaults'[p] = NoVault THEN Limits(0, 0)
                            ELSE Limits(vaults'[p].daily_limit, vaults'[p].single_tx_limit)
    BY <2>1, <2>2, <2>3, <2>4 DEF VaultInv
  <2>7. ASSUME NEW i \in verified PROVE i.vault \in Owner /\ vaults'[i.vault] = vaults[i.vault]
    <3>1. i.vault \in Owner /\ VerifyResult(i.vault, i.amount, i.destination) = "Ok"
        BY DEF VaultInv
    <3>2. vaults[i.vault] # NoVault
        BY <3>1 DEF VerifyResult
    <3> QED
        BY <2>2, <2>4, <3>1, <3>2
  <2>8. \A i \in verified' :
           /\ i.vault \in Owner /\ i.amount \in VaultAmount
           /\ VerifyResult(i.vault, i.amount, i.destination)' = "Ok"
    BY <2>1, <2>7 DEF VaultInv, VerifyResult
  <2> QED
    BY <2>1, <2>4, <2>5, <2>6, <2>8 DEF VaultInv
<1>2. ASSUME NEW c \in Owner, NEW o \in Owner, NEW d \in VaultAmount, NEW s \in VaultAmount,
             set_policy(c, o, d, s)
      PROVE  VaultInv'
  <2> DEFINE v == [vaults[o] EXCEPT !.daily_limit = d, !.single_tx_limit = s]
  <2>1. vaults[o] # NoVault /\ vaults[o] \in Vault /\ vaults[o].owner = o /\ c = o
    BY <1>2 DEF set_policy, PolicyChange, VaultInv, VaultTypeOK
  <2>2. /\ vaults' = [vaults EXCEPT ![o] = v] /\ attested' = attested
        /\ verified' = {i \in verified : i.vault # o}
        /\ wanted' = [wanted EXCEPT ![o] = Limits(d, s)]
    BY <1>2, <2>1 DEF set_policy, VaultInv, Vault
  <2>3. /\ v \in Vault /\ v.owner = o /\ v.daily_limit = d /\ v.single_tx_limit = s
    BY <2>1 DEF Vault
  <2> HIDE DEF v
  <2>4. /\ vaults' \in [Owner -> Vault \cup {NoVault}] /\ vaults'[o] = v
        /\ \A p \in Owner : p # o => vaults'[p] = vaults[p]
    BY <2>2, <2>3 DEF VaultInv
  <2>5. VaultTypeOK'
    BY <2>1, <2>2, <2>3, <2>4 DEF VaultInv, VaultTypeOK
  <2>6. /\ wanted' \in [Owner -> [daily_limit : VaultAmount \cup {0},
                                  single_tx_limit : VaultAmount \cup {0}]]
        /\ wanted'[o] = Limits(d, s) /\ \A p \in Owner : p # o => wanted'[p] = wanted[p]
    BY <2>2 DEF VaultInv, Limits
  <2>7. v # NoVault
    BY <2>3, NoVaultAssumption DEF Vault
  <2>8. ASSUME NEW p \in Owner
        PROVE  wanted'[p] = IF vaults'[p] = NoVault THEN Limits(0, 0)
                            ELSE Limits(vaults'[p].daily_limit, vaults'[p].single_tx_limit)
    BY <2>3, <2>4, <2>6, <2>7 DEF VaultInv
  <2>9. \A i \in verified' : i \in verified /\ i.vault \in Owner /\ vaults'[i.vault] = vaults[i.vault]
    BY <2>2, <2>4 DEF VaultInv
  <2>10. \A i \in verified' :
           /\ i.vault \in Owner /\ i.amount \in VaultAmount
           /\ VerifyResult(i.vault, i.amount, i.destination)' = "Ok"
    BY <2>9 DEF VaultInv, VerifyResult
  <2> QED
    BY <2>4, <2>5, <2>6, <2>8, <2>10 DEF VaultInv
<1>3. ASSUME NEW o \in Owner, NEW a \in VaultAmount, NEW d \in Address, verify_intent(o, a, d)
      PROVE  VaultInv'
  <2>1. UNCHANGED <<vaults, attested, wanted>> /\ VerifyResult(o, a, d) = "Ok"
    BY <1>3 DEF verify_intent, Verified
  <2>2. CASE verified' = {[vault |-> o, amount |-> a, destination |-> d]}
    BY <2>1, <2>2 DEF VaultInv, VaultTypeOK, VerifyResult
  <2>3. CASE verified' = verified
    BY <2>1, <2>3 DEF VaultInv, VaultTypeOK, VerifyResult
  <2> QED
    BY <1>3, <2>2, <2>3 DEF verify_intent, Verified
<1>4. ASSUME NEW o \in Owner, NEW k \in 0 .. 3, record_signer(o, k) PROVE VaultInv'
  <2>1. attested' \subseteq attested \cup {<<o, k>>} /\ UNCHANGED <<vaults, wanted, verified>>
    BY <1>4 DEF record_signer
  <2>2. <<o, k>> \in Owner \X (0 .. 3)
    OBVIOUS
  <2> QED
    BY <2>1, <2>2 DEF VaultInv, VaultTypeOK, VerifyResult
<1>5. CASE UNCHANGED vaultVars
    BY <1>5 DEF vaultVars, VaultInv, VaultTypeOK, VerifyResult
<1> QED
    BY <1>1, <1>2, <1>3, <1>4, <1>5 DEF VaultNext

LEMMA VaultInvariant == VaultSpec => []VaultInv
    BY VaultStart, VaultStep, PTL DEF VaultSpec

\* verify_intent accepts only what the owner's last set_policy allows, whoever
\* else calls set_policy and initialize_vault, for every amount and limit.
THEOREM VerifiedWithinPolicy == VaultSpec => []VerifiedObeysOwner
<1>1. VaultInv => VerifiedObeysOwner
  <2> SUFFICES ASSUME VaultInv, NEW i \in verified
               PROVE  /\ i.amount > 0 /\ i.destination # VaultKey(i.vault)
                      /\ wanted[i.vault].daily_limit > 0 => i.amount <= wanted[i.vault].daily_limit
                      /\ wanted[i.vault].single_tx_limit > 0
                            => i.amount <= wanted[i.vault].single_tx_limit
    BY DEF VerifiedObeysOwner
  <2> DEFINE v == vaults[i.vault]
  <2>1. i.vault \in Owner /\ i.amount \in Nat /\ VerifyResult(i.vault, i.amount, i.destination) = "Ok"
    BY VaultAmountAssumption DEF VaultInv
  <2>2. /\ v # NoVault /\ i.amount # 0 /\ i.destination # VaultKey(i.vault)
        /\ ~(v.single_tx_limit > 0 /\ i.amount > v.single_tx_limit)
        /\ ~(v.daily_limit > 0 /\ i.amount > v.daily_limit)
    BY <2>1 DEF VerifyResult
  <2>3. v \in Vault /\ wanted[i.vault] = Limits(v.daily_limit, v.single_tx_limit)
    BY <2>1, <2>2 DEF VaultInv
  <2>4. v.daily_limit \in Nat /\ v.single_tx_limit \in Nat
    BY <2>3, VaultAmountAssumption DEF Vault
  <2>5. wanted[i.vault].daily_limit = v.daily_limit
        /\ wanted[i.vault].single_tx_limit = v.single_tx_limit
    BY <2>3 DEF Limits
  <2> HIDE DEF v
  <2> QED
    BY <2>1, <2>2, <2>4, <2>5
<1> QED
    BY <1>1, VaultInvariant, PTL

\* No sequence of instructions takes a vault away or gives it another owner,
\* threshold or list of signers: initialize_vault refuses an account that is
\* there and set_policy leaves these fields alone.
THEOREM SignersStay == VaultSpec => SignersFixed
<1> DEFINE Kept == \A o \in Owner : vaults[o] # NoVault =>
                      /\ vaults'[o] # NoVault
                      /\ vaults'[o].owner = vaults[o].owner
                      /\ vaults'[o].threshold = vaults[o].threshold
                      /\ vaults'[o].signers = vaults[o].signers
<1>1. VaultInv /\ [VaultNext]_vaultVars => Kept
  <2> SUFFICES ASSUME VaultInv, [VaultNext]_vaultVars, NEW o \in Owner, vaults[o] # NoVault
               PROVE  /\ vaults'[o] # NoVault
                      /\ vaults'[o].owner = vaults[o].owner
                      /\ vaults'[o].threshold = vaults[o].threshold
                      /\ vaults'[o].signers = vaults[o].signers
    OBVIOUS
  <2>1. ASSUME NEW p \in Owner, NEW t \in Threshold, NEW s \in SignerList, initialize_vault(p, t, s)
        PROVE  vaults'[o] = vaults[o]
    <3>1. vaults[p] = NoVault /\ vaults' = [vaults EXCEPT ![p] = NewVault(p, t, s)]
        BY <2>1, VaultMade DEF initialize_vault
    <3> QED
        BY <3>1 DEF VaultInv
  <2>2. ASSUME NEW c \in Owner, NEW p \in Owner, NEW d \in VaultAmount, NEW s \in VaultAmount,
               set_policy(c, p, d, s)
        PROVE  /\ vaults'[o].owner = vaults[o].owner /\ vaults'[o].threshold = vaults[o].threshold
               /\ vaults'[o].signers = vaults[o].signers /\ vaults'[o] # NoVault
    <3> DEFINE v == [vaults[p] EXCEPT !.daily_limit = d, !.single_tx_limit = s]
    <3>1. vaults[p] \in Vault /\ vaults[o] \in Vault
        BY <2>2 DEF set_policy, PolicyChange, VaultInv
    <3>2. vaults' = [vaults EXCEPT ![p] = v]
        BY <2>2, <3>1 DEF set_policy, VaultInv, Vault
    <3>3. /\ v \in Vault /\ v.owner = vaults[p].owner /\ v.threshold = vaults[p].threshold
          /\ v.signers = vaults[p].signers
        BY <3>1 DEF Vault
    <3> HIDE DEF v
    <3>4. v # NoVault
        BY <3>3, NoVaultAssumption DEF Vault
    <3> QED
        BY <3>2, <3>3, <3>4 DEF VaultInv
  <2>3. ASSUME NEW p \in Owner, NEW a \in VaultAmount, NEW d \in Address, verify_intent(p, a, d)
        PROVE  vaults'[o] = vaults[o]
    BY <2>3 DEF verify_intent
  <2>4. ASSUME NEW p \in Owner, NEW k \in 0 .. 3, record_signer(p, k) PROVE vaults'[o] = vaults[o]
    BY <2>4 DEF record_signer
  <2>5. CASE UNCHANGED vaultVars
    BY <2>5 DEF vaultVars
  <2> QED
    BY <2>1, <2>2, <2>3, <2>4, <2>5 DEF VaultNext
<1>2. VaultInv /\ [VaultNext]_vaultVars => [Kept]_vaultVars
    BY <1>1
<1> QED
    BY <1>2, VaultInvariant, PTL DEF VaultSpec, SignersFixed

-----------------------------------------------------------------------------
(* The signing crate *)

Erased == [bytes |-> <<>>, used |-> TRUE]

ShareOf(n) == {Erased} \cup {[bytes |-> generate_share_bytes(n, key), used |-> FALSE] : key \in Key}

Partial(n, key, ctx) == <<"partial", generate_share_bytes(n, key), message(ctx)>>

\* A signer's health was settled when it was made, by the share it holds since,
\* and a result tells whose whole share it was made from.
SigningInv ==
    /\ shares = [n \in Node |-> shares[n]] /\ signers = [n \in Node |-> signers[n]]
    /\ \A n \in Node : shares[n] # Unset => shares[n] \in ShareOf(n)
    /\ \A n \in Node : signers[n] # Unset =>
          signers[n].share \in ShareOf(n) /\ signers[n].healthy = ~signers[n].share.used
    /\ \A r \in results :
          /\ r.signer \in Node /\ r.context \in Context
          /\ \E key \in Key : LET p == Partial(r.signer, key, r.context)
                             IN  r.result.signature = <<"signature", p, p>>
    /\ Cardinality(results) <= MaxResults

LEMMA SigningStart == SigningInit => SigningInv
<1>1. Cardinality({}) = 0
    BY FS_EmptySet
<1> QED
    BY <1>1, BoundAssumption DEF SigningInit, SigningInv

\* What a signer answers: a signature of its own two partial ones, if it is
\* available and at least one participant is named.
LEMMA SignResult ==
    ASSUME SigningInv, NEW n \in Node, signers[n] # Unset, NEW ctx \in Context,
           NEW ps \in Participants
    PROVE  LET r == sign_with_participants(n, ctx, ps)
               p == partial_sign(signers[n], ctx)
           IN  /\ signers[n].share.used => r.error = "SignerUnavailable"
               /\ ~signers[n].share.used /\ ps = <<>> => r.error = "InsufficientSigners"
               /\ ~signers[n].share.used /\ ps # <<>> =>
                     r.error = "none" /\ r.signature = <<"signature", p, p>>
<1> DEFINE P == PartialsOf(n, ctx, ps)
           p == partial_sign(signers[n], ctx)
           l == Len(ps) + 1
<1>1. signers[n].share \in ShareOf(n) /\ signers[n].healthy = ~signers[n].share.used
    BY DEF SigningInv
<1>2. ps \in Seq(Node) /\ Len(ps) \in Nat /\ (ps = <<>> <=> Len(ps) = 0)
    BY ParticipantsAssumption, EmptySeq
<1>3. P = [k \in 1 .. l |-> [sig |-> p, id |-> IF k = 1 THEN n ELSE ps[k - 1]]]
    BY DEF PartialsOf
<1>4. l \in Nat
    BY <1>2
<1> HIDE DEF P, p
<1>5. Len(P) = l
    BY <1>3, <1>4
<1>6. l >= 2 => P[1].sig = p /\ P[2].sig = p
    BY <1>3, <1>4
<1>7. sign_with_participants(n, ctx, ps) =
         IF ~signers[n].healthy THEN Err("SignerUnavailable")
         ELSE IF signers[n].share.used THEN Err("ShareZeroized") ELSE aggregate_signatures(P)
    BY DEF sign_with_participants, P
<1>8. ps = <<>> => aggregate_signatures(P) = Err("InsufficientSigners")
    BY <1>2, <1>5 DEF aggregate_signatures, Insufficient
<1>9. ps # <<>> => aggregate_signatures(P).error = "none"
                   /\ aggregate_signatures(P).signature = <<"signature", p, p>>
    BY <1>2, <1>5, <1>6 DEF aggregate_signatures, Insufficient
<1>10. signers[n].share.used = TRUE \/ signers[n].share.used = FALSE
    BY <1>1 DEF ShareOf, Erased
<1>11. CASE signers[n].share.used = TRUE
  <2>1. sign_with_participants(n, ctx, ps) = Err("SignerUnavailable")
    BY <1>1, <1>7, <1>11
  <2> QED
    BY <1>11, <2>1 DEF Err
<1>12. CASE signers[n].share.used = FALSE
  <2>1. sign_with_participants(n, ctx, ps) = aggregate_signatures(P)
    BY <1>1, <1>7, <1>12
  <2> QED
    BY <1>8, <1>9, <1>12, <2>1 DEF Err, p
<1> QED
    BY <1>10, <1>11, <1>12

LEMMA SigningStep == SigningInv /\ [SigningNext]_signingVars => SigningInv'
<1> SUFFICES ASSUME SigningInv, [SigningNext]_signingVars PROVE SigningInv'
    OBVIOUS
<1>1. ASSUME NEW key \in Key, generate_shares(key) PROVE SigningInv'
  <2>1. /\ shares' = [n \in Node |-> [bytes |-> generate_share_bytes(n, key), used |-> FALSE]]
        /\ UNCHANGED <<signers, results>>
    BY <1>1 DEF generate_shares
  <2>2. \A n \in Node : shares'[n] \in ShareOf(n)
    BY <2>1 DEF ShareOf
  <2>3. shares' = [n \in Node |-> shares'[n]]
    BY <2>1
  <2> QED
    BY <2>1, <2>2, <2>3 DEF SigningInv
<1>2. ASSUME NEW n \in Node, zeroize(n) PROVE SigningInv'
  <2>1. shares' = [shares EXCEPT ![n] = Erased] /\ UNCHANGED <<signers, results>>
    BY <1>2 DEF zeroize, Erased
  <2>2. Erased \in ShareOf(n)
    BY DEF ShareOf
  <2>3. /\ shares' = [m \in Node |-> shares'[m]] /\ shares'[n] = Erased
        /\ \A m \in Node : m # n => shares'[m] = shares[m]
    BY <2>1 DEF SigningInv
  <2> QED
    BY <2>1, <2>2, <2>3 DEF SigningInv
<1>3. ASSUME NEW n \in Node, new_signer(n) PROVE SigningInv'
  <2> DEFINE s == [share |-> shares[n], public_key |-> public_key, healthy |-> ~shares[n].used]
  <2>1. /\ signers' = [signers EXCEPT ![n] = s] /\ UNCHANGED <<shares, results>>
        /\ shares[n] \in ShareOf(n)
    BY <1>3 DEF new_signer, SigningInv
  <2>2. s.share \in ShareOf(n) /\ s.healthy = ~s.share.used
    BY <2>1
  <2> HIDE DEF s
  <2>3. /\ signers' = [m \in Node |-> signers'[m]] /\ signers'[n] = s
        /\ \A m \in Node : m # n => signers'[m] = signers[m]
    BY <2>1 DEF SigningInv
  <2> QED
    BY <2>1, <2>2, <2>3 DEF SigningInv
<1>4. ASSUME NEW n \in Node, NEW ctx \in Context, NEW ps \in Participants, sign(n, ctx, ps)
      PROVE  SigningInv'
  <2> DEFINE r == sign_with_participants(n, ctx, ps)
             e == [result |-> r, signer |-> n, context |-> ctx]
             p == partial_sign(signers[n], ctx)
  <2>1. /\ signers[n] # Unset /\ results' = IF r.error # "none" THEN results ELSE results \cup {e}
        /\ Cardinality(results') <= MaxResults /\ UNCHANGED <<shares, signers>>
    BY <1>4 DEF sign
  <2>2. CASE r.error # "none"
    BY <2>1, <2>2 DEF SigningInv
  <2>3. CASE r.error = "none"
    <3>1. ~signers[n].share.used /\ r.signature = <<"signature", p, p>>
        BY <2>1, <2>3, SignResult
    <3>2. PICK key \in Key : signers[n].share.bytes = generate_share_bytes(n, key)
        BY <2>1, <3>1 DEF SigningInv, ShareOf, Erased
    <3>3. p = Partial(n, key, ctx)
        BY <3>2 DEF partial_sign, Partial
    <3> HIDE DEF r, p
    <3>4. e.result = r /\ e.signer = n /\ e.context = ctx
        OBVIOUS
    <3>5. LET q == Partial(e.signer, key, e.context) IN e.result.signature = <<"signature", q, q>>
        BY <3>1, <3>3, <3>4
    <3>6. results' = results \cup {e}
        BY <2>1, <2>3
    <3> HIDE DEF e
    <3> QED
        BY <2>1, <3>4, <3>5, <3>6 DEF SigningInv
  <2> QED
    BY <2>2, <2>3
<1>5. CASE UNCHANGED signingVars
    BY <1>5 DEF signingVars, SigningInv
<1> QED
    BY <1>1, <1>2, <1>3, <1>4, <1>5 DEF SigningNext

LEMMA SigningInvariant == SigningSpec => []SigningInv
    BY SigningStart, SigningStep, PTL DEF SigningSpec

\* Whenever shares are erased, before or after Frost2Of3Signer::new has cloned
\* them, no signature was ever computed from an erased one.
THEOREM NoSignatureFromErased == SigningSpec => []ErasedNeverSigns
<1>1. SigningInv => ErasedNeverSigns
  <2> SUFFICES ASSUME SigningInv, NEW r \in results
               PROVE  r.result.signature[2][2] # <<>> /\ r.result.signature[3][2] # <<>>
    BY DEF ErasedNeverSigns
  <2>1. PICK key \in Key : LET p == Partial(r.signer, key, r.context)
                           IN  r.result.signature = <<"signature", p, p>>
    BY DEF SigningInv
  <2>2. generate_share_bytes(r.signer, key) # <<>>
    BY DEF generate_share_bytes
  <2> QED
    BY <2>1, <2>2 DEF Partial
<1> QED
    BY <1>1, SigningInvariant, PTL

\* One concatenation, two readings: where the first parts are of one length the
\* parts agree.
LEMMA ConcatSplits ==
    ASSUME NEW S, NEW s \in Seq(S), NEW t \in Seq(S), NEW u \in Seq(S), NEW v \in Seq(S),
           Len(s) = Len(u), s \o t = u \o v
    PROVE  s = u /\ t = v
<1>1. /\ Len(s \o t) = Len(s) + Len(t) /\ Len(u \o v) = Len(u) + Len(v)
      /\ Len(s) \in Nat /\ Len(t) \in Nat /\ Len(v) \in Nat
    BY ConcatProperties
<1>2. Len(t) = Len(v)
    BY <1>1
<1>3. \A i \in 1 .. Len(s) + Len(t) : (s \o t)[i] = IF i <= Len(s) THEN s[i] ELSE t[i - Len(s)]
    BY ConcatProperties
<1>4. \A i \in 1 .. Len(s) + Len(t) : (s \o t)[i] = IF i <= Len(s) THEN u[i] ELSE v[i - Len(s)]
    BY <1>2, ConcatProperties
<1>5. ASSUME NEW i \in 1 .. Len(s) PROVE s[i] = u[i]
  <2>1. i \in 1 .. Len(s) + Len(t) /\ i <= Len(s)
    BY <1>1
  <2> QED
    BY <1>3, <1>4, <2>1
<1>6. ASSUME NEW i \in 1 .. Len(t) PROVE t[i] = v[i]
  <2>1. /\ Len(s) + i \in 1 .. Len(s) + Len(t) /\ ~(Len(s) + i <= Len(s))
        /\ (Len(s) + i) - Len(s) = i
    BY <1>1
  <2> QED
    BY <1>3, <1>4, <2>1
<1> QED
    BY <1>2, <1>5, <1>6, SeqEqual

LEMMA ConcatLength ==
    ASSUME NEW S, NEW s \in Seq(S), NEW t \in Seq(S)
    PROVE  s \o t \in Seq(S) /\ Len(s \o t) = Len(s) + Len(t)
    BY ConcatProperties

\* Where the first part of one reading is shorter, that of the other goes on.
LEMMA ConcatContinues ==
    ASSUME NEW S, NEW s \in Seq(S), NEW t \in Seq(S), NEW u \in Seq(S), NEW v \in Seq(S),
           Len(s) < Len(u), s \o t = u \o v
    PROVE  Continues(u, s)
<1>1. Len(s) \in Nat /\ Len(t) \in Nat /\ Len(u) \in Nat /\ Len(v) \in Nat
    OBVIOUS
<1>2. ASSUME NEW k \in 1 .. Len(s) PROVE u[k] = s[k]
  <2>1. k \in 1 .. Len(s) + Len(t) /\ k \in 1 .. Len(u) + Len(v) /\ k <= Len(s) /\ k <= Len(u)
    BY <1>1
  <2>2. (s \o t)[k] = s[k]
    BY <2>1, ConcatProperties
  <2>3. (u \o v)[k] = u[k]
    BY <2>1, ConcatProperties
  <2> QED
    BY <2>2, <2>3
<1> QED
    BY <1>2 DEF Continues

LEMMA MessageSplits ==
    ASSUME NEW c \in Context, NEW d \in Context, message(c) = message(d), Separable(c, d)
    PROVE  c = d
<1> DEFINE Fields == [intent_hash : Seq(Byte), transaction_hash : Seq(Byte), chain : Seq(Byte),
                       domain : Seq(Byte), timestamp : Nat]
<1>1. c \in Fields /\ d \in Fields
    BY ContextAssumption
<1>2. /\ ((c.intent_hash \o c.transaction_hash) \o c.chain) \o c.domain
            = ((d.intent_hash \o d.transaction_hash) \o d.chain) \o d.domain
      /\ c.timestamp = d.timestamp
    BY DEF message
<1>3. /\ Len(c.intent_hash) = Len(d.intent_hash)
      /\ Len(c.transaction_hash) = Len(d.transaction_hash)
      /\ ~Continues(c.chain, d.chain) /\ ~Continues(d.chain, c.chain)
    BY DEF Separable
<1>4. /\ c.intent_hash = d.intent_hash /\ c.transaction_hash = d.transaction_hash
      /\ c.chain = d.chain /\ c.domain = d.domain
  <2> DEFINE ci == c.intent_hash      di == d.intent_hash
             ct == c.transaction_hash dt == d.transaction_hash
             cc == c.chain            dc == d.chain
             cd == c.domain           dd == d.domain
  <2>1. /\ ci \in Seq(Byte) /\ ct \in Seq(Byte) /\ cc \in Seq(Byte) /\ cd \in Seq(Byte)
        /\ di \in Seq(Byte) /\ dt \in Seq(Byte) /\ dc \in Seq(Byte) /\ dd \in Seq(Byte)
    BY <1>1
  <2>2. /\ Len(ci) = Len(di) /\ Len(ct) = Len(dt)
        /\ ~Continues(cc, dc) /\ ~Continues(dc, cc)
        /\ ((ci \o ct) \o cc) \o cd = ((di \o dt) \o dc) \o dd
    BY <1>2, <1>3
  <2> HIDE DEF ci, ct, cc, cd, di, dt, dc, dd, Fields
  <2> DEFINE cp == ci \o ct   dp == di \o dt
             cr == cc \o cd   dr == dc \o dd
  <2>3. cp \in Seq(Byte) /\ dp \in Seq(Byte) /\ Len(cp) = Len(dp)
    <3>1. cp \in Seq(Byte) /\ Len(cp) = Len(ci) + Len(ct)
        BY <2>1, ConcatLength
    <3>2. dp \in Seq(Byte) /\ Len(dp) = Len(di) + Len(dt)
        BY <2>1, ConcatLength
    <3> QED
        BY <2>2, <3>1, <3>2
  <2>4. cr \in Seq(Byte) /\ dr \in Seq(Byte)
    BY <2>1, ConcatLength
  <2>5. cp = dp /\ cr = dr
    <3>0. (cp \o cc) \o cd = (dp \o dc) \o dd
        BY <2>2
    <3> HIDE DEF cp, dp
    <3>1. \A s, t, u \in Seq(Byte) : (s \o t) \o u = s \o (t \o u)
        BY ConcatAssociative
    <3>2. cp \in Seq(Byte) /\ cc \in Seq(Byte) /\ cd \in Seq(Byte)
        BY <2>1, <2>3
    <3>3. dp \in Seq(Byte) /\ dc \in Seq(Byte) /\ dd \in Seq(Byte)
        BY <2>1, <2>3
    <3>4. (cp \o cc) \o cd = cp \o (cc \o cd)
        BY ONLY <3>1, <3>2
    <3>5. (dp \o dc) \o dd = dp \o (dc \o dd)
        BY ONLY <3>1, <3>3
    <3>6. cp \o cr = dp \o dr
        BY <3>0, <3>4, <3>5
    <3> HIDE DEF cr, dr
    <3> QED
        BY <2>3, <2>4, <3>6, ConcatSplits
  <2>6. cc = dc /\ cd = dd
    <3>1. cc \o cd = dc \o dd
        BY <2>5
    <3>2. ~(Len(cc) < Len(dc)) /\ ~(Len(dc) < Len(cc))
        BY <2>1, <2>2, <3>1, ConcatContinues
    <3>3. Len(cc) \in Nat /\ Len(dc) \in Nat
        BY <2>1
    <3>4. Len(cc) = Len(dc)
        BY <3>2, <3>3
    <3> QED
        BY <2>1, <3>1, <3>4, ConcatSplits
  <2>7. ci = di /\ ct = dt
    BY <2>1, <2>2, <2>5, ConcatSplits
  <2> QED
    BY <2>6, <2>7 DEF ci, ct, cc, cd, di, dt, dc, dd
<1>5. ASSUME NEW e \in Fields
      PROVE  e = [intent_hash |-> e.intent_hash, transaction_hash |-> e.transaction_hash,
                  chain |-> e.chain, domain |-> e.domain, timestamp |-> e.timestamp]
    OBVIOUS
<1> HIDE DEF Fields
<1> QED
    BY <1>1, <1>2, <1>4, <1>5

\* A signature is of one node and one second, and of one context up to the place
\* of the boundaries that SigningContext::message does not mark: for every key,
\* participants and contexts, of whatever lengths.
THEOREM SignaturesBindContext == SigningSpec => []ContextBound
<1>1. SigningInv => ContextBound
  <2> SUFFICES ASSUME SigningInv, NEW r \in results, NEW s \in results,
                      r.result.signature = s.result.signature
               PROVE  /\ r.signer = s.signer
                      /\ r.context.timestamp = s.context.timestamp
                      /\ Separable(r.context, s.context) => r.context = s.context
    BY DEF ContextBound
  <2>1. PICK k \in Key : LET p == Partial(r.signer, k, r.context)
                         IN  r.result.signature = <<"signature", p, p>>
    BY DEF SigningInv
  <2>2. PICK l \in Key : LET p == Partial(s.signer, l, s.context)
                         IN  s.result.signature = <<"signature", p, p>>
    BY DEF SigningInv
  <2>3. Partial(r.signer, k, r.context) = Partial(s.signer, l, s.context)
    <3> DEFINE p == Partial(r.signer, k, r.context)
               q == Partial(s.signer, l, s.context)
    <3>1. <<"signature", p, p>> = <<"signature", q, q>>
        BY <2>1, <2>2
    <3> HIDE DEF p, q
    <3>2. p = q
        BY <3>1
    <3> QED
        BY <3>2 DEF p, q
  <2>4. r.signer = s.signer /\ message(r.context) = message(s.context)
    BY <2>3 DEF Partial, generate_share_bytes
  <2>5. r.context \in Context /\ s.context \in Context
    BY DEF SigningInv
  <2>6. r.context.timestamp = s.context.timestamp
    BY <2>4 DEF message
  <2> QED
    BY <2>4, <2>5, <2>6, MessageSplits
<1> QED
    BY <1>1, SigningInvariant, PTL

-----------------------------------------------------------------------------
(* The policy crate *)

\* A proof with its public inputs overwritten.
Carried(b, public) == [prove(PrivateOf(b), PublicOf(b)) EXCEPT !.public_inputs = public]

\* Every policy is the default one; a proof is what build made of the builder's
\* fields, but for its public inputs; and what evaluate_with_zk answered follows
\* from the policies and the proof, which wait until the answer is taken.
PolicyInv ==
    /\ PolicyTypeOK
    /\ \A k \in DOMAIN policies : policies[k] = DefaultPolicy
    /\ proof # Nothing => /\ Complete(built) /\ Provable(PrivateOf(built), PublicOf(built))
                          /\ \E public \in PublicInputs : proof = Carried(built, public)
    /\ answer # Nothing /\ answer.call = "evaluate_with_zk" =>
          /\ proof # Nothing
          /\ \E time \in Time : \E v \in Verdicts(answer.req, time) :
                answer.verdict = IF v = "Allow" THEN ZkVerdict(answer.req) ELSE v

LEMMA PolicyStart == PolicyInit => PolicyInv
    BY DEF PolicyInit, PolicyInv, PolicyTypeOK

LEMMA CarriedFields ==
    ASSUME NEW b, NEW public
    PROVE  LET p == prove(PrivateOf(b), PublicOf(b))
               q == Carried(b, public)
           IN  /\ q.public_inputs = public /\ q.commitments = p.commitments
               /\ q.challenge = <<"challenge", p.commitments, b.amount, Labels(PublicOf(b))>>
               /\ \A k \in 1 .. 3 :
                     q.responses[k] = <<"response", <<"domain", Labels(PublicOf(b))>>, q.challenge,
                                        p.commitments[k]>>
<1> DEFINE p == prove(PrivateOf(b), PublicOf(b))
           q == Carried(b, public)
           l == Labels(PublicOf(b))
<1>1. PublicOf(b).amount = b.amount
    BY DEF PublicOf
<1>2. /\ q.public_inputs = public /\ q.commitments = p.commitments
      /\ q.challenge = p.challenge /\ q.responses = p.responses
    BY DEF Carried, prove
<1>3. p.challenge = from_transcript(p.commitments, PublicOf(b))
    BY DEF prove
<1>4. p.responses = [k \in 1 .. 3 |->
                        prover_response(p.commitments[k], p.challenge, prover_domain(PublicOf(b)))]
    BY DEF prove
<1> HIDE DEF p, q
<1>5. p.challenge = <<"challenge", p.commitments, b.amount, l>>
    BY <1>1, <1>3 DEF from_transcript
<1>6. \A k \in 1 .. 3 : p.responses[k] = <<"response", <<"domain", l>>, p.challenge, p.commitments[k]>>
    BY <1>4 DEF prover_response, prover_domain
<1> QED
    BY <1>2, <1>5, <1>6 DEF p, q

\* The verifier takes a proof only for the amount and the labels it was made for.
LEMMA ProofBinds ==
    ASSUME NEW b, NEW public, verify(Carried(b, public)) = "valid"
    PROVE  public.amount = b.amount /\ Labels(public) = Labels(PublicOf(b))
<1> DEFINE q == Carried(b, public)
           cs == prove(PrivateOf(b), PublicOf(b)).commitments
<1>1. q.challenge = from_transcript(q.commitments, q.public_inputs)
    BY DEF verify
<1>2. /\ q.public_inputs = public /\ q.commitments = cs
      /\ q.challenge = <<"challenge", cs, b.amount, Labels(PublicOf(b))>>
    BY CarriedFields
<1> HIDE DEF q, cs
<1>3. <<"challenge", cs, b.amount, Labels(PublicOf(b))>> = <<"challenge", cs, public.amount, Labels(public)>>
    BY <1>1, <1>2 DEF from_transcript
<1> QED
    BY <1>3

\* It takes the proof that nobody changed.
LEMMA HonestVerifies ==
    ASSUME NEW b, Provable(PrivateOf(b), PublicOf(b)), b.intent_id # <<>>
    PROVE  verify(Carried(b, PublicOf(b))) = "valid"
<1> DEFINE q == Carried(b, PublicOf(b))
           cs == prove(PrivateOf(b), PublicOf(b)).commitments
           l  == Labels(PublicOf(b))
<1>1. PublicOf(b).amount = b.amount /\ PublicOf(b).intent_id = b.intent_id /\ b.amount # 0
    BY DEF PublicOf, Provable
<1>2. /\ q.public_inputs = PublicOf(b) /\ q.commitments = cs
      /\ q.challenge = <<"challenge", cs, b.amount, l>>
      /\ \A k \in 1 .. 3 : q.responses[k] = <<"response", <<"domain", l>>, q.challenge, cs[k]>>
    BY CarriedFields
<1> HIDE DEF q, cs
<1>3. q.challenge = from_transcript(q.commitments, q.public_inputs)
    BY <1>1, <1>2 DEF from_transcript
<1>4. \A k \in 1 .. 3 : q.responses[k] = verifier_response(q.commitments[k], q.challenge,
                                                          verifier_domain(q.public_inputs))
    BY <1>2 DEF verifier_response, verifier_domain
<1>5. verify(q) = "valid"
    BY <1>1, <1>2, <1>3, <1>4 DEF verify
<1> QED
    BY <1>5 DEF q

\* While the answer waits nothing it follows from changes.
LEMMA AnswerGiven ==
    ASSUME PolicyInv, answer = Nothing, UNCHANGED <<policies, proof, built>>,
           NEW req \in Request, NEW time \in Time, NEW v \in Verdicts(req, time),
           \/ answer' = Answer("evaluate", req, v)
           \/ proof # Nothing /\ answer' = Answer("evaluate_with_zk", req,
                                                   IF v = "Allow" THEN ZkVerdict(req) ELSE v)
    PROVE  PolicyInv'
<1>1. v \in {"Allow", "Deny"}
    BY DEF Verdicts
<1>2. ZkVerdict(req) \in {"Allow", "Deny", "ZKVerification"}
    BY DEF ZkVerdict
<1>3. ZkVerdict(req)' = ZkVerdict(req)
    BY DEF ZkVerdict
<1>4. Verdicts(req, time)' = Verdicts(req, time)
    BY DEF Verdicts
<1>5. CASE answer' = Answer("evaluate", req, v)
  <2>1. answer'.call = "evaluate" /\ answer'.verdict = v
    BY <1>5 DEF Answer
  <2> QED
    BY <1>1, <2>1 DEF PolicyInv, PolicyTypeOK
<1>6. CASE proof # Nothing /\ answer' = Answer("evaluate_with_zk", req,
                                               IF v = "Allow" THEN ZkVerdict(req) ELSE v)
  <2>1. /\ answer'.call = "evaluate_with_zk" /\ answer'.req = req
        /\ answer'.verdict = IF v = "Allow" THEN ZkVerdict(req) ELSE v
    BY <1>6 DEF Answer
  <2>2. answer'.verdict \in {"Allow", "Deny", "ZKVerification"}
    BY <1>1, <1>2, <2>1
  <2>3. PolicyTypeOK'
    BY <2>2 DEF PolicyInv, PolicyTypeOK
  <2>4. \E t \in Time : \E w \in Verdicts(answer.req, t)' :
           answer'.verdict = IF w = "Allow" THEN ZkVerdict(answer.req)' ELSE w
    BY <1>3, <1>4, <2>1 DEF Verdicts, ZkVerdict
  <2> QED
    BY <1>6, <2>3, <2>4 DEF PolicyInv
<1> QED
    BY <1>5, <1>6

LEMMA PolicyStep == PolicyInv /\ [PolicyNext]_policyVars => PolicyInv'
<1> SUFFICES ASSUME PolicyInv, [PolicyNext]_policyVars PROVE PolicyInv'
    OBVIOUS
<1>1. ASSUME NEW t \in Tenant, NEW v \in Version, LoadPolicy(t, v) PROVE PolicyInv'
  <2>1. /\ answer' = Nothing /\ UNCHANGED <<proof, built>>
        /\ policies' = [k \in DOMAIN policies \cup {PolicyKey(t, v)} |->
                           IF k \in DOMAIN policies THEN policies[k] ELSE DefaultPolicy]
    BY <1>1 DEF LoadPolicy, Loaded
  <2>2. PolicyKey(t, v) \in TenantVersion
    BY DEF PolicyKey, TenantVersion
  <2>3. /\ DOMAIN policies' = DOMAIN policies \cup {PolicyKey(t, v)}
        /\ \A k \in DOMAIN policies' : policies'[k] = DefaultPolicy
    BY <2>1 DEF PolicyInv
  <2> QED
    BY <2>1, <2>2, <2>3 DEF PolicyInv, PolicyTypeOK
<1>2. ASSUME NEW b \in Builder, Build(b) PROVE PolicyInv'
  <2> DEFINE ok == Complete(b) /\ Provable(PrivateOf(b), PublicOf(b))
  <2>1. answer' = Nothing /\ policies' = policies
    BY <1>2 DEF Build
  <2>2. CASE ~ok
    <3>1. proof' = Nothing /\ built' = Nothing
        BY <1>2, <2>2 DEF Build
    <3> QED
        BY <2>1, <3>1 DEF PolicyInv, PolicyTypeOK
  <2>3. CASE ok
    <3>1. proof' = prove(PrivateOf(b), PublicOf(b)) /\ built' = b
        BY <1>2, <2>3 DEF Build
    <3>2. b.intent_id # Missing
        BY <2>3 DEF Complete, Builder
    <3>3. PublicOf(b) \in PublicInputs
        BY <3>2 DEF PublicOf, Builder, PublicInputs
    <3>4. prove(PrivateOf(b), PublicOf(b)) = Carried(b, PublicOf(b))
        BY DEF prove, Carried
    <3>5. Carried(b, PublicOf(b)) # Nothing /\ b # Nothing
        BY <2>3, <3>3, NothingAssumption DEF Carried
    <3> QED
        BY <2>1, <2>3, <3>1, <3>3, <3>4, <3>5 DEF PolicyInv, PolicyTypeOK
  <2> QED
    BY <2>2, <2>3
<1>3. ASSUME NEW public \in PublicInputs, Relabel(public) PROVE PolicyInv'
  <2>1. /\ answer' = Nothing /\ UNCHANGED <<policies, built>> /\ proof # Nothing
        /\ proof' = [proof EXCEPT !.public_inputs = public]
    BY <1>3 DEF Relabel
  <2>2. PICK old \in PublicInputs : proof = Carried(built, old)
    BY <2>1 DEF PolicyInv
  <2>3. proof' = Carried(built, public)
    BY <2>1, <2>2 DEF Carried, prove
  <2>4. built \in Builder /\ built # Nothing /\ Complete(built)
    BY <2>1 DEF PolicyInv, PolicyTypeOK
  <2>5. proof' # Nothing
    BY <2>3, <2>4, NothingAssumption DEF Carried
  <2> QED
    BY <2>1, <2>3, <2>4, <2>5 DEF PolicyInv, PolicyTypeOK
<1>4. ASSUME NEW req \in Request, evaluate(req) PROVE PolicyInv'
  <2>1. PICK time \in Time : \E v \in Verdicts(req, time) : answer' = Answer("evaluate", req, v)
    BY <1>4 DEF evaluate
  <2>2. PICK v \in Verdicts(req, time) : answer' = Answer("evaluate", req, v)
    BY <2>1
  <2>3. answer = Nothing /\ UNCHANGED <<policies, proof, built>>
    BY <1>4 DEF evaluate
  <2> QED
    BY <2>2, <2>3, AnswerGiven
<1>5. ASSUME NEW req \in Request, evaluate_with_zk(req) PROVE PolicyInv'
  <2>1. PICK time \in Time : \E v \in Verdicts(req, time) :
           answer' = Answer("evaluate_with_zk", req, IF v = "Allow" THEN ZkVerdict(req) ELSE v)
    BY <1>5 DEF evaluate_with_zk
  <2>2. PICK v \in Verdicts(req, time) :
           answer' = Answer("evaluate_with_zk", req, IF v = "Allow" THEN ZkVerdict(req) ELSE v)
    BY <2>1
  <2>3. answer = Nothing /\ proof # Nothing /\ UNCHANGED <<policies, proof, built>>
    BY <1>5 DEF evaluate_with_zk
  <2> QED
    BY <2>2, <2>3, AnswerGiven
<1>6. CASE GoOn
    BY <1>6 DEF GoOn, PolicyInv, PolicyTypeOK
<1>7. CASE UNCHANGED policyVars
    BY <1>7 DEF policyVars, PolicyInv, PolicyTypeOK, Verdicts, ZkVerdict
<1> QED
    BY <1>1, <1>2, <1>3, <1>4, <1>5, <1>6, <1>7 DEF PolicyNext

LEMMA PolicyInvariant == PolicySpec => []PolicyInv
    BY PolicyStart, PolicyStep, PTL DEF PolicySpec

\* What evaluate_with_zk allows was proved for this amount, within both limits of
\* the builder and for the same labels, whoever overwrote the public inputs.
THEOREM AllowedWasProved == PolicySpec => []ZkAllowSound
<1>1. PolicyInv => ZkAllowSound
  <2> SUFFICES ASSUME PolicyInv, answer # Nothing, answer.call = "evaluate_with_zk",
                      answer.verdict = "Allow"
               PROVE  /\ policies # <<>>
                      /\ built.amount = answer.req.amount
                      /\ 0 < built.amount /\ built.amount <= built.daily_limit
                      /\ built.amount <= built.per_wallet_limit
                      /\ Labels(proof.public_inputs) = Labels(PublicOf(built))
    BY DEF ZkAllowSound
  <2>0. PICK time \in Time : \E v \in Verdicts(answer.req, time) :
           answer.verdict = IF v = "Allow" THEN ZkVerdict(answer.req) ELSE v
    BY DEF PolicyInv
  <2>1. PICK v \in Verdicts(answer.req, time) :
           answer.verdict = IF v = "Allow" THEN ZkVerdict(answer.req) ELSE v
    BY <2>0
  <2>2. v = "Allow" /\ ZkVerdict(answer.req) = "Allow"
    BY <2>1
  <2>3. policies # <<>>
    BY <2>2 DEF Verdicts
  <2>4. verify(proof) = "valid" /\ proof.public_inputs.amount = answer.req.amount
    BY <2>2 DEF ZkVerdict, verify_zk_policy_proof
  <2>5. /\ proof # Nothing /\ built \in Builder
        /\ Provable(PrivateOf(built), PublicOf(built))
    BY DEF PolicyInv, PolicyTypeOK
  <2>6. PICK public \in PublicInputs : proof = Carried(built, public)
    BY <2>5 DEF PolicyInv
  <2>7. proof.public_inputs = public
    BY <2>6, CarriedFields
  <2>8. public.amount = built.amount /\ Labels(public) = Labels(PublicOf(built))
    BY <2>4, <2>6, ProofBinds
  <2>9. /\ built.amount # 0 /\ built.amount <= built.daily_limit
        /\ built.amount <= built.per_wallet_limit
    BY <2>5 DEF Provable, PrivateOf, PublicOf
  <2>10. built.amount \in Nat
    BY <2>5, AmountAssumption DEF Builder
  <2>11. 0 < built.amount
    BY <2>9, <2>10
  <2> QED
    BY <2>3, <2>4, <2>7, <2>8, <2>9, <2>11
<1> QED
    BY <1>1, PolicyInvariant, PTL

\* The proof build makes is one verify accepts: prover and verifier, which have
\* their own copies of the hashes, agree for every builder that names an intent.
THEOREM HonestProofsPass == PolicySpec => []HonestProofAccepted
<1>1. PolicyInv => HonestProofAccepted
  <2> SUFFICES ASSUME PolicyInv, answer # Nothing, answer.call = "evaluate_with_zk",
                      proof.public_inputs = PublicOf(built), built.intent_id # <<>>,
                      built.amount = answer.req.amount,
                      \A time \in Time : Verdicts(answer.req, time) = {"Allow"}
               PROVE  answer.verdict = "Allow"
    BY DEF HonestProofAccepted
  <2>0. PICK time \in Time : \E v \in Verdicts(answer.req, time) :
           answer.verdict = IF v = "Allow" THEN ZkVerdict(answer.req) ELSE v
    BY DEF PolicyInv
  <2>1. PICK v \in Verdicts(answer.req, time) :
           answer.verdict = IF v = "Allow" THEN ZkVerdict(answer.req) ELSE v
    BY <2>0
  <2>2. answer.verdict = ZkVerdict(answer.req)
    BY <2>1
  <2>3. proof # Nothing /\ Provable(PrivateOf(built), PublicOf(built))
    BY DEF PolicyInv
  <2>4. PICK public \in PublicInputs : proof = Carried(built, public)
    BY <2>3 DEF PolicyInv
  <2>5. proof = Carried(built, PublicOf(built))
    BY <2>4, CarriedFields
  <2>6. verify(proof) = "valid"
    BY <2>3, <2>5, HonestVerifies
  <2>7. proof.public_inputs.amount = answer.req.amount
    BY DEF PublicOf
  <2> QED
    BY <2>2, <2>6, <2>7 DEF ZkVerdict, verify_zk_policy_proof
<1> QED
    BY <1>1, PolicyInvariant, PTL

-----------------------------------------------------------------------------
(* The components side by side *)

\* Every component is well formed, however its callers interleave: tokens stay
\* between none and a full load (Allow), keys are tenant:version (load_policy),
\* shares are whole or erased (zeroize), and vaults lie at their owner's address
\* with a threshold of one to three (initialize_vault).
THEOREM ComponentsTyped ==
    ASSUME AgeSuffices
    PROVE  ComponentsSpec => []ComponentsTypeOK
<1> DEFINE Four == TypeOK /\ BucketInv /\ PolicyInv /\ SigningInv /\ VaultInv
<1>1. ComponentsInit => Four
    BY TypeInit, BucketInit, PolicyStart, SigningStart, VaultStart DEF ComponentsInit
<1>2. Four /\ [ComponentsNext]_all => Four'
  <2> SUFFICES ASSUME Four, [ComponentsNext]_all PROVE Four'
    OBVIOUS
  <2>1. /\ [Next]_vars /\ [PolicyNext]_policyVars
        /\ [SigningNext]_signingVars /\ [VaultNext]_vaultVars
    BY DEF ComponentsNext, FocusOn, all
  <2>2. TypeOK'
    BY <2>1, TypeStep
  <2>3. BucketInv'
    BY <2>1, <2>2, BucketStep
  <2> QED
    BY <2>1, <2>2, <2>3, PolicyStep, SigningStep, VaultStep
<1>3. SigningInv => SigningTypeOK
  <2> SUFFICES ASSUME SigningInv PROVE SigningTypeOK
    OBVIOUS
  <2>1. ASSUME NEW n \in Node, NEW s \in ShareOf(n)
        PROVE  \/ s.bytes = <<>> /\ s.used
               \/ s.bytes \in {generate_share_bytes(n, key) : key \in Key} /\ ~s.used
    BY DEF ShareOf, Erased
  <2>2. ASSUME NEW n \in Node, signers[n] # Unset PROVE signers[n].healthy \in BOOLEAN
    BY <2>2 DEF SigningInv
  <2> QED
    BY <2>1, <2>2 DEF SigningInv, SigningTypeOK
<1>4. Four => ComponentsTypeOK
    BY <1>3 DEF ComponentsTypeOK, PolicyInv, VaultInv
<1> QED
    BY <1>1, <1>2, <1>4, PTL DEF ComponentsSpec
=============================================================================
