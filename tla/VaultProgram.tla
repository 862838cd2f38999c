---------------------------- MODULE VaultProgram ----------------------------
(***************************************************************************)
(* programs/vault_policy/src/lib.rs: the on-chain vault accounts and the   *)
(* four instructions of the Anchor program, sent by anyone in any order.   *)
(* An instruction that fails changes nothing: the runtime rolls the        *)
(* transaction back.                                                       *)
(***************************************************************************)
EXTENDS Naturals, Sequences

CONSTANTS
    Owner,          \* the keys that sign instructions
    SignerList,     \* the lists of signers initialize_vault may be given
    Threshold,      \* the thresholds it may be given
    VaultAmount,    \* amounts and limits (u64)
    MaxNonce,       \* the largest nonce (2^64 - 1 in the code)
    NoVault         \* no account at this address

ASSUME VaultAmountAssumption == VaultAmount \subseteq Nat /\ Threshold \subseteq Nat
ASSUME SignerListAssumption  == SignerList \subseteq Seq(Owner)
ASSUME NonceAssumption       == MaxNonce \in Nat

\* A vault account.
Vault == [owner : Owner, threshold : 1 .. 3, signers : Seq(Owner),
          daily_limit : VaultAmount \cup {0}, single_tx_limit : VaultAmount \cup {0},
          is_active : BOOLEAN, nonce : 0 .. MaxNonce]

ASSUME NoVaultAssumption == NoVault \notin Vault

VARIABLES
    vaults,     \* the vault account at the address derived from each owner
    attested,   \* the signer_record accounts: pairs of vault and index
    wanted,     \* history: the limits an owner asked for last
    verified    \* history: some intent that verify_intent accepted since the
                \* policy of the vault was last changed, if any

vaultVars == <<vaults, attested, wanted, verified>>

Limits(daily, single) == [daily_limit |-> daily, single_tx_limit |-> single]

\* The addresses derived from the seeds, and that of an ordinary wallet.
VaultKey(o) == <<"vault", o>>
Address     == {VaultKey(o) : o \in Owner} \cup {<<"wallet">>}

VaultInit ==
    /\ vaults = [o \in Owner |-> NoVault]
    /\ attested = {}
    /\ wanted = [o \in Owner |-> Limits(0, 0)]
    /\ verified = {}

-----------------------------------------------------------------------------
(* Account sizes, in bytes *)

\* What Anchor writes in front of every account.
Discriminator == 8

\* Vault::INIT_SPACE: the fields, with the longest list of signers.
VaultSpace == 32 + 1 + (4 + 3 * 32) + 8 + 8 + 1 + 8 + 1

VaultSize(signers) == Discriminator + 32 + 1 + (4 + 32 * Len(signers)) + 8 + 8 + 1 + 8 + 1

\* SignerRecord::INIT_SPACE
RecordSpace == 32 + 32 + 1 + 8

RecordSize == Discriminator + 32 + 32 + 1 + 8

-----------------------------------------------------------------------------
(* Instructions *)

NewVault(o, threshold, signers) ==
    [owner |-> o, threshold |-> threshold, signers |-> signers,
     daily_limit |-> 0, single_tx_limit |-> 0, is_active |-> TRUE, nonce |-> 0]

\* A wrong check: the lower bound of the threshold is forgotten.
InitializeResultNoLower(o, threshold, signers) ==
    CASE vaults[o] # NoVault                -> "AccountInUse"
      [] threshold > 3                      -> "InvalidThreshold"
      [] Len(signers) < threshold           -> "InsufficientSigners"
      [] VaultSize(signers) > VaultSpace    -> "AccountDidNotSerialize"
      [] OTHER                              -> "Ok"

\* A wrong initialize_vault (init_if_needed): an account that is there is written again.
InitializeResultAgain(o, threshold, signers) ==
    CASE threshold < 1 \/ threshold > 3     -> "InvalidThreshold"
      [] Len(signers) < threshold           -> "InsufficientSigners"
      [] VaultSize(signers) > VaultSpace    -> "AccountDidNotSerialize"
      [] OTHER                              -> "Ok"

InitializeResult(o, threshold, signers) ==
    CASE vaults[o] # NoVault                -> "AccountInUse"
      [] threshold < 1 \/ threshold > 3     -> "InvalidThreshold"
      [] Len(signers) < threshold           -> "InsufficientSigners"
      [] VaultSize(signers) > VaultSpace    -> "AccountDidNotSerialize"
      [] OTHER                              -> "Ok"

initialize_vault(o, threshold, signers) ==
    /\ InitializeResult(o, threshold, signers) = "Ok"
    /\ vaults' = [vaults EXCEPT ![o] = NewVault(o, threshold, signers)]
    /\ UNCHANGED <<attested, wanted, verified>>

\* A wrong set_policy: anyone may call it.
PolicyChangeByAnyone(caller, o) ==
    IF vaults[o] = NoVault THEN "AccountNotInitialized" ELSE "Ok"

\* The seeds are those of the caller: another owner's vault is another address.
PolicyChange(caller, o) ==
    CASE vaults[o] = NoVault             -> "AccountNotInitialized"
      [] VaultKey(caller) # VaultKey(o)  -> "ConstraintSeeds"
      [] vaults[o].owner # caller        -> "Unauthorized"
      [] OTHER                           -> "Ok"

set_policy(caller, o, daily, single) ==
    /\ PolicyChange(caller, o) = "Ok"
    /\ vaults' = [vaults EXCEPT ![o].daily_limit = daily, ![o].single_tx_limit = single]
    /\ wanted' = [wanted EXCEPT ![caller] = IF caller = o THEN Limits(daily, single) ELSE @]
    /\ verified' = {i \in verified : i.vault # o}
    /\ UNCHANGED attested

\* A limit of zero is no limit.  The nonce argument is ignored.
VerifyResult(o, amount, destination) ==
    LET v == vaults[o]
    IN  CASE v = NoVault                                                -> "AccountNotInitialized"
          [] ~v.is_active                                               -> "VaultInactive"
          [] amount = 0                                                 -> "ZeroAmount"
          [] v.single_tx_limit > 0 /\ amount > v.single_tx_limit        -> "ExceedsSingleTxLimit"
          [] v.daily_limit > 0 /\ amount > v.daily_limit                -> "ExceedsDailyLimit"
          [] destination = VaultKey(o)                                  -> "SelfTransfer"
          [] v.nonce = MaxNonce                                         -> "NonceOverflow"
          [] OTHER                                                      -> "Ok"

Verified(o, amount, destination) ==
    /\ VerifyResult(o, amount, destination) = "Ok"
    /\ \/ verified' = {[vault |-> o, amount |-> amount, destination |-> destination]}
       \/ UNCHANGED verified

\* The vault is not a mutable account of this instruction: Anchor does not write
\* the incremented nonce back.
verify_intent(o, amount, destination) ==
    /\ Verified(o, amount, destination)
    /\ UNCHANGED <<vaults, attested, wanted>>

RecordResult(o, index) ==
    CASE vaults[o] = NoVault                -> "AccountNotInitialized"
      [] <<o, index>> \in attested          -> "AccountInUse"
      [] index >= Len(vaults[o].signers)    -> "InvalidSignerIndex"
      [] RecordSize > RecordSpace           -> "AccountDidNotSerialize"
      [] OTHER                              -> "Ok"

record_signer(o, index) ==
    /\ attested' = IF RecordResult(o, index) = "Ok" THEN attested \cup {<<o, index>>} ELSE attested
    /\ UNCHANGED <<vaults, wanted, verified>>

VaultNext ==
    \/ \E o \in Owner, t \in Threshold, s \in SignerList : initialize_vault(o, t, s)
    \/ \E c, o \in Owner, d, s \in VaultAmount : set_policy(c, o, d, s)
    \/ \E o \in Owner, a \in VaultAmount, d \in Address : verify_intent(o, a, d)
    \/ \E o \in Owner, i \in 0 .. 3 : record_signer(o, i)

VaultSpec == VaultInit /\ [][VaultNext]_vaultVars

-----------------------------------------------------------------------------
(* Properties *)

\* Every account is well formed and lies at its owner's address.
VaultTypeOK ==
    /\ \A o \in Owner : vaults[o] # NoVault => vaults[o] \in Vault /\ vaults[o].owner = o
    /\ attested \subseteq Owner \X (0 .. 3)

\* Whoever sends instructions in whatever order, an intent is verified only
\* within the limits that the owner of the vault asked for last, zero being no
\* limit, and never for nothing or for the vault itself.
VerifiedObeysOwner ==
    \A i \in verified : LET limits == wanted[i.vault] IN
        /\ i.amount > 0 /\ i.destination # VaultKey(i.vault)
        /\ limits.daily_limit > 0 => i.amount <= limits.daily_limit
        /\ limits.single_tx_limit > 0 => i.amount <= limits.single_tx_limit

\* No instruction takes a vault away or changes its owner, threshold or signers.
SignersFixed ==
    [][\A o \in Owner : vaults[o] # NoVault =>
          /\ vaults'[o] # NoVault
          /\ vaults'[o].owner = vaults[o].owner
          /\ vaults'[o].threshold = vaults[o].threshold
          /\ vaults'[o].signers = vaults[o].signers]_vaultVars
=============================================================================
