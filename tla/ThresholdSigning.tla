-------------------------- MODULE ThresholdSigning --------------------------
(***************************************************************************)
(* crates/mpc/src/lib.rs: key generation, shares and signers of the 2-of-3 *)
(* scheme, used by a caller that keeps the three shares, makes signers     *)
(* from clones of them, erases shares and asks signers for signatures, in  *)
(* any order.  A digest is the tuple of what was hashed; byte strings are  *)
(* sequences, because a context's fields are hashed without separators.    *)
(***************************************************************************)
EXTENDS Integers, Sequences, FiniteSets

CONSTANTS
    Key,                \* the private keys the generator may draw
    Byte,               \* what byte strings are made of
    Context,            \* the signing contexts
    Participants,       \* the lists of participants a caller may name
    MaxResults,         \* bound on the signatures
    Unset               \* not made yet

Node == 1 .. 3

ASSUME ParticipantsAssumption == Participants \subseteq Seq(Node)
ASSUME ContextAssumption ==
    Context \subseteq [intent_hash : Seq(Byte), transaction_hash : Seq(Byte), chain : Seq(Byte),
                       domain : Seq(Byte), timestamp : Nat]
ASSUME BoundAssumption == MaxResults \in Nat

VARIABLES
    public_key,     \* of the last key generation
    shares,         \* the caller's shares
    signers,        \* the signer made for each node
    results         \* the signatures, each with its history: signer and context

signingVars == <<public_key, shares, signers, results>>

SigningInit ==
    /\ public_key = Unset
    /\ shares = [n \in Node |-> Unset]
    /\ signers = [n \in Node |-> Unset]
    /\ results = {}

-----------------------------------------------------------------------------
(* Key generation and shares *)

generate_share_bytes(n, key) == <<"share", n, key>>

derive_public_key(key) == <<"pubkey", key>>

generate_shares(key) ==
    /\ shares' = [n \in Node |-> [bytes |-> generate_share_bytes(n, key), used |-> FALSE]]
    /\ public_key' = derive_public_key(key)
    /\ UNCHANGED <<signers, results>>

\* A wrong zeroize: the bytes go, the mark stays away.
zeroize_unmarked(n) ==
    /\ shares[n] # Unset
    /\ shares' = [shares EXCEPT ![n].bytes = <<>>]
    /\ UNCHANGED <<public_key, signers, results>>

\* zeroize clears the Vec and marks the share.
zeroize(n) ==
    /\ shares[n] # Unset
    /\ shares' = [shares EXCEPT ![n] = [bytes |-> <<>>, used |-> TRUE]]
    /\ UNCHANGED <<public_key, signers, results>>

\* Frost2Of3Signer::new takes its own copy of the share.
new_signer(n) ==
    /\ shares[n] # Unset
    /\ signers' = [signers EXCEPT ![n] = [share |-> shares[n], public_key |-> public_key,
                                          healthy |-> ~shares[n].used]]
    /\ UNCHANGED <<public_key, shares, results>>

-----------------------------------------------------------------------------
(* Signing *)

\* A wrong message: the domain is left out.
message_no_domain(ctx) ==
    <<ctx.intent_hash \o ctx.transaction_hash \o ctx.chain, ctx.timestamp>>

\* SigningContext::message.  The timestamp has a fixed width.
message(ctx) ==
    <<ctx.intent_hash \o ctx.transaction_hash \o ctx.chain \o ctx.domain, ctx.timestamp>>

partial_sign(s, ctx) == <<"partial", s.share.bytes, message(ctx)>>

Insufficient(partials) == Len(partials) < 2

Err(e) == [error |-> e]

\* aggregate_signatures hashes the first two partial signatures, pads with
\* zeros and returns a constant in place of the intent's hash.
aggregate_signatures(partials) ==
    IF Insufficient(partials) THEN Err("InsufficientSigners")
    ELSE [error |-> "none",
          signature |-> <<"signature", partials[1].sig, partials[2].sig>>,
          participants |-> [k \in DOMAIN partials |-> partials[k].id],
          intent_hash |-> "ones"]

\* The signer computes the partial signature of every participant itself.
PartialsOf(n, ctx, participants) ==
    [k \in 1 .. Len(participants) + 1 |->
        [sig |-> partial_sign(signers[n], ctx),
         id  |-> IF k = 1 THEN n ELSE participants[k - 1]]]

sign_with_participants(n, ctx, participants) ==
    IF ~signers[n].healthy THEN Err("SignerUnavailable")
    ELSE IF signers[n].share.used THEN Err("ShareZeroized")
    ELSE aggregate_signatures(PartialsOf(n, ctx, participants))

sign(n, ctx, participants) ==
    /\ signers[n] # Unset
    /\ LET result == sign_with_participants(n, ctx, participants)
       IN  results' = IF result.error # "none" THEN results
                      ELSE results \cup {[result |-> result, signer |-> n, context |-> ctx]}
    /\ Cardinality(results') <= MaxResults
    /\ UNCHANGED <<public_key, shares, signers>>

SigningNext ==
    \/ \E key \in Key : generate_shares(key)
    \/ \E n \in Node : zeroize(n) \/ new_signer(n)
    \/ \E n \in Node, ctx \in Context, ps \in Participants : sign(n, ctx, ps)

SigningSpec == SigningInit /\ [][SigningNext]_signingVars

-----------------------------------------------------------------------------
(* Properties *)

\* Every state is well formed: a share is its node's or erased, and the number
\* of signatures is bounded.
SigningTypeOK ==
    LET Bytes(n) == {generate_share_bytes(n, key) : key \in Key}
        IsShare(n, s) == \/ s.bytes = <<>> /\ s.used
                         \/ s.bytes \in Bytes(n) /\ ~s.used
    IN  /\ \A n \in Node : shares[n] # Unset => IsShare(n, shares[n])
        /\ \A n \in Node : signers[n] # Unset => /\ IsShare(n, signers[n].share)
                                               /\ signers[n].healthy \in BOOLEAN
        /\ Cardinality(results) <= MaxResults

\* No signature was computed from an erased share, although signers keep
\* copies of shares and shares are erased before and after the copy is made.
ErasedNeverSigns ==
    \A r \in results : LET sig == r.result.signature
                       IN  sig[2][2] # <<>> /\ sig[3][2] # <<>>

\* t goes on where s ends.
Continues(t, s) == Len(s) < Len(t) /\ \A k \in 1 .. Len(s) : t[k] = s[k]

\* The fields of these contexts can be told apart in one string: hashes of the
\* same width, as two digests have, and chains of which none begins with the
\* other, as of "solana", "ethereum" and "polygon".
Separable(c, d) ==
    /\ Len(c.intent_hash) = Len(d.intent_hash)
    /\ Len(c.transaction_hash) = Len(d.transaction_hash)
    /\ ~Continues(c.chain, d.chain) /\ ~Continues(d.chain, c.chain)

\* A signature is bound to its signer and its context: two results carry the
\* same signature only if one node signed in the same second, and the same
\* intent, transaction, chain and domain unless the two contexts divide the
\* bytes that are hashed at different places, for which message has no mark.
ContextBound ==
    \A r, s \in results : r.result.signature = s.result.signature =>
        /\ r.signer = s.signer
        /\ r.context.timestamp = s.context.timestamp
        /\ Separable(r.context, s.context) => r.context = s.context
=============================================================================
