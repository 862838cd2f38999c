---------------------------- MODULE PolicyEngine ----------------------------
(***************************************************************************)
(* core/policy_engine.go: the verdict on an intent, given the rows of the  *)
(* policies table, the wallet and the time.  An intent is a record with    *)
(* its amount (the decimal digits that the database holds), destination    *)
(* and token; the policies table maps the key of a row to a record with    *)
(* rule, isActive and config.                                              *)
(***************************************************************************)
EXTENDS Integers, Sequences

CONSTANTS
    MaxInt,     \* math.MaxInt64
    Bad,        \* a config, a key of it or a time that is absent or malformed
    FoldOf      \* the case folding of a name

ASSUME MaxIntAssumption == MaxInt \in Nat

\* int64 arithmetic.
Wrap(v) == ((v + MaxInt + 1) % (2 * MaxInt + 2)) - MaxInt - 1

\* fmt.Sprintf("%d", amount) of a non-negative amount.
AmountToString[n \in Nat] ==
    IF n < 10 THEN <<n>> ELSE Append(AmountToString[n \div 10], n % 10)

\* val after k digits is v[k].
parseIntentAmount(s) ==
    LET v[k \in 0 .. Len(s)] == IF k = 0 THEN 0 ELSE Wrap(v[k - 1] * 10 + s[k])
    IN  v[Len(s)]

EqualFold(r, s) == FoldOf[r] = FoldOf[s]

Within(intent, limit) == limit > 0 => parseIntentAmount(intent.amount) <= limit

parseConfigInt(p, fallback) == IF p.config = Bad THEN fallback ELSE p.config

evaluateDailyLimit(p, intent, walletLimit) ==
    Within(intent, parseConfigInt(p, walletLimit))

evaluateSingleTxLimit(p, intent) == Within(intent, parseConfigInt(p, 0))

evaluateAllowedRecipients(p, intent) ==
    p.config # Bad => \E r \in p.config : EqualFold(r, intent.destination)

evaluateBlockedRecipients(p, intent) ==
    p.config # Bad => ~\E r \in p.config : EqualFold(r, intent.destination)

evaluateAllowedTokens(p, intent) ==
    p.config # Bad => \E t \in p.config : EqualFold(t, intent.token)

\* No handler ever adds an approver: len(intent.Approvers) is 0.
evaluateRequiredSigs(p) == 0 >= parseConfigInt(p, 2)

evaluateTimeRestriction(p, now) ==
    p.config # Bad => /\ p.config.start # Bad => now >= p.config.start
                      /\ p.config.end # Bad => now <= p.config.end

\* Evaluate: every active row with a known rule passes; the loop has no early
\* exit, so the order of the rows does not matter.
Evaluate(policies, intent, walletLimit, now) ==
    \A k \in DOMAIN policies : LET p == policies[k] IN p.isActive =>
        /\ p.rule = "daily_limit" => evaluateDailyLimit(p, intent, walletLimit)
        /\ p.rule = "single_tx_limit" => evaluateSingleTxLimit(p, intent)
        /\ p.rule = "allowed_recipients" => evaluateAllowedRecipients(p, intent)
        /\ p.rule = "blocked_recipients" => evaluateBlockedRecipients(p, intent)
        /\ p.rule = "allowed_tokens" => evaluateAllowedTokens(p, intent)
        /\ p.rule = "required_signatures" => evaluateRequiredSigs(p)
        /\ p.rule = "time_restriction" => evaluateTimeRestriction(p, now)
=============================================================================
