------------------------ MODULE MCExecutionPipeline ------------------------
(***************************************************************************)
(* Three intents of different data, a row of every rule (one inactive, one *)
(* without a limit of its own), two shares.  Integers have 8 bits.         *)
(***************************************************************************)
EXTENDS ExecutionPipeline

CONSTANTS i1, i2, i3

\* i3 is beyond the limit of the ZK proof.
MCAmountOf      == [i \in Intent |-> CASE i = i1 -> 10 [] i = i2 -> 40 [] i = i3 -> 60]
MCDestinationOf == [i \in Intent |-> IF i = i1 THEN "Alice" ELSE "bob"]
MCTokenOf       == [i \in Intent |-> IF i = i2 THEN "usdc" ELSE "SOL"]
MCFoldOf        == [alice |-> "alice", Alice |-> "alice", bob |-> "bob", BOB |-> "bob",
                    SOL |-> "sol", usdc |-> "usdc", USDC |-> "usdc"]

Row(rule, active, config) == [rule |-> rule, isActive |-> active, config |-> config]

MCRows == [daily   |-> Row("daily_limit", TRUE, 45),
           wallet  |-> Row("daily_limit", TRUE, Bad),
           single  |-> Row("single_tx_limit", TRUE, 5),
           paused  |-> Row("single_tx_limit", FALSE, 5),
           allowed |-> Row("allowed_recipients", TRUE, {"alice"}),
           blocked |-> Row("blocked_recipients", TRUE, {"BOB"}),
           tokens  |-> Row("allowed_tokens", TRUE, {"USDC"}),
           sigs    |-> Row("required_signatures", TRUE, 2),
           hours   |-> Row("time_restriction", TRUE, [start |-> 0, end |-> 0])]
=============================================================================
