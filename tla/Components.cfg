CONSTANTS
  c1 = c1
  c2 = c2
  b1 = b1
  b2 = b2
  b3 = b3
  None = None
  Caller = {c1, c2}
  Bucket = {b1, b2, b3}
  Burst = 2
  Rate = 4
  Unit = 3
  MaxAge = 2
  Cleaning = TRUE
  MaxTime = 4
  Missing = Missing
  Nothing = Nothing
  Tenant <- MCTenant
  Version <- MCVersion
  IntentId <- MCIntentId
  WalletId <- MCWalletId
  Amount <- MCAmount
  Limit <- MCLimit
  Token <- MCToken
  Recipient <- MCRecipient
  Time = {0, 9}
  FarFuture = 8
  Unset = Unset
  k1 = k1
  Key = {k1}
  Byte <- MCByte
  Context <- MCContext
  Participants <- MCParticipants
  MaxResults = 2
  NoVault = NoVault
  Owner = {"o", "p"}
  SignerList <- MCSignerList
  Threshold = {0, 1, 2, 3, 4}
  VaultAmount = {0, 1, 2}
  MaxNonce = 2
  i1 = i1
  i2 = i2
  i3 = i3
  Bad = Bad
  NotYet = NotYet
  Intent = {i1, i2, i3}
  AmountOf <- MCAmountOf
  DestinationOf <- MCDestinationOf
  TokenOf <- MCTokenOf
  FoldOf <- MCFoldOf
  Rows <- MCRows
  MaxRows = 2
  WalletLimit = 20
  Share = {1, 2}
  DailyLimit = 50
  MaxInt = 127
  MaxSecond = 1
SPECIFICATION ComponentsSpec
INVARIANT ComponentsTypeOK
INVARIANT PipelineTypeOK
INVARIANT RateBound
INVARIANT BucketInv
INVARIANT RulesKept
INVARIANT ProofsBind
INVARIANT QuorumSigned
INVARIANT ZkAllowSound
INVARIANT HonestProofAccepted
INVARIANT ErasedNeverSigns
INVARIANT ContextBound
INVARIANT VerifiedObeysOwner
PROPERTY SignersFixed
