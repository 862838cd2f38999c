CONSTANTS
    i1 = i1
    i2 = i2
    i3 = i3
    Bad = Bad
    NotYet = NotYet
    Intent = {i1, i2}
    AmountOf <- MCAmountOf
    DestinationOf <- MCDestinationOf
    TokenOf <- MCTokenOf
    FoldOf <- MCFoldOf
    Rows <- MCRows
    MaxRows = 1
    WalletLimit = 20
    Share = {1, 2}
    DailyLimit = 50
    MaxInt = 127
    MaxSecond = 1
SPECIFICATION PipelineSpec
INVARIANTS SignedIsSubmitted
