SPECIFICATION QRSpec
CONSTANTS
    Unknown = unknown
    NoTokens = notokens
    NoQuota = noquota
    NoPrediction = none
    Totals = {3}
    Period = 2
    TTLs = {0, 1}
    Amounts = {1, 2}
    MaxSpent = 8
    MaxInFlight = 2
    MaxAmount = 2
    MaxResorts = 1
INVARIANTS
    QETypeOK
    RemainingIsCovered
    UsedIsOfThisPeriod
    OverdraftIsBounded
