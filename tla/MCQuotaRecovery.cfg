SPECIFICATION QRFairSpec
CONSTANTS
    Unknown = unknown
    NoTokens = notokens
    NoQuota = noquota
    NoPrediction = none
    Totals = {2}
    Period = 2
    TTLs = {0}
    Amounts = {1}
    MaxSpent = 4
    MaxInFlight = 1
    MaxAmount = 1
    MaxResorts = 0
PROPERTIES
    FilteredKeyRecovers
