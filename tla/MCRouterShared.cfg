SPECIFICATION RouterSpec
CONSTANTS
    Keys = {k1, k2}
    Requests = {r1, r2}
    NoKey = nokey
    NoCooldown = none
    MaxMaterials = 2
    DefaultCooldown = 1
    Cooldowns = {}
    Targets = {"available", "disabled", "throttled"}
    Rotatable = {}
    MaxRetries = 3
INVARIANTS
    AuditExplainsState
    UsageIsCounted
PROPERTIES
    RefinesLifecycle
