SPECIFICATION KMFairSpec
CONSTANTS
    Keys = {k1, k2}
    MaxMaterials = 2
    DefaultCooldown = 2
    Cooldowns = {0, 1}
    NoCooldown = none
    Targets = {"available", "throttled", "exhausted", "recovering", "disabled", "invalid"}
    Rotatable = {k1, k2}
INVARIANTS
    CooldownIffThrottled
    AuditExplainsState
PROPERTIES
    RefinesLifecycle
    
    CooldownEnds
