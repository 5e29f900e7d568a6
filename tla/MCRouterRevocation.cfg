SPECIFICATION RouterSpec
CONSTANTS
    Keys = {k1, k2}
    Requests = {r1}
    NoKey = nokey
    NoCooldown = none
    MaxMaterials = 2
    DefaultCooldown = 1
    Cooldowns = {}
    Targets = {"available", "disabled", "throttled"}
    Rotatable = {k1}
    MaxRetries = 3
PROPERTIES
    RevocationSticks
