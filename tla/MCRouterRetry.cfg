SPECIFICATION RouterSpec
CONSTANTS
    Keys = {k1, k2, k3, k4}
    Requests = {r1}
    NoKey = nokey
    NoCooldown = none
    MaxMaterials = 1
    DefaultCooldown = 1
    Cooldowns = {}
    Targets = {"throttled"}
    Rotatable = {}
    MaxRetries = 3
INVARIANTS
    RouterTypeOK
    RetryDiscipline
    FilteredLast
SYMMETRY KeySymmetry
