SPECIFICATION Spec
CONSTANTS
    m1 = m1
    m2 = m2
    p1 = p1
    p2 = p2
    Models = {m1, m2}
    VRAM <- MCVRAM
    MaxReplicas <- MCMaxReplicas
    AlwaysActive = {m2}
    MaxBundle = 96
    Pods = {p1, p2}
    Requirement <- MCRequirement
    PoolVRAM = 16
    MaxNodes = 2
    MaxGPUs = 1
    NoModel = NoModel
    MaxClaims = 3
    MaxEvents = 6
INVARIANTS TypeOK LocksAccounted ClaimFitsPods
PROPERTIES PodClaimedOnce DemandServed BatchProcessed
CHECK_DEADLOCK FALSE
