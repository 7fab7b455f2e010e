\* A single-model claim, a bundle with an always-active second model, and a floor
\* of one node; one fault.
CONSTANTS
    single = single
    bundle = bundle
    m1 = m1
    m2 = m2
    Claims = {single, bundle}
    Models = {m1, m2}
    ModelsOf <- MCModelsOf
    Primary <- MCPrimary
    AlwaysActive = {m2}
    MinReplicas <- MCMinReplicas
    MinNodes = 1
    MaxFaults = 1
SPECIFICATION Spec
INVARIANTS TypeOK DrainsOnlyAfterReady
PROPERTIES AlwaysActiveKept DrainedOnlyWhileIdle ScalesDown MarkedEnds
CHECK_DEADLOCK FALSE
