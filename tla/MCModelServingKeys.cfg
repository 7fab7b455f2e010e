\* No fault is needed: a consolidation drain takes the keys away.
CONSTANTS
    single = single
    bundle = bundle
    m1 = m1
    m2 = m2
    Claims = {single, bundle}
    Models = {m1, m2}
    ModelsOf <- MCModelsOf
    Primary <- MCPrimary
    AlwaysActive = {}
    MinReplicas <- MCMinReplicas
    MinNodes = 0
    MaxFaults = 0
SPECIFICATION Spec
PROPERTIES KeyKeptWhileServed
CHECK_DEADLOCK FALSE
