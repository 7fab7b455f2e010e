CONSTANTS
    c1 = c1
    c2 = c2
    i1 = i1
    i2 = i2
    None = None
    Claims = {c1}
    Instances = {i1, i2}
    GoneReported = {i1, i2}
    Redestroyable = {i2}
    Listed = {i1, i2}
    WriterKeepsUp = TRUE
    MaxFaults = 2
SPECIFICATION Spec
INVARIANTS
    TypeOK
    IInv
    LedgerInv
    IdsAgree
    PhaseMatchesInstance
    GCSparesClaimed
    RemovedLeavesNoWorker
PROPERTY
    ImplementsLedger
