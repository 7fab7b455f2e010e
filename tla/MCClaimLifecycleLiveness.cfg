CONSTANTS
    c1 = c1
    c2 = c2
    i1 = i1
    i2 = i2
    None = None
    Claims = {c1}
    Instances = {i1}
    GoneReported = {i1}
    Redestroyable = {i1}
    Listed = {i1}
    WriterKeepsUp = TRUE
    MaxFaults = 1
SPECIFICATION FairSpec
PROPERTIES
    OrphansDestroyed
    DrainingEnds
    DeadInstanceNoticed
    DeletionCompletes
