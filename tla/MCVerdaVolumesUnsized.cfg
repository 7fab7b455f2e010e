\* No fault is needed: a claim that asks for no size leaves a volume of unknown
\* size.
SPECIFICATION Spec
CONSTANTS
    a = a
    b = b
    d1 = d1
    Models = {a, b}
    Disks = {0, 2}
    DefaultSize = 1
    Destroyers = {d1}
    NoModel = NoModel
    MaxInstances = 2
    MaxFaults = 0
SYMMETRY MCSymmetry
PROPERTIES DiskLargeEnough
CHECK_DEADLOCK FALSE
