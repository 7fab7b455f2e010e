\* Two models; claims that ask for no size, for as much as Verda's default, and
\* for more; one failed call, expired record or restart.
SPECIFICATION Spec
CONSTANTS
    a = a
    b = b
    d1 = d1
    Models = {a, b}
    Disks = {0, 1, 2}
    DefaultSize = 1
    Destroyers = {d1}
    NoModel = NoModel
    MaxInstances = 2
    MaxFaults = 1
SYMMETRY MCSymmetry
INVARIANTS TypeOK
PROPERTIES BootsOnlyFromReady SizedVolumesFit
CHECK_DEADLOCK FALSE
