SPECIFICATION Spec
CONSTANTS
    Caller = {c1, c2}
    Worker = {w1, w2}
    NoSet = NoSet
    NoCaller = NoCaller
    SetId = {s1, s2, s3}
    MaxConf = 1
    MaxDisk = 1
    MaxGeneration = 1
SYMMETRY Symmetry
INVARIANTS HandlesAreOwned ServedSinceReload
PROPERTIES FilesNeverGoBack
