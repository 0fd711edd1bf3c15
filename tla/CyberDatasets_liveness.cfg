SPECIFICATION FairSpec
CONSTANTS
    Caller = {c1, c2}
    Worker = {w1}
    NoSet = NoSet
    NoCaller = NoCaller
    SetId = {s1, s2, s3}
    MaxConf = 1
    MaxDisk = 0
    MaxGeneration = 1
PROPERTY Converges
