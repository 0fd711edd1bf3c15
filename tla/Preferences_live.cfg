SPECIFICATION FairAllSpec
CONSTANTS
    Node = {n1, n2}
    User = {u1}
    Req = {r1, r2}
    Capacity = 1
    MaxVersion = 1
    t1 = t1
    e1 = e1
    e2 = e2
    location = location
    cot = cot
    WebEditor = {e1}
    Picker = {}
    MaxSaves = 2
    Scenes = {"cluster", "zones"}
INVARIANT TableIsWhatWasChosen
PROPERTIES Converges ImplementsPromise
