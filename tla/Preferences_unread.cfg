SPECIFICATION AllSpec
CONSTANTS
    Node = {n1, n2}
    User = {u1}
    Req = {r1, r2}
    Capacity = 1
    MaxVersion = 1
    t1 = t1
    e1 = e1
    e2 = e2
    location = location
    cot = cot
    WebEditor = {e1, e2}
    Picker = {e1}
    MaxSaves = 2
    Scenes = {"tab"}
INVARIANT SavesComeFromARead
