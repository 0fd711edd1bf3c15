CONSTANTS
    Node = {n1, n2}
    User = {u1, u2}
    Req = {r1, r2}
    Capacity = 1
    MaxVersion = 1
SPECIFICATION Spec
SYMMETRY Symmetry
INVARIANTS IInv StaleOnlyWhileInvalidating ReadsOwnNodesWrites AnsweredWriteIsNeverUncached
