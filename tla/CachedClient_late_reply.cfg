SPECIFICATION Spec
CONSTANTS
    Key = {k1, k2}
    Component = {c1}
    MaxCached = 2
    Expires = FALSE
INVARIANT ShowsItsOwnToken
