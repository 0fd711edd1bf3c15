SPECIFICATION LivesSpec
CONSTANTS
    Pinned = {"coord"}
    Extents = {"shapes"}
    Beyond = {"polar"}
    Converting = {"grid"}
    Unplaced = {"grid"}
    MaxMoves = 2
    MaxFocus = 1
    Key = {k1, k2}
    Component = {c1, c2}
    MaxCached = 1
    Expires = TRUE
CHECK_DEADLOCK FALSE
INVARIANTS NoStalePin
PROPERTIES EveryPanelIsAnswered FocusIsNotReplayed EveryViewIsAnswered
