CONSTANTS
    Songs <- ThreeSongs
    Notes <- TwoNotes
    Shapes <- Sound
    Hidden = "hidden"
    TieDown = FALSE
    Null = "null"
SPECIFICATION Spec
INVARIANTS
    ViewIsQuery
    ScreenFollows
    WindowIsView
    TallyCounts
