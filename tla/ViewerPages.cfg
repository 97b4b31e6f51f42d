SPECIFICATION PagesSpec
CONSTANTS
    N = 3
    Animations = {0, 1}
    Portrait = {0, 1}
    PageMap = TRUE
    Starts = {0}
    Settings <- MCSettings
    Helds <- MCHelds
    MaxNav = 4
    MaxErrors = 1
INVARIANTS IdleShowsView StreamWaits
PROPERTIES OnlyATurnLoses ApproachesTarget
