SPECIFICATION ReadAheadSpec
CONSTANTS
    Total = 4
    Layouts = {"single", "spread"}
    ViewOf <- Views
    Need <- Needs
    TextureBytes <- Bytes
    HistoryLimit = 4
    FutureLimit = 6
    MaxTurns = 1
    Nothing = Nothing
    Neighbourhoods <- Around
    Areas = {50, 100}
    AreaBytes <- FullArea
    PageBytes <- Bytes
    ExtraBytes = 2
INVARIANTS Awake
PROPERTIES NearerWins OpensReady
CHECK_DEADLOCK FALSE
