SPECIFICATION FairSpec
CONSTANTS
    NumBooks = 2
    Orders <- MCOrders
    Starts <- MCStarts
    MaxAsks = 3
    MaxSideAsks = 2
CHECK_DEADLOCK FALSE
INVARIANTS AwaitedIsOnTheWay DeletesOnlyWhatWasAsked SelectionFollows
PROPERTIES NavigationIsAnswered
