SPECIFICATION FairSpec
CONSTANTS
    Nodes = {1, 2, 3}
    Writers = {1, 2}
    Dials <- All
    Standing <- ByTwo
    Ahead <- SecondAhead
    Plans <- Joins
INVARIANTS NewestKept WinnerHeld
PROPERTIES Delivered
CHECK_DEADLOCK FALSE
