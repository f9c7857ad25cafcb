CONSTANTS
    ann = ann
    monitor = monitor
    NoOne = NoOne
    People = {ann}
    Monitor = monitor
    Full = 3
    Gated = TRUE
    Threshold = TRUE
    MaxFaults = 2
SPECIFICATION RolloutSpec
CHECK_DEADLOCK FALSE
PROPERTIES StopsHold ShareNeverFalls RolloutMovesOn
