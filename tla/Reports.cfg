CONSTANTS
    team = team
    Builds = {1, 2}
    Statuses = {"queued", "assigned", "running", "succeeded", "failed", "expired"}
    MaxFaults = 2
    Channels = {team}
    Wants <- mcWants
    Slow = {}
    Permits = 2
    MaxAttempts = 2
    CreatedAt <- mcCreatedAt
    Platforms = 2
    MaxReports = 2
    Slices <- mcSlices
SPECIFICATION FairSpec
CHECK_DEADLOCK FALSE
PROPERTIES DeliveriesSettle ReportsSettle
INVARIANTS ToldOneEnd SendsApart NothingLeftUntold
