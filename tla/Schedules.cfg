CONSTANTS
    Schedules = {"often", "once"}
    PipeOf <- mcPipeOf
    DueMinutes <- mcDueMinutes
    CatchUp = 4
    MaxClock = 7
    NoSchedule = "none"
SPECIFICATION SchedulesSpec
INVARIANTS RunFiresOnce
