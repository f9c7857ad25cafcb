CONSTANTS
    r1 = r1
    pipe = pipe
    proj = proj
    proj2 = proj2
    git = git
    NoRunner = NoRunner
    NoRepository = NoRepository
    Builds = {1, 2, 3}
    Runners = {r1}
    Pipelines = {pipe}
    Projects = {proj, proj2}
    Repositories = {git}
    PipelineOf <- mcPipelineOf
    ProjectOf <- mcProjectOf
    BranchOf <- mcBranchOf
    RetrySteps <- mcRetrySteps
    DeliveryOf <- mcNone
    CapableOf <- mcCapableOf
    Legacy = {1}
    Limits = {0, 1}
    SlotCounts = {1, 2}
    MaxGrants = 2
SPECIFICATION TableSpec
INVARIANTS TypeOK GrantBinding ApprovalRespected RetryExclusive
PROPERTIES LimitsRespected EndedStaysEnded DrainHolds EveryBuildLives
