CONSTANTS
    r1 = r1
    r2 = r2
    w1 = w1
    w2 = w2
    pipe = pipe
    proj = proj
    git = git
    git2 = git2
    NoRunner = NoRunner
    NoRepository = NoRepository
    Builds = {1, 2}
    Runners = {r1}
    Workers = {w1}
    Pipelines = {pipe}
    Projects = {proj}
    Repositories = {git}
    PipelineOf <- mcPipelineOf
    ProjectOf <- mcProjectOf
    BranchOf <- mcBranchOf
    RetrySteps <- mcEmpty
    DeliveryOf <- mcEmpty
    CapableOf <- mcCapableOf
    Legacy = {}
    Limits = {1, 2}
    SlotCounts = {1}
    MaxGrants = 3
    Features = {"lease", "overdue", "limits", "retention", "pause", "barrier"}
SPECIFICATION FairSpec
CHECK_DEADLOCK FALSE
PROPERTIES QueuedBuildsEnd
