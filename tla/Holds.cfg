CONSTANTS
    r1 = r1
    r2 = r2
    w1 = w1
    w2 = w2
    pipe = pipe
    proj = proj
    git = git
    git2 = git2
    NoRunner = NoRunner
    NoRepository = NoRepository
    Builds = {1, 2}
    Runners = {r1}
    Workers = {w1}
    Pipelines = {pipe}
    Projects = {proj}
    Repositories = {git, git2}
    PipelineOf <- mcPipelineOf
    ProjectOf <- mcProjectOf
    BranchOf <- mcBranchOf
    RetrySteps <- mcEmpty
    DeliveryOf <- mcEmpty
    CapableOf <- mcCapableOf
    Legacy = {1}
    Limits = {0}
    SlotCounts = {1}
    MaxGrants = 2
    Features = {"approval", "lease", "incident", "source", "supersede"}
SPECIFICATION Spec
SYMMETRY Symmetry
CHECK_DEADLOCK FALSE
PROPERTIES ImplementsTable
