CONSTANTS
    r1 = r1
    r2 = r2
    w1 = w1
    w2 = w2
    pipe = pipe
    proj = proj
    git = git
    git2 = git2
    NoRunner = NoRunner
    NoRepository = NoRepository
    Builds = {1}
    Runners = {r1, r2}
    Workers = {w1, w2}
    Pipelines = {pipe}
    Projects = {proj}
    Repositories = {git}
    PipelineOf <- mcPipelineOf
    ProjectOf <- mcProjectOf
    BranchOf <- mcBranchOf
    RetrySteps <- mcEmpty
    DeliveryOf <- mcEmpty
    CapableOf <- mcCapableOf
    Legacy = {}
    Limits = {0}
    SlotCounts = {1}
    MaxGrants = 2
    Features = {"timeout", "crash", "lease", "cancel", "restart"}
SPECIFICATION Spec
SYMMETRY Symmetry
CHECK_DEADLOCK FALSE
INVARIANTS DispatchTypeOK AtMostOneExecution GrantOpensOwnBuild SucceededWasExecuted
PROPERTIES ImplementsTable
