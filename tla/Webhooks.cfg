CONSTANTS
    r1 = r1
    git = git
    proj = proj
    push = push
    h1 = h1
    h2 = h2
    NoRunner = NoRunner
    NoRepository = NoRepository
    NoDelivery = NoDelivery
    Builds = {1, 2, 3, 4, 5}
    Runners = {r1}
    Pipelines = {"any", "rel"}
    Projects = {proj}
    Repositories = {git}
    PipelineOf <- mcPipelineOf
    ProjectOf <- mcProjectOf
    BranchOf <- mcBranchOf
    RetrySteps <- mcNone
    DeliveryOf <- mcDeliveryOf
    CapableOf <- mcCapableOf
    Legacy = {}
    Limits = {0}
    SlotCounts = {1}
    MaxGrants = 0
    Deliveries = {push}
    Receivers = {h1, h2}
    RepoOf <- mcRepoOf
    WorkflowOf <- mcWorkflowOf
    LinkOf <- mcLinkOf
    FileOf <- mcFileOf
    Matching <- mcMatching
    Holds = {FALSE}
    Cancels = {FALSE}
    MaxAttempts = 2
    MaxRestarts = 1
SPECIFICATION InboxSpec
INVARIANTS ProcessedReachedAll OneBuildPerDelivery
PROPERTIES SettledStaysSettled ReceivedSettles
