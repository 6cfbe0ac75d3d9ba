SPECIFICATION WorkspaceSpec
CONSTANTS
    p1 = p1
    p2 = p2
    Parts = {"roadmap", "schedule", "control", "recovery", "routing", "health",
             "memory", "learning", "sync", "chat", "cleanup", "acceptance", "paging"}
    Clients = {p1, p2}
    InitialRoadmap <- MCRoadmap
    Issues <- MCIssues
    ChildAnswers <- MCChildAnswers
    Namespace <- MCNamespace
    MaxChildren = 1
    EvidenceRefs = {"ref"}
    Asked = {"planned", "active", "completed", "archived", "paused", "blocked"}
    MaxRoadmapRevision = 2
    MaxDecisions = 1
    ReadyTasks = {1, 2, 3}
    Estimates <- MCEstimates
    Capacities <- MCCapacities
    Priorities = {0, 1}
    Agents = {p1, p2}
    ControlOperations = {"op1"}
    Capabilities <- MCCapabilities
    Terminal = "terminal"
    Targets = {"file", "outside"}
    InScope <- MCInScope
    ApprovalIds = {"A1"}
    NoApproval = NoApproval
    MaxEffects = 2
    Workers = {p1, p2}
    Failures <- MCFailures
    Overrides = {3}
    NoOverride = NoOverride
    MaxFailures = 3
    HostActions = {2, 4}
    Routers = {p1, p2}
    Providers = {1, 2}
    Catalogue <- MCCatalogue
    Requirements <- MCRequirements
    Preferences <- MCPreferences
    RouteOperations = {"op1", "op2"}
    RouteKeys = {"k1"}
    Exclusions = {{}, {1}}
    MaxFailovers = 1
    FailureThreshold = 2
    MaxSnapshots = 1
    MaxProbes = 4
    MaxCalls = 2
    NoDecision = NoDecision
    Keepers = {p1, p2}
    MemoryIds = {1, 2, 9}
    Scopes = {"run"}
    Contents = {"wal", "other"}
    Normalized <- MCNormalized
    Refs = {"r1", "r2"}
    Changes = {"refs", "content", "confidence", "archive"}
    Proposals <- MCProposals
    MaxRevision = 2
    MaxPlans = 1
    Absent = Absent
    Syncers = {p1, p2}
    ProjectIssues = {"I1"}
    Draft = "draft"
    PageSize = 2
    MaxRemote = 3
    MaxItems = 3
    Unknown = Unknown
    ChatSessions = {p1, p2}
    Prompts = {"p"}
    NewChat = "new_chat"
    MaxChatOps = 2
    ReadAttempts = 2
    ObservationAttempts = 2
    RecheckAttempts = 2
    NoObservation = 0
    BranchNames <- MCBranchNames
    Default = "main"
    Canonical <- MCCanonical
    NameLength <- MCNameLength
    Kept = {}
    Work = {1, 2, 3}
    Repositories <- MCRepositories
    MaxMoves = 1
    Phases <- MCPhases
    TasksOf <- MCTasksOf
    RunBranches = {"b1", "b2"}
    MaxRuns = 2
    MaxEdits = 1
    MaxCommits = 2
    NoBranch = NoBranch
    MaxPages = 3
INVARIANTS
    WorkspaceTypeOK
    StartedWorkIsJustified
    ChildrenKeepContract
    ServedSelectionIsReady
    GraphTellsWhatMayStart
    ScheduleIsGreedy
    OneEffectPerApproval
    AuditTellsWhatRan
    OccurrencesCounted
    RepairStaysInBudget
    KeyAnswersAgree
    FreshSelectionIsBest
    UnavailableIsEarned
    NoUpdateLost
    QuietCompactionIsLossless
    LearningIsBacked
    QuietRefreshIsComplete
    ResponseIsOfItsOperation
    CleanupKeepsListedWork
    TickedWorkIsPushed
PROPERTY
    NoChangeUndone
SYMMETRY Both
CHECK_DEADLOCK FALSE
