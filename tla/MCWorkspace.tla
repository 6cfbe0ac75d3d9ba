----------------------------- MODULE MCWorkspace -----------------------------
(* The workspace services beside the chat bridge, in one run.  They share no  *)
(* state: each has its own database, file or repository.  So their product    *)
(* has nothing to show that their sum does not, and part names the component  *)
(* that acts in a behaviour, while the others rest.                           *)
EXTENDS RoadmapPlanner, CostScheduler, ComputerControl, FailureRecovery,
        ProviderRouting, MemoryLifecycle, ProjectSync, ChatAdapter,
        BranchCleanup, AcceptanceRun, ProjectPaging, TLC

CONSTANTS
    p1, p2,   \* two of whatever acts at once: clients, agents, workers, ...
    Parts     \* the components this run is about

VARIABLE part

Both == Permutations({p1, p2})

(* Roadmap: two phases, a task at work and one that waits for it; an issue   *)
(* to take in; an answer with one child that may be sound, wait for a task,  *)
(* wait for itself, or drop the parent's requirement.                        *)
PlannedTask(depends, parent, contract) ==
    [phase |-> "P1", depends |-> depends, parent |-> parent, contract |-> contract,
     status |-> "planned", revision |-> 0]
MCRoadmap ==
    [revision |-> 0,
     phases |-> [P1 |-> [depends |-> {}, status |-> "active", revision |-> 0],
                 P2 |-> [depends |-> {"P1"}, status |-> "planned", revision |-> 0]],
     tasks |-> [T1 |-> [PlannedTask({}, {}, {"accept"}) EXCEPT !.status = "active"],
                T2 |-> PlannedTask({"T1"}, {}, {"accept"})]]
MCIssues == {[GH1 |-> PlannedTask({}, {}, {"issue"})]}
MCChildAnswers ==
    {[parent |-> "T1", children |-> [C1 |-> PlannedTask(c[1], {"T1"}, c[2])]] :
        c \in {<<{}, {"accept"}>>, <<{"T2"}, {"accept"}>>, <<{"C1"}, {"accept"}>>,
               <<{}, {"other"}>>}}
MCNamespace ==
    [t \in {"T1", "T2", "C1", "GH1"} |-> IF t = "T1" THEN {"C1"} ELSE {}]

(* Scheduling: two tasks fit together or not, and it is the processor that   *)
(* runs out, the memory or the time, by their estimates and the capacity.    *)
Amount(c, m, t) == [cpu |-> c, memory |-> m, time |-> t]
MCEstimates == {Amount(1, 2, 2), Amount(2, 1, 1)}
MCCapacities == {Amount(2, 3, 3), Amount(3, 4, 4)}

(* Computer control: a read that needs no approval and a command that does. *)
MCCapabilities ==
    [read |-> [effect |-> "read", authorization |-> "none"],
     terminal |-> [effect |-> "write", authorization |-> "approval"]]
MCInScope == {<<"read", "file">>, <<"terminal", "file">>}

(* Recovery: a failure to retry, one to wait for, one that needs a person. *)
MCFailures ==
    {[code |-> "slow", family |-> "timeout"],
     [code |-> "usage_limit", family |-> "provider"],
     [code |-> "denied", family |-> "auth"]}

(* Providers: both satisfy the requirement, the second is preferred. *)
MCCatalogue ==
    [p \in Providers |-> [capabilities |-> {"code", "json"}, context |-> 2, output |-> 1]]
MCRequirements == {[capabilities |-> {"json"}, context |-> 2, output |-> 1]}
MCPreferences == {[p \in Providers |-> IF p = 2 THEN 1 ELSE 0]}

(* Memory: two contents, nothing to normalise; one lesson to learn from two *)
(* memories, which must be more trusted than they are at first.             *)
MCNormalized == [c \in Contents |-> c]
MCProposals ==
    {[id |-> 9, sources |-> {1, 2}, scope |-> "run", content |-> "wal", minimum |-> 2]}

(* Branches: x, a snapshot of it, and a snapshot whose sibling is gone; any  *)
(* of them may be contained in another, and x or its snapshot be merged.     *)
MCBranchNames == <<"main", "x", "x-v2", "y-v2">>
MCCanonical == [b \in {"x-v2", "y-v2"} |-> IF b = "x-v2" THEN "x" ELSE "y"]
MCNameLength == [b \in Branches |-> IF b = "x" THEN 1 ELSE 4]
TipsOf(a, b, c) == [main |-> {}, x |-> a] @@ ("x-v2" :> b) @@ ("y-v2" :> c)
MCRepositories ==
    {[refs |-> TipsOf({1}, b, c), open |-> {}, merged |-> m] :
        b \in SUBSET {1, 2}, c \in {{1}, {2}, {1, 2}},
        m \in {{}, {<<"x", {1}>>}, {<<"x-v2", {2}>>}}}
      \cup {[refs |-> TipsOf({1, 2}, {1}, {1, 2}), open |-> {"x"}, merged |-> {}]}

(* Acceptance run: two tasks in one issue and a third in the next. *)
MCPhases == <<"P0", "P1">>
MCTasksOf == <<<<"t1", "t2">>, <<"t3">>>>

(* A component with several initial states rests in one of them. *)
SomeRepository == CHOOSE r \in Repositories : TRUE
IdleCall ==
    [estimate |-> [t \in ReadyTasks |-> NoEstimate],
     priority |-> [t \in ReadyTasks |-> CHOOSE p \in Priorities : TRUE],
     capacity |-> CHOOSE c \in Capacities : TRUE]

WorkspaceInit ==
    /\ part \in Parts
    /\ RoadmapInit /\ ControlInit /\ RecoveryInit /\ RouteInit /\ MemoryInit
    /\ SyncInit /\ ChatInit /\ AcceptanceInit
    /\ ScheduleInit /\ (part # "schedule" => given = IdleCall)
    /\ CleanupInit /\ (part # "cleanup" => refs = SomeRepository.refs
                                           /\ pulls.merged = SomeRepository.merged)
    /\ PagingInit /\ (part # "paging" => size = [fields |-> 1, items |-> 1])

(* Two components are summed further.  Calls look at few probes, those of   *)
(* the preferred provider, and long histories of probes have no calls.  The *)
(* memory is compacted in some behaviours and learned from in others, and   *)
(* one record of it is updated more than once.                              *)
RoutingStep ==
    /\ RouteNext
    /\ probes'[1] = <<>>
    /\ Len(probes'[2]) <= FailureThreshold
HealthStep ==
    /\ RouteNext
    /\ UNCHANGED <<registered, decisions, selection, answers>>
    /\ \A r \in Routers : router'[r].stage \in {"free", "probing"}
FewUpdates == Cardinality({m \in MemoryIds : acknowledged[m] > 1}) <= 1
CompactionStep ==
    /\ MemoryNext /\ FewUpdates'
    /\ \A k \in Keepers : keeper'[k].stage # "sources"
LearningStep ==
    /\ MemoryNext /\ FewUpdates'
    /\ plans' = {}

WorkspaceNext ==
    /\ UNCHANGED part
    /\ part # "roadmap" => UNCHANGED roadmapVars
    /\ part # "schedule" => UNCHANGED scheduleVars
    /\ part # "control" => UNCHANGED controlVars
    /\ part # "recovery" => UNCHANGED recoveryVars
    /\ part \notin {"routing", "health"} => UNCHANGED routeVars
    /\ part \notin {"memory", "learning"} => UNCHANGED memoryVars
    /\ part # "sync" => UNCHANGED syncVars
    /\ part # "chat" => UNCHANGED chatVars
    /\ part # "cleanup" => UNCHANGED cleanupVars
    /\ part # "acceptance" => UNCHANGED acceptanceVars
    /\ part # "paging" => UNCHANGED pagingVars
    /\ CASE part = "roadmap" -> RoadmapNext
         [] part = "schedule" -> ScheduleNext
         [] part = "control" -> ControlNext
         [] part = "recovery" -> RecoveryNext
         [] part = "routing" -> RoutingStep
         [] part = "health" -> HealthStep
         [] part = "memory" -> CompactionStep
         [] part = "learning" -> LearningStep
         [] part = "sync" -> SyncNext
         [] part = "chat" -> ChatNext
         [] part = "cleanup" -> CleanupNext
         [] part = "acceptance" -> AcceptanceNext
         [] part = "paging" -> PagingNext

WorkspaceVars ==
    <<part, roadmapVars, scheduleVars, controlVars, recoveryVars, routeVars,
      memoryVars, syncVars, chatVars, cleanupVars, acceptanceVars, pagingVars>>

WorkspaceSpec == WorkspaceInit /\ [][WorkspaceNext]_WorkspaceVars

(* Every component's type invariant. *)
WorkspaceTypeOK ==
    /\ RoadmapTypeOK /\ ScheduleTypeOK /\ ControlTypeOK /\ RecoveryTypeOK
    /\ RouteTypeOK /\ MemoryTypeOK /\ SyncTypeOK /\ ChatTypeOK
    /\ CleanupTypeOK /\ AcceptanceTypeOK /\ PagingTypeOK
=============================================================================
