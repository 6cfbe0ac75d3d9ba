--------------------------- MODULE RoadmapPlanner ---------------------------
(***************************************************************************)
(* The requests that change or read the stored roadmap.  Each reads the    *)
(* row, works on its own copy, and writes the whole roadmap back under the *)
(* revision it read; SQLite makes each statement atomic and nothing more.  *)
(***************************************************************************)
EXTENDS RoadmapLifecycle

CONSTANTS
    Clients,          \* requests served at a time
    InitialRoadmap,   \* the roadmap that was created
    Issues,           \* tasks that intake.parse makes of GitHub issues
    ChildAnswers,     \* what the model may answer: [parent, children]
    Namespace,        \* task |-> identifiers that begin with its own and a dot
    MaxChildren,      \* max_children
    EvidenceRefs,     \* references a request may give
    Asked,            \* bound: the statuses that requests ask for
    MaxRoadmapRevision, \* bound: no roadmap is saved beyond it
    MaxDecisions      \* bound on the revisions a selection is recorded for

(* The seed a store is created from, roadmap/frontend-v4.json, is well      *)
(* formed, has no child tasks, and what it calls started waits for nothing. *)
(* What comes from an issue or from the model is planned, at revision 0.    *)
Planned(new) == \A t \in DOMAIN new : IsTask(new[t]) /\ new[t].status = "planned"

ASSUME InitialRoadmapAssumption ==
    LET r == InitialRoadmap IN
    /\ IsRoadmap(r) /\ WellFormed(r)
    /\ \A t \in DOMAIN r.tasks :
          /\ r.tasks[t].parent = {}
          /\ r.tasks[t].status \in {"active", "completed"} =>
                r.tasks[t].depends \subseteq TasksIn(r, "completed")
    /\ \A p \in DOMAIN r.phases :
          r.phases[p].status \in {"active", "paused", "completed"} =>
              r.phases[p].depends \subseteq PhasesIn(r, "completed")

ASSUME NewTasksAssumption ==
    /\ MaxRoadmapRevision \in Nat /\ InitialRoadmap.revision <= MaxRoadmapRevision
    /\ \A issue \in Issues : Planned(issue) /\ \A t \in DOMAIN issue : issue[t].parent = {}
    /\ \A answer \in ChildAnswers : Planned(answer.children)

VARIABLES
    roadmap,      \* the row of the roadmap table
    selections,   \* task_selection: the latest decision for each revision
    requests,     \* what each request holds between two statements
    \* history, read by no action:
    finished      \* tasks and phases that were completed at some time

roadmapVars == <<roadmap, selections, requests, finished>>

NoRequest == [stage |-> "none"]
Revisions == InitialRoadmap.revision..MaxRoadmapRevision

RoadmapInit ==
    /\ roadmap = InitialRoadmap
    /\ selections = <<>>
    /\ requests = [c \in Clients |-> NoRequest]
    /\ finished = [tasks |-> TasksIn(roadmap, "completed"),
                    phases |-> PhasesIn(roadmap, "completed")]

(* get() and the transition of the copy; a request that is refused changes *)
(* nothing and is no step.                                                  *)
Hold(c, copy) ==
    /\ requests[c].stage = "none"
    /\ roadmap.revision < MaxRoadmapRevision
    /\ requests' = [requests EXCEPT ![c] = [stage |-> "save", copy |-> copy]]
    /\ UNCHANGED <<roadmap, selections, finished>>

RequestPhase(c, p, status, expected) ==
    /\ MayTransitionPhase(roadmap, p, status, expected)
    /\ Hold(c, transition_phase(roadmap, p, status))

RequestTask(c, t, status, expected, evidence) ==
    /\ MayTransitionTask(roadmap, t, status, expected, evidence)
    /\ Hold(c, transition_task(roadmap, t, status))

(* intake.apply: the task's phase exists and its identifier is new. *)
ApplyIssue(c, issue) ==
    /\ MayAddTasks(roadmap, issue)
    /\ Hold(c, WithTasks(roadmap, issue))

(* generate() asks the model about the roadmap it was given and hands the  *)
(* children back; the caller adds them to the roadmap as it is by then.    *)
Generate(c, answer) ==
    /\ requests[c].stage = "none"
    /\ roadmap.revision < MaxRoadmapRevision
    /\ answer.parent \in DOMAIN roadmap.tasks
    /\ ValidChildren(roadmap, answer.parent, answer.children,
                     Namespace[answer.parent], MaxChildren)
    /\ requests' = [requests EXCEPT ![c] = [stage |-> "children", answer |-> answer]]
    /\ UNCHANGED <<roadmap, selections, finished>>

AddChildren(c) ==
    /\ requests[c].stage = "children"
    /\ roadmap.revision < MaxRoadmapRevision
    /\ LET new == requests[c].answer.children
       IN  requests' = [requests EXCEPT ![c] =
              IF MayAddChildTasks(roadmap, requests[c].answer.parent, new)
              THEN [stage |-> "save", copy |-> WithTasks(roadmap, new)]
              ELSE NoRequest]
    /\ UNCHANGED <<roadmap, selections, finished>>

(* save(): UPDATE ... WHERE revision = expected. *)
MaySaveBlind(copy) == TRUE   \* mutant: the row is overwritten whatever it is
MaySave(copy) == roadmap.revision = copy.revision - 1

Save(c) ==
    /\ requests[c].stage = "save"
    /\ LET copy == requests[c].copy
       IN  IF MaySave(copy)
           THEN /\ roadmap' = copy
                /\ finished' = [tasks |-> finished.tasks \cup TasksIn(copy, "completed"),
                                phases |-> finished.phases \cup PhasesIn(copy, "completed")]
           ELSE UNCHANGED <<roadmap, finished>>
    /\ requests' = [requests EXCEPT ![c] = NoRequest]
    /\ UNCHANGED selections

---------------------------------------------------------------------------
(* A decision is made about the roadmap that was read and recorded under    *)
(* its revision.  Any eligible task can have the best score.                *)
Select(c, eligible) ==
    /\ requests[c].stage = "none"
    /\ Cardinality(DOMAIN selections) < MaxDecisions
    /\ \E t \in IF eligible = {} THEN {{}} ELSE {{e} : e \in eligible} :
          requests' = [requests EXCEPT ![c] =
             [stage |-> "record", revision |-> roadmap.revision, selected |-> t]]
    /\ UNCHANGED <<roadmap, selections, finished>>

RecordSelection(c) ==
    /\ requests[c].stage = "record"
    /\ selections' = [v \in DOMAIN selections \cup {requests[c].revision} |->
                         IF v = requests[c].revision THEN requests[c].selected
                         ELSE selections[v]]
    /\ requests' = [requests EXCEPT ![c] = NoRequest]
    /\ UNCHANGED <<roadmap, finished>>

(* GET /v1/planner/selection: the roadmap, then the latest decision for its *)
(* revision.                                                                *)
ReadForSelection(c) ==
    /\ requests[c].stage = "none"
    /\ requests' = [requests EXCEPT ![c] = [stage |-> "serve", copy |-> roadmap]]
    /\ UNCHANGED <<roadmap, selections, finished>>

(* Mutant: any recorded decision is served. *)
ServedOutdated(r) == UNION {selections[v] : v \in DOMAIN selections}

Served(r) ==
    IF r.revision \in DOMAIN selections THEN selections[r.revision] ELSE {}

ServeSelection(c) ==
    /\ requests[c].stage = "serve"
    /\ requests' = [requests EXCEPT ![c] = NoRequest]
    /\ UNCHANGED <<roadmap, selections, finished>>

RoadmapNext == \E c \in Clients :
    \/ \E p \in DOMAIN roadmap.phases, s \in Asked \cap PhaseStatus, v \in Revisions :
          RequestPhase(c, p, s, v)
    \/ \E t \in DOMAIN roadmap.tasks, s \in Asked \cap TaskStatus, v \in Revisions,
          e \in SUBSET EvidenceRefs : RequestTask(c, t, s, v, e)
    \/ \E issue \in Issues : ApplyIssue(c, issue)
    \/ \E a \in ChildAnswers : Generate(c, a)
    \/ AddChildren(c)
    \/ Save(c)
    \/ \E e \in {Eligible(roadmap, current, scored) :
                    current, scored \in SUBSET DOMAIN roadmap.tasks} : Select(c, e)
    \/ RecordSelection(c)
    \/ ReadForSelection(c)
    \/ ServeSelection(c)

RoadmapSpec == RoadmapInit /\ [][RoadmapNext]_roadmapVars

---------------------------------------------------------------------------
RoadmapTypeOK ==
    /\ WellFormed(roadmap)
    /\ roadmap.revision \in Revisions
    /\ DOMAIN selections \subseteq Revisions
    /\ \A t \in DOMAIN roadmap.tasks : roadmap.tasks[t].status \in TaskStatus
    /\ \A p \in DOMAIN roadmap.phases : roadmap.phases[p].status \in PhaseStatus

(* Each object stays, unchanged or one step further and one revision on.   *)
MovedOn(objects, later, transitions) ==
    \A o \in DOMAIN objects :
        /\ o \in DOMAIN later
        /\ \/ later[o] = objects[o]
           \/ /\ later[o].revision = objects[o].revision + 1
              /\ later[o].status \in transitions[objects[o].status]

(* No request undoes what another one saved by writing back an older copy   *)
(* of the roadmap: whatever was stored stays, and moves one step of its     *)
(* lifecycle and one revision at a time (SQLiteRoadmapStore.save).          *)
NoChangeUndone ==
    [][/\ MovedOn(roadmap.tasks, roadmap'.tasks, TaskTransitions)
       /\ MovedOn(roadmap.phases, roadmap'.phases, PhaseTransitions)]_roadmapVars

(* Whatever requests interleave, a task is active or completed only if all  *)
(* it depends on was completed at some time, and likewise a phase that was  *)
(* started (transition_task and transition_phase check a copy).             *)
StartedWorkIsJustified ==
    /\ \A t \in TasksIn(roadmap, "active") \cup TasksIn(roadmap, "completed") :
          roadmap.tasks[t].depends \subseteq finished.tasks
    /\ \A p \in DOMAIN roadmap.phases :
          roadmap.phases[p].status \in {"active", "paused", "completed"} =>
              roadmap.phases[p].depends \subseteq finished.phases

(* A generated child keeps the phase and at least the requirements of its   *)
(* parent, also when the roadmap moved between its proposal and the save.   *)
ChildrenKeepContract ==
    \A t \in DOMAIN roadmap.tasks : \A p \in roadmap.tasks[t].parent :
        /\ roadmap.tasks[t].phase = roadmap.tasks[p].phase
        /\ roadmap.tasks[p].contract \subseteq roadmap.tasks[t].contract

(* A selection served as current names a task that is ready in the roadmap  *)
(* it is served for: no two roadmaps are stored under the revision that     *)
(* decisions are keyed by.                                                  *)
ServedSelectionIsReady ==
    \A c \in Clients : requests[c].stage = "serve" =>
        Served(requests[c].copy) \subseteq ready_tasks(requests[c].copy)

(* What the dependency graph in the planner's answers calls eligible is      *)
(* exactly what a request may start, by the rules of another class, and none *)
(* of it is among the tasks the planner reports blocked.                     *)
GraphTellsWhatMayStart ==
    /\ GraphEligible(roadmap) =
         {t \in DOMAIN roadmap.tasks :
             MayTransitionTask(roadmap, t, "active", roadmap.tasks[t].revision, {})}
    /\ GraphEligible(roadmap) \cap blocked_tasks(roadmap) = {}
=============================================================================
