-------------------------- MODULE RoadmapLifecycle --------------------------
(***************************************************************************)
(* A roadmap is a value: each operation of class Roadmap returns a new one *)
(* or raises.  A guard May... says when the operation returns, and the     *)
(* operator beside it what it returns.                                     *)
(*                                                                         *)
(* A roadmap is [revision, phases, tasks], phases and tasks being functions*)
(* from identifiers to                                                     *)
(*   phase: [depends, status, revision]                                    *)
(*   task:  [phase, depends, parent, contract, status, revision]           *)
(* where contract holds the acceptance and the evidence requirements (both *)
(* are checked alike) and parent is a set of at most one task.             *)
(***************************************************************************)
EXTENDS Naturals, FiniteSets

PhaseStatus == {"planned", "active", "paused", "completed", "archived"}
TaskStatus  == {"planned", "active", "blocked", "completed", "archived"}

PhaseTransitions ==
    [planned   |-> {"active", "archived"},
     active    |-> {"paused", "completed"},
     paused    |-> {"active", "archived"},
     completed |-> {"archived"},
     archived  |-> {}]

TaskTransitions ==
    [planned   |-> {"active", "blocked", "archived"},
     active    |-> {"completed", "blocked", "archived"},
     blocked   |-> {"planned", "archived"},
     completed |-> {"archived"},
     archived  |-> {}]

---------------------------------------------------------------------------
(* The fields of a task, of a phase and of a roadmap. *)
IsTask(t) ==
    /\ t = [phase |-> t.phase, depends |-> t.depends, parent |-> t.parent,
            contract |-> t.contract, status |-> t.status, revision |-> t.revision]
    /\ t.status \in TaskStatus /\ t.revision \in Nat

IsPhase(p) ==
    /\ p = [depends |-> p.depends, status |-> p.status, revision |-> p.revision]
    /\ p.status \in PhaseStatus /\ p.revision \in Nat

IsRoadmap(r) ==
    /\ r = [revision |-> r.revision, phases |-> r.phases, tasks |-> r.tasks]
    /\ r.revision \in Nat
    /\ \A p \in DOMAIN r.phases : IsPhase(r.phases[p])
    /\ \A t \in DOMAIN r.tasks : IsTask(r.tasks[t])

(* The depth-first search of _assert_acyclic raises iff some nodes depend  *)
(* on one another in a circle.                                             *)
Acyclic(objects) ==
    ~ \E S \in (SUBSET DOMAIN objects) \ {{}} :
          \A o \in S : objects[o].depends \cap S # {}

(* What the constructor accepts. *)
WellFormed(r) ==
    /\ \A p \in DOMAIN r.phases : r.phases[p].depends \subseteq DOMAIN r.phases
    /\ \A t \in DOMAIN r.tasks :
          /\ r.tasks[t].phase \in DOMAIN r.phases
          /\ r.tasks[t].parent \subseteq DOMAIN r.tasks \ {t}
          /\ r.tasks[t].depends \subseteq DOMAIN r.tasks
          /\ r.tasks[t].contract # {}
    /\ Acyclic(r.phases)
    /\ Acyclic(r.tasks)

TasksIn(r, status)  == {t \in DOMAIN r.tasks : r.tasks[t].status = status}
PhasesIn(r, status) == {p \in DOMAIN r.phases : r.phases[p].status = status}

Waits(r, t) ==
    \/ r.tasks[t].phase \notin PhasesIn(r, "active")
    \/ ~ r.tasks[t].depends \subseteq TasksIn(r, "completed")

ready_tasks(r)   == {t \in TasksIn(r, "planned") : ~ Waits(r, t)}
blocked_tasks(r) ==
    {t \in TasksIn(r, "planned") \cup TasksIn(r, "blocked") : Waits(r, t)}

(* DependencyGraph.build has a rule of its own for what may start. *)
MissingDependencies(r, t) == r.tasks[t].depends \ TasksIn(r, "completed")
(* Mutant: the phase of the task is not looked at. *)
GraphEligibleAnyPhase(r) ==
    {t \in TasksIn(r, "planned") : MissingDependencies(r, t) = {}}

GraphEligible(r) ==
    {t \in DOMAIN r.tasks :
        /\ r.tasks[t].status = "planned"
        /\ r.phases[r.tasks[t].phase].status = "active"
        /\ MissingDependencies(r, t) = {}}

---------------------------------------------------------------------------
(* New tasks are a function from identifiers to tasks. *)
WithTasks(r, new) ==
    [r EXCEPT !.tasks = [t \in DOMAIN r.tasks \cup DOMAIN new |->
                            IF t \in DOMAIN r.tasks THEN r.tasks[t] ELSE new[t]],
              !.revision = @ + 1]

MayAddTasks(r, new) ==
    /\ DOMAIN new # {}
    /\ DOMAIN new \cap DOMAIN r.tasks = {}
    /\ WellFormed(WithTasks(r, new))

(* Mutant: the parent's requirements are not asked of the children. *)
MayAddLighterTasks(r, parent, new) ==
    /\ parent \in DOMAIN r.tasks
    /\ \A c \in DOMAIN new :
          new[c].parent = {parent} /\ new[c].phase = r.tasks[parent].phase
    /\ MayAddTasks(r, new)

(* The checks of add_child_tasks before those of the constructor. *)
MayAddChildTasks(r, parent, new) ==
    /\ parent \in DOMAIN r.tasks
    /\ \A c \in DOMAIN new :
          /\ new[c].parent = {parent}
          /\ new[c].phase = r.tasks[parent].phase
          /\ r.tasks[parent].contract \subseteq new[c].contract
    /\ MayAddTasks(r, new)

(* expected is the revision of the phase the request was written against. *)
MayTransitionPhase(r, p, status, expected) ==
    /\ p \in DOMAIN r.phases
    /\ r.phases[p].revision = expected
    /\ status \in PhaseTransitions[r.phases[p].status]
    /\ status = "active" => r.phases[p].depends \subseteq PhasesIn(r, "completed")

transition_phase(r, p, status) ==
    [r EXCEPT !.phases[p].status = status,
              !.phases[p].revision = @ + 1,
              !.revision = @ + 1]

(* Mutant: a task may start before what it depends on is completed. *)
MayStartEarly(r, t, status, expected, evidence) ==
    /\ t \in DOMAIN r.tasks
    /\ r.tasks[t].revision = expected
    /\ status \in TaskTransitions[r.tasks[t].status]
    /\ status = "completed" => evidence # {}

MayTransitionTask(r, t, status, expected, evidence) ==
    /\ t \in DOMAIN r.tasks
    /\ r.tasks[t].revision = expected
    /\ status \in TaskTransitions[r.tasks[t].status]
    /\ status = "active" => t \in ready_tasks(r)
    /\ status = "completed" => evidence # {}

transition_task(r, t, status) ==
    [r EXCEPT !.tasks[t].status = status,
              !.tasks[t].revision = @ + 1,
              !.revision = @ + 1]

---------------------------------------------------------------------------
(* BoundedChildTaskGenerator.generate: what of the model's answer passes.  *)
(* namespace holds the identifiers that start with the parent's and a dot. *)
ValidChildren(r, parent, new, namespace, maxChildren) ==
    /\ Cardinality(DOMAIN new) \in 1..maxChildren
    /\ DOMAIN new \subseteq namespace
    /\ \A c \in DOMAIN new : new[c].depends \subseteq DOMAIN r.tasks \cup DOMAIN new
    /\ MayAddChildTasks(r, parent, new)

(* EvidenceAwareTaskSelector.select: what is eligible, when current are the *)
(* tasks with verified evidence recorded for this revision of the roadmap   *)
(* and scored those whose advisory score, if any, is a finite number.       *)
Eligible(r, current, scored) ==
    {t \in ready_tasks(r) : t \in scored /\ r.tasks[t].depends \subseteq current}
=============================================================================
