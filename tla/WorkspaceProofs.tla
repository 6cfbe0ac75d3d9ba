--------------------------- MODULE WorkspaceProofs ---------------------------
(***************************************************************************)
(* The services beside the chat bridge, together: each of them runs in the *)
(* workspace as it does alone, so all of their theorems hold there.  And   *)
(* the theorems about the planner, for every seed, every issue and answer  *)
(* of the model and any number of requests that each work on a copy of     *)
(* their own, and about the scheduler, for every set of tasks, estimates   *)
(* and capacities.                                                         *)
(***************************************************************************)
EXTENDS MCWorkspace, EffectProofs, StoreProofs

(***************************************************************************)
(* The roadmap.  The store compares revisions and nothing else, so the     *)
(* argument is about revisions: a copy that may still be saved was made    *)
(* from the roadmap that is stored, and so is one step ahead of it.        *)
(***************************************************************************)
Started == {"active", "completed"}
Begun   == {"active", "paused", "completed"}

(* What a request may make of the roadmap it read. *)
OneStep(r, next) ==
  /\ next.revision = r.revision + 1
  /\ IsRoadmap(next) /\ WellFormed(next)
  /\ MovedOn(r.tasks, next.tasks, TaskTransitions)
  /\ MovedOn(r.phases, next.phases, PhaseTransitions)
  /\ \A t \in DOMAIN next.tasks : next.tasks[t].status \in Started =>
       \/ t \in DOMAIN r.tasks /\ r.tasks[t].status \in Started
       \/ next.tasks[t].depends \subseteq TasksIn(r, "completed")
  /\ \A p \in DOMAIN next.phases :
       /\ p \in DOMAIN r.phases /\ next.phases[p].depends = r.phases[p].depends
       /\ next.phases[p].status \in Begun =>
            \/ r.phases[p].status \in Begun
            \/ next.phases[p].depends \subseteq PhasesIn(r, "completed")
  /\ \A t \in DOMAIN r.tasks :
       /\ next.tasks[t].depends = r.tasks[t].depends
       /\ next.tasks[t].parent = r.tasks[t].parent
       /\ next.tasks[t].phase = r.tasks[t].phase
       /\ next.tasks[t].contract = r.tasks[t].contract
  /\ \A t \in DOMAIN next.tasks \ DOMAIN r.tasks : \A p \in next.tasks[t].parent :
       /\ p \in DOMAIN r.tasks
       /\ next.tasks[t].phase = r.tasks[p].phase
       /\ r.tasks[p].contract \subseteq next.tasks[t].contract

Past == InitialRoadmap.revision..roadmap.revision

(* A request at work: its copy is of the past, or of the roadmap as it is. *)
Saving(q) ==
  /\ q.stage = "save"
  /\ q.copy.revision \in Revisions /\ q.copy.revision - 1 <= roadmap.revision
  /\ MaySave(q.copy) => OneStep(roadmap, q.copy)

RecordingRequest(q) ==
  /\ q.stage = "record" /\ q.revision \in Past
  /\ q.revision = roadmap.revision => q.selected \subseteq ready_tasks(roadmap)

Serving(q) ==
  /\ q.stage = "serve" /\ q.copy.revision \in Past
  /\ q.copy.revision = roadmap.revision => q.copy = roadmap
  /\ Served(q.copy) \subseteq ready_tasks(q.copy)

RequestInv(q) ==
  \/ q.stage = "none"
  \/ q.stage = "children" /\ q.answer \in ChildAnswers
  \/ Saving(q)
  \/ RecordingRequest(q)
  \/ Serving(q)

(* What is to be recorded suits whoever is about to be served under its    *)
(* revision.                                                               *)
Suits(q, p) ==
  q.stage = "record" /\ p.stage = "serve" /\ p.copy.revision = q.revision =>
    q.selected \subseteq ready_tasks(p.copy)

StoredInv ==
  /\ IsRoadmap(roadmap) /\ WellFormed(roadmap) /\ roadmap.revision \in Revisions
  /\ TasksIn(roadmap, "completed") \subseteq finished.tasks
  /\ PhasesIn(roadmap, "completed") \subseteq finished.phases
  /\ StartedWorkIsJustified
  /\ ChildrenKeepContract

SelectionInv ==
  /\ DOMAIN selections \subseteq Past
  /\ roadmap.revision \in DOMAIN selections =>
       selections[roadmap.revision] \subseteq ready_tasks(roadmap)

RoadmapInv ==
  /\ StoredInv
  /\ SelectionInv
  /\ requests = [c \in Clients |-> requests[c]]
  /\ \A c \in Clients : RequestInv(requests[c])
  /\ \A c, d \in Clients : Suits(requests[c], requests[d])

---------------------------------------------------------------------------
(* Roadmap as a value: what each operation makes of one it accepts.        *)
LEMMA DependsDecide ==
  ASSUME NEW f, NEW g, DOMAIN f = DOMAIN g, \A o \in DOMAIN f : f[o].depends = g[o].depends,
         Acyclic(f)
  PROVE  Acyclic(g)
BY DEF Acyclic

LEMMA TaskMoves ==
  ASSUME NEW r, IsRoadmap(r), WellFormed(r), NEW t, NEW status, NEW expected, NEW backing,
         MayTransitionTask(r, t, status, expected, backing)
  PROVE  OneStep(r, transition_task(r, t, status))
<1>1. t \in DOMAIN r.tasks /\ IsTask(r.tasks[t])
  BY DEF MayTransitionTask, IsRoadmap
<1>2. PICK old : old = r.tasks[t]
  OBVIOUS
<1>3. /\ old = [phase |-> old.phase, depends |-> old.depends, parent |-> old.parent,
               contract |-> old.contract, status |-> old.status, revision |-> old.revision]
      /\ old.status \in TaskStatus /\ old.revision \in Nat
  BY <1>1, <1>2 DEF IsTask
<1>4. PICK new : new = [old EXCEPT !.status = status, !.revision = @ + 1]
  OBVIOUS
<1>5. status \in TaskTransitions[old.status] /\ status \in TaskStatus
  BY <1>2, <1>3 DEF MayTransitionTask, TaskTransitions, TaskStatus
<1>6. /\ new = [phase |-> old.phase, depends |-> old.depends, parent |-> old.parent,
               contract |-> old.contract, status |-> status, revision |-> old.revision + 1]
  BY <1>3, <1>4
<1>7. IsTask(new)
  BY <1>3, <1>5, <1>6 DEF IsTask
<1>8. PICK next : next = transition_task(r, t, status)
  OBVIOUS
<1>9. next = [revision |-> r.revision + 1, phases |-> r.phases,
              tasks |-> [r.tasks EXCEPT ![t] = new]]
  <2>1. r = [revision |-> r.revision, phases |-> r.phases, tasks |-> r.tasks]
    BY DEF IsRoadmap
  <2>2. next = [r EXCEPT !.tasks = [r.tasks EXCEPT ![t] = new], !.revision = @ + 1]
    BY <1>2, <1>4, <1>8, <2>1 DEF transition_task
  <2>3. QED
    BY <2>1, <2>2
<1>10. /\ next.revision = r.revision + 1 /\ next.phases = r.phases
       /\ DOMAIN next.tasks = DOMAIN r.tasks
       /\ \A u \in DOMAIN r.tasks : next.tasks[u] = IF u = t THEN new ELSE r.tasks[u]
  BY <1>9
<1>11. \A u \in DOMAIN r.tasks :
         /\ next.tasks[u].depends = r.tasks[u].depends
         /\ next.tasks[u].parent = r.tasks[u].parent
         /\ next.tasks[u].phase = r.tasks[u].phase
         /\ next.tasks[u].contract = r.tasks[u].contract
  BY <1>2, <1>6, <1>10
<1>12. IsRoadmap(next)
  <2>1. \A u \in DOMAIN next.tasks : IsTask(next.tasks[u])
    BY <1>7, <1>10 DEF IsRoadmap
  <2>2. \A p \in DOMAIN next.phases : IsPhase(next.phases[p])
    BY <1>10 DEF IsRoadmap
  <2>3. next.revision \in Nat
    BY <1>10 DEF IsRoadmap
  <2>4. QED
    BY <1>9, <2>1, <2>2, <2>3 DEF IsRoadmap
<1>13. WellFormed(next)
  <2>1. Acyclic(next.tasks)
    BY <1>10, <1>11, DependsDecide DEF WellFormed
  <2>2. QED
    BY <1>10, <1>11, <2>1 DEF WellFormed
<1>14. MovedOn(r.tasks, next.tasks, TaskTransitions)
  BY <1>2, <1>5, <1>6, <1>10 DEF MovedOn
<1>15. MovedOn(r.phases, next.phases, PhaseTransitions)
  BY <1>10 DEF MovedOn
<1>16. ASSUME NEW u \in DOMAIN next.tasks, next.tasks[u].status \in Started
       PROVE  \/ u \in DOMAIN r.tasks /\ r.tasks[u].status \in Started
              \/ next.tasks[u].depends \subseteq TasksIn(r, "completed")
  <2>1. CASE u # t
    BY <1>10, <1>16, <2>1
  <2>2. CASE u = t /\ status = "active"
    <3>1. t \in ready_tasks(r)
      BY <2>2 DEF MayTransitionTask
    <3>2. r.tasks[t].depends \subseteq TasksIn(r, "completed")
      BY <3>1 DEF ready_tasks, Waits
    <3>3. QED
      BY <1>10, <1>11, <2>2, <3>2
  <2>3. CASE u = t /\ status = "completed"
    BY <1>2, <1>3, <1>5, <1>10, <2>3 DEF TaskTransitions, TaskStatus, Started
  <2>4. QED
    BY <1>6, <1>10, <1>16, <2>1, <2>2, <2>3 DEF Started
<1>17. QED
  BY <1>8, <1>10, <1>11, <1>12, <1>13, <1>14, <1>15, <1>16 DEF OneStep

LEMMA PhaseMoves ==
  ASSUME NEW r, IsRoadmap(r), WellFormed(r), NEW p, NEW status, NEW expected,
         MayTransitionPhase(r, p, status, expected)
  PROVE  OneStep(r, transition_phase(r, p, status))
<1>1. p \in DOMAIN r.phases /\ IsPhase(r.phases[p])
  BY DEF MayTransitionPhase, IsRoadmap
<1>2. PICK old : old = r.phases[p]
  OBVIOUS
<1>3. /\ old = [depends |-> old.depends, status |-> old.status, revision |-> old.revision]
      /\ old.status \in PhaseStatus /\ old.revision \in Nat
  BY <1>1, <1>2 DEF IsPhase
<1>4. PICK new : new = [old EXCEPT !.status = status, !.revision = @ + 1]
  OBVIOUS
<1>5. status \in PhaseTransitions[old.status] /\ status \in PhaseStatus
  BY <1>2, <1>3 DEF MayTransitionPhase, PhaseTransitions, PhaseStatus
<1>6. new = [depends |-> old.depends, status |-> status, revision |-> old.revision + 1]
  BY <1>3, <1>4
<1>7. IsPhase(new)
  BY <1>3, <1>5, <1>6 DEF IsPhase
<1>8. PICK next : next = transition_phase(r, p, status)
  OBVIOUS
<1>9. next = [revision |-> r.revision + 1, phases |-> [r.phases EXCEPT ![p] = new],
              tasks |-> r.tasks]
  <2>1. r = [revision |-> r.revision, phases |-> r.phases, tasks |-> r.tasks]
    BY DEF IsRoadmap
  <2>2. next = [r EXCEPT !.phases = [r.phases EXCEPT ![p] = new], !.revision = @ + 1]
    BY <1>2, <1>4, <1>8, <2>1 DEF transition_phase
  <2>3. QED
    BY <2>1, <2>2
<1>10. /\ next.revision = r.revision + 1 /\ next.tasks = r.tasks
       /\ DOMAIN next.phases = DOMAIN r.phases
       /\ \A q \in DOMAIN r.phases : next.phases[q] = IF q = p THEN new ELSE r.phases[q]
  BY <1>9
<1>11. \A q \in DOMAIN r.phases : next.phases[q].depends = r.phases[q].depends
  BY <1>2, <1>6, <1>10
<1>12. IsRoadmap(next)
  <2>1. \A q \in DOMAIN next.phases : IsPhase(next.phases[q])
    BY <1>7, <1>10 DEF IsRoadmap
  <2>2. \A t \in DOMAIN next.tasks : IsTask(next.tasks[t])
    BY <1>10 DEF IsRoadmap
  <2>3. next.revision \in Nat
    BY <1>10 DEF IsRoadmap
  <2>4. QED
    BY <1>9, <2>1, <2>2, <2>3 DEF IsRoadmap
<1>13. WellFormed(next)
  <2>1. Acyclic(next.phases)
    BY <1>10, <1>11, DependsDecide DEF WellFormed
  <2>2. QED
    BY <1>10, <1>11, <2>1 DEF WellFormed
<1>14. MovedOn(r.phases, next.phases, PhaseTransitions)
  BY <1>2, <1>5, <1>6, <1>10 DEF MovedOn
<1>15. MovedOn(r.tasks, next.tasks, TaskTransitions)
  BY <1>10 DEF MovedOn
<1>16. ASSUME NEW q \in DOMAIN next.phases, next.phases[q].status \in Begun
       PROVE  \/ r.phases[q].status \in Begun
              \/ next.phases[q].depends \subseteq PhasesIn(r, "completed")
  <2>1. CASE q # p
    BY <1>10, <1>16, <2>1
  <2>2. CASE q = p /\ status = "active"
    BY <1>10, <1>11, <2>2 DEF MayTransitionPhase
  <2>3. CASE q = p /\ status \in {"paused", "completed"}
    BY <1>2, <1>3, <1>5, <1>10, <2>3 DEF PhaseTransitions, PhaseStatus, Begun
  <2>4. QED
    BY <1>6, <1>10, <1>16, <2>1, <2>2, <2>3 DEF Begun
<1>17. QED
  BY <1>8, <1>10, <1>11, <1>12, <1>13, <1>14, <1>15, <1>16 DEF OneStep

(* New tasks are planned, and the children among them keep their contract. *)
LEMMA TasksJoin ==
  ASSUME NEW r, IsRoadmap(r), WellFormed(r), NEW new, Planned(new), MayAddTasks(r, new),
         \A t \in DOMAIN new : \A p \in new[t].parent :
           /\ p \in DOMAIN r.tasks /\ new[t].phase = r.tasks[p].phase
           /\ r.tasks[p].contract \subseteq new[t].contract
  PROVE  OneStep(r, WithTasks(r, new))
<1>1. PICK next : next = WithTasks(r, new)
  OBVIOUS
<1>2. next = [revision |-> r.revision + 1, phases |-> r.phases,
              tasks |-> [t \in DOMAIN r.tasks \cup DOMAIN new |->
                           IF t \in DOMAIN r.tasks THEN r.tasks[t] ELSE new[t]]]
  <2>1. r = [revision |-> r.revision, phases |-> r.phases, tasks |-> r.tasks]
    BY DEF IsRoadmap
  <2>2. QED
    BY <1>1, <2>1 DEF WithTasks
<1>3. /\ next.revision = r.revision + 1 /\ next.phases = r.phases
      /\ DOMAIN next.tasks = DOMAIN r.tasks \cup DOMAIN new
      /\ \A t \in DOMAIN r.tasks : next.tasks[t] = r.tasks[t]
      /\ \A t \in DOMAIN new : t \notin DOMAIN r.tasks /\ next.tasks[t] = new[t]
  BY <1>2 DEF MayAddTasks
<1>4. IsRoadmap(next)
  <2>1. \A t \in DOMAIN next.tasks : IsTask(next.tasks[t])
    BY <1>3 DEF IsRoadmap, Planned
  <2>2. \A p \in DOMAIN next.phases : IsPhase(next.phases[p])
    BY <1>3 DEF IsRoadmap
  <2>3. next.revision \in Nat
    BY <1>3 DEF IsRoadmap
  <2>4. QED
    BY <1>2, <2>1, <2>2, <2>3 DEF IsRoadmap
<1>5. WellFormed(next)
  BY <1>1 DEF MayAddTasks
<1>6. MovedOn(r.tasks, next.tasks, TaskTransitions) /\ MovedOn(r.phases, next.phases, PhaseTransitions)
  BY <1>3 DEF MovedOn
<1>7. \A t \in DOMAIN next.tasks : next.tasks[t].status \in Started =>
        t \in DOMAIN r.tasks /\ r.tasks[t].status \in Started
  BY <1>3 DEF Planned, Started
<1>8. QED
  BY <1>1, <1>3, <1>4, <1>5, <1>6, <1>7 DEF OneStep

---------------------------------------------------------------------------
LEMMA RoadmapInitInv == RoadmapInit => RoadmapInv
<1> SUFFICES ASSUME RoadmapInit PROVE RoadmapInv
  OBVIOUS
<1>1. /\ roadmap = InitialRoadmap /\ selections = <<>>
      /\ requests = [c \in Clients |-> NoRequest]
      /\ finished.tasks = TasksIn(roadmap, "completed")
      /\ finished.phases = PhasesIn(roadmap, "completed")
  BY DEF RoadmapInit
<1>2. IsRoadmap(roadmap) /\ WellFormed(roadmap) /\ roadmap.revision \in Revisions
  BY <1>1, InitialRoadmapAssumption, NewTasksAssumption DEF Revisions, IsRoadmap
<1>3. StartedWorkIsJustified
  <2>1. \A t \in DOMAIN roadmap.tasks : roadmap.tasks[t].status \in {"active", "completed"} =>
          roadmap.tasks[t].depends \subseteq finished.tasks
    BY <1>1, InitialRoadmapAssumption
  <2>2. \A p \in DOMAIN roadmap.phases :
          roadmap.phases[p].status \in {"active", "paused", "completed"} =>
            roadmap.phases[p].depends \subseteq finished.phases
    BY <1>1, InitialRoadmapAssumption
  <2>3. QED
    BY <2>1, <2>2 DEF StartedWorkIsJustified, TasksIn
<1>4. ChildrenKeepContract
  BY <1>1, InitialRoadmapAssumption DEF ChildrenKeepContract
<1>5. StoredInv
  BY <1>1, <1>2, <1>3, <1>4 DEF StoredInv
<1>6. SelectionInv
  BY <1>1 DEF SelectionInv
<1>7. \A c \in Clients : requests[c].stage = "none"
  BY <1>1 DEF NoRequest
<1>8. QED
  BY <1>1, <1>5, <1>6, <1>7 DEF RoadmapInv, RequestInv, Suits

(* One request goes on and the store rests.                                *)
LEMMA RequestGoes ==
  ASSUME RoadmapInv, UNCHANGED <<roadmap, selections, finished>>,
         NEW c \in Clients, NEW q, RequestInv(q), requests' = [requests EXCEPT ![c] = q],
         \A d \in Clients : Suits(q, requests[d]) /\ Suits(requests[d], q)
  PROVE  RoadmapInv'
<1>1. StoredInv' /\ SelectionInv'
  BY DEF RoadmapInv, StoredInv, SelectionInv, StartedWorkIsJustified, ChildrenKeepContract, Past
<1>2. requests' = [d \in Clients |-> requests'[d]]
  BY DEF RoadmapInv
<1>3. \A d \in Clients : requests'[d] = IF d = c THEN q ELSE requests[d]
  BY DEF RoadmapInv
<1>4. \A d \in Clients : RequestInv(requests[d])
  BY DEF RoadmapInv
<1>5. ASSUME NEW d \in Clients PROVE RequestInv(requests[d])'
  <2>1. PICK old : old = requests[d] /\ RequestInv(old)
    BY <1>4
  <2>2. PICK new : new = requests'[d]
    OBVIOUS
  <2>3. RequestInv(new)
    BY <1>3, <2>1, <2>2
  <2>4. RequestInv(new)'
    BY <2>3 DEF RequestInv, Saving, RecordingRequest, Serving, MaySave, Past, Served
  <2>5. QED
    BY <2>2, <2>4 DEF RequestInv, Saving, RecordingRequest, Serving, MaySave, Past, Served
<1>6. \A d, e \in Clients : Suits(requests[d], requests[e])
  BY DEF RoadmapInv
<1>7. Suits(q, q)
  BY DEF Suits
<1>8. \A d, e \in Clients : Suits(requests'[d], requests'[e])
  BY <1>3, <1>6, <1>7
<1>9. \A d, e \in Clients : Suits(requests[d], requests[e])'
  BY <1>8 DEF Suits
<1>10. QED
  BY <1>1, <1>2, <1>5, <1>9 DEF RoadmapInv

(* The stages that neither record nor serve suit everyone.                 *)
LEMMA OthersSuit ==
  ASSUME NEW q, q.stage \notin {"record", "serve"}, NEW p
  PROVE  Suits(q, p) /\ Suits(p, q)
BY DEF Suits

(* A request holds a copy that is one step ahead of what it read.          *)
LEMMA CopyHeld ==
  ASSUME RoadmapInv, NEW c \in Clients, NEW copy, OneStep(roadmap, copy),
         roadmap.revision < MaxRoadmapRevision, UNCHANGED <<roadmap, selections, finished>>,
         requests' = [requests EXCEPT ![c] = [stage |-> "save", copy |-> copy]]
  PROVE  RoadmapInv'
<1>1. PICK q : q = [stage |-> "save", copy |-> copy]
  OBVIOUS
<1>2. roadmap.revision \in Revisions /\ copy.revision = roadmap.revision + 1
  BY DEF RoadmapInv, StoredInv, OneStep
<1>3. InitialRoadmap.revision \in Nat /\ MaxRoadmapRevision \in Nat
  BY InitialRoadmapAssumption, NewTasksAssumption DEF IsRoadmap
<1>4. copy.revision \in Revisions /\ copy.revision - 1 <= roadmap.revision
  BY <1>2, <1>3 DEF Revisions
<1>5. RequestInv(q)
  BY <1>1, <1>4 DEF RequestInv, Saving
<1>6. \A d \in Clients : Suits(q, requests[d]) /\ Suits(requests[d], q)
  BY <1>1, OthersSuit
<1>7. requests' = [requests EXCEPT ![c] = q]
  BY <1>1
<1>8. QED
  BY <1>5, <1>6, <1>7, RequestGoes

LEMMA TransitionStep ==
  ASSUME RoadmapInv, NEW c \in Clients, NEW o, NEW status, NEW expected, NEW backing,
         \/ RequestPhase(c, o, status, expected)
         \/ RequestTask(c, o, status, expected, backing)
  PROVE  RoadmapInv'
<1>1. IsRoadmap(roadmap) /\ WellFormed(roadmap)
  BY DEF RoadmapInv, StoredInv
<1>2. CASE RequestPhase(c, o, status, expected)
  <2>1. OneStep(roadmap, transition_phase(roadmap, o, status))
    BY <1>1, <1>2, PhaseMoves DEF RequestPhase
  <2>2. QED
    BY <1>2, <2>1, CopyHeld DEF RequestPhase, Hold
<1>3. CASE RequestTask(c, o, status, expected, backing)
  <2>1. OneStep(roadmap, transition_task(roadmap, o, status))
    BY <1>1, <1>3, TaskMoves DEF RequestTask
  <2>2. QED
    BY <1>3, <2>1, CopyHeld DEF RequestTask, Hold
<1>4. QED
  BY <1>2, <1>3

LEMMA MergeIssueStep ==
  ASSUME RoadmapInv, NEW c \in Clients, NEW issue \in Issues, ApplyIssue(c, issue)
  PROVE  RoadmapInv'
<1>1. IsRoadmap(roadmap) /\ WellFormed(roadmap)
  BY DEF RoadmapInv, StoredInv
<1>2. Planned(issue) /\ \A t \in DOMAIN issue : issue[t].parent = {}
  BY NewTasksAssumption
<1>3. OneStep(roadmap, WithTasks(roadmap, issue))
  BY <1>1, <1>2, TasksJoin DEF ApplyIssue
<1>4. QED
  BY <1>3, CopyHeld DEF ApplyIssue, Hold

(* The children are added to the roadmap as it is by then, or not at all.  *)
LEMMA GenerateStep ==
  ASSUME RoadmapInv, NEW c \in Clients, NEW answer \in ChildAnswers, Generate(c, answer)
  PROVE  RoadmapInv'
<1>1. PICK q : q = [stage |-> "children", answer |-> answer]
  OBVIOUS
<1>2. requests' = [requests EXCEPT ![c] = q] /\ UNCHANGED <<roadmap, selections, finished>>
  BY <1>1 DEF Generate
<1>3. RequestInv(q) /\ \A d \in Clients : Suits(q, requests[d]) /\ Suits(requests[d], q)
  BY <1>1, OthersSuit DEF RequestInv
<1>4. QED
  BY <1>2, <1>3, RequestGoes

LEMMA RequestEnds ==
  ASSUME RoadmapInv, NEW c \in Clients, UNCHANGED <<roadmap, selections, finished>>,
         requests' = [requests EXCEPT ![c] = NoRequest]
  PROVE  RoadmapInv'
<1>1. RequestInv(NoRequest) /\ \A d \in Clients : /\ Suits(NoRequest, requests[d])
                                                  /\ Suits(requests[d], NoRequest)
  BY OthersSuit DEF RequestInv, NoRequest
<1>2. QED
  BY <1>1, RequestGoes

LEMMA AddChildrenStep ==
  ASSUME RoadmapInv, NEW c \in Clients, AddChildren(c)
  PROVE  RoadmapInv'
<1>1. PICK q : q = requests[c]
  OBVIOUS
<1>2. q.stage = "children" /\ q.answer \in ChildAnswers
  BY <1>1 DEF RoadmapInv, AddChildren, RequestInv, Saving, RecordingRequest, Serving
<1>3. PICK answer \in ChildAnswers : answer = q.answer
  BY <1>2
<1>4. UNCHANGED <<roadmap, selections, finished>> /\ roadmap.revision < MaxRoadmapRevision
  BY DEF AddChildren
<1>5. CASE MayAddChildTasks(roadmap, answer.parent, answer.children)
  <2>1. IsRoadmap(roadmap) /\ WellFormed(roadmap) /\ Planned(answer.children)
    BY NewTasksAssumption DEF RoadmapInv, StoredInv
  <2>2. OneStep(roadmap, WithTasks(roadmap, answer.children))
    BY <1>5, <2>1, TasksJoin DEF MayAddChildTasks
  <2>3. requests' = [requests EXCEPT ![c] =
                       [stage |-> "save", copy |-> WithTasks(roadmap, answer.children)]]
    BY <1>1, <1>3, <1>5 DEF AddChildren
  <2>4. QED
    BY <1>4, <2>2, <2>3, CopyHeld
<1>6. CASE ~ MayAddChildTasks(roadmap, answer.parent, answer.children)
  <2>1. requests' = [requests EXCEPT ![c] = NoRequest]
    BY <1>1, <1>3, <1>6 DEF AddChildren
  <2>2. QED
    BY <1>4, <2>1, RequestEnds
<1>7. QED
  BY <1>5, <1>6

---------------------------------------------------------------------------
(* A save that wins: the copy replaces the roadmap it was made from.       *)
LEMMA StoreMoves ==
  ASSUME RoadmapInv, NEW copy, OneStep(roadmap, copy), roadmap' = copy,
         copy.revision \in Revisions,
         finished' = [tasks |-> finished.tasks \cup TasksIn(copy, "completed"),
                      phases |-> finished.phases \cup PhasesIn(copy, "completed")]
  PROVE  StoredInv'
<1>1. PICK r : r = roadmap
  OBVIOUS
<1>2. PICK doneTasks, donePhases : doneTasks = finished.tasks /\ donePhases = finished.phases
  OBVIOUS
<1>3. /\ OneStep(r, copy) /\ WellFormed(r) /\ ChildrenKeepContract
      /\ TasksIn(r, "completed") \subseteq doneTasks
      /\ PhasesIn(r, "completed") \subseteq donePhases
      /\ \A t \in DOMAIN r.tasks : r.tasks[t].status \in Started =>
           r.tasks[t].depends \subseteq doneTasks
      /\ \A p \in DOMAIN r.phases : r.phases[p].status \in Begun =>
           r.phases[p].depends \subseteq donePhases
  BY <1>1, <1>2 DEF RoadmapInv, StoredInv, StartedWorkIsJustified, TasksIn, Started, Begun
<1>4. /\ finished'.tasks = doneTasks \cup TasksIn(copy, "completed")
      /\ finished'.phases = donePhases \cup PhasesIn(copy, "completed")
  BY <1>2
<1>5. \A t \in DOMAIN copy.tasks : copy.tasks[t].status \in Started =>
        copy.tasks[t].depends \subseteq finished'.tasks
  <2> SUFFICES ASSUME NEW t \in DOMAIN copy.tasks, copy.tasks[t].status \in Started
               PROVE  copy.tasks[t].depends \subseteq doneTasks
    BY <1>4
  <2>1. CASE t \in DOMAIN r.tasks /\ r.tasks[t].status \in Started
    BY <1>3, <2>1 DEF OneStep
  <2>2. CASE copy.tasks[t].depends \subseteq TasksIn(r, "completed")
    BY <1>3, <2>2
  <2>3. QED
    BY <1>3, <2>1, <2>2 DEF OneStep
<1>6. \A p \in DOMAIN copy.phases : copy.phases[p].status \in Begun =>
        copy.phases[p].depends \subseteq finished'.phases
  <2> SUFFICES ASSUME NEW p \in DOMAIN copy.phases, copy.phases[p].status \in Begun
               PROVE  copy.phases[p].depends \subseteq donePhases
    BY <1>4
  <2>1. p \in DOMAIN r.phases /\ copy.phases[p].depends = r.phases[p].depends
    BY <1>3 DEF OneStep
  <2>2. CASE r.phases[p].status \in Begun
    BY <1>3, <2>1, <2>2
  <2>3. CASE copy.phases[p].depends \subseteq PhasesIn(r, "completed")
    BY <1>3, <2>3
  <2>4. QED
    BY <1>3, <2>2, <2>3 DEF OneStep
<1>7. StartedWorkIsJustified'
  BY <1>5, <1>6 DEF StartedWorkIsJustified, TasksIn, Started, Begun
<1>8. ASSUME NEW t \in DOMAIN copy.tasks, NEW p \in copy.tasks[t].parent
      PROVE  /\ copy.tasks[t].phase = copy.tasks[p].phase
             /\ copy.tasks[p].contract \subseteq copy.tasks[t].contract
  <2>1. \A u \in DOMAIN r.tasks : /\ copy.tasks[u].phase = r.tasks[u].phase
                                  /\ copy.tasks[u].contract = r.tasks[u].contract
                                  /\ copy.tasks[u].parent = r.tasks[u].parent
    BY <1>3 DEF OneStep
  <2>2. CASE t \in DOMAIN r.tasks
    <3>1. p \in DOMAIN r.tasks
      BY <1>3, <2>1, <2>2 DEF WellFormed
    <3>2. r.tasks[t].phase = r.tasks[p].phase /\ r.tasks[p].contract \subseteq r.tasks[t].contract
      BY <1>1, <1>3, <2>1, <2>2 DEF ChildrenKeepContract
    <3>3. QED
      BY <2>1, <2>2, <3>1, <3>2
  <2>3. CASE t \notin DOMAIN r.tasks
    BY <1>3, <2>1, <2>3 DEF OneStep
  <2>4. QED
    BY <2>2, <2>3
<1>9. ChildrenKeepContract'
  BY <1>8 DEF ChildrenKeepContract
<1>10. IsRoadmap(copy) /\ WellFormed(copy)
  BY <1>3 DEF OneStep
<1>11. IsRoadmap(roadmap)' /\ WellFormed(roadmap)' /\ (roadmap.revision \in Revisions)'
  BY <1>10 DEF IsRoadmap, IsTask, IsPhase, WellFormed, Acyclic, Revisions
<1>12. /\ (TasksIn(roadmap, "completed") \subseteq finished.tasks)'
       /\ (PhasesIn(roadmap, "completed") \subseteq finished.phases)'
  BY <1>4 DEF TasksIn, PhasesIn
<1>13. QED
  BY <1>7, <1>9, <1>11, <1>12 DEF StoredInv

(* No copy of another request may be saved any more, and what they read is  *)
(* of the past.                                                             *)
LEMMA OthersAreLate ==
  ASSUME NEW q, RequestInv(q), UNCHANGED selections, roadmap.revision \in Nat,
         InitialRoadmap.revision \in Nat, MaxRoadmapRevision \in Nat,
         roadmap'.revision = roadmap.revision + 1
  PROVE  RequestInv(q)'
<1>1. CASE Saving(q)
  <2>1. q.copy.revision \in Nat /\ q.copy.revision - 1 <= roadmap.revision
    BY <1>1 DEF Saving, Revisions
  <2>2. q.copy.revision - 1 <= roadmap'.revision /\ roadmap'.revision # q.copy.revision - 1
    BY <2>1
  <2>3. QED
    BY <1>1, <2>2 DEF Saving, RequestInv, MaySave, Revisions
<1>2. \A v \in Past : v \in Past' /\ v # roadmap'.revision
  BY DEF Past
<1>3. CASE RecordingRequest(q)
  BY <1>2, <1>3 DEF RecordingRequest, RequestInv
<1>4. CASE Serving(q)
  BY <1>2, <1>4 DEF Serving, RequestInv, Served
<1>5. QED
  BY <1>1, <1>3, <1>4 DEF RequestInv

LEMMA SaveStep ==
  ASSUME RoadmapInv, NEW c \in Clients, Save(c)
  PROVE  RoadmapInv'
<1>1. PICK q : q = requests[c]
  OBVIOUS
<1>2. PICK copy : copy = q.copy
  OBVIOUS
<1>3. Saving(q)
  BY <1>1 DEF RoadmapInv, RequestInv, Save, RecordingRequest, Serving
<1>4. requests' = [requests EXCEPT ![c] = NoRequest] /\ UNCHANGED selections
  BY DEF Save
<1>5. CASE ~ MaySave(copy)
  <2>1. UNCHANGED <<roadmap, finished>>
    BY <1>1, <1>2, <1>5 DEF Save
  <2>2. QED
    BY <1>4, <2>1, RequestEnds
<1>6. CASE MaySave(copy)
  <2>1. /\ OneStep(roadmap, copy) /\ roadmap' = copy /\ copy.revision \in Revisions
        /\ finished' = [tasks |-> finished.tasks \cup TasksIn(copy, "completed"),
                        phases |-> finished.phases \cup PhasesIn(copy, "completed")]
    BY <1>1, <1>2, <1>3, <1>6 DEF Save, Saving
  <2>2. StoredInv'
    BY <2>1, StoreMoves
  <2>3. /\ roadmap.revision \in Nat /\ InitialRoadmap.revision \in Nat
        /\ MaxRoadmapRevision \in Nat /\ roadmap'.revision = roadmap.revision + 1
    BY <2>1, InitialRoadmapAssumption, NewTasksAssumption
       DEF RoadmapInv, StoredInv, IsRoadmap, OneStep
  <2>4. SelectionInv'
    <3>1. DOMAIN selections \subseteq Past
      BY DEF RoadmapInv, SelectionInv
    <3>2. DOMAIN selections \subseteq Past' /\ roadmap'.revision \notin DOMAIN selections
      BY <2>3, <3>1 DEF Past
    <3>3. QED
      BY <1>4, <3>2 DEF SelectionInv
  <2>5. requests' = [d \in Clients |-> requests'[d]]
    BY <1>4 DEF RoadmapInv
  <2>6. \A d \in Clients : requests'[d] = IF d = c THEN NoRequest ELSE requests[d]
    BY <1>4 DEF RoadmapInv
  <2>7. ASSUME NEW d \in Clients PROVE RequestInv(requests[d])'
    <3>1. PICK old : old = requests[d] /\ RequestInv(old)
      BY DEF RoadmapInv
    <3>2. RequestInv(old)'
      BY <1>4, <2>3, <3>1, OthersAreLate
    <3>3. CASE d # c
      BY <2>6, <3>1, <3>2, <3>3 DEF RequestInv, Saving, RecordingRequest, Serving, MaySave, Past, Served
    <3>4. CASE d = c
      BY <2>6, <3>4 DEF RequestInv, NoRequest
    <3>5. QED
      BY <3>3, <3>4
  <2>8. \A d, e \in Clients : Suits(requests[d], requests[e])
    BY DEF RoadmapInv
  <2>9. \A d, e \in Clients : Suits(requests'[d], requests'[e])
    BY <2>6, <2>8, OthersSuit DEF NoRequest
  <2>10. \A d, e \in Clients : Suits(requests[d], requests[e])'
    BY <2>9 DEF Suits
  <2>11. QED
    BY <2>2, <2>4, <2>5, <2>7, <2>10 DEF RoadmapInv
<1>7. QED
  BY <1>5, <1>6

---------------------------------------------------------------------------
(* A decision is about the roadmap that is stored, as is every copy of the *)
(* same revision that is about to be served.                               *)
LEMMA SelectionStep ==
  ASSUME RoadmapInv, NEW c \in Clients, NEW current, NEW scored,
         Select(c, Eligible(roadmap, current, scored))
  PROVE  RoadmapInv'
<1>1. PICK eligible : eligible = Eligible(roadmap, current, scored)
  OBVIOUS
<1>2. eligible \subseteq ready_tasks(roadmap)
  BY <1>1 DEF Eligible
<1>3. PICK selected \in IF eligible = {} THEN {{}} ELSE {{e} : e \in eligible} :
        requests' = [requests EXCEPT ![c] =
          [stage |-> "record", revision |-> roadmap.revision, selected |-> selected]]
  BY <1>1 DEF Select
<1>4. selected \subseteq ready_tasks(roadmap)
  BY <1>2, <1>3
<1>5. PICK q : q = [stage |-> "record", revision |-> roadmap.revision, selected |-> selected]
  OBVIOUS
<1>6. roadmap.revision \in Past
  BY InitialRoadmapAssumption, NewTasksAssumption
     DEF RoadmapInv, StoredInv, IsRoadmap, Revisions, Past
<1>7. RequestInv(q)
  BY <1>4, <1>5, <1>6 DEF RequestInv, RecordingRequest
<1>8. ASSUME NEW d \in Clients PROVE Suits(q, requests[d]) /\ Suits(requests[d], q)
  <2>1. PICK p : p = requests[d] /\ RequestInv(p)
    BY DEF RoadmapInv
  <2>2. p.stage = "serve" /\ p.copy.revision = roadmap.revision => p.copy = roadmap
    BY <2>1 DEF RequestInv, Saving, RecordingRequest, Serving
  <2>3. Suits(q, p) /\ Suits(p, q)
    BY <1>4, <1>5, <2>2 DEF Suits
  <2>4. QED
    BY <2>1, <2>3
<1>9. QED
  BY <1>3, <1>5, <1>7, <1>8, RequestGoes DEF Select

LEMMA ReadForSelectionStep ==
  ASSUME RoadmapInv, NEW c \in Clients, ReadForSelection(c)
  PROVE  RoadmapInv'
<1>1. PICK q : q = [stage |-> "serve", copy |-> roadmap]
  OBVIOUS
<1>2. roadmap.revision \in Past
  BY InitialRoadmapAssumption, NewTasksAssumption
     DEF RoadmapInv, StoredInv, IsRoadmap, Revisions, Past
<1>3. Served(roadmap) \subseteq ready_tasks(roadmap)
  BY DEF RoadmapInv, SelectionInv, Served
<1>4. RequestInv(q)
  BY <1>1, <1>2, <1>3 DEF RequestInv, Serving
<1>5. ASSUME NEW d \in Clients PROVE Suits(q, requests[d]) /\ Suits(requests[d], q)
  <2>1. PICK p : p = requests[d] /\ RequestInv(p)
    BY DEF RoadmapInv
  <2>2. p.stage = "record" /\ p.revision = roadmap.revision =>
          p.selected \subseteq ready_tasks(roadmap)
    BY <2>1 DEF RequestInv, Saving, RecordingRequest, Serving
  <2>3. Suits(q, p) /\ Suits(p, q)
    BY <1>1, <2>2 DEF Suits
  <2>4. QED
    BY <2>1, <2>3
<1>6. QED
  BY <1>1, <1>4, <1>5, RequestGoes DEF ReadForSelection

(* The decision replaces what was recorded for its revision, and suits who  *)
(* is about to be served under it.                                          *)
LEMMA RecordSelectionStep ==
  ASSUME RoadmapInv, NEW c \in Clients, RecordSelection(c)
  PROVE  RoadmapInv'
<1>1. PICK q : q = requests[c]
  OBVIOUS
<1>2. RecordingRequest(q)
  BY <1>1 DEF RoadmapInv, RequestInv, RecordSelection, Saving, Serving
<1>3. PICK old, new : old = selections /\ new = selections'
  OBVIOUS
<1>4. new = [v \in DOMAIN old \cup {q.revision} |->
               IF v = q.revision THEN q.selected ELSE old[v]]
  BY <1>1, <1>3 DEF RecordSelection
<1>5. requests' = [requests EXCEPT ![c] = NoRequest] /\ UNCHANGED <<roadmap, finished>>
  BY DEF RecordSelection
<1>6. StoredInv'
  BY <1>5 DEF RoadmapInv, StoredInv, StartedWorkIsJustified, ChildrenKeepContract
<1>7. SelectionInv'
  <2>1. DOMAIN old \subseteq Past /\ q.revision \in Past
    BY <1>2, <1>3 DEF RoadmapInv, SelectionInv, RecordingRequest
  <2>2. DOMAIN new \subseteq Past'
    BY <1>4, <1>5, <2>1 DEF Past
  <2>3. roadmap.revision \in DOMAIN new =>
          new[roadmap.revision] \subseteq ready_tasks(roadmap)
    <3>1. roadmap.revision \in DOMAIN old => old[roadmap.revision] \subseteq ready_tasks(roadmap)
      BY <1>3 DEF RoadmapInv, SelectionInv
    <3>2. q.revision = roadmap.revision => q.selected \subseteq ready_tasks(roadmap)
      BY <1>2 DEF RecordingRequest
    <3>3. QED
      BY <1>4, <3>1, <3>2
  <2>4. QED
    BY <1>3, <1>5, <2>2, <2>3 DEF SelectionInv
<1>8. requests' = [d \in Clients |-> requests'[d]]
  BY <1>5 DEF RoadmapInv
<1>9. \A d \in Clients : requests'[d] = IF d = c THEN NoRequest ELSE requests[d]
  BY <1>5 DEF RoadmapInv
<1>10. ASSUME NEW d \in Clients PROVE RequestInv(requests[d])'
  <2>1. PICK p : p = requests[d] /\ RequestInv(p) /\ Suits(q, p)
    BY <1>1 DEF RoadmapInv
  <2>2. RequestInv(p)'
    <3>1. CASE Serving(p)
      <4>1. Served(p.copy) = IF p.copy.revision \in DOMAIN old THEN old[p.copy.revision] ELSE {}
        BY <1>3 DEF Served
      <4>2. Served(p.copy)' = IF p.copy.revision \in DOMAIN new THEN new[p.copy.revision] ELSE {}
        BY <1>3 DEF Served
      <4>3. p.copy.revision = q.revision => q.selected \subseteq ready_tasks(p.copy)
        BY <1>2, <2>1, <3>1 DEF Suits, RecordingRequest, Serving
      <4>4. Served(p.copy)' \subseteq ready_tasks(p.copy)
        BY <1>4, <3>1, <4>1, <4>2, <4>3 DEF Serving
      <4>5. QED
        BY <1>5, <3>1, <4>4 DEF RequestInv, Serving, Past
    <3>2. CASE ~ Serving(p)
      BY <1>5, <2>1, <3>2 DEF RequestInv, Saving, RecordingRequest, MaySave, Past
    <3>3. QED
      BY <3>1, <3>2
  <2>3. CASE d # c
    <3>1. requests'[d] = p
      BY <1>9, <2>1, <2>3
    <3>2. QED
      BY <2>2, <3>1 DEF RequestInv, Saving, RecordingRequest, Serving, MaySave, Past, Served
  <2>4. CASE d = c
    BY <1>9, <2>4 DEF RequestInv, NoRequest
  <2>5. QED
    BY <2>3, <2>4
<1>11. \A d, e \in Clients : Suits(requests[d], requests[e])
  BY DEF RoadmapInv
<1>12. \A d, e \in Clients : Suits(requests'[d], requests'[e])
  BY <1>9, <1>11, OthersSuit DEF NoRequest
<1>13. \A d, e \in Clients : Suits(requests[d], requests[e])'
  BY <1>12 DEF Suits
<1>14. QED
  BY <1>6, <1>7, <1>8, <1>10, <1>13 DEF RoadmapInv

LEMMA RoadmapNextInv == RoadmapInv /\ [RoadmapNext]_roadmapVars => RoadmapInv'
<1> SUFFICES ASSUME RoadmapInv, [RoadmapNext]_roadmapVars PROVE RoadmapInv'
  OBVIOUS
<1>1. ASSUME NEW c \in Clients, NEW p, NEW s, NEW v, RequestPhase(c, p, s, v)
      PROVE  RoadmapInv'
  BY <1>1, TransitionStep
<1>2. ASSUME NEW c \in Clients, NEW t, NEW s, NEW v, NEW e, RequestTask(c, t, s, v, e)
      PROVE  RoadmapInv'
  BY <1>2, TransitionStep
<1>3. ASSUME NEW c \in Clients, NEW issue \in Issues, ApplyIssue(c, issue)
      PROVE  RoadmapInv'
  BY <1>3, MergeIssueStep
<1>4. ASSUME NEW c \in Clients, NEW a \in ChildAnswers, Generate(c, a)
      PROVE  RoadmapInv'
  BY <1>4, GenerateStep
<1>5. ASSUME NEW c \in Clients, AddChildren(c) PROVE RoadmapInv'
  BY <1>5, AddChildrenStep
<1>6. ASSUME NEW c \in Clients, Save(c) PROVE RoadmapInv'
  BY <1>6, SaveStep
<1>7. ASSUME NEW c \in Clients,
             \E e \in {Eligible(roadmap, current, scored) :
                         current, scored \in SUBSET DOMAIN roadmap.tasks} : Select(c, e)
      PROVE  RoadmapInv'
  <2>1. PICK current, scored \in SUBSET DOMAIN roadmap.tasks :
          Select(c, Eligible(roadmap, current, scored))
    BY <1>7
  <2>2. QED
    BY <2>1, SelectionStep
<1>8. ASSUME NEW c \in Clients, RecordSelection(c) PROVE RoadmapInv'
  BY <1>8, RecordSelectionStep
<1>9. ASSUME NEW c \in Clients, ReadForSelection(c) PROVE RoadmapInv'
  BY <1>9, ReadForSelectionStep
<1>10. ASSUME NEW c \in Clients, ServeSelection(c) PROVE RoadmapInv'
  BY <1>10, RequestEnds DEF ServeSelection
<1>11. CASE UNCHANGED roadmapVars
  BY <1>11 DEF roadmapVars, RoadmapInv, StoredInv, SelectionInv, StartedWorkIsJustified,
               ChildrenKeepContract, Past, RequestInv, Saving, RecordingRequest, Serving, MaySave,
               Served, Suits
<1>12. QED
  BY <1>1, <1>2, <1>3, <1>4, <1>5, <1>6, <1>7, <1>8, <1>9, <1>10, <1>11 DEF RoadmapNext

---------------------------------------------------------------------------
(* The inductive invariant of the stored roadmap, its recorded decisions    *)
(* and the requests at work (RoadmapService, SQLiteRoadmapStore,            *)
(* TaskSelectionStore).                                                     *)
THEOREM RoadmapInvHolds == RoadmapSpec => []RoadmapInv
<1>1. QED
  BY RoadmapInitInv, RoadmapNextInv, PTL DEF RoadmapSpec

(* Whatever is stored is a roadmap that the constructor accepts.            *)
THEOREM RoadmapTypesHold == RoadmapSpec => []RoadmapTypeOK
<1>1. RoadmapInv => RoadmapTypeOK
  <2> SUFFICES ASSUME RoadmapInv PROVE RoadmapTypeOK
    OBVIOUS
  <2>1. WellFormed(roadmap) /\ roadmap.revision \in Revisions /\ IsRoadmap(roadmap)
    BY DEF RoadmapInv, StoredInv
  <2>2. DOMAIN selections \subseteq Revisions
    BY <2>1, InitialRoadmapAssumption, NewTasksAssumption
       DEF RoadmapInv, SelectionInv, Past, Revisions, IsRoadmap
  <2>3. QED
    BY <2>1, <2>2 DEF RoadmapTypeOK, IsRoadmap, IsTask, IsPhase
<1>2. QED
  BY <1>1, RoadmapInvHolds, PTL

(* A task or phase is started only after all that it depends on was         *)
(* completed, whatever requests were served meanwhile (transition_task).    *)
THEOREM StartedIsJustified == RoadmapSpec => []StartedWorkIsJustified
<1>1. RoadmapInv => StartedWorkIsJustified
  BY DEF RoadmapInv, StoredInv
<1>2. QED
  BY <1>1, RoadmapInvHolds, PTL

(* A generated child keeps phase and requirements of its parent, though the *)
(* roadmap moved on between proposal and save (add_child_tasks).            *)
THEOREM ChildrenKeep == RoadmapSpec => []ChildrenKeepContract
<1>1. RoadmapInv => ChildrenKeepContract
  BY DEF RoadmapInv, StoredInv
<1>2. QED
  BY <1>1, RoadmapInvHolds, PTL

(* A selection served for a roadmap is ready in it: a revision names one    *)
(* roadmap, so a decision recorded late cannot reach another one            *)
(* (TaskSelectionStore.latest).                                             *)
THEOREM ServedIsReady == RoadmapSpec => []ServedSelectionIsReady
<1>1. RoadmapInv => ServedSelectionIsReady
  <2> SUFFICES ASSUME RoadmapInv, NEW c \in Clients, requests[c].stage = "serve"
               PROVE  Served(requests[c].copy) \subseteq ready_tasks(requests[c].copy)
    BY DEF ServedSelectionIsReady
  <2>1. RequestInv(requests[c])
    BY DEF RoadmapInv
  <2>2. Serving(requests[c])
    BY <2>1 DEF RequestInv, Saving, RecordingRequest
  <2>3. QED
    BY <2>2 DEF Serving
<1>2. QED
  BY <1>1, RoadmapInvHolds, PTL

(* The dependency graph and the transition of a task agree on what may      *)
(* start, and no blocked task is among it (DependencyGraph.build).          *)
THEOREM GraphAgrees == RoadmapSpec => []GraphTellsWhatMayStart
<1>1. RoadmapInv => GraphTellsWhatMayStart
  <2> SUFFICES ASSUME RoadmapInv PROVE GraphTellsWhatMayStart
    OBVIOUS
  <2>1. PICK r : r = roadmap /\ IsRoadmap(r) /\ WellFormed(r)
    BY DEF RoadmapInv, StoredInv
  <2>2. \A t \in DOMAIN r.tasks : r.tasks[t].phase \in DOMAIN r.phases
    BY <2>1 DEF WellFormed
  <2>3. GraphEligible(r) = ready_tasks(r)
    BY <2>2 DEF GraphEligible, ready_tasks, Waits, MissingDependencies, TasksIn, PhasesIn
  <2>4. ASSUME NEW t \in DOMAIN r.tasks
        PROVE  MayTransitionTask(r, t, "active", r.tasks[t].revision, {}) <=> t \in ready_tasks(r)
    <3>1. t \in ready_tasks(r) => r.tasks[t].status = "planned"
      BY DEF ready_tasks, TasksIn
    <3>2. t \in ready_tasks(r) => "active" \in TaskTransitions[r.tasks[t].status]
      BY <3>1 DEF TaskTransitions
    <3>3. QED
      BY <3>2 DEF MayTransitionTask
  <2>5. GraphEligible(r) = {t \in DOMAIN r.tasks :
                              MayTransitionTask(r, t, "active", r.tasks[t].revision, {})}
    BY <2>3, <2>4 DEF ready_tasks, TasksIn
  <2>6. GraphEligible(r) \cap blocked_tasks(r) = {}
    BY <2>3 DEF ready_tasks, blocked_tasks
  <2>7. QED
    BY <2>1, <2>5, <2>6 DEF GraphTellsWhatMayStart
<1>2. QED
  BY <1>1, RoadmapInvHolds, PTL

(* No request undoes what another one saved: each stored object stays and   *)
(* moves one step of its lifecycle at a time (SQLiteRoadmapStore.save).     *)
THEOREM NothingUndone == RoadmapSpec => NoChangeUndone
<1>1. RoadmapInv /\ [RoadmapNext]_roadmapVars =>
        [/\ MovedOn(roadmap.tasks, roadmap'.tasks, TaskTransitions)
         /\ MovedOn(roadmap.phases, roadmap'.phases, PhaseTransitions)]_roadmapVars
  <2> SUFFICES ASSUME RoadmapInv, RoadmapNext
               PROVE  /\ MovedOn(roadmap.tasks, roadmap'.tasks, TaskTransitions)
                      /\ MovedOn(roadmap.phases, roadmap'.phases, PhaseTransitions)
    OBVIOUS
  <2>1. CASE roadmap' = roadmap
    BY <2>1 DEF MovedOn
  <2>2. CASE \E c \in Clients : Save(c) /\ roadmap' # roadmap
    <3>1. PICK c \in Clients : Save(c) /\ roadmap' # roadmap
      BY <2>2
    <3>2. PICK q : q = requests[c]
      OBVIOUS
    <3>3. Saving(q)
      BY <3>1, <3>2 DEF RoadmapInv, RequestInv, Save, RecordingRequest, Serving
    <3>4. OneStep(roadmap, q.copy) /\ roadmap' = q.copy
      BY <3>1, <3>2, <3>3 DEF Save, Saving
    <3>5. QED
      BY <3>4 DEF OneStep
  <2>3. roadmap' = roadmap \/ \E c \in Clients : Save(c)
    BY DEF RoadmapNext, RequestPhase, RequestTask, ApplyIssue, Hold, Generate, AddChildren,
           Select, RecordSelection, ReadForSelection, ServeSelection
  <2>4. QED
    BY <2>1, <2>2, <2>3
<1>2. QED
  BY <1>1, RoadmapInvHolds, PTL DEF RoadmapSpec, NoChangeUndone

(***************************************************************************)
(* Scheduling.                                                             *)
(***************************************************************************)

(* What the tasks need of a resource, as a function on the tasks.          *)
Cost(x) == [t \in ReadyTasks |-> given.estimate[t][x]]

GivenOK ==
  /\ given.estimate \in [ReadyTasks -> [Resources -> Nat]]
  /\ given.priority \in [ReadyTasks -> Int]
  /\ given.capacity \in [Resources -> Nat]

LEMMA TasksFinite == \A S \in SUBSET ReadyTasks : IsFiniteSet(S)
<1>1. IsFiniteSet(ReadyTasks) BY ScheduleAssumption
<1> QED BY <1>1, FS_Subset

LEMMA NeedIsCost ==
  ASSUME NEW x \in Resources, NEW S \in SUBSET ReadyTasks
  PROVE  Need(S, x) = SumOver(Cost(x), S)
<1> DEFINE f == Cost(x)
           P(g) == g = [s \in SUBSET S |->
                          IF s = {} THEN 0
                          ELSE given.estimate[Picked(s)][x] + g[s \ {Picked(s)}]]
<1>0. IsFiniteSet(S) BY TasksFinite
<1>1. PICK h : Adds(h, f, S) BY <1>0, AddsExists
<1>2. \A s \in SUBSET S : s # {} => f[Picked(s)] = given.estimate[Picked(s)][x]
  BY PickedIn DEF Cost
<1>3. \A g : Adds(g, f, S) <=> P(g)
  <2> TAKE g
  <2> DEFINE F(s) == IF s = {} THEN 0 ELSE f[Picked(s)] + g[s \ {Picked(s)}]
             G(s) == IF s = {} THEN 0 ELSE given.estimate[Picked(s)][x] + g[s \ {Picked(s)}]
  <2>1. \A s \in SUBSET S : F(s) = G(s) BY <1>2
  <2>2. [s \in SUBSET S |-> F(s)] = [s \in SUBSET S |-> G(s)]
    <3> HIDE DEF F, G
    <3> QED BY <2>1
  <2> QED BY <2>2 DEF Adds
<1>4. P(CHOOSE g : P(g))
  <2>1. \E g : P(g) BY <1>1, <1>3
  <2> QED BY <2>1
<1>5. Need(S, x) = (CHOOSE g : P(g))[S]
  BY DEF Need, MapThenSumSet, MapThenFoldSet, Picked
<1> HIDE DEF P, f
<1>6. PICK g : P(g) /\ Need(S, x) = g[S]
  BY <1>4, <1>5
<1>7. SumOver(f, S) = g[S] BY <1>0, <1>3, <1>6, SumAdds
<1> QED BY <1>6, <1>7 DEF f

LEMMA CostFacts ==
  ASSUME GivenOK, NEW x \in Resources, NEW S \in SUBSET ReadyTasks
  PROVE  /\ SumOver(Cost(x), {}) = 0
         /\ SumOver(Cost(x), S) \in Nat
         /\ \A u \in ReadyTasks \ S :
              SumOver(Cost(x), S \cup {u}) = SumOver(Cost(x), S) + given.estimate[u][x]
<1>1. IsFiniteSet(S) BY TasksFinite
<1>2. \A t \in ReadyTasks : Cost(x)[t] \in Nat /\ Cost(x)[t] = given.estimate[t][x]
  BY DEF Cost, GivenOK
<1>3. SumOver(Cost(x), {}) = 0 BY SumEmpty
<1>4. SumOver(Cost(x), S) \in Nat BY <1>1, <1>2, SumNat
<1>5. ASSUME NEW u \in ReadyTasks \ S
      PROVE  SumOver(Cost(x), S \cup {u}) = SumOver(Cost(x), S) + given.estimate[u][x]
  <2>1. SumOver(Cost(x), S \cup {u}) = SumOver(Cost(x), S) + Cost(x)[u]
    BY <1>1, <1>2, SumWith
  <2> QED BY <1>2, <2>1
<1> QED BY <1>3, <1>4, <1>5

(* The order of the candidates never places two before each other.         *)
LEMMA BeforeOrders ==
  ASSUME given.priority \in [ReadyTasks -> Int],
         given.estimate \in [ReadyTasks -> [Resources -> Nat]],
         NEW s \in ReadyTasks, NEW t \in ReadyTasks, Before(s, t)
  PROVE  ~Before(t, s)
<1> DEFINE ps == given.priority[s]
           pt == given.priority[t]
           ts == given.estimate[s]["time"]
           tt == given.estimate[t]["time"]
<1>1. ps \in Int /\ pt \in Int OBVIOUS
<1>2. ts \in Nat /\ tt \in Nat BY DEF Resources
<1>3. s \in Nat /\ t \in Nat BY ScheduleAssumption
<1>4. \/ ps > pt
      \/ ps = pt /\ ts < tt
      \/ ps = pt /\ ts = tt /\ s < t
  BY DEF Before
<1>5. ~(\/ pt > ps
        \/ pt = ps /\ tt < ts
        \/ pt = ps /\ tt = ts /\ t < s)
  <2> HIDE DEF ps, pt, ts, tt
  <2> QED BY <1>1, <1>2, <1>3, <1>4
<1> QED BY <1>5 DEF Before

(* The loop so far: what is left and what was scheduled add up to the      *)
(* capacity; everything that had its turn comes before everything that did *)
(* not; and what was left out does not fit beside what came before it.     *)
Crowded(t) ==
  \E x \in Resources :
    SumOver(Cost(x), {s \in scheduled : Before(s, t)}) + given.estimate[t][x] > given.capacity[x]

ScheduleInv ==
  /\ GivenOK
  /\ left \subseteq Candidates(given)
  /\ scheduled \subseteq Candidates(given) \ left
  /\ remaining \in [Resources -> Nat]
  /\ \A x \in Resources : remaining[x] + SumOver(Cost(x), scheduled) = given.capacity[x]
  /\ \A s \in Candidates(given) \ left, t \in left : Before(s, t)
  /\ \A t \in Candidates(given) \ (left \cup scheduled) : Crowded(t)

LEMMA ScheduleInitInv == ScheduleInit => ScheduleInv
<1> SUFFICES ASSUME ScheduleInit PROVE ScheduleInv
  OBVIOUS
<1>1. GivenOK
  <2>1. NoEstimate \in [Resources -> Nat] BY DEF NoEstimate
  <2>2. Estimates \cup {NoEstimate} \subseteq [Resources -> Nat]
    BY <2>1, ScheduleAssumption
  <2>3. given.estimate \in [ReadyTasks -> Estimates \cup {NoEstimate}]
    BY DEF ScheduleInit
  <2>4. given.estimate \in [ReadyTasks -> [Resources -> Nat]]
    BY <2>2, <2>3
  <2>5. given.priority \in [ReadyTasks -> Priorities] BY DEF ScheduleInit
  <2>6. given.priority \in [ReadyTasks -> Int] BY <2>5, ScheduleAssumption
  <2>7. given.capacity \in Capacities BY DEF ScheduleInit
  <2> QED BY <2>4, <2>6, <2>7, ScheduleAssumption DEF GivenOK
<1>2. ASSUME NEW x \in Resources
      PROVE  remaining[x] + SumOver(Cost(x), scheduled) = given.capacity[x]
  <2>1. SumOver(Cost(x), {}) = 0 BY <1>1, CostFacts
  <2>2. given.capacity[x] \in Nat BY <1>1 DEF GivenOK
  <2> QED BY <2>1, <2>2 DEF ScheduleInit
<1> QED BY <1>1, <1>2 DEF ScheduleInit, ScheduleInv, GivenOK

(* A task that fits is added, and those left out before it stay left out.  *)
LEMMA TurnFits ==
  ASSUME ScheduleInv, NEW t \in ReadyTasks, Turn(t), Fits(t)
  PROVE  ScheduleInv'
<1>1. /\ t \in left /\ left' = left \ {t} /\ scheduled' = scheduled \cup {t}
      /\ remaining' = [x \in Resources |-> remaining[x] - given.estimate[t][x]]
      /\ given' = given
      /\ \A s \in left \ {t} : Before(t, s)
  BY DEF Turn
<1>2. GivenOK' BY <1>1 DEF ScheduleInv, GivenOK
<1>3. left' \subseteq Candidates(given') /\ scheduled' \subseteq Candidates(given') \ left'
  BY <1>1 DEF ScheduleInv
<1>4. ASSUME NEW x \in Resources
      PROVE  /\ remaining[x] - given.estimate[t][x] \in Nat
             /\ remaining'[x] + SumOver(Cost(x), scheduled') = given.capacity[x]
  <2>1. /\ remaining[x] \in Nat /\ given.estimate[t][x] \in Nat
        /\ given.estimate[t][x] <= remaining[x]
        /\ remaining[x] + SumOver(Cost(x), scheduled) = given.capacity[x]
    BY DEF ScheduleInv, GivenOK, Fits
  <2>2. scheduled \in SUBSET ReadyTasks /\ t \in ReadyTasks \ scheduled
    BY <1>1 DEF ScheduleInv, Candidates
  <2>3. SumOver(Cost(x), scheduled \cup {t}) = SumOver(Cost(x), scheduled) + given.estimate[t][x]
    BY <2>2, CostFacts DEF ScheduleInv
  <2>4. SumOver(Cost(x), scheduled) \in Nat
    BY <2>2, CostFacts DEF ScheduleInv
  <2>5. remaining'[x] = remaining[x] - given.estimate[t][x] BY <1>1
  <2>6. SumOver(Cost(x), scheduled') = SumOver(Cost(x), scheduled) + given.estimate[t][x]
    BY <1>1, <2>3
  <2> QED BY <2>1, <2>4, <2>5, <2>6
<1>5. remaining' \in [Resources -> Nat] BY <1>1, <1>4
<1>6. \A s \in Candidates(given) \ (left \ {t}), u \in left \ {t} : Before(s, u)
  BY <1>1 DEF ScheduleInv
<1>7. ASSUME NEW u \in Candidates(given) \ (left \cup scheduled)
      PROVE  {s \in scheduled \cup {t} : Before(s, u)} = {s \in scheduled : Before(s, u)}
  <2>1. Before(u, t) BY <1>1 DEF ScheduleInv
  <2>2. ~Before(t, u)
    BY <2>1, BeforeOrders DEF ScheduleInv, GivenOK, Candidates
  <2> QED BY <2>2
<1>8. ASSUME NEW u \in Candidates(given) \ (left \cup scheduled)  PROVE Crowded(u)'
  <2>1. PICK x \in Resources :
          SumOver(Cost(x), {s \in scheduled : Before(s, u)}) + given.estimate[u][x] > given.capacity[x]
    BY DEF ScheduleInv, Crowded
  <2>2. {s \in scheduled' : Before(s, u)'} = {s \in scheduled : Before(s, u)}
    BY <1>1, <1>7 DEF Before
  <2> QED BY <1>1, <2>1, <2>2 DEF Crowded, Cost
<1>9. Candidates(given') \ (left' \cup scheduled') = Candidates(given) \ (left \cup scheduled)
  BY <1>1
<1>10. \A s \in Candidates(given') \ left', u \in left' : Before(s, u)'
  BY <1>1, <1>6 DEF Before
<1>11. \A x \in Resources : (remaining[x] + SumOver(Cost(x), scheduled) = given.capacity[x])'
  BY <1>1, <1>4 DEF Cost
<1> QED BY <1>2, <1>3, <1>5, <1>8, <1>9, <1>10, <1>11 DEF ScheduleInv

(* One that does not fit does not fit beside all that was scheduled, which *)
(* is all that comes before it.                                            *)
LEMMA TurnSkips ==
  ASSUME ScheduleInv, NEW t \in ReadyTasks, Turn(t), ~Fits(t)
  PROVE  ScheduleInv'
<1>1. /\ t \in left /\ left' = left \ {t} /\ scheduled' = scheduled
      /\ remaining' = remaining /\ given' = given
      /\ \A s \in left \ {t} : Before(t, s)
  BY DEF Turn
<1>2. GivenOK' BY <1>1 DEF ScheduleInv, GivenOK
<1>3. left' \subseteq Candidates(given') /\ scheduled' \subseteq Candidates(given') \ left'
  BY <1>1 DEF ScheduleInv
<1>4. {s \in scheduled : Before(s, t)} = scheduled
  BY <1>1 DEF ScheduleInv
<1>5. Crowded(t)
  <2>1. PICK x \in Resources : ~(given.estimate[t][x] <= remaining[x]) BY DEF Fits
  <2>2. /\ remaining[x] \in Nat /\ given.estimate[t][x] \in Nat
        /\ remaining[x] + SumOver(Cost(x), scheduled) = given.capacity[x]
    BY DEF ScheduleInv, GivenOK
  <2>3. scheduled \in SUBSET ReadyTasks BY DEF ScheduleInv, Candidates
  <2>4. SumOver(Cost(x), scheduled) \in Nat
    BY <2>3, CostFacts DEF ScheduleInv
  <2>5. SumOver(Cost(x), scheduled) + given.estimate[t][x] > given.capacity[x]
    BY <2>1, <2>2, <2>4
  <2> QED BY <1>4, <2>5 DEF Crowded
<1>6. ASSUME NEW u \in Candidates(given) \ ((left \ {t}) \cup scheduled)  PROVE Crowded(u)
  BY <1>5 DEF ScheduleInv
<1>7. \A u : Crowded(u)' <=> Crowded(u)
  BY <1>1 DEF Crowded, Cost, Before
<1>8. \A u \in Candidates(given') \ (left' \cup scheduled') : Crowded(u)'
  BY <1>1, <1>6, <1>7
<1>9. \A s \in Candidates(given') \ left', u \in left' : Before(s, u)'
  BY <1>1 DEF ScheduleInv, Before
<1>10. \A x \in Resources : (remaining[x] + SumOver(Cost(x), scheduled) = given.capacity[x])'
  BY <1>1 DEF ScheduleInv, Cost
<1>11. remaining' \in [Resources -> Nat] BY <1>1 DEF ScheduleInv
<1> QED BY <1>2, <1>3, <1>8, <1>9, <1>10, <1>11 DEF ScheduleInv

LEMMA ScheduleNextInv == ScheduleInv /\ [ScheduleNext]_scheduleVars => ScheduleInv'
<1> SUFFICES ASSUME ScheduleInv, [ScheduleNext]_scheduleVars PROVE ScheduleInv'
  OBVIOUS
<1>1. CASE \E t \in ReadyTasks : Turn(t)
  BY <1>1, TurnFits, TurnSkips
<1>2. CASE UNCHANGED scheduleVars
  <2>1. \A u : Crowded(u)' <=> Crowded(u)
    BY <1>2 DEF Crowded, Cost, Before, scheduleVars
  <2>2. \A s, u : Before(s, u)' <=> Before(s, u)
    BY <1>2 DEF Before, scheduleVars
  <2>3. \A x \in Resources : SumOver(Cost(x), scheduled)' = SumOver(Cost(x), scheduled)
    BY <1>2 DEF Cost, scheduleVars
  <2> QED BY <1>2, <2>1, <2>2, <2>3 DEF ScheduleInv, GivenOK, scheduleVars
<1> QED BY <1>1, <1>2 DEF ScheduleNext

(* Holds throughout: see its parts above.                                  *)
THEOREM ScheduleInvHolds == ScheduleSpec => []ScheduleInv
  BY ScheduleInitInv, ScheduleNextInv, PTL DEF ScheduleSpec

(* The loop's variables keep their types, and no resource is taken that is *)
(* not there (schedule's loop), for any tasks, estimates and capacities.   *)
THEOREM ScheduleTypesHold == ScheduleSpec => []ScheduleTypeOK
<1>1. ScheduleInv => ScheduleTypeOK
  <2> SUFFICES ASSUME ScheduleInv PROVE ScheduleTypeOK
    OBVIOUS
  <2>1. ASSUME NEW x \in Resources PROVE remaining[x] \in 0..given.capacity[x]
    <3>1. scheduled \in SUBSET ReadyTasks BY DEF ScheduleInv, Candidates
    <3>2. Need(scheduled, x) \in Nat BY <3>1, NeedIsCost, CostFacts DEF ScheduleInv
    <3>3. /\ remaining[x] \in Nat /\ given.capacity[x] \in Nat
          /\ remaining[x] + Need(scheduled, x) = given.capacity[x]
      BY <3>1, NeedIsCost DEF ScheduleInv, GivenOK
    <3> QED BY <3>2, <3>3
  <2> QED BY <2>1 DEF ScheduleInv, ScheduleTypeOK
<1> QED BY <1>1, ScheduleInvHolds, PTL

(* Whatever the tasks need and whatever there is: the schedule fits into   *)
(* the capacity, and a task left out when the loop ends would not fit      *)
(* beside those that come before it (CostAwareScheduler.schedule).         *)
THEOREM SchedulesAreGreedy == ScheduleSpec => []ScheduleIsGreedy
<1>1. ScheduleInv => ScheduleIsGreedy
  <2> SUFFICES ASSUME ScheduleInv PROVE ScheduleIsGreedy
    OBVIOUS
  <2>1. ASSUME NEW x \in Resources PROVE Need(scheduled, x) <= given.capacity[x]
    <3>1. scheduled \in SUBSET ReadyTasks BY DEF ScheduleInv, Candidates
    <3>2. Need(scheduled, x) \in Nat BY <3>1, NeedIsCost, CostFacts DEF ScheduleInv
    <3>3. /\ remaining[x] \in Nat /\ given.capacity[x] \in Nat
          /\ remaining[x] + Need(scheduled, x) = given.capacity[x]
      BY <3>1, NeedIsCost DEF ScheduleInv, GivenOK
    <3> QED BY <3>2, <3>3
  <2>2. left = {} => \A t \in Candidates(given) \ scheduled : Crowded(t)
    BY DEF ScheduleInv
  <2>3. ASSUME left = {}, NEW t \in Candidates(given) \ scheduled
        PROVE  \E x \in Resources :
                 Need({s \in scheduled : Before(s, t)}, x) + given.estimate[t][x]
                   > given.capacity[x]
    <3>1. PICK x \in Resources :
            SumOver(Cost(x), {s \in scheduled : Before(s, t)}) + given.estimate[t][x]
              > given.capacity[x]
      BY <2>2, <2>3 DEF Crowded
    <3>2. {s \in scheduled : Before(s, t)} \in SUBSET ReadyTasks
      BY DEF ScheduleInv, Candidates
    <3> QED BY <3>1, <3>2, NeedIsCost
  <2> QED BY <2>1, <2>3 DEF ScheduleIsGreedy
<1> QED BY <1>1, ScheduleInvHolds, PTL

(***************************************************************************)
(* All together.                                                           *)
(***************************************************************************)

(* A step of the workspace is a step of one service, and none of any other. *)
LEMMA PartsStep ==
  ASSUME [WorkspaceNext]_WorkspaceVars
  PROVE  /\ [RoadmapNext]_roadmapVars
         /\ [ScheduleNext]_scheduleVars
         /\ [ControlNext]_controlVars
         /\ [RecoveryNext]_recoveryVars
         /\ [RouteNext]_routeVars
         /\ [MemoryNext]_memoryVars
         /\ [SyncNext]_syncVars
         /\ [ChatNext]_chatVars
         /\ [CleanupNext]_cleanupVars
         /\ [AcceptanceNext]_acceptanceVars
         /\ [PagingNext]_pagingVars
<1>1. CASE UNCHANGED WorkspaceVars
  BY <1>1 DEF WorkspaceVars
<1>2. ASSUME WorkspaceNext PROVE [RoadmapNext]_roadmapVars
  <2>1. CASE part = "roadmap"
    BY <1>2, <2>1 DEF WorkspaceNext
  <2>2. CASE part # "roadmap"
    BY <1>2, <2>2 DEF WorkspaceNext
  <2>3. QED
    BY <2>1, <2>2
<1>3. ASSUME WorkspaceNext PROVE [ScheduleNext]_scheduleVars
  <2>1. CASE part = "schedule"
    BY <1>3, <2>1 DEF WorkspaceNext
  <2>2. CASE part # "schedule"
    BY <1>3, <2>2 DEF WorkspaceNext
  <2>3. QED
    BY <2>1, <2>2
<1>4. ASSUME WorkspaceNext PROVE [ControlNext]_controlVars
  <2>1. CASE part = "control"
    BY <1>4, <2>1 DEF WorkspaceNext
  <2>2. CASE part # "control"
    BY <1>4, <2>2 DEF WorkspaceNext
  <2>3. QED
    BY <2>1, <2>2
<1>5. ASSUME WorkspaceNext PROVE [RecoveryNext]_recoveryVars
  <2>1. CASE part = "recovery"
    BY <1>5, <2>1 DEF WorkspaceNext
  <2>2. CASE part # "recovery"
    BY <1>5, <2>2 DEF WorkspaceNext
  <2>3. QED
    BY <2>1, <2>2
<1>6. ASSUME WorkspaceNext PROVE [RouteNext]_routeVars
  <2>1. CASE part = "routing"
    BY <1>6, <2>1 DEF WorkspaceNext, RoutingStep
  <2>2. CASE part = "health"
    BY <1>6, <2>2 DEF WorkspaceNext, HealthStep
  <2>3. CASE part \notin {"routing", "health"}
    BY <1>6, <2>3 DEF WorkspaceNext
  <2>4. QED
    BY <2>1, <2>2, <2>3
<1>7. ASSUME WorkspaceNext PROVE [MemoryNext]_memoryVars
  <2>1. CASE part = "memory"
    BY <1>7, <2>1 DEF WorkspaceNext, CompactionStep
  <2>2. CASE part = "learning"
    BY <1>7, <2>2 DEF WorkspaceNext, LearningStep
  <2>3. CASE part \notin {"memory", "learning"}
    BY <1>7, <2>3 DEF WorkspaceNext
  <2>4. QED
    BY <2>1, <2>2, <2>3
<1>8. ASSUME WorkspaceNext PROVE [SyncNext]_syncVars
  <2>1. CASE part = "sync"
    BY <1>8, <2>1 DEF WorkspaceNext
  <2>2. CASE part # "sync"
    BY <1>8, <2>2 DEF WorkspaceNext
  <2>3. QED
    BY <2>1, <2>2
<1>9. ASSUME WorkspaceNext PROVE [ChatNext]_chatVars
  <2>1. CASE part = "chat"
    BY <1>9, <2>1 DEF WorkspaceNext
  <2>2. CASE part # "chat"
    BY <1>9, <2>2 DEF WorkspaceNext
  <2>3. QED
    BY <2>1, <2>2
<1>10. ASSUME WorkspaceNext PROVE [CleanupNext]_cleanupVars
  <2>1. CASE part = "cleanup"
    BY <1>10, <2>1 DEF WorkspaceNext
  <2>2. CASE part # "cleanup"
    BY <1>10, <2>2 DEF WorkspaceNext
  <2>3. QED
    BY <2>1, <2>2
<1>11. ASSUME WorkspaceNext PROVE [AcceptanceNext]_acceptanceVars
  <2>1. CASE part = "acceptance"
    BY <1>11, <2>1 DEF WorkspaceNext
  <2>2. CASE part # "acceptance"
    BY <1>11, <2>2 DEF WorkspaceNext
  <2>3. QED
    BY <2>1, <2>2
<1>12. ASSUME WorkspaceNext PROVE [PagingNext]_pagingVars
  <2>1. CASE part = "paging"
    BY <1>12, <2>1 DEF WorkspaceNext
  <2>2. CASE part # "paging"
    BY <1>12, <2>2 DEF WorkspaceNext
  <2>3. QED
    BY <2>1, <2>2
<1>13. QED
  BY <1>1, <1>2, <1>3, <1>4, <1>5, <1>6, <1>7, <1>8, <1>9, <1>10, <1>11, <1>12

(* The workspace is each of its services, with the others beside it.        *)
THEOREM WorkspaceRunsAll ==
  WorkspaceSpec => /\ RoadmapSpec
                   /\ ScheduleSpec
                   /\ ControlSpec
                   /\ RecoverySpec
                   /\ RouteSpec
                   /\ MemorySpec
                   /\ SyncSpec
                   /\ ChatSpec
                   /\ CleanupSpec
                   /\ AcceptanceSpec
                   /\ PagingSpec
<1>1. WorkspaceInit => /\ RoadmapInit
                       /\ ScheduleInit
                       /\ ControlInit
                       /\ RecoveryInit
                       /\ RouteInit
                       /\ MemoryInit
                       /\ SyncInit
                       /\ ChatInit
                       /\ CleanupInit
                       /\ AcceptanceInit
                       /\ PagingInit
  BY DEF WorkspaceInit
<1>2. [WorkspaceNext]_WorkspaceVars =>
        /\ [RoadmapNext]_roadmapVars
        /\ [ScheduleNext]_scheduleVars
        /\ [ControlNext]_controlVars
        /\ [RecoveryNext]_recoveryVars
        /\ [RouteNext]_routeVars
        /\ [MemoryNext]_memoryVars
        /\ [SyncNext]_syncVars
        /\ [ChatNext]_chatVars
        /\ [CleanupNext]_cleanupVars
        /\ [AcceptanceNext]_acceptanceVars
        /\ [PagingNext]_pagingVars
  BY PartsStep
<1>3. QED
  BY <1>1, <1>2, PTL
     DEF WorkspaceSpec, RoadmapSpec, ScheduleSpec, ControlSpec, RecoverySpec, RouteSpec, MemorySpec, SyncSpec, ChatSpec, CleanupSpec, AcceptanceSpec, PagingSpec

(* Every service keeps its types in the workspace, for every value of the   *)
(* constants.                                                               *)
THEOREM WorkspaceTypesHold == WorkspaceSpec => []WorkspaceTypeOK
<1>1. /\ RoadmapTypeOK
      /\ ScheduleTypeOK
      /\ ControlTypeOK
      /\ RecoveryTypeOK
      /\ RouteTypeOK
      /\ MemoryTypeOK
      /\ SyncTypeOK
      /\ ChatTypeOK
      /\ CleanupTypeOK
      /\ AcceptanceTypeOK
      /\ PagingTypeOK
      => WorkspaceTypeOK
  BY DEF WorkspaceTypeOK
<1>2. QED
  BY <1>1, WorkspaceRunsAll, RoadmapTypesHold, ScheduleTypesHold, ControlTypesHold, RecoveryTypesHold, RouteTypesHold, MemoryTypesHold, SyncTypesHold, ChatTypesHold, CleanupTypesHold, AcceptanceTypesHold, PagingEnds, PTL

(* And what each service promises by itself it keeps in the workspace: all  *)
(* that the run of the workspace services checks, for every value of the    *)
(* constants.                                                               *)
THEOREM WorkspaceKeepsPromises ==
  WorkspaceSpec =>
    /\ []StartedWorkIsJustified /\ []ChildrenKeepContract /\ []ServedSelectionIsReady
    /\ []GraphTellsWhatMayStart /\ NoChangeUndone
    /\ []ScheduleIsGreedy
    /\ []OneEffectPerApproval /\ []AuditTellsWhatRan
    /\ []OccurrencesCounted /\ []RepairStaysInBudget
    /\ []KeyAnswersAgree /\ []FreshSelectionIsBest /\ []UnavailableIsEarned
    /\ []NoUpdateLost /\ []QuietCompactionIsLossless /\ []LearningIsBacked
    /\ []QuietRefreshIsComplete
    /\ []ResponseIsOfItsOperation
    /\ []CleanupKeepsListedWork
    /\ []TickedWorkIsPushed
BY WorkspaceRunsAll, StartedIsJustified, ChildrenKeep, ServedIsReady, GraphAgrees, NothingUndone,
   SchedulesAreGreedy, EffectsArePaid, AuditIsTrue, FailuresAreCounted, RepairsEnd,
   KeysAnswerOnce, FreshIsBest, UnavailableEarned, UpdatesAreKept, CompactionKeepsAll,
   LearnedIsBacked, QuietRefreshHolds, ResponsesAreTheirs, ListedWorkIsKept, TicksAreEvidence, PTL

=============================================================================
