---------------------------- MODULE AcceptanceRun ----------------------------
(* scripts/pasi_168h_acceptance.py: the supervisor of the 168-hour run.  It  *)
(* takes the first unticked task of the phase issues, lets the executor work *)
(* on it in a worktree, pushes the branch and ticks the task in the issue.   *)
(* The supervisor may die or be started again at any time.  The executor     *)
(* commits its work, leaves changes behind or fails, and stays on the branch *)
(* it was given; people edit the issues meanwhile.                           *)
(*                                                                           *)
(* A branch is the sequence of the tasks it has commits for, from            *)
(* origin/main on.  Real runs only: --smoke just reads, and main refuses to  *)
(* start without PASI_PUSH=1.  state.json, the events and the context file   *)
(* are written and never read for control, and so are the issues when main   *)
(* reads them a second time after a task.                                    *)
EXTENDS Naturals, Sequences, FiniteSets

CONSTANTS
    Phases,       \* the phases of the roadmap file, in order, each an issue
    TasksOf,      \* phase -> the tasks its issue lists, in order
    RunBranches,  \* branch names a run is started with
    MaxRuns,      \* bound: starts of the supervisor
    MaxEdits,     \* bound: edits of the issues by people
    MaxCommits,   \* bound: commits on a branch
    NoBranch

ASSUME AcceptanceAssumption ==
    Len(Phases) \in Nat /\ \A p \in 1..Len(Phases) : Len(TasksOf[p]) \in Nat

Tasks == UNION {{TasksOf[p][i] : i \in 1..Len(TasksOf[p])} : p \in 1..Len(Phases)}

VARIABLES
    issues,      \* phase -> [ticked, edition]: the body of its issue on GitHub
    worktree,    \* [branch, dirty]: what is checked out
    locals,      \* branch -> its commits in the local repository
    remotes,     \* branch -> its commits on the remote
    supervisor,  \* run_task's and main's variables, and the step it is at
    runs,        \* starts so far
    ticks        \* history: tasks the supervisor ticked

acceptanceVars == <<issues, worktree, locals, remotes, supervisor, runs, ticks>>

PhaseOf(t) == CHOOSE p \in 1..Len(Phases) :
                  \E i \in 1..Len(TasksOf[p]) : TasksOf[p][i] = t

Asleep == [at |-> "asleep", branch |-> NoBranch, phase |-> 1, task |-> {},
           before |-> 0, body |-> [ticked |-> {}, edition |-> 0]]

AcceptanceInit ==
    /\ issues = [p \in 1..Len(Phases) |-> [ticked |-> {}, edition |-> 0]]
    /\ worktree = [branch |-> NoBranch, dirty |-> FALSE]
    /\ locals = [b \in RunBranches |-> <<>>]
    /\ remotes = [b \in RunBranches |-> <<>>]
    /\ supervisor = Asleep
    /\ runs = 0
    /\ ticks = {}

(* ensure_worktree: a worktree that holds another branch must be clean, and  *)
(* a branch that does not exist is made from origin/main; a new worktree     *)
(* takes its branch from origin/main also when it exists (worktree add -B).  *)
(* A dirty worktree, or a fetch that fails, ends the run before it starts.   *)
StartRun(b) ==
    /\ supervisor.at = "asleep" /\ runs < MaxRuns
    /\ runs' = runs + 1
    /\ ~ worktree.dirty
    /\ worktree' = [branch |-> b, dirty |-> FALSE]
    /\ locals' = IF worktree.branch = NoBranch THEN [locals EXCEPT ![b] = <<>>] ELSE locals
    /\ supervisor' = [Asleep EXCEPT !.at = "reading", !.branch = b]
    /\ UNCHANGED <<issues, remotes, ticks>>

Unticked(p) == {i \in 1..Len(TasksOf[p]) : TasksOf[p][i] \notin issues[p].ticked}

(* all_tasks: one request per issue, in the order of the phases; the first   *)
(* task found unticked is the one that is taken, all of them are read.       *)
ReadIssue ==
    /\ supervisor.at = "reading" /\ supervisor.phase <= Len(Phases)
    /\ LET p == supervisor.phase IN
       supervisor' = [supervisor EXCEPT
           !.phase = p + 1,
           !.task = IF @ # {} \/ Unticked(p) = {} THEN @
                    ELSE {TasksOf[p][CHOOSE i \in Unticked(p) :
                                         \A j \in Unticked(p) : i <= j]}]
    /\ UNCHANGED <<issues, worktree, locals, remotes, runs, ticks>>

(* run_task up to the executor, or roadmap_complete. *)
TakeTask ==
    /\ supervisor.at = "reading" /\ supervisor.phase > Len(Phases)
    /\ supervisor' = IF supervisor.task = {} THEN Asleep
                     ELSE [supervisor EXCEPT !.at = "executing",
                                             !.before = Len(locals[worktree.branch])]
    /\ UNCHANGED <<issues, worktree, locals, remotes, runs, ticks>>

(* The executor: it may commit for the task, may leave changes, and may then *)
(* end well, end badly or be killed by the timeout.  run_task goes on only   *)
(* after a clean, committed, successful end; the run fails otherwise.        *)
ExecutorEnds(commits, dirty, succeeds) ==
    /\ supervisor.at = "executing"
    /\ LET done == IF commits THEN Append(locals[worktree.branch],
                                          CHOOSE t \in supervisor.task : TRUE)
                   ELSE locals[worktree.branch]
       IN /\ Len(done) <= MaxCommits
          /\ locals' = [locals EXCEPT ![worktree.branch] = done]
          /\ worktree' = [worktree EXCEPT !.dirty = dirty]
          /\ supervisor' = IF succeeds /\ ~ dirty /\ Len(done) # supervisor.before
                           THEN [supervisor EXCEPT !.at = "pushing"] ELSE Asleep
    /\ UNCHANGED <<issues, remotes, runs, ticks>>

IsPrefixOf(s, t) == Len(s) <= Len(t) /\ SubSeq(t, 1, Len(s)) = s

(* git push: refused when the remote branch has commits this one has not. *)
(* (Mutant: the push is skipped.) *)
PushNothing ==
    /\ supervisor.at = "pushing"
    /\ supervisor' = [supervisor EXCEPT !.at = "marking"]
    /\ UNCHANGED <<issues, worktree, locals, remotes, runs, ticks>>

PushBranch ==
    /\ supervisor.at = "pushing"
    /\ LET b == worktree.branch IN
       \/ /\ IsPrefixOf(remotes[b], locals[b])
          /\ remotes' = [remotes EXCEPT ![b] = locals[b]]
          /\ supervisor' = [supervisor EXCEPT !.at = "marking"]
       \/ /\ ~ IsPrefixOf(remotes[b], locals[b])
          /\ supervisor' = Asleep
          /\ UNCHANGED remotes
    /\ UNCHANGED <<issues, worktree, locals, runs, ticks>>

TheTask == CHOOSE t \in supervisor.task : TRUE

(* mark_checked: the body is read, and written back whole with one more      *)
(* tick.  A task that somebody ticked meanwhile fails the run.               *)
ReadBody ==
    /\ supervisor.at = "marking"
    /\ LET body == issues[PhaseOf(TheTask)] IN
       supervisor' = IF TheTask \in body.ticked THEN Asleep
                     ELSE [supervisor EXCEPT !.at = "patching", !.body = body]
    /\ UNCHANGED <<issues, worktree, locals, remotes, runs, ticks>>

PatchBody ==
    /\ supervisor.at = "patching"
    /\ issues' = [issues EXCEPT ![PhaseOf(TheTask)] =
                    [supervisor.body EXCEPT !.ticked = @ \cup {TheTask}]]
    /\ ticks' = ticks \cup {TheTask}
    /\ supervisor' = [Asleep EXCEPT !.at = "reading", !.branch = supervisor.branch]
    /\ UNCHANGED <<worktree, locals, remotes, runs>>

(* A request or command fails, the deadline passes, or the process dies; a   *)
(* run that is started again begins from what the worktree holds.            *)
RunEnds ==
    /\ supervisor.at # "asleep"
    /\ supervisor' = Asleep
    /\ UNCHANGED <<issues, worktree, locals, remotes, runs, ticks>>

(* People: a tick set or taken away, and text edited; a dirty worktree is    *)
(* cleaned, or removed, by hand between two runs.                            *)
EditIssue(p) ==
    /\ issues[p].edition < MaxEdits
    /\ \E t \in {TasksOf[p][i] : i \in 1..Len(TasksOf[p])} :
          issues' = [issues EXCEPT ![p] =
                       [ticked |-> IF t \in @.ticked THEN @.ticked \ {t}
                                   ELSE @.ticked \cup {t},
                        edition |-> @.edition + 1]]
    /\ UNCHANGED <<worktree, locals, remotes, supervisor, runs, ticks>>

TidyWorktree(removed) ==
    /\ supervisor.at = "asleep" /\ worktree.branch # NoBranch
    /\ removed \/ worktree.dirty
    /\ worktree' = [branch |-> IF removed THEN NoBranch ELSE worktree.branch,
                    dirty |-> FALSE]
    /\ UNCHANGED <<issues, locals, remotes, supervisor, runs, ticks>>

AcceptanceNext ==
    \/ \E b \in RunBranches : StartRun(b)
    \/ ReadIssue \/ TakeTask \/ PushBranch \/ ReadBody \/ PatchBody \/ RunEnds
    \/ \E commits, dirty, succeeds \in BOOLEAN : ExecutorEnds(commits, dirty, succeeds)
    \/ \E p \in 1..Len(Phases) : EditIssue(p)
    \/ \E removed \in BOOLEAN : TidyWorktree(removed)

AcceptanceSpec == AcceptanceInit /\ [][AcceptanceNext]_acceptanceVars
-----------------------------------------------------------------------------
AcceptanceTypeOK ==
    /\ \A p \in 1..Len(Phases) : issues[p].ticked \subseteq Tasks
    /\ worktree.branch \in RunBranches \cup {NoBranch}
    /\ \A b \in RunBranches : locals[b] \in Seq(Tasks) /\ remotes[b] \in Seq(Tasks)
    /\ supervisor.at # "asleep" => worktree.branch = supervisor.branch

(* A task the supervisor ticked has its own commit on the remote, also when  *)
(* the run died, a branch was made anew or the worktree was removed: a tick  *)
(* is evidence (run_task's order: commit, push, tick; pushes never force).   *)
TickedWorkIsPushed ==
    \A t \in ticks : \E b \in RunBranches : \E i \in 1..Len(remotes[b]) : remotes[b][i] = t
=============================================================================
