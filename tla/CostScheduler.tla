---------------------------- MODULE CostScheduler ----------------------------
(***************************************************************************)
(* CostAwareScheduler.schedule: the ready tasks with a usable estimate and  *)
(* priority, taken by falling priority, then rising time, then identifier,  *)
(* each scheduled if it still fits.  One step is one turn of the loop.      *)
(***************************************************************************)
EXTENDS Naturals, FiniteSets, FiniteSetsExt

CONSTANTS
    ReadyTasks,  \* roadmap.ready_tasks(): naturals, ordered like their names
    Estimates,   \* the estimates given: [cpu, memory, time]
    Capacities,  \* the capacities given, likewise
    Priorities   \* the finite priorities given

Resources == {"cpu", "memory", "time"}

ASSUME ScheduleAssumption ==
    /\ ReadyTasks \subseteq Nat
    /\ IsFiniteSet(ReadyTasks)
    /\ Estimates \subseteq [Resources -> Nat]
    /\ Capacities \subseteq [Resources -> Nat]
    /\ Priorities \subseteq Int

NoEstimate == [resource \in Resources |-> 0]   \* none given, or no finite priority

VARIABLES
    given,      \* the call: estimates, priorities and capacity
    left,       \* candidates the loop has not reached
    remaining,  \* capacity that is left
    scheduled   \* the tasks scheduled so far

scheduleVars == <<given, left, remaining, scheduled>>

Candidates(call) == {t \in ReadyTasks : call.estimate[t] # NoEstimate}

ScheduleInit ==
    /\ given \in [estimate: [ReadyTasks -> Estimates \cup {NoEstimate}],
                  priority: [ReadyTasks -> Priorities],
                  capacity: Capacities]
    /\ left = Candidates(given)
    /\ remaining = given.capacity
    /\ scheduled = {}

(* The order of candidates.sort. *)
Before(s, t) ==
    LET ps == given.priority[s]
        pt == given.priority[t]
        ts == given.estimate[s]["time"]
        tt == given.estimate[t]["time"]
    IN  \/ ps > pt
        \/ ps = pt /\ ts < tt
        \/ ps = pt /\ ts = tt /\ s < t

(* Mutant: only the first capacity that is compared counts. *)
FitsOneResource(t) == given.estimate[t]["cpu"] <= remaining["cpu"]

Fits(t) == \A x \in Resources : given.estimate[t][x] <= remaining[x]

Turn(t) ==
    /\ t \in left
    /\ \A s \in left \ {t} : Before(t, s)
    /\ left' = left \ {t}
    /\ IF Fits(t)
       THEN /\ scheduled' = scheduled \cup {t}
            /\ remaining' = [x \in Resources |-> remaining[x] - given.estimate[t][x]]
       ELSE UNCHANGED <<scheduled, remaining>>
    /\ UNCHANGED given

ScheduleNext == \E t \in ReadyTasks : Turn(t)

ScheduleSpec == ScheduleInit /\ [][ScheduleNext]_scheduleVars

---------------------------------------------------------------------------
(* What a set of tasks needs of a resource. *)
Need(tasks, x) == MapThenSumSet(LAMBDA t : given.estimate[t][x], tasks)

ScheduleTypeOK ==
    /\ left \cup scheduled \subseteq Candidates(given)
    /\ \A x \in Resources : remaining[x] \in 0..given.capacity[x]

(* The schedule never needs more than the capacity of any resource, and a    *)
(* task that was left out lost its place to tasks of no lower priority: it   *)
(* does not fit beside those that come before it, so no capacity it could    *)
(* use is wasted either, whatever the estimates (schedule's loop).           *)
ScheduleIsGreedy ==
    /\ \A x \in Resources : Need(scheduled, x) <= given.capacity[x]
    /\ left = {} =>
          \A t \in Candidates(given) \ scheduled :
              \E x \in Resources :
                  Need({s \in scheduled : Before(s, t)}, x) + given.estimate[t][x]
                      > given.capacity[x]
=============================================================================
