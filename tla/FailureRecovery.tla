--------------------------- MODULE FailureRecovery ---------------------------
(***************************************************************************)
(* What follows a failure: it is counted in the failure registry, the       *)
(* classifier decides from its code, family and retry count, and a repair   *)
(* controller (BoundedRepairController, or HostRecoveryController with its   *)
(* list of actions) runs attempts until one succeeds or the budget is spent.*)
(* Several workers record the same failure at once.                         *)
(***************************************************************************)
EXTENDS Naturals, Sequences, FiniteSets, FiniteSetsExt

CONSTANTS
    Workers,
    Failures,          \* set of [code, family]
    Overrides,         \* max_attempts_override values callers give
    NoOverride,
    MaxFailures,       \* bound: failures of one history
    HostActions        \* the numbers of actions callers of recover bring

ASSUME RecoveryAssumption ==
    /\ Overrides \subseteq Nat /\ HostActions \subseteq Nat /\ MaxFailures \in Nat
    /\ IsFiniteSet(Workers) /\ IsFiniteSet(Failures)

MAX_PROVIDER_RETRIES == 2
MAX_RECOVERY_RETRIES == 1
MAX_ACTIONS == 3       \* HostRecoveryController

VARIABLES
    occurrences,   \* failure_signature: failure -> occurrence_count, 0 when no row
    repair,        \* worker -> its repair
    recorded   \* history: failure -> the record calls that returned

recoveryVars == <<occurrences, repair, recorded>>

---------------------------------------------------------------------------
Decision(classification, action, budget) ==
    [classification |-> classification, action |-> action, max_attempts |-> budget]

TransientFamilies == {"transient_provider", "timeout", "overloaded"}

(* The rules in the order of the code, each with what it decides. *)
RecoveryRules(failure, retries, identityKept) ==
    LET code == failure.code
        family == failure.family
    IN  <<
          <<~ identityKept, Decision("terminal", "stop", 0)>>,
          <<family \in {"corruption", "integrity"}, Decision("terminal", "stop", 0)>>,
          <<family \in {"auth", "authorization", "permission"},
            Decision("human_required", "pause_for_authorization", 0)>>,
          <<code \in {"invalid_request", "schema_invalid", "unsafe_command"},
            Decision("blocked", "repair_input", 0)>>,
          <<code \in {"usage_limit", "context_exhausted"} \/ family = "context",
            Decision("recoverable", "fresh_chat_and_rebind", MAX_RECOVERY_RETRIES)>>,
          <<code \in {"connection_lost", "controller_lost"} \/ family = "connection",
            Decision("recoverable", "reconnect_same_operation", MAX_RECOVERY_RETRIES)>>,
          <<family \in TransientFamilies /\ retries < MAX_PROVIDER_RETRIES,
            Decision("retryable", "retry_same_operation", MAX_PROVIDER_RETRIES)>>,
          <<family \in TransientFamilies, Decision("terminal", "stop", 0)>>,
          <<TRUE, Decision("human_required", "pause_for_review", 0)>> >>

(* The first that applies. *)
classify(failure, retries, identityKept) ==
    LET rules == RecoveryRules(failure, retries, identityKept)
        first == CHOOSE i \in DOMAIN rules :
                    rules[i][1] /\ \A j \in 1..(i - 1) : ~ rules[j][1]
    IN  rules[first][2]

ValidDecision(d) ==
    /\ d.classification = "retryable" => d.max_attempts > 0
    /\ d.classification \in {"blocked", "terminal", "human_required"} => d.max_attempts = 0

---------------------------------------------------------------------------
Resting == [stage |-> "resting", retries |-> 0]

RecoveryInit ==
    /\ occurrences = [f \in Failures |-> 0]
    /\ repair = [w \in Workers |-> Resting]
    /\ recorded = [f \in Failures |-> 0]

Recorded == {w \in Workers : repair[w].stage \in {"insert", "update"}}

Total == MapThenSumSet(LAMBDA f : recorded[f], Failures)

(* record: whether the signature has a row is read before anything is written. *)
ReadSignature(w, f) ==
    /\ repair[w].stage = "resting"
    /\ Total + Cardinality(Recorded) < MaxFailures
    /\ repair' = [repair EXCEPT ![w] =
          [stage |-> IF occurrences[f] = 0 THEN "insert" ELSE "update",
           retries |-> repair[w].retries, failure |-> f]]
    /\ UNCHANGED <<occurrences, recorded>>

(* The row was absent when it was read: the insert fails if it is there now. *)
(* (Mutant: a row that came meanwhile is replaced.) *)
InsertOrReplace(w) ==
    LET f == repair[w].failure IN
    /\ repair[w].stage = "insert"
    /\ occurrences' = [occurrences EXCEPT ![f] = 1]
    /\ recorded' = [recorded EXCEPT ![f] = @ + 1]
    /\ repair' = [repair EXCEPT ![w].stage = "classify"]

InsertSignature(w) ==
    LET f == repair[w].failure IN
    /\ repair[w].stage = "insert"
    /\ IF occurrences[f] = 0
       THEN /\ occurrences' = [occurrences EXCEPT ![f] = 1]
            /\ recorded' = [recorded EXCEPT ![f] = @ + 1]
            /\ repair' = [repair EXCEPT ![w].stage = "classify"]
       ELSE /\ repair' = [repair EXCEPT ![w] = Resting]
            /\ UNCHANGED <<occurrences, recorded>>

(* occurrence_count = occurrence_count + 1, in one statement. *)
CountSignature(w) ==
    LET f == repair[w].failure IN
    /\ repair[w].stage = "update"
    /\ occurrences' = [occurrences EXCEPT ![f] = @ + 1]
    /\ recorded' = [recorded EXCEPT ![f] = @ + 1]
    /\ repair' = [repair EXCEPT ![w].stage = "classify"]

Repairing(w, budget, decision) ==
    repair' = [repair EXCEPT ![w] =
        [stage |-> IF budget = 0 THEN "over" ELSE "attempt", retries |-> repair[w].retries,
         failure |-> repair[w].failure, decision |-> decision,
         budget |-> budget, attempts |-> 0]]

(* BoundedRepairController.execute: the decision's budget, or the caller's. *)
StartRepair(w, override, kept) ==
    /\ repair[w].stage = "classify"
    /\ LET decision == classify(repair[w].failure, repair[w].retries, kept)
       IN  Repairing(w, IF override = NoOverride THEN decision.max_attempts ELSE override,
                     decision)
    /\ UNCHANGED <<occurrences, recorded>>

(* HostRecoveryController.recover: at most MAX_ACTIONS of the actions given, *)
(* and none unless the failure may be retried or recovered.                 *)
StartHostRecovery(w, count) ==
    /\ repair[w].stage = "classify"
    /\ LET decision == classify(repair[w].failure, repair[w].retries, TRUE)
       IN  Repairing(w,
             IF decision.classification \in {"retryable", "recoverable"}
             THEN IF count < MAX_ACTIONS THEN count ELSE MAX_ACTIONS
             ELSE 0, decision)
    /\ UNCHANGED <<occurrences, recorded>>

(* The turn that is being made was the last; the mutant allows one more. *)
ExhaustedLate(w) == repair[w].attempts = repair[w].budget
Exhausted(w) == repair[w].attempts + 1 = repair[w].budget

(* One turn of either loop. *)
Attempt(w, succeeded) ==
    /\ repair[w].stage = "attempt"
    /\ repair' = [repair EXCEPT
          ![w].attempts = @ + 1,
          ![w].stage = IF succeeded THEN "repaired"
                       ELSE IF Exhausted(w) THEN "over"
                       ELSE "attempt"]
    /\ UNCHANGED <<occurrences, recorded>>

(* The caller (not in src/src): a repaired worker goes on, and one whose    *)
(* retryable failure was not repaired comes back with a higher retry count. *)
Resume(w) ==
    /\ repair[w].stage \in {"repaired", "over"}
    /\ repair' = [repair EXCEPT ![w] =
          [Resting EXCEPT !.retries =
              IF repair[w].stage = "over" /\ repair[w].decision.classification = "retryable"
              THEN repair[w].retries + repair[w].attempts
              ELSE 0]]
    /\ UNCHANGED <<occurrences, recorded>>

RecoveryNext ==
    \E w \in Workers :
        \/ \E f \in Failures : ReadSignature(w, f)
        \/ InsertSignature(w)
        \/ CountSignature(w)
        \/ \E o \in Overrides \cup {NoOverride}, kept \in BOOLEAN : StartRepair(w, o, kept)
        \/ \E n \in HostActions : StartHostRecovery(w, n)
        \/ \E succeeded \in BOOLEAN : Attempt(w, succeeded)
        \/ Resume(w)

RecoverySpec == RecoveryInit /\ [][RecoveryNext]_recoveryVars

---------------------------------------------------------------------------
RecoveryTypeOK ==
    /\ occurrences \in [Failures -> 0..MaxFailures]
    /\ recorded \in [Failures -> 0..MaxFailures]
    /\ \A w \in Workers :
          /\ repair[w].stage \in {"resting", "insert", "update", "classify", "attempt",
                                  "repaired", "over"}
          /\ repair[w].stage = "attempt" => repair[w].attempts < repair[w].budget

(* No occurrence is lost or counted twice, whichever workers record a       *)
(* failure at once: the count is the number of record calls that returned   *)
(* (SQLiteFailureRegistry.record).                                          *)
OccurrencesCounted == occurrences = recorded

(* A classification that leaves no automatic way on (terminal, blocked,     *)
(* human_required) carries no budget, every other a positive one, and with  *)
(* no override the attempts stay within it or, for the host's actions,      *)
(* within MAX_ACTIONS (classify, validate_recovery_decision, both loops).   *)
RepairStaysInBudget ==
    \A w \in Workers : repair[w].stage \in {"attempt", "repaired", "over"} =>
        /\ ValidDecision(repair[w].decision)
        /\ repair[w].attempts <= repair[w].budget
        /\ repair[w].stage = "over" => repair[w].attempts = repair[w].budget
        /\ repair[w].budget \in Overrides \cup 0..MAX_ACTIONS
=============================================================================
