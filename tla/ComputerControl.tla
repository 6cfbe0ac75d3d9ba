--------------------------- MODULE ComputerControl ---------------------------
(***************************************************************************)
(* ComputerControlService.execute over its three databases (capabilities,   *)
(* approvals, events) and the adapters it calls.  Several callers execute   *)
(* at once; every database statement and every adapter call is a step, and  *)
(* the process may die between any two of them.                             *)
(***************************************************************************)
EXTENDS Naturals, Sequences

CONSTANTS
    Agents,            \* threads that call execute
    ControlOperations, \* operation ids
    Capabilities,      \* capability id -> CapabilityDescriptor
    Terminal,          \* the capability whose action is a terminal command
    Targets,
    InScope,           \* pairs of capability and target the adapters accept
    ApprovalIds,
    NoApproval,
    MaxEffects         \* bound: adapter calls of one history

VARIABLES
    registry,   \* capability ids that are registered
    approvals,  \* approval id -> its row
    execution,  \* agent -> how far its execute call is
    ran,        \* history: the adapter calls that were made, in order
    journal,    \* durable_event: the audit events
    evidence    \* terminal_evidence: operation -> the command it describes, 0 when none

controlVars == <<registry, approvals, execution, ran, journal, evidence>>

CapabilityIds == DOMAIN Capabilities

Calls == [operation: ControlOperations, capability: CapabilityIds, target: Targets,
          approval: ApprovalIds \cup {NoApproval}]

Granted == [operation: ControlOperations, capability: CapabilityIds, target: Targets]

ApprovalRows == [grant: Granted, used: BOOLEAN, expired: BOOLEAN]

ASSUME ControlAssumption ==
    /\ NoApproval \notin ApprovalIds \cup ApprovalRows
    /\ InScope \subseteq CapabilityIds \X Targets

(* What CapabilityDescriptor refuses to be built with. *)
ValidDescriptor(d) ==
    /\ d.authorization \in {"none", "operator", "approval"}
    /\ d.effect \in {"read", "write", "external_write"}
    /\ d.effect # "read" => d.authorization # "none"

Idle == [stage |-> "idle"]
At(stage, call, index) == [stage |-> stage, call |-> call, index |-> index]
Go(a, stage) == execution' = [execution EXCEPT ![a].stage = stage]

ControlInit ==
    /\ registry = {}
    /\ approvals = [i \in ApprovalIds |-> NoApproval]
    /\ execution = [a \in Agents |-> Idle]
    /\ ran = <<>>
    /\ journal = {}
    /\ evidence = [o \in ControlOperations |-> 0]

Register(c) ==
    /\ c \notin registry
    /\ ValidDescriptor(Capabilities[c])
    /\ registry' = registry \cup {c}
    /\ UNCHANGED <<approvals, execution, ran, journal, evidence>>

Issue(i, grant) ==
    /\ approvals[i] = NoApproval
    /\ approvals' = [approvals EXCEPT ![i] = [grant |-> grant, used |-> FALSE, expired |-> FALSE]]
    /\ UNCHANGED <<registry, execution, ran, journal, evidence>>

Expire(i) ==
    /\ approvals[i] # NoApproval
    /\ ~ approvals[i].expired
    /\ approvals' = [approvals EXCEPT ![i].expired = TRUE]
    /\ UNCHANGED <<registry, execution, ran, journal, evidence>>

(* A read goes on with whatever approval id it was given; the rest must     *)
(* have one of a capability that asks for approval.                         *)
Begin(a, call) ==
    /\ execution[a] = Idle
    /\ call.capability \in registry
    /\ LET d == Capabilities[call.capability] IN
         IF d.effect = "read"
         THEN execution' = [execution EXCEPT ![a] = At("act", call, 0)]
         ELSE /\ d.authorization = "approval"
              /\ call.approval # NoApproval
              /\ execution' = [execution EXCEPT ![a] = At("verify", call, 0)]
    /\ UNCHANGED <<registry, approvals, ran, journal, evidence>>

(* A wrong token is refused like any other mismatch; tokens are not modelled. *)
Verifies(row, call) ==
    /\ ~ row.used
    /\ row.grant = [operation |-> call.operation, capability |-> call.capability,
                    target |-> call.target]
    /\ ~ row.expired

(* consume: the row is read and verified ...  *)
Verify(a) ==
    /\ execution[a].stage = "verify"
    /\ LET call == execution[a].call
           row == approvals[call.approval]
       IN  IF row # NoApproval /\ Verifies(row, call)
           THEN Go(a, "consume")
           ELSE execution' = [execution EXCEPT ![a] = Idle]
    /\ UNCHANGED <<registry, approvals, ran, journal, evidence>>

(* ... and then marked, by whoever still finds it unused. *)
(* (Mutant: an approval that was found unused is marked blindly.) *)
ConsumeBlindly(a) ==
    /\ execution[a].stage = "consume"
    /\ approvals' = [approvals EXCEPT ![execution[a].call.approval].used = TRUE]
    /\ Go(a, "act")
    /\ UNCHANGED <<registry, ran, journal, evidence>>

Consume(a) ==
    /\ execution[a].stage = "consume"
    /\ LET i == execution[a].call.approval IN
         IF approvals[i].used
         THEN /\ execution' = [execution EXCEPT ![a] = Idle]
              /\ UNCHANGED approvals
         ELSE /\ Go(a, "act")
              /\ approvals' = [approvals EXCEPT ![i].used = TRUE]
    /\ UNCHANGED <<registry, ran, journal, evidence>>

(* The scope checks of the adapters and of the terminal come before the     *)
(* effect; one that refuses fails the action without any.                   *)
AdapterPermits(call) == <<call.capability, call.target>> \in InScope

(* The adapter acts, or the terminal runs the command until it ends or is  *)
(* killed by its timeout; or it fails before it had any effect, by a scope  *)
(* check or because the program or the file cannot be opened.               *)
Act(a, effect, outcome) ==
    /\ execution[a].stage = "act"
    /\ Len(ran) < MaxEffects
    /\ LET call == execution[a].call
           next == IF effect /\ call.capability = Terminal
                   THEN "evidence"
                   ELSE outcome
       IN  /\ effect => AdapterPermits(call)
           /\ ~ effect => outcome = "failed"
           /\ ran' = Append(ran, [call |-> call, effect |-> effect, outcome |-> outcome])
           /\ execution' = [execution EXCEPT ![a] = At(next, call, Len(ran) + 1)]
    /\ UNCHANGED <<registry, approvals, journal, evidence>>

(* The command's evidence replaces that of an earlier command of the operation. *)
RecordEvidence(a) ==
    /\ execution[a].stage = "evidence"
    /\ evidence' = [evidence EXCEPT ![execution[a].call.operation] = execution[a].index]
    /\ Go(a, ran[execution[a].index].outcome)
    /\ UNCHANGED <<registry, approvals, ran, journal>>

(* A statement raises, as SQLite does when a database stays locked or its   *)
(* disk is full.  The evidence is recorded inside the action, so there the  *)
(* action has failed, whatever the command did, and goes on to its audit;   *)
(* an error of the approvals or of the audit itself ends the call.          *)
DatabaseFails(a) ==
    /\ \/ execution[a].stage = "evidence" /\ Go(a, "failed")
       \/ /\ execution[a].stage \in {"verify", "consume", "done", "failed"}
          /\ execution' = [execution EXCEPT ![a] = Idle]
    /\ UNCHANGED <<registry, approvals, ran, journal, evidence>>

EventId(event) == <<event.kind, event.operation, event.capability>>

(* What the action ended as; the mutant does not tell a failure. *)
OutcomeDone(a) == "done"
Outcome(a) == execution[a].stage

(* append: an event whose id exists is refused, and the caller gets the     *)
(* error although the action took effect.                                   *)
Audit(a) ==
    /\ execution[a].stage \in {"done", "failed"}
    /\ LET call == execution[a].call
           event == [kind |-> Outcome(a), operation |-> call.operation,
                     capability |-> call.capability, index |-> execution[a].index]
       IN  journal' = IF \E e \in journal : EventId(e) = EventId(event)
                      THEN journal
                      ELSE journal \cup {event}
    /\ execution' = [execution EXCEPT ![a] = Idle]
    /\ UNCHANGED <<registry, approvals, ran, evidence>>

Die ==
    /\ \E a \in Agents : execution[a] # Idle
    /\ execution' = [a \in Agents |-> Idle]
    /\ UNCHANGED <<registry, approvals, ran, journal, evidence>>

AgentStep ==
    \/ \E a \in Agents, call \in Calls : Begin(a, call)
    \/ \E a \in Agents : \/ Verify(a) \/ Consume(a) \/ RecordEvidence(a) \/ Audit(a)
                         \/ DatabaseFails(a)
    \/ \E a \in Agents, effect \in BOOLEAN, outcome \in {"done", "failed"} :
         Act(a, effect, outcome)

ControlNext ==
    \/ \E c \in CapabilityIds : Register(c)
    \/ \E i \in ApprovalIds, grant \in Granted : Issue(i, grant)
    \/ \E i \in ApprovalIds : Expire(i)
    \/ AgentStep
    \/ Die

ControlSpec == ControlInit /\ [][ControlNext]_controlVars

---------------------------------------------------------------------------
Stages == {"verify", "consume", "act", "evidence", "done", "failed"}

ControlTypeOK ==
    /\ registry \subseteq CapabilityIds
    /\ approvals \in [ApprovalIds -> ApprovalRows \cup {NoApproval}]
    /\ \A a \in Agents : execution[a] = Idle \/
          execution[a] \in [stage: Stages, call: Calls, index: 0..Len(ran)]
    /\ \A i \in 1..Len(ran) : ran[i].call \in Calls
    /\ journal \subseteq [kind: {"done", "failed"}, operation: ControlOperations,
                          capability: CapabilityIds, index: 1..Len(ran)]
    /\ evidence \in [ControlOperations -> 0..Len(ran)]

Mutates(i) == Capabilities[ran[i].call.capability].effect # "read"

(* An approval pays for one adapter call: two agents that both read it      *)
(* unused do not both act, and the call that was made is the one that was   *)
(* approved (SQLiteApprovalStore.consume's compare-and-set after verify).   *)
OneEffectPerApproval ==
    \A i \in 1..Len(ran) : Mutates(i) =>
        LET call == ran[i].call IN
        /\ approvals[call.approval].used
        /\ approvals[call.approval].grant =
             [operation |-> call.operation, capability |-> call.capability,
              target |-> call.target]
        /\ \A j \in 1..Len(ran) :
              Mutates(j) /\ ran[j].call.approval = call.approval => i = j

(* The journal never makes more of an adapter call than it was: an action   *)
(* that is recorded as completed had its effect and ended well, and if it   *)
(* was a command its evidence was kept first; one that is recorded as       *)
(* failed did fail, or was a command that ran but whose evidence could not  *)
(* be kept (execute's order: act, record, audit, around one try).           *)
AuditTellsWhatRan ==
    \A e \in journal :
        LET call == ran[e.index].call IN
        /\ call.operation = e.operation /\ call.capability = e.capability
        /\ e.kind = "done" =>
             /\ ran[e.index].effect /\ ran[e.index].outcome = "done"
             /\ e.capability = Terminal => evidence[e.operation] # 0
        /\ e.kind = "failed" =>
             \/ ran[e.index].outcome = "failed"
             \/ e.capability = Terminal /\ ran[e.index].effect
=============================================================================
