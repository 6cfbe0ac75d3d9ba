---------------------------- MODULE EffectProofs ----------------------------
(***************************************************************************)
(* Theorems about what acts on the world, for any number of agents,        *)
(* workers, operations, tasks, sessions and branches: computer control,    *)
(* the repair of failures, the acceptance run, and the two clients that    *)
(* act on what another system told them a moment ago, the chat adapter and *)
(* the branch cleanup.                                                     *)
(***************************************************************************)
EXTENDS ComputerControl, FailureRecovery, AcceptanceRun, ChatAdapter, BranchCleanup,
        SetSums, WellFoundedInduction, FiniteSetTheorems, TLAPS

(***************************************************************************)
(* Computer control.                                                       *)
(***************************************************************************)
Mutating(call) == Capabilities[call.capability].effect # "read"

(* The approval that a call names was issued for it.                       *)
Approved(call) ==
  /\ call.approval \in ApprovalIds
  /\ approvals[call.approval] \in ApprovalRows
  /\ approvals[call.approval].grant =
       [operation |-> call.operation, capability |-> call.capability, target |-> call.target]

Paid(call) == Approved(call) /\ approvals[call.approval].used

Effects == [call : Calls, effect : BOOLEAN, outcome : {"done", "failed"}]

Executing == [stage : Stages, call : Calls, index : Nat]

(* The types, with what ControlTypeOK leaves to the order of the actions.  *)
ControlTypes ==
  /\ registry \subseteq CapabilityIds
  /\ approvals \in [ApprovalIds -> ApprovalRows \cup {NoApproval}]
  /\ ran \in Seq(Effects)
  /\ execution \in [Agents -> {Idle} \cup Executing]
  /\ \A a \in Agents : execution[a] # Idle => execution[a].index \in 0..Len(ran)
  /\ journal \subseteq [kind : {"done", "failed"}, operation : ControlOperations,
                        capability : CapabilityIds, index : 1..Len(ran)]
  /\ evidence \in [ControlOperations -> 0..Len(ran)]

(* How far a call is tells what became of its approval: an agent about to  *)
(* act holds a used approval alone, and no effect was had with it yet.     *)
PaymentInv ==
  /\ \A a \in Agents : execution[a].stage \in {"verify", "consume"} =>
       Mutating(execution[a].call) /\ execution[a].call.approval \in ApprovalIds
  /\ \A a \in Agents : execution[a].stage = "consume" => Approved(execution[a].call)
  /\ \A a \in Agents : execution[a].stage = "act" /\ Mutating(execution[a].call) =>
       /\ Paid(execution[a].call)
       /\ \A j \in 1..Len(ran) :
            Mutates(j) => ran[j].call.approval # execution[a].call.approval
       /\ \A b \in Agents :
            /\ execution[b].stage = "act" /\ Mutating(execution[b].call)
            /\ execution[b].call.approval = execution[a].call.approval
            => a = b
  /\ \A i \in 1..Len(ran) : Mutates(i) =>
       /\ Paid(ran[i].call)
       /\ \A j \in 1..Len(ran) :
            Mutates(j) /\ ran[j].call.approval = ran[i].call.approval => i = j

(* To audit the adapter call i as what kind says would be the truth.       *)
Tells(kind, i) ==
  /\ kind = "done" =>
       /\ ran[i].effect /\ ran[i].outcome = "done"
       /\ ran[i].call.capability = Terminal => evidence[ran[i].call.operation] # 0
  /\ kind = "failed" =>
       ran[i].outcome = "failed" \/ (ran[i].call.capability = Terminal /\ ran[i].effect)

(* A command that is to leave its evidence did run, and what a call is     *)
(* about to audit is the truth.                                            *)
EffectInv ==
  /\ \A a \in Agents : execution[a].stage \in {"evidence", "done", "failed"} =>
       /\ execution[a].index \in 1..Len(ran)
       /\ ran[execution[a].index].call = execution[a].call
  /\ \A a \in Agents : execution[a].stage = "evidence" =>
       ran[execution[a].index].effect /\ execution[a].call.capability = Terminal
  /\ \A a \in Agents : execution[a].stage \in {"done", "failed"} =>
       Tells(execution[a].stage, execution[a].index)
  /\ AuditTellsWhatRan

ControlInv == ControlTypes /\ PaymentInv /\ EffectInv

LEMMA ControlInitInv == ControlInit => ControlInv
BY ControlAssumption
   DEF ControlInit, ControlInv, ControlTypes, PaymentInv, EffectInv, AuditTellsWhatRan, Idle

(* Where a call stands, and where Go takes it.                             *)
LEMMA BusyAgent ==
  ASSUME ControlTypes, NEW a \in Agents, execution[a].stage \in Stages
  PROVE  /\ execution[a] \in Executing
         /\ execution[a].call \in Calls
         /\ execution[a].index \in 0..Len(ran)
<1>1. execution[a] # Idle
  BY DEF Idle, Stages
<1>2. QED
  BY <1>1 DEF ControlTypes, Executing

LEMMA GoStep ==
  ASSUME ControlTypes, NEW a \in Agents, execution[a].stage \in Stages,
         NEW s \in Stages, Go(a, s)
  PROVE  /\ execution' \in [Agents -> {Idle} \cup Executing]
         /\ execution'[a] = At(s, execution[a].call, execution[a].index)
         /\ \A b \in Agents : b # a => execution'[b] = execution[b]
<1>1. execution[a] \in Executing
  BY BusyAgent
<1>2. [execution[a] EXCEPT !.stage = s] = At(s, execution[a].call, execution[a].index)
  BY <1>1 DEF Executing, At
<1>3. At(s, execution[a].call, execution[a].index) \in Executing
  BY <1>1 DEF Executing, At
<1>4. QED
  BY <1>2, <1>3 DEF Go, ControlTypes

(* A step that runs no adapter and keeps the rows as they are, and by      *)
(* which the agents other than one stay where they are.                    *)
LEMMA QuietStep ==
  ASSUME ControlInv, NEW a \in Agents,
         execution' \in [Agents -> {Idle} \cup Executing],
         \A b \in Agents : b # a => execution'[b] = execution[b],
         \/ execution'[a] = Idle
         \/ /\ execution'[a].stage = "verify" /\ execution'[a].index = 0
            /\ Mutating(execution'[a].call) /\ execution'[a].call.approval \in ApprovalIds
         \/ /\ execution'[a].stage = "act" /\ execution'[a].index = 0
            /\ ~ Mutating(execution'[a].call)
         \/ /\ execution'[a].stage = "consume" /\ Approved(execution[a].call)
            /\ execution[a].stage = "verify"
            /\ execution'[a].call = execution[a].call
            /\ execution'[a].index = execution[a].index
         \/ /\ execution'[a].stage = "failed" /\ execution[a].stage = "evidence"
            /\ execution'[a].call = execution[a].call
            /\ execution'[a].index = execution[a].index,
         UNCHANGED <<registry, approvals, ran, journal, evidence>>
  PROVE  ControlInv'
<1> USE DEF ControlInv
<1>1. ran \in Seq(Effects) /\ Len(ran) \in Nat
  BY DEF ControlTypes
<1>2. ASSUME NEW b \in Agents, execution'[b] # Idle PROVE execution'[b].index \in 0..Len(ran)
  <2>1. CASE b # a
    BY <1>2, <2>1 DEF ControlTypes
  <2>2. CASE b = a /\ execution'[a].index = 0
    BY <1>1, <2>2
  <2>3. CASE /\ b = a /\ execution[a].stage \in {"verify", "evidence"}
             /\ execution'[a].index = execution[a].index
    BY <2>3, BusyAgent DEF Stages
  <2>4. QED
    BY <1>2, <2>1, <2>2, <2>3
<1>3. ControlTypes'
  BY <1>2 DEF ControlTypes
<1>4. \A c : Approved(c)' = Approved(c) /\ Paid(c)' = Paid(c)
  BY DEF Approved, Paid
<1>5. \A i : Mutates(i)' = Mutates(i) /\ \A kind : Tells(kind, i)' = Tells(kind, i)
  BY DEF Mutates, Tells
<1>6. AuditTellsWhatRan'
  BY DEF AuditTellsWhatRan, EffectInv
<1>7. Idle.stage = "idle"
  BY DEF Idle
<1>8. PaymentInv'
  <2>1. ASSUME NEW b \in Agents, execution'[b].stage \in {"verify", "consume"}
        PROVE  /\ Mutating(execution'[b].call) /\ execution'[b].call.approval \in ApprovalIds
               /\ execution'[b].stage = "consume" => Approved(execution'[b].call)
    BY <1>7, <2>1 DEF PaymentInv
  <2>2. ASSUME NEW b \in Agents, execution'[b].stage = "act", Mutating(execution'[b].call)
        PROVE  b # a /\ execution'[b] = execution[b]
    BY <1>7, <2>2
  <2>3. ASSUME NEW b \in Agents, execution'[b].stage = "act", Mutating(execution'[b].call)
        PROVE  /\ Paid(execution[b].call)'
               /\ \A j \in 1..Len(ran) :
                    Mutates(j) => ran[j].call.approval # execution'[b].call.approval
    <3>1. execution'[b] = execution[b]
      BY <2>2, <2>3
    <3>2. Paid(execution[b].call) /\ \A j \in 1..Len(ran) :
            Mutates(j) => ran[j].call.approval # execution[b].call.approval
      BY <2>3, <3>1 DEF PaymentInv
    <3>3. QED
      BY <3>1, <3>2, <1>4
  <2>4. ASSUME NEW b \in Agents, execution'[b].stage = "act", Mutating(execution'[b].call),
               NEW c \in Agents, execution'[c].stage = "act", Mutating(execution'[c].call),
               execution'[c].call.approval = execution'[b].call.approval
        PROVE  b = c
    <3>1. execution'[b] = execution[b] /\ execution'[c] = execution[c]
      BY <2>2, <2>4
    <3>2. QED
      BY <2>4, <3>1 DEF PaymentInv
  <2>5. \A i \in 1..Len(ran) : Mutates(i) =>
          /\ Paid(ran[i].call)
          /\ \A j \in 1..Len(ran) :
               Mutates(j) /\ ran[j].call.approval = ran[i].call.approval => i = j
    BY DEF PaymentInv
  <2>6. ran' = ran
    OBVIOUS
  <2>7. QED
    <3>1. \A i : Mutates(i)' = Mutates(i)
      BY <1>5
    <3>2. \A i \in 1..Len(ran) : Mutates(i) => Paid(ran[i].call)'
      BY <1>4, <2>5
    <3>3. \A b \in Agents : execution'[b].stage = "consume" => Approved(execution[b].call)'
      BY <1>4, <2>1
    <3> HIDE DEF ControlInv
    <3>4. (\A b \in Agents : execution[b].stage \in {"verify", "consume"} =>
             Mutating(execution[b].call) /\ execution[b].call.approval \in ApprovalIds)'
      BY <2>1 DEF Mutating
    <3>5. (\A b \in Agents : execution[b].stage = "consume" => Approved(execution[b].call))'
      BY <3>3
    <3>6. (\A b \in Agents : execution[b].stage = "act" /\ Mutating(execution[b].call) =>
             /\ Paid(execution[b].call)
             /\ \A j \in 1..Len(ran) :
                  Mutates(j) => ran[j].call.approval # execution[b].call.approval
             /\ \A c \in Agents :
                  /\ execution[c].stage = "act" /\ Mutating(execution[c].call)
                  /\ execution[c].call.approval = execution[b].call.approval
                  => b = c)'
      BY <2>3, <2>4, <2>6, <3>1 DEF Mutating
    <3>7. (\A i \in 1..Len(ran) : Mutates(i) =>
             /\ Paid(ran[i].call)
             /\ \A j \in 1..Len(ran) :
                  Mutates(j) /\ ran[j].call.approval = ran[i].call.approval => i = j)'
      BY <2>5, <2>6, <3>1, <3>2
    <3>8. QED
      BY <3>4, <3>5, <3>6, <3>7 DEF PaymentInv
<1>9. EffectInv'
  <2>1. ASSUME NEW b \in Agents, execution'[b].stage \in {"evidence", "done", "failed"}
        PROVE  \/ b # a /\ execution'[b] = execution[b]
               \/ /\ execution'[b].stage = "failed" /\ execution[b].stage = "evidence"
                  /\ execution'[b].call = execution[b].call
                  /\ execution'[b].index = execution[b].index
    BY <1>7, <2>1
  <2>2. ASSUME NEW b \in Agents, execution'[b].stage \in {"evidence", "done", "failed"}
        PROVE  /\ execution'[b].index \in 1..Len(ran)
               /\ ran[execution'[b].index].call = execution'[b].call
               /\ execution'[b].stage = "evidence" =>
                    ran[execution'[b].index].effect /\ execution'[b].call.capability = Terminal
               /\ execution'[b].stage \in {"done", "failed"} =>
                    Tells(execution'[b].stage, execution'[b].index)
    <3>1. CASE execution'[b] = execution[b]
      BY <2>2, <3>1 DEF EffectInv
    <3>2. CASE /\ execution'[b].stage = "failed" /\ execution[b].stage = "evidence"
               /\ execution'[b].call = execution[b].call
               /\ execution'[b].index = execution[b].index
      BY <3>2 DEF EffectInv, Tells
    <3>3. QED
      BY <2>1, <2>2, <3>1, <3>2
  <2>3. (\A b \in Agents : execution[b].stage \in {"done", "failed"} =>
           Tells(execution[b].stage, execution[b].index))'
    BY <1>5, <2>2
  <2>4. (/\ \A b \in Agents : execution[b].stage \in {"evidence", "done", "failed"} =>
              /\ execution[b].index \in 1..Len(ran)
              /\ ran[execution[b].index].call = execution[b].call
         /\ \A b \in Agents : execution[b].stage = "evidence" =>
              ran[execution[b].index].effect /\ execution[b].call.capability = Terminal)'
    BY <2>2
  <2>5. QED
    BY <1>6, <2>3, <2>4 DEF EffectInv
<1>10. QED
  BY <1>3, <1>8, <1>9

LEMMA BeginStep ==
  ASSUME ControlInv, NEW a \in Agents, NEW call \in Calls, Begin(a, call)
  PROVE  ControlInv'
<1>1. /\ At("act", call, 0) \in Executing /\ At("verify", call, 0) \in Executing
  BY DEF At, Executing, Stages
<1>2. /\ execution' \in [Agents -> {Idle} \cup Executing]
      /\ \A b \in Agents : b # a => execution'[b] = execution[b]
      /\ \/ execution'[a] = At("act", call, 0) /\ ~ Mutating(call)
         \/ /\ execution'[a] = At("verify", call, 0)
            /\ Mutating(call) /\ call.approval # NoApproval
  BY <1>1 DEF Begin, Mutating, ControlInv, ControlTypes
<1>3. call.approval # NoApproval => call.approval \in ApprovalIds
  BY DEF Calls
<1>4. QED
  BY <1>2, <1>3, QuietStep DEF At, Begin

LEMMA VerifyStep ==
  ASSUME ControlInv, NEW a \in Agents, Verify(a)
  PROVE  ControlInv'
<1>1. execution[a].stage = "verify" /\ execution[a].stage \in Stages /\ "consume" \in Stages
  BY DEF Verify, Stages
<1>2. CASE execution' = [execution EXCEPT ![a] = Idle]
  BY <1>2, QuietStep DEF Verify, ControlInv, ControlTypes
<1>3. CASE /\ Go(a, "consume") /\ approvals[execution[a].call.approval] # NoApproval
           /\ Verifies(approvals[execution[a].call.approval], execution[a].call)
  <2>1. execution[a].call.approval \in ApprovalIds
    BY <1>1 DEF ControlInv, PaymentInv
  <2>2. Approved(execution[a].call)
    BY <1>3, <2>1 DEF Verifies, Approved, ControlInv, ControlTypes
  <2>3. /\ execution' \in [Agents -> {Idle} \cup Executing]
        /\ execution'[a] = At("consume", execution[a].call, execution[a].index)
        /\ \A b \in Agents : b # a => execution'[b] = execution[b]
    BY <1>1, <1>3, GoStep DEF ControlInv
  <2>4. QED
    BY <1>1, <2>2, <2>3, QuietStep DEF At, Verify
<1>4. QED
  BY <1>2, <1>3 DEF Verify

LEMMA DieStep ==
  ASSUME ControlInv, Die
  PROVE  ControlInv'
<1>1. Idle.stage = "idle"
  BY DEF Idle
<1>2. ControlTypes' /\ \A a \in Agents : execution'[a] = Idle
  BY DEF Die, ControlInv, ControlTypes
<1>3. \A c : Approved(c)' = Approved(c) /\ Paid(c)' = Paid(c)
  BY DEF Approved, Paid, Die
<1>4. \A i : Mutates(i)' = Mutates(i)
  BY DEF Mutates, Die
<1>5. PaymentInv'
  BY <1>1, <1>2, <1>3, <1>4 DEF PaymentInv, Die, ControlInv
<1>6. EffectInv'
  BY <1>1, <1>2 DEF EffectInv, AuditTellsWhatRan, Die, ControlInv
<1>7. QED
  BY <1>2, <1>5, <1>6 DEF ControlInv

LEMMA RanCalls ==
  ASSUME ControlTypes, NEW i \in 1..Len(ran)
  PROVE  ran[i] \in Effects /\ ran[i].call \in Calls
<1>1. ran[i] \in Effects
  BY DEF ControlTypes
<1>2. QED
  BY <1>1 DEF Effects

(* A step on the rows that takes nothing back from those that were issued. *)
LEMMA RowsStep ==
  ASSUME ControlInv, registry' \subseteq CapabilityIds,
         approvals' \in [ApprovalIds -> ApprovalRows \cup {NoApproval}],
         \A c \in Calls : (Approved(c) => Approved(c)') /\ (Paid(c) => Paid(c)'),
         UNCHANGED <<execution, ran, journal, evidence>>
  PROVE  ControlInv'
<1> USE DEF ControlInv
<1>1. ControlTypes'
  BY DEF ControlTypes
<1>2. \A i : Mutates(i)' = Mutates(i)
  BY DEF Mutates
<1>3. \A i \in 1..Len(ran) : ran[i].call \in Calls
  BY RanCalls
<1>4. \A a \in Agents : execution[a].stage \in {"consume", "act"} => execution[a].call \in Calls
  BY BusyAgent DEF Stages
<1>5. PaymentInv'
  BY <1>2, <1>3, <1>4 DEF PaymentInv, Mutating
<1>6. EffectInv'
  BY DEF EffectInv, Tells, AuditTellsWhatRan
<1>7. QED
  BY <1>1, <1>5, <1>6

LEMMA IssueStep ==
  ASSUME ControlInv, NEW i \in ApprovalIds, NEW grant \in Granted, Issue(i, grant)
  PROVE  ControlInv'
<1>1. [grant |-> grant, used |-> FALSE, expired |-> FALSE] \in ApprovalRows
  BY DEF ApprovalRows
<1>2. approvals' \in [ApprovalIds -> ApprovalRows \cup {NoApproval}]
  BY <1>1 DEF Issue, ControlInv, ControlTypes
<1>3. approvals[i] \notin ApprovalRows
  BY ControlAssumption DEF Issue
<1>4. ASSUME NEW c \in Calls, Approved(c) PROVE approvals'[c.approval] = approvals[c.approval]
  BY <1>3, <1>4 DEF Approved, Issue, ControlInv, ControlTypes
<1>5. \A c \in Calls : (Approved(c) => Approved(c)') /\ (Paid(c) => Paid(c)')
  BY <1>4 DEF Approved, Paid
<1>6. registry' \subseteq CapabilityIds /\ UNCHANGED <<execution, ran, journal, evidence>>
  BY DEF Issue, ControlInv, ControlTypes
<1>7. QED
  BY <1>2, <1>5, <1>6, RowsStep

LEMMA ExpireStep ==
  ASSUME ControlInv, NEW i \in ApprovalIds, Expire(i)
  PROVE  ControlInv'
<1>1. approvals[i] \in ApprovalRows
  BY DEF Expire, ControlInv, ControlTypes
<1>2. /\ [approvals[i] EXCEPT !.expired = TRUE] \in ApprovalRows
      /\ [approvals[i] EXCEPT !.expired = TRUE].grant = approvals[i].grant
      /\ [approvals[i] EXCEPT !.expired = TRUE].used = approvals[i].used
  BY <1>1 DEF ApprovalRows
<1>4. approvals' = [approvals EXCEPT ![i] = [approvals[i] EXCEPT !.expired = TRUE]]
  BY DEF Expire
<1>5. approvals' \in [ApprovalIds -> ApprovalRows \cup {NoApproval}]
  BY <1>2, <1>4 DEF ControlInv, ControlTypes
<1>6. \A j \in ApprovalIds : approvals[j] \in ApprovalRows =>
        /\ approvals'[j] \in ApprovalRows
        /\ approvals'[j].grant = approvals[j].grant
        /\ approvals'[j].used = approvals[j].used
  BY <1>2, <1>4 DEF ControlInv, ControlTypes
<1>7. \A c \in Calls : (Approved(c) => Approved(c)') /\ (Paid(c) => Paid(c)')
  BY <1>6 DEF Approved, Paid
<1>8. registry' \subseteq CapabilityIds /\ UNCHANGED <<execution, ran, journal, evidence>>
  BY DEF Expire, ControlInv, ControlTypes
<1>9. QED
  BY <1>5, <1>7, <1>8, RowsStep

(* Of the agents that found an approval unused, one marks it and acts.     *)
LEMMA ConsumeStep ==
  ASSUME ControlInv, NEW a \in Agents, Consume(a)
  PROVE  ControlInv'
<1> DEFINE call == execution[a].call
           i == call.approval
<1> USE DEF ControlInv
<1>1. /\ execution[a].stage = "consume" /\ execution[a].stage \in Stages /\ "act" \in Stages
      /\ call \in Calls /\ Mutating(call) /\ Approved(call) /\ i \in ApprovalIds
  BY BusyAgent DEF Consume, PaymentInv, Stages
<1>2. CASE approvals[i].used
  BY <1>2, QuietStep DEF Consume, ControlTypes
<1>3. CASE ~ approvals[i].used
  <2>1. approvals[i] \in ApprovalRows
    BY <1>1 DEF Approved
  <2>2. /\ Go(a, "act") /\ UNCHANGED <<registry, ran, journal, evidence>>
        /\ approvals' = [approvals EXCEPT ![i] = [approvals[i] EXCEPT !.used = TRUE]]
    BY <1>3 DEF Consume
  <2>3. /\ execution' \in [Agents -> {Idle} \cup Executing]
        /\ execution'[a] = At("act", call, execution[a].index)
        /\ \A b \in Agents : b # a => execution'[b] = execution[b]
    BY <1>1, <2>2, GoStep
  <2>4. /\ [approvals[i] EXCEPT !.used = TRUE] \in ApprovalRows
        /\ [approvals[i] EXCEPT !.used = TRUE].used
        /\ [approvals[i] EXCEPT !.used = TRUE].grant = approvals[i].grant
    BY <2>1 DEF ApprovalRows
  <2>5. approvals' \in [ApprovalIds -> ApprovalRows \cup {NoApproval}]
    BY <2>2, <2>4 DEF ControlTypes
  <2>6. \A j \in ApprovalIds : approvals[j] \in ApprovalRows =>
          /\ approvals'[j] \in ApprovalRows /\ approvals'[j].grant = approvals[j].grant
          /\ approvals[j].used \/ j = i => approvals'[j].used
    BY <1>1, <2>2, <2>4 DEF ControlTypes
  <2>7. \A c : (Approved(c) => Approved(c)') /\ (Paid(c) => Paid(c)')
    BY <2>6 DEF Approved, Paid
  <2>8. Paid(call)'
    <3>1. execution'[a].call = call
      BY <2>3 DEF At
    <3>2. approvals'[i] \in ApprovalRows /\ approvals'[i].used
          /\ approvals'[i].grant = approvals[i].grant
      BY <1>1, <2>1, <2>6
    <3>3. QED
      BY <1>1, <3>1, <3>2 DEF Approved, Paid
  <2>9. \A c : Paid(c) => c.approval # i
    BY <1>3 DEF Paid
  <2>10. ControlTypes'
    <3>1. execution[a].index \in 0..Len(ran)
      BY <1>1, BusyAgent
    <3>2. QED
      BY <2>2, <2>3, <2>5, <3>1 DEF ControlTypes, At
  <2>11. \A j : Mutates(j)' = Mutates(j) /\ \A kind : Tells(kind, j)' = Tells(kind, j)
    BY <2>2 DEF Mutates, Tells
  <2>12. PaymentInv'
    <3>1. /\ execution'[a].stage = "act" /\ execution'[a].call = call
      BY <2>3 DEF At
    <3>2. \A j \in 1..Len(ran) : Mutates(j) => ran[j].call.approval # i
      BY <2>9 DEF PaymentInv
    <3>3. \A b \in Agents : b # a /\ execution[b].stage = "act" /\ Mutating(execution[b].call)
             => execution[b].call.approval # i
      BY <2>9 DEF PaymentInv
    <3>4. ASSUME NEW b \in Agents, execution'[b].stage \in {"verify", "consume"}
          PROVE  /\ Mutating(execution'[b].call) /\ execution'[b].call.approval \in ApprovalIds
                 /\ execution'[b].stage = "consume" => Approved(execution[b].call)'
      <4>1. execution'[b] = execution[b]
        BY <2>3, <3>1, <3>4
      <4>2. QED
        BY <2>7, <3>4, <4>1 DEF PaymentInv
    <3>5. ASSUME NEW b \in Agents, execution'[b].stage = "act", Mutating(execution'[b].call)
          PROVE  /\ Paid(execution[b].call)'
                 /\ \A j \in 1..Len(ran) :
                      Mutates(j) => ran[j].call.approval # execution'[b].call.approval
                 /\ \A d \in Agents :
                      /\ execution'[d].stage = "act" /\ Mutating(execution'[d].call)
                      /\ execution'[d].call.approval = execution'[b].call.approval
                      => b = d
      <4>1. CASE b = a
        BY <2>3, <2>8, <3>1, <3>2, <3>3, <4>1
      <4>2. CASE b # a
        BY <2>3, <2>7, <3>1, <3>3, <3>5, <4>2 DEF PaymentInv
      <4>3. QED
        BY <4>1, <4>2
    <3>6. QED
      BY <2>2, <2>7, <2>11, <3>4, <3>5 DEF PaymentInv, Mutating
  <2>13. EffectInv'
    BY <2>2, <2>3, <2>11 DEF EffectInv, AuditTellsWhatRan, At
  <2>14. QED
    BY <2>10, <2>12, <2>13
<1>4. QED
  BY <1>2, <1>3

(* A statement that raises ends the call, or fails the action it is in.    *)
LEMMA DatabaseFailsStep ==
  ASSUME ControlInv, NEW a \in Agents, DatabaseFails(a)
  PROVE  ControlInv'
<1>1. CASE execution' = [execution EXCEPT ![a] = Idle]
  BY <1>1, QuietStep DEF DatabaseFails, ControlInv, ControlTypes
<1>2. CASE execution[a].stage = "evidence" /\ Go(a, "failed")
  <2>1. "failed" \in Stages /\ execution[a].stage \in Stages
    BY <1>2 DEF Stages
  <2>2. /\ execution' \in [Agents -> {Idle} \cup Executing]
        /\ execution'[a] = At("failed", execution[a].call, execution[a].index)
        /\ \A b \in Agents : b # a => execution'[b] = execution[b]
    BY <1>2, <2>1, GoStep DEF ControlInv
  <2>3. QED
    BY <1>2, <2>2, QuietStep DEF At, DatabaseFails
<1>3. QED
  BY <1>1, <1>2 DEF DatabaseFails

LEMMA ActStep ==
  ASSUME ControlInv, NEW a \in Agents, NEW effect \in BOOLEAN,
         NEW outcome \in {"done", "failed"}, Act(a, effect, outcome)
  PROVE  ControlInv'
<1> USE DEF ControlInv
<1>a. /\ execution[a].stage = "act" /\ execution[a].stage \in Stages
      /\ execution[a].call \in Calls /\ Len(ran) + 1 \in Nat
  BY BusyAgent DEF Act, Stages, ControlTypes
<1>b. PICK n \in Nat, call \in Calls : n = Len(ran) + 1 /\ call = execution[a].call
  BY <1>a
<1>c. PICK new : new = [call |-> call, effect |-> effect, outcome |-> outcome]
  OBVIOUS
<1>d. PICK next : next = IF new.effect /\ call.capability = Terminal THEN "evidence" ELSE outcome
  OBVIOUS
<1>1. Len(ran) \in Nat
  BY DEF ControlTypes
<1>2. new \in Effects /\ next \in {"evidence", "done", "failed"}
  BY <1>c, <1>d DEF Effects
<1>3. /\ ran' = Append(ran, new)
      /\ execution' = [execution EXCEPT ![a] = At(next, call, n)]
      /\ UNCHANGED <<registry, approvals, journal, evidence>>
  BY <1>b, <1>c, <1>d DEF Act
<1>4. /\ ran' \in Seq(Effects) /\ Len(ran') = n /\ ran'[n] = new
      /\ \A i \in 1..Len(ran) : ran'[i] = ran[i]
      /\ 1..Len(ran') = 1..Len(ran) \cup {n} /\ n \notin 1..Len(ran)
  BY <1>1, <1>2, <1>3, <1>b DEF ControlTypes
<1>5. At(next, call, n) \in Executing
  BY <1>1, <1>2 DEF At, Executing, Stages
<1>6. /\ execution' \in [Agents -> {Idle} \cup Executing]
      /\ execution'[a] = At(next, call, n)
      /\ \A b \in Agents : b # a => execution'[b] = execution[b]
  BY <1>3, <1>5 DEF ControlTypes
<1>7. execution'[a].stage = next /\ execution'[a].call = call /\ execution'[a].index = n
  BY <1>6 DEF At
<1>8. ControlTypes'
  <2>1. ASSUME NEW b \in Agents, execution'[b] # Idle
        PROVE  execution'[b].index \in 0..Len(ran')
    BY <1>1, <1>b, <1>4, <1>6, <1>7, <2>1 DEF ControlTypes
  <2>2. /\ journal \subseteq [kind : {"done", "failed"}, operation : ControlOperations,
                              capability : CapabilityIds, index : 1..Len(ran')]
        /\ evidence \in [ControlOperations -> 0..Len(ran')]
    BY <1>1, <1>b, <1>4 DEF ControlTypes
  <2>3. QED
    BY <1>3, <1>4, <1>6, <2>1, <2>2 DEF ControlTypes
<1>9. \A c : Approved(c)' = Approved(c) /\ Paid(c)' = Paid(c)
  BY <1>3 DEF Approved, Paid
<1>10. \A i \in 1..Len(ran) :
         Mutates(i)' = Mutates(i) /\ \A kind : Tells(kind, i)' = Tells(kind, i)
  BY <1>3, <1>4 DEF Mutates, Tells
<1>11. Mutates(n)' = Mutating(call) /\ ran'[n].call = call
  BY <1>4, <1>c DEF Mutates, Mutating
<1>12. Mutating(call) => Paid(call)
          /\ \A j \in 1..Len(ran) : Mutates(j) => ran[j].call.approval # call.approval
  BY <1>a, <1>b DEF PaymentInv
<1>13. PaymentInv'
  <2>1. ASSUME NEW b \in Agents, execution'[b].stage \in {"verify", "consume", "act"}
        PROVE  b # a /\ execution'[b] = execution[b]
    BY <1>2, <1>6, <1>7, <2>1
  <2>2. ASSUME NEW b \in Agents, execution[b].stage = "act", Mutating(execution[b].call), b # a
        PROVE  Mutates(n)' => ran'[n].call.approval # execution[b].call.approval
    BY <1>a, <1>b, <1>11, <2>2 DEF PaymentInv
  <2>3. ASSUME NEW i \in 1..Len(ran'), Mutates(i)'
        PROVE  /\ Paid(ran'[i].call)
               /\ \A j \in 1..Len(ran') :
                    Mutates(j)' /\ ran'[j].call.approval = ran'[i].call.approval => i = j
    <3>1. CASE i = n
      BY <1>4, <1>10, <1>11, <1>12, <2>3, <3>1
    <3>2. CASE i # n
      BY <1>4, <1>10, <1>11, <1>12, <2>3, <3>2 DEF PaymentInv
    <3>3. QED
      BY <3>1, <3>2
  <2>4. ASSUME NEW b \in Agents, b # a, execution[b].stage = "act", Mutating(execution[b].call)
        PROVE  \A j \in 1..Len(ran') :
                 Mutates(j)' => ran'[j].call.approval # execution[b].call.approval
    BY <1>4, <1>10, <2>2, <2>4 DEF PaymentInv
  <2>5. \A c : Mutating(c)' = Mutating(c)
    BY DEF Mutating
  <2>6. ASSUME NEW b \in Agents PROVE
        /\ execution'[b].stage \in {"verify", "consume"} =>
             Mutating(execution'[b].call) /\ execution'[b].call.approval \in ApprovalIds
        /\ execution'[b].stage = "consume" => Approved(execution[b].call)'
        /\ execution'[b].stage = "act" /\ Mutating(execution'[b].call) =>
             /\ Paid(execution[b].call)'
             /\ \A d \in Agents :
                  /\ execution'[d].stage = "act" /\ Mutating(execution'[d].call)
                  /\ execution'[d].call.approval = execution'[b].call.approval
                  => b = d
    BY <1>9, <2>1 DEF PaymentInv
  <2>7. QED
    BY <1>9, <2>1, <2>3, <2>4, <2>5, <2>6 DEF PaymentInv
<1>14. EffectInv'
  <2>1. ASSUME NEW e \in journal PROVE e.index \in 1..Len(ran) /\ ran'[e.index] = ran[e.index]
    BY <1>4 DEF ControlTypes
  <2>2. AuditTellsWhatRan'
    BY <1>3, <2>1 DEF EffectInv, AuditTellsWhatRan
  <2>3. next = "evidence" => ran'[n].effect /\ call.capability = Terminal
    BY <1>2, <1>4, <1>c, <1>d
  <2>4. next \in {"done", "failed"} => Tells(next, n)'
    <3>1. outcome = "done" => effect
      BY DEF Act
    <3>2. next \in {"done", "failed"} => next = outcome /\ ~ (effect /\ call.capability = Terminal)
      BY <1>c, <1>d
    <3>3. ran'[n].outcome = outcome /\ ran'[n].effect = effect /\ ran'[n].call = call
      BY <1>4, <1>c
    <3>4. QED
      BY <3>1, <3>2, <3>3 DEF Tells
  <2>5. ASSUME NEW b \in Agents, execution'[b].stage \in {"evidence", "done", "failed"}
        PROVE  /\ execution'[b].index \in 1..Len(ran')
               /\ ran'[execution'[b].index].call = execution'[b].call
               /\ execution'[b].stage = "evidence" =>
                    ran'[execution'[b].index].effect /\ execution'[b].call.capability = Terminal
               /\ execution'[b].stage \in {"done", "failed"} =>
                    Tells(execution[b].stage, execution[b].index)'
    <3>1. CASE b = a
      BY <1>4, <1>7, <1>11, <2>3, <2>4, <2>5, <3>1
    <3>2. CASE b # a
      <4>1. execution'[b] = execution[b] /\ execution[b].index \in 1..Len(ran)
        BY <1>6, <2>5, <3>2 DEF EffectInv
      <4>2. ran'[execution[b].index] = ran[execution[b].index]
        BY <1>4, <4>1
      <4>3. execution[b].stage \in {"done", "failed"} =>
              Tells(execution[b].stage, execution[b].index)'
        <5>1. \A kind : Tells(kind, execution[b].index)' = Tells(kind, execution'[b].index)
          BY <1>3, <4>1, <4>2 DEF Tells
        <5>2. QED
          BY <4>1, <5>1 DEF EffectInv
      <4>4. QED
        BY <1>4, <2>5, <4>1, <4>2, <4>3 DEF EffectInv
    <3>3. QED
      BY <3>1, <3>2
  <2>6. QED
    BY <2>2, <2>5 DEF EffectInv
<1>15. QED
  BY <1>8, <1>13, <1>14

LEMMA RecordEvidenceStep ==
  ASSUME ControlInv, NEW a \in Agents, RecordEvidence(a)
  PROVE  ControlInv'
<1> USE DEF ControlInv
<1>1. /\ execution[a].stage = "evidence" /\ execution[a].stage \in Stages
      /\ execution[a].call \in Calls /\ execution[a].index \in 1..Len(ran)
      /\ ran[execution[a].index].call = execution[a].call /\ ran[execution[a].index].effect
  BY BusyAgent DEF RecordEvidence, Stages, EffectInv
<1>2. PICK i \in 1..Len(ran), call \in Calls : i = execution[a].index /\ call = execution[a].call
  BY <1>1
<1>3. ran[i].outcome \in {"done", "failed"} /\ ran[i].outcome \in Stages /\ i # 0
  BY RanCalls DEF Effects, Stages
<1>4. /\ evidence' = [evidence EXCEPT ![call.operation] = i]
      /\ Go(a, ran[i].outcome) /\ UNCHANGED <<registry, approvals, ran, journal>>
  BY <1>2 DEF RecordEvidence
<1>5. /\ execution' \in [Agents -> {Idle} \cup Executing]
      /\ execution'[a] = At(ran[i].outcome, call, i)
      /\ \A b \in Agents : b # a => execution'[b] = execution[b]
  BY <1>1, <1>2, <1>3, <1>4, GoStep
<1>6. /\ execution'[a].stage = ran[i].outcome /\ execution'[a].call = call
      /\ execution'[a].index = i
  BY <1>5 DEF At
<1>7. call.operation \in ControlOperations
  BY DEF Calls
<1>8. /\ evidence' \in [ControlOperations -> 0..Len(ran)]
      /\ \A o \in ControlOperations : evidence[o] # 0 \/ o = call.operation => evidence'[o] # 0
  BY <1>3, <1>4, <1>7 DEF ControlTypes
<1>9. ControlTypes'
  <2>1. ASSUME NEW b \in Agents, execution'[b] # Idle
        PROVE  execution'[b].index \in 0..Len(ran)
    BY <1>5, <1>6, <2>1 DEF ControlTypes
  <2>2. QED
    BY <1>4, <1>5, <1>8, <2>1 DEF ControlTypes
<1>10. \A c : Approved(c)' = Approved(c) /\ Paid(c)' = Paid(c)
  BY <1>4 DEF Approved, Paid
<1>11. \A j : Mutates(j)' = Mutates(j)
  BY <1>4 DEF Mutates
<1>12. \A kind : \A j \in 1..Len(ran) : Tells(kind, j) => Tells(kind, j)'
  <2>1. \A j \in 1..Len(ran) : ran[j].call.operation \in ControlOperations
    BY RanCalls DEF Calls
  <2>2. QED
    BY <1>4, <1>8, <2>1 DEF Tells
<1>13. PaymentInv'
  <2>1. ASSUME NEW b \in Agents, execution'[b].stage \in {"verify", "consume", "act"}
        PROVE  execution'[b] = execution[b]
    BY <1>3, <1>5, <1>6, <2>1
  <2>2. QED
    BY <1>4, <1>10, <1>11, <2>1 DEF PaymentInv, Mutating
<1>14. EffectInv'
  <2>1. AuditTellsWhatRan'
    <3>1. ASSUME NEW e \in journal
          PROVE  e.operation \in ControlOperations /\ (evidence[e.operation] # 0 => evidence'[e.operation] # 0)
      BY <1>8 DEF ControlTypes
    <3>2. QED
      BY <1>4, <3>1 DEF EffectInv, AuditTellsWhatRan
  <2>2. \A b \in Agents : execution'[b].stage \in {"evidence", "done", "failed"} =>
          /\ execution'[b].index \in 1..Len(ran)
          /\ ran[execution'[b].index].call = execution'[b].call
    BY <1>1, <1>2, <1>5, <1>6 DEF EffectInv
  <2>3. ASSUME NEW b \in Agents, execution'[b].stage \in {"done", "failed"}
        PROVE  Tells(execution[b].stage, execution[b].index)'
    <3>1. CASE b = a
      BY <1>1, <1>2, <1>4, <1>6, <1>7, <1>8, <3>1 DEF Tells
    <3>2. CASE b # a
      <4>1. /\ execution'[b] = execution[b] /\ execution[b].index \in 1..Len(ran)
            /\ Tells(execution[b].stage, execution[b].index)
        BY <1>5, <2>3, <3>2 DEF EffectInv
      <4>2. QED
        BY <1>12, <4>1 DEF Tells
    <3>3. QED
      BY <3>1, <3>2
  <2>4. \A b \in Agents : execution'[b].stage = "evidence" =>
          ran[execution'[b].index].effect /\ execution'[b].call.capability = Terminal
    BY <1>3, <1>5, <1>6 DEF EffectInv
  <2>5. QED
    BY <1>4, <2>1, <2>2, <2>3, <2>4 DEF EffectInv
<1>15. QED
  BY <1>9, <1>13, <1>14

LEMMA AuditStep ==
  ASSUME ControlInv, NEW a \in Agents, Audit(a)
  PROVE  ControlInv'
<1> USE DEF ControlInv
<1>1. /\ execution[a].stage \in {"done", "failed"} /\ execution[a].stage \in Stages
      /\ execution[a].call \in Calls /\ execution[a].index \in 1..Len(ran)
      /\ ran[execution[a].index].call = execution[a].call
      /\ Tells(execution[a].stage, execution[a].index)
  BY BusyAgent DEF Audit, Stages, EffectInv
<1>2. PICK e : e = [kind |-> Outcome(a), operation |-> execution[a].call.operation,
                    capability |-> execution[a].call.capability, index |-> execution[a].index]
  OBVIOUS
<1>3. e \in [kind : {"done", "failed"}, operation : ControlOperations,
             capability : CapabilityIds, index : 1..Len(ran)]
  BY <1>1, <1>2 DEF Outcome, Calls
<1>4. /\ journal' \in {journal, journal \cup {e}}
      /\ execution' = [execution EXCEPT ![a] = Idle]
      /\ UNCHANGED <<registry, approvals, ran, evidence>>
  BY <1>2 DEF Audit
<1>5. /\ execution' \in [Agents -> {Idle} \cup Executing] /\ execution'[a] = Idle
      /\ \A b \in Agents : b # a => execution'[b] = execution[b]
  BY <1>4 DEF ControlTypes
<1>6. ControlTypes'
  BY <1>3, <1>4, <1>5 DEF ControlTypes
<1>7. \A c : Approved(c)' = Approved(c) /\ Paid(c)' = Paid(c)
  BY <1>4 DEF Approved, Paid
<1>8. \A j : Mutates(j)' = Mutates(j) /\ \A kind : Tells(kind, j)' = Tells(kind, j)
  BY <1>4 DEF Mutates, Tells
<1>9. Idle.stage = "idle"
  BY DEF Idle
<1>10. ASSUME NEW b \in Agents, execution'[b].stage # "idle"
       PROVE  execution'[b] = execution[b]
  BY <1>5, <1>9, <1>10
<1>11. PaymentInv'
  BY <1>4, <1>7, <1>8, <1>10 DEF PaymentInv, Mutating
<1>12. /\ ran[e.index].call.operation = e.operation
       /\ ran[e.index].call.capability = e.capability
       /\ Tells(e.kind, e.index)
  BY <1>1, <1>2 DEF Outcome
<1>13. AuditTellsWhatRan'
  BY <1>4, <1>12 DEF AuditTellsWhatRan, EffectInv, Tells
<1>14. EffectInv'
  BY <1>4, <1>8, <1>10, <1>13 DEF EffectInv
<1>15. QED
  BY <1>6, <1>11, <1>14

(* One step of the service. *)
LEMMA ControlNextInv == ControlInv /\ [ControlNext]_controlVars => ControlInv'
<1> SUFFICES ASSUME ControlInv, [ControlNext]_controlVars PROVE ControlInv'
  OBVIOUS
<1>1. ASSUME NEW c \in CapabilityIds, Register(c) PROVE ControlInv'
  <2>1. \A d : (Approved(d) => Approved(d)') /\ (Paid(d) => Paid(d)')
    BY <1>1 DEF Register, Approved, Paid
  <2>2. QED
    BY <1>1, <2>1, RowsStep DEF Register, ControlInv, ControlTypes
<1>2. CASE AgentStep
  BY <1>2, BeginStep, VerifyStep, ConsumeStep, RecordEvidenceStep, AuditStep, ActStep,
     DatabaseFailsStep DEF AgentStep
<1>3. CASE UNCHANGED controlVars
  <2>1. \A d : (Approved(d) => Approved(d)') /\ (Paid(d) => Paid(d)')
    BY <1>3 DEF controlVars, Approved, Paid
  <2>2. QED
    BY <1>3, <2>1, RowsStep DEF controlVars, ControlInv, ControlTypes
<1>4. QED
  BY <1>1, <1>2, <1>3, IssueStep, ExpireStep, DieStep DEF ControlNext

(* The strengthening holds from the start on. *)
THEOREM ControlInvHolds == ControlSpec => []ControlInv
BY ControlInitInv, ControlNextInv, PTL DEF ControlSpec

(* The databases and the calls keep their types, for any capabilities.     *)
THEOREM ControlTypesHold == ControlSpec => []ControlTypeOK
<1>1. ControlInv => ControlTypeOK
  <2> SUFFICES ASSUME ControlInv PROVE ControlTypeOK
    OBVIOUS
  <2>1. ASSUME NEW a \in Agents, execution[a] # Idle
        PROVE  execution[a] \in [stage : Stages, call : Calls, index : 0..Len(ran)]
    <3>1. execution[a] \in Executing /\ execution[a].index \in 0..Len(ran)
      BY <2>1 DEF ControlInv, ControlTypes
    <3>2. QED
      BY <3>1 DEF Executing
  <2>2. \A i \in 1..Len(ran) : ran[i].call \in Calls
    BY RanCalls DEF ControlInv
  <2>3. QED
    BY <2>1, <2>2 DEF ControlInv, ControlTypes, ControlTypeOK
<1>2. QED
  BY <1>1, ControlInvHolds, PTL

(* However many agents execute at once and wherever the process dies, an   *)
(* approval pays for one adapter call, the one it was issued for.          *)
THEOREM EffectsArePaid == ControlSpec => []OneEffectPerApproval
<1>1. ControlInv => OneEffectPerApproval
  BY DEF ControlInv, PaymentInv, OneEffectPerApproval, Paid, Approved
<1>2. QED
  BY <1>1, ControlInvHolds, PTL

(* Whatever the journal says was done was done, with its evidence kept, and *)
(* whatever it says failed did fail or could not keep its evidence, at      *)
(* whichever statement the databases fail and wherever the process dies.    *)
THEOREM AuditIsTrue == ControlSpec => []AuditTellsWhatRan
<1>1. ControlInv => AuditTellsWhatRan
  BY DEF ControlInv, EffectInv
<1>2. QED
  BY <1>1, ControlInvHolds, PTL

(***************************************************************************)
(* The repair of failures.                                                 *)
(***************************************************************************)
Budgets == Overrides \cup 0..MAX_ACTIONS

Decisions == {classify(f, n, kept) : f \in Failures, n \in Nat, kept \in BOOLEAN}

(* A worker holds what its stage needs.                                    *)
WorkerAtRest(r) == r \in [stage : {"resting"}, retries : Nat]
Signing(r) ==
  r \in [stage : {"insert", "update", "classify"}, retries : Nat, failure : Failures]
Repaired(r) ==
  r \in [stage : {"attempt", "repaired", "over"}, retries : Nat, failure : Failures,
         decision : Decisions, budget : Budgets, attempts : Nat]

(* The turn of a repair that goes on is still in the budget.               *)
BudgetKept(r) ==
  /\ ValidDecision(r.decision)
  /\ r.attempts <= r.budget
  /\ r.stage = "over" => r.attempts = r.budget
  /\ r.stage = "attempt" => r.attempts < r.budget

RecoveryInv ==
  /\ occurrences \in [Failures -> Nat]
  /\ recorded = occurrences
  /\ DOMAIN repair = Workers
  /\ \A w \in Workers :
       \/ WorkerAtRest(repair[w]) \/ Signing(repair[w])
       \/ Repaired(repair[w]) /\ BudgetKept(repair[w])

(* Every failure has a rule, and what the rule decides is valid.           *)
LEMMA ClassifyDecides ==
  ASSUME NEW failure, NEW retries, NEW kept \in BOOLEAN
  PROVE  /\ ValidDecision(classify(failure, retries, kept))
         /\ classify(failure, retries, kept).max_attempts \in 0..2
<1> DEFINE rules == RecoveryRules(failure, retries, kept)
           Applies(i) == rules[i][1] /\ \A j \in 1..(i - 1) : ~ rules[j][1]
<1>1. DOMAIN rules = 1..9 /\ rules[9][1]
  BY DEF RecoveryRules
<1>2. \A i \in 1..9 : ValidDecision(rules[i][2]) /\ rules[i][2].max_attempts \in 0..2
  BY DEF RecoveryRules, Decision, ValidDecision, MAX_PROVIDER_RETRIES, MAX_RECOVERY_RETRIES
<1> HIDE DEF rules
<1>3. \E i \in 1..9 : Applies(i)
  <2> SUFFICES ASSUME \A i \in 1..9 : ~ Applies(i) PROVE FALSE
    OBVIOUS
  <2>1. ~ rules[1][1]
    OBVIOUS
  <2>2. ~ rules[2][1]
    BY <2>1
  <2>3. ~ rules[3][1]
    BY <2>1, <2>2
  <2>4. ~ rules[4][1]
    BY <2>1, <2>2, <2>3
  <2>5. ~ rules[5][1]
    BY <2>1, <2>2, <2>3, <2>4
  <2>6. ~ rules[6][1]
    BY <2>1, <2>2, <2>3, <2>4, <2>5
  <2>7. ~ rules[7][1]
    BY <2>1, <2>2, <2>3, <2>4, <2>5, <2>6
  <2>8. ~ rules[8][1]
    BY <2>1, <2>2, <2>3, <2>4, <2>5, <2>6, <2>7
  <2>9. QED
    BY <1>1, <2>1, <2>2, <2>3, <2>4, <2>5, <2>6, <2>7, <2>8
<1>4. (CHOOSE i \in 1..9 : Applies(i)) \in 1..9
  BY <1>3
<1>5. classify(failure, retries, kept) = rules[CHOOSE i \in 1..9 : Applies(i)][2]
  BY <1>1 DEF classify, rules
<1>6. QED
  BY <1>2, <1>4, <1>5

LEMMA RecoveryInitInv == RecoveryInit => RecoveryInv
BY DEF RecoveryInit, RecoveryInv, WorkerAtRest, Resting

(* A step in which one worker goes on and the registry keeps counting.     *)
LEMMA WorkerGoes ==
  ASSUME RecoveryInv, NEW w \in Workers, NEW r,
         repair' = [repair EXCEPT ![w] = r],
         WorkerAtRest(r) \/ Signing(r) \/ (Repaired(r) /\ BudgetKept(r)),
         occurrences' \in [Failures -> Nat], recorded' = occurrences'
  PROVE  RecoveryInv'
<1>1. DOMAIN repair' = Workers /\ \A v \in Workers : repair'[v] = IF v = w THEN r ELSE repair[v]
  BY DEF RecoveryInv
<1>2. \A v \in Workers :
        \/ WorkerAtRest(repair'[v]) \/ Signing(repair'[v])
        \/ Repaired(repair'[v]) /\ BudgetKept(repair'[v])
  BY <1>1 DEF RecoveryInv
<1>3. QED
  BY <1>1, <1>2 DEF RecoveryInv, WorkerAtRest, Signing, Repaired, BudgetKept

(* A worker that keeps a signature goes on to the next stage. *)
LEMMA NextStage ==
  ASSUME NEW r, Signing(r), NEW s \in {"insert", "update", "classify"}
  PROVE  Signing([r EXCEPT !.stage = s])
BY DEF Signing

LEMMA SignatureStep ==
  ASSUME RecoveryInv, NEW w \in Workers, InsertSignature(w) \/ CountSignature(w)
  PROVE  RecoveryInv'
<1> DEFINE f == repair[w].failure
<1>1. Signing(repair[w]) /\ f \in Failures
  BY DEF RecoveryInv, InsertSignature, CountSignature, WorkerAtRest, Signing, Repaired
<1>2. Signing([repair[w] EXCEPT !.stage = "classify"]) /\ WorkerAtRest(Resting)
  BY <1>1, NextStage DEF WorkerAtRest, Resting
<1>3. CASE repair' = [repair EXCEPT ![w] = Resting] /\ UNCHANGED <<occurrences, recorded>>
  BY <1>2, <1>3, WorkerGoes DEF RecoveryInv
<1>4. CASE /\ repair' = [repair EXCEPT ![w].stage = "classify"]
           /\ occurrences' = [occurrences EXCEPT ![f] = @ + 1]
           /\ recorded' = [recorded EXCEPT ![f] = @ + 1]
  <2>1. occurrences' \in [Failures -> Nat] /\ recorded' = occurrences'
    BY <1>1, <1>4 DEF RecoveryInv
  <2>2. repair' = [repair EXCEPT ![w] = [repair[w] EXCEPT !.stage = "classify"]]
    BY <1>4
  <2>3. QED
    BY <1>2, <2>1, <2>2, WorkerGoes
<1>5. CASE /\ repair' = [repair EXCEPT ![w].stage = "classify"]
           /\ occurrences[f] = 0
           /\ occurrences' = [occurrences EXCEPT ![f] = 1]
           /\ recorded' = [recorded EXCEPT ![f] = @ + 1]
  <2>1. occurrences' \in [Failures -> Nat] /\ recorded' = occurrences'
    <3>1. recorded[f] + 1 = 1 /\ recorded = occurrences /\ occurrences \in [Failures -> Nat]
      BY <1>5 DEF RecoveryInv
    <3>2. recorded' = [occurrences EXCEPT ![f] = 1]
      BY <1>5, <3>1
    <3>3. QED
      BY <1>1, <1>5, <3>1, <3>2
  <2>2. repair' = [repair EXCEPT ![w] = [repair[w] EXCEPT !.stage = "classify"]]
    BY <1>5
  <2>3. QED
    BY <1>2, <2>1, <2>2, WorkerGoes
<1>6. QED
  BY <1>3, <1>4, <1>5 DEF InsertSignature, CountSignature

LEMMA StartStep ==
  ASSUME RecoveryInv, NEW w \in Workers,
         \/ \E o \in Overrides \cup {NoOverride}, kept \in BOOLEAN : StartRepair(w, o, kept)
         \/ \E n \in HostActions : StartHostRecovery(w, n)
  PROVE  RecoveryInv'
<1>1. Signing(repair[w])
  BY DEF RecoveryInv, StartRepair, StartHostRecovery, WorkerAtRest, Signing, Repaired
<1>2. \E kept \in BOOLEAN, budget \in Budgets :
        Repairing(w, budget, classify(repair[w].failure, repair[w].retries, kept))
  <2>1. ASSUME NEW o \in Overrides \cup {NoOverride}, NEW kept \in BOOLEAN,
               StartRepair(w, o, kept)
        PROVE  <1>2!:
    <3>1. classify(repair[w].failure, repair[w].retries, kept).max_attempts \in 0..MAX_ACTIONS
      BY ClassifyDecides DEF MAX_ACTIONS
    <3>2. QED
      BY <2>1, <3>1 DEF StartRepair, Budgets
  <2>2. ASSUME NEW n \in HostActions, StartHostRecovery(w, n)
        PROVE  <1>2!:
    <3>1. (IF n < MAX_ACTIONS THEN n ELSE MAX_ACTIONS) \in Budgets /\ 0 \in Budgets
      BY RecoveryAssumption DEF Budgets, MAX_ACTIONS
    <3>2. QED
      BY <2>2, <3>1 DEF StartHostRecovery
  <2>3. QED
    BY <2>1, <2>2
<1>3. PICK kept \in BOOLEAN, budget \in Budgets :
        Repairing(w, budget, classify(repair[w].failure, repair[w].retries, kept))
  BY <1>2
<1>4. PICK d \in Decisions : d = classify(repair[w].failure, repair[w].retries, kept)
                             /\ ValidDecision(d)
  BY <1>1, ClassifyDecides DEF Decisions, Signing
<1>5. PICK r : r = [stage |-> IF budget = 0 THEN "over" ELSE "attempt",
                    retries |-> repair[w].retries, failure |-> repair[w].failure,
                    decision |-> d, budget |-> budget, attempts |-> 0]
  OBVIOUS
<1>6. budget \in Nat
  BY RecoveryAssumption DEF Budgets, MAX_ACTIONS
<1>7. Repaired(r) /\ BudgetKept(r)
  BY <1>1, <1>4, <1>5, <1>6 DEF Repaired, BudgetKept, Signing
<1>8. repair' = [repair EXCEPT ![w] = r]
  BY <1>3, <1>4, <1>5 DEF Repairing
<1>9. UNCHANGED <<occurrences, recorded>>
  BY DEF StartRepair, StartHostRecovery
<1>10. QED
  BY <1>7, <1>8, <1>9, WorkerGoes DEF RecoveryInv

LEMMA ReadSignatureStep ==
  ASSUME RecoveryInv, NEW w \in Workers, NEW f \in Failures, ReadSignature(w, f)
  PROVE  RecoveryInv'
<1>1. WorkerAtRest(repair[w])
  BY DEF RecoveryInv, ReadSignature, WorkerAtRest, Signing, Repaired
<1>2. Signing([stage |-> IF occurrences[f] = 0 THEN "insert" ELSE "update",
               retries |-> repair[w].retries, failure |-> f])
  BY <1>1 DEF WorkerAtRest, Signing
<1>3. QED
  BY <1>2, WorkerGoes DEF ReadSignature, RecoveryInv

(* A turn that does not succeed ends the repair exactly at its budget.     *)
LEMMA AttemptStep ==
  ASSUME RecoveryInv, NEW w \in Workers, NEW succeeded \in BOOLEAN, Attempt(w, succeeded)
  PROVE  RecoveryInv'
<1>1. Repaired(repair[w]) /\ BudgetKept(repair[w]) /\ repair[w].stage = "attempt"
  BY DEF RecoveryInv, Attempt, WorkerAtRest, Signing, Repaired
<1>2. PICK s : s = IF succeeded THEN "repaired" ELSE IF Exhausted(w) THEN "over" ELSE "attempt"
  OBVIOUS
<1>3. PICK r : r = [repair[w] EXCEPT !.attempts = @ + 1, !.stage = s]
  OBVIOUS
<1>4. repair[w].attempts \in Nat /\ repair[w].budget \in Nat
  <2>1. repair[w].attempts \in Nat /\ repair[w].budget \in Budgets
    BY <1>1 DEF Repaired
  <2>2. Budgets \subseteq Nat
    BY RecoveryAssumption DEF Budgets, MAX_ACTIONS
  <2>3. QED
    BY <2>1, <2>2
<1>5. /\ r.attempts = repair[w].attempts + 1 /\ r.stage = s /\ r.budget = repair[w].budget
      /\ r.decision = repair[w].decision
  BY <1>1, <1>3 DEF Repaired
<1>6. Repaired(r)
  <2>1. s \in {"attempt", "repaired", "over"} /\ repair[w].attempts + 1 \in Nat
    BY <1>2, <1>4
  <2>2. ASSUME NEW q, Repaired(q), NEW n \in Nat, NEW t \in {"attempt", "repaired", "over"}
        PROVE  Repaired([q EXCEPT !.attempts = n, !.stage = t])
    BY <2>2 DEF Repaired
  <2>3. QED
    BY <1>1, <1>3, <2>1, <2>2
<1>7. BudgetKept(r)
  BY <1>1, <1>2, <1>4, <1>5 DEF BudgetKept, Exhausted
<1>8. repair' = [repair EXCEPT ![w] = r] /\ UNCHANGED <<occurrences, recorded>>
  BY <1>2, <1>3 DEF Attempt
<1>9. QED
  BY <1>6, <1>7, <1>8, WorkerGoes DEF RecoveryInv

LEMMA ResumeStep ==
  ASSUME RecoveryInv, NEW w \in Workers, Resume(w)
  PROVE  RecoveryInv'
<1>1. Repaired(repair[w])
  BY DEF RecoveryInv, Resume, WorkerAtRest, Signing, Repaired
<1>2. \A n \in Nat : WorkerAtRest([Resting EXCEPT !.retries = n])
  BY DEF WorkerAtRest, Resting
<1>3. PICK n : n = IF /\ repair[w].stage = "over"
                      /\ repair[w].decision.classification = "retryable"
                   THEN repair[w].retries + repair[w].attempts ELSE 0
  OBVIOUS
<1>4. n \in Nat
  BY <1>1, <1>3 DEF Repaired
<1>5. repair' = [repair EXCEPT ![w] = [Resting EXCEPT !.retries = n]]
      /\ UNCHANGED <<occurrences, recorded>>
  BY <1>3 DEF Resume
<1>6. QED
  BY <1>2, <1>4, <1>5, WorkerGoes DEF RecoveryInv

LEMMA RecoveryNextInv == RecoveryInv /\ [RecoveryNext]_recoveryVars => RecoveryInv'
<1> SUFFICES ASSUME RecoveryInv, [RecoveryNext]_recoveryVars PROVE RecoveryInv'
  OBVIOUS
<1>1. CASE UNCHANGED recoveryVars
  BY <1>1 DEF recoveryVars, RecoveryInv, WorkerAtRest, Signing, Repaired, BudgetKept
<1>2. CASE RecoveryNext
  BY <1>2, ReadSignatureStep, SignatureStep, StartStep, AttemptStep, ResumeStep DEF RecoveryNext
<1>3. QED
  BY <1>1, <1>2

(* The strengthening holds from the start on. *)
THEOREM RecoveryInvHolds == RecoverySpec => []RecoveryInv
BY RecoveryInitInv, RecoveryNextInv, PTL DEF RecoverySpec

(* The registry counts the failures that were recorded, no more, no less,  *)
(* however many workers record one at a time.                              *)
THEOREM FailuresAreCounted == RecoverySpec => []OccurrencesCounted
<1>1. RecoveryInv => OccurrencesCounted
  BY DEF RecoveryInv, OccurrencesCounted
<1>2. QED
  BY <1>1, RecoveryInvHolds, PTL

(* No repair, of whatever failure, goes past its budget or gives up short. *)
THEOREM RepairsEnd == RecoverySpec => []RepairStaysInBudget
<1>1. RecoveryInv => RepairStaysInBudget
  BY DEF RecoveryInv, RepairStaysInBudget, WorkerAtRest, Signing, Repaired, BudgetKept, Budgets
<1>2. QED
  BY <1>1, RecoveryInvHolds, PTL

(* Every failure that is counted, or read and about to be counted, is in   *)
(* the bound on failures.                                                  *)
Counted == SumOver(recorded, Failures)

CountInv == Counted + Cardinality(Recorded) <= MaxFailures

LEMMA RecordedFinite ==
  /\ \A S \in SUBSET Workers : IsFiniteSet(S) /\ Cardinality(S) \in Nat
  /\ \A S \in SUBSET Workers : \A w \in S :
       Cardinality(S \ {w}) = Cardinality(S) - 1
  /\ \A S \in SUBSET Workers : \A w \in Workers \ S :
       Cardinality(S \cup {w}) = Cardinality(S) + 1
BY RecoveryAssumption, FS_Subset, FS_CardinalityType, FS_RemoveElement, FS_AddElement

LEMMA CountedTypes ==
  ASSUME NEW r \in [Failures -> Nat]
  PROVE  /\ SumOver(r, Failures) \in Nat
         /\ \A f \in Failures : r[f] <= SumOver(r, Failures)
         /\ \A f \in Failures :
              SumOver([r EXCEPT ![f] = @ + 1], Failures) = SumOver(r, Failures) + 1
<1>1. IsFiniteSet(Failures) /\ \A f \in Failures : r[f] \in Nat
  BY RecoveryAssumption
<1>2. SumOver(r, Failures) \in Nat
  BY <1>1, SumNat
<1>3. ASSUME NEW f \in Failures
      PROVE  /\ r[f] <= SumOver(r, Failures)
             /\ SumOver([r EXCEPT ![f] = @ + 1], Failures) = SumOver(r, Failures) + 1
  <2> DEFINE q == [r EXCEPT ![f] = @ + 1]
  <2>1. /\ q[f] = r[f] + 1 /\ \A g \in Failures : q[g] \in Nat
        /\ \A g \in Failures \ {f} : q[g] = r[g]
    BY <1>1
  <2> HIDE DEF q
  <2>2. IsFiniteSet(Failures \ {f})
    BY <1>1, FS_RemoveElement
  <2>3. SumOver(r, Failures) = r[f] + SumOver(r, Failures \ {f})
    BY <1>1, SumMember
  <2>4. SumOver(q, Failures) = q[f] + SumOver(q, Failures \ {f})
    BY <1>1, <2>1, SumMember
  <2>5. SumOver(q, Failures \ {f}) = SumOver(r, Failures \ {f})
    BY <2>1, <2>2, SumSame
  <2>6. SumOver(r, Failures \ {f}) \in Nat
    BY <1>1, <2>2, SumNat
  <2>7. QED
    BY <1>1, <2>1, <2>3, <2>4, <2>5, <2>6 DEF q
<1>4. QED
  BY <1>2, <1>3

LEMMA TotalIsCounted == Total = Counted
BY DEF Total, Counted, SumOver

(* A step of a worker, by what it does to the sum and to the signatures it  *)
(* has read.                                                                *)
LEMMA CountMoves ==
  ASSUME RecoveryInv, CountInv, NEW w \in Workers,
         \A v \in Workers \ {w} : repair'[v] = repair[v],
         \/ /\ UNCHANGED recorded
            /\ Counted + Cardinality(Recorded) < MaxFailures \/ w \notin Recorded'
         \/ /\ w \in Recorded /\ w \notin Recorded'
            /\ \E f \in Failures : recorded' = [recorded EXCEPT ![f] = @ + 1]
  PROVE  CountInv'
<1>1. recorded \in [Failures -> Nat] /\ Counted \in Nat /\ MaxFailures \in Nat
  BY CountedTypes, RecoveryAssumption DEF RecoveryInv, Counted
<1>2. PICK S \in SUBSET Workers : S = Recorded
  BY DEF Recorded
<1>3. PICK T \in SUBSET Workers : T = Recorded'
  BY DEF Recorded
<1>4. T \ {w} = S \ {w}
  BY <1>2, <1>3 DEF Recorded
<1>5. /\ Cardinality(S) \in Nat /\ Cardinality(T) \in Nat
      /\ w \notin T => Cardinality(T) <= Cardinality(S)
      /\ w \in S /\ w \notin T => Cardinality(T) = Cardinality(S) - 1
      /\ Cardinality(T) <= Cardinality(S) + 1
  <2>1. CASE w \in S
    <3>1. T = S \/ T = S \ {w}
      BY <1>4, <2>1
    <3>2. QED
      BY <2>1, <3>1, RecordedFinite
  <2>2. CASE w \notin S
    <3>1. T = S \/ T = S \cup {w}
      BY <1>4, <2>2
    <3>2. QED
      BY <2>2, <3>1, RecordedFinite
  <2>3. QED
    BY <2>1, <2>2
<1>6. CASE UNCHANGED recorded
  <2>1. Counted' = Counted
    BY <1>6 DEF Counted
  <2>2. CASE w \notin T
    BY <1>1, <1>2, <1>3, <1>5, <2>1, <2>2 DEF CountInv
  <2>3. CASE Counted + Cardinality(S) < MaxFailures
    BY <1>1, <1>2, <1>3, <1>5, <2>1, <2>3 DEF CountInv
  <2>4. CASE /\ w \in Recorded /\ w \notin Recorded'
    BY <1>3, <2>2, <2>4
  <2>5. QED
    BY <1>2, <1>3, <2>2, <2>3, <2>4
<1>7. CASE /\ w \in Recorded /\ w \notin Recorded'
           /\ \E f \in Failures : recorded' = [recorded EXCEPT ![f] = @ + 1]
  <2>1. PICK f \in Failures : recorded' = [recorded EXCEPT ![f] = @ + 1]
    BY <1>7
  <2>2. Counted' = Counted + 1
    BY <1>1, <2>1, CountedTypes DEF Counted
  <2>3. QED
    BY <1>1, <1>2, <1>3, <1>5, <1>7, <2>2 DEF CountInv
<1>8. QED
  BY <1>6, <1>7

LEMMA CountInitInv == RecoveryInit => CountInv
<1> SUFFICES ASSUME RecoveryInit PROVE CountInv
  OBVIOUS
<1>1. Recorded = {}
  BY DEF RecoveryInit, Recorded, Resting
<1>2. SumOver(recorded, Failures) = 0
  <2>1. recorded = [f \in Failures |-> 0]
    BY DEF RecoveryInit
  <2> DEFINE none == [f \in Failures |-> 0]
  <2>2. \A S \in SUBSET Failures : SumOver(none, S) = 0
    <3> DEFINE B == {S \in SUBSET Failures : SumOver(none, S) # 0}
    <3>1. IsFiniteSet(Failures) /\ B \subseteq SUBSET Failures
      BY RecoveryAssumption
    <3> SUFFICES ASSUME B # {} PROVE FALSE
      OBVIOUS
    <3>2. PICK T \in B : \A U \in SUBSET T : U # T => U \notin B
      <4> HIDE DEF B
      <4>1. QED
        BY <3>1, SmallestSubset
    <3>3. T # {} /\ IsFiniteSet(T) /\ T \subseteq Failures
      BY <3>1, SumEmpty, FS_Subset
    <3>4. PICK x \in T : TRUE
      BY <3>3
    <3>5. \A y \in T : none[y] \in Nat /\ none[y] = 0
      BY <3>3
    <3>6. SumOver(none, T) = none[x] + SumOver(none, T \ {x})
      <4> HIDE DEF none
      <4>1. QED
        BY <3>3, <3>5, SumMember
    <3>7. SumOver(none, T \ {x}) = 0
      BY <3>2, <3>3
    <3>8. QED
      BY <3>2, <3>5, <3>6, <3>7
  <2>3. QED
    BY <2>1, <2>2
<1>3. Cardinality({}) = 0
  BY FS_EmptySet
<1>4. QED
  BY <1>1, <1>2, <1>3, RecoveryAssumption DEF CountInv, Counted

LEMMA CountNextInv ==
  ASSUME RecoveryInv, CountInv, [RecoveryNext]_recoveryVars
  PROVE  CountInv'
<1>1. CASE UNCHANGED recoveryVars
  BY <1>1 DEF recoveryVars, CountInv, Counted, Recorded
<1>2. ASSUME NEW w \in Workers, NEW f \in Failures, ReadSignature(w, f) PROVE CountInv'
  <2>1. \A v \in Workers \ {w} : repair'[v] = repair[v]
    BY <1>2 DEF ReadSignature, RecoveryInv
  <2>2. QED
    BY <1>2, <2>1, CountMoves, TotalIsCounted DEF ReadSignature
<1>3. ASSUME NEW w \in Workers, InsertSignature(w) \/ CountSignature(w) PROVE CountInv'
  <2>1. Signing(repair[w]) /\ repair[w].failure \in Failures /\ repair[w].stage # "classify"
    BY <1>3 DEF RecoveryInv, InsertSignature, CountSignature, WorkerAtRest, Signing, Repaired
  <2>2. w \in Recorded
    BY <2>1 DEF Recorded, Signing
  <2>3. /\ \A v \in Workers \ {w} : repair'[v] = repair[v]
        /\ w \notin Recorded'
        /\ \/ UNCHANGED recorded
           \/ recorded' = [recorded EXCEPT ![repair[w].failure] = @ + 1]
    <3>1. \/ UNCHANGED recorded /\ repair' = [repair EXCEPT ![w] = Resting]
          \/ /\ recorded' = [recorded EXCEPT ![repair[w].failure] = @ + 1]
             /\ repair' = [repair EXCEPT ![w].stage = "classify"]
      BY <1>3 DEF InsertSignature, CountSignature
    <3>2. repair'[w].stage \in {"resting", "classify"}
      BY <2>1, <3>1 DEF RecoveryInv, Signing, Resting
    <3>3. QED
      BY <3>1, <3>2 DEF RecoveryInv, Recorded
  <2>4. QED
    BY <2>1, <2>2, <2>3, CountMoves
<1>4. ASSUME NEW w \in Workers, UNCHANGED recorded,
             \A v \in Workers \ {w} : repair'[v] = repair[v],
             repair'[w].stage \notin {"insert", "update"}
      PROVE  CountInv'
  BY <1>4, CountMoves DEF Recorded
<1>5. ASSUME NEW w \in Workers,
             \/ \E o \in Overrides \cup {NoOverride}, kept \in BOOLEAN : StartRepair(w, o, kept)
             \/ \E n \in HostActions : StartHostRecovery(w, n)
      PROVE  CountInv'
  <2>1. /\ UNCHANGED recorded
        /\ \E n, d : Repairing(w, n, d)
    BY <1>5 DEF StartRepair, StartHostRecovery
  <2>2. PICK n, d : Repairing(w, n, d)
    BY <2>1
  <2>3. /\ \A v \in Workers \ {w} : repair'[v] = repair[v]
        /\ repair'[w].stage \in {"over", "attempt"}
    BY <2>2 DEF Repairing, RecoveryInv
  <2>4. QED
    BY <1>4, <2>1, <2>3
<1>6. ASSUME NEW w \in Workers, NEW succeeded \in BOOLEAN, Attempt(w, succeeded) PROVE CountInv'
  <2>1. Repaired(repair[w])
    BY <1>6 DEF RecoveryInv, Attempt, WorkerAtRest, Signing, Repaired
  <2>2. PICK s \in {"repaired", "over", "attempt"} :
          repair' = [repair EXCEPT ![w].attempts = @ + 1, ![w].stage = s]
    <3>1. PICK s : s = IF succeeded THEN "repaired" ELSE IF Exhausted(w) THEN "over" ELSE "attempt"
      OBVIOUS
    <3>2. QED
      BY <1>6, <3>1 DEF Attempt
  <2>3. repair'[w].stage = s /\ \A v \in Workers \ {w} : repair'[v] = repair[v]
    BY <2>1, <2>2 DEF RecoveryInv, Repaired
  <2>4. QED
    BY <1>4, <1>6, <2>2, <2>3 DEF Attempt
<1>7. ASSUME NEW w \in Workers, Resume(w) PROVE CountInv'
  <2>1. repair'[w].stage = "resting" /\ \A v \in Workers \ {w} : repair'[v] = repair[v]
    BY <1>7 DEF Resume, Resting, RecoveryInv
  <2>2. QED
    BY <1>4, <1>7, <2>1 DEF Resume
<1>8. QED
  BY <1>1, <1>2, <1>3, <1>5, <1>6, <1>7 DEF RecoveryNext

(* The types hold, and what is counted stays in the bound, since a worker   *)
(* that read a signature has reserved its place (record).                   *)
THEOREM RecoveryTypesHold == RecoverySpec => []RecoveryTypeOK
<1>1. RecoveryInv /\ CountInv => RecoveryTypeOK
  <2> SUFFICES ASSUME RecoveryInv, CountInv PROVE RecoveryTypeOK
    OBVIOUS
  <2>1. /\ recorded \in [Failures -> Nat] /\ occurrences = recorded
    BY DEF RecoveryInv
  <2>2. Cardinality(Recorded) \in Nat /\ Counted \in Nat /\ MaxFailures \in Nat
    BY <2>1, RecordedFinite, CountedTypes, RecoveryAssumption DEF Recorded, Counted
  <2>3. \A f \in Failures : recorded[f] <= MaxFailures
    BY <2>1, <2>2, CountedTypes DEF CountInv, Counted
  <2>4. recorded \in [Failures -> 0..MaxFailures]
    BY <2>1, <2>2, <2>3
  <2>5. \A w \in Workers :
          /\ repair[w].stage \in {"resting", "insert", "update", "classify", "attempt",
                                  "repaired", "over"}
          /\ repair[w].stage = "attempt" => repair[w].attempts < repair[w].budget
    BY DEF RecoveryInv, WorkerAtRest, Signing, Repaired, BudgetKept
  <2>6. QED
    BY <2>1, <2>4, <2>5 DEF RecoveryTypeOK
<1>2. RecoveryInv /\ CountInv /\ [RecoveryNext]_recoveryVars => RecoveryInv' /\ CountInv'
  BY CountNextInv, RecoveryNextInv
<1>3. QED
  BY <1>1, <1>2, RecoveryInitInv, CountInitInv, PTL DEF RecoverySpec

(***************************************************************************)
(* The acceptance run.                                                     *)
(***************************************************************************)
PhaseNumbers == 1..Len(Phases)
Bodies == [ticked : SUBSET Tasks, edition : Nat]
Steps == {"asleep", "reading", "executing", "pushing", "marking", "patching"}
Supervisors == [at : Steps, branch : RunBranches \cup {NoBranch}, phase : Nat \ {0},
                task : SUBSET Tasks, before : Nat, body : Bodies]

AcceptanceTypes ==
  /\ issues \in [PhaseNumbers -> Bodies]
  /\ worktree \in [branch : RunBranches \cup {NoBranch}, dirty : BOOLEAN]
  /\ locals \in [RunBranches -> Seq(Tasks)]
  /\ remotes \in [RunBranches -> Seq(Tasks)]
  /\ supervisor \in Supervisors

Holds(commits, t) == \E i \in 1..Len(commits) : commits[i] = t

(* The supervisor works on one task, on the branch that is checked out; by *)
(* the time it pushes the branch has the task's commit, and by the time it *)
(* ticks the remote has it too.                                            *)
ProgressInv ==
  /\ supervisor.at # "asleep" =>
       worktree.branch = supervisor.branch /\ supervisor.branch \in RunBranches
  /\ supervisor.task # {} => \E t \in Tasks : supervisor.task = {t}
  /\ supervisor.at \in {"executing", "pushing", "marking", "patching"} => supervisor.task # {}
  /\ supervisor.at = "executing" => supervisor.before = Len(locals[worktree.branch])
  /\ supervisor.at = "pushing" => Holds(locals[worktree.branch], TheTask)
  /\ supervisor.at \in {"marking", "patching"} => Holds(remotes[worktree.branch], TheTask)

AcceptanceInv == AcceptanceTypes /\ ProgressInv /\ TickedWorkIsPushed

(* Of the tasks of an issue that are not ticked there is a first one.      *)
LEMMA FirstNumber ==
  ASSUME NEW S, S \subseteq Nat, S # {}
  PROVE  \E x \in S : \A y \in S : x <= y
<1> DEFINE R == {ss \in Nat \X Nat : ss[1] < ss[2]}
<1>1. IsWellFoundedOn(R, Nat)
  BY NatLessThanWellFounded DEF OpToRel
<1> HIDE DEF R
<1>2. PICK x \in S : \A y \in S : <<y, x>> \notin R
  BY <1>1, WFMin
<1>3. \A y \in S : ~(y < x)
  BY <1>2 DEF R
<1>4. QED
  BY <1>3

LEMMA SleepType ==
  /\ Asleep \in Supervisors /\ Asleep.at = "asleep" /\ Asleep.task = {}
BY DEF Asleep, Supervisors, Steps, Bodies

(* The task at hand is in an issue. *)
LEMMA TaskAtHand ==
  ASSUME AcceptanceTypes, ProgressInv, supervisor.task # {}
  PROVE  TheTask \in Tasks /\ supervisor.task = {TheTask} /\ PhaseOf(TheTask) \in PhaseNumbers
<1>1. PICK t \in Tasks : supervisor.task = {t}
  BY DEF ProgressInv
<1>2. TheTask = t
  BY <1>1 DEF TheTask
<1>3. \E p \in PhaseNumbers : \E i \in 1..Len(TasksOf[p]) : TasksOf[p][i] = t
  BY DEF Tasks, PhaseNumbers
<1>4. PhaseOf(t) \in PhaseNumbers
  BY <1>3 DEF PhaseOf, PhaseNumbers
<1>5. QED
  BY <1>1, <1>2, <1>4

(* A push that is not forced keeps what the remote has. *)
LEMMA PushKeeps ==
  ASSUME NEW old \in Seq(Tasks), NEW new \in Seq(Tasks), IsPrefixOf(old, new), NEW t,
         Holds(old, t)
  PROVE  Holds(new, t)
<1>1. PICK i \in 1..Len(old) : old[i] = t
  BY DEF Holds
<1>2. i \in 1..Len(new) /\ SubSeq(new, 1, Len(old))[i] = new[i]
  BY DEF IsPrefixOf
<1>3. QED
  BY <1>1, <1>2 DEF IsPrefixOf, Holds

LEMMA AcceptanceInitInv == AcceptanceInit => AcceptanceInv
<1> SUFFICES ASSUME AcceptanceInit PROVE AcceptanceInv
  OBVIOUS
<1>1. AcceptanceTypes
  BY SleepType DEF AcceptanceInit, AcceptanceTypes, PhaseNumbers, Bodies
<1>2. ProgressInv /\ TickedWorkIsPushed
  BY SleepType DEF AcceptanceInit, ProgressInv, TickedWorkIsPushed
<1>3. QED
  BY <1>1, <1>2 DEF AcceptanceInv

(* A step after which the supervisor sleeps, and that no push or tick is in. *)
LEMMA SleepStep ==
  ASSUME AcceptanceInv, supervisor' = Asleep,
         worktree' \in [branch : RunBranches \cup {NoBranch}, dirty : BOOLEAN],
         locals' \in [RunBranches -> Seq(Tasks)],
         UNCHANGED <<issues, remotes, ticks>>
  PROVE  AcceptanceInv'
<1>1. AcceptanceTypes'
  BY SleepType DEF AcceptanceInv, AcceptanceTypes
<1>2. ProgressInv'
  BY SleepType DEF ProgressInv
<1>3. TickedWorkIsPushed'
  BY DEF AcceptanceInv, TickedWorkIsPushed
<1>4. QED
  BY <1>1, <1>2, <1>3 DEF AcceptanceInv

LEMMA StartRunStep ==
  ASSUME AcceptanceInv, NEW b \in RunBranches, StartRun(b)
  PROVE  AcceptanceInv'
<1> USE DEF AcceptanceInv
<1>1. /\ supervisor' \in Supervisors /\ supervisor'.at = "reading" /\ supervisor'.task = {}
      /\ supervisor'.branch = b
  BY SleepType DEF StartRun, Supervisors, Steps
<1>2. worktree' = [branch |-> b, dirty |-> FALSE] /\ UNCHANGED <<issues, remotes, ticks>>
  BY DEF StartRun
<1>3. locals' \in [RunBranches -> Seq(Tasks)]
  BY DEF StartRun, AcceptanceTypes
<1>4. AcceptanceTypes'
  BY <1>1, <1>2, <1>3 DEF AcceptanceTypes
<1>5. ProgressInv'
  BY <1>1, <1>2 DEF ProgressInv
<1>6. TickedWorkIsPushed'
  BY <1>2 DEF TickedWorkIsPushed
<1>7. QED
  BY <1>4, <1>5, <1>6

LEMMA ReadIssueStep ==
  ASSUME AcceptanceInv, ReadIssue
  PROVE  AcceptanceInv'
<1> USE DEF AcceptanceInv
<1>1. PICK p : p = supervisor.phase
  OBVIOUS
<1>2. p \in PhaseNumbers /\ p + 1 \in Nat \ {0}
  BY <1>1, AcceptanceAssumption DEF ReadIssue, AcceptanceTypes, Supervisors, PhaseNumbers
<1> DEFINE first == CHOOSE i \in Unticked(p) : \A j \in Unticked(p) : i <= j
<1>3. ASSUME Unticked(p) # {} PROVE TasksOf[p][first] \in Tasks
  <2>1. Unticked(p) \subseteq 1..Len(TasksOf[p]) /\ Unticked(p) \subseteq Nat
    BY <1>2, AcceptanceAssumption DEF Unticked, PhaseNumbers
  <2>2. first \in Unticked(p)
    BY <1>3, <2>1, FirstNumber
  <2>3. \A i \in 1..Len(TasksOf[p]) : TasksOf[p][i] \in Tasks
    BY <1>2 DEF Tasks, PhaseNumbers
  <2>4. QED
    BY <2>1, <2>2, <2>3
<1> DEFINE next == IF supervisor.task # {} \/ Unticked(p) = {} THEN supervisor.task
                   ELSE {TasksOf[p][first]}
<1>a. supervisor.task \in SUBSET Tasks
      /\ (supervisor.task # {} => \E t \in Tasks : supervisor.task = {t})
  BY DEF ProgressInv, AcceptanceTypes, Supervisors
<1>b. next \in SUBSET Tasks /\ (next # {} => \E t \in Tasks : next = {t})
  BY <1>3, <1>a
<1>c. supervisor' = [supervisor EXCEPT !.phase = p + 1, !.task = next]
  BY <1>1 DEF ReadIssue
<1> HIDE DEF next, first
<1>4. PICK task \in SUBSET Tasks :
        /\ supervisor' = [supervisor EXCEPT !.phase = p + 1, !.task = task]
        /\ task # {} => \E t \in Tasks : task = {t}
  BY <1>b, <1>c
<1>5. /\ supervisor' \in Supervisors /\ supervisor'.at = "reading" /\ supervisor'.task = task
      /\ supervisor'.branch = supervisor.branch
  BY <1>2, <1>4 DEF AcceptanceTypes, Supervisors, ReadIssue
<1>6. UNCHANGED <<issues, worktree, locals, remotes, ticks>>
  BY DEF ReadIssue
<1>7. AcceptanceTypes' /\ TickedWorkIsPushed'
  BY <1>5, <1>6 DEF AcceptanceTypes, TickedWorkIsPushed
<1>8. ProgressInv'
  BY <1>4, <1>5, <1>6 DEF ProgressInv, ReadIssue
<1>9. QED
  BY <1>7, <1>8

LEMMA TakeTaskStep ==
  ASSUME AcceptanceInv, TakeTask
  PROVE  AcceptanceInv'
<1> USE DEF AcceptanceInv
<1>1. CASE supervisor.task = {}
  BY <1>1, SleepStep DEF TakeTask, AcceptanceTypes
<1>2. CASE supervisor.task # {}
  <2>1. worktree.branch = supervisor.branch /\ supervisor.branch \in RunBranches
    BY DEF TakeTask, ProgressInv
  <2>2. Len(locals[worktree.branch]) \in Nat
    BY <2>1 DEF AcceptanceTypes
  <2>3. /\ supervisor' \in Supervisors /\ supervisor'.at = "executing"
        /\ supervisor'.task = supervisor.task /\ supervisor'.branch = supervisor.branch
        /\ supervisor'.before = Len(locals[worktree.branch])
    BY <1>2, <2>2 DEF TakeTask, AcceptanceTypes, Supervisors, Steps
  <2>4. UNCHANGED <<issues, worktree, locals, remotes, ticks>>
    BY DEF TakeTask
  <2>5. AcceptanceTypes' /\ TickedWorkIsPushed'
    BY <2>3, <2>4 DEF AcceptanceTypes, TickedWorkIsPushed
  <2>6. ProgressInv'
    BY <1>2, <2>1, <2>3, <2>4 DEF ProgressInv
  <2>7. QED
    BY <2>5, <2>6
<1>3. QED
  BY <1>1, <1>2

(* A clean and successful end with more commits than before has made the   *)
(* one commit of the task.                                                 *)
LEMMA ExecutorStep ==
  ASSUME AcceptanceInv, NEW commits \in BOOLEAN, NEW dirty \in BOOLEAN, NEW succeeds \in BOOLEAN,
         ExecutorEnds(commits, dirty, succeeds)
  PROVE  AcceptanceInv'
<1> USE DEF AcceptanceInv
<1>1. PICK b \in RunBranches : b = worktree.branch /\ b = supervisor.branch
  BY DEF ExecutorEnds, ProgressInv
<1>2. PICK done : done = IF commits THEN Append(locals[b], TheTask) ELSE locals[b]
  OBVIOUS
<1>3. locals[b] \in Seq(Tasks) /\ TheTask \in Tasks
  BY TaskAtHand DEF ExecutorEnds, ProgressInv, AcceptanceTypes
<1>4. done \in Seq(Tasks) /\ (Len(done) # Len(locals[b]) => Holds(done, TheTask))
  BY <1>2, <1>3 DEF Holds
<1>5. /\ locals' = [locals EXCEPT ![b] = done]
      /\ worktree' = [worktree EXCEPT !.dirty = dirty]
      /\ UNCHANGED <<issues, remotes, ticks>>
      /\ \/ supervisor' = Asleep
         \/ /\ supervisor' = [supervisor EXCEPT !.at = "pushing"]
            /\ Len(done) # supervisor.before
  BY <1>1, <1>2 DEF ExecutorEnds, TheTask
<1>6. /\ locals' \in [RunBranches -> Seq(Tasks)] /\ locals'[b] = done
      /\ worktree' \in [branch : RunBranches \cup {NoBranch}, dirty : BOOLEAN]
      /\ worktree'.branch = b
  BY <1>1, <1>4, <1>5 DEF AcceptanceTypes
<1>7. CASE supervisor' = Asleep
  BY <1>5, <1>6, <1>7, SleepStep
<1>8. CASE supervisor' = [supervisor EXCEPT !.at = "pushing"] /\ Len(done) # supervisor.before
  <2>1. /\ supervisor' \in Supervisors /\ supervisor'.at = "pushing"
        /\ supervisor'.task = supervisor.task /\ supervisor'.branch = supervisor.branch
    BY <1>8 DEF AcceptanceTypes, Supervisors, Steps
  <2>2. supervisor.before = Len(locals[b])
    BY <1>1 DEF ExecutorEnds, ProgressInv
  <2>3. TheTask' = TheTask
    BY <2>1 DEF TheTask
  <2>4. Holds(locals'[b], TheTask')
    BY <1>4, <1>6, <1>8, <2>2, <2>3
  <2>5. ProgressInv'
    <3>1. supervisor.task # {} /\ (\E t \in Tasks : supervisor.task = {t})
      BY DEF ProgressInv, ExecutorEnds
    <3>2. worktree'.branch = supervisor'.branch /\ worktree'.branch = b
      BY <1>1, <1>6, <2>1
    <3>3. Holds(locals[worktree.branch], TheTask)'
      BY <2>4, <3>2 DEF Holds
    <3>4. QED
      BY <2>1, <3>1, <3>2, <3>3 DEF ProgressInv
  <2>6. AcceptanceTypes'
    BY <1>5, <1>6, <2>1 DEF AcceptanceTypes
  <2>8. TickedWorkIsPushed'
    BY <1>5 DEF TickedWorkIsPushed
  <2>7. QED
    BY <2>5, <2>6, <2>8
<1>9. QED
  BY <1>5, <1>7, <1>8

LEMMA PushStep ==
  ASSUME AcceptanceInv, PushBranch
  PROVE  AcceptanceInv'
<1> USE DEF AcceptanceInv
<1>1. PICK b \in RunBranches : b = worktree.branch /\ b = supervisor.branch
  BY DEF PushBranch, ProgressInv
<1>2. CASE supervisor' = Asleep /\ UNCHANGED remotes
  BY <1>2, SleepStep DEF PushBranch, AcceptanceTypes
<1>3. CASE /\ IsPrefixOf(remotes[b], locals[b])
           /\ remotes' = [remotes EXCEPT ![b] = locals[b]]
           /\ supervisor' = [supervisor EXCEPT !.at = "marking"]
  <2>1. locals[b] \in Seq(Tasks) /\ remotes[b] \in Seq(Tasks)
    BY DEF AcceptanceTypes
  <2>2. remotes' \in [RunBranches -> Seq(Tasks)] /\ remotes'[b] = locals[b]
        /\ \A c \in RunBranches : c # b => remotes'[c] = remotes[c]
    BY <1>3, <2>1 DEF AcceptanceTypes
  <2>3. UNCHANGED <<issues, worktree, locals, ticks>>
    BY DEF PushBranch
  <2>4. /\ supervisor' \in Supervisors /\ supervisor'.at = "marking"
        /\ supervisor'.task = supervisor.task /\ supervisor'.branch = supervisor.branch
    BY <1>3 DEF AcceptanceTypes, Supervisors, Steps
  <2>5. AcceptanceTypes'
    BY <2>2, <2>3, <2>4 DEF AcceptanceTypes
  <2>6. ProgressInv'
    <3>1. supervisor.task # {} /\ (\E t \in Tasks : supervisor.task = {t})
          /\ Holds(locals[b], TheTask)
      BY <1>1 DEF ProgressInv, PushBranch
    <3>2. TheTask' = TheTask
      BY <2>4 DEF TheTask
    <3>3. Holds(remotes[worktree.branch], TheTask)'
      BY <1>1, <2>2, <2>3, <3>1, <3>2 DEF Holds
    <3>4. QED
      BY <1>1, <2>3, <2>4, <3>1, <3>3 DEF ProgressInv
  <2>7. TickedWorkIsPushed'
    <3>1. ASSUME NEW t \in ticks PROVE \E c \in RunBranches : Holds(remotes'[c], t)
      <4>1. PICK c \in RunBranches : Holds(remotes[c], t)
        BY DEF TickedWorkIsPushed, Holds
      <4>2. CASE c = b
        BY <1>3, <2>1, <2>2, <4>1, <4>2, PushKeeps
      <4>3. CASE c # b
        BY <2>2, <4>1, <4>3
      <4>4. QED
        BY <4>2, <4>3
    <3>2. QED
      BY <2>3, <3>1 DEF TickedWorkIsPushed, Holds
  <2>8. QED
    BY <2>5, <2>6, <2>7
<1>4. QED
  BY <1>1, <1>2, <1>3 DEF PushBranch

LEMMA ReadBodyStep ==
  ASSUME AcceptanceInv, ReadBody
  PROVE  AcceptanceInv'
<1> USE DEF AcceptanceInv
<1>1. /\ supervisor.at = "marking" /\ supervisor.task # {}
      /\ PhaseOf(TheTask) \in PhaseNumbers
  BY TaskAtHand DEF ReadBody, ProgressInv
<1>2. PICK body \in Bodies : body = issues[PhaseOf(TheTask)]
  BY <1>1 DEF AcceptanceTypes
<1>3. CASE supervisor' = Asleep
  BY <1>3, SleepStep DEF ReadBody, AcceptanceTypes
<1>4. CASE supervisor' = [supervisor EXCEPT !.at = "patching", !.body = body]
  <2>1. /\ supervisor' \in Supervisors /\ supervisor'.at = "patching"
        /\ supervisor'.task = supervisor.task /\ supervisor'.branch = supervisor.branch
    BY <1>2, <1>4 DEF AcceptanceTypes, Supervisors, Steps
  <2>2. UNCHANGED <<issues, worktree, locals, remotes, ticks>> /\ TheTask' = TheTask
    BY <2>1 DEF ReadBody, TheTask
  <2>3. Holds(remotes[worktree.branch], TheTask)'
    BY <1>1, <2>2 DEF ProgressInv, Holds
  <2>4. ProgressInv'
    BY <1>1, <2>1, <2>2, <2>3 DEF ProgressInv
  <2>5. AcceptanceTypes' /\ TickedWorkIsPushed'
    BY <2>1, <2>2 DEF AcceptanceTypes, TickedWorkIsPushed
  <2>6. QED
    BY <2>4, <2>5
<1>5. QED
  BY <1>2, <1>3, <1>4 DEF ReadBody

LEMMA PatchStep ==
  ASSUME AcceptanceInv, PatchBody
  PROVE  AcceptanceInv'
<1> USE DEF AcceptanceInv
<1>1. /\ TheTask \in Tasks /\ supervisor.task # {} /\ worktree.branch \in RunBranches
      /\ worktree.branch = supervisor.branch /\ Holds(remotes[worktree.branch], TheTask)
  BY TaskAtHand DEF PatchBody, ProgressInv
<1>2. PICK body : body = [supervisor.body EXCEPT !.ticked = @ \cup {TheTask}]
  OBVIOUS
<1>3. body \in Bodies
  <2>1. supervisor.body \in Bodies
    BY DEF AcceptanceTypes, Supervisors
  <2>2. QED
    BY <1>1, <1>2, <2>1 DEF Bodies
<1>4. /\ issues' = [issues EXCEPT ![PhaseOf(TheTask)] = body]
      /\ ticks' = ticks \cup {TheTask}
      /\ supervisor' = [Asleep EXCEPT !.at = "reading", !.branch = supervisor.branch]
      /\ UNCHANGED <<worktree, locals, remotes>>
  BY <1>2 DEF PatchBody
<1>5. issues' \in [PhaseNumbers -> Bodies]
  BY <1>3, <1>4 DEF AcceptanceTypes
<1>6. /\ supervisor' \in Supervisors /\ supervisor'.at = "reading" /\ supervisor'.task = {}
      /\ supervisor'.branch = worktree.branch
  BY <1>1, <1>4, SleepType DEF Supervisors, Steps
<1>7. AcceptanceTypes'
  BY <1>4, <1>5, <1>6 DEF AcceptanceTypes
<1>8. ProgressInv'
  BY <1>1, <1>4, <1>6 DEF ProgressInv
<1>9. TickedWorkIsPushed'
  BY <1>1, <1>4 DEF TickedWorkIsPushed, Holds
<1>10. QED
  BY <1>7, <1>8, <1>9

(* People edit issues and tidy the worktree. *)
LEMMA EditStep ==
  ASSUME AcceptanceInv, NEW p \in PhaseNumbers, EditIssue(p)
  PROVE  AcceptanceInv'
<1> USE DEF AcceptanceInv
<1>1. PICK t \in {TasksOf[p][i] : i \in 1..Len(TasksOf[p])} :
        issues' = [issues EXCEPT ![p] =
                     [ticked |-> IF t \in @.ticked THEN @.ticked \ {t} ELSE @.ticked \cup {t},
                      edition |-> @.edition + 1]]
  BY DEF EditIssue
<1>2. t \in Tasks
  BY DEF Tasks, PhaseNumbers
<1>3. issues[p] \in Bodies
  BY DEF AcceptanceTypes
<1>4. [ticked |-> IF t \in issues[p].ticked THEN issues[p].ticked \ {t}
                  ELSE issues[p].ticked \cup {t},
       edition |-> issues[p].edition + 1] \in Bodies
  BY <1>2, <1>3 DEF Bodies
<1>5. issues' \in [PhaseNumbers -> Bodies]
  BY <1>1, <1>4 DEF AcceptanceTypes
<1>6. UNCHANGED <<worktree, locals, remotes, supervisor, ticks>>
  BY DEF EditIssue
<1>7. QED
  BY <1>5, <1>6 DEF AcceptanceTypes, ProgressInv, TickedWorkIsPushed, TheTask, Holds

LEMMA TidyStep ==
  ASSUME AcceptanceInv, NEW removed \in BOOLEAN, TidyWorktree(removed)
  PROVE  AcceptanceInv'
<1> USE DEF AcceptanceInv
<1>1. /\ supervisor.at = "asleep"
      /\ worktree' \in [branch : RunBranches \cup {NoBranch}, dirty : BOOLEAN]
      /\ UNCHANGED <<issues, locals, remotes, supervisor, ticks>>
  BY DEF TidyWorktree, AcceptanceTypes
<1>2. AcceptanceTypes'
  BY <1>1 DEF AcceptanceTypes
<1>3. ProgressInv'
  BY <1>1 DEF ProgressInv
<1>4. TickedWorkIsPushed'
  BY <1>1 DEF TickedWorkIsPushed
<1>5. QED
  BY <1>2, <1>3, <1>4

LEMMA RestStep ==
  ASSUME AcceptanceInv, UNCHANGED acceptanceVars
  PROVE  AcceptanceInv'
<1>1. UNCHANGED <<issues, worktree, locals, remotes, supervisor, ticks>>
  BY DEF acceptanceVars
<1>2. QED
  BY <1>1 DEF AcceptanceInv, AcceptanceTypes, ProgressInv, TickedWorkIsPushed, TheTask, Holds

LEMMA AcceptanceNextInv == AcceptanceInv /\ [AcceptanceNext]_acceptanceVars => AcceptanceInv'
<1>1. SUFFICES ASSUME AcceptanceInv, [AcceptanceNext]_acceptanceVars
      PROVE AcceptanceInv'
  OBVIOUS
<1>2. CASE \E b \in RunBranches : StartRun(b)
  BY <1>1, <1>2, StartRunStep
<1>3. CASE ReadIssue \/ TakeTask \/ PushBranch \/ ReadBody \/ PatchBody
  BY <1>1, <1>3, ReadIssueStep, TakeTaskStep, PushStep, ReadBodyStep, PatchStep
<1>4. CASE RunEnds
  BY <1>1, <1>4, SleepStep DEF RunEnds, AcceptanceInv, AcceptanceTypes
<1>5. CASE \E commits, dirty, succeeds \in BOOLEAN : ExecutorEnds(commits, dirty, succeeds)
  BY <1>1, <1>5, ExecutorStep
<1>6. CASE \E p \in 1..Len(Phases) : EditIssue(p)
  BY <1>1, <1>6, EditStep DEF PhaseNumbers
<1>7. CASE \E removed \in BOOLEAN : TidyWorktree(removed)
  BY <1>1, <1>7, TidyStep
<1>8. CASE UNCHANGED acceptanceVars
  BY <1>1, <1>8, RestStep
<1>9. QED
  BY <1>1, <1>2, <1>3, <1>4, <1>5, <1>6, <1>7, <1>8 DEF AcceptanceNext

(* The inductive invariant holds of every behaviour of the supervisor. *)
THEOREM AcceptanceInvHolds == AcceptanceSpec => []AcceptanceInv
BY AcceptanceInitInv, AcceptanceNextInv, PTL DEF AcceptanceSpec

(* A tick in an issue is evidence: the ticked task has a commit on a remote  *)
(* branch, whatever runs died, issues were edited and worktrees remade.      *)
THEOREM TicksAreEvidence == AcceptanceSpec => []TickedWorkIsPushed
<1>1. AcceptanceInv => TickedWorkIsPushed
  BY DEF AcceptanceInv
<1>2. QED
  BY <1>1, AcceptanceInvHolds, PTL

(* The supervisor's state keeps its types, and while a run lasts the worktree *)
(* has the run's branch checked out.                                          *)
THEOREM AcceptanceTypesHold == AcceptanceSpec => []AcceptanceTypeOK
<1>1. AcceptanceInv => AcceptanceTypeOK
  BY DEF AcceptanceInv, AcceptanceTypes, ProgressInv, AcceptanceTypeOK, PhaseNumbers, Bodies
<1>2. QED
  BY <1>1, AcceptanceInvHolds, PTL

---------------------------------------------------------------------------
(* The chat adapter.  What an operation has become it stays: answered,      *)
(* failed and of its prompt.  So what the adapter saw of one it may still   *)
(* say when it returns.                                                     *)
---------------------------------------------------------------------------
ChatOpRows == [session : ChatSessions, what : Prompts \cup {NewChat},
               status : Unfinished \cup {"completed", "failed"},
               answered : BOOLEAN, text : Nat, lost : BOOLEAN]
Completions == {"none", "generating", "complete", "error", "timeout"}
ChatCalls == [stage : {"quiet", "waiting", "looking"}, op : Nat, failures : Nat, looks : Nat,
              rechecks : Nat, seen : [completion : Completions, text : {0}, lost : BOOLEAN]]

(* What the bridge says of operation o hangs together.                     *)
ChatOpInv(o, op) ==
  /\ op \in ChatOpRows
  /\ op.text \in {0, o}
  /\ op.text # 0 => op.answered
  /\ op.lost => op.answered
  /\ op.status = "completed" => op.answered \/ op.what = NewChat

ChatOpsInv ==
  /\ OpIds = 1..Cardinality(OpIds) /\ Cardinality(OpIds) \in 0..MaxChatOps
  /\ \A o \in OpIds : ChatOpInv(o, chatOps[o])
  /\ \/ observation = NoObservation
     \/ observation \in OpIds /\ chatOps[observation].answered

(* What an adapter took from an operation is true of it.                   *)
Truly(o, completion) ==
  /\ completion = "complete" => chatOps[o].answered \/ chatOps[o].what = NewChat
  /\ completion = "error" => chatOps[o].status = "failed"

AdapterInv(call) ==
  /\ call \in ChatCalls
  /\ call.failures < ReadAttempts /\ call.looks < ObservationAttempts
  /\ call.rechecks <= RecheckAttempts
  /\ call.stage # "quiet" =>
       /\ call.op \in OpIds
       /\ call.rechecks > 0 => Truly(call.op, "complete")
  /\ call.stage = "looking" =>
       /\ Truly(call.op, call.seen.completion)
       /\ call.seen.lost => chatOps[call.op].answered

ResponseInv(r) ==
  /\ r.op \in OpIds /\ r.text \in {0, r.op}
  /\ Truly(r.op, r.completion)
  /\ r.text # 0 => chatOps[r.op].answered

ChatInv ==
  /\ ChatOpsInv
  /\ chat \in [ChatSessions -> ChatCalls]
  /\ \A s \in ChatSessions : AdapterInv(chat[s])
  /\ \A r \in returned : ResponseInv(r)

LEMMA CallsAreCalls ==
  ASSUME NEW stage \in {"quiet", "waiting", "looking"}, NEW o \in Nat
  PROVE  /\ Call(stage, o) \in ChatCalls
         /\ Call(stage, o).stage = stage /\ Call(stage, o).op = o
         /\ Call(stage, o).failures < ReadAttempts /\ Call(stage, o).looks < ObservationAttempts
         /\ Call(stage, o).rechecks = 0 /\ Call(stage, o).rechecks <= RecheckAttempts
BY ChatAssumption DEF Call, ChatCalls, Completions

LEMMA ChatInitInv == ChatInit => ChatInv
<1> SUFFICES ASSUME ChatInit PROVE ChatInv
  OBVIOUS
<1>1. OpIds = {}
  BY DEF ChatInit, OpIds
<1>2. ChatOpsInv
  <2>1. Cardinality(OpIds) = 0
    BY <1>1, FS_EmptySet
  <2>2. 1..0 = {} /\ 0 \in 0..MaxChatOps
    BY ChatAssumption
  <2>3. observation = NoObservation
    BY DEF ChatInit
  <2>4. QED
    BY <1>1, <2>1, <2>2, <2>3 DEF ChatOpsInv
<1>3. \A s \in ChatSessions : chat[s] = Call("quiet", 0)
  BY DEF ChatInit, Quiet
<1>4. AdapterInv(Call("quiet", 0))
  BY CallsAreCalls DEF AdapterInv
<1>5. chat \in [ChatSessions -> ChatCalls]
  BY CallsAreCalls DEF ChatInit, Quiet
<1>6. QED
  BY <1>2, <1>3, <1>4, <1>5 DEF ChatInv, ChatInit

(* Operations go on and none is forgotten.                                  *)
OpsGoOn ==
  \A o \in OpIds :
    /\ o \in OpIds'
    /\ chatOps'[o].what = chatOps[o].what
    /\ chatOps[o].answered => chatOps'[o].answered
    /\ chatOps[o].status = "failed" => chatOps'[o].status = "failed"

LEMMA AdapterWaits ==
  ASSUME OpsGoOn, NEW call, AdapterInv(call)
  PROVE  AdapterInv(call)'
BY DEF AdapterInv, OpsGoOn, Truly

LEMMA ResponsesStay ==
  ASSUME OpsGoOn, NEW r, ResponseInv(r)
  PROVE  ResponseInv(r)'
BY DEF ResponseInv, OpsGoOn, Truly

(* The bridge moves, and one adapter may: its call and response hold.      *)
LEMMA ChatGoes ==
  ASSUME ChatInv, ChatOpsInv', OpsGoOn, UNCHANGED returned,
         NEW s \in ChatSessions, NEW call, AdapterInv(call)', Move(s, call)
  PROVE  ChatInv'
<1>1. call \in ChatCalls
  BY DEF AdapterInv
<1>2. chat' \in [ChatSessions -> ChatCalls]
  BY <1>1 DEF ChatInv, Move
<1>3. ASSUME NEW t \in ChatSessions PROVE AdapterInv(chat[t])'
  <2>1. PICK old : old = chat[t]
    OBVIOUS
  <2>2. AdapterInv(old)'
    BY <2>1, AdapterWaits DEF ChatInv
  <2>3. PICK new : new = chat'[t]
    OBVIOUS
  <2>4. new \in {old, call}
    BY <2>1, <2>3 DEF ChatInv, Move
  <2>5. AdapterInv(new)'
    BY <2>2, <2>4
  <2>6. QED
    BY <2>3, <2>5 DEF AdapterInv, Truly
<1>4. ASSUME NEW r \in returned' PROVE ResponseInv(r)'
  BY <1>4, ResponsesStay DEF ChatInv
<1>5. QED
  BY <1>2, <1>3, <1>4 DEF ChatInv

LEMMA BridgeGoes ==
  ASSUME ChatInv, ChatOpsInv', OpsGoOn, UNCHANGED <<chat, returned>>
  PROVE  ChatInv'
<1>1. ASSUME NEW t \in ChatSessions PROVE AdapterInv(chat[t])'
  <2>1. PICK old : old = chat[t] /\ old = chat'[t]
    OBVIOUS
  <2>2. AdapterInv(old)'
    BY <2>1, AdapterWaits DEF ChatInv
  <2>3. QED
    BY <2>1, <2>2 DEF AdapterInv, Truly
<1>2. ASSUME NEW r \in returned' PROVE ResponseInv(r)'
  BY <1>2, ResponsesStay DEF ChatInv
<1>3. QED
  BY <1>1, <1>2 DEF ChatInv

(* One operation is changed in a way that hangs together.                  *)
LEMMA OpChanges ==
  ASSUME ChatInv, NEW o \in OpIds, NEW op, ChatOpInv(o, op),
         chatOps' = [chatOps EXCEPT ![o] = op],
         op.what = chatOps[o].what, chatOps[o].answered => op.answered,
         chatOps[o].status = "failed" => op.status = "failed",
         \/ UNCHANGED observation
         \/ observation' = o /\ op.answered,
         UNCHANGED <<chat, returned>>
  PROVE  ChatInv'
<1>1. /\ OpIds' = OpIds
      /\ \A p \in OpIds : chatOps'[p] = IF p = o THEN op ELSE chatOps[p]
  BY DEF OpIds
<1>2. OpsGoOn
  BY <1>1 DEF OpsGoOn
<1>3. \A p \in OpIds : ChatOpInv(p, chatOps'[p])
  BY <1>1 DEF ChatInv, ChatOpsInv
<1>4. ChatOpsInv'
  BY <1>1, <1>3 DEF ChatInv, ChatOpsInv, ChatOpInv
<1>5. QED
  BY <1>2, <1>4, BridgeGoes

LEMMA BridgeStep ==
  ASSUME ChatInv, NEW o \in OpIds,
         \/ BridgeGenerates(o) \/ BrowserAnswers(o) \/ BridgeStoresAnswer(o) \/ BridgeCompletes(o)
         \/ \E lost \in BOOLEAN : BridgeFails(o, lost)
  PROVE  ChatInv'
<1>1. PICK op \in ChatOpRows : op = chatOps[o] /\ ChatOpInv(o, op)
  BY DEF ChatInv, ChatOpsInv, ChatOpInv
<1>2. o \in Nat \ {0}
  BY DEF ChatInv, ChatOpsInv
<1>3. CASE BridgeGenerates(o)
  <2>1. PICK new : new = [op EXCEPT !.status = "generating"]
    OBVIOUS
  <2>2. /\ ChatOpInv(o, new) /\ new.what = op.what /\ new.answered = op.answered
    BY <1>1, <2>1 DEF ChatOpInv, ChatOpRows, Unfinished
  <2>3. chatOps' = [chatOps EXCEPT ![o] = new] /\ op.status = "queued"
    BY <1>1, <1>3, <2>1 DEF BridgeGenerates
  <2>4. UNCHANGED <<observation, chat, returned>>
    BY <1>3 DEF BridgeGenerates
  <2>5. QED
    BY <1>1, <2>2, <2>3, <2>4, OpChanges
<1>4. CASE BrowserAnswers(o)
  <2>1. PICK new : new = [op EXCEPT !.answered = TRUE]
    OBVIOUS
  <2>2. ChatOpInv(o, new) /\ new.what = op.what /\ new.answered /\ new.status = op.status
    BY <1>1, <2>1 DEF ChatOpInv, ChatOpRows
  <2>3. chatOps' = [chatOps EXCEPT ![o] = new] /\ observation' = o
    BY <1>1, <1>4, <2>1 DEF BrowserAnswers
  <2>4. UNCHANGED <<chat, returned>>
    BY <1>4 DEF BrowserAnswers
  <2>5. QED
    BY <1>1, <2>2, <2>3, <2>4, OpChanges
<1>5. CASE BridgeStoresAnswer(o)
  <2>1. PICK new : new = [op EXCEPT !.text = o]
    OBVIOUS
  <2>2. op.answered
    BY <1>1, <1>5 DEF BridgeStoresAnswer
  <2>3. /\ ChatOpInv(o, new) /\ new.what = op.what /\ new.answered = op.answered
        /\ new.status = op.status
    BY <1>1, <1>2, <2>1, <2>2 DEF ChatOpInv, ChatOpRows
  <2>4. chatOps' = [chatOps EXCEPT ![o] = new]
    BY <1>1, <1>5, <2>1 DEF BridgeStoresAnswer
  <2>5. UNCHANGED <<observation, chat, returned>>
    BY <1>5 DEF BridgeStoresAnswer
  <2>6. QED
    BY <1>1, <2>3, <2>4, <2>5, OpChanges
<1>6. CASE BridgeCompletes(o)
  <2>1. PICK new : new = [op EXCEPT !.status = "completed"]
    OBVIOUS
  <2>2. (op.answered \/ op.what = NewChat) /\ op.status = "generating"
    BY <1>1, <1>6 DEF BridgeCompletes
  <2>3. ChatOpInv(o, new) /\ new.what = op.what /\ new.answered = op.answered
    BY <1>1, <2>1, <2>2 DEF ChatOpInv, ChatOpRows
  <2>4. chatOps' = [chatOps EXCEPT ![o] = new]
    BY <1>1, <1>6, <2>1 DEF BridgeCompletes
  <2>5. UNCHANGED <<observation, chat, returned>>
    BY <1>6 DEF BridgeCompletes
  <2>6. QED
    BY <1>1, <2>2, <2>3, <2>4, <2>5, OpChanges
<1>7. CASE \E lost \in BOOLEAN : BridgeFails(o, lost)
  <2>1. PICK lost \in BOOLEAN : BridgeFails(o, lost)
    BY <1>7
  <2>2. PICK new : new = [op EXCEPT !.status = "failed", !.lost = lost]
    OBVIOUS
  <2>3. lost => op.answered
    BY <1>1, <2>1 DEF BridgeFails
  <2>4. /\ ChatOpInv(o, new) /\ new.what = op.what /\ new.answered = op.answered
        /\ new.status = "failed"
    BY <1>1, <2>2, <2>3 DEF ChatOpInv, ChatOpRows
  <2>5. chatOps' = [chatOps EXCEPT ![o] = new]
    BY <1>1, <2>1, <2>2 DEF BridgeFails
  <2>6. UNCHANGED <<observation, chat, returned>>
    BY <2>1 DEF BridgeFails
  <2>7. QED
    BY <1>1, <2>4, <2>5, <2>6, OpChanges
<1>8. QED
  BY <1>3, <1>4, <1>5, <1>6, <1>7

(* The operation of a key that is not under way gets the next number.       *)
LEMMA QueueStep ==
  ASSUME ChatInv, NEW s \in ChatSessions, NEW what \in Prompts \cup {NewChat},
         NEW answered \in BOOLEAN, Queue(s, what, answered)
  PROVE  ChatInv'
<1>1. PICK n : n = Cardinality(OpIds)
  OBVIOUS
<1>2. n \in Nat /\ OpIds = 1..n /\ n \in 0..MaxChatOps
  BY <1>1 DEF ChatInv, ChatOpsInv
<1>3. PICK same : same = {o \in OpIds : /\ chatOps[o].status \in Unfinished
                                         /\ what # NewChat
                                         /\ chatOps[o].session = s /\ chatOps[o].what = what}
  OBVIOUS
<1>4. PICK o : o = IF same = {} THEN n + 1 ELSE CHOOSE p \in same : TRUE
  OBVIOUS
<1>5. PICK row : row = [session |-> s, what |-> what, status |-> "queued",
                        answered |-> FALSE, text |-> 0, lost |-> FALSE]
  OBVIOUS
<1>6. /\ o <= MaxChatOps /\ UNCHANGED <<observation, returned>>
      /\ chatOps' = IF same # {} THEN chatOps
                    ELSE [p \in OpIds \cup {o} |-> IF p = o THEN row ELSE chatOps[p]]
      /\ Move(s, IF answered THEN Call("waiting", o) ELSE Quiet)
  BY <1>1, <1>3, <1>4, <1>5 DEF Queue
<1>7. ChatOpsInv' /\ OpsGoOn /\ o \in OpIds'
  <2>1. CASE same # {}
    <3>1. o \in OpIds /\ chatOps' = chatOps
      BY <1>3, <1>4, <1>6, <2>1
    <3>2. QED
      BY <1>6, <3>1 DEF ChatInv, ChatOpsInv, OpsGoOn, OpIds
  <2>2. CASE same = {}
    <3>1. o = n + 1 /\ chatOps' = [p \in OpIds \cup {o} |-> IF p = o THEN row ELSE chatOps[p]]
      BY <1>4, <1>6, <2>2
    <3>2. OpIds' = 1..(n + 1) /\ OpIds' = OpIds \cup {o}
      BY <1>2, <3>1 DEF OpIds
    <3>3. Cardinality(OpIds') = n + 1 /\ n + 1 \in 0..MaxChatOps
      BY <1>2, <1>6, <3>1, <3>2, FS_Interval, ChatAssumption
    <3>4. chatOps'[o] = row /\ \A p \in OpIds : chatOps'[p] = chatOps[p]
      BY <1>2, <3>1
    <3>5. ChatOpInv(o, row)
      BY <1>2, <1>5, <3>1 DEF ChatOpInv, ChatOpRows, Unfinished
    <3>6. \A p \in OpIds : ChatOpInv(p, chatOps[p])
      BY DEF ChatInv, ChatOpsInv
    <3>7. \A p \in OpIds' : ChatOpInv(p, chatOps'[p])
      BY <3>2, <3>4, <3>5, <3>6
    <3>8. \/ observation' = NoObservation
          \/ observation' \in OpIds' /\ chatOps'[observation'].answered
      BY <1>6, <3>2, <3>4 DEF ChatInv, ChatOpsInv
    <3>9. ChatOpsInv'
      BY <3>2, <3>3, <3>7, <3>8 DEF ChatOpsInv, ChatOpInv
    <3>10. QED
      BY <3>2, <3>4, <3>9 DEF OpsGoOn
  <2>3. QED
    BY <2>1, <2>2
<1>8. AdapterInv(Call("waiting", o))' /\ AdapterInv(Quiet)'
  <2>1. o \in Nat
    BY <1>2, <1>7 DEF ChatOpsInv
  <2>2. AdapterInv(Call("waiting", o))'
    BY <1>7, <2>1, CallsAreCalls DEF AdapterInv
  <2>3. AdapterInv(Call("quiet", 0))'
    BY CallsAreCalls DEF AdapterInv
  <2>4. QED
    BY <2>2, <2>3 DEF Quiet
<1>9. CASE answered
  BY <1>6, <1>7, <1>8, <1>9, ChatGoes
<1>10. CASE ~ answered
  BY <1>6, <1>7, <1>8, <1>10, ChatGoes
<1>11. QED
  BY <1>9, <1>10

(* What an operation reads as is true of it.                                *)
LEMMA CompletionIsTrue ==
  ASSUME ChatInv, NEW o \in OpIds
  PROVE  /\ Completion(chatOps[o]) \in Completions \ {"timeout", "none"}
         /\ Truly(o, Completion(chatOps[o]))
<1>1. PICK op \in ChatOpRows : op = chatOps[o] /\ ChatOpInv(o, op)
  BY DEF ChatInv, ChatOpsInv, ChatOpInv
<1>2. CASE op.status = "failed"
  BY <1>1, <1>2 DEF Completion, Completions, Truly
<1>3. CASE op.status = "completed"
  <2>1. Completion(op) = "complete"
    BY <1>3 DEF Completion, Unfinished
  <2>2. QED
    BY <1>1, <1>3, <2>1 DEF ChatOpInv, Completions, Truly
<1>4. CASE op.status = "generating" /\ op.text # 0
  <2>1. Completion(op) = "complete"
    BY <1>4 DEF Completion, Unfinished
  <2>2. QED
    BY <1>1, <1>4, <2>1 DEF ChatOpInv, Completions, Truly
<1>5. CASE op.status \in Unfinished /\ ~ (op.status = "generating" /\ op.text # 0)
  <2>1. Completion(op) = "generating"
    BY <1>5 DEF Completion, Unfinished
  <2>2. QED
    BY <1>1, <2>1 DEF Completions, Truly
<1>6. QED
  BY <1>1, <1>2, <1>3, <1>4, <1>5 DEF ChatOpRows, Unfinished

(* The operations rest: one adapter's call goes on, or it returns.          *)
LEMMA AdapterMoves ==
  ASSUME ChatInv, UNCHANGED <<chatOps, observation>>,
         NEW s \in ChatSessions, NEW call, AdapterInv(call), Move(s, call),
         \A r \in returned' \ returned : ResponseInv(r)
  PROVE  ChatInv'
<1>1. OpIds' = OpIds /\ \A o, c : Truly(o, c) <=> Truly(o, c)'
  BY DEF OpIds, Truly
<1>2. ChatOpsInv'
  BY <1>1 DEF ChatInv, ChatOpsInv
<1>3. \A c : AdapterInv(c) => AdapterInv(c)'
  BY <1>1 DEF AdapterInv
<1>4. \A r : ResponseInv(r) => ResponseInv(r)'
  BY <1>1 DEF ResponseInv
<1>5. call \in ChatCalls
  BY DEF AdapterInv
<1>6. chat' \in [ChatSessions -> ChatCalls]
  BY <1>5 DEF ChatInv, Move
<1>7. ASSUME NEW t \in ChatSessions PROVE AdapterInv(chat[t])'
  <2>1. chat'[t] \in {chat[t], call}
    BY DEF ChatInv, Move
  <2>2. PICK new : new = chat'[t]
    OBVIOUS
  <2>3. AdapterInv(new)'
    BY <1>3, <2>1, <2>2 DEF ChatInv
  <2>4. QED
    BY <2>2, <2>3 DEF AdapterInv, Truly
<1>8. \A r \in returned' : ResponseInv(r)'
  BY <1>4 DEF ChatInv
<1>9. QED
  BY <1>2, <1>6, <1>7, <1>8 DEF ChatInv

LEMMA QuietIsFine == ChatInv => AdapterInv(Quiet)
BY CallsAreCalls DEF AdapterInv, Quiet

LEMMA ReturnStep ==
  ASSUME ChatInv, UNCHANGED <<chatOps, observation>>, NEW s \in ChatSessions,
         chat[s].op \in OpIds, NEW completion, NEW text, Return(s, completion, text),
         text \in {0, chat[s].op}, Truly(chat[s].op, completion),
         text # 0 => chatOps[chat[s].op].answered
  PROVE  ChatInv'
<1>1. PICK r : r = [op |-> chat[s].op, completion |-> completion, text |-> text]
  OBVIOUS
<1>2. ResponseInv(r)
  BY <1>1 DEF ResponseInv
<1>3. returned' = returned \cup {r} /\ Move(s, Quiet)
  BY <1>1 DEF Return
<1>4. QED
  BY <1>2, <1>3, QuietIsFine, AdapterMoves

(* A call of a session at work.                                             *)
LEMMA CallAtHand ==
  ASSUME ChatInv, NEW s \in ChatSessions, chat[s].stage # "quiet"
  PROVE  /\ AdapterInv(chat[s]) /\ chat[s].op \in OpIds /\ chat[s].op \in Nat
         /\ chat[s].rechecks \in 0..RecheckAttempts
BY ChatAssumption DEF ChatInv, ChatOpsInv, AdapterInv, ChatCalls

(* Whatever is settled is true of the operation, so what is said of it is.  *)
LEMMA SettleStep ==
  ASSUME ChatInv, UNCHANGED <<chatOps, observation>>, NEW s \in ChatSessions,
         chat[s].stage # "quiet", NEW completion, NEW text, Settle(s, completion, text),
         text \in {0, chat[s].op}, Truly(chat[s].op, completion),
         text # 0 => chatOps[chat[s].op].answered
  PROVE  ChatInv'
<1>1. PICK o \in OpIds : o = chat[s].op /\ o \in Nat
  BY CallAtHand
<1>2. PICK done \in 0..RecheckAttempts : done = chat[s].rechecks
  BY CallAtHand
<1>3. CASE completion = "generating" /\ ~ Recheck(s)
  <2>1. Move(s, Call("waiting", o)) /\ UNCHANGED returned
    BY <1>1, <1>3 DEF Settle
  <2>2. AdapterInv(Call("waiting", o))
    BY <1>1, CallsAreCalls DEF AdapterInv
  <2>3. QED
    BY <2>1, <2>2, AdapterMoves
<1>4. CASE /\ completion = "complete" /\ text = 0 /\ chatOps[chat[s].op].what # NewChat
           /\ chat[s].rechecks < RecheckAttempts
  <2>1. PICK call : call = [Call("waiting", o) EXCEPT !.rechecks = done + 1]
    OBVIOUS
  <2>2. Move(s, call) /\ UNCHANGED returned
    BY <1>1, <1>2, <1>4, <2>1 DEF Settle
  <2>3. PICK base \in ChatCalls : base = Call("waiting", o)
    BY <1>1, CallsAreCalls
  <2>4. /\ call \in ChatCalls /\ call.rechecks = done + 1 /\ call.op = base.op
        /\ call.stage = base.stage /\ call.failures = base.failures /\ call.looks = base.looks
    BY <1>2, <2>1, <2>3 DEF ChatCalls
  <2>5. /\ base.op = o /\ base.stage = "waiting" /\ base.failures < ReadAttempts
        /\ base.looks < ObservationAttempts
    BY <1>1, <2>3, CallsAreCalls
  <2>6. done + 1 <= RecheckAttempts
    BY <1>2, <1>4, ChatAssumption
  <2>7. AdapterInv(call)
    BY <1>1, <1>4, <2>4, <2>5, <2>6 DEF AdapterInv
  <2>8. QED
    BY <2>2, <2>7, AdapterMoves
<1>5. CASE /\ ~ (completion = "generating" /\ ~ Recheck(s))
           /\ ~ (/\ completion = "complete" /\ text = 0 /\ chatOps[chat[s].op].what # NewChat
                 /\ chat[s].rechecks < RecheckAttempts)
  <2>1. Return(s, completion, text)
    BY <1>5 DEF Settle
  <2>2. QED
    BY <1>1, <2>1, ReturnStep
<1>6. QED
  BY <1>3, <1>4, <1>5

LEMMA PollStep ==
  ASSUME ChatInv, NEW s \in ChatSessions, Poll(s)
  PROVE  ChatInv'
<1>1. chat[s].stage = "waiting" /\ UNCHANGED <<chatOps, observation>>
  BY DEF Poll
<1>2. PICK call \in ChatCalls : call = chat[s] /\ AdapterInv(call)
  BY DEF ChatInv, AdapterInv
<1>3. PICK o \in OpIds : o = call.op
  BY <1>1, <1>2, CallAtHand
<1>4. PICK op \in ChatOpRows : op = chatOps[o] /\ ChatOpInv(o, op)
  BY DEF ChatInv, ChatOpsInv, ChatOpInv
<1>5. Completion(op) \in Completions /\ Truly(o, Completion(op))
  BY <1>4, CompletionIsTrue
<1>6. CASE ShouldLook(op)
  <2>1. PICK told \in Completions : told = Completion(op)
    BY <1>5
  <2>2. PICK seen : seen = [completion |-> told, text |-> 0, lost |-> op.lost]
    OBVIOUS
  <2>3. PICK next : next = [call EXCEPT !.stage = "looking", !.failures = 0, !.looks = 0,
                                        !.seen = seen]
    OBVIOUS
  <2>4. Move(s, next) /\ UNCHANGED returned
    BY <1>2, <1>3, <1>4, <1>6, <2>1, <2>2, <2>3 DEF Poll
  <2>5. seen \in [completion : Completions, text : {0}, lost : BOOLEAN]
    BY <2>1, <2>2, <1>4 DEF ChatOpRows
  <2>6. /\ next \in ChatCalls /\ next.stage = "looking" /\ next.failures = 0
        /\ next.looks = 0 /\ next.op = o /\ next.rechecks = call.rechecks /\ next.seen = seen
    BY <1>3, <2>3, <2>5 DEF ChatCalls
  <2>7. Truly(o, seen.completion) /\ (seen.lost => chatOps[o].answered)
    BY <1>4, <1>5, <2>1, <2>2 DEF ChatOpInv
  <2>8. 0 < ReadAttempts /\ 0 < ObservationAttempts
    BY ChatAssumption
  <2>9. AdapterInv(next)
    BY <1>1, <1>2, <1>3, <2>6, <2>7, <2>8 DEF AdapterInv
  <2>10. QED
    BY <1>1, <2>4, <2>9, AdapterMoves
<1>7. CASE ~ ShouldLook(op)
  <2>1. Settle(s, Completion(op), op.text)
    BY <1>2, <1>3, <1>4, <1>7 DEF Poll
  <2>2. op.text \in {0, o} /\ (op.text # 0 => chatOps[o].answered)
    BY <1>4 DEF ChatOpInv
  <2>3. QED
    BY <1>1, <1>2, <1>3, <1>5, <2>1, <2>2, SettleStep
<1>8. QED
  BY <1>6, <1>7

LEMMA PollFailsStep ==
  ASSUME ChatInv, NEW s \in ChatSessions, PollFails(s)
  PROVE  ChatInv'
<1>1. chat[s].stage = "waiting" /\ UNCHANGED <<chatOps, observation>>
  BY DEF PollFails
<1>2. PICK call \in ChatCalls : call = chat[s] /\ AdapterInv(call)
  BY DEF ChatInv, AdapterInv
<1>3. call.op \in OpIds /\ call.rechecks \in Nat /\ call.failures \in Nat
  BY <1>1, <1>2, CallAtHand DEF ChatCalls
<1>4. CASE Recheck(s) /\ call.rechecks < RecheckAttempts
  <2>1. PICK next : next = [call EXCEPT !.rechecks = @ + 1]
    OBVIOUS
  <2>2. Move(s, next) /\ UNCHANGED returned
    BY <1>2, <1>4, <2>1 DEF PollFails
  <2>3. /\ next \in ChatCalls /\ next.stage = call.stage /\ next.op = call.op
        /\ next.failures = call.failures /\ next.looks = call.looks
        /\ next.rechecks = call.rechecks + 1 /\ next.seen = call.seen
    BY <1>3, <2>1 DEF ChatCalls
  <2>4. call.rechecks > 0 /\ next.rechecks <= RecheckAttempts
    BY <1>2, <1>3, <1>4, <2>3, ChatAssumption DEF Recheck
  <2>5. AdapterInv(next)
    BY <1>1, <1>2, <2>3, <2>4 DEF AdapterInv
  <2>6. QED
    BY <1>1, <2>2, <2>5, AdapterMoves
<1>5. CASE Recheck(s) /\ ~ call.rechecks < RecheckAttempts
  <2>1. Return(s, "complete", 0)
    BY <1>2, <1>5 DEF PollFails
  <2>2. Truly(call.op, "complete")
    BY <1>1, <1>2, <1>5 DEF AdapterInv, Recheck
  <2>3. QED
    BY <1>1, <1>2, <1>3, <2>1, <2>2, ReturnStep
<1>6. CASE ~ Recheck(s) /\ call.failures + 1 >= ReadAttempts
  <2>1. Move(s, Quiet) /\ UNCHANGED returned
    BY <1>2, <1>6 DEF PollFails
  <2>2. QED
    BY <1>1, <2>1, QuietIsFine, AdapterMoves
<1>7. CASE ~ Recheck(s) /\ ~ call.failures + 1 >= ReadAttempts
  <2>1. PICK next : next = [call EXCEPT !.failures = @ + 1]
    OBVIOUS
  <2>2. Move(s, next) /\ UNCHANGED returned
    BY <1>2, <1>7, <2>1 DEF PollFails
  <2>3. /\ next \in ChatCalls /\ next.stage = call.stage /\ next.op = call.op
        /\ next.rechecks = call.rechecks /\ next.looks = call.looks
        /\ next.failures = call.failures + 1 /\ next.seen = call.seen
    BY <1>3, <2>1 DEF ChatCalls
  <2>4. next.failures < ReadAttempts
    BY <1>3, <1>7, <2>3, ChatAssumption
  <2>5. AdapterInv(next)
    BY <1>1, <1>2, <2>3, <2>4 DEF AdapterInv
  <2>6. QED
    BY <1>1, <2>2, <2>5, AdapterMoves
<1>8. QED
  BY <1>4, <1>5, <1>6, <1>7

(* An observation counts when it is of the operation, and then it answers it. *)
LEMMA LookStep ==
  ASSUME ChatInv, NEW s \in ChatSessions, NEW readable \in BOOLEAN, Look(s, readable)
  PROVE  ChatInv'
<1>1. chat[s].stage = "looking" /\ UNCHANGED <<chatOps, observation>>
  BY DEF Look
<1>2. PICK call \in ChatCalls : call = chat[s] /\ AdapterInv(call)
  BY DEF ChatInv, AdapterInv
<1>3. PICK o \in OpIds : o = call.op /\ o \in 1..MaxChatOps
  <2>1. call.op \in OpIds
    BY <1>1, <1>2, CallAtHand
  <2>2. OpIds \subseteq 1..MaxChatOps
    BY ChatAssumption DEF ChatInv, ChatOpsInv
  <2>3. QED
    BY <2>1, <2>2
<1>4. PICK seen : seen = call.seen
  OBVIOUS
<1>5. Truly(o, seen.completion) /\ (seen.lost => chatOps[o].answered) /\ seen.lost \in BOOLEAN
  BY <1>1, <1>2, <1>3, <1>4 DEF AdapterInv, ChatCalls
<1>6. CASE readable /\ Bound(observation, chat[s].op)
  <2>1. observation = o /\ chatOps[o].answered
    BY <1>2, <1>3, <1>6, ChatAssumption DEF Bound, ChatInv, ChatOpsInv
  <2>2. PICK completion : completion = IF seen.lost THEN "complete" ELSE seen.completion
    OBVIOUS
  <2>3. Settle(s, completion, o)
    BY <1>2, <1>4, <1>6, <2>1, <2>2 DEF Look
  <2>4. Truly(o, completion)
    BY <1>5, <2>1, <2>2 DEF Truly
  <2>5. QED
    BY <1>1, <1>2, <1>3, <2>1, <2>3, <2>4, SettleStep
<1>7. CASE ~ (readable /\ Bound(observation, chat[s].op)) /\ call.looks + 1 < ObservationAttempts
  <2>1. PICK next : next = [call EXCEPT !.looks = @ + 1]
    OBVIOUS
  <2>2. Move(s, next) /\ UNCHANGED returned
    BY <1>2, <1>7, <2>1 DEF Look
  <2>3. /\ next \in ChatCalls /\ next.stage = call.stage /\ next.op = call.op
        /\ next.rechecks = call.rechecks /\ next.failures = call.failures
        /\ next.looks = call.looks + 1 /\ next.seen = call.seen
    BY <2>1 DEF ChatCalls
  <2>4. AdapterInv(next)
    BY <1>2, <1>7, <2>3 DEF AdapterInv
  <2>5. QED
    BY <1>1, <2>2, <2>4, AdapterMoves
<1>8. CASE /\ ~ (readable /\ Bound(observation, chat[s].op))
           /\ ~ call.looks + 1 < ObservationAttempts
  <2>1. Settle(s, seen.completion, 0)
    BY <1>2, <1>4, <1>8 DEF Look
  <2>2. QED
    BY <1>1, <1>2, <1>3, <1>5, <2>1, SettleStep
<1>9. QED
  BY <1>6, <1>7, <1>8

LEMMA TimeOutStep ==
  ASSUME ChatInv, NEW s \in ChatSessions, TimeOut(s)
  PROVE  ChatInv'
<1>1. chat[s].stage = "waiting" /\ UNCHANGED <<chatOps, observation>> /\ Return(s, "timeout", 0)
  BY DEF TimeOut
<1>2. chat[s].op \in OpIds /\ Truly(chat[s].op, "timeout")
  BY <1>1, CallAtHand DEF Truly
<1>3. QED
  BY <1>1, <1>2, ReturnStep

LEMMA ChatNextInv == ChatInv /\ [ChatNext]_chatVars => ChatInv'
<1> SUFFICES ASSUME ChatInv, [ChatNext]_chatVars PROVE ChatInv'
  OBVIOUS
<1>1. CASE \E o \in OpIds :
             \/ BridgeGenerates(o) \/ BrowserAnswers(o) \/ BridgeStoresAnswer(o)
             \/ BridgeCompletes(o) \/ \E lost \in BOOLEAN : BridgeFails(o, lost)
  BY <1>1, BridgeStep
<1>2. CASE \E s \in ChatSessions :
             \E what \in Prompts \cup {NewChat}, answered \in BOOLEAN : Queue(s, what, answered)
  BY <1>2, QueueStep
<1>3. CASE \E s \in ChatSessions : Poll(s)
  BY <1>3, PollStep
<1>4. CASE \E s \in ChatSessions : PollFails(s)
  BY <1>4, PollFailsStep
<1>5. CASE \E s \in ChatSessions : TimeOut(s)
  BY <1>5, TimeOutStep
<1>6. CASE \E s \in ChatSessions : \E readable \in BOOLEAN : Look(s, readable)
  BY <1>6, LookStep
<1>7. CASE UNCHANGED chatVars
  BY <1>7 DEF chatVars, ChatInv, ChatOpsInv, OpIds, AdapterInv, ResponseInv, Truly
<1>8. QED
  BY <1>1, <1>2, <1>3, <1>4, <1>5, <1>6, <1>7 DEF ChatNext

(* Of every history of the adapters: what each took from an operation, and  *)
(* what each returned, is true of that operation still.                     *)
THEOREM ChatInvHolds == ChatSpec => []ChatInv
<1>1. ChatInit => ChatInv
  BY ChatInitInv
<1>2. ChatInv /\ [ChatNext]_chatVars => ChatInv'
  BY ChatNextInv
<1>3. QED
  BY <1>1, <1>2, PTL DEF ChatSpec

(* The calls stay within their retry limits, and name operations there are  *)
(* (OPERATION_READ_RETRY_ATTEMPTS and the two recheck limits).              *)
THEOREM ChatTypesHold == ChatSpec => []ChatTypeOK
<1>1. ChatInv => ChatTypeOK
  BY DEF ChatInv, ChatOpsInv, AdapterInv, ChatCalls, ChatTypeOK
<1>2. QED
  BY <1>1, ChatInvHolds, PTL

(* completion_from_operation and the response observation: a response that  *)
(* is returned tells of its own operation, whichever tab answered last.     *)
THEOREM ResponsesAreTheirs == ChatSpec => []ResponseIsOfItsOperation
<1>1. ChatInv => ResponseIsOfItsOperation
  <2> SUFFICES ASSUME ChatInv, NEW r \in returned
               PROVE  /\ r.text \in {0, r.op}
                      /\ r.completion = "complete" =>
                           chatOps[r.op].answered \/ chatOps[r.op].what = NewChat
                      /\ r.completion = "error" => chatOps[r.op].status = "failed"
                      /\ r.text # 0 => chatOps[r.op].answered
    BY DEF ResponseIsOfItsOperation
  <2>1. QED
    BY DEF ChatInv, ResponseInv, Truly
<1>2. QED
  BY <1>1, ChatInvHolds, PTL

---------------------------------------------------------------------------
(* The branch cleanup.  Up to the first deletion refs only grow, so what    *)
(* the sweep found stays true.  At the first deletion every branch listed   *)
(* has its work merged, in the default branch, or in a listed branch that   *)
(* is not to be deleted: a superseded snapshot points at a sibling that is  *)
(* no snapshot, and a duplicate at the keeper of its group.                 *)
---------------------------------------------------------------------------
SweepStages == {"list", "open", "heads", "contained", "superseded", "delete", "failed"}
SweepRows == [at : SweepStages, listed : Tips, left : SUBSET Branches, open : SUBSET Branches,
              heads : SUBSET Branches, contained : SUBSET Branches,
              superseded : SUBSET Branches, crossed : BOOLEAN]

MergedWork == UNION {p[2] : p \in pulls.merged}
ListedWork(s) == UNION {s.listed[b] : b \in DOMAIN s.listed}

RefsInv ==
  /\ refs \in Tips /\ Default \in DOMAIN refs
  /\ pulls = [open |-> pulls.open, merged |-> pulls.merged] /\ pulls.open \subseteq Branches

(* What the requests so far found is so, whatever people did since.         *)
Found(s) ==
  /\ DOMAIN s.listed = DOMAIN refs
  /\ \A b \in DOMAIN refs : s.listed[b] \subseteq refs[b]
  /\ \A b \in s.heads : <<b, s.listed[b]>> \in pulls.merged
  /\ \A b \in s.contained : s.listed[b] \subseteq refs[Default]
  /\ s.superseded \subseteq Snapshots(s)
  /\ ~ s.crossed =>
       /\ \A b \in s.superseded : s.listed[b] \subseteq s.listed[Canonical[b]]
       /\ \A c \in DOMAIN refs \ {Default} : refs[c] \cap ListedWork(s) \subseteq s.listed[c]

Looking(s) ==
  /\ Found(s)
  /\ s.at \in {"list", "open"} => s.heads = {} /\ s.contained = {} /\ s.superseded = {}
  /\ s.at \in {"heads", "contained", "superseded"} => s.left # {}
  /\ s.at = "superseded" => s.left \subseteq Snapshots(s)

(* The work listed is merged or in a branch that is to stay.                *)
Deleting(s) ==
  /\ Default \notin s.left
  /\ ~ s.crossed =>
       ListedWork(s) \subseteq MergedWork \cup UNION {refs[c] : c \in DOMAIN refs \ s.left}

Stopped(s) ==
  ~ s.crossed => ListedWork(s) \subseteq MergedWork \cup UNION {refs[c] : c \in DOMAIN refs}

SweepInv(s) ==
  /\ s \in SweepRows
  /\ s.left \cup s.heads \cup s.contained \cup s.superseded \subseteq DOMAIN s.listed
  /\ s.at \notin {"delete", "failed"} => Looking(s)
  /\ s.at = "delete" => Deleting(s)
  /\ s.at = "failed" => Stopped(s)

CleanupInv == RefsInv /\ SweepInv(sweep)

LEMMA TipsAre ==
  ASSUME NEW t \in Tips
  PROVE  /\ DOMAIN t \subseteq Branches /\ \A b \in DOMAIN t : t[b] \subseteq Work
         /\ t = [b \in DOMAIN t |-> t[b]]
<1>1. PICK D \in SUBSET Branches : t \in [D -> SUBSET Work]
  BY DEF Tips
<1>2. QED
  BY <1>1

LEMMA TipsMade ==
  ASSUME NEW D \in SUBSET Branches, NEW t \in [D -> SUBSET Work]
  PROVE  t \in Tips
BY DEF Tips

(* Names are in the order of their listing.                                 *)
LEMMA NamesAreOrdered ==
  ASSUME NEW b \in Branches
  PROVE  NameOrder(b) \in 1..Len(BranchNames) /\ BranchNames[NameOrder(b)] = b
<1>1. \E i \in 1..Len(BranchNames) : BranchNames[i] = b
  BY DEF Branches
<1>2. QED
  BY <1>1 DEF NameOrder

LEMMA NameCount == Len(BranchNames) \in Nat
BY CleanupAssumption

LEMMA SmallestExists ==
  ASSUME NEW S, S \subseteq Nat, S # {}
  PROVE  \E x \in S : \A y \in S : x <= y
<1> DEFINE R == {ss \in Nat \X Nat : ss[1] < ss[2]}
<1>1. IsWellFoundedOn(R, Nat)
  BY NatLessThanWellFounded DEF OpToRel
<1> HIDE DEF R
<1>2. PICK x \in S : \A y \in S : <<y, x>> \notin R
  BY <1>1, WFMin
<1>3. \A y \in S : ~ (y < x)
  BY <1>2 DEF R
<1>4. QED
  BY <1>3

LEMMA FirstIsOne ==
  ASSUME NEW names, names \subseteq Branches, names # {}
  PROVE  First(names) \in names
<1> DEFINE orders == {NameOrder(b) : b \in names}
<1>1. orders \subseteq Nat /\ orders # {}
  BY NamesAreOrdered, NameCount
<1>2. PICK n \in orders : \A m \in orders : n <= m
  BY <1>1, SmallestExists
<1>3. \E b \in names : \A c \in names : NameOrder(b) <= NameOrder(c)
  BY <1>2
<1>4. QED
  BY <1>3 DEF First

(* Among branches one is preferred to all the others: no snapshot before a  *)
(* snapshot, a shorter name before a longer, the later of equal ones.       *)
LEMMA PreferredExists ==
  ASSUME NEW group, group \subseteq Branches, group # {}
  PROVE  \E b \in group : \A c \in group \ {b} : PreferredTo(b, c)
<1>1. PICK real : real = IF \E b \in group : ~ Disposable(b)
                         THEN {b \in group : ~ Disposable(b)} ELSE group
  OBVIOUS
<1>2. /\ real \subseteq group /\ real # {}
      /\ \A b, c \in real : Disposable(b) = Disposable(c)
      /\ \A b \in real, c \in group \ real : ~ Disposable(b) /\ Disposable(c)
  BY <1>1 DEF Disposable
<1>3. PICK short \in {NameLength[b] : b \in real} :
        \A n \in {NameLength[b] : b \in real} : short <= n
  <2>1. \A b \in real : NameLength[b] \in Nat
    BY <1>2, CleanupAssumption
  <2>2. {NameLength[b] : b \in real} \subseteq Nat /\ {NameLength[b] : b \in real} # {}
    BY <1>2, <2>1
  <2>3. QED
    BY <2>2, SmallestExists
<1>4. PICK brief : brief = {b \in real : NameLength[b] = short}
  OBVIOUS
<1>5. PICK size \in Nat : size = Len(BranchNames)
  BY NameCount
<1>6. PICK early \in {size - NameOrder(b) : b \in brief} :
        \A n \in {size - NameOrder(b) : b \in brief} : early <= n
  <2>1. \A b \in brief : NameOrder(b) \in 1..size
    BY <1>2, <1>4, <1>5, NamesAreOrdered
  <2>2. \A b \in brief : size - NameOrder(b) \in Nat
    BY <2>1
  <2>3. brief # {}
    BY <1>3, <1>4
  <2>4. {size - NameOrder(b) : b \in brief} \subseteq Nat
    BY <2>2
  <2>5. {size - NameOrder(b) : b \in brief} # {}
    BY <2>3
  <2>6. QED
    BY <2>4, <2>5, SmallestExists
<1>7. PICK b \in brief : early = size - NameOrder(b)
  BY <1>6
<1>8. ASSUME NEW c \in group \ {b} PROVE PreferredTo(b, c)
  <2>1. b \in real /\ b \in group /\ NameLength[b] = short /\ c \in group /\ c # b
    BY <1>2, <1>4, <1>7
  <2>2. CASE c \notin real
    BY <1>2, <2>1, <2>2 DEF PreferredTo
  <2>3. CASE c \in real /\ c \notin brief
    <3>1. NameLength[c] # short /\ short <= NameLength[c]
      BY <1>3, <1>4, <2>3
    <3>2. NameLength[c] \in Nat /\ short \in Nat
      BY <1>2, <2>1, CleanupAssumption
    <3>3. NameLength[b] < NameLength[c]
      BY <2>1, <3>1, <3>2
    <3>4. QED
      BY <1>2, <2>1, <2>3, <3>3 DEF PreferredTo
  <2>4. CASE c \in brief
    <3>1. NameOrder(b) \in 1..size /\ NameOrder(c) \in 1..size
      BY <1>2, <1>5, <2>1, NamesAreOrdered
    <3>2. NameOrder(b) # NameOrder(c)
      BY <1>2, <2>1, NamesAreOrdered
    <3>3. size - NameOrder(b) <= size - NameOrder(c)
      BY <1>6, <1>7, <2>4
    <3>4. NameOrder(b) > NameOrder(c)
      BY <3>1, <3>2, <3>3
    <3>5. NameLength[b] = NameLength[c] /\ Disposable(b) = Disposable(c)
      BY <1>2, <1>4, <2>1, <2>4
    <3>6. QED
      BY <3>4, <3>5 DEF PreferredTo
  <2>5. QED
    BY <2>2, <2>3, <2>4
<1>9. QED
  BY <1>2, <1>4, <1>7, <1>8

LEMMA KeeperIsOne ==
  ASSUME NEW s, NEW group, group \subseteq Branches, group # {}
  PROVE  KeeperOf(s, group) \in group
<1>1. CASE {b \in group : Protected(s, b)} # {}
  BY <1>1, FirstIsOne DEF KeeperOf
<1>2. CASE {b \in group : Protected(s, b)} = {}
  BY <1>2, PreferredExists DEF KeeperOf
<1>3. QED
  BY <1>1, <1>2

(* A group of duplicates has a keeper of its own that is not deleted.       *)
LEMMA DuplicatesKept ==
  ASSUME NEW s \in SweepRows, NEW g \in DuplicateGroups(s), NEW b \in g
  PROVE  \E k \in DOMAIN s.listed \ Deletions(s) : s.listed[k] = s.listed[b]
<1>1. PICK a \in DOMAIN s.listed : g = {c \in DOMAIN s.listed : s.listed[c] = s.listed[a]}
  BY DEF DuplicateGroups
<1>2. s.listed \in Tips
  BY DEF SweepRows
<1>3. g \subseteq Branches /\ g # {}
  BY <1>1, <1>2, TipsAre
<1>4. PICK k \in g : k = KeeperOf(s, g)
  BY <1>3, KeeperIsOne
<1>5. k \in Staying(s)
  BY <1>4 DEF Staying
<1>6. k \notin Deletions(s)
  BY <1>5 DEF Deletions
<1>7. QED
  BY <1>1, <1>4, <1>6

LEMMA DefaultStays ==
  ASSUME NEW s PROVE Default \notin Deletions(s)
BY DEF Deletions, Protected

(* The rules together: no work is deleted with the reason for its deletion. *)
LEMMA DeletionsAreSafe ==
  ASSUME RefsInv, NEW s \in SweepRows, Found(s), ~ s.crossed, NEW b \in DOMAIN s.listed
  PROVE  s.listed[b] \subseteq MergedWork \cup UNION {refs[c] : c \in DOMAIN refs \ Deletions(s)}
<1> DEFINE safe == MergedWork \cup UNION {refs[c] : c \in DOMAIN refs \ Deletions(s)}
<1>1. DOMAIN s.listed = DOMAIN refs /\ \A c \in DOMAIN refs : s.listed[c] \subseteq refs[c]
  BY DEF Found
<1>2. \A c \in DOMAIN s.listed \ Deletions(s) : s.listed[c] \subseteq safe
  BY <1>1
<1>3. \A c \in s.heads : s.listed[c] \subseteq safe
  <2> SUFFICES ASSUME NEW c \in s.heads PROVE s.listed[c] \subseteq MergedWork
    OBVIOUS
  <2>1. PICK p \in pulls.merged : p = <<c, s.listed[c]>>
    BY DEF Found
  <2>2. p[2] = s.listed[c]
    BY <2>1
  <2>3. QED
    BY <2>2 DEF MergedWork
<1>4. \A c \in s.contained : s.listed[c] \subseteq safe
  <2>1. Default \in DOMAIN refs \ Deletions(s)
    BY DefaultStays DEF RefsInv
  <2>2. refs[Default] \subseteq safe
    BY <2>1
  <2>3. QED
    BY <2>2 DEF Found
<1>5. \A g \in DuplicateGroups(s) : \A c \in g : s.listed[c] \subseteq safe
  <2> SUFFICES ASSUME NEW g \in DuplicateGroups(s), NEW c \in g PROVE s.listed[c] \subseteq safe
    OBVIOUS
  <2>1. PICK k \in DOMAIN s.listed \ Deletions(s) : s.listed[k] = s.listed[c]
    BY DuplicatesKept
  <2>2. QED
    BY <1>2, <2>1
<1>6. \A c \in DOMAIN s.listed : c \notin s.superseded => s.listed[c] \subseteq safe
  <2> SUFFICES ASSUME NEW c \in DOMAIN s.listed, c \notin s.superseded
               PROVE  s.listed[c] \subseteq safe
    OBVIOUS
  <2>1. CASE c \notin Deletions(s)
    BY <1>2, <2>1
  <2>2. CASE c \in Deletions(s)
    <3>1. (\E g \in DuplicateGroups(s) : c \in g) \/ c \in s.heads \cup s.contained
      BY <2>2 DEF Deletions
    <3>2. QED
      BY <1>3, <1>4, <1>5, <3>1
  <2>3. QED
    BY <2>1, <2>2
<1>7. CASE b \in s.superseded
  <2>1. s.superseded \subseteq Snapshots(s)
    BY DEF Found
  <2>2. Canonical[b] \in DOMAIN s.listed /\ Canonical[b] \notin s.superseded
    BY <1>7, <2>1 DEF Snapshots
  <2>3. s.listed[b] \subseteq s.listed[Canonical[b]]
    BY <1>7 DEF Found
  <2>4. QED
    BY <1>6, <2>2, <2>3
<1>8. QED
  BY <1>6, <1>7

(* What was found does not depend on how far the loops are.                *)
LEMMA FoundStays ==
  ASSUME NEW s, NEW t, Found(s), t.listed = s.listed, t.open = s.open, t.heads = s.heads,
         t.contained = s.contained, t.superseded = s.superseded, t.crossed = s.crossed
  PROVE  Found(t)
BY DEF Found, Snapshots, Compared, Protected, ListedWork

SameFindings(s, t) ==
  /\ t.listed = s.listed /\ t.open = s.open /\ t.heads = s.heads
  /\ t.contained = s.contained /\ t.superseded = s.superseded /\ t.crossed = s.crossed

(* The common part of what holds at the end of a loop.                     *)
Ready(s) ==
  /\ s \in SweepRows /\ Found(s)
  /\ s.heads \cup s.contained \cup s.superseded \subseteq DOMAIN s.listed

LEMMA ReadyToDelete ==
  ASSUME RefsInv, NEW s, Ready(s)
  PROVE  SweepInv(ToDelete(s))
<1>1. PICK gone : gone = Deletions(s)
  OBVIOUS
<1>2. gone \in SUBSET Branches /\ gone \subseteq DOMAIN s.listed
  BY <1>1, TipsAre DEF Deletions, Ready, SweepRows
<1>3. PICK t : t = ToDelete(s)
  OBVIOUS
<1>4. t \in SweepRows /\ t.at = "delete" /\ t.left = gone /\ SameFindings(s, t)
  BY <1>1, <1>2, <1>3 DEF ToDelete, SweepRows, SweepStages, SameFindings, Ready
<1>5. Default \notin gone
  BY <1>1, DefaultStays
<1>6. ASSUME ~ s.crossed
      PROVE  ListedWork(s) \subseteq MergedWork \cup UNION {refs[c] : c \in DOMAIN refs \ gone}
  <2>1. \A b \in DOMAIN s.listed :
          s.listed[b] \subseteq MergedWork \cup UNION {refs[c] : c \in DOMAIN refs \ gone}
    BY <1>1, <1>6, DeletionsAreSafe DEF Ready
  <2>2. QED
    BY <2>1 DEF ListedWork
<1>7. Deleting(t)
  BY <1>4, <1>5, <1>6 DEF Deleting, SameFindings, ListedWork
<1>8. QED
  BY <1>2, <1>3, <1>4, <1>7 DEF SweepInv, Ready, SameFindings

LEMMA ReadyToAsk ==
  ASSUME NEW s, Ready(s), NEW at \in {"heads", "contained", "superseded"},
         NEW names, names # {}, names \subseteq DOMAIN s.listed,
         at = "superseded" => names \subseteq Snapshots(s)
  PROVE  SweepInv([s EXCEPT !.at = at, !.left = names])
<1>1. PICK t : t = [s EXCEPT !.at = at, !.left = names]
  OBVIOUS
<1>2. names \in SUBSET Branches
  BY TipsAre DEF Ready, SweepRows
<1>3. t \in SweepRows /\ t.at = at /\ t.left = names /\ SameFindings(s, t)
  BY <1>1, <1>2 DEF SweepRows, SweepStages, SameFindings, Ready
<1>4. Found(t)
  BY <1>3, FoundStays DEF Ready, SameFindings
<1>5. Snapshots(t) = Snapshots(s)
  BY <1>3 DEF Snapshots, Compared, Protected, SameFindings
<1>6. Looking(t)
  BY <1>3, <1>4, <1>5 DEF Looking
<1>7. QED
  BY <1>1, <1>3, <1>6 DEF SweepInv, Ready, SameFindings

LEMMA ReadyForSnapshots ==
  ASSUME RefsInv, NEW s, Ready(s)
  PROVE  SweepInv(ToSuperseded(s))
<1>1. Snapshots(s) \subseteq DOMAIN s.listed
  BY DEF Snapshots, Compared
<1>2. QED
  BY <1>1, ReadyToDelete, ReadyToAsk DEF ToSuperseded

LEMMA ReadyForDefault ==
  ASSUME RefsInv, NEW s, Ready(s)
  PROVE  SweepInv(ToContained(s))
<1>1. Compared(s) \subseteq DOMAIN s.listed
  BY DEF Compared
<1>2. QED
  BY <1>1, ReadyForSnapshots, ReadyToAsk DEF ToContained

LEMMA CleanupInitInv == CleanupInit => CleanupInv
<1> SUFFICES ASSUME CleanupInit PROVE CleanupInv
  OBVIOUS
<1>1. PICK r \in Repositories : refs = r.refs /\ pulls = [open |-> r.open, merged |-> r.merged]
  BY DEF CleanupInit
<1>2. RefsInv
  <2>1. refs \in Tips /\ Default \in DOMAIN refs /\ r.open \subseteq Branches
    BY <1>1, CleanupAssumption, TipsAre
  <2>2. QED
    BY <1>1, <2>1 DEF RefsInv
<1>3. PICK s : s = sweep
  OBVIOUS
<1>4. /\ s = [at |-> "list", listed |-> refs, left |-> {}, open |-> {}, heads |-> {},
              contained |-> {}, superseded |-> {}, crossed |-> FALSE]
      /\ refs \in Tips
  BY <1>2, <1>3 DEF CleanupInit, RefsInv
<1>5. s \in SweepRows
  BY <1>4 DEF SweepRows, SweepStages
<1>6. Found(s)
  BY <1>4 DEF Found
<1>7. SweepInv(s)
  BY <1>4, <1>5, <1>6 DEF SweepInv, Looking
<1>8. QED
  BY <1>2, <1>3, <1>7 DEF CleanupInv

(* The repository rests and the sweep goes on.                              *)
LEMMA SweepGoes ==
  ASSUME CleanupInv, UNCHANGED <<refs, pulls>>, NEW next, SweepInv(next), sweep' = next
  PROVE  CleanupInv'
BY DEF CleanupInv, RefsInv, SweepInv, Looking, Found, Deleting, Stopped, MergedWork,
       ListedWork, Snapshots, Compared, Protected

LEMMA ListStep ==
  ASSUME CleanupInv, ListBranches
  PROVE  CleanupInv'
<1>1. PICK s \in SweepRows : s = sweep /\ SweepInv(s)
  BY DEF CleanupInv, SweepInv
<1>2. s.at = "list" /\ UNCHANGED <<refs, pulls>> /\ refs \in Tips /\ Default \in DOMAIN refs
  BY <1>1 DEF ListBranches, CleanupInv, RefsInv
<1>3. s.heads = {} /\ s.contained = {} /\ s.superseded = {} /\ s.left \subseteq DOMAIN refs
  BY <1>1, <1>2 DEF SweepInv, Looking, Found
<1>4. PICK t : t = [s EXCEPT !.at = "open", !.listed = refs, !.crossed = FALSE]
  OBVIOUS
<1>5. /\ t \in SweepRows /\ t.at = "open" /\ t.listed = refs /\ t.left = s.left
      /\ t.heads = {} /\ t.contained = {} /\ t.superseded = {}
  BY <1>2, <1>3, <1>4 DEF SweepRows, SweepStages
<1>6. Found(t)
  BY <1>5 DEF Found
<1>7. SweepInv(t)
  BY <1>3, <1>5, <1>6 DEF SweepInv, Looking
<1>8. sweep' = t
  BY <1>1, <1>4 DEF ListBranches
<1>9. QED
  BY <1>2, <1>7, <1>8, SweepGoes

LEMMA OpenStep ==
  ASSUME CleanupInv, ListOpenPulls
  PROVE  CleanupInv'
<1>1. PICK s \in SweepRows : s = sweep /\ SweepInv(s)
  BY DEF CleanupInv, SweepInv
<1>2. s.at = "open" /\ UNCHANGED <<refs, pulls>>
  BY <1>1 DEF ListOpenPulls
<1>3. /\ s.heads = {} /\ s.contained = {} /\ s.superseded = {} /\ Found(s)
      /\ DOMAIN s.listed = DOMAIN refs /\ Default \in DOMAIN refs /\ pulls.open \subseteq Branches
  BY <1>1, <1>2 DEF SweepInv, Looking, Found, CleanupInv, RefsInv
<1>4. PICK now : now = DOMAIN s.listed
  OBVIOUS
<1>5. PICK open \in SUBSET Branches : open = pulls.open
  BY <1>3
<1>6. now \in SUBSET Branches /\ now # {}
  BY <1>3, <1>4, TipsAre DEF SweepRows
<1>7. PICK t : t = [s EXCEPT !.at = "heads", !.open = open, !.left = now]
  OBVIOUS
<1>8. /\ t \in SweepRows /\ t.at = "heads" /\ t.listed = s.listed /\ t.left = now
      /\ t.heads = {} /\ t.contained = {} /\ t.superseded = {} /\ t.crossed = s.crossed
  BY <1>3, <1>6, <1>7 DEF SweepRows, SweepStages
<1>9. Found(t)
  BY <1>3, <1>8 DEF Found, ListedWork
<1>10. SweepInv(t)
  BY <1>4, <1>6, <1>8, <1>9 DEF SweepInv, Looking
<1>11. sweep' = t
  BY <1>1, <1>4, <1>5, <1>7 DEF ListOpenPulls
<1>12. QED
  BY <1>2, <1>10, <1>11, SweepGoes

(* A loop has asked about one branch more; the answer stays in its set.     *)
LEMMA LoopGoesOn ==
  ASSUME NEW s \in SweepRows, SweepInv(s), s.at \in {"heads", "contained", "superseded"},
         NEW t, Ready(t), t.at = s.at, t.left = s.left \ {BranchAsked(s)}, t.left # {},
         t.listed = s.listed, t.open = s.open
  PROVE  SweepInv(t)
<1>1. t.left \subseteq DOMAIN t.listed
  BY DEF SweepInv
<1>2. Snapshots(t) = Snapshots(s)
  BY DEF Snapshots, Compared, Protected
<1>3. Looking(t)
  BY <1>2 DEF SweepInv, Looking, Ready
<1>4. QED
  BY <1>1, <1>3 DEF SweepInv, Ready

(* The branch a loop asks about is one of those listed, and is there.       *)
LEMMA AskedIsListed ==
  ASSUME NEW s \in SweepRows, SweepInv(s), s.at \in {"heads", "contained", "superseded"}
  PROVE  /\ BranchAsked(s) \in s.left /\ BranchAsked(s) \in DOMAIN s.listed
         /\ BranchAsked(s) \in DOMAIN refs /\ BranchAsked(s) \in Branches /\ Found(s)
<1>1. s.left \subseteq Branches /\ s.left # {} /\ Found(s) /\ s.left \subseteq DOMAIN s.listed
  BY DEF SweepInv, Looking, SweepRows
<1>2. QED
  BY <1>1, FirstIsOne DEF BranchAsked, Found

LEMMA HeadsStep ==
  ASSUME CleanupInv, ReadMergedHeads
  PROVE  CleanupInv'
<1>1. PICK s \in SweepRows : s = sweep /\ SweepInv(s)
  BY DEF CleanupInv, SweepInv
<1>2. s.at = "heads" /\ UNCHANGED <<refs, pulls>>
  BY <1>1 DEF ReadMergedHeads
<1>3. PICK b \in DOMAIN s.listed : b = BranchAsked(s) /\ b \in Branches /\ Found(s)
  BY <1>1, <1>2, AskedIsListed
<1>4. PICK heads : heads = IF <<b, s.listed[b]>> \in pulls.merged THEN s.heads \cup {b} ELSE s.heads
  OBVIOUS
<1>5. PICK t : t = [s EXCEPT !.left = s.left \ {b}, !.heads = heads]
  OBVIOUS
<1>6. heads \in SUBSET Branches /\ s.left \ {b} \in SUBSET Branches /\ heads \subseteq DOMAIN s.listed
  BY <1>1, <1>3, <1>4 DEF SweepRows, SweepInv
<1>7. /\ t \in SweepRows /\ t.left = s.left \ {b} /\ t.heads = heads /\ t.at = s.at
      /\ t.listed = s.listed /\ t.open = s.open /\ t.contained = s.contained
      /\ t.superseded = s.superseded /\ t.crossed = s.crossed
  BY <1>5, <1>6 DEF SweepRows
<1>8. Found(t)
  BY <1>3, <1>4, <1>7 DEF Found, Snapshots, Compared, Protected, ListedWork
<1>9. Ready(t)
  BY <1>1, <1>6, <1>7, <1>8 DEF Ready, SweepInv
<1>10. sweep' = IF t.left = {} THEN ToContained(t) ELSE t
  <2>1. t = [Done(s) EXCEPT !.heads = heads]
    BY <1>3, <1>5 DEF Done, SweepRows
  <2>2. heads = IF <<b, s.listed[b]>> \in pulls.merged THEN Done(s).heads \cup {b} ELSE Done(s).heads
    BY <1>4 DEF Done, SweepRows
  <2>3. QED
    BY <1>1, <1>3, <2>1, <2>2 DEF ReadMergedHeads
<1>11. CASE t.left = {}
  BY <1>2, <1>9, <1>10, <1>11, ReadyForDefault, SweepGoes DEF CleanupInv
<1>12. CASE t.left # {}
  <2>1. SweepInv(t)
    BY <1>1, <1>2, <1>3, <1>7, <1>9, <1>12, LoopGoesOn
  <2>2. QED
    BY <1>2, <1>10, <1>12, <2>1, SweepGoes
<1>13. QED
  BY <1>11, <1>12

(* A branch that is contained now contained its listed tip as well.         *)
LEMMA DefaultStep ==
  ASSUME CleanupInv, CompareWithDefault
  PROVE  CleanupInv'
<1>1. PICK s \in SweepRows : s = sweep /\ SweepInv(s)
  BY DEF CleanupInv, SweepInv
<1>2. s.at = "contained" /\ UNCHANGED <<refs, pulls>>
  BY <1>1 DEF CompareWithDefault
<1>3. PICK b \in DOMAIN s.listed : b = BranchAsked(s) /\ b \in Branches /\ Found(s)
  BY <1>1, <1>2, AskedIsListed
<1>4. PICK in : in = IF refs[b] \subseteq refs[Default] THEN s.contained \cup {b} ELSE s.contained
  OBVIOUS
<1>5. PICK t : t = [s EXCEPT !.left = s.left \ {b}, !.contained = in]
  OBVIOUS
<1>6. in \in SUBSET Branches /\ s.left \ {b} \in SUBSET Branches /\ in \subseteq DOMAIN s.listed
  BY <1>1, <1>3, <1>4 DEF SweepRows, SweepInv
<1>7. /\ t \in SweepRows /\ t.left = s.left \ {b} /\ t.contained = in /\ t.at = s.at
      /\ t.listed = s.listed /\ t.open = s.open /\ t.heads = s.heads
      /\ t.superseded = s.superseded /\ t.crossed = s.crossed
  BY <1>5, <1>6 DEF SweepRows
<1>8. \A c \in in : s.listed[c] \subseteq refs[Default]
  BY <1>3, <1>4 DEF Found
<1>9. Found(t)
  BY <1>3, <1>7, <1>8 DEF Found, Snapshots, Compared, Protected, ListedWork
<1>10. Ready(t)
  BY <1>1, <1>6, <1>7, <1>9 DEF Ready, SweepInv
<1>11. sweep' = IF t.left = {} THEN ToSuperseded(t) ELSE t
  <2>1. t = [Done(s) EXCEPT !.contained = in]
    BY <1>3, <1>5 DEF Done, SweepRows
  <2>2. in = IF refs[b] \subseteq refs[Default] THEN Done(s).contained \cup {b}
             ELSE Done(s).contained
    BY <1>4 DEF Done, SweepRows
  <2>3. QED
    BY <1>1, <1>3, <2>1, <2>2 DEF CompareWithDefault
<1>12. CASE t.left = {}
  BY <1>2, <1>10, <1>11, <1>12, ReadyForSnapshots, SweepGoes DEF CleanupInv
<1>13. CASE t.left # {}
  <2>1. SweepInv(t)
    BY <1>1, <1>2, <1>3, <1>7, <1>10, <1>13, LoopGoesOn
  <2>2. QED
    BY <1>2, <1>11, <1>13, <2>1, SweepGoes
<1>14. QED
  BY <1>12, <1>13

(* A snapshot its sibling contains now was in what was listed of it, unless *)
(* somebody brought one branch into another.                                *)
LEMMA SiblingStep ==
  ASSUME CleanupInv, CompareWithSibling
  PROVE  CleanupInv'
<1>1. PICK s \in SweepRows : s = sweep /\ SweepInv(s)
  BY DEF CleanupInv, SweepInv
<1>2. s.at = "superseded" /\ UNCHANGED <<refs, pulls>>
  BY <1>1 DEF CompareWithSibling
<1>3. PICK b \in DOMAIN s.listed : /\ b = BranchAsked(s) /\ b \in s.left
                                    /\ b \in Branches /\ Found(s)
  BY <1>1, <1>2, AskedIsListed
<1>4. b \in Snapshots(s)
  BY <1>1, <1>2, <1>3 DEF SweepInv, Looking
<1>5. PICK in : in = IF ContainsSnapshot(b, Canonical[b]) THEN s.superseded \cup {b}
                     ELSE s.superseded
  OBVIOUS
<1>6. PICK t : t = [s EXCEPT !.left = s.left \ {b}, !.superseded = in]
  OBVIOUS
<1>7. in \in SUBSET Branches /\ s.left \ {b} \in SUBSET Branches /\ in \subseteq DOMAIN s.listed
  BY <1>1, <1>3, <1>5 DEF SweepRows, SweepInv
<1>8. /\ t \in SweepRows /\ t.left = s.left \ {b} /\ t.superseded = in /\ t.at = s.at
      /\ t.listed = s.listed /\ t.open = s.open /\ t.heads = s.heads
      /\ t.contained = s.contained /\ t.crossed = s.crossed
  BY <1>6, <1>7 DEF SweepRows
<1>9. in \subseteq Snapshots(s) /\ Snapshots(t) = Snapshots(s)
  BY <1>3, <1>4, <1>5, <1>8 DEF Found, Snapshots, Compared, Protected
<1>10. ASSUME ~ s.crossed, ContainsSnapshot(b, Canonical[b])
       PROVE  s.listed[b] \subseteq s.listed[Canonical[b]]
  <2>1. PICK c : c = Canonical[b]
    OBVIOUS
  <2>2. c \in DOMAIN refs \ {Default} /\ b \in DOMAIN refs
    BY <1>3, <1>4, <2>1 DEF Snapshots, Found
  <2>3. s.listed[b] \subseteq refs[b] /\ refs[b] \subseteq refs[c]
    BY <1>3, <1>10, <2>1, <2>2 DEF Found, ContainsSnapshot
  <2>4. s.listed[b] \subseteq ListedWork(s)
    BY <1>3 DEF ListedWork
  <2>5. refs[c] \cap ListedWork(s) \subseteq s.listed[c]
    BY <1>3, <1>10, <2>2 DEF Found
  <2>6. QED
    BY <2>1, <2>3, <2>4, <2>5
<1>11. ~ s.crossed => \A d \in in : s.listed[d] \subseteq s.listed[Canonical[d]]
  BY <1>3, <1>5, <1>10 DEF Found
<1>12. Found(t)
  BY <1>3, <1>8, <1>9, <1>11 DEF Found, ListedWork
<1>13. Ready(t)
  BY <1>1, <1>7, <1>8, <1>12 DEF Ready, SweepInv
<1>14. sweep' = IF t.left = {} THEN ToDelete(t) ELSE t
  <2>1. t = [Done(s) EXCEPT !.superseded = in]
    BY <1>3, <1>6 DEF Done, SweepRows
  <2>2. in = IF ContainsSnapshot(b, Canonical[b]) THEN Done(s).superseded \cup {b}
             ELSE Done(s).superseded
    BY <1>5 DEF Done, SweepRows
  <2>3. QED
    BY <1>1, <1>3, <2>1, <2>2 DEF CompareWithSibling
<1>15. CASE t.left = {}
  BY <1>2, <1>13, <1>14, <1>15, ReadyToDelete, SweepGoes DEF CleanupInv
<1>16. CASE t.left # {}
  <2>1. SweepInv(t)
    BY <1>1, <1>2, <1>3, <1>8, <1>13, <1>16, LoopGoesOn
  <2>2. QED
    BY <1>2, <1>14, <1>16, <2>1, SweepGoes
<1>17. QED
  BY <1>15, <1>16

(* What stays is not touched by a deletion.                                 *)
LEMMA DeleteStep ==
  ASSUME CleanupInv, DeleteRef
  PROVE  CleanupInv'
<1>1. PICK s \in SweepRows : s = sweep /\ SweepInv(s)
  BY DEF CleanupInv, SweepInv
<1>2. /\ s.at = "delete" /\ s.left # {} /\ s.left \subseteq Branches /\ UNCHANGED pulls
      /\ Deleting(s)
  BY <1>1 DEF DeleteRef, SweepInv, SweepRows
<1>3. PICK b \in s.left : b = First(s.left)
  BY <1>2, FirstIsOne
<1>4. PICK t : t = [s EXCEPT !.left = s.left \ {b}]
  OBVIOUS
<1>5. /\ t \in SweepRows /\ t.left = s.left \ {b} /\ t.at = "delete" /\ t.listed = s.listed
      /\ t.open = s.open /\ t.heads = s.heads /\ t.contained = s.contained
      /\ t.superseded = s.superseded /\ t.crossed = s.crossed
  BY <1>2, <1>4 DEF SweepRows
<1>6. refs' = [c \in DOMAIN refs \ {b} |-> refs[c]] /\ sweep' = t
  BY <1>1, <1>3, <1>4 DEF DeleteRef
<1>7. DOMAIN refs' \ t.left = DOMAIN refs \ s.left
  BY <1>3, <1>5, <1>6
<1>8. Default \in DOMAIN refs'
  BY <1>2, <1>6 DEF Deleting, CleanupInv, RefsInv
<1>9. refs' \in Tips
  <2>1. /\ DOMAIN refs \ {b} \in SUBSET Branches
        /\ \A c \in DOMAIN refs \ {b} : refs[c] \in SUBSET Work
    BY TipsAre DEF CleanupInv, RefsInv
  <2>2. refs' \in [DOMAIN refs \ {b} -> SUBSET Work]
    BY <1>6, <2>1
  <2>3. QED
    BY <2>1, <2>2, TipsMade
<1>10. UNION {refs'[c] : c \in DOMAIN refs' \ t.left} = UNION {refs[c] : c \in DOMAIN refs \ s.left}
  <2>1. \A c \in DOMAIN refs \ s.left : refs'[c] = refs[c]
    BY <1>3, <1>6
  <2>2. QED
    BY <1>7, <2>1
<1>11. Deleting(t)'
  <2>1. Default \notin t.left
    BY <1>2, <1>5 DEF Deleting
  <2>2. ~ t.crossed => ListedWork(t) \subseteq
                         MergedWork \cup UNION {refs[c] : c \in DOMAIN refs \ s.left}
    BY <1>2, <1>5 DEF Deleting, ListedWork
  <2>3. MergedWork' = MergedWork /\ ListedWork(t)' = ListedWork(t)
    BY <1>2 DEF MergedWork, ListedWork
  <2>4. QED
    BY <1>10, <2>1, <2>2, <2>3 DEF Deleting
<1>12. SweepInv(t)'
  BY <1>1, <1>5, <1>11 DEF SweepInv
<1>13. RefsInv'
  BY <1>2, <1>8, <1>9 DEF CleanupInv, RefsInv
<1>14. /\ sweep'.at = "delete" /\ sweep' \in SweepRows /\ Deleting(sweep)'
       /\ sweep'.left \cup sweep'.heads \cup sweep'.contained \cup sweep'.superseded
            \subseteq DOMAIN sweep'.listed
  <2>1. Deleting(sweep)'
    BY <1>6, <1>11 DEF Deleting, MergedWork, ListedWork, Snapshots, Compared, Protected
  <2>2. s.left \cup s.heads \cup s.contained \cup s.superseded \subseteq DOMAIN s.listed
    BY <1>1 DEF SweepInv
  <2>3. t.left \cup t.heads \cup t.contained \cup t.superseded \subseteq DOMAIN t.listed
    BY <1>5, <2>2
  <2>4. QED
    BY <1>5, <1>6, <2>1, <2>3
<1>15. SweepInv(sweep)'
  BY <1>14 DEF SweepInv
<1>16. QED
  BY <1>13, <1>15 DEF CleanupInv

(* Wherever it stops, nothing that was listed is lost.                      *)
LEMMA StopStep ==
  ASSUME CleanupInv, AbortSweep
  PROVE  CleanupInv'
<1>1. PICK s \in SweepRows : s = sweep /\ SweepInv(s)
  BY DEF CleanupInv, SweepInv
<1>2. s.at # "failed" /\ UNCHANGED <<refs, pulls>>
  BY <1>1 DEF AbortSweep
<1>3. PICK t : t = [s EXCEPT !.at = "failed"]
  OBVIOUS
<1>4. /\ t \in SweepRows /\ t.at = "failed" /\ t.left = s.left /\ t.listed = s.listed
      /\ t.heads = s.heads /\ t.contained = s.contained /\ t.superseded = s.superseded
      /\ t.crossed = s.crossed
  BY <1>3 DEF SweepRows, SweepStages
<1>5. Stopped(t)
  <2>1. CASE s.at = "delete"
    BY <1>1, <1>4, <2>1 DEF SweepInv, Deleting, Stopped, ListedWork
  <2>2. CASE s.at # "delete"
    <3>1. DOMAIN s.listed = DOMAIN refs /\ \A b \in DOMAIN refs : s.listed[b] \subseteq refs[b]
      BY <1>1, <1>2, <2>2 DEF SweepInv, Looking, Found
    <3>2. QED
      BY <1>4, <3>1 DEF Stopped, ListedWork
  <2>3. QED
    BY <2>1, <2>2
<1>6. SweepInv(t)
  BY <1>1, <1>4, <1>5 DEF SweepInv
<1>7. sweep' = t
  BY <1>1, <1>3 DEF AbortSweep
<1>8. QED
  BY <1>2, <1>6, <1>7, SweepGoes

(* People move refs forward only; their new work is new, or it crossed.     *)
RefsGrow ==
  /\ DOMAIN refs' = DOMAIN refs
  /\ \A b \in DOMAIN refs : refs[b] \subseteq refs'[b]
  /\ pulls.merged \subseteq pulls'.merged

LEMMA PeopleGo ==
  ASSUME CleanupInv, RefsInv', RefsGrow, NEW t \in SweepRows, sweep' = t,
         t.at = sweep.at, t.left = sweep.left, t.listed = sweep.listed, t.open = sweep.open,
         t.heads = sweep.heads, t.contained = sweep.contained, t.superseded = sweep.superseded,
         ~ t.crossed =>
           /\ ~ sweep.crossed
           /\ Found(sweep) => \A c \in DOMAIN refs \ {Default} :
                                refs'[c] \cap ListedWork(sweep) \subseteq refs[c]
  PROVE  CleanupInv'
<1>1. PICK s \in SweepRows : s = sweep /\ SweepInv(s)
  BY DEF CleanupInv, SweepInv
<1>2. /\ t.at = s.at /\ t.left = s.left /\ t.listed = s.listed /\ t.open = s.open
      /\ t.heads = s.heads /\ t.contained = s.contained /\ t.superseded = s.superseded
      /\ ListedWork(t) = ListedWork(s) /\ Snapshots(t) = Snapshots(s)
  BY <1>1 DEF ListedWork, Snapshots, Compared, Protected
<1>3. MergedWork \subseteq MergedWork'
  BY DEF RefsGrow, MergedWork
<1>4. ASSUME NEW D \in SUBSET DOMAIN refs
      PROVE  UNION {refs[c] : c \in D} \subseteq UNION {refs'[c] : c \in D}
  BY DEF RefsGrow
<1>5. ASSUME Found(s) PROVE Found(t)'
  <2>1. DOMAIN t.listed = DOMAIN refs' /\ \A b \in DOMAIN refs' : t.listed[b] \subseteq refs'[b]
    BY <1>2, <1>5 DEF Found, RefsGrow
  <2>2. /\ \A b \in t.heads : <<b, t.listed[b]>> \in pulls'.merged
        /\ \A b \in t.contained : t.listed[b] \subseteq refs'[Default]
        /\ t.superseded \subseteq Snapshots(t)
    BY <1>2, <1>5 DEF Found, RefsGrow, CleanupInv, RefsInv
  <2>3. ASSUME ~ t.crossed, NEW c \in DOMAIN refs \ {Default}
        PROVE  refs'[c] \cap ListedWork(t) \subseteq t.listed[c]
    <3>1. ~ s.crossed /\ refs'[c] \cap ListedWork(s) \subseteq refs[c]
      BY <1>1, <1>5, <2>3
    <3>2. refs[c] \cap ListedWork(s) \subseteq s.listed[c]
      BY <1>5, <3>1 DEF Found
    <3>3. QED
      BY <1>2, <3>1, <3>2
  <2>4. ~ t.crossed => \A b \in t.superseded : t.listed[b] \subseteq t.listed[Canonical[b]]
    BY <1>1, <1>2, <1>5 DEF Found
  <2>5. Snapshots(t)' = Snapshots(t) /\ ListedWork(t)' = ListedWork(t)
    BY DEF Snapshots, Compared, Protected, ListedWork
  <2>6. DOMAIN refs' = DOMAIN refs
    BY DEF RefsGrow
  <2>7. QED
    BY <2>1, <2>2, <2>3, <2>4, <2>5, <2>6 DEF Found
<1>6. ASSUME Looking(s) PROVE Looking(t)'
  BY <1>2, <1>5, <1>6 DEF Looking, Snapshots, Compared, Protected
<1>7. ASSUME Deleting(s) PROVE Deleting(t)'
  <2>1. UNION {refs[c] : c \in DOMAIN refs \ t.left} \subseteq
          UNION {refs'[c] : c \in DOMAIN refs' \ t.left}
    BY <1>4 DEF RefsGrow
  <2>2. ~ t.crossed => ListedWork(t) \subseteq
                         MergedWork' \cup UNION {refs'[c] : c \in DOMAIN refs' \ t.left}
    BY <1>1, <1>2, <1>3, <1>7, <2>1 DEF Deleting
  <2>3. ListedWork(t)' = ListedWork(t)
    BY DEF ListedWork
  <2>4. QED
    BY <1>2, <1>7, <2>2, <2>3 DEF Deleting
<1>8. ASSUME Stopped(s) PROVE Stopped(t)'
  <2>1. UNION {refs[c] : c \in DOMAIN refs} \subseteq UNION {refs'[c] : c \in DOMAIN refs'}
    BY <1>4 DEF RefsGrow
  <2>2. ListedWork(t)' = ListedWork(t)
    BY DEF ListedWork
  <2>3. QED
    BY <1>1, <1>2, <1>3, <1>8, <2>1, <2>2 DEF Stopped
<1>9. SweepInv(t)'
  BY <1>1, <1>2, <1>6, <1>7, <1>8 DEF SweepInv
<1>10. QED
  BY <1>9 DEF CleanupInv, SweepInv, Looking, Found, Deleting, Stopped, MergedWork,
       ListedWork, Snapshots, Compared, Protected

(* One tip grows.                                                           *)
LEMMA TipGrows ==
  ASSUME CleanupInv, NEW b \in DOMAIN refs, NEW more, more \subseteq Work,
         refs' = [refs EXCEPT ![b] = @ \cup more],
         pulls' = [open |-> pulls'.open, merged |-> pulls'.merged],
         pulls'.open \subseteq Branches, pulls.merged \subseteq pulls'.merged
  PROVE  RefsInv' /\ RefsGrow
<1>1. DOMAIN refs \in SUBSET Branches /\ \A c \in DOMAIN refs : refs[c] \subseteq Work
  BY TipsAre DEF CleanupInv, RefsInv
<1>2. /\ DOMAIN refs' = DOMAIN refs
      /\ \A c \in DOMAIN refs : refs'[c] = IF c = b THEN refs[c] \cup more ELSE refs[c]
  OBVIOUS
<1>3. refs' \in [DOMAIN refs -> SUBSET Work]
  BY <1>1, <1>2
<1>4. refs' \in Tips
  BY <1>1, <1>3, TipsMade
<1>5. QED
  BY <1>2, <1>4 DEF CleanupInv, RefsInv, RefsGrow

LEMMA WorkPushStep ==
  ASSUME CleanupInv, NEW b \in DOMAIN refs, NEW w \in Work, Push(b, w)
  PROVE  CleanupInv'
<1>1. /\ refs' = [refs EXCEPT ![b] = @ \cup {w}] /\ UNCHANGED <<pulls, sweep>>
      /\ \A c \in DOMAIN refs : w \notin refs[c]
  BY DEF Push
<1>2. RefsInv' /\ RefsGrow
  <2>1. PICK more : more = {w}
    OBVIOUS
  <2>2. more \subseteq Work /\ refs' = [refs EXCEPT ![b] = @ \cup more]
    BY <1>1, <2>1
  <2>3. /\ pulls' = [open |-> pulls'.open, merged |-> pulls'.merged]
        /\ pulls'.open \subseteq Branches /\ pulls.merged \subseteq pulls'.merged
    BY <1>1 DEF CleanupInv, RefsInv
  <2>4. QED
    BY <2>2, <2>3, TipGrows
<1>3. Found(sweep) => w \notin ListedWork(sweep)
  BY <1>1 DEF Found, ListedWork
<1>4. Found(sweep) => \A c \in DOMAIN refs \ {Default} :
                        refs'[c] \cap ListedWork(sweep) \subseteq refs[c]
  <2>1. \A c \in DOMAIN refs : refs'[c] \subseteq refs[c] \cup {w}
    BY <1>1
  <2>2. QED
    BY <1>3, <2>1
<1>5. sweep \in SweepRows
  BY DEF CleanupInv, SweepInv
<1>6. PICK t \in SweepRows : t = sweep
  BY <1>5
<1>7. QED
  BY <1>1, <1>2, <1>4, <1>6, PeopleGo

LEMMA BringStep ==
  ASSUME CleanupInv, NEW b \in DOMAIN refs, NEW from \in DOMAIN refs, Bring(from, b)
  PROVE  CleanupInv'
<1>1. /\ refs' = [refs EXCEPT ![b] = @ \cup refs[from]] /\ UNCHANGED pulls
      /\ sweep' = [sweep EXCEPT !.crossed = TRUE]
  BY DEF Bring
<1>2. refs[from] \subseteq Work
  BY TipsAre DEF CleanupInv, RefsInv
<1>3. RefsInv' /\ RefsGrow
  BY <1>1, <1>2, TipGrows DEF CleanupInv, RefsInv
<1>4. PICK s \in SweepRows : s = sweep
  BY DEF CleanupInv, SweepInv
<1>5. PICK t : t = [s EXCEPT !.crossed = TRUE]
  OBVIOUS
<1>6. /\ t \in SweepRows /\ t.crossed /\ t.at = s.at /\ t.left = s.left /\ t.listed = s.listed
      /\ t.open = s.open /\ t.heads = s.heads /\ t.contained = s.contained
      /\ t.superseded = s.superseded
  BY <1>5 DEF SweepRows
<1>7. sweep' = t
  BY <1>1, <1>4, <1>5
<1>8. QED
  BY <1>3, <1>4, <1>6, <1>7, PeopleGo

LEMMA PullStep ==
  ASSUME CleanupInv, NEW b \in DOMAIN refs,
         OpenPull(b) \/ \E squash \in BOOLEAN : MergePull(b, squash)
  PROVE  CleanupInv'
<1>1. PICK t \in SweepRows : t = sweep /\ sweep' = t
  BY DEF CleanupInv, SweepInv, OpenPull, MergePull
<1>2. b \in Branches /\ pulls.open \subseteq Branches
  BY TipsAre DEF CleanupInv, RefsInv
<1>3. refs' = refs \/ refs' = [refs EXCEPT ![Default] = @ \cup refs[b]]
  BY DEF OpenPull, MergePull
<1>4. /\ pulls' = [open |-> pulls'.open, merged |-> pulls'.merged]
      /\ pulls'.open \subseteq Branches /\ pulls.merged \subseteq pulls'.merged
  <2>1. CASE OpenPull(b)
    <3>1. PICK open, merged : pulls = [open |-> open, merged |-> merged]
      BY DEF CleanupInv, RefsInv
    <3>2. pulls' = [open |-> open \cup {b}, merged |-> merged]
      BY <2>1, <3>1 DEF OpenPull
    <3>3. QED
      BY <1>2, <3>1, <3>2
  <2>2. CASE \E squash \in BOOLEAN : MergePull(b, squash)
    BY <1>2, <2>2 DEF MergePull
  <2>3. QED
    BY <2>1, <2>2
<1>5. RefsInv' /\ RefsGrow
  <2>1. CASE refs' = refs
    BY <1>4, <2>1 DEF CleanupInv, RefsInv, RefsGrow
  <2>2. CASE refs' = [refs EXCEPT ![Default] = @ \cup refs[b]]
    <3>1. refs[b] \subseteq Work /\ Default \in DOMAIN refs
      BY TipsAre DEF CleanupInv, RefsInv
    <3>2. QED
      BY <1>4, <2>2, <3>1, TipGrows
  <2>3. QED
    BY <1>3, <2>1, <2>2
<1>6. \A c \in DOMAIN refs \ {Default} : refs'[c] = refs[c]
  BY <1>3
<1>7. QED
  BY <1>1, <1>5, <1>6, PeopleGo

LEMMA CleanupNextInv == CleanupInv /\ [CleanupNext]_cleanupVars => CleanupInv'
<1> SUFFICES ASSUME CleanupInv, [CleanupNext]_cleanupVars PROVE CleanupInv'
  OBVIOUS
<1>1. CASE People
  <2>1. PICK b \in DOMAIN refs :
          \/ \E w \in Work : Push(b, w)
          \/ \E c \in DOMAIN refs : Bring(c, b)
          \/ OpenPull(b)
          \/ \E squash \in BOOLEAN : MergePull(b, squash)
    BY <1>1 DEF People, Person
  <2>2. QED
    BY <2>1, WorkPushStep, BringStep, PullStep
<1>2. CASE UNCHANGED cleanupVars
  BY <1>2 DEF cleanupVars, CleanupInv, RefsInv, SweepInv, Looking, Found, Deleting, Stopped,
       MergedWork, ListedWork, Snapshots, Compared, Protected
<1>3. QED
  BY <1>1, <1>2, ListStep, OpenStep, HeadsStep, DefaultStep, SiblingStep, DeleteStep, StopStep
     DEF CleanupNext

(* Of every sweep: until it deletes, what it found is so; from then on the  *)
(* work it listed is merged or in a branch that is to stay.                 *)
THEOREM CleanupInvHolds == CleanupSpec => []CleanupInv
<1>1. CleanupInit => CleanupInv
  BY CleanupInitInv
<1>2. CleanupInv /\ [CleanupNext]_cleanupVars => CleanupInv'
  BY CleanupNextInv
<1>3. QED
  BY <1>1, <1>2, PTL DEF CleanupSpec

(* The default branch is never deleted, and a sweep works on what it listed. *)
THEOREM CleanupTypesHold == CleanupSpec => []CleanupTypeOK
<1>1. CleanupInv => CleanupTypeOK
  BY TipsAre DEF CleanupInv, RefsInv, SweepInv, CleanupTypeOK
<1>2. QED
  BY <1>1, CleanupInvHolds, PTL

(* build_cleanup_plan and the deletions: until somebody brings a branch into *)
(* another after the listing, no work that was listed is lost, whatever      *)
(* people do meanwhile and wherever the sweep stops.                         *)
THEOREM ListedWorkIsKept == CleanupSpec => []CleanupKeepsListedWork
<1>1. CleanupInv => CleanupKeepsListedWork
  <2> SUFFICES ASSUME CleanupInv, ~ sweep.crossed
               PROVE  ListedWork(sweep) \subseteq
                        (UNION {refs[b] : b \in DOMAIN refs}) \cup MergedWork
    BY DEF CleanupKeepsListedWork, ListedWork, MergedWork
  <2>1. PICK s \in SweepRows : s = sweep /\ SweepInv(s)
    BY DEF CleanupInv, SweepInv
  <2>2. PICK listed : listed = ListedWork(s)
    OBVIOUS
  <2>3. PICK present : present = UNION {refs[b] : b \in DOMAIN refs}
    OBVIOUS
  <2>4. ASSUME s.at \notin {"delete", "failed"} PROVE listed \subseteq MergedWork \cup present
    <3>1. DOMAIN s.listed = DOMAIN refs /\ \A b \in DOMAIN refs : s.listed[b] \subseteq refs[b]
      BY <2>1, <2>4 DEF SweepInv, Looking, Found
    <3>2. listed \subseteq present
      BY <2>2, <2>3, <3>1 DEF ListedWork
    <3>3. QED
      BY <3>2
  <2>5. ASSUME s.at = "delete" PROVE listed \subseteq MergedWork \cup present
    <3>1. Deleting(s) /\ ~ s.crossed
      BY <2>1, <2>5 DEF SweepInv
    <3>2. listed \subseteq MergedWork \cup UNION {refs[c] : c \in DOMAIN refs \ s.left}
      BY <2>2, <3>1 DEF Deleting
    <3>3. UNION {refs[c] : c \in DOMAIN refs \ s.left} \subseteq present
      BY <2>3
    <3>4. QED
      BY <3>2, <3>3
  <2>6. ASSUME s.at = "failed" PROVE listed \subseteq MergedWork \cup present
    <3>1. Stopped(s) /\ ~ s.crossed
      BY <2>1, <2>6 DEF SweepInv
    <3>2. QED
      BY <2>2, <2>3, <3>1 DEF Stopped
  <2>7. listed \subseteq MergedWork \cup present
    BY <2>4, <2>5, <2>6 DEF SweepInv
  <2>8. ListedWork(sweep) = listed
    BY <2>1, <2>2 DEF ListedWork
  <2>9. QED
    BY <2>3, <2>7, <2>8
<1>2. QED
  BY <1>1, CleanupInvHolds, PTL

=============================================================================
