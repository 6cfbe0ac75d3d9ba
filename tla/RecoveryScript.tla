--------------------------- MODULE RecoveryScript ---------------------------
(***************************************************************************)
(* recovery.js: beside the controller of every tab, an inspection that     *)
(* looks after the operation named by the two keys.  It asks no one for    *)
(* the controller lease.  What it read before an await (state, cur) is     *)
(* what it acts upon after it.  Reports that change nothing are left out.  *)
(***************************************************************************)
EXTENDS ContentScript

VARIABLE inspection  \* the inspection in progress in each tab

tabVars == <<jobs, page, turns, active, recovery, leader, ticket, content>>

(* The result of a lookup that failed.                                     *)
Unknown == [NoJob EXCEPT !.kind = "new_chat"]

(* Where finishExisting goes on.                                           *)
Continuations == {"idle", "fresh", "provider", "decide", "grace", "context", "clearAll", "clearRecovery"}

Inspection ==
  [pc    : {"idle", "looked", "fresh", "preserve", "provider", "decide",
            "reloaded", "grace", "context", "finish", "clearAll",
            "clearRecovery", "clearFailed", "queued", "unheard", "chat", "requeue",
            "requeued", "reload"},
   op    : 0..MaxJobs,
   state : Recovery,
   cur   : Job,
   text  : Text,           \* the response being sent
   done  : Continuations,  \* once that is acknowledged
   fail  : Continuations,  \* and when it is not
   chat  : 0..MaxJobs,     \* the new_chat operation it waits for
   ok    : BOOLEAN]        \* its failure report was accepted

Resting == [pc |-> "idle", op |-> 0, state |-> NoRecovery, cur |-> NoJob,
            text |-> NoText, done |-> "idle", fail |-> "idle", chat |-> 0, ok |-> FALSE]

Op(t) == inspection[t].op
State(t) == inspection[t].state
Cur(t) == inspection[t].cur
Notice(t) == page[t].notice

Inspecting(t, pc) == inspection[t].pc = pc

(* What is not read from pc on is forgotten.                               *)
Kept(i, pc) ==
  IF pc \in {"idle", "reload", "clearAll", "clearRecovery"} THEN [Resting EXCEPT !.pc = pc]
  ELSE IF pc \in {"clearFailed", "fresh"} THEN [Resting EXCEPT !.pc = pc, !.op = i.op]
  ELSE [i EXCEPT !.pc = pc, !.text = NoText, !.done = "idle", !.fail = "idle",
                 !.cur = IF pc \in {"context", "requeue"} THEN @ ELSE NoJob,
                 !.state = IF pc \in {"queued", "unheard", "chat", "requeue", "requeued"}
                           THEN [NoRecovery EXCEPT !.phase = i.state.phase] ELSE @]

GoOn(t, pc) == inspection' = [inspection EXCEPT ![t] = Kept(@, pc)]

EndInspection(t) == inspection' = [inspection EXCEPT ![t] = Resting]

(* GET /operation: the reply is used in a later step.                      *)
Lookup(t, next) ==
  \E cur \in {[jobs[next.op] EXCEPT !.next = 0]} \cup (IF "inspection" \in Lossy THEN {Unknown} ELSE {}) :
    inspection' = [inspection EXCEPT ![t] = [next EXCEPT !.cur = cur]]

(* finishExisting first publishes the response as an observation.          *)
FinishWith(t, text, done, fail) ==
  /\ jobs' = ObserveResponse(jobs, Op(t), text)
  /\ inspection' = [inspection EXCEPT ![t] =
                      [Kept(@, fail) EXCEPT !.pc = "finish", !.op = Op(t), !.text = text,
                                            !.done = done, !.fail = fail]]

(* finishVisibleResponse: the persisted response, or else the visible one. *)
VisibleResponse(t) ==
  IF HasText(Cur(t)) THEN Cur(t).text
  ELSE IF Cur(t).kind = "prompt" /\ ~page[t].live THEN LatestFor(t, Op(t))
  ELSE NoText

(* Mutant: an inspection that finds no response just ends.                 *)
FinishVisibleOrWait(t, done, fail) ==
  IF VisibleResponse(t) # NoText
  THEN FinishWith(t, VisibleResponse(t), done, fail)
  ELSE EndInspection(t) /\ UNCHANGED jobs

FinishVisible(t, done, fail) ==
  IF VisibleResponse(t) # NoText
  THEN FinishWith(t, VisibleResponse(t), done, fail)
  ELSE GoOn(t, fail) /\ UNCHANGED jobs

(* markRetryableFailure                                                    *)
ReportLost(t, class, pc) ==
  LET failed    == FailJob(jobs, Op(t), class)
      heard(ok) == inspection' = [inspection EXCEPT ![t] =
                                   [Kept(@, pc) EXCEPT !.ok = pc = "requeued" /\ ok]]
  IN  \/ jobs' = failed /\ heard(FailAccepted(jobs, Op(t), class))
      \/ "inspection" \in Lossy /\ jobs' \in {jobs, failed} /\ heard(FALSE)

(* POST /queue of a new_chat operation, and what follows if it fails.      *)
QueueNewChat(t) ==
  \E o \in NewJobs(jobs) :
    /\ jobs' = QueueJob(jobs, o, "new_chat")
    /\ inspection' \in {[inspection EXCEPT ![t] = [Kept(@, "queued") EXCEPT !.chat = o]]}
         \cup (IF "inspection" \in Lossy THEN {[inspection EXCEPT ![t] = Kept(@, "unheard")]} ELSE {})

NewChatFailed(t) ==
  IF State(t).phase = "context_exhausted"
  THEN EndInspection(t) /\ UNCHANGED jobs
  ELSE ReportLost(t, "none", "clearFailed")

StartNewChat(t) ==
  \/ QueueNewChat(t)
  \/ ("inspection" \in Lossy \/ NewJobs(jobs) = {}) /\ NewChatFailed(t)

-----------------------------------------------------------------------------
(* inspect                                                                 *)

Inspect(t) ==
  /\ Inspecting(t, "idle")
  /\ \/ recovery.op # 0 /\ Lookup(t, [Resting EXCEPT !.pc = "looked", !.op = recovery.op, !.state = recovery])
     \/ recovery.op = 0 /\ active.op # 0 /\ Lookup(t, [Resting EXCEPT !.pc = "looked", !.op = active.op])
  /\ UNCHANGED tabVars

Known(t) == Inspecting(t, "looked") /\ Cur(t) # Unknown

(* No recovery is under way: the operation of the active key is looked up. *)
LooksFresh(t) == Inspecting(t, "looked") /\ State(t).op = 0

InspectActive(t) ==
  /\ LooksFresh(t)
  /\ \/ Cur(t) = Unknown /\ EndInspection(t) /\ UNCHANGED jobs
     \/ Known(t) /\ Finished(Cur(t)) /\ FinishVisible(t, "clearAll",
          IF Cur(t).status = "completed" THEN "idle" ELSE "clearAll")
     \/ Known(t) /\ ~Finished(Cur(t)) /\ HasText(Cur(t)) /\ FinishWith(t, Cur(t).text, "clearAll", "fresh")
  /\ UNCHANGED <<page, turns, active, recovery, leader, ticket, content>>

StartMonitoring(t) ==
  LET state == Monitoring(Op(t), Latest(t)) IN
  /\ \/ Inspecting(t, "fresh")
     \/ LooksFresh(t) /\ Known(t) /\ ~Finished(Cur(t)) /\ ~HasText(Cur(t))
  /\ recovery' = state
  /\ IF Notice(t) = "exhausted" THEN EndInspection(t)
     ELSE Lookup(t, [inspection[t] EXCEPT !.pc = "preserve", !.state = state])
  /\ UNCHANGED <<jobs, page, turns, active, leader, ticket, content>>

(* A recovery is under way.                                                *)
LooksAt(t, phases) == Inspecting(t, "looked") /\ State(t).phase \in phases

OtherPhases == {"monitoring", "reloaded", "retry_ready"}

(* An operation that cannot be looked up is given a while to come back.    *)
InspectMissing(t) ==
  /\ LooksAt(t, OtherPhases)
  /\ Cur(t) = Unknown
  /\ \/ State(t).missing /\ GoOn(t, "clearAll") /\ UNCHANGED recovery
     \/ State(t).missing /\ EndInspection(t) /\ UNCHANGED recovery
     \/ ~State(t).missing /\ recovery' = [State(t) EXCEPT !.missing = TRUE] /\ EndInspection(t)
  /\ UNCHANGED <<jobs, page, turns, active, leader, ticket, content>>

Found(t) == [State(t) EXCEPT !.missing = FALSE]

Rewritten(t) == IF State(t).missing THEN Found(t) ELSE recovery

InspectFinished(t) ==
  /\ LooksAt(t, OtherPhases)
  /\ Known(t)
  /\ Finished(Cur(t))
  /\ FinishVisible(t, "clearAll", "clearAll")
  /\ recovery' = Rewritten(t)
  /\ UNCHANGED <<page, turns, active, leader, ticket, content>>

(* A requeued operation is waited for until a controller has claimed it.   *)
InspectRetry(t) ==
  /\ LooksAt(t, {"retry_ready"})
  /\ Known(t)
  /\ ~Finished(Cur(t))
  /\ EndInspection(t)
  /\ recovery' = IF State(t).resume = Op(t) /\ Cur(t).status = "claimed"
                 THEN NoRecovery ELSE Rewritten(t)
  /\ UNCHANGED <<jobs, page, turns, active, leader, ticket, content>>

(* persistProgressState may write the state back.                          *)
InspectMonitoring(t) ==
  /\ LooksAt(t, {"monitoring"})
  /\ Known(t)
  /\ ~Finished(Cur(t))
  /\ recovery' \in {Rewritten(t), Found(t)}
  /\ Lookup(t, [inspection[t] EXCEPT !.pc = "preserve", !.state = Found(t)])
  /\ UNCHANGED <<jobs, page, turns, active, leader, ticket, content>>

InspectReloaded(t) ==
  /\ LooksAt(t, {"reloaded"})
  /\ Known(t)
  /\ ~Finished(Cur(t))
  /\ recovery' = Rewritten(t)
  /\ Lookup(t, [inspection[t] EXCEPT !.pc = "reloaded", !.state = Found(t)])
  /\ UNCHANGED <<jobs, page, turns, active, leader, ticket, content>>

-----------------------------------------------------------------------------
(* preserveOrReload                                                        *)

(* The reply on the page is taken for the operation's when it is not the   *)
(* baseline.                                                               *)
Preservable(t) ==
  /\ State(t).reason # "connection"
  /\ ~page[t].live
  /\ Latest(t) # NoText
  /\ Latest(t) # State(t).baseline

PreserveFirst(t) ==
  /\ Inspecting(t, "preserve")
  /\ \/ (Cur(t) = Unknown \/ Notice(t) = "challenge") /\ EndInspection(t) /\ UNCHANGED jobs
     \/ /\ Cur(t) # Unknown /\ Notice(t) # "challenge" /\ HasText(Cur(t))
        /\ FinishWith(t, Cur(t).text, "clearAll", "provider")
  /\ UNCHANGED <<page, turns, active, recovery, leader, ticket, content>>

PastPersisted(t) ==
  \/ Inspecting(t, "provider")
  \/ /\ Inspecting(t, "preserve")
     /\ Cur(t) # Unknown /\ Notice(t) # "challenge" /\ ~HasText(Cur(t))

Preserve(t) ==
  /\ PastPersisted(t)
  /\ \/ Notice(t) = "limited" /\ ReportLost(t, "none", "clearRecovery")
     \/ Notice(t) # "limited" /\ Preservable(t) /\ FinishWith(t, Latest(t), "clearRecovery", "decide")
  /\ UNCHANGED <<page, turns, active, recovery, leader, ticket, content>>

(* decideRecovery; whether the page stalled or the operation is too old is *)
(* a choice.                                                               *)
MayReload(t) == Notice(t) # "challenge" /\ State(t).reloads < 1

Decide(t) ==
  /\ \/ Inspecting(t, "decide")
     \/ PastPersisted(t) /\ Notice(t) # "limited" /\ ~Preservable(t)
  /\ \/ /\ MayReload(t)
        /\ recovery' = [State(t) EXCEPT !.reloads = @ + 1, !.phase = "reloaded",
                          !.reason = IF page[t].banner THEN "connection" ELSE "stall"]
        /\ GoOn(t, "reload")
     \/ /\ ~(MayReload(t) /\ page[t].banner)
        /\ recovery' \in {recovery, State(t)}
        /\ EndInspection(t)
  /\ UNCHANGED <<jobs, page, turns, active, leader, ticket, content>>

-----------------------------------------------------------------------------
(* handleReloadRecovery                                                    *)

AfterReload(t) ==
  /\ Inspecting(t, "reloaded")
  /\ \/ Finished(Cur(t)) /\ FinishVisible(t, "clearRecovery", "clearRecovery")
     \/ ~Finished(Cur(t)) /\ Notice(t) = "challenge" /\ ReportLost(t, "none", "clearRecovery")
     \/ /\ ~Finished(Cur(t)) /\ Notice(t) # "challenge" /\ Preservable(t)
        /\ FinishWith(t, Latest(t), "clearRecovery", "grace")
  /\ UNCHANGED <<page, turns, active, recovery, leader, ticket, content>>

(* The error with which a reloaded operation is given back: the bridge     *)
(* takes only that of a reload without connection loss for transient.      *)
GiveBackClass(t) ==
  IF Notice(t) \in {"exhausted", "limited"} \/ State(t).reason = "connection"
  THEN "none" ELSE "controller"

Grace(t) ==
  /\ \/ Inspecting(t, "grace")
     \/ /\ Inspecting(t, "reloaded") /\ ~Finished(Cur(t))
        /\ Notice(t) # "challenge" /\ ~Preservable(t)
  /\ \/ EndInspection(t) /\ UNCHANGED jobs
     \/ Notice(t) \in {"exhausted", "limited"} /\ StartNewChat(t)
     \/ Notice(t) \notin {"exhausted", "limited"} /\ ReportLost(t, GiveBackClass(t), "requeued")
  /\ UNCHANGED <<page, turns, active, recovery, leader, ticket, content>>

-----------------------------------------------------------------------------
(* handleContextExhausted                                                  *)

(* Mutant: the key outlives an operation that ended without a response.    *)
InspectExhaustedKept(t) ==
  /\ LooksAt(t, {"context_exhausted"})
  /\ \/ Cur(t) = Unknown /\ EndInspection(t) /\ UNCHANGED jobs
     \/ Known(t) /\ Finished(Cur(t)) /\ FinishVisible(t, "clearAll", "idle")
     \/ Known(t) /\ ~Finished(Cur(t)) /\ HasText(Cur(t)) /\ FinishWith(t, Cur(t).text, "clearAll", "context")
  /\ UNCHANGED <<page, turns, active, recovery, leader, ticket, content>>

InspectExhausted(t) ==
  /\ LooksAt(t, {"context_exhausted"})
  /\ \/ Cur(t) = Unknown /\ EndInspection(t) /\ UNCHANGED jobs
     \/ Known(t) /\ Finished(Cur(t)) /\ FinishVisible(t, "clearAll", "clearAll")
     \/ Known(t) /\ ~Finished(Cur(t)) /\ HasText(Cur(t)) /\ FinishWith(t, Cur(t).text, "clearAll", "context")
  /\ UNCHANGED <<page, turns, active, recovery, leader, ticket, content>>

(* A fresh chat is prepared only while exhaustion is on the page and the   *)
(* operation was never retried; otherwise the key is left as it is.        *)
ReplaceChat(t) ==
  /\ \/ Inspecting(t, "context")
     \/ /\ LooksAt(t, {"context_exhausted"}) /\ Known(t)
        /\ ~Finished(Cur(t)) /\ ~HasText(Cur(t))
  /\ IF Notice(t) = "exhausted" /\ RetryCount(Cur(t)) < 1
     THEN StartNewChat(t)
     ELSE EndInspection(t) /\ UNCHANGED jobs
  /\ UNCHANGED <<page, turns, active, recovery, leader, ticket, content>>

(* queueNewChat names the operation under the key, so that the controller  *)
(* claims it, and looks until it is over or thirty seconds have passed.    *)
NameNewChat(t) ==
  /\ Inspecting(t, "queued")
  /\ recovery' = IF recovery.op # 0 THEN [recovery EXCEPT !.chat = inspection[t].chat] ELSE recovery
  /\ GoOn(t, "chat")
  /\ UNCHANGED <<jobs, page, turns, active, leader, ticket, content>>

NewChatReady(t) ==
  /\ Inspecting(t, "chat")
  /\ jobs[inspection[t].chat].status = "completed"
  /\ recovery' = IF recovery.op # 0 THEN [recovery EXCEPT !.chat = 0] ELSE recovery
  /\ Lookup(t, Kept(inspection[t], "requeue"))
  /\ UNCHANGED <<jobs, page, turns, active, leader, ticket, content>>

NewChatLate(t) ==
  /\ Inspecting(t, "chat") \/ Inspecting(t, "unheard")
  /\ NewChatFailed(t)
  /\ UNCHANGED <<page, turns, active, recovery, leader, ticket, content>>

Requeue(t) ==
  /\ Inspecting(t, "requeue")
  /\ IF State(t).phase # "context_exhausted" THEN ReportLost(t, "none", "requeued")
     ELSE IF Finished(Cur(t)) THEN GoOn(t, "clearAll") /\ UNCHANGED jobs
     ELSE ReportLost(t, "context", "requeued")
  /\ UNCHANGED <<page, turns, active, recovery, leader, ticket, content>>

(* The operation is looked up once more to see that it is queued.          *)
Requeued(t) ==
  LET queued == jobs[Op(t)].status = "queued" IN
  /\ Inspecting(t, "requeued")
  /\ IF State(t).phase = "context_exhausted"
     THEN /\ UNCHANGED recovery
          /\ IF queued THEN GoOn(t, "clearAll") ELSE EndInspection(t)
     ELSE IF inspection[t].ok /\ queued
     THEN /\ recovery' = IF recovery.op # 0
                         THEN [recovery EXCEPT !.resume = Op(t), !.phase = "retry_ready"]
                         ELSE recovery
          /\ EndInspection(t)
     ELSE GoOn(t, "clearRecovery") /\ UNCHANGED recovery
  /\ UNCHANGED <<jobs, page, turns, active, leader, ticket, content>>

-----------------------------------------------------------------------------
(* finishExisting, and what is cleared after it.                           *)

FinishExisting(t) ==
  /\ Inspecting(t, "finish")
  /\ \/ /\ FinishAccepted(jobs, Op(t))
        /\ jobs' = FinishJob(jobs, Op(t), inspection[t].text)
        /\ \/ GoOn(t, inspection[t].done)
           \/ "inspection" \in Lossy /\ GoOn(t, inspection[t].fail)
     \/ /\ "inspection" \in Lossy \/ ~FinishAccepted(jobs, Op(t))
        /\ GoOn(t, inspection[t].fail)
        /\ UNCHANGED jobs
  /\ UNCHANGED <<page, turns, active, recovery, leader, ticket, content>>

(* clearInterruptedState and clearRecoveryState remove the keys whatever   *)
(* operation they are about by now.                                        *)
Clear(t) ==
  /\ \/ Inspecting(t, "clearAll") /\ active' = NoActive /\ recovery' = NoRecovery
     \/ Inspecting(t, "clearRecovery") /\ recovery' = NoRecovery /\ UNCHANGED active
     \/ /\ Inspecting(t, "clearFailed")
        /\ recovery' = IF recovery.resume = Op(t) THEN recovery ELSE NoRecovery
        /\ UNCHANGED active
  /\ EndInspection(t)
  /\ UNCHANGED <<jobs, page, turns, leader, ticket, content>>

RecoveryNext(t) ==
  \/ Inspect(t) \/ InspectActive(t) \/ StartMonitoring(t) \/ InspectMissing(t)
  \/ InspectFinished(t) \/ InspectRetry(t) \/ InspectMonitoring(t) \/ InspectReloaded(t)
  \/ PreserveFirst(t) \/ Preserve(t) \/ Decide(t)
  \/ AfterReload(t) \/ Grace(t)
  \/ InspectExhausted(t) \/ ReplaceChat(t) \/ NameNewChat(t) \/ NewChatReady(t)
  \/ NewChatLate(t) \/ Requeue(t) \/ Requeued(t)
  \/ FinishExisting(t) \/ Clear(t)

=============================================================================
