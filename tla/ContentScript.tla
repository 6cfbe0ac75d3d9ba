--------------------------- MODULE ContentScript ----------------------------
(***************************************************************************)
(* content.js: the controller of one tab.  A step ends where the script    *)
(* awaits, so a request takes effect at the bridge in the step that sends  *)
(* it and its reply is acted upon in a later one.  start() reconciles an   *)
(* interrupted operation beside the polling, so that has a counter of its  *)
(* own.  Timeouts of the script are choices.                               *)
(***************************************************************************)
EXTENDS BrowserTabs

VARIABLE content  \* the controller of each tab

shared == <<jobs, page, turns, active, recovery, leader, ticket>>

Errors == {"none", "exhausted", "permanent", "controller", "timeout"}

Controller ==
  [pc       : {"idle", "stale", "asked", "composer", "submit", "starting",
               "watch", "finish", "acked", "failing"},
   op       : 0..MaxJobs,
   retries  : Nat,                    \* retry_count of the claimed operation
   snapshot : SUBSET (0..MaxTurns),   \* assistantSnapshot
   text     : Text,
   error    : Errors,                 \* failureReason of waitForResponse
   ok       : BOOLEAN,                \* finalized
   next     : 0..MaxJobs,             \* chainedOperation
   start    : {"begin", "clear", "done"}]

Idle == [pc |-> "idle", op |-> 0, retries |-> 0, snapshot |-> {}, text |-> NoText,
         error |-> "none", ok |-> FALSE, next |-> 0, start |-> "done"]

(* The operation ends and the controller is idle again.                    *)
Rest(t) == [content EXCEPT ![t] = [Idle EXCEPT !.start = content[t].start]]

Goto(t, pc) == [content EXCEPT ![t].pc = pc]

(* What the operation still needs at pc when the wait for ChatGPT is over. *)
After(t, pc) == [Idle EXCEPT !.start = content[t].start, !.pc = pc, !.op = content[t].op]

At(t, pc) == content[t].pc = pc

Asked(t, o) ==
  [content EXCEPT ![t] = [Idle EXCEPT !.start = content[t].start, !.pc = "asked",
                            !.op = o, !.retries = RetryCount(jobs[o])]]

IsPrompt(o) == jobs[o].kind = "prompt"

-----------------------------------------------------------------------------
(* The controller lease and polling.                                       *)

(* pasi-controller-claim.  The lease is renewed while a tab polls or       *)
(* works, but the timers of a hidden tab may be held back until it lapses. *)
ClaimController(t) ==
  /\ leader \in {0, t} \/ Lapses
  /\ leader' = t

(* recoveryOperationId()                                                   *)
Wanted ==
  IF recovery.chat # 0 THEN recovery.chat
  ELSE recovery.resume

Blocked == recovery.op # 0 /\ Wanted = 0

(* poll: GET /next-operation, or POST /chat/claim of the operation a       *)
(* recovery is waiting for.  The reply may be lost.                        *)
Poll(t) ==
  /\ At(t, "idle")
  /\ ClaimController(t)
  /\ ~Blocked
  /\ \E o \in IF Wanted = 0 THEN OldestQueued(jobs) ELSE {Wanted} \cap QueuedJobs(jobs) :
       /\ jobs' = ClaimJob(jobs, o)
       /\ ticket' = [ticket EXCEPT ![o] = TRUE]
       /\ \/ content' = Asked(t, o)
          \/ "controller" \in Lossy /\ UNCHANGED content
  /\ UNCHANGED <<page, turns, active, recovery>>

(* The claim is refused and GET /operation says the operation is over: the *)
(* key is removed when that reply is here, whatever it holds by then.      *)
PollRefused(t) ==
  /\ At(t, "idle")
  /\ ClaimController(t)
  /\ Wanted # 0
  /\ Finished(jobs[Wanted])
  /\ content' = Goto(t, "stale")
  /\ UNCHANGED <<jobs, page, turns, active, recovery, ticket>>

DropRecovery(t) ==
  /\ At(t, "stale")
  /\ recovery' = NoRecovery
  /\ content' = Goto(t, "idle")
  /\ UNCHANGED <<jobs, page, turns, active, leader, ticket>>

-----------------------------------------------------------------------------
(* processOperation                                                        *)

(* The lease is claimed once more; without it the operation is dropped and *)
(* stays claimed at the bridge.                                            *)
Begin(t) ==
  /\ At(t, "asked")
  /\ \/ /\ ClaimController(t)
        /\ active' = [op |-> content[t].op, baseline |-> Unset]
        /\ content' = Goto(t, "composer")
     \/ /\ leader \notin {0, t}
        /\ content' = Rest(t)
        /\ UNCHANGED <<leader, active>>
  /\ UNCHANGED <<jobs, page, turns, recovery, ticket>>

NewChat(t) ==
  /\ At(t, "composer")
  /\ ~IsPrompt(content[t].op)
  /\ page' = [page EXCEPT ![t].chat = << >>, ![t].live = FALSE,
                          ![t].notice = IF @ = "exhausted" THEN "none" ELSE @]
  /\ content' = [content EXCEPT ![t] = After(t, "finish")]
  /\ UNCHANGED <<jobs, turns, active, recovery, leader, ticket>>

(* The composer is ready once nothing is being generated.                  *)
Compose(t) ==
  /\ At(t, "composer")
  /\ IsPrompt(content[t].op)
  /\ ~page[t].live
  /\ active' = [op |-> content[t].op, baseline |-> Latest(t)]
  /\ content' = [content EXCEPT ![t].pc = "submit", ![t].snapshot = Replied(t)]
  /\ UNCHANGED <<jobs, page, turns, recovery, leader, ticket>>

(* submitPrompt fires one send strategy, which may have no effect; nothing *)
(* is sent while something is being generated.                             *)
Submit(t) ==
  /\ At(t, "submit")
  /\ page[t].notice = "none"
  /\ \/ /\ ~page[t].live
        /\ turns < MaxTurns
        /\ page' = SendPrompt(t, content[t].op)
        /\ turns' = turns + 1
        /\ ticket' = [ticket EXCEPT ![content[t].op] = FALSE]
     \/ UNCHANGED <<page, turns, ticket>>
  /\ content' = Goto(t, "starting")
  /\ UNCHANGED <<jobs, active, recovery, leader>>

(* The mutant takes the latest reply, whatever prompt it follows.          *)
ResponseUnchecked(t) == Latest(t)

Response(t) == Evidence(t, content[t].op, content[t].snapshot)

Starts(t) ==
  /\ At(t, "starting")
  /\ page[t].live \/ Response(t) # NoText
  /\ content' = Goto(t, "watch")
  /\ UNCHANGED shared

(* waitForResponse: a notice is remembered, and makes the wait fail even   *)
(* if a response arrives after it.                                         *)
SeeNotice(t) ==
  /\ At(t, "watch")
  /\ ~page[t].live
  /\ page[t].notice \in {"exhausted", "limited"}
  /\ content' = [content EXCEPT ![t].error =
                   IF page[t].notice = "exhausted" THEN "exhausted" ELSE "permanent"]
  /\ UNCHANGED shared

ResponseArrived(t) ==
  /\ ~page[t].live
  /\ page[t].notice \notin {"exhausted", "limited"}
  /\ Response(t) # NoText
  /\ Response(t).whole \/ content[t].op \notin Marked

SeeResponse(t) ==
  /\ At(t, "watch")
  /\ ResponseArrived(t)
  /\ content[t].error = "none"
  /\ content' = [content EXCEPT ![t] = [After(t, "finish") EXCEPT !.text = Response(t)]]
  /\ UNCHANGED shared

(* Mutant: the operation just finished is handed over again.               *)
HandedOverAgain(js, o) == o

(* The operation that a reply about o hands over.                          *)
HandedOver(js, o) == Successor(js, o)

(* finishOperation: one of three attempts gets through, or a look at the   *)
(* operation shows that it did.                                            *)
Finish(t) ==
  LET o == content[t].op IN
  /\ At(t, "finish")
  /\ FinishAccepted(jobs, o)
  /\ jobs' = FinishJob(jobs, o, content[t].text)
  /\ ticket' = [p \in Jobs |-> ticket[p] \/ p = Successor(jobs', o)]
  /\ content' = [content EXCEPT ![t] = [After(t, "acked") EXCEPT !.next = HandedOver(jobs', o)]]
  /\ UNCHANGED <<page, turns, active, recovery, leader>>

(* What the finally block removes for an operation that is finalized.      *)
RecoveryAfter(o) ==
  IF recovery.resume = o \/ (recovery.op = o /\ recovery.phase = "monitoring")
  THEN NoRecovery ELSE recovery

(* The successor that came with the acknowledgement is processed next.     *)
Acked(t) ==
  LET o == content[t].op IN
  /\ At(t, "acked")
  /\ active' = NoActive
  /\ recovery' = RecoveryAfter(o)
  /\ content' = IF content[t].next # 0 THEN Asked(t, content[t].next) ELSE Rest(t)
  /\ UNCHANGED <<jobs, page, turns, leader, ticket>>

-----------------------------------------------------------------------------
(* Errors of processOperation.                                             *)

(* POST /chat/failed, heard by the bridge or not; the response text that   *)
(* finishOperation could not deliver was published before it.              *)
ReportFailure(t, class) ==
  LET o  == content[t].op
      js == IF content[t].text = NoText THEN jobs
            ELSE ObserveResponse(jobs, o, content[t].text)
      heard(ok) == content' = [content EXCEPT ![t] = [After(t, "failing") EXCEPT !.ok = ok]]
  IN  /\ \/ jobs' = FailJob(js, o, class) /\ heard(FailAccepted(js, o, class))
         \/ "controller" \in Lossy /\ jobs' \in {jobs, js, FailJob(js, o, class)} /\ heard(FALSE)
      /\ UNCHANGED <<page, turns, active, recovery, leader, ticket>>

(* rememberContextRecovery and rememberResponseRecovery hand the operation *)
(* to recovery.js.                                                         *)
HandOver(t, state) ==
  /\ recovery' = state
  /\ content' = Rest(t)
  /\ UNCHANGED <<jobs, page, turns, active, leader, ticket>>

Throw(t, error) ==
  LET o == content[t].op IN
  CASE error = "exhausted" /\ content[t].retries < 1 ->
         HandOver(t, [Monitoring(o, Latest(t)) EXCEPT !.phase = "context_exhausted"])
    [] error = "timeout" ->
         HandOver(t, Monitoring(o, IF active.baseline = Unset THEN Latest(t) ELSE active.baseline))
    [] error = "exhausted" /\ content[t].retries >= 1 -> ReportFailure(t, "context")
    [] error = "permanent" -> ReportFailure(t, "none")
    [] error = "controller" -> ReportFailure(t, "controller")

(* What may go wrong at each place.                                        *)
ComposerFails(t) ==
  /\ At(t, "composer")
  /\ \/ ~IsPrompt(content[t].op) /\ \E e \in {"controller", "permanent"} : Throw(t, e)
     \/ IsPrompt(content[t].op) /\ page[t].notice = "exhausted" /\ Throw(t, "exhausted")
     \/ IsPrompt(content[t].op) /\ page[t].notice = "limited" /\ Throw(t, "permanent")
     \/ IsPrompt(content[t].op) /\ \E e \in {"controller", "permanent"} : Throw(t, e)

SubmitFails(t) ==
  /\ At(t, "submit")
  /\ \/ page[t].notice = "exhausted" /\ Throw(t, "exhausted")
     \/ page[t].notice \in {"limited", "challenge"} /\ Throw(t, "permanent")
     \/ page[t].notice = "none" /\ \E e \in {"controller", "permanent"} : Throw(t, e)

StartFails(t) ==
  /\ At(t, "starting")
  /\ ~page[t].live
  /\ Response(t) = NoText
  /\ Throw(t, "controller")

WatchFails(t) ==
  /\ At(t, "watch")
  /\ IF content[t].error # "none" THEN Throw(t, content[t].error) ELSE Throw(t, "timeout")

FinishFails(t) ==
  /\ At(t, "finish")
  /\ "controller" \in Lossy \/ ~FinishAccepted(jobs, content[t].op)
  /\ Throw(t, "controller")

(* The acknowledgement is recorded and nobody hears of it.                 *)
FinishUnheard(t) ==
  /\ "controller" \in Lossy
  /\ At(t, "finish")
  /\ FinishAccepted(jobs, content[t].op)
  /\ jobs' = FinishJob(jobs, content[t].op, content[t].text)
  /\ content' = [content EXCEPT ![t] = After(t, "failing")]
  /\ UNCHANGED <<page, turns, active, recovery, leader, ticket>>

Failing(t) ==
  /\ At(t, "failing")
  /\ IF content[t].ok
     THEN active' = NoActive /\ recovery' = RecoveryAfter(content[t].op)
     ELSE UNCHANGED <<active, recovery>>
  /\ content' = Rest(t)
  /\ UNCHANGED <<jobs, page, turns, leader, ticket>>

-----------------------------------------------------------------------------
(* recoverInterruptedOperation, while the timer may already poll.  The     *)
(* response of a completed operation is sent to the bridge once more,      *)
(* which records nothing, and the key is removed.                          *)
Reconcile(t) ==
  /\ content[t].start = "begin"
  /\ content' = [content EXCEPT ![t].start =
                   IF active.op # 0 /\ Finished(jobs[active.op]) THEN "clear" ELSE "done"]
  /\ UNCHANGED shared

ReconcileUnheard(t) ==
  /\ "controller" \in Lossy
  /\ content[t].start = "begin"
  /\ content' = [content EXCEPT ![t].start = "done"]
  /\ UNCHANGED shared

ClearActive(t) ==
  /\ content[t].start = "clear"
  /\ active' = NoActive
  /\ content' = [content EXCEPT ![t].start = "done"]
  /\ UNCHANGED <<jobs, page, turns, recovery, leader, ticket>>

Process(t) ==
  \/ Begin(t) \/ NewChat(t) \/ Compose(t) \/ Submit(t) \/ Starts(t)
  \/ SeeNotice(t) \/ SeeResponse(t) \/ Finish(t) \/ Acked(t)
  \/ ComposerFails(t) \/ SubmitFails(t) \/ StartFails(t) \/ WatchFails(t)
  \/ FinishFails(t) \/ FinishUnheard(t) \/ Failing(t)

ContentNext(t) ==
  \/ Poll(t) \/ PollRefused(t) \/ DropRecovery(t)
  \/ Process(t)
  \/ Reconcile(t) \/ ReconcileUnheard(t) \/ ClearActive(t)

=============================================================================
