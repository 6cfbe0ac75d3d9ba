---------------------------- MODULE BridgeQueue -----------------------------
(***************************************************************************)
(* The ChatGPT bridge: BridgeState, whose methods each run under one lock  *)
(* and so are one step here, and the HTTP handlers that call it.           *)
(* POST /chat/finished takes the lock several times, so each of its        *)
(* requests is a small process with a program counter.                     *)
(*                                                                         *)
(* A method that saves the queue takes the stage its save gets to.  When   *)
(* writes can only be cut short by the death of the process (IOErrors is   *)
(* FALSE) an unfinished save restarts the bridge from its files.           *)
(***************************************************************************)
EXTENDS BridgeStore

CONSTANTS
  PromptRequests,  \* requests with operation_type "prompt"
  KeyedRequests,   \* requests that carry an idempotency key
  RetryBudget,     \* RETRY_BUDGETS
  ClaimLease,      \* CLAIM_LEASE_SECONDS
  QueueTTL,        \* QUEUE_TTL_SECONDS
  LastSubmission,  \* bound on the time of a submission
  MaxTime,         \* bound on the clock
  Handlers         \* concurrent POST /chat/finished requests

ASSUME QueueAssumption ==
  /\ PromptRequests \subseteq Requests
  /\ KeyedRequests \subseteq Requests
  /\ RetryBudget \in [RetryClasses -> Nat]
  /\ IsFiniteSet(RetryClasses)
  /\ ClaimLease \in Nat \ {0}
  /\ QueueTTL \in Nat \ {0}
  /\ LastSubmission \in Nat
  /\ MaxTime \in Nat

VARIABLES
  store,     \* the cached queue and the files
  observed,  \* browser-response.json: the last chatgpt_response observation
  now,       \* time.time(), from 1
  nextId,    \* the next operation number
  finishing, \* the POST /chat/finished requests in progress
  replies    \* what clients have been told about each operation

vars == <<store, observed, now, nextId, finishing, replies>>

Answer == [status : Terminal, text : Texts]

Reply ==
  [accepted : BOOLEAN,          \* a submitter was told the operation is queued
   granted  : BOOLEAN,          \* a controller was handed the operation
   answers  : SUBSET Answer]    \* the terminal results clients were told

Idle == [pc |-> "idle", op |-> 0, text |-> NoText, seen |-> NoText]

Request == {Idle} \cup
  [pc   : {"evidence", "timing", "chain", "complete", "recheck"},
   op   : Ops,
   text : Texts,           \* the response text the request goes on with
   seen : Texts]           \* the response text its reply will carry

TypeOK ==
  /\ store \in Store
  /\ observed \in [op : 0..MaxOps, text : Texts]
  /\ now \in 1..(MaxTime + 1)
  /\ nextId \in 1..(MaxOps + 1)
  /\ finishing \in [Handlers -> Request]
  /\ replies \in [Ops -> Reply]

Init ==
  /\ store = [cache     |-> [o \in Ops |-> Gone],
              disk      |-> [o \in Ops |-> Gone],
              responses |-> [o \in Ops |-> NoText],
              pruned    |-> NotPruned]
  /\ observed = [op |-> 0, text |-> NoText]
  /\ now = 1
  /\ nextId = 1
  /\ finishing = [h \in Handlers |-> Idle]
  /\ replies = [o \in Ops |-> [accepted |-> FALSE, granted |-> FALSE, answers |-> {}]]

-----------------------------------------------------------------------------
(* Helpers shared by the methods.                                          *)

cache == store.cache

IsPrompt(item) == item.request \in PromptRequests

Present(o) == cache[o].status # "absent"

(* Requests in progress die with the process.                              *)
Surviving(requests, stage) ==
  IF stage = Saved \/ IOErrors THEN requests ELSE [h \in Handlers |-> Idle]

(* Mutant: the answer does not wait for the save.                          *)
ToldEarly(o, stage, reply) == [replies EXCEPT ![o] = reply]

(* A method that answers only when its save completed.                     *)
Told(o, stage, reply) ==
  IF stage = Saved THEN [replies EXCEPT ![o] = reply] ELSE replies

(* What the replies of POST /queue and of a claim say.  A request that the *)
(* handler refuses as malformed changes nothing and is no step.            *)
Accepted(o) == [replies[o] EXCEPT !.accepted = TRUE]

Granted(o) == [replies[o] EXCEPT !.granted = TRUE]

(* The text of an answer is of interest when the operation completed.      *)
Answered(o, status, text) ==
  [replies[o] EXCEPT !.answers = @ \cup
     {[status |-> status, text |-> IF status = "completed" THEN text ELSE NoText]}]

(* Mutants of the sweep: a status the table does not know; a time to live  *)
(* that overtakes finished operations too; and one only for the unclaimed. *)
SweepItemCancels(item) ==
  IF item.status \in Active /\ now >= item.expiresAt
  THEN [item EXCEPT !.status = "cancelled"] ELSE item

SweepItemTerminal(item) ==
  IF item.status # "absent" /\ now >= item.expiresAt
  THEN [item EXCEPT !.status = "failed"] ELSE item

SweepItemQueuedOnly(item) ==
  IF item.status = "queued" /\ now >= item.expiresAt
  THEN [item EXCEPT !.status = "failed"] ELSE item

(* _sweep_queue_locked: time-to-live first, then the claim lease.          *)
SweepItem(item) ==
  IF item.status \in Active /\ now >= item.expiresAt
  THEN [item EXCEPT !.status = "failed"]
  ELSE IF /\ item.status \in {"claimed", "generating"}
          /\ item.claimedAt > 0
          /\ now - item.claimedAt >= ClaimLease
  THEN [item EXCEPT !.status = "queued", !.claimedAt = 0]
  ELSE item

Sweep(q) == [o \in Ops |-> SweepItem(q[o])]

(* The store after a sweep that saved what it changed, if anything.        *)
Swept ==
  IF Sweep(cache) = cache THEN store ELSE SaveQueue(store, Sweep(cache), Saved)

(* A sweep whose save does not finish ends the method that began it.       *)
SweepAborts(stage) ==
  /\ stage # Saved
  /\ Sweep(cache) # cache
  /\ store' = Attempt(store, Sweep(cache), stage)
  /\ finishing' = Surviving(finishing, stage)
  /\ UNCHANGED <<observed, now, nextId, replies>>

MarkClaimed(item) == [item EXCEPT !.status = "claimed", !.claimedAt = now]

Queued(q) == {o \in Ops : q[o].status = "queued"}

First(S) == CHOOSE o \in S : \A p \in S : o <= p

(* get_chained_operation                                                   *)
Chained(q, o) ==
  {n \in Ops : q[o].next = n /\ q[n].status = "claimed"}

GrantAll(told, S) ==
  [o \in Ops |-> IF o \in S THEN [told[o] EXCEPT !.granted = TRUE] ELSE told[o]]

(* An operation whose response is already recorded, in the item or in its  *)
(* terminal file, takes no other from a browser observation.               *)
HasResponse(o) ==
  \/ store.responses[o] # NoText
  \/ cache[o].available /\ cache[o].text # NoText

(* What an ack_only reply says of an operation leaves its response out.    *)
Shown(text, ackOnly) == IF ackOnly THEN NoText ELSE text

WithResponse(item, text) == [item EXCEPT !.text = text, !.available = TRUE]

-----------------------------------------------------------------------------
(* Submitters: POST /queue and GET /operation.                             *)

NewItem(r) ==
  [Gone EXCEPT !.status = "queued", !.request = r, !.expiresAt = now + QueueTTL]

(* Mutant: a claimed operation no longer counts as a duplicate.            *)
QueuedDuplicates(r) == {o \in Queued(cache) : cache[o].request = r}

ActiveDuplicates(r) == {o \in ActiveOps(cache) : cache[o].request = r}

(* queue_operation with a key an unfinished operation already has: that    *)
(* operation is returned, and nothing is saved.                            *)
QueueDuplicate(r) ==
  /\ r \in KeyedRequests
  /\ ActiveDuplicates(r) # {}
  /\ LET o == First(ActiveDuplicates(r)) IN replies' = [replies EXCEPT ![o] = Accepted(o)]
  /\ UNCHANGED <<store, observed, now, nextId, finishing>>

(* queue_operation otherwise.  Bounds: MaxOps operations, none submitted   *)
(* after LastSubmission.                                                   *)
QueueOperation(r, stage) ==
  /\ r \in KeyedRequests => ActiveDuplicates(r) = {}
  /\ nextId <= MaxOps
  /\ now <= LastSubmission
  /\ store' = Attempt(store, [cache EXCEPT ![nextId] = NewItem(r)], stage)
  /\ nextId' = nextId + 1
  /\ finishing' = Surviving(finishing, stage)
  /\ replies' = Told(nextId, stage, Accepted(nextId))
  /\ UNCHANGED <<observed, now>>

(* _repair_response_from_browser_observation applies.                      *)
Repairable(o) ==
  /\ IsPrompt(cache[o])
  /\ ~HasResponse(o)
  /\ observed.op = o
  /\ observed.text # NoText

(* get_operation with repair: an observed response not yet in the item is  *)
(* adopted and saved.  A terminal operation's result is returned.          *)
GetOperationRepaired(o, stage) ==
  /\ Present(o)
  /\ Repairable(o)
  /\ store' = Attempt(store, [cache EXCEPT ![o] = WithResponse(@, observed.text)], stage)
  /\ finishing' = Surviving(finishing, stage)
  /\ replies' = IF cache[o].status \in Terminal
                THEN Told(o, stage, Answered(o, cache[o].status, observed.text))
                ELSE replies
  /\ UNCHANGED <<observed, now, nextId>>

(* get_operation that has nothing to repair, and wait_for_operation, which *)
(* never repairs.  The reply carries the operation chained to this one.    *)
GetOperation(o, waiting) ==
  /\ Present(o)
  /\ waiting \/ ~Repairable(o)
  /\ replies' = LET told == IF cache[o].status \in Terminal
                            THEN [replies EXCEPT ![o] = Answered(o, cache[o].status, Hydrated(store, o))]
                            ELSE replies
                IN  GrantAll(told, Chained(cache, o))
  /\ UNCHANGED <<store, observed, now, nextId, finishing>>

OnlySweeps(stage) ==
  /\ stage = Saved
  /\ store' = Swept
  /\ UNCHANGED <<observed, now, nextId, finishing, replies>>

(* GET /status                                                             *)
GetStatus(stage) == SweepAborts(stage) \/ OnlySweeps(stage)

-----------------------------------------------------------------------------
(* Controllers: claims, heartbeats, observations and failures.  A          *)
(* controller speaks only of operations some controller was handed; one    *)
(* that lost its claim goes on speaking.                                   *)

(* The item is claimed and handed out if its save completes; the save      *)
(* before it, if the sweep made one, did complete.                         *)
ClaimFrom(st, o, stage) ==
  /\ store' = Attempt(st, [st.cache EXCEPT ![o] = MarkClaimed(@)], stage)
  /\ finishing' = Surviving(finishing, stage)
  /\ replies' = Told(o, stage, Granted(o))
  /\ UNCHANGED <<observed, now, nextId>>

(* claim_operation, POST /chat/claim.                                      *)
ClaimOperation(o, stage) ==
  \/ SweepAborts(stage)
  \/ o \in Queued(Swept.cache) /\ ClaimFrom(Swept, o, stage)
  \/ o \notin Queued(Swept.cache) /\ OnlySweeps(stage)

(* claim_next_operation, GET /next-operation: the oldest queued operation. *)
ClaimNextOperation(stage) ==
  \/ SweepAborts(stage)
  \/ \E st \in {Swept} : \E o \in Queued(st.cache) :
       o = First(Queued(st.cache)) /\ ClaimFrom(st, o, stage)
  \/ Queued(Swept.cache) = {} /\ OnlySweeps(stage)

(* An item changed and saved by a method that reports no terminal result.  *)
Update(o, item, stage) ==
  /\ store' = Attempt(store, [cache EXCEPT ![o] = item], stage)
  /\ finishing' = Surviving(finishing, stage)
  /\ UNCHANGED <<observed, now, nextId>>

(* heartbeat: it does not renew claimed_at.                                *)
Heartbeat(o, stage) ==
  /\ replies[o].granted
  /\ Present(o)
  /\ CanMove(cache[o].status, "generating")
  /\ Update(o, [cache[o] EXCEPT !.status = "generating"], stage)
  /\ UNCHANGED replies

(* persist_timing and append_recovery_event: fields left out of Item       *)
(* change, and the queue is saved.                                         *)
PersistMetadata(o, stage) ==
  /\ replies[o].granted
  /\ Present(o)
  /\ Update(o, cache[o], stage)
  /\ UNCHANGED replies

(* save_browser_observation of a chatgpt_response.  The response goes into *)
(* the item first; then, unless that save failed, browser-response.json is *)
(* rewritten, which may itself not finish (recorded is FALSE).             *)
SaveBrowserObservation(o, text, stage, recorded) ==
  LET adopted == /\ Present(o)
                 /\ text # NoText
                 /\ IsPrompt(cache[o])
                 /\ ~HasResponse(o)
      reached == IF recorded THEN stage ELSE Replaced
  IN  /\ replies[o].granted
      /\ stage = Saved \/ (adopted /\ ~recorded)
      /\ LET st == IF adopted
                   THEN Attempt(store, [cache EXCEPT ![o] = WithResponse(@, text)], stage)
                   ELSE store
         IN  store' = IF recorded \/ IOErrors THEN st ELSE Restart(st)
      /\ observed' = IF recorded THEN [op |-> o, text |-> text] ELSE observed
      /\ finishing' = Surviving(finishing, reached)
      /\ UNCHANGED <<now, nextId, replies>>

(* fail_operation with an error that is not transient.                     *)
FailOperation(o, stage) ==
  /\ replies[o].granted
  /\ Present(o)
  /\ CanMove(cache[o].status, "failed")
  /\ Update(o, [cache[o] EXCEPT !.status = "failed"], stage)
  /\ replies' = Told(o, stage, Answered(o, "failed", cache[o].text))

(* _retry_operation, fail_operation with a transient error of class c: a   *)
(* prompt whose response is already in the item is completed, an exhausted *)
(* budget fails the operation, and otherwise it is queued again.           *)
ResponseInHand(item) == IsPrompt(item) /\ item.available /\ item.text # NoText

(* Mutant: a response in hand does not stop the retry.                     *)
RetryTargetBlind(item, c) ==
  IF item.retries[c] >= RetryBudget[c] THEN "failed" ELSE "queued"

RetryTarget(item, c) ==
  IF ResponseInHand(item) THEN "completed"
  ELSE IF item.retries[c] >= RetryBudget[c] THEN "failed"
  ELSE "queued"

(* Mutant: the retry is not counted.                                       *)
RetriedUncounted(item, c) ==
  IF RetryTarget(item, c) = "queued"
  THEN [item EXCEPT !.status = "queued", !.claimedAt = 0]
  ELSE [item EXCEPT !.status = RetryTarget(item, c)]

Retried(item, c) ==
  IF RetryTarget(item, c) = "queued"
  THEN [item EXCEPT !.status = "queued", !.claimedAt = 0, !.retries[c] = @ + 1]
  ELSE [item EXCEPT !.status = RetryTarget(item, c)]

RetryOperation(o, c, stage) ==
  /\ replies[o].granted
  /\ Present(o)
  /\ CanMove(cache[o].status, RetryTarget(cache[o], c))
  /\ Update(o, Retried(cache[o], c), stage)
  /\ replies' = IF Retried(cache[o], c).status \in Terminal
                THEN Told(o, stage, Answered(o, Retried(cache[o], c).status, cache[o].text))
                ELSE replies

-----------------------------------------------------------------------------
(* POST /chat/finished, one step for each time it takes the lock.          *)

At(h, pc) == finishing[h].pc = pc

Goto(h, request) == [finishing EXCEPT ![h] = request]

Done(h) == Goto(h, Idle)

(* The handler reads the operation.  One that is already completed makes   *)
(* the request a duplicate; a prompt that has no response, neither in the  *)
(* request nor in the item, is refused.                                    *)
FinishedRead(h, o, text) ==
  LET item      == cache[o]
      seen      == Hydrated(store, o)
      effective == IF text = NoText /\ item.available THEN seen ELSE text
  IN  /\ At(h, "idle")
      /\ replies[o].granted
      /\ Present(o)
      /\ IF item.status = "completed"
         THEN \E pc \in IF IsPrompt(item) /\ text # NoText
                        THEN {"evidence"} ELSE {"timing", "chain"} :
                finishing' = Goto(h, [pc |-> pc, op |-> o, text |-> text, seen |-> seen])
         ELSE /\ IsPrompt(item) => effective # NoText
              /\ finishing' = Goto(h, [pc |-> "complete", op |-> o,
                                       text |-> effective, seen |-> NoText])
      /\ UNCHANGED <<store, observed, now, nextId, replies>>

(* The recorded response of an operation, its file before its item; and    *)
(* the mutant that overlooks both.                                         *)
NoRecordedResponse(o) == NoText

RecordedResponse(o) ==
  IF store.responses[o] # NoText THEN store.responses[o] ELSE cache[o].text

(* persist_response_evidence: the response already recorded stands; one    *)
(* that was missing is added and saved.                                    *)
FinishedEvidence(h, stage) ==
  LET o        == finishing[h].op
      recorded == RecordedResponse(o)
      adds     == Present(o) /\ ~(cache[o].available /\ recorded # NoText)
      onward   == IF adds THEN finishing[h].text
                  ELSE IF Present(o) THEN recorded ELSE finishing[h].seen
  IN  /\ At(h, "evidence")
      /\ adds \/ stage = Saved
      /\ store' = CASE adds -> Attempt(store, [cache EXCEPT ![o] = WithResponse(@, finishing[h].text)], stage)
                    [] ~adds /\ Present(o) -> [store EXCEPT !.cache[o].text = recorded]
                    [] OTHER -> store
      /\ \E pc \in {"timing", "chain"} :
           finishing' = IF stage = Saved
                        THEN Goto(h, [finishing[h] EXCEPT !.pc = pc, !.seen = onward])
                        ELSE Surviving(Done(h), stage)
      /\ UNCHANGED <<observed, now, nextId, replies>>

(* persist_timing of a duplicate that carries timing: its reply then holds *)
(* the item as it is in the cache, without a stored response.              *)
FinishedTiming(h, stage) ==
  LET o == finishing[h].op
  IN  /\ At(h, "timing")
      /\ Present(o) \/ stage = Saved
      /\ store' = IF Present(o) THEN Attempt(store, cache, stage) ELSE store
      /\ finishing' = IF stage = Saved
                      THEN Goto(h, [finishing[h] EXCEPT !.pc = "chain",
                                       !.seen = IF Present(o) THEN cache[o].text ELSE @])
                      ELSE Surviving(Done(h), stage)
      /\ UNCHANGED <<observed, now, nextId, replies>>

(* get_chained_operation, and the reply to a duplicate.                    *)
FinishedChain(h, ackOnly) ==
  LET o == finishing[h].op
  IN  /\ At(h, "chain")
      /\ finishing' = Done(h)
      /\ replies' = GrantAll([replies EXCEPT ![o] = Answered(o, "completed", Shown(finishing[h].seen, ackOnly))],
                             Chained(cache, o))
      /\ UNCHANGED <<store, observed, now, nextId>>

(* complete_operation_and_claim_next: sweep, complete, claim the oldest    *)
(* queued operation, all in one save.  Only an ack_only reply hands the    *)
(* claimed operation over; otherwise it waits for its lease to run out.    *)
Completed(item, text) ==
  IF text = NoText
  THEN [item EXCEPT !.status = "completed"]
  ELSE [WithResponse(item, text) EXCEPT !.status = "completed"]

(* Mutant: the successor is named but left queued.                         *)
CompleteAndNameNext(q, o, text) ==
  LET waiting == Queued(q) \ {o}
      done    == [q EXCEPT ![o] = Completed(@, text)]
  IN  IF waiting = {} THEN done ELSE [done EXCEPT ![o].next = First(waiting)]

CompleteAndClaimNext(q, o, text) ==
  LET waiting == Queued(q) \ {o}
      done    == [q EXCEPT ![o] = Completed(@, text)]
  IN  IF waiting = {} THEN done
      ELSE [done EXCEPT ![First(waiting)] = MarkClaimed(@), ![o].next = First(waiting)]

FinishedCompletes(h, stage, ackOnly) ==
  LET o    == finishing[h].op
      done == CompleteAndClaimNext(Swept.cache, o, finishing[h].text)
  IN  /\ CanMove(Swept.cache[o].status, "completed")
      /\ store' = Attempt(Swept, done, stage)
      /\ finishing' = Surviving(Done(h), stage)
      /\ replies' = IF stage = Saved
                    THEN GrantAll([replies EXCEPT ![o] = Answered(o, "completed", Shown(done[o].text, ackOnly))],
                                  {n \in Queued(Swept.cache) : ackOnly /\ n = done[o].next})
                    ELSE replies

(* The operation cannot be completed: it is gone (404), it was completed   *)
(* meanwhile, or it was taken away and the handler looks at it again.      *)
FinishedTooLate(h, stage, ackOnly) ==
  LET o == finishing[h].op
      late == Swept.cache[o]
  IN  /\ stage = Saved
      /\ store' = Swept
      /\ \/ /\ late.status = "absent"
            /\ finishing' = Done(h)
            /\ UNCHANGED replies
         \/ /\ late.status = "completed"
            /\ finishing' = Done(h)
            /\ replies' = GrantAll([replies EXCEPT ![o] = Answered(o, "completed", Shown(Hydrated(Swept, o), ackOnly))],
                                   {n \in Chained(Swept.cache, o) : ackOnly})
         \/ /\ late.status \in {"queued", "failed"}
            /\ finishing' = Goto(h, [finishing[h] EXCEPT !.pc = "recheck"])
            /\ UNCHANGED replies

FinishedSweepAborts(h, stage) ==
  /\ stage # Saved
  /\ Sweep(cache) # cache
  /\ store' = Attempt(store, Sweep(cache), stage)
  /\ finishing' = Surviving(Done(h), stage)
  /\ UNCHANGED replies

FinishedComplete(h, stage, ackOnly) ==
  /\ At(h, "complete")
  /\ \/ FinishedSweepAborts(h, stage)
     \/ FinishedCompletes(h, stage, ackOnly)
     \/ FinishedTooLate(h, stage, ackOnly)
  /\ UNCHANGED <<observed, now, nextId>>

(* After InvalidOperationTransition: get_operation, with repair.  Another  *)
(* request may have completed the operation meanwhile, and then the reply  *)
(* is that result, unless it was to be ack_only: that reply needs          *)
(* chained_operation, which was never assigned, and the request fails.     *)
FinishedRecheck(h, stage, ackOnly) ==
  LET o       == finishing[h].op
      repairs == Present(o) /\ Repairable(o)
      text    == IF repairs THEN observed.text ELSE Hydrated(store, o)
  IN  /\ At(h, "recheck")
      /\ repairs \/ stage = Saved
      /\ store' = IF repairs
                  THEN Attempt(store, [cache EXCEPT ![o] = WithResponse(@, text)], stage)
                  ELSE store
      /\ finishing' = Surviving(Done(h), stage)
      /\ replies' = IF cache[o].status = "completed" /\ ~ackOnly
                    THEN Told(o, stage, Answered(o, "completed", text))
                    ELSE replies
      /\ UNCHANGED <<observed, now, nextId>>

-----------------------------------------------------------------------------
(* The process dies between two requests and is started again.             *)
Crash ==
  /\ store' = Restart(store)
  /\ finishing' = [h \in Handlers |-> Idle]
  /\ UNCHANGED <<observed, now, nextId, replies>>

Tick ==
  /\ now <= MaxTime
  /\ now' = now + 1
  /\ UNCHANGED <<store, observed, nextId, finishing, replies>>

Finished(h) ==
  \/ \E o \in Ops, text \in Texts : FinishedRead(h, o, text)
  \/ \E stage \in Stages :
       \/ FinishedEvidence(h, stage)
       \/ FinishedTiming(h, stage)
       \/ \E ackOnly \in BOOLEAN :
            FinishedComplete(h, stage, ackOnly) \/ FinishedRecheck(h, stage, ackOnly)
  \/ \E ackOnly \in BOOLEAN : FinishedChain(h, ackOnly)

Next ==
  \/ \E r \in Requests : QueueDuplicate(r)
  \/ \E r \in Requests, stage \in Stages : QueueOperation(r, stage)
  \/ \E o \in Ops, waiting \in BOOLEAN : GetOperation(o, waiting)
  \/ \E stage \in Stages : GetStatus(stage) \/ ClaimNextOperation(stage)
  \/ \E o \in Ops, stage \in Stages :
       \/ GetOperationRepaired(o, stage)
       \/ ClaimOperation(o, stage)
       \/ Heartbeat(o, stage)
       \/ PersistMetadata(o, stage)
       \/ FailOperation(o, stage)
       \/ \E text \in Texts, recorded \in BOOLEAN :
            SaveBrowserObservation(o, text, stage, recorded)
       \/ \E c \in RetryClasses : RetryOperation(o, c, stage)
  \/ \E h \in Handlers : Finished(h)
  \/ Crash
  \/ Tick

Spec == Init /\ [][Next]_vars

(* The extension polls GET /next-operation for as long as it runs, time    *)
(* passes, and a save that is tried often enough completes.                *)
Fairness == WF_vars(Tick) /\ WF_vars(ClaimNextOperation(Saved))

FairSpec == Spec /\ Fairness

-----------------------------------------------------------------------------
(* Properties.  All but CompletedPromptHasResponse are about a bridge whose *)
(* writes fail only with the process (IOErrors = FALSE).                   *)

disk == store.disk

(* Enough younger operations on disk are terminal for o to be evicted.     *)
Crowded(o) ==
  Cardinality({p \in TerminalOps(disk) : p > o}) >= MaxTerminal

(* Once a submitter has been told its operation is queued, or anyone that  *)
(* it completed or failed, a restart of the bridge does not take it back:  *)
(* queue.json says the same, unless retention has dropped the operation in *)
(* favour of MaxTerminal younger terminal ones.                            *)
AnsweredIsDurable ==
  \A o \in Ops :
    /\ replies[o].accepted => disk[o].status # "absent" \/ Crowded(o)
    /\ \A a \in replies[o].answers :
         disk[o].status = a.status \/ (disk[o].status = "absent" /\ Crowded(o))

(* Whatever write the process died in, a prompt that queue.json calls      *)
(* completed has its response on disk: the response is written before the  *)
(* status, and pruning never takes it.                                     *)
CompletedPromptHasResponse ==
  \A o \in Ops :
    disk[o].status = "completed" /\ IsPrompt(disk[o]) =>
      disk[o].available /\ store.responses[o] # NoText

(* No two readers of a completed operation are given different responses,  *)
(* however acknowledgements, duplicates and observations interleave.       *)
OneResponsePerOperation ==
  \A o \in Ops : \A a, b \in replies[o].answers :
    a.text # NoText /\ b.text # NoText => a.text = b.text

(* Submissions under one idempotency key share one unfinished operation.   *)
OneActivePerKey ==
  \A r \in KeyedRequests :
    Cardinality({o \in ActiveOps(cache) : cache[o].request = r}) <= 1

Held(item) == item.status \in {"claimed", "generating"}

LosesClaim(o) ==
  /\ Held(disk[o])
  /\ disk'[o].status \in Active
  /\ disk'[o].claimedAt # disk[o].claimedAt

(* A controller's claim is taken away only when its lease has run out, or  *)
(* by a reported failure that used up a retry of an operation with no      *)
(* response in hand; in particular never by a crash.                       *)
ClaimIsKeptForItsLease ==
  [][\A o \in Ops :
       LosesClaim(o) =>
         \/ now - disk[o].claimedAt >= ClaimLease
         \/ /\ ~ResponseInHand(disk[o])
            /\ \E c \in RetryClasses :
                 /\ disk[o].retries[c] < RetryBudget[c]
                 /\ disk'[o].retries[c] = disk[o].retries[c] + 1]_vars

ClaimedAnew(o) ==
  /\ disk'[o].status = "claimed"
  /\ disk[o].status = "claimed" => disk'[o].claimedAt # disk[o].claimedAt

(* One save claims at most one operation, none past its time to live, and  *)
(* when it completes an operation and names a successor, that successor is *)
(* claimed in the same write of queue.json.                                *)
HandoffIsAtomic ==
  [][/\ \A o, p \in Ops : ClaimedAnew(o) /\ ClaimedAnew(p) => o = p
     /\ \A o \in Ops : ClaimedAnew(o) => now < disk'[o].expiresAt
     /\ \A o \in Ops : disk'[o].next # disk[o].next /\ disk'[o].next # 0 =>
          disk'[o].status = "completed" /\ ClaimedAnew(disk'[o].next)]_vars

(* Every accepted operation ends, whatever controllers do or fail to do.   *)
EveryOperationEnds ==
  \A o \in Ops :
    replies[o].accepted ~> disk[o].status \in Terminal \cup {"absent"}

(* The durable part of the bridge as the abstract queue sees it.           *)
Promise == INSTANCE DurableQueue WITH
  MaxResults <- MaxTerminal,
  state <- [o \in Ops |-> IF disk[o].status \in Active THEN "pending" ELSE disk[o].status],
  fresh <- nextId,
  told  <- [o \in Ops |-> {a.status : a \in replies[o].answers}]

(* The bridge implements DurableQueue: every step of it, crashes included, *)
(* is a step of the promise or leaves it unchanged.                        *)
KeepsPromise == Promise!Spec

=============================================================================
