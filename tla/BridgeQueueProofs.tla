------------------------- MODULE BridgeQueueProofs --------------------------
(***************************************************************************)
(* Theorems about the bridge queue for every value of its constants, with  *)
(* the lemmas they rest on: its type, what a save keeps of the response    *)
(* files, and that no completed prompt loses its response.                 *)
(***************************************************************************)
EXTENDS BridgeQueue, WellFoundedInduction, FiniteSetTheorems, TLAPS

(* Every nonempty set of numbers has a first one: it is what the code's    *)
(* scan of the queue stops at.                                             *)
LEMMA FirstExists ==
  ASSUME NEW S, S \subseteq Nat, S # {}
  PROVE  First(S) \in S /\ \A p \in S : First(S) <= p
<1> DEFINE R == {ss \in Nat \X Nat : ss[1] < ss[2]}
<1>1. IsWellFoundedOn(R, Nat)
  BY NatLessThanWellFounded DEF OpToRel
<1> HIDE DEF R
<1>2. PICK x \in S : \A y \in S : <<y, x>> \notin R
  BY <1>1, WFMin
<1>3. \A y \in S : ~(y < x)
  BY <1>2 DEF R
<1>4. \A y \in S : x <= y
  BY <1>3
<1>5. QED
  BY <1>4 DEF First

LEMMA GoneType == Gone \in Item
  BY StoreAssumption DEF Gone, Item, Texts, Statuses, Active, Terminal

(* A save, however far it gets, leaves a well-formed store.                *)
LEMMA SaveQueueType ==
  ASSUME NEW st \in Store, NEW q \in Queue, NEW stage \in Stages
  PROVE  SaveQueue(st, q, stage) \in Store
<1>1. Compact(q) \in Queue
  BY DEF Compact, Queue, Item, Texts
<1>2. ASSUME NEW r \in Queue PROVE Retain(r) \in Queue
  BY <1>2, GoneType DEF Retain, Queue
<1>3. WriteResponses(st.responses, q, stage) \in [Ops -> Texts]
  BY DEF WriteResponses, Queue, Item, Store
<1>4. TerminalOps(Retain(Compact(q))) \in SUBSET (0..MaxOps)
  BY StoreAssumption DEF TerminalOps, Ops
<1>5. ASSUME NEW f \in [Ops -> Texts], NEW S, NEW T PROVE Prune(f, S, T) \in [Ops -> Texts]
  BY <1>5 DEF Prune, Texts
<1> DEFINE final == Retain(Compact(q))
           written == WriteResponses(st.responses, q, stage)
           retained == TerminalOps(final)
           kept == Prune(written, st.pruned, retained)
<1>6. /\ final \in Queue /\ Retain(q) \in Queue /\ written \in [Ops -> Texts]
      /\ retained \in SUBSET (0..MaxOps) /\ kept \in [Ops -> Texts]
  BY <1>1, <1>2, <1>3, <1>4, <1>5
<1>7. SaveQueue(st, q, stage) =
        IF stage < Replaced
        THEN [st EXCEPT !.cache = IF Inline(q) = {} THEN Retain(q) ELSE q,
                        !.responses = written]
        ELSE IF stage = Replaced
        THEN [st EXCEPT !.cache = final, !.disk = final, !.responses = written]
        ELSE [cache |-> final, disk |-> final, responses |-> kept, pruned |-> retained]
  BY DEF SaveQueue
<1> HIDE DEF final, written, retained, kept
<1>8. CASE stage < Replaced
  <2> DEFINE kind == IF Inline(q) = {} THEN Retain(q) ELSE q
  <2>1. kind \in Queue
    BY <1>6
  <2>2. SaveQueue(st, q, stage) = [st EXCEPT !.cache = kind, !.responses = written]
    BY <1>7, <1>8
  <2> HIDE DEF kind
  <2>3. QED
    BY <1>6, <2>1, <2>2 DEF Store
<1>9. CASE ~(stage < Replaced) /\ stage = Replaced
  BY <1>6, <1>7, <1>9 DEF Store
<1>10. CASE ~(stage < Replaced) /\ stage # Replaced
  BY <1>6, <1>7, <1>10 DEF Store
<1>11. QED
  BY <1>8, <1>9, <1>10

LEMMA RestartType ==
  ASSUME NEW st \in Store
  PROVE  Restart(st) \in Store
<1>1. NotPruned \in SUBSET (0..MaxOps)
  BY StoreAssumption DEF NotPruned
<1>2. QED
  BY <1>1 DEF Restart, Store

LEMMA AttemptType ==
  ASSUME NEW st \in Store, NEW q \in Queue, NEW stage \in Stages
  PROVE  Attempt(st, q, stage) \in Store
  BY SaveQueueType, RestartType DEF Attempt

LEMMA SweepType ==
  ASSUME TypeOK, NEW q \in Queue
  PROVE  Sweep(q) \in Queue
<1>1. ASSUME NEW item \in Item PROVE SweepItem(item) \in Item
  BY <1>1 DEF SweepItem, Item, Statuses, Active, Terminal
<1>2. QED
  BY <1>1 DEF Sweep, Queue

LEMMA SweptType ==
  ASSUME TypeOK
  PROVE  Swept \in Store /\ cache \in Queue /\ Swept.cache \in Queue
<1>1. cache \in Queue /\ store \in Store
  BY DEF TypeOK, Store, cache
<1>2. Saved \in Stages
  BY DEF Stages
<1>3. QED
  BY <1>1, <1>2, SweepType, SaveQueueType DEF Swept, Store

-----------------------------------------------------------------------------
(* Typing of the pieces the actions are made of.                           *)

LEMMA IdleType == Idle \in Request
  BY DEF Request

LEMMA SurvivingType ==
  ASSUME NEW f \in [Handlers -> Request], NEW stage
  PROVE  Surviving(f, stage) \in [Handlers -> Request]
  BY IdleType DEF Surviving

LEMMA RepliesType ==
  ASSUME TypeOK, NEW o \in Ops, NEW stage
  PROVE  /\ Accepted(o) \in Reply /\ Granted(o) \in Reply
         /\ \A status \in Terminal, text \in Texts : Answered(o, status, text) \in Reply
         /\ \A reply \in Reply : Told(o, stage, reply) \in [Ops -> Reply]
         /\ \A S : \A told \in [Ops -> Reply] : GrantAll(told, S) \in [Ops -> Reply]
<1>1. replies \in [Ops -> Reply]
  BY DEF TypeOK
<1>2. ASSUME NEW status \in Terminal, NEW text \in Texts
      PROVE  Answered(o, status, text) \in Reply
  <2> DEFINE told == [status |-> status,
                      text |-> IF status = "completed" THEN text ELSE NoText]
  <2>1. told \in Answer
    BY DEF Answer, Texts
  <2>2. Answered(o, status, text) = [replies[o] EXCEPT !.answers = @ \cup {told}]
    BY DEF Answered
  <2> HIDE DEF told
  <2>3. QED
    BY <1>1, <2>1, <2>2 DEF Reply
<1>3. Accepted(o) \in Reply /\ Granted(o) \in Reply
  BY <1>1 DEF Accepted, Granted, Reply
<1>4. \A reply \in Reply : Told(o, stage, reply) \in [Ops -> Reply]
  BY <1>1 DEF Told
<1>5. \A S : \A told \in [Ops -> Reply] : GrantAll(told, S) \in [Ops -> Reply]
  BY DEF GrantAll, Reply
<1>6. QED
  BY <1>2, <1>3, <1>4, <1>5

LEMMA ItemTypes ==
  ASSUME TypeOK, NEW item \in Item
  PROVE  /\ MarkClaimed(item) \in Item
         /\ \A text \in Texts : WithResponse(item, text) \in Item
         /\ \A text \in Texts : Completed(item, text) \in Item
         /\ [item EXCEPT !.status = "generating"] \in Item
         /\ [item EXCEPT !.status = "failed"] \in Item
         /\ \A n \in 0..MaxOps : [item EXCEPT !.next = n] \in Item
<1>1. now \in Nat
  BY QueueAssumption DEF TypeOK
<1>2. QED
  BY <1>1 DEF MarkClaimed, WithResponse, Completed, Item, Statuses, Active, Terminal

LEMMA UpdateType ==
  ASSUME NEW st \in Store, NEW o \in Ops, NEW item \in Item, NEW stage \in Stages
  PROVE  Attempt(st, [st.cache EXCEPT ![o] = item], stage) \in Store
<1>1. [st.cache EXCEPT ![o] = item] \in Queue
  BY DEF Store, Queue
<1>2. QED
  BY <1>1, AttemptType

LEMMA HydratedType ==
  ASSUME NEW st \in Store, NEW o \in Ops
  PROVE  Hydrated(st, o) \in Texts
  BY DEF Hydrated, Store, Queue, Item

LEMMA NewItemType ==
  ASSUME TypeOK, NEW r \in Requests
  PROVE  NewItem(r) \in Item
<1>1. now + QueueTTL \in Nat
  BY QueueAssumption DEF TypeOK
<1>2. QED
  BY <1>1, GoneType DEF NewItem, Item, Statuses, Active

LEMMA RetriedType ==
  ASSUME NEW item \in Item, NEW c \in RetryClasses
  PROVE  Retried(item, c) \in Item
<1>1. RetryTarget(item, c) \in Statuses
  BY DEF RetryTarget, Statuses, Active, Terminal
<1>2. item.retries[c] + 1 \in Nat /\ [item.retries EXCEPT ![c] = @ + 1] \in [RetryClasses -> Nat]
  BY DEF Item
<1>3. QED
  BY <1>1, <1>2 DEF Retried, Item, Statuses, Active

LEMMA CompleteType ==
  ASSUME TypeOK, NEW q \in Queue, NEW o \in Ops, NEW text \in Texts
  PROVE  CompleteAndClaimNext(q, o, text) \in Queue
<1> DEFINE waiting == Queued(q) \ {o}
           done    == [q EXCEPT ![o] = Completed(@, text)]
<1>1. q[o] \in Item /\ Completed(q[o], text) \in Item
  BY ItemTypes DEF Queue
<1>2. done \in Queue
  BY <1>1 DEF Queue
<1>3. CASE waiting = {}
  BY <1>2, <1>3 DEF CompleteAndClaimNext
<1>4. CASE waiting # {}
  <2>1. waiting \subseteq Nat /\ waiting \subseteq Ops
    BY DEF Queued, Ops
  <2>2. First(waiting) \in Ops /\ First(waiting) \in 0..MaxOps /\ First(waiting) # o
    BY <1>4, <2>1, FirstExists DEF Ops
  <2> DEFINE n == First(waiting)
  <2>3. CompleteAndClaimNext(q, o, text) =
          [done EXCEPT ![n] = MarkClaimed(@), ![o].next = n]
    BY <1>4 DEF CompleteAndClaimNext
  <2> HIDE DEF n, done, waiting
  <2>4. MarkClaimed(done[n]) \in Item /\ [done[o] EXCEPT !.next = n] \in Item
    BY <1>2, <2>2, ItemTypes DEF Queue, n
  <2>5. QED
    BY <1>2, <2>2, <2>3, <2>4 DEF Queue, n
<1>5. QED
  BY <1>3, <1>4

-----------------------------------------------------------------------------
(* Every action keeps the type invariant.                                  *)

LEMMA SweepAbortsType ==
  ASSUME TypeOK, NEW stage \in Stages, SweepAborts(stage)
  PROVE  TypeOK'
<1>1. store' \in Store
  BY SweptType, SweepType, AttemptType DEF SweepAborts, TypeOK
<1>2. finishing' \in [Handlers -> Request]
  BY SurvivingType DEF SweepAborts, TypeOK
<1>3. QED
  BY <1>1, <1>2 DEF SweepAborts, TypeOK

LEMMA OnlySweepsType ==
  ASSUME TypeOK, NEW stage \in Stages, OnlySweeps(stage)
  PROVE  TypeOK'
  BY SweptType DEF OnlySweeps, TypeOK

LEMMA UpdateActionType ==
  ASSUME TypeOK, NEW o \in Ops, NEW item \in Item, NEW stage \in Stages,
         Update(o, item, stage), replies' \in [Ops -> Reply]
  PROVE  TypeOK'
<1>1. store' \in Store
  BY SweptType, UpdateType DEF Update, TypeOK, cache
<1>2. finishing' \in [Handlers -> Request]
  BY SurvivingType DEF Update, TypeOK
<1>3. QED
  BY <1>1, <1>2 DEF Update, TypeOK

LEMMA ClaimFromType ==
  ASSUME TypeOK, NEW o \in Ops, NEW stage \in Stages, ClaimFrom(Swept, o, stage)
  PROVE  TypeOK'
<1>1. MarkClaimed(Swept.cache[o]) \in Item
  BY SweptType, ItemTypes DEF Queue
<1>2. store' = Attempt(Swept, [Swept.cache EXCEPT ![o] = MarkClaimed(Swept.cache[o])], stage)
  BY DEF ClaimFrom
<1>3. store' \in Store
  BY <1>1, <1>2, SweptType, UpdateType
<1>4. finishing' \in [Handlers -> Request] /\ replies' \in [Ops -> Reply]
  BY SurvivingType, RepliesType DEF ClaimFrom, TypeOK
<1>5. QED
  BY <1>3, <1>4 DEF ClaimFrom, TypeOK

LEMMA QueuedFirst ==
  ASSUME NEW q, Queued(q) # {}
  PROVE  First(Queued(q)) \in Queued(q) /\ First(Queued(q)) \in Ops
<1>1. Queued(q) \subseteq Nat /\ Queued(q) \subseteq Ops
  BY DEF Queued, Ops
<1>2. QED
  BY <1>1, FirstExists

LEMMA QueueDuplicateType ==
  ASSUME TypeOK, NEW r \in Requests, QueueDuplicate(r)
  PROVE  TypeOK'
<1> DEFINE d == First(ActiveDuplicates(r))
<1>1. d \in Ops
  <2>1. ActiveDuplicates(r) \subseteq Nat /\ ActiveDuplicates(r) \subseteq Ops
    BY DEF ActiveDuplicates, ActiveOps, Ops
  <2>2. QED
    BY <2>1, FirstExists DEF QueueDuplicate
<1>2. replies' = [replies EXCEPT ![d] = Accepted(d)]
  BY DEF QueueDuplicate
<1> HIDE DEF d
<1>3. replies' \in [Ops -> Reply]
  BY <1>1, <1>2, RepliesType DEF TypeOK
<1>4. QED
  BY <1>3 DEF QueueDuplicate, TypeOK

LEMMA QueueOperationType ==
  ASSUME TypeOK, NEW r \in Requests, NEW stage \in Stages, QueueOperation(r, stage)
  PROVE  TypeOK'
<1>1. nextId \in Ops /\ nextId' \in 1..(MaxOps + 1)
  BY StoreAssumption DEF QueueOperation, TypeOK, Ops
<1>2. store' \in Store
  BY <1>1, NewItemType, UpdateType DEF QueueOperation, TypeOK, cache
<1>3. finishing' \in [Handlers -> Request] /\ replies' \in [Ops -> Reply]
  BY <1>1, SurvivingType, RepliesType DEF QueueOperation, TypeOK
<1>4. QED
  BY <1>1, <1>2, <1>3 DEF QueueOperation, TypeOK

LEMMA GetOperationType ==
  ASSUME TypeOK, NEW o \in Ops, NEW waiting \in BOOLEAN, GetOperation(o, waiting)
  PROVE  TypeOK'
<1> DEFINE told == IF cache[o].status \in Terminal
                   THEN [replies EXCEPT ![o] = Answered(o, cache[o].status, Hydrated(store, o))]
                   ELSE replies
<1>1. told \in [Ops -> Reply]
  BY HydratedType, RepliesType DEF TypeOK
<1>2. replies' = GrantAll(told, Chained(cache, o))
  BY DEF GetOperation
<1> HIDE DEF told
<1>3. replies' \in [Ops -> Reply]
  BY <1>1, <1>2, RepliesType
<1>4. QED
  BY <1>3 DEF GetOperation, TypeOK

LEMMA GetOperationRepairedType ==
  ASSUME TypeOK, NEW o \in Ops, NEW stage \in Stages, GetOperationRepaired(o, stage)
  PROVE  TypeOK'
<1>1. cache[o] \in Item /\ observed.text \in Texts
  BY SweptType DEF Queue, TypeOK
<1>2. store' \in Store
  BY <1>1, ItemTypes, UpdateType DEF GetOperationRepaired, TypeOK, cache
<1>3. finishing' \in [Handlers -> Request]
  BY SurvivingType DEF GetOperationRepaired, TypeOK
<1>4. replies' \in [Ops -> Reply]
  BY <1>1, RepliesType DEF GetOperationRepaired, TypeOK
<1>5. QED
  BY <1>2, <1>3, <1>4 DEF GetOperationRepaired, TypeOK

LEMMA ClaimOperationType ==
  ASSUME TypeOK, NEW o \in Ops, NEW stage \in Stages, ClaimOperation(o, stage)
  PROVE  TypeOK'
  BY SweepAbortsType, ClaimFromType, OnlySweepsType DEF ClaimOperation

LEMMA PollType ==
  ASSUME TypeOK, NEW stage \in Stages, GetStatus(stage) \/ ClaimNextOperation(stage)
  PROVE  TypeOK'
<1>1. ASSUME NEW p \in Ops, ClaimFrom(Swept, p, stage) PROVE TypeOK'
  BY <1>1, ClaimFromType
<1>2. CASE \E p \in Queued(Swept.cache) : ClaimFrom(Swept, p, stage)
  BY <1>1, <1>2 DEF Queued
<1>3. QED
  BY <1>2, SweepAbortsType, OnlySweepsType DEF GetStatus, ClaimNextOperation

LEMMA ReportType ==
  ASSUME TypeOK, NEW o \in Ops, NEW stage \in Stages,
         Heartbeat(o, stage) \/ PersistMetadata(o, stage) \/ FailOperation(o, stage)
  PROVE  TypeOK'
<1>1. cache[o] \in Item /\ cache[o].text \in Texts /\ replies \in [Ops -> Reply]
  BY SweptType DEF Queue, Item, TypeOK
<1>2. CASE Heartbeat(o, stage)
  BY <1>1, <1>2, ItemTypes, UpdateActionType DEF Heartbeat
<1>3. CASE PersistMetadata(o, stage)
  BY <1>1, <1>3, UpdateActionType DEF PersistMetadata
<1>4. CASE FailOperation(o, stage)
  <2>1. replies' \in [Ops -> Reply]
    BY <1>1, <1>4, RepliesType DEF FailOperation, Terminal
  <2>2. QED
    BY <1>1, <1>4, <2>1, ItemTypes, UpdateActionType DEF FailOperation
<1>5. QED
  BY <1>2, <1>3, <1>4

LEMMA RetryOperationType ==
  ASSUME TypeOK, NEW o \in Ops, NEW c \in RetryClasses, NEW stage \in Stages,
         RetryOperation(o, c, stage)
  PROVE  TypeOK'
<1>1. cache[o] \in Item /\ cache[o].text \in Texts /\ replies \in [Ops -> Reply]
  BY SweptType DEF Queue, Item, TypeOK
<1>2. replies' \in [Ops -> Reply]
  BY <1>1, RepliesType DEF RetryOperation
<1>3. QED
  BY <1>1, <1>2, RetriedType, UpdateActionType DEF RetryOperation

LEMMA ObservationType ==
  ASSUME TypeOK, NEW o \in Ops, NEW text \in Texts, NEW stage \in Stages,
         NEW recorded \in BOOLEAN, SaveBrowserObservation(o, text, stage, recorded)
  PROVE  TypeOK'
<1>1. cache[o] \in Item /\ store \in Store
  BY SweptType DEF Queue, TypeOK
<1>2. Attempt(store, [cache EXCEPT ![o] = WithResponse(cache[o], text)], stage) \in Store
  BY <1>1, ItemTypes, UpdateType DEF cache
<1>3. store' \in Store
  BY <1>1, <1>2, RestartType DEF SaveBrowserObservation
<1>4. observed' \in [op : 0..MaxOps, text : Texts]
  BY DEF SaveBrowserObservation, TypeOK, Ops
<1>5. finishing' \in [Handlers -> Request]
  BY SurvivingType DEF SaveBrowserObservation, TypeOK
<1>6. QED
  BY <1>3, <1>4, <1>5 DEF SaveBrowserObservation, TypeOK

(* What a step of a finish request may rely on and may leave behind.       *)
LEMMA RequestType ==
  ASSUME TypeOK, NEW h \in Handlers, ~At(h, "idle")
  PROVE  /\ finishing[h].op \in Ops
         /\ finishing[h].text \in Texts
         /\ finishing[h].seen \in Texts
         /\ Done(h) \in [Handlers -> Request]
         /\ \A pc \in {"timing", "chain", "recheck"}, seen \in Texts :
              Goto(h, [finishing[h] EXCEPT !.pc = pc, !.seen = seen]) \in [Handlers -> Request]
         /\ Goto(h, [finishing[h] EXCEPT !.pc = "recheck"]) \in [Handlers -> Request]
<1> DEFINE Busy == [pc   : {"evidence", "timing", "chain", "complete", "recheck"},
                    op   : Ops,
                    text : Texts,
                    seen : Texts]
<1>1. finishing[h] \in Busy
  BY DEF TypeOK, Request, At, Idle
<1>2. \A f \in Busy : \A pc \in {"timing", "chain", "recheck"}, seen \in Texts :
        /\ [f EXCEPT !.pc = pc, !.seen = seen] \in Busy
        /\ [f EXCEPT !.pc = pc] \in Busy
  OBVIOUS
<1>3. \A f \in Busy : Goto(h, f) \in [Handlers -> Request]
  BY DEF TypeOK, Request, Goto
<1>4. Done(h) \in [Handlers -> Request]
  BY IdleType DEF TypeOK, Done, Goto
<1>5. finishing[h].op \in Ops /\ finishing[h].text \in Texts /\ finishing[h].seen \in Texts
  BY <1>1
<1> HIDE DEF Busy
<1>6. QED
  BY <1>1, <1>2, <1>3, <1>4, <1>5

LEMMA FinishedReadType ==
  ASSUME TypeOK, NEW h \in Handlers, NEW o \in Ops, NEW text \in Texts,
         FinishedRead(h, o, text)
  PROVE  TypeOK'
<1>1. Hydrated(store, o) \in Texts
  BY HydratedType DEF TypeOK
<1>2. cache[o].text \in Texts
  BY SweptType DEF Queue, Item
<1>3. \A pc \in {"evidence", "timing", "chain", "complete"}, t, seen \in Texts :
        [pc |-> pc, op |-> o, text |-> t, seen |-> seen] \in Request
  BY DEF Request
<1>4. \A f \in Request : Goto(h, f) \in [Handlers -> Request]
  BY DEF TypeOK, Goto
<1>5. finishing' \in [Handlers -> Request]
  <2>1. NoText \in Texts
    BY DEF Texts
  <2>2. CASE cache[o].status = "completed"
    <3>1. PICK pc \in {"evidence", "timing", "chain"} :
            finishing' = Goto(h, [pc |-> pc, op |-> o, text |-> text,
                                  seen |-> Hydrated(store, o)])
      BY <2>2 DEF FinishedRead
    <3>2. QED
      BY <1>1, <1>3, <1>4, <3>1
  <2>3. CASE cache[o].status # "completed"
    <3>1. PICK t \in Texts :
            finishing' = Goto(h, [pc |-> "complete", op |-> o, text |-> t, seen |-> NoText])
      BY <1>1, <2>3 DEF FinishedRead
    <3>2. QED
      BY <1>3, <1>4, <2>1, <3>1
  <2>4. QED
    BY <2>2, <2>3
<1>6. QED
  BY <1>5 DEF FinishedRead, TypeOK

LEMMA FinishedEvidenceType ==
  ASSUME TypeOK, NEW h \in Handlers, NEW stage \in Stages, FinishedEvidence(h, stage)
  PROVE  TypeOK'
<1> DEFINE o == finishing[h].op
<1>1. ~At(h, "idle")
  BY DEF FinishedEvidence, At
<1>2. /\ o \in Ops /\ finishing[h].text \in Texts /\ cache[o] \in Item
      /\ RecordedResponse(o) \in Texts
  BY <1>1, RequestType, SweptType DEF RecordedResponse, TypeOK, Store, Queue, Item
<1>3. store' \in Store
  <2>1. Attempt(store, [cache EXCEPT ![o] = WithResponse(cache[o], finishing[h].text)], stage) \in Store
    BY <1>2, ItemTypes, UpdateType DEF TypeOK, cache
  <2>2. [cache[o] EXCEPT !.text = RecordedResponse(o)] \in Item
    BY <1>2 DEF Item
  <2>3. [store EXCEPT !.cache[o].text = RecordedResponse(o)] \in Store
    BY <1>2, <2>2 DEF Store, Queue, cache, TypeOK
  <2>4. QED
    BY <2>1, <2>3 DEF FinishedEvidence, TypeOK
<1>4. finishing' \in [Handlers -> Request]
  <2>1. Surviving(Done(h), stage) \in [Handlers -> Request]
    BY <1>1, RequestType, SurvivingType
  <2>2. PICK pc \in {"timing", "chain"}, onward \in Texts :
          finishing' = IF stage = Saved
                       THEN Goto(h, [finishing[h] EXCEPT !.pc = pc, !.seen = onward])
                       ELSE Surviving(Done(h), stage)
    BY <1>1, <1>2, RequestType DEF FinishedEvidence
  <2>3. Goto(h, [finishing[h] EXCEPT !.pc = pc, !.seen = onward]) \in [Handlers -> Request]
    BY <1>1, RequestType
  <2>4. QED
    BY <2>1, <2>2, <2>3
<1>5. QED
  BY <1>3, <1>4 DEF FinishedEvidence, TypeOK

LEMMA FinishedTimingType ==
  ASSUME TypeOK, NEW h \in Handlers, NEW stage \in Stages, FinishedTiming(h, stage)
  PROVE  TypeOK'
<1> DEFINE o == finishing[h].op
<1>1. ~At(h, "idle")
  BY DEF FinishedTiming, At
<1>2. o \in Ops /\ cache[o].text \in Texts /\ finishing[h].seen \in Texts
  BY <1>1, RequestType, SweptType DEF Queue, Item
<1>3. store' \in Store
  BY SweptType, AttemptType DEF FinishedTiming, TypeOK
<1>4. finishing' \in [Handlers -> Request]
  <2>1. Surviving(Done(h), stage) \in [Handlers -> Request]
    BY <1>1, RequestType, SurvivingType
  <2>2. QED
    BY <1>1, <1>2, <2>1, RequestType DEF FinishedTiming
<1>5. QED
  BY <1>3, <1>4 DEF FinishedTiming, TypeOK

LEMMA FinishedChainType ==
  ASSUME TypeOK, NEW h \in Handlers, NEW ackOnly \in BOOLEAN,
         FinishedChain(h, ackOnly)
  PROVE  TypeOK'
<1> DEFINE o == finishing[h].op
           told == [replies EXCEPT ![o] = Answered(o, "completed", Shown(finishing[h].seen, ackOnly))]
<1>1. ~At(h, "idle")
  BY DEF FinishedChain, At
<1>2. o \in Ops /\ finishing[h].seen \in Texts /\ finishing' \in [Handlers -> Request]
  BY <1>1, RequestType DEF FinishedChain
<1>3. Shown(finishing[h].seen, ackOnly) \in Texts
  BY <1>2 DEF Shown, Texts
<1>4. told \in [Ops -> Reply]
  BY <1>2, <1>3, RepliesType DEF TypeOK, Terminal
<1>5. replies' = GrantAll(told, Chained(cache, o))
  BY DEF FinishedChain
<1> HIDE DEF told, o
<1>6. replies' \in [Ops -> Reply]
  BY <1>2, <1>4, <1>5, RepliesType
<1>7. QED
  BY <1>2, <1>6 DEF FinishedChain, TypeOK

LEMMA FinishedCompleteType ==
  ASSUME TypeOK, NEW h \in Handlers, NEW stage \in Stages, NEW ackOnly \in BOOLEAN,
         FinishedComplete(h, stage, ackOnly)
  PROVE  TypeOK'
<1> DEFINE o == finishing[h].op
           done == CompleteAndClaimNext(Swept.cache, o, finishing[h].text)
<1>1. ~At(h, "idle")
  BY DEF FinishedComplete, At
<1>2. /\ o \in Ops /\ finishing[h].text \in Texts
      /\ Done(h) \in [Handlers -> Request]
      /\ Surviving(Done(h), stage) \in [Handlers -> Request]
      /\ Goto(h, [finishing[h] EXCEPT !.pc = "recheck"]) \in [Handlers -> Request]
  BY <1>1, RequestType, SurvivingType
<1>3. done \in Queue
  BY <1>2, SweptType, CompleteType
<1>4. replies \in [Ops -> Reply] /\ store \in Store /\ "completed" \in Terminal
  BY DEF TypeOK, Terminal
<1> SUFFICES /\ store' \in Store
             /\ finishing' \in [Handlers -> Request]
             /\ replies' \in [Ops -> Reply]
  BY DEF FinishedComplete, TypeOK
<1>5. CASE FinishedSweepAborts(h, stage)
  BY <1>2, <1>4, <1>5, SweptType, SweepType, AttemptType DEF FinishedSweepAborts
<1>6. CASE FinishedCompletes(h, stage, ackOnly)
  <2>1. store' \in Store /\ finishing' \in [Handlers -> Request]
    BY <1>2, <1>3, <1>6, SweptType, AttemptType DEF FinishedCompletes
  <2>2. Shown(done[o].text, ackOnly) \in Texts
    BY <1>2, <1>3 DEF Queue, Item, Shown, Texts
  <2> DEFINE told == [replies EXCEPT ![o] = Answered(o, "completed", Shown(done[o].text, ackOnly))]
  <2>3. told \in [Ops -> Reply]
    BY <1>2, <1>4, <2>2, RepliesType
  <2>4. replies' = IF stage = Saved
                   THEN GrantAll(told, {n \in Queued(Swept.cache) : ackOnly /\ n = done[o].next})
                   ELSE replies
    BY <1>6 DEF FinishedCompletes
  <2> HIDE DEF told, done, o
  <2>5. QED
    BY <1>2, <1>4, <2>1, <2>3, <2>4, RepliesType
<1>7. CASE FinishedTooLate(h, stage, ackOnly)
  <2>1. store' \in Store /\ finishing' \in [Handlers -> Request]
    BY <1>2, <1>7, SweptType DEF FinishedTooLate
  <2>2. Shown(Hydrated(Swept, o), ackOnly) \in Texts
    BY <1>2, SweptType, HydratedType DEF Shown, Texts
  <2> DEFINE told == [replies EXCEPT ![o] = Answered(o, "completed", Shown(Hydrated(Swept, o), ackOnly))]
  <2>3. told \in [Ops -> Reply]
    BY <1>2, <1>4, <2>2, RepliesType
  <2>4. \A S : GrantAll(told, S) \in [Ops -> Reply]
    BY <1>2, <2>3, RepliesType
  <2>5. replies' = replies \/ \E S : replies' = GrantAll(told, S)
    BY <1>7 DEF FinishedTooLate
  <2> HIDE DEF told, o
  <2>6. QED
    BY <1>4, <2>1, <2>4, <2>5
<1>8. QED
  BY <1>5, <1>6, <1>7 DEF FinishedComplete

LEMMA FinishedRecheckType ==
  ASSUME TypeOK, NEW h \in Handlers, NEW stage \in Stages, NEW ackOnly \in BOOLEAN,
         FinishedRecheck(h, stage, ackOnly)
  PROVE  TypeOK'
<1> DEFINE o    == finishing[h].op
           text == IF Present(o) /\ Repairable(o) THEN observed.text ELSE Hydrated(store, o)
<1>1. ~At(h, "idle")
  BY DEF FinishedRecheck, At
<1>2. o \in Ops /\ cache[o] \in Item /\ Surviving(Done(h), stage) \in [Handlers -> Request]
  BY <1>1, RequestType, SurvivingType, SweptType DEF Queue
<1>3. text \in Texts
  BY <1>2, HydratedType DEF TypeOK
<1>4. Attempt(store, [cache EXCEPT ![o] = WithResponse(cache[o], text)], stage) \in Store
  BY <1>2, <1>3, ItemTypes, UpdateType DEF TypeOK, cache
<1>5. store' \in Store
  BY <1>4 DEF FinishedRecheck, TypeOK
<1>6. replies' \in [Ops -> Reply]
  BY <1>2, <1>3, RepliesType DEF FinishedRecheck, TypeOK, Terminal
<1>7. QED
  BY <1>2, <1>5, <1>6 DEF FinishedRecheck, TypeOK

LEMMA FinishedType ==
  ASSUME TypeOK, NEW h \in Handlers, Finished(h)
  PROVE  TypeOK'
  BY FinishedReadType, FinishedEvidenceType, FinishedTimingType, FinishedChainType,
     FinishedCompleteType, FinishedRecheckType DEF Finished

-----------------------------------------------------------------------------
(* The bridge keeps a well-formed store, and its requests and replies stay *)
(* those of operations it knows, for any number of operations, handlers,   *)
(* responses and lease or retention settings.                              *)
LEMMA InitType == Init => TypeOK
<1> SUFFICES ASSUME Init PROVE TypeOK
  OBVIOUS
<1>1. store \in Store
  BY GoneType, StoreAssumption DEF Init, Store, Queue, NotPruned, Texts
<1>2. finishing \in [Handlers -> Request]
  BY IdleType DEF Init
<1>3. replies \in [Ops -> Reply]
  BY DEF Init, Reply
<1>4. QED
  BY <1>1, <1>2, <1>3, StoreAssumption, QueueAssumption DEF Init, TypeOK, Texts

LEMMA NextType == TypeOK /\ [Next]_vars => TypeOK'
<1> SUFFICES ASSUME TypeOK, [Next]_vars PROVE TypeOK'
  OBVIOUS
<1>1. CASE UNCHANGED vars
  BY <1>1 DEF vars, TypeOK
<1>2. ASSUME NEW r \in Requests, QueueDuplicate(r) PROVE TypeOK'
  BY <1>2, QueueDuplicateType
<1>3. ASSUME NEW r \in Requests, NEW stage \in Stages, QueueOperation(r, stage) PROVE TypeOK'
  BY <1>3, QueueOperationType
<1>4. ASSUME NEW o \in Ops, NEW waiting \in BOOLEAN, GetOperation(o, waiting) PROVE TypeOK'
  BY <1>4, GetOperationType
<1>5. ASSUME NEW stage \in Stages, GetStatus(stage) \/ ClaimNextOperation(stage) PROVE TypeOK'
  BY <1>5, PollType
<1>6. ASSUME NEW o \in Ops, NEW stage \in Stages,
             \/ GetOperationRepaired(o, stage) \/ ClaimOperation(o, stage)
             \/ Heartbeat(o, stage) \/ PersistMetadata(o, stage) \/ FailOperation(o, stage)
             \/ \E text \in Texts, recorded \in BOOLEAN :
                  SaveBrowserObservation(o, text, stage, recorded)
             \/ \E c \in RetryClasses : RetryOperation(o, c, stage)
      PROVE  TypeOK'
  BY <1>6, GetOperationRepairedType, ClaimOperationType, ReportType, ObservationType,
     RetryOperationType
<1>7. ASSUME NEW h \in Handlers, Finished(h) PROVE TypeOK'
  BY <1>7, FinishedType
<1>8. CASE Crash
  <2>1. finishing' \in [Handlers -> Request] /\ store' \in Store
    BY <1>8, IdleType, RestartType DEF Crash, TypeOK
  <2>2. QED
    BY <1>8, <2>1 DEF Crash, TypeOK
<1>9. CASE Tick
  BY <1>9, QueueAssumption DEF Tick, TypeOK
<1>10. QED
  BY <1>1, <1>2, <1>3, <1>4, <1>5, <1>6, <1>7, <1>8, <1>9 DEF Next

(* What every reachable state of the bridge looks like.                    *)
THEOREM TypeCorrect == Spec => []TypeOK
  BY InitType, NextType, PTL DEF Spec

-----------------------------------------------------------------------------
(* No crash or failed write leaves a prompt that queue.json calls          *)
(* completed without its response.                                         *)
(*                                                                         *)
(* The property is about the files alone, but it is not inductive: what is *)
(* written next comes from the cache, which in turn is changed by finish   *)
(* requests that read an operation several steps before.  The invariant    *)
(* says what each of them may rely on.                                     *)

(* An item may be saved next to this response.                             *)
ItemSafe(item, response) ==
  item.status = "completed" /\ IsPrompt(item) =>
    item.available /\ (item.text # NoText \/ response # NoText)

QueueSafe(q, responses) == \A o \in Ops : ItemSafe(q[o], responses[o])

DiskSafe(q, responses) ==
  \A o \in Ops :
    q[o].status = "completed" /\ IsPrompt(q[o]) => q[o].available /\ responses[o] # NoText

StoreSafe(st) == QueueSafe(st.cache, st.responses) /\ DiskSafe(st.disk, st.responses)

(* Operation numbers from n on are not in use.                             *)
Unused(q, n) == \A o \in Ops : o >= n => q[o].status = "absent"

StoreKnown(st, n) == Unused(st.cache, n) /\ Unused(st.disk, n)

(* A finish request with no text is not about a prompt, and goes on with   *)
(* an operation whose number no submission will be given.                  *)
RequestSafe(f, q, n) ==
  /\ f.op < n
  /\ f.pc = "evidence" => f.text # NoText
  /\ f.pc = "complete" /\ f.text = NoText => ~IsPrompt(q[f.op])

RequestsSafe(fs, q, n) ==
  \A h \in Handlers : fs[h].pc # "idle" => RequestSafe(fs[h], q, n)

ResponseInv ==
  /\ StoreSafe(store)
  /\ StoreKnown(store, nextId)
  /\ RequestsSafe(finishing, cache, nextId)

(* The items of q are those of p, changed or dropped.                      *)
Derived(q, p) ==
  \A o \in Ops :
    /\ q[o].request \in {p[o].request, NoRequest}
    /\ p[o].status = "absent" => q[o].status = "absent"

-----------------------------------------------------------------------------
LEMMA NoPromptDropped == \A item : item.request = NoRequest => ~IsPrompt(item)
  BY StoreAssumption, QueueAssumption DEF IsPrompt

LEMMA GoneSafe ==
  /\ Gone.status = "absent" /\ Gone.request = NoRequest
  /\ \A r : ItemSafe(Gone, r)
  BY DEF Gone, ItemSafe

(* Retention and compaction only drop items or move their text.            *)
LEMMA FinalQueue ==
  ASSUME NEW q \in Queue, NEW o \in Ops
  PROVE  LET final == Retain(Compact(q)) IN
         \/ final[o] = Gone
         \/ /\ final[o].status = q[o].status
            /\ final[o].request = q[o].request
            /\ final[o].available = q[o].available
            /\ o \notin Inline(q) => final[o] = q[o]
<1>1. Compact(q)[o] \in Item /\ Compact(q)[o] =
        IF o \in Inline(q) THEN [q[o] EXCEPT !.text = NoText] ELSE q[o]
  BY DEF Compact, Queue, Item, Texts
<1>2. \/ Retain(Compact(q))[o] = Gone
      \/ Retain(Compact(q))[o] = Compact(q)[o]
  BY DEF Retain
<1>3. QED
  BY <1>1, <1>2 DEF Queue, Item

(* The heart of the matter: one save, however far it gets, keeps what the  *)
(* files promise, if the queue it saves is safe next to the responses that *)
(* are already there.                                                      *)
LEMMA SaveQueueSafe ==
  ASSUME NEW st \in Store, NEW q \in Queue, NEW stage \in Stages, NEW n,
         StoreSafe(st), StoreKnown(st, n), QueueSafe(q, st.responses), Unused(q, n)
  PROVE  LET new == SaveQueue(st, q, stage) IN
         StoreSafe(new) /\ StoreKnown(new, n) /\ Derived(new.cache, q)
<1> DEFINE final    == Retain(Compact(q))
           written  == WriteResponses(st.responses, q, stage)
           retained == TerminalOps(final)
           kept     == Prune(written, st.pruned, retained)
           new      == SaveQueue(st, q, stage)
<1>1. st.responses \in [Ops -> Texts] /\ stage \in Nat
  BY StoreAssumption DEF Store, Stages, Saved
<1>2. \A o \in Ops : st.responses[o] # NoText => written[o] # NoText
  BY <1>1 DEF WriteResponses, Inline
<1>3. \A o \in Ops : o \in Inline(q) /\ ~(stage < Replaced) => written[o] # NoText
  BY <1>1, StoreAssumption DEF WriteResponses, Inline, Replaced, Ops
<1>4. ~(stage < Replaced) => DiskSafe(final, written)
  <2> SUFFICES ASSUME ~(stage < Replaced), NEW o \in Ops,
                      final[o].status = "completed", IsPrompt(final[o])
               PROVE  final[o].available /\ written[o] # NoText
    BY DEF DiskSafe
  <2>1. /\ final[o].status = q[o].status /\ final[o].request = q[o].request
        /\ final[o].available = q[o].available
    BY FinalQueue, GoneSafe
  <2>2. q[o].available /\ (q[o].text # NoText \/ st.responses[o] # NoText)
    BY <2>1 DEF QueueSafe, ItemSafe, IsPrompt
  <2>3. q[o].text # NoText => o \in Inline(q)
    BY <2>1 DEF Inline, TerminalOps, Terminal
  <2>4. QED
    BY <1>2, <1>3, <2>1, <2>2, <2>3
<1>5. \A o \in Ops : o \in retained => kept[o] = written[o]
  BY DEF Prune, WriteResponses
<1>6. ~(stage < Replaced) => DiskSafe(final, kept)
  BY <1>4, <1>5 DEF DiskSafe, TerminalOps, Terminal
<1>7. \A f : DiskSafe(final, f) => QueueSafe(final, f)
  BY DEF DiskSafe, QueueSafe, ItemSafe
<1>8. \A o \in Ops : /\ final[o].request \in {q[o].request, NoRequest}
                     /\ q[o].status = "absent" => final[o].status = "absent"
  BY FinalQueue, GoneSafe
<1>9. Derived(final, q)
  BY <1>8 DEF Derived
<1>10. Unused(final, n)
  BY <1>8 DEF Unused
<1>11. \A o \in Ops : Retain(q)[o] = q[o] \/ Retain(q)[o] = Gone
  BY DEF Retain
<1>12. SaveQueue(st, q, stage) =
         IF stage < Replaced
         THEN [st EXCEPT !.cache = IF Inline(q) = {} THEN Retain(q) ELSE q,
                         !.responses = written]
         ELSE IF stage = Replaced
         THEN [st EXCEPT !.cache = final, !.disk = final, !.responses = written]
         ELSE [cache |-> final, disk |-> final, responses |-> kept, pruned |-> retained]
  BY DEF SaveQueue
<1> HIDE DEF final, written, kept, retained
<1>13. CASE stage < Replaced
  <2>1. new.disk = st.disk /\ new.responses = written
    BY <1>12, <1>13 DEF Store
  <2>2. \A o \in Ops : new.cache[o] = q[o] \/ new.cache[o] = Gone
    BY <1>11, <1>12, <1>13 DEF Store
  <2> HIDE DEF new
  <2>3. QueueSafe(new.cache, written)
    BY <1>2, <2>2, GoneSafe DEF QueueSafe, ItemSafe
  <2>4. DiskSafe(st.disk, written)
    BY <1>2 DEF StoreSafe, DiskSafe
  <2>5. Unused(new.cache, n) /\ Derived(new.cache, q)
    BY <2>2, GoneSafe DEF Unused, Derived
  <2>6. QED
    BY <2>1, <2>3, <2>4, <2>5 DEF StoreSafe, StoreKnown, new
<1>14. CASE ~(stage < Replaced)
  <2>1. new.cache = final /\ new.disk = final
    BY <1>12, <1>14 DEF Store
  <2>2. new.responses = written \/ new.responses = kept
    BY <1>12, <1>14 DEF Store
  <2> HIDE DEF new
  <2>3. QED
    BY <1>4, <1>6, <1>7, <1>9, <1>10, <1>14, <2>1, <2>2 DEF StoreSafe, StoreKnown, new
<1>15. QED
  BY <1>13, <1>14

(* A restart reads back a queue that is safe.                              *)
LEMMA RestartSafe ==
  ASSUME NEW st \in Store, NEW n, StoreSafe(st), StoreKnown(st, n)
  PROVE  StoreSafe(Restart(st)) /\ StoreKnown(Restart(st), n)
<1>1. /\ Restart(st).cache = st.disk /\ Restart(st).disk = st.disk
      /\ Restart(st).responses = st.responses
  BY DEF Restart, Store
<1>2. QED
  BY <1>1 DEF StoreSafe, StoreKnown, DiskSafe, QueueSafe, ItemSafe

LEMMA AttemptSafe ==
  ASSUME NEW st \in Store, NEW q \in Queue, NEW stage \in Stages, NEW n,
         StoreSafe(st), StoreKnown(st, n), QueueSafe(q, st.responses), Unused(q, n)
  PROVE  /\ StoreSafe(Attempt(st, q, stage))
         /\ StoreKnown(Attempt(st, q, stage), n)
         /\ stage = Saved \/ IOErrors => Derived(Attempt(st, q, stage).cache, q)
  BY SaveQueueSafe, SaveQueueType, RestartSafe DEF Attempt

(* A sweep changes only the status and the claim of unfinished operations. *)
LEMMA SweepSafe ==
  ASSUME TypeOK, NEW q \in Queue
  PROVE  /\ Derived(Sweep(q), q)
         /\ \A r : QueueSafe(q, r) => QueueSafe(Sweep(q), r)
<1>1. ASSUME NEW item \in Item, NEW r
      PROVE  /\ SweepItem(item).request = item.request
             /\ item.status = "absent" => SweepItem(item).status = "absent"
             /\ ItemSafe(item, r) => ItemSafe(SweepItem(item), r)
  BY <1>1 DEF SweepItem, Item, ItemSafe, IsPrompt, Active
<1>2. QED
  BY <1>1 DEF Sweep, Queue, Derived, QueueSafe

LEMMA SweptSafe ==
  ASSUME TypeOK, ResponseInv
  PROVE  /\ StoreSafe(Swept) /\ StoreKnown(Swept, nextId)
         /\ Derived(Swept.cache, cache)
<1>1. store \in Store /\ cache \in Queue /\ Sweep(cache) \in Queue /\ Saved \in Stages
  BY SweptType, SweepType DEF TypeOK, Stages
<1>2. /\ StoreSafe(store) /\ StoreKnown(store, nextId)
      /\ QueueSafe(Sweep(cache), store.responses) /\ Derived(Sweep(cache), cache)
  BY <1>1, SweepSafe DEF ResponseInv, StoreSafe, cache
<1>3. Unused(Sweep(cache), nextId)
  BY <1>2 DEF Derived, Unused, StoreKnown, cache
<1>4. Derived(cache, cache)
  BY DEF Derived
<1>5. \A q : Derived(q, Sweep(cache)) => Derived(q, cache)
  BY <1>2 DEF Derived
<1>6. CASE Sweep(cache) = cache
  BY <1>2, <1>4, <1>6 DEF Swept, cache
<1>7. CASE Sweep(cache) # cache
  <2>1. Swept = SaveQueue(store, Sweep(cache), Saved)
    BY <1>7 DEF Swept
  <2>2. QED
    BY <1>1, <1>2, <1>3, <1>5, <2>1, SaveQueueSafe
<1>8. QED
  BY <1>6, <1>7

-----------------------------------------------------------------------------
(* Requests in progress: what holds of them over q still holds over a      *)
(* queue derived from q, and over more numbers in use.                     *)
LEMMA RequestsDerive ==
  ASSUME NEW fs \in [Handlers -> Request], NEW q, NEW p, NEW n \in Nat, NEW m \in Nat,
         RequestsSafe(fs, q, n), Derived(p, q), n <= m
  PROVE  RequestsSafe(fs, p, m)
<1> SUFFICES ASSUME NEW h \in Handlers, fs[h].pc # "idle"
             PROVE  RequestSafe(fs[h], p, m)
  BY DEF RequestsSafe
<1>1. RequestSafe(fs[h], q, n) /\ fs[h].op \in Ops /\ fs[h].op \in Nat
  BY DEF RequestsSafe, Request, Idle, Ops
<1>2. IsPrompt(p[fs[h].op]) => IsPrompt(q[fs[h].op])
  BY <1>1, NoPromptDropped DEF Derived, IsPrompt
<1>3. QED
  BY <1>1, <1>2 DEF RequestSafe

LEMMA NoRequests ==
  ASSUME NEW q, NEW n
  PROVE  RequestsSafe([h \in Handlers |-> Idle], q, n)
  BY DEF RequestsSafe, Idle

(* One handler moves on to another request.                                *)
LEMMA GotoSafe ==
  ASSUME TypeOK, NEW h \in Handlers, NEW f \in Request, NEW q, NEW n,
         RequestsSafe(finishing, q, n),
         f.pc # "idle" => RequestSafe(f, q, n)
  PROVE  RequestsSafe(Goto(h, f), q, n) /\ RequestsSafe(Done(h), q, n)
<1>1. finishing \in [Handlers -> Request]
  BY DEF TypeOK
<1>2. \A i \in Handlers : /\ Goto(h, f)[i] = IF i = h THEN f ELSE finishing[i]
                          /\ Done(h)[i] = IF i = h THEN Idle ELSE finishing[i]
  BY <1>1 DEF Goto, Done
<1>3. QED
  BY <1>2 DEF RequestsSafe, Idle

LEMMA SurvivingSafe ==
  ASSUME NEW fs \in [Handlers -> Request], NEW q, NEW p, NEW stage, NEW n \in Nat, NEW m \in Nat,
         RequestsSafe(fs, q, n), n <= m,
         stage = Saved \/ IOErrors => Derived(p, q)
  PROVE  RequestsSafe(Surviving(fs, stage), p, m)
  BY RequestsDerive, NoRequests DEF Surviving

(* The shape of every action that saves: a queue q derived from that of    *)
(* the store st it starts from.                                            *)
LEMMA SavingStep ==
  ASSUME TypeOK, ResponseInv,
         NEW st \in {store, Swept}, NEW q \in Queue, NEW stage \in Stages,
         NEW fs \in [Handlers -> Request],
         Derived(q, st.cache), QueueSafe(q, st.responses),
         RequestsSafe(fs, st.cache, nextId),
         store' = Attempt(st, q, stage),
         finishing' = Surviving(fs, stage),
         nextId' = nextId
  PROVE  ResponseInv'
<1>1. st \in Store /\ StoreSafe(st) /\ StoreKnown(st, nextId) /\ nextId \in Nat
  BY SweptType, SweptSafe DEF ResponseInv, TypeOK
<1>2. Unused(q, nextId)
  BY <1>1 DEF Derived, Unused, StoreKnown
<1>3. /\ StoreSafe(store') /\ StoreKnown(store', nextId)
      /\ stage = Saved \/ IOErrors => Derived(store'.cache, q)
  BY <1>1, <1>2, AttemptSafe
<1>4. stage = Saved \/ IOErrors => Derived(store'.cache, st.cache)
  BY <1>3 DEF Derived
<1>5. RequestsSafe(finishing', store'.cache, nextId)
  BY <1>1, <1>4, SurvivingSafe
<1>6. QED
  BY <1>3, <1>5 DEF ResponseInv, cache

(* Requests in progress look at a swept queue as they did at the queue.    *)
LEMMA RequestsSwept ==
  ASSUME TypeOK, ResponseInv, NEW st \in {store, Swept}
  PROVE  RequestsSafe(finishing, st.cache, nextId)
<1>1. nextId \in Nat /\ finishing \in [Handlers -> Request] /\ nextId <= nextId
  BY DEF TypeOK
<1>2. RequestsSafe(finishing, cache, nextId)
  BY DEF ResponseInv
<1>3. CASE st = store
  BY <1>2, <1>3 DEF cache
<1>4. CASE st = Swept
  BY <1>1, <1>2, <1>4, SweptSafe, RequestsDerive
<1>5. QED
  BY <1>3, <1>4

(* One item is changed and saved.                                          *)
LEMMA ItemStep ==
  ASSUME TypeOK, ResponseInv,
         NEW st \in {store, Swept}, NEW o \in Ops, NEW item \in Item, NEW stage \in Stages,
         NEW fs \in [Handlers -> Request],
         item.request = st.cache[o].request,
         st.cache[o].status # "absent",
         ItemSafe(item, st.responses[o]),
         RequestsSafe(fs, st.cache, nextId),
         store' = Attempt(st, [st.cache EXCEPT ![o] = item], stage),
         finishing' = Surviving(fs, stage),
         nextId' = nextId
  PROVE  ResponseInv'
<1> DEFINE q == [st.cache EXCEPT ![o] = item]
<1>1. st.cache \in Queue /\ StoreSafe(st)
  BY SweptType, SweptSafe DEF ResponseInv, cache
<1>2. q \in Queue /\ \A p \in Ops : q[p] = IF p = o THEN item ELSE st.cache[p]
  BY <1>1 DEF Queue
<1>3. store' = Attempt(st, q, stage)
  OBVIOUS
<1> HIDE DEF q
<1>4. Derived(q, st.cache)
  BY <1>2 DEF Derived
<1>5. QueueSafe(q, st.responses)
  BY <1>1, <1>2 DEF QueueSafe, StoreSafe
<1>6. QED
  BY <1>2, <1>3, <1>4, <1>5, SavingStep

-----------------------------------------------------------------------------
(* What the actions may assume of the items they change.                   *)
LEMMA CachedItem ==
  ASSUME TypeOK, ResponseInv, NEW st \in {store, Swept}, NEW o \in Ops
  PROVE  /\ st.cache[o] \in Item
         /\ ItemSafe(st.cache[o], st.responses[o])
         /\ RequestsSafe(finishing, st.cache, nextId)
         /\ finishing \in [Handlers -> Request]
<1>1. st.cache \in Queue /\ StoreSafe(st)
  BY SweptType, SweptSafe DEF ResponseInv, cache
<1>2. QED
  BY <1>1, RequestsSwept DEF Queue, StoreSafe, QueueSafe, TypeOK

LEMMA WithResponseSafe ==
  ASSUME TypeOK, NEW item \in Item, NEW text \in Texts, text # NoText, NEW r
  PROVE  /\ WithResponse(item, text) \in Item
         /\ WithResponse(item, text).request = item.request
         /\ ItemSafe(WithResponse(item, text), r)
<1>1. WithResponse(item, text) \in Item
  BY ItemTypes
<1>2. QED
  BY <1>1 DEF WithResponse, ItemSafe, Item

(* An action that leaves the store and the requests alone.                 *)
LEMMA IdleStep ==
  ASSUME ResponseInv, UNCHANGED <<store, finishing, nextId>>
  PROVE  ResponseInv'
  BY DEF ResponseInv, cache

(* An action that only moves one request on.                               *)
LEMMA MoveStep ==
  ASSUME TypeOK, ResponseInv, NEW h \in Handlers, NEW f \in Request,
         f.pc # "idle" => RequestSafe(f, cache, nextId),
         finishing' = Goto(h, f), UNCHANGED <<store, nextId>>
  PROVE  ResponseInv'
<1>1. RequestsSafe(finishing', cache, nextId)
  BY GotoSafe DEF ResponseInv
<1>2. QED
  BY <1>1 DEF ResponseInv, cache

LEMMA SweepAbortsSafe ==
  ASSUME TypeOK, ResponseInv, NEW stage \in Stages, SweepAborts(stage)
  PROVE  ResponseInv'
<1>1. /\ Sweep(cache) \in Queue /\ Derived(Sweep(cache), store.cache)
      /\ QueueSafe(Sweep(cache), store.responses)
  BY SweptType, SweepType, SweepSafe DEF ResponseInv, StoreSafe, cache
<1>2. finishing \in [Handlers -> Request] /\ RequestsSafe(finishing, store.cache, nextId)
  BY RequestsSwept DEF TypeOK
<1>3. QED
  BY <1>1, <1>2, SavingStep DEF SweepAborts

(* A step that ends with the store swept.                                  *)
LEMMA SweptStep ==
  ASSUME TypeOK, ResponseInv, NEW fs, fs \in [Handlers -> Request],
         RequestsSafe(fs, cache, nextId),
         store' = Swept, finishing' = fs, nextId' = nextId
  PROVE  ResponseInv'
<1>1. nextId \in Nat /\ nextId <= nextId
  BY DEF TypeOK
<1>2. RequestsSafe(fs, Swept.cache, nextId)
  BY <1>1, SweptSafe, RequestsDerive
<1>3. QED
  BY <1>2, SweptSafe DEF ResponseInv, cache

LEMMA OnlySweepsSafe ==
  ASSUME TypeOK, ResponseInv, NEW stage \in Stages, OnlySweeps(stage)
  PROVE  ResponseInv'
  BY SweptStep DEF OnlySweeps, ResponseInv, TypeOK

LEMMA ClaimFromSafe ==
  ASSUME TypeOK, ResponseInv, NEW o \in Queued(Swept.cache), NEW stage \in Stages,
         ClaimFrom(Swept, o, stage)
  PROVE  ResponseInv'
<1> DEFINE item == MarkClaimed(Swept.cache[o])
<1>1. o \in Ops /\ Swept.cache[o].status # "absent"
  BY DEF Queued
<1>2. item \in Item
  BY <1>1, CachedItem, ItemTypes
<1>3. item.status = "claimed" /\ item.request = Swept.cache[o].request
  BY <1>1, CachedItem DEF MarkClaimed, Item
<1>4. store' = Attempt(Swept, [Swept.cache EXCEPT ![o] = item], stage)
  BY DEF ClaimFrom
<1>5. ItemSafe(item, Swept.responses[o])
  BY <1>3 DEF ItemSafe
<1> HIDE DEF item
<1>6. QED
  BY <1>1, <1>2, <1>3, <1>4, <1>5, CachedItem, ItemStep DEF ClaimFrom

LEMMA QueueOperationSafe ==
  ASSUME TypeOK, ResponseInv, NEW r \in Requests, NEW stage \in Stages,
         QueueOperation(r, stage)
  PROVE  ResponseInv'
<1> DEFINE q == [cache EXCEPT ![nextId] = NewItem(r)]
<1>1. nextId \in Ops /\ nextId \in Nat /\ nextId' = nextId + 1
  BY StoreAssumption DEF QueueOperation, TypeOK, Ops
<1>2. NewItem(r) \in Item /\ NewItem(r).status = "queued" /\ cache \in Queue
  BY NewItemType, SweptType DEF NewItem, Gone
<1>3. q \in Queue /\ \A o \in Ops : q[o] = IF o = nextId THEN NewItem(r) ELSE cache[o]
  BY <1>1, <1>2 DEF Queue
<1>4. store' = Attempt(store, q, stage)
  BY DEF QueueOperation
<1> HIDE DEF q
<1>5. store \in Store /\ StoreSafe(store) /\ StoreKnown(store, nextId)
  BY DEF TypeOK, ResponseInv
<1>6. QueueSafe(q, store.responses)
  BY <1>2, <1>3, <1>5 DEF StoreSafe, QueueSafe, ItemSafe, cache
<1>7. \A o \in Ops : o >= nextId' => o >= nextId /\ o # nextId
  BY <1>1 DEF Ops
<1>8. StoreKnown(store, nextId') /\ Unused(q, nextId')
  BY <1>3, <1>5, <1>7 DEF StoreKnown, Unused, cache
<1>9. /\ StoreSafe(store') /\ StoreKnown(store', nextId')
      /\ stage = Saved \/ IOErrors => Derived(store'.cache, q)
  BY <1>3, <1>4, <1>5, <1>6, <1>8, AttemptSafe
<1>10. RequestsSafe(finishing, q, nextId)
  <2> SUFFICES ASSUME NEW h \in Handlers, finishing[h].pc # "idle"
               PROVE  RequestSafe(finishing[h], q, nextId)
    BY DEF RequestsSafe
  <2>1. RequestSafe(finishing[h], cache, nextId) /\ finishing[h].op \in Ops
    BY DEF ResponseInv, RequestsSafe, TypeOK, Request, Idle
  <2>2. finishing[h].op # nextId
    BY <1>1, <2>1 DEF RequestSafe, Ops
  <2>3. QED
    BY <1>3, <2>1, <2>2 DEF RequestSafe
<1>11. RequestsSafe(finishing', store'.cache, nextId')
  BY <1>1, <1>9, <1>10, SurvivingSafe DEF QueueOperation, TypeOK
<1>12. QED
  BY <1>9, <1>11 DEF ResponseInv, cache

LEMMA GetOperationRepairedSafe ==
  ASSUME TypeOK, ResponseInv, NEW o \in Ops, NEW stage \in Stages,
         GetOperationRepaired(o, stage)
  PROVE  ResponseInv'
<1> DEFINE item == WithResponse(store.cache[o], observed.text)
<1>1. observed.text \in Texts /\ observed.text # NoText
  BY DEF TypeOK, GetOperationRepaired, Repairable
<1>2. /\ item \in Item /\ item.request = store.cache[o].request
      /\ ItemSafe(item, store.responses[o])
  BY <1>1, CachedItem, WithResponseSafe
<1>3. store' = Attempt(store, [store.cache EXCEPT ![o] = item], stage)
  BY DEF GetOperationRepaired, cache
<1> HIDE DEF item
<1>4. QED
  BY <1>2, <1>3, CachedItem, ItemStep DEF GetOperationRepaired, Present, cache

LEMMA ClaimsSafe ==
  ASSUME TypeOK, ResponseInv, NEW stage \in Stages,
         \/ GetStatus(stage) \/ ClaimNextOperation(stage)
         \/ \E o \in Ops : ClaimOperation(o, stage)
  PROVE  ResponseInv'
<1>1. CASE SweepAborts(stage)
  BY <1>1, SweepAbortsSafe
<1>2. CASE OnlySweeps(stage)
  BY <1>2, OnlySweepsSafe
<1>3. CASE \E o \in Queued(Swept.cache) : ClaimFrom(Swept, o, stage)
  BY <1>3, ClaimFromSafe
<1>4. QED
  BY <1>1, <1>2, <1>3 DEF GetStatus, ClaimNextOperation, ClaimOperation

(* heartbeat, persist_timing, fail_operation and _retry_operation change   *)
(* one item; only a retry may complete it, and then a response is in hand. *)
LEMMA UpdateSafe ==
  ASSUME TypeOK, ResponseInv, NEW o \in Ops, NEW item \in Item, NEW stage \in Stages,
         Present(o), Update(o, item, stage),
         item.request = cache[o].request, ItemSafe(item, store.responses[o])
  PROVE  ResponseInv'
<1>1. store' = Attempt(store, [store.cache EXCEPT ![o] = item], stage)
  BY DEF Update, cache
<1>2. QED
  BY <1>1, CachedItem, ItemStep DEF Update, Present, cache

LEMMA ReportSafe ==
  ASSUME TypeOK, ResponseInv, NEW o \in Ops, NEW stage \in Stages,
         Heartbeat(o, stage) \/ PersistMetadata(o, stage) \/ FailOperation(o, stage)
  PROVE  ResponseInv'
<1>1. cache[o] \in Item /\ ItemSafe(cache[o], store.responses[o])
  BY CachedItem DEF cache
<1>2. ASSUME NEW status \in {"generating", "failed"}
      PROVE  /\ [cache[o] EXCEPT !.status = status] \in Item
             /\ [cache[o] EXCEPT !.status = status].request = cache[o].request
             /\ ItemSafe([cache[o] EXCEPT !.status = status], store.responses[o])
  <2>1. [cache[o] EXCEPT !.status = status].status = status
    BY <1>1 DEF Item
  <2>2. ItemSafe([cache[o] EXCEPT !.status = status], store.responses[o])
    BY <2>1 DEF ItemSafe
  <2>3. [cache[o] EXCEPT !.status = status] \in Item
    BY <1>1, ItemTypes
  <2>4. QED
    BY <1>1, <2>2, <2>3 DEF Item
<1>3. QED
  BY <1>1, <1>2, UpdateSafe DEF Heartbeat, PersistMetadata, FailOperation

LEMMA RetryOperationSafe ==
  ASSUME TypeOK, ResponseInv, NEW o \in Ops, NEW c \in RetryClasses, NEW stage \in Stages,
         RetryOperation(o, c, stage)
  PROVE  ResponseInv'
<1> DEFINE item == Retried(cache[o], c)
<1>1. cache[o] \in Item
  BY CachedItem DEF cache
<1>2. item \in Item
  BY <1>1, RetriedType
<1>3. /\ item.request = cache[o].request /\ item.text = cache[o].text
      /\ item.available = cache[o].available
      /\ item.status = "completed" => ResponseInHand(cache[o])
  BY <1>1 DEF Retried, RetryTarget, Item
<1> HIDE DEF item
<1>4. ItemSafe(item, store.responses[o])
  BY <1>3 DEF ItemSafe, ResponseInHand
<1>5. Present(o) /\ Update(o, item, stage)
  BY DEF RetryOperation, item
<1>6. QED
  BY <1>2, <1>3, <1>4, <1>5, UpdateSafe

LEMMA ObservationSafe ==
  ASSUME TypeOK, ResponseInv, NEW o \in Ops, NEW text \in Texts, NEW stage \in Stages,
         NEW recorded \in BOOLEAN, SaveBrowserObservation(o, text, stage, recorded)
  PROVE  ResponseInv'
<1> DEFINE item    == WithResponse(store.cache[o], text)
           saved   == Attempt(store, [store.cache EXCEPT ![o] = item], stage)
           adopted == Present(o) /\ text # NoText /\ IsPrompt(cache[o]) /\ ~HasResponse(o)
           reached == IF recorded THEN stage ELSE Replaced
           st      == IF adopted THEN saved ELSE store
<1>1. /\ store' = IF recorded \/ IOErrors THEN st ELSE Restart(st)
      /\ finishing' = Surviving(finishing, reached)
      /\ nextId' = nextId
      /\ ~adopted => stage = Saved
  BY DEF SaveBrowserObservation, cache
<1>2. store.cache[o] \in Item /\ store \in Store /\ nextId \in Nat
  BY CachedItem DEF TypeOK
<1>3. StoreSafe(store) /\ StoreKnown(store, nextId)
  BY DEF ResponseInv
<1>4. adopted => /\ item \in Item /\ item.request = store.cache[o].request
                 /\ ItemSafe(item, store.responses[o])
                 /\ store.cache[o].status # "absent"
  BY <1>2, WithResponseSafe DEF Present, cache
<1>5. CASE recorded \/ IOErrors
  <2>1. store' = st /\ finishing' = Surviving(finishing, stage)
    BY <1>1, <1>5 DEF Surviving
  <2>2. CASE adopted
    <3>1. store' = Attempt(store, [store.cache EXCEPT ![o] = item], stage)
      BY <2>1, <2>2
    <3> HIDE DEF item, adopted, saved, st
    <3>2. QED
      BY <1>1, <1>4, <2>1, <2>2, <3>1, CachedItem, ItemStep
  <2>3. CASE ~adopted
    BY <1>1, <2>1, <2>3, IdleStep DEF Surviving
  <2>4. QED
    BY <2>2, <2>3
<1>6. CASE ~(recorded \/ IOErrors)
  <2>1. store' = Restart(st) /\ finishing' = [h \in Handlers |-> Idle]
    BY <1>1, <1>6, StoreAssumption DEF Surviving, Replaced, Saved
  <2>2. st \in Store /\ StoreSafe(st) /\ StoreKnown(st, nextId)
    <3>1. CASE adopted
      <4> DEFINE q == [store.cache EXCEPT ![o] = item]
      <4>1. q \in Queue /\ \A p \in Ops : q[p] = IF p = o THEN item ELSE store.cache[p]
        BY <1>2, <1>4, <3>1 DEF Queue, Store
      <4>2. st = Attempt(store, q, stage)
        BY <3>1
      <4> HIDE DEF item, q, adopted, saved, st
      <4>3. QueueSafe(q, store.responses)
        BY <1>3, <1>4, <3>1, <4>1 DEF QueueSafe, StoreSafe
      <4>4. Unused(q, nextId)
        BY <1>3, <1>4, <3>1, <4>1 DEF Unused, StoreKnown
      <4>5. QED
        BY <1>2, <1>3, <4>1, <4>2, <4>3, <4>4, AttemptSafe, AttemptType
    <3>2. CASE ~adopted
      BY <1>2, <1>3, <3>2
    <3>3. QED
      BY <3>1, <3>2
  <2> HIDE DEF st
  <2>3. StoreSafe(store') /\ StoreKnown(store', nextId)
    BY <2>1, <2>2, RestartSafe
  <2>4. QED
    BY <1>1, <2>1, <2>3, NoRequests DEF ResponseInv, cache
<1>7. QED
  BY <1>5, <1>6

-----------------------------------------------------------------------------
(* The requests that finish an operation.                                  *)

LEMMA BusyRequest ==
  ASSUME TypeOK, ResponseInv, NEW h \in Handlers, ~At(h, "idle")
  PROVE  /\ finishing[h].op \in Ops /\ finishing[h].text \in Texts
         /\ finishing[h].seen \in Texts
         /\ RequestSafe(finishing[h], cache, nextId)
         /\ Done(h) \in [Handlers -> Request]
         /\ RequestsSafe(Done(h), cache, nextId)
         /\ \A pc \in {"timing", "chain", "recheck"}, seen \in Texts :
              LET on == Goto(h, [finishing[h] EXCEPT !.pc = pc, !.seen = seen])
              IN  on \in [Handlers -> Request] /\ RequestsSafe(on, cache, nextId)
         /\ LET on == Goto(h, [finishing[h] EXCEPT !.pc = "recheck"])
            IN  on \in [Handlers -> Request] /\ RequestsSafe(on, cache, nextId)
<1>1. RequestSafe(finishing[h], cache, nextId)
  BY DEF ResponseInv, RequestsSafe, At
<1>2. finishing[h] \in [pc : {"evidence", "timing", "chain", "complete", "recheck"},
                        op : Ops, text : Texts, seen : Texts]
  BY DEF TypeOK, Request, At, Idle
<1>3. \A pc \in {"timing", "chain", "recheck"}, seen \in Texts :
        /\ [finishing[h] EXCEPT !.pc = pc, !.seen = seen] \in Request
        /\ RequestSafe([finishing[h] EXCEPT !.pc = pc, !.seen = seen], cache, nextId)
        /\ [finishing[h] EXCEPT !.pc = pc] \in Request
        /\ RequestSafe([finishing[h] EXCEPT !.pc = pc], cache, nextId)
  BY <1>1, <1>2 DEF Request, RequestSafe
<1>4. RequestsSafe(finishing, cache, nextId)
  BY DEF ResponseInv
<1>5. \A f \in Request : RequestSafe(f, cache, nextId) =>
        RequestsSafe(Goto(h, f), cache, nextId)
  BY <1>4, GotoSafe
<1>6. RequestsSafe(Done(h), cache, nextId)
  BY <1>4, IdleType, GotoSafe DEF Idle
<1>7. QED
  BY <1>1, <1>2, <1>3, <1>5, <1>6, RequestType

LEMMA FinishedReadSafe ==
  ASSUME TypeOK, ResponseInv, NEW h \in Handlers, NEW o \in Ops, NEW text \in Texts,
         FinishedRead(h, o, text)
  PROVE  ResponseInv'
<1> DEFINE seen      == Hydrated(store, o)
           effective == IF text = NoText /\ cache[o].available THEN seen ELSE text
<1>1. seen \in Texts /\ NoText \in Texts /\ effective \in Texts /\ nextId \in Nat
  BY HydratedType DEF TypeOK, Texts
<1>2. o < nextId
  BY <1>1 DEF FinishedRead, Present, ResponseInv, StoreKnown, Unused, Ops, cache
<1>3. CASE cache[o].status = "completed"
  <2>1. PICK pc \in {"evidence", "timing", "chain"} :
          /\ finishing' = Goto(h, [pc |-> pc, op |-> o, text |-> text, seen |-> seen])
          /\ pc = "evidence" => text # NoText
    BY <1>3 DEF FinishedRead
  <2> DEFINE f == [pc |-> pc, op |-> o, text |-> text, seen |-> seen]
  <2>2. f \in Request /\ RequestSafe(f, cache, nextId)
    BY <1>1, <1>2, <2>1 DEF Request, RequestSafe
  <2> HIDE DEF f
  <2>3. finishing' = Goto(h, f)
    BY <2>1 DEF f
  <2>4. QED
    BY <2>2, <2>3, MoveStep DEF FinishedRead
<1>4. CASE cache[o].status # "completed"
  <2> DEFINE f == [pc |-> "complete", op |-> o, text |-> effective, seen |-> NoText]
  <2>1. finishing' = Goto(h, f) /\ (IsPrompt(cache[o]) => effective # NoText)
    BY <1>4 DEF FinishedRead
  <2>2. f \in Request /\ RequestSafe(f, cache, nextId)
    BY <1>1, <1>2, <2>1 DEF Request, RequestSafe
  <2> HIDE DEF f
  <2>3. QED
    BY <2>1, <2>2, MoveStep DEF FinishedRead
<1>5. QED
  BY <1>3, <1>4

LEMMA FinishedEvidenceSafe ==
  ASSUME TypeOK, ResponseInv, NEW h \in Handlers, NEW stage \in Stages,
         FinishedEvidence(h, stage)
  PROVE  ResponseInv'
<1> DEFINE o        == finishing[h].op
           recorded == RecordedResponse(o)
           adds     == Present(o) /\ ~(cache[o].available /\ recorded # NoText)
           item     == WithResponse(store.cache[o], finishing[h].text)
<1>1. ~At(h, "idle") /\ finishing[h].pc = "evidence"
  BY DEF FinishedEvidence, At
<1>2. /\ o \in Ops /\ finishing[h].text \in Texts /\ finishing[h].text # NoText
      /\ cache[o] \in Item /\ recorded \in Texts
  BY <1>1, BusyRequest, SweptType
     DEF RequestSafe, RecordedResponse, TypeOK, Store, Queue, Item
<1>3. PICK pc \in {"timing", "chain"}, onward \in Texts :
        finishing' = IF stage = Saved
                     THEN Goto(h, [finishing[h] EXCEPT !.pc = pc, !.seen = onward])
                     ELSE Surviving(Done(h), stage)
  BY <1>1, <1>2, BusyRequest DEF FinishedEvidence
<1> DEFINE fs == IF stage = Saved
                 THEN Goto(h, [finishing[h] EXCEPT !.pc = pc, !.seen = onward])
                 ELSE Done(h)
<1>4. fs \in [Handlers -> Request] /\ RequestsSafe(fs, cache, nextId)
  BY <1>1, BusyRequest
<1>5. finishing' = Surviving(fs, stage) /\ nextId' = nextId
  BY <1>3 DEF Surviving, FinishedEvidence
<1>6. CASE adds
  <2>1. store' = Attempt(store, [store.cache EXCEPT ![o] = item], stage)
    BY <1>6 DEF FinishedEvidence, cache
  <2>2. /\ item \in Item /\ item.request = store.cache[o].request
        /\ ItemSafe(item, store.responses[o]) /\ store.cache[o].status # "absent"
    BY <1>2, <1>6, WithResponseSafe DEF Present, cache
  <2> HIDE DEF fs, item, adds, recorded, o
  <2>3. QED
    BY <1>2, <1>4, <1>5, <2>1, <2>2, ItemStep DEF cache
<1>7. CASE ~adds /\ Present(o)
  <2>1. store' = [store EXCEPT !.cache[o].text = recorded] /\ stage = Saved
    BY <1>7 DEF FinishedEvidence
  <2>2. store \in Store /\ StoreSafe(store) /\ StoreKnown(store, nextId)
    BY DEF TypeOK, ResponseInv
  <2> HIDE DEF fs, item, o
  <2>3. /\ store'.disk = store.disk /\ store'.responses = store.responses
        /\ \A p \in Ops : /\ store'.cache[p].status = store.cache[p].status
                          /\ store'.cache[p].request = store.cache[p].request
                          /\ store'.cache[p].available = store.cache[p].available
                          /\ p # o => store'.cache[p] = store.cache[p]
        /\ store'.cache[o].text = recorded
    BY <1>2, <2>1, <2>2 DEF Store, Queue, Item
  <2>4. recorded # NoText
    BY <1>7
  <2> HIDE DEF adds, recorded
  <2>5. StoreSafe(store')
    BY <2>2, <2>3, <2>4, <1>7 DEF StoreSafe, DiskSafe, QueueSafe, ItemSafe, IsPrompt, adds, cache
  <2>6. StoreKnown(store', nextId) /\ Derived(store'.cache, store.cache)
    BY <2>2, <2>3 DEF StoreKnown, Unused, Derived
  <2>7. nextId \in Nat /\ nextId <= nextId
    BY DEF TypeOK
  <2>8. RequestsSafe(finishing', store'.cache, nextId)
    BY <1>4, <1>5, <2>6, <2>7, SurvivingSafe DEF cache
  <2>9. QED
    BY <1>5, <2>5, <2>6, <2>8 DEF ResponseInv, cache
<1>8. CASE ~Present(o)
  <2>1. store' = store /\ stage = Saved
    BY <1>8 DEF FinishedEvidence
  <2>2. finishing' = fs
    BY <1>5, <2>1 DEF Surviving
  <2> HIDE DEF fs
  <2>3. QED
    BY <1>4, <1>5, <2>1, <2>2 DEF ResponseInv, cache
<1>9. QED
  BY <1>6, <1>7, <1>8

LEMMA FinishedTimingSafe ==
  ASSUME TypeOK, ResponseInv, NEW h \in Handlers, NEW stage \in Stages,
         FinishedTiming(h, stage)
  PROVE  ResponseInv'
<1>1. ~At(h, "idle")
  BY DEF FinishedTiming, At
<1>2. cache[finishing[h].op].text \in Texts
  BY <1>1, BusyRequest, SweptType DEF Queue, Item
<1>3. PICK seen \in Texts :
        finishing' = IF stage = Saved
                     THEN Goto(h, [finishing[h] EXCEPT !.pc = "chain", !.seen = seen])
                     ELSE Surviving(Done(h), stage)
  BY <1>1, <1>2, BusyRequest DEF FinishedTiming
<1> DEFINE fs == IF stage = Saved
                 THEN Goto(h, [finishing[h] EXCEPT !.pc = "chain", !.seen = seen])
                 ELSE Done(h)
<1>4. fs \in [Handlers -> Request] /\ RequestsSafe(fs, cache, nextId)
  BY <1>1, BusyRequest
<1>5. finishing' = Surviving(fs, stage) /\ nextId' = nextId
  BY <1>3 DEF Surviving, FinishedTiming
<1> HIDE DEF fs
<1>6. CASE Present(finishing[h].op)
  <2>1. store' = Attempt(store, cache, stage)
    BY <1>6 DEF FinishedTiming
  <2>2. cache \in Queue /\ QueueSafe(cache, store.responses) /\ Derived(cache, store.cache)
    BY SweptType DEF ResponseInv, StoreSafe, Derived, cache
  <2>3. QED
    BY <1>4, <1>5, <2>1, <2>2, SavingStep DEF cache
<1>7. CASE ~Present(finishing[h].op)
  <2>1. store' = store /\ stage = Saved
    BY <1>7 DEF FinishedTiming
  <2>2. QED
    BY <1>4, <1>5, <2>1 DEF Surviving, ResponseInv, cache
<1>8. QED
  BY <1>6, <1>7

(* Completing an operation: a prompt gets a response with its status, and  *)
(* the claimed successor is not completed.                                 *)
LEMMA CompletionSafe ==
  ASSUME TypeOK, ResponseInv, NEW o \in Ops, NEW text \in Texts,
         CanMove(Swept.cache[o].status, "completed"),
         text = NoText => ~IsPrompt(cache[o])
  PROVE  LET done == CompleteAndClaimNext(Swept.cache, o, text) IN
         /\ done \in Queue
         /\ QueueSafe(done, Swept.responses)
         /\ Derived(done, Swept.cache)
<1> DEFINE q       == Swept.cache
           waiting == Queued(q) \ {o}
           ended   == Completed(q[o], text)
           first   == [q EXCEPT ![o] = ended]
           n       == First(waiting)
<1>1. q \in Queue /\ QueueSafe(q, Swept.responses)
  BY SweptType, SweptSafe DEF StoreSafe
<1>2. q[o].status # "absent"
  BY DEF CanMove, Statuses, Active, Terminal
<1>3. text = NoText => ~IsPrompt(q[o])
  BY SweptSafe, NoPromptDropped DEF Derived, IsPrompt
<1>4. ended \in Item /\ ended.request = q[o].request
  <2>1. q[o] \in Item
    BY <1>1 DEF Queue
  <2>2. ended \in Item
    BY <2>1, ItemTypes
  <2>3. ended.request = q[o].request
    BY <2>1 DEF Completed, WithResponse, Item
  <2>4. QED
    BY <2>2, <2>3
<1>5. ItemSafe(ended, Swept.responses[o])
  BY <1>1, <1>3 DEF Completed, WithResponse, Queue, Item, ItemSafe, IsPrompt
<1>6. first \in Queue /\ \A p \in Ops : first[p] = IF p = o THEN ended ELSE q[p]
  BY <1>1, <1>4 DEF Queue
<1>7. CASE waiting = {}
  <2>1. CompleteAndClaimNext(q, o, text) = first
    BY <1>7 DEF CompleteAndClaimNext
  <2> HIDE DEF q, ended, first
  <2>2. QueueSafe(first, Swept.responses) /\ Derived(first, q)
    BY <1>1, <1>2, <1>4, <1>5, <1>6 DEF QueueSafe, Derived
  <2>3. QED
    BY <1>6, <2>1, <2>2 DEF q
<1>8. CASE waiting # {}
  <2>1. waiting \subseteq Nat /\ waiting \subseteq Ops
    BY DEF Queued, Ops
  <2>2. n \in waiting /\ n \in Ops /\ n # o /\ q[n].status = "queued"
    BY <1>8, <2>1, FirstExists DEF Queued
  <2>3. CompleteAndClaimNext(q, o, text) =
          [first EXCEPT ![n] = MarkClaimed(@), ![o].next = n]
    BY <1>8 DEF CompleteAndClaimNext
  <2> DEFINE claimed == MarkClaimed(q[n])
             chained == [ended EXCEPT !.next = n]
             done    == CompleteAndClaimNext(q, o, text)
  <2>4. done \in Queue
    BY <1>1, CompleteType
  <2>5. claimed.status = "claimed" /\ claimed.request = q[n].request
    BY <1>1, <2>2 DEF MarkClaimed, Queue, Item
  <2>6. /\ chained.status = ended.status /\ chained.request = ended.request
        /\ chained.available = ended.available /\ chained.text = ended.text
    BY <1>4 DEF Item
  <2> HIDE DEF q, waiting, ended, first, n
  <2>7. \A p \in Ops : done[p] = IF p = o THEN chained ELSE IF p = n THEN claimed ELSE q[p]
    BY <1>6, <2>2, <2>3 DEF Queue
  <2> HIDE DEF claimed, chained, done
  <2>8. ItemSafe(chained, Swept.responses[o]) /\ ItemSafe(claimed, Swept.responses[n])
    BY <1>5, <2>5, <2>6 DEF ItemSafe, IsPrompt
  <2>9. QueueSafe(done, Swept.responses) /\ Derived(done, q)
    BY <1>1, <1>2, <1>4, <2>2, <2>5, <2>6, <2>7, <2>8 DEF QueueSafe, Derived
  <2>10. QED
    BY <2>4, <2>9 DEF q, done
<1>9. QED
  BY <1>7, <1>8

LEMMA FinishedCompleteSafe ==
  ASSUME TypeOK, ResponseInv, NEW h \in Handlers, NEW stage \in Stages, NEW ackOnly \in BOOLEAN,
         FinishedComplete(h, stage, ackOnly)
  PROVE  ResponseInv'
<1> DEFINE o == finishing[h].op
<1>1. ~At(h, "idle") /\ finishing[h].pc = "complete" /\ nextId' = nextId /\ nextId \in Nat
  BY DEF FinishedComplete, At, TypeOK
<1>2. /\ o \in Ops /\ finishing[h].text \in Texts
      /\ RequestSafe(finishing[h], cache, nextId)
      /\ Done(h) \in [Handlers -> Request] /\ RequestsSafe(Done(h), cache, nextId)
  BY <1>1, BusyRequest
<1>3. CASE FinishedSweepAborts(h, stage)
  <2>1. /\ Sweep(cache) \in Queue /\ Derived(Sweep(cache), store.cache)
        /\ QueueSafe(Sweep(cache), store.responses)
    BY SweptType, SweepType, SweepSafe DEF ResponseInv, StoreSafe, cache
  <2>2. QED
    BY <1>1, <1>2, <1>3, <2>1, SavingStep DEF FinishedSweepAborts, cache
<1>4. CASE FinishedCompletes(h, stage, ackOnly)
  <2> DEFINE done == CompleteAndClaimNext(Swept.cache, o, finishing[h].text)
  <2>1. CanMove(Swept.cache[o].status, "completed")
    BY <1>4 DEF FinishedCompletes
  <2>2. finishing[h].text = NoText => ~IsPrompt(cache[o])
    BY <1>1, <1>2 DEF RequestSafe
  <2>3. done \in Queue /\ QueueSafe(done, Swept.responses) /\ Derived(done, Swept.cache)
    BY <1>2, <2>1, <2>2, CompletionSafe
  <2>4. RequestsSafe(Done(h), Swept.cache, nextId)
    BY <1>1, <1>2, SweptSafe, RequestsDerive
  <2>5. store' = Attempt(Swept, done, stage) /\ finishing' = Surviving(Done(h), stage)
    BY <1>4 DEF FinishedCompletes
  <2> HIDE DEF done
  <2>6. QED
    BY <1>1, <1>2, <2>3, <2>4, <2>5, SavingStep
<1>5. CASE FinishedTooLate(h, stage, ackOnly)
  <2>1. PICK fs \in [Handlers -> Request] :
          finishing' = fs /\ RequestsSafe(fs, cache, nextId)
    BY <1>1, <1>2, <1>5, BusyRequest DEF FinishedTooLate
  <2>2. store' = Swept
    BY <1>5 DEF FinishedTooLate
  <2>3. QED
    BY <1>1, <2>1, <2>2, SweptStep
<1>6. QED
  BY <1>3, <1>4, <1>5 DEF FinishedComplete

LEMMA FinishedRecheckSafe ==
  ASSUME TypeOK, ResponseInv, NEW h \in Handlers, NEW stage \in Stages, NEW ackOnly \in BOOLEAN,
         FinishedRecheck(h, stage, ackOnly)
  PROVE  ResponseInv'
<1> DEFINE o       == finishing[h].op
           repairs == Present(o) /\ Repairable(o)
           item    == WithResponse(store.cache[o], observed.text)
<1>1. ~At(h, "idle") /\ finishing' = Surviving(Done(h), stage) /\ nextId' = nextId
  BY DEF FinishedRecheck, At
<1>2. /\ o \in Ops /\ Done(h) \in [Handlers -> Request]
      /\ RequestsSafe(Done(h), cache, nextId)
  BY <1>1, BusyRequest
<1>3. CASE repairs
  <2>1. store' = Attempt(store, [store.cache EXCEPT ![o] = item], stage)
    BY <1>3 DEF FinishedRecheck, cache
  <2>2. observed.text \in Texts /\ observed.text # NoText /\ store.cache[o].status # "absent"
    BY <1>3 DEF TypeOK, Repairable, Present, cache
  <2>3. /\ item \in Item /\ item.request = store.cache[o].request
        /\ ItemSafe(item, store.responses[o])
    BY <1>2, <2>2, CachedItem, WithResponseSafe
  <2> HIDE DEF o, item, repairs
  <2>4. QED
    BY <1>1, <1>2, <2>1, <2>2, <2>3, ItemStep DEF cache
<1>4. CASE ~repairs
  <2>1. store' = store /\ stage = Saved
    BY <1>4 DEF FinishedRecheck
  <2>2. QED
    BY <1>1, <1>2, <2>1 DEF Surviving, ResponseInv, cache
<1>5. QED
  BY <1>3, <1>4

LEMMA FinishedSafe ==
  ASSUME TypeOK, ResponseInv, NEW h \in Handlers, Finished(h)
  PROVE  ResponseInv'
<1>1. ASSUME NEW ackOnly \in BOOLEAN, FinishedChain(h, ackOnly) PROVE ResponseInv'
  <2>1. ~At(h, "idle") /\ finishing' = Done(h) /\ UNCHANGED <<store, nextId>>
    BY <1>1 DEF FinishedChain, At
  <2>2. RequestsSafe(Done(h), cache, nextId)
    BY <2>1, BusyRequest
  <2>3. QED
    BY <2>1, <2>2 DEF ResponseInv, cache
<1>2. QED
  BY <1>1, FinishedReadSafe, FinishedEvidenceSafe, FinishedTimingSafe,
     FinishedCompleteSafe, FinishedRecheckSafe DEF Finished

-----------------------------------------------------------------------------
LEMMA InitSafe == Init => ResponseInv
<1> SUFFICES ASSUME Init PROVE ResponseInv
  OBVIOUS
<1>1. \A o \in Ops : store.cache[o] = Gone /\ store.disk[o] = Gone
  BY DEF Init
<1>2. StoreSafe(store) /\ StoreKnown(store, nextId)
  BY <1>1 DEF StoreSafe, StoreKnown, QueueSafe, DiskSafe, Unused, ItemSafe, Gone
<1>3. RequestsSafe(finishing, cache, nextId)
  BY NoRequests DEF Init
<1>4. QED
  BY <1>2, <1>3 DEF ResponseInv

LEMMA NextSafe == TypeOK /\ ResponseInv /\ [Next]_vars => ResponseInv'
<1> SUFFICES ASSUME TypeOK, ResponseInv, [Next]_vars PROVE ResponseInv'
  OBVIOUS
<1>1. CASE UNCHANGED vars
  BY <1>1, IdleStep DEF vars
<1>2. ASSUME NEW r \in Requests, QueueDuplicate(r) PROVE ResponseInv'
  BY <1>2, IdleStep DEF QueueDuplicate
<1>3. ASSUME NEW r \in Requests, NEW stage \in Stages, QueueOperation(r, stage)
      PROVE  ResponseInv'
  BY <1>3, QueueOperationSafe
<1>4. ASSUME NEW o \in Ops, NEW waiting \in BOOLEAN, GetOperation(o, waiting)
      PROVE  ResponseInv'
  BY <1>4, IdleStep DEF GetOperation
<1>5. ASSUME NEW stage \in Stages, GetStatus(stage) \/ ClaimNextOperation(stage)
      PROVE  ResponseInv'
  BY <1>5, ClaimsSafe
<1>6. ASSUME NEW o \in Ops, NEW stage \in Stages,
             \/ GetOperationRepaired(o, stage) \/ ClaimOperation(o, stage)
             \/ Heartbeat(o, stage) \/ PersistMetadata(o, stage) \/ FailOperation(o, stage)
             \/ \E text \in Texts, recorded \in BOOLEAN :
                  SaveBrowserObservation(o, text, stage, recorded)
             \/ \E c \in RetryClasses : RetryOperation(o, c, stage)
      PROVE  ResponseInv'
  BY <1>6, GetOperationRepairedSafe, ClaimsSafe, ReportSafe, ObservationSafe,
     RetryOperationSafe
<1>7. ASSUME NEW h \in Handlers, Finished(h) PROVE ResponseInv'
  BY <1>7, FinishedSafe
<1>8. CASE Crash
  <2>1. StoreSafe(store') /\ StoreKnown(store', nextId)
    BY <1>8, RestartSafe DEF Crash, TypeOK, ResponseInv
  <2>2. QED
    BY <1>8, <2>1, NoRequests DEF Crash, ResponseInv
<1>9. CASE Tick
  BY <1>9, IdleStep DEF Tick
<1>10. QED
  BY <1>1, <1>2, <1>3, <1>4, <1>5, <1>6, <1>7, <1>8, <1>9 DEF Next

LEMMA ResponseInvHolds == Spec => []ResponseInv
  BY InitSafe, NextSafe, TypeCorrect, PTL DEF Spec

(* A prompt that queue.json calls completed has its response on disk, for  *)
(* any number of operations and finish requests, any retention limit, and  *)
(* any stage at which a save dies or fails, IO errors included.            *)
THEOREM CompletedPromptsKeepResponses == Spec => []CompletedPromptHasResponse
<1>1. ResponseInv => CompletedPromptHasResponse
  BY DEF ResponseInv, StoreSafe, DiskSafe, CompletedPromptHasResponse, disk
<1>2. QED
  BY <1>1, ResponseInvHolds, PTL

=============================================================================
