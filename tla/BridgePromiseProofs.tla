------------------------- MODULE BridgePromiseProofs -------------------------
(***************************************************************************)
(* What the bridge tells its clients stays true: an idempotency key has    *)
(* one unfinished operation, what was answered is on disk, all answers     *)
(* about one operation agree, the bridge implements DurableQueue, and no   *)
(* operation is claimed more often than its retries and leases pay for.    *)
(***************************************************************************)
EXTENDS BridgeQueueProofs, BridgeQueueHistory, SetSums

(* Retention drops an operation that this many younger ones crowd out.     *)
Crowd(q, o) == {p \in TerminalOps(q) : p > o}

CrowdedIn(q, o) == Cardinality(Crowd(q, o)) >= MaxTerminal

-----------------------------------------------------------------------------
(* Counting.                                                               *)

LEMMA CrowdFinite ==
  ASSUME NEW q, NEW o
  PROVE  IsFiniteSet(Crowd(q, o)) /\ Crowd(q, o) \subseteq Ops /\ Cardinality(Crowd(q, o)) \in Nat
<1>1. IsFiniteSet(Ops)
  BY FS_Interval, StoreAssumption DEF Ops
<1>2. Crowd(q, o) \subseteq Ops
  BY DEF Crowd, TerminalOps
<1>3. QED
  BY <1>1, <1>2, FS_Subset, FS_CardinalityType

LEMMA CrowdGrows ==
  ASSUME NEW p, NEW q, NEW o, NEW r, Crowd(p, o) \subseteq Crowd(q, r), CrowdedIn(p, o)
  PROVE  CrowdedIn(q, r)
<1>1. Cardinality(Crowd(p, o)) <= Cardinality(Crowd(q, r))
  BY CrowdFinite, FS_Subset
<1>2. QED
  BY <1>1, CrowdFinite, StoreAssumption DEF CrowdedIn

(* Every nonempty set of operations has a last one.                        *)
LEMMA LastExists ==
  ASSUME NEW S, S \subseteq Ops, S # {}
  PROVE  \E x \in S : \A y \in S : y <= x
<1> DEFINE T == {MaxOps - x : x \in S}
<1>0. \A x \in Ops : MaxOps - x \in Nat
  BY StoreAssumption DEF Ops
<1>1. T \subseteq Nat /\ T # {}
  BY <1>0
<1>2. PICK t \in T : \A u \in T : t <= u
  BY <1>1, FirstExists
<1>3. PICK x \in S : t = MaxOps - x
  BY <1>2
<1>4. \A y \in S : t <= MaxOps - y
  BY <1>2
<1>5. \A y \in S : y \in Nat
  BY DEF Ops
<1>6. \A y \in S : y <= x
  BY <1>3, <1>4, <1>5, StoreAssumption
<1>7. QED
  BY <1>6

(* What retention keeps is enough to crowd out what it drops: if the       *)
(* operations younger than o were too many, the kept ones still are.  The  *)
(* last of the dropped ones is itself crowded out by kept ones.            *)
LEMMA RetainedCrowd ==
  ASSUME NEW q \in Queue, NEW o \in Ops, CrowdedIn(q, o)
  PROVE  CrowdedIn(Retain(q), o)
<1> DEFINE dropped == Crowd(q, o) \cap Evicted(q)
<1>1. \A p \in Crowd(q, o) : p \notin dropped => p \in Crowd(Retain(q), o)
  BY DEF Crowd, TerminalOps, Retain, Queue
<1>2. CASE dropped = {}
  <2>1. Crowd(q, o) \subseteq Crowd(Retain(q), o)
    BY <1>1, <1>2
  <2>2. QED
    BY <2>1, CrowdGrows
<1>3. CASE dropped # {}
  <2>1. dropped \subseteq Ops
    BY DEF Crowd, TerminalOps
  <2>2. PICK x \in dropped : \A y \in dropped : y <= x
    BY <1>3, <2>1, LastExists
  <2>3. x \in Ops /\ x \in Nat /\ o \in Nat /\ x > o /\ CrowdedIn(q, x)
    BY <2>1, <2>2 DEF Crowd, Evicted, CrowdedIn, Ops
  <2>4. \A p \in Crowd(q, x) : p \in Nat /\ p > x
    BY DEF Crowd, TerminalOps, Ops
  <2>5. \A p \in Crowd(q, x) : p > o /\ p \in Crowd(q, o) /\ p \notin dropped
    BY <2>2, <2>3, <2>4 DEF Crowd
  <2>6. Crowd(q, x) \subseteq Crowd(Retain(q), o)
    BY <1>1, <2>5
  <2>7. QED
    BY <2>3, <2>6, CrowdGrows
<1>4. QED
  BY <1>2, <1>3

(* The queue a save writes.                                                *)
LEMMA FinalCrowd ==
  ASSUME NEW q \in Queue, NEW o \in Ops
  PROVE  LET final == Retain(Compact(q)) IN
         /\ CrowdedIn(q, o) => CrowdedIn(final, o)
         /\ final[o] = Gone => q[o].status = "absent" \/ CrowdedIn(final, o)
         /\ final[o].status \in Terminal => final[o].text = NoText
<1>1. Compact(q) \in Queue
  BY DEF Compact, Queue, Item, Texts
<1>2. \A p \in Ops : /\ Compact(q)[p].status = q[p].status
                     /\ q[p].status \in Terminal => Compact(q)[p].text = NoText
  BY DEF Compact, Queue, Item, Inline, TerminalOps
<1>3. TerminalOps(Compact(q)) = TerminalOps(q)
  BY <1>2 DEF TerminalOps
<1>4. \A p : Crowd(Compact(q), p) = Crowd(q, p)
  BY <1>3 DEF Crowd
<1>5. \A p \in Ops : CrowdedIn(q, p) => CrowdedIn(Retain(Compact(q)), p)
  BY <1>1, <1>4, RetainedCrowd DEF CrowdedIn
<1>6. o \in Evicted(Compact(q)) => CrowdedIn(q, o)
  BY <1>3, <1>4 DEF Evicted, Crowd, CrowdedIn
<1>7. Retain(Compact(q))[o] = IF o \in Evicted(Compact(q)) THEN Gone ELSE Compact(q)[o]
  BY DEF Retain
<1>8. Gone.status = "absent" /\ "absent" \notin Terminal
  BY DEF Gone, Terminal
<1>9. QED
  BY <1>2, <1>5, <1>6, <1>7, <1>8

-----------------------------------------------------------------------------
(* An idempotency key has one unfinished operation.                        *)

Unique(q) ==
  \A r \in KeyedRequests : \A o, p \in Ops :
    /\ q[o].status \in Active /\ q[o].request = r
    /\ q[p].status \in Active /\ q[p].request = r
    => o = p

(* No operation of q is unfinished that was not already so in p.           *)
Quiet(q, p) ==
  \A o \in Ops :
    q[o].status \in Active => p[o].status \in Active /\ p[o].request = q[o].request

(* The queue on disk is a former cache, to which a restart goes back.      *)
KeyInv == Unique(store.cache) /\ Unique(store.disk)

LEMMA QuietUnique ==
  ASSUME NEW p, NEW q, Unique(p), Quiet(q, p)
  PROVE  Unique(q)
  BY DEF Unique, Quiet

LEMMA SavedQueueQuiet ==
  ASSUME NEW st \in Store, NEW q \in Queue, NEW stage \in Stages
  PROVE  LET new == SaveQueue(st, q, stage) IN
         Quiet(new.cache, q) /\ (new.disk = st.disk \/ Quiet(new.disk, q))
<1> DEFINE final == Retain(Compact(q))
           new   == SaveQueue(st, q, stage)
<1>1. Gone.status \notin Active
  BY DEF Gone, Active
<1>2. Quiet(final, q) /\ Quiet(q, q)
  BY <1>1, FinalQueue DEF Quiet
<1>3. Quiet(Retain(q), q)
  BY <1>1 DEF Quiet, Retain
<1>4. CASE stage < Replaced
  <2>1. new.disk = st.disk /\ new.cache \in {q, Retain(q)}
    BY <1>4 DEF SaveQueue, Store
  <2>2. QED
    BY <1>2, <1>3, <2>1
<1>5. CASE ~(stage < Replaced)
  <2>1. new.disk = final /\ new.cache = final
    BY <1>5 DEF SaveQueue, Store
  <2>2. QED
    BY <1>2, <2>1
<1>6. QED
  BY <1>4, <1>5

LEMMA AttemptUnique ==
  ASSUME NEW st \in Store, NEW q \in Queue, NEW stage \in Stages,
         Unique(st.disk), Unique(q)
  PROVE  LET new == Attempt(st, q, stage) IN Unique(new.cache) /\ Unique(new.disk)
<1> DEFINE saved == SaveQueue(st, q, stage)
<1>1. Unique(saved.cache) /\ Unique(saved.disk)
  BY SavedQueueQuiet, QuietUnique
<1>2. Restart(saved).cache = saved.disk /\ Restart(saved).disk = saved.disk
  BY SaveQueueType DEF Restart, Store
<1>3. QED
  BY <1>1, <1>2 DEF Attempt

LEMMA SweepQuiet ==
  ASSUME TypeOK, NEW q \in Queue
  PROVE  Quiet(Sweep(q), q)
<1>1. ASSUME NEW item \in Item, SweepItem(item).status \in Active
      PROVE  item.status \in Active /\ SweepItem(item).request = item.request
  BY <1>1 DEF SweepItem, Item, Active
<1>2. QED
  BY <1>1 DEF Sweep, Queue, Quiet

LEMMA SweptUnique ==
  ASSUME TypeOK, KeyInv, NEW st \in {store, Swept}
  PROVE  Unique(st.cache) /\ Unique(st.disk) /\ st \in Store
<1>1. st \in Store
  BY SweptType DEF TypeOK
<1>2. Unique(Sweep(cache)) /\ Sweep(cache) \in Queue /\ store \in Store /\ Saved \in Stages
  BY SweptType, SweepType, SweepQuiet, QuietUnique DEF KeyInv, cache, TypeOK, Stages
<1>3. SaveQueue(store, Sweep(cache), Saved) = Attempt(store, Sweep(cache), Saved)
  BY DEF Attempt
<1>4. CASE st = store
  BY <1>1, <1>4 DEF KeyInv
<1>5. CASE st = SaveQueue(store, Sweep(cache), Saved)
  BY <1>1, <1>2, <1>3, <1>5, AttemptUnique DEF KeyInv
<1>6. QED
  BY <1>4, <1>5 DEF Swept

(* An action that saves a queue in which nothing new is unfinished.        *)
LEMMA QuietStep ==
  ASSUME TypeOK, KeyInv, NEW st \in {store, Swept}, NEW q \in Queue, NEW stage \in Stages,
         Quiet(q, st.cache), store' = Attempt(st, q, stage)
  PROVE  KeyInv'
<1>1. Unique(q)
  BY SweptUnique, QuietUnique
<1>2. QED
  BY <1>1, SweptUnique, AttemptUnique DEF KeyInv

LEMMA QuietItemStep ==
  ASSUME TypeOK, KeyInv, NEW st \in {store, Swept}, NEW o \in Ops, NEW item \in Item,
         NEW stage \in Stages,
         item.status \in Active =>
           st.cache[o].status \in Active /\ item.request = st.cache[o].request,
         store' = Attempt(st, [st.cache EXCEPT ![o] = item], stage)
  PROVE  KeyInv'
<1> DEFINE q == [st.cache EXCEPT ![o] = item]
<1>1. st.cache \in Queue
  BY SweptUnique DEF Store
<1>2. q \in Queue /\ \A p \in Ops : q[p] = IF p = o THEN item ELSE st.cache[p]
  BY <1>1 DEF Queue
<1>3. store' = Attempt(st, q, stage)
  OBVIOUS
<1> HIDE DEF q
<1>4. Quiet(q, st.cache)
  BY <1>2 DEF Quiet
<1>5. QED
  BY <1>2, <1>3, <1>4, QuietStep

(* What the methods do to an item.                                         *)
LEMMA ItemChanges ==
  ASSUME NEW item \in Item
  PROVE  /\ \A text : /\ WithResponse(item, text) = [item EXCEPT !.text = text, !.available = TRUE]
                      /\ WithResponse(item, text).status = item.status
                      /\ WithResponse(item, text).request = item.request
         /\ \A s \in Statuses : /\ [item EXCEPT !.status = s].status = s
                                /\ [item EXCEPT !.status = s].request = item.request
         /\ MarkClaimed(item).status = "claimed" /\ MarkClaimed(item).request = item.request
         /\ \A c \in RetryClasses :
              /\ Retried(item, c).status = RetryTarget(item, c)
              /\ Retried(item, c).request = item.request
              /\ Retried(item, c).text = item.text
<1>1. \A text : /\ WithResponse(item, text) = [item EXCEPT !.text = text, !.available = TRUE]
                /\ WithResponse(item, text).status = item.status
                /\ WithResponse(item, text).request = item.request
  BY DEF WithResponse, Item
<1>2. \A s \in Statuses : /\ [item EXCEPT !.status = s].status = s
                          /\ [item EXCEPT !.status = s].request = item.request
  BY DEF Item
<1>3. MarkClaimed(item).status = "claimed" /\ MarkClaimed(item).request = item.request
  BY DEF MarkClaimed, Item
<1>4. ASSUME NEW c \in RetryClasses
      PROVE  /\ Retried(item, c).status = RetryTarget(item, c)
             /\ Retried(item, c).request = item.request
             /\ Retried(item, c).text = item.text
  BY DEF Retried, Item
<1>5. QED
  BY <1>1, <1>2, <1>3, <1>4

(* The table lets only an unfinished operation move.                       *)
LEMMA MovesAreActive ==
  ASSUME NEW status, NEW target, CanMove(status, target)
  PROVE  status \in Active /\ target \in Statuses
  BY DEF CanMove, AllowedTransitions, Statuses, Active, Terminal

LEMMA KeyQueueOperation ==
  ASSUME TypeOK, KeyInv, NEW r \in Requests, NEW stage \in Stages, QueueOperation(r, stage)
  PROVE  KeyInv'
<1> DEFINE q == [cache EXCEPT ![nextId] = NewItem(r)]
<1>1. nextId \in Ops /\ cache \in Queue /\ NewItem(r) \in Item /\ store \in Store
  BY NewItemType, SweptType DEF QueueOperation, TypeOK, Ops
<1>2. NewItem(r).request = r
  BY DEF NewItem, Gone
<1>3. q \in Queue /\ \A o \in Ops : q[o] = IF o = nextId THEN NewItem(r) ELSE cache[o]
  BY <1>1 DEF Queue
<1>4. store' = Attempt(store, q, stage)
  BY DEF QueueOperation
<1>5. r \in KeyedRequests => \A o \in Ops : cache[o].status \in Active => cache[o].request # r
  BY DEF QueueOperation, ActiveDuplicates, ActiveOps
<1> HIDE DEF q
<1>6. Unique(q)
  BY <1>2, <1>3, <1>5 DEF Unique, KeyInv, cache
<1>7. QED
  BY <1>1, <1>3, <1>4, <1>6, AttemptUnique DEF KeyInv

LEMMA KeySweepAborts ==
  ASSUME TypeOK, KeyInv, NEW stage \in Stages, SweepAborts(stage)
  PROVE  KeyInv'
<1>1. Sweep(cache) \in Queue /\ Quiet(Sweep(cache), store.cache)
  BY SweptType, SweepType, SweepQuiet DEF cache
<1>2. QED
  BY <1>1, QuietStep DEF SweepAborts

LEMMA KeySwept ==
  ASSUME TypeOK, KeyInv, store' = Swept
  PROVE  KeyInv'
  BY SweptUnique DEF KeyInv

LEMMA KeyClaims ==
  ASSUME TypeOK, KeyInv, NEW stage \in Stages,
         \/ GetStatus(stage) \/ ClaimNextOperation(stage)
         \/ \E o \in Ops : ClaimOperation(o, stage)
  PROVE  KeyInv'
<1>1. CASE SweepAborts(stage)
  BY <1>1, KeySweepAborts
<1>2. CASE OnlySweeps(stage)
  BY <1>2, KeySwept DEF OnlySweeps
<1>3. CASE \E o \in Queued(Swept.cache) : ClaimFrom(Swept, o, stage)
  <2>1. PICK o \in Queued(Swept.cache) : ClaimFrom(Swept, o, stage)
    BY <1>3
  <2>2. o \in Ops /\ Swept.cache[o].status = "queued" /\ Swept.cache[o] \in Item
    BY SweptType DEF Queued, Queue
  <2> DEFINE item == MarkClaimed(Swept.cache[o])
  <2>3. item \in Item /\ item.status = "claimed" /\ item.request = Swept.cache[o].request
    BY <2>2, ItemTypes, ItemChanges
  <2>4. store' = Attempt(Swept, [Swept.cache EXCEPT ![o] = item], stage)
    BY <2>1 DEF ClaimFrom
  <2> HIDE DEF item
  <2>5. QED
    BY <2>2, <2>3, <2>4, QuietItemStep DEF Active
<1>4. QED
  BY <1>1, <1>2, <1>3 DEF GetStatus, ClaimNextOperation, ClaimOperation

LEMMA KeyUpdate ==
  ASSUME TypeOK, KeyInv, NEW o \in Ops, NEW item \in Item, NEW stage \in Stages,
         Update(o, item, stage), item.request = cache[o].request,
         item.status \in Active => cache[o].status \in Active
  PROVE  KeyInv'
<1>1. store' = Attempt(store, [store.cache EXCEPT ![o] = item], stage)
  BY DEF Update, cache
<1>2. QED
  BY <1>1, QuietItemStep DEF cache

LEMMA KeyReports ==
  ASSUME TypeOK, KeyInv, NEW o \in Ops, NEW stage \in Stages,
         \/ Heartbeat(o, stage) \/ PersistMetadata(o, stage) \/ FailOperation(o, stage)
         \/ \E c \in RetryClasses : RetryOperation(o, c, stage)
  PROVE  KeyInv'
<1>1. cache[o] \in Item
  BY SweptType DEF Queue
<1>2. CASE Heartbeat(o, stage)
  BY <1>1, <1>2, KeyUpdate, ItemTypes, ItemChanges, MovesAreActive
     DEF Heartbeat, Statuses, Active
<1>3. CASE PersistMetadata(o, stage)
  BY <1>1, <1>3, KeyUpdate DEF PersistMetadata
<1>4. CASE FailOperation(o, stage)
  BY <1>1, <1>4, KeyUpdate, ItemTypes, ItemChanges, MovesAreActive
     DEF FailOperation, Statuses, Active, Terminal
<1>5. ASSUME NEW c \in RetryClasses, RetryOperation(o, c, stage) PROVE KeyInv'
  BY <1>1, <1>5, KeyUpdate, RetriedType, ItemChanges, MovesAreActive DEF RetryOperation
<1>6. QED
  BY <1>2, <1>3, <1>4, <1>5

(* A response is put into an item of the cache, and saved.                 *)
LEMMA KeyResponse ==
  ASSUME TypeOK, KeyInv, NEW o \in Ops, NEW text \in Texts, NEW stage \in Stages,
         store' = Attempt(store, [cache EXCEPT ![o] = WithResponse(@, text)], stage)
  PROVE  KeyInv'
<1> DEFINE item == WithResponse(store.cache[o], text)
<1>1. store.cache[o] \in Item
  BY DEF TypeOK, Store, Queue
<1>2. item \in Item /\ item.status = store.cache[o].status /\ item.request = store.cache[o].request
  BY <1>1, ItemTypes, ItemChanges
<1>3. store' = Attempt(store, [store.cache EXCEPT ![o] = item], stage)
  BY DEF cache
<1> HIDE DEF item
<1>4. QED
  BY <1>2, <1>3, QuietItemStep

LEMMA KeyObservation ==
  ASSUME TypeOK, KeyInv, NEW o \in Ops, NEW text \in Texts, NEW stage \in Stages,
         NEW recorded \in BOOLEAN, SaveBrowserObservation(o, text, stage, recorded)
  PROVE  KeyInv'
<1> DEFINE item  == WithResponse(store.cache[o], text)
           q     == [store.cache EXCEPT ![o] = item]
           saved == Attempt(store, q, stage)
<1>1. PICK st \in {store, saved} : store' = st \/ store' = Restart(st)
  BY DEF SaveBrowserObservation, cache
<1>2. store.cache[o] \in Item /\ store.cache \in Queue /\ store \in Store
  BY DEF TypeOK, Store, Queue
<1>3. item \in Item /\ item.status = store.cache[o].status /\ item.request = store.cache[o].request
  BY <1>2, ItemTypes, ItemChanges
<1> HIDE DEF item
<1>4. q \in Queue /\ \A p \in Ops : q[p] = IF p = o THEN item ELSE store.cache[p]
  BY <1>2, <1>3 DEF Queue
<1> HIDE DEF q
<1>5. Quiet(q, store.cache)
  BY <1>3, <1>4 DEF Quiet
<1>6. Unique(q) /\ Unique(store.disk) /\ Unique(store.cache)
  BY <1>5, QuietUnique DEF KeyInv
<1>7. Unique(saved.cache) /\ Unique(saved.disk) /\ saved \in Store
  BY <1>2, <1>4, <1>6, AttemptUnique, AttemptType
<1> HIDE DEF saved
<1>8. Unique(st.cache) /\ Unique(st.disk) /\ st \in Store
  BY <1>2, <1>6, <1>7
<1>9. Restart(st).cache = st.disk /\ Restart(st).disk = st.disk
  BY <1>8 DEF Restart, Store
<1>10. QED
  BY <1>1, <1>8, <1>9 DEF KeyInv

(* Completing an operation makes nothing new unfinished: the successor it  *)
(* claims was queued.                                                      *)
LEMMA CompletionQuiet ==
  ASSUME TypeOK, NEW q \in Queue, NEW o \in Ops, NEW text \in Texts
  PROVE  Quiet(CompleteAndClaimNext(q, o, text), q)
<1> DEFINE waiting == Queued(q) \ {o}
           ended   == Completed(q[o], text)
           n       == First(waiting)
           done    == CompleteAndClaimNext(q, o, text)
<1>0. q[o] \in Item
  BY DEF Queue
<1>1. ended \in Item /\ ended.status = "completed" /\ "completed" \notin Active
  <2>1. ended.status = "completed"
    BY <1>0 DEF Completed, WithResponse, Item
  <2>2. QED
    BY <1>0, <2>1, ItemTypes DEF Active
<1>2. CASE waiting = {}
  <2>1. done = [q EXCEPT ![o] = ended]
    BY <1>2 DEF CompleteAndClaimNext
  <2> HIDE DEF done, ended
  <2>2. QED
    BY <1>1, <2>1 DEF Quiet, Queue, done
<1>3. CASE waiting # {}
  <2>1. waiting \subseteq Nat /\ waiting \subseteq Ops
    BY DEF Queued, Ops
  <2>2. n \in waiting /\ n \in Ops /\ n # o /\ q[n].status = "queued" /\ q[n] \in Item
    BY <1>3, <2>1, FirstExists DEF Queued, Queue
  <2>3. done = [[q EXCEPT ![o] = ended] EXCEPT ![n] = MarkClaimed(@), ![o].next = n]
    BY <1>3 DEF CompleteAndClaimNext
  <2> HIDE DEF done, ended, waiting, n
  <2>4. \A p \in Ops : done[p] = IF p = o THEN [ended EXCEPT !.next = n]
                                 ELSE IF p = n THEN MarkClaimed(q[n]) ELSE q[p]
    BY <2>2, <2>3 DEF Queue
  <2>5. [ended EXCEPT !.next = n].status = "completed"
    BY <1>1 DEF Item
  <2>6. MarkClaimed(q[n]).request = q[n].request /\ q[n].status \in Active
    BY <2>2, ItemChanges DEF Active
  <2> HIDE DEF Completed
  <2>7. QED
    BY <1>1, <2>4, <2>5, <2>6 DEF Quiet, done
<1>4. QED
  BY <1>2, <1>3

LEMMA KeyFinished ==
  ASSUME TypeOK, KeyInv, NEW h \in Handlers, Finished(h)
  PROVE  KeyInv'
<1> DEFINE o == finishing[h].op
<1>1. ~At(h, "idle") =>
        o \in Ops /\ finishing[h].text \in Texts /\ cache[o] \in Item /\ cache \in Queue
  BY SweptType DEF TypeOK, Request, Idle, At, Queue
<1>2. store \in Store /\ Quiet(cache, store.cache) /\ observed.text \in Texts
  BY DEF TypeOK, Quiet, cache
<1>3. CASE UNCHANGED store
  BY <1>3 DEF KeyInv
<1>4. ASSUME NEW stage \in Stages, FinishedEvidence(h, stage) PROVE KeyInv'
  <2> DEFINE recorded == RecordedResponse(o)
             adds == Present(o) /\ ~(cache[o].available /\ recorded # NoText)
  <2>1. ~At(h, "idle")
    BY <1>4 DEF FinishedEvidence, At
  <2>2. CASE adds
    <3>1. store' = Attempt(store, [cache EXCEPT ![o] = WithResponse(@, finishing[h].text)], stage)
      BY <1>4, <2>2 DEF FinishedEvidence
    <3>2. QED
      BY <1>1, <2>1, <3>1, KeyResponse
  <2>3. CASE ~adds /\ Present(o)
    <3>1. store' = [store EXCEPT !.cache[o].text = recorded]
      BY <1>4, <2>3 DEF FinishedEvidence
    <3> HIDE DEF recorded, o
    <3>2. store'.disk = store.disk /\ Quiet(store'.cache, store.cache)
      BY <1>1, <1>2, <2>1, <3>1 DEF Store, Queue, Item, Quiet, cache
    <3>3. QED
      BY <3>2, QuietUnique DEF KeyInv
  <2>4. CASE ~adds /\ ~Present(o)
    <3>1. store' = store
      BY <1>4, <2>4 DEF FinishedEvidence
    <3>2. QED
      BY <3>1 DEF KeyInv
  <2>5. QED
    BY <2>2, <2>3, <2>4
<1>5. ASSUME NEW stage \in Stages, FinishedTiming(h, stage) PROVE KeyInv'
  <2>1. ~At(h, "idle")
    BY <1>5 DEF FinishedTiming, At
  <2>2. CASE Present(o)
    <3>1. store' = Attempt(store, cache, stage)
      BY <1>5, <2>2 DEF FinishedTiming
    <3>2. QED
      BY <1>1, <1>2, <2>1, <3>1, QuietStep
  <2>3. CASE ~Present(o)
    <3>1. store' = store
      BY <1>5, <2>3 DEF FinishedTiming
    <3>2. QED
      BY <3>1 DEF KeyInv
  <2>4. QED
    BY <2>2, <2>3
<1>6. ASSUME NEW stage \in Stages, NEW ackOnly \in BOOLEAN, FinishedComplete(h, stage, ackOnly)
      PROVE  KeyInv'
  <2>1. ~At(h, "idle")
    BY <1>6 DEF FinishedComplete, At
  <2>2. CASE FinishedSweepAborts(h, stage)
    <3>1. Sweep(cache) \in Queue /\ Quiet(Sweep(cache), store.cache)
      BY SweptType, SweepType, SweepQuiet DEF cache
    <3>2. QED
      BY <2>2, <3>1, QuietStep DEF FinishedSweepAborts
  <2>3. CASE FinishedCompletes(h, stage, ackOnly)
    <3> DEFINE done == CompleteAndClaimNext(Swept.cache, o, finishing[h].text)
    <3>1. done \in Queue /\ Quiet(done, Swept.cache)
      BY <1>1, <2>1, SweptType, CompleteType, CompletionQuiet
    <3>2. store' = Attempt(Swept, done, stage)
      BY <2>3 DEF FinishedCompletes
    <3> HIDE DEF done
    <3>3. QED
      BY <3>1, <3>2, QuietStep
  <2>4. CASE FinishedTooLate(h, stage, ackOnly)
    BY <2>4, KeySwept DEF FinishedTooLate
  <2>5. QED
    BY <1>6, <2>2, <2>3, <2>4 DEF FinishedComplete
<1>7. ASSUME NEW stage \in Stages, NEW ackOnly \in BOOLEAN, FinishedRecheck(h, stage, ackOnly)
      PROVE  KeyInv'
  <2>1. ~At(h, "idle")
    BY <1>7 DEF FinishedRecheck, At
  <2>2. CASE Present(o) /\ Repairable(o)
    <3>1. store' = Attempt(store, [cache EXCEPT ![o] = WithResponse(@, observed.text)], stage)
      BY <1>7, <2>2 DEF FinishedRecheck
    <3>2. QED
      BY <1>1, <1>2, <2>1, <3>1, KeyResponse
  <2>3. CASE ~(Present(o) /\ Repairable(o))
    <3>1. store' = store
      BY <1>7, <2>3 DEF FinishedRecheck
    <3>2. QED
      BY <3>1 DEF KeyInv
  <2>4. QED
    BY <2>2, <2>3
<1>8. QED
  BY <1>3, <1>4, <1>5, <1>6, <1>7 DEF Finished, FinishedRead, FinishedChain

LEMMA NextUnique == TypeOK /\ KeyInv /\ [Next]_vars => KeyInv'
<1> SUFFICES ASSUME TypeOK, KeyInv, [Next]_vars PROVE KeyInv'
  OBVIOUS
<1>1. CASE UNCHANGED store
  BY <1>1 DEF KeyInv
<1>2. ASSUME NEW r \in Requests, NEW stage \in Stages, QueueOperation(r, stage)
      PROVE  KeyInv'
  BY <1>2, KeyQueueOperation
<1>3. ASSUME NEW stage \in Stages, GetStatus(stage) \/ ClaimNextOperation(stage)
      PROVE  KeyInv'
  BY <1>3, KeyClaims
<1>4. ASSUME NEW o \in Ops, NEW stage \in Stages, GetOperationRepaired(o, stage)
      PROVE  KeyInv'
  BY <1>4, KeyResponse DEF GetOperationRepaired, TypeOK
<1>5. ASSUME NEW o \in Ops, NEW stage \in Stages,
             \/ ClaimOperation(o, stage)
             \/ Heartbeat(o, stage) \/ PersistMetadata(o, stage) \/ FailOperation(o, stage)
             \/ \E text \in Texts, recorded \in BOOLEAN :
                  SaveBrowserObservation(o, text, stage, recorded)
             \/ \E c \in RetryClasses : RetryOperation(o, c, stage)
      PROVE  KeyInv'
  BY <1>5, KeyClaims, KeyReports, KeyObservation
<1>6. CASE Crash
  BY <1>6 DEF Crash, Restart, KeyInv, TypeOK, Store
<1>7. QED
  BY <1>1, <1>2, <1>3, <1>4, <1>5, <1>6, KeyFinished
     DEF Next, vars, QueueDuplicate, GetOperation, Tick

(* Submissions under one idempotency key share one unfinished operation,   *)
(* for any number of operations and clients, wherever the bridge dies, and *)
(* even when a write fails and leaves its change in the cache.             *)
THEOREM OneActive == Spec => []OneActivePerKey
<1>1. Init => KeyInv
  BY DEF Init, KeyInv, Unique, Gone, Active
<1>2. KeyInv => OneActivePerKey
  <2> SUFFICES ASSUME KeyInv, NEW r \in KeyedRequests
               PROVE  Cardinality({o \in ActiveOps(cache) : cache[o].request = r}) <= 1
    BY DEF OneActivePerKey
  <2> DEFINE S == {o \in ActiveOps(cache) : cache[o].request = r}
  <2>1. \A o, p \in S : o = p
    BY DEF KeyInv, Unique, ActiveOps, cache
  <2>2. CASE S = {}
    BY <2>2, FS_EmptySet
  <2>3. CASE S # {}
    <3>1. PICK o \in S : S = {o}
      BY <2>1, <2>3
    <3>2. Cardinality({o}) = 1
      BY FS_Singleton
    <3> HIDE DEF S
    <3>3. Cardinality(S) = 1
      BY <3>1, <3>2
    <3>4. QED
      BY <3>3 DEF S
  <2>4. QED
    BY <2>2, <2>3
<1>3. Spec => []KeyInv
  BY <1>1, NextUnique, TypeCorrect, PTL DEF Spec
<1>4. QED
  BY <1>2, <1>3, PTL

-----------------------------------------------------------------------------
(* The rest is about a bridge whose writes fail only with the process.     *)
(*                                                                         *)
(* Between two steps the cache is what queue.json holds, but for the text  *)
(* of a recorded response that a finish request put back into its item.    *)
Matches(st) ==
  \A o \in Ops :
    /\ st.disk[o].status \in Terminal => st.disk[o].text = NoText
    /\ \/ st.cache[o] = st.disk[o]
       \/ /\ st.disk[o].status = "completed"
          /\ st.responses[o] # NoText
          /\ st.cache[o] = [st.disk[o] EXCEPT !.text = st.responses[o]]

(* A finish request that goes on to repeat the answer of an operation it   *)
(* found completed.                                                        *)
Repeats(f) == f.pc \in {"evidence", "timing", "chain"}

RepeaterSafe(f) ==
  /\ \/ /\ disk[f.op].status = "completed"
        /\ f.pc = "evidence" => IsPrompt(disk[f.op])
     \/ disk[f.op].status = "absent" /\ CrowdedIn(disk, f.op)
  /\ \A a \in replies[f.op].answers : a.status = "completed"

(* The responses of o that clients were given, or are about to be given.   *)
Words(o) ==
  ({a.text : a \in replies[o].answers} \cup
   {finishing[h].seen : h \in {g \in Handlers : Repeats(finishing[g]) /\ finishing[g].op = o}})
  \ {NoText}

OneWord(o) ==
  /\ \A v, w \in Words(o) : v = w
  /\ disk[o].status = "completed" => \A w \in Words(o) : w = store.responses[o]

OneStatus(o) == \A a, b \in replies[o].answers : a.status = b.status

PromiseInv ==
  /\ Matches(store)
  /\ AnsweredIsDurable
  /\ \A o \in Ops : OneStatus(o) /\ OneWord(o)
  /\ \A o \in Ops : o >= nextId => replies[o].answers = {}
  /\ \A h \in Handlers : Repeats(finishing[h]) => RepeaterSafe(finishing[h])

(* What a method makes of an item it found in the cache.                   *)
ItemSettles(new, old) ==
  /\ old.status = "absent" => new.status = "absent"
  /\ old.status = "completed" => new = old
  /\ old.status = "failed" => new.status = "failed"
  /\ old.status \in Active => new.status \in Statuses
  /\ old.status # "absent" => new.request = old.request

(* The operations in fresh are new in q.                                   *)
Settles(q, p, fresh) ==
  \A o \in Ops :
    /\ o \notin fresh => ItemSettles(q[o], p[o])
    /\ o \in fresh => q[o].status = "queued" /\ p[o].status = "absent"

(* What may become of queue.json in one step: d before, e after.           *)
Ages(e, d, fresh) ==
  \A o \in Ops :
    /\ o \in fresh => d[o].status = "absent" /\ e[o].status \in {"absent", "queued"}
    /\ o \notin fresh =>
         \/ e[o].status = d[o].status /\ e[o].status # "absent"
         \/ d[o].status = "absent" /\ e[o].status = "absent"
         \/ d[o].status \in Active /\ e[o].status \in Statuses
         \/ e[o].status = "absent" /\ CrowdedIn(e, o)
    /\ CrowdedIn(d, o) => CrowdedIn(e, o)
    /\ o \notin fresh /\ e[o].status # "absent" => e[o].request = d[o].request

Continues(new, old, fresh) ==
  /\ Matches(new)
  /\ Ages(new.disk, old.disk, fresh)
  /\ \A o \in Ops : old.disk[o].status = "completed" /\ new.disk[o].status = "completed" =>
       new.responses[o] = old.responses[o]

(* What a completed save of q has made durable.                            *)
Keeps(st, q) ==
  \A o \in Ops :
    /\ q[o].status \in Active => st.disk[o].status = q[o].status
    /\ q[o].status \in Terminal =>
         \/ /\ st.disk[o].status = q[o].status
            /\ q[o].text # NoText => st.responses[o] = q[o].text
         \/ st.disk[o].status = "absent" /\ CrowdedIn(st.disk, o)

LEMMA ContinuesTrans ==
  ASSUME NEW a \in Store, NEW b \in Store, NEW c \in Store, NEW fresh,
         Continues(b, a, {}), Continues(c, b, fresh),
         \A o \in fresh : o \in Ops => a.disk[o].status = "absent"
  PROVE  Continues(c, a, fresh)
<1>1. "absent" \notin Active /\ "absent" \notin Statuses /\ "completed" \notin Active
  BY DEF Active, Statuses, Terminal
<1>2. ASSUME NEW o \in Ops
      PROVE  /\ o \in fresh => a.disk[o].status = "absent" /\ c.disk[o].status \in {"absent", "queued"}
             /\ o \notin fresh =>
                  \/ c.disk[o].status = a.disk[o].status /\ c.disk[o].status # "absent"
                  \/ a.disk[o].status = "absent" /\ c.disk[o].status = "absent"
                  \/ a.disk[o].status \in Active /\ c.disk[o].status \in Statuses
                  \/ c.disk[o].status = "absent" /\ CrowdedIn(c.disk, o)
             /\ CrowdedIn(a.disk, o) => CrowdedIn(c.disk, o)
             /\ o \notin fresh /\ c.disk[o].status # "absent" => c.disk[o].request = a.disk[o].request
  BY <1>1, <1>2 DEF Continues, Ages
<1>3. Ages(c.disk, a.disk, fresh)
  BY <1>2 DEF Ages
<1>4. ASSUME NEW o \in Ops, a.disk[o].status = "completed", c.disk[o].status = "completed"
      PROVE  c.responses[o] = a.responses[o]
  <2>1. b.disk[o].status = "completed"
    BY <1>1, <1>4 DEF Continues, Ages
  <2>2. QED
    BY <1>4, <2>1 DEF Continues
<1>5. QED
  BY <1>3, <1>4 DEF Continues

LEMMA ContinuesItself ==
  ASSUME NEW st \in Store, Matches(st)
  PROVE  Continues(st, st, {})
<1>1. \A o \in Ops : st.disk[o] \in Item
  BY DEF Store, Queue
<1>2. \A o \in Ops : st.disk[o].status \in Statuses \/ st.disk[o].status = "absent"
  BY <1>1 DEF Item
<1>3. Ages(st.disk, st.disk, {})
  BY <1>2 DEF Ages
<1>4. QED
  BY <1>3 DEF Continues

(* The items of the cache and of queue.json.                               *)
LEMMA MatchingItems ==
  ASSUME NEW st \in Store, Matches(st), NEW o \in Ops
  PROVE  /\ st.cache[o] \in Item /\ st.disk[o] \in Item
         /\ st.cache[o].status = st.disk[o].status
         /\ st.cache[o].request = st.disk[o].request
         /\ st.cache[o].available = st.disk[o].available
         /\ st.cache[o].next = st.disk[o].next
         /\ st.cache[o].text # NoText /\ st.cache[o].status \in Terminal =>
              st.cache[o].text = st.responses[o] /\ st.cache[o].status = "completed"
<1>1. st.cache[o] \in Item /\ st.disk[o] \in Item
  BY DEF Store, Queue
<1>2. CASE st.cache[o] = st.disk[o]
  BY <1>1, <1>2 DEF Matches
<1>3. CASE /\ st.disk[o].status = "completed" /\ st.responses[o] # NoText
           /\ st.cache[o] = [st.disk[o] EXCEPT !.text = st.responses[o]]
  BY <1>1, <1>3 DEF Item
<1>4. QED
  BY <1>2, <1>3 DEF Matches

LEMMA MatchingCrowd ==
  ASSUME NEW st \in Store, Matches(st), NEW q \in Queue, NEW fresh, Settles(q, st.cache, fresh),
         NEW o \in Ops, CrowdedIn(st.disk, o)
  PROVE  CrowdedIn(q, o)
<1>1. \A p \in Ops : st.disk[p].status \in Terminal => q[p].status \in Terminal
  BY MatchingItems DEF Settles, ItemSettles, Terminal
<1>2. Crowd(st.disk, o) \subseteq Crowd(q, o)
  BY <1>1 DEF Crowd, TerminalOps
<1>3. QED
  BY <1>2, CrowdGrows

(* The queue a save writes, next to the one it was made from.              *)
LEMMA FinalAges ==
  ASSUME NEW st \in Store, Matches(st), NEW q \in Queue, NEW fresh, Settles(q, st.cache, fresh)
  PROVE  Ages(Retain(Compact(q)), st.disk, fresh)
<1> DEFINE final == Retain(Compact(q))
<1> SUFFICES ASSUME NEW o \in Ops
    PROVE /\ o \in fresh => st.disk[o].status = "absent" /\ final[o].status \in {"absent", "queued"}
          /\ o \notin fresh =>
               \/ final[o].status = st.disk[o].status /\ final[o].status # "absent"
               \/ st.disk[o].status = "absent" /\ final[o].status = "absent"
               \/ st.disk[o].status \in Active /\ final[o].status \in Statuses
               \/ final[o].status = "absent" /\ CrowdedIn(final, o)
          /\ CrowdedIn(st.disk, o) => CrowdedIn(final, o)
          /\ o \notin fresh /\ final[o].status # "absent" => final[o].request = st.disk[o].request
  BY DEF Ages
<1>1. CrowdedIn(st.disk, o) => CrowdedIn(final, o)
  BY MatchingCrowd, FinalCrowd
<1>2. /\ final[o] = Gone => q[o].status = "absent" \/ CrowdedIn(final, o)
      /\ \/ final[o] = Gone
         \/ final[o].status = q[o].status /\ final[o].request = q[o].request
  BY FinalCrowd, FinalQueue
<1>3. Gone.status = "absent"
  BY DEF Gone
<1>4. st.cache[o].status = st.disk[o].status /\ st.cache[o].request = st.disk[o].request
  BY MatchingItems
<1>5. q[o] \in Item /\ st.disk[o] \in Item
  BY MatchingItems DEF Queue
<1>6. st.disk[o].status \in Active \cup {"completed", "failed", "absent"}
  BY <1>5 DEF Item, Statuses, Terminal
<1>7. o \notin fresh => ItemSettles(q[o], st.cache[o])
  BY DEF Settles
<1>8. o \in fresh => q[o].status = "queued" /\ st.cache[o].status = "absent"
  BY DEF Settles
<1> HIDE DEF final
<1>9. "absent" \notin Active /\ "absent" \notin Statuses
  BY DEF Active, Statuses, Terminal
<1>10. QED
  BY <1>1, <1>2, <1>3, <1>4, <1>6, <1>7, <1>8, <1>9 DEF ItemSettles

(* The text of an operation that is completed and stays so is not written  *)
(* anew: what the cache holds of it is what its file holds.                *)
LEMMA WrittenKeeps ==
  ASSUME NEW st \in Store, Matches(st), NEW q \in Queue, NEW stage \in Stages, NEW fresh,
         Settles(q, st.cache, fresh), NEW o \in Ops, st.disk[o].status = "completed"
  PROVE  WriteResponses(st.responses, q, stage)[o] = st.responses[o]
<1>1. q[o] = st.cache[o]
  BY MatchingItems DEF Settles, ItemSettles
<1>2. o \in Inline(q) => q[o].text = st.responses[o]
  BY <1>1, MatchingItems DEF Inline, TerminalOps
<1>3. QED
  BY <1>2 DEF WriteResponses

(* One save of a bridge that survives only completed saves.                *)
LEMMA AttemptContinues ==
  ASSUME ~IOErrors, NEW st \in Store, Matches(st), NEW q \in Queue, NEW stage \in Stages,
         NEW fresh, Settles(q, st.cache, fresh)
  PROVE  LET new == Attempt(st, q, stage) IN
         Continues(new, st, fresh) /\ (stage = Saved => Keeps(new, q))
<1> DEFINE final    == Retain(Compact(q))
           written  == WriteResponses(st.responses, q, stage)
           retained == TerminalOps(final)
           kept     == Prune(written, st.pruned, retained)
           saved    == SaveQueue(st, q, stage)
           new      == Attempt(st, q, stage)
<1>1. Ages(final, st.disk, fresh)
  BY FinalAges
<1>2. Ages(st.disk, st.disk, fresh)
  <2>1. \A o \in Ops : o \in fresh => st.disk[o].status = "absent"
    BY MatchingItems DEF Settles
  <2>2. Ages(st.disk, st.disk, {})
    BY ContinuesItself DEF Continues
  <2>3. QED
    BY <2>1, <2>2 DEF Ages
<1>3. \A o \in Ops : st.disk[o].status = "completed" => written[o] = st.responses[o]
  BY WrittenKeeps
<1>4. \A o \in Ops : final[o].status \in Terminal => final[o].text = NoText
  BY FinalCrowd
<1>5. \A o \in Ops : o \in retained => kept[o] = written[o]
  BY DEF Prune, WriteResponses
<1>6. \A o \in Ops : final[o].status = "completed" => o \in retained
  BY DEF TerminalOps, Terminal
<1>7. Saved \notin Stages \ {Saved} /\ stage \in Nat /\ ~(Saved < Replaced) /\ Saved # Replaced
  BY StoreAssumption DEF Stages, Saved, Replaced
<1>8. SaveQueue(st, q, stage) =
        IF stage < Replaced
        THEN [st EXCEPT !.cache = IF Inline(q) = {} THEN Retain(q) ELSE q,
                        !.responses = written]
        ELSE IF stage = Replaced
        THEN [st EXCEPT !.cache = final, !.disk = final, !.responses = written]
        ELSE [cache |-> final, disk |-> final, responses |-> kept, pruned |-> retained]
  BY DEF SaveQueue
<1>9. saved \in Store
  BY SaveQueueType
<1>10. \A s \in Store : Restart(s).cache = s.disk /\ Restart(s).disk = s.disk
                        /\ Restart(s).responses = s.responses
  BY DEF Restart, Store
<1>11. CASE stage # Saved
  <2>1. new.cache = saved.disk /\ new.disk = saved.disk /\ new.responses = saved.responses
    BY <1>9, <1>10, <1>11 DEF Attempt
  <2> HIDE DEF saved, new
  <2> HIDE DEF final, written, retained, kept
  <2>2. \/ saved.disk = st.disk /\ saved.responses = written
        \/ saved.disk = final /\ saved.responses = written
        \/ saved.disk = final /\ saved.responses = kept
    <3>1. saved.disk = IF stage < Replaced THEN st.disk ELSE final
      BY <1>8 DEF Store, saved
    <3>2. saved.responses = IF stage < Replaced \/ stage = Replaced THEN written ELSE kept
      BY <1>8 DEF Store, saved
    <3>3. QED
      BY <3>1, <3>2
  <2>3. saved.disk = st.disk \/ saved.disk = final
    BY <2>2
  <2>4. Ages(new.disk, st.disk, fresh)
    BY <1>1, <1>2, <2>1, <2>3
  <2>5. Matches(new)
    <3>1. \A o \in Ops : st.disk[o].status \in Terminal => st.disk[o].text = NoText
      BY DEF Matches
    <3>2. \A o \in Ops : new.disk[o].status \in Terminal => new.disk[o].text = NoText
      BY <1>4, <2>1, <2>3, <3>1
    <3>3. QED
      BY <2>1, <3>2 DEF Matches
  <2>6. \A o \in Ops : st.disk[o].status = "completed" /\ new.disk[o].status = "completed" =>
          new.responses[o] = st.responses[o]
    BY <1>3, <1>5, <1>6, <2>1, <2>2
  <2>7. QED
    BY <1>11, <2>4, <2>5, <2>6 DEF Continues, new
<1>12. CASE stage = Saved
  <2>1. new.cache = final /\ new.disk = final /\ new.responses = kept
    BY <1>7, <1>8, <1>12 DEF Attempt
  <2>2. Matches(new)
    BY <1>4, <2>1 DEF Matches
  <2>3. \A o \in Ops : st.disk[o].status = "completed" /\ new.disk[o].status = "completed" =>
          new.responses[o] = st.responses[o]
    BY <1>3, <1>5, <1>6, <2>1
  <2>4. Continues(new, st, fresh)
    BY <1>1, <2>1, <2>2, <2>3 DEF Continues
  <2>5. ASSUME NEW o \in Ops, q[o].status \in Active PROVE final[o].status = q[o].status
    <3>1. Compact(q)[o] = q[o]
      BY <2>5 DEF Compact, Inline, TerminalOps, Active, Terminal
    <3>2. o \notin Evicted(Compact(q))
      BY <2>5, <3>1 DEF Evicted, TerminalOps, Active, Terminal
    <3>3. QED
      BY <3>1, <3>2 DEF Retain
  <2>6. ASSUME NEW o \in Ops, q[o].status \in Terminal
        PROVE  \/ /\ final[o].status = q[o].status
                  /\ q[o].text # NoText => kept[o] = q[o].text
               \/ final[o].status = "absent" /\ CrowdedIn(final, o)
    <3>1. final[o] = Gone => final[o].status = "absent" /\ CrowdedIn(final, o)
      BY <2>6, FinalCrowd DEF Gone, Terminal
    <3>2. final[o] = Gone \/ final[o].status = q[o].status
      BY FinalQueue
    <3>3. q[o].text # NoText => written[o] = q[o].text
      BY <2>6, <1>12, StoreAssumption DEF WriteResponses, Inline, TerminalOps, Ops, Saved
    <3>4. final[o].status = q[o].status => o \in retained
      BY <2>6 DEF TerminalOps
    <3>5. QED
      BY <1>5, <3>1, <3>2, <3>3, <3>4
  <2>7. Keeps(new, q)
    BY <2>1, <2>5, <2>6 DEF Keeps
  <2> HIDE DEF new
  <2>8. QED
    BY <2>4, <2>7 DEF new
<1>13. QED
  BY <1>11, <1>12

LEMMA SweepSettles ==
  ASSUME TypeOK, NEW q \in Queue
  PROVE  Settles(Sweep(q), q, {})
<1>1. ASSUME NEW item \in Item PROVE ItemSettles(SweepItem(item), item)
  BY <1>1 DEF SweepItem, ItemSettles, Item, Active, Statuses, Terminal
<1>2. QED
  BY <1>1 DEF Sweep, Queue, Settles

LEMMA SweptContinues ==
  ASSUME ~IOErrors, TypeOK, Matches(store), NEW st \in {store, Swept}
  PROVE  st \in Store /\ Continues(st, store, {})
<1>1. st \in Store /\ store \in Store /\ Sweep(cache) \in Queue /\ Saved \in Stages
  BY SweptType, SweepType DEF TypeOK, Stages
<1>2. CASE st = store
  BY <1>1, <1>2, ContinuesItself
<1>3. CASE st = SaveQueue(store, Sweep(cache), Saved)
  <2>1. st = Attempt(store, Sweep(cache), Saved)
    BY <1>3 DEF Attempt
  <2>2. Settles(Sweep(cache), store.cache, {})
    BY SweptType, SweepSettles DEF cache
  <2>3. QED
    BY <1>1, <2>1, <2>2, AttemptContinues
<1>4. QED
  BY <1>1, <1>2, <1>3 DEF Swept

-----------------------------------------------------------------------------
(* What any step of the bridge does, as far as its promises go.            *)

Fresh == {o \in Ops : nextId <= o /\ o < nextId'}

(* A submitter hears that its operation is queued when queue.json says so. *)
Accepts ==
  \A o \in Ops : replies'[o].accepted => replies[o].accepted \/ disk'[o].status # "absent"

SameRequest(g, f) ==
  Repeats(f) /\ g.op = f.op /\ g.seen = f.seen /\ (g.pc = "evidence" => f.pc = "evidence")

Silent ==
  /\ \A o \in Ops : replies'[o].answers = replies[o].answers
  /\ \A h \in Handlers : Repeats(finishing'[h]) => SameRequest(finishing'[h], finishing[h])

(* Status s with response w is what may be said of operation o: it is what *)
(* was recorded, or what this step records, or what a finish request read. *)
Sound(o, s, w) ==
  \/ /\ disk[o].status = s /\ s \in Terminal
     /\ w = NoText \/ (s = "completed" /\ w = store.responses[o])
  \/ /\ disk[o].status \in Active /\ s \in Terminal
     /\ \/ disk'[o].status = s
        \/ disk'[o].status = "absent" /\ CrowdedIn(disk', o)
     /\ disk'[o].status = "completed" /\ w # NoText => w = store'.responses[o]
  \/ /\ s = "completed"
     /\ \E h \in Handlers :
          Repeats(finishing[h]) /\ finishing[h].op = o /\ finishing[h].seen = w

(* One operation is spoken of, to a client or to a request in progress.    *)
Speaks(o, s, w) ==
  /\ Sound(o, s, w)
  /\ \A p \in Ops :
       \/ replies'[p].answers = replies[p].answers
       \/ /\ p = o
          /\ \E v \in {w, NoText} :
               replies'[p].answers = replies[p].answers \cup {[status |-> s, text |-> v]}
  /\ \A h \in Handlers : Repeats(finishing'[h]) =>
       \/ SameRequest(finishing'[h], finishing[h])
       \/ /\ finishing'[h].op = o /\ finishing'[h].seen \in {w, NoText}
          /\ disk[o].status = "completed" /\ s = "completed"
          /\ finishing'[h].pc = "evidence" => IsPrompt(disk[o])

Progress ==
  /\ Continues(store', store, Fresh)
  /\ nextId' \in {nextId, nextId + 1}
  /\ Accepts
  /\ Silent \/ \E o \in Ops : \E s, w : Speaks(o, s, w)

-----------------------------------------------------------------------------
(* Progress keeps the promises.                                            *)

LEMMA RepeaterBelow ==
  ASSUME TypeOK, ResponseInv, NEW h \in Handlers, Repeats(finishing[h])
  PROVE  finishing[h].op \in Ops /\ finishing[h].op < nextId
  BY DEF ResponseInv, RequestsSafe, RequestSafe, Repeats, TypeOK, Request, Idle

LEMMA KnownBelow ==
  ASSUME TypeOK, ResponseInv, PromiseInv, NEW o \in Ops
  PROVE  /\ o \in Nat /\ nextId \in Nat
         /\ disk[o] \in Item
         /\ disk[o].status # "absent" => o < nextId
         /\ replies[o].answers # {} => o < nextId
         /\ o < nextId => o \notin Fresh
         /\ \A a \in replies[o].answers : a.status \in Terminal
<1>1. o \in Nat /\ nextId \in Nat /\ disk[o] \in Item
  <2>1. disk[o] \in Item
    BY DEF TypeOK, Store, Queue, disk
  <2>2. o \in Nat /\ nextId \in Nat
    BY DEF TypeOK, Ops
  <2>3. QED
    BY <2>1, <2>2
<1>2. disk[o].status # "absent" => o < nextId
  BY <1>1 DEF ResponseInv, StoreKnown, Unused, disk
<1>3. replies[o].answers # {} => o < nextId
  BY <1>1 DEF PromiseInv
<1>4. o < nextId => o \notin Fresh
  BY <1>1 DEF Fresh
<1>5. \A a \in replies[o].answers : a.status \in Terminal
  BY DEF TypeOK, Reply, Answer
<1>6. QED
  BY <1>1, <1>2, <1>3, <1>4, <1>5

(* What is settled on disk stays, or is dropped by retention.              *)
LEMMA SettledStays ==
  ASSUME TypeOK, ResponseInv, PromiseInv, Ages(disk', disk, Fresh), NEW o \in Ops, o < nextId
  PROVE  /\ disk[o].status \in Terminal =>
              \/ disk'[o].status = disk[o].status /\ disk'[o].request = disk[o].request
              \/ disk'[o].status = "absent" /\ CrowdedIn(disk', o)
         /\ disk[o].status = "absent" /\ CrowdedIn(disk, o) =>
              disk'[o].status = "absent" /\ CrowdedIn(disk', o)
<1>1. o \notin Fresh
  BY KnownBelow
<1>2. "absent" \notin Active /\ "completed" \notin Active /\ "failed" \notin Active
  BY DEF Active
<1>3. QED
  BY <1>1, <1>2 DEF Ages, Terminal

(* What is said of an operation is true, before and after the step.        *)
LEMMA SoundStatus ==
  ASSUME TypeOK, ResponseInv, PromiseInv, Ages(disk', disk, Fresh),
         NEW o \in Ops, NEW s, NEW w, Sound(o, s, w)
  PROVE  /\ o < nextId /\ s \in Terminal
         /\ \A a \in replies[o].answers : a.status = s
         /\ disk'[o].status = s \/ (disk'[o].status = "absent" /\ CrowdedIn(disk', o))
<1>1. ASSUME NEW a \in replies[o].answers
      PROVE  a.status \in Terminal /\ (disk[o].status = a.status \/ disk[o].status = "absent")
  BY KnownBelow DEF PromiseInv, AnsweredIsDurable
<1>2. CASE disk[o].status = s /\ s \in Terminal
  <2>1. disk[o].status # "absent" /\ o < nextId
    BY <1>2, KnownBelow DEF Terminal
  <2>2. QED
    BY <1>1, <1>2, <2>1, SettledStays
<1>3. CASE /\ disk[o].status \in Active /\ s \in Terminal
           /\ \/ disk'[o].status = s
              \/ disk'[o].status = "absent" /\ CrowdedIn(disk', o)
  <2>1. disk[o].status # "absent" /\ o < nextId /\ disk[o].status \notin Terminal
    BY <1>3, KnownBelow DEF Active, Terminal
  <2>2. QED
    BY <1>1, <1>3, <2>1
<1>4. CASE /\ s = "completed"
           /\ \E h \in Handlers : Repeats(finishing[h]) /\ finishing[h].op = o
  <2>1. PICK h \in Handlers : Repeats(finishing[h]) /\ finishing[h].op = o
    BY <1>4
  <2>2. o < nextId /\ RepeaterSafe(finishing[h])
    BY <2>1, RepeaterBelow DEF PromiseInv
  <2>3. QED
    BY <1>4, <2>1, <2>2, SettledStays DEF RepeaterSafe, Terminal
<1>5. QED
  BY <1>2, <1>3, <1>4 DEF Sound

LEMMA DurableStep ==
  ASSUME TypeOK, ResponseInv, PromiseInv, Progress
  PROVE  AnsweredIsDurable' /\ \A o \in Ops : OneStatus(o)'
<1>1. Ages(disk', disk, Fresh)
  BY DEF Progress, Continues, disk
<1>2. ASSUME NEW o \in Ops, replies'[o].accepted
      PROVE  disk'[o].status # "absent" \/ CrowdedIn(disk', o)
  <2>1. replies[o].accepted => disk[o].status # "absent" \/ CrowdedIn(disk, o)
    BY DEF PromiseInv, AnsweredIsDurable, Crowded, CrowdedIn, Crowd
  <2>2. "absent" \notin Statuses
    BY DEF Statuses, Active, Terminal
  <2>3. disk[o].status # "absent" => o \notin Fresh
    BY KnownBelow
  <2>4. QED
    BY <1>1, <1>2, <2>1, <2>2, <2>3 DEF Progress, Accepts, Ages
<1>3. ASSUME NEW o \in Ops, NEW a \in replies[o].answers
      PROVE  disk'[o].status = a.status \/ (disk'[o].status = "absent" /\ CrowdedIn(disk', o))
  <2>1. \/ disk[o].status = a.status
        \/ disk[o].status = "absent" /\ CrowdedIn(disk, o)
    BY DEF PromiseInv, AnsweredIsDurable, Crowded, CrowdedIn, Crowd
  <2>2. o < nextId /\ a.status \in Terminal
    BY KnownBelow
  <2>3. QED
    BY <1>1, <2>1, <2>2, SettledStays
<1>4. ASSUME NEW o \in Ops, NEW a \in replies'[o].answers
      PROVE  /\ disk'[o].status = a.status \/ (disk'[o].status = "absent" /\ CrowdedIn(disk', o))
             /\ \A b \in replies'[o].answers : a.status = b.status
  <2>1. CASE replies'[o].answers = replies[o].answers
    BY <1>3, <2>1 DEF PromiseInv, OneStatus
  <2>2. CASE replies'[o].answers # replies[o].answers
    <3>1. PICK s, w : Speaks(o, s, w)
      BY <2>2 DEF Progress, Silent, Speaks
    <3>2. PICK v : replies'[o].answers = replies[o].answers \cup {[status |-> s, text |-> v]}
      BY <2>2, <3>1 DEF Speaks
    <3>3. Sound(o, s, w)
      BY <3>1 DEF Speaks
    <3>4. \A b \in replies'[o].answers : b.status = s
      BY <1>1, <3>2, <3>3, SoundStatus
    <3>5. QED
      BY <1>1, <3>3, <3>4, SoundStatus
  <2>3. QED
    BY <2>1, <2>2
<1>5. AnsweredIsDurable'
  BY <1>2, <1>4 DEF AnsweredIsDurable, Crowded, CrowdedIn, Crowd, disk
<1>6. QED
  BY <1>4, <1>5 DEF OneStatus

LEMMA ActiveUnspoken ==
  ASSUME TypeOK, ResponseInv, PromiseInv, NEW o \in Ops, disk[o].status \in Active
  PROVE  Words(o) = {}
<1>1. disk[o].status \notin Terminal \cup {"absent"}
  BY DEF Active, Terminal
<1>2. replies[o].answers = {}
  BY <1>1, KnownBelow DEF PromiseInv, AnsweredIsDurable
<1>3. \A h \in Handlers : ~(Repeats(finishing[h]) /\ finishing[h].op = o)
  BY <1>1 DEF PromiseInv, RepeaterSafe, Terminal
<1>4. QED
  BY <1>2, <1>3 DEF Words

(* The words about one operation grow by the one that is spoken.           *)
LEMMA WordsGrow ==
  ASSUME Progress, NEW o \in Ops
  PROVE  \/ Words(o)' \subseteq Words(o)
         \/ \E s, w : Sound(o, s, w) /\ w # NoText /\ Words(o)' \subseteq Words(o) \cup {w}
<1>1. ASSUME NEW v, v \in Words(o)'
      PROVE  /\ v # NoText
             /\ \/ \E a \in replies'[o].answers : v = a.text
                \/ \E h \in Handlers : /\ Repeats(finishing'[h]) /\ finishing'[h].op = o
                                       /\ v = finishing'[h].seen
  BY <1>1 DEF Words
<1>2. \A v : v # NoText /\ (\E a \in replies[o].answers : v = a.text) => v \in Words(o)
  BY DEF Words
<1>3. \A h \in Handlers : Repeats(finishing[h]) /\ finishing[h].op = o /\ finishing[h].seen # NoText
        => finishing[h].seen \in Words(o)
  BY DEF Words
<1>4. \A h \in Handlers :
        /\ Repeats(finishing'[h]) /\ finishing'[h].op = o /\ finishing'[h].seen # NoText
        /\ SameRequest(finishing'[h], finishing[h])
        => finishing'[h].seen \in Words(o)
  BY <1>3 DEF SameRequest
<1>5. CASE Silent
  <2>1. ASSUME NEW v, v \in Words(o)' PROVE v \in Words(o)
    BY <1>1, <1>2, <1>4, <1>5, <2>1 DEF Silent
  <2>2. QED
    BY <2>1
<1>6. ASSUME NEW p \in Ops, NEW s, NEW w, Speaks(p, s, w), p # o
      PROVE  Words(o)' \subseteq Words(o)
  <2>1. replies'[o].answers = replies[o].answers
    BY <1>6 DEF Speaks
  <2>2. \A h \in Handlers : Repeats(finishing'[h]) /\ finishing'[h].op = o =>
          SameRequest(finishing'[h], finishing[h])
    BY <1>6 DEF Speaks
  <2>3. ASSUME NEW v, v \in Words(o)' PROVE v \in Words(o)
    BY <1>1, <1>2, <1>4, <2>1, <2>2, <2>3
  <2>4. QED
    BY <2>3
<1>7. ASSUME NEW s, NEW w, Speaks(o, s, w)
      PROVE  Sound(o, s, w) /\ Words(o)' \subseteq Words(o) \cup ({w} \ {NoText})
  <2>1. \A a \in replies'[o].answers : a \in replies[o].answers \/ a.text \in {w, NoText}
    BY <1>7 DEF Speaks
  <2>2. \A h \in Handlers : Repeats(finishing'[h]) /\ finishing'[h].op = o =>
          SameRequest(finishing'[h], finishing[h]) \/ finishing'[h].seen \in {w, NoText}
    BY <1>7 DEF Speaks
  <2>3. ASSUME NEW v, v \in Words(o)' PROVE v \in Words(o) \/ v = w
    BY <1>1, <1>2, <1>4, <2>1, <2>2, <2>3
  <2>4. \A v : v \in Words(o)' => v # NoText
    BY <1>1
  <2>5. QED
    BY <1>7, <2>3, <2>4 DEF Speaks
<1>8. CASE \E p \in Ops : \E s, w : Speaks(p, s, w)
  <2>0. PICK p \in Ops : \E s, w : Speaks(p, s, w)
    BY <1>8
  <2>1. PICK s, w : Speaks(p, s, w)
    BY <2>0
  <2>2. CASE p # o
    BY <1>6, <2>1, <2>2
  <2>3. CASE p = o
    BY <1>7, <2>1, <2>3
  <2>4. QED
    BY <2>2, <2>3
<1>9. QED
  BY <1>5, <1>8 DEF Progress

LEMMA WordStep ==
  ASSUME TypeOK, ResponseInv, PromiseInv, Progress, NEW o \in Ops
  PROVE  OneWord(o)'
<1>1. /\ Ages(disk', disk, Fresh)
      /\ disk[o].status = "completed" /\ disk'[o].status = "completed" =>
           store'.responses[o] = store.responses[o]
  BY DEF Progress, Continues, disk
<1>2. OneWord(o)
  BY DEF PromiseInv
<1>3. disk'[o].status = "completed" => disk[o].status = "completed" \/ disk[o].status \in Active
  BY <1>1 DEF Ages
<1>4. disk[o].status \in Active => Words(o) = {}
  BY ActiveUnspoken
<1>5. CASE Words(o)' \subseteq Words(o)
  <2>1. \A v, w \in Words(o)' : v = w
    BY <1>2, <1>5 DEF OneWord
  <2>2. ASSUME disk'[o].status = "completed", NEW w \in Words(o)' PROVE w = store'.responses[o]
    BY <1>1, <1>2, <1>3, <1>4, <1>5, <2>2 DEF OneWord
  <2>3. QED
    BY <2>1, <2>2 DEF OneWord, disk
<1>6. ASSUME NEW s, NEW w, Sound(o, s, w), w # NoText, Words(o)' \subseteq Words(o) \cup {w}
      PROVE  OneWord(o)'
  <2>1. /\ \A v \in Words(o) : v = w
        /\ disk'[o].status = "completed" => w = store'.responses[o]
    <3>1. CASE disk[o].status = s /\ s \in Terminal /\ s = "completed" /\ w = store.responses[o]
      BY <1>1, <1>2, <3>1 DEF OneWord
    <3>2. CASE /\ disk[o].status \in Active
               /\ disk'[o].status = "completed" /\ w # NoText => w = store'.responses[o]
      BY <1>4, <1>6, <3>2
    <3>3. CASE \E h \in Handlers :
                 Repeats(finishing[h]) /\ finishing[h].op = o /\ finishing[h].seen = w
      <4>1. w \in Words(o)
        BY <1>6, <3>3 DEF Words
      <4>2. QED
        BY <1>1, <1>2, <1>3, <1>4, <4>1 DEF OneWord
    <3>4. QED
      BY <1>6, <3>1, <3>2, <3>3 DEF Sound
  <2>2. \A v \in Words(o)' : v = w
    BY <1>6, <2>1
  <2>3. QED
    BY <2>1, <2>2 DEF OneWord, disk
<1>7. QED
  BY <1>5, <1>6, WordsGrow

LEMMA UnknownStep ==
  ASSUME TypeOK, ResponseInv, PromiseInv, Progress, NEW o \in Ops, o >= nextId'
  PROVE  replies'[o].answers = {}
<1>1. o >= nextId /\ ~(o < nextId)
  BY KnownBelow DEF Progress
<1>2. replies[o].answers = {}
  BY <1>1 DEF PromiseInv
<1>3. ASSUME NEW p \in Ops, NEW s, NEW w, Speaks(p, s, w) PROVE p # o
  BY <1>1, <1>3, SoundStatus DEF Speaks, Progress, Continues, disk
<1>4. QED
  BY <1>2, <1>3 DEF Progress, Silent, Speaks

LEMMA RepeaterStep ==
  ASSUME TypeOK, ResponseInv, PromiseInv, Progress, NEW h \in Handlers, Repeats(finishing'[h])
  PROVE  RepeaterSafe(finishing[h])'
<1> DEFINE g == finishing'[h]
           o == g.op
<1>1. Ages(disk', disk, Fresh)
  BY DEF Progress, Continues, disk
<1>3. CASE SameRequest(g, finishing[h])
  <2>1. /\ Repeats(finishing[h]) /\ RepeaterSafe(finishing[h]) /\ o = finishing[h].op
        /\ o \in Ops /\ o < nextId
        /\ g.pc = "evidence" => finishing[h].pc = "evidence"
    BY <1>3, RepeaterBelow DEF SameRequest, PromiseInv
  <2>2. \/ disk'[o].status = "completed" /\ (g.pc = "evidence" => IsPrompt(disk'[o]))
        \/ disk'[o].status = "absent" /\ CrowdedIn(disk', o)
    BY <1>1, <2>1, SettledStays DEF RepeaterSafe, IsPrompt, Terminal
  <2>3. ASSUME NEW s, NEW w, Sound(o, s, w) PROVE s = "completed"
    BY <2>1, <2>3 DEF RepeaterSafe, Sound, Active, Terminal
  <2>4. \A a \in replies'[o].answers : a.status = "completed"
    <3>1. \A a \in replies[o].answers : a.status = "completed"
      BY <2>1 DEF RepeaterSafe
    <3>2. \/ replies'[o].answers = replies[o].answers
          \/ \E s, w, v : /\ Sound(o, s, w)
                          /\ replies'[o].answers = replies[o].answers \cup {[status |-> s, text |-> v]}
      <4>1. CASE Silent
        BY <2>1, <4>1 DEF Silent
      <4>2. ASSUME NEW p \in Ops, NEW s, NEW w, Speaks(p, s, w)
            PROVE  \/ replies'[o].answers = replies[o].answers
                   \/ \E v : /\ Sound(o, s, w)
                             /\ replies'[o].answers = replies[o].answers \cup {[status |-> s, text |-> v]}
        BY <2>1, <4>2 DEF Speaks
      <4>3. QED
        BY <4>1, <4>2 DEF Progress
    <3>3. QED
      BY <2>3, <3>1, <3>2
  <2>5. QED
    BY <2>2, <2>4 DEF RepeaterSafe, disk, CrowdedIn, Crowd
<1>4. CASE \E p \in Ops : \E s, w :
             /\ Speaks(p, s, w) /\ o = p /\ disk[p].status = "completed" /\ s = "completed"
             /\ g.pc = "evidence" => IsPrompt(disk[p])
  <2>0. PICK p \in Ops : \E s, w :
             /\ Speaks(p, s, w) /\ o = p /\ disk[p].status = "completed" /\ s = "completed"
             /\ g.pc = "evidence" => IsPrompt(disk[p])
    BY <1>4
  <2>1. PICK s, w :
             /\ Speaks(p, s, w) /\ o = p /\ disk[p].status = "completed" /\ s = "completed"
             /\ g.pc = "evidence" => IsPrompt(disk[p])
    BY <2>0
  <2>2. o < nextId /\ o \in Ops
    BY <2>1, KnownBelow
  <2>3. \/ disk'[o].status = "completed" /\ (g.pc = "evidence" => IsPrompt(disk'[o]))
        \/ disk'[o].status = "absent" /\ CrowdedIn(disk', o)
    BY <1>1, <2>1, <2>2, SettledStays DEF IsPrompt, Terminal
  <2>4. \A a \in replies[o].answers : a.status = s
    BY <1>1, <2>1, SoundStatus DEF Speaks
  <2>5. \A a \in replies'[o].answers : a.status = "completed"
    BY <2>1, <2>2, <2>4 DEF Speaks
  <2>6. QED
    BY <2>3, <2>5 DEF RepeaterSafe, disk, CrowdedIn, Crowd
<1>5. QED
  BY <1>3, <1>4 DEF Progress, Silent, Speaks

LEMMA PromiseStep ==
  ASSUME TypeOK, ResponseInv, PromiseInv, Progress
  PROVE  PromiseInv'
<1>1. Matches(store)'
  BY DEF Progress, Continues, Matches
<1>2. AnsweredIsDurable' /\ \A o \in Ops : OneStatus(o)' /\ OneWord(o)'
  BY DurableStep, WordStep
<1>3. \A o \in Ops : o >= nextId' => replies'[o].answers = {}
  BY UnknownStep
<1>4. \A h \in Handlers : Repeats(finishing'[h]) => RepeaterSafe(finishing[h])'
  BY RepeaterStep
<1>5. QED
  BY <1>1, <1>2, <1>3, <1>4 DEF PromiseInv

-----------------------------------------------------------------------------
(* Every action is progress.                                               *)

(* What the proofs about the actions may rely on.                          *)
Sane == ~IOErrors /\ TypeOK /\ ResponseInv /\ PromiseInv

LEMMA RestartContinues ==
  ASSUME NEW st \in Store, NEW old \in Store, NEW fresh, Continues(st, old, fresh)
  PROVE  Continues(Restart(st), old, fresh)
<1>1. /\ Restart(st).cache = st.disk /\ Restart(st).disk = st.disk
      /\ Restart(st).responses = st.responses
  BY DEF Restart, Store
<1>2. QED
  BY <1>1 DEF Continues, Matches

LEMMA NothingFresh ==
  ASSUME TypeOK, nextId' = nextId
  PROVE  Fresh = {} /\ nextId' \in {nextId, nextId + 1}
<1>1. \A o \in Ops : ~(nextId <= o /\ o < nextId)
  BY DEF TypeOK, Ops
<1>2. QED
  BY <1>1 DEF Fresh

LEMMA SaveContinues ==
  ASSUME Sane, NEW st \in {store, Swept}, NEW q \in Queue, NEW stage \in Stages,
         Settles(q, st.cache, {})
  PROVE  LET new == Attempt(st, q, stage) IN
         new \in Store /\ Continues(new, store, {}) /\ (stage = Saved => Keeps(new, q))
<1>1. store \in Store /\ st \in Store /\ Continues(st, store, {}) /\ Matches(st)
  BY SweptContinues DEF Sane, PromiseInv, TypeOK, Continues
<1> DEFINE new == Attempt(st, q, stage)
<1>2. Continues(new, st, {}) /\ (stage = Saved => Keeps(new, q)) /\ new \in Store
  BY <1>1, AttemptContinues, AttemptType DEF Sane
<1> HIDE DEF new
<1>3. Continues(new, store, {})
  BY <1>1, <1>2, ContinuesTrans
<1>4. QED
  BY <1>2, <1>3 DEF new

(* The same for one item that changes.                                     *)
LEMMA ItemContinues ==
  ASSUME Sane, NEW st \in {store, Swept}, NEW o \in Ops, NEW item \in Item,
         NEW stage \in Stages, ItemSettles(item, st.cache[o])
  PROVE  LET new == Attempt(st, [st.cache EXCEPT ![o] = item], stage) IN
         /\ new \in Store /\ Continues(new, store, {})
         /\ stage = Saved /\ item.status \in Terminal =>
              \/ /\ new.disk[o].status = item.status
                 /\ item.text # NoText => new.responses[o] = item.text
              \/ new.disk[o].status = "absent" /\ CrowdedIn(new.disk, o)
<1> DEFINE q == [st.cache EXCEPT ![o] = item]
<1>1. st.cache \in Queue
  BY SweptType DEF Sane, cache
<1>2. q \in Queue /\ \A p \in Ops : q[p] = IF p = o THEN item ELSE st.cache[p]
  BY <1>1 DEF Queue
<1>3. \A p \in Ops : ItemSettles(st.cache[p], st.cache[p])
  BY <1>1 DEF ItemSettles, Queue, Item, Statuses
<1>4. Settles(q, st.cache, {})
  BY <1>2, <1>3 DEF Settles
<1> DEFINE new == Attempt(st, q, stage)
<1>5. new \in Store /\ Continues(new, store, {}) /\ (stage = Saved => Keeps(new, q))
  BY <1>2, <1>4, SaveContinues
<1>6. q[o] = item
  BY <1>2
<1> HIDE DEF new, q
<1>7. QED
  BY <1>5, <1>6 DEF Keeps, new, q

(* Requests in progress that end or go on to something else say nothing.   *)
LEMMA SilentRequests ==
  ASSUME Sane, NEW fs \in [Handlers -> Request], NEW stage,
         \A h \in Handlers : Repeats(fs[h]) => SameRequest(fs[h], finishing[h])
  PROVE  \A h \in Handlers : Repeats(Surviving(fs, stage)[h]) =>
           SameRequest(Surviving(fs, stage)[h], finishing[h])
<1>1. \A h \in Handlers : ~Repeats([g \in Handlers |-> Idle][h])
  BY DEF Repeats, Idle
<1>2. QED
  BY <1>1 DEF Surviving

LEMMA SameRequests ==
  ASSUME Sane
  PROVE  /\ finishing \in [Handlers -> Request]
         /\ \A h \in Handlers : Repeats(finishing[h]) => SameRequest(finishing[h], finishing[h])
         /\ \A h \in Handlers : /\ Done(h) \in [Handlers -> Request]
                                /\ \A g \in Handlers : Repeats(Done(h)[g]) =>
                                     SameRequest(Done(h)[g], finishing[g])
         /\ \A h \in Handlers : \A f \in Request : ~Repeats(f) =>
              \A g \in Handlers : Repeats(Goto(h, f)[g]) =>
                SameRequest(Goto(h, f)[g], finishing[g])
<1>1. finishing \in [Handlers -> Request]
  BY DEF Sane, TypeOK
<1>2. \A h \in Handlers : Repeats(finishing[h]) => SameRequest(finishing[h], finishing[h])
  BY DEF SameRequest
<1>3. \A h, g \in Handlers : \A f : Goto(h, f)[g] = IF g = h THEN f ELSE finishing[g]
  BY <1>1 DEF Goto
<1>4. ~Repeats(Idle) /\ Idle \in Request
  BY DEF Repeats, Idle, Request
<1>5. \A h \in Handlers : Done(h) \in [Handlers -> Request]
  BY <1>1, <1>4 DEF Done, Goto
<1>6. QED
  BY <1>1, <1>2, <1>3, <1>4, <1>5 DEF Done

(* A reply that grants an operation says nothing of any result.            *)
LEMMA GrantsSaySame ==
  ASSUME Sane, NEW o, NEW stage, NEW told \in [Ops -> Reply], NEW S
  PROVE  /\ \A p \in Ops : /\ Told(o, stage, Granted(o))[p].answers = replies[p].answers
                           /\ Told(o, stage, Granted(o))[p].accepted = replies[p].accepted
         /\ \A p \in Ops : /\ GrantAll(told, S)[p].answers = told[p].answers
                           /\ GrantAll(told, S)[p].accepted = told[p].accepted
<1>1. replies \in [Ops -> Reply]
  BY DEF Sane, TypeOK
<1>2. \A p \in Ops : /\ Told(o, stage, Granted(o))[p].answers = replies[p].answers
                     /\ Told(o, stage, Granted(o))[p].accepted = replies[p].accepted
  BY <1>1 DEF Told, Granted, Reply
<1>3. \A p \in Ops : /\ GrantAll(told, S)[p].answers = told[p].answers
                     /\ GrantAll(told, S)[p].accepted = told[p].accepted
  BY DEF GrantAll, Reply
<1>4. QED
  BY <1>2, <1>3

(* An action after which nothing more is said.                             *)
LEMMA SilentProgress ==
  ASSUME Sane, Continues(store', store, {}), nextId' = nextId,
         \A o \in Ops : /\ replies'[o].answers = replies[o].answers
                        /\ replies'[o].accepted = replies[o].accepted,
         \A h \in Handlers : Repeats(finishing'[h]) => SameRequest(finishing'[h], finishing[h])
  PROVE  Progress
<1>1. Fresh = {} /\ nextId' \in {nextId, nextId + 1}
  BY NothingFresh DEF Sane
<1>2. Accepts /\ Silent
  BY DEF Accepts, Silent
<1>3. QED
  BY <1>1, <1>2 DEF Progress

LEMMA IdleContinues ==
  ASSUME Sane PROVE Continues(store, store, {}) /\ store \in Store
  BY ContinuesItself DEF Sane, TypeOK, PromiseInv

LEMMA ProgressSweepAborts ==
  ASSUME Sane, NEW stage \in Stages, SweepAborts(stage)
  PROVE  Progress
<1>1. Sweep(cache) \in Queue /\ Settles(Sweep(cache), store.cache, {})
  BY SweptType, SweepType, SweepSettles DEF cache, Sane
<1>2. Continues(store', store, {})
  BY <1>1, SaveContinues DEF SweepAborts
<1>3. \A h \in Handlers : Repeats(finishing'[h]) => SameRequest(finishing'[h], finishing[h])
  BY SameRequests, SilentRequests DEF SweepAborts
<1>4. QED
  BY <1>2, <1>3, SilentProgress DEF SweepAborts

LEMMA ProgressClaims ==
  ASSUME Sane, NEW stage \in Stages,
         \/ GetStatus(stage) \/ ClaimNextOperation(stage)
         \/ \E o \in Ops : ClaimOperation(o, stage)
  PROVE  Progress
<1>1. CASE SweepAborts(stage)
  BY <1>1, ProgressSweepAborts
<1>2. CASE OnlySweeps(stage)
  <2>1. Continues(Swept, store, {})
    BY SweptContinues DEF Sane, PromiseInv
  <2>2. QED
    BY <1>2, <2>1, SilentProgress, SameRequests DEF OnlySweeps
<1>3. CASE \E o \in Queued(Swept.cache) : ClaimFrom(Swept, o, stage)
  <2>1. PICK o \in Queued(Swept.cache) : ClaimFrom(Swept, o, stage)
    BY <1>3
  <2>2. o \in Ops /\ Swept.cache[o].status = "queued" /\ Swept.cache[o] \in Item
    BY SweptType DEF Queued, Queue, Sane
  <2> DEFINE item == MarkClaimed(Swept.cache[o])
  <2>3. item \in Item /\ item.status = "claimed" /\ item.request = Swept.cache[o].request
    BY <2>2, ItemTypes, ItemChanges DEF Sane
  <2>4. store' = Attempt(Swept, [Swept.cache EXCEPT ![o] = item], stage)
    BY <2>1 DEF ClaimFrom
  <2> HIDE DEF item
  <2>5. ItemSettles(item, Swept.cache[o])
    BY <2>2, <2>3 DEF ItemSettles, Statuses, Active
  <2>6. Continues(store', store, {})
    BY <2>2, <2>3, <2>4, <2>5, ItemContinues
  <2>7. \A p \in Ops : /\ replies'[p].answers = replies[p].answers
                       /\ replies'[p].accepted = replies[p].accepted
    BY <2>1, GrantsSaySame DEF ClaimFrom, Sane, TypeOK
  <2>8. \A h \in Handlers : Repeats(finishing'[h]) => SameRequest(finishing'[h], finishing[h])
    BY <2>1, SameRequests, SilentRequests DEF ClaimFrom
  <2>9. nextId' = nextId
    BY <2>1 DEF ClaimFrom
  <2>10. QED
    BY <2>6, <2>7, <2>8, <2>9, SilentProgress
<1>4. QED
  BY <1>1, <1>2, <1>3 DEF GetStatus, ClaimNextOperation, ClaimOperation

LEMMA ProgressQueueDuplicate ==
  ASSUME Sane, NEW r \in Requests, QueueDuplicate(r)
  PROVE  Progress
<1> DEFINE d == First(ActiveDuplicates(r))
<1>1. d \in ActiveDuplicates(r)
  <2>1. ActiveDuplicates(r) \subseteq Nat
    BY DEF ActiveDuplicates, ActiveOps, Ops
  <2>2. QED
    BY <2>1, FirstExists DEF QueueDuplicate
<1>2. d \in Ops /\ cache[d].status \in Active
  BY <1>1 DEF ActiveDuplicates, ActiveOps
<1>3. replies' = [replies EXCEPT ![d] = Accepted(d)] /\ UNCHANGED <<store, nextId, finishing>>
  BY DEF QueueDuplicate
<1> HIDE DEF d
<1>4. \A o \in Ops : /\ replies'[o].answers = replies[o].answers
                     /\ replies'[o].accepted => replies[o].accepted \/ o = d
  BY <1>2, <1>3 DEF Accepted, Sane, TypeOK, Reply
<1>5. disk'[d].status # "absent"
  BY <1>2, <1>3, MatchingItems DEF Sane, PromiseInv, TypeOK, cache, disk, Active
<1>6. Accepts
  BY <1>4, <1>5 DEF Accepts
<1>7. Silent
  BY <1>3, <1>4, SameRequests DEF Silent
<1>8. Continues(store', store, {}) /\ Fresh = {} /\ nextId' \in {nextId, nextId + 1}
  BY <1>3, IdleContinues, NothingFresh DEF Sane
<1>9. QED
  BY <1>6, <1>7, <1>8 DEF Progress

LEMMA ProgressQueueOperation ==
  ASSUME Sane, NEW r \in Requests, NEW stage \in Stages, QueueOperation(r, stage)
  PROVE  Progress
<1> DEFINE q == [cache EXCEPT ![nextId] = NewItem(r)]
<1>1. /\ nextId \in Ops /\ nextId \in Nat /\ nextId' = nextId + 1 /\ cache \in Queue
      /\ NewItem(r) \in Item /\ store \in Store
  BY NewItemType, SweptType DEF QueueOperation, Sane, TypeOK, Ops
<1>2. NewItem(r).status = "queued"
  BY DEF NewItem, Gone
<1>3. q \in Queue /\ \A o \in Ops : q[o] = IF o = nextId THEN NewItem(r) ELSE cache[o]
  BY <1>1 DEF Queue
<1>4. store' = Attempt(store, q, stage) /\ finishing' = Surviving(finishing, stage)
      /\ replies' = Told(nextId, stage, Accepted(nextId))
  BY DEF QueueOperation
<1> HIDE DEF q
<1>5. Fresh = {nextId}
  BY <1>1 DEF Fresh, Ops
<1>6. cache[nextId].status = "absent"
  BY <1>1 DEF Sane, ResponseInv, StoreKnown, Unused, cache
<1>7. \A p \in Ops : ItemSettles(cache[p], cache[p])
  BY <1>1 DEF ItemSettles, Queue, Item, Statuses
<1>8. Settles(q, store.cache, Fresh)
  BY <1>2, <1>3, <1>5, <1>6, <1>7 DEF Settles, cache
<1>9. Continues(store', store, Fresh) /\ (stage = Saved => Keeps(store', q))
  BY <1>1, <1>3, <1>4, <1>8, AttemptContinues DEF Sane, PromiseInv
<1>10. stage = Saved => disk'[nextId].status = "queued"
  BY <1>1, <1>2, <1>3, <1>9 DEF Keeps, disk, Active
<1>11. \A o \in Ops : /\ replies'[o].answers = replies[o].answers
                      /\ replies'[o].accepted => replies[o].accepted \/ (o = nextId /\ stage = Saved)
  BY <1>1, <1>4 DEF Told, Accepted, Sane, TypeOK, Reply
<1>12. Accepts
  BY <1>10, <1>11 DEF Accepts
<1>13. Silent
  BY <1>4, <1>11, SameRequests, SilentRequests DEF Silent
<1>14. QED
  BY <1>1, <1>9, <1>12, <1>13 DEF Progress

(* What an answer adds to what was said.                                   *)
LEMMA AnswerSays ==
  ASSUME Sane, NEW o \in Ops, NEW s, NEW w, NEW stage
  PROVE  \A p \in Ops :
           LET told == Told(o, stage, Answered(o, s, w)) IN
           /\ told[p].accepted = replies[p].accepted
           /\ \/ told[p].answers = replies[p].answers
              \/ /\ p = o /\ stage = Saved
                 /\ told[p].answers = replies[p].answers \cup
                      {[status |-> s, text |-> IF s = "completed" THEN w ELSE NoText]}
<1> DEFINE reply == Answered(o, s, w)
           word  == IF s = "completed" THEN w ELSE NoText
<1>1. replies \in [Ops -> Reply]
  BY DEF Sane, TypeOK
<1>2. /\ reply.accepted = replies[o].accepted
      /\ reply.answers = replies[o].answers \cup {[status |-> s, text |-> word]}
  BY <1>1 DEF Answered, Reply
<1> HIDE DEF reply, word
<1>3. \A p \in Ops : [replies EXCEPT ![o] = reply][p] = IF p = o THEN reply ELSE replies[p]
  BY <1>1
<1>4. Told(o, stage, reply) = IF stage = Saved THEN [replies EXCEPT ![o] = reply] ELSE replies
  BY DEF Told
<1>5. QED
  BY <1>2, <1>3, <1>4 DEF reply, word

(* An action after which a result of o is told, or nothing.                *)
LEMMA SpeakingProgress ==
  ASSUME Sane, Continues(store', store, {}), nextId' = nextId,
         NEW o \in Ops, NEW s, NEW w, Sound(o, s, w),
         \A p \in Ops :
           /\ replies'[p].accepted = replies[p].accepted
           /\ \/ replies'[p].answers = replies[p].answers
              \/ /\ p = o
                 /\ \E v \in {w, NoText} :
                      replies'[p].answers = replies[p].answers \cup {[status |-> s, text |-> v]},
         \A h \in Handlers : Repeats(finishing'[h]) => SameRequest(finishing'[h], finishing[h])
  PROVE  Progress
<1>1. Fresh = {} /\ nextId' \in {nextId, nextId + 1}
  BY NothingFresh DEF Sane
<1>2. Accepts
  BY DEF Accepts
<1>3. Speaks(o, s, w)
  BY DEF Speaks
<1>4. QED
  BY <1>1, <1>2, <1>3 DEF Progress

(* The texts the cache and the files have of a settled operation.          *)
LEMMA SettledTexts ==
  ASSUME Sane, NEW o \in Ops, cache[o].status = "completed"
  PROVE  /\ disk[o].status = "completed" /\ disk[o].request = cache[o].request
         /\ cache[o].text \in {NoText, store.responses[o]}
         /\ Hydrated(store, o) \in {NoText, store.responses[o]}
         /\ IsPrompt(cache[o]) => cache[o].available /\ store.responses[o] # NoText
<1>1. disk[o].status = "completed" /\ disk[o].request = cache[o].request
      /\ disk[o].available = cache[o].available
  BY MatchingItems DEF Sane, PromiseInv, TypeOK, cache, disk
<1>2. cache[o].text \in {NoText, store.responses[o]}
  BY MatchingItems DEF Sane, PromiseInv, TypeOK, cache, Terminal
<1>3. Hydrated(store, o) \in {NoText, store.responses[o]}
  BY <1>2 DEF Hydrated, cache
<1>4. IsPrompt(cache[o]) => cache[o].available /\ store.responses[o] # NoText
  BY <1>1 DEF Sane, ResponseInv, StoreSafe, DiskSafe, IsPrompt, disk
<1>5. QED
  BY <1>1, <1>2, <1>3, <1>4

LEMMA ProgressGetOperation ==
  ASSUME Sane, NEW o \in Ops, NEW waiting \in BOOLEAN, GetOperation(o, waiting)
  PROVE  Progress
<1>0. PICK s, w : s = cache[o].status /\ w = Hydrated(store, o)
  OBVIOUS
<1> DEFINE word == IF s = "completed" THEN w ELSE NoText
           told == IF s \in Terminal THEN [replies EXCEPT ![o] = Answered(o, s, w)] ELSE replies
<1>1. replies' = GrantAll(told, Chained(cache, o)) /\ UNCHANGED <<store, nextId, finishing>>
  BY <1>0 DEF GetOperation
<1>2. Continues(store', store, {}) /\ store \in Store /\ w \in Texts
  BY <1>0, <1>1, IdleContinues, HydratedType
<1>3. replies \in [Ops -> Reply]
  BY DEF Sane, TypeOK
<1>4. told \in [Ops -> Reply]
  <2>1. s \in Terminal => Answered(o, s, w) \in Reply
    BY <1>2, RepliesType DEF Sane
  <2>2. QED
    BY <1>3, <2>1
<1>5. \A p \in Ops : /\ replies'[p].accepted = told[p].accepted
                     /\ replies'[p].answers = told[p].answers
  <2> HIDE DEF told
  <2>1. QED
    BY <1>1, <1>4, GrantsSaySame
<1>6. CASE s \in Terminal
  <2>1. \A p \in Ops :
           /\ told[p].accepted = replies[p].accepted
           /\ \/ told[p].answers = replies[p].answers
              \/ /\ p = o
                 /\ told[p].answers = replies[p].answers \cup {[status |-> s, text |-> word]}
    <3>1. told = Told(o, Saved, Answered(o, s, w))
      BY <1>0, <1>6 DEF Told
    <3> HIDE DEF told
    <3>2. QED
      BY <3>1, AnswerSays
  <2> HIDE DEF told
  <2>2. Sound(o, s, word)
    <3>1. disk[o].status = s
      BY <1>0, <1>2, MatchingItems DEF Sane, PromiseInv, cache, disk
    <3>2. s = "completed" => w \in {NoText, store.responses[o]}
      BY <1>0, SettledTexts
    <3>3. QED
      BY <1>6, <3>1, <3>2 DEF Sound
  <2> HIDE DEF word
  <2>3. \A p \in Ops :
           /\ replies'[p].accepted = replies[p].accepted
           /\ \/ replies'[p].answers = replies[p].answers
              \/ /\ p = o
                 /\ \E v \in {word, NoText} :
                      replies'[p].answers = replies[p].answers \cup {[status |-> s, text |-> v]}
    BY <1>5, <2>1
  <2>4. QED
    BY <1>1, <1>2, <2>2, <2>3, SpeakingProgress, SameRequests
<1>7. CASE s \notin Terminal
  BY <1>1, <1>2, <1>5, <1>7, SilentProgress, SameRequests
<1>8. QED
  BY <1>6, <1>7

(* A response is adopted only where none is recorded, so never for an      *)
(* operation that completed.                                               *)
LEMMA AdoptionSettles ==
  ASSUME Sane, NEW o \in Ops, NEW text \in Texts, IsPrompt(cache[o]), ~HasResponse(o)
  PROVE  LET item == WithResponse(store.cache[o], text) IN
         /\ store.cache[o].status # "completed"
         /\ item \in Item /\ ItemSettles(item, store.cache[o])
<1>1. store.cache[o] \in Item
  BY DEF Sane, TypeOK, Store, Queue
<1>2. store.cache[o].status # "completed"
  BY SettledTexts DEF HasResponse, cache
<1>3. /\ WithResponse(store.cache[o], text) \in Item
      /\ WithResponse(store.cache[o], text).status = store.cache[o].status
      /\ WithResponse(store.cache[o], text).request = store.cache[o].request
  BY <1>1, ItemTypes, ItemChanges DEF Sane
<1>4. QED
  BY <1>2, <1>3 DEF ItemSettles, Statuses

LEMMA ProgressRepaired ==
  ASSUME Sane, NEW o \in Ops, NEW stage \in Stages, GetOperationRepaired(o, stage)
  PROVE  Progress
<1> DEFINE item == WithResponse(store.cache[o], observed.text)
<1>1. observed.text \in Texts
  BY DEF Sane, TypeOK
<1>2. /\ store.cache[o].status # "completed" /\ item \in Item
      /\ ItemSettles(item, store.cache[o])
  BY <1>1, AdoptionSettles DEF GetOperationRepaired, Repairable
<1>3. store' = Attempt(store, [store.cache EXCEPT ![o] = item], stage)
  BY DEF GetOperationRepaired, cache
<1> HIDE DEF item
<1>4. Continues(store', store, {})
  BY <1>2, <1>3, ItemContinues
<1>5. \A h \in Handlers : Repeats(finishing'[h]) => SameRequest(finishing'[h], finishing[h])
  BY SameRequests, SilentRequests DEF GetOperationRepaired
<1>6. nextId' = nextId
  BY DEF GetOperationRepaired
<1>7. CASE cache[o].status \in Terminal
  <2>0. PICK w : w = observed.text
    OBVIOUS
  <2>1. cache[o].status = "failed"
    BY <1>2, <1>7 DEF Terminal, cache
  <2>2. replies' = Told(o, stage, Answered(o, "failed", w))
    BY <1>7, <2>0, <2>1 DEF GetOperationRepaired
  <2>3. \A p \in Ops :
           /\ replies'[p].accepted = replies[p].accepted
           /\ \/ replies'[p].answers = replies[p].answers
              \/ /\ p = o
                 /\ replies'[p].answers = replies[p].answers \cup {[status |-> "failed", text |-> NoText]}
    BY <2>2, AnswerSays
  <2>4. Sound(o, "failed", NoText)
    BY <2>1, MatchingItems DEF Sound, Terminal, Sane, PromiseInv, TypeOK, cache, disk
  <2>5. QED
    BY <1>4, <1>5, <1>6, <2>3, <2>4, SpeakingProgress
<1>8. CASE cache[o].status \notin Terminal
  <2>1. replies' = replies
    BY <1>8 DEF GetOperationRepaired
  <2>2. QED
    BY <1>4, <1>5, <1>6, <2>1, SilentProgress
<1>9. QED
  BY <1>7, <1>8

(* A controller's report about one item.                                   *)
LEMMA UpdateContinues ==
  ASSUME Sane, NEW o \in Ops, NEW item \in Item, NEW stage \in Stages,
         Update(o, item, stage), ItemSettles(item, cache[o])
  PROVE  /\ Continues(store', store, {}) /\ nextId' = nextId
         /\ \A h \in Handlers : Repeats(finishing'[h]) => SameRequest(finishing'[h], finishing[h])
         /\ stage = Saved /\ item.status \in Terminal =>
              \/ /\ disk'[o].status = item.status
                 /\ item.text # NoText => store'.responses[o] = item.text
              \/ disk'[o].status = "absent" /\ CrowdedIn(disk', o)
<1>1. store' = Attempt(store, [store.cache EXCEPT ![o] = item], stage)
  BY DEF Update, cache
<1>2. ItemSettles(item, store.cache[o])
  BY DEF cache
<1>3. \A h \in Handlers : Repeats(finishing'[h]) => SameRequest(finishing'[h], finishing[h])
  BY SameRequests, SilentRequests DEF Update
<1>4. QED
  BY <1>1, <1>2, <1>3, ItemContinues DEF Update, disk

(* The report that ends an operation tells its controller how.             *)
LEMMA EndingReport ==
  ASSUME Sane, NEW o \in Ops, NEW item \in Item, NEW stage \in Stages,
         Update(o, item, stage), cache[o].status \in Active, item.request = cache[o].request,
         item.status \in Terminal, item.text = cache[o].text,
         replies' = Told(o, stage, Answered(o, item.status, cache[o].text))
  PROVE  Progress
<1>0. PICK s, w : s = item.status /\ w = cache[o].text
  OBVIOUS
<1> DEFINE word == IF s = "completed" THEN w ELSE NoText
<1>1. ItemSettles(item, cache[o])
  BY DEF ItemSettles, Active, Statuses
<1>2. /\ Continues(store', store, {}) /\ nextId' = nextId
      /\ \A h \in Handlers : Repeats(finishing'[h]) => SameRequest(finishing'[h], finishing[h])
      /\ stage = Saved =>
           \/ disk'[o].status = s /\ (w # NoText => store'.responses[o] = w)
           \/ disk'[o].status = "absent" /\ CrowdedIn(disk', o)
  BY <1>0, <1>1, UpdateContinues
<1>3. \A p \in Ops :
         /\ replies'[p].accepted = replies[p].accepted
         /\ \/ replies'[p].answers = replies[p].answers
            \/ /\ p = o /\ stage = Saved
               /\ replies'[p].answers = replies[p].answers \cup {[status |-> s, text |-> word]}
  BY <1>0, AnswerSays
<1>4. disk[o].status \in Active
  BY MatchingItems DEF Sane, PromiseInv, TypeOK, cache, disk
<1>5. CASE stage = Saved
  <2>1. Sound(o, s, word)
    BY <1>0, <1>2, <1>4, <1>5 DEF Sound
  <2> HIDE DEF word
  <2>2. QED
    BY <1>2, <1>3, <2>1, SpeakingProgress
<1>6. CASE stage # Saved
  BY <1>2, <1>3, <1>6, SilentProgress
<1>7. QED
  BY <1>5, <1>6

LEMMA ProgressReports ==
  ASSUME Sane, NEW o \in Ops, NEW stage \in Stages,
         \/ Heartbeat(o, stage) \/ PersistMetadata(o, stage) \/ FailOperation(o, stage)
         \/ \E c \in RetryClasses : RetryOperation(o, c, stage)
  PROVE  Progress
<1>1. cache[o] \in Item
  BY SweptType DEF Queue, Sane
<1>2. CASE Heartbeat(o, stage)
  <2> DEFINE item == [cache[o] EXCEPT !.status = "generating"]
  <2>1. item \in Item /\ item.status = "generating" /\ item.request = cache[o].request
    BY <1>1, ItemTypes, ItemChanges DEF Statuses, Active, Sane
  <2>2. cache[o].status \in Active /\ Update(o, item, stage) /\ replies' = replies
    BY <1>2, MovesAreActive DEF Heartbeat
  <2> HIDE DEF item
  <2>3. ItemSettles(item, cache[o])
    BY <2>1, <2>2 DEF ItemSettles, Active, Statuses
  <2>4. QED
    BY <2>1, <2>2, <2>3, UpdateContinues, SilentProgress
<1>3. CASE PersistMetadata(o, stage)
  <2>1. ItemSettles(cache[o], cache[o])
    BY <1>1 DEF ItemSettles, Statuses
  <2>2. QED
    BY <1>1, <1>3, <2>1, UpdateContinues, SilentProgress DEF PersistMetadata
<1>4. CASE FailOperation(o, stage)
  <2> DEFINE item == [cache[o] EXCEPT !.status = "failed"]
  <2>1. item \in Item /\ item.status = "failed" /\ item.request = cache[o].request
    BY <1>1, ItemTypes, ItemChanges DEF Statuses, Terminal, Sane
  <2>2. item.text = cache[o].text
    BY <1>1 DEF Item
  <2>3. /\ cache[o].status \in Active /\ Update(o, item, stage)
        /\ replies' = Told(o, stage, Answered(o, "failed", cache[o].text))
    BY <1>4, MovesAreActive DEF FailOperation
  <2> HIDE DEF item
  <2>4. QED
    BY <2>1, <2>2, <2>3, EndingReport DEF Terminal
<1>5. ASSUME NEW c \in RetryClasses, RetryOperation(o, c, stage) PROVE Progress
  <2> DEFINE item == Retried(cache[o], c)
  <2>1. item \in Item /\ item.request = cache[o].request /\ item.text = cache[o].text
    BY <1>1, RetriedType, ItemChanges
  <2>2. /\ cache[o].status \in Active /\ Update(o, item, stage)
        /\ replies' = IF item.status \in Terminal
                      THEN Told(o, stage, Answered(o, item.status, cache[o].text))
                      ELSE replies
    BY <1>5, MovesAreActive DEF RetryOperation
  <2>3. item.status \in Statuses
    <3>1. item.status = RetryTarget(cache[o], c)
      BY <1>1, ItemChanges
    <3>2. RetryTarget(cache[o], c) \in {"completed", "failed", "queued"}
      BY DEF RetryTarget
    <3>3. QED
      BY <3>1, <3>2 DEF Statuses, Active, Terminal
  <2> HIDE DEF item
  <2>4. CASE item.status \in Terminal
    BY <2>1, <2>2, <2>4, EndingReport
  <2>5. CASE item.status \notin Terminal
    <3>1. ItemSettles(item, cache[o])
      BY <2>1, <2>2, <2>3 DEF ItemSettles, Active
    <3>2. QED
      BY <2>1, <2>2, <2>5, <3>1, UpdateContinues, SilentProgress
  <2>6. QED
    BY <2>4, <2>5
<1>6. QED
  BY <1>2, <1>3, <1>4, <1>5

LEMMA ProgressObservation ==
  ASSUME Sane, NEW o \in Ops, NEW text \in Texts, NEW stage \in Stages,
         NEW recorded \in BOOLEAN, SaveBrowserObservation(o, text, stage, recorded)
  PROVE  Progress
<1> DEFINE item    == WithResponse(store.cache[o], text)
           adopted == Present(o) /\ text # NoText /\ IsPrompt(cache[o]) /\ ~HasResponse(o)
           saved   == Attempt(store, [store.cache EXCEPT ![o] = item], stage)
           st      == IF adopted THEN saved ELSE store
           reached == IF recorded THEN stage ELSE Replaced
<1>1. /\ store' = IF recorded \/ IOErrors THEN st ELSE Restart(st)
      /\ finishing' = Surviving(finishing, reached)
      /\ nextId' = nextId /\ replies' = replies
  BY DEF SaveBrowserObservation, cache
<1>2. adopted => item \in Item /\ ItemSettles(item, store.cache[o])
  BY AdoptionSettles
<1>3. adopted => saved \in Store /\ Continues(saved, store, {})
  BY <1>2, ItemContinues
<1> HIDE DEF saved, adopted
<1>4. st \in Store /\ Continues(st, store, {})
  BY <1>3, IdleContinues
<1> HIDE DEF st
<1>5. Continues(store', store, {})
  BY <1>1, <1>4, IdleContinues, RestartContinues
<1>6. \A h \in Handlers : Repeats(finishing'[h]) => SameRequest(finishing'[h], finishing[h])
  BY <1>1, SameRequests, SilentRequests
<1>7. QED
  BY <1>1, <1>5, <1>6, SilentProgress

(* The requests that finish an operation.                                  *)

LEMMA SpeaksProgress ==
  ASSUME Sane, Continues(store', store, {}), nextId' = nextId,
         \A o \in Ops : replies'[o].accepted = replies[o].accepted,
         Silent \/ \E o \in Ops : \E s, w : Speaks(o, s, w)
  PROVE  Progress
<1>1. Fresh = {} /\ nextId' \in {nextId, nextId + 1}
  BY NothingFresh DEF Sane
<1>2. Accepts
  BY DEF Accepts
<1>3. QED
  BY <1>1, <1>2 DEF Progress

LEMMA ProgressFinishedRead ==
  ASSUME Sane, NEW h \in Handlers, NEW o \in Ops, NEW text \in Texts,
         FinishedRead(h, o, text)
  PROVE  Progress
<1>1. Continues(store', store, {}) /\ nextId' = nextId /\ replies' = replies
  BY IdleContinues DEF FinishedRead
<1>2. finishing \in [Handlers -> Request]
  BY DEF Sane, TypeOK
<1>3. CASE cache[o].status = "completed"
  <2>1. PICK w : w = Hydrated(store, o)
    OBVIOUS
  <2>2. PICK pc : /\ pc = "evidence" => IsPrompt(cache[o])
                  /\ finishing' = Goto(h, [pc |-> pc, op |-> o, text |-> text, seen |-> w])
    BY <1>3, <2>1 DEF FinishedRead
  <2>3. disk[o].status = "completed" /\ w \in {NoText, store.responses[o]}
        /\ (pc = "evidence" => IsPrompt(disk[o]))
    BY <1>3, <2>1, <2>2, SettledTexts DEF IsPrompt
  <2>4. Sound(o, "completed", w)
    BY <2>3 DEF Sound, Terminal
  <2> DEFINE f == [pc |-> pc, op |-> o, text |-> text, seen |-> w]
  <2>5. \A g \in Handlers : finishing'[g] = IF g = h THEN f ELSE finishing[g]
    BY <1>2, <2>2 DEF Goto
  <2>6. f.op = o /\ f.seen = w /\ f.pc = pc
    OBVIOUS
  <2> HIDE DEF f
  <2>7. Speaks(o, "completed", w)
    BY <1>1, <2>3, <2>4, <2>5, <2>6 DEF Speaks, SameRequest
  <2>8. QED
    BY <1>1, <2>7, SpeaksProgress
<1>4. CASE cache[o].status # "completed"
  <2>1. PICK w : finishing' = Goto(h, [pc |-> "complete", op |-> o, text |-> w, seen |-> NoText])
    BY <1>4 DEF FinishedRead
  <2>2. \A g \in Handlers :
          finishing'[g] = IF g = h
                          THEN [pc |-> "complete", op |-> o, text |-> w, seen |-> NoText]
                          ELSE finishing[g]
    BY <1>2, <2>1 DEF Goto
  <2>3. \A g \in Handlers : Repeats(finishing'[g]) => SameRequest(finishing'[g], finishing[g])
    BY <2>2 DEF Repeats, SameRequest
  <2>4. QED
    BY <1>1, <2>3, SilentProgress
<1>5. QED
  BY <1>3, <1>4

(* A request that repeats an answer, and what it knows.                    *)
LEMMA RepeaterKnows ==
  ASSUME Sane, NEW h \in Handlers, Repeats(finishing[h])
  PROVE  LET o == finishing[h].op IN
         /\ o \in Ops
         /\ finishing \in [Handlers -> Request]
         /\ finishing[h] \in [pc : {"evidence", "timing", "chain", "complete", "recheck"},
                              op : Ops, text : Texts, seen : Texts]
         /\ Present(o) =>
              /\ cache[o].status = "completed" /\ disk[o].status = "completed"
              /\ cache[o].text \in {NoText, store.responses[o]}
              /\ finishing[h].pc = "evidence" =>
                   cache[o].available /\ store.responses[o] # NoText
<1> DEFINE o == finishing[h].op
<1>1. finishing \in [Handlers -> Request]
  BY DEF Sane, TypeOK
<1>2. finishing[h] \in [pc : {"evidence", "timing", "chain", "complete", "recheck"},
                        op : Ops, text : Texts, seen : Texts]
  BY <1>1 DEF Request, Repeats, Idle
<1>3. o \in Ops
  BY <1>2
<1>4. RepeaterSafe(finishing[h])
  BY DEF Sane, PromiseInv
<1>5. cache[o].status = disk[o].status /\ cache[o].request = disk[o].request
  BY <1>3, MatchingItems DEF Sane, PromiseInv, TypeOK, cache, disk
<1>6. Present(o) => /\ cache[o].status = "completed" /\ disk[o].status = "completed"
                    /\ finishing[h].pc = "evidence" => IsPrompt(cache[o])
  BY <1>4, <1>5 DEF Present, RepeaterSafe, IsPrompt
<1>7. QED
  BY <1>1, <1>2, <1>3, <1>6, SettledTexts

(* A request that goes on with the response w of its operation, which is   *)
(* the recorded one, or the one it has read.                               *)
LEMMA RequestGoesOn ==
  ASSUME Sane, NEW h \in Handlers, Repeats(finishing[h]), NEW pc \in {"timing", "chain"}, NEW w,
         finishing' = Goto(h, [finishing[h] EXCEPT !.pc = pc, !.seen = w]),
         UNCHANGED <<nextId, replies>>, Continues(store', store, {}),
         \/ w = finishing[h].seen
         \/ Present(finishing[h].op) /\ w \in {NoText, store.responses[finishing[h].op]}
  PROVE  Progress
<1> DEFINE f == [finishing[h] EXCEPT !.pc = pc, !.seen = w]
<1>0. PICK o \in Ops : o = finishing[h].op
  BY RepeaterKnows
<1>1. f.op = o /\ f.seen = w /\ f.pc = pc
  BY <1>0, RepeaterKnows
<1>2. \A g \in Handlers : finishing'[g] = IF g = h THEN f ELSE finishing[g]
  BY RepeaterKnows DEF Goto
<1> HIDE DEF f
<1>3. CASE w = finishing[h].seen
  <2>1. \A g \in Handlers : Repeats(finishing'[g]) => SameRequest(finishing'[g], finishing[g])
    BY <1>0, <1>1, <1>2, <1>3 DEF SameRequest
  <2>2. QED
    BY <2>1, SilentProgress
<1>4. CASE Present(o) /\ w \in {NoText, store.responses[o]}
  <2>1. disk[o].status = "completed"
    BY <1>0, <1>4, RepeaterKnows
  <2>2. Sound(o, "completed", w)
    BY <1>4, <2>1 DEF Sound, Terminal
  <2>3. Speaks(o, "completed", w)
    BY <1>1, <1>2, <2>1, <2>2 DEF Speaks, SameRequest
  <2>4. QED
    BY <2>3, SpeaksProgress
<1>5. QED
  BY <1>0, <1>3, <1>4

LEMMA ProgressFinishedEvidence ==
  ASSUME Sane, NEW h \in Handlers, NEW stage \in Stages, FinishedEvidence(h, stage)
  PROVE  Progress
<1>0. PICK o : o = finishing[h].op
  OBVIOUS
<1>1. Repeats(finishing[h]) /\ finishing[h].pc = "evidence" /\ UNCHANGED <<nextId, replies>>
  BY DEF FinishedEvidence, At, Repeats
<1>2. o \in Ops /\ store \in Store /\ Continues(store, store, {})
  BY <1>0, <1>1, RepeaterKnows, IdleContinues
<1>3. CASE Present(o)
  <2>1. /\ cache[o].available /\ store.responses[o] # NoText /\ disk[o].status = "completed"
        /\ RecordedResponse(o) = store.responses[o]
    BY <1>0, <1>1, <1>3, RepeaterKnows DEF RecordedResponse
  <2>2. PICK w : w = store.responses[o]
    OBVIOUS
  <2>3. store' = [store EXCEPT !.cache[o].text = w] /\ stage = Saved
    BY <1>0, <1>3, <2>1, <2>2 DEF FinishedEvidence
  <2>4. PICK pc \in {"timing", "chain"} :
          finishing' = Goto(h, [finishing[h] EXCEPT !.pc = pc, !.seen = w])
    BY <1>0, <1>3, <2>1, <2>2, <2>3 DEF FinishedEvidence
  <2>5. /\ store'.disk = store.disk /\ store'.responses = store.responses
        /\ store'.cache[o] = [store.cache[o] EXCEPT !.text = w]
        /\ \A p \in Ops : p # o => store'.cache[p] = store.cache[p]
    BY <1>2, <2>3 DEF Store, Queue
  <2>6. Matches(store)
    BY DEF Sane, PromiseInv
  <2>7. store'.cache[o] = [store.disk[o] EXCEPT !.text = w]
    <3>1. store.disk[o] \in Item
      BY <1>2 DEF Store, Queue
    <3>2. \/ store.cache[o] = store.disk[o]
          \/ store.cache[o] = [store.disk[o] EXCEPT !.text = w]
      BY <1>2, <2>2, <2>6 DEF Matches
    <3>3. [[store.disk[o] EXCEPT !.text = w] EXCEPT !.text = w] = [store.disk[o] EXCEPT !.text = w]
      BY <3>1 DEF Item
    <3>4. QED
      BY <2>5, <3>2, <3>3
  <2>8. Matches(store')
    BY <1>2, <2>1, <2>2, <2>5, <2>6, <2>7 DEF Matches, disk
  <2>9. Continues(store', store, {})
    BY <1>2, <2>5, <2>8 DEF Continues
  <2>10. QED
    BY <1>0, <1>1, <1>3, <2>2, <2>4, <2>9, RequestGoesOn
<1>4. CASE ~Present(o)
  <2>1. store' = store /\ stage = Saved
    BY <1>0, <1>4 DEF FinishedEvidence
  <2>2. PICK w : w = finishing[h].seen
    OBVIOUS
  <2>3. PICK pc \in {"timing", "chain"} :
          finishing' = Goto(h, [finishing[h] EXCEPT !.pc = pc, !.seen = w])
    BY <1>0, <1>4, <2>1, <2>2 DEF FinishedEvidence
  <2>4. QED
    BY <1>1, <1>2, <2>1, <2>2, <2>3, RequestGoesOn
<1>5. QED
  BY <1>3, <1>4

LEMMA ProgressFinishedTiming ==
  ASSUME Sane, NEW h \in Handlers, NEW stage \in Stages, FinishedTiming(h, stage)
  PROVE  Progress
<1>0. PICK o : o = finishing[h].op
  OBVIOUS
<1>1. Repeats(finishing[h]) /\ UNCHANGED <<nextId, replies>>
  BY DEF FinishedTiming, At, Repeats
<1>2. Continues(store', store, {})
  <2>1. cache \in Queue
    BY SweptType DEF Sane
  <2>2. Settles(cache, store.cache, {})
    BY <2>1 DEF Settles, ItemSettles, Queue, Item, Statuses, cache
  <2>3. store' = Attempt(store, cache, stage) \/ store' = store
    BY DEF FinishedTiming
  <2>4. QED
    BY <2>1, <2>2, <2>3, SaveContinues, IdleContinues
<1>3. CASE stage = Saved
  <2>1. PICK w : w = IF Present(o) THEN cache[o].text ELSE finishing[h].seen
    OBVIOUS
  <2>2. finishing' = Goto(h, [finishing[h] EXCEPT !.pc = "chain", !.seen = w])
    BY <1>0, <1>3, <2>1 DEF FinishedTiming
  <2>3. Present(o) => w \in {NoText, store.responses[o]}
    BY <1>0, <1>1, <2>1, RepeaterKnows
  <2>4. \/ w = finishing[h].seen
        \/ Present(finishing[h].op) /\ w \in {NoText, store.responses[finishing[h].op]}
    BY <1>0, <2>1, <2>3
  <2>5. QED
    BY <1>1, <1>2, <2>2, <2>4, RequestGoesOn
<1>4. CASE stage # Saved
  <2>1. finishing' = Surviving(Done(h), stage)
    BY <1>4 DEF FinishedTiming
  <2>2. \A g \in Handlers : Repeats(finishing'[g]) => SameRequest(finishing'[g], finishing[g])
    BY <2>1, SameRequests, SilentRequests
  <2>3. QED
    BY <1>1, <1>2, <2>2, SilentProgress
<1>5. QED
  BY <1>3, <1>4

(* The same for a reply that also hands operations over.                   *)
LEMMA HandoverSays ==
  ASSUME Sane, NEW o \in Ops, NEW w \in Texts, NEW S,
         replies' = GrantAll([replies EXCEPT ![o] = Answered(o, "completed", w)], S)
  PROVE  \A p \in Ops :
           /\ replies'[p].accepted = replies[p].accepted
           /\ \/ replies'[p].answers = replies[p].answers
              \/ /\ p = o
                 /\ replies'[p].answers = replies[p].answers \cup
                      {[status |-> "completed", text |-> w]}
<1> DEFINE told == [replies EXCEPT ![o] = Answered(o, "completed", w)]
<1>1. told \in [Ops -> Reply]
  <2>1. Answered(o, "completed", w) \in Reply
    BY RepliesType DEF Sane, Terminal
  <2>2. QED
    BY <2>1 DEF Sane, TypeOK
<1>2. \A p \in Ops : /\ told[p].accepted = replies[p].accepted
                     /\ \/ told[p].answers = replies[p].answers
                        \/ /\ p = o
                           /\ told[p].answers = replies[p].answers \cup
                                {[status |-> "completed", text |-> w]}
  <2>1. told = Told(o, Saved, Answered(o, "completed", w))
    BY DEF Told
  <2> HIDE DEF told
  <2>2. QED
    BY <2>1, AnswerSays
<1>3. PICK t : t = told
  OBVIOUS
<1>4. replies' = GrantAll(t, S) /\ t \in [Ops -> Reply]
  BY <1>1, <1>3
<1>5. \A p \in Ops : /\ replies'[p].answers = t[p].answers
                     /\ replies'[p].accepted = t[p].accepted
  BY <1>4, GrantsSaySame
<1> HIDE DEF told
<1>6. QED
  BY <1>2, <1>3, <1>5

LEMMA ShownText ==
  ASSUME NEW w \in Texts, NEW ackOnly \in BOOLEAN
  PROVE  Shown(w, ackOnly) \in {w, NoText} /\ Shown(w, ackOnly) \in Texts
  BY DEF Shown, Texts

LEMMA ProgressFinishedChain ==
  ASSUME Sane, NEW h \in Handlers, NEW ackOnly \in BOOLEAN, FinishedChain(h, ackOnly)
  PROVE  Progress
<1>0. PICK o, w, x, S : /\ o = finishing[h].op /\ w = finishing[h].seen
                        /\ x = Shown(w, ackOnly) /\ S = Chained(cache, o)
  OBVIOUS
<1>1. Repeats(finishing[h]) /\ finishing' = Done(h) /\ UNCHANGED <<store, nextId>>
  BY DEF FinishedChain, At, Repeats
<1>2. o \in Ops /\ w \in Texts
  BY <1>0, <1>1, RepeaterKnows
<1>3. x \in {w, NoText} /\ x \in Texts
  BY <1>0, <1>2, ShownText
<1>4. replies' = GrantAll([replies EXCEPT ![o] = Answered(o, "completed", x)], S)
  BY <1>0 DEF FinishedChain
<1>5. \A p \in Ops :
         /\ replies'[p].accepted = replies[p].accepted
         /\ \/ replies'[p].answers = replies[p].answers
            \/ /\ p = o
               /\ \E v \in {w, NoText} :
                    replies'[p].answers = replies[p].answers \cup
                      {[status |-> "completed", text |-> v]}
  <2>1. \A p \in Ops :
           /\ replies'[p].accepted = replies[p].accepted
           /\ \/ replies'[p].answers = replies[p].answers
              \/ /\ p = o
                 /\ replies'[p].answers = replies[p].answers \cup
                      {[status |-> "completed", text |-> x]}
    BY <1>2, <1>3, <1>4, HandoverSays
  <2>2. QED
    BY <1>3, <2>1
<1>6. Sound(o, "completed", w)
  BY <1>0, <1>1 DEF Sound
<1>7. QED
  BY <1>1, <1>2, <1>5, <1>6, IdleContinues, SameRequests, SpeakingProgress

(* Completing an operation and claiming its successor.                     *)
LEMMA CompletionSettles ==
  ASSUME Sane, NEW q \in Queue, NEW o \in Ops, NEW text \in Texts, q[o].status \in Active
  PROVE  LET done == CompleteAndClaimNext(q, o, text) IN
         done \in Queue /\ Settles(done, q, {}) /\ done[o].status = "completed"
<1> DEFINE waiting == Queued(q) \ {o}
           ended   == Completed(q[o], text)
           n       == First(waiting)
           done    == CompleteAndClaimNext(q, o, text)
<1>0. q[o] \in Item /\ done \in Queue
  BY CompleteType DEF Queue, Sane
<1>1. ended \in Item /\ ended.status = "completed" /\ ended.request = q[o].request
  <2>1. ended.status = "completed" /\ ended.request = q[o].request
    BY <1>0 DEF Completed, WithResponse, Item
  <2>2. QED
    BY <1>0, <2>1, ItemTypes DEF Sane
<1>2. \A p \in Ops : ItemSettles(q[p], q[p])
  BY DEF ItemSettles, Queue, Item, Statuses
<1>3. CASE waiting = {}
  <2>1. done = [q EXCEPT ![o] = ended]
    BY <1>3 DEF CompleteAndClaimNext
  <2> HIDE DEF done, ended
  <2>2. \A p \in Ops : done[p] = IF p = o THEN ended ELSE q[p]
    BY <2>1 DEF Queue
  <2>3. ItemSettles(ended, q[o])
    BY <1>1 DEF ItemSettles, Active, Statuses, Terminal
  <2>4. QED
    BY <1>0, <1>1, <1>2, <2>2, <2>3 DEF Settles, done
<1>4. CASE waiting # {}
  <2>1. waiting \subseteq Nat /\ waiting \subseteq Ops
    BY DEF Queued, Ops
  <2>2. n \in waiting /\ n \in Ops /\ n # o /\ q[n].status = "queued" /\ q[n] \in Item
    BY <1>4, <2>1, FirstExists DEF Queued, Queue
  <2>3. done = [[q EXCEPT ![o] = ended] EXCEPT ![n] = MarkClaimed(@), ![o].next = n]
    BY <1>4 DEF CompleteAndClaimNext
  <2> DEFINE claimed == MarkClaimed(q[n])
             chained == [ended EXCEPT !.next = n]
  <2>4. chained.status = "completed" /\ chained.request = q[o].request
    BY <1>1 DEF Item
  <2>5. claimed.request = q[n].request /\ claimed.status = "claimed"
    BY <2>2, ItemChanges
  <2> HIDE DEF done, ended, waiting, n
  <2>6. \A p \in Ops : done[p] = IF p = o THEN chained ELSE IF p = n THEN claimed ELSE q[p]
    BY <2>2, <2>3 DEF Queue
  <2> HIDE DEF chained, claimed
  <2>7. ItemSettles(chained, q[o]) /\ ItemSettles(claimed, q[n])
    BY <2>2, <2>4, <2>5 DEF ItemSettles, Active, Statuses, Terminal
  <2>8. Settles(done, q, {}) /\ done[o].status = "completed"
    BY <1>2, <2>4, <2>6, <2>7 DEF Settles
  <2>9. QED
    BY <1>0, <2>8 DEF done
<1>5. QED
  BY <1>3, <1>4

(* What a sweep leaves unfinished was unfinished; what it leaves completed *)
(* was completed, with the same response, or unfinished.                   *)
LEMMA SweptItem ==
  ASSUME Sane, NEW o \in Ops
  PROVE  /\ Swept \in Store /\ Continues(Swept, store, {}) /\ Swept.cache \in Queue
         /\ Swept.cache[o].status \in Active => disk[o].status \in Active
         /\ Swept.cache[o].status = "completed" =>
              /\ Swept.disk[o].status = "completed"
              /\ Hydrated(Swept, o) \in {NoText, Swept.responses[o]}
              /\ \/ disk[o].status \in Active
                 \/ disk[o].status = "completed" /\ Swept.responses[o] = store.responses[o]
<1>1. Swept \in Store /\ Continues(Swept, store, {})
  BY SweptContinues DEF Sane, PromiseInv
<1>2. PICK st : st = Swept
  OBVIOUS
<1>3. st \in Store /\ Continues(st, store, {}) /\ Matches(st)
  BY <1>1, <1>2 DEF Continues
<1>4. st.cache \in Queue
  BY <1>3 DEF Store
<1>5. /\ st.cache[o].status = st.disk[o].status
      /\ st.cache[o].text # NoText /\ st.cache[o].status \in Terminal =>
           st.cache[o].text = st.responses[o]
  BY <1>3, MatchingItems
<1>6. "absent" \notin Active /\ "completed" \notin Active
  BY DEF Active
<1>7. st.cache[o].status \in Active => disk[o].status \in Active
  BY <1>3, <1>5, <1>6 DEF Continues, Ages, disk
<1>8. ASSUME st.cache[o].status = "completed"
      PROVE  /\ st.disk[o].status = "completed"
             /\ Hydrated(st, o) \in {NoText, st.responses[o]}
             /\ \/ disk[o].status \in Active
                \/ disk[o].status = "completed" /\ st.responses[o] = store.responses[o]
  <2>1. st.disk[o].status = "completed"
    BY <1>5, <1>8
  <2>2. Hydrated(st, o) \in {NoText, st.responses[o]}
    BY <1>5, <1>8 DEF Hydrated, Terminal
  <2>3. disk[o].status \in Active \/ disk[o].status = "completed"
    BY <1>3, <2>1 DEF Continues, Ages, disk
  <2>4. disk[o].status = "completed" => st.responses[o] = store.responses[o]
    BY <1>3, <2>1 DEF Continues, disk
  <2>5. QED
    BY <2>1, <2>2, <2>3, <2>4
<1>9. QED
  BY <1>2, <1>3, <1>4, <1>7, <1>8

LEMMA ProgressFinishedComplete ==
  ASSUME Sane, NEW h \in Handlers, NEW stage \in Stages, NEW ackOnly \in BOOLEAN,
         FinishedComplete(h, stage, ackOnly)
  PROVE  Progress
<1>0. PICK o, text : o = finishing[h].op /\ text = finishing[h].text
  OBVIOUS
<1>1. ~At(h, "idle") /\ nextId' = nextId
  BY DEF FinishedComplete, At
<1>2. o \in Ops /\ text \in Texts
  BY <1>0, <1>1, BusyRequest DEF Sane
<1>3. \A fs : fs = Done(h) \/ fs = Surviving(Done(h), stage) =>
        \A g \in Handlers : Repeats(fs[g]) => SameRequest(fs[g], finishing[g])
  BY SameRequests, SilentRequests
<1>4. /\ Swept \in Store /\ Continues(Swept, store, {}) /\ Swept.cache \in Queue
      /\ Swept.cache[o].status \in Active => disk[o].status \in Active
      /\ Swept.cache[o].status = "completed" =>
           /\ Swept.disk[o].status = "completed"
           /\ Hydrated(Swept, o) \in {NoText, Swept.responses[o]}
           /\ \/ disk[o].status \in Active
              \/ disk[o].status = "completed" /\ Swept.responses[o] = store.responses[o]
  BY <1>2, SweptItem
<1>5. CASE FinishedSweepAborts(h, stage)
  <2>1. Sweep(cache) \in Queue /\ Settles(Sweep(cache), store.cache, {})
    BY SweptType, SweepType, SweepSettles DEF cache, Sane
  <2>2. Continues(store', store, {})
    BY <1>5, <2>1, SaveContinues DEF FinishedSweepAborts
  <2>3. QED
    BY <1>1, <1>3, <1>5, <2>2, SilentProgress DEF FinishedSweepAborts
<1>6. CASE FinishedCompletes(h, stage, ackOnly)
  <2> DEFINE done == CompleteAndClaimNext(Swept.cache, o, text)
  <2>1. Swept.cache[o].status \in Active
    BY <1>0, <1>6, MovesAreActive DEF FinishedCompletes
  <2>2. done \in Queue /\ Settles(done, Swept.cache, {}) /\ done[o].status = "completed"
    BY <1>2, <1>4, <2>1, CompletionSettles
  <2>3. /\ store' = Attempt(Swept, done, stage) /\ finishing' = Surviving(Done(h), stage)
        /\ replies' = IF stage = Saved
                      THEN GrantAll([replies EXCEPT ![o] = Answered(o, "completed", Shown(done[o].text, ackOnly))],
                                    {n \in Queued(Swept.cache) : ackOnly /\ n = done[o].next})
                      ELSE replies
    BY <1>0, <1>6 DEF FinishedCompletes
  <2> HIDE DEF done
  <2>4. Continues(store', store, {}) /\ (stage = Saved => Keeps(store', done))
    BY <2>2, <2>3, SaveContinues
  <2>5. CASE stage = Saved
    <3>1. PICK w, x, S : /\ w = done[o].text /\ x = Shown(w, ackOnly)
                         /\ S = {n \in Queued(Swept.cache) : ackOnly /\ n = done[o].next}
      OBVIOUS
    <3>2. w \in Texts
      BY <1>2, <2>2, <3>1 DEF Queue, Item
    <3>3. x \in {w, NoText} /\ x \in Texts
      BY <3>1, <3>2, ShownText
    <3>4. replies' = GrantAll([replies EXCEPT ![o] = Answered(o, "completed", x)], S)
      BY <2>3, <2>5, <3>1
    <3>5. \A p \in Ops :
             /\ replies'[p].accepted = replies[p].accepted
             /\ \/ replies'[p].answers = replies[p].answers
                \/ /\ p = o
                   /\ \E v \in {w, NoText} :
                        replies'[p].answers = replies[p].answers \cup
                          {[status |-> "completed", text |-> v]}
      <4>1. \A p \in Ops :
               /\ replies'[p].accepted = replies[p].accepted
               /\ \/ replies'[p].answers = replies[p].answers
                  \/ /\ p = o
                     /\ replies'[p].answers = replies[p].answers \cup
                          {[status |-> "completed", text |-> x]}
        BY <1>2, <3>3, <3>4, HandoverSays
      <4>2. QED
        BY <3>3, <4>1
    <3>6. \/ /\ disk'[o].status = "completed"
             /\ w # NoText => store'.responses[o] = w
          \/ disk'[o].status = "absent" /\ CrowdedIn(disk', o)
      BY <1>2, <2>2, <2>4, <2>5, <3>1 DEF Keeps, Terminal, disk
    <3>7. disk[o].status \in Active
      BY <1>4, <2>1
    <3>8. Sound(o, "completed", w)
      BY <3>6, <3>7 DEF Sound, Terminal
    <3>9. QED
      BY <1>1, <1>2, <1>3, <2>3, <2>4, <3>5, <3>8, SpeakingProgress
  <2>6. CASE stage # Saved
    <3>1. replies' = replies
      BY <2>3, <2>6
    <3>2. QED
      BY <1>1, <1>3, <2>3, <2>4, <3>1, SilentProgress
  <2>7. QED
    BY <2>5, <2>6
<1>7. CASE FinishedTooLate(h, stage, ackOnly)
  <2>1. store' = Swept /\ Continues(store', store, {})
    BY <1>4, <1>7 DEF FinishedTooLate
  <2>2. CASE finishing' = Done(h) /\ UNCHANGED replies
    BY <1>1, <1>3, <2>1, <2>2, SilentProgress
  <2>3. CASE finishing' = Goto(h, [finishing[h] EXCEPT !.pc = "recheck"]) /\ UNCHANGED replies
    <3> DEFINE f == [finishing[h] EXCEPT !.pc = "recheck"]
    <3>1. finishing \in [Handlers -> Request] /\ finishing[h] \in Request
      BY DEF Sane, TypeOK
    <3>2. f.pc = "recheck"
      BY <3>1 DEF Request, Idle
    <3>3. \A g \in Handlers : finishing'[g] = IF g = h THEN f ELSE finishing[g]
      BY <2>3, <3>1 DEF Goto
    <3> HIDE DEF f
    <3>4. \A g \in Handlers : Repeats(finishing'[g]) => SameRequest(finishing'[g], finishing[g])
      BY <3>2, <3>3 DEF Repeats, SameRequest
    <3>5. QED
      BY <1>1, <2>1, <2>3, <3>4, SilentProgress
  <2>4. CASE /\ Swept.cache[o].status = "completed" /\ finishing' = Done(h)
             /\ replies' = GrantAll([replies EXCEPT ![o] = Answered(o, "completed", Shown(Hydrated(Swept, o), ackOnly))],
                                    {n \in Chained(Swept.cache, o) : ackOnly})
    <3>1. PICK w, x, S : /\ w = Hydrated(Swept, o) /\ x = Shown(w, ackOnly)
                         /\ S = {n \in Chained(Swept.cache, o) : ackOnly}
      OBVIOUS
    <3>2. w \in Texts
      BY <1>2, <1>4, <3>1, HydratedType
    <3>3. x \in {w, NoText} /\ x \in Texts
      BY <3>1, <3>2, ShownText
    <3>4. replies' = GrantAll([replies EXCEPT ![o] = Answered(o, "completed", x)], S)
      BY <2>4, <3>1
    <3>5. \A p \in Ops :
             /\ replies'[p].accepted = replies[p].accepted
             /\ \/ replies'[p].answers = replies[p].answers
                \/ /\ p = o
                   /\ \E v \in {w, NoText} :
                        replies'[p].answers = replies[p].answers \cup
                          {[status |-> "completed", text |-> v]}
      <4>1. \A p \in Ops :
               /\ replies'[p].accepted = replies[p].accepted
               /\ \/ replies'[p].answers = replies[p].answers
                  \/ /\ p = o
                     /\ replies'[p].answers = replies[p].answers \cup
                          {[status |-> "completed", text |-> x]}
        BY <1>2, <3>3, <3>4, HandoverSays
      <4>2. QED
        BY <3>3, <4>1
    <3>6. /\ disk'[o].status = "completed" /\ w \in {NoText, store'.responses[o]}
          /\ \/ disk[o].status \in Active
             \/ disk[o].status = "completed" /\ store'.responses[o] = store.responses[o]
      BY <1>4, <2>1, <2>4, <3>1 DEF disk
    <3>7. Sound(o, "completed", w)
      BY <3>6 DEF Sound, Terminal
    <3>8. QED
      BY <1>1, <1>2, <1>3, <2>1, <2>4, <3>5, <3>7, SpeakingProgress
  <2>5. QED
    BY <1>0, <1>7, <2>2, <2>3, <2>4 DEF FinishedTooLate
<1>8. QED
  BY <1>5, <1>6, <1>7 DEF FinishedComplete

LEMMA ProgressFinishedRecheck ==
  ASSUME Sane, NEW h \in Handlers, NEW stage \in Stages, NEW ackOnly \in BOOLEAN,
         FinishedRecheck(h, stage, ackOnly)
  PROVE  Progress
<1>0. PICK o : o = finishing[h].op
  OBVIOUS
<1>1. ~At(h, "idle") /\ nextId' = nextId /\ finishing' = Surviving(Done(h), stage)
  BY DEF FinishedRecheck, At
<1>2. o \in Ops
  BY <1>0, <1>1, BusyRequest DEF Sane
<1>3. \A g \in Handlers : Repeats(finishing'[g]) => SameRequest(finishing'[g], finishing[g])
  BY <1>1, SameRequests, SilentRequests
<1>4. CASE Present(o) /\ Repairable(o)
  <2> DEFINE item == WithResponse(store.cache[o], observed.text)
  <2>1. observed.text \in Texts
    BY DEF Sane, TypeOK
  <2>2. /\ store.cache[o].status # "completed" /\ item \in Item
        /\ ItemSettles(item, store.cache[o])
    BY <1>2, <1>4, <2>1, AdoptionSettles DEF Repairable
  <2>3. store' = Attempt(store, [store.cache EXCEPT ![o] = item], stage)
    BY <1>0, <1>4 DEF FinishedRecheck, cache
  <2> HIDE DEF item
  <2>4. Continues(store', store, {})
    BY <1>2, <2>2, <2>3, ItemContinues
  <2>5. replies' = replies
    BY <1>0, <2>2 DEF FinishedRecheck, cache
  <2>6. QED
    BY <1>1, <1>3, <2>4, <2>5, SilentProgress
<1>5. CASE ~(Present(o) /\ Repairable(o))
  <2>1. store' = store /\ stage = Saved
    BY <1>0, <1>5 DEF FinishedRecheck
  <2>2. Continues(store', store, {}) /\ store \in Store
    BY <2>1, IdleContinues
  <2>3. CASE cache[o].status = "completed" /\ ~ackOnly
    <3>1. PICK w : w = Hydrated(store, o)
      OBVIOUS
    <3>2. replies' = Told(o, stage, Answered(o, "completed", w))
      BY <1>0, <1>5, <2>3, <3>1 DEF FinishedRecheck
    <3>3. \A p \in Ops :
             /\ replies'[p].accepted = replies[p].accepted
             /\ \/ replies'[p].answers = replies[p].answers
                \/ /\ p = o
                   /\ replies'[p].answers = replies[p].answers \cup
                        {[status |-> "completed", text |-> w]}
      BY <1>2, <3>2, AnswerSays
    <3>4. Sound(o, "completed", w)
      BY <1>2, <2>3, <3>1, SettledTexts DEF Sound, Terminal
    <3>5. QED
      BY <1>1, <1>2, <1>3, <2>2, <3>3, <3>4, SpeakingProgress
  <2>4. CASE ~(cache[o].status = "completed" /\ ~ackOnly)
    <3>1. replies' = replies
      BY <1>0, <2>4 DEF FinishedRecheck
    <3>2. QED
      BY <1>1, <1>3, <2>2, <3>1, SilentProgress
  <2>5. QED
    BY <2>3, <2>4
<1>6. QED
  BY <1>4, <1>5

LEMMA ProgressCrash ==
  ASSUME Sane, Crash PROVE Progress
<1>1. Continues(store', store, {})
  BY IdleContinues, RestartContinues DEF Crash
<1>2. \A h \in Handlers : ~Repeats(finishing'[h])
  BY DEF Crash, Repeats, Idle
<1>3. QED
  BY <1>1, <1>2, SilentProgress DEF Crash

LEMMA NextProgress == Sane /\ [Next]_vars => Progress
<1> SUFFICES ASSUME Sane, [Next]_vars PROVE Progress
  OBVIOUS
<1>1. CASE Tick \/ UNCHANGED vars
  <2>1. UNCHANGED <<store, nextId, finishing, replies>>
    BY <1>1 DEF Tick, vars
  <2>2. QED
    BY <2>1, IdleContinues, SameRequests, SilentProgress
<1>2. ASSUME NEW h \in Handlers, Finished(h) PROVE Progress
  BY <1>2, ProgressFinishedRead, ProgressFinishedEvidence, ProgressFinishedTiming,
     ProgressFinishedComplete, ProgressFinishedRecheck, ProgressFinishedChain DEF Finished
<1>3. ASSUME NEW o \in Ops, NEW stage \in Stages,
             \/ GetOperationRepaired(o, stage) \/ ClaimOperation(o, stage)
             \/ Heartbeat(o, stage) \/ PersistMetadata(o, stage) \/ FailOperation(o, stage)
             \/ \E text \in Texts, recorded \in BOOLEAN :
                  SaveBrowserObservation(o, text, stage, recorded)
             \/ \E c \in RetryClasses : RetryOperation(o, c, stage)
      PROVE  Progress
  BY <1>3, ProgressRepaired, ProgressClaims, ProgressReports, ProgressObservation
<1>4. ASSUME NEW stage \in Stages, GetStatus(stage) \/ ClaimNextOperation(stage) PROVE Progress
  BY <1>4, ProgressClaims
<1>5. QED
  BY <1>1, <1>2, <1>3, <1>4, ProgressQueueDuplicate, ProgressQueueOperation,
     ProgressGetOperation, ProgressCrash DEF Next

-----------------------------------------------------------------------------
(* The promises.                                                           *)

LEMMA InitPromise == Init => PromiseInv
<1> SUFFICES ASSUME Init PROVE PromiseInv
  OBVIOUS
<1>1. \A o \in Ops : /\ store.disk[o] = Gone /\ store.cache[o] = Gone
                     /\ replies[o].answers = {} /\ ~replies[o].accepted
  BY DEF Init
<1>2. Gone.status = "absent" /\ "absent" \notin Terminal
  BY DEF Gone, Terminal
<1>3. Matches(store)
  BY <1>1, <1>2 DEF Matches
<1>4. AnsweredIsDurable
  BY <1>1 DEF AnsweredIsDurable
<1>5. \A h \in Handlers : ~Repeats(finishing[h])
  BY DEF Init, Repeats, Idle
<1>6. \A o \in Ops : Words(o) = {}
  BY <1>1, <1>5 DEF Words
<1>7. \A o \in Ops : OneStatus(o) /\ OneWord(o)
  BY <1>1, <1>6 DEF OneStatus, OneWord
<1>8. QED
  BY <1>1, <1>3, <1>4, <1>5, <1>7 DEF PromiseInv

LEMMA PromiseHolds ==
  ASSUME ~IOErrors
  PROVE  Spec => []PromiseInv
<1>1. TypeOK /\ ResponseInv /\ PromiseInv /\ [Next]_vars => PromiseInv'
  BY NextProgress, PromiseStep DEF Sane
<1>2. QED
  BY <1>1, InitPromise, TypeCorrect, ResponseInvHolds, PTL DEF Spec

(* Once a submitter has been told its operation is queued, or anyone that  *)
(* it completed or failed, no crash in whatever write takes it back:       *)
(* queue.json says the same or retention has dropped the operation in      *)
(* favour of younger ones.                                                 *)
THEOREM AnswersAreDurable ==
  ASSUME ~IOErrors
  PROVE  Spec => []AnsweredIsDurable
<1>1. PromiseInv => AnsweredIsDurable
  BY DEF PromiseInv
<1>2. QED
  BY <1>1, PromiseHolds, PTL

(* No two readers of a completed operation are given different responses,  *)
(* however many finish requests, observations and reads interleave.        *)
THEOREM AnswersAgree ==
  ASSUME ~IOErrors
  PROVE  Spec => []OneResponsePerOperation
<1>1. PromiseInv => OneResponsePerOperation
  BY DEF PromiseInv, OneWord, Words, OneResponsePerOperation
<1>2. QED
  BY <1>1, PromiseHolds, PTL

-----------------------------------------------------------------------------
(* The bridge implements DurableQueue.                                     *)

Seen(q) == [o \in Ops |-> IF q[o].status \in Active THEN "pending" ELSE q[o].status]

Heard(o) == {a.status : a \in replies[o].answers}

(* Who is crowded out on disk is crowded out in the abstract queue.        *)
LEMMA SeenCrowd ==
  ASSUME NEW q \in Queue, NEW o \in Ops
  PROVE  {p \in Ops : p > o /\ Seen(q)[p] \in Terminal} = Crowd(q, o)
<1>1. "pending" \notin Terminal /\ \A s \in Active : s \notin Terminal
  BY DEF Active, Terminal
<1>2. \A p \in Ops : Seen(q)[p] \in Terminal <=> q[p].status \in Terminal
  BY <1>1 DEF Seen
<1>3. QED
  BY <1>2 DEF Crowd, TerminalOps

(* queue.json moves as the abstract queue may.                             *)
LEMMA PromiseAdvances ==
  ASSUME Sane, Progress, disk' \in Queue, NEW o \in Ops
  PROVE  \/ Seen(disk')[o] = Seen(disk)[o]
         \/ /\ Seen(disk)[o] = "absent" /\ o >= nextId /\ o < nextId'
            /\ Seen(disk')[o] = "pending"
         \/ Seen(disk)[o] = "pending" /\ Seen(disk')[o] \in Terminal
         \/ /\ Seen(disk)[o] \in Terminal \cup {"pending"} /\ Seen(disk')[o] = "absent"
            /\ Cardinality({p \in Ops : p > o /\ Seen(disk')[p] \in Terminal}) >= MaxTerminal
<1>1. Ages(disk', disk, Fresh)
  BY DEF Progress, Continues, disk
<1>2. \A q : Seen(q)[o] = IF q[o].status \in Active THEN "pending" ELSE q[o].status
  BY DEF Seen
<1>3. disk[o].status \in Active \cup Terminal \cup {"absent"}
  BY DEF Sane, TypeOK, Store, Queue, Item, Statuses, disk
<1>4. "absent" \notin Active /\ "queued" \in Active
  BY DEF Active
<1>5. CASE o \in Fresh
  <2>1. disk[o].status = "absent" /\ disk'[o].status \in {"absent", "queued"}
    BY <1>1, <1>5 DEF Ages
  <2>2. o >= nextId /\ o < nextId'
    BY <1>5 DEF Fresh, Sane, TypeOK, Ops
  <2>3. QED
    BY <1>2, <1>4, <2>1, <2>2
<1>6. CASE o \notin Fresh
  <2>1. CASE disk'[o].status = disk[o].status
    BY <1>2, <2>1
  <2>2. CASE disk[o].status \in Active /\ disk'[o].status \in Statuses
    BY <1>2, <2>2 DEF Statuses
  <2>3. CASE disk'[o].status = "absent" /\ CrowdedIn(disk', o)
    <3>1. Cardinality({p \in Ops : p > o /\ Seen(disk')[p] \in Terminal}) >= MaxTerminal
      BY <2>3, SeenCrowd DEF CrowdedIn
    <3>2. QED
      BY <1>2, <1>3, <1>4, <2>3, <3>1
  <2>4. QED
    BY <1>1, <1>6, <2>1, <2>2, <2>3 DEF Ages
<1>7. QED
  BY <1>5, <1>6

(* What clients hear is the result, and the only one.                      *)
LEMMA PromiseHonest ==
  ASSUME Sane, Progress, TypeOK', PromiseInv', NEW o \in Ops
  PROVE  /\ Heard(o) \subseteq Heard(o)'
         /\ \A r \in Heard(o)' : Seen(disk')[o] \in {r, "absent"}
         /\ Cardinality(Heard(o)') <= 1
         /\ Heard(o)' \subseteq Terminal
<1>1. replies[o].answers \subseteq replies'[o].answers
  BY DEF Progress, Silent, Speaks
<1>2. \A a \in replies'[o].answers : disk'[o].status \in {a.status, "absent"}
  BY DEF PromiseInv, AnsweredIsDurable, disk
<1>3. \A a \in replies'[o].answers : a.status \in Terminal
  BY DEF TypeOK, Reply, Answer
<1>4. \A a, b \in replies'[o].answers : a.status = b.status
  BY DEF PromiseInv, OneStatus
<1>5. "absent" \notin Active /\ \A s \in Active : s \notin Terminal
  BY DEF Active, Terminal
<1>6. \A r \in Heard(o)' : Seen(disk')[o] \in {r, "absent"}
  BY <1>2, <1>3, <1>5 DEF Seen, Heard
<1>7. Cardinality(Heard(o)') <= 1
  <2>1. PICK S : S = {a.status : a \in replies'[o].answers}
    OBVIOUS
  <2>2. \A r, s \in S : r = s
    BY <1>4, <2>1
  <2>3. CASE S = {}
    BY <2>1, <2>3, FS_EmptySet DEF Heard
  <2>4. CASE S # {}
    <3>1. PICK r \in S : S = {r}
      BY <2>2, <2>4
    <3>2. Cardinality(S) = 1
      BY <3>1, FS_Singleton
    <3>3. QED
      BY <2>1, <3>2 DEF Heard
  <2>5. QED
    BY <2>3, <2>4
<1>8. QED
  BY <1>1, <1>3, <1>6, <1>7 DEF Heard

LEMMA PromiseCounts ==
  ASSUME NEW S
  PROVE  Promise!Cardinality(S) = Cardinality(S)
  BY DEF Promise!Cardinality, Cardinality

LEMMA PromiseNext ==
  ASSUME Sane, Progress, TypeOK', PromiseInv'
  PROVE  Promise!Next
<1>1. disk' \in Queue
  BY DEF TypeOK, Store, disk
<1>2. Promise!Ops = Ops /\ Promise!Results = Terminal
  BY DEF Promise!Ops, Ops, Promise!Results, Terminal
<1>3. Seen(disk') \in [Ops -> Terminal \cup {"absent", "pending"}]
  BY <1>1 DEF Seen, Queue, Item, Statuses
<1>4. nextId' \in {nextId, nextId + 1}
  BY DEF Progress
<1>5. ASSUME NEW o \in Ops PROVE Promise!Advances(o)
  <2>1. PICK a, b : a = Seen(disk) /\ b = Seen(disk')
    OBVIOUS
  <2>2. \/ b[o] = a[o]
        \/ a[o] = "absent" /\ o >= nextId /\ o < nextId' /\ b[o] = "pending"
        \/ a[o] = "pending" /\ b[o] \in Terminal
        \/ /\ a[o] \in Terminal \cup {"pending"} /\ b[o] = "absent"
           /\ Cardinality({p \in Ops : p > o /\ b[p] \in Terminal}) >= MaxTerminal
    BY <1>1, <2>1, PromiseAdvances
  <2>3. Promise!YoungerResults(b, o) = {p \in Ops : p > o /\ b[p] \in Terminal}
    BY <1>2 DEF Promise!YoungerResults
  <2>4. /\ a = [p \in Ops |-> IF disk[p].status \in Active THEN "pending" ELSE disk[p].status]
        /\ b = [p \in Ops |-> IF disk'[p].status \in Active THEN "pending" ELSE disk'[p].status]
    BY <2>1 DEF Seen
  <2>5. QED
    BY <1>2, <2>2, <2>3, <2>4, PromiseCounts DEF Promise!Advances
<1>6. ASSUME NEW o \in Ops PROVE Promise!Honest(o)
  <2>1. PICK b, c, d : /\ b = Seen(disk')
                       /\ c = [p \in Ops |-> {a.status : a \in replies[p].answers}]
                       /\ d = [p \in Ops |-> {a.status : a \in replies'[p].answers}]
    OBVIOUS
  <2>2. /\ c[o] \subseteq d[o] /\ Cardinality(d[o]) <= 1
        /\ \A r \in d[o] : b[o] \in {r, "absent"}
    <3>1. c[o] = Heard(o) /\ d[o] = Heard(o)'
      BY <2>1 DEF Heard
    <3>2. QED
      BY <2>1, <3>1, PromiseHonest
  <2>3. b = [p \in Ops |-> IF disk'[p].status \in Active THEN "pending" ELSE disk'[p].status]
    BY <2>1 DEF Seen
  <2>4. QED
    BY <2>1, <2>2, <2>3, PromiseCounts DEF Promise!Honest
<1>7. [o \in Ops |-> Heard(o)'] \in [Ops -> SUBSET Terminal]
  BY PromiseHonest
<1>8. QED
  BY <1>2, <1>3, <1>4, <1>5, <1>6, <1>7 DEF Promise!Next, Seen, Heard

(* The bridge implements DurableQueue for any number of operations and     *)
(* clients and any retention limit: every step of it, a crash in whatever  *)
(* write included, is a step of the promise or leaves it unchanged.        *)
THEOREM BridgeImplementsQueue ==
  ASSUME ~IOErrors
  PROVE  Spec => KeepsPromise
<1>1. Init => Promise!Init
  BY DEF Init, Promise!Init, Promise!Ops, Ops, disk, Gone, Active
<1>2. TypeOK /\ ResponseInv /\ PromiseInv /\ TypeOK' /\ PromiseInv' /\ [Next]_vars => Promise!Next
  BY NextProgress, PromiseNext DEF Sane
<1>3. QED
  BY <1>1, <1>2, TypeCorrect, ResponseInvHolds, PromiseHolds, PTL
     DEF Spec, KeepsPromise, Promise!Spec

-----------------------------------------------------------------------------
(* Claims: who gets one, and who loses one.                                *)

KeepsClaim(new, old) ==
  Held(old) /\ new.status \in Active /\ new.claimedAt # old.claimedAt =>
    \/ now - old.claimedAt >= ClaimLease
    \/ /\ ~ResponseInHand(old)
       /\ \E c \in RetryClasses :
            old.retries[c] < RetryBudget[c] /\ new.retries[c] = old.retries[c] + 1

(* What becomes of an unfinished operation: it is new; it keeps its claim;  *)
(* it waits, and if it was claimed before, then its lease ran out or a     *)
(* retry was used up; or it is claimed anew.                               *)
Waits(item, old) ==
  \/ /\ item.retries = old.retries
     /\ old.status = "queued" \/ (Held(old) /\ now - old.claimedAt >= ClaimLease)
  \/ /\ Held(old)
     /\ \E c \in RetryClasses :
          /\ old.retries[c] < RetryBudget[c]
          /\ item.retries = [old.retries EXCEPT ![c] = @ + 1]

Lives(item, old, o) ==
  item.status \in Active =>
    \/ /\ old.status = "absent" /\ o = nextId
       /\ item.status = "queued" /\ item.expiresAt = now + QueueTTL
       /\ item.retries = [c \in RetryClasses |-> 0]
    \/ /\ old.status \in Active /\ item.expiresAt = old.expiresAt
       /\ \/ /\ Held(item) /\ Held(old) /\ item.retries = old.retries
             /\ item.claimedAt = old.claimedAt
             /\ item.status = "claimed" => old.status = "claimed"
          \/ item.status = "queued" /\ Waits(item, old)
          \/ /\ item.status = "claimed" /\ item.claimedAt = now
             /\ item.retries = old.retries /\ Waits(item, old)

(* An item that may stand where queue.json had disk[o]: not claimed anew;  *)
(* or claimed anew, by a write that hands it over.                         *)
Undisturbed(item, o) ==
  /\ item.status = "claimed" => disk[o].status = "claimed" /\ item.claimedAt = disk[o].claimedAt
  /\ item.next \in {disk[o].next, 0}
  /\ KeepsClaim(item, disk[o])
  /\ Lives(item, disk[o], o)

HandedOver(item, o) ==
  /\ item.status = "claimed" /\ item.claimedAt = now /\ now < item.expiresAt
  /\ disk[o].status = "claimed" => disk[o].claimedAt # now
  /\ item.next \in {disk[o].next, 0}
  /\ KeepsClaim(item, disk[o])
  /\ Lives(item, disk[o], o)

(* A queue in which at most operation n is claimed anew, and only n is     *)
(* named as a successor.                                                   *)
Guarded(q, n) ==
  \A o \in Ops :
    \/ Undisturbed(q[o], o)
    \/ o = n /\ HandedOver(q[o], o)
    \/ q[o].status = "completed" /\ q[o].next = n /\ n \in Ops /\ HandedOver(q[n], n)

(* The same item, as far as claims go, or one that is not there.           *)
Alike(new, old) ==
  \/ new.status = "absent" /\ new.next = 0 /\ old.status \notin Active
  \/ /\ new.status = old.status /\ new.claimedAt = old.claimedAt
     /\ new.expiresAt = old.expiresAt /\ new.next = old.next /\ new.retries = old.retries

LEMMA AlikeItem ==
  ASSUME NEW new, NEW old, NEW o, Alike(new, old)
  PROVE  /\ Undisturbed(old, o) => Undisturbed(new, o)
         /\ HandedOver(old, o) => HandedOver(new, o)
<1>1. "absent" \notin Active /\ "claimed" \in Active
  BY DEF Active
<1>2. KeepsClaim(old, disk[o]) => KeepsClaim(new, disk[o])
  BY <1>1 DEF KeepsClaim, Alike
<1>3. Lives(old, disk[o], o) => Lives(new, disk[o], o)
  BY <1>1 DEF Lives, Waits, Held, Alike
<1>4. QED
  BY <1>1, <1>2, <1>3 DEF Alike, Undisturbed, HandedOver

LEMMA AlikeGuarded ==
  ASSUME NEW p, NEW q, NEW n, Guarded(q, n), \A o \in Ops : Alike(p[o], q[o])
  PROVE  Guarded(p, n)
<1> SUFFICES ASSUME NEW o \in Ops
             PROVE  \/ Undisturbed(p[o], o)
                    \/ o = n /\ HandedOver(p[o], o)
                    \/ /\ p[o].status = "completed" /\ p[o].next = n /\ n \in Ops
                       /\ HandedOver(p[n], n)
  BY DEF Guarded
<1>1. CASE Undisturbed(q[o], o)
  BY <1>1, AlikeItem
<1>2. CASE o = n /\ HandedOver(q[o], o)
  BY <1>2, AlikeItem
<1>3. CASE q[o].status = "completed" /\ q[o].next = n /\ n \in Ops /\ HandedOver(q[n], n)
  <2>1. HandedOver(p[n], n)
    BY <1>3, AlikeItem
  <2>2. CASE p[o].status = "absent" /\ p[o].next = 0
    BY <2>2 DEF Undisturbed, KeepsClaim, Lives, Active
  <2>3. CASE p[o].status = q[o].status /\ p[o].next = q[o].next
    BY <1>3, <2>1, <2>3
  <2>4. QED
    BY <2>2, <2>3 DEF Alike
<1>4. QED
  BY <1>1, <1>2, <1>3 DEF Guarded

(* A save writes the queue it is given, as far as claims go; and between   *)
(* two saves the cache is like the queue on disk.                          *)
LEMMA FinalAlike ==
  ASSUME NEW q \in Queue, NEW o \in Ops
  PROVE  Alike(Retain(Compact(q))[o], q[o])
<1>1. q[o] \in Item /\ Compact(q)[o] = IF o \in Inline(q) THEN [q[o] EXCEPT !.text = NoText] ELSE q[o]
  BY DEF Compact, Queue
<1>2. Compact(q)[o].status = q[o].status /\ Alike(Compact(q)[o], q[o])
  BY <1>1 DEF Item, Alike
<1>3. \/ Retain(Compact(q))[o] = Compact(q)[o]
      \/ Retain(Compact(q))[o] = Gone /\ Compact(q)[o].status \in Terminal
  BY DEF Retain, Evicted, TerminalOps
<1>4. Gone.status = "absent" /\ Gone.next = 0 /\ \A s \in Terminal : s \notin Active
  BY DEF Gone, Terminal, Active
<1>5. QED
  BY <1>2, <1>3, <1>4 DEF Alike

LEMMA CacheAlike ==
  ASSUME NEW st \in Store, Matches(st), NEW o \in Ops
  PROVE  /\ Alike(st.disk[o], st.cache[o]) /\ Alike(st.cache[o], st.disk[o])
         /\ st.cache[o].status \in Active \/ st.disk[o].status \in Active =>
              st.cache[o] = st.disk[o]
<1>1. st.cache[o] \in Item /\ st.disk[o] \in Item
  BY MatchingItems
<1>2. CASE st.cache[o] = st.disk[o]
  BY <1>2 DEF Alike
<1>3. CASE /\ st.disk[o].status = "completed"
           /\ st.cache[o] = [st.disk[o] EXCEPT !.text = st.responses[o]]
  BY <1>1, <1>3 DEF Item, Alike, Active
<1>4. QED
  BY <1>2, <1>3 DEF Matches

LEMMA CachedUndisturbed ==
  ASSUME Sane, NEW o \in Ops
  PROVE  /\ cache[o] \in Item /\ disk[o] \in Item
         /\ Undisturbed(disk[o], o) /\ Undisturbed(cache[o], o)
         /\ cache[o].status \in Active \/ disk[o].status \in Active => cache[o] = disk[o]
<1>1. Undisturbed(disk[o], o)
  BY DEF Undisturbed, KeepsClaim, Lives, Waits, Held, Active
<1>2. /\ cache[o] \in Item /\ disk[o] \in Item /\ Alike(cache[o], disk[o])
      /\ cache[o].status \in Active \/ disk[o].status \in Active => cache[o] = disk[o]
  BY CacheAlike, MatchingItems DEF Sane, TypeOK, PromiseInv, cache, disk
<1>3. QED
  BY <1>1, <1>2, AlikeItem

(* A sweep claims nothing, and takes a claim only when its lease is out.   *)
LEMMA SweepUndisturbed ==
  ASSUME Sane, NEW o \in Ops
  PROVE  LET item == SweepItem(cache[o]) IN
         /\ Undisturbed(item, o)
         /\ item.status = "queued" =>
              /\ now < item.expiresAt /\ item.expiresAt = disk[o].expiresAt
              /\ disk[o].status \in Active /\ item.retries = disk[o].retries
              /\ Held(disk[o]) => now - disk[o].claimedAt >= ClaimLease /\ disk[o].claimedAt # now
         /\ item.status \in Active => item.next = disk[o].next
<1>1. /\ cache[o] \in Item /\ disk[o] \in Item /\ Undisturbed(cache[o], o)
      /\ cache[o].status \in Active => cache[o] = disk[o]
  BY CachedUndisturbed
<1>2. now \in Nat /\ ClaimLease \in Nat /\ ClaimLease > 0
  BY QueueAssumption DEF Sane, TypeOK
<1>3. PICK a, d : a = cache[o] /\ d = disk[o]
  OBVIOUS
<1>4. a \in Item /\ d \in Item /\ (a.status \in Active => a = d) /\ Undisturbed(a, o)
  BY <1>1, <1>3
<1>5. CASE a.status \in Active /\ now >= a.expiresAt
  <2>1. SweepItem(a) = [a EXCEPT !.status = "failed"]
    BY <1>5 DEF SweepItem
  <2>2. SweepItem(a).status = "failed" /\ SweepItem(a).next = d.next
    BY <1>4, <1>5, <2>1 DEF Item
  <2>3. QED
    BY <1>3, <2>2 DEF Undisturbed, KeepsClaim, Lives, Active
<1>6. CASE /\ ~(a.status \in Active /\ now >= a.expiresAt)
           /\ a.status \in {"claimed", "generating"} /\ a.claimedAt > 0
           /\ now - a.claimedAt >= ClaimLease
  <2>1. SweepItem(a) = [a EXCEPT !.status = "queued", !.claimedAt = 0]
    BY <1>6 DEF SweepItem
  <2>2. a = d /\ a.status \in Active
    BY <1>4, <1>6 DEF Active
  <2>3. /\ SweepItem(a).status = "queued" /\ SweepItem(a).next = d.next
        /\ SweepItem(a).expiresAt = a.expiresAt /\ SweepItem(a).retries = a.retries
    BY <1>4, <2>1, <2>2 DEF Item
  <2>4. now < a.expiresAt /\ d.claimedAt # now
    BY <1>2, <1>4, <1>6, <2>2 DEF Item
  <2>5. QED
    BY <1>3, <1>6, <2>2, <2>3, <2>4 DEF Undisturbed, KeepsClaim, Lives, Waits, Held
<1>7. CASE /\ ~(a.status \in Active /\ now >= a.expiresAt)
           /\ ~(/\ a.status \in {"claimed", "generating"} /\ a.claimedAt > 0
                /\ now - a.claimedAt >= ClaimLease)
  <2>1. SweepItem(a) = a
    BY <1>7 DEF SweepItem
  <2>2. a.status = "queued" => now < a.expiresAt /\ d.status = "queued"
    BY <1>2, <1>4, <1>7 DEF Item, Active
  <2>3. QED
    BY <1>3, <1>4, <2>1, <2>2 DEF Held, Active
<1>8. QED
  BY <1>5, <1>6, <1>7

LEMMA SweptUndisturbed ==
  ASSUME Sane, NEW o \in Ops
  PROVE  LET item == Swept.cache[o] IN
         /\ item \in Item /\ Undisturbed(item, o) /\ Undisturbed(Swept.disk[o], o)
         /\ item.status = "queued" =>
              /\ now < item.expiresAt /\ item.expiresAt = disk[o].expiresAt
              /\ disk[o].status \in Active /\ item.retries = disk[o].retries
              /\ Held(disk[o]) => now - disk[o].claimedAt >= ClaimLease /\ disk[o].claimedAt # now
<1>1. PICK st : st = Swept
  OBVIOUS
<1>2. st \in Store /\ Matches(st)
  BY <1>1, SweptContinues DEF Sane, PromiseInv, Continues
<1>3. PICK a : a = SweepItem(cache[o])
  OBVIOUS
<1>4. Alike(st.cache[o], a)
  <2>1. CASE Sweep(cache) = cache
    <3>1. st = store /\ cache[o] = a
      BY <1>1, <1>3, <2>1 DEF Swept, Sweep
    <3>2. QED
      BY <3>1 DEF Alike, cache
  <2>2. CASE Sweep(cache) # cache
    <3>1. Sweep(cache) \in Queue /\ Sweep(cache)[o] = a
      BY <1>3, SweptType, SweepType DEF Sane, Sweep
    <3>2. st = SaveQueue(store, Sweep(cache), Saved)
      BY <1>1, <2>2 DEF Swept
    <3>3. st.cache = Retain(Compact(Sweep(cache)))
      BY <3>2, StoreAssumption DEF SaveQueue, Saved, Replaced
    <3>4. QED
      BY <3>1, <3>3, FinalAlike
  <2>3. QED
    BY <2>1, <2>2
<1>5. /\ Undisturbed(a, o)
      /\ a.status = "queued" =>
           /\ now < a.expiresAt /\ a.expiresAt = disk[o].expiresAt
           /\ disk[o].status \in Active /\ a.retries = disk[o].retries
           /\ Held(disk[o]) => now - disk[o].claimedAt >= ClaimLease /\ disk[o].claimedAt # now
  BY <1>3, SweepUndisturbed
<1>6. Undisturbed(st.cache[o], o) /\ Undisturbed(st.disk[o], o)
  BY <1>2, <1>4, <1>5, AlikeItem, CacheAlike
<1>7. st.cache[o].status = "queued" =>
        /\ a.status = "queued" /\ st.cache[o].expiresAt = a.expiresAt
        /\ st.cache[o].retries = a.retries
  BY <1>4 DEF Alike
<1>8. QED
  BY <1>1, <1>2, <1>5, <1>6, <1>7, MatchingItems

(* What a save writes is as guarded as the queue it is given.              *)
LEMMA GuardedSave ==
  ASSUME Sane, NEW st \in {store, Swept}, NEW q \in Queue, NEW stage \in Stages, NEW n,
         Guarded(q, n), store' = Attempt(st, q, stage)
  PROVE  Guarded(disk', n)
<1>1. st \in Store
  BY SweptType DEF Sane, TypeOK
<1>2. Guarded(st.disk, n)
  BY CachedUndisturbed, SweptUndisturbed DEF Guarded, disk
<1>3. PICK final : final = Retain(Compact(q))
  OBVIOUS
<1>4. Guarded(final, n)
  BY <1>3, FinalAlike, AlikeGuarded
<1>5. disk' = st.disk \/ disk' = final
  <2>1. SaveQueue(st, q, stage).disk = st.disk \/ SaveQueue(st, q, stage).disk = final
    BY <1>1, <1>3 DEF SaveQueue, Store
  <2>2. SaveQueue(st, q, stage) \in Store
    BY <1>1, SaveQueueType
  <2>3. Attempt(st, q, stage).disk = SaveQueue(st, q, stage).disk
    BY <2>2 DEF Attempt, Restart, Store
  <2>4. QED
    BY <2>1, <2>3 DEF disk
<1>6. QED
  BY <1>2, <1>4, <1>5

(* The same for one item that changes.                                     *)
LEMMA GuardedItem ==
  ASSUME Sane, NEW st \in {store, Swept}, NEW o \in Ops, NEW item \in Item,
         NEW stage \in Stages, Undisturbed(item, o) \/ HandedOver(item, o),
         store' = Attempt(st, [st.cache EXCEPT ![o] = item], stage)
  PROVE  Guarded(disk', o)
<1> DEFINE q == [st.cache EXCEPT ![o] = item]
<1>1. st.cache \in Queue
  BY SweptType DEF Sane, cache
<1>2. q \in Queue /\ \A p \in Ops : q[p] = IF p = o THEN item ELSE st.cache[p]
  BY <1>1 DEF Queue
<1>3. store' = Attempt(st, q, stage)
  OBVIOUS
<1> HIDE DEF q
<1>4. \A p \in Ops : Undisturbed(st.cache[p], p)
  BY CachedUndisturbed, SweptUndisturbed DEF cache
<1>5. Guarded(q, o)
  BY <1>2, <1>4 DEF Guarded
<1>6. QED
  BY <1>2, <1>3, <1>5, GuardedSave

(* An item whose claim stays as it is.                                     *)
LEMMA ClaimStays ==
  ASSUME Sane, NEW o \in Ops, NEW item,
         item.status = "claimed" => cache[o].status = "claimed",
         item.status = "queued" => cache[o].status = "queued",
         item.status = "generating" => Held(cache[o]),
         item.status \in Active =>
           /\ item.claimedAt = cache[o].claimedAt /\ item.expiresAt = cache[o].expiresAt
           /\ item.retries = cache[o].retries,
         item.next = cache[o].next
  PROVE  Undisturbed(item, o)
<1>1. /\ Undisturbed(cache[o], o)
      /\ cache[o].status \in Active \/ disk[o].status \in Active => cache[o] = disk[o]
  BY CachedUndisturbed
<1>2. QED
  BY <1>1 DEF Undisturbed, KeepsClaim, Lives, Waits, Held, Active

LEMMA DiskGuarded ==
  ASSUME Sane, disk' = disk PROVE Guarded(disk', 0)
  BY CachedUndisturbed DEF Guarded

LEMMA GuardedSweepAborts ==
  ASSUME Sane, NEW stage \in Stages, store' = Attempt(store, Sweep(cache), stage)
  PROVE  Guarded(disk', 0)
<1>1. Sweep(cache) \in Queue
  BY SweptType, SweepType DEF Sane
<1>2. Guarded(Sweep(cache), 0)
  BY SweepUndisturbed DEF Guarded, Sweep
<1>3. QED
  BY <1>1, <1>2, GuardedSave

LEMMA GuardedSwept ==
  ASSUME Sane, store' = Swept
  PROVE  Guarded(disk', 0)
  BY SweptUndisturbed DEF Guarded, disk

LEMMA ClaimHandsOver ==
  ASSUME Sane, NEW n \in Queued(Swept.cache)
  PROVE  LET item == MarkClaimed(Swept.cache[n]) IN
         n \in Ops /\ item \in Item /\ HandedOver(item, n)
<1>1. n \in Ops /\ Swept.cache[n].status = "queued"
  BY DEF Queued
<1>2. PICK a : a = Swept.cache[n]
  OBVIOUS
<1>3. /\ a \in Item /\ Undisturbed(a, n) /\ now < a.expiresAt /\ a.expiresAt = disk[n].expiresAt
      /\ disk[n].status \in Active /\ a.retries = disk[n].retries
      /\ Held(disk[n]) => now - disk[n].claimedAt >= ClaimLease /\ disk[n].claimedAt # now
  BY <1>1, <1>2, SweptUndisturbed
<1>4. /\ MarkClaimed(a) \in Item /\ MarkClaimed(a).status = "claimed"
      /\ MarkClaimed(a).claimedAt = now /\ MarkClaimed(a).expiresAt = a.expiresAt
      /\ MarkClaimed(a).next = a.next /\ MarkClaimed(a).retries = a.retries
  <2>1. MarkClaimed(a) \in Item
    BY <1>3, ItemTypes DEF Sane
  <2>2. QED
    BY <1>3, <2>1 DEF MarkClaimed, Item
<1>5. Lives(MarkClaimed(a), disk[n], n)
  BY <1>3, <1>4 DEF Lives, Waits, Held, Active
<1>6. HandedOver(MarkClaimed(a), n)
  BY <1>3, <1>4, <1>5 DEF HandedOver, Undisturbed, KeepsClaim, Held
<1>7. QED
  BY <1>1, <1>2, <1>4, <1>6

LEMMA GuardedClaims ==
  ASSUME Sane, NEW stage \in Stages,
         \/ GetStatus(stage) \/ ClaimNextOperation(stage)
         \/ \E o \in Ops : ClaimOperation(o, stage)
  PROVE  \E n : Guarded(disk', n)
<1>1. CASE SweepAborts(stage)
  BY <1>1, GuardedSweepAborts DEF SweepAborts
<1>2. CASE OnlySweeps(stage)
  BY <1>2, GuardedSwept DEF OnlySweeps
<1>3. CASE \E o \in Queued(Swept.cache) : ClaimFrom(Swept, o, stage)
  <2>1. PICK n \in Queued(Swept.cache) : ClaimFrom(Swept, n, stage)
    BY <1>3
  <2> DEFINE item == MarkClaimed(Swept.cache[n])
  <2>2. n \in Ops /\ item \in Item /\ HandedOver(item, n)
    BY ClaimHandsOver
  <2>3. store' = Attempt(Swept, [Swept.cache EXCEPT ![n] = item], stage)
    BY <2>1 DEF ClaimFrom
  <2> HIDE DEF item
  <2>4. QED
    BY <2>2, <2>3, GuardedItem
<1>4. QED
  BY <1>1, <1>2, <1>3 DEF GetStatus, ClaimNextOperation, ClaimOperation

LEMMA GuardedQueueOperation ==
  ASSUME Sane, NEW r \in Requests, NEW stage \in Stages, QueueOperation(r, stage)
  PROVE  \E n : Guarded(disk', n)
<1>1. /\ nextId \in Ops /\ NewItem(r) \in Item /\ NewItem(r).status = "queued"
      /\ NewItem(r).next = 0 /\ NewItem(r).expiresAt = now + QueueTTL
      /\ NewItem(r).retries = [c \in RetryClasses |-> 0]
  <2>1. nextId \in Ops /\ NewItem(r) \in Item
    BY NewItemType DEF QueueOperation, Sane, TypeOK, Ops
  <2>2. /\ NewItem(r).status = "queued" /\ NewItem(r).next = 0
        /\ NewItem(r).expiresAt = now + QueueTTL
        /\ NewItem(r).retries = [c \in RetryClasses |-> 0]
    BY DEF NewItem, Gone
  <2>3. QED
    BY <2>1, <2>2
<1>2. disk[nextId].status = "absent"
  BY <1>1 DEF Sane, ResponseInv, StoreKnown, Unused, disk, Ops
<1>3. Undisturbed(NewItem(r), nextId)
  BY <1>1, <1>2 DEF Undisturbed, KeepsClaim, Lives, Held
<1>4. store' = Attempt(store, [store.cache EXCEPT ![nextId] = NewItem(r)], stage)
  BY DEF QueueOperation, cache
<1>5. QED
  BY <1>1, <1>3, <1>4, GuardedItem

LEMMA GuardedResponse ==
  ASSUME Sane, NEW o \in Ops, NEW text \in Texts, NEW stage \in Stages,
         store' = Attempt(store, [cache EXCEPT ![o] = WithResponse(@, text)], stage)
  PROVE  \E n : Guarded(disk', n)
<1> DEFINE item == WithResponse(cache[o], text)
<1>1. cache[o] \in Item
  BY CachedUndisturbed
<1>2. /\ item \in Item /\ item.status = cache[o].status /\ item.claimedAt = cache[o].claimedAt
      /\ item.next = cache[o].next /\ item.expiresAt = cache[o].expiresAt
      /\ item.retries = cache[o].retries
  <2>1. item \in Item
    BY <1>1, ItemTypes DEF Sane
  <2>2. PICK a : a = cache[o]
    OBVIOUS
  <2>3. QED
    BY <1>1, <2>1, <2>2 DEF WithResponse, Item
<1>3. store' = Attempt(store, [store.cache EXCEPT ![o] = item], stage)
  BY DEF cache
<1> HIDE DEF item
<1>4. Undisturbed(item, o)
  BY <1>2, ClaimStays DEF Held
<1>5. QED
  BY <1>2, <1>3, <1>4, GuardedItem

LEMMA GuardedReports ==
  ASSUME Sane, NEW o \in Ops, NEW stage \in Stages,
         \/ Heartbeat(o, stage) \/ PersistMetadata(o, stage) \/ FailOperation(o, stage)
         \/ \E c \in RetryClasses : RetryOperation(o, c, stage)
  PROVE  \E n : Guarded(disk', n)
<1>1. cache[o] \in Item
  BY CachedUndisturbed
<1>2. ASSUME NEW item \in Item, Undisturbed(item, o), Update(o, item, stage)
      PROVE  Guarded(disk', o)
  BY <1>2, GuardedItem DEF Update, cache
<1>3. CASE Heartbeat(o, stage)
  <2> DEFINE item == [cache[o] EXCEPT !.status = "generating"]
  <2>1. /\ item \in Item /\ item.status = "generating" /\ item.next = cache[o].next
        /\ item.claimedAt = cache[o].claimedAt /\ item.expiresAt = cache[o].expiresAt
        /\ item.retries = cache[o].retries
    BY <1>1, ItemTypes DEF Item, Sane
  <2>2. Held(cache[o]) /\ Update(o, item, stage)
    BY <1>3 DEF Heartbeat, CanMove, AllowedTransitions, Held, Statuses, Active, Terminal
  <2> HIDE DEF item
  <2>3. QED
    BY <1>2, <2>1, <2>2, ClaimStays
<1>4. CASE PersistMetadata(o, stage)
  BY <1>1, <1>2, <1>4, CachedUndisturbed DEF PersistMetadata
<1>5. CASE FailOperation(o, stage)
  <2> DEFINE item == [cache[o] EXCEPT !.status = "failed"]
  <2>1. item \in Item /\ item.status = "failed" /\ item.next = cache[o].next
    BY <1>1, ItemTypes DEF Item, Sane
  <2>2. Update(o, item, stage)
    BY <1>5 DEF FailOperation
  <2> HIDE DEF item
  <2>3. QED
    BY <1>2, <2>1, <2>2, ClaimStays DEF Active
<1>6. ASSUME NEW c \in RetryClasses, RetryOperation(o, c, stage) PROVE Guarded(disk', o)
  <2>1. PICK a : a = cache[o]
    OBVIOUS
  <2>2. a \in Item /\ Retried(a, c) \in Item /\ Update(o, Retried(a, c), stage)
    BY <1>1, <1>6, <2>1, RetriedType DEF RetryOperation
  <2>3. a.status \in Active /\ a = disk[o]
    BY <1>6, <2>1, MovesAreActive, CachedUndisturbed DEF RetryOperation
  <2>4. CASE RetryTarget(a, c) = "queued"
    <3>1. ~ResponseInHand(a) /\ ~(a.retries[c] >= RetryBudget[c])
      BY <2>4 DEF RetryTarget
    <3>2. a.retries[c] < RetryBudget[c]
      BY <2>2, <3>1, QueueAssumption DEF Item
    <3>3. Retried(a, c) = [a EXCEPT !.status = "queued", !.claimedAt = 0, !.retries[c] = @ + 1]
      BY <2>4 DEF Retried
    <3>4. /\ Retried(a, c).status = "queued" /\ Retried(a, c).next = a.next
          /\ Retried(a, c).retries[c] = a.retries[c] + 1
          /\ Retried(a, c).retries = [a.retries EXCEPT ![c] = @ + 1]
          /\ Retried(a, c).expiresAt = a.expiresAt
      BY <2>2, <3>3 DEF Item
    <3>5. Held(a)
      BY <1>6, <2>1, <2>4
         DEF RetryOperation, CanMove, AllowedTransitions, Held, Statuses, Active, Terminal
    <3>6. Lives(Retried(a, c), disk[o], o)
      BY <1>6, <2>3, <3>2, <3>4, <3>5 DEF Lives, Waits
    <3>7. Undisturbed(Retried(a, c), o)
      BY <2>3, <3>1, <3>2, <3>4, <3>6 DEF Undisturbed, KeepsClaim
    <3>8. QED
      BY <1>2, <2>2, <3>7
  <2>5. CASE RetryTarget(a, c) # "queued"
    <3>1. Retried(a, c) = [a EXCEPT !.status = RetryTarget(a, c)]
      BY <2>5 DEF Retried
    <3>2. RetryTarget(a, c) \in {"completed", "failed"}
      BY <2>5 DEF RetryTarget
    <3>3. Retried(a, c).status \in {"completed", "failed"} /\ Retried(a, c).next = a.next
      BY <2>2, <3>1, <3>2 DEF Item
    <3>4. Undisturbed(Retried(a, c), o)
      BY <2>1, <3>3, ClaimStays DEF Active
    <3>5. QED
      BY <1>2, <2>2, <3>4
  <2>6. QED
    BY <2>4, <2>5
<1>7. QED
  BY <1>3, <1>4, <1>5, <1>6, <1>2

LEMMA GuardedObservation ==
  ASSUME Sane, NEW o \in Ops, NEW text \in Texts, NEW stage \in Stages,
         NEW recorded \in BOOLEAN, SaveBrowserObservation(o, text, stage, recorded)
  PROVE  \E n : Guarded(disk', n)
<1> DEFINE item    == WithResponse(store.cache[o], text)
           saved   == Attempt(store, [store.cache EXCEPT ![o] = item], stage)
<1>1. PICK st \in {store, saved} : store' = st \/ store' = Restart(st)
  BY DEF SaveBrowserObservation, cache
<1>2. item \in Item /\ saved \in Store /\ store \in Store
  <2>1. store \in Store /\ store.cache[o] \in Item
    BY DEF Sane, TypeOK, Store, Queue
  <2>2. item \in Item
    BY <2>1, ItemTypes DEF Sane
  <2> HIDE DEF item
  <2>3. QED
    BY <2>1, <2>2, UpdateType
<1> HIDE DEF saved, item
<1>3. store'.disk = st.disk
  BY <1>1, <1>2 DEF Restart, Store
<1>4. CASE st = store
  BY <1>3, <1>4, DiskGuarded DEF disk
<1>5. CASE st = saved
  <2>1. /\ item.status = cache[o].status /\ item.claimedAt = cache[o].claimedAt
        /\ item.next = cache[o].next /\ item.expiresAt = cache[o].expiresAt
        /\ item.retries = cache[o].retries
    BY CachedUndisturbed DEF WithResponse, Item, item, cache
  <2>2. Undisturbed(item, o)
    BY <2>1, ClaimStays DEF Held
  <2>3. \A p \in Ops : Undisturbed(store.cache[p], p) /\ Undisturbed(store.disk[p], p)
    BY CachedUndisturbed DEF cache, disk
  <2>4. PICK q : q = [store.cache EXCEPT ![o] = item]
    OBVIOUS
  <2>5. q \in Queue /\ Guarded(q, o)
    BY <1>2, <2>2, <2>3, <2>4 DEF Store, Queue, Guarded
  <2>6. saved.disk = store.disk \/ saved.disk = Retain(Compact(q))
    <3>1. /\ SaveQueue(store, q, stage) \in Store
          /\ \/ SaveQueue(store, q, stage).disk = store.disk
             \/ SaveQueue(store, q, stage).disk = Retain(Compact(q))
      BY <1>2, <2>5, SaveQueueType DEF SaveQueue, Store
    <3>2. Attempt(store, q, stage).disk = SaveQueue(store, q, stage).disk
      BY <3>1 DEF Attempt, Restart, Store
    <3>3. QED
      BY <2>4, <3>1, <3>2 DEF saved
  <2>7. Guarded(store.disk, o) /\ Guarded(Retain(Compact(q)), o)
    BY <2>3, <2>5, FinalAlike, AlikeGuarded DEF Guarded
  <2>8. QED
    BY <1>3, <1>5, <2>6, <2>7 DEF disk
<1>6. QED
  BY <1>4, <1>5

LEMMA CompletionGuarded ==
  ASSUME Sane, NEW o \in Ops, NEW text \in Texts
  PROVE  \E n : Guarded(CompleteAndClaimNext(Swept.cache, o, text), n)
<1> DEFINE waiting == Queued(Swept.cache) \ {o}
           ended   == Completed(Swept.cache[o], text)
           done    == CompleteAndClaimNext(Swept.cache, o, text)
<1>0. PICK q : q = Swept.cache
  OBVIOUS
<1>1. q \in Queue /\ q[o] \in Item /\ \A p \in Ops : Undisturbed(q[p], p)
  BY <1>0, SweptType, SweptUndisturbed DEF Sane
<1>2. ended \in Item /\ ended.status = "completed" /\ ended.next = q[o].next
  <2>1. ended.status = "completed" /\ ended.next = q[o].next
    BY <1>0, <1>1 DEF Completed, WithResponse, Item
  <2>2. QED
    BY <1>0, <1>1, <2>1, ItemTypes DEF Sane
<1>3. CASE waiting = {}
  <2>1. done = [q EXCEPT ![o] = ended]
    BY <1>0, <1>3 DEF CompleteAndClaimNext
  <2> HIDE DEF done, ended
  <2>2. \A p \in Ops : done[p] = IF p = o THEN ended ELSE q[p]
    BY <1>1, <2>1 DEF Queue
  <2>3. Undisturbed(ended, o)
    BY <1>1, <1>2 DEF Undisturbed, KeepsClaim, Lives, Active
  <2>4. Guarded(done, 0)
    BY <1>1, <2>2, <2>3 DEF Guarded
  <2>5. QED
    BY <2>4 DEF done
<1>4. CASE waiting # {}
  <2>1. waiting \subseteq Nat
    BY DEF Queued, Ops
  <2>2. PICK n : n = First(waiting)
    OBVIOUS
  <2>3. n \in Queued(Swept.cache) /\ n # o
    BY <1>4, <2>1, <2>2, FirstExists
  <2> DEFINE claimed == MarkClaimed(q[n])
             chained == [ended EXCEPT !.next = n]
  <2>4. n \in Ops /\ HandedOver(claimed, n)
    BY <1>0, <2>3, ClaimHandsOver
  <2>5. done = [[q EXCEPT ![o] = ended] EXCEPT ![n] = MarkClaimed(@), ![o].next = n]
    BY <1>0, <1>4, <2>2 DEF CompleteAndClaimNext
  <2>6. chained.status = "completed" /\ chained.next = n
    BY <1>2 DEF Item
  <2> HIDE DEF done, ended
  <2>7. \A p \in Ops : done[p] = IF p = o THEN chained ELSE IF p = n THEN claimed ELSE q[p]
    BY <1>1, <2>3, <2>4, <2>5 DEF Queue
  <2> HIDE DEF chained, claimed
  <2>8. done[n] = claimed
    BY <2>3, <2>4, <2>7
  <2>9. Guarded(done, n)
    BY <1>1, <2>4, <2>6, <2>7, <2>8 DEF Guarded
  <2>10. QED
    BY <2>9 DEF done
<1>5. QED
  BY <1>3, <1>4

LEMMA GuardedFinished ==
  ASSUME Sane, NEW h \in Handlers, Finished(h)
  PROVE  \E n : Guarded(disk', n)
<1>0. PICK o : o = finishing[h].op
  OBVIOUS
<1>1. ~At(h, "idle") =>
        o \in Ops /\ finishing[h].text \in Texts /\ cache[o] \in Item /\ cache \in Queue
  BY <1>0, SweptType DEF TypeOK, Request, Idle, At, Queue, Sane
<1>2. store \in Store /\ observed.text \in Texts
  BY DEF TypeOK, Sane
<1>3. disk' = disk => \E n : Guarded(disk', n)
  BY DiskGuarded
<1>4. ASSUME NEW stage \in Stages, FinishedEvidence(h, stage) PROVE \E n : Guarded(disk', n)
  <2> DEFINE recorded == RecordedResponse(o)
             adds == Present(o) /\ ~(cache[o].available /\ recorded # NoText)
  <2>1. ~At(h, "idle")
    BY <1>4 DEF FinishedEvidence, At
  <2>2. CASE adds
    <3>1. PICK text : text = finishing[h].text
      OBVIOUS
    <3>2. store' = Attempt(store, [cache EXCEPT ![o] = WithResponse(@, text)], stage)
      BY <1>0, <1>4, <2>2, <3>1 DEF FinishedEvidence
    <3>3. QED
      BY <1>1, <2>1, <3>1, <3>2, GuardedResponse
  <2>3. CASE ~adds
    <3>1. store' = [store EXCEPT !.cache[o].text = recorded] \/ store' = store
      BY <1>0, <1>4, <2>3 DEF FinishedEvidence
    <3> HIDE DEF recorded
    <3>2. disk' = disk
      BY <1>2, <3>1 DEF Store, disk
    <3>3. QED
      BY <1>3, <3>2
  <2>4. QED
    BY <2>2, <2>3
<1>5. ASSUME NEW stage \in Stages, FinishedTiming(h, stage) PROVE \E n : Guarded(disk', n)
  <2>1. ~At(h, "idle") /\ (store' = Attempt(store, cache, stage) \/ store' = store)
    BY <1>5 DEF FinishedTiming, At
  <2>2. Guarded(cache, 0)
    BY CachedUndisturbed DEF Guarded
  <2>3. QED
    BY <1>1, <1>3, <2>1, <2>2, GuardedSave DEF disk
<1>6. ASSUME NEW stage \in Stages, NEW ackOnly \in BOOLEAN, FinishedComplete(h, stage, ackOnly)
      PROVE  \E n : Guarded(disk', n)
  <2>1. ~At(h, "idle")
    BY <1>6 DEF FinishedComplete, At
  <2>2. CASE FinishedSweepAborts(h, stage)
    BY <2>2, GuardedSweepAborts DEF FinishedSweepAborts
  <2>3. CASE FinishedCompletes(h, stage, ackOnly)
    <3>1. PICK text : text = finishing[h].text
      OBVIOUS
    <3>2. text \in Texts /\ o \in Ops
      BY <1>1, <2>1, <3>1
    <3> DEFINE done == CompleteAndClaimNext(Swept.cache, o, text)
    <3>3. done \in Queue /\ \E n : Guarded(done, n)
      BY <3>2, SweptType, CompleteType, CompletionGuarded DEF Sane
    <3>4. store' = Attempt(Swept, done, stage)
      BY <1>0, <2>3, <3>1 DEF FinishedCompletes
    <3> HIDE DEF done
    <3>5. PICK n : Guarded(done, n)
      BY <3>3
    <3>6. Guarded(disk', n)
      BY <3>3, <3>4, <3>5, GuardedSave
    <3>7. QED
      BY <3>6
  <2>4. CASE FinishedTooLate(h, stage, ackOnly)
    BY <2>4, GuardedSwept DEF FinishedTooLate
  <2>5. QED
    BY <1>6, <2>2, <2>3, <2>4 DEF FinishedComplete
<1>7. ASSUME NEW stage \in Stages, NEW ackOnly \in BOOLEAN, FinishedRecheck(h, stage, ackOnly)
      PROVE  \E n : Guarded(disk', n)
  <2>1. ~At(h, "idle")
    BY <1>7 DEF FinishedRecheck, At
  <2>2. CASE Present(o) /\ Repairable(o)
    <3>1. PICK text : text = observed.text
      OBVIOUS
    <3>2. store' = Attempt(store, [cache EXCEPT ![o] = WithResponse(@, text)], stage)
      BY <1>0, <1>7, <2>2, <3>1 DEF FinishedRecheck
    <3>3. QED
      BY <1>1, <1>2, <2>1, <3>1, <3>2, GuardedResponse
  <2>3. CASE ~(Present(o) /\ Repairable(o))
    <3>1. store' = store
      BY <1>0, <1>7, <2>3 DEF FinishedRecheck
    <3>2. QED
      BY <1>3, <3>1 DEF disk
  <2>4. QED
    BY <2>2, <2>3
<1>8. CASE \/ \E p \in Ops, text \in Texts : FinishedRead(h, p, text)
           \/ \E ackOnly \in BOOLEAN : FinishedChain(h, ackOnly)
  BY <1>3, <1>8 DEF FinishedRead, FinishedChain, disk
<1>9. QED
  BY <1>4, <1>5, <1>6, <1>7, <1>8 DEF Finished

LEMMA NextGuarded == Sane /\ [Next]_vars => \E n : Guarded(disk', n)
<1> SUFFICES ASSUME Sane, [Next]_vars PROVE \E n : Guarded(disk', n)
  OBVIOUS
<1>1. disk' = disk => \E n : Guarded(disk', n)
  BY DiskGuarded
<1>2. CASE Crash
  <2>1. disk' = disk
    BY <1>2 DEF Crash, Restart, Sane, TypeOK, Store, disk
  <2>2. QED
    BY <1>1, <2>1
<1>3. ASSUME NEW o \in Ops, NEW stage \in Stages, GetOperationRepaired(o, stage)
      PROVE  \E n : Guarded(disk', n)
  <2>1. PICK text \in Texts : text = observed.text
    BY DEF Sane, TypeOK
  <2>2. store' = Attempt(store, [cache EXCEPT ![o] = WithResponse(@, text)], stage)
    BY <1>3, <2>1 DEF GetOperationRepaired
  <2>3. QED
    BY <2>2, GuardedResponse
<1>4. ASSUME NEW o \in Ops, NEW stage \in Stages,
             \/ ClaimOperation(o, stage)
             \/ Heartbeat(o, stage) \/ PersistMetadata(o, stage) \/ FailOperation(o, stage)
             \/ \E text \in Texts, recorded \in BOOLEAN :
                  SaveBrowserObservation(o, text, stage, recorded)
             \/ \E c \in RetryClasses : RetryOperation(o, c, stage)
      PROVE  \E n : Guarded(disk', n)
  BY <1>4, GuardedClaims, GuardedReports, GuardedObservation
<1>5. CASE UNCHANGED store
  BY <1>1, <1>5 DEF disk
<1>6. ASSUME NEW stage \in Stages, GetStatus(stage) \/ ClaimNextOperation(stage)
      PROVE  \E n : Guarded(disk', n)
  BY <1>6, GuardedClaims
<1>7. QED
  BY <1>2, <1>3, <1>4, <1>5, <1>6, GuardedQueueOperation, GuardedFinished
     DEF Next, vars, QueueDuplicate, GetOperation, Tick

LEMMA GuardedKeeps ==
  ASSUME Sane, NEW n, Guarded(disk', n)
  PROVE  /\ \A o \in Ops : KeepsClaim(disk'[o], disk[o])
         /\ \A o \in Ops : ClaimedAnew(o) => o = n /\ now < disk'[o].expiresAt
         /\ \A o \in Ops : disk'[o].next # disk[o].next /\ disk'[o].next # 0 =>
              disk'[o].status = "completed" /\ ClaimedAnew(disk'[o].next)
<1>1. ASSUME NEW o \in Ops PROVE KeepsClaim(disk'[o], disk[o])
  BY DEF Guarded, Undisturbed, HandedOver, KeepsClaim, Active
<1>2. ASSUME NEW o \in Ops, ClaimedAnew(o) PROVE o = n /\ now < disk'[o].expiresAt
  BY <1>2 DEF Guarded, Undisturbed, HandedOver, ClaimedAnew
<1>3. ASSUME NEW o \in Ops, disk'[o].next # disk[o].next, disk'[o].next # 0
      PROVE  disk'[o].status = "completed" /\ ClaimedAnew(disk'[o].next)
  BY <1>3 DEF Guarded, Undisturbed, HandedOver, ClaimedAnew
<1>4. QED
  BY <1>1, <1>2, <1>3

(* A controller's claim is taken away only when its lease has run out, or  *)
(* by a reported failure that used up a retry of an operation with no      *)
(* response in hand; in particular never by a crash.                       *)
THEOREM ClaimsAreKept ==
  ASSUME ~IOErrors
  PROVE  Spec => ClaimIsKeptForItsLease
<1> DEFINE Kept == \A o \in Ops :
             LosesClaim(o) =>
               \/ now - disk[o].claimedAt >= ClaimLease
               \/ /\ ~ResponseInHand(disk[o])
                  /\ \E c \in RetryClasses :
                       /\ disk[o].retries[c] < RetryBudget[c]
                       /\ disk'[o].retries[c] = disk[o].retries[c] + 1
<1>1. TypeOK /\ ResponseInv /\ PromiseInv /\ [Next]_vars => Kept
  BY NextGuarded, GuardedKeeps DEF Sane, KeepsClaim, LosesClaim
<1>2. QED
  BY <1>1, TypeCorrect, ResponseInvHolds, PromiseHolds, PTL DEF Spec, ClaimIsKeptForItsLease

(* One save claims at most one operation, none past its time to live, and  *)
(* a successor that a completion names is claimed in the same write of     *)
(* queue.json.                                                             *)
THEOREM HandoffsAreAtomic ==
  ASSUME ~IOErrors
  PROVE  Spec => HandoffIsAtomic
<1> DEFINE Atomic ==
             /\ \A o, p \in Ops : ClaimedAnew(o) /\ ClaimedAnew(p) => o = p
             /\ \A o \in Ops : ClaimedAnew(o) => now < disk'[o].expiresAt
             /\ \A o \in Ops : disk'[o].next # disk[o].next /\ disk'[o].next # 0 =>
                  disk'[o].status = "completed" /\ ClaimedAnew(disk'[o].next)
<1>1. TypeOK /\ ResponseInv /\ PromiseInv /\ [Next]_vars => Atomic
  BY NextGuarded, GuardedKeeps DEF Sane
<1>2. QED
  BY <1>1, TypeCorrect, ResponseInvHolds, PromiseHolds, PTL DEF Spec, HandoffIsAtomic

-----------------------------------------------------------------------------
(* How often an operation is claimed.  A lease that runs out takes its     *)
(* time from the time to live, and a retry is taken from a budget.         *)

Leases(time) == time \div ClaimLease

LEMMA LeasesGrow ==
  ASSUME NEW a \in Nat, NEW b \in Nat
  PROVE  /\ Leases(a) \in Nat
         /\ a <= b => Leases(a) <= Leases(b)
         /\ a + ClaimLease <= b => Leases(a) + 1 <= Leases(b)
<1>1. ClaimLease \in Nat /\ ClaimLease > 0
  BY QueueAssumption
<1>2. PICK l \in Nat : l = ClaimLease /\ l > 0
  BY <1>1
<1> DEFINE p == a \div l
           q == b \div l
<1>3. /\ p \in Nat /\ q \in Nat
      /\ l * p <= a /\ a < l * (p + 1)
      /\ l * q <= b /\ b < l * (q + 1)
  BY <1>2
<1> HIDE DEF p, q
<1>4. ASSUME a <= b, q < p PROVE FALSE
  <2>1. q + 1 <= p
    BY <1>3, <1>4
  <2>2. l * (q + 1) <= l * p
    BY <1>3, <2>1
  <2>3. QED
    BY <1>3, <1>4, <2>2
<1>5. ASSUME a + l <= b, q < p + 1 PROVE FALSE
  <2>1. q + 1 <= p + 1
    BY <1>3, <1>5
  <2>2. l * (q + 1) <= l * (p + 1)
    BY <1>3, <2>1
  <2>3. l * (p + 1) = l * p + l
    BY <1>3
  <2>4. QED
    BY <1>3, <1>5, <2>2, <2>3
<1>6. (a <= b => p <= q) /\ (a + l <= b => p + 1 <= q)
  BY <1>3, <1>4, <1>5
<1>7. QED
  BY <1>2, <1>3, <1>6 DEF Leases, p, q

(* The retries an operation has used, and the time since its submission.   *)
Spent(item) == SumOver(item.retries, RetryClasses)

Submitted(item) == item.expiresAt - QueueTTL

(* The claims that an unfinished operation can have had by some time: one, *)
(* if it is claimed; one for each retry; and one for each lease that fits  *)
(* between its submission and the last claim, or that time.                *)
PaysFor(item, n, time) ==
  item.status \in Active =>
    /\ \A c \in RetryClasses : item.retries[c] <= RetryBudget[c]
    /\ Submitted(item) \in Nat /\ Submitted(item) <= time
    /\ item.status = "queued" => n <= Spent(item) + Leases(time - Submitted(item))
    /\ Held(item) =>
         /\ Submitted(item) <= item.claimedAt /\ item.claimedAt <= time
         /\ n <= 1 + Spent(item) + Leases(item.claimedAt - Submitted(item))

ClaimsInv ==
  /\ claims \in [Ops -> Nat]
  /\ \A o \in Ops :
       /\ claims[o] <= MaxClaims
       /\ o >= nextId => claims[o] = 0
       /\ PaysFor(disk[o], claims[o], now)

LEMMA SpentTypes ==
  ASSUME NEW item \in Item
  PROVE  /\ Spent(item) \in Nat
         /\ IsFiniteSet(RetryClasses)
         /\ item.retries \in [RetryClasses -> Nat]
<1>1. IsFiniteSet(RetryClasses) /\ item.retries \in [RetryClasses -> Nat]
  BY QueueAssumption DEF Item
<1>2. \A c \in RetryClasses : item.retries[c] \in Nat
  BY <1>1
<1>3. QED
  BY <1>1, <1>2, SumNat DEF Spent

LEMMA BudgetSum ==
  /\ MaxClaims = 1 + SumOver(RetryBudget, RetryClasses) + Leases(QueueTTL - 1)
  /\ SumOver(RetryBudget, RetryClasses) \in Nat
  /\ \A item \in Item :
       (\A c \in RetryClasses : item.retries[c] <= RetryBudget[c]) =>
         Spent(item) <= SumOver(RetryBudget, RetryClasses)
<1>1. IsFiniteSet(RetryClasses) /\ RetryBudget \in [RetryClasses -> Nat]
  BY QueueAssumption
<1>2. \A c \in RetryClasses : RetryBudget[c] \in Nat
  BY <1>1
<1>3. SumOver(RetryBudget, RetryClasses) \in Nat
  BY <1>1, <1>2, SumNat
<1>4. ASSUME NEW item \in Item, \A c \in RetryClasses : item.retries[c] <= RetryBudget[c]
      PROVE  Spent(item) <= SumOver(RetryBudget, RetryClasses)
  <2>1. \A c \in RetryClasses :
          item.retries[c] \in Nat /\ RetryBudget[c] \in Nat /\ item.retries[c] <= RetryBudget[c]
    BY <1>2, <1>4, SpentTypes
  <2>2. QED
    BY <1>1, <2>1, SumMonotone DEF Spent
<1>5. MaxClaims = 1 + SumOver(RetryBudget, RetryClasses) + Leases(QueueTTL - 1)
  BY DEF MaxClaims, SumOver, Leases
<1>6. QED
  BY <1>3, <1>4, <1>5

LEMMA RetrySpent ==
  ASSUME NEW d \in Item, NEW e \in Item, NEW c \in RetryClasses,
         e.retries = [d.retries EXCEPT ![c] = @ + 1]
  PROVE  Spent(e) = Spent(d) + 1
<1>1. /\ IsFiniteSet(RetryClasses) /\ d.retries \in [RetryClasses -> Nat]
      /\ e.retries \in [RetryClasses -> Nat]
  BY SpentTypes
<1>2. PICK f, g : f = d.retries /\ g = e.retries
  OBVIOUS
<1>3. /\ \A x \in RetryClasses : f[x] \in Nat /\ g[x] \in Nat
      /\ \A x \in RetryClasses \ {c} : f[x] = g[x]
      /\ g[c] = f[c] + 1
  BY <1>1, <1>2
<1>4. /\ SumOver(f, RetryClasses) = f[c] + SumOver(f, RetryClasses \ {c})
      /\ SumOver(g, RetryClasses) = g[c] + SumOver(g, RetryClasses \ {c})
  BY <1>1, <1>3, SumMember
<1>5. IsFiniteSet(RetryClasses \ {c})
  BY <1>1, FS_RemoveElement
<1>6. SumOver(f, RetryClasses \ {c}) = SumOver(g, RetryClasses \ {c})
  BY <1>3, <1>5, SumSame
<1>7. SumOver(f, RetryClasses \ {c}) \in Nat
  BY <1>3, <1>5, SumNat
<1>8. SumOver(g, RetryClasses) = SumOver(f, RetryClasses) + 1
  BY <1>3, <1>4, <1>6, <1>7
<1>9. QED
  BY <1>2, <1>8 DEF Spent

(* An operation that waits, or is about to be claimed again.               *)
LEMMA WaitsPays ==
  ASSUME Sane, NEW d \in Item, NEW e \in Item, NEW n \in Nat,
         d.status \in Active, e.expiresAt = d.expiresAt, PaysFor(d, n, now), Waits(e, d)
  PROVE  /\ \A c \in RetryClasses : e.retries[c] <= RetryBudget[c]
         /\ Submitted(e) \in Nat /\ Submitted(e) <= now
         /\ n <= Spent(e) + Leases(now - Submitted(e))
<1>1. now \in Nat /\ ClaimLease \in Nat
  BY QueueAssumption DEF Sane, TypeOK
<1>2. PICK s : s = Submitted(d) /\ s = Submitted(e)
  BY DEF Submitted
<1>3. s \in Nat /\ s <= now /\ now - s \in Nat
  BY <1>1, <1>2 DEF PaysFor
<1>4. Spent(d) \in Nat /\ Spent(e) \in Nat /\ Leases(now - s) \in Nat
  BY <1>3, SpentTypes, LeasesGrow
<1>5. ASSUME Held(d)
      PROVE  /\ d.claimedAt \in Nat /\ s <= d.claimedAt /\ d.claimedAt <= now
             /\ d.claimedAt - s \in Nat /\ Leases(d.claimedAt - s) \in Nat
             /\ n <= 1 + Spent(d) + Leases(d.claimedAt - s)
             /\ Leases(d.claimedAt - s) <= Leases(now - s)
             /\ now - d.claimedAt >= ClaimLease =>
                  Leases(d.claimedAt - s) + 1 <= Leases(now - s)
  <2>1. /\ d.claimedAt \in Nat /\ s <= d.claimedAt /\ d.claimedAt <= now
        /\ n <= 1 + Spent(d) + Leases(d.claimedAt - s)
    BY <1>2, <1>5 DEF PaysFor, Item
  <2>2. PICK t \in Nat : t = d.claimedAt - s
    BY <1>3, <2>1
  <2>3. t <= now - s /\ (now - d.claimedAt >= ClaimLease => t + ClaimLease <= now - s)
    BY <1>1, <1>3, <2>1, <2>2
  <2>4. QED
    BY <1>3, <2>1, <2>2, <2>3, LeasesGrow
<1>6. CASE e.retries = d.retries /\ d.status = "queued"
  BY <1>2, <1>3, <1>6 DEF PaysFor, Spent
<1>7. CASE e.retries = d.retries /\ Held(d) /\ now - d.claimedAt >= ClaimLease
  <2>1. Spent(e) = Spent(d)
    BY <1>7 DEF Spent
  <2>2. n <= Spent(e) + Leases(now - s)
    BY <1>4, <1>5, <1>7, <2>1
  <2>3. QED
    BY <1>2, <1>3, <1>7, <2>2 DEF PaysFor
<1>8. CASE Held(d) /\ ~(e.retries = d.retries)
  <2>1. PICK c \in RetryClasses :
          d.retries[c] < RetryBudget[c] /\ e.retries = [d.retries EXCEPT ![c] = @ + 1]
    BY <1>8 DEF Waits
  <2>2. Spent(e) = Spent(d) + 1
    BY <2>1, RetrySpent
  <2>3. \A x \in RetryClasses : e.retries[x] <= RetryBudget[x]
    BY <2>1, SpentTypes, QueueAssumption DEF PaysFor
  <2>4. n <= Spent(e) + Leases(now - s)
    BY <1>4, <1>5, <1>8, <2>2
  <2>5. QED
    BY <1>2, <1>3, <2>3, <2>4
<1>9. CASE Held(d) /\ e.retries = d.retries /\ ~(now - d.claimedAt >= ClaimLease)
  <2>1. PICK c \in RetryClasses : e.retries = [d.retries EXCEPT ![c] = @ + 1]
    BY <1>9 DEF Waits, Held
  <2>2. d.retries \in [RetryClasses -> Nat]
    BY SpentTypes
  <2>3. FALSE
    BY <1>9, <2>1, <2>2
  <2>4. QED
    BY <2>3
<1>10. QED
  BY <1>6, <1>7, <1>8, <1>9 DEF Waits

(* One step of one operation, which may be claimed in it.                  *)
LEMMA LivesPays ==
  ASSUME Sane, NEW o \in Ops, NEW d \in Item, NEW e \in Item, NEW n \in Nat, NEW m \in {n, n + 1},
         NEW time \in Nat, now <= time,
         n <= MaxClaims, o >= nextId => n = 0, PaysFor(d, n, now), Lives(e, d, o),
         m # n => /\ e.status = "claimed" /\ now < e.expiresAt
                  /\ d.status = "claimed" => e.claimedAt # d.claimedAt
  PROVE  m <= MaxClaims /\ PaysFor(e, m, time)
<1>1. now \in Nat /\ ClaimLease \in Nat /\ QueueTTL \in Nat /\ QueueTTL > 0
  BY QueueAssumption DEF Sane, TypeOK
<1>2. Spent(e) \in Nat /\ Spent(d) \in Nat /\ e.expiresAt \in Nat
  BY SpentTypes DEF Item
<1>3. "queued" \in Active /\ "claimed" \in Active /\ "absent" \notin Active
  BY DEF Active
<1>4. CASE e.status \notin Active
  BY <1>3, <1>4 DEF PaysFor
<1>5. CASE /\ o = nextId /\ e.status = "queued" /\ e.expiresAt = now + QueueTTL
           /\ e.retries = [c \in RetryClasses |-> 0]
  <2>1. n = 0 /\ m = 0
    BY <1>5 DEF Ops, Sane, TypeOK
  <2>2. \A c \in RetryClasses : e.retries[c] <= RetryBudget[c]
    BY <1>5, QueueAssumption
  <2>3. Submitted(e) = now /\ time - now \in Nat
    BY <1>1, <1>5 DEF Submitted
  <2>4. Leases(time - now) \in Nat
    BY <2>3, LeasesGrow
  <2>5. m <= Spent(e) + Leases(time - Submitted(e))
    BY <1>2, <2>1, <2>3, <2>4
  <2>6. QED
    BY <1>1, <1>5, <2>1, <2>2, <2>3, <2>5 DEF PaysFor, Held
<1>6. CASE /\ d.status \in Active /\ e.expiresAt = d.expiresAt
           /\ Held(e) /\ Held(d) /\ e.retries = d.retries /\ e.claimedAt = d.claimedAt
           /\ e.status = "claimed" => d.status = "claimed"
  <2>1. m = n /\ Submitted(e) = Submitted(d) /\ Spent(e) = Spent(d) /\ e.status # "queued"
    BY <1>6 DEF Submitted, Spent, Held
  <2>2. d.claimedAt \in Nat
    BY DEF Item
  <2>3. QED
    BY <1>1, <1>6, <2>1, <2>2 DEF PaysFor
<1>7. CASE /\ d.status \in Active /\ e.expiresAt = d.expiresAt /\ Waits(e, d)
           /\ e.status = "queued" \/ (e.status = "claimed" /\ e.claimedAt = now)
  <2>1. /\ \A c \in RetryClasses : e.retries[c] <= RetryBudget[c]
        /\ Submitted(e) \in Nat /\ Submitted(e) <= now
        /\ n <= Spent(e) + Leases(now - Submitted(e))
    BY <1>7, WaitsPays
  <2>2. PICK s \in Nat : s = Submitted(e) /\ s <= now /\ s <= time
    BY <1>1, <2>1
  <2>3. PICK a \in Nat, b \in Nat : a = now - s /\ b = time - s /\ a <= b
    BY <1>1, <2>2
  <2>4. Leases(a) \in Nat /\ Leases(b) \in Nat /\ Leases(a) <= Leases(b)
    BY <2>3, LeasesGrow
  <2>5. CASE e.status = "queued"
    <3>1. m = n
      BY <2>5
    <3>2. m <= Spent(e) + Leases(time - Submitted(e))
      BY <1>2, <2>1, <2>2, <2>3, <2>4, <3>1
    <3>3. QED
      BY <2>1, <2>2, <2>5, <3>1, <3>2 DEF PaysFor, Held
  <2>6. CASE e.status = "claimed" /\ e.claimedAt = now
    <3>1. m <= 1 + Spent(e) + Leases(e.claimedAt - Submitted(e))
      BY <1>2, <2>1, <2>2, <2>3, <2>4, <2>6
    <3>2. PaysFor(e, m, time)
      BY <1>1, <2>1, <2>2, <2>6, <3>1 DEF PaysFor, Held
    <3>3. ASSUME m = n + 1 PROVE m <= MaxClaims
      <4>1. now < e.expiresAt
        BY <3>3
      <4>2. a <= QueueTTL - 1
        BY <1>1, <1>2, <2>2, <2>3, <4>1 DEF Submitted
      <4>3. Leases(a) <= Leases(QueueTTL - 1) /\ Leases(QueueTTL - 1) \in Nat
        BY <1>1, <4>2, LeasesGrow
      <4>4. Spent(e) <= SumOver(RetryBudget, RetryClasses)
        BY <2>1, BudgetSum
      <4>5. QED
        BY <1>2, <2>1, <2>2, <2>3, <2>4, <3>3, <4>3, <4>4, BudgetSum
    <3>4. QED
      BY <3>2, <3>3
  <2>7. QED
    BY <1>7, <2>5, <2>6
<1>8. QED
  BY <1>4, <1>5, <1>6, <1>7 DEF Lives

LEMMA ClockGoesOn ==
  ASSUME Sane, [Next]_vars
  PROVE  /\ now' \in Nat /\ now <= now'
         /\ nextId' \in Nat /\ nextId \in Nat /\ nextId <= nextId'
<1> DEFINE Stands == now' = now
<1>1. now' \in {now, now + 1}
  <2>1. CASE Tick \/ UNCHANGED vars
    BY <2>1 DEF Tick, vars
  <2>2. ASSUME NEW h \in Handlers, NEW o \in Ops, NEW text \in Texts, FinishedRead(h, o, text)
        PROVE  Stands
    BY <2>2 DEF FinishedRead
  <2>3. ASSUME NEW h \in Handlers, NEW stage \in Stages, FinishedEvidence(h, stage)
        PROVE  Stands
    BY <2>3 DEF FinishedEvidence
  <2>4. ASSUME NEW h \in Handlers, NEW stage \in Stages, FinishedTiming(h, stage)
        PROVE  Stands
    BY <2>4 DEF FinishedTiming
  <2>5. ASSUME NEW h \in Handlers, NEW stage \in Stages, NEW ackOnly \in BOOLEAN,
               FinishedComplete(h, stage, ackOnly) \/ FinishedRecheck(h, stage, ackOnly)
        PROVE  Stands
    BY <2>5 DEF FinishedComplete, FinishedRecheck
  <2>6. ASSUME NEW h \in Handlers, NEW ackOnly \in BOOLEAN, FinishedChain(h, ackOnly)
        PROVE  Stands
    BY <2>6 DEF FinishedChain
  <2>7. ASSUME NEW h \in Handlers, Finished(h) PROVE Stands
    BY <2>2, <2>3, <2>4, <2>5, <2>6, <2>7 DEF Finished
  <2>8. ASSUME NEW stage \in Stages, SweepAborts(stage) \/ OnlySweeps(stage) PROVE Stands
    BY <2>8 DEF SweepAborts, OnlySweeps
  <2>9. ASSUME NEW st, NEW o, NEW stage, ClaimFrom(st, o, stage) PROVE Stands
    BY <2>9 DEF ClaimFrom
  <2>10. ASSUME NEW stage \in Stages, GetStatus(stage) \/ ClaimNextOperation(stage) PROVE Stands
    BY <2>8, <2>9, <2>10 DEF GetStatus, ClaimNextOperation
  <2>11. ASSUME NEW o \in Ops, NEW stage \in Stages, ClaimOperation(o, stage) PROVE Stands
    BY <2>8, <2>9, <2>11 DEF ClaimOperation
  <2>12. ASSUME NEW o, NEW item, NEW stage, Update(o, item, stage) PROVE Stands
    BY <2>12 DEF Update
  <2>13. ASSUME NEW o \in Ops, NEW stage \in Stages,
                Heartbeat(o, stage) \/ PersistMetadata(o, stage) \/ FailOperation(o, stage)
         PROVE  Stands
    BY <2>12, <2>13 DEF Heartbeat, PersistMetadata, FailOperation
  <2>14. ASSUME NEW o \in Ops, NEW stage \in Stages, NEW c \in RetryClasses,
                RetryOperation(o, c, stage)
         PROVE  Stands
    BY <2>12, <2>14 DEF RetryOperation
  <2>15. ASSUME NEW o \in Ops, NEW stage \in Stages, NEW text \in Texts, NEW recorded \in BOOLEAN,
                SaveBrowserObservation(o, text, stage, recorded)
         PROVE  Stands
    BY <2>15 DEF SaveBrowserObservation
  <2>16. ASSUME NEW o \in Ops, NEW stage \in Stages, GetOperationRepaired(o, stage) PROVE Stands
    BY <2>16 DEF GetOperationRepaired
  <2>17. ASSUME NEW r \in Requests, QueueDuplicate(r) \/ \E stage \in Stages : QueueOperation(r, stage)
         PROVE  Stands
    BY <2>17 DEF QueueDuplicate, QueueOperation
  <2>18. ASSUME NEW o \in Ops, NEW waiting \in BOOLEAN, GetOperation(o, waiting) PROVE Stands
    BY <2>18 DEF GetOperation
  <2>19. ASSUME Crash PROVE Stands
    BY <2>19 DEF Crash
  <2> HIDE DEF Stands
  <2>20. Stands \/ Tick \/ UNCHANGED vars
    BY <2>7, <2>10, <2>11, <2>13, <2>14, <2>15, <2>16, <2>17, <2>18, <2>19 DEF Next, Stands
  <2>21. QED
    BY <2>1, <2>20 DEF Stands
<1>2. now \in Nat /\ nextId \in Nat
  BY QueueAssumption, StoreAssumption DEF Sane, TypeOK
<1>3. nextId' \in {nextId, nextId + 1}
  BY NextProgress DEF Progress
<1>4. QED
  BY <1>1, <1>2, <1>3

LEMMA NextClaims ==
  ASSUME Sane, ClaimsInv, TypeOK', HistoryNext
  PROVE  ClaimsInv'
<1>1. PICK n : Guarded(disk', n)
  BY NextGuarded DEF HistoryNext
<1>2. /\ now' \in Nat /\ now <= now'
      /\ nextId' \in Nat /\ nextId \in Nat /\ nextId <= nextId'
  BY ClockGoesOn DEF HistoryNext
<1>3. claims' = [o \in Ops |-> IF ClaimedAnew(o) THEN claims[o] + 1 ELSE claims[o]]
  BY DEF HistoryNext
<1>4. ASSUME NEW o \in Ops
      PROVE  /\ claims[o] \in Nat /\ claims'[o] \in {claims[o], claims[o] + 1}
             /\ claims'[o] # claims[o] => ClaimedAnew(o)
  BY <1>3 DEF ClaimsInv
<1>5. ASSUME NEW o \in Ops
      PROVE  /\ Lives(disk'[o], disk[o], o)
             /\ ClaimedAnew(o) =>
                  /\ disk'[o].status = "claimed" /\ now < disk'[o].expiresAt
                  /\ disk[o].status = "claimed" => disk'[o].claimedAt # disk[o].claimedAt
  <2>1. Lives(disk'[o], disk[o], o)
    BY <1>1 DEF Guarded, Undisturbed, HandedOver, Lives, Active
  <2>2. ClaimedAnew(o) => now < disk'[o].expiresAt
    BY <1>1, GuardedKeeps
  <2>3. QED
    BY <2>1, <2>2 DEF ClaimedAnew
<1>6. ASSUME NEW o \in Ops
      PROVE  claims'[o] <= MaxClaims /\ PaysFor(disk'[o], claims'[o], now')
  <2>1. disk[o] \in Item /\ disk'[o] \in Item
    BY DEF Sane, TypeOK, Store, Queue, disk
  <2>2. PICK d \in Item, e \in Item, k \in Nat : d = disk[o] /\ e = disk'[o] /\ k = claims[o]
    BY <1>4, <2>1
  <2>3. PICK m \in {k, k + 1} : m = claims'[o]
    BY <1>4, <2>2
  <2>4. /\ k <= MaxClaims /\ (o >= nextId => k = 0) /\ PaysFor(d, k, now)
        /\ Lives(e, d, o)
        /\ m # k => /\ e.status = "claimed" /\ now < e.expiresAt
                    /\ d.status = "claimed" => e.claimedAt # d.claimedAt
    BY <1>4, <1>5, <2>2, <2>3 DEF ClaimsInv
  <2>5. PICK time \in Nat : time = now' /\ now <= time
    BY <1>2
  <2>6. m <= MaxClaims /\ PaysFor(e, m, time)
    BY <2>4, <2>5, LivesPays
  <2>7. QED
    BY <2>2, <2>3, <2>5, <2>6 DEF PaysFor
<1>7. ASSUME NEW o \in Ops, o >= nextId' PROVE claims'[o] = 0
  <2>1. o >= nextId
    BY <1>2, <1>7 DEF Ops
  <2>2. claims[o] = 0 /\ disk[o].status = "absent"
    BY <2>1 DEF ClaimsInv, Sane, ResponseInv, StoreKnown, Unused, disk
  <2>3. ~ClaimedAnew(o)
    BY <1>5, <2>2 DEF Lives, ClaimedAnew, Active
  <2>4. QED
    BY <1>4, <2>2, <2>3
<1>8. claims' \in [Ops -> Nat]
  BY <1>3, <1>4
<1>9. QED
  BY <1>6, <1>7, <1>8 DEF ClaimsInv

LEMMA ClaimsInit == HistoryInit => ClaimsInv
<1> SUFFICES ASSUME HistoryInit PROVE ClaimsInv
  OBVIOUS
<1>1. claims = [o \in Ops |-> 0] /\ \A o \in Ops : disk[o].status = "absent"
  BY DEF HistoryInit, Init, Gone, disk
<1>2. 0 <= MaxClaims
  <2>1. QueueTTL - 1 \in Nat
    BY QueueAssumption
  <2>2. Leases(QueueTTL - 1) \in Nat
    BY <2>1, LeasesGrow
  <2>3. QED
    BY <2>2, BudgetSum
<1>3. QED
  BY <1>1, <1>2 DEF ClaimsInv, PaysFor, Active

(* The history adds nothing to what the bridge does.                       *)
LEMMA HistoryIsBridge == HistorySpec => Spec
<1>1. HistoryInit => Init
  BY DEF HistoryInit
<1>2. [HistoryNext]_historyVars => [Next]_vars
  BY DEF HistoryNext, historyVars, vars
<1>3. QED
  BY <1>1, <1>2, PTL DEF HistorySpec, Spec

(* One submission is executed no more often than once, once for each retry *)
(* of each budget and once for each lease that can run out within its time *)
(* to live, whatever controllers, crashes and the clock do: the claims     *)
(* recorded in queue.json by _claim, the sweep and _retry_operation.       *)
THEOREM ClaimsAreBounded ==
  ASSUME ~IOErrors
  PROVE  HistorySpec => []ClaimsBounded
<1>1. /\ TypeOK /\ ResponseInv /\ PromiseInv /\ TypeOK' /\ ClaimsInv /\ [HistoryNext]_historyVars
      => ClaimsInv'
  <2> SUFFICES ASSUME TypeOK, ResponseInv, PromiseInv, TypeOK', ClaimsInv,
                      [HistoryNext]_historyVars
               PROVE  ClaimsInv'
    OBVIOUS
  <2>1. CASE HistoryNext
    BY <2>1, NextClaims DEF Sane
  <2>2. CASE UNCHANGED historyVars
    BY <2>2 DEF historyVars, vars, ClaimsInv, PaysFor, disk
  <2>3. QED
    BY <2>1, <2>2
<1>2. ClaimsInv => ClaimsBounded
  BY DEF ClaimsInv, ClaimsBounded
<1>3. HistorySpec => []TypeOK /\ []ResponseInv /\ []PromiseInv
  BY HistoryIsBridge, TypeCorrect, ResponseInvHolds, PromiseHolds, PTL
<1>4. QED
  BY <1>1, <1>2, <1>3, ClaimsInit, PTL DEF HistorySpec

=============================================================================
