---------------------------- MODULE BridgeStore -----------------------------
(***************************************************************************)
(* What the bridge keeps of its operation queue, and what one              *)
(* BridgeState._save_queue does to it: the in-memory cache, queue.json,    *)
(* and one terminal-response file per finished operation.                  *)
(*                                                                         *)
(* The code's queue is a list that is only appended to and filtered, so    *)
(* its order is the order of creation.  Operations are therefore numbered  *)
(* in that order and the list is a function from numbers to items; an      *)
(* operation that is not in the list has the item Gone.                    *)
(***************************************************************************)
EXTENDS OperationLifecycle, Naturals, FiniteSets

CONSTANTS
  MaxOps,         \* bound on the operations ever created
  MaxTerminal,    \* MAX_PERSISTED_TERMINAL_QUEUE_ITEMS
  Requests,       \* what a client may ask to queue: type, prompt and key
  NoRequest,      \* the request of an operation that is not in the list
  Responses,      \* nonblank response texts
  NoText,         \* a missing or blank response text
  RetryClasses,   \* the classes of transient failure
  Stops,          \* the stages at which a save may stop short, see below
  IOErrors        \* TRUE: a write may fail and raise; FALSE: only a process
                  \* death can leave a save unfinished

ASSUME StoreAssumption ==
  /\ MaxOps \in Nat
  /\ MaxTerminal \in Nat
  /\ NoRequest \notin Requests
  /\ NoText \notin Responses
  /\ Stops \subseteq 0..(MaxOps + 1)
  /\ IOErrors \in BOOLEAN

Ops == 1..MaxOps

Texts == Responses \cup {NoText}

Item ==
  [status    : Statuses \cup {"absent"},
   request   : Requests \cup {NoRequest},
   claimedAt : Nat,                       \* 0 when the field is not set
   expiresAt : Nat,
   text      : Texts,                     \* response_text kept in the item
   available : BOOLEAN,                   \* response_text_available
   retries   : [RetryClasses -> Nat],     \* retry_counts
   next      : 0..MaxOps]                 \* next_operation_id, 0 when unset

Gone ==
  [status |-> "absent", request |-> NoRequest, claimedAt |-> 0, expiresAt |-> 0,
   text |-> NoText, available |-> FALSE, retries |-> [c \in RetryClasses |-> 0],
   next |-> 0]

Queue == [Ops -> Item]

TerminalOps(q) == {o \in Ops : q[o].status \in Terminal}

ActiveOps(q) == {o \in Ops : q[o].status \in Active}

(* The cache, the two kinds of file, and the set of operations the         *)
(* response directory was last pruned to (NotPruned after a start).        *)
Store ==
  [cache     : Queue,
   disk      : Queue,
   responses : [Ops -> Texts],
   pruned    : SUBSET (0..MaxOps)]

NotPruned == {0}

-----------------------------------------------------------------------------
(* How far one _save_queue gets.  0..MaxOps: the responses of operations   *)
(* up to that number are written and the next write does not finish, so    *)
(* queue.json is untouched.  Replaced: queue.json is renamed into place    *)
(* but the directory sync or the pruning does not finish.  Saved: all of   *)
(* it.                                                                     *)
Replaced == MaxOps + 1
Saved == MaxOps + 2
Stages == Stops \cup {Saved}

Inline(q) == {o \in TerminalOps(q) : q[o].text # NoText}

(* persistent_item.pop("response_text") for every terminal item.           *)
Compact(q) ==
  [o \in Ops |-> IF o \in Inline(q) THEN [q[o] EXCEPT !.text = NoText] ELSE q[o]]

(* StateManager.save_queue keeps the last MaxTerminal terminal items of    *)
(* the list, whenever they became terminal.                                *)
Evicted(q) ==
  {o \in TerminalOps(q) :
     Cardinality({p \in TerminalOps(q) : p > o}) >= MaxTerminal}

Retain(q) == [o \in Ops |-> IF o \in Evicted(q) THEN Gone ELSE q[o]]

WriteResponses(responses, q, stage) ==
  [o \in Ops |-> IF o \in Inline(q) /\ o <= stage THEN q[o].text ELSE responses[o]]

(* prune_terminal_responses: skipped when the retained set is the one it   *)
(* last pruned to.                                                         *)
Prune(responses, pruned, retained) ==
  IF retained = pruned
  THEN responses
  ELSE [o \in Ops |-> IF o \in retained THEN responses[o] ELSE NoText]

(* Mutant: queue.json is written before the responses it refers to.        *)
SaveQueueStatusFirst(st, q, stage) ==
  LET final == Retain(Compact(q))
  IN  IF stage < Replaced
      THEN [st EXCEPT !.cache = q, !.disk = final]
      ELSE [cache |-> final, disk |-> final, pruned |-> TerminalOps(final),
            responses |-> Prune(WriteResponses(st.responses, q, stage), st.pruned, TerminalOps(final))]

(* A save of queue q that gets to the given stage.  Until the last stage   *)
(* the cache keeps the objects the caller changed in place; queue.json     *)
(* once replaced has a new mtime, so the next load rereads it.             *)
SaveQueue(st, q, stage) ==
  LET final    == Retain(Compact(q))
      written  == WriteResponses(st.responses, q, stage)
      retained == TerminalOps(final)
  IN  IF stage < Replaced
      THEN [st EXCEPT !.cache = IF Inline(q) = {} THEN Retain(q) ELSE q,
                      !.responses = written]
      ELSE IF stage = Replaced
      THEN [st EXCEPT !.cache = final, !.disk = final, !.responses = written]
      ELSE [cache     |-> final,
            disk      |-> final,
            responses |-> Prune(written, st.pruned, retained),
            pruned    |-> retained]

(* A new process reads queue.json and knows nothing about pruning.         *)
Restart(st) == [st EXCEPT !.cache = st.disk, !.pruned = NotPruned]

(* An unfinished save either raises in a process that goes on, or is the   *)
(* last thing the process did.                                             *)
Attempt(st, q, stage) ==
  IF stage = Saved \/ IOErrors
  THEN SaveQueue(st, q, stage)
  ELSE Restart(SaveQueue(st, q, stage))

(* The response an operation's reader is given: the item's own text, else  *)
(* for a terminal item the stored one.                                     *)
Hydrated(st, o) ==
  IF st.cache[o].status \in Terminal /\ st.cache[o].text = NoText
  THEN st.responses[o]
  ELSE st.cache[o].text

=============================================================================
