--------------------------- MODULE RuntimeControl ---------------------------
(***************************************************************************)
(* Operator controls: RuntimeControlService.execute, called from the       *)
(* threads of the runtime API, over three SQLite databases: the operation  *)
(* states with optimistic concurrency, the append-only event log, and the  *)
(* ledger of idempotency keys.  Each database call commits on its own, so  *)
(* one request is a process of five steps, and other requests, the worker  *)
(* that executes the operation, and a crash come in between.               *)
(*                                                                         *)
(* A command's id is a digest of its operation, action, expected revision  *)
(* and reason (the reason is left out here), and the result of one that    *)
(* takes effect follows from it: a command stands for all three.           *)
(***************************************************************************)
EXTENDS Naturals

CONSTANTS
  Operations,
  Keys,         \* idempotency keys
  Handlers,     \* concurrent POST /v1/runtime/controls requests
  GivenActions, \* the actions clients ask for
  NoCommand,    \* the command of a key that is not in the ledger
  MaxRevision   \* bound on the transitions of an operation

Statuses == {"queued", "claimed", "generating", "completed", "failed"}

AllowedTransitions ==
  [queued     |-> {"claimed", "failed"},
   claimed    |-> {"generating", "failed"},
   generating |-> {"completed", "failed"},
   failed     |-> {"claimed"},
   completed  |-> {}]

Actions == {"start", "stop", "retry", "recover"}

Command == [op : Operations, action : GivenActions, expected : 0..MaxRevision]

ASSUME ControlAssumption ==
  /\ GivenActions \subseteq Actions
  /\ NoCommand \notin Command
  /\ MaxRevision \in Nat

VARIABLES
  state,     \* the operation_state table
  events,    \* the commands whose event is in the log
  ledger,    \* the runtime_command table: the command of each key
  requests,  \* the requests in progress
  answers,   \* the commands whose result clients were given, by key
  applied,   \* history: the commands that changed a state, by key
  refused    \* history: a request was refused that repeats an applied command

vars == <<state, events, ledger, requests, answers, applied, refused>>

(* note stands for the metadata the worker keeps: the revision at which it *)
(* last wrote some.  A request keeps the note of the row it read, and the  *)
(* revision that row had (seen), which the code does not look at.          *)
OperationState ==
  [status : Statuses, revision : 0..MaxRevision, note : 0..MaxRevision]

Idle == [pc |-> "idle"]

Request == {Idle} \cup
  [pc : {"read", "transition", "append", "put"}, key : Keys, command : Command,
   note : 0..MaxRevision, seen : 0..MaxRevision]

TypeOK ==
  /\ state \in [Operations -> OperationState]
  /\ events \subseteq Command
  /\ ledger \in [Keys -> Command \cup {NoCommand}]
  /\ requests \in [Handlers -> Request]
  /\ answers \in [Keys -> SUBSET Command]
  /\ applied \in [Keys -> SUBSET Command]
  /\ refused \in BOOLEAN

Init ==
  /\ state = [o \in Operations |-> [status |-> "queued", revision |-> 0, note |-> 0]]
  /\ events = {}
  /\ ledger = [k \in Keys |-> NoCommand]
  /\ requests = [h \in Handlers |-> Idle]
  /\ answers = [k \in Keys |-> {}]
  /\ applied = [k \in Keys |-> {}]
  /\ refused = FALSE

-----------------------------------------------------------------------------
(* SQLiteOperationStateStore.transition: one immediate transaction.        *)

(* Mutant: the caller's revision is not compared with the stored one.      *)
MayMoveUnchecked(o, target, expected) ==
  /\ target \in AllowedTransitions[state[o].status]
  /\ state[o].revision < MaxRevision

(* The last conjunct is the bound on revisions.                            *)
MayMove(o, target, expected) ==
  /\ state[o].revision = expected
  /\ target \in AllowedTransitions[state[o].status]
  /\ state[o].revision < MaxRevision

(* Mutant: a stop is stored under a status of its own, which no row of the *)
(* table knows.                                                            *)
MoveStopped(o, target, note) ==
  LET status == IF target = "failed" THEN "stopped" ELSE target
  IN  state' = [state EXCEPT ![o] = [status |-> status, revision |-> @.revision + 1, note |-> note]]

Move(o, target, note) ==
  state' = [state EXCEPT ![o] = [status |-> target, revision |-> @.revision + 1, note |-> note]]

(* Whatever executes the operation moves it on from the revision it read,  *)
(* and may write metadata as it does.                                      *)
WorkerMoves(o, target) ==
  /\ MayMove(o, target, state[o].revision)
  /\ \E note \in {state[o].note, state[o].revision + 1} : Move(o, target, note)
  /\ UNCHANGED <<events, ledger, requests, answers, applied, refused>>

-----------------------------------------------------------------------------
(* RuntimeControlService.execute.                                          *)

At(h, pc) == requests[h].pc = pc

Finish(h) == requests' = [requests EXCEPT ![h] = Idle]

Advance(h, pc) == requests' = [requests EXCEPT ![h].pc = pc]

Refuse(k, c) == refused' = (refused \/ c \in applied[k])

(* command_store.get.  A caller may name any revision, also one that the   *)
(* operation has not reached: the next one is easy to tell.  A key in the  *)
(* ledger is answered from there if the command is the same.               *)
Begin(h, k, c) ==
  /\ At(h, "idle")
  /\ IF ledger[k] = NoCommand
     THEN /\ requests' = [requests EXCEPT ![h] =
               [pc |-> "read", key |-> k, command |-> c, note |-> 0, seen |-> 0]]
          /\ UNCHANGED <<answers, refused>>
     ELSE /\ UNCHANGED requests
          /\ IF ledger[k] = c
             THEN answers' = [answers EXCEPT ![k] = @ \cup {c}] /\ UNCHANGED refused
             ELSE Refuse(k, c) /\ UNCHANGED answers
  /\ UNCHANGED <<state, events, ledger, applied>>

(* operation_store.get: the metadata the command will write back.          *)
Read(h) ==
  LET row == state[requests[h].command.op]
  IN  /\ At(h, "read")
      /\ requests' = [requests EXCEPT ![h].pc = "transition", ![h].note = row.note,
                                      ![h].seen = row.revision]
      /\ UNCHANGED <<state, events, ledger, answers, applied, refused>>

Target(action) == IF action = "stop" THEN "failed" ELSE "claimed"

(* operation_store.transition, or the refusal of a stale revision or of a  *)
(* status change the table does not have.                                  *)
Transition(h) ==
  LET r == requests[h]
      c == r.command
  IN  /\ At(h, "transition")
      /\ IF MayMove(c.op, Target(c.action), c.expected)
         THEN /\ Move(c.op, Target(c.action), r.note)
              /\ applied' = [applied EXCEPT ![r.key] = @ \cup {c}]
              /\ Advance(h, "append")
              /\ UNCHANGED refused
         ELSE /\ Refuse(r.key, c)
              /\ Finish(h)
              /\ UNCHANGED <<state, applied>>
      /\ UNCHANGED <<events, ledger, answers>>

(* event_store.append, which refuses an event id it already has.           *)
Append(h) ==
  /\ At(h, "append")
  /\ IF requests[h].command \in events
     THEN Finish(h) /\ UNCHANGED events
     ELSE Advance(h, "put") /\ events' = events \cup {requests[h].command}
  /\ UNCHANGED <<state, ledger, answers, applied, refused>>

(* Mutant: a key that is taken is taken over.                              *)
KeyTakenNever(k) == FALSE

KeyTaken(k) == ledger[k] # NoCommand

(* command_store.put, whose primary key refuses a key that is taken.       *)
Put(h) ==
  LET r == requests[h]
  IN  /\ At(h, "put")
      /\ IF KeyTaken(r.key)
         THEN UNCHANGED <<ledger, answers>>
         ELSE /\ ledger' = [ledger EXCEPT ![r.key] = r.command]
              /\ answers' = [answers EXCEPT ![r.key] = @ \cup {r.command}]
      /\ Finish(h)
      /\ UNCHANGED <<state, events, applied, refused>>

(* The API process dies; what was committed stays.                         *)
Crash ==
  /\ requests' = [h \in Handlers |-> Idle]
  /\ UNCHANGED <<state, events, ledger, answers, applied, refused>>

Next ==
  \/ \E h \in Handlers :
       \/ \E k \in Keys, c \in Command : Begin(h, k, c)
       \/ Read(h) \/ Transition(h) \/ Append(h) \/ Put(h)
  \/ \E o \in Operations, target \in Statuses : WorkerMoves(o, target)
  \/ Crash

Spec == Init /\ [][Next]_vars

-----------------------------------------------------------------------------
(* Properties.                                                             *)

Applied == UNION {applied[k] : k \in Keys}

(* Of all the commands given for one revision of an operation, under       *)
(* whatever keys and by however many threads, at most one takes effect,    *)
(* and the event log records no other for that revision.                   *)
OneWinnerPerRevision ==
  /\ events \subseteq Applied
  /\ \A c, d \in Applied : c.op = d.op /\ c.expected = d.expected => c = d

(* A client that was given a command's result can rely on it: the state    *)
(* has moved past the expected revision, the event is in the log, and the  *)
(* key will answer every later request with this command and no other.     *)
AnswerIsBacked ==
  \A k \in Keys : \A c \in answers[k] :
    state[c.op].revision > c.expected /\ c \in events /\ ledger[k] = c

(* A control writes back metadata older than what the worker has written   *)
(* since only for a client that named a revision ahead of the row its      *)
(* request read: whoever names the revision that was current by then, or   *)
(* an earlier one, loses nothing, although the metadata is read before the *)
(* transaction that writes it, and however many others move the operation. *)
NotesKept ==
  [][\A o \in Operations : state'[o].note < state[o].note =>
       \E h \in Handlers :
         /\ requests[h].pc = "transition" /\ requests'[h].pc = "append"
         /\ requests[h].command.op = o
         /\ requests[h].command.expected > requests[h].seen]_vars

(* "Typed, authorized, idempotent ... controls": a request that repeats a  *)
(* command under its key is not refused once that command took effect.     *)
RepeatIsNotRefused == ~refused
=============================================================================
