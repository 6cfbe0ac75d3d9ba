------------------------ MODULE RuntimeControlProofs ------------------------
(***************************************************************************)
(* Theorems about the runtime controls for any number of operations, keys  *)
(* and concurrent requests.                                                *)
(***************************************************************************)
EXTENDS RuntimeControl, TLAPS

(* A command that took effect took one revision for itself.                *)
WinnersInv ==
  /\ \A k \in Keys : \A c \in applied[k] : state[c.op].revision > c.expected
  /\ \A k, l \in Keys : \A c \in applied[k], d \in applied[l] :
       c.op = d.op /\ c.expected = d.expected => c = d

(* What a request has done so far is what its program counter says.        *)
ProgressInv ==
  /\ \A h \in Handlers :
       /\ requests[h].pc \in {"append", "put"} =>
            requests[h].command \in applied[requests[h].key]
       /\ requests[h].pc = "put" => requests[h].command \in events
  /\ \A c \in events : \E k \in Keys : c \in applied[k]
  /\ \A k \in Keys : ledger[k] # NoCommand => ledger[k] \in events
  /\ \A k \in Keys : \A c \in answers[k] : c \in events /\ ledger[k] = c

(* Metadata that was read is current as long as the row keeps the revision *)
(* it was read at.                                                         *)
NotesInv ==
  /\ \A o \in Operations : state[o].note <= state[o].revision
  /\ \A h \in Handlers : requests[h].pc = "transition" =>
       LET r == requests[h]
           row == state[r.command.op]
       IN  /\ r.note <= r.seen
           /\ r.seen <= row.revision
           /\ r.seen = row.revision => r.note = row.note

Inv == TypeOK /\ WinnersInv /\ ProgressInv /\ NotesInv

-----------------------------------------------------------------------------
LEMMA BusyRequest ==
  ASSUME TypeOK, NEW h \in Handlers, ~At(h, "idle")
  PROVE  /\ requests[h].key \in Keys
         /\ requests[h].command \in Command
         /\ requests[h].note \in 0..MaxRevision
         /\ requests[h].seen \in 0..MaxRevision /\ requests[h].seen \in Nat
         /\ requests[h] \in [pc : {"read", "transition", "append", "put"}, key : Keys,
                             command : Command, note : 0..MaxRevision, seen : 0..MaxRevision]
         /\ \A pc \in {"append", "put"} :
              [requests EXCEPT ![h].pc = pc] \in [Handlers -> Request]
         /\ [requests EXCEPT ![h] = Idle] \in [Handlers -> Request]
<1>1. requests[h] \in [pc : {"read", "transition", "append", "put"}, key : Keys,
                       command : Command, note : 0..MaxRevision, seen : 0..MaxRevision]
  BY DEF TypeOK, Request, Idle, At
<1>2. \A pc \in {"append", "put"} : [requests[h] EXCEPT !.pc = pc] \in Request
  BY <1>1 DEF Request
<1>3. requests[h].seen \in 0..MaxRevision /\ requests[h].seen \in Nat
  BY <1>1, ControlAssumption
<1>4. QED
  BY <1>1, <1>2, <1>3 DEF TypeOK, Request

LEMMA MoveType ==
  ASSUME TypeOK, NEW o \in Operations, NEW target \in Statuses, NEW note \in 0..MaxRevision,
         state[o].revision < MaxRevision, Move(o, target, note)
  PROVE  /\ state' \in [Operations -> OperationState]
         /\ state'[o].revision = state[o].revision + 1
         /\ state'[o].note = note
         /\ \A p \in Operations : p # o => state'[p] = state[p]
<1>1. state[o].revision + 1 \in 0..MaxRevision
  BY ControlAssumption DEF TypeOK, OperationState
<1>2. [status |-> target, revision |-> state[o].revision + 1, note |-> note] \in OperationState
  BY <1>1 DEF OperationState
<1>3. QED
  BY <1>2 DEF Move, TypeOK

LEMMA RevisionsAreNumbers ==
  ASSUME TypeOK, NEW o \in Operations
  PROVE  state[o].revision \in Nat /\ state[o].note \in Nat
  BY ControlAssumption DEF TypeOK, OperationState

LEMMA CommandParts ==
  ASSUME NEW c \in Command
  PROVE  /\ c.op \in Operations /\ c.expected \in 0..MaxRevision /\ c.expected \in Nat
         /\ Target(c.action) \in Statuses
  BY ControlAssumption DEF Command, Target, Statuses

LEMMA InitInv == Init => Inv
<1> SUFFICES ASSUME Init PROVE Inv
  OBVIOUS
<1>1. TypeOK
  <2>1. [status |-> "queued", revision |-> 0, note |-> 0] \in OperationState
    BY ControlAssumption DEF OperationState, Statuses
  <2>2. state \in [Operations -> OperationState]
    BY <2>1 DEF Init
  <2>3. events \subseteq Command /\ ledger \in [Keys -> Command \cup {NoCommand}]
        /\ requests \in [Handlers -> Request]
    BY DEF Init, Request
  <2>4. answers \in [Keys -> SUBSET Command] /\ applied \in [Keys -> SUBSET Command]
    BY DEF Init
  <2>5. refused \in BOOLEAN
    BY DEF Init
  <2>6. QED
    BY <2>2, <2>3, <2>4, <2>5 DEF TypeOK
<1>2. WinnersInv /\ ProgressInv /\ NotesInv
  BY DEF Init, WinnersInv, ProgressInv, NotesInv, Idle
<1>3. QED
  BY <1>1, <1>2 DEF Inv

-----------------------------------------------------------------------------
(* One lemma for each action.                                              *)

LEMMA WorkerStep ==
  ASSUME Inv, NEW o \in Operations, NEW target \in Statuses, WorkerMoves(o, target)
  PROVE  Inv'
<1> USE DEF Inv
<1>1. PICK note \in {state[o].note, state[o].revision + 1} : Move(o, target, note)
  BY DEF WorkerMoves
<1>2. note \in 0..MaxRevision /\ state[o].revision < MaxRevision
      /\ state[o].note <= note /\ note <= state[o].revision + 1
  BY RevisionsAreNumbers, ControlAssumption
     DEF WorkerMoves, MayMove, TypeOK, OperationState, NotesInv
<1>3. /\ state' \in [Operations -> OperationState]
      /\ state'[o].revision = state[o].revision + 1
      /\ state'[o].note = note
      /\ \A p \in Operations : p # o => state'[p] = state[p]
  BY <1>1, <1>2, MoveType
<1>4. UNCHANGED <<events, ledger, requests, answers, applied, refused>>
  BY DEF WorkerMoves
<1>5. TypeOK'
  BY <1>3, <1>4 DEF TypeOK
<1>6. \A p \in Operations : state'[p].revision >= state[p].revision
  BY <1>3, RevisionsAreNumbers
<1>7. WinnersInv'
  <2>1. \A k \in Keys : \A c \in applied[k] : c.op \in Operations /\ c.expected \in Nat
    BY CommandParts DEF TypeOK
  <2>2. \A k \in Keys : \A c \in applied[k] : state'[c.op].revision > c.expected
    BY <1>5, <1>6, <2>1, RevisionsAreNumbers DEF WinnersInv, TypeOK, OperationState
  <2>3. QED
    BY <1>4, <2>2 DEF WinnersInv
<1>8. ProgressInv'
  BY <1>4 DEF ProgressInv
<1>9. NotesInv'
  <2>1. ASSUME NEW h \in Handlers, requests[h].pc = "transition"
        PROVE  LET r == requests[h]
                   row == state'[r.command.op]
               IN  /\ r.note <= r.seen
                   /\ r.seen <= row.revision
                   /\ r.seen = row.revision => r.note = row.note
    <3> DEFINE r == requests[h]
    <3>1. r.command \in Command /\ r.seen \in Nat
      BY <2>1, BusyRequest DEF At
    <3>2. r.command.op \in Operations
      BY <3>1, CommandParts
    <3>3. /\ r.note <= r.seen
          /\ r.seen <= state[r.command.op].revision
          /\ r.seen = state[r.command.op].revision => r.note = state[r.command.op].note
      BY <2>1 DEF NotesInv
    <3>4. CASE r.command.op = o
      BY <1>3, <3>1, <3>3, <3>4, RevisionsAreNumbers
    <3>5. CASE r.command.op # o
      BY <1>3, <3>2, <3>3, <3>5
    <3>6. QED
      BY <3>4, <3>5
  <2>2. \A p \in Operations : state'[p].note <= state'[p].revision
    BY <1>2, <1>3, RevisionsAreNumbers DEF NotesInv
  <2>3. QED
    BY <1>4, <2>1, <2>2 DEF NotesInv
<1>10. QED
  BY <1>5, <1>7, <1>8, <1>9

LEMMA BeginStep ==
  ASSUME Inv, NEW h \in Handlers, NEW k \in Keys, NEW c \in Command, Begin(h, k, c)
  PROVE  Inv'
<1> USE DEF Inv
<1> DEFINE r == [pc |-> "read", key |-> k, command |-> c, note |-> 0,
                  seen |-> 0]
<1>1. UNCHANGED <<state, events, ledger, applied>> /\ refused' \in BOOLEAN
  BY DEF Begin, Refuse, TypeOK
<1>2. r \in Request
  BY ControlAssumption DEF Request
<1>3. requests' = [requests EXCEPT ![h] = r] \/ requests' = requests
  BY DEF Begin
<1>4. \/ answers' = answers
      \/ /\ ledger[k] = c /\ ledger[k] # NoCommand
         /\ answers' = [answers EXCEPT ![k] = answers[k] \cup {c}]
  <2>1. CASE ledger[k] = NoCommand
    BY <2>1, Zenon DEF Begin
  <2>2. CASE ledger[k] # NoCommand /\ ledger[k] = c
    BY <2>2, Zenon DEF Begin
  <2>3. CASE ledger[k] # NoCommand /\ ledger[k] # c
    BY <2>3, Zenon DEF Begin
  <2>4. QED
    BY <2>1, <2>2, <2>3
<1>5. TypeOK'
  BY <1>1, <1>2, <1>3, <1>4 DEF TypeOK
<1>6. WinnersInv'
  BY <1>1 DEF WinnersInv
<1>7. \A i \in Handlers : requests'[i] = requests[i] \/ requests'[i] = r
  BY <1>3 DEF TypeOK
<1>8. \A l \in Keys : \A d \in answers'[l] :
        d \in answers[l] \/ (d = ledger[l] /\ ledger[l] # NoCommand)
  <2>1. CASE answers' = answers
    BY <2>1
  <2>2. CASE /\ ledger[k] = c /\ ledger[k] # NoCommand
             /\ answers' = [answers EXCEPT ![k] = answers[k] \cup {c}]
    <3>1. \A l \in Keys : answers'[l] = IF l = k THEN answers[k] \cup {c} ELSE answers[l]
      BY <2>2 DEF TypeOK
    <3>2. QED
      BY <2>2, <3>1
  <2>3. QED
    BY <1>4, <2>1, <2>2
<1>9. ProgressInv'
  <2>1. \A i \in Handlers : requests'[i].pc \in {"append", "put"} => requests'[i] = requests[i]
    BY <1>7
  <2>2. \A i \in Handlers :
          /\ requests'[i].pc \in {"append", "put"} =>
               requests'[i].command \in applied[requests'[i].key]
          /\ requests'[i].pc = "put" => requests'[i].command \in events
    BY <2>1 DEF ProgressInv
  <2>3. \A l \in Keys : \A d \in answers'[l] : d \in events /\ ledger[l] = d
    BY <1>8 DEF ProgressInv
  <2>4. QED
    BY <1>1, <2>2, <2>3 DEF ProgressInv
<1>10. NotesInv'
  BY <1>1, <1>7 DEF NotesInv
<1>11. QED
  BY <1>5, <1>6, <1>9, <1>10

LEMMA ReadStep ==
  ASSUME Inv, NEW h \in Handlers, Read(h)
  PROVE  Inv'
<1> USE DEF Inv
<1> DEFINE row == state[requests[h].command.op]
           r == [requests[h] EXCEPT !.pc = "transition", !.note = row.note,
                                    !.seen = row.revision]
<1>1. UNCHANGED <<state, events, ledger, answers, applied, refused>>
  BY DEF Read
<1>2. /\ requests[h] \in [pc : {"read", "transition", "append", "put"}, key : Keys,
                          command : Command, note : 0..MaxRevision, seen : 0..MaxRevision]
      /\ requests[h].pc = "read"
      /\ requests[h].command.op \in Operations
  BY BusyRequest, CommandParts DEF Read, At
<1>3. row.note \in 0..MaxRevision /\ row.revision \in 0..MaxRevision
  BY <1>2 DEF TypeOK, OperationState
<1>4. /\ r \in Request /\ r.pc = "transition" /\ r.command = requests[h].command
      /\ r.note = row.note /\ r.seen = row.revision
  BY <1>2, <1>3 DEF Request
<1>5. requests' = [requests EXCEPT ![h] = r]
  BY <1>2 DEF Read, TypeOK
<1>6. row.note <= row.revision
  BY <1>2 DEF NotesInv
<1>7. r.seen <= row.revision
  BY <1>3, <1>4
<1> HIDE DEF r
<1>8. TypeOK'
  BY <1>1, <1>4, <1>5 DEF TypeOK
<1>9. \A i \in Handlers : requests'[i] = IF i = h THEN r ELSE requests[i]
  BY <1>5 DEF TypeOK
<1>10. WinnersInv' /\ ProgressInv'
  BY <1>1, <1>4, <1>9 DEF WinnersInv, ProgressInv
<1>11. NotesInv'
  BY <1>1, <1>4, <1>6, <1>7, <1>9 DEF NotesInv
<1>12. QED
  BY <1>8, <1>10, <1>11

(* To end a request disturbs nothing the invariant says of the others.     *)
LEMMA FinishedRequest ==
  ASSUME Inv, NEW h \in Handlers, TypeOK', requests' = [requests EXCEPT ![h] = Idle],
         UNCHANGED <<state, events, ledger, answers, applied>>
  PROVE  Inv'
<1>1. \A i \in Handlers : requests'[i] = requests[i] \/ requests'[i].pc = "idle"
  BY DEF Inv, TypeOK, Idle
<1>2. WinnersInv' /\ ProgressInv' /\ NotesInv'
  BY <1>1 DEF Inv, WinnersInv, ProgressInv, NotesInv
<1>3. QED
  BY <1>2 DEF Inv

LEMMA TransitionStep ==
  ASSUME Inv, NEW h \in Handlers, Transition(h)
  PROVE  Inv'
<1> USE DEF Inv
<1> DEFINE r == requests[h]
           c == r.command
<1>1. /\ r.key \in Keys /\ c \in Command /\ r.note \in 0..MaxRevision
      /\ [requests EXCEPT ![h].pc = "append"] \in [Handlers -> Request]
      /\ [requests EXCEPT ![h] = Idle] \in [Handlers -> Request]
      /\ r \in [pc : {"read", "transition", "append", "put"}, key : Keys,
                 command : Command, note : 0..MaxRevision, seen : 0..MaxRevision]
      /\ r.pc = "transition" /\ r.seen \in 0..MaxRevision
  BY BusyRequest DEF Transition, At
<1>2. UNCHANGED <<events, ledger, answers>>
  BY DEF Transition
<1>3. CASE MayMove(c.op, Target(c.action), c.expected)
  <2>1. /\ Move(c.op, Target(c.action), r.note)
        /\ applied' = [applied EXCEPT ![r.key] = @ \cup {c}]
        /\ requests' = [requests EXCEPT ![h].pc = "append"]
        /\ refused' = refused
    BY <1>3 DEF Transition, Advance
  <2>2. state[c.op].revision = c.expected /\ state[c.op].revision < MaxRevision
    BY <1>3 DEF MayMove
  <2>3. /\ c.op \in Operations /\ Target(c.action) \in Statuses /\ c.expected \in Nat
    BY <1>1, CommandParts
  <2>4. /\ state' \in [Operations -> OperationState]
        /\ state'[c.op].revision = state[c.op].revision + 1
        /\ state'[c.op].note = r.note
        /\ \A p \in Operations : p # c.op => state'[p] = state[p]
    BY <1>1, <2>1, <2>2, <2>3, MoveType
  <2>5. r.note <= state[c.op].revision
    BY <1>1, <2>3, RevisionsAreNumbers DEF NotesInv
  <2>6. applied' \in [Keys -> SUBSET Command]
    BY <1>1, <2>1 DEF TypeOK
  <2>7. TypeOK'
    BY <1>1, <1>2, <2>1, <2>4, <2>6 DEF TypeOK
  <2>8. \A k \in Keys : applied'[k] = IF k = r.key THEN applied[k] \cup {c} ELSE applied[k]
    BY <1>1, <2>1 DEF TypeOK
  <2>9. \A i \in Handlers : i # h => requests'[i] = requests[i]
    BY <2>1 DEF TypeOK
  <2>10. requests'[h] = [r EXCEPT !.pc = "append"]
    BY <2>1 DEF TypeOK
  <2>11. requests'[h].pc = "append" /\ requests'[h].command = c /\ requests'[h].key = r.key
    BY <1>1, <2>10
  <2> HIDE DEF r, c
  <2>12. \A k \in Keys : \A d \in applied[k] :
           /\ d.op \in Operations /\ d.expected \in Nat
           /\ state[d.op].revision > d.expected
    BY CommandParts DEF TypeOK, WinnersInv
  <2>13. WinnersInv'
    <3>1. \A p \in Operations : state'[p].revision >= state[p].revision
      BY <2>4, RevisionsAreNumbers
    <3>2. \A k \in Keys : \A d \in applied'[k] :
            /\ d.op \in Operations /\ d.expected \in Nat
            /\ d \in applied[k] \/ d = c
      BY <2>3, <2>8, <2>12
    <3>3. \A k \in Keys : \A d \in applied'[k] : state'[d.op].revision > d.expected
      <4> SUFFICES ASSUME NEW k \in Keys, NEW d \in applied'[k]
                   PROVE  state'[d.op].revision > d.expected
        OBVIOUS
      <4>1. CASE d \in applied[k]
        BY <2>7, <2>12, <3>1, <3>2, <4>1, RevisionsAreNumbers DEF TypeOK, OperationState
      <4>2. CASE d = c
        BY <2>2, <2>3, <2>4, <4>2
      <4>3. QED
        BY <3>2, <4>1, <4>2
    <3>4. \A k \in Keys : \A d \in applied[k] : d.op = c.op => d.expected # c.expected
      BY <2>2, <2>3, <2>12
    <3>5. \A k, l \in Keys : \A d \in applied'[k], e \in applied'[l] :
            d.op = e.op /\ d.expected = e.expected => d = e
      <4> SUFFICES ASSUME NEW k \in Keys, NEW l \in Keys,
                          NEW d \in applied'[k], NEW e \in applied'[l],
                          d.op = e.op, d.expected = e.expected
                   PROVE  d = e
        OBVIOUS
      <4>1. d \in applied[k] \/ d = c
        BY <3>2
      <4>2. e \in applied[l] \/ e = c
        BY <3>2
      <4>3. CASE d \in applied[k] /\ e \in applied[l]
        BY <4>3 DEF WinnersInv
      <4>4. QED
        BY <3>4, <4>1, <4>2, <4>3
    <3>6. QED
      BY <3>3, <3>5 DEF WinnersInv
  <2>14. ProgressInv'
    <3>1. \A k \in Keys : \A d \in applied[k] : d \in applied'[k]
      BY <2>8
    <3>2. \A i \in Handlers :
            /\ requests'[i].pc \in {"append", "put"} =>
                 requests'[i].command \in applied'[requests'[i].key]
            /\ requests'[i].pc = "put" => requests'[i].command \in events
      <4> SUFFICES ASSUME NEW i \in Handlers
                   PROVE  /\ requests'[i].pc \in {"append", "put"} =>
                               requests'[i].command \in applied'[requests'[i].key]
                          /\ requests'[i].pc = "put" => requests'[i].command \in events
        OBVIOUS
      <4>1. CASE i = h
        BY <1>1, <2>8, <2>11, <4>1
      <4>2. CASE i # h
        <5>1. requests[i].pc \in {"append", "put"} => requests[i].key \in Keys
          BY BusyRequest DEF At
        <5>2. QED
          BY <2>9, <3>1, <4>2, <5>1 DEF ProgressInv
      <4>3. QED
        BY <4>1, <4>2
    <3>3. \A d \in events : \E k \in Keys : d \in applied'[k]
      BY <3>1 DEF ProgressInv
    <3>4. QED
      BY <1>2, <3>2, <3>3 DEF ProgressInv
  <2>15. NotesInv'
    <3>1. \A p \in Operations : state'[p].note <= state'[p].revision
      BY <1>1, <2>3, <2>4, <2>5, RevisionsAreNumbers DEF NotesInv
    <3>2. ASSUME NEW i \in Handlers, requests'[i].pc = "transition"
          PROVE  LET q == requests'[i]
                     row == state'[q.command.op]
                 IN  /\ q.note <= q.seen
                     /\ q.seen <= row.revision
                     /\ q.seen = row.revision => q.note = row.note
      <4> DEFINE q == requests[i]
      <4>1. requests'[i] = q /\ i # h
        BY <2>9, <2>11, <3>2
      <4>2. q.command \in Command /\ q.seen \in Nat
        BY <3>2, <4>1, BusyRequest DEF At
      <4>3. q.command.op \in Operations
        BY <4>2, CommandParts
      <4>4. /\ q.note <= q.seen
            /\ q.seen <= state[q.command.op].revision
            /\ q.seen = state[q.command.op].revision => q.note = state[q.command.op].note
        BY <3>2, <4>1 DEF NotesInv
      <4>5. CASE q.command.op = c.op
        BY <2>3, <2>4, <4>1, <4>2, <4>4, <4>5, RevisionsAreNumbers
      <4>6. CASE q.command.op # c.op
        BY <2>4, <4>1, <4>3, <4>4, <4>6
      <4>7. QED
        BY <4>5, <4>6
    <3>3. QED
      BY <3>1, <3>2 DEF NotesInv
  <2>16. QED
    BY <2>7, <2>13, <2>14, <2>15
<1>4. CASE ~MayMove(c.op, Target(c.action), c.expected)
  <2>1. requests' = [requests EXCEPT ![h] = Idle] /\ UNCHANGED <<state, applied>>
        /\ Refuse(r.key, c)
    BY <1>4 DEF Transition, Finish
  <2>2. refused' \in BOOLEAN
    BY <2>1 DEF Refuse, TypeOK
  <2>3. TypeOK'
    BY <1>1, <1>2, <2>1, <2>2 DEF TypeOK
  <2>4. QED
    BY <1>2, <2>1, <2>3, FinishedRequest
<1>5. QED
  BY <1>3, <1>4

LEMMA AppendStep ==
  ASSUME Inv, NEW h \in Handlers, Append(h)
  PROVE  Inv'
<1> DEFINE r == requests[h]
<1>1. /\ r.key \in Keys /\ r.command \in Command /\ r.pc = "append"
      /\ [requests EXCEPT ![h].pc = "put"] \in [Handlers -> Request]
      /\ [requests EXCEPT ![h] = Idle] \in [Handlers -> Request]
      /\ r \in [pc : {"read", "transition", "append", "put"}, key : Keys,
                 command : Command, note : 0..MaxRevision, seen : 0..MaxRevision]
  BY BusyRequest DEF Append, At, Inv
<1>2. UNCHANGED <<state, ledger, answers, applied, refused>>
  BY DEF Append
<1>3. CASE r.command \in events
  <2>1. requests' = [requests EXCEPT ![h] = Idle] /\ events' = events
    BY <1>3 DEF Append, Finish
  <2>2. TypeOK'
    BY <1>1, <1>2, <2>1 DEF Inv, TypeOK
  <2>3. QED
    BY <1>2, <2>1, <2>2, FinishedRequest
<1>4. CASE r.command \notin events
  <2>1. requests' = [requests EXCEPT ![h].pc = "put"] /\ events' = events \cup {r.command}
    BY <1>4 DEF Append, Advance
  <2>2. TypeOK'
    BY <1>1, <1>2, <2>1 DEF Inv, TypeOK
  <2>3. \A i \in Handlers : i # h => requests'[i] = requests[i]
    BY <2>1 DEF Inv, TypeOK
  <2>4. requests'[h] = [r EXCEPT !.pc = "put"]
    BY <2>1 DEF Inv, TypeOK
  <2>5. requests'[h].pc = "put" /\ requests'[h].command = r.command /\ requests'[h].key = r.key
    BY <1>1, <2>4
  <2>6. r.command \in applied[r.key]
    BY <1>1 DEF Inv, ProgressInv
  <2> HIDE DEF r
  <2>7. WinnersInv'
    BY <1>2 DEF Inv, WinnersInv
  <2>8. ProgressInv'
    <3>1. ASSUME NEW i \in Handlers
          PROVE  /\ requests'[i].pc \in {"append", "put"} =>
                      requests'[i].command \in applied[requests'[i].key]
                 /\ requests'[i].pc = "put" => requests'[i].command \in events'
      <4>1. CASE i = h
        BY <2>1, <2>5, <2>6, <4>1
      <4>2. CASE i # h
        BY <2>1, <2>3, <4>2 DEF Inv, ProgressInv
      <4>3. QED
        BY <4>1, <4>2
    <3>2. \A d \in events' : \E k \in Keys : d \in applied[k]
      BY <1>1, <2>1, <2>6 DEF Inv, ProgressInv
    <3>3. QED
      BY <1>2, <2>1, <3>1, <3>2 DEF Inv, ProgressInv
  <2>9. NotesInv'
    <3>1. \A i \in Handlers : requests'[i].pc = "transition" => requests'[i] = requests[i]
      BY <2>3, <2>5
    <3>2. QED
      BY <1>2, <3>1 DEF Inv, NotesInv
  <2>10. QED
    BY <2>2, <2>7, <2>8, <2>9 DEF Inv
<1>5. QED
  BY <1>3, <1>4

LEMMA PutStep ==
  ASSUME Inv, NEW h \in Handlers, Put(h)
  PROVE  Inv'
<1> DEFINE r == requests[h]
<1>1. /\ r.key \in Keys /\ r.command \in Command /\ r.pc = "put"
      /\ [requests EXCEPT ![h] = Idle] \in [Handlers -> Request]
  BY BusyRequest DEF Put, At, Inv
<1>2. UNCHANGED <<state, events, applied, refused>> /\ requests' = [requests EXCEPT ![h] = Idle]
  BY DEF Put, Finish
<1>3. CASE KeyTaken(r.key)
  <2>1. UNCHANGED <<ledger, answers>>
    BY <1>3 DEF Put
  <2>2. TypeOK'
    BY <1>1, <1>2, <2>1 DEF Inv, TypeOK
  <2>3. QED
    BY <1>2, <2>1, <2>2, FinishedRequest
<1>4. CASE ~KeyTaken(r.key)
  <2>1. /\ ledger' = [ledger EXCEPT ![r.key] = r.command]
        /\ answers' = [answers EXCEPT ![r.key] = answers[r.key] \cup {r.command}]
        /\ ledger[r.key] = NoCommand
    BY <1>4 DEF Put, KeyTaken
  <2>2. r.command \in events
    BY <1>1 DEF Inv, ProgressInv
  <2> HIDE DEF r
  <2>3. \A k \in Keys :
          /\ ledger'[k] = IF k = r.key THEN r.command ELSE ledger[k]
          /\ answers'[k] = IF k = r.key THEN answers[k] \cup {r.command} ELSE answers[k]
    BY <1>1, <2>1 DEF Inv, TypeOK
  <2>4. \A k \in Keys : \A c \in answers[k] : c \in Command /\ c \in events /\ ledger[k] = c
    BY DEF Inv, ProgressInv, TypeOK
  <2>5. answers[r.key] = {}
    BY <1>1, <2>1, <2>4, ControlAssumption
  <2>6. TypeOK'
    BY <1>1, <1>2, <2>1 DEF Inv, TypeOK
  <2>7. \A i \in Handlers : requests'[i] = requests[i] \/ requests'[i].pc = "idle"
    BY <1>2 DEF Inv, TypeOK, Idle
  <2>8. WinnersInv' /\ NotesInv'
    BY <1>2, <2>7 DEF Inv, WinnersInv, NotesInv
  <2>9. ProgressInv'
    <3>1. \A k \in Keys : \A c \in answers'[k] : c \in events /\ ledger'[k] = c
      <4> SUFFICES ASSUME NEW k \in Keys, NEW c \in answers'[k]
                   PROVE  c \in events /\ ledger'[k] = c
        OBVIOUS
      <4>1. CASE k = r.key
        BY <2>2, <2>3, <2>5, <4>1
      <4>2. CASE k # r.key
        BY <2>3, <2>4, <4>2
      <4>3. QED
        BY <4>1, <4>2
    <3>2. \A k \in Keys : ledger'[k] # NoCommand => ledger'[k] \in events
      BY <2>2, <2>3 DEF Inv, ProgressInv
    <3>3. QED
      BY <1>2, <2>7, <3>1, <3>2 DEF Inv, ProgressInv
  <2>10. QED
    BY <2>6, <2>8, <2>9 DEF Inv
<1>5. QED
  BY <1>3, <1>4

LEMMA CrashStep ==
  ASSUME Inv, Crash
  PROVE  Inv'
<1>1. /\ UNCHANGED <<state, events, ledger, answers, applied, refused>>
      /\ \A h \in Handlers : requests'[h].pc = "idle"
      /\ requests' \in [Handlers -> Request]
  BY DEF Crash, Idle, Request
<1>2. QED
  BY <1>1 DEF Inv, TypeOK, WinnersInv, ProgressInv, NotesInv

LEMMA StutterStep ==
  ASSUME Inv, UNCHANGED vars
  PROVE  Inv'
BY DEF Inv, TypeOK, WinnersInv, ProgressInv, NotesInv, vars

(* One step of the whole system.                                           *)
LEMMA NextInv == Inv /\ [Next]_vars => Inv'
<1> SUFFICES ASSUME Inv, [Next]_vars PROVE Inv'
  OBVIOUS
<1>1. ASSUME NEW h \in Handlers,
             \/ \E k \in Keys, c \in Command : Begin(h, k, c)
             \/ Read(h) \/ Transition(h) \/ Append(h) \/ Put(h)
      PROVE  Inv'
  BY <1>1, BeginStep, ReadStep, TransitionStep, AppendStep, PutStep
<1>2. ASSUME NEW o \in Operations, NEW target \in Statuses, WorkerMoves(o, target)
      PROVE  Inv'
  BY <1>2, WorkerStep
<1>3. QED
  BY <1>1, <1>2, CrashStep, StutterStep DEF Next

-----------------------------------------------------------------------------
THEOREM InvHolds == Spec => []Inv
BY InitInv, NextInv, PTL DEF Spec

(* The controls keep the types of the tables and of the requests.          *)
THEOREM TypeCorrect == Spec => []TypeOK
<1>1. Inv => TypeOK
  BY DEF Inv
<1>2. QED
  BY <1>1, InvHolds, PTL

(* Of the commands for one revision at most one takes effect, however many *)
(* requests run at a time and whichever of them dies between two of the    *)
(* databases.                                                              *)
THEOREM OneWinner == Spec => []OneWinnerPerRevision
<1>1. Inv => OneWinnerPerRevision
  <2> SUFFICES ASSUME Inv PROVE OneWinnerPerRevision
    OBVIOUS
  <2>1. \A c \in Applied : \E k \in Keys : c \in applied[k]
    BY DEF Applied
  <2>2. \A c \in events : c \in Applied
    BY DEF Inv, ProgressInv, Applied
  <2>3. \A c, d \in Applied : c.op = d.op /\ c.expected = d.expected => c = d
    BY <2>1 DEF Inv, WinnersInv
  <2>4. QED
    BY <2>2, <2>3 DEF OneWinnerPerRevision
<1>2. QED
  BY <1>1, InvHolds, PTL

(* What a client was answered is in the state, the log and the ledger.     *)
THEOREM AnswersBacked == Spec => []AnswerIsBacked
<1>1. Inv => AnswerIsBacked
  <2> SUFFICES ASSUME Inv, NEW k \in Keys, NEW c \in answers[k]
               PROVE  state[c.op].revision > c.expected /\ c \in events /\ ledger[k] = c
    BY DEF AnswerIsBacked
  <2>1. c \in events /\ ledger[k] = c
    BY DEF Inv, ProgressInv
  <2>2. PICK l \in Keys : c \in applied[l]
    BY <2>1 DEF Inv, ProgressInv
  <2>3. state[c.op].revision > c.expected
    BY <2>2 DEF Inv, WinnersInv
  <2>4. QED
    BY <2>1, <2>3
<1>2. QED
  BY <1>1, InvHolds, PTL

(* No step takes the worker's metadata back to what it was before, except  *)
(* the command of a client that named a revision its request had not seen  *)
(* reached.                                                                *)
THEOREM NotesAreKept == Spec => NotesKept
<1> DEFINE Ahead(o) == \E h \in Handlers :
             /\ requests[h].pc = "transition" /\ requests'[h].pc = "append"
             /\ requests[h].command.op = o
             /\ requests[h].command.expected > requests[h].seen
<1>1. ASSUME Inv, Next, NEW o \in Operations, state'[o].note < state[o].note
      PROVE  Ahead(o)
  <2> USE <1>1 DEF Inv
  <2>1. state' # state
    BY RevisionsAreNumbers
  <2>2. ASSUME NEW p \in Operations, NEW target \in Statuses, WorkerMoves(p, target)
        PROVE  FALSE
    <3>1. PICK note \in {state[p].note, state[p].revision + 1} : Move(p, target, note)
      BY <2>2 DEF WorkerMoves
    <3>2. state[p].note <= note
      BY <3>1, RevisionsAreNumbers DEF NotesInv
    <3>3. state'[o].note = IF o = p THEN note ELSE state[o].note
      BY <3>1 DEF Move, TypeOK
    <3>4. QED
      BY <3>1, <3>2, <3>3, RevisionsAreNumbers
  <2>3. ASSUME NEW h \in Handlers, Transition(h)
        PROVE  Ahead(o)
    <3> DEFINE r == requests[h]
               c == r.command
    <3>1. /\ Move(c.op, Target(c.action), r.note)
          /\ requests' = [requests EXCEPT ![h].pc = "append"]
          /\ state[c.op].revision = c.expected
          /\ r.pc = "transition"
      BY <2>1, <2>3 DEF Transition, MayMove, Advance, At
    <3>2. /\ c.op \in Operations /\ c.expected \in Nat /\ r.seen \in Nat
          /\ r \in [pc : {"read", "transition", "append", "put"}, key : Keys,
                     command : Command, note : 0..MaxRevision, seen : 0..MaxRevision]
      BY <3>1, BusyRequest, CommandParts DEF At
    <3>3. requests'[h].pc = "append"
      BY <3>1, <3>2 DEF TypeOK
    <3>4. state'[o].note = IF o = c.op THEN r.note ELSE state[o].note
      BY <3>1, <3>2 DEF Move, TypeOK
    <3>5. c.op = o /\ r.note < state[o].note
      BY <3>4, RevisionsAreNumbers
    <3>6. r.seen <= c.expected /\ r.seen # c.expected
      BY <3>1, <3>5, RevisionsAreNumbers DEF NotesInv
    <3>7. QED
      BY <3>1, <3>2, <3>3, <3>5, <3>6
  <2>4. QED
    BY <2>1, <2>2, <2>3 DEF Next, Begin, Read, Append, Put, Crash
<1>2. Inv /\ [Next]_vars =>
        [\A o \in Operations : state'[o].note < state[o].note => Ahead(o)]_vars
  BY <1>1
<1>3. QED
  BY <1>2, InvHolds, PTL DEF Spec, NotesKept

=============================================================================
