----------------------------- MODULE ChatAdapter -----------------------------
(***************************************************************************)
(* The Python ChatGPTAdapter as a client of the bridge: it queues an        *)
(* operation, waits for it by polling, looks for the answer in the          *)
(* browser's last response observation when the operation carries none, and *)
(* gives up after a time.  The bridge and the browser are seen from outside:*)
(* an operation moves, its answer is observed, stored and acknowledged, in  *)
(* any order the queue allows, and any of it may be lost.                   *)
(***************************************************************************)
EXTENDS Naturals, FiniteSets

CONSTANTS
    ChatSessions,          \* ChatGPTAdapter objects
    Prompts,
    NewChat,               \* the operation of new_session, which has no prompt
    MaxChatOps,            \* bound: operations of one history
    ReadAttempts,          \* OPERATION_READ_RETRY_ATTEMPTS
    ObservationAttempts,   \* BROWSER_RESPONSE_RECHECK_ATTEMPTS
    RecheckAttempts,       \* COMPLETED_RESPONSE_RECHECK_ATTEMPTS
    NoObservation

ASSUME ChatAssumption ==
    /\ {ReadAttempts, ObservationAttempts} \subseteq Nat \ {0}
    /\ {RecheckAttempts, MaxChatOps} \subseteq Nat
    /\ NoObservation \notin 1..MaxChatOps

VARIABLES
    chatOps,      \* the bridge's operations, by number
    observation,  \* its last response observation: the operation it is bound to
    chat,         \* session -> its adapter's call
    returned      \* history: the AIResponses the adapters returned

chatVars == <<chatOps, observation, chat, returned>>

OpIds == DOMAIN chatOps
Unfinished == {"queued", "generating"}
Call(stage, o) == [stage |-> stage, op |-> o, failures |-> 0, looks |-> 0, rechecks |-> 0,
                  seen |-> [completion |-> "none", text |-> 0, lost |-> FALSE]]
Quiet == Call("quiet", 0)
Move(s, state) == chat' = [chat EXCEPT ![s] = state]

ChatInit ==
    /\ chatOps = <<>>
    /\ observation = NoObservation
    /\ chat = [s \in ChatSessions |-> Quiet]
    /\ returned = {}

---------------------------------------------------------------------------
(* The bridge and the browser.  The answer to operation o is written o.     *)
BridgeGenerates(o) ==
    /\ chatOps[o].status = "queued"
    /\ chatOps' = [chatOps EXCEPT ![o].status = "generating"]
    /\ UNCHANGED <<observation, chat, returned>>

BrowserAnswers(o) ==
    /\ chatOps[o].status = "generating"
    /\ chatOps[o].what # NewChat
    /\ observation' = o
    /\ chatOps' = [chatOps EXCEPT ![o].answered = TRUE]
    /\ UNCHANGED <<chat, returned>>

BridgeStoresAnswer(o) ==
    /\ chatOps[o].answered
    /\ chatOps[o].text = 0
    /\ chatOps' = [chatOps EXCEPT ![o].text = o]
    /\ UNCHANGED <<observation, chat, returned>>

BridgeCompletes(o) ==
    /\ chatOps[o].status = "generating"
    /\ chatOps[o].answered \/ chatOps[o].what = NewChat
    /\ chatOps' = [chatOps EXCEPT ![o].status = "completed"]
    /\ UNCHANGED <<observation, chat, returned>>

(* A failure that says the acknowledgement of a completion was lost, or any other. *)
BridgeFails(o, lost) ==
    /\ chatOps[o].status \in Unfinished
    /\ lost => chatOps[o].answered
    /\ chatOps' = [chatOps EXCEPT ![o].status = "failed", ![o].lost = lost]
    /\ UNCHANGED <<observation, chat, returned>>

---------------------------------------------------------------------------
(* _queue under the key of session and prompt: the unfinished operation     *)
(* with that key, or a new one.  The answer to the POST may be lost.        *)
Queue(s, what, answered) ==
    LET same == {o \in OpIds : /\ chatOps[o].status \in Unfinished
                               /\ what # NewChat
                               /\ chatOps[o].session = s /\ chatOps[o].what = what}
        o == IF same = {} THEN Cardinality(OpIds) + 1 ELSE CHOOSE p \in same : TRUE
    IN
    /\ chat[s].stage = "quiet"
    /\ o <= MaxChatOps
    /\ chatOps' = IF same # {} THEN chatOps
                  ELSE [p \in OpIds \cup {o} |->
                           IF p = o THEN [session |-> s, what |-> what, status |-> "queued",
                                          answered |-> FALSE, text |-> 0, lost |-> FALSE]
                           ELSE chatOps[p]]
    /\ Move(s, IF answered THEN Call("waiting", o) ELSE Quiet)
    /\ UNCHANGED <<observation, returned>>

(* completion_from_operation. *)
Completion(op) ==
    CASE op.status = "failed" -> "error"
      [] op.status = "completed" -> "complete"
      [] op.status = "generating" /\ op.text # 0 -> "complete"
      [] op.status \in Unfinished /\ ~ (op.status = "generating" /\ op.text # 0) -> "generating"

(* A prompt's operation without text sends the adapter to the observation,  *)
(* when it is complete or only its acknowledgement was lost.                *)
ShouldLook(op) ==
    op.what # NewChat /\ op.text = 0 /\ (Completion(op) = "complete" \/ op.lost)

Return(s, completion, text) ==
    /\ returned' = returned \cup {[op |-> chat[s].op, completion |-> completion, text |-> text]}
    /\ Move(s, Quiet)

Recheck(s) == chat[s].rechecks > 0

(* What wait_for_completion and _recheck_completed_response do with a       *)
(* response once it is made.                                                *)
Settle(s, completion, text) ==
    LET what == chatOps[chat[s].op].what IN
    CASE completion = "generating" /\ ~ Recheck(s) ->
            Move(s, Call("waiting", chat[s].op)) /\ UNCHANGED returned
      [] /\ completion = "complete" /\ text = 0 /\ what # NewChat
         /\ chat[s].rechecks < RecheckAttempts ->
            /\ Move(s, [Call("waiting", chat[s].op) EXCEPT !.rechecks = chat[s].rechecks + 1])
            /\ UNCHANGED returned
      [] OTHER -> Return(s, completion, text)

(* One GET /operation that is answered. *)
Poll(s) ==
    /\ chat[s].stage = "waiting"
    /\ LET op == chatOps[chat[s].op] IN
         IF ShouldLook(op)
         THEN /\ Move(s, [chat[s] EXCEPT !.stage = "looking", !.failures = 0, !.looks = 0,
                            !.seen = [completion |-> Completion(op), text |-> 0,
                                      lost |-> op.lost]])
              /\ UNCHANGED returned
         ELSE Settle(s, Completion(op), op.text)
    /\ UNCHANGED <<chatOps, observation>>

(* One that fails: the wait raises after so many in a row; a recheck counts *)
(* it and goes on.                                                          *)
PollFails(s) ==
    /\ chat[s].stage = "waiting"
    /\ IF Recheck(s)
       THEN IF chat[s].rechecks < RecheckAttempts
            THEN Move(s, [chat[s] EXCEPT !.rechecks = @ + 1]) /\ UNCHANGED returned
            ELSE Return(s, "complete", 0)
       ELSE /\ Move(s, IF chat[s].failures + 1 >= ReadAttempts THEN Quiet
                       ELSE [chat[s] EXCEPT !.failures = @ + 1])
            /\ UNCHANGED returned
    /\ UNCHANGED <<chatOps, observation>>

(* The observation names the operation; to the mutant any will do. *)
BoundToAny(o, op) == o # NoObservation
Bound(o, op) == o = op

(* One GET /browser/response, answered or not: only an observation bound to *)
(* the operation counts, and it makes a lost acknowledgement good.          *)
Look(s, readable) ==
    /\ chat[s].stage = "looking"
    /\ LET seen == chat[s].seen IN
         IF readable /\ Bound(observation, chat[s].op)
         THEN Settle(s, IF seen.lost THEN "complete" ELSE seen.completion, observation)
         ELSE IF chat[s].looks + 1 < ObservationAttempts
         THEN Move(s, [chat[s] EXCEPT !.looks = @ + 1]) /\ UNCHANGED returned
         ELSE Settle(s, seen.completion, 0)
    /\ UNCHANGED <<chatOps, observation>>

(* The wait is over: the adapter asks for a cancellation, at a path the     *)
(* bridge does not serve, and says timeout.  The operation goes on.         *)
TimeOut(s) ==
    /\ chat[s].stage = "waiting"
    /\ ~ Recheck(s)
    /\ Return(s, "timeout", 0)
    /\ UNCHANGED <<chatOps, observation>>

ChatNext ==
    \/ \E o \in OpIds :
          \/ BridgeGenerates(o) \/ BrowserAnswers(o) \/ BridgeStoresAnswer(o) \/ BridgeCompletes(o)
          \/ \E lost \in BOOLEAN : BridgeFails(o, lost)
    \/ \E s \in ChatSessions :
          \/ \E what \in Prompts \cup {NewChat}, answered \in BOOLEAN : Queue(s, what, answered)
          \/ Poll(s) \/ PollFails(s) \/ TimeOut(s)
          \/ \E readable \in BOOLEAN : Look(s, readable)

ChatSpec == ChatInit /\ [][ChatNext]_chatVars

---------------------------------------------------------------------------
ChatTypeOK ==
    /\ observation \in OpIds \cup {NoObservation}
    /\ \A s \in ChatSessions :
          /\ chat[s].stage = "quiet" \/ chat[s].op \in OpIds
          /\ chat[s].failures < ReadAttempts
          /\ chat[s].looks < ObservationAttempts
          /\ chat[s].rechecks <= RecheckAttempts

(* A response tells of its own operation: text that comes back answers that *)
(* prompt and no other, whichever tab answered last; complete is said only  *)
(* of an operation whose browser answered (or whose new chat is made), and  *)
(* error only of one that failed.                                           *)
ResponseIsOfItsOperation ==
    \A r \in returned :
        LET op == chatOps[r.op] IN
        /\ r.text \in {0, r.op}
        /\ r.completion = "complete" => op.answered \/ op.what = NewChat
        /\ r.completion = "error" => op.status = "failed"
        /\ r.text # 0 => op.answered
=============================================================================
