---------------------------- MODULE BrowserTabs -----------------------------
(***************************************************************************)
(* What the two content scripts of the extension share: the operations of  *)
(* the bridge, the conversation shown in a tab, and two keys of the page's *)
(* localStorage, which is one for all tabs.  The scripts themselves are in *)
(* ContentScript and RecoveryScript.                                       *)
(*                                                                         *)
(* A conversation is a sequence of exchanges, a prompt and its reply.  A   *)
(* text is known by the operation and the turn it answers and by whether   *)
(* it is whole; job 0 is the user's own conversation.                      *)
(***************************************************************************)
EXTENDS OperationLifecycle, Naturals, Sequences

CONSTANTS
  Tabs,         \* ChatGPT tabs, numbered from 1
  MaxJobs,      \* bound on operations
  Prompts,      \* how many of them submitters queue
  Marked,       \* prompts that carry completion markers
  RetryBudget,  \* RETRY_BUDGETS of the two classes the scripts report
  Notices,      \* notices ChatGPT may put on the page
  FirstChats,   \* what a tab may show when the extension starts
  MaxTurns,     \* bound on prompts sent, all tabs together
  MaxReloads,   \* bound on reloads that recovery.js did not ask for
  Lapses,       \* the lease of a controller that is at work may lapse
  Lossy         \* scripts whose requests to the bridge may fail

Jobs == 1..MaxJobs

RetryClasses == {"controller", "context"}

ASSUME TabsAssumption ==
  /\ MaxTurns \in Nat
  /\ \E n \in 1..MaxTurns : Tabs = 1..n
  /\ MaxJobs \in Nat
  /\ Prompts \in 0..MaxJobs
  /\ Marked \subseteq Jobs
  /\ RetryBudget \in [RetryClasses -> Nat]
  /\ Notices \subseteq {"exhausted", "limited", "challenge"}
  /\ MaxReloads \in Nat
  /\ Lapses \in BOOLEAN
  /\ Lossy \subseteq {"controller", "inspection"}

Text == [job : 0..MaxJobs, turn : 0..MaxTurns, whole : BOOLEAN]

NoText == [job |-> 0, turn |-> 0, whole |-> FALSE]

(* The baseline of an active-operation record that has none yet.           *)
Unset == [job |-> 0, turn |-> 0, whole |-> TRUE]

Exchange == [job : 0..MaxJobs, turn : 0..MaxTurns, reply : {"none", "partial", "whole"}]

Page == [chat   : Seq(Exchange),
         live   : BOOLEAN,             \* the stop control is shown
         banner : BOOLEAN,             \* a connection error is shown
         notice : Notices \cup {"none"}]

Job == [kind    : {"prompt", "new_chat"},
        status  : Statuses \cup {"absent"},
        text    : Text,
        retries : [RetryClasses -> Nat],
        next    : 0..MaxJobs]

NoJob == [kind |-> "prompt", status |-> "absent", text |-> NoText,
          retries |-> [c \in RetryClasses |-> 0], next |-> 0]

VARIABLES
  jobs,      \* the bridge's operations
  page,      \* what each tab shows
  turns,     \* prompts sent so far
  active,    \* pasi:active-operation
  recovery,  \* pasi:chatgpt-recovery
  leader,    \* the tab in pasi:controller-lease, 0 for none
  ticket     \* claimed since its prompt was last sent (history)

ActiveRecord == [op : 0..MaxJobs, baseline : Text]

NoActive == [op |-> 0, baseline |-> Unset]

(* The record under pasi:chatgpt-recovery; op 0 when the key is absent.    *)
Recovery ==
  [op       : 0..MaxJobs,
   phase    : {"none", "monitoring", "reloaded", "retry_ready", "context_exhausted"},
   baseline : Text,
   reloads  : 0..1,
   reason   : {"none", "connection", "stall"},
   chat     : 0..MaxJobs,    \* recovery_operation_id
   resume   : 0..MaxJobs,    \* resume_operation_id
   missing  : BOOLEAN]       \* missing_operation_since_ms is set

NoRecovery ==
  [op |-> 0, phase |-> "none", baseline |-> NoText, reloads |-> 0,
   reason |-> "none", chat |-> 0, resume |-> 0, missing |-> FALSE]

Monitoring(o, baseline) ==
  [NoRecovery EXCEPT !.op = o, !.phase = "monitoring", !.baseline = baseline]

-----------------------------------------------------------------------------
(* The bridge, as far as the scripts can tell its methods apart.           *)

FirstOf(S) == CHOOSE o \in S : \A p \in S : o <= p

QueuedJobs(js) == {o \in Jobs : js[o].status = "queued"}

OldestQueued(js) == {o \in QueuedJobs(js) : o = FirstOf(QueuedJobs(js))}

ClaimJob(js, o) == [js EXCEPT ![o].status = "claimed"]

Finished(job) == job.status \in Terminal

HasText(job) == job.kind = "prompt" /\ job.text # NoText

(* POST /chat/finished: a claimed operation is completed with the text and *)
(* the oldest queued one is claimed with it; a completed one is a          *)
(* duplicate; any other is refused.                                        *)
FinishAccepted(js, o) == js[o].status \in {"claimed", "completed"}

FinishJob(js, o, text) ==
  LET done == [js EXCEPT ![o].status = "completed",
                         ![o].text = IF text = NoText THEN @ ELSE text]
  IN  IF js[o].status # "claimed" THEN js
      ELSE IF QueuedJobs(js) = {} THEN done
      ELSE ClaimJob([done EXCEPT ![o].next = FirstOf(QueuedJobs(js))], FirstOf(QueuedJobs(js)))

(* The operation a reply about o hands over.                               *)
Successor(js, o) ==
  IF js[o].next # 0 /\ js[js[o].next].status = "claimed" THEN js[o].next ELSE 0

(* POST /chat/failed with an error of a retry class, or of none when the   *)
(* error has no prefix that the bridge takes for transient.                *)
FailTarget(job, class) ==
  IF class = "none" THEN "failed"
  ELSE IF HasText(job) THEN "completed"
  ELSE IF job.retries[class] >= RetryBudget[class] THEN "failed"
  ELSE "queued"

FailAccepted(js, o, class) == CanMove(js[o].status, FailTarget(js[o], class))

FailJob(js, o, class) ==
  IF ~FailAccepted(js, o, class) THEN js
  ELSE IF FailTarget(js[o], class) = "queued"
  THEN [js EXCEPT ![o].status = "queued", ![o].retries[class] = @ + 1]
  ELSE [js EXCEPT ![o].status = FailTarget(js[o], class)]

(* A chatgpt_response observation of a prompt that has no response yet.    *)
ObserveResponse(js, o, text) ==
  IF js[o].status # "absent" /\ js[o].kind = "prompt" /\ js[o].text = NoText
  THEN [js EXCEPT ![o].text = text] ELSE js

(* retry_count, the sum over the classes.                                  *)
RetryCount(job) == job.retries["controller"] + job.retries["context"]

NewJobs(js) ==
  {o \in Jobs : /\ js[o].status = "absent"
                /\ \A p \in 1..(o - 1) : js[p].status # "absent"}

QueueJob(js, o, kind) == [js EXCEPT ![o] = [NoJob EXCEPT !.kind = kind, !.status = "queued"]]

-----------------------------------------------------------------------------
(* The page.                                                               *)

ReplyText(e) ==
  IF e.reply = "none" THEN NoText
  ELSE [job |-> e.job, turn |-> e.turn, whole |-> e.reply = "whole"]

(* The text of the last of the exchanges in S that has a reply.            *)
LastReply(chat, S) ==
  LET replied == {i \in S : chat[i].reply # "none"}
  IN  IF replied = {} THEN NoText
      ELSE ReplyText(chat[CHOOSE i \in replied : \A j \in replied : j <= i])

(* fingerprint() and latestAssistant()                                     *)
Latest(t) == LastReply(page[t].chat, DOMAIN page[t].chat)

(* Exchanges not before some prompt of o.  Both scripts recognise a prompt *)
(* by its last 80 characters, which are taken to be its own.               *)
From(t, o) ==
  {i \in DOMAIN page[t].chat : \E j \in 1..i : page[t].chat[j].job = o}

(* latestAssistantForOperation                                             *)
LatestFor(t, o) == LastReply(page[t].chat, From(t, o))

Replied(t) == {page[t].chat[i].turn : i \in {j \in DOMAIN page[t].chat : page[t].chat[j].reply # "none"}}

(* assistantResponseEvidence: a reply that is not in the snapshot.         *)
Evidence(t, o, snapshot) ==
  LastReply(page[t].chat, {i \in From(t, o) : page[t].chat[i].turn \notin snapshot})

SendPrompt(t, o) ==
  [page EXCEPT ![t].chat = Append(@, [job |-> o, turn |-> turns + 1, reply |-> "none"]),
               ![t].live = TRUE]

=============================================================================
