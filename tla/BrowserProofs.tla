---------------------------- MODULE BrowserProofs ----------------------------
(***************************************************************************)
(* Theorems about the extension, for any number of tabs, operations,       *)
(* prompts, reloads and lost requests: what each script holds has its      *)
(* type, a controller completes its operation with a reply to that         *)
(* operation's prompt, and a prompt is sent once for each time it was      *)
(* handed out.                                                             *)
(***************************************************************************)
EXTENDS BrowserController, WellFoundedInduction, FiniteSetTheorems, TLAPS

(* A page at work shows an exchange that it writes to.                     *)
Pages == {p \in Page : p.live => p.chat # << >>}

(* A controller that is past its poll has an operation.                    *)
Contents == {c \in Controller : c.pc \notin {"idle", "stale"} => c.op \in Jobs}

(* So has an inspection until all it has left is to clear a key, and one   *)
(* that waits for a fresh chat has the operation that opens it.            *)
Inspections ==
  {i \in Inspection :
     /\ i.pc \notin {"idle", "reload", "clearAll", "clearRecovery"} => i.op \in Jobs
     /\ i.pc \in {"queued", "chat"} => i.chat \in Jobs}

Types ==
  /\ jobs \in [Jobs -> Job]
  /\ page \in [Tabs -> Pages]
  /\ turns \in 0..MaxTurns
  /\ active \in ActiveRecord
  /\ recovery \in Recovery
  /\ leader \in Tabs \cup {0}
  /\ ticket \in [Jobs -> BOOLEAN]
  /\ content \in [Tabs -> Contents]
  /\ inspection \in [Tabs -> Inspections]
  /\ reloads \in 0..MaxReloads

-----------------------------------------------------------------------------
(* Numbers.                                                                *)

LEMMA SmallestExists ==
  ASSUME NEW S, S \subseteq Nat, S # {}
  PROVE  \E x \in S : \A y \in S : x <= y
<1> DEFINE R == {ss \in Nat \X Nat : ss[1] < ss[2]}
<1>1. IsWellFoundedOn(R, Nat)
  BY NatLessThanWellFounded DEF OpToRel
<1> HIDE DEF R
<1>2. PICK x \in S : \A y \in S : <<y, x>> \notin R
  BY <1>1, WFMin
<1>3. \A y \in S : ~ (y < x)
  BY <1>2 DEF R
<1>4. QED
  BY <1>3

LEMMA FirstIsOne ==
  ASSUME NEW S, S \subseteq Jobs, S # {}
  PROVE  FirstOf(S) \in S
<1>1. S \subseteq Nat
  BY TabsAssumption DEF Jobs
<1>2. QED
  BY <1>1, SmallestExists DEF FirstOf

LEMMA LargestExists ==
  ASSUME NEW n \in Nat, NEW S, S \subseteq 1..n, S # {}
  PROVE  \E x \in S : \A y \in S : y <= x
<1> DEFINE T == {n - x : x \in S}
<1>0. \A x \in S : n - x \in Nat
  OBVIOUS
<1>1. T \subseteq Nat /\ T # {}
  BY <1>0
<1>2. PICK k \in T : \A m \in T : k <= m
  BY <1>1, SmallestExists
<1>3. PICK x \in S : k = n - x
  BY <1>2
<1>4. ASSUME NEW y \in S PROVE y <= x
  <2>1. n - x <= n - y
    BY <1>2, <1>3
  <2>2. QED
    BY <2>1
<1>5. QED
  BY <1>4

-----------------------------------------------------------------------------
(* Texts of a page.                                                        *)

LEMMA NoTextIsText == NoText \in Text /\ Unset \in Text
BY TabsAssumption DEF Text, NoText, Unset

LEMMA LastReplyIs ==
  ASSUME NEW chat \in Seq(Exchange), NEW S \in SUBSET (DOMAIN chat)
  PROVE  /\ LastReply(chat, S) \in Text
         /\ LastReply(chat, S) # NoText =>
              \E i \in S : chat[i].reply # "none" /\ LastReply(chat, S) = ReplyText(chat[i])
<1> DEFINE replied == {i \in S : chat[i].reply # "none"}
           last == CHOOSE i \in replied : \A j \in replied : j <= i
<1>1. CASE replied = {}
  BY <1>1, NoTextIsText DEF LastReply
<1>2. CASE replied # {}
  <2>1. Len(chat) \in Nat /\ replied \subseteq 1..Len(chat)
    OBVIOUS
  <2>2. \E i \in replied : \A j \in replied : j <= i
    BY <1>2, <2>1, LargestExists
  <2>3. last \in replied
    BY <2>2
  <2>4. LastReply(chat, S) = ReplyText(chat[last])
    BY <1>2 DEF LastReply
  <2>5. chat[last] \in Exchange /\ chat[last].reply # "none"
    BY <2>3
  <2>6. ReplyText(chat[last]) \in Text
    BY <2>5 DEF ReplyText, Exchange, Text
  <2>7. QED
    BY <2>3, <2>4, <2>5, <2>6
<1>3. QED
  BY <1>1, <1>2

LEMMA PageTexts ==
  ASSUME Types, NEW t \in Tabs, NEW o, NEW snapshot
  PROVE  /\ page[t].chat \in Seq(Exchange)
         /\ Latest(t) \in Text /\ LatestFor(t, o) \in Text /\ Evidence(t, o, snapshot) \in Text
         /\ Replied(t) \subseteq 0..MaxTurns
<1>1. page[t] \in Page
  BY DEF Types, Pages
<1>2. page[t].chat \in Seq(Exchange)
  BY <1>1 DEF Page
<1>3. PICK chat \in Seq(Exchange) : chat = page[t].chat
  BY <1>2
<1>4. Latest(t) \in Text
  BY <1>3, LastReplyIs DEF Latest
<1>5. From(t, o) \subseteq DOMAIN chat
  BY <1>3 DEF From
<1>6. LatestFor(t, o) \in Text
  BY <1>3, <1>5, LastReplyIs DEF LatestFor
<1>7. Evidence(t, o, snapshot) \in Text
  <2>1. {i \in From(t, o) : page[t].chat[i].turn \notin snapshot} \subseteq DOMAIN chat
    BY <1>5
  <2>2. QED
    BY <1>3, <2>1, LastReplyIs DEF Evidence
<1>8. Replied(t) \subseteq 0..MaxTurns
  <2>1. \A i \in DOMAIN chat : chat[i] \in Exchange
    OBVIOUS
  <2>2. QED
    BY <1>3, <2>1 DEF Replied, Exchange
<1>9. QED
  BY <1>2, <1>4, <1>6, <1>7, <1>8

-----------------------------------------------------------------------------
(* Operations of the bridge.                                               *)

LEMMA JobTypes ==
  ASSUME NEW js \in [Jobs -> Job], NEW o \in Jobs
  PROVE  /\ js[o] \in Job /\ js[o].text \in Text /\ js[o].next \in 0..MaxJobs
         /\ js[o].status \in Statuses \cup {"absent"}
         /\ js[o].retries \in [RetryClasses -> Nat]
BY DEF Job

LEMMA StatusSet ==
  ASSUME NEW js \in [Jobs -> Job], NEW o \in Jobs, NEW s \in Statuses
  PROVE  [js EXCEPT ![o].status = s] \in [Jobs -> Job]
<1>1. [js[o] EXCEPT !.status = s] \in Job
  BY DEF Job
<1>2. QED
  BY <1>1

LEMMA ClaimTypes ==
  ASSUME NEW js \in [Jobs -> Job], NEW o \in Jobs
  PROVE  ClaimJob(js, o) \in [Jobs -> Job]
BY StatusSet DEF ClaimJob, Statuses, Active

LEMMA SuccessorTypes ==
  ASSUME NEW js \in [Jobs -> Job], NEW o \in Jobs
  PROVE  Successor(js, o) \in 0..MaxJobs
BY JobTypes, TabsAssumption DEF Successor

LEMMA FinishTypes ==
  ASSUME NEW js \in [Jobs -> Job], NEW o \in Jobs, NEW text \in Text
  PROVE  FinishJob(js, o, text) \in [Jobs -> Job]
<1> DEFINE done == [js EXCEPT ![o].status = "completed",
                              ![o].text = IF text = NoText THEN @ ELSE text]
           p == FirstOf(QueuedJobs(js))
<1>1. done \in [Jobs -> Job]
  <2>1. PICK new \in Text : new = IF text = NoText THEN js[o].text ELSE text
    BY JobTypes
  <2>2. [js[o] EXCEPT !.status = "completed", !.text = new] \in Job
    BY DEF Job, Statuses, Terminal
  <2>3. done = [js EXCEPT ![o] = [js[o] EXCEPT !.status = "completed", !.text = new]]
    BY <2>1
  <2>4. QED
    BY <2>2, <2>3
<1> HIDE DEF done
<1>2. CASE QueuedJobs(js) = {}
  BY <1>1, <1>2 DEF FinishJob, done
<1>3. CASE QueuedJobs(js) # {}
  <2>1. p \in Jobs
    BY <1>3, FirstIsOne DEF QueuedJobs
  <2> HIDE DEF p
  <2>0. p \in 0..MaxJobs
    BY <2>1, TabsAssumption DEF Jobs
  <2>2. [done[o] EXCEPT !.next = p] \in Job
    BY <1>1, <2>0 DEF Job
  <2>3. [done EXCEPT ![o].next = p] \in [Jobs -> Job]
    BY <1>1, <2>2
  <2>4. ClaimJob([done EXCEPT ![o].next = p], p) \in [Jobs -> Job]
    BY <2>1, <2>3, ClaimTypes
  <2>5. QED
    BY <1>3, <2>4 DEF FinishJob, done, p
<1>4. QED
  BY <1>2, <1>3

LEMMA FailTypes ==
  ASSUME NEW js \in [Jobs -> Job], NEW o \in Jobs, NEW class \in RetryClasses \cup {"none"}
  PROVE  FailJob(js, o, class) \in [Jobs -> Job]
<1>1. FailTarget(js[o], class) \in Statuses
  BY DEF FailTarget, Statuses, Active, Terminal
<1>2. CASE ~ FailAccepted(js, o, class)
  BY <1>2 DEF FailJob
<1>3. CASE FailAccepted(js, o, class) /\ FailTarget(js[o], class) = "queued"
  <2>1. class \in RetryClasses
    BY <1>3 DEF FailTarget
  <2>2. [js[o].retries EXCEPT ![class] = @ + 1] \in [RetryClasses -> Nat]
    BY <2>1, JobTypes
  <2>3. [js[o] EXCEPT !.status = "queued", !.retries[class] = @ + 1] \in Job
    BY <2>2 DEF Job, Statuses, Active
  <2>4. QED
    BY <1>3, <2>3 DEF FailJob
<1>4. CASE FailAccepted(js, o, class) /\ FailTarget(js[o], class) # "queued"
  BY <1>1, <1>4, StatusSet DEF FailJob
<1>5. QED
  BY <1>2, <1>3, <1>4

LEMMA ObserveTypes ==
  ASSUME NEW js \in [Jobs -> Job], NEW o \in Jobs, NEW text \in Text
  PROVE  ObserveResponse(js, o, text) \in [Jobs -> Job]
<1>1. [js[o] EXCEPT !.text = text] \in Job
  BY DEF Job
<1>2. QED
  BY <1>1 DEF ObserveResponse

LEMMA NoJobIsJob == NoJob \in Job /\ Unknown \in Job
<1>1. [c \in RetryClasses |-> 0] \in [RetryClasses -> Nat]
  OBVIOUS
<1>2. QED
  BY <1>1, NoTextIsText, TabsAssumption DEF NoJob, Unknown, Job

LEMMA QueueTypes ==
  ASSUME NEW js \in [Jobs -> Job], NEW o \in Jobs, NEW kind \in {"prompt", "new_chat"}
  PROVE  QueueJob(js, o, kind) \in [Jobs -> Job]
<1>1. [NoJob EXCEPT !.kind = kind, !.status = "queued"] \in Job
  BY NoJobIsJob DEF Job, Statuses, Active
<1>2. QED
  BY <1>1 DEF QueueJob

LEMMA RetryCountTypes ==
  ASSUME NEW js \in [Jobs -> Job], NEW o \in Jobs
  PROVE  RetryCount(js[o]) \in Nat
BY JobTypes DEF RetryCount, RetryClasses

-----------------------------------------------------------------------------
(* The controller.                                                         *)

PCs == {"idle", "stale", "asked", "composer", "submit", "starting",
        "watch", "finish", "acked", "failing"}

LEMMA ControllerIs ==
  ASSUME Types, NEW t \in Tabs
  PROVE  /\ content[t] \in Controller /\ content[t] \in Contents
         /\ content[t].start \in {"begin", "clear", "done"}
         /\ content[t].text \in Text /\ content[t].error \in Errors
         /\ content[t].op \in 0..MaxJobs /\ content[t].next \in 0..MaxJobs
         /\ content[t].pc \notin {"idle", "stale"} => content[t].op \in Jobs
BY DEF Types, Contents, Controller

LEMMA IdleIs == Idle \in Controller
BY NoTextIsText, TabsAssumption DEF Idle, Controller, Errors

(* What a step leaves of the controller of t.                              *)
LEMMA RestTypes ==
  ASSUME Types, NEW t \in Tabs
  PROVE  Rest(t) \in [Tabs -> Contents]
<1>1. [Idle EXCEPT !.start = content[t].start] \in Controller
  BY ControllerIs, IdleIs DEF Controller
<1>2. [Idle EXCEPT !.start = content[t].start].pc = "idle"
  BY DEF Idle
<1>3. [Idle EXCEPT !.start = content[t].start] \in Contents
  BY <1>1, <1>2 DEF Contents
<1>4. QED
  BY <1>3 DEF Rest, Types

LEMMA GotoTypes ==
  ASSUME Types, NEW t \in Tabs, NEW pc \in PCs,
         pc \in {"idle", "stale"} \/ content[t].op \in Jobs
  PROVE  Goto(t, pc) \in [Tabs -> Contents]
<1>1. [content[t] EXCEPT !.pc = pc] \in Controller
  BY ControllerIs DEF Controller, PCs
<1>2. [content[t] EXCEPT !.pc = pc] \in Contents
  BY <1>1, ControllerIs DEF Contents, Controller
<1>3. QED
  BY <1>2 DEF Goto, Types

LEMMA AfterTypes ==
  ASSUME Types, NEW t \in Tabs, content[t].op \in Jobs, NEW pc \in PCs
  PROVE  /\ After(t, pc) \in Contents
         /\ \A text \in Text : [After(t, pc) EXCEPT !.text = text] \in Contents
         /\ \A ok \in BOOLEAN : [After(t, pc) EXCEPT !.ok = ok] \in Contents
         /\ \A next \in 0..MaxJobs : [After(t, pc) EXCEPT !.next = next] \in Contents
<1>1. PICK c : c = After(t, pc)
  OBVIOUS
<1>2. c \in Controller
  BY <1>1, ControllerIs, IdleIs DEF After, Controller, PCs
<1>3. c.op \in Jobs
  BY <1>1 DEF After, Idle
<1>4. QED
  BY <1>1, <1>2, <1>3 DEF Contents, Controller

LEMMA AskedTypes ==
  ASSUME Types, NEW t \in Tabs, NEW o \in Jobs
  PROVE  Asked(t, o) \in [Tabs -> Contents]
<1>1. PICK c : c = [Idle EXCEPT !.start = content[t].start, !.pc = "asked",
                                !.op = o, !.retries = RetryCount(jobs[o])]
  OBVIOUS
<1>2. RetryCount(jobs[o]) \in Nat
  BY RetryCountTypes DEF Types
<1>3. o \in 0..MaxJobs
  BY TabsAssumption DEF Jobs
<1>4. c \in Controller
  BY <1>1, <1>2, <1>3, ControllerIs, IdleIs DEF Controller
<1>5. c.op \in Jobs
  BY <1>1 DEF Idle
<1>6. c \in Contents
  BY <1>4, <1>5 DEF Contents
<1>7. QED
  BY <1>1, <1>6 DEF Asked, Types

LEMMA MonitoringIs ==
  ASSUME NEW o \in 0..MaxJobs, NEW baseline \in Text
  PROVE  /\ NoRecovery \in Recovery /\ Monitoring(o, baseline) \in Recovery
         /\ [Monitoring(o, baseline) EXCEPT !.phase = "context_exhausted"] \in Recovery
<1>1. NoRecovery \in Recovery
  BY NoTextIsText, TabsAssumption DEF NoRecovery, Recovery
<1>2. Monitoring(o, baseline) \in Recovery
  BY <1>1 DEF Monitoring, Recovery
<1>3. QED
  BY <1>1, <1>2 DEF Recovery

LEMMA ReportTypes ==
  ASSUME Types, NEW t \in Tabs, content[t].op \in Jobs,
         NEW class \in RetryClasses \cup {"none"}, ReportFailure(t, class)
  PROVE  /\ jobs' \in [Jobs -> Job] /\ content' \in [Tabs -> Contents]
         /\ UNCHANGED <<page, turns, active, recovery, leader, ticket>>
<1>1. PICK js : js = IF content[t].text = NoText THEN jobs
                     ELSE ObserveResponse(jobs, content[t].op, content[t].text)
  OBVIOUS
<1>2. jobs \in [Jobs -> Job] /\ content \in [Tabs -> Contents]
  BY DEF Types
<1>3. js \in [Jobs -> Job]
  BY <1>1, <1>2, ObserveTypes, ControllerIs
<1>4. FailJob(js, content[t].op, class) \in [Jobs -> Job]
  BY <1>3, FailTypes
<1>5. \A ok \in BOOLEAN : [After(t, "failing") EXCEPT !.ok = ok] \in Contents
  BY AfterTypes DEF PCs
<1>6. \/ /\ jobs' = FailJob(js, content[t].op, class)
         /\ content' = [content EXCEPT ![t] =
              [After(t, "failing") EXCEPT !.ok = FailAccepted(js, content[t].op, class)]]
      \/ /\ jobs' \in {jobs, js, FailJob(js, content[t].op, class)}
         /\ content' = [content EXCEPT ![t] = [After(t, "failing") EXCEPT !.ok = FALSE]]
  BY <1>1 DEF ReportFailure
<1>7. FailAccepted(js, content[t].op, class) \in BOOLEAN
  BY DEF FailAccepted, CanMove
<1>8. QED
  BY <1>2, <1>3, <1>4, <1>5, <1>6, <1>7 DEF ReportFailure

LEMMA ThrowTypes ==
  ASSUME Types, NEW t \in Tabs, content[t].op \in Jobs,
         NEW e \in Errors \ {"none"}, Throw(t, e)
  PROVE  /\ jobs' \in [Jobs -> Job] /\ content' \in [Tabs -> Contents]
         /\ recovery' \in Recovery
         /\ UNCHANGED <<page, turns, active, leader, ticket>>
<1>1. /\ jobs \in [Jobs -> Job] /\ recovery \in Recovery /\ active.baseline \in Text
      /\ Latest(t) \in Text /\ content[t].op \in 0..MaxJobs
  BY PageTexts, ControllerIs DEF Types, ActiveRecord
<1>2. ASSUME NEW state \in Recovery, HandOver(t, state)
      PROVE  /\ jobs' \in [Jobs -> Job] /\ content' \in [Tabs -> Contents]
             /\ recovery' \in Recovery
             /\ UNCHANGED <<page, turns, active, leader, ticket>>
  BY <1>1, <1>2, RestTypes DEF HandOver
<1>3. ASSUME NEW class \in RetryClasses \cup {"none"}, ReportFailure(t, class)
      PROVE  /\ jobs' \in [Jobs -> Job] /\ content' \in [Tabs -> Contents]
             /\ recovery' \in Recovery
             /\ UNCHANGED <<page, turns, active, leader, ticket>>
  BY <1>1, <1>3, ReportTypes
<1>0. PICK retries \in Nat : retries = content[t].retries
  BY ControllerIs DEF Controller
<1>4. CASE e = "exhausted" /\ retries < 1
  <2>0. content[t].retries < 1 /\ ~ (content[t].retries >= 1)
    BY <1>0, <1>4
  <2>1. HandOver(t, [Monitoring(content[t].op, Latest(t)) EXCEPT !.phase = "context_exhausted"])
    BY <1>4, <2>0 DEF Throw
  <2>2. QED
    BY <1>1, <1>2, <2>1, MonitoringIs
<1>5. CASE e = "timeout"
  <2>1. HandOver(t, Monitoring(content[t].op,
                      IF active.baseline = Unset THEN Latest(t) ELSE active.baseline))
    BY <1>5 DEF Throw
  <2>2. QED
    BY <1>1, <1>2, <2>1, MonitoringIs
<1>6. CASE e = "exhausted" /\ ~ (retries < 1)
  <2>1. ~ (content[t].retries < 1) /\ content[t].retries >= 1
    BY <1>0, <1>6
  <2>2. ReportFailure(t, "context")
    BY <1>6, <2>1 DEF Throw
  <2>3. QED
    BY <1>3, <2>2 DEF RetryClasses
<1>7. CASE e = "permanent"
  BY <1>3, <1>7 DEF Throw
<1>8. CASE e = "controller"
  BY <1>3, <1>8 DEF Throw, RetryClasses
<1>9. QED
  BY <1>4, <1>5, <1>6, <1>7, <1>8 DEF Errors

LEMMA LeaderTypes ==
  ASSUME NEW t \in Tabs, ClaimController(t)
  PROVE  leader' \in Tabs \cup {0}
BY DEF ClaimController

LEMMA RecoveryAfterTypes ==
  ASSUME Types, NEW o
  PROVE  RecoveryAfter(o) \in Recovery
<1>1. NoRecovery \in Recovery
  BY NoTextIsText, TabsAssumption DEF NoRecovery, Recovery
<1>2. QED
  BY <1>1 DEF RecoveryAfter, Types

LEMMA PollTypes ==
  ASSUME Types, NEW t \in Tabs, UNCHANGED <<inspection, reloads>>,
         Poll(t) \/ PollRefused(t) \/ DropRecovery(t)
  PROVE  Types'
<1> USE DEF Types
<1>1. CASE Poll(t)
  <2>1. PICK o \in IF Wanted = 0 THEN OldestQueued(jobs) ELSE {Wanted} \cap QueuedJobs(jobs) :
          /\ jobs' = ClaimJob(jobs, o)
          /\ ticket' = [ticket EXCEPT ![o] = TRUE]
          /\ content' = Asked(t, o) \/ UNCHANGED content
    BY <1>1 DEF Poll
  <2>2. o \in Jobs
    BY DEF OldestQueued, QueuedJobs
  <2>3. jobs' \in [Jobs -> Job] /\ ticket' \in [Jobs -> BOOLEAN] /\ content' \in [Tabs -> Contents]
    BY <2>1, <2>2, ClaimTypes, AskedTypes
  <2>4. QED
    BY <1>1, <2>3, LeaderTypes DEF Poll
<1>2. CASE PollRefused(t)
  BY <1>2, LeaderTypes, GotoTypes DEF PollRefused, PCs
<1>3. CASE DropRecovery(t)
  BY <1>3, GotoTypes, MonitoringIs, NoTextIsText, TabsAssumption DEF DropRecovery, PCs, NoRecovery, Recovery
<1>4. QED
  BY <1>1, <1>2, <1>3

LEMMA ReconcileTypes ==
  ASSUME Types, NEW t \in Tabs, UNCHANGED <<inspection, reloads>>,
         Reconcile(t) \/ ReconcileUnheard(t) \/ ClearActive(t)
  PROVE  Types'
<1>1. \A start \in {"begin", "clear", "done"} : [content[t] EXCEPT !.start = start] \in Contents
  BY ControllerIs DEF Contents, Controller
<1>2. NoActive \in ActiveRecord
  BY NoTextIsText, TabsAssumption DEF NoActive, ActiveRecord
<1>3. content' \in [Tabs -> Contents]
  BY <1>1 DEF Types, Reconcile, ReconcileUnheard, ClearActive
<1>4. QED
  BY <1>2, <1>3 DEF Types, Reconcile, ReconcileUnheard, ClearActive, shared

LEMMA FailsTypes ==
  ASSUME Types, NEW t \in Tabs, UNCHANGED <<inspection, reloads>>,
         ComposerFails(t) \/ SubmitFails(t) \/ StartFails(t) \/ WatchFails(t) \/ FinishFails(t)
  PROVE  Types'
<1>1. content[t].op \in Jobs
  BY ControllerIs DEF ComposerFails, SubmitFails, StartFails, WatchFails, FinishFails, At
<1>2. \E e \in Errors \ {"none"} : Throw(t, e)
  <2>1. content[t].error # "none" => content[t].error \in Errors \ {"none"}
    BY ControllerIs
  <2>2. {"exhausted", "permanent", "controller", "timeout"} = Errors \ {"none"}
    BY DEF Errors
  <2>3. QED
    BY <2>1, <2>2 DEF ComposerFails, SubmitFails, StartFails, WatchFails, FinishFails
<1>3. /\ jobs' \in [Jobs -> Job] /\ content' \in [Tabs -> Contents]
      /\ recovery' \in Recovery
      /\ UNCHANGED <<page, turns, active, leader, ticket>>
  BY <1>1, <1>2, ThrowTypes
<1>4. QED
  BY <1>3 DEF Types

LEMMA SendTypes ==
  ASSUME Types, NEW t \in Tabs, NEW o \in 0..MaxJobs, turns < MaxTurns
  PROVE  SendPrompt(t, o) \in [Tabs -> Pages] /\ turns + 1 \in 0..MaxTurns
<1>1. turns + 1 \in 0..MaxTurns
  BY TabsAssumption DEF Types
<1>2. PICK e : e = [job |-> o, turn |-> turns + 1, reply |-> "none"]
  OBVIOUS
<1>3. e \in Exchange
  BY <1>1, <1>2 DEF Exchange
<1>4. page[t].chat \in Seq(Exchange) /\ page[t] \in Page
  BY PageTexts DEF Types, Pages
<1>5. Append(page[t].chat, e) \in Seq(Exchange) /\ Append(page[t].chat, e) # << >>
  BY <1>3, <1>4
<1>6. [page[t] EXCEPT !.chat = Append(@, e), !.live = TRUE] \in Pages
  BY <1>4, <1>5 DEF Page, Pages
<1>7. SendPrompt(t, o) = [page EXCEPT ![t] = [page[t] EXCEPT !.chat = Append(@, e), !.live = TRUE]]
  BY <1>2 DEF SendPrompt, Types
<1>8. QED
  BY <1>1, <1>6, <1>7 DEF Types

LEMMA ProcessTypes ==
  ASSUME Types, NEW t \in Tabs, UNCHANGED <<inspection, reloads>>, Process(t)
  PROVE  Types'
<1>0. /\ content[t].pc \notin {"idle", "stale"} => content[t].op \in Jobs
      /\ content[t].op \in 0..MaxJobs
  BY ControllerIs
<1>a. NoActive \in ActiveRecord
  BY NoTextIsText, TabsAssumption DEF NoActive, ActiveRecord
<1>1. CASE Begin(t)
  <2>1. content[t].op \in Jobs
    BY <1>0, <1>1 DEF Begin, At
  <2>2. content' \in [Tabs -> Contents]
    BY <1>1, <2>1, GotoTypes, RestTypes DEF Begin, PCs
  <2>3. [op |-> content[t].op, baseline |-> Unset] \in ActiveRecord
    BY <1>0, NoTextIsText DEF ActiveRecord
  <2>4. active' \in ActiveRecord /\ leader' \in Tabs \cup {0}
    BY <1>1, <2>3, LeaderTypes DEF Begin, Types
  <2>5. QED
    BY <1>1, <2>2, <2>4 DEF Begin, Types
<1>2. CASE NewChat(t)
  <2>1. content[t].op \in Jobs
    BY <1>0, <1>2 DEF NewChat, At
  <2>2. content' \in [Tabs -> Contents]
    BY <1>2, <2>1, AfterTypes DEF NewChat, Types, PCs
  <2>3. PICK p : p = [page[t] EXCEPT !.chat = << >>, !.live = FALSE,
                        !.notice = IF @ = "exhausted" THEN "none" ELSE @]
    OBVIOUS
  <2>4. p \in Page /\ ~ p.live
    <3>1. page[t] \in Page /\ << >> \in Seq(Exchange)
      BY DEF Types, Pages
    <3>2. QED
      BY <2>3, <3>1 DEF Page
  <2>5. page' = [page EXCEPT ![t] = p]
    BY <1>2, <2>3 DEF NewChat, Types
  <2>6. page' \in [Tabs -> Pages]
    BY <2>4, <2>5 DEF Types, Pages
  <2>7. QED
    BY <1>2, <2>2, <2>6 DEF NewChat, Types
<1>3. CASE Compose(t)
  <2>1. content[t].op \in Jobs
    BY <1>0, <1>3 DEF Compose, At
  <2>2. Latest(t) \in Text /\ Replied(t) \subseteq 0..MaxTurns
    BY PageTexts
  <2>3. PICK c : c = [content[t] EXCEPT !.pc = "submit", !.snapshot = Replied(t)]
    OBVIOUS
  <2>4. c \in Controller /\ c.op = content[t].op
    BY <2>2, <2>3, ControllerIs DEF Controller
  <2>5. content' = [content EXCEPT ![t] = c]
    BY <1>3, <2>3 DEF Compose, Types
  <2>6. content' \in [Tabs -> Contents]
    BY <2>1, <2>4, <2>5 DEF Types, Contents
  <2>7. active' \in ActiveRecord
    BY <1>0, <1>3, <2>2 DEF Compose, ActiveRecord
  <2>8. QED
    BY <1>3, <2>6, <2>7 DEF Compose, Types
<1>4. CASE Submit(t)
  <2>1. content[t].op \in Jobs
    BY <1>0, <1>4 DEF Submit, At
  <2>2. content' \in [Tabs -> Contents]
    BY <1>4, <2>1, GotoTypes DEF Submit, PCs
  <2>3. page' \in [Tabs -> Pages] /\ turns' \in 0..MaxTurns
    BY <1>0, <1>4, SendTypes DEF Submit, Types
  <2>4. ticket' \in [Jobs -> BOOLEAN]
    BY <1>4 DEF Submit, Types
  <2>5. QED
    BY <1>4, <2>2, <2>3, <2>4 DEF Submit, Types
<1>5. CASE Starts(t)
  <2>1. content[t].op \in Jobs
    BY <1>0, <1>5 DEF Starts, At
  <2>2. QED
    BY <1>5, <2>1, GotoTypes DEF Starts, PCs, shared, Types
<1>6. CASE SeeNotice(t)
  <2>1. \A e \in {"exhausted", "permanent"} : [content[t] EXCEPT !.error = e] \in Contents
    BY ControllerIs DEF Contents, Controller, Errors
  <2>2. content' \in [Tabs -> Contents]
    BY <1>6, <2>1 DEF SeeNotice, Types
  <2>3. QED
    BY <1>6, <2>2 DEF SeeNotice, shared, Types
<1>7. CASE SeeResponse(t)
  <2>1. content[t].op \in Jobs
    BY <1>0, <1>7 DEF SeeResponse, At
  <2>2. Response(t) \in Text
    BY PageTexts DEF Response
  <2>3. [After(t, "finish") EXCEPT !.text = Response(t)] \in Contents
    BY <2>1, <2>2, AfterTypes DEF PCs
  <2>4. QED
    BY <1>7, <2>3 DEF SeeResponse, shared, Types
<1>8. CASE Finish(t)
  <2>1. content[t].op \in Jobs /\ jobs \in [Jobs -> Job]
    BY <1>0, <1>8 DEF Finish, At, Types
  <2>2. jobs' \in [Jobs -> Job]
    BY <1>8, <2>1, FinishTypes, ControllerIs DEF Finish
  <2>3. HandedOver(jobs', content[t].op) \in 0..MaxJobs
    BY <2>1, <2>2, SuccessorTypes DEF HandedOver
  <2>4. [After(t, "acked") EXCEPT !.next = HandedOver(jobs', content[t].op)] \in Contents
    BY <2>1, <2>3, AfterTypes DEF PCs
  <2>5. ticket' \in [Jobs -> BOOLEAN]
    <3>1. \A p \in Jobs : (ticket[p] \/ p = Successor(jobs', content[t].op)) \in BOOLEAN
      OBVIOUS
    <3>2. QED
      BY <1>8, <3>1 DEF Finish
  <2>6. QED
    BY <1>8, <2>2, <2>4, <2>5 DEF Finish, Types
<1>9. CASE Acked(t)
  <2>1. content[t].next # 0 => content[t].next \in Jobs
    BY ControllerIs, TabsAssumption DEF Jobs
  <2>2. content' \in [Tabs -> Contents]
    BY <1>9, <2>1, AskedTypes, RestTypes DEF Acked
  <2>3. recovery' \in Recovery
    BY <1>9, RecoveryAfterTypes DEF Acked
  <2>4. QED
    BY <1>a, <1>9, <2>2, <2>3 DEF Acked, Types
<1>10. CASE ComposerFails(t) \/ SubmitFails(t) \/ StartFails(t) \/ WatchFails(t) \/ FinishFails(t)
  BY <1>10, FailsTypes
<1>11. CASE FinishUnheard(t)
  <2>1. content[t].op \in Jobs /\ jobs \in [Jobs -> Job]
    BY <1>0, <1>11 DEF FinishUnheard, At, Types
  <2>2. jobs' \in [Jobs -> Job]
    BY <1>11, <2>1, FinishTypes, ControllerIs DEF FinishUnheard
  <2>3. content' \in [Tabs -> Contents]
    BY <1>11, <2>1, AfterTypes DEF FinishUnheard, PCs, Types
  <2>4. QED
    BY <1>11, <2>2, <2>3 DEF FinishUnheard, Types
<1>12. CASE Failing(t)
  <2>1. content' \in [Tabs -> Contents]
    BY <1>12, RestTypes DEF Failing
  <2>2. recovery' \in Recovery /\ active' \in ActiveRecord
    BY <1>a, <1>12, RecoveryAfterTypes DEF Failing, Types
  <2>3. QED
    BY <1>12, <2>1, <2>2 DEF Failing, Types
<1>13. QED
  BY <1>1, <1>2, <1>3, <1>4, <1>5, <1>6, <1>7, <1>8, <1>9, <1>10, <1>11, <1>12 DEF Process

-----------------------------------------------------------------------------
(* The inspection.                                                         *)

InspectionPCs ==
  {"idle", "looked", "fresh", "preserve", "provider", "decide",
   "reloaded", "grace", "context", "finish", "clearAll",
   "clearRecovery", "clearFailed", "queued", "unheard", "chat", "requeue",
   "requeued", "reload"}

(* Where an inspection has no operation.                                   *)
Aimless == {"idle", "reload", "clearAll", "clearRecovery"}

LEMMA RestingIs == Resting \in Inspection /\ Resting \in Inspections /\ NoRecovery \in Recovery
<1>1. NoRecovery \in Recovery
  BY NoTextIsText, TabsAssumption DEF NoRecovery, Recovery
<1>2. Resting \in Inspection
  BY <1>1, NoTextIsText, NoJobIsJob, TabsAssumption DEF Resting, Inspection, Continuations
<1>3. QED
  BY <1>1, <1>2 DEF Inspections, Resting

LEMMA InspectionIs ==
  ASSUME Types, NEW t \in Tabs
  PROVE  /\ inspection[t] \in Inspection /\ inspection[t] \in Inspections
         /\ Op(t) \in 0..MaxJobs /\ State(t) \in Recovery /\ Cur(t) \in Job
         /\ inspection[t].text \in Text
         /\ inspection[t].done \in Continuations /\ inspection[t].fail \in Continuations
         /\ inspection[t].pc \notin Aimless => Op(t) \in Jobs
         /\ inspection[t].pc \in {"queued", "chat"} => inspection[t].chat \in Jobs
BY DEF Types, Inspections, Inspection, Op, State, Cur, Aimless

LEMMA KeptTypes ==
  ASSUME NEW i \in Inspection, NEW pc \in InspectionPCs,
         pc \notin Aimless => i.op \in Jobs,
         pc \in {"queued", "chat"} => i.chat \in Jobs
  PROVE  /\ Kept(i, pc) \in Inspections /\ Kept(i, pc).pc = pc
         /\ pc \notin Aimless => Kept(i, pc).op = i.op
<1>1. CASE pc \in Aimless
  <2>1. Kept(i, pc) = [Resting EXCEPT !.pc = pc]
    BY <1>1 DEF Kept, Aimless
  <2>2. QED
    BY <1>1, <2>1, RestingIs DEF Inspection, Inspections, Aimless
<1>2. CASE pc \in {"clearFailed", "fresh"}
  <2>1. Kept(i, pc) = [Resting EXCEPT !.pc = pc, !.op = i.op]
    BY <1>2 DEF Kept
  <2>2. [Resting EXCEPT !.pc = pc, !.op = i.op] \in Inspection
    BY <1>2, RestingIs DEF Inspection
  <2>3. [Resting EXCEPT !.pc = pc, !.op = i.op].op = i.op /\ [Resting EXCEPT !.pc = pc, !.op = i.op].pc = pc
    BY DEF Resting
  <2>4. QED
    BY <1>2, <2>1, <2>2, <2>3 DEF Inspections, Aimless
<1>3. CASE pc \notin Aimless /\ pc \notin {"clearFailed", "fresh"}
  <2>1. PICK cur \in Job : cur = IF pc \in {"context", "requeue"} THEN i.cur ELSE NoJob
    BY NoJobIsJob DEF Inspection
  <2>2. i.state \in Recovery /\ [NoRecovery EXCEPT !.phase = i.state.phase] \in Recovery
    BY RestingIs DEF Inspection, Recovery
  <2>3. PICK state \in Recovery : state =
          IF pc \in {"queued", "unheard", "chat", "requeue", "requeued"}
          THEN [NoRecovery EXCEPT !.phase = i.state.phase] ELSE i.state
    BY <2>2
  <2>4. Kept(i, pc) = [i EXCEPT !.pc = pc, !.text = NoText, !.done = "idle", !.fail = "idle",
                                !.cur = cur, !.state = state]
    BY <1>3, <2>1, <2>3 DEF Kept, Aimless
  <2>5. PICK k : k = [i EXCEPT !.pc = pc, !.text = NoText, !.done = "idle", !.fail = "idle",
                               !.cur = cur, !.state = state]
    OBVIOUS
  <2>6. k \in Inspection
    BY <2>5, NoTextIsText DEF Inspection, InspectionPCs, Continuations
  <2>7. k.pc = pc /\ k.op = i.op /\ k.chat = i.chat
    BY <2>5 DEF Inspection
  <2>8. QED
    BY <2>4, <2>5, <2>6, <2>7 DEF Inspections, Aimless
<1>4. QED
  BY <1>1, <1>2, <1>3

(* One step takes the inspection of t to pc.                               *)
LEMMA GoOnTypes ==
  ASSUME Types, NEW t \in Tabs, NEW pc \in InspectionPCs \ {"queued", "chat"},
         pc \in Aimless \/ Op(t) \in Jobs, GoOn(t, pc)
  PROVE  inspection' \in [Tabs -> Inspections]
<1>1. Kept(inspection[t], pc) \in Inspections
  BY KeptTypes, InspectionIs DEF Op
<1>2. QED
  BY <1>1 DEF GoOn, Types

LEMMA EndTypes ==
  ASSUME Types, NEW t \in Tabs, EndInspection(t)
  PROVE  inspection' \in [Tabs -> Inspections]
BY RestingIs DEF EndInspection, Types

LEMMA LookupTypes ==
  ASSUME Types, NEW t \in Tabs, NEW next \in Inspections, next.op \in Jobs, Lookup(t, next)
  PROVE  inspection' \in [Tabs -> Inspections]
<1>a. PICK job \in Job : job = jobs[next.op]
  BY DEF Types
<1>b. 0 \in 0..MaxJobs
  BY TabsAssumption
<1>1. [jobs[next.op] EXCEPT !.next = 0] \in Job
  BY <1>a, <1>b DEF Job
<1>0. {[jobs[next.op] EXCEPT !.next = 0]} \cup (IF "inspection" \in Lossy THEN {Unknown} ELSE {})
        \subseteq Job
  BY <1>1, NoJobIsJob
<1>2. PICK cur \in Job : inspection' = [inspection EXCEPT ![t] = [next EXCEPT !.cur = cur]]
  BY <1>0 DEF Lookup
<1>3. [next EXCEPT !.cur = cur] \in Inspections
  BY DEF Inspections, Inspection
<1>4. QED
  BY <1>2, <1>3 DEF Types

(* What is sent as a response, and where the inspection goes on.           *)
LEMMA FinishWithTypes ==
  ASSUME Types, NEW t \in Tabs, Op(t) \in Jobs, NEW text \in Text,
         NEW done \in Continuations, NEW fail \in Continuations,
         FinishWith(t, text, done, fail)
  PROVE  jobs' \in [Jobs -> Job] /\ inspection' \in [Tabs -> Inspections]
<1>1. jobs' \in [Jobs -> Job]
  BY ObserveTypes DEF FinishWith, Types
<1>2. PICK k : k = Kept(inspection[t], fail)
  OBVIOUS
<1>3. k \in Inspections
  BY <1>2, KeptTypes, InspectionIs DEF Continuations, InspectionPCs, Op
<1>4. [k EXCEPT !.pc = "finish", !.op = Op(t), !.text = text, !.done = done, !.fail = fail] \in Inspections
  <2>1. PICK m : m = [k EXCEPT !.pc = "finish", !.op = Op(t), !.text = text, !.done = done, !.fail = fail]
    OBVIOUS
  <2>2. m \in Inspection /\ m.pc = "finish" /\ m.op = Op(t)
    BY <1>3, <2>1, InspectionIs DEF Inspections, Inspection
  <2>3. QED
    BY <2>1, <2>2 DEF Inspections
<1>5. inspection' = [inspection EXCEPT ![t] =
        [k EXCEPT !.pc = "finish", !.op = Op(t), !.text = text, !.done = done, !.fail = fail]]
  BY <1>2 DEF FinishWith, Types
<1>6. QED
  BY <1>1, <1>4, <1>5 DEF Types

LEMMA FinishVisibleTypes ==
  ASSUME Types, NEW t \in Tabs, Op(t) \in Jobs,
         NEW done \in Continuations, NEW fail \in Continuations,
         FinishVisible(t, done, fail)
  PROVE  jobs' \in [Jobs -> Job] /\ inspection' \in [Tabs -> Inspections]
<1>1. CASE VisibleResponse(t) # NoText
  <2>1. Cur(t).text \in Text
    BY InspectionIs DEF Job
  <2>2. VisibleResponse(t) \in Text
    BY <2>1, PageTexts, NoTextIsText DEF VisibleResponse
  <2>3. QED
    BY <1>1, <2>2, FinishWithTypes DEF FinishVisible
<1>2. CASE VisibleResponse(t) = NoText
  <2>1. GoOn(t, fail) /\ jobs' = jobs
    BY <1>2 DEF FinishVisible
  <2>2. fail \in InspectionPCs \ {"queued", "chat"}
    BY DEF Continuations, InspectionPCs
  <2>3. QED
    BY <2>1, <2>2, GoOnTypes DEF Types
<1>3. QED
  BY <1>1, <1>2

LEMMA ReportLostTypes ==
  ASSUME Types, NEW t \in Tabs, Op(t) \in Jobs, NEW class \in RetryClasses \cup {"none"},
         NEW pc \in InspectionPCs \ {"queued", "chat"}, ReportLost(t, class, pc)
  PROVE  jobs' \in [Jobs -> Job] /\ inspection' \in [Tabs -> Inspections]
<1>1. FailJob(jobs, Op(t), class) \in [Jobs -> Job] /\ jobs \in [Jobs -> Job]
  BY FailTypes DEF Types
<1>2. PICK k : k = Kept(inspection[t], pc)
  OBVIOUS
<1>3. k \in Inspections
  BY <1>2, KeptTypes, InspectionIs DEF Op
<1>4. \A ok \in BOOLEAN : [k EXCEPT !.ok = ok] \in Inspections
  BY <1>3 DEF Inspections, Inspection
<1>5. \E ok \in BOOLEAN : inspection' = [inspection EXCEPT ![t] = [k EXCEPT !.ok = ok]]
  <2>1. \/ inspection' = [inspection EXCEPT ![t] =
               [k EXCEPT !.ok = (pc = "requeued" /\ FailAccepted(jobs, Op(t), class))]]
        \/ inspection' = [inspection EXCEPT ![t] = [k EXCEPT !.ok = (pc = "requeued" /\ FALSE)]]
    BY <1>2 DEF ReportLost
  <2>2. QED
    BY <2>1
<1>6. jobs' \in {jobs, FailJob(jobs, Op(t), class)}
  BY DEF ReportLost
<1>7. inspection' \in [Tabs -> Inspections]
  BY <1>4, <1>5 DEF Types
<1>8. QED
  BY <1>1, <1>6, <1>7

LEMMA StartNewChatTypes ==
  ASSUME Types, NEW t \in Tabs, Op(t) \in Jobs, StartNewChat(t)
  PROVE  jobs' \in [Jobs -> Job] /\ inspection' \in [Tabs -> Inspections]
<1>1. CASE QueueNewChat(t)
  <2>1. PICK o \in NewJobs(jobs) :
          /\ jobs' = QueueJob(jobs, o, "new_chat")
          /\ \/ inspection' = [inspection EXCEPT ![t] = [Kept(@, "queued") EXCEPT !.chat = o]]
             \/ inspection' = [inspection EXCEPT ![t] = Kept(@, "unheard")]
    BY <1>1 DEF QueueNewChat
  <2>2. o \in Jobs /\ o \in 0..MaxJobs
    BY TabsAssumption DEF NewJobs, Jobs
  <2>3. jobs' \in [Jobs -> Job]
    BY <2>1, <2>2, QueueTypes DEF Types
  <2>4. Kept(inspection[t], "unheard") \in Inspections
    BY KeptTypes, InspectionIs DEF InspectionPCs, Op
  <2>5. [Kept(inspection[t], "queued") EXCEPT !.chat = o] \in Inspections
    <3>1. PICK i : i = [inspection[t] EXCEPT !.chat = o]
      OBVIOUS
    <3>2. i \in Inspection /\ i.op = Op(t) /\ i.chat = o
      BY <2>2, <3>1, InspectionIs DEF Inspection, Op
    <3>3. Kept(i, "queued") \in Inspections
      BY <2>2, <3>2, KeptTypes DEF InspectionPCs
    <3>4. [Kept(inspection[t], "queued") EXCEPT !.chat = o] = Kept(i, "queued")
      BY <3>1, InspectionIs DEF Kept, Inspection
    <3>5. QED
      BY <3>3, <3>4
  <2>6. QED
    BY <2>1, <2>3, <2>4, <2>5 DEF Types
<1>2. CASE NewChatFailed(t)
  <2>1. CASE State(t).phase = "context_exhausted"
    BY <1>2, <2>1, EndTypes DEF NewChatFailed, Types
  <2>2. CASE State(t).phase # "context_exhausted"
    BY <1>2, <2>2, ReportLostTypes DEF NewChatFailed, InspectionPCs
  <2>3. QED
    BY <2>1, <2>2
<1>3. QED
  BY <1>1, <1>2 DEF StartNewChat

(* What the record of a recovery may become.                               *)
LEMMA FoundTypes ==
  ASSUME Types, NEW t \in Tabs
  PROVE  /\ Found(t) \in Recovery /\ Rewritten(t) \in Recovery
         /\ [State(t) EXCEPT !.missing = TRUE] \in Recovery
         /\ recovery \in Recovery
<1>1. State(t) \in Recovery /\ recovery \in Recovery
  BY InspectionIs DEF Types
<1>2. \A b \in BOOLEAN : [State(t) EXCEPT !.missing = b] \in Recovery
  BY <1>1 DEF Recovery
<1>3. QED
  BY <1>1, <1>2 DEF Found, Rewritten

LEMMA AimIs ==
  ASSUME Types, NEW t \in Tabs, inspection[t].pc \in InspectionPCs \ Aimless
  PROVE  Op(t) \in Jobs /\ Op(t) \in 0..MaxJobs
BY InspectionIs

(* The start of an inspection, and its steps beside no recovery.           *)
LEMMA InspectTypes ==
  ASSUME Types, NEW t \in Tabs, UNCHANGED reloads,
         Inspect(t) \/ InspectActive(t) \/ StartMonitoring(t)
  PROVE  Types'
<1>1. CASE Inspect(t)
  <2>1. recovery.op \in 0..MaxJobs /\ active.op \in 0..MaxJobs /\ recovery \in Recovery
    BY DEF Types, Recovery, ActiveRecord
  <2>2. \A o \in Jobs : /\ [Resting EXCEPT !.pc = "looked", !.op = o, !.state = recovery] \in Inspections
                        /\ [Resting EXCEPT !.pc = "looked", !.op = o] \in Inspections
    <3> SUFFICES ASSUME NEW o \in Jobs
                 PROVE  /\ [Resting EXCEPT !.pc = "looked", !.op = o, !.state = recovery] \in Inspections
                        /\ [Resting EXCEPT !.pc = "looked", !.op = o] \in Inspections
      OBVIOUS
    <3>1. o \in 0..MaxJobs
      BY TabsAssumption DEF Jobs
    <3>2. /\ [Resting EXCEPT !.pc = "looked", !.op = o, !.state = recovery] \in Inspection
          /\ [Resting EXCEPT !.pc = "looked", !.op = o] \in Inspection
      BY <2>1, <3>1, RestingIs DEF Inspection
    <3>3. QED
      BY <3>2 DEF Inspections, Inspection, Resting
  <2>3. CASE recovery.op # 0 /\ Lookup(t, [Resting EXCEPT !.pc = "looked", !.op = recovery.op, !.state = recovery])
    <3>1. recovery.op \in Jobs
      BY <2>1, <2>3, TabsAssumption DEF Jobs
    <3>2. PICK next : next = [Resting EXCEPT !.pc = "looked", !.op = recovery.op, !.state = recovery]
      OBVIOUS
    <3>3. next \in Inspections /\ next.op \in Jobs
      BY <2>2, <3>1, <3>2 DEF Resting
    <3>4. inspection' \in [Tabs -> Inspections]
      BY <2>3, <3>2, <3>3, LookupTypes
    <3>5. QED
      BY <1>1, <3>4 DEF Inspect, tabVars, Types
  <2>4. CASE active.op # 0 /\ Lookup(t, [Resting EXCEPT !.pc = "looked", !.op = active.op])
    <3>1. active.op \in Jobs
      BY <2>1, <2>4, TabsAssumption DEF Jobs
    <3>2. PICK next : next = [Resting EXCEPT !.pc = "looked", !.op = active.op]
      OBVIOUS
    <3>3. next \in Inspections /\ next.op \in Jobs
      BY <2>2, <3>1, <3>2 DEF Resting
    <3>4. inspection' \in [Tabs -> Inspections]
      BY <2>4, <3>2, <3>3, LookupTypes
    <3>5. QED
      BY <1>1, <3>4 DEF Inspect, tabVars, Types
  <2>5. QED
    BY <1>1, <2>3, <2>4 DEF Inspect
<1>2. CASE InspectActive(t)
  <2>1. Op(t) \in Jobs
    BY <1>2, AimIs DEF InspectActive, LooksFresh, Inspecting, InspectionPCs, Aimless
  <2>2. Cur(t).text \in Text
    BY InspectionIs DEF Job
  <2>3. jobs' \in [Jobs -> Job] /\ inspection' \in [Tabs -> Inspections]
    <3>1. CASE EndInspection(t) /\ UNCHANGED jobs
      BY <3>1, EndTypes DEF Types
    <3>2. CASE FinishVisible(t, "clearAll", IF Cur(t).status = "completed" THEN "idle" ELSE "clearAll")
      <4>1. PICK fail \in Continuations : fail = IF Cur(t).status = "completed" THEN "idle" ELSE "clearAll"
        BY DEF Continuations
      <4>2. QED
        BY <2>1, <3>2, <4>1, FinishVisibleTypes DEF Continuations
    <3>3. CASE FinishWith(t, Cur(t).text, "clearAll", "fresh")
      BY <2>1, <2>2, <3>3, FinishWithTypes DEF Continuations
    <3>4. QED
      BY <1>2, <3>1, <3>2, <3>3 DEF InspectActive
  <2>4. QED
    BY <1>2, <2>3 DEF InspectActive, Types
<1>3. CASE StartMonitoring(t)
  <2>1. Op(t) \in Jobs /\ Op(t) \in 0..MaxJobs
    BY <1>3, AimIs DEF StartMonitoring, LooksFresh, Known, Inspecting, InspectionPCs, Aimless
  <2>2. PICK state \in Recovery : state = Monitoring(Op(t), Latest(t))
    BY <2>1, PageTexts, MonitoringIs
  <2>3. recovery' = state
    BY <1>3, <2>2 DEF StartMonitoring
  <2>4. inspection' \in [Tabs -> Inspections]
    <3>1. CASE EndInspection(t)
      BY <3>1, EndTypes
    <3>2. CASE Lookup(t, [inspection[t] EXCEPT !.pc = "preserve", !.state = state])
      <4>1. PICK next : next = [inspection[t] EXCEPT !.pc = "preserve", !.state = state]
        OBVIOUS
      <4>2. next \in Inspection /\ next.op = Op(t) /\ next.pc = "preserve"
        BY <4>1, InspectionIs DEF Inspection, Op
      <4>3. next \in Inspections
        BY <2>1, <4>2 DEF Inspections
      <4>4. QED
        BY <2>1, <3>2, <4>1, <4>2, <4>3, LookupTypes
    <3>3. QED
      BY <1>3, <2>2, <3>1, <3>2 DEF StartMonitoring
  <2>5. QED
    BY <1>3, <2>3, <2>4 DEF StartMonitoring, Types
<1>4. QED
  BY <1>1, <1>2, <1>3

(* The looks at an operation under recovery.                               *)
LEMMA LooksTypes ==
  ASSUME Types, NEW t \in Tabs, UNCHANGED reloads,
         \/ InspectMissing(t) \/ InspectFinished(t) \/ InspectRetry(t)
         \/ InspectMonitoring(t) \/ InspectReloaded(t)
  PROVE  Types'
<1>0. Op(t) \in Jobs
  BY AimIs DEF InspectMissing, InspectFinished, InspectRetry, InspectMonitoring, InspectReloaded,
               LooksAt, Inspecting, InspectionPCs, Aimless
<1>1. CASE InspectMissing(t)
  <2>1. inspection' \in [Tabs -> Inspections] /\ recovery' \in Recovery
    BY <1>1, FoundTypes, EndTypes, GoOnTypes DEF InspectMissing, InspectionPCs, Aimless
  <2>2. QED
    BY <1>1, <2>1 DEF InspectMissing, Types
<1>2. CASE InspectFinished(t)
  <2>1. jobs' \in [Jobs -> Job] /\ inspection' \in [Tabs -> Inspections]
    BY <1>0, <1>2, FinishVisibleTypes DEF InspectFinished, Continuations
  <2>2. QED
    BY <1>2, <2>1, FoundTypes DEF InspectFinished, Types
<1>3. CASE InspectRetry(t)
  BY <1>3, EndTypes, FoundTypes, RestingIs DEF InspectRetry, Types
<1>a. \A pc \in {"preserve", "reloaded"} :
        LET next == [inspection[t] EXCEPT !.pc = pc, !.state = Found(t)] IN
        next \in Inspections /\ next.op \in Jobs
  <2> SUFFICES ASSUME NEW pc \in {"preserve", "reloaded"}
               PROVE  LET next == [inspection[t] EXCEPT !.pc = pc, !.state = Found(t)] IN
                      next \in Inspections /\ next.op \in Jobs
    OBVIOUS
  <2>1. PICK next : next = [inspection[t] EXCEPT !.pc = pc, !.state = Found(t)]
    OBVIOUS
  <2>2. next \in Inspection /\ next.op = Op(t) /\ next.pc = pc
    BY <2>1, InspectionIs, FoundTypes DEF Inspection, Op
  <2>3. next \in Inspections
    BY <1>0, <2>2 DEF Inspections
  <2>4. QED
    BY <1>0, <2>1, <2>2, <2>3
<1>4. CASE InspectMonitoring(t)
  <2>1. inspection' \in [Tabs -> Inspections]
    BY <1>4, <1>a, LookupTypes DEF InspectMonitoring
  <2>2. QED
    BY <1>4, <2>1, FoundTypes DEF InspectMonitoring, Types
<1>5. CASE InspectReloaded(t)
  <2>1. inspection' \in [Tabs -> Inspections]
    BY <1>5, <1>a, LookupTypes DEF InspectReloaded
  <2>2. QED
    BY <1>5, <2>1, FoundTypes DEF InspectReloaded, Types
<1>6. QED
  BY <1>1, <1>2, <1>3, <1>4, <1>5

(* preserveOrReload and handleReloadRecovery.                              *)
LEMMA ReloadingTypes ==
  ASSUME Types, NEW t \in Tabs, UNCHANGED reloads,
         PreserveFirst(t) \/ Preserve(t) \/ Decide(t) \/ AfterReload(t) \/ Grace(t)
  PROVE  Types'
<1>0. Op(t) \in Jobs
  BY AimIs DEF PreserveFirst, Preserve, Decide, AfterReload, Grace, PastPersisted,
               Inspecting, InspectionPCs, Aimless
<1>a. Cur(t).text \in Text /\ Latest(t) \in Text
  BY InspectionIs, PageTexts DEF Job
<1>1. CASE PreserveFirst(t)
  <2>1. jobs' \in [Jobs -> Job] /\ inspection' \in [Tabs -> Inspections]
    <3>1. CASE EndInspection(t) /\ UNCHANGED jobs
      BY <3>1, EndTypes DEF Types
    <3>2. CASE FinishWith(t, Cur(t).text, "clearAll", "provider")
      BY <1>0, <1>a, <3>2, FinishWithTypes DEF Continuations
    <3>3. QED
      BY <1>1, <3>1, <3>2 DEF PreserveFirst
  <2>2. QED
    BY <1>1, <2>1 DEF PreserveFirst, Types
<1>2. CASE Preserve(t)
  <2>1. jobs' \in [Jobs -> Job] /\ inspection' \in [Tabs -> Inspections]
    <3>1. CASE ReportLost(t, "none", "clearRecovery")
      BY <1>0, <3>1, ReportLostTypes DEF InspectionPCs
    <3>2. CASE FinishWith(t, Latest(t), "clearRecovery", "decide")
      BY <1>0, <1>a, <3>2, FinishWithTypes DEF Continuations
    <3>3. QED
      BY <1>2, <3>1, <3>2 DEF Preserve
  <2>2. QED
    BY <1>2, <2>1 DEF Preserve, Types
<1>3. CASE Decide(t)
  <2>1. State(t) \in Recovery /\ recovery \in Recovery
    BY FoundTypes, InspectionIs
  <2>2. inspection' \in [Tabs -> Inspections]
    BY <1>3, EndTypes, GoOnTypes DEF Decide, InspectionPCs, Aimless
  <2>3. recovery' \in Recovery
    <3>1. CASE /\ MayReload(t)
               /\ recovery' = [State(t) EXCEPT !.reloads = @ + 1, !.phase = "reloaded",
                                 !.reason = IF page[t].banner THEN "connection" ELSE "stall"]
      <4>1. State(t).reloads + 1 \in 0..1
        BY <2>1, <3>1 DEF MayReload, Recovery
      <4>2. PICK reason \in {"connection", "stall"} :
              reason = IF page[t].banner THEN "connection" ELSE "stall"
        OBVIOUS
      <4>3. [State(t) EXCEPT !.reloads = @ + 1, !.phase = "reloaded", !.reason = reason] \in Recovery
        BY <2>1, <4>1 DEF Recovery
      <4>4. QED
        BY <3>1, <4>2, <4>3
    <3>2. QED
      BY <1>3, <2>1, <3>1 DEF Decide
  <2>4. QED
    BY <1>3, <2>2, <2>3 DEF Decide, Types
<1>4. CASE AfterReload(t)
  <2>1. jobs' \in [Jobs -> Job] /\ inspection' \in [Tabs -> Inspections]
    <3>1. CASE FinishVisible(t, "clearRecovery", "clearRecovery")
      BY <1>0, <3>1, FinishVisibleTypes DEF Continuations
    <3>2. CASE ReportLost(t, "none", "clearRecovery")
      BY <1>0, <3>2, ReportLostTypes DEF InspectionPCs
    <3>3. CASE FinishWith(t, Latest(t), "clearRecovery", "grace")
      BY <1>0, <1>a, <3>3, FinishWithTypes DEF Continuations
    <3>4. QED
      BY <1>4, <3>1, <3>2, <3>3 DEF AfterReload
  <2>2. QED
    BY <1>4, <2>1 DEF AfterReload, Types
<1>5. CASE Grace(t)
  <2>1. jobs' \in [Jobs -> Job] /\ inspection' \in [Tabs -> Inspections]
    <3>1. CASE EndInspection(t) /\ UNCHANGED jobs
      BY <3>1, EndTypes DEF Types
    <3>2. CASE StartNewChat(t)
      BY <1>0, <3>2, StartNewChatTypes
    <3>3. CASE ReportLost(t, GiveBackClass(t), "requeued")
      <4>1. GiveBackClass(t) \in RetryClasses \cup {"none"}
        BY DEF GiveBackClass, RetryClasses
      <4>2. QED
        BY <1>0, <3>3, <4>1, ReportLostTypes DEF InspectionPCs
    <3>4. QED
      BY <1>5, <3>1, <3>2, <3>3 DEF Grace
  <2>2. QED
    BY <1>5, <2>1 DEF Grace, Types
<1>6. QED
  BY <1>1, <1>2, <1>3, <1>4, <1>5

(* handleContextExhausted.                                                 *)
LEMMA ExhaustedTypes ==
  ASSUME Types, NEW t \in Tabs, UNCHANGED reloads,
         \/ InspectExhausted(t) \/ ReplaceChat(t) \/ NameNewChat(t)
         \/ NewChatReady(t) \/ NewChatLate(t)
  PROVE  Types'
<1>0. Op(t) \in Jobs
  BY AimIs DEF InspectExhausted, ReplaceChat, NameNewChat, NewChatReady, NewChatLate,
               LooksAt, Inspecting, InspectionPCs, Aimless
<1>a. Cur(t).text \in Text
  BY InspectionIs DEF Job
<1>b. \A o \in 0..MaxJobs : [recovery EXCEPT !.chat = o] \in Recovery
  BY DEF Types, Recovery
<1>1. CASE InspectExhausted(t)
  <2>1. jobs' \in [Jobs -> Job] /\ inspection' \in [Tabs -> Inspections]
    <3>1. CASE EndInspection(t) /\ UNCHANGED jobs
      BY <3>1, EndTypes DEF Types
    <3>2. CASE FinishVisible(t, "clearAll", "clearAll")
      BY <1>0, <3>2, FinishVisibleTypes DEF Continuations
    <3>3. CASE FinishWith(t, Cur(t).text, "clearAll", "context")
      BY <1>0, <1>a, <3>3, FinishWithTypes DEF Continuations
    <3>4. QED
      BY <1>1, <3>1, <3>2, <3>3 DEF InspectExhausted
  <2>2. QED
    BY <1>1, <2>1 DEF InspectExhausted, Types
<1>2. CASE ReplaceChat(t)
  <2>1. CASE StartNewChat(t)
    BY <1>0, <1>2, <2>1, StartNewChatTypes DEF ReplaceChat, Types
  <2>2. CASE EndInspection(t) /\ UNCHANGED jobs
    BY <1>2, <2>2, EndTypes DEF ReplaceChat, Types
  <2>3. QED
    BY <1>2, <2>1, <2>2 DEF ReplaceChat
<1>3. CASE NameNewChat(t)
  <2>1. inspection[t].chat \in Jobs /\ inspection[t].chat \in 0..MaxJobs
    BY <1>3, InspectionIs, TabsAssumption DEF NameNewChat, Inspecting, Jobs
  <2>2. recovery' \in Recovery
    BY <1>b, <1>3, <2>1 DEF NameNewChat, Types
  <2>3. Kept(inspection[t], "chat") \in Inspections
    BY <1>0, <2>1, KeptTypes, InspectionIs DEF InspectionPCs, Op
  <2>4. inspection' \in [Tabs -> Inspections]
    BY <1>3, <2>3 DEF NameNewChat, GoOn, Types
  <2>5. QED
    BY <1>3, <2>2, <2>4 DEF NameNewChat, Types
<1>4. CASE NewChatReady(t)
  <2>1. 0 \in 0..MaxJobs
    BY TabsAssumption
  <2>2. recovery' \in Recovery
    BY <1>b, <1>4, <2>1 DEF NewChatReady, Types
  <2>3. PICK next : next = Kept(inspection[t], "requeue")
    OBVIOUS
  <2>4. next \in Inspections /\ next.op \in Jobs
    BY <1>0, <2>3, KeptTypes, InspectionIs DEF InspectionPCs, Aimless, Op
  <2>5. inspection' \in [Tabs -> Inspections]
    BY <1>4, <2>3, <2>4, LookupTypes DEF NewChatReady
  <2>6. QED
    BY <1>4, <2>2, <2>5 DEF NewChatReady, Types
<1>5. CASE NewChatLate(t)
  <2>1. NewChatFailed(t)
    BY <1>5 DEF NewChatLate
  <2>2. jobs' \in [Jobs -> Job] /\ inspection' \in [Tabs -> Inspections]
    <3>1. CASE EndInspection(t) /\ UNCHANGED jobs
      BY <3>1, EndTypes DEF Types
    <3>2. CASE ReportLost(t, "none", "clearFailed")
      BY <1>0, <3>2, ReportLostTypes DEF InspectionPCs
    <3>3. QED
      BY <2>1, <3>1, <3>2 DEF NewChatFailed
  <2>3. QED
    BY <1>5, <2>2 DEF NewChatLate, Types
<1>6. QED
  BY <1>1, <1>2, <1>3, <1>4, <1>5

(* What follows a failure report, and a response that was sent.            *)
LEMMA EndingTypes ==
  ASSUME Types, NEW t \in Tabs, UNCHANGED reloads,
         Requeue(t) \/ Requeued(t) \/ FinishExisting(t) \/ Clear(t)
  PROVE  Types'
<1>0. ~ Clear(t) => Op(t) \in Jobs /\ Op(t) \in 0..MaxJobs
  BY AimIs DEF Requeue, Requeued, FinishExisting, Inspecting, InspectionPCs, Aimless
<1>1. CASE Requeue(t) /\ ~ Clear(t)
  <2>1. jobs' \in [Jobs -> Job] /\ inspection' \in [Tabs -> Inspections]
    <3>1. CASE GoOn(t, "clearAll") /\ UNCHANGED jobs
      BY <3>1, GoOnTypes DEF Types, InspectionPCs, Aimless
    <3>2. ASSUME NEW class \in {"none", "context"}, ReportLost(t, class, "requeued")
          PROVE  jobs' \in [Jobs -> Job] /\ inspection' \in [Tabs -> Inspections]
      BY <1>0, <1>1, <3>2, ReportLostTypes DEF InspectionPCs, RetryClasses
    <3>3. QED
      BY <1>1, <3>1, <3>2 DEF Requeue
  <2>2. QED
    BY <1>1, <2>1 DEF Requeue, Types
<1>2. CASE Requeued(t) /\ ~ Clear(t)
  <2>1. EndInspection(t) \/ GoOn(t, "clearAll") \/ GoOn(t, "clearRecovery")
    BY <1>2 DEF Requeued
  <2>2. inspection' \in [Tabs -> Inspections]
    BY <2>1, EndTypes, GoOnTypes DEF InspectionPCs, Aimless
  <2>3. [recovery EXCEPT !.resume = Op(t), !.phase = "retry_ready"] \in Recovery
    BY <1>0, <1>2 DEF Types, Recovery
  <2>4. recovery' \in Recovery
    BY <1>2, <2>3 DEF Requeued, Types
  <2>5. QED
    BY <1>2, <2>2, <2>4 DEF Requeued, Types
<1>3. CASE FinishExisting(t) /\ ~ Clear(t)
  <2>1. /\ inspection[t].text \in Text
        /\ inspection[t].done \in InspectionPCs \ {"queued", "chat"}
        /\ inspection[t].fail \in InspectionPCs \ {"queued", "chat"}
    BY InspectionIs DEF Continuations, InspectionPCs
  <2>2. jobs' \in [Jobs -> Job]
    BY <1>0, <1>3, <2>1, FinishTypes DEF FinishExisting, Types
  <2>3. GoOn(t, inspection[t].done) \/ GoOn(t, inspection[t].fail)
    BY <1>3 DEF FinishExisting
  <2>4. inspection' \in [Tabs -> Inspections]
    BY <1>0, <1>3, <2>1, <2>3, GoOnTypes
  <2>5. QED
    BY <1>3, <2>2, <2>4 DEF FinishExisting, Types
<1>4. CASE Clear(t)
  <2>1. NoActive \in ActiveRecord
    BY NoTextIsText, TabsAssumption DEF NoActive, ActiveRecord
  <2>2. inspection' \in [Tabs -> Inspections]
    BY <1>4, EndTypes DEF Clear
  <2>3. active' \in ActiveRecord /\ recovery' \in Recovery
    BY <1>4, <2>1, RestingIs DEF Clear, Types
  <2>4. QED
    BY <1>4, <2>2, <2>3 DEF Clear, Types
<1>5. QED
  BY <1>1, <1>2, <1>3, <1>4

-----------------------------------------------------------------------------
(* The bridge by itself, and the page.                                     *)

LEMMA BridgeTypes ==
  ASSUME Types, SubmitJob \/ \E o \in Jobs : LeaseExpires(o) \/ Expire(o)
  PROVE  Types'
<1>1. CASE SubmitJob
  <2>1. \A o \in NewJobs(jobs) : o \in Jobs
    BY DEF NewJobs
  <2>2. jobs' \in [Jobs -> Job]
    BY <1>1, <2>1, QueueTypes DEF SubmitJob, Types
  <2>3. QED
    BY <1>1, <2>2 DEF SubmitJob, scripts, Types
<1>2. ASSUME NEW o \in Jobs, LeaseExpires(o) \/ Expire(o) PROVE Types'
  <2>1. \A s \in {"queued", "failed"} : [jobs EXCEPT ![o].status = s] \in [Jobs -> Job]
    BY StatusSet DEF Types, Statuses, Active, Terminal
  <2>2. jobs' \in [Jobs -> Job]
    BY <1>2, <2>1 DEF LeaseExpires, Expire
  <2>3. QED
    BY <1>2, <2>2 DEF LeaseExpires, Expire, scripts, Types
<1>3. QED
  BY <1>1, <1>2

(* A page that moves by itself: the last exchange goes on, at most.        *)
LEMMA WriteIs ==
  ASSUME Types, NEW t \in Tabs, Write(t)
  PROVE  \E r \in {"partial", "whole"} : \E chat \in Seq(Exchange) :
           /\ page[t].live /\ LastTurn(t) \in DOMAIN page[t].chat
           /\ chat = [page[t].chat EXCEPT ![LastTurn(t)].reply = r]
           /\ page' = [page EXCEPT ![t].chat = chat]
           /\ chat # << >>
<1>1. page[t] \in Page /\ page[t].chat \in Seq(Exchange) /\ page[t].chat # << >>
  BY PageTexts DEF Types, Pages, Write
<1>2. PICK old \in Seq(Exchange) : old = page[t].chat
  BY <1>1
<1>3. PICK n \in 1..Len(old) : n = LastTurn(t) /\ n = Len(old)
  BY <1>1, <1>2 DEF LastTurn
<1>4. PICK r \in {"partial", "whole"} :
        PageMoves(t, [page[t] EXCEPT !.chat[LastTurn(t)].reply = r])
  BY DEF Write
<1>5. PICK chat : chat = [old EXCEPT ![n].reply = r]
  OBVIOUS
<1>a. PICK e \in Exchange : e = old[n]
  OBVIOUS
<1>6. [old[n] EXCEPT !.reply = r] \in Exchange
  BY <1>a DEF Exchange
<1>7. chat \in Seq(Exchange) /\ chat # << >>
  BY <1>3, <1>5, <1>6
<1>8. page' = [page EXCEPT ![t].chat = chat]
  BY <1>1, <1>2, <1>3, <1>4, <1>5 DEF PageMoves, Types, Page
<1>9. chat = [page[t].chat EXCEPT ![LastTurn(t)].reply = r] /\ LastTurn(t) \in DOMAIN page[t].chat
  BY <1>2, <1>3, <1>5
<1>10. page[t].live
  BY DEF Write
<1>11. QED
  BY <1>7, <1>8, <1>9, <1>10

(* Nor does a page that stops, or a notice, touch what was said.           *)
LEMMA MovesAre ==
  ASSUME Types, NEW t \in Tabs,
         StopWriting(t) \/ ConnectionLost(t) \/ ShowNotice(t) \/ DropNotice(t)
  PROVE  \E p : PageMoves(t, p) /\ p \in Page /\ (p.live => page[t].live) /\ p.chat = page[t].chat
<1>0. page[t] \in Page
  BY DEF Types, Pages
<1>1. CASE StopWriting(t)
  <2>1. [page[t] EXCEPT !.live = FALSE] \in Page
    BY <1>0 DEF Page
  <2>2. ~ [page[t] EXCEPT !.live = FALSE].live
    BY <1>0 DEF Page
  <2>3. [page[t] EXCEPT !.live = FALSE].chat = page[t].chat
    BY <1>0 DEF Page
  <2>4. QED
    BY <1>1, <2>1, <2>2, <2>3 DEF StopWriting
<1>2. CASE ConnectionLost(t)
  <2>1. [page[t] EXCEPT !.live = FALSE, !.banner = TRUE] \in Page
    BY <1>0 DEF Page
  <2>2. ~ [page[t] EXCEPT !.live = FALSE, !.banner = TRUE].live
    BY <1>0 DEF Page
  <2>3. [page[t] EXCEPT !.live = FALSE, !.banner = TRUE].chat = page[t].chat
    BY <1>0 DEF Page
  <2>4. QED
    BY <1>2, <2>1, <2>2, <2>3 DEF ConnectionLost
<1>3. CASE ShowNotice(t)
  BY <1>0, <1>3 DEF ShowNotice, Page
<1>4. CASE DropNotice(t)
  BY <1>0, <1>4 DEF DropNotice, Page
<1>5. QED
  BY <1>1, <1>2, <1>3, <1>4

LEMMA PageTypes ==
  ASSUME Types, NEW t \in Tabs, PageNext(t)
  PROVE  Types'
<1>0. page[t] \in Page /\ page[t].chat \in Seq(Exchange) /\ page \in [Tabs -> Pages]
  BY PageTexts DEF Types, Pages
<1>1. CASE Write(t)
  <2>1. PICK chat \in Seq(Exchange) : page' = [page EXCEPT ![t].chat = chat] /\ chat # << >>
    BY <1>1, WriteIs
  <2>2. [page[t] EXCEPT !.chat = chat] \in Pages
    BY <1>0, <2>1 DEF Pages, Page
  <2>3. page' \in [Tabs -> Pages]
    BY <1>0, <2>1, <2>2
  <2>4. QED
    BY <1>1, <2>3 DEF Write, PageMoves, scripts, Types
<1>2. CASE StopWriting(t) \/ ConnectionLost(t) \/ ShowNotice(t) \/ DropNotice(t)
  <2>1. PICK p : PageMoves(t, p) /\ p \in Page /\ (p.live => page[t].live) /\ p.chat = page[t].chat
    BY <1>2, MovesAre
  <2>2. p \in Pages
    BY <1>0, <2>1 DEF Types, Pages
  <2>3. page' \in [Tabs -> Pages]
    BY <1>0, <2>1, <2>2 DEF PageMoves
  <2>4. QED
    BY <2>1, <2>3 DEF PageMoves, scripts, Types
<1>3. CASE Reload(t)
  <2>1. PICK live \in BOOLEAN :
          /\ live => page[t].chat # << >>
          /\ page' = [page EXCEPT ![t].live = live, ![t].banner = FALSE]
    BY <1>3 DEF Reload
  <2>2. [page[t] EXCEPT !.live = live, !.banner = FALSE] \in Pages
    BY <1>0, <2>1 DEF Pages, Page
  <2>3. page' \in [Tabs -> Pages]
    BY <1>0, <2>1, <2>2
  <2>4. [Idle EXCEPT !.start = "begin"] \in Contents
    <3>1. [Idle EXCEPT !.start = "begin"] \in Controller
      BY IdleIs DEF Controller
    <3>2. QED
      BY <3>1 DEF Contents, Idle
  <2>5. reloads' \in 0..MaxReloads
    BY <1>3, TabsAssumption DEF Reload, Types
  <2>6. inspection' \in [Tabs -> Inspections] /\ content' \in [Tabs -> Contents]
    BY <1>3, <2>4, RestingIs DEF Reload, Types
  <2>7. QED
    BY <1>3, <2>3, <2>5, <2>6 DEF Reload, Types
<1>4. QED
  BY <1>1, <1>2, <1>3 DEF PageNext

LEMMA InitTypes == Init => Types
<1> SUFFICES ASSUME Init PROVE Types
  OBVIOUS
<1>1. PICK n \in 1..MaxTurns : Tabs = 1..n
  BY TabsAssumption
<1>2. Cardinality(Tabs) = n
  BY <1>1, FS_Interval, TabsAssumption
<1>3. turns \in 0..MaxTurns
  BY <1>1, <1>2, TabsAssumption DEF Init
<1>4. \A t \in Tabs, first \in FirstChats : FirstPage(t, first) \in Pages
  <2> SUFFICES ASSUME NEW t \in Tabs, NEW first \in FirstChats PROVE FirstPage(t, first) \in Pages
    OBVIOUS
  <2>1. PICK e : e = [job |-> 0, turn |-> t, reply |-> IF first = "writing" THEN "partial" ELSE "whole"]
    OBVIOUS
  <2>2. e \in Exchange
    BY <1>1, <2>1, TabsAssumption DEF Exchange
  <2>3. PICK chat : chat = IF first = "empty" THEN << >> ELSE << e >>
    OBVIOUS
  <2>4. chat \in Seq(Exchange) /\ (first = "writing" => chat # << >>)
    BY <2>2, <2>3
  <2>5. PICK live \in BOOLEAN : live = (first = "writing")
    OBVIOUS
  <2>6. FirstPage(t, first) = [chat |-> chat, live |-> live, banner |-> FALSE, notice |-> "none"]
    BY <2>1, <2>3, <2>5 DEF FirstPage
  <2>7. live => chat # << >>
    BY <2>4, <2>5
  <2>8. QED
    BY <2>4, <2>6, <2>7 DEF Pages, Page
<1>5. page \in [Tabs -> Pages]
  BY <1>4 DEF Init
<1>6. Idle \in Contents
  BY IdleIs DEF Contents, Idle
<1>7. NoActive \in ActiveRecord /\ 0 \in 0..MaxReloads
  BY NoTextIsText, TabsAssumption DEF NoActive, ActiveRecord
<1>8. jobs \in [Jobs -> Job] /\ ticket \in [Jobs -> BOOLEAN]
  BY NoJobIsJob DEF Init
<1>9. content \in [Tabs -> Contents] /\ inspection \in [Tabs -> Inspections]
  BY <1>6, RestingIs DEF Init
<1>10. QED
  BY <1>3, <1>5, <1>7, <1>8, <1>9, RestingIs DEF Init, Types

LEMMA NextTypes == Types /\ [Next]_vars => Types'
<1> SUFFICES ASSUME Types, [Next]_vars PROVE Types'
  OBVIOUS
<1>1. CASE SubmitJob \/ \E o \in Jobs : LeaseExpires(o) \/ Expire(o)
  BY <1>1, BridgeTypes
<1>2. ASSUME NEW t \in Tabs, ControllerStep(t) PROVE Types'
  BY <1>2, PollTypes, ProcessTypes, ReconcileTypes DEF ControllerStep, ContentNext
<1>3. ASSUME NEW t \in Tabs, InspectionStep(t) PROVE Types'
  BY <1>3, InspectTypes, LooksTypes, ReloadingTypes, ExhaustedTypes, EndingTypes
     DEF InspectionStep, RecoveryNext
<1>4. ASSUME NEW t \in Tabs, PageNext(t) PROVE Types'
  BY <1>4, PageTypes
<1>5. CASE UNCHANGED vars
  BY <1>5 DEF vars, Types
<1>6. QED
  BY <1>1, <1>2, <1>3, <1>4, <1>5 DEF Next

(* The inductive invariant of the types holds in every reachable state.    *)
THEOREM TypesInvariant == Spec => []Types
BY InitTypes, NextTypes, PTL DEF Spec

(* What the scripts hold and what they share keeps its type, for any number *)
(* of tabs: in particular no reference to an operation is followed that     *)
(* names none.                                                              *)
THEOREM BrowserTypesHold == Spec => []TypeOK
<1>1. Types => TypeOK
  BY DEF Types, TypeOK, Pages, Contents, Inspections
<1>2. QED
  BY <1>1, TypesInvariant, PTL

-----------------------------------------------------------------------------
(* A controller answers with a reply to its own prompt.  Between the        *)
(* snapshot and the response the only exchange that may get a reply is the  *)
(* last one, and while ChatGPT writes that is the operation's own: nothing  *)
(* is being written when the snapshot is taken, and only a send, or a       *)
(* reload, which starts the controller anew, lets ChatGPT write again.      *)

Sending == {"submit", "starting", "watch"}

AnswerOK(c, p) ==
  /\ c.text # NoText => c.text.job = c.op
  /\ c.pc \in Sending =>
       /\ p.live => p.chat[Len(p.chat)].job = c.op
       /\ \A i \in DOMAIN p.chat :
            p.chat[i].reply # "none" /\ p.chat[i].turn \notin c.snapshot => p.chat[i].job = c.op

AnswerInv == \A t \in Tabs : AnswerOK(content[t], page[t])

(* A controller that is done with its response.                            *)
Blank(c) == c.text = NoText /\ c.pc \notin Sending

LEMMA BlankOK ==
  ASSUME NEW c, NEW p, Blank(c)
  PROVE  AnswerOK(c, p)
BY DEF Blank, AnswerOK

LEMMA AnswerStep ==
  ASSUME AnswerInv, NEW t \in Tabs,
         \A u \in Tabs \ {t} : content'[u] = content[u] /\ page'[u] = page[u],
         AnswerOK(content'[t], page'[t])
  PROVE  AnswerInv'
<1> SUFFICES ASSUME NEW u \in Tabs PROVE AnswerOK(content'[u], page'[u])
  BY DEF AnswerInv, AnswerOK
<1>1. CASE u = t
  BY <1>1
<1>2. CASE u # t
  BY <1>2 DEF AnswerInv
<1>3. QED
  BY <1>1, <1>2

(* A step of the controller of t that leaves it blank or where it was.     *)
Blanks(t) == \E c : content' = [content EXCEPT ![t] = c] /\ Blank(c)

LEMMA BlanksOK ==
  ASSUME Types, AnswerInv, NEW t \in Tabs, Blanks(t),
         \A u \in Tabs \ {t} : page'[u] = page[u]
  PROVE  AnswerInv'
<1>1. PICK c : content' = [content EXCEPT ![t] = c] /\ Blank(c)
  BY DEF Blanks
<1>2. content'[t] = c /\ \A u \in Tabs \ {t} : content'[u] = content[u]
  BY <1>1 DEF Types
<1>3. AnswerOK(content'[t], page'[t])
  BY <1>1, <1>2, BlankOK
<1>4. QED
  BY <1>2, <1>3, AnswerStep

LEMMA BlankSteps ==
  ASSUME NEW t \in Tabs
  PROVE  /\ content' = Rest(t) => Blanks(t)
         /\ \A o : content' = Asked(t, o) => Blanks(t)
         /\ \A pc \in PCs \ Sending : content' = [content EXCEPT ![t] = After(t, pc)] => Blanks(t)
         /\ \A pc \in PCs \ Sending : \A ok :
              content' = [content EXCEPT ![t] = [After(t, pc) EXCEPT !.ok = ok]] => Blanks(t)
         /\ \A pc \in PCs \ Sending : \A next :
              content' = [content EXCEPT ![t] = [After(t, pc) EXCEPT !.next = next]] => Blanks(t)
<1>1. Blank([Idle EXCEPT !.start = content[t].start])
  BY DEF Blank, Idle, Sending
<1>2. \A o : Blank([Idle EXCEPT !.start = content[t].start, !.pc = "asked",
                            !.op = o, !.retries = RetryCount(jobs[o])])
  BY DEF Blank, Idle, Sending
<1>3. \A pc \in PCs \ Sending :
        /\ Blank(After(t, pc))
        /\ \A ok : Blank([After(t, pc) EXCEPT !.ok = ok])
        /\ \A next : Blank([After(t, pc) EXCEPT !.next = next])
  BY DEF Blank, After, Idle
<1>4. content' = Rest(t) => Blanks(t)
  BY <1>1 DEF Rest, Blanks
<1>5. \A o : content' = Asked(t, o) => Blanks(t)
  BY <1>2 DEF Asked, Blanks
<1>6. \A c : Blank(c) /\ content' = [content EXCEPT ![t] = c] => Blanks(t)
  BY DEF Blanks
<1>7. QED
  BY <1>3, <1>4, <1>5, <1>6

(* An operation that is over for the controller, or about to be.           *)
Ends(t) ==
  \E c : content' = [content EXCEPT ![t] = c] /\ Blank(c) /\ c.pc \in {"idle", "failing"}

LEMMA EndSteps ==
  ASSUME NEW t \in Tabs
  PROVE  /\ content' = Rest(t) => Ends(t)
         /\ \A ok : content' = [content EXCEPT ![t] = [After(t, "failing") EXCEPT !.ok = ok]] => Ends(t)
         /\ content' = [content EXCEPT ![t] = After(t, "failing")] => Ends(t)
<1>1. Blank([Idle EXCEPT !.start = content[t].start]) /\ [Idle EXCEPT !.start = content[t].start].pc = "idle"
  BY DEF Blank, Idle, Sending
<1>2. Blank(After(t, "failing")) /\ After(t, "failing").pc = "failing"
  BY DEF Blank, After, Idle, Sending
<1>3. \A ok : /\ Blank([After(t, "failing") EXCEPT !.ok = ok])
              /\ [After(t, "failing") EXCEPT !.ok = ok].pc = "failing"
  BY DEF Blank, After, Idle, Sending
<1>4. content' = Rest(t) => Ends(t)
  BY <1>1 DEF Rest, Ends
<1>5. \A c : Blank(c) /\ c.pc = "failing" /\ content' = [content EXCEPT ![t] = c] => Ends(t)
  BY DEF Ends
<1>6. QED
  BY <1>2, <1>3, <1>4, <1>5

LEMMA ThrowEnds ==
  ASSUME Types, NEW t \in Tabs, NEW e \in Errors \ {"none"}, Throw(t, e)
  PROVE  Ends(t) /\ UNCHANGED <<page, leader, ticket>>
<1>1. ASSUME NEW state, HandOver(t, state) PROVE Ends(t) /\ UNCHANGED <<page, leader, ticket>>
  BY <1>1, EndSteps DEF HandOver
<1>2. ASSUME NEW class, ReportFailure(t, class) PROVE Ends(t) /\ UNCHANGED <<page, leader, ticket>>
  <2>1. \E ok : content' = [content EXCEPT ![t] = [After(t, "failing") EXCEPT !.ok = ok]]
    BY <1>2 DEF ReportFailure
  <2>2. QED
    BY <1>2, <2>1, EndSteps DEF ReportFailure
<1>3. PICK retries \in Nat : retries = content[t].retries
  BY ControllerIs DEF Controller
<1>4. CASE e = "exhausted" /\ retries < 1
  <2>1. content[t].retries < 1 /\ ~ (content[t].retries >= 1)
    BY <1>3, <1>4
  <2>2. HandOver(t, [Monitoring(content[t].op, Latest(t)) EXCEPT !.phase = "context_exhausted"])
    BY <1>4, <2>1 DEF Throw
  <2>3. QED
    BY <1>1, <2>2
<1>5. CASE e = "timeout"
  BY <1>1, <1>5 DEF Throw
<1>6. CASE e = "exhausted" /\ ~ (retries < 1)
  <2>1. ~ (content[t].retries < 1) /\ content[t].retries >= 1
    BY <1>3, <1>6
  <2>2. ReportFailure(t, "context")
    BY <1>6, <2>1 DEF Throw
  <2>3. QED
    BY <1>2, <2>2
<1>7. CASE e = "permanent"
  BY <1>2, <1>7 DEF Throw
<1>8. CASE e = "controller"
  BY <1>2, <1>8 DEF Throw
<1>9. QED
  BY <1>4, <1>5, <1>6, <1>7, <1>8 DEF Errors

LEMMA FailsEnds ==
  ASSUME Types, NEW t \in Tabs,
         ComposerFails(t) \/ SubmitFails(t) \/ StartFails(t) \/ WatchFails(t) \/ FinishFails(t)
  PROVE  Ends(t) /\ UNCHANGED <<page, leader, ticket>>
<1>1. content[t].error # "none" => content[t].error \in Errors \ {"none"}
  BY ControllerIs
<1>2. {"exhausted", "permanent", "controller", "timeout"} = Errors \ {"none"}
  BY DEF Errors
<1>3. \E e \in Errors \ {"none"} : Throw(t, e)
  BY <1>1, <1>2 DEF ComposerFails, SubmitFails, StartFails, WatchFails, FinishFails
<1>4. QED
  BY <1>3, ThrowEnds

(* The text that is taken is one of those replies.                         *)
LEMMA ResponseIsOwn ==
  ASSUME Types, NEW t \in Tabs, AnswerOK(content[t], page[t]), content[t].pc \in Sending
  PROVE  Response(t) # NoText => Response(t).job = content[t].op
<1> SUFFICES ASSUME Response(t) # NoText PROVE Response(t).job = content[t].op
  OBVIOUS
<1>1. PICK chat \in Seq(Exchange) : chat = page[t].chat
  BY PageTexts
<1>2. PICK S : S = {i \in From(t, content[t].op) : chat[i].turn \notin content[t].snapshot}
  OBVIOUS
<1>3. S \in SUBSET (DOMAIN chat)
  BY <1>1, <1>2 DEF From
<1>4. Response(t) = LastReply(chat, S)
  BY <1>1, <1>2 DEF Response, Evidence
<1>5. PICK i \in S : chat[i].reply # "none" /\ Response(t) = ReplyText(chat[i])
  BY <1>3, <1>4, LastReplyIs
<1>6. chat[i].job = content[t].op
  BY <1>1, <1>2, <1>3, <1>5 DEF AnswerOK
<1>7. QED
  BY <1>5, <1>6 DEF ReplyText

(* What is sent, taken and watched for: one controller and its page.       *)
LEMMA LookOK ==
  ASSUME NEW c, NEW d, NEW p, AnswerOK(c, p),
         d.text = c.text, d.op = c.op, d.snapshot = c.snapshot,
         d.pc = c.pc \/ d.pc \notin Sending \/ c.pc \in Sending
  PROVE  AnswerOK(d, p)
BY DEF AnswerOK

LEMMA ComposeAnswers ==
  ASSUME Types, AnswerInv, NEW t \in Tabs, Compose(t)
  PROVE  AnswerInv'
<1>1. PICK c : c = [content[t] EXCEPT !.pc = "submit", !.snapshot = Replied(t)]
  OBVIOUS
<1>2. content' = [content EXCEPT ![t] = c] /\ page' = page
  BY <1>1 DEF Compose, Types
<1>3. c.text = content[t].text /\ c.op = content[t].op /\ c.snapshot = Replied(t)
  BY <1>1, ControllerIs DEF Controller
<1>4. ~ page[t].live
  BY DEF Compose
<1>5. \A i \in DOMAIN page[t].chat : page[t].chat[i].reply # "none" => page[t].chat[i].turn \in Replied(t)
  BY DEF Replied
<1>6. AnswerOK(c, page[t])
  BY <1>3, <1>4, <1>5 DEF AnswerInv, AnswerOK
<1>7. content'[t] = c /\ \A u \in Tabs \ {t} : content'[u] = content[u]
  BY <1>2 DEF Types
<1>8. QED
  BY <1>2, <1>6, <1>7, AnswerStep

LEMMA SubmitAnswers ==
  ASSUME Types, AnswerInv, NEW t \in Tabs, Submit(t)
  PROVE  AnswerInv'
<1>1. PICK c : c = [content[t] EXCEPT !.pc = "starting"]
  OBVIOUS
<1>2. content' = [content EXCEPT ![t] = c]
  BY <1>1 DEF Submit, Goto, Types
<1>3. c.text = content[t].text /\ c.op = content[t].op /\ c.snapshot = content[t].snapshot
  BY <1>1, ControllerIs DEF Controller
<1>4. content'[t] = c /\ \A u \in Tabs \ {t} : content'[u] = content[u]
  BY <1>2 DEF Types
<1>5. AnswerOK(content[t], page[t]) /\ content[t].pc \in Sending
  BY DEF AnswerInv, Submit, At, Sending
<1>6. CASE page' = page
  <2>1. AnswerOK(c, page[t])
    BY <1>3, <1>5, LookOK
  <2>2. QED
    BY <1>4, <1>6, <2>1, AnswerStep
<1>7. CASE page' = SendPrompt(t, content[t].op)
  <2>1. PICK old \in Seq(Exchange) : old = page[t].chat
    BY PageTexts
  <2>2. PICK e : e = [job |-> content[t].op, turn |-> turns + 1, reply |-> "none"]
    OBVIOUS
  <2>3. PICK p : p = [page[t] EXCEPT !.chat = Append(old, e), !.live = TRUE]
    OBVIOUS
  <2>4. page' = [page EXCEPT ![t] = p]
    BY <1>7, <2>1, <2>2, <2>3 DEF SendPrompt, Types
  <2>5. p.chat = Append(old, e)
    BY <2>3 DEF Types, Pages, Page
  <2>6. e.reply = "none" /\ e.job = content[t].op
    BY <2>2
  <2>7. Len(p.chat) = Len(old) + 1 /\ p.chat[Len(p.chat)] = e
    BY <2>1, <2>5
  <2>8. \A i \in DOMAIN p.chat : p.chat[i] = e \/ (i \in DOMAIN old /\ p.chat[i] = old[i])
    BY <2>1, <2>5
  <2>9. AnswerOK(c, p)
    BY <1>3, <1>5, <2>1, <2>6, <2>7, <2>8 DEF AnswerOK
  <2>10. page'[t] = p /\ \A u \in Tabs \ {t} : page'[u] = page[u]
    BY <2>4 DEF Types
  <2>11. QED
    BY <1>4, <2>9, <2>10, AnswerStep
<1>8. QED
  BY <1>6, <1>7 DEF Submit

LEMMA WaitAnswers ==
  ASSUME Types, AnswerInv, NEW t \in Tabs, Starts(t) \/ SeeNotice(t)
  PROVE  AnswerInv'
<1>1. page' = page
  BY DEF Starts, SeeNotice, shared
<1>2. PICK c : /\ content' = [content EXCEPT ![t] = c]
               /\ c.text = content[t].text /\ c.op = content[t].op
               /\ c.snapshot = content[t].snapshot /\ c.pc \in Sending
  <2>1. CASE Starts(t)
    <3>1. PICK c : c = [content[t] EXCEPT !.pc = "watch"]
      OBVIOUS
    <3>2. content' = [content EXCEPT ![t] = c]
      BY <2>1, <3>1 DEF Starts, Goto, Types
    <3>3. c.text = content[t].text /\ c.op = content[t].op
          /\ c.snapshot = content[t].snapshot /\ c.pc \in Sending
      BY <3>1, ControllerIs DEF Controller, Sending
    <3>4. QED
      BY <3>2, <3>3
  <2>2. CASE SeeNotice(t)
    <3>1. PICK c : c = [content[t] EXCEPT !.error =
                          IF page[t].notice = "exhausted" THEN "exhausted" ELSE "permanent"]
      OBVIOUS
    <3>2. content' = [content EXCEPT ![t] = c]
      BY <2>2, <3>1 DEF SeeNotice, Types
    <3>3. content[t].pc = "watch"
      BY <2>2 DEF SeeNotice, At
    <3>4. c.text = content[t].text /\ c.op = content[t].op
          /\ c.snapshot = content[t].snapshot /\ c.pc \in Sending
      BY <3>1, <3>3, ControllerIs DEF Controller, Sending
    <3>5. QED
      BY <3>2, <3>4
  <2>3. QED
    BY <2>1, <2>2
<1>3. content[t].pc \in Sending
  BY DEF Starts, SeeNotice, At, Sending
<1>4. AnswerOK(c, page[t])
  BY <1>2, <1>3, LookOK DEF AnswerInv
<1>5. content'[t] = c /\ \A u \in Tabs \ {t} : content'[u] = content[u]
  BY <1>2 DEF Types
<1>6. QED
  BY <1>1, <1>4, <1>5, AnswerStep

LEMMA ResponseAnswers ==
  ASSUME Types, AnswerInv, NEW t \in Tabs, SeeResponse(t)
  PROVE  AnswerInv'
<1>1. PICK c : c = [After(t, "finish") EXCEPT !.text = Response(t)]
  OBVIOUS
<1>2. content' = [content EXCEPT ![t] = c] /\ page' = page
  BY <1>1 DEF SeeResponse, shared
<1>3. c.text = Response(t) /\ c.op = content[t].op /\ c.pc \notin Sending
  BY <1>1 DEF After, Idle, Sending
<1>4. AnswerOK(content[t], page[t]) /\ content[t].pc \in Sending
  BY DEF AnswerInv, SeeResponse, At, Sending
<1>5. AnswerOK(c, page[t])
  BY <1>3, <1>4, ResponseIsOwn DEF AnswerOK
<1>6. content'[t] = c /\ \A u \in Tabs \ {t} : content'[u] = content[u]
  BY <1>2 DEF Types
<1>7. QED
  BY <1>2, <1>5, <1>6, AnswerStep

LEMMA ProcessAnswers ==
  ASSUME Types, AnswerInv, NEW t \in Tabs, Process(t)
  PROVE  AnswerInv'
<1>0. "finish" \in PCs \ Sending /\ "acked" \in PCs \ Sending /\ "failing" \in PCs \ Sending
  BY DEF PCs, Sending
<1>1. CASE Begin(t)
  <2>1. page' = page
    BY <1>1 DEF Begin
  <2>2. CASE content' = Rest(t)
    BY <2>1, <2>2, BlankSteps, BlanksOK
  <2>3. CASE content' = Goto(t, "composer")
    <3>1. PICK c : c = [content[t] EXCEPT !.pc = "composer"]
      OBVIOUS
    <3>2. c.text = content[t].text /\ c.op = content[t].op
          /\ c.snapshot = content[t].snapshot /\ c.pc \notin Sending
      BY <3>1, ControllerIs DEF Controller, Sending
    <3>3. AnswerOK(c, page[t])
      BY <3>2, LookOK DEF AnswerInv
    <3>4. content'[t] = c /\ \A u \in Tabs \ {t} : content'[u] = content[u]
      BY <2>3, <3>1 DEF Goto, Types
    <3>5. QED
      BY <2>1, <3>3, <3>4, AnswerStep
  <2>4. QED
    BY <1>1, <2>2, <2>3 DEF Begin
<1>2. CASE NewChat(t)
  <2>1. Blanks(t)
    BY <1>0, <1>2, BlankSteps DEF NewChat
  <2>2. \A u \in Tabs \ {t} : page'[u] = page[u]
    BY <1>2 DEF NewChat, Types
  <2>3. QED
    BY <2>1, <2>2, BlanksOK
<1>3. CASE Finish(t)
  <2>1. \E next : content' = [content EXCEPT ![t] = [After(t, "acked") EXCEPT !.next = next]]
    BY <1>3 DEF Finish
  <2>2. page' = page
    BY <1>3 DEF Finish
  <2>3. QED
    BY <1>0, <2>1, <2>2, BlankSteps, BlanksOK
<1>4. CASE Acked(t)
  <2>1. page' = page
    BY <1>4 DEF Acked
  <2>2. content' = Asked(t, content[t].next) \/ content' = Rest(t)
    BY <1>4 DEF Acked
  <2>3. QED
    BY <2>1, <2>2, BlankSteps, BlanksOK
<1>5. CASE FinishUnheard(t) \/ Failing(t)
  <2>1. page' = page
    BY <1>5 DEF FinishUnheard, Failing
  <2>2. content' = [content EXCEPT ![t] = After(t, "failing")] \/ content' = Rest(t)
    BY <1>5 DEF FinishUnheard, Failing
  <2>3. QED
    BY <1>0, <2>1, <2>2, BlankSteps, BlanksOK
<1>6. CASE ComposerFails(t) \/ SubmitFails(t) \/ StartFails(t) \/ WatchFails(t) \/ FinishFails(t)
  <2>1. Ends(t) /\ page' = page
    BY <1>6, FailsEnds
  <2>2. Blanks(t)
    BY <2>1 DEF Ends, Blanks
  <2>3. QED
    BY <2>1, <2>2, BlanksOK
<1>7. QED
  BY <1>1, <1>2, <1>3, <1>4, <1>5, <1>6, ComposeAnswers, SubmitAnswers, WaitAnswers, ResponseAnswers
     DEF Process

(* Polling and reconciling look at no response.                            *)
LEMMA PollAnswers ==
  ASSUME Types, AnswerInv, NEW t \in Tabs,
         \/ Poll(t) \/ PollRefused(t) \/ DropRecovery(t)
         \/ Reconcile(t) \/ ReconcileUnheard(t) \/ ClearActive(t)
  PROVE  AnswerInv'
<1>0. page' = page
  BY DEF Poll, PollRefused, DropRecovery, Reconcile, ReconcileUnheard, ClearActive, shared
<1>1. CASE Poll(t)
  <2>1. CASE \E o : content' = Asked(t, o)
    BY <1>0, <2>1, BlankSteps, BlanksOK
  <2>2. CASE content' = content
    BY <1>0, <2>2 DEF AnswerInv, AnswerOK
  <2>3. QED
    BY <1>1, <2>1, <2>2 DEF Poll
<1>2. CASE PollRefused(t) \/ DropRecovery(t)
  <2>1. PICK pc \in {"idle", "stale"} : content' = Goto(t, pc)
    BY <1>2 DEF PollRefused, DropRecovery
  <2>2. PICK c : c = [content[t] EXCEPT !.pc = pc]
    OBVIOUS
  <2>3. c.text = content[t].text /\ c.op = content[t].op
        /\ c.snapshot = content[t].snapshot /\ c.pc \notin Sending
    BY <2>2, ControllerIs DEF Controller, Sending
  <2>4. AnswerOK(c, page[t])
    BY <2>3, LookOK DEF AnswerInv
  <2>5. content'[t] = c /\ \A u \in Tabs \ {t} : content'[u] = content[u]
    BY <2>1, <2>2 DEF Goto, Types
  <2>6. QED
    BY <1>0, <2>4, <2>5, AnswerStep
<1>3. CASE Reconcile(t) \/ ReconcileUnheard(t) \/ ClearActive(t)
  <2>1. PICK start \in {"clear", "done"} : content' = [content EXCEPT ![t].start = start]
    BY <1>3 DEF Reconcile, ReconcileUnheard, ClearActive
  <2>2. PICK c : c = [content[t] EXCEPT !.start = start]
    OBVIOUS
  <2>3. c.text = content[t].text /\ c.op = content[t].op
        /\ c.snapshot = content[t].snapshot /\ c.pc = content[t].pc
    BY <2>2, ControllerIs DEF Controller
  <2>4. AnswerOK(c, page[t])
    BY <2>3, LookOK DEF AnswerInv
  <2>5. content'[t] = c /\ \A u \in Tabs \ {t} : content'[u] = content[u]
    BY <2>1, <2>2 DEF Types
  <2>6. QED
    BY <1>0, <2>4, <2>5, AnswerStep
<1>4. QED
  BY <1>1, <1>2, <1>3

(* ChatGPT adds to the last exchange, and only while it is at work.        *)
LEMMA PageAnswers ==
  ASSUME Types, AnswerInv, NEW t \in Tabs, PageNext(t)
  PROVE  AnswerInv'
<1>1. CASE Write(t)
  <2>1. PICK r \in {"partial", "whole"} : \E chat \in Seq(Exchange) :
          /\ page[t].live /\ LastTurn(t) \in DOMAIN page[t].chat
          /\ chat = [page[t].chat EXCEPT ![LastTurn(t)].reply = r]
          /\ page' = [page EXCEPT ![t].chat = chat]
          /\ chat # << >>
    BY <1>1, WriteIs
  <2>2. PICK chat \in Seq(Exchange) :
          /\ page[t].live /\ LastTurn(t) \in DOMAIN page[t].chat
          /\ chat = [page[t].chat EXCEPT ![LastTurn(t)].reply = r]
          /\ page' = [page EXCEPT ![t].chat = chat]
    BY <2>1
  <2>3. PICK old \in Seq(Exchange) : old = page[t].chat
    BY PageTexts
  <2>4. PICK n \in 1..Len(old) : n = Len(old)
    BY <2>2, <2>3 DEF LastTurn
  <2>5. chat = [old EXCEPT ![n].reply = r]
    BY <2>2, <2>3, <2>4 DEF LastTurn
  <2>6. PICK e \in Exchange : e = old[n]
    BY <2>3, <2>4
  <2>7. [e EXCEPT !.reply = r].job = e.job
    BY <2>6 DEF Exchange
  <2>8. Len(chat) = n /\ chat[n].job = e.job /\ \A i \in DOMAIN chat : i # n => chat[i] = old[i]
    BY <2>3, <2>4, <2>5, <2>6, <2>7
  <2>9. PICK p : p = [page[t] EXCEPT !.chat = chat]
    OBVIOUS
  <2>10. p.chat = chat /\ page' = [page EXCEPT ![t] = p] /\ DOMAIN chat = DOMAIN old
    BY <2>2, <2>3, <2>5, <2>9 DEF Types, Pages, Page
  <2>11. AnswerOK(content[t], page[t])
    BY DEF AnswerInv
  <2>12. content[t].pc \in Sending => e.job = content[t].op
    BY <2>2, <2>3, <2>4, <2>6, <2>11 DEF AnswerOK
  <2>13. AnswerOK(content[t], p)
    <3>1. content[t].text # NoText => content[t].text.job = content[t].op
      BY <2>11 DEF AnswerOK
    <3>2. ASSUME content[t].pc \in Sending PROVE p.chat[Len(p.chat)].job = content[t].op
      BY <2>8, <2>10, <2>12, <3>2
    <3>3. ASSUME content[t].pc \in Sending, NEW i \in DOMAIN p.chat,
                 p.chat[i].reply # "none", p.chat[i].turn \notin content[t].snapshot
          PROVE  p.chat[i].job = content[t].op
      <4>1. CASE i = n
        BY <2>8, <2>10, <2>12, <3>3, <4>1
      <4>2. CASE i # n
        BY <2>3, <2>8, <2>10, <2>11, <3>3, <4>2 DEF AnswerOK
      <4>3. QED
        BY <4>1, <4>2
    <3>4. QED
      BY <3>1, <3>2, <3>3 DEF AnswerOK
  <2>14. page'[t] = p /\ \A u \in Tabs \ {t} : page'[u] = page[u]
    BY <2>10 DEF Types
  <2>15. content' = content
    BY <1>1 DEF Write, PageMoves, scripts
  <2>16. QED
    BY <2>13, <2>14, <2>15, AnswerStep
<1>2. CASE StopWriting(t) \/ ConnectionLost(t) \/ ShowNotice(t) \/ DropNotice(t)
  <2>1. PICK p : PageMoves(t, p) /\ (p.live => page[t].live) /\ p.chat = page[t].chat
    BY <1>2, MovesAre
  <2>2. AnswerOK(content[t], p)
    BY <2>1 DEF AnswerInv, AnswerOK
  <2>3. page'[t] = p /\ (\A u \in Tabs \ {t} : page'[u] = page[u]) /\ content' = content
    BY <2>1 DEF PageMoves, scripts, Types
  <2>4. QED
    BY <2>2, <2>3, AnswerStep
<1>3. CASE Reload(t)
  <2>1. Blank([Idle EXCEPT !.start = "begin"])
    BY DEF Blank, Idle, Sending
  <2>2. Blanks(t)
    BY <1>3, <2>1 DEF Reload, Blanks
  <2>3. \A u \in Tabs \ {t} : page'[u] = page[u]
    BY <1>3 DEF Reload, Types
  <2>4. QED
    BY <2>2, <2>3, BlanksOK
<1>4. QED
  BY <1>1, <1>2, <1>3 DEF PageNext

(* An inspection touches neither a page nor a controller.                  *)
LEMMA InspectionsLook ==
  ASSUME NEW t \in Tabs, InspectionStep(t)
  PROVE  UNCHANGED <<page, content, leader, ticket>>
BY DEF InspectionStep, RecoveryNext, Inspect, InspectActive, StartMonitoring, InspectMissing,
       InspectFinished, InspectRetry, InspectMonitoring, InspectReloaded, PreserveFirst, Preserve,
       Decide, AfterReload, Grace, InspectExhausted, ReplaceChat, NameNewChat, NewChatReady,
       NewChatLate, Requeue, Requeued, FinishExisting, Clear, tabVars

LEMMA InitAnswers == Init => AnswerInv
<1> SUFFICES ASSUME Init, NEW t \in Tabs PROVE AnswerOK(content[t], page[t])
  BY DEF AnswerInv
<1>1. Blank(content[t])
  BY DEF Init, Blank, Idle, Sending
<1>2. QED
  BY <1>1, BlankOK

LEMMA NextAnswers == Types /\ AnswerInv /\ [Next]_vars => AnswerInv'
<1> SUFFICES ASSUME Types, AnswerInv, [Next]_vars PROVE AnswerInv'
  OBVIOUS
<1>1. CASE content' = content /\ page' = page
  BY <1>1 DEF AnswerInv, AnswerOK
<1>2. CASE SubmitJob \/ \E o \in Jobs : LeaseExpires(o) \/ Expire(o)
  BY <1>1, <1>2 DEF SubmitJob, LeaseExpires, Expire, scripts
<1>3. ASSUME NEW t \in Tabs, ControllerStep(t) PROVE AnswerInv'
  BY <1>3, ProcessAnswers, PollAnswers DEF ControllerStep, ContentNext
<1>4. ASSUME NEW t \in Tabs, InspectionStep(t) PROVE AnswerInv'
  BY <1>1, <1>4, InspectionsLook
<1>5. ASSUME NEW t \in Tabs, PageNext(t) PROVE AnswerInv'
  BY <1>5, PageAnswers
<1>6. CASE UNCHANGED vars
  BY <1>1, <1>6 DEF vars
<1>7. QED
  BY <1>2, <1>3, <1>4, <1>5, <1>6 DEF Next

(* For any number of tabs, prompts and reloads, a controller completes its  *)
(* operation with a text that answers that operation's prompt, whatever     *)
(* the page was doing when the prompt was sent (content.js:617-632).        *)
THEOREM AnswersAreOwn == Spec => []OwnAnswer
<1>1. AnswerInv => OwnAnswer
  BY DEF AnswerInv, AnswerOK, OwnAnswer
<1>2. QED
  BY <1>1, InitTypes, NextTypes, InitAnswers, NextAnswers, PTL DEF Spec

-----------------------------------------------------------------------------
(* A prompt is sent once for each time the bridge handed it out.  The      *)
(* claim is good until the prompt is sent, since only the tab that holds   *)
(* the controller lease is at work; this takes a lease that no other tab   *)
(* takes over while its holder works, or a single tab.                     *)

OneWorks == ~Lapses \/ \E t \in Tabs : Tabs = {t}

SendOK(t) ==
  /\ content[t].pc \in {"asked", "composer", "submit"} => ticket[content[t].op]
  /\ content[t].pc = "acked" /\ content[t].next # 0 => ticket[content[t].next]
  /\ content[t].pc # "idle" => leader = t \/ Tabs = {t}

SendInv == \A t \in Tabs : SendOK(t)

LEMMA ClaimIsSafe ==
  ASSUME OneWorks, NEW t \in Tabs, ClaimController(t)
  PROVE  leader' = t /\ \A u \in Tabs \ {t} : leader # u
<1>1. 0 \notin Tabs
  BY TabsAssumption
<1>2. leader' = t
  BY DEF ClaimController
<1>3. CASE ~ Lapses
  BY <1>1, <1>2, <1>3 DEF ClaimController
<1>4. CASE \E v \in Tabs : Tabs = {v}
  BY <1>2, <1>4
<1>5. QED
  BY <1>3, <1>4 DEF OneWorks

(* What the controllers of the other tabs rely on when t moves.            *)
LEMMA SendStep ==
  ASSUME Types, SendInv, NEW t \in Tabs,
         \A u \in Tabs \ {t} : content'[u] = content[u],
         \A o \in Jobs : ticket[o] => ticket'[o],
         leader' = leader \/ (leader' = t /\ \A u \in Tabs \ {t} : leader # u),
         SendOK(t)'
  PROVE  SendInv'
<1> SUFFICES ASSUME NEW u \in Tabs, u # t PROVE SendOK(u)'
  BY DEF SendInv
<1>1. content'[u] = content[u] /\ SendOK(u)
  BY DEF SendInv
<1>2. content[u].pc \in {"asked", "composer", "submit"} => content[u].op \in Jobs
  BY ControllerIs
<1>3. content[u].next # 0 => content[u].next \in Jobs
  BY ControllerIs, TabsAssumption DEF Jobs
<1>4. content[u].pc # "idle" => leader' = u \/ Tabs = {u}
  BY <1>1 DEF SendOK
<1>5. QED
  BY <1>1, <1>2, <1>3, <1>4 DEF SendOK

(* A step to a place where nothing is left to send.                        *)
LEMMA QuietStep ==
  ASSUME Types, SendInv, NEW t \in Tabs, NEW c,
         content' = [content EXCEPT ![t] = c],
         c.pc \notin {"asked", "composer", "submit", "acked"},
         c.pc = "idle" \/ content[t].pc # "idle",
         UNCHANGED <<leader, ticket>>
  PROVE  SendInv'
<1>1. content'[t] = c /\ \A u \in Tabs \ {t} : content'[u] = content[u]
  BY DEF Types
<1>2. SendOK(t)'
  BY <1>1 DEF SendInv, SendOK
<1>3. QED
  BY <1>1, <1>2, SendStep

LEMMA EndsSends ==
  ASSUME Types, SendInv, NEW t \in Tabs, content[t].pc # "idle", Ends(t),
         UNCHANGED <<leader, ticket>>
  PROVE  SendInv'
<1>1. PICK c : content' = [content EXCEPT ![t] = c] /\ c.pc \in {"idle", "failing"}
  BY DEF Ends
<1>2. QED
  BY <1>1, QuietStep

LEMMA AskedIs ==
  ASSUME Types, NEW t \in Tabs, NEW o, content' = Asked(t, o)
  PROVE  /\ content'[t].pc = "asked" /\ content'[t].op = o
         /\ \A u \in Tabs \ {t} : content'[u] = content[u]
<1>1. PICK c : c = [Idle EXCEPT !.start = content[t].start, !.pc = "asked",
                                !.op = o, !.retries = RetryCount(jobs[o])]
  OBVIOUS
<1>2. c.pc = "asked" /\ c.op = o
  BY <1>1 DEF Idle
<1>3. content' = [content EXCEPT ![t] = c]
  BY <1>1 DEF Asked
<1>4. QED
  BY <1>2, <1>3 DEF Types

LEMMA GotoIs ==
  ASSUME Types, NEW t \in Tabs, NEW pc, content' = Goto(t, pc)
  PROVE  /\ content'[t].pc = pc /\ content'[t].op = content[t].op
         /\ \A u \in Tabs \ {t} : content'[u] = content[u]
<1>1. PICK c : c = [content[t] EXCEPT !.pc = pc]
  OBVIOUS
<1>2. c.pc = pc /\ c.op = content[t].op
  BY <1>1, ControllerIs DEF Controller
<1>3. content' = [content EXCEPT ![t] = c]
  BY <1>1 DEF Goto, Types
<1>4. QED
  BY <1>2, <1>3 DEF Types

LEMMA PollSends ==
  ASSUME Types, SendInv, OneWorks, NEW t \in Tabs,
         Poll(t) \/ PollRefused(t) \/ DropRecovery(t)
  PROVE  SendInv'
<1>1. CASE Poll(t)
  <2>1. PICK o \in Jobs : /\ ticket' = [ticket EXCEPT ![o] = TRUE]
                          /\ content' = Asked(t, o) \/ content' = content
    BY <1>1 DEF Poll, OldestQueued, QueuedJobs
  <2>2. leader' = t /\ \A u \in Tabs \ {t} : leader # u
    BY <1>1, ClaimIsSafe DEF Poll
  <2>3. ticket'[o] /\ \A p \in Jobs : ticket[p] => ticket'[p]
    BY <2>1 DEF Types
  <2>4. CASE content' = Asked(t, o)
    <3>1. SendOK(t)'
      BY <2>2, <2>3, <2>4, AskedIs DEF SendOK
    <3>2. QED
      BY <2>2, <2>3, <2>4, <3>1, AskedIs, SendStep
  <2>5. CASE content' = content
    <3>1. SendOK(t)'
      BY <1>1, <2>5 DEF Poll, At, SendOK
    <3>2. QED
      BY <2>2, <2>3, <2>5, <3>1, SendStep
  <2>6. QED
    BY <2>1, <2>4, <2>5
<1>2. CASE PollRefused(t)
  <2>1. leader' = t /\ \A u \in Tabs \ {t} : leader # u
    BY <1>2, ClaimIsSafe DEF PollRefused
  <2>2. content' = Goto(t, "stale") /\ ticket' = ticket
    BY <1>2 DEF PollRefused
  <2>3. SendOK(t)'
    BY <2>1, <2>2, GotoIs DEF SendOK
  <2>4. QED
    BY <2>1, <2>2, <2>3, GotoIs, SendStep
<1>3. CASE DropRecovery(t)
  <2>1. content' = Goto(t, "idle") /\ UNCHANGED <<leader, ticket>>
    BY <1>3 DEF DropRecovery
  <2>2. SendOK(t)'
    BY <2>1, GotoIs DEF SendOK
  <2>3. QED
    BY <2>1, <2>2, GotoIs, SendStep
<1>4. QED
  BY <1>1, <1>2, <1>3

(* The one step that uses a claim up: every other controller is idle.      *)
LEMMA SubmitSends ==
  ASSUME Types, SendInv, NEW t \in Tabs, Submit(t)
  PROVE  SendInv'
<1>1. content' = Goto(t, "starting") /\ leader' = leader /\ content[t].pc = "submit"
  BY DEF Submit, At
<1>2. SendOK(t)'
  BY <1>1, GotoIs DEF SendInv, SendOK
<1>3. ASSUME NEW u \in Tabs, u # t PROVE SendOK(u)'
  <2>1. content[u].pc # "idle" => leader = u
    BY <1>3 DEF SendInv, SendOK
  <2>2. leader = t \/ Tabs = {t}
    BY <1>1 DEF SendInv, SendOK
  <2>3. content[u].pc = "idle"
    BY <1>3, <2>1, <2>2
  <2>4. content'[u] = content[u]
    BY <1>1, <1>3, GotoIs
  <2>5. QED
    BY <2>3, <2>4 DEF SendOK
<1>4. QED
  BY <1>2, <1>3 DEF SendInv

LEMMA ProcessSends ==
  ASSUME Types, SendInv, OneWorks, NEW t \in Tabs, Process(t)
  PROVE  SendInv'
<1>0. SendOK(t)
  BY DEF SendInv
<1>1. CASE Begin(t)
  <2>1. ticket' = ticket /\ content[t].pc = "asked"
    BY <1>1 DEF Begin, At
  <2>2. CASE ClaimController(t) /\ content' = Goto(t, "composer")
    <3>1. leader' = t /\ \A u \in Tabs \ {t} : leader # u
      BY <2>2, ClaimIsSafe
    <3>2. SendOK(t)'
      BY <1>0, <2>1, <2>2, <3>1, GotoIs DEF SendOK
    <3>3. QED
      BY <2>1, <2>2, <3>1, <3>2, GotoIs, SendStep
  <2>3. CASE content' = Rest(t) /\ leader' = leader
    BY <2>1, <2>3, EndSteps, EndsSends
  <2>4. QED
    BY <1>1, <2>2, <2>3 DEF Begin
<1>2. CASE NewChat(t)
  <2>1. content' = [content EXCEPT ![t] = After(t, "finish")] /\ UNCHANGED <<leader, ticket>>
    BY <1>2 DEF NewChat
  <2>2. After(t, "finish").pc = "finish" /\ content[t].pc = "composer"
    BY <1>2 DEF After, Idle, NewChat, At
  <2>3. QED
    BY <2>1, <2>2, QuietStep
<1>3. CASE Compose(t)
  <2>1. PICK c : c = [content[t] EXCEPT !.pc = "submit", !.snapshot = Replied(t)]
    OBVIOUS
  <2>2. c.pc = "submit" /\ c.op = content[t].op
    BY <2>1, ControllerIs DEF Controller
  <2>3. /\ content' = [content EXCEPT ![t] = c] /\ UNCHANGED <<leader, ticket>>
        /\ content[t].pc = "composer"
    BY <1>3, <2>1 DEF Compose, At, Types
  <2>4. content'[t] = c /\ \A u \in Tabs \ {t} : content'[u] = content[u]
    BY <2>3 DEF Types
  <2>5. SendOK(t)'
    BY <1>0, <2>2, <2>3, <2>4 DEF SendOK
  <2>6. QED
    BY <2>3, <2>4, <2>5, SendStep
<1>4. CASE Starts(t)
  <2>1. PICK c : c = [content[t] EXCEPT !.pc = "watch"]
    OBVIOUS
  <2>2. c.pc = "watch"
    BY <2>1, ControllerIs DEF Controller
  <2>3. content' = [content EXCEPT ![t] = c] /\ UNCHANGED <<leader, ticket>> /\ content[t].pc = "starting"
    BY <1>4, <2>1 DEF Starts, Goto, At, shared, Types
  <2>4. QED
    BY <2>2, <2>3, QuietStep
<1>5. CASE SeeNotice(t)
  <2>1. PICK c : c = [content[t] EXCEPT !.error =
                        IF page[t].notice = "exhausted" THEN "exhausted" ELSE "permanent"]
    OBVIOUS
  <2>2. content[t].pc = "watch" /\ c.pc = content[t].pc
    BY <1>5, <2>1, ControllerIs DEF Controller, SeeNotice, At
  <2>3. content' = [content EXCEPT ![t] = c] /\ UNCHANGED <<leader, ticket>>
    BY <1>5, <2>1 DEF SeeNotice, shared, Types
  <2>4. QED
    BY <2>2, <2>3, QuietStep
<1>6. CASE SeeResponse(t)
  <2>1. PICK c : c = [After(t, "finish") EXCEPT !.text = Response(t)]
    OBVIOUS
  <2>2. content' = [content EXCEPT ![t] = c] /\ UNCHANGED <<leader, ticket>> /\ content[t].pc = "watch"
    BY <1>6, <2>1 DEF SeeResponse, At, shared
  <2>3. c.pc = "finish"
    BY <2>1 DEF After, Idle
  <2>4. QED
    BY <2>2, <2>3, QuietStep
<1>7. CASE Finish(t)
  <2>1. PICK c : c = [After(t, "acked") EXCEPT !.next = HandedOver(jobs', content[t].op)]
    OBVIOUS
  <2>2. content' = [content EXCEPT ![t] = c] /\ leader' = leader /\ content[t].pc = "finish"
    BY <1>7, <2>1 DEF Finish, At
  <2>3. c.pc = "acked" /\ c.next = Successor(jobs', content[t].op)
    BY <2>1 DEF After, Idle, HandedOver
  <2>4. jobs' \in [Jobs -> Job] /\ content[t].op \in Jobs
    BY <1>7, <2>2, FinishTypes, ControllerIs DEF Finish, Types
  <2>5. c.next # 0 => c.next \in Jobs
    BY <2>3, <2>4, SuccessorTypes, TabsAssumption DEF Jobs
  <2>6. ticket' = [p \in Jobs |-> ticket[p] \/ p = Successor(jobs', content[t].op)]
    BY <1>7 DEF Finish
  <2>7. (c.next # 0 => ticket'[c.next]) /\ \A p \in Jobs : ticket[p] => ticket'[p]
    BY <2>3, <2>5, <2>6
  <2>8. content'[t] = c /\ \A u \in Tabs \ {t} : content'[u] = content[u]
    BY <2>2 DEF Types
  <2>9. SendOK(t)'
    BY <1>0, <2>2, <2>3, <2>7, <2>8 DEF SendOK
  <2>10. QED
    BY <2>2, <2>7, <2>8, <2>9, SendStep
<1>8. CASE Acked(t)
  <2>1. UNCHANGED <<leader, ticket>> /\ content[t].pc = "acked"
    BY <1>8 DEF Acked, At
  <2>2. CASE content[t].next # 0 /\ content' = Asked(t, content[t].next)
    <3>1. SendOK(t)'
      BY <1>0, <2>1, <2>2, AskedIs DEF SendOK
    <3>2. QED
      BY <2>1, <2>2, <3>1, AskedIs, SendStep
  <2>3. CASE content' = Rest(t)
    BY <2>1, <2>3, EndSteps, EndsSends
  <2>4. QED
    BY <1>8, <2>2, <2>3 DEF Acked
<1>9. CASE ComposerFails(t) \/ SubmitFails(t) \/ StartFails(t) \/ WatchFails(t) \/ FinishFails(t)
  <2>1. content[t].pc # "idle"
    BY <1>9 DEF ComposerFails, SubmitFails, StartFails, WatchFails, FinishFails, At
  <2>2. QED
    BY <1>9, <2>1, FailsEnds, EndsSends
<1>10. CASE FinishUnheard(t) \/ Failing(t)
  <2>1. content[t].pc # "idle" /\ UNCHANGED <<leader, ticket>>
    BY <1>10 DEF FinishUnheard, Failing, At
  <2>2. content' = [content EXCEPT ![t] = After(t, "failing")] \/ content' = Rest(t)
    BY <1>10 DEF FinishUnheard, Failing
  <2>3. QED
    BY <2>1, <2>2, EndSteps, EndsSends
<1>11. QED
  BY <1>1, <1>2, <1>3, <1>4, <1>5, <1>6, <1>7, <1>8, <1>9, <1>10, SubmitSends DEF Process

LEMMA ReconcileSends ==
  ASSUME Types, SendInv, NEW t \in Tabs, Reconcile(t) \/ ReconcileUnheard(t) \/ ClearActive(t)
  PROVE  SendInv'
<1>1. PICK start \in {"clear", "done"} : content' = [content EXCEPT ![t].start = start]
  BY DEF Reconcile, ReconcileUnheard, ClearActive
<1>2. PICK c : c = [content[t] EXCEPT !.start = start]
  OBVIOUS
<1>3. c.pc = content[t].pc /\ c.op = content[t].op /\ c.next = content[t].next
  BY <1>2, ControllerIs DEF Controller
<1>4. content'[t] = c /\ \A u \in Tabs \ {t} : content'[u] = content[u]
  BY <1>1, <1>2 DEF Types
<1>5. UNCHANGED <<leader, ticket>>
  BY DEF Reconcile, ReconcileUnheard, ClearActive, shared
<1>6. SendOK(t)'
  BY <1>3, <1>4, <1>5 DEF SendInv, SendOK
<1>7. QED
  BY <1>4, <1>5, <1>6, SendStep

LEMMA InitSends == Init => SendInv
BY DEF Init, SendInv, SendOK, Idle

LEMMA NextSends ==
  ASSUME OneWorks
  PROVE  Types /\ SendInv /\ [Next]_vars => SendInv'
<1> SUFFICES ASSUME Types, SendInv, [Next]_vars PROVE SendInv'
  OBVIOUS
<1>1. CASE UNCHANGED <<content, leader, ticket>>
  BY <1>1 DEF SendInv, SendOK
<1>2. CASE SubmitJob \/ \E o \in Jobs : LeaseExpires(o) \/ Expire(o)
  BY <1>1, <1>2 DEF SubmitJob, LeaseExpires, Expire, scripts
<1>3. ASSUME NEW t \in Tabs, ControllerStep(t) PROVE SendInv'
  BY <1>3, ProcessSends, PollSends, ReconcileSends DEF ControllerStep, ContentNext
<1>4. ASSUME NEW t \in Tabs, InspectionStep(t) PROVE SendInv'
  BY <1>1, <1>4, InspectionsLook
<1>5. ASSUME NEW t \in Tabs, PageNext(t) PROVE SendInv'
  <2>1. CASE Reload(t)
    <3>1. PICK c : c = [Idle EXCEPT !.start = "begin"]
      OBVIOUS
    <3>2. content' = [content EXCEPT ![t] = c] /\ c.pc = "idle" /\ UNCHANGED <<leader, ticket>>
      BY <2>1, <3>1 DEF Reload, Idle
    <3>3. QED
      BY <3>2, QuietStep
  <2>2. CASE ~ Reload(t)
    BY <1>1, <1>5, <2>2
       DEF PageNext, Write, StopWriting, ConnectionLost, ShowNotice, DropNotice, PageMoves, scripts
  <2>3. QED
    BY <2>1, <2>2
<1>6. CASE UNCHANGED vars
  BY <1>1, <1>6 DEF vars
<1>7. QED
  BY <1>2, <1>3, <1>4, <1>5, <1>6 DEF Next

(* A tab where a prompt of o appears.                                      *)
Sends(t, o) ==
  /\ page'[t].chat # page[t].chat
  /\ Len(page'[t].chat) > LastTurn(t)
  /\ page'[t].chat[LastTurn(t) + 1].job = o

(* Only Submit makes one appear.                                           *)
LEMMA OnlySubmitSends ==
  ASSUME Types, [Next]_vars, NEW t \in Tabs, NEW o \in Jobs, Sends(t, o)
  PROVE  Submit(t) /\ content[t].op = o
<1>0. page'[t] # page[t]
  BY DEF Sends
<1>1. ~ UNCHANGED vars
  BY <1>0 DEF vars
<1>2. ~ (SubmitJob \/ \E p \in Jobs : LeaseExpires(p) \/ Expire(p))
  BY <1>0 DEF SubmitJob, LeaseExpires, Expire
<1>3. \A u \in Tabs : ~ InspectionStep(u)
  BY <1>0, InspectionsLook
<1>4. ASSUME NEW u \in Tabs, PageNext(u) PROVE FALSE
  <2>1. CASE Write(u)
    <3>1. PICK r \in {"partial", "whole"} : \E chat \in Seq(Exchange) :
            /\ page[u].live /\ LastTurn(u) \in DOMAIN page[u].chat
            /\ chat = [page[u].chat EXCEPT ![LastTurn(u)].reply = r]
            /\ page' = [page EXCEPT ![u].chat = chat]
            /\ chat # << >>
      BY <2>1, WriteIs
    <3>2. PICK chat \in Seq(Exchange) :
            /\ chat = [page[u].chat EXCEPT ![LastTurn(u)].reply = r]
            /\ page' = [page EXCEPT ![u].chat = chat]
      BY <3>1
    <3>3. PICK old \in Seq(Exchange) : old = page[u].chat
      BY PageTexts
    <3>4. Len(chat) = Len(old)
      BY <3>2, <3>3
    <3>5. u = t
      BY <1>0, <3>2 DEF Types
    <3>6. page'[t].chat = chat
      BY <3>2, <3>5 DEF Types, Pages, Page
    <3>7. QED
      BY <3>3, <3>4, <3>5, <3>6 DEF Sends, LastTurn
  <2>2. CASE StopWriting(u) \/ ConnectionLost(u) \/ ShowNotice(u) \/ DropNotice(u)
    <3>1. PICK p : PageMoves(u, p) /\ p.chat = page[u].chat
      BY <2>2, MovesAre
    <3>2. page'[t].chat = page[t].chat
      BY <3>1 DEF PageMoves, Types
    <3>3. QED
      BY <3>2 DEF Sends
  <2>3. CASE Reload(u)
    <3>1. page'[t].chat = page[t].chat
      BY <2>3 DEF Reload, Types, Pages, Page
    <3>2. QED
      BY <3>1 DEF Sends
  <2>4. QED
    BY <1>4, <2>1, <2>2, <2>3 DEF PageNext
<1>5. PICK u \in Tabs : NewChat(u) \/ Submit(u)
  <2>1. PICK u \in Tabs : ContentNext(u)
    BY <1>1, <1>2, <1>3, <1>4 DEF Next, ControllerStep
  <2>2. CASE ComposerFails(u) \/ SubmitFails(u) \/ StartFails(u) \/ WatchFails(u) \/ FinishFails(u)
    BY <1>0, <2>2, FailsEnds
  <2>3. CASE ~ (ComposerFails(u) \/ SubmitFails(u) \/ StartFails(u) \/ WatchFails(u) \/ FinishFails(u))
    BY <1>0, <2>1, <2>3 DEF ContentNext, Process, Poll, PollRefused, DropRecovery, Reconcile,
         ReconcileUnheard, ClearActive, Begin, Compose, Starts, SeeNotice, SeeResponse, Finish,
         Acked, FinishUnheard, Failing, shared
  <2>4. QED
    BY <2>2, <2>3
<1>6. u = t
  BY <1>0, <1>5 DEF NewChat, Submit, SendPrompt, Types
<1>7. PICK old \in Seq(Exchange) : old = page[t].chat
  BY PageTexts
<1>8. ASSUME NewChat(t) PROVE FALSE
  <2>1. page'[t].chat = << >>
    BY <1>8 DEF NewChat, Types, Pages, Page
  <2>2. QED
    BY <1>7, <2>1 DEF Sends, LastTurn
<1>9. Submit(t)
  BY <1>5, <1>6, <1>8
<1>10. PICK e : e = [job |-> content[t].op, turn |-> turns + 1, reply |-> "none"]
  OBVIOUS
<1>11. page' = SendPrompt(t, content[t].op)
  BY <1>0, <1>9 DEF Submit
<1>12. page'[t].chat = Append(old, e)
  BY <1>7, <1>10, <1>11 DEF SendPrompt, Types, Pages, Page
<1>13. Append(old, e)[Len(old) + 1] = e
  BY <1>7
<1>14. page'[t].chat[LastTurn(t) + 1].job = content[t].op
  BY <1>7, <1>10, <1>12, <1>13 DEF LastTurn
<1>15. QED
  BY <1>9, <1>14 DEF Sends

(* With one tab, or with a lease that does not lapse while its holder is    *)
(* at work, a prompt goes to ChatGPT at most once for each time the bridge  *)
(* handed it out, across retries, handoffs, lost replies and reloads        *)
(* (content.js:1418-1420).                                                  *)
THEOREM PromptsAreSentOnce ==
  ASSUME OneWorks
  PROVE  Spec => SentOncePerClaim
<1> DEFINE Claimed == \A t \in Tabs : \A o \in Jobs : Sends(t, o) => ticket[o]
<1>1. Types /\ SendInv /\ [Next]_vars => Claimed
  <2> SUFFICES ASSUME Types, SendInv, [Next]_vars, NEW t \in Tabs, NEW o \in Jobs, Sends(t, o)
               PROVE  ticket[o]
    OBVIOUS
  <2>1. Submit(t) /\ content[t].op = o
    BY OnlySubmitSends
  <2>2. QED
    BY <2>1 DEF SendInv, SendOK, Submit, At
<1>2. Types /\ SendInv /\ [Next]_vars => SendInv'
  BY NextSends
<1>3. Types /\ SendInv /\ [Next]_vars =>
        [\A t \in Tabs : \A o \in Jobs :
           page'[t].chat # page[t].chat /\ Len(page'[t].chat) > LastTurn(t)
             /\ page'[t].chat[LastTurn(t) + 1].job = o
           => ticket[o]]_vars
  BY <1>1 DEF Sends
<1>4. QED
  BY <1>2, <1>3, InitTypes, NextTypes, InitSends, PTL DEF Spec, SentOncePerClaim

=============================================================================
