-------------------------- MODULE BrowserController ---------------------------
(***************************************************************************)
(* The browser side of the bridge as a whole: the controller and the       *)
(* inspection of every tab, ChatGPT's page, the user who may reload it,    *)
(* submitters, and the clock of the bridge.                                *)
(***************************************************************************)
EXTENDS RecoveryScript, FiniteSets

VARIABLE reloads  \* reloads that recovery.js did not ask for

vars == <<jobs, page, turns, active, recovery, leader, ticket, content, inspection, reloads>>

scripts == <<active, recovery, leader, ticket, content, inspection>>

LastTurn(t) == Len(page[t].chat)

(* What a tab shows at first: nothing, an answer of the user's own         *)
(* conversation, or one that is being written.                             *)
FirstPage(t, first) ==
  [chat   |-> IF first = "empty" THEN << >>
              ELSE <<[job |-> 0, turn |-> t, reply |-> IF first = "writing" THEN "partial" ELSE "whole"]>>,
   live   |-> first = "writing",
   banner |-> FALSE,
   notice |-> "none"]

(* Both scripts have started in every tab and found nothing to reconcile.  *)
Init ==
  /\ jobs = [o \in Jobs |-> NoJob]
  /\ \E first \in [Tabs -> FirstChats] : page = [t \in Tabs |-> FirstPage(t, first[t])]
  /\ turns = Cardinality(Tabs)
  /\ active = NoActive
  /\ recovery = NoRecovery
  /\ leader = 0
  /\ ticket = [o \in Jobs |-> FALSE]
  /\ content = [t \in Tabs |-> Idle]
  /\ inspection = [t \in Tabs |-> Resting]
  /\ reloads = 0

-----------------------------------------------------------------------------
(* The bridge and its submitters.                                          *)

SubmitJob ==
  /\ Cardinality({o \in Jobs : jobs[o].status # "absent" /\ jobs[o].kind = "prompt"}) < Prompts
  /\ \E o \in NewJobs(jobs) : jobs' = QueueJob(jobs, o, "prompt")
  /\ UNCHANGED <<page, turns, scripts, reloads>>

(* A claim outlasts its lease: the operation is queued again.              *)
LeaseExpires(o) ==
  /\ jobs[o].status = "claimed"
  /\ jobs' = [jobs EXCEPT ![o].status = "queued"]
  /\ UNCHANGED <<page, turns, scripts, reloads>>

(* Mutant: a status of its own for operations that ran out of time.        *)
ExpireByName(o) ==
  /\ jobs[o].status \in {"queued", "claimed"}
  /\ jobs' = [jobs EXCEPT ![o].status = "expired"]
  /\ UNCHANGED <<page, turns, scripts, reloads>>

(* An operation outlasts its time to live.                                 *)
Expire(o) ==
  /\ jobs[o].status \in {"queued", "claimed"}
  /\ jobs' = [jobs EXCEPT ![o].status = "failed"]
  /\ UNCHANGED <<page, turns, scripts, reloads>>

-----------------------------------------------------------------------------
(* The page.                                                               *)

PageMoves(t, p) ==
  /\ page' = [page EXCEPT ![t] = p]
  /\ UNCHANGED <<jobs, turns, scripts, reloads>>

Write(t) ==
  /\ page[t].live
  /\ \E r \in {"partial", "whole"} :
       /\ <<page[t].chat[LastTurn(t)].reply, r>> \in {<<"none", "partial">>, <<"partial", "whole">>}
       /\ PageMoves(t, [page[t] EXCEPT !.chat[LastTurn(t)].reply = r])

StopWriting(t) ==
  /\ page[t].live
  /\ PageMoves(t, [page[t] EXCEPT !.live = FALSE])

ConnectionLost(t) ==
  /\ page[t].live
  /\ PageMoves(t, [page[t] EXCEPT !.live = FALSE, !.banner = TRUE])

ShowNotice(t) ==
  /\ page[t].notice = "none"
  /\ \E n \in Notices : PageMoves(t, [page[t] EXCEPT !.notice = n])

DropNotice(t) ==
  /\ page[t].notice # "none"
  /\ PageMoves(t, [page[t] EXCEPT !.notice = "none"])

(* A reload starts both scripts anew.  ChatGPT may go on with a reply that *)
(* is not whole, and a notice of the page is gone.                         *)
Reload(t) ==
  /\ \/ Inspecting(t, "reload") /\ UNCHANGED reloads
     \/ reloads < MaxReloads /\ reloads' = reloads + 1
  /\ \E live \in BOOLEAN :
       /\ live => page[t].chat # << >> /\ page[t].chat[LastTurn(t)].reply # "whole"
       /\ page' = [page EXCEPT ![t].live = live, ![t].banner = FALSE]
  /\ content' = [content EXCEPT ![t] = [Idle EXCEPT !.start = "begin"]]
  /\ inspection' = [inspection EXCEPT ![t] = Resting]
  /\ UNCHANGED <<jobs, turns, active, recovery, leader, ticket>>

PageNext(t) ==
  \/ Write(t) \/ StopWriting(t) \/ ConnectionLost(t)
  \/ ShowNotice(t) \/ DropNotice(t) \/ Reload(t)

-----------------------------------------------------------------------------
ControllerStep(t) == ContentNext(t) /\ UNCHANGED <<inspection, reloads>>

InspectionStep(t) == RecoveryNext(t) /\ UNCHANGED reloads

Next ==
  \/ SubmitJob
  \/ \E o \in Jobs : LeaseExpires(o) \/ Expire(o)
  \/ \E t \in Tabs : ControllerStep(t) \/ InspectionStep(t) \/ PageNext(t)

Spec == Init /\ [][Next]_vars

(* The interval timer of recovery.js goes on, a reload it asked for comes, *)
(* and the bridge sweeps operations that outlast their time to live.       *)
Fairness ==
  /\ \A o \in Jobs : WF_vars(Expire(o))
  /\ \A t \in Tabs : WF_vars(InspectionStep(t))
  /\ \A t \in Tabs : WF_vars(Inspecting(t, "reload") /\ Reload(t))

FairSpec == Spec /\ Fairness

-----------------------------------------------------------------------------
(* The type invariant.                                                     *)
TypeOK ==
  /\ jobs \in [Jobs -> Job]
  /\ page \in [Tabs -> Page]
  /\ turns \in 0..MaxTurns
  /\ active \in ActiveRecord
  /\ recovery \in Recovery
  /\ leader \in Tabs \cup {0}
  /\ ticket \in [Jobs -> BOOLEAN]
  /\ content \in [Tabs -> Controller]
  /\ inspection \in [Tabs -> Inspection]
  /\ reloads \in 0..MaxReloads

(* content.js:1418-1420 fires one send only, because a second one "can     *)
(* duplicate work".  Across retries, chained handoffs, lost replies and    *)
(* reloads a prompt is sent to ChatGPT at most once for each time the      *)
(* bridge handed it out.                                                   *)
SentOncePerClaim ==
  [][\A t \in Tabs : \A o \in Jobs :
       page'[t].chat # page[t].chat /\ Len(page'[t].chat) > LastTurn(t)
         /\ page'[t].chat[LastTurn(t) + 1].job = o
       => ticket[o]]_vars

(* The text with which a controller completes its operation answers that   *)
(* operation's prompt, also when an earlier reply comes late or the page   *)
(* was in the middle of another answer (content.js:617-632).               *)
OwnAnswer ==
  \A t \in Tabs : content[t].text # NoText => content[t].text.job = content[t].op

(* recovery_progress.js:16-18 bounds recovery so that a long run cannot    *)
(* hang on one operation: as long as the timer of recovery.js runs and the *)
(* bridge fails operations at the end of their time to live, a recovery    *)
(* does not keep the controllers from polling for ever.                    *)
PollingResumes == Blocked ~> ~Blocked

(* bridge.py:910 calls the recorded text "operation-bound": the response   *)
(* recorded for a prompt is a reply to that prompt.                        *)
OperationBoundResponse ==
  \A o \in Jobs : jobs[o].text # NoText => jobs[o].text.job = o

=============================================================================
