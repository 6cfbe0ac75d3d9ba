# PASI Engineering Workspace: a TLA+ model of its state

This directory models the parts of the PASI Engineering Workspace that keep
state which several processes change: what they write, in which order, under
which guards, and what holds of it whatever happens in between. TLC checks the
models on small instances; TLAPS proves the theorems listed below for all values
of the constants. Paths are relative to the repository; the package `pasi` is in
`src/pasi`.

## The system

A person or a script submits prompts to a local HTTP **bridge**. A browser
**extension** polls the bridge, claims one operation at a time, types the prompt
into a ChatGPT tab, watches the generation, recovers from stalls, and reports the
response back. Beside that runs the **runtime**: SQLite stores of operation
states, events, roadmap tasks, approvals and provider records, with an HTTP API
through which an operator starts and stops operations.

| component | state | operations | hard behaviour | what makes it correct |
|---|---|---|---|---|
| Bridge queue (`automation/orchestrator/bridge.py`, `state.py`, `operation_lifecycle.py`) | the cached queue, `queue.json`, one response file per terminal operation, the last browser response | queue, claim, heartbeat, finish, fail or retry, observe, read, status | threads of an HTTP server; a finish takes the lock several times; leases and a time to live; saves that write several files; process death | acknowledged work survives a restart; a completed prompt keeps one response; executions are bounded; everything ends |
| Extension controller (`extensions/pasi-chatgpt/src/content.js`, `background.js`) | controller lease, the operation in progress, persisted progress | claim the controller, poll, process, finish, recover after a reload | several tabs, reloads in the middle, lost replies, timeouts | one tab drives the bridge; an operation's response is bound to it |
| Extension recovery (`recovery.js`, `recovery_progress.js`) | recovery stage and counters | detect, nudge, reload, give up | page state read before an await | bounded attempts |
| Userscript registry (`background-userscripts.js`, ...) | stored scripts, revisions | install, edit, sync | serialised writes | no lost update |
| Python chat adapter (`automation/computer_use/chatgpt.py`, `completion.py`) | none | submit, wait, read, cancel | reads the operation and the browser's last observation by separate requests; its timeout races the answer | a response answers its own operation |
| Runtime controls (`runtime_controls.py`, `operation_store.py`, `event_store.py`) | operation states with revisions, event log, ledger of idempotency keys | start, stop, retry, recover | three databases, concurrent requests, crashes between commits | one winner per revision; an answer is backed by the tables |
| Approvals and computer control (`approvals.py`, `computer_control.py`, `computer_capabilities.py`, `terminal.py`, `computer_adapters.py`) | registered capabilities, approvals, the terminal's evidence, audit events | register, issue, verify, consume, execute | consume, act and audit are separate transactions | one effect per approval; the audit tells what ran |
| Roadmap and planner (`roadmap.py`, `roadmap_store.py`, `planner_api.py`, `child_tasks.py`, `task_selection.py`, `dependency_graph.py`, `github_issue_intake.py`) | one roadmap row, recorded selections | transition phases and tasks, add children and issues, select | read, compute, write back whole; long sequences of legal calls; three readings of "may start" | no request undoes another; nothing starts before what it depends on was completed |
| Scheduling (`scheduling.py`) | none | schedule | four keys of order and three resources | within capacity, nothing left out that fits |
| Recovery and repair (`recovery.py`, `repair_loop.py`, `failure_registry.py`, `HostRecoveryController`) | failure signatures with counts | classify, attempt, record | look-up and insert are separate; budgets at their limits | every occurrence is counted; repairs stay in their budget |
| Providers (`src/pasi/providers`) | registry, health snapshots, fallback decisions, selections | register, probe, select, choose | reads of four stores by separate statements | one decision per key; a fresh selection is the best one; unavailability is earned |
| Memory (`memory_store.py`, `memory_compaction.py`, `cross_run_learning.py`) | memories with revisions | create, update, archive, compact, promote | a plan applied to records that moved; partial application | no update lost; compaction and learning keep provenance |
| Project synchronisation (`projects_sync.py`) | saved items, sync state | refresh, ensure_export | the remote project moves; lost replies; many writes per call | what was saved is what was listed |
| Projects v2 client (`scripts/github_project_v2.py`) | none | fetch, resolve, update | two paged connections in one query | a name the project has once is found |
| Branch cleanup (`scripts/cleanup_duplicate_branches.py`) | none | list, compare, delete | deletes by name what was judged by tip | listed work stays reachable |
| Acceptance run (`scripts/pasi_168h_acceptance.py`) | a worktree, branches, ticks in issues | start, take, execute, push, tick | dies anywhere; read-modify-write of an issue body | ticked work is on the remote |
| Retrieval, ledgers, API, dashboard | records and projections | single-transaction reads and writes | little | - |

Components meet at three places: the bridge's HTTP routes (submitters, the
extension, the controller page), the runtime's SQLite files (API threads, the
worker, scripts), and the browser's storage (content script, background script).
The services of the runtime share no table with each other: each has its own
database, file, repository or project.

## Modules

| module | what it is |
|---|---|
| `OperationLifecycle` | statuses and transition table of bridge operations |
| `BridgeStore` | the queue, its cache and files, and one `_save_queue` cut short at any stage |
| `BridgeQueue` | the bridge: one action per method of `BridgeState`, one per lock acquisition of `POST /chat/finished`; its properties |
| `BridgeQueueHistory` | the bridge with a count of claims |
| `DurableQueue` | the abstract queue the bridge implements |
| `BridgeQueueProofs`, `BridgePromiseProofs` | theorems about the bridge: its types and response files, what it tells clients, its refinement of `DurableQueue`, how often it hands an operation out |
| `RuntimeControl` | `RuntimeControlService.execute` as a process over three databases |
| `RuntimeControlProofs` | theorems about it |
| `BrowserTabs` | what the extension's scripts share: an abstract bridge, the conversation in each tab, two keys of localStorage |
| `ContentScript` | content.js: the controller of a tab, from the lease and the poll to the acknowledgement |
| `RecoveryScript` | recovery.js: the inspection that runs beside it |
| `BrowserController` | both in every tab, with the page, the user, the bridge's clock and submitters; its properties |
| `BrowserProofs` | theorems about both scripts in any number of tabs |
| `RoadmapLifecycle` | the roadmap as a value: when it is well formed, which transitions, additions and selections it allows |
| `RoadmapPlanner` | the planner's requests over the stored roadmap, each a read and a later write |
| `CostScheduler` | one turn of the scheduling loop per step |
| `ComputerControl` | capabilities, approvals, `execute` as a process, its audit |
| `FailureRecovery` | the classifier, both repair loops, the failure registry |
| `ProviderRouting` | registry, health monitor, selector, fallback |
| `MemoryLifecycle` | the memory store with edits, compaction and promotion |
| `ProjectSync` | refresh and export against a GitHub project |
| `ProjectPaging` | the paging of the Projects v2 client and the look-up after it |
| `ChatAdapter` | the Python adapter beside a bridge seen from outside |
| `BranchCleanup` | one sweep over a repository in use |
| `AcceptanceRun` | the supervisor of the 168-hour run |
| `EffectProofs` | theorems about computer control, recovery, the acceptance run, the chat adapter and the branch cleanup |
| `StoreProofs` | theorems about providers, memory, project synchronisation and paging |
| `WorkspaceProofs` | theorems about the roadmap, the scheduler, and all services together |
| `SetSums` | lemmas about sums over finite sets, for the proofs |
| `MC...` | instances for TLC; `MCWorkspace` is the one of all the services |

### The bridge

The list of operations is only appended to and filtered, so operations are
numbered in creation order and the list is a function from numbers to items;
`Gone` is the item of an operation that is not in it. `store.cache` is
`_queue_cache`, `store.disk` is `queue.json`, `store.responses` the files of
`terminal_responses_dir`, `store.pruned` the signature `prune_terminal_responses`
remembers. Every method that saves takes a *stage*, how far its save gets:
after some response files, after the rename of `queue.json`, or all of it. With
`IOErrors = FALSE` a save that does not get to its end is the last thing the
process did, and the bridge restarts from its files; with `IOErrors = TRUE` it
may also raise in a process that goes on, with the change still in its cache.

A method runs under one lock and is one action. `POST /chat/finished` takes the
lock up to four times (`FinishedRead`, `FinishedEvidence`, `FinishedTiming`,
`FinishedChain`; or `FinishedRead`, `FinishedComplete`, `FinishedRecheck`), so
`finishing` holds a program counter per request and everything else may happen
in between. `replies` records what clients were told: that a submission was
accepted, that a controller was handed an operation, which terminal result was
given for it. Controllers act only on operations that were handed to them, but
keep acting on them after their lease ran out, as the code lets them: requests
carry no claim token.

Time is a counter; leases and times to live compare with it. Prompts, keys and
responses are model values. Not in the model: timing normalisation, recovery
context and recovery events (saved with the queue, read by nobody who decides),
and the browser health, state and results files.

### The runtime controls

One request is `Begin` (ledger lookup), `Read` (metadata), `Transition` (one
immediate transaction of the operation store), `Append` (event log), `Put`
(ledger). A worker moves operations on in between, and `Crash` ends every request
in progress and keeps what was committed. A command is its operation, action and
expected revision, which determine its id, its event's id and its result;
requests that differ in their reason only are not distinguished. A client may name
any revision, also one the operation has not reached: `execute` refuses negative
ones only. `note` is the revision at which the worker last wrote metadata;
`requests[h].note` is what the request read of it, and `seen` the revision it read
beside.

### The browser controller

Both scripts are asynchronous JavaScript, so a step is what runs between two
awaits: a request takes effect at the bridge in one step, its reply is acted
upon in a later one, and the other script, the page and the bridge's clock may
move in between. `content[t]` holds the controller of tab `t` (its place in
`processOperation`, the operation, `assistantSnapshot`, the response it is about
to acknowledge, the chained operation) and, beside it, how far `start()` is with
reconciling an interrupted operation. `inspection[t]` holds what `inspect()` of
recovery.js has read: `state` is the record as it was, `cur` the operation as the
bridge last described it. Both are used after awaits, as in the code, however
stale. `active` and `recovery` are `pasi:active-operation` and
`pasi:chatgpt-recovery`, one of each for all tabs, since localStorage is shared
by the origin; `leader` is background.js' controller lease.

A conversation is a sequence of exchanges, and a text is known by the operation
and the turn it answers and by whether it is whole; job 0 is the user's own
conversation. What the scripts detect in the DOM (that ChatGPT is writing, a
connection error, a notice) is a field of `page[t]` that the page changes by
itself. When a page counts as stalled, and every timeout, is a choice, so the
arithmetic of recovery_progress.js is covered by both outcomes of each test.
The bridge is reduced to what the scripts can tell apart: claim, finish with the
next operation chained, fail with a retry budget, observe, and the lease and
time to live that may run out at any moment. `Lossy` names the scripts whose
requests may fail, on the way to the bridge or on the way back. `ticket` is a
history variable: the operation was handed out and its prompt not sent since.

Left out: choosing the reasoning effort and attaching GitHub before a prompt,
telemetry and health reports, and the controlled connection-loss probe. The model
starts when both scripts have started in every tab and found nothing to
reconcile; reloads start them anew with whatever the keys hold then.

### The services

Each service is a module with variables, an initial predicate, a next-state
relation and a specification of its own. A call is a process: `requests[c]`,
`execution[a]`, `repair[w]`, `router[r]`, `keeper[k]`, `syncer[s]`, `chat[s]`,
`sweep` and `supervisor` hold what the call has read and the step it is at, and a
step is one SQL transaction, one request to GitHub or the bridge, or one command.
Whatever else the service's users do may happen in between. SQLite makes each
statement atomic and nothing more, so a look-up and the insert after it are two
steps wherever the code does not put them into one immediate transaction.

*Roadmap.* A roadmap is a record of phases and tasks; statuses and revisions are
the code's, the hash and the text are left out. `MayTransitionTask`,
`GraphEligible`, `ready_tasks`, `blocked_tasks` and `Eligible` are translated from
the five places that decide what may start, each by its own condition. A request
keeps its own `copy` of the row, and `Save` compares revisions as the store does.
`finished` is history: the tasks and the phases that were completed at some time,
from the start those the seed has as completed. It is needed because a completed
task may be archived, after which `ready_tasks` no longer counts it while tasks
that started because of it stay active. What a child depends on and what it requires
are sets; the code keeps a value that is given twice, which none of its tests tells
from one.

*Computer control.* `ran` is what the adapters did, `journal` the event store,
whose identifiers are made of outcome, operation and capability: a second action
of the same kind in one operation takes effect and its event is refused. Approval
tokens are not modelled; a wrong one is refused like any other mismatch. The scope
checks of the adapters and the terminal are one permission, `AdapterPermits`; an
action that is permitted may still fail before it has any effect. `DatabaseFails` is
a statement that raises. `execute` has one `try` around the whole action, and the
terminal records its evidence inside it, so there the action counts as failed and is
audited as failed although the command ran; a failing statement of the approvals or
of the audit ends the call.

*Providers.* A digest of the registry is the set of its rows. Health snapshots
carry the classification and the count of failures; a probe reads the latest one
before it asks the provider and writes after. `probes` is history: each outcome
recorded, with how many were recorded when its probe began. A fallback looks up its
key, lists the registry, reads the health of one provider at a time, lists the
registry again for its candidates, and records.

*Memory.* Content is a model value with a normal form. `held` is history: the
references each memory had while it was active. `KeeperDies` drops a call between
two of its writes, which also stands for a write that is refused in its middle, and
for the refusal of a lesson without `source_operation_id`.

*Project synchronisation.* The listing is the first page, as the request of
`list_items` has it, and draft items have the empty content, so they share a row.
A request may fail with or without having had its effect on GitHub.

*Chat adapter.* The bridge is reduced to what the adapter can see of it; its own
module is `BridgeQueue`. `observation` is the last response the browser reported,
bound to whichever operation it was for.

*Branch cleanup and acceptance run.* A commit is the set of the pieces of work it
contains, so ancestry is inclusion; a branch of the acceptance run is the sequence
of the tasks it has commits for. People push, open, merge, edit and tidy. The
executor stays on the branch it was given, as the default one does.

`MCWorkspace` puts the services into one run as a *sum*: `part` names the one that
acts, and the others rest in one of their initial states. They share no state, so an interleaving of two of them
has no behaviour that neither has alone, and a product would only multiply their
states. The properties of a service are checked in its part. Providers and memory
have two parts each, with bounds of their own: `RoutingStep` and `HealthStep`,
`CompactionStep` and `LearningStep` are their steps within them. Their theorems are
about the specifications without these bounds.

## What the runs check

| run | instance | properties |
|---|---|---|
| `bridge_responses` | one keyed prompt, two finish requests at a time, two responses, two retry classes, every stage of a save | `TypeOK`, `CompletedPromptHasResponse`, `OneResponsePerOperation`, `ClaimsBounded`, `ClaimIsKeptForItsLease` |
| `bridge_queue` | two operations, room for one terminal, a keyed and an unkeyed request | `AnsweredIsDurable`, `OneActivePerKey`, `HandoffIsAtomic`, `KeepsPromise` |
| `bridge_ends` | two operations under fairness | `EveryOperationEnds` |
| `bridge_disk_error` | writes may raise | refutes `AnsweredIsDurable` |
| `runtime_control` | two requests, two keys, one operation of up to three revisions | `TypeOK`, `OneWinnerPerRevision`, `AnswerIsBacked`, `NotesKept` |
| `control_repeat` | one client that repeats its request | refutes `RepeatIsNotRefused` |
| `browser_controller` | one tab, one prompt that is sent up to twice, an earlier answer on the page, lost requests and replies | `TypeOK`, `OwnAnswer`, `SentOncePerClaim` |
| `browser_recovery` | one tab, one prompt that is sent, usage limits, challenges, a reload by the user | `PollingResumes` |
| `browser_new_chat` | one tab, exhausted contexts, one retry of each class, a prompt and the new chat that replaces its own | `PollingResumes` |
| `browser_two_tabs` | two tabs, one with a conversation of the user's | refutes `OperationBoundResponse` |
| `workspace_services` | each service with two of whatever acts on it at once (see below) | `WorkspaceTypeOK` and the 20 properties of the next table |
| `project_paging` | up to three pages of fields and of items | refutes `EveryNodeResolves` |

| service | property | what could break it |
|---|---|---|
| roadmap | `NoChangeUndone` | a save of a copy that is behind the row |
| | `StartedWorkIsJustified` | a transition allowed by one rule and not by another, over any legal sequence |
| | `ChildrenKeepContract` | an answer of the model applied after its parent changed |
| | `ServedSelectionIsReady` | a recorded selection served for another revision |
| | `GraphTellsWhatMayStart` | the graph, the transition rules and the report of blocked tasks disagreeing |
| scheduling | `ScheduleIsGreedy` | one resource not compared, an order that lets a later task in first |
| computer control | `OneEffectPerApproval` | two executions that read one approval unused |
| | `AuditTellsWhatRan` | an event that makes more of an action than it was: completed without effect, another outcome, or no evidence, with databases that fail at any step |
| recovery | `OccurrencesCounted` | two first records of one signature |
| | `RepairStaysInBudget` | an attempt too many, a budget for what needs a person |
| providers | `KeyAnswersAgree` | two calls under one key |
| | `FreshSelectionIsBest` | digest and list read in the other order |
| | `UnavailableIsEarned` | overlapping failures counted twice, a success that leaves the count, pruning of the latest snapshot |
| memory | `NoUpdateLost` | an update that is not compared with the revision it was made from |
| | `QuietCompactionIsLossless` | references of an archived member dropped, also when the compaction died half way or other members were written |
| | `LearningIsBacked` | a lesson from sources read one by one of which one was archived, changed or is not trusted |
| synchronisation | `QuietRefreshIsComplete` | an item not saved again when it changed |
| chat adapter | `ResponseIsOfItsOperation` | an observation taken for another operation's |
| cleanup | `CleanupKeepsListedWork` | two rules, each safe alone, deleting each other's reason |
| acceptance | `TickedWorkIsPushed` | a tick before the push, a branch made anew |

*Bounds.* `MaxOps`, `LastSubmission`, `MaxTime` and `MaxRevision` bound the
counters in the guards. The lease is one tick and the time to live two, so within
three ticks an operation is claimed, loses its lease, is claimed again, and
expires, in every order with the other actions. `MaxTerminal = 1` makes two
operations enough for retention to drop one. One retry of the class "controller"
and none of "context" covers a budget that is spent and one that is empty. Two
handlers are two requests in progress; further ones would only repeat their
steps. `bridge_queue` keeps one stage at which a save stops, because
`bridge_responses` goes through all of them. The bridge may stop in the bounded
model when its clock is at its bound and no operation is left, so its runs do not
check deadlock; `runtime_control` does. Nor do the browser's, whose page may come
to rest with nothing queued.

The passing browser runs have one tab. Two scripts in one tab, a page and a bridge
that move by themselves already give up to a million states; two tabs are beyond
an exhaustive run, and what goes wrong there is shown by `browser_two_tabs`. So
that the cross product stays small, each run has the difficulties its question
needs: losses and two sends (`MaxTurns` also counts the turn on the page at the
start) for the safety of sending and answering; notices and reloads for
`PollingResumes`; a second operation and retries, without a send, for the new
chat. Requests are not lost where `PollingResumes` is checked: if the inspection's
were lost for ever, no recovery need end. A lease that
lapses under a controller at work (`Lapses`) needs a second tab to matter.

The services have two clients, agents, workers, routers, keepers, syncers or
sessions each, which are interchangeable (`SYMMETRY Both`): every hazard listed for
them is a step of one between two steps of another. The roadmap has an active task,
one that waits for it and an empty later phase, and is saved twice; requests ask
for every status. Two effects are enough for a second use of an approval
or a repeated event identifier; three failures for two racing first records and
one after. A page of a project holds two of at most three
items, so one is beyond the first page. Two operations of the bridge, one the
adapter's own; two attempts of each of its retry loops are one retry and its end.
The cleanup starts from 37 repositories of four branches, where any containment
among three of them, open and merged requests occur, and people move once. The
acceptance run is started twice, on one branch or two, with three tasks in two
issues. The services may come to rest when their bounds are reached, so the
run does not check deadlock.

The providers' part "routing" has two threads, two providers, one key for two
operations, and callers that rule a provider out or not; two probes of the preferred
one reach a threshold of two, and two calls are answered, which is one key taken by
another. "health" has probes alone, two at a time and four in all with one retained
snapshot: enough for a failure whose count was read before a success and is written
after it. In "memory" one plan is made over two or three memories, in "learning" a
lesson is learned from two memories that must first become more trusted, and in both
each memory is updated once and one of them twice: it gains a reference, changes or is
archived between the plan and its application, in the middle of it, or between the
reading of one source and of the other.

*Fairness.* `bridge_ends` assumes that time passes and that the extension's poll
of `GET /next-operation` is served: content.js polls as long as its tab lives,
and every route that sweeps would do. No controller is assumed to finish.
`FairSpec` of the browser assumes that recovery.js' interval timer goes on, that
a reload it asked for comes, and that the bridge fails an operation at the end of
its time to live. Nothing is assumed of the page, the user or content.js: what
blocks polling must go away without them.

*Findings.* `bridge_disk_error`: after a save that raised, the appended operation
stays in the cached list, since `_load_queue` rereads only when `queue.json`'s
mtime changes. A second submission under the key is answered with it, and a
restart loses it. `control_repeat`: the idempotency key is recorded last, in
another database; if the API dies after the transition, the repeated request is
refused although it took effect, and its event is never logged. `browser_two_tabs`:
recovery.js runs in every ChatGPT tab and does not ask for the controller lease. While
one tab is about to send a prompt, the inspection of another takes the last reply
of the user's own conversation there for the prompt's response
(`preserveOrReload`) and completes the operation with it. `project_paging`:
`fetch_project` asks for the next page of fields and of items in one query. When one
has no next page its cursor becomes `None`, and as long as the other goes on its
first page is read and appended again; the look-up by name then finds a field
twice and refuses it. One page of fields and two of items, a project of more than
100 items, is enough.

*What the properties of the services do not say.* Some behaviour of the code is
weaker than one might expect, and the properties stop short of it rather than
assume it away: a success that is recorded while a failing probe of the same provider
is under way does not clear the count that probe goes on from; a refresh that an
export or another refresh overlaps may save older rows over newer ones, and
`QuietRefreshIsComplete` speaks only of one that no other sync writes beside;
branches pushed to between comparison and deletion lose those commits; a listed branch
that is merged into another listed one during the sweep may be lost with it, so
`CleanupKeepsListedWork` leaves sweeps with such a merge out (`crossed`); an
edit of an issue body between the supervisor's read and its write is overwritten; a
caller's override is the repair budget even where the classification allows no
repair; a
timed-out wait asks for a cancellation at a route the bridge does not serve. A control
request may name a revision the operation has not reached, for the expected revision
is compared with the row only in the transition: when the worker gets there after the
metadata was read, the older metadata is written back, and `NotesKept` excepts such a
request. An action's event is appended after it, under an identifier of operation and
capability only: a death or a failing append before it, or a second action whose
identifier is refused, leaves an effect without event; `AuditTellsWhatRan` is about
the events there are. And a compaction checks the status, scope and content of each
member again but writes the references merged at the plan, so a reference that a
redundant memory gained since is archived with it; `QuietCompactionIsLossless` is
about members nobody else wrote. Finally,
`ResponseIsOfItsOperation` takes for granted that what the bridge binds to an
operation answers it: `browser_two_tabs` shows where that fails.

## What is proved

`BridgeQueueProofs!TypeCorrect`, `Spec => []TypeOK`, for any number of operations,
requests, handlers, retry classes, and any lease and times.

`BridgeQueueProofs!CompletedPromptsKeepResponses`,
`Spec => []CompletedPromptHasResponse`. The property is not inductive. Its
invariant `ResponseInv` says what each step may rely on: every completed prompt in the cache
is marked available and has its text in the item or in its response file, and on
disk in the file (`StoreSafe`); no number from `nextId` on is in use, so a new item
overwrites none (`StoreKnown`); and a finish request in progress that has no text is
not about a prompt (`RequestsSafe`), which is the check the handler made several
steps earlier. It is preserved by a save that stops at any stage, which
is shown once for `SaveQueue` and used by every action. It does not depend on
`IOErrors`, so it also covers writes that raise.

`RuntimeControlProofs`: `TypeCorrect`, `OneWinner`, `AnswersBacked`, `NotesAreKept`.
The invariant `Inv` says that each command that took effect has a revision of its
own, which is behind the operation's (`WinnersInv`); that a request's program
counter tells what it has done (`ProgressInv`); and that the metadata a request has
read is that of the revision it saw, hence current as long as the operation is at
that revision (`NotesInv`). A transition succeeds only at the expected revision, so a
request that expects the one it saw or an earlier one writes back what is current;
`NotesKept` makes an exception for requests that name a later one, which the code
does not refuse and which may write back older metadata.

`BridgePromiseProofs` is about what the bridge tells its clients.

- `OneActive`, `Spec => []OneActivePerKey`, whether writes may raise or not.
  `KeyInv` says it of the cache and of `queue.json` both, since a restart makes the
  file the cache again; every method but a submission leaves unfinished only what
  was so, under the same key (`Quiet`).
- The others assume `~IOErrors`: a write that fails ends the process. Without that
  they are false, which is the finding of `bridge_disk_error`. They are
  `AnswersAreDurable`, `AnswersAgree`, `ClaimsAreKept`, `HandoffsAreAtomic`
  and `BridgeImplementsQueue`, `Spec => KeepsPromise`.
- `PromiseInv` says that between two steps the cache is what the file holds, but
  for a response text that a finish request put back (`Matches`); that what was
  answered is on disk (`AnsweredIsDurable`); that all that was said of an operation,
  *and all that a finish request in progress has read and will say*, is one word,
  the one of the response file while the operation is listed (`OneWord`); and that
  a request about to repeat an answer is about an operation that completed, or
  that retention has since dropped (`RepeaterSafe`).
- Every action is shown to make a `Progress`: `queue.json` changes by steps of the
  life of an operation, nothing is accepted before it is in the file, and what is
  said of an operation is what was recorded, what this step records, or what an
  earlier step of the same request read. `Progress` alone then gives both the
  invariant and the step of `DurableQueue`. A save, cut short at any stage, is
  handled once.
- Retention is where the argument is not local: an operation that a save drops must
  be crowded out by younger ones *that stay*. The last of those dropped has
  enough younger ones, which are all kept, and so has every earlier one.
- For the claims, `Guarded(q, n)` says that in a queue about to be written nothing
  is claimed anew but `n`, and nothing is handed over but to `n`; every action
  makes a guarded queue, and a save writes a guarded queue or none.
- `ClaimsAreBounded`, `HistorySpec => []ClaimsBounded`: one submission is executed
  once, once more for each retry of each budget, and once more for each lease that
  can run out within its time to live. `ClaimsInv` keeps the account
  (`PaysFor`): the claims an operation has had are no more than its retries used so
  far (a sum over the classes), the leases that fit between its submission and its
  last claim, and one if it is claimed now. `Lives`, another part of `Guarded`,
  says what a queue that is written may make of an item: a claim needs a queued
  one, only a lease that ran out or a retry that is counted makes a claimed one
  queued again, `claimed_at` moves forward by a lease or more, and the time of
  submission stays.

`BrowserProofs` is about both scripts in every one of any number of tabs.

- `BrowserTypesHold`, `Spec => []TypeOK`. `Types` adds what the scripts' steps take
  for granted: a controller past its poll, and an inspection that has not come to
  clearing a key, have an operation; one that waits for a fresh chat has the
  operation that opens it; and a page at work shows an exchange it writes to.
- `AnswersAreOwn`, `Spec => []OwnAnswer`, with reloads, lapsing leases, notices and lost
  requests. `AnswerInv` says of a controller between its snapshot and its response
  that a reply on its page that is not in the snapshot is its own prompt's, and that
  what ChatGPT is writing, if anything, answers that prompt. It holds because the
  composer is ready only when nothing is being written, only the last exchange gets
  text, and a reload, which may set ChatGPT writing again, starts the controller anew.
- `PromptsAreSentOnce`, `Spec => SentOncePerClaim`, assumes `OneWorks`: one tab, or a
  controller lease that does not lapse while its holder works. `SendInv` says that
  only the holder of the lease is not idle, and that an operation about to be sent,
  or chained, has a claim that was not used yet. The assumption is needed: with two
  tabs, a lapsing lease and a bridge claim that ran out meanwhile, TLC finds both
  tabs sending the prompt, because content.js looks at the lease when an operation
  begins (`content.js:1700`) and not again before it sends.
- `OperationBoundResponse`, which is about the inspection, is not a theorem:
  `browser_two_tabs` refutes it.

`EffectProofs`. *Computer control*: `ControlInv` adds to the types that an
execution past `consume` owns its approval: it is used, names this call, no other
execution about to act has it, and no effect was had with it (`PaymentInv`); and
that what a call is about to audit is so: a completed one had its effect and left its
evidence, a failed one failed, or ran and left none (`EffectInv`).
*Recovery*: `RecoveryInv` counts a failure in the statement that inserts or updates
its row, and keeps each repair loop's attempts below its budget while it goes on.
`classify` always finds a rule, and what each rule decides is valid. `CountInv` adds
the failures counted and those read and about to be counted. *Acceptance run*: `AcceptanceInv` says what the
supervisor knows at each step, so that by the time it ticks a task the remote branch
has a commit of it; branches on the remote only grow. *Chat adapter*: `ChatInv`; an
operation that was answered, or failed, stays so, hence what an adapter saw of it
may be returned later, and the observation is used only where it is bound to the
operation asked for. *Branch cleanup*: `CleanupInv`; what was listed of a branch
stays in it while people push to branches (and merge none of the listed ones into
another), and every branch to be deleted has its listed work in
the merged work or in one that stays. That the deleted ones do not justify each
other rests on each group of duplicates having one keeper, which the preference of
names always decides, and on a snapshot's canonical branch being no snapshot itself,
so that another rule or none concerns it.

`StoreProofs`. *Providers*: `RouteInv` says that what a call has read of the
registry is still a part of what there is, that an
answered key has its decision, and that the failures a probe has read are a row that
ended when it began. Such a row is one in every longer history (`RunStays`), and a
probe that fails adds itself to it (`RunGrows`). A finite set of providers has one best by the
selector's order (`BestExists`), so two selections from one registry agree. *Memory*: `MemoryInv` relates each plan and each
call in progress to the rows as they are: a member that was not written since the
plan was made is as the plan saw it, and one whose revision is one ahead of that was
written by the compaction itself. *Synchronisation*: `SyncInv` says that, while
nobody else wrote, what a refresh has gone through of its listing is what the store
holds. *Paging*: `PagingEnds`, however many pages a project has of each. `PagingInv`
counts the turns: each connection was read through so many times and as far as its
cursor, both cursors are at their ends after as many turns as there are pairs of
pages, and the loop goes on only before. So it does end, though the finding of
`project_paging` shows how often it may read a page until then.

`WorkspaceProofs`. *Roadmap*: `RoadmapInv`; a copy that the store would still accept is one step
ahead of the roadmap as it is (`OneStep`), because the store compares revisions and
no two roadmaps share one; a selection recorded for a revision was made of the
roadmap of that revision, also for the request that is about to serve it (`Suits`).
`OneStep` holds of every operation of `roadmap.py` that accepts its input.
*Scheduling*: `SchedulesAreGreedy`, for any tasks, estimates, priorities and
capacities. `ScheduleInv` says after each turn of the loop that what remains of each
resource and what the scheduled tasks need of it add up to its capacity, and that a
task that was passed over is crowded out of some resource by tasks before it, none
of which is still to come (`Crowded`). *All together*: `WorkspaceRunsAll`, a
behaviour of the workspace is one of each service. With the theorems about the
services it gives `WorkspaceTypesHold` and `WorkspaceKeepsPromises`, which is every
property that the passing runs of the services check. It is to be read with what
the single properties leave out, above.

`SetSums` says of a sum over a finite set that it is a natural number, one member
more adds that member's value, it depends on the values at its members only, and it
grows with them. The sum of the community modules is a recursive function chosen by
`CHOOSE`, so it is first shown that there is one, for sets of each size; and each
fact is proved by a smallest set without it.

*Assumptions.* Numbers are natural and the values for "nothing" are none of the
others (`StoreAssumption`, `QueueAssumption`, both `ControlAssumption`s,
`RecoveryAssumption`, `ChatAssumption`, `PagingAssumption`), and what is summed over
or counted is finite: retry classes, workers, failures, tasks
(`ScheduleAssumption`). `RouteAssumption`: thresholds and the
retained number of snapshots are positive, as the constructors demand, ranks are
integers, and what callers rule out are sets of providers. `MemoryAssumption`: a proposal's id is a digest of its sources among other
things, so one id has one set of sources. `AcceptanceAssumption` and
`CleanupAssumption`: tasks come in finite lists; a repository has its default branch,
and open requests have existing heads. `InitialRoadmapAssumption`: the seed is well formed and
nothing in it was started too early, as is the case for
`roadmap/frontend-v4.json`. `NewTasksAssumption`: what issues and the model propose
is planned. `TabsAssumption`: tabs are numbered from 1, and the bound on prompts leaves
room for the exchange that each may show at first. TLC evaluates them all on the instances.

*What proving changed.* `CleanupKeepsListedWork` was not the property it was meant
to be: `UNION` binds weaker than `\cup`, and merged work was added in the wrong
place; and `crossed` was not reset by a new listing. `NoChangeUndone` now speaks of
tasks and of phases separately, and `finished` starts with what the seed completed,
without which `StartedWorkIsJustified` is not inductive. The bound of `PagingTypeOK`
on how often a page is read was the product of both numbers of pages, and is now the
number of the other.

*Model-checked only.*
- Liveness: `EveryOperationEnds`, `PollingResumes`; and the four refuted properties.

## Plan

Done: the bridge queue, the runtime controls, the browser controller and its
recovery, the services, and the proofs above: every safety property that a passing
run checks. Next:

1. `OperationBoundResponse` for one tab whose own conversation is at rest when the
   extension starts: what a record, an inspection or a lookup holds of an operation
   while the page moves on. (When an answer of the user's own is still being written,
   TLC refutes it with one tab too, by the same path as `browser_two_tabs`.)

## Not modelled

The userscript registry and the API surfaces of the extension (pass-throughs to
the browser, one serialised write at a time), DOM detectors, the dashboard and the
operator scripts named in no module, HTTP clients and benchmarks of providers,
retrieval and context assembly (numbers and text, no state), ledgers, plans and
notifications (rows written once and listed), the runtime's read-only projections,
bridge configuration, and the computer-use policy (pure decisions over paths).
