--------------------------- MODULE ProviderRouting ---------------------------
(***************************************************************************)
(* The model providers: the capability registry, the health history with    *)
(* its monitor, the deterministic selector, and the fallback orchestrator   *)
(* with its durable decisions.  Callers and monitors run at once over four  *)
(* databases; each statement is a step of its own wherever another caller   *)
(* could come between.                                                      *)
(***************************************************************************)
EXTENDS Integers, Sequences, FiniteSets

CONSTANTS
    Routers,           \* threads that select, fail over or probe
    Providers,         \* naturals, ordered like the providers' names
    Catalogue,         \* provider -> its ProviderCapability
    Requirements,      \* the ProviderRequirements callers bring
    Preferences,       \* the advisory preferences they bring: provider -> rank
    RouteOperations,   \* logical operation ids
    RouteKeys,         \* idempotency keys
    Exclusions,        \* the sets of providers they rule out (excluded_providers)
    MaxFailovers,      \* BoundedFallbackOrchestrator.max_failovers
    FailureThreshold,  \* ProviderHealthMonitor.failure_threshold
    MaxSnapshots,      \* SQLiteProviderHealthStore.max_snapshots
    MaxProbes,         \* bound: probes of one history
    MaxCalls,          \* bound: fallback calls answered in one history
    NoDecision

(* The rows of fallback_decision and provider_selection. *)
DecisionRows ==
    [provider : Providers, operation : RouteOperations, attempt : 1..MaxFailovers,
     digest : SUBSET Providers, previous : Providers,
     health : {"unknown", "healthy", "degraded", "unavailable"}]
SelectionRows ==
    [provider : Providers, digest : SUBSET Providers, req : Requirements, pref : Preferences]

(* Ranks are ints, and both bounds are refused at zero or below. *)
ASSUME RouteAssumption ==
    /\ Providers \subseteq Nat /\ IsFiniteSet(Providers)
    /\ Preferences \subseteq [Providers -> Int] /\ Exclusions \subseteq SUBSET Providers
    /\ FailureThreshold \in Nat \ {0} /\ MaxSnapshots \in Nat \ {0}
    /\ NoDecision \notin DecisionRows \cup SelectionRows

VARIABLES
    registered,  \* provider_capability: the providers that have a row
    health,      \* provider_health: provider -> its snapshots, oldest first
    decisions,   \* fallback_decision: idempotency key -> decision
    selection,   \* provider_selection: the latest row
    router,      \* router -> how far its call is
    probes,      \* history: provider -> the probes recorded, in order, each with
                 \*   how many were recorded when it began
    answers      \* history: what fallback calls returned

routeVars == <<registered, health, decisions, selection, router, probes, answers>>

---------------------------------------------------------------------------
(* DeterministicProviderSelector.select over the providers it was shown.    *)
Satisfies(p, req) ==
    /\ req.capabilities \subseteq Catalogue[p].capabilities
    /\ Catalogue[p].context >= req.context
    /\ Catalogue[p].output >= req.output

(* The highest preference, then the first name. *)
Preferred(p, q, pref) ==
    \/ pref[p] > pref[q]
    \/ pref[p] = pref[q] /\ p < q

Suitable(shown, req) == {p \in shown : Satisfies(p, req)}

Best(shown, req, pref) ==
    CHOOSE p \in Suitable(shown, req) :
        \A q \in Suitable(shown, req) \ {p} : Preferred(p, q, pref)

Latest(p) == health[p][Len(health[p])]

Unavailable(p) == health[p] # <<>> /\ Latest(p).classification = "unavailable"

Classification(p) == IF health[p] = <<>> THEN "unknown" ELSE Latest(p).classification

---------------------------------------------------------------------------
Free == [stage |-> "free"]

RouteInit ==
    /\ registered = {}
    /\ health = [p \in Providers |-> <<>>]
    /\ decisions = [k \in RouteKeys |-> NoDecision]
    /\ selection = NoDecision
    /\ router = [r \in Routers |-> Free]
    /\ probes = [p \in Providers |-> <<>>]
    /\ answers = {}

RegisterProvider(p) ==
    /\ p \notin registered
    /\ registered' = registered \cup {p}
    /\ UNCHANGED <<health, decisions, selection, router, probes, answers>>

(* probe: the latest snapshot is read, then the provider is asked. *)
ProbeStart(r, p) ==
    /\ router[r] = Free
    /\ Cardinality({probe \in Providers \X (1..MaxProbes) :
                        probe[2] <= Len(probes[probe[1]])}) < MaxProbes
    /\ router' = [router EXCEPT ![r] =
          [stage |-> "probing", provider |-> p, begun |-> Len(probes[p]),
           failures |-> IF health[p] = <<>> THEN 0 ELSE Latest(p).failures]]
    /\ UNCHANGED <<registered, health, decisions, selection, probes, answers>>

(* The snapshot counts on from the failures that were read. *)
(* (Mutant: a success leaves the count as it is.) *)
SnapshotOfCount(failures, available) ==
    IF available
    THEN [classification |-> "healthy", failures |-> failures]
    ELSE [classification |-> IF failures + 1 >= FailureThreshold
                             THEN "unavailable" ELSE "degraded",
          failures |-> failures + 1]

Snapshot(failures, available) ==
    IF available
    THEN [classification |-> "healthy", failures |-> 0]
    ELSE [classification |-> IF failures + 1 >= FailureThreshold
                             THEN "unavailable" ELSE "degraded",
          failures |-> failures + 1]

(* record: the snapshot is appended and the provider's oldest rows go. *)
Retained(snapshots) ==
    IF Len(snapshots) > MaxSnapshots
    THEN SubSeq(snapshots, Len(snapshots) - MaxSnapshots + 1, Len(snapshots))
    ELSE snapshots

ProbeEnd(r, available) ==
    /\ router[r].stage = "probing"
    /\ LET p == router[r].provider IN
         /\ health' = [health EXCEPT ![p] =
               Retained(Append(@, Snapshot(router[r].failures, available)))]
         /\ probes' = [probes EXCEPT ![p] =
               Append(@, [available |-> available, begun |-> router[r].begun])]
    /\ router' = [router EXCEPT ![r] = Free]
    /\ UNCHANGED <<registered, decisions, selection, answers>>

(* select: the digest of the registry first, its list after. *)
SelectDigest(r, req, pref) ==
    /\ router[r] = Free
    /\ router' = [router EXCEPT ![r] =
          [stage |-> "select", digest |-> registered, req |-> req, pref |-> pref]]
    /\ UNCHANGED <<registered, health, decisions, selection, probes, answers>>

(* (Mutant: the list of the first statement, the digest of the second.) *)
SelectListFirst(r) ==
    /\ router[r].stage = "select"
    /\ LET call == router[r] IN
         selection' =
           IF Suitable(call.digest, call.req) = {}
           THEN selection
           ELSE [provider |-> Best(call.digest, call.req, call.pref),
                 digest |-> registered, req |-> call.req, pref |-> call.pref]
    /\ router' = [router EXCEPT ![r] = Free]
    /\ UNCHANGED <<registered, health, decisions, probes, answers>>

SelectList(r) ==
    /\ router[r].stage = "select"
    /\ LET call == router[r] IN
         selection' =
           IF Suitable(registered, call.req) = {}
           THEN selection
           ELSE [provider |-> Best(registered, call.req, call.pref),
                 digest |-> call.digest, req |-> call.req, pref |-> call.pref]
    /\ router' = [router EXCEPT ![r] = Free]
    /\ UNCHANGED <<registered, health, decisions, probes, answers>>

Answer(operation, key, decision) ==
    answers' = answers \cup {[operation |-> operation, key |-> key, decision |-> decision]}

(* choose: a key that has a decision is answered with it, if it is of this  *)
(* operation.                                                               *)
FallbackStart(r, operation, key, attempt, failed, ruledOut, req, pref) ==
    /\ router[r] = Free
    /\ Cardinality(answers) < MaxCalls
    /\ attempt \in 1..MaxFailovers
    /\ IF decisions[key] = NoDecision
       THEN /\ router' = [router EXCEPT ![r] =
                  [stage |-> "list", operation |-> operation, key |-> key,
                   attempt |-> attempt, failed |-> failed, req |-> req, pref |-> pref,
                   todo |-> {}, excluded |-> ruledOut \cup {failed}]]
            /\ UNCHANGED answers
       ELSE /\ decisions[key].operation = operation
            /\ Answer(operation, key, decisions[key])
            /\ UNCHANGED router
    /\ UNCHANGED <<registered, health, decisions, selection, probes>>

(* Otherwise the providers that are registered by then are looked at.       *)
ListProviders(r) ==
    /\ router[r].stage = "list"
    /\ router' = [router EXCEPT ![r].stage = "scan",
                                ![r].todo = registered \ router[r].excluded]
    /\ UNCHANGED <<registered, health, decisions, selection, probes, answers>>

(* The loop reads the health of one listed provider at a time. *)
CheckHealth(r) ==
    /\ router[r].stage = "scan"
    /\ router[r].todo # {}
    /\ LET p == CHOOSE q \in router[r].todo : \A o \in router[r].todo : q <= o IN
         router' = [router EXCEPT
             ![r].todo = @ \ {p},
             ![r].excluded = IF Unavailable(p) THEN @ \cup {p} ELSE @]
    /\ UNCHANGED <<registered, health, decisions, selection, probes, answers>>

(* A second list gives the candidates, and the selector picks one. *)
ChooseProvider(r) ==
    /\ router[r].stage = "scan"
    /\ router[r].todo = {}
    /\ LET call == router[r]
           shown == registered \ call.excluded
       IN  router' = [router EXCEPT ![r] =
             IF Suitable(shown, call.req) = {}
             THEN Free
             ELSE [stage |-> "record", operation |-> call.operation, key |-> call.key,
                   decision |-> [operation |-> call.operation, attempt |-> call.attempt,
                       provider |-> Best(shown, call.req, call.pref),
                       digest |-> shown, previous |-> call.failed]]]
    /\ UNCHANGED <<registered, health, decisions, selection, probes, answers>>

(* record's look-up and the UNIQUE column; the mutant has neither. *)
KeyIsNeverTaken(key) == TRUE
KeyIsFree(key) == decisions[key] = NoDecision

(* The health named in the decision is read now.  Decisions carry their     *)
(* time, so one that finds its key taken never equals it and is refused, by *)
(* the look-up or by the UNIQUE column.                                     *)
RecordDecision(r) ==
    /\ router[r].stage = "record"
    /\ LET call == router[r]
           decision == [provider |-> call.decision.provider,
                        operation |-> call.operation,
                        attempt |-> call.decision.attempt,
                        digest |-> call.decision.digest,
                        previous |-> call.decision.previous,
                        health |-> Classification(call.decision.provider)]
       IN  IF KeyIsFree(call.key)
           THEN /\ decisions' = [decisions EXCEPT ![call.key] = decision]
                /\ Answer(call.operation, call.key, decision)
           ELSE UNCHANGED <<decisions, answers>>
    /\ router' = [router EXCEPT ![r] = Free]
    /\ UNCHANGED <<registered, health, selection, probes>>

RouteNext ==
    \/ \E p \in Providers : RegisterProvider(p)
    \/ \E r \in Routers, p \in Providers : ProbeStart(r, p)
    \/ \E r \in Routers, available \in BOOLEAN : ProbeEnd(r, available)
    \/ \E r \in Routers, req \in Requirements, pref \in Preferences : SelectDigest(r, req, pref)
    \/ \E r \in Routers, o \in RouteOperations, k \in RouteKeys, n \in 1..MaxFailovers,
          p \in Providers, ruledOut \in Exclusions, req \in Requirements, pref \in Preferences :
          FallbackStart(r, o, k, n, p, ruledOut, req, pref)
    \/ \E r \in Routers : \/ SelectList(r) \/ ListProviders(r) \/ CheckHealth(r)
                          \/ ChooseProvider(r) \/ RecordDecision(r)

RouteSpec == RouteInit /\ [][RouteNext]_routeVars

---------------------------------------------------------------------------
RouteTypeOK ==
    /\ registered \subseteq Providers
    /\ \A p \in Providers : Len(health[p]) <= MaxSnapshots
    /\ \A k \in RouteKeys : decisions[k] # NoDecision =>
          decisions[k].provider \in registered /\ decisions[k].attempt \in 1..MaxFailovers

(* A key has one answer for good: whoever asks with it, at once or again,   *)
(* gets the decision that is stored, and only for its own operation         *)
(* (BoundedFallbackOrchestrator.choose, SQLiteFallbackStore.record).        *)
KeyAnswersAgree ==
    \A a \in answers :
        /\ a.decision = decisions[a.key]
        /\ a.decision.operation = a.operation

(* A selection that still passes assert_fresh is the one select would make  *)
(* now: providers that came while it was made show in the digest.           *)
FreshSelectionIsBest ==
    selection # NoDecision /\ selection.digest = registered =>
        selection.provider = Best(registered, selection.req, selection.pref)

(* Among the first n probes of a history, k that failed in a row and end    *)
(* with the n-th: the first began when nothing was recorded or the provider  *)
(* had just been found available, and each other when the latest recorded   *)
(* was the one before it.                                                   *)
FailedInARow(history, n, k) ==
    \E S \in SUBSET (1..n) :
        /\ Cardinality(S) = k
        /\ k > 0 => n \in S
        /\ \A j \in S :
              LET begun == history[j].begun
                  before == {i \in S : i < j}
              IN  /\ ~ history[j].available
                  /\ IF before = {}
                     THEN begun = 0 \/ history[begun].available
                     ELSE begun \in before /\ \A i \in before : i <= begun

(* Monitors that race count failures that overlap once, and a success that  *)
(* is recorded while a failing probe is under way is lost on that probe;    *)
(* more than that goes wrong with no interleaving.  A provider is called    *)
(* unavailable for FailureThreshold failures in a row, each of a probe that *)
(* began after the one before was recorded and with no success in between   *)
(* that it could see, whatever was pruned; and the latest snapshot is that  *)
(* of the last probe (ProviderHealthMonitor.probe, SQLiteProviderHealthStore). *)
UnavailableIsEarned ==
    \A p \in Providers : health[p] # <<>> =>
        /\ FailedInARow(probes[p], Len(probes[p]), Latest(p).failures)
        /\ Unavailable(p) => Latest(p).failures >= FailureThreshold
        /\ (Latest(p).classification = "healthy") = probes[p][Len(probes[p])].available
=============================================================================
