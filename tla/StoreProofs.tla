----------------------------- MODULE StoreProofs -----------------------------
(***************************************************************************)
(* Theorems about the services that keep durable records, for any number   *)
(* of threads, providers, memories and items: provider routing, project    *)
(* memory, the copy of a GitHub project, and its reading page by page.     *)
(***************************************************************************)
EXTENDS ProviderRouting, MemoryLifecycle, ProjectSync, ProjectPaging, WellFoundedInduction,
        FiniteSetTheorems, TLAPS

(***************************************************************************)
(* Provider routing.                                                       *)
(***************************************************************************)
Classes == {"healthy", "degraded", "unavailable"}
HealthSnapshots == [classification : Classes, failures : Nat]
Outcomes == [available : BOOLEAN, begun : Nat]

Probing == [stage : {"probing"}, provider : Providers, begun : Nat, failures : Nat]
Selecting ==
  [stage : {"select"}, digest : SUBSET Providers, req : Requirements, pref : Preferences]
Scanning ==
  [stage : {"list", "scan"}, operation : RouteOperations, key : RouteKeys, attempt : 1..MaxFailovers,
   failed : Providers, req : Requirements, pref : Preferences,
   todo : SUBSET Providers, excluded : SUBSET Providers]
Picks ==
  [operation : RouteOperations, attempt : 1..MaxFailovers, provider : Providers,
   digest : SUBSET Providers, previous : Providers]
Recording ==
  [stage : {"record"}, operation : RouteOperations, key : RouteKeys, decision : Picks]

RouterCalls == {Free} \cup Probing \cup Selecting \cup Scanning \cup Recording

RouteTypes ==
  /\ registered \subseteq Providers
  /\ health \in [Providers -> Seq(HealthSnapshots)]
  /\ probes \in [Providers -> Seq(Outcomes)]
  /\ decisions \in [RouteKeys -> DecisionRows \cup {NoDecision}]
  /\ selection \in SelectionRows \cup {NoDecision}
  /\ router \in [Routers -> RouterCalls]

(* A probe knows how many were recorded when it began, and the failures in  *)
(* a row that they end with.                                                *)
RunKnown(history, begun, failures) ==
  /\ begun <= Len(history)
  /\ FailedInARow(history, begun, failures)
  /\ failures = 0 => begun = 0 \/ history[begun].available

(* What a call holds was true when it was read, and stays so: the registry  *)
(* and the history of probes only grow.                                     *)
CallInv(call) ==
  /\ call.stage = "record" => call.decision.provider \in registered
  /\ call.stage = "select" => call.digest \subseteq registered
  /\ call.stage = "probing" => RunKnown(probes[call.provider], call.begun, call.failures)

(* Answers are decisions that are stored, and decisions name providers that *)
(* are registered; a digest is of a registry of the past.                   *)
DecisionInv ==
  /\ \A a \in answers : a.key \in RouteKeys /\ decisions[a.key] # NoDecision
  /\ KeyAnswersAgree
  /\ \A k \in RouteKeys : decisions[k] # NoDecision => decisions[k].provider \in registered
  /\ selection # NoDecision => selection.digest \subseteq registered
  /\ FreshSelectionIsBest

(* A probe began when those recorded before it, at most, were there.        *)
InOrder(history) == \A j \in 1..Len(history) : history[j].begun < j

HealthInv ==
  /\ \A p \in Providers :
       /\ Len(health[p]) <= MaxSnapshots
       /\ (health[p] = <<>>) = (probes[p] = <<>>)
       /\ InOrder(probes[p])
       /\ health[p] # <<>> /\ Latest(p).failures = 0 => Latest(p).classification = "healthy"
  /\ UnavailableIsEarned

RouteInv == RouteTypes /\ (\A r \in Routers : CallInv(router[r])) /\ DecisionInv /\ HealthInv

(* Of a finite set of numbers, one comes first by any strict total order    *)
(* (no set of a subset of it is the smallest without one).                  *)
LEMMA BestExists ==
  ASSUME NEW shown \in SUBSET Providers, NEW req, NEW pref \in Preferences,
         Suitable(shown, req) # {}
  PROVE  /\ Best(shown, req, pref) \in Suitable(shown, req)
         /\ \A q \in Suitable(shown, req) \ {Best(shown, req, pref)} :
               Preferred(Best(shown, req, pref), q, pref)
<1> DEFINE HasBest(S) == \E p \in S : \A q \in S \ {p} : Preferred(p, q, pref)
           Bad == {S \in SUBSET Providers : S # {} /\ ~ HasBest(S)}
<1>1. Bad = {}
  <2> SUFFICES ASSUME Bad # {} PROVE FALSE
    OBVIOUS
  <2>1. IsWellFoundedOn(StrictSubsetOrdering(Providers), SUBSET Providers)
    BY RouteAssumption, FS_StrictSubsetOrderingWellFounded, FS_FiniteSubsetsOfFinite
  <2>2. PICK S \in Bad : \A T \in Bad : <<T, S>> \notin StrictSubsetOrdering(Providers)
    <3> HIDE DEF Bad
    <3>1. Bad \subseteq SUBSET Providers
      BY DEF Bad
    <3>2. QED
      BY <2>1, <3>1, WFMin
  <2>3. \A T \in SUBSET S : T # S => T \notin Bad
    BY <2>2 DEF StrictSubsetOrdering
  <2>4. PICK p \in S : TRUE
    OBVIOUS
  <2>5. S \ {p} # {} /\ HasBest(S \ {p})
    <3>1. S \ {p} \in SUBSET Providers /\ S \ {p} # S
      BY <2>4
    <3>2. S \ {p} \notin Bad
      BY <2>3, <3>1
    <3>3. S \ {p} # {}
      BY <2>2, <2>4
    <3>4. QED
      BY <3>1, <3>2, <3>3
  <2>6. PICK b \in S \ {p} : \A q \in (S \ {p}) \ {b} : Preferred(b, q, pref)
    BY <2>5
  <2>7. pref[p] \in Int /\ pref[b] \in Int /\ p \in Nat /\ b \in Nat /\ p # b
    BY <2>4, <2>6, RouteAssumption
  <2>8. CASE Preferred(b, p, pref)
    BY <2>4, <2>6, <2>8
  <2>9. CASE ~ Preferred(b, p, pref)
    <3>1. Preferred(p, b, pref)
      BY <2>7, <2>9 DEF Preferred
    <3>2. \A q \in S \ {p} : pref[q] \in Int /\ q \in Nat
      BY RouteAssumption
    <3>3. \A q \in S \ {p} : Preferred(p, q, pref)
      BY <2>6, <2>7, <3>1, <3>2 DEF Preferred
    <3>4. QED
      BY <2>4, <3>3
  <2>10. QED
    BY <2>8, <2>9
<1>2. Suitable(shown, req) \in SUBSET Providers
  BY DEF Suitable
<1>3. HasBest(Suitable(shown, req))
  BY <1>1, <1>2
<1> DEFINE S == Suitable(shown, req)
           b == CHOOSE p \in S : \A q \in S \ {p} : Preferred(p, q, pref)
<1>4. b = Best(shown, req, pref)
  BY DEF Best
<1>5. b \in S /\ \A q \in S \ {b} : Preferred(b, q, pref)
  <2>1. \E p \in S : \A q \in S \ {p} : Preferred(p, q, pref)
    BY <1>3
  <2> HIDE DEF S
  <2>2. QED
    BY <2>1
<1>6. QED
  BY <1>4, <1>5

LEMMA LowestExists ==
  ASSUME NEW S, S \subseteq Nat, S # {}
  PROVE  \E x \in S : \A y \in S : x <= y
<1> DEFINE R == {ss \in Nat \X Nat : ss[1] < ss[2]}
<1>1. IsWellFoundedOn(R, Nat)
  BY NatLessThanWellFounded DEF OpToRel
<1> HIDE DEF R
<1>2. PICK x \in S : \A y \in S : <<y, x>> \notin R
  BY <1>1, WFMin
<1>3. \A y \in S : ~ (y < x)
  BY <1>2 DEF R
<1>4. QED
  BY <1>3

(* No failures are a row of none.                                           *)
LEMMA NoRun ==
  ASSUME NEW history, NEW n
  PROVE  FailedInARow(history, n, 0)
<1>1. Cardinality({}) = 0
  BY FS_EmptySet
<1>2. QED
  BY <1>1 DEF FailedInARow

(* A row of failures is one in every longer history.                        *)
LEMMA RunStays ==
  ASSUME NEW s \in Seq(Outcomes), NEW x \in Outcomes, NEW n \in Nat, NEW k \in Nat,
         InOrder(s), RunKnown(s, n, k)
  PROVE  RunKnown(Append(s, x), n, k)
<1>1. PICK t : t = Append(s, x)
  OBVIOUS
<1>2. Len(t) = Len(s) + 1 /\ \A i \in 1..Len(s) : t[i] = s[i]
  BY <1>1
<1>3. PICK S \in SUBSET (1..n) :
        /\ Cardinality(S) = k
        /\ k > 0 => n \in S
        /\ \A j \in S :
              LET begun == s[j].begun
                  before == {i \in S : i < j}
              IN  /\ ~ s[j].available
                  /\ IF before = {}
                     THEN begun = 0 \/ s[begun].available
                     ELSE begun \in before /\ \A i \in before : i <= begun
  BY DEF RunKnown, FailedInARow
<1>4. n \in 0..Len(s) /\ (n # 0 => t[n] = s[n])
  BY <1>2 DEF RunKnown
<1>5. ASSUME NEW j \in S
      PROVE  /\ t[j] = s[j]
             /\ s[j].begun = 0 \/ t[s[j].begun] = s[s[j].begun]
  <2>1. j \in 1..Len(s) /\ s[j] \in Outcomes
    BY <1>4
  <2>2. s[j].begun \in Nat /\ s[j].begun < j
    BY <2>1 DEF InOrder, Outcomes
  <2>3. s[j].begun = 0 \/ s[j].begun \in 1..Len(s)
    BY <2>1, <2>2
  <2>4. QED
    BY <1>2, <2>1, <2>3
<1>6. FailedInARow(t, n, k)
  BY <1>3, <1>5 DEF FailedInARow
<1>7. QED
  BY <1>1, <1>2, <1>4, <1>6 DEF RunKnown

(* A probe that fails carries on the row that was there when it began.      *)
LEMMA RunGrows ==
  ASSUME NEW s \in Seq(Outcomes), NEW b \in Nat, NEW k \in Nat,
         InOrder(s), RunKnown(s, b, k)
  PROVE  LET x == [available |-> FALSE, begun |-> b]
         IN  FailedInARow(Append(s, x), Len(s) + 1, k + 1)
<1>1. PICK x : x = [available |-> FALSE, begun |-> b]
  OBVIOUS
<1>2. PICK n \in Nat : n = Len(s) + 1
  OBVIOUS
<1>3. PICK t : t = Append(s, x)
  OBVIOUS
<1>4. t[n] = x /\ \A i \in 1..Len(s) : t[i] = s[i]
  BY <1>2, <1>3
<1>5. PICK S \in SUBSET (1..b) :
        /\ Cardinality(S) = k
        /\ k > 0 => b \in S
        /\ \A j \in S :
              LET begun == s[j].begun
                  before == {i \in S : i < j}
              IN  /\ ~ s[j].available
                  /\ IF before = {}
                     THEN begun = 0 \/ s[begun].available
                     ELSE begun \in before /\ \A i \in before : i <= begun
  BY DEF RunKnown, FailedInARow
<1>6. b \in 0..Len(s) /\ (k = 0 => b = 0 \/ s[b].available)
  BY DEF RunKnown
<1>7. PICK T : T = S \cup {n}
  OBVIOUS
<1>8. S \subseteq 1..Len(s) /\ n \notin S /\ T \in SUBSET (1..n) /\ n \in T
  <2>1. Len(s) \in Nat /\ b <= Len(s)
    BY <1>6
  <2>2. \A i \in S : i \in 1..Len(s) /\ i # n /\ i \in 1..n
    BY <1>2, <2>1
  <2>3. n \in 1..n
    BY <1>2, <2>1
  <2>4. QED
    BY <1>7, <2>2, <2>3
<1>9. IsFiniteSet(S)
  <2>1. IsFiniteSet(1..b)
    BY FS_Interval
  <2>2. QED
    BY <2>1, FS_Subset
<1>10. Cardinality(T) = k + 1
  BY <1>5, <1>7, <1>8, <1>9, FS_AddElement
<1>11. S = {} <=> k = 0
  BY <1>5, <1>9, FS_EmptySet
<1>12. ASSUME NEW j \in S
       PROVE  /\ t[j] = s[j]
              /\ s[j].begun = 0 \/ t[s[j].begun] = s[s[j].begun]
              /\ {i \in T : i < j} = {i \in S : i < j}
  <2>1. j \in 1..Len(s) /\ s[j] \in Outcomes
    BY <1>8
  <2>2. s[j].begun \in Nat /\ s[j].begun < j
    BY <2>1 DEF InOrder, Outcomes
  <2>3. s[j].begun = 0 \/ s[j].begun \in 1..Len(s)
    BY <2>1, <2>2
  <2>4. {i \in T : i < j} = {i \in S : i < j}
    BY <1>2, <1>7, <2>1
  <2>5. QED
    BY <1>4, <2>1, <2>3, <2>4
<1>13. {i \in T : i < n} = S
  BY <1>2, <1>7, <1>8
<1>14. ASSUME NEW j \in T
       PROVE  LET begun == t[j].begun
                  before == {i \in T : i < j}
              IN  /\ ~ t[j].available
                  /\ IF before = {}
                     THEN begun = 0 \/ t[begun].available
                     ELSE begun \in before /\ \A i \in before : i <= begun
  <2>1. CASE j \in S
    BY <1>5, <1>12, <2>1
  <2>2. CASE j = n
    <3>1. t[j].begun = b /\ ~ t[j].available
      BY <1>1, <1>4, <2>2
    <3>2. k = 0 => b = 0 \/ t[b].available
      BY <1>4, <1>6
    <3>3. k # 0 => b \in S /\ \A i \in S : i <= b
      BY <1>5
    <3>4. QED
      BY <1>11, <1>13, <2>2, <3>1, <3>2, <3>3
  <2>3. QED
    BY <1>7, <2>1, <2>2
<1>15. FailedInARow(t, n, k + 1)
  BY <1>8, <1>10, <1>14 DEF FailedInARow
<1>16. QED
  BY <1>1, <1>2, <1>3, <1>15

(* The stage of a call tells what it holds.                                 *)
LEMMA RouterCallAtHand ==
  ASSUME NEW call \in RouterCalls
  PROVE  /\ call.stage = "probing" => call \in Probing
         /\ call.stage = "select" => call \in Selecting
         /\ call.stage \in {"list", "scan"} => call \in Scanning
         /\ call.stage = "record" => call \in Recording
<1>1. CASE call = Free
  BY <1>1 DEF Free
<1>2. CASE call \in Probing
  BY <1>2 DEF Probing
<1>3. CASE call \in Selecting
  BY <1>3 DEF Selecting
<1>4. CASE call \in Scanning
  BY <1>4 DEF Scanning
<1>5. CASE call \in Recording
  BY <1>5 DEF Recording
<1>6. QED
  BY <1>1, <1>2, <1>3, <1>4, <1>5 DEF RouterCalls

LEMMA RouteInitInv == RouteInit => RouteInv
<1> SUFFICES ASSUME RouteInit PROVE RouteInv
  OBVIOUS
<1> USE DEF RouteInit
<1>1. RouteTypes
  BY DEF RouteTypes, RouterCalls
<1>2. \A r \in Routers : CallInv(router[r])
  BY DEF CallInv, Free
<1>3. DecisionInv
  BY DEF DecisionInv, KeyAnswersAgree, FreshSelectionIsBest
<1>4. HealthInv
  BY RouteAssumption DEF HealthInv, InOrder, UnavailableIsEarned
<1>5. QED
  BY <1>1, <1>2, <1>3, <1>4 DEF RouteInv

(* A call goes on and nothing else happens. *)
LEMMA RouterGoes ==
  ASSUME RouteInv, NEW r \in Routers, NEW call \in RouterCalls, CallInv(call),
         router' = [router EXCEPT ![r] = call],
         UNCHANGED <<registered, health, decisions, selection, probes, answers>>
  PROVE  RouteInv'
<1> USE DEF RouteInv
<1>1. RouteTypes'
  BY DEF RouteTypes
<1>2. ASSUME NEW q \in Routers PROVE CallInv(router[q])'
  <2>1. PICK old : old = router[q]
    OBVIOUS
  <2>2. CallInv(old) /\ router'[q] \in {old, call}
    BY <2>1 DEF RouteTypes
  <2>3. PICK new : new = router'[q]
    OBVIOUS
  <2>4. CallInv(new)
    BY <2>2, <2>3
  <2>5. QED
    BY <2>3, <2>4 DEF CallInv
<1>3. DecisionInv' /\ HealthInv'
  BY DEF DecisionInv, HealthInv, KeyAnswersAgree, FreshSelectionIsBest, UnavailableIsEarned,
         Latest, Unavailable
<1>4. QED
  BY <1>1, <1>2, <1>3

LEMMA RegisterStep ==
  ASSUME RouteInv, NEW p \in Providers, RegisterProvider(p)
  PROVE  RouteInv'
<1> USE DEF RouteInv, RegisterProvider
<1>1. RouteTypes'
  BY DEF RouteTypes
<1>2. \A r \in Routers : CallInv(router[r])'
  BY DEF CallInv
<1>3. DecisionInv'
  BY DEF DecisionInv, KeyAnswersAgree, FreshSelectionIsBest
<1>4. HealthInv'
  BY DEF HealthInv, UnavailableIsEarned, Latest, Unavailable
<1>5. QED
  BY <1>1, <1>2, <1>3, <1>4

LEMMA ProbeStartStep ==
  ASSUME RouteInv, NEW r \in Routers, NEW p \in Providers, ProbeStart(r, p)
  PROVE  RouteInv'
<1>1. PICK call : call = [stage |-> "probing", provider |-> p, begun |-> Len(probes[p]),
                          failures |-> IF health[p] = <<>> THEN 0 ELSE Latest(p).failures]
  OBVIOUS
<1>2. health[p] # <<>> => Latest(p) \in HealthSnapshots
  BY DEF RouteInv, RouteTypes, Latest
<1>3. probes[p] \in Seq(Outcomes)
  BY DEF RouteInv, RouteTypes
<1>4. call \in RouterCalls
  BY <1>1, <1>2, <1>3 DEF RouterCalls, Probing, HealthSnapshots
<1>5. RunKnown(probes[p], call.begun, call.failures)
  <2>1. CASE health[p] = <<>>
    <3>1. probes[p] = <<>> /\ call.begun = 0 /\ call.failures = 0
      BY <1>1, <2>1 DEF RouteInv, HealthInv
    <3>2. QED
      BY <3>1, NoRun DEF RunKnown
  <2>2. CASE health[p] # <<>>
    <3>1. /\ FailedInARow(probes[p], call.begun, call.failures)
          /\ (Latest(p).classification = "healthy") = probes[p][Len(probes[p])].available
          /\ call.failures = 0 => Latest(p).classification = "healthy"
      BY <1>1, <2>2 DEF RouteInv, HealthInv, UnavailableIsEarned
    <3>2. call.begun = Len(probes[p]) /\ Len(probes[p]) \in Nat
      BY <1>1, <1>3
    <3>3. call.failures = 0 => probes[p][call.begun].available
      BY <3>1, <3>2
    <3>4. QED
      BY <3>1, <3>2, <3>3 DEF RunKnown
  <2>3. QED
    BY <2>1, <2>2
<1>6. CallInv(call)
  BY <1>1, <1>5 DEF CallInv
<1>7. QED
  BY <1>1, <1>4, <1>6, RouterGoes DEF ProbeStart

(* Pruning keeps the latest snapshot.                                       *)
LEMMA RetainedKeepsLast ==
  ASSUME NEW s \in Seq(HealthSnapshots), NEW x \in HealthSnapshots
  PROVE  LET kept == Retained(Append(s, x)) IN
         /\ kept \in Seq(HealthSnapshots) /\ kept # <<>> /\ Len(kept) <= MaxSnapshots
         /\ kept[Len(kept)] = x
<1>0. Append(s, x) \in Seq(HealthSnapshots)
  OBVIOUS
<1>1. PICK t \in Seq(HealthSnapshots) : t = Append(s, x)
  BY <1>0
<1>2. Len(t) \in Nat \ {0} /\ t[Len(t)] = x
  BY <1>1
<1>3. PICK kept : kept = Retained(t)
  OBVIOUS
<1>4. CASE Len(t) > MaxSnapshots
  <2>1. kept = SubSeq(t, Len(t) - MaxSnapshots + 1, Len(t))
    BY <1>3, <1>4 DEF Retained
  <2>2. Len(t) - MaxSnapshots + 1 \in 1..Len(t)
    BY <1>2, <1>4, RouteAssumption
  <2>3. /\ kept \in Seq(HealthSnapshots) /\ Len(kept) = MaxSnapshots
        /\ \A i \in 1..MaxSnapshots : kept[i] = t[Len(t) - MaxSnapshots + i]
    BY <1>2, <2>1, <2>2, RouteAssumption
  <2>4. kept[MaxSnapshots] = t[Len(t)]
    BY <1>2, <2>3, RouteAssumption
  <2>5. QED
    BY <1>1, <1>2, <1>3, <2>3, <2>4, RouteAssumption
<1>5. CASE ~ Len(t) > MaxSnapshots
  <2>1. kept = t
    BY <1>3, <1>5 DEF Retained
  <2>2. QED
    BY <1>1, <1>2, <1>3, <1>5, <2>1, RouteAssumption
<1>6. QED
  BY <1>1, <1>3, <1>4, <1>5

LEMMA ProbeEndStep ==
  ASSUME RouteInv, NEW r \in Routers, NEW available \in BOOLEAN, ProbeEnd(r, available)
  PROVE  RouteInv'
<1> USE DEF RouteInv
<1>1. PICK call \in Probing : call = router[r]
  BY RouterCallAtHand DEF ProbeEnd, RouteTypes
<1>2. PICK p \in Providers : p = call.provider
  BY DEF Probing
<1>3. PICK x : x = Snapshot(call.failures, available)
  OBVIOUS
<1>4. x \in HealthSnapshots
  BY <1>1, <1>3 DEF Snapshot, HealthSnapshots, Probing, Classes
<1>5. PICK kept : kept = Retained(Append(health[p], x))
  OBVIOUS
<1>6. PICK o : o = [available |-> available, begun |-> call.begun]
  OBVIOUS
<1>7. PICK h : h = probes[p]
  OBVIOUS
<1>8. health[p] \in Seq(HealthSnapshots) /\ h \in Seq(Outcomes) /\ o \in Outcomes
  BY <1>6, <1>7 DEF RouteTypes, Outcomes, Probing
<1>9. PICK grown \in Seq(Outcomes) : grown = Append(h, o)
  <2>1. Append(h, o) \in Seq(Outcomes)
    BY <1>8
  <2>2. QED
    BY <2>1
<1>10. /\ kept \in Seq(HealthSnapshots) /\ kept # <<>> /\ Len(kept) <= MaxSnapshots
       /\ kept[Len(kept)] = x
  BY <1>4, <1>5, <1>8, RetainedKeepsLast
<1>11. /\ health' = [health EXCEPT ![p] = kept]
       /\ probes' = [probes EXCEPT ![p] = grown]
       /\ router' = [router EXCEPT ![r] = Free]
       /\ UNCHANGED <<registered, decisions, selection, answers>>
  BY <1>1, <1>2, <1>3, <1>5, <1>6, <1>7, <1>9 DEF ProbeEnd
<1>12. RouteTypes'
  BY <1>10, <1>11 DEF RouteTypes, RouterCalls
<1>13. /\ probes'[p] = grown /\ health'[p] = kept
       /\ \A q \in Providers \ {p} : probes'[q] = probes[q] /\ health'[q] = health[q]
  BY <1>11 DEF RouteTypes
<1>14. InOrder(h) /\ RunKnown(h, call.begun, call.failures)
  BY <1>1, <1>2, <1>7 DEF CallInv, HealthInv, Probing
<1>15. call.begun \in Nat /\ call.failures \in Nat
  BY DEF Probing
<1>16. Len(grown) = Len(h) + 1 /\ grown[Len(grown)] = o
  BY <1>8, <1>9
<1>17. ASSUME NEW q \in Routers PROVE CallInv(router[q])'
  <2>1. PICK old : old = router[q]
    OBVIOUS
  <2>2. PICK new : new = router'[q]
    OBVIOUS
  <2>3. CallInv(old) /\ old \in RouterCalls /\ new \in {old, Free}
    BY <1>11, <2>1, <2>2 DEF RouteTypes
  <2>4. CASE new = Free
    BY <2>2, <2>4 DEF CallInv, Free
  <2>5. CASE new = old
    <3>1. new.stage = "probing" => new \in Probing
      BY <2>3, <2>5, RouterCallAtHand
    <3>2. ASSUME new.stage = "probing"
          PROVE  RunKnown(probes'[new.provider], new.begun, new.failures)
      <4>1. /\ new.provider \in Providers /\ new.begun \in Nat /\ new.failures \in Nat
            /\ RunKnown(probes[new.provider], new.begun, new.failures)
        BY <2>3, <2>5, <3>1, <3>2 DEF CallInv, Probing
      <4>2. CASE new.provider = p
        <5>1. RunKnown(h, new.begun, new.failures)
          BY <1>7, <4>1, <4>2
        <5>2. RunKnown(grown, new.begun, new.failures)
          BY <1>8, <1>9, <1>14, <4>1, <5>1, RunStays
        <5>3. QED
          BY <1>13, <4>2, <5>2
      <4>3. CASE new.provider # p
        BY <1>13, <4>1, <4>3
      <4>4. QED
        BY <4>2, <4>3
    <3>3. /\ new.stage = "record" => new.decision.provider \in registered
          /\ new.stage = "select" => new.digest \subseteq registered
      BY <2>3, <2>5 DEF CallInv
    <3>4. QED
      BY <1>11, <2>2, <3>2, <3>3 DEF CallInv
  <2>6. QED
    BY <2>3, <2>4, <2>5
<1>18. DecisionInv'
  BY <1>11 DEF DecisionInv, KeyAnswersAgree, FreshSelectionIsBest
<1>19. HealthInv'
  <2>1. /\ FailedInARow(grown, Len(grown), x.failures)
        /\ x.classification = "unavailable" => x.failures >= FailureThreshold
        /\ (x.classification = "healthy") = available
        /\ x.failures = 0 => x.classification = "healthy"
    <3>1. CASE available
      <4>1. x.failures = 0 /\ x.classification = "healthy"
        BY <1>3, <3>1 DEF Snapshot
      <4>2. QED
        BY <3>1, <4>1, NoRun
    <3>2. CASE ~ available
      <4>1. /\ x.failures = call.failures + 1
            /\ x.classification = IF x.failures >= FailureThreshold
                                   THEN "unavailable" ELSE "degraded"
        BY <1>3, <3>2 DEF Snapshot
      <4>2. FailedInARow(grown, Len(grown), x.failures)
        <5>1. o = [available |-> FALSE, begun |-> call.begun]
          BY <1>6, <3>2
        <5>2. QED
          BY <1>8, <1>9, <1>14, <1>15, <1>16, <4>1, <5>1, RunGrows
      <4>3. QED
        BY <1>15, <3>2, <4>1, <4>2
    <3>3. QED
      BY <3>1, <3>2
  <2>2. InOrder(grown)
    BY <1>6, <1>8, <1>9, <1>14, <1>15 DEF InOrder, RunKnown
  <2>3. Latest(p)' = x
    BY <1>10, <1>13 DEF Latest
  <2>4. ASSUME NEW q \in Providers \ {p} PROVE
          Latest(q)' = Latest(q) /\ Unavailable(q)' = Unavailable(q)
    BY <1>13 DEF Latest, Unavailable
  <2>5. ASSUME NEW q \in Providers
        PROVE  /\ Len(health'[q]) <= MaxSnapshots
               /\ (health'[q] = <<>>) = (probes'[q] = <<>>)
               /\ InOrder(probes'[q])
               /\ health'[q] # <<>> =>
                    /\ Latest(q)'.failures = 0 => Latest(q)'.classification = "healthy"
                    /\ FailedInARow(probes'[q], Len(probes'[q]), Latest(q)'.failures)
                    /\ Unavailable(q)' => Latest(q)'.failures >= FailureThreshold
                    /\ (Latest(q)'.classification = "healthy")
                          = probes'[q][Len(probes'[q])].available
    <3>1. CASE q = p
      <4>1. grown # <<>> /\ o.available = available
        BY <1>6, <1>8, <1>16
      <4>2. Unavailable(p)' => x.classification = "unavailable"
        BY <2>3 DEF Unavailable
      <4>3. QED
        BY <1>10, <1>13, <1>16, <2>1, <2>2, <2>3, <3>1, <4>1, <4>2
    <3>2. CASE q # p
      <4>1. /\ Len(health[q]) <= MaxSnapshots
            /\ (health[q] = <<>>) = (probes[q] = <<>>)
            /\ InOrder(probes[q])
            /\ health[q] # <<>> =>
                 /\ Latest(q).failures = 0 => Latest(q).classification = "healthy"
                 /\ FailedInARow(probes[q], Len(probes[q]), Latest(q).failures)
                 /\ Unavailable(q) => Latest(q).failures >= FailureThreshold
                 /\ (Latest(q).classification = "healthy") = probes[q][Len(probes[q])].available
        BY DEF HealthInv, UnavailableIsEarned
      <4>2. probes'[q] = probes[q] /\ health'[q] = health[q]
            /\ Latest(q)' = Latest(q) /\ Unavailable(q)' = Unavailable(q)
        BY <1>13, <2>4, <3>2
      <4>3. QED
        BY <4>1, <4>2
    <3>3. QED
      BY <3>1, <3>2
  <2>6. QED
    BY <2>5 DEF HealthInv, UnavailableIsEarned
<1>20. QED
  BY <1>12, <1>17, <1>18, <1>19

(* select: a selection names a provider that is registered by then; if it   *)
(* has the digest of the registry still, it is the best of it.              *)
LEMMA SelectStep ==
  ASSUME RouteInv, NEW r \in Routers, SelectList(r)
  PROVE  RouteInv'
<1> USE DEF RouteInv
<1>1. PICK call \in Selecting : call = router[r]
  BY RouterCallAtHand DEF SelectList, RouteTypes
<1>2. call.digest \subseteq registered /\ registered \subseteq Providers
  BY <1>1 DEF CallInv, Selecting, RouteTypes
<1>3. CASE Suitable(registered, call.req) = {}
  <2>1. UNCHANGED selection /\ router' = [router EXCEPT ![r] = Free]
    BY <1>1, <1>3 DEF SelectList
  <2>2. QED
    BY <2>1, RouterGoes DEF SelectList, RouterCalls, CallInv, Free
<1>4. CASE Suitable(registered, call.req) # {}
  <2>1. PICK best : best = Best(registered, call.req, call.pref)
    OBVIOUS
  <2>2. best \in Providers
    BY <1>2, <1>4, <2>1, BestExists DEF Selecting, Suitable
  <2>3. PICK row : row = [provider |-> best, digest |-> call.digest,
                          req |-> call.req, pref |-> call.pref]
    OBVIOUS
  <2>4. row \in SelectionRows
    BY <2>2, <2>3 DEF SelectionRows, Selecting
  <2>5. /\ selection' = row /\ router' = [router EXCEPT ![r] = Free]
        /\ UNCHANGED <<registered, health, decisions, probes, answers>>
    BY <1>1, <1>4, <2>1, <2>3 DEF SelectList
  <2>6. RouteTypes'
    BY <2>4, <2>5 DEF RouteTypes, RouterCalls
  <2>7. \A q \in Routers : CallInv(router[q])'
    <3> SUFFICES ASSUME NEW q \in Routers PROVE CallInv(router[q])'
      OBVIOUS
    <3>1. PICK old : old = router[q]
      OBVIOUS
    <3>2. PICK new : new = router'[q]
      OBVIOUS
    <3>3. CallInv(old) /\ new \in {old, Free} /\ CallInv(Free)
      BY <2>5, <3>1, <3>2 DEF RouteTypes, CallInv, Free
    <3>4. CallInv(new)
      BY <3>3
    <3>5. QED
      BY <2>5, <3>2, <3>4 DEF CallInv
  <2>8. DecisionInv'
    <3>1. row.digest \subseteq registered /\ row.provider = Best(registered, row.req, row.pref)
      BY <1>2, <2>1, <2>3
    <3>2. QED
      BY <2>5, <3>1 DEF DecisionInv, KeyAnswersAgree, FreshSelectionIsBest
  <2>9. HealthInv'
    BY <2>5 DEF HealthInv, UnavailableIsEarned, Latest, Unavailable
  <2>10. QED
    BY <2>6, <2>7, <2>8, <2>9
<1>5. QED
  BY <1>3, <1>4

LEMMA SelectDigestStep ==
  ASSUME RouteInv, NEW r \in Routers, NEW req \in Requirements, NEW pref \in Preferences,
         SelectDigest(r, req, pref)
  PROVE  RouteInv'
<1>1. PICK call : call = [stage |-> "select", digest |-> registered, req |-> req, pref |-> pref]
  OBVIOUS
<1>2. call \in RouterCalls /\ CallInv(call)
  BY <1>1 DEF RouterCalls, Selecting, CallInv, RouteInv, RouteTypes
<1>3. QED
  BY <1>1, <1>2, RouterGoes DEF SelectDigest

(* A key that has a decision is answered with it.                           *)
LEMMA FallbackStartStep ==
  ASSUME RouteInv, NEW r \in Routers, NEW operation \in RouteOperations,
         NEW key \in RouteKeys, NEW attempt \in 1..MaxFailovers, NEW failed \in Providers,
         NEW ruledOut \in Exclusions, NEW req \in Requirements, NEW pref \in Preferences,
         FallbackStart(r, operation, key, attempt, failed, ruledOut, req, pref)
  PROVE  RouteInv'
<1> USE DEF RouteInv
<1>1. CASE decisions[key] = NoDecision
  <2>1. PICK call : call = [stage |-> "list", operation |-> operation, key |-> key,
                   attempt |-> attempt, failed |-> failed, req |-> req, pref |-> pref,
                   todo |-> {}, excluded |-> ruledOut \cup {failed}]
    OBVIOUS
  <2>2. call \in RouterCalls /\ CallInv(call)
    BY <2>1, RouteAssumption DEF RouterCalls, Scanning, CallInv, RouteTypes
  <2>3. QED
    BY <1>1, <2>1, <2>2, RouterGoes DEF FallbackStart
<1>2. CASE decisions[key] # NoDecision
  <2>1. /\ decisions[key].operation = operation
        /\ answers' = answers \cup {[operation |-> operation, key |-> key,
                                     decision |-> decisions[key]]}
        /\ UNCHANGED <<router, registered, health, decisions, selection, probes>>
    BY <1>2 DEF FallbackStart, Answer
  <2>2. RouteTypes'
    BY <2>1 DEF RouteTypes
  <2>3. \A q \in Routers : CallInv(router[q])'
    BY <2>1 DEF CallInv
  <2>4. DecisionInv'
    BY <1>2, <2>1 DEF DecisionInv, KeyAnswersAgree, FreshSelectionIsBest
  <2>5. HealthInv'
    BY <2>1 DEF HealthInv, UnavailableIsEarned, Latest, Unavailable
  <2>6. QED
    BY <2>2, <2>3, <2>4, <2>5
<1>3. QED
  BY <1>1, <1>2

LEMMA ListProvidersStep ==
  ASSUME RouteInv, NEW r \in Routers, ListProviders(r)
  PROVE  RouteInv'
<1> USE DEF RouteInv
<1>1. PICK call \in Scanning : call = router[r]
  BY RouterCallAtHand DEF ListProviders, RouteTypes
<1>2. PICK next : next = [call EXCEPT !.stage = "scan", !.todo = registered \ call.excluded]
  OBVIOUS
<1>3. next \in Scanning
  BY <1>2 DEF Scanning, RouteTypes
<1>4. router' = [router EXCEPT ![r] = next]
  BY <1>1, <1>2 DEF ListProviders, RouteTypes
<1>5. QED
  BY <1>3, <1>4, RouterGoes DEF ListProviders, RouterCalls, CallInv, Scanning

LEMMA CheckHealthStep ==
  ASSUME RouteInv, NEW r \in Routers, CheckHealth(r)
  PROVE  RouteInv'
<1> USE DEF RouteInv
<1>1. PICK call \in Scanning : call = router[r]
  BY RouterCallAtHand DEF CheckHealth, RouteTypes
<1>2. PICK p : p = CHOOSE q \in call.todo : \A o \in call.todo : q <= o
  OBVIOUS
<1>3. p \in Providers
  <2>1. call.todo # {} /\ call.todo \subseteq Nat
    BY <1>1, RouteAssumption DEF CheckHealth, Scanning
  <2>2. \E q \in call.todo : \A o \in call.todo : q <= o
    BY <2>1, LowestExists
  <2>3. p \in call.todo
    BY <1>2, <2>2
  <2>4. QED
    BY <2>3 DEF Scanning
<1>4. PICK next : next = [call EXCEPT !.todo = @ \ {p},
                            !.excluded = IF Unavailable(p) THEN @ \cup {p} ELSE @]
  OBVIOUS
<1>5. next \in Scanning
  BY <1>3, <1>4 DEF Scanning
<1>6. router' = [router EXCEPT ![r] = next]
  BY <1>1, <1>2, <1>4 DEF CheckHealth, RouteTypes
<1>7. QED
  BY <1>5, <1>6, RouterGoes DEF CheckHealth, RouterCalls, CallInv, Scanning

LEMMA ChooseProviderStep ==
  ASSUME RouteInv, NEW r \in Routers, ChooseProvider(r)
  PROVE  RouteInv'
<1> USE DEF RouteInv
<1>1. PICK call \in Scanning : call = router[r]
  BY RouterCallAtHand DEF ChooseProvider, RouteTypes
<1>2. PICK shown : shown = registered \ call.excluded
  OBVIOUS
<1>3. CASE Suitable(shown, call.req) = {}
  <2>1. router' = [router EXCEPT ![r] = Free]
    BY <1>1, <1>2, <1>3 DEF ChooseProvider
  <2>2. QED
    BY <2>1, RouterGoes DEF ChooseProvider, RouterCalls, CallInv, Free
<1>4. CASE Suitable(shown, call.req) # {}
  <2>1. PICK best : best = Best(shown, call.req, call.pref)
    OBVIOUS
  <2>2. shown \subseteq registered /\ shown \subseteq Providers
    BY <1>2 DEF RouteTypes
  <2>3. call.pref \in Preferences
    BY DEF Scanning
  <2>4. best \in registered /\ best \in Providers
    BY <1>4, <2>1, <2>2, <2>3, BestExists DEF Suitable
  <2>5. PICK decision : decision =
          [operation |-> call.operation, attempt |-> call.attempt,
           provider |-> best, digest |-> shown, previous |-> call.failed]
    OBVIOUS
  <2>6. decision \in Picks /\ decision.provider \in registered
    BY <2>2, <2>4, <2>5 DEF Picks, Scanning
  <2>7. PICK next : next = [stage |-> "record", operation |-> call.operation,
                            key |-> call.key, decision |-> decision]
    OBVIOUS
  <2>8. next \in Recording /\ CallInv(next)
    BY <2>6, <2>7 DEF Recording, Scanning, CallInv
  <2>9. router' = [router EXCEPT ![r] = next]
    BY <1>1, <1>2, <1>4, <2>1, <2>5, <2>7 DEF ChooseProvider
  <2>10. QED
    BY <2>8, <2>9, RouterGoes DEF ChooseProvider, RouterCalls
<1>5. QED
  BY <1>3, <1>4

(* A decision is stored under a key that has none, or not at all.           *)
LEMMA RecordStep ==
  ASSUME RouteInv, NEW r \in Routers, RecordDecision(r)
  PROVE  RouteInv'
<1> USE DEF RouteInv
<1>1. PICK call \in Recording : call = router[r]
  BY RouterCallAtHand DEF RecordDecision, RouteTypes
<1>2. PICK key \in RouteKeys : key = call.key
  BY DEF Recording
<1>3. PICK row : row = [provider |-> call.decision.provider, operation |-> call.operation,
                        attempt |-> call.decision.attempt, digest |-> call.decision.digest,
                        previous |-> call.decision.previous,
                        health |-> Classification(call.decision.provider)]
  OBVIOUS
<1>4. CASE decisions[key] # NoDecision
  <2>1. router' = [router EXCEPT ![r] = Free] /\ UNCHANGED <<decisions, answers>>
    BY <1>1, <1>2, <1>4 DEF RecordDecision, KeyIsFree
  <2>2. QED
    BY <2>1, RouterGoes DEF RecordDecision, RouterCalls, CallInv, Free
<1>5. CASE decisions[key] = NoDecision
  <2>1. /\ decisions' = [decisions EXCEPT ![key] = row]
        /\ answers' = answers \cup {[operation |-> call.operation, key |-> key, decision |-> row]}
        /\ router' = [router EXCEPT ![r] = Free]
        /\ UNCHANGED <<registered, health, selection, probes>>
    BY <1>1, <1>2, <1>3, <1>5 DEF RecordDecision, KeyIsFree, Answer
  <2>2. call.decision \in Picks /\ call.operation \in RouteOperations
        /\ call.decision.provider \in registered
    BY <1>1 DEF Recording, CallInv
  <2>3. row \in DecisionRows
    <3>1. PICK p \in Providers : p = call.decision.provider
      BY <2>2 DEF Picks
    <3>2. health[p] # <<>> => Latest(p) \in HealthSnapshots
      BY DEF RouteTypes, Latest
    <3>3. Classification(p) \in {"unknown", "healthy", "degraded", "unavailable"}
      BY <3>2 DEF Classification, HealthSnapshots, Classes
    <3>4. QED
      BY <1>3, <2>2, <3>1, <3>3 DEF DecisionRows, Picks
  <2>4. row # NoDecision /\ row.provider \in registered /\ row.operation = call.operation
    BY <1>3, <2>2, <2>3, RouteAssumption
  <2>5. RouteTypes'
    BY <2>1, <2>3 DEF RouteTypes, RouterCalls
  <2>6. \A q \in Routers : CallInv(router[q])'
    <3> SUFFICES ASSUME NEW q \in Routers PROVE CallInv(router[q])'
      OBVIOUS
    <3>1. PICK old : old = router[q]
      OBVIOUS
    <3>2. PICK new : new = router'[q]
      OBVIOUS
    <3>3. CallInv(old) /\ new \in {old, Free} /\ CallInv(Free)
      BY <2>1, <3>1, <3>2 DEF RouteTypes, CallInv, Free
    <3>4. CallInv(new)
      BY <3>3
    <3>5. QED
      BY <2>1, <3>2, <3>4 DEF CallInv
  <2>7. DecisionInv'
    <3>1. \A a \in answers : a.key # key
      BY <1>5 DEF DecisionInv
    <3>2. \A k \in RouteKeys : decisions'[k] = IF k = key THEN row ELSE decisions[k]
      BY <2>1 DEF RouteTypes
    <3>3. KeyAnswersAgree' /\ \A a \in answers' : a.key \in RouteKeys /\ decisions'[a.key] # NoDecision
      BY <2>1, <2>4, <3>1, <3>2 DEF DecisionInv, KeyAnswersAgree
    <3>4. \A k \in RouteKeys : decisions'[k] # NoDecision => decisions'[k].provider \in registered'
      BY <2>1, <2>4, <3>2 DEF DecisionInv
    <3>5. QED
      BY <2>1, <3>3, <3>4 DEF DecisionInv, FreshSelectionIsBest
  <2>8. HealthInv'
    BY <2>1 DEF HealthInv, UnavailableIsEarned, Latest, Unavailable
  <2>9. QED
    BY <2>5, <2>6, <2>7, <2>8
<1>6. QED
  BY <1>4, <1>5

LEMMA RouteNextInv == RouteInv /\ [RouteNext]_routeVars => RouteInv'
<1>1. SUFFICES ASSUME RouteInv, [RouteNext]_routeVars PROVE RouteInv'
  OBVIOUS
<1>2. CASE \E p \in Providers : RegisterProvider(p)
  BY <1>1, <1>2, RegisterStep
<1>3. CASE \E r \in Routers, p \in Providers : ProbeStart(r, p)
  BY <1>1, <1>3, ProbeStartStep
<1>4. CASE \E r \in Routers, available \in BOOLEAN : ProbeEnd(r, available)
  BY <1>1, <1>4, ProbeEndStep
<1>5. CASE \E r \in Routers, req \in Requirements, pref \in Preferences :
             SelectDigest(r, req, pref)
  BY <1>1, <1>5, SelectDigestStep
<1>6. CASE \E r \in Routers, o \in RouteOperations, k \in RouteKeys, n \in 1..MaxFailovers,
             p \in Providers, ruledOut \in Exclusions, req \in Requirements, pref \in Preferences :
             FallbackStart(r, o, k, n, p, ruledOut, req, pref)
  BY <1>1, <1>6, FallbackStartStep
<1>7. CASE \E r \in Routers : \/ SelectList(r) \/ ListProviders(r) \/ CheckHealth(r)
                               \/ ChooseProvider(r) \/ RecordDecision(r)
  BY <1>1, <1>7, SelectStep, ListProvidersStep, CheckHealthStep, ChooseProviderStep, RecordStep
<1>8. CASE UNCHANGED routeVars
  <2> USE <1>1, <1>8 DEF RouteInv, routeVars
  <2>1. RouteTypes'
    BY DEF RouteTypes
  <2>2. \A r \in Routers : CallInv(router[r])'
    BY DEF CallInv
  <2>3. DecisionInv'
    BY DEF DecisionInv, KeyAnswersAgree, FreshSelectionIsBest
  <2>4. HealthInv'
    BY DEF HealthInv, UnavailableIsEarned, Latest, Unavailable
  <2>5. QED
    BY <2>1, <2>2, <2>3, <2>4
<1>9. QED
  BY <1>1, <1>2, <1>3, <1>4, <1>5, <1>6, <1>7, <1>8 DEF RouteNext

(* The inductive invariant of routing holds of every behaviour.             *)
THEOREM RouteInvHolds == RouteSpec => []RouteInv
BY RouteInitInv, RouteNextInv, PTL DEF RouteSpec

(* A decision names a registered provider and an attempt within the limit,  *)
(* and no history outgrows its bound.                                       *)
THEOREM RouteTypesHold == RouteSpec => []RouteTypeOK
<1>1. RouteInv => RouteTypeOK
  BY DEF RouteInv, RouteTypes, DecisionInv, HealthInv, RouteTypeOK, DecisionRows
<1>2. QED
  BY <1>1, RouteInvHolds, PTL

(* A key of a fallback has one answer for good, whoever asks and when.      *)
THEOREM KeysAnswerOnce == RouteSpec => []KeyAnswersAgree
<1>1. RouteInv => KeyAnswersAgree
  BY DEF RouteInv, DecisionInv
<1>2. QED
  BY <1>1, RouteInvHolds, PTL

(* A selection that passes assert_fresh is the one that would be made now.  *)
THEOREM FreshIsBest == RouteSpec => []FreshSelectionIsBest
<1>1. RouteInv => FreshSelectionIsBest
  BY DEF RouteInv, DecisionInv
<1>2. QED
  BY <1>1, RouteInvHolds, PTL

(* A provider is called unavailable only for FailureThreshold failures in a *)
(* row, each of a probe that began after the one before it was recorded,    *)
(* however the monitors race and whatever was pruned.                       *)
THEOREM UnavailableEarned == RouteSpec => []UnavailableIsEarned
<1>1. RouteInv => UnavailableIsEarned
  BY DEF RouteInv, HealthInv
<1>2. QED
  BY <1>1, RouteInvHolds, PTL

(***************************************************************************)
(* Project memory.                                                         *)
(***************************************************************************)
PlanTypes(plan) ==
  /\ plan.canonical \in MemoryIds
  /\ plan.redundant \subseteq MemoryIds \ {plan.canonical}
  /\ plan.merged \in (SUBSET Refs) \ {{}}
  /\ plan.seen \in [Members(plan) -> MemoryRows]

(* A plan was made from active rows that say the same and whose references *)
(* it has; a member that was not written since is as it was.               *)
PlanInv(plan) ==
  /\ PlanTypes(plan)
  /\ \A n \in Members(plan) :
       /\ plan.seen[n].status = "active"
       /\ plan.seen[n].refs \subseteq plan.merged
       /\ Normalized[plan.seen[n].content] = Normalized[plan.seen[plan.canonical].content]
       /\ Present(n) /\ memory[n].revision >= plan.seen[n].revision
       /\ memory[n].revision = plan.seen[n].revision => memory[n] = plan.seen[n]

(* A member that was written, and if only once, as the compaction does.    *)
Settled(n, old, new) ==
  /\ memory[n].revision > old.revision
  /\ memory[n].revision = old.revision + 1 => memory[n] = new

MemoryCalls ==
  {Idling}
  \cup [stage : {"edit"}, id : MemoryIds, row : MemoryRows]
  \cup [stage : {"check"}, plan : plans, row : MemoryRows, todo : SUBSET MemoryIds]
  \cup [stage : {"archive"}, plan : plans, todo : SUBSET MemoryIds]
  \cup [stage : {"sources"}, proposal : Proposals, todo : SUBSET MemoryIds,
        refs : SUBSET Refs, confidence : 1..2]

KeeperInv(call) ==
  /\ call.stage = "edit" => Present(call.id)
  /\ call.stage = "check" =>
       LET canonical == call.plan.seen[call.plan.canonical] IN
       /\ call.todo \subseteq call.plan.redundant
       /\ call.row.revision >= canonical.revision
       /\ call.row.revision = canonical.revision => call.row = canonical
  /\ call.stage = "archive" =>
       /\ call.todo \subseteq call.plan.redundant
       /\ LET old == call.plan.seen[call.plan.canonical] IN
          Settled(call.plan.canonical, old, Advanced([old EXCEPT !.refs = call.plan.merged]))
       /\ \A n \in call.plan.redundant \ call.todo :
            LET old == call.plan.seen[n] IN
            Settled(n, old, Advanced([old EXCEPT !.status = "archived"]))
  /\ call.stage = "sources" =>
       /\ call.todo \subseteq call.proposal.sources
       /\ \A s \in call.proposal.sources : Present(s)
       /\ \A r \in call.refs : \E s \in call.proposal.sources : <<s, r>> \in held
       /\ \A s \in call.proposal.sources \ call.todo : \E r \in call.refs : <<s, r>> \in held
       /\ call.confidence >= call.proposal.minimum

StoreInv ==
  /\ memory \in [MemoryIds -> MemoryRows \cup {Absent}]
  /\ acknowledged \in [MemoryIds -> Nat]
  /\ \A m \in MemoryIds : ~ Present(m) => acknowledged[m] = 0
  /\ NoUpdateLost
  /\ \A m \in MemoryIds : Present(m) /\ memory[m].status = "active" =>
       {m} \X memory[m].refs \subseteq held
  /\ LearningIsBacked

KeepersInv ==
  /\ keeper \in [Keepers -> MemoryCalls]
  /\ \A k \in Keepers : KeeperInv(keeper[k])

MemoryInv == StoreInv /\ (\A plan \in plans : PlanInv(plan)) /\ KeepersInv

LEMMA MemoryInitInv == MemoryInit => MemoryInv
<1> SUFFICES ASSUME MemoryInit PROVE MemoryInv
  OBVIOUS
<1> USE DEF MemoryInit
<1>1. StoreInv
  BY MemoryAssumption DEF StoreInv, NoUpdateLost, LearningIsBacked, Present
<1>2. KeepersInv
  BY DEF KeepersInv, MemoryCalls, KeeperInv, Idling
<1>3. QED
  BY <1>1, <1>2 DEF MemoryInv

(* A keeper goes on and nothing is written.                                *)
LEMMA KeeperGoes ==
  ASSUME MemoryInv, NEW k \in Keepers, NEW call \in MemoryCalls, KeeperInv(call),
         keeper' = [keeper EXCEPT ![k] = call],
         UNCHANGED <<memory, plans, acknowledged, held>>
  PROVE  MemoryInv'
<1> USE DEF MemoryInv
<1>1. StoreInv'
  BY DEF StoreInv, NoUpdateLost, LearningIsBacked, Present
<1>2. \A plan \in plans' : PlanInv(plan)'
  BY DEF PlanInv, Present
<1>3. MemoryCalls' = MemoryCalls
  BY DEF MemoryCalls
<1>4. ASSUME NEW j \in Keepers PROVE KeeperInv(keeper[j])'
  <2>1. PICK new : new = keeper'[j]
    OBVIOUS
  <2>2. new \in {keeper[j], call}
    BY <2>1 DEF KeepersInv
  <2>3. KeeperInv(new)
    BY <2>2 DEF KeepersInv
  <2>4. KeeperInv(new)'
    BY <2>3 DEF KeeperInv, Settled, Present
  <2>5. QED
    BY <2>1, <2>4 DEF KeeperInv, Settled, Present
<1>5. keeper' \in [Keepers -> MemoryCalls]
  BY DEF KeepersInv
<1>6. QED
  BY <1>1, <1>2, <1>3, <1>4, <1>5 DEF KeepersInv

(* An update of a row, by whomever: what plans and calls remember is of     *)
(* earlier revisions, and what was held stays held.                         *)
LEMMA UpdateKeeps ==
  ASSUME MemoryInv, NEW m \in MemoryIds, Present(m), NEW row \in MemoryRows,
         row.revision = memory[m].revision + 1,
         memory' = [memory EXCEPT ![m] = row],
         held' = IF row.status = "active" THEN held \cup ({m} \X row.refs) ELSE held,
         acknowledged' = [acknowledged EXCEPT ![m] = @ + 1],
         UNCHANGED plans
  PROVE  /\ StoreInv'
         /\ \A plan \in plans' : PlanInv(plan)'
         /\ MemoryCalls' = MemoryCalls
         /\ \A call \in MemoryCalls : KeeperInv(call) => KeeperInv(call)'
<1> USE DEF MemoryInv
<1>1. /\ memory \in [MemoryIds -> MemoryRows \cup {Absent}]
      /\ acknowledged \in [MemoryIds -> Nat]
      /\ memory[m] \in MemoryRows /\ Absent \notin MemoryRows
  BY MemoryAssumption DEF StoreInv, Present
<1>2. PICK before \in Nat : before = memory[m].revision
  BY <1>1 DEF MemoryRows
<1>3. row.revision = before + 1 /\ row # Absent /\ held \subseteq held'
  BY <1>1, <1>2
<1>4. \A n \in MemoryIds : memory'[n] = IF n = m THEN row ELSE memory[n]
  BY <1>1
<1>5. \A n \in MemoryIds : Present(n) <=> Present(n)'
  BY <1>3, <1>4 DEF Present
<1>6. StoreInv'
  <2>1. /\ memory' \in [MemoryIds -> MemoryRows \cup {Absent}]
        /\ acknowledged' \in [MemoryIds -> Nat]
    BY <1>1
  <2>2. NoUpdateLost' /\ \A n \in MemoryIds : ~ Present(n)' => acknowledged'[n] = 0
    BY <1>1, <1>2, <1>3, <1>4, <1>5 DEF StoreInv, NoUpdateLost
  <2>3. \A n \in MemoryIds : Present(n)' /\ memory'[n].status = "active" =>
          {n} \X memory'[n].refs \subseteq held'
    BY <1>4, <1>5 DEF StoreInv
  <2>4. LearningIsBacked'
    <3>1. \A p \in Proposals : memory'[p.id].revision = 0 => memory'[p.id] = memory[p.id]
      BY <1>2, <1>3, <1>4, MemoryAssumption
    <3>2. QED
      BY <1>3, <1>5, <3>1, MemoryAssumption DEF StoreInv, LearningIsBacked
  <2>5. QED
    BY <2>1, <2>2, <2>3, <2>4 DEF StoreInv
<1>7. ASSUME NEW n \in MemoryIds, Present(n)
      PROVE  /\ memory[n].revision \in Nat
             /\ \/ memory'[n] = memory[n]
                \/ memory'[n].revision = memory[n].revision + 1
  BY <1>1, <1>2, <1>3, <1>4, <1>7 DEF Present, MemoryRows
<1>8. ASSUME NEW plan \in plans' PROVE PlanInv(plan)'
  <2>1. PlanInv(plan)
    OBVIOUS
  <2>2. \A n \in Members(plan) : n \in MemoryIds /\ plan.seen[n].revision \in Nat
    BY <2>1 DEF PlanInv, PlanTypes, Members, MemoryRows
  <2>3. QED
    BY <1>5, <1>7, <2>1, <2>2 DEF PlanInv
<1>9. ASSUME NEW n \in MemoryIds, NEW old \in MemoryRows, NEW new, Present(n), Settled(n, old, new)
      PROVE  Settled(n, old, new)'
  BY <1>7, <1>9 DEF Settled, MemoryRows
<1>10. ASSUME NEW call \in MemoryCalls, KeeperInv(call) PROVE KeeperInv(call)'
  <2>1. call.stage = "edit" => call.id \in MemoryIds
    BY DEF MemoryCalls, Idling
  <2>2. CASE call.stage = "archive"
    <3>1. call.plan \in plans
      BY <2>2 DEF MemoryCalls, Idling
    <3>2. PICK plan \in plans : plan = call.plan
      BY <3>1
    <3>3. \A n \in Members(plan) : n \in MemoryIds /\ plan.seen[n] \in MemoryRows /\ Present(n)
      BY DEF PlanInv, PlanTypes, Members
    <3>4. QED
      BY <1>9, <1>10, <2>2, <3>2, <3>3 DEF KeeperInv, Members
  <2>3. CASE call.stage = "sources"
    <3>1. call.proposal \in Proposals
      BY <2>3 DEF MemoryCalls, Idling
    <3>2. QED
      BY <1>3, <1>5, <1>10, <2>3, <3>1, MemoryAssumption DEF KeeperInv
  <2>4. QED
    BY <1>5, <1>10, <2>1, <2>2, <2>3 DEF KeeperInv
<1>11. MemoryCalls' = MemoryCalls
  BY DEF MemoryCalls
<1>12. QED
  BY <1>6, <1>8, <1>10, <1>11

LEMMA UpdateStep ==
  ASSUME MemoryInv, NEW m \in MemoryIds, Present(m), NEW row \in MemoryRows,
         row.revision = memory[m].revision + 1,
         memory' = [memory EXCEPT ![m] = row],
         held' = IF row.status = "active" THEN held \cup ({m} \X row.refs) ELSE held,
         acknowledged' = [acknowledged EXCEPT ![m] = @ + 1],
         UNCHANGED plans,
         NEW k \in Keepers, NEW call \in MemoryCalls, KeeperInv(call)',
         keeper' = [keeper EXCEPT ![k] = call]
  PROVE  MemoryInv'
<1>1. /\ StoreInv'
      /\ \A plan \in plans' : PlanInv(plan)'
      /\ MemoryCalls' = MemoryCalls
      /\ \A c \in MemoryCalls : KeeperInv(c) => KeeperInv(c)'
  BY UpdateKeeps
<1>2. keeper' \in [Keepers -> MemoryCalls]
  BY DEF MemoryInv, KeepersInv
<1>3. ASSUME NEW j \in Keepers PROVE KeeperInv(keeper[j])'
  <2>1. PICK new : new = keeper'[j]
    OBVIOUS
  <2>2. new \in {keeper[j], call}
    BY <2>1 DEF MemoryInv, KeepersInv
  <2>3. PICK old \in MemoryCalls : old = keeper[j]
    BY DEF MemoryInv, KeepersInv
  <2>4. KeeperInv(old)
    BY <2>3 DEF MemoryInv, KeepersInv
  <2>5. KeeperInv(new)'
    BY <1>1, <2>2, <2>3, <2>4
  <2>6. QED
    BY <2>1, <2>5 DEF KeeperInv, Settled, Present
<1>4. QED
  BY <1>1, <1>2, <1>3 DEF MemoryInv, KeepersInv

LEMMA RestsSafely == Idling \in MemoryCalls /\ KeeperInv(Idling) /\ KeeperInv(Idling)'
BY DEF MemoryCalls, KeeperInv, Idling

(* What may be written over a row is a row of the next revision.            *)
LEMMA AdvancedRow ==
  ASSUME NEW row \in MemoryRows
  PROVE  Advanced(row) \in MemoryRows /\ Advanced(row).revision = row.revision + 1
<1>1. row.revision + 1 \in Nat
  BY DEF MemoryRows
<1>2. QED
  BY <1>1 DEF Advanced, MemoryRows

LEMMA RowKeepsType ==
  ASSUME NEW row \in MemoryRows
  PROVE  /\ \A more \in (SUBSET Refs) \ {{}} : [row EXCEPT !.refs = more] \in MemoryRows
         /\ \A c \in Contents : [row EXCEPT !.content = c] \in MemoryRows
         /\ [row EXCEPT !.confidence = 2] \in MemoryRows
         /\ [row EXCEPT !.status = "archived"] \in MemoryRows
         /\ \A more \in (SUBSET Refs) \ {{}} : [row EXCEPT !.refs = more].revision = row.revision
         /\ \A c \in Contents : [row EXCEPT !.content = c].revision = row.revision
         /\ [row EXCEPT !.confidence = 2].revision = row.revision
         /\ [row EXCEPT !.status = "archived"].revision = row.revision
BY DEF MemoryRows

LEMMA ChangedRow ==
  ASSUME NEW row \in MemoryRows, NEW change \in Changes, NEW c \in Contents, NEW ref \in Refs
  PROVE  /\ Changed(row, change, c, ref) \in MemoryRows
         /\ Changed(row, change, c, ref).revision = row.revision
<1>1. change \in {"refs", "content", "confidence", "archive"}
  BY MemoryAssumption
<1>2. row.refs \cup {ref} \in (SUBSET Refs) \ {{}}
  <2>1. row.refs \in SUBSET Refs
    BY DEF MemoryRows
  <2>2. ref \in row.refs \cup {ref} /\ row.refs \cup {ref} \in SUBSET Refs
    BY <2>1
  <2>3. row.refs \cup {ref} # {}
    BY <2>2
  <2>4. QED
    BY <2>2, <2>3
<1>3. CASE change = "refs"
  BY <1>2, <1>3, RowKeepsType DEF Changed
<1>4. CASE change = "content"
  BY <1>4, RowKeepsType DEF Changed
<1>5. CASE change = "confidence"
  BY <1>5, RowKeepsType DEF Changed
<1>6. CASE change = "archive"
  BY <1>6, RowKeepsType DEF Changed
<1>7. QED
  BY <1>1, <1>3, <1>4, <1>5, <1>6

(* What a call at its stage holds.                                          *)
LEMMA KeeperAtHand ==
  ASSUME MemoryInv, NEW k \in Keepers
  PROVE  /\ KeeperInv(keeper[k])
         /\ keeper[k].stage = "edit" =>
              keeper[k] \in [stage : {"edit"}, id : MemoryIds, row : MemoryRows]
         /\ keeper[k].stage = "check" =>
              keeper[k] \in [stage : {"check"}, plan : plans, row : MemoryRows,
                             todo : SUBSET MemoryIds]
         /\ keeper[k].stage = "archive" =>
              keeper[k] \in [stage : {"archive"}, plan : plans, todo : SUBSET MemoryIds]
         /\ keeper[k].stage = "sources" =>
              keeper[k] \in [stage : {"sources"}, proposal : Proposals,
                             todo : SUBSET MemoryIds, refs : SUBSET Refs, confidence : 1..2]
<1>1. keeper[k] \in MemoryCalls /\ KeeperInv(keeper[k])
  BY DEF MemoryInv, KeepersInv
<1>2. QED
  BY <1>1 DEF MemoryCalls, Idling

(* An editor's update or archive.                                           *)
LEMMA WriteStep ==
  ASSUME MemoryInv, NEW k \in Keepers, NEW change \in Changes, NEW c \in Contents,
         NEW ref \in Refs, Write(k, change, c, ref)
  PROVE  MemoryInv'
<1>1. PICK m, row : m = keeper[k].id /\ row = keeper[k].row
  OBVIOUS
<1>2. m \in MemoryIds /\ row \in MemoryRows /\ Present(m)
  <2>1. keeper[k].stage = "edit"
    BY DEF Write
  <2>2. keeper[k] \in [stage : {"edit"}, id : MemoryIds, row : MemoryRows]
    BY <2>1, KeeperAtHand
  <2>3. KeeperInv(keeper[k])
    BY KeeperAtHand
  <2>4. Present(keeper[k].id)
    BY <2>1, <2>3 DEF KeeperInv
  <2>5. QED
    BY <1>1, <2>2, <2>4
<1>3. keeper' = [keeper EXCEPT ![k] = Idling] /\ UNCHANGED plans
  BY DEF Write, Continue
<1>4. CASE UNCHANGED <<memory, acknowledged, held>>
  BY <1>3, <1>4, RestsSafely, KeeperGoes
<1>5. PICK new : new = Advanced(Changed(row, change, c, ref))
  OBVIOUS
<1>6. new \in MemoryRows
  BY <1>2, <1>5, AdvancedRow, ChangedRow
<1>7. CASE update(m, new, row.revision)
  <2>1. new.revision = memory[m].revision + 1
    BY <1>7 DEF update
  <2>2. QED
    BY <1>2, <1>3, <1>6, <1>7, <2>1, RestsSafely, UpdateStep DEF update, Store
<1>8. QED
  BY <1>1, <1>4, <1>5, <1>7 DEF Write

(* The canonical memory takes the references of the plan.                   *)
LEMMA UpdateCanonicalStep ==
  ASSUME MemoryInv, NEW k \in Keepers, UpdateCanonical(k)
  PROVE  MemoryInv'
<1>1. PICK call : call = keeper[k]
  OBVIOUS
<1>2. /\ call \in [stage : {"check"}, plan : plans, row : MemoryRows, todo : SUBSET MemoryIds]
      /\ KeeperInv(call)
  BY <1>1, KeeperAtHand DEF UpdateCanonical
<1>3. PICK plan \in plans : plan = call.plan
  BY <1>2
<1>4. PICK row \in MemoryRows : row = call.row
  BY <1>2
<1>5. PICK m \in MemoryIds : m = plan.canonical
  BY DEF MemoryInv, PlanInv, PlanTypes
<1>6. /\ Present(m) /\ plan.seen[m] \in MemoryRows /\ plan.merged \in (SUBSET Refs) \ {{}}
      /\ plan.redundant \subseteq MemoryIds
  <2>1. PlanInv(plan) /\ m \in Members(plan)
    BY <1>5 DEF MemoryInv, Members
  <2>2. QED
    BY <2>1 DEF PlanInv, PlanTypes
<1>7. CASE keeper' = [keeper EXCEPT ![k] = Idling] /\ UNCHANGED <<memory, acknowledged, held>>
  BY <1>7, RestsSafely, KeeperGoes DEF UpdateCanonical
<1>8. PICK new : new = Advanced([row EXCEPT !.refs = plan.merged])
  OBVIOUS
<1>9. PICK next : next = [stage |-> "archive", plan |-> plan, todo |-> plan.redundant]
  OBVIOUS
<1>10. CASE update(m, new, row.revision) /\ keeper' = [keeper EXCEPT ![k] = next]
  <2>1. new \in MemoryRows /\ new.revision = row.revision + 1
    <3>1. /\ [row EXCEPT !.refs = plan.merged] \in MemoryRows
          /\ [row EXCEPT !.refs = plan.merged].revision = row.revision
      BY <1>6, RowKeepsType
    <3>2. QED
      BY <1>8, <3>1, AdvancedRow
  <2>2. new.revision = memory[m].revision + 1
    BY <1>10 DEF update
  <2>3. /\ memory' = [memory EXCEPT ![m] = new]
        /\ held' = IF new.status = "active" THEN held \cup ({m} \X new.refs) ELSE held
        /\ acknowledged' = [acknowledged EXCEPT ![m] = @ + 1]
        /\ UNCHANGED plans
    BY <1>10 DEF update, Store, UpdateCanonical
  <2>4. next \in MemoryCalls
    BY <1>6, <1>9 DEF MemoryCalls
  <2>5. memory'[m] = new
    BY <2>3 DEF MemoryInv, StoreInv
  <2>6. PICK old \in MemoryRows : old = plan.seen[m]
    BY <1>6
  <2>7. row.revision >= old.revision /\ (row.revision = old.revision => row = old)
    BY <1>2, <1>3, <1>4, <1>5, <2>6 DEF KeeperInv
  <2>8. Settled(m, old, Advanced([old EXCEPT !.refs = plan.merged]))'
    <3>1. row.revision \in Nat /\ old.revision \in Nat
      BY DEF MemoryRows
    <3>2. QED
      BY <1>8, <2>1, <2>5, <2>7, <3>1 DEF Settled
  <2>9. KeeperInv(next)'
    BY <1>5, <1>9, <2>6, <2>8 DEF KeeperInv, Settled
  <2>10. QED
    BY <1>6, <1>10, <2>1, <2>2, <2>3, <2>4, <2>9, UpdateStep
<1>11. QED
  BY <1>1, <1>3, <1>4, <1>5, <1>7, <1>8, <1>9, <1>10 DEF UpdateCanonical, Continue

LEMMA SmallestIsMember ==
  ASSUME NEW S \in SUBSET MemoryIds, S # {}
  PROVE  Min(S) \in S
<1>1. \E x \in S : \A y \in S : x <= y
  BY LowestExists, MemoryAssumption
<1>2. QED
  BY <1>1 DEF Min

LEMMA ArchiveStep ==
  ASSUME MemoryInv, NEW k \in Keepers, ArchiveRedundant(k)
  PROVE  MemoryInv'
<1>1. PICK call \in [stage : {"archive"}, plan : plans, todo : SUBSET MemoryIds] :
        call = keeper[k] /\ KeeperInv(call)
  BY KeeperAtHand DEF ArchiveRedundant
<1>2. PICK plan \in plans : plan = call.plan
  OBVIOUS
<1>3. PlanInv(plan)
  BY DEF MemoryInv
<1>4. PICK n : n = Min(call.todo)
  OBVIOUS
<1>5. n \in call.todo /\ call.todo \subseteq plan.redundant /\ n \in MemoryIds
  <2>1. call.todo # {} /\ call.todo \in SUBSET MemoryIds
    BY <1>1 DEF ArchiveRedundant
  <2>2. n \in call.todo
    BY <1>4, <2>1, SmallestIsMember
  <2>3. QED
    BY <1>1, <1>2, <2>1, <2>2 DEF KeeperInv
<1>6. /\ n \in Members(plan) /\ n # plan.canonical
      /\ Present(n) /\ plan.seen[n] \in MemoryRows
  BY <1>3, <1>5 DEF PlanInv, PlanTypes, Members
<1>7. PICK row \in MemoryRows : row = memory[n]
  BY <1>5, <1>6 DEF MemoryInv, StoreInv, Present
<1>8. PICK new : new = Advanced([row EXCEPT !.status = "archived"])
  OBVIOUS
<1>9. PICK next : next = [call EXCEPT !.todo = @ \ {n}]
  OBVIOUS
<1>10. new \in MemoryRows /\ new.revision = row.revision + 1
  <2>1. PICK archived : archived = [row EXCEPT !.status = "archived"]
    OBVIOUS
  <2>2. archived \in MemoryRows /\ archived.revision = row.revision
    BY <2>1, RowKeepsType
  <2>3. QED
    BY <1>8, <2>1, <2>2, AdvancedRow
<1>11. /\ memory' = [memory EXCEPT ![n] = new]
       /\ held' = IF new.status = "active" THEN held \cup ({n} \X new.refs) ELSE held
       /\ acknowledged' = [acknowledged EXCEPT ![n] = @ + 1]
       /\ UNCHANGED plans
       /\ keeper' = [keeper EXCEPT ![k] = next]
  BY <1>1, <1>4, <1>7, <1>8, <1>9 DEF ArchiveRedundant, update, Store, Continue
<1>12. /\ next \in MemoryCalls /\ next.stage = "archive" /\ next.plan = plan
       /\ next.todo = call.todo \ {n}
  BY <1>2, <1>9 DEF MemoryCalls
<1>13. /\ StoreInv' /\ (\A c \in MemoryCalls : KeeperInv(c) => KeeperInv(c)')
  BY <1>5, <1>6, <1>7, <1>10, <1>11, UpdateKeeps
<1>14. KeeperInv(call)'
  BY <1>1, <1>13 DEF MemoryCalls
<1>15. PICK old \in MemoryRows : old = plan.seen[n]
  BY <1>6
<1>16. Settled(n, old, Advanced([old EXCEPT !.status = "archived"]))'
  <2>1. row.revision >= old.revision /\ (row.revision = old.revision => row = old)
    BY <1>3, <1>6, <1>7, <1>15 DEF PlanInv
  <2>2. memory'[n] = new
    BY <1>5, <1>11 DEF MemoryInv, StoreInv
  <2>3. row.revision \in Nat /\ old.revision \in Nat
    BY DEF MemoryRows
  <2>4. QED
    BY <1>8, <1>10, <2>1, <2>2, <2>3 DEF Settled
<1>17. ASSUME NEW i \in plan.redundant \ next.todo
       PROVE  Settled(i, plan.seen[i], Advanced([plan.seen[i] EXCEPT !.status = "archived"]))'
  <2>1. CASE i = n
    BY <1>15, <1>16, <2>1 DEF Settled
  <2>2. CASE i # n
    <3>1. i \in plan.redundant \ call.todo
      BY <1>12, <2>2
    <3>2. QED
      BY <1>2, <1>14, <3>1 DEF KeeperInv, Settled
  <2>3. QED
    BY <2>1, <2>2
<1>18. KeeperInv(next)'
  BY <1>2, <1>5, <1>12, <1>14, <1>17 DEF KeeperInv, Settled
<1>19. QED
  BY <1>5, <1>6, <1>7, <1>10, <1>11, <1>12, <1>18, UpdateStep

(* A memory that is made anew: of a thread, or of a promotion that read its *)
(* sources.                                                                 *)
LEMMA CreateKeeps ==
  ASSUME MemoryInv, NEW m \in MemoryIds, ~ Present(m), NEW row \in MemoryRows,
         row.revision = 0, row.status = "active",
         memory' = [memory EXCEPT ![m] = row],
         held' = held \cup ({m} \X row.refs),
         UNCHANGED <<plans, acknowledged>>,
         \A p \in Proposals : p.id = m =>
            /\ \A r \in row.refs : \E s \in p.sources : <<s, r>> \in held
            /\ \A s \in p.sources : \E r \in row.refs : <<s, r>> \in held
            /\ \E q \in Proposals : q.id = m /\ row.confidence >= q.minimum
  PROVE  /\ StoreInv'
         /\ \A plan \in plans' : PlanInv(plan)'
         /\ MemoryCalls' = MemoryCalls
         /\ \A call \in MemoryCalls : KeeperInv(call) => KeeperInv(call)'
<1> USE DEF MemoryInv
<1>1. /\ memory \in [MemoryIds -> MemoryRows \cup {Absent}]
      /\ row # Absent /\ held \subseteq held'
  BY MemoryAssumption DEF StoreInv
<1>2. \A n \in MemoryIds : memory'[n] = IF n = m THEN row ELSE memory[n]
  BY <1>1
<1>3. /\ Present(m)' /\ \A n \in MemoryIds \ {m} : memory'[n] = memory[n]
      /\ \A n \in MemoryIds : Present(n) => n # m /\ Present(n)'
  BY <1>1, <1>2 DEF Present
<1>4. StoreInv'
  <2>1. memory' \in [MemoryIds -> MemoryRows \cup {Absent}]
    BY <1>1
  <2>2. NoUpdateLost' /\ \A n \in MemoryIds : ~ Present(n)' => acknowledged'[n] = 0
    BY <1>2, <1>3 DEF StoreInv, NoUpdateLost, Present
  <2>3. \A n \in MemoryIds : Present(n)' /\ memory'[n].status = "active" =>
          {n} \X memory'[n].refs \subseteq held'
    BY <1>1, <1>2 DEF StoreInv, Present
  <2>4. LearningIsBacked'
    <3>1. ASSUME NEW p \in Proposals, Present(p.id)', memory'[p.id].revision = 0
          PROVE  /\ \A r \in memory'[p.id].refs : \E s \in p.sources : <<s, r>> \in held
                 /\ \A s \in p.sources : \E r \in memory'[p.id].refs : <<s, r>> \in held
                 /\ \E q \in Proposals : q.id = p.id /\ memory'[p.id].confidence >= q.minimum
      <4>1. p.id \in MemoryIds
        BY MemoryAssumption
      <4>2. CASE p.id = m
        BY <1>2, <4>1, <4>2
      <4>3. CASE p.id # m
        BY <1>3, <3>1, <4>1, <4>3 DEF StoreInv, LearningIsBacked, Present
      <4>4. QED
        BY <4>2, <4>3
    <3>2. QED
      BY <1>1, <3>1 DEF LearningIsBacked
  <2>5. QED
    BY <2>1, <2>2, <2>3, <2>4 DEF StoreInv
<1>5. ASSUME NEW plan \in plans' PROVE PlanInv(plan)'
  <2>1. PlanInv(plan)
    OBVIOUS
  <2>2. \A n \in Members(plan) : n \in MemoryIds
    BY <2>1 DEF PlanInv, PlanTypes, Members
  <2>3. QED
    BY <1>3, <2>1, <2>2 DEF PlanInv
<1>6. ASSUME NEW n \in MemoryIds, NEW old, NEW new, Present(n), Settled(n, old, new)
      PROVE  Settled(n, old, new)'
  BY <1>3, <1>6 DEF Settled
<1>7. ASSUME NEW call \in MemoryCalls, KeeperInv(call) PROVE KeeperInv(call)'
  <2>1. call.stage = "edit" => call.id \in MemoryIds
    BY DEF MemoryCalls, Idling
  <2>2. CASE call.stage = "archive"
    <3>1. PICK plan \in plans : plan = call.plan
      BY <2>2 DEF MemoryCalls, Idling
    <3>2. \A n \in Members(plan) : n \in MemoryIds /\ Present(n)
      BY DEF PlanInv, PlanTypes, Members
    <3>3. plan.canonical \in Members(plan) /\ plan.redundant \subseteq Members(plan)
      BY DEF Members
    <3>4. QED
      BY <1>6, <1>7, <2>2, <3>1, <3>2, <3>3 DEF KeeperInv
  <2>3. CASE call.stage = "sources"
    <3>1. call.proposal \in Proposals
      BY <2>3 DEF MemoryCalls, Idling
    <3>2. QED
      BY <1>1, <1>3, <1>7, <2>3, <3>1, MemoryAssumption DEF KeeperInv
  <2>4. QED
    BY <1>3, <1>7, <2>1, <2>2, <2>3 DEF KeeperInv
<1>8. MemoryCalls' = MemoryCalls
  BY DEF MemoryCalls
<1>9. QED
  BY <1>4, <1>5, <1>7, <1>8

LEMMA AddMemoryStep ==
  ASSUME MemoryInv, NEW m \in MemoryIds, NEW s \in Scopes, NEW c \in Contents, NEW r \in Refs,
         AddMemory(m, s, c, r, 1)
  PROVE  MemoryInv'
<1>1. PICK row : row = Record(s, c, {r}, 1)
  OBVIOUS
<1>2. row \in MemoryRows /\ row.revision = 0 /\ row.status = "active"
  BY <1>1 DEF Record, MemoryRows
<1>3. \A p \in Proposals : p.id # m
  BY DEF AddMemory, Learned
<1>4. /\ ~ Present(m)
      /\ memory' = [memory EXCEPT ![m] = row]
      /\ held' = held \cup ({m} \X row.refs)
      /\ UNCHANGED <<plans, keeper, acknowledged>>
  BY <1>1, <1>2 DEF AddMemory, create, Store
<1>5. /\ StoreInv'
      /\ \A plan \in plans' : PlanInv(plan)'
      /\ MemoryCalls' = MemoryCalls
      /\ \A call \in MemoryCalls : KeeperInv(call) => KeeperInv(call)'
  BY <1>2, <1>3, <1>4, CreateKeeps
<1>6. ASSUME NEW k \in Keepers PROVE KeeperInv(keeper[k])'
  <2>1. PICK call \in MemoryCalls : call = keeper[k]
    BY DEF MemoryInv, KeepersInv
  <2>2. KeeperInv(call)'
    BY <1>5, <2>1 DEF MemoryInv, KeepersInv
  <2>3. call = keeper'[k]
    BY <1>4, <2>1
  <2>4. QED
    BY <2>2, <2>3 DEF KeeperInv, Settled, Present
<1>7. QED
  BY <1>4, <1>5, <1>6 DEF MemoryInv, KeepersInv

LEMMA CreateLearnedStep ==
  ASSUME MemoryInv, NEW k \in Keepers, CreateLearned(k)
  PROVE  MemoryInv'
<1>1. PICK call \in [stage : {"sources"}, proposal : Proposals, todo : SUBSET MemoryIds,
                     refs : SUBSET Refs, confidence : 1..2] :
        call = keeper[k] /\ KeeperInv(call)
  BY KeeperAtHand DEF CreateLearned
<1>2. PICK proposal \in Proposals : proposal = call.proposal
  OBVIOUS
<1>3. PICK m \in MemoryIds : m = proposal.id
  BY MemoryAssumption
<1>4. keeper' = [keeper EXCEPT ![k] = Idling] /\ UNCHANGED <<plans, acknowledged>>
  BY DEF CreateLearned, Continue
<1>5. CASE UNCHANGED <<memory, held>>
  BY <1>4, <1>5, RestsSafely, KeeperGoes
<1>6. PICK row : row = Record(proposal.scope, proposal.content, call.refs, call.confidence)
  OBVIOUS
<1>7. CASE create(m, row)
  <2>1. call.todo = {}
    BY <1>1 DEF CreateLearned
  <2>2. /\ \A r \in call.refs : \E s \in proposal.sources : <<s, r>> \in held
        /\ \A s \in proposal.sources : \E r \in call.refs : <<s, r>> \in held
        /\ call.confidence >= proposal.minimum
    BY <1>1, <1>2, <2>1 DEF KeeperInv
  <2>3. call.refs # {}
    <3>1. proposal.sources # {}
      BY MemoryAssumption
    <3>2. QED
      BY <2>2, <3>1
  <2>4. /\ row \in MemoryRows /\ row.revision = 0 /\ row.status = "active"
        /\ row.refs = call.refs /\ row.confidence = call.confidence
    BY <1>6, <2>3, MemoryAssumption DEF Record, MemoryRows
  <2>5. \A p \in Proposals : p.id = m =>
          /\ \A r \in row.refs : \E s \in p.sources : <<s, r>> \in held
          /\ \A s \in p.sources : \E r \in row.refs : <<s, r>> \in held
          /\ \E q \in Proposals : q.id = m /\ row.confidence >= q.minimum
    BY <1>3, <2>2, <2>4, MemoryAssumption
  <2>6. /\ ~ Present(m)
        /\ memory' = [memory EXCEPT ![m] = row]
        /\ held' = held \cup ({m} \X row.refs)
    BY <1>7, <2>4 DEF create, Store
  <2>7. /\ StoreInv'
        /\ \A plan \in plans' : PlanInv(plan)'
        /\ MemoryCalls' = MemoryCalls
        /\ \A c \in MemoryCalls : KeeperInv(c) => KeeperInv(c)'
    BY <1>4, <2>4, <2>5, <2>6, CreateKeeps
  <2>8. ASSUME NEW j \in Keepers PROVE KeeperInv(keeper[j])'
    <3>1. PICK old \in MemoryCalls : old = keeper[j]
      BY DEF MemoryInv, KeepersInv
    <3>2. KeeperInv(old)' /\ KeeperInv(Idling)'
      BY <2>7, <3>1, RestsSafely DEF MemoryInv, KeepersInv
    <3>3. PICK new : new = keeper'[j]
      OBVIOUS
    <3>4. new \in {old, Idling}
      BY <1>4, <3>1, <3>3 DEF MemoryInv, KeepersInv
    <3>5. KeeperInv(new)'
      BY <3>2, <3>4
    <3>6. QED
      BY <3>3, <3>5 DEF KeeperInv, Settled, Present
  <2>9. keeper' \in [Keepers -> MemoryCalls]
    BY <1>4, RestsSafely DEF MemoryInv, KeepersInv
  <2>10. QED
    BY <2>7, <2>8, <2>9 DEF MemoryInv, KeepersInv
<1>8. QED
  BY <1>1, <1>2, <1>3, <1>5, <1>6, <1>7 DEF CreateLearned

(* The plan remembers its members as they are.                              *)
LEMMA PlanStep ==
  ASSUME MemoryInv, NEW m \in MemoryIds, Plan(m)
  PROVE  MemoryInv'
<1>1. PICK plan : plan = [scope |-> memory[m].scope, canonical |-> m,
                          redundant |-> Duplicates(m) \ {m}, merged |-> MergedRefs(m),
                          seen |-> [n \in Duplicates(m) |-> memory[n]]]
  OBVIOUS
<1>2. plans' = plans \cup {plan} /\ UNCHANGED <<memory, keeper, acknowledged, held>>
  BY <1>1 DEF Plan
<1>3. m \in Duplicates(m) /\ Duplicates(m) \subseteq MemoryIds
  BY DEF Duplicates, Plan
<1>4. \A n \in Duplicates(m) : /\ memory[n] \in MemoryRows /\ Present(n)
                               /\ memory[n].status = "active"
                               /\ Normalized[memory[n].content] = Normalized[memory[m].content]
  BY DEF MemoryInv, StoreInv, Duplicates, Present
<1>5. Members(plan) = Duplicates(m)
  BY <1>1, <1>3 DEF Members
<1>6. plan.merged \in (SUBSET Refs) \ {{}}
  <2>1. \A n \in Duplicates(m) : memory[n].refs \in SUBSET Refs /\ memory[n].refs # {}
    BY <1>4 DEF MemoryRows
  <2>2. MergedRefs(m) \subseteq Refs /\ memory[m].refs \subseteq MergedRefs(m)
    BY <1>3, <2>1 DEF MergedRefs
  <2>3. QED
    BY <1>1, <1>3, <2>1, <2>2
<1>7. PlanInv(plan)
  <2>1. PlanTypes(plan)
    BY <1>1, <1>3, <1>4, <1>5, <1>6 DEF PlanTypes
  <2>2. \A n \in Duplicates(m) : plan.seen[n] = memory[n] /\ plan.seen[n].refs \subseteq plan.merged
    BY <1>1 DEF MergedRefs
  <2>3. \A n \in Duplicates(m) : memory[n].revision \in Nat
    BY <1>4 DEF MemoryRows
  <2>4. m = plan.canonical /\ plan.seen[m] = memory[m]
    BY <1>1, <1>3
  <2>5. ASSUME NEW n \in Duplicates(m)
        PROVE  /\ plan.seen[n].status = "active"
               /\ plan.seen[n].refs \subseteq plan.merged
               /\ Normalized[plan.seen[n].content] = Normalized[plan.seen[m].content]
               /\ Present(n) /\ memory[n].revision >= plan.seen[n].revision
               /\ memory[n].revision = plan.seen[n].revision => memory[n] = plan.seen[n]
    BY <1>4, <2>2, <2>3, <2>4
  <2>6. QED
    BY <1>5, <2>1, <2>4, <2>5 DEF PlanInv
<1>8. \A p \in plans' : PlanInv(p)'
  <2>1. \A p \in plans' : PlanInv(p)
    BY <1>2, <1>7 DEF MemoryInv
  <2>2. QED
    BY <1>2, <2>1 DEF PlanInv, Present
<1>9. StoreInv'
  BY <1>2 DEF MemoryInv, StoreInv, NoUpdateLost, LearningIsBacked, Present
<1>10. MemoryCalls \subseteq MemoryCalls'
  BY <1>2 DEF MemoryCalls
<1>11. \A k \in Keepers : KeeperInv(keeper[k])'
  BY <1>2 DEF MemoryInv, KeepersInv, KeeperInv, Settled, Present
<1>12. QED
  BY <1>2, <1>8, <1>9, <1>10, <1>11 DEF MemoryInv, KeepersInv

LEMMA ReadStep ==
  ASSUME MemoryInv, NEW k \in Keepers, NEW m \in MemoryIds, Read(k, m)
  PROVE  MemoryInv'
<1>1. PICK call : call = [stage |-> "edit", id |-> m, row |-> memory[m]]
  OBVIOUS
<1>2. memory[m] \in MemoryRows /\ Present(m)
  BY DEF MemoryInv, StoreInv, Read, Present
<1>3. call \in MemoryCalls /\ KeeperInv(call)
  BY <1>1, <1>2 DEF MemoryCalls, KeeperInv
<1>4. QED
  BY <1>1, <1>3, KeeperGoes DEF Read, Continue

LEMMA ApplyPlanStep ==
  ASSUME MemoryInv, NEW k \in Keepers, NEW plan \in plans, ApplyPlan(k, plan)
  PROVE  MemoryInv'
<1>1. PICK row : row = memory[plan.canonical]
  OBVIOUS
<1>2. PICK call : call = [stage |-> "check", plan |-> plan, row |-> row,
                          todo |-> plan.redundant]
  OBVIOUS
<1>3. PlanInv(plan) /\ plan.canonical \in Members(plan)
  BY DEF MemoryInv, Members
<1>4. row \in MemoryRows /\ plan.redundant \in SUBSET MemoryIds
  BY <1>1, <1>3 DEF MemoryInv, StoreInv, PlanInv, PlanTypes, Present
<1>5. call \in MemoryCalls
  BY <1>2, <1>4 DEF MemoryCalls
<1>6. KeeperInv(call)
  BY <1>1, <1>2, <1>3 DEF PlanInv, KeeperInv
<1>7. QED
  BY <1>1, <1>2, <1>5, <1>6, KeeperGoes DEF ApplyPlan, Continue

LEMMA CheckStep ==
  ASSUME MemoryInv, NEW k \in Keepers, CheckRedundant(k)
  PROVE  MemoryInv'
<1>1. PICK call \in [stage : {"check"}, plan : plans, row : MemoryRows, todo : SUBSET MemoryIds] :
        call = keeper[k] /\ KeeperInv(call)
  BY KeeperAtHand DEF CheckRedundant
<1>2. PICK n : n = Min(call.todo)
  OBVIOUS
<1>3. PICK next : next = [call EXCEPT !.todo = @ \ {n}]
  OBVIOUS
<1>4. /\ next \in MemoryCalls /\ next.stage = "check" /\ next.plan = call.plan
      /\ next.row = call.row /\ next.todo \subseteq call.todo
  BY <1>3 DEF MemoryCalls
<1>5. KeeperInv(next)
  BY <1>1, <1>4 DEF KeeperInv
<1>6. /\ keeper' = [keeper EXCEPT ![k] = next] \/ keeper' = [keeper EXCEPT ![k] = Idling]
      /\ UNCHANGED <<memory, plans, acknowledged, held>>
  BY <1>1, <1>2, <1>3 DEF CheckRedundant, Continue
<1>7. QED
  BY <1>4, <1>5, <1>6, RestsSafely, KeeperGoes

LEMMA PromoteStep ==
  ASSUME MemoryInv, NEW k \in Keepers, NEW proposal \in Proposals, Promote(k, proposal)
  PROVE  MemoryInv'
<1>1. PICK call : call = [stage |-> "sources", proposal |-> proposal,
                          todo |-> proposal.sources, refs |-> {}, confidence |-> 2]
  OBVIOUS
<1>2. call \in MemoryCalls
  BY <1>1, MemoryAssumption DEF MemoryCalls
<1>3. KeeperInv(call)
  BY <1>1, MemoryAssumption DEF KeeperInv, Promote
<1>4. QED
  BY <1>1, <1>2, <1>3, KeeperGoes DEF Promote, Continue

(* A usable source is active, so its references are held.                   *)
LEMMA ReadSourceStep ==
  ASSUME MemoryInv, NEW k \in Keepers, ReadSource(k)
  PROVE  MemoryInv'
<1>1. PICK call \in [stage : {"sources"}, proposal : Proposals, todo : SUBSET MemoryIds,
                     refs : SUBSET Refs, confidence : 1..2] :
        call = keeper[k] /\ KeeperInv(call)
  BY KeeperAtHand DEF ReadSource
<1>2. PICK s : s = Min(call.todo)
  OBVIOUS
<1>3. s \in call.todo /\ s \in MemoryIds /\ s \in call.proposal.sources
  <2>1. call.todo # {}
    BY <1>1 DEF ReadSource
  <2>2. s \in call.todo
    BY <1>2, <2>1, SmallestIsMember
  <2>3. QED
    BY <1>1, <2>2 DEF KeeperInv
<1>4. PICK row \in MemoryRows : row = memory[s]
  BY <1>1, <1>3 DEF MemoryInv, StoreInv, KeeperInv, Present
<1>5. CASE ~ Usable(row, call.proposal.minimum)
  <2>1. keeper' = [keeper EXCEPT ![k] = Idling]
    BY <1>1, <1>2, <1>4, <1>5 DEF ReadSource, Continue
  <2>2. QED
    BY <2>1, RestsSafely, KeeperGoes DEF ReadSource
<1>6. CASE Usable(row, call.proposal.minimum)
  <2>1. PICK next : next = [call EXCEPT !.todo = @ \ {s}, !.refs = @ \cup row.refs,
                 !.confidence = IF row.confidence < @ THEN row.confidence ELSE @]
    OBVIOUS
  <2>2. keeper' = [keeper EXCEPT ![k] = next]
    BY <1>1, <1>2, <1>4, <1>6, <2>1 DEF ReadSource, Continue
  <2>3. /\ row.refs \in SUBSET Refs /\ row.refs # {} /\ row.confidence \in 1..2
        /\ row.status = "active" /\ row.confidence >= call.proposal.minimum
    BY <1>6 DEF MemoryRows, Usable
  <2>4. /\ next.stage = "sources" /\ next.proposal = call.proposal
        /\ next.todo = call.todo \ {s} /\ next.refs = call.refs \cup row.refs
        /\ next.confidence = IF row.confidence < call.confidence THEN row.confidence
                             ELSE call.confidence
    BY <2>1
  <2>5. next \in MemoryCalls
    BY <2>1, <2>3 DEF MemoryCalls
  <2>6. {s} \X row.refs \subseteq held
    BY <1>1, <1>3, <1>4, <2>3 DEF MemoryInv, StoreInv, KeeperInv
  <2>7. \A r \in row.refs : <<s, r>> \in held
    BY <2>6
  <2>8. KeeperInv(next)
    <3>1. \A r \in next.refs : \E t \in next.proposal.sources : <<t, r>> \in held
      BY <1>1, <1>3, <2>4, <2>7 DEF KeeperInv
    <3>2. \A t \in next.proposal.sources \ next.todo : \E r \in next.refs : <<t, r>> \in held
      BY <1>1, <2>3, <2>4, <2>7 DEF KeeperInv
    <3>3. next.confidence >= next.proposal.minimum
      BY <1>1, <2>3, <2>4 DEF KeeperInv
    <3>4. next.todo \subseteq next.proposal.sources /\ \A t \in next.proposal.sources : Present(t)
      BY <1>1, <2>4 DEF KeeperInv
    <3>5. QED
      BY <2>4, <3>1, <3>2, <3>3, <3>4 DEF KeeperInv
  <2>9. QED
    BY <2>2, <2>5, <2>8, KeeperGoes DEF ReadSource
<1>7. QED
  BY <1>5, <1>6

LEMMA MemoryNextInv == MemoryInv /\ [MemoryNext]_memoryVars => MemoryInv'
<1>1. SUFFICES ASSUME MemoryInv, [MemoryNext]_memoryVars PROVE MemoryInv'
  OBVIOUS
<1>2. CASE \E m \in MemoryIds, s \in Scopes, c \in Contents, r \in Refs : AddMemory(m, s, c, r, 1)
  BY <1>1, <1>2, AddMemoryStep
<1>3. CASE \E m \in MemoryIds : Plan(m)
  BY <1>1, <1>3, PlanStep
<1>4. ASSUME NEW k \in Keepers,
             \/ \E m \in MemoryIds : Read(k, m)
             \/ \E change \in Changes, c \in Contents, r \in Refs : Write(k, change, c, r)
             \/ \E plan \in plans : ApplyPlan(k, plan)
             \/ \E p \in Proposals : Promote(k, p)
      PROVE MemoryInv'
  BY <1>1, <1>4, ReadStep, WriteStep, ApplyPlanStep, PromoteStep
<1>5. ASSUME NEW k \in Keepers,
             CheckRedundant(k) \/ UpdateCanonical(k) \/ ArchiveRedundant(k)
             \/ ReadSource(k) \/ CreateLearned(k)
      PROVE MemoryInv'
  BY <1>1, <1>5, CheckStep, UpdateCanonicalStep, ArchiveStep, ReadSourceStep, CreateLearnedStep
<1>6. ASSUME NEW k \in Keepers, EndApply(k) \/ KeeperDies(k) PROVE MemoryInv'
  BY <1>1, <1>6, RestsSafely, KeeperGoes DEF EndApply, KeeperDies, Continue
<1>7. CASE UNCHANGED memoryVars
  <2> USE <1>1, <1>7 DEF MemoryInv, memoryVars
  <2>1. StoreInv'
    BY DEF StoreInv, NoUpdateLost, LearningIsBacked, Present
  <2>2. \A plan \in plans' : PlanInv(plan)'
    BY DEF PlanInv, Present
  <2>3. KeepersInv'
    BY DEF KeepersInv, MemoryCalls, KeeperInv, Settled, Present
  <2>4. QED
    BY <2>1, <2>2, <2>3
<1>8. QED
  BY <1>1, <1>2, <1>3, <1>4, <1>5, <1>6, <1>7 DEF MemoryNext

(* The inductive invariant of project memory holds of every behaviour.      *)
THEOREM MemoryInvHolds == MemorySpec => []MemoryInv
BY MemoryInitInv, MemoryNextInv, PTL DEF MemorySpec

(* Every memory keeps its type, provenance included.                        *)
THEOREM MemoryTypesHold == MemorySpec => []MemoryTypeOK
<1>1. MemoryInv => MemoryTypeOK
  BY DEF MemoryInv, StoreInv, MemoryTypeOK, Present
<1>2. QED
  BY <1>1, MemoryInvHolds, PTL

(* No two updates that returned were made from the same row.                *)
THEOREM UpdatesAreKept == MemorySpec => []NoUpdateLost
<1>1. MemoryInv => NoUpdateLost
  BY DEF MemoryInv, StoreInv
<1>2. QED
  BY <1>1, MemoryInvHolds, PTL

(* A compaction whose members moved by its own writes alone loses nothing.  *)
THEOREM CompactionKeepsAll == MemorySpec => []QuietCompactionIsLossless
<1>1. MemoryInv => QuietCompactionIsLossless
  <2>1. SUFFICES ASSUME MemoryInv, NEW k \in Keepers, keeper[k].stage = "archive",
                        NEW n \in keeper[k].plan.redundant \ keeper[k].todo,
                        \A m \in {n, keeper[k].plan.canonical} :
                           memory[m].revision = keeper[k].plan.seen[m].revision + 1
                 PROVE  LET canonical == memory[keeper[k].plan.canonical] IN
                        /\ canonical.status = "active" /\ memory[n].status = "archived"
                        /\ memory[n].refs \subseteq canonical.refs
                        /\ Normalized[memory[n].content] = Normalized[canonical.content]
    BY DEF QuietCompactionIsLossless
  <2>2. PICK plan \in plans : plan = keeper[k].plan
    BY <2>1, KeeperAtHand
  <2>3. PlanInv(plan) /\ KeeperInv(keeper[k])
    BY <2>1, KeeperAtHand DEF MemoryInv
  <2>4. PICK c : c = plan.canonical
    OBVIOUS
  <2>5. PICK old \in MemoryRows : old = plan.seen[c]
    BY <2>3, <2>4 DEF PlanInv, PlanTypes, Members
  <2>6. memory[c] = Advanced([old EXCEPT !.refs = plan.merged])
    BY <2>1, <2>2, <2>3, <2>4, <2>5 DEF KeeperInv, Settled
  <2>7. /\ memory[c].status = old.status /\ memory[c].refs = plan.merged
        /\ memory[c].content = old.content
    BY <2>6 DEF Advanced, MemoryRows
  <2>8. n \in Members(plan)
    BY <2>1, <2>2 DEF Members
  <2>9. PICK was \in MemoryRows : was = plan.seen[n]
    BY <2>3, <2>8 DEF PlanInv, PlanTypes
  <2>10. memory[n] = Advanced([was EXCEPT !.status = "archived"])
    BY <2>1, <2>2, <2>3, <2>9 DEF KeeperInv, Settled
  <2>11. /\ memory[n].status = "archived" /\ memory[n].refs = was.refs
         /\ memory[n].content = was.content
    BY <2>10 DEF Advanced, MemoryRows
  <2>12. /\ memory[n].refs \subseteq memory[c].refs
         /\ Normalized[memory[n].content] = Normalized[memory[c].content]
    BY <2>3, <2>4, <2>5, <2>7, <2>8, <2>9, <2>11 DEF PlanInv
  <2>13. old.status = "active"
    BY <2>3, <2>4, <2>5 DEF PlanInv, Members
  <2>14. QED
    BY <2>2, <2>4, <2>7, <2>11, <2>12, <2>13
<1>2. QED
  BY <1>1, MemoryInvHolds, PTL

(* What was learned is backed by what its sources held.                     *)
THEOREM LearnedIsBacked == MemorySpec => []LearningIsBacked
<1>1. MemoryInv => LearningIsBacked
  BY DEF MemoryInv, StoreInv
<1>2. QED
  BY <1>1, MemoryInvHolds, PTL

(***************************************************************************)
(* The copy of a GitHub project.                                           *)
(***************************************************************************)
ProjectRows == [content : ContentIds, revision : Nat, archived : BOOLEAN]
ItemRows == [item : ItemIds, content : ContentIds, revision : Nat, archived : BOOLEAN]

Refreshing == [stage : {"saving", "refreshed"}, listed : SUBSET ItemRows,
               todo : SUBSET ItemRows, alone : BOOLEAN]
Adding == [stage : {"add"}, content : ProjectIssues]
Exporting == [stage : {"added", "state"}, content : ProjectIssues, item : ItemRows]

(* An issue has one item at most, and the clock is ahead of all of them.   *)
ProjectInv ==
  /\ changes \in Nat
  /\ DOMAIN project \subseteq ItemIds
  /\ \A i \in DOMAIN project : project[i] \in ProjectRows /\ project[i].revision <= changes
  /\ \A i, j \in DOMAIN project :
       project[i].content = project[j].content /\ project[i].content \in ProjectIssues => i = j

RowInv(c, x) == x \in ItemRows /\ x.content = c /\ x.revision <= changes

ItemsInv == \A c \in ContentIds : items[c] = Unknown \/ RowInv(c, items[c])

(* While nobody else writes, what was taken from the list is in the store. *)
RefreshInv(call) ==
  /\ \A x \in call.listed : x.revision <= changes
  /\ \A x, y \in call.listed :
       x.content = y.content /\ x.content \in ProjectIssues => x = y
  /\ call.todo \subseteq call.listed
  /\ call.stage = "refreshed" => call.todo = {}
  /\ call.alone =>
       /\ \A x \in call.listed \ call.todo :
            x.content \in ProjectIssues => items[x.content] = x
       /\ call.stage = "refreshed" => syncState.revision = MaxRevisionOf(call.listed)

SyncerInv(call) ==
  \/ call = AtRest
  \/ call \in Adding
  \/ call \in Exporting /\ RowInv(call.content, call.item)
  \/ call \in Refreshing /\ RefreshInv(call)

SyncInv ==
  /\ ProjectInv
  /\ items \in [ContentIds -> ItemRows \cup {Unknown}]
  /\ ItemsInv
  /\ syncer \in [Syncers -> {AtRest} \cup Adding \cup Exporting \cup Refreshing]
  /\ \A s \in Syncers : SyncerInv(syncer[s])

LEMMA SyncInitInv == SyncInit => SyncInv
<1> SUFFICES ASSUME SyncInit PROVE SyncInv
  OBVIOUS
<1> USE DEF SyncInit
<1>1. ProjectInv
  BY DEF ProjectInv
<1>2. ItemsInv /\ items \in [ContentIds -> ItemRows \cup {Unknown}]
  BY DEF ItemsInv
<1>3. \A s \in Syncers : SyncerInv(syncer[s])
  BY DEF SyncerInv
<1>4. QED
  BY <1>1, <1>2, <1>3 DEF SyncInv

(* A new item of a content that has none leaves every issue with one.      *)
LEMMA ItemIsAdded ==
  ASSUME ProjectInv, NEW c \in ContentIds, NEW at \in ItemIds,
         c \in ProjectIssues => ItemsOf(c) = {},
         project' = WithItem(c, at), changes' = changes + 1
  PROVE  ProjectInv'
<1>1. /\ DOMAIN project' = DOMAIN project \cup {at}
      /\ \A i \in DOMAIN project' : project'[i] =
           IF i = at THEN [content |-> c, revision |-> changes + 1, archived |-> FALSE]
           ELSE project[i]
  BY DEF WithItem
<1>2. changes' \in Nat /\ changes' = changes + 1 /\ changes \in Nat
  BY DEF ProjectInv
<1>3. \A i \in DOMAIN project' : project'[i] \in ProjectRows /\ project'[i].revision <= changes'
  <2>1. ASSUME NEW i \in DOMAIN project
        PROVE  project[i] \in ProjectRows /\ project[i].revision <= changes'
    BY <1>2 DEF ProjectInv, ProjectRows
  <2>2. [content |-> c, revision |-> changes + 1, archived |-> FALSE] \in ProjectRows
    BY <1>2 DEF ProjectRows
  <2>3. QED
    BY <1>1, <1>2, <2>1, <2>2
<1>4. ASSUME NEW i \in DOMAIN project', NEW j \in DOMAIN project',
             project'[i].content = project'[j].content, project'[i].content \in ProjectIssues
      PROVE  i = j
  <2>1. \A k \in DOMAIN project : c \in ProjectIssues => project[k].content # c
    BY DEF ItemsOf
  <2>2. project'[at].content = c /\ at \in DOMAIN project'
    BY <1>1
  <2>3. \A k \in DOMAIN project' \ {at} : k \in DOMAIN project /\ project'[k] = project[k]
    BY <1>1
  <2>4. CASE i = at
    BY <1>4, <2>1, <2>2, <2>3, <2>4
  <2>5. CASE j = at
    BY <1>4, <2>1, <2>2, <2>3, <2>5
  <2>6. CASE i # at /\ j # at
    BY <1>4, <2>3, <2>6 DEF ProjectInv
  <2>7. QED
    BY <2>4, <2>5, <2>6
<1>5. QED
  BY <1>1, <1>2, <1>3, <1>4 DEF ProjectInv

(* What a sync holds stays so while the store rests and time goes on.      *)
LEMMA SyncerWaits ==
  ASSUME NEW call, SyncerInv(call), changes \in Nat, changes' \in Nat, changes <= changes',
         UNCHANGED <<items, syncState>>
  PROVE  SyncerInv(call)'
<1>1. \A x \in ItemRows : x.revision <= changes => x.revision <= changes'
  BY DEF ItemRows
<1>2. CASE call \in Exporting /\ RowInv(call.content, call.item)
  <2>1. RowInv(call.content, call.item)'
    BY <1>1, <1>2 DEF RowInv, Exporting
  <2>2. QED
    BY <1>2, <2>1 DEF SyncerInv
<1>3. CASE call \in Refreshing /\ RefreshInv(call)
  <2>1. \A x \in call.listed : x \in ItemRows
    BY <1>3 DEF Refreshing
  <2>2. RefreshInv(call)'
    BY <1>1, <1>3, <2>1 DEF RefreshInv
  <2>3. QED
    BY <1>3, <2>2 DEF SyncerInv
<1>4. QED
  BY <1>2, <1>3 DEF SyncerInv

LEMMA ItemsWait ==
  ASSUME ItemsInv, changes \in Nat, changes' \in Nat, changes <= changes', UNCHANGED items
  PROVE  ItemsInv'
<1>1. \A c \in ContentIds : RowInv(c, items[c]) => RowInv(c, items[c])'
  BY DEF RowInv, ItemRows
<1>2. QED
  BY <1>1 DEF ItemsInv

SyncCalls == {AtRest} \cup Adding \cup Exporting \cup Refreshing

(* The project may move and one sync go on; the store rests.               *)
LEMMA SyncGoes ==
  ASSUME SyncInv, ProjectInv', changes <= changes', UNCHANGED <<items, syncState>>,
         NEW s \in Syncers, NEW call \in SyncCalls, SyncerInv(call)',
         syncer' = [syncer EXCEPT ![s] = call]
  PROVE  SyncInv'
<1>1. changes \in Nat /\ changes' \in Nat
  BY DEF SyncInv, ProjectInv
<1>2. ItemsInv' /\ items' \in [ContentIds -> ItemRows \cup {Unknown}]
  BY <1>1, ItemsWait DEF SyncInv
<1>3. syncer' \in [Syncers -> SyncCalls]
  BY DEF SyncInv, SyncCalls
<1>4. ASSUME NEW t \in Syncers PROVE SyncerInv(syncer[t])'
  <2>1. PICK old : old = syncer[t]
    OBVIOUS
  <2>2. PICK new : new = syncer'[t]
    OBVIOUS
  <2>3. SyncerInv(old)'
    BY <1>1, <2>1, SyncerWaits DEF SyncInv
  <2>4. new \in {old, call}
    BY <2>1, <2>2 DEF SyncInv
  <2>5. SyncerInv(new)'
    BY <2>3, <2>4
  <2>6. QED
    BY <2>2, <2>5 DEF SyncerInv, RefreshInv, RowInv
<1>5. QED
  BY <1>2, <1>3, <1>4 DEF SyncInv, SyncCalls

LEMMA PeopleMove ==
  ASSUME SyncInv, ProjectInv', changes <= changes', UNCHANGED <<items, syncState, syncer>>
  PROVE  SyncInv'
<1>1. changes \in Nat /\ changes' \in Nat
  BY DEF SyncInv, ProjectInv
<1>2. ItemsInv' /\ items' \in [ContentIds -> ItemRows \cup {Unknown}]
  BY <1>1, ItemsWait DEF SyncInv
<1>3. ASSUME NEW t \in Syncers PROVE SyncerInv(syncer[t])'
  <2>1. PICK old : old = syncer[t]
    OBVIOUS
  <2>2. SyncerInv(old)'
    BY <1>1, <2>1, SyncerWaits DEF SyncInv
  <2>3. old = syncer'[t]
    BY <2>1
  <2>4. QED
    BY <2>2, <2>3 DEF SyncerInv, RefreshInv, RowInv
<1>4. QED
  BY <1>2, <1>3 DEF SyncInv

(* A sync writes the store: refreshes of others are alone no more.         *)
LEMMA StoreWritten ==
  ASSUME SyncInv, UNCHANGED <<project, changes>>, ItemsInv',
         items' \in [ContentIds -> ItemRows \cup {Unknown}],
         NEW s \in Syncers, NEW call \in SyncCalls, SyncerInv(call)',
         syncer' = Disturbed(s, call)
  PROVE  SyncInv'
<1>1. ProjectInv'
  BY DEF SyncInv, ProjectInv
<1>2. ASSUME NEW t \in Syncers
      PROVE  syncer'[t] \in SyncCalls /\ SyncerInv(syncer[t])'
  <2>1. PICK old \in SyncCalls : old = syncer[t]
    BY DEF SyncInv, SyncCalls
  <2>2. SyncerInv(old)
    BY <2>1 DEF SyncInv
  <2>3. PICK new : new = syncer'[t]
    OBVIOUS
  <2>4. CASE t = s
    <3>1. new = call
      BY <2>3, <2>4 DEF Disturbed
    <3>2. QED
      BY <2>3, <3>1 DEF SyncerInv, RefreshInv, RowInv
  <2>5. CASE t # s /\ old.stage \in {"saving", "refreshed"}
    <3>1. new = [old EXCEPT !.alone = FALSE]
      BY <2>1, <2>3, <2>5 DEF Disturbed
    <3>2. old \in Refreshing /\ RefreshInv(old)
      BY <2>2, <2>5 DEF SyncerInv, AtRest, Adding, Exporting
    <3>3. /\ new \in Refreshing /\ ~ new.alone /\ new.listed = old.listed
          /\ new.todo = old.todo /\ new.stage = old.stage
      BY <3>1, <3>2 DEF Refreshing
    <3>4. RefreshInv(new)'
      BY <3>2, <3>3 DEF RefreshInv
    <3>5. SyncerInv(new)'
      BY <3>3, <3>4 DEF SyncerInv
    <3>6. QED
      BY <2>3, <3>3, <3>5 DEF SyncerInv, RefreshInv, RowInv, SyncCalls
  <2>6. CASE t # s /\ old.stage \notin {"saving", "refreshed"}
    <3>1. new = old
      BY <2>1, <2>3, <2>6 DEF Disturbed
    <3>2. old \notin Refreshing
      BY <2>6 DEF Refreshing
    <3>3. SyncerInv(new)'
      BY <2>2, <3>1, <3>2 DEF SyncerInv, RowInv
    <3>4. QED
      BY <2>3, <3>1, <3>3 DEF SyncerInv, RefreshInv, RowInv
  <2>7. QED
    BY <2>4, <2>5, <2>6
<1>3. syncer' \in [Syncers -> SyncCalls]
  BY <1>2 DEF Disturbed
<1>4. QED
  BY <1>1, <1>2, <1>3 DEF SyncInv, SyncCalls

LEMMA PeopleStep ==
  ASSUME SyncInv,
         \/ \E c \in ContentIds : PersonAdds(c)
         \/ \E i \in ItemIds : PersonArchives(i) \/ PersonRemoves(i)
  PROVE  SyncInv'
<1>1. changes \in Nat /\ ProjectInv
  BY DEF SyncInv, ProjectInv
<1>2. CASE \E c \in ContentIds : PersonAdds(c)
  <2>1. PICK c \in ContentIds : PersonAdds(c)
    BY <1>2
  <2>2. PICK at \in ItemIds : project' = WithItem(c, at)
    BY <2>1 DEF PersonAdds
  <2>3. ProjectInv'
    BY <1>1, <2>1, <2>2, ItemIsAdded DEF PersonAdds
  <2>4. QED
    BY <1>1, <2>1, <2>3, PeopleMove DEF PersonAdds
<1>3. CASE \E i \in ItemIds : PersonArchives(i)
  <2>1. PICK i \in ItemIds : PersonArchives(i)
    BY <1>3
  <2>2. i \in DOMAIN project
    BY <2>1 DEF PersonArchives
  <2>3. PICK row \in ProjectRows : row = project[i]
    BY <1>1, <2>2 DEF ProjectInv
  <2>4. PICK new : new = [row EXCEPT !.archived = TRUE, !.revision = changes + 1]
    OBVIOUS
  <2>5. new \in ProjectRows /\ new.revision = changes + 1 /\ new.content = row.content
    <3>1. PICK now \in Nat : now = changes + 1
      BY <1>1
    <3>2. new = [row EXCEPT !.archived = TRUE, !.revision = now]
      BY <2>4, <3>1
    <3>3. new = [content |-> row.content, revision |-> now, archived |-> TRUE]
      BY <3>2 DEF ProjectRows
    <3>4. row.content \in ContentIds
      BY DEF ProjectRows
    <3>5. QED
      BY <3>1, <3>3, <3>4 DEF ProjectRows
  <2>6. project' = [project EXCEPT ![i] = new] /\ changes' = changes + 1
    BY <2>1, <2>3, <2>4 DEF PersonArchives
  <2>7. /\ DOMAIN project' = DOMAIN project
        /\ \A j \in DOMAIN project : project'[j] = IF j = i THEN new ELSE project[j]
    BY <2>6
  <2>8. \A j \in DOMAIN project : /\ project'[j].content = project[j].content
                                  /\ project'[j] \in ProjectRows
    BY <1>1, <2>3, <2>5, <2>7 DEF ProjectInv
  <2>9. ASSUME NEW j \in DOMAIN project PROVE project'[j].revision <= changes'
    <3>1. project[j].revision \in Nat /\ project[j].revision <= changes
      BY <1>1 DEF ProjectInv, ProjectRows
    <3>2. QED
      BY <1>1, <2>5, <2>6, <2>7, <3>1
  <2>10. ProjectInv'
    BY <1>1, <2>6, <2>7, <2>8, <2>9 DEF ProjectInv
  <2>11. QED
    BY <1>1, <2>1, <2>6, <2>10, PeopleMove DEF PersonArchives
<1>4. CASE \E i \in ItemIds : PersonRemoves(i)
  <2>1. PICK i \in ItemIds : PersonRemoves(i)
    BY <1>4
  <2>2. /\ DOMAIN project' = DOMAIN project \ {i} /\ changes' = changes + 1
        /\ \A j \in DOMAIN project' : project'[j] = project[j]
    BY <2>1 DEF PersonRemoves
  <2>3. ASSUME NEW j \in DOMAIN project' PROVE project[j].revision <= changes'
    <3>1. project[j].revision \in Nat /\ project[j].revision <= changes
      BY <1>1, <2>2 DEF ProjectInv, ProjectRows
    <3>2. QED
      BY <1>1, <2>2, <3>1
  <2>4. changes' \in Nat /\ DOMAIN project' \subseteq DOMAIN project
    BY <1>1, <2>2
  <2>5. \A j \in DOMAIN project' :
          project'[j] \in ProjectRows /\ project'[j].revision <= changes'
    BY <1>1, <2>2, <2>3, <2>4 DEF ProjectInv
  <2>6. \A j, k \in DOMAIN project' :
          project'[j].content = project'[k].content /\ project'[j].content \in ProjectIssues
          => j = k
    BY <1>1, <2>2, <2>4 DEF ProjectInv
  <2>7. DOMAIN project' \subseteq ItemIds
    BY <1>1, <2>4 DEF ProjectInv
  <2>8. ProjectInv'
    BY <2>4, <2>5, <2>6, <2>7 DEF ProjectInv, ItemIds
  <2>9. QED
    BY <1>1, <2>1, <2>2, <2>8, PeopleMove DEF PersonRemoves
<1>5. QED
  BY <1>2, <1>3, <1>4

LEMMA SyncRests == AtRest \in SyncCalls /\ SyncerInv(AtRest) /\ SyncerInv(AtRest)'
BY DEF SyncCalls, SyncerInv

(* An issue is listed once, as it is.                                       *)
LEMMA RefreshStartStep ==
  ASSUME SyncInv, NEW s \in Syncers, NEW page \in SUBSET ItemIds, RefreshStart(s, page)
  PROVE  SyncInv'
<1>1. ProjectInv /\ changes \in Nat /\ page \subseteq DOMAIN project /\ page \subseteq ItemIds
  BY DEF SyncInv, ProjectInv, RefreshStart, FirstPage
<1>2. PICK listed : listed = {ItemOf(i) : i \in page}
  OBVIOUS
<1>3. ASSUME NEW i \in page
      PROVE  /\ ItemOf(i) \in ItemRows /\ ItemOf(i).revision <= changes
             /\ ItemOf(i).content = project[i].content
  <2>1. PICK row \in ProjectRows : row = project[i] /\ row.revision <= changes
    BY <1>1 DEF ProjectInv
  <2>2. i \in ItemIds
    BY <1>1
  <2>3. ItemOf(i) = [item |-> i, content |-> row.content, revision |-> row.revision,
                     archived |-> row.archived]
    BY <2>1 DEF ItemOf
  <2>4. QED
    BY <2>1, <2>2, <2>3 DEF ItemRows, ProjectRows
<1>4. /\ listed \in SUBSET ItemRows
      /\ \A x \in listed : x.revision <= changes
  BY <1>2, <1>3
<1>5. \A x, y \in listed : x.content = y.content /\ x.content \in ProjectIssues => x = y
  BY <1>1, <1>2, <1>3 DEF ProjectInv
<1>6. PICK call : call = [stage |-> "saving", listed |-> listed, todo |-> listed, alone |-> TRUE]
  OBVIOUS
<1>7. call \in Refreshing
  BY <1>4, <1>6 DEF Refreshing
<1>8. RefreshInv(call)
  BY <1>4, <1>5, <1>6 DEF RefreshInv
<1>9. UNCHANGED <<project, changes, items, syncState>> /\ syncer' = [syncer EXCEPT ![s] = call]
  BY <1>2, <1>6 DEF RefreshStart, Proceed
<1>10. SyncerInv(call)'
  BY <1>7, <1>8, <1>9 DEF SyncerInv, RefreshInv
<1>11. ProjectInv' /\ changes <= changes'
  BY <1>1, <1>9 DEF ProjectInv
<1>12. call \in SyncCalls
  BY <1>7 DEF SyncCalls
<1>13. QED
  BY <1>9, <1>10, <1>11, <1>12, SyncGoes

(* A refresh that is at work.                                               *)
LEMMA RefreshAtHand ==
  ASSUME SyncInv, NEW s \in Syncers, syncer[s].stage \in {"saving", "refreshed"}
  PROVE  syncer[s] \in Refreshing /\ RefreshInv(syncer[s])
<1>1. SyncerInv(syncer[s])
  BY DEF SyncInv
<1>2. QED
  BY <1>1 DEF SyncerInv, AtRest, Adding, Exporting

(* The next of the list is saved over the row of its content.               *)
LEMMA SaveListedStep ==
  ASSUME SyncInv, NEW s \in Syncers, SaveListed(s)
  PROVE  SyncInv'
<1>1. PICK call \in Refreshing : call = syncer[s] /\ RefreshInv(call)
  BY RefreshAtHand DEF SaveListed
<1>2. call.stage = "saving" /\ call.todo # {} /\ UNCHANGED <<project, changes, syncState>>
  BY <1>1 DEF SaveListed
<1>3. PICK x : x = CHOOSE y \in call.todo : \A z \in call.todo : y.item <= z.item
  OBVIOUS
<1>4. x \in call.todo
  <2>1. \A y \in call.todo : y.item \in Nat
    BY DEF Refreshing, ItemRows, ItemIds
  <2>2. PICK n \in {y.item : y \in call.todo} : \A m \in {y.item : y \in call.todo} : n <= m
    <3>1. {y.item : y \in call.todo} \subseteq Nat /\ {y.item : y \in call.todo} # {}
      BY <1>2, <2>1
    <3>2. QED
      BY <3>1, LowestExists
  <2>3. \E y \in call.todo : \A z \in call.todo : y.item <= z.item
    BY <2>2
  <2>4. QED
    BY <1>3, <2>3
<1>5. /\ x \in ItemRows /\ x \in call.listed /\ x.content \in ContentIds
      /\ x.revision <= changes
  BY <1>1, <1>4 DEF Refreshing, RefreshInv, ItemRows
<1>6. PICK next : next = [call EXCEPT !.todo = @ \ {x}]
  OBVIOUS
<1>7. /\ items' = [items EXCEPT ![x.content] = x]
      /\ syncer' = Disturbed(s, next)
  BY <1>1, <1>3, <1>6 DEF SaveListed, save_item
<1>8. /\ next \in Refreshing /\ next.stage = "saving" /\ next.alone = call.alone
      /\ next.listed = call.listed /\ next.todo = call.todo \ {x}
  BY <1>2, <1>6 DEF Refreshing
<1>9. items' \in [ContentIds -> ItemRows \cup {Unknown}] /\ ItemsInv'
  <2>1. items \in [ContentIds -> ItemRows \cup {Unknown}]
    BY DEF SyncInv
  <2>2. \A c \in ContentIds : items'[c] = IF c = x.content THEN x ELSE items[c]
    BY <1>7, <2>1
  <2>3. RowInv(x.content, x)
    BY <1>5 DEF RowInv
  <2>4. \A c \in ContentIds : items'[c] = Unknown \/ RowInv(c, items'[c])
    BY <2>2, <2>3 DEF SyncInv, ItemsInv
  <2>5. QED
    BY <1>2, <1>5, <1>7, <2>1, <2>4 DEF ItemsInv, RowInv
<1>10. RefreshInv(next)'
  <2>1. ASSUME call.alone, NEW y \in next.listed \ next.todo, y.content \in ProjectIssues
        PROVE  items'[y.content] = y
    <3>1. y.content \in ContentIds /\ y \in call.listed
      BY <1>8, <2>1 DEF ContentIds
    <3>2. CASE y = x
      BY <1>7, <3>1, <3>2 DEF SyncInv
    <3>3. CASE y # x
      <4>1. y.content # x.content
        BY <1>1, <1>5, <2>1, <3>1, <3>3 DEF RefreshInv
      <4>2. y \in call.listed \ call.todo
        BY <1>8, <2>1, <3>3
      <4>3. items[y.content] = y
        BY <1>1, <2>1, <4>2 DEF RefreshInv
      <4>4. QED
        BY <1>7, <3>1, <4>1, <4>3 DEF SyncInv
    <3>4. QED
      BY <3>2, <3>3
  <2>2. QED
    BY <1>1, <1>2, <1>8, <2>1 DEF RefreshInv
<1>11. SyncerInv(next)' /\ next \in SyncCalls
  BY <1>8, <1>10 DEF SyncerInv, SyncCalls
<1>12. QED
  BY <1>2, <1>7, <1>9, <1>11, StoreWritten

LEMMA SaveStateStep ==
  ASSUME SyncInv, NEW s \in Syncers, SaveState(s)
  PROVE  SyncInv'
<1>1. PICK call \in Refreshing : call = syncer[s] /\ RefreshInv(call)
  BY RefreshAtHand DEF SaveState
<1>2. /\ call.todo = {} /\ UNCHANGED <<project, changes, items>>
      /\ syncState' = [revision |-> MaxRevisionOf(call.listed), status |-> "success"]
  BY <1>1 DEF SaveState
<1>3. PICK next : next = [call EXCEPT !.stage = "refreshed"]
  OBVIOUS
<1>4. /\ next \in Refreshing /\ next.stage = "refreshed" /\ next.alone = call.alone
      /\ next.listed = call.listed /\ next.todo = {}
  BY <1>2, <1>3 DEF Refreshing
<1>5. RefreshInv(next)'
  BY <1>1, <1>2, <1>4 DEF RefreshInv
<1>6. SyncerInv(next)' /\ next \in SyncCalls
  BY <1>4, <1>5 DEF SyncerInv, SyncCalls
<1>7. syncer' = Disturbed(s, next)
  BY <1>1, <1>3 DEF SaveState
<1>8. ItemsInv' /\ items' \in [ContentIds -> ItemRows \cup {Unknown}]
  BY <1>2 DEF SyncInv, ItemsInv, RowInv
<1>9. QED
  BY <1>2, <1>6, <1>7, <1>8, StoreWritten

LEMMA RefreshReturnsStep ==
  ASSUME SyncInv, NEW s \in Syncers, RefreshReturns(s) \/ SyncFails(s)
  PROVE  SyncInv'
<1>1. UNCHANGED <<project, changes, items, syncState>> /\ syncer' = [syncer EXCEPT ![s] = AtRest]
  BY DEF RefreshReturns, SyncFails, Proceed
<1>2. ProjectInv' /\ changes <= changes'
  BY <1>1 DEF SyncInv, ProjectInv
<1>3. QED
  BY <1>1, <1>2, SyncRests, SyncGoes

LEMMA ExportStartStep ==
  ASSUME SyncInv, NEW s \in Syncers, NEW c \in ProjectIssues, ExportStart(s, c)
  PROVE  SyncInv'
<1>1. PICK call : call = [stage |-> "add", content |-> c]
  OBVIOUS
<1>2. UNCHANGED <<project, changes, items, syncState>> /\ syncer' = [syncer EXCEPT ![s] = call]
  BY <1>1 DEF ExportStart, Proceed
<1>3. ProjectInv' /\ changes <= changes'
  BY <1>2 DEF SyncInv, ProjectInv
<1>4. call \in SyncCalls /\ SyncerInv(call)'
  BY <1>1 DEF Adding, SyncCalls, SyncerInv
<1>5. QED
  BY <1>2, <1>3, <1>4, SyncGoes

(* GitHub answers with the item the content has, or with the one it made.  *)
LEMMA AddItemStep ==
  ASSUME SyncInv, NEW s \in Syncers, NEW answered \in BOOLEAN, AddItem(s, answered)
  PROVE  SyncInv'
<1>1. ProjectInv /\ changes \in Nat
  BY DEF SyncInv, ProjectInv
<1>2. PICK c : c = syncer[s].content
  OBVIOUS
<1>3. c \in ProjectIssues /\ c \in ContentIds
  <2>1. SyncerInv(syncer[s]) /\ syncer[s].stage = "add"
    BY DEF SyncInv, AddItem
  <2>2. syncer[s] \in Adding
    BY <2>1 DEF SyncerInv, AtRest, Exporting, Refreshing
  <2>3. QED
    BY <1>2, <2>2 DEF Adding, ContentIds
<1>4. PICK at : at = IF ItemsOf(c) = {} THEN changes + 1 ELSE Min(ItemsOf(c))
  OBVIOUS
<1>5. UNCHANGED <<items, syncState>>
  BY DEF AddItem
<1>6. /\ ProjectInv' /\ changes <= changes' /\ at \in DOMAIN project'
      /\ project'[at].content = c
  <2>1. CASE ItemsOf(c) = {}
    <3>1. /\ at \in ItemIds /\ project' = WithItem(c, at) /\ changes' = changes + 1
      BY <1>2, <1>4, <2>1 DEF AddItem, NewItem
    <3>2. ProjectInv'
      BY <1>1, <1>3, <2>1, <3>1, ItemIsAdded
    <3>3. at \in DOMAIN project' /\ project'[at].content = c
      BY <3>1 DEF WithItem
    <3>4. QED
      BY <1>1, <3>1, <3>2, <3>3
  <2>2. CASE ItemsOf(c) # {}
    <3>1. ItemsOf(c) \subseteq Nat
      BY <1>1 DEF ItemsOf, ProjectInv, ItemIds
    <3>2. PICK n \in ItemsOf(c) : \A m \in ItemsOf(c) : n <= m
      BY <2>2, <3>1, LowestExists
    <3>3. at \in ItemsOf(c)
      BY <1>4, <2>2, <3>2 DEF Min
    <3>4. UNCHANGED <<project, changes>>
      BY <1>2, <2>2 DEF AddItem
    <3>5. ProjectInv' /\ changes <= changes'
      BY <1>1, <3>4 DEF ProjectInv
    <3>6. QED
      BY <3>3, <3>4, <3>5 DEF ItemsOf
  <2>3. QED
    BY <2>1, <2>2
<1>7. CASE ~ answered
  <2>1. syncer' = [syncer EXCEPT ![s] = AtRest]
    BY <1>7 DEF AddItem, Proceed
  <2>2. QED
    BY <1>5, <1>6, <2>1, SyncRests, SyncGoes
<1>8. CASE answered
  <2>1. PICK row : row = project'[at]
    OBVIOUS
  <2>2. row \in ProjectRows /\ row.revision <= changes' /\ at \in ItemIds
    BY <1>6, <2>1 DEF ProjectInv, ItemIds, ProjectRows, ContentIds
  <2>3. PICK x : x = [item |-> at, content |-> c, archived |-> FALSE, revision |-> row.revision]
    OBVIOUS
  <2>4. PICK call : call = [stage |-> "added", content |-> c, item |-> x]
    OBVIOUS
  <2>5. syncer' = [syncer EXCEPT ![s] = call]
    BY <1>2, <1>4, <1>8, <2>1, <2>3, <2>4 DEF AddItem, Proceed
  <2>6. x \in ItemRows /\ x.content = c /\ x.revision <= changes'
    BY <1>3, <2>2, <2>3 DEF ItemRows, ProjectRows
  <2>7. call \in Exporting /\ call.content = c /\ call.item = x
    BY <1>3, <2>4, <2>6 DEF Exporting
  <2>8. SyncerInv(call)' /\ call \in SyncCalls
    BY <2>6, <2>7 DEF SyncerInv, RowInv, SyncCalls
  <2>9. QED
    BY <1>5, <1>6, <2>5, <2>8, SyncGoes
<1>9. QED
  BY <1>7, <1>8

(* An export that has its answer.                                           *)
LEMMA ExportAtHand ==
  ASSUME SyncInv, NEW s \in Syncers, syncer[s].stage \in {"added", "state"}
  PROVE  syncer[s] \in Exporting /\ RowInv(syncer[s].content, syncer[s].item)
<1>1. SyncerInv(syncer[s])
  BY DEF SyncInv
<1>2. QED
  BY <1>1 DEF SyncerInv, AtRest, Adding, Refreshing

LEMMA SaveCreatedStep ==
  ASSUME SyncInv, NEW s \in Syncers, SaveCreated(s)
  PROVE  SyncInv'
<1>1. PICK call \in Exporting : call = syncer[s] /\ RowInv(call.content, call.item)
  BY ExportAtHand DEF SaveCreated
<1>2. PICK next : next = [call EXCEPT !.stage = "state"]
  OBVIOUS
<1>3. next \in Exporting /\ next.content = call.content /\ next.item = call.item
  BY <1>2 DEF Exporting
<1>4. /\ UNCHANGED <<project, changes, syncState>>
      /\ items' = [items EXCEPT ![call.content] = call.item]
      /\ syncer' = Disturbed(s, next)
  BY <1>1, <1>2 DEF SaveCreated, save_item
<1>5. RowInv(call.content, call.item)' /\ call.content \in ContentIds /\ call.item \in ItemRows
  BY <1>1, <1>4 DEF RowInv, Exporting, ContentIds
<1>6. SyncerInv(next)' /\ next \in SyncCalls
  BY <1>3, <1>5 DEF SyncerInv, SyncCalls
<1>7. items' \in [ContentIds -> ItemRows \cup {Unknown}] /\ ItemsInv'
  <2>1. items \in [ContentIds -> ItemRows \cup {Unknown}] /\ ItemsInv
    BY DEF SyncInv
  <2>2. \A c \in ContentIds : items'[c] = IF c = call.content THEN call.item ELSE items[c]
    BY <1>4, <2>1
  <2>3. \A c \in ContentIds : items'[c] = Unknown \/ RowInv(c, items'[c])
    BY <1>1, <2>1, <2>2 DEF ItemsInv
  <2>4. QED
    BY <1>4, <1>5, <2>1, <2>3 DEF ItemsInv, RowInv
<1>8. QED
  BY <1>4, <1>6, <1>7, StoreWritten

LEMMA SaveExportStateStep ==
  ASSUME SyncInv, NEW s \in Syncers, SaveExportState(s)
  PROVE  SyncInv'
<1>1. UNCHANGED <<project, changes, items>> /\ syncer' = Disturbed(s, AtRest)
  BY DEF SaveExportState
<1>2. ItemsInv' /\ items' \in [ContentIds -> ItemRows \cup {Unknown}]
  BY <1>1 DEF SyncInv, ItemsInv, RowInv
<1>3. QED
  BY <1>1, <1>2, SyncRests, StoreWritten

LEMMA SyncNextInv == SyncInv /\ [SyncNext]_syncVars => SyncInv'
<1> SUFFICES ASSUME SyncInv, [SyncNext]_syncVars PROVE SyncInv'
  OBVIOUS
<1>1. CASE \/ \E c \in ContentIds : PersonAdds(c)
           \/ \E i \in ItemIds : PersonArchives(i) \/ PersonRemoves(i)
  BY <1>1, PeopleStep
<1>2. CASE \E s \in Syncers : \E page \in SUBSET ItemIds : RefreshStart(s, page)
  BY <1>2, RefreshStartStep
<1>3. CASE \E s \in Syncers : SaveListed(s)
  BY <1>3, SaveListedStep
<1>4. CASE \E s \in Syncers : SaveState(s)
  BY <1>4, SaveStateStep
<1>5. CASE \E s \in Syncers : RefreshReturns(s) \/ SyncFails(s)
  BY <1>5, RefreshReturnsStep
<1>6. CASE \E s \in Syncers : \E c \in ProjectIssues : ExportStart(s, c)
  BY <1>6, ExportStartStep
<1>7. CASE \E s \in Syncers : \E answered \in BOOLEAN : AddItem(s, answered)
  BY <1>7, AddItemStep
<1>8. CASE \E s \in Syncers : SaveCreated(s)
  BY <1>8, SaveCreatedStep
<1>9. CASE \E s \in Syncers : SaveExportState(s)
  BY <1>9, SaveExportStateStep
<1>10. CASE UNCHANGED syncVars
  BY <1>10 DEF syncVars, SyncInv, ProjectInv, ItemsInv, RowInv, SyncerInv, RefreshInv
<1>11. QED
  BY <1>1, <1>2, <1>3, <1>4, <1>5, <1>6, <1>7, <1>8, <1>9, <1>10 DEF SyncNext

(* Of every history of the project and its syncs: an issue has one item at *)
(* most, a row is of its content and no later than the project, and what an *)
(* undisturbed refresh took from its list is in the store.                  *)
THEOREM SyncInvHolds == SyncSpec => []SyncInv
<1>1. SyncInit => SyncInv
  BY SyncInitInv
<1>2. SyncInv /\ [SyncNext]_syncVars => SyncInv'
  BY SyncNextInv
<1>3. QED
  BY <1>1, <1>2, PTL DEF SyncSpec

(* The rows stay in range and of their content (save_item).                 *)
THEOREM SyncTypesHold == SyncSpec => []SyncTypeOK
<1>1. SyncInv => SyncTypeOK
  <2> SUFFICES ASSUME SyncInv PROVE SyncTypeOK
    OBVIOUS
  <2>1. \A c \in ContentIds : items[c] # Unknown => RowInv(c, items[c])
    BY DEF SyncInv, ItemsInv
  <2>2. QED
    BY <2>1 DEF SyncInv, ProjectInv, SyncTypeOK, RowInv, ItemRows
<1>2. QED
  BY <1>1, SyncInvHolds, PTL

(* refresh: a sync that no other writer disturbed ends with every issue it *)
(* listed in the store as it was listed, and the state at their latest      *)
(* revision, however the project changed meanwhile.                         *)
THEOREM QuietRefreshHolds == SyncSpec => []QuietRefreshIsComplete
<1>1. SyncInv => QuietRefreshIsComplete
  <2> SUFFICES ASSUME SyncInv, NEW s \in Syncers, syncer[s].stage = "refreshed", syncer[s].alone
               PROVE  /\ \A x \in syncer[s].listed :
                           x.content \in ProjectIssues => items[x.content] = x
                      /\ syncState.revision = MaxRevisionOf(syncer[s].listed)
    BY DEF QuietRefreshIsComplete
  <2>1. PICK call : call = syncer[s]
    OBVIOUS
  <2>2. RefreshInv(call)
    BY <2>1, RefreshAtHand
  <2>3. QED
    BY <2>1, <2>2 DEF RefreshInv
<1>2. QED
  BY <1>1, SyncInvHolds, PTL

(***************************************************************************)
(* Paging.                                                                 *)
(***************************************************************************)
Reads(fieldPages, itemPages) ==
  [at : {"fetching", "resolving", "updating", "updated", "refused", "failed"},
   fieldCursor : 0..(fieldPages - 1), itemCursor : 0..(itemPages - 1),
   fields : [1..fieldPages -> Nat], items : [1..itemPages -> Nat]]

(* After some turns each connection was read through so many times, and the *)
(* pages up to its cursor once more.  It has not ended before as many turns *)
(* as there are pairs of pages, and then it has.                            *)
Through(counts, pages, rounds, cursor) ==
  \A p \in 1..pages : counts[p] = IF p <= cursor THEN rounds + 1 ELSE rounds

Turned(f, fieldPages, itemPages, a, b) ==
  /\ a * fieldPages + f.fieldCursor = b * itemPages + f.itemCursor
  /\ a * fieldPages + f.fieldCursor <= fieldPages * itemPages
  /\ f.at = "fetching" => a * fieldPages + f.fieldCursor < fieldPages * itemPages
  /\ Through(f.fields, fieldPages, a, f.fieldCursor)
  /\ Through(f.items, itemPages, b, f.itemCursor)

PagingInv ==
  \E fieldPages \in Nat \ {0}, itemPages \in Nat \ {0} :
    /\ size = [fields |-> fieldPages, items |-> itemPages]
    /\ fetch \in Reads(fieldPages, itemPages)
    /\ \E a \in Nat, b \in Nat : Turned(fetch, fieldPages, itemPages, a, b)

(* One turn of a connection of n pages, of which it was read through a      *)
(* times and as far as c.                                                   *)
LEMMA TurnOf ==
  ASSUME NEW n \in Nat \ {0}, NEW a \in Nat, NEW c \in 0..(n - 1),
         NEW counts \in [1..n -> Nat], Through(counts, n, a, c)
  PROVE  \E d \in Nat :
           /\ CursorAfter(c + 1, n) \in 0..(n - 1)
           /\ d * n + CursorAfter(c + 1, n) = a * n + c + 1
           /\ [counts EXCEPT ![c + 1] = @ + 1] \in [1..n -> Nat]
           /\ Through([counts EXCEPT ![c + 1] = @ + 1], n, d, CursorAfter(c + 1, n))
<1>1. PICK k : k = CursorAfter(c + 1, n)
  OBVIOUS
<1> DEFINE q == [counts EXCEPT ![c + 1] = @ + 1]
<1>2. /\ q \in [1..n -> Nat]
      /\ \A p \in 1..n : q[p] = IF p = c + 1 THEN counts[p] + 1 ELSE counts[p]
  OBVIOUS
<1> HIDE DEF q
<1>3. CASE c + 1 < n
  <2>1. k = c + 1 /\ k \in 0..(n - 1)
    BY <1>1, <1>3 DEF CursorAfter
  <2>2. Through(q, n, a, k)
    BY <1>2, <2>1 DEF Through
  <2>3. a * n + k = a * n + c + 1
    <3>1. a * n \in Nat
      OBVIOUS
    <3>2. QED
      BY <2>1, <3>1
  <2>4. WITNESS a \in Nat
  <2>5. QED
    BY <1>1, <1>2, <2>1, <2>2, <2>3 DEF q
<1>4. CASE c + 1 = n
  <2>1. k = 0 /\ k \in 0..(n - 1)
    BY <1>1, <1>4 DEF CursorAfter, Null
  <2>2. Through(q, n, a + 1, k)
    BY <1>2, <1>4, <2>1 DEF Through
  <2>3. (a + 1) * n + k = a * n + c + 1
    <3>1. (a + 1) * n = a * n + n /\ a * n \in Nat
      OBVIOUS
    <3>2. QED
      BY <1>4, <2>1, <3>1
  <2>4. WITNESS a + 1 \in Nat
  <2>5. QED
    BY <1>1, <1>2, <2>1, <2>2, <2>3 DEF q
<1>5. c + 1 < n \/ c + 1 = n
  OBVIOUS
<1>6. QED
  BY <1>3, <1>4, <1>5

(* A connection of n pages read through a times and as far as c: not more   *)
(* often than m, if the turns are no more than m times the pages; and after *)
(* exactly so many it is at its end.                                        *)
LEMMA RoundsOf ==
  ASSUME NEW n \in Nat \ {0}, NEW m \in Nat \ {0}, NEW a \in Nat, NEW c \in 0..(n - 1),
         a * n + c <= m * n
  PROVE  /\ a <= m
         /\ c > 0 => a + 1 <= m
         /\ a * n + c = m * n => c = 0
<1>1. ASSUME a >= m + 1 PROVE FALSE
  <2>1. a * n >= (m + 1) * n
    BY <1>1
  <2>2. (m + 1) * n = m * n + n
    OBVIOUS
  <2>3. a * n \in Nat /\ m * n \in Nat
    OBVIOUS
  <2>4. QED
    BY <2>1, <2>2, <2>3
<1>2. a <= m
  BY <1>1
<1>3. ASSUME c > 0, a = m PROVE FALSE
  <2>1. a * n \in Nat /\ a * n = m * n
    BY <1>3
  <2>2. QED
    BY <1>3, <2>1
<1>4. ASSUME a + 1 <= m PROVE a * n + n <= m * n
  <2>1. (a + 1) * n <= m * n
    BY <1>4
  <2>2. (a + 1) * n = a * n + n
    OBVIOUS
  <2>3. QED
    BY <2>1, <2>2
<1>5. a * n \in Nat /\ m * n \in Nat
  OBVIOUS
<1>6. ASSUME a * n + c = m * n, c > 0 PROVE FALSE
  <2>1. a + 1 <= m
    BY <1>2, <1>3, <1>6
  <2>2. QED
    BY <1>4, <1>5, <1>6, <2>1
<1>7. QED
  BY <1>2, <1>3, <1>6

LEMMA PagingInitInv == PagingInit => PagingInv
<1> SUFFICES ASSUME PagingInit PROVE PagingInv
  OBVIOUS
<1>1. PICK fieldPages \in Nat \ {0}, itemPages \in Nat \ {0} : size = [fields |-> fieldPages, items |-> itemPages]
  <2>1. size \in [fields : Nat \ {0}, items : Nat \ {0}]
    BY PagingAssumption DEF PagingInit
  <2>2. QED
    BY <2>1
<1>2. fetch = [at |-> "fetching", fieldCursor |-> 0, itemCursor |-> 0,
               fields |-> [p \in 1..fieldPages |-> 0], items |-> [p \in 1..itemPages |-> 0]]
  BY <1>1 DEF PagingInit, Null
<1>3. fetch \in Reads(fieldPages, itemPages)
  BY <1>2 DEF Reads
<1>4. fieldPages * itemPages > 0
  BY <1>1
<1>5. Turned(fetch, fieldPages, itemPages, 0, 0)
  BY <1>2, <1>4 DEF Turned, Through
<1>6. QED
  BY <1>1, <1>3, <1>5 DEF PagingInv

LEMMA FetchStep ==
  ASSUME PagingInv, FetchPages
  PROVE  PagingInv'
<1>1. PICK fieldPages \in Nat \ {0}, itemPages \in Nat \ {0} :
        /\ size = [fields |-> fieldPages, items |-> itemPages]
        /\ fetch \in Reads(fieldPages, itemPages)
        /\ \E a \in Nat, b \in Nat : Turned(fetch, fieldPages, itemPages, a, b)
  BY DEF PagingInv
<1>2. PICK f \in Reads(fieldPages, itemPages) : f = fetch
  BY <1>1
<1>3. PICK a \in Nat, b \in Nat : Turned(f, fieldPages, itemPages, a, b)
  BY <1>1, <1>2
<1>4. /\ f.at = "fetching" /\ UNCHANGED size
      /\ f.fieldCursor \in 0..(fieldPages - 1) /\ f.itemCursor \in 0..(itemPages - 1)
      /\ f.fields \in [1..fieldPages -> Nat] /\ f.items \in [1..itemPages -> Nat]
  BY <1>2 DEF FetchPages, Reads
<1>5. PICK c \in Nat : /\ CursorAfter(f.fieldCursor + 1, fieldPages) \in 0..(fieldPages - 1)
                       /\ c * fieldPages + CursorAfter(f.fieldCursor + 1, fieldPages)
                            = a * fieldPages + f.fieldCursor + 1
                       /\ [f.fields EXCEPT ![f.fieldCursor + 1] = @ + 1] \in [1..fieldPages -> Nat]
                       /\ Through([f.fields EXCEPT ![f.fieldCursor + 1] = @ + 1], fieldPages, c,
                                  CursorAfter(f.fieldCursor + 1, fieldPages))
  BY <1>3, <1>4, TurnOf DEF Turned
<1>6. PICK d \in Nat : /\ CursorAfter(f.itemCursor + 1, itemPages) \in 0..(itemPages - 1)
                       /\ d * itemPages + CursorAfter(f.itemCursor + 1, itemPages)
                            = b * itemPages + f.itemCursor + 1
                       /\ [f.items EXCEPT ![f.itemCursor + 1] = @ + 1] \in [1..itemPages -> Nat]
                       /\ Through([f.items EXCEPT ![f.itemCursor + 1] = @ + 1], itemPages, d,
                                  CursorAfter(f.itemCursor + 1, itemPages))
  BY <1>3, <1>4, TurnOf DEF Turned
<1>7. PICK nextField \in 0..(fieldPages - 1), nextItem \in 0..(itemPages - 1), at \in {"resolving", "fetching"} :
        /\ nextField = CursorAfter(f.fieldCursor + 1, fieldPages)
        /\ nextItem = CursorAfter(f.itemCursor + 1, itemPages)
        /\ at = IF nextField = Null /\ nextItem = Null THEN "resolving" ELSE "fetching"
  BY <1>5, <1>6
<1>8. PICK g : g = [at |-> at, fieldCursor |-> nextField, itemCursor |-> nextItem,
                    fields |-> [f.fields EXCEPT ![f.fieldCursor + 1] = @ + 1],
                    items |-> [f.items EXCEPT ![f.itemCursor + 1] = @ + 1]]
  OBVIOUS
<1>9. fetch' = g
  BY <1>1, <1>2, <1>7, <1>8 DEF FetchPages
<1>10. g \in Reads(fieldPages, itemPages)
  BY <1>5, <1>6, <1>7, <1>8 DEF Reads
<1>11. Turned(g, fieldPages, itemPages, c, d)
  <2>1. PICK s \in Nat, turns \in Nat :
          s = fieldPages * itemPages /\ turns = a * fieldPages + f.fieldCursor + 1
    <3>1. fieldPages * itemPages \in Nat /\ a * fieldPages \in Nat /\ f.fieldCursor \in Nat
      BY <1>4
    <3>2. a * fieldPages + f.fieldCursor + 1 \in Nat
      BY <3>1
    <3>3. QED
      BY <3>1, <3>2
  <2>2. /\ turns = c * fieldPages + nextField /\ turns = d * itemPages + nextItem
        /\ turns <= s
    <3>1. PICK x \in Nat, y \in Nat : x = a * fieldPages + f.fieldCursor /\ y = b * itemPages + f.itemCursor
      <4>1. /\ a * fieldPages \in Nat /\ b * itemPages \in Nat
            /\ f.fieldCursor \in Nat /\ f.itemCursor \in Nat
        BY <1>4
      <4>2. QED
        BY <4>1
    <3>2. x = y /\ x < s
      BY <1>3, <1>4, <2>1, <3>1 DEF Turned
    <3>3. turns = x + 1 /\ turns = y + 1
      BY <2>1, <3>1, <3>2
    <3>4. c * fieldPages + nextField = x + 1
      BY <1>5, <1>7, <3>1
    <3>5. d * itemPages + nextItem = y + 1
      BY <1>6, <1>7, <3>1
    <3>6. QED
      BY <3>2, <3>3, <3>4, <3>5
  <2>3. s = itemPages * fieldPages
    BY <2>1
  <2>4. turns = s => nextField = 0 /\ nextItem = 0
    BY <2>1, <2>2, <2>3, RoundsOf
  <2>5. at = "fetching" => turns < s
    BY <1>7, <2>2, <2>4 DEF Null
  <2>6. QED
    BY <1>5, <1>6, <1>7, <1>8, <2>1, <2>2, <2>5 DEF Turned
<1>12. QED
  BY <1>1, <1>4, <1>9, <1>10, <1>11 DEF PagingInv

LEMMA PagingNextInv == PagingInv /\ [PagingNext]_pagingVars => PagingInv'
<1> SUFFICES ASSUME PagingInv, [PagingNext]_pagingVars PROVE PagingInv'
  OBVIOUS
<1>1. CASE FetchPages
  BY <1>1, FetchStep
<1>2. CASE UNCHANGED pagingVars
  BY <1>2 DEF pagingVars, PagingInv
<1>3. ASSUME NEW s \in {"updating", "updated", "refused", "failed"},
             fetch' = [fetch EXCEPT !.at = s], UNCHANGED size
      PROVE  PagingInv'
  <2>1. PICK fieldPages \in Nat \ {0}, itemPages \in Nat \ {0} :
          /\ size = [fields |-> fieldPages, items |-> itemPages]
          /\ fetch \in Reads(fieldPages, itemPages)
          /\ \E a \in Nat, b \in Nat : Turned(fetch, fieldPages, itemPages, a, b)
    BY DEF PagingInv
  <2>2. PICK f \in Reads(fieldPages, itemPages) : f = fetch
    BY <2>1
  <2>3. PICK a \in Nat, b \in Nat : Turned(f, fieldPages, itemPages, a, b)
    BY <2>1, <2>2
  <2>4. PICK g : g = [f EXCEPT !.at = s]
    OBVIOUS
  <2>5. /\ g \in Reads(fieldPages, itemPages) /\ g.at = s /\ s # "fetching"
        /\ g.fieldCursor = f.fieldCursor /\ g.itemCursor = f.itemCursor
        /\ g.fields = f.fields /\ g.items = f.items
    BY <2>4 DEF Reads
  <2>6. Turned(g, fieldPages, itemPages, a, b)
    BY <2>3, <2>5 DEF Turned
  <2>7. fetch' = g
    BY <1>3, <2>2, <2>4
  <2>8. QED
    BY <1>3, <2>1, <2>5, <2>6, <2>7 DEF PagingInv
<1>4. CASE UpdateField \/ RequestFails
  BY <1>3, <1>4 DEF UpdateField, RequestFails
<1>5. ASSUME NEW f \in 1..size.fields, NEW i \in 1..size.items, Resolve(f, i) PROVE PagingInv'
  <2>1. PICK s \in {"updating", "refused"} : fetch' = [fetch EXCEPT !.at = s]
    BY <1>5 DEF Resolve
  <2>2. QED
    BY <1>3, <1>5, <2>1 DEF Resolve
<1>6. QED
  BY <1>1, <1>2, <1>4, <1>5 DEF PagingNext

(* However many pages a project has of each, the loop of fetch_project ends *)
(* and reads no page of one more often than the other has pages.            *)
THEOREM PagingEnds == PagingSpec => []PagingTypeOK
<1>1. PagingInv => PagingTypeOK
  <2> SUFFICES ASSUME PagingInv PROVE PagingTypeOK
    OBVIOUS
  <2>1. PICK fieldPages \in Nat \ {0}, itemPages \in Nat \ {0} :
          /\ size = [fields |-> fieldPages, items |-> itemPages]
          /\ fetch \in Reads(fieldPages, itemPages)
          /\ \E a \in Nat, b \in Nat : Turned(fetch, fieldPages, itemPages, a, b)
    BY DEF PagingInv
  <2>2. PICK a \in Nat, b \in Nat : Turned(fetch, fieldPages, itemPages, a, b)
    BY <2>1
  <2>3. /\ fetch.fieldCursor \in 0..(fieldPages - 1) /\ fetch.itemCursor \in 0..(itemPages - 1)
    BY <2>1 DEF Reads
  <2>4. PICK c \in 0..(fieldPages - 1), d \in 0..(itemPages - 1) :
          c = fetch.fieldCursor /\ d = fetch.itemCursor
    BY <2>3
  <2>5. a * fieldPages + c <= itemPages * fieldPages /\ b * itemPages + d <= fieldPages * itemPages
    <3>1. fieldPages * itemPages = itemPages * fieldPages
      OBVIOUS
    <3>2. QED
      BY <2>2, <2>4, <3>1 DEF Turned
  <2>6. a <= itemPages /\ (c > 0 => a + 1 <= itemPages) /\ b <= fieldPages /\ (d > 0 => b + 1 <= fieldPages)
    BY <2>5, RoundsOf
  <2>7. \A p \in 1..fieldPages : fetch.fields[p] <= itemPages
    BY <2>2, <2>4, <2>6 DEF Turned, Through
  <2>8. \A p \in 1..itemPages : fetch.items[p] <= fieldPages
    BY <2>2, <2>4, <2>6 DEF Turned, Through
  <2>9. QED
    BY <2>1, <2>3, <2>7, <2>8 DEF PagingTypeOK
<1>2. QED
  BY <1>1, PagingInitInv, PagingNextInv, PTL DEF PagingSpec

=============================================================================
