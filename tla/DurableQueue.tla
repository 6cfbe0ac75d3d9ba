---------------------------- MODULE DurableQueue ----------------------------
(***************************************************************************)
(* What the bridge promises its clients about operations, with no cache,   *)
(* files, leases or processes: an operation is pending until it has one    *)
(* result, the result is final, it may be forgotten only in favour of      *)
(* younger results, and nobody is told a result that is not the            *)
(* operation's.                                                            *)
(***************************************************************************)
EXTENDS Naturals, FiniteSets

CONSTANTS MaxOps, MaxResults

VARIABLES
  state,  \* each operation's state
  fresh,  \* operations from this number on have never been queued
  told    \* the results clients have been told

vars == <<state, fresh, told>>

Ops == 1..MaxOps

Results == {"completed", "failed"}

Init ==
  /\ state = [o \in Ops |-> "absent"]
  /\ fresh = 1
  /\ told = [o \in Ops |-> {}]

YoungerResults(s, o) == {p \in Ops : p > o /\ s[p] \in Results}

(* One write of the queue may move several operations.                     *)
Advances(o) ==
  \/ state'[o] = state[o]
  \/ state[o] = "absent" /\ o >= fresh /\ o < fresh' /\ state'[o] = "pending"
  \/ state[o] = "pending" /\ state'[o] \in Results
  \/ /\ state[o] \in Results \cup {"pending"}
     /\ state'[o] = "absent"
     /\ Cardinality(YoungerResults(state', o)) >= MaxResults

Honest(o) ==
  /\ told[o] \subseteq told'[o]
  /\ \A r \in told'[o] \ told[o] : state'[o] \in {r, "absent"}
  /\ Cardinality(told'[o]) <= 1

Next ==
  /\ state' \in [Ops -> Results \cup {"absent", "pending"}]
  /\ fresh' \in {fresh, fresh + 1}
  /\ told' \in [Ops -> SUBSET Results]
  /\ \A o \in Ops : Advances(o) /\ Honest(o)

Spec == Init /\ [][Next]_vars

=============================================================================
