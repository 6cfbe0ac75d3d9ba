------------------------- MODULE BridgeQueueHistory -------------------------
(***************************************************************************)
(* The bridge with a history of how often each operation was claimed, to   *)
(* state how many times one submission can be executed.                    *)
(***************************************************************************)
EXTENDS BridgeQueue, FiniteSetsExt

VARIABLE claims  \* how often queue.json has recorded a claim of the operation

historyVars == <<vars, claims>>

HistoryInit == Init /\ claims = [o \in Ops |-> 0]

HistoryNext ==
  /\ Next
  /\ claims' = [o \in Ops |-> IF ClaimedAnew(o) THEN claims[o] + 1 ELSE claims[o]]

HistorySpec == HistoryInit /\ [][HistoryNext]_historyVars

HistoryFairSpec == HistorySpec /\ Fairness

(* An operation is executed once, once more for each retry of each budget, *)
(* and once more for each lease that can run out within its time to live:  *)
(* 1 + 6 + 47 times with the constants of bridge.py.                       *)
MaxClaims ==
  1 + MapThenSumSet(LAMBDA c : RetryBudget[c], RetryClasses)
    + (QueueTTL - 1) \div ClaimLease

ClaimsBounded == \A o \in Ops : claims[o] <= MaxClaims

=============================================================================
