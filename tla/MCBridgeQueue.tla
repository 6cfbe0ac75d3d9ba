--------------------------- MODULE MCBridgeQueue ----------------------------
(* Small instances of the bridge queue, with its history of claims.        *)
EXTENDS BridgeQueueHistory, TLC

CONSTANTS p1, n1, r1, r2, h1, h2

(* One retry of the class "controller", none of any other.                 *)
MCBudget == [c \in RetryClasses |-> IF c = "controller" THEN 1 ELSE 0]

MCSymmetry == Permutations({r1, r2}) \cup Permutations({h1, h2})

=============================================================================
