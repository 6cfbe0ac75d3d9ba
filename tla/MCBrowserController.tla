------------------------ MODULE MCBrowserController -------------------------
(* Small instances of the browser controller.                              *)
EXTENDS BrowserController

MCRetryBudget == [c \in RetryClasses |-> 1]

MCNoBudget == [c \in RetryClasses |-> 0]

=============================================================================
