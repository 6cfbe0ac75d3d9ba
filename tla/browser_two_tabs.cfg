\* Two tabs, one of them with a conversation of the user's own.
SPECIFICATION Spec
CONSTANTS
  Tabs = {1, 2}
  MaxJobs = 1
  Prompts = 1
  Marked = {}
  RetryBudget <- MCRetryBudget
  Notices = {}
  FirstChats = {"empty", "answered"}
  MaxTurns = 3
  MaxReloads = 0
  Lapses = FALSE
  Lossy = {}
CHECK_DEADLOCK FALSE
INVARIANT OperationBoundResponse
