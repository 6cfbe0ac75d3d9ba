\* Two operations and pollers only: everything accepted ends.
SPECIFICATION HistoryFairSpec
CONSTANTS
  p1 = p1
  n1 = n1
  r1 = r1
  r2 = r2
  h1 = h1
  h2 = h2
  MaxOps = 2
  MaxTerminal = 1
  Requests = {n1}
  PromptRequests = {}
  KeyedRequests = {}
  NoRequest = NoRequest
  Responses = {}
  NoText = NoText
  RetryClasses = {}
  RetryBudget <- MCBudget
  Stops = {2}
  IOErrors = FALSE
  ClaimLease = 1
  QueueTTL = 2
  LastSubmission = 1
  MaxTime = 2
  Handlers = {h1}
CHECK_DEADLOCK FALSE
PROPERTY EveryOperationEnds
