\* One prompt, two finish requests, two responses, every stage of a save.
SPECIFICATION HistorySpec
CONSTANTS
  p1 = p1
  n1 = n1
  r1 = r1
  r2 = r2
  h1 = h1
  h2 = h2
  MaxOps = 1
  MaxTerminal = 1
  Requests = {p1}
  PromptRequests = {p1}
  KeyedRequests = {p1}
  NoRequest = NoRequest
  Responses = {r1, r2}
  NoText = NoText
  RetryClasses = {"controller", "context"}
  RetryBudget <- MCBudget
  Stops = {0, 1, 2}
  IOErrors = FALSE
  ClaimLease = 1
  QueueTTL = 2
  LastSubmission = 1
  MaxTime = 3
  Handlers = {h1, h2}
SYMMETRY MCSymmetry
CHECK_DEADLOCK FALSE
INVARIANT TypeOK
INVARIANT CompletedPromptHasResponse
INVARIANT OneResponsePerOperation
INVARIANT ClaimsBounded
PROPERTY ClaimIsKeptForItsLease
