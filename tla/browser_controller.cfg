\* One tab with an earlier answer on its page, one prompt that may be sent
\* twice, and requests to the bridge that are lost or whose reply is.
SPECIFICATION Spec
CONSTANTS
  Tabs = {1}
  MaxJobs = 1
  Prompts = 1
  Marked = {1}
  RetryBudget <- MCNoBudget
  Notices = {}
  FirstChats = {"answered"}
  MaxTurns = 3
  MaxReloads = 0
  Lapses = FALSE
  Lossy = {"controller", "inspection"}
CHECK_DEADLOCK FALSE
INVARIANT TypeOK
INVARIANT OwnAnswer
PROPERTY SentOncePerClaim
