\* One tab whose context may be exhausted, one prompt that may be retried and the
\* new chat that replaces its own.
SPECIFICATION FairSpec
CONSTANTS
  Tabs = {1}
  MaxJobs = 2
  Prompts = 1
  Marked = {}
  RetryBudget <- MCRetryBudget
  Notices = {"exhausted"}
  FirstChats = {"answered"}
  MaxTurns = 1
  MaxReloads = 0
  Lapses = FALSE
  Lossy = {}
CHECK_DEADLOCK FALSE
PROPERTY PollingResumes
