\* One tab, one prompt that is sent, usage limits, challenges, and a reload by the
\* user.
SPECIFICATION FairSpec
CONSTANTS
  Tabs = {1}
  MaxJobs = 1
  Prompts = 1
  Marked = {}
  RetryBudget <- MCNoBudget
  Notices = {"limited", "challenge"}
  FirstChats = {"answered"}
  MaxTurns = 2
  MaxReloads = 1
  Lapses = FALSE
  Lossy = {}
CHECK_DEADLOCK FALSE
PROPERTY PollingResumes
