\* Every configuration; requests that time out and arrive later; two deaths of the process.
SPECIFICATION FairSpec
CONSTANTS
  Subtasks = {s1}
  Threads = {t1, t2, t3}
  Tabs = 1
  MaxCrashes = 2
INVARIANTS TypeOK ClaimsAreHeld OneCodexPerLife AnswersOnce
PROPERTIES AnsweredGoesAway OpenIsSeen
CHECK_DEADLOCK FALSE
