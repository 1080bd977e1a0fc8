SPECIFICATION Spec
CONSTANTS
  Caller = {c1, c2}
  Urls = 2
  Attempt = 3
  Wait = 4
  Interval = 3
  Restarts = TRUE
  MaxVersion = 1
  MaxRefreshes = 3
  MaxTime = 8
CHECK_DEADLOCK FALSE
PROPERTY AnswersWithResult
