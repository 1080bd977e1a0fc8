SPECIFICATION FairSpec
CONSTANTS
  Caller = {c1, c2}
  Urls = 2
  Attempt = 3
  Wait = 4
  Interval = 3
  Restarts = TRUE
  MaxVersion = 1
  MaxRefreshes = 2
  MaxTime = 7
CHECK_DEADLOCK FALSE
INVARIANT TypeOK
INVARIANT SingleFlight
PROPERTY NeverOlder
PROPERTY AnswersUnlessFallback
PROPERTY ForceReturns
