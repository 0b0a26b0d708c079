\* The code's durations in units of half a second.  A second goroutine is there to
\* see that it is never started beside the first.
SPECIFICATION FairSpec
CONSTANTS
  Retriers = {g1, g2}
  RetryAfter = 1
  AdjustAfter = 10
  GiveUpAfter = 30
INVARIANTS TypeOK OneRetrier RequestsKeepComing
PROPERTIES EndsWithAnswerOrSilence RetriesEnd
