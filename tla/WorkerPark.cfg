SPECIFICATION FairSpec
CONSTANTS
  Workers = {w1, w2}
  Submitters = {s1}
  Stopper = stopper
  None = none
  MaxJobs = 2
  TimedPark = TRUE
  WithStop = TRUE
INVARIANTS NoSleepThroughUnpark
PROPERTIES SubmittedRuns StopJoins
CHECK_DEADLOCK FALSE
