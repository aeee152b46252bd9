SPECIFICATION FairSpec
CONSTANTS
  Jobs <- ThreeJobs
  Resumes = {"r"}
  Submitters = {"s1", "s2"}
  Workers <- Pool
  Plans <- AllPlans
  StackCap = 2
  Batch = 2
  Half = 4
  None = None
INVARIANTS JobsAccounted StopSettles
PROPERTIES CallsReturn AcceptedRuns
CHECK_DEADLOCK FALSE
