SPECIFICATION FairSpec
CONSTANTS
  j1 = j1
  j2 = j2
  j3 = j3
  j4 = j4
  qa = qa
  Nil = Nil
  NoQueue = NoQueue
  Job <- FourJobs
  Id <- OwnId
  QueueName <- OneQueue
  Queue <- ThreeQueued
  Caller <- J1RunsJ4
  Except <- OnlyJ1
  MaxJobs = 5
INVARIANTS
  QueueExclusion
PROPERTIES
  SubmittedStarts
CHECK_DEADLOCK FALSE
