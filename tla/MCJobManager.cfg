SPECIFICATION Spec
CONSTANTS
  j1 = j1
  j2 = j2
  j3 = j3
  j4 = j4
  qa = qa
  Nil = Nil
  NoQueue = NoQueue
  Job <- FourJobs
  Id <- SharedId
  QueueName <- OneQueue
  Queue <- TwoQueued
  Caller <- J1RunsJ4
  Except <- OnlyJ1
  MaxJobs = 2
INVARIANTS
  MapAccurate
  ShutdownReaches
PROPERTIES
  ImplementsSchedule
CHECK_DEADLOCK FALSE
