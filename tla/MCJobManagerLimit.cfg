SPECIFICATION FairSpec
CONSTANTS
  j1 = j1
  j2 = j2
  j3 = j3
  j4 = j4
  qa = qa
  Nil = Nil
  NoQueue = NoQueue
  Job <- ThreeJobs
  Id <- OwnId
  QueueName <- OneQueue
  Queue <- NoneQueued
  Caller <- NoCaller
  Except <- OnlyJ1
  MaxJobs = 2
PROPERTIES
  LimitIsTemporary
CHECK_DEADLOCK FALSE
