SPECIFICATION FlowSpec
CONSTANTS
  Tokens <- AllTokens
  Header <- Headers
  Uncolon <- AllColons
  Halves <- AllHalves
  Plain = 1
  Jobs <- AllJobs
  Does <- AllDoes
  Backlog = 2
  Channel = 1
  MaxFailures = 1
  Stages <- AllStages
  Values = {0, 6}
  Lengths = {1, 3}
  HistoryLength = 1
  Expiration = 2
  MaxFeeds <- Bounds
  MaxBreaks = 1
  Scenes <- AllScenes
INVARIANTS MessagesWhole SubscribersServed StreamsTold SamplesRight
PROPERTY OutputEnds
CHECK_DEADLOCK FALSE
