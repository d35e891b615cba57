SPECIFICATION FairSpec
CONSTANTS
  Tasks <- MCTasks
  Messages <- MCMessages
  Calls <- MCCalls
  HistoryWindow = 3
  Posts = 2
  MaxRounds = 3
  MaxFaults = 1
INVARIANTS
  TypeOK
  CarriedOutOnce
  AnswerReadBeforeNext
  PromptUpToDate
  ExitTellsTruth
  AutoDecides
PROPERTIES
  EverythingSettles
