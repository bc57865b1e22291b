CONSTANTS
  c1 = c1
  c2 = c2
  c3 = c3
  c4 = c4
  Clients = {c1, c2, c3, c4}
  Deployments <- MCDeployments
  HalfInt = 2
  SizeMod = 16
SPECIFICATION FairSpec
CHECK_DEADLOCK FALSE
INVARIANTS
  DealtInTurn
  AnswersOnce
PROPERTIES
  AnswerComes
