SPECIFICATION FairSpec
CONSTANTS
  MaxThreads = 2
  MaxPly = 3
  MaxGoes = 2
  Goes <- MctsGoes
  Commands = {"option"}
  Disciplined = TRUE
PROPERTIES LimitAnswered
