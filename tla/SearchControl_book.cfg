SPECIFICATION Spec
CONSTANTS
  MaxThreads = 2
  MaxPly = 3
  MaxGoes = 2
  Goes <- BookGoes
  Commands = {"option"}
  Disciplined = TRUE
PROPERTIES HoldsBestmove
