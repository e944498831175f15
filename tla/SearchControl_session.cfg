SPECIFICATION FairSpec
CONSTANTS
  MaxThreads = 2
  MaxPly = 3
  MaxGoes = 2
  Goes <- AllGoes
  Commands = {"newgame", "threads"}
  Disciplined = TRUE
PROPERTIES EveryGoAnswered ImplementsProtocol
