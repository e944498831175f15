SPECIFICATION Spec
CONSTANTS
  MaxThreads = 3
  MaxPly = 2
  MaxGoes = 2
  Goes <- PoolGoes
  Commands = {"newgame", "threads", "numa", "hash", "evalfile", "option"}
  Disciplined = FALSE
INVARIANTS TypeOK AnswerLedger ThreadsApart SearchesAsAsked
CHECK_DEADLOCK FALSE
