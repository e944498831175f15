SPECIFICATION FairSpec
CONSTANTS
  Clients = {c1}
  Owner = c1
  Worker = w
  MaxJobs = 4
INVARIANTS TypeOK IdleMeansQuiescent
PROPERTIES WaitSeesEveryJob CallsReturn ImplementsJobSlot
