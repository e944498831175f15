SPECIFICATION Spec
CONSTANTS
  k1 = k1
  k2 = k2
  k3 = k3
  a = a
  b = b
  f1 = f1
  f2 = f2
  Keys = {k1, k2, k3}
  Moves = {a, b}
  Depths = {1, 2}
  Files = {f1, f2}
  NoFile = NoFile
  DefaultFile = f1
  MaxVisits = 2
  MaxEntries = 2
  InitialDisk <- Disks
  MaxSearches = 2
INVARIANTS TypeOK StoreConsistent FileHoldsTable
PROPERTIES ReadonlyNeverWrites OnlyLearns
