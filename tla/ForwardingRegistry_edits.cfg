SPECIFICATION Spec
CONSTANTS
  Requests = {r1, r2}
  Rules = {a, b}
  Absent = Absent
  Broken = Broken
  MaxEdits = 1
  MaxFaults = 1
SYMMETRY Symmetric
INVARIANTS
  UniqueRules
  IInv
PROPERTIES
  OwnChangeLands
  FreshSaveIsAtomic
