SPECIFICATION FairSpec
CONSTANTS
  Writers = {w1, w2}
  Files = {f1}
  Contents = {c1, c2}
  Names = {n1, n2}
  Absent = Absent
  Torn = Torn
  NoName = NoName
INVARIANTS
  IInv
  NeverTorn
PROPERTIES
  LeavesNoTemps
  Atomic
  EveryCallReturns
