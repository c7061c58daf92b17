SPECIFICATION Spec
CONSTANTS
  Requests = {r1, r2}
  Names = {a, b}
  Queries = {q1}
  NoName = NoName
  MaxFaults = 1
SYMMETRY Symmetric
INVARIANTS
  TypeOK
  UniqueSources
  AnswerInForce
  OnlyDestinationsAsked
  OwnersRestored
PROPERTIES
  FreshSaveIsAtomic
