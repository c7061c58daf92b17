SPECIFICATION Spec
CONSTANTS
  Requests = {r1}
  Names = {a, b, c}
  Queries = {q1}
  NoName = NoName
  MaxFaults = 0
INVARIANT DirectAnswers
