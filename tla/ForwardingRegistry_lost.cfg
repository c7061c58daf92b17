SPECIFICATION Spec
CONSTANTS
  Requests = {r1, r2}
  Rules = {a, b}
  Absent = Absent
  Broken = Broken
  MaxEdits = 0
  MaxFaults = 0
PROPERTIES
  AcceptedChangesStay
