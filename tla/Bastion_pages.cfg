SPECIFICATION FairBastionSpec
CONSTANTS
  a = a
  Requests = {r1, r2}
  Rules = {a}
  Bad = {}
  Absent = Absent
  Broken = Broken
  Wanted <- MCWanted
  Existing <- MCExisting
  MaxArrivals = 2
  MaxEdits = 1
  MaxFaults = 0
  MaxMisreads = 0
  MaxDeaths = 0
  MaxGeneration = 1
INVARIANTS
  OneRestartPerRaise
PROPERTIES
  ContainerIsOpen
  OpensOnRequest
  RevocationTakesEffect
  RaiseEndsSessions
