SPECIFICATION FairSpec
CONSTANTS
  alice = alice
  bob = bob
  ns1 = ns1
  ns2 = ns2
  Names = {alice, bob}
  Nobody = Nobody
  Address = {ns1, ns2}
  Unset = Unset
  Malformed = Malformed
  Surroundings <- MCSurroundings
  Requests <- MCRequests
CHECK_DEADLOCK FALSE
INVARIANTS
  EndsAreHeard
  StatusIsTrue
  FirstUpstream
  AdminsAreListed
PROPERTIES
  SignalEnds
  NoHalfService
