SPECIFICATION Spec
CONSTANTS
  alice = alice
  bob = bob
  ns1 = ns1
  ns2 = ns2
  Names = {alice, bob}
  Nobody = Nobody
  Address = {ns1, ns2}
  Unset = Unset
  Malformed = Malformed
  Surroundings <- Roles
  Requests <- MCRequests
CHECK_DEADLOCK FALSE
INVARIANT DefaultRoleHolds
