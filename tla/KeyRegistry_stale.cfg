SPECIFICATION Spec
CONSTANTS
  Requests = {r1, r2}
  Users = {u1}
  Keys = {k1}
  Texts = {t1}
  FirstKey <- MCFirstKey
  KeysIn <- MCKeysIn
  NoKey = NoKey
  Absent = Absent
  MaxFaults = 0
  MaxKills = 0
  k1 = k1
  k2 = k2
  t1 = t1
  t2 = t2
INVARIANTS
  AllEnabledRendered
