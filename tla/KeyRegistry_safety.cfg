SPECIFICATION FairSpec
CONSTANTS
  Requests = {r1, r2}
  Users = {u1}
  Keys = {k1, k2}
  Texts = {t1, t2}
  FirstKey <- MCFirstKey
  KeysIn <- MCKeysIn
  NoKey = NoKey
  Absent = Absent
  MaxFaults = 1
  MaxKills = 1
  k1 = k1
  k2 = k2
  t1 = t1
  t2 = t2
INVARIANTS
  IInv
  RenderRegular
  SerialSync
PROPERTIES
  UndisturbedRender
  RequestsAdvance
  EveryRequestAnswered
