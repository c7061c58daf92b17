SPECIFICATION FairSpec
CONSTANTS
  Rules = {good, bad}
  Bad = {bad}
  MaxGeneration = 1
  MaxEdits = 2
  MaxFaults = 1
  MaxDeaths = 1
INVARIANTS
  IInv
  Validated
  PolicyWasAsked
PROPERTIES
  RestartOnlyOnTrigger
  SettledStays
  FailsClosed
  TriggerObeyed
  Converges
