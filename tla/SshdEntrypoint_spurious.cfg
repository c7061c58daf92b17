SPECIFICATION Spec
CONSTANTS
  Rules = {good}
  Bad = {}
  MaxGeneration = 1
  MaxEdits = 1
  MaxFaults = 1
  MaxDeaths = 0
PROPERTIES
  OnlyTheTriggerRestarts
