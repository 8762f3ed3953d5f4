SPECIFICATION TimerSpec
CONSTANTS
  HubInterval = 3
  Overrides = {0, 1, 5}
  Cooldown = 4
  MaxQuiet = 1
  Horizon = 16
  MaxLeftover = 2
INVARIANTS TimerTypeOK PolledWithinTwo
PROPERTIES PollsSpaced NoneBeginsDisabled
