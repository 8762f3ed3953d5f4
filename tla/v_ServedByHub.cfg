SPECIFICATION FairLifecycleSpec
CONSTANTS
  Devices = {d1}
  MaxHubs = 2
PROPERTY ServedByHub
