SPECIFICATION FairLifecycleSpec
CONSTANTS
  Devices = {d1, d2}
  MaxHubs = 3
INVARIANTS LifecycleTypeOK OneListener LoadedIsServed TimersServed ActiveIsServed
PROPERTIES RetrySucceeds
