SPECIFICATION DiscoverySpec
CONSTANTS
  Addrs = {a1}
  Probes = {t1, t2}
  Polls = {p1, p2}
  PollOf <- OneDevicePolled
  Polled = a1
  NoTask = NoTask
  NoAddr = NoAddr
  MaxConcurrent = 2
  MaxRetries = 2
  MaxSeen = 1
  MaxRejected = 1
  Sends <- AnyKind
SYMMETRY TaskSymmetry
INVARIANTS TrackerTypeOK GivenUpAtRest SlotConservation PendingIsTracked
PROPERTIES ConfirmedNeverRejected
CHECK_DEADLOCK FALSE
