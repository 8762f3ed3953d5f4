SPECIFICATION DiscoverySpec
CONSTANTS
  Addrs = {a1, a2, a3}
  Probes = {t1}
  Polls = {}
  PollOf <- OneDevicePolled
  Polled = NoAddr
  NoTask = NoTask
  NoAddr = NoAddr
  MaxConcurrent = 1
  MaxRetries = 1
  MaxSeen = 2
  MaxRejected = 1
  Sends <- AnyKind
SYMMETRY AddrSymmetry
CONSTRAINT NoneConfirmed
INVARIANTS TrackingBounded
PROPERTIES OldestEvicted
CHECK_DEADLOCK FALSE
