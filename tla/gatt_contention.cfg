SPECIFICATION Spec
CONSTANTS
  Addrs = {a1, a2}
  Probes = {t1, t2, t3}
  Polls = {p1}
  Polled = a1
  PollOf <- OneDevicePolled
  NoTask = NoTask
  NoAddr = NoAddr
  MaxConcurrent = 2
  MaxRetries = 1
SYMMETRY Symmetry
CONSTRAINT OneConfirmed
INVARIANTS TypeOK SlotConservation NoLostWakeup LineIsSuspended PendingIsTracked
PROPERTIES CancelledNeverReports ReachableUntilStopped PoolImplemented
