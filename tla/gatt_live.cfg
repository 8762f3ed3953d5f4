SPECIFICATION SteadySpec
CONSTANTS
  Addrs = {a1, a2}
  Probes = {t1, t2}
  Polls = {p1}
  Polled = a1
  PollOf <- OneDevicePolled
  NoTask = NoTask
  NoAddr = NoAddr
  MaxConcurrent = 2
  MaxRetries = 1
PROPERTIES PollServed PendingClears StopTerminates
