SPECIFICATION SteadySpec
CONSTANTS
  Addrs = {a1, a2}
  Probes = {t1}
  Polls = {p1, p2}
  PollOf <- OnePollEach
  Polled = NoAddr
  NoTask = NoTask
  NoAddr = NoAddr
  MaxConcurrent = 2
  MaxRetries = 2
  MaxSeen = 2
  MaxRejected = 2
  Sends <- ConnectableOnly
PROPERTIES VerdictReached DiscoveryResumes
