SPECIFICATION LinksSpec
CONSTANTS
  Addrs = {a1}
  Probes = {t1}
  Polls = {p1}
  PollOf <- OneDevicePolled
  Polled = a1
  NoTask = NoTask
  NoAddr = NoAddr
  MaxConcurrent = 2
  MaxRetries = 1
  MaxAdapters = 1
  MaxLinks = 1
INVARIANT OpenOnlyWhileUsed
