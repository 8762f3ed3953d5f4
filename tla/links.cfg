SPECIFICATION LinksSpec
CONSTANTS
  Addrs = {a1}
  Probes = {t1}
  Polls = {p1, p2}
  PollOf <- OneDevicePolled
  Polled = a1
  NoTask = NoTask
  NoAddr = NoAddr
  MaxConcurrent = 2
  MaxRetries = 1
  MaxAdapters = 2
  MaxLinks = 1
INVARIANTS LinksTypeOK NoLinkLeftOpen NoBorrowedLink
SYMMETRY Symmetry
CONSTRAINT ThirdWhileCalm
