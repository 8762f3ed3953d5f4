SPECIFICATION PresentSpec
CONSTANTS
  Addrs = {a1}
  Probes = {t1, t2}
  Polls = {p1}
  PollOf <- OneDevicePolled
  Polled = a1
  NoTask = NoTask
  NoAddr = NoAddr
  MaxConcurrent = 2
  MaxRetries = 1
  MaxSeen = 1
  MaxRejected = 1
  Sends <- AnyKind
PROPERTY RediscoverableAfterRemoval
CHECK_DEADLOCK FALSE
