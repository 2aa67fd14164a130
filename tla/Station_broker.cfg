SPECIFICATION SafetySpec
CONSTANTS
  Clients = {c1}
  Addrs = {a1}
  Proxy = a1
  MaxAttempts = 1
  Window = 1
  Threads = {t1, t2}
  NoThread = NoThread
  MaxEdits = 3
  MaxCrashes = 1
CHECK_DEADLOCK FALSE
PROPERTY BrokerKept
