SPECIFICATION LiveSpec
CONSTANTS
  t1 = t1
  t2 = t2
  svc = svc
  Threads = {t1, t2, svc}
  Service = svc
  Signalled = {t1, svc}
  Fds = {3, 4, 5, 6}
  OpenMax = 4
  Capacity = 2
  MaxRequests = 5
PROPERTY HandlerReturns
CHECK_DEADLOCK FALSE
