SPECIFICATION Spec
CHECK_DEADLOCK FALSE
CONSTANTS
  h1 = h1
  h2 = h2
  p1 = p1
  p2 = p2
  Messages = {m1}
  Handlers = {h1, h2, h3}
  Pods = {p1, p2}
  PodOf <- const_PodOf
  NoMessage = NoMessage
  NoPod = nobody
  DeliveryLimit = 3
  MaxCopies = 3
  MaxFaults = 2
INVARIANTS
  TypeOK
  DoneIffRecorded
  NoMessageIsLost
  OnceWhileLeasesLast
PROPERTIES
  EveryMessageIsSettled
