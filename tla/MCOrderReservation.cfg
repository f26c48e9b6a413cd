SPECIFICATION Spec
CHECK_DEADLOCK FALSE
SYMMETRY RequestSymmetry
CONSTANTS
  Orders = {o1}
  Items = {i1}
  Requests = {r1, r2}
  Editors = {e1}
  NoSession = NoSession
  NoCopy = NoCopy
  MaxVersion = 5
INVARIANTS
  TypeOK
  OneWinnerPerVersion
  HoldIsEarned
  ViewInSync
  EventsTellTheHistory
  AccurateReason
