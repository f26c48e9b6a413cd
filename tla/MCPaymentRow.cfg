SPECIFICATION Spec
CHECK_DEADLOCK FALSE
CONSTANTS
  k1 = k1
  k2 = k2
  order = order
  Attempts = {a1, a2}
  Keys = {k1, k2}
  Orders = {order}
  OrderOf <- const_OrderOf
  Amounts = {100, 200}
  NoAmount = NoAmount
  Commands <- const_Commands
INVARIANTS
  NoSecondCaptureRow
