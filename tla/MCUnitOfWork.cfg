SPECIFICATION Spec
CHECK_DEADLOCK FALSE
CONSTANTS
  c1 = c1
  c2 = c2
  c3 = c3
  d1 = d1
  d2 = d2
  m1 = m1
  m2 = m2
  Calls = {c1, c2, c3}
  Documents = {d1, d2}
  Messages = {m1, m2}
  Subject <- const_Subject
  Announces <- const_Announces
  MaxAttempts = 2
INVARIANTS
  TypeOK
  WriteIffEvents
  TruthfulAnswer
PROPERTIES
  ImplementsAtomic
