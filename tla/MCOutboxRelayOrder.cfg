SPECIFICATION Spec
CONSTANTS
  Rows = {1, 2}
  Workers = {w1, w2}
  OccurredAt <- const_OccurredAt
  AggregateOf <- const_AggregateOf
  BatchSize = 2
  LeaseFor = 1
  Backoffs = {1}
  Closable = {}
  MaxStall = 2
  MaxFaults = 1
INVARIANTS
  PerAggregateOrder
