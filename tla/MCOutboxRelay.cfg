SPECIFICATION Spec
CONSTANTS
  Rows = {1, 2}
  Workers = {w1, w2}
  OccurredAt <- const_OccurredAt
  AggregateOf <- const_AggregateOf
  BatchSize = 2
  LeaseFor = 1
  Backoffs = {1}
  Closable = {w1}
  MaxStall = 2
  MaxFaults = 2
INVARIANTS
  TypeOK
  PublishedWasAccepted
  DuplicatesHaveACause
PROPERTIES
  EveryRowIsPublished
