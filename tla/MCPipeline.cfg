SPECIFICATION Spec
CONSTANTS
  h1 = h1
  h2 = h2
  p1 = p1
  p2 = p2
  Events = {m1}
  Workers = {w1}
  OccurredAt <- const_OccurredAt
  AggregateOf <- const_AggregateOf
  BatchSize = 1
  LeaseFor = 1
  Backoffs = {1}
  MaxStall = 2
  MaxRelayFaults = 1
  Handlers = {h1, h2}
  Pods = {p1, p2}
  PodOf <- const_PodOf
  NoMessage = NoMessage
  NoPod = NoPod
  DeliveryLimit = 2
  MaxInboxFaults = 2
INVARIANTS
  PublishedIsInGoodHands
PROPERTIES
  ImplementsDelivery
