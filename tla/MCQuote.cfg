SPECIFICATION Spec
CHECK_DEADLOCK FALSE
SYMMETRY Symmetry
CONSTANTS
  Tenants = {"acme", "bare"}
  Books = {"v1", "v2"}
  BookOf <- MCBookOf
  Carts <- MCCarts
  Requests = {r1, r2}
  Verifiers = {x1, x2}
  QuoteTTL = 1
  MaxTime = 2
  NoQuote = NoQuote
INVARIANTS
  TypeOK
  AsQuoted
  SameHashSameOffer
  PricedToTheHalfUnit
PROPERTIES
  HonouredUntilExpiry
  NoRevival
