SPECIFICATION SagaSpec
CONSTANTS
  None = None
  t1 = t1
  e1 = e1
  u1 = u1
  u2 = u2
  w1 = w1
  w2 = w2
  o1 = o1
  o2 = o2
  h1 = h1
  h2 = h2
  Users = {u1, u2}
  Events = {e1}
  Workers = {w1, w2}
  Durations = {1}
  MaxNow = 1
  Ids = {t1}
  Calls = {"reserve", "release", "confirm"}
  Faults = {}
  ClientCalls = {"reserve"}
  SameMs = FALSE
  Lossy = FALSE
  OrderIds = {o1}
  Handlers = {h1, h2}
  Amounts = {"accepted"}
  Cancellable = {o1}
  Alias <- OneSeatAlias
  EventOf <- OneSeatEventOf
  SeatsOf <- OneSeatSeatsOf
  SeedEvent <- OneSeatSeedEvent
SYMMETRY Symmetry
INVARIANTS CancelledSeatIsReleased
