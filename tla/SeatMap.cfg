SPECIFICATION SeatMapSpec
CONSTANTS
  None = None
  Guest = Guest
  u1 = u1
  u2 = u2
  b1 = b1
  s1 = s1
  o1 = o1
  Seats = {s1}
  Users = {u1, u2}
  OrderIds = {o1}
  Browsers = {b1}
  Slots = {1, 2}
  Outsiders = {u2}
  Members = {u1}
  MaxNews = 2
  MaxCalls = 3
  Lossy = TRUE
INVARIANTS SeatMapTypeOK HeldSeatWasGranted 
 
CHECK_DEADLOCK FALSE
