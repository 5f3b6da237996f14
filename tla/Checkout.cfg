SPECIFICATION FairCheckoutSpec
CONSTANTS
  None = None
  Guest = Guest
  u1 = u1
  u2 = u2
  b1 = b1
  s1 = s1
  o1 = o1
  Seats = {s1}
  Users = {u1, u2}
  OrderIds = {o1}
  Browsers = {b1}
  Slots = {1}
  Outsiders = {u2}
  Members = {u1}
  MaxPolls = 2
  MaxNews = 2
  Lossy = TRUE
INVARIANTS CheckoutTypeOK PassesArePaid
PROPERTIES MonitorEnds 
CHECK_DEADLOCK FALSE
