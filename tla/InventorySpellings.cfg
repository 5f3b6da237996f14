SPECIFICATION Spec
CONSTANTS
  None = None
  t1 = t1
  t2 = t2
  t3 = t3
  e1 = e1
  u1 = u1
  u2 = u2
  w1 = w1
  w2 = w2
  Users = {u1, u2}
  Events = {e1}
  Workers = {w1, w2}
  Durations = {1}
  MaxNow = 1
  Alias <- SpellingsAlias
  EventOf <- SpellingsEventOf
  SeatsOf <- SpellingsSeatsOf
  SeedEvent <- SpellingsSeedEvent
  Ids = {t1, t2, t3}
  Calls = {"reserve", "view"}
  Faults = {"abort"}
SYMMETRY Symmetry
INVARIANTS OneHolderPerKey
