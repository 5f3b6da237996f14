SPECIFICATION AuthSpec
CONSTANTS
  None = None
  a1 = a1
  a2 = a2
  p1 = p1
  p2 = p2
  c1 = c1
  c2 = c2
  c3 = c3
  c4 = c4
  Emails = {a1, a2}
  Passwords = {p1, p2}
  Calls = {c1, c2, c3, c4}
  MaxMs = 2
SYMMETRY Symmetry
INVARIANTS AuthTypeOK OneAccountPerEmail TokenNamesItsAccount
CHECK_DEADLOCK FALSE
