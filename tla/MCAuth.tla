------------------------------- MODULE MCAuth -------------------------------
EXTENDS Auth, TLC

CONSTANTS a1, a2, p1, p2, c1, c2, c3, c4

Symmetry == Permutations(Emails) \cup Permutations(Passwords) \cup Permutations(Calls)
=============================================================================
