CONSTANTS
  u1 = u1  u2 = u2  b1 = b1  b2 = b2
  r1 = r1  r2 = r2  r3 = r3  r4 = r4  r5 = r5  r6 = r6
  NoUser = NoUser
  NoBrowser = NoBrowser
  Users <- TwoUsers
  Browsers = {b1}
  Requests = {r1, r2, r3, r4, r5, r6}
  MaxOverlap = 1
  Sites <- OneSite
  IdleTimeout = FALSE
SPECIFICATION Spec
SYMMETRY Symmetry
INVARIANTS SomeChangeRetiresSecret
