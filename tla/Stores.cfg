CONSTANTS
  Users = {u1}
  Groups = {g1}
  Permissions = {p1}
  Clients = {c1, c2}
  MaxEdits = 1
  Requests = {r1, r2, r3}
  Lifetime = 3
  IdleTimeouts = {0, 2}
  MaxTime = 4
SPECIFICATION StoresSpec
SYMMETRY Symmetry
INVARIANTS GrantAnswersTrue DecisionWarranted LiveRowKept
PROPERTY ServedInTime
