SPECIFICATION InstanceSpec
CONSTANTS
  u1 = u1  u2 = u2  b1 = b1  b2 = b2
  r1 = r1  r2 = r2  r3 = r3  t1 = t1  t2 = t2  t3 = t3
  h1 = h1  h2 = h2  h3 = h3  h4 = h4  h5 = h5
  Users <- TwoUsers
  Browsers = {b1, b2}
  Requests = {r1, r2, r3}
  Kinds <- AllKinds
  Tokens = {t1, t2, t3}
  Hashes = {h1, h2, h3, h4, h5}
  NoToken = NoToken  NoUser = NoUser  NoHash = NoHash
  NoBrowser = NoBrowser  Keep = Keep
  IdleTimeout = TRUE
  MaxFaults = 1
  MaxAdmin = 1
  InitialHash <- FirstHash
  Instances <- Accounts
SYMMETRY Symmetry
INVARIANTS ServedIdentityProved OneUserPerToken RevocationHonoured DeactivationHonoured LinkNotReplayed
PROPERTY DeadStaysDead
