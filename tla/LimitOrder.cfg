CONSTANTS
  Clients = {"c1"}
  Proxies = {"p1", "p2"}
  Addresses = {"c1", "c2", "p1", "p2"}
  Sites <- Ambiguous
SPECIFICATION Spec
INVARIANT MapOrderNeverDecides
