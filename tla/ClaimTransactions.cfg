CONSTANTS
  w1 = w1
  w2 = w2
  c1 = c1
  k1 = k1
  k2 = k2
  k3 = k3
  Workers = {w1, w2}
  Clients = {c1}
  Conns = {k1, k2, k3}
  Nobody = Nobody
  NoConn = NoConn
  NumJobs = 2
SPECIFICATION Spec
SYMMETRY Alike
INVARIANT ClaimedOnce
INVARIANT LeaseExclusive
