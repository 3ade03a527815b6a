SPECIFICATION Spec
CONSTANTS
  t1 = t1
  t2 = t2
  u1 = u1
  u2 = u2
  u3 = u3
  c1 = c1
  c2 = c2
  c3 = c3
  a1 = a1
  a2 = a2
  TcpIds = {t1, t2}
  UdpIds = {u1, u2, u3}
  ConnectionIds = {c1, c2, c3}
  Address = {a1, a2}
  Remote = a1
SYMMETRY MCSymmetry
INVARIANTS
  TypeOK
  Registered
  PrivateListeners
  ListenersStay
