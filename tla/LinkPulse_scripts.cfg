SPECIFICATION Spec
CONSTANTS
  Paths = {p1, p2, p3, p4}
  Interfaces = {eth0, eth1}
  Addresses = {a1, a2, a3, a4}
  Pids = {c1, c2}
  ScriptNum = 3
  None = None
SYMMETRY MCSymmetry
INVARIANTS
  TypeOK
  VectorsOwned
PROPERTIES
  ListenerSpec
