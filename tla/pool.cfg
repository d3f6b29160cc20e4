CONSTANTS
  Callers = {c1, c2}
  Services = {s1, s2}
  Zones = {z1}
  Addrs = {a1, a2}
  InformerLag = TRUE
  MaxRev = 3
SPECIFICATION Spec
INVARIANTS PoolTypeOK PoolNeverEmpty SnapshotAgrees
PROPERTIES UpdateKeepsOthers OkMeansDone OperationsAreAtomic
SYMMETRY MCSymmetry
