CONSTANTS
  Callers = {c1, c2}
  Services = {s1}
  Zones = {z1}
  Addrs = {a1, a2}
  InformerLag = FALSE
  MaxRev = 3
SPECIFICATION Spec
PROPERTY DeletedWasEmptied
