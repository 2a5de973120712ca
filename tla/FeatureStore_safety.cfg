SPECIFICATION Spec
CONSTANTS
  Conns = {x1, x2}
  Devices = {d1, d2}
  Apps = {a1, a2}
  Networks = {tcp}
  NoRow = norow
INVARIANTS TypeOK DerivedAgree DeviceActiveWhileOpen
PROPERTIES RestartRepairs BatchesAtomic
