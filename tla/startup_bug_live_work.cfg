\* Two replicas, one upload; the lock's TTL may run out once.
SPECIFICATION Spec
CONSTANTS
  None = None
  Replicas = {p1, p2}
  Documents = {d1}
  MaxExpiries = 1
PROPERTY LiveWorkKept
