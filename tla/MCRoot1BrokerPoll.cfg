CONSTANTS
  p1 = p1  p2 = p2  p3 = p3  r1 = r1  r2 = r2  w1 = w1  w2 = w2
  NoOwner = NoOwner
  NoLease = NoLease
  Participants = {p1, p2}
  Monitored = {p1}
  Resources = {r1}
  SharedIds = {}
  Pollers = {w1}
  Ticks = {}
  NowTicks = {}
  RingCapacity = 2
  MaxToken = 2
  MaxEvents = 1

SPECIFICATION Spec
INVARIANTS NoLostWakeup GrantsInOrder
