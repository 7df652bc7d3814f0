CONSTANTS
  p1 = p1  p2 = p2  p3 = p3  r1 = r1  r2 = r2  w1 = w1  w2 = w2
  NoOwner = NoOwner
  NoLease = NoLease
  Participants = {p1, p2, p3}
  Monitored = {}
  Resources = {r1}
  SharedIds = {p1}
  Pollers = {}
  Ticks = {1}
  NowTicks = {1}
  RingCapacity = 1
  MaxToken = 3
  MaxEvents = 0
SYMMETRY Symmetry
SPECIFICATION Spec
INVARIANTS TypeOK QueueAgreesWithWord
PROPERTIES ArbitrationSpec OnlyOwnLeaseIsRecovered
