CONSTANTS
  p1 = p1  p2 = p2
  NoParticipant = NoParticipant
  Participants = {p1, p2}
  RingCapacity = 1
  MaxHandle = 2
SPECIFICATION FairSpec
INVARIANTS ParkedIsIndexed
PROPERTIES DrainedIsDelivered EndsOnce ReadinessIsServed
