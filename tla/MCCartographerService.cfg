SPECIFICATION Spec
CONSTANTS
  Services = {a, b}
  Sources = {x, y}
  Host = Host
  NoRequest = None
  Overlap = FALSE
  IgnoresPipe = FALSE
  MaxRequests = 2
  MaxAsked = 2
INVARIANTS
  AnswersMatch
PROPERTIES
  ImportsEnd
CHECK_DEADLOCK FALSE
