SPECIFICATION Spec
CONSTANTS
  c1 = c1
  c2 = c2
  b1 = b1
  b2 = b2
  Conns = {c1, c2}
  Broadcasters = {b1, b2}
  MaxBroadcasts = 1
  Unsteady = {c1}
  MaxPings = 1
  Lengths <- MCLengths
INVARIANTS
  TypeOK
  ClosedIsForgotten
  EachIsSent
  LengthsReadBack
PROPERTIES
  FramesWhole
  BroadcastEnds
CHECK_DEADLOCK FALSE
