\* Two publishers, two sockets that come and go, channels of one envelope.
SPECIFICATION HubSpec
CONSTANTS
  c1 = c1
  c2 = c2
  S1 = S1
  S2 = S2
  Star = Star
  NoConn = NoConn
  Publishers = {p1, p2}
  p1 = p1
  p2 = p2
  Conns = {c1, c2}
  Sessions = {S1, S2}
  SessOf <- MCSessOf
  QueueCap = 1
  MaxPublished = 2
  ReplayDepth = 1
SYMMETRY Symmetry
INVARIANT OfferedOnce
PROPERTY FanoutIsComplete
\* The process stops when the runtime ends it, and when all sockets have gone.
CHECK_DEADLOCK FALSE
