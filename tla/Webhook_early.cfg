SPECIFICATION Spec
CONSTANTS
  h1 = h1
  h2 = h2
  h3 = h3
  m1 = m1
  read = read
  error = error
  Handlers = {h1, h2, h3}
  Messages = {m1}
  Acks = {read, error}
  AckOf <- MCAckOf
  MessageOf <- MCMessageOf
  Reactions = {}
  None = None
  MaxTime = 0
  MaxFaults = 1
SYMMETRY MCSymmetry
INVARIANTS
  EarlyAckCounts
