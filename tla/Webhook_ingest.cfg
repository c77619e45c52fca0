SPECIFICATION MCSpec
CONSTANTS
  h1 = h1
  h2 = h2
  h3 = h3
  m1 = m1
  read = read
  error = error
  reaction = reaction
  Handlers = {h1, h2, h3}
  Messages = {m1}
  Acks = {read, error}
  AckOf <- MCAckOf
  MessageOf <- MCMessageOf
  Reactions = {reaction}
  None = None
  MaxTime = 3
  MaxFaults = 2
INVARIANTS
  IInv
  EvidenceIsHighestAck
  AnsweredStatusReflected
  StatusConverges
  ReactionTriggeredOnce
PROPERTIES
  DeliveriesAnswered
