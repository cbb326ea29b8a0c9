\* A handler slower than the sender waits; nothing dies and no write is lost.
SPECIFICATION ChannelSpec
CONSTANTS
  x = x
  y = y
  NoDelivery = NoDelivery
  NoRequest = NoRequest
  NoAnnounced = NoAnnounced
  Endpoints = {"ep"}
  Announced = {"e1"}
  Workers = {x}
  Operators = {"op"}
  MaxDeliveryAttempts = 3
  ClientErrorMax = 2
  MaxReplays = 0
  MaxDeliveryFaults = 0
  Requests = {x, y}
  MaxAppFaults = 0
INVARIANTS
  DecisionNotLost
CHECK_DEADLOCK FALSE
