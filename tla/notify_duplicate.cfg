SPECIFICATION Spec
CONSTANTS
  Consumers = {c1, c2}
  Messages = {1, 2}
  Events = {e1}
  EventOf <- MCOneEventTwice
  MaxFailures = 1
  MaxRetries = 3
  Faults = {}
  None = None
  Poison = Poison
  e1 = e1
  e2 = e2

INVARIANT OneMailPerEvent
