SPECIFICATION FairSpec
CONSTANTS
  Consumers = {c1}
  Messages = {1}
  Events = {e1}
  EventOf <- MCOneEventOnce
  MaxFailures = 1
  MaxRetries = 3
  Faults = {"smtp", "redis"}
  None = None
  Poison = Poison
  e1 = e1
  e2 = e2

PROPERTY RetriesEnd
