SPECIFICATION FairSpec
CONSTANTS
  Consumers = {c1, c2}
  Messages = {1, 2, 3, 4}
  Events = {e1, e2}
  EventOf <- MCEventsJunkAndPoison
  MaxFailures = 3
  MaxRetries = 3
  Faults = {"smtp"}
  None = None
  Poison = Poison
  e1 = e1
  e2 = e2

INVARIANTS TypeOK DeadAfterMaxRetries
PROPERTY EventuallySettled
