SPECIFICATION FairSpec
CONSTANTS
  Events = {"failed", "halted", "charged", "paid"}
  Payload <- MCPayload
  Customers = {"pay", "sub"}
  Seeded = {"sub"}
  Handlers = {h1, h2}
  MaxRetries = 2
  MaxFaults = 2
INVARIANTS
  EventsTakeEffectOnce
PROPERTIES
  EventsGetThrough
CHECK_DEADLOCK FALSE
