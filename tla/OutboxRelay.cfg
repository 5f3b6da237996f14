SPECIFICATION FairOutboxSpec
CONSTANTS
  None = None
  r1 = r1
  r2 = r2
  Events = {1, 2}
  Relays = {r1, r2}
  Take = 1
  Prefetch = 1
  Faults = {"crash", "broker", "wipe", "database"}
  MaxFaults = 1
INVARIANTS OutboxTypeOK BatchIsPending SentOncePerInterruption PublishedIsKept
PROPERTIES RecordIsRelayed EventIsIndexed IsDelivery
