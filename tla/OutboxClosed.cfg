SPECIFICATION FairOutboxSpec
CONSTANTS
  None = None
  r1 = r1
  r2 = r2
  Events = {1}
  Relays = {r1}
  Take = 1
  Prefetch = 1
  Faults = {"broker"}
  MaxFaults = 1
PROPERTIES EveryRecordIsRelayed
