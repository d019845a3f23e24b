CONSTANTS
  inside = inside
  outside = outside
  IDLE_TIMEOUT = 3
  Packets <- MCPackets
  Flows <- MCFlows
SPECIFICATION Spec
PROPERTIES ImplementsPromise DeadEntriesAreFreed
