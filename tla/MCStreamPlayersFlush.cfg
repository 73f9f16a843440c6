SPECIFICATION Spec
CONSTANTS
  MaxPackets <- OnePacket
  MaxSyncs = 1
  MaxCalls = 3
INVARIANT AudioFlushIsComplete
CHECK_DEADLOCK FALSE
