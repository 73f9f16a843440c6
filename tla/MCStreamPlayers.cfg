SPECIFICATION FairSpec
CONSTANTS
  MaxPackets <- TwoVideoPackets
  MaxSyncs = 1
  MaxCalls = 3
INVARIANTS STypeOK DataSizeIsRight PacketsInOrder NoMissedMessage FlushIsComplete
PROPERTIES NothingPastTheBarrier DrainedWhenReached PlayerComesBack
CHECK_DEADLOCK FALSE
