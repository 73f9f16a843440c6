SPECIFICATION FairSpec
CONSTANTS
  c1 = c1  c2 = c2
  Clients = {c1, c2}
  Engine = engine
  Sends <- MCSends
  MaxMessages = 3
INVARIANTS ATypeOK NoUseAfterRecycle LostByPurgeOut
PROPERTIES ImplementsCalls SentMessagesComeBack
CHECK_DEADLOCK FALSE
