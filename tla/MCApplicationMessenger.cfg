SPECIFICATION FairSpec
CONSTANTS
  s1 = s1
  w1 = w1
  Senders = {s1, w1}
  Workers = {w1}
  MaxMessages = 3
  MaxDepth = 2
INVARIANTS MTypeOK AnswerOrMessage
PROPERTIES SendersReturn StopEnds
CHECK_DEADLOCK FALSE
