CONSTANTS
  m_size = 4
  m_size_back = 1
  FileSize = 5
  SeekMargin = 2
  m_chunkSize = 2
SPECIFICATION FSpec
CHECK_DEADLOCK FALSE
INVARIANT SeekTellsErrors
