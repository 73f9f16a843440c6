CONSTANTS
  m_size = 2
  m_size_back = 0
  FileSize = 4
  SeekMargin = 1
  m_chunkSize = 1
SPECIFICATION FLiveSpec
CHECK_DEADLOCK FALSE
PROPERTY CloseReturns
