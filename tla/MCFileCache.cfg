\* A file one byte longer than the ring; the closed file is the end.
CONSTANTS
  m_size = 4
  m_size_back = 1
  FileSize = 5
  SeekMargin = 2
  m_chunkSize = 2
SPECIFICATION FSpec
CHECK_DEADLOCK FALSE
INVARIANT FTypeOK
INVARIANT Window
INVARIANT NoStarvation
INVARIANT ReadsTheFile
PROPERTY BackBufferKept
PROPERTY CacheUsedInOrder
