\* Two reads and a write at a time, a buffer of two bytes filled by at most
\* two, and four bytes from the peer.
SPECIFICATION Spec
CONSTANTS
  Reads = {r1, r2}
  Writes = {w1}
  MaxBuffer = 2
  MaxChunk = 2
  MaxBytes = 4
  Nobody = Nobody
INVARIANTS
  TypeOK
  NothingLost
  BufferBounded
PROPERTIES
  NilOnlyAtEnd
  ReadsEnd
  ReaderEnds
  CloseReturns
  IsStream
CHECK_DEADLOCK FALSE
