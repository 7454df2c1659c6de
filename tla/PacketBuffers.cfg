SPECIFICATION Spec
CONSTANTS
  NumSlots = 2
  NumCookies = 3
  OverwriteSecs = 1
  TicksPerSec = 1
  MaxUid = 3
  MaxCopies = 1
  MaxNow = 3
CHECK_DEADLOCK FALSE
INVARIANTS
  BooksAgree
PROPERTIES
  AnswerGetsItsPacket
  SendsOwnPacket
