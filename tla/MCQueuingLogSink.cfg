SPECIFICATION FairSpec
CONSTANTS
  Loggers = {main_thread, job, unfreezer}
  Unfreezer = unfreezer
  LINES_TO_BUFFER = 1
  MaxMessages = 5
  MaxFreezes = 2
CHECK_DEADLOCK FALSE
INVARIANTS
  NothingLost
  LastWordsWritten
PROPERTIES
  FreezeEnds
  WriterServes
