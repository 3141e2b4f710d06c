SPECIFICATION Spec
CONSTANTS
  s1 = s1
  s2 = s2
  Songs = {s1, s2}
  Start <- MCStart
  Length <- MCLength
  Seekable = {s1}
  Broken = {s1, s2}
  BufferChunks = 3
  BeforePlay = 1
  OutputLimit = 1
  FadeChunks = 1
  OutputMayFail = TRUE
  MaxCommands = 3
  None = None
INVARIANTS Sound PlayedInOrder
PROPERTIES CommandsCompleteOrMissed PlaybackEnds
CHECK_DEADLOCK FALSE
