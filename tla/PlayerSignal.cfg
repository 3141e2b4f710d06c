SPECIFICATION Spec
CONSTANTS
  s1 = s1
  s2 = s2
  Songs = {s1, s2}
  Start <- MCStart
  Length <- MCLength
  Seekable = {s1}
  Broken = {}
  BufferChunks = 3
  BeforePlay = 1
  OutputLimit = 2
  FadeChunks = 1
  OutputMayFail = FALSE
  MaxCommands = 2
  None = None
PROPERTIES CommandsComplete
CHECK_DEADLOCK FALSE
