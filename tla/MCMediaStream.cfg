SPECIFICATION Spec
CONSTANTS
  Sources <- MCSources
  Ticks = 2
  Pitches = {1, 2}
  BufferFrames = 3
  DecodeFrames = 2
  MaxGeneration = 3
  SILENT = SILENT
  NONE = NONE
INVARIANTS PositionIsNext
PROPERTIES Plays NeverStalls
