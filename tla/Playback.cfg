SPECIFICATION Spec
CONSTANTS
  Docs <- MCDocs
  Seeks <- MCSeeks
  Frames = {1, 2, 4}
  MaxFrames = 3
  LiveNote = LiveNote
  p1 = p1
  p2 = p2
  MaxPos = 16
  MaxLive = 2
  None = None
INVARIANTS
  NoTickIsSkipped
  EventsFitTheBlock
  PlayedNotesEnd
  StopSilences
