SPECIFICATION Spec
CONSTANTS
  p1 = p1
  p2 = p2
  p3 = p3
  i1 = i1
  i2 = i2
  MaxVoices = 4
  MaxDrumTriggers = 3
  Life = 4
  Pitches = {p1, p2, p3}
  MaxDown = 2
  Instances = {i1, i2}
  Midi <- Blocks
  None = None
INVARIANTS
  TypeOK
  NothingSticks
  HeldNotesSound
  OldestIsStolen
  CallsAreBalanced
CHECK_DEADLOCK FALSE
