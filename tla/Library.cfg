INIT Init
NEXT Next
CONSTANTS
  TreeNodes = 5
  TreeKeys = {1, 2, 3}
  Elems = 3
  ListValues = {1, 2, 3}
  MapKeys = {"k1", "k2", "k3"}
  MapValues = {1, 2}
  MapSlots = 2
  HashOf <- MCHash
  MaxVector = 4
  VectorValues = {1, 2, 3}
  Alphabet = {45, 47, 50, 97}
  MaxText = 4
  MaxPart = 2
  WordSize = 2
  NameSize = 3
  Typeable = {"a", "nl", "del", "esc", "eof", "0xff"}
  MaxTyped = 4
  FifoDepth = 2
  UartRing = 2
  LineSize = 3
  ScreenWidth = 4
  ScreenHeight = 4
  Word = 32768
  FontWidth = 2
  FontHeight = 2
  Font <- MCFont
  Photo <- MCPhoto
  KeyCodes = {"KEY_R", "KEY_1", "KEY_S", "KEY_U", "KEY_I", "KEY_J", "KEY_Z"}
  CursorXs = {1, 4}
  CursorYs = {0, 2, 3}
  Rects <- MCRects
  Strings1 <- MCStrings
  MaxDrawn = 6
  MaxTests = 2
INVARIANTS
  
  ListIsItsSequence
  MapIsItsFunction
  VectorIsItsSequence
  TextMatchesReference
  CommandsAreWhatWasTyped
  
CHECK_DEADLOCK FALSE
