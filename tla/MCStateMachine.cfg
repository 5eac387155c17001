SPECIFICATION Spec
CONSTANTS
  Chars = {"DEL", "BEL", "LF", "CSI", "OSC", "9", ";", "SP", "?", ":", "[", "]", "P", "O", "X", "BACKSLASH", "Y", "u", "ESC", "CAN"}
  Engines = {"output", "input"}
  MaxValue = 50
  MaxCount = 2
  MaxCollect = 1
  MaxSeq = 5
  MaxString = 4
  MaxText = 2
INVARIANTS TypeOK TextInOrder WholeSequencePassed DataMatchesSequence
