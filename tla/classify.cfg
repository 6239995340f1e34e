CONSTANTS
  Alphabet = {"x", "SP", "CR", "LF"}
  MaxLen = 4
SPECIFICATION Spec
INVARIANT AcceptedIffSame
CHECK_DEADLOCK FALSE
