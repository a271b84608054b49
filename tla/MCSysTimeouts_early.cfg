SPECIFICATION Spec
CONSTANTS
  NULL = 0
  Word = 16
  Settings <- MCFirmware
INVARIANT TypeOK
PROPERTY NoTimerEarly
