SPECIFICATION Spec
CONSTANTS
  NULL = 0
  Word = 16
  Settings <- MCRace
INVARIANT ListIntact
