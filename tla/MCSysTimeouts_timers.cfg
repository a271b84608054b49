SPECIFICATION FairSpec
CONSTANTS
  NULL = 0
  Word = 16
  Settings <- MCBoth
INVARIANTS
  ListIntact
  EachTimerOnce
  NoTimerLate
PROPERTIES
  CyclicTimersGoOn
  ConnectionsTimed
