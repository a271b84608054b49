SPECIFICATION FairSpec
CONSTANTS
  InputThread = 6
  TimerThread = 6
  Pcbs = {p1, p2}
  Listen = Listen
  Rounds = 2
  Window = 2
  Commands <- MCSession
  Faults = 4
INVARIANTS RepliesOnControl RepliesInOrder ListingComplete CompletionAnswersListing
PROPERTIES FirstListCompletes
CHECK_DEADLOCK FALSE
