\* Four guests, six steps each.
SPECIFICATION Spec
CONSTANTS
  Entries <- mcEntries
  Frames <- mcFrames
  Half = 4
  MaxTime = 6
  Guests <- mcGuests
CHECK_DEADLOCK FALSE
INVARIANTS
  TypeOK
  TranslationIsWalk
  ContextSafe
PROPERTIES
  NoEscalation
  TimerPreempts
  UserConfined
