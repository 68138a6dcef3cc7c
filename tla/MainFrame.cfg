\* Two screens over the home screen, one message box at a time.
SPECIFICATION FairSpec
CONSTANTS
  Screens = {s1, s2}
  Home = Home
  None = None
  Buttons = {ok}
INVARIANTS
  TypeOK
  NothingDangles
  TopAtRest
  LockedBoxMoves
PROPERTIES
  NoNewAnswer
  LeftIsRemoved
  BoxGoes
\* destroy() ends it.
CHECK_DEADLOCK FALSE
