\* Two tasks in two versions, two blocks to an archive, one answer too late.
SPECIFICATION FairSpec
CONSTANTS
  Tasks = {1, 2}
  Versions = {1, 2}
  Blocks = 2
  Absent = Absent
  Damaged = Damaged
  NoTask = NoTask
  First = 1
  Changing = {1}
  MaxChanges = 1
  MaxStarts = 1
  MaxLate = 1
INVARIANTS
  TypeOK
  ListAgrees
  WholeArchive
  StoppedIsQuiet
PROPERTIES
  StartsOnlyComplete
  ServesCurrent
  StopsReturn
CHECK_DEADLOCK FALSE
