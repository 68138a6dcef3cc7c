\* Drivers of both widths and a library that share a release with a program.
SPECIFICATION FairSpec
CONSTANTS
  Names = {"ktask.exe", "kfdisk.sys", "kfdisk64.sys", "kshut64.dll"}
  MaxVersion = 2
INVARIANTS
  TypeOK
  SuccessIsCurrent
  SecondCopyAgrees
  RunsWhatIsInstalled
PROPERTIES
  Recovers
