\* The durable control plane with crashes, failed saves, backups and restores.
SPECIFICATION Spec
CONSTANTS
  unseat = unseat
  reset = reset
  NoFile = NoFile
  Empty = Empty
  Damaged = Damaged
  Absent = Absent
  Nothing = Nothing
  Op <- Ops
  Reset <- reset
  FixtureRemoval <- Removals
  Mode = {"demo", "production"}
  FirstFile <- Files
  BundleName = {"first", "second"}
  MaxStarts = 2
  MaxCommands = 2
INVARIANT TypeOK
INVARIANT MemoryMatchesDisk
INVARIANT NothingHalfDoneIsKept
INVARIANT MigratedOnce
INVARIANT RestoreReportsTruth
INVARIANT ReplacedRowIsRecoverable
PROPERTY ImplementsAtomic
PROPERTY EverythingEnds
CHECK_DEADLOCK FALSE
