CONSTANTS
  f1 = f1
  f2 = f2
  NoPath = NoPath
  Absent = Absent
  Files <- MCFiles
  IsTorrc <- MCIsTorrc
  Keys <- MCKeys
  InitialLines <- MCInitialLines
  MaxLines = 2
  WriteCanFail = TRUE
SPECIFICATION Spec
INVARIANT SuccessWritesKeptLines
CHECK_DEADLOCK FALSE
