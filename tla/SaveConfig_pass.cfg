CONSTANTS
  f1 = f1
  f2 = f2
  NoPath = NoPath
  Absent = Absent
  Files <- MCFiles
  IsTorrc <- MCIsTorrc
  Keys <- MCKeys
  InitialLines <- MCInitialLines
  MaxLines = 2
  WriteCanFail = FALSE
SPECIFICATION Spec
PROPERTY SaveImplementsAbstract
\* The save is over once the reply is handled.
CHECK_DEADLOCK FALSE
