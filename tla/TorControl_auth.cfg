CONSTANTS
  s1 = s1
  s2 = s2
  NoService = NoService
  NonNumeric = NonNumeric
  Undefined = Undefined
  Services <- MCOneService
  HasDataPath <- MCHasDataPath
  KeyLoaded <- MCKeyLoadedAll
  KeyFileExists <- MCKeyFileMissing
  TorVersions <- MCNewVersions
  TorMethods <- MCAllMethods
  MaxPending = 1
  MaxEvents = 1
SPECIFICATION Spec
INVARIANT RepliesMatchCommands
PROPERTY AuthenticationTerminates
