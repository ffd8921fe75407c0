CONSTANTS
  s1 = s1
  s2 = s2
  NoService = NoService
  NonNumeric = NonNumeric
  Undefined = Undefined
  Services <- MCOneService
  HasDataPath <- MCHasDataPath
  KeyLoaded <- MCKeyLoaded
  KeyFileExists <- MCKeyFileExists
  TorVersions <- MCNewVersions
  TorMethods <- MCNullMethods
  MaxPending = 1
  MaxEvents = 1
SPECIFICATION Spec
PROPERTY ConnectingResolves
