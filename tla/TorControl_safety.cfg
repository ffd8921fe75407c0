CONSTANTS
  s1 = s1
  s2 = s2
  NoService = NoService
  NonNumeric = NonNumeric
  Undefined = Undefined
  Services <- MCServices
  HasDataPath <- MCHasDataPath
  KeyLoaded <- MCKeyLoadedAll
  KeyFileExists <- MCKeyFileMissing
  TorVersions <- MCAllVersions
  TorMethods <- MCNullMethods
  MaxPending = 3
  MaxEvents = 1
SPECIFICATION Spec
INVARIANT TypeOK
INVARIANT RepliesMatchCommands
INVARIANT OnlineImpliesPublished
INVARIANT TorStatusTracksCircuit
INVARIANT AuthenticatedSessionIsLive
