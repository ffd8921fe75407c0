CONSTANTS
  p9050 = p9050
  p9150 = p9150
  Summaries <- MCSummaries
  Progresses <- MCProgresses
  Ports <- MCPorts
  Listeners <- MCListeners
  PeerAddr <- MCPeerAddr
  MaxLines = 2
  MaxRestarts = 1
SPECIFICATION Spec
INVARIANT BootstrapReflectsTor
INVARIANT UnquoteInvertsQuote
INVARIANT ConnectivityUsesTorsProxy
\* Tor stops sending after MaxLines messages and restarts at most
\* MaxRestarts times, and every line gets handled.
CHECK_DEADLOCK FALSE
PROPERTY ConnectivityEventually
