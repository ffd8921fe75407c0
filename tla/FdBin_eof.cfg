CONSTANTS
  c1 = c1
  c2 = c2
  A = A
  NL = NL
  Conns <- MCOneConn
  InBytes <- MCInBytes
  ReadSize = 2
  MaxScript = 1
  MaxSend = 2
  MaxRead = 3
SPECIFICATION Spec
INVARIANT BytesReachTheirPeer
