CONSTANTS
  c1 = c1
  c2 = c2
  A = A
  NL = NL
  Conns <- MCOneConn
  InBytes <- MCInBytes
  ReadSize = 2
  MaxScript = 3
  MaxSend = 3
  MaxRead = 3
SPECIFICATION Spec
INVARIANT CountersMatchBuffers
PROPERTY InboundIsFifo
PROPERTY OutboundIsFifo
