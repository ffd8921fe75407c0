------------------------------- MODULE MC_FdBin -------------------------------
EXTENDS FdBin

CONSTANTS c1, c2, A

MCOneConn  == {c1}
MCTwoConns == {c1, c2}
MCInBytes  == {A, NL}
=============================================================================
