--------------------------- MODULE MC_StatusParsing ---------------------------
EXTENDS StatusParsing

CONSTANTS p9050, p9150   \* two SOCKS ports

\* Summaries of up to two characters over a letter, a blank, a quote and a
\* backslash: every pair of the characters the parsers branch on.
MCSummaries == BoundedSeq({"x", SP, Q, BS}, 2)
MCProgresses == {"50", "100"}

MCPorts == {p9050, p9150}
\* The loopback address the control socket points at, and another one.
Loopback == <<"127.0.0.1">>
Lan      == <<"10.0.0.1">>
MCPeerAddr == Loopback

\* No listener (DisableNetwork), one at the peer, the peer's after
\* another's, and only others: a first Tor and the one that replaces it
\* can differ in every way the loop tells apart.
MCListeners ==
  { <<>>,
    << [addr |-> Loopback, port |-> p9050] >>,
    << [addr |-> Lan, port |-> p9150], [addr |-> Loopback, port |-> p9050] >>,
    << [addr |-> Lan, port |-> p9050], [addr |-> Lan, port |-> p9150] >> }
=============================================================================
