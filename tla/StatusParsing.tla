---------------------------- MODULE StatusParsing ----------------------------
(***************************************************************************)
(* How TorControl (src/retroshare/libretroshare/src/tor/TorControl.cpp)    *)
(* reads Tor's status text: the 650 STATUS_CLIENT lines handled by         *)
(* statusEvent and updateBootstrap, and the GETINFO status/* reply handled *)
(* by getTorInfoReply, every line of which also passes through statusEvent *)
(* (the replyLine callback getTorInfo sets), with the SOCKS endpoint the   *)
(* reply's net/listeners/socks gives.  Lines are strings over the          *)
(* characters of StrUtil; protocol words are single symbols.  Tor's side   *)
(* formats its answers as the control protocol describes.  Tor may exit    *)
(* and a new Tor start with other listeners: socketDisconnected runs in    *)
(* between.                                                                *)
(***************************************************************************)
EXTENDS Naturals, Sequences, SequencesExt, TLC, StrUtil

CONSTANTS
  Summaries,   \* the SUMMARY texts Tor may report (strings)
  Progresses,  \* the PROGRESS values after the start (one symbol each)
  MaxLines,    \* bound on the messages Tor sends
  Ports,       \* SOCKS port numbers (one symbol each; toInt gives them)
  Listeners,   \* the net/listeners/socks lists a Tor may run with: each a
               \* sequence of [addr |-> string, port |-> Ports]
  PeerAddr,    \* mSocket->peerAddress(): where the control socket points
  MaxRestarts  \* bound on Tor restarts

SP == " "

VARIABLES
  torStatus,        \* mTorStatus
  bootstrapStatus,  \* mBootstrapStatus: a function from keys to values
  wire,             \* messages from Tor not yet handled, in order
  infoRequested,    \* a GETINFO is on its way to Tor
  torPhase,         \* Tor's current bootstrap phase
  torCircuit,       \* Tor has a circuit
  sent,             \* messages Tor has sent
  reported,         \* Tor has reported a bootstrap phase
  socksAddress,     \* mSocksAddress (<<>> is empty)
  socksPort,        \* mSocksPort
  asked,            \* getTorInfo has run on this connection
  conn,             \* "open"; "closed" once Tor exited, until
                    \* socketDisconnected ran ("down")
  listeners,        \* the SOCKS listeners of the running Tor
  restarts          \* Tor restarts so far

vars == <<torStatus, bootstrapStatus, wire, infoRequested, torPhase,
          torCircuit, sent, reported, socksAddress, socksPort, asked, conn,
          listeners, restarts>>

\* The variables of the status text, which the SOCKS part leaves alone.
statusVars == <<torStatus, bootstrapStatus, torPhase, torCircuit, reported>>

Phases == [severity : {"NOTICE", "WARN"}, progress : Progresses,
           summary : Summaries]

\* Tor starts at PROGRESS=0 with a summary of its own.
StartPhase == [severity |-> "NOTICE", progress |-> "0", summary |-> <<"x">>]

-----------------------------------------------------------------------------
(* ByteArray and GetConfCommand, not under src/.                           *)

\* ByteArray::trimmed: leading and trailing blanks removed.
RECURSIVE Trimmed(_)
Trimmed(s) ==
  IF s # <<>> /\ Head(s) = SP THEN Trimmed(Tail(s))
  ELSE IF s # <<>> /\ Last(s) = SP THEN Trimmed(Front(s))
  ELSE s

\* ByteArray::toLower on the symbols a key may hold.
LowerOf == [PROGRESS |-> "progress", SUMMARY |-> "summary",
            BOOTSTRAP |-> "bootstrap", WARNING |-> "warning"]
ToLower(s) == [i \in DOMAIN s |-> IF s[i] \in DOMAIN LowerOf
                                    THEN LowerOf[s[i]] ELSE s[i]]

\* GetConfCommand::get(key): the values of the reply lines "key=value".
Get(lines, key) ==
  LET ofKey == SelectSeq(lines, LAMBDA l : Len(l) >= 2 /\ l[1] = key
                                           /\ l[2] = "=")
  IN  [i \in DOMAIN ofKey |-> SubSeq(ofKey[i], 3, Len(ofKey[i]))]

\* ByteArray::toInt: a port number, or 0 when the text is not a number.
toInt(s) == IF Len(s) = 1 /\ s[1] \in Ports THEN s[1] ELSE 0

-----------------------------------------------------------------------------
(* TorControl.cpp                                                          *)

\* One "key=value" token of updateBootstrap (lines 581-590): the key is
\* what precedes the first '=' (the whole token if there is none,
\* mid(0, -1)), lower-cased; the value is the rest, unquoted.
BootstrapEntry(tok) ==
  LET e == SelectInSeq(tok, LAMBDA c : c = "=")
  IN  IF e = 0 THEN <<ToLower(tok), <<>>>>
      ELSE <<ToLower(SubSeq(tok, 1, e - 1)),
             unquotedString(SubSeq(tok, e + 1, Len(tok)))>>

\* updateBootstrap, lines 571-601: the map is cleared, "severity" is the
\* first token, every later token is an entry (a later key overwrites an
\* earlier one).  The event sent to the host is left out.  Every caller
\* passes at least one token: statusEvent three, Tor's bootstrap-phase
\* value is never empty.
updateBootstrap(data) ==
  LET Put(m, tok) == LET kv == BootstrapEntry(tok) IN (kv[1] :> kv[2]) @@ m
  IN  FoldLeft(Put, <<"severity">> :> data[1], Tail(data))

\* statusEvent, lines 550-570, on the state [torStatus, bootstrap]: the
\* third token of the trimmed line decides.
StatusEvent(st, data) ==
  LET tokens == splitQuotedStrings(Trimmed(data), SP)
  IN  IF Len(tokens) < 3 THEN st
      ELSE LET tok2 == tokens[3] IN
           CASE tok2 = <<"CIRCUIT_ESTABLISHED">> ->
                  [st EXCEPT !.torStatus = "TorReady"]
             [] tok2 = <<"CIRCUIT_NOT_ESTABLISHED">> ->
                  [st EXCEPT !.torStatus = "TorOffline"]
             [] tok2 = <<"BOOTSTRAP">> ->
                  [st EXCEPT !.bootstrap = updateBootstrap(Tail(tokens))]
             [] OTHER -> st

\* The status/* part of getTorInfoReply, lines 425-443: circuit-established
\* equal to 1 makes Tor ready (0 changes nothing); a bootstrap-phase value
\* is split and handed to updateBootstrap.
TorInfoReply(st, lines) ==
  LET circuit   == Get(lines, "status/circuit-established")
      bootstrap == Get(lines, "status/bootstrap-phase")
      st1 == IF circuit[1] = <<"1">> THEN [st EXCEPT !.torStatus = "TorReady"]
             ELSE st
  IN  IF bootstrap = <<>> THEN st1
      ELSE [st1 EXCEPT !.bootstrap =
                  updateBootstrap(splitQuotedStrings(bootstrap[1], SP))]

\* Mutant: a listener is taken only if it is at the peer address.
ListenerStepPeerOnly(acc, add) ==
  LET value   == unquotedString(add)
      sepp    == SelectInSeq(value, LAMBDA c : c = ":")
      address == IF sepp = 0 THEN value ELSE SubSeq(value, 1, sepp - 1)
      port    == toInt(IF sepp = 0 THEN value ELSE SubSeq(value, sepp + 1, Len(value)))
  IN  IF ~acc.done /\ address = PeerAddr
        THEN [addr |-> address, port |-> port, done |-> TRUE]
        ELSE acc

\* One listener of the loop of getTorInfoReply, lines 399-412: the text
\* before the first ':' is the address (all of it if there is none,
\* mid(0, -1)), the rest the port.  The first listener is taken unless a
\* SOCKS address is already set; one at the control socket's peer address
\* is taken and ends the loop.
ListenerStep(acc, add) ==
  LET value   == unquotedString(add)
      sepp    == SelectInSeq(value, LAMBDA c : c = ":")
      address == IF sepp = 0 THEN value ELSE SubSeq(value, 1, sepp - 1)
      port    == toInt(IF sepp = 0 THEN value ELSE SubSeq(value, sepp + 1, Len(value)))
  IN  IF ~acc.done /\ (acc.addr = <<>> \/ address = PeerAddr)
        THEN [addr |-> address, port |-> port, done |-> address = PeerAddr]
        ELSE acc

\* The SOCKS part of getTorInfoReply, lines 396-413, from the endpoint
\* held before the reply.
SocksFrom(addr, port, lines) ==
  FoldLeft(ListenerStep, [addr |-> addr, port |-> port, done |-> FALSE],
           splitQuotedStrings(Get(lines, "net/listeners/socks")[1], SP))

\* hasConnectivity, lines 162-165.
hasConnectivity == torStatus = "TorReady" /\ socksAddress # <<>>

Current == [torStatus |-> torStatus, bootstrap |-> bootstrapStatus]

Apply(st) == torStatus' = st.torStatus /\ bootstrapStatus' = st.bootstrap

\* getTorInfo, lines 373-387, called once per connection by
\* authenticated (line 248): GETINFO status/circuit-established
\* status/bootstrap-phase net/listeners/socks.
getTorInfo ==
  /\ conn = "open" /\ ~asked
  /\ infoRequested' = TRUE /\ asked' = TRUE
  /\ UNCHANGED <<statusVars, wire, sent, socksAddress, socksPort, conn,
                 listeners, restarts>>

\* The next line from Tor is a 650 event, or the GETINFO reply.
EventArrived == wire # <<>> /\ Head(wire).kind = "event"
ReplyArrived == wire # <<>> /\ Head(wire).kind = "info"

\* A 650 STATUS_CLIENT line reaches statusEvent.
statusEvent ==
  /\ EventArrived
  /\ Apply(StatusEvent(Current, Head(wire).data))
  /\ wire' = Tail(wire)
  /\ UNCHANGED <<infoRequested, torPhase, torCircuit, sent, reported,
                 socksAddress, socksPort, asked, conn, listeners, restarts>>

\* The GETINFO reply: each line through statusEvent, then getTorInfoReply
\* (lines 390-443): the SOCKS endpoint, then the status keys.
getTorInfoReply ==
  /\ ReplyArrived
  /\ LET lines == Head(wire).lines
         socks == SocksFrom(socksAddress, socksPort, lines)
     IN  /\ Apply(TorInfoReply(FoldLeft(StatusEvent, Current, lines), lines))
         /\ socksAddress' = socks.addr /\ socksPort' = socks.port
  /\ wire' = Tail(wire)
  /\ UNCHANGED <<infoRequested, torPhase, torCircuit, sent, reported, asked,
                 conn, listeners, restarts>>

\* Mutant: the SOCKS endpoint of the Tor that exited is kept.
socketDisconnectedKeepsSocks ==
  /\ conn = "closed"
  /\ conn' = "down" /\ torStatus' = "TorUnknown"
  /\ UNCHANGED <<bootstrapStatus, wire, infoRequested, torPhase, torCircuit,
                 sent, reported, asked, listeners, restarts, socksAddress,
                 socksPort>>

\* socketDisconnected, lines 274-283: the Tor version and SOCKS endpoint
\* are cleared and torStatus goes back to TorUnknown; mBootstrapStatus
\* is kept.
socketDisconnected ==
  /\ conn = "closed"
  /\ conn' = "down"
  /\ socksAddress' = <<>> /\ socksPort' = 0 /\ torStatus' = "TorUnknown"
  /\ UNCHANGED <<bootstrapStatus, wire, infoRequested, torPhase, torCircuit,
                 sent, reported, asked, listeners, restarts>>

-----------------------------------------------------------------------------
(* Tor (control-spec: STATUS_CLIENT events, GETINFO status keys).          *)

\* Tor's quoted string: '"' and '\\' escaped with a backslash.
TorQuoted(s) ==
  <<Q>> \o FlattenSeq([i \in DOMAIN s |-> IF s[i] \in {Q, BS}
                                            THEN <<BS, s[i]>> ELSE <<s[i]>>])
        \o <<Q>>

\* "NOTICE BOOTSTRAP PROGRESS=p SUMMARY="..."", with WARNING="..." on a
\* WARN phase.
PhaseText(ph) ==
  << ph.severity, SP, "BOOTSTRAP", SP, "PROGRESS", "=", ph.progress, SP,
     "SUMMARY", "=" >> \o TorQuoted(ph.summary)
  \o (IF ph.severity = "WARN" THEN <<SP, "WARNING", "=">> \o TorQuoted(<<"x">>)
      ELSE <<>>)

Event(text) == [kind |-> "event", data |-> <<"STATUS_CLIENT", SP>> \o text]

\* net/listeners/socks: the listeners as quoted "addr:port" strings
\* separated by blanks.
ListenerText(ls) ==
  FlattenSeq([i \in DOMAIN ls |->
                (IF i = 1 THEN <<>> ELSE <<SP>>)
                \o TorQuoted(ls[i].addr \o <<":", ls[i].port>>)])

TorSends(m) == wire' = Append(wire, m) /\ sent' = sent + 1

\* Unchanged by the steps of a running Tor.
sessionVars == <<socksAddress, socksPort, asked, conn, listeners, restarts>>

\* Bootstrap moves to another phase; Tor reports it.
TorBootstrap(ph) ==
  /\ conn = "open" /\ sent < MaxLines /\ ph # torPhase
  /\ torPhase' = ph /\ reported' = TRUE
  /\ TorSends(Event(PhaseText(ph)))
  /\ UNCHANGED <<torStatus, bootstrapStatus, infoRequested, torCircuit,
                 sessionVars>>

\* A circuit is built or lost; Tor reports it.
TorCircuit ==
  /\ conn = "open" /\ sent < MaxLines
  /\ torCircuit' = ~torCircuit
  /\ TorSends(Event(<<"NOTICE", SP, IF torCircuit' THEN "CIRCUIT_ESTABLISHED"
                                    ELSE "CIRCUIT_NOT_ESTABLISHED">>))
  /\ UNCHANGED <<torStatus, bootstrapStatus, infoRequested, torPhase, reported,
                 sessionVars>>

\* Tor answers GETINFO with its current state.  The answer counts
\* against MaxLines but is never refused by it.
TorAnswersInfo ==
  /\ infoRequested
  /\ infoRequested' = FALSE /\ reported' = TRUE
  /\ TorSends([kind |-> "info",
               lines |-> << <<"status/circuit-established", "=",
                               IF torCircuit THEN "1" ELSE "0">>,
                            <<"status/bootstrap-phase", "=">>
                              \o PhaseText(torPhase),
                            <<"net/listeners/socks", "=">>
                              \o ListenerText(listeners) >>])
  /\ UNCHANGED <<torStatus, bootstrapStatus, torPhase, torCircuit,
                 sessionVars>>

\* Tor exits: the control socket closes and what Tor had not yet
\* delivered, and the GETINFO it had not answered, are lost.
TorExits ==
  /\ conn = "open" /\ restarts < MaxRestarts
  /\ conn' = "closed" /\ wire' = <<>> /\ infoRequested' = FALSE
  /\ UNCHANGED <<statusVars, sent, socksAddress, socksPort, asked, listeners,
                 restarts>>

\* A new Tor starts with listeners ls and the client connects to it.
TorStarts(ls) ==
  /\ conn = "down"
  /\ conn' = "open" /\ asked' = FALSE /\ listeners' = ls
  /\ torPhase' = StartPhase /\ torCircuit' = FALSE /\ reported' = FALSE
  /\ restarts' = restarts + 1
  /\ UNCHANGED <<torStatus, bootstrapStatus, wire, infoRequested, sent,
                 socksAddress, socksPort>>

-----------------------------------------------------------------------------
Init ==
  /\ torStatus = "TorUnknown" /\ bootstrapStatus = <<>>
  /\ wire = <<>> /\ infoRequested = FALSE
  /\ torPhase = StartPhase /\ torCircuit = FALSE
  /\ sent = 0 /\ reported = FALSE
  /\ socksAddress = <<>> /\ socksPort = 0 /\ asked = FALSE
  /\ conn = "open" /\ listeners \in Listeners /\ restarts = 0

Next ==
  \/ getTorInfo \/ statusEvent \/ getTorInfoReply \/ socketDisconnected
  \/ \E ph \in Phases : TorBootstrap(ph)
  \/ TorCircuit \/ TorAnswersInfo \/ TorExits
  \/ \E ls \in Listeners : TorStarts(ls)

\* The client's event loop runs every callback whose input has arrived,
\* authenticated calls getTorInfo on each connection, and Tor answers every
\* command it received; Tor's own reports need no fairness.  statusEvent
\* and getTorInfoReply are enabled exactly when their line has arrived (the
\* rest of each only assigns, and consumes the line), so their weak
\* fairness is written with that guard in place of ENABLED, which TLC
\* cannot evaluate through the recursive string operators.
Fairness ==
  /\ WF_vars(getTorInfo) /\ WF_vars(socketDisconnected) /\ WF_vars(TorAnswersInfo)
  /\ <>[]EventArrived => []<><<statusEvent>>_vars
  /\ <>[]ReplyArrived => []<><<getTorInfoReply>>_vars

Spec == Init /\ [][Next]_vars /\ Fairness

-----------------------------------------------------------------------------
\* Once every line Tor sent has been handled, bootstrapStatus() holds the
\* severity, progress and summary of Tor's current bootstrap phase (spec
\* S4), whichever of the 650 event and the GETINFO reply reported it last,
\* and whatever quotes, backslashes and blanks the summary holds:
\* splitQuotedStrings must keep a quoted value in one token, updateBootstrap
\* must split it at its first '=', and unquotedString must undo Tor's
\* escaping.  (A Tor that exited may have taken its last report with it.)
BootstrapReflectsTor ==
  (conn = "open" /\ reported /\ wire = <<>>) =>
    /\ {<<"severity">>, <<"progress">>, <<"summary">>}
         \subseteq DOMAIN bootstrapStatus
    /\ bootstrapStatus[<<"severity">>] = <<torPhase.severity>>
    /\ bootstrapStatus[<<"progress">>] = <<torPhase.progress>>
    /\ bootstrapStatus[<<"summary">>] = torPhase.summary

\* The listener the client should use: the first at the control socket's
\* peer address, else the first.
PreferredListener(ls) ==
  LET atPeer == SelectInSeq(ls, LAMBDA l : l.addr = PeerAddr)
  IN  ls[IF atPeer = 0 THEN 1 ELSE atPeer]

\* Whenever hasConnectivity() says Tor can be used, socksAddress() and
\* socksPort() name a SOCKS listener of the Tor now running, the one at
\* the control connection's address if it has one (the comment at lines
\* 404-406), across Tor restarts and whether the circuit event or the
\* GETINFO reply comes first: socketDisconnected must clear the endpoint
\* of the Tor that exited, since the loop keeps a set address unless a
\* listener is at the peer address.
ConnectivityUsesTorsProxy ==
  hasConnectivity =>
    /\ listeners # <<>>
    /\ [addr |-> socksAddress, port |-> socksPort] = PreferredListener(listeners)

\* A Tor that has a SOCKS listener and a circuit is eventually usable:
\* hasConnectivity() holds unless the circuit goes or Tor exits first.
\* The GETINFO of authenticated must reach Tor, its reply must set the
\* endpoint whether or not a listener is at the peer address, and the
\* circuit must be learned from the 650 event or the reply.
ConnectivityEventually ==
  (conn = "open" /\ listeners # <<>> /\ torCircuit)
    ~> (hasConnectivity \/ conn # "open" \/ ~torCircuit)

\* Spec 8.5: unquotedString undoes quotedString, here on the summary of
\* every phase Tor reaches (every string of Summaries).
UnquoteInvertsQuote ==
  unquotedString(quotedString(torPhase.summary)) = torPhase.summary

=============================================================================
