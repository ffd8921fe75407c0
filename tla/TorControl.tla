----------------------------- MODULE TorControl -----------------------------
(***************************************************************************)
(* The Tor control client: the TorControl orchestrator                     *)
(* (src/retroshare/libretroshare/src/tor/TorControl.cpp), the control      *)
(* socket it talks through (TorControlSocket, not under src/: modelled     *)
(* from spec 4.2) and the Tor daemon at the other end of the connection.   *)
(*                                                                         *)
(* The connection is two FIFO queues: toTor carries commands, fromTor      *)
(* carries replies and 650 async events.  The socket keeps the command     *)
(* objects waiting for a reply in pending; Tor answers in issue order.     *)
(* Data (strings, keys, paths) is abstracted to what the code branches on. *)
(***************************************************************************)
EXTENDS Naturals, Sequences, SequencesExt, FiniteSets, TorVersion

CONSTANTS
  Services,       \* HiddenService objects the host may register
  NoService,      \* no service (a command that carries none)
  HasDataPath,    \* [Services -> BOOLEAN]  service->dataPath() is non-empty
  KeyLoaded,      \* [Services -> BOOLEAN]  service->privateKey().isLoaded()
  KeyFileExists,  \* [Services -> BOOLEAN]  dataPath + "/private_key" exists
  TorVersions,    \* versions the daemon may report, as split segments
  TorMethods,     \* sets of authentication methods the daemon may offer
  MaxPending,     \* bound on commands the host may queue
  MaxEvents       \* bound on 650 lines in flight

ASSUME NoService \notin Services
ASSUME MaxPending \in Nat \ {0} /\ MaxEvents \in Nat \ {0}

AuthMethods  == {"Null", "HashedPassword", "Cookie"}
\* The cookie file as fopen/getc see it: Tor's 32 bytes, 32 bytes of an
\* earlier Tor run, another size, or absent.
CookieStates == {"ok", "stale", "wrongsize", "missing"}
\* mAuthPassword: empty, the one Tor hashed, or another one.
Passwords    == {"none", "right", "wrong"}

ASSUME TorMethods \subseteq (SUBSET AuthMethods) \ {{}}

Statuses    == {"Error", "NotConnected", "Connecting", "SocketConnected",
                "Authenticating", "Authenticated", "HiddenServiceReady"}
\* The statuses above Connecting in the Status enum (connect(), line 194).
Connected   == {"SocketConnected", "Authenticating", "Authenticated",
                "HiddenServiceReady"}
TorStatuses == {"TorUnknown", "TorOffline", "TorReady"}

\* Command objects the socket queues (None: sendCommand(data) without one).
Objects  == {"ProtocolInfo", "Authenticate", "GetInfo", "AddOnion", "SetConf",
             "SaveConfig", "ResetConf", "None"}
Commands == {"PROTOCOLINFO", "AUTHENTICATE", "SETEVENTS", "GETINFO",
             "ADD_ONION", "SETCONF", "TAKEOWNERSHIP", "RESETCONF", "SIGNAL"}

Command(o, c) == [obj |-> o, cmd |-> c, svc |-> NoService, incl |-> {},
                  cb |-> NoService, cred |-> "none"]

CommandType == [obj : Objects, cmd : Commands, svc : Services \cup {NoService},
                incl : SUBSET Services, cb : Services \cup {NoService},
                cred : {"none", "null"} \cup CookieStates \cup Passwords]

NoReply == [event |-> FALSE, to |-> Command("None", "SIGNAL"), ok |-> TRUE,
            methods |-> {}, cookieFile |-> FALSE, version |-> <<>>,
            listener |-> FALSE, circuit |-> FALSE]

VARIABLES
  \* TorControl members
  status, torStatus, torVersion, hasSocksAddress, mServices, hsStatus,
  authPassword, hasOwnership, haveAddress,
  \* TorControlSocket: connection open, queued command objects, whether the
  \* STATUS_CLIENT handler is registered
  sockRunning, pending, eventRegistered,
  \* the connection
  toTor, fromTor,
  \* the Tor daemon: its configuration, whether it runs, its side of the
  \* control connection and its network state
  torConf, torAlive, connOpen, torAuthed, torSubscribed, circuit,
  socksListener,
  \* history: services Tor has published, publications the client has
  \* processed an acknowledgement of
  everPublished, acked

clientVars == <<status, torStatus, torVersion, hasSocksAddress, mServices,
                hsStatus, authPassword, hasOwnership, haveAddress>>
socketVars == <<sockRunning, pending, eventRegistered>>
torVars    == <<torConf, torAlive, connOpen, torAuthed, torSubscribed,
                circuit, socksListener>>
vars == <<clientVars, socketVars, toTor, fromTor, torVars, everPublished,
          acked>>

-----------------------------------------------------------------------------
(* The socket (spec 4.2).                                                   *)

\* sendCommand for each command of cs: queue its object, write its line.
SendCommands(cs) ==
  /\ pending' = pending \o cs
  /\ toTor' = IF connOpen THEN toTor \o cs ELSE toTor

\* A new connection over a socket that still holds the old command queue.
OpenConnectionKeepsQueue ==
  /\ sockRunning' = TRUE /\ pending' = pending
  /\ connOpen' = TRUE /\ torAuthed' = FALSE /\ torSubscribed' = FALSE
  /\ toTor' = <<>> /\ fromTor' = <<>>

\* A fresh TCP connection (connectToHost succeeding).
OpenConnection ==
  /\ sockRunning' = TRUE /\ pending' = <<>>
  /\ connOpen' = TRUE /\ torAuthed' = FALSE /\ torSubscribed' = FALSE
  /\ toTor' = <<>> /\ fromTor' = <<>>

\* The client drops the connection: fullstop, or an I/O error.  Pending
\* commands are cleared; Tor forgets the connection's authentication and
\* event subscription.
DropConnection ==
  /\ sockRunning' = FALSE /\ pending' = <<>>
  /\ connOpen' = FALSE /\ torAuthed' = FALSE /\ torSubscribed' = FALSE
  /\ toTor' = <<>> /\ fromTor' = <<>>

-----------------------------------------------------------------------------
(* Helpers of TorControl.cpp.                                              *)

\* setStatus, lines 89-113: every change of mStatus goes through it (the
\* error message it clears and the event it sends are left out).
setStatus(n) == status' = n

\* setTorStatus: lines 114-132 (the event sent is left out).
setTorStatus(n) == torStatus' = n

\* Mutant: the message is stored but setStatus(Error) is not called.
setErrorKeepsStatus == UNCHANGED status

\* setError, lines 134-140: setStatus(Error); the message is left out.
setError == setStatus("Error")

\* The authentication choice of protocolInfoReply, lines 305-368: the
\* credential AUTHENTICATE carries, or "error" when setError is called.
AuthChoice(methods, cookieFile) ==
  LET password == IF /\ "HashedPassword" \in methods
                     /\ authPassword # "none"
                  THEN authPassword ELSE "error"
  IN  IF "Null" \in methods THEN "null"
      ELSE IF "Cookie" \in methods /\ cookieFile
        THEN IF torConf.cookie \in {"ok", "stale"}  \* cookie.size() == 32
               THEN torConf.cookie ELSE password
      ELSE password

\* publishServices, lines 453-512, given the outcome of torVersionAsNewAs.
\* The legacy branch sets the SetConf callback once per configured service,
\* so the one that survives is the last configured service's.
Configured(s) ==
  /\ HasDataPath[s]
  /\ ~(KeyLoaded[s] /\ ~KeyFileExists[s])

\* Mutant: the SetConf callback is set before the ephemeral-key check.
publishServicesEarlyCallback(useAddOnion) ==
  LET conf == SelectSeq(mServices, Configured)
      withPath == SelectSeq(mServices, LAMBDA s : HasDataPath[s])
  IN  IF mServices = <<>> THEN <<>>
      ELSE IF useAddOnion
        THEN [i \in 1 .. Len(mServices) |->
                [Command("AddOnion", "ADD_ONION") EXCEPT !.svc = mServices[i]]]
      ELSE IF conf = <<>> THEN <<>>
      ELSE << [Command("SetConf", "SETCONF") EXCEPT !.incl = ToSet(conf),
                                                   !.cb = Last(withPath)] >>

publishServices(useAddOnion) ==
  LET conf == SelectSeq(mServices, Configured)
  IN  IF mServices = <<>> THEN <<>>
      ELSE IF useAddOnion
        THEN [i \in 1 .. Len(mServices) |->
                [Command("AddOnion", "ADD_ONION") EXCEPT !.svc = mServices[i]]]
      ELSE IF conf = <<>> THEN <<>>
      ELSE << [Command("SetConf", "SETCONF") EXCEPT !.incl = ToSet(conf),
                                                   !.cb = Last(conf)] >>

\* checkHiddenService, lines 514-524 (servicePublished sets Online).
checkHiddenService(s) ==
  /\ hsStatus' = [hsStatus EXCEPT ![s] = "Online"]
  /\ setStatus("HiddenServiceReady")

-----------------------------------------------------------------------------
(* Host operations.                                                        *)

\* Mutant: a running socket is not stopped (lines 200-201 dropped), so the
\* new connection inherits the old command queue.
connectNoFullstop ==
  /\ status \notin Connected
  /\ haveAddress' = TRUE
  /\ IF torAlive
       THEN /\ IF sockRunning THEN OpenConnectionKeepsQueue ELSE OpenConnection
            /\ setStatus("SocketConnected")
            /\ setTorStatus("TorOffline")
       ELSE /\ DropConnection
            /\ setError
            /\ setTorStatus("TorUnknown")
  /\ UNCHANGED <<torVersion, hasSocksAddress, mServices, hsStatus,
                 authPassword, hasOwnership, eventRegistered, torConf,
                 torAlive, circuit, socksListener, everPublished, acked>>

\* connect(address, port), lines 192-214: the socket is stopped
\* (fullstop), Connecting is set and, if connectToHost succeeds,
\* SocketConnected and TorOffline; if it fails the status stays Connecting.
connect ==
  /\ status \notin Connected
  /\ haveAddress' = TRUE
  /\ IF torAlive
       THEN /\ OpenConnection
            /\ setStatus("SocketConnected")
            /\ setTorStatus("TorOffline")
       ELSE /\ DropConnection
            /\ setStatus("Connecting")
            /\ setTorStatus("TorUnknown")
  /\ UNCHANGED <<torVersion, hasSocksAddress, mServices, hsStatus,
                 authPassword, hasOwnership, eventRegistered, torConf,
                 torAlive, circuit, socksListener, everPublished, acked>>

\* reconnect(), lines 216-225: Connecting is set and the result of
\* connectToHost is ignored.  No fullstop: a socket still running after an
\* error keeps its queue of command objects for the new connection.
reconnect ==
  /\ haveAddress
  /\ status \notin Connected \cup {"Connecting"}
  /\ setStatus("Connecting")
  /\ IF torAlive
       THEN IF sockRunning THEN OpenConnectionKeepsQueue ELSE OpenConnection
       ELSE UNCHANGED <<sockRunning, pending, connOpen, torAuthed,
                        torSubscribed, toTor, fromTor>>
  /\ UNCHANGED <<torStatus, torVersion, hasSocksAddress, mServices, hsStatus,
                 authPassword, hasOwnership, haveAddress, eventRegistered,
                 torConf, torAlive, circuit, socksListener, everPublished,
                 acked>>

\* authenticate(), lines 258-271, called by the driver once SocketConnected.
authenticate ==
  /\ status = "SocketConnected"
  /\ setStatus("Authenticating")
  /\ SendCommands(<< Command("ProtocolInfo", "PROTOCOLINFO") >>)
  /\ UNCHANGED <<torStatus, torVersion, hasSocksAddress, mServices, hsStatus,
                 authPassword, hasOwnership, haveAddress, sockRunning,
                 eventRegistered, fromTor, torVars, everPublished, acked>>

\* Mutant: the std::find duplicate check is dropped.
addHiddenServiceNoFind(s) ==
  /\ mServices' = Append(mServices, s)
  /\ UNCHANGED <<status, torStatus, torVersion, hasSocksAddress, hsStatus,
                 authPassword, hasOwnership, haveAddress, socketVars, toTor,
                 fromTor, torVars, everPublished, acked>>

\* addHiddenService, lines 445-451.
addHiddenService(s) ==
  /\ ~Contains(mServices, s)
  /\ mServices' = Append(mServices, s)
  /\ UNCHANGED <<status, torStatus, torVersion, hasSocksAddress, hsStatus,
                 authPassword, hasOwnership, haveAddress, socketVars, toTor,
                 fromTor, torVars, everPublished, acked>>

\* setAuthPassword, lines 187-190.  The supervisor hands the password over
\* with the control port, before connecting (spec 1).
setAuthPassword(p) ==
  /\ status \notin Connected
  /\ authPassword' = p
  /\ UNCHANGED <<status, torStatus, torVersion, hasSocksAddress, mServices,
                 hsStatus, hasOwnership, haveAddress, socketVars, toTor,
                 fromTor, torVars, everPublished, acked>>

\* takeOwnership, lines 733-742, with setConfiguration (612-619).  The host
\* may call it in any state; on a stopped socket the command objects are
\* queued and nothing reaches Tor.  MaxPending bounds the host.
takeOwnership ==
  /\ Len(pending) < MaxPending
  /\ hasOwnership' = TRUE
  /\ SendCommands(<< Command("None", "TAKEOWNERSHIP"),
                     Command("ResetConf", "RESETCONF") >>)
  /\ UNCHANGED <<status, torStatus, torVersion, hasSocksAddress, mServices,
                 hsStatus, authPassword, haveAddress, sockRunning,
                 eventRegistered, fromTor, torVars, everPublished, acked>>

\* shutdown, lines 526-534: SIGNAL SHUTDOWN if the tor instance is ours.
shutdown ==
  /\ hasOwnership /\ Len(pending) < MaxPending
  /\ SendCommands(<< Command("None", "SIGNAL") >>)
  /\ UNCHANGED <<clientVars, sockRunning, eventRegistered, fromTor, torVars,
                 everPublished, acked>>

-----------------------------------------------------------------------------
(* The socket delivering one line from Tor to its handler.                 *)

\* The line at the front of the inbound queue.
line == Head(fromTor)

NextLine ==
  /\ sockRunning /\ fromTor # <<>>
  /\ fromTor' = Tail(fromTor)

\* A reply line routed to the command object at the front of the queue.
Answer(o) ==
  /\ NextLine
  /\ ~line.event
  /\ pending # <<>> /\ Head(pending).obj = o

\* protocolInfoReply, lines 290-372.
protocolInfoReply ==
  /\ Answer("ProtocolInfo")
  /\ LET r == line IN
    /\ torVersion' = r.version
    /\ LET choice == AuthChoice(r.methods, r.cookieFile)
           auth   == [Command("Authenticate", "AUTHENTICATE")
                        EXCEPT !.cred = choice]
       IN  IF status # "Authenticating" THEN
             pending' = Tail(pending) /\ UNCHANGED <<status, toTor>>
           ELSE IF choice = "error" THEN
             /\ setError /\ pending' = Tail(pending)
             /\ UNCHANGED toTor
           ELSE
             /\ pending' = Append(Tail(pending), auth)
             /\ toTor' = IF connOpen THEN Append(toTor, auth) ELSE toTor
             /\ UNCHANGED status
    /\ UNCHANGED <<torStatus, hasSocksAddress, mServices, hsStatus,
                   authPassword, hasOwnership, haveAddress, sockRunning,
                   eventRegistered, torVars, everPublished, acked>>

\* Mutant: getTorInfo is sent before the STATUS_CLIENT subscription.
AuthenticatedCommandsInfoFirst(useAddOnion) ==
  << Command("GetInfo", "GETINFO"), Command("None", "SETEVENTS") >>
  \o publishServices(useAddOnion)
  \o (IF hasOwnership THEN << Command("SaveConfig", "GETINFO") >> ELSE <<>>)

\* The commands authenticateReply sends, in order (lines 243-254):
\* registerEvent's SETEVENTS, getTorInfo, publishServices, and
\* saveConfiguration's GETINFO config-text when the instance is owned.
AuthenticatedCommands(useAddOnion) ==
  << Command("None", "SETEVENTS"), Command("GetInfo", "GETINFO") >>
  \o publishServices(useAddOnion)
  \o (IF hasOwnership THEN << Command("SaveConfig", "GETINFO") >> ELSE <<>>)

\* The success branch of authenticateReply, lines 240-254.
Authenticated(useAddOnion) ==
  LET cs == AuthenticatedCommands(useAddOnion)
  IN  /\ setStatus("Authenticated")
      /\ eventRegistered' = TRUE
      /\ pending' = Tail(pending) \o cs
      /\ toTor' = IF connOpen THEN toTor \o cs ELSE toTor

\* authenticateReply, lines 227-255: register the STATUS_CLIENT handler
\* (the socket subscribes with SETEVENTS), getTorInfo, publishServices and
\* saveConfiguration when the instance is owned.
authenticateReply ==
  /\ Answer("Authenticate")
  /\ \E useAddOnion \in VersionOutcomes(torVersion, AddOnionVersion) :
    /\ IF ~line.ok
         THEN /\ setError /\ pending' = Tail(pending)
              /\ UNCHANGED <<eventRegistered, toTor>>
         ELSE Authenticated(useAddOnion)
    /\ UNCHANGED <<torStatus, torVersion, hasSocksAddress, mServices, hsStatus,
                   authPassword, hasOwnership, haveAddress, sockRunning,
                   torVars, everPublished, acked>>

\* getTorInfoReply, lines 390-443: a SOCKS listener sets the address; a
\* circuit makes Tor ready; "circuit-established=0" changes nothing.
getTorInfoReply ==
  /\ Answer("GetInfo")
  /\ LET r == line IN
    /\ pending' = Tail(pending)
    /\ hasSocksAddress' = (hasSocksAddress \/ r.listener)
    /\ IF r.circuit THEN setTorStatus("TorReady") ELSE UNCHANGED torStatus
    /\ UNCHANGED <<status, torVersion, mServices, hsStatus, authPassword,
                   hasOwnership, haveAddress, sockRunning, eventRegistered,
                   toTor, torVars, everPublished, acked>>

\* The ADD_ONION succeeded callback and the SETCONF ConfSucceeded callback,
\* both checkHiddenService (lines 473, 505).
publicationReply ==
  /\ \/ Answer("AddOnion")
     \/ Answer("SetConf")
  /\ LET r == line IN
    /\ pending' = Tail(pending)
    /\ LET c      == Head(pending)
           target == IF c.obj = "AddOnion" THEN c.svc ELSE c.cb
       IN  /\ acked' = IF r.ok THEN acked \cup c.incl \cup ({c.svc} \ {NoService})
                       ELSE acked
           /\ IF r.ok THEN checkHiddenService(target)
              ELSE UNCHANGED <<status, hsStatus>>
    /\ UNCHANGED <<torStatus, torVersion, hasSocksAddress, mServices,
                   authPassword, hasOwnership, haveAddress, sockRunning,
                   eventRegistered, toTor, torVars, everPublished>>

\* A reply to a command whose result the orchestrator does not read:
\* SaveConfigOperation (lines 640-705, the torrc write), RESETCONF, and the
\* commands sent without an object.
otherReply ==
  /\ \/ Answer("SaveConfig")
     \/ Answer("ResetConf")
     \/ Answer("None")
    /\ pending' = Tail(pending)
    /\ UNCHANGED <<clientVars, sockRunning, eventRegistered, toTor, torVars,
                   everPublished, acked>>

\* A 650 STATUS_CLIENT line: statusEvent, lines 550-570, when the handler is
\* registered; the socket drops it otherwise.  A reply with no command
\* waiting is dropped too.
statusEvent ==
  /\ NextLine
  /\ LET r == line IN
    /\ r.event \/ pending = <<>>
    /\ IF r.event /\ eventRegistered
         THEN setTorStatus(IF r.circuit THEN "TorReady" ELSE "TorOffline")
         ELSE UNCHANGED torStatus
    /\ UNCHANGED <<status, torVersion, hasSocksAddress, mServices, hsStatus,
                   authPassword, hasOwnership, haveAddress, socketVars, toTor,
                   torVars, everPublished, acked>>

\* Mutant: the socket state is cleared but setStatus(NotConnected) is lost.
socketDisconnectedKeepsStatus ==
  /\ sockRunning /\ ~connOpen /\ fromTor = <<>>
  /\ sockRunning' = FALSE /\ pending' = <<>>
  /\ torVersion' = <<>> /\ hasSocksAddress' = FALSE
  /\ setTorStatus("TorUnknown")
  /\ UNCHANGED <<status, mServices, hsStatus, authPassword, hasOwnership,
                 haveAddress, eventRegistered, toTor, fromTor, torVars,
                 everPublished, acked>>

\* End of stream once every buffered line is read: socketDisconnected,
\* lines 273-283.
socketDisconnected ==
  /\ sockRunning /\ ~connOpen /\ fromTor = <<>>
  /\ sockRunning' = FALSE /\ pending' = <<>>
  /\ torVersion' = <<>> /\ hasSocksAddress' = FALSE
  /\ setTorStatus("TorUnknown")
  /\ setStatus("NotConnected")
  /\ UNCHANGED <<mServices, hsStatus, authPassword, hasOwnership, haveAddress,
                 eventRegistered, toTor, fromTor, torVars, everPublished,
                 acked>>

\* An I/O error on the socket: socketError, lines 285-288 (setError).
socketError ==
  /\ sockRunning
  /\ DropConnection
  /\ setError
  /\ UNCHANGED <<torStatus, torVersion, hasSocksAddress, mServices, hsStatus,
                 authPassword, hasOwnership, haveAddress, eventRegistered,
                 torConf, torAlive, circuit, socksListener, everPublished,
                 acked>>

-----------------------------------------------------------------------------
(* The Tor daemon, answering the command at the head of toTor.             *)

Reply(c) == [NoReply EXCEPT !.to = c]

\* Tor closes the control connection; lines it already wrote still arrive.
TorCloses ==
  /\ connOpen' = FALSE /\ torAuthed' = FALSE /\ torSubscribed' = FALSE
  /\ toTor' = <<>>

TorUnchanged == UNCHANGED <<clientVars, socketVars, torConf, circuit,
                            socksListener>>

TorProtocolInfo ==
  /\ connOpen /\ toTor # <<>> /\ Head(toTor).cmd = "PROTOCOLINFO"
  /\ toTor' = Tail(toTor)
  /\ fromTor' = Append(fromTor,
       [Reply(Head(toTor)) EXCEPT !.methods = torConf.methods,
                                  !.cookieFile = "Cookie" \in torConf.methods,
                                  !.version = torConf.version])
  /\ TorUnchanged
  /\ UNCHANGED <<torAlive, connOpen, torAuthed, torSubscribed, everPublished,
                 acked>>

\* AUTHENTICATE: 250 OK, or 515 and Tor closes the connection.
TorAuthenticate ==
  /\ connOpen /\ toTor # <<>> /\ Head(toTor).cmd = "AUTHENTICATE"
  /\ LET c  == Head(toTor)
         ok == \/ c.cred = "null" /\ "Null" \in torConf.methods
               \/ c.cred = "ok" /\ "Cookie" \in torConf.methods
               \/ c.cred = "right" /\ "HashedPassword" \in torConf.methods
     IN  /\ fromTor' = Append(fromTor, [Reply(c) EXCEPT !.ok = ok])
         /\ IF ok THEN torAuthed' = TRUE /\ toTor' = Tail(toTor)
                       /\ UNCHANGED <<connOpen, torSubscribed>>
                  ELSE TorCloses
  /\ TorUnchanged
  /\ UNCHANGED <<torAlive, everPublished, acked>>

\* Any other command before authentication: 514 and Tor closes.
TorRejectUnauthenticated ==
  /\ connOpen /\ toTor # <<>> /\ ~torAuthed
  /\ Head(toTor).cmd \notin {"PROTOCOLINFO", "AUTHENTICATE"}
  /\ fromTor' = Append(fromTor, [Reply(Head(toTor)) EXCEPT !.ok = FALSE])
  /\ TorCloses
  /\ TorUnchanged
  /\ UNCHANGED <<torAlive, everPublished, acked>>

\* ADD_ONION and SETCONF publish, or fail (a bad key, an unusable path).
TorPublish ==
  /\ connOpen /\ toTor # <<>> /\ torAuthed
  /\ Head(toTor).cmd \in {"ADD_ONION", "SETCONF"}
  /\ \E ok \in BOOLEAN :
       LET c == Head(toTor)
       IN  /\ fromTor' = Append(fromTor, [Reply(c) EXCEPT !.ok = ok])
           /\ everPublished' = IF ok THEN everPublished \cup c.incl
                                          \cup ({c.svc} \ {NoService})
                               ELSE everPublished
  /\ toTor' = Tail(toTor)
  /\ TorUnchanged
  /\ UNCHANGED <<torAlive, connOpen, torAuthed, torSubscribed, acked>>

\* SETEVENTS, GETINFO, TAKEOWNERSHIP, RESETCONF, SIGNAL SHUTDOWN.
TorOther ==
  /\ connOpen /\ toTor # <<>> /\ torAuthed
  /\ Head(toTor).cmd \in {"SETEVENTS", "GETINFO", "TAKEOWNERSHIP",
                          "RESETCONF", "SIGNAL"}
  /\ LET c == Head(toTor)
     IN  /\ fromTor' = Append(fromTor,
                [Reply(c) EXCEPT !.listener = socksListener,
                                 !.circuit = circuit])
         /\ torSubscribed' = (torSubscribed \/ c.cmd = "SETEVENTS")
         /\ IF c.cmd = "SIGNAL"
              THEN torAlive' = FALSE /\ connOpen' = FALSE /\ toTor' = <<>>
                   /\ torAuthed' = FALSE
              ELSE toTor' = Tail(toTor) /\ UNCHANGED <<torAlive, connOpen, torAuthed>>
  /\ TorUnchanged
  /\ UNCHANGED <<everPublished, acked>>

\* Circuits come and go; a subscribed connection gets a 650 STATUS_CLIENT.
TorCircuitChange ==
  /\ torAlive
  /\ Len(SelectSeq(fromTor, LAMBDA r : r.event)) < MaxEvents
  /\ circuit' = ~circuit
  /\ fromTor' = IF connOpen /\ torSubscribed
                  THEN Append(fromTor, [NoReply EXCEPT !.event = TRUE,
                                                       !.circuit = ~circuit])
                  ELSE fromTor
  /\ UNCHANGED <<clientVars, socketVars, toTor, torConf, torAlive, connOpen,
                 torAuthed, torSubscribed, socksListener, everPublished,
                 acked>>

\* DisableNetwork is lifted and the SOCKS listener opens.
TorSocksListenerUp ==
  /\ torAlive /\ ~socksListener
  /\ socksListener' = TRUE
  /\ UNCHANGED <<clientVars, socketVars, toTor, fromTor, torConf, torAlive,
                 connOpen, torAuthed, torSubscribed, circuit, everPublished,
                 acked>>

\* Tor drops the control connection of its own accord.
TorDropsConnection ==
  /\ connOpen
  /\ TorCloses
  /\ UNCHANGED <<clientVars, socketVars, fromTor, torConf, torAlive, circuit,
                 socksListener, everPublished, acked>>

-----------------------------------------------------------------------------
Init ==
  /\ status = "NotConnected" /\ torStatus = "TorUnknown"
  /\ torVersion = <<>> /\ hasSocksAddress = FALSE
  /\ mServices = <<>> /\ hsStatus = [s \in Services |-> "Offline"]
  /\ authPassword = "none" /\ hasOwnership = FALSE /\ haveAddress = FALSE
  /\ sockRunning = FALSE /\ pending = <<>> /\ eventRegistered = FALSE
  /\ toTor = <<>> /\ fromTor = <<>>
  /\ torConf \in {c \in [methods : TorMethods,
                         cookie : CookieStates, version : TorVersions] :
                    "Cookie" \notin c.methods => c.cookie = "missing"}
  /\ torAlive = TRUE /\ connOpen = FALSE
  /\ torAuthed = FALSE /\ torSubscribed = FALSE
  /\ circuit \in BOOLEAN /\ socksListener \in BOOLEAN
  /\ everPublished = {} /\ acked = {}

Host ==
  \/ connect
  \/ reconnect
  \/ \E s \in Services : addHiddenService(s)
  \/ \E p \in Passwords : setAuthPassword(p)
  \/ takeOwnership
  \/ shutdown

Client ==
  \/ authenticate
  \/ protocolInfoReply
  \/ authenticateReply
  \/ getTorInfoReply
  \/ publicationReply
  \/ otherReply
  \/ statusEvent
  \/ socketDisconnected

Tor ==
  \/ TorProtocolInfo
  \/ TorAuthenticate
  \/ TorRejectUnauthenticated
  \/ TorPublish
  \/ TorOther

Environment ==
  \/ socketError
  \/ TorCircuitChange
  \/ TorSocksListenerUp
  \/ TorDropsConnection

Next == Host \/ Client \/ Tor \/ Environment

\* The driver ticks every 20 ms and the daemon answers every command: the
\* client's and Tor's steps are weakly fair; the host and failures are not.
Fairness ==
  /\ WF_vars(authenticate) /\ WF_vars(protocolInfoReply)
  /\ WF_vars(authenticateReply) /\ WF_vars(getTorInfoReply)
  /\ WF_vars(publicationReply) /\ WF_vars(otherReply)
  /\ WF_vars(statusEvent) /\ WF_vars(socketDisconnected)
  /\ WF_vars(TorProtocolInfo) /\ WF_vars(TorAuthenticate)
  /\ WF_vars(TorRejectUnauthenticated) /\ WF_vars(TorPublish)
  /\ WF_vars(TorOther)

Spec == Init /\ [][Next]_vars /\ Fairness

-----------------------------------------------------------------------------
(* Properties.                                                              *)

ReplyType == [event : BOOLEAN, to : CommandType, ok : BOOLEAN,
              methods : SUBSET AuthMethods, cookieFile : BOOLEAN,
              version : TorVersions \cup {<<>>}, listener : BOOLEAN,
              circuit : BOOLEAN]

TypeOK ==
  /\ status \in Statuses /\ torStatus \in TorStatuses
  /\ torVersion \in TorVersions \cup {<<>>}
  /\ hasSocksAddress \in BOOLEAN
  /\ mServices \in Seq(Services) /\ IsInjective(mServices)
  /\ hsStatus \in [Services -> {"Offline", "Online"}]
  /\ authPassword \in Passwords
  /\ hasOwnership \in BOOLEAN /\ haveAddress \in BOOLEAN
  /\ sockRunning \in BOOLEAN /\ eventRegistered \in BOOLEAN
  /\ pending \in Seq(CommandType) /\ toTor \in Seq(CommandType)
  /\ fromTor \in Seq(ReplyType)
  /\ torConf \in [methods : SUBSET AuthMethods, cookie : CookieStates,
                  version : TorVersions]
  /\ {torAlive, connOpen, torAuthed, torSubscribed, circuit, socksListener}
       \subseteq BOOLEAN
  /\ everPublished \subseteq Services /\ acked \subseteq Services

\* The commands whose replies are on their way to the client, in order.
Answers ==
  LET replies == SelectSeq(fromTor, LAMBDA r : ~r.event)
  IN  [i \in 1 .. Len(replies) |-> replies[i].to]

\* Command objects whose handler reads the reply: protocolInfoReply,
\* authenticateReply, getTorInfoReply, the publication callbacks and
\* SaveConfigOperation.  TAKEOWNERSHIP, RESETCONF and SIGNAL replies are
\* read by no one.
Readers == Objects \ {"ResetConf", "None"}

\* Every reply a handler reads is Tor's answer to that handler's command:
\* the socket never hands a reader another command's reply, or its own
\* reply to another object.  Commands sent without an object, commands the
\* host queues before authentication or on a stopped socket, Tor closing
\* after 514/515, a connection replaced by connect() and a socket reused
\* by reconnect() all have to keep the two queues in step where it counts.
RepliesMatchCommands ==
  sockRunning =>
    /\ Len(Answers) <= Len(pending)
    /\ \A i \in 1 .. Len(Answers) :
         {Answers[i].obj, pending[i].obj} \cap Readers # {}
           => Answers[i] = pending[i]

\* A service is reported Online only if Tor published it: the ADD_ONION and
\* SETCONF callbacks of publishServices mark the service Tor acknowledged.
OnlineImpliesPublished ==
  \A s \in Services : hsStatus[s] = "Online" => s \in everPublished

\* Once authenticated and with every command answered and every line
\* read, torStatus says whether Tor has a circuit: the STATUS_CLIENT
\* handler is registered before GETINFO status/circuit-established is
\* sent, so no circuit change falls between the two.
TorStatusTracksCircuit ==
  (/\ status \in {"Authenticated", "HiddenServiceReady"}
   /\ sockRunning /\ connOpen /\ toTor = <<>> /\ fromTor = <<>>)
    => (torStatus = "TorReady" <=> circuit)

\* The client claims an authenticated session (Authenticated or
\* HiddenServiceReady) only while its socket runs, and while the connection
\* is open Tor holds it authenticated.  Tor closing after 514/515 or of its
\* own accord, EOF read by socketDisconnected and an I/O error all have to
\* take the status back, or connect() refuses for ever and commands go out
\* on a connection Tor no longer serves.
AuthenticatedSessionIsLive ==
  status \in {"Authenticated", "HiddenServiceReady"} =>
    /\ sockRunning
    /\ connOpen => torAuthed

\* Authentication ends: protocolInfoReply sends AUTHENTICATE or sets an
\* error, authenticateReply moves on, or the connection goes.
AuthenticationTerminates ==
  status = "Authenticating" ~> status # "Authenticating"

\* Every service whose publication Tor acknowledged and the client read is
\* Online (spec 4.5: on acknowledgement the service transitions to Online).
PublishedServicesOnline ==
  \A s \in acked : hsStatus[s] = "Online"

\* Connecting is left (spec 4.6: Connecting --socket ready-->
\* SocketConnected, --socket error--> Error), also after reconnect().
ConnectingResolves ==
  status = "Connecting" ~> status # "Connecting"

\* The comment at lines 415-417: with no SOCKS listener at GETINFO time,
\* the address is read again when TorReady is reached.  Once Tor has a
\* listener and a circuit, the client learns the SOCKS address.
SocksAddressLearned ==
  (/\ status \in {"Authenticated", "HiddenServiceReady"}
   /\ torStatus = "TorReady" /\ socksListener)
    ~> (hasSocksAddress \/ status \notin {"Authenticated", "HiddenServiceReady"})
=============================================================================
