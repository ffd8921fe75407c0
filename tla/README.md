# TLA+ models of the RetroShare Tor control client

This directory holds TLA+ models of the code under `src/` that drives a Tor
daemon over its control port (`tor/TorControl.cpp` and helpers), together
with the supporting pieces shipped beside it (`tor/PendingOperation.cpp`,
`pqi/pqifdbin.cc`, `util/retrodb.cc`). Every module is checked with TLC; the
runs and what they show are listed in `PROJECT.json` and below.

## 1. The system

| Part | Source | State it keeps | Operations |
|---|---|---|---|
| TorControl orchestrator | `tor/TorControl.cpp` | `mStatus`, `mTorStatus`, `mTorVersion`, SOCKS address, `mServices`, `mAuthPassword`, `mHasOwnership`, the control address | `connect`, `reconnect`, `authenticate`, `addHiddenService`, `setAuthPassword`, `takeOwnership`, `shutdown`, `shutdownSync`, `saveConfiguration`; the reply handlers `protocolInfoReply`, `authenticateReply`, `getTorInfoReply`, the publication callbacks, `statusEvent`, `socketDisconnected`, `socketError` |
| Version comparison | `TorControl::torVersionAsNewAs` | none (pure) | compares the daemon's version with `"0.2.7"` to choose ADD_ONION or SETCONF |
| TorControlSocket, commands, HiddenService | not under `src/` | the FIFO of command objects waiting for a reply, registered event handlers | `sendCommand`, `registerEvent`, the reply/event dispatch, `fullstop` |
| Tor daemon | external | its authentication config, the connection's authenticated / subscribed flags, circuits, the SOCKS listener | answers commands in order, closes after 514/515, emits 650 STATUS_CLIENT |
| PendingOperation | `tor/PendingOperation.cpp` | finished flag, error message | `finishWithError`, `finishWithSuccess`, `isSuccess`, `isFinished` |
| fd binary interface | `pqi/pqifdbin.cc` | fd, in/out buffers | `setSocket`, `tick`, `read_pending`, `write_pending`, `readline`, `readdata`, `senddata`, `close` |
| RetroDb | `util/retrodb.cc` | the sqlite handle | `execSQL`, `execSQL_bind` (SQLITE_BUSY retry with a 3 s timeout), transactions |
| StrUtil, CryptoKey | `tor/StrUtil.cpp`, `tor/CryptoKey.cpp` | none | quoting; key loading from PEM, files and Tor's `ADD_ONION` reply |
| Declarations, serialisers | `util/*.h`, `jsonapi/`, `friend_server/`, `serialiser/` | none | none |

How they interact: the host (the Tor manager) calls `connect`; the socket
opens a TCP connection and the driver calls `authenticate`, which sends
PROTOCOLINFO. Every command object waits in the socket's FIFO; Tor answers
commands in the order it received them, and the socket routes each reply line
to the head of the FIFO. The 650 lines are asynchronous events, routed to
registered handlers. The chain is PROTOCOLINFO → AUTHENTICATE → (SETEVENTS,
GETINFO, ADD_ONION per service or one SETCONF, GETINFO config-text when owned).
A publication acknowledgement calls `checkHiddenService`, which marks the
service Online and sets `HiddenServiceReady`.

What is hard: replies are matched by position, so anything that desynchronises
the FIFO from what Tor answers (a connection replaced under a full queue, a
command sent before authentication that makes Tor close, a command sent with no
object) routes replies to the wrong handler; the order in which the event
handler and GETINFO are issued decides whether torStatus can go stale; one
SETCONF carries several services but a single callback; the version test that
chooses the publication path has an off-by-one.

## 2. Modules

* `TorVersion.tla`: `torVersionAsNewAs` as the RECURSIVE operator
  `VersionLoop`, one call per iteration of the `for(;;)`. Reading a
  `std::list` past `end()` is undefined, so the operator returns a set of
  outcomes and `Undefined` stands for the undefined read; `VersionOutcomes`
  turns it into "either Boolean" for the caller. `ReferenceAsNewAs` is the
  comparison spec 4.7 and the comment at line 775 describe.
* `MC_TorVersion.tla`: enumerates every version of 1..`MaxSegments`
  segments over `SegmentValues ∪ {NonNumeric}`.
* `TorControl.tla`: the orchestrator, the socket and the daemon composed.
  State: the client's fields (`status`, `torStatus`, `torVersion`,
  `hasSocksAddress`, `mServices`, `hsStatus`, `authPassword`,
  `hasOwnership`, `haveAddress`), the socket (`sockRunning`, `pending` = the
  FIFO of command objects, `eventRegistered`), the wire (`toTor`, `fromTor`),
  the daemon (`torConf`, `torAlive`, `connOpen`, `torAuthed`,
  `torSubscribed`, `circuit`, `socksListener`) and two history variables
  (`everPublished`: services Tor has published; `acked`: services whose
  acknowledgement the client read). One action per host call and per handler;
  each handler action takes one line off `fromTor` and includes every state
  change the handler makes (for `authenticateReply`, the whole chain of
  commands it sends). Commands are records `[obj, cmd, svc, incl, cb, cred]`:
  the command object, the command line, the service, the services a SETCONF
  includes, the service whose callback a SETCONF carries, the credential kind.
  Strings, keys and paths are abstracted to what the code branches on:
  authentication methods, the cookie file (`ok`, `stale`, `wrongsize`,
  `missing`), the password (`none`, `right`, `wrong`), per-service flags for
  data path, loaded key and key file.
  `connect` stops a running socket and opens a fresh queue; if
  `connectToHost` fails the status stays Connecting (lines 209-213).
  `reconnect` calls no `fullstop`, so a socket still running after an Error
  keeps its queue for the new connection (`OpenConnectionKeepsQueue`).
  `takeOwnership` and `shutdown` may be called in any state; on a stopped
  socket their command objects are queued and nothing reaches Tor.
* `MC_TorControl.tla`: two services as model values and the constant
  functions and version sets the configurations pick from.

* `PendingOperation.tla`: `PendingOperation` (`m_finished`, `m_errorMessage`)
  with `finishWithError` and `finishWithSuccess` as actions; `fired` records
  the signals emitted (`error`, `success`, `finished`) and `aborted` the
  `Q_ASSERT` in a debug build. `PendingOperationAbstract.tla` is what the
  class promises: the outcome moves once from pending to success or error and
  the matching signals fire once. `Abstract == INSTANCE PendingOperationAbstract
  WITH outcome <- Outcome` maps the code's `isSuccess` / `isError` onto it.
* `MC_PendingOperation.tla`: up to `MaxCalls` finish calls with messages from
  `Messages`.
* `SaveConfigOperation.tla`: the torrc rewrite of `TorControl.cpp` 625-726
  (`start`, `configTextReply`): the path checks, the line filter that drops
  runtime-managed keys, the truncating `ofstream` and the write, then
  `finishWithSuccess` / `finishWithError` of the `PendingOperation` it
  extends. Files are model values, lines are keys; `WriteCanFail` lets a
  write stop after any prefix of the lines (the stream state is never
  checked).
* `MC_SaveConfigOperation.tla`: two files (one named torrc), three keys of
  which two are runtime-managed, initial contents of up to `MaxLines` lines.
* `ByteQueue.tla`: an abstract FIFO of bytes: `Put` appends, `Take` hands the
  front to the consumer.
* `FdBin.tla`: `RsFdBinInterface` (`pqi/pqifdbin.cc`): the descriptor,
  `mIsActive`, the inbound and outbound segment lists with their byte totals,
  and per peer the bytes it will send and whether it closed. `tick` is
  `read_pending` then `write_pending` in one step, as in the code;
  `readdata` is the copy loop as the RECURSIVE `TakeSegments`; `readline`
  scans the flattened buffer and calls the same `ReadData`. Both segment
  lists are mapped (`FlattenSeq`) onto `ByteQueue` instances.
* `MC_FdBin.tla`: one or two connections, bytes `{A, NL}`.
* `StrUtil.tla`: `quotedString`, `unquotedString` and `splitQuotedStrings`
  of `tor/StrUtil.cpp` as operators on strings (sequences of characters);
  the loops are RECURSIVE operators that step an index the way the `for`
  loops do, including the skip after a backslash inside quotes.
* `StatusParsing.tla`: the text side of TorControl's status handling:
  `statusEvent` (the third token of the split, trimmed line decides),
  `updateBootstrap` (severity, then one `key=value` entry per token, the key
  lower-cased, the value unquoted), `getTorInfo` (once per connection)
  and `getTorInfoReply`, whose lines each pass through `statusEvent` first,
  as the replyLine callback does: the status keys, and the
  `net/listeners/socks` loop (`ListenerStep`: split at the first `:`, keep
  a set address unless a listener is at the control socket's peer address,
  which ends the loop). `hasConnectivity` and `socketDisconnected` (which
  clears the SOCKS endpoint and torStatus but keeps the bootstrap map)
  complete the client. Tor's side (spec-modelled) formats its bootstrap
  phase as `SEVERITY BOOTSTRAP PROGRESS=p SUMMARY="..."`, plus
  `WARNING="..."` on a WARN phase, and its listeners as blank-separated
  quoted `"addr:port"` strings, with its own quoting. Tor may exit (the
  undelivered lines and the pending GETINFO are lost) and a new Tor start
  with other listeners. Protocol words and addresses are single symbols;
  the summary is a string over a letter, a blank, a quote and a backslash.
* `MC_StatusParsing.tla`: summaries of up to two such characters, progress
  50 or 100, two ports, the loopback peer address and another one, and
  four listener lists (none, one at the peer, the peer's after another's,
  two others).

The socket, command classes, HiddenService and the daemon are not under
`src/`; their definitions are modelled from the protocol description and marked
`spec_modelled` in the map.

## 3. Runs

| Run | Checks | Bounds | Result |
|---|---|---|---|
| `TorVersion_reference` | `AgreesWithReference` | segments {0,1,2,7,8,NonNumeric}, ≤ 4 segments | violated at `0.2.7`: returns false; `0.2.7.x` reads past the end |
| `TorControl_safety` | `TypeOK`, `RepliesMatchCommands`, `OnlineImpliesPublished`, `TorStatusTracksCircuit`, `AuthenticatedSessionIsLive` | 2 services (one ephemeral under legacy Tor), versions 0.2.6 / 0.2.7 / 0.4.8, null auth, `MaxPending` 3, `MaxEvents` 1 | passes (≈2.7 M states) |
| `TorControl_auth` | `RepliesMatchCommands`, `AuthenticationTerminates` | 1 service, every non-empty set of methods, every cookie state and password, `MaxPending` 1 | passes (≈0.5 M states) |
| `TorControl_setconf` | `PublishedServicesOnline` | 2 services, legacy Tor | violated: only the last service's SETCONF callback survives |
| `TorControl_reconnect` | `ConnectingResolves` | 1 service | violated: `reconnect` leaves Connecting for ever |
| `TorControl_socks` | `SocksAddressLearned` | 1 service | violated: a SOCKS listener opened after GETINFO is never learned |
| `PendingOperation_finish` | `ImplementsAbstract` | messages `""` and one real message, 2 calls | violated: `finishWithError("")` reports success; a late `finishWithError` changes a finished outcome |
| `StatusParsing_pass` | `BootstrapReflectsTor`, `UnquoteInvertsQuote`, `ConnectivityUsesTorsProxy`, `ConnectivityEventually` | summaries of ≤ 2 characters, 2 progress values, 2 severities, ≤ 2 messages from Tor before its last GETINFO answer, 4 listener lists, 1 restart | passes (≈0.54 M states, 2 min) |
| `SaveConfig_pass` | `SaveImplementsAbstract` | 2 files, 3 keys, ≤ 2 lines, reliable writes | passes |
| `SaveConfig_write` | `SuccessWritesKeptLines` | same, writes may fail | violated: a torrc cut short is reported as saved |
| `FdBin_pass` | `CountersMatchBuffers`, `InboundIsFifo`, `OutboundIsFifo` | 1 connection, ≤ 3 bytes in, ≤ 3 bytes out, reads of ≤ 2 bytes, `len` ≤ 3 | passes (≈0.37 M states) |
| `FdBin_eof` | `BytesReachTheirPeer` | 1 connection, 1 byte in, 2 out | violated: after EOF the queue is written to descriptor 0 |

`AuthenticatedSessionIsLive` says that while the client reports Authenticated
or HiddenServiceReady its socket runs and, if the connection is open, Tor
holds it authenticated. It takes a full session (connect, PROTOCOLINFO,
AUTHENTICATE), Tor closing the connection, and the EOF handler to break: if
`socketDisconnected` left the status alone, `connect()` would refuse every
later call ("existing connection") and the host could never recover.

`RepliesMatchCommands` says that every reply a handler reads (the
PROTOCOLINFO, AUTHENTICATE, GETINFO, ADD_ONION, SETCONF and SaveConfig
objects) sits in Tor's reply stream at the position of its own command
object. It does not ask the two queues to be equal: after an Error with
the socket still running, `reconnect` keeps the host's TAKEOWNERSHIP,
RESETCONF or SIGNAL objects, and the new connection's replies reach those
first (TLC finds this). No handler reads those replies, and after
`reconnect` no handler command is sent, so nothing is misread; the case is
a hazard in `PROJECT.json`.

Why the bounds are enough: every path of the handlers needs at most one
host-queued command behind the authentication chain, so `MaxPending` 3 lets
`takeOwnership` and `shutdown` land before, during and after authentication and
connection replacement. One event in flight is what it takes for a circuit
change to race GETINFO. Two services are what a single-callback SETCONF needs
to go wrong; 0.2.6, 0.2.7 and 0.4.8 cover the legacy path, the comparison
that wrongly returns false (0.2.7 itself, so the legacy path is taken for an
ADD_ONION-capable Tor) and ADD_ONION. The undefined read past the end needs
0.2.7.x and is shown by `TorVersion_reference`, not reached here.

For `SaveConfigOperation`, two lines over three keys give every mix of kept
and dropped lines and a line after a dropped one; `SaveConfig_write` checks
the written torrc against the filtered lines only where writes can fail,
since with reliable writes the comparison restates the assignment of
`configTextReply`. `SaveConfig_pass` checks the completion of the composed
operation on every path (no config file, a refused path, an open failure,
success); the path check itself is one guard and is not a property. For `FdBin`, reads of at most 2 bytes out of 3
make every segment boundary (a read ending inside a segment, on its end, or
spanning two) and partial writes of every length reachable; `readdata` and
`readline` lengths up to 3 cover "more than buffered". A second connection
adds nothing to the FIFO properties and is left out of the passing run.
For `StatusParsing`, two messages are enough to have an event and a GETINFO
reply in either order or two events; two-character summaries include an
escaped quote followed by a blank, the case where a split that ignores the
escape ends the quoted value early, and a WARN phase puts a further quoted
token after the summary. One restart with the four listener lists gives a
Tor whose endpoint was learned replaced by one without a listener at the
peer address (where a kept endpoint is never overwritten), and the peer's
listener after another's (where the loop must not stop at the first).
Tor answers GETINFO even when it has sent its two messages, so a
circuit event can come before or after the reply on either Tor.

Fairness: the driver polls the socket every tick and the daemon answers every
command it reads, so each handler action and each daemon reply action is weakly
fair. Host calls, socket errors, circuit changes and connection drops are not:
they may never happen. `SaveConfigOperation` assumes weak fairness of
`configTextReply` (the GETINFO reply arrives). `StatusParsing` assumes weak
fairness of the client's handlers (`getTorInfo`, which `authenticated` calls
on every connection, `statusEvent`, `getTorInfoReply`, `socketDisconnected`)
and of Tor answering GETINFO, never of Tor's reports, exits or restarts; the
two parsing handlers' fairness is written with their guard (the line has
arrived) in place of ENABLED, which is the same condition since the rest of
each action only assigns. The `FdBin` and `PendingOperation` properties are
safety properties and assume none.

Each property of a passing run has a mutant in `PROJECT.json`: an operator
placed just before the definition it replaces, changed the way a plausible bug
would (the duplicate check of `addHiddenService` dropped; the SETCONF callback set before the ephemeral-key check;
GETINFO sent before SETEVENTS; `socketDisconnected` not resetting the status to NotConnected; a new
connection keeping the old queue; `setError` not changing the status; `finishWithSuccess` not
setting `m_finished`; a chopped inbound segment keeping its front; a partial
write requeuing the sent prefix; `readdata` dropping only the last
segment's part from the counter; a backslash inside quotes not skipping the
next character in `splitQuotedStrings`; `quotedString` not escaping the
backslash; `socketDisconnected` keeping the SOCKS endpoint; the listener
loop taking only a listener at the peer address). TLC finds each property violated under its
mutant.

## 4. Findings

* `TorControl.cpp:505`: the legacy SETCONF branch overwrites the success
  callback per service; only the last configured service goes Online.
* `TorControl.cpp:224`: `reconnect` never leaves Connecting.
* `TorControl.cpp:415`: the promised re-read of the SOCKS address on TorReady
  does not exist.
* `TorControl.cpp:768`: `torVersionAsNewAs("0.2.7")` is false on 0.2.7 and
  undefined on 0.2.7.x.

* `PendingOperation.cpp:65`: the message is stored after the "Unknown
  Error" default and outside the `m_finished` guard.
* `TorControl.cpp:701`: a failed torrc write is reported as success (spec
  section 7 names `ConfigurationWriteFailed`).
* `pqifdbin.cc:93`: a tick that reads EOF writes the outbound queue to
  descriptor 0.

Further divergences without a run of their own are hazards in `PROJECT.json`:
`readline` returns `max` bytes, not `max - 1` (`pqifdbin.cc:270`);
`readdata` with too few bytes returns the buffered count, not 0
(`pqifdbin.cc:283`, spec 4.1 and 8.2);
an IPv6 SOCKS listener `"[::1]:9050"` is split at its first `:`, giving
address `[` and port 0 (`TorControl.cpp:400`; `StatusParsing` models the
split, and with that listener in `Listeners` TLC finds
`ConnectivityUsesTorsProxy` violated, but no run keeps that instance);
`socketDisconnected` keeps the exited Tor's bootstrap map, which
`bootstrapStatus()` reports until the new Tor reports (`TorControl.cpp:275`);
`setSocket` keeps the old connection's buffers although it logs that it
cancels them (`pqifdbin.cc:50`, caught by `BytesReachTheirPeer` as well);
a failed authentication step sets Error, but the EOF that follows Tor's
close runs `socketDisconnected`, which sets NotConnected where scenario S3
of spec.md expects Error (`TorControl.cpp:282`; checked by hand with an
action property under `TorControl_auth`'s configuration);
a service added after authentication is never published on that connection,
since only `authenticateReply` calls `publishServices` (`TorControl.cpp:450`);
`execSQL_bind` computes its timeout in `uint32_t` and gives up after under a
second (`retrodb.cc:414`).

## 5. Not modelled

* `shutdownSync`: it waits for the socket's output to drain and closes it.
  The socket's `close` is not under `src/`, and the model's connection has
  no half-close in which Tor still reads what was written before the
  client's close, so the outcome could only be guessed.
* `getConfiguration` / `setConfiguration`: they only build and send a
  command (setConfiguration is part of `takeOwnership`).
* A GETINFO reply without one of the keys asked for: `front()` on its empty
  value list is undefined behaviour; Tor answers every key of a successful
  GETINFO, and so does the Tor of `StatusParsing`.
* The `rsEvents` notifications `getTorInfoReply`, `setStatus` and
  `updateBootstrap` send to the host: they copy state out and change none.
* A crash in the middle of the torrc rewrite; other writers of the file
  system between `fileExists` and the open.
* `RetroDb` (`util/retrodb.cc`): spec.md puts the SQLite store outside the Tor
  client; its timeout hazards are listed in `PROJECT.json`.
* `CryptoKey`: `loadFromFile` and `loadFromTorMessage` each rewrite one byte
  string from one input; what can go wrong depends on that input alone, not
  on an order of steps, so a model would only restate the text handling.
  Two hazards come from reading the code (not checked): `loadFromFile` strips `\n` and `\t` from a
  legacy PEM file but not `\r` or blanks, where spec 4.4 says whitespace is
  stripped, and `loadFromTorMessage` tests `b.indexOf(':')` as a Boolean, so
  a key with no `:` is refused and one starting with `:` accepted.
* Declarations and serialisers (`*.h` under `util/`, `jsonapi/`,
  `friend_server/`, `serialiser/`).

## 6. Plan

1. Done: `TorVersion`, `TorControl` (with `setStatus`), `PendingOperation`
   with its abstract specification, `SaveConfigOperation`, `ByteQueue`,
   `FdBin`, `StrUtil` and `StatusParsing`.
   `StatusParsing` covers the SOCKS listener loop, a Tor restart and
   liveness of the endpoint.
2. A run with an IPv6 listener, if a run can be freed.
3. A crash between the truncating open and the writes in
   `SaveConfigOperation`.
4. A run for the Error overwritten by NotConnected after a failed
   authentication, and one for a service added after authentication, if
   runs can be freed.
5. Compose `SaveConfigOperation` with `TorControl`'s `saveConfiguration` and
   ownership, so a save racing a disconnect is checked.
