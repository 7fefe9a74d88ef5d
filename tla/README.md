# A verification of BetterFleet in TLA+

BetterFleet helps groups of Sea of Thieves players land on the same game server
and form an alliance. A desktop app (Tauri: a Vue/TypeScript web view over a Rust
process) detects which game server its user is on and reports it over a WebSocket
to a Quarkus backend; the backend keeps the *fleets* (sessions) in memory, tells
every member who is on which server, and runs the countdown that makes everybody
set sail at the same instant. Console players join a fleet from a mobile web page,
as *guests*.

This directory holds TLA+ models of that program, configurations that check them
with TLC on small instances, and proofs checked by TLAPS for instances of any size.
Paths below are relative to the repository; `SM`, `SS` and `SE` stand for
`SessionManager.java`, `SessionSocket.java` and `SocketSecurityEntity.java` under
`backend/src/main/java/fr/zelytra/session/`.

## 1. Inventory

| component | state it keeps | operations | what is hard | what makes it correct | status |
|---|---|---|---|---|---|
| Session registry (`SM`, `fleet/Fleet`, `player/Player`, `server/SotServer`) | `sessions`: code → fleet; a fleet's players, servers, each server's crew; a player's socket, master and guest flags | create, join (5 outcomes), leave, join/leave server, rename, visibility, broadcasts | compares players by object here and by name there; a player's socket can be replaced; a departure cascades (heir, disband, crews) | one seat per account and per socket, no session without a desktop player, a failed join costs nothing | **FleetSessions** |
| WebSocket endpoint (`SS`) | none of its own besides the connections | one handler per frame, onOpen, onClose, onError | each handler takes the registry's lock several times and acts on what an earlier acquisition found; lock acquisitions time out after 200 ms | a closed connection's member leaves; a handler never acts for somebody else | **FleetSessions** |
| Connection gate (`SS`, `socket/security/*`) | tokens not consumed yet; one timeout task per connection on one shared thread | register (mint, sweep), onOpen, the CONNECT gates | sleeping tasks that queue behind each other, cancelled late or never; sweep against use | a token in force is honoured; silence is bounded, patience guaranteed | **ConnectGate** |
| Geolocation (`ip/GeoLocationResolver`, `SM` 443-557) | cache, lookups in flight, each server's location | resolve, asynchronous answer, apply | an answer is applied under another lock than the one it was asked under; lock timeouts | each server of a fleet gets the location the cache knows | planned |
| Statistics (`statistics/StatisticsRepository`) | one row per day | get-or-create, increment | two inserts of the same day; the day changes between two reads | one row per day, no increment lost | planned |
| Alliance attempts (`AllianceAttempt*`, `SM` 796-838) | a fleet's try counters, rows | countdown, delayed snapshot, record | a countdown while the previous snapshot is pending | one row per attempt, with its own try number | planned |
| Public directory (`SessionDirectoryEndpoints`, `SM` 680-757; `PublicSessionsStore.ts`) | none / the store's last listing, poll timer, stream state | snapshot, SSE stream, poll with backoff | unlocked reads of live fleets, dropped snapshots, a late poll answer | the listing converges to the public sessions | planned |
| Release cache (`github/GithubLatestReleaseApi`) | last answer and its stamp | get | concurrent expiry, negative answers | at most one fetch per time-to-live | planned |
| Bug reports (`reports/*`) | rows | submit, page | – (I/O) | – | not modelled |
| Fleet client (`webapp/src/objects/fleet/Fleet.ts`, `SessionRunner.ts`) | socket, session id, countdown, automatic set sail | join, leave, run, react to frames | a join replaces a socket whose close is still to come; awaits | one socket; a closed one disturbs nothing | planned |
| Game polling (`GameSync.ts`, `GamePoll.ts`, `PresenceSync.ts`) | the last detected server, what was reported | poll, report | leave and join of servers across awaits and reconnections | the backend ends up knowing the server of each player | planned (its contract is used by FleetSessions) |
| Watchdogs (`DetectionWatchdog.ts`, `SocketlessWatchdog.ts`, `CaptureRepairWatchdog.ts`) | timers, counters | tick, escalate, reset | escalation and reset orders | repairs once, and again only after a reset | planned |
| Detection (`src-tauri/src/fetch_informations.rs`, `diagnostics.rs`) | the game's socket, the accumulated flows, the locked identity, the quarantine and its clocks; what `Api` shows | a capture window, a cycle without sockets, a suspended capture, the game's exit | noisy traffic in any order; silence, bursts, relays that move, and flows of the game that just ended | the identity is the server's, is not an echo, and is held as long as its game | **Detection** |
| Capture health (`diagnostics.rs` 205-409) | the health behind the repair banner, the streak of failures, the flag that pauses the loop | classify, count, store, reset; a diagnostic beside the loop | two threads on two atomics, one pipe for both, verdicts that outlive the game | a broken service is reported, a sound one never, a closed game has no banner | **CaptureHealth** |
| Capture service (`netcap/src/service_ipc.rs`, `service_proto.rs`, `bin/betterfleet_capture_service.rs`) | the one pipe instance, the request it serves, the stop flag; a client's connection and deadlines | serve, pause, back off, stop; ask, retry, time out | a stop in the middle of anything, a second server process, clients that hang, a name that vanishes between two clients | one's own answer, whole; nobody held; a stop within its hint | **CapturePipe** |
| Capture (`netcap/src/lib.rs`, `bin/betterfleet_netcap.rs`, the scan in `fetch_informations.rs`) | candidate ports, one thread per interface, the shared aggregator and counter | list processes, find the wineserver, read the socket tables; read, stamp, observe, collect | tables read one after the other while they change; threads on one aggregator; a helper that fails | what a steady port of the game received is in a flow | **GamePorts**, **PacketCapture**, **CaptureCycle** |
| Overlay (`main.rs`, `overlay_x11.rs`, `Overlay.ts`) | the window, its intent flag, the accelerator, the layout file | toggle, rebind, focus handler, save and restore | three writers of visibility, a file that outlives screens | the toggle works, the overlay floats and is reachable | **Overlay** |
| Countdown's click and jingle (`window_interaction*.rs`, `window_geometry.rs`, `x11_support.rs`, `main.rs`) | the target window, the foreground; whether the jingle rings | find, check, focus, place, press, release; poke | any window may take the foreground between two steps | the click is the game's, and the answer is honest | **Countdown** |
| Presence and logs (`main.rs`, `PresenceSync.ts`) | the command channel, the Discord client; the log files | push, take, connect; list, sort, read | Discord comes and goes; files rotate under the export | the profile is never outdated; the export is the tail of the log | **Presence**, **LogExport** |
| Accounts, updater, UI, website pages, deployment, scripts | – | – | identity-provider, browser or build interfaces | – | not modelled |

How they interact: the desktop app asks the backend for a token over REST
(`/socket/register`, or `/guest/register` for the web page), opens
`/sessions/{code}` and sends CONNECT with it. From then on the client sends
frames and the backend broadcasts the whole fleet after each change. The registry is
one `@ApplicationScoped` bean under a container read/write lock with a 200 ms
acquisition timeout; `SS` is instantiated per connection and runs handlers of
different connections concurrently, and the geolocation, statistics and alliance
parts run on executors beside it. The detection hands its server to the web view by
polling; `GameSync` turns its changes into JOIN_SERVER / LEAVE_SERVER frames.

The hard behaviours, each with the line where it bites and the properties that watch
it, are the `hazards` of `PROJECT.json`.

## 2. Modules

| module | what it is |
|---|---|
| `SessionRoster` | what the registry promises: accounts sit in at most one session, a session lives as long as a host sits in it, codes are handed out once. No sockets, objects or locks. |
| `FleetSessions` | the registry as the endpoint drives it. |
| `MCFleetSessions` | its small instances: two connections of one account, one of a second, and optionally a guest's. |
| `FleetSessionsProofs` | its inductive invariant and the safety theorems. |
| `FleetSessionsRefinement` | the theorem that it implements `SessionRoster`. |
| `ConnectGate` | tokens, the connection timeout and the CONNECT gates. |
| `MCConnectGate` | three interchangeable clients. |
| `ConnectGateProofs` | its invariants and the four theorems about it. |
| `Detection` | the desktop app's server detector and what it publishes. |
| `MCDetection` | two game sockets with a host each, one coordinator socket with two servers. |
| `DetectionProofs` | its inductive invariant, the safety theorems and the step theorem. |
| `Platform` | the system the desktop app is built for, Windows or Linux: code under `cfg` is a disjunct of the action it belongs to. |
| `CapturePipe` | the capture service, its control handler and its clients around the one pipe. |
| `MCCapturePipe`, `CapturePipeProofs` | the app's client and a client that asks for too much, the service and a copy in a console; five theorems. |
| `GamePorts` | a scan for the game's UDP ports. |
| `PacketCapture` | a capture window: threads, aggregator, helper and fallback. |
| `CaptureCycle` | the two composed: the ports found are the filter of the window. |
| `MCCaptureCycle`, `CaptureCycleProofs` | four processes in trees of all shapes, two ports, two interfaces; four theorems. |
| `CaptureHealth` | the health of the capture, with the pipe seen from the app. |
| `Overlay`, `Countdown`, `Presence`, `LogExport` | the other parts of the desktop shell that keep state. |
| `DesktopShell` | the last five composed. They share nothing but the system they run on, so a behaviour runs one of them, which `Init` picks. |
| `MCDesktopShell`, `DesktopShellProofs` | their instances; nine theorems. |
| `InductionLemmas` | induction over intervals and finite sets, and recursive functions along an interval: what the proofs about folds, ancestor chains and sums use. |

`FleetSessions` and `ConnectGate` are two views of one connection. The gate ends
where the registry starts: its `TakeSeat` and `TurnAway` stand for the outcomes of
`createSession`/`joinSession`, and `FleetSessions` starts a connection's life at a
CONNECT that passed the gate (`Connect`).

Operators named `X_Y` and marked `(fault)` are not part of any behaviour: each is
action or operator `X` with a plausible mistake, and the property it is listed with
in `PROJECT.json` fails when it replaces `X`.

### 2.1 FleetSessions: state and actions

An element of `Conn` names both a WebSocket session and the `Player` object that its
one CONNECT deserializes. The token of a connection is consumed by its CONNECT, so
there is at most one object per connection. `Player` has no `equals`: lists compare
identity, lookups compare names, and `joinSession` over a ghost changes the socket
of an existing object. So the state keeps apart the object `p`, the account
`Account[p]` and the socket `socket[p]`.

| variable | code |
|---|---|
| `link` | the WebSocket session: fresh, open, closed by the backend, dropped by the peer (onClose to come in both), gone (onClose delivered) |
| `socket` | `Player.socket` |
| `master` | objects with `isMaster` |
| `silent` | objects whose `lastSeen` is older than `GHOST_AFTER_MILLIS` |
| `reported` | the server the client believes it reported (`GameSync.ts`) |
| `sessions`, `used` | keys of `SM.sessions`; all codes ever drawn |
| `members`, `tracked`, `crew` | `Fleet.players`, `Fleet.servers` keys, `SotServer.connectedPlayers` |
| `task` | the handler running for a connection, with the objects it resolved |
| `cleanup` | the object that the onClose handler of a connection resolved |

Every public method of `SM` takes the lock, so it is one action; a handler of `SS`
is split wherever it gives up the lock.

| action | code |
|---|---|
| `Connect` | SS 371-422, past the gate |
| `CreateSession` (`CreateFirstSession`, `CreateNextSession`) | `createSession`, SM 117-148, with the departure from the previous fleet |
| `RejectMissingSession`, `RefuseDuplicate`, `RejoinOverGhost`, `EnterSession`, `SwitchSession` | the outcomes of `joinSession`, SM 205-278 |
| `LeaveSession` (operator) | `leaveSession`, SM 285-342, with `playerLeaveSotServer`, the heir, the disband and the sockets it closes |
| `Receive`, then `KeepAlive`, `MasterFrame`, `JoinServerFrame`, `LeaveServerFrame` | `onMessage`: touch the sender, resolve it from its socket |
| `Authorise`, then `KickPlayer` / `PromotePlayer` / `DemotePlayer` | `handleKick`, `handlePromote`, SS 174-221 |
| `PlayerJoinSotServer`, `PlayerLeaveSotServer` | SM 564-633, on the object resolved before |
| `PeerDrops`, `FallSilent` | the environment: a lost peer, a half-open connection |
| `OnClose`, then `LeaveOnClose` | `handleSocketClose`, SS 558-570: resolve, then leave |
| `HandlerTimesOut`, `CleanupTimesOut` | a `LockException`: in a handler it reaches onError, which closes the connection; in the cleanup it is logged and swallowed (SS 571-576) |

Abstractions and assumptions:

- `Session.close()` returns before onClose is delivered; onClose of a session closed
  by the backend runs on any thread, possibly while a handler of the connection
  runs. A close by the peer is delivered behind the connection's running handler.
- `sendThenClose` closes when its send completes; the close is merged with the send.
- onError is a close followed by the onClose clean-up.
- Usernames are case-folded (the code compares with `equalsIgnoreCase`), and codes
  are drawn fresh: a collision of two seven-digit codes is not modelled.
- The heir of a departing master is the first desktop player of the list; the order
  is abstracted to a choice among them. Which of several servers
  `getSotServerFromPlayer` finds is a choice too (a hash map's order).
- `Receive` merges the two lookups of the sender (touch, then the handler's own);
  `Authorise` merges the lookups of fleet and target. The rest of the handler is
  separate.
- A client reports a server only when it believes to be on none and leaves the one it
  reported, as `GameSync.ts` does; guests detect nothing; a client sends its CONNECT
  with `isMaster` false, as `Fleet.ts` resets it.
- UPDATE, visibility, rename, countdown and clear-status frames change none of these
  variables and are left to later modules.

### 2.2 ConnectGate: state and actions

| variable | code |
|---|---|
| `tokens`, `age` | `SE.websocketUser`, and the age each entry's `validity` is compared with |
| `link`, `step` | the connection, and how far its client and its CONNECT handler are |
| `wait` | ticks a connection has been open and silent (history, for the bounds) |
| `timer`, `queue`, `left` | the `Future` of each connection, the queue of the single-thread executor, the rest of the current sleep |
| `seated` | whether `createSession`/`joinSession` gave it a seat |

`Register` is the constructor of `SE`, which mints and sweeps (33-50). `OnOpen`
submits the timeout task. `TaskStarts`, `TaskWakes`, `TaskCloses` are the task (SS
83-93); `TaskSkipped` is the executor dropping a task that was cancelled before it
ran. `ReceiveConnect` cancels the task (373-376); `Future.cancel(true)` voids a
waiting task, interrupts a sleeping one, and does nothing to one that woke up.
An interrupt does not leak into the next task: the executor clears it. Then come the
gates in their order: `RefuseToken`, and with the token consumed `RefuseClient`
(guest outside its session, unsupported version), `IgnoreNameless`, `PassGates`; and
the outcomes `TakeSeat` and `TurnAway`. `OnClose` removes the task from the map but
does not cancel it (SS 560), so dead connections keep their place in the queue.

`Tick` is the clock. Time does not pass while the thread has something to do (its
steps are immediate against a tick); it passes freely against handlers, which may
take any time. Tokens and sleeps are counted by the same clock. `submit` and the
`put` that follows are one step: the container delivers no message before onOpen
returned. Each client registers once, for one connection.

The assumption `MaxWait > Timeout * Cardinality(Conn)` makes the cap
of the history variable lie beyond the bound that is checked, so the cap hides
nothing.

### 2.3 Detection: state and actions

`FI` is `webapp/src-tauri/src/fetch_informations.rs`.

| variable | code |
|---|---|
| `status`, `server` | `Api.game_status`, `Api.server_ip` and `server_port` |
| `socket` | the local port in `connection` |
| `flows` | `flows`: packets per flow |
| `locked` | `locked_session` |
| `quarantine`, `probation`, `since` | `quarantine`, `identity_probation`, ticks since `quarantine_born` |
| `silence` | ticks since `last_traffic` |
| `fallenBack`, `pending` | `fallen_back`, `pending_socket` |
| `ended` | history: how long ago a switch ended the game of each identity |

`OnWindow` is `on_window` (FI 382-537) followed by the arm of the loop that
publishes its verdict (FI 699-799): `Review` is the quarantine's expiry and the early
release of the probation; then one action per verdict. `Enter`, `Stay` and `NewGame`
are the three ways to be in a game (migrated and resumed games are `Stay`), `Pend`
is `HostPending`, then `Hold`, `FallBack` and `Menu`. `Launch` and `Socketless` are
the cycles without UDP sockets, `Suspend` those during a diagnostic, `CloseGame` the
exit of the process. The detector is one task, and the lock of `Api` is taken once
per cycle to publish, so that one cycle is one action.

Abstractions and assumptions:

- A flow stands for its key, local port and remote endpoint. Flows outside the
  game's port range and one-way flows can neither be hosts nor identities and are
  left out, and with them the relaxation for captures that see no outbound packet.
- Bytes and addresses break ties between flows of equal packets; a tie is a choice.
- The host's address labels log lines; what matters of `connection` is its port.
- Time passes in ticks of a cycle. A window lasts two seconds and is followed by one
  second in a game, so that the probation of six seconds is two cycles:
  `TwoWindowsAssumption`. The grace and the quarantine keep their order (a grace
  longer than a cycle, a quarantine longer than a probation), not their length.
- A cycle with an unreadable process list (FI 628-633) changes nothing and is left
  out; the counter `no_udp_cycles` is in `GamePorts`.

### 2.4 CapturePipe: state and actions

`IPC`, `PROTO` and `SVC` are `service_ipc.rs`, `service_proto.rs` and
`bin/betterfleet_capture_service.rs` under `webapp/src-tauri/netcap/src/`.

| variable | code |
|---|---|
| `pc`, `rest` | where a server's loop is (SVC `serve_loop`), and what is left of its pause |
| `scm`, `raising`, `stop`, `overdue` | the status reported to the service manager, the handler between its two steps, `STOP`, and ticks since it was raised (history) |
| `owner`, `phase`, `peer`, `inbox`, `outbox`, `clock` | the pipe instance: who holds it, where `serve_one_request` is, its client, its two buffers, ticks in the phase |
| `cpc`, `ask`, `cclock`, `hung`, `met` | a client in `request_capture`, its request and its deadline; whether it has hung; what it met (history) |

`Start`, `Exit`, `Pause`, `Create`, `Retry`, `Stopped` are the loop; `Accept`, `Read`,
`ReadFails`, `Captured`, `Write`, `Pushed`, `Drained` the request. A cycle of the loop
may fail, for a name that is taken or any other error of the system, while it makes the
pipe (`CreateFails`) or connects it (`AcceptFails`): `CycleFails` is the backoff that
follows. Everything the server waits for looks at the stop flag and at a deadline
(`complete_overlapped`), except the capture, which runs its window, or ends before it
when no interface is left to read. `Valid` is `validate_request` with the decoding of a
frame merged to its outcome. `StopControl` and `RaiseStop` are the two steps of the
control handler. `Open`, `Unavailable`, `Busy`, `Send`, `Receive`, `Broken`,
`TimesOut` are a client's call. The environment crashes a server, hangs a client and
makes it quit.

A tick passes only when nobody can step at once: the polls of the code are prompt
against its deadlines. The pipe's buffer holds a request and most answers; an answer
that is larger is in the client's hands before the write completes (phase `push`). A
second server process is in the model because the name can be held by a
copy started in a console, which is what `FILE_FLAG_FIRST_PIPE_INSTANCE` is for. The
encoding of frames, the pipe's security descriptor and the installation of the
service are left out.

### 2.5 GamePorts, PacketCapture, CaptureCycle: state and actions

A scan reads three tables one after the other: the processes (`FindPids`,
`find_game_pids`), on Linux the process tree (`AddWineserver`, `resolve_wineserver`
with `ancestor_chain` as the recursive function `Chain`), and the sockets
(`ReadSockets`). In between `Exits`, `Opens` and `Closes` change them. `steady`
(history) holds the sockets that stayed.

| variable | code (`netcap/src/lib.rs`) |
|---|---|
| `thread`, `hand`, `stamp` | a thread of `capture_raw_sockets`, the packet it read, its `t_ms` |
| `agg`, `raw`, `opened` | the shared `FlowAggregator`, the counter, the sockets that opened |
| `stage`, `helper`, `flows`, `rawCount` | how far the call is, whether the helper runs it, what it returns |
| `reads`, `wanted`, `heard`, `gone` | history |

A read, the stamp and the update are three steps: the time is read before the lock
is taken. The deadline is looked at between two reads (`Back`), so that the last packet
of a window may come after it; a read without a packet ends with the socket's timeout
(`ReadTimesOut`). `ReadError` has every other kind of error that the code tells apart.
The counter of cycles without sockets is the loop's: a diagnostic's scan leaves it
alone (`Count`).
`HelperRuns`, `HelperRefuses` and `HelperUnusable` are `capture_via_helper` and its
fallback; the helper is the same capture in another process, and when it is killed
what it saw is lost. `CaptureCycle` is the loop, and the diagnostic: the ports found
become the filter (`StartWindow`), or the cycle rests. The tables are forgotten when
the window starts, since nothing looks at them any more; an abstraction that keeps
the state space small and hides no step.

Packets are pairs of endpoints; lengths, which break ties in the ranking, and other
protocols are left out.

### 2.6 CaptureHealth: state and actions

The loop (`Live`) and the diagnostics (`Diag`) run `capture_windows_blocking`:
`Connect`/`ConnectFails`, `Served`/`CaptureLost`, then `Count` (the streak) and
`Store` (the state), which are two atomics and two steps. `SeesClosed` and
`ResetStreak` are the two stores of `reset_capture_health`. `StartDiagnostic` and
`DiagnosticDone` raise and drop `DIAGNOSTIC_IN_PROGRESS`. The pipe is seen from the
app: one holder. The timeouts (500 ms live, 4 s for a diagnostic) and the windows (2 s
live, 10 s and more for a diagnostic) are an order: a live attempt gives up before a diagnostic's
capture ends, a diagnostic waits a live window out. `late` is history.

### 2.7 Overlay, Countdown, Presence, LogExport

- **Overlay**: `PressHotkey`, `Tick` (the settings' checkbox, `Overlay.ts`),
  `HandleBlur` (main.rs 379-410) write the same window; `intent` is
  `OVERLAY_VISIBLE_INTENT`, `wish` what the player asked last (history). The focus is
  the main window's, the overlay's (it has a toggle and can be dragged) or another
  application's; only the main window's loss of it leaves something to handle
  (`blurred`), and `slipped` (history) tells an overlay that has lost it itself since it
  was last raised. `Rebind`
  binds the new accelerator first; the release of the old may fail. `StartApp`
  restores the layout, `CloseMain` saves it, perhaps badly; `Crash` does not save.
  Screens change while the app is down; a screen that goes while it runs is the
  window manager's affair. A position is the screen its corner is on.
- **Countdown**: `rise_anchor` step by step, with `Steal` between any two.
  `ClickPoint` is `content_click_point` with `letterboxed_point`, in integers, with
  the one truncation of the code. The walk of the pointer and its waits are left out.
  `Poke` and `JingleEnds` are the jingle's thread.
- **Presence**: `Push` is `PresenceSync` (only changes are sent), `Take...` the
  worker with its 15 s between attempts, `DiscordMoves` the environment.
- **LogExport**: `ReadDir`, `SortFiles`, `ReadFile` are
  `collect_recent_log_lines`; `WriteLine` and `Rotate` are the log plugin, external.
  The sort by modification time is stated as its result, `NewestFirst`.

## 3. Runs

| run | instance | what it shows |
|---|---|---|
| `registry` | 3 connections (two of one account), 3 codes, keep-alive, promote and demote frames, lock timeouts | types; `OneSeatPerSocket`: a socket speaks for one member through reconnections over ghosts; `JoinNeverLosesSeat`: a join that fails costs nothing |
| `registry_servers` | 3 connections, 2 codes, 2 servers, kicks and server reports | `CrewIsTracked`: a server with players under it stays listed by an open fleet; `OneSeatPerAccount` |
| `registry_cleanup` | 3 connections, the second a web guest under the first one's name, 2 codes, fairness, no lock timeout | `NoOrphanFleet`: no published session without a desktop player; `NoGhostLeftBehind`: a member whose socket closed leaves, or resumes; `ImplementsRoster`: every step is one move of `SessionRoster` |
| `connect_gate` | 3 clients, timeout 2 ticks, validity 2 | `FreshTokenAccepted`, `NotTimedOutEarly`, `SilentIsClosed`: the three promises of the gate |
| `detection` | 2 game sockets, 1 coordinator socket, 4 flows of 0, 1 or floor packets per window | `IdentityIsNotTheHost`, `TeardownNeverCounts`, `NoEchoRelock`, `IdentityIsHeld`: what the identity may be and when it may change; `ShownGameIsAlive`: what the frontend is told |
| `capture_pipe` | 2 clients (one asks for windows of 2 and of 4, over the cap), the service and a console copy, crashes, hangs, stops, cycles that fail | `OwnAnswer`, `AnswerIsKept`: one's own answer, whole; `StopsWithinHint`; `GapIsRiddenOut`: the gap between two pipes is not an absent service, which a failed cycle's backoff may be; `NobodyIsHeld` (liveness) |
| `capture_cycle` | both systems, 4 processes in trees of all depths and with cycles, 2 ports, one change during a scan; 2 interfaces, a window of one tick, 2 packets | `WineserverIsTheClosest`, in cyclic tables too; `NothingIsLost` between the threads; `GameTrafficIsRanked` across scan and window; `WindowEnds` (liveness) |
| `desktop_shell` | both systems, each part in turn: one diagnostic beside the loop; 3 combos, 2 screens; 4 windows and 5 sizes; 2 activities; 3 log files of 2 lines | `NoFalseAlarm`, `LoopLeavesNoBanner`, `VerdictFollowsTheService` (liveness); `HotkeyIsBound`, `OverlayFloats`, `OverlayIsReachable`; `ClickIsTheGames`; `NeverOutdated`, `ComesBack` (liveness); `ExportIsTheTail` |
| `switch_closes_socket` | 3 connections, 2 codes | violates `JoinKeepsItsSocket` (section 5) |
| `late_cleanup` | 3 connections, 2 codes | violates `CloseEvictsOnlyItsOwn` |
| `stale_banner` | as `desktop_shell` | violates `ClosedHasNoBanner` |
| `overlay_resurrected` | as `desktop_shell` | violates `ResurrectsNothing` |

Why the bounds are enough to be interesting. Two connections of one account make
reconnection, duplicates and moves between devices; a third of another account
makes successors, kicks and foreign objects; a guest makes the disband of a fleet
that is not empty. Two codes are needed to move, the third makes a code drawn while
two fleets are gone. Two servers make a player listed under a server that is not the
one a lookup finds. For the gate, three connections make a queue with a task
running, one waiting and one cancelled; with two ticks a task can be interrupted in
the middle of a sleep, and a validity of two ticks expires before, during and after
the timeout. Bounds: `Conn`, `Sid`, `Server` (each element is used once or, for
servers, repeatedly), `MaxWait` (history only). Nothing else is capped.

For the detector, two hosts make a switch, a burst and a window that carries both
games; two endpoints on the coordinator's socket make a rival identity and one that
survives a switch; with a grace of one tick, a probation of two and a quarantine of
three every clock runs out in every order. `MaxPackets` bounds the accumulation of
one game (8 for a host, 5 for an endpoint, enough for the factors 4 and 2 to both
hold and fail); the proofs have no such bound.

For the pipe, the durations keep the order of the real ones (250 ms cooldown, 500 ms
and 4 s budgets, 120 s cap): `Cooldown` 1, `Budget` 2 and 3, `Backoff` 2,
`IoDeadline` 3, `MaxWindow` 2, `Late` 1, `Slack` 2. Two servers make a name that is
taken, two clients make one that waits while the other is served. `LastTick` caps the
history `overdue` one past the hint, so that the cap hides nothing.

For the capture, `MaxChurn` 1 lets one thing change at any point of a scan, which is
what a read of three tables can miss; four processes are a game, two wineservers and
a common ancestor; `MaxReads` 2 and one tick put two threads on one flow with the
deadline between them; `MaxCycles` 1 caps a counter that only tells zero from more.
The theorem about the composition has none of these bounds.

For the desktop shell, `Escalate` 3 (5 in the code) is the least with which a streak
of a live attempt and a diagnostic's cannot reach it by itself (`NoFalseAlarm` is
proved from there on); `Due` 3, `MaxQueue` 2 let commands meet an attempt that is not
due; 3 combos are the old, the new and one taken; the sizes are 16:9, its half, one
wider, one higher, and 1366 by 768, which is neither; `PerFile` 2, `KeepSome` 2 and
`MaxLine` 9 rotate the oldest file away, with budgets that end in a file's middle, at
its end, and never.

Deadlock is checked in the capture and desktop runs, whose systems never stop. In the
others it is not: each connection makes one CONNECT, so an instance runs out of
connections and stops; the detector's clocks and counters are capped, and a step that
would exceed the cap does not exist. Symmetry (the two connections of one account,
the codes, the servers; the clients of the gate; the two games and the two servers of
the detector) is used in runs without liveness only; every `CHOOSE` of
`FleetSessions` is over a set the seat invariants keep to one element, so no step
distinguishes symmetric values.

Fairness. `FleetSessions`: weak, per connection: a handler that started is run to its
end by its thread; the container delivers onClose of a closed session; and the
handler of onClose runs to its end. No fairness is assumed of clients or networks.
`CapturePipe`: weak for time, for the handler's second step and for each server's and
client's own steps: they are threads that block only in calls with deadlines; nobody
has to ask, quit, start or stop. `CaptureCycle`: weak for time, for the collection and
for what each interface's thread does whatever arrives (`RunsOn`: it opens its socket,
handles a packet it has, and its reads time out); nobody has to send a packet, and no
error has to occur. `CaptureHealth`: weak for the steps of the loop,
of a capture and of a diagnostic that began; strong for `StartsWindow`, because the
loop is a timer that comes round for ever and the guard (a game, no diagnostic) is
false now and then. `Presence`: weak for the worker, which blocks on its channel only,
and for time. `Overlay`, `Countdown` and `LogExport` are under no fairness.

## 4. Proofs

All theorems hold for every value of the constants that satisfies the named
assumptions of the module: any connections, accounts, codes and servers; for the gate,
any finite set of connections and any timeout and validity; for the pipe, any clients,
servers, requests and durations; and so on.

**FleetSessionsProofs.** `IInv` is the conjunction of `TypeOK`, `OneSeatPerAccount`,
`NoOrphanFleet`, `OneSeatPerSocket` and `NotYetSeated`. `NotYetSeated` is the
strengthening: `OneSeatPerSocket` is not inductive by itself, because a reconnection
over a ghost hands the seat the socket of the incoming connection, and an arbitrary
state could already have that connection seated; the clause says that until its
CONNECT is handled a connection is nobody's seat and nobody's transport, and that a
guest never creates a session (which is what `NoOrphanFleet` needs). `TypeCorrect`
is `[]TypeOK`, `RegistryInvariant` is `[]IInv`; `AccountsAreSeatedOnce`,
`SessionsHaveAHost` and `SocketsSpeakForOneMember` follow; `JoinsKeepASeat` is the
action property, from the same invariant. The lemmas say what a departure does to
the seats (`LeaveSession` is used by four actions) and are cited by each.
`CrewsAreTracked` needs only the types: a departure drops a server only when its own
object was the last under it (`CrewsAfterDeparture`), whatever server the lookup
found, and a stale report still lists under a fleet that is open.

**FleetSessionsRefinement.** `ImplementsTheRoster`: `Spec => Roster!Spec` under the
mapping seat ← `FleetOf`, hosts ← accounts with a desktop seat, issued ← `used`. A
departure is `Departed(S, M, u)`: the seats of `u` vanish, and so do the fleets left
without a desktop player. `DepartureMoves` shows that it is a `Move` of the roster;
create and switch are a departure followed by an arrival, one `Move` together;
everything else changes no seat of an account.

**ConnectGateProofs.** `GateTypes` is `[]TypeOK`. `FreshTokens` rests on `Usable`: a
token that has not been answered for is in the map as long as it is valid.
`TimedOutInTime` and `SilenceBounded` rest on `Thread`: one task runs at a time, a
waiting task is in the queue, and a silent connection's task is still armed. The
former adds `SleepsLongEnough` (the wait of a silent connection plus the rest of its
sleep is at least the timeout). The latter adds `WithinBudget`: the wait of a silent
connection plus the pending sleep is at most one timeout per task that started, so
at most `Timeout * Cardinality(Conn)`; time passes only in a sleep because an idle
thread has an empty queue, and then nobody is silent.

**DetectionProofs.** For any sockets, flows, windows and parameters that satisfy
`ConstantsAssumption` and `TwoWindowsAssumption`. `IInv` joins the run's invariants
with three facts. `NoGameNoIdentity`: before the first connection nothing is locked
(otherwise the first socket could be the identity's). `EchoesAreBarred`: while the
echo of a game that a switch ended may last, its identity is barred, is the one on
probation, and the quarantine is exactly as old as its end; so the review cannot
lift the bar. `SwitchTakesTwoWindows`: when a socket is pending the probation is over
by the next window; this is what lets a switch replace the quarantine without letting
an echo go. The lemma `Lock` is the only fact used of the choice of an identity: it
is kept, or goes to a flow that counts, off the game's socket, with twice the packets
of the old one. `IdentitiesAreHeld` is the action property, from the same invariant.

**CapturePipeProofs.** `PipeTypes` is `[]TypeOK`. `PipeInv` says whose the contents of
the pipe are in every phase, and gives `AnswersAreOwn`. `StopInv` gives
`StopsInTime`: it bounds, for each place the service can be in, how long a stop can
have been waiting there plus what is left of a pause. It needs `HintAssumption`: the
slack of the hint covers the overrun of a capture, and the hint covers a cooldown
followed by a backoff; the real 250 ms and the hint of the capped window satisfy it
amply. `PromptReader` (a client that is there has read its answer before any time
passes) gives `AnswersAreKept`: only a stop or the end of the server cuts an answer
off. `GapInv` gives `GapsAreRiddenOut` from `BudgetAssumption`, that a client's
budget outlasts the cooldown: a client that has met nothing but the gap has waited no
longer than what the server has paused. A server that backs off from a failed cycle is
not rotating, and a client that met it met more than the gap: no budget is compared
with the backoff.

**InductionLemmas.** Induction is stated of sets and functions, so that a property is
proved by induction as the set of the numbers (`IntervalInduction`) or of the subsets
(`SubsetInduction`) that have it; `GreatestNatural` bounds a descent;
`IntervalRecursion` says that a recursive function on an interval exists and is the
only one, which is what `CHOOSE` needs before it can be opened. All of it comes from
the well-foundedness of `<` on the naturals.

**CaptureCycleProofs.** Four theorems.

- `GameTrafficIsInFlows`. `ScanInv`: the process of a steady port still owns it, and
  is still to be looked up unless the port is found. `WindowInv`: a packet of the game
  that was read is in a thread's hand or in a flow. Their composition is that the
  filter of the window is what the scan found.
- `ClosestWineserver`. An ancestor chain is a recursive function with a bound
  (`ChainWalks`); a walk has no process twice, so that it cannot be cut short by the bound
  (`WalkIsShort`): it ends at a root, or where it would turn back. Ancestors of ancestors
  are ancestors in either case (`AncestorsClosed`), so that from where a candidate's chain
  joins the game's all the rest of the game's is shared (`SharedOnwards`), and the one
  that joins nearer shares more (`NearerSharesMore`). Nothing is assumed of the tables:
  cycles, which the code guards against, are included.
- `CycleTypes` is `[]TypeOK`, from `TypeInv`. It needs the previous lemmas for one
  conjunct: the wineserver resolved is a process or none.
- `NoPacketIsLost`. `Total` is a fold over the flows; `SubsetInduction` gives what one
  more packet, or a flow taken out, does to it. `LossInv` is the strengthening: before
  a capture begins there are no flows, no hands full and no sockets, the flows are
  empty until they are returned, and a thread that has its socket still to open has none.

**DesktopShellProofs.** Since a behaviour runs one part, each part's invariant is kept
by its own steps and left alone by the others (`OverlayKept`, `PresenceKept`,
`BannerKept`, `CalmKept`, `ClickKept`). `HotkeysAreBound`, `OverlaysFloat` and
`OverlaysAreReachable` are inductive with the overlay's types and the fact that the
home screen is there. `ProfilesAreNeverOutdated` rests on what a profile shows: only
through a client of a Discord that runs, and the last command sent is the last in the
channel. `ClicksAreTheGames` is for any windows and any sizes, the arithmetic of the
click point included (`PointIsOnTheButton`, `Truncated`). `LoopsLeaveNoBanner` is for
any number of diagnostics. `NoFalseAlarms` assumes `OneDiagnostic`, one diagnostic at
a time and `Escalate >= 3`: two that overlap take the flag down under each other, and
then the loop's failures pile up while the second still captures. `Calm` counts: each
diagnostic costs the loop one failed attempt at most, and its own success ends the
streak.

`ExportsAreTheTail` rests on two facts. `FilesOk`: in every state the files hold the
last lines written, one after the other, under the names that the rotations gave, and
only the newest may be empty; `WrittenOk` and `RotatedOk` say that a line and a
rotation keep it. `ExportInv`: the names still to read are in the order of their age
(`Descending`), and all their lines come before what is kept; it survives a rotation in
the middle of an export, because the names given since are not listed, and the current
file's, the only one that a rotation gives to another file, is read before anything is kept. Without a rotation there
is a number `m` of files still to read (`Gapless(m)`), the oldest, and what is kept
begins where they end; when the export is over and the budget is not, `m` is 0. Nothing
is kept only while the newest file at most was read, since the others are not empty.
`HeldIs` opens the recursive sum of the property: the files hold what was written
since the first line of the oldest. `ShellKeepsTypes` is `[]TypeOK`: `ShellTypes` adds
to each part's types what they rest on, the order of the files for the log, the jingle's
flag for the count of jingles, the home screen for the overlay.

Model-checked only: liveness (`NoGhostLeftBehind`, `NobodyIsHeld`, `WindowEnds`,
`VerdictFollowsTheService`, `ComesBack`), because the prover does not reason about
fairness. Every safety invariant and action property of the passing runs has a
theorem; `NoFalseAlarms` alone has a hypothesis beyond the named assumptions of the
modules, `OneDiagnostic`.

## 5. Where the code and its comments disagree

Four runs exhibit a disagreement between what the repository says and what the code
does; `PROJECT.json` quotes the lines.

1. `switch_closes_socket`: joining another fleet leaves the previous one with the
   *incoming* object, and `leaveSession` closes that object's socket: the player is
   seated on a closed connection (SM 255; `createSession` avoids it).
2. `late_cleanup`: the clean-up of a dropped connection resolves the member, gives up
   the lock, and evicts the member who has reconnected meanwhile (SS 566).
3. `stale_banner`: a diagnostic that outlives the game stores its verdict after the
   loop's reset, and the banner stays over a closed game (diagnostics.rs 281).
4. `overlay_resurrected`: an overlay hidden with the settings' checkbox is shown again
   by the next loss of focus, because only the hotkey writes the intent (main.rs 402).

Other known disagreements, seen while modelling, without a run. In the backend:

- A ghost on a server: a report resolved before its seat was replaced lists an object
  that nobody will remove (SM 583), and the object of a resumed seat can be listed
  under two servers of its fleet until it leaves both (SM 376-386).
- A swallowed lock timeout: in the clean-up it is logged and nothing retries, so the
  member whose socket closed stays for good (SS 574).
- CONNECT against its timeout: the task that woke up just before the CONNECT cancelled
  it closes the connection that is being seated; the clean-up may run first, find
  nobody, and the player is then seated for good on a closed socket (SS 375).
- A stale master order: it is authorised by a flag read before the lock is taken again
  (SS 183); the sender may have been demoted or moved when the order is carried out.
- A guest as master: PROMOTE can make one (SS 218), although a guest "is never a host"
  (SS 388-389).
- A nameless CONNECT: "Kick the player without username" (SS 411) returns without
  closing; the token is consumed, the timeout cancelled, and the connection stays.
- `SwitchSession` reads the master flag of the incoming object, so a master who moves
  leaves the old fleet without one (SM 326-327 read `player.isMaster()`).
- Session codes are random and put in the map without a check; the model draws them
  fresh (fleet/Fleet.java 44).
- "1 seconds timeout" (SS 86) is one second per connection ahead on the shared
  thread, connections already closed included: this is the bound of `SilentIsClosed`.

In the detector:

- "Everything on the dead game socket keeps the full TTL" (FI 236): the quarantine is
  replaced, not extended, at each switch (FI 470), so that the flows of the socket
  before the last are let in again as soon as the player switches twice; the previous
  identity alone is safe, because two windows outlast its probation (`NoEchoRelock`).
- "Host silence past the grace demotes the STATUS" (FI 214): a window that finds a
  pending socket returns before the grace is looked at (FI 421-434), so that loud
  windows of two foreign sockets in turn keep a dead game shown; hence the second
  disjunct of `ShownGameIsAlive`.
- A lock that moves during a host gap is published with the next window that has a
  host: `Holding` publishes only where no server is shown (FI 759-761).

In the capture and the desktop shell:

- Two diagnostics at once share one flag: the first to end lets the loop capture into
  the second (diagnostics.rs 392-409), which is why `NoFalseAlarm` is for one.
- A client whose budget ends in the gap between two pipes, after it has waited another
  capture out, reports the service absent (`GivenUp`).
- On Linux a signal that interrupts a read ends the window: the narrow test there
  takes only a timeout for no error (`Recoverable`).
- When the start-up registration of the hotkey fails, asking for the default again is
  answered Ok without binding it, because it is the one on record; and when the old
  accelerator cannot be released both stay bound (main.rs 997-1010).
- The overlay can be closed by itself, and nothing but a restart brings it back.
- "When BetterFleet loses focus [...] Re-assert it so it keeps floating over the game"
  (main.rs 391-395): the handler is for the main window alone. The overlay takes the
  focus when its toggle is clicked or it is dragged, and when the player then clicks into
  the game, nothing raises it again until the hotkey, the checkbox or a loss of the main
  window's focus does. `OverlayFloats` leaves that time out (`slipped`).
- A panic in the jingle's thread would leave its flag set, and no jingle would play
  again; the model's thread ends.

## 6. Plan

Order by importance of what can go wrong; each with its abstract promise.

1. `FleetSessions` + `SessionRoster`, proofs and refinement (done).
2. `ConnectGate`, proofs (done).
3. `Detection`: the desktop app's detector, proofs (done).
4. `CapturePipe`, `CaptureCycle`, `DesktopShell`: the rest of the desktop process,
   proofs (done).
5. `GameSync` composed with the server part of the registry: a client's reports over
   reconnections, and the promise that the backend ends up listing the player under
   the detected server.
6. `FleetClient`: socket replacement, awaits, countdown and automatic set sail.
7. `GeoLookup`: cache, in-flight gate and application to fleets.
8. `AllianceAttempts` and `DailyStatistics`: delayed snapshots, the day boundary.
9. `Directory` (with the client's store), `ReleaseCache`, `Watchdogs`.

## 7. Not modelled

The web view's own logic and the backend's side services (geolocation, statistics,
alliance attempts, directory, release cache) are in the plan above, not in a module
yet. Bug reports, accounts, updater, rendering, website pages, deployment and scripts
are left out for good: their state is a library's or a page's, without protocol of
ours (see the notes in `PROJECT.json`). Broadcast contents: every broadcast carries the
whole fleet, and a client replaces its copy. Sessions live in memory only, so there is
no crash recovery to speak of in the backend: a restart is the initial state with all
connections dropped. In the desktop process: the text of a diagnostic's report and the
relaxation for captures that see no outbound packet, the frames' encoding, IP headers
beyond ports and peers, the pointer's ballistics, the X11 atoms and messages.

## 8. Running the checks

`tlc -config Registry.cfg MCFleetSessions.tla` and so on, one configuration per run
(`PROJECT.json` lists them); `tlapm FleetSessionsProofs.tla` and so on for each module
whose name ends in `Proofs`, `tlapm FleetSessionsRefinement.tla` and
`tlapm InductionLemmas.tla`. Most runs finish within a minute, the longest
(`capture_pipe`, `capture_cycle`) within a few; a proof module takes a minute or two,
`DesktopShellProofs` a few.
