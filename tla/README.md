# ScrcpyCat in TLA+

A verification project for the Go core of ScrcpyCat, a self-hosted service that
manages and mirrors Android phones. Paths below are relative to `src/`.

- `CP` = `backend/internal/controlplane`
- `AG` = `agent/internal/agent`
- `DEP` = `adb-deployer/internal/deployer`

## 1. The system

**Control plane** (`CP`, one process). HTTP handlers, one goroutine per
websocket, a one-minute maintenance loop. They share two things: the *store*
(`store.go`, maps under one mutex; `postgres_store.go` writes all of it as one
JSON document after every mutation) and the *hub* (`realtime.go`, which socket
is the agent of a device, which browsers watch it).

**Agent** (`AG`, one process per phone, on the phone or on a host). Dials the
control plane, saves its identity, executes tasks, captures the screen with
scrcpy and serves browsers over WebRTC.

**Deployer** (`DEP`). Finds phones over ADB, asks the control plane for a
one-time enrollment token per phone and runs the agent.

**Browser** (`frontend/web-app`). Talks to the control plane, and to agents
through it or over WebRTC.

### Inventory

| Component | State | Operations | Interacts with | Hard part | What makes it correct |
|---|---|---|---|---|---|
| Tasks and presence (`CP/store.go`, `operations.go`, `server.go`) | task × device status, `Device.Online`, document | create, notify, claim, dispatch, started, result, expire, mark unknown/offline, delete device | agent sockets, janitor, PostgreSQL | replaced connections, messages lost with a socket, crash between lease, write and send | at most one dispatch, statuses are true and final, no lost wake-up |
| State document (`CP/postgres_store.go`) | JSON of the store, `healthErr` | persist, load | every mutation | failed and ambiguous writes, fields missing from the document | an acknowledged change survives a restart |
| Enrollment (`CP/deployment_credentials*.go`, `store.go`) | credentials, enrollments, agent tokens | create/revoke credential, issue, exchange, expire | deployer, agent, PostgreSQL | memory changes before the write; revocation races exchange | one-time, dies with its issuer, no secret before it is durable |
| Host deployer (`DEP`) | worker per serial, identity file | scan, start, stop, renew | ADB, control plane, agent process | exit code 3, retries, replug between scans | one worker per phone; the phone ends up connected |
| Browser sessions (`CP/auth.go`, `browser_ticket.go`, `browser_access.go`, `user_sessions.go`) | tokens, token versions, one-minute tickets, sockets | login, logout, ticket, connect, watch | hub, store | logout or revocation racing a connect | a withdrawn right closes the socket |
| Users, shares, tags, settings (`CP/admin.go`, `store.go`) | maps | CRUD | browser sessions | last administrator | access follows the records |
| Preview and audio hub (`CP/realtime.go`, `preview.go`, `audio_stream.go`) | subscribers, selected request, queues | subscribe, publish, drop | agent, browsers | selecting and sending are two steps | the agent is told the request in force |
| Login limiter, handshake slots (`CP/login_limiter.go`, `server.go`) | counters, a semaphore | allow, fail, reserve, release | HTTP handlers | check-then-act | bounds hold, slots are returned once |
| Media manager, scrcpy bridge (`AG/webrtc.go`, `scrcpy.go`, `media.go`) | sessions, capture needs, process | offer, answer, start, stop | browser, scrcpy | callbacks of an older process | one process, serving the current needs |
| File and terminal sessions (`AG/files.go`, `terminal.go`) | transfers, ptys | open, chunk, finish, close | data channels | chunk, finish and close race | no transfer outlives its session |
| Assets (`CP/operations.go`, `AG/operations.go`) | file, row in memory, row in the document | upload, list, use in a task, download, fetch | tasks, agent, PostgreSQL | a crash between rename, row and write | what is listed has its content; a task gets the chosen file |
| Redis bus, telemetry and audit, codecs, adb, frontend | | | | | not modelled: fan-out, measurements, formatting, I/O, UI |

`PROJECT.json` lists every component with its status and every hazard at its
line.

## 2. Modules

| Module | Content |
|---|---|
| `TaskDispatch` | tasks, presence, agent connections, the document (as one write) |
| `TaskLifecycle`, `TaskRefinement` | what a task promises its user, and the mapping that shows `TaskDispatch` implements it |
| `TaskDispatchProofs` | type correctness, at most one dispatch |
| `TaskOutcomeProofs` | one socket per device, true and final outcomes, the refinement |
| `Enrollment` | credentials, enrollments, identities, host worker, the document (in parts) |
| `EnrollmentProofs` | type correctness, durability, validity, one-time use, revocation |
| `BrowserSession` | users, shares, tokens, tickets, browser sockets, the document (as one write) |
| `BrowserSessionProofs` | type correctness, final logouts, final withdrawals |
| `PreviewHub` | subscriptions, selection and sync of previews, audio listeners, clients of an agent |
| `AudioFanout` | `publishAudio` and `writeAudio` around the bounded queue of a browser |
| `LoginLimiter` | failed logins per account and per address |
| `AgentHandshake` | the slots of handshakes under way |
| `AssetLibrary` | uploads, rows, document, tasks with an asset, the agent's fetch |
| `ControlPlaneProofs` | hub, audio queues, handshake slots, login limiter, asset library |
| `MediaManager` | what the agent captures, for which viewers, previews and listeners |
| `SharedEncoder` | the bit rate of the encoder the viewers share |
| `CaptureBridge` | the capture process, its waiter and its readers |
| `CaptureProofs` | bridge, encoder and media manager |
| `FileSession` | uploads, downloads and installations of a browser |
| `TerminalSession` | shells over the socket and over data channels |
| `ChannelProofs` | file sessions and shells |
| `DeployerScan` | scan loop, workers, deployments, shutdown |
| `DeployerProofs` | one worker per phone, checks before stops |

The `MC...` modules are the instances. `MCTaskDispatch`, `MCEnrollment`,
`MCBrowserSession` and `MCDeployerScan` instantiate one module each.
`MCControlPlane` (hub, audio, limiter, handshake, assets), `MCCapture` (manager,
encoder, bridge) and `MCChannels` (files, terminals) put modules side by side
that share no variable. A step of one changes nothing in another and every
property is about one of them, so a variable `part`, chosen at the start, picks
the one that moves, and a run explores the sum of their states instead of the
product. A part that rests is in its initial state, where no action it is fair
to is enabled.

`TaskDispatch` starts where `Enrollment` ends: `UpsertAgentDevice` is what
`registerAgent` does after the hello was accepted. `BrowserSession` shares with
them only the document, of which each module keeps the maps it reads back.

### 2.1 TaskDispatch

*Actors.* One handler per connection (`pc`, `todo`, `claim` are the locals of
`registerAgent`), one `createTask` per task (`notify`), the janitor, an
administrator who deletes devices, and per device the agent's read loop
(`agentConn`) with its `executeTask` goroutines (`exec`).

*Store.* `status`, `device`, `payload` are the maps; each store operation is one
critical section. The goroutine is then in `unsaved` and does nothing until its
`Persist`, which writes the whole memory to `disk`. Snapshot and write are one
step here: handlers of this module ignore the result, and no answer depends on
the order of two writes. When `DbMayFail`, a write may be lost without anybody
noticing (`mutate` drops the error). A heartbeat or a `Clean` that changed
nothing rewrites the document too; that is a step only if the document is
behind and no other write is due.

*Hub and sockets.* `agents` is `hub.agents`. A connection carries a bounded
queue in each direction; a write to a closed socket, or by an end that missed a
deadline before (`mute`), fails silently. A closed socket can still be read
empty. The steps of registration (`UpsertAgentDevice`, `SetAgent`,
`ClosePrevious`, `ListPending`, `Announce`) and of its deferred cleanup
(`EndConnection`, `MarkOffline`, `MarkLeasedUnknown`) are separate, as the code
holds no lock over them. `previous` is the socket that `hub.setAgent` returned to
the new handler and that is still open until its `previous.close()`; handlers may
replace each other in between, so several can be open.

*Faults.* Broken link, stalled writes, agent crash, control-plane restart
(`status` and `device` from `disk`, no payload, empty hub).

*Abstractions.* A task is a name; its payload is "there" or "gone" (the fields
behind it, `command`, `package` and the like, are `json:"-"`; an asset task keeps
`AssetID`). A heartbeat is read when it is sent. Redis publication, the audit
log and device lists sent to browsers are left out. An agent task runs as long
as it likes and ends with success or failure.

### 2.2 Enrollment

*Actors.* Request goroutines `G`, the janitor, per device the host worker
(`worker`, `renew` are `hostLoop`'s locals) and the agent process (`agent`,
`env`, and the file `identity`).

*Persist in parts.* `CreateDeploymentCredential`, `RevokeDeploymentCredential`,
`IssueEnrollment`, `ExchangeEnrollment` and `Clean` change memory and put their
goroutine in stage "changed"; `Snapshot` takes `persistMu` and copies memory;
`WriteDocument` writes the copy, sets `healthErr` and unlocks; a `Reply...`
action answers. While the database is down a write reports an error, and it may
or may not have taken place.

*Health.* Creating, issuing and exchanging refuse while `healthErr` is set;
revoking and `Clean` do not. Check and change are one step: a failing write
between them carries an older snapshot and can be moved after the change.

*Waiting.* `caller[d]` is the goroutine that works for the phone's worker or
agent. A broken link or a dead worker forgets it; the goroutine goes on and its
answer reaches nobody.

*Tokens.* `issued` and `granted` record what a token is bound to; they never
change, the document holds which tokens exist. A token is drawn once. The
identifier of a credential whose creation failed and was forgotten may be drawn
again. Enrollments are bound to a device, as the deployer always passes a serial:
one drawn by hand for no device, and a deployer with a fixed `-enrollment-token`
instead of a control-plane URL, are left out.
`lapsed` is the set of tokens past `ExpiresAt`; a credential takes its
enrollments along, because they are issued with the earlier of the two ends.

*Identity file.* The agent sends the token of the file and the enrollment it was
started with in every hello. It saves the token of every `agent_config`; when
that fails (`SaveFails`) it only logs the error and stays connected.

*Abstractions.* Handshake slots, `RequireShellV2`, the artifact checks and
`stopAgent` of the worker are left out: each of them can only make a start fail
and be tried again, which `WorkerFails` covers.

### 2.3 BrowserSession

*Actors.* One `connectClient` per connection (`pc`, `key`, `peer` are its
locals) with its watcher, one `logout` request per token (`logout`), requests
that change users and shares (`job`), the janitor.

*Tokens and tickets.* A token is a signed statement (`claims`: user and
`TokenVersion`) and is stored nowhere; a logout is a stored exception to it
(`revoked`), dropped when the token ends (`lapsed`). A ticket repeats the
statement for a minute and may be used more than once, so `tickets` is the set
of what live tickets stand for. A share has no token: its ticket names the share.

*Records.* A user or share is a version and its `rights`, which stand for
everything `reflect.DeepEqual` compares, `ExpiresAt` included; `over` holds the
rights whose time has come. `SharesFor` and `AuthorizeShare` delete shares that
are over, in memory only (`Swept`), and every check of a share ticket calls one.

*Steps.* `CheckToken` (is there a logout?), `Admit` or `Deny` (is there still a
user?), `Upgrade` (which may fail; the watcher starts) and `AddBrowser` are
separate, since no lock spans them; `Logout`, `Persist`, `DisconnectToken`
likewise. A tick of the watcher is a step when it closes the socket. `Confirm` is
the answer of every handler that changes a user or a share.

*History.* `loggedOut` and `floor` record what users were told: tokens logged
out, and the lowest version (above all of them after a deletion) still valid.

*Abstractions.* Signatures, password hashes and the login limiter are left out:
a login or a ticket that they refuse changes nothing here. The bootstrap
administrator is not among the users, so `DeleteUser` never meets the last one.
`adminCreateUser` and `shareCreate` are a `Create` and an `Update`. Streams,
previews and audio of a browser are in `PreviewHub`.

### 2.4 PreviewHub and AudioFanout

*Actors.* One goroutine per browser socket, the handlers of agent sockets.
`todo[b]` lists the critical sections b's goroutine still has to run for the
message in hand: the hub lock is taken and released several times per message,
and writes to an agent happen outside of it. `syncPreview` is therefore two
steps, selecting and sending. What an agent does is what it was told last:
`told`, `audioOn`, `clients`. `setting` picks what browsers ask for and which
agents may stall or leave; it never changes. `access` is the connect-time copy of
the user that the handlers ask (`peer.user`): it never changes either, a browser
whose user changes is closed by its watcher (`BrowserSession`).

*Agents.* `up` says that `sendAgent` reaches the agent. It fails when the agent is
not in the hub, and also when a write misses its deadline (`StallWrites`): then
every later write on that socket fails, while the agent keeps its place in the hub
and does what it was told last until its socket ends (`RemoveAgent`) or another
takes its place (`SetAgent`). Any of `preview_start`, `start_audio`, `stop_audio`
and `client_disconnected` can so be lost.

*Audio.* A publisher holds the read lock and goes through its subscribers:
offer the frame, if the queue is full drop the oldest, offer again. Several
publishers do so at once. `writeAudio` takes a frame and writes it; the write
may hang until its deadline.

*History.* `raced` marks devices on which two syncs overlapped since the last that
ran alone; `orphaned` those whose last listener was taken by the undo of a failed
`start_audio`. `raced` is also set by a new agent, which is told nothing of the
previews that are wanted.

*Abstractions.* Preview frames and telemetry pass through without state.

### 2.5 LoginLimiter, AgentHandshake

A login is three critical sections: `Allow`, the comparison of the password,
`RecordFailure` or `ClearAccount`. Time is counted in ticks; an entry keeps the
ticks left to its `resetAt`. A handshake takes a slot without waiting and gives
it back when the agent is admitted, else in the deferred function that looks at
the handler's own `reserved`.

### 2.6 AssetLibrary

An upload is its steps (temporary file, rename, row in memory, write of the
document), and a restart may fall between any two. `byName` and `assets` are the
store's maps, `path` the assets whose file name is known in memory. A task with
an asset is created with a grant, handed out in one step (the lease is in
`TaskDispatch`), fetched and compared with its checksum.

### 2.7 MediaManager, SharedEncoder, CaptureBridge

*Manager.* One handler of the signalling connection and the state callbacks of
peer connections. `hold` is the owner of the manager's mutex and what it has
read so far; the session map has its own mutex and shrinks meanwhile.
`pending` are callbacks that still have to run `StopIdle`, also those of an
earlier connection. `setAnswer` writes back a session it found before: if that
one is gone a zero session comes back (`Ghost`), and closing it is a nil pointer
(`crashed`). `disturbed` marks a capture that changed outside a reconcile (a
process that failed, an offer that failed, a group control event); the
properties speak of captures nothing happened to. A `request-offer` of a client
that has a session takes no mutex and is handed on (`RepeatOffer`); when a callback
removes the session before `createOffer` looks for it again, a session comes in
for which nobody started a capture or compared encoder options (`AgainOffer`).
`checked` records for every session whether the comparison was made. `AudioBase`
is what `StartAudio` adds audio to: the options of the running capture, or the
requested ones when the capture has no source.

*Encoder.* Viewers join with fixed or adaptive rates; `updateBitrate` commands
the slowest target, throttled to one command a second and to changes of 10 %. The
decision (under the lock) and the command (after it) are one step, and
`CommandSuitsEveryone` is about the decision.

*Bridge.* Processes are numbered by launch. `stop` is the `stopLocked` under way,
which holds the mutex for up to the grace period; waiter and readers of a
process outlive it and compare it with the current one before they act, except for
a session packet, which sets the size of whatever process it is of (`ReadSession`).

*Abstractions.* SDP, ICE and packets belong to the WebRTC library; of a packet
only its effect on the bridge is kept (first SPS, control socket, whose size).

### 2.8 FileSession, TerminalSession

*Files.* `Caller` are the goroutines that call the manager: in the agent one (the
signalling reader, which also runs `CommitUpload` and waits for it), in the
repository's tests several. The run has one, the proofs any number. Staging,
accepting, writing, committing, removing and acknowledging are separate steps, as
the lock is dropped between them. A commit may have moved the file although it
reports an error, and a commit that hangs may hang for ever. Chunks are a size,
which may be 0 as control plane and agent let empty chunks pass, and whether they
fit the checksum.

*Terminals.* The signalling reader, the callback of a peer's state and one
goroutine per data channel open and close shells; the reader of a shell ends by
itself and removes its own entry only. The browser chooses the id of a shell on
either way (`Key`, `KeyOf`), so the socket and any number of channels may use the
same one. `open` closes the older session, starts a shell and enters it, and holds
nothing in between: what it enters may overwrite what another goroutine entered
meanwhile. `contested` is history: the ids that two goroutines were opening at once.

*Abstractions.* Listings, terminal input and resizing carry no state.

### 2.9 DeployerScan

A scan takes a list of phones and acts on it later, one phone at a time, while
phones come and go. `entry` is `r.hosts` or `r.busy`; `workers` are the
goroutines with the steps of `hostLoop` or of a deployment; `mode` and `force`
are the configuration. Shell commands are reduced to whether they work;
`stopAgent`'s script, which answers 0 in any case, is taken to end an agent of the
shell's own user (its last resort is `kill -9`).

### 2.10 TaskLifecycle

A status that moves along a few edges, a stored status, the tasks that were
handed out and the outcomes that happened. `TaskRefinement` maps `phase` to
`status`, `stored` to `disk.status`, `handed` to the pairs with a dispatch. The
refinement is for writes that succeed (`DbMayFail = FALSE`).

## 3. Runs

| Run | Shows | Size |
|---|---|---|
| `task_safety` | at most one dispatch, no replaced socket is forgotten, refinement of `TaskLifecycle` | 989 k states |
| `task_outage` | outcomes are true and final, also when writes fail unnoticed | 755 k |
| `task_liveness` | no lost wake-up, expiry, presence repaired | 175 k |
| `task_replaced` | **violation**: a replaced handler marks the device offline | |
| `enroll_safety` | durable before disclosed, valid identities, one-time, revocation | 1.06 M |
| `enroll_liveness` | the phone connects, also after its identity was forgotten, and health returns | 193 k |
| `session_safety` | password resets, deletions and revocations are final | 1.37 M |
| `session_liveness` | sockets of void logins and of changed or ended users and shares are closed; logouts are final although writes fail | 527 k |
| `control_plane` | `HubInv` (previews follow the hub and need a subscription, nothing stays of a gone browser, audio is wanted; also when writes to agents fail), `FanoutInv` and `NewestIsKeptInOrder` (the queues), `LimiterInv`, `HandshakeInv` (slots are exact), `LibraryInv` (listed assets have content, tasks get the chosen file) | 1.43 M |
| `capture` | `MediaInv` (captured exactly while wanted, with everybody's needs), `BridgeInv` and `EndsForItsOwnReason` (one process, late goroutines harm nothing), rates suit everyone, captures stop and exits are reported | 379 k |
| `channels` | `FileInv` (only whole files, no stage left behind), `TerminalInv` (no shell without somebody to close it), everything ends with its browser | 507 k |
| `deployer` | `ScanInv` (one agent per phone), checked before stopped, a phone that stays plugged in is served again and again, a stop completes | 136 k |

*Bounds.* Tasks and devices do not interact except through the document, so one
of each is enough for the properties, all of which are about one pair. Two
connections give every overlap of a dying and a new handler; a third would need
the first to be gone. `MaxInFlight` = 2 lets a claim and a result, or two
announcements, be under way; 1 for the larger fault sets. Two goroutines and the
janitor give three concurrent writers of the document. `Enr` and `Tok` bound how
often an enrollment can be tried: each attempt that uses one up needs a fault,
and `HostAgentComesOnline` speaks of phones that have an enrollment left; in
`enroll_safety` running out only stops the phone.
`MaxFaults` bounds faults, never ordinary steps.
In the session runs a connection is used once and properties speak of one
connection and one login, so one of each is enough. Three changes
(`MaxChanges`) make a record, change it and withdraw it, two of them
concurrently; users and shares do not interact and `ApartSpec` and `FairApartSpec`
change either.

- `control_plane`: one device whose agent may stall, leave and come back, two
  browsers and three preview requests give every overlap of two syncs; previews,
  and audio with sessions, are explored apart; a queue of two and four frames of two devices
  overflow it twice; three logins against limits of two and three overtake them;
  four handlers for two slots; two uploads with one or two names, one task, two
  restarts (one to lose something, one to lose what was repaired).
- `capture`: two viewers with three kinds of offers on one connection, two viewers
  of which one comes back by a repeated offer with another encoder (the only case
  with three peers), or one viewer on both sources over a reconnect (`Scope`); two
  viewers with four kinds of limits, estimates below, inside and above them; two
  launches, so that every late goroutine meets a successor.
- `channels`: one caller, as in the agent, one upload of no or of two chunks and
  empty chunks in between, two sessions, two jobs; three shells of one id over a
  socket and a channel. Two ids meet nowhere: every operation is about one, or
  goes through a client's one by one. More callers, uploads and ids are in the proofs.
- `deployer`: two phones, two unplugged cables. `MaxWorkers` is never met in
  host mode.

Deadlock is checked in the task and enrollment runs; the others may end when
their connections, requests or launches are used up.

*Fairness.* Weak fairness per goroutine, since Go schedules every runnable
goroutine: a handler, a `createTask`, the janitor (a ticker), the agent's read
loop and its heartbeat ticker, the worker's retry loop. Strong fairness only for
taking `persistMu`: others take it in between, and Go's mutex goes to a starving
waiter first. No fairness for users, the clock, faults, recovery of the
database, a dial, or the end of a task's own command; liveness properties say
what they assume of those ("the agent stays connected", "the database stays up").

A connection's handler and its watcher (a ticker) are fair; administrators,
logouts and browsers are not. In `TaskDispatch` a handler that has read a message
is strongly fair, because waiting writes of others switch it off and on. In the
agent, the owner of a mutex goes on (weak) and a waiter gets it (strong); a
cancelled job returns, since its context kills the command, but nothing is assumed
of a commit; shells' goroutines and callbacks run. In `DeployerScan` workers and scans are weakly
fair, and `LuckySpec` adds that what is retried again and again (a start, a
deployment) works in the end. Nothing is assumed of browsers, cables or captures.

*Finding.* `ReplacedAgentKeepsPresence`. `registerAgent`'s deferred cleanup calls
`removeAgent` and then `MarkOffline`, two critical sections. An agent that
reconnects in between is marked offline, and its leases unknown, by the old
handler. `TestReplacedAgentDoesNotMarkNewConnectionOffline` covers only the other
order. `ConnectedIsShownOnline` shows that the next heartbeat repairs the flag,
unless somebody deletes the "offline" device first.

*Worth knowing.* Limits of what the properties say, which follow from the code:

- With failing writes `AtMostOnceDispatch` does not hold: a lease that was sent
  but not stored is queued again after a restart. A password reset, a deletion
  or a revoked share is confirmed by `mutate` whether or not it was stored, while
  a logout reports the failure: so `LogoutIsFinal` holds with failing writes and
  `WithdrawalIsFinal` needs them to succeed.
- `WithdrawalIsFinal` speaks of requests that look their user or share up after the
  confirmation. One that has just read the old record is upgraded all the same, and
  its socket closed by the watcher (`StaleBrowserLeavesHub`). It also speaks of
  revocations that found the share: `shareRevoke` answers success, without a write,
  for one another request has just removed.
- Between `hub.setAgent` and `previous.close()` a device has two open sockets past
  their registration. `OneOpenAgentSocket` says that each but the hub's own is in the
  hands of a handler whose next statement closes it.
- A revocation ends with its token: a socket of a logged-out token whose seven
  days end before the watcher's next tick stays open.
- `Task.Payload` and `Asset.Path` are `json:"-"`: a task still queued at a restart
  is dispatched without its command (`DispatchCarriesPayload` states the
  opposite and does not hold), and an asset is listed and cannot be served.
- Two overlapping `syncPreview` can write in the opposite order and leave the
  agent on the older request; `SerialSyncIsExact` (in `HubInv`) says that the next
  sync that runs alone and reaches the agent repairs that, and what a stalled write
  or a reconnect left behind. The undo of a failed `start_audio` ignores that it took
  the last listener and sends no `stop_audio`: an agent that came back for another
  listener, who left meanwhile, goes on until somebody listens again. `AudioIsWanted`
  leaves out exactly these devices (`orphaned`).
- `publishAudio` of two devices into one queue can lose a newest frame:
  `NewestIsKeptInOrder` is about browsers that listen to one.
- An offer that fails after its capture was started leaves the capture running
  until the next reconcile. `currentBitrate` outlives the encoder it was sent
  to, so the command for the slowest viewer may be skipped after a restart.
- A repeated offer whose session is removed between `HasClient` and `createOffer`
  makes a viewer past the comparison of encoder options. While it is the latest
  viewer, a reconcile restarts the capture with its encoder for everybody;
  `NeedsAreMet` says that nothing else does (`checked`).
- A capture that `stopLocked` gave up on may live on beside the next one. `BridgeInv`
  has it killed and without control socket and codec. The size that input is mapped
  to follows the last session packet, of whatever process; no property speaks of it.
- The signalling reader runs `CommitUpload` itself. While a transfer hangs, the
  `client_disconnected` that should cancel it is not read, so the browser's leaving
  cancels nothing: "CloseClient needs to cancel a blocked transfer" (`AG/files.go:257`)
  and `TestClosingFileSessionCancelsBlockedUSBCommit` hold for a second goroutine's
  call, which the agent does not make. `GoneClientIsCancelled` names this as the only
  way in which a browser that is gone keeps its session; without the exception TLC
  finds the hung commit.
- Two goroutines that open one id at once (`AG/terminal.go:59` to `:78`): the later
  entry overwrites the earlier, whose shell is in no map any more; nothing closes it,
  nor its reading goroutine, until it exits by itself. The agent does not prevent it;
  the shipped frontend draws random ids. `NoLostShell`, `EndsForItsOwnReason` and
  `GoneClientHasNoShell` leave out these ids only (`contested`); without the exception
  TLC finds the lost shell.
- An empty chunk is acknowledged with the progress there is: `AcksAreDistinct` is
  about chunks with data. With the single caller of the run there is nothing to
  confuse, so it is left to the proof, for any number of callers.

## 4. Proofs

All theorems hold for every value of the constants that satisfies the modules'
assumptions: distinct names, bounds that are naturals, finite sets where elements
are counted or a map is ranged over (handlers, logins, phones, browsers, devices),
and values that stand for Go's nil (`None`, `Nothing`, `NoLogin`, `Absent`, `Idle`,
`Outside`) that are none of the records they stand beside.

**TaskDispatch.** `TypeCorrect` without further assumption. `AtMostOnce` and
`QueuedMeansUndispatched` for `DbMayFail = FALSE`. "At most one dispatch" is not
inductive: nothing in it speaks of the handler that has leased a task and not
yet sent it. `DispatchInv` adds

- `FreshTasks`: an identifier not drawn yet is nowhere;
- `ClaimHeld`: a leased task was not sent, is not offered in memory and, once
  its handler has persisted, not in the document either;
- `ClaimExclusive`: two handlers never hold the same lease;
- `UndispatchedWhenQueued`: what memory or document offer was never sent.

`Persist` is the interesting step (the document becomes memory, where every held
lease is visible) and `ServerRestart` its counterpart (memory becomes the
document, and no handler is left).

**Outcomes** (`TaskOutcomeProofs`). `OneSocket`, `RealOutcomes` and
`StableOutcomes` without further assumption: also when writes are lost.
`OneSocket` is inductive with the fact that a connection nobody dialled has no
handler: `SetAgent` hands the older socket to the new handler, and a handler that
is replaced itself before it closes keeps what it holds.
`OutcomeStable` is an action property about the store, and what could break it is
far away, a second run of the same task. The proof follows one *token* per task
and device: the lease in a handler's hands, the `task_dispatch` on its way, the
goroutine that executes it, and then its reports. `OutcomeInv` says

- `TokenParts`: there is one token, in one place; a task that has reported its
  result has none; reports are on one connection, the start first; and while there
  is a token or a report the store calls the task given away and unfinished;
- `Real`: results on their way, in memory and in the document were returned by a run;
- `FreshStore`, `Wiring`: identifiers not drawn are nowhere, the hub routes to sockets
  of the device, an unused connection carries nothing;
- `HandedIsStored` and `DispatchParts`, for writes that succeed.

When writes may be lost a restart hands a task out again, so two agents' goroutines
may have it; then only what is on an open connection counts as a token (`Effective`):
nothing else reaches the store any more. `LifecycleRefinement`, for
`DbMayFail = FALSE`, shows the initial condition and every action of `TaskDispatch`
to be one of `TaskLifecycle` or a stutter. (Both specifications are compared by their
safety part; `TaskLifecycle` states no fairness.)

**Enrollment.** `TypeCorrect` without further assumption; the others for
`"reset" \notin FaultKinds`, i.e. while nobody replaces the database. `EnrollInv`
adds

- `OneWriter`: a goroutine that writes holds `persistMu`;
- `DocumentsOrdered`: document, snapshot under way and memory extend one another
  in this order, so no write undoes anything;
- `ChangesOnTheirWay`: the change of a request is in memory, then in its
  snapshot, then in the document before a positive answer;
- `DocumentsOneTime`: in each of these documents a token granted for an
  enrollment excludes the enrollment and any second token for it.

From these follow `AcknowledgedDurable`, `IdentityValid` and
`EnrollmentIsOneTime`: two received tokens are both in the same document.
`RevokedEnrollsNobody` adds that a confirmed revocation is in document and memory,
so the check of `ExchangeEnrollment` sees it.

**BrowserSession.** `TypeCorrect`, `LogoutKept` and `LogoutFinal` without further
assumption; `WithdrawalKept` and `WithdrawalFinal` for `DbMayFail = FALSE`.
`LogoutIsFinal` speaks of two points far apart, the answer to a logout and a
later check; `LogoutInv` carries the fact between them: what the document has
revoked, memory has too (up to tokens that ended), what was confirmed is in the
document, and a logout under way is in memory, after its write in the document.
So neither a write nor a restart loses one. `WithdrawalInv` does the same for
versions: neither copy of a record is older than what was confirmed or, once
the request has persisted, is about to be; and nothing is known of an identifier
before it is drawn. `WhoAdmits` reduces both action properties to the one
action that lets a connection pass: `CheckToken` for a logout, `Admit`, which reads
the user or share, for a withdrawal.

**Control plane** (`ControlPlaneProofs`).

- `HandshakesAreAccounted`: the number of slots taken is that of handshakes under
  way, since a handler's flag says exactly whether it holds one (`FlagIsExact`).
  `NoHandlerWaits`: giving a slot back never blocks.
- `LimiterHolds`: failures counted and comparisons under way add up to less than the
  limit plus the number of request goroutines, per account and per address. The
  argument is one of cardinalities: a request that is let through was not under way
  and saw a count below the limit.
- `LibraryIsConsistent`: a listed asset has its content and a task installs the file
  that was chosen, through crashes at any point. Needs `BlobsAreOwn` (a file is named
  after its content), `NamesLead` (a taken name leads to its asset), `UploadsInOrder`
  (content before row) and `SuccessWasInMemory`.
- `HubAsksForWhatIsWanted`: `HubInv` says what holds between messages, `HubIndInv`
  what a goroutine still has to do in between. `TodoIsLawful`: the rest of the message
  in hand is determined by the life of the socket, and only the goroutine itself takes
  its browser out of the maps, so a request stored later still finds its subscription
  and the cleanup leaves nothing. `SyncsAreExact`: unless two syncs raced, at most one
  browser has selected and not sent, and if none is due and the agent can be reached
  the selection on its way, or what the agent was told, is what is wanted. A stall
  only makes `up` false, and the end of the stall goes through a new socket, which
  counts as a race until a sync has run alone. `OrdersAreUnique` makes "wanted" one
  request. `SelectionIsOrderFree` is about a loop over all requests: the induction
  along it is the least index at which the loop would not hold the best of what it
  has seen.
- `NewestFrameIsKept`, `AudioQueuesAreBounded`: the frames of a device stand in a queue
  in order, behind what was heard of it and before the one its publication has still
  to offer (`QueuesAreOrdered`); a publication that made room finds it again unless
  the browser listens to another device too (`RoomIsKept`).

**Capture** (`CaptureProofs`). `BridgeIsSafe` and `BridgeOwnReason` rest on four
facts: a process whose `done` is closed has exited, goroutines belong to launched
processes, every process that was current has a cancelled stream, and the bridge
is empty while `stopLocked` waits. `EncoderSuitsEveryone` rests on `SessionsAreSound`
(a target is within its viewer's limits).

`CaptureServesViewers`: `MediaInv` speaks of moments when nobody holds the manager's
mutex, and is not inductive: a handler acts on what it read when it took the mutex,
and sessions go meanwhile. `MediaIndInv` adds

- `TargetIsCurrent`: what the owner of the mutex aims for is what it would aim for
  now, unless a session has gone since, and then a `StopIdle` is pending and the
  source will be reconciled again;
- `CaptureSuits`: the needs are met also while the mutex is held, for every source
  its owner is not about to reconcile;
- `ProfilesAgree`: viewers whose options were compared have the profile the track was
  made for, which is why the options of the last viewer, if it is one of them, suit
  the others whatever happened to the capture;
- `OfferIsLawful`: an offer is for a client without a session, and the capture started
  for it counts as disturbed until the session is there;
- `HoldIsLawful`, `ConnIsLawful`: the owner's locals, and nothing is left of a
  connection that has ended except callbacks, which find their manager closed.

**Channels** (`ChannelProofs`).

- `ShellsAreKept` and `SessionsEndForTheirReason`: goroutines that open one id at the
  same time contest it (`OneOpener`); the id that a goroutine has closed stays free
  until it enters the new shell, unless it is contested (`IdIsFree`), so that entering
  overwrites nothing else. Only `BeginOpen` can break `OneOpener`, only `Enter`
  `IdIsFree`; `EntersItsShell` tells whose shell that is, `ShutCloses` covers `CloseAll`.
- `OnlyWholeFilesArrive`: `WholeParts` says that what a caller commits was complete
  and intact and is *finishing*, and that nothing writes to it any more; `StageIsHeld`
  that a staging file is its session's or still in its caller's hands;
  `DownloadParts` that a download marks its session, which has no other.
- `ChunksAcknowledgeApart`: all the progress that callers will acknowledge, or have,
  is at most what the upload has reached and pairwise different (`AckParts`); a chunk
  with data moves it on.

**Deployer** (`DeployerProofs`). `OneWorkerPerPhone`: a worker that has not ended is the
entry of its phone (`ActiveIsEntered`), so two for one phone would be one entry. The
step to look at is the reconcile of a scan, which starts several workers at once: as
many as phones are wanted, each wanted phone among them, so none twice.
`StopsAreChecked`: a stop was preceded by a check of the phone; `StoppedFirst` and
`ModeFitsSteps` keep an agent on the host and one on the phone apart.

**Only model-checked.** Liveness, and what uses `ENABLED`, which are out of the
prover's reach: the thirteen temporal properties of the runs above, and of `FanoutInv`
the conjunct `SlowListenerBlocksNobody` (a publication can always go on by itself);
its other conjunct is `AudioQueuesAreBounded`. Every other invariant and action
property that a passing run checks is a theorem. The other way round, type invariants
and inductive invariants of the proved modules are left to the theorems, and no run
repeats them.

## 5. State of the plan

All modules, runs and proofs that were planned are there. What could be added lies
outside: the components below, and proofs of liveness, which need another prover.

**Not modelled.** The redis bus (best-effort notifications, which an instance
drops when they are its own), telemetry and audit (measurements nobody reads
back), byte codecs and control events (tables with unit tests), ADB access (a
client of an external server), preview frames on their way to browsers (one
write each, no queue), tags, device settings and shortcuts (maps without a
protocol), the web frontend, vendored code.
