# davi-nfc-agent in TLA+

A specification of davi-nfc-agent (the Go program under `src/`, with its two
JavaScript libraries): what is modelled, what TLC checks on small instances, and
what TLAPS proves for every instance. Paths below are relative to `src/`.

## The system

The agent runs on a desktop, drives NFC readers, and publishes the cards on them
to clients over WebSocket. Phones register over a device bridge and serve as
readers too.

| Component | Source | State | Operations | Hard parts |
|---|---|---|---|---|
| Reader slot and raw session leases | `nfc/reader.go`, `nfc/reader_lease.go` | `opSlot`, `opsWg`/`opsClosed`, `isWriting`, `lease` | `withTagOperation`, `doPoll`, `BeginRawSession`/`TransceiveInSession`/`EndRawSession`, `Stop` | abandoned operations, a WaitGroup against Stop, a lease's timer against its exchange |
| Device manager and polling | `nfc/device_manager.go` | `device`, `devicePath`, retry counters, cooldown | `TryConnect`, `Reconnect`, `HandleError`, `Close` | a poll that outlives Stop, two polls that overlap |
| Tag publishing, PC/SC | `nfc/reader.go`, `nfc/cache.go`, `nfc/pcsc`, `nfc/tagdetect.go` | cache, fault latch, device, monitor | poll, card check, monitor's look, detection | two tickers, a monitor and operations on one handle |
| Writing a card | `nfc/write_and_lock.go`, `nfc/reader.go` | attempts, verified, locked | write, verify, lock, format | a repeat after a lost answer, a lock half done |
| Tag types | `nfc/tag_*.go` | what each driver knows of its card | read, write, format, lock | one family's failure told as another's |
| NTAG 424 (card protocols) | `nfc/tag_ntag424*.go`, `nfc/ntag424_budget.go` | session, keys, budget | authenticate, read, write, change key, `ConfigureSDM` | lost answers, the failed-attempt counter, sessions two clients share |
| NDEF messages | `nfc/message.go`, `nfc/ndef.go`, `nfc/tlv.go`, `server/handlers.go` | none | encode, parse, partial update | lengths at 254 and 255, short reads |
| SUN messages | `ntag424/*.go` | templates' settings, replay store | plan, configure, verify | offsets into a mirrored text, two calls on one tap |
| Supervisor | `nfc/supervisor.go` | readers, policy | reconcile, add, drop, `SetMode`, `Stop` | policy read before a reader is added, reconcile racing Stop |
| Multi manager, events | `nfc/multimanager`, `event` | managers, change fan-out | `ListDevices`, `DeviceChanges`, `OpenDevice`, `Close` | a change told while nobody waits; close against send |
| Phone bridge | `nfc/remotenfc` | sessions, devices, pending requests, active tag | register, request/response, disconnect, sweep | reconnect racing teardown, late answers |
| Client server | `server/clientserver` | clients, per-client queue, leases | dispatch, route, cleanup | queue full, a client leaving with a lease |
| Agent, listener, certificates | `agent`, `server/listener`, `secure/tls` | lifecycle state, components, preferences, bound listener | Start, Stop, ApplyPreferences, rebind, reissue | partial starts, a watcher that outlives its run |
| Pairing, origins | `secure/pairing`, `agent/pairingplugin`, `server/auth.go` | devices, PIN, rate limit, files | pair, admit, revoke, save | saves that fail or are cut short, restarts |
| Control center, log ring | `agent/console`, `logbuf` | feeds, subscribers, ring | serve, pump, record, fan out | bounded queues, two writers |
| Client library | `client/src/session/client.ts`, `client/nfc-device-client.js` | socket, timer, requests, tag | connect, disconnect, request | timer against disconnect, events of old sockets |

How the parts meet. The agent starts its components in order and owns the
supervisor; the supervisor reconciles the devices the multi manager lists with
the readers it runs. A reader has one worker, which starts polls; a poll connects
the device through the device manager, takes the reader's operation slot, reads
the tags and sends them on the reader's channel, from which the supervisor's
publisher and the agent's pump carry them to the client server's broadcasts.
Clients' requests come the other way: the client server's dispatcher calls the
supervisor, which finds the reader or phone and calls it, and such a call takes
the same slot. Phones keep a session each with the bridge, which is one more
manager behind the multi manager, and operations on them become requests over
their WebSocket. Certificates, mDNS and pairing feed the listeners through
callbacks; the console shows what all of them say.

What is hard in it: goroutines that outlive the caller who gave up on them
(operations, polls, exchanges, watchers), resources named by a string instead of by
an owner (a phone's identity, a device path, `<-r.opSlot`), stop paths that race with
what they stop, values read before an unlock and used after it, answers of a card
that are lost after the card has acted, and bounded queues whose consumers may
stall. `PROJECT.json` lists these hazards line by line, with the properties that
cover each.

## What would make each component correct

- Reader slot: one holder of the slot and one user of the card; Stop leaves
  nothing running that it said it had drained, and comes back all the same.
- Device manager: the device in use is open; a reader keeps to its path; it is
  never stuck without a device.
- Tag publishing: a card is driven as what it is, told while it is there and
  withdrawn when it has gone.
- Writing: a write is repeated only while that is harmless, and what is reported
  (written, verified, locked) is what is on the card.
- NTAG 424: a file is never a mix of two messages, reports are true, a wrong key is
  not tried until the card locks up.
- NDEF: what is written is what is read; an update keeps what it was not asked to
  change. SUN: a planned message verifies, and counts as fresh once.
- Supervisor: one reader per device, none missed, none left open.
- Multi manager: every watcher hears of every change and can open what is listed.
- Phone bridge: a live connection is its phone's session and has a registration;
  a caller is answered by its own device, or released; sequences keep apart.
- Client server: a lease ends with its client; a named tag is the only one touched.
- Agent: after Stop nothing it opened is left; no listener keeps an old certificate.
- Pairing: what was told of a pairing or a revocation stays so over failed saves and
  restarts; a PIN stands few guesses.
- Control center: what changes or is logged reaches the page, unless a queue was full.
- Client libraries: nothing waits on a dead socket, a drop is answered by another try,
  and a request is aimed at the tag last reported.

## Modules

A step of every module is one critical section, one channel operation, one handler
of a single-threaded program, or one call that leaves the program (driver, socket,
card). Definitions carry the name of the function, or of the part of it, they stand
for; `map` in `PROJECT.json` has the lines.

| Module | Models | Composition |
|---|---|---|
| `ReaderSlot` | the slot, operations, polls' turn, leases, Stop | implements `CardTurn` (`INSTANCE CardTurn WITH turn <- Holders, open <- ~opsClosed, ...`) |
| `CardTurn` | abstract: turns on one card, who may begin what with one, and until when | |
| `DeviceManager` | a reader's connection to its device | |
| `RemoteSessions` | phones' sessions, registrations, requests, active tags | |
| `RemoteTagSession` | sequences of exchanges on phones' tags | above `RemoteSessions`, whose requests are one send and one reply here |
| `Supervisor` | readers against devices, policy, Stop | above `ReaderSlot` and `DeviceManager`, of which it has a reader's worker, its polls and its device's mutex |
| `CardPresence` | one PC/SC reader's card: device, monitor, poll, card check, detection | beside `DeviceManager`; checked with `Supervisor` |
| `ClientConn` | the client endpoint: queues, dispatch, routing, leases, cleanup | above `ReaderSlot`'s lease interface |
| `Agent` | Start, Stop, components, preferences, listener, certificate watch | above `Supervisor`, whose Start and Stop are one step each |
| `MultiManager` | managers behind one: changes, paths, Close, over the events' signal | what `Supervisor` lists from; checked with `Agent` |
| `Pairing` | registry, origins and their files, PIN gate, restarts | |
| `Console` | the live page and the log ring | checked with `Pairing` |
| `Ntag424Card`, `Ntag424` | the NTAG 424 as a record and its answers; the driver over it | `Ntag424` extends the card |
| `EmulatedCards`, `CardWrite` | the other families' cards; write, verify, format, lock through their drivers | `CardWrite` extends the cards; `ReaderSlot` has the slot around it |
| `Ndef` | requests, records, wire form, TLV block, partial update | the codec `CardWrite` takes as given |
| `Sun` | plan, settings, mirrors, verification, replay | |
| `ClientSession` | the TypeScript client | the other end of `ClientConn` |
| `DeviceClient` | the phone's JavaScript client | the other end of `RemoteSessions` |
| `MC*` | the instances TLC runs | extend the modules they name |
| `*Proofs` | theorems and their proofs | extend the modules they name |

Parts that meet the rest only through calls are checked in one run with another
part: a behaviour of such a run is one part's, and the others rest, so that the
states add up and do not multiply (`MCSupervisor`, `MCAgent`, `MCPairing`,
`MCParts`).

**ReaderSlot.** `slot` is the token in `opSlot`. A caller (`at`) is in
`acquireSlot`/`withTagOperation`, `BeginRawSession`, `EndRawSession` or an exchange
of `TransceiveInSession`; an operation goroutine (`op`) lives on when its caller
leaves (`Leave`) and frees the slot itself (`OpDone`). Every operation of the
reader goes through `withTagOperation`, so one model of it stands for all, with
the writes' preparation (`OpPrepare`, `OpRefused`) and `isWriting` kept apart. A
lease has a `phase` and a watcher (`watch`, `expired`): looking under `exec`,
letting `exec` go, then ending the lease is two steps, as in `watchLease`.
`stopper` walks through `Stop` and `drainOperations`. A poll that `pollOnce` no
longer waits for (`WorkerResume`) goes on by itself. A worker told to stop
(`WorkerExit`) has its device to close first (`WorkerClosed`), whose mutex a transfer
may hold, and `Stop` joins it only then. `CardTurn` is told who holds the slot in which
role (an admitted caller, a look at the card for a lease, an operation, a poll, a
lease), the gate `opsClosed`, and the leases that are over.

**DeviceManager.** Threads are the polls and the constructor. `device`, `path`,
`retryCount` and `inCooldown` are the fields of that name, `assigned` is
`assignedPath`, `open` is what the driver has open. `TryLook` to `Install` is
`TryConnect`: it looks, closes or keeps, calls `OpenDevice` without the lock and
installs. `HandleError`'s classes are `IOError`, `RetryTimeout`/`TimeoutCooldown`
and `OtherError`, `reconnectDevice` is `Reconnect` to `GiveUp`. Left out: the event
queue, which only words a status message, and the backoff times.

**RemoteSessions.** A connection, its goroutine (`serveSession`) and the Device it
registers share a name. `sessions` and `bound` are the two session maps, `devices`
is `m.devices`, `pending` the request map, `inbox` a `respCh`, `tag`/`latest` the
active tag state. Registration is `Hello`, `Replace`, `InstallDevice`,
`AddSession`, `Greet`/`GreetFails`, `Confirm`, because each takes another lock;
teardown is `EndSession`, `FailPending`, the clear of the tag, `Unregister`. Left
out: heartbeat times (the sweep may find any registered device silent), the scan
queue (`Publish` may succeed or drop), the wire format, the HTTP upgrade and its
admission.

**RemoteTagSession.** `asked` is the deviceID a caller gave (maybe none), `dev` the
Device it resolved to and whose `opSlot` it waits for, `target` the phone the
sequence then sends to, resolved again by `Begin` as `TransceiveSequenceTag` does.
`Reregister` installs a fresh Device, with a fresh slot, for a phone.

**Supervisor.** `offered` is what the manager lists, `changed` the notification,
`readers` is `s.readers`. A `reconcile` is `List`, `Compare`, `DropReader` to
`DropDone`, `OpenReader`/`OpenFails` to `OpenDone`, `Insert`, `BeginReader`, `Publish`.
`held` are the readers that have their device open, `working` those whose worker runs,
`polling` those that poll or whose last poll goes on by itself, `busy` those with a
transfer under way when they are told to stop: the worker's Close and the supervisor's
wait for it. A poll opens and closes its reader's device at any time (`PollConnects`,
`PollCloses`), also after the reader was closed; `shut` and `late` keep who was closed,
and who had a device opened since. A drop, and each turn of Stop, is two steps,
`reader.Stop` and `reader.Close` (`StopDropped`, `CloseDropped`). A change that comes
before `Watch` has subscribed may be kept for it, or told to nobody (`unheard`). The
mode stands for the whole policy (feedback and keys are passed on by the same code); a
setter calls `SetMode` once. The agent calls Start and Stop under its lifecycle lock, so
they do not overlap here. Left out: operations that find a reader by name and call it,
and the phones' scans, which the supervisor forwards unchanged.

**CardPresence.** Cards are put down and taken (`Place`, `Take`) between any two
steps; a presentation is numbered, so that a card put back is another one. `handle`
is the PC/SC device, with the driver detection chose (`Detected`), the monitor that
waits for the reader to be empty and the one token it leaves (`MonitorLook`,
`MonitorError`). `poll` walks `doPoll` (`PollOpen` to `PollLeased`), `shown` and
`faulted` are what the cache published and the fault it told, `CardCheck` and
`SecondPasses` the second ticker. `user` has the operation slot, which an operation or
a lease takes between two polls (`OpTakes`, `OpExchanges`, `OpEnds`). `unseen` is
history: presentations whose end nobody is left to notice. Left out: the
debounce and write-only mode.

**ClientConn.** `conn` is where a connection's read loop and cleanup are, `queue` its
bounded channel, `job` what its dispatcher does, `leases` what its session lists,
`toEnd` what the cleanup took. An exchange in a lease finds it (`Exchange`), waits for
the one before it, which is `l.exec`, looks again (`Turn`) and talks to the card until
the card answers (`TransferEnds`), which it may never do. `slot` is a reader's operation
slot with who has it and what tag it named. Cards and the operator's switches are chosen
afresh each time they are read. Left out: broadcasts, the HTTP upgrade, payloads, the
audit log.

**Agent.** `pc` has the callers and the watchers, `holder` the lifecycle lock, `up`
the components a run opened, `channel` and `cancelled` what its certificate watcher
waits on; `bound`, `served` and `advert` the listener, `disk` and `issuing` the
reissues, `apply` an `ApplyPreferences` under way. A `Start` is
the store, the mode adopted, the supervisor's hand over, and one step per component,
each of which may fail and unwind. Left out: what a certificate says, mDNS itself,
menus.

**MultiManager.** A child tells a change on its channel of one (`news`), a goroutine per
child (`Forward`, `Emit`) wakes every handler connected, a goroutine per watcher
(`Relay`) hands it on over a channel of one; the watcher then lists and opens (`Wake`,
`Look`). The supervisor's Start lists before it asks for changes (`LookFirst`), the
agent's watcher after a change only. `DeviceChanges` connects under the lock, and
`joined` keeps what the children had then; `Close` walks the children. `qualify` and
`OpenedBy` are the paths' prefix and who it routes to. Left out: scans and operations on
a phone's tag.

**Pairing.** `devices` and `origins` are what the two stores have in memory, `devFile`
and `orgFile` what they saved; a write that fails or a crash may cut a file short, and a
whole one may fail to be read at a start. A store started so keeps to its memory
(`volatile`) and leaves the file to the next start; `fleeting` and `unsaved` are history:
who was paired, and which origin was revoked, by such a store. A pairing request passes the gate
(`Gate`), is compared (`WrongPIN`, `RightPIN`), saved (`Pair`) and told (`Answer`);
`SetPIN` and `ResetFailures` are two steps. `Restart` loads what can be read.
Left out: the pairing page, the tray, and origins the program is configured with, which
every start allows anew (`agent/serverplugin/origins.go:37`).

**Console.** `feed[k]` is a socket's goroutines: `handleWS`, the pump with its built
state, the follower of the ring and the `out` queue that drops when full; `fanning` a
writer between the ring's lock and its sends; `page` the browser's end. `missed`,
`pending` and `passed` are history: what a full queue dropped, and lines a later line
went past. Left out: pings, the HTTP fetches beside the socket, panels and actions.

**Ntag424Card, Ntag424.** The card is a record; each command is an operator from a card
to the card after it and its answer. The driver's operation is a sequence of exchanges
(`steps`), in stages that end in success, error, or again in a new session
(`withSession`). Each exchange may be performed, lost before or after the card acted, or
end in a removal. Other clients of a phone put exchanges between; a plain write whose
next update they have turned into the CC file (`Diverted`) is not followed further.
Ciphers and MACs are not computed: a command verifies when the card's session is the
sender's, counter included. Not modelled: arithmetic of encryption, the mirrored URL
(which `Sun` has).

**EmulatedCards, CardWrite.** The NDEF area is a few cells; `Answer` is the
emulator's `Transceive` per family. A driver's call is its list of commands (`todo`);
stages are resolve, write, verify, lock, with the code's attempts and permanent
errors. `Exchange` is one command, which may be lost, answered to nobody, or taken for
another; `Choose` is what a driver decides between two commands (`Fitted`, `Entered`).
A Classic's sectors are one cell each, opened (`Opening`) before each use as
`lastAuthSector` has it. Sixteen cards differ in family, locks, format and keys. No card
is presented half locked (`NotHalfLocked`): `ndefAreaLocked` reads the static lock bytes
alone, so a card whose page 4 is locked and the rest is not is refused as read-only.

**Ndef.** `mem` is the tag's memory in bytes; a scheme's word is one byte. `Overwrite`
writes a request, page by page and maybe not to the last, `Update` reads as far as the
card answers (`Readings`, `seen`), edits what it could make of that and writes back,
`ReadData` parses what is there.

**Sun.** A URL is a sequence of characters, each a token, a placeholder, or the i-th
digit of a mirrored value. `expandTemplate` and `planPositions` lay it out, the
settings travel by position, the card's `View` puts digits over the text,
`VerifyURLWith` takes the URL apart. `TapOf[c][d][ctr]` is what a server makes of a tap
under plan `c` of a card with `d`'s settings. `VerifyURLFresh` verifies for one of two
calls, and `Seen` records under the store's lock.

**ClientSession, DeviceClient.** Single-threaded: a step is a handler, a timer or a
call. Sockets put aside still deliver events; the TypeScript client's handlers ask
whether the socket is still the client's, the phone's do not.

## Runs

Runs that ask for liveness use the fair specification, so that safety and liveness
are asked of the same state space. Some properties conjoin several of one subject;
their parts are named in brackets.

| Run | Instance | Properties |
|---|---|---|
| `ReaderSlot` | 2 callers, 2 operations, 1 poll, 1 lease | `CardUndisturbed` (`CardExclusive`, `SlotAccounted`, `WriteShielded`, `LeaseNamed`): one holder of the slot, one user of the card, every write marked. `DrainedIsQuiet`: a Stop that drained left nothing behind, no lease's watcher either. `TakesTurns`, the refinement of `CardTurn`: work starts only from an admitted caller's turn and before the gate closed, a lease only from the look that found its card, and once. `StopReturns`: a Stop that has joined the worker returns; one that has not does if transfers come to an end. `SilentLeaseEnds` |
| `DeviceManager` | 2 polls and the constructor, 2 handles, 2 lanes, with and without an assigned one, 1 retry, 2 attempts | `DeviceIsOwn` (`CurrentIsOpen`, `OwnLane`): the device in use is open and the reader's own. `PollsEnd`, `Reconnects` |
| `RemoteRequests` | 2 connections, 2 phones, 1 request; symmetry | `NoOrphan`: a live connection is its phone's session. `NobodyStranded` (`NoneForgotten`, `OwnAnswer`, `SendsNeverBlock`, `SweepIsComplete`): a caller is answered by its own device, timed out or swept |
| `RemoteTags` | 2 connections of 1 phone, 1 tag | `Unregistered`: a registration ends with its connection |
| `Supervisor` | 1 device, 2 readers, 1 mode, 1 setter; beside it 2 cards put on one reader, 1 operation or lease, 1 trouble | `ReadersAccounted` (`OneReaderPerDevice`, `NothingLeaks`): a device has one reader, which somebody will close, but for devices opened by polls that outlived their reader. `NothingMissed`: the readers are the devices offered, but for what changed before the watcher subscribed. `StopEndsAll`: Stop returns and no worker is left, if transfers come to an end; `CardIsFollowed`: each card is driven as what it is, told when there and withdrawn when gone, unless stranded |
| `ClientConn` | 2 connections, 1 reader, 2 tags, 1 lease, queue of 1, 2 requests | `LeaseAccounted`: a lease is always somebody's to end. `NamedTagOnly`. `LetsGo` (`LeaverForgotten`, `EndHeeded`): who leaves is cleaned up, unless a transfer that nothing cuts short is stuck |
| `Agent` | 1 caller, 2 runs, 2 reissues; beside it 2 managers, 2 watchers, 3 changes | `StoppedIsUnwound`, `StaleIsAccounted`, `NewestServed`; `NobodyUnwoken`: no watcher misses a change from its connection on. `WatchesEnd` |
| `Pairing` | 2 devices, 1 connection, 2 requests, burst of 2; beside it 2 origins, one of them shipped; symmetry; beside both 2 loggers, 3 changes, lines and sockets in all, ring 2, queues 1 and 2 | `AnswersStand` (`RevokedStaysOut`, `PairedSurvives`): what was told of a pairing or a revocation stays so, but for what a store did that could not read its file. `GuessesBounded`; `PageIsTold` |
| `Ntag424` | 12 kinds of operation, 4 cards, 4 key sets, 2 operations, 1 fault, 1 foreign exchange, lockout at 3 | `NeverMixed`: the file is a whole message or empty. `ReportIsTrue`: what an operation answers is what the card has. `LockoutBounded` |
| `CardWrite` | 16 cards, messages of up to 3 cells, 3 operations, 3 faults | `ReportedIsThere` (`VerifiedIsThere`, `LockIsTrue`), `FailureHasFault`, `FormatPreflighted` |
| `Parts` | 10 requests, 4-byte pages, 3 records, 2 writes; 8 templates, counters to 1, 2 plans; 3 sockets, 1 attempt; 2 links, 1 attempt; 2 sequences and a single exchange, 2 phones, 3 Devices | `WrittenIsRead`; `UpdateKeepsOwn`: an update whose read reached the message's end keeps what it was not asked to change, and any other leaves its own records alone. `PlannedTapVerifies`, `FreshOnce`; `DropIsHandled` (`NoneOnTheDead`, `KeepsTrying`), `TagAsReported`; `PhoneKeepsTrying`; `SlotIsShared` (`SequencesApart`, `SlotComesBack`) |
| `NothingWritten` | 2 faults, no foreign exchange | violated: see below |

Type invariants (`TypeOK` of most modules) are proved and not run again.

Why the bounds are enough for the cases that matter. Two callers and two
operations give an abandoned operation beside a new one, a lease's client beside
another caller, and a lease's exchange beside Stop. Two polls overlap only when one
outlived its five seconds, and two handles are what two overlapping polls open; the
third open fails, which is a driver error like any other. A phone that comes back
needs two connections, a wrong answer two phones, and a request's life is independent
of the others' but for the mutex they share. Two readers on one device give the
replug, and a closed one whose poll goes on beside its successor; no property reads the
mode. A client that leaves needs a second one that wants its reader; one request
queued and one served is a full queue. Two runs of the agent give a watcher that
outlives its run; two reissues one that comes while the other rebinds. Two requests at
the gate are two guesses counted together. A ring of two and three lines overrun it;
two loggers fan out of order. One fault in the NTAG 424's operations is a lost
command, a lost answer or a removal at any exchange; a second would disturb the
recovery from it, which `NothingWritten` has; three faults exhaust a write's attempts.
Ten requests have every record type, texts that end at a TLV length of 254 and 255
bytes and leave old bytes behind. What a larger instance could add to a safety property
is answered by the proofs, which have no bounds. Deadlock is not checked: a stopped
reader, a closed bridge, used up connections, readers, cards and requests leave nothing
to do, and those are states the runs end in.

### Fairness

- Goroutines take their next step and timers fire (weak fairness): the scheduler.
- Transfers to a card get none in `ReaderSlot`, `Supervisor` and `ClientConn`: `Stop`,
  the lease's watcher and the cleanup must do without, which is why the code bounds its
  waits. Where it does not, the property says so in a hypothesis: `StopReturns` before the
  worker is joined asks that the card be let alone time and again, `StopEndsAll` and
  `LeaverForgotten` that no transfer be stuck for good.
- In `ReaderSlot` a worker that waits for its device's mutex gets it if the mutex is let
  go again and again (strong: a `sync.Mutex` hands itself over to a waiter that starves).
- In `DeviceManager` a driver call comes back, and a device that is opened over and
  over, or listed over and over, succeeds some time (strong): without it a reader
  whose device stays away rightly has none. The consumer of a poll's result is not
  fair: it may stall, and `PollsEnd` holds all the same because the send gives up
  on Stop.
- In `RemoteSessions` a socket that is closed or lost runs out of buffered frames,
  so its read fails (strong, as handling a frame comes between).
- In `Supervisor` the watcher, which selects between Stop and notifications, sees
  Stop some time (strong: Go's select is random among what is ready). No poll has to end
  or to connect.
- In `CardPresence` the poll and the card check are the worker's tickers, the monitor
  looks twice a second, and an operation ends by its timeout, a lease by its idle
  time. Nothing is assumed of the cards.
- In `ClientConn` no timeout is relied on, nor the end of an operation, an exchange or a
  lease: only a connection's loop and its dispatcher go on.
- In `Agent` whoever has begun goes on; nobody has to start, stop, reissue or change a
  setting. In `MultiManager` the relay of a caller of `DeviceChanges` goes on.
- In `RemoteTagSession` every exchange ends, by its timeout at the latest.
- No other module states any.

## What the code does and its comments do not say

One run states what a comment of the repository says and has TLC find the behaviour
that contradicts it: in `NothingWritten` a read of the NTAG 424's settings is
disturbed, the write takes the Type 4 path, which does not note that it wrote, and is
cut short; `ConfigureSDM` then reports that nothing was written
(`nfc/tag_ntag424.go:763`, against `nfc/ntag424_budget.go:146`). It is the finding in
`PROJECT.json`.

The models have more behaviour of this kind, which no run of its own states. On a
reader and its device:

- an exchange looks its lease up; the lease is ended and the slot given back; a poll or
  another operation talks to the card beside the exchange (`reader_lease.go:172`;
  `CardExclusive` excepts it);
- `prepareCardForWrite` sets `isWriting`, then refuses the write; the callers defer the
  reset only after it succeeded, so polling stops for good (`reader.go:952`, `OpRefused`);
- the worker closes its device before it is done, and that waits for the mutex a transfer
  holds; so a Stop on a card that never answers does not join the worker, and does not
  come to the bounded wait it has for this case (`reader.go:629-636,342`,
  `pcsc/device.go:101,289`, against the comments at `reader.go:346` and `reader.go:655`;
  `WorkerClosed`), and the supervisor's Stop waits with it;
- a poll outlives its five seconds, or the stop, in `OpenDevice`; the worker exits, Stop
  and Close return; the poll installs its device, which nobody closes (`reader.go:665-677`,
  `Install`; `PollConnects` and `late` in `Supervisor`), and the device may then be opened
  again by another reader; two polls that overlap open two handles, of which the first installed
  is never closed (`device_manager.go:242-260`);
- a cooldown is entered and its timer armed, but nobody receives from it and
  `EndCooldown` has no caller (`device_manager.go:451`);
- an operation's `GetTags` or `Transceive` takes the monitor's one token and closes
  nothing; polls rebuild the driver from the old ATR and UID and skip it as current, so
  the card that left stays published and new ones are never met (`pcsc/device.go:249-258,
  373-385`, against the comment at `reader.go:501`; `Stranded`); a swap between two looks
  of the monitor is as unseen, as `lastEventCount` is recorded and never used; a card that
  comes before the check has noticed its going keeps the cache (`reader.go:791`); an
  operation longer than a second lets the check withdraw and republish the card; a MIFARE
  Mini falls to the Classic 1K driver, and an NTAG21x whose ATR names 0x0003 is driven
  as a plain Ultralight;
- keys configured for a Classic are tried before the defaults, each as Key A first. With
  the NFC Forum's public key among them a formatted sector opens by Key A, which may not
  rewrite its trailer, so formatting such a card anew fails at every attempt
  (`tag_classic.go:54,113`, against the comment at `tag_classic.go:32`; `Candidates` of
  `<<"forum">>` in `MCCardWrite` shows it).

On readers and managers:

- reconcile reads the mode, a SetMode goes to the readers there are, reconcile inserts
  its reader with the old mode (`supervisor.go:179`); a mode set while a start has read
  the old one is overwritten (`agent/settings.go:268`); a listener may be bound again by
  a watcher after its run stopped (`serverplugin/plugin.go:315`);
- `Supervisor.Start` reconciles first and subscribes after (`supervisor.go:103-104`),
  and behind a multi manager a change in between reaches no one (`unheard`,
  `LookFirst`); PC/SC's poll notices no plug-and-unplug between two ticks
  (`pcsc/manager.go:268-303`); a child's path that has a colon and starts with another
  manager's name is routed to that one (`multimanager.go:130,195`).

On phones and clients:

- a teardown removes its session, the phone registers anew, the teardown unregisters by
  name: a live session without a device, whose scans all fail (`remotenfc/server.go:417`);
- a request sent between `addSession` and a registration answer that fails waits
  out its timeout, since that path does not call `failPendingRequests`
  (`remotenfc/server.go:309`; `GreetFails`);
- a phone that registers anew holds no tag and stays `activeLatest`, so
  `ActiveTagDevices` lists it first (`remotenfc/requests.go:95`);
- a single exchange, write or lock takes no `opSlot` and may fall between two steps
  of a sequence (`remotenfc/deviceops.go:128`; `SendSingle`); a sequence that named no phone
  is resolved again after it waited for the slot, and a phone that registered anew has a
  new slot, so two sequences may meet on one phone (`remotenfc/sequence.go:58,114`);
  `SequencesApart` excepts both;
- an exchange in a session waits for the one before it, and then for the card, with
  neither its context nor a timeout (`reader_lease.go:213`, `sequence.go:150`); the cleanup
  waits for it (`server.go:338`), so a client that left during an exchange the card never
  answers is not forgotten, nor its leases ended;
- a request of a client that has left may still start on the reader
  (`reader.go:1366`, `TimesOut` and `Operate` in `ClientConn`);
- `client.ts`: a reconnect timer that fires after `disconnect()` connects again (against
  `docs/javascript-client.md:78`); `disconnect()` leaves a socket that is still connecting;
  `connect()` over an open connection leaves `connected` true over a connecting socket, and
  requests wait 30 s; the tag is not cleared on a drop;
- `nfc-device-client.js`: `intentionalDisconnect` is never cleared, so after
  `disconnect()` and `connect()` a phone never reconnects by itself (against
  `docs/javascript-client.md:319`).

On pairing and the console:

- a store whose file cannot be read at a start serves without it and leaves it as it is
  (`pairing/registry.go:81`, `pairing/manager.go:122`, `server/origins.go:76`,
  `agent/serverplugin/origins.go:31`). Phones paired meanwhile are forgotten by the next
  start that reads the file; an origin revoked meanwhile is allowed again by it; revoking
  everything leaves the phones of the file paired (`volatile`, `fleeting`, `unsaved`);
- `Revoke` removes the device and then looks for its session, so a session registered
  between stays (`pairing/manager.go:147`); revoking everything, signing out and expiry
  close no open socket of the console;
- a state push dropped on a full queue is not made up for until the next change
  (`console/server.go:391`); two writers fan out of order, and the page, which merges by
  sequence, passes the earlier line over (`useControl.ts:80`); a fetch beside the socket can
  bring an older snapshot (`useControl.ts:41-53`);
- a subscriber's cancel can close a channel that a write is about to send on, which
  panics (`logbuf/logbuf.go:224`; `NeverPanics` in `Console`, which TLC refutes);
  `Property` may replay an older value after a newer one was emitted (`event/property.go:50`).

On encodings:

- a partial update that cannot read the tag, or that a failing page cuts off before the
  message ends, takes the tag for empty, overwrites every record and reports success
  (`reader.go:1092-1103`, `tag_ultralight.go:94-123`; `seen`);
- the emulator lets a session with key 0 update the CC file; where clients of a phone
  select it and open such a session in the middle of another's plain write, that write's
  length goes there and is answered with success (`nfctest/ntag424_emulator.go:1013`,
  `Diverted`; the run has too few foreign exchanges to come to it, and the theorems leave
  the write there);
- a record type or ID longer than 255 bytes wraps its length byte; a partial update drops
  Smart Posters, unknown formats and record IDs, loses the language of an empty text, and
  counts its index after dropping;
- the client server never sets the LRP option, so plans for LRP cards leave too little
  room for the encrypted PICC data; a template with another parameter of a recognised name
  gives taps that its own verification refuses (`ntag424/plan.go:105`); mirrors outside the
  query cannot be verified; a failure between message and settings leaves the card
  mirroring at old offsets; the replay store in memory is lost on restart.

## Proofs

TLAPS checks these for every value of the constants that meets the modules' named
assumptions: model values apart from one another, bounds that are naturals, and what
the source itself refuses (`TemplateAssumption`: a template is words and known
placeholders; `ProvisionedAssumption` and `RequestsAssumption`: cards are the emulator's,
none half locked, and requests are of messages; `KeysAssumption`: the keys a Classic is
tried with are keys; `OrderOK`: a multi manager has managers; `CardAssumption`: a card's keys
are among its five, key 0 with them; `DriverAssumption`: cards are provisioned with a
whole message and no session). TLC evaluates every
assumption in the runs. `PROJECT.json` lists the theorems with what each says; here is
the argument of each.

**ReaderSlotProofs.** `TypeCorrect`; then `EnderInv`, about the lease's end: a lease
being ended is marked so, one goroutine is ending it, and one exchange at most has its
`exec`. It is needed because `<-r.opSlot` names no owner: only if one goroutine ends a
lease does the slot it empties belong to that lease. With it `SlotInv == EnderInv /\
SlotAccounted` is inductive (`TurnStep` shows what each action does to the holders, in
which role, and to the leases that are over; `GateStep` what it does to the gate):
`SlotIsAccounted`, `ReaderTakesTurns` (each step is a `CardTurn` step or leaves turn,
gate and sessions alone, so no work is begun behind the gate by a caller admitted before
it closed, and no lease takes a second turn), and from them `CardIsExclusive` and
`LeaseIsNamed`. `NoAddAfterGate` needs only that whoever adds holds the gate open;
`WriteIsShielded` rests on the slot, since the poll that clears the mark has it.
`CardIsUndisturbed` conjoins four of these. `DrainedStopIsQuiet` is a counting argument:
`Counted` is the set of goroutines that are in `opsWg`, and `WaitInv` says that `opsWg`
is its cardinality, with every held lease watched; after the gate nobody is added, so a
wait that ended at zero left none: no operation, no look for a lease, no lease and no
watcher of one. Exchanges are not in `opsWg`; one may outlive the drain.

Of the writing of a card (`CardWrite`), `WriteInvariant`: `WriteInv` says that an
operation under way has a *plan*, a relation between the commands it has left, what it
has heard and the card, which makes its report true however the commands end. It is
needed because nothing that is reported is looked at when it is reported: a lock is told
of after the last of several commands, a verified write after reads that each saw one
cell. The plan has a part per promise. `ReadsTrue`: what was heard is what the first
cells hold, and the reads left take the others in order, each once. `Locks`: every lock
byte a page lock has not set is still to be set, the dynamic ones before the static, so
that a lock cut short leaves a card that is not refused as read-only; a DESFire's last
command is the change of its rights. `Spoils`: a card that stores its writes inverted
holds no message once its first cell was written, so no such write is verified.
`FormatSafe`: a sector no key is known to open is still to be opened before anything is
written, from which `FormatsPreflighted`. `DriverOK` says that a right to write which the
DESFire driver takes for withheld is withheld: a session does not outlive its card, so
what it was told holds. `ReportsTrue` is the last report's part of the invariant. Every
sequence of commands that starts a stage has its plan (`ReadDataPlan`, `WriteOncePlan`,
`LockPlan`, by family), every answer of a card keeps what is left of it (`PageGoes`,
`ClassicGoes`, `Type4Goes`, `DesfireGoes`, with `FitGoes`, `EnterGoes` and `CannotGoes`
for the choices), and every end of a stage reports truly or starts the next one
(`AdvanceGoes`).

`FailuresHaveFaults` needs a second invariant, for whether a write fails is decided by a
whole attempt and not by a state of it. `TrackInv` says that a write under way of a card
that was sound when it began has met a fault in each attempt that is over, and one in
this attempt, unless it is *on track*, or its card is a DESFire that a verification found
gone, which the next select finds gone too (`Lost`). On track, by `OnTrack`: the commands
left are ones a sound card takes, in this order (`Ready`: a Classic is in the sector it
is to use, or the keys left lead to the one that may; a page is open, or all are locked
and the lock is read first; an application and a file are selected before use); every
cell of the message is stored or still to be written, by the last write to it at that
(`Due`); and every cell not heard yet is still to be read (`Covers`). An undisturbed
exchange keeps this; one that is disturbed counts as the attempt's fault. Soundness is
recorded when an operation begins, since an operation may itself lock the card. The
theorem has one hypothesis, `NoPublicKey`: no key configured for a Classic is the NFC
Forum's or the MAD's. These every reader tries in the end, so nobody has to configure
them; where one does, the theorem is false (see above). `WriteInv` and `TrackInv` were
both checked by TLC on the run's instance before they were proved.

**RemoteSessionsProofs.** `TypeCorrect`. `AnswerInv` (a request is in `pending`, in
one goroutine's hands, or in the inbox, one of the three, and always for the device
asked) gives `NobodyIsForgotten`, `AnswersAreOwn` and `SendersNeverWait`.
`SessionInv` (the two maps are each other's inverse, and a connection that is being
served without being its identity's session has been closed) gives
`NobodyIsOrphaned`. `SweepInv` adds that a request found through a session that
ended had its entry before, and gives `SweepLeavesNobody`. `NobodyIsStranded`
conjoins what a caller may count on.

**ReadersProofs.** Of the supervisor, `TypeCorrect`; `HoldInv` says in whose hands a
reader that is open can be (operated, being dropped, taken by Stop, or opened and not
inserted: `Hands`), that no two readers in them are for one device, and that a device is
dropped before it is opened again. A reader that polls is in those hands or was closed,
so that a poll which opens a device late is noted in `late`. It gives
`StopReleasesReaders`, `DevicesAreExclusive` and `ReadersAreAccounted`.
`NoChangeIsMissed` needs what a reconcile has seen: `SeenInv` says that with no
notification waiting the list it compares with is the one the manager would still give,
`unheard` changes aside, and that the readers are those of the list but for the devices
it has yet to open, is opening, or failed to open.

Of a reader's connection (`DeviceManager`), `DeviceIsOpen`: with what each thread
carries before it installs (open, its own, not the current device), `CurrentIsOpen` is
inductive for any number of overlapping polls. `KeepsItsLane`: an assigned reader never
discovers, and every reset of the path goes back to the assigned one. Together
`ReaderKeepsItsDevice`.

**ClientProofs.** One invariant, `ConnInv`, has a part per owner. `ServeInv(c)`: a
client is registered as long as its loop has not got past removing it, and requests
are queued or served only before. `SlotInv(r)`: an operation that opens a session has
its dispatcher waiting for it, without a timeout, on that reader; and a tag named is
the tag the slot was taken for. `Ends(c, l)` says who will end a lease: the
session's list while the client is there, the cleanup that took the list, a
dispatcher about to record it or about to end it. That some connection ends every
held lease is inductive with the other parts; from it `LeaseHasItsEnder`, and from
`SlotInv` `NamedTagIsHeldTo`. The step that opens a lease is the delicate one: it
needs both that its dispatcher still waits and that the client of a waiting dispatcher
is still registered.

**AgentProofs.** `LockInv`: whoever is past the first line of a Start or Stop has the
lifecycle lock; while nobody has, the agent is stopped, with nothing up and every run
cancelled, or running. It is `StoppedAgentIsUnwound`. `ChannelInv` says that while the
listener serves, and while a watcher rebinds it, the certificate manager has a channel
to notify; with it `StaleIsAccounted` is inductive (`StaleListenerIsRebound`).
`ChangeReachesWatcher`: `MMInv` says that until Close every watch that relays is
connected to the signal, and that for each child there was no change since it was
connected, or it has listed the last one, or the word is on its way: with the child, in
its channel, in an emission, in the relay, or in a list that has that child still before
it. Its hypothesis, `ListedIsOpened`, is that a path a child lists is routed back to it;
`PlainPathsAreOpened` proves that for children whose paths have no colon
(`multimanager.go:118-186`), and TLC evaluates it for the run's paths. For a path with a
colon it is up to the manager: the hypothesis states what the code relies on and does
not check.

**PairingProofs.** `TypeCorrect`. `FileInv`: whoever was told of a pairing by a
registry with its file is in the file if that is whole, whoever was told of a revocation
is not, and so for what is about to be told. What a registry without its file pairs is
new to the file, so that what it revokes is not in the file either; an origin revoked
that is still in the file was revoked by a store without it. It is inductive over saves
that fail, saves that are cut short, restarts and files that fail to be read, and gives
`AnswersAreKept`.
`PinStandsFewGuesses`: with the requests past the gate counted (`GuessInv`), failures
and requests in flight stay within one burst, and a rotation can add one more burst,
counted before it reset the count. `PageIsKeptTold`: `ConsoleInv` has per socket
`FeedInv` (a socket that serves is connected to both sources), `StateInv` (what the
queue of an open page ends in is the newest state, or a newer one is coming) and
`LinesInv` (every kept line is on the page, passed over, batched, in the channel, being
fanned out, or in the queue). The lemmas `TailForms` and `AppendForms` say what taking
from and putting on a queue does to what it carries.

**PartsProofs.** `AimIsLastReported` (`HeldInv`); `DropsAreHandled` (`SocketInv`: the
flags agree with the socket in use, and attempts with failures); `PhoneTriesAgain`
(`LinkInv`); `SequencesTakeTurns` (`SlotInv`: who sends has the slot of the Device it
found). `NoTapIsFreshTwice`: `SunInv` says that every counter on its way to the store
was given to a read, and that those accepted are above all before them, so that two
calls that verified one tap cannot both be told it is fresh. It rests on
`TapsTellTheirRead`, which follows a counter through the whole of the SUN pipeline: the
plan's positions lie within its text (`LaidOut`, `PlanForm`), settings that were
refused or survived the wire keep them (`SettingsForm`), what a mirror puts over the text
are digits of this read and of no other (`PutTells`, `ViewTells`), the URL taken apart is
made of such characters (`URLTells`, `ParamTells`), and what decodes from them has this
read's counter (`VerifyTells`). Induction over the text is by its least counterexample
(`LeastNat`, from the well-foundedness of the naturals), since the library's
induction theorems cannot be applied here.

**Ntag424Proofs.** `DriverInv` is the invariant the stages of the driver have. `FlowOK`
says what is left to do: the steps left of a stage are the end of its body, or all of it
led in by what authenticates; and a body is one of the sequences the code sends, with
the length cleared before the first chunk and set after the last (`BodyOK`, `Follows`).
`FileOK` says how far the file is with the step that comes next, which gives
`MessageNeverMixed`; `TrueOK` what the card has when `ConfigureSDM` or a lock has come
so far, which with what each answer says of the card (`Outcome`) gives `ReportsAreTrue`:
an answer that was lost can only have an operation report less. `AuthOK` says that no
step authenticates with a key remembered as refused, or with one derived from a UID not
yet known, and `PendOK` that on a reader the card was last asked for the driver's own
key. So a refusal is always the first of its key in its memory, and `Accounted` counts
them (`LockoutIsBounded`). Every stage that is begun satisfies the same predicate
(`Anew`), so each of the driver's transitions (`SettledGoes`, `DoneGoes`, `FailGoes`,
`RetryStands`, `ResolveStands`, `BackStands`) is proved once for all operations. The
card's commands enter only through what they leave alone (`Untouched`, `Wrote`,
`Counted`). `PendOK` has no counterpart on a phone, where a raw exchange may fall
between the two halves of an authentication; the bound is stated for readers only. Of a
plain write that is `Diverted` nothing is said.

### What is only model-checked

- Every liveness property: `StopReturns`, `SilentLeaseEnds`, `PollsEnd`, `Reconnects`,
  `StopEndsAll`, `CardIsFollowed`, `LetsGo`, `NewestServed`, `WatchesEnd`,
  `Unregistered`, and `SlotComesBack`. They need fairness and `ENABLED`, which the
  prover does not reason about.
- `WrittenIsRead`, `UpdateKeepsOwn`, `PlannedTapVerifies`: what a recursive definition
  computes for every input is an induction over data. `NoTapIsFreshTwice` shows that it
  can be done by least counterexamples where a property is preserved element by element;
  a codec's inverse needs more.
- `DriverFits`, the safety part of `CardIsFollowed`, for which no inductive invariant is
  written down.

## Hazards without a property

Of the hazards in `PROJECT.json` three have none: `reader.go:952` and
`supervisor.go:179`, which the models have as behaviour (above), and
`logbuf/logbuf.go:224`, which `NeverPanics` states and no doc promises.

## Not modelled

Cryptography (`ntag424`, `ev1`, `ev2`, `lrp`), which is functions of bytes covered by
vector and fuzz tests, and appears as terms here; the virtual reader and the probes;
the tray, the clipboard, the SDK generator and their generated code; the command line
and the hardware test fixtures; the broadcast of tags to clients; the HTTP upgrades;
`Property`, `ConnectOnce` and subscriptions of `event`, the last two of which nothing
outside tests uses; the NDEF parsers nothing calls.

## What is left to do

1. `DriverFits` of `CardPresence`, for every set of cards.
2. `Ndef`'s codec by least counterexamples: a record's length field, then a message's
   records one by one.
3. The refinement of an abstract session (a phone has one, or none) by `RemoteSessions`.
