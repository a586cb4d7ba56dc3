# A verification project for ywd-mmdvm-tnc

`ywd-mmdvm-tnc` turns an MMDVM HAT with a custom packet firmware into a KISS
TNC for 1200-baud AX.25.  A daemon (`ywd-tncd`) owns the serial line to the
HAT, accepts KISS clients over TCP, transmits their frames by p-persistent
CSMA on a half-duplex radio, decodes what it receives and fans it out, and
publishes what it does on a monitor socket.

This directory holds TLA+ models of the program, TLC configurations that check
them on small instances, and proofs that TLAPS checks for every instance.
Source paths below are relative to `src/src/`, unless they start with
`firmware/`, `docs/` or `systemd/`.

## 1. Inventory

### 1.1 Components

| Component | Source | State | Operations | Module |
|---|---|---|---|---|
| Channel-busy detector | `ywd1278/tx/channel_busy.py` | busy/unknown/clear, last time, start of the clear candidate | `observe` | `ChannelBusy` |
| p-persistent CSMA | `ywd1278/tx/csma.py` | state, deadline, next slot | `observe` | `PersistentCSMA` |
| Access attempt | `ywd1278/tx/channel_access.py` | a detector and a policy | `observe_rssi` (decides on the random draw) | `AccessAttempt`, `ChannelAccess` |
| Session parameters | `ywd1278/kiss/control.py` | TXDELAY, P, SLOTTIME..., generation | `apply`, `capture_tx_context` | `TncSession` |
| DATA ingress | `ywd1278/kiss/tx_backend.py` | five counters | `reject_client_message` | `KissDataPath` |
| Admission queue | `ywd1278/kiss/tx_path.py`, `sustained.py` | bounded FIFO of requests, last time, counters, one lock | `enqueue`, `observe_rssi` | `KissDataPath` |
| Runtime worker | `ywd1278/service/tnc_runtime.py` | failure, drain and counters | loop: drain RX, sample RSSI, observe; start, stop | `KissDataPath` (transmit side), `ReceivePath` (receive side), `Engine` (life) |
| Half-duplex lifecycle | `ywd1278/tx/half_duplex.py` | latch, cycle | `submit_frame` | `TxPipeline` |
| TX broker, TXDELAY router | `ywd1278/tx/broker.py`, `contextual.py` | one job, worker thread | `submit_frame`, start, stop | `TxPipeline` (submission), `Engine` (close) |
| Modem owner, serial transport | `ywd1278/modem/owner.py`, `_serial.py`, `tx_owner.py`, `protocol.py` | bounded call queue, one thread | one call per modem command, start, stop | `TxPipeline` (calls), `Engine` (start, stop) |
| Packet firmware | `firmware/vendor/ywd-mmdvm/firmware/ax25-*` | RX active, capture ring, TX buffer and state, dropped flag | RX_START, RX_STOP, RX_READ, TX_TONES, status reports, the sampling interrupt | `PacketModem`, `ReceivePath` (the ring) |
| Monitor hub, stage tracker | `ywdtnc/monitor.py`, `monitor_tx.py` | sequence number, subscriber queues, tracked ids | `publish`, `subscribe`, `add`, `begin_observation`, `finish` | `MonitorStream` |
| KISS framing | `ywd1278/kiss/framing.py` | partial body, escape and discard flags | `encode`, `feed` | `KissFraming` |
| KISS server, fan-out to clients | `ywd1278/kiss/server.py`, `sustained.py` | client set, subscriber queues | handler loop, fan-out | `ClientStreams` |
| Engine, daemon, unit | `ywdtnc/engine.py`, `tncd.py`, `systemd/` | the objects above, `_rx_started`, `stop_event` | start, health check, cleanup, restart | `Engine` |
| AGW server | `ywdtnc/agw/` | client set, raw mode | handler loop, framing, fan-out | `ClientStreams` |
| Bell 202 receiver | `ywd1278/phy/bell202_rx.py` | bank of timing hypotheses, recent frames | `feed` | `HdlcLink` (one hypothesis, bit by bit), `ReceivePath` (the bank's frames) |
| Waveform, TXDELAY planning | `ywd1278/phy/bell202_tx.py`, `tx/txdelay.py` | none | frame to selectors, TXDELAY to flags | `HdlcLink` |
| Packet log | `ywdtnc/packetlog.py` | connection, two daily files | connect, read, append | `Observers` |
| Web UI | `ywdweb/` | reader thread, live state, browser queues | reconnect, publish, event stream, history listing | `Observers` |
| RF profiles | `ywdtnc/profile_cli.py`, `config.py` | the configuration file, its backup | read, rewrite, replace, restart, roll back | `ProfileSwitch` |
| Firmware tool | `firmware/flash_ui.py`, `qualified_flash.py`, `hat_control.py`, `probe_hat.py`, `ywdtnc/firmware.py` | flash image, GPIO lines, backup directories, unit states | probe, backup, flash | `FirmwareFlash` |
| Sample correlation, AX.25 codec, qualification scripts, installer, firmware build | see `PROJECT.json` | | | not modelled |

### 1.2 How they interact

```
 KISS client --TCP--> handler thread --capture--> session
                         |  enqueue (queue lock)
                         v
                    admission queue <--observe (queue lock)-- runtime worker
                                              | READY: one call, lock held
                                              v
                  half-duplex lifecycle --job--> TX broker worker
                         |   calls                  |  calls
                         v                          v
                        modem owner (FIFO, one thread) --UART--> firmware

 radio interrupt --ring--> firmware --RX_READ--> runtime worker --decoder-->
     backend --one bounded queue per client--> KISS and AGW handlers --TCP-->

 handlers, worker --publish--> monitor hub --bounded queues--> monitor clients
 monitor clients: packet logger --append--> daily files --> history listing
                  Web UI reader --> live state --bounded queues--> browsers

 profile tool --replace--> config.toml <--read at start-- daemon
```

Threads: one per KISS or AGW client, one runtime worker, one broker worker, one owner
thread, one per monitor client; in the Web UI a reader and one per browser.  Locks: the session's, the queue's, the
ingress counters', the hub's and the tracker's.  Every arrow with a reply has
a timeout of its own; a caller that gives up leaves its call with the callee.

### 1.3 What is hard

- Interleaving: two handlers and the worker around four locks, with times,
  parameters and ids taken under one lock and used under another.
- Timeouts that race late answers at three nested levels (serial transaction,
  owner call, broker job), over a line that loses and delays.
- A half-duplex radio: reception stopped for a burst must come back, and never
  while the radio still transmits.
- Time: hysteresis, hold, slots and a deadline, all at equality boundaries.
- Bounded queues that fill: admission queue, owner queue, subscriber queues,
  decoder buffer, firmware FIFO.
- Start, cleanup and restart against a modem that keeps its own state, with
  the worker possibly inside a transmit cycle when cleanup begins.
- Reception next to transmission: a sampler that never pauses, a ring that
  overflows, a restart of RX that wipes the ring and its drop counter, and
  many hypotheses that hear the same frame.
- Observers that outlive the daemon: numbering that starts again, connections
  cut inside a line, appends cut by a crash or a full disk.
- A configuration file replaced by tools that do not lock it, read by a service
  that is restarted around them.
- Firmware updates: a kill or a power loss between backup, erase, write and
  readback, and a service that uses the same lines and the same UART.

`PROJECT.json` lists each hazard at its line with the properties that cover it.

## 2. Modules

| Module | Models | Used by |
|---|---|---|
| `ChannelBusy` | `RSSIChannelBusyDetector` as operators on a record | `AccessAttempt` |
| `PersistentCSMA` | `PersistentCSMA` as operators on a record | `AccessAttempt` |
| `AccessAttempt` | `ShadowChannelAccessAttempt`: which of the two sees a sample, and when a byte is drawn | `ChannelAccess`, `KissDataPath` |
| `ChannelAccess` | one attempt fed any sample at any time | `ChannelAccessProofs`, with the lemmas about one observation that `KissDataPathProofs` uses too |
| `TncSession` | parameter snapshots, validation, `apply` | `KissDataPath` |
| `KissDataPath` | handlers, session, queue, worker | `KissDataPathProofs` |
| `RequestService` | what the path promises: FIFO, one call per request, one outcome, halt after a failure | instantiated by `KissDataPath` |
| `PacketModem` | firmware command semantics as operators | `TxPipeline`, `Engine` |
| `TxPipeline` | lifecycle, broker, owner, line, firmware | `TxPipelineProofs` |
| `Engine` | process life: start, health, cleanup, kill, restart, over owner and modem | `EngineProofs` |
| `MonitorStream` | hub, tracker, publishing wrappers, subscribers | `MonitorProofs` |
| `ReceivePath` | interrupt, ring, drain, status checks, decoder, publication | `ReceivePathProofs` |
| `BoundedFifo` | what a capture promises: a bounded FIFO that counts what it refuses | instantiated by `ReceivePath` |
| `ClientStreams` | KISS and AGW handlers, subscriber queues, fan-out, the worker beside them | `ClientProofs` |
| `Observers` | monitor connection, packet logger and its files, Web UI reader, live state, browsers | `MonitorProofs` |
| `KissFraming` | encoder and incremental decoder | `ClientProofs` |
| `HdlcLink` | TXDELAY flags, stuffing, NRZI, packed selectors, and one receiver hypothesis | |
| `ProfileSwitch` | invocations of the profile tool, the file, the unit | `FirmwareFlashProofs` |
| `FirmwareFlash` | the firmware tool, the HAT's lines and flash, the backups, the unit | `FirmwareFlashProofs` |
| `ChannelAccessProofs`, `KissDataPathProofs`, `TxPipelineProofs`, `EngineProofs`, `ReceivePathProofs`, `ClientProofs`, `MonitorProofs`, `FirmwareFlashProofs` | the theorems; `ClientProofs` covers framing and streams, `MonitorProofs` the monitor and its observers, the last both operator tools | |
| `MC*` | constants for TLC | |

Conventions.  A Python object whose state only its owner touches is a record,
and its methods are operators on it; what threads share is a variable.  A step
is what one thread does between two points where another thread can get in: a
lock, a queue, a blocking call.  `None` in a field that holds times or bytes is
-1.  Operators marked "Mutant" are deliberate errors, one per property, listed
in `PROJECT.json`; no other definition uses them.  Variables marked "history" record the
past for a property and no guard reads them.

### 2.1 Channel access

Time is a natural number.  A sample is the raw RSSI magnitude: busy up to
`BUSY_ASSERT_RAW_MAX`, clear from `CLEAR_RELEASE_RAW_MIN`, a hysteresis band
between.  `ObserveRssi` is a whole `observe_rssi`: detector, decision to draw,
draw, policy.  `Draws` is the set of values the random source may return, so
the model is nondeterministic where the code is random.  `RejectRssi` is the
refusal of a sample outside 0..255.

### 2.2 KISS data path

`Control` and `Data` are what a handler does with a message up to the queue
lock; `Enqueue` is the locked part; `CountVerdict` is the ingress counter
update after it.  The time an enqueue uses is sampled under the lock
(`SerializedNow`); the handler's own earlier sample is kept to show what would
go wrong with it.  The worker's `Sample` reads RSSI without the lock,
`Observe`, `ObserveExpired` and `ObserveRaises` are the cases of one
`observe_rssi`, and an observation that reaches READY holds the lock through
`submitting` until `SubmitReturns` or `SubmitRaises`.

### 2.3 Transmit pipeline

Three threads and a line.  Waiting takes time and a step of a woken thread
takes none (`Urgent` disables `Tick`), which is what makes the comparison of
timeouts meaningful: the unit is 100 ms and the constants of `TxPipeline.cfg`
are the product's.  The line loses requests and replies, the firmware may
serve a request after its transaction timed out, and the transport flushes its
input before every request.  `LifeGivesUp`, `CallerGivesUp` and
`OwnerTimesOut` are the three timeouts.

### 2.4 Monitor stream

`Publish` is the locked part of `publish` (number, snapshot of subscribers),
`Put` one `put_nowait` after the lock is released, `Account` the second locked
part.  The wrappers of `monitor_tx.py` around enqueue, observe and submit are
the steps that publish.  `about` is the request an event is really about,
`label` the id it carries.

### 2.5 KISS framing

A step is a byte, since the decoder's result does not depend on how the stream
is cut into chunks.  The reference splits the whole stream at its delimiters
and unescapes each segment by position.

### 2.6 Engine

The main thread (`main.pc` is the place in `TNCEngine.start`, `run_daemon` or
`_cleanup`), the worker, the owner's thread and the modem.  `StartOps` and
`CycleOps` list the modem calls of a start and of a transmit cycle in order;
the waits inside a cycle are the business of `TxPipeline` and have no clock
here.  A call has two steps, as `ModemOwner._call` has: `Ask` reads
`_accepting` under the lock and `Queues` puts the call after releasing it, so a
call can land behind the stop item.  A request is answered, served without its
answer arriving, or lost.  A caller gives up only on a call that waits behind
another, since a call at the head of the queue ends with its own transaction.
`modem` is the one variable that `Exits` and `Killed` leave alone: the unit's
pre-start step releases the application without a reset pulse.

### 2.7 Receive path

A byte is its position on the air.  `AirByte` is the radio's interrupt: it stores a
byte or counts a drop, at any point between two steps of the host.  The worker
drains at most `DrainLimit` reads, feeds what each brought to the decoder byte
by byte and then publishes what is new, checks the status at intervals, samples the
channel, and in a transmit cycle drains once more, stops RX, transmits, starts
RX and renews its decoder.  A transmission is heard by any of the sets of
hypotheses in `Clarity`, each at its own delay; copies that lie within the
tolerance collapse.  `published` are the transmissions handed to the backend.

### 2.8 Client streams

One handler per client: take what is queued, emit it, wait for input with a
timeout, handle the message.  `PutNowait` into a full queue drops the new frame
and counts it.  Handling a DATA frame waits for the admission lock, which the
worker holds during a transmit cycle.  The KISS and the AGW handler have the
same loop and differ in what opens a stream (an AGW client asks for raw frames)
and in what ends one.

### 2.9 Observers

Daemon, logger and Web UI are processes; each dies and is started again.  A
connection is a sequence of lines and, once it is cut, perhaps a part of one.
An append has two files and fails or is cut in either (`Forms`: whole lines,
parts of lines).  `HistoryLines` is what the Web UI lists of
the files.  A record of the live state carries the generation of its
connection and the daemon's sequence number: its identity.

### 2.10 HDLC link

Frames become bits, stuffed, between flags whose number TXDELAY gives; bits
become tones by NRZI and selectors in whole bytes, and a request that exceeds
the selector limit is refused.  The receiver is one hypothesis with a perfect
symbol clock, in any state noise may have left it in.

### 2.11 Profile tool

A configuration is its frequency and power pair, the TX switch, whether the
rewriting finds its keys and whether the rest loads.  Each read and replacement
of the file and each `systemctl` call is a step, since nothing locks the file.
A failed restart may not have reached the manager, may have stopped the
service, or may go on without the tool.  `unread` marks a change that nobody
followed by a restart: `--no-restart`, a tool that died or a failed rollback.

### 2.12 Firmware tool

`flash_ui.py` is the program an operator runs; `qualified_flash.py` has the
functions it calls, and a `main` of its own with the same control flow.
`tool.pc` is the place in it, one step for each thing that outlives a kill: a
level on a line, a file, the flash.  An image is what is in main flash, reduced
to the identity it answers with and to whether its bytes are the golden ones:
`patched` answers like stock without being it, `partial` is a write that was
cut off late and answers like the product, `torn` does not run.  `Fails` is an
exception on its way through the `finally` blocks: `Bootloader.cleanup`
restarts the application if the bootloader was entered, and `Finish` is the end
of `stopped_known_modem_owners`.  An exception comes from the tool's own checks,
from the keyboard or the file system at any place (`Interrupted`), or from the
GPIO helper, which may fail at any of its levels or when it reads them back:
`EntryFails` is raised before `active` is set, so cleanup finds nothing to do;
`RestartBreaks` raises in `restart_application`, and cleanup tries again, but is
ignored in cleanup itself.  `systemctl` is never checked either: a stop may
leave the unit running (`StopOwner`), a start may be refused (`FinishRefused`).
`noted` is the list of units to start again; `found`, `helper`, `took` and
`refused` are history for the properties.  The processor runs what BOOT0 selects when
RESET rises, so a service start (`ApplicationRelease`) between the tool's two
levels matters.  `Killed` and `PowerCycle` can come between any two steps;
`hat_control.py` says a HAT may come up with RESET held low.

## 3. Runs

| Run | Asks | Instance | Distinct states |
|---|---|---|---|
| `channel_access` | `DrawsAgree`, `ReadyOnlyAfterQuiet` | hold 3, clock to 11, samples on both sides of each threshold | small |
| `kiss_threads` | `CountersBalance`, `NoTimeRejection`, `ReadsOwnUpdates`, `AttemptUsesCapturedPolicy`, `ImplementsService` | two symmetric connections, three messages, capacity 2, one parameter update | 851k |
| `kiss_time` | `TransmissionsSpaced`, `EveryRequestEnds` | one connection, two requests, hold 1, all sample classes, clock to 7 | 378k |
| `tx_pipeline` | `SettledBetweenCycles`, `OutcomesTruthful`, `RxStartOnlyAfterBurst`, `NoLateBurst`, `CycleEnds` | two cycles, the product's timeouts | 985k |
| `receive` | `NoSplicedStream`, `HeardBeforeTransmit`, `PublishedOnce`, `RingIsFifo`, `DropNoticed` | a ring of four slots, reads of two bytes, six bytes of air, one own transmission, two hypotheses | 722k |
| `clients` | `ClientsAccounted`, `FramesServed` | a KISS and an AGW client, one-place queues, two frames, a transmit cycle | 306k |
| `monitor` | `HubAccounts`, `StagesInOrder`, `NeverHeldUp` | one connection and the worker, a one-place subscriber queue | 1.44M |
| `observers` | `IdentityUnique`, `HistoryFaithful`, `ObserversCatchUp` | two lives of the daemon, two events each, two faults, a cut; the logger or the Web UI with one browser | 62k |
| `kiss_framing` | `MatchesReference`, `Resynchronises`; `FrameGetsThrough` | all streams of seven bytes over five byte values, bodies of two; five frames with runs of ones at every edge, any prior receiver state | 117k |
| `engine` | `CleanExitLeavesIdle`, `ReceivesWhileHealthy`, `NoBurstOnceClosed`, `FailureNoticed`, `StopEnds` | three starts, a kill, two cycles a process, a lossy line, faults of device and listeners | 392k |
| `engine_restart` | `KilledIsRestarted`: violated | three starts, a kill, a line that loses nothing, no faults | stops early |
| `flash` | `RollbackFirst`, `LeavesAsFound`, `PassMeansDeployed`, `ServiceRestored`; `ServiceUsesFile` | two runs of the firmware tool, two symmetric backup directories, any failure (helper and `systemctl` too), interrupt, kill or power loss; two invocations of the profile tool | 468k |

`kiss_framing` and `flash` each hold two models that share no state; a behaviour
takes steps of one of them.

What they show:

- `DrawsAgree`: the adapter and the policy agree on every draw, so the
  policy's "random byte required / not allowed" errors are unreachable.
- `ReadyOnlyAfterQuiet`: access is granted only after the hold, and the slot,
  since the last sample that was not clear.
- `TransmissionsSpaced`: nothing learnt about the channel before or during a
  transmission counts for the next one.
- `NoTimeRejection`: sampling the clock under the queue lock is what keeps a
  handler delayed at the lock from being refused for time running backwards.
- `ReadsOwnUpdates`, `AttemptUsesCapturedPolicy`: a frame is sent with
  parameters at least as new as its own connection's last update, and exactly
  the captured ones, however long it waits.
- `CountersBalance`: counters under two locks account for every frame in every
  state, those in flight between the locks included.
- `ImplementsService`: the path refines `RequestService`, with
  `waiting`, `ended` and `phase` as the queue's ids, the log and the worker's
  state.
- `SettledBetweenCycles`, `NoLateBurst`: the nested timeouts are ordered so
  that when a cycle ends nothing of it is left with the broker or the owner,
  and no frame is radiated after it was reported failed.
- `OutcomesTruthful`: a frame reported complete was on the air once.
- `RxStartOnlyAfterBurst`: reception is restarted on a silent radio only.
- `RingIsFifo`: every capture implements `BoundedFifo`: bytes leave the ring in
  order, none twice, and a drop is counted and not wiped by a restart of RX
  before the host has seen the count.
- `DropNoticed`: a drop in the ring ends the service.
- `NoSplicedStream`: what a decoder is fed is one piece of the air, without a
  gap that the program made itself.
- `HeardBeforeTransmit`: a frame that ended before the silence that allows a
  transmission is decoded and published before it, although RX_STOP discards
  what is left in the ring and the drain is bounded.
- `PublishedOnce`: hypotheses that hear the same frame make one publication,
  repetitions of a frame make several, in the order of the air.
- `ClientsAccounted`, `FramesServed`: since its stream was opened a client gets
  every frame in order or its drop is counted, and its queue is served again
  whatever it sends, while the worker transmits, and beside a client that is
  gone.
- `IdentityUnique`: no two events in the live state of one Web UI process share
  generation and number, over restarts of the daemon and reconnections.
- `HistoryFaithful`: the listed history is what the logger took in, in order,
  each once, with a readable line for each; a fault costs at most two events,
  its own and the one appended to the rest of its line.  The bound is tight.
- `ObserversCatchUp`: logger and Web UI come back after every fault, and only a
  requested stop ends the reader.
- `FrameGetsThrough`: a frame sent with any TXDELAY is heard exactly once and
  unchanged, from any state of the hypothesis.  With TXDELAY 0 there is a single
  opening flag, and this needs the tone heard last to be mark, as the first
  NRZI bit depends on it.
- `CleanExitLeavesIdle`: an exit status of 0 is never a lie.  Whatever raced the
  cleanup or was lost on the line, either the modem is idle or the daemon
  reports failure.
- `ReceivesWhileHealthy`: no cycle, failed burst or earlier process leaves a
  running service deaf between cycles.
- `NoBurstOnceClosed`: `close` waits for the router's lock, so no burst begins
  after it although the worker may be anywhere in its cycle.
- `FailureNoticed`, `StopEnds`: a failed worker, or SIGTERM, ends the process,
  also when a call is queued behind the owner's stop item and is never served.
- `RollbackFirst`: main flash is not erased or written unless a complete backup
  of stock firmware exists, whatever an earlier run left half done.
- `PassMeansDeployed`: success means the exact product in flash, running and
  recorded, also in the branch that trusts the identity and writes nothing.
- `LeavesAsFound`: a run that ends by itself, and whose last call of the GPIO
  helper did not fail, leaves the application running or what it found: a
  failure at any other place in the bootloader, or a first failed restart, is
  made good.  A helper that failed last is excepted; see below.
- `ServiceRestored`: a probe or backup that ends by itself leaves the service it
  took down running, or `systemctl` was asked to start it and did not.  The unit
  is noted before it is stopped, so an exception at any place between, also in
  the bootloader and in cleanup, reaches the start.
- `ServiceUsesFile`: once no invocation of the profile tool is at work, a
  running service uses what is in the file, also when restarts failed and texts
  were rolled back under each other.
- `Resynchronises`: from any state the next encoded frame is decoded exactly.

Finding (`engine_restart`, expected to be violated).  A daemon that is killed
leaves the firmware receiving; the next start asks for RX_START, which the
firmware refuses while RX is active, and the cleanup skips RX_STOP because the
engine did not start RX itself.  Every restart that the unit's
`Restart=on-failure` makes fails the same way.

Behaviours the models have, no run is about, and a reader should know.  `seq` is
taken under the hub's lock and the event queued outside it, so a client can see
numbers out of order, against `docs/monitor-events.md`.  A request enters the
queue and the tracker in two steps, so two handlers can cross and stage events
carry each other's `request_id`.  The firmware tool stops the units that are
active; one that waits for its automatic restart is not, so the daemon can come
up while the tool talks to the bootloader, against `README.md`'s "One process
owns the HAT UART".  The unit is `Type=simple`, so `systemctl restart` succeeds
before the daemon has loaded its configuration or opened the modem: a daemon
that fails a moment later is not rolled back, although `docs/rf-profiles.md`
promises it "if the new service start fails".  In the firmware tool a
`bootloader-entry` that fails after its pulse, or in the middle of it, leaves
the HAT in the bootloader or held in reset: `active` is set only after it
succeeded (`qualified_flash.py:214`) and cleanup then does nothing.  And the
restart in cleanup is not checked, so a backup whose last restart failed is
still a success.  Nothing in the repository promises otherwise for a helper
that fails, so this is a limit of `LeavesAsFound` and not a finding.

Bounds.  Times: a hold, a slot and a deadline that fit the clock with room for
one busy period between two clear ones.  Three messages and capacity 2 fill
the queue and refuse one.  Two cycles let a leftover of the first meet the
second.  Three starts are the unit's `StartLimitBurst`; one kill is enough for a
start to meet what an earlier process left.  A one-place subscriber queue is full after one event.  Two runs of the firmware tool are one that is cut
off and one that meets what it left, two directories a sound backup beside an
unfinished one.  A ring that holds three bytes and is read two at a time overflows
between two drains; six bytes of air hold a frame of three, a repetition or an
own transmission, and the drain after it.  One-place client queues drop the
second frame.  Two lives of the daemon number the same events twice, and two
faults meet in one line.  Two invocations are enough for a rollback to undo
somebody else's change.  Seven bytes
hold an over-long frame, an open escape and a complete frame.  Deadlock is not
checked where a bounded clock or message count lets the model stop.

Fairness.  `EveryRequestEnds`: the clock, the worker loop and the
return of the downstream call, which is `CycleEnds`; handlers get none.
`CycleEnds`: the host's threads, its clock and nothing of the modem or the
line.  `NeverHeldUp`: the publishing threads, not the client.  `DropNoticed`:
the worker, which loops until it is stopped.  `FramesServed`: the worker and
each handler, whose socket has a timeout; clients owe nothing.
`ObserversCatchUp`: the logger's and the reader's loops and their waits, not
the daemon, the network or a browser.  `FailureNoticed`,
`StopEnds`, `KilledIsRestarted`: the threads of the process and the unit's
restarts; the modem, an operator and a fault owe nothing.

## 4. Proofs

Every theorem holds for every value of the constants that satisfies the named
assumption of its module (`ASSUME`), so for any number of connections, frames,
cycles, runs or bytes.  The shape is always the same: an inductive invariant as
a conjunction of named parts, one lemma per action (per part where an action
disturbs several), and a temporal theorem that combines them.  Each inductive
invariant was checked on the instance of its run before it was proved.

| Proof module | Inductive invariant | Properties of the runs it proves |
|---|---|---|
| `ChannelAccessProofs` | `AccessInv` | `DrawsAgree`, `ReadyOnlyAfterQuiet` |
| `KissDataPathProofs` | `KissInv` | `NoTimeRejection`, `ReadsOwnUpdates`, `AttemptUsesCapturedPolicy`, `TransmissionsSpaced`, `CountersBalance`, `ImplementsService` |
| `TxPipelineProofs` | `PipeInv` | `SettledBetweenCycles`, `OutcomesTruthful`, `RxStartOnlyAfterBurst`, `NoLateBurst` |
| `EngineProofs` | `EngineInv` | `CleanExitLeavesIdle`, `ReceivesWhileHealthy`, `NoBurstOnceClosed` |
| `ReceivePathProofs` | `PathInv`; `ReceiveInv` | `NoSplicedStream`, `RingIsFifo`; `PublishedOnce`, `HeardBeforeTransmit` |
| `FirmwareFlashProofs` | `FlashInv`, `TrailInv`; `SwitchInv` | `RollbackFirst`, `LeavesAsFound`, `PassMeansDeployed`, `ServiceRestored`; `ServiceUsesFile` |
| `ClientProofs` | `ClientInv`; `DecoderBounded` is inductive itself | `ClientsAccounted` |
| `MonitorProofs` | `MonitorInv`; `ObserversInv` | `HubAccounts`, `StagesInOrder`; `IdentityUnique`, `HistoryFaithful` |

Channel access.  `ReadyOnlyAfterQuiet` is not inductive: it relates a slot armed
at one sample to a busy sample some time before.  `AccessInv` adds what carries
it: `DetectorInv` (a clear candidate is no older than the last sample that was
not clear, and a clear detector has held), `CsmaInv` (a waiting slot lies a hold
and a slot after the last busy mark, and exists only while the detector is
clear) and that neither clock runs ahead.  Two facts are stated only as
theorems: `ClearAfterHold`, that the detector turns clear only after a whole
hold, and `TerminalFinal`, that a verdict never changes.  The lemmas about one
observation are stated for any attempt, since the queue's proofs cite them for
every request.

KISS data path.  `KissInv` says where the worker may be (`WorkerInv`), that no
recorded time is ahead of the clock (`ClockInv`), that a handler about
to count a verdict has one (`VerdictInv`), that a connection's own updates are in
the session and in what it captured (`OwnInv`), that ids follow the order of
admission (`IdInv`), and that only the head has an attempt, begun after the last
transmission ended and run under the captured parameters (`ContendInv`, with
the lemmas of `ChannelAccessProofs` for what the attempt's verdict means).  `CountersBalance`
is about cardinalities of sets of connections, so its proof goes action by
action over which connection moves between them.  `ServiceImplemented` shows
the initial states and each step of the path to be an initial state and a step,
or a stutter, of `RequestService`.

Transmit pipeline.  `PipeInv` says that the owner, queue and transaction under
way together, holds at most one call of the broker and one of the lifecycle, in
this order (`WorkInv`); that the burst of a frame exists once, as a call, a
request on the line or a transmission (`BurstInv`); what broker and lifecycle
wait for (`BrokerInv`, `LifeInv`); and, while the lifecycle goes on, which
requests an abandoned transaction may have left on the line and which answers
still mean something (`GoingInv`).  A late request belongs to a broker that
reported failure, and the lifecycle concludes nothing of the modem before it has
an answer to a request served after it.  One fact is about time: a submitter waits longer than
a preflight call can take, so it gives up only on a broker whose burst is
already asked for.  This needs the broker's margin to be positive, which is all
that the assumption says of the timeouts; in the code it is a literal second.
`TypeCorrect` supposes an owner queue of more than two places (the engine's has
sixteen) and shows that it never fills.  The other theorems do not.

Engine.  `EngineInv` says which of the two callers has a call where (`CallInv`),
what each place of a start, a cycle and a cleanup has learnt about transmitter
and receiver (`TxInv`, `RxInv`, `UpInv`), what a cleanup without errors has
established (`CleanInv`), and that a closed router leaves no burst in the queue
or with a caller (`ClosedInv`).  Once the router is closed the knowledge of the
cycle is neither needed nor kept: a call may then wait behind the owner's stop
item and never be served.

Receive path.  `PathInv` says that ring, reply under way and decoder hold
consecutive stretches of the air that end now (`StreamInv`), as long as nothing
was dropped and the worker neither transmits nor has failed.  A gap is made only
by a drop, which the status check reports, or around a transmission, which
renews the decoder.  `RingIsFifo` maps the two indices to the sequence between
them; the lemmas are about counting modulo the buffer size.

`ReceiveInv` adds what the clients get.  `OrderInv`: the bytes in the decoder,
the reply and the ring rise even across drops (`BytesInv`), and a transmission
that was decoded lies wholly before the bytes still to come, and the decoder
either knows it or started after its beginning (`LineInv`), so that no
hypothesis can report it a second time.  This is where the tolerance matters:
copies are at most `Tolerance` apart, repetitions at least a frame, and no byte
completes two transmissions.  `WholeInv`: without a drop the decoder is fed the
whole capture and has decoded all of it that can be heard.  `DrainInv`: while a
drain that follows the clear candidate goes on, the bytes taken and what its
remaining reads can bring (`Budget`) reach that moment; a short read has emptied
the ring, and the assumption that the reads of a drain together exceed the ring
(comment at `RX_FIFO_DRAIN_READ_LIMIT`) starts the budget.  With a stop request
or after a drop the property claims nothing, as the code then leaves the loop.

Operator tools.  `RollbackFirst` is about the past, so it says nothing of a tool
that is about to write.  `FlashInv` adds `ToolInv`: a tool past its decision to
write leaves a verified directory behind it, a tool in a backup has a directory,
and one that stores an image has read stock firmware, so that no step takes a
verified image away.  `TrailInv` follows a run to its end.  `BootInv`:
inside the bootloader session the tool knows that it entered it, the processor
is held exactly while RESET is low, on the way out BOOT0 selects the application
and RESET has stopped the ROM, and outside, unless the helper failed last, the
processor runs the application or what was found.  `DeployInv`: an orderly way
out of a flash means that the product was read back.  `OwnerInv`: a unit that
was taken down was noted before.  Only `Finish` and `FinishRefused` decide an
exit that is not a kill (`ExitStep`), and no way leads past them, which is what
makes `ServiceRestored` follow.  `SwitchInv`
restricts `ServiceUsesFile` to the invocations that owe a restart, which makes
it inductive.

KISS framing.  `DecoderBounded`: the buffer never exceeds `max_body_bytes` and
what is delivered is a message, for every limit and set of bytes.

Client streams.  `ClientInv` says of each open stream that what its client got,
has queued and holds in its handler is exactly what it is due: the frames
published since it was opened less those it missed, each once and in order
(`Accounted`).  Around it: a stream that was not opened yet has an empty queue and
is no target of a fan-out (`StreamInv`), a target has not missed the frame under
way and what is noted of a client is about published frames (`NotedInv`), and
`drops` with the misses of the fan-out under way count all misses (`CountInv`).

Monitor.  The two properties need invariants of their own.  `HubAccounts` is a
sum of four cardinalities that every `Put` and `Account` moves an element of;
`HubInv` adds that a publication drops at most one payload per subscriber, which
keeps the counted sets finite (the constants `Connections` and `Subscribers` are
assumed finite, as processes have finitely many).  `StagesInOrder` needs to know
who can announce a stage: `IdsInv` ties the worker to the head of the queue by
number, `TrackerInv` and `MessagesInv` keep ids distinct, `FreeInv` says that
the worker never announces a stage while its last announcement is under way, and
`StageInv` that no subscriber has seen a later stage than the worker has reached.

Observers.  `ObserversInv` follows the lines.  `LinkOK`: a connection delivers
events of one life of the daemon, in order, and while it is open that life is
the present one.  `PathStep` is what any step of the daemon or the network
leaves true: an event that was behind the connection stays behind it.  From this
the logger's events ever rise (`TakenInv`), each reaches the JSON file at most
once and behind its readable line (`FilesInv`, `HandInv`), and the live state
rises in generation and number (`RecentInv`, `CurrentInv`: only the events of the
present generation are compared with the present connection).  The count in
`HistoryFaithful` is not inductive, since a line that is cut takes the one behind
it with it; `CountInv` counts what the end of the file will still cost
(`Debt`: two for a line that is listed only until something is appended to it).
The theorems are about `ObserversSpec`; the run's specification adds fairness.

Only model-checked:

- the liveness properties (`EveryRequestEnds`, `CycleEnds`, `DropNoticed`,
  `FramesServed`, `NeverHeldUp`, `ObserversCatchUp`, `FailureNoticed`,
  `StopEnds`, and `KilledIsRestarted`, which is violated): fairness is outside
  the prover's reach;
- `MatchesReference` and `Resynchronises`, `FrameGetsThrough`: what a fold or a
  recursive definition makes of a whole stream or frame needs induction over
  data.

A `TypeOK` that no theorem is about documents a module's state.

## 5. Plan

Every safety property of the runs that does not fold over data is proved.  What
is left is breadth: the bit-level AX.25 codec, the HTTP views of the Web UI and
the correlation of the receiver are not modelled, and the hazards without a
property in `PROJECT.json` say what each would need.

## 6. Not modelled

- Correlation, slicing and tone decisions of the receiver, and the modulator:
  arithmetic over samples.
- AX.25 field parsing: its verdict is a Boolean input, and the frame check
  sequence is the assumption that a damaged frame is not delivered.
- Byte layouts of the modem protocol, reduced to what each report says, and
  field checks of the configuration, reduced to whether it loads.
- `tx/access_queue.py` and `service/rx_runtime.py`: predecessors of the admission
  queue and of the runtime's drain, with the same rules; the daemon uses neither.
- HTTP views, filters and statistics of the Web UI, and its configuration.
- Qualification tools (`p2_qualification.py` and the scripts), installer and
  firmware build: sequential runs over files and a test bench.
- In the firmware tool, digests are an image's name, and the units it knows are
  one unit.
