# TLA+ models of ms605-ble

ms605-ble is a Python program (with a browser front end) that finds, connects,
configures and calibrates MS605 presence sensors over Bluetooth Low Energy. This
directory holds a model of it: TLA+ modules translated from the source, TLC
configurations that check them on small instances, and TLAPS proofs of the most
important results for instances of any size.

Everything in the program runs on one asyncio event loop. So **an action of a
module is the code between two awaits**, and the interesting behaviour is what
other tasks, callbacks and the radio do while a task is suspended. What is written
`file.py:n` below is a line of `src/ms605/`.

Contents: 1 the system, 2 the modules, 3 the runs, 4 the proofs, 5 what is only
checked or not modelled, 6 findings, 7 plan.

## 1. The system

    web/src (React)  <-- /ws, /api -->  gui/server, gui/ws        cli/
                                          |      |                 |
                              gui/batch, gui/apply, gui/live       |
                                          |                        |
                                        fleet  ---- registry ---- storage
                                          |
                              calibration |
                                     \    |
                                      session ---- events (bus to everybody)
                                          |
                                        driver ---- protocol, models
                                          |
                          bleak, gui/browser_ble (Web Bluetooth), sim

| Component | State | Operations | What is hard | What makes it correct |
|---|---|---|---|---|
| `driver.py` MS605 | client, link generation, `_pending`, push waiters, send lock, reassembler | connect, disconnect, reconnect, `_request`, notifications | requests cancelled or timed out between chunks, links replaced under a queued request, stalled writes that abandon the link, message ids that come round | whole frames on the wire, each answer to its own request, no request on a link it was not made for, nobody waits for ever |
| `session.py` DeviceSession | link state, `_closes`, connect lock, keep-alive and PIR tasks, operation lock | connect, reconnect, close, operation, read_info | `close()` during a connect, a late link, a loss noticed in three places, tasks that end themselves | one owner of a connect, no orphan link, a running keep-alive, the documented state machine |
| the same, live output | viewer count, `tag54` on the sensor, last PIR value | acquire_live, release_live, pushes, PIR poll | writes under way while the count and the link change, calibration forbids writing | the sensor streams iff somebody watches; PIR is of this link |
| `calibration.py` CalibrationJob | state, waiter, cancel signal | run, cancel | result, cancel, interrupt and loss in one turn; a late result of an earlier run | one outcome; success is its own; a stopped sensor does not learn on |
| `fleet.py` Fleet | sessions, connecting tasks by address, releasing set, remembered connections | gather, recovery, connect, release, aclose | scans acted upon late, sensors that swap addresses, cancels by address | every link has an owner; stopped means stopped; released means released |
| `fleet.py` BatchCalibration, `gui/batch.py` BatchService | rounds, jobs, what is shown per sensor | create, retry, cancel, the fire time | retries that never happened, cancel at the fire time | what is shown is the last attempt that happened; success stays |
| `fleet.py` drafts and apply, `gui/apply.py`, `gui/server.py` | snapshots, job items, config_rev, operation lock | preview, apply, rollback, clone, batch, release | partial failure, stale previews, thresholds that show late, operations that exclude each other across awaits | a snapshot before every write; a stale preview is refused; "verified" is true; a job's sensors are its own |
| `gui/ws.py`, `web/src/store` | dirty marks, seq, bounded queues; the page's view | events and routes in, messages out, resync | slow clients, reconnects, routes that wait in the middle | a page that has everything it was sent shows the server |
| `gui/live.py` | watchers, the reference held, slots | subscribe, reconcile, frames | a watcher or a session that changes while the task waits | one reference exactly while somebody watches; the last frame is shown |
| `gui/browser_ble.py`, `web/src/api/bluetooth.ts` | pending and retired ids, the active client, the browser's link | rpc, receive, link_lost, serve | a result against a time-out, a link against its successor | every answer is expected; a client in use has its link |
| `registry.py`, `storage.py` | sites, sensors, pending imports; files, history, snapshots | mutations, match, load, append, save | a failed write, a crash or a power cut at any step, the clock set back | memory never claims more than the file; the next start loads; records and snapshots stay |
| `protocol.py`, `models.py`, `sim.py` | reassembly buffer; the sensor's attributes | encode, decode, feed; requests, refusals, learning | lost chunks, values that look like frame marks, late thresholds | frames come out whole; what is stored was sent; what is verified is what was previewed |
| `gui/cli.py`, `gui/tls.py` | listening sockets, certificate files, token, lock | run_gui, ensure_gui_tls | two GUIs started at once, a kill between two renames | one GUI has the radio; one token; the CA that clients trust stays |
| `cli/` | the sessions of one command | the menu, calibrate, clone | Ctrl-C at any await | no link left behind; the summary says what happened |

## 2. The modules

| Module | What it models | Source |
|---|---|---|
| `LinkState` | what a session promises about its link | events.py, session.py |
| `Session` | the tasks that open, keep, lose and drop one session's link, and the driver calls they make | session.py:100-290; driver.py:180-330 |
| `Driver` | concurrent requests on one characteristic, over links that come and go | driver.py:225-505; protocol.py (message ids, answers) |
| `Live` | viewers, tag54 writes, PIR, over the abstract link | session.py:290-327, 367-447 |
| `JobState` | what a calibration job promises its readers | calibration.py |
| `Calibration` | calibration jobs and the sensor that learns, over the abstract link | calibration.py:126-359; driver.py:792-899 |
| `Fleet` | gathering, recovery, release and the connect tasks, over sessions that are abstract links | fleet.py:100-549 |
| `Batch` | batches and what is shown of them, over abstract jobs | fleet.py:617-717; gui/batch.py |
| `Service` | drafts, apply, verify, rollback and clone with the routes that guard them, against batches, calibrations, releases and lost links | fleet.py:720-948; gui/apply.py; gui/server.py |
| `Frame` | the wire format: frames byte for byte, CRC, chunks, the reassembler | protocol.py |
| `Profile` | the settings: encodings, profiles, changes and what a preview shows of them | models.py; fleet.py; gui/apply.py |
| `Sensor` | one sensor at the end of a link, with the driver's reads and writes of its settings (extends `Profile`, which extends `Frame`) | sim.py; driver.py:505-790 |
| `Hub` | dirty marks, the numbered stream, client queues, the page that puts them together; the routes that change what is shown | gui/ws.py; gui/server.py; web/src/store/reducer.ts |
| `LiveFeed` | the watchers of a sensor, the one reference held for them, throttled frames | gui/live.py |
| `Peer` | a browser as a radio: calls, answers, notifications and losses in both directions | gui/browser_ble.py; web/src/api/bluetooth.ts |
| `Console` | the commands of the command line, with Ctrl-C anywhere | cli/cli.py, cli/_shared.py |
| `Registry` | registry.json, the history and the snapshots, under failing writes, crashes and power cuts | registry.py; storage.py; gui/ws.py (the history's index) |
| `Launcher` | GUIs starting and ending in one data directory: ports, certificates, token, lock | gui/cli.py; gui/tls.py; gui/server.py (lifespan) |
| `SessionProofs`, `DriverProofs`, `FleetProofs`, `ServiceProofs` | the proofs about the module they are named after | |
| `SensorProofs` | the proofs about `Sensor`, and about `Frame` and `Profile`, which it extends | |
| `JobProofs` | the proofs about `Calibration` and `Batch` | |
| `FrontProofs` | the proofs about `Live`, `Hub`, `LiveFeed`, `Peer` and `Console` | |
| `DirectoryProofs` | the proofs about `Launcher` and `Registry`, which share the data directory | |
| `MCx` | instances for TLC: symmetry, the sets a cfg cannot write down. `MCFront` and `MCRegistry` put several modules under one run | |

How they fit together: `Session` is shown to implement `LinkState` (property
`ImplementsLink`, theorem `Refinement`), and `Live`, `Calibration` and `Fleet` are
built on that abstract link: the first two extend `LinkState`, `Fleet` gives each
session object the same state and states `SessionsKeepTheirState` for it.
`Calibration` is shown to implement `JobState` (`ImplementsJob`, theorem `Refinement`);
`Batch` uses that coarse job, and `Service` a calibration that starts, ends or times
out. `Driver` is the request path that all of them use as a black box; `Sensor` looks
inside a single request, down to its bytes. `Peer` is a radio for `Driver` in the place
of the operating system's.

`MCFront` runs `Live`, `Hub`, `LiveFeed`, `Peer` and `Console`, and `MCRegistry` runs
`Registry` and `Launcher`, as alternatives: the parts share no state, a behaviour belongs
to one of them, and nothing is claimed about the parts together. What they do share
in the program (a session between `LiveFeed` and `Live`, events between everything and
`Hub`) is an input of each that may come at any time.

What stands for what, per module:

* **Session.** `att[a]` is a task inside `_establish()`: its `pc` is the await it is
  at (the scan, the connect lock, the stale disconnect, the connect, the two
  disconnects of a link not wanted). The counters `_closes` and `_link_gen` are only
  compared for "has it moved since I looked", so each is a flag of the task that
  looked (`closed`, `cut`). `up`, `asked`, `gone` are the radio: links that are up,
  links told to disconnect, links whose disconnect callback is still to come.
* **Driver.** `req[r].pc` is where `_request()` is suspended; `pending` is
  `_pending`; `buf` is the buffer of the *sensor*, which joins what it is sent until a
  frame is whole, so a cut frame is visible where it does harm. `link`, `era`, `gen`
  are the client, which link it is, and `_link_gen`. The `age` of a request, and of the
  answer to it, counts the requests made since: history that no guard reads, to tell whose
  answer a call took and whether the ids had come round in between.
* **Live.** `writes` is the queue of tag54 writes under way (the send lock keeps their
  order), `out` is tag54 on the sensor, `missed` remembers what left it behind: a
  failed write, or a connect under a calibration. `pir` says *where* the shown value
  came from, the only thing about it a property can be about.
* **Calibration.** A job is two tasks, `run()` at `pc` and the driver call at `w`. `air`
  holds the sensor's answers under way, `learning` and `last` are the sensor's.
  `hits` counts the times the task of `run()` was cancelled from outside. A write that
  stalls ends the link under its own error: TIMEOUT, or FAILED before the start.
* **Fleet.** `obj` holds the session objects, `sess` is `_sessions`, `rem` the remembered
  connections, `conn` is `_connecting`, `try` the connect tasks, `op` the callers of
  `stop_gather()`, `release()` and `aclose()`. `peer` is the sensor a link really
  reaches: a scan may show any address, and a connect there can reach any idle sensor,
  because hosts recycle addresses.
* **Batch.** `core[r]` is the core batch of round `r`; `coreFor`, `attempt`, `elapsed`,
  `previous` are the dictionaries of BatchService. FAILED stands for FAILED, LOST and
  TIMEOUT (all retryable), STOPPED for CANCELLED after the start.
* **Service.** A sensor has three sections: one that takes effect at once, the thresholds,
  which it acknowledges at once and shows later (`due`), and the detect mode, whose
  value "learning" must never be written. `job` is the server's one apply job at the
  await it is at, `rev` is `config_rev`, `page` what a page has been shown, `oplock` the
  ids a release holds the operation lock for.
* **Sensor.** `up` and `down` are the two directions: the chunks in the air, the
  receiver's reassembly buffer, and the frames that arrived whole and are owed to the
  receiver. `tags` is what the sensor returns for each attribute, byte for byte; `app`
  is the operation of the program under way: a preview, and once it has shown its draft
  the apply, which reads again, resolves the draft against what it reads, writes and
  verifies. `base` is what that second read showed (a ghost). `left` holds the bounds.
* **Hub.** What is shown of sites, settings and an apply job is a version number; a
  sensor's address is the sensor. `core` is the state the server has, `marks` what is to
  be published, `client` the queue of each connection, `page` what the browser made of it.
* **LiveFeed.** Sessions and frames are numbers. `refs` is the live count of each
  session as this feed has made it, `due` the two calls that come a moment after a
  session changed.
* **Peer.** `pc[i]` and `fut[i]` are the task and the future of request `i`. A task runs
  some time after what it waits for is settled, messages that come meanwhile first.
* **Console.** `stage` is the await the command's coroutine is at; prompts are free
  choices, a calibration or an apply is the result it comes to.
* **Registry.** `disk` is what a reader finds, `lasting` what a power cut may leave (a
  set, since a rename may or may not have reached the disk), `job` the atomic write at
  its step. `kept` and `saved` are ghosts: what must be found again.
* **Launcher.** A key pair, a CA or a token is the number of the start that made it;
  `prepared` is what a start has still to move into place. `trusted` (the CAs that
  clients were told to trust) and `overlapped` (two starts prepared at one time) are ghosts.

The lines of each definition are in PROJECT.json, "map". Definitions whose comment
begins with "Mutant of" are not part of the model: each is a plausible mistake in the
code, and PROJECT.json, "mutants", pairs it with the property that must catch it.

## 3. The runs

State counts are distinct states on two workers; the longest run takes a little more than two minutes.

| Run | Instance | Distinct states | What it shows |
|---|---|---|---|
| `session_safety` | 2 attempts, 1 closer, 2 keep-alives, 1 poll, 3 links | 1,371,018 | every link is owned by somebody; the session implements `LinkState` |
| `session_live` | 2 attempts, 1 closer, 1 keep-alive, 1 poll, 1 link | 228,803 | a closed session comes to rest |
| `driver` | 2 requests, 2 ids, frames of 2 chunks, 2 links, 1 answer in the air | 763,162 | whole frames, own link, own answer unless that one is late by all the ids; every request ends |
| `calibration` | 2 jobs, 1 outside cancel each | 741,118 | own result, a stopped sensor does not learn, implements `JobState`, every run ends |
| `fleet` | 2 sensors, 2 addresses, 3 sessions, 2 connect tasks, 1 caller at a time | 779,119 | links have owners, no session on another sensor, stop and release are final |
| `batch` | 2 sensors, 3 rounds | 83,562 | what is shown stands, an early cancel is quiet, every round ends |
| `service` | 2 sensors, 1 page, 4 kinds of request, 4 events | 4,293,824 | a snapshot for all that was written, previews are honoured, members are left alone, verdicts are true |
| `sensor` | 3 drafts, 3 single settings, 2 operations, 1 fault | 83,474 | frames come out whole on a link that loses nothing; only values that were sent are stored; a verified apply, which reads and resolves afresh, shows what was previewed, but for thresholds that moved in between |
| `front` | per part: 3 viewers and 4 writes; 1 sensor, 1 page, 4 server steps, queues of 2; 2 watchers, 2 sessions, 2 frames; 6 calls, 2 clients; 2 sensors of a command | 2,050,855 | the stream follows the viewers, the PIR is current; pages show the server, without gaps; one live reference, the last frame is shown; no browser is refused; commands leave no link and say what they did |
| `registry` | 2 sites, sensors, addresses and hosts, 3 operations, 1 fault; 2 GUIs, 2 ports, 3 starts | 2,903,422 | the next start loads, records stay, the index agrees with the file; links under the lock, one token, a lasting CA |
| `calibration_interrupted` | 1 job, 1 outside cancel | | finding 1 |
| `gui_pending` | as `front`, 3 server steps | | finding 2 |

Each property of a passing run has a mutant of the code that breaks it.

Why the bounds are enough to be interesting:

* *Session*: the code tells "a newer one than mine" from "mine", never more, so two
  attempts and two keep-alives show every overtaking; three links let a stale, a
  current and a late one exist together. Identities are reused once free, so behaviours
  are of any length. The liveness run has one link and no symmetry, since symmetry is
  unsound for liveness; a link name can be used again once the link is down.
* *Driver*: with two ids for two requests an id is given out again while its last owner
  still waits, and while an old answer is in the air: the waiter is overwritten, the old
  answer reaches the wrong call, and `OwnAnswer` tells that case from all others. Answers
  that overtake each other take `MaxAir = 2`, which MCDriverMore checks by hand, under
  symmetry and so without `RequestsEnd`; the proofs hold for every `MaxAir`. Two chunks
  suffice to cut a frame; `MaxGen` and `MaxLinks` bound the generations and the links, the
  two counters that grow. Behind a stalled write a request of the next link queues
  (`MaxGen = 3`).
* *Calibration*: two jobs contend for the lock and follow each other; a third adds no
  new pair. `MaxCancels = 1` lets one outside cancel meet one `cancel()`.
* *Fleet*: two sensors that swap two addresses, a session to be replaced and one to
  replace it, tasks of both loops. Callers run one after another without end, not two
  at once; two callers on one sensor were also checked while building.
* *Batch*: three rounds are a failed attempt, a retry that did not happen and one that
  did; `CHECK_DEADLOCK FALSE` because the rounds are used up in the end.
* *Service*: one job on both sensors, one on one, a rollback and a clone, one after
  another, with a batch, a lost link, a release or a further job in between (`MaxEvents`;
  a job counts for two). Thresholds go up to `MaxT = 2` instead of 65,535, so a relative
  change can leave the range at both ends.
* *Sensor*: the drafts are chosen to be hard: thresholds that are the bytes of a frame's
  head and tail, relative changes at the limits, zones out of order and twice, a mode that
  must not be written; thresholds of a first apply may show between the preview and the
  apply of a second. `ChunkSize` is the code's 20. `MaxFaults = 1`: one lost chunk, one
  refused write or one lost link, at every place; `MaxTicks` and `MaxPolls` bound the
  sensor's clock and the re-reads of a verify.
* *Live, Hub, LiveFeed, Peer, Console* (`front`): three viewers and four writes under way let
  the count cross zero while a write waits. Queues of two overflow after a message more
  than a page takes; `MaxSteps = 4` is a route with its await, an event in between and
  one after; `MaxCuts = 1` is a page that comes back. Two watchers come and go across a
  change of session with a frame on either side. `MaxRequests = 6` is a connect with its
  services and subscription, a loss (`MaxDrops`) and a second client's calls. A command has
  two sensors, one more than it needs to treat one wrong. `CHECK_DEADLOCK FALSE` because
  commands end and bounds are used up.
* *Registry, Launcher* (`registry`): three operations with a fault (`MaxFaults = 1`: a failing
  write, a crash or a power cut) at any step, so a mutation, its failure and what comes
  after; `MaxTime = 2` gives snapshots that share an instant and a clock set back. Three
  starts of two GUIs are two at once and a third later, or a killed one, its successor
  and one next to it; once two starts have overlapped there are two in all (`MaxMixed`).
  `CHECK_DEADLOCK FALSE` because operations and starts are used up.

### Configurations to run by hand

`tlc -config X.cfg M` with one of these is not among the runs: it repeats a module with
further properties, or shows one of the findings 3 to 10.

| Configuration | Module | Shows |
|---|---|---|
| MCSessionMore | MCSession | passes: `OneOwner`, `AttemptsEnd` (every attempt ends) |
| MCDriverMore | MCDriver | passes: `FrameOnWire`, `OwnLinkOnly`, `OwnAnswer` with 2 answers in the air (1,087,584 states) |
| MCSessionTwoPings | MCSession | finding 3 |
| MCLiveSlowRelease | MCLive | finding 4 |
| MCLiveOldLink | MCLive | finding 5 |
| MCFleetSpares | MCFleet | finding 6 |
| MCSensorSwallowed | MCSensor | finding 7 |
| MCServiceLateChange | MCService | finding 8 |
| MCFrontLateResult | MCFront | finding 9 |
| MCRegistryTorn | MCRegistry | finding 10 |

More properties hold on the instances of the runs and are left out there; to check one,
put its name in the INVARIANTS line of the configuration: `LockExact` and `LostStops`
(MCCalibration.cfg, with `Spec` for `FairSpec`), `RemembersWhatItHas`, `ClosedForGood` and,
as a PROPERTY, `SessionsKeepTheirState` (MCFleet.cfg), `OldOrNew` and `SnapshotsKept`
(MCRegistry.cfg), `ChunkingIrrelevant` (MCSensor.cfg), `SourceApart`, `ConnectedIsLinked` and
`CalibrationUntouched` (MCFront.cfg).

### Fairness

* *Session*: every await ends. The lock is an asyncio lock, served in order, so a waiter
  that could take it again and again does (strong fairness); `reconnect()` has a
  deadline and gives up (strong fairness, as other tasks may make its guard come and
  go). A link that was asked to disconnect goes down and its callback runs: the backend
  promises both, and `close()` does not rely on it beyond its 5 s time-out.
* *Driver*: writes end or stall out at their deadline, waits end at theirs (weak), the
  send lock is served in order (strong).
* *Calibration*: both tasks of a job run; a waiter ends at its time-out at the latest,
  which `start_auto_calibration()` always has. Nothing is assumed of the sensor.
* *Batch*: the clock reaches the fire time; a job ends, which `Calibration` shows
  (`JobsEnd`); `_run()` and `cancel()` go on when what they await is done.

No run assumes that a sensor answers, that a link stays, or that a user acts. The other
modules state safety only.

## 4. What is proved

Eight modules hold proofs, checked by TLAPS for every value of the constants. Each proves
an inductive invariant `IInv` - it holds initially, every action keeps it - and reads the
theorems off it. Nothing bounds the number of tasks, requests, viewers, sensors, jobs,
rounds, pages, processes or saves.

**SessionProofs** (assuming only `DistinctTasks`: the names of the tasks differ).

* `TypeCorrect`, `OneOwnerAlways`, `ConnectedHasLinkAlways`, `NoOrphanLinkAlways`,
  `KeptAliveAlways`: one owner of a connect, CONNECTED means a link, no orphan link, a
  running keep-alive.
* `Refinement`: `Session` implements `LinkState`, every step being a step of the
  abstract link or a stutter.
* `IInv` is `TypeOK`, `OwnerInv`, `LinkInv` and `KeptAliveWhileConnected`. Ownership
  rests on the connect lock (`LockHeld`: an attempt past the lock holds it); the link
  part needs to know that the driver has no client while an attempt works under the
  lock (`NoClientUnderLock`), that a link told to disconnect is no session's link
  (`AskedUnused`), that an attempt has a link of its own only while it opens it
  (`OnlyOpenHasLink`), and that a link whose callback is still to come is down
  (`GoneIsDown`). Without these, "no link up that nobody owns" is true and not inductive.

**DriverProofs** (assuming `SizesAssumption`, `BoundsAssumption`, `NoneAssumption`: the
sizes are positive numbers, the bounds numbers, and `None` is no request).

* `TypeCorrect`, `FrameOnWireAlways`, `OwnLinkAlways`, `OwnAnswerAlways`, `WaitersAlways`.
* `IInv` is `TypeOK`, `CallInv`, `AnswerInv` and `FrameOnWire`. `CallInv` says who holds the
  send lock (`LockInv`), that nobody waits for a link that was let go
  (`NoWaiterLeftBehind`), which link and generation a request belongs to (`GenInv`, `EraInv`)
  and that its frame is not out (`WriterInv`). `AnswerInv` is about ids: `_pending` has exactly
  the waiting requests that were not overwritten (`PendingExact`), and an id and an age below
  `NIds` determine the next id (`AgeInv`). So the request registered under the id of an
  answer has the answer's age, which makes it the answer's own, unless `NIds` requests were made
  since: `Issue` overwrites whoever waits with the next id, and nothing in `_dispatch()` could
  tell. With 255 ids that is an answer 255 requests late; the theorem gives no more than that.

**FrontProofs** (assuming `LiveAssumption`, `FeedAssumption`: bounds are numbers;
`HubAssumption`: the sensors are a finite set of numbers, `MaxQueue` a number).

* Of `Live`: `TypeCorrect`, `StreamAlways`, `CalibrationAlways`, `PirAlways`. `IInv` is `TypeOK`
  and `BackInv` (a connect never falls back to a link). On it rest `StreamInv` (the queue of
  writes, read from its end, says what tag54 will be, unless `missed` records why not) and
  `PirInv` (a connect resets the value before there is a link to show it on).
* Of `Hub`: `NoGapAlways`, `PageShowsServerAlways`.
  * Each queue of an open connection goes on from the number its page has seen, message by
    message, up to the server's (`GoesOn`); a queue that would overflow takes its connection
    with it, so there is no state in which one message is missing.
  * `ViewInv`: the view that a page ends with once it has read all that is queued for it (`Leads`)
    shows the server's state, except for what is marked, for the gather that a route has still
    to publish, and for imports dropped unmarked (`Shows`). A step that publishes nothing must
    mark what it changes (`Follows`, one lemma per group of actions); a flush turns the marks into
    messages that lead from a view that shows all but the marked to one that shows all
    (`MessagesLead`, message by message and by the order in which `Messages` puts them, so that a
    marked batch stands in for its jobs).
* Of `LiveFeed`: `OneReferenceAlways` (a session is held once as long as somebody watches its
  sensor, and not at all otherwise, except while the call that will settle it is due) and
  `LastFrameShownAlways`.
* Of `Peer`: `AnswersAreExpectedAlways`. A request is in one place at a time - on its way to the
  browser, in the browser, or on its way back as an answer - and wherever it is, its id is
  waited for or retired.
* Of `Console`: `LeavesNoLinkAlways`, `SummaryTellsAlways`.

**JobProofs** (assuming `CalibrationAssumption`: `None` is no job, the bound a number;
`RoundsAssumption`: the bound is a number).

* Of `Calibration`: `TypeCorrect`, `LockExactAlways`, `OwnResultAlways`, `CancelStopsAlways`,
  `LostStopsAlways`; and `Refinement`: the jobs implement `JobState`.
  `IInv` is `TypeOK`, `LockExact`, that a sensor learns only over its link, and for each
  job `StateOK`, `AirOK` and `StopOK`; beside it, `Sends`: a start that is being written has
  its link, and no other job waits for the sensor meanwhile. A frame once begun is finished
  even when its job was interrupted and is over; the next job's read queues behind it for the
  send lock. So one start at a time may reach the sensor. Messages keep their order, so behind a job's ACK in the air,
  and everywhere once it has been taken, there are only results sent after its start
  (`AirOK`); without that, "success is its own" is true and not inductive. A job that is
  over as CANCELLED or LOST saw the link of its start end, and that ends the learning
  (`StopOK`). For the refinement a job at work is inside the lock, so nobody else begins.
* Of `Batch`: `BatchTypeCorrect`, `ShownStandsAlways`, `ElapsedAlways`, `EarlyCancelAlways` and
  the action property `SuccessStaysAlways`. The invariant is `BatchIInv`.
  A round may stop counting for a sensor only while its job has not started
  (`FreshInv`), and as long as that can happen `previous` holds the last of the *other*
  rounds that count and how many they are (`PreviousInv`). So taking a retry back yields
  again the last round that counts (`LastInv`), which is what `ShownStands` says with
  `Max` and `Cardinality`. `SuccessStays` needs `LastInv` to know that the sensor
  belongs to the round that shows its success, and `CoreInv` to know that no job exists
  before the fire.

**FleetProofs** (assuming `FleetAssumption`: `None` is no id, address, session or task).

* `TypeCorrect`, `SameSensorAlways`, `StopIsFinalAlways`, `StaysReleasedAlways`,
  `NoStrayLinkAlways`: for any number of sensors, addresses, connect tasks and callers at
  a time, where the run has two sensors and one caller.
* `IInv` adds to the properties that a task which nobody cancelled is in `conn` under its
  key (`TaskInv`), so that a call which ends tasks reaches every one it means; that a new
  session is its task's alone (`FreshInv`); that a gather task which goes on after the loop
  has ended is awaited by a stop that will cancel it (`StopInv`); that no task connects what
  a release works on, and that it is marked as long as it is registered, also when two
  releases share it (`RelInv`); and that a task whose session has been replaced finds no id
  there to match (`LeftInv`), without which its link could stay up unregistered and read.
* `RemembersAlways`, `ClosedAlways`: `IInv` and three parts more. A new session that connects
  has the address it was found at (`AddrInv`), so storing it remembers it; a session that is
  in a release is forgotten and no other is (`MemInv`); an `aclose()` that has begun, and
  only that, ends recovery. What it leaves at each of its parts is `EndInv`: no task of
  recovery; then no gather loop and no task that goes on; then only what it has to release.
  A connect that is identified in between registers its session only while the first part
  waits, because after it every task has been cancelled.
* `KeepsToLinkState`: each session's link makes only steps of `LinkState`
  (`SessionsKeepTheirState`). A new session is a new object when its task begins
  (`StartInv`): nothing but that task connects it, so it starts from DISCONNECTED.
* A step that neither makes a task nor registers a session is handled once (`Quiet`, from
  `GoOn`, `OpsGoOn`, `ObjGoOn`); its lemmas say only what it does to links and tasks.

**ServiceProofs** (assuming `ServiceAssumption`: `MaxT` is positive, `None` is none of what it
stands beside, a request names sensors and a kind).

* `TypeCorrect`, `RestorableAlways`, `PreviewHonouredAlways`, `MembersLeftAloneAlways`,
  `VerdictTrueAlways`.
* `JobInv`: there is one apply, it works on one sensor at a time, and it locks and takes its
  snapshot before it writes. `LockInv`: who reads a configuration has locked the sensor.
* `PageInv` is the heart of `PreviewHonoured`: what a page was shown of a sensor (and, for a
  clone, of its source) holds as long as `config_rev` is what it was, except while an
  apply writes, which will move it. Every step is shown to be `Steady` for every sensor: it
  moves `config_rev`, or an apply is writing, or what was shown still holds. `PromiseInv`
  carries that over to the job: what its page was shown holds until the job comes to the
  sensor.
* `Restorable` needs `HeldInv` (a snapshot is at hand for all that an apply wrote) and
  `AppliedInv`; `VerdictTrue` needs `ResultInv` (what a result says of a sensor that nobody has
  touched since).

**DirectoryProofs** (assuming `LauncherAssumption`: ports and bounds are numbers;
`RegistryAssumption`: bounds are numbers, `None` and `Torn` are two values that are no
registry, number, device or sensor).

* Of `Launcher`: `TypeCorrect`, `LinksUnderLockAlways`, `OneTokenAlways`, `ClientsKeepTrustAlways`.
  `IInv` is `LauncherTypeOK`, `HolderInv` (a held lock has one holder, who took it before its
  servers started and gives it up after its fleet has closed; links exist only in
  between), `NumberInv` (a GUI keeps the number of its start while it runs, so its token
  candidate is its own) and `OneToken` itself. For the CA, `TrustInv`: while starts do not
  overlap, what a start has still to move into place tells what the directory holds
  already, so the CA there is the trusted one or nobody has been told yet.
* Of `Registry`: `RegistryTyped`, `RegistryLoadsAlways`, `OldOrNewAlways`, `HistoryKeptAlways`,
  `IndexIsReadAlways` and the action property `SnapshotsKeptAlways`.
  * `RegInv`: whatever a power cut may leave of `registry.json` is sound. It speaks of pending
    imports as well as of sensors: an import becomes a sensor of its site, so without it
    "every sensor is of a site that is there" is true and not inductive. It also says that
    while a change is saved the file holds what a failure takes the memory back to, and that
    what is renamed into place has been flushed.
  * `HistInv`: the records are numbered in the order of their lines, and those that were
    acknowledged are whole and on lines of their own, in the file and in what a power cut
    may leave of it.
  * `SnapInv`: the name about to be written is free, on disk and in what a power cut may
    leave (`PlaceInv`), ids are fresh (`FreshInv`), and as long as the clock is not set back the
    names used from now on leave no gap, so that a free one is above those in use
    (`OrderInv`). That the newest can be named and the listing is complete takes the maximum of
    a bounded set (`LastOne`, by well-foundedness of the numbers) and a count (`Ranked`).

**SensorProofs** (assuming `SizeAssumption`: a chunk has a byte, a learning a tick;
`BoundsAssumption`: bounds are numbers; `TagsAssumption`, `SettingsAssumption`: no attribute
a sensor starts with is longer than the 71 bytes of live output, its detect mode is one byte,
and no setting is longer than the 28 bytes of the thresholds; `LearnedAssumption`,
`DraftsAssumption`: seven pairs are learned, a draft is a profile).

* `CleanLinkDeliversAlways`: for every chunk size and whatever bytes the values have, a frame
  comes out of the reassembler with its last chunk, as long as no chunk is lost. The run has
  one chunk size and a handful of values made to look like a frame.
  * `Flows` is the invariant. While nothing is lost (`LinkOk`) each direction is `Clean`: the
    chunks in the air are whole frames in order, except that of the first the buffer holds
    already what has arrived, a first part of it and nothing else. What the sensor is sent are
    commands (`UpOk`), so that it answers with frames that are not too long for a
    reassembler either; for that its attributes and what is due keep to their length (`TagsOk`,
    `DueOk`) and a section left to write is one that validates (`AppOk`).
  * `ExtractPrefix`: the reassembler keeps a first part of a frame as it is and takes the whole
    frame out. It takes as many turns as there are heads in the buffer, and the bytes of a
    value may be a head; that does not matter, as the head it looks at is the first.
  * `ParseBack`: what is serialized from attributes that fit parses to the same attributes and
    message id, its CRC right.
  * `SerializeSound`, `ReplyOk`: how long answers and commands get, from the sizes of the values
    (`WriteSize`) and the number of attributes in a request.
* `VerifiedIsAfterAlways`, for every draft, whatever is lost, refused or cut off, but for thresholds
  that were others at the apply's read than at the preview's (finding 8): from `ShownAlways`, that
  the operation under way keeps to what it has shown. The rows and "after" come from one read
  (`PreviewShows`, `Promises`), what is written from another; section by section the two targets
  are the same unless thresholds moved (`ResolveSame`, `AppliedShown`, `Applies`), and sections
  which compare equal are shown alike, zones in any order (`ComparedShown`).
* `StoredWithoutLoss`: `StoredWasSent` as long as no chunk has been lost, with refused writes,
  lost links and learning at any time. `Stored` says it of the values (`TagsKept`) and of what
  will become one: thresholds that show late (`DueKept`), the mode a learning goes back to
  (`LearnKept`), and the commands on their way (`UpOwn`), which by `ParseBack` the sensor reads
  as the attributes the program announced (`OwnFacts`). `ObeysSafe` is one attribute of a
  command, `ObeyedSafe` all of them in turn.
* What an induction over the bytes or the attributes of a frame shows is stated as a set of
  numbers with a least one missing (`NatInduct`); `Frame` and `Profile` are written with
  recursive functions and folds for this purpose.

TLC checked each `IInv` on the small instance before it was proved; of `Flows` and `Stored`,
whose quantifiers range over every command, it checked what they imply.

## 5. What is only model-checked, and what is not modelled

Only checked by TLC:

* liveness (`AttemptsEnd`, `ReleaseSettles`, `RequestsEnd`, `JobsEnd`, `RoundsAndCancelsEnd`):
  it needs ENABLED, which the installed provers do not handle;
* `StoredWasSent` once a chunk was lost (until then: `StoredWithoutLoss`): two frames may be
  joined, and what protects the sensor from the result is a CRC of 16 bits. That no two
  frames of the instance share one by accident is so for its values and not for every value;
* that the value decoders of `Profile` undo its encoders, and that `Crc` is the CRC it says it
  is: the theorems need that both ends compute the same, not what; `ChunkingIrrelevant`, that
  the buffer does not care for cuts after a loss either.

Not modelled: discovery (a predicate on advertisements around the BLE library's
scanner; `Fleet` models what a scan returns), the data classes of the HTTP bodies
(gui/schemas.py; what they say is modelled where it is made), the views and forms of the
front end, the measurement tools and scripts, text and formatting, and within the
modelled parts what PROJECT.json lists as left out of each component. No fairness is
stated for the gather and recovery loops: they run until somebody stops them, and an
instance on which gathers, releases and recoveries compete is more than TLC can check
for liveness.

Simplifications worth knowing:

* `Fleet` lets every save of `connections.json` succeed. `NoStrayLink` leaves out a session
  whose identification read failed: a `_regather()` that fails to read leaves its link
  up (fleet.py:183-186 says why), and one whose session was replaced before the task
  began (fleet.py:153) is then up without being registered.
* `OwnAnswer` leaves out an answer that `NIds` requests followed: its id has been given out
  again (see the observations). Two such answers of one request slot under one id count as one.
* `HistoryKept` says that a record has a line of its own; that the file can be decoded at all
  (`Readable`) is left out (finding 10).
* `StreamMatches` counts a failed tag54 write as a miss that the next change of the count or
  the next connect makes good; a connect under a calibration too (finding 4).
* `PirIsCurrent` leaves out a push of the link being given up (finding 5), `PreviewHonoured` a
  preview that was read while a write was still on its way into the sensor, `VerifiedIsAfter`
  thresholds that were others at the apply's read than at the preview's (both finding 8),
  `PageShowsServer` the pending imports once some were dropped unmarked (finding 2),
  `ClientsKeepTrust` starts that overlap, `LeavesNoLink` a Ctrl-C during the last clean-up.
* `Peer` never uses up the 256 places of its retired ids: a browser that leaves a request
  unanswered for 10 s closes the bridge.

Observations no document speaks about, hence not findings:

* `_request()` takes the next id whoever still waits with it (driver.py:472-480). A call that
  waits while 255 others are made is no longer registered: a detach does not fail it, its own
  answer goes to its successor, and it ends with its time-out. Likewise an answer that 255
  requests followed resolves the call that has its id now, in `Driver` the `fut` "late". The
  time-outs of the program make this remote, not impossible.
* `release(None)` takes its list of sessions before it cancels connects, so a sensor
  identified in between stays connected (fleet.py:517-531).
* A keep-alive write that the backend refuses on a link that is up ends a calibration as
  LOST although the sensor goes on learning (driver.py:837, excluded by name in `LostStops`).
* After an append to the history that failed, or was cut short by a power cut, the next
  record is joined to the torn line and skipped with it (storage.py:118).
* A clock that is set back breaks the order of the snapshots, and with it which one is
  the newest (storage.py:171).
* Two GUIs started at one time on different ports can mix the four certificate files, or
  replace the CA that clients were told to trust (tls.py:150-155). On one port the
  listener, which is opened first, keeps the second out.

## 6. Findings

The first two are runs, with their lines quoted in PROJECT.json; the others are shown by
the configurations of section 3.

1. **A sensor that learns on** (`AnyCancelStops`, calibration.py:316). A `run()` cancelled
   from outside while it handles a `cancel()` skips the close that stops the learning, and
   reports it as done.
2. **Imports that stay on the screen** (`PendingShown`, gui/ws.py:238). One address is imported
   into two sites; the first gather of the sensor resolves one import, the next drops the
   other without marking "pending", and pages go on showing it.
3. **Two keep-alives** (`OneKeepAlive`, session.py:348). A ping that stalls while its old
   client is slow to disconnect takes its own link loss for a missed answer if the
   session was reconnected meanwhile, and pings on next to the new one.
4. **A stream that does not come back** (`StreamFollows`, session.py:208). A connect that
   succeeds while a cancelled calibration still waits for its close writes no tag54, and
   neither does the resync, which finds the count unchanged.
5. **A stray PIR value** (`PirNotStray`, session.py:441). A push of the link being given up
   passes for the new link's first value.
6. **A cancelled recovery** (`StopSparesRecovery`, fleet.py:273). `stop_gather(finish_pending=True)`
   cancels by address, after waiting; a recovery task that took the address meanwhile is
   cancelled too.
7. **A swallowed frame** (`NothingSwallowed`, protocol.py:529-530). When a lost chunk runs two
   frames together and the length in the first one's head reaches to the second one's
   tail, both are taken out as one frame, which its CRC rejects; the second had arrived
   whole. The comment there says that what follows is not swallowed.
8. **A late change** (`PreviewAlwaysHonoured`). Thresholds that a sensor acknowledged in an
   apply that ended unconfirmed, or learnt after its calibration timed out, take effect
   after `config_rev` has moved; a preview read in between is applied as if nothing had
   changed.
9. **A late result** (`LateResultIsHarmless`, gui/browser_ble.py:201). `wait_for` cancels the
   future at the time-out, the clean-up that retires the id runs one turn later; a result
   in that turn makes `set_result` raise, which ends `serve()` and with it the bridge.
   tests/test_gui_browser_ble.py:329 expects that a late result does not.
10. **A history that cannot be read** (`TornIsSkipped`, storage.py:136). An unparseable line,
   "e.g. a truncated last line", is said to be skipped (storage.py:131). One truncated inside
   a character is not: the file as a whole fails to decode, now and after every further
   append, and no sensor has a last calibration. The advertised name is the only text of a
   record that can hold a character of several bytes.

## 7. Plan

What is left, in this order:

1. `Fleet` with saves of `connections.json` that fail, and two callers at a time.
2. Liveness of `Peer` (every call ends) and of `Hub` (a page is brought up to date), and of a
   fleet of one sensor (a remembered sensor that advertises comes back).
