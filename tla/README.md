# KegPulse in TLA+

KegPulse counts the pulses of a flow meter on a keg tap. An Arduino counts them
(`firmware/`), a Python process (`src/kegpulse/`) reads them over a serial line,
charges them to people and kegs in SQLite, and shows them on a kiosk page. The
part that is hard to get right is the path of a pulse: from the interrupt,
through a session that may time out, be cancelled or lose its reply, over a link
that may drop, into a database written by a process that may stop at any line.
A pulse must not be lost, and must not be charged twice or to the wrong session.
These modules model that path, what the pulses are turned into (volumes, charges,
samples), the files and the database they are kept in, and the page that shows
them. TLC checks it on small instances, and TLAPS proves the safety of nearly all of
it for all sizes: what is not proved is named in section 4.

## 1. Inventory

### Components, their state and their operations

| Component | State | Operations | Correct when |
|---|---|---|---|
| Session machine (`firmware/src/session_machine.cpp`) | state, open event, 4 retained results, next sequence, lifetime and recovery counters | `add_pulses`, `add_pulse_batch`, `tick`, `mark_counter_saturated`, `arm`, `cancel`, `acknowledge`, `snapshot` | every pulse is in one place; an open event always has a slot to end in; sequences never come twice; deadlines are right across roll-over |
| Main loop and interrupt (`firmware/src/main.cpp`) | pending batch (count, first, last, saturated), last sequence emitted | `pulse_isr`, `drain_pulses`, `tick_linearized`, the request handlers, `emit_new_results` | edges land on the right side of a deadline or a command; every result is sent |
| Boot identity (`main.cpp`, `initialize_boot_identity`) | two EEPROM records | boot | no identity is announced twice, wherever power fails |
| KP1 frames (`protocol.cpp`, `protocol/frames.py`) | accumulator | feed a byte | a bad frame is dropped up to its LF, never merged with the next |
| Device manager (`serialio/manager.py`) | connection state, identity, cached STATUS and COUNTERS, command queue, event queue (256), overflow generation | connect, poll, deliver a command, record, resynchronise | nothing of an old boot is accepted as of the new one; an overflow is made good |
| Coordinator (`application/coordinator.py`) | asyncio lock, retry queue (128), revision | `arm_for_purpose`, `cancel`, `_process_event`, `_reconcile_after_connect`, retries, broadcast | a binding exists before ARM is sent; commit before ACK; a closed session stays closed |
| Repository (`persistence/repository.py`) | sessions, results, pours, checkpoints, accounts, kegs, calibrations, captures | one transaction per method | a result is one pour; one active session; one open keg |
| Reconciliation (`domain/reconciliation.py`) | none | `reconcile_provisional` | resumes, recovers or closes, never guesses across a reset |
| Counters and plausibility (`domain/counters.py`, `domain/pulse_integrity.py`) | none | parse and reject | a rejected measurement is quarantined and does not block others |
| Simulator (`domain/device_machine.py`, `serialio/simulator.py`) | a controller, two frame queues, fault switches | the same as the controller; inject, advance, disconnect, reset, delay | promises what the controller promises |
| Accounts, kegs, calibration (`repository.py`, `domain/inventory.py`, `domain/calibration.py`) | people, balances, kegs, adjustments, drafts, samples | assign, reassign, charge, replace, correct, sample, activate, consume | a charge follows its pour; volumes follow the calibration and keg of their session; a factor follows its samples |
| Camera, photos, videos (`app.py`) | pending request, temporary files, clips, photos, rows | request, answer, upload, sweep, prune | one answer per request; a stored clip is kept or superseded; a row has its file |
| Administration (`security.py`) | sessions, PIN attempts | login, touch, prune | at most the limit of sessions and attempts |
| Data directory (`instance_lock.py`, `database.py`, `__main__.py`) | lock, database file with its write-ahead log, rollback and candidate files, backups | serve, stop, crash, restore, set PIN | committed data is in some file; a failed restore leaves what it found |
| Broadcast (`coordinator.py`, `app.py`, `app.js`) | revision, a queue of two per socket, the page's snapshot | subscribe, publish, heartbeat, poll | a page ends up with the newest snapshot |

### How they interact

The interrupt and the loop of the controller share the pending batch. The
manager's thread owns the serial line: it sends one request at a time and reads
until its response, while RESULT frames may arrive in between. It talks to the
coordinator through two queues: commands (with a completion event the caller
waits on, for a while) and events (drained every 50 ms). The coordinator runs
`arm`, `cancel` and the event loop under one asyncio lock, which it holds while
it awaits a command. Each repository call is one SQLite transaction.

### What is hard

- an edge, a deadline and a command in any order, with 32-bit time;
- a reply lost after the controller acted; a caller that gave up while its
  command is still queued;
- the status the coordinator reads is the last one polled, not the present one;
- events wait in a queue while the session they are about ends, or the
  controller restarts;
- a stop of the host between commit and ACK, between binding and ARM;
- a restart of the controller that reuses sequences under a new boot identity;
- a keg, a price or a calibration that changes between a session and its result;
- worker threads that store clips and sweep each other's temporary files;
- a database replaced in several file operations, with a log that stays at the path;
- a page that outlives the server process and its revisions.

`PROJECT.json` lists each hazard at its line.

## 2. Modules

| Module | Models | Used by |
|---|---|---|
| `SessionMachine` | the session machine: one operator per method, from the machine before the call to the machine after it | `Firmware`, `PourSystem`, `SessionMachine_proofs` |
| `Firmware` | the interrupt and the main loop around one machine, between two resets | `MCFirmware`, `Firmware_proofs` |
| `EventStore` | abstract: what a controller promises the host | refined by `Firmware` and `SimulatedDevice` |
| `SimulatedDevice` | the Python controller and its transport, with every scenario call | `SimulatedDevice_proofs` |
| `BootIdentity` | the EEPROM records over any number of boots and power failures | `Firmware_proofs` |
| `PourStore` | the database tables of a pour and the transactions on them, one operator per method, and `reconcile_provisional` | `PourSystem` |
| `PourSystem` | controller + manager + coordinator + database, from ARM to the acknowledged pour | `MCPour`, `PourSystem_proofs` |
| `MeasurementQueue` | a measurement between the serial thread and the database: the bounded event queue, the retry queue, the recovery checkpoint | `MeasurementQueue_proofs` |
| `KegLedger` | people, balances, kegs, stock, calibrations, sessions and pours: one action per transaction | `MCLedger`, `KegLedger_proofs` |
| `MediaStore` | clips, photos, avatars and the camera request: handlers, worker threads, files, rows | `MCMedia`, `MediaStore_proofs` |
| `DataDirectory` | the database file, its log, the lock; server, restore and `--set-pin` | `Service` |
| `StatusStream` | publish, the subscriber's queue, the status socket, the poll, the page | `Service` |
| `Service` | both over the life of an installation | `Service_proofs` |
| `MCFirmware`, `MCPour`, `MCLedger`, `MCMedia` | symmetry sets for TLC | |
| `SessionMachine_proofs` | per method of the session machine, one lemma on what it preserves and one on what becomes of the events | `Firmware_proofs`, `PourSystem_proofs` |
| `Firmware_proofs`, `SimulatedDevice_proofs`, `PourSystem_proofs`, `MeasurementQueue_proofs`, `KegLedger_proofs`, `MediaStore_proofs`, `Service_proofs` | theorems about the module each is named after; `Firmware_proofs` also about `BootIdentity`, the rest of `main.cpp` | |

A definition that no action uses is a mutant: the definition it is named after with
one plausible mistake, which `PROJECT.json` pairs with the property that finds it.

The same `SessionMachine` runs in `Firmware` (with time and the interrupt, and
arbitrary requests) and in `PourSystem` (without time, and with the requests the
host really makes). That keeps both small: `Firmware` answers what the
controller promises, `PourSystem` what the host makes of it.

### SessionMachine and Firmware

`m` is the machine: `state` is `state_`, `active` is `active_`, `results` the
retained array, `next` is `next_sequence_`. `active.timer` is whichever stamp the
state reads: the arm deadline, the last pulse, or the settle deadline. Counter
widths and the modulus of `millis()` are constants, so TLC reaches saturation and
roll-over within a few steps. `pending` is the interrupt's batch; `PulseIsr`
saturates the count as the code does and still moves the last stamp.

The step of the loop that takes the batch and reads the clock is one action
(`TickLinearized`, and each command handler): the code does that with interrupts
off, and edges that come while it applies the batch stay pending. `clock` stops
at `MaxStall` ticks without a main-loop tick: the loop of the board runs far more
often than half the modulus of its clock, which 32-bit comparison needs and
`StallAssumption` says.

`quiet` and `released` are history variables of the properties: the time since the open
event's last edge or ARM, and the pulses in acknowledged results. `quiet` stops at the
modulus, which no deadline reaches. No action reads them, except that
`PulsesConserved` needs `released` to be the sum.

Left out: fault tokens, texts, the start and end stamps of a result, the noise
gate before an edge counts, the byte reader of requests.

### EventStore and its two implementations

`EventStore` says what the host relies on and nothing of how: an event takes the next
sequence; the open event stays open with at least its pulses or is retained, and a slot
was kept for it; results leave only when the host releases them; pulses move only into
the event, the results or the spill counter, and only a saturated counter or an
exhausted sequence may lose some. A batch of edges may close an event, open another and
close that one too, so a step is described by what it leaves behind (`Left`), and an
abstract step may be several calls of the implementation's methods.

`Firmware` implements it under `next <- m.next`, `open <- active`, `retained <-` the set of
results without their lifetime stamps, `counted <- lifetime`, `spilled <- recovery`
(`Firmware!ImplementsEventStore`), and `SimulatedDevice` under the same mapping of its
own fields. The two programs differ (the simulator raises where the firmware closes
quietly, allocates the last sequence where the firmware refuses it, and accepts a reset
between any two frames), and the abstract specification is what they have in common.

### SimulatedDevice

`d` is `DeviceSessionMachine`, `link` the two flags of the transport, `wire` its two frame
queues and fault switches, `read` what the host has read. Time is what is left to the
stamp the state reads, so it needs no modulus: Python's integers do not roll over.
`results` is a set, since the dict is filled in the order of the sequences, which the proofs
show to be its only order. `Enqueue` puts the news, the repeated results and the reply on the
wire; a fault strikes the first of them.
A scenario call that raises has changed the machine all the same and has emitted
nothing (`Raises`, `Inject`): its results wait for RESULTS. `InjectSpaced` moves the clock
from edge to edge without a tick, which is where exact deadlines matter. Frames that
carry no result are not kept; any RESULT on the wire may be read next, which covers
duplicates and the reversed flush.

### BootIdentity

One write of a record is magic, counter, crc, in the order of the struct. Bytes
of a field that changes may be torn to any value (`TearCounter`, `TearCrc`); a
field that does not change is left alone, because `EEPROM.put` updates bytes that
differ. The crc is modelled by the counter it belongs to: CRC-16 collisions are
left out, and so are EEPROM cells that fail. The definitions of the specification are named
after `setup()` (`SetupInit`, `SetupNext`, `SetupSpec`), because `Firmware_proofs` extends the
module beside `Firmware`.

### PourStore and PourSystem

A row that holds a number of pulses is modelled by the interval of lifetime
counts it stands for. That makes "counted twice" and "lost" statements about sets
of pulses and not about sums that might agree by accident.

`boot`, `m` are the controller; `conn`, `cache`, `cmds`, `events` the manager;
`task` is the coroutine that holds the coordinator's lock, with the point at
which it waits; `db` the database. What a request does on the controller and how
its reply comes back is one action with three outcomes: answered, or done with
the reply lost, or (`LinkLost`, `Connect`) neither. A lost reply takes the
link down, since `TimeoutError` is an `OSError` in `_connected_loop`. A frame in
flight from the controller is already in `events`: the line is first-in,
first-out, and the manager appends what it reads.

Left out: participants, prices and volumes, the plausibility filter, and, because
`MeasurementQueue` has them, recovery counters (COUNTERS), storage failures and
the bound of the event queue: here a poll waits for room.

### MeasurementQueue

`dev` is what the controller retains and has counted, `keg` the open keg, `mgr`
the manager's identity and its caches, `events` its queue, `retries` the
coordinator's `_event_retries`, `batch` what one pass of `_event_loop` still has
to process, `db` the checkpoints and the rows. A recovered pour is an interval of recovery
counts, as in `PourStore`. `seen` is a history variable: the keg that was open when a
pulse or a result was first observed by a process that did not stop before the commit.

The abstractions:

- a keg stands for the pair of keg and calibration, which the code captures together;
- deadlines are left out: any set of entries may be due, except that an entry of a
  stream of counters is not due before the one in front of it, because
  `_schedule_counter_retry` takes the larger deadline;
- the number of attempts is kept as fresh or tried, the only difference a guard reads
  for a measurement; an event of another kind may be abandoned at any attempt;
- HELLO, STATUS and the others are one kind, `status`: what they do to sessions is in
  `PourSystem`; here they take room and are the victims of a full retry queue;
- a transaction fails or does not (`StorageFails`), for any event at any time;
- `drain_events` takes at most 100 events of a queue of 256 and the rest waits for the
  next pass; here a pass takes all that is queued.

Two guards stand for the code's timing. `RecoveryPulse` waits for a connected manager to have
noticed a reset: four pours fill the store, and STATUS is polled every 0.25 s.
`TimePasses` waits for a connected manager to have seen the last tick: one unit stands
for 2^32 ms over `UptimeModulus`, and STATUS is polled four times a second.

### KegLedger

One action per method of `Repository`, each a transaction, in any order the API allows.
`balance` is the column, `ledger` the sum of the `account_ledger` rows per person and pour,
so the two can disagree in the model as they could in the database. A pour has its
session, person, keg, calibration and volume, and its charge as `payer` and `cents`. The
volumes are chosen so that pulses and millilitres divide exactly; outlier flags are
computed by the code's rule on ratios scaled to integers. `FinalizePour`,
`FinalizeTimeout`, `FinalizeCapture` and `RecoverPour` are the outcomes of
`finalize_device_result` and `recover_same_boot_delta` for a session that is active or has
ended; which of them a fault leads to is `PourSystem`'s subject, so here any may come.
`Init` allows an installation in any stage of its set-up, which saves the steps to get there.

Left out: names, notes, reasons and timestamps, archived rows, and rounding of volumes.

### MediaStore

`loop` is the handler that runs on the event loop, with the step it is at; `uploads` are the
clip uploads, which are in worker threads and so interleave with everything. Each file
operation is an action: write the temporary file, rename it, delete every temporary
file and list, delete what the listing makes stale. `mtime` is the place of an upload among
all the temporary files written (`writes`), and `captured` that of a photo's row among the
requests: retention sorts clips by the one and photos by the other.
`Crash` stops the process after any of them. The camera request is checked
when an upload begins, and again when its clip is stored (`Resolve`).

### DataDirectory, StatusStream and Service

A database is the commits it holds and the file it comes from (`installed`, `source`,
`fresh`), whole or torn. `log` is the write-ahead log beside the live path, which does not
move with a rename: a database renamed under its own log loses what only the log
holds (`Moved`), and one put beside the log of another is torn when it is opened
(`Foreign`, `Opened`). `restore.step` is the next operation of `restore_database`; every
operation has an outcome that fails, the handler (`ArchiveFailed`, `PutBack`, `Leave`) is
the code's, and `CrashRestore` and `CrashServer` stop the process anywhere and release
the lock. Files of an earlier restore carry its token and are never looked at again;
`kept` is what such files, backups and archived candidates hold. `--set-pin` takes no lock
and may run at any of these points; it is one step, its transaction being the only one.

`revision` is the coordinator's, `queue` the subscriber's queue of two, `wire` what was sent,
`fetch` the status request, `page` the snapshot the page has, with the process it came
from. The socket and the request are not ordered with each other. A heartbeat takes the
snapshot of the moment it is sent. The revision is raised before the snapshot is built from the
database, which may fail: a broadcast then queues nothing (`BroadcastFails`; the event loop
diagnoses it and goes on, coordinator.py:117-126, and `publish`, `arm` and `cancel` raise after the
increment), the handler of a socket that begins or sends a heartbeat ends with its socket
(`LoseSocket`), and a status request fails (`LoseFetch`). `latest` is a history variable: the
newest snapshot that was built for the subscribed page.

`Service` runs the stream while a server holds the lock, and ends its connections with
it; the page stays. A transaction and the publish that follows it are two steps.

## 3. Runs

| Run | Instance | Shows |
|---|---|---|
| `firmware_safety` | 1 slot, 2 sessions, sequence to 3, lifetime to 3, event pulses and batch to 2, modulus 8, gap 1, settling 2, time-out 2, stall 2 | `Inv`, `PulsesConserved`, `EventsEndOnTime`, `SeparatePoursStaySeparate` |
| `firmware_liveness` | 2 slots, 1 session, one edge per batch | `EveryEventCloses`, `EveryResultIsSent`, `ImplementsEventStore` |
| `boot_identity` | 8 identities, so all are used up | `Remembered`, `BootsDiffer` |
| `pour_faults` | 2 sessions, 2 boots, 1 pulse, 2 faults | `Inv`, `MeasuredPulsesKept`, `ResultsCountedOnce`, `AttributedEventIsBound`, `ArmedSessionIsNotFailed`, `ClosedStaysClosed` |
| `pour_release` | 1 session, pours and captures, 2 boots, 1 fault | `EveryResultReleased` |
| `recovered_delta` | 2 pulses, 1 fault | finding: `PulseAllocatedOnce` |
| `cancel_stale_status` | 1 fault | finding: `FinalizingAwaitsResult` |
| `queue_retries` | 2 boots, 2 recovery pulses, 2 kegs, 1 result, queues of 1, uptime to 1 of a modulus of 4 | `Inv`, `MeasurementsKeepTheirKeg`, `RecoveredOnce`, `NoCounterQuarantined`, `NoSnapshotForgotten` |
| `simulator` | 1 slot, 1 session, sequence to 2, lifetime to 3, 2 boots, 1 delayed frame, batches of 2 | `ImplementsEventStore`, `ReleasedWasRead`, `DeadlinesAreExact` |
| `media` | 3 clip uploads, 3 photos, 4 requests, each pool keeps 1 | `Inv`, `AnsweredClipIsStored`, `RowsHaveFiles`, `RetentionKeepsNewest`, `RequestSettledOnce` |
| `keg_ledger` | 2 people, 2 of each row, 3 samples of which 2 suffice, 2 volumes, 6 transactions | `Inv`, `ChargesAreBooked`, `PoursKeepTheirContext`, `CalibrationFollowsSamples`, `CaptureConsumedOnce`, `RemainingAsCorrected` |
| `service` | 3 starts, restores or PINs, 2 failures or crashes, 1 transaction, revisions 0 to 2, queue of 2 | `Inv`, `CommittedDataSurvives`, `FailedRestoreKeepsPrior`, `PageShowsNewest`, `PageCatchesUp` |

Why the bounds are enough. *Firmware*: with one slot the store is full as soon as a result
is retained, and pulses arrive then (with two, in `firmware_liveness`, a result is retained
under an open event); each counter's limit is below the number of edges TLC can give
it, so all saturations occur, alone and together; gap, settling and time-out are all
different from 0 and their sum is close to half the modulus, so every stamp is compared
before, at and after each deadline and across roll-over. *Pours*: the findings need one
fault; two faults with two sessions cover a fault while another is being repaired.
Capacity 1 makes "store full" the normal case. Two boots are enough for an old and a new
identity with equal sequences. *Queues*: two recovery pulses give two snapshots with a
change of keg between them, the least that can be misordered or merged wrongly; one
result is enough for replays to race its retry; queues of one are full in most states.
*Simulator*: two sequences exhaust at the second event; a lifetime of 3 saturates inside a
batch; the delayed frame crosses the reset. *Media*: three uploads are the least of which
one sweeps or prunes between two operations of another, whose clip a third supersedes.
*Ledger*: two kegs, calibrations, sessions and pours give every "old against new"; from a
partly set-up installation six transactions reach a pour that is finalized after its keg
and calibration were replaced, and one that is reassigned twice. *Service*: a restore needs
one fault to fail and a second to fail while it is repaired; three acts are a server, a
restore, and a PIN between its steps or a server after it. Two revisions overflow the queue of
two, which begins with one, or fail both, and two servers give a page that is ahead of the second.

Deadlock is checked in every run but `keg_ledger` and `service`, whose transactions
and acts are counted, so that they stop at their bound; it never happens.

### Fairness

*Firmware*: the clock and the tick come again and again, since `loop()` calls the tick on
every pass; weak fairness of RESULTS, which the manager polls. Edges and commands are
not fair: nobody has to pour.

*PourSystem*: the manager's loop connects, delivers what is queued and polls
(`Connect`, `SeeReset`, `Requests`, `ReadResults(1)`); the coordinator finishes
what it began (`ArmBinds`, `CancelReplied`) and processes events
(`ProcessEvent`). Strong fairness where another action can disable the step
again and again: a request competes with reconnections, and the event loop with
users for the lock, whose waiters `asyncio.Lock` serves in order. Faults are
finitely many (`MaxFaults`) and nothing makes the controller or a user act.

*Service* (`FairSpec`, for `PageCatchesUp`): the handler of the status socket waits for a
snapshot or for 20 s and sends again and again (app.py:1243), and the page handles every frame
that arrives; both are weakly fair. Nobody has to publish, to reconnect or to start a server,
and no failure is forced or excluded: the property speaks of pages that stay subscribed.
`PageShowsNewest` needs no fairness, it is of the states in which nothing is on its way.

## 4. Proofs

Every theorem holds for all values of the constants within the named assumptions of the
modules: any capacity, counter width, modulus, number of sessions, queue size, retention,
number of faults. The bounds that keep TLC finite (`MaxFaults`, `MaxActs`, `MaxRows`...)
are such constants too, so a theorem covers any number of faults or rows.

| Theorem | States |
|---|---|
| `Firmware_proofs` | |
| `FirmwareInvariant` | `Inv`: `GoodMachine(m)` and the types |
| `TypeCorrect`, `CoherentAlways`, `RoomToFinalize`, `SequencesInOrder`, `TimeoutsAlwaysEmpty` | `TypeOK`, `Coherent`, `AlwaysRoomToFinalize`, `OrderedSequences`, `TimeoutsAreEmpty` |
| `PulsesReportedOnce` | `NoPulseReportedTwice` |
| `PulsesAlwaysConserved` | `PulsesConserved` |
| `FirmwareIsEventStore` | `ImplementsEventStore`: every step of the firmware is a step of `EventStore` or a stutter |
| `EventsAlwaysEndOnTime` | `EventsEndOnTime` |
| `PoursAlwaysSeparate` | `SeparatePoursStaySeparate`, if `MaxStall <= Settling` |
| `AnnouncedIsRemembered`, `IdentitiesIncrease` | `Remembered`, `BootsDiffer`, from `BootIdentityInvariant` |
| `SimulatedDevice_proofs` | |
| `SimulatorInvariant` | `Inv`: `Good(d)`, `Told`, `Timed`; and `Wired`, the types of the wire |
| `SimulatorIsEventStore` | `ImplementsEventStore` |
| `ReleasedAlwaysRead`, `DeadlinesAlwaysExact` | `ReleasedWasRead`, `DeadlinesAreExact` |
| `PourSystem_proofs` | |
| `PourInvariant` | `Inv` |
| `PulsesAlwaysKept`, `ResultsAlwaysCountedOnce` | `MeasuredPulsesKept`, `ResultsCountedOnce` |
| `AttributedAlwaysBound`, `ArmedNeverFailed` | `AttributedEventIsBound`, `ArmedSessionIsNotFailed` |
| `TransactionsKeepRecords`, `ClosedForever` | every step of the system is a `DbStep` of the database: rows and bindings stay, and a closed session stays closed (`ClosedStaysClosed`) |
| `MeasurementQueue_proofs` | |
| `QueueInvariant` | `Inv` |
| `RecoveredAlwaysOnce`, `MeasurementsAlwaysKeepTheirKeg` | `RecoveredOnce`, `MeasurementsKeepTheirKeg` |
| `NoSnapshotEverForgotten` | `NoSnapshotForgotten` |
| `NoCounterEverQuarantined` | `NoCounterQuarantined`, if `NeverWraps` |
| `KegLedger_proofs` | |
| `LedgerInvariant` | `Inv` |
| `ChargesAlwaysBooked`, `PoursAlwaysKeepTheirContext`, `CapturesConsumedOnce` | `ChargesAreBooked`, `PoursKeepTheirContext`, `CaptureConsumedOnce` |
| `CalibrationAlwaysFollowsSamples` | `CalibrationFollowsSamples` |
| `StockAlwaysAsCorrected` | `RemainingAsCorrected` |
| `MediaStore_proofs` | |
| `MediaInvariant` | `Inv` |
| `AnsweredClipAlwaysStored`, `RowsAlwaysHaveFiles` | `AnsweredClipIsStored`, `RowsHaveFiles` |
| `RetentionAlwaysKeepsNewest`, `RequestAlwaysSettledOnce` | `RetentionKeepsNewest`, `RequestSettledOnce` |
| `Service_proofs` | |
| `ServiceInvariant` | `Inv`: `DirectoryInv` and `StreamInv` |
| `CommittedDataAlwaysSurvives`, `PriorAlwaysKept`, `PageAlwaysShowsNewest` | `CommittedDataSurvives`, `FailedRestoreKeepsPrior`, `PageShowsNewest` |

Each `Inv` is inductive. Those of `BootIdentity` and `SimulatedDevice` are in the proof modules and TLC
found them true on small instances; the others are invariants of a run. The named parts, and why the properties need them:

*SessionMachine, Firmware.* `GoodMachine` is five promises and the type. None is
inductive alone: the room to finalize needs that a machine with an open event
refuses ARM, "no pulse twice" needs that an event's pulses are the last ones counted
(so it needs `Finalize` to clear the event, so it needs the room), and empty timeouts
need "armed if and only if no pulses". In the middle of `add_pulses` the
lifetime has been raised and no event has the new pulses yet; `Unclaimed` is what holds
then, and the lemmas on `Accumulate` and `OpenUnattributed` start from it.

`PulsesConserved` and the refinement are about what a *step* does, and a step of the firmware
is several calls: a batch is applied around the deadline it crosses, then the clock is read,
then the command is handled. `Extends(m1, m2)` says what may have happened to the events from
`m1` to `m2` by calls that release nothing: retained results stay where they are, new ones
follow, the open event is the first of what `m2` has beyond `m1` (its pulses may have grown), new events
take the next sequences, and the pulses gained are those the lifetime counter accepted, unless it
or an event is saturated. Each method has a lemma that it extends the machine, and
`ExtendsTrans` composes them; its hard case is an event that is opened and closed between two
calls. The inductive invariant `Audited` is `Inv` with the sum (`Balanced`) and with what keeps an event within a result's
range (`Solvent`); it needs that a batch fits in a result (`MaxPending <= MaxResultPulses` in
`PendingAssumption`: the code counts edges in 32 bits and accepts results up to 2^63 - 1).
For the refinement, `Extends` gives the sequences, the sessions and the sums of
`EventStore`'s `Work`, whose sets the lemmas from `AddsExists` to `StoreLeft` relate to the
sequence of results; `Arm`, `Cancel` and `Acknowledge` then follow a `Work` within one step.

The timing properties compare true time (`quiet`) with stamps that roll over. `Punctual` ties
the two: while an event is open, its stamp is `quiet` old up to whole turns of the clock
(`Same`), and `quiet` exceeds the event's deadline by at most the time since the last tick;
the edges of a batch are no older than that tick and no older than the open event.
Deadlines and stall are each less than half the modulus, so `due()` and `after()` decide as the true
ages do (`StampAge`). An event armed when the lifetime counter is full is
left out, since no edge can start it. `Ends` says what the calls of one step may have closed, as
`Extends` does for what they add, and `EndsTrans` composes them. The inductive
invariant is `Timely`: `Audited` with `Punctual`, which no run lists but TLC found true on five sets
of small parameters. `PoursAlwaysSeparate` assumes that the loop ticks once in a settling time (1500 ms):
`add_pulses` looks at the settle deadline only of an event that a tick has moved from POURING to SETTLING.

*BootIdentity.* The invariant adds where a valid record may be, and that while the
record of the next counter is being written the other one still holds the last
announced identity: power may fail between any two bytes of several boots in a row.

*SimulatedDevice.* A call of the Python machine is a few elementary changes: the open event
is closed, goes on, or is opened, or pulses are counted outside any event (`Closes`, `GoesOn`,
`Opens`, `Spills`). Each keeps `Good` (results numbered once and below `next`, a slot free for
the open event, armed exactly while it is empty) and satisfies `Extends`, the simulator's form
of the relation above: nothing is released, an open event stays with at least its pulses, and what
is gained was counted. A batch of spaced edges is any number of calls, so its facts are
proved by induction over `Spaced`; a call that raises stops the batch and is covered as it is.
`ReleasedWasRead` needs `Told`: no frame of this boot, read or on its way, is about the open
event, or a second result would be released by the ACK of a first. `DeadlinesAreExact` needs
`Timed`: what the deadline leaves open plus the silence since the last edge is at least the
deadline's length, which survives jumps of the clock over several deadlines.

*PourSystem.* What the controller holds, what is on its way and what is committed must agree
whatever is lost. `RecordsAgree` says that of sequences, sessions and intervals of pulses,
`ReplaysAreHeld` that a queued result of the present boot is retained until it is committed. `CommandsMatchTask`, `TaskHoldsSession` and `CommandsAreSafe` are what
the lock protects: a command whose caller gave up may still be delivered, and then it is
an ARM whose binding is in the database or an ACK of what is committed, so that it does no harm.
`GoodDatabase` has "one active session" and a committed row for every pour from a result. The proof first shows
what a controller step does to results, sequences and pulses, then one lemma per
transaction, then the agreement under each kind of step.

*MeasurementQueue.* Counters of one boot must be committed in the order they were made, with
retries, a bounded queue and merges in between. `QueuesInOrder` splits what is not
committed yet: the retry queue and the first part of the batch (the retries that were due) hold
old entries, the rest of the batch and the event queue hold fresh ones, each part is in
order, the old come before the fresh, and the retry queue has room for the old part. Scheduling picks
entries apart, merges, sorts and joins (`Picked`, `Sorted`, `Joined`), and the first half of
the proof is that this keeps the order and forgets no keg. `CountersWait` and
`ResultsWait` say that what was seen and is not committed is in a queue with the keg it was
seen with, `Witnessed` that an entry claims no more than was seen, `KegsSeenInOrder` that
kegs only move forward, and `FirstBootRises` compares entries, checkpoint and controller in
the boot that has no predecessor.

*KegLedger.* `ChargesAreBooked` speaks of a ledger entry per pour and of sums;
`NothingBookedAhead` gives the new pour an empty entry. `SessionsSettleOnce` gives a
settled session one pour, and, since its calibration is no draft any more, a volume whose
factor no longer changes. From `FlagsAreFresh` follows that fewer than half of the samples are
flagged: there is a value of every rank (`RankedIs`), so fewer than half of the deviations lie above the
upper middle one, and a flagged sample's does (`OutliersAreFew`). TLC sees two volumes and three
samples, where most deviations are equal; the proof covers the other branch as well.

*MediaStore.* A clip is deleted by an upload that saw enough younger clips of its pool.
`ClipsAreKept` says that every clip stored so far is on disk or has that many younger ones,
from the replace on and not only when it is answered; the step that deletes several at once
keeps it because the youngest of them has its younger clips left (`SurvivorsRemain`).
`HandlerOwnsFile` says what the handler on the event loop may rely on between two
operations: that the photo it is about to enter or to unlink belongs to no row.

*Service.* `DataIsKept` is stronger than the property at the steps where the live
path is in doubt, when everything, the database the restore found included, must be in files
no step touches; `PriorIsHeld` says in which of two files the prior database is at each step. For
the page, the newest snapshot built for it is never lost (`NewestIsNotLost`): it is in the queue,
on the wire or shown. It need not be the last there, since a heartbeat may overtake a queued
snapshot, and it need not be current, since a broadcast may have failed.

Sums over rows and picks from sets are proved with lemmas of their own: the library's
induction theorems cannot be instantiated by the provers, so `Induct` derives induction
from well-foundedness of `<` on `Nat`, for a set of numbers in place of a predicate.

Assumptions on constants are the code's: widths and sizes are positive, the timers
fit half the clock's modulus, a time-out and a stall of the loop too, a batch of edges fits a result's count
(the demo's request takes at most 1,000,000 pulses, models.py:140, where a result holds 2^63 - 1), the retention and the queues hold at
least one, a calibration needs no more samples than there may be. `NeverWraps` says that a
boot of the controller is shorter than half the range of `millis()`; without it
`NoCounterQuarantined` is false (section 5).

Only model-checked is every liveness property: fairness and ENABLED are outside the prover.
Every other property of a passing run is a theorem.

## 5. Findings

1. **A lifetime delta is charged twice** (`recovered_delta`). ARM is lost after the
   session was bound. An unattributed pour follows; its result is committed and
   acknowledged. At the next hello the session is still active, nothing is
   retained, and the lifetime is above that of the binding: `recover_same_boot_delta`
   charges the same pulses again. The test matrix says every accepted pulse is allocated once.
2. **A cancelled session waits for ever** (`cancel_stale_status`). `cancel` looks at
   the last polled status after the CANCEL was accepted. If that is older than the
   ARM, a session cancelled without pulses becomes `finalizing`, for which no result comes.
   It blocks arming until the link is re-established.

Limits of the code, seen while modelling, that the properties step around or that no run
is spent on:

- *A failed restore may destroy the prior database.* If opening the installed candidate
  raises (its migration fails, say), its connection is never closed and leaves a
  `-wal` beside the live path (`__main__.py`:205). The handler archives the candidate and puts the
  prior database back beside that log; opening it then fails ("malformed database schema"),
  and the prior database survives in the pre-restore backup only. README.md:171 says "a failed
  replacement restores the prior live database". `DataDirectory` has the step, and
  `FailedRestoreKeepsPrior` names it (`PutBackTorn`) as the one exception, in which the backup must
  have the data: without that disjunct TLC finds a violation. On Windows the open file makes the
  rename fail instead.
- *A torn live database cannot be restored over.* The pre-restore backup opens it and raises
  (`__main__.py`:197), so `--restore` refuses exactly when it is needed (`BackUpLive`).
- *A restore that stops between its two renames* leaves no live database, and the next start
  creates an empty one. The data is in the rollback file and in the backup
  (`CommittedDataSurvives`), and nothing points the operator there.
- *The page ignores a restarted server.* Revisions start again at 0 (coordinator.py:57) and the
  page drops lower ones (`app.js`:778) while it announces fresh status, until the new process
  has counted as far. `Shows` allows such a page, so neither property of the page catches it.
- *A broadcast that fails leaves the page behind.* When the snapshot cannot be built, the revision
  is raised and nothing is queued (coordinator.py:117-126). The page shows the old state until the
  next publish or, at the latest, the heartbeat of 20 s; `PageShowsNewest` speaks of
  snapshots that were built, `PageCatchesUp` of what follows.
- *A rejected binding stays.* An ARM answered BUSY fails the session but keeps its (device,
  boot, sequence) (repository.py:786), and the next session that is offered the same sequence
  cannot bind it: an idle controller cannot be armed until an unattributed pour or a
  reset moves its sequence.
- *A refused avatar upload has overwritten the file* (app.py:993): the file is written before
  the row decides that it was not missing.
- *`--set-pin` takes no lock* (`__main__.py`:247, where docs/LINUX.md:46 says "Only one process may use a
  data directory at a time"), and may write into a database that a restore is replacing.
- *A repeated CANCEL is STALE.* Cancelling an armed session leaves no trace on the controller
  (`Cancel`, session_machine.cpp:133), so the repetition that docs/PROTOCOL.md:88 allows is refused.
- *A counter after a long pause is quarantined.* If no counter changed for 2^31 ms (24.9 days) or
  more, the next snapshot of the boot looks like a clock that ran backwards
  (repository.py:1310). With `MaxUptime = 2` in `MCQueue.cfg` TLC finds it as a violation of `NoCounterQuarantined`,
  and the theorem `NoCounterEverQuarantined` assumes `NeverWraps`, that a boot is shorter.
- *A new boot's counters are taken for old ones.* The manager queues COUNTERS when they
  differ from the last ones queued, of whichever boot (manager.py:373). A new boot that has reached the same
  values by the time the host is connected again is not checkpointed until a counter moves.
  That is why `NoSnapshotForgotten` speaks of the first boot. COUNTERS polled after a reset that
  no STATUS has shown yet are labelled with the old boot (manager.py:375); the properties speak of
  the boot a snapshot is labelled with.

## 6. Not modelled

CRC collisions, electrical noise, the text of frames, the plausibility filter on pulse
rates, the resync generation of the manager, administration sessions and PIN throttling,
the admission of sockets, HTTP validation, the rendering of the page, exports, the SQL of
migrations, configuration and packaging. `PROJECT.json` gives the reason for each component.

## 7. Plan

Next would come the manager's resync generation after an overflow (`EventOverflow`), and
liveness of `MeasurementQueue` under fair polls and storage.
