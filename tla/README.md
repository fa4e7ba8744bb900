# g5000 in TLA+

g5000 is the instrument server of one sailing boat: a single Node.js process
that reads the boat's networks, puts every value on an in-memory bus, computes
from it, raises alarms, keeps logs, and serves a web interface. This directory
holds TLA+ modules of its stateful parts, TLC configurations that check them on
small instances, and theorems about them with proofs TLAPS checks.

Paths below are relative to the repository root (`apps/...`, `packages/...`).
`PROJECT.json` lists, for every definition, the source lines it stands for.

## 1. The system

```
 NGT-1, YDWG-02, serial, SocketCAN      demo injector      recorded session
            |  (live factory)                |                    |
            +----------- driver hub ---------+------ replay driver+
                             |        ^
                             |        +-- source mode controller (what is on the bus)
                             v
                 bus  ->  selector (preferred source per channel)
                             |
       +----------+----------+-----------+-------------+-------------+
   pipelines   alarms     trip log    statistics    AIS targets   transmitters
   (wind ...)  registry   (SQLite)                                (autopilot,
                |  \                                               alerts,
             history push                                          device discovery)
                             web interface (HTTP routes, SSE): settings, tracks,
                             forecast refresh, polls; config store (SQLite)
```

There is one thread. Code between two `await`s runs alone, so the units of
interleaving are: a handler with no `await` (alarm predicates, the trip engine,
the selector, everything that writes SQLite, which is synchronous), and a stretch from one
`await` to the next (the source mode controller, the hub, the live factory, the
routes that write files). What makes the system hard is not parallelism but requests
that arrive while another waits, awaited steps that reject, timers, sockets
that die unnoticed, lost frames, restarts, and state that several handlers hold
copies of.

### Inventory

| Component | State | Operations | Hard behaviour | What makes it correct | Here |
|---|---|---|---|---|---|
| Source mode controller, `apps/g5000/src/source-mode-controller.ts` | mode, status, the handle of the base source, the stashed base, the replay's teardown, a promise queue | setLiveOrDemo, startReplay, stopReplay, getStatus | requests during awaits, factories and teardowns that reject | one source on the bus; none torn down twice; the status is true; the last request wins; a replay gives the bus back | `SourceMode` |
| Driver hub, `packages/bridge/src/driver-hub.ts` | map of labels to drivers with their subscriptions | addDriver, removeDriver, teardown | overlap at `start()`/`stop()`, both may reject | what a label names is on the bus, what is on the bus has a label | `DriverHub` |
| Live factory, `apps/g5000/src/live-factory.ts`, `packages/bridge/src/bridge.ts` | ports, the shared hub, the transmitters registered with objects that outlive it | open, teardown | a factory that rejects half-way, no driver at all, two lives that overlap | the registries are those of the source that is up; a teardown reaches all it opened | `LiveSource` |
| Alarms registry, `packages/core/src/alarms.ts`, with history (`alarms-history.ts`) and push (`alarm-push.ts`) | a snapshot per alarm id, the row id in hand, rows, notifications | fire, clear, ack | wrappers stacked on each other, a database that refuses | history and phones agree with the alarm | `AlarmsRegistry` |
| Anchor watch, `packages/compute/src/alarms/anchor-watch.ts` and its routes | stage, time of the warning, live and stored configuration, copies in browsers | sample, acknowledge, drop, weigh, edit settings | order of samples and requests, restarts, stale forms | a drag sounds, escalates, reaches the phones, survives a restart | `AnchorWatch` |
| Hold alarms, `packages/compute/src/alarms/{shallow-water,over-speed,battery-low,high-wind}.ts` | hold timer, hysteresis band, registry entry | sample, timer, acknowledge, enable | a timer that fires with no second sample | what is held sounds, no sooner; what is good is silent | `HoldAlarm` |
| AIS collision monitor, `packages/compute/src/alarms/cpa-monitor.ts` and `packages/bridge/src/ais/targets-registry.ts` | one alarm for all threats; targets with one stamp each | periodic check, acknowledge, target messages | an acknowledgement that silences another vessel, a vector older than its stamp | a worse threat sounds; a vessel that stays on its course is noticed | `CpaMonitor` |
| Trip log, `packages/compute/src/trip/detector.ts`, `apps/g5000/src/trip-engine.ts` | detector windows, the engine's flag, trips table | position sample, mode gate, restart | gaps, glitches, backdated times, mode swaps | trips disjoint, sustained, ended at rest | `TripEngine` |
| Replay driver, `packages/bridge/src/persistence/replay-driver.ts` | loop over a file, abort flag | start, stop | timers that outlive stop, a second start | all frames, in order, never early, none after stop | `Replay` |
| Settings file, `packages/web/src/app/api/{settings,socketcan}/route.ts` | `settings.json`; the SocketCAN driver of the hub | PATCH, toggle; a live source reads it | read-merge-write across awaits, truncate then write, file and hub updated at two times | keys kept apart, hub runs what the file says | `SettingsFile` |
| Config store, `packages/db/src/config-store.ts` | SQLite rows, a subject per key, polar revisions, the active one | open with its migration, setters, revisions | an open that is cut, a process that ends between a write and its emission, stamps that tie | what the migration takes is never lost, a restart does not change the polar | `ConfigStore` |
| YDWG-02 driver, `packages/bridge/src/ydwg-raw-tcp-driver.ts` | socket, reconnect timer, backoff, line buffer, health | start, stop, socket events, txCan | stop between destroy and close, half-open connections | always one way forward, no spliced lines, reconnects | `YdwgDriver` |
| Autopilot transmitter, `packages/bridge/src/autopilot-tx-impl.ts` | promise chain, bound driver | command | a transmission that does not settle, a driver that was torn down | whole commands, in order, answered, none of a former source | `AutopilotTx` |
| Device registry and discovery, `packages/bridge/src/devices/device-registry.ts`, `apps/g5000/src/device-discovery.ts` | identified sources, pending timers, the shared transmitter | frames, request, register | rate limit, the answer that comes first, the teardown | asked only when due | `DeviceDiscovery`, `LiveSource` |
| Source selector, `packages/core/src/selector.ts` | last sample per source | publish, configure | a clock set back, sources that fall silent | the preferred source while it is fresh, never a blocked one, never nothing | `SourceSelector` |
| Fast packets, `packages/bridge/src/bandg-perf.ts` | reassembly by a 3-bit number | frame | lost frames | no payload of two messages, whole ones returned | `FastPacket` |
| Track recorder, `packages/web/src/lib/{tracks,track-recorder}.ts`, `app/api/{tracks,position}` | a file per track, the recorder's binding, the position stream's last fix | record, interrupt, label, annotate, delete | read-change-write across awaits, one temporary file per track, mode swaps | recording goes on; only live fixes | `Tracks` |
| Shared poll, `packages/web/src/hooks/use-poll.ts` | data, interval and fetches of a URL | subscribe, unsubscribe, answers | answers out of order | no component goes back | `UsePoll` |
| Forecast refresh, `packages/web/src/app/api/forecast/refresh/route.ts` | generation, jobs, progress | POST, DELETE, workers | workers of a superseded job | the progress is of the latest job and ends | `ForecastRefresh` |
| Demo factory, N2K alerts, AIS targets | one timer; one transmitter; a stamp per target | | | | as far as the modules above need them |
| Bus, other drivers (NGT-1, SocketCAN, serial) | byte framing | start, stop, bytes | | | seen from the hub as a start and a stop that may reject |
| Boot, shutdown | sequential | | | | give the modules' Init and their restarts |
| Race subsystem, session logger, ship's log, decoder, channel mappers, numeric pipelines, statistics, routing, GRIB, tides, H-LINK server, external integrations, pages | little, or numeric | | | | not modelled, section 7 |

How they interact: HTTP handlers call the controller, the registry, the hub and
the settings file directly (shared objects in the process); the controller calls
factories that register drivers with the hub and transmitters with the device
registry and the alerts; the hub's subscriptions carry
frames to the bus; alarms, pipelines and the trip engine subscribe to the bus
through the selector and read `getMode()`/`configRef.current`; the registry's
mutators are wrapped by the history and the push; the track recorder reads its
server's own position stream.

## 2. Modules

A module starts with a comment that says which code it models and at what
granularity. Each operator or action carries the name of the function, handler
or socket event it models; the awaits of an operation are suffixes (`SetTornDown`,
`SetOpened`, `SetFailed`) or states of a caller (`job`, `awaits`, `phase`).
An operation that leaves no trace (a refused call) is no step. Operators whose
comment starts with "Mutant:" are plausible mistakes in that code, kept to show
that each property can fail; they are not part of `Next`.

### Composition

Where components share state, one module holds both: `AnchorWatch`, `HoldAlarm`
and `CpaMonitor` act on the records of `AlarmsRegistry`; `AutopilotTx` extends
`YdwgDriver`, so that every event of the socket is also an event of the commands
that wait on it; `LiveSource` holds the hub, the registry and the discovery as far
as the factory touches them; `SettingsFile` the hub as far as the toggle does;
`Tracks` the recorder, the routes, the position stream and the source mode.

Four modules put side by side what shares no variable: `AlarmsPipeline` (the three
kinds of predicate, each writing the registry entry of its own id), `Server` (hub,
live source, settings, fast packets, trips, config store), `Inputs` (autopilot over
the gateway, discovery, selector, replay) and `Web` (tracks, poll, refresh). Their
variable `part` says which of the parts moves; the others stay in their initial
state, of which all but one choice is excluded (`Beginnings` and its like).
That is sound for the properties stated, because each speaks of one part's
variables and no part reads another's: in the free product the steps of one part
stutter on the others. It makes the state spaces add up instead of multiplying. The
other direction is proved: a behaviour of the composition is one of every part
(ServerIsItsParts, WebIsItsParts; of the tracks, which are under fairness, only the safety
is carried over), and what the parts promise holds in it (ServerIsSafe,
InputsAreSafe, WebIsSafe, PipelineIsSafe). The theorems about a part are of the part's own
specification (`HubSpec`, `LiveSpec`, ...), and so of every behaviour of it, not only of those
with the other parts at rest.

### SourceMode, SourceSwitch, SourceKinds

A caller is an HTTP request; `pc[c]` is the `await` it waits at. A source is a
*slot*: `runs[s]` says what it runs, and a handle or a teardown closure of the
code is the slot it acts on. `baseHandle`, `baseMode`, `status`,
`stashedRestart` and `activeReplayTeardown` are the code's variables of these
names (`stashedRestart` is the factory that `prev.restart` names), and
`setLiveOrDemoQueue` is the promise chain, as the sequence of callers on it.
`Init` is the state after the boot call, which is awaited before the web server
listens. What is awaited may reject: a teardown, a factory (having opened
nothing, or something: `halfOpen`), the teardown of a replay.

Different promises of the controller are made under different use, so the
constant `Usages` is a set of ways to use it and the variable `usage` is one of
them, fixed by `Init`: which operations are issued, by whom, whether a request
waits for the answer to the previous one, and what may reject. One run then
checks them all, and a property says in its first conjunct which use it is about.

* *Swapping*: setLiveOrDemo by three callers, overlapping, factories may reject.
* *TakingTurns*: all three operations by two callers, one request at a time.
* *Overlapping*: all three operations by two callers, overlapping, everything
  may reject. Only `TypeOK`, `NoDoubleTeardown` speak of it: with overlap
  startReplay and stopReplay break exclusivity (finding 1).

`SourceSwitch` is the abstract specification, three variables: the source that
is on, the mode shown, the base to come back to. `ImplementsSwitch` checks that
the controller implements it when used in turn, with the slot that runs as
`active`, `status.mode` as `shown`, `baseMode` as `home`.

The model allows other code to run at every `await`. Some (the demo factory, a
replay's teardown) settle in microtasks, so that an HTTP handler cannot
come between; the model has more interleavings there than the program (see section 8).

### DriverHub

The map (`entries`), the subscriptions of each driver (`publishing`), whether a
driver is up, and callers of the three methods with the `await` they wait at. A
driver is a fresh object per call. `inTurn`, chosen at first, says whether calls
overlap: `NoShadow` holds only if they do not, because the duplicate check and
`entries.set` are on two sides of an await.

### LiveSource

A live source is a number, its *life*; `phase` says where its factory or its
teardown is, `found` what the ports gave (`n2k`: an NGT-1 or a YDWG, the drivers that can
transmit; `0183`: serial ports alone). `hub[g]` is what the hub of life `g` runs,
`sharedHub` the hub the rest of the app sees, `deviceTx` and `alertsTx` whose
transmitter the device registry and the alerts hold. The teardown is in the
order of the code: registries and discovery, bridge, ports. Reading the settings
(`wishing`) and adding SocketCAN are on two sides of an await, so that a toggle or
another life may come between. The hub's teardown captures its labels and stops one
driver after the other (`left`): a stop that rejects leaves the rest running, and what a
toggle adds meanwhile stays. `liveUsage`, chosen
at first: *steady* (one source at a time, drivers found, nothing rejects),
*unplugged* (there may be no driver), *unsteady* (everything may reject, toggles
at any time), *overlapping* (two lives at once).

### AlarmLife, AlarmsRegistry, AnchorWatch, HoldAlarm, CpaMonitor

`AlarmsRegistry` has no variables: a record holds one alarm's snapshot, the
history row the writer has in hand, whether it ever let an open row go, and the
last severity pushed; `Fire`, `Clear`, `Ack`, `Restarted` are the mutators with both
wrappers around them, and take the database's answer.

`AnchorWatch` gives that record to everyone who writes it: the handler of a
position (`Sample...`, one action per branch), the helm's acknowledgement, the
routes that drop and weigh, the settings form, a restart. The geometry is one
bit, `outside`, that the sea decides (`Move`). `age` is the time since the
warning, in ticks. `usage`, chosen at first: "plain" (nobody opens the
settings form, every write succeeds), "failing" (a write may fail), "any" (both).
`judged`, `silenced`, `hushed`, `owed` are history variables for the properties.

`HoldAlarm` is the four predicates that wait before they fire: a sample is bad,
good or in the band between the two thresholds (`banded`: high wind alone has one);
`timer` is the pending `setTimeout`, which needs no further sample to fire.

`CpaMonitor` is the periodic check. `computeCpa` is reduced to the level it yields
for a target: none, WARN, CRITICAL. A target keeps the vector of its last position
message and the stamp of its last message of any kind, as the targets' registry
does. `answered` is the worst severity acknowledged since there was no threat.

`AlarmLife` is the abstract specification of all three: an alarm is quiet, sounding or
answered; it begins to sound only when it is *due*, and from answered it goes to sounding
only by an escalation of the set `Overrides`. The condition `due` is an input of the
specification. Each module maps itself to it (`Watch`, `Held`, `Collision`):

| | due | answered | Overrides |
|---|---|---|---|
| anchor watch | the watch judges and the boat is outside | past the idle stage, acknowledged | none |
| hold alarms | the whole hold was bad | acknowledged and not cleared | none |
| collision monitor | the worst threat is one | acknowledged and not cleared | WARN by CRITICAL |

The anchor watch's mapping is by the stage and not by the entry, because weighing clears
and acknowledges, and the entry keeps the acknowledgement of the former anchorage; the
stage is what a return inside resets.

### TripEngine

The detector's windows, its state and its last fix; the engine's flag and start
time; the rows. The actions are the branches of `feed()`, named for what becomes
of the sample. A position is its distance to the last accepted one, a speed its class, a
distance is counted up to the shortest trip that is kept. `notFastAt` and
`notSlowAt` are history.

### FastPacket

One source sends packets of one to `MaxFrames` frames; every frame is fed to
`feed` or lost. `lost` counts, up to a bound, the frames lost in a row: the
property that a payload is of one packet needs to say how many losses break
it. `entry` is the reassembler's entry of the source.

### ConfigStore

`open()` is one action per statement and may end, by a crash or an error, after
each; `wardrobeRow` is the row of the wardrobe and `mapRows` the legacy map, by boat and mode,
that it is migrated from; `sails` and `revisions` are what the subjects hold. A setter is two
steps, the write and the emission, between which only the end of the process can come
(`stage`); a write that throws changes nothing and is no step. The polar revisions are a
sequence of rows with a stamp in whole seconds, from a clock that may be set back; a
new process reads them through the index `polar_revisions_lookup`, sorted by stamp. That
fixes their order: by stamp, the latest first, then by `sail_config_id`, by mode, and as
inserted. `ListRevisions` is *the* sequence of the boat's rows sorted so (`ListedBefore`).

`paint` is history: whatever was painted in version 2, for every boat and mode. open() migrates
one cell of it, the active boat's in the active mode, if its row can be read
(`readable`: the catch at `config-store.ts:364` makes an error "no row"), and drops the
table. The rest is given up there (`Taken`), which the design accepts
(`docs/superpowers/specs/2026-05-19-sail-crossover-atomic-design.md:117-125`);
`PaintKept` claims that nothing is lost before that step, nor what is taken after it.

### SettingsFile

One action per file operation. Writing is what `writeFile` does: truncate, then
write; a write over what another request wrote meanwhile may leave a tail of the
longer text (`garbled`). The toggle is then answered with 503 if no hub is shared yet
(`Unavailable`), or makes the hub follow (`Apply`, one step: its hub calls settle in
microtasks, before other I/O is handled) and reads the file once more for its answer
(`AnswerToggle`). A live source shares a new hub (`ShareHub`), reads the choice from the file
(`ReadChoice`) and adds the driver (`AddChoice`); requests may come between these.
`requestsInTurn`, chosen at first, says whether requests and sources overlap.

### Replay

One loop per call of `start()`; the session is the list of its frames'
offsets. `Stop` is `stop()` and the bridge's teardown, which follow each other in
one tick.

### YdwgDriver, AutopilotTx

The socket (`none`, `connecting`, `open`, `dead` = half-open, `closing` =
destroyed but not yet reported), the timer, the backoff, the line buffer with
whether its content came from the present socket, and the gateway.

Each command of the autopilot waits for the one before it (`chain`), then writes its
frames one by one; a write is called back, or fails once its socket is destroyed.
`driver` numbers the live sources that came and went; a transmitter is bound to
the driver of its time (`boundTo`) and `wire` is what reached the gateway.

### DeviceDiscovery, SourceSelector

`DeviceDiscovery`: per source of frames, whether it identified itself, the pending
timer, the time since it was asked, and the request of two frames between whose
awaits the transmitter may be uninstalled. The second frame is kept because the handler
has it; no property depends on it (that no registered transmitter is a stopped one is
TransmittersUp, of `LiveSource`).

`SourceSelector`: the stamps are kept as ages, which are negative after the clock
was set back. `Pattern[t]` is the set of the rule's entries that a source matches: each is
tested against every tag, so entries may overlap. `heard` is the true time since a source was heard, which the code
does not know.

### Tracks, UsePoll, ForecastRefresh

`Tracks`: files and temporary files by track number, and for the recorder and each
client the track it holds in memory with the await it waits at; a track is
active or ended. The position stream repeats its last fix, of whatever source.

`UsePoll`: one URL; the data are the version of the server's state that answered.

`ForecastRefresh`: `jobs[g]` counts what the workers of job `g` pulled and settled;
a generation token decides whose counts reach `progress`.

## 3. Runs

Every bound is a CONSTANT of the cfg; those that bound the model rather than the code
are named in the module (`Slots`, `MaxClock`, `MaxLives`, `MaxDrivers`,
`MaxRevisions`, `MaxStamp`, `MaxBack`, `MaxVersion`, `MaxGeneration`, `MaxTracks`, `Starts`).

| Run | States | Bounds, and why they suffice | What it shows |
|---|---|---|---|
| `source` | 245,478 | 3 callers for swaps (one runs, one waits, one more), 2 for the rest, 3 slots (a leak needs 2) | no double teardown under any use; one source, a true status, last request wins, every call answered under swaps and in turn; SourceSwitch is implemented and a replay returns to its base in turn |
| `alarms` | 66,012 | anchor: escalation after 2 ticks, so that a warning can be refreshed before, in between and at the boundary. Hold: 2 ticks, so that a good sample can come in between. Collisions: 2 vessels, one acknowledged and one not | a breach sounds and escalates; escalations are pushed; the history follows; a drag out of an armed watch is noticed across restarts; each predicate implements AlarmLife (so hold alarms sound after the hold and not before, and stay acknowledged); a worse threat sounds; a vessel on its course is noticed |
| `server` | 1,057,266 | hub: 3 callers, labels and drivers. Live: 2 lives. Settings: the owner of the toggle and one of another key, beside live sources; three values. Two clients overlap here and in the violation run. Packets: the real 8 numbers, up to 3 frames. Trips: holds 2, gap 3, glitch 2, clock to 10: two trips with a gap, a swap or a restart between. Config: 2 boats, 2 modes, 2 configs, 2 revisions | a registered driver is on the bus and only under its label; registries and teardown of a live source; keys kept and the hub as the file says; no payload of two packets; trips disjoint and ended at rest; the paint that is migrated is never lost, a restart keeps the polar |
| `inputs` | 157,144 | backoff 1..5 (the maximum is no power of two), 2 commands of 2 frames, 2 drivers; 2 devices, delay 1, interval 3; 4 sources, two preferred that match a second entry each, one fallback, one unlisted; five frames: two together, a gap, one that goes back in time | the gateway always has a way forward and reconnects; commands are whole, in order, answered, never of a former source; devices are asked when due; the preferred source while fresh, and no channel starves; a whole session is replayed |
| `web` | 115,159 | one request beside the recorder, 2 tracks (one ends, one follows); 2 components, 2 versions; 3 jobs, 2 workers, 3 tasks | recording goes on; no component goes back; the progress is of the latest job |
| `source_exclusive_doc`, `anchor_sticky_doc`, `anchor_fresh_doc`, `replay_twice_doc`, `settings_clobber_doc`, `tracks_live_doc`, `cpa_escalation_doc` | | the smallest instance that shows it | the seven findings of section 6 |

`CHECK_DEADLOCK FALSE` stands where the system may rest: the slots, drivers, lives or
jobs of the instance are used up, or a session is over. The alarms never rest.

Fairness, all weak:

* `source`: `Resume(c)`. An awaited promise settles and the event loop runs its
  continuation. Requests are not fair. `EveryCallAnswered` speaks of the uses in which
  a slot is always free, so the bound on slots cannot stand for a hang.
* `alarms`: samples, the clock, the hold's timer, the two-second interval of the
  collision check, and the reports of a vessel that is under way. Positions
  arrive at least once a second on a
  working boat; acknowledgements, drops, settings, restarts and what the sea does are not fair.
  That samples are fair while `config.enabled` is off is vacuous: no sample is then
  judged, which is why `WarningEscalates` may also end with the alarm being disabled.
* `inputs`: the reconnect timer, the connect and close events of a socket, and Node's idle
  timeout on a half-open socket; a file is read, a write on a connection
  that works is called back, a rejection is handled; the selector's clock;
  `start()`, the loop's own steps and the clock of the replay. `Stop`, swaps, the
  gateway and the sources of samples are not fair; `Reconnects` and `ChannelLives`
  assume what they need of them.
* `web`: the recorder's and the requests' own continuations. Requests, restarts and
  fixes are not fair; `RecordingGoesOn` assumes a live fix and an active track from some time on.

`server` checks safety, so has no fairness.

## 4. Theorems

The proofs hold for any values of the constants that satisfy the modules'
assumptions (named `...Assumption`: a null that is not a member of the set it
complements, thresholds that are naturals, `InitialMs <= MaxMs`, entries of a rule numbered
from 1, modes that are sail_config_ids too, at least two packet numbers, a positive number of frames). TLC evaluates each assumption in a run.

| Module | Theorem | Property | Argument |
|---|---|---|---|
| `SourceModeProofs` | TypeCorrect, TornDownOnce | TypeOK, NoDoubleTeardown | `Inv`: a handle's slot runs the kind the handle is for (`HandlesRun`), a slot is held once over both handles and all callers (`HeldOnce`), a caller holds a slot exactly while it opens or tears down (`InFlightHolds`), and only the queue's head is past its turn (`QueueHeadRuns`). Type correctness needs them too: the stash is `runs[baseHandle]`, a base only because a base handle runs one. |
| | SourcesExclusive | Exclusive | Two invariants on top of `Inv`, one per use. Swaps: no replay, and whatever runs is the base handle's or the queue head's (`NoReplay`, `NoLeak`). In turn: one call in flight, whatever runs is held, and who holds excludes the others. |
| | StatusIsTrue, LastCallDecides | StatusTruthful, LastRequestWins | `SwapTruth`: between two swaps the status is that of what runs, and the head of the queue, once past its turn, runs nothing or what it asked for. `TurnsTruth` is the same in turn: it relates the status to what is stashed, opened and held at each await. |
| | ControllerIsSwitch | ImplementsSwitch | Every step maps to a step of SourceSwitch (`Stays`, `Swaps`, `Enters`, `Leaves`, `Shows`) or a stutter. The mapped `active` is a CHOOSE over the slots; `HeldIsOn` makes it the only one that runs. Used in another way, or with faults, the mapping stands still. |
| `DriverHubProofs` | RegisteredAlwaysOnBus, PublishingIsUp | RegisteredOnBus, NothingPublishesHalfUp | `InFlight`: the driver a caller starts or stops is under no label and nobody else's. |
| | NoneShadowed | NoShadow | In turn one caller is inside, and the label it adds under is still free. |
| `AnchorWatchProofs` | WatchTypeCorrect, UnansweredBreachSounds | types, BreachSounds | `BreachInv`: past the idle stage an alarm nobody answered sounds. BreachSounds alone is not inductive: a sample of an acknowledged breach sets `judged` and fires nothing, which is right only if the acknowledgement set `silenced`. |
| | EscalationIsPushed | PushedSeverity | `PushInv`: the sounding severity is that of the stage, and a disarmed watch is silent. |
| | HistoryFollowsAlarm | HistoryFollows | `HistoryInv`: a CRITICAL has its row in hand and open; a WARN that sounds is not sticky, so that the clear before the escalation closes its row before the fire opens another. |
| | WatchImplementsLife | WatchIsAnAlarm | `AnsweredInv`: past the idle stage there is an alarm, and it sounds or is acknowledged. So an acknowledgement or a weighing takes the alarm from sounding to answered and never from quiet, and a firing past the idle stage is of an alarm that sounds. |
| `AlarmsProofs` | GoodSilences, SoundsAfterHold, AcknowledgedStaysSilent | SilentWhenGood, FiresAfterHold, AckHolds | `TimerMeansBad`: a pending timer belongs to a spell of bad samples, what has passed of the spell and what is left of the timer are together at least the hold, and no alarm is up yet. |
| | EveryThreatSounds, OnlyWorseSoundsAgain | ThreatSounds, AckNotUndone | `AnsweredIsSeverity`: while an acknowledged alarm is up, what was acknowledged is the severity it has now. |
| | HoldImplementsLife, CpaImplementsLife | HoldIsAnAlarm, CpaIsAnAlarm | The same invariants. A timer that expires finds the whole hold behind it and nothing answered (`TimerMeansBad`); a check that fires over an acknowledged alarm found CRITICAL where WARN was acknowledged. |
| | PipelineIsSafe | EachIsAnAlarm and the safety properties above | A step of one predicate stutters on the others (`OnePartMoves`), so that every invariant above is one of the pipeline. |
| `TripEngineProofs` | EngineAlwaysAgrees, TripsNeverOverlap, StartsAreSustained, TripsEndAtRest | EngineAgrees, TripsInOrder, SustainedStart, EndsAtRest | `Phases` (what each state of the detector holds), `Ordered` (the remembered times are in order), `Stored` (a stored trip ends before whatever window or trip may be stored next). The action properties follow from the same invariant. |
| `InputsProofs` | AlwaysOneWayForward, NeverSplicesLines, HealthTruthful | OneWayForward, NoSplicedLines, ConnectedHasSocket | Without a socket: no connection, an empty buffer. |
| | StaleIsNeverSent | NothingStaleIsSent | `WritingOnPresent`: a write that waits for its callback is on the present driver's socket. It rests on OneWayForward: a stopped driver has no socket, so a new one comes only after the writes on the old have failed. |
| | FramesStayInOrder | FramesInOrder | `ChainInv`: later commands are not bound to earlier sources. `TurnInv`: of one transmitter's commands, those before one that started were answered. `WireInv`: the last frame on the wire is the last of the command under way, if it wrote any. |
| | SourcesAreAskedWhenDue | AsksAreDue | A timer runs only for a source that is due, and only while the discovery is installed. |
| | NoOtherWhilePreferred | PreferredHolds | `SelectorInv`: a source heard within the window is in the Map, and until the clock is set back the stamps tell how long ago that was. A sample passes only if its source is the winner, of the least pattern that has a fresh source; that the least exists is the well-ordering of the naturals. With entries that overlap the winner matches some entry that is no later than any entry of any fresh source (`WinnerIs`). |
| | ReplayKeepsPace | NeverEarly | `LoopsInv`: a loop that waits holds the due time of the line it will publish, whatever other loops do. |
| | StartedOnceIsPublishedOnce | EachFrameOnce, SessionSoFar | With one start: what was published is the lines before the loop's own, each at its own number. The hypothesis `Starts = 1` is what `source-mode-controller.ts:118` breaks (finding 4). |
| | InputsAreSafe | the safety properties above | As PipelineIsSafe. |
| `ServerProofs` | KeysStayApart, HubRunsWhatIsStored | KeysKeptApart, RunningAsStored | `OneAtATime`: in turn, the request in flight has changed nothing of the file but its own key, and the file is whole except while it writes. `HubInTurn`: the hub may differ from the file only between a toggle's write and its update of the hub, or while a source opens, and then what the source read is what the file still says. |
| | PayloadsAreOfOnePacket, WholePacketsReturn | NeverCorrupt, WholeIsReturned | `EntryInv`: an entry of an earlier packet means that every frame since was lost: at least one for each packet in between, whose number is their distance modulo the numbers. The same number again is a whole cycle. |
| | MigrationLosesNoPaint | PaintKept | `ConfigInv`: nothing is painted in a row of version 2, whose paint is all in the legacy map; once the wardrobe is loaded its row is of version 3 and has what was taken, and the legacy map is dropped only then. |
| | RestartsKeepThePolar | RestartKeepsPolar | `RevisionsInv`: what the process remembers of the boat in use are all its rows, and rows of the same second, config and mode stand in the order they were inserted (`InTurn`). Then the newest of the list, the first of them if several tie, is the same for every list with these two properties (`ActiveIs`), and the index's list has them (`ListInTurn`). That the sorted list exists is proved by a least counterexample over the number of rows (`SortedExists`). |
| | ConfigTypeCorrect | ConfigTypeOK | The invariants above with `ConfigSorts`. |
| | NoStaleTransmitter, RegistriesAreOfTheSource, TeardownReachesAll | TransmittersUp, RegistriesFollow, TornDownIsSilent | `RegistriesInv`: what the registries hold is of a source that is up, however sources overlap. One at a time (`OneSource`) the shared hub is the one of the source that has a bridge; in steady use (`SteadyInv`) only what is between its opening and its teardown has anything open. |
| | ServerIsItsParts, ServerIsSafe | all safety properties of the run | `OnlyOnePartMoves`; the parts' theorems then apply as they stand, for no part of this composition is under fairness. |
| `WebProofs` | ShownOnlyGrowsNewer | NeverGoesBack | `PollInv`: at most one fetch is under way per entry, no answer under way is older than what is shown, and every listener shows what was polled last. |
| | ReportIsOfTheLatest | ProgressIsTheLatest | `RefreshInv`: of the latest job, what was pulled is what was settled and what is in flight; a job that no longer runs pulled all and has nothing in flight. |
| | RecorderIsBound | WritersHoldTracks, RunningIsBound | One lemma per continuation (`LookKeeps`, `ListKeeps`, `WriteKeeps`, `RenameKeeps`, ...): who waits at a write or a rename took its track from a look that found one. `Highest` needs the greatest of a finite set of numbers. |
| | WebIsItsParts, WebIsSafe | the safety properties above | As ServerIsItsParts. |

Properties such as TransmittersUp or FiresAfterHold that stand in no run are implied
by the invariants of the same theorems, or are too close to a guard to be worth
a model-checking run; their theorems are kept because the others rest on them.

Only model-checked: everything temporal under fairness (EveryCallAnswered,
WarningEscalates, DragIsNoticed, BadIsAlarmed, CollisionNoticed, WholeSession,
Reconnects, CommandsAnswered, ChannelLives, RecordingGoesOn), which is out of the
prover's reach. Every invariant and action property of a passing run is a theorem.

Three properties are about the least or greatest of a finite set: the winning source, the
active polar in a sorted list, the highest track number. Induction over the set is out of
reach, because the library's theorems of it take an operator as a parameter. Instead
`Least` (in `ServerProofs`, `InputsProofs` and `WebProofs`) proves from the well-foundedness
of < on the naturals that a set of naturals that is not empty has a least element, and an
argument by a least counterexample takes the place of the induction. No module declares
a RECURSIVE operator.

## 5. Hazards and the properties for them

`PROJECT.json` lists thirty-nine places of the code that are hard to test, each with its
line and the properties that would catch it going wrong. In short:

| Kind | Where | Properties |
|---|---|---|
| requests that overlap at an await | controller, hub, settings and SocketCAN routes, tracks, refresh workers | Exclusive, NoDoubleTeardown, LastRequestWins, NoShadow, KeysKeptApart, NoClobber, RecordingGoesOn, ProgressIsTheLatest |
| a step of several that fails | factories, `driver.start()`, history rows, a toggle answered 503 | StatusTruthful, EveryCallAnswered, RegisteredOnBus, BreachSounds, RunningAsStored |
| what was read before and is used after | replay stash, stage of the anchor watch, bound transmitter, trip flag, last fix, stamps | ImplementsSwitch, BreachSounds, NothingStaleIsSent, TripsInOrder, OnlyLiveFixes, PreferredHolds |
| order of events | escalation as clear then fire, answers of a poll, revisions of one second | PushedSeverity, HistoryFollows, NeverGoesBack, RestartKeepsPolar |
| timers, timeouts, retries | escalation, holds, gap close, discovery, paced replay, reconnects | WarningEscalates, EachIsAnAlarm, BadIsAlarmed, EndsAtRest, AsksAreDue, WholeSession, OneWayForward, Reconnects |
| crash and restart | armed anchor, migration | DragIsNoticed, PaintKept |
| lost frames, half-open connections | fast packets, line buffer, autopilot chain | NeverCorrupt, NoSplicedLines, FramesInOrder, CommandsAnswered |
| long legal sequences | weigh and drop, acknowledgements of threats, a source with no driver | NextDropStartsFresh, ThreatSounds, EscalationSounds, CollisionNoticed, RegistriesFollow, TornDownIsSilent |

## 6. Findings

Seven runs are expected to find a violation. Each checks what a document, a comment
or a test of the repository says against what the code does.

1. `source_exclusive_doc`, ModesExclusive. The design calls replay "mutually
   exclusive with live and demo"
   (`docs/superpowers/specs/2026-05-11-g5000-sessions-and-replay-design.md:86`).
   startReplay and stopReplay are not on the queue of setLiveOrDemo
   (`source-mode-controller.ts:98`): of two requests that overlap at the teardown
   of the base each opens a source, and one of them can no longer be stopped.
2. `anchor_sticky_doc`, StickyUntilAck. A CRITICAL is to stay listed until it is
   acknowledged (`docs/superpowers/specs/2026-05-18-safety-alarms-design.md:151`).
   A swing in, out and in again demotes it to a WARN and removes it
   (`anchor-watch.ts:58-75`).
3. `anchor_fresh_doc`, NextDropStartsFresh. "The next drop starts fresh"
   (`anchor-watch.ts:41-42`) is true only if a sample is judged between weigh and
   drop; else a drag from the new anchorage makes no alarm before the boat has been
   inside the circle for a sample.
4. `replay_twice_doc`, EachFrameOnce. The driver's test expects each frame once
   (`replay-driver.test.ts:91`). startReplay starts the driver twice: through the hub
   (`driver-hub.ts:189`) and itself (`source-mode-controller.ts:118`).
5. `settings_clobber_doc`, NoClobber. "A per-key PATCH from one client never
   clobbers keys owned by another" (`settings/route.ts:33-35`). Two requests that
   both read before either writes do.
6. `tracks_live_doc`, OnlyLiveFixes. The mode gate is to keep synthetic points out
   of a track (`track-recorder.ts:133-134`). The stream repeats the last fix
   (`position/route.ts:141-159`), and after a swap to live the gate lets it pass.
7. `cpa_escalation_doc`, EscalationSounds. An acknowledged alarm fires again when
   "the situation escalates WARN → CRITICAL" (`cpa-monitor.ts:155`). Not after an
   acknowledged CRITICAL that fell to WARN: the entry keeps the higher severity.

Disagreements seen while modelling that stand in no run:

* `driver-hub.ts:26-28`: a caller "cannot shadow" a driver; two overlapping
  addDriver calls of one label can.
* `live-factory.ts:223-225`: "teardown is symmetric"; with no driver found, SocketCAN
  goes to the hub of the source before and no teardown reaches it.
* `bandg-perf.ts:156`: "never a corrupt payload", unless all eight numbers of a cycle were lost.
* `source-mode-controller.ts` is not told of a replay begun at boot by `REPLAY`
  (`apps/g5000/src/index.ts:193-195`): stopReplay then resets the status and stops nothing.
* `socketcan/route.ts:17-19`: a toggle is persisted "so the choice survives the next restart"
  and put to the hub "so the change takes effect this instant". Of two that overlap one may be
  the last in the file and the other the last in the hub, and a live source that opens
  meanwhile reads the file at a third time: at rest the hub then runs another choice than
  the file holds.
* `app/api/config/polars/route.ts:18`: a polar saved becomes "the newest (and therefore
  'active') polar". Of two saved within one second the first stays active, and one saved after
  the clock was set back is not active.
* `trip-engine.ts:68-71`: speed and wind that classify a trip may come from a demo or
  a replay.

## 7. What is not modelled

* *Numeric pipelines* (true wind, polars, groove, current, sails), statistics, the
  wind calibration run, routing, GRIB, tides, coastline, mast layout, geometry of
  zones and of closest approach. Floating-point functions of their inputs; where a
  module depends on one, its verdict is a choice of the environment (`outside`, the
  level of a target).
* *Translation* of PGNs, NMEA 0183 and fast-packet payloads into samples, and back.
  Stateless and table-driven.
* *Drivers other than the YDWG-02*: byte framing over libraries; the hub sees a start and a
  stop that may reject.
* *Pages*: the web package is most of the repository's lines, and nearly all of them
  are React components that show what an endpoint answers, with state that no other
  part reads. The routes and hooks that change shared state are in `SettingsFile`,
  `AnchorWatch`, `Tracks`, `UsePoll` and `ForecastRefresh`. This is why the mapped
  lines are a small share of all lines.
* *External services* (Emporia, Victron, radar, H-LINK clients): values that are only shown.
* *Race subsystem, session logger, ship's log, boot and shutdown*: one timer or
  a straight sequence each. As read: a race state changed within half a second of
  the process ending comes back as it was; a second ping of the line near an end keeps
  the former pre-start side, where `app/api/race/line/route.ts:80` says it stays undefined.

Of the components that are modelled:

* the controller's setBaseSource, which only tests call, and the boot-time replay;
* the registry's listeners and reset, the delivery of a push;
* the moving of a dropped anchor, the MOB request;
* PUT of the whole settings file, validation of bodies;
* the config store's other keys, which have the shape of the wardrobe (a row and a
  subject), and the polars of a boat other than the process's: a PUT for one is shown until the
  restart and then not;
* the distance filter of a track, exports;
* health counters of the drivers.

## 8. Limits

* The instances of section 3 are small; what is proved (section 4) does not depend on
  them. Liveness does.
* Clocks are ticks. The trip engine's clock does not go back (a trip may then end
  before it starts: the floor at `detector.ts:274` is on the duration alone); those of the selector and
  the config store do.
* Properties that do not hold under every use say in their first conjunct which use
  they are about. In particular: two revisions of one mode and one second, posted under
  different sail_config_ids, can swap at a restart; a stale settings form disarms the watch
  (`settings-form.tsx:45`); a live factory that rejects half-way leaks its drivers;
  an interrupt that races an append leaves two active tracks
  (`tracks.ts:12-13`), or fails on the shared temporary file; the boot of the recorder
  that races an interrupt ends recording, as does the deletion of the track it is bound
  to; and a deleted track's number is used again (`tracks.ts:38`). All of these are in the
  modules' behaviours.
* The migration of the wardrobe gives up what was painted for other boats and other modes
  than the active ones, and a row it cannot read; PaintKept does not claim it.
* Where a model lets other code run at an await that settles in microtasks, it has
  more interleavings than the program; safety carries over. The trace of
  `source_exclusive_doc` overlaps at such an await, the opening of the replay. The same
  overlap at the teardown of a live base, which does real I/O, gives the same violation.
