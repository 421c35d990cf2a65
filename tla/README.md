# CanSat-2026: a TLA+ model of the flight firmware

Specifications, model-checking instances and proofs for the software of this
repository: the C++ flight computer, radio driver and ground bridge under
`src/firmware/`, and the packet stream of the Python ground station. Paths below are
relative to the repository; `FC` is `src/firmware/flight-computer/src`.

Check a module with `tlc -config <cfg> <module>`, a proof with `tlapm <module>`.
`PROJECT.json` lists the runs, the lines each definition models, the mutations
of the code each property was seen to catch, the hazards and the findings.

## 1. The system

A vehicle sends about one or three telemetry packets per second by LoRa to a
ground bridge, which hands them over USB to a ground station. One core, one
thread: `main.cpp` calls `Controller::poll()` forever under a 2 s watchdog. On
the ground the operator may send two commands, ERASE and MAX_RATE, in the gaps
between packets, until the command window closes; then the vehicle calibrates,
arms, and from there acts alone.

| component | state it keeps | operations | correct when |
|---|---|---|---|
| Flight log (`raw_block_log.cpp`, `pico/sd_logger.cpp`) | two header copies and the records, on the card; write and scrub pointers in RAM | begin, append, erase, scrub step | nothing reported as logged is lost by a power failure; a scrub stays off the records |
| Mission state machine (`state_machine.cpp`) | phase, time entered, three condition timers, descent gate | begin_self_test, update | launch and landing are neither invented nor missed; phases keep their order and lengths |
| Flight loop (`controller.cpp`) | window, uplink latch, calibration, sensor validity, command number, rate | initialize, poll and its parts | nothing arms or obeys at the wrong time; nothing blocks the mission |
| Startup calibration (`startup_calibration.cpp`) | sums and counts of samples, start time, verdict | add, update, reset | settles in bounded time, with a ground reference |
| Telemetry task and radio recovery (`controller.cpp`, `scheduler.cpp`) | next due time, packet number, packet on the air, back-off, failure run, pattern slot | emit, start_with_recovery, service_transmit, note_tx_failure | numbers accounted for, slots kept, sending resumes |
| Radio driver (`sx1278.cpp`, `pico_radio.cpp`) | mode, transmission start, listening flag | start/poll transmit, start/poll receive | no hang, no false "sent"; listens when it should |
| Ground commands (`command.cpp`) | none | make and parse a token | a frame is worth one use, at one packet number |
| Fault manager (`fault_manager.cpp`) | a record per fault: active, severity, count | report, hold, clear, has_critical | an active fault shows its worst severity; an episode is counted once |
| FAT volume, SD card (`fat_volume.cpp`, `pico/sd_card.cpp`) | extents of the log file, addressing mode | locate, to_lba, begin, block I/O | no sector outside the file changes; every block of the log has a sector of its own |
| Sensors, altitude and rate (`controller.cpp`, `pico/mpu9250.cpp`, `pico/bmp280.cpp`) | valid flags, times of the last good samples, filtered rate | begin, read, acquire_sensors | nothing stale is called valid; the phases see the vehicle's own motion |
| Heading (`orientation.cpp`, `startup_calibration.cpp`, `controller.cpp`) | seeded attitude, magnetic confidence, sweep | update, reset, update_mag_calibration, check_yaw_reference | a heading called magnetic was earned |
| GPS (`gps_parser.cpp`, `pico/neo6m.cpp`) | line buffer, latest fix and its time | consume, poll | a published position is a recent one |
| Packet and configuration (`config.cpp`, `telemetry_builder.cpp`, `lora_airtime.hpp`) | none | validate_config, build, shed | an accepted build never cuts a packet nor overruns its channel |
| Ground bridge (`firmware/ground-station`) | frame reader, one held command, two radio directions | feed, queue, due | a command leaves once, in the gap; a whole frame is delivered |
| Ground station (`ground-station/software`) | decoder, stream validator, event queue, log | thread, check, push, stop | restarts, losses and duplicates told apart |
| Battery, sound level, LED, health report | readings | sample, show | out of scope, see section 7 |

How they interact. `poll()` runs, in this order: the GPS, `service_transmit`,
`acquire_sensors` (feeding the calibrator), the window's timeout,
`run_calibration`, `feed_state_machine` (which looks at arming),
`emit_telemetry` (which asks for a ground command just before it starts the
transmission, and appends the log row just after), `service_transmit` again, a
slice of the scrub. So one poll can close the window, judge the calibration,
look at arming and obey a command; most of what is hard here is in that order.

What is hard:

- **Crashes.** Power goes inside any block write; a watchdog reset in flight
  starts `initialize()` again, with an uplink that must stay shut.
- **Timers over irregular polls.** A poll is late by an SD stall or a sensor
  bus; every duration is judged by samples that need not fall on its ends, and
  0 doubles as "this timer is not running".
- **Parts that fail halfway.** A transmission ends in one of six ways over
  several polls; the radio is re-initialised from two places with one back-off
  variable; a header write that fails still moves the alternation on.
- **Gates that reopen.** Arming depends on sensors that come and go, so a gate
  on "not armed" can open again.
- **Frames off the air.** Commands are lost, repeated and recorded; packets are
  lost across a restart of the vehicle that begins their numbers again.
- **Readings that stop.** A sensor that fails, repeats itself or lies leaves a
  value behind, and something downstream goes on believing it: the rate of a
  fall, a position, a heading, a half-read frame.
- **Rules set apart.** The file's clusters, the card's addressing, the byte budget
  and the period are each decided in one place and relied on in another.

## 2. Modules

| module | models | role |
|---|---|---|
| `DurableLog` | what the log promises its reader | abstract specification |
| `RawBlockLog` | `raw_block_log.cpp`, `sd_logger.cpp`, the card, power | component; implements `DurableLog` |
| `RawBlockLogProofs` | | proofs |
| `MissionPhases` | what the phase promises the ground crew | abstract specification |
| `StateMachine` | `state_machine.cpp` | component |
| `MissionHistory` | `StateMachine` and a record of the samples it was shown | properties; implements `MissionPhases` |
| `StateMachineProofs` | | proofs |
| `Controller` | the flight loop up to launch; `StateMachine` is instanced in it | composition |
| `MCController` | its sets of builds | instance |
| `ControllerProofs` | | proofs |
| `Downlink` | the telemetry task, its recovery, what the radio can report | component |
| `DownlinkProofs` | | proofs |
| `Uplink` | console, bridge with `UplinkTimer`, both half-duplex radios, the vehicle's telemetry and command slots | composition |
| `UplinkProofs` | | proofs |
| `SensorDrivers` | what begin() and read() of the two sensors can answer | operators, used by `Sensing` and `Heading` |
| `Sensing` | the sensor half of the flight loop over a moving vehicle; `StateMachine` is instanced in it | composition |
| `SensingProofs` | | proofs |
| `FaultStore` | `fault_manager.cpp` | component |
| `Heading` | `orientation.cpp`, `MagCalibrator`, the magnetometer part of the loop | component |
| `Gps` | `gps_parser.cpp`, `neo6m.cpp`, the GPS part of the loop | component |
| `FrameLink` | `framing.cpp` over a serial link (`transport.py` repeats it) | component |
| `FatVolume` | `fat_volume.cpp` | operators, used by `SdCard` |
| `SdCard` | `sd_card.cpp` and the block I/O of `sd_logger.cpp` | component |
| `CardVolumes` | prepared cards and where their file really is | instance |
| `PacketBudget` | `config.cpp`, `lora_airtime.hpp`, the size of a packet | component |
| `GroundStation` | `validator.py` over a lossy link and a restarting vehicle | component |
| `Bench` | the seven components above that stand alone, one per behaviour | composition |
| `MCBench` | its configurations, and the cards of `CardVolumes` | instance |
| `LinkAndCardProofs` | | proofs of `SdCard` with `FatVolume`, and of `FrameLink` |
| `BenchProofs` | | proofs of `FaultStore`, `Heading`, `Gps`, `PacketBudget` and `GroundStation`, and what of all seven holds on `Bench` |

### RawBlockLog

Every block write is an action, named for the call it ends: `Begin` and
`BeginHeader`, `AppendLine`, `AppendData` and `AppendHeader`, `Erase` and
`ResetHeader`, `ScrubBlock`. `pc` names the write that comes next, so `PowerLoss`
can fall before it, inside it (`TornHeaders`, `TornBlocks`) or after it. The card
(`header`, `block`) survives, the other variables do not. `acked` is a history
variable: the records `append_line()` returned true for. With `WriteFaults` a write
can also fail while power stays on, having happened or not. Two variables belong to the
controller: `sd_failures` counts the rows that failed one after the other, and at
`MaxFailures` `logger_enabled` is cleared, for good; from then on `poll()` neither appends
nor scrubs.

### StateMachine and MissionHistory

`Update` is `update()`, one operator per state of its switch; the variables carry
the code's names. A sample is the outcome of the comparisons the code makes of
it: thrust or not; falling, still or moving; armed; critical. A poll comes 0 to
`MaxGap` after the one before. `MissionHistory` keeps, without reading the
machine, the current run of samples that showed thrust while armed, descent, and
rest, and the last descent that lasted long enough. The properties compare what
the machine declares with what it was shown.

### Controller

One poll is the sequence `BeginPoll`, `AcquireSensors` or `SkipSensors`,
`CheckWindow`, `RunCalibration`, `FeedStateMachine`, `EmitTelemetry` or
`NoTelemetry`; `Initialize` and `SelfTest` come before the first one. The four
builds (commands allowed or not; max rate engaged by itself or not) are initial
states. A frame is a kind and the packet number its token was made for; every
frame may be heard in every packet, which covers loss, repetition, delay and
reordering. `calib.from_window`, `baseline_on` and `obeyed` are history: whether a
calibration holds samples of the window, where the baseline was taken, and the frames
obeyed, as a sequence, so that one obeyed twice is there twice.

### Downlink

One poll is `BeginPoll`, `ServiceTransmit`, `WindowTimeout`, then `NoPacket`,
`Suppress` or `Emit`, and `ServiceTransmit` again. The environment says for each
poll whether radio and sensors work; while they do not, the radio may hang, claim
to be done (before half the airtime that is a failure, after it nobody can tell), refuse a packet or a re-initialisation, and a packet may be
suppressed. A row that cannot be written counts towards `SdFailures` as in the
code. History variables: `on_air`, `reserved`, `leans`, `last_sent_ms`,
`quiet_until`.

### Uplink

Two programs that poll at their own pace, and the time and the air between them.
`Tick` moves the time and ends the frames on the air: a frame reaches a receiver
that was on from its first symbol to its last (`in_full`, `packet_in_full`), unless
the link loses it. The vehicle's poll is `ServiceTransmit`, `CheckWindow`, then
`NoPacket` or `Emit`, which asks for a command and then starts the packet.
`listening` is `PicoRadio`'s flag; `receiving`, `tx_was_receiving` and `fifo` are the
driver's, whose `start_transmit()` clears the frame that has just arrived. The
bridge's loop is `BridgeLoop`, with a command from the console or none; a command
that is due occupies it until `RelayEnds`. `awaited` and `in_gap` are history: the
command that should be obeyed next and since when the timer holds it, and
whether the command on the air was sent for the gap.

Left out of this module, because another one has it or no property needs it:
radios that fail, frames of somebody else (which the bridge counts as packets
too), replays, and the bridge's branch for a radio that is lost, which nothing
in its loop can reach.

How long a poll of the vehicle takes depends on what it writes to the card (`PollGap`).
One that writes nothing is over within `VehicleGap`, which `UplinkAssumption` wants to
fit into `kAfterPacketMs` (20 ms against a tick of 2 ms and the sensors; a bench build
that prints its summary over USB is taken to keep to it). One that starts a packet also
writes its row, a record and a header of up to 30 ms each, while the packet is on the air
(`RowGap`). One that scrubs writes four blocks (`ScrubGap`), which does not fit, and no
relation between it and `kAfterPacketMs` is assumed. So a command that is sent while an
erase is being scrubbed may meet a receiver that is still off: `GapIsQuiet` excepts it
(`card_busy`), `ObeyedInTime` does not wait for it, and section 5 says which comment
promises more. The three writes of the erase itself, which come before the packet is
started, are counted with those after it (`EraseGap`).

The period has to hold three
loops of the bridge besides a scrub, the packet, the gap and the command: one until it has
read the packet, one until it finds the command due, and one until it has left the
transmission and receives again. With two, TLC shows a bridge that is still
transmitting when the next packet starts, and a command that is late for it.

### Sensing

A step is a poll in which the sensor task is due. `Move` is the environment: the
vehicle stands on the pad at altitude `Site`, is lifted once it shows itself
armed, hovers, falls and lies. `AcquireImu`, `AcquireBaro`, `RaiseFaults` and
`UpdateAltitude` are the parts of `acquire_sensors()` in its order, `RunCalibration`
settles with a baseline or without one, and `FeedStateMachine` hands the comparisons of
`Machine!Update` the values this very poll left, stale ones included. What a reading can
be comes from `SensorDrivers`: the bus accesses of begin() and read() are counted, and a
part may stop answering at any of them. The filter (0.7 of the old rate, 0.3 of
the new) is computed in tenths and rounded towards 0. Three variables are history:
`quiet`, the passes since the vehicle came to lie still with both sensors answering;
`fallen`, the passes of the fall that FLIGHT was shown one after the other; and `level`,
whether FLIGHT was declared on an altitude of the reference in use and with a rate that is
no fall's.

What the model shows besides its properties, and what these except for it:

- A calibration that settles without a baseline (finding 3) leaves the altitude the one
  above the sea, and on a high site the machine takes that for a launch while the vehicle
  stands on the pad. `NoFlightOnPad` speaks of a vehicle with a baseline; `LandedOnGround`
  and `LandsOnceQuiet` hold for the flight that follows as for any other.
- The altitude stays that of the sea from the baseline to the next reading that differs.
  A barometer that gives nothing new for a whole confirmation lets the machine take the
  height of the site for a launch. A FLIGHT declared on such an altitude is not a `level`
  one: the step down to the altitude above the baseline looks like a fall from the height
  of the site, opens the descent gate, and LANDED can follow under a drone that climbs or
  stands level. `state_machine.cpp:85-87` says of the gate that "no hover, however long or however
  gentle the lift, can satisfy it".
- LANDED needs a descent that was seen. A fall that was shown to the flight for fewer than
  `FallTime + DescentConfirm + 2` passes one after the other, because it was short or
  because readings were missed in it, may leave the vehicle in FLIGHT for good, lying
  still. The code wants it so (no landing without a descent); `LandsOnceQuiet` begins
  where enough was shown.

### FaultStore, Gps, Heading

`Report`, `Hold` and `Clear` are the three calls, by any caller at any severity;
`worst` and `episodes` are history. In `Gps` a sentence is four parts, of which the line
may keep a beginning, an end, or all but one; so two sentences can run together in the line
buffer, which has room for one and for the end of another (100 characters, of which a fix
takes some 70). `measured` is the age of the position in `latest`, counted from the "$" of
its sentence, against `fix_age`, which is what the driver stamps. The two differ in one
case (`pieced`): a fix loses its newline and a later pass, after any silence, ends its line
with the end of another sentence. `PositionFresh` excepts it, and section 5 says which
comment does not. `Heading` keeps of the estimator where
the yaw came from; `Sample` and `NoSample` are the passes of `acquire_sensors()`,
`Settle` the `reset()` of a calibration that settles. `unaided` is history: the updates
since a field last set or steered the yaw. A course over ground has no age of its own
in the code, and `mag_valid` may be false while the yaw is still called magnetic on
its confidence: the property is about the field the yaw came from.

### FrameLink

The sender writes frame after frame, any byte may be lost (a reconnect loses a run
of them, and the decoder is kept). `Feed` and its four states are
`FrameReader::feed()`. A reader that is inside the payload of a damaged frame may
swallow what follows, up to the longest payload; `fair` marks the frames that must
be delivered all the same.

### FatVolume and SdCard

`Locate` and `ToLba` are operators on the sectors of a card. `SdCard` initialises, maps
the file, writes blocks and reboots; the card is standard or high capacity, knows CMD8
or not, and may stop a command at every stage. `PreparedCards` of `CardVolumes` makes
the volumes from the order of the file's clusters, so that the place of every block is
known without the code under test. A READ_OCR that fails leaves a high-capacity card
addressed by bytes: no volume is found there, and nothing is written.

### PacketBudget

`Accepts` is `validate_config()`, with the airtime and conversion formulas in
integers. `EmitTelemetry` builds a packet of values of the given widths, with the decimals
and the team id of the configuration, sheds until it fits and gives it its slot;
`EngageMaxRate` forces the tags off the air. What is assumed of the values is what bounds
them in the world: the numbers of a packet but for its team id and its decimals take the
136 and 39 bytes that `link_profile.hpp` counts. Nothing is assumed of a configuration, so
`AcceptedFits` says what acceptance alone is worth, which is that no packet is cut by the
radio, and what it is worth where the fields are as wide as the link profile counts them
(`WithinWidths`) and the modem is the profile's. Beyond that `validate_config()` accepts

- a position with six decimals and one, 55 bytes in place of 51, which is shed from every
  packet at its widest (202 bytes against 200); negative decimals, which `printf` takes for
  six; a team id of any length, which can make the mandatory block overflow the radio;
- a slower modem, or a bench build with a budget of 255 bytes, whose packets overrun the
  slots of the max-rate pattern: these are constants, and the duty is judged at the fixed
  period.

### GroundStation

A step is one telemetry period of the vehicle or its restart. `Check` is
`StreamValidator.check()`. `lost`, `gap`, `bridged`, `heard`, `in_run` and `followed` are
history: what was really lost, and whether every later run showed itself by its
P-001 with a clock that went back. When it did not, the station counts duplicates
and late packets until the numbers pass the old ones; its loss may then be short
but is never invented.

## 3. Runs

`CHECK_DEADLOCK FALSE` is given in every run: every bounded clock or sequence number ends a behaviour (and a card that failed,
or a vehicle switched off, stays so).

| run | shows |
|---|---|
| `log` | `AckedRecoverable`, `ScrubOnlyUnreachable` and `ReaderSpec` (the log implements `DurableLog`) on a card that only power loss interrupts; `ScrubEnds` under `FairSpec` |
| `log_scrub_left` | finding 2 |
| `log_header_fault` | finding 1 |
| `mission` | `LaunchConfirmed`, `LaunchesInTime`, `LandingConfirmed`, `LandsInTime`, and `PhasesSpec` (implements `MissionPhases`) |
| `pad` | `ArmedOnNewCalibration`, `LaunchAfterWindow`, `NoCommandOnceArmed`, `CommandsOnceInOrder`, `FlightAtMaxRate`, `ArmsInTime` |
| `pad_reference` | finding 3 |
| `downlink` | `EveryNumberCounted`, `SlotsKept`, `PatternKept`, `ReinitSpaced`, `SendsInTime` |
| `downlink_numbering` | finding 4 |
| `uplink` | `GapIsQuiet`, `HeldInTime`, `ObeyedInTime` |
| `uplink_after_max_rate` | finding 5 |
| `sensing` | `SensingHonest`, `PhasesTrue`, `LandsOnceQuiet` |
| `bench` | `FaultsTruthful`, `PositionFresh`, `HeadingEarned`, `Delivered`, `CardKept`, `AcceptedFits`, `LossHonest` |

`bench` runs seven components that share nothing: `unit` picks the one that moves in
a behaviour, the others stand still in an initial state. It is one run because
each of them is small, and its state space is the sum of theirs.

What the properties say is written above each of them in the modules.

### Bounds

- `log`: 5 blocks (three records, so that the column header, an appended record
  and the last block are different blocks), two record values, and a
  header sequence bounded by `MaxSequence`: `Room` lets no call start that could
  pass it. That is room for an append, an erase, a second log over the first,
  and several boots and torn headers among them. An interrupted header write
  needs three header writes to go wrong; the bound of 9 leaves more. Two failed rows in a row retire
  the logger.
- `mission`: confirmations of 2, `min_flight_ms` 3, polls 0 to 2 apart, so a poll can
  fall short of a confirmation, meet it or jump over it. Ten time units let a
  flight run from boot to RECOVERY (9), or a launch or a rest be interrupted and
  begin again before the landing.
- `pad`: window 2, delay 1, calibration of one sample or a timeout of 1, polls 0
  or 1 apart, three packets, six time units. Launch needs at most five, three
  frames make replay, staleness and the max-rate latch distinct. A calibration
  of one sample is enough for the properties of this run; `pad_reference` needs
  two, to let a set of samples be incomplete.
- `downlink`: slots 3 and 2 over airtimes 2 and 1, timeout 3, back-off 2, two
  failures to a re-initialisation, polls 1 or 2 apart, 14 time units. The longest
  recovery the property allows is 11, so a packet that hangs, a back-off and a
  radio down from the start still fit with the deadline inside the run. The constants keep the
  orderings of the shipped values that `DownlinkAssumption` states.
- `uplink` (5.5 million states): a period of 12 and max-rate slots of 3, airtimes of 2,
  `kAfterPacketMs` 2, `kMaxHoldMs` 19, polls of the vehicle at most 2 apart, or 3 where it
  scrubs, loops of the bridge 1 apart: the tightest values `UplinkAssumption` admits, with
  a scrub that does not fit `kAfterPacketMs` and room for two commands, each typed while
  at most one more packet is shown. The window of 30 is longer than the deadline of a
  command given after the first packet, and 36 time units let MAX_RATE be obeyed, or the
  window end, and packets follow in either case.
- `sensing` (689,904 states): confirmations of 1, deadlines, rate hold and arming delay of
  1, a lift to 360 units at 40 a tick over a site at 2 with a launch gain of 1, so that an
  absolute altitude would launch; thresholds of 11.4 and 11.2 units a tick, close to each
  other and far below the fall; two bad passes over both sensors, which is one more
  than the deadline outlives. `SettleTime` 9 and `FallTime` 4 are the least the assumption
  admits. The drop begins by tick 13, with a climb still in the filter or with none, and
  takes nine passes of which seven make `FallSeen`; `SettleTime` and `RestConfirm` follow
  within the 32 ticks.
- `bench` (124,547 states): two fault codes and counts up to 3; a GPS line of four parts,
  which is a sentence and the end of another, deadline 2; confidence 2 of 4 and two axes;
  payloads of 0 to 2 bytes against a maximum of 12, so that a damaged length swallows
  several frames; files of one to three clusters in every order, of one sector on a volume
  without a partition table and of two behind one, with a limit of two extents, so that one
  more is refused; the shipped configuration, every single change of a checked field and
  of the unchecked decimals and team id, and the product of modem, period, budget, fields
  and duty, over values at their widest and below; five packets in each of three runs of
  the vehicle over a window of two.

### Fairness

Only `ScrubEnds` needs it. `FairSpec` asks for weak fairness of the write a call
is in the middle of (the call returns) and strong fairness of `ScrubBlock`.
Strong, because each append disables the scrub step until it is over; justified,
because `poll()` calls `erase_step()` on every pass for as long as the logger is enabled,
which is a guard of `ScrubBlock`, so that between two appends there is always one. Where
the guard stays false the fairness asks for nothing: that is finding 2. Nothing
is asked of appends, erases, boots and power losses. The other "must happen"
properties (`LaunchesInTime`, `LandsInTime`, `ArmsInTime`, `SendsInTime`, `HeldInTime`,
`ObeyedInTime`) are
deadlines on the mission clock and therefore safety properties; they assume only
that polls are at most `MaxGap` (`PollGap`, `BridgeGap`) apart, which the watchdog
enforces for its own limit and the cost of a poll for the shorter ones.

## 4. Proofs

Proved by TLAPS for every value of the constants that the named assumptions of the
modules admit (`LogAssumption`, `DownlinkAssumption`, `UplinkAssumption`,
`BenchAssumption`, ...), which TLC evaluates on every run, and from nothing else:

| module | theorems | of | argument |
|---|---|---|---|
| `RawBlockLogProofs` | `TypeCorrect` | `RawBlockLog` | types, plus what each `pc` says of the pointers (`CallOK`) |
| | `Recoverable`, `ScrubsUnreachable`, `ImplementsDurableLog` | `RawBlockLog`, `WriteFaults` false | see below |
| `StateMachineProofs` | `TimersTyped`, `LaunchInTime`, `LandInTime`, `LaunchIsConfirmed`, `LandingIsConfirmed` | `MissionHistory` | see below |
| | `ImplementsPhases` | `MissionHistory` implements `MissionPhases` | step simulation, from the same invariant |
| `ControllerProofs` | `LoopTyped`, `ArmsOnNewCalibration`, `FliesAtMaxRate`, `ArmingInTime`, `CommandsEndWithArming`, `CommandsInOrder`, `LaunchesAfterWindow` | `Controller` | see below |
| `DownlinkProofs` | `DownlinkTyped`, `NumbersCounted`, `RichInTurn`, `SlotIsKept`, `RecoversInTime`, `ReinitsAreSpaced` | `Downlink` | see below |
| `UplinkProofs` | `UplinkTyped`, `GapStaysQuiet`, `GoesAnyway`, `CommandsObeyed` | `Uplink` | see below |
| `SensingProofs` | `SensingTyped`, `SensorsHonest`, `PhasesAreTrue`, `LandsWhenQuiet` | `Sensing` | see below |
| `LinkAndCardProofs` | `CardTypes`, `CardKeepsItsLog` | `SdCard`, `FatVolume` | see below |
| | `LinkTypes`, `LinkDelivers` | `FrameLink` | see below |
| `BenchProofs` | `FaultsTyped`, `FaultsShown` | `FaultStore` | the records and the history move together (`FaultInv`) |
| | `HeadingTyped`, `MagneticIsEarned` | `Heading` | see below |
| | `PositionTyped`, `PositionIsFresh` | `Gps` | see below |
| | `AcceptedFlies` | `PacketBudget` | see below |
| | `StationTyped`, `LossIsHonest` | `GroundStation` | see below |
| | `FaultsOnBench`, `HeadingOnBench`, `PositionOnBench`, `BudgetOnBench`, `LossOnBench`, `LinkOnBench`, `CardOnBench` | `Bench` | a behaviour of the bench is a stuttering one of the component's own specification |
| | `BenchTyped` | `Bench` | the types of the seven, and `unit` never changes |

*Log.* `AckedRecoverable` alone is not inductive: a step that tears a header
must know what the other copy says. `RecoverInv` adds that the two copies sit in
the slots of their parity (`SlotsOK`), that the sequence in RAM is the newest on
the card whenever the log is open (`SequenceOK`), and that the pointer in RAM and
the one on the card differ by at most the record being appended (`PointerOK`).
From these, `TargetIsOlder`: a header write always hits the older copy. With
`WriteFaults` this fails, which is finding 1. The refinement of `DurableLog` rests on
the same invariant: the header write of an append is the abstract append, that of an
erase the abstract erase, that of a boot the abstract start, and every other write,
power loss and torn block is a stutter, since it happens beyond the resume point or
to the older copy.

*Mission.* `TimersInv` relates every timer to the run of samples that started it
(a timer at 0 is not running, or its run began at time 0), and the descent gate
to a descent inside this flight. The deadlines follow since a run that outlasted
its confirmation would have ended the phase at its last poll.

*Flight loop.* The properties are about what one poll does after another has
happened, so the invariant says for each `pc` what the poll has already settled:
whether the window is open and when it closed, whose samples the calibration holds,
that the latch of the uplink is shut once the vehicle has been armed, that every frame
in the sequence of those obeyed names a packet at or below `last_command_pn`. `ArmsInTime` is an account of the time: the
window is seen to be over a poll late, the new calibration starts its clock a poll
after that and settles by its timeout, and the arming delay runs beside it. So the
deadline is the longer of the two ways, not their sum.

*Downlink.* `DownlinkInv` adds to the counters that the next due time lies at or
beyond the reserved slot of the last packet, and that the slot counter and the
number of lean packets since the last rich one are in step. `TimingInv` bounds, for
each state the radio can be left in, when a packet will next be sent: the hang-over
of a packet that was on the air when the radio came back, one back-off, the wait for
the next due time and the way of one packet. `SpacingInv` says what holds back the
next re-initialisation: the back-off, or the failures that are still missing, of which
each costs a slot. This needs `DownlinkAssumption` to say more than the source does:
that a run of failures takes longer than the back-off also when its first packet was
late. The shipped values leave 588 ms for that, which a poll would have to be late.

*Uplink.* None of the three timing properties is inductive. The invariant ties both
programs to the start of the vehicle's last packet: its next one is due a period later
(`Schedule`), the bridge reads the packet within a loop of its end and sends in the gap
within two (`Gap`), and a vehicle that scrubs nothing has ended its transmission by then. So a command ends, and the bridge is back in its loop, before the
next packet starts, and the vehicle, which receives again since the end of its own, hears
it in full. On a link that loses nothing every packet is therefore heard and no command
given up on; `Working` follows the command of `awaited` through its stations (in the
timer, on the air, with the vehicle), each with its latest time; a command that an erase
may delay is not awaited any more.

*Sensing.* `SensingInv` joins the stale faults to the times of the last good samples
(`StaleIsLate`), so that what the state machine reads is true of this very poll, whatever
the order of the outages. On the pad every reading after the calibration gives an
altitude within the last bit of the barometer, which is no launch; so an altitude that
keeps the launch timer running is older than the timer (`OldAltitude`), if there is a
baseline.

The landing needs to know what the filter can make of the readings. `Heard` bounds the
last reading by the way the vehicle can have moved since it, so a changed one moves the
altitude by at most `Speed + Site + 1` a tick (`MovedWithin`), and no rate exceeds
`Fade[0]` (`RateBound`). `Fade[n]` is what is left of that after n steps of the filter over
readings that differ by their last bit. For a vehicle that lies still `Quiet` says that
the rate is within some `Fade[m]`, with at most `RateHold + 1` quiet passes for each
step; so after `SettleTime` of them it is one of rest (`QuietIsStill`), and the rest timer
runs from there, or from the least flight time, until it lands (`RestInv`). What opens the
gate before that is `FallInv`: the second pass of a fall that is shown puts the altitude on
the reference in use, whichever that is; each further one takes the rate, which was
within `Fade[0]`, closer to that of the fall by a step of the filter (`FilterSinks`); after
`FallTime` of them it is a fall's, and the descent timer runs to its confirmation. That is
`LandsWhenQuiet`, from any rate before the fall and after any misses before and behind
the passes that count. A fall that is shown for less is not in it.

For `LandsOnTheGround`, `LevelInv` follows a flight that was declared on the reference in
use, be it a baseline or, after a calibration without one, the sea: then no reading changes
it any more. In the lift and the hover the last reading is not above the vehicle, so every
new one raises the altitude and the rate never becomes a fall's. In the fall, a rate that
has become one belongs to an altitude the vehicle has fallen from at full speed
(`Dropping`): no reading repeats, and each new one keeps the rate below that of rest
(`FilterFalls`). LANDED needs the descent gate and a rate of rest, so only the ground is
left.

`SensingAssumption` says what this needs of the constants: the last bit of the barometer
is no launch (15 m as shipped), the fall is faster than the rate of rest, `SettleTime`
is long enough for `Fade[0]` to fade, and `FallTime` for a rate at most twice that far from
the fall's to come to it. The first two are physics that `validate_config()` does not check;
the others define `SettleTime` and `FallTime`, which are not in the code.

*Heading.* `EarnedInv` is a budget: while the confidence is above 0, it and the
updates without a field (`unaided`) never exceed `MaxConfidence` together, and a
yaw with a calibrated credit has a calibration behind it. A heading is magnetic
from `Required` confidence on, which leaves `MaxConfidence - Required` updates.

*Position.* The line is empty or begins with a "$"; what is in it may be a fix without its
newline of any age. `PositionInv` says that `fix_age` and `measured` agree unless the line of
the position was ended by a later pass (`pieced`). Within a pass the parser has then either
left the position alone, or stamped the clock with one that was measured in this pass or
pieced together. Nothing is assumed of how much of a second sentence the line
holds.

*Packet budget.* Airtime grows with the length of a packet (`AirtimeMonotone`: the
number of symbols is a rounded-up quotient) and shedding only shortens it. The byte budget
that `validate_config()` accepts holds the mandatory fields and the position where these are
as wide as the link profile counts them (`WithinWidths`), and the airtime of 200 bytes (or
of a mandatory block) in the profile's modem, 1.8% added, leaves the guard of 50 ms in a rich
(or lean) slot: two numbers, once `AirtimeMonotone` has led every packet to them.

*Ground station.* `LossHonest` does not bound what a packet to come may add.
`StationInv` does: the numbers of this run above the last one heard were all lost
(`LossBound`), a run that has sent nothing still has its restart to show
(`RestartBound`), and while every run showed itself the last number lags the
vehicle's by the gap (`Exact`). `HeardTwice` shows a repeated packet to change nothing.

*Folds.* `Locate`, `ToLba`, the length of a frame and the number a reader makes of it are
folds and recursive functions, so what they compute for every input needs induction over
data. The library's induction rules take a predicate as a parameter, which the provers
cannot instantiate; `SetInduction` states induction for a *set* of numbers instead, and
follows from the library's well-founded order of finite sets. `FoldExists` and `FoldTyped`
say from it what a fold of the community modules is at each position, from its
definition there.

*Card.* `CardKept` says that an acknowledged block is where a reader of the file finds
it and that nothing outside the file was written. It is put together from the way of one
address: `ChainIs` (the walk through the FAT gives the clusters of the file in their
order, as far as the size asks), `ExtentsMapped` (the merged extents cover the blocks of
the file, each once: `Covers`), `FoundAt` (`to_lba()` of a block is its sector of the
file). `LocateSame` says that locating reads the sectors of `Consulted` only, and these
are not in the file, so a volume that was mapped before a reboot is mapped the same way
after it, whatever the log wrote meanwhile. `CardInv` adds that a driver that has a
layout addresses the card the way the card takes it. A driver that does not, after a
READ_OCR without an answer, sees the sectors of `Misread`: there it finds no volume, and
without a layout nothing is written.

The hypotheses are on the card that is put in (`IsPrepared`, evaluated by TLC on every
card of the run): its FAT links the clusters of the file and ends, as `prepare_sd_card.py`
and a formatter leave it; boot sector, FAT and directory are not in the file; and the
sectors whose number is a multiple of 512 do not happen to hold a FAT volume with the log
file. The last one is what keeps the misaddressed driver from writing; nothing in the code
does.

*Link.* A frame is fed byte by byte, and the reader's state after each byte of an
undamaged one is known (`AtParts`): the digits of the length are read back as the length
that was written (`LengthRoundTrip`, by induction on the number), and never overflow the
reader's limit of digits. `InStepFeeds` says that a reader in step stays in step
whatever bytes are lost, as long as the next start of a frame finds it outside a
payload; `LinkInv` ties that to `fair`.

*Bench.* The three variables of each component that stands still are constant, so each
theorem of a component carries over by its own `Spec`. `LinkAndCardProofs` is instanced
(`Data`), since it extends the card and instances the link; the definitions there are
the same as those the bench instances, which a few lemmas say.

Model-checked only: `ScrubEnds`, since liveness under fairness is beyond the prover.
Every other property of a passing run is a theorem.

## 5. Findings

1. `log_header_fault`: `write_header()` moves the alternation on also when the
   write fails (`FC/raw_block_log.cpp:109`). The next write then overwrites the
   only current copy; power lost inside it resumes at an older pointer, and
   records that were reported as logged are overwritten.
2. `log_scrub_left`: `poll()` carries a scrub on only while the logger is enabled
   (`FC/controller.cpp:180`), and a run of failed rows clears that for good
   (`:697`): on the card whose writes fail, a scrub is left half done, against the
   comment at `:176-179`.
3. `pad_reference`: a calibration timeout that meets a full set of unsteady
   samples finds the barometer's samples just cleared
   (`FC/startup_calibration.cpp:110`), settles without a ground reference, and the
   vehicle arms on absolute altitude.
4. `downlink_numbering`: a packet takes its number before it is started
   (`FC/controller.cpp:663`), so one held back by the back-off or refused by the
   radio leaves a gap among the transmitted numbers that the documentation rules
   out.
5. `uplink_after_max_rate`: nothing clears `listening_` (`FC/pico/pico_radio.cpp:100`),
   so `end_transmit()` puts the radio back into RX after every packet, also after
   MAX_RATE, when the documentation says the vehicle never enters RX again. What
   it receives is never read.

Four more places where a comment says more than a property can. They have no run of their
own; the property that excepts them says so, and dropping the exception has TLC show the
case under the cfg of its run (for `LandedOnGround` with a high site: `Site` 400, `FallTime` 14,
`SettleTime` 24):

- `GapIsQuiet` (`~card_busy`): `uplink_timer.hpp:25-26` gives the vehicle 20 ms "to leave TX
  and key its receiver: one 2 ms loop tick, with room for a sensor read or an SD write in
  progress", and says of the schedule that a command sent then is heard in full. One SD
  write takes up to 30 ms (`link_profile.hpp:147-148`), a poll that scrubs makes four
  (`FC/pico/sd_logger.cpp:114-120`): in the minutes after an erase a command may be sent to
  a receiver that is still off.
- `PositionFresh` (`~pieced`): `config.hpp:352-361` says that "a frozen position never
  survives more than a few telemetry packets". A receiver whose lead is pulled between the
  checksum and the newline of a fix, and makes contact again in the last characters of a
  later sentence, has its old fix read, and stamped as new, at the newline of that one.
- `LandedOnGround` (`level`): `state_machine.cpp:85-87` says that no hover can satisfy the
  descent gate; a FLIGHT declared on the altitude above the sea with a baseline can be
  declared LANDED in the air, under a drone that climbs or stands level (section 2, Sensing).
- `AcceptedFits` (`WithinWidths`, `ProfileModem`, no tags): `emit_telemetry()` calls a shed
  position "unreachable in a valid configuration"; six decimals make it reachable, and a
  bench build or a slower modem overruns the slots (section 2, PacketBudget).

Observed on the way, without a document that says otherwise: `engage_max_rate()` runs
before `validate_config()` in `initialize()`, clears the diagnostic fields, and the
max-rate slots are checked at compile time for the default modem only; a cyclic or
short cluster chain is bounded by the size of the file, not diagnosed; the branch of
`orientation.cpp:286` for a quaternion without a norm cannot be reached; `_push` in
`app.py:147` can lose one event when the dashboard drains the queue between its two
calls; packets of another team disturb the validator when no team is configured; a payload
may hold the byte that starts a frame (`framing.hpp:17`), which no packet of the vehicle
does and `FrameLink` leaves out, and a reader that lost its place would take it for one.

## 6. Plan

Done: the log and the card under it, the mission state machine, the sensing that
feeds it, the flight loop up to launch, the telemetry task and what fits a packet,
the command path, the heading, the position, the fault records, the serial frames
and the packet numbers on the ground.

Left to model: a header that cannot be read at boot (`RawBlockLog` with reads that
fail), frames of another team in `Uplink`, the bridge with a radio that does not come
up, and the reader thread of the ground station with its queue and `stop()`.

Left to prove: nothing that the runs check and the prover can reach. With the bridge's
radio or a second team modelled, the proofs of `Uplink` would have to follow.

## 7. Not modelled

- Numbers a model checker cannot tell apart: the quaternions, the compensation of
  the sensors, the sound level, the sums of the calibrations. Comparisons of such
  numbers enter as free inputs, or as classes of a reading.
- Text: the formatting and parsing of a packet (its length is modelled), the
  conversion of NMEA fields (its verdict is), the command token's hash. A token is its
  packet number.
- Register and bus sequences (`sx1278.cpp` setup, the bytes of `sd_card.cpp`, the
  registers of the sensor drivers): the stage at which a call stops is modelled.
- The battery, the LED, the health report; `bringup_main.cpp`; the log file, dashboard
  and event queue of the ground station; the web console apart from its commands;
  the analysis scripts, simulations and tools.
