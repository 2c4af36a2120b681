# flight-debrief in TLA+

A formal model of flight-debrief: the recorder that writes MAVLink telemetry to
`telemetry.tlog`, the loader and resampler that turn a recording into a
trajectory, and the controller (`sitl-position-hold`) that flies it through PX4
Offboard mode. The modules follow the C source under `main/src`; line numbers
in comments and below refer to it.

## 1. The system

| part | source | state it keeps | operations |
|---|---|---|---|
| Control loop | `control/main.c` | FSM state, peer, replay index, attempts, time stamps, deadline | one turn of the `poll()` loop in each of twelve states |
| Message reception | `control/px4_messages.c` | none | drain the transport, keep the last heartbeat, local position and acknowledgement |
| Command sending | `control/px4_commands.c`, `mavlink_encoder.c` | none | encode and send a setpoint or a command |
| Transport | `control/control_transport.c` | descriptor, UDP peer and last sender | send, receive, accept peer, for UDP and serial |
| Replay preparation | `control/control_replay.c`, `replay/replay.c` | recorded and resampled trajectory | load, make relative, resample at 10 Hz, validate, apply origin |
| Parser | `common/mavlink_parser.c` | state, bytes, expected length | consume one byte |
| Decoder | `common/mavlink_decode.c` | none | checksum, message table, field extraction |
| Recorder | `recorder/main.c` | `stop_requested`, `running`, parser | blocking read, write a record per frame, SIGINT handler |
| Log file | `common/log.c` | the open file | open session, write record, close |
| Log loader | `common/tlog.c`, `flight_data.c` | statistics, table of unknown types, sample arrays | read a record, check, decode, store |
| Replay tool | `replay/main.c` | exit status | load, resample, validate with limits of its own, print |
| Validator | `validator/*` | none | load, print the statistics |
| Ports | `recorder/serial_port.c`, `udp_port.c` | none | open and configure a descriptor |
| Dispatch, CSV logging | `common/mavlink_dispatch.c`, half of `log.c` | - | never called |

How they interact. The recorder reads bytes from a serial port or UDP socket,
feeds them to the parser and appends each completed frame to the log, in a
session directory that is named after the time of day. The replay tool shows
the operator the trajectory that is in a log. Later the
controller loads the log, takes its local positions, resamples and validates
them, and then runs a single-threaded event loop: `poll()` on the transport and
standard input with the next 10 Hz deadline as timeout, drain the transport
through parser and decoder, test the heartbeat timeout, run the handler of the
current state, move the deadline. Everything concurrent is outside the process:
the vehicle, the link, the operator, the clock, signals.

What is hard here: time (deadlines, retries and timeouts that are only looked at
when `poll()` returns), acknowledgements that are lost, late or repeated, state
that changes under a pointer (`initial_position`), messages of several senders
on one link, partial writes, power cuts and restarts, clocks and time stamps that go
backwards, and a parser that must find its way back after lost bytes. The list with lines is
under `hazards` in `PROJECT.json`.

What makes each part correct:

* control loop: a lost link is noticed; waits end; the setpoint stream has no
  gap and no burst; every setpoint is a sample in the vehicle's frame and the
  next one is adjacent; commands come in the order PX4 requires: in one
  formula, it implements `Mission`;
* with the vehicle: states are reached only after the vehicle accepted the
  command, or someone else acknowledged the same one; a replay with a wrong
  target never flies; success means disarmed (`CompletesDisarmed`: if no other
  component's heartbeat was read and nobody else's Land acknowledged; section 6 has
  what happens otherwise); and when nothing goes wrong the flight is completed;
* preparation: reads in bounds for any time stamps; what is flown was recorded;
  only a flyable trajectory is handed over, and it is the one that was shown;
* parser and checksum: in bounds; frames that arrive whole are delivered
  unchanged; bounded recovery; damage is noticed unless it makes another known
  message id;
* recorder, log and loader: the log is a prefix of the flight whatever fails;
  no run harms an earlier log; a torn log is not mistaken for a whole one;
  statistics are exact;
* transports: one peer, whole frames in order, receiving and sending return.

## 2. Modules

| module | models | uses |
|---|---|---|
| `Mission` | what the controller promises: positions and commands in order, without time, messages or retries | |
| `Px4Messages` | messages, `receive_px4_messages` | |
| `ControlLoop` | `control/main.c`: one action per FSM state plus `LoseConnection`, `IOFailure`, `Tick` | `Px4Messages`, instance of `Mission` |
| `ControlLoop_proofs` | proofs about it, and that it implements `Mission` | `ControlLoop`, `TLAPS` |
| `ReplaySession`, `ReplaySession_proofs` | control loop, faulty link and vehicle | `ControlLoop`, its proofs |
| `NominalFlight`, `NominalFlight_proofs` | the same without faults, with an operator at a terminal | `ReplaySession`, its proofs |
| `Replay`, `Replay_proofs` | `prepare_replay_trajectory`, `replay.c` and the replay tool | |
| `MavlinkParser`, `MavlinkParser_proofs` | `mavlink_parser.c` on a lossy link | |
| `Checksum`, `Checksum_proofs` | the checksum of `mavlink_decode.c` on a line that flips bits | |
| `TelemetryLog` | the log file: whole records, a torn one, the stdio buffer | |
| `FlightLog` | what the recorder promises of its logs, without reads, batches, signals or buffers | |
| `Recorder` | `recorder/main.c`, session directories of `log.c` | `TelemetryLog`, instance of `FlightLog` |
| `TLogLoader` | `tlog_load_flight_data`, `flight_data.c` | `TelemetryLog` |
| `RecordedFlight`, `RecordedFlight_proofs` | recording, then loading | `Recorder`, `TLogLoader` |
| `ControlTransport`, `ControlTransport_proofs` | `control_transport.c` and the loops that call it | |
| `MC*` | constants for TLC | the module they are named after |

Operators named `... Variant: ...` in a comment are wrong forms of the
definition that follows them. No specification uses them; replacing the
definition by its variant shows that a property can fail.

### Correspondence with the code

**ControlLoop.** Variables have the names of the locals of `main`, `resample`
being the positions that `apply_origin` moves in place; `initial_position` is an
operator on `resample`, as it is a pointer into it. A time stamp `t` of the
program, only ever used as `now - t`, is kept as that difference (`heartbeat_age`
for `last_heartbeat_ms`, `send_age` for the `*_last_send_ms` of the command that
is awaited, `disarm_age`, `until_setpoint` for `next_setpoint_ms - now`). One
turn of the loop is one step. `Turn` is what every turn does around the handler:
heartbeat bookkeeping, the connection test and moving the deadline; a handler
action adds its guard, assignments and transmissions, and `Fail` is every
`state = CONTROL_ERROR; break`. A turn takes any message batch in `Received` and
may happen at any time, because input on the transport or on standard input ends
`poll()`. `Tick` lets time pass in `poll()`; `MayWait` says that a turn comes at
most `MaxLate` after its timeout. `origin`, `commanded`, `commanded_age`,
`heard_age`, `command_age` are history: no action reads them. A position is an
integer; one that is out of `FiniteLimit` stands for inf or NaN.

The clock is read several times in a turn; the model takes the readings to be
equal and shows the time a turn takes as lateness of the next one.

**Mission.** The abstract specification has the phase, the last position the
vehicle was sent to, and which commands were given. `ControlLoop` maps to it by
`Phase` (twelve states to seven phases), `commanded`, `setpoint_count`,
`replay_index` and `Requested`; a turn that only waits, repeats a command or
holds a position is a stutter. `Abort` is the only step it allows for a failure,
from any phase before the end.

**ReplaySession.** `ControllerTurn` is a turn of `ControlLoop` on what
`receive_px4_messages` makes of the frames in the receive buffer (in
`WAIT_HEARTBEAT` of one datagram). Vehicle and link are not part of the
repository: they are modelled from what `main.c` expects of them and marked
external in the map. The link keeps order and loses frames. `ForeignAck` is an
acknowledgement that is not meant for the program: of another vehicle, or of this
one to another ground station. The decoder reads neither sender nor target of a
COMMAND_ACK, so the program takes it for its own, whatever command it names;
`ForeignCommands` says which occur, and the history `foreign` which have. The
properties say exactly how far such a frame can lead. What another station does to
this vehicle itself is modelled only as far as `LeaveOffboard` goes.

**NominalFlight.** The same actions on a link that loses nothing. `timer` says how
long a heartbeat, a position, an answer, an unread frame or the landing has been
outstanding, and `NominalTick` waits for what is due. The operator types lines at
any time; `ReadTyped` takes one of them where `main.c` calls `read()`, so a line
typed early waits in the terminal and makes `poll()` return at once until then.
`NominalAssumption` is the relation between the vehicle's periods and the
program's timeouts under which nothing may go wrong. A slow answer makes the
program repeat the command, and the vehicle answers the copies one by one before
it gets to the next command: `Backlog` says how many copies may be ahead of the
first of each command. With the constants of the code (500 ms, five attempts)
the assumption holds for every response time below 750 ms, if the link holds
seven commands. At 750 ms a second copy of Offboard is answered before Arm; in that
time Arm is sent four times; and if the replay is so short that the three copies
left are still unanswered when landing is requested, the answer to Land comes after its
fifth interval. The bound was found by the proof: with the simpler condition
that one answer fits into all attempts `NeverAborts` is false.

**Replay.** One step per loop iteration; `Advance` is the inner `while`, `Sample`
the rest of the outer loop, `Validate` one sample. `program` says which of the two
programs runs: the tool goes on with what it could load of a damaged log
(`LoadFails`), the controller does not, and `DurationLimit` is where their limits
differ. `FlyPreviewed` is the operator who starts the controller with the log
the tool has shown. Time stamps wrap at `WordSize`
as `uint64_t` does. `x` stands for both horizontal coordinates. Coordinates are
integers, interpolation rounds down, so statements about positions are up to
rounding; comparisons are those of the code with both sides squared.

**MavlinkParser.** `Consume` is `mavlink_parser_consume`; `bytes` is the used part
of `parser.bytes`. The byte stream that feeds it consists of frames of which any
byte may be lost.

**Checksum.** A byte and a register are sets of bit numbers. `crc_accumulate` is the
function of that name, `x25_accumulate` the definition of the checksum, one bit
at a time, which the sender is taken to follow. `Skip` is the caller's return when
`mavlink_crc_extra_for` does not know the message id that arrived (`tlog.c` 196,
`px4_messages.c` 46-52), `Accumulate` one turn of the loop in
`mavlink_frame_crc_calculate`, `Compare` the rest of it and the comparison. The sender
adds the byte of the message it sends, the program that of the id it received
(`Misread` if they differ). `Known` is the table of `mavlink_crc_extra_for`, or the three
ids of it that `px4_messages.c` looks at; the line flips bits of two neighbouring
bytes by the patterns in `Flips`.

**TelemetryLog, Recorder, TLogLoader, RecordedFlight.** The file is a sequence of
records and possibly a torn one; `log_write_frame` is `WriteRecord` or
`WriteFails`; `LosePower` leaves any prefix, because nothing calls `fsync`. The
recorder's `Check`, `EnterRead` and `ReadBytes` are separate steps, since a signal
can come between them. `archive` is the directory `out/`: of every earlier session
the length of its log; `Open` makes a directory named after the second it is called in,
which after a restart may be one that exists. The loader's step is one record. A
frame's message id, whether its checksum is right and the length of its payload
are data of the frame; `Decodes` compares the length with what the decoder of
the message demands. The nine arrays of `flight_data.c`, which grow by the same
code, are `samples` and `capacity` by message id.

**FlightLog.** The abstract specification has the frames received, the log, the
earlier logs and how far the session is (`Phase` in `Recorder`): a frame is received
only when the log is complete, the log grows by the next frame, a failure makes the
session give up, after which at most the frame that failed is still added, and only a
loss of power takes anything away from a log. It says nothing of `read()`, of the
batch of frames that a read completes, of the signal, of the torn record or of the
stdio buffer. `Recorder` is shown to implement it with `file`, `session` and `archive`
as `log`, `current` and `logs`.

**ControlTransport.** `kind` says which functions the pointers of the structure hold.
`TakePacket` is one turn of the loop of `udp_receive`, which skips the datagrams of
others, or a `serial_receive`; `Parse` is what the controller does with the bytes,
and `AcceptPeer` follows the heartbeat before anything else is read. `Write`,
`WouldBlock`, `PollReturns`, `WriteError` are the outcomes of the system calls in
`serial_send`.

## 3. Runs

| run | bounds | shows |
|---|---|---|
| `control_loop` | setpoint interval 2, retry 3, heartbeat timeout 4, lateness 2, two attempts, two prestreamed setpoints, three samples, three origins of which one overflows a sample and one is not finite | the safety and action properties of section 1, the type invariant, the refinement `ImplementsMission`, and that waits end: `StartupEnds`, `LandingEnds` |
| `control_loop_landing` | as `control_loop` | expected violation, see section 6 |
| `replay_session` | coarsest clock, all intervals 1, heartbeat timeout 2, two attempts, buffers of two frames, an autopilot and a gimbal, others that acknowledge Arm | `AcknowledgedWereAccepted`, `WrongTargetNeverFlies`, `CompletesDisarmed`, `AwaitedAckActedOn` |
| `session_foreign` | retry interval 2, heartbeat timeout 3, no acknowledgements of others | expected violation, see section 6 |
| `session_other_station` | as `replay_session`, without the gimbal | expected violation, see section 6 |
| `nominal_flight` | heartbeats every 2 with a timeout of 3, an answer as slow as the retry interval, four attempts, one line other than `l` | `NeverAborts`, `FliesArmedInOffboard`, and `FlightCompletes` |
| `replay` | all recordings of up to three samples with stamps 0..7 in any order, words of 12, duration limits 6 and 7 | bounds, path and limits of the resampled trajectory; `PreviewHolds` |
| `parser` | bytes 0..3, header of 4, payloads of 0 and 1 byte that may be magic | parser bounds, frames that arrive whole (`IntactFrameCompleted`), `RecoveryBounded` |
| `checksum` | a LOCAL_POSITION_NED, a COMMAND_ACK and a message the program does not know, each with one byte of payload; in two neighbouring bytes or the checksum any run of bits flipped, with two patterns more; four known ids, two of them with the same byte | `CorruptionDetected` |
| `recorder_silent` | four frames of two kinds, batches of two, no traffic promised | expected violation, see section 6 |
| `recorded_flight` | three frames of eight kinds over all sessions, batches of two, two seconds to name sessions after, table of one unknown type, capacity 1; failures, signals, kills, power cuts and restarts at every step | log prefix, nothing unwritten, earlier logs kept, the refinement `ImplementsFlightLog`, stop on Ctrl+C while traffic lasts, statistics, table, growth, `ReplaysTheFlight` |
| `transports` | two hosts with two ports, two packets waiting; frames of up to 3 bytes, driver of 2, three frames | peer selection, whole frames, receiving and sending return |

Why the bounds are enough. In the control loop only the order of the timeouts
matters: the retry interval is not a multiple of the setpoint interval, so that
retries fall between deadlines; the lateness exceeds no timeout but reaches a
whole setpoint interval, so that deadlines are missed; two attempts distinguish
the first, the last and one too many. Three samples have a first, a middle and a
last. The proofs of section 5 remove these bounds. In the nominal
flight an answer may take as long as the retry interval and be read later still,
so that commands are repeated and acknowledged late and twice. In the loader a table of one
type is full after the first, and capacity 1 grows twice in three records. Two
seconds make a restart with a new name and one with an old one. In the
parser a garbled length byte takes any value, so it swallows none, a part or
several of the following frames. Three recorded samples with free stamps contain
every order of two neighbours around a target. Others acknowledge Arm in the runs, which
for the controller is the awaited command in one state and an unawaited one in
the two others; the proofs cover every set of commands. In `checksum` damage makes of the
message id an unknown one, a known one with the same byte and one with another; the
last of these is accepted once (ids 32 and 0 with the bytes of the program's table,
component id and message id damaged by 22 and 32), so what the property excludes
does happen.

Named bounds of the models: `MaxInbox`, `MaxUplink` (a full link loses frames),
`MaxFrames` (received and kept of earlier runs), `MaxBatch`, `MaxLength` and `MaxSent`
(frames on a serial line), `MaxLines` (typed by the operator), `MaxAstray` (where a history
counter stops; the invariant's limit lies below it). In the control loop
ages that the current state does not read stand still and the others are bounded
by timeouts; only the age of the last setpoint, once landing has ended the
stream, stops at `StreamLimit`, the bound that the violated property names.

`CHECK_DEADLOCK FALSE` is used where the program really stops: the recorder, the
whole recorded flight, a transport that is closed, and a checksum that is compared.

## 4. Fairness

`ControlLoop`: weak fairness of `Tick` (the clock advances) and of `Wake` (a turn
comes once `poll()` has timed out). Nothing is assumed of messages,
acknowledgements or the operator, so no liveness of flying is claimed: only that
waits end. In `WAIT_HEARTBEAT` the program may wait for ever, and so may
`WAIT_LOCAL_POSITION` while heartbeats come and `HOLD_POSITION` until a key is
pressed.

`Recorder`: the program's own steps are weakly fair; that `read()` returns is
assumed only in `FlightTrafficSpec`.

`ControlTransport`: a call that was made goes on (`Receive`, `Send`). That packets
arrive, that an error comes to a call's help, or that the serial line drains is
not assumed. `ReceiveEnds` assumes, as part of the property, that those who are
skipped make a pause: against an endless flood the loop of `udp_receive` has no
limit.

`NominalFlight`: besides the loop and the clock, the vehicle's reports, answers and
touch-down are weakly fair, which with the deadlines of `NominalTick` makes them
punctual, and so is the one line `l` of the operator. This run is the only one in
which the outside world is promised to behave; what it shows is that then the
program does not fail by itself.

## 5. Proofs

Checked with TLAPS for all values of the constants under the named assumptions
(positive intervals and counts, a non-empty integer trajectory, and so on).
Every invariant that a run checks is a theorem, and so is every action property
and both refinements; what is left to TLC is at the end of this section.

Each proof has the same plan: an inductive invariant, stated next to the model
under "why it holds" (it can be added to the run's INVARIANTS to see it hold on the
small instance, as was done before it was proved); a lemma for every
action; and the properties from the invariant.

**ControlLoop_proofs.** `Invariance` proves `IndInv`, from which the rest follows.
`TypeOK` and the properties are not inductive: that the connection test works
needs that the heartbeat was young when the current `poll()` began (`ClockInv`);
the stream bound needs that the age of the last setpoint and the time to the
next deadline add up to at most one interval (`StreamInv`); setpoints in the
right frame need that the samples have been moved exactly once, and that the
last setpoint is the sample before `replay_index` (`SampleInv`); the command
order needs which commands each state has behind it (`AttemptInv`). From it follow
`TypeCorrect`, `ConnectionLossNoticed`, `AckWaitIsBounded`, `StreamIsContinuous`,
`SetpointsPlaced`, `FinalSampleHeld`, `CommandsOrdered`, and of the action
properties `RetriesSpaced`, `NoSetpointBurst`, `NoSetpointJumps`.
`MissionImplemented` is `Spec => M!Spec`, that is, `ImplementsMission`: every
handler of the loop maps to one step of the mission or to a stutter; what the
guards of the mission need (the sample that is due, that Offboard was requested
before Arm, that the stream was long enough) is in `IndInv`.

**ReplaySession_proofs.** `SessionRunsTheLoop` (`SessionSpec => Spec`) carries the
theorems of the control loop over to the composition. `SessionInv` adds what
is on its way: a positive acknowledgement in the receive buffer is of a command that
the vehicle has accepted (`RequestInv`), and those of an earlier command lie before those
of a later one, in both directions (`OrderInv`), because the link keeps order and a
command is sent only after the one before was acknowledged. So the last
acknowledgement of a batch, the one `receive_px4_messages` keeps, belongs to
the newest command: `ArrivedAckActedOn`. All this is said of `Answers`, the
acknowledgements of commands that nobody else has acknowledged; nothing is claimed
of the others but what a single one can do. `GoesOnWhenAccepted` and `EndsDisarmed`
follow in the same way, and so does `WrongTargetStaysDown`: only the autopilot
answers, so with another target nothing is ever accepted.

**NominalFlight_proofs.** `NominalInv` counts time. For the awaited command it
bounds the time since its first transmission by the answers the vehicle has given to
the copies before it (`AnswerInv`); the age of the last heartbeat is bounded by the
time since the vehicle sent one, unless one is in the buffer (`HeartbeatInv`), and the
landing likewise (`LandingInv`). `WhyError` lists the reasons for which a turn can fail, and
`NoReason` refutes each: `NeverGivenUp`. `FliesArmed` follows.

**Replay_proofs.** `SearchInv` says that no target lies after the last sample and
every sample passed by the search lies before the target. With it
`ResamplingInBounds` (no read out of bounds and no division by zero, whatever
the order of the time stamps), `FlownWasRecorded` and `PreparationTypeCorrect`.
`PipelineInv` adds that every output sample is made at the *first* recorded one
that is not before its target, although the search starts where the last one
ended (`Resamples`). There is only one such sample (`ResamplesOnce`), so two programs
that resample the same recording get the same trajectory: `FlownAsShown`. The
speed is compared between neighbours; that it holds between any two samples,
`OnlyFlyableIsFlown`, is the triangle inequality over the integers (`WaysAdd`).

**MavlinkParser_proofs.** `ParserInBounds` (the buffer is never overrun, for any
bytes) and `IntactFramesCompleted`, from an invariant that relates the parser's bytes
to the part of the frame sent so far. The latter says nothing of a frame that lost a
byte: the parser completes it with the first bytes of the next one, which then does
not count as intact. Such a frame is left to the checksum, and `BackInStep`
bounds the recovery: while the parser is in a false frame it has been astray for no
more bytes than it holds, and after it the next sent frame begins within one more
(`AstrayInv`).

**RecordedFlight_proofs.** `RecorderInv`: until a record fails, the file and the
pending batch together are what was received (`WrittenInv`); the log that is
written has no copy among the earlier ones (`ArchiveInv`). It gives `LogHoldsPrefix`,
`ReadsFindAllWritten` and `EarlierLogsUntouched`. `FlightLogImplemented` is
`RecorderSpec => L!Spec`: with `RecorderInv` every action is one step of `FlightLog` or
none; that a record which follows the file is the next frame received
(`NextStored`) covers both `log_write_frame` and the flush in `fclose`. `LoaderInv`: counters, table and
arrays are functions of the part of the log that was read. `StatisticsAddUp` needs
that a record raises one counter and adds to at most one array, `UnknownCounts` that
a type the table does not list was not seen while the table had room, `FlightTypes`
that an array is doubled when it is full. `FlightInv` joins the two through the
file; `ReplayedAsFlown` is the result. `FlightRunsTheRecorder`, `FlightSpec =>
RecorderSpec`, carries what is proved of the recorder over to the flight that the
run checks.

**ControlTransport_proofs.** `PeerInv`: `last_sender` is the sender of the datagram
that is parsed, and what is parsed is of the peer once there is one; `LineInv`: the
last byte on the line is number `offset` of the frame that is sent. They give
`CommandsReachTheVehicle`, `SerialFramesWhole` and `StrangersIgnored`.

**Checksum_proofs.** `SameChecksum` says that one step of the byte-wise computation
equals eight steps of the bit-wise definition, for every byte and register.
`CorruptionIsDetected` is then, for frames of any length and content and any table: the registers
agree up to the damage; the first damaged byte shows in the high byte of the
register (`HighByteTells`), which a second damaged byte cannot undo; and the same
byte keeps different registers different (`SameByteKeepsDifference`), up to the end
and through the message's byte, if it is the same (`~Misread`). Two kinds of damage are
left out because they can cancel. If the message id became another known one with
another byte, the program adds that byte; the bytes of its own table allow it. And
damage to the last byte of the payload and to the checksum at once has the
message's byte, which is not sent, between the two.

Inductions over data are written without the library's induction theorems, whose
operator parameters the provers cannot instantiate: a counterexample would have a
least instance (`WFMin`), and the step before it refutes that. So are proved that
`Selection`, a recursive function, does what a loop over the records does, that
`SlowEnough` extends from neighbours to any two samples, and which
acknowledgement of a batch is the last. `Selection` and `Decoded` stand where
`SelectSeq` and a fold would do, because the provers cannot expand those.

Model-checked only: the liveness properties `StartupEnds`, `LandingEnds`,
`FlightCompletes`, `StopsOnInterrupt`, `ReceiveEnds` and `SendEnds` (out of the
prover's reach), and the four expected violations. The command order, the final
sample and the absence of jumps (`CommandsOrdered`, `FinalSampleHeld`,
`NoSetpointJumps`) are proved and, as TLC checks the refinement that contains them,
no properties of a run of their own.

## 6. Where code and documentation disagree

* **The setpoint stream stops when landing is requested** (`control_loop_landing`).
  The header comment of `main.c` promises a setpoint at every deadline; the
  landing states keep the deadline and send none. A lost Land command leaves the
  vehicle in Offboard mode without setpoints for the retry interval or longer.
* **Disarm is believed of anyone** (`session_foreign`). Heartbeats are not compared
  with the target; one of another component ends `WAIT_DISARMED`.
* **Acknowledgements are believed of anyone** (`session_other_station`). README 102
  says the replay confirms command acknowledgements; a COMMAND_ACK is matched by
  command and result only. With Arm acknowledged by another vehicle, or to
  another ground station, the replay is streamed and reported complete although its
  vehicle never accepted Arm.
* **Ctrl+C can be missed** (`recorder_silent`). Between the test of
  `stop_requested` and `read()` the signal only sets the flag.

Two observations that are not stated anywhere to be otherwise: if payloads hold
magic bytes at a fixed place the parser may stay out of step for as long as the
traffic repeats itself (`RecoveryBounded` therefore counts only bytes of frames
that hold no magic byte but their first),
and decoders that demand the full payload drop messages whose trailing zeros
were cut off by a MAVLink 2 sender.

## 7. Not modelled

The field offsets of the decoder (straight-line code); the byte layout of
commands (made by the MAVLink C library); floating-point rounding; printing,
including the tracking log and the validator's tables; the system calls that
configure a port; CSV logging and dispatch, which nothing calls; the shell
scripts and the wiring test. How long a resampling of an enormous recording
takes is no state of `Replay` (see the hazard at `replay.c:72`).

## 8. Plan

The order in which the project grows; all of it is done.

1. `Px4Messages`, `ControlLoop` with its runs and proofs.
2. `ReplaySession`: the composition with vehicle and link.
3. `Replay` with proofs; `MavlinkParser` with proofs.
4. `TelemetryLog`, `Recorder`, `TLogLoader`, `RecordedFlight`.
5. `ControlTransport`; the replay tool in `Replay`; `Checksum` with proofs.
6. `Mission` and the proof that `ControlLoop` implements it.
7. `NominalFlight`: liveness of the whole flight when nothing goes wrong; restarts
   and session directories in `Recorder`.
8. Proofs of every safety property: of the recorder, the loader and the whole
   recorded flight, of the session and the nominal flight, of the transports, of
   the pipeline and of the parser's recovery.
9. An append-only log that may be cut as the abstract specification of
   `Recorder`, and the proof that it is implemented.
