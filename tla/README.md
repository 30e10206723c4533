# A verification project for goodwe

`goodwe` is a Python library (package `src/goodwe`) that reads and controls GoodWe inverters over
UDP (port 8899), Modbus/TCP (port 502) and the older AA55 protocol. It is single threaded and
asynchronous: an application runs several coroutines on one asyncio event loop, and they share one
`Inverter` object and its protocol object. This directory holds TLA+ modules translated from that
code, TLC configurations that check them on small instances and TLAPS proofs.

## 1. Inventory

| part | code | state it keeps | operations | talks to |
|---|---|---|---|---|
| UDP protocol | `protocol.py:30-101, 104-229` | lock, retry counter, transport, current command and response future, timer, fragment | `send_request`, `_connect`, the asyncio callbacks, `_timeout_mechanism`, `close` | the event loop; validators |
| TCP protocol | `protocol.py:232-384` | the same, on a stream | the same, `eof_received`, `close` under the lock | the event loop; validators |
| command execution | `protocol.py:387-464` | none | `execute` | protocols |
| Modbus frames | `modbus.py`, `protocol.py:583-729` | transaction counter | builders, CRC, two validators | command classes |
| AA55 frames | `protocol.py:467-580` | none | builder, checksum, validator | command classes |
| inverter base | `inverter.py` | consecutive failure count, device identity | `_read_from_socket`, `_map_response`, `set_keep_alive` | `execute` |
| discovery | `__init__.py` | list of failures of one call | `connect`, `discover`, `search_inverters` | families |
| ET family | `et.py` | capability flags, filtered sensor tuples, settings map, topology | device info, runtime data, settings, operation modes, slave discovery | inverter base, sensors |
| DT, ES families | `dt.py`, `es.py` | meter flag, settings map; work mode | the same, fewer | inverter base, sensors |
| HCA charger | `hca.py` | settings map, number of phases | device info, runtime data, settings, clock | inverter base |
| sensors and codecs | `sensor.py` | schedule type of a sensor object | readers, encoders, `Schedule`, `EcoModeV1` | families |
| TOU helpers | `tou_helpers.py` | none | encode and parse time-of-use slots | applications |
| tables | `model.py`, `const.py`, `exceptions.py` | none | model predicates | families |

Tests, examples and packaging are evidence, not part of the program.

What is hard, and what would make each part correct:

* **Protocols.** All callers share one lock, one `response_future`, one `_retry`, one `_timer` and
  one socket, and every callback touches them. `asyncio.Lock.release` leaves the lock free until the
  woken waiter runs; the `finally` of every nested `send_request` releases "if locked", whoever holds
  it; `connection_lost` of a closed socket comes later; timers and datagrams of earlier requests may
  still be on their way. Correct means: one request at a time, every request ends, within its
  retries, with its own answer or a failure, and nothing is left behind.
* **Frames.** The validator must accept what the command asked for and nothing else, whatever the
  boundaries of lengths and signs.
* **Inverter base.** The failure count says how many requests failed in a row.
* **Discovery.** A device that is there is found, whichever requests get lost before its own; the first family that fits is chosen; every failed
  probe is recorded.
* **ET, DT, ES, HCA.** Capability flags, filtered sensors and settings must stay consistent over
  rejections, lost datagrams and restarts of the probe; a mode is changed by several writes, any of
  which may fail.
* **Codecs.** What is encoded decodes to itself, and a schedule reads back as the mode it was written for.

`PROJECT.json` lists the hazards at their lines with the properties that watch them, and says of the others why
nothing watches them.

## 2. Plan

| step | modules | what | state |
|---|---|---|---|
| 1 | `RequestService`, `UdpProtocol`, `UdpProperties`, `UdpService`, `UdpProofs` | the shared UDP protocol, its abstract service, the proofs about its lock | done |
| 2 | `TcpProtocol`, `TcpService` | the stream, 5 s connect, end of stream and reset, `close` under the lock; implements `RequestService` | done |
| 3 | `Words`, `ModbusFrames`, `Aa55Frames` | frames and validators | done |
| 4 | `Sensors`, `TimeOfUse`, `Schedules`, `RegisterTables`, `Codecs` | readers, encoders and tables, put to the test against their inverses and references | done |
| 5 | `OperationModes`, `ModesProofs` | mode changes of ET and ES, request by request; proofs about them and the schedule's days | done |
| 6 | `Capabilities` | probing and degradation of ET and DT | done |
| 7 | `SettingsData` | reading the settings of ET, DT and HCA one by one | done |
| 8 | `Discovery` | how an inverter is found, and at which address | done |
| 9 | `UdpProofs`, `Queues`, `QueueFacts` | the rest of the safety of `UdpProtocol`: who awaits what is told, whose answers are returned, and the safety part of `RequestService` | done |
| 10 | `TcpProofs` | the same for `TcpProtocol`, with `close()` under the lock | done |
| 11 | `SettingsProofs`, `DiscoveryProofs`, `CapabilitiesProofs` | all properties of `SettingsData`, `Discovery` and `Capabilities` | done |
| 12 | `ModesProofs` | `SuccessfulChangeHolds`, `NeverThirdMode` and `AnswersAModeInForce` of `OperationModes` | done |
| 13 | `CodecsProofs`, `UdpProofs` | the properties of `Codecs` for all inputs; timers and attempts of `UdpProtocol` | done |
| 14 | `UdpTimers`, `UdpProofs` | an account of the timers left armed, for any disturbance | done |

What is left out for good is in section 7.

## 3. Modules

Protocols:

* `RequestService` - the promise: a call is submitted, dispatched when nobody is active, perhaps put
  back in the queue (a retry), and completed with a failure or an admitted answer; every call ends.
* `UdpProtocol` - `UdpInverterProtocol` and the asyncio loop under it; `UdpProperties` - what must hold, and the
  strengthenings that make it inductive; `UdpService` - the refinement mapping to `RequestService`; `UdpTimers` - the same with a history of what leaves
  timers behind; `UdpProofs` - section 6.
* `TcpProtocol` - `TcpInverterProtocol` and its loop; `TcpService` - its properties, the parts of its inductive invariant and its
  refinement mapping; `TcpProofs` - section 6.
* `Queues` - what invariants say about the loop's queue and the lock's; `QueueFacts` - lemmas about it.
* `MCUdp`, `MCUdpTimers`, `MCTcp` - reactions of network and inverter, commands.

Algorithms without state:

* `Words` - bytes, registers, and what a conversion or a validator answers.
* `ModbusFrames`, `Aa55Frames` - requests, answers, validators.
* `Sensors`, `TimeOfUse`, `Schedules` - what is read from and written to registers.
* `RegisterTables` - where the sensors and settings are and which blocks are read for them.
* `Codecs` - their properties, with `MCCodecs` for the inputs; `CodecsProofs` - section 6.

Families:

* `OperationModes`, `ModesProofs`, `MCModes` - `set_operation_mode`, `get_operation_mode`, `write_setting` of schedule groups.
* `Capabilities`, `CapabilitiesProofs`, `MCCapabilities` - `read_device_info`, `read_runtime_data`, `sensors`.
* `SettingsData`, `SettingsProofs`, `MCSettings` - `read_setting`, `read_settings_data`, `settings`, and what removes or bars a setting meanwhile.
* `Discovery`, `DiscoveryProofs` - `connect`, `discover`, `search_inverters`, and `discover_parallel_slaves` as far as it gets.

The modules of the families do not extend the protocols: what `RequestService` promises (a request ends, answered, rejected or
failed, and others may run before it) is the outcome of one of their requests.

### How `UdpProtocol` corresponds to the code

| variable | code |
|---|---|
| `pc`, `request`, `frames`, `calls` | where each coroutine is in `execute`/`send_request`; its command; the depth of nested `send_request` calls; how many calls it made |
| `locked`, `waiters` | `self._lock._locked`, `self._lock._waiters` |
| `retry` | `self._retry` |
| `transport`, `net` | `self._transport` (open or none) and the datagrams that will reach that socket |
| `command`, `owner`, `fut`, `partial` | `self.command`; whose future `self.response_future` is; the state of each caller's last future; the command whose first fragment `_partial_data` holds |
| `timer`, `armed` | `self._timer`; the handles neither run nor cancelled |
| `ready` | the loop's queue of callbacks; `Poll` marks where the selector is asked |

A coroutine runs from a callback to its next suspension. The pcs `acquire`, `connect`, `send` and
`resumed` are passed without suspending: no callback runs meanwhile (`Quiet`). `AcquireFree` and
`AcquireWait` are `asyncio.Lock.acquire`; `Connect`, `ConnectFails` (`create_datagram_endpoint` raises `OSError`), `ConnectionMade` and `WakeAwaited` are `_connect`;
`Send` and `SendFails` are `_send_request`; `Return`, `Retry`, `RecursionLimit` and
`MaxRetriesReached` are the ways out of `send_request` with its `except` and `finally` and the
`finally` of `execute`. `ReceiveAnswer`, `ReceivePartial`, `ReceiveReject`, `ReceiveInvalid` and `ReceiveError`
are the branches of `datagram_received` and `error_received`; `TimerExpired` and `InvalidHandled`
are `_timeout_mechanism` called by the timer and by `call_soon`; `ConnectionLost` is `connection_lost`.
`PollReadable`, `PollTimer`, `PollEnds` are one iteration of `BaseEventLoop._run_once`.

Abstractions, and why they lose nothing the properties tell apart:

* A datagram is a kind (answer, first or second fragment, exception response, garbage, ICMP refused)
  and the command it answers. `Shape` is the register count, the only thing
  `validate_modbus_rtu_response` compares of a read answer. Datagrams of different kinds have
  different lengths, so a second fragment completes a first one of the same shape and nothing else does.
* What one request triggers is chosen when it is sent (`Reactions`), and a datagram arrives at any later
  poll, in any order, or after the socket was replaced, when it is lost.
* All timers have the same delay: they fall due in the order they were armed, at any poll.
* Closing a transport schedules `connection_lost` by `call_soon`, as asyncio does.
* A retry is a nested call: `frames` counts them and `MaxFrames` is the interpreter's recursion limit.
  The clean-up of the outer frames repeats what the innermost has done and changes nothing.

Bounds that are not the program's: `MaxCalls` (calls per caller) and `MaxTimers` (handles known at one
time; `ArmTimer` needs a free one; 8 are never used up in the runs).

Assumed: one event loop (`_ensure_lock` always answers the same lock), an address that needs no name
lookup, tasks that are not cancelled from outside, one datagram read per poll, and asyncio as in
CPython 3.8-3.12 (`Lock.acquire` queues behind woken waiters).

### How `TcpProtocol` differs

The variables are those of `UdpProtocol`, with `stream` for `net`: the segments still to be read, in order, the end of the stream or
a reset last. `transport` is `closing` between a reset and its `connection_lost`, when `write` drops its data.

* `Connect` is `asyncio.wait_for(self._connect(), 5)`. CPython 3.12 runs the awaitable in the caller's task (`Inline`); earlier
  versions make a task of it, which takes turns of the loop even on an open connection (`probing`, `connected`).
  `ConnectEnds` is a connection made, refused, or not made within 5 s; the last two are `failed` and go straight to a retry, without
  `_close_transport` (`protocol.py:342`).
* `Close`, `WakeClosing`: `close()` takes the lock, behind the requests that wait for it, after the request's own
  `finally` has released it; it closes the connection and then releases, so that `connection_lost` is queued before the next waiter's wake-up.
* `SendBroken`: the connection is lost after `_connect`, `self._transport` is `None`, and `AttributeError` leaves
  `send_request` past both `except` clauses; its future stays pending (`Stranded`) until a later exception of a callback ends it.
* `Completes`: Modbus/TCP has no checksum, so that a piece of the missing length completes another one whatever it held.
* `ReceiveEof`, `ReceiveReset`, `ReceivePartial`, `ReceiveReject`, `ReceiveInvalid`, `ReceiveAnswer`: `eof_received`,
  `connection_lost` and the branches of `data_received`. `error_received` is never called for a stream and is left out.

### The algorithms

* A Modbus frame is its bytes and the length at which a checksum is right (`sealed`, 0 if none is): what the CRC computes is abstracted,
  where the validators look for it is not. AA55's sum is computed. A verdict is `Good`, `Bad`, `Partial(missing)` or `Rejected(code)`,
  and each validator compares in the order of the code, which decides what a wrong frame is taken for.
* A value of one register is an integer, a wider one the sequence of its words, counted in the unit of the register: the reader's division
  by 10 or 100 loses nothing, since two registers never give the same float. The writer's `int(float(value) * scale)` does: `Truncated` computes, in integers, when
  the rounded product of the nearest float with the scale falls short of the number that was read. `Kinds` tells the numeric sensors by width, sign, the reading of all-ones registers and
  the scale of those that are written (`Writable`). An encoder answers `Value(...)` or the exception it raises.
* `TimeOfUse` is both views of the same registers, `tou_helpers.py` and the sensors of `sensor.py`. Names of days and months are numbers.
* A schedule group is the record of the fields its reader takes from the bytes; types, scales and the complement
  of `on_off` are those of `ScheduleType`.
* A sensor in `RegisterTables` is its first register and how many it takes. Calculated sensors have no registers of their own. A switch is told from
  a number at the same register (`Switch`). The ES family addresses bytes.
* `Codecs` has one variable, `input`, and one action per algorithm that chooses its arguments. Its properties compare what
  the algorithm answers with its inverse, with a reference, or with the neighbour that reads the same register.

### Operation modes

A call is the sequence of its requests (`SetScript`, `EtReal`, `EsReal`, `GetScript`), which the code fixes when it begins,
but for what the reading of the first group or of the work mode makes of it (`After`). `Answered`, `Unanswered`, `Refused` and `GivenUp` are the
outcomes of one request: carried out and answered; carried out with the answer lost, after which the protocol repeats it, any number of
times and with other callers in between; rejected; given up after the retries. `SwitchOff(n)` is one step of the script but two requests, since
`_write_setting` of a one-byte setting reads its register first (`held`). Of the inverter, the work mode, the off-grid flag, the first group and the other groups'
switches and days are kept; registers that nothing reads back are written and forgotten. `seen`, `others` and `overtaken` are history
variables and read by no action's guard.

### Capabilities

`flags` is the set of `_has_...` attributes that are true, `narrowed` the filters `_sensors_meter` went through, `settings` the features
whose settings were added. `ReadVersion`, `ProbeFeature` and `ReadUnits` are the requests of `read_device_info`. `call[c].next` is the block
a reading awaits; `Answered`, `Refused` (`ILLEGAL_DATA_ADDRESS`) and `Lost` (anything else) do what follows in the code until the next
`await`: flags, tables, and the choice of the next block by the flags of that moment. The predicates on the model's name and the rated power are the choice
of an inverter in `Init`. `refused`, `known` and `alone` are history.

### Settings

`known` is the set of keys of `_settings`, `slave` whether `_parallel_topology` is that of a slave, `call[c].todo` what a reading has still to
ask for, of the list `settings()` gave it when it began. The list is kept as a set, read in the order of the table, and its first element (`Current`) is the
setting a request has been sent for; `Answered`, `Refused`
(`ILLEGAL_DATA_ADDRESS`), `Rejected` (any other rejection) and `GivenUp` are the outcomes of that request, each with what the code does until it awaits the next
one: an exception ends a single `read_setting`, and in `read_settings_data` it is caught or not (`Caught`), by family. `contents` says whether the
register of a setting makes its reader raise `ValueError` (a schedule group or a timestamp that cannot be decoded) or `TypeError` (a time-of-use register
of all ones). `DeviceInfoRead` is a request of a `read_device_info` running beside the readings: the part of it that adds settings or changes the
topology. The ES family reads all its settings by one request and is left out. `refused` and `snags` are history.

### Discovery

`asked` holds the arguments of `connect`, `device` what is at the host: which families' requests it answers, the Modbus address it has, what its serial number
says, whether its answer to the probe is ASCII. A device hears an ET, DT or HCA object only if its address is the object's; the probe and the requests of an ES object bear none (`Reached`).
A step is `read_device_info` or `read_runtime_data` of a family as a whole: answered, failed with an `InverterError` (`Failed`), or ended by another exception, which nothing catches (`Broken`).
`protocol` is what the constructor of the protocol object was given. Each place that makes one is an operator of its own, with the arguments in the order in which they stand there: `ForFamily`
in `connect`, `ForTag`, `ForTrial` and `ForProbe` in `discover`, `ForSearch`; `Object` has the defaults of the families' constructors. `lost` is history: the families whose own object was not
answered though the device heard it.
In `failures`, `"none"` is the failure of the probe or of the family it named. `DiscoverSlaves` is all of `discover_parallel_slaves` that can be
reached: it ends in an exception whatever the master answers.

## 4. Runs

| run | instance | shows |
|---|---|---|
| `closing` | UDP, 2 callers, 2 commands of one shape, 1 retry, no keep_alive, `Faulty` reactions, sends may fail, fairness | `MutualExclusion`, `NoLostWakeup`, `FutureBelongsToWaiter`, `NobodyHangs`, `WaitsOnOpenTransport`, `AnswersOwnCommand`, `NothingLeftBehind`, `LateLossIsHarmless`, `ImplementsService` |
| `keep_alive` | UDP with the history of `UdpTimers`, 2 callers, 3 commands of two shapes, 1 retry, keep_alive, `Late` reactions | `AnswersSameShape`, `TimersAccounted`, `FutureNeverReplaced` |
| `single` | UDP, 1 caller, 2 calls, 2 retries, 5 frames, `Reachable` reactions | `AttemptsBounded` |
| `tcp_service` | TCP, 2 callers, 2 commands of two shapes, 1 retry, no keep_alive, `_connect` in its own task, `Faulty` reactions, fairness | `TypeOK`, `NothingLeftBehind`, `LateLossIsHarmless`, `CallsReturn`, `ImplementsService` |
| `codecs` | boundary values | `AnswersToldApart`, `RejectionsAreTheInverters`, `PiecesAddUp`, `Aa55FramesAgree`, `NumbersReadBack`, `TimeOfUseReadsBack`, `WideValuesRead`, `GroupsReadBack`, `TablesAgree` |
| `modes` | 2 callers, 3 calls, ET, ES with ARM 7 and ES with V2 groups | `NeverThirdMode`, `SuccessfulChangeHolds`, `AnswersAModeInForce`, `DaysKept` |
| `capabilities` | 2 callers, 3 readings, inverters with everything, nothing, all but one block, or only battery and basic meter | `MeterSensorsInsideBlock`, `KeptUnlessRefused`, `NotAskedAgain`, `ListedSensorsDelivered` |
| `settings` | 2 callers, 3 calls, 3 settings: a timestamp, a time-of-use register a slave cannot access, one that comes and goes; ET, DT, HCA | `SettingsKeptUnlessRefused`, `ReadingFailsForCause`, `FailureForgetsASetting` |
| `discovery` | every device at every address and every choice of arguments, with an address given or not, and two numbers of retries | `FoundWhereItIs`, `TakenByTrial` |
| `retry_budget` | UDP, 1 caller, 2 calls, silence | violates `RetriesGranted` |
| `endless_retries` | UDP, 1 caller, two invalid datagrams per request | violates `AttemptsBounded` |
| `wrong_answer` | UDP, 1 caller, keep_alive, each answer twice | violates `AnswersOwnCommand` |

The strengthenings the proofs need (`TypeOK`, `LockInv`, `LinkInv`, `AnswerInv`, `TimerInv`, `RetryInv` of `UdpProperties`, the same of `TcpService`, `TypeOK`, `FamilyInv` and `CallInv` of
`SettingsData`, `DaysInv` of `OperationModes`, and what the proof modules state) are in no run unless the table names them: they are proved (section 6).

Why the bounds suffice.

* *Protocols.* Two callers are enough for every pairwise interference, because only the holder of the
  lock and what earlier holders left in the loop take part; that the lock, the wake-ups and the answers work for any number is proved. One retry and two frames contain a
  retry, a retry by a caller whose counter another one reset, and the end by `MaxRetriesReached` and by `RecursionLimit`. One request
  triggers at most two datagrams (or segments), which gives duplicates, fragments and late arrivals of one command during another. `single` excludes
  doubled invalid datagrams, since those are what `endless_retries` shows to break `AttemptsBounded`, and ICMP errors, since
  `error_received` leaves the timer running, which then ends a later request early: the property holds only without them. It also
  has one caller and no pairs of fragments: a shared `_retry`, and a fragment that arrives out of order and arms the timer again, are outside it.
  Within these conditions (`Orderly`) `AttemptsBounded` is proved for every number of retries, calls and commands. `MaxTimers = 8`
  handles are never used up. `keep_alive` has the ICMP errors that leave a timer behind, and one socket for both callers, so that such a timer reaches the
  requests of another. `tcp_service` gives the two commands different shapes, because commands of one shape take each other's answers over TCP
  even without keep_alive's help as in `wrong_answer`; `RequestService` is told so by `Accepts`. `Inline` is false in it: a `_connect` in
  a task of its own takes more turns of the loop and leaves room for more interleavings.
* *Codecs.* Every function distinguishes a few ranges: signs, bytes, all ones, the end of a range. The inputs are the borders of each
  and their neighbours, in every word of wide values, every one of the 65536 registers read and written back as each kind that can be written, single writes of values beyond a register (-65535, 65537) among them; the months and days are all subsets, powers all percentages, tables and
  settings all that the families have. Commands are reads of different lengths and two addresses, writes of values that collide with them. Section 6 proves the
  properties for all inputs of `FramesAssumption` and `ValuesAssumption`: reads of up to 127 registers and writes of up to 255 bytes, since both lengths
  are one byte of a frame; single writes of any integer; any payload whose length fits its byte; types of AA55 answers whose sign bit is clear, as all
  in `es.py` are; powers and states of charge that are percentages, since `set_operation_mode` refuses others. The tables have no constants, and the run covers all of them.
* *Modes.* Three calls are a change between two readings, two changes and a reading, or a change overlapped by two others. One of
  each kind of mode is asked for: real, off-grid, eco and emulated; two sets of days tell kept from lost ones. `ES` without ARM 7 or V2 differs from
  them in registers nothing reads back. `others` counts overlapping writers; properties that need an undisturbed call say so.
* *Settings.* A reading of all settings beside another one, or beside a single setting, and one after them: each setting can be lost, refused, undecodable,
  barred or removed before, while and after it is asked for. Three settings are one before, one at and one after the point where a reading stands, and each differs
  from the others in what can happen to it.
* *Discovery.* Nothing but the values of addresses and limits is bounded: they differ from each other and, the address given, from
  the defaults, and a device can be at each of them.
* *Capabilities.* Two readings beside each other and one after them: a reading that starts before, during and after the refusal
  of any block. Every block is missing in some inverter, and all optional ones in another.

Deadlock is checked for the protocols, where `AllReturned` is the only way to stop. It is not for `codecs`, `modes`, `capabilities`, `settings` and `discovery`, which stop when their
input is chosen, their call has ended or their calls are used up.

**Mutants.** Beside the handlers, the modules define altered versions of them (a dropped guard, a timer that is not
cancelled, a lock that is not released, an off-by-one, a swapped order), marked as mutants and part of no specification; `PROJECT.json` names
for every property of a passing run the one that violates it.

**Fairness.** `FairSpec` of both protocols is `WF_vars(Loop)`: the event loop goes on as long as a coroutine can proceed, a callback
is queued, a timer is armed, or a connection is being made. asyncio justifies it: `run_forever` never sleeps while `_ready` is not empty,
the selector returns at the latest when the first handle is due, and `wait_for` ends a connection attempt after 5 s. Nothing is assumed of
the network or of the applications (`Call` has no fairness), and nothing that one coroutine is preferred to another. Every call ends in a
bounded number of attempts because of the recursion limit, even where `_retry` is reset. The other specifications state no fairness and are asked
for safety only: that their requests end is what the protocols promise.

## 5. Disagreements with the documentation

1. `retry_budget`: `_max_retries_reached` leaves `_retry` at its maximum, so the next command is not retried at all. The docstring of
   `connect` (`__init__.py:54-55`): "when no (valid) response is received by the specified timeout, it is considered lost and the
   command will be re-tried up to retries times."
2. `endless_retries`: two invalid datagrams per request queue `_timeout_mechanism` twice; the second finds the future done and
   resets `_retry`, so the command is retried until `RecursionError` (same sentence).
3. `wrong_answer`: with keep_alive a late duplicate is accepted for another command of the same length; `inverter.py:157` promises
   the "value of specific inverter sensor".

Smaller observations, which the properties state as exceptions or the models keep as they are:

* `error_received` does not cancel the timer, which may end a later request on a kept socket; and on a future that is done it raises
  before it closes the transport (`protocol.py:172-178`).
* The late answer to a command of another kind with the same numbers is taken for a rejection (`RejectionsAreTheInverters`). The echo of a
  single write is read as a signed number of 16 bits: the right echo of a value of 0x8000 and more, given as an unsigned number, is refused, and so is that of a value
  wider than a register, which the request has cut to its low 16 bits; the echo of such a write is accepted for that of the cut value (`AnswersToldApart`).
* A register with its sign bit set cannot be written over AA55, the text of the request having a minus sign; an answer whose bytes add up to 0x8000 or more is
  refused (`Aa55FramesAgree`; the run has answers on both sides of that sum).
* `power_factor` (`et.py:512`) is written as `int(float(value) * 100)`: 0.57 is written as 56 and 0.29 as 28. Of all registers 4586 come out one hundredth nearer to zero
  when they are written back, and may do so again at the next time; no tenth is ever lost (`NumbersReadBack`).
* `peak_shaving_enabled` (`et.py:729`) writes the whole register of `tou_slot8_work_week` (`et.py:752`) and clears the days of slot 8
  (`OnlySwitchesShareRegisters`, `SwitchAgreesWithWorkWeek`).
* `grid_in_out` (`et.py:72`) reads two bytes at the address of the four-byte `active_power`, its high half, and is 0 for every power a house
  has; `tests/test_et.py:556-558` has -164 W with "Importing". `EnumBitmap22` (`sensor.py:548`) computes `high << 16 + low`, which is
  `high << (16 + low)` (`WideValuesRead`).
* Four tables of the ET family reach beyond the block read for them (`OnlyKnownSensorsOutside`); a slot's register of 0xFFFF
  raises `TypeError` instead of being reported as unset (`SwitchAgreesWithWorkWeek`).
* `set_operation_mode` of the ES family accepts `SELF_USE` and sends nothing; with V2 groups a first group of type `NOT_SET` cannot be replaced by
  an emulated mode. `ECO` keeps the first group, so that after `ECO_CHARGE` it still charges (`NeverThirdMode`).
* Two callers that change a group and switch it off at the same time lose the days of one (`DaysKept`).
* A time-of-use register of all ones makes `TimeOfDay`, `WorkWeekV2` and `MonthMask` raise `TypeError`, which `read_settings_data` of the ET family does not
  catch (`et.py:1280`): all settings are lost with it (`ReadingFailsForCause`).
* A reading of all settings fails, too, when the inverter is found to be a slave meanwhile, when a charger rejects anything, and with the DT family when anything at all
  goes wrong (`ReadingFailsForCause`); with DT each refused register is struck off first, so that the reading succeeds after as many attempts
  (`FailureForgetsASetting`).
* `discover` makes the probe's protocol object by `UdpInverterProtocol(host, port, timeout, retries)` (`__init__.py:89`), where `timeout` takes the place of the
  address and `retries` that of the timeout; `search_inverters` (line 153) does the same with 1 and 0, so that its broadcast is repeated three times
  without waiting for an answer (`ForProbe`, `ForSearch`). A charger that `discover` recognises is made with the address 0, which the other families replace by their default and `HCA` does not
  (`ForTag`). A probe's answer that is not ASCII ends `discover` with `UnicodeDecodeError`, before any family is tried (`ProbeAnswered`).
* The docstring of `connect` says that the "communication address may be explicitly passed" (`__init__.py:51`). Without a family it is dropped, since `discover` has no such parameter
  (`__init__.py:68`): an inverter at another address than its family's usual one is not found (`Where` in `FoundWhereItIs`).
* `discover_parallel_slaves` passes the response object to `int.from_bytes` (`et.py:1498`) and fails on every answer (`DiscoverSlaves`).
* `_has_peak_shaving` is not set again by a later `read_device_info` that finds it, while the flags of the extended meter, the MPPT block and the second battery are (`et.py:959-969`), so that blocks refused
  before are asked for once more: `Capabilities` has one `read_device_info`, and `NotAskedAgain` is about the readings after it; one lost answer costs a DT inverter its meter.
* The docstrings of `tou_helpers.py` (71-76, 106-110) give example values that the functions do not compute.

## 6. Proofs

Each theorem holds for every value of the constants that satisfies the named assumptions of its module, and rests on them alone. The table names the
theorems that state a run's property, or the safety of the abstract service.

| module | assumption | theorems |
|---|---|---|
| `UdpProofs` | `ConstantsAssumption`: any callers, commands, shapes, reactions, retries, frames, timers; with or without keep_alive | `LockIsExclusive` (`MutualExclusion`), `WakeupsArrive` (`NoLostWakeup`), `FuturesAreAwaited` (`FutureBelongsToWaiter`), `FuturesNotReplaced` (`FutureNeverReplaced`), `WaitsAreEnded` (`NobodyHangs`), `RequestsUseOpenSockets` (`WaitsOnOpenTransport`), `CallsLeaveNothing` (`NothingLeftBehind`), `AnswersHaveTheShape` (`AnswersSameShape`), `AnswersAreOwn` (`AnswersOwnCommand`), `LateLossFindsNothing` (`LateLossIsHarmless`), `TimersAreAccounted` (`TimersAccounted`), `TimersFireForTheirOwn`, `ServiceSafety` (`Spec => Service!Safety`); `TypeCorrect`, `LockInvariant`, `ExchangeInvariance` |
| `UdpProofs` | the same and `Orderly`: a socket per attempt, no failing sends, no ICMP errors or second fragments, an invalid answer comes alone; a single caller | `AttemptsAreBounded` (`AttemptsBounded`) |
| `TcpProofs` | `TcpConstants`: the same, and `_connect` inline or in a task | `TcpTypeCorrect` (`TypeOK`), `LockIsExclusive`, `WaitsAreEnded`, `CallsLeaveNothing` (`NothingLeftBehind`), `LateLossFindsNothing` (`LateLossIsHarmless`), `ServiceSafety` |
| `CapabilitiesProofs` | `CallsAssumption`, `FeaturesAssumption`: any callers, inverters, number of readings, any of the four probed features in any order | `MeterSensorsFit` (`MeterSensorsInsideBlock`), `FeaturesAreKept` (`KeptUnlessRefused`), `RefusalsAreRemembered` (`NotAskedAgain`), `ReadingsDeliver` (`ListedSensorsDelivered`) |
| `SettingsProofs` | `SettingsAssumption`: any callers, table of settings without a repetition, number of calls | `SettingsAreKept` (`SettingsKeptUnlessRefused`), `ReadingsFailForCause` (`ReadingFailsForCause`), `FailuresForgetASetting` (`FailureForgetsASetting`) |
| `DiscoveryProofs` | none: any addresses, timeouts, retry counts | `DevicesAreFound` (`FoundWhereItIs`), `TrialsAreInOrder` (`TakenByTrial`) |
| `ModesProofs` | `WritesAssumption`, `CallsAssumption`, `ModesAssumption`, `DaysAssumption`: any callers, inverters, modes asked for, days, number of calls | `ChangesHold` (`SuccessfulChangeHolds`), `NoThirdMode` (`NeverThirdMode`), `ModesAnswered` (`AnswersAModeInForce`), `DaysAreKept` (`DaysKept`); `DaysInvHolds`, `ModesInvariance` |
| `CodecsProofs` | `FramesAssumption`, `ValuesAssumption`: any commands that can be built, bytes, payloads, integers, registers, percentages | `AnswersAreToldApart` (`AnswersToldApart`), `RejectionsAreAuthentic` (`RejectionsAreTheInverters`), `PiecesAlwaysAddUp` (`PiecesAddUp`), `FramesOfEsAgree` (`Aa55FramesAgree`), `NumbersAreReadBack` (`NumbersReadBack`), `TimeOfUseIsReadBack` (`TimeOfUseReadsBack`), `WideValuesAreRead` (`WideValuesRead`), `GroupsAreReadBack` (`GroupsReadBack`); `InputsAreTheActions` |

**The UDP lock** (`UdpProofs`). `MutualExclusion` alone is not inductive: after a release the lock is free while a waiter is already on
its way. `LockInv` adds that the lock's queue holds exactly the waiting coroutines, each once (`WaitersWait`); that only the
head of the queue of a free lock is ever woken (`WokenIsHead`); that a coroutine has at most one pending reason to be
stepped, none while its future is pending or its endpoint is not made (`WakeOnce`); that a free lock with waiters
has woken one (`NoLostWakeup`); that a pending future is the owner's (`FutureBelongsToWaiter`); and that the loop polls again (`LoopPolls`).
Most handlers only append callbacks that step nobody, or step the owner of the future they complete: `LockUntouched`, `OwnerWoken` and
`LockReleased` prove the invariant once for each of these patterns, and one lemma per action (`LockStep...`) names its pattern.
`TypeStep...` do the same for `TypeOK`, which needs the other half: the head of the waiters is a caller. `QueueFacts` holds facts about
occurrences in sequences (`TailFacts`, `ConcatFacts`, `PushFacts`) that the library does not state.

**A UDP exchange** (`UdpProofs`), on top of `LockInv`. That a request is sent on an open socket, and that a late `connection_lost` hits no later one, is an
argument on the order of the loop's queue: every `connection_lost` in it comes before the `connection_made` of a newer endpoint, and an open transport waits for neither (`InOrder`);
who is opening an endpoint has one to come or a fresh one (`EndpointArrives`); without keep_alive a socket is open only for a coroutine in its
exchange (`SocketIsUsed`). `LinkInv` joins them. `NobodyHangs` covers every suspension of `send_request`: for the
lock somebody holds it or its first waiter is woken, for the endpoint `connection_made` or the wake-up is queued, for the answer the timer was armed in the step that sent the request; it follows from both. Answers need a history of the
socket: without keep_alive it holds datagrams of the current command only (`FreshSocket`), a future's answer fits its caller's command from its arrival on
(`AnswersFit`), with `Acceptable` saying how far keep_alive weakens "own" to "of the same shape".

**Stray timers** (`UdpProofs`). Four events make the code let go of a handle that is armed: an ICMP error, a send that fails, a late first fragment, an invalid answer to a request whose timer is armed (`Disturbs`). `TimersAccounted` says that
nothing else does: however calls end, retry and overtake each other, no more handles are astray than there were such events. It is inductive with `LinkInv` and the bound on a set's size: a stray that ends a later
request leaves that request's own timer astray, one for one. That a timer fires only for the request that armed it as long as nothing has disturbed them (`TimersFireForTheirOwn`) is the case of none.

**Timers and attempts** (`UdpProofs`), on top of the exchange. A timer may end another request than its own as soon as something ends a wait without cancelling it, and the count of attempts is wrong as
soon as something else than an answer resets it. `TimerInv` says when neither happens: a wait is ended by the one timer the request armed, or by the one invalid answer it got, and neither is left when the wait is
over (`OneEnding`); an invalid datagram has the socket to itself (`GarbageAlone`); the selector reads before it looks at the timers, and a coroutine whose wait has ended is stepped before the next read
(`ReadInTurn`), so that a datagram is read only for a request still in flight. `RetryInv` follows the count: until a call is answered it has made no more attempts than `_retry` says, plus one. The conditions cannot be dropped:
an ICMP error leaves the timer behind, a doubled invalid answer resets the count (`endless_retries`), a second fragment out of order arms the timer again, on a kept socket datagrams of the last request arrive during the
next. And `_retry` is one for all callers, so that the bound is one caller's alone.

**Refinement.** `ServiceSafety` shows for both protocols that the initial states map to the initial state of `RequestService` and every step to a `Submit`,
`Dispatch`, `Requeue` or `Complete` of one coroutine, or to a stutter. A step maps to `Dispatch` only if nobody is active, which is `MutualExclusion`, and to `Complete` with an
answer only if the service accepts it, which is `AnswersFit`; so the refinement rests on the invariants and not the other way round.

**TCP** (`TcpProofs`). `close()` queues for the same lock, a connection is opened over several turns of the loop, and the stream delivers in order: types, lock, connection and wake-ups
are inductive only together (`IInv`), since the segment a reader takes exists because the loop queues `Read` only for data that is there (`OpenIsUsable`). `InOrder` puts `Lost` and `Read` of the last connection
before `Opened` of the next. `NobodyHangs` covers the waits for the lock (a request's or a `close()`'s), for the task of the connection and for the answer; the attempt to connect itself is ended by `wait_for`, which is outside
the safety part and left to `CallsReturn`. That nothing is left behind needs that somebody's call is still under way as long as the connection is open (`WillBeClosed`): the last `close()` may be another caller's.

**Readings that overtake each other** (`CapabilitiesProofs`). A flag dropped by one reading changes what another asks for next. `RefusedInv` says that what was refused is flagged no more, nor any larger block of the
meter than it; `WantsInv` that a smaller block of the meter is under way only when the larger ones are given up; `KeptInv` that each extension of the meter is flagged or filtered out. So the
block a reading asks for and the table it will fill agree although both change under it, and a reading never falls back to a block refused before it began. `Delivered` says, of every reading
under way, that the tables listed up to its block have been filled, and is carried over each step to the next block, which skips none that is flagged (`FollowingFacts`). `MeterFits` is about the real
table of the family, register by register, not about an instance of it.

**Settings** (`SettingsProofs`). What the object has lost of a reading's list since it was made was not there, and the inverter was no slave when the list was made or has been found to be one since (`CallInv`): this
makes the list, stale by the end, still tell why the reading failed.

**Discovery** (`DiscoveryProofs`). `StepInv` says what each step of the call knows of the failures noted before it: how many families were tried, that they are the first ones of the order, and that
a device whose serial number shows its family is on trial only after the probe or that family failed. `PlaceInv` adds that each object is made for the place where its family is looked for, and that every family tried before was not there or
lost a request (`Missed`); when the trials are over, that is all of them, and the error is right.

**Modes** (`ModesProofs`). `DaysKept` needs to know that a caller which is about to write a switch holds what it read from that same switch, and that any change of the days since shows in
`overtaken`: `HeldOrOvertaken`, which is inductive together with the types (`DaysInv`). The types need that every script is a sequence of
requests (`EtScripts`, `EsScripts`, `SetScripts`) and stays one when its head is done.

The other three rest on `ModesInv`. A script plans nothing but what its mode requires, and writes no first group after the work mode (`Plan`); of each register the mode requires something
of, the call still has the write before it or the register already has the value (`Owes`). `SetPlan` shows both for every script of both families, `RepeatOwes` and `AnswerOwes` that a
request carried out, once more or at last, keeps them. A call that succeeds has no request left, so it owes nothing: `SuccessfulChangeHolds`. `OwnMode` says that a request of the change leaves the mode in
force or makes one that is asked for, the first group being written before the work mode: `NeverThirdMode`. That nobody overlapped is what the history `others` counts (`OthersInv`, over finite sets of writers): zero
means that every other caller only reads. `AnswersAModeInForce` is the delicate one, since between its two readings another call may change both registers: as long as the answer can still be ECO, the inverter is in ECO,
or the one writer has changed the work mode, which it never does before the first group, and the reading has seen what the first group makes of ECO (`EcoOrSeen`); a second writer breaks it.
`Outcome` gathers what the four outcomes of a request have in common, so that each of these steps is proved once.

**Codecs** (`CodecsProofs`). Their inductive invariant, `InputInv`, says only that an input is one its action chooses; the work is in lemmas on the algorithms. A register has 65536 values, which no prover enumerates: `WordIs`,
`HalvesOfWord`, `TwelveDigits` and `BitsAre` reduce words to halves and binary digits, and what is a function of months or days to facts about each digit. Masks and checksums are sums by fold: `SumsExist` and `SumsAgree` show that there
is one function on the subsets of a finite set that adds up its elements, by a smallest counterexample among the subsets (`LeastSubset`), since the induction theorems of the library are out of reach. Frames are compared byte by
byte (`SameSeq`), and the validators' verdict is first proved of any frame with given bytes at the places they look at (`ReadVerdicts`, `EchoVerdicts`, `FailureVerdicts`), then those bytes are found in each answer (`RtuFrame`,
`TcpFrame`); a piece has the same bytes as far as it goes (`HeadsArePieces`). `AnswersToldApart` and `RejectionsAreTheInverters` are two readings of one table of verdicts (`AnswersJudged`).

Only model-checked:

* the liveness of `CallsReturn` and of `ImplementsService` in both protocols, since no installed prover does fairness or `ENABLED`; the safety part is proved;
* `TablesAgree`, which has no constants: the run enumerates every table and setting, so that nothing is left to prove.

`AttemptsBounded` with several callers and outside `Orderly` is neither: `endless_retries` refutes it in general.

## 7. Not modelled

* *Protocols*: cancellation of a caller's task (it can reach every `await`, and each would need a second way out), a second event loop
  (`_ensure_lock`: two loops are two threads, which nothing else in the library is made for), name lookup, keepalive options of the TCP socket. The transaction counter is
  a parameter of the request, since no validator reads it.
* *Inverter base*: the count of consecutive failures, which only the exception that carries it reads; the classes of exceptions beyond rejected and failed.
* *ET, DT, ES*: identity fields and firmware numbers, the filters by model name other than those that narrow the meter's sensors, the scan of addresses in `discover_parallel_slaves`, which is never reached,
  `_sensors_map`, and the single-request operations (export limit, battery discharge depth, clock).
* *HCA*: its modes and schedules are single registers, about which the code itself promises nothing; its clock, three registers read and written by
  three requests while the charger's clock goes on (`hca.py:514`).
* *Sensors*: `Float`, `Timestamp`, enumerations (lookups in `const.py`), calculated sensors, text. Logging, formatting and `__repr__` have no part in any property.
* *Models, constants, exceptions*: tables; the predicates of `model.py` are choices in `Capabilities`.
