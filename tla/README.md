# Verification of Com_Lib

Com_Lib is a C++ communication library: five transports (TCP, UDP, serial,
SocketCAN, PCAN) behind one interface, `comm::ICommunication`, and a set of
safety mechanisms (sequence numbers, watchdog, failsafe state machine,
redundancy, CRC). This directory models its concurrent core in TLA+,
model-checks it with TLC and proves the main results with TLAPS.

To check one run: `tlc -config TcpSingle.cfg MCTcp`. To check the proofs:
`tlapm TcpProofs.tla`, and so on for the other `...Proofs` modules.

## 1. The system

| Component | State it keeps | Operations | What makes it correct |
|---|---|---|---|
| TCP (`src/src/ethernet/tcp.cpp`) | `handle_` (role, connected and listening descriptor), `config_`, `running_`, `receiveThread_`, callbacks, `healthy_` | open, close, configure, destructor, setReceiveCallback, send, receive, re-connection, receive loop | one receive loop, joined by close; every descriptor closed exactly once; a failure drops the connection that failed; a lost connection comes back |
| UDP (`src/src/ethernet/udp.cpp`) | the same without a listening socket, and `healthMonitorRunning_`, `healthThread_`, `lastActivity_` | as TCP, and a monitor thread that closes and re-opens the socket | both threads joined by close; a re-bind keeps the receive loop; an unhealthy transport is re-bound |
| Serial (`serial_port.cpp`) | `fileDescriptor_`, receive loop | as UDP without monitor | no call waits for itself; one receive loop |
| SocketCAN (`socketcan.cpp`) | `socket_`, filters, receive loop | as serial, and readFrame, writeFrame | as serial |
| PCAN (`pcan_basic.cpp`) | `initialized_`, channel, receive loop, safety members | initialize, uninitialize, recovery after bus errors, send, receive, safety calls | a channel is initialised once; bounded recovery; recovery and close exclude each other |
| Sequence numbers (`safety.hpp` 178-297) | `counter_`; `expectedSequence_`, statistics | next; validate, reset | loss and duplication are reported, correct traffic is not |
| Watchdog (`safety.hpp` 300-) | state, time of the last feed | feed, check, reset, setTimeout | silence is noticed |
| FailsafeManager (`safety.hpp` 501-629) | `state_`, `faultCount_`, callback | reportFault, transitionTo, clearFaults, reset | severity follows the faults, one level at a time |
| SafetyMixin (`safety_mixin.hpp`) | the three above and `consecutiveErrors_` | recordSuccess, recordFailure, checkWatchdog, validateSequence, resets | persistent failure escalates, sustained success recovers |
| RedundancyManager, BoundedValue, CRC-32, frame header (`safety.hpp`) | active channel, failure counts; pure data | select, report; compute, verify | a healthy channel is chosen |
| DO-178C utilities (`do178c.hpp`) | counters, fixed buffers | bounded loops, safe arithmetic, copies | no overflow, no overrun |

Interaction. The application's threads call a transport; the transport's own
threads (a receive thread, in UDP also a health monitor) call back into it:
the receive loop calls `receive()`, its callback is application code that may
call `send()`, and the UDP monitor calls `open()`. Shared state is protected by
`mutex_`, which is released before every blocking call, and by two or three
atomics (`running_`, `healthMonitorRunning_`, `healthy_`); the `std::thread`
members are protected by nothing. The kernel is the last actor: it hands out
descriptor numbers, re-uses closed ones, and connections break at any time.

What is hard: the window between the compare-and-swap on an atomic and the use
of the thread member; descriptors used after the lock is released; two threads
that re-connect at once; a monitor that re-opens what another thread closes;
recoveries done in two critical sections; and the wrap-around of sequence
numbers. `PROJECT.json` lists these hazards line by line, with the properties
that cover them.

## 2. Modules

| Module | Models |
|---|---|
| `TransportContract` | what `ICommunication` promises about the life of any transport |
| `Tcp` | the TCP transport and its threads, with the kernel's descriptors |
| `MCTcp` | instances of `Tcp` for TLC |
| `TcpProofs` | the theorems about `Tcp` |
| `Udp`, `MCUdp` | the UDP transport, its receive thread and health monitor |
| `UdpProofs` | the theorems about `Udp` |
| `Pcan`, `MCPcan` | the PCAN transport, its receive thread, bounded recovery and assertions |
| `PcanProofs` | the theorems about `Pcan` |
| `SocketCan`, `MCSocketCan` | the SocketCAN transport and its receive thread, with descriptors and time-outs |
| `SocketCanProofs` | the theorems about `SocketCan` |
| `Serial`, `SerialProofs` | the serial transport with `mutex_` as an explicit lock, and how far it gets |
| `Sequence` | generator, validator and the link between them |
| `SequenceProofs` | the theorems about `Sequence` |
| `Safety` | consecutive errors, watchdog and failsafe manager, called by several threads |
| `SafetyProofs` | the theorems about `Safety` |
| `Crc` | the checksum functions and a channel that damages frames |
| `BoundedSequence` | what a buffer of fixed capacity promises |
| `FixedBuffer` | `do178c::FixedBuffer`, which implements `BoundedSequence` |
| `SafeMath` | the overflow-checked arithmetic |
| `UtilityProofs` | the theorems about `Crc`, `FixedBuffer` and `SafeMath` |
| `MCAlgorithms` | one instance of these three and of `Sequence` for TLC |

### Tcp

A step is one critical section of `mutex_`, one operation on an atomic, or one
blocking system call, so `mutex_` is implicit and every place where the code
gives it up is a point where other threads run. `pc[t]` is the place of thread
`t`, `op[t]` the call it is in; `sock[t]`, `lsn[t]` and `asServer[t]` are the
locals that live across an unlock (the descriptor, `listenSocket`, the role in
`configSnapshot`). `fd` is the kernel's view of each descriptor, and a closed
number may be handed out again. `stale[t]` is a history variable: the
descriptor `t` holds was closed by another thread.

- `open()` is `CallOpen`, then `OpenAlready`, `OpenFails` or `OpenSucceeds`
  (one critical section), then `StartCheck`, `StartCas`, `Spawn`
  (`startReceiveLoop`).
- `close()` is `CallClose`, then `StopCas`, `CloseActiveSocket`, `Join`
  (`stopReceiveLoop`), then `ResetHandle`. `configure()` is `CallConfigure`, a
  close and an open, or only a stop or a start. The destructor adds
  `DestructorJoin`.
- `setReceiveCallback()` is `CallSetReceiveCallback` and `CheckLaunch`.
- `send()` and `receive()` are `CallSend`, `CallReceive`, then `EnsureConnected`
  with its two ways to a new connection (`CheckReconnect`, `Connect...`,
  `Accept...`, `InstallRefused`, `Install`), `Snapshot`, one of `IoTransfers`,
  `IoTimesOut`, `IoBreaks`, and `DropConnection`.
- `ReceiveLoop` and `NotifyReturns` are the receive thread between its calls.

Assigning to a joinable `std::thread`, destroying one and joining oneself end
the process: the thread goes to `terminated` and nothing happens any more.

Two reads are one step though the code takes the lock twice for them:
`hasCallback()` with the test beside it, and `isOpen()` at the start of `send`.
The configuration is replaced in one step, because the code does so under
`mutex_`; the direction test at the start of `send` reads it without.

### Udp

As `Tcp`, with the second thread member. `Tick`, `CheckHealth`, `AttemptRebind`
and `Unbind` are the monitor's loop; the re-bind then runs the same `StopCas`,
`Join`, `OpenSucceeds`, `StartCheck`, ... as everybody else. Time is `idle`:
0 recent activity, 1 beyond `reconnectInterval`, 2 beyond five receive
time-outs as well (with the defaults both are five seconds). Descriptors are
not numbered here; `stale[t]` says that the descriptor in use was closed. The
constant `ManagesRebinding` says whether the application opens, closes and
configures the transport while its monitor may be re-binding it. With FALSE it
does so only before the monitor exists or when `autoRebind` is off: that is the
use under which the transport is correct; with TRUE see the findings.

### Pcan

The same threads and steps, and three differences. The driver's channels are
`channels`, and `initialized` is what the object believes of them. `open()` and
`close()` call the driver with `mutex_` held for several steps, so the lock is
a variable (`lock`); `configure()` and the recovery call it without. A failing
`COMM_PRECONDITION` or `COMM_POSTCONDITION` spins for ever
(`defaultAssertionFailed`): the thread goes to `halted`. Assertions are
compiled in by default (`COMM_DO178C_STRICT`); `Asserts = FALSE` is the other build.

- `initialize()` is `InitializeCheck`, `DriverInitialize`, `ApplyMode`;
  `uninitialize()` is `Uninitialize`, `Clear`, `Cleared`. Both are called by
  `open`, `close`, `configure` and the recovery, and `op[t]` says where to go on.
- `open()` is `CallOpen`, `Open`, initialize, `StartCheck`, `StartCas`, `Spawn`,
  `OpenEnd`; `close()` is `CallClose`, `StopCas`, `Join`, `CloseLocks`,
  uninitialize; `configure()` is `CallConfigure`, `Reinitialize`, a stop,
  uninitialize, initialize and a start; the destructor adds `DestructorJoin`.
- `send()` and `receive()` are `CallSend`, `CallReceive`, `CheckInitialized` and
  one of `IoTransfers`, `IoReturns`, `RecoverIfNeeded`. A recovery is
  `RecoverIfNeeded`, uninitialize, and up to `MaxAttempts` times `Retry` and
  initialize. `healthy_` follows every report of an error and every transfer;
  `receive()` clears it once more after its recovery (`HealthAfter`).

The code tests twice whether to start the receive thread, in the caller and
in `startReceiveThread()`; the model tests once, at the later point, which is
the same while one thread configures the transport.

### SocketCan

`open()` keeps `mutex_` to its end, the start of the receive thread included, so
the lock is a variable here too. `fd` is the kernel's view: a socket is `closed`,
`untimed` from `::socket` on, and `timed` once `open()` has set both time-outs
(`config.timed`). `local[t]` is the descriptor a call has copied under `mutex_`.

- `open()` is `CallOpen`, then `OpenAlready`, or `OpenSocket` and one of
  `SetupFails` (interface, bind, filters) and `SetupSucceeds`, then `StartCas`,
  `Spawn`.
- `close()` is `CallClose`, `StopCas`, `Join` and only then `Close`; nothing but
  the time-out of the socket, or a frame, wakes the thread it joins. The
  destructor adds `DestructorJoin`.
- `configure()` is `CallConfigure`, `ConfigureFilters`, `ApplyFilters`; it neither
  starts nor stops the loop. `seen` is a history variable: `open()` or
  `setReceiveCallback()` has read the present configuration.
- `setReceiveCallback()` is `CallSetReceiveCallback`, `CheckLaunch`.
- `send`, `receive`, `readFrame`, `writeFrame` are `CallTransfer`, `Snapshot` and
  one of `IoTransfers`, `IoTimesOut`, `IoFails`; the loop runs the same steps.
  They differ in what they ask of the direction and in what they report.

### Serial

`lock` is the thread inside `open()`; every critical section of `mutex_` waits
for it. `open()` is `CallOpen`, `Open`, `OpenSettings`, `ShouldSpawn`, and the last
one, which locks `mutex_` again, can never run for the caller of a successful
`::open`. `StartCas`, `Spawn`, `Join` and `Io` are translated like everything else
and are unreachable, which is a theorem; so is everything that would need an open
port. `Accepted` abstracts `applySettings()` to whether the settings are taken.

### Crc, FixedBuffer, SafeMath

Bytes and registers of `Crc` are sets of bit numbers, exclusive or is the
symmetric difference; the table, the register and the byte order of the stored
checksum are those of the code (the model computes 0xCBF43926 for "123456789").
Arrays are functions from `0` with their lengths beside them, as in the code. A frame
is `sent`, the number of its bytes that are `received`, and the set of bits the
channel `flipped`: few anywhere, many within a burst, or none and the frame is cut.
`FixedBuffer` keeps the array the code never erases, so that what `resize()`
brings back is visible; `Promised` maps `begin() .. end()` to the contents of a
`BoundedSequence`. The functions of `SafeMath` return the set of results they may
leave, empty when they report an overflow, for any integer type
`MinInt..MaxInt`; `Intermediates` are the values their own tests compute.

### Sequence

`Send`, `Lose` and `Deliver` are the link: `transit` frames whose numbers are `link`,
and `copy` when the one at the head has been delivered once already. `Validate(n)` is
`SequenceValidator::validate`. Numbers count modulo `M` (2^32 in the code) and
the two wrap-around zones are `Window` wide (1000). `last`, `lost` and `truth`
record what really happened, so that a verdict can be compared with it.

### Safety

A step is one atomic operation or one critical section of the manager's or the
watchdog's mutex. `recordSuccess` is four steps (`RecordSuccess`,
`FeedWatchdog`, `DecideRecovery`, then `ClearFaults` and `Restore`);
`recordFailure`, `checkWatchdog` and `validateSequence` are a decision and a
later `ReportFault`. The counters stop at the largest value the code compares
them with. `late` counts the faults reported between `ClearFaults` and
`Restore`: `Restore` leaves them in the count, hidden by Normal until the next
fault. `StateMatchesFaults` states for every count, these included, which state
goes with it. The thresholds are the ones the tests of `reportFault()` use, not
the ones their names suggest: the code tests `kFailsafeThreshold` (5) to leave
Normal and `kDegradedThreshold` (3) to leave Degraded, so that Normal lasts for four
faults and Degraded for one. `ThresholdsAsNamed` states what the names say, and
`safety_thresholds` shows that it does not hold. `PCANBasic` has its own copy of
these members and calls with the same code.

### TransportContract

An open transport, its reader and its link: `Open`, `StartReader`,
`StopReader`, `LinkUp`, `LinkDown`, `Close`, and above all no `Close` while a
reader exists and no reader or link outside the open interval. `Tcp` maps `open`
to `handle`, `reader` to the existence of a receive thread and `link` to a
connected descriptor; `Udp` maps `link` to `handle`, `SocketCan` maps `open` and
`link` to an open socket. `Pcan` is open from `open()` to the end of `close()`
(`~shut`), and its link is the channel the driver holds, which a recovery takes down
and up again. `Serial`, whose `open()` never returns once the port is open, is left out.

## 3. Runs

| Run | Question | Outcome |
|---|---|---|
| `tcp_single` | one owner, receive thread and callback use the transport, seven configurations, both roles | all properties hold (62,770 states) |
| `tcp_shared` | another application thread sends and receives as well | no descriptor leaks, none dangles (1.12 million states) |
| `tcp_concurrent_io` | a sender and a receiver on one client | violated: a failure drops a connection established since |
| `udp_monitored` | UDP with receive thread and monitor, managed only when no re-bind can run | all properties hold (82,314 states) |
| `udp_rebind_close` | close or the destructor during a re-bind | violated: the process ends |
| `pcan_recovering` | one owner; the receive thread and its callback meet bus errors and recover, six configurations | all properties hold (34,640 states) |
| `pcan_assertions` | does an assertion fail when the first read meets a bus error? | violated: the postcondition of `open()` |
| `socketcan` | one owner; the receive thread and its callback read and write frames, with and without time-outs | all properties hold (25,984 states) |
| `serial_open` | does `open()` return when the port opens and takes its settings? | violated: it waits for the mutex it holds |
| `safety_monitored` | a recording thread beside a monitoring one, the thresholds of the code | all properties hold (12,948 states) |
| `safety_thresholds` | do three faults degrade the state, and five make it FailSafe, as the constants are named? | violated: Normal with three faults |
| `algorithms` | checksum, fixed buffer, checked arithmetic and sequence numbers over a lossy, duplicating link; the initial state picks one of them | all properties hold (115,695 states) |

Bounds. `Tcp`: two receive threads are enough for an old and a new one to exist
at once, three descriptors for a connection in the handle, a listening socket
and one being made; a closed number is re-used at once. `Udp`: one identity of
each of its threads, because the runs that pass show that no second one is ever
created before the first was joined (a second `Spawn` would end the process,
which `NoTerminate` reports). `Pcan`: one receive thread for the same reason, two
channels (one in the passing run), the code's three attempts; the only user
beside the owner is the receive thread with its callback, because a sender of
the application that recovers concurrently breaks `InitializedIsTrue` (see the
hazards). `SocketCan`: two receive threads, an old and a new one, and two
descriptors, of which the closed one is handed out again at once. `Serial`: one
application thread; more threads only wait longer, as the theorem says.
`Algorithms`: payloads of 0, 1 and 3 bytes, up to three independent flips
(`MaxFlips`) and every burst of 8 bits (`Burst`) anywhere in the frame; a buffer
of three elements and counts up to four, one more than fits; all pairs of 5-bit
signed operands, which contain every sign, zero, both ends and `MinInt / -1`.
`Sequence`: 16 numbers, zones of three and up to
three consecutive losses show every relation of `expected`, the zones and the
received number that 2^32 and 1000 allow. `MaxLost <= Window` is the range in which
the validator is right, and all of it: with one more loss TLC finds a frame after the
wrap-around that is taken for a duplicate. `Safety`: the thresholds are the
code's; one recorder and one monitor already interleave all the two-step calls.
`LinkCapacity`, `MaxLost` (the link) and the ceilings of `faults` and `errors` are
the only caps in guards.

The violating runs are small instances without liveness; each checks one
property that the documentation, a comment, an assertion or the code's own names state, and its
finding in `PROJECT.json` quotes the line. `MCTcp!ConnectedSpec` starts from an open client, so that the
counterexample is about sending and receiving only.

### Fairness

`Tcp` and `Udp`: weak fairness of a thread's steps inside the library (the
operating system schedules it, and blocking calls return because the default
`receiveTimeout` and `sendTimeout` are positive); strong fairness of the
return of the callback, and of the success of a connection or an `open()` that
is tried again and again. The application's calls, failures and the breaking of
connections are never assumed. `SocketCan`: as `Pcan`, and a time-out that was set expires.
A read without one may block for ever: `StopEnds` has the time-out in its premise.
`HealthRecovers`, of both, states in its premise that the frames a reader waits for arrive again
and again. `Serial`: strong fairness of every step inside the library, the most a
scheduler and a mutex can give, so that `open()` still not returning is the code's
doing. `Pcan`: weak fairness of the steps inside the library and
strong fairness of the return of the callback; nothing is assumed of the bus or
of `CAN_Initialize`. `Safety`: weak fairness of the steps inside a
call; the liveness properties state in their premises what the application must
go on doing (`FailuresEscalate`: reporting; `SilenceEscalates`: checking;
`SuccessRecovers`: succeeding, with no more faults reported).

## 4. Proofs

`TcpProofs`, for every set of threads, descriptors and configurations:

- `TypeCorrect`, `NoDescriptorLeaks`, `HandleStaysValid` hold with no
  assumption on who calls what. `NoDescriptorLeaks` is not inductive: that a
  thread's new descriptor is nobody else's needs the kernel's table to say that
  it is open, and the handle's descriptors to be open too. `DescriptorsInv`
  adds both (`FlightsAreConnections`, `HandleNeverDangles`), and is proved
  step by step, one lemma per group of actions.
- With `SingleOwner(o)` (one application thread opens, closes, configures and
  sets the callback; any number of others send and receive),
  `SingleOwnerNeverTerminates`, `SingleOwnerOneReceiveLoop`,
  `SingleOwnerClosedIsQuiet` and `TcpImplementsContract`. The inductive
  invariant `LifecycleInv(o)` relates the owner's place in its calls to
  `running_` and `receiveThread_`; the assumption is needed: with two owners a start of
  one falls between the `StopCas` and the `Join` of the other and assigns to a
  joinable thread.
- With `SingleUser(o)` (in addition only the receive thread and its callback send
  and receive), `SingleUserReads` (`OpenMeansReading`) and
  `SingleUserSeesLinkLoss` (`HealthSeesLinkLoss`), by `ReadingInv(o)` and
  `HealthInv(o)`. This assumption is needed too: an application thread that sends
  between `open()` and the start of the loop can drop the connection, and the loop
  is then never started (`tcp.cpp:623`).
- Under `SingleUser(o)` also the two action properties about re-connection,
  `SingleUserReplacesNothing` (`ReconnectReplacesNothing`) and
  `SingleUserDropsOnlyFailed` (`DropOnlyFailed`). `ConnectionInv` says that a receive
  thread on its way to a new connection finds none in the handle, and that a
  connection taken away under it (`stale`) has no successor as long as it runs: only
  a closing owner takes one away, and it opens again only after the `Join`. With two
  users `DropOnlyFailed` is false, as the run `tcp_concurrent_io` shows.

`UdpProofs`, for every set of threads and configurations:

- `TypeCorrect` holds for any number of owners.
- With `SingleOwner(o)` (one application thread controls the transport, and not
  while a re-bind can run, `~ManagesRebinding`): `SingleOwnerNeverTerminates`,
  `SingleOwnerClosedIsQuiet`, `SingleOwnerReads` and `ContractKept`. The inductive
  invariant has one part per question. `ControlInv(o)`: owner and monitor are never
  both in a controlling call. `MonitorInv(o)`: the monitor exists from
  `scheduleHealthCheck()` to `stopHealthMonitor()`. `ReaderInv`: the receive thread
  exists from `startReceiveLoop()` to `stopReceiveLoop()`, whichever of the two calls them.
  `ReadingInv(o)`: where the loop has yet to be started. Without the assumption
  `NoTerminate` is false: the run `udp_rebind_close` shows it.

`PcanProofs`, for every set of threads and any number of attempts:

- `TypeCorrect` holds for any number of owners and users. It bounds the attempts of
  a recovery, which `AttemptInv` strengthens by where an attempt is counted.
- With `SingleOwner(o)` (one application thread controls the transport, only
  callbacks use it, and all configurations name one channel):
  `SingleOwnerShutIsQuiet`, `SingleOwnerInitializedIsTrue`, `SingleOwnerReads` and
  `ContractKept`, for builds with and without assertions. `ThreadInv(o)` says where the owner and
  the receive thread can be together, `ChannelInv(o)` which channel the driver holds
  at each of these places, `ReadingInv(o)` where the owner has yet to start the
  loop. Each part of the assumption is needed: see the hazards about concurrent
  recoveries and about `configure()` with another channel.
- `ContractKept` is the refinement of `TransportContract` (`ImplementsContract`); it
  adds to `SingleOwnerShutIsQuiet` that the channel comes and goes inside the open
  interval only, and never while two hold it. No run lists it: TLC confirms it on the
  instance of `pcan_recovering` when it is added there as a PROPERTY.

`SafetyProofs`, for all thresholds with
`DegradedThreshold <= FailsafeThreshold < EmergencyThreshold - 1` and any
threads: `StateFollowsFaults` and `EscalationIsGradual`. `ManagerInv`
strengthens `StateMatchesFaults` by what holds between the two halves of a
recovery: the count is the number of faults reported since it was cleared
(`faults = late`). Both theorems cover the faults that fall into a recovery; the
one exception, in `GradualEscalation`, is a recovery that at least
`EmergencyThreshold - 2` of them fell into, where Emergency comes next whatever
the state.

`SocketCanProofs`, for every set of threads, descriptors and configurations:

- `TypeCorrect` and `SocketAlwaysOwned` hold for any number of owners. The
  strengthening `OwnedInv` adds that a thread setting a socket up holds the lock.
- With `SingleOwner(o)`: `SingleOwnerIsSafe` (`NoTerminate`, `ClosedIsQuiet`,
  `ReaderOwnsDescriptor`), `SingleOwnerReads` (`OpenMeansReading`) and `ContractKept`.
  `LifecycleInv(o)` relates the place of the owner to `running_` and
  `receiveThread_` as for TCP, and says that a live loop means an open socket,
  because `close()` joins first; `ReadingInv(o)` says where the owner has yet to
  start the loop or has just stopped it.

`SerialProofs`: `OpenNeverCompletes`. The inductive `OpeningInv` lists the places
no thread can be in; it needs no assumption but that threads are told apart.

`SequenceProofs`, for every number space, window and capacity of the link:

- `LinkIsInOrder` holds without an assumption.
- With `MaxLost <= Window`: `InTurnIsValid` (`NoFalseAlarm`),
  `SecondDeliveryIsDuplicate` (`DuplicatesAreNoticed`) and the action property
  `LossIsReported` (`LossesAreReported`). None of them is inductive: what the
  validator says depends on how the next number on the link lies to the one it
  expects. `LinkInv` says that the link carries consecutive numbers up to
  `counter_`; `ValidatorInv` that the validator expects the number after the newest
  one delivered, and that the next frame is that one or, after `lost` losses, the one
  `lost` further on. The assumption is the exact range: a longer loss across the
  wrap-around leaves the zone in which `validate()` looks for it.

`UtilityProofs`, about the sequential algorithms:

- `BurstsAreNoticed` (`DamageIsNoticed`): with `MaxFlips <= 1` and `Burst <= 32`, and
  for payloads of any length and content, `verifyCrc32()` accepts exactly the
  undamaged frames. `Round` is linear (`RoundLinear`), so the registers of the sent
  and of the received frame differ by what the flipped bits alone produce
  (`DifferenceLoop`). A burst that starts in the payload leaves a bit that
  neither the later bits of the burst nor the stored checksum can cancel, because a
  round never maps a word that is not zero to zero (`RoundShows`, `BurstShows`).
  The assumption is what a CRC of 32 bits guarantees for every length; several bits
  far apart are noticed up to some length only, and stay with TLC.
- `ChecksumsChain` (`ChainingComplements`) without an assumption, by `LoopsAgree`:
  two loops that start alike and read the same bytes end alike.
- `ArithmeticCorrect`, from `SumsFit` and `ProductsFit`, for every width, signed or
  unsigned (`IntegerAssumption`: `MaxInt > 0`, and `MinInt` is 0 or `-MaxInt - 1`).
  Products rest on lemmas about the quotient that rounds towards zero.
- `BufferTypeCorrect` and `BufferImplementsSequence`, for every capacity, element
  set and argument.

The loop of `calculateCrc32()` is a recursive function over the payload. What it
computes for every length is proved by induction, although the library's induction
theorems take an operator as a parameter, which the provers cannot instantiate: the
well-foundedness of `<` on the naturals takes a set and gives the lemma `Minimum`,
every set of naturals that is not empty has a least element, and with it both the induction steps
(`Induction`) and the existence of the function itself (`LoopEnds`).

No module with a theorem uses `Sequences`: version 1.4.5 of the prover derived a
contradiction from `S \subseteq Seq(V)` beside a function on `0..n`, so arrays are
functions there, and the contexts of the proofs were tried with a goal of `FALSE`,
which fails as it should.

Every invariant, action property and refinement that a passing run checks is stated by a
theorem. Only model-checked: the liveness properties (`StopEnds`, `ClientReconnects`,
`RebindReopens`, `HealthRecovers`, `FailuresEscalate`, `SilenceEscalates`,
`SuccessRecovers`), because fairness needs ENABLED, which is out of the prover's
reach, and `DamageIsNoticed` for several independent flips.

## 5. Not modelled, and what no run shows

- `RedundancyManager` (each operation is one critical section over one array,
  and no transport uses it), `BoundedValue`, `BoundedCounter`, `NotNull` and the
  frame header: a test and an assignment each. The enum checks and static
  assertions are the compiler's, `defaults.hpp` holds constants.
- Error callbacks and the locks held while callbacks run: `reportError` inside
  `open()` and `transitionTo()` of the failsafe manager call the application with a
  mutex held; a callback that calls a getter of the same object waits for ever.
- Null pointers, which `calculateCrc32` and `verifyCrc32` treat as no data.
- Remainders of a cut frame of four bytes and more, whose last four bytes are payload
  in the place of a checksum: `Crc` cuts a frame to less than a checksum only.
- Data: payloads, partial sends, statistics, addresses, socket options. Two
  places where it matters and that reading shows: `SocketCAN::writeFrame` cuts
  the payload size to 8 bits before it compares it with the limit
  (`socketcan.cpp:404`, `:427`), and the FD frames of PCAN take the DLC as a number
  of bytes (`pcan_basic.cpp:341`, `:504`).
- Zero time-outs of TCP and UDP, which make blocking calls wait for ever, and the
  descriptor that the UDP re-bind closes a second time.
- The mixin's `resetSequenceValidator` and statistics getters, which only touch
  `Sequence` or nothing.

Divergences that need no search, and so have no run: `UDP::send()` has no
destination, since no call connects the socket (`udp.cpp:168`; the model's send
can only fail, `SendWithoutDestination`); `reportFault()` and `reset()` of the
failsafe manager change the state without calling the state change callback
(`safety.hpp:563`); `recordSuccess()` announces recovery "after sustained success"
(`safety_mixin.hpp:156`) and counts no successes: a single one clears the faults and
restores Normal from every state, Emergency included, while in Normal no number of
successes ever clears the faults that have been counted (`SuccessRecovers` states what
both the comment and the code promise, that sustained success without new faults
brings Normal back for good); `defaults.hpp:241` calls
`kMaxConsecutiveErrors` (5) the "maximum consecutive errors before failsafe
transition", and the fifth error in a row is only the first fault, so that the state
changes with the ninth; a second delivery of the last number, 2^32 - 1, is reported as a
gap of 2^32 - 1 frames, because the expected number has wrapped to 0 and lies in no
zone (`safety.hpp:242`; the exception in `DuplicatesAreNoticed`);
`PCANBasic::configure()` with another channel forgets the old one without releasing it (`pcan_basic.cpp:609`; give `Pcan` configurations
of two channels and `ShutIsQuiet` fails).

## 6. Plan

1. Concurrent recoveries of `Pcan`: what remains true of the channel when an
   application thread recovers beside the receive thread.
2. Error callbacks that call back under the lock, with the lock variable that
   `Serial`, `SocketCan` and `Pcan` already have.
3. The descriptor table of `Tcp` in `Udp`, for the descriptor that a re-bind closes twice.
