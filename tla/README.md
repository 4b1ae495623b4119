# Formal models of the BLE gesture suite

This directory holds TLA+ models of the program in `src/codes/ble_gesture_suite`: a
sensor (ESP32-C3 with an MPU6050) that streams IMU frames over Bluetooth LE, a .NET
SDK that keeps the connection alive and recognises a hand gesture in the stream, and
an application that shows it and sends a hotkey. Two programs beside the suite that
have concurrency of their own, the C++ debug client and the WiFi provisioning sketch,
are modelled as well. The models are checked with TLC on small instances. Every
invariant and action property that a passing run checks is also proved with TLAPS, for every
value of the constants; what TLC alone checks is liveness (section 6).

    tlc -config ConnectionLifecycle.cfg MCConnectionLifecycle     # one run
    tlapm ConnectionLifecycleProofs.tla                           # the proofs

## 1. Inventory

| component | state | operations | how it interacts |
|---|---|---|---|
| Firmware controller (`AppController`) | indicator mode, blink phase, time stamps, sensor ready flag, failure counter | `begin`, `tick`, `onBleConnected`, `onBleDisconnected`, `publishStatus` | the Arduino task runs `begin` and `tick`, the task of the Bluetooth stack runs the two callbacks; both read and write the same fields without a lock |
| Firmware transport (`BleTransport`) | `clientConnected_`, two characteristics | `begin`, `handleConnect`, `handleDisconnect`, `publishStatus`, `publishImuSample` | called by both tasks; restarts advertising |
| Firmware IMU driver (`ImuSensor`) | I2C address, ready flag | `begin`, `readSample` | called by the Arduino task |
| SDK connection (`BleGestureClient`) | gate, device, characteristics, disconnect signal, loop task and token | `StartAutoReconnectLoopAsync`, `StopAutoReconnectLoopAsync`, `ConnectAsync`, `DisconnectAsync`, the loop, `Device_ConnectionStatusChanged` | methods of the application interleave at every await; the callback comes on a pool thread |
| SDK recognizer (`BleGestureClient`) | feature queue, state, time stamps, peak, counter | `UpdateGestureAndMaybeSendHotkey` per frame, `SendSystemHotkey` | fed by the IMU notification and by the value read on connecting, on two threads; sends Ctrl+Alt+Q and raises an event |
| SDK payload processing (`ImuPayloadProcessor`, `ImuAutoCalibrator`) | bias, gravity estimate, count of still frames | `Process`, `Update` | between the notification and the recognizer |
| Application (`MainWindow`, `BleSdkSampleWindow`) | connection and sampling display, collection in progress | arm, collect a sample, rename, close | calls Start, Stop and `DisconnectAsync`; handles the SDK's events |
| Data recorder (`GestureDataRecorder`) | open writer, session, flush counter | start, log, stop, dispose | called by the application, under its own lock |
| Viewer (`Web/app.js`) | scene | draw | messages from the application |
| `HotkeyReceiver` | thread id, window, registered hotkey, message queue | start, register, handle `WM_HOTKEY`, quit | receives the hotkey from the system |
| C++ debug client (`BleGestureDebugClient`) | session and attempt, last polled payload, stop flag | scan, discover, subscribe, read, poll, stop | a client of the firmware with a polling thread |
| WiFi sketch (`bleWiFiProvisioning`) | stored and pending credentials, radio, LED | `setup`, `loop`, the BLE callbacks | two tasks share all globals; the store survives a power failure |
| Scripts (`scripts/`) | none | offline fits over recorded files | read the recorder's files |
| C++ LED client (`src/tools`), other sketches (`src/codes/examples`, `src/arduino`) | independent of the suite | | |
| `src/esp-idf`, `src/doc`, `MPU6050.*`, `I2Cdev.*` | vendored | | |

Hard behaviours, and what correct means for each:

* **Connection.** Three methods and a callback share four fields. A wake-up can be
  lost between a check and an await; a callback can belong to a device that was
  disposed; a cancellation can hit any await; a failed step leaves a half-open
  device. Correct: the gate excludes, a stopped client owns nothing, "Connected"
  means there is a device, Stop returns, the loop reconnects.
* **Recognizer.** Nine time stamps and windows over frames that arrive at any
  distance; a hold may fall back to a movement and become a hold again. Correct: a
  hotkey answers a movement that ended in a steady hold, hotkeys are spaced, and the
  rest after a hotkey is kept.
* **Concurrent frame handlers.** Notifications are enabled before `ConnectAsync` reads
  the first value, so two handlers can run the lock-free state machine and press the
  same keys at once. Correct: no key stays down, a recognised gesture gives at least one
  complete chord, and only handlers that overlap repeat a hotkey.
* **The stream.** Texts are cut at the MTU, sums of squares overflow, the calibrator is
  never reset. Correct: what is accepted is intact, the bias stays small, gravity
  converges.
* **Tools.** Threads that start, fail and end in any order; a store of two keys and a
  power failure between them. Correct: the programs come to an end when asked, and the
  device comes back with what it was told.
* **Firmware.** Two tasks without a lock, a clock that wraps, an advertising
  restart in the middle of a callback. Correct: the device never becomes
  unreachable, the indicator follows the client, samples are spaced and flow.
* **Recorder and sampling.** Events of the SDK wait in the dispatcher queue; the end
  of a collection awaits a dialog between the end of the recording and the renaming of
  the file; the process may end at any point. Correct: a file holds one session and
  its name tells the truth, no sample is lost, the button offers what a click does.

`PROJECT.json` lists the hazards one by one, at their source lines, with the
properties that cover each.

## 2. Modules

| module | models |
|---|---|
| `GestureRecognizer` | the state machine and window analyses of `BleGestureClient.cs` |
| `DebouncedHotkey` | abstract: what an application may rely on about the hotkey |
| `GestureRecognizerProofs` | theorems about `GestureRecognizer` and its refinement of `DebouncedHotkey` |
| `FrameHandlers` | two handlers of `BleGestureClient.cs` at a time, and `SendSystemHotkey` |
| `HotkeyReceiver` | `HotkeyReceiver/Program.cs` |
| `HotkeyPath` | the two composed: keys, the system's hotkey, the message queue |
| `HotkeyPathProofs` | theorems about `HotkeyPath` |
| `ImuStream` | `ImuSensor`, `buildImuText`, `ImuPayloadProcessor` and `ImuAutoCalibrator`, end to end |
| `ImuStreamProofs` | theorems about `ImuStream` |
| `ConnectionLifecycle` | the connection half of `BleGestureClient.cs` |
| `ConnectionLifecycleProofs` | theorems about `ConnectionLifecycle` |
| `Firmware` | `AppController`, `BleTransport` and the outcomes of `ImuSensor` |
| `FirmwareProofs` | theorems about `Firmware` |
| `GestureDataRecorder` | the operations of `GestureDataRecorder.cs` as functions of its state, and what is left when the process ends within one |
| `GestureDataRecorderProofs` | lemmas: what each operation of the recorder, and a crash, does and keeps |
| `SampleCollection` | the sampling of `MainWindow.xaml.cs`, composed with the recorder and an abstraction of the SDK |
| `SampleCollectionProofs` | theorems about `SampleCollection`, on top of `GestureDataRecorderProofs` |
| `DebugClient` | `BleGestureDebugClient/main.cpp` |
| `WiFiProvisioning` | `bleWiFiProvisioning.ino` |
| `WiFiProvisioningProofs` | theorems about `WiFiProvisioning` |
| `MC...` | instances of the above for TLC |

Operators named `<Definition>_<Bug>` and commented "Mutant" are not used by any
specification. Each is a plausible bug of the definition that follows it; putting it
in that definition's place makes a property fail. `PROJECT.json` pairs every property
with such a mutant, so that no property holds for want of anything to violate it.

### 2.1 GestureRecognizer

One step is one decoded frame: the clock advances by a gap, the frame is pushed on
the feature queue and old ones are dropped (`PushFeatureFrame`), then one branch of
`UpdateGestureAndMaybeSendHotkey` is taken. There is one action per branch.

* A frame is a pose in whole degrees and two magnitudes in raw units; thresholds are
  the code's. Averages, RMS values and percentiles are compared without division or
  roots: a mean is within a range when the sum is within the range times the count,
  the percentile of a sorted list is at most a bound when more elements than its
  index are.
* `NormalizeAngleToReference` is the closed form of the code's two loops.
* The queue is a set ordered by its (unique) stopwatch ticks.
* Durations and frame counts are constants, so that a run can scale them and the
  theorems hold for any of them.
* `episodeStart` is auxiliary: the tick of the last step from Idle to Moving.
* Left out: the reasons and diagnostic texts of the events. A send is counted whether or
  not it succeeded, as in the code. Frames are handled one after the other here;
  `FrameHandlers` has two at a time.

`DebouncedHotkey` says: a gesture is armed, and abandoned or answered by one hotkey no
sooner than `MinGesture` later; after a hotkey nothing is armed for `Cooldown`. The
refinement mapping takes Moving and Holding as armed, `episodeStart` as the arming
time, `cooldownUntil` as the end of the rest, and a trajectory plus a hold as
`MinGesture`.

### 2.2 ConnectionLifecycle

Each asynchronous method is a process: `loop` (`MaintainConnectionLoopAsync` with
`ConnectAsync` and `WaitForDisconnectAsync`), `user` (`DisconnectAsync` called by the
application) and `stop` (`StopAutoReconnectLoopAsync`). A program counter stops at
every await and wherever another thread can see a field just written. Status
callbacks of the operating system are a set of records in flight.

* `SingleContext` chooses the threading. TRUE: all methods share one UI thread and
  yield only at an await (`MayRun`), as in GestureLab. FALSE: continuations run on
  pool threads, as in a console program.
* `UserDisconnects` says whether the application calls `DisconnectAsync` itself; the
  SDK's README only starts and stops the loop.
* The disconnect signal is null, pending or completed; `waitingOn` says whether the
  awaited task is the one in the field.
* Every Bluetooth operation may fail or be cancelled at its await, with what the code
  does then: the gate is released and the device stays as it is.
* What a disposed sender answers in the callback is a free choice.

### 2.3 Firmware

The Arduino task and the Bluetooth task each have a program counter that stops where
the other can see an intermediate state: between the assignments of
`setBleIndicatorMode`, between setting and notifying the status,
between reading the clock and using it. `millis()` counts modulo `ClockModulus`.
`sinceImu` is auxiliary and measures true time. The Bluetooth stack
(link, advertising, event queue) and the central are modelled from how the firmware
uses them. A central may connect as soon as `begin` advertises, before it has returned;
`early` (auxiliary) remembers that the present one did.

`client` says how far the client is with the status: nothing is pushed to one that has
not written the descriptor, which no client has when `handleConnect` publishes. Like the
SDK, a client subscribes and then reads (`Central_Subscribe`, `Central_Read`), at any
time after the link is up. From then on it has the value that the characteristic holds
("current") or not ("stale"). What the text says is left out: the older of two texts,
built before and written after the newer one, would be pushed as well.

### 2.4 GestureDataRecorder

Every public method takes the lock, so a method is a function from one state of the
recorder to the next, and a handler of the application that calls two of them composes
the functions. The state is the open file, the lines in the writer, the counters and
the disk. Whether `FlushInterval` has passed is a free choice. The columns of a line, its
CSV quoting and the header are left out; I/O errors of the writer are not modelled.

The lock does not hold back the end of the process. `Killed` leaves on the disk any
prefix of the lines that were not flushed and perhaps a part of one more (`Torn`), because
the writer empties its buffer in the middle of a line when it is full. `StartSession` is
two parts, `Opened` (the file is created or truncated and gets its header) and the first
line; a process that ends in between leaves a file without a line. `SampleCollection` has
both kinds of crash (`Crash`, `Crash_InStart`).

### 2.5 SampleCollection

The dispatcher queue `ui` holds what `EnqueueUi` and the SDK's awaits have posted; the
UI thread handles one entry at a time (`Ui`), the user clicks between two of them.
`CollectSampleButton_Click` is three actions: the start, the stop up to the dialog, and
what follows the answer. `AppWindow_Closing` is two.

* The SDK is what `ConnectionLifecycle` looks like from the application: its loop was
  started by the UI thread, so its continuations take a turn in the queue. The awaits
  of `ConnectAsync` are abstracted to two (the scan, and the rest); `link` is
  `IsConnected`, which changes under the application's feet.
* The dialog is modal, so the button cannot be clicked behind it. The branch without an
  XamlRoot (no dialog) is left out: the button that was clicked has one.
* A file name is the second of its creation and its tags. A session is labelled with
  its number, so that a lost one can be told. The disk survives a relaunch.
* `PublishWindowFeatureSnapshot` always returns early: the queue it reads is never
  filled, because the window's own detector is never called.

### 2.6 FrameHandlers, HotkeyReceiver, HotkeyPath

`FrameHandlers` keeps of `GestureRecognizer` the state, the start of the hold and the end
of the cooldown, and splits a handler where another one can see or change these: taking
the time, looking at the state, acting, each key, the sleep, the settlement. The frame
is reduced to its kind ("rest", "shake", "still", "lift"), which is chosen when the
handler acts; whether a movement is recognised is a free choice, which is decided in
`GestureRecognizer`. `groupStart` and `fired` are auxiliary: sends that overlap form a
group. When the other handler has changed the feature queue, its enumeration may throw.

`HotkeyReceiver` has the main thread and the message thread. A registration may fail at
each of its steps. The queue of the thread exists from its first call of user32 on
(`HasQueue`), but Main lets Enter through as soon as the thread has published its id: a
WM_QUIT posted before the queue exists is lost, and Main waits for ever.

`HotkeyPath` composes the two: the key stroke that completes the chord posts `WM_HOTKEY`
if the hotkey is registered.

### 2.7 ImuStream

A measurement becomes register bytes, `toInt16` values, a text of nine fields, a prefix
of it (whole fields and possibly a part of the next, of which any number of digits may
be left), a parsed frame and an update of the calibrator. Register and int widths are
parameters (`ByteBase` is 256 in the code); doubles are fixed-point numbers in units of
1/`Scale`. A root is compared by squaring the bounds, and the root of a sum that wrapped
below zero compares false, as NaN does. The sensor may be absent, restart and come back;
the calibrator of the host remembers. Poses in degrees are left out.

### 2.8 DebugClient

The main thread and the polling thread stop wherever the other can see a change. Every
`.get()` may succeed, report failure or throw; an exception that leaves
`SubscribeStatusNotifications` while the polling thread is joinable terminates the
program, as `std::thread` requires (`aborted`). That contradicts the client's README, which
promises a retry; the run `DebugClientRetries` shows it. `shown` (auxiliary) says whether the present status
has been logged.

### 2.9 WiFiProvisioning

The BLE task has the higher priority on the only core, so a callback runs up to a
`delay()` without interruption (`BleSleeps`), while the Arduino task can be interrupted
between any two steps. The 300 ms that a CONNECT sleeps outlast what the Arduino task
does between two of its own delays (`MainSleeps` in `Connect_WiFiBegin`): an assumption
about time, which the model states and does not derive. The two keys of the store are
written one after the other and power may fail in between. `connectToWiFi` takes its
arguments by reference, so that `setup()` uses what the callbacks write meanwhile.
`wanted`, `touched` and `unseen` are auxiliary.

## 3. Runs

| run | question | result |
|---|---|---|
| `GestureRecognizer` | Are holds steady, preceded by a movement, and hotkeys debounced? | holds |
| `ConnectionLifecycle` | On a UI thread, with an application that also disconnects: cleanup, no lost wake-up, Stop returns, the loop reconnects | holds |
| `ConnectionPoolThreads` | Pool threads, application as in the SDK's README (Start and Stop only): does Stop return, does the loop reconnect? | holds |
| `ConnectionUserDisconnect` | Pool threads and an application that calls `DisconnectAsync` | violated: the loop can wait for ever |
| `Firmware` | Mode, reachability and spacing, with centrals at any time; is a subscribed client ever left with an old status; do samples flow, does the LED settle? | holds |
| `SampleFiles` | Do window, recorder and files agree, is a file at most one session, are the tags true and is every sample and line kept, over two samples, crashes between and within the recorder's calls, and relaunches? | holds |
| `SampleReconnect` | Is an enabled button ever refused, a verdict given on the wrong connection, or a failed hotkey taken for a trigger? What is unflushed? Does the button become usable and stay so? | never; less than a batch of IMU lines; it does |
| `HotkeyPath` | Two frame handlers at a time, reconnects, the receiver starting and stopping: keys released, chords complete, repetitions only by overlap | holds |
| `DebugClient` | Unless the program is terminated: do the sessions end whatever fails or throws, and does the status get into the log? | holds |
| `DebugClientRetries` | Does the program give up only after its last session, as its README says? | violated: an exception of the CCCD write or the initial read terminates it |
| `ImuStream` | Cut texts, saturation, overflow, restarts: intact frames, small bias, converging gravity | holds |
| `WiFiProvisioning` | Commands during `setup()`, power failures: is the stored pair the used one, does CONNECT succeed, does the LED settle? | holds |

The violated runs check a sentence that a comment or a README of the repository makes about
the program; `PROJECT.json` quotes both under "findings".

## 4. Bounds

* `GestureRecognizer`: durations of a few ticks in the proportions of the code (the
  retention is shorter than the longest trajectory, as 4.0 s is shorter than 4.8 s),
  16 ticks, which is enough for a complete gesture, its rest and a second one. Four
  kinds of frame (writing, lifting, at the mouth, shaken) and two gaps, one of which
  skips frames. With them every branch is taken. The stream ends at `MaxTime`, so this
  run does not check for deadlock.
* `ConnectionLifecycle`: nothing is unbounded; `DiscoverAttempts` (6 in the code) is 1
  or 2, enough for a success, a repetition and a last failure. One `user` and one
  `stop` call are in progress at a time, any number of them one after the other.
* `Firmware`: the clock wraps every 4 units with a sample interval of 2, so stamps of
  before and after the wrap meet all the time; one failed read in a row is counted
  (`MaxFails`), an iteration of `loop()` takes at most one unit (`MaxLag`).
* `SampleCollection`: notifications only come while the session has fewer than
  `MaxLines` lines and the queue has room (`MaxQueue`). `SampleFiles` has two samples, a
  batch of 3 (50 in the code) and gestures whose hotkey is sent; `SampleReconnect` one
  sample, a batch of 2 and every other notification, gestures whose hotkey fails among
  them. The queue holds two entries, which is enough for any two of them to be in either
  order, and to fill a batch. Relaunches are unbounded; collections begun (`MaxSamples`)
  and seconds in which one begins or a crash hits its beginning (`MaxStamps`) are not.
* `HotkeyPath`: a hold of 1, a cooldown of 2 and a clock up to 4, so that a second gesture
  after the cooldown fits; two handlers, which is what two threads give; two queued
  messages.
* `DebugClient`: 3 sessions of 2 attempts (10 and 6 in the code), two payloads and two
  changes of the status within a subscription. The program may end, so there is no
  deadlock check. `DebugClientRetries` has 2 sessions and one change, which is
  enough for the counterexample.
* `ImuStream`: bytes of 8 values (registers -32..31, ints -2048..2047, so that three
  saturated squares overflow), a gravity of 16, and four motions: two poses at rest, a
  slow turn and a saturated shake. Weights are quarters.
* `WiFiProvisioning`: a network with a password and an open one, one password. Nothing
  else is bounded.
* `DistinctStamps` is an assumption, not a bound: no two collections begin in the same
  second. A start, a stop and an answer within a second would truncate the first file. The
  proofs of the properties other than `NoSampleLost` and `NoLineLost` do without it.

## 5. Fairness

* `ConnectionLifecycle`: strong fairness of each method, because the semaphore, the
  UI queue and the thread pool serve their waiters, and weak fairness of the
  callbacks, which a pool thread runs. Every Bluetooth operation ends (the operating
  system times it out). Nothing obliges the application to call anything or the link
  to come up or go down. Fairness of a method as a whole does not choose among the
  outcomes of its awaits: attempts may fail for ever.
* `Firmware`: weak fairness of both tasks (FreeRTOS runs them; neither blocks the
  other) and of the clock. No central is obliged to connect or to leave.
* `SampleCollection`: weak fairness of the UI thread, which works through its queue.
  Neither the device nor the user is obliged to do anything: `ButtonSettles` is about
  connections that stay and on which frames keep being handled.
* `DebugClient`: weak fairness of each thread as a whole: every Bluetooth operation
  returns. Attempts may fail for ever, Enter need not be pressed, and notifications need
  not arrive; `StatusIsLogged` is about polls that succeed again and again.
* `WiFiProvisioning`: weak fairness of the callbacks' progress and strong fairness of the
  Arduino task, which runs whenever the callbacks sleep, and they do between any two
  commands; strong fairness of the association with an access point that accepts the
  pair, since the station keeps trying.
* `ImuStream` states what it needs in the property: a pose that lasts and frames that
  are processed again and again.
* `GestureRecognizer` and `HotkeyPath` have no fairness: their properties are safety
  properties.

## 6. Proofs

TLAPS proves the following for all values of the constants that satisfy the named
assumptions.

**GestureRecognizer** (`FramesAssumption`, `GapsAssumption`, `DurationsAssumption`).
`TypeCorrect`, `HoldAlwaysSteady`, `PeakAlwaysMaximum`, `HoldAlwaysFollowsMovement`,
`ClocksInOrder`, `HotkeysAreSpaced`, `RecognizerDebounces`. The inductive invariant
`IInv` is the conjunction of the type invariant and the four state properties. None
of them is inductive alone: that a hold follows a movement needs the peak to be
right across a restart; that hotkeys are spaced needs the order of the clocks and the
hold's distance from its movement. The proof also shows that the comparison with
`_cooldownUntilTicks` in the Holding branch never delays anything. The refinement of
`DebouncedHotkey` follows from the same invariant, one step per action.

**ConnectionLifecycle** (`ContextAssumption`, `AttemptsAssumption`). `TypeCorrect`,
`GateAlwaysExcludes`, `StoppedAlwaysClean`, `ConnectedAlwaysHasDevice` for both
threading models. The invariant `Safe` adds to types and exclusion who owns the loop
(`OwnInv`: without a task there is no loop, and a Stop that gave the task up still has
to dispose of the device) and who owns the device (`DeviceInv`: at the points of
`ConnectAsync` that have it, it is there and so are the characteristics).
`WakeupNeverLost` assumes `Sheltered`: one UI thread, or an application that does not
call `DisconnectAsync`. Its invariant `WakeInv` says for each point between the
publication of the signal and the wait which signal the field holds and why it will
be completed. Without the assumption the property is false, which the run
`ConnectionUserDisconnect` shows.

**HotkeyPath** (`TimesAssumption`, `ReceiverAssumption`). `KeysAlwaysReleased`,
`GroupAlwaysFires` and `OnlyOverlapsEverRepeat` rest on the invariant `HInv`: each
handler holds down exactly the keys that its place in `SendSystemHotkey` says
(`PressedByPlace`), a key that is down is held by a handler (`DownIsHeld`), until the
group has fired every key that a handler holds is down (`HeldIsDown`), and the cooldown
covers the last group of sends (`GroupIsCovered`). `HeldIsDown` is the subtle one: a
release by one handler lifts keys that the other one pressed, so it can only hold until
the first chord is complete.

**ImuStream** (`WidthAssumption`, `AlphaAssumption`, `CalibratorAssumption`,
`MotionAssumption`). `AcceptedAlwaysIntact`: `toInt16` inverts the split into bytes
(`RoundTrip`) and a prefix with nine fields has the first eight of the text
(`LongPrefix`). `BiasAlwaysWithinStill`: a sum of three squares of 16-bit numbers that
overflows an int wraps to a negative number (`WrapOfSquares`), so what counts as rest
really is slow about every axis (`StationaryIsSlow`); `Lerp` stays between its arguments
(`LerpBetween`), also when it rounds. The invariant is the type invariant and
`BiasBounded`, which is one unit of rate stronger than the property.

**WiFiProvisioning** (`AcceptedAssumption`). `AlwaysUsesStored`. The invariant adds to
the property what `setup()` knows as long as no callback has interfered
(`SetupUntouched`: pending is what is stored), that nothing runs before `setup()` has
advertised (`BootIsQuiet`) and how far a CONNECT has got with storing its pair
(`CallbackProgress`).

**Firmware** (`ClockAssumption`). `TypeCorrect`, `ModeIsRight`, `Reachable`, `Informed`,
`Spaced`, `NoDisconnectedBranch`. The properties speak of moments when both tasks are
idle and say nothing of the steps in between, so none is inductive. `Outstanding`
enumerates what the Bluetooth stack may still owe the firmware (nothing; a connect; a
connect and its disconnect; ...; a disconnect, the next connect and its disconnect) and
says for each how far the callback under way has got, whether there is a link and
whether the device advertises. `ModeSoFar` and `PushIsDue` say of the mode and of a status
that the client has not got who is still about to write or push it. `StampsTellTheTime` is the
clock part: as long as less than an interval has passed, the unsigned difference of the
time stamps is the true time. It needs the interval to be shorter than the modulus and
nothing else (`NearMod`, `ClockStep`). `NoDisconnectedBranch` justifies a branch of
`updateBleIndicator` that the model leaves out.

**GestureDataRecorder** (`BatchAssumption`). Lemmas only; the recorder is proved about
where it is called. The invariant `RecInv` is a predicate of the recorder's state: its
types, that the buffer is a part of a batch of IMU lines, and that the open session,
flushed and unflushed lines together, may go on: it begins with SESSION_START, has no
SESSION_STOP and no torn line yet, and the sequence counter is its length. The last part is
what `FilesHoldOneSession` lacks to be inductive. A lemma for each operation (`Writes`,
`Flushes`, `Closes`, `Stops`, `Opens`, `Starts`, `Kills`) says what it does to the open file
and that it leaves the others alone. `NextLine` is the step that a write takes, `TornLine`
and `CutShort` are the crash: a session cut anywhere behind what was flushed is a session,
with or without a torn line at its end, and so is one of which nothing was written
(`NothingWritten`).

**SampleCollection** (`CollectionAssumption`, `BatchAssumption`). `RecordsShown`,
`TagsAreTrue`, `StartIsAllowed`, `VerdictInTime`, `ApplicationAtRisk`,
`ApplicationFiles`, and, if no two samples begin in the same second (`DistinctStamps`),
`SamplesAreKept` and `LinesAreKept` (no step takes a line from the disk, of which the
former is the part about first lines). Without that hypothesis both are false: a file of
the same name is written over. The others hold with or without it. The invariant has
four parts besides the types:

* `Queue`: the order of the connection's events in the dispatcher queue. A verdict can
  only be behind the Connected of the next connection if its Resume was behind Ready. The
  SDK gets to Ready by a turn in the queue that is itself behind the Disconnected that
  cancels the delay; `InOrder` follows that chain backwards, one conjunct per link.
* `Button`: enabled and not collecting means that one of the two flags is set, unless the
  dialog is open.
* `Shown` and `Counted`: the trigger counter is about the lines of the open session while
  a sample is collected, and about the file on the disk while the dialog is open. That is
  why a tag is true although the file is renamed turns after the recording has ended.
* `Kept`: one file for each second, none later than the last. It is what makes a rename
  safe: the target does not exist (`Renames`).

In each case the invariant was checked with TLC on the instances of the runs before it
was proved.

**Only model-checked.** Liveness (`StopReturns`, `KeepsReconnecting`,
`StaleConnectedHeals`, `StreamFlows`, `LedSettles`, `ButtonSettles`, `EndsOrListens`,
`StatusIsLogged`, `PoseConverges`, `ProvisioningSucceeds`): it rests on fairness, which
is beyond the prover. `DebugClient` has, apart from the violated one, only such properties
and therefore no theorem.

## 7. Not modelled, and why

* A token that the application cancels itself, and `ConnectAsync` called outside the
  loop. `MainWindow` cancels its token only in the UI turn that then calls Stop, which
  cancels as well; nothing in the repository calls `ConnectAsync` directly.
* More than two frame handlers at a time, and the window analyses under concurrency: that
  an enumeration throws is modelled, what a half-updated queue holds is not.
* The assignments of one branch of the recognizer are one step in `FrameHandlers`.
* The angles of `TryBuildPoseFromCalibratedGravity` (floating point; it never fails).
* The scan callback of the debug client after `ScanTargetAddress` has timed out, and the
  order of lines in its log.
* The text of the WiFi sketch's status characteristic.
* The text of the firmware's status, and a notification that the radio loses: a status
  pushed to a subscribed client arrives. For samples the model has the attempt to push only.
  `setValue` of the BLE library is one step.
* The brightness of the breathing LED (one level stands for the wave), and the
  Disconnected branch of `updateBleIndicator`, which no state of the program reaches.
* `MainWindow.UpdateMouthActionDetector`, an older detector that is never called.
* The texts, the motion preview, the indicators and the logs of `MainWindow` (display).
  Reading them one notices that `UpdateSampleCollectAvailability` replaces only three
  of its texts when the calibration becomes ready (lines 320-322), so that
  "IMU流已到达(未ready)" of line 312 stays.
* The exact phase of the blinking LED. A switch to Pairing between the clock read of
  `updateBleIndicator` and its comparison wraps the difference and toggles the LED at
  once; `LedSettles` only says that it blinks on.
* A trigger that was queued before the click counts for the sample that the click starts;
  its marker is in the file as well, so the tag is true, and the code promises no more.
* The viewer (drawing), the scripts (offline statistics in floating point), the sketches
  that only blink, echo or print, and the C++ LED client.
* Vendored code: ESP-IDF (`src/esp-idf`, more than 99 % of the lines in the repository),
  I2Cdev and MPU6050. None of it is the repository's own logic, and it appears only as
  the environment of the models.

## 8. Remarks for a reviewer of the code

Behaviours that the models show and that no run reports as a violation, because no document
says otherwise or because the properties are stated with the exception they make. The
hazards in `PROJECT.json` that no property covers, or only in part, carry a note that says
so.

* The application tells the user to hold for about 0.30 s (`MainWindow.xaml.cs:510`,
  `MainWindow.xaml:97`); the SDK's own `HoldSeconds` is 0.18 (`BleGestureClient.cs:75`).
* `begin()` advertises before it sets Pairing (`AppController.cpp:111-112`): a central
  that connects in between keeps a device that blinks and reports PAIRING (`early` in
  `ModeFollowsClient`).
* `publishStatus` builds and writes its text in two steps without a lock: an older text can
  replace a newer one and is then pushed. `ClientIsInformed` is about the pushing only.
* The push of `handleConnect` reaches nobody, because the client subscribes later; it is the
  SDK's read after subscribing that gives it the status.
* Two overlapping sends can fire the hotkey twice, and a release in between can let a
  plain Q through to the focused window; `OnlyOverlapsRepeat` and `GroupFires` say what
  is left.
* `HotkeyReceiver` publishes `_threadId` before the thread has a queue: a WM_QUIT posted
  in that moment is lost and Join waits for ever. The model has this behaviour, and no
  property of the receiver alone is checked.
* The debug client, when it is not terminated, counts an exception while disabling
  notifications after Enter as a failed session and starts the next one.
* The debug client does not log a status that changes and changes back between the log
  line of the initial read and its record.
* In the WiFi sketch a status that changes and changes back within the 200 ms of `loop()`
  can leave the LED wrong (`unseen`), and an empty password means "the stored one": an
  open network can only be joined after a CLEAR.
* A process that ends inside `StartSession` leaves a file with nothing but its header, or a
  part of its first line; one that ends in the middle of a batch may leave a torn last line.
  A reader of the files (`scripts/`) has to expect both (`FilesHoldOneSession`).
* A status callback of a device that was disposed can complete the signal of the next
  connection, which is then torn down and made again; and its Disconnected event can come
  after the Connected of the next connection (`BleGestureClient.cs:647-648`).
* A hold that began before a disconnect can fire at the first frame after the reconnect.
* Power that fails between the two `putString` calls of the WiFi sketch leaves a new name
  with an old password, which the next `setup()` tries (`StoredIsUsed` counts it as stored).
* The breathing phase is `millis()` modulo 2200, which does not divide 2^32: the
  brightness jumps when the clock wraps.

## 9. Plan

Done: every part of the suite that has state of its own, the debug client and the WiFi
sketch, with their properties, and the proofs of section 6. Next, in this order:

1. `LedLink`: the sketch `bleLedControl` and the C++ client that drives it.
2. The other sketches with state of their own (`wifiLedBlink`, `wifiTcpEcho`).
3. Safety lemmas behind the liveness properties (what cannot go wrong while the system
   waits), as far as they can be stated without fairness.
