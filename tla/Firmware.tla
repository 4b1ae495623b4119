------------------------------ MODULE Firmware ------------------------------
(***************************************************************************)
(* The firmware of the sensor (bleGestureControl): AppController,          *)
(* BleTransport and ImuSensor, run by two tasks without a lock between     *)
(* them.  The Arduino task executes begin() once and then tick() for ever; *)
(* the task of the Bluetooth stack executes handleConnect and              *)
(* handleDisconnect, one event after the other.  A task can be preempted   *)
(* wherever it has touched a field the other one uses, and each such point *)
(* is a value of its program counter.                                      *)
(*                                                                         *)
(* Time is millis(): it counts modulo ClockModulus (2^32 in the code) and  *)
(* the code subtracts time stamps modulo the same number.  LED levels are  *)
(* "off", "on" and "breath" (anywhere on the triangle wave).               *)
(***************************************************************************)
EXTENDS Integers, Sequences

CONSTANTS
  ClockModulus,             \* 2^32 for unsigned long
  ImuPublishInterval,       \* kImuPublishIntervalMs
  PairingBlinkInterval,     \* kPairingBlinkIntervalMs
  FailLogInterval,          \* the 1000 ms between failure reports
  MaxLag,                   \* the longest that one iteration of loop() takes
  MaxFails                  \* bound on consecutive failed reads

ASSUME ClockAssumption ==
  /\ ClockModulus \in Nat /\ ImuPublishInterval \in Nat \ {0}
  /\ PairingBlinkInterval \in Nat \ {0} /\ FailLogInterval \in Nat \ {0}
  /\ ImuPublishInterval < ClockModulus /\ PairingBlinkInterval < ClockModulus
  /\ FailLogInterval < ClockModulus
  /\ MaxLag \in Nat \ {0} /\ MaxFails \in Nat

VARIABLES
  pc,                    \* where each task is
  clock,                 \* millis()
  lag,                   \* time spent in this iteration of loop()
  bleIndicatorMode, blinkOutputOn, lastBlinkToggle, led,
  now,                   \* the local of updateBleIndicator
  imuReady, lastImuPublish, imuReadFailCount, lastImuReadFailLog,
  resume,                \* where the Arduino task goes on after publishStatus()
  clientConnected,       \* BleTransport::clientConnected_
  link, advertising, events,   \* the Bluetooth stack
  client,                \* how far the client is with the status, see Clients
  sinceImu,              \* auxiliary: true time since the last sample
  early                  \* auxiliary: the client connected before begin() set Pairing

indicatorVars == <<bleIndicatorMode, blinkOutputOn, lastBlinkToggle, led, now>>
imuVars == <<imuReady, lastImuPublish, imuReadFailCount, lastImuReadFailLog, sinceImu>>
bleVars == <<clientConnected, link, advertising, events, client, early>>
timeVars == <<clock, lag>>
vars == <<pc, indicatorVars, imuVars, resume, bleVars, timeVars>>

Tasks == {"main", "ble"}
Modes == {"Pairing", "Connected", "Disconnected"}

\* It has only connected; it has subscribed as well; it has read the status,
\* and has got, or has not got, the value that the characteristic holds now.
Clients == {"none", "subscribed", "current", "stale"}

\* now - then, as unsigned long
Elapsed(t, then) == (t - then) % ClockModulus

Longer(age, bound) == IF age < bound THEN age + 1 ELSE bound

\* Has begin() set Pairing?
Begun == pc["main"] \notin {"boot", "startBle", "mode"}

-----------------------------------------------------------------------------

Init ==
  /\ pc = [main |-> "boot", ble |-> "idle"]
  /\ clock = 0 /\ lag = 0
  /\ bleIndicatorMode = "Disconnected" /\ blinkOutputOn = FALSE
  /\ lastBlinkToggle = 0 /\ led = "off" /\ now = 0
  /\ imuReady = FALSE /\ lastImuPublish = 0
  /\ imuReadFailCount = 0 /\ lastImuReadFailLog = 0
  /\ resume = "begin"
  /\ clientConnected = FALSE /\ link = FALSE /\ advertising = FALSE /\ events = <<>>
  /\ client = "none"
  /\ sinceImu = 0 /\ early = FALSE

At(t, from, to) == pc[t] = from /\ pc' = [pc EXCEPT ![t] = to]

-----------------------------------------------------------------------------
(* setBleIndicatorMode and publishStatus, called by both tasks *)

\* begin() asks for Pairing, a callback for what its event calls for.
Target(t) == IF t = "ble" /\ Head(events) = "connect" THEN "Connected" ELSE "Pairing"

SetMode(t) ==
  /\ At(t, "mode", "reset")
  /\ bleIndicatorMode' = Target(t)
  /\ UNCHANGED <<blinkOutputOn, lastBlinkToggle, led, now, imuVars, resume,
                 bleVars, timeVars>>

\* The timers start over; begin() also starts the one of the samples.
ResetTimers(t) ==
  /\ At(t, "reset", "set")
  /\ blinkOutputOn' = FALSE
  /\ lastBlinkToggle' = clock
  /\ IF t = "main" THEN lastImuPublish' = clock /\ sinceImu' = 0
                   ELSE UNCHANGED <<lastImuPublish, sinceImu>>
  /\ UNCHANGED <<bleIndicatorMode, led, now, imuReady, imuReadFailCount,
                 lastImuReadFailLog, resume, bleVars, timeVars>>

\* The status has a new text, built from fields of both tasks; what it says is
\* not modelled, only who has got it.
SetStatus(t) ==
  /\ At(t, "set", "notify")
  /\ client' = IF client = "current" THEN "stale" ELSE client
  /\ UNCHANGED <<indicatorVars, imuVars, resume, clientConnected, link, advertising, events,
                 early, timeVars>>

\* Mutant: only the callbacks push.
NotifyStatus_CallbacksOnly(t) ==
  /\ At(t, "notify", IF t = "ble" \/ resume = "begin" THEN "idle" ELSE resume)
  /\ client' = IF t = "ble" /\ clientConnected /\ client = "stale" THEN "current" ELSE client
  /\ events' = IF t = "ble" THEN Tail(events) ELSE events
  /\ resume' = IF t = "main" THEN "idle" ELSE resume
  /\ UNCHANGED <<indicatorVars, imuVars, clientConnected, link,
                 advertising, early, timeVars>>

\* notify() sends the value that the characteristic holds by now, and reaches
\* a client that has subscribed (its BLE2902 descriptor).  A callback ends
\* here, and with it the event it was called for.
NotifyStatus(t) ==
  /\ At(t, "notify", IF t = "ble" \/ resume = "begin" THEN "idle" ELSE resume)
  /\ client' = IF clientConnected /\ client = "stale" THEN "current" ELSE client
  /\ events' = IF t = "ble" THEN Tail(events) ELSE events
  /\ resume' = IF t = "main" THEN "idle" ELSE resume
  /\ UNCHANGED <<indicatorVars, imuVars, clientConnected, link,
                 advertising, early, timeVars>>

PublishStatus(t) == SetStatus(t) \/ NotifyStatus(t)

-----------------------------------------------------------------------------
(* AppController::begin *)

\* The LED self-test leaves the LED off; ImuSensor::begin finds a sensor and
\* wakes it, or the firmware goes on without one.
Begin_Hardware ==
  /\ At("main", "boot", "startBle")
  /\ \E ready \in BOOLEAN : imuReady' = ready
  /\ UNCHANGED <<indicatorVars, lastImuPublish, imuReadFailCount, lastImuReadFailLog,
                 sinceImu, resume, bleVars, timeVars>>

\* BleTransport::begin: from here on a central can connect.
Begin_Transport ==
  /\ At("main", "startBle", "mode")
  /\ advertising' = TRUE
  /\ UNCHANGED <<indicatorVars, imuVars, resume, clientConnected, link, events, client, early, timeVars>>

-----------------------------------------------------------------------------
(* AppController::tick *)

\* The next iteration of loop(): updateBleIndicator reads the clock.
Tick_Start ==
  /\ At("main", "idle", "indicator")
  /\ now' = clock
  /\ lag' = 0
  /\ UNCHANGED <<bleIndicatorMode, blinkOutputOn, lastBlinkToggle, led,
                 imuVars, resume, bleVars, clock>>

BlinkDue == Elapsed(now, lastBlinkToggle) >= PairingBlinkInterval

\* Mutant: the phase is written but not flipped.
Tick_Indicator_NoFlip ==
  /\ At("main", "indicator", "imu")
  /\ now' = 0
  /\ \/ /\ bleIndicatorMode = "Pairing" /\ BlinkDue
        /\ lastBlinkToggle' = now
        /\ led' = IF blinkOutputOn THEN "off" ELSE "on"
        /\ UNCHANGED blinkOutputOn
     \/ /\ bleIndicatorMode = "Pairing" /\ ~BlinkDue
        /\ UNCHANGED <<lastBlinkToggle, blinkOutputOn, led>>
     \/ /\ bleIndicatorMode = "Connected"
        /\ led' = "breath"
        /\ UNCHANGED <<lastBlinkToggle, blinkOutputOn>>
  /\ UNCHANGED <<bleIndicatorMode, imuVars, resume, bleVars, timeVars>>

\* The rest of updateBleIndicator.  Its Disconnected branch is never taken:
\* begin() leaves that mode before the first tick and nothing returns to it.
Tick_Indicator ==
  /\ At("main", "indicator", "imu")
  /\ now' = 0
  /\ \/ /\ bleIndicatorMode = "Pairing" /\ BlinkDue
        /\ lastBlinkToggle' = now
        /\ blinkOutputOn' = ~blinkOutputOn
        /\ led' = IF blinkOutputOn THEN "off" ELSE "on"
     \/ /\ bleIndicatorMode = "Pairing" /\ ~BlinkDue
        /\ UNCHANGED <<lastBlinkToggle, blinkOutputOn, led>>
     \/ /\ bleIndicatorMode = "Connected"
        /\ led' = "breath"
        /\ UNCHANGED <<lastBlinkToggle, blinkOutputOn>>
  /\ UNCHANGED <<bleIndicatorMode, imuVars, resume, bleVars, timeVars>>

\* Mutant: the clock is compared with a deadline instead of subtracting.
SampleDue_Deadline ==
  /\ clientConnected /\ imuReady
  /\ clock >= (lastImuPublish + ImuPublishInterval) % ClockModulus

SampleDue ==
  clientConnected /\ imuReady /\ Elapsed(clock, lastImuPublish) >= ImuPublishInterval

\* Mutant: the time stamp is taken before the interval is looked at.
Tick_NoSample_Postpones ==
  /\ ~SampleDue
  /\ At("main", "imu", "idle")
  /\ lastImuPublish' = clock
  /\ UNCHANGED <<indicatorVars, imuReady, imuReadFailCount, lastImuReadFailLog, sinceImu,
                 resume, bleVars, timeVars>>

Tick_NoSample ==
  /\ ~SampleDue
  /\ At("main", "imu", "idle")
  /\ UNCHANGED <<indicatorVars, imuVars, resume, bleVars, timeVars>>

\* A failed read is counted, and reported when the last report is old enough.
Tick_ReadFails ==
  LET report == Elapsed(clock, lastImuReadFailLog) >= FailLogInterval IN
  /\ SampleDue
  /\ imuReadFailCount < MaxFails
  /\ At("main", "imu", IF report THEN "set" ELSE "idle")
  /\ imuReadFailCount' = imuReadFailCount + 1
  /\ lastImuReadFailLog' = IF report THEN clock ELSE lastImuReadFailLog
  /\ UNCHANGED <<indicatorVars, imuReady, lastImuPublish, sinceImu, resume, bleVars, timeVars>>

\* A sample ends a series of failures, which is reported before the sample.
Tick_ReadSucceeds ==
  /\ SampleDue
  /\ At("main", "imu", IF imuReadFailCount # 0 THEN "set" ELSE "sample")
  /\ lastImuPublish' = clock
  /\ sinceImu' = 0
  /\ imuReadFailCount' = 0
  /\ resume' = IF imuReadFailCount # 0 THEN "sample" ELSE resume
  /\ UNCHANGED <<indicatorVars, imuReady, lastImuReadFailLog, bleVars,
                 timeVars>>

\* publishImuSample writes the characteristic and pushes it to a client.
Tick_PublishImu ==
  /\ At("main", "sample", "idle")
  /\ UNCHANGED <<indicatorVars, imuVars, resume, bleVars, timeVars>>

MainStep ==
  \/ Begin_Hardware \/ Begin_Transport
  \/ SetMode("main") \/ ResetTimers("main") \/ PublishStatus("main")
  \/ Tick_Start \/ Tick_Indicator
  \/ Tick_NoSample \/ Tick_ReadFails \/ Tick_ReadSucceeds \/ Tick_PublishImu

-----------------------------------------------------------------------------
(* BleTransport::handleConnect and handleDisconnect *)

HandleConnect ==
  /\ events # <<>> /\ Head(events) = "connect"
  /\ At("ble", "idle", "mode")
  /\ clientConnected' = TRUE
  /\ UNCHANGED <<indicatorVars, imuVars, resume, link, advertising, events, client, early, timeVars>>

\* Mutant: advertising is not restarted.
HandleDisconnect_NoAdvertising ==
  /\ events # <<>> /\ Head(events) = "disconnect"
  /\ At("ble", "idle", "mode")
  /\ clientConnected' = FALSE
  /\ UNCHANGED <<indicatorVars, imuVars, resume, link, advertising, events, client, early, timeVars>>

HandleDisconnect ==
  /\ events # <<>> /\ Head(events) = "disconnect"
  /\ At("ble", "idle", "advertise")
  /\ clientConnected' = FALSE
  /\ UNCHANGED <<indicatorVars, imuVars, resume, link, advertising, events, client, early, timeVars>>

\* Mutant: onBleDisconnected only publishes.
HandleDisconnect_KeepsMode ==
  /\ At("ble", "advertise", "set")
  /\ advertising' = TRUE
  /\ UNCHANGED <<indicatorVars, imuVars, resume, clientConnected, link, events, client, early, timeVars>>

\* The device can be found again before onBleDisconnected runs.
HandleDisconnect_Advertise ==
  /\ At("ble", "advertise", "mode")
  /\ advertising' = TRUE
  /\ UNCHANGED <<indicatorVars, imuVars, resume, clientConnected, link, events, client, early, timeVars>>

BleStep ==
  \/ HandleConnect \/ HandleDisconnect \/ HandleDisconnect_Advertise
  \/ SetMode("ble") \/ ResetTimers("ble") \/ PublishStatus("ble")

-----------------------------------------------------------------------------
(* The Bluetooth stack, a central, and time *)

\* The stack stops advertising when a central connects.
Central_Connect ==
  /\ advertising /\ ~link
  /\ link' = TRUE /\ early' = ~Begun
  /\ advertising' = FALSE
  /\ events' = Append(events, "connect")
  /\ client' = "none"
  /\ UNCHANGED <<pc, indicatorVars, imuVars, resume, clientConnected, timeVars>>

Central_Disconnect ==
  /\ link
  /\ link' = FALSE /\ early' = FALSE
  /\ events' = Append(events, "disconnect")
  /\ client' = "none"
  /\ UNCHANGED <<pc, indicatorVars, imuVars, resume, clientConnected, advertising, timeVars>>

\* The client writes the descriptor and then reads the value, as the SDK does
\* (BleGestureClient.ConnectAsync), at any time after the link is up.
Central_Subscribe ==
  /\ link /\ client = "none"
  /\ client' = "subscribed"
  /\ UNCHANGED <<pc, indicatorVars, imuVars, resume, clientConnected, link, advertising,
                 events, early, timeVars>>

Central_Read ==
  /\ client = "subscribed"
  /\ client' = "current"
  /\ UNCHANGED <<pc, indicatorVars, imuVars, resume, clientConnected, link, advertising,
                 events, early, timeVars>>

\* Time passes; one iteration of loop() takes at most MaxLag of it.
Time_Passes ==
  /\ lag < MaxLag
  /\ lag' = lag + 1
  /\ clock' = (clock + 1) % ClockModulus
  /\ sinceImu' = Longer(sinceImu, ImuPublishInterval)
  /\ UNCHANGED <<pc, bleIndicatorMode, blinkOutputOn, lastBlinkToggle, led, now, imuReady,
                 lastImuPublish, imuReadFailCount, lastImuReadFailLog, resume, bleVars>>

Next ==
  \/ MainStep \/ BleStep
  \/ Central_Connect \/ Central_Disconnect \/ Central_Subscribe \/ Central_Read
  \/ Time_Passes

Spec == Init /\ [][Next]_vars

\* The scheduler runs both tasks and the clock does not stop; no central is
\* obliged to do anything.
Fairness == WF_vars(MainStep) /\ WF_vars(BleStep) /\ WF_vars(Time_Passes)

FairSpec == Spec /\ Fairness

-----------------------------------------------------------------------------
(* Properties *)

\* Every variable keeps its type, and at most a connect, a disconnect and the
\* next connect are outstanding.
TypeOK ==
  /\ DOMAIN pc = Tasks
  /\ pc["main"] \in {"boot", "startBle", "mode", "reset", "set", "notify",
                     "idle", "indicator", "imu", "sample"}
  /\ pc["ble"] \in {"idle", "advertise", "mode", "reset", "set", "notify"}
  /\ clock \in 0..ClockModulus - 1 /\ lastBlinkToggle \in 0..ClockModulus - 1
  /\ lastImuPublish \in 0..ClockModulus - 1 /\ lastImuReadFailLog \in 0..ClockModulus - 1
  /\ now \in 0..ClockModulus - 1 /\ lag \in 0..MaxLag
  /\ bleIndicatorMode \in Modes /\ led \in {"off", "on", "breath"}
  /\ blinkOutputOn \in BOOLEAN /\ imuReady \in BOOLEAN
  /\ imuReadFailCount \in 0..MaxFails
  /\ sinceImu \in 0..ImuPublishInterval
  /\ resume \in {"begin", "idle", "sample"} /\ early \in BOOLEAN
  /\ clientConnected \in BOOLEAN /\ link \in BOOLEAN /\ advertising \in BOOLEAN /\ client \in Clients
  /\ events \in Seq({"connect", "disconnect"}) /\ Len(events) \in 0..3

\* Neither task is inside a handler and no event is outstanding.
Quiet == pc["main"] = "idle" /\ pc["ble"] = "idle" /\ events = <<>>

\* Once the callbacks have run, the indicator tells whether a client is
\* connected (the comment of onBleConnected: connected means breathing).  The
\* exception is a central that found the device before begin() had set Pairing:
\* begin() may overwrite the mode of its callback, until that central leaves.
ModeFollowsClient ==
  Quiet /\ ~early => (bleIndicatorMode = "Connected" <=> clientConnected)

\* Whenever the callbacks have run, the device is connected or can be found:
\* it is never silently unreachable.
AlwaysReachable == Quiet => link = clientConnected /\ (link \/ advertising)

\* A client that has subscribed and then read the status never misses a later
\* one: when both tasks are at rest it has got what the characteristic holds,
\* whichever task wrote it last and wherever between a setValue, its notify and
\* the callback of its own connection it came.
ClientIsInformed == Quiet => client # "stale"

\* Two samples are at least ImuPublishInterval apart in true time, also
\* across the wrap of millis() and after any absence of clients.
SamplesAreSpaced == [][Tick_ReadSucceeds => sinceImu = ImuPublishInterval]_vars

\* A client that stays connected to a working sensor gets sample after sample.
StreamFlows ==
  <>[](clientConnected /\ imuReady /\ imuReadFailCount = 0) => []<><<Tick_PublishImu>>_vars

\* The LED settles: it breathes for a client that came after begin() and stays,
\* and blinks on and on while nobody is connected, whatever interleaving led there.
LedSettles ==
  /\ <>[](clientConnected /\ ~early) => <>[](led = "breath")
  /\ <>[](~clientConnected /\ ~link) => []<>(led = "on") /\ []<>(led = "off")
=============================================================================
