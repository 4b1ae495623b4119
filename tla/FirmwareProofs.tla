--------------------------- MODULE FirmwareProofs ---------------------------
(***************************************************************************)
(* The two tasks of the firmware for every clock modulus, every interval   *)
(* and every bound: what the callbacks and begin() leave behind when they  *)
(* have run, and the spacing of the samples across the wrap of millis().   *)
(***************************************************************************)
EXTENDS Firmware, SequenceTheorems, TLAPS

-----------------------------------------------------------------------------
(* The inductive invariant *)

Started == pc["main"] \notin {"boot", "startBle"}

\* The callback that is under way has set clientConnected_, and a disconnect
\* has restarted advertising.
InCallback == pc["ble"] \in {"mode", "reset", "set", "notify"}

\* What may be outstanding, in the order in which it comes about.  An event
\* stays in the queue until its callback is over.
NothingDue ==
  /\ Len(events) = 0
  /\ pc["ble"] = "idle"
  /\ link <=> clientConnected
  /\ advertising <=> Started /\ ~link
  /\ link => Started

ConnectDue ==
  /\ Len(events) = 1 /\ events[1] = "connect"
  /\ Started /\ link /\ ~advertising
  /\ \/ pc["ble"] = "idle" /\ ~clientConnected
     \/ InCallback /\ clientConnected

ConnectAndDisconnectDue ==
  /\ Len(events) = 2 /\ events[1] = "connect" /\ events[2] = "disconnect"
  /\ Started /\ ~link /\ ~advertising
  /\ \/ pc["ble"] = "idle" /\ ~clientConnected
     \/ InCallback /\ clientConnected

DisconnectDue ==
  /\ Len(events) = 1 /\ events[1] = "disconnect"
  /\ Started /\ ~link
  /\ \/ pc["ble"] = "idle" /\ clientConnected /\ ~advertising
     \/ pc["ble"] = "advertise" /\ ~clientConnected /\ ~advertising
     \/ InCallback /\ ~clientConnected /\ advertising

\* The next central has connected before the callback of the last one is over.
DisconnectAndConnectDue ==
  /\ Len(events) = 2 /\ events[1] = "disconnect" /\ events[2] = "connect"
  /\ Started /\ link /\ ~advertising
  /\ InCallback /\ ~clientConnected

AllThreeDue ==
  /\ Len(events) = 3
  /\ events[1] = "disconnect" /\ events[2] = "connect" /\ events[3] = "disconnect"
  /\ Started /\ ~link /\ ~advertising
  /\ InCallback /\ ~clientConnected

Outstanding ==
  \/ NothingDue \/ ConnectDue \/ ConnectAndDisconnectDue
  \/ DisconnectDue \/ DisconnectAndConnectDue \/ AllThreeDue

\* Where begin() is, and where tick() goes on.
Resumption ==
  /\ pc["main"] \in {"boot", "startBle", "mode", "reset"} => resume = "begin"
  /\ pc["main"] \in {"idle", "indicator", "imu", "sample"} => resume = "idle"

\* A central that came before begin() had set Pairing is marked as such.
EarlyIsMarked == link /\ pc["main"] = "mode" => early

\* The mode, as far as the callbacks have got: what the one under way has set,
\* and between callbacks what the last one has.
ModeSoFar ==
  /\ ~Started => bleIndicatorMode # "Connected"
  /\ pc["main"] \notin {"boot", "startBle", "mode"} => bleIndicatorMode # "Disconnected"
  /\ NothingDue => (bleIndicatorMode = "Connected" => clientConnected)
  /\ NothingDue /\ ~early => (clientConnected => bleIndicatorMode = "Connected")
  /\ pc["ble"] \in {"reset", "set", "notify"} =>
       /\ events[1] = "disconnect" => bleIndicatorMode # "Connected"
       /\ ConnectDue /\ ~early => bleIndicatorMode = "Connected"

\* A client that has read the status misses the present one only while some
\* task is about to push it, or the callback of its connection is due, which
\* will publish again.
PushIsDue ==
  client = "stale" => pc["main"] = "notify" \/ InCallback \/ ~clientConnected

\* Only a connected central is a client.
ClientHasLink == client # "none" => link

\* As long as less than an interval has passed since the last sample, the
\* unsigned difference of the time stamps is the true time.
StampsTellTheTime ==
  sinceImu < ImuPublishInterval => Elapsed(clock, lastImuPublish) = sinceImu

IInv ==
  /\ TypeOK /\ Outstanding /\ Resumption /\ EarlyIsMarked /\ ModeSoFar
  /\ PushIsDue /\ ClientHasLink /\ StampsTellTheTime

-----------------------------------------------------------------------------
(* Lemmas about the operators of the model *)

\* Remainders of numbers between -m and 2m.
LEMMA NearMod ==
  ASSUME NEW m \in Nat \ {0}, NEW n \in Int, -m < n, n < 2 * m
  PROVE  n % m = IF n < 0 THEN n + m ELSE IF n < m THEN n ELSE n - m
<1> DEFINE q == n \div m
           r == n % m
<1>1. q \in Int /\ r \in 0..(m - 1)
  OBVIOUS
<1>2. n = m * q + r
  BY SMTT(60)
<1> HIDE DEF q, r
<1>3. q < 2
  <2> SUFFICES ASSUME q >= 2 PROVE FALSE
    BY <1>1
  <2>1. m * 2 <= m * q
    BY <1>1
  <2> QED BY <2>1, <1>1, <1>2
<1>4. q > -2
  <2> SUFFICES ASSUME q <= -2 PROVE FALSE
    BY <1>1
  <2>1. m * q <= m * (-2)
    BY <1>1
  <2> QED BY <2>1, <1>1, <1>2
<1>5. q = -1 \/ q = 0 \/ q = 1
  BY <1>1, <1>3, <1>4
<1>6. r = IF n < 0 THEN n + m ELSE IF n < m THEN n ELSE n - m
  BY <1>1, <1>2, <1>5
<1> QED BY <1>6 DEF r

\* millis() stays in its range, and a tick of it adds one to every age that
\* is not about to wrap (the unsigned subtractions of tick()).
LEMMA ClockStep ==
  ASSUME NEW c \in 0..ClockModulus - 1, NEW then \in 0..ClockModulus - 1
  PROVE  /\ (c + 1) % ClockModulus \in 0..ClockModulus - 1
         /\ Elapsed(c, then) + 1 < ClockModulus =>
              Elapsed((c + 1) % ClockModulus, then) = Elapsed(c, then) + 1
         /\ Elapsed(c, c) = 0
<1> DEFINE next == c + 1
           d == next % ClockModulus
           age == c - then
           nextAge == d - then
           none == c - c
<1>0. ClockModulus \in Nat \ {0}
  BY ClockAssumption
<1>1. d = IF next < ClockModulus THEN next ELSE 0
  <2>1. next \in Int /\ -ClockModulus < next /\ next <= ClockModulus /\ next < 2 * ClockModulus
        /\ ~(next < 0)
    BY <1>0
  <2> HIDE DEF next
  <2>2. next % ClockModulus = IF next < ClockModulus THEN next ELSE next - ClockModulus
    BY <1>0, <2>1, NearMod
  <2> QED BY <1>0, <2>1, <2>2
<1>2. age % ClockModulus = IF age < 0 THEN age + ClockModulus ELSE age
  <2>1. age \in Int /\ -ClockModulus < age /\ age < ClockModulus /\ age < 2 * ClockModulus
    BY <1>0
  <2> HIDE DEF age
  <2> QED BY <1>0, <2>1, NearMod
<1>3. nextAge % ClockModulus = IF nextAge < 0 THEN nextAge + ClockModulus ELSE nextAge
  <2>1. /\ nextAge \in Int /\ -ClockModulus < nextAge /\ nextAge < ClockModulus
        /\ nextAge < 2 * ClockModulus
    <3> HIDE DEF d
    <3> QED BY <1>0, <1>1
  <2> HIDE DEF nextAge
  <2> QED BY <1>0, <2>1, NearMod
<1>4. none % ClockModulus = 0
  <2>1. none = 0
    OBVIOUS
  <2> HIDE DEF none
  <2> QED BY <1>0, <2>1, NearMod
<1> HIDE DEF d
<1>5. d \in 0..ClockModulus - 1
  BY <1>0, <1>1
<1>6. Elapsed(c, then) + 1 < ClockModulus => Elapsed(d, then) = Elapsed(c, then) + 1
  BY <1>0, <1>1, <1>2, <1>3 DEF Elapsed
<1> QED BY <1>4, <1>5, <1>6 DEF d, Elapsed

\* The queue of events, entry by entry.
LEMMA Queue ==
  ASSUME TypeOK
  PROVE  /\ \A e \in {"connect", "disconnect"} :
              /\ Append(events, e) \in Seq({"connect", "disconnect"})
              /\ Len(Append(events, e)) = Len(events) + 1
              /\ Append(events, e)[Len(events) + 1] = e
              /\ \A i \in 1..Len(events) : Append(events, e)[i] = events[i]
         /\ Len(events) > 0 =>
              /\ Head(events) = events[1] /\ events[1] \in {"connect", "disconnect"}
              /\ Tail(events) \in Seq({"connect", "disconnect"})
              /\ Len(Tail(events)) = Len(events) - 1
              /\ \A i \in 1..Len(events) - 1 : Tail(events)[i] = events[i + 1]
         /\ events = <<>> <=> Len(events) = 0
BY DEF TypeOK

-----------------------------------------------------------------------------
(* Types *)

\* The parts of TypeOK.
Places ==
  /\ DOMAIN pc = Tasks
  /\ pc["main"] \in {"boot", "startBle", "mode", "reset", "set", "notify",
                     "idle", "indicator", "imu", "sample"}
  /\ pc["ble"] \in {"idle", "advertise", "mode", "reset", "set", "notify"}
  /\ resume \in {"begin", "idle", "sample"}

Times ==
  /\ clock \in 0..ClockModulus - 1 /\ lastBlinkToggle \in 0..ClockModulus - 1
  /\ lastImuPublish \in 0..ClockModulus - 1 /\ lastImuReadFailLog \in 0..ClockModulus - 1
  /\ now \in 0..ClockModulus - 1 /\ lag \in 0..MaxLag
  /\ imuReadFailCount \in 0..MaxFails
  /\ sinceImu \in 0..ImuPublishInterval

Flags ==
  /\ blinkOutputOn \in BOOLEAN /\ imuReady \in BOOLEAN
  /\ early \in BOOLEAN /\ clientConnected \in BOOLEAN
  /\ link \in BOOLEAN /\ advertising \in BOOLEAN

Texts ==
  /\ bleIndicatorMode \in Modes /\ led \in {"off", "on", "breath"}
  /\ client \in Clients

Due == events \in Seq({"connect", "disconnect"}) /\ Len(events) \in 0..3

\* The parts make up the whole.
LEMMA TypeParts == TypeOK <=> Places /\ Times /\ Flags /\ Texts /\ Due
BY DEF TypeOK, Places, Times, Flags, Texts, Due

\* A task goes on inside its own code, whichever step is taken.
LEMMA PlacesStep == TypeOK /\ Next => Places'
BY DEF TypeOK, Places, Tasks, At, indicatorVars, imuVars, bleVars, timeVars,
     Next, MainStep, BleStep, SetMode, ResetTimers, PublishStatus,
     SetStatus, NotifyStatus, Begin_Hardware, Begin_Transport, Tick_Start, Tick_Indicator,
     Tick_NoSample, Tick_ReadFails, Tick_ReadSucceeds, Tick_PublishImu, HandleConnect,
     HandleDisconnect, HandleDisconnect_Advertise, Central_Connect, Central_Disconnect,
     Central_Subscribe, Central_Read, Time_Passes

\* Time stamps stay below the modulus, ages and counters within their bounds.
LEMMA TimesStep == TypeOK /\ Next => Times'
<1> SUFFICES ASSUME TypeOK, Next PROVE Times'
  OBVIOUS
<1> USE DEF TypeOK, indicatorVars, imuVars, bleVars, timeVars,
     Next, MainStep, BleStep, SetMode, ResetTimers, PublishStatus,
     SetStatus, NotifyStatus, Begin_Hardware, Begin_Transport, Tick_Start, Tick_Indicator,
     Tick_NoSample, Tick_ReadFails, Tick_ReadSucceeds, Tick_PublishImu, HandleConnect,
     HandleDisconnect, HandleDisconnect_Advertise, Central_Connect, Central_Disconnect,
     Central_Subscribe, Central_Read, Time_Passes
<1>1. clock' \in 0..ClockModulus - 1
  <2>1. (clock + 1) % ClockModulus \in 0..ClockModulus - 1
    BY ClockStep
  <2> QED BY <2>1
<1>2. now' \in 0..ClockModulus - 1 /\ lag' \in 0..MaxLag
  BY ClockAssumption
<1>3. lastBlinkToggle' \in 0..ClockModulus - 1 /\ lastImuPublish' \in 0..ClockModulus - 1
      /\ lastImuReadFailLog' \in 0..ClockModulus - 1
  OBVIOUS
<1>4. imuReadFailCount' \in 0..MaxFails
  BY ClockAssumption
<1>5. sinceImu' \in 0..ImuPublishInterval
  BY ClockAssumption DEF Longer
<1> QED BY <1>1, <1>2, <1>3, <1>4, <1>5 DEF Times

\* Flags stay flags.
LEMMA FlagsStep == TypeOK /\ Next => Flags'
<1> SUFFICES ASSUME TypeOK, Next PROVE Flags'
  OBVIOUS
<1> USE DEF TypeOK, indicatorVars, imuVars, bleVars, timeVars,
     Next, MainStep, BleStep, SetMode, ResetTimers, PublishStatus,
     SetStatus, NotifyStatus, Begin_Hardware, Begin_Transport, Tick_Start, Tick_Indicator,
     Tick_NoSample, Tick_ReadFails, Tick_ReadSucceeds, Tick_PublishImu, HandleConnect,
     HandleDisconnect, HandleDisconnect_Advertise, Central_Connect, Central_Disconnect,
     Central_Subscribe, Central_Read, Time_Passes
<1>1. blinkOutputOn' \in BOOLEAN
  OBVIOUS
<1>2. imuReady' \in BOOLEAN
  OBVIOUS
<1>3. early' \in BOOLEAN
  OBVIOUS
<1>6. clientConnected' \in BOOLEAN
  OBVIOUS
<1>7. link' \in BOOLEAN
  OBVIOUS
<1>8. advertising' \in BOOLEAN
  OBVIOUS
<1> QED BY <1>1, <1>2, <1>3, <1>6, <1>7, <1>8 DEF Flags

\* Modes, light and client stay what they can be.
LEMMA TextsStep == TypeOK /\ Next => Texts'
BY DEF TypeOK, Texts, Modes, Tasks, Clients, Target, indicatorVars, imuVars, bleVars,
     timeVars,
     Next, MainStep, BleStep, SetMode, ResetTimers, PublishStatus,
     SetStatus, NotifyStatus, Begin_Hardware, Begin_Transport, Tick_Start, Tick_Indicator,
     Tick_NoSample, Tick_ReadFails, Tick_ReadSucceeds, Tick_PublishImu, HandleConnect,
     HandleDisconnect, HandleDisconnect_Advertise, Central_Connect, Central_Disconnect,
     Central_Subscribe, Central_Read, Time_Passes

-----------------------------------------------------------------------------
(* Control *)

Control == Outstanding /\ Resumption /\ EarlyIsMarked /\ ModeSoFar /\ PushIsDue /\ ClientHasLink

\* Each step of a task and of the stack keeps what is outstanding, the phase
\* of begin(), the mode and the debts of the status in step with each other.
LEMMA ControlStep == IInv /\ Next => Control'
<1> SUFFICES ASSUME IInv, Next PROVE Control'
  OBVIOUS
<1>a. TypeOK /\ Control
  BY DEF IInv, Control
<1>b. /\ DOMAIN pc = Tasks /\ Len(events) \in 0..3 /\ bleIndicatorMode \in Modes
      /\ resume \in {"begin", "idle", "sample"}
  BY <1>a DEF TypeOK
<1>c. /\ \A e \in {"connect", "disconnect"} :
           /\ Len(Append(events, e)) = Len(events) + 1
           /\ Append(events, e)[Len(events) + 1] = e
           /\ \A i \in 1..Len(events) : Append(events, e)[i] = events[i]
      /\ Len(events) > 0 =>
           /\ Head(events) = events[1] /\ events[1] \in {"connect", "disconnect"}
           /\ Len(Tail(events)) = Len(events) - 1
           /\ \A i \in 1..Len(events) - 1 : Tail(events)[i] = events[i + 1]
      /\ events = <<>> <=> Len(events) = 0
  BY <1>a, Queue
<1> USE <1>a, <1>b, <1>c DEF Tasks, Modes, At, Control, Outstanding, NothingDue, ConnectDue,
     ConnectAndDisconnectDue, DisconnectDue, DisconnectAndConnectDue, AllThreeDue, InCallback,
     Started, Resumption, EarlyIsMarked, ModeSoFar, PushIsDue, ClientHasLink,
     indicatorVars, imuVars, bleVars, timeVars
<1>1. CASE Begin_Hardware
  <2>1. Outstanding'
    BY <1>1 DEF Begin_Hardware
  <2>2. Resumption'
    BY <1>1 DEF Begin_Hardware
  <2>3. ModeSoFar'
    BY <1>1 DEF Begin_Hardware
  <2>4. EarlyIsMarked' /\ PushIsDue' /\ ClientHasLink'
    BY <1>1 DEF Begin_Hardware
  <2> QED BY <2>1, <2>2, <2>3, <2>4
<1>2. CASE Begin_Transport
  <2>1. Outstanding'
    BY <1>2 DEF Begin_Transport
  <2>2. Resumption'
    BY <1>2 DEF Begin_Transport
  <2>3. ModeSoFar'
    BY <1>2 DEF Begin_Transport
  <2>4. EarlyIsMarked' /\ PushIsDue' /\ ClientHasLink'
    BY <1>2 DEF Begin_Transport
  <2> QED BY <2>1, <2>2, <2>3, <2>4
<1>3. CASE SetMode("main")
  <2>1. Outstanding'
    BY <1>3 DEF SetMode, Target
  <2>2. ModeSoFar'
    BY <1>3 DEF SetMode, Target
  <2>3. Resumption'
    BY <1>3 DEF SetMode, Target
  <2>4. ClientHasLink'
    BY <1>3 DEF SetMode, Target
  <2>5. EarlyIsMarked' /\ PushIsDue'
    BY <1>3 DEF SetMode, Target
  <2> QED BY <2>1, <2>2, <2>3, <2>4, <2>5
<1>4. CASE ResetTimers("main")
  <2>1. Resumption'
    BY <1>4 DEF ResetTimers
  <2>2. ClientHasLink'
    BY <1>4 DEF ResetTimers
  <2>3. Outstanding' /\ EarlyIsMarked' /\ ModeSoFar' /\ PushIsDue'
    BY <1>4 DEF ResetTimers
  <2> QED BY <2>1, <2>2, <2>3
<1>6. CASE SetStatus("main")
  <2>1. Resumption'
    BY <1>6 DEF SetStatus
  <2>2. PushIsDue'
    BY <1>6 DEF SetStatus
  <2>3. ClientHasLink'
    BY <1>6 DEF SetStatus
  <2>4. Outstanding' /\ EarlyIsMarked' /\ ModeSoFar'
    BY <1>6 DEF SetStatus
  <2> QED BY <2>1, <2>2, <2>3, <2>4
<1>7. CASE NotifyStatus("main")
  <2>0. /\ pc["main"] = "notify" /\ pc'["main"] \in {"idle", "sample"} /\ pc'["ble"] = pc["ble"]
        /\ UNCHANGED <<events, link, clientConnected, advertising, early, bleIndicatorMode>>
        /\ resume' = "idle"
        /\ client' = IF clientConnected /\ client = "stale" THEN "current" ELSE client
    BY <1>7 DEF NotifyStatus
  <2>1. Resumption'
    BY <2>0
  <2>2. PushIsDue'
    BY <2>0
  <2>3. EarlyIsMarked'
    BY <2>0
  <2>4. ClientHasLink'
    BY <2>0
  <2>5. Outstanding' /\ ModeSoFar'
    BY <2>0
  <2> QED BY <2>1, <2>2, <2>3, <2>4, <2>5
<1>8. CASE Tick_Start
  <2>1. Resumption'
    BY <1>8 DEF Tick_Start
  <2>2. Outstanding' /\ EarlyIsMarked' /\ ModeSoFar' /\ PushIsDue' /\ ClientHasLink'
    BY <1>8 DEF Tick_Start
  <2> QED BY <2>1, <2>2
<1>9. CASE Tick_Indicator
  <2>1. Resumption'
    BY <1>9 DEF Tick_Indicator
  <2>2. Outstanding' /\ EarlyIsMarked' /\ ModeSoFar' /\ PushIsDue' /\ ClientHasLink'
    BY <1>9 DEF Tick_Indicator
  <2> QED BY <2>1, <2>2
<1>10. CASE Tick_NoSample
  <2>1. Resumption'
    BY <1>10 DEF Tick_NoSample
  <2>2. Outstanding' /\ EarlyIsMarked' /\ ModeSoFar' /\ PushIsDue' /\ ClientHasLink'
    BY <1>10 DEF Tick_NoSample
  <2> QED BY <2>1, <2>2
<1>11. CASE Tick_ReadFails
  <2>1. Resumption'
    BY <1>11 DEF Tick_ReadFails
  <2>2. ClientHasLink'
    BY <1>11 DEF Tick_ReadFails
  <2>3. Outstanding' /\ EarlyIsMarked' /\ ModeSoFar' /\ PushIsDue'
    BY <1>11 DEF Tick_ReadFails
  <2> QED BY <2>1, <2>2, <2>3
<1>12. CASE Tick_ReadSucceeds
  <2>1. Resumption'
    BY <1>12 DEF Tick_ReadSucceeds
  <2>2. ClientHasLink'
    BY <1>12 DEF Tick_ReadSucceeds
  <2>3. Outstanding' /\ EarlyIsMarked' /\ ModeSoFar' /\ PushIsDue'
    BY <1>12 DEF Tick_ReadSucceeds
  <2> QED BY <2>1, <2>2, <2>3
<1>13. CASE Tick_PublishImu
  <2>1. Resumption'
    BY <1>13 DEF Tick_PublishImu
  <2>2. Outstanding' /\ EarlyIsMarked' /\ ModeSoFar' /\ PushIsDue' /\ ClientHasLink'
    BY <1>13 DEF Tick_PublishImu
  <2> QED BY <2>1, <2>2
<1>14. CASE HandleConnect
  <2>1. Outstanding'
    BY <1>14 DEF HandleConnect
  <2>2. ModeSoFar'
    BY <1>14 DEF HandleConnect
  <2>3. PushIsDue'
    BY <1>14 DEF HandleConnect
  <2>4. Resumption' /\ EarlyIsMarked' /\ ClientHasLink'
    BY <1>14 DEF HandleConnect
  <2> QED BY <2>1, <2>2, <2>3, <2>4
<1>15. CASE HandleDisconnect
  <2>1. Outstanding'
    BY <1>15 DEF HandleDisconnect
  <2>2. ModeSoFar'
    BY <1>15 DEF HandleDisconnect
  <2>3. PushIsDue'
    BY <1>15 DEF HandleDisconnect
  <2>4. Resumption' /\ EarlyIsMarked' /\ ClientHasLink'
    BY <1>15 DEF HandleDisconnect
  <2> QED BY <2>1, <2>2, <2>3, <2>4
<1>16. CASE HandleDisconnect_Advertise
  <2>1. Outstanding'
    BY <1>16 DEF HandleDisconnect_Advertise
  <2>2. ModeSoFar'
    BY <1>16 DEF HandleDisconnect_Advertise
  <2>3. Resumption' /\ EarlyIsMarked' /\ PushIsDue' /\ ClientHasLink'
    BY <1>16 DEF HandleDisconnect_Advertise
  <2> QED BY <2>1, <2>2, <2>3
<1>17. CASE SetMode("ble")
  <2>1. Outstanding'
    BY <1>17 DEF SetMode, Target
  <2>2. ModeSoFar'
    BY <1>17 DEF SetMode, Target
  <2>3. ClientHasLink'
    BY <1>17 DEF SetMode, Target
  <2>4. Resumption' /\ EarlyIsMarked' /\ PushIsDue'
    BY <1>17 DEF SetMode, Target
  <2> QED BY <2>1, <2>2, <2>3, <2>4
<1>18. CASE ResetTimers("ble")
  <2>1. Outstanding'
    BY <1>18 DEF ResetTimers
  <2>2. ModeSoFar'
    BY <1>18 DEF ResetTimers
  <2>3. Resumption' /\ EarlyIsMarked' /\ PushIsDue' /\ ClientHasLink'
    BY <1>18 DEF ResetTimers
  <2> QED BY <2>1, <2>2, <2>3
<1>20. CASE SetStatus("ble")
  <2>1. Outstanding'
    BY <1>20 DEF SetStatus
  <2>2. PushIsDue'
    BY <1>20 DEF SetStatus
  <2>3. ClientHasLink'
    BY <1>20 DEF SetStatus
  <2>4. Resumption' /\ EarlyIsMarked' /\ ModeSoFar'
    BY <1>20 DEF SetStatus
  <2> QED BY <2>1, <2>2, <2>3, <2>4
<1>21. CASE NotifyStatus("ble")
  <2>1. Outstanding'
    BY <1>21 DEF NotifyStatus
  <2>2. ModeSoFar'
    BY <1>21 DEF NotifyStatus
  <2>3. PushIsDue'
    BY <1>21 DEF NotifyStatus
  <2>4. Resumption' /\ EarlyIsMarked' /\ ClientHasLink'
    BY <1>21 DEF NotifyStatus
  <2> QED BY <2>1, <2>2, <2>3, <2>4
<1>22. CASE Central_Connect
  <2>1. Outstanding'
    <3>1. CASE NothingDue
      BY <1>22, <3>1 DEF Central_Connect, Begun
    <3>2. CASE DisconnectDue
      BY <1>22, <3>2 DEF Central_Connect, Begun
    <3> QED BY <1>22, <3>1, <3>2 DEF Central_Connect, Begun
  <2>2. EarlyIsMarked'
    BY <1>22 DEF Central_Connect, Begun
  <2>3. ModeSoFar'
    BY <1>22 DEF Central_Connect, Begun
  <2>4. PushIsDue'
    BY <1>22 DEF Central_Connect, Begun
  <2>5. Resumption' /\ ClientHasLink'
    BY <1>22 DEF Central_Connect, Begun
  <2> QED BY <2>1, <2>2, <2>3, <2>4, <2>5
<1>23. CASE Central_Disconnect
  <2>1. Outstanding'
    <3>1. CASE NothingDue
      BY <1>23, <3>1 DEF Central_Disconnect
    <3>2. CASE ConnectDue
      BY <1>23, <3>2 DEF Central_Disconnect
    <3>3. CASE DisconnectAndConnectDue
      BY <1>23, <3>3 DEF Central_Disconnect
    <3> QED BY <1>23, <3>1, <3>2, <3>3 DEF Central_Disconnect
  <2>2. EarlyIsMarked'
    BY <1>23 DEF Central_Disconnect
  <2>3. ModeSoFar'
    BY <1>23 DEF Central_Disconnect
  <2>4. PushIsDue'
    BY <1>23 DEF Central_Disconnect
  <2>5. Resumption' /\ ClientHasLink'
    BY <1>23 DEF Central_Disconnect
  <2> QED BY <2>1, <2>2, <2>3, <2>4, <2>5
<1>24. CASE Central_Subscribe \/ Central_Read
  <2>1. Outstanding'
    BY <1>24 DEF Central_Subscribe, Central_Read
  <2>2. ModeSoFar'
    BY <1>24 DEF Central_Subscribe, Central_Read
  <2>3. PushIsDue' /\ ClientHasLink'
    BY <1>24 DEF Central_Subscribe, Central_Read
  <2>4. Resumption' /\ EarlyIsMarked'
    BY <1>24 DEF Central_Subscribe, Central_Read
  <2> QED BY <2>1, <2>2, <2>3, <2>4
<1>25. CASE Time_Passes
  BY <1>25 DEF Time_Passes
<1> QED
  BY <1>1, <1>2, <1>3, <1>4, <1>6, <1>7, <1>8, <1>9, <1>10, <1>11, <1>12, <1>13,
     <1>14, <1>15, <1>16, <1>17, <1>18, <1>20, <1>21, <1>22, <1>23, <1>24, <1>25
  DEF Next, MainStep, BleStep, PublishStatus

-----------------------------------------------------------------------------
(* The theorems *)

\* The device is started: nothing is outstanding, nobody is connected.
LEMMA InitIInv == Init => IInv
<1> SUFFICES ASSUME Init PROVE IInv
  OBVIOUS
<1> USE DEF Init
<1>1. TypeOK
  <2>1. Places /\ Due
    BY DEF Places, Due, Tasks
  <2>2. Times
    BY ClockAssumption DEF Times
  <2>3. Flags /\ Texts
    BY DEF Flags, Texts, Modes, Clients
  <2> QED BY <2>1, <2>2, <2>3, TypeParts
<1>2. Outstanding
  BY DEF Outstanding, NothingDue, Started
<1>3. Resumption /\ EarlyIsMarked /\ PushIsDue /\ ClientHasLink
  BY DEF Resumption, EarlyIsMarked, PushIsDue, ClientHasLink
<1>4. ModeSoFar
  BY DEF ModeSoFar
<1>5. StampsTellTheTime
  <2>1. 0 \in 0..ClockModulus - 1
    BY ClockAssumption
  <2>2. Elapsed(0, 0) = 0
    BY <2>1, ClockStep
  <2> QED BY <2>2 DEF StampsTellTheTime
<1> QED BY <1>1, <1>2, <1>3, <1>4, <1>5 DEF IInv

\* Every variable keeps its type.
LEMMA TypeStep == IInv /\ Next => TypeOK'
<1> SUFFICES ASSUME IInv, Next PROVE TypeOK'
  OBVIOUS
<1>1. TypeOK
  BY DEF IInv
<1>2. Due'
  <2>1. events' = events \/ Central_Connect \/ Central_Disconnect \/ NotifyStatus("ble")
    BY DEF Next, MainStep, BleStep, SetMode, ResetTimers, PublishStatus,
     SetStatus, NotifyStatus, Begin_Hardware, Begin_Transport, Tick_Start, Tick_Indicator,
     Tick_NoSample, Tick_ReadFails, Tick_ReadSucceeds, Tick_PublishImu, HandleConnect,
     HandleDisconnect, HandleDisconnect_Advertise, Central_Subscribe, Central_Read, Time_Passes, bleVars
  <2>2. CASE events' = events
    BY <2>2, <1>1 DEF Due, TypeOK
  <2>3. CASE Central_Connect \/ Central_Disconnect
    <3>1. Len(events) \in 0..2
      <4>1. ~AllThreeDue
        BY <2>3 DEF Central_Connect, Central_Disconnect, AllThreeDue
      <4>2. Len(events) = 0 \/ Len(events) = 1 \/ Len(events) = 2
        BY <4>1 DEF IInv, Outstanding, NothingDue, ConnectDue, ConnectAndDisconnectDue,
           DisconnectDue, DisconnectAndConnectDue
      <4> QED BY <4>2
    <3>2. events' = Append(events, "connect") \/ events' = Append(events, "disconnect")
      BY <2>3 DEF Central_Connect, Central_Disconnect
    <3>3. events' \in Seq({"connect", "disconnect"}) /\ Len(events') = Len(events) + 1
      BY <1>1, <3>2, Queue
    <3>4. Len(events') \in 0..3
      <4>1. PICK n \in 0..2 : Len(events) = n
        BY <3>1
      <4>2. n + 1 \in 0..3
        OBVIOUS
      <4> QED BY <3>3, <4>1, <4>2, Zenon
    <3> QED BY <3>3, <3>4 DEF Due
  <2>4. CASE NotifyStatus("ble")
    <3>1. Len(events) > 0
      BY <2>4 DEF NotifyStatus, At, IInv, Outstanding, NothingDue,
         ConnectDue, ConnectAndDisconnectDue, DisconnectDue, DisconnectAndConnectDue, AllThreeDue
    <3>2. events' = Tail(events)
      BY <2>4 DEF NotifyStatus
    <3> QED BY <1>1, <3>1, <3>2, Queue DEF Due, TypeOK
  <2> QED BY <2>1, <2>2, <2>3, <2>4
<1>3. Places' /\ Times' /\ Flags' /\ Texts'
  BY <1>1, PlacesStep, TimesStep, FlagsStep, TextsStep
<1> QED BY <1>2, <1>3, Zenon DEF TypeOK, Places, Times, Flags, Texts, Due

\* The age of the last sample and the time stamps run together: begin() and a
\* sample set both back, and only the clock moves them on.
LEMMA StampStep == IInv /\ Next => StampsTellTheTime'
<1> SUFFICES ASSUME IInv, Next, sinceImu' < ImuPublishInterval
             PROVE  Elapsed(clock', lastImuPublish') = sinceImu'
  BY DEF StampsTellTheTime
<1>1. /\ clock \in 0..ClockModulus - 1 /\ lastImuPublish \in 0..ClockModulus - 1
      /\ sinceImu \in 0..ImuPublishInterval
  BY DEF IInv, TypeOK
<1>2. CASE Time_Passes
  <2>1. sinceImu < ImuPublishInterval /\ sinceImu' = sinceImu + 1
    BY <1>1, <1>2, ClockAssumption DEF Time_Passes, Longer
  <2>2. Elapsed(clock, lastImuPublish) = sinceImu
    BY <2>1 DEF IInv, StampsTellTheTime
  <2>3. Elapsed(clock, lastImuPublish) + 1 < ClockModulus
    BY <1>1, <2>1, <2>2, ClockAssumption
  <2>4. clock' = (clock + 1) % ClockModulus /\ lastImuPublish' = lastImuPublish
    BY <1>2 DEF Time_Passes
  <2> QED BY <1>1, <2>1, <2>2, <2>3, <2>4, ClockStep
<1>3. CASE ResetTimers("main") \/ Tick_ReadSucceeds
  <2>1. clock' = clock /\ lastImuPublish' = clock /\ sinceImu' = 0
    BY <1>3 DEF ResetTimers, Tick_ReadSucceeds, timeVars
  <2> QED BY <1>1, <2>1, ClockStep
<1>4. CASE UNCHANGED <<clock, lastImuPublish, sinceImu>>
  BY <1>4 DEF IInv, StampsTellTheTime
<1>5. Time_Passes \/ ResetTimers("main") \/ Tick_ReadSucceeds
      \/ UNCHANGED <<clock, lastImuPublish, sinceImu>>
  BY DEF Next, MainStep, BleStep, SetMode, ResetTimers, PublishStatus,
     SetStatus, NotifyStatus, Begin_Hardware, Begin_Transport, Tick_Start, Tick_Indicator,
     Tick_NoSample, Tick_ReadFails, Tick_PublishImu, HandleConnect, HandleDisconnect,
     HandleDisconnect_Advertise, Central_Connect, Central_Disconnect, Central_Subscribe,
     Central_Read, imuVars, timeVars
<1> QED BY <1>2, <1>3, <1>4, <1>5

\* No step leaves the inductive invariant.
LEMMA StepIInv == IInv /\ [Next]_vars => IInv'
<1> SUFFICES ASSUME IInv, [Next]_vars PROVE IInv'
  OBVIOUS
<1>1. CASE Next
  BY <1>1, TypeStep, ControlStep, StampStep DEF IInv, Control
<1>2. CASE UNCHANGED vars
  <2> USE <1>2 DEF IInv, vars, indicatorVars, imuVars, bleVars, timeVars
  <2>1. TypeOK'
    BY DEF TypeOK
  <2>2. Outstanding'
    BY DEF Outstanding, NothingDue, ConnectDue, ConnectAndDisconnectDue, DisconnectDue,
       DisconnectAndConnectDue, AllThreeDue, InCallback, Started
  <2>3. Resumption' /\ EarlyIsMarked' /\ PushIsDue' /\ ClientHasLink'
    BY DEF Resumption, EarlyIsMarked, PushIsDue, ClientHasLink, InCallback
  <2>4. ModeSoFar'
    BY DEF ModeSoFar, NothingDue, ConnectDue, InCallback, Started
  <2>5. StampsTellTheTime'
    BY DEF StampsTellTheTime
  <2> QED BY <2>1, <2>2, <2>3, <2>4, <2>5
<1> QED BY <1>1, <1>2

\* The inductive invariant holds in every reachable state.
THEOREM Invariant == Spec => []IInv
BY InitIInv, StepIInv, PTL DEF Spec

\* Every variable keeps its type, and the stack never owes the firmware more
\* than a connect between two disconnects (BleTransport's callbacks).
THEOREM TypeCorrect == Spec => []TypeOK
<1>1. IInv => TypeOK
  BY DEF IInv
<1> QED BY <1>1, Invariant, PTL

\* Once the callbacks have run, the LED mode tells whether a client is
\* connected, unless it connected before begin() was over (onBleConnected,
\* onBleDisconnected against begin()).
THEOREM ModeIsRight == Spec => []ModeFollowsClient
<1>1. IInv => ModeFollowsClient
  <2> SUFFICES ASSUME IInv, Quiet, ~early
               PROVE  bleIndicatorMode = "Connected" <=> clientConnected
    BY DEF ModeFollowsClient
  <2>1. NothingDue
    BY DEF IInv, Quiet, Outstanding, NothingDue, ConnectDue, ConnectAndDisconnectDue,
       DisconnectDue, DisconnectAndConnectDue, AllThreeDue
  <2> QED BY <2>1 DEF IInv, ModeSoFar
<1> QED BY <1>1, Invariant, PTL

\* The device is never silently unreachable: whenever the callbacks have run
\* it is connected or advertising (handleDisconnect restarts advertising
\* before anything else can fail to).
THEOREM Reachable == Spec => []AlwaysReachable
<1>1. IInv => AlwaysReachable
  <2> SUFFICES ASSUME IInv, Quiet
               PROVE  link = clientConnected /\ (link \/ advertising)
    BY DEF AlwaysReachable
  <2>1. NothingDue /\ Started
    BY DEF IInv, Quiet, Outstanding, NothingDue, ConnectDue, ConnectAndDisconnectDue,
       DisconnectDue, DisconnectAndConnectDue, AllThreeDue, Started
  <2>2. link \in BOOLEAN /\ clientConnected \in BOOLEAN
    BY DEF IInv, TypeOK
  <2> QED BY <2>1, <2>2, Zenon DEF NothingDue
<1> QED BY <1>1, Invariant, PTL

\* A client that has subscribed and read never misses a later status, whichever
\* task published it and whenever the client came (publishStatus, run by both
\* tasks without a lock, and the order of the two calls in ConnectAsync).
THEOREM Informed == Spec => []ClientIsInformed
<1>1. IInv => ClientIsInformed
  <2> SUFFICES ASSUME IInv, Quiet, client = "stale" PROVE FALSE
    BY DEF ClientIsInformed
  <2>1. NothingDue
    BY DEF IInv, Quiet, Outstanding, NothingDue, ConnectDue, ConnectAndDisconnectDue,
       DisconnectDue, DisconnectAndConnectDue, AllThreeDue
  <2>2. link /\ clientConnected
    BY <2>1 DEF IInv, ClientHasLink, NothingDue
  <2> QED BY <2>2 DEF IInv, PushIsDue, Quiet, InCallback
<1> QED BY <1>1, Invariant, PTL

\* Two samples are at least an interval apart in true time, for every clock
\* modulus above the interval and wherever millis() wraps (AppController::tick).
THEOREM Spaced == Spec => SamplesAreSpaced
<1>1. IInv /\ [Next]_vars => [Tick_ReadSucceeds => sinceImu = ImuPublishInterval]_vars
  <2> SUFFICES ASSUME IInv, Tick_ReadSucceeds PROVE sinceImu = ImuPublishInterval
    OBVIOUS
  <2>1. /\ clock \in 0..ClockModulus - 1 /\ lastImuPublish \in 0..ClockModulus - 1
        /\ sinceImu \in 0..ImuPublishInterval
    BY DEF IInv, TypeOK
  <2>2. Elapsed(clock, lastImuPublish) >= ImuPublishInterval
    BY DEF Tick_ReadSucceeds, SampleDue
  <2>3. ~(sinceImu < ImuPublishInterval)
    BY <2>1, <2>2, ClockAssumption DEF IInv, StampsTellTheTime
  <2> QED BY <2>1, <2>3, ClockAssumption
<1> QED BY <1>1, Invariant, PTL DEF Spec, SamplesAreSpaced

\* updateBleIndicator never meets the mode Disconnected: begin() has left it
\* before the first tick and no callback returns to it, so Tick_Indicator
\* leaves out no branch that can be taken.
THEOREM NoDisconnectedBranch ==
  Spec => [](pc["main"] = "indicator" => bleIndicatorMode \in {"Pairing", "Connected"})
<1>1. IInv => (pc["main"] = "indicator" => bleIndicatorMode \in {"Pairing", "Connected"})
  BY DEF IInv, TypeOK, Modes, ModeSoFar
<1> QED BY <1>1, Invariant, PTL
=============================================================================
