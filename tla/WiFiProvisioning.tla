-------------------------- MODULE WiFiProvisioning --------------------------
(***************************************************************************)
(* The sketch bleWiFiProvisioning: a BLE client writes a network name and  *)
(* a password and sends commands; the device stores them and joins.        *)
(*                                                                         *)
(* Two tasks share everything: the task of setup() and loop(), and the     *)
(* task of the BLE callbacks, which has the higher priority on the only    *)
(* core.  A callback therefore runs without interruption up to a delay(),  *)
(* and its delay() of 300 ms outlasts what the other task does between two *)
(* delays.  Power may fail at any point.  The text of the status           *)
(* characteristic, which is all that STATUS changes, is left out.          *)
(***************************************************************************)
EXTENDS Naturals

CONSTANTS
  Ssids, Passwords,
  Empty,            \* the empty string
  Accepted          \* the pairs that an access point accepts

Pairs == [ssid : Ssids \union {Empty}, pass : Passwords \union {Empty}]

ASSUME AcceptedAssumption ==
  Empty \notin Ssids \union Passwords /\ Accepted \subseteq {p \in Pairs : p.ssid # Empty}

VARIABLES
  stored,           \* the preferences "ssid" and "pass"
  pending,          \* pendingSsid and pendingPassword
  wifi,             \* "off", "trying" or "up"
  network,          \* the pair that WiFi.begin was given
  led,              \* is it on?
  lastStatus,       \* of loop(): "idle", "up" or "down"
  main,             \* where the task of setup() and loop() is
  ssidArg, level,   \* its locals: the name given to WiFi.begin, the level to write
  ble,              \* where the task of the callbacks is
  link,             \* "free" (advertising), "client", or "gone": not yet handled
  wanted,           \* auxiliary: the pair of a CONNECT that nothing has revoked
  touched,          \* auxiliary: a callback interfered with setup()
  unseen            \* auxiliary: the status is back at what loop() saw last

memory == <<stored, pending>>
radio == <<wifi, network>>
loopVars == <<lastStatus, main, ssidArg, level>>
auxiliary == <<wanted, touched>>
vars == <<memory, radio, led, loopVars, ble, link, auxiliary, unseen>>

Nobody == [ssid |-> Empty, pass |-> Empty]

InSetup == main \in {"boot", "found", "enter", "delay", "args"}
MainSleeps == main \in {"delay", "wait", "poll"}
BleSleeps == ble \in {"idle", "delay", "wait"}

\* The reasons for not being connected are not told apart.
WiFiStatus == IF wifi = "up" THEN "up" ELSE "down"

Init ==
  /\ stored = Nobody /\ pending = Nobody
  /\ wifi = "off" /\ network = Nobody
  /\ led = FALSE
  /\ lastStatus = "idle" /\ main = "boot" /\ ssidArg = Empty /\ level = FALSE
  /\ ble = "idle" /\ link = "free"
  /\ wanted = Nobody /\ touched = FALSE /\ unseen = FALSE

\* WiFi.begin refuses an empty name.
Begin(pair) ==
  IF pair.ssid = Empty THEN UNCHANGED radio
                       ELSE wifi' = "trying" /\ network' = pair

\* WiFi.disconnect(true, true)
Disconnect == wifi' = "off" /\ network' = Nobody

-----------------------------------------------------------------------------
(* setup() and loop() *)

Main(from, to) == main = from /\ BleSleeps /\ main' = to

\* Up to the start of advertising nobody else runs.
Setup_Begin ==
  /\ Main("boot", "found")
  /\ pending' = stored
  /\ link' = "free"
  /\ UNCHANGED <<stored, radio, led, lastStatus, ssidArg, level, ble, auxiliary>>

\* if (pendingSsid.length() > 0)
Setup_Found ==
  /\ Main("found", IF pending.ssid # Empty THEN "enter" ELSE "led")
  /\ UNCHANGED <<memory, radio, led, lastStatus, ssidArg, level, ble, link, auxiliary>>

\* connectToWiFi takes its arguments by reference: they are pending itself.
Setup_Enter ==
  /\ Main("enter", IF pending.ssid # Empty THEN "delay" ELSE "led")
  /\ IF pending.ssid # Empty THEN Disconnect ELSE UNCHANGED radio
  /\ UNCHANGED <<memory, led, lastStatus, ssidArg, level, ble, link, auxiliary>>

Setup_Args ==
  /\ Main("delay", "args")
  /\ ssidArg' = pending.ssid
  /\ UNCHANGED <<memory, radio, led, lastStatus, level, ble, link, auxiliary>>

Setup_WiFiBegin ==
  /\ Main("args", "wait")
  /\ Begin([ssid |-> ssidArg, pass |-> pending.pass])
  /\ ssidArg' = Empty
  /\ UNCHANGED <<memory, led, lastStatus, level, ble, link, auxiliary>>

\* Connected, or 15 seconds are over; setup() then updates the LED as well.
Setup_Waited ==
  /\ Main("wait", "led")
  /\ UNCHANGED <<memory, radio, led, lastStatus, ssidArg, level, ble, link, auxiliary>>

\* Mutant: loop() waits for the connection only.
Loop_Poll_UpOnly ==
  /\ Main("poll", "publish") /\ WiFiStatus # lastStatus /\ WiFiStatus = "up"
  /\ lastStatus' = WiFiStatus
  /\ UNCHANGED <<memory, radio, led, ssidArg, level, ble, link, auxiliary>>

Loop_Poll ==
  /\ Main("poll", "publish") /\ WiFiStatus # lastStatus
  /\ lastStatus' = WiFiStatus
  /\ UNCHANGED <<memory, radio, led, ssidArg, level, ble, link, auxiliary>>

Loop_Publish ==
  /\ Main("publish", "led")
  /\ UNCHANGED <<memory, radio, led, lastStatus, ssidArg, level, ble, link, auxiliary>>

\* updateLed reads the status and then writes the level.
Main_ReadStatus ==
  /\ Main("led", "write")
  /\ level' = (wifi = "up")
  /\ UNCHANGED <<memory, radio, led, lastStatus, ssidArg, ble, link, auxiliary>>

Main_WriteLed ==
  /\ Main("write", "poll")
  /\ led' = level
  /\ level' = FALSE
  /\ UNCHANGED <<memory, radio, lastStatus, ssidArg, ble, link, auxiliary>>

MainStep ==
  \/ Setup_Begin \/ Setup_Found \/ Setup_Enter \/ Setup_Args \/ Setup_WiFiBegin
  \/ Setup_Waited \/ Loop_Poll \/ Loop_Publish \/ Main_ReadStatus \/ Main_WriteLed

-----------------------------------------------------------------------------
(* The callbacks *)

\* A callback of a client's write.
Callback == ble = "idle" /\ link = "client" /\ main # "boot"

updateLed == led' = (wifi' = "up")

\* StringWriteCallbacks of the two characteristics.
Write(pair) ==
  /\ Callback
  /\ \/ pair.ssid # pending.ssid /\ pair.pass = pending.pass
     \/ pair.ssid = pending.ssid /\ pair.pass # pending.pass
  /\ pending' = pair
  /\ wanted' = Nobody /\ touched' = (touched \/ InSetup)
  /\ UNCHANGED <<stored, radio, led, loopVars, ble, link>>

\* CLEAR: the first key is removed, and then the second one.
Command_Clear ==
  /\ Callback
  /\ ble' = "clearing"
  /\ Disconnect
  /\ stored' = [stored EXCEPT !.ssid = Empty]
  /\ wanted' = Nobody /\ touched' = InSetup
  /\ UNCHANGED <<pending, led, loopVars, link>>

Clear_Second ==
  /\ ble = "clearing" /\ ble' = "idle"
  /\ stored' = Nobody /\ pending' = Nobody
  /\ UNCHANGED <<radio, led, loopVars, link, auxiliary>>

Command_Disconnect ==
  /\ Callback
  /\ Disconnect
  /\ updateLed
  /\ wanted' = Nobody /\ touched' = InSetup
  /\ UNCHANGED <<memory, loopVars, ble, link>>

\* CONNECT: what was not written is taken from the store.
Completed ==
  [ssid |-> IF pending.ssid = Empty THEN stored.ssid ELSE pending.ssid,
   pass |-> IF pending.pass = Empty THEN stored.pass ELSE pending.pass]

Command_ConnectNothing ==
  /\ Callback /\ Completed.ssid = Empty
  /\ pending' = Completed
  /\ UNCHANGED <<stored, radio, led, loopVars, ble, link, auxiliary>>

Command_Connect ==
  /\ Callback /\ Completed.ssid # Empty
  /\ ble' = "saving"
  /\ pending' = Completed
  /\ stored' = [stored EXCEPT !.ssid = Completed.ssid]
  /\ wanted' = Completed /\ touched' = InSetup
  /\ UNCHANGED <<radio, led, loopVars, link>>

\* Mutant: the password is stored when the connection has been made.
Connect_Enter_StoresLater ==
  /\ ble = "saving" /\ ble' = "delay"
  /\ Disconnect
  /\ UNCHANGED <<memory, led, loopVars, link, auxiliary>>

\* The second key is stored, and connectToWiFi runs up to its delay.
Connect_Enter ==
  /\ ble = "saving" /\ ble' = "delay"
  /\ stored' = [stored EXCEPT !.pass = pending.pass]
  /\ Disconnect
  /\ UNCHANGED <<pending, led, loopVars, link, auxiliary>>

Connect_WiFiBegin ==
  /\ ble = "delay" /\ MainSleeps /\ ble' = "wait"
  /\ Begin(pending)
  /\ UNCHANGED <<memory, led, loopVars, link, auxiliary>>

\* Mutant: an attempt that has timed out is ended.
Connect_Waited_GivesUp ==
  /\ ble = "wait" /\ ble' = "idle"
  /\ IF wifi = "up" THEN UNCHANGED radio ELSE Disconnect
  /\ updateLed
  /\ UNCHANGED <<memory, loopVars, link, auxiliary>>

\* Connected, or 20 seconds are over; the station goes on trying.
Connect_Waited ==
  /\ ble = "wait" /\ ble' = "idle"
  /\ UNCHANGED radio /\ updateLed
  /\ UNCHANGED <<memory, loopVars, link, auxiliary>>

\* ServerCallbacks: advertising stops with a connection and is started again.
Client_Connects ==
  /\ ble = "idle" /\ main # "boot" /\ link = "free" /\ link' = "client"
  /\ UNCHANGED <<memory, radio, led, loopVars, ble, auxiliary>>

Client_Leaves ==
  /\ link = "client" /\ link' = "gone"
  /\ UNCHANGED <<memory, radio, led, loopVars, ble, auxiliary>>

onDisconnect ==
  /\ ble = "idle" /\ link = "gone" /\ link' = "free"
  /\ UNCHANGED <<memory, radio, led, loopVars, ble, auxiliary>>

Commands ==
  \/ \E pair \in Pairs : Write(pair)
  \/ Command_Clear \/ Command_Disconnect
  \/ Command_ConnectNothing \/ Command_Connect

Handlers ==
  Clear_Second \/ Connect_Enter \/ Connect_WiFiBegin \/ Connect_Waited \/ onDisconnect

-----------------------------------------------------------------------------
(* The surroundings *)

Associate ==
  /\ wifi = "trying" /\ network \in Accepted /\ BleSleeps
  /\ wifi' = "up"
  /\ UNCHANGED <<memory, network, led, loopVars, ble, link, auxiliary>>

\* The station goes on trying by itself.
LoseNetwork ==
  /\ wifi = "up" /\ BleSleeps
  /\ wifi' = "trying"
  /\ UNCHANGED <<memory, network, led, loopVars, ble, link, auxiliary>>

PowerFails ==
  /\ main' = "boot" /\ ble' = "idle" /\ link' = "free"
  /\ pending' = Nobody /\ wifi' = "off" /\ network' = Nobody
  /\ led' = FALSE
  /\ lastStatus' = "idle" /\ ssidArg' = Empty /\ level' = FALSE
  /\ wanted' = Nobody /\ touched' = FALSE
  /\ UNCHANGED stored

\* Keeps unseen: set by a change back to lastStatus, cleared by the next one
\* and by whatever changes lastStatus.
Observe ==
  unseen' = IF WiFiStatus' # WiFiStatus THEN WiFiStatus' = lastStatus'
            ELSE unseen /\ lastStatus' = lastStatus

Next ==
  /\ \/ MainStep \/ Commands \/ Handlers
     \/ Client_Connects \/ Client_Leaves
     \/ Associate \/ LoseNetwork \/ PowerFails
  /\ Observe

\* Both tasks are scheduled; an access point that accepts a pair lets a
\* station in that keeps trying.
Fairness ==
  /\ SF_vars(MainStep /\ Observe)
  /\ WF_vars(Handlers /\ Observe)
  /\ SF_vars(Associate /\ Observe)

Spec == Init /\ [][Next]_vars /\ Fairness

-----------------------------------------------------------------------------
(* Properties *)

\* Every variable keeps its type.
TypeOK ==
  /\ stored \in Pairs /\ pending \in Pairs /\ network \in Pairs /\ wanted \in Pairs
  /\ wifi \in {"off", "trying", "up"} /\ led \in BOOLEAN /\ level \in BOOLEAN
  /\ lastStatus \in {"idle", "up", "down"} /\ ssidArg \in Ssids \union {Empty}
  /\ main \in {"boot", "found", "enter", "delay", "args", "wait", "led", "write",
               "poll", "publish"}
  /\ ble \in {"idle", "saving", "delay", "wait", "clearing"}
  /\ link \in {"free", "client", "gone"}
  /\ touched \in BOOLEAN /\ unseen \in BOOLEAN

\* The device uses the pair that it will use again after a power failure,
\* even one that a power failure left half replaced.  Only what a client
\* writes while setup() is about to join can make a difference.
StoredIsUsed ==
  wifi # "off" /\ BleSleeps /\ ~touched => network = stored

\* A CONNECT with a pair that the network accepts gets the device there and,
\* after every loss of the network, back, even where setup() was joining
\* another network at the time and ends that attempt with the shared radio.
ProvisioningSucceeds ==
  \A pair \in Accepted :
    <>[](wanted = pair) => []<>(wifi = "up" /\ network = pair)

\* The LED comes to show whether the device is connected, although CLEAR and
\* the loss of the network leave it to loop() and although updateLed is no
\* single step.  The one exception is a status that changes and changes back
\* between two looks of loop(): nothing makes it look again.
LedSettles ==
  \A on \in BOOLEAN :
    <>[]((wifi = "up") = on) => <>[](led = on \/ unseen)
=============================================================================
