----------------------------- MODULE DebugClient -----------------------------
(***************************************************************************)
(* BleGestureDebugClient: a console program that scans for the sensor,     *)
(* finds its status characteristic and logs the values it is notified of,  *)
(* or polls in a second thread, until Enter is pressed.  Up to MaxSessions *)
(* sessions are tried.  Each `.get()' of a Bluetooth operation may succeed,*)
(* report a failure or throw hresult_error.                                *)
(***************************************************************************)
EXTENDS Integers

CONSTANTS
  MaxSessions,     \* 10
  MaxAttempts,     \* 6, of GetStatusCharacteristic
  Payloads,        \* what the status can be
  None,            \* std::optional without a value
  MaxChanges       \* bound on the changes of the status

ASSUME ClientAssumption ==
  /\ MaxSessions \in Nat \ {0} /\ MaxAttempts \in Nat \ {0} /\ MaxChanges \in Nat
  /\ None \notin Payloads

VARIABLES
  main, session, attempt,      \* the main thread and its two loops
  props,                       \* what the characteristic supports
  initial,                     \* the payload of the initial read
  poll, polled,                \* the polling thread and the payload it has read
  stopRequested, lastPolled,   \* shared by the two threads
  status, changes,             \* the value of the characteristic in the sensor
  shown                        \* auxiliary: has that value been logged since it is there?

loopVars == <<session, attempt>>
pollVars == <<poll, polled>>
sharedVars == <<stopRequested, lastPolled>>
deviceVars == <<status, changes, shown>>
vars == <<main, loopVars, props, initial, pollVars, sharedVars, deviceVars>>

Ended == {"exit 0", "exit 1", "aborted"}

Init ==
  /\ main = "scan" /\ session = 1 /\ attempt = 1
  /\ props = {} /\ initial = None
  /\ poll = "none" /\ polled = None
  /\ stopRequested = FALSE /\ lastPolled = None
  /\ status \in Payloads /\ changes = 0 /\ shown = FALSE

Step(from, to) == main = from /\ main' = to

-----------------------------------------------------------------------------
(* main, ScanTargetAddress, GetStatusCharacteristic *)

\* Mutant: the retry after an error does not count.
SessionOver_Again == "pause"

\* Where the catch clauses of main lead.
SessionOver == IF session < MaxSessions THEN "pause" ELSE "exit 1"

\* An advertisement with the name or the service, and a device that opens.
Scan_Found ==
  /\ Step("scan", "discover")
  /\ attempt' = 1
  /\ UNCHANGED <<session, props, initial, pollVars, sharedVars, deviceVars>>

\* The scan times out, the device cannot be opened, or a call throws.
Scan_Fails ==
  /\ Step("scan", SessionOver)
  /\ UNCHANGED <<loopVars, props, initial, pollVars, sharedVars, deviceVars>>

\* SubscribeStatusNotifications starts with fresh locals, and with the polling
\* thread if the value can be read.
Discover_Found(p) ==
  /\ p # {}
  /\ Step("discover", IF "Notify" \in p THEN "enable" ELSE "read")
  /\ props' = p
  /\ poll' = IF "Read" \in p THEN "sleep" ELSE "none"
  /\ stopRequested' = FALSE /\ lastPolled' = None
  /\ changes' = 0 /\ shown' = FALSE
  /\ UNCHANGED <<loopVars, initial, polled, status>>

\* Neither readable nor notifiable: an error at once.
Discover_Useless ==
  /\ Step("discover", SessionOver)
  /\ UNCHANGED <<loopVars, props, initial, pollVars, sharedVars, deviceVars>>

Discover_Fails ==
  /\ IF attempt < MaxAttempts THEN main = "discover" /\ UNCHANGED main
                              ELSE Step("discover", SessionOver)
  /\ attempt' = IF attempt < MaxAttempts THEN attempt + 1 ELSE attempt
  /\ UNCHANGED <<session, props, initial, pollVars, sharedVars, deviceVars>>

\* "Retry after 2 seconds..."
Retry ==
  /\ Step("pause", "scan")
  /\ session' = IF session < MaxSessions THEN session + 1 ELSE session
  /\ UNCHANGED <<attempt, props, initial, pollVars, sharedVars, deviceVars>>

-----------------------------------------------------------------------------
(* SubscribeStatusNotifications *)

\* The CCCD is written or not; both are only logged.
Enable ==
  /\ Step("enable", "read")
  /\ UNCHANGED <<loopVars, props, initial, pollVars, sharedVars, deviceVars>>

InitialRead ==
  /\ "Read" \in props
  /\ Step("read", "log")
  /\ initial' = status
  /\ UNCHANGED <<loopVars, props, pollVars, sharedVars, deviceVars>>

\* The value cannot be read, or the read reports a failure.
InitialRead_None ==
  /\ Step("read", "listen")
  /\ UNCHANGED <<loopVars, props, initial, pollVars, sharedVars, deviceVars>>

\* Mutant: the payload is recorded and not logged.
InitialRead_Log_Silent ==
  /\ Step("log", "record")
  /\ UNCHANGED <<loopVars, props, initial, pollVars, sharedVars, deviceVars>>

InitialRead_Log ==
  /\ Step("log", "record")
  /\ shown' = (shown \/ initial = status)
  /\ UNCHANGED <<loopVars, props, initial, pollVars, sharedVars, status, changes>>

InitialRead_Record ==
  /\ Step("record", "listen")
  /\ lastPolled' = initial
  /\ initial' = None
  /\ UNCHANGED <<loopVars, props, pollVars, stopRequested, deviceVars>>

\* An exception leaves the function.  If the polling thread was started, it
\* is still joinable when its std::thread is destroyed: std::terminate.
Subscribe_Throws ==
  /\ Step(main, IF "Read" \in props THEN "aborted" ELSE SessionOver)
  /\ main = "enable" \/ (main = "read" /\ "Read" \in props)
  /\ poll' = "none" /\ polled' = None
  /\ UNCHANGED <<loopVars, props, initial, sharedVars, deviceVars>>

Enter ==
  /\ Step("listen", "join")
  /\ stopRequested' = TRUE
  /\ UNCHANGED <<loopVars, props, initial, pollVars, lastPolled, deviceVars>>

Join ==
  /\ poll \in {"none", "ended"}
  /\ Step("join", IF "Notify" \in props THEN "disable" ELSE "exit 0")
  /\ UNCHANGED <<loopVars, props, initial, pollVars, sharedVars, deviceVars>>

Disable ==
  /\ Step("disable", "exit 0")
  /\ UNCHANGED <<loopVars, props, initial, pollVars, sharedVars, deviceVars>>

\* The write throws: main takes it for a failed session.
Disable_Throws ==
  /\ Step("disable", SessionOver)
  /\ UNCHANGED <<loopVars, props, initial, pollVars, sharedVars, deviceVars>>

MainStep ==
  \/ Scan_Found \/ Scan_Fails \/ Discover_Useless \/ Discover_Fails \/ Retry
  \/ \E p \in SUBSET {"Read", "Notify"} : Discover_Found(p)
  \/ Enable \/ InitialRead \/ InitialRead_None \/ InitialRead_Log \/ InitialRead_Record
  \/ Subscribe_Throws \/ Join \/ Disable \/ Disable_Throws

-----------------------------------------------------------------------------
(* The polling thread *)

Poll_Wake ==
  /\ poll = "sleep"
  /\ poll' = IF stopRequested THEN "ended" ELSE "read"
  /\ UNCHANGED <<main, loopVars, props, initial, polled, sharedVars, deviceVars>>

Poll_Read ==
  /\ poll = "read"
  /\ poll' = "compare"
  /\ polled' = status
  /\ UNCHANGED <<main, loopVars, props, initial, sharedVars, deviceVars>>

Poll_ReadFails ==
  /\ poll = "read"
  /\ poll' = "sleep"
  /\ UNCHANGED <<main, loopVars, props, initial, polled, sharedVars, deviceVars>>

\* Under the mutex.
Poll_Compare ==
  /\ poll = "compare"
  /\ lastPolled' = polled
  /\ poll' = IF lastPolled = polled THEN "sleep" ELSE "log"
  /\ polled' = IF lastPolled = polled THEN None ELSE polled
  /\ UNCHANGED <<main, loopVars, props, initial, stopRequested, deviceVars>>

Poll_Log ==
  /\ poll = "log"
  /\ poll' = "sleep"
  /\ shown' = (shown \/ polled = status)
  /\ polled' = None
  /\ UNCHANGED <<main, loopVars, props, initial, sharedVars, status, changes>>

PollStep == Poll_Wake \/ Poll_Read \/ Poll_ReadFails \/ Poll_Compare \/ Poll_Log

-----------------------------------------------------------------------------

Status_Changes(p) ==
  /\ changes < MaxChanges /\ p # status
  /\ main \notin Ended
  /\ status' = p /\ changes' = changes + 1 /\ shown' = FALSE
  /\ UNCHANGED <<main, loopVars, props, initial, pollVars, sharedVars>>

\* The handler of the subscription logs what it is notified of.  It holds no
\* state, and nothing guarantees that a notification arrives.
ValueChanged ==
  /\ "Notify" \in props /\ main \in {"read", "log", "record", "listen", "join", "disable"}
  /\ shown' = TRUE
  /\ UNCHANGED <<main, loopVars, props, initial, pollVars, sharedVars, status, changes>>

Next ==
  \/ MainStep \/ PollStep \/ Enter \/ ValueChanged
  \/ \E p \in Payloads : Status_Changes(p)

\* Both threads run and every Bluetooth operation returns; no reader is
\* obliged to press Enter, and attempts may fail for ever.
Spec == Init /\ [][Next]_vars /\ WF_vars(MainStep) /\ WF_vars(PollStep)

-----------------------------------------------------------------------------
(* Properties *)

\* The sessions and their attempts come to an end: unless the runtime ends the
\* program, it reaches the prompt or an exit of its own, however sessions fail.
EndsOrListens ==
  [](main # "aborted") => (main # "listen" ~> main \in {"exit 0", "exit 1", "listen"})

\* The program gives up only after its last session ("If BLE session fails, it
\* retries up to 10 times").  An exception of SubscribeStatusNotifications while
\* the polling thread runs ends it in whatever session it is.
GivesUpOnlyAfterLastSession ==
  main \in {"exit 1", "aborted"} => session = MaxSessions

\* While it listens and polls succeed, the status of the sensor gets into the
\* log, also when it changes while the initial read and the first polls
\* overlap ("It logs each RX payload").  It may change once: after a change
\* and its reversal between the log line of the initial read and the
\* assignment to lastPolledPayload, the restored status counts as known.
StatusIsLogged ==
  [](changes <= 1) /\ <>[](main = "listen") /\ []<><<Poll_Read>>_vars => <>[]shown
=============================================================================
