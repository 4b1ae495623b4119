------------------------ MODULE ConnectionLifecycle ------------------------
(***************************************************************************)
(* The connection life cycle of the SDK (BleGestureClient.cs): the         *)
(* auto-reconnect loop, DisconnectAsync and StopAutoReconnectLoopAsync     *)
(* called by the application, and the link status callback of the          *)
(* operating system, sharing a gate, a device and a disconnect signal.     *)
(*                                                                         *)
(* Each asynchronous method is a process; its program counter stops at     *)
(* every await and wherever another thread can observe a field it has      *)
(* written.  With SingleContext the methods all run on one UI thread and   *)
(* give it up only at an await, as in the GestureLab application; without  *)
(* it continuations run on any pool thread, as in a console program.       *)
(***************************************************************************)
EXTENDS Naturals

CONSTANTS
  SingleContext,      \* do continuations share one synchronization context?
  UserDisconnects,    \* does the application call DisconnectAsync on its own?
  DiscoverAttempts    \* service discovery attempts (6 in the code)

ASSUME ContextAssumption == SingleContext \in BOOLEAN /\ UserDisconnects \in BOOLEAN
ASSUME AttemptsAssumption == DiscoverAttempts \in Nat \ {0}

VARIABLES
  pc,           \* where each method is
  gate,         \* _connectionGate: its holder, or "free"
  device,       \* _device is not null (its status handler is attached)
  link,         \* _device.ConnectionStatus
  chars,        \* the two characteristics are not null
  attempt,      \* discovery attempts made
  signal,       \* _disconnectSignal: "none" (null), "pending" or "completed"
  waitingOn,    \* the task the loop awaits: the field's ("current"), or completed
  taskSet,      \* _autoReconnectTask is not null
  cancelled,    \* the loop's token is cancelled
  callbacks,    \* status callbacks in flight (see Callbacks)
  lifecycle     \* the last ConnectionStateChanged event

vars == <<pc, gate, device, link, chars, attempt, signal, waitingOn, taskSet,
          cancelled, callbacks, lifecycle>>

Procs == {"loop", "user", "stop"}

\* Points where a method awaits, and so gives up the UI thread.
Awaits == {"off", "idle", "acquire", "disableStatus", "disableImu", "scan",
           "open", "discover", "enableStatus", "enableImu", "readStatus",
           "readImu", "wait", "delay", "join"}

\* Points where a method computes.
Computes == {"top", "core", "dispose", "publish", "connected", "check", "arm",
             "armed", "again"}

\* Points of ConnectAsync and DisconnectAsync that hold the gate.
Critical == {"core", "disableStatus", "disableImu", "dispose", "scan", "open",
             "discover", "enableStatus", "enableImu", "readStatus", "readImu",
             "publish", "connected"}

IsConnected == device /\ link = "up"

-----------------------------------------------------------------------------

Init ==
  /\ pc = [p \in Procs |-> IF p = "loop" THEN "off" ELSE "idle"]
  /\ gate = "free"
  /\ device = FALSE /\ link = "down" /\ chars = FALSE /\ attempt = 0
  /\ signal = "none" /\ waitingOn = "none"
  /\ taskSet = FALSE /\ cancelled = FALSE
  /\ callbacks = {}
  /\ lifecycle = "Disconnected"

\* A method has given up the UI thread.  The continuation of the Stop method
\* runs inline when the loop it awaits completes.
Yielded(q) == pc[q] \in Awaits /\ ~(q = "stop" /\ pc[q] = "join" /\ pc["loop"] = "off")

\* On one UI thread nothing moves while another method computes.
MayRun(p) == SingleContext => \A q \in Procs \ {p} : Yielded(q)

Go(p, from, to) ==
  /\ pc[p] = from
  /\ MayRun(p)
  /\ pc' = [pc EXCEPT ![p] = to]

\* _disconnectSignal?.TrySetResult(true)
CompleteSignal ==
  waitingOn' = IF signal = "pending" /\ waitingOn = "current" THEN "done" ELSE waitingOn

-----------------------------------------------------------------------------
(* The gate and DisconnectCoreAsync, shared by the three methods *)

\* await _connectionGate.WaitAsync(...)
Acquire(p) ==
  /\ gate = "free"
  /\ Go(p, "acquire", "core")
  /\ gate' = p
  /\ UNCHANGED <<device, link, chars, attempt, signal, waitingOn, taskSet,
                 cancelled, callbacks, lifecycle>>

\* Mutant: the signal is forgotten but not completed.
Core_Signal_Incomplete(p) ==
  /\ Go(p, "core", IF chars THEN "disableStatus" ELSE "dispose")
  /\ signal' = "none"
  /\ UNCHANGED <<gate, device, link, chars, attempt, waitingOn, taskSet, cancelled,
                 callbacks, lifecycle>>

\* Complete and forget the signal; with characteristics, go on to disable
\* their notifications.
Core_Signal(p) ==
  /\ Go(p, "core", IF chars THEN "disableStatus" ELSE "dispose")
  /\ CompleteSignal
  /\ signal' = "none"
  /\ UNCHANGED <<gate, device, link, chars, attempt, taskSet, cancelled,
                 callbacks, lifecycle>>

\* DisableNotifySafeAsync swallows every failure.
Core_DisableNotify(p) ==
  /\ \/ Go(p, "disableStatus", "disableImu")
     \/ Go(p, "disableImu", "dispose")
  /\ UNCHANGED <<gate, device, link, chars, attempt, signal, waitingOn, taskSet,
                 cancelled, callbacks, lifecycle>>

\* Mutant: Disconnected is not raised.
Core_Dispose_Silent(p) ==
  /\ Go(p, "dispose", IF p = "loop" THEN "scan" ELSE "idle")
  /\ gate' = IF p = "loop" THEN gate ELSE "free"
  /\ device' = FALSE /\ link' = "down" /\ chars' = FALSE
  /\ callbacks' = {[c EXCEPT !.sender = "disposed"] : c \in callbacks}
  /\ UNCHANGED <<attempt, signal, waitingOn, taskSet, cancelled, lifecycle>>

\* Dispose of the device and raise Disconnected.  A callback already in
\* flight still runs.  ConnectAsync goes on to scan, DisconnectAsync returns.
Core_Dispose(p) ==
  /\ Go(p, "dispose", IF p = "loop" THEN "scan" ELSE "idle")
  /\ gate' = IF p = "loop" THEN gate ELSE "free"
  /\ device' = FALSE /\ link' = "down" /\ chars' = FALSE
  /\ callbacks' = {[c EXCEPT !.sender = "disposed"] : c \in callbacks}
  /\ lifecycle' = IF p = "loop" THEN "Scanning" ELSE "Disconnected"
  /\ UNCHANGED <<attempt, signal, waitingOn, taskSet, cancelled>>

GateAndCore(p) ==
  Acquire(p) \/ Core_Signal(p) \/ Core_DisableNotify(p) \/ Core_Dispose(p)

-----------------------------------------------------------------------------
(* ConnectAsync after its DisconnectCoreAsync *)

\* ConnectAsync throws: the gate is released, the device stays as it is.
Connect_Exit(from, to) ==
  /\ Go("loop", from, to)
  /\ gate' = "free"
  /\ attempt' = 0
  /\ UNCHANGED <<device, link, chars, signal, waitingOn, taskSet,
                 cancelled, callbacks, lifecycle>>

Connect_Fail(from) == Connect_Exit(from, "again")

\* The token is cancelled: the loop ends.
Connect_Cancel(from) == cancelled /\ Connect_Exit(from, "off")

\* The advertisement was seen.
Connect_Found ==
  /\ ~cancelled
  /\ Go("loop", "scan", "open")
  /\ UNCHANGED <<gate, device, link, chars, attempt, signal, waitingOn, taskSet,
                 cancelled, callbacks, lifecycle>>

Connect_ScanTimeout == Connect_Fail("scan")

\* The device object exists and its status is watched, but it is not linked
\* yet.  A token cancelled meanwhile is noticed before the first discovery.
Connect_Open ==
  /\ Go("loop", "open", IF cancelled THEN "off" ELSE "discover")
  /\ gate' = IF cancelled THEN "free" ELSE gate
  /\ device' = TRUE
  /\ attempt' = IF cancelled THEN 0 ELSE 1
  /\ UNCHANGED <<link, chars, signal, waitingOn, taskSet, cancelled,
                 callbacks, lifecycle>>

Connect_OpenFailed == Connect_Fail("open")

Connect_Discovered ==
  /\ link = "up"
  /\ Go("loop", "discover", "enableStatus")
  /\ chars' = TRUE
  /\ attempt' = 0
  /\ UNCHANGED <<gate, device, link, signal, waitingOn, taskSet,
                 cancelled, callbacks, lifecycle>>

Connect_DiscoverAgain ==
  /\ ~cancelled
  /\ attempt < DiscoverAttempts
  /\ Go("loop", "discover", "discover")
  /\ attempt' = attempt + 1
  /\ UNCHANGED <<gate, device, link, chars, signal, waitingOn, taskSet,
                 cancelled, callbacks, lifecycle>>

\* A characteristic is missing, or the attempts are used up.
Connect_DiscoverFailed == Connect_Fail("discover")

\* A CCCD write succeeds on a link that is up.
Connect_Enabled ==
  /\ link = "up"
  /\ \/ Go("loop", "enableStatus", "enableImu")
     \/ Go("loop", "enableImu", "readStatus")
  /\ UNCHANGED <<gate, device, link, chars, attempt, signal, waitingOn, taskSet,
                 cancelled, callbacks, lifecycle>>

Connect_EnableFailed == Connect_Fail("enableStatus") \/ Connect_Fail("enableImu")

\* A read that does not succeed is ignored.
Connect_Read ==
  /\ \/ Go("loop", "readStatus", "readImu")
     \/ Go("loop", "readImu", "publish")
  /\ UNCHANGED <<gate, device, link, chars, attempt, signal, waitingOn, taskSet,
                 cancelled, callbacks, lifecycle>>

\* A read whose operation throws (the device is gone).
Connect_ReadThrows == Connect_Fail("readStatus") \/ Connect_Fail("readImu")

\* Cancellation surfaces at the cancellable awaits.
Connect_Cancelled ==
  \E from \in {"scan", "discover", "enableStatus", "enableImu", "readStatus", "readImu"} :
    Connect_Cancel(from)

Connect_NewSignal ==
  /\ Go("loop", "publish", "connected")
  /\ signal' = "pending"
  /\ UNCHANGED <<gate, device, link, chars, attempt, waitingOn, taskSet,
                 cancelled, callbacks, lifecycle>>

Connect_RaiseConnected ==
  /\ Go("loop", "connected", "check")
  /\ lifecycle' = "Connected"
  /\ gate' = "free"
  /\ UNCHANGED <<device, link, chars, attempt, signal, waitingOn, taskSet,
                 cancelled, callbacks>>

ConnectAsync ==
  \/ Connect_Found \/ Connect_ScanTimeout \/ Connect_Open \/ Connect_OpenFailed
  \/ Connect_Discovered \/ Connect_DiscoverAgain \/ Connect_DiscoverFailed
  \/ Connect_Enabled \/ Connect_EnableFailed
  \/ Connect_Read \/ Connect_ReadThrows
  \/ Connect_Cancelled
  \/ Connect_NewSignal \/ Connect_RaiseConnected

-----------------------------------------------------------------------------
(* MaintainConnectionLoopAsync and WaitForDisconnectAsync *)

Loop_Top ==
  /\ Go("loop", "top", IF cancelled THEN "off" ELSE "acquire")
  /\ UNCHANGED <<gate, device, link, chars, attempt, signal, waitingOn, taskSet,
                 cancelled, callbacks, lifecycle>>

\* Cancelled while waiting for the gate or during the 500 ms delay.
Loop_CancelledOutside ==
  /\ cancelled
  /\ Go("loop", "acquire", "off") \/ Go("loop", "delay", "off")
  /\ UNCHANGED <<gate, device, link, chars, attempt, signal, waitingOn, taskSet,
                 cancelled, callbacks, lifecycle>>

Wait_Check ==
  /\ Go("loop", "check", IF IsConnected THEN "arm" ELSE "again")
  /\ UNCHANGED <<gate, device, link, chars, attempt, signal, waitingOn, taskSet,
                 cancelled, callbacks, lifecycle>>

\* Mutant: = instead of ??=.
Wait_Arm_Fresh ==
  /\ Go("loop", "arm", "armed")
  /\ signal' = "pending"
  /\ UNCHANGED <<gate, device, link, chars, attempt, waitingOn, taskSet,
                 cancelled, callbacks, lifecycle>>

\* _disconnectSignal ??= new
Wait_Arm ==
  /\ Go("loop", "arm", "armed")
  /\ signal' = IF signal = "none" THEN "pending" ELSE signal
  /\ UNCHANGED <<gate, device, link, chars, attempt, waitingOn, taskSet,
                 cancelled, callbacks, lifecycle>>

\* _disconnectSignal.Task: a null reference is caught by the loop.
Wait_Await ==
  /\ \/ /\ signal # "none"
        /\ Go("loop", "armed", "wait")
        /\ waitingOn' = IF signal = "pending" THEN "current" ELSE "done"
     \/ /\ signal = "none"
        /\ Go("loop", "armed", "again")
        /\ UNCHANGED waitingOn
  /\ UNCHANGED <<gate, device, link, chars, attempt, signal, taskSet,
                 cancelled, callbacks, lifecycle>>

Wait_Signalled ==
  /\ waitingOn = "done"
  /\ Go("loop", "wait", "again")
  /\ waitingOn' = "none"
  /\ UNCHANGED <<gate, device, link, chars, attempt, signal, taskSet,
                 cancelled, callbacks, lifecycle>>

\* Mutant: the wait does not observe the token.
Wait_Cancelled_Unseen == FALSE

Wait_Cancelled ==
  /\ cancelled
  /\ Go("loop", "wait", "off")
  /\ waitingOn' = "none"
  /\ UNCHANGED <<gate, device, link, chars, attempt, signal, taskSet,
                 cancelled, callbacks, lifecycle>>

\* Mutant: one attempt only.
Loop_Again_Stops ==
  /\ Go("loop", "again", "off")
  /\ UNCHANGED <<gate, device, link, chars, attempt, signal, waitingOn, taskSet,
                 cancelled, callbacks, lifecycle>>

\* After an attempt, whatever its outcome: stop, or announce the next scan.
Loop_Again ==
  /\ Go("loop", "again", IF cancelled THEN "off" ELSE "delay")
  /\ lifecycle' = IF cancelled THEN lifecycle ELSE "Scanning"
  /\ UNCHANGED <<gate, device, link, chars, attempt, signal, waitingOn, taskSet,
                 cancelled, callbacks>>

Loop_DelayOver ==
  /\ Go("loop", "delay", "top")
  /\ UNCHANGED <<gate, device, link, chars, attempt, signal, waitingOn, taskSet,
                 cancelled, callbacks, lifecycle>>

LoopStep ==
  \/ GateAndCore("loop") \/ ConnectAsync
  \/ Loop_Top \/ Loop_CancelledOutside
  \/ Wait_Check \/ Wait_Arm \/ Wait_Await \/ Wait_Signalled \/ Wait_Cancelled
  \/ Loop_Again \/ Loop_DelayOver

-----------------------------------------------------------------------------
(* The application *)

\* StartAutoReconnectLoopAsync; a no-op while the loop is active.  While a
\* Stop awaits the loop the method finds it active; without a UI thread to
\* order them the application does not call Start before its Stop returned.
Start ==
  /\ ~(taskSet /\ pc["loop"] # "off")
  /\ pc["stop"] # "join"
  /\ SingleContext \/ pc["stop"] = "idle"
  /\ SingleContext => \A q \in Procs : Yielded(q)
  /\ pc' = [pc EXCEPT !["loop"] = "top"]
  /\ taskSet' = TRUE
  /\ cancelled' = FALSE
  /\ UNCHANGED <<gate, device, link, chars, attempt, signal, waitingOn,
                 callbacks, lifecycle>>

\* DisconnectAsync on its own.
User_Disconnect ==
  /\ UserDisconnects
  /\ Go("user", "idle", "acquire")
  /\ UNCHANGED <<gate, device, link, chars, attempt, signal, waitingOn, taskSet,
                 cancelled, callbacks, lifecycle>>

\* StopAutoReconnectLoopAsync: cancel, await the loop, disconnect.
Stop_Call ==
  /\ Go("stop", "idle", IF taskSet THEN "join" ELSE "acquire")
  /\ cancelled' = (cancelled \/ taskSet)
  /\ UNCHANGED <<gate, device, link, chars, attempt, signal, waitingOn, taskSet,
                 callbacks, lifecycle>>

\* Mutant: Stop does not disconnect after the loop has ended.
Stop_Joined_StaysConnected ==
  /\ pc["loop"] = "off"
  /\ Go("stop", "join", "idle")
  /\ taskSet' = FALSE
  /\ UNCHANGED <<gate, device, link, chars, attempt, signal, waitingOn,
                 cancelled, callbacks, lifecycle>>

Stop_Joined ==
  /\ pc["loop"] = "off"
  /\ Go("stop", "join", "acquire")
  /\ taskSet' = FALSE
  /\ UNCHANGED <<gate, device, link, chars, attempt, signal, waitingOn,
                 cancelled, callbacks, lifecycle>>

StopStep == Stop_Joined \/ GateAndCore("stop")

UserStep == GateAndCore("user")

-----------------------------------------------------------------------------
(* The Bluetooth stack and Device_ConnectionStatusChanged *)

\* The operations of ConnectAsync bring the link up.
Link_Up ==
  /\ device /\ link = "down"
  /\ pc["loop"] \in {"discover", "enableStatus", "enableImu", "readStatus", "readImu"}
  /\ link' = "up"
  /\ UNCHANGED <<pc, gate, device, chars, attempt, signal, waitingOn, taskSet,
                 cancelled, callbacks, lifecycle>>

\* The link is lost; a pool thread will run the handler.
Link_Down ==
  /\ device /\ link = "up"
  /\ link' = "down"
  /\ callbacks' = callbacks \cup {[sender |-> "current", next |-> "signal"]}
  /\ UNCHANGED <<pc, gate, device, chars, attempt, signal, waitingOn, taskSet,
                 cancelled, lifecycle>>

\* Mutant: the handler reacts to the wrong status.
Callback_Signal_Ignored(c) ==
  /\ c.next = "signal"
  /\ callbacks' = callbacks \ {c}
  /\ UNCHANGED <<pc, gate, device, link, chars, attempt, signal, waitingOn, taskSet,
                 cancelled, lifecycle>>

\* The handler looks at its sender, then completes whatever signal the field
\* holds by now.  What a disposed sender answers is not defined.
Callback_Signal(c) ==
  /\ c.next = "signal"
  /\ \/ /\ c.sender = "disposed" \/ link = "down"
        /\ CompleteSignal
        /\ signal' = IF signal = "pending" THEN "completed" ELSE signal
        /\ callbacks' = (callbacks \ {c}) \cup {[c EXCEPT !.next = "raise"]}
     \/ /\ c.sender = "disposed" \/ link = "up"
        /\ callbacks' = callbacks \ {c}
        /\ UNCHANGED <<signal, waitingOn>>
  /\ UNCHANGED <<pc, gate, device, link, chars, attempt, taskSet, cancelled, lifecycle>>

Callback_Raise(c) ==
  /\ c.next = "raise"
  /\ callbacks' = callbacks \ {c}
  /\ lifecycle' = "Disconnected"
  /\ UNCHANGED <<pc, gate, device, link, chars, attempt, signal, waitingOn,
                 taskSet, cancelled>>

\* Callbacks with the same sender at the same point count as one: whichever
\* runs first does what the others would do.
Callbacks == \E c \in callbacks : Callback_Signal(c) \/ Callback_Raise(c)

-----------------------------------------------------------------------------

Next ==
  \/ LoopStep \/ UserStep \/ StopStep
  \/ Start \/ User_Disconnect \/ Stop_Call
  \/ Link_Up \/ Link_Down \/ Callbacks

Spec == Init /\ [][Next]_vars

\* Every method that can run again and again does run: the thread pool, the
\* UI queue and the gate serve their waiters in order, and every Bluetooth
\* operation ends.  Nothing obliges the application or the link to act.
Fairness ==
  /\ SF_vars(LoopStep) /\ SF_vars(UserStep) /\ SF_vars(StopStep)
  /\ WF_vars(Callbacks)

FairSpec == Spec /\ Fairness

-----------------------------------------------------------------------------
(* Properties *)

\* Every variable keeps its type; service discovery makes at most
\* DiscoverAttempts attempts.
TypeOK ==
  /\ pc \in [Procs -> Awaits \cup Computes]
  /\ gate \in Procs \cup {"free"}
  /\ device \in BOOLEAN /\ chars \in BOOLEAN
  /\ taskSet \in BOOLEAN /\ cancelled \in BOOLEAN
  /\ link \in {"up", "down"}
  /\ attempt \in 0..DiscoverAttempts
  /\ signal \in {"none", "pending", "completed"}
  /\ waitingOn \in {"none", "current", "done"}
  /\ callbacks \subseteq [sender : {"current", "disposed"}, next : {"signal", "raise"}]
  /\ lifecycle \in {"Disconnected", "Scanning", "Connected"}

\* The gate excludes: its holder is the only method between WaitAsync and
\* Release.
GateExcludes == \A p \in Procs : pc[p] \in Critical <=> gate = p

\* Whoever waits for the disconnect signal can still be woken: the signal is
\* completed already, the token is cancelled, or the awaited task is the one
\* in the field and the link is up or its loss is about to be reported.
NoLostWakeup ==
  pc["loop"] = "wait" =>
    \/ waitingOn = "done"
    \/ cancelled
    \/ /\ waitingOn = "current" /\ signal = "pending" /\ device
       /\ link = "up" \/ [sender |-> "current", next |-> "signal"] \in callbacks

\* Before the first Start and after a Stop has returned, nothing is left
\* behind: no loop runs, no device is open, no characteristic is held.
StoppedIsClean ==
  ~taskSet /\ pc["stop"] = "idle" => pc["loop"] = "off" /\ ~device /\ ~chars

\* An application that was last told "Connected" can rely on the device
\* and its characteristics being held, whoever is disconnecting meanwhile.
ConnectedHasDevice == lifecycle = "Connected" => device /\ chars

\* StopAutoReconnectLoopAsync returns, wherever the loop was when it was
\* cancelled.
StopReturns == pc["stop"] # "idle" ~> pc["stop"] = "idle"

\* While the loop is active, a lost connection is followed by a new scan.
KeepsReconnecting ==
  taskSet /\ ~cancelled /\ ~IsConnected
    ~> IsConnected \/ cancelled \/ pc["loop"] = "scan"

\* An application that still believes in a dead link is told better.
StaleConnectedHeals ==
  lifecycle = "Connected" /\ link = "down" ~> lifecycle # "Connected" \/ link = "up"
=============================================================================
