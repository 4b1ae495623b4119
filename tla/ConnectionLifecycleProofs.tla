--------------------- MODULE ConnectionLifecycleProofs ---------------------
(***************************************************************************)
(* Proofs about the connection life cycle, for both threading models and   *)
(* any number of discovery attempts.                                       *)
(***************************************************************************)
EXTENDS ConnectionLifecycle, TLAPS

Points == Awaits \cup Computes

\* What a Go step does to the program counters.
LEMMA GoFacts ==
  ASSUME pc \in [Procs -> Points], NEW p \in Procs, NEW from, NEW to \in Points,
         Go(p, from, to)
  PROVE  /\ pc' \in [Procs -> Points]
         /\ pc[p] = from /\ pc'[p] = to
         /\ \A q \in Procs : q # p => pc'[q] = pc[q]
BY DEF Go

\* A failed or cancelled ConnectAsync leaves through Connect_Exit.
LEMMA ExitFacts ==
  ASSUME Connect_ScanTimeout \/ Connect_OpenFailed \/ Connect_DiscoverFailed
         \/ Connect_EnableFailed \/ Connect_ReadThrows \/ Connect_Cancelled
  PROVE  \E from \in {"scan", "open", "discover", "enableStatus", "enableImu",
                       "readStatus", "readImu"}, to \in {"again", "off"} :
           Connect_Exit(from, to)
BY DEF Connect_ScanTimeout, Connect_OpenFailed, Connect_DiscoverFailed,
   Connect_EnableFailed, Connect_ReadThrows, Connect_Cancelled, Connect_Cancel,
   Connect_Fail

\* Types are preserved by every step.
LEMMA TypeStep ==
  ASSUME TypeOK, [Next]_vars
  PROVE  TypeOK'
<1>0. pc \in [Procs -> Points]
  BY DEF TypeOK, Points
<1>1. CASE UNCHANGED vars
  BY <1>1 DEF vars, TypeOK
<1>2. ASSUME NEW p \in Procs, GateAndCore(p) PROVE TypeOK'
  <2>1. CASE Acquire(p)
    BY <1>0, <2>1, GoFacts DEF Acquire, TypeOK, Points, Awaits, Computes
  <2>2. CASE Core_Signal(p)
    BY <1>0, <2>2, GoFacts DEF Core_Signal, CompleteSignal, TypeOK, Points, Awaits, Computes
  <2>3. CASE Core_DisableNotify(p)
    BY <1>0, <2>3, GoFacts DEF Core_DisableNotify, TypeOK, Points, Awaits, Computes
  <2>4. CASE Core_Dispose(p)
    <3>1. pc' \in [Procs -> Points]
      <4>1. (IF p = "loop" THEN "scan" ELSE "idle") \in Points
        BY DEF Points, Awaits
      <4> QED
        BY <1>0, <2>4, <4>1, GoFacts DEF Core_Dispose
    <3>2. callbacks' \subseteq [sender : {"current", "disposed"}, next : {"signal", "raise"}]
      BY <2>4 DEF Core_Dispose, TypeOK
    <3>3. gate' \in Procs \cup {"free"} /\ lifecycle' \in {"Disconnected", "Scanning", "Connected"}
      BY <2>4 DEF Core_Dispose, TypeOK
    <3> QED
      BY <2>4, <3>1, <3>2, <3>3 DEF Core_Dispose, TypeOK, Points
  <2> QED
    BY <1>2, <2>1, <2>2, <2>3, <2>4 DEF GateAndCore
<1>3. CASE ConnectAsync
  <2>0. "loop" \in Procs
    BY DEF Procs
  <2>1. ASSUME NEW from, NEW to \in {"again", "off"}, Connect_Exit(from, to) PROVE TypeOK'
    <3>1. to \in Points
      BY DEF Points, Awaits, Computes
    <3>2. pc' \in [Procs -> Points]
      BY <1>0, <2>0, <2>1, <3>1, GoFacts DEF Connect_Exit
    <3> QED
      BY <2>1, <3>2, AttemptsAssumption DEF Connect_Exit, TypeOK, Points
  <2>2. CASE Connect_Found
    BY <1>0, <2>0, <2>2, GoFacts DEF Connect_Found, TypeOK, Points, Awaits, Computes
  <2>3. CASE Connect_Open
    <3>1. (IF cancelled THEN "off" ELSE "discover") \in Points
      BY DEF Points, Awaits
    <3>2. pc' \in [Procs -> Points]
      BY <1>0, <2>0, <2>3, <3>1, GoFacts DEF Connect_Open
    <3>3. attempt' \in 0..DiscoverAttempts /\ gate' \in Procs \cup {"free"}
      BY <2>3, AttemptsAssumption DEF Connect_Open, TypeOK
    <3> QED
      BY <2>3, <3>2, <3>3 DEF Connect_Open, TypeOK, Points
  <2>4. CASE Connect_Discovered
    BY <1>0, <2>0, <2>4, GoFacts, AttemptsAssumption
    DEF Connect_Discovered, TypeOK, Points, Awaits, Computes
  <2>5. CASE Connect_DiscoverAgain
    BY <1>0, <2>0, <2>5, GoFacts, AttemptsAssumption
    DEF Connect_DiscoverAgain, TypeOK, Points, Awaits, Computes
  <2>6. CASE Connect_Enabled
    BY <1>0, <2>0, <2>6, GoFacts DEF Connect_Enabled, TypeOK, Points, Awaits, Computes
  <2>7. CASE Connect_Read
    BY <1>0, <2>0, <2>7, GoFacts DEF Connect_Read, TypeOK, Points, Awaits, Computes
  <2>8. CASE Connect_NewSignal
    BY <1>0, <2>0, <2>8, GoFacts DEF Connect_NewSignal, TypeOK, Points, Awaits, Computes
  <2>9. CASE Connect_RaiseConnected
    BY <1>0, <2>0, <2>9, GoFacts DEF Connect_RaiseConnected, TypeOK, Points, Awaits, Computes
  <2> QED
    BY <1>3, <2>1, <2>2, <2>3, <2>4, <2>5, <2>6, <2>7, <2>8, <2>9, ExitFacts DEF ConnectAsync
<1>4. CASE \/ Loop_Top \/ Loop_CancelledOutside \/ Loop_Again \/ Loop_DelayOver
           \/ Wait_Check \/ Wait_Arm \/ Wait_Await \/ Wait_Signalled \/ Wait_Cancelled
  <2>0. "loop" \in Procs
    BY DEF Procs
  <2>1. CASE Loop_Top
    BY <1>0, <2>0, <2>1, GoFacts DEF Loop_Top, TypeOK, Points, Awaits, Computes
  <2>2. CASE Loop_CancelledOutside
    BY <1>0, <2>0, <2>2, GoFacts DEF Loop_CancelledOutside, TypeOK, Points, Awaits, Computes
  <2>3. CASE Loop_Again
    BY <1>0, <2>0, <2>3, GoFacts DEF Loop_Again, TypeOK, Points, Awaits, Computes
  <2>4. CASE Loop_DelayOver
    BY <1>0, <2>0, <2>4, GoFacts DEF Loop_DelayOver, TypeOK, Points, Awaits, Computes
  <2>5. CASE Wait_Check
    BY <1>0, <2>0, <2>5, GoFacts DEF Wait_Check, TypeOK, Points, Awaits, Computes
  <2>6. CASE Wait_Arm
    BY <1>0, <2>0, <2>6, GoFacts DEF Wait_Arm, TypeOK, Points, Awaits, Computes
  <2>7. CASE Wait_Await
    BY <1>0, <2>0, <2>7, GoFacts DEF Wait_Await, TypeOK, Points, Awaits, Computes
  <2>8. CASE Wait_Signalled
    BY <1>0, <2>0, <2>8, GoFacts DEF Wait_Signalled, TypeOK, Points, Awaits, Computes
  <2>9. CASE Wait_Cancelled
    BY <1>0, <2>0, <2>9, GoFacts DEF Wait_Cancelled, TypeOK, Points, Awaits, Computes
  <2> QED
    BY <1>4, <2>1, <2>2, <2>3, <2>4, <2>5, <2>6, <2>7, <2>8, <2>9
<1>5. CASE Start
  BY <1>5 DEF Start, TypeOK, Procs, Awaits, Computes
<1>6. CASE User_Disconnect \/ Stop_Call \/ Stop_Joined
  <2>1. CASE User_Disconnect
    BY <1>0, <2>1, GoFacts DEF User_Disconnect, TypeOK, Points, Awaits, Computes, Procs
  <2>2. CASE Stop_Call
    <3>1. (IF taskSet THEN "join" ELSE "acquire") \in Points /\ "stop" \in Procs
      BY DEF Points, Awaits, Procs
    <3>2. pc' \in [Procs -> Points]
      BY <1>0, <2>2, <3>1, GoFacts DEF Stop_Call
    <3>3. cancelled' \in BOOLEAN
      BY <2>2 DEF Stop_Call
    <3> QED
      BY <2>2, <3>2, <3>3 DEF Stop_Call, TypeOK, Points
  <2>3. CASE Stop_Joined
    <3>1. pc' \in [Procs -> Points]
      BY <1>0, <2>3, GoFacts DEF Stop_Joined, Points, Awaits, Procs
    <3> QED
      BY <2>3, <3>1 DEF Stop_Joined, TypeOK, Points
  <2> QED
    BY <1>6, <2>1, <2>2, <2>3
<1>7. CASE Link_Up \/ Link_Down
  BY <1>7 DEF Link_Up, Link_Down, TypeOK
<1>8. CASE Callbacks
  BY <1>8 DEF Callbacks, Callback_Signal, Callback_Raise, CompleteSignal, TypeOK
<1> QED
  BY <1>1, <1>2, <1>3, <1>4, <1>5, <1>6, <1>7, <1>8
  DEF Next, LoopStep, UserStep, StopStep, Procs

\* The initial state is well typed.
LEMMA InitTyped == Init => TypeOK
<1>1. Init => pc \in [Procs -> Awaits \cup Computes]
  BY DEF Init, Awaits
<1>2. Init => attempt \in 0..DiscoverAttempts
  BY AttemptsAssumption DEF Init
<1> QED
  BY <1>1, <1>2 DEF Init, TypeOK

\* Every reachable state is well typed.
THEOREM TypeCorrect == Spec => []TypeOK
<1>1. Init => TypeOK
  BY InitTyped
<1>2. TypeOK /\ [Next]_vars => TypeOK'
  BY TypeStep
<1> QED
  BY <1>1, <1>2, PTL DEF Spec

-----------------------------------------------------------------------------
(* The gate *)

\* Points at which a Stop has yet to finish its disconnect.
Stopping == {"acquire"} \cup Critical

\* Who answers for the loop and the device: a loop that runs is in
\* _autoReconnectTask, and once the task is forgotten a Stop is on its way to
\* dispose of what the loop left behind.
OwnInv ==
  /\ pc["loop"] # "off" => taskSet
  /\ ~taskSet /\ (device \/ chars) => pc["stop"] \in Stopping

\* A step of p that stays on its side of the gate.
LEMMA GateKept ==
  ASSUME TypeOK, GateExcludes, NEW p \in Procs, NEW from, NEW to \in Points,
         Go(p, from, to), from \in Critical <=> to \in Critical, gate' = gate
  PROVE  GateExcludes'
BY GoFacts DEF GateExcludes, TypeOK, Points

\* A step of p through the open gate.
LEMMA GateEntered ==
  ASSUME TypeOK, GateExcludes, NEW p \in Procs, NEW from, NEW to \in Points,
         Go(p, from, to), to \in Critical, gate = "free", gate' = p
  PROVE  GateExcludes'
BY GoFacts DEF GateExcludes, TypeOK, Points, Procs

\* A step of p that releases the gate.
LEMMA GateLeft ==
  ASSUME TypeOK, GateExcludes, NEW p \in Procs, NEW from, NEW to \in Points,
         Go(p, from, to), from \in Critical, to \notin Critical, gate' = "free"
  PROVE  GateExcludes'
<1>1. gate = p
  BY GoFacts DEF GateExcludes, TypeOK, Points
<1> QED
  BY <1>1, GoFacts DEF GateExcludes, TypeOK, Points, Procs

\* Mutual exclusion is preserved by every step.
LEMMA GateStep ==
  ASSUME TypeOK, GateExcludes, OwnInv, [Next]_vars
  PROVE  GateExcludes'
<1> USE DEF Points, Awaits, Computes, Critical
<1>0. "loop" \in Procs /\ "user" \in Procs /\ "stop" \in Procs
  BY DEF Procs
<1>1. CASE UNCHANGED vars
  BY <1>1 DEF vars, GateExcludes
<1>2. ASSUME NEW p \in Procs, GateAndCore(p) PROVE GateExcludes'
  <2>1. CASE Acquire(p)
    BY <2>1, GateEntered DEF Acquire
  <2>2. CASE Core_Signal(p)
    BY <2>2, GateKept DEF Core_Signal
  <2>3. CASE Core_DisableNotify(p)
    BY <2>3, GateKept DEF Core_DisableNotify
  <2>4. CASE Core_Dispose(p)
    <3>1. CASE p = "loop"
      <4>1. Go(p, "dispose", "scan") /\ gate' = gate
        BY <2>4, <3>1 DEF Core_Dispose
      <4> QED
        BY <4>1, GateKept
    <3>2. CASE p # "loop"
      <4>1. Go(p, "dispose", "idle") /\ gate' = "free"
        BY <2>4, <3>2 DEF Core_Dispose
      <4> QED
        BY <4>1, GateLeft
    <3> QED
      BY <3>1, <3>2
  <2> QED
    BY <1>2, <2>1, <2>2, <2>3, <2>4 DEF GateAndCore
<1>3. CASE ConnectAsync
  <2>1. ASSUME NEW from \in {"scan", "open", "discover", "enableStatus", "enableImu",
                             "readStatus", "readImu"},
               NEW to \in {"again", "off"}, Connect_Exit(from, to)
        PROVE  GateExcludes'
    <3>1. Go("loop", from, to) /\ gate' = "free"
      BY <2>1 DEF Connect_Exit
    <3>2. from \in Critical /\ to \notin Critical /\ to \in Points
      OBVIOUS
    <3> QED
      BY <1>0, <3>1, <3>2, GateLeft
  <2>2. CASE Connect_Found
    BY <1>0, <2>2, GateKept DEF Connect_Found
  <2>3. CASE Connect_Open
    <3>1. CASE cancelled
      <4>1. Go("loop", "open", "off") /\ gate' = "free"
        BY <2>3, <3>1 DEF Connect_Open
      <4> QED
        BY <1>0, <4>1, GateLeft
    <3>2. CASE ~cancelled
      <4>1. Go("loop", "open", "discover") /\ gate' = gate
        BY <2>3, <3>2 DEF Connect_Open
      <4> QED
        BY <1>0, <4>1, GateKept
    <3> QED
      BY <3>1, <3>2
  <2>4. CASE Connect_Discovered
    BY <1>0, <2>4, GateKept DEF Connect_Discovered
  <2>5. CASE Connect_DiscoverAgain
    BY <1>0, <2>5, GateKept DEF Connect_DiscoverAgain
  <2>6. CASE Connect_Enabled
    BY <1>0, <2>6, GateKept DEF Connect_Enabled
  <2>7. CASE Connect_Read
    BY <1>0, <2>7, GateKept DEF Connect_Read
  <2>8. CASE Connect_NewSignal
    BY <1>0, <2>8, GateKept DEF Connect_NewSignal
  <2>9. CASE Connect_RaiseConnected
    BY <1>0, <2>9, GateLeft DEF Connect_RaiseConnected
  <2> QED
    BY <1>3, <2>1, <2>2, <2>3, <2>4, <2>5, <2>6, <2>7, <2>8, <2>9, ExitFacts DEF ConnectAsync
<1>4. CASE \/ Loop_Top \/ Loop_CancelledOutside \/ Loop_Again \/ Loop_DelayOver
           \/ Wait_Check \/ Wait_Arm \/ Wait_Await \/ Wait_Signalled \/ Wait_Cancelled
  <2>1. PICK from \in {"top", "acquire", "delay", "again", "check", "arm", "armed", "wait"},
             to \in {"off", "acquire", "delay", "top", "arm", "again", "armed", "wait"} :
               Go("loop", from, to) /\ gate' = gate
    BY <1>4 DEF Loop_Top, Loop_CancelledOutside, Loop_Again, Loop_DelayOver,
       Wait_Check, Wait_Arm, Wait_Await, Wait_Signalled, Wait_Cancelled
  <2> QED
    BY <1>0, <2>1, GateKept
<1>5. CASE Start
  <2>1. pc["loop"] = "off"
    BY <1>5 DEF Start, OwnInv
  <2> QED
    BY <1>0, <1>5, <2>1 DEF Start, GateExcludes, TypeOK
<1>6. CASE User_Disconnect
  BY <1>0, <1>6, GateKept DEF User_Disconnect
<1>7. CASE Stop_Call
  <2>1. PICK to \in {"join", "acquire"} : Go("stop", "idle", to) /\ gate' = gate
    BY <1>7 DEF Stop_Call
  <2> QED
    BY <1>0, <2>1, GateKept
<1>8. CASE Stop_Joined
  BY <1>0, <1>8, GateKept DEF Stop_Joined
<1>9. CASE Link_Up \/ Link_Down \/ Callbacks
  BY <1>9 DEF Link_Up, Link_Down, Callbacks, Callback_Signal, Callback_Raise, GateExcludes
<1> QED
  BY <1>0, <1>1, <1>2, <1>3, <1>4, <1>5, <1>6, <1>7, <1>8, <1>9
  DEF Next, LoopStep, UserStep, StopStep

-----------------------------------------------------------------------------
(* Ownership of the loop and of the device *)

\* Points of ConnectAsync after the characteristics were found.
Subscribed == {"enableStatus", "enableImu", "readStatus", "readImu", "publish", "connected"}

\* The fields agree with the progress of ConnectAsync and with the last event.
DeviceInv ==
  /\ chars => device
  /\ pc["loop"] = "discover" => device
  /\ pc["loop"] \in Subscribed => device /\ chars
  /\ ConnectedHasDevice

Safe == TypeOK /\ GateExcludes /\ OwnInv /\ DeviceInv

\* A step of p that changes neither the task nor the device.
LEMMA OwnKept ==
  ASSUME Safe, NEW p \in Procs, NEW from, NEW to \in Points, Go(p, from, to),
         UNCHANGED <<device, chars, taskSet>>,
         lifecycle' = lifecycle \/ lifecycle' # "Connected",
         p = "loop" => /\ from # "off" \/ to = "off"
                       /\ to = "discover" => from = "discover"
                       /\ to \in Subscribed => from \in Subscribed,
         p = "stop" => (from \in Stopping => to \in Stopping)
  PROVE  OwnInv' /\ DeviceInv'
<1>1. /\ pc[p] = from /\ pc'[p] = to
      /\ \A q \in Procs : q # p => pc'[q] = pc[q]
      /\ "loop" \in Procs /\ "stop" \in Procs
  BY GoFacts DEF Safe, TypeOK, Points, Procs
<1>2. OwnInv'
  BY <1>1 DEF Safe, OwnInv
<1>3. DeviceInv'
  BY <1>1 DEF Safe, DeviceInv, ConnectedHasDevice
<1> QED
  BY <1>2, <1>3

\* Ownership is preserved by every step.
LEMMA OwnStep ==
  ASSUME Safe, [Next]_vars
  PROVE  OwnInv' /\ DeviceInv'
<1> USE DEF Points, Awaits, Computes, Critical, Stopping, Subscribed
<1>0. "loop" \in Procs /\ "user" \in Procs /\ "stop" \in Procs
  BY DEF Procs
<1>1. CASE UNCHANGED vars
  BY <1>1 DEF vars, Safe, OwnInv, DeviceInv, ConnectedHasDevice
<1>2. ASSUME NEW p \in Procs, GateAndCore(p) PROVE OwnInv' /\ DeviceInv'
  <2>1. CASE Acquire(p)
    BY <2>1, OwnKept DEF Acquire
  <2>2. CASE Core_Signal(p)
    BY <2>2, OwnKept DEF Core_Signal
  <2>3. CASE Core_DisableNotify(p)
    BY <2>3, OwnKept DEF Core_DisableNotify
  <2>4. CASE Core_Dispose(p)
    <3>1. PICK to \in {"scan", "idle"} :
            Go(p, "dispose", to) /\ (p = "loop" => to = "scan")
      BY <2>4 DEF Core_Dispose
    <3>2. /\ pc[p] = "dispose" /\ pc'[p] = to
          /\ \A q \in Procs : q # p => pc'[q] = pc[q]
      BY <3>1, GoFacts DEF Safe, TypeOK
    <3>3. p # "loop" => pc["loop"] \notin Critical
      BY <1>0, <3>2 DEF Safe, GateExcludes
    <3> QED
      BY <1>0, <2>4, <3>1, <3>2, <3>3
      DEF Core_Dispose, Safe, OwnInv, DeviceInv, ConnectedHasDevice
  <2> QED
    BY <1>2, <2>1, <2>2, <2>3, <2>4 DEF GateAndCore
<1>3. CASE ConnectAsync
  <2>1. ASSUME NEW from \in {"scan", "open", "discover", "enableStatus", "enableImu",
                             "readStatus", "readImu"},
               NEW to \in {"again", "off"}, Connect_Exit(from, to)
        PROVE  OwnInv' /\ DeviceInv'
    BY <1>0, <2>1, OwnKept DEF Connect_Exit
  <2>2. CASE Connect_Found
    BY <1>0, <2>2, OwnKept DEF Connect_Found
  <2>3. CASE Connect_Open
    <3>1. PICK to \in {"off", "discover"} : Go("loop", "open", to)
      BY <2>3 DEF Connect_Open
    <3>2. /\ pc["loop"] = "open" /\ pc'["loop"] = to
          /\ \A q \in Procs : q # "loop" => pc'[q] = pc[q]
      BY <1>0, <3>1, GoFacts DEF Safe, TypeOK
    <3> QED
      BY <1>0, <2>3, <3>2
      DEF Connect_Open, Safe, OwnInv, DeviceInv, ConnectedHasDevice
  <2>4. CASE Connect_Discovered
    <3>1. /\ pc["loop"] = "discover" /\ pc'["loop"] = "enableStatus"
          /\ \A q \in Procs : q # "loop" => pc'[q] = pc[q]
      BY <1>0, <2>4, GoFacts DEF Connect_Discovered, Safe, TypeOK
    <3> QED
      BY <1>0, <2>4, <3>1
      DEF Connect_Discovered, Safe, OwnInv, DeviceInv, ConnectedHasDevice
  <2>5. CASE Connect_DiscoverAgain
    BY <1>0, <2>5, OwnKept DEF Connect_DiscoverAgain
  <2>6. CASE Connect_Enabled
    BY <1>0, <2>6, OwnKept DEF Connect_Enabled
  <2>7. CASE Connect_Read
    BY <1>0, <2>7, OwnKept DEF Connect_Read
  <2>8. CASE Connect_NewSignal
    BY <1>0, <2>8, OwnKept DEF Connect_NewSignal
  <2>9. CASE Connect_RaiseConnected
    <3>1. /\ pc["loop"] = "connected" /\ pc'["loop"] = "check"
          /\ \A q \in Procs : q # "loop" => pc'[q] = pc[q]
      BY <1>0, <2>9, GoFacts DEF Connect_RaiseConnected, Safe, TypeOK
    <3> QED
      BY <1>0, <2>9, <3>1
      DEF Connect_RaiseConnected, Safe, OwnInv, DeviceInv, ConnectedHasDevice
  <2> QED
    BY <1>3, <2>1, <2>2, <2>3, <2>4, <2>5, <2>6, <2>7, <2>8, <2>9, ExitFacts DEF ConnectAsync
<1>4. CASE \/ Loop_Top \/ Loop_CancelledOutside \/ Loop_Again \/ Loop_DelayOver
           \/ Wait_Check \/ Wait_Arm \/ Wait_Await \/ Wait_Signalled \/ Wait_Cancelled
  <2>1. PICK from \in {"top", "acquire", "delay", "again", "check", "arm", "armed", "wait"},
             to \in {"off", "acquire", "delay", "top", "arm", "again", "armed", "wait"} :
               /\ Go("loop", from, to)
               /\ UNCHANGED <<device, chars, taskSet>>
               /\ lifecycle' = lifecycle \/ lifecycle' # "Connected"
    BY <1>4 DEF Loop_Top, Loop_CancelledOutside, Loop_Again, Loop_DelayOver,
       Wait_Check, Wait_Arm, Wait_Await, Wait_Signalled, Wait_Cancelled
  <2> QED
    BY <1>0, <2>1, OwnKept
<1>5. CASE Start
  BY <1>0, <1>5 DEF Start, Safe, TypeOK, OwnInv, DeviceInv, ConnectedHasDevice
<1>6. CASE User_Disconnect
  BY <1>0, <1>6, OwnKept DEF User_Disconnect
<1>7. CASE Stop_Call
  <2>1. PICK to \in {"join", "acquire"} : Go("stop", "idle", to)
    BY <1>7 DEF Stop_Call
  <2> QED
    BY <1>0, <1>7, <2>1, OwnKept DEF Stop_Call
<1>8. CASE Stop_Joined
  <2>1. /\ pc["loop"] = "off" /\ pc'["loop"] = "off" /\ pc'["stop"] = "acquire"
    BY <1>0, <1>8, GoFacts DEF Stop_Joined, Safe, TypeOK
  <2> QED
    BY <1>8, <2>1 DEF Stop_Joined, Safe, OwnInv, DeviceInv, ConnectedHasDevice
<1>9. CASE Link_Up \/ Link_Down \/ Callbacks
  BY <1>9 DEF Link_Up, Link_Down, Callbacks, Callback_Signal, Callback_Raise,
     Safe, OwnInv, DeviceInv, ConnectedHasDevice
<1> QED
  BY <1>0, <1>1, <1>2, <1>3, <1>4, <1>5, <1>6, <1>7, <1>8, <1>9
  DEF Next, LoopStep, UserStep, StopStep

\* The inductive invariant holds in every reachable state.
LEMMA SafeInvariant == Spec => []Safe
<1>1. Init => Safe
  <2> SUFFICES ASSUME Init PROVE Safe
    OBVIOUS
  <2>1. TypeOK
    BY InitTyped
  <2>2. \A p \in Procs : pc[p] \notin Critical /\ gate # p
    BY DEF Init, Critical, Procs
  <2>3. pc["loop"] = "off"
    BY DEF Init, Procs
  <2> QED
    BY <2>1, <2>2, <2>3
    DEF Init, Safe, GateExcludes, OwnInv, DeviceInv, ConnectedHasDevice, Subscribed
<1>2. Safe /\ [Next]_vars => Safe'
  BY TypeStep, GateStep, OwnStep DEF Safe
<1> QED
  BY <1>1, <1>2, PTL DEF Spec

\* _connectionGate admits one method at a time, on one UI thread or on many
\* pool threads.
THEOREM GateAlwaysExcludes == Spec => []GateExcludes
<1>1. Safe => GateExcludes
  BY DEF Safe
<1> QED
  BY <1>1, SafeInvariant, PTL

\* A Stop that has returned leaves no loop, device or characteristic behind,
\* wherever it caught the loop.
THEOREM StoppedAlwaysClean == Spec => []StoppedIsClean
<1>1. Safe => StoppedIsClean
  BY DEF Safe, OwnInv, StoppedIsClean, Stopping, Critical
<1> QED
  BY <1>1, SafeInvariant, PTL

\* The device and its characteristics are held whenever the application was
\* last told "Connected".
THEOREM ConnectedAlwaysHasDevice == Spec => []ConnectedHasDevice
<1>1. Safe => ConnectedHasDevice
  BY DEF Safe, DeviceInv
<1> QED
  BY <1>1, SafeInvariant, PTL

-----------------------------------------------------------------------------
(* The disconnect signal *)

\* The threading under which no wake-up is lost: one UI thread, or an
\* application that leaves DisconnectAsync to the SDK.
Sheltered == SingleContext \/ ~UserDisconnects

\* The loss of the link has been noticed or will be.
Watched ==
  link = "up" \/ [sender |-> "current", next |-> "signal"] \in callbacks

Arming == {"check", "arm", "armed"}

\* Nobody disconnects between the end of ConnectAsync and the await on the
\* signal, and the signal that is awaited is one that will be completed.
WakeInv ==
  /\ pc["loop"] \in Arming => gate = "free"
  /\ pc["loop"] \in {"connected", "check"} => signal # "none"
  /\ pc["loop"] \in {"arm", "armed"} =>
       device /\ (signal = "completed" \/ (signal = "pending" /\ Watched))
  /\ pc["loop"] = "wait" =>
       \/ waitingOn = "done"
       \/ /\ waitingOn = "current" /\ signal = "pending" /\ device /\ Watched
          /\ \A p \in Procs : pc[p] \in Critical => pc[p] = "core"
  /\ ~SingleContext => /\ pc["user"] = "idle"
                       /\ pc["stop"] \notin {"idle", "join"} => pc["loop"] = "off"

\* No other method passes the gate, or moves behind it, while the loop is
\* arming its wait.
LEMMA ArmingAlone ==
  ASSUME Safe, WakeInv, NEW p \in Procs, NEW from \in Stopping, NEW to,
         Go(p, from, to), pc["loop"] \in Arming
  PROVE  FALSE
<1>1. pc[p] = from /\ MayRun(p)
  BY DEF Go
<1>2. p # "loop"
  BY <1>1 DEF Arming, Stopping, Critical
<1>3. CASE SingleContext
  BY <1>1, <1>2, <1>3 DEF MayRun, Yielded, Procs, Arming, Awaits
<1>4. CASE ~SingleContext
  BY <1>1, <1>2, <1>4 DEF WakeInv, Procs, Arming, Stopping, Critical
<1> QED
  BY <1>3, <1>4

\* A step of the loop that ends where no signal is involved.
LEMMA LoopElsewhere ==
  ASSUME Safe, WakeInv, NEW from, NEW to \in Points, Go("loop", from, to), from # "off",
         to \notin Arming \cup {"connected", "wait"}
  PROVE  WakeInv'
<1>1. /\ pc["loop"] = from /\ pc'["loop"] = to
      /\ pc'["user"] = pc["user"] /\ pc'["stop"] = pc["stop"]
  BY GoFacts DEF Safe, TypeOK, Points, Procs
<1> QED
  BY <1>1 DEF WakeInv, Arming

\* The disconnecting steps of another method.
LEMMA OthersWake ==
  ASSUME Safe, WakeInv, NEW p \in Procs, p # "loop", GateAndCore(p)
  PROVE  WakeInv'
<1> USE DEF Points, Awaits, Computes, Critical, Stopping
<1>1. PICK from \in Stopping, to \in Points : Go(p, from, to)
  BY DEF GateAndCore, Acquire, Core_Signal, Core_DisableNotify, Core_Dispose
<1>2. /\ pc[p] = from /\ pc'[p] = to
      /\ \A q \in Procs : q # p => pc'[q] = pc[q]
      /\ "loop" \in Procs /\ "user" \in Procs /\ "stop" \in Procs
  BY <1>1, GoFacts DEF Safe, TypeOK, Procs
<1>3. pc["loop"] \notin Arming
  BY <1>1, ArmingAlone
<1>4. pc["loop"] # "connected"
  BY <1>2 DEF GateAndCore, Acquire, Core_Signal, Core_DisableNotify, Core_Dispose, Go,
     Safe, GateExcludes
<1>5. ~SingleContext => p # "user" /\ pc["loop"] = "off" /\ pc'["user"] = "idle"
  BY <1>2 DEF WakeInv, Procs
<1>6. ASSUME pc["loop"] = "wait"
      PROVE  \/ waitingOn' = "done"
             \/ /\ waitingOn' = "current" /\ signal' = "pending" /\ device' /\ Watched'
                /\ \A q \in Procs : pc'[q] \in Critical => pc'[q] = "core"
  <2>1. CASE Acquire(p)
    <3>1. pc'[p] = "core"
      BY <2>1, GoFacts DEF Acquire, Safe, TypeOK
    <3> QED
      BY <1>2, <1>6, <2>1, <3>1 DEF Acquire, WakeInv, Watched
  <2>2. CASE Core_Signal(p)
    BY <1>6, <2>2 DEF Core_Signal, CompleteSignal, WakeInv
  <2>3. CASE Core_DisableNotify(p) \/ Core_Dispose(p)
    <3>1. pc[p] \in {"disableStatus", "disableImu", "dispose"}
      BY <2>3 DEF Core_DisableNotify, Core_Dispose, Go
    <3>2. waitingOn = "done"
      BY <1>6, <3>1 DEF WakeInv
    <3> QED
      BY <2>3, <3>2 DEF Core_DisableNotify, Core_Dispose
  <2> QED
    BY <2>1, <2>2, <2>3 DEF GateAndCore
<1> QED
  BY <1>2, <1>3, <1>4, <1>5, <1>6 DEF WakeInv, Arming

\* The callbacks never strand the loop: one that completes nothing has seen
\* the link up again.
LEMMA CallbackWake ==
  ASSUME Safe, WakeInv, NEW c \in callbacks, Callback_Signal(c) \/ Callback_Raise(c)
  PROVE  WakeInv'
<1>1. UNCHANGED <<pc, gate, device, link>>
  BY DEF Callback_Signal, Callback_Raise
<1>2. signal # "none" => signal' # "none"
  BY DEF Callback_Signal, Callback_Raise
<1>3. signal = "completed" => signal' = "completed"
  BY DEF Callback_Signal, Callback_Raise
<1>4. waitingOn = "done" => waitingOn' = "done"
  BY DEF Callback_Signal, Callback_Raise, CompleteSignal
<1>5. ASSUME signal = "pending", Watched
      PROVE  \/ signal' = "completed" /\ (waitingOn = "current" => waitingOn' = "done")
             \/ signal' = "pending" /\ waitingOn' = waitingOn /\ Watched'
  <2>1. callbacks \ {c} \subseteq callbacks'
    BY DEF Callback_Signal, Callback_Raise
  <2>2. CASE link = "up"
    <3>1. Watched'
      BY <1>1, <2>2 DEF Watched
    <3> QED
      BY <1>5, <3>1 DEF Callback_Signal, Callback_Raise, CompleteSignal
  <2>3. CASE link # "up" /\ c # [sender |-> "current", next |-> "signal"]
    <3>1. Watched'
      BY <1>5, <2>1, <2>3 DEF Watched
    <3> QED
      BY <1>5, <3>1 DEF Callback_Signal, Callback_Raise, CompleteSignal
  <2>4. CASE link # "up" /\ c = [sender |-> "current", next |-> "signal"]
    <3>1. c.sender = "current" /\ c.next = "signal"
      BY <2>4
    <3> QED
      BY <1>5, <2>4, <3>1 DEF Callback_Signal, Callback_Raise, CompleteSignal
  <2> QED
    BY <2>2, <2>3, <2>4
<1>6. pc["loop"] \in {"arm", "armed"} =>
        device' /\ (signal' = "completed" \/ (signal' = "pending" /\ Watched'))
  BY <1>1, <1>3, <1>5 DEF WakeInv
<1>7. pc["loop"] = "wait" =>
        \/ waitingOn' = "done"
        \/ waitingOn' = "current" /\ signal' = "pending" /\ device' /\ Watched'
           /\ \A p \in Procs : pc[p] \in Critical => pc[p] = "core"
  BY <1>1, <1>4, <1>5 DEF WakeInv
<1> QED
  BY <1>1, <1>2, <1>6, <1>7 DEF WakeInv

\* No step strands the loop.
LEMMA WakeStep ==
  ASSUME Sheltered, Safe, WakeInv, [Next]_vars
  PROVE  WakeInv'
<1> USE DEF Points, Awaits, Computes, Arming
<1>0. "loop" \in Procs /\ "user" \in Procs /\ "stop" \in Procs
  BY DEF Procs
<1>a. pc \in [Procs -> Points]
  BY DEF Safe, TypeOK
<1>1. CASE UNCHANGED vars
  BY <1>1 DEF vars, WakeInv, Watched
<1>2. CASE GateAndCore("loop")
  <2>1. PICK from \in {"acquire", "core", "disableStatus", "disableImu", "dispose"},
             to \in {"core", "disableStatus", "disableImu", "dispose", "scan"} :
               Go("loop", from, to)
    BY <1>2 DEF GateAndCore, Acquire, Core_Signal, Core_DisableNotify, Core_Dispose
  <2> QED
    BY <2>1, LoopElsewhere
<1>3. CASE ConnectAsync
  <2>1. CASE Connect_NewSignal
    <3>1. /\ pc["loop"] = "publish" /\ pc'["loop"] = "connected"
          /\ pc'["user"] = pc["user"] /\ pc'["stop"] = pc["stop"] /\ signal' = "pending"
      BY <1>0, <1>a, <2>1, GoFacts DEF Connect_NewSignal
    <3> QED
      BY <3>1 DEF WakeInv
  <2>2. CASE Connect_RaiseConnected
    <3>1. /\ pc["loop"] = "connected" /\ pc'["loop"] = "check" /\ gate' = "free"
          /\ pc'["user"] = pc["user"] /\ pc'["stop"] = pc["stop"] /\ signal' = signal
      BY <1>0, <1>a, <2>2, GoFacts DEF Connect_RaiseConnected
    <3> QED
      BY <3>1 DEF WakeInv
  <2>3. CASE ~Connect_NewSignal /\ ~Connect_RaiseConnected
    <3>1. PICK from \in Points \ {"off"},
               to \in Points \ (Arming \cup {"connected", "wait"}) : Go("loop", from, to)
      <4>1. CASE \/ Connect_ScanTimeout \/ Connect_OpenFailed \/ Connect_DiscoverFailed
                 \/ Connect_EnableFailed \/ Connect_ReadThrows \/ Connect_Cancelled
        <5>1. PICK from \in {"scan", "open", "discover", "enableStatus", "enableImu",
                              "readStatus", "readImu"}, to \in {"again", "off"} :
                Connect_Exit(from, to)
          BY <4>1, ExitFacts
        <5> QED
          BY <5>1 DEF Connect_Exit
      <4>2. CASE \/ Connect_Found \/ Connect_Open \/ Connect_Discovered
                 \/ Connect_DiscoverAgain \/ Connect_Enabled \/ Connect_Read
        BY <4>2 DEF Connect_Found, Connect_Open, Connect_Discovered,
           Connect_DiscoverAgain, Connect_Enabled, Connect_Read
      <4> QED
        BY <1>3, <2>3, <4>1, <4>2 DEF ConnectAsync
    <3> QED
      BY <3>1, LoopElsewhere
  <2> QED
    BY <2>1, <2>2, <2>3
<1>4. CASE Loop_Top \/ Loop_CancelledOutside \/ Loop_Again \/ Loop_DelayOver
           \/ Wait_Signalled \/ Wait_Cancelled
  <2>1. PICK from \in {"top", "acquire", "delay", "again", "wait"},
             to \in {"off", "acquire", "delay", "top", "again"} : Go("loop", from, to)
    BY <1>4 DEF Loop_Top, Loop_CancelledOutside, Loop_Again, Loop_DelayOver,
       Wait_Signalled, Wait_Cancelled
  <2> QED
    BY <2>1, LoopElsewhere
<1>5. CASE Wait_Check
  <2>1. CASE IsConnected
    <3>1. /\ pc["loop"] = "check" /\ pc'["loop"] = "arm"
          /\ pc'["user"] = pc["user"] /\ pc'["stop"] = pc["stop"]
      BY <1>0, <1>a, <1>5, <2>1, GoFacts DEF Wait_Check
    <3> QED
      BY <1>5, <2>1, <3>1 DEF Wait_Check, WakeInv, Watched, IsConnected, Safe, TypeOK
  <2>2. CASE ~IsConnected
    BY <1>5, <2>2, LoopElsewhere DEF Wait_Check
  <2> QED
    BY <2>1, <2>2
<1>6. CASE Wait_Arm
  <2>1. /\ pc["loop"] = "arm" /\ pc'["loop"] = "armed"
        /\ pc'["user"] = pc["user"] /\ pc'["stop"] = pc["stop"]
    BY <1>0, <1>a, <1>6, GoFacts DEF Wait_Arm
  <2> QED
    BY <1>6, <2>1 DEF Wait_Arm, WakeInv, Watched
<1>7. CASE Wait_Await
  <2>1. signal # "none" /\ pc["loop"] = "armed"
    BY <1>7 DEF Wait_Await, WakeInv, Go
  <2>2. pc'["loop"] = "wait" /\ \A q \in Procs : q # "loop" => pc'[q] = pc[q]
    BY <1>0, <1>a, <1>7, <2>1, GoFacts DEF Wait_Await
  <2>3. \A q \in Procs : pc'[q] \notin Critical
    BY <1>0, <2>1, <2>2 DEF WakeInv, Safe, GateExcludes, Critical, Procs
  <2> QED
    BY <1>0, <1>7, <2>1, <2>2, <2>3 DEF Wait_Await, WakeInv, Watched
<1>8. CASE UserStep \/ GateAndCore("stop")
  BY <1>0, <1>8, OthersWake DEF UserStep
<1>9. CASE Start
  <2>1. pc'["loop"] = "top" /\ pc'["user"] = pc["user"] /\ pc'["stop"] = pc["stop"]
    BY <1>0, <1>a, <1>9 DEF Start
  <2> QED
    BY <1>9, <2>1 DEF Start, WakeInv
<1>10. CASE User_Disconnect
  <2>1. /\ SingleContext /\ pc'["user"] = "acquire"
        /\ \A q \in Procs : q # "user" => pc'[q] = pc[q]
    BY <1>0, <1>a, <1>10, GoFacts DEF User_Disconnect, Sheltered
  <2> QED
    BY <1>0, <1>10, <2>1 DEF User_Disconnect, WakeInv, Watched, Critical
<1>11. CASE Stop_Call
  <2>1. PICK to \in {"join", "acquire"} : Go("stop", "idle", to) /\ (to = "acquire" => ~taskSet)
    BY <1>11 DEF Stop_Call
  <2>2. pc'["stop"] = to /\ \A q \in Procs : q # "stop" => pc'[q] = pc[q]
    BY <1>0, <1>a, <2>1, GoFacts
  <2>3. to = "acquire" => pc["loop"] = "off"
    BY <2>1 DEF Safe, OwnInv
  <2> QED
    BY <1>0, <1>11, <2>1, <2>2, <2>3 DEF Stop_Call, WakeInv, Watched, Critical
<1>12. CASE Stop_Joined
  <2>1. pc'["loop"] = "off" /\ pc'["user"] = pc["user"]
    BY <1>0, <1>a, <1>12, GoFacts DEF Stop_Joined
  <2> QED
    BY <2>1, <1>12 DEF Stop_Joined, WakeInv
<1>13. CASE Link_Up \/ Link_Down
  BY <1>13 DEF Link_Up, Link_Down, WakeInv, Watched
<1>14. CASE Callbacks
  BY <1>14, CallbackWake DEF Callbacks
<1> QED
  BY <1>1, <1>2, <1>3, <1>4, <1>5, <1>6, <1>7, <1>8, <1>9, <1>10, <1>11, <1>12, <1>13, <1>14
  DEF Next, LoopStep, StopStep

\* On one UI thread, or when the application leaves disconnecting to the SDK,
\* the reconnect loop is never left waiting on a signal nobody will complete.
THEOREM WakeupNeverLost ==
  ASSUME Sheltered
  PROVE  Spec => []NoLostWakeup
<1>1. Init => WakeInv
  BY DEF Init, WakeInv, Procs, Arming
<1>2. Safe /\ WakeInv /\ [Next]_vars => WakeInv'
  BY WakeStep
<1>3. WakeInv => NoLostWakeup
  BY DEF WakeInv, NoLostWakeup, Watched
<1> QED
  BY <1>1, <1>2, <1>3, SafeInvariant, PTL DEF Spec
=============================================================================
