----------------------- MODULE WiFiProvisioningProofs -----------------------
(***************************************************************************)
(* That the device uses the pair it has stored, for any names, passwords   *)
(* and access points, and wherever power fails.                            *)
(***************************************************************************)
EXTENDS WiFiProvisioning, TLAPS

\* Before setup() is over and untouched, pending is what was loaded.
SetupUntouched ==
  InSetup /\ ~touched =>
    /\ ble = "idle"
    /\ main # "boot" => pending = stored
    /\ main = "args" => ssidArg = pending.ssid

\* Nothing runs before the device has booted.
BootIsQuiet == main = "boot" => ble = "idle" /\ wifi = "off" /\ ~touched

\* What a callback has done so far when it can be seen.
CallbackProgress ==
  /\ ble = "saving" => stored.ssid = pending.ssid
  /\ ble = "delay" => stored = pending
  /\ ble = "clearing" => wifi = "off"

IInv == TypeOK /\ SetupUntouched /\ BootIsQuiet /\ CallbackProgress /\ StoredIsUsed

-----------------------------------------------------------------------------

\* The device starts with nothing stored and nothing in use.
LEMMA InitIInv == Init => IInv
<1> SUFFICES ASSUME Init PROVE IInv
  OBVIOUS
<1>1. TypeOK
  BY DEF Init, TypeOK, Pairs, Nobody
<1>2. SetupUntouched /\ BootIsQuiet /\ CallbackProgress
  BY DEF Init, SetupUntouched, BootIsQuiet, CallbackProgress
<1>3. StoredIsUsed
  BY DEF Init, StoredIsUsed
<1> QED BY <1>1, <1>2, <1>3 DEF IInv

\* Every variable keeps its type (all handlers of the sketch).
LEMMA TypeStep == TypeOK /\ [Next]_vars => TypeOK'
<1> SUFFICES ASSUME TypeOK, [Next]_vars PROVE TypeOK'
  OBVIOUS
<1>0. Nobody \in Pairs
  BY DEF Nobody, Pairs
<1>1. CASE UNCHANGED vars
  BY <1>1 DEF TypeOK, vars, memory, radio, loopVars, auxiliary
<1>o. CASE Next
  <2>0. unseen' \in BOOLEAN
    BY <1>o DEF Next, Observe, TypeOK
  <2> USE <2>0, <1>0 DEF TypeOK, memory, radio, loopVars, auxiliary, Main
  <2>1. CASE Setup_Begin
    BY <2>1 DEF Setup_Begin
  <2>2. CASE Setup_Found
    BY <2>2 DEF Setup_Found
  <2>3. CASE Setup_Enter
    BY <2>3 DEF Setup_Enter, Disconnect
  <2>4. CASE Setup_Args
    <3>1. pending.ssid \in Ssids \union {Empty}
      BY DEF Pairs
    <3> QED BY <2>4, <3>1 DEF Setup_Args
  <2>5. CASE Setup_WiFiBegin
    <3>1. [ssid |-> ssidArg, pass |-> pending.pass] \in Pairs
      BY DEF Pairs
    <3> QED BY <2>5, <3>1 DEF Setup_WiFiBegin, Begin
  <2>6. CASE Setup_Waited
    BY <2>6 DEF Setup_Waited
  <2>7. CASE Loop_Poll
    BY <2>7 DEF Loop_Poll, WiFiStatus
  <2>8. CASE Loop_Publish
    BY <2>8 DEF Loop_Publish
  <2>9. CASE Main_ReadStatus
    BY <2>9 DEF Main_ReadStatus
  <2>10. CASE Main_WriteLed
    BY <2>10 DEF Main_WriteLed
  <2>11. ASSUME NEW pair \in Pairs, Write(pair) PROVE TypeOK'
    BY <2>11 DEF Write, InSetup
  <2>12. CASE Command_Clear
    <3>1. [stored EXCEPT !.ssid = Empty] \in Pairs
      BY DEF Pairs
    <3> QED BY <2>12, <3>1 DEF Command_Clear, Disconnect, InSetup
  <2>13. CASE Command_Disconnect
    BY <2>13 DEF Command_Disconnect, Disconnect, updateLed, InSetup
  <2>c. Completed \in Pairs
    BY DEF Completed, Pairs
  <2>14. CASE Command_ConnectNothing
    BY <2>14, <2>c DEF Command_ConnectNothing
  <2>15. CASE Command_Connect
    <3>1. [stored EXCEPT !.ssid = Completed.ssid] \in Pairs
      BY <2>c DEF Pairs
    <3> QED BY <2>15, <2>c, <3>1 DEF Command_Connect, InSetup
  <2>16. CASE Clear_Second
    BY <2>16 DEF Clear_Second
  <2>17. CASE Connect_Enter
    <3>1. [stored EXCEPT !.pass = pending.pass] \in Pairs
      BY DEF Pairs
    <3> QED BY <2>17, <3>1 DEF Connect_Enter, Disconnect
  <2>18. CASE Connect_WiFiBegin
    BY <2>18 DEF Connect_WiFiBegin, Begin
  <2>19. CASE Connect_Waited
    BY <2>19 DEF Connect_Waited, updateLed
  <2>20. CASE onDisconnect \/ Client_Connects \/ Client_Leaves
    BY <2>20 DEF onDisconnect, Client_Connects, Client_Leaves
  <2>21. CASE Associate \/ LoseNetwork
    BY <2>21 DEF Associate, LoseNetwork
  <2>22. CASE PowerFails
    BY <2>22 DEF PowerFails
  <2> QED
    BY <1>o, <2>1, <2>2, <2>3, <2>4, <2>5, <2>6, <2>7, <2>8, <2>9, <2>10, <2>11, <2>12, <2>13,
       <2>14, <2>15, <2>16, <2>17, <2>18, <2>19, <2>20, <2>21, <2>22
       DEF Next, MainStep, Commands, Handlers
<1> QED BY <1>1, <1>o

\* No step of either task, of the network or of the power supply makes the
\* device use anything but what is stored.
LEMMA IInvStep == IInv /\ [Next]_vars => IInv'
<1> SUFFICES ASSUME IInv, [Next]_vars PROVE IInv'
  OBVIOUS
<1>t. TypeOK /\ TypeOK'
  BY TypeStep DEF IInv
<1> DEFINE Rest == SetupUntouched /\ BootIsQuiet /\ CallbackProgress /\ StoredIsUsed
<1>r. Rest
  BY DEF IInv
<1>1. CASE UNCHANGED vars
  <2>1. Rest'
    BY <1>1, <1>r DEF SetupUntouched, BootIsQuiet, CallbackProgress, StoredIsUsed, InSetup,
       BleSleeps, vars, memory, radio, loopVars, auxiliary
  <2> QED BY <2>1, <1>t DEF IInv
<1>o. ASSUME Next PROVE Rest'
  <2> USE <1>r, <1>t DEF SetupUntouched, BootIsQuiet, CallbackProgress, StoredIsUsed, InSetup,
        BleSleeps, memory, radio, loopVars, auxiliary
  <2>1. CASE Setup_Begin
    BY <2>1 DEF Setup_Begin, Main
  <2>2. CASE Setup_Found
    BY <2>2 DEF Setup_Found, Main
  <2>3. CASE Setup_Enter
    BY <2>3 DEF Setup_Enter, Main, Disconnect
  <2>4. CASE Setup_Args
    BY <2>4 DEF Setup_Args, Main
  <2>5. CASE Setup_WiFiBegin
    <3>1. ~touched => [ssid |-> ssidArg, pass |-> pending.pass] = stored
      <4>1. SUFFICES ASSUME ~touched PROVE [ssid |-> ssidArg, pass |-> pending.pass] = stored
        OBVIOUS
      <4>2. ssidArg = stored.ssid /\ pending.pass = stored.pass
        BY <2>5, <4>1 DEF Setup_WiFiBegin, Main
      <4> QED BY <4>2, <1>t DEF TypeOK, Pairs
    <3>2. StoredIsUsed'
      BY <2>5, <3>1 DEF Setup_WiFiBegin, Main, Begin
    <3>3. (SetupUntouched /\ BootIsQuiet)'
      BY <2>5 DEF Setup_WiFiBegin, Main
    <3>4. CallbackProgress'
      BY <2>5 DEF Setup_WiFiBegin, Main
    <3> QED BY <3>2, <3>3, <3>4
  <2>6. CASE Setup_Waited \/ Loop_Poll \/ Loop_Publish \/ Main_ReadStatus \/ Main_WriteLed
    BY <2>6 DEF Setup_Waited, Loop_Poll, Loop_Publish, Main_ReadStatus, Main_WriteLed, Main
  <2>11. ASSUME NEW pair \in Pairs, Write(pair) PROVE Rest'
    BY <2>11 DEF Write, Callback
  <2>12. CASE Command_Clear
    BY <2>12 DEF Command_Clear, Callback, Disconnect
  <2>13. CASE Command_Disconnect
    BY <2>13 DEF Command_Disconnect, Callback, Disconnect
  <2>14. CASE Command_ConnectNothing
    <3>1. SetupUntouched'
      <4>1. SUFFICES ASSUME InSetup, ~touched PROVE pending' = pending
        BY <2>14 DEF Command_ConnectNothing, Callback
      <4>2. pending = stored
        BY <2>14, <4>1 DEF Command_ConnectNothing, Callback
      <4>3. Completed = pending
        <5>1. Completed.ssid = pending.ssid /\ Completed.pass = pending.pass
          BY <4>2 DEF Completed
        <5> QED BY <5>1 DEF Completed, TypeOK, Pairs
      <4> QED BY <4>3, <2>14 DEF Command_ConnectNothing
    <3>2. (BootIsQuiet /\ CallbackProgress /\ StoredIsUsed)'
      BY <2>14 DEF Command_ConnectNothing, Callback
    <3> QED BY <3>1, <3>2
  <2>15. CASE Command_Connect
    <3>1. (stored').ssid = (pending').ssid
      BY <2>15 DEF Command_Connect, TypeOK, Pairs
    <3> QED BY <2>15, <3>1 DEF Command_Connect, Callback
  <2>16. CASE Clear_Second
    BY <2>16 DEF Clear_Second
  <2>17. CASE Connect_Enter
    <3>1. stored' = pending'
      BY <2>17 DEF Connect_Enter, TypeOK, Pairs
    <3> QED BY <2>17, <3>1 DEF Connect_Enter, Disconnect
  <2>18. CASE Connect_WiFiBegin
    BY <2>18 DEF Connect_WiFiBegin, Begin, MainSleeps
  <2>19. CASE Connect_Waited
    BY <2>19 DEF Connect_Waited
  <2>20. CASE onDisconnect \/ Client_Connects \/ Client_Leaves
    BY <2>20 DEF onDisconnect, Client_Connects, Client_Leaves
  <2>21. CASE Associate \/ LoseNetwork
    BY <2>21 DEF Associate, LoseNetwork
  <2>22. CASE PowerFails
    BY <2>22 DEF PowerFails
  <2> QED
    BY <1>o, <2>1, <2>2, <2>3, <2>4, <2>5, <2>6, <2>11, <2>12, <2>13, <2>14, <2>15, <2>16,
       <2>17, <2>18, <2>19, <2>20, <2>21, <2>22 DEF Next, MainStep, Commands, Handlers
<1> QED BY <1>1, <1>o, <1>t DEF IInv

\* The device always uses the pair that it has stored (saveCredentials comes
\* before connectToWiFi, and setup() loads before it joins), for any names,
\* passwords and access points and wherever power fails.
THEOREM AlwaysUsesStored == Spec => []StoredIsUsed
<1>1. IInv => StoredIsUsed
  BY DEF IInv
<1> QED BY <1>1, InitIInv, IInvStep, PTL DEF Spec
=============================================================================
