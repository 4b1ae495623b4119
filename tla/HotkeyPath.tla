----------------------------- MODULE HotkeyPath -----------------------------
(***************************************************************************)
(* The way of a hotkey: the SDK's frame handlers press the keys, the       *)
(* system fires the hotkey, HotkeyReceiver gets the message.               *)
(***************************************************************************)
EXTENDS FrameHandlers, HotkeyReceiver

vars == <<handlerVars, receiverVars>>

Init == HandlersInit /\ ReceiverInit

\* keybd_event, and what the system makes of it.
Press(h) ==
  /\ PressKey(h)
  /\ IF Fires(h) THEN PostHotkey ELSE UNCHANGED receiverVars

Next ==
  \/ \E h \in Handlers : Press(h)
  \/ \E h \in Handlers : HandlerStep(h) /\ UNCHANGED receiverVars
  \/ (ConnectionStep \/ Time_Passes) /\ UNCHANGED receiverVars
  \/ ReceiverStep /\ UNCHANGED handlerVars

Spec == Init /\ [][Next]_vars
=============================================================================
