---------------------------- MODULE FrameHandlers ----------------------------
(***************************************************************************)
(* HandleImuPayloadText of the SDK, run by two threads at a time: the      *)
(* value that ConnectAsync reads when a connection is made is handled by   *)
(* the thread that connects, and notifications are enabled before that     *)
(* read.  The recognizer's fields are shared, survive the connection and   *)
(* have no lock; SendSystemHotkey sleeps in the middle of a handler.       *)
(*                                                                         *)
(* What GestureRecognizer says about one frame after the other is taken    *)
(* over with the frame reduced to what its branches ask:                   *)
(*   "rest"   in the stop pose and calm    "shake"  in the pose, shaken    *)
(*   "still"  elsewhere and calm           "lift"   elsewhere and moving   *)
(* Whether a movement is recognised is a free choice.                      *)
(***************************************************************************)
EXTENDS Integers, Sequences

CONSTANTS
  HoldTime,        \* HoldSeconds
  CooldownTime,    \* CooldownSeconds
  MaxTime          \* bound on the stopwatch

ASSUME TimesAssumption == HoldTime \in Nat /\ CooldownTime \in Nat /\ MaxTime \in Nat

Handlers == {"notify", "read"}
Kinds == {"rest", "shake", "still", "lift"}
States == {"Idle", "Moving", "Holding", "Cooldown"}

\* VirtualKeyControl, VirtualKeyMenu, VirtualKeyQ: pressed in this order and
\* released in the opposite one.
Chord == <<"Ctrl", "Alt", "Q">>

VARIABLES
  clock,                                   \* _gestureClock
  connection,                              \* "off", "subscribed" or "read"
  pc, now, saw, pressed,                   \* locals of each handler
  gestureState, holdStart, cooldownUntil,  \* the fields they share
  keysDown,                                \* the keyboard of the system
  groupStart, fired                        \* auxiliary, see Trigger

locals == <<now, saw, pressed>>
fields == <<gestureState, holdStart, cooldownUntil>>
handlerVars ==
  <<clock, connection, pc, locals, fields, keysDown, groupStart, fired>>

Sending == {h \in Handlers : pc[h] \in {"press", "sleep", "release", "settle"}}

Lesser(a, b) == IF a < b THEN a ELSE b

HandlersInit ==
  /\ clock = 0 /\ connection = "off"
  /\ pc = [h \in Handlers |-> "idle"]
  /\ now = [h \in Handlers |-> 0]
  /\ saw = [h \in Handlers |-> "Idle"] /\ pressed = [h \in Handlers |-> 0]
  /\ gestureState = "Idle" /\ holdStart = 0 /\ cooldownUntil = 0
  /\ keysDown = {}
  /\ groupStart = -CooldownTime /\ fired = FALSE

Go(h, from, to) == pc[h] = from /\ pc' = [pc EXCEPT ![h] = to]

-----------------------------------------------------------------------------
(* The connection, as far as frames go *)

\* EnableNotifyIfSupportedAsync; one ConnectAsync runs at a time, and it
\* returns after the handler that it calls.
Subscribe ==
  /\ connection = "off" /\ pc["read"] = "idle"
  /\ connection' = "subscribed"
  /\ UNCHANGED <<clock, pc, locals, fields, keysDown, groupStart, fired>>

\* The read of the first value fails, and there is nothing to handle.
ReadFails ==
  /\ connection = "subscribed"
  /\ connection' = "read"
  /\ UNCHANGED <<clock, pc, locals, fields, keysDown, groupStart, fired>>

\* Nothing of the recognizer is reset.
LinkLost ==
  /\ connection # "off"
  /\ connection' = "off"
  /\ UNCHANGED <<clock, pc, locals, fields, keysDown, groupStart, fired>>

-----------------------------------------------------------------------------
(* One frame *)

\* The frame itself is looked at when the handler acts.
Receive(h) ==
  /\ connection # "off"
  /\ IF h = "read" THEN connection = "subscribed" /\ connection' = "read"
                   ELSE UNCHANGED connection
  /\ Go(h, "idle", "analyse")
  /\ now' = [now EXCEPT ![h] = clock]
  /\ UNCHANGED <<clock, saw, pressed, fields, keysDown, groupStart, fired>>

\* The locals of a handler that has returned.
Forget(h) ==
  /\ now' = [now EXCEPT ![h] = 0]
  /\ saw' = [saw EXCEPT ![h] = "Idle"]

\* AnalyzeRecentJitter enumerates a queue that the other handler has just
\* changed: the enumerator throws and the frame is lost.
EnumerationThrows(h) ==
  /\ \A g \in Handlers : pc[g] # "idle"
  /\ Go(h, "analyse", "idle")
  /\ Forget(h)
  /\ UNCHANGED <<clock, connection, pressed, fields, keysDown, groupStart, fired>>

\* switch (_gestureState)
Look(h) ==
  /\ Go(h, "analyse", "act")
  /\ saw' = [saw EXCEPT ![h] = gestureState]
  /\ UNCHANGED <<clock, connection, now, pressed, fields, keysDown, groupStart, fired>>

\* Mutant: the cooldown is left to the state Cooldown alone.
Due_ByState(h) == now[h] - holdStart >= HoldTime

Due(h) == now[h] - holdStart >= HoldTime /\ now[h] >= cooldownUntil

\* The states that the branch of the state it saw may assign.
Assigns(h, k) ==
  CASE saw[h] = "Idle"     -> IF k = "lift" THEN {"Moving"} ELSE {}
    [] saw[h] = "Moving"   -> {"Holding", "Idle"}
    [] saw[h] = "Holding"  -> IF k = "rest" THEN {}
                              ELSE IF k = "still" THEN {"Idle"} ELSE {"Moving"}
    [] saw[h] = "Cooldown" -> IF now[h] >= cooldownUntil /\ k \in {"rest", "still"}
                              THEN {"Idle"} ELSE {}

Assign(h, k) ==
  /\ Go(h, "act", "idle")
  /\ gestureState' \in Assigns(h, k)
  /\ holdStart' = IF gestureState' = "Holding" THEN now[h] ELSE holdStart
  /\ Forget(h)
  /\ UNCHANGED <<clock, connection, pressed, cooldownUntil, keysDown, groupStart, fired>>

\* The branch leaves the state alone.  A frame in the stop pose may be too
\* fast to end a cooldown.
Keep(h, k) ==
  /\ Go(h, "act", "idle")
  /\ saw[h] = "Holding" => k = "rest" /\ ~Due(h)
  /\ saw[h] = "Cooldown" => ~(now[h] >= cooldownUntil /\ k = "still")
  /\ Forget(h)
  /\ UNCHANGED <<clock, connection, pressed, fields, keysDown, groupStart, fired>>

\* A frame in the pose, the hold has lasted, and SendSystemHotkey is called.
\* Sends that overlap form a group, which starts with the earliest of their
\* frames.
Trigger(h) ==
  /\ saw[h] = "Holding" /\ Due(h)
  /\ Go(h, "act", "press")
  /\ groupStart' = IF Sending = {} THEN now[h] ELSE Lesser(groupStart, now[h])
  /\ fired' = (fired /\ Sending # {})
  /\ UNCHANGED <<clock, connection, locals, fields, keysDown>>

-----------------------------------------------------------------------------
(* SendSystemHotkey *)

\* Mutant: the keys are pressed in the order in which they are released.
NextKey_Reversed(h) == Chord[Len(Chord) - pressed[h]]

NextKey(h) == Chord[pressed[h] + 1]

\* The system fires the hotkey when Q goes down and both modifiers are down.
Fires(h) == NextKey(h) = "Q" /\ {"Ctrl", "Alt"} \subseteq keysDown

PressKey(h) ==
  /\ Go(h, "press", IF pressed[h] + 1 = Len(Chord) THEN "sleep" ELSE "press")
  /\ keysDown' = keysDown \union {NextKey(h)}
  /\ pressed' = [pressed EXCEPT ![h] = @ + 1]
  /\ fired' = (fired \/ Fires(h))
  /\ UNCHANGED <<clock, connection, now, saw, fields, groupStart>>

Wake(h) ==
  /\ Go(h, "sleep", "release")
  /\ UNCHANGED <<clock, connection, locals, fields, keysDown, groupStart, fired>>

\* Mutant: the loop that releases stops one key short.
ReleaseKey_StopsShort(h) ==
  /\ Go(h, "release", IF pressed[h] = 2 THEN "settle" ELSE "release")
  /\ keysDown' = keysDown \ {Chord[pressed[h]]}
  /\ pressed' = [pressed EXCEPT ![h] = IF @ = 2 THEN 0 ELSE @ - 1]
  /\ UNCHANGED <<clock, connection, now, saw, fields, groupStart, fired>>

ReleaseKey(h) ==
  /\ Go(h, "release", IF pressed[h] = 1 THEN "settle" ELSE "release")
  /\ keysDown' = keysDown \ {Chord[pressed[h]]}
  /\ pressed' = [pressed EXCEPT ![h] = @ - 1]
  /\ UNCHANGED <<clock, connection, now, saw, fields, groupStart, fired>>

\* Only now does the recognizer leave the hold, whatever its state became.
Settle(h) ==
  /\ Go(h, "settle", "idle")
  /\ cooldownUntil' = now[h] + CooldownTime
  /\ gestureState' = "Cooldown"
  /\ Forget(h)
  /\ UNCHANGED <<clock, connection, pressed, holdStart, keysDown, groupStart, fired>>

-----------------------------------------------------------------------------

HandlerStep(h) ==
  \/ Receive(h) \/ EnumerationThrows(h) \/ Look(h)
  \/ \E k \in Kinds : Assign(h, k) \/ Keep(h, k)
  \/ Trigger(h) \/ Wake(h) \/ ReleaseKey(h) \/ Settle(h)

Time_Passes ==
  /\ clock < MaxTime
  /\ clock' = clock + 1
  /\ UNCHANGED <<connection, pc, locals, fields, keysDown, groupStart, fired>>

ConnectionStep == Subscribe \/ ReadFails \/ LinkLost

-----------------------------------------------------------------------------
(* Properties *)

\* Every variable keeps its type.
HandlersTypeOK ==
  /\ clock \in 0..MaxTime /\ connection \in {"off", "subscribed", "read"}
  /\ pc \in [Handlers -> {"idle", "analyse", "act", "press", "sleep", "release", "settle"}]
  /\ now \in [Handlers -> 0..MaxTime]
  /\ saw \in [Handlers -> States] /\ pressed \in [Handlers -> 0..Len(Chord)]
  /\ gestureState \in States /\ holdStart \in 0..MaxTime
  /\ cooldownUntil \in 0..(MaxTime + CooldownTime)
  /\ keysDown \subseteq {"Ctrl", "Alt", "Q"}
  /\ groupStart \in -CooldownTime..MaxTime /\ fired \in BOOLEAN

\* However two sends overlap, no key is left down when both are over
\* (SendSystemHotkey releases what it pressed).
KeysReleased == Sending = {} => keysDown = {}

\* Of the sends that overlap at least one is a complete Ctrl+Alt+Q: a gesture
\* that was recognised is not lost between two half-pressed chords.
GroupFires == \A h \in Handlers : pc[h] \in {"sleep", "release", "settle"} => fired

\* Hotkeys within a cooldown of each other were sent by handlers that
\* overlapped: the comparison with _cooldownUntilTicks keeps all others apart,
\* even where a late handler has overwritten the state Cooldown.
OnlyOverlapsRepeat ==
  [][\A h \in Handlers :
       Trigger(h) /\ Sending = {} => now[h] >= groupStart + CooldownTime]_handlerVars
=============================================================================
