-------------------------- MODULE HotkeyPathProofs --------------------------
(***************************************************************************)
(* The guarantees of HotkeyPath for every hold time, cooldown, length of   *)
(* run and length of the message queue.                                    *)
(***************************************************************************)
EXTENDS HotkeyPath, TLAPS

\* The keys that a handler has pressed and not yet released, by its place.
PressedByPlace ==
  \A h \in Handlers :
    /\ pc[h] = "press" => pressed[h] \in 0..2
    /\ pc[h] = "sleep" => pressed[h] = 3
    /\ pc[h] = "release" => pressed[h] \in 1..3
    /\ pc[h] \notin {"press", "sleep", "release"} => pressed[h] = 0

\* A key that is down was pressed by a handler that will release it.
DownIsHeld ==
  \A i \in 1..3 : Chord[i] \in keysDown => \E h \in Handlers : i <= pressed[h]

\* Until the group has fired nobody has released anything.
HeldIsDown ==
  ~fired => \A h \in Handlers, i \in 1..3 : i <= pressed[h] => Chord[i] \in keysDown

\* The group started with the earliest frame of its sends, and the last send
\* to end leaves a cooldown that covers it.
GroupIsCovered ==
  /\ \A h \in Sending : groupStart <= now[h]
  /\ Sending = {} => cooldownUntil >= groupStart + CooldownTime

HInv ==
  HandlersTypeOK /\ PressedByPlace /\ DownIsHeld /\ HeldIsDown /\ GroupFires /\ GroupIsCovered

-----------------------------------------------------------------------------

\* The three keys of SendSystemHotkey are different.
LEMMA ChordKeys ==
  /\ Len(Chord) = 3
  /\ Chord[1] = "Ctrl" /\ Chord[2] = "Alt" /\ Chord[3] = "Q"
BY DEF Chord

\* Both programs start with no key down and nothing sent.
LEMMA InitHInv == HandlersInit => HInv
<1> SUFFICES ASSUME HandlersInit PROVE HInv
  OBVIOUS
<1> USE TimesAssumption, ChordKeys DEF HandlersInit
<1>1. HandlersTypeOK
  <2>1. groupStart \in -CooldownTime..MaxTime /\ 0 \in 0..MaxTime
        /\ 0 \in 0..(MaxTime + CooldownTime) /\ 0 \in 0..Len(Chord)
    OBVIOUS
  <2> QED BY <2>1 DEF HandlersTypeOK, States
<1>2. Sending = {}
  BY DEF Sending
<1>3. PressedByPlace /\ DownIsHeld /\ HeldIsDown
  BY DEF PressedByPlace, DownIsHeld, HeldIsDown
<1>4. GroupFires /\ GroupIsCovered
  BY <1>2 DEF GroupFires, GroupIsCovered
<1> QED BY <1>1, <1>3, <1>4 DEF HInv

HandlerMoves ==
  \/ \E h \in Handlers : PressKey(h) \/ HandlerStep(h)
  \/ ConnectionStep \/ Time_Passes \/ UNCHANGED handlerVars

\* Every variable of the handlers keeps its type.
LEMMA HandlersTypeStep == HInv /\ HandlerMoves => HandlersTypeOK'
<1> SUFFICES ASSUME HInv, HandlerMoves PROVE HandlersTypeOK'
  OBVIOUS
<1> USE TimesAssumption, ChordKeys DEF HandlersTypeOK, fields, locals, Go
<1>0. HandlersTypeOK /\ PressedByPlace
  BY DEF HInv
<1> USE <1>0
<1>1. CASE UNCHANGED handlerVars
  BY <1>1 DEF handlerVars
<1>2. CASE Time_Passes
  BY <1>2 DEF Time_Passes
<1>3. CASE ConnectionStep
  BY <1>3 DEF ConnectionStep, Subscribe, ReadFails, LinkLost
<1>4. ASSUME NEW h \in Handlers, PressKey(h) PROVE HandlersTypeOK'
  <2>1. pressed[h] \in 0..2 /\ NextKey(h) \in {"Ctrl", "Alt", "Q"}
    BY <1>4 DEF PressKey, PressedByPlace, NextKey
  <2>2. fired' \in BOOLEAN
    BY <1>4 DEF PressKey
  <2>3. pressed' \in [Handlers -> 0..Len(Chord)]
    BY <1>4, <2>1 DEF PressKey
  <2>4. keysDown' \subseteq {"Ctrl", "Alt", "Q"}
    BY <1>4, <2>1 DEF PressKey
  <2> QED BY <1>4, <2>2, <2>3, <2>4 DEF PressKey
<1>5. ASSUME NEW h \in Handlers, HandlerStep(h) PROVE HandlersTypeOK'
  <2>1. CASE Receive(h)
    BY <2>1 DEF Receive
  <2>2. CASE EnumerationThrows(h)
    BY <2>2 DEF EnumerationThrows, Forget, States
  <2>3. CASE Look(h)
    BY <2>3 DEF Look
  <2>4. ASSUME NEW k \in Kinds, Assign(h, k) PROVE HandlersTypeOK'
    <3>1. gestureState' \in States
      BY <2>4 DEF Assign, Assigns, States
    <3> QED BY <2>4, <3>1 DEF Assign, Forget, States
  <2>5. ASSUME NEW k \in Kinds, Keep(h, k) PROVE HandlersTypeOK'
    BY <2>5 DEF Keep, Forget, States
  <2>6. CASE Trigger(h)
    BY <2>6 DEF Trigger, Lesser
  <2>7. CASE Wake(h)
    BY <2>7 DEF Wake
  <2>8. CASE ReleaseKey(h)
    <3>1. pressed[h] \in 1..3
      BY <2>8 DEF ReleaseKey, PressedByPlace
    <3>2. pressed' \in [Handlers -> 0..Len(Chord)]
      BY <2>8, <3>1 DEF ReleaseKey
    <3>3. keysDown' \subseteq {"Ctrl", "Alt", "Q"}
      BY <2>8 DEF ReleaseKey
    <3> QED BY <2>8, <3>2, <3>3 DEF ReleaseKey
  <2>9. CASE Settle(h)
    BY <2>9 DEF Settle, Forget, States
  <2> QED BY <1>5, <2>1, <2>2, <2>3, <2>4, <2>5, <2>6, <2>7, <2>8, <2>9 DEF HandlerStep
<1> QED BY <1>1, <1>2, <1>3, <1>4, <1>5 DEF HandlerMoves

-----------------------------------------------------------------------------

\* A step outside SendSystemHotkey disturbs neither keys nor groups.
LEMMA QuietStep ==
  ASSUME HInv,
         UNCHANGED <<pressed, keysDown, fired, groupStart, cooldownUntil>>,
         \A h \in Handlers :
           \/ pc'[h] = pc[h] /\ now'[h] = now[h]
           \/ /\ pc[h] \in {"idle", "analyse", "act"}
              /\ pc'[h] \in {"idle", "analyse", "act"}
  PROVE  (PressedByPlace /\ DownIsHeld /\ HeldIsDown /\ GroupFires /\ GroupIsCovered)'
<1>1. Sending' = Sending
  BY DEF Sending
<1>2. PressedByPlace' /\ DownIsHeld' /\ HeldIsDown' /\ GroupFires'
  BY DEF HInv, PressedByPlace, DownIsHeld, HeldIsDown, GroupFires
<1>3. \A h \in Sending : now'[h] = now[h]
  BY DEF Sending
<1>4. GroupIsCovered'
  BY <1>1, <1>3 DEF HInv, GroupIsCovered
<1> QED BY <1>2, <1>4

\* No step of the handlers leaves a key behind, loses a hotkey or shortens the
\* cooldown of a group.
LEMMA HInvStep == HInv /\ HandlerMoves => HInv'
<1> SUFFICES ASSUME HInv, HandlerMoves PROVE HInv'
  OBVIOUS
<1>t. HandlersTypeOK /\ HandlersTypeOK'
  BY HandlersTypeStep DEF HInv
<1> DEFINE Rest == PressedByPlace /\ DownIsHeld /\ HeldIsDown /\ GroupFires /\ GroupIsCovered
<1>r. Rest
  BY DEF HInv
<1>q. SUFFICES Rest'
  BY <1>t DEF HInv
<1> USE ChordKeys, TimesAssumption DEF Go, fields, locals
<1>1. CASE UNCHANGED handlerVars \/ Time_Passes \/ ConnectionStep
  BY <1>1, QuietStep DEF handlerVars, Time_Passes, ConnectionStep, Subscribe, ReadFails, LinkLost
<1>2. ASSUME NEW h \in Handlers, PressKey(h) PROVE Rest'
  <2> USE <1>2 DEF PressKey
  <2>1. pressed[h] \in 0..2 /\ NextKey(h) = Chord[pressed[h] + 1]
    BY <1>r DEF PressedByPlace, NextKey
  <2>p. /\ pressed' = [pressed EXCEPT ![h] = pressed[h] + 1]
        /\ pc' = [pc EXCEPT ![h] = IF pressed[h] + 1 = 3 THEN "sleep" ELSE "press"]
    OBVIOUS
  <2>2. PressedByPlace'
    BY <2>1, <2>p, <1>t, <1>r DEF PressedByPlace, HandlersTypeOK
  <2>3. DownIsHeld'
    <3> SUFFICES ASSUME NEW i \in 1..3, Chord[i] \in keysDown'
                 PROVE  \E g \in Handlers : i <= pressed'[g]
      BY DEF DownIsHeld
    <3>1. CASE Chord[i] \in keysDown
      <4>1. PICK g \in Handlers : i <= pressed[g]
        BY <3>1, <1>r DEF DownIsHeld
      <4>2. i <= pressed'[g]
        BY <4>1, <2>p, <2>1, <1>t DEF HandlersTypeOK
      <4> QED BY <4>2
    <3>2. CASE Chord[i] = NextKey(h)
      <4>1. i = pressed[h] + 1
        BY <3>2, <2>1
      <4>2. i <= pressed'[h]
        BY <4>1, <2>p, <2>1, <1>t DEF HandlersTypeOK
      <4> QED BY <4>2
    <3> QED BY <3>1, <3>2
  <2>4. HeldIsDown'
    <3> SUFFICES ASSUME ~fired', NEW g \in Handlers, NEW i \in 1..3, i <= pressed'[g]
                 PROVE  Chord[i] \in keysDown'
      BY DEF HeldIsDown
    <3>1. CASE i <= pressed[g]
      BY <3>1, <1>r DEF HeldIsDown
    <3>2. CASE ~(i <= pressed[g])
      <4>1. g = h /\ i = pressed[h] + 1
        BY <3>2, <2>p, <2>1, <1>t DEF HandlersTypeOK
      <4> QED BY <4>1, <2>1
    <3> QED BY <3>1, <3>2
  <2>5. GroupFires'
    <3>1. fired => fired'
      OBVIOUS
    <3>2. pressed[h] = 2 => fired'
      <4> SUFFICES ASSUME pressed[h] = 2, ~fired PROVE Fires(h)
        OBVIOUS
      <4>1. Chord[1] \in keysDown /\ Chord[2] \in keysDown
        BY <1>r DEF HeldIsDown
      <4> QED BY <4>1, <2>1 DEF Fires
    <3>3. pc'[h] \in {"sleep", "release", "settle"} => pressed[h] = 2
      BY <2>p, <2>1, <1>t DEF HandlersTypeOK
    <3>4. \A g \in Handlers \ {h} : pc'[g] = pc[g]
      BY <2>p, <1>t DEF HandlersTypeOK
    <3> QED BY <3>1, <3>2, <3>3, <3>4, <1>r DEF GroupFires
  <2>6. GroupIsCovered'
    <3>1. Sending' = Sending
      BY <1>t DEF Sending, HandlersTypeOK
    <3> QED BY <3>1, <1>r DEF GroupIsCovered
  <2> QED BY <2>2, <2>3, <2>4, <2>5, <2>6
<1>3. ASSUME NEW h \in Handlers, HandlerStep(h) PROVE Rest'
  <2>1. CASE Receive(h) \/ EnumerationThrows(h) \/ Look(h)
    BY <2>1, <1>t, QuietStep DEF Receive, EnumerationThrows, Look, Forget, HandlersTypeOK
  <2>2. ASSUME NEW k \in Kinds, Assign(h, k) \/ Keep(h, k) PROVE Rest'
    BY <2>2, <1>t, QuietStep DEF Assign, Keep, Forget, HandlersTypeOK
  <2>3. CASE Trigger(h)
    <3> USE <2>3 DEF Trigger
    <3>1. PressedByPlace' /\ DownIsHeld'
      BY <1>r, <1>t DEF PressedByPlace, DownIsHeld, HandlersTypeOK
    <3>2. Sending = {} => \A g \in Handlers : pressed[g] = 0
      BY <1>r DEF Sending, PressedByPlace
    <3>3. HeldIsDown'
      <4>1. CASE Sending = {}
        BY <4>1, <3>2 DEF HeldIsDown
      <4>2. CASE Sending # {}
        BY <4>2, <1>r DEF HeldIsDown
      <4> QED BY <4>1, <4>2
    <3>4. GroupFires'
      BY <1>r, <1>t DEF GroupFires, Sending, HandlersTypeOK
    <3>5. h \in Sending' /\ Sending' = Sending \union {h}
      BY <1>t DEF Sending, HandlersTypeOK
    <3>6. GroupIsCovered'
      <4>1. CASE Sending = {}
        BY <4>1, <3>5, <1>t DEF GroupIsCovered, HandlersTypeOK
      <4>2. CASE Sending # {}
        BY <4>2, <3>5, <1>r, <1>t DEF GroupIsCovered, HandlersTypeOK, Lesser, Sending
      <4> QED BY <4>1, <4>2
    <3> QED BY <3>1, <3>3, <3>4, <3>6
  <2>4. CASE Wake(h)
    <3> USE <2>4 DEF Wake
    <3>1. PressedByPlace' /\ DownIsHeld' /\ HeldIsDown' /\ GroupFires'
      BY <1>r, <1>t DEF PressedByPlace, DownIsHeld, HeldIsDown, GroupFires, HandlersTypeOK
    <3>2. Sending' = Sending
      BY <1>t DEF Sending, HandlersTypeOK
    <3> QED BY <3>1, <3>2, <1>r DEF GroupIsCovered
  <2>5. CASE ReleaseKey(h)
    <3> USE <2>5 DEF ReleaseKey
    <3>1. pressed[h] \in 1..3 /\ fired
      BY <1>r DEF PressedByPlace, GroupFires
    <3>p. pressed' = [pressed EXCEPT ![h] = pressed[h] - 1]
      OBVIOUS
    <3>2. PressedByPlace'
      BY <3>1, <3>p, <1>r, <1>t DEF PressedByPlace, HandlersTypeOK
    <3>3. DownIsHeld'
      <4> SUFFICES ASSUME NEW i \in 1..3, Chord[i] \in keysDown'
                   PROVE  \E g \in Handlers : i <= pressed'[g]
        BY DEF DownIsHeld
      <4>1. PICK g \in Handlers : i <= pressed[g]
        BY <1>r DEF DownIsHeld
      <4>2. i # pressed[h]
        BY <3>1
      <4>3. i <= pressed'[g]
        BY <4>1, <4>2, <3>1, <3>p, <1>t DEF HandlersTypeOK
      <4> QED BY <4>3
    <3>4. HeldIsDown' /\ GroupFires'
      BY <3>1, <1>t DEF HeldIsDown, GroupFires
    <3>5. Sending' = Sending
      BY <1>t DEF Sending, HandlersTypeOK
    <3> QED BY <3>2, <3>3, <3>4, <3>5, <1>r DEF GroupIsCovered
  <2>6. CASE Settle(h)
    <3> USE <2>6 DEF Settle
    <3>1. PressedByPlace' /\ DownIsHeld' /\ HeldIsDown' /\ GroupFires'
      BY <1>r, <1>t DEF PressedByPlace, DownIsHeld, HeldIsDown, GroupFires, HandlersTypeOK
    <3>2. h \in Sending /\ Sending' = Sending \ {h}
      BY <1>t DEF Sending, HandlersTypeOK
    <3>3. \A g \in Sending' : now'[g] = now[g]
      BY <3>2, <1>t DEF Forget, HandlersTypeOK, Sending
    <3>4. GroupIsCovered'
      BY <3>2, <3>3, <1>r, <1>t DEF GroupIsCovered, HandlersTypeOK
    <3> QED BY <3>1, <3>4
  <2> QED BY <1>3, <2>1, <2>2, <2>3, <2>4, <2>5, <2>6 DEF HandlerStep
<1> QED BY <1>1, <1>2, <1>3 DEF HandlerMoves

\* Each step of the two programs is a step of the handlers or leaves them be.
LEMMA NextMoves == [Next]_vars => HandlerMoves
BY DEF Next, vars, HandlerMoves, Press

\* The invariant of the handlers holds throughout.
LEMMA AlwaysHInv == Spec => []HInv
<1>1. Init => HInv
  BY InitHInv DEF Init
<1>2. HInv /\ [Next]_vars => HInv'
  BY HInvStep, NextMoves
<1> QED BY <1>1, <1>2, PTL DEF Spec

\* SendSystemHotkey leaves no key down, however two calls overlap.
THEOREM KeysAlwaysReleased == Spec => []KeysReleased
<1>1. HInv => KeysReleased
  <2> SUFFICES ASSUME HInv, Sending = {} PROVE keysDown = {}
    BY DEF KeysReleased
  <2>1. \A h \in Handlers : pressed[h] = 0
    BY DEF HInv, PressedByPlace, Sending
  <2>2. \A i \in 1..3 : Chord[i] \notin keysDown
    BY <2>1 DEF HInv, DownIsHeld
  <2> QED BY <2>2, ChordKeys DEF HInv, HandlersTypeOK
<1> QED BY <1>1, AlwaysHInv, PTL

\* A group of overlapping sends fires the hotkey before any of them sleeps.
THEOREM GroupAlwaysFires == Spec => []GroupFires
<1>1. HInv => GroupFires
  BY DEF HInv
<1> QED BY <1>1, AlwaysHInv, PTL

\* Hotkeys of handlers that do not overlap are a cooldown apart, for any hold
\* time and cooldown (the comparison with _cooldownUntilTicks).
THEOREM OnlyOverlapsEverRepeat == Spec => OnlyOverlapsRepeat
<1>1. HInv => (\A h \in Handlers :
         Trigger(h) /\ Sending = {} => now[h] >= groupStart + CooldownTime)
  <2> SUFFICES ASSUME HInv, NEW h \in Handlers, Trigger(h), Sending = {}
               PROVE  now[h] >= groupStart + CooldownTime
    OBVIOUS
  <2>1. now[h] >= cooldownUntil
    BY DEF Trigger, Due
  <2>2. cooldownUntil >= groupStart + CooldownTime
    BY DEF HInv, GroupIsCovered
  <2>3. now[h] \in Int /\ cooldownUntil \in Int /\ groupStart \in Int /\ CooldownTime \in Int
    BY TimesAssumption DEF HInv, HandlersTypeOK
  <2> QED BY <2>1, <2>2, <2>3
<1>2. HInv => [\A h \in Handlers :
         Trigger(h) /\ Sending = {} => now[h] >= groupStart + CooldownTime]_handlerVars
  BY <1>1
<1> QED BY <1>2, AlwaysHInv, PTL DEF OnlyOverlapsRepeat
=============================================================================
