-------------------------- MODULE DebouncedHotkey --------------------------
(***************************************************************************)
(* What the gesture recognizer promises to an application that reacts to   *)
(* the hotkey: a gesture is armed, and either abandoned or answered by one *)
(* hotkey no sooner than MinGesture ticks after it was armed; after a      *)
(* hotkey nothing is armed for Cooldown ticks.                             *)
(***************************************************************************)
EXTENDS Naturals

CONSTANTS
  MinGesture,   \* ticks, a natural number
  Cooldown      \* ticks, a natural number

VARIABLES
  time,        \* the current tick
  armed,       \* is a gesture under way?
  armedAt,     \* the tick it (or the last one) was armed at
  notBefore,   \* end of the rest after the last hotkey
  sent         \* number of hotkeys so far

hkvars == <<time, armed, armedAt, notBefore, sent>>

HKInit ==
  /\ time = 0 /\ armedAt = 0 /\ notBefore = 0 /\ sent = 0
  /\ armed = FALSE

Pass == time' > time /\ UNCHANGED <<armed, armedAt, notBefore, sent>>

Arm ==
  /\ ~armed
  /\ time' > time
  /\ time' >= notBefore
  /\ armed' = TRUE
  /\ armedAt' = time'
  /\ UNCHANGED <<notBefore, sent>>

Abandon ==
  /\ armed
  /\ time' > time
  /\ armed' = FALSE
  /\ UNCHANGED <<armedAt, notBefore, sent>>

Fire ==
  /\ armed
  /\ time' > time
  /\ time' >= armedAt + MinGesture
  /\ armed' = FALSE
  /\ sent' = sent + 1
  /\ notBefore' = time' + Cooldown
  /\ UNCHANGED armedAt

HKNext == Pass \/ Arm \/ Abandon \/ Fire

HKSpec == HKInit /\ [][HKNext]_hkvars
=============================================================================
