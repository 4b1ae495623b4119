------------------------ MODULE MCGestureRecognizer ------------------------
(***************************************************************************)
(* A small instance of GestureRecognizer: durations scaled to a few ticks  *)
(* in the proportions of the code, four kinds of frame.                    *)
(***************************************************************************)
EXTENDS GestureRecognizer

\* Pen writing: flat, quiet.
Writing == [pitch |-> 0, roll |-> 5, gyro |-> 100, accel |-> 50]
\* Hand on its way: just outside the stop pose, moving.
Lifting == [pitch |-> 20, roll |-> 170, gyro |-> 800, accel |-> 500]
\* Hand at the mouth; the raw roll wraps to -182 degrees.
Stopped == [pitch |-> 30, roll |-> 178, gyro |-> 300, accel |-> 40]
\* At the mouth but shaken, exactly at the break threshold.
Shaken == [pitch |-> 30, roll |-> 178, gyro |-> 2300, accel |-> 3000]

MCFrames == {Writing, Lifting, Stopped, Shaken}
MCGaps == {1, 3}
=============================================================================
