------------------------------ MODULE ImuStream ------------------------------
(***************************************************************************)
(* The way of a measurement: ImuSensor reads the registers, AppController  *)
(* writes them as CSV, a notification carries as much of the text as the   *)
(* link takes, ImuPayloadProcessor parses it and ImuAutoCalibrator learns  *)
(* the bias of the gyroscope and the direction of gravity.                 *)
(*                                                                         *)
(* The widths are parameters: a register has two bytes of ByteBase values, *)
(* an int is twice as wide as a register.  The calibrator's doubles are    *)
(* fixed-point numbers, in units of 1 / Scale.                             *)
(***************************************************************************)
EXTENDS Integers, Sequences

CONSTANTS
  ByteBase,                               \* 256
  Scale, GyroBiasAlpha, GravityAlphaStill, GravityAlphaMove,
  OneG, AccelMagTolerance, GyroStillThreshold,
  ReadyStableFrames,
  Motions                                 \* what the sensor measures

Half == (ByteBase * ByteBase) \div 2
Int16 == -Half..(Half - 1)
Axes == 1..3

ASSUME WidthAssumption == ByteBase \in Nat /\ ByteBase > 0 /\ ByteBase % 2 = 0

ASSUME AlphaAssumption ==
  /\ Scale \in Nat \ {0}
  /\ {GyroBiasAlpha, GravityAlphaStill, GravityAlphaMove} \subseteq 1..Scale

ASSUME CalibratorAssumption ==
  /\ OneG \in Nat /\ AccelMagTolerance \in 0..OneG
  /\ GyroStillThreshold \in Nat \ {0} /\ ReadyStableFrames \in Nat

ASSUME MotionAssumption ==
  Motions \subseteq [accel : [Axes -> Int16], gyro : [Axes -> Int16], temp : Int16]

NoFrame == [accel |-> [a \in Axes |-> 0], gyro |-> [a \in Axes |-> 0]]

VARIABLES
  ready,         \* ImuSensor::ready_
  motion,        \* what there is to measure
  status,        \* what Process returned last
  frame,         \* the raw sample that it parsed last
  initialized, stableFrames, gyroBias, gravity      \* ImuAutoCalibrator

calibrator == <<initialized, stableFrames, gyroBias, gravity>>
vars == <<ready, motion, status, frame, calibrator>>

Init ==
  /\ ready = FALSE /\ motion \in Motions
  /\ status = "ParseFailed" /\ frame = NoFrame
  /\ initialized = FALSE /\ stableFrames = 0
  /\ gyroBias = [a \in Axes |-> 0] /\ gravity = [a \in Axes |-> 0]

-----------------------------------------------------------------------------
(* The device *)

\* A register of the sensor, high byte first.
Bytes(v) == LET u == v % (2 * Half) IN <<u \div ByteBase, u % ByteBase>>

\* Registers 0x3B to 0x48.
Registers ==
  <<Bytes(motion.accel[1]), Bytes(motion.accel[2]), Bytes(motion.accel[3]),
    Bytes(motion.temp),
    Bytes(motion.gyro[1]), Bytes(motion.gyro[2]), Bytes(motion.gyro[3])>>

toInt16(high, low) ==
  LET u == high * ByteBase + low IN IF u >= Half THEN u - 2 * Half ELSE u

\* The texts that matter: a number, or one that int.TryParse refuses.
Number(n) == [parses |-> TRUE, value |-> n]
Word == [parses |-> FALSE, value |-> 0]

\* "IMU,%lu,%d,%d,%d,%d,%d,%d,%d": the temperature comes last.
buildImuText ==
  LET reg(i) == Number(toInt16(Registers[i][1], Registers[i][2])) IN
  <<Word, Number(0), reg(1), reg(2), reg(3), reg(5), reg(6), reg(7), reg(4)>>

\* What is left of a number when its text is cut after at least one digit.
Magnitude(n) == IF n < 0 THEN -n ELSE n
Leading(n) ==
  LET q(d) == Magnitude(n) \div d IN
  {IF n < 0 THEN -q(d) ELSE q(d) : d \in {e \in {10, 100, 1000, 10000} : q(e) > 0}}

\* A notification carries a prefix of the text: whole fields, or whole fields
\* and the beginning of the next one.
Prefixes(text) ==
  UNION {{SubSeq(text, 1, k)}
         \union {Append(SubSeq(text, 1, k - 1), t) :
                   t \in {Word} \union {Number(n) : n \in Leading(text[k].value)}}
         : k \in 1..Len(text)}

\* begin() finds the sensor at one of its addresses and wakes it up, or fails
\* and is not called again before the device restarts.
Sensor_Begin ==
  /\ ~ready
  /\ ready' = TRUE
  /\ UNCHANGED <<motion, status, frame, calibrator>>

\* The device restarts; the calibrator of the host remembers.
Sensor_Restart ==
  /\ ready
  /\ ready' = FALSE
  /\ UNCHANGED <<motion, status, frame, calibrator>>

Device_Moves ==
  /\ motion' \in Motions
  /\ UNCHANGED <<ready, status, frame, calibrator>>

\* readSample and publishImuSample.  A read that fails publishes nothing, and
\* so does, for the host, a notification that is lost.
Published == IF ready THEN Prefixes(buildImuText) ELSE {}

-----------------------------------------------------------------------------
(* The host *)

\* Mutant: the temperature, which nothing uses, may be missing.
TryParseImuRaw_NoTemperature(payload) ==
  /\ Len(payload) >= 8 /\ payload[1] = Word
  /\ \A i \in 3..8 : payload[i].parses

TryParseImuRaw(payload) ==
  /\ Len(payload) >= 9 /\ payload[1] = Word
  /\ \A i \in 3..9 : payload[i].parses

RawSample(payload) ==
  [accel |-> [a \in Axes |-> payload[2 + a].value],
   gyro |-> [a \in Axes |-> payload[5 + a].value]]

\* An int wraps at twice the square of Half.
Wrap(n) == LET h == 2 * Half * Half IN ((n + h) % (2 * h)) - h

SquareSum(v) == Wrap(v[1] * v[1] + v[2] * v[2] + v[3] * v[3])

\* Math.Sqrt(n) lies between two bounds; of a negative n it is not a number
\* and lies nowhere.
RootBetween(n, low, high) ==
  n >= 0 /\ n < high * high /\ (low < 0 \/ n > low * low)

\* Mutant: what counts is the rate without the bias learned so far.
IsStationary_Corrected(raw) ==
  /\ RootBetween(SquareSum([a \in Axes |-> raw.gyro[a] - gyroBias[a] \div Scale]),
                 -1, GyroStillThreshold)
  /\ RootBetween(SquareSum(raw.accel), OneG - AccelMagTolerance, OneG + AccelMagTolerance)

IsStationary(raw) ==
  /\ RootBetween(SquareSum(raw.gyro), -1, GyroStillThreshold)
  /\ RootBetween(SquareSum(raw.accel), OneG - AccelMagTolerance, OneG + AccelMagTolerance)

Lerp(from, to, alpha) == from + ((to - from) * alpha) \div Scale

LerpAll(from, to, alpha) ==
  [a \in Axes |-> Lerp(from[a], Scale * to[a], alpha)]

\* Mutant: gravity is learned at rest only, as the bias is.
GravityAlpha_StillOnly(raw) == IF IsStationary(raw) THEN GravityAlphaStill ELSE 0

GravityAlpha(raw) == IF IsStationary(raw) THEN GravityAlphaStill ELSE GravityAlphaMove

\* ImuAutoCalibrator.Update; stableFrames counts up to what isReady asks.
Update(raw) ==
  /\ initialized' = TRUE
  /\ IF IsStationary(raw)
       THEN /\ gyroBias' = LerpAll(gyroBias, raw.gyro, GyroBiasAlpha)
            /\ stableFrames' = IF stableFrames < ReadyStableFrames
                               THEN stableFrames + 1 ELSE stableFrames
       ELSE gyroBias' = gyroBias /\ stableFrames' = 0
  /\ gravity' =
       LerpAll(IF initialized THEN gravity ELSE [a \in Axes |-> Scale * raw.accel[a]],
               raw.accel, GravityAlpha(raw))

\* Process succeeds: the pose can always be built.
Process_Success ==
  \E payload \in Published :
    /\ TryParseImuRaw(payload)
    /\ frame' = RawSample(payload)
    /\ Update(RawSample(payload))
    /\ status' = "Success"
    /\ UNCHANGED <<ready, motion>>

\* The calibrator does not see the frame.
Process_ParseFailed ==
  \E payload \in Published :
    /\ ~TryParseImuRaw(payload)
    /\ status' = "ParseFailed"
    /\ UNCHANGED <<ready, motion, frame, calibrator>>

Next ==
  \/ Sensor_Begin \/ Sensor_Restart \/ Device_Moves
  \/ Process_Success \/ Process_ParseFailed

Spec == Init /\ [][Next]_vars

-----------------------------------------------------------------------------
(* Properties *)

\* Every variable keeps its type.
TypeOK ==
  /\ ready \in BOOLEAN /\ motion \in Motions /\ status \in {"Success", "ParseFailed"}
  /\ frame \in [accel : [Axes -> Int16], gyro : [Axes -> Int16]]
  /\ initialized \in BOOLEAN /\ stableFrames \in 0..ReadyStableFrames
  /\ gyroBias \in [Axes -> Int] /\ gravity \in [Axes -> Int]

\* A frame that TryParseImuRaw accepts carries the six motion values that the
\* sensor measured, wherever the notification was cut: only the temperature,
\* which comes last and is used by nobody, can be wrong.
AcceptedIsIntact ==
  [][Process_Success =>
       frame'.accel = motion.accel /\ frame'.gyro = motion.gyro]_vars

\* The bias never reaches the rate at which the pen counts as moving.  A
\* saturated gyroscope makes the sum of squares in Update overflow, which
\* must not look like rest.
BiasWithinStill ==
  \A a \in Axes : Magnitude(gyroBias[a]) < Scale * GyroStillThreshold

\* Nearer than the step that the fixed-point numbers can still make.
Near(accel) ==
  \A a \in Axes : Magnitude(gravity[a] - Scale * accel[a]) <= Scale

\* The calibrator is never reset, not even for a new connection; all the same
\* the estimate of gravity reaches any pose that lasts and whose frames keep
\* arriving, at rest or not.
PoseConverges ==
  \A m \in Motions :
    <>[](motion.accel = m.accel) /\ []<><<Process_Success>>_vars => <>[]Near(m.accel)
=============================================================================
