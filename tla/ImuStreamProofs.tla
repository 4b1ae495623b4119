--------------------------- MODULE ImuStreamProofs ---------------------------
(***************************************************************************)
(* The stream from the sensor to the calibrator for every register width,  *)
(* every threshold and weight and every set of motions.                    *)
(***************************************************************************)
EXTENDS ImuStream, SequenceTheorems, TLAPS

-----------------------------------------------------------------------------
(* Arithmetic *)

\* What division by a positive number gives.
LEMMA DivMod ==
  ASSUME NEW n \in Int, NEW m \in Nat \ {0}
  PROVE  /\ n \div m \in Int /\ n % m \in 0..(m - 1)
         /\ n = m * (n \div m) + (n % m)
<1>1. n \div m \in Int
  OBVIOUS
<1>2. n % m \in 0..(m - 1)
  OBVIOUS
<1>3. n = m * (n \div m) + (n % m)
  BY SMTT(60)
<1> QED BY <1>1, <1>2, <1>3

\* A quotient is where its bounds put it.
LEMMA DivBetween ==
  ASSUME NEW n \in Int, NEW m \in Nat \ {0}, NEW lo \in Int, NEW hi \in Int,
         m * lo <= n, n <= m * hi
  PROVE  n \div m \in lo..hi
<1> DEFINE q == n \div m
<1>1. q \in Int /\ m * q <= n /\ n < m * q + m
  BY DivMod
<1> HIDE DEF q
<1>2. q >= lo
  <2> SUFFICES ASSUME q + 1 <= lo PROVE FALSE
    BY <1>1
  <2>1. m * (q + 1) <= m * lo
    BY <1>1
  <2> QED BY <2>1, <1>1
<1>3. q <= hi
  <2> SUFFICES ASSUME hi + 1 <= q PROVE FALSE
    BY <1>1
  <2>1. m * (hi + 1) <= m * q
    BY <1>1
  <2> QED BY <2>1, <1>1
<1> QED BY <1>1, <1>2, <1>3 DEF q

\* Lerp never leaves the interval of its arguments (ImuAutoCalibrator.Lerp).
LEMMA LerpBetween ==
  ASSUME NEW from \in Int, NEW to \in Int, NEW alpha \in 1..Scale,
         NEW lo \in Int, NEW hi \in Int,
         lo <= from, from <= hi, lo <= to, to <= hi
  PROVE  Lerp(from, to, alpha) \in lo..hi
<1> USE AlphaAssumption
<1> DEFINE d == to - from
<1>0. d \in Int /\ d * alpha \in Int /\ alpha \in Int /\ Scale \in Nat \ {0}
  OBVIOUS
<1>1. CASE d >= 0
  <2> HIDE DEF d
  <2>1. Scale * 0 <= d * alpha
    BY <1>1, <1>0
  <2>2. d * alpha <= Scale * d
    BY <1>1, <1>0
  <2>3. (d * alpha) \div Scale \in 0..d
    BY <2>1, <2>2, <1>0, DivBetween
  <2> QED BY <2>3 DEF Lerp, d
<1>2. CASE d < 0
  <2> HIDE DEF d
  <2>1. Scale * d <= d * alpha
    BY <1>2, <1>0
  <2>2. d * alpha <= Scale * 0
    BY <1>2, <1>0
  <2>3. (d * alpha) \div Scale \in d..0
    BY <2>1, <2>2, <1>0, DivBetween
  <2> QED BY <2>3 DEF Lerp, d
<1> QED BY <1>0, <1>1, <1>2

\* A remainder of a number below twice the modulus.
LEMMA SmallMod ==
  ASSUME NEW m \in Nat \ {0}, NEW n \in 0..(2 * m - 1)
  PROVE  n % m = IF n < m THEN n ELSE n - m
<1>1. n \div m \in Int /\ n % m \in 0..(m - 1) /\ n = m * (n \div m) + (n % m)
  BY DivMod
<1>2. n \div m \in 0..1
  <2>1. CASE n < m
    BY <2>1, DivBetween
  <2> QED BY DivBetween
<1> QED BY <1>1, <1>2

LEMMA HalfPositive == Half \in Nat \ {0}
<1> DEFINE s == ByteBase * ByteBase
<1>0. ByteBase \in Nat /\ ByteBase >= 2
  BY WidthAssumption
<1>1. s \in Int /\ s >= 2
  BY <1>0
<1> HIDE DEF s
<1>2. s \div 2 \in 1..s
  BY <1>1, DivBetween
<1> QED BY <1>1, <1>2 DEF Half, s

\* A 16-bit number as an unsigned one.
LEMMA Unsigned ==
  ASSUME NEW v \in Int16
  PROVE  v % (2 * Half) = IF v < 0 THEN v + 2 * Half ELSE v
<1> DEFINE m == 2 * Half
<1>0. m \in Nat \ {0} /\ v \in Int /\ -m <= v /\ v < m
  BY HalfPositive DEF Int16
<1> HIDE DEF m
<1>1. v \div m \in Int /\ v % m \in 0..(m - 1) /\ v = m * (v \div m) + (v % m)
  BY <1>0, DivMod
<1>2. CASE v < 0
  <2>1. v \div m \in (-1)..0
    BY <1>0, <1>2, DivBetween
  <2>2. v % m = v + m
    BY <2>1, <1>0, <1>1, <1>2
  <2> QED BY <2>2, <1>2 DEF m
<1>3. CASE v >= 0
  <2>1. v \div m \in 0..1
    BY <1>0, <1>3, DivBetween
  <2>2. v % m = v
    BY <2>1, <1>0, <1>1, <1>3
  <2> QED BY <2>2, <1>0, <1>3 DEF m
<1> QED BY <1>0, <1>2, <1>3

\* toInt16 gives back what the sensor put into a register.
LEMMA RoundTrip ==
  ASSUME NEW v \in Int16
  PROVE  toInt16(Bytes(v)[1], Bytes(v)[2]) = v
<1> DEFINE u == v % (2 * Half)
<1>1. u = IF v < 0 THEN v + 2 * Half ELSE v
  BY Unsigned
<1>2. v \in Int /\ -Half <= v /\ v < Half /\ Half \in Nat \ {0}
  BY HalfPositive DEF Int16
<1>3. u \in Int
  BY <1>1, <1>2
<1>4. Bytes(v)[1] = u \div ByteBase /\ Bytes(v)[2] = u % ByteBase
  BY DEF Bytes
<1> HIDE DEF u
<1>5. ByteBase \in Nat \ {0}
  BY WidthAssumption
<1>6. /\ u \div ByteBase \in Int /\ u % ByteBase \in Int
      /\ u = ByteBase * (u \div ByteBase) + (u % ByteBase)
  BY <1>3, <1>5, DivMod
<1>7. (u \div ByteBase) * ByteBase + (u % ByteBase) = u
  BY <1>5, <1>6
<1>8. toInt16(Bytes(v)[1], Bytes(v)[2]) = IF u >= Half THEN u - 2 * Half ELSE u
  BY <1>4, <1>7 DEF toInt16
<1> QED BY <1>1, <1>2, <1>8

\* The square of a number of a bounded size, and the way back.
LEMMA SquareBounds ==
  ASSUME NEW x \in Int, NEW n \in Nat, -n <= x, x <= n
  PROVE  x * x \in 0..(n * n)
<1>1. CASE x >= 0
  <2>1. x * x <= x * n /\ x * n <= n * n
    BY <1>1
  <2> QED BY <2>1, <1>1
<1>2. CASE x < 0
  <2> DEFINE y == -x
  <2>1. y \in Nat /\ y <= n /\ x * x = y * y
    BY <1>2
  <2> HIDE DEF y
  <2>2. y * y <= y * n /\ y * n <= n * n
    BY <2>1
  <2> QED BY <2>1, <2>2
<1> QED BY <1>1, <1>2

LEMMA RootBounds ==
  ASSUME NEW x \in Int, NEW n \in Nat, x * x < n * n
  PROVE  -n < x /\ x < n
<1>1. ASSUME NEW y \in Int, y >= n PROVE y * y >= n * n
  BY <1>1
<1>2. x < n
  BY <1>1
<1>3. -x < n
  <2>1. (-x) * (-x) = x * x
    OBVIOUS
  <2> QED BY <2>1, <1>1
<1> QED BY <1>2, <1>3

-----------------------------------------------------------------------------
(* The text and its prefixes *)

Texts == [parses : BOOLEAN, value : Int]

LEMMA NineFields ==
  ASSUME NEW S, NEW a \in S, NEW b \in S, NEW c \in S, NEW d \in S, NEW e \in S,
         NEW f \in S, NEW g \in S, NEW h \in S, NEW i \in S
  PROVE  <<a, b, c, d, e, f, g, h, i>> \in Seq(S) /\ Len(<<a, b, c, d, e, f, g, h, i>>) = 9
OBVIOUS

\* The text of the notification holds the measured values at their places.
LEMMA TextOfMotion ==
  ASSUME TypeOK
  PROVE  /\ buildImuText \in Seq(Texts) /\ Len(buildImuText) = 9
         /\ \A a \in Axes : /\ buildImuText[2 + a] = Number(motion.accel[a])
                            /\ buildImuText[5 + a] = Number(motion.gyro[a])
<1>1. /\ motion.accel \in [Axes -> Int16] /\ motion.gyro \in [Axes -> Int16]
      /\ motion.temp \in Int16
  BY MotionAssumption DEF TypeOK
<1>2. /\ motion.accel[1] \in Int16 /\ motion.accel[2] \in Int16 /\ motion.accel[3] \in Int16
      /\ motion.gyro[1] \in Int16 /\ motion.gyro[2] \in Int16 /\ motion.gyro[3] \in Int16
  BY <1>1 DEF Axes
<1>3. buildImuText =
        <<Word, Number(0), Number(motion.accel[1]), Number(motion.accel[2]),
          Number(motion.accel[3]), Number(motion.gyro[1]), Number(motion.gyro[2]),
          Number(motion.gyro[3]), Number(motion.temp)>>
  <2> DEFINE reg(i) == Number(toInt16(Registers[i][1], Registers[i][2]))
  <2>1. /\ reg(1) = Number(motion.accel[1]) /\ reg(2) = Number(motion.accel[2])
        /\ reg(3) = Number(motion.accel[3]) /\ reg(4) = Number(motion.temp)
    BY <1>1, <1>2, RoundTrip DEF Registers
  <2>2. /\ reg(5) = Number(motion.gyro[1]) /\ reg(6) = Number(motion.gyro[2])
        /\ reg(7) = Number(motion.gyro[3])
    BY <1>1, <1>2, RoundTrip DEF Registers
  <2>3. buildImuText =
          <<Word, Number(0), reg(1), reg(2), reg(3), reg(5), reg(6), reg(7), reg(4)>>
    BY DEF buildImuText
  <2> HIDE DEF reg
  <2> QED BY <2>1, <2>2, <2>3
<1>4. Word \in Texts /\ \A n \in Int : Number(n) \in Texts
  BY DEF Word, Number, Texts
<1>5. Int16 \subseteq Int
  BY DEF Int16
<1>6. buildImuText \in Seq(Texts) /\ Len(buildImuText) = 9
  <2>1. /\ Word \in Texts /\ Number(0) \in Texts /\ Number(motion.temp) \in Texts
        /\ Number(motion.accel[1]) \in Texts /\ Number(motion.accel[2]) \in Texts
        /\ Number(motion.accel[3]) \in Texts /\ Number(motion.gyro[1]) \in Texts
        /\ Number(motion.gyro[2]) \in Texts /\ Number(motion.gyro[3]) \in Texts
    <3>1. \A n \in Int16 : Number(n) \in Texts
      BY <1>4, <1>5
    <3> QED BY <1>1, <1>2, <1>4, <3>1
  <2> QED BY <2>1, <1>3, NineFields
<1>7. ASSUME NEW a \in Axes
      PROVE  /\ buildImuText[2 + a] = Number(motion.accel[a])
             /\ buildImuText[5 + a] = Number(motion.gyro[a])
  <2>1. a = 1 \/ a = 2 \/ a = 3
    BY DEF Axes
  <2> QED BY <2>1, <1>3
<1> QED BY <1>6, <1>7

\* Whatever has nine fields has the first eight of the text.
LEMMA LongPrefix ==
  ASSUME NEW text \in Seq(Texts), Len(text) = 9,
         NEW payload \in Prefixes(text), Len(payload) >= 9,
         NEW i \in 1..8
  PROVE  payload[i] = text[i]
<1>1. PICK k \in 1..9 :
        \/ payload = SubSeq(text, 1, k)
        \/ \E t : payload = Append(SubSeq(text, 1, k - 1), t)
  BY DEF Prefixes
<1>2. CASE payload = SubSeq(text, 1, k)
  <2>1. Len(payload) = k
    BY <1>2
  <2>2. k = 9
    BY <2>1
  <2> QED BY <1>2, <2>2
<1>3. CASE \E t : payload = Append(SubSeq(text, 1, k - 1), t)
  <2> DEFINE head == SubSeq(text, 1, k - 1)
  <2>1. PICK t : payload = Append(head, t)
    BY <1>3
  <2>2. /\ head \in Seq(Texts) /\ Len(head) = k - 1
        /\ \A j \in 1..(k - 1) : head[j] = text[j]
    <3>1. \A j \in 1..(k - 1) : text[j] \in Texts
      <4> SUFFICES ASSUME NEW j \in 1..(k - 1) PROVE text[j] \in Texts
        OBVIOUS
      <4>1. k \in 1..9
        OBVIOUS
      <4>2. j \in 1..Len(text)
        BY <4>1
      <4> QED BY <4>2, ElementOfSeq
    <3>2. /\ head \in Seq(Texts)
          /\ Len(head) = IF 1 <= k - 1 THEN (k - 1) - 1 + 1 ELSE 0
          /\ \A j \in 1..((k - 1) - 1 + 1) : head[j] = text[1 + j - 1]
      BY <3>1, SubSeqProperties
    <3> HIDE DEF head
    <3> QED BY <3>2
  <2> HIDE DEF head
  <2>3. Len(payload) = k /\ \A j \in 1..(k - 1) : payload[j] = head[j]
    BY <2>1, <2>2
  <2>4. k = 9
    BY <2>3
  <2> QED BY <2>2, <2>3, <2>4
<1> QED BY <1>1, <1>2, <1>3

\* What TryParseImuRaw accepts is what was measured.
LEMMA ParsedIsMeasured ==
  ASSUME TypeOK, NEW payload \in Published, TryParseImuRaw(payload)
  PROVE  /\ RawSample(payload).accel = motion.accel
         /\ RawSample(payload).gyro = motion.gyro
<1>1. /\ motion.accel \in [Axes -> Int16] /\ motion.gyro \in [Axes -> Int16]
  BY MotionAssumption DEF TypeOK
<1>2. payload \in Prefixes(buildImuText) /\ Len(payload) >= 9
  BY DEF Published, TryParseImuRaw
<1>3. ASSUME NEW a \in Axes
      PROVE  /\ payload[2 + a].value = motion.accel[a]
             /\ payload[5 + a].value = motion.gyro[a]
  <2>1. 2 + a \in 1..8 /\ 5 + a \in 1..8
    BY DEF Axes
  <2>2. /\ payload[2 + a] = buildImuText[2 + a]
        /\ payload[5 + a] = buildImuText[5 + a]
    BY <2>1, <1>2, TextOfMotion, LongPrefix
  <2>3. /\ buildImuText[2 + a] = Number(motion.accel[a])
        /\ buildImuText[5 + a] = Number(motion.gyro[a])
    BY TextOfMotion
  <2>4. \A v : Number(v).value = v
    BY DEF Number
  <2> QED BY <2>2, <2>3, <2>4
<1> QED BY <1>1, <1>3 DEF RawSample

-----------------------------------------------------------------------------
(* Rest, and the bias learned at rest *)

LEMMA WrapInto ==
  ASSUME NEW h \in Nat \ {0}, NEW s \in Nat, 2 * s <= 3 * h
  PROVE  ((s + h) % (2 * h)) - h = IF s < h THEN s ELSE s - 2 * h
<1>1. PICK m \in Nat \ {0} : m = 2 * h
  OBVIOUS
<1>2. PICK n \in 0..(2 * m - 1) : n = s + h
  BY <1>1
<1>3. n % m = IF n < m THEN n ELSE n - m
  BY SmallMod
<1>4. (s + h) % (2 * h) = IF n < m THEN n ELSE n - m
  BY <1>1, <1>2, <1>3
<1> QED BY <1>1, <1>2, <1>4

\* A sum of three squares that wraps does so below zero.
LEMMA WrapOfSquares ==
  ASSUME NEW s \in 0..(3 * (Half * Half)), Wrap(s) >= 0
  PROVE  Wrap(s) = s
<1> DEFINE h == 2 * Half * Half
<1>1. h \in Nat \ {0} /\ 2 * s <= 3 * h /\ s \in Nat
  BY HalfPositive
<1>2. Wrap(s) = ((s + h) % (2 * h)) - h
  BY DEF Wrap
<1> HIDE DEF h
<1>3. Wrap(s) = IF s < h THEN s ELSE s - 2 * h
  BY <1>1, <1>2, WrapInto
<1> QED BY <1>1, <1>3

\* A pen at rest turns, about every axis, slower than the threshold, however
\* the sum of squares overflows.
LEMMA StationaryIsSlow ==
  ASSUME NEW raw, raw.gyro \in [Axes -> Int16], IsStationary(raw), NEW a \in Axes
  PROVE  /\ raw.gyro[a] \in Int
         /\ -GyroStillThreshold < raw.gyro[a] /\ raw.gyro[a] < GyroStillThreshold
<1> USE CalibratorAssumption
<1> DEFINE x == raw.gyro[1]  y == raw.gyro[2]  z == raw.gyro[3]
           s == x * x + y * y + z * z
           n == GyroStillThreshold
<1>0. Half \in Nat
  BY HalfPositive
<1>1. ASSUME NEW b \in Axes
      PROVE  raw.gyro[b] \in Int /\ -Half <= raw.gyro[b] /\ raw.gyro[b] <= Half
  BY <1>0 DEF Int16
<1>2. /\ x \in Int /\ -Half <= x /\ x <= Half
      /\ y \in Int /\ -Half <= y /\ y <= Half
      /\ z \in Int /\ -Half <= z /\ z <= Half
  BY <1>1 DEF Axes
<1>3. SquareSum(raw.gyro) = Wrap(s)
  BY DEF SquareSum
<1>4. Wrap(s) >= 0 /\ Wrap(s) < n * n
  BY <1>3 DEF IsStationary, RootBetween
<1>5. a = 1 \/ a = 2 \/ a = 3
  BY DEF Axes
<1> HIDE DEF x, y, z
<1>6. x * x \in 0..(Half * Half) /\ y * y \in 0..(Half * Half) /\ z * z \in 0..(Half * Half)
  BY <1>0, <1>2, SquareBounds
<1>7. s \in 0..(3 * (Half * Half))
  BY <1>0, <1>6
<1>8. s < n * n
  BY <1>4, <1>7, WrapOfSquares
<1>9. x * x < n * n /\ y * y < n * n /\ z * z < n * n
  BY <1>0, <1>6, <1>8
<1>10. -n < x /\ x < n /\ -n < y /\ y < n /\ -n < z /\ z < n
  BY <1>2, <1>9, RootBounds
<1> QED BY <1>2, <1>5, <1>10 DEF x, y, z

-----------------------------------------------------------------------------
(* The inductive invariant *)

Edge == Scale * (GyroStillThreshold - 1)

\* The bias is an average of rates below the threshold.
BiasBounded == \A a \in Axes : gyroBias[a] \in (-Edge)..Edge

IInv == TypeOK /\ BiasBounded

LEMMA EdgeType == Edge \in Nat /\ -Edge \in Int
BY AlphaAssumption, CalibratorAssumption DEF Edge

LEMMA LerpType ==
  ASSUME NEW from \in Int, NEW to \in Int, NEW alpha \in Int
  PROVE  Lerp(from, to, alpha) \in Int
<1>1. (to - from) * alpha \in Int /\ Scale \in Nat \ {0}
  BY AlphaAssumption
<1>2. ((to - from) * alpha) \div Scale \in Int
  BY <1>1, DivMod
<1> QED BY <1>2 DEF Lerp

\* Update keeps the calibrator's types, whatever the measurement.
LEMMA UpdateTypes ==
  ASSUME IInv, NEW raw,
         raw.accel \in [Axes -> Int16], raw.gyro \in [Axes -> Int16], Update(raw)
  PROVE  /\ initialized' \in BOOLEAN /\ stableFrames' \in 0..ReadyStableFrames
         /\ gyroBias' \in [Axes -> Int] /\ gravity' \in [Axes -> Int]
<1> USE DEF IInv, TypeOK
<1>0. Scale \in Int /\ GyroBiasAlpha \in Int /\ GravityAlpha(raw) \in Int
  BY AlphaAssumption DEF GravityAlpha
<1>1. ASSUME NEW v \in [Axes -> Int16], NEW a \in Axes PROVE Scale * v[a] \in Int
  BY <1>0 DEF Int16
<1>2. ASSUME NEW from \in [Axes -> Int], NEW v \in [Axes -> Int16], NEW alpha \in Int
      PROVE  LerpAll(from, v, alpha) \in [Axes -> Int]
  <2>1. ASSUME NEW a \in Axes PROVE Lerp(from[a], Scale * v[a], alpha) \in Int
    BY <1>1, LerpType
  <2> QED BY <2>1 DEF LerpAll
<1>3. gyroBias' \in [Axes -> Int]
  <2>1. gyroBias' = gyroBias \/ gyroBias' = LerpAll(gyroBias, raw.gyro, GyroBiasAlpha)
    BY DEF Update
  <2>2. LerpAll(gyroBias, raw.gyro, GyroBiasAlpha) \in [Axes -> Int]
    BY <1>0, <1>2
  <2> QED BY <2>1, <2>2
<1>4. gravity' \in [Axes -> Int]
  <2> DEFINE from == IF initialized THEN gravity ELSE [a \in Axes |-> Scale * raw.accel[a]]
  <2>1. from \in [Axes -> Int]
    BY <1>1
  <2>2. gravity' = LerpAll(from, raw.accel, GravityAlpha(raw))
    BY DEF Update
  <2> HIDE DEF from
  <2> QED BY <2>1, <2>2, <1>0, <1>2
<1>5. stableFrames' \in 0..ReadyStableFrames
  <2>1. \/ stableFrames' = stableFrames /\ stableFrames \in 0..ReadyStableFrames
        \/ stableFrames' = stableFrames + 1 /\ stableFrames < ReadyStableFrames
        \/ stableFrames' = 0
    BY DEF Update
  <2> QED BY <2>1, CalibratorAssumption
<1> QED BY <1>3, <1>4, <1>5 DEF Update

\* Learning at rest keeps the bias between the rates of rest.
LEMMA UpdateBounds ==
  ASSUME IInv, NEW raw, raw.gyro \in [Axes -> Int16], Update(raw)
  PROVE  BiasBounded'
<1>1. CASE ~IsStationary(raw)
  BY <1>1 DEF Update, IInv, BiasBounded
<1>2. CASE IsStationary(raw)
  <2> SUFFICES ASSUME NEW a \in Axes PROVE gyroBias'[a] \in (-Edge)..Edge
    BY DEF BiasBounded
  <2>1. gyroBias'[a] = Lerp(gyroBias[a], Scale * raw.gyro[a], GyroBiasAlpha)
    BY <1>2 DEF Update, LerpAll
  <2>2. gyroBias[a] \in Int /\ -Edge <= gyroBias[a] /\ gyroBias[a] <= Edge
    BY EdgeType DEF IInv, BiasBounded
  <2>3. /\ raw.gyro[a] \in Int
        /\ -(GyroStillThreshold - 1) <= raw.gyro[a]
        /\ raw.gyro[a] <= GyroStillThreshold - 1
    BY <1>2, StationaryIsSlow, CalibratorAssumption
  <2>4. /\ Scale * raw.gyro[a] \in Int
        /\ -Edge <= Scale * raw.gyro[a] /\ Scale * raw.gyro[a] <= Edge
    <3> DEFINE g == raw.gyro[a]
               n == GyroStillThreshold - 1
    <3>1. g \in Int /\ n \in Int /\ -n <= g /\ g <= n /\ Scale \in Nat
      BY <2>3, CalibratorAssumption, AlphaAssumption
    <3>2. Edge = Scale * n
      BY DEF Edge
    <3> HIDE DEF g, n
    <3>3. Scale * (-n) <= Scale * g /\ Scale * g <= Scale * n /\ Scale * g \in Int
      BY <3>1
    <3>4. Scale * (-n) = -(Scale * n)
      BY <3>1
    <3> QED BY <3>2, <3>3, <3>4 DEF g
  <2>5. GyroBiasAlpha \in 1..Scale
    BY AlphaAssumption
  <2>6. PICK lo \in Int, hi \in Int : lo = -Edge /\ hi = Edge
    BY EdgeType
  <2>7. Lerp(gyroBias[a], Scale * raw.gyro[a], GyroBiasAlpha) \in lo..hi
    BY <2>2, <2>4, <2>5, <2>6, LerpBetween
  <2> QED BY <2>1, <2>6, <2>7
<1> QED BY <1>1, <1>2

LEMMA InvariantInit == Init => IInv
<1> SUFFICES ASSUME Init PROVE IInv
  OBVIOUS
<1>1. 0 \in Int16
  BY HalfPositive DEF Int16
<1>2. TypeOK
  <2>1. [a \in Axes |-> 0] \in [Axes -> Int16] /\ [a \in Axes |-> 0] \in [Axes -> Int]
    BY <1>1
  <2>2. NoFrame \in [accel : [Axes -> Int16], gyro : [Axes -> Int16]]
    BY <2>1 DEF NoFrame
  <2>3. 0 \in 0..ReadyStableFrames
    BY CalibratorAssumption
  <2> QED BY <2>1, <2>2, <2>3 DEF Init, TypeOK
<1>3. BiasBounded
  BY EdgeType DEF Init, BiasBounded
<1> QED BY <1>2, <1>3 DEF IInv

LEMMA InvariantStep == IInv /\ [Next]_vars => IInv'
<1> SUFFICES ASSUME IInv, [Next]_vars PROVE IInv'
  OBVIOUS
<1>1. CASE Sensor_Begin \/ Sensor_Restart \/ Device_Moves \/ Process_ParseFailed
  BY <1>1 DEF IInv, TypeOK, BiasBounded, Edge, Sensor_Begin, Sensor_Restart,
              Device_Moves, Process_ParseFailed, calibrator
<1>2. CASE Process_Success
  <2>1. PICK payload \in Published :
          /\ TryParseImuRaw(payload) /\ frame' = RawSample(payload)
          /\ Update(RawSample(payload))
          /\ status' = "Success" /\ UNCHANGED <<ready, motion>>
    BY <1>2 DEF Process_Success
  <2> DEFINE raw == RawSample(payload)
  <2>2. raw.accel = motion.accel /\ raw.gyro = motion.gyro
    BY <2>1, ParsedIsMeasured DEF IInv
  <2>3. raw = [accel |-> raw.accel, gyro |-> raw.gyro]
    BY DEF RawSample
  <2> HIDE DEF raw
  <2>4. raw.accel \in [Axes -> Int16] /\ raw.gyro \in [Axes -> Int16]
    BY <2>2, MotionAssumption DEF IInv, TypeOK
  <2>5. Update(raw) /\ frame' = raw
    BY <2>1 DEF raw
  <2>6. frame' \in [accel : [Axes -> Int16], gyro : [Axes -> Int16]]
    BY <2>3, <2>4, <2>5
  <2>7. /\ initialized' \in BOOLEAN /\ stableFrames' \in 0..ReadyStableFrames
        /\ gyroBias' \in [Axes -> Int] /\ gravity' \in [Axes -> Int]
    BY <2>4, <2>5, UpdateTypes
  <2>8. TypeOK'
    BY <2>1, <2>6, <2>7 DEF IInv, TypeOK
  <2>9. BiasBounded'
    BY <2>4, <2>5, UpdateBounds
  <2> QED BY <2>8, <2>9 DEF IInv
<1>3. CASE UNCHANGED vars
  BY <1>3 DEF IInv, TypeOK, BiasBounded, Edge, vars, calibrator
<1> QED BY <1>1, <1>2, <1>3 DEF Next

LEMMA Invariant == Spec => []IInv
BY InvariantInit, InvariantStep, PTL DEF Spec

-----------------------------------------------------------------------------
(* The theorems *)

\* ImuAutoCalibrator's bias stays below the rate at which the pen counts as
\* moving, for every register width, threshold and weight, although the sum
\* of squares in Update overflows.
THEOREM BiasAlwaysWithinStill == Spec => []BiasWithinStill
<1>1. IInv => BiasWithinStill
  <2> SUFFICES ASSUME IInv, NEW a \in Axes
               PROVE  Magnitude(gyroBias[a]) < Scale * GyroStillThreshold
    BY DEF BiasWithinStill
  <2>1. gyroBias[a] \in Int /\ -Edge <= gyroBias[a] /\ gyroBias[a] <= Edge
    BY EdgeType DEF IInv, BiasBounded
  <2>2. Edge \in Nat /\ Edge < Scale * GyroStillThreshold /\ Scale * GyroStillThreshold \in Nat
    BY AlphaAssumption, CalibratorAssumption DEF Edge
  <2> QED BY <2>1, <2>2 DEF Magnitude
<1> QED BY <1>1, Invariant, PTL

\* A frame that TryParseImuRaw accepts carries the six measured values, for
\* every register width, every set of motions and every cut of the text.
THEOREM AcceptedAlwaysIntact == Spec => AcceptedIsIntact
<1>1. IInv /\ [Next]_vars =>
        [Process_Success =>
           frame'.accel = motion.accel /\ frame'.gyro = motion.gyro]_vars
  <2> SUFFICES ASSUME IInv, Process_Success
               PROVE  frame'.accel = motion.accel /\ frame'.gyro = motion.gyro
    OBVIOUS
  <2>1. PICK payload \in Published : TryParseImuRaw(payload) /\ frame' = RawSample(payload)
    BY DEF Process_Success
  <2> QED BY <2>1, ParsedIsMeasured DEF IInv
<1> QED BY <1>1, Invariant, PTL DEF Spec, AcceptedIsIntact
=============================================================================
