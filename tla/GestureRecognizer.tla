------------------------- MODULE GestureRecognizer -------------------------
(***************************************************************************)
(* The gesture state machine of the SDK (BleGestureClient.cs), run once    *)
(* per decoded IMU frame: it keeps a queue of recent motion features and   *)
(* walks Idle -> Moving -> Holding -> Cooldown, sending the Ctrl+Alt+Q     *)
(* hotkey when a hand raised from the writing pose is held near the mouth. *)
(*                                                                         *)
(* Angles are whole degrees, gyro and acceleration magnitudes raw sensor   *)
(* units, both with the code's own thresholds.  Durations and frame counts *)
(* are constants, so that a small instance can scale them down.  The       *)
(* feature queue is the set of its frames: the stopwatch tick of a frame   *)
(* is unique and orders the set the way the queue is ordered.              *)
(***************************************************************************)
EXTENDS Integers, FiniteSets, FiniteSetsExt

CONSTANTS
  Frames,                   \* frames the sensor may deliver
  Gaps,                     \* ticks between two deliveries
  MaxTime,                  \* bound: the stream ends at this tick
  HoldSeconds, CooldownSeconds, MovingMinSeconds,
  TrajectoryMinSeconds, TrajectoryMaxSeconds, MovingTimeoutSlack,
  TrajectoryMinFrames,
  StableWindowSeconds, StableWindowMinFrames,
  WritingPrecheckSeconds, WritingPrecheckMinFrames,
  JitterWindowSeconds, FeatureBufferRetentionSeconds

\* A decoded frame: pose (degrees) and magnitudes (raw units).
Frame == [pitch : Int, roll : Int, gyro : Nat, accel : Nat]

ASSUME FramesAssumption == Frames \subseteq Frame
ASSUME GapsAssumption == Gaps \subseteq Nat \ {0}
ASSUME DurationsAssumption ==
  /\ {MaxTime, HoldSeconds, CooldownSeconds, MovingMinSeconds,
      TrajectoryMinSeconds, TrajectoryMaxSeconds, MovingTimeoutSlack,
      StableWindowSeconds, WritingPrecheckSeconds, JitterWindowSeconds,
      FeatureBufferRetentionSeconds} \subseteq Nat
  /\ {TrajectoryMinFrames, StableWindowMinFrames,
      WritingPrecheckMinFrames} \subseteq Nat \ {0}

MoveStartGyroThreshold == 650
StillGyroThreshold == 700
HoldBreakGyroThreshold == 2300
StopPosePitch == [min |-> 14, max |-> 42]
StopPoseRoll == [min |-> -186, max |-> -120]
StopPoseRollCenter == -153
WritingPosePitch == [min |-> -20, max |-> 20]
WritingPoseRoll == [min |-> -40, max |-> 40]
TrajectoryPeakPitchMin == 16
TrajectoryPitchSpanMin == 2
TrajectoryAccelRms == [min |-> 30, max |-> 9000]
StableGyroP50Max == 900
StableGyroP90Max == 1600
StableRollSpanMax == 24
StableHighGyroSpikeThreshold == 1800
StableHighGyroSpikeMax == 6
TrajectoryScoreMin == 3
JitterGyroRmsMax == 1700
JitterRollFlipMax == 5

VARIABLES
  now,               \* tick of the last frame (_gestureClock)
  recentFeatures,    \* _recentFeatures
  gestureState,      \* _gestureState
  movingStart,       \* _movingStartTicks
  holdStart,         \* _holdStartTicks
  cooldownUntil,     \* _cooldownUntilTicks
  movingPeakGyro,    \* _movingPeakGyro
  hotkeySentCount,   \* _hotkeySentCount
  lastPublished,     \* _lastPublishedGestureState
  episodeStart       \* auxiliary: tick of the last Idle -> Moving step

vars == <<now, recentFeatures, gestureState, movingStart, holdStart,
          cooldownUntil, movingPeakGyro, hotkeySentCount, lastPublished,
          episodeStart>>

GestureStates == {"Idle", "Moving", "Holding", "Cooldown"}

Feature == [t : Nat, pitch : Int, roll : Int, gyro : Nat, accel : Nat]

-----------------------------------------------------------------------------
(* Pose and window predicates *)

Within(x, range) == range.min <= x /\ x <= range.max

\* The two while loops of NormalizeAngleToReference in closed form: a
\* difference of exactly 180 or -180 degrees is left alone.
NormalizeAngleToReference(angle, reference) ==
  LET delta == angle - reference
  IN  reference + ( IF delta > 180 THEN delta - 360 * ((delta + 179) \div 360)
                    ELSE IF delta < -180
                         THEN delta + 360 * ((179 - delta) \div 360)
                    ELSE delta )

CanonicalizeRoll(roll) == NormalizeAngleToReference(roll, StopPoseRollCenter)

IsInStopPose(pitch, roll) ==
  Within(pitch, StopPosePitch) /\ Within(CanonicalizeRoll(roll), StopPoseRoll)

\* Sum of a field over a window, for comparing averages without division.
Total(field(_), window) == MapThenSumSet(field, window)

\* min <= average <= max of a field over a non-empty window.
AverageWithin(field(_), window, range) ==
  Within(Total(field, window), [min |-> range.min * Cardinality(window),
                                max |-> range.max * Cardinality(window)])

Pitch(f) == f.pitch
Roll(f) == f.roll
Gyro(f) == f.gyro
Ticks(f) == f.t
GyroSquared(f) == f.gyro * f.gyro
AccelSquared(f) == f.accel * f.accel

\* Was the pen in the writing pose just before tick t?  The frame of tick t
\* itself is not part of the window.
IsInWritingStartPose(t, features) ==
  LET preWindow == {f \in features : t - WritingPrecheckSeconds <= f.t /\ f.t < t}
  IN  /\ Cardinality(preWindow) >= WritingPrecheckMinFrames
      /\ AverageWithin(Pitch, preWindow, WritingPosePitch)
      /\ AverageWithin(Roll, preWindow, WritingPoseRoll)

\* PercentileSorted(gyros, num/den) <= bound: the element at the floored
\* index of the sorted list is at most bound exactly when more than that
\* many elements are.
PercentileAtMost(window, num, den, bound) ==
  Cardinality({f \in window : f.gyro <= bound})
    > ((Cardinality(window) - 1) * num) \div den

StableWindow(t, start, features) ==
  {f \in features : t - StableWindowSeconds <= f.t /\ f.t <= t /\ start <= f.t}

BelowCount(window) == Cardinality({f \in window : f.gyro <= StableGyroP50Max})

HighGyroSpikeCount(window) ==
  Cardinality({f \in window : f.gyro >= StableHighGyroSpikeThreshold})

\* The success condition of TryFindStableWindowSummary.
IsStableWindow(window) ==
  /\ Cardinality(window) >= StableWindowMinFrames
  /\ 100 * BelowCount(window) >= 58 * Cardinality(window)
  /\ PercentileAtMost(window, 1, 2, StableGyroP50Max)
  /\ PercentileAtMost(window, 9, 10, StableGyroP90Max)
  /\ Max({f.roll : f \in window}) - Min({f.roll : f \in window}) <= StableRollSpanMax
  /\ HighGyroSpikeCount(window) <= StableHighGyroSpikeMax

\* The mean pose of the stable window lies in the stop pose.  The mean of
\* canonical rolls is canonical, so no angle is wrapped a second time.
EndsInStopPose(window) ==
  /\ AverageWithin(Pitch, window, StopPosePitch)
  /\ AverageWithin(Roll, window, StopPoseRoll)

TrajectoryScore(window, segment, duration) ==
  LET pitches == {f.pitch : f \in segment}
      votes == << EndsInStopPose(window),
                  TrajectoryMinSeconds <= duration /\ duration <= TrajectoryMaxSeconds,
                  Max(pitches) >= TrajectoryPeakPitchMin,
                  Max(pitches) - Min(pitches) >= TrajectoryPitchSpanMin,
                  100 * BelowCount(window) >= 75 * Cardinality(window),
                  PercentileAtMost(window, 9, 10, 1100),
                  HighGyroSpikeCount(window) <= 2 >>
  IN  Cardinality({i \in DOMAIN votes : votes[i]})

\* Mutant: neither the number of frames nor the duration is looked at.
TrajectoryMatches_AnyLength(window, start, features) ==
  LET endTicks == Max({f.t : f \in window})
      segment == {f \in features : start <= f.t /\ f.t <= endTicks}
  IN  TrajectoryScore(window, segment, endTicks - start) >= TrajectoryScoreMin

\* The success condition of TryBuildTrajectorySummary.
TrajectoryMatches(window, start, features) ==
  LET endTicks == Max({f.t : f \in window})
      segment == {f \in features : start <= f.t /\ f.t <= endTicks}
      duration == endTicks - start
      count == Cardinality(segment)
      energy == Total(AccelSquared, segment)
  IN  /\ start > 0
      /\ count >= TrajectoryMinFrames
      /\ TrajectoryMinSeconds <= duration /\ duration <= TrajectoryMaxSeconds
      /\ TrajectoryAccelRms.min * TrajectoryAccelRms.min * count <= energy
      /\ energy <= TrajectoryAccelRms.max * TrajectoryAccelRms.max * count
      /\ TrajectoryScore(window, segment, duration) >= TrajectoryScoreMin

\* Sign of a roll in the jitter analysis; small rolls have none.
RollSign(f) == IF -12 < f.roll /\ f.roll < 12 THEN 0
               ELSE IF f.roll > 0 THEN 1 ELSE -1

\* AnalyzeRecentJitter followed by the comparison with its two limits.
IsJittery(t, features) ==
  LET window == {f \in features : t - JitterWindowSeconds <= f.t}
      signed == {f \in window : RollSign(f) # 0}
      flips == {f \in signed : \E g \in signed :
                  /\ g.t < f.t /\ RollSign(g) # RollSign(f)
                  /\ \A h \in signed : ~(g.t < h.t /\ h.t < f.t)}
  IN  \/ Cardinality(flips) > JitterRollFlipMax
      \/ Total(GyroSquared, window)
           > JitterGyroRmsMax * JitterGyroRmsMax * Cardinality(window)

-----------------------------------------------------------------------------
(* The state machine *)

Init ==
  /\ now = 0
  /\ recentFeatures = {}
  /\ gestureState = "Idle"
  /\ movingStart = 0
  /\ holdStart = 0
  /\ cooldownUntil = 0
  /\ movingPeakGyro = 0
  /\ hotkeySentCount = 0
  /\ lastPublished = "Idle"
  /\ episodeStart = 0

\* PushFeatureFrame: enqueue, then drop what is older than the retention.
PushFeatureFrame(t, f, features) ==
  LET feature == [t |-> t, pitch |-> f.pitch, roll |-> CanonicalizeRoll(f.roll),
                  gyro |-> f.gyro, accel |-> f.accel]
  IN  {g \in features \cup {feature} : t - g.t <= FeatureBufferRetentionSeconds}

\* What every frame does before the switch on the state.
Receive(f, gap) ==
  /\ now + gap <= MaxTime
  /\ now' = now + gap
  /\ recentFeatures' = PushFeatureFrame(now + gap, f, recentFeatures)

\* The state a frame ends in, published when it changed.
Enter(state) == gestureState' = state /\ lastPublished' = state

Idle_StartMoving(f, gap) ==
  /\ gestureState = "Idle"
  /\ f.gyro >= MoveStartGyroThreshold
  /\ Receive(f, gap)
  /\ IsInWritingStartPose(now', recentFeatures')
  /\ Enter("Moving")
  /\ movingStart' = now'
  /\ episodeStart' = now'
  /\ movingPeakGyro' = f.gyro
  /\ UNCHANGED <<holdStart, cooldownUntil, hotkeySentCount>>

Idle_Wait(f, gap) ==
  /\ gestureState = "Idle"
  /\ Receive(f, gap)
  /\ \/ f.gyro < MoveStartGyroThreshold
     \/ ~IsInWritingStartPose(now', recentFeatures')
  /\ UNCHANGED <<gestureState, movingStart, holdStart, cooldownUntil,
                 movingPeakGyro, hotkeySentCount, lastPublished, episodeStart>>

NewPeak(f) == Max({movingPeakGyro, f.gyro})

\* Moving long enough, and the frames since the start of the movement have
\* become stable.
Settled(f) ==
  /\ now' - movingStart >= MovingMinSeconds
  /\ NewPeak(f) >= MoveStartGyroThreshold
  /\ IsStableWindow(StableWindow(now', movingStart, recentFeatures'))

Moving_StartHolding(f, gap) ==
  /\ gestureState = "Moving"
  /\ Receive(f, gap)
  /\ Settled(f)
  /\ ~IsJittery(now', recentFeatures')
  /\ TrajectoryMatches(StableWindow(now', movingStart, recentFeatures'),
                       movingStart, recentFeatures')
  /\ Enter("Holding")
  /\ holdStart' = now'
  /\ movingPeakGyro' = NewPeak(f)
  /\ UNCHANGED <<movingStart, cooldownUntil, hotkeySentCount, episodeStart>>

\* A settled movement that jitters or does not match is abandoned.
Moving_Reject(f, gap) ==
  /\ gestureState = "Moving"
  /\ Receive(f, gap)
  /\ Settled(f)
  /\ \/ IsJittery(now', recentFeatures')
     \/ ~TrajectoryMatches(StableWindow(now', movingStart, recentFeatures'),
                           movingStart, recentFeatures')
  /\ Enter("Idle")
  /\ movingPeakGyro' = 0
  /\ UNCHANGED <<movingStart, holdStart, cooldownUntil, hotkeySentCount, episodeStart>>

MovingTimedOut(f) ==
  /\ now' - movingStart >= TrajectoryMaxSeconds + MovingTimeoutSlack
  /\ f.gyro <= StableGyroP50Max

Moving_Timeout(f, gap) ==
  /\ gestureState = "Moving"
  /\ Receive(f, gap)
  /\ ~Settled(f)
  /\ MovingTimedOut(f)
  /\ Enter("Idle")
  /\ movingPeakGyro' = 0
  /\ UNCHANGED <<movingStart, holdStart, cooldownUntil, hotkeySentCount, episodeStart>>

Moving_Continue(f, gap) ==
  /\ gestureState = "Moving"
  /\ Receive(f, gap)
  /\ ~Settled(f)
  /\ ~MovingTimedOut(f)
  /\ movingPeakGyro' = NewPeak(f)
  /\ UNCHANGED <<gestureState, movingStart, holdStart, cooldownUntil,
                 hotkeySentCount, lastPublished, episodeStart>>

\* Back to Moving with a new start tick; the episode goes on.
RestartMoving(f) ==
  /\ Enter("Moving")
  /\ movingStart' = now'
  /\ movingPeakGyro' = f.gyro

Holding_LeavePose(f, gap) ==
  /\ gestureState = "Holding"
  /\ ~IsInStopPose(f.pitch, CanonicalizeRoll(f.roll))
  /\ Receive(f, gap)
  /\ \/ f.gyro >= MoveStartGyroThreshold /\ RestartMoving(f)
     \/ /\ f.gyro < MoveStartGyroThreshold
        /\ Enter("Idle")
        /\ UNCHANGED <<movingStart, movingPeakGyro>>
  /\ UNCHANGED <<holdStart, cooldownUntil, hotkeySentCount, episodeStart>>

\* Mutant: only the pose ends a hold.
HoldInterrupted_Never(f) == FALSE

\* The pose is kept but the hand shakes.
HoldInterrupted(f) ==
  \/ IsJittery(now', recentFeatures')
  \/ f.gyro >= HoldBreakGyroThreshold

Holding_Interrupt(f, gap) ==
  /\ gestureState = "Holding"
  /\ IsInStopPose(f.pitch, CanonicalizeRoll(f.roll))
  /\ Receive(f, gap)
  /\ HoldInterrupted(f)
  /\ RestartMoving(f)
  /\ UNCHANGED <<holdStart, cooldownUntil, hotkeySentCount, episodeStart>>

\* Mutant: the hold time is not awaited.
HeldLongEnough_AtOnce == now' >= cooldownUntil

HeldLongEnough == now' - holdStart >= HoldSeconds /\ now' >= cooldownUntil

\* Mutant: the state is not left, only the rest is set.
Holding_Trigger_Stays(f, gap) ==
  /\ gestureState = "Holding"
  /\ IsInStopPose(f.pitch, CanonicalizeRoll(f.roll))
  /\ Receive(f, gap)
  /\ ~HoldInterrupted(f)
  /\ HeldLongEnough
  /\ hotkeySentCount' = hotkeySentCount + 1
  /\ cooldownUntil' = now' + CooldownSeconds
  /\ UNCHANGED <<gestureState, lastPublished, movingStart, holdStart, movingPeakGyro,
                 episodeStart>>

\* The hotkey is sent; it is counted whether or not the send succeeded.
Holding_Trigger(f, gap) ==
  /\ gestureState = "Holding"
  /\ IsInStopPose(f.pitch, CanonicalizeRoll(f.roll))
  /\ Receive(f, gap)
  /\ ~HoldInterrupted(f)
  /\ HeldLongEnough
  /\ hotkeySentCount' = hotkeySentCount + 1
  /\ cooldownUntil' = now' + CooldownSeconds
  /\ Enter("Cooldown")
  /\ movingPeakGyro' = 0
  /\ UNCHANGED <<movingStart, holdStart, episodeStart>>

Holding_Continue(f, gap) ==
  /\ gestureState = "Holding"
  /\ IsInStopPose(f.pitch, CanonicalizeRoll(f.roll))
  /\ Receive(f, gap)
  /\ ~HoldInterrupted(f)
  /\ ~HeldLongEnough
  /\ UNCHANGED <<gestureState, movingStart, holdStart, cooldownUntil,
                 movingPeakGyro, hotkeySentCount, lastPublished, episodeStart>>

\* Mutant: a quiet hand ends the rest.
CooldownOver_WhenStill(f) == f.gyro <= StillGyroThreshold

CooldownOver(f) == now' >= cooldownUntil /\ f.gyro <= StillGyroThreshold

Cooldown_End(f, gap) ==
  /\ gestureState = "Cooldown"
  /\ Receive(f, gap)
  /\ CooldownOver(f)
  /\ Enter("Idle")
  /\ movingPeakGyro' = 0
  /\ UNCHANGED <<movingStart, holdStart, cooldownUntil, hotkeySentCount, episodeStart>>

Cooldown_Continue(f, gap) ==
  /\ gestureState = "Cooldown"
  /\ Receive(f, gap)
  /\ ~CooldownOver(f)
  /\ UNCHANGED <<gestureState, movingStart, holdStart, cooldownUntil,
                 movingPeakGyro, hotkeySentCount, lastPublished, episodeStart>>

UpdateGestureAndMaybeSendHotkey(f, gap) ==
  \/ Idle_StartMoving(f, gap)
  \/ Idle_Wait(f, gap)
  \/ Moving_StartHolding(f, gap)
  \/ Moving_Reject(f, gap)
  \/ Moving_Timeout(f, gap)
  \/ Moving_Continue(f, gap)
  \/ Holding_LeavePose(f, gap)
  \/ Holding_Interrupt(f, gap)
  \/ Holding_Trigger(f, gap)
  \/ Holding_Continue(f, gap)
  \/ Cooldown_End(f, gap)
  \/ Cooldown_Continue(f, gap)

Next == \E f \in Frames, gap \in Gaps : UpdateGestureAndMaybeSendHotkey(f, gap)

Spec == Init /\ [][Next]_vars

-----------------------------------------------------------------------------
(* Properties *)

\* Every variable keeps its type, and no feature is older than the retention
\* or newer than the clock.
TypeOK ==
  /\ now \in Nat
  /\ recentFeatures \subseteq Feature
  /\ \A f \in recentFeatures : f.t <= now /\ now - f.t <= FeatureBufferRetentionSeconds
  /\ gestureState \in GestureStates
  /\ lastPublished \in GestureStates
  /\ movingStart \in Nat /\ holdStart \in Nat /\ episodeStart \in Nat
  /\ cooldownUntil \in Nat /\ movingPeakGyro \in Nat /\ hotkeySentCount \in Nat

\* While Holding, every frame kept since the hold began was in the stop pose
\* and below the break threshold: no frame of a hold that ends in a hotkey was
\* ever out of the pose, however the frames and gaps are interleaved.
HoldIsSteady ==
  gestureState = "Holding" =>
    \A f \in recentFeatures : f.t > holdStart =>
      IsInStopPose(f.pitch, f.roll) /\ f.gyro < HoldBreakGyroThreshold

\* _movingPeakGyro really is the largest magnitude since the movement began
\* (for a hold: up to the moment it began), also after a hold fell back to
\* Moving and the movement was restarted.
PeakIsMaximum ==
  gestureState \in {"Moving", "Holding"} =>
    \A f \in recentFeatures :
      /\ movingStart <= f.t
      /\ gestureState = "Holding" => f.t <= holdStart
      => f.gyro <= movingPeakGyro

\* A hold was preceded by a movement that was fast enough at some frame and
\* at least TrajectoryMinSeconds long, also when a hold fell back to Moving
\* and a second hold began.
HoldFollowsMovement ==
  gestureState = "Holding" =>
    /\ movingPeakGyro >= MoveStartGyroThreshold
    /\ movingStart + TrajectoryMinSeconds <= holdStart

\* The order of the clocks: a movement begins in its episode, the episode
\* after the rest that the last hotkey imposed.  So the comparison with
\* _cooldownUntilTicks in the Holding branch never delays a hotkey.
Chronology ==
  /\ holdStart <= now /\ movingStart <= now /\ episodeStart <= now
  /\ gestureState = "Idle" => cooldownUntil <= now
  /\ gestureState \in {"Moving", "Holding"} =>
       cooldownUntil <= episodeStart /\ episodeStart <= movingStart

\* Two hotkeys are at least a cooldown, a shortest trajectory and a hold
\* apart (cooldownUntil - CooldownSeconds is the tick of the last hotkey).
TriggerSpacing ==
  [][ hotkeySentCount' # hotkeySentCount /\ hotkeySentCount > 0 =>
        now' - (cooldownUntil - CooldownSeconds)
          >= CooldownSeconds + TrajectoryMinSeconds + HoldSeconds ]_vars

\* The recognizer implements the debounced hotkey: one hotkey per armed
\* gesture at most, armed only after the rest, never answered too soon.
HK == INSTANCE DebouncedHotkey WITH
        MinGesture <- TrajectoryMinSeconds + HoldSeconds,
        Cooldown <- CooldownSeconds,
        time <- now,
        armed <- gestureState \in {"Moving", "Holding"},
        armedAt <- episodeStart,
        notBefore <- cooldownUntil,
        sent <- hotkeySentCount
ImplementsDebouncedHotkey == HK!HKSpec
=============================================================================
