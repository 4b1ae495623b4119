---------------------- MODULE GestureRecognizerProofs ----------------------
(***************************************************************************)
(* Proofs about the gesture state machine, for every set of frames, every  *)
(* frame timing and every duration.                                        *)
(***************************************************************************)
EXTENDS GestureRecognizer, TLAPS

\* The greatest element of a set of numbers that has one.
LEMMA MaxIsGreatest ==
  ASSUME NEW S \in SUBSET Int, NEW m \in S, \A x \in S : x <= m
  PROVE  Max(S) = m
<1>1. \A y \in S : m >= y
  OBVIOUS
<1>2. \A x \in S : (\A y \in S : x >= y) => x = m
  OBVIOUS
<1> QED
  BY <1>1, <1>2, Zenon DEF Max

\* NewPeak is at least the old peak and the frame's magnitude.
LEMMA NewPeakBounds ==
  ASSUME movingPeakGyro \in Nat, NEW f \in Frame
  PROVE  /\ NewPeak(f) \in Nat
         /\ NewPeak(f) >= movingPeakGyro
         /\ NewPeak(f) >= f.gyro
<1> DEFINE S == {movingPeakGyro, f.gyro}
<1>1. f.gyro \in Nat
  BY DEF Frame
<1>s. S \in SUBSET Int /\ movingPeakGyro \in S /\ f.gyro \in S
  BY <1>1
<1>2. CASE movingPeakGyro >= f.gyro
  <2>0. \A x \in S : x <= movingPeakGyro
    BY <1>1, <1>2
  <2>1. Max(S) = movingPeakGyro
    <3> HIDE DEF S
    <3> QED BY <1>s, <2>0, MaxIsGreatest
  <2> QED
    BY <1>1, <1>2, <2>1 DEF NewPeak
<1>3. CASE f.gyro >= movingPeakGyro
  <2>0. \A x \in S : x <= f.gyro
    BY <1>1, <1>3
  <2>1. Max(S) = f.gyro
    <3> HIDE DEF S
    <3> QED BY <1>s, <2>0, MaxIsGreatest
  <2> QED
    BY <1>1, <1>3, <2>1 DEF NewPeak
<1> QED
  BY <1>1, <1>2, <1>3

\* A canonical roll is a whole number of degrees.
LEMMA CanonicalRollType ==
  ASSUME NEW roll \in Int
  PROVE  CanonicalizeRoll(roll) \in Int
BY DEF CanonicalizeRoll, NormalizeAngleToReference, StopPoseRollCenter

\* The feature a frame is stored as.
FeatureOf(f, t) == [t |-> t, pitch |-> f.pitch, roll |-> CanonicalizeRoll(f.roll),
                    gyro |-> f.gyro, accel |-> f.accel]

\* What a delivery does to the clock and to the queue.
LEMMA ReceiveFacts ==
  ASSUME TypeOK, NEW f \in Frames, NEW gap \in Gaps, Receive(f, gap)
  PROVE  /\ f \in Frame
         /\ now' \in Nat /\ now' > now
         /\ FeatureOf(f, now') \in Feature
         /\ FeatureOf(f, now') \in recentFeatures'
         /\ \A g \in recentFeatures' :
              /\ g \in Feature
              /\ g.t <= now' /\ now' - g.t <= FeatureBufferRetentionSeconds
              /\ (g \in recentFeatures /\ g.t <= now) \/ g = FeatureOf(f, now')
<1>1. f \in Frame
  BY FramesAssumption
<1>2. now' \in Nat /\ now' > now
  BY GapsAssumption DEF Receive, TypeOK
<1>3. FeatureOf(f, now') \in Feature
  BY <1>1, <1>2, CanonicalRollType DEF FeatureOf, Feature, Frame
<1>4. recentFeatures' = {g \in recentFeatures \cup {FeatureOf(f, now')} :
                           now' - g.t <= FeatureBufferRetentionSeconds}
  BY DEF Receive, PushFeatureFrame, FeatureOf
<1>5. FeatureOf(f, now').t = now'
  BY DEF FeatureOf
<1>6. FeatureOf(f, now') \in recentFeatures'
  BY <1>2, <1>4, <1>5, DurationsAssumption
<1>7. ASSUME NEW g \in recentFeatures'
      PROVE  /\ g \in Feature
             /\ g.t <= now' /\ now' - g.t <= FeatureBufferRetentionSeconds
             /\ (g \in recentFeatures /\ g.t <= now) \/ g = FeatureOf(f, now')
  <2>1. CASE g = FeatureOf(f, now')
    BY <1>2, <1>3, <1>4, <1>5, <2>1
  <2>2. CASE g \in recentFeatures
    <3>1. g \in Feature /\ g.t \in Nat /\ g.t <= now
      BY <2>2 DEF TypeOK, Feature
    <3> QED
      BY <1>2, <1>4, <2>2, <3>1 DEF TypeOK
  <2> QED
    BY <1>4, <2>1, <2>2
<1> QED
  BY <1>1, <1>2, <1>3, <1>6, <1>7

\* The queue part of TypeOK after a delivery.
LEMMA ReceiveTypes ==
  ASSUME TypeOK, NEW f \in Frames, NEW gap \in Gaps, Receive(f, gap)
  PROVE  /\ f.gyro \in Nat
         /\ now' \in Nat
         /\ recentFeatures' \subseteq Feature
         /\ \A g \in recentFeatures' :
              g.t <= now' /\ now' - g.t <= FeatureBufferRetentionSeconds
<1>1. f.gyro \in Nat
  BY FramesAssumption DEF Frame
<1> QED
  BY <1>1, ReceiveFacts

\* Types are preserved by every frame.
LEMMA TypeStep ==
  ASSUME TypeOK, [Next]_vars
  PROVE  TypeOK'
<1>1. CASE UNCHANGED vars
  BY <1>1 DEF vars, TypeOK
<1>2. ASSUME NEW f \in Frames, NEW gap \in Gaps,
             UpdateGestureAndMaybeSendHotkey(f, gap)
      PROVE  TypeOK'
  <2>1. CASE Idle_StartMoving(f, gap)
    BY <2>1, ReceiveTypes DEF Idle_StartMoving, Enter, TypeOK, GestureStates
  <2>2. CASE Idle_Wait(f, gap)
    BY <2>2, ReceiveTypes DEF Idle_Wait, TypeOK, GestureStates
  <2>3. CASE Moving_StartHolding(f, gap)
    <3>1. Receive(f, gap) /\ f \in Frame /\ movingPeakGyro \in Nat
      BY <2>3, FramesAssumption DEF Moving_StartHolding, TypeOK
    <3>2. NewPeak(f) \in Nat
      BY <3>1, NewPeakBounds
    <3> QED
      BY <2>3, <3>1, <3>2, ReceiveTypes
      DEF Moving_StartHolding, Enter, TypeOK, GestureStates
  <2>4. CASE Moving_Reject(f, gap)
    BY <2>4, ReceiveTypes DEF Moving_Reject, Enter, TypeOK, GestureStates
  <2>5. CASE Moving_Timeout(f, gap)
    BY <2>5, ReceiveTypes DEF Moving_Timeout, Enter, TypeOK, GestureStates
  <2>6. CASE Moving_Continue(f, gap)
    <3>1. Receive(f, gap) /\ f \in Frame /\ movingPeakGyro \in Nat
      BY <2>6, FramesAssumption DEF Moving_Continue, TypeOK
    <3>2. NewPeak(f) \in Nat
      BY <3>1, NewPeakBounds
    <3> QED
      BY <2>6, <3>1, <3>2, ReceiveTypes DEF Moving_Continue, TypeOK, GestureStates
  <2>7. CASE Holding_LeavePose(f, gap)
    BY <2>7, ReceiveTypes
    DEF Holding_LeavePose, RestartMoving, Enter, TypeOK, GestureStates
  <2>8. CASE Holding_Interrupt(f, gap)
    BY <2>8, ReceiveTypes
    DEF Holding_Interrupt, RestartMoving, Enter, TypeOK, GestureStates
  <2>9. CASE Holding_Trigger(f, gap)
    <3>1. CooldownSeconds \in Nat
      BY DurationsAssumption
    <3> QED
      BY <2>9, <3>1, ReceiveTypes DEF Holding_Trigger, Enter, TypeOK, GestureStates
  <2>10. CASE Holding_Continue(f, gap)
    BY <2>10, ReceiveTypes DEF Holding_Continue, TypeOK, GestureStates
  <2>11. CASE Cooldown_End(f, gap)
    BY <2>11, ReceiveTypes DEF Cooldown_End, Enter, TypeOK, GestureStates
  <2>12. CASE Cooldown_Continue(f, gap)
    BY <2>12, ReceiveTypes DEF Cooldown_Continue, TypeOK, GestureStates
  <2> QED
    BY <1>2, <2>1, <2>2, <2>3, <2>4, <2>5, <2>6, <2>7, <2>8, <2>9, <2>10, <2>11, <2>12
    DEF UpdateGestureAndMaybeSendHotkey
<1> QED
  BY <1>1, <1>2 DEF Next

\* Every reachable state is well typed, and the queue never holds a frame
\* older than the retention.
THEOREM TypeCorrect == Spec => []TypeOK
<1>1. Init => TypeOK
  BY DEF Init, TypeOK, GestureStates
<1>2. TypeOK /\ [Next]_vars => TypeOK'
  BY TypeStep
<1> QED
  BY <1>1, <1>2, PTL DEF Spec

-----------------------------------------------------------------------------
(* The inductive invariant.  Chronology orders the clocks; the hold length  *)
(* in HoldFollowsMovement and the two queue invariants depend on it.        *)

IInv == /\ TypeOK
        /\ Chronology
        /\ HoldFollowsMovement
        /\ PeakIsMaximum
        /\ HoldIsSteady

\* A matching trajectory that ends with the frame just delivered has lasted
\* at least TrajectoryMinSeconds.
LEMMA TrajectoryLasts ==
  ASSUME TypeOK, Chronology, NEW f \in Frames, NEW gap \in Gaps, Receive(f, gap),
         TrajectoryMatches(StableWindow(now', movingStart, recentFeatures'),
                           movingStart, recentFeatures')
  PROVE  movingStart + TrajectoryMinSeconds <= now'
<1> DEFINE W == StableWindow(now', movingStart, recentFeatures')
           S == {g.t : g \in W}
<1>1. now' \in Nat /\ now < now' /\ now \in Nat /\ movingStart \in Nat /\ movingStart <= now
  BY ReceiveFacts DEF TypeOK, Chronology
<1>2. \A g \in recentFeatures' : g.t \in Nat /\ g.t <= now'
  BY ReceiveFacts DEF Feature
<1>3. FeatureOf(f, now') \in recentFeatures' /\ FeatureOf(f, now').t = now'
  BY ReceiveFacts DEF FeatureOf
<1>4. FeatureOf(f, now') \in W
  BY <1>1, <1>3, DurationsAssumption DEF StableWindow
<1>5. now' \in S
  BY <1>3, <1>4
<1>6. S \in SUBSET Int /\ \A x \in S : x <= now'
  BY <1>2 DEF StableWindow
<1>7. Max(S) = now'
  <2> HIDE DEF S
  <2> QED
    BY <1>5, <1>6, MaxIsGreatest
<1>8. TrajectoryMinSeconds <= Max(S) - movingStart
  BY DEF TrajectoryMatches
<1> HIDE DEF S
<1> QED
  BY <1>1, <1>7, <1>8, DurationsAssumption

\* The order of the clocks is preserved by every frame.
LEMMA ChronologyStep ==
  ASSUME TypeOK, Chronology, [Next]_vars
  PROVE  Chronology'
<1>1. CASE UNCHANGED vars
  BY <1>1 DEF vars, Chronology
<1>2. ASSUME NEW f \in Frames, NEW gap \in Gaps,
             UpdateGestureAndMaybeSendHotkey(f, gap)
      PROVE  Chronology'
  <2>1. Receive(f, gap)
    BY <1>2 DEF UpdateGestureAndMaybeSendHotkey, Idle_StartMoving, Idle_Wait,
       Moving_StartHolding, Moving_Reject, Moving_Timeout, Moving_Continue,
       Holding_LeavePose, Holding_Interrupt, Holding_Trigger, Holding_Continue,
       Cooldown_End, Cooldown_Continue
  <2>2. now' \in Nat /\ now < now'
    BY <2>1, ReceiveFacts
  <2> USE <2>2 DEF TypeOK, Chronology, Enter
  <2>3. CASE Idle_StartMoving(f, gap)
    BY <2>3 DEF Idle_StartMoving
  <2>4. CASE Idle_Wait(f, gap)
    BY <2>4 DEF Idle_Wait
  <2>5. CASE Moving_StartHolding(f, gap)
    BY <2>5 DEF Moving_StartHolding
  <2>6. CASE Moving_Reject(f, gap)
    BY <2>6 DEF Moving_Reject
  <2>7. CASE Moving_Timeout(f, gap)
    BY <2>7 DEF Moving_Timeout
  <2>8. CASE Moving_Continue(f, gap)
    BY <2>8 DEF Moving_Continue
  <2>9. CASE Holding_LeavePose(f, gap)
    BY <2>9 DEF Holding_LeavePose, RestartMoving
  <2>10. CASE Holding_Interrupt(f, gap)
    BY <2>10 DEF Holding_Interrupt, RestartMoving
  <2>11. CASE Holding_Trigger(f, gap)
    BY <2>11 DEF Holding_Trigger
  <2>12. CASE Holding_Continue(f, gap)
    BY <2>12 DEF Holding_Continue
  <2>13. CASE Cooldown_End(f, gap)
    BY <2>13 DEF Cooldown_End, CooldownOver
  <2>14. CASE Cooldown_Continue(f, gap)
    BY <2>14 DEF Cooldown_Continue
  <2> QED
    BY <1>2, <2>3, <2>4, <2>5, <2>6, <2>7, <2>8, <2>9, <2>10, <2>11, <2>12, <2>13, <2>14
    DEF UpdateGestureAndMaybeSendHotkey
<1> QED
  BY <1>1, <1>2 DEF Next

\* A frame that leaves the machine in Holding either starts the hold or
\* continues it.
LEMMA WaysIntoHolding ==
  ASSUME [Next]_vars, gestureState' = "Holding"
  PROVE  \/ UNCHANGED vars
         \/ \E f \in Frames, gap \in Gaps :
              Moving_StartHolding(f, gap) \/ Holding_Continue(f, gap)
BY DEF Next, UpdateGestureAndMaybeSendHotkey, Idle_StartMoving, Idle_Wait,
   Moving_StartHolding, Moving_Reject, Moving_Timeout, Moving_Continue,
   Holding_LeavePose, Holding_Interrupt, Holding_Trigger, Holding_Continue,
   Cooldown_End, Cooldown_Continue, Enter, RestartMoving

\* A hold stays preceded by a movement.
LEMMA HoldFollowsMovementStep ==
  ASSUME IInv, [Next]_vars
  PROVE  HoldFollowsMovement'
<1> SUFFICES ASSUME gestureState' = "Holding"
             PROVE  /\ movingPeakGyro' >= MoveStartGyroThreshold
                    /\ movingStart' + TrajectoryMinSeconds <= holdStart'
  BY DEF HoldFollowsMovement
<1>1. CASE UNCHANGED vars
  BY <1>1 DEF vars, IInv, HoldFollowsMovement
<1>2. ASSUME NEW f \in Frames, NEW gap \in Gaps, Moving_StartHolding(f, gap)
      PROVE  /\ movingPeakGyro' >= MoveStartGyroThreshold
             /\ movingStart' + TrajectoryMinSeconds <= holdStart'
  <2>1. movingStart + TrajectoryMinSeconds <= now'
    BY <1>2, TrajectoryLasts DEF Moving_StartHolding, IInv
  <2> QED
    BY <1>2, <2>1 DEF Moving_StartHolding, Settled
<1>3. ASSUME NEW f \in Frames, NEW gap \in Gaps, Holding_Continue(f, gap)
      PROVE  /\ movingPeakGyro' >= MoveStartGyroThreshold
             /\ movingStart' + TrajectoryMinSeconds <= holdStart'
  BY <1>3 DEF Holding_Continue, IInv, HoldFollowsMovement
<1> QED
  BY <1>1, <1>2, <1>3, WaysIntoHolding

\* A hold stays steady.
LEMMA HoldIsSteadyStep ==
  ASSUME IInv, [Next]_vars
  PROVE  HoldIsSteady'
<1> SUFFICES ASSUME gestureState' = "Holding",
                    NEW g \in recentFeatures', g.t > holdStart'
             PROVE  IsInStopPose(g.pitch, g.roll) /\ g.gyro < HoldBreakGyroThreshold
  BY DEF HoldIsSteady
<1>1. CASE UNCHANGED vars
  BY <1>1 DEF vars, IInv, HoldIsSteady
<1>2. ASSUME NEW f \in Frames, NEW gap \in Gaps, Moving_StartHolding(f, gap)
      PROVE  FALSE
  <2>1. g.t <= now' /\ g.t \in Nat /\ now' \in Nat
    BY <1>2, ReceiveFacts DEF Moving_StartHolding, IInv, Feature
  <2> QED
    BY <1>2, <2>1 DEF Moving_StartHolding
<1>3. ASSUME NEW f \in Frames, NEW gap \in Gaps, Holding_Continue(f, gap)
      PROVE  IsInStopPose(g.pitch, g.roll) /\ g.gyro < HoldBreakGyroThreshold
  <2>1. Receive(f, gap) /\ TypeOK
    BY <1>3 DEF Holding_Continue, IInv
  <2>2. CASE g = FeatureOf(f, now')
    <3>1. g.pitch = f.pitch /\ g.roll = CanonicalizeRoll(f.roll) /\ g.gyro = f.gyro
      BY <2>2 DEF FeatureOf
    <3>2. IsInStopPose(f.pitch, CanonicalizeRoll(f.roll))
      BY <1>3 DEF Holding_Continue
    <3>3. f.gyro \in Nat /\ ~(f.gyro >= HoldBreakGyroThreshold)
      BY <1>3, FramesAssumption DEF Holding_Continue, HoldInterrupted, Frame
    <3> QED
      BY <3>1, <3>2, <3>3 DEF HoldBreakGyroThreshold
  <2>3. CASE g \in recentFeatures
    BY <1>3, <2>3 DEF Holding_Continue, IInv, HoldIsSteady
  <2> QED
    BY <2>1, <2>2, <2>3, ReceiveFacts
<1> QED
  BY <1>1, <1>2, <1>3, WaysIntoHolding

\* The peak bounds the magnitudes of the movement, whichever way a frame
\* leads into Moving or Holding.
LEMMA PeakIsMaximumStep ==
  ASSUME IInv, [Next]_vars
  PROVE  PeakIsMaximum'
<1> SUFFICES ASSUME gestureState' \in {"Moving", "Holding"},
                    NEW g \in recentFeatures',
                    movingStart' <= g.t,
                    gestureState' = "Holding" => g.t <= holdStart'
             PROVE  g.gyro <= movingPeakGyro'
  BY DEF PeakIsMaximum
<1>1. CASE UNCHANGED vars
  BY <1>1 DEF vars, IInv, PeakIsMaximum
<1>2. ASSUME NEW f \in Frames, NEW gap \in Gaps,
             UpdateGestureAndMaybeSendHotkey(f, gap)
      PROVE  g.gyro <= movingPeakGyro'
  <2>1. Receive(f, gap)
    BY <1>2 DEF UpdateGestureAndMaybeSendHotkey, Idle_StartMoving, Idle_Wait,
       Moving_StartHolding, Moving_Reject, Moving_Timeout, Moving_Continue,
       Holding_LeavePose, Holding_Interrupt, Holding_Trigger, Holding_Continue,
       Cooldown_End, Cooldown_Continue
  <2>2. /\ f \in Frame /\ now' \in Nat /\ now < now' /\ now \in Nat
        /\ g \in Feature /\ g.t <= now'
        /\ (g \in recentFeatures /\ g.t <= now) \/ g = FeatureOf(f, now')
    BY <2>1, ReceiveFacts DEF IInv, TypeOK
  <2>3. f.gyro \in Nat /\ g.gyro \in Nat /\ g.t \in Nat /\ movingPeakGyro \in Nat
    BY <2>2 DEF Frame, Feature, IInv, TypeOK
  <2>4. g = FeatureOf(f, now') => g.gyro = f.gyro /\ g.t = now'
    BY DEF FeatureOf
  \* The movement begins with this frame: it is the only one that counts.
  <2>5. ASSUME movingStart' = now', movingPeakGyro' = f.gyro
        PROVE  g.gyro <= movingPeakGyro'
    BY <2>2, <2>3, <2>4, <2>5
  \* The movement goes on: the new peak covers the new frame as well.
  <2>6. ASSUME gestureState = "Moving", movingStart' = movingStart,
               movingPeakGyro' = NewPeak(f)
        PROVE  g.gyro <= movingPeakGyro'
    <3>1. NewPeak(f) \in Nat /\ NewPeak(f) >= movingPeakGyro /\ NewPeak(f) >= f.gyro
      BY <2>2, <2>3, NewPeakBounds
    <3>2. g \in recentFeatures => g.gyro <= movingPeakGyro
      BY <2>6 DEF IInv, PeakIsMaximum
    <3> QED
      BY <2>2, <2>3, <2>4, <2>6, <3>1, <3>2
  \* A hold goes on: the new frame is later than its beginning.
  <2>7. CASE Holding_Continue(f, gap)
    <3>1. gestureState = "Holding" /\ UNCHANGED <<movingStart, holdStart, movingPeakGyro, gestureState>>
      BY <2>7 DEF Holding_Continue
    <3>2. g.t <= holdStart /\ holdStart <= now /\ holdStart \in Nat
      BY <3>1 DEF IInv, Chronology, TypeOK
    <3>3. g \in recentFeatures
      BY <2>2, <2>3, <2>4, <3>2
    <3> QED
      BY <3>1, <3>2, <3>3 DEF IInv, PeakIsMaximum
  <2>8. CASE Idle_StartMoving(f, gap)
    BY <2>5, <2>8 DEF Idle_StartMoving
  <2>9. CASE Moving_StartHolding(f, gap)
    BY <2>6, <2>9 DEF Moving_StartHolding
  <2>10. CASE Moving_Continue(f, gap)
    BY <2>6, <2>10 DEF Moving_Continue
  <2>11. CASE Holding_LeavePose(f, gap)
    BY <2>5, <2>11 DEF Holding_LeavePose, RestartMoving, Enter
  <2>12. CASE Holding_Interrupt(f, gap)
    BY <2>5, <2>12 DEF Holding_Interrupt, RestartMoving
  <2> QED
    BY <1>2, <2>7, <2>8, <2>9, <2>10, <2>11, <2>12
    DEF UpdateGestureAndMaybeSendHotkey, Idle_Wait, Moving_Reject, Moving_Timeout,
        Holding_Trigger, Cooldown_End, Cooldown_Continue, Enter
<1> QED
  BY <1>1, <1>2 DEF Next

\* The invariant is inductive.
LEMMA IInvInductive ==
  ASSUME IInv, [Next]_vars
  PROVE  IInv'
BY TypeStep, ChronologyStep, HoldFollowsMovementStep, PeakIsMaximumStep,
   HoldIsSteadyStep DEF IInv

\* Every reachable state satisfies the inductive invariant.
LEMMA IInvInvariant == Spec => []IInv
<1>1. Init => IInv
  <2>1. Init => TypeOK
    BY DEF Init, TypeOK, GestureStates
  <2> QED
    BY <2>1 DEF Init, IInv, Chronology, HoldFollowsMovement, PeakIsMaximum, HoldIsSteady
<1>2. IInv /\ [Next]_vars => IInv'
  BY IInvInductive
<1> QED
  BY <1>1, <1>2, PTL DEF Spec

\* Whatever frames arrive and whenever: a hold consists of frames in the stop
\* pose below the break threshold only.
THEOREM HoldAlwaysSteady == Spec => []HoldIsSteady
<1>1. IInv => HoldIsSteady
  BY DEF IInv
<1> QED
  BY <1>1, IInvInvariant, PTL

\* A hold always follows a movement of the required speed and length.
THEOREM HoldAlwaysFollowsMovement == Spec => []HoldFollowsMovement
<1>1. IInv => HoldFollowsMovement
  BY DEF IInv
<1> QED
  BY <1>1, IInvInvariant, PTL

\* The recorded peak is always the maximum of the movement.
THEOREM PeakAlwaysMaximum == Spec => []PeakIsMaximum
<1>1. IInv => PeakIsMaximum
  BY DEF IInv
<1> QED
  BY <1>1, IInvInvariant, PTL

\* The clocks are always in order: no hold waits for a cooldown.
THEOREM ClocksInOrder == Spec => []Chronology
<1>1. IInv => Chronology
  BY DEF IInv
<1> QED
  BY <1>1, IInvInvariant, PTL

\* The clock facts of a step that sends the hotkey.
LEMMA TriggerFacts ==
  ASSUME IInv, NEW f \in Frames, NEW gap \in Gaps, Holding_Trigger(f, gap)
  PROVE  /\ now' > now /\ now' \in Nat
         /\ now' - holdStart >= HoldSeconds
         /\ movingStart + TrajectoryMinSeconds <= holdStart
         /\ cooldownUntil <= episodeStart /\ episodeStart <= movingStart
<1>1. now' > now /\ now' \in Nat
  BY ReceiveFacts DEF Holding_Trigger, IInv
<1> QED
  BY <1>1 DEF Holding_Trigger, HeldLongEnough, IInv, Chronology, HoldFollowsMovement

\* Two hotkeys are never closer than a cooldown, a trajectory and a hold.
THEOREM HotkeysAreSpaced == Spec => TriggerSpacing
<1>1. ASSUME IInv, [Next]_vars
      PROVE  [ hotkeySentCount' # hotkeySentCount /\ hotkeySentCount > 0 =>
                 now' - (cooldownUntil - CooldownSeconds)
                   >= CooldownSeconds + TrajectoryMinSeconds + HoldSeconds ]_vars
  <2> SUFFICES ASSUME hotkeySentCount' # hotkeySentCount
               PROVE  now' - (cooldownUntil - CooldownSeconds)
                        >= CooldownSeconds + TrajectoryMinSeconds + HoldSeconds
    OBVIOUS
  <2>1. PICK f \in Frames, gap \in Gaps : Holding_Trigger(f, gap)
    BY <1>1 DEF Next, UpdateGestureAndMaybeSendHotkey, Idle_StartMoving, Idle_Wait,
       Moving_StartHolding, Moving_Reject, Moving_Timeout, Moving_Continue,
       Holding_LeavePose, Holding_Interrupt, Holding_Continue,
       Cooldown_End, Cooldown_Continue, vars
  <2>2. /\ now' \in Nat
        /\ now' - holdStart >= HoldSeconds
        /\ movingStart + TrajectoryMinSeconds <= holdStart
        /\ cooldownUntil <= episodeStart /\ episodeStart <= movingStart
    BY <1>1, <2>1, TriggerFacts
  <2> QED
    BY <1>1, <2>2, DurationsAssumption DEF IInv, TypeOK
<1> QED
  BY <1>1, IInvInvariant, PTL DEF Spec, TriggerSpacing

\* Every frame is a step of the debounced hotkey: it passes, arms, abandons
\* or fires.
LEMMA DebouncedStep ==
  ASSUME IInv, [Next]_vars
  PROVE  [HK!HKNext]_(HK!hkvars)
<1>1. CASE UNCHANGED vars
  BY <1>1 DEF vars, HK!hkvars
<1>2. ASSUME NEW f \in Frames, NEW gap \in Gaps,
             UpdateGestureAndMaybeSendHotkey(f, gap)
      PROVE  HK!HKNext
  <2>1. Receive(f, gap)
    BY <1>2 DEF UpdateGestureAndMaybeSendHotkey, Idle_StartMoving, Idle_Wait,
       Moving_StartHolding, Moving_Reject, Moving_Timeout, Moving_Continue,
       Holding_LeavePose, Holding_Interrupt, Holding_Trigger, Holding_Continue,
       Cooldown_End, Cooldown_Continue
  <2>2. now' > now /\ now' \in Nat /\ now \in Nat /\ cooldownUntil \in Nat
    BY <2>1, ReceiveFacts DEF IInv, TypeOK
  <2> USE DEF HK!HKNext, Enter
  <2>3. CASE Idle_StartMoving(f, gap)
    BY <2>2, <2>3 DEF Idle_StartMoving, HK!Arm, IInv, Chronology
  <2>4. CASE Idle_Wait(f, gap)
    BY <2>2, <2>4 DEF Idle_Wait, HK!Pass
  <2>5. CASE Moving_StartHolding(f, gap)
    BY <2>2, <2>5 DEF Moving_StartHolding, HK!Pass
  <2>6. CASE Moving_Reject(f, gap)
    BY <2>2, <2>6 DEF Moving_Reject, HK!Abandon
  <2>7. CASE Moving_Timeout(f, gap)
    BY <2>2, <2>7 DEF Moving_Timeout, HK!Abandon
  <2>8. CASE Moving_Continue(f, gap)
    BY <2>2, <2>8 DEF Moving_Continue, HK!Pass
  <2>9. CASE Holding_LeavePose(f, gap)
    BY <2>2, <2>9 DEF Holding_LeavePose, RestartMoving, HK!Pass, HK!Abandon
  <2>10. CASE Holding_Interrupt(f, gap)
    BY <2>2, <2>10 DEF Holding_Interrupt, RestartMoving, HK!Pass
  <2>11. CASE Holding_Trigger(f, gap)
    <3>1. now' >= episodeStart + (TrajectoryMinSeconds + HoldSeconds)
      BY <2>2, <2>11, TriggerFacts, DurationsAssumption DEF IInv, TypeOK
    <3> QED
      BY <2>2, <2>11, <3>1 DEF Holding_Trigger, HK!Fire
  <2>12. CASE Holding_Continue(f, gap)
    BY <2>2, <2>12 DEF Holding_Continue, HK!Pass
  <2>13. CASE Cooldown_End(f, gap)
    BY <2>2, <2>13 DEF Cooldown_End, HK!Pass
  <2>14. CASE Cooldown_Continue(f, gap)
    BY <2>2, <2>14 DEF Cooldown_Continue, HK!Pass
  <2> QED
    BY <1>2, <2>3, <2>4, <2>5, <2>6, <2>7, <2>8, <2>9, <2>10, <2>11, <2>12, <2>13, <2>14
    DEF UpdateGestureAndMaybeSendHotkey
<1> QED
  BY <1>1, <1>2 DEF Next

\* The state machine implements the debounced hotkey for every choice of the
\* constants.
THEOREM RecognizerDebounces == Spec => ImplementsDebouncedHotkey
<1>1. Init => HK!HKInit
  BY DEF Init, HK!HKInit
<1>2. IInv /\ [Next]_vars => [HK!HKNext]_(HK!hkvars)
  BY DebouncedStep
<1> QED
  BY <1>1, <1>2, IInvInvariant, PTL DEF Spec, ImplementsDebouncedHotkey, HK!HKSpec
=============================================================================
