---------------------------- MODULE VehicleProofs ---------------------------
(***************************************************************************)
(* Proofs about Vehicle, for any buttons and any bound on resets.          *)
(***************************************************************************)
EXTENDS Vehicle, TLAPS

\* What the boards believe about the rear board is true or out of date in one
\* direction only: precharge and fault are never withdrawn, until it is reset.
Beliefs ==
  ~rear_reset => /\ wheel_rx.ready \/ front_rx.ready => ready
                 /\ front_rx.fault => fault

\* The front board is in FAULT only on a report it still holds.
FaultIsReported ==
  ~rear_reset => /\ front_state = "FAULT" => front_rx.fault
                 /\ front_pc = "finish" => front_state # "FAULT"

\* A request for drive anywhere between the pedals and the motor comes from the
\* driver.
RequestsAreAsked ==
  ~asked => /\ wheel_state \notin Driving
            /\ front_steer \notin Driving
            /\ front_state \notin DriveRequests
            /\ published \notin DriveRequests
            /\ rear_rx \notin DriveRequests
            /\ ~motor

IInv ==
  TypeOK /\ DrivingNeedsPrecharge /\ Beliefs /\ FaultIsReported /\ RequestsAreAsked

USE DEF WheelStates, FrontStates, Driving

\* The four ways in which a step of the rear board's own can move it.
RearOwn == Precharge \/ BpsFault \/ RearEngages \/ RearReleases \/ RearFaults

LEMMA StateOfType ==
  ASSUME NEW r \in {"N", "D", "R"}
  PROVE  /\ StateOf(r) \in {"NEUTRAL", "DRIVE", "REVERSE"}
         /\ r = "N" => StateOf(r) = "NEUTRAL"
BY DEF StateOf

LEMMA InitIInv == Init => IInv
<1> SUFFICES ASSUME Init PROVE IInv
  OBVIOUS
<1>1. NoStatus \in Statuses /\ ~NoStatus.ready /\ ~NoStatus.fault
  BY DEF NoStatus, Statuses
<1>2. /\ mode = "START" /\ ready = FALSE /\ fault = FALSE /\ motor = FALSE
  BY DEF Init, Rear!Init
<1>3. TypeOK
  <2>1. /\ front_brake \in BOOLEAN /\ brake \in BOOLEAN /\ asked \in BOOLEAN
        /\ rear_reset \in BOOLEAN
    BY DEF Init
  <2>2. /\ mode \in Rear!Modes
        /\ ready \in BOOLEAN /\ fault \in BOOLEAN /\ motor \in BOOLEAN
    BY <1>2 DEF Rear!Modes
  <2>3. wheel_rx \in Statuses /\ front_rx \in Statuses
    BY <1>1 DEF Init
  <2>4. resets \in 0..MaxResets
    BY VehicleAssumption DEF Init
  <2> QED
    BY <2>1, <2>2, <2>3, <2>4 DEF Init, TypeOK
<1>4. DrivingNeedsPrecharge
  BY DEF Init, DrivingNeedsPrecharge
<1>5. Beliefs
  BY <1>1 DEF Init, Beliefs
<1>6. FaultIsReported
  BY DEF Init, FaultIsReported
<1>7. RequestsAreAsked
  BY <1>2 DEF Init, RequestsAreAsked, DriveRequests
<1> QED
  BY <1>3, <1>4, <1>5, <1>6, <1>7 DEF IInv

LEMMA MoveBrakeStep == IInv /\ MoveBrake => IInv'
<1> SUFFICES ASSUME IInv, MoveBrake PROVE IInv'
  OBVIOUS
<1>1. UNCHANGED <<wheel_state, frontVars, rxVars, rearVars, history>> /\ brake' \in BOOLEAN
  BY DEF MoveBrake
<1> QED
  BY <1>1 DEF IInv, TypeOK, DrivingNeedsPrecharge, Beliefs, FaultIsReported,
              RequestsAreAsked, frontVars, rxVars, rearVars, history, DriveRequests

\* The wheel takes a driving state only on a report of precharge.
LEMMA WheelCycleStep ==
  ASSUME IInv, NEW r \in Requests, WheelCycle(r)
  PROVE  IInv'
<1>1. r \in {"N", "D", "R"}
  BY VehicleAssumption
<1>2. /\ wheel_state' \in WheelStates
      /\ wheel_state' \in Driving => wheel_state \in Driving \/ (wheel_rx.ready /\ r # "N")
      /\ wheel_state' \in Driving => asked'
  BY <1>1, StateOfType DEF IInv, TypeOK, RequestsAreAsked, WheelCycle, MayDrive
<1>3. /\ UNCHANGED <<frontVars, rxVars, rearVars, brake, resets, rear_reset>>
      /\ asked => asked'
      /\ asked' \in BOOLEAN
  BY DEF WheelCycle
<1>4. TypeOK'
  BY <1>2, <1>3 DEF IInv, TypeOK, frontVars, rxVars, rearVars
<1>5. DrivingNeedsPrecharge' /\ Beliefs' /\ FaultIsReported'
  BY <1>2, <1>3
  DEF IInv, DrivingNeedsPrecharge, Beliefs, FaultIsReported, frontVars, rxVars, rearVars
<1>6. RequestsAreAsked'
  BY <1>2, <1>3 DEF IInv, RequestsAreAsked, frontVars, rxVars, rearVars, DriveRequests
<1> QED
  BY <1>4, <1>5, <1>6 DEF IInv

\* A frame of the wheel or of the front board gives a receiver what the sender
\* holds.
LEMMA WheelSendsStep ==
  ASSUME IInv, NEW receivers, WheelSends(receivers)
  PROVE  IInv'
<1>1. /\ front_steer' \in {wheel_state, front_steer}
      /\ UNCHANGED <<wheel_state, frontVars, wheel_rx, front_rx, rear_rx, rearVars, brake, history>>
  BY DEF WheelSends
<1>2. TypeOK'
  BY <1>1 DEF IInv, TypeOK, frontVars, rearVars, history
<1>3. DrivingNeedsPrecharge' /\ Beliefs' /\ FaultIsReported' /\ RequestsAreAsked'
  BY <1>1
  DEF IInv, DrivingNeedsPrecharge, Beliefs, FaultIsReported, RequestsAreAsked, frontVars,
      rearVars, history, DriveRequests
<1> QED
  BY <1>2, <1>3 DEF IInv

LEMMA FrontSendsStep ==
  ASSUME IInv, NEW receivers, FrontSends(receivers)
  PROVE  IInv'
<1>1. /\ rear_rx' \in {published, rear_rx}
      /\ UNCHANGED <<wheel_state, frontVars, wheel_rx, front_rx, front_steer, rearVars, brake,
                     history>>
  BY DEF FrontSends
<1>2. TypeOK'
  BY <1>1 DEF IInv, TypeOK, frontVars, rearVars, history
<1>3. DrivingNeedsPrecharge' /\ Beliefs' /\ FaultIsReported' /\ RequestsAreAsked'
  BY <1>1
  DEF IInv, DrivingNeedsPrecharge, Beliefs, FaultIsReported, RequestsAreAsked, frontVars,
      rearVars, history, DriveRequests
<1> QED
  BY <1>2, <1>3 DEF IInv

LEMMA RearSendsStep ==
  ASSUME IInv, NEW receivers, RearSends(receivers)
  PROVE  IInv'
<1> DEFINE status == [fault |-> fault, ready |-> ready]
<1>1. status \in Statuses /\ status.fault = fault /\ status.ready = ready
  BY DEF IInv, TypeOK, Statuses
<1>2. /\ wheel_rx' \in {status, wheel_rx} /\ front_rx' = IF "front" \in receivers THEN status ELSE front_rx
      /\ UNCHANGED <<wheel_state, frontVars, front_steer, rear_rx, rearVars, brake, history>>
  BY DEF RearSends
<1> HIDE DEF status
<1>3. TypeOK'
  BY <1>1, <1>2 DEF IInv, TypeOK, frontVars, rearVars, history
<1>4. DrivingNeedsPrecharge' /\ RequestsAreAsked'
  BY <1>2
  DEF IInv, DrivingNeedsPrecharge, RequestsAreAsked, frontVars, rearVars, history, DriveRequests
<1>5. Beliefs'
  BY <1>1, <1>2 DEF IInv, Beliefs, rearVars, history
<1>6. FaultIsReported'
  BY <1>1, <1>2 DEF IInv, Beliefs, FaultIsReported, frontVars, history
<1> QED
  BY <1>3, <1>4, <1>5, <1>6 DEF IInv

LEMMA FrontFirstStep == IInv /\ FrontFirst => IInv'
<1> SUFFICES ASSUME IInv, FrontFirst PROVE IInv'
  OBVIOUS
<1>1. /\ front_pc' = "begin"
      /\ UNCHANGED <<wheel_state, front_state, published, front_brake, rxVars, rearVars, brake,
                     history>>
  BY DEF FrontFirst
<1>2. TypeOK'
  BY <1>1 DEF IInv, TypeOK, rxVars, rearVars, history
<1> QED
  BY <1>1, <1>2
  DEF IInv, DrivingNeedsPrecharge, Beliefs, FaultIsReported, RequestsAreAsked, rxVars,
      rearVars, history, DriveRequests

\* FAULT is entered on a report, and the cycle goes on only without one.
LEMMA FrontBeginStep == IInv /\ FrontBegin => IInv'
<1> SUFFICES ASSUME IInv, FrontBegin PROVE IInv'
  OBVIOUS
<1>1. /\ front_pc = "begin" /\ published' = front_state
      /\ \/ front_rx.fault /\ front_state' = "FAULT" /\ front_pc' = front_pc
         \/ ~front_rx.fault /\ front_state' = front_state /\ front_pc' = "finish"
      /\ UNCHANGED <<wheel_state, front_brake, rxVars, rearVars, brake, history>>
  BY DEF FrontBegin
<1>2. TypeOK'
  BY <1>1 DEF IInv, TypeOK, rxVars, rearVars, history
<1>3. DrivingNeedsPrecharge' /\ Beliefs' /\ FaultIsReported'
  BY <1>1 DEF IInv, DrivingNeedsPrecharge, Beliefs, FaultIsReported, rxVars, rearVars, history
<1>4. RequestsAreAsked'
  BY <1>1 DEF IInv, RequestsAreAsked, rxVars, rearVars, history, DriveRequests
<1> QED
  BY <1>2, <1>3, <1>4 DEF IInv

\* A driving state is taken from the wheel and on a report of precharge; REGEN
\* comes from the pedal.
LEMMA FrontEndStep == IInv /\ FrontEnd => IInv'
<1> SUFFICES ASSUME IInv, FrontEnd PROVE IInv'
  OBVIOUS
<1>1. front_state' \in FrontStates /\ front_state' # "FAULT" /\ front_brake' = brake
  BY DEF FrontEnd, FrontFinish, IInv, TypeOK
<1>2. front_state' \in Driving
        => front_state \in Driving \/ (front_rx.ready /\ front_steer \in Driving)
  BY DEF FrontEnd, FrontFinish, IInv, TypeOK
<1>3. front_state' \in DriveRequests
        => front_state' \in Driving \/ front_state' = "REGEN"
  BY <1>1 DEF DriveRequests
<1>4. /\ front_pc' = "begin"
      /\ asked' = (asked \/ front_state' = "REGEN")
      /\ UNCHANGED <<wheel_state, published, rxVars, rearVars, brake, resets, rear_reset>>
  BY DEF FrontEnd
<1>5. TypeOK'
  <2>1. asked' \in BOOLEAN /\ front_brake' \in BOOLEAN
    BY <1>1, <1>4 DEF IInv, TypeOK
  <2> QED
    BY <1>1, <1>4, <2>1 DEF IInv, TypeOK, rxVars, rearVars
<1>6. DrivingNeedsPrecharge' /\ Beliefs'
  BY <1>2, <1>4 DEF IInv, DrivingNeedsPrecharge, Beliefs, rxVars, rearVars
<1>7. FaultIsReported'
  BY <1>1, <1>4 DEF FaultIsReported
<1>8. RequestsAreAsked'
  BY <1>2, <1>3, <1>4 DEF IInv, RequestsAreAsked, rxVars, rearVars, DriveRequests
<1> QED
  BY <1>5, <1>6, <1>7, <1>8 DEF IInv

\* The rear board's own steps withdraw neither precharge nor fault, and close
\* the motor contactor only on a request.
LEMMA RearOwnStep == IInv /\ RearOwn => IInv'
<1> SUFFICES ASSUME IInv, RearOwn PROVE IInv'
  OBVIOUS
<1> USE DEF Rear!Precharged, Rear!RecordFault, Rear!Engage, Rear!Release, Rear!Latch, Rear!Cut
<1>1. UNCHANGED <<wheel_state, frontVars, rxVars, brake, history>>
  BY DEF RearOwn, Precharge, BpsFault, RearEngages, RearReleases, RearFaults, RearUnchanged
<1>2. /\ mode' \in Rear!Modes
      /\ ready' \in BOOLEAN /\ fault' \in BOOLEAN /\ motor' \in BOOLEAN
  BY DEF IInv, TypeOK, RearOwn, Precharge, BpsFault, RearEngages, RearReleases, RearFaults,
         Rear!Modes
<1>3. (ready => ready') /\ (fault => fault')
  BY DEF IInv, TypeOK, RearOwn, Precharge, BpsFault, RearEngages, RearReleases, RearFaults
<1>4. motor' => motor \/ rear_rx \in DriveRequests
  BY DEF IInv, TypeOK, RearOwn, Precharge, BpsFault, RearEngages, RearReleases, RearFaults
<1>5. TypeOK'
  BY <1>1, <1>2 DEF IInv, TypeOK, frontVars, rxVars, history
<1>6. DrivingNeedsPrecharge' /\ Beliefs' /\ FaultIsReported'
  BY <1>1, <1>3
  DEF IInv, DrivingNeedsPrecharge, Beliefs, FaultIsReported, frontVars, rxVars, history
<1>7. RequestsAreAsked'
  BY <1>1, <1>4 DEF IInv, RequestsAreAsked, frontVars, rxVars, history, DriveRequests
<1> QED
  BY <1>5, <1>6, <1>7 DEF IInv

LEMMA ResetStep == IInv /\ (ResetSteering \/ ResetFront \/ ResetRear) => IInv'
<1> SUFFICES ASSUME IInv, ResetSteering \/ ResetFront \/ ResetRear PROVE IInv'
  OBVIOUS
<1>1. NoStatus \in Statuses /\ ~NoStatus.ready /\ ~NoStatus.fault
  BY DEF NoStatus, Statuses
<1>2. resets' \in 0..MaxResets /\ rear_reset' \in BOOLEAN /\ (rear_reset => rear_reset')
  <2>1. PICK b \in {"steering", "front", "rear"} : Count(b)
    BY DEF ResetSteering, ResetFront, ResetRear
  <2>2. /\ resets \in 0..MaxResets /\ MaxResets \in Nat
        /\ resets < MaxResets /\ resets' = resets + 1
    BY <2>1, VehicleAssumption DEF IInv, TypeOK, Count
  <2>3. resets' \in 0..MaxResets
    BY <2>2
  <2>4. rear_reset' \in BOOLEAN /\ (rear_reset => rear_reset')
    BY <2>1 DEF Count
  <2> QED
    BY <2>3, <2>4
<1>3. CASE ResetSteering
  <2>1. /\ wheel_state' = "INVALID" /\ wheel_rx' = NoStatus
        /\ UNCHANGED <<frontVars, front_rx, front_steer, rear_rx, rearVars, brake, asked>>
    BY <1>3 DEF ResetSteering
  <2>2. TypeOK'
    BY <1>1, <1>2, <2>1 DEF IInv, TypeOK, frontVars, rearVars
  <2> QED
    BY <1>1, <1>2, <2>1, <2>2
    DEF IInv, DrivingNeedsPrecharge, Beliefs, FaultIsReported, RequestsAreAsked, frontVars,
        rearVars, DriveRequests
<1>4. CASE ResetFront
  <2>1. /\ front_state' = "NEUTRAL" /\ published' = "INVALID" /\ front_brake' = FALSE
        /\ front_pc' = "first" /\ front_rx' = NoStatus /\ front_steer' = "INVALID"
        /\ UNCHANGED <<wheel_state, wheel_rx, rear_rx, rearVars, brake, asked>>
    BY <1>4 DEF ResetFront
  <2>2. TypeOK'
    BY <1>1, <1>2, <2>1 DEF IInv, TypeOK, rearVars
  <2> QED
    BY <1>1, <1>2, <2>1, <2>2
    DEF IInv, DrivingNeedsPrecharge, Beliefs, FaultIsReported, RequestsAreAsked, rearVars,
        DriveRequests
<1>5. CASE ResetRear
  <2>1. /\ mode' = "START" /\ ready' = FALSE /\ fault' = FALSE /\ motor' = FALSE
        /\ rear_rx' = "INVALID" /\ rear_reset'
        /\ UNCHANGED <<wheel_state, frontVars, wheel_rx, front_rx, front_steer, brake, asked>>
    BY <1>5 DEF ResetRear, Count
  <2>2. TypeOK'
    <3>1. ready' \in BOOLEAN /\ fault' \in BOOLEAN /\ motor' \in BOOLEAN /\ mode' \in Rear!Modes
      BY <2>1 DEF Rear!Modes
    <3> QED
      BY <1>2, <2>1, <3>1 DEF IInv, TypeOK, frontVars
  <2> QED
    BY <2>1, <2>2
    DEF IInv, DrivingNeedsPrecharge, Beliefs, FaultIsReported, RequestsAreAsked, frontVars,
        DriveRequests
<1> QED
  BY <1>3, <1>4, <1>5

LEMMA NextIInv == IInv /\ [Next]_vars => IInv'
<1>1. ASSUME IInv, Next PROVE IInv'
  <2>1. CASE MoveBrake
    BY <1>1, <2>1, MoveBrakeStep
  <2>2. CASE \E r \in Requests : WheelCycle(r)
    BY <1>1, <2>2, WheelCycleStep
  <2>3. CASE FrontStep
    BY <1>1, <2>3, FrontFirstStep, FrontBeginStep, FrontEndStep DEF FrontStep
  <2>4. CASE RearOwn
    BY <1>1, <2>4, RearOwnStep
  <2>5. CASE WheelSends({"front"})
    BY <1>1, <2>5, WheelSendsStep
  <2>6. CASE FrontSends({"rear"})
    BY <1>1, <2>6, FrontSendsStep
  <2>7. CASE \E receivers \in SUBSET {"steering", "front"} : RearSends(receivers)
    BY <1>1, <2>7, RearSendsStep
  <2>8. CASE ResetSteering \/ ResetFront \/ ResetRear
    BY <1>1, <2>8, ResetStep
  <2> QED
    BY <1>1, <2>1, <2>2, <2>3, <2>4, <2>5, <2>6, <2>7, <2>8 DEF Next, RearOwn
<1>2. ASSUME IInv, UNCHANGED vars PROVE IInv'
  BY <1>2
  DEF IInv, TypeOK, DrivingNeedsPrecharge, Beliefs, FaultIsReported, RequestsAreAsked, vars,
      frontVars, rxVars, rearVars, history, DriveRequests
<1> QED
  BY <1>1, <1>2

\* The boards' beliefs, with what they rest on.
THEOREM VehicleInvariant == Spec => []IInv
BY InitIInv, NextIInv, PTL DEF Spec, Safety

\* Type correctness.
THEOREM VehicleTypes == Spec => []TypeOK
<1>1. IInv => TypeOK
  BY DEF IInv
<1> QED
  BY VehicleInvariant, <1>1, PTL

\* No board is in a driving state ahead of precharge, whatever frames are lost.
THEOREM VehiclePrecharge == Spec => []DrivingNeedsPrecharge
<1>1. IInv => DrivingNeedsPrecharge
  BY DEF IInv
<1> QED
  BY VehicleInvariant, <1>1, PTL

\* The motor is connected only after the driver has asked for torque.
THEOREM VehicleMotor == Spec => []MotorNeedsDriver
<1>1. IInv => MotorNeedsDriver
  BY DEF IInv, TypeOK, RequestsAreAsked, MotorNeedsDriver
<1> QED
  BY VehicleInvariant, <1>1, PTL

\* The front board leaves FAULT by a reset only.
THEOREM VehicleFault == Spec => FaultIsHeld
<1> DEFINE P == ~rear_reset /\ resets' = resets /\ front_state = "FAULT" => front_state' = "FAULT"
<1>1. ASSUME IInv, FrontStep PROVE P
  BY <1>1 DEF IInv, FaultIsReported, FrontStep, FrontFirst, FrontBegin, FrontEnd
<1>2. ASSUME IInv, ResetSteering \/ ResetFront \/ ResetRear PROVE P
  BY <1>2, VehicleAssumption DEF IInv, TypeOK, ResetSteering, ResetFront, ResetRear, Count
<1>3. ASSUME Next, ~FrontStep, ~(ResetSteering \/ ResetFront \/ ResetRear)
      PROVE  front_state' = front_state
  BY <1>3
  DEF Next, MoveBrake, WheelCycle, WheelSends, FrontSends, RearSends, Precharge, BpsFault,
      RearEngages, RearReleases, RearFaults, RearUnchanged, frontVars
<1>4. UNCHANGED vars => front_state' = front_state
  BY DEF vars, frontVars
<1>5. IInv /\ [Next]_vars => [P]_vars
  BY <1>1, <1>2, <1>3, <1>4
<1> QED
  BY VehicleInvariant, <1>5, PTL DEF Spec, Safety, FaultIsHeld

-----------------------------------------------------------------------------
\* Progress.  Each of the scheduled steps can be taken where it would change
\* something: none of them waits for another board.
FrontIsReady ==
  front_pc # "begin" \/ published # front_state \/ ~front_rx.fault \/ front_state # "FAULT"
    => ENABLED <<FrontStep>>_vars

FramesAreReady ==
  /\ front_steer # wheel_state => ENABLED <<WheelSends({"front"})>>_vars
  /\ rear_rx # published => ENABLED <<FrontSends({"rear"})>>_vars
  /\ front_rx # [fault |-> fault, ready |-> ready]
       => ENABLED <<RearSends({"steering", "front"})>>_vars

RearIsReady ==
  /\ rear_rx \in DriveRequests /\ mode \in {"START", "IDLE"} /\ ready /\ ~fault
       => ENABLED <<RearEngages>>_vars
  /\ rear_rx \in NeutralRequests /\ mode \in {"START", "DRIVE"} /\ ~fault
       => ENABLED <<RearReleases>>_vars
  /\ (fault /\ mode # "FAULT") \/ (mode = "FAULT" /\ motor) => ENABLED <<RearFaults>>_vars

BoardsAreReady == FrontIsReady /\ FramesAreReady /\ RearIsReady

\* The resets come to an end, as every execution's do (MaxResets).
NoReset == resets' = resets

ResetsEnd == <>[][NoReset]_vars

\* The latch of the rear board holds a fault, and the motor is on in DRIVE only.
ModeIsTrue ==
  /\ mode = "FAULT" => fault
  /\ mode # "FAULT" => (motor <=> mode = "DRIVE")

LEMMA ModeAlwaysTrue == Spec => []ModeIsTrue
<1>1. Init => ModeIsTrue
  BY DEF Init, Rear!Init, ModeIsTrue
<1>2. IInv /\ ModeIsTrue /\ [Next]_vars => ModeIsTrue'
  <2> SUFFICES ASSUME IInv, ModeIsTrue, [Next]_vars PROVE ModeIsTrue'
    OBVIOUS
  <2> USE DEF ModeIsTrue
  <2>1. CASE RearOwn
    <3>1. CASE Precharge \/ BpsFault
      BY <3>1 DEF Precharge, BpsFault, Rear!Precharged, Rear!RecordFault
    <3>2. CASE RearEngages \/ RearReleases
      BY <3>2 DEF RearEngages, RearReleases, Rear!Engage, Rear!Release
    <3>3. CASE RearFaults
      <4>1. mode' = "FAULT" /\ fault' = fault /\ (mode = "FAULT" \/ fault)
        BY <3>3 DEF RearFaults, Rear!Latch, Rear!Cut
      <4> QED
        BY <4>1
    <3> QED
      BY <2>1, <3>1, <3>2, <3>3 DEF RearOwn
  <2>2. CASE ResetRear
    BY <2>2 DEF ResetRear
  <2>3. CASE ~RearOwn /\ ~ResetRear
    BY <2>3 DEF Next, RearOwn, MoveBrake, WheelCycle, FrontStep, FrontFirst, FrontBegin, FrontEnd,
         WheelSends, FrontSends, RearSends, ResetSteering, ResetFront, rearVars, vars
  <2> QED
    BY <2>1, <2>2, <2>3
<1> QED
  BY VehicleInvariant, <1>1, <1>2, PTL DEF Spec, Safety

\* Who writes what, while no board is reset.
Status == [fault |-> fault, ready |-> ready]

LEMMA Writers ==
  ASSUME IInv, [Next]_vars, [NoReset]_vars
  PROVE  /\ front_steer' \in {front_steer, wheel_state}
         /\ front_rx' \in {front_rx, Status}
         /\ rear_rx' \in {rear_rx, published}
         /\ FrontStep \/ UNCHANGED frontVars
         /\ RearOwn \/ UNCHANGED rearVars
<1>1. ~(ResetSteering \/ ResetFront \/ ResetRear)
  BY VehicleAssumption
  DEF IInv, TypeOK, ResetSteering, ResetFront, ResetRear, Count, NoReset, vars, history
<1> USE DEF rxVars
<1>2. CASE FrontStep
  BY <1>2 DEF FrontStep, FrontFirst, FrontBegin, FrontEnd
<1>3. CASE RearOwn
  BY <1>3 DEF RearOwn, Precharge, BpsFault, RearEngages, RearReleases, RearFaults, RearUnchanged
<1>4. CASE WheelSends({"front"}) \/ FrontSends({"rear"})
  BY <1>4 DEF WheelSends, FrontSends
<1>5. CASE \E receivers \in SUBSET {"steering", "front"} : RearSends(receivers)
  BY <1>5 DEF RearSends, Status
<1>6. CASE MoveBrake \/ (\E r \in Requests : WheelCycle(r)) \/ UNCHANGED vars
  BY <1>6 DEF MoveBrake, WheelCycle, vars
<1> QED
  BY <1>1, <1>2, <1>3, <1>4, <1>5, <1>6 DEF Next, RearOwn

\* A step under the invariants, without a reset.
CalmStep == IInv /\ ModeIsTrue /\ [Next]_vars /\ [NoReset]_vars

\* A fault that stays: the rear board enters FAULT and cuts the motor, the front
\* board receives the report, goes through its cycle to FAULT and stays there.
MotorIsCut      == mode = "FAULT" /\ ~motor
RearInFault     == mode = "FAULT"
FaultIsReceived == front_rx.fault
FrontInFault    == front_state = "FAULT" /\ front_pc = "begin"

LEMMA FaultMovesRear ==
  CalmStep /\ fault =>
    /\ RearInFault => RearInFault'
    /\ ~RearInFault /\ <<RearFaults>>_vars => RearInFault'
    /\ MotorIsCut => MotorIsCut'
    /\ RearInFault /\ <<RearFaults>>_vars => MotorIsCut'
<1> SUFFICES ASSUME CalmStep, fault
             PROVE  /\ RearInFault => RearInFault'
                    /\ ~RearInFault /\ <<RearFaults>>_vars => RearInFault'
                    /\ MotorIsCut => MotorIsCut'
                    /\ RearInFault /\ <<RearFaults>>_vars => MotorIsCut'
  OBVIOUS
<1> USE DEF RearInFault, MotorIsCut
<1>1. RearFaults => mode' = "FAULT" /\ (mode = "FAULT" => motor' = FALSE) /\ (~motor => ~motor')
  <2>1. Rear!Latch => mode # "FAULT" /\ mode' = "FAULT" /\ motor' \in {motor, FALSE}
    BY DEF Rear!Latch
  <2>2. Rear!Cut => mode = "FAULT" /\ mode' = mode /\ motor' = FALSE
    BY DEF Rear!Cut
  <2>3. motor' \in {motor, FALSE} => (~motor => ~motor')
    OBVIOUS
  <2> QED
    BY <2>1, <2>2, <2>3 DEF RearFaults
<1>2. Precharge \/ BpsFault => mode' = mode /\ motor' = motor
  BY DEF Precharge, BpsFault, Rear!Precharged, Rear!RecordFault
<1>3. ~RearEngages /\ ~RearReleases
  BY DEF RearEngages, RearReleases, Rear!Engage, Rear!Release
<1>4. RearOwn \/ (mode' = mode /\ motor' = motor)
  BY Writers DEF CalmStep, rearVars
<1> QED
  BY <1>1, <1>2, <1>3, <1>4 DEF RearOwn

LEMMA FaultMovesFront ==
  CalmStep /\ fault =>
    /\ FaultIsReceived => FaultIsReceived'
    /\ <<RearSends({"steering", "front"})>>_vars => FaultIsReceived'
    /\ FaultIsReceived /\ FrontInFault => FrontInFault'
<1> SUFFICES ASSUME CalmStep, fault
             PROVE  /\ FaultIsReceived => FaultIsReceived'
                    /\ RearSends({"steering", "front"}) => FaultIsReceived'
                    /\ FaultIsReceived /\ FrontInFault => FrontInFault'
  OBVIOUS
<1> USE DEF FaultIsReceived, FrontInFault
<1>1. Status.fault
  BY DEF Status
<1>2. FrontStep \/ UNCHANGED <<front_state, front_pc>>
  BY Writers DEF CalmStep, frontVars
<1>3. RearSends({"steering", "front"}) => front_rx' = Status
  BY DEF RearSends, Status
<1>4. front_rx' \in {front_rx, Status}
  BY Writers DEF CalmStep
<1>5. front_rx.fault /\ front_state = "FAULT" /\ front_pc = "begin" /\ FrontStep
        => front_state' = "FAULT" /\ front_pc' = "begin"
  BY DEF FrontStep, FrontFirst, FrontBegin, FrontEnd
<1> QED
  BY <1>1, <1>2, <1>3, <1>4, <1>5

FrontLeft ==
  CASE front_pc = "first"  -> 3
    [] front_pc = "finish" -> 2
    [] OTHER               -> 1

FrontWithin(n) == ~FrontInFault /\ FrontLeft <= n

\* With m below n: what is within n stays there, and a statement brings it within m.
FrontNearer(n, m) ==
  IInv /\ FaultIsReceived /\ FrontWithin(n) =>
    /\ [Next]_vars /\ [NoReset]_vars => FrontWithin(n)' \/ FrontInFault'
    /\ <<FrontStep>>_vars => FrontWithin(m)' \/ FrontInFault'

LEMMA FrontNears ==
  ASSUME IInv, FaultIsReceived, FrontStep, NEW n \in Nat, FrontWithin(n + 1)
  PROVE  FrontWithin(n)' \/ FrontInFault'
BY DEF FrontStep, FrontFirst, FrontBegin, FrontEnd, FaultIsReceived, FrontWithin, FrontLeft,
       FrontInFault, IInv, TypeOK

LEMMA FrontNearerStep == \A n \in Nat : FrontNearer(n + 1, n)
<1> SUFFICES ASSUME NEW n \in Nat, IInv, FaultIsReceived, FrontWithin(n + 1)
             PROVE  /\ [Next]_vars /\ [NoReset]_vars => FrontWithin(n + 1)' \/ FrontInFault'
                    /\ <<FrontStep>>_vars => FrontWithin(n)' \/ FrontInFault'
  BY DEF FrontNearer
<1>1. FrontStep => FrontWithin(n)' \/ FrontInFault'
  BY FrontNears
<1>2. FrontWithin(n)' => FrontWithin(n + 1)'
  BY DEF FrontWithin, FrontLeft
<1>3. [Next]_vars /\ [NoReset]_vars => FrontStep \/ UNCHANGED <<front_state, front_pc>>
  BY Writers DEF frontVars
<1>4. UNCHANGED <<front_state, front_pc>> => FrontWithin(n + 1)'
  BY DEF FrontWithin, FrontLeft, FrontInFault
<1> QED
  BY <1>1, <1>2, <1>3, <1>4

\* A BPS fault that stays reaches the front board, and the motor is cut, whatever
\* was lost or reset before: with boards that are never blocked.
THEOREM VehicleFaultReaches ==
  Spec /\ []BoardsAreReady /\ ResetsEnd => FaultReachesFront
<1>1. fault /\ ~RearInFault => (BoardsAreReady => ENABLED <<RearFaults>>_vars)
  BY DEF RearInFault, BoardsAreReady, RearIsReady
<1>2. RearInFault /\ ~MotorIsCut => (BoardsAreReady => ENABLED <<RearFaults>>_vars)
  BY DEF RearInFault, MotorIsCut, BoardsAreReady, RearIsReady
<1>3. fault /\ ~FaultIsReceived
        => (BoardsAreReady => ENABLED <<RearSends({"steering", "front"})>>_vars)
  BY DEF FaultIsReceived, BoardsAreReady, FramesAreReady
<1>4. FaultIsReceived /\ ~FrontInFault => (BoardsAreReady => ENABLED <<FrontStep>>_vars)
  BY DEF FrontInFault, BoardsAreReady, FrontIsReady
<1>5. FrontNearer(3, 2) /\ FrontNearer(2, 1) /\ FrontNearer(1, 0)
  BY FrontNearerStep
<1>6. ~FrontInFault => FrontWithin(3)
  BY DEF FrontWithin, FrontLeft
<1>7. FrontWithin(3) \/ FrontWithin(2) \/ FrontWithin(1) => ~FrontInFault
  BY DEF FrontWithin
<1>8. ~FrontWithin(0)
  BY DEF FrontWithin, FrontLeft
<1>9. FrontInFault /\ MotorIsCut => front_state = "FAULT" /\ mode = "FAULT" /\ ~motor
  BY DEF FrontInFault, MotorIsCut
<1> QED
  BY VehicleInvariant, ModeAlwaysTrue, FaultMovesRear, FaultMovesFront, <1>1, <1>2, <1>3, <1>4,
     <1>5, <1>6, <1>7, <1>8, <1>9, PTL
  DEF Spec, Safety, Fairness, ResetsEnd, CalmStep, FrontNearer, FaultReachesFront

\* What the wheel keeps sending is what the front board works on.
WheelIsHeard(s) == front_steer = s

LEMMA WheelGetsThrough ==
  ASSUME NEW s
  PROVE  CalmStep /\ wheel_state = s =>
           /\ WheelIsHeard(s) => WheelIsHeard(s)'
           /\ <<WheelSends({"front"})>>_vars => WheelIsHeard(s)'
<1>1. CalmStep => front_steer' \in {front_steer, wheel_state}
  BY Writers DEF CalmStep
<1>2. WheelSends({"front"}) => front_steer' = wheel_state
  BY DEF WheelSends
<1> QED
  BY <1>1, <1>2 DEF WheelIsHeard

\* A wheel that stays in neutral with the pedal up: the front board goes through
\* its cycle to NEUTRAL, or to FAULT, and publishes that; the rear board takes
\* either as a request for neutral, unless it is in FAULT itself.
NeutralIsKept == wheel_state = "NEUTRAL" /\ ~brake

Idle == {"NEUTRAL", "FAULT"}

FrontIsIdle == front_state \in Idle /\ published \in Idle /\ front_pc # "first"

IdleLeft ==
  CASE front_pc = "first"  -> 5
    [] front_pc = "finish" -> 3
    [] OTHER               -> IF front_state \in Idle THEN 2 ELSE 4

IdleWithin(n) == ~FrontIsIdle /\ IdleLeft <= n

IdleNearer(n, m) ==
  IInv /\ NeutralIsKept /\ WheelIsHeard("NEUTRAL") /\ IdleWithin(n) =>
    /\ [Next]_vars /\ [NoReset]_vars => IdleWithin(n)' \/ FrontIsIdle'
    /\ <<FrontStep>>_vars => IdleWithin(m)' \/ FrontIsIdle'

LEMMA IdleCycle ==
  ASSUME IInv, NeutralIsKept, WheelIsHeard("NEUTRAL"), FrontStep
  PROVE  \/ front_pc = "first" /\ front_pc' = "begin"
         \/ front_pc = "begin" /\ front_pc' = "begin" /\ front_state' = "FAULT" /\ published' = front_state
         \/ front_pc = "begin" /\ front_pc' = "finish" /\ front_state' = front_state /\ published' = front_state
         \/ front_pc = "finish" /\ front_pc' = "begin" /\ front_state' = "NEUTRAL" /\ published' = published
<1>1. CASE FrontFirst
  BY <1>1 DEF FrontFirst
<1>2. CASE FrontBegin
  BY <1>2 DEF FrontBegin
<1>3. CASE FrontEnd
  BY <1>3 DEF FrontEnd, FrontFinish, NeutralIsKept, WheelIsHeard
<1> QED
  BY <1>1, <1>2, <1>3 DEF FrontStep

LEMMA IdleNears ==
  ASSUME IInv, NeutralIsKept, WheelIsHeard("NEUTRAL"), FrontStep, NEW n \in Nat, IdleWithin(n + 1)
  PROVE  IdleWithin(n)' \/ FrontIsIdle'
BY IdleCycle DEF IdleWithin, IdleLeft, FrontIsIdle, Idle

LEMMA IdleStep == \A n \in Nat : IdleNearer(n + 1, n)
<1> SUFFICES ASSUME NEW n \in Nat, IInv, NeutralIsKept, WheelIsHeard("NEUTRAL"), IdleWithin(n + 1)
             PROVE  /\ [Next]_vars /\ [NoReset]_vars => IdleWithin(n + 1)' \/ FrontIsIdle'
                    /\ <<FrontStep>>_vars => IdleWithin(n)' \/ FrontIsIdle'
  BY DEF IdleNearer
<1>1. FrontStep => IdleWithin(n)' \/ FrontIsIdle'
  BY IdleNears
<1>2. IdleWithin(n)' => IdleWithin(n + 1)'
  BY DEF IdleWithin, IdleLeft
<1>3. [Next]_vars /\ [NoReset]_vars => FrontStep \/ UNCHANGED <<front_state, published, front_pc>>
  BY Writers DEF frontVars
<1>4. UNCHANGED <<front_state, published, front_pc>> => IdleWithin(n + 1)'
  BY DEF IdleWithin, IdleLeft, FrontIsIdle
<1> QED
  BY <1>1, <1>2, <1>3, <1>4

LEMMA IdleStays ==
  CalmStep /\ NeutralIsKept /\ WheelIsHeard("NEUTRAL") /\ FrontIsIdle => FrontIsIdle'
<1>1. CalmStep => FrontStep \/ UNCHANGED <<front_state, published, front_pc>>
  BY Writers DEF CalmStep, frontVars
<1> QED
  BY <1>1, IdleCycle DEF CalmStep, FrontIsIdle, Idle

\* The rear board hears of it ...
NeutralIsHeard == rear_rx \in NeutralRequests

LEMMA IdleGetsThrough ==
  CalmStep /\ FrontIsIdle =>
    /\ NeutralIsHeard => NeutralIsHeard'
    /\ <<FrontSends({"rear"})>>_vars => NeutralIsHeard'
<1>1. CalmStep => rear_rx' \in {rear_rx, published}
  BY Writers DEF CalmStep
<1>2. FrontSends({"rear"}) => rear_rx' = published
  BY DEF FrontSends
<1> QED
  BY <1>1, <1>2 DEF FrontIsIdle, Idle, NeutralIsHeard, NeutralRequests

\* ... and opens the contactor: at once, or with the fault that came first.
MotorIsOff == ~motor

LEMMA NeutralMovesRear ==
  CalmStep /\ NeutralIsHeard =>
    /\ MotorIsOff => MotorIsOff'
    /\ fault => fault'
    /\ RearInFault => RearInFault'
    /\ <<RearReleases>>_vars => MotorIsOff'
    /\ <<RearFaults>>_vars => RearInFault' /\ (RearInFault => MotorIsOff')
<1> SUFFICES ASSUME CalmStep, NeutralIsHeard
             PROVE  /\ MotorIsOff => MotorIsOff'
                    /\ fault => fault'
                    /\ RearInFault => RearInFault'
                    /\ RearReleases => MotorIsOff'
                    /\ RearFaults => RearInFault' /\ (RearInFault => MotorIsOff')
  OBVIOUS
<1> USE DEF MotorIsOff, RearInFault
<1>1. RearFaults => /\ mode' = "FAULT" /\ (mode = "FAULT" => motor' = FALSE) /\ (~motor => ~motor')
                    /\ fault' = fault
  <2>1. Rear!Latch => /\ mode # "FAULT" /\ mode' = "FAULT" /\ motor' \in {motor, FALSE}
                      /\ fault' = fault
    BY DEF Rear!Latch
  <2>2. Rear!Cut => mode = "FAULT" /\ mode' = mode /\ motor' = FALSE /\ fault' = fault
    BY DEF Rear!Cut
  <2>3. motor' \in {motor, FALSE} => (~motor => ~motor')
    OBVIOUS
  <2> QED
    BY <2>1, <2>2, <2>3 DEF RearFaults
<1>2. Precharge => mode' = mode /\ motor' = motor /\ fault' = fault
  BY DEF Precharge, Rear!Precharged
<1>3. BpsFault => mode' = mode /\ motor' = motor /\ fault' = TRUE
  BY DEF BpsFault, Rear!RecordFault
<1>4. RearReleases => mode # "FAULT" /\ motor' = FALSE /\ fault' = fault
  BY DEF RearReleases, Rear!Release
<1>5. ~RearEngages
  BY DEF RearEngages, NeutralIsHeard, NeutralRequests, DriveRequests
<1>6. RearOwn \/ (mode' = mode /\ motor' = motor /\ fault' = fault)
  BY Writers DEF CalmStep, rearVars
<1> QED
  BY <1>1, <1>2, <1>3, <1>4, <1>5, <1>6 DEF RearOwn

LEMMA NeutralSettlesFront ==
  Spec /\ []BoardsAreReady /\ ResetsEnd => (<>[]NeutralIsKept => <>[]FrontIsIdle)
<1>1. NeutralIsKept => wheel_state = "NEUTRAL"
  BY DEF NeutralIsKept
<1>2. NeutralIsKept /\ ~WheelIsHeard("NEUTRAL")
        => (BoardsAreReady => ENABLED <<WheelSends({"front"})>>_vars)
  BY DEF NeutralIsKept, WheelIsHeard, BoardsAreReady, FramesAreReady
<1>3. ~FrontIsIdle /\ IInv => (BoardsAreReady => ENABLED <<FrontStep>>_vars)
  BY DEF FrontIsIdle, Idle, BoardsAreReady, FrontIsReady, IInv, TypeOK
<1>4. CalmStep /\ wheel_state = "NEUTRAL" =>
        /\ WheelIsHeard("NEUTRAL") => WheelIsHeard("NEUTRAL")'
        /\ <<WheelSends({"front"})>>_vars => WheelIsHeard("NEUTRAL")'
  BY WheelGetsThrough
<1>5. /\ IdleNearer(5, 4) /\ IdleNearer(4, 3) /\ IdleNearer(3, 2) /\ IdleNearer(2, 1)
      /\ IdleNearer(1, 0)
  BY IdleStep
<1>6. ~FrontIsIdle => IdleWithin(5)
  BY DEF IdleWithin, IdleLeft
<1>7. IdleWithin(5) \/ IdleWithin(4) \/ IdleWithin(3) \/ IdleWithin(2) \/ IdleWithin(1)
        => ~FrontIsIdle
  BY DEF IdleWithin
<1>8. ~IdleWithin(0)
  BY DEF IdleWithin, IdleLeft
<1> QED
  BY VehicleInvariant, ModeAlwaysTrue, IdleStays, <1>1, <1>2, <1>3, <1>4, <1>5, <1>6, <1>7, <1>8,
     PTL
  DEF Spec, Safety, Fairness, ResetsEnd, CalmStep, IdleNearer

\* A wheel that stays in neutral with the pedal up opens the motor contactor.
LEMMA VehicleNeutral == Spec /\ []BoardsAreReady /\ ResetsEnd => NeutralOpensMotor
<1>1. FrontIsIdle /\ ~NeutralIsHeard => (BoardsAreReady => ENABLED <<FrontSends({"rear"})>>_vars)
  BY DEF FrontIsIdle, Idle, NeutralIsHeard, NeutralRequests, BoardsAreReady, FramesAreReady
<1>2. NeutralIsHeard /\ ~MotorIsOff /\ ~fault /\ IInv /\ ModeIsTrue
        => (BoardsAreReady => ENABLED <<RearReleases>>_vars)
  BY DEF NeutralIsHeard, MotorIsOff, ModeIsTrue, BoardsAreReady, RearIsReady
<1>3. ~MotorIsOff /\ fault => (BoardsAreReady => ENABLED <<RearFaults>>_vars)
  BY DEF MotorIsOff, BoardsAreReady, RearIsReady
<1>4. MotorIsOff <=> ~motor
  BY DEF MotorIsOff
<1>5. NeutralIsKept <=> wheel_state = "NEUTRAL" /\ ~brake
  BY DEF NeutralIsKept
<1> QED
  BY VehicleInvariant, ModeAlwaysTrue, NeutralSettlesFront, IdleGetsThrough, NeutralMovesRear,
     <1>1, <1>2, <1>3, <1>4, <1>5, PTL
  DEF Spec, Safety, Fairness, ResetsEnd, CalmStep, NeutralOpensMotor

\* The wheel in DRIVE: the front board hears of precharge, takes DRIVE in a cycle
\* and publishes it; the rear board connects the motor.
DriveIsKept == wheel_state = "DRIVE" /\ ready /\ ~fault /\ ~brake

ReadyIsHeard == front_rx = [fault |-> FALSE, ready |-> TRUE]

FrontDrives == front_state = "DRIVE" /\ published = "DRIVE" /\ front_pc # "first"

LEMMA ReadyGetsThrough ==
  CalmStep /\ DriveIsKept =>
    /\ ReadyIsHeard => ReadyIsHeard'
    /\ <<RearSends({"steering", "front"})>>_vars => ReadyIsHeard'
<1>1. CalmStep /\ DriveIsKept => Status = [fault |-> FALSE, ready |-> TRUE]
  <2> SUFFICES ASSUME CalmStep, DriveIsKept PROVE Status = [fault |-> FALSE, ready |-> TRUE]
    OBVIOUS
  <2>1. fault = FALSE /\ ready = TRUE
    BY DEF CalmStep, IInv, TypeOK, DriveIsKept
  <2> QED
    BY <2>1 DEF Status
<1>2. CalmStep => front_rx' \in {front_rx, Status}
  BY Writers DEF CalmStep
<1>3. RearSends({"steering", "front"}) => front_rx' = Status
  BY DEF RearSends, Status
<1> QED
  BY <1>1, <1>2, <1>3 DEF ReadyIsHeard

DriveLeft ==
  CASE front_pc = "first"  -> 5
    [] front_pc = "finish" -> 3
    [] OTHER               -> IF front_state = "DRIVE" THEN 2 ELSE 4

DriveWithin(n) == ~FrontDrives /\ DriveLeft <= n

DriveNearer(n, m) ==
  IInv /\ DriveIsKept /\ ReadyIsHeard /\ WheelIsHeard("DRIVE") /\ DriveWithin(n) =>
    /\ [Next]_vars /\ [NoReset]_vars => DriveWithin(n)' \/ FrontDrives'
    /\ <<FrontStep>>_vars => DriveWithin(m)' \/ FrontDrives'

LEMMA DriveCycle ==
  ASSUME IInv, DriveIsKept, ReadyIsHeard, WheelIsHeard("DRIVE"), FrontStep
  PROVE  \/ front_pc = "first" /\ front_pc' = "begin"
         \/ front_pc = "begin" /\ front_pc' = "finish" /\ front_state' = front_state /\ published' = front_state
         \/ front_pc = "finish" /\ front_pc' = "begin" /\ front_state' = "DRIVE" /\ published' = published
<1>0. ~front_rx.fault /\ front_rx.ready
  BY DEF ReadyIsHeard
<1>1. CASE FrontFirst
  BY <1>1 DEF FrontFirst
<1>2. CASE FrontBegin
  BY <1>0, <1>2 DEF FrontBegin
<1>3. CASE FrontEnd
  BY <1>0, <1>3 DEF FrontEnd, FrontFinish, DriveIsKept, WheelIsHeard
<1> QED
  BY <1>1, <1>2, <1>3 DEF FrontStep

LEMMA DriveNears ==
  ASSUME IInv, DriveIsKept, ReadyIsHeard, WheelIsHeard("DRIVE"), FrontStep, NEW n \in Nat,
         DriveWithin(n + 1)
  PROVE  DriveWithin(n)' \/ FrontDrives'
BY DriveCycle DEF DriveWithin, DriveLeft, FrontDrives

LEMMA DriveStep == \A n \in Nat : DriveNearer(n + 1, n)
<1> SUFFICES ASSUME NEW n \in Nat, IInv, DriveIsKept, ReadyIsHeard, WheelIsHeard("DRIVE"),
                    DriveWithin(n + 1)
             PROVE  /\ [Next]_vars /\ [NoReset]_vars => DriveWithin(n + 1)' \/ FrontDrives'
                    /\ <<FrontStep>>_vars => DriveWithin(n)' \/ FrontDrives'
  BY DEF DriveNearer
<1>1. FrontStep => DriveWithin(n)' \/ FrontDrives'
  BY DriveNears
<1>2. DriveWithin(n)' => DriveWithin(n + 1)'
  BY DEF DriveWithin, DriveLeft
<1>3. [Next]_vars /\ [NoReset]_vars => FrontStep \/ UNCHANGED <<front_state, published, front_pc>>
  BY Writers DEF frontVars
<1>4. UNCHANGED <<front_state, published, front_pc>> => DriveWithin(n + 1)'
  BY DEF DriveWithin, DriveLeft, FrontDrives
<1> QED
  BY <1>1, <1>2, <1>3, <1>4

LEMMA DriveStays ==
  CalmStep /\ DriveIsKept /\ ReadyIsHeard /\ WheelIsHeard("DRIVE") /\ FrontDrives => FrontDrives'
<1>1. CalmStep => FrontStep \/ UNCHANGED <<front_state, published, front_pc>>
  BY Writers DEF CalmStep, frontVars
<1> QED
  BY <1>1, DriveCycle DEF CalmStep, FrontDrives

DriveIsHeard == rear_rx = "DRIVE"

MotorIsOn == mode = "DRIVE" /\ motor

LEMMA DriveMovesRear ==
  CalmStep /\ DriveIsKept =>
    /\ FrontDrives /\ DriveIsHeard => DriveIsHeard'
    /\ FrontDrives /\ <<FrontSends({"rear"})>>_vars => DriveIsHeard'
    /\ DriveIsHeard /\ MotorIsOn => MotorIsOn'
    /\ <<RearEngages>>_vars => MotorIsOn'
<1> SUFFICES ASSUME CalmStep, DriveIsKept
             PROVE  /\ FrontDrives /\ DriveIsHeard => DriveIsHeard'
                    /\ FrontDrives /\ FrontSends({"rear"}) => DriveIsHeard'
                    /\ DriveIsHeard /\ MotorIsOn => MotorIsOn'
                    /\ RearEngages => MotorIsOn'
  OBVIOUS
<1> USE DEF FrontDrives, DriveIsHeard, MotorIsOn
<1>1. rear_rx' \in {rear_rx, published} /\ (RearOwn \/ UNCHANGED rearVars)
  BY Writers DEF CalmStep
<1>2. FrontSends({"rear"}) => rear_rx' = published
  BY DEF FrontSends
<1>3. RearEngages => mode' = "DRIVE" /\ motor' = TRUE
  BY DEF RearEngages, Rear!Engage
<1>4. Precharge \/ BpsFault => mode' = mode /\ motor' = motor
  BY DEF Precharge, BpsFault, Rear!Precharged, Rear!RecordFault
<1>5. DriveIsHeard => ~RearReleases
  BY DEF RearReleases, NeutralRequests
<1>6. ~RearFaults
  BY DEF RearFaults, Rear!Latch, Rear!Cut, DriveIsKept, CalmStep, ModeIsTrue
<1> QED
  BY <1>1, <1>2, <1>3, <1>4, <1>5, <1>6 DEF RearOwn, rearVars

LEMMA DriveSettlesFront ==
  Spec /\ []BoardsAreReady /\ ResetsEnd => (<>[]DriveIsKept => <>[]FrontDrives)
<1>1. DriveIsKept => wheel_state = "DRIVE"
  BY DEF DriveIsKept
<1>2. DriveIsKept /\ ~WheelIsHeard("DRIVE")
        => (BoardsAreReady => ENABLED <<WheelSends({"front"})>>_vars)
  BY DEF DriveIsKept, WheelIsHeard, BoardsAreReady, FramesAreReady
<1>3. IInv /\ DriveIsKept /\ ~ReadyIsHeard
        => (BoardsAreReady => ENABLED <<RearSends({"steering", "front"})>>_vars)
  <2>1. IInv /\ DriveIsKept => fault = FALSE /\ ready = TRUE
    BY DEF IInv, TypeOK, DriveIsKept
  <2> QED
    BY <2>1 DEF ReadyIsHeard, BoardsAreReady, FramesAreReady
<1>4. ReadyIsHeard /\ ~FrontDrives => (BoardsAreReady => ENABLED <<FrontStep>>_vars)
  BY DEF ReadyIsHeard, BoardsAreReady, FrontIsReady
<1>5. CalmStep /\ wheel_state = "DRIVE" =>
        /\ WheelIsHeard("DRIVE") => WheelIsHeard("DRIVE")'
        /\ <<WheelSends({"front"})>>_vars => WheelIsHeard("DRIVE")'
  BY WheelGetsThrough
<1>6. /\ DriveNearer(5, 4) /\ DriveNearer(4, 3) /\ DriveNearer(3, 2) /\ DriveNearer(2, 1)
      /\ DriveNearer(1, 0)
  BY DriveStep
<1>7. ~FrontDrives => DriveWithin(5)
  BY DEF DriveWithin, DriveLeft
<1>8. DriveWithin(5) \/ DriveWithin(4) \/ DriveWithin(3) \/ DriveWithin(2) \/ DriveWithin(1)
        => ~FrontDrives
  BY DEF DriveWithin
<1>9. ~DriveWithin(0)
  BY DEF DriveWithin, DriveLeft
<1> QED
  BY VehicleInvariant, ModeAlwaysTrue, DriveStays, ReadyGetsThrough, <1>1, <1>2, <1>3, <1>4, <1>5,
     <1>6, <1>7, <1>8, <1>9, PTL
  DEF Spec, Safety, Fairness, ResetsEnd, CalmStep, DriveNearer

\* With the bus precharged, no fault, the pedal up and the wheel in DRIVE the motor
\* is connected in the end.
LEMMA VehicleDrives == Spec /\ []BoardsAreReady /\ ResetsEnd => DriveReachesMotor
<1>1. FrontDrives /\ ~DriveIsHeard => (BoardsAreReady => ENABLED <<FrontSends({"rear"})>>_vars)
  BY DEF FrontDrives, DriveIsHeard, BoardsAreReady, FramesAreReady
<1>2. IInv /\ ModeIsTrue /\ DriveIsKept /\ DriveIsHeard /\ ~MotorIsOn
        => (BoardsAreReady => ENABLED <<RearEngages>>_vars)
  BY DEF DriveIsKept, DriveIsHeard, MotorIsOn, ModeIsTrue, BoardsAreReady, RearIsReady,
         DriveRequests, IInv, TypeOK, Rear!Modes
<1>3. FrontDrives /\ MotorIsOn => front_state = "DRIVE" /\ motor
  BY DEF FrontDrives, MotorIsOn
<1>4. DriveIsKept <=> wheel_state = "DRIVE" /\ ready /\ ~fault /\ ~brake
  BY DEF DriveIsKept
<1> QED
  BY VehicleInvariant, ModeAlwaysTrue, DriveSettlesFront, DriveMovesRear, <1>1, <1>2, <1>3, <1>4,
     PTL
  DEF Spec, Safety, Fairness, ResetsEnd, CalmStep, DriveReachesMotor

\* Through losses, delays and resets the contactor ends up where the wheel wants
\* it: with boards that are never blocked.
THEOREM VehicleFollows == Spec /\ []BoardsAreReady /\ ResetsEnd => MotorFollowsWheel
BY VehicleNeutral, VehicleDrives, PTL DEF MotorFollowsWheel
=============================================================================
