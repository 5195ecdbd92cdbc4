------------------------------- MODULE Vehicle ------------------------------
(***************************************************************************)
(* The three boards that decide whether the motor is connected, and the    *)
(* CAN messages between them:                                              *)
(*                                                                         *)
(*   steering --drive_state--> front --drive_status--> rear                *)
(*   steering <------- rear_controller_status -------- rear                *)
(*                             front <---------------- rear                *)
(*                                                                         *)
(* Each board is seen at the grain of its 300 ms cycle (the tasks inside a *)
(* board are Steering, FrontController and RearController), the rear board *)
(* through the PowerInterlock it implements.  A frame is sent once, without *)
(* retransmission, and a receiver whose queue is full drops it: any subset *)
(* of the receivers gets it, and each works on the last value it has got   *)
(* (none of these has a watchdog).  A board may be reset at any time.      *)
(***************************************************************************)
EXTENDS Naturals

CONSTANTS
  Requests,     \* drive buttons the driver uses, among "N", "D", "R"
  Resettable,   \* boards that may be reset
  MaxResets     \* bound: resets of all of them together

ASSUME VehicleAssumption ==
  /\ Requests \subseteq {"N", "D", "R"}
  /\ Resettable \subseteq {"steering", "front", "rear"}
  /\ MaxResets \in Nat

VARIABLES
  wheel_state,    \* steering: drive state shown and sent
  wheel_rx,       \* steering: last rear status received
  front_state,    \* front: s_current_state
  published,      \* front: drive state in its CAN message
  front_brake,    \* front: s_brake_state is BRAKING
  front_pc,       \* front: where its cycle is
  front_rx,       \* front: last rear status, and last drive state of the wheel
  front_steer,
  brake,          \* the brake pedal is down
  mode, ready, fault, motor,  \* rear: see PowerInterlock
  rear_rx,        \* rear: last drive state received from the front board
  asked,          \* the driver has asked for torque since power-up (history)
  resets,         \* resets so far, of any board (history)
  rear_reset      \* the rear board has been one of them (history)

Rear == INSTANCE PowerInterlock

frontVars == <<front_state, published, front_brake, front_pc>>
rxVars    == <<wheel_rx, front_rx, front_steer, rear_rx>>
rearVars  == <<mode, ready, fault, motor>>

history == <<asked, resets, rear_reset>>

vars == <<wheel_state, frontVars, rxVars, rearVars, brake, history>>

Driving == {"DRIVE", "REVERSE"}
StateOf(r) == CASE r = "N" -> "NEUTRAL" [] r = "D" -> "DRIVE" [] r = "R" -> "REVERSE"

NoStatus == [fault |-> FALSE, ready |-> FALSE]

Init ==
  /\ wheel_state = "INVALID" /\ wheel_rx = NoStatus
  /\ front_state = "NEUTRAL" /\ published = "INVALID" /\ front_brake = FALSE
  /\ front_pc = "first" /\ front_rx = NoStatus /\ front_steer = "INVALID"
  /\ Rear!Init /\ rear_rx = "INVALID"
  /\ brake = FALSE /\ asked = FALSE
  /\ resets = 0 /\ rear_reset = FALSE
-----------------------------------------------------------------------------
(* The driver's pedal. *)

MoveBrake ==
  /\ brake' = ~brake
  /\ UNCHANGED <<wheel_state, frontVars, rxVars, rearVars, history>>
-----------------------------------------------------------------------------
(* The steering board. *)

MayDrive == ~wheel_rx.fault /\ wheel_rx.ready

\* The request a button has left since the last cycle (or the one for neutral
\* that start-up leaves) is served: taken, or refused for good.
WheelCycle(r) ==
  /\ wheel_state # StateOf(r)
  /\ wheel_state' = IF r = "N" \/ MayDrive THEN StateOf(r) ELSE wheel_state
  /\ asked' = (asked \/ r # "N")
  /\ UNCHANGED <<frontVars, rxVars, rearVars, brake, resets, rear_reset>>

\* The rear board is a receiver of this message too and ignores it.
WheelSends(receivers) ==
  /\ front_steer' = IF "front" \in receivers THEN wheel_state ELSE front_steer
  /\ UNCHANGED <<wheel_state, frontVars, wheel_rx, front_rx, rear_rx, rearVars,
                 brake, history>>
-----------------------------------------------------------------------------
(* The front board. *)

FrontFirst ==
  /\ front_pc = "first"
  /\ front_pc' = "begin"
  /\ UNCHANGED <<wheel_state, front_state, published, front_brake, rxVars, rearVars,
                 brake, history>>

\* Mutant: the fault report only sets the BPS light.
FrontBegin_LightOnly ==
  /\ front_pc = "begin"
  /\ published' = front_state
  /\ front_pc' = "finish"
  /\ UNCHANGED <<wheel_state, front_state, front_brake, rxVars, rearVars, brake, history>>

\* Publish the state, and look at the BPS fault: with one the cycle ends.
FrontBegin ==
  /\ front_pc = "begin"
  /\ published' = front_state
  /\ IF front_rx.fault
     THEN front_state' = "FAULT" /\ UNCHANGED front_pc
     ELSE front_pc' = "finish" /\ UNCHANGED front_state
  /\ UNCHANGED <<wheel_state, front_brake, rxVars, rearVars, brake, history>>

\* Mutant: whatever the wheel's message holds is taken, once precharged.
FrontFinish_Unchecked(regen) ==
  LET start == IF front_state = "FAULT" THEN "NEUTRAL" ELSE front_state
  IN  /\ front_brake' = brake
      /\ front_state' =
           CASE brake /\ ~front_brake -> IF regen THEN "REGEN" ELSE "BRAKE"
             [] ~brake /\ (front_steer = "NEUTRAL" \/ front_rx.ready) -> front_steer
             [] OTHER -> start

\* A pedal that has gone down is BRAKE or REGEN; with the pedal up the wheel
\* decides, and driving needs precharge.
FrontFinish(regen) ==
  LET start == IF front_state = "FAULT" THEN "NEUTRAL" ELSE front_state
  IN  /\ front_brake' = brake
      /\ front_state' =
           CASE brake /\ ~front_brake -> IF regen THEN "REGEN" ELSE "BRAKE"
             [] ~brake /\ (front_steer = "NEUTRAL" \/ (front_steer \in Driving /\ front_rx.ready))
                -> front_steer
             [] OTHER -> start

FrontEnd ==
  /\ front_pc = "finish"
  /\ front_pc' = "begin"
  /\ \E regen \in BOOLEAN : FrontFinish(regen)
  /\ asked' = (asked \/ front_state' = "REGEN")
  /\ UNCHANGED <<wheel_state, published, rxVars, rearVars, brake, resets, rear_reset>>

FrontStep == FrontFirst \/ FrontBegin \/ FrontEnd

\* The steering board is a receiver of this message too: for cruise control.
FrontSends(receivers) ==
  /\ rear_rx' = IF "rear" \in receivers THEN published ELSE rear_rx
  /\ UNCHANGED <<wheel_state, frontVars, wheel_rx, front_rx, front_steer, rearVars,
                 brake, history>>
-----------------------------------------------------------------------------
(* The rear board: the interlock, driven by the state last received. *)

DriveRequests   == {"DRIVE", "CRUISE", "REVERSE", "REGEN"}
NeutralRequests == {"NEUTRAL", "FAULT"}

RearUnchanged ==
  UNCHANGED <<wheel_state, frontVars, rxVars, brake, history>>

Precharge == Rear!Precharged /\ RearUnchanged
BpsFault  == Rear!RecordFault /\ RearUnchanged

\* Mutant: the rear board engages without being asked.
RearEngages_Unasked == Rear!Engage /\ RearUnchanged

RearEngages == rear_rx \in DriveRequests /\ Rear!Engage /\ RearUnchanged

\* Mutant: only a fault of the front board is taken as a request for neutral.
RearReleases_OnFault == rear_rx = "FAULT" /\ Rear!Release /\ RearUnchanged

RearReleases == rear_rx \in NeutralRequests /\ Rear!Release /\ RearUnchanged

RearFaults == (Rear!Latch \/ Rear!Cut) /\ RearUnchanged

\* Mutant: the precharge bit is set in the first frame already.
RearSends_Ready(receivers) ==
  LET status == [fault |-> fault, ready |-> TRUE]
  IN  /\ wheel_rx' = IF "steering" \in receivers THEN status ELSE wheel_rx
      /\ front_rx' = IF "front" \in receivers THEN status ELSE front_rx
      /\ UNCHANGED <<wheel_state, frontVars, front_steer, rear_rx, rearVars, brake, history>>

\* Mutant: the fault bit is sent until the fault state is entered, not kept.
RearSends_FaultOnce(receivers) ==
  LET status == [fault |-> fault /\ mode # "FAULT", ready |-> ready]
  IN  /\ wheel_rx' = IF "steering" \in receivers THEN status ELSE wheel_rx
      /\ front_rx' = IF "front" \in receivers THEN status ELSE front_rx
      /\ UNCHANGED <<wheel_state, frontVars, front_steer, rear_rx, rearVars, brake, history>>

\* Fault and precharge are reported in one message.
RearSends(receivers) ==
  LET status == [fault |-> fault, ready |-> ready]
  IN  /\ wheel_rx' = IF "steering" \in receivers THEN status ELSE wheel_rx
      /\ front_rx' = IF "front" \in receivers THEN status ELSE front_rx
      /\ UNCHANGED <<wheel_state, frontVars, front_steer, rear_rx, rearVars, brake, history>>
-----------------------------------------------------------------------------
(* Resets: what the board had received is gone, its last frames are not. *)

Count(b) ==
  /\ b \in Resettable
  /\ resets < MaxResets
  /\ resets' = resets + 1
  /\ rear_reset' = (rear_reset \/ b = "rear")

ResetSteering ==
  /\ Count("steering")
  /\ wheel_state' = "INVALID" /\ wheel_rx' = NoStatus
  /\ UNCHANGED <<frontVars, front_rx, front_steer, rear_rx, rearVars, brake, asked>>

ResetFront ==
  /\ Count("front")
  /\ front_state' = "NEUTRAL" /\ published' = "INVALID" /\ front_brake' = FALSE
  /\ front_pc' = "first" /\ front_rx' = NoStatus /\ front_steer' = "INVALID"
  /\ UNCHANGED <<wheel_state, wheel_rx, rear_rx, rearVars, brake, asked>>

\* The contactors open, and the fault word is not kept.
ResetRear ==
  /\ Count("rear")
  /\ mode' = "START" /\ ready' = FALSE /\ fault' = FALSE /\ motor' = FALSE
  /\ rear_rx' = "INVALID"
  /\ UNCHANGED <<wheel_state, frontVars, wheel_rx, front_rx, front_steer, brake, asked>>
-----------------------------------------------------------------------------
Next ==
  \/ MoveBrake
  \/ \E r \in Requests : WheelCycle(r)
  \/ FrontStep
  \/ Precharge \/ BpsFault \/ RearEngages \/ RearReleases \/ RearFaults
  \/ WheelSends({"front"})
  \/ FrontSends({"rear"})
  \/ \E receivers \in SUBSET {"steering", "front"} : RearSends(receivers)
  \/ ResetSteering \/ ResetFront \/ ResetRear

Safety == Init /\ [][Next]_vars

\* Every board runs its periodic cycles, and a frame that is sent again and
\* again with the same content is received in the end; whether the motor bus
\* is ever precharged, a fault ever raised or a button ever served is open.
Fairness ==
  /\ WF_vars(FrontStep)
  /\ WF_vars(RearEngages) /\ WF_vars(RearReleases) /\ WF_vars(RearFaults)
  /\ WF_vars(WheelSends({"front"})) /\ WF_vars(FrontSends({"rear"}))
  /\ WF_vars(RearSends({"steering", "front"}))

Spec == Safety /\ Fairness
-----------------------------------------------------------------------------
WheelStates == {"INVALID", "NEUTRAL", "DRIVE", "REVERSE"}
FrontStates == {"NEUTRAL", "DRIVE", "REVERSE", "BRAKE", "REGEN", "FAULT"}
Statuses    == [fault : BOOLEAN, ready : BOOLEAN]

\* Type invariant.
TypeOK ==
  /\ wheel_state \in WheelStates
  /\ wheel_rx \in Statuses /\ front_rx \in Statuses
  /\ front_state \in FrontStates
  /\ published \in FrontStates \union {"INVALID"}
  /\ rear_rx \in FrontStates \union {"INVALID"}
  /\ front_pc \in {"first", "begin", "finish"}
  /\ front_steer \in WheelStates
  /\ front_brake \in BOOLEAN /\ brake \in BOOLEAN
  /\ mode \in Rear!Modes
  /\ ready \in BOOLEAN /\ fault \in BOOLEAN /\ motor \in BOOLEAN
  /\ asked \in BOOLEAN /\ rear_reset \in BOOLEAN
  /\ resets \in 0..MaxResets

\* The steering wheel shows a driving state, and the front board takes one,
\* only with the motor bus precharged: what they believe, on frames that may be
\* lost and across resets of their own, is never ahead of the rear board (until
\* that one is reset).
DrivingNeedsPrecharge ==
  ~rear_reset /\ (wheel_state \in Driving \/ front_state \in Driving) => ready

\* The motor is connected only if the driver has pressed D or R or has braked
\* with regeneration since the car was switched on: whatever is lost, delayed or
\* reset, no board connects it on its own.  (Braking does it in neutral too: the
\* front board's REGEN is a request for drive to the rear board.)
MotorNeedsDriver == motor => asked

\* The front board does not leave FAULT under a fault that stays: what reaches
\* it late or not at all cannot clear it; only a reset, its own or the rear
\* board's, does.
FaultIsHeld ==
  [][ /\ ~rear_reset /\ resets' = resets
      /\ front_state = "FAULT"
      => front_state' = "FAULT" ]_vars

\* A wheel that stays in neutral with the pedal up opens the motor contactor,
\* whatever was lost or reset before.
NeutralOpensMotor ==
  <>[](wheel_state = "NEUTRAL" /\ ~brake) => <>[]~motor

\* A BPS fault that stays reaches the front board, across losses and resets, and
\* the motor is cut.
FaultReachesFront ==
  <>[]fault => <>[](front_state = "FAULT" /\ mode = "FAULT" /\ ~motor)

\* With the bus precharged, no fault, the pedal up and the wheel in DRIVE the
\* motor is connected in the end.
DriveReachesMotor ==
  <>[](wheel_state = "DRIVE" /\ ready /\ ~fault /\ ~brake)
    => <>[](front_state = "DRIVE" /\ motor)

\* Through losses, delays and resets, the motor contactor ends up where the wheel
\* wants it.
MotorFollowsWheel == NeutralOpensMotor /\ DriveReachesMotor
=============================================================================
