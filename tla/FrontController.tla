--------------------------- MODULE FrontController --------------------------
(***************************************************************************)
(* The front controller board: the vehicle state machine between the       *)
(* driver (pedals, steering wheel), the rear controller and the motor      *)
(* controller.                                                             *)
(*                                                                         *)
(*   fast   (priority 4)  CAN receive, pedals, motor command; never blocks *)
(*                        and nothing preempts it, so a cycle is one step  *)
(*   medium (priority 3)  the state machine; fast preempts it between any  *)
(*                        two statements, so each of its reads of shared   *)
(*                        state is a step, and it sleeps 40 ms after every *)
(*                        load switch it moves                             *)
(*                                                                         *)
(* The turn signals and the blinking of the BPS light are FrontLights.     *)
(* The current sensing of the 1 Hz task shares no state with the above.    *)
(***************************************************************************)
EXTENDS Integers

CONSTANTS
  AccelReadings,    \* filtered accelerator pedal, in percent
  BrakeReadings,    \* filtered brake pedal, in percent
  MotorVelocities,  \* velocities the Wavesculptor reports
  BrakeDeadzone,    \* brake_pedal_deadzone, in percent
  StoppingThreshold,\* REGEN_BRAKE_STOPPING_THRESHOLD
  MaxVelocity       \* WS22_CONTROLLER_MAX_VELOCITY

ASSUME FrontAssumption ==
  /\ AccelReadings \subseteq 0..100
  /\ BrakeReadings \subseteq -100..100
  /\ MotorVelocities \subseteq Int
  /\ BrakeDeadzone \in 0..99
  /\ StoppingThreshold \in Nat
  /\ MaxVelocity \in Nat \ {0}

VARIABLES
  can,                 \* last values received: [bps, precharge, drive]
  brake_state,         \* storage: brake pedal as the fast task sees it
  control,             \* storage: motor command, sent every fast cycle
  current_drive_state, \* storage and CAN: the published drive state
  s_current_state,     \* the state machine's state
  started,             \* the first medium cycle has run
  s_brake_state,       \* brake pedal as the state machine sees it
  local,               \* inputs of this medium cycle: [precharge, drive]
  target,              \* state being entered
  next,                \* statement after the entry
  pc,                  \* the medium task's next statement
  output,              \* load switches that are on
  bps_light            \* the BPS light has been asked to blink

fastVars   == <<can, brake_state, control>>
stateVars  == <<s_current_state, started>>
entryVars  == <<target, next>>
mediumVars == <<current_drive_state, stateVars, s_brake_state, local,
                entryVars, pc, output, bps_light>>

vars == <<fastVars, mediumVars>>

VehicleDriveState ==
  {"INVALID", "NEUTRAL", "DRIVE", "REVERSE", "CRUISE", "BRAKE", "REGEN", "FAULT"}

\* The states the machine can be in, and those with the accelerator live.
States  == {"NEUTRAL", "DRIVE", "REVERSE", "BRAKE", "REGEN", "FAULT"}
Driving == {"DRIVE", "REVERSE"}

\* The drive_state field of steering_buttons has two bits.
SteeringStates == {"INVALID", "NEUTRAL", "DRIVE", "REVERSE"}

\* The outputs the machine moves; IDLE stands for the three of its group.
Outputs    == {"IDLE", "SPARE_1", "DRIVER_FAN", "BRAKE_LIGHT", "HORN"}
Indicators == {"SPARE_1", "DRIVER_FAN"}

NoTorque == [current |-> 0, velocity |-> 0]

-----------------------------------------------------------------------------
\* The motor command of a fast cycle.
Abs(n) == IF n < 0 THEN -n ELSE n

\* regen_brake_run, in percent: negative once the pedal is in its dead zone.
RegenStrength(brake) ==
  LET pedal == ((brake - BrakeDeadzone) * 100) \div (100 - BrakeDeadzone)
  IN  IF pedal >= 50 THEN 100 ELSE 2 * pedal

\* Mutant: the current setter takes any value.
RegenCommand_Unchecked(brake, velocity) ==
  IF Abs(velocity) < StoppingThreshold \/ RegenStrength(brake) = 0
  THEN NoTorque
  ELSE [current  |-> RegenStrength(brake),
        velocity |-> IF velocity > 0 THEN -MaxVelocity ELSE MaxVelocity]

\* The current setter refuses what is not in 0..100 and leaves the old value.
RegenCommand(brake, velocity) ==
  IF Abs(velocity) < StoppingThreshold \/ RegenStrength(brake) = 0
  THEN NoTorque
  ELSE [current  |-> IF RegenStrength(brake) < 0 THEN control.current ELSE RegenStrength(brake),
        velocity |-> IF velocity > 0 THEN -MaxVelocity ELSE MaxVelocity]

\* INVALID and FAULT return early: the old command stays and is sent again.
Command(accel, brake, velocity) ==
  CASE current_drive_state = "DRIVE"   -> [current |-> accel, velocity |-> -MaxVelocity]
    [] current_drive_state = "REVERSE" -> [current |-> accel, velocity |-> MaxVelocity]
    [] current_drive_state \in {"BRAKE", "NEUTRAL"} -> NoTorque
    [] current_drive_state = "REGEN"   -> RegenCommand(brake, velocity)
    [] OTHER                           -> control

Cycle(received, accel, brake, velocity) ==
  /\ can' = received
  /\ brake_state' = IF brake > BrakeDeadzone THEN "BRAKING" ELSE "DISABLED"
  /\ control' = Command(accel, brake, velocity)
  /\ UNCHANGED mediumVars

FastCycle ==
  \E received \in [bps : BOOLEAN, precharge : BOOLEAN, drive : SteeringStates],
     accel \in AccelReadings, brake \in BrakeReadings, velocity \in MotorVelocities :
    Cycle(received, accel, brake, velocity)

-----------------------------------------------------------------------------
\* State entry: indicators off, the state's own load switches on, and only
\* then the new state, with the task asleep after every switch.
Goto(statement) == pc' = statement /\ UNCHANGED entryVars

\* The indicator that each state's output group adds to the idle outputs.
GroupOf(state) ==
  CASE state = "DRIVE"   -> {"IDLE", "SPARE_1"}
    [] state = "REVERSE" -> {"IDLE", "DRIVER_FAN"}
    [] OTHER             -> {"IDLE"}

\* REVERSE tests for DRIVE instead of itself (line 76), so coming from DRIVE no
\* switch moves.  FAULT leaves the indicators alone.
Enter(state, statement) ==
  \/ /\ s_current_state = "DRIVE" /\ state = "REVERSE"
     /\ s_current_state' = state
     /\ Goto(statement)
     /\ UNCHANGED output
  \/ /\ ~(s_current_state = "DRIVE" /\ state = "REVERSE")
     /\ output' = IF state = "FAULT" THEN output ELSE output \ Indicators
     /\ pc' = "group" /\ target' = state /\ next' = statement
     /\ UNCHANGED s_current_state

\* A request for the present state is ignored, and FAULT ignores every request.
Request(state, statement) ==
  IF s_current_state = "FAULT" \/ state = s_current_state
  THEN Goto(statement) /\ UNCHANGED <<s_current_state, output>>
  ELSE Enter(state, statement)

EnterGroup ==
  /\ pc = "group"
  /\ output' = output \union GroupOf(target)
  /\ Goto("entered")
  /\ UNCHANGED <<stateVars, current_drive_state, s_brake_state, local, bps_light>>

Entered ==
  /\ pc = "entered"
  /\ s_current_state' = target
  /\ started' = TRUE
  /\ Goto(next)
  /\ UNCHANGED <<current_drive_state, s_brake_state, local, output, bps_light>>

-----------------------------------------------------------------------------
\* The medium cycle, in the order of its statements.
FirstCycle ==
  /\ pc = "wait"
  /\ ~started
  /\ Enter(s_current_state, "wait")
  /\ UNCHANGED <<started, current_drive_state, s_brake_state, local, bps_light>>

\* Mutant: the state is published only when it is a driving state.
Publish_DrivingOnly ==
  /\ pc = "wait"
  /\ started
  /\ current_drive_state' = IF s_current_state \in Driving THEN s_current_state
                                                          ELSE current_drive_state
  /\ Goto("fault")
  /\ UNCHANGED <<stateVars, s_brake_state, local, output, bps_light>>

Publish ==
  /\ pc = "wait"
  /\ started
  /\ current_drive_state' = s_current_state
  /\ Goto("fault")
  /\ UNCHANGED <<stateVars, s_brake_state, local, output, bps_light>>

\* A BPS fault ends the cycle: pedals, horn and lights are not looked at.
SeeFault ==
  /\ pc = "fault"
  /\ can.bps
  /\ bps_light' = TRUE
  /\ Request("FAULT", "wait")
  /\ UNCHANGED <<started, current_drive_state, s_brake_state, local>>

SeeNoFault ==
  /\ pc = "fault"
  /\ ~can.bps
  /\ Goto("precharge")
  /\ UNCHANGED <<stateVars, current_drive_state, s_brake_state, local, output, bps_light>>

ReadPrecharge ==
  /\ pc = "precharge"
  /\ local' = [local EXCEPT !.precharge = can.precharge]
  /\ Goto("steering")
  /\ UNCHANGED <<stateVars, current_drive_state, s_brake_state, output, bps_light>>

\* In FAULT without a fault the BPS light is switched off (40 ms) and the
\* machine reset; the cycle then goes on.
ReadSteering ==
  /\ pc = "steering"
  /\ local' = [local EXCEPT !.drive = can.drive]
  /\ Goto(IF s_current_state = "FAULT" THEN "reset" ELSE "brake")
  /\ UNCHANGED <<stateVars, current_drive_state, s_brake_state, output, bps_light>>

\* Mutant: the reset goes straight to the driver's choice.
Reset_IntoChoice ==
  /\ pc = "reset"
  /\ bps_light' = FALSE
  /\ Enter(IF local.precharge /\ local.drive \in Driving THEN local.drive ELSE "NEUTRAL", "brake")
  /\ UNCHANGED <<started, current_drive_state, s_brake_state, local>>

Reset ==
  /\ pc = "reset"
  /\ bps_light' = FALSE
  /\ Enter("NEUTRAL", "brake")
  /\ UNCHANGED <<started, current_drive_state, s_brake_state, local>>

\* The brake edges compare the machine's view of the pedal with the storage,
\* which the fast task rewrites meanwhile; it is read again after each sleep.
BrakeReleased ==
  /\ pc = "brake"
  /\ s_brake_state = "BRAKING" /\ brake_state = "DISABLED"
  /\ output' = output \ {"BRAKE_LIGHT"}
  /\ Goto("released")
  /\ UNCHANGED <<stateVars, current_drive_state, s_brake_state, local, bps_light>>

BrakePressed ==
  /\ pc = "brake"
  /\ s_brake_state = "DISABLED" /\ brake_state = "BRAKING"
  /\ output' = output \union {"BRAKE_LIGHT"}
  /\ Goto("pressed")
  /\ UNCHANGED <<stateVars, current_drive_state, s_brake_state, local, bps_light>>

BrakeSteady ==
  /\ pc = "brake"
  /\ s_brake_state = brake_state
  /\ Goto("choose")
  /\ UNCHANGED <<stateVars, current_drive_state, s_brake_state, local, output, bps_light>>

\* Mutant: the machine does not note the release.
ReleaseDone_NotNoted ==
  /\ pc = "released"
  /\ Goto("choose")
  /\ UNCHANGED <<s_brake_state, stateVars, current_drive_state, local, output, bps_light>>

ReleaseDone ==
  /\ pc = "released"
  /\ s_brake_state' = "DISABLED"
  /\ Goto("choose")
  /\ UNCHANGED <<stateVars, current_drive_state, local, output, bps_light>>

\* Mutant: a pedal that is up again by now is not taken as pressed.
EnterBraking_IfStillDown ==
  /\ pc = "pressed"
  /\ IF brake_state = "BRAKING"
     THEN \E regen \in BOOLEAN : Request(IF regen THEN "REGEN" ELSE "BRAKE", "braking")
     ELSE Goto("braking") /\ UNCHANGED <<s_current_state, output>>
  /\ UNCHANGED <<started, current_drive_state, s_brake_state, local, bps_light>>

\* REGEN needs the regen button and the pedal still down after the 40 ms.
EnterBraking ==
  /\ pc = "pressed"
  /\ \E regen \in BOOLEAN :
       Request(IF regen /\ brake_state = "BRAKING" THEN "REGEN" ELSE "BRAKE", "braking")
  /\ UNCHANGED <<started, current_drive_state, s_brake_state, local, bps_light>>

BrakingDone ==
  /\ pc = "braking"
  /\ s_brake_state' = "BRAKING"
  /\ Goto("choose")
  /\ UNCHANGED <<stateVars, current_drive_state, local, output, bps_light>>

\* Mutant: only the storage is consulted.
BrakesOff_StorageOnly == brake_state = "DISABLED"

BrakesOff == s_brake_state = "DISABLED" /\ brake_state = "DISABLED"

\* Precharge must be complete for a driving state.
MayDrive == local.drive \in Driving /\ local.precharge

\* The driver's choice counts only with the brake off in both views.
Choose ==
  /\ pc = "choose"
  /\ IF BrakesOff /\ (MayDrive \/ local.drive = "NEUTRAL")
     THEN Request(local.drive, "tail")
     ELSE Goto("tail") /\ UNCHANGED <<s_current_state, output>>
  /\ UNCHANGED <<started, current_drive_state, s_brake_state, local, bps_light>>

\* Horn and turn signals follow the steering wheel, each with its sleeps.
Horn ==
  /\ pc = "tail"
  /\ \/ UNCHANGED output
     \/ output' = output \union {"HORN"}
     \/ output' = output \ {"HORN"}
  /\ Goto("wait")
  /\ UNCHANGED <<stateVars, current_drive_state, s_brake_state, local, bps_light>>

MediumStep ==
  /\ \/ FirstCycle \/ Publish \/ SeeFault \/ SeeNoFault \/ ReadPrecharge
     \/ ReadSteering \/ Reset \/ BrakeReleased \/ BrakePressed \/ BrakeSteady
     \/ ReleaseDone \/ EnterBraking \/ BrakingDone \/ Choose \/ Horn
     \/ EnterGroup \/ Entered
  /\ UNCHANGED fastVars

-----------------------------------------------------------------------------
\* front_controller_init, before the scheduler starts.
Init ==
  /\ can = [bps |-> FALSE, precharge |-> FALSE, drive |-> "INVALID"]
  /\ brake_state = "DISABLED"
  /\ control = NoTorque
  /\ current_drive_state = "INVALID"
  /\ s_current_state = "NEUTRAL"
  /\ started = FALSE
  /\ s_brake_state = "DISABLED"
  /\ local = [precharge |-> FALSE, drive |-> "INVALID"]
  /\ target = "NEUTRAL"
  /\ next = "wait"
  /\ pc = "wait"
  /\ output = {}
  /\ bps_light = FALSE

Next == FastCycle \/ MediumStep

Safety == Init /\ [][Next]_vars

\* A fast cycle on unchanged inputs: it only brings the motor command up to date.
Refresh ==
  \E accel \in AccelReadings, brake \in BrakeReadings, velocity \in MotorVelocities :
    Cycle(can, accel, brake, velocity) /\ UNCHANGED brake_state

\* Both tasks are periodic, and a fast cycle leaves the medium task time.  A
\* command that is out of date does not stay so; nothing makes an input change.
Spec == Safety /\ WF_vars(Refresh) /\ WF_vars(MediumStep)

-----------------------------------------------------------------------------
\* Every variable has its type.
TypeOK ==
  /\ can \in [bps : BOOLEAN, precharge : BOOLEAN, drive : SteeringStates]
  /\ brake_state \in {"DISABLED", "BRAKING"}
  /\ control \in [current : 0..100, velocity : {-MaxVelocity, 0, MaxVelocity}]
  /\ current_drive_state \in States \union {"INVALID"}
  /\ s_current_state \in States
  /\ started \in BOOLEAN
  /\ s_brake_state \in {"DISABLED", "BRAKING"}
  /\ local \in [precharge : BOOLEAN, drive : SteeringStates]
  /\ target \in States
  /\ next \in {"wait", "brake", "braking", "tail"}
  /\ pc \in {"wait", "fault", "precharge", "steering", "reset", "brake", "released",
             "pressed", "braking", "choose", "tail", "group", "entered"}
  /\ output \subseteq Outputs
  /\ bps_light \in BOOLEAN

Entering == pc \in {"group", "entered"}

\* While the machine holds the brake as pressed it neither is in nor is moving
\* to a state with a live accelerator, however the pedal moves under it.
BrakeHolds ==
  s_brake_state = "BRAKING" =>
    s_current_state \notin Driving /\ ~(Entering /\ target \in Driving)

\* The state the motor command is built from stops being a driving state with
\* the first publication after the machine has taken the brake.
BrakeIsPublished ==
  s_brake_state = "BRAKING" /\ pc \in {"fault", "precharge", "steering", "brake"} =>
    current_drive_state \notin Driving

\* A brake that has been taken keeps the accelerator off, in the machine and, from
\* the next publication on, in what the motor command is built from.
BrakeIsObeyed == BrakeHolds /\ BrakeIsPublished

\* A driving state is entered only with the precharge of the rear controller
\* complete ("Precharge MUST be complete in order to enter driving state").
DriveNeedsPrecharge ==
  [][s_current_state \notin Driving /\ s_current_state' \in Driving => local.precharge]_vars

\* A brake that stays down, with no BPS fault, ends the drive command: the motor
\* is left without torque unless it is regenerating, and the light is on.
BrakeStopsTorque ==
  <>[](brake_state = "BRAKING" /\ ~can.bps) =>
    <>[](/\ current_drive_state \in {"NEUTRAL", "BRAKE", "REGEN"}
         /\ current_drive_state # "REGEN" => control = NoTorque
         /\ "BRAKE_LIGHT" \in output)

\* A BPS fault that stays ends in FAULT, published on the bus and shown.
FaultIsPublished ==
  <>[]can.bps => <>[](current_drive_state = "FAULT" /\ bps_light)

\* A BPS fault that clears lets the machine out of FAULT and ends the blinking.
FaultRecovers ==
  <>[](~can.bps) => <>[](s_current_state # "FAULT" /\ ~bps_light)

\* A BPS fault ends in FAULT for as long as it is there, and no longer.
FaultIsFollowed == FaultIsPublished /\ FaultRecovers

\* With precharge done, no fault, the brake off and the wheel in DRIVE or in
\* REVERSE, the board gets there and the motor command follows.
DriveIsReached ==
  \A s \in Driving :
    <>[](brake_state = "DISABLED" /\ can = [bps |-> FALSE, precharge |-> TRUE, drive |-> s])
      => <>[](current_drive_state = s /\ control.velocity # 0)

\* What the medium task has read and not yet replaced: a fault until it looks
\* again, the pedal from one edge to the next, the rest in its locals.
SeenFault ==
  \/ Entering /\ target = "FAULT"
  \/ s_current_state = "FAULT" /\ pc \in {"wait", "fault"}

SeenPedal ==
  \/ pc \in {"pressed", "braking"}
  \/ Entering /\ next = "braking"
  \/ s_brake_state = "BRAKING" /\ pc # "released"

\* The state machine implements DriveSelector.
Selector == INSTANCE DriveSelector WITH
  state <- s_current_state, published <- current_drive_state,
  braking <- (s_brake_state = "BRAKING" \/ pc = "braking"),
  inputs <- [fault |-> can.bps, precharge |-> can.precharge, drive |-> can.drive,
             pedal |-> (brake_state = "BRAKING")],
  seen <- [fault |-> SeenFault, precharge |-> local.precharge, drive |-> local.drive,
           pedal |-> SeenPedal]

\* Whatever the fast task does between two statements, the machine changes state
\* only on what it has read, and takes brake, fault and choice as one step each.
SelectorSpec == Selector!Spec

\* motor_can.h:32 says the command is updated "based on drive state": a current
\* goes out only in a state that drives or regenerates.
CommandFollowsState ==
  [][fastVars' # fastVars /\ control'.current > 0
       => current_drive_state \in Driving \union {"REGEN"}]_vars
=============================================================================
