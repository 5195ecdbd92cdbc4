------------------------ MODULE FrontControllerProofs -----------------------
(***************************************************************************)
(* Proofs about FrontController, for every value of its constants.         *)
(***************************************************************************)
EXTENDS FrontController, TLAPS

-----------------------------------------------------------------------------
\* Type correctness.  The regenerative current is the only computed value: it
\* is used when it is positive, and bounded by construction.
LEMMA StrengthBound ==
  ASSUME NEW brake \in Int
  PROVE  RegenStrength(brake) \in Int /\ RegenStrength(brake) <= 100
<1> DEFINE pedal == ((brake - BrakeDeadzone) * 100) \div (100 - BrakeDeadzone)
<1>1. 100 - BrakeDeadzone \in Int /\ 100 - BrakeDeadzone > 0
  BY FrontAssumption
<1>2. pedal \in Int
  BY <1>1, FrontAssumption
<1> HIDE DEF pedal
<1>3. (IF pedal >= 50 THEN 100 ELSE 2 * pedal) \in Int
      /\ (IF pedal >= 50 THEN 100 ELSE 2 * pedal) <= 100
  BY <1>2
<1> QED
  BY <1>3 DEF RegenStrength, pedal

CommandSet == [current : 0..100, velocity : {-MaxVelocity, 0, MaxVelocity}]

LEMMA CommandType ==
  ASSUME TypeOK, NEW accel \in 0..100, NEW brake \in Int, NEW velocity \in Int
  PROVE  Command(accel, brake, velocity) \in CommandSet
<1>1. control \in CommandSet
  BY DEF TypeOK, CommandSet
<1>2. NoTorque \in CommandSet
  BY DEF NoTorque, CommandSet
<1>3. RegenCommand(brake, velocity) \in CommandSet
  <2> DEFINE s == RegenStrength(brake)
  <2>1. s \in Int /\ s <= 100
    BY StrengthBound
  <2> HIDE DEF s
  <2>2. (IF s < 0 THEN control.current ELSE s) \in 0..100
    BY <1>1, <2>1 DEF CommandSet
  <2>3. (IF velocity > 0 THEN -MaxVelocity ELSE MaxVelocity) \in {-MaxVelocity, 0, MaxVelocity}
    OBVIOUS
  <2>4. [current  |-> IF s < 0 THEN control.current ELSE s,
         velocity |-> IF velocity > 0 THEN -MaxVelocity ELSE MaxVelocity] \in CommandSet
    BY <2>2, <2>3 DEF CommandSet
  <2> QED
    BY <1>2, <2>4 DEF RegenCommand, s
<1>4. [current |-> accel, velocity |-> -MaxVelocity] \in CommandSet
      /\ [current |-> accel, velocity |-> MaxVelocity] \in CommandSet
  BY DEF CommandSet
<1> HIDE DEF CommandSet
<1> QED
  BY <1>1, <1>2, <1>3, <1>4 DEF Command

LEMMA InitType == Init => TypeOK
<1> SUFFICES ASSUME Init PROVE TypeOK
  OBVIOUS
<1>1. control \in [current : 0..100, velocity : {-MaxVelocity, 0, MaxVelocity}]
  BY DEF Init, NoTorque
<1>2. /\ can \in [bps : BOOLEAN, precharge : BOOLEAN, drive : SteeringStates]
      /\ local \in [precharge : BOOLEAN, drive : SteeringStates]
  BY DEF Init, SteeringStates
<1> QED
  BY <1>1, <1>2 DEF Init, TypeOK, States

LEMMA FastType == TypeOK /\ FastCycle => TypeOK'
<1> SUFFICES ASSUME TypeOK, FastCycle PROVE TypeOK'
  OBVIOUS
<1>1. PICK received \in [bps : BOOLEAN, precharge : BOOLEAN, drive : SteeringStates],
           accel \in AccelReadings, brake \in BrakeReadings, velocity \in MotorVelocities :
             Cycle(received, accel, brake, velocity)
  BY DEF FastCycle
<1>2. accel \in 0..100 /\ brake \in Int /\ velocity \in Int
  BY FrontAssumption
<1>3. control' \in CommandSet
  BY <1>1, <1>2, CommandType DEF Cycle
<1>4. brake_state' \in {"DISABLED", "BRAKING"}
  BY <1>1 DEF Cycle
<1> QED
  BY <1>1, <1>3, <1>4 DEF TypeOK, CommandSet, Cycle, mediumVars, stateVars, entryVars

\* What the entry of a state and a request leave behind.
LEMMA EnterType ==
  ASSUME TypeOK, NEW state \in States,
         NEW statement \in {"wait", "brake", "braking", "tail"}, Enter(state, statement)
  PROVE  /\ s_current_state' \in States
         /\ output' \subseteq Outputs
         /\ target' \in States /\ next' \in {"wait", "brake", "braking", "tail"}
         /\ pc' \in {statement, "group"}
  BY DEF Enter, Goto, entryVars, TypeOK

LEMMA RequestType ==
  ASSUME TypeOK, NEW state \in States,
         NEW statement \in {"wait", "brake", "braking", "tail"}, Request(state, statement)
  PROVE  /\ s_current_state' \in States
         /\ output' \subseteq Outputs
         /\ target' \in States /\ next' \in {"wait", "brake", "braking", "tail"}
         /\ pc' \in {statement, "group"}
  BY EnterType DEF Request, Goto, entryVars, TypeOK

LEMMA MediumType == TypeOK /\ MediumStep => TypeOK'
<1> SUFFICES ASSUME TypeOK, MediumStep PROVE TypeOK'
  OBVIOUS
<1> USE DEF TypeOK, fastVars, stateVars
<1>0. UNCHANGED fastVars
  BY DEF MediumStep
<1>1. CASE FirstCycle
  BY <1>0, <1>1, EnterType DEF FirstCycle
<1>2. CASE Publish
  BY <1>0, <1>2 DEF Publish, Goto, entryVars
<1>3. CASE SeeFault
  <2>1. "FAULT" \in States
    BY DEF States
  <2> QED
    BY <1>0, <1>3, <2>1, RequestType DEF SeeFault
<1>4. CASE SeeNoFault
  BY <1>0, <1>4 DEF SeeNoFault, Goto, entryVars
<1>5. CASE ReadPrecharge
  BY <1>0, <1>5 DEF ReadPrecharge, Goto, entryVars
<1>6. CASE ReadSteering
  BY <1>0, <1>6 DEF ReadSteering, Goto, entryVars
<1>7. CASE Reset
  <2>1. "NEUTRAL" \in States
    BY DEF States
  <2> QED
    BY <1>0, <1>7, <2>1, EnterType DEF Reset
<1>8. CASE BrakeReleased \/ BrakePressed \/ BrakeSteady
  BY <1>0, <1>8 DEF BrakeReleased, BrakePressed, BrakeSteady, Goto, entryVars, Outputs
<1>9. CASE ReleaseDone \/ BrakingDone
  BY <1>0, <1>9 DEF ReleaseDone, BrakingDone, Goto, entryVars
<1>10. CASE EnterBraking
  <2>1. PICK state \in {"REGEN", "BRAKE"} : Request(state, "braking")
    BY <1>10 DEF EnterBraking
  <2>2. state \in States
    BY DEF States
  <2> QED
    BY <1>0, <1>10, <2>1, <2>2, RequestType DEF EnterBraking
<1>11. CASE Choose
  <2>1. CASE BrakesOff /\ (MayDrive \/ local.drive = "NEUTRAL")
    <3>1. local.drive \in States
      BY <2>1 DEF MayDrive, Driving, States
    <3> QED
      BY <1>0, <1>11, <2>1, <3>1, RequestType DEF Choose
  <2>2. CASE ~(BrakesOff /\ (MayDrive \/ local.drive = "NEUTRAL"))
    BY <1>0, <1>11, <2>2 DEF Choose, Goto, entryVars
  <2> QED
    BY <2>1, <2>2
<1>12. CASE Horn
  <2>1. output' \subseteq Outputs
    BY <1>12 DEF Horn, Outputs
  <2> QED
    BY <1>0, <1>12, <2>1 DEF Horn, Goto, entryVars
<1>13. CASE EnterGroup
  <2>1. GroupOf(target) \subseteq Outputs
    BY DEF GroupOf, Outputs
  <2> QED
    BY <1>0, <1>13, <2>1 DEF EnterGroup, Goto, entryVars
<1>14. CASE Entered
  BY <1>0, <1>14 DEF Entered, Goto, entryVars
<1> QED
  BY <1>1, <1>2, <1>3, <1>4, <1>5, <1>6, <1>7, <1>8, <1>9, <1>10, <1>11, <1>12,
     <1>13, <1>14 DEF MediumStep

LEMMA StutterType == TypeOK /\ UNCHANGED vars => TypeOK'
  BY DEF TypeOK, vars, fastVars, mediumVars, stateVars, entryVars

\* Every variable has its type, for any readings of the pedals and the motor.
THEOREM TypeCorrect == Safety => []TypeOK
<1>1. TypeOK /\ [Next]_vars => TypeOK'
  BY FastType, MediumType, StutterType DEF Next
<1> QED
  BY <1>1, InitType, PTL DEF Safety

-----------------------------------------------------------------------------
\* The inductive invariant: what an entry that is under way may be heading for.

\* Before the first entry is over nothing but NEUTRAL is entered.
FirstEntry ==
  ~started => /\ s_current_state = "NEUTRAL" /\ target = "NEUTRAL"
              /\ pc \in {"wait", "group", "entered"} /\ next = "wait"

\* The entry that answers the brake pedal ends outside the driving states.
BrakeEntry ==
  /\ pc = "braking" => s_current_state \notin Driving
  /\ Entering /\ next = "braking" => target \notin Driving

\* Only the driver's choice leads to a driving state, with precharge complete.
ChosenEntry == Entering /\ target \in Driving => next = "tail" /\ local.precharge

\* The published state does not change between its publication and the brakes.
PublishedEntry ==
  s_brake_state = "BRAKING" /\ (pc = "reset" \/ (Entering /\ next = "brake")) =>
    current_drive_state \notin Driving

IndInv ==
  /\ TypeOK
  /\ FirstEntry
  /\ BrakeEntry
  /\ ChosenEntry
  /\ PublishedEntry
  /\ BrakeHolds
  /\ BrakeIsPublished

LEMMA InitInd == Init => IndInv
  BY InitType DEF Init, IndInv, FirstEntry, BrakeEntry, ChosenEntry, PublishedEntry,
                  BrakeHolds, BrakeIsPublished, Entering, Driving

\* The invariant reads nothing that the fast task writes.
LEMMA FastInd == IndInv /\ FastCycle => IndInv'
<1> SUFFICES ASSUME IndInv, FastCycle PROVE IndInv'
  OBVIOUS
<1>1. UNCHANGED mediumVars
  BY DEF FastCycle, Cycle
<1>2. TypeOK'
  BY FastType DEF IndInv
<1> QED
  BY <1>1, <1>2 DEF IndInv, FirstEntry, BrakeEntry, ChosenEntry, PublishedEntry, BrakeHolds,
                    BrakeIsPublished, Entering, mediumVars, stateVars, entryVars

LEMMA StutterInd == IndInv /\ UNCHANGED vars => IndInv'
  BY StutterType DEF IndInv, FirstEntry, BrakeEntry, ChosenEntry, PublishedEntry, BrakeHolds,
       BrakeIsPublished, Entering, vars, mediumVars, stateVars, entryVars

LEMMA MediumInd == IndInv /\ MediumStep => IndInv'
<1> SUFFICES ASSUME IndInv, MediumStep PROVE IndInv'
  OBVIOUS
<1> DEFINE Parts == FirstEntry /\ BrakeEntry /\ ChosenEntry /\ PublishedEntry
                      /\ BrakeHolds /\ BrakeIsPublished
<1>0. TypeOK'
  BY MediumType DEF IndInv
<1> SUFFICES Parts'
  BY <1>0 DEF IndInv
<1> USE DEF IndInv, FirstEntry, BrakeEntry, ChosenEntry, PublishedEntry, BrakeHolds,
            BrakeIsPublished, Entering, Driving, Goto, stateVars, entryVars
<1>1. CASE FirstCycle
  BY <1>1 DEF FirstCycle, Enter
<1>2. CASE Publish
  BY <1>2 DEF Publish
<1>3. CASE SeeFault
  BY <1>3 DEF SeeFault, Request, Enter
<1>4. CASE SeeNoFault
  BY <1>4 DEF SeeNoFault
<1>5. CASE ReadPrecharge
  BY <1>5 DEF ReadPrecharge
<1>6. CASE ReadSteering
  BY <1>6 DEF ReadSteering
<1>7. CASE Reset
  BY <1>7 DEF Reset, Enter
<1>8. CASE BrakeReleased \/ BrakePressed \/ BrakeSteady
  BY <1>8 DEF BrakeReleased, BrakePressed, BrakeSteady
<1>9. CASE ReleaseDone
  BY <1>9 DEF ReleaseDone
<1>10. CASE EnterBraking
  <2>1. PICK state \in {"REGEN", "BRAKE"} : Request(state, "braking")
    BY <1>10 DEF EnterBraking
  <2> QED
    BY <1>10, <2>1 DEF EnterBraking, Request, Enter
<1>11. CASE BrakingDone
  BY <1>11 DEF BrakingDone
<1>12. CASE Choose
  <2>0. UNCHANGED <<started, current_drive_state, s_brake_state, local>> /\ pc = "choose"
    BY <1>12 DEF Choose
  <2>1. CASE BrakesOff /\ (MayDrive \/ local.drive = "NEUTRAL")
    <3>1. Request(local.drive, "tail")
      BY <1>12, <2>1 DEF Choose
    <3>2. s_brake_state = "DISABLED"
      BY <2>1 DEF BrakesOff
    <3>3. local.drive \in Driving => local.precharge
      BY <2>1 DEF MayDrive
    <3> QED
      BY <2>0, <3>1, <3>2, <3>3 DEF Request, Enter
  <2>2. CASE ~(BrakesOff /\ (MayDrive \/ local.drive = "NEUTRAL"))
    BY <2>0, <1>12, <2>2 DEF Choose
  <2> QED
    BY <2>1, <2>2
<1>13. CASE Horn
  BY <1>13 DEF Horn
<1>14. CASE EnterGroup
  BY <1>14 DEF EnterGroup
<1>15. CASE Entered
  <2>1. pc = "entered" /\ s_current_state' = target /\ started' = TRUE /\ pc' = next
    BY <1>15 DEF Entered
  <2>2. UNCHANGED <<current_drive_state, s_brake_state, local, target, next>>
    BY <1>15 DEF Entered
  <2>3. next \in {"wait", "brake", "braking", "tail"}
    BY DEF TypeOK
  <2>4. ~Entering'
    BY <2>1, <2>3
  <2>5. BrakeEntry'
    BY <2>1, <2>2, <2>4
  <2>6. BrakeHolds'
    BY <2>1, <2>2, <2>4
  <2>7. BrakeIsPublished'
    BY <2>1, <2>2, <2>3
  <2>8. PublishedEntry'
    BY <2>1, <2>2, <2>3, <2>4
  <2> QED
    BY <2>1, <2>4, <2>5, <2>6, <2>7, <2>8
<1> QED
  BY <1>1, <1>2, <1>3, <1>4, <1>5, <1>6, <1>7, <1>8, <1>9, <1>10, <1>11, <1>12, <1>13,
     <1>14, <1>15 DEF MediumStep

LEMMA SafetyIndInv == Safety => []IndInv
<1>1. IndInv /\ [Next]_vars => IndInv'
  BY FastInd, MediumInd, StutterInd DEF Next
<1> QED
  BY <1>1, InitInd, PTL DEF Safety

\* A brake the machine has taken keeps it out of the driving states, however the
\* pedal is moved between the four places where it is read.
THEOREM BrakeAlwaysHolds == Safety => []BrakeHolds
<1>1. IndInv => BrakeHolds
  BY DEF IndInv
<1> QED
  BY <1>1, SafetyIndInv, PTL

\* And the motor command is no longer built from a driving state once the
\* machine has published after taking the brake.
THEOREM BrakeAlwaysPublished == Safety => []BrakeIsPublished
<1>1. IndInv => BrakeIsPublished
  BY DEF IndInv
<1> QED
  BY <1>1, SafetyIndInv, PTL

\* Both together: a brake that was taken keeps the torque off.
THEOREM BrakeAlwaysObeyed == Safety => []BrakeIsObeyed
<1>1. BrakeHolds /\ BrakeIsPublished => BrakeIsObeyed
  BY DEF BrakeIsObeyed
<1> QED
  BY BrakeAlwaysHolds, BrakeAlwaysPublished, <1>1, PTL

LEMMA DrivingEntry ==
  ASSUME IndInv, Next, s_current_state \notin Driving, s_current_state' \in Driving
  PROVE  local.precharge
<1>1. MediumStep
  BY DEF Next, FastCycle, Cycle, mediumVars, stateVars
<1>2. CASE Entered
  BY <1>2 DEF Entered, IndInv, ChosenEntry, Entering
<1>3. CASE EnterBraking
  <2>1. PICK state \in {"REGEN", "BRAKE"} : Request(state, "braking")
    BY <1>3 DEF EnterBraking
  <2> QED
    BY <2>1 DEF Request, Enter, Driving
<1>4. CASE ~Entered /\ ~EnterBraking
  BY <1>1, <1>4 DEF MediumStep, FirstCycle, Publish, SeeFault, SeeNoFault, ReadPrecharge,
       ReadSteering, Reset, BrakeReleased, BrakePressed, BrakeSteady, ReleaseDone,
       BrakingDone, Choose, Horn, EnterGroup, Request, Enter, stateVars, Driving
<1> QED
  BY <1>2, <1>3, <1>4

\* No driving state is entered without the precharge of the rear controller.
THEOREM DriveAlwaysPrecharged == Safety => DriveNeedsPrecharge
<1>1. IndInv /\ [Next]_vars =>
        [s_current_state \notin Driving /\ s_current_state' \in Driving => local.precharge]_vars
  BY DrivingEntry
<1> QED
  BY <1>1, SafetyIndInv, PTL DEF Safety, DriveNeedsPrecharge

-----------------------------------------------------------------------------
\* DriveSelector.  What an entry that is under way has been decided from: a fault
\* or the very first cycle, a reset, the pedal, or the driver's choice.
Pending ==
  /\ Entering /\ next = "wait" =>
       target = "FAULT" \/ (target = "NEUTRAL" /\ s_current_state = "NEUTRAL")
  /\ Entering /\ next = "brake" => target = "NEUTRAL"
  /\ Entering /\ next = "braking" => target \in {"BRAKE", "REGEN"}
  /\ Entering /\ next = "tail" =>
       /\ target = local.drive /\ s_brake_state = "DISABLED"
       /\ target = "NEUTRAL" \/ (target \in Driving /\ local.precharge)

\* The machine in FAULT goes no further than to the reset, and the statements on
\* the pedal's edges have seen one.
Cycling ==
  /\ pc = "reset" \/ (Entering /\ next = "brake") => s_current_state = "FAULT"
  /\ pc \in {"brake", "released", "pressed", "braking", "choose", "tail"}
       => s_current_state # "FAULT"
  /\ Entering /\ next \in {"braking", "tail"} => s_current_state # "FAULT"
  /\ pc \in {"pressed", "braking"} \/ (Entering /\ next = "braking")
       => s_brake_state = "DISABLED"
  /\ pc = "braking" => s_current_state \in {"BRAKE", "REGEN"}
  /\ pc = "released" => s_brake_state = "BRAKING"

LEMMA InitPending == Init => Pending /\ Cycling
BY DEF Init, Pending, Cycling, Entering

LEMMA FastPending == Pending /\ Cycling /\ FastCycle => (Pending /\ Cycling)'
BY DEF FastCycle, Cycle, mediumVars, stateVars, entryVars, Pending, Cycling, Entering

\* A request that is not ignored is under way from here, or has been served.
LEMMA RequestPending ==
  ASSUME NEW state, NEW statement, Request(state, statement)
  PROVE  \/ /\ s_current_state = "FAULT" \/ state = s_current_state
            /\ pc' = statement /\ UNCHANGED <<s_current_state, target, next>>
         \/ /\ s_current_state = "DRIVE" /\ state = "REVERSE"
            /\ pc' = statement /\ s_current_state' = state /\ UNCHANGED <<target, next>>
         \/ /\ s_current_state # "FAULT" /\ state # s_current_state
            /\ pc' = "group" /\ target' = state /\ next' = statement
            /\ UNCHANGED s_current_state
BY DEF Request, Enter, Goto, entryVars

LEMMA MediumPending == IndInv /\ Pending /\ Cycling /\ MediumStep => (Pending /\ Cycling)'
<1> SUFFICES ASSUME IndInv, Pending, Cycling, MediumStep PROVE (Pending /\ Cycling)'
  OBVIOUS
<1> USE DEF Pending, Cycling, Entering, Goto, stateVars, entryVars
<1>1. CASE FirstCycle
  BY <1>1 DEF FirstCycle, Enter, IndInv, FirstEntry
<1>2. CASE Publish \/ SeeNoFault \/ ReadPrecharge
  BY <1>2 DEF Publish, SeeNoFault, ReadPrecharge
<1>3. CASE SeeFault
  BY <1>3, RequestPending DEF SeeFault
<1>4. CASE ReadSteering
  BY <1>4 DEF ReadSteering
<1>5. CASE Reset
  BY <1>5 DEF Reset, Enter
<1>6. CASE BrakeReleased \/ BrakePressed \/ BrakeSteady
  BY <1>6 DEF BrakeReleased, BrakePressed, BrakeSteady
<1>7. CASE ReleaseDone \/ BrakingDone
  BY <1>7 DEF ReleaseDone, BrakingDone
<1>8. CASE EnterBraking
  <2>1. PICK state \in {"REGEN", "BRAKE"} : Request(state, "braking")
    BY <1>8 DEF EnterBraking
  <2>2. pc = "pressed" /\ UNCHANGED s_brake_state
    BY <1>8 DEF EnterBraking
  <2> QED
    BY <2>1, <2>2, RequestPending
<1>9. CASE Choose
  <2>1. pc = "choose" /\ UNCHANGED <<s_brake_state, local>>
    BY <1>9 DEF Choose
  <2>2. CASE BrakesOff /\ (MayDrive \/ local.drive = "NEUTRAL")
    <3>1. Request(local.drive, "tail")
      BY <1>9, <2>2 DEF Choose
    <3>2. /\ s_brake_state = "DISABLED" /\ local.drive # "FAULT"
          /\ local.drive = "NEUTRAL" \/ (local.drive \in Driving /\ local.precharge)
      BY <2>2 DEF BrakesOff, MayDrive, Driving
    <3> QED
      BY <2>1, <3>1, <3>2, RequestPending
  <2>3. CASE ~(BrakesOff /\ (MayDrive \/ local.drive = "NEUTRAL"))
    BY <1>9, <2>1, <2>3 DEF Choose
  <2> QED
    BY <2>2, <2>3
<1>10. CASE Horn \/ EnterGroup
  BY <1>10 DEF Horn, EnterGroup
<1>11. CASE Entered
  <2>1. /\ pc = "entered" /\ s_current_state' = target /\ pc' = next
        /\ UNCHANGED <<s_brake_state, local, target, next>>
        /\ next \in {"wait", "brake", "braking", "tail"}
    BY <1>11 DEF Entered, IndInv, TypeOK
  <2> QED
    BY <2>1 DEF Driving
<1> QED
  BY <1>1, <1>2, <1>3, <1>4, <1>5, <1>6, <1>7, <1>8, <1>9, <1>10, <1>11 DEF MediumStep

LEMMA SafetyPending == Safety => [](Pending /\ Cycling)
<1>1. IndInv /\ Pending /\ Cycling /\ [Next]_vars => (Pending /\ Cycling)'
  <2>1. Pending /\ Cycling /\ UNCHANGED vars => (Pending /\ Cycling)'
    BY DEF Pending, Cycling, Entering, vars, mediumVars, stateVars, entryVars
  <2> QED
    BY <2>1, FastPending, MediumPending DEF Next
<1> QED
  BY <1>1, InitPending, SafetyIndInv, PTL DEF Safety

\* What the selector sees of a step of the medium task that it does not take part
\* in: nothing has changed.
SelectorIdle ==
  /\ UNCHANGED <<s_current_state, current_drive_state, local, fastVars>>
  /\ SeenFault' = SeenFault /\ SeenPedal' = SeenPedal
  /\ (s_brake_state = "BRAKING" \/ pc = "braking")' = (s_brake_state = "BRAKING" \/ pc = "braking")

LEMMA IdleStutters == SelectorIdle => UNCHANGED Selector!vars
BY DEF SelectorIdle, Selector!vars, fastVars

LEMMA InitSelects == Init => Selector!Init
<1> SUFFICES ASSUME Init PROVE Selector!Init
  OBVIOUS
<1>1. SeenFault = FALSE /\ SeenPedal = FALSE
  BY DEF Init, SeenFault, SeenPedal, Entering
<1>2. /\ s_current_state = "NEUTRAL" /\ current_drive_state = "INVALID"
      /\ (s_brake_state = "BRAKING" \/ pc = "braking") = FALSE
      /\ can.bps = FALSE /\ can.precharge = FALSE /\ can.drive = "INVALID"
      /\ (brake_state = "BRAKING") = FALSE
      /\ local.precharge = FALSE /\ local.drive = "INVALID"
  BY DEF Init
<1> QED
  BY <1>1, <1>2, Zenon DEF Selector!Init, Selector!Nothing

\* The fast task only changes the inputs.
LEMMA FastSelects == TypeOK' /\ FastCycle => [Selector!Next]_(Selector!vars)
<1> SUFFICES ASSUME TypeOK', FastCycle PROVE Selector!Change
  BY DEF Selector!Next
<1>1. UNCHANGED mediumVars
  BY DEF FastCycle, Cycle
<1>2. can' \in [bps : BOOLEAN, precharge : BOOLEAN, drive : SteeringStates]
  BY DEF TypeOK
<1>3. [fault |-> can'.bps, precharge |-> can'.precharge, drive |-> can'.drive,
       pedal |-> (brake_state' = "BRAKING")] \in Selector!Inputs
  BY <1>2 DEF Selector!Inputs, Selector!Driving, SteeringStates
<1> QED
  BY <1>1, <1>3
  DEF Selector!Change, SeenFault, SeenPedal, Entering, mediumVars, stateVars, entryVars

\* Replacing one field of what has been read.
LEMMA OneField ==
  ASSUME NEW f, NEW r, NEW d, NEW p, NEW i, NEW j, NEW k, NEW l
  PROVE  /\ [[fault |-> f, precharge |-> r, drive |-> d, pedal |-> p] EXCEPT !["fault"] = [fault |-> i, precharge |-> j, drive |-> k, pedal |-> l]["fault"]]
              = [fault |-> i, precharge |-> r, drive |-> d, pedal |-> p]
         /\ [[fault |-> f, precharge |-> r, drive |-> d, pedal |-> p] EXCEPT !["precharge"] = [fault |-> i, precharge |-> j, drive |-> k, pedal |-> l]["precharge"]]
              = [fault |-> f, precharge |-> j, drive |-> d, pedal |-> p]
         /\ [[fault |-> f, precharge |-> r, drive |-> d, pedal |-> p] EXCEPT !["drive"] = [fault |-> i, precharge |-> j, drive |-> k, pedal |-> l]["drive"]]
              = [fault |-> f, precharge |-> r, drive |-> k, pedal |-> p]
         /\ [[fault |-> f, precharge |-> r, drive |-> d, pedal |-> p] EXCEPT !["pedal"] = [fault |-> i, precharge |-> j, drive |-> k, pedal |-> l]["pedal"]]
              = [fault |-> f, precharge |-> r, drive |-> d, pedal |-> l]
<1>1. [[fault |-> f, precharge |-> r, drive |-> d, pedal |-> p] EXCEPT !["fault"] = [fault |-> i, precharge |-> j, drive |-> k, pedal |-> l]["fault"]]
        = [fault |-> i, precharge |-> r, drive |-> d, pedal |-> p]
  OBVIOUS
<1>2. [[fault |-> f, precharge |-> r, drive |-> d, pedal |-> p] EXCEPT !["precharge"] = [fault |-> i, precharge |-> j, drive |-> k, pedal |-> l]["precharge"]]
        = [fault |-> f, precharge |-> j, drive |-> d, pedal |-> p]
  OBVIOUS
<1>3. [[fault |-> f, precharge |-> r, drive |-> d, pedal |-> p] EXCEPT !["drive"] = [fault |-> i, precharge |-> j, drive |-> k, pedal |-> l]["drive"]]
        = [fault |-> f, precharge |-> r, drive |-> k, pedal |-> p]
  OBVIOUS
<1>4. [[fault |-> f, precharge |-> r, drive |-> d, pedal |-> p] EXCEPT !["pedal"] = [fault |-> i, precharge |-> j, drive |-> k, pedal |-> l]["pedal"]]
        = [fault |-> f, precharge |-> r, drive |-> d, pedal |-> l]
  OBVIOUS
<1> QED
  BY <1>1, <1>2, <1>3, <1>4, Zenon

\* What the selector takes part with in a statement that reads an input.
SelectorReads ==
  /\ UNCHANGED <<s_current_state, current_drive_state, fastVars>>
  /\ (s_brake_state = "BRAKING" \/ pc = "braking")' = (s_brake_state = "BRAKING" \/ pc = "braking")

LEMMA FieldSelects ==
  ASSUME SelectorReads,
         \/ /\ SeenFault' = can.bps /\ SeenPedal' = SeenPedal
            /\ local'.precharge = local.precharge /\ local'.drive = local.drive
         \/ /\ SeenFault' = SeenFault /\ SeenPedal' = (brake_state = "BRAKING")
            /\ local'.precharge = local.precharge /\ local'.drive = local.drive
         \/ /\ SeenFault' = SeenFault /\ SeenPedal' = SeenPedal
            /\ local'.precharge = can.precharge /\ local'.drive = local.drive
         \/ /\ SeenFault' = SeenFault /\ SeenPedal' = SeenPedal
            /\ local'.precharge = local.precharge /\ local'.drive = can.drive
  PROVE  [Selector!Next]_(Selector!vars)
<1> DEFINE in  == [fault |-> can.bps, precharge |-> can.precharge, drive |-> can.drive,
                   pedal |-> (brake_state = "BRAKING")]
           see == [fault |-> SeenFault, precharge |-> local.precharge, drive |-> local.drive,
                   pedal |-> SeenPedal]
<1>1. /\ UNCHANGED <<s_current_state, current_drive_state>> /\ in' = in
      /\ (s_brake_state = "BRAKING" \/ pc = "braking")' = (s_brake_state = "BRAKING" \/ pc = "braking")
  BY DEF SelectorReads, fastVars
<1>2. see' = [fault |-> SeenFault', precharge |-> local'.precharge, drive |-> local'.drive,
              pedal |-> SeenPedal']
  OBVIOUS
<1>3. CASE /\ SeenFault' = can.bps /\ SeenPedal' = SeenPedal
           /\ local'.precharge = local.precharge /\ local'.drive = local.drive
  <2>1. see' = [see EXCEPT !["fault"] = in["fault"]]
    <3>1. see' = [fault |-> can.bps, precharge |-> local.precharge,
          drive |-> local.drive, pedal |-> SeenPedal]
      BY <1>2, <1>3, Zenon
    <3>2. [see EXCEPT !["fault"] = in["fault"]]
            = [fault |-> can.bps, precharge |-> local.precharge,
          drive |-> local.drive, pedal |-> SeenPedal]
      BY OneField
    <3> QED
      BY <3>1, <3>2, Zenon
  <2>2. Selector!Read("fault")
    BY <1>1, <2>1, Zenon DEF Selector!Read
  <2> QED
    BY <2>2 DEF Selector!Next, Selector!Fields
<1>4. CASE /\ SeenFault' = SeenFault /\ SeenPedal' = (brake_state = "BRAKING")
           /\ local'.precharge = local.precharge /\ local'.drive = local.drive
  <2>1. see' = [see EXCEPT !["pedal"] = in["pedal"]]
    <3>1. see' = [fault |-> SeenFault, precharge |-> local.precharge,
          drive |-> local.drive, pedal |-> (brake_state = "BRAKING")]
      BY <1>2, <1>4, Zenon
    <3>2. [see EXCEPT !["pedal"] = in["pedal"]]
            = [fault |-> SeenFault, precharge |-> local.precharge,
          drive |-> local.drive, pedal |-> (brake_state = "BRAKING")]
      BY OneField
    <3> QED
      BY <3>1, <3>2, Zenon
  <2>2. Selector!Read("pedal")
    BY <1>1, <2>1, Zenon DEF Selector!Read
  <2> QED
    BY <2>2 DEF Selector!Next, Selector!Fields
<1>5. CASE /\ SeenFault' = SeenFault /\ SeenPedal' = SeenPedal
           /\ local'.precharge = can.precharge /\ local'.drive = local.drive
  <2>1. see' = [see EXCEPT !["precharge"] = in["precharge"]]
    <3>1. see' = [fault |-> SeenFault, precharge |-> can.precharge,
          drive |-> local.drive, pedal |-> SeenPedal]
      BY <1>2, <1>5, Zenon
    <3>2. [see EXCEPT !["precharge"] = in["precharge"]]
            = [fault |-> SeenFault, precharge |-> can.precharge,
          drive |-> local.drive, pedal |-> SeenPedal]
      BY OneField
    <3> QED
      BY <3>1, <3>2, Zenon
  <2>2. Selector!Read("precharge")
    BY <1>1, <2>1, Zenon DEF Selector!Read
  <2> QED
    BY <2>2 DEF Selector!Next, Selector!Fields
<1>6. CASE /\ SeenFault' = SeenFault /\ SeenPedal' = SeenPedal
           /\ local'.precharge = local.precharge /\ local'.drive = can.drive
  <2>1. see' = [see EXCEPT !["drive"] = in["drive"]]
    <3>1. see' = [fault |-> SeenFault, precharge |-> local.precharge,
          drive |-> can.drive, pedal |-> SeenPedal]
      BY <1>2, <1>6, Zenon
    <3>2. [see EXCEPT !["drive"] = in["drive"]]
            = [fault |-> SeenFault, precharge |-> local.precharge,
          drive |-> can.drive, pedal |-> SeenPedal]
      BY OneField
    <3> QED
      BY <3>1, <3>2, Zenon
  <2>2. Selector!Read("drive")
    BY <1>1, <2>1, Zenon DEF Selector!Read
  <2> QED
    BY <2>2 DEF Selector!Next, Selector!Fields
<1> QED
  BY <1>3, <1>4, <1>5, <1>6

\* The statements that read an input.
LEMMA ReadSelects ==
  ASSUME IndInv, Pending, Cycling, UNCHANGED fastVars,
         SeeFault \/ SeeNoFault \/ ReadPrecharge \/ ReadSteering \/ BrakePressed \/ BrakeReleased
  PROVE  [Selector!Next]_(Selector!vars)
<1> USE DEF Pending, Cycling, Entering, SeenFault, SeenPedal, SelectorReads, Goto, stateVars,
            entryVars
<1>0. can.bps \in BOOLEAN /\ local \in [precharge : BOOLEAN, drive : SteeringStates]
  BY DEF IndInv, TypeOK
<1>1. CASE SeeFault
  <2>1. SelectorReads /\ local' = local /\ can.bps = TRUE
    BY <1>0, <1>1, RequestPending DEF SeeFault
  <2>2. SeenFault' = TRUE /\ SeenPedal' = SeenPedal
    BY <1>1, RequestPending DEF SeeFault
  <2> QED
    BY <2>1, <2>2, FieldSelects
<1>2. CASE SeeNoFault
  <2>1. SelectorReads /\ local' = local /\ can.bps = FALSE
    BY <1>0, <1>2 DEF SeeNoFault
  <2>2. SeenFault' = FALSE /\ SeenPedal' = SeenPedal
    BY <1>2 DEF SeeNoFault
  <2> QED
    BY <2>1, <2>2, FieldSelects
<1>3. CASE ReadPrecharge
  <2>1. SelectorReads /\ SeenFault' = SeenFault /\ SeenPedal' = SeenPedal
    BY <1>3 DEF ReadPrecharge
  <2>2. local'.precharge = can.precharge /\ local'.drive = local.drive
    BY <1>0, <1>3 DEF ReadPrecharge
  <2> QED
    BY <2>1, <2>2, FieldSelects
<1>4. CASE ReadSteering
  <2>1. SelectorReads /\ SeenFault' = SeenFault /\ SeenPedal' = SeenPedal
    BY <1>4 DEF ReadSteering
  <2>2. local'.precharge = local.precharge /\ local'.drive = can.drive
    BY <1>0, <1>4 DEF ReadSteering
  <2> QED
    BY <2>1, <2>2, FieldSelects
<1>5. CASE BrakePressed
  <2>1. SelectorReads /\ local' = local /\ SeenFault' = SeenFault
    BY <1>5 DEF BrakePressed
  <2>2. SeenPedal' = (brake_state = "BRAKING")
    BY <1>5 DEF BrakePressed
  <2> QED
    BY <2>1, <2>2, FieldSelects
<1>6. CASE BrakeReleased
  <2>1. SelectorReads /\ local' = local /\ SeenFault' = SeenFault
    BY <1>6 DEF BrakeReleased
  <2>2. SeenPedal' = (brake_state = "BRAKING")
    BY <1>6 DEF BrakeReleased
  <2> QED
    BY <2>1, <2>2, FieldSelects
<1> QED
  BY <1>1, <1>2, <1>3, <1>4, <1>5, <1>6

\* The statements that change the state at once, and those that only note it.
LEMMA NoteSelects ==
  ASSUME IndInv, Pending, Cycling, UNCHANGED fastVars,
         \/ FirstCycle \/ Publish \/ Reset \/ BrakeSteady \/ ReleaseDone \/ BrakingDone
         \/ Horn \/ EnterGroup
  PROVE  [Selector!Next]_(Selector!vars)
<1> USE DEF Pending, Cycling, Entering, SeenFault, SeenPedal, Goto, fastVars, stateVars,
            entryVars
<1>1. CASE FirstCycle
  <2>1. SelectorIdle
    BY <1>1 DEF FirstCycle, Enter, IndInv, FirstEntry, SelectorIdle
  <2> QED
    BY <2>1, IdleStutters
<1>2. CASE Publish
  <2>1. Selector!Publish
    BY <1>2 DEF Publish, Selector!Publish
  <2> QED
    BY <2>1 DEF Selector!Next
<1>3. CASE Reset
  <2>1. SelectorIdle
    BY <1>3 DEF Reset, Enter, SelectorIdle
  <2> QED
    BY <2>1, IdleStutters
<1>4. CASE BrakeSteady \/ BrakingDone \/ Horn \/ EnterGroup
  <2>1. SelectorIdle
    BY <1>4 DEF BrakeSteady, BrakingDone, Horn, EnterGroup, SelectorIdle
  <2> QED
    BY <2>1, IdleStutters
<1>5. CASE ReleaseDone
  <2>1. Selector!Release
    BY <1>5 DEF ReleaseDone, Selector!Release
  <2> QED
    BY <2>1 DEF Selector!Next
<1> QED
  BY <1>1, <1>2, <1>3, <1>4, <1>5

\* A request on the pedal that finds the machine in the state already.
LEMMA BrakeSelects ==
  ASSUME IndInv, Pending, Cycling, UNCHANGED fastVars, EnterBraking
  PROVE  [Selector!Next]_(Selector!vars)
<1> USE DEF Pending, Cycling, Entering, SeenFault, SeenPedal
<1>1. PICK state \in {"REGEN", "BRAKE"} : Request(state, "braking")
  BY DEF EnterBraking
<1>2. pc = "pressed" /\ UNCHANGED <<current_drive_state, s_brake_state, local>>
  BY DEF EnterBraking
<1>3. CASE pc' = "braking" /\ state = s_current_state /\ UNCHANGED <<s_current_state, target, next>>
  <2>1. Selector!Brake
    BY <1>2, <1>3 DEF Selector!Brake, fastVars
  <2> QED
    BY <2>1 DEF Selector!Next
<1>4. CASE pc' = "group" /\ target' = state /\ next' = "braking" /\ UNCHANGED s_current_state
  <2>1. SelectorIdle
    BY <1>2, <1>4 DEF SelectorIdle
  <2> QED
    BY <2>1, IdleStutters
<1> QED
  BY <1>1, <1>2, <1>3, <1>4, RequestPending

\* The choice, when it is ignored, served at once (DRIVE to REVERSE) or begun.
LEMMA ChooseSelects ==
  ASSUME IndInv, Pending, Cycling, UNCHANGED fastVars, Choose
  PROVE  [Selector!Next]_(Selector!vars)
<1> USE DEF Pending, Cycling, Entering, SeenFault, SeenPedal
<1>1. /\ pc = "choose" /\ s_current_state # "FAULT"
      /\ UNCHANGED <<current_drive_state, s_brake_state, local>>
  BY DEF Choose
<1>2. CASE pc' = "tail" /\ UNCHANGED <<s_current_state, target, next>>
  <2>1. SelectorIdle
    BY <1>1, <1>2 DEF SelectorIdle
  <2> QED
    BY <2>1, IdleStutters
<1>3. CASE BrakesOff /\ (MayDrive \/ local.drive = "NEUTRAL")
  <2>1. /\ s_brake_state = "DISABLED" /\ local.drive # "FAULT"
        /\ local.drive = "NEUTRAL" \/ (local.drive \in Driving /\ local.precharge)
    BY <1>3 DEF BrakesOff, MayDrive, Driving
  <2>2. Request(local.drive, "tail")
    BY <1>3 DEF Choose
  <2>3. CASE pc' = "tail" /\ s_current_state' = local.drive /\ UNCHANGED <<target, next>>
    <3>1. Selector!Select
      BY <1>1, <2>1, <2>3 DEF Selector!Select, Selector!Driving, Driving, fastVars
    <3> QED
      BY <3>1 DEF Selector!Next
  <2>4. CASE pc' = "group" /\ target' = local.drive /\ next' = "tail" /\ UNCHANGED s_current_state
    <3>1. SelectorIdle
      BY <1>1, <2>1, <2>4 DEF SelectorIdle
    <3> QED
      BY <3>1, IdleStutters
  <2> QED
    BY <1>1, <1>2, <2>2, <2>3, <2>4, RequestPending
<1>4. CASE ~(BrakesOff /\ (MayDrive \/ local.drive = "NEUTRAL"))
  BY <1>2, <1>4 DEF Choose, Goto, entryVars
<1> QED
  BY <1>3, <1>4

\* The end of an entry is the selector's step.
LEMMA EnteredSelects ==
  ASSUME IndInv, Pending, Cycling, UNCHANGED fastVars, Entered
  PROVE  [Selector!Next]_(Selector!vars)
<1> USE DEF Pending, Cycling, Entering, SeenFault, SeenPedal
<1>1. /\ pc = "entered" /\ s_current_state' = target /\ pc' = next
      /\ UNCHANGED <<current_drive_state, s_brake_state, local, target, next, can, brake_state>>
      /\ next \in {"wait", "brake", "braking", "tail"}
  BY DEF Entered, Goto, entryVars, fastVars, IndInv, TypeOK
<1>2. CASE next = "wait" /\ target = "FAULT"
  <2>1. Selector!Fail
    BY <1>1, <1>2 DEF Selector!Fail
  <2> QED
    BY <2>1 DEF Selector!Next
<1>3. CASE next = "wait" /\ target # "FAULT"
  <2>1. SelectorIdle
    BY <1>1, <1>3 DEF SelectorIdle, fastVars, Entered
  <2> QED
    BY <2>1, IdleStutters
<1>4. CASE next = "brake"
  <2>1. Selector!Recover
    BY <1>1, <1>4 DEF Selector!Recover
  <2> QED
    BY <2>1 DEF Selector!Next
<1>5. CASE next = "braking"
  <2>1. Selector!Brake
    BY <1>1, <1>5 DEF Selector!Brake
  <2> QED
    BY <2>1 DEF Selector!Next
<1>6. CASE next = "tail"
  <2>1. Selector!Select
    BY <1>1, <1>6 DEF Selector!Select, Selector!Driving, Driving
  <2> QED
    BY <2>1 DEF Selector!Next
<1> QED
  BY <1>1, <1>2, <1>3, <1>4, <1>5, <1>6

\* Every execution of the two tasks is one of the selector: what the machine does
\* in several sleeps, with inputs that change under it, is one step on what it read.
THEOREM RefinesSelector == Safety => SelectorSpec
<1>1. IndInv /\ IndInv' /\ Pending /\ Cycling /\ [Next]_vars => [Selector!Next]_(Selector!vars)
  <2> SUFFICES ASSUME IndInv, IndInv', Pending, Cycling, [Next]_vars
               PROVE  [Selector!Next]_(Selector!vars)
    OBVIOUS
  <2>1. CASE FastCycle
    BY <2>1, FastSelects DEF IndInv
  <2>2. CASE MediumStep
    BY <2>2, ReadSelects, NoteSelects, BrakeSelects, ChooseSelects, EnteredSelects
    DEF MediumStep
  <2>3. CASE UNCHANGED vars
    <3>1. SelectorIdle
      BY <2>3 DEF vars, fastVars, mediumVars, stateVars, entryVars, SelectorIdle, SeenFault,
                  SeenPedal, Entering
    <3> QED
      BY <3>1, IdleStutters
  <2> QED
    BY <2>1, <2>2, <2>3 DEF Next
<1> QED
  BY InitSelects, SafetyIndInv, SafetyPending, <1>1, PTL DEF Safety, SelectorSpec, Selector!Spec

-----------------------------------------------------------------------------
\* Progress.  The medium task has a statement for every value of pc, and none of
\* them waits for anything.
MediumIsReady == ENABLED <<MediumStep>>_vars

\* What the lamps say of the machine.
Lamps ==
  /\ bps_light <=> /\ s_current_state = "FAULT" \/ (Entering /\ target = "FAULT")
                   /\ ~(Entering /\ next = "brake")
  /\ SeenPedal => "BRAKE_LIGHT" \in output

Inv == IndInv /\ Pending /\ Cycling /\ Lamps

LEMMA MediumLamps == IndInv /\ Pending /\ Cycling /\ Lamps /\ MediumStep => Lamps'
<1> SUFFICES ASSUME IndInv, Pending, Cycling, Lamps, MediumStep PROVE Lamps'
  OBVIOUS
<1> USE DEF Lamps, Cycling, Pending, Entering, SeenPedal, Goto, stateVars, entryVars
<1>1. CASE FirstCycle
  BY <1>1 DEF FirstCycle, Enter, IndInv, FirstEntry, Indicators
<1>2. CASE Publish \/ SeeNoFault \/ ReadPrecharge
  BY <1>2 DEF Publish, SeeNoFault, ReadPrecharge
<1>3. CASE SeeFault
  BY <1>3 DEF SeeFault, Request, Enter
<1>4. CASE ReadSteering
  BY <1>4 DEF ReadSteering
<1>5. CASE Reset
  BY <1>5 DEF Reset, Enter, Indicators
<1>6. CASE BrakeReleased \/ BrakePressed \/ BrakeSteady
  BY <1>6 DEF BrakeReleased, BrakePressed, BrakeSteady
<1>7. CASE ReleaseDone \/ BrakingDone
  BY <1>7 DEF ReleaseDone, BrakingDone
<1>8. CASE EnterBraking
  <2>1. PICK state \in {"REGEN", "BRAKE"} : Request(state, "braking")
    BY <1>8 DEF EnterBraking
  <2>2. pc = "pressed" /\ UNCHANGED <<s_brake_state, bps_light>>
    BY <1>8 DEF EnterBraking
  <2> QED
    BY <2>1, <2>2 DEF Request, Enter, Indicators
<1>9. CASE Choose
  <2>1. pc = "choose" /\ UNCHANGED <<s_brake_state, local, bps_light>>
    BY <1>9 DEF Choose
  <2>2. CASE BrakesOff /\ (MayDrive \/ local.drive = "NEUTRAL")
    <3>1. Request(local.drive, "tail")
      BY <1>9, <2>2 DEF Choose
    <3>2. local.drive # "FAULT" /\ s_current_state # "FAULT"
      BY <1>9, <2>2 DEF Choose, MayDrive, Driving
    <3> QED
      BY <2>1, <3>1, <3>2 DEF Request, Enter, Indicators
  <2>3. CASE ~(BrakesOff /\ (MayDrive \/ local.drive = "NEUTRAL"))
    BY <1>9, <2>1, <2>3 DEF Choose
  <2> QED
    BY <2>2, <2>3
<1>10. CASE Horn \/ EnterGroup
  BY <1>10 DEF Horn, EnterGroup
<1>11. CASE Entered
  <2>1. /\ pc = "entered" /\ s_current_state' = target /\ pc' = next
        /\ UNCHANGED <<s_brake_state, local, target, next, output, bps_light>>
        /\ next \in {"wait", "brake", "braking", "tail"}
    BY <1>11 DEF Entered, IndInv, TypeOK
  <2> QED
    BY <2>1
<1> QED
  BY <1>1, <1>2, <1>3, <1>4, <1>5, <1>6, <1>7, <1>8, <1>9, <1>10, <1>11 DEF MediumStep

LEMMA SafetyInv == Safety => []Inv
<1>1. Init => Lamps
  BY DEF Init, Lamps, Entering, SeenPedal
<1>2. Lamps /\ (FastCycle \/ UNCHANGED vars) => Lamps'
  BY DEF FastCycle, Cycle, vars, mediumVars, stateVars, entryVars, Lamps, Entering, SeenPedal
<1>3. IndInv /\ Pending /\ Cycling /\ Lamps /\ [Next]_vars => Lamps'
  BY <1>2, MediumLamps DEF Next
<1> QED
  BY <1>1, <1>3, SafetyIndInv, SafetyPending, PTL DEF Safety, Inv

\* What the fast task leaves alone.
LEMMA FastKeeps == FastCycle \/ UNCHANGED vars =>
  UNCHANGED <<current_drive_state, s_current_state, started, s_brake_state, local, target, next,
              pc, output, bps_light>>
BY DEF FastCycle, Cycle, vars, mediumVars, stateVars, entryVars

\* How many statements there are at most to the end of the cycle.
CycleLeft ==
  CASE Entering          -> (CASE next = "wait"    -> 1
                               [] next = "tail"    -> 2
                               [] next = "braking" -> 6
                               [] OTHER            -> 10) + (IF pc = "group" THEN 1 ELSE 0)
    [] pc = "fault"      -> 15
    [] pc = "precharge"  -> 14
    [] pc = "steering"   -> 13
    [] pc = "reset"      -> 12
    [] pc = "brake"      -> 9
    [] pc = "pressed"    -> 8
    [] pc \in {"released", "braking"} -> 5
    [] pc = "choose"     -> 4
    [] pc = "wait"       -> 3
    [] OTHER             -> 1

CycleWithin(n) == CycleLeft <= n

CycleStarts == pc = "wait" /\ started

\* With m below n: what is within n stays there, and a statement brings it within m.
CycleNearer(n, m) ==
  Inv /\ CycleWithin(n) /\ ~CycleStarts =>
    /\ [Next]_vars => CycleWithin(n)' \/ CycleStarts'
    /\ <<MediumStep>>_vars => CycleWithin(m)' \/ CycleStarts'

LEMMA CycleNears ==
  ASSUME Inv, MediumStep, ~CycleStarts, NEW n \in Nat, CycleWithin(n + 1)
  PROVE  CycleWithin(n)' \/ CycleStarts'
<1> USE DEF CycleWithin, CycleLeft, CycleStarts, Entering, Goto, stateVars, entryVars, Inv, IndInv, TypeOK
<1>1. CASE FirstCycle
  BY <1>1 DEF FirstCycle, Enter, FirstEntry
<1>2. CASE Publish \/ SeeNoFault \/ ReadPrecharge
  BY <1>2 DEF Publish, SeeNoFault, ReadPrecharge
<1>3. CASE SeeFault
  BY <1>3, RequestPending DEF SeeFault, FirstEntry
<1>4. CASE ReadSteering
  BY <1>4 DEF ReadSteering
<1>5. CASE Reset
  BY <1>5 DEF Reset, Enter
<1>6. CASE BrakeReleased \/ BrakePressed \/ BrakeSteady
  BY <1>6 DEF BrakeReleased, BrakePressed, BrakeSteady
<1>7. CASE ReleaseDone \/ BrakingDone
  BY <1>7 DEF ReleaseDone, BrakingDone
<1>8. CASE EnterBraking
  <2>1. PICK state \in {"REGEN", "BRAKE"} : Request(state, "braking")
    BY <1>8 DEF EnterBraking
  <2>2. pc = "pressed"
    BY <1>8 DEF EnterBraking
  <2> QED
    BY <2>1, <2>2, RequestPending
<1>9. CASE Choose
  <2>1. pc = "choose"
    BY <1>9 DEF Choose
  <2>2. Request(local.drive, "tail") \/ Goto("tail")
    BY <1>9 DEF Choose
  <2> QED
    BY <2>1, <2>2, RequestPending
<1>10. CASE Horn \/ EnterGroup
  BY <1>10 DEF Horn, EnterGroup, FirstEntry
<1>11. CASE Entered
  BY <1>11 DEF Entered
<1> QED
  BY <1>1, <1>2, <1>3, <1>4, <1>5, <1>6, <1>7, <1>8, <1>9, <1>10, <1>11 DEF MediumStep

LEMMA CycleStep == \A n \in Nat : CycleNearer(n + 1, n)
<1> SUFFICES ASSUME NEW n \in Nat, Inv, CycleWithin(n + 1), ~CycleStarts
             PROVE  /\ [Next]_vars => CycleWithin(n + 1)' \/ CycleStarts'
                    /\ <<MediumStep>>_vars => CycleWithin(n)' \/ CycleStarts'
  BY DEF CycleNearer
<1>1. MediumStep => CycleWithin(n)' \/ CycleStarts'
  BY CycleNears
<1>2. CycleWithin(n)' => CycleWithin(n + 1)'
  BY DEF CycleWithin, CycleLeft
<1>3. FastCycle \/ UNCHANGED vars => CycleWithin(n + 1)'
  BY FastKeeps DEF CycleWithin, CycleLeft, Entering
<1> QED
  BY <1>1, <1>2, <1>3 DEF Next

\* The medium task starts one cycle after the other, whatever the inputs do.
LEMMA CycleComesRound == Spec /\ []MediumIsReady => []<>CycleStarts
<1>1. /\ CycleNearer(15, 14) /\ CycleNearer(14, 13) /\ CycleNearer(13, 12) /\ CycleNearer(12, 11)
      /\ CycleNearer(11, 10) /\ CycleNearer(10, 9) /\ CycleNearer(9, 8) /\ CycleNearer(8, 7)
      /\ CycleNearer(7, 6) /\ CycleNearer(6, 5) /\ CycleNearer(5, 4) /\ CycleNearer(4, 3)
      /\ CycleNearer(3, 2) /\ CycleNearer(2, 1) /\ CycleNearer(1, 0)
  BY CycleStep
<1>2. Inv => CycleWithin(15)
  BY DEF CycleWithin, CycleLeft, Inv, IndInv, TypeOK, Entering
<1>3. Inv => ~CycleWithin(0)
  BY DEF CycleWithin, CycleLeft, Inv, IndInv, TypeOK, Entering
<1> QED
  BY SafetyInv, <1>1, <1>2, <1>3, PTL DEF Spec, Safety, MediumIsReady, CycleNearer

\* A BPS fault that stays: from the start of a cycle to the publication of FAULT,
\* with the statements left.
FaultLeft ==
  CASE Entering    -> IF pc = "group" THEN 3 ELSE 2
    [] pc = "wait" -> IF s_current_state = "FAULT" THEN 1 ELSE 5
    [] OTHER       -> 4

FaultPending ==
  \/ pc = "wait" /\ started
  \/ pc = "fault"
  \/ Entering /\ target = "FAULT" /\ next = "wait"

FaultWithin(n) == FaultPending /\ FaultLeft <= n

FaultSettled ==
  /\ current_drive_state = "FAULT" /\ s_current_state = "FAULT"
  /\ (pc = "wait" /\ started) \/ pc = "fault"

\* With m below n: what is within n stays there, and a statement brings it within m.
FaultNearer(n, m) ==
  Inv /\ can.bps /\ FaultWithin(n) =>
    /\ [Next]_vars => FaultWithin(n)' \/ FaultSettled'
    /\ <<MediumStep>>_vars => FaultWithin(m)' \/ FaultSettled'

LEMMA FaultNears ==
  ASSUME Inv, can.bps, MediumStep, NEW n \in Nat, FaultWithin(n + 1)
  PROVE  FaultWithin(n)' \/ FaultSettled'
<1> USE DEF FaultWithin, FaultPending, FaultLeft, FaultSettled, Entering, Goto, stateVars,
            entryVars, Inv, IndInv, FirstEntry
<1>1. CASE Publish
  BY <1>1 DEF Publish
<1>2. CASE SeeFault
  BY <1>2, RequestPending DEF SeeFault
<1>3. CASE EnterGroup \/ Entered
  BY <1>3 DEF EnterGroup, Entered
<1>4. CASE ~(Publish \/ SeeFault \/ EnterGroup \/ Entered)
  BY <1>4 DEF MediumStep, FirstCycle, SeeNoFault, ReadPrecharge, ReadSteering, Reset,
              BrakeReleased, BrakePressed, BrakeSteady, ReleaseDone, EnterBraking,
              BrakingDone, Choose, Horn
<1> QED
  BY <1>1, <1>2, <1>3, <1>4

LEMMA FaultStep == \A n \in Nat : FaultNearer(n + 1, n)
<1> SUFFICES ASSUME NEW n \in Nat, Inv, can.bps, FaultWithin(n + 1)
             PROVE  /\ [Next]_vars => FaultWithin(n + 1)' \/ FaultSettled'
                    /\ <<MediumStep>>_vars => FaultWithin(n)' \/ FaultSettled'
  BY DEF FaultNearer
<1>1. MediumStep => FaultWithin(n)' \/ FaultSettled'
  BY FaultNears
<1>2. FaultWithin(n)' => FaultWithin(n + 1)'
  BY DEF FaultWithin, FaultLeft
<1>3. FastCycle \/ UNCHANGED vars => FaultWithin(n + 1)'
  BY FastKeeps DEF FaultWithin, FaultPending, FaultLeft, Entering
<1> QED
  BY <1>1, <1>2, <1>3 DEF Next

LEMMA FaultStays == Inv /\ can.bps /\ FaultSettled /\ [Next]_vars => FaultSettled'
<1> SUFFICES ASSUME Inv, can.bps, FaultSettled, [Next]_vars PROVE FaultSettled'
  OBVIOUS
<1>1. CASE MediumStep
  BY <1>1, RequestPending
  DEF FaultSettled, Goto, stateVars, entryVars, Inv, IndInv, FirstEntry, MediumStep, FirstCycle, Publish,
      SeeFault, SeeNoFault, ReadPrecharge, ReadSteering, Reset, BrakeReleased, BrakePressed,
      BrakeSteady, ReleaseDone, EnterBraking, BrakingDone, Choose, Horn, EnterGroup, Entered
<1>2. CASE FastCycle \/ UNCHANGED vars
  BY <1>2, FastKeeps DEF FaultSettled
<1> QED
  BY <1>1, <1>2 DEF Next

\* A BPS fault that stays ends in FAULT, published and shown, with a medium task
\* that is never blocked: however the pedals and the wheel are moved meanwhile.
LEMMA FrontPublishesFault == Spec /\ []MediumIsReady => FaultIsPublished
<1>1. FaultNearer(5, 4) /\ FaultNearer(4, 3) /\ FaultNearer(3, 2) /\ FaultNearer(2, 1) /\ FaultNearer(1, 0)
  BY FaultStep
<1>2. Inv /\ CycleStarts => FaultWithin(5)
  BY DEF FaultWithin, FaultPending, FaultLeft, CycleStarts, Entering
<1>3. ~FaultWithin(0)
  BY DEF FaultWithin, FaultPending, FaultLeft
<1>4. Inv /\ FaultSettled => current_drive_state = "FAULT" /\ bps_light
  BY DEF FaultSettled, Inv, Lamps, Entering
<1> QED
  BY SafetyInv, CycleComesRound, FaultStays, <1>1, <1>2, <1>3, <1>4, PTL
  DEF Spec, Safety, MediumIsReady, FaultNearer, FaultIsPublished

\* A BPS fault that clears: from the start of a cycle to the end of the reset.
RecoveryLeft ==
  CASE pc = "wait"      -> 7
    [] pc = "fault"     -> 6
    [] pc = "precharge" -> 5
    [] pc = "steering"  -> 4
    [] pc = "reset"     -> 3
    [] pc = "group"     -> 2
    [] OTHER            -> 1

RecoveryPending ==
  /\ s_current_state = "FAULT"
  /\ \/ pc \in {"wait", "fault", "precharge", "steering", "reset"}
     \/ Entering /\ next = "brake"

RecoveryWithin(n) == RecoveryPending /\ RecoveryLeft <= n

RecoverySettled == s_current_state # "FAULT" /\ ~(Entering /\ target = "FAULT")

\* With m below n: what is within n stays there, and a statement brings it within m.
RecoveryNearer(n, m) ==
  Inv /\ ~can.bps /\ RecoveryWithin(n) =>
    /\ [Next]_vars => RecoveryWithin(n)' \/ RecoverySettled'
    /\ <<MediumStep>>_vars => RecoveryWithin(m)' \/ RecoverySettled'

LEMMA RecoveryNears ==
  ASSUME Inv, ~can.bps, MediumStep, NEW n \in Nat, RecoveryWithin(n + 1)
  PROVE  RecoveryWithin(n)' \/ RecoverySettled'
<1> USE DEF RecoveryWithin, RecoveryPending, RecoveryLeft, RecoverySettled, Entering, Goto,
            stateVars, entryVars, Inv, IndInv, FirstEntry, Pending
<1>1. CASE Publish \/ SeeNoFault \/ ReadPrecharge \/ ReadSteering
  BY <1>1 DEF Publish, SeeNoFault, ReadPrecharge, ReadSteering
<1>2. CASE Reset
  BY <1>2 DEF Reset, Enter
<1>3. CASE EnterGroup \/ Entered
  BY <1>3 DEF EnterGroup, Entered
<1>4. CASE FirstCycle \/ SeeFault \/ BrakeReleased \/ BrakePressed \/ BrakeSteady \/ ReleaseDone
           \/ EnterBraking \/ BrakingDone \/ Choose \/ Horn
  BY <1>4 DEF FirstCycle, SeeFault, BrakeReleased, BrakePressed, BrakeSteady, ReleaseDone,
              EnterBraking, BrakingDone, Choose, Horn
<1> QED
  BY <1>1, <1>2, <1>3, <1>4 DEF MediumStep

LEMMA RecoveryStep == \A n \in Nat : RecoveryNearer(n + 1, n)
<1> SUFFICES ASSUME NEW n \in Nat, Inv, ~can.bps, RecoveryWithin(n + 1)
             PROVE  /\ [Next]_vars => RecoveryWithin(n + 1)' \/ RecoverySettled'
                    /\ <<MediumStep>>_vars => RecoveryWithin(n)' \/ RecoverySettled'
  BY DEF RecoveryNearer
<1>1. MediumStep => RecoveryWithin(n)' \/ RecoverySettled'
  BY RecoveryNears
<1>2. RecoveryWithin(n)' => RecoveryWithin(n + 1)'
  BY DEF RecoveryWithin, RecoveryLeft
<1>3. FastCycle \/ UNCHANGED vars => RecoveryWithin(n + 1)'
  BY FastKeeps DEF RecoveryWithin, RecoveryPending, RecoveryLeft, Entering
<1> QED
  BY <1>1, <1>2, <1>3 DEF Next

\* Without a fault on the bus no statement heads for FAULT.
LEMMA RecoveryStays == Inv /\ ~can.bps /\ RecoverySettled /\ [Next]_vars => RecoverySettled'
<1> SUFFICES ASSUME Inv, ~can.bps, RecoverySettled, [Next]_vars PROVE RecoverySettled'
  OBVIOUS
<1> USE DEF RecoverySettled, Entering, Goto, stateVars, entryVars
<1>1. CASE FirstCycle \/ Reset
  BY <1>1 DEF FirstCycle, Reset, Enter
<1>2. CASE Publish \/ SeeNoFault \/ ReadPrecharge \/ ReadSteering \/ Horn
  BY <1>2 DEF Publish, SeeNoFault, ReadPrecharge, ReadSteering, Horn
<1>3. CASE BrakeReleased \/ BrakePressed \/ BrakeSteady \/ ReleaseDone \/ BrakingDone
  BY <1>3 DEF BrakeReleased, BrakePressed, BrakeSteady, ReleaseDone, BrakingDone
<1>4. CASE EnterBraking
  <2>1. PICK state \in {"REGEN", "BRAKE"} : Request(state, "braking")
    BY <1>4 DEF EnterBraking
  <2> QED
    BY <2>1, RequestPending
<1>5. CASE Choose
  <2>1. CASE BrakesOff /\ (MayDrive \/ local.drive = "NEUTRAL")
    <3>1. Request(local.drive, "tail") /\ local.drive # "FAULT"
      BY <1>5, <2>1 DEF Choose, MayDrive, Driving
    <3> QED
      BY <3>1, RequestPending
  <2>2. CASE ~(BrakesOff /\ (MayDrive \/ local.drive = "NEUTRAL"))
    BY <1>5, <2>2 DEF Choose
  <2> QED
    BY <2>1, <2>2
<1>6. CASE EnterGroup \/ Entered
  BY <1>6 DEF EnterGroup, Entered, Inv, IndInv, TypeOK
<1>7. CASE FastCycle \/ UNCHANGED vars
  BY <1>7, FastKeeps
<1> QED
  BY <1>1, <1>2, <1>3, <1>4, <1>5, <1>6, <1>7 DEF Next, MediumStep, SeeFault

LEMMA FaultIsLeft == Spec /\ []MediumIsReady => (<>[](~can.bps) => <>[]RecoverySettled)
<1>1. /\ RecoveryNearer(7, 6) /\ RecoveryNearer(6, 5) /\ RecoveryNearer(5, 4)
      /\ RecoveryNearer(4, 3) /\ RecoveryNearer(3, 2) /\ RecoveryNearer(2, 1)
      /\ RecoveryNearer(1, 0)
  BY RecoveryStep
<1>2. CycleStarts => RecoveryWithin(7) \/ RecoverySettled
  BY DEF RecoveryWithin, RecoveryPending, RecoveryLeft, RecoverySettled, CycleStarts, Entering
<1>3. ~RecoveryWithin(0)
  BY DEF RecoveryWithin, RecoveryPending, RecoveryLeft
<1> QED
  BY SafetyInv, CycleComesRound, RecoveryStays, <1>1, <1>2, <1>3, PTL
  DEF Spec, Safety, MediumIsReady, RecoveryNearer

\* A BPS fault that clears lets the machine out of FAULT and ends the blinking.
LEMMA FrontRecovers == Spec /\ []MediumIsReady => FaultRecovers
<1>1. Inv /\ RecoverySettled => s_current_state # "FAULT" /\ ~bps_light
  BY DEF RecoverySettled, Inv, Lamps
<1> QED
  BY SafetyInv, FaultIsLeft, <1>1, PTL DEF Spec, FaultRecovers

\* The board follows the rear board's fault: it ends in FAULT for as long as the
\* fault is reported, and no longer, with a medium task that is never blocked.
THEOREM FrontFollowsFault == Spec /\ []MediumIsReady => FaultIsFollowed
BY FrontPublishesFault, FrontRecovers, PTL DEF FaultIsFollowed

\* The motor command lags behind the published state.
CommandIsStale ==
  \/ current_drive_state \in {"NEUTRAL", "BRAKE"} /\ control # NoTorque
  \/ current_drive_state \in Driving /\ control.velocity = 0

\* The fast task can always run, and bring a command up to date that lags behind.
RefreshIsReady == CommandIsStale => ENABLED <<Refresh>>_vars

\* A brake that stays down: from the start of a cycle to the publication of the
\* state it has led to.
BrakeLeft ==
  CASE pc = "wait"      -> IF s_brake_state = "BRAKING" THEN 1 ELSE 12
    [] pc = "fault"     -> 11
    [] pc = "precharge" -> 10
    [] pc = "steering"  -> 9
    [] pc = "brake"     -> 8
    [] pc = "pressed"   -> 7
    [] pc = "group"     -> 6
    [] pc = "entered"   -> 5
    [] pc = "braking"   -> 4
    [] pc = "choose"    -> 3
    [] OTHER            -> 2

BrakePending ==
  \/ pc = "wait" /\ started
  \/ pc \in {"fault", "precharge", "steering", "brake", "pressed", "braking"}
  \/ Entering /\ next = "braking"
  \/ pc \in {"choose", "tail"} /\ s_brake_state = "BRAKING"

BrakeWithin(n) == BrakePending /\ BrakeLeft <= n

BrakeSettled ==
  /\ s_brake_state = "BRAKING" /\ current_drive_state = s_current_state
  /\ \/ pc = "wait" /\ started
     \/ pc \in {"fault", "precharge", "steering", "brake", "choose", "tail"}

BrakeStaysDown == brake_state = "BRAKING" /\ ~can.bps

\* With m below n: what is within n stays there, and a statement brings it within m.
BrakeNearer(n, m) ==
  Inv /\ RecoverySettled /\ BrakeStaysDown /\ BrakeWithin(n) =>
    /\ [Next]_vars => BrakeWithin(n)' \/ BrakeSettled'
    /\ <<MediumStep>>_vars => BrakeWithin(m)' \/ BrakeSettled'

LEMMA BrakeNears ==
  ASSUME Inv, RecoverySettled, BrakeStaysDown, MediumStep, NEW n \in Nat, BrakeWithin(n + 1)
  PROVE  BrakeWithin(n)' \/ BrakeSettled'
<1> USE DEF BrakeWithin, BrakePending, BrakeLeft, BrakeSettled, BrakeStaysDown, RecoverySettled,
            Entering, Goto, stateVars, entryVars, Inv, IndInv, FirstEntry
<1>1. CASE Publish
  BY <1>1 DEF Publish
<1>2. CASE SeeNoFault \/ ReadPrecharge
  BY <1>2 DEF SeeNoFault, ReadPrecharge
<1>3. CASE ReadSteering
  BY <1>3 DEF ReadSteering
<1>4. CASE BrakePressed \/ BrakeSteady
  BY <1>4 DEF BrakePressed, BrakeSteady
<1>5. CASE EnterBraking
  <2>1. PICK state \in {"REGEN", "BRAKE"} : Request(state, "braking")
    BY <1>5 DEF EnterBraking
  <2>2. pc = "pressed"
    BY <1>5 DEF EnterBraking
  <2> QED
    BY <2>1, <2>2, RequestPending
<1>6. CASE BrakingDone
  BY <1>6 DEF BrakingDone
<1>7. CASE Choose
  BY <1>7 DEF Choose, BrakesOff
<1>8. CASE Horn
  BY <1>8 DEF Horn
<1>9. CASE EnterGroup \/ Entered
  BY <1>9 DEF EnterGroup, Entered
<1>10. CASE FirstCycle \/ SeeFault \/ Reset \/ BrakeReleased \/ ReleaseDone
  BY <1>10 DEF FirstCycle, SeeFault, Reset, BrakeReleased, ReleaseDone
<1> QED
  BY <1>1, <1>2, <1>3, <1>4, <1>5, <1>6, <1>7, <1>8, <1>9, <1>10 DEF MediumStep

LEMMA BrakeStep == \A n \in Nat : BrakeNearer(n + 1, n)
<1> SUFFICES ASSUME NEW n \in Nat, Inv, RecoverySettled, BrakeStaysDown, BrakeWithin(n + 1)
             PROVE  /\ [Next]_vars => BrakeWithin(n + 1)' \/ BrakeSettled'
                    /\ <<MediumStep>>_vars => BrakeWithin(n)' \/ BrakeSettled'
  BY DEF BrakeNearer
<1>1. MediumStep => BrakeWithin(n)' \/ BrakeSettled'
  BY BrakeNears
<1>2. BrakeWithin(n)' => BrakeWithin(n + 1)'
  BY DEF BrakeWithin, BrakeLeft
<1>3. FastCycle \/ UNCHANGED vars => BrakeWithin(n + 1)'
  BY FastKeeps DEF BrakeWithin, BrakePending, BrakeLeft, Entering
<1> QED
  BY <1>1, <1>2, <1>3 DEF Next

\* A brake that has been published stays so, in the same state.
LEMMA BrakeStays ==
  Inv /\ RecoverySettled /\ BrakeStaysDown /\ BrakeSettled /\ [Next]_vars =>
    BrakeSettled' /\ current_drive_state' = current_drive_state
<1> SUFFICES ASSUME Inv, RecoverySettled, BrakeStaysDown, BrakeSettled, [Next]_vars
             PROVE  BrakeSettled' /\ current_drive_state' = current_drive_state
  OBVIOUS
<1> USE DEF BrakeSettled, BrakeStaysDown, RecoverySettled, Goto, stateVars, entryVars, Inv,
            IndInv, FirstEntry
<1>1. CASE Publish \/ SeeNoFault \/ ReadPrecharge \/ ReadSteering
  BY <1>1 DEF Publish, SeeNoFault, ReadPrecharge, ReadSteering
<1>2. CASE BrakeSteady \/ Horn
  BY <1>2 DEF BrakeSteady, Horn
<1>3. CASE Choose
  BY <1>3 DEF Choose, BrakesOff
<1>4. CASE FastCycle \/ UNCHANGED vars
  BY <1>4, FastKeeps
<1> QED
  BY <1>1, <1>2, <1>3, <1>4
  DEF Next, MediumStep, FirstCycle, SeeFault, Reset, BrakeReleased, BrakePressed, ReleaseDone,
      EnterBraking, BrakingDone, EnterGroup, Entered

TorqueOff == BrakeSettled /\ (current_drive_state # "REGEN" => control = NoTorque)

\* Any fast cycle then takes the torque off, and none puts it back.
LEMMA FastStopsTorque ==
  ASSUME Inv, RecoverySettled, BrakeStaysDown, BrakeSettled
  PROVE  /\ current_drive_state \in {"NEUTRAL", "BRAKE", "REGEN"}
         /\ FastCycle => TorqueOff'
         /\ ~TorqueOff => CommandIsStale
<1>1. current_drive_state \in {"NEUTRAL", "BRAKE", "REGEN"}
  BY DEF BrakeSettled, RecoverySettled, Inv, IndInv, BrakeHolds, Driving, TypeOK, States
<1>2. ASSUME FastCycle, current_drive_state # "REGEN" PROVE control' = NoTorque
  BY <1>1, <1>2 DEF FastCycle, Cycle, Command
<1>3. FastCycle => BrakeSettled'
  BY BrakeStays DEF Next
<1> QED
  BY <1>1, <1>2, <1>3, FastKeeps DEF TorqueOff, CommandIsStale

LEMMA TorqueStaysOff ==
  Inv /\ RecoverySettled /\ BrakeStaysDown /\ TorqueOff /\ [Next]_vars => TorqueOff'
<1> SUFFICES ASSUME Inv, RecoverySettled, BrakeStaysDown, TorqueOff, [Next]_vars PROVE TorqueOff'
  OBVIOUS
<1>1. MediumStep \/ UNCHANGED vars => control' = control
  BY DEF MediumStep, fastVars, vars
<1> QED
  BY <1>1, BrakeStays, FastStopsTorque DEF TorqueOff, Next

\* A brake that stays down without a BPS fault leaves the motor without torque
\* unless it regenerates, with the light on: with two tasks that are never blocked.
THEOREM FrontBrakeStops == Spec /\ []MediumIsReady /\ []RefreshIsReady => BrakeStopsTorque
<1>1. /\ BrakeNearer(12, 11) /\ BrakeNearer(11, 10) /\ BrakeNearer(10, 9) /\ BrakeNearer(9, 8)
      /\ BrakeNearer(8, 7) /\ BrakeNearer(7, 6) /\ BrakeNearer(6, 5) /\ BrakeNearer(5, 4)
      /\ BrakeNearer(4, 3) /\ BrakeNearer(3, 2) /\ BrakeNearer(2, 1) /\ BrakeNearer(1, 0)
  BY BrakeStep
<1>2. CycleStarts => BrakeWithin(12)
  BY DEF BrakeWithin, BrakePending, BrakeLeft, CycleStarts
<1>3. ~BrakeWithin(0)
  BY DEF BrakeWithin, BrakeLeft
<1>4. Inv /\ RecoverySettled /\ BrakeStaysDown /\ BrakeSettled =>
        /\ ~TorqueOff => CommandIsStale
        /\ <<Refresh>>_vars => TorqueOff'
  BY FastStopsTorque DEF Refresh, FastCycle, Inv, IndInv, TypeOK
<1>5. Inv /\ RecoverySettled /\ BrakeStaysDown /\ TorqueOff =>
        /\ current_drive_state \in {"NEUTRAL", "BRAKE", "REGEN"}
        /\ current_drive_state # "REGEN" => control = NoTorque
        /\ "BRAKE_LIGHT" \in output
  <2>1. TorqueOff => BrakeSettled /\ (current_drive_state # "REGEN" => control = NoTorque)
    BY DEF TorqueOff
  <2>2. BrakeSettled => SeenPedal
    BY DEF BrakeSettled, SeenPedal
  <2> QED
    BY <2>1, <2>2, FastStopsTorque DEF Inv, Lamps
<1>6. BrakeStaysDown <=> brake_state = "BRAKING" /\ ~can.bps
  BY DEF BrakeStaysDown
<1> QED
  BY SafetyInv, CycleComesRound, FaultIsLeft, BrakeStays, TorqueStaysOff, <1>1, <1>2, <1>3,
     <1>4, <1>5, <1>6, PTL
  DEF Spec, Safety, MediumIsReady, RefreshIsReady, BrakeNearer, BrakeStopsTorque

\* The wheel in a driving state: from the start of a cycle to the publication of
\* that state.
DriveLeft(s) ==
  CASE pc = "wait"      -> IF s_current_state = s THEN 1 ELSE 12
    [] pc = "fault"     -> 11
    [] pc = "precharge" -> 10
    [] pc = "steering"  -> 9
    [] pc = "brake"     -> 8
    [] pc = "released"  -> 7
    [] pc = "choose"    -> 6
    [] pc = "group"     -> 4
    [] pc = "entered"   -> 3
    [] OTHER            -> 2

\* The locals hold what the board has received, as far as they have been read.
LocalsFollow(s) ==
  /\ pc \in {"steering", "brake", "released", "choose"} => local.precharge
  /\ pc \in {"brake", "released", "choose"} => local.drive = s

DrivePending(s) ==
  /\ \/ pc = "wait" /\ started
     \/ pc \in {"fault", "precharge", "steering", "brake", "released"}
     \/ pc = "choose" /\ s_brake_state = "DISABLED"
     \/ Entering /\ next = "tail" /\ target = s
     \/ pc = "tail" /\ s_current_state = s
  /\ LocalsFollow(s)

DriveWithin(s, n) == DrivePending(s) /\ DriveLeft(s) <= n

DriveSettled(s) ==
  /\ s_current_state = s /\ current_drive_state = s
  /\ \/ pc = "wait" /\ started
     \/ pc \in {"fault", "precharge", "steering", "brake", "choose", "tail"}
  /\ LocalsFollow(s)

DriveIsAsked(s) ==
  brake_state = "DISABLED" /\ can = [bps |-> FALSE, precharge |-> TRUE, drive |-> s]

\* With m below n: what is within n stays there, and a statement brings it within m.
DriveNearer(s, n, m) ==
  Inv /\ RecoverySettled /\ DriveIsAsked(s) /\ DriveWithin(s, n) =>
    /\ [Next]_vars => DriveWithin(s, n)' \/ DriveSettled(s)'
    /\ <<MediumStep>>_vars => DriveWithin(s, m)' \/ DriveSettled(s)'

LEMMA AskedFields ==
  ASSUME NEW s \in Driving, DriveIsAsked(s)
  PROVE  ~can.bps /\ can.precharge /\ can.drive = s /\ brake_state = "DISABLED"
BY DEF DriveIsAsked

LEMMA DriveNears ==
  ASSUME NEW s \in Driving, NEW n \in Nat, Inv, RecoverySettled, DriveIsAsked(s), MediumStep,
         DriveWithin(s, n + 1)
  PROVE  DriveWithin(s, n)' \/ DriveSettled(s)'
<1> USE AskedFields
    DEF DriveWithin, DrivePending, DriveLeft, DriveSettled, LocalsFollow, RecoverySettled,
        Entering, Goto, stateVars, entryVars, Inv, IndInv, FirstEntry
<1>0. local \in [precharge : BOOLEAN, drive : SteeringStates]
  BY DEF TypeOK
<1>1. CASE Publish
  BY <1>1 DEF Publish
<1>2. CASE SeeNoFault
  BY <1>2 DEF SeeNoFault
<1>3. CASE ReadPrecharge
  BY <1>0, <1>3 DEF ReadPrecharge
<1>4. CASE ReadSteering
  BY <1>0, <1>4 DEF ReadSteering
<1>5. CASE BrakeReleased \/ BrakeSteady
  BY <1>5 DEF BrakeReleased, BrakeSteady
<1>6. CASE ReleaseDone
  BY <1>6 DEF ReleaseDone
<1>7. CASE Choose
  <2>1. pc = "choose" /\ local.drive = s /\ BrakesOff /\ MayDrive
    BY <1>7 DEF Choose, BrakesOff, MayDrive
  <2>2. Request(s, "tail")
    BY <1>7, <2>1 DEF Choose
  <2> QED
    BY <2>1, <2>2, RequestPending
<1>8. CASE Horn
  BY <1>8 DEF Horn
<1>9. CASE EnterGroup \/ Entered
  BY <1>9 DEF EnterGroup, Entered
<1>10. CASE FirstCycle \/ SeeFault \/ Reset \/ BrakePressed \/ EnterBraking \/ BrakingDone
  BY <1>10 DEF FirstCycle, SeeFault, Reset, BrakePressed, EnterBraking, BrakingDone
<1> QED
  BY <1>1, <1>2, <1>3, <1>4, <1>5, <1>6, <1>7, <1>8, <1>9, <1>10 DEF MediumStep

LEMMA DriveStep == \A s \in Driving : \A n \in Nat : DriveNearer(s, n + 1, n)
<1> SUFFICES ASSUME NEW s \in Driving, NEW n \in Nat, Inv, RecoverySettled, DriveIsAsked(s),
                    DriveWithin(s, n + 1)
             PROVE  /\ [Next]_vars => DriveWithin(s, n + 1)' \/ DriveSettled(s)'
                    /\ <<MediumStep>>_vars => DriveWithin(s, n)' \/ DriveSettled(s)'
  BY DEF DriveNearer
<1>1. MediumStep => DriveWithin(s, n)' \/ DriveSettled(s)'
  BY DriveNears
<1>2. DriveWithin(s, n)' => DriveWithin(s, n + 1)'
  BY DEF DriveWithin, DriveLeft
<1>3. FastCycle \/ UNCHANGED vars => DriveWithin(s, n + 1)'
  BY FastKeeps DEF DriveWithin, DrivePending, DriveLeft, LocalsFollow, Entering
<1> QED
  BY <1>1, <1>2, <1>3 DEF Next

\* A driving state that has been published stays so while it is asked for.
LEMMA DriveStays ==
  ASSUME NEW s \in Driving, Inv, RecoverySettled, DriveIsAsked(s), DriveSettled(s), [Next]_vars
  PROVE  DriveSettled(s)'
<1> USE AskedFields
    DEF DriveSettled, LocalsFollow, RecoverySettled, Goto, stateVars, entryVars, Inv, IndInv,
        FirstEntry
<1>0. local \in [precharge : BOOLEAN, drive : SteeringStates] /\ s_brake_state = "DISABLED"
  BY DEF TypeOK, BrakeHolds
<1>1. CASE Publish \/ SeeNoFault \/ BrakeSteady \/ Horn
  BY <1>1 DEF Publish, SeeNoFault, BrakeSteady, Horn
<1>2. CASE ReadPrecharge
  BY <1>0, <1>2 DEF ReadPrecharge
<1>3. CASE ReadSteering
  BY <1>0, <1>3 DEF ReadSteering, Driving
<1>4. CASE Choose
  <2>1. Request(s, "tail") /\ UNCHANGED <<started, current_drive_state, local>> /\ pc = "choose"
    BY <1>0, <1>4 DEF Choose, BrakesOff, MayDrive
  <2> QED
    BY <2>1, RequestPending
<1>5. CASE FastCycle \/ UNCHANGED vars
  BY <1>5, FastKeeps
<1> QED
  BY <1>0, <1>1, <1>2, <1>3, <1>4, <1>5
  DEF Next, MediumStep, FirstCycle, SeeFault, Reset, BrakeReleased, BrakePressed, ReleaseDone,
      EnterBraking, BrakingDone, EnterGroup, Entered

TorqueOn(s) == DriveSettled(s) /\ control.velocity # 0

\* Any fast cycle then sets the motor command, and none takes it back.
LEMMA FastDrives ==
  ASSUME NEW s \in Driving, Inv, RecoverySettled, DriveIsAsked(s), DriveSettled(s)
  PROVE  /\ FastCycle => TorqueOn(s)'
         /\ ~TorqueOn(s) => CommandIsStale
<1>1. ASSUME FastCycle PROVE control'.velocity # 0
  <2>1. PICK received \in [bps : BOOLEAN, precharge : BOOLEAN, drive : SteeringStates],
             accel \in AccelReadings, brake \in BrakeReadings, velocity \in MotorVelocities :
               Cycle(received, accel, brake, velocity)
    BY <1>1 DEF FastCycle
  <2>2. control'.velocity \in {-MaxVelocity, MaxVelocity}
    BY <2>1 DEF Cycle, Command, DriveSettled, Driving
  <2> QED
    BY <2>2, FrontAssumption
<1>2. FastCycle => DriveSettled(s)'
  BY DriveStays DEF Next
<1>3. ~TorqueOn(s) => CommandIsStale
  BY DEF TorqueOn, CommandIsStale, DriveSettled
<1> QED
  BY <1>1, <1>2, <1>3 DEF TorqueOn

LEMMA TorqueStaysOn ==
  ASSUME NEW s \in Driving
  PROVE  Inv /\ RecoverySettled /\ DriveIsAsked(s) /\ TorqueOn(s) /\ [Next]_vars => TorqueOn(s)'
<1> SUFFICES ASSUME Inv, RecoverySettled, DriveIsAsked(s), TorqueOn(s), [Next]_vars
             PROVE  TorqueOn(s)'
  OBVIOUS
<1>1. MediumStep \/ UNCHANGED vars => control' = control
  BY DEF MediumStep, fastVars, vars
<1> QED
  BY <1>1, DriveStays, FastDrives DEF TorqueOn, Next

LEMMA FrontReaches ==
  ASSUME NEW s \in Driving
  PROVE  Spec /\ []MediumIsReady /\ []RefreshIsReady =>
           (<>[]DriveIsAsked(s) => <>[](current_drive_state = s /\ control.velocity # 0))
<1>1. /\ DriveNearer(s, 12, 11) /\ DriveNearer(s, 11, 10) /\ DriveNearer(s, 10, 9)
      /\ DriveNearer(s, 9, 8) /\ DriveNearer(s, 8, 7) /\ DriveNearer(s, 7, 6)
      /\ DriveNearer(s, 6, 5) /\ DriveNearer(s, 5, 4) /\ DriveNearer(s, 4, 3)
      /\ DriveNearer(s, 3, 2) /\ DriveNearer(s, 2, 1) /\ DriveNearer(s, 1, 0)
  BY DriveStep
<1>2. CycleStarts => DriveWithin(s, 12)
  BY DEF DriveWithin, DrivePending, DriveLeft, LocalsFollow, CycleStarts
<1>3. ~DriveWithin(s, 0)
  BY DEF DriveWithin, DriveLeft
<1>4. Inv /\ RecoverySettled /\ DriveIsAsked(s) /\ DriveSettled(s) =>
        /\ [Next]_vars => DriveSettled(s)'
        /\ ~TorqueOn(s) => CommandIsStale
        /\ <<Refresh>>_vars => TorqueOn(s)'
  BY DriveStays, FastDrives DEF Refresh, FastCycle, Inv, IndInv, TypeOK
<1>5. TorqueOn(s) => current_drive_state = s /\ control.velocity # 0
  BY DEF TorqueOn, DriveSettled
<1>6. DriveIsAsked(s) => ~can.bps
  BY AskedFields
<1> QED
  BY SafetyInv, CycleComesRound, FaultIsLeft, TorqueStaysOn, <1>1, <1>2, <1>3, <1>4, <1>5,
     <1>6, PTL
  DEF Spec, Safety, MediumIsReady, RefreshIsReady, DriveNearer

\* With precharge done, no fault, the brake off and the wheel in DRIVE or in
\* REVERSE, the board gets there and the motor command follows: with two tasks
\* that are never blocked.
THEOREM FrontDriveReached == Spec /\ []MediumIsReady /\ []RefreshIsReady => DriveIsReached
BY FrontReaches DEF DriveIsReached, DriveIsAsked
=============================================================================
