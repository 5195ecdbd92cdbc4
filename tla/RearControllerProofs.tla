------------------------ MODULE RearControllerProofs ------------------------
(***************************************************************************)
(* Theorems about RearController, for every set of readings, bus voltages  *)
(* and front controller states and every value of the limits.              *)
(***************************************************************************)
EXTENDS RearController, TLAPS

\* The cell task is inside trigger_bps_fault_with_cell.
InTrigger == cellPc \in {"bit", "can", "step", "reset"}

\* TypeOK is not inductive: the fault path needs the fault it is raising, and
\* the precharge counter stops below its target only while precharge runs.
TypeInv ==
  /\ TypeOK
  /\ InTrigger => raising \in BpsFault
  /\ ~precharge_complete => valid_cycles < ValidCycles

LEMMA InitType == Init => TypeInv
<1> SUFFICES ASSUME Init PROVE TypeInv
  OBVIOUS
<1> USE DEF Init
<1>1. /\ pin \in [Outputs -> BOOLEAN]
      /\ closed \in [Relays -> BOOLEAN]
  OBVIOUS
<1>2. /\ valid_cycles \in 0..ValidCycles
      /\ valid_cycles < ValidCycles
      /\ retries \in 0..(RetryModulus - 1)
      /\ resetIdx \in 0..8
      /\ pack_voltage \in Nat
  BY LimitsAssumption
<1>3. afe \in [max : Nat, min : Nat, pack : Nat]
  BY DEF ZeroReading
<1>4. QED
  BY <1>1, <1>2, <1>3 DEF TypeInv, TypeOK, InTrigger, RearControllerState

LEMMA FastType == TypeInv /\ FastCycle => TypeInv'
<1> SUFFICES ASSUME TypeInv, FastCycle PROVE TypeInv'
  OBVIOUS
<1>1. PICK v \in BusVoltages, d \in FrontStates :
        /\ drive_state' = d
        /\ PrechargeRun(v)
  BY DEF FastCycle
<1>2. UNCHANGED <<stateVars, relayVars, faultVars, bps_sent, cellVars, mediumPc>>
  BY DEF FastCycle
<1>3. /\ precharge_complete' \in BOOLEAN
      /\ valid_cycles' \in 0..ValidCycles
      /\ ~precharge_complete' => valid_cycles' < ValidCycles
  <2>1. CASE precharge_complete
    BY <1>1, <2>1 DEF TypeInv, TypeOK, PrechargeRun
  <2>2. CASE ~precharge_complete
    <3>1. valid_cycles' = valid_cycles + 1 \/ valid_cycles' = 0
      BY <1>1, <2>2 DEF PrechargeRun
    <3>2. /\ precharge_complete' \in BOOLEAN
          /\ precharge_complete' <=> valid_cycles' >= ValidCycles
      <4>1. precharge_complete' = (valid_cycles' >= ValidCycles)
        BY <1>1, <2>2 DEF PrechargeRun
      <4>2. (valid_cycles' >= ValidCycles) \in BOOLEAN
        OBVIOUS
      <4>3. QED
        BY <4>1, <4>2, Zenon
    <3>3. valid_cycles \in Nat /\ valid_cycles < ValidCycles /\ ValidCycles \in Nat \ {0}
      BY <2>2, LimitsAssumption DEF TypeInv, TypeOK
    <3>4. valid_cycles' \in 0..ValidCycles
      BY <3>1, <3>3
    <3>5. ~precharge_complete' => valid_cycles' < ValidCycles
      BY <3>2, <3>3, <3>4
    <3>6. QED
      BY <3>2, <3>4, <3>5
  <2>3. QED
    BY <2>1, <2>2 DEF TypeInv, TypeOK
<1>4. QED
  BY <1>1, <1>2, <1>3
  DEF TypeInv, TypeOK, InTrigger, stateVars, relayVars, faultVars, cellVars

LEMMA MediumType == TypeInv /\ MediumStep => TypeInv'
<1> SUFFICES ASSUME TypeInv, MediumStep PROVE TypeInv'
  OBVIOUS
<1> USE DEF TypeInv, TypeOK, InTrigger, MediumUnchanged, stateVars, relayVars, faultVars,
            prechargeVars, cellVars, BeginClose, Transmit, Relays, Outputs,
            RearControllerState
<1>1. CASE MediumStart
  BY <1>1 DEF MediumStart
<1>2. CASE MediumResume
  <2>1. ASSUME NEW r \in Relays, NEW next \in Relays, MediumResumeTo(r, next)
        PROVE  TypeInv'
    BY <2>1 DEF MediumResumeTo
  <2>2. ASSUME NEW r \in Relays, MediumResumeLast(r)
        PROVE  TypeInv'
    BY <2>2 DEF MediumResumeLast
  <2>3. QED
    BY <1>2, <2>1, <2>2 DEF MediumResume
<1>3. CASE MediumFault
  BY <1>3 DEF MediumFault, EnterFault
<1>4. CASE MediumDrive
  BY <1>4 DEF MediumDrive, EnterDrive
<1>5. CASE MediumNeutral
  BY <1>5 DEF MediumNeutral, EnterIdle
<1>6. CASE MediumHold
  BY <1>6 DEF MediumHold
<1>7. QED
  BY <1>1, <1>2, <1>3, <1>4, <1>5, <1>6 DEF MediumStep

LEMMA CellType == TypeInv /\ CellStep => TypeInv'
<1> SUFFICES ASSUME TypeInv, CellStep PROVE TypeInv'
  OBVIOUS
<1> USE DEF TypeInv, TypeOK, InTrigger, CellUnchanged, stateVars, relayVars, faultVars,
            prechargeVars, cellVars, CellGoto, Raise, BpsFault
<1>1. CASE CellTriggerFails \/ CellReadFails
  <2>1. retries' \in 0..(RetryModulus - 1)
    BY <1>1, LimitsAssumption DEF CellTriggerFails, CellReadFails, CountFailure
  <2>2. afe' \in [max : Nat, min : Nat, pack : Nat]
    BY <1>1, ReadingsAssumption DEF CellTriggerFails, CellReadFails
  <2>3. QED
    BY <1>1, <2>1, <2>2 DEF CellTriggerFails, CellReadFails, CountFailure
<1>2. CASE CellTrigger
  BY <1>2 DEF CellTrigger
<1>3. CASE CellRead
  BY <1>3, ReadingsAssumption, LimitsAssumption DEF CellRead
<1>4. CASE CellScan
  BY <1>4 DEF CellScan
<1>5. CASE CellOpenSolar
  BY <1>5 DEF CellOpenSolar, Outputs, Relays
<1>6. CASE CellSolarFlag
  BY <1>6 DEF CellSolarFlag, Relays
<1>7. CASE CellCheck
  BY <1>7 DEF CellCheck, FaultOf, AfterCheck
<1>8. CASE CellSleep
  BY <1>8 DEF CellSleep
<1>9. CASE CellFaultBit
  BY <1>9 DEF CellFaultBit
<1>10. CASE CellFaultCan
  BY <1>10 DEF CellFaultCan
<1>11. CASE CellFaultStep
  BY <1>11 DEF CellFaultStep, FaultRaised, AfterFault, RearControllerState
<1>12. CASE CellFaultEntry
  <2>1. /\ pin' \in [Outputs -> BOOLEAN]
        /\ closed' \in [Relays -> BOOLEAN]
    BY <1>12 DEF CellFaultEntry
  <2>2. /\ resetIdx' \in 0..8
        /\ raising' \in BpsFault \union {"none"}
        /\ InTrigger' => raising' \in BpsFault
        /\ cellPc' \in {"trigger", "read", "scan", "solar", "solar_flag", "over",
                        "under", "unbalance", "sleep", "bit", "can", "step", "reset"}
    BY <1>12 DEF CellFaultEntry, FaultRaised, AfterFault
  <2>3. QED
    BY <1>12, <2>1, <2>2 DEF CellFaultEntry
<1>13. QED
  BY <1>1, <1>2, <1>3, <1>4, <1>5, <1>6, <1>7, <1>8, <1>9, <1>10, <1>11, <1>12
  DEF CellStep

LEMMA StutterType == TypeInv /\ UNCHANGED vars => TypeInv'
  BY DEF TypeInv, TypeOK, InTrigger, vars, stateVars, relayVars, faultVars,
         prechargeVars, cellVars

LEMMA SafetyTypeInv == Safety => []TypeInv
<1>1. TypeInv /\ [Next]_vars => TypeInv'
  BY FastType, MediumType, CellType, StutterType DEF Next
<1>2. QED
  BY InitType, <1>1, PTL DEF Safety

\* Every reachable state is well typed; in particular the precharge counter,
\* an 8-bit integer in the code, never passes its target.
THEOREM TypeCorrect == Safety => []TypeOK
<1>1. TypeInv => TypeOK
  BY DEF TypeInv
<1>2. QED
  BY SafetyTypeInv, <1>1, PTL

-----------------------------------------------------------------------------
\* What makes the safety properties inductive: the fault path never runs
\* without a recorded fault, ...
FaultPath ==
  /\ s_current_state = "FAULT" => bps_fault # {}
  /\ cellPc \in {"can", "step", "reset"} => bps_fault # {}
  /\ cellPc = "reset" => s_current_state = "FAULT"
  /\ cellPc # "reset" => resetIdx = 0

\* ... a closing delay of the medium task belongs to the state that started it,
\* unless the cell task has moved the machine to FAULT meanwhile, ...
ClosingDelay ==
  /\ mediumPc = "motor" => s_current_state \in {"DRIVE", "FAULT"}
  /\ mediumPc \in {"pos", "solar", "neg"} =>
       s_current_state \in {"START", "FAULT"} /\ ~started

\* ... the pack is connected step by step and stays so until FAULT, ...
PackConnected ==
  s_current_state # "FAULT" =>
    /\ s_current_state \in {"IDLE", "DRIVE"} => started
    /\ started => pin["pos"] /\ pin["neg"] /\ closed["pos"] /\ closed["neg"]
    /\ mediumPc \in {"pos", "solar", "neg"} => pin["pos"]
    /\ mediumPc \in {"solar", "neg"} => closed["pos"]
    /\ mediumPc = "neg" => pin["neg"]

\* ... and the FAULT entry has dropped the outputs its index says it has.
ResetProgress ==
  s_current_state = "FAULT" =>
    /\ (cellPc # "reset" \/ resetIdx >= 1) => ~pin["lv"]
    /\ (cellPc # "reset" \/ resetIdx >= 5) => ~pin["motor"]

IndInv ==
  /\ MotorNeedsPrecharge
  /\ DriveIsPowered
  /\ FaultPath
  /\ ClosingDelay
  /\ PackConnected
  /\ ResetProgress

LEMMA InitInd == Init => IndInv
  BY DEF Init, IndInv, MotorNeedsPrecharge, DriveIsPowered, FaultPath, ClosingDelay,
         PackConnected, ResetProgress, Outputs, Relays

LEMMA FastInd == TypeInv /\ IndInv /\ FastCycle => IndInv'
<1> SUFFICES ASSUME TypeInv, IndInv, FastCycle PROVE IndInv'
  OBVIOUS
<1>1. precharge_complete => precharge_complete'
  BY DEF FastCycle, PrechargeRun
<1>2. UNCHANGED <<stateVars, relayVars, faultVars, bps_sent, cellVars, mediumPc>>
  BY DEF FastCycle
<1>3. QED
  BY <1>1, <1>2
  DEF IndInv, MotorNeedsPrecharge, DriveIsPowered, FaultPath, ClosingDelay,
      PackConnected, ResetProgress, stateVars, relayVars, faultVars, cellVars

LEMMA MediumInd == TypeInv /\ IndInv /\ MediumStep => IndInv'
<1> SUFFICES ASSUME TypeInv, IndInv, MediumStep PROVE IndInv'
  OBVIOUS
<1> USE DEF TypeInv, TypeOK, Relays, Outputs, RearControllerState,
            IndInv, MotorNeedsPrecharge, DriveIsPowered, FaultPath, ClosingDelay,
            PackConnected, ResetProgress,
            MediumUnchanged, stateVars, relayVars, faultVars, prechargeVars, cellVars,
            BeginClose, Transmit
<1>1. CASE MediumStart
  BY <1>1 DEF MediumStart, NotStarted
<1>2. CASE MediumResume
  <2>1. CASE MediumResumeTo("pos", "solar")
    BY <2>1 DEF MediumResumeTo
  <2>2. CASE MediumResumeTo("solar", "neg")
    BY <2>2 DEF MediumResumeTo
  <2>3. CASE MediumResumeLast("neg")
    BY <2>3 DEF MediumResumeLast
  <2>4. CASE MediumResumeLast("motor")
    BY <2>4 DEF MediumResumeLast
  <2>5. QED
    BY <1>2, <2>1, <2>2, <2>3, <2>4 DEF MediumResume
<1>3. CASE MediumFault
  BY <1>3 DEF MediumFault, EnterFault, FaultPending
<1>4. CASE MediumDrive
  BY <1>4 DEF MediumDrive, EnterDrive, WantsDrive, NotStarted
<1>5. CASE MediumNeutral
  BY <1>5 DEF MediumNeutral, EnterIdle, WantsNeutral, NotStarted
<1>6. CASE MediumHold
  BY <1>6 DEF MediumHold
<1>7. QED
  BY <1>1, <1>2, <1>3, <1>4, <1>5, <1>6 DEF MediumStep

LEMMA CellInd == TypeInv /\ IndInv /\ CellStep => IndInv'
<1> SUFFICES ASSUME TypeInv, IndInv, CellStep PROVE IndInv'
  OBVIOUS
<1> USE DEF TypeInv, TypeOK, InTrigger, BpsFault, Relays, Outputs,
            IndInv, MotorNeedsPrecharge, DriveIsPowered, FaultPath, ClosingDelay,
            PackConnected, ResetProgress,
            CellUnchanged, CellGoto, Raise, relayVars, faultVars, prechargeVars
<1>1. CASE CellTriggerFails
  BY <1>1 DEF CellTriggerFails, CountFailure
<1>2. CASE CellTrigger
  BY <1>2 DEF CellTrigger
<1>3. CASE CellReadFails
  BY <1>3 DEF CellReadFails, CountFailure
<1>4. CASE CellRead
  BY <1>4 DEF CellRead
<1>5. CASE CellScan
  BY <1>5 DEF CellScan
<1>6. CASE CellOpenSolar
  BY <1>6 DEF CellOpenSolar
<1>7. CASE CellSolarFlag
  BY <1>7 DEF CellSolarFlag
<1>8. CASE CellCheck
  BY <1>8 DEF CellCheck, AfterCheck
<1>9. CASE CellSleep
  BY <1>9 DEF CellSleep
<1>10. CASE CellFaultBit
  BY <1>10 DEF CellFaultBit
<1>11. CASE CellFaultCan
  BY <1>11 DEF CellFaultCan
<1>12. CASE CellFaultStep
  BY <1>12 DEF CellFaultStep, FaultRaised, AfterFault
<1>13. CASE CellFaultEntry
  BY <1>13 DEF CellFaultEntry, FaultRaised, AfterFault, ResetPins, ResetFlags
<1>14. QED
  BY <1>1, <1>2, <1>3, <1>4, <1>5, <1>6, <1>7, <1>8, <1>9, <1>10, <1>11, <1>12, <1>13
  DEF CellStep

LEMMA StutterInd == IndInv /\ UNCHANGED vars => IndInv'
  BY DEF IndInv, MotorNeedsPrecharge, DriveIsPowered, FaultPath, ClosingDelay,
         PackConnected, ResetProgress, vars, stateVars, relayVars, faultVars,
         prechargeVars, cellVars

LEMMA SafetyIndInv == Safety => [](TypeInv /\ IndInv)
<1>1. TypeInv /\ IndInv /\ [Next]_vars => IndInv'
  BY FastInd, MediumInd, CellInd, StutterInd DEF Next
<1>2. QED
  BY InitInd, <1>1, SafetyTypeInv, PTL DEF Safety

-----------------------------------------------------------------------------
\* The motor contactor is never energised before precharge is complete, for any
\* precharge threshold and any voltages reported.
THEOREM NoInrush == Safety => []MotorNeedsPrecharge
<1>1. IndInv => MotorNeedsPrecharge
  BY DEF IndInv
<1>2. QED
  BY SafetyIndInv, <1>1, PTL

\* Outside FAULT the motor and the Wavesculptor supply are on exactly in DRIVE.
THEOREM PoweredExactlyInDrive == Safety => []DriveIsPowered
<1>1. IndInv => DriveIsPowered
  BY DEF IndInv
<1>2. QED
  BY SafetyIndInv, <1>1, PTL

\* Outside FAULT the motor is connected only to a fully connected pack.
THEOREM MotorBehindPack == Safety => []MotorNeedsPack
<1>1. TypeInv /\ IndInv => MotorNeedsPack
  BY DEF TypeInv, TypeOK, RearControllerState, IndInv, DriveIsPowered, PackConnected,
         MotorNeedsPack
<1>2. QED
  BY SafetyIndInv, <1>1, PTL

\* When the FAULT entry of either task is over, the motor is off.
THEOREM FaultIsSafe == Safety => []FaultCutsMotor
<1>1. IndInv => FaultCutsMotor
  BY DEF IndInv, ResetProgress, FaultCutsMotor
<1>2. QED
  BY SafetyIndInv, <1>1, PTL

\* The four together: the contactor is energised only with precharge done, with
\* its supply, exactly in DRIVE, behind a connected pack, and never in a FAULT
\* whose entry is over.
THEOREM MotorAlwaysSafe == Safety => []MotorIsSafe
<1>1. MotorNeedsPrecharge /\ DriveIsPowered /\ MotorNeedsPack /\ FaultCutsMotor
        => MotorIsSafe
  BY DEF MotorIsSafe
<1>2. QED
  BY NoInrush, PoweredExactlyInDrive, MotorBehindPack, FaultIsSafe, <1>1, PTL

\* A step of the medium task that raises the motor or the Wavesculptor supply
\* is MediumDrive, and MediumDrive starts without a recorded fault.
LEMMA EngageNeedsNoFault ==
  TypeInv /\ [Next]_vars /\ bps_fault # {} =>
    \A o \in {"motor", "lv"} : pin'[o] => pin[o]
<1> SUFFICES ASSUME TypeInv, [Next]_vars, bps_fault # {}
             PROVE  /\ pin'["motor"] => pin["motor"]
                    /\ pin'["lv"] => pin["lv"]
  OBVIOUS
<1> USE DEF TypeInv, TypeOK, Relays, Outputs
<1>1. CASE FastCycle
  BY <1>1 DEF FastCycle, relayVars
<1>2. CASE MediumStart \/ MediumResume
  BY <1>2 DEF MediumStart, MediumResume, MediumResumeTo, MediumResumeLast, BeginClose
<1>3. CASE MediumFault \/ MediumNeutral \/ MediumHold
  BY <1>3 DEF MediumFault, EnterFault, MediumNeutral, EnterIdle, MediumHold, relayVars
<1>4. CASE MediumDrive
  BY <1>4 DEF MediumDrive, FaultPending, WantsDrive
<1>5. CASE CellStep
  <2>1. CASE CellOpenSolar
    BY <2>1 DEF CellOpenSolar
  <2>2. CASE CellFaultEntry
    BY <2>2 DEF CellFaultEntry
  <2>3. CASE UNCHANGED pin
    BY <2>3
  <2>4. QED
    BY <1>5, <2>1, <2>2, <2>3
    DEF CellStep, CellTriggerFails, CellTrigger, CellReadFails, CellRead, CellScan,
        CellSolarFlag, CellCheck, CellSleep, CellFaultBit, CellFaultCan, CellFaultStep,
        relayVars
<1>6. CASE UNCHANGED vars
  BY <1>6 DEF vars, relayVars
<1>7. QED
  BY <1>1, <1>2, <1>3, <1>4, <1>5, <1>6 DEF Next, MediumStep

\* From the moment any BPS fault is recorded, no step energises the motor.
THEOREM NoEngage == Safety => NoEngageAfterFault
<1>1. TypeInv /\ [Next]_vars =>
        [bps_fault # {} => \A o \in {"motor", "lv"} : pin'[o] => pin[o]]_vars
  BY EngageNeedsNoFault
<1>2. QED
  BY SafetyTypeInv, <1>1, PTL DEF Safety, NoEngageAfterFault

\* In FAULT, with no closing delay in flight, no task raises any output.
THEOREM FaultStaysDown == Safety => FaultRaisesNothing
<1>1. TypeInv /\ [Next]_vars =>
        [s_current_state = "FAULT" /\ mediumPc = "wait" =>
           \A o \in Outputs : pin'[o] => pin[o]]_vars
  <2> SUFFICES ASSUME TypeInv, Next, s_current_state = "FAULT", mediumPc = "wait",
                      NEW o \in Outputs, pin'[o]
               PROVE  pin[o]
    OBVIOUS
  <2> USE DEF TypeInv, TypeOK, Relays, Outputs
  <2>1. CASE FastCycle
    BY <2>1 DEF FastCycle, relayVars
  <2>2. CASE MediumStep
    BY <2>2
    DEF MediumStep, MediumStart, NotStarted, MediumResume, MediumResumeTo,
        MediumResumeLast, MediumFault, FaultPending, MediumDrive, WantsDrive,
        MediumNeutral, WantsNeutral, MediumHold, relayVars
  <2>3. CASE CellOpenSolar
    BY <2>3 DEF CellOpenSolar
  <2>4. CASE CellFaultEntry
    BY <2>4 DEF CellFaultEntry
  <2>5. CASE UNCHANGED pin
    BY <2>5
  <2>6. QED
    BY <2>1, <2>2, <2>3, <2>4, <2>5
    DEF Next, CellStep, CellTriggerFails, CellTrigger, CellReadFails, CellRead, CellScan,
        CellSolarFlag, CellCheck, CellSleep, CellFaultBit, CellFaultCan, CellFaultStep,
        relayVars
<1>2. QED
  BY SafetyTypeInv, <1>1, PTL DEF Safety, FaultRaisesNothing

\* Both together: what a fault has cut is not turned on again.
THEOREM FaultAlwaysLatches == Safety => FaultLatches
<1>1. QED
  BY NoEngage, FaultStaysDown DEF FaultLatches

-----------------------------------------------------------------------------
\* The motor side of the controller refines PowerInterlock.  Recording a fault
\* and entering FAULT are two steps of the cell task, with the relay reset in
\* nine more: they map to RecordFault, Latch and Cut, whatever runs in between.
LEMMA InitRefines == Init => Interlock!Init
  BY DEF Init, Interlock!Init, Outputs, Relays

LEMMA FastRefines ==
  TypeInv /\ FastCycle => [Interlock!Next]_(Interlock!vars)
<1> SUFFICES ASSUME TypeInv, FastCycle PROVE [Interlock!Next]_(Interlock!vars)
  OBVIOUS
<1>1. UNCHANGED <<s_current_state, bps_fault, pin>>
  BY DEF FastCycle, stateVars, faultVars, relayVars
<1>2. precharge_complete' = TRUE \/ precharge_complete' = precharge_complete
  <2>1. precharge_complete' \in BOOLEAN /\ (precharge_complete => precharge_complete')
    BY FastType DEF FastCycle, PrechargeRun, TypeInv, TypeOK
  <2>2. QED
    BY <2>1 DEF TypeInv, TypeOK
<1>3. QED
  BY <1>1, <1>2 DEF Interlock!Next, Interlock!Precharged, Interlock!vars

LEMMA MediumRefines ==
  TypeInv /\ IndInv /\ MediumStep => [Interlock!Next]_(Interlock!vars)
<1> SUFFICES ASSUME TypeInv, IndInv, MediumStep PROVE [Interlock!Next]_(Interlock!vars)
  OBVIOUS
<1> USE DEF TypeInv, TypeOK, Relays, Outputs, MediumUnchanged, stateVars, relayVars,
            faultVars, prechargeVars, BeginClose, Interlock!Next, Interlock!vars
<1>1. CASE MediumStart \/ MediumResume \/ MediumHold
  BY <1>1 DEF MediumStart, MediumResume, MediumResumeTo, MediumResumeLast, MediumHold
<1>2. CASE MediumFault
  BY <1>2 DEF MediumFault, FaultPending, EnterFault, Interlock!Latch
<1>3. CASE MediumDrive
  BY <1>3 DEF MediumDrive, FaultPending, WantsDrive, EnterDrive, Interlock!Engage
<1>4. CASE MediumNeutral
  BY <1>4 DEF MediumNeutral, FaultPending, WantsNeutral, EnterIdle, Interlock!Release
<1>5. QED
  BY <1>1, <1>2, <1>3, <1>4 DEF MediumStep

LEMMA CellRefines ==
  TypeInv /\ IndInv /\ CellStep => [Interlock!Next]_(Interlock!vars)
<1> SUFFICES ASSUME TypeInv, IndInv, CellStep PROVE [Interlock!Next]_(Interlock!vars)
  OBVIOUS
<1> USE DEF TypeInv, TypeOK, Relays, Outputs, CellUnchanged, relayVars, faultVars,
            prechargeVars, Interlock!Next, Interlock!vars
<1>1. CASE CellFaultBit
  BY <1>1 DEF CellFaultBit, Interlock!RecordFault
<1>2. CASE CellFaultStep
  BY <1>2 DEF CellFaultStep, IndInv, FaultPath, Interlock!Latch
<1>3. CASE CellFaultEntry
  BY <1>3 DEF CellFaultEntry, IndInv, FaultPath, Interlock!Cut
<1>4. CASE CellOpenSolar
  BY <1>4 DEF CellOpenSolar
<1>5. CASE UNCHANGED <<s_current_state, bps_fault, pin, precharge_complete>>
  BY <1>5
<1>6. QED
  BY <1>1, <1>2, <1>3, <1>4, <1>5
  DEF CellStep, CellTriggerFails, CellTrigger, CellReadFails, CellRead, CellScan,
      CellSolarFlag, CellCheck, CellSleep, CellFaultCan

\* Every execution of the three tasks is one of the fault latch.
THEOREM RefinesInterlock == Safety => InterlockSafety
<1>1. TypeInv /\ IndInv /\ [Next]_vars => [Interlock!Next]_(Interlock!vars)
  <2>1. UNCHANGED vars => UNCHANGED Interlock!vars
    BY DEF vars, stateVars, relayVars, faultVars, prechargeVars, Interlock!vars
  <2>2. QED
    BY <2>1, FastRefines, MediumRefines, CellRefines DEF Next
<1>2. QED
  BY InitRefines, SafetyIndInv, <1>1, PTL DEF Safety, InterlockSafety

-----------------------------------------------------------------------------
\* Progress.  The cell task has a statement for every value of cellPc, and so
\* has the medium task, but a cycle of it may leave everything as it is.
MediumHasWork ==
  mediumPc # "wait" \/ NotStarted \/ FaultPending \/ WantsDrive \/ bps_sent # bps_can

MediumIsReady == MediumHasWork => ENABLED <<MediumStep>>_vars

CellIsReady == ENABLED <<CellStep>>_vars

\* What the two tasks leave alone that the third moves on.
LEMMA FastKeeps == FastCycle \/ UNCHANGED vars =>
  UNCHANGED <<stateVars, relayVars, faultVars, bps_sent, cellVars, mediumPc>>
BY DEF FastCycle, vars

LEMMA CellKeeps == CellStep =>
  /\ UNCHANGED <<started, bps_sent, prechargeVars, drive_state, mediumPc>>
  /\ s_current_state' \in {s_current_state, "FAULT"}
  /\ bps_fault \subseteq bps_fault'
BY DEF CellStep, CellTriggerFails, CellTrigger, CellReadFails, CellRead, CellScan, CellOpenSolar,
       CellSolarFlag, CellCheck, CellSleep, CellFaultBit, CellFaultCan, CellFaultStep,
       CellFaultEntry, CellUnchanged, faultVars

\* A recorded fault: from anywhere in the medium task to FAULT, by whichever of
\* the two tasks gets there first.
FaultLeft ==
  CASE mediumPc = "wait"  -> IF NotStarted THEN 5 ELSE 1
    [] mediumPc = "pos"   -> 4
    [] mediumPc = "solar" -> 3
    [] OTHER              -> 2

FaultWithin(n) == FaultPending /\ FaultLeft <= n

FaultEntered == s_current_state = "FAULT"

\* With m below n: what is within n stays there, and a statement brings it within m.
FaultNearer(n, m) ==
  TypeInv /\ IndInv /\ FaultWithin(n) =>
    /\ [Next]_vars => FaultWithin(n)' \/ FaultEntered'
    /\ <<MediumStep>>_vars => FaultWithin(m)' \/ FaultEntered'

LEMMA FaultNears ==
  ASSUME TypeInv, IndInv, MediumStep, NEW n \in Nat, FaultWithin(n + 1)
  PROVE  FaultWithin(n)' \/ FaultEntered'
<1> USE DEF FaultWithin, FaultLeft, FaultEntered, FaultPending, NotStarted, TypeInv, TypeOK,
            Relays, RearControllerState, IndInv, ClosingDelay, MediumUnchanged, BeginClose,
            stateVars, faultVars
<1>1. CASE MediumStart
  BY <1>1 DEF MediumStart
<1>2. CASE MediumResume
  <2>1. CASE MediumResumeTo("pos", "solar") \/ MediumResumeTo("solar", "neg")
    BY <2>1 DEF MediumResumeTo
  <2>2. CASE MediumResumeLast("neg")
    <3>1. /\ mediumPc = "neg" /\ mediumPc' = "wait" /\ started'
          /\ UNCHANGED <<s_current_state, bps_fault>>
      BY <2>2 DEF MediumResumeLast
    <3>2. ~NotStarted'
      BY <3>1
    <3> QED
      BY <3>1, <3>2
  <2>3. CASE MediumResumeLast("motor")
    BY <2>3 DEF MediumResumeLast
  <2> QED
    BY <1>2, <2>1, <2>2, <2>3 DEF MediumResume
<1>3. CASE MediumFault
  BY <1>3 DEF MediumFault, EnterFault
<1>4. CASE MediumDrive \/ MediumNeutral \/ MediumHold
  BY <1>4 DEF MediumDrive, MediumNeutral, MediumHold
<1> QED
  BY <1>1, <1>2, <1>3, <1>4 DEF MediumStep

LEMMA FaultStep == \A n \in Nat : FaultNearer(n + 1, n)
<1> SUFFICES ASSUME NEW n \in Nat, TypeInv, IndInv, FaultWithin(n + 1)
             PROVE  /\ [Next]_vars => FaultWithin(n + 1)' \/ FaultEntered'
                    /\ <<MediumStep>>_vars => FaultWithin(n)' \/ FaultEntered'
  BY DEF FaultNearer
<1>1. MediumStep => FaultWithin(n)' \/ FaultEntered'
  BY FaultNears
<1>2. FaultWithin(n)' => FaultWithin(n + 1)'
  BY DEF FaultWithin, FaultLeft
<1>3. CellStep => FaultWithin(n + 1)' \/ FaultEntered'
  BY CellKeeps DEF FaultWithin, FaultLeft, FaultEntered, FaultPending, NotStarted
<1>4. FastCycle \/ UNCHANGED vars => FaultWithin(n + 1)'
  BY FastKeeps DEF FaultWithin, FaultLeft, FaultPending, NotStarted, stateVars, faultVars
<1> QED
  BY <1>1, <1>2, <1>3, <1>4 DEF Next

\* FAULT is left by nobody.
LEMMA FaultStays == FaultEntered /\ [Next]_vars => FaultEntered'
<1> SUFFICES ASSUME FaultEntered, [Next]_vars PROVE FaultEntered'
  OBVIOUS
<1> USE DEF FaultEntered
<1>1. CASE MediumStep
  BY <1>1 DEF MediumStep, MediumStart, MediumResume, MediumResumeTo, MediumResumeLast,
              MediumFault, MediumDrive, MediumNeutral, MediumHold, EnterFault, WantsDrive,
              WantsNeutral, stateVars
<1>2. CASE CellStep
  BY <1>2, CellKeeps
<1>3. CASE FastCycle \/ UNCHANGED vars
  BY <1>3, FastKeeps DEF stateVars
<1> QED
  BY <1>1, <1>2, <1>3 DEF Next

\* And the FAULT entry of the cell task goes through all its outputs.
ResetWithin(n) == cellPc = "reset" /\ 9 - resetIdx <= n

ResetOver == cellPc # "reset"

ResetNearer(n, m) ==
  TypeInv /\ ResetWithin(n) =>
    /\ [Next]_vars => ResetWithin(n)' \/ ResetOver'
    /\ <<CellStep>>_vars => ResetWithin(m)' \/ ResetOver'

LEMMA ResetStep == \A n \in Nat : ResetNearer(n + 1, n)
<1> SUFFICES ASSUME NEW n \in Nat, TypeInv, ResetWithin(n + 1)
             PROVE  /\ [Next]_vars => ResetWithin(n + 1)' \/ ResetOver'
                    /\ <<CellStep>>_vars => ResetWithin(n)' \/ ResetOver'
  BY DEF ResetNearer
<1>0. cellPc = "reset" /\ resetIdx \in 0..8 /\ raising \in BpsFault /\ 9 - resetIdx <= n + 1
  BY DEF TypeInv, TypeOK, ResetWithin, InTrigger
<1> USE DEF ResetOver
<1>1. ASSUME CellStep PROVE ResetWithin(n)' \/ ResetOver'
  <2>1. CellFaultEntry
    BY <1>0, <1>1 DEF CellStep, CellTriggerFails, CellTrigger, CellReadFails, CellRead, CellScan,
         CellOpenSolar, CellSolarFlag, CellCheck, CellSleep, CellFaultBit, CellFaultCan,
         CellFaultStep
  <2>2. CASE resetIdx < 8
    BY <1>0, <2>1, <2>2 DEF CellFaultEntry, ResetWithin
  <2>3. CASE ~(resetIdx < 8)
    <3>1. cellPc' = AfterFault[raising]
      BY <2>1, <2>3 DEF CellFaultEntry, FaultRaised
    <3> QED
      BY <1>0, <3>1 DEF AfterFault, BpsFault
  <2> QED
    BY <2>2, <2>3
<1>2. MediumStep => UNCHANGED <<cellPc, resetIdx>>
  BY DEF MediumStep, MediumStart, MediumResume, MediumResumeTo, MediumResumeLast, MediumFault,
         MediumDrive, MediumNeutral, MediumHold, MediumUnchanged, cellVars
<1>3. FastCycle \/ UNCHANGED vars => UNCHANGED <<cellPc, resetIdx>>
  BY FastKeeps DEF cellVars
<1>4. UNCHANGED <<cellPc, resetIdx>> => ResetWithin(n + 1)'
  BY DEF ResetWithin
<1>5. CellStep => resetIdx' \in 0..8
  BY CellType DEF TypeInv, TypeOK
<1>6. \A i \in 0..8 : 9 - i <= n => 9 - i <= n + 1
  OBVIOUS
<1>7. resetIdx' \in 0..8 /\ ResetWithin(n)' => ResetWithin(n + 1)'
  BY <1>6 DEF ResetWithin
<1> QED
  BY <1>1, <1>2, <1>3, <1>4, <1>5, <1>7 DEF Next

\* A recorded BPS fault ends in FAULT with the motor and its supply off, whichever
\* task gets there first, with a medium and a cell task that are never blocked.
THEOREM RearFaultStops ==
  Spec /\ []MediumIsReady /\ []CellIsReady => FaultStopsMotor
<1>1. /\ FaultNearer(5, 4) /\ FaultNearer(4, 3) /\ FaultNearer(3, 2) /\ FaultNearer(2, 1)
      /\ FaultNearer(1, 0)
  BY FaultStep
<1>2. TypeInv /\ bps_fault # {} => FaultWithin(5) \/ FaultEntered
  BY DEF FaultWithin, FaultLeft, FaultEntered, FaultPending, TypeInv, TypeOK, Relays
<1>3. ~FaultWithin(0)
  BY DEF FaultWithin, FaultLeft
<1>4. FaultWithin(1) \/ FaultWithin(2) \/ FaultWithin(3) \/ FaultWithin(4) \/ FaultWithin(5)
        => MediumHasWork
  BY DEF FaultWithin, MediumHasWork
<1>5. /\ ResetNearer(9, 8) /\ ResetNearer(8, 7) /\ ResetNearer(7, 6) /\ ResetNearer(6, 5)
      /\ ResetNearer(5, 4) /\ ResetNearer(4, 3) /\ ResetNearer(3, 2) /\ ResetNearer(2, 1)
      /\ ResetNearer(1, 0)
  BY ResetStep
<1>6. TypeInv => /\ ~ResetOver => ResetWithin(9)
                 /\ ~ResetWithin(0)
  BY DEF ResetWithin, ResetOver, TypeInv, TypeOK
<1>7. FaultEntered /\ FaultCutsMotor /\ ResetOver =>
        s_current_state = "FAULT" /\ ~pin["motor"] /\ ~pin["lv"]
  BY DEF FaultEntered, FaultCutsMotor, ResetOver
<1> QED
  BY SafetyIndInv, FaultIsSafe, FaultStays, <1>1, <1>2, <1>3, <1>4, <1>5, <1>6, <1>7, PTL
  DEF Spec, Safety, MediumIsReady, CellIsReady, FaultNearer, ResetNearer, FaultStopsMotor

\* The CAN field shows the mask, but for the fault whose bit has just been set.
FieldTrails ==
  /\ bps_can \subseteq bps_fault
  /\ cellPc # "can" => bps_can = bps_fault

LEMMA FieldAlwaysTrails == Safety => []FieldTrails
<1>1. Init => FieldTrails
  BY DEF Init, FieldTrails
<1>2. FieldTrails /\ MediumStep => FieldTrails'
  BY DEF MediumStep, MediumStart, MediumResume, MediumResumeTo, MediumResumeLast, MediumFault,
         MediumDrive, MediumNeutral, MediumHold, MediumUnchanged, faultVars, cellVars, FieldTrails
<1>3. FieldTrails /\ CellStep => FieldTrails'
  BY DEF CellStep, CellTriggerFails, CellTrigger, CellReadFails, CellRead, CellScan,
         CellOpenSolar, CellSolarFlag, CellCheck, CellSleep, CellFaultBit, CellFaultCan,
         CellFaultStep, CellFaultEntry, CellGoto, FaultRaised, CountFailure, faultVars, FieldTrails
<1>4. FieldTrails /\ (FastCycle \/ UNCHANGED vars) => FieldTrails'
  BY FastKeeps DEF faultVars, cellVars, FieldTrails
<1> QED
  BY <1>1, <1>2, <1>3, <1>4, PTL DEF Safety, Next

\* A fault on its way to the bus: in the mask, in the field, on the bus.
Recorded(f)  == f \in bps_fault
Published(f) == f \in bps_can
Sent(f)      == f \in bps_sent

\* Whatever has been reached is kept.
LEMMA FaultsAreKept ==
  ASSUME NEW f \in BpsFault
  PROVE  TypeInv /\ FieldTrails /\ [Next]_vars =>
           /\ Recorded(f) => Recorded(f)'
           /\ Published(f) => Published(f)'
           /\ Recorded(f) /\ <<CellStep>>_vars => Published(f)' \/ cellPc # "can"
           /\ Published(f) /\ Sent(f) => Sent(f)'
<1> SUFFICES ASSUME TypeInv, FieldTrails, [Next]_vars
             PROVE  /\ Recorded(f) => Recorded(f)'
                    /\ Published(f) => Published(f)'
                    /\ Recorded(f) /\ <<CellStep>>_vars => Published(f)' \/ cellPc # "can"
                    /\ Published(f) /\ Sent(f) => Sent(f)'
  OBVIOUS
<1> USE DEF Recorded, Published, Sent, FieldTrails
<1>1. CASE MediumStep
  <2>1. UNCHANGED <<bps_fault, bps_can, cellPc>> /\ bps_sent' \in {bps_sent, bps_can}
    BY <1>1 DEF MediumStep, MediumStart, MediumResume, MediumResumeTo, MediumResumeLast,
                MediumFault, MediumDrive, MediumNeutral, MediumHold, MediumUnchanged, Transmit,
                faultVars, cellVars
  <2>2. <<CellStep>>_vars => cellPc # "can"
    BY <2>1 DEF CellStep, CellTriggerFails, CellTrigger, CellReadFails, CellRead, CellScan,
         CellOpenSolar, CellSolarFlag, CellCheck, CellSleep, CellFaultBit, CellFaultCan, CellGoto,
         CellFaultStep, CellFaultEntry
  <2> QED
    BY <2>1, <2>2
<1>2. CASE CellStep
  <2>1. \/ UNCHANGED <<bps_fault, bps_can>> /\ cellPc # "can"
        \/ bps_fault' = bps_fault \union {raising} /\ UNCHANGED bps_can /\ cellPc # "can"
        \/ bps_can' = bps_fault /\ UNCHANGED bps_fault
    BY <1>2 DEF CellStep, CellTriggerFails, CellTrigger, CellReadFails, CellRead, CellScan,
         CellOpenSolar, CellSolarFlag, CellCheck, CellSleep, CellFaultBit, CellFaultCan,
         CellFaultStep, CellFaultEntry, faultVars
  <2> QED
    BY <1>2, <2>1, CellKeeps
<1>3. CASE FastCycle \/ UNCHANGED vars
  <2>1. UNCHANGED <<bps_fault, bps_can, bps_sent, cellPc>>
    BY <1>3, FastKeeps DEF faultVars, cellVars
  <2>2. <<CellStep>>_vars => cellPc # "can"
    BY <2>1 DEF CellStep, CellTriggerFails, CellTrigger, CellReadFails, CellRead, CellScan,
         CellOpenSolar, CellSolarFlag, CellCheck, CellSleep, CellFaultBit, CellFaultCan, CellGoto,
         CellFaultStep, CellFaultEntry
  <2> QED
    BY <2>1, <2>2
<1> QED
  BY <1>1, <1>2, <1>3 DEF Next

\* A field that is not on the bus yet: from anywhere in the medium task to the
\* end of a cycle.
SendLeft ==
  CASE mediumPc = "wait"  -> IF NotStarted THEN 4 ELSE 2
    [] mediumPc = "pos"   -> 3
    [] mediumPc = "solar" -> 2
    [] OTHER              -> 1

SendWithin(f, n) == Published(f) /\ ~Sent(f) /\ SendLeft <= n

SendNearer(f, n, m) ==
  TypeInv /\ IndInv /\ SendWithin(f, n) =>
    /\ [Next]_vars /\ Published(f)' => SendWithin(f, n)' \/ Sent(f)'
    /\ <<MediumStep>>_vars => SendWithin(f, m)' \/ Sent(f)'

LEMMA SendNears ==
  ASSUME TypeInv, IndInv, NEW f \in BpsFault, MediumStep, NEW n \in Nat, SendWithin(f, n + 1)
  PROVE  SendWithin(f, n)' \/ Sent(f)'
<1> USE DEF SendWithin, SendLeft, Published, Sent, NotStarted, TypeInv, TypeOK, Relays,
            IndInv, ClosingDelay, MediumUnchanged, BeginClose, Transmit, stateVars, faultVars
<1>1. CASE MediumStart
  BY <1>1 DEF MediumStart
<1>2. CASE MediumResume
  BY <1>2 DEF MediumResume, MediumResumeTo, MediumResumeLast
<1>3. CASE MediumFault \/ MediumNeutral \/ MediumHold
  BY <1>3 DEF MediumFault, MediumNeutral, MediumHold
<1>4. CASE MediumDrive
  BY <1>4 DEF MediumDrive, EnterDrive
<1> QED
  BY <1>1, <1>2, <1>3, <1>4 DEF MediumStep

LEMMA SendStep == \A f \in BpsFault : \A n \in Nat : SendNearer(f, n + 1, n)
<1> SUFFICES ASSUME NEW f \in BpsFault, NEW n \in Nat, TypeInv, IndInv, SendWithin(f, n + 1)
             PROVE  /\ [Next]_vars /\ Published(f)' => SendWithin(f, n + 1)' \/ Sent(f)'
                    /\ <<MediumStep>>_vars => SendWithin(f, n)' \/ Sent(f)'
  BY DEF SendNearer
<1>1. MediumStep => SendWithin(f, n)' \/ Sent(f)'
  BY SendNears
<1>2. SendWithin(f, n)' => SendWithin(f, n + 1)'
  BY DEF SendWithin, SendLeft
<1>3. CellStep /\ Published(f)' => SendWithin(f, n + 1)'
  BY CellKeeps DEF SendWithin, SendLeft, Sent, NotStarted
<1>4. FastCycle \/ UNCHANGED vars => SendWithin(f, n + 1)'
  BY FastKeeps DEF SendWithin, SendLeft, Published, Sent, NotStarted, stateVars, faultVars
<1> QED
  BY <1>1, <1>2, <1>3, <1>4 DEF Next

FieldIsOpen == cellPc # "can"

LEMMA RearBroadcastsOne ==
  ASSUME NEW f \in BpsFault
  PROVE  Spec /\ []MediumIsReady /\ []CellIsReady => (f \in bps_fault ~> [](f \in bps_sent))
<1>1. /\ SendNearer(f, 4, 3) /\ SendNearer(f, 3, 2) /\ SendNearer(f, 2, 1) /\ SendNearer(f, 1, 0)
  BY SendStep
<1>2. Published(f) => SendWithin(f, 4) \/ Sent(f)
  BY DEF SendWithin, SendLeft
<1>3. ~SendWithin(f, 0)
  BY DEF SendWithin, SendLeft
<1>4. Published(f) /\ ~Sent(f) => MediumHasWork
  BY DEF Published, Sent, MediumHasWork
<1>5. TypeInv /\ FieldTrails /\ [Next]_vars =>
        /\ Recorded(f) => Recorded(f)'
        /\ Published(f) => Published(f)'
        /\ Recorded(f) /\ <<CellStep>>_vars => Published(f)' \/ FieldIsOpen
        /\ Published(f) /\ Sent(f) => Sent(f)'
  BY FaultsAreKept DEF FieldIsOpen
<1>6. FieldTrails /\ Recorded(f) /\ FieldIsOpen => Published(f)
  BY DEF FieldTrails, Recorded, Published, FieldIsOpen
<1>7. SendWithin(f, 4) \/ SendWithin(f, 3) \/ SendWithin(f, 2) \/ SendWithin(f, 1)
        => Published(f) /\ ~Sent(f)
  BY DEF SendWithin
<1> QED
  BY SafetyIndInv, FieldAlwaysTrails, <1>1, <1>2, <1>3, <1>4, <1>5, <1>6, <1>7, PTL
  DEF Spec, Safety, MediumIsReady, CellIsReady, SendNearer, Recorded, Sent

\* Every recorded fault reaches the bus and is in every frame from then on, with a
\* medium and a cell task that are never blocked.
THEOREM RearBroadcasts == Spec /\ []MediumIsReady /\ []CellIsReady => FaultIsBroadcast
BY RearBroadcastsOne DEF FaultIsBroadcast

\* In DRIVE the closing delay of the motor relay runs, or its flag is set.
DriveCloses == s_current_state = "DRIVE" /\ mediumPc # "motor" => closed["motor"]

LEMMA DriveAlwaysCloses == Safety => []DriveCloses
<1>1. Init => DriveCloses
  BY DEF Init, DriveCloses
<1>2. TypeInv /\ IndInv /\ DriveCloses /\ MediumStep => DriveCloses'
  <2> SUFFICES ASSUME TypeInv, IndInv, DriveCloses, MediumStep PROVE DriveCloses'
    OBVIOUS
  <2> USE DEF DriveCloses, TypeInv, TypeOK, Relays, IndInv, ClosingDelay, BeginClose, stateVars,
              relayVars
  <2>1. CASE MediumStart
    BY <2>1 DEF MediumStart, NotStarted
  <2>2. CASE MediumResume
    BY <2>2 DEF MediumResume, MediumResumeTo, MediumResumeLast
  <2>3. CASE MediumFault \/ MediumNeutral
    BY <2>3 DEF MediumFault, EnterFault, MediumNeutral, EnterIdle
  <2>4. CASE MediumDrive \/ MediumHold
    BY <2>4 DEF MediumDrive, EnterDrive, MediumHold
  <2> QED
    BY <2>1, <2>2, <2>3, <2>4 DEF MediumStep
<1>3. TypeInv /\ IndInv /\ DriveCloses /\ CellStep => DriveCloses'
  <2> SUFFICES ASSUME TypeInv, IndInv, DriveCloses, CellStep, s_current_state' = "DRIVE"
               PROVE  DriveCloses'
    BY DEF DriveCloses
  <2>1. s_current_state = "DRIVE" /\ mediumPc' = mediumPc
    BY CellKeeps
  <2>2. cellPc # "reset"
    BY <2>1 DEF IndInv, FaultPath
  <2>3. closed'["motor"] = closed["motor"]
    BY <2>2 DEF CellStep, CellTriggerFails, CellTrigger, CellReadFails, CellRead, CellScan,
         CellOpenSolar, CellSolarFlag, CellCheck, CellSleep, CellFaultBit, CellFaultCan,
         CellFaultStep, CellFaultEntry, relayVars, TypeInv, TypeOK, Relays
  <2> QED
    BY <2>1, <2>3 DEF DriveCloses
<1>4. DriveCloses /\ (FastCycle \/ UNCHANGED vars) => DriveCloses'
  BY FastKeeps DEF DriveCloses, stateVars, relayVars
<1> QED
  BY SafetyIndInv, <1>1, <1>2, <1>3, <1>4, PTL DEF Safety, Next

DriveIsAsked == precharge_complete /\ bps_fault = {} /\ drive_state \in DriveRequests

\* From anywhere in the medium task to DRIVE and the end of the closing delay.
DriveLeft ==
  CASE mediumPc = "wait"  -> IF NotStarted THEN 6 ELSE 2
    [] mediumPc = "pos"   -> 5
    [] mediumPc = "solar" -> 4
    [] mediumPc = "neg"   -> 3
    [] OTHER              -> 1

DriveSettled == s_current_state = "DRIVE" /\ mediumPc = "wait"

DriveWithin(n) == ~DriveSettled /\ DriveLeft <= n

\* With m below n: what is within n stays there, and a statement brings it within m.
DriveNearer(n, m) ==
  TypeInv /\ IndInv /\ DriveIsAsked /\ DriveWithin(n) =>
    /\ [Next]_vars /\ DriveIsAsked' => DriveWithin(n)' \/ DriveSettled'
    /\ <<MediumStep>>_vars => DriveWithin(m)' \/ DriveSettled'

LEMMA DriveNears ==
  ASSUME TypeInv, IndInv, DriveIsAsked, MediumStep, NEW n \in Nat, DriveWithin(n + 1)
  PROVE  DriveWithin(n)' \/ DriveSettled'
<1> USE DEF DriveWithin, DriveLeft, DriveSettled, DriveIsAsked, NotStarted, TypeInv, TypeOK,
            Relays, RearControllerState, IndInv, ClosingDelay, FaultPath, BeginClose, stateVars
<1>1. CASE MediumStart
  BY <1>1 DEF MediumStart
<1>2. CASE MediumResume
  <2>1. CASE MediumResumeTo("pos", "solar") \/ MediumResumeTo("solar", "neg")
    BY <2>1 DEF MediumResumeTo
  <2>2. CASE MediumResumeLast("neg")
    <3>1. /\ mediumPc = "neg" /\ mediumPc' = "wait" /\ started'
          /\ UNCHANGED s_current_state
      BY <2>2 DEF MediumResumeLast
    <3>2. ~NotStarted'
      BY <3>1
    <3> QED
      BY <3>1, <3>2
  <2>3. CASE MediumResumeLast("motor")
    BY <2>3 DEF MediumResumeLast
  <2> QED
    BY <1>2, <2>1, <2>2, <2>3 DEF MediumResume
<1>3. CASE MediumDrive
  BY <1>3 DEF MediumDrive, EnterDrive
<1>4. CASE MediumFault \/ MediumNeutral
  BY <1>4 DEF MediumFault, FaultPending, MediumNeutral, WantsNeutral, DriveRequests,
              NeutralRequests
<1>5. CASE MediumHold
  BY <1>5 DEF MediumHold, WantsDrive
<1> QED
  BY <1>1, <1>2, <1>3, <1>4, <1>5 DEF MediumStep

LEMMA DriveStep == \A n \in Nat : DriveNearer(n + 1, n)
<1> SUFFICES ASSUME NEW n \in Nat, TypeInv, IndInv, DriveIsAsked, DriveWithin(n + 1)
             PROVE  /\ [Next]_vars /\ DriveIsAsked' => DriveWithin(n + 1)' \/ DriveSettled'
                    /\ <<MediumStep>>_vars => DriveWithin(n)' \/ DriveSettled'
  BY DEF DriveNearer
<1>1. MediumStep => DriveWithin(n)' \/ DriveSettled'
  BY DriveNears
<1>2. DriveWithin(n)' => DriveWithin(n + 1)'
  BY DEF DriveWithin, DriveLeft
<1>3. CellStep /\ DriveIsAsked' => DriveWithin(n + 1)'
  <2> SUFFICES ASSUME CellStep, DriveIsAsked' PROVE DriveWithin(n + 1)'
    OBVIOUS
  <2>1. s_current_state' # "FAULT"
    BY CellInd DEF DriveIsAsked, IndInv, FaultPath
  <2> QED
    BY <2>1, CellKeeps DEF DriveWithin, DriveLeft, DriveSettled, NotStarted
<1>4. FastCycle \/ UNCHANGED vars => DriveWithin(n + 1)'
  BY FastKeeps DEF DriveWithin, DriveLeft, DriveSettled, NotStarted, stateVars
<1> QED
  BY <1>1, <1>2, <1>3, <1>4 DEF Next

LEMMA DriveStays ==
  TypeInv /\ IndInv /\ DriveIsAsked /\ DriveSettled /\ [Next]_vars /\ DriveIsAsked'
    => DriveSettled'
<1> SUFFICES ASSUME TypeInv, IndInv, DriveIsAsked, DriveSettled, [Next]_vars, DriveIsAsked'
             PROVE  DriveSettled'
  OBVIOUS
<1> USE DEF DriveSettled, DriveIsAsked
<1>1. CASE MediumStep
  BY <1>1 DEF MediumStep, MediumStart, MediumResume, MediumResumeTo, MediumResumeLast,
         MediumFault, MediumDrive, MediumNeutral, MediumHold, NotStarted, FaultPending, WantsDrive,
         WantsNeutral, DriveRequests, NeutralRequests, stateVars
<1>2. CASE CellStep
  <2>1. s_current_state' # "FAULT"
    BY <1>2, CellInd DEF IndInv, FaultPath
  <2> QED
    BY <1>2, <2>1, CellKeeps
<1>3. CASE FastCycle \/ UNCHANGED vars
  BY <1>3, FastKeeps DEF stateVars
<1> QED
  BY <1>1, <1>2, <1>3 DEF Next

\* With precharge done, no fault and a front controller that keeps asking, the
\* board ends in DRIVE with the motor relay closed: with a medium task that is
\* never blocked.
THEOREM RearDriveReached == Spec /\ []MediumIsReady => DriveIsReached
<1>1. /\ DriveNearer(6, 5) /\ DriveNearer(5, 4) /\ DriveNearer(4, 3) /\ DriveNearer(3, 2)
      /\ DriveNearer(2, 1) /\ DriveNearer(1, 0)
  BY DriveStep
<1>2. DriveWithin(6) \/ DriveSettled
  BY DEF DriveWithin, DriveLeft
<1>3. ~DriveWithin(0)
  BY DEF DriveWithin, DriveLeft
<1>4. TypeInv /\ IndInv /\ DriveIsAsked /\ ~DriveSettled => MediumHasWork
  BY DEF DriveIsAsked, DriveSettled, MediumHasWork, WantsDrive, TypeInv, TypeOK,
         RearControllerState, IndInv, FaultPath
<1>5. DriveWithin(6) \/ DriveWithin(5) \/ DriveWithin(4) \/ DriveWithin(3) \/ DriveWithin(2)
        \/ DriveWithin(1) => ~DriveSettled
  BY DEF DriveWithin
<1>6. DriveCloses /\ DriveSettled => s_current_state = "DRIVE" /\ closed["motor"]
  BY DEF DriveCloses, DriveSettled
<1>7. DriveIsAsked <=> precharge_complete /\ bps_fault = {} /\ drive_state \in DriveRequests
  BY DEF DriveIsAsked
<1> QED
  BY SafetyIndInv, DriveAlwaysCloses, DriveStays, <1>1, <1>2, <1>3, <1>4, <1>5, <1>6, <1>7, PTL
  DEF Spec, Safety, MediumIsReady, DriveNearer, DriveIsReached

-----------------------------------------------------------------------------
\* The fairness of PowerInterlock.  Its two fair steps are enabled only under their
\* guards.
LatchNeedsFault ==
  ENABLED <<Interlock!Latch>>_(Interlock!vars) => bps_fault # {} /\ ~(s_current_state = "FAULT")

CutNeedsMotor ==
  ENABLED <<Interlock!Cut>>_(Interlock!vars) => s_current_state = "FAULT" /\ pin["motor"]

\* The controller implements the fault latch with its fairness: neither step stays
\* enabled, as a recorded fault ends in FAULT with the motor cut.
THEOREM RearImplementsInterlock ==
  Spec /\ []MediumIsReady /\ []CellIsReady /\ []LatchNeedsFault /\ []CutNeedsMotor => InterlockSpec
<1>1. Spec => InterlockSafety
  BY RefinesInterlock, PTL DEF Spec
<1>2. Spec /\ []MediumIsReady /\ []CellIsReady => FaultStopsMotor
  BY RearFaultStops
<1>3. TypeInv /\ IndInv /\ s_current_state = "FAULT" => bps_fault # {}
  BY DEF IndInv, FaultPath
<1> QED
  BY SafetyIndInv, <1>1, <1>2, <1>3, PTL
  DEF Spec, FaultStopsMotor, InterlockSafety, InterlockSpec, Interlock!Spec, LatchNeedsFault, CutNeedsMotor
=============================================================================
