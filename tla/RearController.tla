--------------------------- MODULE RearController ---------------------------
(***************************************************************************)
(* The rear controller board: the state machine that owns the contactors   *)
(* of the traction battery, the BPS fault path, precharge and cell sensing. *)
(*                                                                         *)
(* Three FreeRTOS tasks share the storage, and their priorities decide     *)
(* which interleavings exist (master_tasks.c, cell_sense.c):               *)
(*   fast   (priority 4)  CAN receive and precharge; never blocks, so a    *)
(*                        cycle is one step                                *)
(*   medium (priority 3)  the state machine and CAN transmit; blocks only  *)
(*                        in the delay_ms of a relay that is being closed, *)
(*                        so it runs in bursts that end in such a delay    *)
(*   cell   (priority 2)  cell sensing; runs while medium is blocked and   *)
(*                        may be preempted between any two statements, so  *)
(*                        every statement on shared state is a step        *)
(* The 1 Hz task has an empty body (main.c:68).  The killswitch and        *)
(* thermistor faults, balancing and relay sensing are compiled out.        *)
(***************************************************************************)
EXTENDS Integers

CONSTANTS
  Readings,          \* what a complete or partial AFE readout can leave:
                     \* [max, min : cell voltage in 100 uV, pack : volts]
  BusVoltages,       \* motor bus voltages the Wavesculptor reports, in volts
  FrontStates,       \* drive states the front controller sends
  ValidCycles,       \* PRECHARGE_VALID_CYCLES
  PrechargeThreshold,\* PRECHARGE_THRESHOLD_VOLTS
  AfeNumRetries,     \* AFE_NUM_RETRIES
  RetryModulus,      \* the width of the counter retries (2^8 in the code)
  SolarLimit, OverLimit, UnderLimit, UnbalanceLimit   \* in 100 uV

ASSUME ReadingsAssumption ==
  Readings \subseteq [max : Nat, min : Nat, pack : Nat]

ASSUME LimitsAssumption ==
  /\ BusVoltages \subseteq Nat
  /\ ValidCycles \in Nat \ {0}
  /\ PrechargeThreshold \in Nat \ {0}
  /\ RetryModulus \in Nat \ {0}
  /\ AfeNumRetries \in 1..(RetryModulus - 1)
  /\ {SolarLimit, OverLimit, UnderLimit, UnbalanceLimit} \subseteq Nat

VARIABLES
  s_current_state,     \* the state machine's state
  started,             \* the START sequence has been completed
  pin,                 \* level of each relay enable and of the WS22 LV enable
  closed,              \* the storage's *_relay_closed flags
  bps_fault,           \* recorded BPS faults (a bit mask in the code)
  bps_can,             \* the bps_fault field of the CAN status message
  bps_sent,            \* the bps_fault field as last transmitted
  precharge_complete,
  valid_cycles,        \* consecutive precharge matches so far
  pack_voltage,        \* pack voltage of the last cell scan
  drive_state,         \* last drive state received from the front controller
  afe,                 \* cell voltages held in the AFE storage
  retries,             \* consecutive failed AFE exchanges
  mediumPc,            \* "wait", or the relay whose closing delay is running
  cellPc,              \* next statement of the cell task
  raising,             \* fault being raised by the cell task, or "none"
  resetIdx             \* next statement of its FAULT entry

stateVars     == <<s_current_state, started>>
relayVars     == <<pin, closed>>
faultVars     == <<bps_fault, bps_can>>
prechargeVars == <<precharge_complete, valid_cycles>>
cellVars      == <<pack_voltage, afe, retries, cellPc, raising, resetIdx>>

vars == <<stateVars, relayVars, faultVars, bps_sent, prechargeVars,
          drive_state, cellVars, mediumPc>>

RearControllerState == {"IDLE", "DRIVE", "FAULT", "START"}
Relays  == {"pos", "neg", "solar", "motor"}
Outputs == Relays \union {"lv"}
BpsFault == {"OVERVOLTAGE", "UNDERVOLTAGE", "UNBALANCE", "COMMS_LOSS_AFE"}

DriveRequests   == {"DRIVE", "CRUISE", "REVERSE", "REGEN"}
NeutralRequests == {"NEUTRAL", "FAULT"}

ZeroReading == [max |-> 0, min |-> 0, pack |-> 0]

AbsDiff(a, b) == IF a < b THEN b - a ELSE a - b

-----------------------------------------------------------------------------
\* Mutant: FAULT is entered without opening anything.
EnterFault_KeepsRelays ==
  /\ s_current_state' = "FAULT"
  /\ UNCHANGED relayVars

\* State entry.  The FAULT entry of the medium task is one burst; the cell
\* task runs the same statements one by one (CellFaultEntry below).
EnterFault ==
  /\ s_current_state' = "FAULT"
  /\ pin' = [o \in Outputs |-> FALSE]
  /\ closed' = [r \in Relays |-> FALSE]

\* IDLE: drop the Wavesculptor supply and open the motor relay.
EnterIdle ==
  /\ s_current_state' = "IDLE"
  /\ pin' = [pin EXCEPT !["lv"] = FALSE, !["motor"] = FALSE]
  /\ closed' = [closed EXCEPT !["motor"] = FALSE]

\* A relay is closed by raising its enable, waiting 250 ms, and only then
\* setting its flag: the task blocks in between with mediumPc = r.
BeginClose(r, level) ==
  /\ pin' = [level EXCEPT ![r] = TRUE]
  /\ mediumPc' = r

\* DRIVE: precharge_complete was tested in the same burst, so the fallback to
\* NEUTRAL of enter_state cannot be taken from here.
EnterDrive ==
  /\ s_current_state' = "DRIVE"
  /\ BeginClose("motor", [pin EXCEPT !["lv"] = TRUE])
  /\ closed' = closed

-----------------------------------------------------------------------------
\* The fast task: take over whatever CAN brought, then precharge_run.  The bus
\* voltage v is the last one received, and is read nowhere else.
PrechargeMatch(v) ==
  /\ v # 0
  /\ pack_voltage # 0
  /\ AbsDiff(v, pack_voltage) < PrechargeThreshold

\* Mutant: the early return on precharge_complete is gone.
PrechargeRun_KeepsCounting(v) ==
  /\ valid_cycles' = IF PrechargeMatch(v) THEN valid_cycles + 1 ELSE 0
  /\ precharge_complete' = (valid_cycles' >= ValidCycles)

PrechargeRun(v) ==
  IF precharge_complete
  THEN UNCHANGED <<precharge_complete, valid_cycles>>
  ELSE /\ valid_cycles' = IF PrechargeMatch(v) THEN valid_cycles + 1 ELSE 0
       /\ precharge_complete' = (valid_cycles' >= ValidCycles)

FastCycle ==
  \E v \in BusVoltages, d \in FrontStates :
    /\ drive_state' = d
    /\ PrechargeRun(v)
    /\ UNCHANGED <<stateVars, relayVars, faultVars, bps_sent, cellVars, mediumPc>>

-----------------------------------------------------------------------------
\* The medium task.  Every cycle that does not block ends by transmitting.
Transmit == bps_sent' = bps_can

NotStarted == s_current_state = "START" /\ ~started

MediumUnchanged == UNCHANGED <<faultVars, prechargeVars, drive_state, cellVars>>

\* First cycle: the START sequence closes pos, solar and neg in that order.
MediumStart ==
  /\ mediumPc = "wait"
  /\ NotStarted
  /\ BeginClose("pos", pin)
  /\ UNCHANGED <<stateVars, closed, bps_sent>>
  /\ MediumUnchanged

\* Wake from the closing delay of r and go on to the next relay, if any.
MediumResumeTo(r, next) ==
  /\ mediumPc = r
  /\ closed' = [closed EXCEPT ![r] = TRUE]
  /\ BeginClose(next, pin)
  /\ UNCHANGED <<stateVars, bps_sent>>
  /\ MediumUnchanged

MediumResumeLast(r) ==
  /\ mediumPc = r
  /\ closed' = [closed EXCEPT ![r] = TRUE]
  /\ mediumPc' = "wait"
  /\ started' = (started \/ r = "neg")
  /\ Transmit
  /\ UNCHANGED <<s_current_state, pin>>
  /\ MediumUnchanged

MediumResume ==
  \/ MediumResumeTo("pos", "solar")
  \/ MediumResumeTo("solar", "neg")
  \/ MediumResumeLast("neg")
  \/ MediumResumeLast("motor")

\* Mutant: the check reads the CAN field, which trails the fault mask.
FaultPending_FromCan == bps_can # {} /\ s_current_state # "FAULT"

\* A recorded fault pre-empts everything the front controller asks for.
FaultPending == bps_fault # {} /\ s_current_state # "FAULT"

MediumFault ==
  /\ mediumPc = "wait"
  /\ ~NotStarted
  /\ FaultPending
  /\ EnterFault
  /\ Transmit
  /\ UNCHANGED <<started, mediumPc>>
  /\ MediumUnchanged

\* Mutant: a drive request is not taken in START.
WantsDrive_NotFromStart ==
  /\ drive_state \in DriveRequests
  /\ s_current_state = "IDLE"
  /\ precharge_complete

WantsDrive ==
  /\ drive_state \in DriveRequests
  /\ s_current_state \in {"START", "IDLE"}
  /\ precharge_complete

\* Mutant: neutral resets a fault.
WantsNeutral_FromFault ==
  /\ drive_state \in NeutralRequests
  /\ s_current_state \in {"START", "DRIVE", "FAULT"}

WantsNeutral ==
  /\ drive_state \in NeutralRequests
  /\ s_current_state \in {"START", "DRIVE"}

MediumDrive ==
  /\ mediumPc = "wait"
  /\ ~NotStarted
  /\ ~FaultPending
  /\ WantsDrive
  /\ EnterDrive
  /\ UNCHANGED <<started, bps_sent>>
  /\ MediumUnchanged

MediumNeutral ==
  /\ mediumPc = "wait"
  /\ ~NotStarted
  /\ ~FaultPending
  /\ WantsNeutral
  /\ EnterIdle
  /\ Transmit
  /\ UNCHANGED <<started, mediumPc>>
  /\ MediumUnchanged

\* FAULT ignores both requests; INVALID and BRAKE are neither.
MediumHold ==
  /\ mediumPc = "wait"
  /\ ~NotStarted
  /\ ~FaultPending
  /\ ~WantsDrive
  /\ ~WantsNeutral
  /\ Transmit
  /\ UNCHANGED <<stateVars, relayVars, mediumPc>>
  /\ MediumUnchanged

MediumStep ==
  MediumStart \/ MediumResume \/ MediumFault \/ MediumDrive \/ MediumNeutral \/ MediumHold

-----------------------------------------------------------------------------
\* The cell task.  CellGoto leaves everything but the task's own position.
CellUnchanged == UNCHANGED <<started, bps_sent, prechargeVars, drive_state, mediumPc>>

CellGoto(pc) == cellPc' = pc /\ UNCHANGED <<raising, resetIdx>>

Raise(f) == cellPc' = "bit" /\ raising' = f /\ UNCHANGED resetIdx

\* An AFE exchange fails: count it, and raise the communication fault once the
\* retries are used up.  Either way the scan runs, on whatever the AFE holds.
CountFailure ==
  /\ retries' = (retries + 1) % RetryModulus
  /\ IF retries' >= AfeNumRetries
     THEN Raise("COMMS_LOSS_AFE")
     ELSE CellGoto("scan")

CellTriggerFails ==
  /\ cellPc = "trigger"
  /\ CountFailure
  /\ UNCHANGED <<s_current_state, relayVars, faultVars, pack_voltage, afe>>
  /\ CellUnchanged

CellTrigger ==
  /\ cellPc = "trigger"
  /\ CellGoto("read")
  /\ UNCHANGED <<s_current_state, relayVars, faultVars, pack_voltage, afe, retries>>
  /\ CellUnchanged

\* The readout stops at the first bad checksum, after some cells were stored.
CellReadFails ==
  /\ cellPc = "read"
  /\ afe' \in Readings \union {afe}
  /\ CountFailure
  /\ UNCHANGED <<s_current_state, relayVars, faultVars, pack_voltage>>
  /\ CellUnchanged

CellRead ==
  /\ cellPc = "read"
  /\ afe' \in Readings
  /\ retries' = 0
  /\ CellGoto("scan")
  /\ UNCHANGED <<s_current_state, relayVars, faultVars, pack_voltage>>
  /\ CellUnchanged

\* Scan for the extremes and the total; only this task writes the AFE storage.
CellScan ==
  /\ cellPc = "scan"
  /\ pack_voltage' = afe.pack
  /\ CellGoto("solar")
  /\ UNCHANGED <<s_current_state, relayVars, faultVars, afe, retries>>
  /\ CellUnchanged

CellOpenSolar ==
  /\ cellPc = "solar"
  /\ IF afe.max >= SolarLimit
     THEN pin' = [pin EXCEPT !["solar"] = FALSE] /\ CellGoto("solar_flag")
     ELSE UNCHANGED pin /\ CellGoto("over")
  /\ UNCHANGED <<s_current_state, closed, faultVars, pack_voltage, afe, retries>>
  /\ CellUnchanged

CellSolarFlag ==
  /\ cellPc = "solar_flag"
  /\ closed' = [closed EXCEPT !["solar"] = FALSE]
  /\ CellGoto("over")
  /\ UNCHANGED <<s_current_state, pin, faultVars, pack_voltage, afe, retries>>
  /\ CellUnchanged

\* The three limits are checked in this order, each with its own fault.
Violated(check) ==
  \/ check = "over"      /\ afe.max >= OverLimit
  \/ check = "under"     /\ afe.min <= UnderLimit
  \/ check = "unbalance" /\ afe.max - afe.min >= UnbalanceLimit

FaultOf == [over |-> "OVERVOLTAGE", under |-> "UNDERVOLTAGE", unbalance |-> "UNBALANCE"]

AfterCheck == [over |-> "under", under |-> "unbalance", unbalance |-> "sleep"]

CellCheck ==
  /\ cellPc \in {"over", "under", "unbalance"}
  /\ IF Violated(cellPc) THEN Raise(FaultOf[cellPc]) ELSE CellGoto(AfterCheck[cellPc])
  /\ UNCHANGED <<s_current_state, relayVars, faultVars, pack_voltage, afe, retries>>
  /\ CellUnchanged

CellSleep ==
  /\ cellPc = "sleep"
  /\ CellGoto("trigger")
  /\ UNCHANGED <<s_current_state, relayVars, faultVars, pack_voltage, afe, retries>>
  /\ CellUnchanged

\* trigger_bps_fault_with_cell: record the bit, publish it, step the machine.
AfterFault ==
  [COMMS_LOSS_AFE |-> "scan", OVERVOLTAGE |-> "under", UNDERVOLTAGE |-> "unbalance",
   UNBALANCE |-> "sleep"]

FaultRaised == cellPc' = AfterFault[raising] /\ raising' = "none" /\ resetIdx' = 0

CellFaultBit ==
  /\ cellPc = "bit"
  /\ bps_fault' = bps_fault \union {raising}
  /\ CellGoto("can")
  /\ UNCHANGED <<s_current_state, relayVars, bps_can, pack_voltage, afe, retries>>
  /\ CellUnchanged

\* Mutant: the field shows the new fault instead of the whole mask.
CellFaultCan_LatestOnly ==
  /\ cellPc = "can"
  /\ bps_can' = {raising}
  /\ CellGoto("step")
  /\ UNCHANGED <<s_current_state, relayVars, bps_fault, pack_voltage, afe, retries>>
  /\ CellUnchanged

CellFaultCan ==
  /\ cellPc = "can"
  /\ bps_can' = bps_fault
  /\ CellGoto("step")
  /\ UNCHANGED <<s_current_state, relayVars, bps_fault, pack_voltage, afe, retries>>
  /\ CellUnchanged

\* Already in FAULT the event is ignored, relays included.
CellFaultStep ==
  /\ cellPc = "step"
  /\ IF s_current_state = "FAULT"
     THEN UNCHANGED s_current_state /\ FaultRaised
     ELSE /\ s_current_state' = "FAULT"
          /\ cellPc' = "reset"
          /\ UNCHANGED <<raising, resetIdx>>
  /\ UNCHANGED <<relayVars, faultVars, pack_voltage, afe, retries>>
  /\ CellUnchanged

\* Mutant: relays_reset forgets the motor relay.
ResetPins_NoMotor == <<"lv", "pos", "neg", "solar", "solar">>

\* relays_disable_ws22_lv, then relays_reset: four enables, then four flags.
ResetPins  == <<"lv", "pos", "neg", "solar", "motor">>
ResetFlags == <<"pos", "neg", "solar", "motor">>

CellFaultEntry ==
  /\ cellPc = "reset"
  /\ IF resetIdx < 5
     THEN pin' = [pin EXCEPT ![ResetPins[resetIdx + 1]] = FALSE] /\ UNCHANGED closed
     ELSE closed' = [closed EXCEPT ![ResetFlags[resetIdx - 4]] = FALSE] /\ UNCHANGED pin
  /\ IF resetIdx < 8
     THEN resetIdx' = resetIdx + 1 /\ UNCHANGED <<cellPc, raising>>
     ELSE FaultRaised
  /\ UNCHANGED <<s_current_state, faultVars, pack_voltage, afe, retries>>
  /\ CellUnchanged

CellStep ==
  \/ CellTriggerFails \/ CellTrigger \/ CellReadFails \/ CellRead \/ CellScan
  \/ CellOpenSolar \/ CellSolarFlag \/ CellCheck \/ CellSleep
  \/ CellFaultBit \/ CellFaultCan \/ CellFaultStep \/ CellFaultEntry

-----------------------------------------------------------------------------
\* rear_controller_init, before the scheduler starts.
Init ==
  /\ s_current_state = "START"
  /\ started = FALSE
  /\ pin = [o \in Outputs |-> FALSE]
  /\ closed = [r \in Relays |-> FALSE]
  /\ bps_fault = {}
  /\ bps_can = {}
  /\ bps_sent = {}
  /\ precharge_complete = FALSE
  /\ valid_cycles = 0
  /\ pack_voltage = 0
  /\ drive_state = "INVALID"
  /\ afe = ZeroReading
  /\ retries = 0
  /\ mediumPc = "wait"
  /\ cellPc = "trigger"
  /\ raising = "none"
  /\ resetIdx = 0

Next == FastCycle \/ MediumStep \/ CellStep

Safety == Init /\ [][Next]_vars

\* The scheduler runs every task again and again: each is periodic, and the
\* higher priorities leave the lower ones time (20 ms, 300 ms and 5 s periods).
Spec == Safety /\ WF_vars(MediumStep) /\ WF_vars(CellStep)

-----------------------------------------------------------------------------
\* Every variable has its type.
TypeOK ==
  /\ s_current_state \in RearControllerState
  /\ started \in BOOLEAN
  /\ pin \in [Outputs -> BOOLEAN]
  /\ closed \in [Relays -> BOOLEAN]
  /\ bps_fault \in SUBSET BpsFault
  /\ bps_can \in SUBSET BpsFault
  /\ bps_sent \in SUBSET BpsFault
  /\ precharge_complete \in BOOLEAN
  /\ valid_cycles \in 0..ValidCycles
  /\ pack_voltage \in Nat
  /\ drive_state \in FrontStates \union {"INVALID"}
  /\ afe \in [max : Nat, min : Nat, pack : Nat]
  /\ retries \in 0..(RetryModulus - 1)
  /\ mediumPc \in Relays \union {"wait"}
  /\ cellPc \in {"trigger", "read", "scan", "solar", "solar_flag", "over", "under",
                 "unbalance", "sleep", "bit", "can", "step", "reset"}
  /\ raising \in BpsFault \union {"none"}
  /\ resetIdx \in 0..8

\* The motor contactor is never energised before precharge has completed: the
\* inrush the precharge circuit exists to prevent (state manager lines 54, 165).
MotorNeedsPrecharge == pin["motor"] => precharge_complete

\* Outside FAULT the motor contactor and the Wavesculptor supply are on exactly
\* in DRIVE, whichever task moved the machine and however long the relay takes
\* ("Driving: motor relays closed, LV enabled").
DriveIsPowered ==
  s_current_state # "FAULT" =>
    /\ pin["motor"] <=> s_current_state = "DRIVE"
    /\ pin["lv"] <=> s_current_state = "DRIVE"

\* Outside FAULT the motor is connected only to a pack whose positive and
\* negative contactors have been closed and have had their closing delay.
MotorNeedsPack ==
  s_current_state # "FAULT" /\ pin["motor"] =>
    /\ pin["pos"] /\ closed["pos"]
    /\ pin["neg"] /\ closed["neg"]

\* Once the FAULT entry is over the motor and its supply are off, even when the
\* fault caught the medium task in the middle of closing the motor relay.
FaultCutsMotor ==
  s_current_state = "FAULT" /\ cellPc # "reset" => ~pin["motor"] /\ ~pin["lv"]

\* The motor contactor is energised only with precharge done, on a pack that is
\* connected, together with its supply and exactly in DRIVE; and a fault that
\* catches the medium task in the middle of all that leaves none of it on.
MotorIsSafe == MotorNeedsPrecharge /\ DriveIsPowered /\ MotorNeedsPack /\ FaultCutsMotor

\* After any BPS fault has been recorded no step of any task energises the
\* motor contactor or the Wavesculptor again.
NoEngageAfterFault ==
  [][bps_fault # {} => \A o \in {"motor", "lv"} : pin'[o] => pin[o]]_vars

\* In FAULT, with no closing delay in flight, no output is raised again.
FaultRaisesNothing ==
  [][s_current_state = "FAULT" /\ mediumPc = "wait" => \A o \in Outputs : pin'[o] => pin[o]]_vars

\* Nothing that the medium task was about to do when a fault came turns anything
\* on afterwards, but for the START sequence caught in a closing delay.
FaultLatches == NoEngageAfterFault /\ FaultRaisesNothing

\* A recorded BPS fault ends in FAULT with the motor cut, whichever of the two
\* tasks gets there first.
FaultStopsMotor ==
  bps_fault # {} ~> (s_current_state = "FAULT" /\ ~pin["motor"] /\ ~pin["lv"])

\* Every recorded fault reaches the CAN bus (the front controller's only way to
\* learn of it), and the fields never lose one.
FaultIsBroadcast ==
  \A f \in BpsFault : f \in bps_fault ~> [](f \in bps_sent)

\* With precharge done, no fault and a front controller that keeps asking for
\* drive, the board ends up in DRIVE.
DriveIsReached ==
  <>[](precharge_complete /\ bps_fault = {} /\ drive_state \in DriveRequests)
    => <>[](s_current_state = "DRIVE" /\ closed["motor"])

\* The motor side of the board implements the fault latch of PowerInterlock.
Interlock == INSTANCE PowerInterlock WITH
  mode <- s_current_state, ready <- precharge_complete,
  fault <- (bps_fault # {}), motor <- pin["motor"]

InterlockSpec == Interlock!Spec

\* The same without its fairness: what holds of every execution, scheduled
\* fairly or not.
InterlockSafety == Interlock!Init /\ [][Interlock!Next]_(Interlock!vars)

\* rear_controller_state_manager.h:31 says of FAULT "relays open, latched until
\* reset": at rest (no task inside a relay operation) every relay is open.
FaultOpensRelays ==
  s_current_state = "FAULT" /\ cellPc # "reset" /\ mediumPc = "wait" =>
    \A r \in Relays : ~pin[r]
=============================================================================
