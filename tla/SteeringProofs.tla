--------------------------- MODULE SteeringProofs ---------------------------
(***************************************************************************)
(* Proofs about Steering, for any set of buttons.                          *)
(***************************************************************************)
EXTENDS Steering, TLAPS

\* What the medium task has loaded differs from the byte in the bits of the
\* fast task only, and between a setter and the assignment that follows it the
\* byte is ahead of the state.
RegFollows ==
  pc \in StorePcs => /\ reg.drive = can.drive
                     /\ reg.lights = can.lights
                     /\ reg.cruise = can.cruise

DriveFollows == can.drive = IF pc = "accept" THEN StateOf(serving) ELSE current_state

LightsFollow ==
  can.lights = IF pc = "settle" THEN LightsAfter(serving, light_state) ELSE light_state

\* A setter of the cruise bit always clears it.
CruiseFollows ==
  /\ ~can.cruise
  /\ pc \in {"loadEnd", "storeEnd", "loadOff", "storeOff"} => ~cruise_enabled

\* Under the hazard lights no command for one side is being served.
HazardHolds ==
  pc \in LightWindow /\ light_state = "HAZARD" => serving \notin {"LEFT", "RIGHT"}

IInv ==
  TypeOK /\ RegFollows /\ DriveFollows /\ LightsFollow /\ CruiseFollows /\ HazardHolds

USE DEF Bytes, Pcs, StorePcs, DriveWindow, LightWindow, DriveStates, LightStates

LEMMA StateOfType ==
  ASSUME NEW r \in {"D", "N", "R"}
  PROVE  StateOf(r) \in DriveStates
BY DEF StateOf

LEMMA LightsAfterType ==
  ASSUME NEW c \in LightCommands, NEW s \in LightStates
  PROVE  LightsAfter(c, s) \in LightStates
BY SteeringAssumption DEF LightsAfter

LEMMA InitIInv == Init => IInv
<1> SUFFICES ASSUME Init PROVE IInv
  OBVIOUS
<1>1. /\ ZeroByte \in Bytes
      /\ ZeroByte.drive = "INVALID" /\ ZeroByte.lights = "OFF" /\ ~ZeroByte.cruise
  BY DEF ZeroByte
<1>2. /\ can \in Bytes
      /\ can.drive = "INVALID" /\ can.lights = "OFF" /\ ~can.cruise
  BY <1>1 DEF Init
<1>3. TypeOK
  <2>1. regen \in BOOLEAN /\ horn \in BOOLEAN /\ cruise_enabled \in BOOLEAN /\ released \in BOOLEAN
    BY DEF Init
  <2>2. reg \in Bytes
    BY <1>1 DEF Init
  <2> QED
    BY <1>2, <2>1, <2>2 DEF Init, TypeOK
<1>4. RegFollows /\ DriveFollows /\ LightsFollow /\ CruiseFollows /\ HazardHolds
  BY <1>2 DEF Init, RegFollows, DriveFollows, LightsFollow, CruiseFollows, HazardHolds
<1> QED
  BY <1>3, <1>4 DEF IInv

\* The fast task writes its own two bits of the byte only.
LEMMA FastStep == IInv /\ Fast => IInv'
<1> SUFFICES ASSUME IInv, Fast PROVE IInv'
  OBVIOUS
<1> USE DEF IInv, TypeOK, RegFollows, DriveFollows, LightsFollow, CruiseFollows, HazardHolds,
            buttons, drive, lights, cruise
<1>1. ASSUME NEW r \in Requests, PressDriveButton(r) PROVE IInv'
  BY <1>1 DEF PressDriveButton
<1>2. CASE PressRegen
  <2>1. regen' \in BOOLEAN
    BY <1>2 DEF PressRegen
  <2>2. /\ can' \in Bytes
        /\ can'.drive = can.drive /\ can'.lights = can.lights /\ can'.cruise = can.cruise
    BY <1>2, <2>1 DEF PressRegen
  <2> QED
    BY <1>2, <2>1, <2>2 DEF PressRegen
<1>3. CASE HornEdge
  <2>1. horn' \in BOOLEAN
    BY <1>3 DEF HornEdge
  <2>2. /\ can' \in Bytes
        /\ can'.drive = can.drive /\ can'.lights = can.lights /\ can'.cruise = can.cruise
    BY <1>3, <2>1 DEF HornEdge
  <2> QED
    BY <1>3, <2>1, <2>2 DEF HornEdge
<1>4. ASSUME NEW c \in LightCommands, RegisterLights(c) PROVE IInv'
  BY <1>4 DEF RegisterLights
<1> QED
  BY <1>1, <1>2, <1>3, <1>4 DEF Fast

\* A load copies the byte; it is followed by the store of the same setter.
LEMMA LoadStep == IInv /\ (LoadDrive \/ LoadEnd \/ LoadLights \/ LoadOff) => IInv'
<1> USE DEF IInv, TypeOK, RegFollows, DriveFollows, LightsFollow, CruiseFollows, HazardHolds,
            buttons, drive, lights, cruise, Load, At
<1>1. IInv /\ LoadDrive => IInv'
  BY DEF LoadDrive
<1>2. IInv /\ LoadEnd => IInv'
  BY DEF LoadEnd
<1>3. IInv /\ LoadLights => IInv'
  BY DEF LoadLights
<1>4. IInv /\ LoadOff => IInv'
  BY DEF LoadOff
<1> QED
  BY <1>1, <1>2, <1>3, <1>4

\* A store puts back what was loaded, with its own field replaced.
LEMMA StoreStep == IInv /\ (StoreDrive \/ StoreEnd \/ StoreLights \/ StoreOff) => IInv'
<1> USE DEF IInv, TypeOK, RegFollows, DriveFollows, LightsFollow, CruiseFollows, HazardHolds,
            buttons, drive, lights, cruise, Store, At, ZeroByte
<1>1. ASSUME IInv, StoreDrive PROVE IInv'
  <2>1. StateOf(serving) \in DriveStates
    BY <1>1, StateOfType, SteeringAssumption DEF StoreDrive
  <2> QED
    BY <1>1, <2>1 DEF StoreDrive
<1>2. IInv /\ StoreEnd => IInv'
  BY DEF StoreEnd
<1>3. ASSUME IInv, StoreLights PROVE IInv'
  <2>1. LightsAfter(serving, light_state) \in LightStates
    BY <1>3, LightsAfterType DEF StoreLights
  <2> QED
    BY <1>3, <2>1 DEF StoreLights
<1>4. IInv /\ StoreOff => IInv'
  BY DEF StoreOff
<1> QED
  BY <1>1, <1>2, <1>3, <1>4

LEMMA DriveStep ==
  IInv /\ (StartCycle \/ ServeDrive \/ CheckRear \/ RefuseDrive \/ AcceptDrive \/ ClearRequest)
    => IInv'
<1> USE DEF IInv, TypeOK, RegFollows, DriveFollows, LightsFollow, CruiseFollows, HazardHolds,
            buttons, drive, lights, cruise, At
<1>1. IInv /\ StartCycle => IInv'
  BY DEF StartCycle
<1>2. IInv /\ ServeDrive => IInv'
  BY DEF ServeDrive, ServesDrive
<1>3. IInv /\ CheckRear => IInv'
  BY DEF CheckRear
<1>4. IInv /\ RefuseDrive => IInv'
  BY DEF RefuseDrive
<1>5. ASSUME IInv, AcceptDrive PROVE IInv'
  <2>1. StateOf(serving) \in DriveStates
    BY <1>5, StateOfType, SteeringAssumption DEF AcceptDrive
  <2> QED
    BY <1>5, <2>1 DEF AcceptDrive
<1>6. IInv /\ ClearRequest => IInv'
  BY DEF ClearRequest
<1> QED
  BY <1>1, <1>2, <1>3, <1>4, <1>5, <1>6

LEMMA LightsStep == IInv /\ (ServeLights \/ SettleLights) => IInv'
<1> USE DEF IInv, TypeOK, RegFollows, DriveFollows, LightsFollow, CruiseFollows, HazardHolds,
            buttons, drive, lights, cruise, At
<1>1. IInv /\ ServeLights => IInv'
  BY DEF ServeLights, ServesLights
<1>2. ASSUME IInv, SettleLights PROVE IInv'
  <2>1. LightsAfter(serving, light_state) \in LightStates
    BY <1>2, LightsAfterType DEF SettleLights
  <2> QED
    BY <1>2, <2>1 DEF SettleLights
<1> QED
  BY <1>1, <1>2

LEMMA CruiseStep == IInv /\ (EndCruise \/ SwitchCruise \/ Transmit) => IInv'
<1> USE DEF IInv, TypeOK, RegFollows, DriveFollows, LightsFollow, CruiseFollows, HazardHolds,
            buttons, drive, lights, cruise, At
<1>1. IInv /\ EndCruise => IInv'
  BY DEF EndCruise
<1>2. ASSUME IInv, SwitchCruise PROVE IInv'
  <2>1. cruise_enabled' \in BOOLEAN /\ released' \in BOOLEAN
    BY <1>2 DEF SwitchCruise, CruiseButtons
  <2> QED
    BY <1>2, <2>1 DEF SwitchCruise
<1>3. IInv /\ Transmit => IInv'
  BY DEF Transmit
<1> QED
  BY <1>1, <1>2, <1>3

LEMMA StutterStep == IInv /\ UNCHANGED vars => IInv'
BY DEF vars, IInv, TypeOK, RegFollows, DriveFollows, LightsFollow, CruiseFollows, HazardHolds,
       buttons, drive, lights, cruise

\* The invariant the other theorems rest on.
THEOREM SteeringInvariant == Safety => []IInv
<1>1. IInv /\ [Next]_vars => IInv'
  BY FastStep, LoadStep, StoreStep, DriveStep, LightsStep, CruiseStep, StutterStep
  DEF Next, Medium
<1> QED
  BY InitIInv, <1>1, PTL DEF Safety

\* Type correctness.
THEOREM SteeringTypes == Spec => []TypeOK
<1>1. IInv => TypeOK
  BY DEF IInv
<1> QED
  BY SteeringInvariant, <1>1, PTL DEF Spec

\* The drive state and the light state on the bus are the ones shown.
THEOREM SteeringFields == Spec => []FieldsFollowStates
<1>1. IInv => FieldsFollowStates
  BY DEF IInv, DriveFollows, LightsFollow, FieldsFollowStates
<1> QED
  BY SteeringInvariant, <1>1, PTL DEF Spec

\* No board ever sees cruise control enabled.
THEOREM SteeringCruise == Spec => []CruiseStaysOffTheBus
<1>1. IInv => CruiseStaysOffTheBus
  BY DEF IInv, CruiseFollows, CruiseStaysOffTheBus
<1> QED
  BY SteeringInvariant, <1>1, PTL DEF Spec

\* Both together: the bus carries what the wheel decided.
THEOREM SteeringBus == Spec => []BusFollowsWheel
<1>1. FieldsFollowStates /\ CruiseStaysOffTheBus => BusFollowsWheel
  BY DEF BusFollowsWheel
<1> QED
  BY SteeringFields, SteeringCruise, <1>1, PTL

\* A medium step that is not a store leaves the byte alone.
LEMMA MediumKeepsByte ==
  ASSUME TypeOK, Medium, pc \notin StorePcs
  PROVE  UNCHANGED <<can, regen, horn>>
BY DEF Medium, StartCycle, ServeDrive, CheckRear, RefuseDrive, LoadDrive, StoreDrive,
       AcceptDrive, LoadEnd, StoreEnd, ClearRequest, ServeLights, LoadLights, StoreLights,
       SettleLights, EndCruise, LoadOff, StoreOff, SwitchCruise, Transmit,
       Load, Store, At, buttons

\* The horn and regen bits fall out of step only in a store.
THEOREM SteeringBits == Spec => BitsAreLostOnlyInStores
<1> DEFINE P == pc \notin StorePcs
                  => /\ can.regen = regen => can'.regen = regen'
                     /\ can.horn = horn /\ horn' = horn => can'.horn = horn'
<1>1. ASSUME IInv, Fast PROVE P
  <2>1. CASE \E r \in Requests : PressDriveButton(r)
    BY <2>1 DEF PressDriveButton, buttons
  <2>2. CASE PressRegen
    BY <1>1, <2>2 DEF PressRegen, IInv, TypeOK
  <2>3. CASE HornEdge
    BY <1>1, <2>3 DEF HornEdge, IInv, TypeOK
  <2>4. CASE \E c \in LightCommands : RegisterLights(c)
    BY <2>4 DEF RegisterLights, buttons
  <2> QED
    BY <1>1, <2>1, <2>2, <2>3, <2>4 DEF Fast
<1>2. ASSUME IInv, Medium PROVE P
  BY <1>2, MediumKeepsByte DEF IInv
<1>3. ASSUME UNCHANGED vars PROVE P
  BY <1>3 DEF vars
<1>4. IInv /\ [Next]_vars => [P]_vars
  BY <1>1, <1>2, <1>3 DEF Next
<1> QED
  BY SteeringInvariant, <1>4, PTL DEF Spec, Safety, BitsAreLostOnlyInStores

\* The light state changes in one statement, and never from the hazard lights
\* to one side.
THEOREM SteeringHazards == Spec => HazardsEndInOff
<1> DEFINE P == light_state = "HAZARD" => light_state' \in {"HAZARD", "OFF"}
<1>1. ASSUME IInv, SettleLights PROVE P
  <2>1. serving \in {"LEFT", "RIGHT", "HAZARD", "OFF"}
    BY <1>1, SteeringAssumption DEF IInv, TypeOK, SettleLights, At
  <2> QED
    BY <1>1, <2>1 DEF IInv, HazardHolds, SettleLights, At, LightsAfter
<1>2. ASSUME Medium, ~SettleLights PROVE light_state' = light_state
  BY <1>2
  DEF Medium, StartCycle, ServeDrive, CheckRear, RefuseDrive, LoadDrive, StoreDrive,
      AcceptDrive, LoadEnd, StoreEnd, ClearRequest, ServeLights, LoadLights, StoreLights,
      EndCruise, LoadOff, StoreOff, SwitchCruise, Transmit, Load, Store, lights
<1>3. ASSUME Fast PROVE light_state' = light_state
  BY <1>3 DEF Fast, PressDriveButton, PressRegen, HornEdge, RegisterLights, lights
<1>4. UNCHANGED vars => light_state' = light_state
  BY DEF vars
<1>5. IInv /\ [Next]_vars => [P]_vars
  BY <1>1, <1>2, <1>3, <1>4 DEF Next
<1> QED
  BY SteeringInvariant, <1>5, PTL DEF Spec, Safety, HazardsEndInOff

-----------------------------------------------------------------------------
\* Progress.  The medium task has a statement for every value of pc and none of
\* them waits for anything: it is never blocked.
MediumIsReady == ENABLED <<Medium>>_vars

\* The statements the medium task executes at most before the one that takes the
\* request for neutral: the rest of its cycle, then the setter of the drive state.
NeutralLeft(p) ==
  CASE p = "lights"      -> 13
    [] p = "loadLights"  -> 12
    [] p = "storeLights" -> 11
    [] p = "settle"      -> 10
    [] p = "cruise"      -> 9
    [] p = "loadOff"     -> 8
    [] p = "storeOff"    -> 7
    [] p = "tx"          -> 6
    [] p = "wait"        -> 5
    [] p = "drive"       -> 4
    [] p = "loadDrive"   -> 3
    [] p = "storeDrive"  -> 2
    [] OTHER             -> 1

NeutralPending ==
  \/ current_request = "N" /\ pc \notin DriveWindow
  \/ serving = "N" /\ pc \in {"loadDrive", "storeDrive", "accept"}

NeutralWithin(n) == NeutralPending /\ NeutralLeft(pc) <= n

NeutralSettled == current_state = "NEUTRAL" \/ current_request \in {"D", "R"}

\* With m below n: what is within n stays there, and a statement brings it within m.
NeutralNearer(n, m) ==
  IInv /\ NeutralWithin(n) =>
    /\ [Next]_vars => NeutralWithin(n)' \/ NeutralSettled'
    /\ <<Medium>>_vars => NeutralWithin(m)' \/ NeutralSettled'

\* The buttons cannot take a pending request for neutral back without another.
LEMMA NeutralStays ==
  ASSUME NEW n \in Nat, IInv, NeutralWithin(n), Fast \/ UNCHANGED vars
  PROVE  NeutralWithin(n)' \/ NeutralSettled'
<1> USE DEF NeutralWithin, NeutralPending, NeutralSettled, IInv, TypeOK
<1>1. UNCHANGED <<pc, serving>>
  BY DEF Fast, PressDriveButton, PressRegen, HornEdge, RegisterLights, vars
<1>2. UNCHANGED <<pc, serving, current_request, current_state>> => NeutralWithin(n)'
  OBVIOUS
<1>3. ASSUME NEW r \in Requests, PressDriveButton(r)
      PROVE  NeutralWithin(n)' \/ NeutralSettled'
  BY <1>1, <1>3, SteeringAssumption DEF PressDriveButton, drive
<1>4. ASSUME PressRegen \/ HornEdge \/ (\E c \in LightCommands : RegisterLights(c)) \/ UNCHANGED vars
      PROVE  UNCHANGED <<pc, serving, current_request, current_state>>
  BY <1>4 DEF PressRegen, HornEdge, RegisterLights, vars, drive
<1> QED
  BY <1>2, <1>3, <1>4 DEF Fast

\* Every statement of the medium task brings it nearer.
LEMMA NeutralNears ==
  ASSUME NEW n \in Nat, IInv, NeutralWithin(n), Medium
  PROVE  NeutralWithin(n - 1)' \/ NeutralSettled'
<1> USE DEF NeutralWithin, NeutralPending, NeutralSettled, NeutralLeft, IInv, TypeOK, At,
            drive, buttons, lights, cruise
<1>1. CASE ServeDrive
  BY <1>1 DEF ServeDrive, ServesDrive, StateOf
<1>2. CASE LoadDrive \/ StoreDrive
  BY <1>2 DEF LoadDrive, StoreDrive, Load, Store
<1>3. CASE AcceptDrive
  BY <1>3 DEF AcceptDrive, StateOf
<1>4. CASE ServeLights \/ SettleLights
  BY <1>4 DEF ServeLights, SettleLights
<1>5. CASE LoadLights \/ StoreLights \/ LoadOff \/ StoreOff
  BY <1>5 DEF LoadLights, StoreLights, LoadOff, StoreOff, Load, Store
<1>6. CASE EndCruise \/ SwitchCruise \/ Transmit \/ StartCycle
  BY <1>6 DEF EndCruise, SwitchCruise, Transmit, StartCycle
<1>7. CASE CheckRear \/ RefuseDrive \/ LoadEnd \/ StoreEnd \/ ClearRequest
  BY <1>7 DEF CheckRear, RefuseDrive, LoadEnd, StoreEnd, ClearRequest, Load, Store
<1> QED
  BY <1>1, <1>2, <1>3, <1>4, <1>5, <1>6, <1>7 DEF Medium

LEMMA NeutralStep == \A n \in Nat : NeutralNearer(n + 1, n)
<1> SUFFICES ASSUME NEW n \in Nat, IInv, NeutralWithin(n + 1)
             PROVE  /\ [Next]_vars => NeutralWithin(n + 1)' \/ NeutralSettled'
                    /\ <<Medium>>_vars => NeutralWithin(n)' \/ NeutralSettled'
  BY DEF NeutralNearer
<1>1. Medium => NeutralWithin(n)' \/ NeutralSettled'
  BY NeutralNears
<1>2. NeutralWithin(n)' => NeutralWithin(n + 1)'
  BY DEF NeutralWithin, NeutralLeft
<1> QED
  BY <1>1, <1>2, NeutralStays DEF Next

\* A request for neutral that does not fall into the service of another is taken.
THEOREM SteeringNeutral == Spec /\ []MediumIsReady => NeutralIsReached
<1>1. /\ NeutralNearer(13, 12) /\ NeutralNearer(12, 11) /\ NeutralNearer(11, 10) /\ NeutralNearer(10, 9)
      /\ NeutralNearer(9, 8) /\ NeutralNearer(8, 7) /\ NeutralNearer(7, 6) /\ NeutralNearer(6, 5)
      /\ NeutralNearer(5, 4) /\ NeutralNearer(4, 3) /\ NeutralNearer(3, 2) /\ NeutralNearer(2, 1)
      /\ NeutralNearer(1, 0)
  BY NeutralStep
<1>2. current_request = "N" /\ pc \notin DriveWindow => NeutralWithin(13)
  BY DEF NeutralWithin, NeutralPending, NeutralLeft
<1>3. ~NeutralWithin(0)
  BY DEF NeutralWithin, NeutralLeft
<1>4. NeutralSettled => current_state = "NEUTRAL" \/ current_request \in {"D", "R"}
  BY DEF NeutralSettled
<1> QED
  BY SteeringInvariant, <1>1, <1>2, <1>3, <1>4, PTL
  DEF Spec, Safety, MediumIsReady, NeutralNearer, NeutralIsReached

\* The same for the hazard lights: the rest of a cycle, up to the light signals.
HazardLeft(p) ==
  CASE p = "cruise"      -> 17
    [] p = "loadOff"     -> 16
    [] p = "storeOff"    -> 15
    [] p = "tx"          -> 14
    [] p = "wait"        -> 13
    [] p = "drive"       -> 12
    [] p = "check"       -> 11
    [] p = "loadDrive"   -> 10
    [] p = "storeDrive"  -> 9
    [] p = "accept"      -> 8
    [] p = "loadEnd"     -> 7
    [] p = "storeEnd"    -> 6
    [] p = "clear"       -> 5
    [] p = "refuse"      -> 5
    [] p = "lights"      -> 4
    [] p = "loadLights"  -> 3
    [] p = "storeLights" -> 2
    [] OTHER             -> 1

HazardPending ==
  /\ light_state # "HAZARD"
  /\ IF pc \in LightWindow THEN serving = "HAZARD" ELSE light_request = "HAZARD"

HazardWithin(n) == HazardPending /\ HazardLeft(pc) <= n

HazardSettled == light_state = "HAZARD" \/ light_request \in {"LEFT", "RIGHT", "OFF"}

\* With m below n: what is within n stays there, and a statement brings it within m.
HazardNearer(n, m) ==
  IInv /\ HazardWithin(n) =>
    /\ [Next]_vars => HazardWithin(n)' \/ HazardSettled'
    /\ <<Medium>>_vars => HazardWithin(m)' \/ HazardSettled'

LEMMA HazardStays ==
  ASSUME NEW n \in Nat, IInv, HazardWithin(n), Fast \/ UNCHANGED vars
  PROVE  HazardWithin(n)' \/ HazardSettled'
<1> USE DEF HazardWithin, HazardPending, HazardSettled, IInv, TypeOK
<1>1. UNCHANGED <<pc, serving, light_state>>
  BY DEF Fast, PressDriveButton, PressRegen, HornEdge, RegisterLights, lights, vars
<1>2. ASSUME NEW c \in LightCommands, RegisterLights(c)
      PROVE  HazardWithin(n)' \/ HazardSettled'
  BY <1>1, <1>2, SteeringAssumption DEF RegisterLights
<1>3. ASSUME PressRegen \/ HornEdge \/ (\E r \in Requests : PressDriveButton(r)) \/ UNCHANGED vars
      PROVE  UNCHANGED light_request
  BY <1>3 DEF PressRegen, HornEdge, PressDriveButton, vars, lights
<1> QED
  BY <1>1, <1>2, <1>3 DEF Fast

LEMMA HazardNears ==
  ASSUME NEW n \in Nat, IInv, HazardWithin(n), Medium
  PROVE  HazardWithin(n - 1)' \/ HazardSettled'
<1> USE DEF HazardWithin, HazardPending, HazardSettled, HazardLeft, IInv, TypeOK, At,
            drive, buttons, lights, cruise
<1>1. CASE ServeLights
  BY <1>1 DEF ServeLights, ServesLights
<1>2. CASE LoadLights \/ StoreLights
  BY <1>2 DEF LoadLights, StoreLights, Load, Store
<1>3. CASE SettleLights
  BY <1>3 DEF SettleLights, LightsAfter
<1>4. CASE EndCruise \/ SwitchCruise \/ Transmit \/ StartCycle
  BY <1>4 DEF EndCruise, SwitchCruise, Transmit, StartCycle
<1>5. CASE LoadOff \/ StoreOff \/ LoadDrive \/ StoreDrive \/ LoadEnd \/ StoreEnd
  BY <1>5 DEF LoadOff, StoreOff, LoadDrive, StoreDrive, LoadEnd, StoreEnd, Load, Store
<1>6. CASE ServeDrive \/ CheckRear \/ RefuseDrive \/ AcceptDrive \/ ClearRequest
  BY <1>6 DEF ServeDrive, CheckRear, RefuseDrive, AcceptDrive, ClearRequest
<1> QED
  BY <1>1, <1>2, <1>3, <1>4, <1>5, <1>6 DEF Medium

LEMMA HazardStep == \A n \in Nat : HazardNearer(n + 1, n)
<1> SUFFICES ASSUME NEW n \in Nat, IInv, HazardWithin(n + 1)
             PROVE  /\ [Next]_vars => HazardWithin(n + 1)' \/ HazardSettled'
                    /\ <<Medium>>_vars => HazardWithin(n)' \/ HazardSettled'
  BY DEF HazardNearer
<1>1. Medium => HazardWithin(n)' \/ HazardSettled'
  BY HazardNears
<1>2. HazardWithin(n)' => HazardWithin(n + 1)'
  BY DEF HazardWithin, HazardLeft
<1> QED
  BY <1>1, <1>2, HazardStays DEF Next

\* A request for the hazard lights that does not fall into the service of another
\* switches them on.
THEOREM SteeringHazardsOn == Spec /\ []MediumIsReady => HazardsComeOn
<1>1. /\ HazardNearer(17, 16) /\ HazardNearer(16, 15) /\ HazardNearer(15, 14) /\ HazardNearer(14, 13)
      /\ HazardNearer(13, 12) /\ HazardNearer(12, 11) /\ HazardNearer(11, 10) /\ HazardNearer(10, 9)
      /\ HazardNearer(9, 8) /\ HazardNearer(8, 7) /\ HazardNearer(7, 6) /\ HazardNearer(6, 5)
      /\ HazardNearer(5, 4) /\ HazardNearer(4, 3) /\ HazardNearer(3, 2) /\ HazardNearer(2, 1)
      /\ HazardNearer(1, 0)
  BY HazardStep
<1>2. light_request = "HAZARD" /\ light_state # "HAZARD" /\ pc \notin LightWindow => HazardWithin(17)
  BY DEF HazardWithin, HazardPending, HazardLeft
<1>3. ~HazardWithin(0)
  BY DEF HazardWithin, HazardLeft
<1>4. HazardSettled => light_state = "HAZARD" \/ light_request \in {"LEFT", "RIGHT", "OFF"}
  BY DEF HazardSettled
<1> QED
  BY SteeringInvariant, <1>1, <1>2, <1>3, <1>4, PTL
  DEF Spec, Safety, MediumIsReady, HazardNearer, HazardsComeOn

\* Both: the requests that make the car safe are served by a medium task that is
\* never blocked, whatever the buttons do meanwhile.
THEOREM SteeringServes == Spec /\ []MediumIsReady => SafeRequestsAreServed
BY SteeringNeutral, SteeringHazardsOn, PTL DEF SafeRequestsAreServed
=============================================================================
