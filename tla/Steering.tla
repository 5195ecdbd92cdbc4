------------------------------ MODULE Steering ------------------------------
(***************************************************************************)
(* The steering board: the drive state manager, the regen and horn         *)
(* buttons, the light signals, the cruise control switch, and the CAN      *)
(* byte g_tx_struct.steering_buttons they all write.                       *)
(*                                                                         *)
(* Two FreeRTOS tasks share these (main.c, master_tasks.c):                *)
(*   fast   (20 ms, the higher priority) runs the button callbacks; it is  *)
(*          never preempted by the other, so a callback is one step        *)
(*   medium (300 ms) serves the requests the buttons have left and sends   *)
(*          the byte; fast runs between any two of its statements          *)
(* The setters of the byte are generated as a load, a mask and a store, so *)
(* a setter of the medium task is two steps, with the byte in a register   *)
(* between them.  What the tasks only read (the rear status, the front     *)
(* drive state, the cruise buttons, the menu) is any value at each read.   *)
(* The ramp of the cruise target speed, the LEDs and the buzzer are left   *)
(* out.                                                                    *)
(***************************************************************************)
EXTENDS Naturals

CONSTANTS
  Requests,       \* the drive state buttons fitted, among "D", "N", "R"
  LightCommands   \* the light commands the buttons register

ASSUME SteeringAssumption ==
  /\ Requests \subseteq {"D", "N", "R"}
  /\ LightCommands \subseteq {"LEFT", "RIGHT", "HAZARD", "OFF"}

VARIABLES
  current_state,    \* drive state shown and published
  current_request,  \* the last drive button pressed and not yet served
  regen,            \* current_regen_state
  horn,             \* the horn button is down
  light_state,      \* light_signal_manager.c's current_state
  light_request,    \* its current_request
  cruise_enabled,   \* steering_storage->cruise_control_enabled
  released,         \* cruise_control_enabled_released
  can,              \* the byte, by field
  pc,               \* next statement of the medium task
  serving,          \* the request its switch statement is serving
  reg               \* the byte as the medium task has loaded it

vars == <<current_state, current_request, regen, horn, light_state,
          light_request, cruise_enabled, released, can, pc, serving, reg>>

buttons == <<regen, horn>>
drive   == <<current_state, current_request>>
lights  == <<light_state, light_request>>
cruise  == <<cruise_enabled, released>>

DriveStates == {"INVALID", "NEUTRAL", "DRIVE", "REVERSE"}
LightStates == {"OFF", "LEFT", "RIGHT", "HAZARD"}

StateOf(r) == CASE r = "D" -> "DRIVE" [] r = "N" -> "NEUTRAL" [] r = "R" -> "REVERSE"

ZeroByte == [drive |-> "INVALID", lights |-> "OFF",
             cruise |-> FALSE, horn |-> FALSE, regen |-> FALSE]

\* steering_init: neutral is requested, regeneration is enabled.
Init ==
  /\ current_state = "INVALID"
  /\ current_request = "N"
  /\ regen = TRUE
  /\ horn = FALSE
  /\ light_state = "OFF"
  /\ light_request = "NONE"
  /\ cruise_enabled = FALSE
  /\ released = TRUE
  /\ can = [ZeroByte EXCEPT !.regen = TRUE]
  /\ pc = "wait"
  /\ serving = "NONE"
  /\ reg = ZeroByte
-----------------------------------------------------------------------------
(* The fast task: one button callback. *)

PressDriveButton(r) ==
  /\ current_request' = r
  /\ UNCHANGED <<current_state, buttons, lights, cruise, can, pc, serving, reg>>

\* Mutant: the state is toggled and the CAN bit is not.
PressRegen_NotSent ==
  /\ regen' = ~regen
  /\ UNCHANGED <<drive, horn, lights, cruise, can, pc, serving, reg>>

PressRegen ==
  /\ regen' = ~regen
  /\ can' = [can EXCEPT !.regen = regen']
  /\ UNCHANGED <<drive, horn, lights, cruise, pc, serving, reg>>

\* The callback returns early while the menu is open.
HornEdge ==
  /\ horn' = ~horn
  /\ \E menuIsOpen \in BOOLEAN :
       can' = IF menuIsOpen THEN can ELSE [can EXCEPT !.horn = horn']
  /\ UNCHANGED <<drive, regen, lights, cruise, pc, serving, reg>>

RegisterLights(c) ==
  /\ light_request' = c
  /\ UNCHANGED <<drive, buttons, light_state, cruise, can, pc, serving, reg>>

Fast ==
  \/ \E r \in Requests : PressDriveButton(r)
  \/ PressRegen
  \/ HornEdge
  \/ \E c \in LightCommands : RegisterLights(c)
-----------------------------------------------------------------------------
(* The medium task. *)

At(here, next) == pc = here /\ pc' = next

\* A setter: the byte is loaded, and stored with one field replaced.
Load(here, next) ==
  /\ At(here, next)
  /\ reg' = can
  /\ UNCHANGED <<drive, buttons, lights, cruise, can, serving>>

Store(here, field, value, next) ==
  /\ At(here, next)
  /\ can' = [reg EXCEPT ![field] = value]
  /\ reg' = ZeroByte
  /\ UNCHANGED <<drive, buttons, lights, cruise, serving>>

StartCycle ==
  /\ At("wait", "drive")
  /\ UNCHANGED <<drive, buttons, lights, cruise, can, serving, reg>>

\* A request for the present state stays where it is.
ServesDrive == current_request # "NONE" /\ current_state # StateOf(current_request)

\* Mutant: a pending neutral is dropped instead of served.
ServeDrive_DropsNeutral ==
  /\ pc = "drive"
  /\ pc' = IF ServesDrive /\ current_request # "N" THEN "check" ELSE "lights"
  /\ serving' = IF ServesDrive /\ current_request # "N" THEN current_request ELSE "NONE"
  /\ current_request' = IF current_request = "N" THEN "NONE" ELSE current_request
  /\ UNCHANGED <<current_state, buttons, lights, cruise, can, reg>>

\* drive_state_manager_update's switch.
ServeDrive ==
  /\ pc = "drive"
  /\ pc' = IF ~ServesDrive THEN "lights"
           ELSE IF current_request = "N" THEN "loadDrive" ELSE "check"
  /\ serving' = IF ServesDrive THEN current_request ELSE "NONE"
  /\ UNCHANGED <<drive, buttons, lights, cruise, can, reg>>

\* The BPS fault and precharge reports of the rear controller.
CheckRear ==
  /\ pc = "check"
  /\ \E mayDrive \in BOOLEAN : pc' = IF mayDrive THEN "loadDrive" ELSE "refuse"
  /\ UNCHANGED <<drive, buttons, lights, cruise, can, serving, reg>>

\* Whatever request is there by now is dropped.
RefuseDrive ==
  /\ At("refuse", "lights")
  /\ current_request' = "NONE"
  /\ serving' = "NONE"
  /\ UNCHANGED <<current_state, buttons, lights, cruise, can, reg>>

LoadDrive  == Load("loadDrive", "storeDrive")

\* Mutant: the field keeps the state before this one.
StoreDrive_Stale == Store("storeDrive", "drive", current_state, "accept")

StoreDrive == Store("storeDrive", "drive", StateOf(serving), "accept")

\* Neutral and reverse end cruise control.
AcceptDrive ==
  /\ At("accept", IF serving = "D" THEN "clear" ELSE "loadEnd")
  /\ current_state' = StateOf(serving)
  /\ cruise_enabled' = (serving = "D" /\ cruise_enabled)
  /\ UNCHANGED <<current_request, buttons, lights, released, can, serving, reg>>

LoadEnd  == Load("loadEnd", "storeEnd")
StoreEnd == Store("storeEnd", "cruise", cruise_enabled, "clear")

ClearRequest ==
  /\ At("clear", "lights")
  /\ current_request' = "NONE"
  /\ serving' = "NONE"
  /\ UNCHANGED <<current_state, buttons, lights, cruise, can, reg>>

\* Where a command that is served leads from state s: the same button again
\* switches the lights off.
LightsAfter(c, s) == IF c \in {"OFF", s} THEN "OFF" ELSE c

\* Mutant: the switch statement has no case for no command.
ServesLights_Always ==
  ~(light_request \in {"LEFT", "RIGHT"} /\ light_state = "HAZARD")

\* A turn signal waits for the hazard lights to end.
ServesLights ==
  /\ light_request # "NONE"
  /\ ~(light_request \in {"LEFT", "RIGHT"} /\ light_state = "HAZARD")

\* lights_signal_manager_update's switch.
ServeLights ==
  /\ At("lights", IF ServesLights THEN "loadLights" ELSE "cruise")
  /\ serving' = IF ServesLights THEN light_request ELSE "NONE"
  /\ UNCHANGED <<drive, buttons, lights, cruise, can, reg>>

LoadLights  == Load("loadLights", "storeLights")
StoreLights == Store("storeLights", "lights", LightsAfter(serving, light_state), "settle")

SettleLights ==
  /\ At("settle", "cruise")
  /\ light_state' = LightsAfter(serving, light_state)
  /\ light_request' = "NONE"
  /\ serving' = "NONE"
  /\ UNCHANGED <<drive, buttons, cruise, can, reg>>

\* The front controller has braked: cruise control ends and the bit is sent.
EndCruise ==
  /\ At("cruise", "loadOff")
  /\ cruise_enabled
  /\ cruise_enabled' = FALSE
  /\ UNCHANGED <<drive, buttons, lights, released, can, serving, reg>>

\* Both cruise buttons pressed after both were released toggle cruise control
\* if the front controller drives and the speed is in range; the function
\* returns before its CAN setter.
CruiseButtons(up, down, menuIsOpen, inRange) ==
  LET both == up /\ down /\ released /\ ~menuIsOpen
  IN /\ released' = IF menuIsOpen \/ both THEN ~(up \/ down) ELSE released \/ ~(up \/ down)
     /\ cruise_enabled' = IF both /\ inRange THEN ~cruise_enabled ELSE cruise_enabled

SwitchCruise ==
  /\ At("cruise", "tx")
  /\ \E up, down, menuIsOpen, inRange \in BOOLEAN :
       CruiseButtons(up, down, menuIsOpen, inRange)
  /\ UNCHANGED <<drive, buttons, lights, can, serving, reg>>

LoadOff  == Load("loadOff", "storeOff")
StoreOff == Store("storeOff", "cruise", cruise_enabled, "tx")

Transmit ==
  /\ At("tx", "wait")
  /\ UNCHANGED <<drive, buttons, lights, cruise, can, serving, reg>>

Medium ==
  \/ StartCycle
  \/ ServeDrive \/ CheckRear \/ RefuseDrive \/ LoadDrive \/ StoreDrive
  \/ AcceptDrive \/ LoadEnd \/ StoreEnd \/ ClearRequest
  \/ ServeLights \/ LoadLights \/ StoreLights \/ SettleLights
  \/ EndCruise \/ LoadOff \/ StoreOff \/ SwitchCruise
  \/ Transmit

Next == Fast \/ Medium

Safety == Init /\ [][Next]_vars

\* The scheduler starts the medium task every 300 ms and it never blocks.
Spec == Safety /\ WF_vars(Medium)
-----------------------------------------------------------------------------
StorePcs == {"storeDrive", "storeEnd", "storeLights", "storeOff"}

Pcs == StorePcs \union
  {"wait", "drive", "check", "refuse", "loadDrive", "accept", "loadEnd", "clear",
   "lights", "loadLights", "settle", "cruise", "loadOff", "tx"}

\* While the medium task is here, a drive (light) request that a button leaves
\* is overwritten when the one being served is cleared.
DriveWindow == {"check", "refuse", "loadDrive", "storeDrive", "accept",
                "loadEnd", "storeEnd", "clear"}
LightWindow == {"loadLights", "storeLights", "settle"}

Bytes == [drive : DriveStates, lights : LightStates,
          cruise : BOOLEAN, horn : BOOLEAN, regen : BOOLEAN]

\* Type invariant; a switch statement serves a request that asks for a change.
TypeOK ==
  /\ current_state \in DriveStates
  /\ current_request \in Requests \union {"N", "NONE"}
  /\ regen \in BOOLEAN /\ horn \in BOOLEAN
  /\ cruise_enabled \in BOOLEAN /\ released \in BOOLEAN
  /\ light_state \in LightStates
  /\ light_request \in LightCommands \union {"NONE"}
  /\ can \in Bytes
  /\ reg \in Bytes
  /\ pc \in Pcs
  /\ pc \in DriveWindow => serving \in Requests \union {"N"}
  /\ pc \in LightWindow => serving \in LightCommands
  /\ pc \notin DriveWindow \union LightWindow => serving = "NONE"

\* Outside the statements between a setter and the assignment of the state it
\* announces, the drive state and the light state on the bus are the ones the
\* steering wheel shows, whatever the buttons do to the shared byte meanwhile.
FieldsFollowStates ==
  /\ pc # "accept" => can.drive = current_state
  /\ pc # "settle" => can.lights = light_state

\* cruise_control.c:174: both ways of toggling cruise control return before its
\* CAN setter and every other setter clears the bit, so no board ever sees
\* cruise control enabled.
CruiseStaysOffTheBus == ~can.cruise

\* What the other boards read in the shared byte is what the wheel's state
\* machines have settled on, whichever task wrote the byte last.
BusFollowsWheel == FieldsFollowStates /\ CruiseStaysOffTheBus

\* The horn and regen bits fall out of step with the button and the regen
\* state only in a store by the medium task that was under way when the
\* button was handled (or in a horn edge, which an open menu swallows).
BitsAreLostOnlyInStores ==
  [][ pc \notin StorePcs
      => /\ can.regen = regen => can'.regen = regen'
         /\ can.horn = horn /\ horn' = horn => can'.horn = horn' ]_vars

\* Under the hazard lights no button takes the wheel straight to one side: they
\* go off first.
HazardsEndInOff ==
  [][ light_state = "HAZARD" => light_state' \in {"HAZARD", "OFF"} ]_vars

\* A neutral press that does not fall into the service of an earlier request is
\* honoured, unless the driver presses another button first: it is neither
\* refused nor lost.
NeutralIsReached ==
  (current_request = "N" /\ pc \notin DriveWindow)
    ~> (current_state = "NEUTRAL" \/ current_request \in {"D", "R"})

\* Likewise the hazard lights come on.
HazardsComeOn ==
  (light_request = "HAZARD" /\ light_state # "HAZARD" /\ pc \notin LightWindow)
    ~> (light_state = "HAZARD" \/ light_request \in {"LEFT", "RIGHT", "OFF"})

\* The two requests that make the car safe are served, whatever the 20 ms task
\* stores meanwhile.
SafeRequestsAreServed == NeutralIsReached /\ HazardsComeOn
=============================================================================
