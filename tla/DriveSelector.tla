---------------------------- MODULE DriveSelector ---------------------------
(***************************************************************************)
(* What the front controller promises about the drive state: a selector    *)
(* between the driver, the brake pedal and the BPS fault report.  No load   *)
(* switch, sleep or order of statements is visible here.  FrontController   *)
(* implements this specification.                                          *)
(*                                                                         *)
(*   state      the drive state of the board                               *)
(*   published  the one the rest of the car sees                           *)
(*   braking    the board holds the brake pedal as pressed                 *)
(*   inputs     what the receive and pedal cycle holds at the moment        *)
(*   seen       what the board has read of it, one field at a time         *)
(***************************************************************************)
VARIABLES state, published, braking, inputs, seen

vars == <<state, published, braking, inputs, seen>>

States  == {"NEUTRAL", "DRIVE", "REVERSE", "BRAKE", "REGEN", "FAULT"}
Driving == {"DRIVE", "REVERSE"}

Fields == {"fault", "precharge", "drive", "pedal"}
Inputs == [fault : BOOLEAN, precharge : BOOLEAN, pedal : BOOLEAN,
           drive : {"INVALID", "NEUTRAL"} \union Driving]

Nothing == [fault |-> FALSE, precharge |-> FALSE, pedal |-> FALSE, drive |-> "INVALID"]

Init ==
  /\ state = "NEUTRAL"
  /\ published = "INVALID"
  /\ braking = FALSE
  /\ inputs = Nothing
  /\ seen = Nothing

\* The inputs may change while the board works on what it has read.
Change ==
  /\ inputs' \in Inputs
  /\ UNCHANGED <<state, published, braking, seen>>

Read(f) ==
  /\ seen' = [seen EXCEPT ![f] = inputs[f]]
  /\ UNCHANGED <<state, published, braking, inputs>>

Publish ==
  /\ published' = state
  /\ UNCHANGED <<state, braking, inputs, seen>>

\* A fault that was read is entered ...
Fail ==
  /\ seen.fault
  /\ state' = "FAULT"
  /\ UNCHANGED <<published, braking, inputs, seen>>

\* ... and left only into NEUTRAL, after a read without one.
Recover ==
  /\ state = "FAULT"
  /\ ~seen.fault
  /\ state' = "NEUTRAL"
  /\ UNCHANGED <<published, braking, inputs, seen>>

\* The pedal is taken and the driving state left in one step.
Brake ==
  /\ state # "FAULT"
  /\ seen.pedal /\ ~braking
  /\ state' \in {"BRAKE", "REGEN"}
  /\ braking' = TRUE
  /\ UNCHANGED <<published, inputs, seen>>

Release ==
  /\ braking /\ ~seen.pedal
  /\ braking' = FALSE
  /\ UNCHANGED <<state, published, inputs, seen>>

\* The only step into a driving state: asked for, precharged, no brake, no fault.
Select ==
  /\ state # "FAULT"
  /\ ~braking /\ ~seen.pedal
  /\ seen.drive = "NEUTRAL" \/ (seen.drive \in Driving /\ seen.precharge)
  /\ state' = seen.drive
  /\ UNCHANGED <<published, braking, inputs, seen>>

Next ==
  \/ Change
  \/ \E f \in Fields : Read(f)
  \/ Publish \/ Fail \/ Recover \/ Brake \/ Release \/ Select

Spec == Init /\ [][Next]_vars
=============================================================================
