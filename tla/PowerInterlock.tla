--------------------------- MODULE PowerInterlock ---------------------------
(***************************************************************************)
(* What the rear controller promises about the motor: a one-way fault      *)
(* latch in front of a drive switch.  No task, relay delay or CAN frame is *)
(* visible here.  RearController implements this specification.            *)
(*                                                                         *)
(*   mode   the controller state the rest of the car sees                  *)
(*   ready  the motor bus has been precharged (never withdrawn)            *)
(*   fault  some BPS fault has been recorded (never withdrawn)             *)
(*   motor  the motor contactor is energised                               *)
(***************************************************************************)
VARIABLES mode, ready, fault, motor

vars == <<mode, ready, fault, motor>>

Modes == {"START", "IDLE", "DRIVE", "FAULT"}

Init ==
  /\ mode = "START"
  /\ ready = FALSE
  /\ fault = FALSE
  /\ motor = FALSE

Precharged ==
  /\ ready' = TRUE
  /\ UNCHANGED <<mode, fault, motor>>

RecordFault ==
  /\ fault' = TRUE
  /\ UNCHANGED <<mode, ready, motor>>

\* The only step that energises the motor: precharged, and no fault recorded.
Engage ==
  /\ mode \in {"START", "IDLE"}
  /\ ready
  /\ ~fault
  /\ mode' = "DRIVE"
  /\ motor' = TRUE
  /\ UNCHANGED <<ready, fault>>

Release ==
  /\ mode \in {"START", "DRIVE"}
  /\ ~fault
  /\ mode' = "IDLE"
  /\ motor' = FALSE
  /\ UNCHANGED <<ready, fault>>

\* A recorded fault takes the mode to FAULT; the contactor may drop with it ...
Latch ==
  /\ fault
  /\ mode # "FAULT"
  /\ mode' = "FAULT"
  /\ motor' \in {motor, FALSE}
  /\ UNCHANGED <<ready, fault>>

\* ... or in a later step.
Cut ==
  /\ mode = "FAULT"
  /\ motor' = FALSE
  /\ UNCHANGED <<mode, ready, fault>>

Next == Precharged \/ RecordFault \/ Engage \/ Release \/ Latch \/ Cut

\* Fairness: a recorded fault is acted upon, and FAULT drops the contactor.
Spec == Init /\ [][Next]_vars /\ WF_vars(Latch) /\ WF_vars(Cut)
=============================================================================
