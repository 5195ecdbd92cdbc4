----------------------------- MODULE FrontLights ----------------------------
(***************************************************************************)
(* The blinking lights of the front controller.  The medium task turns the *)
(* requests of the steering wheel and the BPS fault into commands to two   *)
(* one-shot FreeRTOS timers; their callbacks toggle the lights and rearm   *)
(* the timer, on the timer daemon.                                         *)
(*                                                                         *)
(* The daemon has the medium task's priority.  There is no time slicing,   *)
(* but each cycle of the fast task hands the processor to the other of the *)
(* two, so that they interleave between any two statements.  What cannot   *)
(* happen is that the daemon is ready all through a sleep of the medium    *)
(* task: when that task wakes, the daemon is idle and its queue empty.     *)
(***************************************************************************)
EXTENDS Naturals, Sequences

CONSTANT TimerQueueLength     \* configTIMER_QUEUE_LENGTH

ASSUME TimerQueueAssumption == TimerQueueLength \in Nat \ {0}

VARIABLES
  request,                      \* lights field received from steering
  fault,                        \* BPS fault received from the rear
  current_steering_light_state,
  current_bps_light_state,
  light,                        \* the load switch of each light
  active,                       \* timers that are running
  queue,                        \* commands to the timer daemon
  pc,                           \* the medium task's next statement
  new_state,                    \* the request this cycle works on
  lower,                        \* lights process_event has yet to switch off
  callback,                     \* timer whose callback runs; else "drain", with
                                \* commands to carry out first, or "ready"
  toggle                        \* lights the callback has yet to toggle

inputs     == <<request, fault>>
daemonVars == <<callback, toggle>>
mediumVars == <<current_steering_light_state, current_bps_light_state,
                pc, new_state, lower>>

vars == <<inputs, light, active, queue, daemonVars, mediumVars>>

SteeringLightState == {"OFF", "LEFT", "RIGHT", "HAZARD"}
Lights == {"left", "right", "bps"}
Timers == {"signal", "bps"}

Commands == [op : {"START", "RESET", "DELETE"}, timer : Timers]

\* Every command is posted without waiting: a full queue drops it unnoticed.
Post(op, timer) ==
  queue' = IF Len(queue) < TimerQueueLength
           THEN Append(queue, [op |-> op, timer |-> timer]) ELSE queue

-----------------------------------------------------------------------------
\* The timer daemon.
DaemonUnchanged == UNCHANGED <<inputs, mediumVars>>

\* The daemon empties its queue before it looks for a timer that has expired.
\* Deleting a static timer only stops it: it can be started again.
DaemonCommand ==
  /\ callback \in {"drain", "ready"}
  /\ queue # <<>>
  /\ active' = IF Head(queue).op = "DELETE" THEN active \ {Head(queue).timer}
                                            ELSE active \union {Head(queue).timer}
  /\ queue' = Tail(queue)
  /\ callback' = IF Tail(queue) = <<>> THEN "ready" ELSE "drain"
  /\ UNCHANGED <<light, toggle>>
  /\ DaemonUnchanged

BlinkGroup(timer) ==
  IF timer = "bps"
  THEN IF current_bps_light_state = "ON" THEN <<"bps">> ELSE <<>>
  ELSE CASE current_steering_light_state = "LEFT"   -> <<"left">>
         [] current_steering_light_state = "RIGHT"  -> <<"right">>
         [] current_steering_light_state = "HAZARD" -> <<"left", "right">>
         [] OTHER                                   -> <<>>

\* A running timer may expire at any time; its callback reads the state once.
\* A command posted since the queue was empty comes too late.
Expire(timer) ==
  /\ callback = "ready"
  /\ timer \in active
  /\ active' = active \ {timer}
  /\ callback' = timer
  /\ toggle' = BlinkGroup(timer)
  /\ UNCHANGED <<light, queue>>
  /\ DaemonUnchanged

Toggle ==
  /\ toggle # <<>>
  /\ light' = [light EXCEPT ![Head(toggle)] = ~@]
  /\ toggle' = Tail(toggle)
  /\ UNCHANGED <<active, queue, callback>>
  /\ DaemonUnchanged

\* Mutant: only a blinking light rearms its timer.
Rearm_IfLit ==
  /\ callback \in Timers /\ toggle = <<>>
  /\ IF \E l \in Lights : light[l] THEN Post("RESET", callback) ELSE UNCHANGED queue
  /\ callback' = "drain"
  /\ UNCHANGED <<light, active, toggle>>
  /\ DaemonUnchanged

\* The callback rearms its timer, in whatever state it finds the lights.
Rearm ==
  /\ callback \in Timers /\ toggle = <<>>
  /\ Post("RESET", callback)
  /\ callback' = "drain"
  /\ UNCHANGED <<light, active, toggle>>
  /\ DaemonUnchanged

DaemonStep == DaemonCommand \/ Toggle \/ Rearm

-----------------------------------------------------------------------------
\* The medium task.
MediumUnchanged == UNCHANGED <<inputs, active, daemonVars>>

\* What a task that wakes from a sleep finds.
DaemonIdle == callback = "ready" /\ queue = <<>>

\* A fault: the BPS light is set to blink, and the cycle ends.
FaultSeen ==
  /\ pc = "wait" /\ DaemonIdle
  /\ fault /\ current_bps_light_state = "OFF"
  /\ Post("START", "bps")
  /\ pc' = "bps_on"
  /\ UNCHANGED <<light, current_steering_light_state, current_bps_light_state, new_state, lower>>
  /\ MediumUnchanged

BpsOn ==
  /\ pc = "bps_on"
  /\ current_bps_light_state' = "ON"
  /\ pc' = "wait"
  /\ UNCHANGED <<light, queue, current_steering_light_state, new_state, lower>>
  /\ MediumUnchanged

\* The fault has gone: the state machine is in FAULT exactly when the light is
\* in ON.  The cycle goes on to the turn signals.
FaultGone ==
  /\ pc = "wait" /\ DaemonIdle
  /\ ~fault /\ current_bps_light_state = "ON"
  /\ Post("DELETE", "bps")
  /\ new_state' = request
  /\ pc' = "bps_lower"
  /\ UNCHANGED <<light, current_steering_light_state, current_bps_light_state, lower>>
  /\ MediumUnchanged

BpsLower ==
  /\ pc = "bps_lower"
  /\ light' = [light EXCEPT !["bps"] = FALSE]
  /\ pc' = "bps_off"
  /\ UNCHANGED <<queue, current_steering_light_state, current_bps_light_state, new_state, lower>>
  /\ MediumUnchanged

BpsOff ==
  /\ pc = "bps_off" /\ DaemonIdle
  /\ current_bps_light_state' = "OFF"
  /\ pc' = "event"
  /\ UNCHANGED <<light, queue, current_steering_light_state, new_state, lower>>
  /\ MediumUnchanged

NoFault ==
  /\ pc = "wait" /\ DaemonIdle
  /\ ~fault /\ current_bps_light_state = "OFF"
  /\ request # current_steering_light_state
  /\ new_state' = request
  /\ pc' = "event"
  /\ UNCHANGED <<light, queue, current_steering_light_state, current_bps_light_state, lower>>
  /\ MediumUnchanged

\* Mutant: right before left.
LowerOf_RightFirst(state) ==
  CASE state = "LEFT"  -> <<"right">>
    [] state = "RIGHT" -> <<"left">>
    [] OTHER           -> <<"right", "left">>

\* process_event.  The lights each request switches off first, in order:
LowerOf(state) ==
  CASE state = "LEFT"  -> <<"right">>
    [] state = "RIGHT" -> <<"left">>
    [] OTHER           -> <<"left", "right">>

EventSame ==
  /\ pc = "event"
  /\ new_state = current_steering_light_state
  /\ pc' = "wait"
  /\ UNCHANGED <<light, queue, current_steering_light_state, current_bps_light_state,
                 new_state, lower>>
  /\ MediumUnchanged

EventChange ==
  /\ pc = "event"
  /\ new_state # current_steering_light_state
  /\ IF new_state = "OFF" THEN Post("DELETE", "signal") ELSE UNCHANGED queue
  /\ lower' = LowerOf(new_state)
  /\ pc' = "lower"
  /\ UNCHANGED <<light, current_steering_light_state, current_bps_light_state, new_state>>
  /\ MediumUnchanged

LowerLight ==
  /\ pc = "lower"
  /\ light' = [light EXCEPT ![Head(lower)] = FALSE]
  /\ lower' = Tail(lower)
  /\ pc' = "sleep"
  /\ UNCHANGED <<queue, current_steering_light_state, current_bps_light_state, new_state>>
  /\ MediumUnchanged

Wake ==
  /\ pc = "sleep" /\ DaemonIdle
  /\ pc' = IF lower = <<>> THEN "start" ELSE "lower"
  /\ UNCHANGED <<light, queue, current_steering_light_state, current_bps_light_state,
                 new_state, lower>>
  /\ MediumUnchanged

\* Mutant: the timer is not started for the hazards.
StartsTimer_NotHazard ==
  current_steering_light_state = "OFF" /\ new_state \in {"LEFT", "RIGHT"}

\* Coming from OFF the timer has to be started; else it is already running.
StartsTimer == current_steering_light_state = "OFF" /\ new_state # "OFF"

EventStart ==
  /\ pc = "start"
  /\ IF StartsTimer THEN Post("START", "signal") ELSE UNCHANGED queue
  /\ pc' = "set"
  /\ UNCHANGED <<light, current_steering_light_state, current_bps_light_state, new_state, lower>>
  /\ MediumUnchanged

\* The new state is set last, after the sleeps.
EventSet ==
  /\ pc = "set"
  /\ current_steering_light_state' = new_state
  /\ pc' = "wait"
  /\ UNCHANGED <<light, queue, current_bps_light_state, new_state, lower>>
  /\ MediumUnchanged

MediumStep ==
  \/ FaultSeen \/ BpsOn \/ FaultGone \/ BpsLower \/ BpsOff \/ NoFault
  \/ EventSame \/ EventChange \/ LowerLight \/ Wake \/ EventStart \/ EventSet

-----------------------------------------------------------------------------
\* New values arrive over CAN at any time.
Receive ==
  /\ request' \in SteeringLightState
  /\ fault' \in BOOLEAN
  /\ UNCHANGED <<light, active, queue, daemonVars, mediumVars>>

Init ==
  /\ request = "OFF"
  /\ fault = FALSE
  /\ current_steering_light_state = "OFF"
  /\ current_bps_light_state = "OFF"
  /\ light = [l \in Lights |-> FALSE]
  /\ active = {}
  /\ queue = <<>>
  /\ pc = "wait"
  /\ new_state = "OFF"
  /\ lower = <<>>
  /\ callback = "ready"
  /\ toggle = <<>>

Next == Receive \/ MediumStep \/ DaemonStep \/ \E t \in Timers : Expire(t)

Safety == Init /\ [][Next]_vars

\* The daemon's list is ordered by expiry, so that no timer starves the other,
\* and its callbacks take microseconds of each 200 ms.
Spec ==
  /\ Safety
  /\ WF_vars(DaemonStep)
  /\ SF_vars(MediumStep)
  /\ SF_vars(Expire("signal"))
  /\ SF_vars(Expire("bps"))

-----------------------------------------------------------------------------
\* Every variable has its type.
TypeOK ==
  /\ request \in SteeringLightState
  /\ fault \in BOOLEAN
  /\ current_steering_light_state \in SteeringLightState
  /\ current_bps_light_state \in {"ON", "OFF"}
  /\ light \in [Lights -> BOOLEAN]
  /\ active \subseteq Timers
  /\ queue \in Seq(Commands) /\ Len(queue) <= TimerQueueLength
  /\ pc \in {"wait", "bps_on", "bps_lower", "bps_off", "event", "lower", "sleep",
             "start", "set"}
  /\ new_state \in SteeringLightState
  /\ lower \in {<<>>, <<"left">>, <<"right">>, <<"left", "right">>}
  /\ callback \in Timers \union {"drain", "ready"}
  /\ toggle \in {<<>>, <<"left">>, <<"right">>, <<"left", "right">>, <<"bps">>}

\* The last command under way for the timer is queue[i].
LastFor(timer, i) ==
  /\ queue[i].timer = timer
  /\ \A j \in 1 .. Len(queue) : j > i => queue[j].timer # timer

\* The timer runs, or will once the commands under way have been carried out.
Armed(timer) ==
  \/ callback = timer
  \/ timer \in active /\ \A i \in 1 .. Len(queue) : queue[i].timer # timer
  \/ \E i \in 1 .. Len(queue) : LastFor(timer, i) /\ queue[i].op # "DELETE"

\* A light that is to blink has a timer: no order of starts, stops, expiries
\* and rearms loses it.
TimerAlive ==
  /\ current_steering_light_state # "OFF" /\ ~(new_state = "OFF" /\ pc # "wait")
       => Armed("signal")
  /\ current_bps_light_state = "ON" /\ pc \notin {"bps_lower", "bps_off"}
       => Armed("bps")

\* A turn signal or hazard that stays requested blinks for ever.
SignalsBlink ==
  \A s \in {"LEFT", "RIGHT", "HAZARD"} :
    LET group == IF s = "HAZARD" THEN {"left", "right"}
                 ELSE IF s = "LEFT" THEN {"left"} ELSE {"right"}
    IN  <>[](request = s /\ ~fault) =>
          \A l \in group : []<>light[l] /\ []<>~light[l]

\* So does the BPS light while there is a fault.
BpsBlinks == <>[]fault => []<>light["bps"] /\ []<>~light["bps"]

\* No light that ought to blink ever stops: no timer restart is lost, in any order
\* of events, expiries and callbacks.
LightsBlink == SignalsBlink /\ BpsBlinks

\* LEFT and RIGHT are a turn to one side: the other is dark.
OneSide ==
  /\ current_steering_light_state = "LEFT" => ~light["right"]
  /\ current_steering_light_state = "RIGHT" => ~light["left"]

OffIsDark ==
  current_steering_light_state = "OFF" => ~light["left"] /\ ~light["right"]

\* global_enums.h:207-209 say of the states "Steering lights off", "Steering
\* light left turn", "... right turn": once an event is processed, the lamps the
\* state does not name are dark.
LampsFollowState == pc = "wait" /\ DaemonIdle => OneSide /\ OffIsDark
=============================================================================
