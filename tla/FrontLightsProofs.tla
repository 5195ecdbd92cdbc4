-------------------------- MODULE FrontLightsProofs -------------------------
(***************************************************************************)
(* Proofs about FrontLights, for any queue of at least two commands: two   *)
(* are all that ever wait at once, so that none is dropped, and the order  *)
(* they are posted in decides whether a timer is alive.                    *)
(***************************************************************************)
EXTENDS FrontLights, TLAPS

\* As Armed, without the callback.
Held(timer) ==
  \/ timer \in active /\ \A i \in 1 .. Len(queue) : queue[i].timer # timer
  \/ \E i \in 1 .. Len(queue) : LastFor(timer, i) /\ queue[i].op # "DELETE"

\* The medium task has posted its command since the daemon was last idle, or
\* may have.
MayHavePosted == pc \notin {"event", "start"}

\* One command of the medium task waits at most, and one of a callback that has
\* just ended.
FewCommands ==
  Len(queue) <= (IF MayHavePosted THEN 1 ELSE 0) + (IF callback = "drain" THEN 1 ELSE 0)

\* The signal timer lives while the state is on, unless the event OFF is being
\* processed, and from its START on.
SignalArmed ==
  \/ current_steering_light_state # "OFF" /\ (pc \in {"wait", "bps_on"} \/ new_state # "OFF")
  \/ pc = "set" /\ new_state # "OFF"
  => Armed("signal")

BpsArmed ==
  \/ current_bps_light_state = "ON" /\ pc \notin {"bps_lower", "bps_off"}
  \/ pc = "bps_on"
  => Armed("bps")

\* A light is left to lower when one is lowered; only a callback toggles.
Sequencing ==
  /\ pc = "lower" => lower # <<>>
  /\ toggle # <<>> => callback \in Timers

IInv == TypeOK /\ FewCommands /\ SignalArmed /\ BpsArmed /\ Sequencing

USE DEF Timers, Lights, SteeringLightState

LEMMA ArmedIsHeld == \A t \in Timers : Armed(t) <=> callback = t \/ Held(t)
BY DEF Armed, Held

LEMMA InitIInv == Init => IInv
<1> SUFFICES ASSUME Init PROVE IInv
  OBVIOUS
<1>1. TypeOK
  <2>1. queue \in Seq(Commands) /\ Len(queue) <= TimerQueueLength
    BY TimerQueueAssumption DEF Init
  <2>2. /\ light \in [Lights -> BOOLEAN] /\ active \subseteq Timers
        /\ request \in SteeringLightState /\ fault \in BOOLEAN
        /\ current_steering_light_state \in SteeringLightState
        /\ new_state \in SteeringLightState
    BY DEF Init
  <2> QED
    BY <2>1, <2>2 DEF Init, TypeOK
<1>2. FewCommands /\ SignalArmed /\ BpsArmed /\ Sequencing
  BY DEF Init, FewCommands, MayHavePosted, SignalArmed, BpsArmed, Sequencing
<1> QED
  BY <1>1, <1>2 DEF IInv
-----------------------------------------------------------------------------
(* The queue. *)

\* A command that finds room is the last one.
LEMMA PostAppends ==
  ASSUME NEW op \in {"START", "RESET", "DELETE"}, NEW timer \in Timers,
         queue \in Seq(Commands), Len(queue) < TimerQueueLength, Post(op, timer)
  PROVE  /\ queue' \in Seq(Commands)
         /\ Len(queue') = Len(queue) + 1
         /\ queue'[Len(queue) + 1] = [op |-> op, timer |-> timer]
         /\ \A i \in 1 .. Len(queue) : queue'[i] = queue[i]
BY DEF Post, Commands

\* A start makes its timer live; no command stops another timer.
LEMMA PostHolds ==
  ASSUME NEW op \in {"START", "RESET", "DELETE"}, NEW timer \in Timers, NEW other \in Timers,
         queue \in Seq(Commands), Len(queue) < TimerQueueLength, Post(op, timer),
         active' = active,
         other = timer => op # "DELETE",
         other # timer => Held(other)
  PROVE  Held(other)'
<1> DEFINE last == Len(queue) + 1
<1>1. /\ Len(queue) \in Nat /\ Len(queue') = last
      /\ queue'[last] = [op |-> op, timer |-> timer]
      /\ \A i \in 1 .. Len(queue) : queue'[i] = queue[i]
  BY PostAppends
<1>2. CASE other = timer
  <2>1. last \in 1 .. Len(queue')
    BY <1>1
  <2>2. queue'[last].timer = timer /\ queue'[last].op = op
    BY <1>1
  <2>3. \A j \in 1 .. Len(queue') : ~(j > last)
    BY <1>1
  <2>4. /\ queue'[last].timer = other /\ queue'[last].op # "DELETE"
        /\ \A j \in 1 .. Len(queue') : j > last => queue'[j].timer # other
    BY <1>2, <2>2, <2>3
  <2> HIDE DEF last
  <2> QED
    BY <2>1, <2>4 DEF Held, LastFor
<1>3. CASE other # timer
  <2>1. \A j \in 1 .. Len(queue') : j \in 1 .. Len(queue) \/ j = last
    BY <1>1
  <2>2. queue'[last].timer # other
    BY <1>1, <1>3
  <2>3. ASSUME NEW i \in 1 .. Len(queue), LastFor(other, i), queue[i].op # "DELETE"
        PROVE  Held(other)'
    <3>1. i \in 1 .. Len(queue')
      BY <1>1
    <3>2. LastFor(other, i)'
      BY <1>1, <2>1, <2>2, <2>3 DEF LastFor
    <3> QED
      BY <1>1, <2>3, <3>1, <3>2 DEF Held
  <2>4. ASSUME other \in active, \A i \in 1 .. Len(queue) : queue[i].timer # other
        PROVE  Held(other)'
    BY <1>1, <2>1, <2>2, <2>4 DEF Held
  <2> QED
    BY <1>3, <2>3, <2>4 DEF Held
<1> QED
  BY <1>2, <1>3

\* Carrying out a command keeps every live timer live.
LEMMA CommandHolds ==
  ASSUME queue \in Seq(Commands), DaemonCommand, NEW timer \in Timers, Held(timer)
  PROVE  Held(timer)'
<1>1. /\ queue # <<>> /\ queue' = Tail(queue)
      /\ active' = IF Head(queue).op = "DELETE" THEN active \ {Head(queue).timer}
                                                ELSE active \union {Head(queue).timer}
  BY DEF DaemonCommand
<1>2. /\ Len(queue) \in Nat /\ Len(queue) >= 1 /\ Len(queue') = Len(queue) - 1
      /\ Head(queue) = queue[1]
      /\ \A j \in 1 .. Len(queue') : queue'[j] = queue[j + 1]
  BY <1>1
<1>3. CASE timer \in active /\ \A i \in 1 .. Len(queue) : queue[i].timer # timer
  <2>1. timer \in active' /\ \A i \in 1 .. Len(queue') : queue'[i].timer # timer
    BY <1>1, <1>2, <1>3
  <2> QED
    BY <2>1 DEF Held
<1>4. ASSUME NEW i \in 1 .. Len(queue), LastFor(timer, i), queue[i].op # "DELETE"
      PROVE  Held(timer)'
  <2>1. CASE i = 1
    <3>1. timer \in active'
      BY <1>1, <1>2, <1>4, <2>1 DEF LastFor
    <3>2. \A j \in 1 .. Len(queue') : queue'[j].timer # timer
      BY <1>2, <1>4, <2>1 DEF LastFor
    <3> QED
      BY <3>1, <3>2 DEF Held
  <2>2. CASE i # 1
    <3>1. /\ i - 1 \in 1 .. Len(queue')
          /\ queue'[i - 1] = queue[i]
      BY <1>2, <2>2
    <3>2. LastFor(timer, i - 1)'
      BY <1>2, <1>4, <3>1 DEF LastFor
    <3> QED
      BY <1>4, <3>1, <3>2 DEF Held
  <2> QED
    BY <2>1, <2>2
<1> QED
  BY <1>3, <1>4 DEF Held
-----------------------------------------------------------------------------
(* One lemma per step: what it does to the commands and to the timers. *)

LEMMA DaemonKeepsRoom ==
  ASSUME TypeOK, FewCommands, TimerQueueLength >= 2, callback \in Timers
  PROVE  Len(queue) < TimerQueueLength
BY TimerQueueAssumption DEF TypeOK, FewCommands

\* The medium task posts only with an empty queue, or in the two statements in
\* which it has posted nothing since.
LEMMA MediumKeepsRoom ==
  ASSUME TypeOK, FewCommands, TimerQueueLength >= 2, DaemonIdle \/ ~MayHavePosted
  PROVE  Len(queue) < TimerQueueLength
BY TimerQueueAssumption DEF TypeOK, FewCommands, DaemonIdle

LEMMA CommandIInv ==
  ASSUME IInv, DaemonCommand
  PROVE  IInv'
<1>1. /\ queue \in Seq(Commands) /\ queue # <<>> /\ queue' = Tail(queue)
      /\ active' \in {active \ {Head(queue).timer}, active \union {Head(queue).timer}}
      /\ callback \in {"drain", "ready"}
      /\ callback' = IF Tail(queue) = <<>> THEN "ready" ELSE "drain"
      /\ UNCHANGED <<inputs, light, mediumVars, toggle>>
  BY DEF IInv, TypeOK, DaemonCommand, DaemonUnchanged
<1>2. /\ Head(queue) \in Commands /\ queue' \in Seq(Commands)
      /\ Len(queue) \in Nat /\ Len(queue') = Len(queue) - 1
      /\ Tail(queue) = <<>> => Len(queue') = 0
  <2>1. Len(queue) \in Nat /\ Len(queue) >= 1
    BY <1>1
  <2>2. Head(queue) = queue[1] /\ queue[1] \in Commands
    BY <1>1, <2>1
  <2>3. queue' \in Seq(Commands) /\ Len(queue') = Len(queue) - 1
    BY <1>1, <2>1
  <2>4. Len(<<>>) = 0
    OBVIOUS
  <2> QED
    BY <1>1, <2>1, <2>2, <2>3, <2>4
<1>3. TypeOK'
  <2>1. active' \subseteq Timers
    BY <1>1, <1>2 DEF IInv, TypeOK, Commands
  <2>2. queue' \in Seq(Commands) /\ Len(queue') <= TimerQueueLength
    BY <1>2, TimerQueueAssumption DEF IInv, TypeOK
  <2> QED
    BY <1>1, <2>1, <2>2 DEF IInv, TypeOK, inputs, mediumVars
<1>4. FewCommands'
  BY <1>1, <1>2 DEF IInv, FewCommands, MayHavePosted, mediumVars
<1>5. ASSUME NEW t \in Timers, Armed(t)
      PROVE  Armed(t)'
  <2>1. Held(t)
    BY <1>1, <1>5, ArmedIsHeld
  <2>2. Held(t)'
    BY <1>1, <2>1, CommandHolds
  <2> QED
    BY <2>2 DEF Armed, Held
<1>6. SignalArmed' /\ BpsArmed'
  BY <1>1, <1>5 DEF IInv, SignalArmed, BpsArmed, mediumVars
<1>7. Sequencing'
  BY <1>1 DEF IInv, Sequencing, mediumVars
<1> QED
  BY <1>3, <1>4, <1>6, <1>7 DEF IInv

\* A timer that expires is alive through its callback.
LEMMA ExpireIInv ==
  ASSUME IInv, NEW timer \in Timers, Expire(timer)
  PROVE  IInv'
<1>1. /\ callback = "ready" /\ callback' = timer
      /\ active' = active \ {timer}
      /\ toggle' = BlinkGroup(timer)
      /\ UNCHANGED <<inputs, light, mediumVars, queue>>
  BY DEF Expire, DaemonUnchanged
<1>2. toggle' \in {<<>>, <<"left">>, <<"right">>, <<"left", "right">>, <<"bps">>}
  BY <1>1 DEF BlinkGroup
<1>3. TypeOK'
  BY <1>1, <1>2 DEF IInv, TypeOK, inputs, mediumVars
<1>4. FewCommands'
  BY <1>1 DEF IInv, FewCommands, MayHavePosted, mediumVars
<1>5. \A t \in Timers : Armed(t) => Armed(t)'
  BY <1>1 DEF Armed, LastFor
<1>6. SignalArmed' /\ BpsArmed'
  BY <1>1, <1>5 DEF IInv, SignalArmed, BpsArmed, mediumVars
<1>7. Sequencing'
  BY <1>1 DEF IInv, Sequencing, mediumVars
<1> QED
  BY <1>3, <1>4, <1>6, <1>7 DEF IInv

LEMMA ToggleIInv ==
  ASSUME IInv, Toggle
  PROVE  IInv'
<1>1. /\ toggle # <<>> /\ toggle' = Tail(toggle)
      /\ light' = [light EXCEPT ![Head(toggle)] = ~@]
      /\ UNCHANGED <<inputs, mediumVars, active, queue, callback>>
  BY DEF Toggle, DaemonUnchanged
<1>2. light' \in [Lights -> BOOLEAN]
  BY <1>1 DEF IInv, TypeOK
<1>3. toggle' \in {<<>>, <<"left">>, <<"right">>, <<"left", "right">>, <<"bps">>}
  <2>1. Tail(<<"left">>) = <<>> /\ Tail(<<"right">>) = <<>> /\ Tail(<<"bps">>) = <<>>
        /\ Tail(<<"left", "right">>) = <<"right">>
    OBVIOUS
  <2> QED
    BY <1>1, <2>1 DEF IInv, TypeOK
<1>4. TypeOK'
  BY <1>1, <1>2, <1>3 DEF IInv, TypeOK, inputs, mediumVars
<1>5. \A t \in Timers : Armed(t) => Armed(t)'
  BY <1>1 DEF Armed, LastFor
<1>6. FewCommands' /\ SignalArmed' /\ BpsArmed' /\ Sequencing'
  BY <1>1, <1>5 DEF IInv, FewCommands, MayHavePosted, SignalArmed, BpsArmed, Sequencing, mediumVars
<1> QED
  BY <1>4, <1>6 DEF IInv

\* The callback hands over to its RESET, for which there is room.
LEMMA RearmIInv ==
  ASSUME IInv, TimerQueueLength >= 2, Rearm
  PROVE  IInv'
<1>1. /\ callback \in Timers /\ callback' = "drain" /\ toggle = <<>> /\ toggle' = toggle
      /\ Post("RESET", callback)
      /\ UNCHANGED <<inputs, mediumVars, light, active>>
  BY DEF Rearm, DaemonUnchanged
<1>2. queue \in Seq(Commands) /\ Len(queue) < TimerQueueLength
  BY <1>1, DaemonKeepsRoom DEF IInv, TypeOK
<1>3. queue' \in Seq(Commands) /\ Len(queue') = Len(queue) + 1 /\ Len(queue) \in Nat
  BY <1>1, <1>2, PostAppends
<1>4. TypeOK'
  BY <1>1, <1>2, <1>3, TimerQueueAssumption DEF IInv, TypeOK, inputs, mediumVars
<1>5. FewCommands'
  BY <1>1, <1>3 DEF IInv, FewCommands, MayHavePosted, mediumVars
<1>6. ASSUME NEW t \in Timers, Armed(t)
      PROVE  Armed(t)'
  <2>1. callback # t => Held(t)
    BY <1>6, ArmedIsHeld
  <2>2. Held(t)'
    BY <1>1, <1>2, <2>1, PostHolds
  <2> QED
    BY <2>2 DEF Armed, Held
<1>7. SignalArmed' /\ BpsArmed' /\ Sequencing'
  BY <1>1, <1>6 DEF IInv, SignalArmed, BpsArmed, Sequencing, mediumVars
<1> QED
  BY <1>4, <1>5, <1>7 DEF IInv

\* The steps of the medium task that post nothing.  Those that begin a statement
\* that may post find the daemon idle.
LEMMA QuietIInv ==
  ASSUME IInv,
         \/ BpsOn \/ BpsLower \/ BpsOff \/ NoFault \/ EventSame \/ LowerLight
         \/ Wake \/ EventSet
  PROVE  IInv'
<1> USE DEF MediumUnchanged
<1>1. UNCHANGED <<inputs, active, daemonVars, queue>>
  BY DEF BpsOn, BpsLower, BpsOff, NoFault, EventSame, LowerLight, Wake, EventSet
<1>2. \A t \in Timers : Armed(t)' <=> Armed(t)
  BY <1>1 DEF Armed, LastFor, daemonVars
<1>3. lower' \in {<<>>, <<"left">>, <<"right">>, <<"left", "right">>}
  <2>1. Tail(<<"left">>) = <<>> /\ Tail(<<"right">>) = <<>>
        /\ Tail(<<"left", "right">>) = <<"right">>
    OBVIOUS
  <2> QED
    BY <2>1 DEF IInv, TypeOK, Sequencing, BpsOn, BpsLower, BpsOff, NoFault, EventSame,
                LowerLight, Wake, EventSet
<1>4. light' \in [Lights -> BOOLEAN]
  BY DEF IInv, TypeOK, BpsOn, BpsLower, BpsOff, NoFault, EventSame, LowerLight, Wake, EventSet
<1>5. TypeOK'
  <2>1. /\ pc' \in {"wait", "bps_on", "bps_lower", "bps_off", "event", "lower", "sleep",
                     "start", "set"}
        /\ new_state' \in SteeringLightState
        /\ current_steering_light_state' \in SteeringLightState
        /\ current_bps_light_state' \in {"ON", "OFF"}
    BY DEF IInv, TypeOK, BpsOn, BpsLower, BpsOff, NoFault, EventSame, LowerLight, Wake, EventSet
  <2> QED
    BY <1>1, <1>3, <1>4, <2>1 DEF IInv, TypeOK, inputs, daemonVars
<1>6. FewCommands'
  BY <1>1 DEF IInv, TypeOK, FewCommands, MayHavePosted, DaemonIdle, daemonVars,
              BpsOn, BpsLower, BpsOff, NoFault, EventSame, LowerLight, Wake, EventSet
<1>7. SignalArmed'
  BY <1>2 DEF IInv, SignalArmed, BpsOn, BpsLower, BpsOff, NoFault, EventSame, LowerLight,
              Wake, EventSet
<1>8. BpsArmed'
  BY <1>2 DEF IInv, BpsArmed, BpsOn, BpsLower, BpsOff, NoFault, EventSame, LowerLight,
              Wake, EventSet
<1>9. Sequencing'
  BY <1>1 DEF IInv, Sequencing, daemonVars, BpsOn, BpsLower, BpsOff, NoFault, EventSame,
              LowerLight, Wake, EventSet
<1> QED
  BY <1>5, <1>6, <1>7, <1>8, <1>9 DEF IInv

\* A command of the medium task finds room, leaves the other timer alone and, if
\* it is a START, makes its own live.
LEMMA MediumPosts ==
  ASSUME IInv, TimerQueueLength >= 2, DaemonIdle \/ ~MayHavePosted,
         NEW op \in {"START", "DELETE"}, NEW timer \in Timers, Post(op, timer),
         active' = active, callback' = callback
  PROVE  /\ queue' \in Seq(Commands) /\ Len(queue') <= TimerQueueLength
         /\ Len(queue') = Len(queue) + 1 /\ Len(queue) \in Nat
         /\ \A t \in Timers : t # timer /\ Armed(t) => Armed(t)'
         /\ op = "START" => Armed(timer)'
<1>1. queue \in Seq(Commands) /\ Len(queue) < TimerQueueLength
  BY MediumKeepsRoom DEF IInv, TypeOK
<1>2. /\ queue' \in Seq(Commands) /\ Len(queue') = Len(queue) + 1 /\ Len(queue) \in Nat
      /\ Len(queue') <= TimerQueueLength
  BY <1>1, PostAppends, TimerQueueAssumption
<1>3. ASSUME NEW t \in Timers, t # timer, Armed(t)
      PROVE  Armed(t)'
  <2>1. CASE callback = t
    BY <2>1 DEF Armed
  <2>2. CASE Held(t)
    <3>1. Held(t)'
      BY <1>1, <1>3, <2>2, PostHolds
    <3> QED
      BY <3>1 DEF Armed, Held
  <2> QED
    BY <1>3, <2>1, <2>2, ArmedIsHeld
<1>4. ASSUME op = "START"
      PROVE  Armed(timer)'
  <2>1. Held(timer)'
    BY <1>1, <1>4, PostHolds
  <2> QED
    BY <2>1 DEF Armed, Held
<1> QED
  BY <1>2, <1>3, <1>4

LEMMA FaultIInv ==
  ASSUME IInv, TimerQueueLength >= 2, FaultSeen \/ FaultGone
  PROVE  IInv'
<1> USE DEF MediumUnchanged
<1>1. /\ pc = "wait" /\ DaemonIdle /\ active' = active /\ callback' = callback
      /\ toggle' = toggle
      /\ UNCHANGED <<inputs, light, current_steering_light_state, current_bps_light_state, lower>>
  BY DEF FaultSeen, FaultGone, daemonVars
<1>2. PICK op \in {"START", "DELETE"} :
        /\ Post(op, "bps")
        /\ op = "START" => FaultSeen
        /\ op = "DELETE" => FaultGone
  BY DEF FaultSeen, FaultGone
<1>3. /\ queue' \in Seq(Commands) /\ Len(queue') <= TimerQueueLength
      /\ Len(queue') = Len(queue) + 1 /\ Len(queue) \in Nat
      /\ Armed("signal") => Armed("signal")'
      /\ op = "START" => Armed("bps")'
  BY <1>1, <1>2, MediumPosts
<1>4. /\ op = "START" => pc' = "bps_on" /\ new_state' = new_state
      /\ op = "DELETE" => pc' = "bps_lower" /\ new_state' = request
  BY <1>2 DEF FaultSeen, FaultGone
<1>5. TypeOK'
  BY <1>1, <1>2, <1>3, <1>4 DEF IInv, TypeOK, inputs
<1>6. FewCommands'
  <2>1. Len(queue) = 0
    BY <1>1 DEF DaemonIdle
  <2> QED
    BY <1>1, <1>2, <1>3, <1>4, <2>1 DEF FewCommands, MayHavePosted, DaemonIdle
<1>7. SignalArmed' /\ BpsArmed' /\ Sequencing'
  BY <1>1, <1>2, <1>3, <1>4 DEF IInv, SignalArmed, BpsArmed, Sequencing
<1> QED
  BY <1>5, <1>6, <1>7 DEF IInv

\* process_event stops the timer for OFF only, and starts it coming from OFF.
LEMMA EventIInv ==
  ASSUME IInv, TimerQueueLength >= 2, EventChange \/ EventStart
  PROVE  IInv'
<1> USE DEF MediumUnchanged
<1>1. /\ pc \in {"event", "start"} /\ ~MayHavePosted
      /\ active' = active /\ callback' = callback /\ toggle' = toggle
      /\ UNCHANGED <<inputs, light, current_steering_light_state, current_bps_light_state, new_state>>
      /\ pc = "event" => pc' = "lower" /\ lower' = LowerOf(new_state)
      /\ pc = "start" => pc' = "set" /\ lower' = lower
  BY DEF EventChange, EventStart, daemonVars, MayHavePosted
<1>2. \/ queue' = queue
      \/ pc = "event" /\ new_state = "OFF" /\ Post("DELETE", "signal")
      \/ StartsTimer /\ Post("START", "signal")
  BY DEF EventChange, EventStart
<1>3. /\ queue' \in Seq(Commands) /\ Len(queue') <= TimerQueueLength
      /\ Len(queue') \in {Len(queue), Len(queue) + 1} /\ Len(queue) \in Nat
      /\ Armed("bps") => Armed("bps")'
  <2>1. CASE queue' = queue
    BY <1>1, <2>1 DEF IInv, TypeOK, Armed, LastFor
  <2>2. CASE Post("DELETE", "signal")
    BY <1>1, <2>2, MediumPosts
  <2>3. CASE Post("START", "signal")
    BY <1>1, <2>3, MediumPosts
  <2> QED
    BY <1>2, <2>1, <2>2, <2>3
<1>4. Armed("signal") => Armed("signal")' \/ new_state = "OFF"
  <2>1. CASE queue' = queue
    BY <1>1, <2>1 DEF Armed, LastFor
  <2>2. CASE Post("START", "signal")
    BY <1>1, <2>2, MediumPosts
  <2> QED
    BY <1>2, <2>1, <2>2
<1>5. pc = "start" /\ StartsTimer => Armed("signal")'
  <2>1. pc = "start" /\ StartsTimer => Post("START", "signal")
    BY DEF EventChange, EventStart
  <2> QED
    BY <1>1, <2>1, MediumPosts
<1>6. TypeOK'
  <2>1. lower' \in {<<>>, <<"left">>, <<"right">>, <<"left", "right">>}
    BY <1>1 DEF IInv, TypeOK, LowerOf
  <2> QED
    BY <1>1, <1>3, <2>1 DEF IInv, TypeOK, inputs
<1>7. FewCommands'
  BY <1>1, <1>3 DEF IInv, FewCommands, MayHavePosted
<1>8. SignalArmed'
  BY <1>1, <1>4, <1>5 DEF IInv, TypeOK, SignalArmed, StartsTimer
<1>9. BpsArmed' /\ Sequencing'
  <2>1. LowerOf(new_state) # <<>>
    BY DEF LowerOf
  <2> QED
    BY <1>1, <1>3, <2>1 DEF IInv, BpsArmed, Sequencing
<1> QED
  BY <1>6, <1>7, <1>8, <1>9 DEF IInv

LEMMA ReceiveIInv ==
  ASSUME IInv, Receive \/ UNCHANGED vars
  PROVE  IInv'
<1>1. /\ request' \in SteeringLightState /\ fault' \in BOOLEAN
      /\ UNCHANGED <<light, active, queue, daemonVars, mediumVars>>
  BY DEF IInv, TypeOK, Receive, vars, inputs
<1>2. \A t \in Timers : Armed(t)' <=> Armed(t)
  BY <1>1 DEF Armed, LastFor, daemonVars
<1> QED
  BY <1>1, <1>2 DEF IInv, TypeOK, FewCommands, MayHavePosted, SignalArmed, BpsArmed, Sequencing,
                    daemonVars, mediumVars

LEMMA NextIInv ==
  ASSUME IInv, TimerQueueLength >= 2, [Next]_vars
  PROVE  IInv'
<1>1. CASE Receive \/ UNCHANGED vars
  BY <1>1, ReceiveIInv
<1>2. CASE MediumStep
  BY <1>2, QuietIInv, FaultIInv, EventIInv DEF MediumStep
<1>3. CASE DaemonStep
  BY <1>3, CommandIInv, ToggleIInv, RearmIInv DEF DaemonStep
<1>4. CASE \E t \in Timers : Expire(t)
  BY <1>4, ExpireIInv
<1> QED
  BY <1>1, <1>2, <1>3, <1>4 DEF Next
-----------------------------------------------------------------------------
\* With room for two commands none is ever dropped, and the timers are where the
\* light states and the commands under way put them.
THEOREM LightsInvariant == TimerQueueLength >= 2 => (Safety => []IInv)
<1> SUFFICES ASSUME TimerQueueLength >= 2
             PROVE  Safety => []IInv
  OBVIOUS
<1>1. IInv /\ [Next]_vars => IInv'
  BY NextIInv
<1> QED
  BY InitIInv, <1>1, PTL DEF Safety

\* Every variable keeps its type.
THEOREM LightsTypes == TimerQueueLength >= 2 => (Spec => []TypeOK)
<1> SUFFICES ASSUME TimerQueueLength >= 2
             PROVE  Spec => []TypeOK
  OBVIOUS
<1>1. Safety => []IInv
  BY LightsInvariant
<1>2. IInv => TypeOK
  BY DEF IInv
<1> QED
  BY <1>1, <1>2, PTL DEF Spec

\* A light that is to blink has a timer (front_lights_signal.c, bps_light): the
\* one restart its callback posts is never lost, whichever starts, stops and
\* expiries surround it.
THEOREM LightsTimerAlive == TimerQueueLength >= 2 => (Spec => []TimerAlive)
<1> SUFFICES ASSUME TimerQueueLength >= 2
             PROVE  Spec => []TimerAlive
  OBVIOUS
<1>1. Safety => []IInv
  BY LightsInvariant
<1>2. IInv => TimerAlive
  BY DEF IInv, SignalArmed, BpsArmed, TimerAlive
<1> QED
  BY <1>1, <1>2, PTL DEF Spec
-----------------------------------------------------------------------------
(* The lights blink. *)

\* Progress.  The daemon is never blocked when it has a command or a callback,
\* a timer that runs expires, and the medium task, if it has something to do, can
\* go on when it finds the daemon idle.
DaemonIsReady == callback # "ready" \/ queue # <<>> => ENABLED <<DaemonStep>>_vars

ExpiryIsReady ==
  /\ callback = "ready" /\ "signal" \in active => ENABLED <<Expire("signal")>>_vars
  /\ callback = "ready" /\ "bps" \in active => ENABLED <<Expire("bps")>>_vars

MediumHasWork ==
  \/ pc # "wait"
  \/ fault <=> current_bps_light_state = "OFF"
  \/ ~fault /\ request # current_steering_light_state

MediumIsReady == DaemonIdle /\ MediumHasWork => ENABLED <<MediumStep>>_vars

LightsAreReady == DaemonIsReady /\ ExpiryIsReady /\ MediumIsReady

\* How far the daemon is from idle: it toggles, it rearms, and it carries out
\* the commands there are and the one the medium task may still post.
CommandsLeft == IF MayHavePosted THEN Len(queue) + 1 ELSE Len(queue) + 2

\* Of a list of lights, at most two.
Count(lights) == IF lights = <<>> THEN 0 ELSE IF lights = <<"left", "right">> THEN 2 ELSE 1

TogglesLeft == Count(toggle) + 4

DaemonLeft ==
  IF callback = "drain" THEN CommandsLeft
  ELSE IF callback = "ready" THEN 7 ELSE TogglesLeft

DaemonWithin(n) == ~DaemonIdle /\ DaemonLeft <= n

\* With m below n: what is within n stays there, and a step brings it within m.
DaemonNearer(n, m) ==
  IInv /\ DaemonWithin(n) =>
    /\ [Next]_vars => DaemonWithin(n)' \/ DaemonIdle'
    /\ <<DaemonStep>>_vars => DaemonWithin(m)' \/ DaemonIdle'

\* What the lists of lights can be.
LightLists == {<<>>, <<"left">>, <<"right">>, <<"left", "right">>, <<"bps">>}

LEMMA Counts ==
  \A lights \in LightLists :
    /\ Count(lights) \in {0, 1, 2}
    /\ Count(lights) = 0 <=> lights = <<>>
    /\ lights # <<>> => Tail(lights) \in LightLists /\ Count(Tail(lights)) = Count(lights) - 1
<1>1. /\ Tail(<<"left">>) = <<>> /\ Tail(<<"right">>) = <<>> /\ Tail(<<"bps">>) = <<>>
      /\ Tail(<<"left", "right">>) = <<"right">>
  OBVIOUS
<1>2. /\ Count(<<>>) = 0 /\ Count(<<"left">>) = 1 /\ Count(<<"right">>) = 1
      /\ Count(<<"bps">>) = 1 /\ Count(<<"left", "right">>) = 2
  BY DEF Count
<1>3. <<"left">> # <<>> /\ <<"right">> # <<>> /\ <<"bps">> # <<>> /\ <<"left", "right">> # <<>>
  OBVIOUS
<1>4. 1 - 1 = 0 /\ 2 - 1 = 1
  OBVIOUS
<1> HIDE DEF Count
<1>5. /\ Tail(<<"left">>) \in LightLists /\ Tail(<<"right">>) \in LightLists
      /\ Tail(<<"bps">>) \in LightLists /\ Tail(<<"left", "right">>) \in LightLists
  BY <1>1 DEF LightLists
<1>6. /\ Count(Tail(<<"left">>)) = Count(<<"left">>) - 1
      /\ Count(Tail(<<"right">>)) = Count(<<"right">>) - 1
      /\ Count(Tail(<<"bps">>)) = Count(<<"bps">>) - 1
      /\ Count(Tail(<<"left", "right">>)) = Count(<<"left", "right">>) - 1
  BY <1>1, <1>2, <1>4, Zenon
<1> SUFFICES ASSUME NEW lights \in LightLists
             PROVE  /\ Count(lights) \in {0, 1, 2}
                    /\ Count(lights) = 0 <=> lights = <<>>
                    /\ lights # <<>> => Tail(lights) \in LightLists /\ Count(Tail(lights)) = Count(lights) - 1
  OBVIOUS
<1>7. \/ lights = <<>> \/ lights = <<"left">> \/ lights = <<"right">>
      \/ lights = <<"bps">> \/ lights = <<"left", "right">>
  BY DEF LightLists
<1>8. Count(lights) \in {0, 1, 2} /\ (Count(lights) = 0 <=> lights = <<>>)
  BY <1>2, <1>3, <1>7
<1>9. lights # <<>> => Tail(lights) \in LightLists /\ Count(Tail(lights)) = Count(lights) - 1
  BY <1>5, <1>6, <1>7, Zenon
<1> QED
  BY <1>8, <1>9

LEMMA ListTypes == TypeOK => toggle \in LightLists /\ lower \in LightLists
BY DEF TypeOK, LightLists

\* Draining, the daemon has at most two commands before it.
DrainIsShort == callback = "drain" => DaemonLeft \in 1 .. 3

DaemonIsBounded == DaemonLeft \in 1 .. 7

LEMMA DaemonBounds == IInv => DrainIsShort /\ DaemonIsBounded
<1> SUFFICES ASSUME IInv PROVE DrainIsShort /\ DaemonIsBounded
  OBVIOUS
<1>1. Len(queue) \in Nat /\ TogglesLeft \in {4, 5, 6}
  BY ListTypes, Counts DEF IInv, TypeOK, TogglesLeft
<1>2. callback = "drain" => CommandsLeft \in 1 .. 3
  BY <1>1 DEF IInv, FewCommands, CommandsLeft
<1> QED
  BY <1>1, <1>2 DEF DrainIsShort, DaemonIsBounded, DaemonLeft

LEMMA DaemonNears ==
  ASSUME IInv, IInv', NEW n \in Nat, DaemonWithin(n + 1), DaemonStep
  PROVE  DaemonWithin(n)' \/ DaemonIdle'
<1>0. DrainIsShort /\ DrainIsShort'
  BY DaemonBounds, PTL
<1>1. CASE DaemonCommand
  <2>1. /\ queue # <<>> /\ queue' = Tail(queue) /\ pc' = pc
        /\ callback \in {"drain", "ready"}
        /\ callback' = IF Tail(queue) = <<>> THEN "ready" ELSE "drain"
    BY <1>1 DEF DaemonCommand, DaemonUnchanged, mediumVars
  <2>2. CASE Tail(queue) = <<>>
    BY <2>1, <2>2 DEF DaemonIdle
  <2>3. CASE Tail(queue) # <<>>
    <3>1. callback' = "drain"
      BY <2>1, <2>3
    <3>2. Len(queue') = Len(queue) - 1 /\ Len(queue) \in Nat
      BY <2>1 DEF IInv, TypeOK
    <3>3. DaemonLeft' \in 1 .. 3
      BY <1>0, <3>1 DEF DrainIsShort
    <3>4. callback = "drain" => DaemonLeft' = DaemonLeft - 1 /\ DaemonLeft \in 1 .. 3
      BY <1>0, <2>1, <3>1, <3>2 DEF DrainIsShort, DaemonLeft, CommandsLeft, MayHavePosted
    <3>5. callback = "ready" => DaemonLeft = 7
      BY DEF DaemonLeft
    <3> QED
      BY <2>1, <3>1, <3>3, <3>4, <3>5 DEF DaemonWithin, DaemonIdle
  <2> QED
    BY <2>2, <2>3
<1>2. CASE Toggle
  <2>1. callback \in Timers /\ toggle # <<>> /\ toggle' = Tail(toggle) /\ callback' = callback
    BY <1>2 DEF Toggle, IInv, Sequencing
  <2>2. TogglesLeft' = TogglesLeft - 1 /\ TogglesLeft \in {4, 5, 6}
    BY <2>1, ListTypes, Counts DEF IInv, TogglesLeft
  <2>3. DaemonLeft' = TogglesLeft' /\ DaemonLeft = TogglesLeft
    BY <2>1 DEF DaemonLeft
  <2> QED
    BY <2>1, <2>2, <2>3 DEF DaemonWithin, DaemonIdle
<1>3. CASE Rearm
  <2>1. callback \in Timers /\ callback' = "drain"
    BY <1>3 DEF Rearm
  <2>2. DaemonLeft' \in 1 .. 3
    BY <1>0, <2>1 DEF DrainIsShort
  <2>3. DaemonLeft = TogglesLeft /\ TogglesLeft \in {4, 5, 6}
    BY <2>1, ListTypes, Counts DEF IInv, DaemonLeft, TogglesLeft
  <2> QED
    BY <2>1, <2>2, <2>3 DEF DaemonWithin, DaemonIdle
<1> QED
  BY <1>1, <1>2, <1>3 DEF DaemonStep

\* The medium task posts at most one command before it waits for the daemon.
LEMMA MediumKeepsDaemon ==
  ASSUME IInv, NEW n \in Nat, DaemonWithin(n), MediumStep
  PROVE  DaemonWithin(n)' \/ DaemonIdle'
<1>1. callback' = callback /\ toggle' = toggle
  BY DEF MediumStep, MediumUnchanged, daemonVars, FaultSeen, BpsOn, FaultGone, BpsLower, BpsOff,
         NoFault, EventSame, EventChange, LowerLight, Wake, EventStart, EventSet
<1>2. ~DaemonIdle
  BY DEF DaemonWithin
<1> USE DEF CommandsLeft, TogglesLeft
<1>3. CASE callback = "drain"
  <2>1. \/ queue' = queue /\ (MayHavePosted => MayHavePosted')
        \/ /\ ~MayHavePosted /\ MayHavePosted'
           /\ queue' = queue \/ Post("DELETE", "signal") \/ Post("START", "signal")
    BY <1>2 DEF MediumStep, FaultSeen, BpsOn, FaultGone, BpsLower, BpsOff, NoFault, EventSame,
                EventChange, LowerLight, Wake, EventStart, EventSet, MayHavePosted
  <2>2. Post("DELETE", "signal") \/ Post("START", "signal") => Len(queue') <= Len(queue) + 1 /\ Len(queue') \in Nat
    BY DEF Post, IInv, TypeOK, Commands
  <2>3. DaemonLeft' <= DaemonLeft
    BY <1>1, <1>3, <2>1, <2>2 DEF DaemonLeft, IInv, TypeOK
  <2>4. DaemonLeft' \in Nat /\ DaemonLeft \in Nat
    BY <1>1, <1>3, <2>1, <2>2 DEF DaemonLeft, IInv, TypeOK
  <2> QED
    BY <1>1, <1>3, <2>3, <2>4 DEF DaemonWithin, DaemonIdle
<1>4. CASE callback # "drain"
  BY <1>1, <1>4 DEF DaemonWithin, DaemonLeft
<1> QED
  BY <1>3, <1>4

LEMMA OthersKeepDaemon ==
  ASSUME IInv, NEW n \in Nat, DaemonWithin(n), Receive \/ (\E t \in Timers : Expire(t)) \/ UNCHANGED vars
  PROVE  DaemonWithin(n)' \/ DaemonIdle'
<1>1. CASE Receive \/ UNCHANGED vars
  <2>1. UNCHANGED <<callback, toggle, queue, pc>>
    BY <1>1 DEF Receive, vars, daemonVars, mediumVars
  <2> QED
    BY <2>1 DEF DaemonWithin, DaemonLeft, DaemonIdle, CommandsLeft, TogglesLeft, MayHavePosted
<1>2. ASSUME NEW t \in Timers, Expire(t)
      PROVE  DaemonWithin(n)'
  <2>1. callback = "ready" /\ callback' = t /\ toggle' = BlinkGroup(t)
    BY <1>2 DEF Expire
  <2>2. BlinkGroup(t) \in LightLists
    BY DEF BlinkGroup, LightLists
  <2>3. TogglesLeft' \in {4, 5, 6}
    BY <2>1, <2>2, Counts DEF TogglesLeft
  <2>4. DaemonLeft = 7 /\ DaemonLeft' = TogglesLeft'
    BY <2>1 DEF DaemonLeft
  <2> QED
    BY <2>1, <2>3, <2>4 DEF DaemonWithin, DaemonIdle
<1> QED
  BY <1>1, <1>2

LEMMA DaemonNearerStep == TimerQueueLength >= 2 => \A n \in Nat : DaemonNearer(n + 1, n)
<1> SUFFICES ASSUME TimerQueueLength >= 2, NEW n \in Nat, IInv, DaemonWithin(n + 1)
             PROVE  /\ [Next]_vars => DaemonWithin(n + 1)' \/ DaemonIdle'
                    /\ <<DaemonStep>>_vars => DaemonWithin(n)' \/ DaemonIdle'
  BY DEF DaemonNearer
<1>1. [Next]_vars => IInv'
  BY NextIInv
<1>2. DaemonStep => DaemonWithin(n)' \/ DaemonIdle'
  BY <1>1, DaemonNears DEF Next
<1>3. IInv' /\ DaemonWithin(n)' => DaemonWithin(n + 1)'
  <2>1. IInv' => DaemonIsBounded'
    BY DaemonBounds, PTL
  <2> QED
    BY <2>1 DEF DaemonWithin, DaemonIsBounded
<1> QED
  BY <1>1, <1>2, <1>3, MediumKeepsDaemon, OthersKeepDaemon DEF Next

\* The daemon is idle again and again, whatever the medium task posts meanwhile.
LEMMA DaemonComesToRest ==
  TimerQueueLength >= 2 => (Spec /\ []LightsAreReady => []<>DaemonIdle)
<1> SUFFICES ASSUME TimerQueueLength >= 2
             PROVE  Spec /\ []LightsAreReady => []<>DaemonIdle
  OBVIOUS
<1>1. Safety => []IInv
  BY LightsInvariant
<1>2. /\ DaemonNearer(7, 6) /\ DaemonNearer(6, 5) /\ DaemonNearer(5, 4) /\ DaemonNearer(4, 3)
      /\ DaemonNearer(3, 2) /\ DaemonNearer(2, 1) /\ DaemonNearer(1, 0)
  BY DaemonNearerStep
<1>3. IInv /\ ~DaemonIdle => DaemonWithin(7)
  BY DaemonBounds DEF DaemonWithin, DaemonIsBounded
<1>4. IInv => ~DaemonWithin(0)
  BY DaemonBounds DEF DaemonWithin, DaemonIsBounded
<1>5. ~DaemonIdle => (LightsAreReady => ENABLED <<DaemonStep>>_vars)
  BY DEF DaemonIdle, LightsAreReady, DaemonIsReady
<1>6. DaemonWithin(7) \/ DaemonWithin(6) \/ DaemonWithin(5) \/ DaemonWithin(4) \/ DaemonWithin(3)
        \/ DaemonWithin(2) \/ DaemonWithin(1) => ~DaemonIdle
  BY DEF DaemonWithin
<1> QED
  BY <1>1, <1>2, <1>3, <1>4, <1>5, <1>6, PTL DEF Spec, Safety, DaemonNearer

\* While the medium task does nothing, only the daemon touches the lights.
Quiet == Receive \/ DaemonStep \/ \E t \in Timers : Expire(t)

\* The callback toggles light l next, or after the other one.
DueFirst(l)  == toggle # <<>> /\ Head(toggle) = l
DueSecond(l) == toggle = <<"left", "right">> /\ l = "right"
Due(l)       == DueFirst(l) \/ DueSecond(l)

Lit(l) == light[l]

LEMMA ToggleFlips ==
  ASSUME NEW l \in Lights, IInv, Toggle
  PROVE  /\ DueFirst(l) => (Lit(l)' <=> ~Lit(l))
         /\ DueSecond(l) => DueFirst(l)' /\ (Lit(l)' <=> Lit(l))
<1>1. /\ toggle # <<>> /\ toggle' = Tail(toggle)
      /\ light' = [light EXCEPT ![Head(toggle)] = ~@]
      /\ light \in [Lights -> BOOLEAN]
  BY DEF Toggle, IInv, TypeOK
<1>2. DueFirst(l) => (Lit(l)' <=> ~Lit(l))
  BY <1>1 DEF DueFirst, Lit
<1>3. ASSUME DueSecond(l)
      PROVE  DueFirst(l)' /\ (Lit(l)' <=> Lit(l))
  <2>1. Head(toggle) = "left" /\ Tail(toggle) = <<"right">> /\ l = "right"
    BY <1>3 DEF DueSecond
  <2>2. DueFirst(l)'
    <3>1. <<"right">> # <<>> /\ Head(<<"right">>) = "right"
      OBVIOUS
    <3> QED
      BY <1>1, <2>1, <3>1, Zenon DEF DueFirst
  <2>3. light'[l] = light[l]
    BY <1>1, <2>1
  <2> QED
    BY <2>2, <2>3 DEF Lit
<1> QED
  BY <1>2, <1>3

\* A light that is due stays so until it is toggled.
LEMMA DueStays ==
  ASSUME NEW l \in Lights, IInv, [Quiet]_vars
  PROVE  /\ Due(l) => Toggle \/ UNCHANGED <<toggle, light>>
         /\ Due(l) /\ DaemonStep => Toggle
<1>1. Due(l) => toggle # <<>> /\ callback \in Timers
  BY DEF Due, DueFirst, DueSecond, IInv, Sequencing
<1>2. Due(l) => ~DaemonCommand /\ ~Rearm /\ ~(\E t \in Timers : Expire(t))
  BY <1>1 DEF DaemonCommand, Rearm, Expire
<1>3. Receive \/ UNCHANGED vars => UNCHANGED <<toggle, light>>
  BY DEF Receive, vars, daemonVars
<1> QED
  BY <1>2, <1>3 DEF Quiet, DaemonStep

LEMMA DueMoves ==
  ASSUME NEW l \in Lights
  PROVE  IInv /\ [Quiet]_vars =>
           /\ DueFirst(l) => (DueFirst(l)' /\ (Lit(l)' <=> Lit(l))) \/ (Lit(l)' <=> ~Lit(l))
           /\ DueFirst(l) /\ <<DaemonStep>>_vars => (Lit(l)' <=> ~Lit(l))
           /\ DueSecond(l) => (DueSecond(l) \/ DueFirst(l))' /\ (Lit(l)' <=> Lit(l))
           /\ DueSecond(l) /\ <<DaemonStep>>_vars => DueFirst(l)'
<1>1. UNCHANGED <<toggle, light>> =>
        /\ DueFirst(l)' <=> DueFirst(l)
        /\ DueSecond(l)' <=> DueSecond(l)
        /\ Lit(l)' <=> Lit(l)
  BY DEF DueFirst, DueSecond, Lit
<1> QED
  BY <1>1, DueStays, ToggleFlips DEF Due

LEMMA DueIsReady ==
  ASSUME NEW l \in Lights, IInv, Due(l), LightsAreReady
  PROVE  ENABLED <<DaemonStep>>_vars
BY DEF Due, DueFirst, DueSecond, IInv, Sequencing, LightsAreReady, DaemonIsReady

\* The statements of process_event left to execute.
EventLeft ==
  CASE pc = "event" -> 8
    [] pc = "lower" -> 2 + 2 * Count(lower)
    [] pc = "sleep" -> 3 + 2 * Count(lower)
    [] pc = "start" -> 2
    [] OTHER        -> 1

\* A fault that stays: the cycle under way, then the one that sets the BPS light.
FaultLeft ==
  CASE pc = "bps_lower" -> 12
    [] pc = "bps_off"   -> 11
    [] pc = "wait"      -> 2
    [] pc = "bps_on"    -> 1
    [] OTHER            -> 2 + EventLeft

BpsSettled == pc = "wait" /\ current_bps_light_state = "ON"

FaultWithin(n) == ~BpsSettled /\ FaultLeft <= n

FaultNearer(n, m) ==
  IInv /\ fault /\ FaultWithin(n) =>
    /\ [Next]_vars => FaultWithin(n)' \/ BpsSettled'
    /\ <<MediumStep>>_vars => FaultWithin(m)' \/ BpsSettled'

EventPc == {"event", "lower", "sleep", "start", "set"}

\* Every statement of process_event leaves fewer, and touches nothing of the BPS
\* light.
LEMMA EventNears ==
  ASSUME IInv, MediumStep, pc \in EventPc
  PROVE  /\ EventLeft \in 1 .. 8 /\ new_state' = new_state
         /\ current_bps_light_state' = current_bps_light_state
         /\ \/ pc' = "wait" /\ current_steering_light_state' = new_state
            \/ pc' \in EventPc /\ EventLeft' < EventLeft /\ EventLeft' \in 1 .. 8
<1>1. lower \in LightLists
  BY ListTypes DEF IInv
<1>2. Count(lower) \in {0, 1, 2} /\ (Count(lower) = 0 <=> lower = <<>>)
  BY <1>1, Counts
<1>3. CASE EventSame
  BY <1>3 DEF EventSame, EventLeft
<1>4. CASE EventChange
  BY <1>4 DEF EventChange, EventLeft, LowerOf, Count, EventPc
<1>5. CASE LowerLight
  BY <1>1, <1>2, <1>5, Counts DEF LowerLight, EventLeft, EventPc, IInv, Sequencing
<1>6. CASE Wake
  BY <1>2, <1>6 DEF Wake, EventLeft, EventPc
<1>7. CASE EventStart
  BY <1>7 DEF EventStart, EventLeft, EventPc
<1>8. CASE EventSet
  BY <1>8 DEF EventSet, EventLeft
<1>9. ~(FaultSeen \/ BpsOn \/ FaultGone \/ BpsLower \/ BpsOff \/ NoFault)
  BY DEF FaultSeen, BpsOn, FaultGone, BpsLower, BpsOff, NoFault, EventPc
<1> QED
  BY <1>3, <1>4, <1>5, <1>6, <1>7, <1>8, <1>9 DEF MediumStep

\* The steps that are not the medium task's leave it where it is.
LEMMA OthersKeepMedium ==
  Quiet \/ UNCHANGED vars => UNCHANGED mediumVars
BY DEF Quiet, Receive, DaemonStep, DaemonCommand, Toggle, Rearm, Expire, DaemonUnchanged, vars

LEMMA FaultNears ==
  ASSUME IInv, fault, MediumStep, NEW n \in Nat, FaultWithin(n + 1)
  PROVE  FaultWithin(n)' \/ BpsSettled'
<1> USE DEF FaultWithin, BpsSettled
<1>1. CASE pc \in EventPc
  <2>1. FaultLeft = 2 + EventLeft /\ EventLeft \in 1 .. 8
    BY <1>1, EventNears DEF FaultLeft, EventPc
  <2>2. CASE pc' = "wait"
    BY <2>1, <2>2 DEF FaultLeft
  <2>3. CASE pc' \in EventPc /\ EventLeft' < EventLeft /\ EventLeft' \in 1 .. 8
    <3>1. FaultLeft' = 2 + EventLeft'
      BY <2>3 DEF FaultLeft, EventPc
    <3>2. \A a, b \in 1 .. 8 : b < a /\ 2 + a <= n + 1 => 2 + b <= n
      OBVIOUS
    <3>3. 2 + EventLeft' <= n
      BY <2>1, <2>3, <3>2
    <3>4. pc' # "wait"
      BY <2>3 DEF EventPc
    <3> QED
      BY <3>1, <3>3, <3>4
  <2> QED
    BY <1>1, <2>2, <2>3, EventNears
<1>2. CASE pc \notin EventPc
  <2>1. ~(EventSame \/ EventChange \/ LowerLight \/ Wake \/ EventStart \/ EventSet)
    BY <1>2 DEF EventSame, EventChange, LowerLight, Wake, EventStart, EventSet, EventPc
  <2>2. CASE FaultSeen \/ BpsOn
    BY <2>2 DEF FaultSeen, BpsOn, FaultLeft
  <2>3. ~FaultGone /\ ~NoFault
    BY DEF FaultGone, NoFault
  <2>4. CASE BpsLower
    BY <2>4 DEF BpsLower, FaultLeft
  <2>5. CASE BpsOff
    BY <2>5 DEF BpsOff, FaultLeft, EventLeft
  <2> QED
    BY <2>1, <2>2, <2>3, <2>4, <2>5 DEF MediumStep
<1> QED
  BY <1>1, <1>2

\* Nothing but the medium task's own statements changes what it has left.
LEMMA LeftStays ==
  ASSUME UNCHANGED mediumVars
  PROVE  /\ EventLeft' = EventLeft /\ FaultLeft' = FaultLeft
         /\ BpsSettled' = BpsSettled
BY DEF mediumVars, EventLeft, FaultLeft, BpsSettled

LEMMA FaultBounds == IInv => FaultLeft \in 1 .. 12
<1> SUFFICES ASSUME IInv PROVE FaultLeft \in 1 .. 12
  OBVIOUS
<1>1. Count(lower) \in {0, 1, 2}
  BY ListTypes, Counts DEF IInv
<1>2. EventLeft \in 1 .. 8
  BY <1>1 DEF EventLeft
<1> QED
  BY <1>2 DEF FaultLeft

FaultIsBounded == FaultLeft \in 1 .. 12

LEMMA FaultNearerStep == TimerQueueLength >= 2 => \A n \in Nat : FaultNearer(n + 1, n)
<1> SUFFICES ASSUME TimerQueueLength >= 2, NEW n \in Nat, IInv, fault, FaultWithin(n + 1)
             PROVE  /\ [Next]_vars => FaultWithin(n + 1)' \/ BpsSettled'
                    /\ <<MediumStep>>_vars => FaultWithin(n)' \/ BpsSettled'
  BY DEF FaultNearer
<1>1. [Next]_vars => IInv'
  BY NextIInv
<1>2. MediumStep => FaultWithin(n)' \/ BpsSettled'
  BY FaultNears
<1>3. IInv' /\ FaultWithin(n)' => FaultWithin(n + 1)'
  <2>1. IInv' => FaultIsBounded'
    BY FaultBounds, PTL DEF FaultIsBounded
  <2> QED
    BY <2>1 DEF FaultWithin, FaultIsBounded
<1>4. Quiet \/ UNCHANGED vars => FaultWithin(n + 1)'
  BY OthersKeepMedium, LeftStays DEF FaultWithin
<1>5. [Next]_vars => MediumStep \/ Quiet \/ UNCHANGED vars
  BY DEF Next, Quiet
<1> QED
  BY <1>1, <1>2, <1>3, <1>4, <1>5

\* The medium task has set the BPS light to blink and leaves it so.
LEMMA BpsSettles ==
  TimerQueueLength >= 2 => (Spec /\ []LightsAreReady => (<>[]fault => <>[](fault /\ BpsSettled)))
<1> SUFFICES ASSUME TimerQueueLength >= 2
             PROVE  Spec /\ []LightsAreReady => (<>[]fault => <>[](fault /\ BpsSettled))
  OBVIOUS
<1>1. Safety => []IInv
  BY LightsInvariant
<1>2. Spec /\ []LightsAreReady => []<>DaemonIdle
  BY DaemonComesToRest
<1>3. /\ FaultNearer(12, 11) /\ FaultNearer(11, 10) /\ FaultNearer(10, 9) /\ FaultNearer(9, 8)
      /\ FaultNearer(8, 7) /\ FaultNearer(7, 6) /\ FaultNearer(6, 5) /\ FaultNearer(5, 4)
      /\ FaultNearer(4, 3) /\ FaultNearer(3, 2) /\ FaultNearer(2, 1) /\ FaultNearer(1, 0)
  BY FaultNearerStep
<1>4. IInv => ~FaultWithin(0) /\ (~BpsSettled => FaultWithin(12))
  BY FaultBounds DEF FaultWithin
<1>5. IInv /\ fault /\ ~BpsSettled /\ DaemonIdle => (LightsAreReady => ENABLED <<MediumStep>>_vars)
  BY DEF IInv, TypeOK, BpsSettled, MediumHasWork, LightsAreReady, MediumIsReady
<1>6. fault /\ BpsSettled /\ [Next]_vars => BpsSettled'
  <2>1. fault /\ BpsSettled => ~MediumStep
    BY DEF BpsSettled, MediumStep, FaultSeen, BpsOn, FaultGone, BpsLower, BpsOff, NoFault,
           EventSame, EventChange, LowerLight, Wake, EventStart, EventSet
  <2> QED
    BY <2>1, OthersKeepMedium, LeftStays DEF Next, Quiet
<1>7. FaultWithin(12) \/ FaultWithin(11) \/ FaultWithin(10) \/ FaultWithin(9) \/ FaultWithin(8)
        \/ FaultWithin(7) \/ FaultWithin(6) \/ FaultWithin(5) \/ FaultWithin(4) \/ FaultWithin(3)
        \/ FaultWithin(2) \/ FaultWithin(1) => ~BpsSettled
  BY DEF FaultWithin
<1> QED
  BY <1>1, <1>2, <1>3, <1>4, <1>5, <1>6, <1>7, PTL DEF Spec, Safety, FaultNearer

\* Due(l) comes with every expiry of the timer whose group holds l.
LEMMA ExpiryIsDue ==
  /\ BpsSettled /\ Expire("bps") => Due("bps")'
  /\ current_steering_light_state = "LEFT" /\ Expire("signal") => Due("left")'
  /\ current_steering_light_state = "RIGHT" /\ Expire("signal") => Due("right")'
  /\ current_steering_light_state = "HAZARD" /\ Expire("signal") => Due("left")' /\ Due("right")'
<1> USE DEF Expire, Due, DueFirst, DueSecond
<1>1. /\ <<"left">> # <<>> /\ <<"right">> # <<>> /\ <<"bps">> # <<>> /\ <<"left", "right">> # <<>>
      /\ Head(<<"left">>) = "left" /\ Head(<<"right">>) = "right" /\ Head(<<"bps">>) = "bps"
      /\ Head(<<"left", "right">>) = "left"
  OBVIOUS
<1>2. BpsSettled => BlinkGroup("bps") = <<"bps">>
  BY DEF BpsSettled, BlinkGroup
<1>3. /\ current_steering_light_state = "LEFT" => BlinkGroup("signal") = <<"left">>
      /\ current_steering_light_state = "RIGHT" => BlinkGroup("signal") = <<"right">>
      /\ current_steering_light_state = "HAZARD" => BlinkGroup("signal") = <<"left", "right">>
  BY DEF BlinkGroup
<1>4. BpsSettled /\ Expire("bps") => Due("bps")'
  BY <1>1, <1>2, Zenon
<1>5. current_steering_light_state = "LEFT" /\ Expire("signal") => Due("left")'
  BY <1>1, <1>3, Zenon
<1>6. current_steering_light_state = "RIGHT" /\ Expire("signal") => Due("right")'
  BY <1>1, <1>3, Zenon
<1>7. current_steering_light_state = "HAZARD" /\ Expire("signal") => Due("left")' /\ Due("right")'
  BY <1>1, <1>3, Zenon
<1> QED
  BY <1>4, <1>5, <1>6, <1>7

\* A timer that should be alive is running whenever the daemon is idle.
LEMMA IdleIsRunning ==
  ASSUME NEW t \in Timers, Armed(t), DaemonIdle
  PROVE  t \in active
BY DEF Armed, DaemonIdle

\* The BPS light of a fault that stays blinks for ever.
LEMMA LightsBpsBlinks ==
  TimerQueueLength >= 2 => (Spec /\ []LightsAreReady => BpsBlinks)
<1> SUFFICES ASSUME TimerQueueLength >= 2
             PROVE  Spec /\ []LightsAreReady => BpsBlinks
  OBVIOUS
<1>1. Safety => []IInv
  BY LightsInvariant
<1>2. Spec /\ []LightsAreReady => []<>DaemonIdle
  BY DaemonComesToRest
<1>3. Spec /\ []LightsAreReady => (<>[]fault => <>[](fault /\ BpsSettled))
  BY BpsSettles
<1>4. fault /\ BpsSettled /\ [Next]_vars => [Quiet]_vars
  BY DEF Next, Quiet, BpsSettled, MediumStep, FaultSeen, BpsOn, FaultGone, BpsLower, BpsOff,
         NoFault, EventSame, EventChange, LowerLight, Wake, EventStart, EventSet
<1>5. IInv /\ BpsSettled /\ DaemonIdle => (LightsAreReady => ENABLED <<Expire("bps")>>_vars)
  <2>1. IInv /\ BpsSettled => Armed("bps")
    BY DEF IInv, BpsArmed, BpsSettled
  <2> QED
    BY <2>1, IdleIsRunning DEF DaemonIdle, LightsAreReady, ExpiryIsReady
<1>6. BpsSettled /\ <<Expire("bps")>>_vars => Due("bps")'
  BY ExpiryIsDue
<1>7. IInv /\ [Quiet]_vars =>
        /\ DueFirst("bps") => (DueFirst("bps")' /\ (Lit("bps")' <=> Lit("bps"))) \/ (Lit("bps")' <=> ~Lit("bps"))
        /\ DueFirst("bps") /\ <<DaemonStep>>_vars => (Lit("bps")' <=> ~Lit("bps"))
        /\ ~DueSecond("bps")
  BY DueMoves DEF DueSecond
<1>8. IInv /\ Due("bps") => (LightsAreReady => ENABLED <<DaemonStep>>_vars)
  BY DueIsReady
<1>9. Lit("bps") <=> light["bps"]
  BY DEF Lit
<1> QED
  BY <1>1, <1>2, <1>3, <1>4, <1>5, <1>6, <1>7, <1>8, <1>9, PTL DEF Spec, Safety, BpsBlinks, Due

\* A request that stays without a fault: the cycle under way, with whatever it
\* was begun for, the end of the BPS light, and the event of the request.
SignalLeft(s) ==
  CASE pc = "wait"      -> IF current_bps_light_state = "ON" THEN 11 ELSE 9
    [] pc = "bps_on"    -> 12
    [] pc = "bps_lower" -> IF new_state = s THEN 10 ELSE 22
    [] pc = "bps_off"   -> IF new_state = s THEN 9 ELSE 21
    [] OTHER            -> IF new_state = s /\ current_bps_light_state = "OFF"
                           THEN EventLeft ELSE 12 + EventLeft

SignalSettled(s) ==
  pc = "wait" /\ current_bps_light_state = "OFF" /\ current_steering_light_state = s

SignalWithin(s, n) == ~SignalSettled(s) /\ SignalLeft(s) <= n

SignalKept(s) == request = s /\ ~fault

SignalNearer(s, n, m) ==
  IInv /\ SignalKept(s) /\ SignalWithin(s, n) =>
    /\ [Next]_vars => SignalWithin(s, n)' \/ SignalSettled(s)'
    /\ <<MediumStep>>_vars => SignalWithin(s, m)' \/ SignalSettled(s)'

LEMMA SignalNears ==
  ASSUME NEW s, IInv, SignalKept(s), MediumStep, NEW n \in Nat, SignalWithin(s, n + 1)
  PROVE  SignalWithin(s, n)' \/ SignalSettled(s)'
<1> USE DEF SignalWithin, SignalSettled, SignalKept
<1>1. CASE pc \in EventPc
  <2>1. /\ EventLeft \in 1 .. 8 /\ new_state' = new_state
        /\ current_bps_light_state' = current_bps_light_state
    BY <1>1, EventNears
  <2>2. SignalLeft(s) = IF new_state = s /\ current_bps_light_state = "OFF"
                        THEN EventLeft ELSE 12 + EventLeft
    BY <1>1 DEF SignalLeft, EventPc
  <2>3. CASE pc' = "wait" /\ current_steering_light_state' = new_state
    <3>1. CASE new_state = s /\ current_bps_light_state = "OFF"
      BY <2>1, <2>3, <3>1
    <3>2. CASE ~(new_state = s /\ current_bps_light_state = "OFF")
      <4>1. SignalLeft(s) >= 13
        BY <2>1, <2>2, <3>2
      <4>2. SignalLeft(s)' \in {9, 11}
        BY <2>3 DEF SignalLeft
      <4>3. SignalLeft(s) \in Nat
        BY <2>1, <2>2
      <4> QED
        BY <4>1, <4>2, <4>3
    <3> QED
      BY <3>1, <3>2
  <2>4. CASE pc' \in EventPc /\ EventLeft' < EventLeft /\ EventLeft' \in 1 .. 8
    <3>1. SignalLeft(s)' = IF new_state' = s /\ current_bps_light_state' = "OFF"
                           THEN EventLeft' ELSE 12 + EventLeft'
      BY <2>4 DEF SignalLeft, EventPc
    <3>2. \A a, b \in 1 .. 8 : b < a => /\ a <= n + 1 => b <= n
                                        /\ 12 + a <= n + 1 => 12 + b <= n
      OBVIOUS
    <3>3. SignalLeft(s)' <= n
      BY <2>1, <2>2, <2>4, <3>1, <3>2
    <3>4. pc' # "wait"
      BY <2>4 DEF EventPc
    <3> QED
      BY <3>3, <3>4
  <2> QED
    BY <1>1, <2>3, <2>4, EventNears
<1>2. CASE pc \notin EventPc
  <2>1. ~(EventSame \/ EventChange \/ LowerLight \/ Wake \/ EventStart \/ EventSet)
    BY <1>2 DEF EventSame, EventChange, LowerLight, Wake, EventStart, EventSet, EventPc
  <2>2. ~FaultSeen
    BY DEF FaultSeen
  <2>3. CASE BpsOn
    BY <2>3 DEF BpsOn, SignalLeft
  <2>4. CASE FaultGone
    BY <2>4 DEF FaultGone, SignalLeft
  <2>5. CASE NoFault
    BY <2>5 DEF NoFault, SignalLeft, EventLeft
  <2>6. CASE BpsLower
    BY <2>6 DEF BpsLower, SignalLeft
  <2>7. CASE BpsOff
    BY <2>7 DEF BpsOff, SignalLeft, EventLeft
  <2> QED
    BY <2>1, <2>2, <2>3, <2>4, <2>5, <2>6, <2>7 DEF MediumStep
<1> QED
  BY <1>1, <1>2

SignalIsBounded(s) == SignalLeft(s) \in 1 .. 22

LEMMA SignalBounds == ASSUME NEW s PROVE IInv => SignalIsBounded(s)
<1> SUFFICES ASSUME IInv PROVE SignalLeft(s) \in 1 .. 22
  BY DEF SignalIsBounded
<1>1. Count(lower) \in {0, 1, 2}
  BY ListTypes, Counts DEF IInv
<1>2. EventLeft \in 1 .. 8
  BY <1>1 DEF EventLeft
<1> QED
  BY <1>2 DEF SignalLeft

LEMMA SignalNearerStep ==
  ASSUME TimerQueueLength >= 2, NEW s
  PROVE  \A n \in Nat : SignalNearer(s, n + 1, n)
<1> SUFFICES ASSUME NEW n \in Nat, IInv, SignalKept(s), SignalWithin(s, n + 1)
             PROVE  /\ [Next]_vars => SignalWithin(s, n + 1)' \/ SignalSettled(s)'
                    /\ <<MediumStep>>_vars => SignalWithin(s, n)' \/ SignalSettled(s)'
  BY DEF SignalNearer
<1>1. [Next]_vars => IInv'
  BY NextIInv
<1>2. MediumStep => SignalWithin(s, n)' \/ SignalSettled(s)'
  BY SignalNears
<1>3. IInv' /\ SignalWithin(s, n)' => SignalWithin(s, n + 1)'
  <2>1. IInv' => SignalIsBounded(s)'
    BY SignalBounds, PTL
  <2> QED
    BY <2>1 DEF SignalWithin, SignalIsBounded
<1>4. Quiet \/ UNCHANGED vars => SignalWithin(s, n + 1)'
  <2>1. UNCHANGED mediumVars => SignalLeft(s)' = SignalLeft(s) /\ SignalSettled(s)' = SignalSettled(s)
    BY LeftStays DEF mediumVars, SignalLeft, SignalSettled
  <2> QED
    BY <2>1, OthersKeepMedium DEF SignalWithin
<1>5. [Next]_vars => MediumStep \/ Quiet \/ UNCHANGED vars
  BY DEF Next, Quiet
<1> QED
  BY <1>1, <1>2, <1>3, <1>4, <1>5

\* The medium task has made the request its light state and leaves it so.
LEMMA SignalSettles ==
  ASSUME TimerQueueLength >= 2, NEW s \in SteeringLightState
  PROVE  Spec /\ []LightsAreReady => (<>[]SignalKept(s) => <>[](SignalKept(s) /\ SignalSettled(s)))
<1>1. Safety => []IInv
  BY LightsInvariant
<1>2. Spec /\ []LightsAreReady => []<>DaemonIdle
  BY DaemonComesToRest
<1>3. /\ SignalNearer(s, 22, 21) /\ SignalNearer(s, 21, 20) /\ SignalNearer(s, 20, 19)
      /\ SignalNearer(s, 19, 18) /\ SignalNearer(s, 18, 17) /\ SignalNearer(s, 17, 16)
      /\ SignalNearer(s, 16, 15) /\ SignalNearer(s, 15, 14) /\ SignalNearer(s, 14, 13)
      /\ SignalNearer(s, 13, 12) /\ SignalNearer(s, 12, 11) /\ SignalNearer(s, 11, 10)
      /\ SignalNearer(s, 10, 9) /\ SignalNearer(s, 9, 8) /\ SignalNearer(s, 8, 7)
      /\ SignalNearer(s, 7, 6) /\ SignalNearer(s, 6, 5) /\ SignalNearer(s, 5, 4)
      /\ SignalNearer(s, 4, 3) /\ SignalNearer(s, 3, 2) /\ SignalNearer(s, 2, 1)
      /\ SignalNearer(s, 1, 0)
  <2>1. \A n \in Nat : SignalNearer(s, n + 1, n)
    BY SignalNearerStep
  <2> QED
    BY <2>1
<1>4. IInv => ~SignalWithin(s, 0) /\ (~SignalSettled(s) => SignalWithin(s, 22))
  BY SignalBounds DEF SignalWithin, SignalIsBounded
<1>5. IInv /\ SignalKept(s) /\ ~SignalSettled(s) /\ DaemonIdle
        => (LightsAreReady => ENABLED <<MediumStep>>_vars)
  BY DEF IInv, TypeOK, SignalSettled, SignalKept, MediumHasWork, LightsAreReady, MediumIsReady
<1>6. SignalKept(s) /\ SignalSettled(s) /\ [Next]_vars => SignalSettled(s)'
  <2>1. SignalKept(s) /\ SignalSettled(s) => ~MediumStep
    BY DEF SignalKept, SignalSettled, MediumStep, FaultSeen, BpsOn, FaultGone, BpsLower, BpsOff,
           NoFault, EventSame, EventChange, LowerLight, Wake, EventStart, EventSet
  <2>2. UNCHANGED mediumVars /\ SignalSettled(s) => SignalSettled(s)'
    BY DEF mediumVars, SignalSettled
  <2> QED
    BY <2>1, <2>2, OthersKeepMedium DEF Next, Quiet
<1>7. /\ SignalWithin(s, 22) \/ SignalWithin(s, 21) \/ SignalWithin(s, 20) \/ SignalWithin(s, 19)
        \/ SignalWithin(s, 18) \/ SignalWithin(s, 17) \/ SignalWithin(s, 16) \/ SignalWithin(s, 15)
        \/ SignalWithin(s, 14) \/ SignalWithin(s, 13) \/ SignalWithin(s, 12) \/ SignalWithin(s, 11)
        => ~SignalSettled(s)
      /\ SignalWithin(s, 10) \/ SignalWithin(s, 9) \/ SignalWithin(s, 8) \/ SignalWithin(s, 7)
        \/ SignalWithin(s, 6) \/ SignalWithin(s, 5) \/ SignalWithin(s, 4) \/ SignalWithin(s, 3)
        \/ SignalWithin(s, 2) \/ SignalWithin(s, 1)
        => ~SignalSettled(s)
  BY DEF SignalWithin
<1> QED
  BY <1>1, <1>2, <1>3, <1>4, <1>5, <1>6, <1>7, PTL DEF Spec, Safety, SignalNearer

\* The lights of a request, as SignalsBlink has them.
Group(s) ==
  IF s = "HAZARD" THEN {"left", "right"} ELSE IF s = "LEFT" THEN {"left"} ELSE {"right"}

\* Each light of a settled request comes up with every expiry and is toggled.
LEMMA SignalBlinks ==
  ASSUME TimerQueueLength >= 2, NEW s \in {"LEFT", "RIGHT", "HAZARD"}, NEW l \in Group(s)
  PROVE  Spec /\ []LightsAreReady => (<>[]SignalKept(s) => []<>Lit(l) /\ []<>~Lit(l))
<1>1. Safety => []IInv
  BY LightsInvariant
<1>2. Spec /\ []LightsAreReady => []<>DaemonIdle
  BY DaemonComesToRest
<1>3. Spec /\ []LightsAreReady => (<>[]SignalKept(s) => <>[](SignalKept(s) /\ SignalSettled(s)))
  BY SignalSettles
<1>4. SignalKept(s) /\ SignalSettled(s) /\ [Next]_vars => [Quiet]_vars
  BY DEF Next, Quiet, SignalKept, SignalSettled, MediumStep, FaultSeen, BpsOn, FaultGone, BpsLower,
         BpsOff, NoFault, EventSame, EventChange, LowerLight, Wake, EventStart, EventSet
<1>5. IInv /\ SignalSettled(s) /\ DaemonIdle
        => (LightsAreReady => ENABLED <<Expire("signal")>>_vars)
  <2>1. IInv /\ SignalSettled(s) => Armed("signal")
    BY DEF IInv, SignalArmed, SignalSettled
  <2> QED
    BY <2>1, IdleIsRunning DEF DaemonIdle, LightsAreReady, ExpiryIsReady
<1>6. SignalSettled(s) /\ <<Expire("signal")>>_vars => Due(l)'
  BY ExpiryIsDue DEF SignalSettled, Group
<1>7. l \in Lights
  BY DEF Group
<1>8. IInv /\ [Quiet]_vars =>
        /\ DueFirst(l) => (DueFirst(l)' /\ (Lit(l)' <=> Lit(l))) \/ (Lit(l)' <=> ~Lit(l))
        /\ DueFirst(l) /\ <<DaemonStep>>_vars => (Lit(l)' <=> ~Lit(l))
        /\ DueSecond(l) => (DueSecond(l) \/ DueFirst(l))' /\ (Lit(l)' <=> Lit(l))
        /\ DueSecond(l) /\ <<DaemonStep>>_vars => DueFirst(l)'
  BY <1>7, DueMoves
<1>9. IInv /\ Due(l) => (LightsAreReady => ENABLED <<DaemonStep>>_vars)
  BY <1>7, DueIsReady
<1> QED
  BY <1>1, <1>2, <1>3, <1>4, <1>5, <1>6, <1>8, <1>9, PTL DEF Spec, Safety, Due

LEMMA LightsSignalsBlink ==
  TimerQueueLength >= 2 => (Spec /\ []LightsAreReady => SignalsBlink)
<1> SUFFICES ASSUME TimerQueueLength >= 2, NEW s \in {"LEFT", "RIGHT", "HAZARD"}, NEW l \in Group(s)
             PROVE  Spec /\ []LightsAreReady =>
                      (<>[](request = s /\ ~fault) => []<>light[l] /\ []<>~light[l])
  BY DEF SignalsBlink, Group
<1>1. Spec /\ []LightsAreReady => (<>[]SignalKept(s) => []<>Lit(l) /\ []<>~Lit(l))
  BY SignalBlinks
<1> QED
  BY <1>1, PTL DEF SignalKept, Lit

\* A turn signal or hazard that stays requested without a fault blinks for ever, and
\* so does the BPS light while there is a fault, whichever starts, stops, expiries and
\* callbacks came before (front_lights_signal.c, power_manager.c): with a daemon and
\* a medium task that are never blocked.
THEOREM LightsAlwaysBlink ==
  TimerQueueLength >= 2 => (Spec /\ []LightsAreReady => LightsBlink)
<1> SUFFICES ASSUME TimerQueueLength >= 2
             PROVE  Spec /\ []LightsAreReady => LightsBlink
  OBVIOUS
<1>1. Spec /\ []LightsAreReady => SignalsBlink
  BY LightsSignalsBlink
<1>2. Spec /\ []LightsAreReady => BpsBlinks
  BY LightsBpsBlinks
<1> QED
  BY <1>1, <1>2, PTL DEF LightsBlink
=============================================================================
