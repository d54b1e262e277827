----------------------------- MODULE SceneNode ------------------------------
(***************************************************************************)
(* The outputs of a Scene Node (firmware/scene-node/src/node_gpio.cpp) and *)
(* the command that holds them (node_cmd.cpp), under a millisecond counter *)
(* that wraps.                                                             *)
(*                                                                         *)
(* A pulse ends in one of two ways.  nodeCmdLoop measures it by an         *)
(* unsigned difference and reports it completed, but runs only while the   *)
(* node is connected.  nodeGpioLoop compares the counter with a deadline   *)
(* and runs always: it is the node's own limit when the broker is gone.    *)
(* Both run in one pass of the main loop, which may be late: connecting,   *)
(* registering and the clock's start-up block it.                          *)
(*                                                                         *)
(* Which commands are for this node, unexpired and of its configuration is *)
(* in CommandLifecycle and ConfigSync: a command that fails those tests is *)
(* refused and leaves the outputs alone.                                   *)
(***************************************************************************)
EXTENDS Integers

CONSTANTS Channels,   \* the channels of kChannels in the node's configuration
          Width,      \* values of the millisecond counter: 2^32, in time units
          MinPulse,   \* CMD_MIN_DURATION_MS, in time units
          MaxPulse,   \* CMD_MAX_DURATION_MS and GPIO_MAX_DURATION_MS
          MaxAsked,   \* bound: the longest duration a command asks for
          MaxLag      \* bound: the time between two passes of the loop

ASSUME NodeConstants ==
  /\ MinPulse \in Nat \ {0} /\ MaxPulse \in Nat /\ MinPulse <= MaxPulse
  /\ MaxAsked \in Nat /\ MaxLag \in Nat \ {0}
  /\ Width \in Nat /\ MaxPulse + MaxLag < Width

VARIABLES
  millis,     \* the counter
  lag,        \* time since the last pass of the loop
  connected,  \* the node has a connection to the broker
  hold,       \* the emergency stop or the manual override input is active
  pins,       \* the channels whose output is high
  load,       \* gActive: the output that was started and its deadline
  pending,    \* gPending: the command that runs
  ran,        \* time since the running command started, up to Long
  high,       \* time its output has been high, up to Long
  wrapped     \* the counter has wrapped since it started

pulse == <<load, pending>>
watch == <<ran, high, wrapped>>
vars == <<millis, lag, connected, hold, pins, pulse, watch>>

-----------------------------------------------------------------------------
Clock == 0..Width - 1

\* Where the measured times stop: beyond any pulse and any delay of the loop.
Long == MaxPulse + MaxLag + 1

NoLoad == [on |-> FALSE, channel |-> "none", offAt |-> 0]

NoCommand == [active |-> FALSE, channel |-> "none", started |-> 0, duration |-> 0]

\* resolveDurationMs for a positive duration: clamped on both sides.
ResolveDuration(asked) ==
  IF asked < MinPulse THEN MinPulse
  ELSE IF asked > MaxPulse THEN MaxPulse ELSE asked

Init ==
  /\ millis \in Clock /\ lag = 0
  /\ connected \in BOOLEAN /\ hold \in BOOLEAN
  /\ pins = {} /\ load = NoLoad /\ pending = NoCommand
  /\ ran = 0 /\ high = 0 /\ wrapped = FALSE

-----------------------------------------------------------------------------
\* nodeGpioStopChannel: the pin goes low whatever the state says of it.
StopChannel(c) ==
  /\ pins' = pins \ {c}
  /\ load' = IF load.on /\ load.channel = c THEN NoLoad ELSE load

\* What handleCommand asks of a command before it starts anything.
Accepting == connected /\ ~pending.active /\ ~hold

\* nodeGpioStart for a pulse, with the deadline in the counter's arithmetic.
StartOutput(c, duration) ==
  /\ pins' = pins \union {c}
  /\ load' = [on |-> TRUE, channel |-> c,
              offAt |-> (millis + duration) % Width]

\* A command to open, start or close: acknowledged, running, output high.
Pulse(c, asked) ==
  /\ Accepting
  /\ asked > 0                            \* else missing_duration_seconds
  /\ ~(load.on /\ load.channel # c)       \* else gpio_busy: the interlock
  /\ StartOutput(c, ResolveDuration(asked))
  /\ pending' = [active |-> TRUE, channel |-> c, started |-> millis,
                 duration |-> ResolveDuration(asked)]
  /\ ran' = 0 /\ high' = 0 /\ wrapped' = FALSE
  /\ UNCHANGED <<millis, lag, connected, hold>>

\* A command to stop: completed in the same call.
Stop(c) ==
  /\ Accepting
  /\ StopChannel(c)
  /\ UNCHANGED <<millis, lag, connected, hold, pending, watch>>

\* Mutant of Due: started plus duration, compared with the counter as it is.
Due_Deadline ==
  pending.active /\ millis >= (pending.started + pending.duration) % Width

\* The test of nodeCmdLoop: an unsigned difference.
Due == pending.active /\ (millis - pending.started) % Width >= pending.duration

\* Mutant of Complete: the output is left to nodeGpioLoop.
Complete_OutputLeft ==
  /\ UNCHANGED <<pins, load>>
  /\ pending' = NoCommand
  /\ ran' = 0 /\ high' = 0 /\ wrapped' = FALSE

\* completePending: the output goes low before the event is published.
Complete ==
  /\ StopChannel(pending.channel)
  /\ pending' = NoCommand
  /\ ran' = 0 /\ high' = 0 /\ wrapped' = FALSE

\* Mutant of TimedOut: nodeGpioLoop has no deadline of its own.
TimedOut_Never == FALSE

\* The test of nodeGpioLoop: a deadline, where 0 stands for none.
TimedOut == load.on /\ load.offAt # 0 /\ millis >= load.offAt

\* Mutant of LoopPass: nodeCmdLoop does not run.
LoopPass_GpioOnly ==
  /\ connected' \in {connected, TRUE}
  /\ lag' = 0
  /\ IF TimedOut THEN StopChannel(load.channel) ELSE UNCHANGED <<pins, load>>
  /\ UNCHANGED <<millis, hold, pending, watch>>

\* One pass of the main loop: nodeRegLoop may connect, nodeCmdLoop completes
\* a command if connected, nodeGpioLoop turns the output off at its deadline.
LoopPass ==
  /\ connected' \in {connected, TRUE}
  /\ lag' = 0
  /\ IF connected' /\ Due
     THEN Complete
     ELSE /\ IF TimedOut THEN StopChannel(load.channel)
                         ELSE UNCHANGED <<pins, load>>
          /\ UNCHANGED <<pending, watch>>
  /\ UNCHANGED <<millis, hold>>

Disconnect ==
  /\ connected
  /\ connected' = FALSE
  /\ UNCHANGED <<millis, lag, hold, pins, pulse, watch>>

InputsChange ==
  /\ hold' = ~hold
  /\ UNCHANGED <<millis, lag, connected, pins, pulse, watch>>

\* setup(): every output low, no command, the counter from 0.
Reboot ==
  /\ millis' = 0 /\ lag' = 0 /\ connected' = FALSE
  /\ pins' = {} /\ load' = NoLoad /\ pending' = NoCommand
  /\ ran' = 0 /\ high' = 0 /\ wrapped' = FALSE
  /\ UNCHANGED hold

\* The clock: the loop is late by at most MaxLag.
TimePasses ==
  /\ lag < MaxLag
  /\ lag' = lag + 1
  /\ millis' = (millis + 1) % Width
  /\ IF pending.active
     THEN /\ ran' = IF ran < Long THEN ran + 1 ELSE ran
          /\ high' = IF pending.channel \in pins /\ high < Long
                     THEN high + 1 ELSE high
          /\ wrapped' = (wrapped \/ millis' = 0)
     ELSE UNCHANGED watch
  /\ UNCHANGED <<connected, hold, pins, pulse>>

Next ==
  \/ \E c \in Channels :
       \/ \E asked \in 0..MaxAsked : Pulse(c, asked)
       \/ Stop(c)
  \/ LoopPass \/ Disconnect \/ InputsChange \/ Reboot \/ TimePasses

Spec == Init /\ [][Next]_vars

\* The loop runs and time goes on; the broker can be reached again and again,
\* and not only within a pulse's duration of the counter value it started at,
\* which is four hours in every 49 days (a pass that connects goes on to
\* nodeCmdLoop in the same iteration).
FairSpec ==
  /\ Spec
  /\ WF_vars(LoopPass) /\ WF_vars(TimePasses)
  /\ SF_vars(LoopPass /\ connected' /\ Due)

-----------------------------------------------------------------------------
TypeOK ==
  /\ millis \in Clock /\ lag \in 0..MaxLag
  /\ connected \in BOOLEAN /\ hold \in BOOLEAN
  /\ pins \subseteq Channels
  /\ load \in [on : BOOLEAN, channel : Channels \union {"none"}, offAt : Clock]
  /\ pending \in [active : BOOLEAN, channel : Channels \union {"none"},
                  started : Clock, duration : 0..MaxPulse]
  /\ ran \in 0..Long /\ high \in 0..Long /\ wrapped \in BOOLEAN

(* No output is high without the command that holds it, so two are never     *)
(* high at once and a node that takes another command has none high: across  *)
(* the two ways a pulse ends, reboots and lost connections (node_gpio.cpp    *)
(* and node_cmd.cpp keep separate records of it).                            *)
OutputHasCommand ==
  pins \subseteq (IF pending.active THEN {pending.channel} ELSE {})

(* A command is reported completed only after its duration, also across a    *)
(* wrap of the counter, and its output was high for all of it, online or     *)
(* not, unless the deadline lies beyond the wrap: nodeGpioLoop then takes it *)
(* for past and cuts the output off in its next pass, and nodeCmdLoop        *)
(* reports the command completed all the same.                               *)
CompletedIsDone ==
  [][pending.active /\ ~pending'.active =>
       \/ Reboot
       \/ /\ ran >= pending.duration
          /\ \/ high >= pending.duration
             \/ pending.started + pending.duration > Width]_vars

(* An output stays high beyond its duration and the loop's delay only if the *)
(* counter wrapped since it started: without a wrap the deadline of          *)
(* nodeGpioLoop ends it in time, however long the node is offline.           *)
OverrunNeedsWrap == high > pending.duration + MaxLag => wrapped

(* Whatever the counter does, every output that went high goes low again.    *)
OutputEnds == \A c \in Channels : c \in pins ~> c \notin pins

=============================================================================
