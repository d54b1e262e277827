-------------------------- MODULE CommandLifecycle --------------------------
(***************************************************************************)
(* The life of physical commands, from the request that creates them to    *)
(* the outcome in the command store:                                       *)
(*                                                                         *)
(*   - one request per command (publishPhysicalCommand), which reserves    *)
(*     the device and publishes the signed command over MQTT, or calls the *)
(*     external executor of a domain pack;                                 *)
(*   - the lifecycle watcher, whose timer starts a tick every second       *)
(*     whether or not the previous ticks have ended;                       *)
(*   - the MQTT broker, at QoS 0: first in, first out, lossy;              *)
(*   - the Scene Node (firmware/scene-node/src/node_cmd.cpp), which runs   *)
(*     one command at a time and may reboot;                               *)
(*   - the handler of the node's events;                                   *)
(*   - restarts of the API process, which keep the store only.             *)
(*                                                                         *)
(* One action is the code between two awaits.  The devices in the model    *)
(* are those of one Scene Node: nodes share no state but the watcher.      *)
(*                                                                         *)
(* Each mutant of a definition is kept just above it.                      *)
(***************************************************************************)
EXTENDS CommandStore, Sequences, FiniteSets

CONSTANTS Cmd,          \* the commands
          Device,       \* the devices of the node
          DeviceOf,     \* the device of each command
          Direct,       \* the commands a domain pack's executor runs
          Tick,         \* the ticks that may be running at once
          NoCmd,        \* "no command"
          CommandBound, \* bound on the commands in flight to the node
          EventBound,   \* bound on the events in flight to the cloud
          MaxRestarts   \* bound on the restarts of the API process

ASSUME LifecycleConstants ==
  /\ DeviceOf \in [Cmd -> Device]
  /\ Direct \subseteq Cmd
  /\ NoCmd \notin Cmd
  /\ CommandBound \in Nat \ {0}
  /\ EventBound \in Nat \ {0}
  /\ MaxRestarts \in Nat

VARIABLES
  rec,       \* the command store: a record per command
  router,    \* where the request of each command is
  tick,      \* the ticks of the watcher
  toNode,    \* commands on their way to the node
  toCloud,   \* events on their way to the event handler
  pending,   \* gPending.commandId of the node, NoCmd if not active
  starts,    \* how many times the node has started each command
  restarts   \* restarts of the API process so far

vars == <<rec, router, tick, toNode, toCloud, pending, starts, restarts>>

\* "gone": the request ended, was refused, or died with its process.
RouterState == {"idle", "reserved", "prepare", "publish", "execute", "gone"}

CommandMsg == [cmd : Cmd, signed : BOOLEAN]
EventMsg == [cmd : Cmd, status : EventStatus]

\* A tick's place in CommandLifecycleWatcher.tick: which of the two loops it
\* is in, which await of the loop's body, the records of the loop's list it
\* has still to visit, and the one it is at.  elapsed is its start time less
\* sent_at, per record.
TickState == [phase : {"idle", "unsent", "awaiting"},
              step : {"loop", "prepare", "publish"},
              todo : SUBSET Cmd,
              cur : Cmd \cup {NoCmd},
              elapsed : [Cmd -> 0..AckTimeout]]

IdleTick == [phase |-> "idle", step |-> "loop", todo |-> {}, cur |-> NoCmd,
             elapsed |-> [c \in Cmd |-> 0]]

TypeOK ==
  /\ rec \in [Cmd -> Record]
  /\ router \in [Cmd -> RouterState]
  /\ tick \in [Tick -> TickState]
  /\ toNode \in Seq(CommandMsg)
  /\ toCloud \in Seq(EventMsg)
  /\ pending \in Cmd \cup {NoCmd}
  /\ starts \in [Cmd -> Nat]
  /\ restarts \in 0..MaxRestarts

Init ==
  /\ rec = [c \in Cmd |-> NoRecord]
  /\ router = [c \in Cmd |-> "idle"]
  /\ tick = [t \in Tick |-> IdleTick]
  /\ toNode = <<>>
  /\ toCloud = <<>>
  /\ pending = NoCmd
  /\ starts = [c \in Cmd |-> 0]
  /\ restarts = 0

-----------------------------------------------------------------------------
(* What the actions are built from.                                        *)

\* getInFlightCommandForDevice, as a set.
InFlightOn(d) == {c \in Cmd : DeviceOf[c] = d /\ rec[c].status \in InFlight}

\* A record was stamped with a new sent_at: for the ticks already running,
\* the time that had elapsed since sent_at when they began is none.
Restamped(c) == [t \in Tick |-> [tick[t] EXCEPT !.elapsed[c] = 0]]

\* markCommandSent as a step: the record, and the ticks' view of its age.
Sent(c, next) ==
  /\ rec' = [rec EXCEPT ![c] = MarkCommandSent(@)]
  /\ tick' = IF Closed(rec[c]) THEN next
             ELSE [t \in Tick |-> [next[t] EXCEPT !.elapsed[c] = 0]]

\* A message handed to the broker.  The publisher cannot tell whether it got
\* there: the publish may fail after it was sent, or succeed and be lost.
PutOnWire(m) ==
  \/ Len(toNode) < CommandBound /\ toNode' = Append(toNode, m)
  \/ UNCHANGED toNode

\* Events the node publishes in one step, in order.
Emit(events) ==
  /\ Len(toCloud) + Len(events) <= EventBound
  /\ toCloud' = toCloud \o events

Event(c, s) == [cmd |-> c, status |-> s]

-----------------------------------------------------------------------------
(* The request of command c: publishPhysicalCommand.                       *)

\* Not dispatchable, lock busy, or another command in flight: 403, 503, 409.
Refuse(c) ==
  /\ router[c] = "idle"
  /\ router' = [router EXCEPT ![c] = "gone"]
  /\ UNCHANGED <<rec, tick, toNode, toCloud, pending, starts, restarts>>

\* Mutant of Reserve: the in-flight query is made before the lock is taken,
\* so it no longer guards the creation.
Reserve_QueryOutsideLock(c) ==
  /\ router[c] = "idle"
  /\ rec' = [rec EXCEPT ![c] = CreateCommand]
  /\ router' = [router EXCEPT ![c] = IF c \in Direct THEN "execute" ELSE "reserved"]
  /\ UNCHANGED <<tick, toNode, toCloud, pending, starts, restarts>>

\* The critical section under the device's lock: no command in flight, then
\* createCommand.  A direct executor is called at once.
Reserve(c) ==
  /\ router[c] = "idle"
  /\ InFlightOn(DeviceOf[c]) = {}
  /\ rec' = [rec EXCEPT ![c] = CreateCommand]
  /\ router' = [router EXCEPT ![c] = IF c \in Direct THEN "execute" ELSE "reserved"]
  /\ UNCHANGED <<tick, toNode, toCloud, pending, starts, restarts>>

\* The executor returned: markCommandExecutionSource, markCommandSent and the
\* synthetic completed event, in one synchronous step.
ExecutorReturned(c) ==
  /\ router[c] = "execute"
  /\ rec' = [rec EXCEPT ![c] = ApplyCommandEvent(MarkCommandSent(@), "completed")]
  /\ tick' = IF Closed(rec[c]) THEN tick ELSE Restamped(c)
  /\ router' = [router EXCEPT ![c] = "gone"]
  /\ UNCHANGED <<toNode, toCloud, pending, starts, restarts>>

\* The executor threw.
ExecutorThrew(c) ==
  /\ router[c] = "execute"
  /\ rec' = [rec EXCEPT ![c] = MarkCommandFailed(@)]
  /\ router' = [router EXCEPT ![c] = "gone"]
  /\ UNCHANGED <<tick, toNode, toCloud, pending, starts, restarts>>

\* No MQTT client: the command fails.  Otherwise the configuration of the
\* node is brought up to date first (prepareCommandForPublish).
MqttUnavailable(c) ==
  /\ router[c] = "reserved"
  /\ rec' = [rec EXCEPT ![c] = MarkCommandFailed(@)]
  /\ router' = [router EXCEPT ![c] = "gone"]
  /\ UNCHANGED <<tick, toNode, toCloud, pending, starts, restarts>>

Prepare(c) ==
  /\ router[c] = "reserved"
  /\ router' = [router EXCEPT ![c] = "prepare"]
  /\ UNCHANGED <<rec, tick, toNode, toCloud, pending, starts, restarts>>

\* The configuration is not ready, or the node has no token.
PrepareFailed(c) ==
  /\ router[c] = "prepare"
  /\ rec' = [rec EXCEPT ![c] = MarkCommandFailed(@)]
  /\ router' = [router EXCEPT ![c] = "gone"]
  /\ UNCHANGED <<tick, toNode, toCloud, pending, starts, restarts>>

\* The command, signed with the node's token, is handed to the broker.
Publish(c) ==
  /\ router[c] = "prepare"
  /\ PutOnWire([cmd |-> c, signed |-> TRUE])
  /\ router' = [router EXCEPT ![c] = "publish"]
  /\ UNCHANGED <<rec, tick, toCloud, pending, starts, restarts>>

PublishResolved(c) ==
  /\ router[c] = "publish"
  /\ Sent(c, tick)
  /\ router' = [router EXCEPT ![c] = "gone"]
  /\ UNCHANGED <<toNode, toCloud, pending, starts, restarts>>

\* The publish failed or timed out, the message being on its way or not.
PublishThrew(c) ==
  /\ router[c] = "publish"
  /\ rec' = [rec EXCEPT ![c] = MarkCommandFailed(@)]
  /\ router' = [router EXCEPT ![c] = "gone"]
  /\ UNCHANGED <<tick, toNode, toCloud, pending, starts, restarts>>

RouterStep(c) ==
  \/ ExecutorReturned(c) \/ ExecutorThrew(c)
  \/ MqttUnavailable(c) \/ Prepare(c) \/ PrepareFailed(c)
  \/ Publish(c) \/ PublishResolved(c) \/ PublishThrew(c)

-----------------------------------------------------------------------------
(* A tick t of the watcher: CommandLifecycleWatcher.tick.  A loop's list   *)
(* is taken when the loop starts; its records are visited one by one, with *)
(* awaits in between, and their status is not read again before a publish. *)

OthersOfTick == <<router, toCloud, pending, starts, restarts>>

BackToLoop(t) == [tick[t] EXCEPT !.step = "loop", !.cur = NoCmd]

\* The timer fires: listUnsentCommands.
TickStart(t) ==
  /\ tick[t].phase = "idle"
  /\ tick' = [tick EXCEPT ![t] =
        [phase |-> "unsent", step |-> "loop", cur |-> NoCmd,
         todo |-> {c \in Cmd : rec[c].status = "created"},
         elapsed |-> [c \in Cmd |-> rec[c].age]]]
  /\ UNCHANGED <<rec, toNode, OthersOfTick>>

\* The command is no longer dispatchable (its device or node was disabled,
\* rebound or is offline): failCommandDispatchability.
TickReject(t, c) ==
  /\ tick[t].phase # "idle" /\ tick[t].step = "loop"
  /\ c \in tick[t].todo
  /\ rec' = [rec EXCEPT ![c] = MarkCommandFailed(@)]
  /\ tick' = [tick EXCEPT ![t].todo = @ \ {c}]
  /\ UNCHANGED <<toNode, OthersOfTick>>

TickGoPrepare(t, c) ==
  tick' = [tick EXCEPT ![t].todo = @ \ {c}, ![t].step = "prepare", ![t].cur = c]

\* An unsent command: prepareCommandForPublish.
UnsentPrepare(t, c) ==
  /\ tick[t].phase = "unsent" /\ tick[t].step = "loop"
  /\ c \in tick[t].todo
  /\ TickGoPrepare(t, c)
  /\ UNCHANGED <<rec, toNode, OthersOfTick>>

\* The second loop begins: listAwaitingAckCommands.
AwaitingStart(t) ==
  /\ tick[t].phase = "unsent" /\ tick[t].step = "loop" /\ tick[t].todo = {}
  /\ tick' = [tick EXCEPT ![t].phase = "awaiting",
                          ![t].todo = {c \in Cmd : rec[c].status = "sent"}]
  /\ UNCHANGED <<rec, toNode, OthersOfTick>>

ActionFor(t, c) == AwaitingAckAction(rec[c], tick[t].elapsed[c])

AckTimedOut(t, c) ==
  /\ tick[t].phase = "awaiting" /\ tick[t].step = "loop"
  /\ c \in tick[t].todo
  /\ ActionFor(t, c) = "timeout"
  /\ rec' = [rec EXCEPT ![c] = MarkCommandTimeout(@)]
  /\ tick' = [tick EXCEPT ![t].todo = @ \ {c}]
  /\ UNCHANGED <<toNode, OthersOfTick>>

AckNotDue(t, c) ==
  /\ tick[t].phase = "awaiting" /\ tick[t].step = "loop"
  /\ c \in tick[t].todo
  /\ ActionFor(t, c) = "noop"
  /\ tick' = [tick EXCEPT ![t].todo = @ \ {c}]
  /\ UNCHANGED <<rec, toNode, OthersOfTick>>

AckRetry(t, c) ==
  /\ tick[t].phase = "awaiting" /\ tick[t].step = "loop"
  /\ c \in tick[t].todo
  /\ ActionFor(t, c) = "retry"
  /\ TickGoPrepare(t, c)
  /\ UNCHANGED <<rec, toNode, OthersOfTick>>

\* prepareCommandForPublish failed: handleConfigPrepareFailure.  In the
\* second loop publishPreparedCommand has then returned normally, and the
\* retry is counted although nothing was published.
TickPrepareFailed(t) ==
  LET c == tick[t].cur IN
  /\ tick[t].step = "prepare"
  /\ \E transient \in BOOLEAN :
       LET failed == HandleConfigPrepareFailure(rec[c], transient)
       IN  rec' = [rec EXCEPT ![c] = IF tick[t].phase = "awaiting"
                                     THEN RecordCommandRetry(failed) ELSE failed]
  /\ tick' = [tick EXCEPT ![t] = BackToLoop(t)]
  /\ UNCHANGED <<toNode, OthersOfTick>>

\* Mutant of TickPublish: the watcher signs what it publishes, as the
\* request does.
TickPublish_Signed(t) ==
  /\ tick[t].step = "prepare"
  /\ PutOnWire([cmd |-> tick[t].cur, signed |-> TRUE])
  /\ tick' = [tick EXCEPT ![t].step = "publish"]
  /\ UNCHANGED <<rec, OthersOfTick>>

\* The stored command goes to the broker; it carries no node_token.
TickPublish(t) ==
  /\ tick[t].step = "prepare"
  /\ PutOnWire([cmd |-> tick[t].cur, signed |-> FALSE])
  /\ tick' = [tick EXCEPT ![t].step = "publish"]
  /\ UNCHANGED <<rec, OthersOfTick>>

UnsentPublished(t) ==
  /\ tick[t].phase = "unsent" /\ tick[t].step = "publish"
  /\ Sent(tick[t].cur, [tick EXCEPT ![t] = BackToLoop(t)])
  /\ UNCHANGED <<toNode, OthersOfTick>>

RetryPublished(t) ==
  LET c == tick[t].cur IN
  /\ tick[t].phase = "awaiting" /\ tick[t].step = "publish"
  /\ rec' = [rec EXCEPT ![c] = RecordCommandRetry(@)]
  /\ tick' = [tick EXCEPT ![t] = BackToLoop(t)]
  /\ UNCHANGED <<toNode, OthersOfTick>>

\* The publish threw: logged, and left to a later tick.
TickPublishThrew(t) ==
  /\ tick[t].step = "publish"
  /\ tick' = [tick EXCEPT ![t] = BackToLoop(t)]
  /\ UNCHANGED <<rec, toNode, OthersOfTick>>

TickEnd(t) ==
  /\ tick[t].phase = "awaiting" /\ tick[t].step = "loop" /\ tick[t].todo = {}
  /\ tick' = [tick EXCEPT ![t] = IdleTick]
  /\ UNCHANGED <<rec, toNode, OthersOfTick>>

TickStep(t) ==
  \/ TickStart(t)
  \/ \E c \in Cmd : \/ TickReject(t, c) \/ UnsentPrepare(t, c)
                    \/ AckTimedOut(t, c) \/ AckNotDue(t, c) \/ AckRetry(t, c)
  \/ AwaitingStart(t)
  \/ TickPrepareFailed(t) \/ TickPublish(t)
  \/ UnsentPublished(t) \/ RetryPublished(t) \/ TickPublishThrew(t)
  \/ TickEnd(t)

-----------------------------------------------------------------------------
(* The Scene Node: handleCommand, startCommand, completePending.           *)

NodeTakes(m) == toNode # <<>> /\ m = Head(toNode) /\ toNode' = Tail(toNode)

OthersOfNode == <<rec, router, tick, restarts>>

\* One of the checks refuses the command.  A command in progress refuses any
\* other, and the same one again, and a command without the token is refused
\* too (NodeAccepts); the others - expires_at, emergency stop, manual
\* override, configuration version, device, action, duration - may refuse
\* any command.
NodeReject ==
  \E m \in CommandMsg :
    /\ NodeTakes(m)
    /\ Emit(<<Event(m.cmd, "rejected")>>)
    /\ UNCHANGED <<pending, starts, OthersOfNode>>

\* What a command must at least satisfy to be started.
NodeAccepts(m) ==
  /\ pending = NoCmd
  /\ m.signed

\* Acknowledged, running, then the output is switched on: the command is in
\* progress until its duration is over.
NodeStart ==
  \E m \in CommandMsg :
    /\ NodeTakes(m) /\ NodeAccepts(m)
    /\ Emit(<<Event(m.cmd, "acknowledged"), Event(m.cmd, "running")>>)
    /\ starts' = [starts EXCEPT ![m.cmd] = @ + 1]
    /\ pending' = m.cmd
    /\ UNCHANGED OthersOfNode

\* A stop, or a command without duration, completes in the same call.
NodeRunAtOnce ==
  \E m \in CommandMsg :
    /\ NodeTakes(m) /\ NodeAccepts(m)
    /\ Emit(<<Event(m.cmd, "acknowledged"), Event(m.cmd, "running"),
              Event(m.cmd, "completed")>>)
    /\ starts' = [starts EXCEPT ![m.cmd] = @ + 1]
    /\ UNCHANGED <<pending, OthersOfNode>>

\* Mutant of NodeStartFails: the failed start is reported as completed.
NodeStartFails_Completed ==
  \E m \in CommandMsg :
    /\ NodeTakes(m) /\ NodeAccepts(m)
    /\ Emit(<<Event(m.cmd, "acknowledged"), Event(m.cmd, "running"),
              Event(m.cmd, "completed")>>)
    /\ UNCHANGED <<pending, starts, OthersOfNode>>

\* nodeGpioStart fails (gpio_busy), after "running" was published.
NodeStartFails ==
  \E m \in CommandMsg :
    /\ NodeTakes(m) /\ NodeAccepts(m)
    /\ Emit(<<Event(m.cmd, "acknowledged"), Event(m.cmd, "running"),
              Event(m.cmd, "rejected")>>)
    /\ UNCHANGED <<pending, starts, OthersOfNode>>

\* Mutant of NodeComplete: gPending is cleared without the completed event.
NodeComplete_Silent ==
  /\ pending # NoCmd
  /\ pending' = NoCmd
  /\ UNCHANGED <<toNode, toCloud, starts, OthersOfNode>>

\* nodeCmdLoop, when the duration is over.
NodeComplete ==
  /\ pending # NoCmd
  /\ Emit(<<Event(pending, "completed")>>)
  /\ pending' = NoCmd
  /\ UNCHANGED <<toNode, starts, OthersOfNode>>

\* nodeCmdSetup: nothing about commands survives a reboot.
NodeReboot ==
  /\ pending' = NoCmd
  /\ toNode' = <<>>
  /\ UNCHANGED <<toCloud, starts, OthersOfNode>>

-----------------------------------------------------------------------------
(* The event handler, the broker, time and the API process.                *)

\* handleEventMessage for a command_event: applyCommandEvent.
HandleEvent ==
  /\ toCloud # <<>>
  /\ LET e == Head(toCloud)
     IN  rec' = [rec EXCEPT ![e.cmd] = ApplyCommandEvent(@, e.status)]
  /\ toCloud' = Tail(toCloud)
  /\ UNCHANGED <<router, tick, toNode, pending, starts, restarts>>

LoseCommand ==
  /\ toNode # <<>>
  /\ toNode' = Tail(toNode)
  /\ UNCHANGED <<rec, router, tick, toCloud, pending, starts, restarts>>

LoseEvent ==
  /\ toCloud # <<>>
  /\ toCloud' = Tail(toCloud)
  /\ UNCHANGED <<rec, router, tick, toNode, pending, starts, restarts>>

\* A time unit passes for the records that were stamped with a sent_at.
TimePasses ==
  /\ \E c \in Cmd : rec[c].status = "sent" /\ rec[c].age < AckTimeout
  /\ rec' = [c \in Cmd |->
               IF rec[c].status = "sent" /\ rec[c].age < AckTimeout
               THEN [rec[c] EXCEPT !.age = @ + 1] ELSE rec[c]]
  /\ UNCHANGED <<router, tick, toNode, toCloud, pending, starts, restarts>>

\* The API process dies and starts again: requests and ticks are gone, the
\* store is hydrated with the last row of every command.
Restart ==
  /\ restarts < MaxRestarts
  /\ restarts' = restarts + 1
  /\ router' = [c \in Cmd |-> IF router[c] = "idle" THEN "idle" ELSE "gone"]
  /\ tick' = [t \in Tick |-> IdleTick]
  /\ UNCHANGED <<rec, toNode, toCloud, pending, starts>>

-----------------------------------------------------------------------------
Node == NodeReject \/ NodeStart \/ NodeRunAtOnce \/ NodeStartFails \/ NodeComplete

\* What happens when every event reaches the handler and the node stays up.
ReliableNext ==
  \/ \E c \in Cmd : Refuse(c) \/ Reserve(c) \/ RouterStep(c)
  \/ \E t \in Tick : TickStep(t)
  \/ Node \/ HandleEvent \/ LoseCommand \/ TimePasses \/ Restart

Next == ReliableNext \/ LoseEvent \/ NodeReboot

Spec == Init /\ [][Next]_vars

\* What the scheduling of the code gives: every await of a request and of a
\* tick ends, the timer keeps starting ticks, and time passes.
CloudFairness ==
  /\ \A c \in Cmd : WF_vars(RouterStep(c))
  /\ \A t \in Tick : WF_vars(TickStep(t))
  /\ WF_vars(TimePasses)

FairSpec == Spec /\ CloudFairness

\* Besides, the node and the event handler go on working, and the broker
\* does not refuse every publish of a tick.
ReliableSpec ==
  /\ Init /\ [][ReliableNext]_vars
  /\ CloudFairness
  /\ WF_vars(Node) /\ WF_vars(HandleEvent)
  /\ \A t \in Tick : SF_vars(UnsentPublished(t))

-----------------------------------------------------------------------------
(* What the lifecycle must guarantee.                                      *)

\* At most one command per device is between created and its outcome, even
\* though events, requests and overlapping ticks write the records in any
\* order (getInFlightCommandForDevice under the device's lock).
OneInFlightPerDevice ==
  \A c, d \in Cmd :
    /\ DeviceOf[c] = DeviceOf[d]
    /\ rec[c].status \in InFlight
    /\ rec[d].status \in InFlight
    => c = d

\* The Scene Node switches the output on at most once per command, whatever
\* the watcher resends and wherever the API process dies.  The firmware
\* keeps no cache of the keys it has seen, so this rests on the request being
\* the only publisher whose messages the node accepts (node_cmd.cpp 208).
ActuatedAtMostOnce == \A c \in Cmd : starts[c] <= 1

\* A command recorded as completed was carried out: by the node, or by its
\* domain pack's executor (the cloud never infers it from a publish).
CompletedWasActuated ==
  \A c \in Cmd \ Direct : rec[c].status = "completed" => starts[c] > 0

\* A command is not kept waiting for its node's configuration for ever: when
\* the attempts reach the cap it has failed (handleConfigPrepareFailure).
ConfigAttemptsCapped ==
  \A c \in Cmd : rec[c].attempts >= MaxConfigAttempts => rec[c].status \in Terminal

\* An outcome is never taken back or replaced (TERMINAL_STATUSES).
OutcomeIsFinal ==
  [][\A c \in Cmd : rec[c].status \in Terminal => rec'[c].status = rec[c].status]_vars

\* The same as a refinement: the store implements the reservation of devices.
Reservation == INSTANCE DeviceReservation WITH
  outcome <- [c \in Cmd |-> CASE rec[c].status = "none" -> "unknown"
                              [] rec[c].status \in InFlight -> "pending"
                              [] OTHER -> rec[c].status]

\* Every step of the lifecycle is a step of DeviceReservation or none.
ReservesDevices == Reservation!Spec

\* A command that was sent does not wait for ever: it is acknowledged, gets
\* an outcome, or times out (watcher.tick).
SentIsResolved ==
  \A c \in Cmd : (rec[c].status = "sent") ~> (rec[c].status # "sent")

\* When no event is lost and the node does not reboot, every command that
\* reserved its device releases it.
DeviceIsReleased ==
  \A c \in Cmd : (rec[c].status \in InFlight) ~> (rec[c].status \in Terminal)

=============================================================================
