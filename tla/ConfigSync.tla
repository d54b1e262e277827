----------------------------- MODULE ConfigSync -----------------------------
(***************************************************************************)
(* How one Scene Node and the cloud agree on a configuration               *)
(* (packages/node/src/nodes/config-sync.ts, publish-node-config.ts,        *)
(* registry.ts and firmware/scene-node/src/node_config.cpp).               *)
(*                                                                         *)
(* The registry holds the node's config_version and its devices; an admin  *)
(* binding replaces both and publishes them as a retained message.  The    *)
(* node applies whatever configuration reaches it and reports the version  *)
(* in an event and in its heartbeats, which reach the API through two      *)
(* connections.  A command may be published only when the version the node *)
(* last reported is the registry's: ensureNodeConfigReady publishes the    *)
(* configuration again when it is not, and polls.                          *)
(*                                                                         *)
(* A configuration is a version v and a mapping d of device ids to         *)
(* channels.  Each binding makes a new mapping, named by its number.       *)
(* Version 0 is no configuration, on both sides.  The heartbeat's version  *)
(* in the telemetry store is left out: a heartbeat also records it as the  *)
(* applied version, which is read first.                                   *)
(***************************************************************************)
EXTENDS Naturals, Sequences

CONSTANTS Callers,      \* calls of ensureNodeConfigReady at one time
          MaxBinds,     \* bound: admin bindings
          MaxEdits,     \* bound: registries an admin client writes back
          MaxFaults,    \* bound: restarts of the API, reboots and lost
                        \* connections of the node, messages lost
          MaxQueue      \* bound: messages on one connection

ASSUME ConfigBounds ==
  /\ MaxBinds \in Nat /\ MaxEdits \in Nat /\ MaxFaults \in Nat
  /\ MaxQueue \in Nat \ {0}

VARIABLES
  registry,   \* device-registry.json: the node's configuration
  binds,      \* bindings so far
  editor,     \* the registry an admin client has read and may write back
  edits,      \* registries written back so far
  applied,    \* node-applied-config.json: what the node reported last
  cooling,    \* a configuration was published within the cooldown
  inFlight,   \* publishInFlight holds the node
  call,       \* the calls of ensureNodeConfigReady
  mismatch,   \* republishNodeConfigOnMismatch awaits its publish
  toNode,     \* the publisher's connection: configurations and commands
  retained,   \* the broker's retained configuration
  node,       \* the configuration the node runs with
  online,     \* the node is connected and subscribed
  events,     \* the API's event connection: applied versions, rejections
  beats,      \* the API's telemetry connection: versions of heartbeats
  faults      \* restarts, reboots, lost connections and messages so far

cloud == <<registry, binds, editor, edits, applied>>
process == <<cooling, inFlight, call, mismatch>>
edge == <<retained, node, online>>
vars == <<cloud, process, toNode, edge, events, beats, faults>>

-----------------------------------------------------------------------------
Config == [v : Nat, d : Nat]
NoConfig == [v |-> 0, d |-> 0]

Sources == {"none", "heartbeat", "config_applied"}

Call == [pc : {"idle", "publishing", "polling"}, v : Nat, d : Nat]
Idle == [pc |-> "idle", v |-> 0, d |-> 0]

ToNode == [kind : {"config", "command"}, v : Nat, d : Nat]
Event == [kind : {"applied", "mismatch"}, v : Nat]

Message(kind, c) == [kind |-> kind, v |-> c.v, d |-> c.d]

Fault == faults < MaxFaults /\ faults' = faults + 1

Room(queue) == Len(queue) < MaxQueue

\* A QoS 0 report that finds its connection full is lost.
Report(event) ==
  events' = IF Room(events) THEN Append(events, event) ELSE events

Init ==
  /\ registry = NoConfig /\ binds = 0 /\ editor = NoConfig /\ edits = 0
  /\ applied = [v |-> 0, source |-> "none"]
  /\ cooling = FALSE /\ inFlight = FALSE /\ mismatch = FALSE
  /\ call = [c \in Callers |-> Idle]
  /\ toNode = <<>> /\ retained = NoConfig
  /\ node = NoConfig /\ online = FALSE
  /\ events = <<>> /\ beats = <<>>
  /\ faults = 0

-----------------------------------------------------------------------------
(* The registry                                                            *)

\* Mutant of ApplyNodeBinding: the devices change under the same version.
ApplyNodeBinding_SameVersion ==
  registry' = [v |-> IF registry.v = 0 THEN 1 ELSE registry.v, d |-> binds + 1]

\* The version goes up and the submitted devices replace the node's.
ApplyNodeBinding == registry' = [v |-> registry.v + 1, d |-> binds + 1]

\* PUT /admin/nodes/:id/binding: the result of the publish is only logged.
Bind ==
  /\ binds < MaxBinds /\ Room(toNode)
  /\ ApplyNodeBinding
  /\ binds' = binds + 1
  /\ toNode' = Append(toNode, Message("config", registry'))
  /\ UNCHANGED <<editor, edits, applied, process, edge, events, beats, faults>>

\* GET /admin/registry
AdminReads ==
  /\ edits < MaxEdits /\ registry.v > 0 /\ editor # registry
  /\ editor' = registry
  /\ UNCHANGED <<registry, binds, edits, applied, process, toNode, edge,
                 events, beats, faults>>

\* PUT /admin/registry: saves what the client sends, and publishes nothing.
AdminSaves ==
  /\ edits < MaxEdits /\ editor.v > 0
  /\ registry' = editor
  /\ editor' = NoConfig
  /\ edits' = edits + 1
  /\ UNCHANGED <<binds, applied, process, toNode, edge, events, beats,
                 faults>>

-----------------------------------------------------------------------------
(* What the node reports                                                   *)

\* Mutant of SyncRegistry: any difference is taken for a registry behind.
SyncRegistry_AnyDifference(v) == [v |-> v, d |-> registry.d]

\* syncRegistryConfigVersionIfBehind
SyncRegistry(v) ==
  IF v > registry.v THEN [v |-> v, d |-> registry.d] ELSE registry

\* Mutant of Record: a version below the one recorded is taken for a late one.
Record_OnlyNewer(v, source) ==
  IF v <= applied.v
  THEN UNCHANGED <<applied, registry>>
  ELSE /\ applied' = [v |-> v, source |-> source]
       /\ registry' = IF source = "config_applied" THEN SyncRegistry(v)
                                                   ELSE registry

\* recordNodeAppliedConfigVersion: in the order of arrival, whatever it was.
Record(v, source) ==
  IF applied = [v |-> v, source |-> source]
  THEN UNCHANGED <<applied, registry>>
  ELSE /\ applied' = [v |-> v, source |-> source]
       /\ registry' = IF source = "config_applied" THEN SyncRegistry(v)
                                                   ELSE registry

\* handleEventMessage for config_applied
HandleApplied ==
  /\ events # <<>> /\ Head(events).kind = "applied"
  /\ Record(Head(events).v, "config_applied")
  /\ events' = Tail(events)
  /\ UNCHANGED <<binds, editor, edits, process, toNode, edge, beats, faults>>

\* handleTelemetryMessage for a heartbeat
HandleBeat ==
  /\ beats # <<>>
  /\ Record(Head(beats), "heartbeat")
  /\ beats' = Tail(beats)
  /\ UNCHANGED <<binds, editor, edits, process, toNode, edge, events, faults>>

\* republishNodeConfigOnMismatch up to its await.  The firmware's rejection
\* does not name the version it expects, so no version is inferred from it.
HandleMismatch ==
  /\ events # <<>> /\ Head(events).kind = "mismatch"
  /\ ~mismatch /\ Room(toNode)
  /\ IF cooling \/ registry.v = 0
     THEN UNCHANGED <<mismatch, toNode>>
     ELSE /\ mismatch' = TRUE
          /\ toNode' = Append(toNode, Message("config", registry))
  /\ events' = Tail(events)
  /\ UNCHANGED <<cloud, cooling, inFlight, call, edge, beats, faults>>

\* Its end: the cooldown starts only when the publish was acknowledged.
MismatchPublished ==
  /\ mismatch
  /\ mismatch' = FALSE
  /\ cooling' \in {cooling, TRUE}
  /\ UNCHANGED <<cloud, inFlight, call, toNode, edge, events, beats, faults>>

-----------------------------------------------------------------------------
(* ensureNodeConfigReady                                                   *)

\* prepareCommandForPublish and the publish: the command carries the version.
SendCommand(c) == toNode' = Append(toNode, Message("command", c))

\* The call finds the node up to date and does not wait.
Ready(c) ==
  /\ call[c].pc = "idle" /\ registry.v > 0 /\ Room(toNode)
  /\ applied.v = registry.v
  /\ SendCommand(registry)
  /\ UNCHANGED <<cloud, process, edge, events, beats, faults>>

\* Nobody else publishes: publish what the registry holds now.
StartPublish(c) ==
  /\ call[c].pc = "idle" /\ registry.v > 0 /\ Room(toNode)
  /\ applied.v # registry.v
  /\ ~cooling /\ ~inFlight
  /\ inFlight' = TRUE
  /\ toNode' = Append(toNode, Message("config", registry))
  /\ call' = [call EXCEPT ![c] =
                [pc |-> "publishing", v |-> registry.v, d |-> registry.d]]
  /\ UNCHANGED <<cloud, cooling, mismatch, edge, events, beats, faults>>

\* A publish is on its way or was not long ago: only wait.
StartPoll(c) ==
  /\ call[c].pc = "idle" /\ registry.v > 0
  /\ applied.v # registry.v
  /\ cooling \/ inFlight
  /\ call' = [call EXCEPT ![c] =
                [pc |-> "polling", v |-> registry.v, d |-> registry.d]]
  /\ UNCHANGED <<cloud, cooling, inFlight, mismatch, toNode, edge, events,
                 beats, faults>>

Published(c) ==
  /\ call[c].pc = "publishing"
  /\ call' = [call EXCEPT ![c] =
                [pc |-> "polling", v |-> call[c].v, d |-> call[c].d]]
  /\ cooling' = TRUE
  /\ inFlight' = FALSE
  /\ UNCHANGED <<cloud, mismatch, toNode, edge, events, beats, faults>>

\* mqtt_publish_failed: the configuration may reach the broker all the same.
PublishFailed(c) ==
  /\ call[c].pc = "publishing"
  /\ call' = [call EXCEPT ![c] = Idle]
  /\ inFlight' = FALSE
  /\ UNCHANGED <<cloud, cooling, mismatch, toNode, edge, events, beats, faults>>

\* The poll compares with the version the call read when it began.
Polled(c) ==
  /\ call[c].pc = "polling" /\ Room(toNode)
  /\ applied.v = call[c].v
  /\ SendCommand(call[c])
  /\ call' = [call EXCEPT ![c] = Idle]
  /\ UNCHANGED <<cloud, cooling, inFlight, mismatch, edge, events, beats,
                 faults>>

\* config_not_ready: the deadline passed.
GiveUp(c) ==
  /\ call[c].pc = "polling"
  /\ call' = [call EXCEPT ![c] = Idle]
  /\ UNCHANGED <<cloud, cooling, inFlight, mismatch, toNode, edge, events,
                 beats, faults>>

CooldownEnds ==
  /\ cooling
  /\ cooling' = FALSE
  /\ UNCHANGED <<cloud, inFlight, call, mismatch, toNode, edge, events, beats,
                 faults>>

-----------------------------------------------------------------------------
(* The broker and the node                                                 *)

\* applyConfig: any version above 0, also one below the current version.
ApplyConfig(c) ==
  /\ node' = [v |-> c.v, d |-> c.d]
  /\ Report([kind |-> "applied", v |-> c.v])

\* A configuration reaches the broker, and the node if it is connected.
DeliverConfig ==
  /\ toNode # <<>> /\ Head(toNode).kind = "config"
  /\ retained' = [v |-> Head(toNode).v, d |-> Head(toNode).d]
  /\ IF online THEN ApplyConfig(Head(toNode)) ELSE UNCHANGED <<node, events>>
  /\ toNode' = Tail(toNode)
  /\ UNCHANGED <<cloud, process, online, beats, faults>>

\* The node's test of a command: it has a configuration of that version.
Accepts(m) == node.v > 0 /\ m.v = node.v

\* A command reaches the node, which refuses another version than its own.
DeliverCommand ==
  /\ toNode # <<>> /\ Head(toNode).kind = "command"
  /\ IF online /\ ~Accepts(Head(toNode))
     THEN Report([kind |-> "mismatch", v |-> 0])
     ELSE UNCHANGED events
  /\ toNode' = Tail(toNode)
  /\ UNCHANGED <<cloud, process, edge, beats, faults>>

\* publishHeartbeat
Beat ==
  /\ online /\ Room(beats)
  /\ beats' = Append(beats, node.v)
  /\ UNCHANGED <<cloud, process, toNode, edge, events, faults>>

\* nodeConfigLoop subscribes again, and the broker sends what it retains.
NodeConnects ==
  /\ ~online
  /\ online' = TRUE
  /\ IF retained.v > 0 THEN ApplyConfig(retained) ELSE UNCHANGED <<node, events>>
  /\ UNCHANGED <<cloud, process, toNode, retained, beats, faults>>

\* The connection breaks, or the node reboots and forgets its configuration.
NodeDrops ==
  /\ Fault
  /\ online' = FALSE
  /\ \/ online /\ UNCHANGED node
     \/ node' = NoConfig          \* nodeConfigSetup
  /\ UNCHANGED <<cloud, process, toNode, retained, events, beats>>

LoseMessage ==
  /\ Fault
  /\ \/ toNode # <<>> /\ toNode' = Tail(toNode) /\ UNCHANGED <<events, beats>>
     \/ events # <<>> /\ events' = Tail(events) /\ UNCHANGED <<toNode, beats>>
  /\ UNCHANGED <<cloud, process, edge>>

-----------------------------------------------------------------------------
(* The API process ends and starts again: the files stay                   *)

ForgetProcess ==
  /\ Fault
  /\ cooling' = FALSE /\ inFlight' = FALSE /\ mismatch' = FALSE
  /\ call' = [c \in Callers |-> Idle]
  /\ events' = <<>> /\ beats' = <<>>
  /\ UNCHANGED <<toNode, edge>>

Restart == ForgetProcess /\ UNCHANGED cloud

\* It ends between the write of the applied version and that of the registry.
CrashInRecord ==
  /\ events # <<>> /\ Head(events).kind = "applied"
  /\ Head(events).v > registry.v
  /\ applied' = [v |-> Head(events).v, source |-> "config_applied"]
  /\ ForgetProcess
  /\ UNCHANGED <<registry, binds, editor, edits>>

-----------------------------------------------------------------------------
CallStep(c) ==
  \/ Ready(c) \/ StartPublish(c) \/ StartPoll(c)
  \/ Published(c) \/ PublishFailed(c) \/ Polled(c) \/ GiveUp(c)

Next ==
  \/ Bind \/ AdminReads \/ AdminSaves
  \/ HandleApplied \/ HandleBeat \/ HandleMismatch \/ MismatchPublished
  \/ \E c \in Callers : CallStep(c)
  \/ CooldownEnds
  \/ DeliverConfig \/ DeliverCommand \/ Beat \/ NodeConnects \/ NodeDrops
  \/ LoseMessage
  \/ Restart \/ CrashInRecord

Spec == Init /\ [][Next]_vars

\* The connections deliver, the node's loop runs, the cooldown is a clock, and
\* commands for the node keep coming: the watcher repeats a command that waits
\* for its configuration, and every call ends by its deadline.
Fairness ==
  /\ WF_vars(HandleApplied) /\ WF_vars(HandleBeat) /\ WF_vars(HandleMismatch)
  /\ WF_vars(MismatchPublished) /\ WF_vars(CooldownEnds)
  /\ WF_vars(DeliverConfig) /\ WF_vars(DeliverCommand)
  /\ WF_vars(Beat) /\ WF_vars(NodeConnects)
  /\ \A c \in Callers :
       /\ WF_vars(StartPublish(c))
       /\ WF_vars(Published(c) \/ PublishFailed(c))
       /\ WF_vars(Polled(c) \/ GiveUp(c))

FairSpec == Spec /\ Fairness

-----------------------------------------------------------------------------
TypeOK ==
  /\ registry \in Config /\ editor \in Config
  /\ binds \in 0..MaxBinds /\ edits \in 0..MaxEdits
  /\ applied \in [v : Nat, source : Sources]
  /\ cooling \in BOOLEAN /\ inFlight \in BOOLEAN /\ mismatch \in BOOLEAN
  /\ call \in [Callers -> Call]
  /\ toNode \in Seq(ToNode) /\ retained \in Config /\ node \in Config
  /\ online \in BOOLEAN
  /\ events \in Seq(Event) /\ beats \in Seq(Nat)
  /\ faults \in 0..MaxFaults

(* A version names one mapping of devices: whatever was lost, late or sent   *)
(* twice, a command the node would accept was prepared against the mapping   *)
(* the node has.  Stated while no admin client has written a registry back,  *)
(* which changes devices without a new version (handleCommand compares only  *)
(* versions).                                                                *)
AcceptedMeansSameMapping ==
  edits = 0 =>
    \A i \in 1..Len(toNode) :
      toNode[i].kind = "command" /\ Accepts(toNode[i]) => toNode[i].d = node.d

(* What the node reports never takes the registry back to an older version,  *)
(* however late it arrives: only an admin client that writes back what it    *)
(* read does (syncRegistryConfigVersionIfBehind).                            *)
RegistryOnlyGrows == [][registry'.v >= registry.v \/ AdminSaves]_vars

(* When bindings, edits, restarts, reboots and losses end, the node comes to *)
(* run with the registry's version and the API to know it, and so it stays:  *)
(* no cooldown, publish in flight, late heartbeat or half-done record keeps  *)
(* commands refused for ever.                                                *)
ComesToAgree ==
  <>[](registry.v > 0 => node.v = registry.v /\ applied.v = registry.v)

=============================================================================
