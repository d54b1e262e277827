-------------------------- MODULE ConfigSyncProofs --------------------------
(***************************************************************************)
(* A version names one mapping, and what the node reports never lowers the *)
(* registry: for any callers, bindings, faults and length of the queues.   *)
(***************************************************************************)
EXTENDS ConfigSync, TLAPS

\* What a queue is made of, along what the actions do with queues.
LEMMA Queues ==
  ASSUME NEW S, NEW q \in Seq(S)
  PROVE  /\ \A x \in S : Append(q, x) \in Seq(S)
         /\ q # <<>> => Head(q) \in S /\ Tail(q) \in Seq(S)
         /\ \A i \in 1..Len(q) : q[i] \in S
         /\ <<>> \in Seq(S)
  OBVIOUS

LEMMA Wider == ASSUME NEW S, NEW T, S \subseteq T PROVE Seq(S) \subseteq Seq(T)
  OBVIOUS

\* Until a registry is written back, every configuration anywhere is one of
\* those the bindings made, whose version and mapping have one number.
Known == {c \in Config : edits = 0 => c.v = c.d /\ c.v <= binds}
Versions == {v \in Nat : edits = 0 => v <= binds}
Sent == [kind : {"config", "command"}, v : Nat, d : Nat]
KnownSent == {m \in Sent : edits = 0 => m.v = m.d /\ m.v <= binds}
KnownCalls == {m \in Call : edits = 0 => m.v = m.d /\ m.v <= binds}
Seen == {m \in Event : edits = 0 => m.v <= binds}

SyncInv ==
  /\ binds \in Nat /\ edits \in Nat
  /\ registry \in Known /\ (edits = 0 => registry.v = binds)
  /\ editor \in Known /\ retained \in Known /\ node \in Known
  /\ toNode \in Seq(KnownSent) /\ call \in [Callers -> KnownCalls]
  /\ events \in Seq(Seen) /\ beats \in Seq(Versions)

\* More bindings, or a registry written back, only add to what is known.
Later == binds' \in Nat /\ edits' \in Nat /\ binds <= binds' /\ (edits' = 0 => edits = 0)

LEMMA KnownLater ==
  SyncInv /\ Later =>
    /\ Known \subseteq Known' /\ Versions \subseteq Versions'
    /\ Seq(KnownSent) \subseteq Seq(KnownSent') /\ Seq(Seen) \subseteq Seq(Seen')
    /\ Seq(Versions) \subseteq Seq(Versions')
    /\ [Callers -> KnownCalls] \subseteq [Callers -> KnownCalls']
  <1> SUFFICES ASSUME SyncInv, Later
               PROVE  /\ Known \subseteq Known' /\ Versions \subseteq Versions'
                      /\ Seq(KnownSent) \subseteq Seq(KnownSent') /\ Seq(Seen) \subseteq Seq(Seen')
                      /\ Seq(Versions) \subseteq Seq(Versions')
                      /\ [Callers -> KnownCalls] \subseteq [Callers -> KnownCalls']
    OBVIOUS
  <1>1. Known \subseteq Known' /\ Versions \subseteq Versions'
    BY DEF SyncInv, Later, Known, Versions, Config
  <1>2. KnownSent \subseteq KnownSent' /\ Seen \subseteq Seen' /\ KnownCalls \subseteq KnownCalls'
    BY DEF SyncInv, Later, KnownSent, Seen, KnownCalls, Sent, Event, Call
  <1> QED BY <1>1, <1>2, Wider

\* What the actions build from what is known.
LEMMA Built ==
  ASSUME SyncInv
  PROVE  /\ NoConfig \in Known /\ Idle \in KnownCalls
         /\ \A c \in Known : c.v \in Versions /\ c.v \in Nat
         /\ \A c \in Known, k \in {"config", "command"} : Message(k, c) \in KnownSent
         /\ \A c \in KnownCalls : Message("command", c) \in KnownSent
         /\ \A c \in Known, pc \in {"publishing", "polling"} :
              [pc |-> pc, v |-> c.v, d |-> c.d] \in KnownCalls
         /\ \A c \in KnownCalls :
              [pc |-> "polling", v |-> c.v, d |-> c.d] \in KnownCalls
         /\ \A m \in KnownSent : [v |-> m.v, d |-> m.d] \in Known
         /\ \A v \in Versions : [kind |-> "applied", v |-> v] \in Seen
         /\ [kind |-> "mismatch", v |-> 0] \in Seen
         /\ \A e \in Seen : e.v \in Versions
  <1>1. NoConfig \in Known
    BY DEF SyncInv, NoConfig, Known, Config
  <1>2. Idle \in KnownCalls
    BY DEF SyncInv, Idle, KnownCalls, Call
  <1>3. \A c \in Known : c.v \in Versions /\ c.v \in Nat
    BY DEF Known, Versions, Config
  <1>4. \A c \in Known, k \in {"config", "command"} : Message(k, c) \in KnownSent
    BY DEF Known, KnownSent, Sent, Config, Message
  <1>5. \A c \in KnownCalls : Message("command", c) \in KnownSent
    BY DEF KnownCalls, Call, KnownSent, Sent, Message
  <1>6. \A c \in Known, pc \in {"publishing", "polling"} :
          [pc |-> pc, v |-> c.v, d |-> c.d] \in KnownCalls
    BY DEF Known, Config, KnownCalls, Call
  <1>7. \A c \in KnownCalls : [pc |-> "polling", v |-> c.v, d |-> c.d] \in KnownCalls
    BY DEF KnownCalls, Call
  <1>8. \A m \in KnownSent : [v |-> m.v, d |-> m.d] \in Known
    BY DEF KnownSent, Sent, Known, Config
  <1>9. \A v \in Versions : [kind |-> "applied", v |-> v] \in Seen
    BY DEF Versions, Seen, Event
  <1>10. [kind |-> "mismatch", v |-> 0] \in Seen
    BY DEF SyncInv, Seen, Event
  <1>11. \A e \in Seen : e.v \in Versions
    BY DEF Seen, Event, Versions
  <1> QED BY <1>1, <1>2, <1>3, <1>4, <1>5, <1>6, <1>7, <1>8, <1>9, <1>10, <1>11

\* A report does not move the registry while its versions are the bindings'.
LEMMA Syncs ==
  ASSUME SyncInv, NEW v \in Versions
  PROVE  /\ SyncRegistry(v) \in Known /\ SyncRegistry(v).v >= registry.v
         /\ edits = 0 => SyncRegistry(v) = registry
  <1>1. CASE v > registry.v
    BY <1>1 DEF SyncInv, SyncRegistry, Known, Config, Versions
  <1>2. CASE ~(v > registry.v)
    BY <1>2 DEF SyncInv, SyncRegistry, Known, Config, Versions
  <1> QED BY <1>1, <1>2

LEMMA Reports ==
  ASSUME SyncInv, NEW e \in Seen, Report(e)
  PROVE  events' \in Seq(Seen)
  BY Queues DEF SyncInv, Report

-----------------------------------------------------------------------------
(* Steps that leave the bindings and the registry alone. *)

Still == UNCHANGED <<binds, edits, registry, editor>>

LEMMA StillSame ==
  Still => /\ Known' = Known /\ Versions' = Versions /\ KnownSent' = KnownSent
           /\ KnownCalls' = KnownCalls /\ Seen' = Seen
  BY DEF Still, Known, Versions, KnownSent, KnownCalls, Seen

LEMMA StillInv ==
  ASSUME SyncInv, Still,
         retained' \in Known, node' \in Known, toNode' \in Seq(KnownSent),
         call' \in [Callers -> KnownCalls], events' \in Seq(Seen), beats' \in Seq(Versions)
  PROVE  SyncInv'
  BY StillSame DEF SyncInv, Still

LEMMA CallKeeps ==
  ASSUME NEW c \in Callers, SyncInv, CallStep(c)
  PROVE  SyncInv'
  <1> USE Queues, Built
  <1>1. CASE Ready(c)
    BY <1>1, StillInv DEF Ready, SendCommand, SyncInv, Still, cloud, process, edge
  <1>2. CASE StartPublish(c)
    BY <1>2, StillInv DEF StartPublish, SyncInv, Still, cloud, edge
  <1>3. CASE StartPoll(c)
    BY <1>3, StillInv DEF StartPoll, SyncInv, Still, cloud, edge
  <1>4. CASE Published(c)
    BY <1>4, StillInv DEF Published, SyncInv, Still, cloud, edge
  <1>5. CASE PublishFailed(c)
    BY <1>5, StillInv DEF PublishFailed, SyncInv, Still, cloud, edge
  <1>6. CASE Polled(c)
    BY <1>6, StillInv DEF Polled, SendCommand, SyncInv, Still, cloud, edge
  <1>7. CASE GiveUp(c)
    BY <1>7, StillInv DEF GiveUp, SyncInv, Still, cloud, edge
  <1> QED BY <1>1, <1>2, <1>3, <1>4, <1>5, <1>6, <1>7 DEF CallStep

LEMMA EdgeKeeps ==
  ASSUME SyncInv,
         \/ HandleMismatch \/ MismatchPublished \/ CooldownEnds \/ DeliverConfig
         \/ DeliverCommand \/ Beat \/ NodeConnects \/ NodeDrops \/ LoseMessage \/ Restart
  PROVE  SyncInv'
  <1> USE Queues, Built
  <1>1. CASE HandleMismatch
    BY <1>1, StillInv DEF HandleMismatch, SyncInv, Still, cloud, edge
  <1>2. CASE MismatchPublished \/ CooldownEnds
    BY <1>2, StillInv DEF MismatchPublished, CooldownEnds, SyncInv, Still, cloud, edge
  <1>3. CASE DeliverConfig
    <2>1. Head(toNode) \in KnownSent /\ Tail(toNode) \in Seq(KnownSent)
      BY <1>3 DEF DeliverConfig, SyncInv
    <2>2. retained' \in Known
      BY <1>3, <2>1 DEF DeliverConfig
    <2>3. node' \in Known /\ events' \in Seq(Seen)
      <3> DEFINE m == Head(toNode)
      <3>1. m \in KnownSent
        BY <2>1
      <3>2. /\ [v |-> m.v, d |-> m.d] \in Known
            /\ [kind |-> "applied", v |-> m.v] \in Seen
        BY <3>1 DEF KnownSent, Sent, Versions
      <3>3. CASE online
        <4>1. node' = [v |-> m.v, d |-> m.d] /\ Report([kind |-> "applied", v |-> m.v])
          BY <1>3, <3>3 DEF DeliverConfig, ApplyConfig
        <4> QED BY <3>2, <4>1, Reports
      <3>4. CASE ~online
        BY <1>3, <3>4 DEF DeliverConfig, SyncInv
      <3> QED BY <3>3, <3>4
    <2> QED BY <1>3, <2>1, <2>2, <2>3, StillInv DEF DeliverConfig, SyncInv, Still, cloud, process
  <1>4. CASE DeliverCommand
    BY <1>4, Reports, StillInv DEF DeliverCommand, SyncInv, Still, cloud, process, edge
  <1>5. CASE Beat
    BY <1>5, StillInv DEF Beat, SyncInv, Still, cloud, process, edge
  <1>6. CASE NodeConnects
    <2>1. node' \in Known /\ events' \in Seq(Seen)
      <3>1. CASE retained.v > 0
        <4>1. retained \in Known /\ retained.v \in Versions
          BY DEF SyncInv
        <4>2. [v |-> retained.v, d |-> retained.d] \in Known
          BY <4>1 DEF Known, Config
        <4> QED BY <1>6, <3>1, <4>1, <4>2, Reports DEF NodeConnects, ApplyConfig
      <3>2. CASE ~(retained.v > 0)
        BY <1>6, <3>2 DEF NodeConnects, SyncInv
      <3> QED BY <3>1, <3>2
    <2> QED BY <1>6, <2>1, StillInv DEF NodeConnects, SyncInv, Still, cloud, process
  <1>7. CASE NodeDrops
    BY <1>7, StillInv DEF NodeDrops, SyncInv, Still, cloud, process
  <1>8. CASE LoseMessage
    BY <1>8, StillInv DEF LoseMessage, SyncInv, Still, cloud, process, edge
  <1>9. CASE Restart
    BY <1>9, StillInv DEF Restart, ForgetProcess, SyncInv, Still, cloud, edge
  <1> QED BY <1>1, <1>2, <1>3, <1>4, <1>5, <1>6, <1>7, <1>8, <1>9

-----------------------------------------------------------------------------
(* Steps that may move them. *)

LEMMA RecordKeeps ==
  ASSUME SyncInv, HandleApplied \/ HandleBeat \/ CrashInRecord
  PROVE  SyncInv' /\ registry'.v >= registry.v
  <1> USE Queues, Built
  <1>1. ASSUME HandleApplied \/ HandleBeat \/ CrashInRecord
        PROVE  /\ registry' \in Known /\ registry'.v >= registry.v
               /\ edits = 0 => registry' = registry
    <2>1. registry \in Known /\ registry.v \in Nat
      BY DEF SyncInv
    <2>2. CASE HandleApplied
      <3>1. Head(events).v \in Versions
        BY <2>2 DEF HandleApplied, SyncInv
      <3> QED BY <2>1, <2>2, <3>1, Syncs DEF HandleApplied, Record
    <2>3. CASE HandleBeat
      BY <2>1, <2>3 DEF HandleBeat, Record
    <2>4. CASE CrashInRecord
      BY <2>1, <2>4 DEF CrashInRecord
    <2> QED BY <1>1, <2>2, <2>3, <2>4
  <1>2. UNCHANGED <<binds, edits, editor, retained, node>>
    BY DEF HandleApplied, HandleBeat, CrashInRecord, ForgetProcess, edge
  <1>3. /\ toNode' \in Seq(KnownSent) /\ call' \in [Callers -> KnownCalls]
        /\ events' \in Seq(Seen) /\ beats' \in Seq(Versions)
    <2>1. CASE HandleApplied
      BY <2>1 DEF HandleApplied, process, SyncInv
    <2>2. CASE HandleBeat
      BY <2>2 DEF HandleBeat, process, SyncInv
    <2>3. CASE CrashInRecord
      <3>1. /\ call' = [c \in Callers |-> Idle] /\ toNode' = toNode
            /\ events' = <<>> /\ beats' = <<>>
        BY <2>3 DEF CrashInRecord, ForgetProcess
      <3>2. toNode \in Seq(KnownSent)
        BY DEF SyncInv
      <3>3. call' \in [Callers -> KnownCalls]
        BY <3>1
      <3> QED BY <3>1, <3>2, <3>3
    <2> QED BY <2>1, <2>2, <2>3
  <1>4. /\ Known' = Known /\ Versions' = Versions /\ KnownSent' = KnownSent
        /\ KnownCalls' = KnownCalls /\ Seen' = Seen
    BY <1>2 DEF Known, Versions, KnownSent, KnownCalls, Seen
  <1> QED BY <1>1, <1>2, <1>3, <1>4 DEF SyncInv

LEMMA BindKeeps == ASSUME SyncInv, Bind PROVE SyncInv' /\ registry'.v >= registry.v
  <1>1. /\ registry' = [v |-> registry.v + 1, d |-> binds + 1]
        /\ binds' = binds + 1 /\ edits' = edits
    BY DEF Bind, ApplyNodeBinding
  <1>2. registry \in Config /\ binds \in Nat /\ edits \in Nat
        /\ (edits = 0 => registry.v = binds)
    BY DEF SyncInv, Known
  <1>3. /\ registry' \in Known' /\ (edits' = 0 => registry'.v = binds')
        /\ registry'.v >= registry.v
    BY <1>1, <1>2 DEF Known, Config
  <1>4. Later
    BY <1>1, <1>2 DEF Later
  <1>5. Message("config", registry') \in KnownSent'
    BY <1>3, <1>4 DEF Known, Config, KnownSent, Sent, Message
  <1>6. toNode' \in Seq(KnownSent')
    <2>1. toNode \in Seq(KnownSent')
      BY <1>4, KnownLater DEF SyncInv
    <2> QED BY <1>5, <2>1, Queues DEF Bind
  <1> QED BY <1>3, <1>4, <1>6, KnownLater DEF Bind, SyncInv, Later, process, edge

LEMMA AdminKeeps == ASSUME SyncInv, AdminReads \/ AdminSaves PROVE SyncInv'
  <1>1. CASE AdminReads
    BY <1>1 DEF AdminReads, SyncInv, Known, Versions, KnownSent, KnownCalls, Seen, process, edge
  <1>2. CASE AdminSaves
    <2>1. Later /\ edits' # 0
      BY <1>2 DEF AdminSaves, SyncInv, Later
    <2>2. registry' \in Known' /\ editor' \in Known'
      <3>1. registry' \in Known /\ editor' \in Known
        BY <1>2, Built DEF AdminSaves, SyncInv
      <3> QED BY <2>1, <3>1, KnownLater
    <2> QED BY <1>2, <2>1, <2>2, KnownLater DEF AdminSaves, SyncInv, Later, process, edge
  <1> QED BY <1>1, <1>2

LEMMA SyncInvNext == SyncInv /\ [Next]_vars => SyncInv'
  <1> SUFFICES ASSUME SyncInv, [Next]_vars PROVE SyncInv'
    OBVIOUS
  <1>1. CASE UNCHANGED vars
    BY <1>1, StillInv DEF vars, cloud, process, edge, SyncInv, Still
  <1> QED BY <1>1, CallKeeps, EdgeKeeps, RecordKeeps, BindKeeps, AdminKeeps DEF Next

LEMMA SyncInvAlways == Spec => []SyncInv
  <1>1. Init => SyncInv
    <2> SUFFICES ASSUME Init PROVE SyncInv
      OBVIOUS
    <2>1. binds = 0 /\ edits = 0 /\ 0 \in Nat
      BY DEF Init
    <2>2. NoConfig \in Known /\ NoConfig.v = 0
      BY <2>1 DEF NoConfig, Known, Config
    <2>3. Idle \in KnownCalls
      BY <2>1 DEF Idle, KnownCalls, Call
    <2> QED BY <2>1, <2>2, <2>3, Queues DEF Init, SyncInv
  <1> QED BY <1>1, SyncInvNext, PTL DEF Spec

(* A command that the node accepts was prepared against the mapping it has,  *)
(* until an admin client writes back a registry (ensureNodeConfigReady,      *)
(* applyNodeBinding, handleCommand).                                         *)
THEOREM OneMappingPerVersion == Spec => []AcceptedMeansSameMapping
  <1>1. SyncInv => AcceptedMeansSameMapping
    <2> SUFFICES ASSUME SyncInv, edits = 0, NEW i \in 1..Len(toNode), Accepts(toNode[i])
                 PROVE  toNode[i].d = node.d
      BY DEF AcceptedMeansSameMapping
    <2>1. toNode[i] \in KnownSent
      BY Queues DEF SyncInv
    <2> QED BY <2>1 DEF SyncInv, KnownSent, Known, Accepts
  <1> QED BY <1>1, SyncInvAlways, PTL

(* No report lowers the registry's version, however late it arrives: only    *)
(* an admin client does (syncRegistryConfigVersionIfBehind).                 *)
THEOREM ReportsNeverLower == Spec => RegistryOnlyGrows
  <1>1. ASSUME SyncInv, [Next]_vars PROVE registry'.v >= registry.v \/ AdminSaves
    <2>1. registry.v \in Nat
      BY <1>1 DEF SyncInv, Known, Config
    <2>2. ASSUME NEW c \in Callers, CallStep(c) PROVE registry' = registry
      BY <2>2 DEF CallStep, Ready, StartPublish, StartPoll, Published, PublishFailed, Polled,
                  GiveUp, cloud
    <2>3. ASSUME \/ HandleMismatch \/ MismatchPublished \/ CooldownEnds \/ DeliverConfig
                 \/ DeliverCommand \/ Beat \/ NodeConnects \/ NodeDrops \/ LoseMessage
                 \/ Restart \/ AdminReads \/ UNCHANGED vars
          PROVE  registry' = registry
      BY <2>3 DEF HandleMismatch, MismatchPublished, CooldownEnds, DeliverConfig,
                  DeliverCommand, Beat, NodeConnects, NodeDrops, LoseMessage, Restart,
                  AdminReads, vars, cloud
    <2> QED BY <1>1, <2>1, <2>2, <2>3, RecordKeeps, BindKeeps DEF Next
  <1> QED BY <1>1, SyncInvAlways, PTL DEF Spec, RegistryOnlyGrows
=============================================================================
