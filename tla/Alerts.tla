------------------------------- MODULE Alerts -------------------------------
(***************************************************************************)
(* What the platform tells users unasked: a threshold rule that is         *)
(* breached (alerts/push.ts), or breached for long (sustained-push.ts),    *)
(* and a node that went offline or came back (offline-push.ts).            *)
(*                                                                         *)
(* An evaluation reads the world once and then works through the rules     *)
(* and the nodes.  Before each message it reserves the message's key in    *)
(* alert-cooldown.json, after it it confirms or releases the reservation   *)
(* (alert-state.ts).  Evaluations overlap: the poll has a lock of its own, *)
(* but every telemetry message starts one too, and a reservation carries   *)
(* no owner.  It expires after TTL, a confirmed message after Cooldown.    *)
(***************************************************************************)
EXTENDS Integers, FiniteSets

CONSTANTS Rules,        \* threshold rules
          Nodes,        \* Scene Nodes
          Host,         \* [Rules -> Nodes]: the node of the rule's entity
          Watches,      \* sets of rules and nodes a deployment may look after
          Poll,         \* the evaluation of the 60 s timer, one at a time
          Triggered,    \* evaluations that a message or a request starts
          TTL,          \* reservationTtlMs, l1ReservationTtlMs
          Cooldown,     \* seconds between messages of one key
          MinStreak,    \* sustainedMinMinutes, in evaluations
          MaxRun,       \* bound: the time an evaluation may take
          MaxFaults     \* bound: crashes, busy locks, lost replies, evaluations
                        \* beyond TTL

ASSUME AlertConstants ==
  /\ Host \in [Rules -> Nodes] /\ Watches \subseteq SUBSET (Rules \union Nodes)
  /\ Rules \intersect Nodes = {}
  /\ Poll \notin Triggered /\ IsFiniteSet(Triggered)
  /\ TTL \in Nat \ {0} /\ Cooldown \in Nat \ {0} /\ MinStreak \in Nat \ {0}
  /\ MaxRun \in Nat /\ MaxFaults \in Nat

VARIABLES
  sustained,  \* SUSTAINED_ALERTS and a pack with proactive alerts: fixed
  watch,      \* the rules and the nodes of the deployment: fixed
  breach,     \* [Rules -> the last telemetry breaches the rule]
  node,       \* [Nodes -> "unheard", "online" or "offline"]
  fired,      \* last_fired: [Keys -> its age, or Never]
  reserved,   \* pending_reservations: [Keys -> its age, or Never]
  episode,    \* sustained-anomaly-state.json: [Rules -> a row, or NoRow]
  run,        \* [Evaluations -> the evaluation]
  told,       \* [Keys -> age of the start of the last one that sent it; an
              \* outage that was told to be over counts no more]
  repeats,    \* [Keys -> messages of it within the cooldown]
  alarms,     \* [Rules -> first messages sent in the present episode]
  late,       \* an evaluation has outlived its reservations
  faults

config == <<sustained, watch>>
world == <<config, breach, node>>
file == <<fired, reserved>>
ghosts == <<told, repeats, alarms, late>>
vars == <<world, file, episode, run, ghosts, faults>>

-----------------------------------------------------------------------------
Evaluations == {Poll} \union Triggered

\* thresholdAlertKey and what is put before it; two keys of each node.
Keys == ({"threshold", "l1", "l2"} \X Rules) \union ({"offline", "recovery"} \X Nodes)
NoKey == <<"none", "none">>

\* Ages saturate: beyond its limit an age tells no evaluation more.
Never == -1
Older(age, limit) == IF age \in {Never, limit} THEN age ELSE age + 1
Expiry == TTL + MaxRun
Long == Cooldown + MaxRun

Rows == [streak : 1..MinStreak, l1 : BOOLEAN, hold : Never..Expiry, l2 : BOOLEAN]
NoRow == [streak |-> 0, l1 |-> FALSE, hold |-> Never, l2 |-> FALSE]

Stages == {"idle", "loop", "l1", "episode", "send", "confirm", "release", "clear",
           "markL1", "releaseEpisode", "l2", "markL2"}
Runs == [at : Stages, todo : SUBSET (Rules \union Nodes), key : Keys \union {NoKey},
         age : 0..MaxRun]
Idle == [at |-> "idle", todo |-> {}, key |-> NoKey, age |-> 0]

\* The time an operation on a key takes for now, as an age: the evaluation's
\* start for the rules, Date.now() for the nodes.
Now(e, k) == IF k[1] \in {"offline", "recovery"} THEN 0 ELSE run[e].age

\* shouldSkipThresholdAlertForEntity
Skipped(r) == node[Host[r]] # "online"

\* What the evaluation looks at next: the rules, then the nodes.
Next1(e) == LET rules == run[e].todo \intersect Rules
            IN  IF rules # {} THEN rules ELSE run[e].todo

At(e, where) == run[e].at = where
Looks(e, s) == At(e, "loop") /\ s \in Next1(e)

Goes(e, where, todo, key) ==
  run' = [run EXCEPT ![e] = [at |-> where, todo |-> todo, key |-> key, age |-> @.age]]
Moves(e, where) == Goes(e, where, run[e].todo, run[e].key)
PassOver(e, s) == Goes(e, "loop", run[e].todo \ {s}, NoKey)
Done(e) == PassOver(e, run[e].key[2])

Init ==
  /\ sustained \in BOOLEAN /\ watch \in Watches
  /\ breach = [r \in Rules |-> FALSE]
  /\ node = [n \in Nodes |-> "unheard"]
  /\ fired = [k \in Keys |-> Never] /\ reserved = [k \in Keys |-> Never]
  /\ episode = [r \in Rules |-> NoRow]
  /\ run = [e \in Evaluations |-> Idle]
  /\ told = [k \in Keys |-> Never] /\ repeats = [k \in Keys |-> 0] /\ alarms = [r \in Rules |-> 0]
  /\ late = FALSE /\ faults = 0

-----------------------------------------------------------------------------
(* alert-state.ts: each of these is one section under the cooldown's lock *)

\* As if a reservation lasted until someone removed it.
Expired_Never(age, now) == age = Never

Expired(age, now) == age = Never \/ age - now >= TTL

CoolAgain(age, now) == age = Never \/ age - now >= Cooldown

\* As if the pending reservations were not looked at.
MayReserve_AlsoPending(k, now) == CoolAgain(fired[k], now)

\* reserveAlertCooldown: whether it writes a reservation.
MayReserve(k, now) == Expired(reserved[k], now) /\ CoolAgain(fired[k], now)

Reserve(k, now) ==
  reserved' = [x \in Keys |-> IF x = k THEN now
                              ELSE IF Expired(reserved[x], now) THEN Never
                              ELSE reserved[x]]

\* confirmAlertFired
ConfirmFired(k, now) ==
  /\ fired' = [fired EXCEPT ![k] = now]
  /\ reserved' = [reserved EXCEPT ![k] = Never]

\* releaseAlertReservation
ReleaseReservation(k) == reserved' = [reserved EXCEPT ![k] = Never]

\* clearAlertCooldown
ClearCooldown(k) ==
  /\ fired' = [fired EXCEPT ![k] = Never]
  /\ reserved' = [reserved EXCEPT ![k] = Never]

-----------------------------------------------------------------------------
(* An evaluation *)

\* runAlertPollTick under its lock, with the rules and then the nodes; else
\* evaluateAndPushAlerts of a telemetry message, which leaves a deployment
\* with sustained alerts to the poll.
Begin(e) ==
  /\ At(e, "idle")
  /\ e = Poll \/ (~sustained /\ watch \intersect Rules # {})
  /\ Goes(e, "loop", IF e = Poll THEN watch ELSE watch \intersect Rules, NoKey)
  /\ UNCHANGED <<world, file, episode, ghosts, faults>>

End(e) ==
  /\ At(e, "loop") /\ run[e].todo = {}
  /\ run' = [run EXCEPT ![e] = Idle]
  /\ UNCHANGED <<world, file, episode, ghosts, faults>>

\* A reservation for subject s: the message is next, or s is passed over.
Attempt(e, s, k, next) ==
  IF MayReserve(k, Now(e, k))
  THEN /\ Reserve(k, Now(e, k))
       /\ Goes(e, next, run[e].todo, k)
  ELSE PassOver(e, s) /\ UNCHANGED reserved

\* evaluateAndPushAlerts, one rule.
EvaluateRule(e, r) ==
  /\ Looks(e, r) /\ r \in Rules /\ ~sustained
  /\ IF breach[r] /\ ~Skipped(r)
     THEN Attempt(e, r, <<"threshold", r>>, "send")
     ELSE PassOver(e, r) /\ UNCHANGED reserved
  /\ UNCHANGED <<world, fired, episode, ghosts, faults>>

\* As if both messages of a node had the cooldown of one key.
EvaluateNode_OneKey(e, n) ==
  /\ Looks(e, n) /\ n \in Nodes
  /\ \/ /\ node[n] = "offline" \/ fired[<<"offline", n>>] # Never
        /\ Attempt(e, n, <<"offline", n>>, "send")
     \/ /\ node[n] # "offline" /\ fired[<<"offline", n>>] = Never
        /\ PassOver(e, n) /\ UNCHANGED reserved
  /\ UNCHANGED <<world, fired, episode, ghosts, faults>>

\* evaluateNodeOfflineAlerts, one node.  wasAlertEverFired is an await of its
\* own; only the poll writes these keys.
EvaluateNode(e, n) ==
  /\ Looks(e, n) /\ n \in Nodes
  /\ \/ node[n] = "offline" /\ Attempt(e, n, <<"offline", n>>, "send")
     \/ /\ node[n] # "offline" /\ fired[<<"offline", n>>] # Never
        /\ Attempt(e, n, <<"recovery", n>>, "send")
     \/ /\ node[n] # "offline" /\ fired[<<"offline", n>>] = Never
        /\ PassOver(e, n) /\ UNCHANGED reserved
  /\ UNCHANGED <<world, fired, episode, ghosts, faults>>

\* tickSustainedEpisode, which a rule that is not breached ends with.
TickEpisode(e, r) ==
  LET old == episode[r]
      new == [streak |-> IF old.streak = MinStreak THEN MinStreak ELSE old.streak + 1,
              l1 |-> old.l1, l2 |-> old.l2,
              hold |-> IF Expired(old.hold, run[e].age) THEN Never ELSE old.hold]
  IN
  /\ Looks(e, r) /\ r \in Rules /\ sustained
  /\ IF Skipped(r) THEN PassOver(e, r) /\ UNCHANGED episode
     ELSE IF ~breach[r] THEN PassOver(e, r) /\ episode' = [episode EXCEPT ![r] = NoRow]
     ELSE /\ episode' = [episode EXCEPT ![r] = new]
          /\ IF new.streak < MinStreak /\ ~new.l1 THEN PassOver(e, r)
             ELSE Goes(e, IF ~new.l1 /\ new.hold = Never THEN "l1" ELSE "l2",
                       run[e].todo, <<"l1", r>>)
  /\ alarms' = [alarms EXCEPT ![r] = IF episode'[r] = NoRow THEN 0 ELSE @]
  /\ UNCHANGED <<world, file, told, repeats, late, faults>>

ReserveL1(e) ==
  /\ At(e, "l1")
  /\ Attempt(e, run[e].key[2], run[e].key, "episode")
  /\ UNCHANGED <<world, fired, episode, ghosts, faults>>

\* reserveSustainedL1Send.  Only the poll writes the rows, so it finds the row
\* as it ticked it.
ReserveEpisode(e) ==
  /\ At(e, "episode")
  /\ episode' = [episode EXCEPT ![run[e].key[2]].hold = run[e].age]
  /\ Moves(e, "send")
  /\ UNCHANGED <<world, file, ghosts, faults>>

\* The message of e arrives.  It is a repeat within the cooldown of the last,
\* or a return with no outage told before it.
Arrives(e) ==
  LET k == run[e].key
      outage == <<"offline", k[2]>>
      repeat == \/ told[k] # Never /\ told[k] - Now(e, k) < Cooldown
                \/ k[1] = "recovery" /\ told[outage] = Never
  IN
  /\ told' = [x \in Keys |-> IF x = k THEN Now(e, k)
                          ELSE IF k[1] = "recovery" /\ x = outage THEN Never ELSE told[x]]
  /\ repeats' = [repeats EXCEPT ![k] = IF repeat THEN @ + 1 ELSE @]
  /\ alarms' = [r \in Rules |-> alarms[r] + IF k = <<"l1", r>> THEN 1 ELSE 0]
  /\ UNCHANGED late

\* The messages to the recipients: one await, and the answer.
SendSucceeds(e) ==
  /\ At(e, "send")
  /\ Arrives(e)
  /\ Moves(e, "confirm")
  /\ UNCHANGED <<world, file, episode, faults>>

\* The message arrives but its reply is lost, which sendProactiveWechatText
\* takes for a failure: the next channel or recipient is tried, and if none
\* succeeds the reservation is released (SendFails).  Or the channel throws.
ReplyLost(e) ==
  /\ At(e, "send") /\ faults < MaxFaults
  /\ Arrives(e)
  /\ run' \in {run, [run EXCEPT ![e] = Idle]}
  /\ faults' = faults + 1
  /\ UNCHANGED <<world, file, episode>>

\* Every attempt returned false.
SendFails(e) ==
  /\ At(e, "send")
  /\ Moves(e, IF run[e].key[1] = "l1" THEN "releaseEpisode" ELSE "release")
  /\ UNCHANGED <<world, file, episode, ghosts, faults>>

AfterConfirm(e) ==
  CASE run[e].key[1] = "l1" -> Moves(e, "markL1")
    [] run[e].key[1] = "l2" -> Moves(e, "markL2")
    [] run[e].key[1] = "recovery" -> Moves(e, "clear")
    [] OTHER -> Done(e)

Confirm(e) ==
  /\ At(e, "confirm")
  /\ ConfirmFired(run[e].key, Now(e, run[e].key))
  /\ AfterConfirm(e)
  /\ UNCHANGED <<world, episode, ghosts, faults>>

\* confirmAlertFiredResilient gives up: logged only.
ConfirmGivesUp(e) ==
  /\ At(e, "confirm") /\ faults < MaxFaults
  /\ AfterConfirm(e)
  /\ faults' = faults + 1
  /\ UNCHANGED <<world, file, episode, ghosts>>

Release(e) ==
  /\ At(e, "release")
  /\ ReleaseReservation(run[e].key)
  /\ IF run[e].key[1] = "l1" THEN Moves(e, "l2") ELSE Done(e)
  /\ UNCHANGED <<world, fired, episode, ghosts, faults>>

\* The outage is over: its key is cleared, for the next one.
ClearOffline(e) ==
  /\ At(e, "clear")
  /\ ClearCooldown(<<"offline", run[e].key[2]>>)
  /\ Done(e)
  /\ UNCHANGED <<world, episode, ghosts, faults>>

\* As if l1_sent_at were not written.
MarkL1_OnlyFree(e) ==
  LET r == run[e].key[2] IN
  /\ At(e, "markL1")
  /\ episode' = [episode EXCEPT ![r].hold = Never]
  /\ Moves(e, "l2")
  /\ UNCHANGED <<world, file, ghosts, faults>>

\* confirmSustainedL1Sent
MarkL1(e) ==
  LET r == run[e].key[2] IN
  /\ At(e, "markL1")
  /\ episode' = [episode EXCEPT ![r].l1 = TRUE, ![r].hold = Never]
  /\ Moves(e, "l2")
  /\ UNCHANGED <<world, file, ghosts, faults>>

\* releaseSustainedL1Reservation
ReleaseEpisode(e) ==
  /\ At(e, "releaseEpisode")
  /\ episode' = [episode EXCEPT ![run[e].key[2]].hold = Never]
  /\ Moves(e, "release")
  /\ UNCHANGED <<world, file, ghosts, faults>>

\* The suggestion that follows the first message of an episode; the domain
\* pack may have none, and every recipient may have it muted (SendFails).
ReserveL2(e) ==
  LET r == run[e].key[2] IN
  /\ At(e, "l2")
  /\ \/ episode[r].l1 /\ ~episode[r].l2 /\ Attempt(e, r, <<"l2", r>>, "send")
     \/ PassOver(e, r) /\ UNCHANGED reserved
  /\ UNCHANGED <<world, fired, episode, ghosts, faults>>

MarkL2(e) ==
  /\ At(e, "markL2")
  /\ episode' = [episode EXCEPT ![run[e].key[2]].l2 = TRUE]
  /\ Done(e)
  /\ UNCHANGED <<world, file, ghosts, faults>>

\* A lock stays busy, a file cannot be written, a send throws: what the
\* evaluation had left to do is not done.
Throws(e) ==
  /\ run[e].at \notin {"idle", "confirm"} /\ faults < MaxFaults
  /\ run' = [run EXCEPT ![e] = Idle]
  /\ faults' = faults + 1
  /\ UNCHANGED <<world, file, episode, ghosts>>

\* The process dies; both files stay.
Crash ==
  /\ faults < MaxFaults
  /\ \E e \in Evaluations : ~At(e, "idle")
  /\ run' = [e \in Evaluations |-> Idle]
  /\ faults' = faults + 1
  /\ UNCHANGED <<world, file, episode, ghosts>>

Evaluate(e) ==
  \/ Begin(e) \/ End(e)
  \/ \E r \in Rules : EvaluateRule(e, r) \/ TickEpisode(e, r)
  \/ \E n \in Nodes : EvaluateNode(e, n)
  \/ ReserveL1(e) \/ ReserveEpisode(e) \/ MarkL1(e) \/ ReleaseEpisode(e)
  \/ ReserveL2(e) \/ MarkL2(e)
  \/ Confirm(e) \/ Release(e) \/ ClearOffline(e)

-----------------------------------------------------------------------------
(* The world *)

\* Telemetry arrives, from a node that is heard.
Telemetry(r) ==
  /\ r \in watch /\ ~Skipped(r)
  /\ breach' = [breach EXCEPT ![r] = ~@]
  /\ UNCHANGED <<config, node, file, episode, run, ghosts, faults>>

\* A heartbeat, or none for heartbeatTimeoutMs.
Heartbeat(n) ==
  /\ node[n] # "online"
  /\ node' = [node EXCEPT ![n] = "online"]
  /\ UNCHANGED <<config, breach, file, episode, run, ghosts, faults>>

GoesOffline(n) ==
  /\ node[n] = "online"
  /\ node' = [node EXCEPT ![n] = "offline"]
  /\ UNCHANGED <<config, breach, file, episode, run, ghosts, faults>>

\* An evaluation that is older than a reservation lives is a fault.
TimePasses ==
  LET busy == {e \in Evaluations : ~At(e, "idle")}
      over == {e \in busy : run[e].age + 1 = TTL}
  IN
  /\ \A e \in busy : run[e].age < MaxRun
  /\ faults + Cardinality(over) <= MaxFaults
  /\ run' = [e \in Evaluations |->
       IF e \in busy THEN [run[e] EXCEPT !.age = @ + 1] ELSE run[e]]
  /\ fired' = [k \in Keys |-> Older(fired[k], Long)]
  /\ reserved' = [k \in Keys |-> Older(reserved[k], Expiry)]
  /\ told' = [k \in Keys |-> Older(told[k], Long)]
  /\ episode' = [r \in Rules |->
       LET row == episode[r]
       IN  [streak |-> row.streak, l1 |-> row.l1, hold |-> Older(row.hold, Expiry), l2 |-> row.l2]]
  /\ late' = (late \/ over # {})
  /\ faults' = faults + Cardinality(over)
  /\ UNCHANGED <<world, repeats, alarms>>

Next ==
  \/ \E e \in Evaluations :
       \/ Evaluate(e) \/ SendSucceeds(e) \/ SendFails(e)
       \/ ReplyLost(e) \/ ConfirmGivesUp(e) \/ Throws(e)
  \/ \E r \in Rules : Telemetry(r)
  \/ \E n \in Nodes : Heartbeat(n) \/ GoesOffline(n)
  \/ Crash \/ TimePasses

Spec == Init /\ [][Next]_vars

\* The timer fires, sends and locks are bounded, and of the messages some get
\* through.
FairSpec ==
  /\ Spec
  /\ WF_vars(TimePasses)
  /\ \A e \in Evaluations : WF_vars(Evaluate(e) \/ SendSucceeds(e) \/ SendFails(e))
  /\ SF_vars(\E e \in Evaluations : SendSucceeds(e))

-----------------------------------------------------------------------------
TypeOK ==
  /\ sustained \in BOOLEAN /\ watch \in Watches /\ breach \in [Rules -> BOOLEAN]
  /\ node \in [Nodes -> {"unheard", "online", "offline"}]
  /\ fired \in [Keys -> Never..Long] /\ reserved \in [Keys -> Never..Expiry]
  /\ episode \in [Rules -> Rows \union {NoRow}]
  /\ run \in [Evaluations -> Runs]
  /\ told \in [Keys -> Never..Long] /\ repeats \in [Keys -> Nat] /\ alarms \in [Rules -> Nat] /\ late \in BOOLEAN
  /\ faults \in 0..MaxFaults

\* As long as no evaluation outlives its reservations, a message is repeated
\* within its cooldown, counted from when the first evaluation began, only
\* because of a crash, a lock that stayed busy or a lost reply, and once for
\* each of them at most, however evaluations overlap.  So is a return that was
\* told before.  (An evaluation that is late may find its reservation expired,
\* and release or confirm another's: nothing is claimed of it here.)
RepeatsNeedFaults == ~late => \A k \in Keys : repeats[k] <= faults

\* The first message of an episode arrives once in it, but for faults (a late
\* evaluation and a lost reply too): each costs one more, and no more.
OneAlarmPerEpisode == \A r \in Rules : alarms[r] <= 1 + faults

\* A rule that stays breached is told, and told again after each cooldown or,
\* with sustained alerts, once in its episode; so is a node that stays
\* offline.  No crash leaves a reservation that keeps a message back for ever.
RuleTold(r) == IF sustained THEN alarms[r] > 0
               ELSE told[<<"threshold", r>>] \in 0..(Long - 1)

NodeTold(n) == told[<<"offline", n>>] \in 0..(Long - 1)

AlertsGetThrough ==
  /\ \A r \in Rules : []<>(r \notin watch \/ ~breach[r] \/ Skipped(r) \/ RuleTold(r))
  /\ \A n \in Nodes : []<>(n \notin watch \/ node[n] # "offline" \/ NodeTold(n))

\* An outage that was told and is on record does not stay so when the node is
\* back: the record is cleared for the next outage and, unless a crash, a busy
\* lock or the like made the records differ, its return is told.
ReturnIsTold ==
  \A n \in Nodes :
    []<>(\/ node[n] = "offline"
         \/ /\ fired[<<"offline", n>>] = Never
            /\ faults = 0 => told[<<"offline", n>>] = Never)

=============================================================================
