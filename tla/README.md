# Verification of the embodied agent

This directory holds TLA+ models of the embodied agent, the TLC
configurations that check them on small instances, and proofs checked by TLAPS.

The agent is a cloud API (TypeScript, `apps/api` and `packages/*`) that turns
messages of a user into commands for physical devices (vents, pumps), and
firmware (C++, `firmware/scene-node`) for the Scene Nodes that switch them.
They talk over MQTT at QoS 0.

## Inventory

| Component | Source | State | Operations | What makes it correct |
|---|---|---|---|---|
| Command store | `apps/api/src/commands/command-store-port.ts`, `store-transitions.ts`, `store-file.ts`, `store-sqlite.ts` | a record per command: status, `sent_at`, retries, configuration attempts | create, mark sent / failed / timed out, count a retry or an attempt, apply an event, list unsent and awaiting, find the command in flight on a device | an outcome is final; one command in flight per device |
| Command request | `apps/api/src/skills/physical/publish-physical-command.ts`, `commands/publish-prepared.ts` | one coroutine per request | dispatchability, lock, in-flight query and creation, direct executor, configuration, publish | reserves before it publishes; publishes once |
| Lifecycle watcher | `apps/api/src/commands/watcher.ts` | a timer, and ticks that may overlap | publish what is unsent, resend or time out what is not acknowledged | the retry budget; nothing stays sent for ever |
| Coordination lock | `apps/api/src/fs/file-lock.ts`, `packages/platform/src/file-lock.ts`, `apps/api/src/state/redis-lock.ts` | a file or a key | acquire, reclaim, release | mutual exclusion; nobody is locked out |
| MQTT client and event handling | `packages/node/src/mqtt/client.ts`, `apps/api/src/mqtt/*` | connection | publish with a timeout; check and apply events | a publish's result says nothing about delivery |
| Scene Node commands | `firmware/scene-node/src/node_cmd.cpp` | `gPending`, one command | accept, refuse, start, complete | starts a command once; reports what happened |
| Scene Node outputs | `firmware/scene-node/src/node_gpio.cpp` | `gActive`, deadlines, inputs | start, stop, emergency stop, local timeout | an output goes off in time |
| Node configuration | `packages/node/src/nodes/config-sync.ts`, `publish-node-config.ts`, `node_config.cpp` | registry, applied version, publish in flight, cooldown | bind, publish, apply, report, wait | a version names one mapping; both sides come to agree |
| Registry, install codes, tokens | `packages/node/src/nodes/{registry,install-codes,tokens}.ts`, `node_reg.cpp` | nodes, codes, tokens | pair, register, bind | a code gives one token; node and platform have the same |
| Pending confirmation and chat pipeline | `apps/api/src/policy/pending-*.ts`, `packages/chat-runtime/src/pipeline.ts`, `apps/api/src/skills/router.ts` | a row per conversation, in a file or Redis | ask, confirm, cancel, refresh, expire | what was answered or is too old is not executed; no ask is lost or guessed |
| Safety guard | `packages/safety/src/guard.ts` | none | decide | never allows what a rule forbids |
| Hooks, outcomes, notifications | `apps/api/src/scene/*`, `commands/notify.ts` | pending windows, outcomes, bounded memory of pushes | run on an outcome, push, evaluate later | a push does not repeat; a window settles; notified means told |
| Alerts | `apps/api/src/alerts/*` | cooldowns, reservations, episodes | evaluate, reserve, send, confirm | one message per cooldown or episode; none kept back for ever |

How they interact. A request creates a record under the device's lock and
publishes the command; the watcher reads and writes the same records from its
own timer; the node's events arrive on a third path and write them too. None
of the three waits for another: what one read before an `await` may have
changed after it. The store survives a restart of the API, the requests and
ticks do not. The node remembers nothing of its commands across a reboot, and
one command at a time while it runs. A command may be published only with the
configuration version that the node reported, which comes through two other
connections. An outcome starts the hooks, a message to the user, a push, and a
window after which the outcome of a scene is evaluated again. Beside commands,
telemetry and a timer evaluate alerts, which share a file of cooldowns; the
user's confirmations are rows in a file or in Redis.

What is hard, and where it bites, is listed under "hazards" in
`PROJECT.json`: overlapping ticks, evaluations and notifications, writes after
an await, publishes and posts whose result says nothing, events after an
outcome, crashes between two writes, counters that wrap, leases that expire.

## Plan

Written:

1. `CommandStore`, `CommandLifecycle`, `Resends`, `DeviceReservation`,
`CommandLifecycleProofs`: a command from the request to its outcome. 2.
`FileLock`, `RedisLock`, `CoordinationLock`, `CoordinationLockProofs`: the
lock it relies on. 3. `ConfigSync`, `ConfigSyncProofs`: the version a command
carries. 4. `SceneNode`, `SceneNodeProofs`: the outputs under the node's
clock. 5. `Confirmation`, `ConfirmationProofs`: what the user is asked before
a command. 6. `Onboarding`, `OnboardingProofs`: how a node gets its token. 7.
`Alerts`, `AlertsProofs`: messages that nobody asked for. 8.
`CommandOutcomes`, `CommandOutcomesProofs`: what follows an outcome.

Left, in this order: the theorems of the other type invariants; what Redis
keeps of `AskKept` when no process crashes and no write is lost; the poll loops
of the WeChat bridge and their restart; the pending clarification; the copies
that the SQLite store returns.

## The modules

### CommandStore

Every operation of the store is synchronous and touches one record, so each is
an operator from record to record. A record keeps `status`, `age`, `retries`
and `attempts`. `age` is the time since `sent_at` in units of 5 s that
saturates at the ack timeout; the code computes it from `sent_at` when it
needs it. A command that was never created has status `none`.

### CommandLifecycle

| Variable | Code |
|---|---|
| `rec` | the command store |
| `router[c]` | the await at which `publishPhysicalCommand` is for `c` |
| `tick[t]` | where a tick of the watcher is: loop, await, list left, current record, and its `now` less each `sent_at` |
| `toNode`, `toCloud` | MQTT messages in flight, first in first out |
| `pending` | `gPending` of the node |
| `starts` | history: how often `nodeGpioStart` succeeded for each command |
| `restarts` | API restarts, bounded |

One action is the code between two awaits:

- request: `Refuse`, `Reserve` (the critical section under the device's lock),
  `ExecutorReturned` / `ExecutorThrew`, `MqttUnavailable`, `Prepare`,
  `PrepareFailed`, `Publish`, `PublishResolved` / `PublishThrew`;
- tick: `TickStart`, `TickReject`, `UnsentPrepare`, `AwaitingStart`,
  `AckTimedOut`, `AckNotDue`, `AckRetry`, `TickPrepareFailed`, `TickPublish`,
  `UnsentPublished`, `RetryPublished`, `TickPublishThrew`, `TickEnd`;
- node: `NodeReject`, `NodeStart`, `NodeRunAtOnce`, `NodeStartFails`,
  `NodeComplete`, `NodeReboot`;
- the rest: `HandleEvent`, `LoseCommand`, `LoseEvent`, `TimePasses`, `Restart`.

Abstractions:

- One Scene Node and one deployment. Nodes share only the watcher.
- The node's checks other than "busy" and the token (expiry, emergency stop,
  manual override, configuration version, device, action, duration) may
  refuse any command. So may dispatchability and configuration in the cloud.
- A publish reaches the broker or not, and resolves or throws, independently.
- The retry loop lists in any order; the code lists in insertion order.
- The configuration version put in the command, execution source, telemetry
  snapshots, hooks and notifications are not kept: no property reads them.
- A command event passes the identity check: the node copies the identifiers
  of the command it received.
- The store is the file store, whose lists hold the live rows. With SQLite the
  rows are copies, so a tick may act on an older row; the operations check
  the status of the fresh one in both.
- An exception of the registry, which would end a tick early, and a
  connection that never ends are left out.

### Resends

`CommandLifecycle` with one history variable, `spent`: the publications of each
command by the watcher's second loop, less those that ended uncounted.
`Publishing(c)` are the ticks at the await of such a publication. The code
counts a resend after it, and only while the record is sent
(`recordCommandRetry`), so one whose publish threw, whose record was taken
further meanwhile, or whose process stopped is never counted (`Uncounted`).
Publications by the first loop, of a command that was never marked sent, are
not resends.

### DeviceReservation

The store's promise to its callers: a command reserves its device if no other
command holds it, and is resolved once. `CommandLifecycle` implements it with
`outcome` mapped to "unknown" (no record), "pending" (in flight) or the
terminal status.

### FileLock

`file` is what is at the lock path, `pc` the next system call of each caller,
`alive` the pids in use. `procOf` and `reuse` are the deployment: chosen at the
start and never changed. A caller is a call site of `withFileLock` or, if in
`SyncCaller`, of `withFileLockSync`. `Runs` expresses Node.js: the callers of
one process take turns, and a turn ends at an await only (that of `fn`);
processes interleave between any two calls. Reading the file, `kill(pid, 0)`
and the comparison of the age are one step; the comment on `Stale` says why
that hides nothing. All processes see the same pids, which holds on one host
and not between containers.

`CommandLifecycle` relies on this lock: `Reserve` is atomic. With one API
process `OneProcessMutex` justifies that; with several, only Redis does, for
sections shorter than the lease.

### RedisLock

`key` is the key with its owner's token and what is left of its time, `wire`
the requests on their way, `stage` each call, `held` the time since the server
granted it. Each call has a token of its own (16 random bytes), so tokens are
calls. `SetThrew`, `DelThrew` and `LoseRequest` are the connection's failures,
each before or after the server executed the request. The server's clock and
the callers' are taken to run at one pace.

### CoordinationLock

`withFileLock` of the API as its callers see it: `backend` is `STATE_BACKEND`,
and every step is one of `FileLock` or of `RedisLock` accordingly.

### ConfigSync

One node. `registry` is its entry in `device-registry.json`, `applied` what it
reported last, `cooling`, `inFlight`, `mismatch` and `call` are the memory of
`config-sync.ts` (a call of `ensureNodeConfigReady` publishes, then polls);
`toNode`, `events` and `beats` are three connections, each in order; `retained`
is the broker's copy, `node` and `online` the firmware. `Bind`, `AdminReads`
and `AdminSaves` are the routes that change the registry, `HandleApplied`,
`HandleBeat` and `HandleMismatch` the handlers, `Ready` to `GiveUp` the turns
of a call, `CrashInRecord` a crash between the writes of two files. A
configuration is its version and the number of the binding that made its
mapping, which is all that tells two apart.

### SceneNode

`millis` wraps at `Width`. `pins`, `load` (`gActive`) and `pending`
(`gPending`) are the three records that must agree. `LoopPass` is an iteration
of the main loop (connection, command loop, output loop); `lag` is how late it
may be; `ran`, `high` and `wrapped` are history, measured without a counter.
The emergency stop and the manual override are one input, `hold`.

### Confirmation

One user. `memory[r]` is the Map of process `r`, `shared` the file or the keys
in Redis, `requests[r]` what a process has sent to Redis and is served in
order: rows written and removed, and for a message a scan of the keys followed
by one request per key (`NextRead`), between which other requests are served. A
request may fail (`RequestFails`): a write is then lost and only logged, a
message whose read fails is not handled. A message is received, reads Redis
(`Refresh`), resolves which ask it
answers (`Resolve`), clears it and, after the await of the connection, executes
it (`Execute`) or not (`ConnectFails`). The record `task[m]` also keeps what was
settled, expired and open when the message came: the properties are about
messages that come later.

### Onboarding

One node, the administrator and the API. `codes` and `issued` are the files,
`status` the registry, `retained` and `mail` the pairing topic, `saved` the
node's flash. A post is a member of `requests` with its stage in the handler
and whether the node still waits for it: a post that was given up may arrive
late (`overtaken` remembers that one was handled after a later one). An active
node may be registered again by whoever presents its token (`nodes.ts` 74-91
and 103-108, with tests in `nodes.test.ts` 290-302 and 349-389): it stays
active and gets a new token (`replaced`). The firmware posts no token, so this
is a client that has it, `Reregister`, one call at a time.

### Alerts

`breach` and `node` are the world, which changes at any time; `fired` and
`reserved` are `alert-cooldown.json`, `episode` is
`sustained-anomaly-state.json`, `run[e]` an evaluation with its key and stage.
Times are ages that saturate where no comparison tells more. One action is a
locked section or the code between two awaits. What a send returns says
little: `sendProactiveWechatText` takes every error for a failure, so a
message may arrive and its reply be lost (`ReplyLost`, a counted fault); then
the next channel or recipient is tried, or the reservation released. `repeats`
and `alarms` count the messages that arrive; the level-two message of a
sustained episode and the recovery of a node have keys of their own.

### CommandOutcomes

One process, one turn at a time. `Ends` is any code that gives a command its
outcome and dispatches its hooks; `tell[c][i]` is a call of
`notifyCommandStatusChange`, `push[c]` a push that a hook started, `sentKeys`
the bounded order of keys. A tick of the scheduler is a turn of several
writes, so only a crash divides it.

## The runs

These use `MCCommandLifecycle`, `overlap` with `Resends` around it
(`MCResends`):

| Run | Question | Instance |
|---|---|---|
| `overlap` | `ActuatedAtMostOnce`, `CompletedWasActuated`, `ConfigAttemptsCapped`, `OutcomeIsFinal`, `ResendsBounded` | 1 command (MQTT), 2 ticks, 1 restart |
| `contention` | `TypeOK`, `OneInFlightPerDevice`, `ReservesDevices` | 2 commands (MQTT and direct executor) for one device, 1 tick |
| `retries` | `SentIsResolved` | 1 command, 1 tick, the code's timeout, interval and retries (3 units, 1 unit, 2), everything may be lost |
| `released` | `DeviceIsReleased` | 1 command, 1 tick, 1 restart, no event lost, no reboot |

The other components have an MC module and a cfg each:

| Run | Question | Instance |
|---|---|---|
| `coordination_lock` | `ExcludesInProcess`, `LeaseMutex`, `ExpiresWithFreshPids`, `FileObtainedAgain`, `KeyIsFreed` | file: 2 asynchronous callers and a synchronous one, in every placement in up to 3 processes, crashes, pids used again or not; Redis: 3 calls, a lease of 2 units |
| `config_sync` | `AcceptedMeansSameMapping`, `RegistryOnlyGrows`, `ComesToAgree` | 2 callers, 2 bindings, 1 registry written back, 1 fault, 1 message per connection |
| `scene_node` | `OutputHasCommand`, `OverrunNeedsWrap`, `CompletedIsDone`, `OutputEnds` | 2 channels, pulses of 2 to 4 units (5 asked for), a counter of 10, a loop up to 2 late |
| `confirmation` | `AskKept`, `SettledIsFinal`, `ExpiredNotExecuted`, `NeverGuesses` | 1 process, 2 messages, 2 conversations, 2 asks with a scene skill or none, both backends, 1 fault |
| `onboarding` | `CodeUsedOnce`, `TokenAgrees`, `JoinedForGood`, `NodeJoins` | 2 codes, both may be active, 3 tokens, 3 faults |
| `alerts` | `RepeatsNeedFaults`, `OneAlarmPerEpisode`, `AlertsGetThrough`, `ReturnIsTold` | a rule or a node, the poll and 2 more evaluations, 1 fault |
| `command_outcomes` | `NotifiedWasTold`, `NoPushWhileRemembered`, `WindowKept`, `WindowsSettle` | 2 commands of one device, one of a scene, one notified, a memory of 1 key, 2 attempts, 1 late event each, 1 crash |

One run, `lock_race`, is expected to find a violation, of a comment in
`publish-physical-command.ts`, 117-119: the lock protects the critical section,
also between instances. A lock file is empty until its pid is written, and an
empty file counts as stale, so a second process may remove it.

Other places where the documentation and the code part, met while modelling.
No run shows them; where a model includes one, the property it would break is
stated so that it holds:

- `command-protocol.zh.md` 359, resent at most twice: the timer starts ticks
  while others are at an await, and both count after publishing
  (`watcher.ts` 134); and a resend whose publish threw after the broker had the
  message (200), or whose record has left sent, is not counted at all.
  `ResendsBounded` says what the code does guarantee.
- 365, a duplicate of the running command is answered with its state: the node
  rejects it as busy (`node_cmd.cpp` 203), and the cloud closes the command.
- 162, sent comes before acknowledged and running: `markCommandSent` refuses
  terminal records only (`command-store-port.ts` 124), and the watcher's copy
  may resolve after the node's events.
- 176, a direct command is sent before the call: it stays created during it
  (`publish-physical-command.ts` 161), so the watcher may fail it.
- 209, running is reported when the action has begun: the node publishes it
  before `nodeGpioStart`, which may fail.
- `env-keys.zh.md` 357, a lock file expires after `FILE_LOCK_STALE_MS`: not
  while its pid is in use, by whomever (`file-lock.ts` 75).
- The comment of `notify.ts` 69 speaks of a next round that sends again:
  there is none; only a late event notifies again.

And what the models show of the code with no document to compare it with: with
Redis a refresh may bring back a row that another message has just cleared
(`pending-confirm.ts` 193), hence `SettledIsFinal` for the file backend; two
confirmations that overlap within one await may both execute. An output may
outlast its duration, if the counter wraps before the loop has looked at its
deadline, hence `OverrunNeedsWrap`; and an output whose deadline `millis() +
duration` itself wraps is cut off in the next pass, online or not, because
`nodeGpioLoop` (`node_gpio.cpp` 205) compares with the wrapped deadline, while
`nodeCmdLoop` reports the command completed when its duration is over: the
exception in `CompletedIsDone`. A node whose registration was answered in vain
and that is then bound cannot register again (409), hence `Stranded` in
`NodeJoins`; and an active node that a client registers again is left with a
token that is no longer valid, hence `replaced` in `TokenAgrees` and
`JoinedForGood`.

Bounds. `CommandBound` and `EventBound` limit the messages in flight: two
commands are enough for a resend to follow an original, and three events are
the most one command emits, so a whole life may wait behind the cloud.
`AckTimeout`, `RetryInterval`, `MaxRetries` and `MaxConfigAttempts` are 15 s,
5 s, 2 and 3 in the code; the larger runs scale them down to the least values
with a retry before the timeout and an attempt before the cap. Two ticks are
the least that overlap; more would only repeat their steps. For the locks,
three callers are enough for one to remove a lock that the second has lost to
the third; an age or a lease of one or two units tells before from after.

In `config_sync` two bindings give an old and a new version on every
connection, and two callers meet at the flag of the publish in flight; a
connection of one message still reorders against the other two. In
`scene_node` the counter wraps in the middle of every kind of pulse and is
longer than a pulse and the loop's delay, as 2^32 ms is; the request of 5
units is clamped. `confirmation` has the least rows, messages and
conversations for an answer to find another ask than the one it meant. It has
one process, which crashes and starts again with what Redis or the file holds;
the module allows several with Redis, which exceed the time of a run.
`onboarding` has a code that the node was given and one that it is given while
the first is still good; three faults are a lost answer, a post that arrives
after the next and a crash. One client that presents the token at a time, as often as codes last, is enough
for a token to be replaced while a post of the node is on its way. In `alerts`
a reservation and a cooldown of 2 and 3 units let an evaluation be within
both, between, and beyond; rules and nodes have separate keys, so one of
either is looked after at a time. `command_outcomes` needs a second command to
evict the first one's key or to share its device.

Fairness. `CloudFairness` is weak fairness of each request's next step, of
each tick's next step and of time. The code justifies it: the waits for a
configuration are bounded (800 and 300 ms), so is a publish once connected (5
s), and `setInterval` keeps firing. Nothing is assumed of the broker or the
node. `ReliableSpec`, for `released`, adds that the node and the event handler
go on, that no event is lost, that the node does not reboot, and that the
broker does not refuse every publish of a tick. Without these
`DeviceIsReleased` does not hold: a command in `acknowledged` or `running` has
no timeout, so a completion that is lost blocks its device until someone
intervenes.

`FairLockSpec` assumes, for the file, that processes run, that what is done
under the lock ends (a synchronous function, or awaits that are bounded), that
callers come back, as the timers and requests of the API do, and that writing
the pid does not fail for ever; for Redis only that time passes.

`ConfigSync!FairSpec`: handlers, connections and the node's loop go on, a
cooldown ends, calls end by their deadline and new ones start, as the watcher
repeats a command that waits. Bindings, edits and faults are bounded, so they
end. `SceneNode!FairSpec`: the loop runs and time passes; strong fairness of a
connected pass that is due says that the broker can be reached again and
again. `Onboarding!FairSpec`: the administrator pairs the node again while it
has no token, codes expire, and calls end. `Alerts!FairSpec`: time passes, so
the poll begins again, evaluations go on, and not every send fails.
`CommandOutcomes!FairSpec`: the poll ticks, a turn ends, and the time of a
window comes. `Confirmation` has safety properties only: nothing obliges a
user to answer.

## The proofs

For every value of the constants that meets the assumptions of its module
(`StoreConstants`, `LifecycleConstants`, `FileLockConstants`,
`RedisLockConstants`, `ConfigBounds`, `NodeConstants`, `OnboardingConstants`,
`OutcomeConstants`, `AlertConstants`, `ConfirmationConstants`):

| Theorem | States | Argument |
|---|---|---|
| `TypeCorrect` | `TypeOK` always | `TInv`: besides types, a tick at an await has a current command, and every record is `Sound` |
| `AttemptsCapped` | `ConfigAttemptsCapped` always | a part of `Sound`, needed for types too: an open record below the cap cannot count past it |
| `MutualExclusion` | `OneInFlightPerDevice` always | `RInv`: no operation takes a record from closed to in flight (`Moves`), and `Reserve` creates only when the device is free; that needs that a request that has not begun has no record |
| `Finality` | `OutcomeIsFinal` | `Moves` again |
| `Implementation` | `ReservesDevices` | every step changes at most one status (`OneChanges`): `Reserve` maps to a reservation, the others to a resolution or a stutter |
| `StartedOnce` | `ActuatedAtMostOnce` always | `AInv`: per command there is at most one signed message on the wire, none while the request may still publish or after a start |
| `CompletionIsReal` | `CompletedWasActuated` always | `CInv`: a completed event on the wire, or a pending command of the node, is of a command that was started; a direct executor is at work only on a direct command |
| `OneProcessMutex` | `ExcludesInProcess` always | `LockInv`: whoever holds the lock finds its own file at the path, with a live pid once it works; nobody is about to remove a file while another holds. It is inductive only if all callers are of one process |
| `LeaseExclusion` | `LeaseMutex` always | `LeaseInv`: during its lease the key bears the holder's token and expires with the lease; requests on the wire are of calls that do not have the lock |
| `ResendsAreBounded` | `ResendsBounded` always, for `ResendsSpec`, if the ticks are finitely many and not none | `BInv`: the resends counted, and the ticks that have decided to resend and have not counted yet, are together at most `MaxRetries` and the number of ticks less one, as one decides only when the count it reads is below `MaxRetries`. `SInv`: the resends spent are at most those counted and those being published |
| `LockFileExpires` | `ExpiresWithFreshPids` | `FileInv` of `CoordinationLockProofs`: while no pid is used again, the file is of a caller that holds the lock, or of a process that is gone |
| `ChosenLockExcludes` | the three theorems of the locks, of `LockSpec` | `ChosenLock`: a step of the chosen lock is one of its module and a stutter of the other |
| `RepeatsBounded` | `RepeatsNeedFaults` always | `RepeatInv`: while no evaluation is late, a reservation is its evaluation's alone and not older than it (`HeldInv`), and a message that arrived and is not on record has cost a fault that no repeat has used (`DebtInv`) |
| `AlarmsBounded` | `OneAlarmPerEpisode` always | `AlarmInv`: as long as the episode's row may still call for an alarm, there is one less; holds with late evaluations too |
| `NoneExpired` | `ExpiredNotExecuted`, either backend, any processes | `ExpiryInv`: what a message is about to execute had not expired when it came. Types need `QueueInv`: a read on its way is the only one of its message |
| `AsksAreKept` | `AskKept` always | `FileInv` of `ConfirmationProofs`: one process runs, its memory and the file differ in expired rows only (`OneProcess`), every open ask has its row (`OpenInv`) and each ask one row (`RowsInv`) |
| `SettledOnce` | `SettledIsFinal` | `MessageInv`: a row that is found is stored, so not settled (`RowsInv`) |
| `OneOfOne` | `NeverGuesses` | `MessageInv`: what was open when a message came is in memory until it is gone, so `Choice` sees it; `OpenNeedsFile` says that other backends note nothing |
| `AlertsTyped`, `ConfirmationTyped` | `TypeOK` of the two modules always | a part of their invariants |
| `OneMappingPerVersion` | `AcceptedMeansSameMapping` always | `SyncInv`: until a registry is written back, every configuration anywhere (files, connections, broker, node, calls) has one number for version and mapping, at most that of the last binding |
| `ReportsNeverLower` | `RegistryOnlyGrows` | the same invariant for the types; `Record` raises or leaves the version |
| `OutputsAreHeld` | `OutputHasCommand` always | `NodeInv`, part `Held`: pins, `gActive` and `gPending` agree on the channel |
| `InTimeWithoutWrap` | `OverrunNeedsWrap` always | `NodeInv`, part `InTime`: without a wrap the deadline is start plus duration, and the loop is at most `MaxLag` late |
| `CompletedAreDone` | `CompletedIsDone` | `NodeInv`, parts `Elapsed`: the counter less the start, modulo `Width`, is the time that ran, while that is below `Width`; and `NotEarly`: with a deadline that did not wrap, the output of the pending command is high as long as it runs, up to its duration |
| `OneTokenPerCode` | `CodeUsedOnce` always | `CodeInv`: a code in the file has given no token |
| `JoinsForGood` | `JoinedForGood` | `TokenInv`: once the node has its token no post is waited for, so only a post that presents the token passes the test of `wasActive`, and that one is `replaced` |
| `SameToken` | `TokenAgrees` always | `TokenInv`: at most one post is waited for, it is the one the node is at, and its token is the one issued last unless it was overtaken or replaced |
| `ToldBeforeMarked` | `NotifiedWasTold` always | `ToldInv`: a call whose message arrived is of a user who was told |
| `PushOnce` | `NoPushWhileRemembered` | `PushInv`: what is being sent is in flight, under a key of its own, and not among the keys remembered |
| `WindowsStay` | `WindowKept` | `WindowInv`: during a tick each row of the file is still to be looked at, or is kept, or was evaluated, or is out of attempts |

`ActuatedAtMostOnce` is not inductive: that nothing started yet must be known
of every message that the node could still accept, hence `AInv`. `StoreMoves`
says once what each store operation can do to a record, `RecordsMove` lifts it
to every step, and the first five theorems rest on it. Nor is
`AcceptedMeansSameMapping`: what a node gets next may come from the broker's
copy, a call that polls or the registry itself, so `SyncInv` speaks of all of
them, and `KnownLater` says that a binding leaves what was known known.
`WindowKept` is about two consecutive states, but whether a tick may drop a row
was decided steps before, so `WindowInv` carries it.

The counter of a record, `retries`, is not the number of resends, and no bound
on it is one: `ResendsBounded` counts the publications themselves. The ones that
end uncounted have no bound but the ack timeout (`SentIsResolved`), and the
theorem says that nothing else is beyond the budget but overlapping ticks.

Of `RepeatsNeedFaults` the counter says nothing of why a message may go out
again. A message that arrived and was not confirmed, because of a crash, a
lock that stayed busy or a lost reply, leaves a message that the file of
cooldowns does not know: `DebtInv` keeps one fault in hand for it until it is
repeated or recorded. Evaluations that outlive their reservation are excepted
by the property, not by the theorem's hypotheses.

`AskKept`, `SettledIsFinal` and `NeverGuesses` are about the file backend, where
one process runs; the run has one process with Redis too, and `NoneExpired`
covers any number of them.

Only model-checked: that `SentIsResolved`, `DeviceIsReleased`,
`FileObtainedAgain`, `KeyIsFreed`, `ComesToAgree`, `OutputEnds`, `NodeJoins`,
`AlertsGetThrough`, `ReturnIsTold` and `WindowsSettle` come about under
fairness, which the prover cannot treat. Every other property of the
passing runs is proved.

## Not modelled

- User interface, routes as such, scripts, reports, digests and settings:
  rendering, validation and input or output without a protocol. They are most
  of the repository's lines, which is why the map covers a small share of them.
- The language model, intents, the skill router, merging of clarifications:
  text in, text out. What they decide is an input of the models.
- The safety guard and dispatchability: pure decisions over rules that a domain
  pack supplies. `CommandLifecycle` takes their results as choices.
- Domain packs: plugins; an executor or a plan is a choice of outcomes.
- The telemetry store and the journals: data with a retention. A reading is an
  input.
- Channels and the WeChat bridge, but for a message sent, which is an action
  here, with a reply that may be lost. The bridge's poll loops are in the plan:
  restarting it (`ilink-bridge.ts` 215) sets and clears a flag in one turn,
  which the old loop never sees.
- Accounts and web sessions: outside the control of devices.
- Connection management of the MQTT client, and an exchange with the broker
  that never ends (`client.ts` 55): the models assume that a publish ends.
- An exception that every tick of the outcome scheduler meets again, as a stored
  outcome that cannot be parsed (`outcome-store.ts` 47-52): it ends the tick
  before the rows are rewritten, so no attempt is counted and `WindowsSettle`
  does not hold of it. `CommandOutcomes` has a tick that is cut off (`Crash`),
  boundedly often.
- The SQLite store's copies (`command-store-port.ts` 243): `CommandOutcomes`
  takes the snapshot as kept or not.

`PROJECT.json` gives the status of each component.
