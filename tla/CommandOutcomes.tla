-------------------------- MODULE CommandOutcomes ---------------------------
(***************************************************************************)
(* What follows the outcome of a command: the message to the user who gave *)
(* it (commands/notify.ts), the hooks (scene/command-hooks.ts) with their  *)
(* push to the deployment's users, once per completed command or failing   *)
(* device, and the outcome of its scene, evaluated at once and again when  *)
(* its window is over (scene/outcome-scheduler.ts).                        *)
(*                                                                         *)
(* One API process.  It runs one turn at a time; a tick of the scheduler   *)
(* is one turn of several writes, which only a crash divides.  The command *)
(* store, the pending windows and the outcomes survive a crash.            *)
(***************************************************************************)
EXTENDS Integers, SequencesExt

CONSTANTS Command,
          Scene,        \* those that a scene skill gave
          Bound,        \* those of a user with a WeChat binding
          Device,
          DeviceOf,     \* [Command -> Device]
          MaxAttempts,  \* MAX_ATTEMPTS of a window
          DedupMax,     \* POST_IRRIGATION_DEDUP_MAX, DEVICE_EFFICIENCY_DEDUP_MAX
          MaxLate,      \* bound: events after the outcome of a command
          MaxFaults     \* bound: crashes

ASSUME OutcomeConstants ==
  /\ Scene \subseteq Command /\ Bound \subseteq Command
  /\ DeviceOf \in [Command -> Device]
  /\ MaxAttempts \in Nat \ {0} /\ DedupMax \in Nat \ {0}
  /\ MaxLate \in Nat /\ MaxFaults \in Nat

VARIABLES
  status,    \* [Command -> "running", "completed" or "failed", any bad outcome]
  after,     \* [Command -> the record has telemetry of its completion]
  outcome,   \* [Command -> what its row among the outcomes was evaluated from]
  notified,  \* [Command -> notified_status is the outcome]
  rows,      \* scene-outcome-pending.json
  hooks,     \* outcomes whose hooks are being imported
  tell,      \* [Command -> [calls of notifyCommandStatusChange -> their stage]]
  push,      \* [Command -> the stage of the push its hook has started]
  inFlight,  \* postIrrigationInFlight, deviceEfficiencyInFlight
  sentKeys,  \* postIrrigationOrder, deviceEfficiencyOrder
  tick,      \* the turn of the scheduler
  late,      \* [Command -> events after the outcome]
  told,      \* [Command -> the user has got the message]
  crashes

disk == <<status, after, outcome, notified, rows>>
memory == <<hooks, tell, push, inFlight, sentKeys, tick>>
vars == <<disk, memory, late, told, crashes>>

-----------------------------------------------------------------------------
Kinds == {"completed", "failed"}
Stages == {"none", "sending", "arrived"}

\* The first call comes with the outcome, the others with late events.
Calls == 0..MaxLate

Row(c, attempts, due) == [cmd |-> c, attempts |-> attempts, due |-> due]

Waiting(file) == {file[i].cmd : i \in DOMAIN file}

NoTick == [on |-> FALSE, todo |-> <<>>, keep |-> <<>>]

\* The key a push is remembered by: the command, or deviceEfficiencyNotifyKey.
Key(c) == IF status[c] = "completed" THEN c ELSE DeviceOf[c]

Remembered(c) == Key(c) \in ToSet(sentKeys[status[c]])

Init ==
  /\ status = [c \in Command |-> "running"]
  /\ after = [c \in Command |-> FALSE]
  /\ outcome = [c \in Command |-> "none"]
  /\ notified = [c \in Command |-> FALSE]
  /\ rows = <<>>
  /\ hooks = {}
  /\ tell = [c \in Command |-> [i \in Calls |-> "none"]]
  /\ push = [c \in Command |-> "none"]
  /\ inFlight = {}
  /\ sentKeys = [k \in Kinds |-> <<>>]
  /\ tick = NoTick
  /\ late = [c \in Command |-> 0]
  /\ told = [c \in Command |-> FALSE]
  /\ crashes = 0

\* No other turn runs during a tick.
Turn == ~tick.on

-----------------------------------------------------------------------------
(* The outcome and the message to the user.                                *)

\* notifyCommandStatusChange up to its await; a failure that the chat reply
\* tells is not notified.
Notify(c, call) ==
  \/ c \in Bound /\ ~notified[c] /\ tell' = [tell EXCEPT ![c][call] = "sending"]
  \/ UNCHANGED tell

\* applyCommandEvent, markCommandFailed or markCommandTimeout, the hooks they
\* dispatch and the notification of their caller.  The telemetry of the
\* completion is kept if there is some and the store is not SQLite, where the
\* upsert of applyCommandEvent's own copy drops it again.
Ends(c, s) ==
  /\ Turn /\ status[c] = "running"
  /\ status' = [status EXCEPT ![c] = s]
  /\ \E snap \in BOOLEAN :
       /\ snap => s = "completed"
       /\ after' = [after EXCEPT ![c] = snap]
  /\ hooks' = hooks \union {c}
  /\ Notify(c, 0)
  /\ UNCHANGED <<outcome, notified, rows, push, inFlight, sentKeys, tick, late, told,
                 crashes>>

\* An event for a command that has an outcome changes nothing, and the handler
\* notifies again.
LateEvent(c) ==
  /\ Turn /\ status[c] # "running"
  /\ late[c] < MaxLate
  /\ late' = [late EXCEPT ![c] = @ + 1]
  /\ Notify(c, late[c] + 1)
  /\ UNCHANGED <<disk, hooks, push, inFlight, sentKeys, tick, told, crashes>>

\* The user gets the message; whether before or after a tick makes no difference.
MessageArrives(c, i) ==
  /\ Turn /\ tell[c][i] = "sending"
  /\ tell' = [tell EXCEPT ![c][i] = "arrived"]
  /\ told' = [told EXCEPT ![c] = TRUE]
  /\ UNCHANGED <<disk, hooks, push, inFlight, sentKeys, tick, late, crashes>>

\* Mutant: whatever send returned, the record is marked.
SendReturns_Any(c, i) ==
  /\ Turn /\ tell[c][i] \in {"sending", "arrived"}
  /\ tell' = [tell EXCEPT ![c][i] = "none"]
  /\ notified' = [notified EXCEPT ![c] = TRUE]
  /\ UNCHANGED <<status, after, outcome, rows, hooks, push, inFlight, sentKeys, tick,
                 late, told, crashes>>

\* send returned true: markCommandNotified.
SendReturns(c, i) ==
  /\ Turn /\ tell[c][i] = "arrived"
  /\ tell' = [tell EXCEPT ![c][i] = "none"]
  /\ notified' = [notified EXCEPT ![c] = TRUE]
  /\ UNCHANGED <<status, after, outcome, rows, hooks, push, inFlight, sentKeys, tick,
                 late, told, crashes>>

\* send returned false, also for a message that did arrive.
SendFails(c, i) ==
  /\ Turn /\ tell[c][i] # "none"
  /\ tell' = [tell EXCEPT ![c][i] = "none"]
  /\ UNCHANGED <<disk, hooks, push, inFlight, sentKeys, tick, late, told, crashes>>

-----------------------------------------------------------------------------
(* The hooks.                                                              *)

\* Mutant: only what was sent counts, not what is being sent.
MayPush_Overlapping(c) == ~Remembered(c)

\* Neither sent nor being sent.
MayPush(c) == ~Remembered(c) /\ Key(c) \notin inFlight

\* maybeNotifyCompletedCommandPlan and maybeNotifyDeviceFailurePlan up to the
\* await of the send; settings, the pack, its threshold and the recipients
\* decide whether there is anything to send.
StartPush(c) ==
  \/ /\ MayPush(c)
     /\ push' = [push EXCEPT ![c] = "sending"]
     /\ inFlight' = inFlight \union {Key(c)}
  \/ UNCHANGED <<push, inFlight>>

\* onCommandTerminalEvent of a completed command: evaluateSceneOutcomeFromCommand
\* of the telemetry at its completion, enqueueOutcomeWindows, the push.  For a
\* device that is no longer bound it throws before the last two.
HookCompleted(c) ==
  /\ Turn /\ c \in hooks /\ status[c] = "completed"
  /\ hooks' = hooks \ {c}
  /\ outcome' = IF c \in Scene /\ after[c]
                THEN [outcome EXCEPT ![c] = "after"] ELSE outcome
  /\ \/ /\ rows' = IF c \in Scene /\ c \notin Waiting(rows)
                   THEN Append(rows, Row(c, 0, FALSE)) ELSE rows
        /\ StartPush(c)
     \/ c \in Scene /\ UNCHANGED <<rows, push, inFlight>>
  /\ UNCHANGED <<status, after, notified, tell, sentKeys, tick, late, told, crashes>>

HookFailed(c) ==
  /\ Turn /\ c \in hooks /\ status[c] = "failed"
  /\ hooks' = hooks \ {c}
  /\ StartPush(c)
  /\ UNCHANGED <<disk, tell, sentKeys, tick, late, told, crashes>>

PushArrives(c) ==
  /\ Turn /\ push[c] = "sending"
  /\ push' = [push EXCEPT ![c] = "arrived"]
  /\ UNCHANGED <<disk, hooks, tell, inFlight, sentKeys, tick, late, told, crashes>>

\* markPostIrrigationNotified, markDeviceEfficiencyNotified
Remember(keys, k) ==
  IF k \in ToSet(keys) THEN keys
  ELSE LET longer == Append(keys, k)
       IN  IF Len(longer) > DedupMax THEN Tail(longer) ELSE longer

\* Somebody got it: it is remembered.  The question of a completed command's
\* push is staged for the answer (Ask of module Confirmation).
PushReturns(c) ==
  /\ Turn /\ push[c] = "arrived"
  /\ push' = [push EXCEPT ![c] = "none"]
  /\ inFlight' = inFlight \ {Key(c)}
  /\ sentKeys' = [sentKeys EXCEPT ![status[c]] = Remember(@, Key(c))]
  /\ UNCHANGED <<disk, hooks, tell, tick, late, told, crashes>>

\* As far as the process knows nobody got it; the next failure tries again.
PushFails(c) ==
  /\ Turn /\ push[c] # "none"
  /\ push' = [push EXCEPT ![c] = "none"]
  /\ inFlight' = inFlight \ {Key(c)}
  /\ UNCHANGED <<disk, hooks, tell, sentKeys, tick, late, told, crashes>>

-----------------------------------------------------------------------------
(* The windows.                                                            *)

\* Mutant: the file is emptied first, for the rows to be written back later.
TickStart_TakesRows ==
  /\ Turn /\ rows # <<>>
  /\ tick' = [on |-> TRUE, todo |-> rows, keep |-> <<>>]
  /\ rows' = <<>>
  /\ UNCHANGED <<status, after, outcome, notified, hooks, tell, push, inFlight, sentKeys,
                 late, told, crashes>>

\* tickOutcomeScheduler: readPending.
TickStart ==
  /\ Turn /\ rows # <<>>
  /\ tick' = [on |-> TRUE, todo |-> rows, keep |-> <<>>]
  /\ UNCHANGED <<disk, hooks, tell, push, inFlight, sentKeys, late, told, crashes>>

\* Mutant: the attempt is not counted.
ScheduleRetry_Uncounted(r) == <<Row(r.cmd, r.attempts, FALSE)>>

\* scheduleRetry: the rows to keep.
ScheduleRetry(r) ==
  IF r.attempts + 1 >= MaxAttempts THEN <<>>
  ELSE <<Row(r.cmd, r.attempts + 1, FALSE)>>

\* A row is not due, its entity has telemetry, which is attached and evaluated,
\* or it has none.
TickRow ==
  /\ tick.on /\ tick.todo # <<>>
  /\ LET r == Head(tick.todo)
         Goes(kept) == tick' = [on |-> TRUE, todo |-> Tail(tick.todo),
                                keep |-> tick.keep \o kept]
     IN  \/ ~r.due /\ Goes(<<r>>) /\ UNCHANGED outcome
         \/ /\ r.due /\ Goes(<<>>)
            /\ outcome' = [outcome EXCEPT ![r.cmd] = "window"]
         \/ r.due /\ Goes(ScheduleRetry(r)) /\ UNCHANGED outcome
  /\ UNCHANGED <<status, after, notified, rows, hooks, tell, push, inFlight, sentKeys, late,
                 told, crashes>>

\* writePending
TickEnd ==
  /\ tick.on /\ tick.todo = <<>>
  /\ rows' = tick.keep
  /\ tick' = NoTick
  /\ UNCHANGED <<status, after, outcome, notified, hooks, tell, push, inFlight, sentKeys,
                 late, told, crashes>>

TickStep == TickStart \/ TickRow \/ TickEnd

\* The due_at of a row has come.
Due(i) ==
  /\ Turn /\ i \in DOMAIN rows /\ ~rows[i].due
  /\ rows' = [rows EXCEPT ![i] = Row(@.cmd, @.attempts, TRUE)]
  /\ UNCHANGED <<status, after, outcome, notified, memory, late, told, crashes>>

-----------------------------------------------------------------------------
\* The process dies and starts again, with what it has in memory lost.
Crash ==
  /\ crashes < MaxFaults
  /\ crashes' = crashes + 1
  /\ hooks' = {}
  /\ tell' = [c \in Command |-> [i \in Calls |-> "none"]]
  /\ push' = [c \in Command |-> "none"]
  /\ inFlight' = {}
  /\ sentKeys' = [k \in Kinds |-> <<>>]
  /\ tick' = NoTick
  /\ UNCHANGED <<disk, late, told>>

Next ==
  \/ \E c \in Command :
       \/ \E s \in Kinds : Ends(c, s)
       \/ LateEvent(c)
       \/ \E i \in Calls : MessageArrives(c, i) \/ SendReturns(c, i) \/ SendFails(c, i)
       \/ HookCompleted(c) \/ HookFailed(c)
       \/ PushArrives(c) \/ PushReturns(c) \/ PushFails(c)
  \/ TickStep
  \/ \E i \in 1..Len(rows) : Due(i)
  \/ Crash

Spec == Init /\ [][Next]_vars

\* Time passes and the poll goes on ticking; a tick is a turn, so it ends.
FairSpec ==
  /\ Spec
  /\ WF_vars(TickStart) /\ WF_vars(TickRow) /\ WF_vars(TickEnd)
  /\ \A i \in 1..Cardinality(Scene) : SF_vars(Due(i))

-----------------------------------------------------------------------------
IsFile(file) ==
  \A i \in DOMAIN file :
    file[i] \in [cmd : Scene, attempts : 0..(MaxAttempts - 1), due : BOOLEAN]

TypeOK ==
  /\ status \in [Command -> Kinds \union {"running"}]
  /\ after \in [Command -> BOOLEAN] /\ notified \in [Command -> BOOLEAN]
  /\ outcome \in [Command -> {"none", "after", "window"}]
  /\ IsFile(rows) /\ IsFile(tick.todo) /\ IsFile(tick.keep)
  /\ hooks \subseteq Command
  /\ tell \in [Command -> [Calls -> Stages]]
  /\ push \in [Command -> Stages]
  /\ inFlight \subseteq Command \union Device
  /\ late \in [Command -> Calls] /\ told \in [Command -> BOOLEAN]
  /\ crashes \in 0..MaxFaults

\* A command counts as notified only when its user has the message, whichever
\* of two overlapping notifications failed (notify.ts 68: sent first, marked
\* afterwards).
NotifiedWasTold == \A c \in Command : notified[c] => told[c]

\* While a process remembers that it has pushed a plan, no second push of the
\* same key arrives: failures of one device may come close together, and the
\* send is awaited between the look at the keys and their update
\* (command-hooks.ts 151, 181).
NoPushWhileRemembered ==
  [][\A c \in Command : PushArrives(c) => ~Remembered(c)]_vars

\* A window leaves the file only when the outcome was evaluated from it or its
\* attempts are spent, wherever a tick is cut off (outcome-scheduler.ts 135).
WindowKept ==
  [][\A i \in DOMAIN rows :
       rows[i].cmd \notin Waiting(rows') =>
         \/ outcome[rows[i].cmd] = "window"
         \/ rows[i].due /\ rows[i].attempts + 1 >= MaxAttempts]_vars

\* No window waits for ever, be there telemetry or not.
WindowsSettle ==
  \A c \in Scene : c \in Waiting(rows) ~> c \notin Waiting(rows)

=============================================================================
