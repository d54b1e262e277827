---------------------------- MODULE CommandStore ----------------------------
(***************************************************************************)
(* The command record and the operations of the command store             *)
(* (apps/api/src/commands/command-store-port.ts) with the transition table *)
(* of store-transitions.ts and the pure decision of the watcher            *)
(* (evaluateAwaitingAckAction).                                            *)
(*                                                                         *)
(* Every store operation is synchronous and touches one record, so it is   *)
(* an operator from a record to a record.  A command that was never        *)
(* created has the status "none": the store finds no row for it and every  *)
(* operation returns early.                                                *)
(*                                                                         *)
(* Of a record the model keeps the fields the lifecycle reads back:        *)
(*   status   - CommandRecord.status                                       *)
(*   age      - time since sent_at, in time units, saturating at the ack   *)
(*              timeout; it is read only while the status is "sent", so it *)
(*              is 0 in every other status                                 *)
(*   retries  - retry_count                                                *)
(*   attempts - config_sync_fail_count                                     *)
(***************************************************************************)
EXTENDS Naturals

CONSTANTS AckTimeout,         \* COMMAND_ACK_TIMEOUT_MS, in time units
          RetryInterval,      \* COMMAND_RETRY_INTERVAL_MS, in time units
          MaxRetries,         \* COMMAND_MAX_RETRIES
          MaxConfigAttempts   \* CONFIG_SYNC_MAX_ATTEMPTS

ASSUME StoreConstants ==
  /\ AckTimeout \in Nat \ {0}
  /\ RetryInterval \in Nat \ {0}
  /\ MaxRetries \in Nat
  /\ MaxConfigAttempts \in Nat \ {0}

-----------------------------------------------------------------------------
InFlight == {"created", "sent", "acknowledged", "running"}

Terminal == {"completed", "rejected", "failed", "timeout"}

\* CommandLifecycleStatus, and "none" for a command without a record.
Status == {"none", "created", "sent", "acknowledged", "running",
           "completed", "rejected", "failed", "timeout"}

\* The statuses a Scene Node can report.
EventStatus == {"acknowledged", "running", "completed", "rejected", "failed"}

Record == [status   : Status,
           age      : 0..AckTimeout,
           retries  : Nat,
           attempts : 0..MaxConfigAttempts]

NoRecord == [status |-> "none", age |-> 0, retries |-> 0, attempts |-> 0]

\* Absent or terminal: the early return most operations start with.
Closed(r) == r.status = "none" \/ r.status \in Terminal

\* Every status write: the age restarts with the status.
SetStatus(r, s) == [r EXCEPT !.status = s, !.age = 0]

\* createCommand
CreateCommand == [NoRecord EXCEPT !.status = "created"]

\* The statuses an event may bring a record to, by the status it has now.
EventTransitions(s) ==
  CASE s \in {"created", "sent"} ->
         {"acknowledged", "running", "rejected", "failed", "completed"}
    [] s = "acknowledged" -> {"running", "rejected", "failed", "completed"}
    [] s = "running" -> {"completed", "rejected", "failed"}
    [] OTHER -> {}

CanApplyCommandEvent(current, next) ==
  /\ current \notin Terminal
  /\ next \in EventTransitions(current)

\* Mutant of ApplyCommandEvent: the transition table is not consulted.
ApplyCommandEvent_AnyTime(r, s) ==
  IF r.status # "none" THEN SetStatus(r, s) ELSE r

\* applyCommandEvent for an event that matches the record's identity.
ApplyCommandEvent(r, s) ==
  IF CanApplyCommandEvent(r.status, s) THEN SetStatus(r, s) ELSE r

\* markCommandSent: refuses only absent and terminal records.
MarkCommandSent(r) == IF Closed(r) THEN r ELSE SetStatus(r, "sent")

\* Mutant of MarkCommandFailed: the terminal check is missing.
MarkCommandFailed_AnyTime(r) ==
  IF r.status = "none" THEN r ELSE SetStatus(r, "failed")

\* markCommandFailed
MarkCommandFailed(r) == IF Closed(r) THEN r ELSE SetStatus(r, "failed")

\* markCommandTimeout
MarkCommandTimeout(r) ==
  IF r.status = "sent" THEN SetStatus(r, "timeout") ELSE r

\* recordCommandRetry
RecordCommandRetry(r) ==
  IF r.status = "sent" THEN [r EXCEPT !.retries = @ + 1] ELSE r

\* recordConfigSyncAttempt
RecordConfigSyncAttempt(r) ==
  IF Closed(r) THEN r ELSE [r EXCEPT !.attempts = @ + 1]

\* Mutant of HandleConfigPrepareFailure: the cap is tested with > for >=.
HandleConfigPrepareFailure_CapOffByOne(r, transient) ==
  IF ~transient THEN MarkCommandFailed(r)
  ELSE LET counted == RecordConfigSyncAttempt(r)
       IN  IF ~Closed(r) /\ counted.attempts > MaxConfigAttempts
           THEN MarkCommandFailed(counted)
           ELSE counted

\* handleConfigPrepareFailure: a transient failure is counted, and fails the
\* command in the same synchronous step when the count reaches the cap; any
\* other failure fails it at once.
HandleConfigPrepareFailure(r, transient) ==
  IF ~transient THEN MarkCommandFailed(r)
  ELSE LET counted == RecordConfigSyncAttempt(r)
       IN  IF ~Closed(r) /\ counted.attempts >= MaxConfigAttempts
           THEN MarkCommandFailed(counted)
           ELSE counted

-----------------------------------------------------------------------------
\* Mutant of AwaitingAckAction: the retry budget is tested before the timeout,
\* so a command whose retries are spent never times out.
AwaitingAckAction_BudgetFirst(r, elapsed) ==
  IF r.status # "sent" THEN "noop"
  ELSE IF r.retries >= MaxRetries THEN "noop"
  ELSE IF elapsed >= AckTimeout THEN "timeout"
  ELSE IF elapsed >= RetryInterval * (r.retries + 1) THEN "retry"
  ELSE "noop"

\* Mutant of AwaitingAckAction: the retry budget is off by one.
AwaitingAckAction_OneMore(r, elapsed) ==
  IF r.status # "sent" THEN "noop"
  ELSE IF elapsed >= AckTimeout THEN "timeout"
  ELSE IF r.retries > MaxRetries THEN "noop"
  ELSE IF elapsed >= RetryInterval * r.retries THEN "retry"
  ELSE "noop"

\* evaluateAwaitingAckAction: what the watcher does about a record it listed
\* as awaiting acknowledgement, elapsed being the tick's start time less
\* sent_at.
AwaitingAckAction(r, elapsed) ==
  IF r.status # "sent" THEN "noop"
  ELSE IF elapsed >= AckTimeout THEN "timeout"
  ELSE IF r.retries >= MaxRetries THEN "noop"
  ELSE IF elapsed >= RetryInterval * (r.retries + 1) THEN "retry"
  ELSE "noop"
=============================================================================
