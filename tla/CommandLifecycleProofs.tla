----------------------- MODULE CommandLifecycleProofs -----------------------
(***************************************************************************)
(* Proofs about CommandLifecycle and Resends, for any commands, devices,   *)
(* ticks and bounds: type correctness, one command in flight per device,   *)
(* final outcomes, the refinement of DeviceReservation; that the node      *)
(* starts a command at most once, that a completed command was started;    *)
(* and how often a command is resent when ticks overlap.                   *)
(*                                                                         *)
(* Every step but Reserve changes the records through the store's          *)
(* operations.  StoreMoves states what each operation may do to a record,  *)
(* RecordsMove lifts it to the steps, and the rest follows from it.        *)
(***************************************************************************)
EXTENDS Resends, FiniteSetTheorems, TLAPS

\* A record the store can hold: the attempts reach the cap with an outcome,
\* and what has no record has no retries.
Sound(r) ==
  /\ r \in Record
  /\ r.status = "none" => r.retries = 0
  /\ r.attempts >= MaxConfigAttempts => r.status \in Terminal

\* What a store operation may make of a record: nothing comes of an absent
\* record, an open one stays or gets an outcome, an outcome stays.
Moves(r, s) ==
  /\ Sound(s)
  /\ r.status = "none" <=> s.status = "none"
  /\ r.status \in Terminal => s.status = r.status

LEMMA MovesReflexive == \A r : Sound(r) => Moves(r, r)
  BY DEF Moves

LEMMA SetStatusFields ==
  ASSUME NEW r \in Record, NEW s \in Status
  PROVE  /\ SetStatus(r, s) \in Record
         /\ SetStatus(r, s).status = s
         /\ SetStatus(r, s).attempts = r.attempts
<1>1. 0 \in 0..AckTimeout
  BY StoreConstants
<1> QED
  BY <1>1 DEF Record, SetStatus

LEMMA MovesSetStatus ==
  ASSUME NEW r, Sound(r), NEW s \in Status, ~Closed(r), s # "none"
  PROVE  Moves(r, SetStatus(r, s))
<1>1. r \in Record
  BY DEF Sound
<1> QED
  BY <1>1, SetStatusFields DEF Moves, Sound, Closed

\* Each store operation moves a sound record soundly.
LEMMA StoreMoves ==
  ASSUME NEW r, Sound(r)
  PROVE  /\ Moves(r, MarkCommandSent(r))
         /\ Moves(r, MarkCommandFailed(r))
         /\ Moves(r, MarkCommandTimeout(r))
         /\ Moves(r, RecordCommandRetry(r))
         /\ \A s \in EventStatus : Moves(r, ApplyCommandEvent(r, s))
         /\ \A b \in BOOLEAN : Moves(r, HandleConfigPrepareFailure(r, b))
<1>1. Moves(r, r)
  BY MovesReflexive
<1>2. \A s \in Status \ {"none"} : ~Closed(r) => Moves(r, SetStatus(r, s))
  BY MovesSetStatus
<1>3. Moves(r, MarkCommandSent(r)) /\ Moves(r, MarkCommandFailed(r))
  BY <1>1, <1>2 DEF MarkCommandSent, MarkCommandFailed, Status
<1>4. Moves(r, MarkCommandTimeout(r))
  BY <1>1, <1>2 DEF MarkCommandTimeout, Status, Closed, Terminal
<1>5. Moves(r, RecordCommandRetry(r))
  <2>1. r \in Record
    BY DEF Sound
  <2>2. CASE r.status = "sent"
    <3>1. RecordCommandRetry(r) = [r EXCEPT !.retries = @ + 1]
      BY <2>2 DEF RecordCommandRetry
    <3>2. [r EXCEPT !.retries = @ + 1] \in Record
      BY <2>1 DEF Record
    <3> QED
      BY <2>1, <2>2, <3>1, <3>2 DEF Moves, Sound, Record, Terminal
  <2>3. CASE r.status # "sent"
    BY <1>1, <2>3 DEF RecordCommandRetry
  <2> QED
    BY <2>2, <2>3
<1>6. ASSUME NEW s \in EventStatus PROVE Moves(r, ApplyCommandEvent(r, s))
  <2>1. CASE CanApplyCommandEvent(r.status, s)
    <3>1. ~Closed(r)
      BY <2>1 DEF CanApplyCommandEvent, EventTransitions, Closed, Terminal
    <3>2. s \in Status \ {"none"}
      BY DEF EventStatus, Status
    <3> QED
      BY <1>2, <2>1, <3>1, <3>2 DEF ApplyCommandEvent
  <2>2. CASE ~CanApplyCommandEvent(r.status, s)
    BY <1>1, <2>2 DEF ApplyCommandEvent
  <2> QED
    BY <2>1, <2>2
<1>7. ASSUME NEW b \in BOOLEAN PROVE Moves(r, HandleConfigPrepareFailure(r, b))
  <2> DEFINE counted == RecordConfigSyncAttempt(r)
  <2>1. CASE ~b \/ Closed(r)
    <3>1. HandleConfigPrepareFailure(r, b) \in {r, MarkCommandFailed(r)}
      BY <2>1 DEF HandleConfigPrepareFailure, RecordConfigSyncAttempt
    <3> QED
      BY <1>1, <1>3, <3>1
  <2>2. CASE b /\ ~Closed(r)
    <3>1. /\ counted = [r EXCEPT !.attempts = @ + 1]
          /\ r \in Record
      BY <2>2 DEF RecordConfigSyncAttempt, Sound
    <3>2. /\ r.attempts < MaxConfigAttempts
          /\ r.attempts \in Nat
      BY <2>2, <3>1, StoreConstants DEF Sound, Closed, Record
    <3>3. /\ counted \in Record
          /\ counted.status = r.status
          /\ counted.attempts = r.attempts + 1
      BY <3>1, <3>2, StoreConstants DEF Record
    <3>4. CASE counted.attempts >= MaxConfigAttempts
      <4>1. HandleConfigPrepareFailure(r, b) = SetStatus(counted, "failed")
        BY <2>2, <3>3, <3>4
        DEF HandleConfigPrepareFailure, MarkCommandFailed, Closed
      <4>2. "failed" \in Status /\ "failed" \in Terminal
        BY DEF Status, Terminal
      <4>3. /\ SetStatus(counted, "failed") \in Record
            /\ SetStatus(counted, "failed").status = "failed"
        BY <3>3, <4>2, SetStatusFields
      <4>4. r.status # "none" /\ r.status \notin Terminal
        BY <2>2 DEF Closed
      <4> HIDE DEF counted
      <4> QED
        BY <4>1, <4>2, <4>3, <4>4 DEF Moves, Sound
    <3>5. CASE ~(counted.attempts >= MaxConfigAttempts)
      <4>1. HandleConfigPrepareFailure(r, b) = counted
        BY <2>2, <3>5 DEF HandleConfigPrepareFailure
      <4> HIDE DEF counted
      <4> QED
        BY <2>2, <3>3, <3>5, <4>1 DEF Moves, Sound, Closed
    <3> QED
      BY <3>4, <3>5
  <2> QED
    BY <2>1, <2>2
<1> QED
  BY <1>3, <1>4, <1>5, <1>6, <1>7

\* Moves composes: a step may apply two operations.
LEMMA MovesTransitive ==
  ASSUME NEW r, NEW s, NEW t, Moves(r, s), Moves(s, t)
  PROVE  Moves(r, t)
  BY DEF Moves, Terminal

-----------------------------------------------------------------------------
\* The records a step leaves behind, when it is not the creation of one.
StoreSound == \A c \in Cmd : Sound(rec[c])

\* At most one command changes its status.
OneChanges ==
  \A c, d \in Cmd : /\ rec'[c].status # rec[c].status
                    /\ rec'[d].status # rec[d].status
                    => c = d

AllMove ==
  /\ rec' \in [Cmd -> Record]
  /\ \A c \in Cmd : Moves(rec[c], rec'[c])
  /\ OneChanges

\* A step that changes one record, by an operation of the store.
LEMMA OneMoves ==
  ASSUME rec \in [Cmd -> Record], StoreSound,
         NEW c, NEW r, c \in Cmd => Moves(rec[c], r),
         rec' = [rec EXCEPT ![c] = r]
  PROVE  AllMove
<1>1. \A e \in Cmd : rec'[e] = IF e = c THEN r ELSE rec[e]
  OBVIOUS
<1>2. \A e \in Cmd : Moves(rec[e], rec'[e])
  BY <1>1, MovesReflexive DEF StoreSound
<1>3. rec' \in [Cmd -> Record]
  BY <1>1, <1>2 DEF Moves, Sound
<1>4. OneChanges
  BY <1>1 DEF OneChanges
<1> QED
  BY <1>2, <1>3, <1>4 DEF AllMove

LEMMA NoneMoves ==
  ASSUME rec \in [Cmd -> Record], StoreSound, rec' = rec
  PROVE  AllMove
  BY MovesReflexive DEF StoreSound, AllMove, OneChanges

\* Requests: every step but Reserve moves the records by the store.
LEMMA RouterMoves ==
  ASSUME TypeOK, StoreSound, NEW c \in Cmd, Refuse(c) \/ RouterStep(c)
  PROVE  AllMove
<1>1. rec \in [Cmd -> Record] /\ Sound(rec[c])
  BY DEF TypeOK, StoreSound
<1>2. CASE Refuse(c) \/ Prepare(c) \/ Publish(c)
  BY <1>1, <1>2, NoneMoves DEF Refuse, Prepare, Publish
<1>3. CASE ExecutorThrew(c) \/ MqttUnavailable(c) \/ PrepareFailed(c) \/ PublishThrew(c)
  <2>1. rec' = [rec EXCEPT ![c] = MarkCommandFailed(rec[c])]
    BY <1>3 DEF ExecutorThrew, MqttUnavailable, PrepareFailed, PublishThrew
  <2> QED
    BY <1>1, <2>1, StoreMoves, OneMoves
<1>4. CASE PublishResolved(c)
  <2>1. rec' = [rec EXCEPT ![c] = MarkCommandSent(rec[c])]
    BY <1>4 DEF PublishResolved, Sent
  <2> QED
    BY <1>1, <2>1, StoreMoves, OneMoves
<1>5. CASE ExecutorReturned(c)
  <2> DEFINE sent == MarkCommandSent(rec[c])
             done == ApplyCommandEvent(sent, "completed")
  <2>1. rec' = [rec EXCEPT ![c] = done]
    BY <1>5 DEF ExecutorReturned
  <2>2. Moves(rec[c], sent) /\ Sound(sent)
    BY <1>1, StoreMoves DEF Moves
  <2> HIDE DEF sent
  <2>3. Moves(sent, done)
    BY <2>2, StoreMoves DEF EventStatus
  <2> HIDE DEF done
  <2>4. Moves(rec[c], done)
    BY <2>2, <2>3, MovesTransitive
  <2> QED
    BY <1>1, <2>1, <2>4, OneMoves
<1> QED
  BY <1>2, <1>3, <1>4, <1>5 DEF RouterStep

\* Ticks move the records by the store.
LEMMA TickMoves ==
  ASSUME TypeOK, StoreSound, NEW t \in Tick, TickStep(t)
  PROVE  AllMove
<1>1. rec \in [Cmd -> Record] /\ \A c \in Cmd : Sound(rec[c])
  BY DEF TypeOK, StoreSound
<1> USE DEF OthersOfTick
<1>2. CASE \/ TickStart(t) \/ AwaitingStart(t) \/ TickPublish(t)
           \/ TickPublishThrew(t) \/ TickEnd(t)
           \/ \E c \in Cmd : UnsentPrepare(t, c) \/ AckNotDue(t, c) \/ AckRetry(t, c)
  <2>1. rec' = rec
    BY <1>2 DEF TickStart, AwaitingStart, TickPublish, TickPublishThrew, TickEnd,
                UnsentPrepare, AckNotDue, AckRetry
  <2> QED
    BY <1>1, <2>1, NoneMoves
<1>3. ASSUME NEW c \in Cmd, TickReject(t, c) PROVE AllMove
  <2>1. rec' = [rec EXCEPT ![c] = MarkCommandFailed(rec[c])]
    BY <1>3 DEF TickReject
  <2> QED
    BY <1>1, <2>1, StoreMoves, OneMoves
<1>4. ASSUME NEW c \in Cmd, AckTimedOut(t, c) PROVE AllMove
  <2>1. rec' = [rec EXCEPT ![c] = MarkCommandTimeout(rec[c])]
    BY <1>4 DEF AckTimedOut
  <2> QED
    BY <1>1, <2>1, StoreMoves, OneMoves
<1>5. CASE UnsentPublished(t)
  <2> DEFINE c == tick[t].cur
  <2>1. rec' = [rec EXCEPT ![c] = MarkCommandSent(rec[c])]
    BY <1>5 DEF UnsentPublished, Sent
  <2> HIDE DEF c
  <2>2. c \in Cmd => Moves(rec[c], MarkCommandSent(rec[c]))
    BY <1>1, StoreMoves
  <2> QED
    BY <1>1, <2>1, <2>2, OneMoves
<1>6. CASE RetryPublished(t)
  <2> DEFINE c == tick[t].cur
  <2>1. rec' = [rec EXCEPT ![c] = RecordCommandRetry(rec[c])]
    BY <1>6 DEF RetryPublished
  <2> HIDE DEF c
  <2>2. c \in Cmd => Moves(rec[c], RecordCommandRetry(rec[c]))
    BY <1>1, StoreMoves
  <2> QED
    BY <1>1, <2>1, <2>2, OneMoves
<1>7. CASE TickPrepareFailed(t)
  <2> DEFINE c == tick[t].cur
  <2>1. PICK b \in BOOLEAN :
          rec' = [rec EXCEPT ![c] =
                    IF tick[t].phase = "awaiting"
                    THEN RecordCommandRetry(HandleConfigPrepareFailure(rec[c], b))
                    ELSE HandleConfigPrepareFailure(rec[c], b)]
    BY <1>7 DEF TickPrepareFailed
  <2> HIDE DEF c
  <2> DEFINE failed == HandleConfigPrepareFailure(rec[c], b)
  <2>2. c \in Cmd => Moves(rec[c], failed) /\ Sound(failed)
    BY <1>1, StoreMoves DEF Moves
  <2> HIDE DEF failed
  <2>3. c \in Cmd => Moves(rec[c], RecordCommandRetry(failed))
    BY <2>2, StoreMoves, MovesTransitive
  <2>4. c \in Cmd => Moves(rec[c], IF tick[t].phase = "awaiting"
                                    THEN RecordCommandRetry(failed) ELSE failed)
    BY <2>2, <2>3
  <2> QED
    BY <1>1, <2>1, <2>4, OneMoves DEF failed
<1> QED
  BY <1>2, <1>3, <1>4, <1>5, <1>6, <1>7 DEF TickStep

\* Whatever happens, the records move by the store or one is created.
LEMMA RecordsMove ==
  ASSUME TypeOK, StoreSound, [Next]_vars
  PROVE  AllMove \/ \E c \in Cmd : Reserve(c)
<1>1. rec \in [Cmd -> Record] /\ \A c \in Cmd : Sound(rec[c])
  BY DEF TypeOK, StoreSound
<1>2. CASE UNCHANGED vars
  BY <1>1, <1>2, NoneMoves DEF vars
<1>3. CASE Node \/ LoseCommand \/ LoseEvent \/ NodeReboot \/ Restart
  <2>1. rec' = rec
    BY <1>3 DEF Node, NodeReject, NodeStart, NodeRunAtOnce, NodeStartFails,
                NodeComplete, OthersOfNode, LoseCommand, LoseEvent, NodeReboot, Restart
  <2> QED
    BY <1>1, <2>1, NoneMoves
<1>4. CASE HandleEvent
  <2> DEFINE e == Head(toCloud)
  <2>1. rec' = [rec EXCEPT ![e.cmd] = ApplyCommandEvent(rec[e.cmd], e.status)]
    BY <1>4 DEF HandleEvent
  <2>2. e \in EventMsg
    BY <1>4 DEF HandleEvent, TypeOK
  <2> HIDE DEF e
  <2>3. e.status \in EventStatus /\ e.cmd \in Cmd
    BY <2>2 DEF EventMsg
  <2>4. Moves(rec[e.cmd], ApplyCommandEvent(rec[e.cmd], e.status))
    BY <1>1, <2>3, StoreMoves
  <2> QED
    BY <1>1, <2>1, <2>3, <2>4, OneMoves
<1>5. CASE TimePasses
  <2>1. ASSUME NEW c \in Cmd PROVE Moves(rec[c], rec'[c])
    <3>1. CASE rec[c].status = "sent" /\ rec[c].age < AckTimeout
      <4>1. rec'[c] = [rec[c] EXCEPT !.age = @ + 1]
        BY <1>5, <2>1, <3>1 DEF TimePasses
      <4>2. rec[c] \in Record
        BY <1>1, <2>1
      <4>3. /\ rec'[c] \in Record
            /\ rec'[c].status = rec[c].status
            /\ rec'[c].attempts = rec[c].attempts
            /\ rec'[c].retries = rec[c].retries
        BY <3>1, <4>1, <4>2, StoreConstants DEF Record
      <4> QED
        BY <1>1, <2>1, <4>3 DEF Moves, Sound
    <3>2. CASE ~(rec[c].status = "sent" /\ rec[c].age < AckTimeout)
      BY <1>1, <1>5, <2>1, <3>2, MovesReflexive DEF TimePasses
    <3> QED
      BY <3>1, <3>2
  <2>2. rec' \in [Cmd -> Record]
    <3>1. \A c \in Cmd : rec'[c] \in Record
      BY <2>1 DEF Moves, Sound
    <3>2. DOMAIN rec' = Cmd /\ rec' = [c \in Cmd |-> rec'[c]]
      BY <1>5 DEF TimePasses
    <3> QED
      BY <3>1, <3>2
  <2>3. \A c \in Cmd : rec'[c].status = rec[c].status
    <3>1. \A c \in Cmd : rec[c] \in Record
      BY <1>1
    <3> QED
      BY <1>5, <3>1 DEF TimePasses, Record
  <2> QED
    BY <2>1, <2>2, <2>3 DEF AllMove, OneChanges
<1>6. ASSUME NEW c \in Cmd, Refuse(c) \/ RouterStep(c) PROVE AllMove
  BY <1>6, RouterMoves
<1>7. ASSUME NEW t \in Tick, TickStep(t) PROVE AllMove
  BY <1>7, TickMoves
<1> QED
  BY <1>2, <1>3, <1>4, <1>5, <1>6, <1>7 DEF Next, ReliableNext

-----------------------------------------------------------------------------
\* The type invariant, strengthened: a tick at an await has a current record.
CurrentIsCommand == \A t \in Tick : tick[t].step # "loop" => tick[t].cur \in Cmd

TInv == TypeOK /\ StoreSound /\ CurrentIsCommand

LEMMA CreateSound == CreateCommand \in Record /\ Sound(CreateCommand)
                     /\ CreateCommand.status = "created"
<1>1. 0 \in 0..AckTimeout /\ 0 \in 0..MaxConfigAttempts /\ 0 \in Nat
  BY StoreConstants
<1>2. CreateCommand = [status |-> "created", age |-> 0, retries |-> 0, attempts |-> 0]
  BY DEF CreateCommand, NoRecord
<1>3. "created" \in Status
  BY DEF Status
<1>4. ~(0 >= MaxConfigAttempts)
  BY StoreConstants
<1> QED
  BY <1>1, <1>2, <1>3, <1>4 DEF Record, Sound

LEMMA InitTInv == Init => TInv
<1> SUFFICES ASSUME Init PROVE TInv
  OBVIOUS
<1>1. 0 \in 0..AckTimeout /\ 0 \in 0..MaxConfigAttempts /\ 0 \in Nat /\ 0 \in 0..MaxRestarts
  BY StoreConstants, LifecycleConstants
<1>2. NoRecord \in Record /\ Sound(NoRecord)
  <2>1. "none" \in Status /\ ~(0 >= MaxConfigAttempts)
    BY StoreConstants DEF Status
  <2> QED
    BY <1>1, <2>1 DEF NoRecord, Record, Sound
<1>3. IdleTick \in TickState /\ IdleTick.step = "loop"
  BY <1>1 DEF IdleTick, TickState
<1>4. TypeOK
  BY <1>1, <1>2, <1>3 DEF Init, TypeOK, RouterState
<1>5. StoreSound
  BY <1>2 DEF Init, StoreSound
<1>6. CurrentIsCommand
  BY <1>3 DEF Init, CurrentIsCommand
<1> QED
  BY <1>4, <1>5, <1>6 DEF TInv

\* The ticks keep their type, and a record to be at.
TicksTyped == tick \in [Tick -> TickState] /\ CurrentIsCommand

LEMMA RestampTyped ==
  ASSUME NEW next \in [Tick -> TickState],
         \A t \in Tick : next[t].step # "loop" => next[t].cur \in Cmd,
         NEW c,
         tick' = next \/ tick' = [t \in Tick |-> [next[t] EXCEPT !.elapsed[c] = 0]]
  PROVE  TicksTyped'
<1>1. 0 \in 0..AckTimeout
  BY StoreConstants
<1>2. CASE tick' = next
  BY <1>2 DEF TicksTyped, CurrentIsCommand
<1>3. CASE tick' = [t \in Tick |-> [next[t] EXCEPT !.elapsed[c] = 0]]
  <2>1. ASSUME NEW t \in Tick
        PROVE  tick'[t] \in TickState /\ (tick'[t].step # "loop" => tick'[t].cur \in Cmd)
    <3>1. next[t] \in TickState
      OBVIOUS
    <3>2. tick'[t] = [next[t] EXCEPT !.elapsed = [next[t].elapsed EXCEPT ![c] = 0]]
      BY <1>3
    <3>3. [next[t].elapsed EXCEPT ![c] = 0] \in [Cmd -> 0..AckTimeout]
      BY <1>1, <3>1 DEF TickState
    <3> QED
      BY <3>1, <3>2, <3>3 DEF TickState
  <2> QED
    BY <1>3, <2>1 DEF TicksTyped, CurrentIsCommand
<1> QED
  BY <1>2, <1>3

LEMMA OneTickTyped ==
  ASSUME TicksTyped, NEW t \in Tick, NEW x \in TickState,
         x.step # "loop" => x.cur \in Cmd,
         tick' = [tick EXCEPT ![t] = x]
  PROVE  TicksTyped'
  BY DEF TicksTyped, CurrentIsCommand

LEMMA BackToLoopTyped ==
  ASSUME TicksTyped, NEW t \in Tick
  PROVE  BackToLoop(t) \in TickState /\ BackToLoop(t).step = "loop"
<1>1. tick[t] \in TickState
  BY DEF TicksTyped
<1> QED
  BY <1>1 DEF BackToLoop, TickState

\* What a tick step makes of its own tick has the type of a tick.
LEMMA TickStepTyped ==
  ASSUME rec \in [Cmd -> Record], TicksTyped, NEW t \in Tick, TickStep(t)
  PROVE  TicksTyped'
<1>1. tick \in [Tick -> TickState] /\ tick[t] \in TickState
  BY DEF TicksTyped
<1>2. CASE TickStart(t)
  <2> DEFINE x == [phase |-> "unsent", step |-> "loop", cur |-> NoCmd,
                   todo |-> {c \in Cmd : rec[c].status = "created"},
                   elapsed |-> [c \in Cmd |-> rec[c].age]]
  <2>1. x \in TickState
    BY DEF TickState, Record
  <2>2. x.step = "loop" /\ tick' = [tick EXCEPT ![t] = x]
    BY <1>2 DEF TickStart
  <2> HIDE DEF x
  <2> QED
    BY <2>1, <2>2, OneTickTyped
<1>3. ASSUME NEW c \in Cmd, tick' = [tick EXCEPT ![t].todo = @ \ {c}]
      PROVE  TicksTyped'
  <2> DEFINE x == [tick[t] EXCEPT !.todo = @ \ {c}]
  <2>1. x \in TickState /\ x.step = tick[t].step /\ x.cur = tick[t].cur
    BY <1>1 DEF TickState
  <2>2. tick' = [tick EXCEPT ![t] = x]
    BY <1>3
  <2> HIDE DEF x
  <2> QED
    BY <2>1, <2>2, OneTickTyped DEF TicksTyped, CurrentIsCommand
<1>4. ASSUME NEW c \in Cmd, TickGoPrepare(t, c)
      PROVE  TicksTyped'
  <2> DEFINE x == [[[tick[t] EXCEPT !.todo = @ \ {c}] EXCEPT !.step = "prepare"]
                     EXCEPT !.cur = c]
  <2>1. x \in TickState /\ x.cur = c
    BY <1>1 DEF TickState
  <2>2. tick' = [tick EXCEPT ![t] = x]
    BY <1>1, <1>4 DEF TickGoPrepare
  <2> HIDE DEF x
  <2> QED
    BY <2>1, <2>2, OneTickTyped
<1>5. CASE AwaitingStart(t)
  <2> DEFINE x == [[tick[t] EXCEPT !.phase = "awaiting"]
                     EXCEPT !.todo = {c \in Cmd : rec[c].status = "sent"}]
  <2>1. x \in TickState /\ x.step = tick[t].step /\ x.cur = tick[t].cur
    BY <1>1 DEF TickState
  <2>2. tick' = [tick EXCEPT ![t] = x]
    BY <1>1, <1>5 DEF AwaitingStart
  <2> HIDE DEF x
  <2> QED
    BY <2>1, <2>2, OneTickTyped DEF TicksTyped, CurrentIsCommand
<1>6. CASE tick' = [tick EXCEPT ![t] = BackToLoop(t)]
  BY <1>6, BackToLoopTyped, OneTickTyped
<1>7. CASE TickPublish(t)
  <2> DEFINE x == [tick[t] EXCEPT !.step = "publish"]
  <2>1. x \in TickState /\ x.cur = tick[t].cur
    BY <1>1 DEF TickState
  <2>2. tick' = [tick EXCEPT ![t] = x] /\ tick[t].step # "loop"
    BY <1>7 DEF TickPublish
  <2> HIDE DEF x
  <2> QED
    BY <2>1, <2>2, OneTickTyped DEF TicksTyped, CurrentIsCommand
<1>8. CASE UnsentPublished(t)
  <2> DEFINE next == [tick EXCEPT ![t] = BackToLoop(t)]
  <2>1. next \in [Tick -> TickState]
        /\ \A u \in Tick : next[u].step # "loop" => next[u].cur \in Cmd
    BY <1>1, BackToLoopTyped DEF TicksTyped, CurrentIsCommand
  <2>2. \/ tick' = next
        \/ tick' = [u \in Tick |-> [next[u] EXCEPT !.elapsed[tick[t].cur] = 0]]
    BY <1>8 DEF UnsentPublished, Sent
  <2> HIDE DEF next
  <2> QED
    BY <2>1, <2>2, RestampTyped
<1>9. CASE TickEnd(t)
  <2>1. IdleTick \in TickState /\ IdleTick.step = "loop"
    BY StoreConstants DEF IdleTick, TickState
  <2> QED
    BY <1>9, <2>1, OneTickTyped DEF TickEnd
<1> QED
  BY <1>2, <1>3, <1>4, <1>5, <1>6, <1>7, <1>8, <1>9
  DEF TickStep, TickReject, UnsentPrepare, AckTimedOut, AckNotDue, AckRetry,
      TickPrepareFailed, RetryPublished, TickPublishThrew

\* The ticks keep their type in every step.
LEMMA TicksStep ==
  ASSUME TInv, [Next]_vars
  PROVE  TicksTyped'
<1>1. TicksTyped /\ rec \in [Cmd -> Record]
  BY DEF TInv, TicksTyped, TypeOK
<1>2. CASE UNCHANGED tick
  BY <1>1, <1>2 DEF TicksTyped, CurrentIsCommand
<1>3. ASSUME NEW c \in Cmd, PublishResolved(c) \/ ExecutorReturned(c)
      PROVE  TicksTyped'
  <2>1. \/ tick' = tick
        \/ tick' = [t \in Tick |-> [tick[t] EXCEPT !.elapsed[c] = 0]]
    BY <1>3 DEF PublishResolved, Sent, ExecutorReturned, Restamped
  <2>2. tick \in [Tick -> TickState]
        /\ \A t \in Tick : tick[t].step # "loop" => tick[t].cur \in Cmd
    BY <1>1 DEF TicksTyped, CurrentIsCommand
  <2> QED
    BY <2>1, <2>2, RestampTyped
<1>4. ASSUME NEW t \in Tick, TickStep(t) PROVE TicksTyped'
  BY <1>1, <1>4, TickStepTyped
<1>5. CASE Restart
  <2>1. IdleTick \in TickState /\ IdleTick.step = "loop"
    BY StoreConstants DEF IdleTick, TickState
  <2> QED
    BY <1>5, <2>1 DEF Restart, TicksTyped, CurrentIsCommand
<1>6. CASE Node \/ HandleEvent \/ LoseCommand \/ LoseEvent \/ NodeReboot \/ TimePasses
  BY <1>2, <1>6 DEF Node, NodeReject, NodeStart, NodeRunAtOnce, NodeStartFails,
       NodeComplete, OthersOfNode, HandleEvent, LoseCommand, LoseEvent, NodeReboot,
       TimePasses
<1>7. ASSUME NEW c \in Cmd, Refuse(c) \/ Reserve(c) \/ RouterStep(c)
      PROVE  TicksTyped'
  BY <1>2, <1>3, <1>7
  DEF Refuse, Reserve, RouterStep, ExecutorThrew, MqttUnavailable, Prepare,
      PrepareFailed, Publish, PublishThrew
<1> QED
  BY <1>2, <1>4, <1>5, <1>6, <1>7 DEF Next, ReliableNext, vars

\* The commands on the wire are commands.
LEMMA ToNodeStep ==
  ASSUME TInv, [Next]_vars
  PROVE  toNode' \in Seq(CommandMsg)
<1>1. toNode \in Seq(CommandMsg)
  BY DEF TInv, TypeOK
<1>2. CASE UNCHANGED toNode
  BY <1>1, <1>2
<1>3. ASSUME NEW m \in CommandMsg, PutOnWire(m) PROVE toNode' \in Seq(CommandMsg)
  BY <1>1, <1>3 DEF PutOnWire
<1>4. ASSUME NEW c \in Cmd, Publish(c) PROVE toNode' \in Seq(CommandMsg)
  <2>1. [cmd |-> c, signed |-> TRUE] \in CommandMsg
    BY DEF CommandMsg
  <2> QED
    BY <1>3, <1>4, <2>1 DEF Publish
<1>5. ASSUME NEW t \in Tick, TickPublish(t) PROVE toNode' \in Seq(CommandMsg)
  <2>1. [cmd |-> tick[t].cur, signed |-> FALSE] \in CommandMsg
    BY <1>5 DEF TickPublish, TInv, CurrentIsCommand, CommandMsg
  <2> QED
    BY <1>3, <1>5, <2>1 DEF TickPublish
<1>6. CASE toNode # <<>> /\ toNode' = Tail(toNode)
  BY <1>1, <1>6
<1>7. CASE NodeReboot
  BY <1>7 DEF NodeReboot
<1>8. CASE Node \/ HandleEvent \/ LoseCommand \/ LoseEvent \/ TimePasses \/ Restart
  BY <1>2, <1>6, <1>8 DEF Node, NodeReject, NodeStart, NodeRunAtOnce, NodeStartFails,
       NodeComplete, NodeTakes, HandleEvent, LoseCommand, LoseEvent, TimePasses, Restart
<1>9. ASSUME NEW c \in Cmd, Refuse(c) \/ Reserve(c) \/ RouterStep(c)
      PROVE  toNode' \in Seq(CommandMsg)
  BY <1>2, <1>4, <1>9
  DEF Refuse, Reserve, RouterStep, ExecutorReturned, ExecutorThrew, MqttUnavailable,
      Prepare, PrepareFailed, PublishResolved, PublishThrew
<1>10. ASSUME NEW t \in Tick, TickStep(t) PROVE toNode' \in Seq(CommandMsg)
  BY <1>2, <1>5, <1>10
  DEF TickStep, TickStart, TickReject, UnsentPrepare, AckTimedOut, AckNotDue, AckRetry,
      AwaitingStart, TickPrepareFailed, UnsentPublished, RetryPublished,
      TickPublishThrew, TickEnd
<1> QED
  BY <1>2, <1>7, <1>8, <1>9, <1>10 DEF Next, ReliableNext, vars

\* The events on the wire are events.
LEMMA ToCloudStep ==
  ASSUME TInv, [Next]_vars
  PROVE  toCloud' \in Seq(EventMsg)
<1>1. toCloud \in Seq(EventMsg)
  BY DEF TInv, TypeOK
<1>2. CASE UNCHANGED toCloud
  BY <1>1, <1>2
<1>3. ASSUME NEW events \in Seq(EventMsg), Emit(events) PROVE toCloud' \in Seq(EventMsg)
  BY <1>1, <1>3 DEF Emit
<1>4. \A c \in Cmd, s \in EventStatus : Event(c, s) \in EventMsg
  BY DEF Event, EventMsg
<1>5. {"acknowledged", "running", "completed", "rejected"} \subseteq EventStatus
  BY DEF EventStatus
<1>6. CASE Node
  <2>1. CASE NodeComplete
    <3>1. pending \in Cmd
      BY <2>1 DEF NodeComplete, TInv, TypeOK
    <3>2. <<Event(pending, "completed")>> \in Seq(EventMsg)
      BY <1>4, <1>5, <3>1
    <3> QED
      BY <1>3, <2>1, <3>2 DEF NodeComplete
  <2>2. CASE NodeReject \/ NodeStart \/ NodeRunAtOnce \/ NodeStartFails
    <3>1. PICK m \in CommandMsg :
            \/ Emit(<<Event(m.cmd, "rejected")>>)
            \/ Emit(<<Event(m.cmd, "acknowledged"), Event(m.cmd, "running")>>)
            \/ Emit(<<Event(m.cmd, "acknowledged"), Event(m.cmd, "running"),
                      Event(m.cmd, "completed")>>)
            \/ Emit(<<Event(m.cmd, "acknowledged"), Event(m.cmd, "running"),
                      Event(m.cmd, "rejected")>>)
      BY <2>2 DEF NodeReject, NodeStart, NodeRunAtOnce, NodeStartFails
    <3>2. \A s \in EventStatus : Event(m.cmd, s) \in EventMsg
      BY <1>4 DEF CommandMsg
    <3>3. /\ <<Event(m.cmd, "rejected")>> \in Seq(EventMsg)
          /\ <<Event(m.cmd, "acknowledged"), Event(m.cmd, "running")>> \in Seq(EventMsg)
          /\ <<Event(m.cmd, "acknowledged"), Event(m.cmd, "running"),
               Event(m.cmd, "completed")>> \in Seq(EventMsg)
          /\ <<Event(m.cmd, "acknowledged"), Event(m.cmd, "running"),
               Event(m.cmd, "rejected")>> \in Seq(EventMsg)
      BY <1>5, <3>2
    <3> QED
      BY <1>3, <3>1, <3>3
  <2> QED
    BY <1>6, <2>1, <2>2 DEF Node
<1>7. CASE HandleEvent \/ LoseEvent
  BY <1>1, <1>7 DEF HandleEvent, LoseEvent
<1>8. CASE LoseCommand \/ NodeReboot \/ TimePasses \/ Restart
  BY <1>2, <1>8 DEF LoseCommand, NodeReboot, TimePasses, Restart, OthersOfNode
<1>9. ASSUME NEW c \in Cmd, Refuse(c) \/ Reserve(c) \/ RouterStep(c)
      PROVE  UNCHANGED toCloud
  BY <1>9
  DEF Refuse, Reserve, RouterStep, ExecutorReturned, ExecutorThrew, MqttUnavailable,
      Prepare, PrepareFailed, Publish, PublishResolved, PublishThrew
<1>10. ASSUME NEW t \in Tick, TickStep(t) PROVE UNCHANGED toCloud
  BY <1>10
  DEF TickStep, TickStart, TickReject, UnsentPrepare, AckTimedOut, AckNotDue, AckRetry,
      AwaitingStart, TickPrepareFailed, TickPublish, UnsentPublished, RetryPublished,
      TickPublishThrew, TickEnd, OthersOfTick
<1> QED
  BY <1>2, <1>6, <1>7, <1>8, <1>9, <1>10 DEF Next, ReliableNext, vars

\* The place of the requests, the node's state and the restarts.
LEMMA OthersStep ==
  ASSUME TInv, [Next]_vars
  PROVE  /\ router' \in [Cmd -> RouterState]
         /\ pending' \in Cmd \cup {NoCmd}
         /\ starts' \in [Cmd -> Nat]
         /\ restarts' \in 0..MaxRestarts
<1>1. /\ router \in [Cmd -> RouterState]
      /\ pending \in Cmd \cup {NoCmd}
      /\ starts \in [Cmd -> Nat]
      /\ restarts \in 0..MaxRestarts
  BY DEF TInv, TypeOK
<1>2. CASE UNCHANGED <<router, pending, starts, restarts>>
  BY <1>1, <1>2
<1>3. ASSUME NEW c \in Cmd, Refuse(c) \/ Reserve(c) \/ RouterStep(c)
      PROVE  /\ router' \in [Cmd -> RouterState]
             /\ UNCHANGED <<pending, starts, restarts>>
  BY <1>1, <1>3
  DEF Refuse, Reserve, RouterStep, ExecutorReturned, ExecutorThrew, MqttUnavailable,
      Prepare, PrepareFailed, Publish, PublishResolved, PublishThrew, RouterState
<1>4. ASSUME NEW t \in Tick, TickStep(t)
      PROVE  UNCHANGED <<router, pending, starts, restarts>>
  BY <1>4
  DEF TickStep, TickStart, TickReject, UnsentPrepare, AckTimedOut, AckNotDue, AckRetry,
      AwaitingStart, TickPrepareFailed, TickPublish, UnsentPublished, RetryPublished,
      TickPublishThrew, TickEnd, OthersOfTick
<1>5. CASE Node \/ NodeReboot
  <2>1. UNCHANGED <<router, restarts>>
    BY <1>5 DEF Node, NodeReject, NodeStart, NodeRunAtOnce, NodeStartFails,
         NodeComplete, NodeReboot, OthersOfNode
  <2>2. CASE NodeReject \/ NodeStartFails
    BY <1>1, <2>1, <2>2 DEF NodeReject, NodeStartFails
  <2>3. CASE NodeComplete \/ NodeReboot
    BY <1>1, <2>1, <2>3 DEF NodeComplete, NodeReboot, OthersOfNode
  <2>4. CASE NodeStart \/ NodeRunAtOnce
    <3>1. PICK m \in CommandMsg :
            /\ starts' = [starts EXCEPT ![m.cmd] = @ + 1]
            /\ pending' = m.cmd \/ pending' = pending
      BY <2>4 DEF NodeStart, NodeRunAtOnce
    <3>2. m.cmd \in Cmd
      BY DEF CommandMsg
    <3> QED
      BY <1>1, <2>1, <3>1, <3>2
  <2> QED
    BY <1>5, <2>2, <2>3, <2>4 DEF Node
<1>6. CASE HandleEvent \/ LoseCommand \/ LoseEvent \/ TimePasses
  BY <1>2, <1>6 DEF HandleEvent, LoseCommand, LoseEvent, TimePasses
<1>7. CASE Restart
  BY <1>1, <1>7, LifecycleConstants DEF Restart, RouterState
<1> QED
  BY <1>2, <1>1, <1>3, <1>4, <1>5, <1>6, <1>7 DEF Next, ReliableNext, vars

LEMMA TInvStep == TInv /\ [Next]_vars => TInv'
<1> SUFFICES ASSUME TInv, [Next]_vars PROVE TInv'
  OBVIOUS
<1>1. TypeOK /\ StoreSound
  BY DEF TInv
<1>2. rec' \in [Cmd -> Record] /\ StoreSound'
  <2>1. CASE AllMove
    BY <2>1 DEF AllMove, StoreSound, Moves
  <2>2. ASSUME NEW c \in Cmd, Reserve(c) PROVE rec' \in [Cmd -> Record] /\ StoreSound'
    BY <1>1, <2>2, CreateSound DEF Reserve, TypeOK, StoreSound
  <2> QED
    BY <1>1, <2>1, <2>2, RecordsMove
<1>3. tick' \in [Tick -> TickState] /\ CurrentIsCommand'
  BY TicksStep DEF TicksTyped
<1> QED
  BY <1>2, <1>3, ToNodeStep, ToCloudStep, OthersStep DEF TInv, TypeOK

\* Every reachable state is well typed; the records are those the store can
\* hold, and a tick at an await is at a command.
THEOREM TypeCorrect == Spec => []TypeOK
<1>1. Spec => []TInv
  BY InitTInv, TInvStep, PTL DEF Spec
<1>2. TInv => TypeOK
  BY DEF TInv
<1> QED
  BY <1>1, <1>2, PTL

\* A command whose configuration attempts reach the cap has its outcome,
\* whichever ticks counted them.
THEOREM AttemptsCapped == Spec => []ConfigAttemptsCapped
<1>1. Spec => []TInv
  BY InitTInv, TInvStep, PTL DEF Spec
<1>2. TInv => ConfigAttemptsCapped
  BY DEF TInv, StoreSound, Sound, ConfigAttemptsCapped
<1> QED
  BY <1>1, <1>2, PTL

-----------------------------------------------------------------------------
(* One command in flight per device, and final outcomes.                   *)

\* A request that has not begun has no record.
IdleHasNoRecord == \A c \in Cmd : router[c] = "idle" => rec[c].status = "none"

RInv == TInv /\ IdleHasNoRecord /\ OneInFlightPerDevice

\* An idle request was idle, unless the command was created just now.
LEMMA IdleWasIdle ==
  ASSUME TInv, [Next]_vars, NEW c \in Cmd, router'[c] = "idle"
  PROVE  router[c] = "idle" /\ ~Reserve(c)
<1>1. router \in [Cmd -> RouterState]
  BY DEF TInv, TypeOK
<1>2. ASSUME NEW d \in Cmd, NEW s \in {"prepare", "publish", "execute", "reserved", "gone"},
             router' = [router EXCEPT ![d] = s]
      PROVE  router[c] = "idle" /\ c # d
  BY <1>1, <1>2
<1>3. ASSUME NEW d \in Cmd, Refuse(d) \/ Reserve(d) \/ RouterStep(d)
      PROVE  router[c] = "idle" /\ c # d
  BY <1>2, <1>3
  DEF Refuse, Reserve, RouterStep, ExecutorReturned, ExecutorThrew, MqttUnavailable,
      Prepare, PrepareFailed, Publish, PublishResolved, PublishThrew
<1>4. ~Reserve(c)
  BY <1>3
<1>5. ASSUME NEW t \in Tick, TickStep(t) PROVE UNCHANGED router
  BY <1>5
  DEF TickStep, TickStart, TickReject, UnsentPrepare, AckTimedOut, AckNotDue, AckRetry,
      AwaitingStart, TickPrepareFailed, TickPublish, UnsentPublished, RetryPublished,
      TickPublishThrew, TickEnd, OthersOfTick
<1>6. CASE Node \/ NodeReboot \/ HandleEvent \/ LoseCommand \/ LoseEvent \/ TimePasses
  BY <1>4, <1>6 DEF Node, NodeReject, NodeStart, NodeRunAtOnce, NodeStartFails,
       NodeComplete, NodeReboot, OthersOfNode, HandleEvent, LoseCommand, LoseEvent,
       TimePasses
<1>7. CASE Restart
  BY <1>4, <1>7 DEF Restart
<1> QED
  BY <1>3, <1>4, <1>5, <1>6, <1>7 DEF Next, ReliableNext, vars

\* What a step may do to the records: a creation takes a free device, and
\* every other step keeps the absent and the closed ones as they are.
LEMMA StatusStep ==
  ASSUME RInv, [Next]_vars
  PROVE  \/ OneChanges /\ \A c \in Cmd : Moves(rec[c], rec'[c])
         \/ \E c \in Cmd : /\ rec[c].status = "none"
                           /\ InFlightOn(DeviceOf[c]) = {}
                           /\ rec' = [rec EXCEPT ![c] = CreateCommand]
<1>1. TypeOK /\ StoreSound /\ IdleHasNoRecord
  BY DEF RInv, TInv
<1>2. CASE AllMove
  BY <1>2 DEF AllMove
<1>3. ASSUME NEW c \in Cmd, Reserve(c) PROVE rec[c].status = "none"
  BY <1>1, <1>3 DEF Reserve, IdleHasNoRecord
<1> QED
  BY <1>1, <1>2, <1>3, RecordsMove DEF Reserve

\* A record is absent, in flight or closed.
LEMMA StatusKinds ==
  \A r \in Record : r.status \in InFlight <=> r.status # "none" /\ r.status \notin Terminal
  BY DEF Record, Status, InFlight, Terminal

LEMMA RInvStep == RInv /\ [Next]_vars => RInv'
<1> SUFFICES ASSUME RInv, [Next]_vars PROVE RInv'
  OBVIOUS
<1>1. TInv /\ TInv' /\ IdleHasNoRecord /\ OneInFlightPerDevice
  BY TInvStep DEF RInv
<1>2. rec \in [Cmd -> Record] /\ rec' \in [Cmd -> Record]
  BY <1>1 DEF TInv, TypeOK
<1>3. CASE \A c \in Cmd : Moves(rec[c], rec'[c])
  <2>1. IdleHasNoRecord'
    BY <1>1, <1>3, IdleWasIdle DEF IdleHasNoRecord, Moves
  <2>2. \A c \in Cmd : rec'[c].status \in InFlight => rec[c].status \in InFlight
    BY <1>2, <1>3, StatusKinds DEF Moves
  <2>3. OneInFlightPerDevice'
    BY <1>1, <2>2 DEF OneInFlightPerDevice
  <2> QED
    BY <1>1, <2>1, <2>3 DEF RInv
<1>4. ASSUME NEW c \in Cmd, rec[c].status = "none", InFlightOn(DeviceOf[c]) = {},
             rec' = [rec EXCEPT ![c] = CreateCommand]
      PROVE  RInv'
  <2>1. \A d \in Cmd \ {c} : rec'[d] = rec[d]
    BY <1>2, <1>4
  <2>2. OneInFlightPerDevice'
    BY <1>1, <1>4, <2>1 DEF OneInFlightPerDevice, InFlightOn
  <2>3. rec'[c].status = "created"
    BY <1>2, <1>4, CreateSound
  <2>4. router'[c] # "idle"
    <3>1. CASE \E d \in Cmd : Reserve(d)
      <4>1. PICK d \in Cmd : Reserve(d)
        BY <3>1
      <4>2. d = c
        <5>1. rec' = [rec EXCEPT ![d] = CreateCommand]
          BY <4>1 DEF Reserve
        <5>2. rec'[c] = rec[c] \/ d = c
          BY <1>2, <5>1
        <5> QED
          BY <1>4, <2>3, <5>2
      <4> QED
        BY <1>1, <4>1, <4>2, IdleWasIdle
    <3>2. CASE AllMove
      BY <1>4, <2>3, <3>2 DEF AllMove, Moves
    <3> QED
      BY <1>1, <3>1, <3>2, RecordsMove DEF TInv
  <2>5. IdleHasNoRecord'
    BY <1>1, <2>1, <2>4, IdleWasIdle DEF IdleHasNoRecord
  <2> QED
    BY <1>1, <2>2, <2>5 DEF RInv
<1> QED
  BY <1>3, <1>4, StatusStep

LEMMA InitRInv == Init => RInv
<1> SUFFICES ASSUME Init PROVE RInv
  OBVIOUS
<1>1. \A c \in Cmd : rec[c].status = "none"
  BY DEF Init, NoRecord
<1> QED
  BY <1>1, InitTInv DEF RInv, IdleHasNoRecord, OneInFlightPerDevice, InFlight

LEMMA RInvAlways == Spec => []RInv
  BY InitRInv, RInvStep, PTL DEF Spec

\* At most one command per device is between created and its outcome, in any
\* interleaving of requests, ticks, events, losses, reboots and restarts.
THEOREM MutualExclusion == Spec => []OneInFlightPerDevice
<1>1. RInv => OneInFlightPerDevice
  BY DEF RInv
<1> QED
  BY <1>1, RInvAlways, PTL

\* No step takes an outcome back or replaces it.
THEOREM Finality == Spec => OutcomeIsFinal
<1>1. ASSUME RInv, [Next]_vars
      PROVE  [\A c \in Cmd : rec[c].status \in Terminal
                             => rec'[c].status = rec[c].status]_vars
  <2>1. rec \in [Cmd -> Record]
    BY <1>1 DEF RInv, TInv, TypeOK
  <2>2. CASE \A c \in Cmd : Moves(rec[c], rec'[c])
    BY <2>2 DEF Moves
  <2>3. ASSUME NEW c \in Cmd, rec[c].status = "none",
               rec' = [rec EXCEPT ![c] = CreateCommand],
               NEW d \in Cmd, rec[d].status \in Terminal
        PROVE  rec'[d].status = rec[d].status
    BY <2>1, <2>3 DEF Terminal
  <2> QED
    BY <1>1, <2>2, <2>3, StatusStep
<1> QED
  BY <1>1, RInvAlways, PTL DEF Spec, OutcomeIsFinal

-----------------------------------------------------------------------------
(* The refinement of DeviceReservation.                                    *)

\* The refinement mapping, one command at a time.
OutcomeOf(s) == CASE s = "none" -> "unknown"
                  [] s \in InFlight -> "pending"
                  [] OTHER -> s

Outcome == [c \in Cmd |-> OutcomeOf(rec[c].status)]

LEMMA OutcomeValues ==
  /\ OutcomeOf("none") = "unknown"
  /\ \A s \in InFlight : OutcomeOf(s) = "pending"
  /\ \A s \in Terminal : OutcomeOf(s) = s
  /\ Status = {"none"} \cup InFlight \cup Terminal
  /\ Terminal = Reservation!Outcomes
  /\ "unknown" \notin Terminal /\ "pending" \notin Terminal
  BY DEF OutcomeOf, InFlight, Terminal, Status, Reservation!Outcomes

\* The steps of DeviceReservation under the mapping, in terms of Outcome.
LEMMA MappedSteps ==
  ASSUME NEW c \in Cmd
  PROVE  /\ /\ Outcome[c] = "unknown"
            /\ Reservation!HoldersOf(DeviceOf[c]) = {}
            /\ Outcome' = [Outcome EXCEPT ![c] = "pending"]
            => Reservation!Reserve(c)
         /\ /\ Outcome[c] = "pending"
            /\ \E o \in Reservation!Outcomes : Outcome' = [Outcome EXCEPT ![c] = o]
            => Reservation!Resolve(c)
<1>1. Outcome = [d \in Cmd |-> CASE rec[d].status = "none" -> "unknown"
                                 [] rec[d].status \in InFlight -> "pending"
                                 [] OTHER -> rec[d].status]
  BY DEF Outcome, OutcomeOf
<1>2. Outcome' = [d \in Cmd |-> CASE rec'[d].status = "none" -> "unknown"
                                  [] rec'[d].status \in InFlight -> "pending"
                                  [] OTHER -> rec'[d].status]
  BY DEF Outcome, OutcomeOf
<1> QED
  BY <1>1, <1>2, Zenon DEF Reservation!Reserve, Reservation!Resolve

\* A step that changes the outcome of no command leaves Outcome as it is.
LEMMA SameOutcomes ==
  ASSUME \A c \in Cmd : Outcome'[c] = Outcome[c]
  PROVE  Outcome' = Outcome
  BY DEF Outcome

\* A step that leaves the other commands alone changes one outcome.
LEMMA OneOutcome ==
  ASSUME NEW c \in Cmd, \A d \in Cmd \ {c} : rec'[d].status = rec[d].status
  PROVE  Outcome' = [Outcome EXCEPT ![c] = OutcomeOf(rec'[c].status)]
<1>1. \A d \in Cmd \ {c} : OutcomeOf(rec'[d].status) = OutcomeOf(rec[d].status)
  OBVIOUS
<1> QED
  BY <1>1 DEF Outcome

\* The commands that hold a device are those in flight on it.
LEMMA HoldersInFlight ==
  ASSUME TypeOK, NEW d
  PROVE  Reservation!HoldersOf(d) = InFlightOn(d)
<1>1. \A c \in Cmd : rec[c].status \in Status
  BY DEF TypeOK, Record
<1>2. \A c \in Cmd : OutcomeOf(rec[c].status) = "pending" <=> rec[c].status \in InFlight
  BY <1>1, OutcomeValues
<1> QED
  BY <1>2 DEF Reservation!HoldersOf, InFlightOn, OutcomeOf

\* A creation is a reservation.
LEMMA CreationReserves ==
  ASSUME RInv, NEW c \in Cmd, rec[c].status = "none", InFlightOn(DeviceOf[c]) = {},
         rec' = [rec EXCEPT ![c] = CreateCommand]
  PROVE  Reservation!Reserve(c)
<1>1. TypeOK /\ rec \in [Cmd -> Record]
  BY DEF RInv, TInv, TypeOK
<1>2. Outcome[c] = "unknown"
  BY OutcomeValues DEF Outcome
<1>3. Reservation!HoldersOf(DeviceOf[c]) = {}
  BY <1>1, HoldersInFlight
<1>4. Outcome' = [Outcome EXCEPT ![c] = "pending"]
  <2>1. rec'[c].status = "created" /\ \A d \in Cmd \ {c} : rec'[d] = rec[d]
    BY <1>1, CreateSound
  <2>2. OutcomeOf(rec'[c].status) = "pending"
    BY <2>1, OutcomeValues DEF InFlight
  <2> QED
    BY <2>1, <2>2, OneOutcome
<1> QED
  BY <1>2, <1>3, <1>4, MappedSteps

\* Any other step gives one command an outcome, or shows nothing.
LEMMA MoveResolves ==
  ASSUME RInv, rec' \in [Cmd -> Record], OneChanges,
         \A c \in Cmd : Moves(rec[c], rec'[c])
  PROVE  Outcome' = Outcome \/ \E c \in Cmd : Reservation!Resolve(c)
<1>1. rec \in [Cmd -> Record]
  BY DEF RInv, TInv, TypeOK
<1>2. \A c \in Cmd : rec[c].status \in Status /\ rec'[c].status \in Status
  BY <1>1 DEF Record
<1>3. ASSUME NEW c \in Cmd
      PROVE  \/ Outcome'[c] = Outcome[c]
             \/ Outcome[c] = "pending" /\ Outcome'[c] \in Terminal
  <2>1. Moves(rec[c], rec'[c])
    OBVIOUS
  <2>2. /\ Outcome[c] = OutcomeOf(rec[c].status)
        /\ Outcome'[c] = OutcomeOf(rec'[c].status)
    BY DEF Outcome
  <2>3. CASE rec'[c].status = rec[c].status
    BY <2>2, <2>3
  <2>4. CASE rec[c].status \in InFlight
    BY <1>2, <2>1, <2>2, <2>4, OutcomeValues DEF Moves
  <2>5. CASE rec[c].status \notin InFlight
    BY <1>2, <2>1, <2>3, <2>5, OutcomeValues DEF Moves
  <2> QED
    BY <2>4, <2>5
<1>4. CASE \A c \in Cmd : Outcome'[c] = Outcome[c]
  BY <1>4, SameOutcomes
<1>5. ASSUME NEW c \in Cmd, Outcome'[c] # Outcome[c]
      PROVE  Reservation!Resolve(c)
  <2>1. \A d \in Cmd \ {c} : rec'[d].status = rec[d].status
    BY <1>5 DEF OneChanges, Outcome
  <2>2. Outcome'[c] = OutcomeOf(rec'[c].status)
    BY DEF Outcome
  <2>3. Outcome' = [Outcome EXCEPT ![c] = Outcome'[c]]
    BY <2>1, <2>2, OneOutcome
  <2>4. Outcome[c] = "pending" /\ Outcome'[c] \in Reservation!Outcomes
    BY <1>3, <1>5, OutcomeValues
  <2> QED
    BY <2>3, <2>4, MappedSteps
<1> QED
  BY <1>4, <1>5

\* The command store implements the reservation of devices: every behaviour
\* of the lifecycle reserves a free device, resolves each command once, and
\* otherwise stutters.
THEOREM Implementation == Spec => ReservesDevices
<1>1. Init => Reservation!Init
  BY OutcomeValues DEF Init, NoRecord, Reservation!Init, OutcomeOf
<1>2. ASSUME RInv, [Next]_vars PROVE [Reservation!Next]_Outcome
  <2>1. rec' \in [Cmd -> Record]
    BY <1>2, TInvStep DEF RInv, TInv, TypeOK
  <2>2. CASE OneChanges /\ \A c \in Cmd : Moves(rec[c], rec'[c])
    BY <1>2, <2>1, <2>2, MoveResolves DEF Reservation!Next
  <2>3. ASSUME NEW c \in Cmd, rec[c].status = "none", InFlightOn(DeviceOf[c]) = {},
               rec' = [rec EXCEPT ![c] = CreateCommand]
        PROVE  Reservation!Next
    BY <1>2, <2>3, CreationReserves DEF Reservation!Next
  <2> QED
    BY <1>2, <2>2, <2>3, StatusStep
<1>3. ASSUME [Reservation!Next]_Outcome
      PROVE  [Reservation!Next]_([c \in Cmd |-> CASE rec[c].status = "none" -> "unknown"
                              [] rec[c].status \in InFlight -> "pending"
                              [] OTHER -> rec[c].status])
  BY <1>3 DEF Outcome, OutcomeOf
<1> QED
  BY <1>1, <1>2, <1>3, RInvAlways, PTL DEF Spec, ReservesDevices, Reservation!Spec

-----------------------------------------------------------------------------
(* The Scene Node starts each command at most once, and a command is       *)
(* recorded as completed only if it was started.                           *)
(*                                                                         *)
(* ActuatedAtMostOnce alone is not inductive: it must also be known that   *)
(* no further message the node would accept is on the wire.  A request     *)
(* publishes one signed message, after which it never publishes again;     *)
(* ticks and restarts add none; and a node that starts a command takes the *)
(* message away.                                                           *)
(*                                                                         *)
(* CompletedWasActuated needs the events on the wire: each completed event *)
(* is one of a command that was started, and so is the command in          *)
(* progress, whose completed event is still to come.                       *)

\* The request of c may still publish.
Unpublished(c) == router[c] \in {"idle", "reserved", "prepare"}

\* The i-th message on its way to the node carries c and the token.
Signed(c, i) == i \in 1..Len(toNode) /\ toNode[i].cmd = c /\ toNode[i].signed

AInv ==
  /\ TInv
  /\ \A c \in Cmd : Unpublished(c) => starts[c] = 0
  /\ \A c \in Cmd, i \in Nat : Signed(c, i) => starts[c] = 0 /\ ~Unpublished(c)
  /\ \A c \in Cmd : \A i, j \in Nat : Signed(c, i) /\ Signed(c, j) => i = j
  /\ ActuatedAtMostOnce

-----------------------------------------------------------------------------
\* What a step may do to the wire when it neither publishes a signed message
\* nor starts a command.
WireShrinks ==
  \/ UNCHANGED toNode
  \/ toNode' = <<>>
  \/ toNode # <<>> /\ toNode' = Tail(toNode)
  \/ \E c \in Cmd : toNode' = Append(toNode, [cmd |-> c, signed |-> FALSE])

\* Such a step makes no request publish again.
Quiet ==
  /\ WireShrinks
  /\ UNCHANGED starts
  /\ \A c \in Cmd : Unpublished(c)' => Unpublished(c)

\* Only the publish of a request and the node's acceptance are not quiet.
LEMMA StepKinds ==
  ASSUME TInv, [Next]_vars
  PROVE  Quiet \/ (\E c \in Cmd : Publish(c)) \/ NodeStart \/ NodeRunAtOnce
<1>1. router \in [Cmd -> RouterState]
  BY DEF TInv, TypeOK
<1>2. CASE UNCHANGED <<router, toNode, starts>>
  BY <1>2 DEF Quiet, WireShrinks, Unpublished
<1>3. ASSUME NEW c \in Cmd, Refuse(c) \/ Reserve(c) \/ RouterStep(c), ~Publish(c)
      PROVE  Quiet
  <2>1. UNCHANGED <<toNode, starts>>
    BY <1>3 DEF Refuse, Reserve, RouterStep, ExecutorReturned, ExecutorThrew,
      MqttUnavailable, Prepare, PrepareFailed, PublishResolved, PublishThrew
  <2>2. /\ router[c] \in {"idle", "reserved"} \/ router'[c] \in {"gone"}
        /\ \A d \in Cmd \ {c} : router'[d] = router[d]
    BY <1>1, <1>3 DEF Refuse, Reserve, RouterStep, ExecutorReturned, ExecutorThrew,
      MqttUnavailable, Prepare, PrepareFailed, PublishResolved, PublishThrew
  <2> QED
    BY <2>1, <2>2 DEF Quiet, WireShrinks, Unpublished
<1>4. ASSUME NEW t \in Tick, TickStep(t) PROVE Quiet
  <2>1. UNCHANGED <<router, starts>>
    BY <1>4
    DEF TickStep, TickStart, TickReject, UnsentPrepare, AckTimedOut, AckNotDue, AckRetry,
        AwaitingStart, TickPrepareFailed, TickPublish, UnsentPublished, RetryPublished,
        TickPublishThrew, TickEnd, OthersOfTick
  <2>2. CASE TickPublish(t)
    <3>1. tick[t].cur \in Cmd
      BY <2>2 DEF TickPublish, TInv, CurrentIsCommand
    <3> QED
      BY <2>1, <2>2, <3>1 DEF TickPublish, PutOnWire, Quiet, WireShrinks, Unpublished
  <2>3. CASE ~TickPublish(t)
    <3>1. UNCHANGED toNode
      BY <1>4, <2>3
      DEF TickStep, TickStart, TickReject, UnsentPrepare, AckTimedOut, AckNotDue, AckRetry,
          AwaitingStart, TickPrepareFailed, UnsentPublished, RetryPublished,
          TickPublishThrew, TickEnd
    <3> QED
      BY <2>1, <3>1 DEF Quiet, WireShrinks, Unpublished
  <2> QED
    BY <2>2, <2>3
<1>5. CASE NodeReject \/ NodeStartFails \/ NodeReboot \/ LoseCommand
  BY <1>5 DEF NodeReject, NodeStartFails, NodeReboot, LoseCommand, NodeTakes,
              OthersOfNode, Quiet, WireShrinks, Unpublished
<1>6. CASE NodeComplete \/ HandleEvent \/ LoseEvent \/ TimePasses
  BY <1>2, <1>6 DEF NodeComplete, HandleEvent, LoseEvent, TimePasses, OthersOfNode
<1>7. CASE Restart
  BY <1>1, <1>7 DEF Restart, Quiet, WireShrinks, Unpublished
<1> QED
  BY <1>2, <1>3, <1>4, <1>5, <1>6, <1>7 DEF Next, ReliableNext, Node, vars

\* After a quiet step the signed messages are those that were there, in their
\* places or one place further on.
LEMMA QuietMessages ==
  ASSUME TInv, WireShrinks
  PROVE  \/ \A c \in Cmd, i \in Nat : Signed(c, i)' => Signed(c, i)
         \/ \A c \in Cmd, i \in Nat : Signed(c, i)' => Signed(c, i + 1)
<1>1. toNode \in Seq(CommandMsg)
  BY DEF TInv, TypeOK
<1>2. CASE UNCHANGED toNode \/ toNode' = <<>>
  BY <1>2 DEF Signed
<1>3. CASE toNode # <<>> /\ toNode' = Tail(toNode)
  BY <1>1, <1>3 DEF Signed
<1>4. ASSUME NEW d \in Cmd, toNode' = Append(toNode, [cmd |-> d, signed |-> FALSE])
      PROVE  \A c \in Cmd, i \in Nat : Signed(c, i)' => Signed(c, i)
  <2>1. Len(toNode') = Len(toNode) + 1 /\ ~toNode'[Len(toNode) + 1].signed
    BY <1>1, <1>4
  <2>2. \A i \in 1..Len(toNode) : toNode'[i] = toNode[i]
    BY <1>1, <1>4
  <2>3. Len(toNode) \in Nat
    BY <1>1
  <2> QED
    BY <2>1, <2>2, <2>3 DEF Signed
<1> QED
  BY <1>2, <1>3, <1>4 DEF WireShrinks

LEMMA QuietStep ==
  ASSUME AInv, Quiet, TInv'
  PROVE  AInv'
<1>1. \/ \A c \in Cmd, i \in Nat : Signed(c, i)' => Signed(c, i)
      \/ \A c \in Cmd, i \in Nat : Signed(c, i)' => Signed(c, i + 1)
  BY QuietMessages DEF AInv, Quiet
<1>2. \A i \in Nat : i + 1 \in Nat
  OBVIOUS
<1>3. starts' = starts /\ \A c \in Cmd : Unpublished(c)' => Unpublished(c)
  BY DEF Quiet
<1>4. \A c \in Cmd, i \in Nat : Signed(c, i)' => starts'[c] = 0 /\ ~Unpublished(c)'
  BY <1>1, <1>2, <1>3 DEF AInv
<1>5. \A c \in Cmd : \A i, j \in Nat : Signed(c, i)' /\ Signed(c, j)' => i = j
  <2>1. CASE \A c \in Cmd, i \in Nat : Signed(c, i)' => Signed(c, i)
    BY <2>1 DEF AInv
  <2>2. CASE \A c \in Cmd, i \in Nat : Signed(c, i)' => Signed(c, i + 1)
    <3>1. \A c \in Cmd : \A i, j \in Nat :
            Signed(c, i)' /\ Signed(c, j)' => i + 1 = j + 1
      BY <1>2, <2>2 DEF AInv
    <3> QED
      BY <3>1
  <2> QED
    BY <1>1, <2>1, <2>2
<1> QED
  BY <1>3, <1>4, <1>5 DEF AInv, ActuatedAtMostOnce

-----------------------------------------------------------------------------
\* A request publishes once: there was no signed message of its command.
LEMMA PublishStep ==
  ASSUME AInv, NEW c \in Cmd, Publish(c), TInv'
  PROVE  AInv'
<1>1. toNode \in Seq(CommandMsg) /\ router \in [Cmd -> RouterState]
  BY DEF AInv, TInv, TypeOK
<1>2. Unpublished(c) /\ ~Unpublished(c)'
  BY <1>1 DEF Publish, Unpublished
<1>3. starts' = starts /\ \A d \in Cmd \ {c} : Unpublished(d)' => Unpublished(d)
  BY <1>1 DEF Publish, Unpublished
<1>4. starts[c] = 0 /\ \A i \in Nat : ~Signed(c, i)
  BY <1>2 DEF AInv
<1>5. /\ \A d \in Cmd \ {c}, i \in Nat : Signed(d, i)' => Signed(d, i)
      /\ \A i \in Nat : Signed(c, i)' => i = Len(toNode) + 1
  <2>1. CASE UNCHANGED toNode
    BY <1>4, <2>1 DEF Signed
  <2>2. CASE toNode' = Append(toNode, [cmd |-> c, signed |-> TRUE])
    <3>1. Len(toNode') = Len(toNode) + 1 /\ toNode'[Len(toNode) + 1].cmd = c
      BY <1>1, <2>2
    <3>2. \A i \in 1..Len(toNode) : toNode'[i] = toNode[i]
      BY <1>1, <2>2
    <3>3. Len(toNode) \in Nat
      BY <1>1
    <3>4. \A i \in Nat : i \in 1..Len(toNode') <=> i \in 1..Len(toNode) \/ i = Len(toNode) + 1
      BY <3>1, <3>3
    <3> QED
      BY <1>4, <3>1, <3>2, <3>4 DEF Signed
  <2> QED
    BY <2>1, <2>2 DEF Publish, PutOnWire
<1>6. \A d \in Cmd : Unpublished(d)' => starts'[d] = 0
  BY <1>2, <1>3 DEF AInv
<1>7. \A d \in Cmd, i \in Nat : Signed(d, i)' => starts'[d] = 0 /\ ~Unpublished(d)'
  BY <1>2, <1>3, <1>4, <1>5 DEF AInv
<1>8. \A d \in Cmd : \A i, j \in Nat : Signed(d, i)' /\ Signed(d, j)' => i = j
  BY <1>5 DEF AInv
<1> QED
  BY <1>3, <1>6, <1>7, <1>8 DEF AInv, ActuatedAtMostOnce

\* A node that starts a command takes the only message it would accept.
LEMMA StartStep ==
  ASSUME AInv, NodeStart \/ NodeRunAtOnce, TInv'
  PROVE  AInv'
<1>1. toNode \in Seq(CommandMsg) /\ starts \in [Cmd -> Nat]
  BY DEF AInv, TInv, TypeOK
<1>2. PICK m \in CommandMsg :
        /\ NodeTakes(m) /\ m.signed
        /\ starts' = [starts EXCEPT ![m.cmd] = @ + 1]
        /\ router' = router
  BY DEF NodeStart, NodeRunAtOnce, NodeAccepts, OthersOfNode
<1>3. m.cmd \in Cmd
  BY DEF CommandMsg
<1>4. Signed(m.cmd, 1)
  BY <1>1, <1>2 DEF NodeTakes, Signed
<1>5. starts[m.cmd] = 0 /\ ~Unpublished(m.cmd)
  BY <1>3, <1>4 DEF AInv
<1>6. \A c \in Cmd, i \in Nat : Signed(c, i)' => Signed(c, i + 1) /\ i # 0
  BY <1>1, <1>2 DEF NodeTakes, Signed
<1>7. \A i \in Nat : ~Signed(m.cmd, i)'
  <2>1. ASSUME NEW i \in Nat, Signed(m.cmd, i)' PROVE FALSE
    <3>1. Signed(m.cmd, i + 1) /\ i + 1 \in Nat /\ i + 1 # 1
      BY <1>3, <1>6, <2>1
    <3> QED
      BY <1>3, <1>4, <3>1 DEF AInv
  <2> QED
    BY <2>1
<1>8. \A c \in Cmd : Unpublished(c)' <=> Unpublished(c)
  BY <1>2 DEF Unpublished
<1>9. /\ starts'[m.cmd] = 1
      /\ \A c \in Cmd \ {m.cmd} : starts'[c] = starts[c]
  BY <1>1, <1>2, <1>3, <1>5
<1>10. \A i \in Nat : i + 1 \in Nat
  OBVIOUS
<1>11. \A c \in Cmd : Unpublished(c)' => starts'[c] = 0
  BY <1>5, <1>8, <1>9 DEF AInv
<1>12. \A c \in Cmd, i \in Nat : Signed(c, i)' => starts'[c] = 0 /\ ~Unpublished(c)'
  BY <1>6, <1>7, <1>8, <1>9, <1>10 DEF AInv
<1>13. \A c \in Cmd : \A i, j \in Nat : Signed(c, i)' /\ Signed(c, j)' => i = j
  <2>1. \A c \in Cmd : \A i, j \in Nat :
          Signed(c, i)' /\ Signed(c, j)' => i + 1 = j + 1
    BY <1>6, <1>10 DEF AInv
  <2> QED
    BY <2>1
<1>14. ActuatedAtMostOnce'
  <2>1. \A c \in Cmd : starts'[c] <= 1
    BY <1>9 DEF AInv, ActuatedAtMostOnce
  <2> QED
    BY <2>1 DEF ActuatedAtMostOnce
<1> QED
  BY <1>11, <1>12, <1>13, <1>14 DEF AInv

-----------------------------------------------------------------------------
\* The node starts no command twice, whatever the watcher resends, however the
\* ticks overlap and wherever the API process or the node restarts.
THEOREM StartedOnce == Spec => []ActuatedAtMostOnce
<1>1. Init => AInv
  BY InitTInv DEF Init, AInv, Unpublished, Signed, ActuatedAtMostOnce
<1>2. AInv /\ [Next]_vars => AInv'
  BY TInvStep, StepKinds, QuietStep, PublishStep, StartStep DEF AInv
<1>3. AInv => ActuatedAtMostOnce
  BY DEF AInv
<1> QED
  BY <1>1, <1>2, <1>3, PTL DEF Spec

-----------------------------------------------------------------------------
(* The second proof.                                                       *)

\* What is known to have been started.
CInv ==
  /\ TInv
  /\ \A c \in Cmd : router[c] = "execute" => c \in Direct
  /\ pending # NoCmd => starts[pending] > 0
  /\ \A i \in 1..Len(toCloud) :
       toCloud[i].status = "completed" => starts[toCloud[i].cmd] > 0
  /\ CompletedWasActuated

\* No record becomes completed.
NoneCompletes ==
  \A c \in Cmd : rec'[c].status = "completed" => rec[c].status = "completed"

\* The operations that do not apply an event complete nothing.
LEMMA StoreCompletesNothing ==
  ASSUME NEW r \in Record
  PROVE  /\ MarkCommandSent(r).status = "completed" => r.status = "completed"
         /\ MarkCommandFailed(r).status = "completed" => r.status = "completed"
         /\ MarkCommandTimeout(r).status = "completed" => r.status = "completed"
         /\ RecordCommandRetry(r).status = r.status
         /\ \A b \in BOOLEAN :
              HandleConfigPrepareFailure(r, b).status = "completed" => r.status = "completed"
<1>1. \A s \in {"sent", "failed", "timeout"} : SetStatus(r, s).status # "completed"
  BY SetStatusFields DEF Status
<1>2. RecordCommandRetry(r).status = r.status
  BY DEF RecordCommandRetry, Record
<1>3. RecordConfigSyncAttempt(r).status = r.status
  BY DEF RecordConfigSyncAttempt, Record
<1>4. DOMAIN RecordConfigSyncAttempt(r) = DOMAIN r /\ "status" \in DOMAIN r
  BY DEF RecordConfigSyncAttempt, Record
<1>5. SetStatus(RecordConfigSyncAttempt(r), "failed").status # "completed"
  <2> DEFINE counted == RecordConfigSyncAttempt(r)
  <2>1. "status" \in DOMAIN counted
    BY <1>4
  <2> HIDE DEF counted
  <2>2. SetStatus(counted, "failed").status = "failed"
    BY <2>1 DEF SetStatus
  <2> QED
    BY <2>2 DEF counted
<1>6. ASSUME NEW b \in BOOLEAN, HandleConfigPrepareFailure(r, b).status = "completed"
      PROVE  r.status = "completed"
  BY <1>1, <1>3, <1>5, <1>6 DEF HandleConfigPrepareFailure, MarkCommandFailed
<1> QED
  BY <1>1, <1>2, <1>6 DEF MarkCommandSent, MarkCommandFailed, MarkCommandTimeout

\* A step that changes one record, and does not complete it.
LEMMA OneCompletesNothing ==
  ASSUME rec \in [Cmd -> Record], NEW c, NEW r, rec' = [rec EXCEPT ![c] = r],
         c \in Cmd => (r.status = "completed" => rec[c].status = "completed")
  PROVE  NoneCompletes
  BY DEF NoneCompletes

\* What a request completes is what its direct executor carried out.
LEMMA RouterCompletes ==
  ASSUME TypeOK, NEW c \in Cmd, Refuse(c) \/ Reserve(c) \/ RouterStep(c)
  PROVE  NoneCompletes \/ ExecutorReturned(c)
<1>1. rec \in [Cmd -> Record] /\ rec[c] \in Record
  BY DEF TypeOK
<1>2. CASE Refuse(c) \/ Prepare(c) \/ Publish(c)
  BY <1>2 DEF Refuse, Prepare, Publish, NoneCompletes
<1>3. CASE Reserve(c)
  <2>1. CreateCommand.status # "completed"
    BY CreateSound
  <2> QED
    BY <1>1, <1>3, <2>1, OneCompletesNothing DEF Reserve
<1>4. CASE ExecutorThrew(c) \/ MqttUnavailable(c) \/ PrepareFailed(c) \/ PublishThrew(c)
  <2>1. rec' = [rec EXCEPT ![c] = MarkCommandFailed(rec[c])]
    BY <1>4 DEF ExecutorThrew, MqttUnavailable, PrepareFailed, PublishThrew
  <2> QED
    BY <1>1, <2>1, StoreCompletesNothing, OneCompletesNothing
<1>5. CASE PublishResolved(c)
  <2>1. rec' = [rec EXCEPT ![c] = MarkCommandSent(rec[c])]
    BY <1>5 DEF PublishResolved, Sent
  <2> QED
    BY <1>1, <2>1, StoreCompletesNothing, OneCompletesNothing
<1> QED
  BY <1>2, <1>3, <1>4, <1>5 DEF RouterStep

\* A tick completes nothing.
LEMMA TickCompletes ==
  ASSUME TypeOK, StoreSound, NEW t \in Tick, TickStep(t)
  PROVE  NoneCompletes
<1>1. rec \in [Cmd -> Record] /\ \A c \in Cmd : rec[c] \in Record
  BY DEF TypeOK
<1>2. CASE \/ TickStart(t) \/ AwaitingStart(t) \/ TickPublish(t)
           \/ TickPublishThrew(t) \/ TickEnd(t)
           \/ \E c \in Cmd : UnsentPrepare(t, c) \/ AckNotDue(t, c) \/ AckRetry(t, c)
  <2>1. rec' = rec
    BY <1>2 DEF TickStart, AwaitingStart, TickPublish, TickPublishThrew, TickEnd,
                UnsentPrepare, AckNotDue, AckRetry
  <2> QED
    BY <2>1 DEF NoneCompletes
<1>3. ASSUME NEW c \in Cmd, TickReject(t, c) \/ AckTimedOut(t, c) PROVE NoneCompletes
  <2>1. \/ rec' = [rec EXCEPT ![c] = MarkCommandFailed(rec[c])]
        \/ rec' = [rec EXCEPT ![c] = MarkCommandTimeout(rec[c])]
    BY <1>3 DEF TickReject, AckTimedOut
  <2> QED
    BY <1>1, <2>1, StoreCompletesNothing, OneCompletesNothing
<1>4. CASE UnsentPublished(t) \/ RetryPublished(t)
  <2> DEFINE c == tick[t].cur
  <2>1. \/ rec' = [rec EXCEPT ![c] = MarkCommandSent(rec[c])]
        \/ rec' = [rec EXCEPT ![c] = RecordCommandRetry(rec[c])]
    BY <1>4 DEF UnsentPublished, RetryPublished, Sent
  <2> HIDE DEF c
  <2>2. c \in Cmd => /\ MarkCommandSent(rec[c]).status = "completed"
                        => rec[c].status = "completed"
                     /\ RecordCommandRetry(rec[c]).status = rec[c].status
    BY <1>1, StoreCompletesNothing
  <2> QED
    BY <1>1, <2>1, <2>2, OneCompletesNothing
<1>5. CASE TickPrepareFailed(t)
  <2> DEFINE c == tick[t].cur
  <2>1. PICK b \in BOOLEAN :
          rec' = [rec EXCEPT ![c] =
                    IF tick[t].phase = "awaiting"
                    THEN RecordCommandRetry(HandleConfigPrepareFailure(rec[c], b))
                    ELSE HandleConfigPrepareFailure(rec[c], b)]
    BY <1>5 DEF TickPrepareFailed
  <2> HIDE DEF c
  <2> DEFINE failed == HandleConfigPrepareFailure(rec[c], b)
             next == IF tick[t].phase = "awaiting" THEN RecordCommandRetry(failed) ELSE failed
  <2>2. c \in Cmd => (failed.status = "completed" => rec[c].status = "completed")
    BY <1>1, StoreCompletesNothing
  <2>3. c \in Cmd => failed \in Record
    BY StoreMoves DEF Moves, Sound, StoreSound
  <2>4. rec' = [rec EXCEPT ![c] = next]
    BY <2>1
  <2> HIDE DEF failed
  <2>5. c \in Cmd => RecordCommandRetry(failed).status = failed.status
    BY <2>3, StoreCompletesNothing
  <2>6. c \in Cmd => (next.status = "completed" => rec[c].status = "completed")
    BY <2>2, <2>5
  <2> HIDE DEF next
  <2> QED
    BY <1>1, <2>4, <2>6, OneCompletesNothing
<1> QED
  BY <1>2, <1>3, <1>4, <1>5 DEF TickStep

\* An event completes only the command it reports as completed.
LEMMA EventCompletes ==
  ASSUME TypeOK, HandleEvent, NEW c \in Cmd, rec'[c].status = "completed"
  PROVE  \/ rec[c].status = "completed"
         \/ toCloud[1].cmd = c /\ toCloud[1].status = "completed"
<1> DEFINE e == Head(toCloud)
<1>1. /\ rec \in [Cmd -> Record]
      /\ toCloud \in Seq(EventMsg) /\ toCloud # <<>>
      /\ rec' = [rec EXCEPT ![e.cmd] = ApplyCommandEvent(rec[e.cmd], e.status)]
  BY DEF TypeOK, HandleEvent
<1>2. e = toCloud[1]
  BY <1>1
<1> HIDE DEF e
<1>3. CASE c # e.cmd
  BY <1>1, <1>3
<1>4. CASE c = e.cmd
  <2>1. /\ rec[c] \in Record
        /\ rec'[c] = ApplyCommandEvent(rec[c], e.status)
    BY <1>1, <1>4
  <2>2. ApplyCommandEvent(rec[c], e.status) = rec[c]
        \/ ApplyCommandEvent(rec[c], e.status) = SetStatus(rec[c], e.status)
    BY DEF ApplyCommandEvent
  <2>3. SetStatus(rec[c], e.status).status = e.status
    BY <2>1 DEF SetStatus, Record
  <2> QED
    BY <1>2, <1>4, <2>1, <2>2, <2>3
<1> QED
  BY <1>3, <1>4

\* Whatever happens, only an executor or a completed event completes.
LEMMA CompletionsHaveCauses ==
  ASSUME TInv, [Next]_vars, NEW c \in Cmd, rec'[c].status = "completed"
  PROVE  \/ rec[c].status = "completed"
         \/ ExecutorReturned(c)
         \/ HandleEvent /\ toCloud[1].cmd = c /\ toCloud[1].status = "completed"
<1>1. TypeOK /\ StoreSound /\ rec \in [Cmd -> Record]
  BY DEF TInv, TypeOK
<1>2. CASE rec' = rec
  BY <1>2
<1>3. CASE Node \/ LoseCommand \/ LoseEvent \/ NodeReboot \/ Restart
  BY <1>2, <1>3 DEF Node, NodeReject, NodeStart, NodeRunAtOnce, NodeStartFails,
      NodeComplete, OthersOfNode, LoseCommand, LoseEvent, NodeReboot, Restart
<1>4. CASE HandleEvent
  BY <1>1, <1>4, EventCompletes
<1>5. CASE TimePasses
  <2>1. rec[c] \in Record
    BY <1>1
  <2>2. rec'[c].status = rec[c].status
    BY <1>5, <2>1 DEF TimePasses, Record
  <2> QED
    BY <2>2
<1>6. ASSUME NEW d \in Cmd, Refuse(d) \/ Reserve(d) \/ RouterStep(d)
      PROVE  rec[c].status = "completed" \/ ExecutorReturned(c)
  <2>1. CASE NoneCompletes
    BY <2>1 DEF NoneCompletes
  <2>2. CASE ExecutorReturned(d) /\ d # c
    BY <1>1, <2>2 DEF ExecutorReturned
  <2> QED
    BY <1>1, <1>6, <2>1, <2>2, RouterCompletes
<1>7. ASSUME NEW t \in Tick, TickStep(t) PROVE rec[c].status = "completed"
  BY <1>1, <1>7, TickCompletes DEF NoneCompletes
<1> QED
  BY <1>2, <1>3, <1>4, <1>5, <1>6, <1>7 DEF Next, ReliableNext, vars

\* No step forgets a start.
LEMMA StartsGrow ==
  ASSUME TInv, [Next]_vars
  PROVE  \A c \in Cmd : starts[c] > 0 => starts'[c] > 0
<1>1. starts \in [Cmd -> Nat]
  BY DEF TInv, TypeOK
<1>2. CASE UNCHANGED starts
  BY <1>2
<1>3. CASE NodeStart \/ NodeRunAtOnce
  <2>1. PICK m \in CommandMsg : starts' = [starts EXCEPT ![m.cmd] = @ + 1]
    BY <1>3 DEF NodeStart, NodeRunAtOnce
  <2> QED
    BY <1>1, <2>1
<1>4. CASE \E c \in Cmd : Publish(c)
  BY <1>2, <1>4 DEF Publish
<1> QED
  BY <1>2, <1>3, <1>4, StepKinds DEF Quiet

\* A request reaches its executor only for a direct command.
LEMMA ExecutorStep ==
  ASSUME CInv, [Next]_vars
  PROVE  \A c \in Cmd : router'[c] = "execute" => c \in Direct
<1>1. router \in [Cmd -> RouterState] /\ \A c \in Cmd : router[c] = "execute" => c \in Direct
  BY DEF CInv, TInv, TypeOK
<1>2. CASE router' = router
  BY <1>1, <1>2
<1>3. ASSUME NEW d \in Cmd, Refuse(d) \/ Reserve(d) \/ RouterStep(d)
      PROVE  \A c \in Cmd : router'[c] = "execute" => c \in Direct
  BY <1>1, <1>3
  DEF Refuse, Reserve, RouterStep, ExecutorReturned, ExecutorThrew, MqttUnavailable,
      Prepare, PrepareFailed, Publish, PublishResolved, PublishThrew
<1>4. ASSUME NEW t \in Tick, TickStep(t) PROVE router' = router
  BY <1>4
  DEF TickStep, TickStart, TickReject, UnsentPrepare, AckTimedOut, AckNotDue, AckRetry,
      AwaitingStart, TickPrepareFailed, TickPublish, UnsentPublished, RetryPublished,
      TickPublishThrew, TickEnd, OthersOfTick
<1>5. CASE \/ Node \/ NodeReboot \/ HandleEvent \/ LoseCommand \/ LoseEvent
           \/ TimePasses
  BY <1>2, <1>5 DEF Node, NodeReject, NodeStart, NodeRunAtOnce, NodeStartFails,
       NodeComplete, NodeReboot, OthersOfNode, HandleEvent, LoseCommand, LoseEvent,
       TimePasses
<1>6. CASE Restart
  BY <1>1, <1>6 DEF Restart
<1> QED
  BY <1>2, <1>3, <1>4, <1>5, <1>6 DEF Next, ReliableNext, vars

\* If the event reports completion, its command was started.
Truthful(e, started) == e.status = "completed" => started[e.cmd] > 0

\* The events on the wire stay truthful.
LEMMA OldEvents ==
  ASSUME CInv, \A c \in Cmd : starts[c] > 0 => starts'[c] > 0
  PROVE  \A i \in 1..Len(toCloud) : Truthful(toCloud[i], starts')
<1>1. toCloud \in Seq(EventMsg)
  BY DEF CInv, TInv, TypeOK
<1>2. ASSUME NEW i \in 1..Len(toCloud), toCloud[i].status = "completed"
      PROVE  starts'[toCloud[i].cmd] > 0
  <2>1. toCloud[i] \in EventMsg
    BY <1>1
  <2>2. toCloud[i].cmd \in Cmd
    BY <2>1 DEF EventMsg
  <2>3. starts[toCloud[i].cmd] > 0
    BY <1>2 DEF CInv
  <2> QED
    BY <2>2, <2>3
<1> QED
  BY <1>2 DEF Truthful

\* What the node publishes is truthful when its events are.
LEMMA EmittedEvents ==
  ASSUME CInv, NEW events \in Seq(EventMsg), Emit(events),
         \A c \in Cmd : starts[c] > 0 => starts'[c] > 0,
         \A i \in 1..Len(events) : Truthful(events[i], starts')
  PROVE  \A i \in 1..Len(toCloud') : Truthful(toCloud'[i], starts')
<1>1. toCloud \in Seq(EventMsg) /\ toCloud' = toCloud \o events
  BY DEF CInv, TInv, TypeOK, Emit
<1>2. \A i \in 1..Len(toCloud) : Truthful(toCloud[i], starts')
  BY OldEvents
<1>3. ASSUME NEW i \in 1..Len(toCloud') PROVE Truthful(toCloud'[i], starts')
  <2>1. CASE i \in 1..Len(toCloud)
    <3>1. toCloud'[i] = toCloud[i]
      BY <1>1, <2>1
    <3> QED
      BY <1>2, <2>1, <3>1
  <2>2. CASE i \notin 1..Len(toCloud)
    <3>1. /\ i - Len(toCloud) \in 1..Len(events)
          /\ toCloud'[i] = events[i - Len(toCloud)]
      BY <1>1, <2>2
    <3> QED
      BY <3>1
  <2> QED
    BY <2>1, <2>2
<1> QED
  BY <1>3

\* The events of the node tell of what it started.
LEMMA NodeEvents ==
  ASSUME CInv, Node, \A c \in Cmd : starts[c] > 0 => starts'[c] > 0
  PROVE  \A i \in 1..Len(toCloud') : Truthful(toCloud'[i], starts')
<1>1. starts \in [Cmd -> Nat] /\ pending \in Cmd \cup {NoCmd}
  BY DEF CInv, TInv, TypeOK
<1>2. \A c \in Cmd : \A s \in {"acknowledged", "running", "completed", "rejected"} :
        Event(c, s) \in EventMsg
  BY DEF Event, EventMsg, EventStatus
<1>3. \A c \in Cmd, s \in EventStatus :
        s # "completed" \/ starts'[c] > 0 => Truthful(Event(c, s), starts')
  BY DEF Truthful, Event
<1>4. {"acknowledged", "running", "completed", "rejected"} \subseteq EventStatus
  BY DEF EventStatus
<1>5. CASE NodeComplete
  <2>1. pending \in Cmd /\ starts'[pending] > 0 /\ Emit(<<Event(pending, "completed")>>)
    BY <1>1, <1>5 DEF NodeComplete, CInv
  <2> DEFINE e == Event(pending, "completed")
  <2>2. e \in EventMsg /\ Truthful(e, starts') /\ Emit(<<e>>)
    BY <1>2, <1>3, <1>4, <2>1
  <2> HIDE DEF e
  <2>3. <<e>> \in Seq(EventMsg) /\ \A i \in 1..Len(<<e>>) : <<e>>[i] = e
    BY <2>2
  <2> QED
    BY <2>2, <2>3, EmittedEvents
<1>6. CASE NodeReject \/ NodeStart \/ NodeRunAtOnce \/ NodeStartFails
  <2>1. PICK m \in CommandMsg :
          \/ Emit(<<Event(m.cmd, "rejected")>>)
          \/ Emit(<<Event(m.cmd, "acknowledged"), Event(m.cmd, "running")>>)
          \/ /\ Emit(<<Event(m.cmd, "acknowledged"), Event(m.cmd, "running"),
                       Event(m.cmd, "completed")>>)
             /\ starts' = [starts EXCEPT ![m.cmd] = @ + 1]
          \/ Emit(<<Event(m.cmd, "acknowledged"), Event(m.cmd, "running"),
                    Event(m.cmd, "rejected")>>)
    BY <1>6 DEF NodeReject, NodeStart, NodeRunAtOnce, NodeStartFails
  <2>2. m.cmd \in Cmd
    BY DEF CommandMsg
  <2> DEFINE a == Event(m.cmd, "acknowledged")
             r == Event(m.cmd, "running")
             d == Event(m.cmd, "completed")
             j == Event(m.cmd, "rejected")
  <2>3. /\ {a, r, d, j} \subseteq EventMsg
        /\ Truthful(a, starts') /\ Truthful(r, starts') /\ Truthful(j, starts')
        /\ starts'[m.cmd] > 0 => Truthful(d, starts')
    BY <1>2, <1>3, <1>4, <2>2
  <2>4. \/ Emit(<<j>>)
        \/ Emit(<<a, r>>)
        \/ Emit(<<a, r, d>>) /\ Truthful(d, starts')
        \/ Emit(<<a, r, j>>)
    <3>1. CASE starts' = [starts EXCEPT ![m.cmd] = @ + 1]
      <4>1. starts'[m.cmd] > 0
        BY <1>1, <2>2, <3>1
      <4> QED
        BY <2>1, <2>3, <4>1
    <3>2. CASE starts' # [starts EXCEPT ![m.cmd] = @ + 1]
      BY <2>1, <3>2
    <3> QED
      BY <3>1, <3>2
  <2> HIDE DEF a, r, d, j
  <2>5. /\ <<j>> \in Seq(EventMsg) /\ <<a, r>> \in Seq(EventMsg)
        /\ <<a, r, d>> \in Seq(EventMsg) /\ <<a, r, j>> \in Seq(EventMsg)
    BY <2>3
  <2>6. /\ \A i \in 1..Len(<<j>>) : <<j>>[i] = j
        /\ \A i \in 1..Len(<<a, r>>) : <<a, r>>[i] \in {a, r}
        /\ \A i \in 1..Len(<<a, r, d>>) : <<a, r, d>>[i] \in {a, r, d}
        /\ \A i \in 1..Len(<<a, r, j>>) : <<a, r, j>>[i] \in {a, r, j}
    OBVIOUS
  <2> QED
    BY <2>3, <2>4, <2>5, <2>6, EmittedEvents
<1> QED
  BY <1>5, <1>6 DEF Node

\* The other steps publish no event.
LEMMA EventsStep ==
  ASSUME CInv, [Next]_vars
  PROVE  \A i \in 1..Len(toCloud') : Truthful(toCloud'[i], starts')
<1>1. \A c \in Cmd : starts[c] > 0 => starts'[c] > 0
  BY StartsGrow DEF CInv
<1>2. toCloud \in Seq(EventMsg)
  BY DEF CInv, TInv, TypeOK
<1>3. \A i \in 1..Len(toCloud) : Truthful(toCloud[i], starts')
  BY <1>1, OldEvents
<1>4. CASE toCloud' = toCloud
  BY <1>3, <1>4
<1>5. CASE HandleEvent \/ LoseEvent
  <2>1. toCloud # <<>> /\ toCloud' = Tail(toCloud)
    BY <1>5 DEF HandleEvent, LoseEvent
  <2>2. \A i \in 1..Len(toCloud') : i + 1 \in 1..Len(toCloud) /\ toCloud'[i] = toCloud[i + 1]
    BY <1>2, <2>1
  <2> QED
    BY <1>3, <2>2
<1>6. CASE Node
  BY <1>1, <1>6, NodeEvents
<1>7. CASE LoseCommand \/ NodeReboot \/ TimePasses \/ Restart
  BY <1>4, <1>7 DEF LoseCommand, NodeReboot, TimePasses, Restart, OthersOfNode
<1>8. ASSUME NEW c \in Cmd, Refuse(c) \/ Reserve(c) \/ RouterStep(c)
      PROVE  toCloud' = toCloud
  BY <1>8
  DEF Refuse, Reserve, RouterStep, ExecutorReturned, ExecutorThrew, MqttUnavailable,
      Prepare, PrepareFailed, Publish, PublishResolved, PublishThrew
<1>9. ASSUME NEW t \in Tick, TickStep(t) PROVE toCloud' = toCloud
  BY <1>9
  DEF TickStep, TickStart, TickReject, UnsentPrepare, AckTimedOut, AckNotDue, AckRetry,
      AwaitingStart, TickPrepareFailed, TickPublish, UnsentPublished, RetryPublished,
      TickPublishThrew, TickEnd, OthersOfTick
<1> QED
  BY <1>4, <1>5, <1>6, <1>7, <1>8, <1>9 DEF Next, ReliableNext, vars

\* The command in progress was started.
LEMMA PendingStep ==
  ASSUME CInv, [Next]_vars
  PROVE  pending' # NoCmd => starts'[pending'] > 0
<1>1. starts \in [Cmd -> Nat] /\ pending \in Cmd \cup {NoCmd}
  BY DEF CInv, TInv, TypeOK
<1>2. CASE pending' = pending
  BY <1>1, <1>2, StartsGrow DEF CInv
<1>3. CASE NodeStart
  <2>1. PICK m \in CommandMsg : /\ starts' = [starts EXCEPT ![m.cmd] = @ + 1]
                                /\ pending' = m.cmd
    BY <1>3 DEF NodeStart
  <2>2. m.cmd \in Cmd
    BY DEF CommandMsg
  <2> QED
    BY <1>1, <2>1, <2>2
<1>4. CASE NodeComplete \/ NodeReboot
  BY <1>4 DEF NodeComplete, NodeReboot
<1>5. CASE \/ NodeReject \/ NodeRunAtOnce \/ NodeStartFails \/ HandleEvent \/ LoseCommand
           \/ LoseEvent \/ TimePasses \/ Restart
  BY <1>2, <1>5 DEF NodeReject, NodeRunAtOnce, NodeStartFails, HandleEvent, LoseCommand,
       LoseEvent, TimePasses, Restart
<1>6. ASSUME NEW c \in Cmd, Refuse(c) \/ Reserve(c) \/ RouterStep(c)
      PROVE  pending' = pending
  BY <1>6
  DEF Refuse, Reserve, RouterStep, ExecutorReturned, ExecutorThrew, MqttUnavailable,
      Prepare, PrepareFailed, Publish, PublishResolved, PublishThrew
<1>7. ASSUME NEW t \in Tick, TickStep(t) PROVE pending' = pending
  BY <1>7
  DEF TickStep, TickStart, TickReject, UnsentPrepare, AckTimedOut, AckNotDue, AckRetry,
      AwaitingStart, TickPrepareFailed, TickPublish, UnsentPublished, RetryPublished,
      TickPublishThrew, TickEnd, OthersOfTick
<1> QED
  BY <1>2, <1>3, <1>4, <1>5, <1>6, <1>7 DEF Next, ReliableNext, Node, vars

LEMMA CInvStep ==
  ASSUME CInv, [Next]_vars
  PROVE  CInv'
<1>1. TInv'
  BY TInvStep DEF CInv
<1>2. \A i \in 1..Len(toCloud') :
        toCloud'[i].status = "completed" => starts'[toCloud'[i].cmd] > 0
  BY EventsStep DEF Truthful
<1>3. ASSUME NEW c \in Cmd \ Direct, rec'[c].status = "completed"
      PROVE  starts'[c] > 0
  <2>1. starts[c] > 0 => starts'[c] > 0
    BY StartsGrow DEF CInv
  <2>2. CASE rec[c].status = "completed"
    BY <2>1, <2>2 DEF CInv, CompletedWasActuated
  <2>3. CASE ExecutorReturned(c)
    BY <2>3 DEF ExecutorReturned, CInv
  <2>4. CASE HandleEvent /\ toCloud[1].cmd = c /\ toCloud[1].status = "completed"
    <3>1. 1 \in 1..Len(toCloud)
      BY <2>4 DEF HandleEvent, CInv, TInv, TypeOK
    <3> QED
      BY <2>1, <2>4, <3>1 DEF CInv
  <2> QED
    BY <1>3, <2>2, <2>3, <2>4, CompletionsHaveCauses DEF CInv
<1>4. CompletedWasActuated'
  BY <1>3 DEF CompletedWasActuated
<1> QED
  BY <1>1, <1>2, <1>4, ExecutorStep, PendingStep DEF CInv

\* The cloud records completed only for a command that was carried out: by the
\* node, or by the executor of its domain pack.
THEOREM CompletionIsReal == Spec => []CompletedWasActuated
<1>1. Init => CInv
  BY InitTInv DEF Init, CInv, CompletedWasActuated, NoRecord
<1>2. CInv /\ [Next]_vars => CInv'
  BY CInvStep
<1>3. CInv => CompletedWasActuated
  BY DEF CInv
<1> QED
  BY <1>1, <1>2, <1>3, PTL DEF Spec

-----------------------------------------------------------------------------
(* The retry budget.  A tick decides to resend a command on the retries it *)
(* reads, and counts the retry when the publish has ended: between the two *)
(* another tick may decide the same.  What is inductive is the sum of the  *)
(* retries counted and the retries decided, which overlapping ticks take   *)
(* above the budget by their number less one; and that the resends spent   *)
(* are within the retries counted and the resends being published.         *)

\* Tick t has decided to resend c and has not counted the retry.
Decided(t, c) ==
  tick[t].phase = "awaiting" /\ tick[t].step # "loop" /\ tick[t].cur = c

Resending(c) == {t \in Tick : Decided(t, c)}

BudgetOf(c) ==
  /\ Resending(c) # {} => MaxRetries > 0
  /\ \/ rec[c].retries = 0
     \/ rec[c].retries + Cardinality(Resending(c)) <= MaxRetries + Cardinality(Tick) - 1

SpentOf(c) ==
  /\ spent[c] \in Int
  /\ spent[c] <= rec[c].retries + Cardinality(Publishing(c))

BInv == RInv /\ \A c \in Cmd : BudgetOf(c)

SInv == BInv /\ \A c \in Cmd : SpentOf(c)

\* The kinds of steps: nothing is decided or counted; a tick decides to resend
\* c with budget left; a tick that had decided so is done.
KeepsBudget(c) ==
  /\ rec'[c].retries = rec[c].retries
  /\ Resending(c)' \subseteq Resending(c)

Decides(c) ==
  /\ rec[c].retries < MaxRetries
  /\ rec'[c].retries = rec[c].retries

Counts(c) ==
  \E t \in Resending(c) :
    /\ rec'[c].retries \in {rec[c].retries, rec[c].retries + 1}
    /\ Resending(c)' \subseteq Resending(c) \ {t}
    /\ \A u \in Tick \ {t} : tick'[u] = tick[u]

\* The arithmetic: whichever kind of step, the sum stays within the bound.
LEMMA BudgetKinds ==
  ASSUME IsFiniteSet(Tick), NEW c \in Cmd, rec[c].retries \in Nat, BudgetOf(c),
         KeepsBudget(c) \/ Decides(c) \/ Counts(c)
  PROVE  BudgetOf(c)'
<1> DEFINE R == Resending(c)
           S == Resending(c)'
           n == rec[c].retries
           m == rec'[c].retries
           N == Cardinality(Tick)
<1>1. /\ IsFiniteSet(R) /\ IsFiniteSet(S)
      /\ Cardinality(R) \in Nat /\ Cardinality(S) \in Nat /\ N \in Nat
      /\ Cardinality(R) <= N /\ Cardinality(S) <= N
  <2>1. R \subseteq Tick /\ S \subseteq Tick
    BY DEF Resending
  <2> QED
    BY <2>1, FS_Subset, FS_CardinalityType
<1>2. MaxRetries \in Nat
  BY StoreConstants
<1>3. /\ R # {} => MaxRetries > 0
      /\ n = 0 \/ n + Cardinality(R) <= MaxRetries + N - 1
  BY DEF BudgetOf
<1>4. CASE KeepsBudget(c)
  <2>1. m = n /\ S \subseteq R
    BY <1>4 DEF KeepsBudget
  <2>2. Cardinality(S) <= Cardinality(R)
    BY <1>1, <2>1, FS_Subset
  <2>3. n \in Nat
    OBVIOUS
  <2> HIDE DEF R, S, n, m, N
  <2>4. S # {} => MaxRetries > 0
    BY <1>3, <2>1
  <2>5. m = 0 \/ m + Cardinality(S) <= MaxRetries + N - 1
    BY <1>1, <1>2, <1>3, <2>1, <2>2, <2>3
  <2> QED
    BY <2>4, <2>5 DEF BudgetOf, R, S, n, m, N
<1>5. CASE Decides(c)
  <2>1. n < MaxRetries /\ m = n /\ n \in Nat
    BY <1>5 DEF Decides
  <2> HIDE DEF R, S, n, m, N
  <2>2. MaxRetries > 0 /\ m + Cardinality(S) <= MaxRetries + N - 1
    BY <1>1, <1>2, <2>1
  <2> QED
    BY <2>2 DEF BudgetOf, R, S, n, m, N
<1>6. CASE Counts(c)
  <2>1. PICK t \in R : m \in {n, n + 1} /\ S \subseteq R \ {t}
    BY <1>6 DEF Counts
  <2>2. /\ IsFiniteSet(R \ {t})
        /\ Cardinality(R \ {t}) = Cardinality(R) - 1
    BY <1>1, FS_RemoveElement
  <2>3. Cardinality(S) <= Cardinality(R) - 1
    BY <2>1, <2>2, FS_Subset
  <2>4. n \in Nat
    OBVIOUS
  <2> HIDE DEF R, S, n, m, N
  <2>5. MaxRetries > 0
    BY <1>3, <2>1
  <2>6. m = 0 \/ m + Cardinality(S) <= MaxRetries + N - 1
    BY <1>1, <1>2, <1>3, <2>1, <2>3, <2>4, <2>5
  <2> QED
    BY <2>5, <2>6 DEF BudgetOf, R, S, n, m, N
<1> QED
  BY <1>4, <1>5, <1>6

\* The store's operations keep the retries, but recordCommandRetry.
LEMMA StoreRetries ==
  ASSUME NEW r \in Record
  PROVE  /\ MarkCommandSent(r).retries = r.retries
         /\ MarkCommandFailed(r).retries = r.retries
         /\ MarkCommandTimeout(r).retries = r.retries
         /\ RecordCommandRetry(r).retries \in {r.retries, r.retries + 1}
         /\ \A s : ApplyCommandEvent(r, s).retries = r.retries
         /\ \A b \in BOOLEAN : HandleConfigPrepareFailure(r, b).retries = r.retries
<1>1. \A s : SetStatus(r, s).retries = r.retries
  BY DEF SetStatus, Record
<1>2. MarkCommandFailed(r).retries = r.retries
  BY <1>1 DEF MarkCommandFailed
<1>3. ASSUME NEW b \in BOOLEAN
      PROVE  HandleConfigPrepareFailure(r, b).retries = r.retries
  <2> DEFINE counted == RecordConfigSyncAttempt(r)
  <2>1. counted = r \/ counted = [r EXCEPT !.attempts = @ + 1]
    BY DEF RecordConfigSyncAttempt
  <2>2. counted.retries = r.retries
    BY <2>1 DEF Record
  <2>3. SetStatus(counted, "failed").retries = r.retries
    BY <1>1, <2>1 DEF SetStatus, Record
  <2>4. MarkCommandFailed(counted) \in {counted, SetStatus(counted, "failed")}
    BY DEF MarkCommandFailed
  <2>5. HandleConfigPrepareFailure(r, b) \in
          {MarkCommandFailed(r), MarkCommandFailed(counted), counted}
    BY DEF HandleConfigPrepareFailure
  <2> HIDE DEF counted
  <2> QED
    BY <1>2, <2>2, <2>3, <2>4, <2>5
<1>4. RecordCommandRetry(r).retries \in {r.retries, r.retries + 1}
  BY DEF RecordCommandRetry, Record
<1>5. /\ MarkCommandSent(r).retries = r.retries
      /\ MarkCommandTimeout(r).retries = r.retries
      /\ \A s : ApplyCommandEvent(r, s).retries = r.retries
  BY <1>1 DEF MarkCommandSent, MarkCommandTimeout, ApplyCommandEvent
<1> QED
  BY <1>2, <1>3, <1>4, <1>5

-----------------------------------------------------------------------------
\* No record changes its retries.
RetriesKept == \A c \in Cmd : rec'[c].retries = rec[c].retries

\* No tick decides to resend.
NothingDecided == \A t \in Tick, c \in Cmd : Decided(t, c)' => Decided(t, c)

LEMMA NothingHappens ==
  ASSUME RetriesKept, NothingDecided, NEW c \in Cmd
  PROVE  KeepsBudget(c)
  BY DEF RetriesKept, NothingDecided, KeepsBudget, Resending

LEMMA OneRecord ==
  ASSUME rec \in [Cmd -> Record], NEW c, NEW r,
         c \in Cmd => r.retries = rec[c].retries,
         rec' = [rec EXCEPT ![c] = r]
  PROVE  RetriesKept
  BY DEF RetriesKept

\* A tick that goes to x: out of the second loop, to its head, or on.
LEMMA OneTick ==
  ASSUME TicksTyped, NEW t \in Tick, NEW x,
         \/ x.phase # "awaiting"
         \/ x.step = "loop"
         \/ /\ tick[t].step # "loop"
            /\ x.phase = tick[t].phase
            /\ x.cur = tick[t].cur,
         tick' = [tick EXCEPT ![t] = x]
  PROVE  NothingDecided
  BY DEF NothingDecided, Decided, TicksTyped

\* A new sent_at decides nothing.
LEMMA Restamping ==
  ASSUME NEW next \in [Tick -> TickState], NEW c,
         tick' = next \/ tick' = [t \in Tick |-> [next[t] EXCEPT !.elapsed[c] = 0]],
         NEW t \in Tick
  PROVE  /\ tick'[t].phase = next[t].phase
         /\ tick'[t].step = next[t].step
         /\ tick'[t].cur = next[t].cur
<1>1. CASE tick' = next
  BY <1>1
<1>2. CASE tick' = [u \in Tick |-> [next[u] EXCEPT !.elapsed[c] = 0]]
  <2>1. next[t] \in TickState
    OBVIOUS
  <2>2. tick'[t] = [next[t] EXCEPT !.elapsed = [next[t].elapsed EXCEPT ![c] = 0]]
    BY <1>2
  <2> QED
    BY <2>1, <2>2 DEF TickState
<1> QED
  BY <1>1, <1>2

LEMMA RouterBudget ==
  ASSUME RInv, NEW d \in Cmd, Refuse(d) \/ Reserve(d) \/ RouterStep(d), NEW c \in Cmd
  PROVE  KeepsBudget(c)
<1>1. TInv /\ rec \in [Cmd -> Record] /\ TicksTyped
  BY DEF RInv, TInv, TypeOK, TicksTyped
<1>2. NothingDecided
  <2>1. CASE UNCHANGED tick
    BY <2>1 DEF NothingDecided, Decided
  <2>2. CASE PublishResolved(d) \/ ExecutorReturned(d)
    <3>1. \/ tick' = tick
          \/ tick' = [t \in Tick |-> [tick[t] EXCEPT !.elapsed[d] = 0]]
      BY <2>2 DEF PublishResolved, Sent, ExecutorReturned, Restamped
    <3>2. \A t \in Tick : /\ tick'[t].phase = tick[t].phase
                          /\ tick'[t].step = tick[t].step
                          /\ tick'[t].cur = tick[t].cur
      BY <1>1, <3>1, Restamping DEF TicksTyped
    <3> QED
      BY <3>2 DEF NothingDecided, Decided
  <2> QED
    BY <2>1, <2>2
    DEF Refuse, Reserve, RouterStep, ExecutorThrew, MqttUnavailable, Prepare,
        PrepareFailed, Publish, PublishThrew
<1>3. CASE Reserve(d)
  <2>1. rec' = [rec EXCEPT ![d] = CreateCommand]
    BY <1>3 DEF Reserve
  <2>2. CreateCommand.retries = 0
    BY DEF CreateCommand, NoRecord
  <2>3. rec[d].retries = 0
    BY <1>3 DEF Reserve, RInv, IdleHasNoRecord, TInv, StoreSound, Sound
  <2>4. rec'[c].retries = rec[c].retries
    BY <1>1, <2>1, <2>2, <2>3
  <2> QED
    BY <1>2, <2>4 DEF KeepsBudget, NothingDecided, Resending
<1>4. CASE Refuse(d) \/ RouterStep(d)
  <2>1. RetriesKept
    <3>1. CASE UNCHANGED rec
      BY <3>1 DEF RetriesKept
    <3>2. CASE rec' = [rec EXCEPT ![d] = MarkCommandFailed(rec[d])]
      BY <1>1, <3>2, OneRecord, StoreRetries
    <3>3. CASE rec' = [rec EXCEPT ![d] = MarkCommandSent(rec[d])]
      BY <1>1, <3>3, OneRecord, StoreRetries
    <3>4. CASE rec' = [rec EXCEPT ![d] =
                         ApplyCommandEvent(MarkCommandSent(rec[d]), "completed")]
      <4> DEFINE sent == MarkCommandSent(rec[d])
      <4>1. sent \in Record
        BY <1>1, StoreMoves DEF TInv, StoreSound, Moves, Sound
      <4>2. sent.retries = rec[d].retries
        BY <1>1, StoreRetries
      <4> HIDE DEF sent
      <4>3. ApplyCommandEvent(sent, "completed").retries = rec[d].retries
        BY <4>1, <4>2, StoreRetries
      <4> QED
        BY <1>1, <3>4, <4>3, OneRecord DEF sent
    <3> QED
      BY <1>4, <3>1, <3>2, <3>3, <3>4
      DEF Refuse, RouterStep, ExecutorReturned, ExecutorThrew, MqttUnavailable,
          Prepare, PrepareFailed, Publish, PublishResolved, PublishThrew, Sent
  <2> QED
    BY <1>2, <2>1, NothingHappens
<1> QED
  BY <1>3, <1>4

\* A tick that counts the retry it had decided, or had one attempt more at the
\* configuration.
LEMMA CountingTick ==
  ASSUME TInv, NEW t \in Tick, RetryPublished(t) \/ TickPrepareFailed(t), NEW c \in Cmd
  PROVE  KeepsBudget(c) \/ Counts(c)
<1> DEFINE d == tick[t].cur
<1>1. rec \in [Cmd -> Record] /\ tick \in [Tick -> TickState] /\ TicksTyped
  BY DEF TInv, TypeOK, TicksTyped
<1>2. d \in Cmd /\ tick[t].step # "loop"
  BY DEF RetryPublished, TickPrepareFailed, TInv, CurrentIsCommand
<1>3. tick' = [tick EXCEPT ![t] = BackToLoop(t)]
  BY DEF RetryPublished, TickPrepareFailed
<1>4. BackToLoop(t).step = "loop"
  BY <1>1, BackToLoopTyped
<1>5. NothingDecided
  BY <1>1, <1>3, <1>4, OneTick
<1>6. ~Decided(t, c)'
  BY <1>1, <1>3, <1>4 DEF Decided
<1>7. \E r : /\ rec' = [rec EXCEPT ![d] = r]
             /\ r.retries \in {rec[d].retries, rec[d].retries + 1}
             /\ tick[t].phase # "awaiting" => r.retries = rec[d].retries
  <2>1. CASE RetryPublished(t)
    <3>1. /\ rec' = [rec EXCEPT ![d] = RecordCommandRetry(rec[d])]
          /\ tick[t].phase = "awaiting"
      BY <2>1 DEF RetryPublished
    <3> HIDE DEF d
    <3> QED
      BY <1>1, <1>2, <3>1, StoreRetries
  <2>2. CASE TickPrepareFailed(t)
    <3>1. PICK b \in BOOLEAN :
            rec' = [rec EXCEPT ![d] =
                      IF tick[t].phase = "awaiting"
                      THEN RecordCommandRetry(HandleConfigPrepareFailure(rec[d], b))
                      ELSE HandleConfigPrepareFailure(rec[d], b)]
      BY <2>2 DEF TickPrepareFailed
    <3> DEFINE failed == HandleConfigPrepareFailure(rec[d], b)
    <3>2. failed \in Record
      BY <1>2, StoreMoves DEF TInv, StoreSound, Moves, Sound
    <3>3. failed.retries = rec[d].retries
      BY <1>1, <1>2, StoreRetries
    <3> HIDE DEF d, failed
    <3>4. RecordCommandRetry(failed).retries \in {rec[d].retries, rec[d].retries + 1}
      BY <3>2, <3>3, StoreRetries
    <3> QED
      BY <3>1, <3>3, <3>4 DEF failed
  <2> QED
    BY <2>1, <2>2
<1>8. CASE c # d \/ tick[t].phase # "awaiting"
  <2>1. rec'[c].retries = rec[c].retries
    BY <1>1, <1>2, <1>7, <1>8
  <2> QED
    BY <1>5, <2>1 DEF KeepsBudget, NothingDecided, Resending
<1>9. CASE c = d /\ tick[t].phase = "awaiting"
  <2>1. t \in Resending(c)
    BY <1>2, <1>9 DEF Resending, Decided
  <2>2. rec'[c].retries \in {rec[c].retries, rec[c].retries + 1}
    BY <1>1, <1>2, <1>7, <1>9
  <2>3. Resending(c)' \subseteq Resending(c) \ {t}
    BY <1>5, <1>6 DEF Resending, NothingDecided
  <2>4. \A u \in Tick \ {t} : tick'[u] = tick[u]
    BY <1>1, <1>3
  <2> QED
    BY <2>1, <2>2, <2>3, <2>4 DEF Counts
<1> QED
  BY <1>8, <1>9

LEMMA TickBudget ==
  ASSUME TInv, NEW t \in Tick, TickStep(t), NEW c \in Cmd
  PROVE  KeepsBudget(c) \/ Decides(c) \/ Counts(c)
<1>1. /\ rec \in [Cmd -> Record] /\ tick \in [Tick -> TickState]
      /\ tick[t] \in TickState /\ TicksTyped
  BY DEF TInv, TypeOK, TicksTyped
<1>2. CASE RetryPublished(t) \/ TickPrepareFailed(t)
  BY <1>2, CountingTick
<1>3. ASSUME NEW d \in Cmd, AckRetry(t, d) PROVE KeepsBudget(c) \/ Decides(c)
  <2>1. rec[d].retries < MaxRetries
    <3>1. ~(rec[d].retries >= MaxRetries)
      BY <1>3 DEF AckRetry, ActionFor, AwaitingAckAction
    <3> QED
      BY <1>1, <3>1, StoreConstants DEF Record
  <2>2. UNCHANGED rec
    BY <1>3 DEF AckRetry
  <2>3. CASE c = d
    BY <2>1, <2>2, <2>3 DEF Decides
  <2>4. CASE c # d
    <3> DEFINE x == [[[tick[t] EXCEPT !.todo = @ \ {d}] EXCEPT !.step = "prepare"]
                       EXCEPT !.cur = d]
    <3>1. x.cur = d
      BY <1>1 DEF TickState
    <3>2. tick' = [tick EXCEPT ![t] = x]
      BY <1>1, <1>3 DEF AckRetry, TickGoPrepare
    <3> HIDE DEF x
    <3>3. \A s \in Tick : Decided(s, c)' => Decided(s, c)
      BY <1>1, <2>4, <3>1, <3>2 DEF Decided
    <3> QED
      BY <2>2, <3>3 DEF KeepsBudget, Resending
  <2> QED
    BY <2>3, <2>4
<1>4. CASE UnsentPublished(t)
  <2> DEFINE next == [tick EXCEPT ![t] = BackToLoop(t)]
             d == tick[t].cur
  <2>1. next \in [Tick -> TickState]
    BY <1>1, BackToLoopTyped
  <2>2. \/ tick' = next
        \/ tick' = [u \in Tick |-> [next[u] EXCEPT !.elapsed[d] = 0]]
    BY <1>4 DEF UnsentPublished, Sent
  <2>3. \A u \in Tick : next[u].step = "loop" \/ next[u] = tick[u]
    BY <1>1, BackToLoopTyped
  <2>4. rec' = [rec EXCEPT ![d] = MarkCommandSent(rec[d])]
    BY <1>4 DEF UnsentPublished, Sent
  <2> HIDE DEF next, d
  <2>5. NothingDecided
    <3>1. \A u \in Tick : /\ tick'[u].phase = next[u].phase
                          /\ tick'[u].step = next[u].step
                          /\ tick'[u].cur = next[u].cur
      BY <2>1, <2>2, Restamping
    <3> QED
      BY <2>3, <3>1 DEF NothingDecided, Decided
  <2>6. RetriesKept
    BY <1>1, <2>4, OneRecord, StoreRetries
  <2> QED
    BY <2>5, <2>6, NothingHappens
<1>5. ASSUME NEW d \in Cmd, TickReject(t, d) \/ AckTimedOut(t, d) \/ AckNotDue(t, d)
      PROVE  KeepsBudget(c)
  <2> DEFINE x == [tick[t] EXCEPT !.todo = @ \ {d}]
  <2>1. x.step = "loop"
    BY <1>1, <1>5 DEF TickReject, AckTimedOut, AckNotDue, TickState
  <2>2. tick' = [tick EXCEPT ![t] = x]
    BY <1>5 DEF TickReject, AckTimedOut, AckNotDue
  <2>3. \E r : rec' = [rec EXCEPT ![d] = r] /\ r.retries = rec[d].retries
    <3>1. \/ rec' = [rec EXCEPT ![d] = MarkCommandFailed(rec[d])]
          \/ rec' = [rec EXCEPT ![d] = MarkCommandTimeout(rec[d])]
          \/ rec' = [rec EXCEPT ![d] = rec[d]]
      BY <1>1, <1>5 DEF TickReject, AckTimedOut, AckNotDue
    <3> QED
      BY <1>1, <3>1, StoreRetries
  <2> HIDE DEF x
  <2>4. RetriesKept
    BY <1>1, <2>3, OneRecord
  <2> QED
    BY <1>1, <2>1, <2>2, <2>4, OneTick, NothingHappens
<1>6. ASSUME \/ TickStart(t) \/ AwaitingStart(t) \/ TickPublish(t)
             \/ TickPublishThrew(t) \/ TickEnd(t)
             \/ \E d \in Cmd : UnsentPrepare(t, d)
      PROVE  KeepsBudget(c)
  <2>1. RetriesKept
    BY <1>6 DEF RetriesKept, TickStart, AwaitingStart, TickPublish, TickPublishThrew,
                TickEnd, UnsentPrepare
  <2>2. NothingDecided
    <3>1. CASE TickStart(t)
      <4>1. \E x : tick' = [tick EXCEPT ![t] = x] /\ x.step = "loop"
        <5> DEFINE x == [phase |-> "unsent", step |-> "loop", cur |-> NoCmd,
                         todo |-> {e \in Cmd : rec[e].status = "created"},
                         elapsed |-> [e \in Cmd |-> rec[e].age]]
        <5>1. tick' = [tick EXCEPT ![t] = x] /\ x.step = "loop"
          BY <3>1 DEF TickStart
        <5> HIDE DEF x
        <5> QED
          BY <5>1
      <4> QED
        BY <1>1, <4>1, OneTick
    <3>2. CASE AwaitingStart(t)
      <4>1. \E x : tick' = [tick EXCEPT ![t] = x] /\ x.step = "loop"
        <5> DEFINE x == [[tick[t] EXCEPT !.phase = "awaiting"]
                           EXCEPT !.todo = {e \in Cmd : rec[e].status = "sent"}]
        <5>1. tick' = [tick EXCEPT ![t] = x]
          BY <1>1, <3>2 DEF AwaitingStart
        <5>2. x.step = "loop"
          BY <1>1, <3>2 DEF AwaitingStart, TickState
        <5> HIDE DEF x
        <5> QED
          BY <5>1, <5>2
      <4> QED
        BY <1>1, <4>1, OneTick
    <3>3. CASE TickPublish(t)
      <4> DEFINE x == [tick[t] EXCEPT !.step = "publish"]
      <4>1. /\ tick' = [tick EXCEPT ![t] = x]
            /\ tick[t].step # "loop"
            /\ x.phase = tick[t].phase /\ x.cur = tick[t].cur
        BY <1>1, <3>3 DEF TickPublish, TickState
      <4> HIDE DEF x
      <4> QED
        BY <1>1, <4>1, OneTick
    <3>4. CASE TickPublishThrew(t)
      BY <1>1, <3>4, BackToLoopTyped, OneTick DEF TickPublishThrew
    <3>5. CASE TickEnd(t)
      <4>1. IdleTick.step = "loop"
        BY DEF IdleTick
      <4> QED
        BY <1>1, <3>5, <4>1, OneTick DEF TickEnd
    <3>6. ASSUME NEW d \in Cmd, UnsentPrepare(t, d) PROVE NothingDecided
      <4> DEFINE x == [[[tick[t] EXCEPT !.todo = @ \ {d}] EXCEPT !.step = "prepare"]
                         EXCEPT !.cur = d]
      <4>1. x.phase = "unsent"
        BY <1>1, <3>6 DEF UnsentPrepare, TickState
      <4>2. tick' = [tick EXCEPT ![t] = x]
        BY <1>1, <3>6 DEF UnsentPrepare, TickGoPrepare
      <4> HIDE DEF x
      <4> QED
        BY <1>1, <4>1, <4>2, OneTick
    <3> QED
      BY <1>6, <3>1, <3>2, <3>3, <3>4, <3>5, <3>6
  <2> QED
    BY <2>1, <2>2, NothingHappens
<1> QED
  BY <1>2, <1>3, <1>4, <1>5, <1>6 DEF TickStep

LEMMA StepBudget ==
  ASSUME RInv, [Next]_vars, NEW c \in Cmd
  PROVE  KeepsBudget(c) \/ Decides(c) \/ Counts(c)
<1>1. TInv /\ rec \in [Cmd -> Record]
  BY DEF RInv, TInv, TypeOK
<1>2. ASSUME NEW d \in Cmd, Refuse(d) \/ Reserve(d) \/ RouterStep(d) PROVE KeepsBudget(c)
  BY <1>2, RouterBudget
<1>3. ASSUME NEW t \in Tick, TickStep(t)
      PROVE  KeepsBudget(c) \/ Decides(c) \/ Counts(c)
  BY <1>1, <1>3, TickBudget
<1>4. CASE Restart
  <2>1. IdleTick.phase # "awaiting"
    BY DEF IdleTick
  <2>2. NothingDecided /\ RetriesKept
    BY <1>4, <2>1 DEF Restart, NothingDecided, Decided, RetriesKept
  <2> QED
    BY <2>2, NothingHappens
<1>5. CASE HandleEvent
  <2> DEFINE e == Head(toCloud)
  <2>1. rec' = [rec EXCEPT ![e.cmd] = ApplyCommandEvent(rec[e.cmd], e.status)]
        /\ UNCHANGED tick
    BY <1>5 DEF HandleEvent
  <2> HIDE DEF e
  <2>2. RetriesKept
    BY <1>1, <2>1, StoreRetries, OneRecord
  <2> QED
    BY <2>1, <2>2, NothingHappens DEF NothingDecided, Decided
<1>6. CASE TimePasses
  <2>1. RetriesKept
    <3> SUFFICES ASSUME NEW d \in Cmd PROVE rec'[d].retries = rec[d].retries
      BY DEF RetriesKept
    <3>1. rec'[d] = rec[d] \/ rec'[d] = [rec[d] EXCEPT !.age = @ + 1]
      BY <1>6 DEF TimePasses
    <3> QED
      BY <1>1, <3>1 DEF Record
  <2> QED
    BY <1>6, <2>1, NothingHappens DEF TimePasses, NothingDecided, Decided
<1>7. CASE Node \/ LoseCommand \/ LoseEvent \/ NodeReboot \/ UNCHANGED vars
  <2>1. UNCHANGED <<rec, tick>>
    BY <1>7 DEF Node, NodeReject, NodeStart, NodeRunAtOnce, NodeStartFails, NodeComplete,
                OthersOfNode, LoseCommand, LoseEvent, NodeReboot, vars
  <2> QED
    BY <2>1, NothingHappens DEF NothingDecided, RetriesKept, Decided
<1> QED
  BY <1>2, <1>3, <1>4, <1>5, <1>6, <1>7 DEF Next, ReliableNext

LEMMA InitBInv == Init => BInv
<1> SUFFICES ASSUME Init PROVE BInv
  OBVIOUS
<1>1. IdleTick.phase # "awaiting" /\ NoRecord.retries = 0
  BY DEF IdleTick, NoRecord
<1>2. \A c \in Cmd : Resending(c) = {} /\ rec[c].retries = 0
  BY <1>1 DEF Init, Resending, Decided
<1> QED
  BY <1>2, InitRInv DEF BInv, BudgetOf

LEMMA BInvStep ==
  ASSUME IsFiniteSet(Tick)
  PROVE  BInv /\ [Next]_vars => BInv'
<1> SUFFICES ASSUME BInv, [Next]_vars PROVE BInv'
  OBVIOUS
<1>1. RInv'
  BY RInvStep DEF BInv
<1>2. ASSUME NEW c \in Cmd PROVE BudgetOf(c)'
  <2>1. rec[c].retries \in Nat
    BY DEF BInv, RInv, TInv, TypeOK, Record
  <2>2. KeepsBudget(c) \/ Decides(c) \/ Counts(c)
    BY StepBudget DEF BInv
  <2> QED
    BY <2>1, <2>2, BudgetKinds DEF BInv
<1> QED
  BY <1>1, <1>2 DEF BInv

\* What the counting makes of the resends spent, whatever the retries do.
LEMMA Counting ==
  ASSUME IsFiniteSet(Tick), NEW c \in Cmd
  PROVE  /\ Cardinality(Publishing(c)) \in Nat /\ Cardinality(Publishing(c)') \in Nat
         /\ Cardinality(Begun(c)) \in Nat
         /\ Cardinality(Publishing(c) \ Publishing(c)') \in Nat
         /\ Cardinality(Publishing(c)')
              = Cardinality(Publishing(c)) + Cardinality(Begun(c))
                - Cardinality(Publishing(c) \ Publishing(c)')
<1> DEFINE P == Publishing(c)
           Q == Publishing(c)'
<1>1. IsFiniteSet(P) /\ IsFiniteSet(Q)
  <2>1. P \subseteq Tick /\ Q \subseteq Tick
    BY DEF Publishing
  <2> QED
    BY <2>1, FS_Subset
<1>2. Begun(c) = Q \ P
  BY DEF Begun
<1> HIDE DEF P, Q
<1> DEFINE p == Cardinality(P)
           q == Cardinality(Q)
           l == Cardinality(P \ Q)
           b == Cardinality(Q \ P)
           i == Cardinality(P \cap Q)
<1>3. /\ IsFiniteSet(P \ Q) /\ l = p - i
      /\ IsFiniteSet(Q \ P) /\ b = q - Cardinality(Q \cap P)
  BY <1>1, FS_Difference
<1>4. Q \cap P = P \cap Q
  OBVIOUS
<1>5. b = q - i
  BY <1>3, <1>4
<1>6. p \in Nat /\ q \in Nat /\ l \in Nat /\ b \in Nat /\ i \in Nat
  BY <1>1, <1>3, FS_Intersection, FS_CardinalityType
<1>7. q = p + b - l
  <2> HIDE DEF p, q, l, b, i
  <2> QED
    BY <1>3, <1>5, <1>6
<1> QED
  BY <1>2, <1>6, <1>7 DEF P, Q

\* A step that counts a retry ends one resend at most.
LEMMA CountedEndsOne ==
  ASSUME NEW c \in Cmd, Counts(c)
  PROVE  Cardinality(Publishing(c) \ Publishing(c)') <= 1
<1>1. PICK t \in Tick : \A u \in Tick \ {t} : tick'[u] = tick[u]
  BY DEF Counts, Resending
<1>2. \A u \in Publishing(c) \ Publishing(c)' : u = t
  BY <1>1 DEF Publishing
<1> DEFINE L == Publishing(c) \ Publishing(c)'
<1>3. L = {} \/ L = {t}
  <2> HIDE DEF L
  <2>1. \A u \in L : u = t
    BY <1>2 DEF L
  <2> QED
    BY <2>1
<1> HIDE DEF L
<1>4. Cardinality(L) \in {0, 1}
  BY <1>3, FS_EmptySet, FS_Singleton
<1>5. Cardinality(L) <= 1
  BY <1>4
<1> QED
  BY <1>5 DEF L

LEMMA SpentStep ==
  ASSUME IsFiniteSet(Tick), NEW c \in Cmd, rec[c].retries \in Nat, SpentOf(c),
         KeepsBudget(c) \/ Decides(c) \/ Counts(c),
         spent'[c] = spent[c] + Cardinality(Begun(c)) - Cardinality(Uncounted(c))
  PROVE  SpentOf(c)'
<1> DEFINE n == rec[c].retries
           m == rec'[c].retries
           p == Cardinality(Publishing(c))
           q == Cardinality(Publishing(c)')
           b == Cardinality(Begun(c))
           l == Cardinality(Publishing(c) \ Publishing(c)')
           u == Cardinality(Uncounted(c))
           x == spent[c]
           y == spent'[c]
<1>1. p \in Nat /\ q \in Nat /\ b \in Nat /\ l \in Nat /\ q = p + b - l
  BY Counting
<1>2. n \in Nat /\ x \in Int /\ x <= n + p /\ y = x + b - u
  BY DEF SpentOf
<1>3. CASE m = n
  <2>1. Uncounted(c) = Publishing(c) \ Publishing(c)'
    BY <1>2, <1>3 DEF Uncounted
  <2>2. u = l
    BY <2>1
  <2> HIDE DEF n, m, p, q, b, l, u, x, y
  <2>3. y \in Int /\ y <= m + q
    BY <1>1, <1>2, <1>3, <2>2
  <2> QED
    BY <2>3 DEF SpentOf, m, q, y
<1>4. CASE m = n + 1 /\ Counts(c)
  <2>1. Uncounted(c) = {}
    BY <1>2, <1>4 DEF Uncounted
  <2>2. u = 0
    BY <2>1, FS_EmptySet
  <2>3. l <= 1
    BY <1>4, CountedEndsOne
  <2> HIDE DEF n, m, p, q, b, l, u, x, y
  <2>4. y \in Int /\ y <= m + q
    BY <1>1, <1>2, <1>4, <2>2, <2>3
  <2> QED
    BY <2>4 DEF SpentOf, m, q, y
<1> QED
  BY <1>3, <1>4 DEF KeepsBudget, Decides, Counts

LEMMA SInvStep ==
  ASSUME IsFiniteSet(Tick)
  PROVE  SInv /\ [ResendsNext]_<<vars, spent>> => SInv'
<1> SUFFICES ASSUME SInv, [ResendsNext]_<<vars, spent>> PROVE SInv'
  OBVIOUS
<1>1. BInv'
  BY BInvStep DEF SInv, ResendsNext
<1>2. ASSUME NEW c \in Cmd PROVE SpentOf(c)'
  <2>1. CASE ResendsNext
    <3>1. RInv /\ [Next]_vars /\ rec[c].retries \in Nat /\ SpentOf(c)
      BY <2>1 DEF SInv, BInv, RInv, TInv, TypeOK, Record, ResendsNext
    <3>2. KeepsBudget(c) \/ Decides(c) \/ Counts(c)
      BY <3>1, StepBudget
    <3>3. spent'[c] = spent[c] + Cardinality(Begun(c)) - Cardinality(Uncounted(c))
      BY <2>1 DEF ResendsNext
    <3> QED
      BY <3>1, <3>2, <3>3, SpentStep
  <2>2. CASE UNCHANGED <<vars, spent>>
    BY <2>2 DEF SInv, SpentOf, Publishing, vars
  <2> QED
    BY <2>1, <2>2
<1> QED
  BY <1>1, <1>2 DEF SInv

\* A command is resent at most COMMAND_MAX_RETRIES times, once more for every
\* further tick that may overlap, and once more for every resend that ended
\* uncounted, for any commands, ticks and bounds.
THEOREM ResendsAreBounded ==
  ASSUME IsFiniteSet(Tick), Tick # {}
  PROVE  ResendsSpec => []ResendsBounded
<1>1. ResendsInit => SInv
  <2> SUFFICES ASSUME ResendsInit PROVE SInv
    OBVIOUS
  <2>1. Init /\ \A c \in Cmd : spent[c] = 0
    BY DEF ResendsInit
  <2>2. BInv
    BY <2>1, InitBInv
  <2>3. IdleTick.phase # "awaiting" /\ NoRecord.retries = 0
    BY DEF IdleTick, NoRecord
  <2>4. ASSUME NEW c \in Cmd PROVE SpentOf(c)
    <3>1. Publishing(c) = {} /\ rec[c].retries = 0 /\ spent[c] = 0
      BY <2>1, <2>3 DEF Init, Publishing
    <3>2. Cardinality(Publishing(c)) = 0
      BY <3>1, FS_EmptySet
    <3> QED
      BY <3>1, <3>2 DEF SpentOf
  <2> QED
    BY <2>2, <2>4 DEF SInv
<1>2. ResendsSpec => []SInv
  BY <1>1, SInvStep, PTL DEF ResendsSpec
<1>3. SInv => ResendsBounded
  <2> SUFFICES ASSUME SInv, NEW c \in Cmd
               PROVE  spent[c] <= MaxRetries + Cardinality(Tick) - 1
    BY DEF ResendsBounded
  <2> DEFINE p == Cardinality(Publishing(c))
             r == Cardinality(Resending(c))
             N == Cardinality(Tick)
             n == rec[c].retries
             x == spent[c]
  <2>1. p \in Nat /\ r \in Nat /\ N \in Nat /\ N # 0 /\ p <= r /\ r <= N
    <3>1. Publishing(c) \subseteq Resending(c) /\ Resending(c) \subseteq Tick
      BY DEF Publishing, Resending, Decided
    <3>2. IsFiniteSet(Resending(c)) /\ IsFiniteSet(Publishing(c))
      BY <3>1, FS_Subset
    <3> QED
      BY <3>1, <3>2, FS_Subset, FS_CardinalityType, FS_EmptySet
  <2>2. n \in Nat /\ MaxRetries \in Nat
    BY StoreConstants DEF SInv, BInv, RInv, TInv, TypeOK, Record
  <2>3. x \in Int /\ x <= n + p
    BY DEF SInv, SpentOf
  <2>4. n = 0 \/ n + r <= MaxRetries + N - 1
    BY DEF SInv, BInv, BudgetOf
  <2>5. r > 0 => MaxRetries > 0
    <3>1. r > 0 => Resending(c) # {}
      BY FS_EmptySet
    <3> QED
      BY <3>1 DEF SInv, BInv, BudgetOf
  <2> HIDE DEF p, r, N, n, x
  <2>6. x <= MaxRetries + N - 1
    BY <2>1, <2>2, <2>3, <2>4, <2>5
  <2> QED
    BY <2>6 DEF x, N
<1> QED
  BY <1>2, <1>3, PTL

=============================================================================
