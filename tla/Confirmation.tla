---------------------------- MODULE Confirmation ----------------------------
(***************************************************************************)
(* Pending confirmations of one user: what the platform asks before it     *)
(* acts (apps/api/src/policy/pending-confirm.ts), and the messages that    *)
(* confirm, cancel or correct it (packages/chat-runtime/src/pipeline.ts).  *)
(*                                                                         *)
(* Each process of the API keeps the rows in memory.  With the file        *)
(* backend there is one process and it saves them in the call that changes *)
(* them.  With Redis there may be several: a row is written behind the     *)
(* caller's back, a message first reads Redis into the process's memory,   *)
(* row by row, and what it reads never takes a row away.                   *)
(***************************************************************************)
EXTENDS Naturals, Sequences, FiniteSets

CONSTANTS Backends,       \* values of STATE_BACKEND to consider
          Replicas,       \* processes of the API
          Messages,       \* messages of the user that answer an ask
          Conversations,  \* his conversations: the web, a channel
          Scenes,         \* scene skills of proactive asks
          NoScene,        \* an ask with no scene skill
          MaxAsks,        \* bound: asks made
          MaxFaults       \* bound: crashes of a process and failed requests to Redis

ASSUME ConfirmationConstants ==
  /\ Backends \subseteq {"file", "redis"}
  /\ NoScene \notin Scenes
  /\ MaxAsks \in Nat /\ MaxFaults \in Nat

VARIABLES
  backend,   \* STATE_BACKEND, for the whole behaviour
  running,   \* processes that run
  memory,    \* [Replicas -> rows]: the Map `store`
  shared,    \* the rows in pending-confirm.json, or in Redis
  requests,  \* [Replicas -> requests to Redis on their way, in order]
  task,      \* [Messages -> the handling of the message]
  asks,      \* number of asks made
  expired,   \* asks older than TTL_MS
  settled,   \* asks the user was told about: executed, or cancelled
  swept,     \* asks that ended with another ask: replaced, or cleared with it
  faults     \* faults so far

stores == <<memory, shared, requests>>
ghosts == <<asks, expired, settled, swept>>
vars == <<backend, running, stores, task, ghosts, faults>>

-----------------------------------------------------------------------------
Asks == 1..MaxAsks

Row == [conversation : Conversations, scene : Scenes \union {NoScene}, ask : Asks]

\* storageKey, of one user.
Key(row) == <<row.conversation, row.scene>>

Live(rows) == {row \in rows : row.ask \notin expired}

\* Map.set: a row takes the place of the one with its key.
Put(rows, new) == {row \in rows : Key(row) # Key(new)} \union {new}

PutAll(rows, new) ==
  {row \in rows : \A n \in new : Key(row) # Key(n)} \union new

Drop(rows, keys) == {row \in rows : Key(row) \notin keys}

\* A request to Redis: a row written, keys removed, the keys listed for a
\* message (redisListNamespaceEntries), or the row of one of those keys.
SetRow(row) == [op |-> "set", row |-> row]
DelKeys(keys) == [op |-> "del", keys |-> keys]
Scan(m) == [op |-> "scan", message |-> m]
Get(m, keys) == [op |-> "get", message |-> m, keys |-> keys]

\* The requests that remove keys, one for each, served together: nothing tells
\* them apart.
Removal(keys) == IF keys = {} THEN <<>> ELSE <<DelKeys(keys)>>

\* What a message is while nothing is known of it.
Idle == [pc |-> "idle", kind |-> "none", replica |-> "none",
         conversation |-> "none", rows |-> {}, settledThen |-> {},
         expiredThen |-> {}, openThen |-> {}]

Init ==
  /\ backend \in Backends
  /\ running \in SUBSET Replicas
  /\ backend = "file" => \E r \in Replicas : running = {r}
  /\ running # {}
  /\ memory = [r \in Replicas |-> {}]
  /\ shared = {}
  /\ requests = [r \in Replicas |-> <<>>]
  /\ task = [m \in Messages |-> Idle]
  /\ asks = 0 /\ expired = {} /\ settled = {} /\ swept = {}
  /\ faults = 0

-----------------------------------------------------------------------------
(* The store *)

\* What a change of one process's rows does to the rows it shares: the file
\* is written in the same call, Redis by requests.
Keep(r, rows, sent) ==
  /\ memory' = [memory EXCEPT ![r] = rows]
  /\ IF backend = "file"
     THEN shared' = Live(rows) /\ UNCHANGED requests
     ELSE requests' = [requests EXCEPT ![r] = @ \o sent] /\ UNCHANGED shared

\* setPendingConfirm, from the router's confirmation step, a command's hook
\* or a proactive push: after the user was asked, or just before the reply.
Ask(r, c, s) ==
  /\ r \in running /\ asks < MaxAsks
  /\ LET row == [conversation |-> c, scene |-> s, ask |-> asks + 1] IN
     /\ Keep(r, Put(memory[r], row), <<SetRow(row)>>)
     /\ swept' = swept \union {x.ask : x \in {y \in memory[r] : Key(y) = Key(row)}}
  /\ asks' = asks + 1
  /\ UNCHANGED <<backend, running, task, expired, settled, faults>>

\* The 15 minutes of an ask are over: asks grow old in their order.
Expire(a) ==
  /\ a \in 1..asks /\ expired = 1..a - 1
  /\ expired' = expired \union {a}
  /\ UNCHANGED <<backend, running, stores, task, asks, settled, swept, faults>>

\* Mutant of Cleared: the row keeps its place in the store.
Cleared_Nothing(r, row) == {}

\* The keys clearPendingConfirm removes for a row: its own, or with no scene
\* skill those of every row of the conversation.
Cleared(r, row) ==
  IF row.scene # NoScene THEN {Key(row)}
  ELSE {Key(x) : x \in {y \in memory[r] : y.conversation = row.conversation}}

\* clearPendingConfirm(row), in a process whose memory holds `rows`, together
\* with the removal of the keys in `old`; told: the user learns of it.
Clear(r, row, rows, old, told) ==
  LET keys == Cleared(r, row) IN
  /\ Keep(r, Drop(rows, keys), Removal(old) \o Removal(keys))
  /\ settled' = settled \union told
  /\ swept' = swept \union
       ({x.ask : x \in {y \in rows : Key(y) \in keys}} \ {row.ask})

-----------------------------------------------------------------------------
(* A message that answers an ask *)

\* stageCorrection clears a row as a cancel does, before it goes on with the
\* correction as a message of its own.
Kinds == {"confirm", "cancel"}

\* The handling of a message goes on with the rows it knows of, or ends.
Goes(m, pc, rows) ==
  task' = [task EXCEPT ![m] = [@ EXCEPT !.pc = pc, !.rows = rows]]

Ends(m, pc) == task' = [task EXCEPT ![m] = [Idle EXCEPT !.pc = pc]]

\* A message reaches a process.  stageReceived asks Redis for the rows.
Receive(m, r, c, k) ==
  /\ task[m].pc = "idle" /\ r \in running
  /\ task' = [task EXCEPT ![m] =
       [pc |-> IF backend = "redis" THEN "reading" ELSE "refreshed",
        kind |-> k, replica |-> r, conversation |-> c, rows |-> {},
        settledThen |-> IF k = "confirm" THEN settled ELSE {},
        expiredThen |-> IF k = "confirm" THEN expired ELSE {},
        openThen |-> IF k = "confirm" /\ backend = "file"
                     THEN {x \in Live(shared) : x.conversation = c} ELSE {}]]
  /\ requests' = IF backend = "redis"
                 THEN [requests EXCEPT ![r] = Append(@, Scan(m))]
                 ELSE requests
  /\ UNCHANGED <<backend, running, memory, shared, ghosts, faults>>

\* What is read of Redis: of the rows that are too old it may or may not have
\* dropped some, as its own time to live starts when the row is written.
Found(rows) == {found \in SUBSET rows : Live(rows) \subseteq found}

\* A message that has read some rows and has keys left to read sends the next
\* request, behind those its process has sent meanwhile.
NextRead(r, m, rows, left) ==
  IF left = {}
  THEN /\ requests' = [requests EXCEPT ![r] = Tail(@)]
       /\ Goes(m, "read", rows)
  ELSE /\ requests' = [requests EXCEPT ![r] = Append(Tail(@), Get(m, left))]
       /\ Goes(m, "reading", rows)

\* Redis serves a process's requests in their order.
Serve(r) ==
  LET q == Head(requests[r]) IN
  /\ requests[r] # <<>>
  /\ \/ /\ \/ q.op = "set" /\ shared' = Put(shared, q.row)
           \/ q.op = "del" /\ shared' = Drop(shared, q.keys)
        /\ requests' = [requests EXCEPT ![r] = Tail(@)]
        /\ UNCHANGED task
     \/ /\ q.op = "scan"
        /\ \E rows \in Found(shared) : NextRead(r, q.message, {}, {Key(x) : x \in rows})
        /\ UNCHANGED shared
     \/ /\ q.op = "get"
        /\ \E k \in q.keys : \E rows \in Found({x \in shared : Key(x) = k}) :
             NextRead(r, q.message, task[q.message].rows \union rows, q.keys \ {k})
        /\ UNCHANGED shared
  /\ UNCHANGED <<backend, running, memory, ghosts, faults>>

\* A request fails.  A write that fails is logged, and no more; a message
\* whose read fails is not handled.
RequestFails(r) ==
  LET q == Head(requests[r]) IN
  /\ requests[r] # <<>> /\ faults < MaxFaults
  /\ \/ q.op = "set" /\ UNCHANGED <<shared, task>>
     \/ /\ q.op = "del"
        /\ \E keys \in SUBSET q.keys : shared' = Drop(shared, keys)
        /\ UNCHANGED task
     \/ q.op \in {"scan", "get"} /\ Ends(q.message, "over") /\ UNCHANGED shared
  /\ requests' = [requests EXCEPT ![r] = Tail(@)]
  /\ faults' = faults + 1
  /\ UNCHANGED <<backend, running, memory, ghosts>>

\* refreshPendingConfirmsForUserFromRedis, after its await: the rows it read
\* are put in memory; no row of memory that was not read is dropped.
Refresh(m) ==
  LET t == task[m]  r == t.replica
      old == t.rows \ Live(t.rows)
      oldKeys == {Key(x) : x \in old}
  IN
  /\ t.pc = "read"
  /\ Keep(r, PutAll(Drop(memory[r], oldKeys), Live(t.rows)), Removal(oldKeys))
  /\ Goes(m, "refreshed", {})
  /\ UNCHANGED <<backend, running, ghosts, faults>>

\* Mutant of Choice: with several rows, one of them.
Choice_Any(rows, c) == rows

\* resolvePendingConfirm: the conversation's only row, or with none there the
\* user's only row; the empty set when there is none or more than one.
Choice(rows, c) ==
  LET here == {x \in rows : x.conversation = c} IN
  IF Cardinality(here) > 1 THEN {}
  ELSE IF here # {} THEN here
  ELSE IF Cardinality(rows) = 1 THEN rows ELSE {}

\* Mutant of Unexpired: the rows of memory as they are.
Unexpired_All(rows) == rows

\* What the rows are when clearExpiredPending has run.
Unexpired(rows) == Live(rows)

\* stagePendingConfirm and stageCorrection up to their first await: a row is
\* cleared at once for a cancel or a correction, and remembered for a confirm.
Resolve(m) ==
  LET t == task[m]  r == t.replica
      rows == Unexpired(memory[r])
      old == {Key(x) : x \in memory[r] \ rows}
  IN
  /\ t.pc = "refreshed"
  /\ \/ /\ Choice(rows, t.conversation) = {}
        /\ Keep(r, rows, Removal(old))
        /\ Ends(m, "over")
        /\ UNCHANGED <<settled, swept>>
     \/ \E row \in Choice(rows, t.conversation) :
          IF t.kind = "confirm"
          THEN /\ Keep(r, rows, Removal(old))
               /\ Goes(m, "connecting", {row})
               /\ UNCHANGED <<settled, swept>>
          ELSE /\ Clear(r, row, rows, old, {row.ask})
               /\ Ends(m, "over")
  /\ UNCHANGED <<backend, running, asks, expired, faults>>

\* After `await connectMqtt`: the row is cleared, then routed as confirmed
\* (what the router makes of it is in CommandLifecycle).
Execute(m) ==
  LET t == task[m]  r == t.replica IN
  /\ t.pc = "connecting"
  /\ \E row \in t.rows : Clear(r, row, memory[r], {}, {row.ask})
  /\ Ends(m, "executed")
  /\ UNCHANGED <<backend, running, asks, expired, faults>>

\* connectMqtt throws: the message fails and the row stays.
ConnectFails(m) ==
  /\ task[m].pc = "connecting"
  /\ Ends(m, "over")
  /\ UNCHANGED <<backend, running, stores, ghosts, faults>>

-----------------------------------------------------------------------------
\* A process stops: its memory, its messages and what it had not yet sent to
\* Redis are gone.
Crash(r) ==
  /\ r \in running /\ faults < MaxFaults
  /\ running' = running \ {r}
  /\ memory' = [memory EXCEPT ![r] = {}]
  /\ requests' = [requests EXCEPT ![r] = <<>>]
  /\ task' = [m \in Messages |->
       IF task[m].replica = r THEN [Idle EXCEPT !.pc = "over"] ELSE task[m]]
  /\ faults' = faults + 1
  /\ UNCHANGED <<backend, shared, ghosts>>

\* Mutant of Start: the rows are left where they are.
Start_NoHydrate(r) ==
  /\ r \notin running
  /\ backend = "file" => running = {}
  /\ running' = running \union {r}
  /\ UNCHANGED <<backend, stores, task, ghosts, faults>>

\* A process starts: it hydrates its rows from the file or from Redis, and
\* removes from Redis those that are too old.
Start(r) ==
  /\ r \notin running
  /\ backend = "file" => running = {}
  /\ running' = running \union {r}
  /\ memory' = [memory EXCEPT ![r] = Live(shared)]
  /\ requests' = IF backend = "redis"
                 THEN [requests EXCEPT ![r] =
                         Removal({Key(x) : x \in shared \ Live(shared)})]
                 ELSE requests
  /\ UNCHANGED <<backend, shared, task, ghosts, faults>>

Next ==
  \/ \E r \in Replicas :
       \/ \E c \in Conversations :
            \/ \E s \in Scenes \union {NoScene} : Ask(r, c, s)
            \/ \E m \in Messages, k \in Kinds : Receive(m, r, c, k)
       \/ Serve(r) \/ RequestFails(r) \/ Crash(r) \/ Start(r)
  \/ \E m \in Messages :
       Refresh(m) \/ Resolve(m) \/ Execute(m) \/ ConnectFails(m)
  \/ \E a \in Asks : Expire(a)

Spec == Init /\ [][Next]_vars

-----------------------------------------------------------------------------
Keys == Conversations \X (Scenes \union {NoScene})

Request == [op : {"set"}, row : Row] \union [op : {"del"}, keys : SUBSET Keys]
           \union [op : {"scan"}, message : Messages]
           \union [op : {"get"}, message : Messages, keys : SUBSET Keys]

Task == [pc : {"idle", "reading", "read", "refreshed", "connecting", "over",
               "executed"},
         kind : Kinds \union {"none"},
         replica : Replicas \union {"none"},
         conversation : Conversations \union {"none"},
         rows : SUBSET Row,
         settledThen : SUBSET Asks, expiredThen : SUBSET Asks,
         openThen : SUBSET Row]

TypeOK ==
  /\ backend \in Backends
  /\ running \subseteq Replicas
  /\ memory \in [Replicas -> SUBSET Row] /\ shared \subseteq Row
  /\ requests \in [Replicas -> Seq(Request)]
  /\ task \in [Messages -> Task]
  /\ asks \in 0..MaxAsks /\ faults \in 0..MaxFaults
  /\ expired \subseteq Asks /\ settled \subseteq Asks /\ swept \subseteq Asks

Executes(m) == task[m].pc = "connecting" /\ task'[m].pc = "executed"

Chosen(m) == {row.ask : row \in task[m].rows}

(* Of one process with the file backend: an ask that was executed, cancelled *)
(* or corrected is not executed by a message that came later, in whatever    *)
(* order the awaits of the messages before it end and across restarts        *)
(* (stagePendingConfirm clears the row it resolved before an await).         *)
SettledIsFinal ==
  [][\A m \in Messages : Executes(m) /\ backend = "file" =>
       Chosen(m) \intersect task[m].settledThen = {}]_vars

(* With either backend, no message executes an ask that had expired when it  *)
(* came: not from memory, from the file, from Redis or from what another     *)
(* process wrote (clearExpiredPending and the tests of expires_at).          *)
ExpiredNotExecuted ==
  [][\A m \in Messages : Executes(m) =>
       Chosen(m) \intersect task[m].expiredThen = {}]_vars

(* With the file backend a confirmation never picks one of several: if       *)
(* another row of its conversation was stored when the message came and is   *)
(* open still, nothing is executed (resolvePendingConfirm and "ambiguous").  *)
NeverGuesses ==
  [][\A m \in Messages : Executes(m) =>
       \A x \in task[m].openThen \intersect Live(shared) :
          x.ask \in Chosen(m) \union settled \union swept]_vars

(* With the file backend an ask stays until it is executed, cancelled,       *)
(* replaced, cleared with its conversation or too old: it survives restarts, *)
(* and a message finds it in memory.                                         *)
AskKept ==
  backend = "file" =>
    \A a \in (1..asks) \ (expired \union settled \union swept) :
      \A rows \in {shared} \union {memory[r] : r \in running} :
        \E row \in rows : row.ask = a

=============================================================================
