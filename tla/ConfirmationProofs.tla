-------------------------- MODULE ConfirmationProofs --------------------------
(***************************************************************************)
(* Proofs about Confirmation, for any replicas, messages, conversations    *)
(* and scenes: what a confirmation may execute, with either backend and    *)
(* with the file backend, and that an ask is kept.                         *)
(***************************************************************************)
EXTENDS Confirmation, FiniteSetTheorems, TLAPS

\* The asks that are no longer open.
Gone == expired \union settled \union swept

\* What the handling of a message knows of the expired asks: those of the time
\* it came, none of which it is about to execute.
ExpiryInv ==
  \A m \in Messages :
    /\ task[m].expiredThen \subseteq expired
    /\ task[m].pc = "connecting" => Chosen(m) \intersect task[m].expiredThen = {}

\* With the file backend one process runs and the others hold nothing; the file
\* and its memory differ in rows that are too old only.
OneProcess ==
  /\ \A r, s \in running : r = s
  /\ \A r \in Replicas \ running : memory[r] = {}
  /\ \A r \in Replicas : requests[r] = <<>>
  /\ \A r \in running : Live(shared) = Live(memory[r])

\* A row that is stored, or that a message is about to execute.
Known(x) ==
  \/ x \in shared
  \/ \E r \in Replicas : x \in memory[r]
  \/ \E m \in Messages : x \in task[m].rows

Stored(x) == x \in shared \/ \E r \in Replicas : x \in memory[r]

\* Each ask has one row, and a stored one is not settled.
RowsInv ==
  /\ \A x, y \in Row : Known(x) /\ Known(y) /\ x.ask = y.ask => x = y
  /\ \A x \in Row : Known(x) => x.ask <= asks
  /\ \A x \in Row : Stored(x) => x.ask \notin settled
  /\ settled \union expired \subseteq 1..asks

\* An ask that is open has its row in the file.
OpenInv == \A a \in (1..asks) \ Gone : \E x \in shared : x.ask = a

\* What a message knows: the asks that were settled when it came, none of which
\* it is about to execute, and the rows of its conversation that were open, which
\* are in memory until they are gone and of which it has chosen the only one.
MessageInv(m) ==
  LET t == task[m] IN
  /\ t.pc \notin {"reading", "read"}
  /\ t.settledThen \subseteq settled
  /\ t.pc = "refreshed" =>
       \A x \in t.openThen :
         x.conversation = t.conversation /\ (x \in memory[t.replica] \/ x.ask \in Gone)
  /\ t.pc = "connecting" =>
       /\ Chosen(m) \intersect t.settledThen = {}
       /\ \A x \in t.openThen : x.ask \in Chosen(m) \union Gone

FileInv == OneProcess /\ RowsInv /\ OpenInv /\ \A m \in Messages : MessageInv(m)

-----------------------------------------------------------------------------
(* Types                                                                   *)

LEMMA RowFields ==
  ASSUME NEW x \in Row
  PROVE  /\ x.conversation \in Conversations
         /\ x.scene \in Scenes \union {NoScene}
         /\ x.ask \in 1..MaxAsks /\ x.ask \in Nat
         /\ Key(x) \in Keys
  BY ConfirmationConstants DEF Row, Asks, Key, Keys

LEMMA RequestsTyped ==
  /\ \A x \in Row : SetRow(x) \in Request
  /\ \A keys \in SUBSET Keys : DelKeys(keys) \in Request /\ Removal(keys) \in Seq(Request)
  /\ \A m \in Messages : Scan(m) \in Request
  /\ \A m \in Messages, keys \in SUBSET Keys : Get(m, keys) \in Request
<1>1. \A x \in Row : SetRow(x) \in Request
  BY DEF SetRow, Request
<1>2. \A keys \in SUBSET Keys : DelKeys(keys) \in Request
  BY DEF DelKeys, Request
<1>3. \A m \in Messages : Scan(m) \in Request
  BY DEF Scan, Request
<1>4. \A m \in Messages, keys \in SUBSET Keys : Get(m, keys) \in Request
  BY DEF Get, Request
<1> QED
  BY <1>1, <1>2, <1>3, <1>4 DEF Removal

\* The rows and requests are typed.
StoreTyped ==
  /\ memory \in [Replicas -> SUBSET Row] /\ shared \subseteq Row
  /\ requests \in [Replicas -> Seq(Request)]

LEMMA KeepTyped ==
  ASSUME StoreTyped, NEW r \in Replicas, NEW rows \in SUBSET Row,
         NEW sent \in Seq(Request), Keep(r, rows, sent)
  PROVE  StoreTyped'
<1>1. memory' \in [Replicas -> SUBSET Row]
  BY DEF StoreTyped, Keep
<1>2. shared' \subseteq Row
  BY DEF StoreTyped, Keep, Live
<1>3. requests' \in [Replicas -> Seq(Request)]
  <2>1. requests[r] \o sent \in Seq(Request)
    BY DEF StoreTyped
  <2>2. \/ requests' = requests
        \/ requests' = [requests EXCEPT ![r] = requests[r] \o sent]
    BY DEF Keep
  <2> DEFINE q == requests[r] \o sent
  <2> HIDE DEF q
  <2> QED
    BY <2>1, <2>2 DEF StoreTyped, q
<1> QED
  BY <1>1, <1>2, <1>3 DEF StoreTyped

\* A message that goes on, and one that ends.
LEMMA GoesFields ==
  ASSUME task \in [Messages -> Task], NEW m \in Messages,
         NEW pc \in {"reading", "read", "refreshed", "connecting"}, NEW rows \in SUBSET Row,
         Goes(m, pc, rows)
  PROVE  /\ task' \in [Messages -> Task]
         /\ \A n \in Messages \ {m} : task'[n] = task[n]
         /\ task'[m].pc = pc
         /\ task'[m].rows = rows
         /\ task'[m].kind = task[m].kind
         /\ task'[m].replica = task[m].replica
         /\ task'[m].conversation = task[m].conversation
         /\ task'[m].settledThen = task[m].settledThen
         /\ task'[m].expiredThen = task[m].expiredThen
         /\ task'[m].openThen = task[m].openThen
<1> DEFINE x == [[task[m] EXCEPT !.pc = pc] EXCEPT !.rows = rows]
<1>1. task[m] \in Task
  OBVIOUS
<1>2. task' = [task EXCEPT ![m] = x]
  BY DEF Goes
<1>3. /\ x.pc = pc
      /\ x.rows = rows
      /\ x.kind = task[m].kind
      /\ x.replica = task[m].replica
      /\ x.conversation = task[m].conversation
      /\ x.settledThen = task[m].settledThen
      /\ x.expiredThen = task[m].expiredThen
      /\ x.openThen = task[m].openThen
      /\ x \in Task
  BY <1>1 DEF Task
<1> HIDE DEF x
<1> QED
  BY <1>2, <1>3

LEMMA EndsFields ==
  ASSUME task \in [Messages -> Task], NEW m \in Messages,
         NEW pc \in {"over", "executed"}, Ends(m, pc)
  PROVE  /\ task' \in [Messages -> Task]
         /\ \A n \in Messages \ {m} : task'[n] = task[n]
         /\ task'[m].pc = pc
         /\ task'[m].rows = {}
         /\ task'[m].settledThen = {}
         /\ task'[m].expiredThen = {}
         /\ task'[m].openThen = {}
<1> DEFINE x == [Idle EXCEPT !.pc = pc]
<1>1. task' = [task EXCEPT ![m] = x]
  BY DEF Ends
<1>2. /\ x.pc = pc /\ x.rows = {} /\ x.settledThen = {} /\ x.expiredThen = {}
      /\ x.openThen = {} /\ x \in Task
  BY DEF Idle, Task, Kinds
<1> HIDE DEF x
<1> QED
  BY <1>1, <1>2

\* The handling of a message that reaches a process.
LEMMA ReceiveFields ==
  ASSUME TypeOK, NEW m \in Messages, NEW r \in Replicas, NEW c \in Conversations,
         NEW k \in Kinds, Receive(m, r, c, k)
  PROVE  /\ task' \in [Messages -> Task]
         /\ \A n \in Messages \ {m} : task'[n] = task[n]
         /\ task'[m].pc = IF backend = "redis" THEN "reading" ELSE "refreshed"
         /\ task'[m].replica = r
         /\ task'[m].conversation = c
         /\ task'[m].rows = {}
         /\ task'[m].settledThen \subseteq settled
         /\ task'[m].expiredThen \subseteq expired
         /\ task'[m].openThen \subseteq {x \in Live(shared) : x.conversation = c}
         /\ backend # "file" => task'[m].openThen = {}
<1> DEFINE x == [pc |-> IF backend = "redis" THEN "reading" ELSE "refreshed",
        kind |-> k, replica |-> r, conversation |-> c, rows |-> {},
        settledThen |-> IF k = "confirm" THEN settled ELSE {},
        expiredThen |-> IF k = "confirm" THEN expired ELSE {},
        openThen |-> IF k = "confirm" /\ backend = "file"
                     THEN {y \in Live(shared) : y.conversation = c} ELSE {}]
<1>1. task' = [task EXCEPT ![m] = x]
  BY DEF Receive
<1>2. {y \in Live(shared) : y.conversation = c} \subseteq Row
  BY DEF TypeOK, Live
<1>3. x \in Task
  BY <1>2 DEF TypeOK, Task, Kinds
<1>4. /\ x.pc = IF backend = "redis" THEN "reading" ELSE "refreshed"
      /\ x.replica = r
      /\ x.conversation = c
      /\ x.rows = {}
      /\ x.settledThen \subseteq settled
      /\ x.expiredThen \subseteq expired
      /\ x.openThen \subseteq {y \in Live(shared) : y.conversation = c}
      /\ backend # "file" => x.openThen = {}
  OBVIOUS
<1> HIDE DEF x
<1> QED
  BY <1>1, <1>3, <1>4 DEF TypeOK

LEMMA ClearTyped ==
  ASSUME TypeOK, NEW r \in Replicas, NEW row \in Row, NEW rows \in SUBSET Row,
         NEW old \in SUBSET Keys, NEW told \in SUBSET Asks, Clear(r, row, rows, old, told)
  PROVE  StoreTyped' /\ settled' \subseteq Asks /\ swept' \subseteq Asks
<1> DEFINE keys == Cleared(r, row)
<1>1. keys \in SUBSET Keys
  BY RowFields DEF Cleared, TypeOK
<1>2. Drop(rows, keys) \in SUBSET Row
  BY DEF Drop
<1>3. Removal(old) \o Removal(keys) \in Seq(Request)
  <2>1. Removal(old) \in Seq(Request) /\ Removal(keys) \in Seq(Request)
    BY <1>1, RequestsTyped
  <2> HIDE DEF keys
  <2> QED
    BY <2>1
<1>4. Keep(r, Drop(rows, keys), Removal(old) \o Removal(keys))
  BY DEF Clear
<1> HIDE DEF keys
<1>5. StoreTyped'
  BY <1>2, <1>3, <1>4, KeepTyped DEF StoreTyped, TypeOK
<1>6. {x.ask : x \in {y \in rows : Key(y) \in Cleared(r, row)}} \subseteq Asks
  BY RowFields DEF Asks
<1> QED
  BY <1>5, <1>6 DEF Clear, TypeOK

-----------------------------------------------------------------------------
(* Type correctness and ExpiryInv                                          *)

\* A request that reads for message m.
IsRead(q, m) == q.op \in {"scan", "get"} /\ q.message = m

LEMMA RequestFields ==
  ASSUME NEW q \in Request
  PROVE  /\ q.op \in {"set", "del", "scan", "get"}
         /\ q.op = "set" => q.row \in Row
         /\ q.op = "del" => q.keys \in SUBSET Keys
         /\ q.op = "get" => q.keys \in SUBSET Keys
         /\ q.op \in {"scan", "get"} => q.message \in Messages
  BY DEF Request

\* A message that is handled is handled by a process that runs.
BusyInv ==
  \A m \in Messages :
    task[m].pc \in {"reading", "read", "refreshed", "connecting"} =>
      task[m].replica \in running

\* The i-th request of r on its way reads for message m.
Reads(r, i, m) == i \in 1..Len(requests[r]) /\ IsRead(requests[r][i], m)

\* A read on its way is the only one of its message, which waits for it.
QueueInv ==
  \A r \in Replicas, m \in Messages, i, j \in Nat :
    Reads(r, i, m) => /\ task[m].pc = "reading" /\ task[m].replica = r
                      /\ Reads(r, j, m) => i = j

\* The part of the invariant that holds with either backend.
TInv == TypeOK /\ ExpiryInv /\ BusyInv /\ QueueInv

\* Only message n is touched, and what it knows is not disturbed.
LEMMA OneMessage ==
  ASSUME ExpiryInv, BusyInv, expired' = expired, running' = running,
         NEW n \in Messages,
         \A m \in Messages \ {n} : task'[m] = task[m],
         task'[n].expiredThen \subseteq expired,
         task'[n].pc = "connecting" =>
           {row.ask : row \in task'[n].rows} \intersect task'[n].expiredThen = {},
         task'[n].pc \in {"reading", "read", "refreshed", "connecting"} =>
           task'[n].replica \in running
  PROVE  ExpiryInv' /\ BusyInv'
<1>1. ExpiryInv'
  BY DEF ExpiryInv, Chosen
<1>2. BusyInv'
  BY DEF BusyInv
<1> QED
  BY <1>1, <1>2

LEMMA NoMessage ==
  ASSUME ExpiryInv, BusyInv, expired \subseteq expired', running \subseteq running',
         UNCHANGED task
  PROVE  ExpiryInv' /\ BusyInv'
  BY DEF ExpiryInv, BusyInv, Chosen

\* A row that resolvePendingConfirm returns is one of those it looked at.
LEMMA ChoiceFrom ==
  ASSUME NEW rows, NEW c
  PROVE  Choice(rows, c) \subseteq rows
  BY DEF Choice

\* No new read is sent.
QueueShrinks ==
  \A r \in Replicas, m \in Messages, i \in Nat : Reads(r, i, m)' => Reads(r, i, m)

LEMMA QueueKept ==
  ASSUME QueueInv, QueueShrinks,
         \A m \in Messages : task'[m] = task[m] \/ task[m].pc # "reading"
  PROVE  QueueInv'
<1> SUFFICES ASSUME NEW r \in Replicas, NEW m \in Messages, NEW i \in Nat, NEW j \in Nat,
                    Reads(r, i, m)'
             PROVE  /\ task'[m].pc = "reading" /\ task'[m].replica = r
                    /\ Reads(r, j, m)' => i = j
  BY DEF QueueInv
<1>1. Reads(r, i, m) /\ (Reads(r, j, m)' => Reads(r, j, m))
  BY DEF QueueShrinks
<1>2. task[m].pc = "reading" /\ task[m].replica = r /\ (Reads(r, j, m) => i = j)
  BY <1>1 DEF QueueInv
<1> QED
  BY <1>1, <1>2

NoReads(sent) == \A i \in 1..Len(sent), m \in Messages : ~IsRead(sent[i], m)

LEMMA RemovalsDoNotRead ==
  ASSUME NEW old \in SUBSET Keys, NEW keys \in SUBSET Keys
  PROVE  NoReads(Removal(old)) /\ NoReads(Removal(old) \o Removal(keys))
<1>1. \A k, m : ~IsRead(DelKeys(k), m)
  BY DEF DelKeys, IsRead
<1>2. \A k : Removal(k) \in {<<>>, <<DelKeys(k)>>}
  BY DEF Removal
<1> QED
  BY <1>1, <1>2 DEF NoReads

LEMMA KeepSendsNoRead ==
  ASSUME StoreTyped, NEW r \in Replicas, NEW rows, NEW sent \in Seq(Request),
         NoReads(sent), Keep(r, rows, sent)
  PROVE  QueueShrinks
<1>1. CASE UNCHANGED requests
  BY <1>1 DEF QueueShrinks, Reads
<1>2. CASE requests' = [requests EXCEPT ![r] = @ \o sent]
  <2> SUFFICES ASSUME NEW s \in Replicas, NEW m \in Messages, NEW i \in Nat, Reads(s, i, m)'
               PROVE  Reads(s, i, m)
    BY DEF QueueShrinks
  <2>1. CASE s # r
    BY <1>2, <2>1 DEF Reads, StoreTyped
  <2>2. CASE s = r
    <3> DEFINE q == requests[r]
    <3>1. q \in Seq(Request) /\ requests'[r] = q \o sent
      BY <1>2 DEF StoreTyped
    <3>2. i \in 1..Len(q \o sent) /\ IsRead((q \o sent)[i], m)
      BY <2>2, <3>1 DEF Reads
    <3> HIDE DEF q
    <3>3. i \in 1..Len(q) /\ IsRead(q[i], m)
      <4>1. CASE i \in 1..Len(q)
        BY <3>1, <3>2, <4>1
      <4>2. CASE i \notin 1..Len(q)
        <5>1. i - Len(q) \in 1..Len(sent) /\ IsRead(sent[i - Len(q)], m)
          BY <3>1, <3>2, <4>2
        <5> QED
          BY <5>1 DEF NoReads
      <4> QED
        BY <4>1, <4>2
    <3> QED
      BY <2>2, <3>3 DEF Reads, q
  <2> QED
    BY <2>1, <2>2
<1> QED
  BY <1>1, <1>2 DEF Keep

LEMMA TInvInit == Init => TInv
<1> SUFFICES ASSUME Init PROVE TInv
  OBVIOUS
<1>1. Idle \in Task /\ Idle.pc = "idle" /\ Idle.expiredThen = {}
  BY DEF Idle, Task, Kinds
<1>2. <<>> \in Seq(Request)
  OBVIOUS
<1>3. TypeOK
  BY <1>1, <1>2, ConfirmationConstants DEF Init, TypeOK
<1>4. ExpiryInv
  BY <1>1 DEF Init, ExpiryInv
<1>5. BusyInv /\ QueueInv
  BY <1>1 DEF Init, BusyInv, QueueInv, Reads
<1> QED
  BY <1>3, <1>4, <1>5 DEF TInv

\* Each step keeps the part of the invariant of either backend.
LEMMA AskStep ==
  ASSUME TInv, NEW r \in Replicas, NEW c \in Conversations,
         NEW s \in Scenes \union {NoScene}, Ask(r, c, s)
  PROVE  TInv'
<1> USE DEF TInv
<1> DEFINE row == [conversation |-> c, scene |-> s, ask |-> asks + 1]
<1>1. StoreTyped
  BY DEF TypeOK, StoreTyped
<1>2. asks + 1 \in Asks /\ asks + 1 \in 0..MaxAsks
  BY ConfirmationConstants DEF Ask, TypeOK, Asks
<1>3. row \in Row
  BY <1>2 DEF Row
<1>4. /\ Keep(r, Put(memory[r], row), <<SetRow(row)>>)
      /\ swept' = swept \union {x.ask : x \in {y \in memory[r] : Key(y) = Key(row)}}
  BY DEF Ask
<1> HIDE DEF row
<1>5. Put(memory[r], row) \in SUBSET Row
  BY <1>3 DEF TypeOK, Put
<1>6. <<SetRow(row)>> \in Seq(Request) /\ NoReads(<<SetRow(row)>>)
  BY <1>3, RequestsTyped DEF NoReads, SetRow, IsRead
<1>7. StoreTyped'
  BY <1>1, <1>4, <1>5, <1>6, KeepTyped
<1>8. swept' \subseteq Asks
  BY <1>4, RowFields DEF TypeOK, Asks
<1>9. /\ asks' = asks + 1
      /\ UNCHANGED <<backend, running, task, expired, settled, faults>>
  BY DEF Ask
<1>10. TypeOK'
  BY <1>2, <1>7, <1>8, <1>9 DEF TypeOK, StoreTyped
<1>11. QueueInv'
  BY <1>1, <1>4, <1>6, <1>9, KeepSendsNoRead, QueueKept
<1> QED
  BY <1>9, <1>10, <1>11, NoMessage

LEMMA ReceiveStep ==
  ASSUME TInv, NEW m \in Messages, NEW r \in Replicas, NEW c \in Conversations,
         NEW k \in Kinds, Receive(m, r, c, k)
  PROVE  TInv'
<1> USE DEF TInv
<1>1. /\ UNCHANGED <<backend, running, memory, shared, ghosts, faults>>
      /\ task[m].pc = "idle" /\ r \in running
  BY DEF Receive
<1>2. /\ task' \in [Messages -> Task]
      /\ \A n \in Messages \ {m} : task'[n] = task[n]
      /\ task'[m].pc = IF backend = "redis" THEN "reading" ELSE "refreshed"
      /\ task'[m].replica = r
      /\ task'[m].expiredThen \subseteq expired
  BY ReceiveFields
<1>3. \/ UNCHANGED requests
      \/ /\ backend = "redis"
         /\ requests' = [requests EXCEPT ![r] = Append(requests[r], Scan(m))]
  BY DEF Receive
<1>4. ExpiryInv' /\ BusyInv'
  BY <1>1, <1>2, OneMessage DEF ghosts
<1>5. CASE UNCHANGED requests
  <2>1. QueueShrinks
    BY <1>5 DEF QueueShrinks, Reads
  <2>2. QueueInv'
    BY <1>1, <1>2, <2>1, QueueKept
  <2> QED
    BY <1>1, <1>2, <1>4, <1>5, <2>2 DEF TypeOK, ghosts
<1>6. CASE /\ backend = "redis"
           /\ requests' = [requests EXCEPT ![r] = Append(requests[r], Scan(m))]
  <2> DEFINE q == requests[r]
             p == Append(requests[r], Scan(m))
  <2>1. /\ q \in Seq(Request) /\ p \in Seq(Request)
        /\ Len(p) = Len(q) + 1 /\ Len(q) \in Nat
        /\ \A i \in 1..Len(q) : p[i] = q[i]
        /\ p[Len(q) + 1] = Scan(m)
    BY RequestsTyped DEF TypeOK
  <2>2. requests' = [requests EXCEPT ![r] = p]
    BY <1>6
  <2> HIDE DEF p
  <2>3. requests' \in [Replicas -> Seq(Request)]
    BY <2>1, <2>2 DEF TypeOK
  <2>4. ASSUME NEW s \in Replicas, NEW i \in Nat, NEW n \in Messages, Reads(s, i, n)'
        PROVE  Reads(s, i, n) \/ (s = r /\ i = Len(q) + 1 /\ n = m)
    <3>1. CASE s # r
      BY <2>2, <2>4, <3>1 DEF Reads, TypeOK
    <3>2. CASE s = r
      <4>1. requests'[s] = p
        BY <2>2, <3>2 DEF TypeOK
      <4>2. i \in 1..Len(p) /\ IsRead(p[i], n)
        BY <2>4, <4>1 DEF Reads
      <4>3. CASE i \in 1..Len(q)
        BY <2>1, <3>2, <4>2, <4>3 DEF Reads
      <4>4. CASE i = Len(q) + 1
        BY <2>1, <3>2, <4>2, <4>4 DEF Scan, IsRead
      <4> QED
        BY <2>1, <4>2, <4>3, <4>4
    <3> QED
      BY <3>1, <3>2
  <2>5. \A s \in Replicas, i \in Nat : ~Reads(s, i, m)
    BY <1>1 DEF QueueInv
  <2>6. QueueInv'
    <3> SUFFICES ASSUME NEW s \in Replicas, NEW n \in Messages, NEW i \in Nat, NEW j \in Nat,
                        Reads(s, i, n)'
                 PROVE  /\ task'[n].pc = "reading" /\ task'[n].replica = s
                        /\ Reads(s, j, n)' => i = j
      BY DEF QueueInv
    <3>1. CASE n = m
      BY <1>2, <1>6, <2>4, <2>5, <3>1
    <3>2. CASE n # m
      <4>1. Reads(s, i, n) /\ (Reads(s, j, n)' => Reads(s, j, n))
        BY <2>4, <3>2
      <4>2. task[n].pc = "reading" /\ task[n].replica = s /\ (Reads(s, j, n) => i = j)
        BY <4>1 DEF QueueInv
      <4> QED
        BY <1>2, <3>2, <4>1, <4>2
    <3> QED
      BY <3>1, <3>2
  <2> QED
    BY <1>1, <1>2, <1>4, <2>3, <2>6 DEF TypeOK, ghosts
<1> QED
  BY <1>3, <1>5, <1>6

\* A request is served, and no new one sent.
LEMMA Popped ==
  ASSUME TInv, NEW r \in Replicas, requests[r] # <<>>,
         requests' = [requests EXCEPT ![r] = Tail(@)],
         \A n \in Messages : task'[n] = task[n] \/ IsRead(Head(requests[r]), n)
  PROVE  requests' \in [Replicas -> Seq(Request)] /\ QueueInv'
<1> USE DEF TInv
<1> DEFINE q == Head(requests[r])
           all == requests[r]
           rest == Tail(requests[r])
<1>1. /\ q \in Request /\ rest \in Seq(Request) /\ all \in Seq(Request)
      /\ Len(all) \in Nat \ {0} /\ Len(rest) = Len(all) - 1 /\ q = all[1]
      /\ \A i \in 1..Len(rest) : rest[i] = all[i + 1]
  BY DEF TypeOK
<1>2. /\ requests' = [requests EXCEPT ![r] = rest]
      /\ \A n \in Messages : task'[n] = task[n] \/ IsRead(q, n)
  OBVIOUS
<1> HIDE DEF q, rest
<1>3. requests' \in [Replicas -> Seq(Request)]
  BY <1>1, <1>2 DEF TypeOK
<1>4. ASSUME NEW s \in Replicas, NEW i \in Nat, NEW n \in Messages, Reads(s, i, n)'
      PROVE  IF s = r THEN Reads(s, i + 1, n) ELSE Reads(s, i, n)
  <2>1. CASE s # r
    BY <1>2, <1>4, <2>1 DEF Reads, TypeOK
  <2>2. CASE s = r
    <3>1. requests'[s] = rest
      BY <1>2, <2>2 DEF TypeOK
    <3>2. i \in 1..Len(rest) /\ IsRead(rest[i], n)
      BY <1>4, <3>1 DEF Reads
    <3>3. i + 1 \in 1..Len(all) /\ IsRead(all[i + 1], n)
      BY <1>1, <3>2
    <3> QED
      BY <2>2, <3>3 DEF Reads
  <2> QED
    BY <2>1, <2>2
<1>5. QueueInv'
  <2> SUFFICES ASSUME NEW s \in Replicas, NEW n \in Messages, NEW i \in Nat, NEW j \in Nat,
                      Reads(s, i, n)'
               PROVE  /\ task'[n].pc = "reading" /\ task'[n].replica = s
                      /\ Reads(s, j, n)' => i = j
    BY DEF QueueInv
  <2> DEFINE a == IF s = r THEN i + 1 ELSE i
             b == IF s = r THEN j + 1 ELSE j
  <2>1. a \in Nat /\ b \in Nat /\ Reads(s, a, n) /\ (Reads(s, j, n)' => Reads(s, b, n))
    BY <1>4
  <2>2. task[n].pc = "reading" /\ task[n].replica = s /\ (Reads(s, b, n) => a = b)
    BY <2>1 DEF QueueInv
  <2>3. ~IsRead(q, n)
    <3> SUFFICES ASSUME IsRead(q, n) PROVE FALSE
      OBVIOUS
    <3>1. Reads(r, 1, n)
      BY <1>1 DEF Reads
    <3>2. task[n].replica = r
      BY <3>1 DEF QueueInv
    <3>3. s = r /\ a = i + 1
      BY <2>2, <3>2
    <3>4. a = 1
      BY <2>1, <3>1, <3>3 DEF QueueInv
    <3>5. i \in 1..Len(requests'[s])
      BY DEF Reads
    <3> QED
      BY <3>3, <3>4, <3>5
  <2>4. a = b => i = j
    OBVIOUS
  <2> HIDE DEF a, b
  <2> QED
    BY <1>2, <2>1, <2>2, <2>3, <2>4
<1> QED
  BY <1>3, <1>5

\* A request of message m is served, and m sends another.
LEMMA ReadOn ==
  ASSUME TInv, NEW r \in Replicas, requests[r] # <<>>, NEW m \in Messages,
         IsRead(Head(requests[r]), m), NEW left \in SUBSET Keys,
         requests' = [requests EXCEPT ![r] = Append(Tail(@), Get(m, left))],
         \A n \in Messages \ {m} : task'[n] = task[n],
         task'[m].pc = "reading", task'[m].replica = task[m].replica
  PROVE  requests' \in [Replicas -> Seq(Request)] /\ QueueInv'
<1> USE DEF TInv
<1> DEFINE q == Head(requests[r])
           all == requests[r]
           rest == Tail(requests[r])
           g == Get(m, left)
           next == Append(rest, g)
<1>1. /\ q \in Request /\ rest \in Seq(Request) /\ all \in Seq(Request)
      /\ Len(all) \in Nat \ {0} /\ Len(rest) = Len(all) - 1 /\ q = all[1]
      /\ \A i \in 1..Len(rest) : rest[i] = all[i + 1]
  BY DEF TypeOK
<1>2. /\ g \in Request
      /\ \A n \in Messages : IsRead(g, n) => n = m
  BY RequestsTyped DEF IsRead, Get
<1> HIDE DEF q, rest, g, all
<1>3. /\ next \in Seq(Request) /\ Len(next) = Len(all)
      /\ \A i \in 1..Len(rest) : next[i] = all[i + 1]
      /\ next[Len(all)] = g
  BY <1>1, <1>2
<1> USE DEF all
<1>4. requests' = [requests EXCEPT ![r] = next]
  BY DEF rest, g
<1> HIDE DEF next
<1>5. requests' \in [Replicas -> Seq(Request)]
  BY <1>3, <1>4 DEF TypeOK
<1>6. Reads(r, 1, m)
  BY <1>1 DEF Reads, q
<1>7. task[m].replica = r /\ \A i \in Nat : Reads(r, i, m) => i = 1
  BY <1>6 DEF QueueInv
<1>8. ASSUME NEW s \in Replicas, NEW i \in Nat, NEW n \in Messages, Reads(s, i, n)'
      PROVE  IF s # r THEN Reads(s, i, n)
             ELSE \/ n = m /\ i = Len(all)
                  \/ i + 1 \in 1..Len(all) /\ Reads(r, i + 1, n)
  <2>1. CASE s # r
    BY <1>4, <1>8, <2>1 DEF Reads, TypeOK
  <2>2. CASE s = r
    <3>1. requests'[s] = next
      BY <1>4, <2>2 DEF TypeOK
    <3>2. i \in 1..Len(all) /\ IsRead(next[i], n)
      BY <1>3, <1>8, <3>1 DEF Reads
    <3>3. CASE i = Len(all)
      BY <1>2, <1>3, <2>2, <3>2, <3>3
    <3>4. CASE i # Len(all)
      <4>1. i \in 1..Len(rest) /\ i + 1 \in 1..Len(all)
        BY <1>1, <3>2, <3>4
      <4>2. IsRead(all[i + 1], n)
        BY <1>3, <3>2, <4>1
      <4> QED
        BY <2>2, <4>1, <4>2 DEF Reads
    <3> QED
      BY <3>3, <3>4
  <2> QED
    BY <2>1, <2>2
<1>9. QueueInv'
  <2> SUFFICES ASSUME NEW s \in Replicas, NEW n \in Messages, NEW i \in Nat, NEW j \in Nat,
                      Reads(s, i, n)'
               PROVE  /\ task'[n].pc = "reading" /\ task'[n].replica = s
                      /\ Reads(s, j, n)' => i = j
    BY DEF QueueInv
  <2>1. CASE n = m
    <3>1. ASSUME NEW k \in Nat, Reads(s, k, m)' PROVE s = r /\ k = Len(all)
      <4>1. s = r
        <5> SUFFICES ASSUME s # r PROVE FALSE
          OBVIOUS
        <5>1. Reads(s, k, m)
          BY <1>8, <3>1
        <5> QED
          BY <1>7, <5>1 DEF QueueInv
      <4>2. CASE k + 1 \in 1..Len(all) /\ Reads(r, k + 1, m)
        <5>1. k + 1 = 1
          BY <1>7, <4>2
        <5>2. k \in 1..Len(requests'[s])
          BY <3>1 DEF Reads
        <5> QED
          BY <5>1, <5>2
      <4> QED
        BY <1>8, <3>1, <4>1, <4>2
    <3> QED
      BY <1>7, <2>1, <3>1
  <2>2. CASE n # m
    <3>1. CASE s # r
      <4>1. Reads(s, i, n) /\ (Reads(s, j, n)' => Reads(s, j, n))
        BY <1>8, <3>1
      <4>2. task[n].pc = "reading" /\ task[n].replica = s /\ (Reads(s, j, n) => i = j)
        BY <4>1 DEF QueueInv
      <4> QED
        BY <2>2, <4>1, <4>2
    <3>2. CASE s = r
      <4>1. Reads(r, i + 1, n) /\ (Reads(s, j, n)' => Reads(r, j + 1, n))
        BY <1>8, <2>2, <3>2
      <4>2. i + 1 \in Nat /\ j + 1 \in Nat
        OBVIOUS
      <4>3. task[n].pc = "reading" /\ task[n].replica = r /\ (Reads(r, j + 1, n) => i + 1 = j + 1)
        BY <4>1, <4>2 DEF QueueInv
      <4> QED
        BY <2>2, <3>2, <4>1, <4>3
    <3> QED
      BY <3>1, <3>2
  <2> QED
    BY <2>1, <2>2
<1> QED
  BY <1>5, <1>9

\* The next request of a message that reads, or the end of its reading.
LEMMA NextReadStep ==
  ASSUME TInv, NEW r \in Replicas, requests[r] # <<>>, NEW m \in Messages,
         IsRead(Head(requests[r]), m), NEW rows \in SUBSET Row, NEW left \in SUBSET Keys,
         NextRead(r, m, rows, left),
         UNCHANGED <<backend, running, memory, shared, asks, expired, settled, swept, faults>>
  PROVE  TInv'
<1> USE DEF TInv
<1>1. task[m].pc = "reading"
  <2>1. Reads(r, 1, m)
    BY DEF Reads, TypeOK
  <2> QED
    BY <2>1 DEF QueueInv
<1>2. ASSUME NEW pc \in {"reading", "read"}, Goes(m, pc, rows)
      PROVE  /\ task' \in [Messages -> Task]
             /\ \A n \in Messages \ {m} : task'[n] = task[n]
             /\ task'[m].pc = pc /\ task'[m].replica = task[m].replica
             /\ ExpiryInv' /\ BusyInv'
  <2>1. /\ task' \in [Messages -> Task]
        /\ \A n \in Messages \ {m} : task'[n] = task[n]
        /\ task'[m].pc = pc /\ task'[m].replica = task[m].replica
        /\ task'[m].expiredThen = task[m].expiredThen
    BY <1>2, GoesFields DEF TypeOK
  <2>2. task[m].expiredThen \subseteq expired /\ task[m].replica \in running
    BY <1>1 DEF ExpiryInv, BusyInv
  <2> QED
    BY <2>1, <2>2, OneMessage
<1>3. CASE left = {}
  <2>1. Goes(m, "read", rows) /\ requests' = [requests EXCEPT ![r] = Tail(@)]
    BY <1>3 DEF NextRead
  <2>2. /\ task' \in [Messages -> Task] /\ ExpiryInv' /\ BusyInv'
        /\ \A n \in Messages \ {m} : task'[n] = task[n]
    BY <1>2, <2>1
  <2>3. \A n \in Messages : task'[n] = task[n] \/ IsRead(Head(requests[r]), n)
    BY <2>2
  <2>4. requests' \in [Replicas -> Seq(Request)] /\ QueueInv'
    BY <2>1, <2>3, Popped
  <2> QED
    BY <2>2, <2>4 DEF TypeOK
<1>4. CASE left # {}
  <2>1. /\ Goes(m, "reading", rows)
        /\ requests' = [requests EXCEPT ![r] = Append(Tail(@), Get(m, left))]
    BY <1>4 DEF NextRead
  <2>2. /\ task' \in [Messages -> Task] /\ ExpiryInv' /\ BusyInv'
        /\ \A n \in Messages \ {m} : task'[n] = task[n]
        /\ task'[m].pc = "reading" /\ task'[m].replica = task[m].replica
    BY <1>2, <2>1
  <2>3. requests' \in [Replicas -> Seq(Request)] /\ QueueInv'
    BY <2>1, <2>2, ReadOn
  <2> QED
    BY <2>2, <2>3 DEF TypeOK
<1> QED
  BY <1>3, <1>4

LEMMA HeadTyped ==
  ASSUME TypeOK, NEW r \in Replicas, requests[r] # <<>>
  PROVE  /\ Head(requests[r]) \in Request
         /\ \A rows \in SUBSET shared : rows \in SUBSET Row /\ {Key(x) : x \in rows} \in SUBSET Keys
<1>1. requests[r] \in Seq(Request)
  BY DEF TypeOK
<1> QED
  BY <1>1, RowFields DEF TypeOK

LEMMA ServeStep ==
  ASSUME TInv, NEW r \in Replicas, Serve(r)
  PROVE  TInv'
<1> USE DEF TInv
<1> DEFINE q == Head(requests[r])
<1>1. /\ requests[r] # <<>>
      /\ UNCHANGED <<backend, running, memory, asks, expired, settled, swept, faults>>
  BY DEF Serve, ghosts
<1>2. q \in Request
  BY <1>1, HeadTyped
<1>3. CASE /\ \/ q.op = "set" /\ shared' = Put(shared, q.row)
              \/ q.op = "del" /\ shared' = Drop(shared, q.keys)
           /\ requests' = [requests EXCEPT ![r] = Tail(@)]
           /\ UNCHANGED task
  <2>1. shared' \subseteq Row
    <3>1. q.op = "set" => q.row \in Row
      BY <1>2, RequestFields
    <3> HIDE DEF q
    <3> QED
      BY <1>3, <3>1 DEF Put, Drop, TypeOK
  <2>2. requests' \in [Replicas -> Seq(Request)] /\ QueueInv'
    BY <1>1, <1>3, Popped
  <2>3. ExpiryInv' /\ BusyInv'
    BY <1>1, <1>3, NoMessage
  <2> QED
    BY <1>1, <1>3, <2>1, <2>2, <2>3 DEF TypeOK
<1>4. ASSUME q.op = "scan", NEW rows \in Found(shared),
             NextRead(r, q.message, {}, {Key(x) : x \in rows}), UNCHANGED shared
      PROVE  TInv'
  <2>1. q.message \in Messages /\ IsRead(q, q.message)
    BY <1>2, <1>4, RequestFields DEF IsRead
  <2>2. {Key(x) : x \in rows} \in SUBSET Keys
    BY <1>1, <1>4, HeadTyped DEF Found
  <2> QED
    BY <1>1, <1>4, <2>1, <2>2, NextReadStep
<1>5. ASSUME q.op = "get", NEW k \in q.keys, NEW rows \in Found({x \in shared : Key(x) = k}),
             NextRead(r, q.message, task[q.message].rows \union rows, q.keys \ {k}), UNCHANGED shared
      PROVE  TInv'
  <2>1. /\ q.message \in Messages /\ IsRead(q, q.message)
        /\ q.keys \ {k} \in SUBSET Keys
    BY <1>2, <1>5, RequestFields DEF IsRead
  <2>2. task[q.message].rows \in SUBSET Row
    BY <2>1 DEF TypeOK, Task
  <2>3. task[q.message].rows \union rows \in SUBSET Row
    BY <1>1, <1>5, <2>2, HeadTyped DEF Found
  <2> QED
    BY <1>1, <1>5, <2>1, <2>3, NextReadStep
<1> QED
  BY <1>3, <1>4, <1>5 DEF Serve

LEMMA FailStep ==
  ASSUME TInv, NEW r \in Replicas, RequestFails(r)
  PROVE  TInv'
<1> USE DEF TInv
<1> DEFINE q == Head(requests[r])
<1>1. /\ requests[r] # <<>> /\ faults < MaxFaults /\ faults' = faults + 1
      /\ requests' = [requests EXCEPT ![r] = Tail(@)]
      /\ UNCHANGED <<backend, running, memory, asks, expired, settled, swept>>
  BY DEF RequestFails, ghosts
<1>2. q \in Request /\ faults' \in 0..MaxFaults
  BY <1>1, HeadTyped, ConfirmationConstants DEF TypeOK
<1>3. CASE UNCHANGED task /\ shared' \subseteq shared
  <2>1. requests' \in [Replicas -> Seq(Request)] /\ QueueInv'
    BY <1>1, <1>3, Popped
  <2>2. ExpiryInv' /\ BusyInv'
    BY <1>1, <1>3, NoMessage
  <2> QED
    BY <1>1, <1>2, <1>3, <2>1, <2>2 DEF TypeOK
<1>4. CASE q.op \in {"scan", "get"} /\ Ends(q.message, "over") /\ UNCHANGED shared
  <2>1. q.message \in Messages /\ IsRead(q, q.message)
    BY <1>2, <1>4, RequestFields DEF IsRead
  <2>2. /\ task' \in [Messages -> Task]
        /\ \A n \in Messages \ {q.message} : task'[n] = task[n]
        /\ task'[q.message].pc = "over" /\ task'[q.message].expiredThen = {}
    BY <1>4, <2>1, EndsFields DEF TypeOK
  <2>3. \A n \in Messages : task'[n] = task[n] \/ IsRead(q, n)
    BY <2>1, <2>2
  <2>4. requests' \in [Replicas -> Seq(Request)] /\ QueueInv'
    BY <1>1, <2>3, Popped
  <2>5. ExpiryInv' /\ BusyInv'
    BY <1>1, <2>1, <2>2, OneMessage
  <2> QED
    BY <1>1, <1>2, <1>4, <2>2, <2>4, <2>5 DEF TypeOK
<1>5. ASSUME NEW keys, shared' = Drop(shared, keys) PROVE shared' \subseteq shared
  BY <1>5 DEF Drop
<1> QED
  BY <1>3, <1>4, <1>5 DEF RequestFails

\* An action that changes the rows of one process by Keep and one message.
LEMMA MessageStep ==
  ASSUME TInv, NEW r \in Replicas, NEW rows \in SUBSET Row, NEW sent \in Seq(Request),
         NoReads(sent), Keep(r, rows, sent), NEW n \in Messages,
         task[n].pc # "reading",
         task' \in [Messages -> Task],
         \A m \in Messages \ {n} : task'[m] = task[m],
         task'[n].expiredThen \subseteq expired,
         task'[n].pc = "connecting" =>
           {row.ask : row \in task'[n].rows} \intersect task'[n].expiredThen = {},
         task'[n].pc \in {"reading", "read", "refreshed", "connecting"} =>
           task'[n].replica \in running,
         UNCHANGED <<backend, running, asks, expired, faults>>,
         settled' \subseteq Asks, swept' \subseteq Asks
  PROVE  TInv'
<1> USE DEF TInv
<1>1. StoreTyped
  BY DEF TypeOK, StoreTyped
<1>2. StoreTyped'
  BY <1>1, KeepTyped
<1>3. TypeOK'
  BY <1>2 DEF TypeOK, StoreTyped
<1>4. ExpiryInv' /\ BusyInv'
  BY OneMessage
<1>5. QueueInv'
  BY <1>1, KeepSendsNoRead, QueueKept
<1> QED
  BY <1>3, <1>4, <1>5

LEMMA RefreshStep ==
  ASSUME TInv, NEW m \in Messages, Refresh(m)
  PROVE  TInv'
<1> DEFINE r == task[m].replica
           old == task[m].rows \ Live(task[m].rows)
           oldKeys == {Key(x) : x \in old}
           rows == PutAll(Drop(memory[r], oldKeys), Live(task[m].rows))
<1>1. /\ Keep(r, rows, Removal(oldKeys))
      /\ Goes(m, "refreshed", {})
      /\ UNCHANGED <<backend, running, ghosts, faults>>
      /\ task[m].pc = "read"
  BY DEF Refresh
<1>2. task[m].rows \in SUBSET Row /\ task \in [Messages -> Task] /\ r \in running
  BY <1>1 DEF TInv, TypeOK, Task, BusyInv
<1>3. r \in Replicas /\ oldKeys \in SUBSET Keys
  BY <1>2, RowFields DEF TInv, TypeOK
<1>4. rows \in SUBSET Row
  BY <1>2, <1>3 DEF TInv, TypeOK, PutAll, Drop, Live
<1> HIDE DEF r, old, oldKeys, rows
<1>5. Removal(oldKeys) \in Seq(Request) /\ NoReads(Removal(oldKeys))
  BY <1>3, RequestsTyped, RemovalsDoNotRead
<1>6. /\ task' \in [Messages -> Task]
      /\ \A n \in Messages \ {m} : task'[n] = task[n]
      /\ task'[m].pc = "refreshed"
      /\ task'[m].replica = r
      /\ task'[m].expiredThen \subseteq expired
  BY <1>1, <1>2, GoesFields DEF TInv, ExpiryInv, r
<1>7. settled' \subseteq Asks /\ swept' \subseteq Asks /\ asks' = asks /\ expired' = expired
  BY <1>1 DEF ghosts, TInv, TypeOK
<1> QED
  BY <1>1, <1>2, <1>3, <1>4, <1>5, <1>6, <1>7, MessageStep

\* What a message does that resolves: it ends without a row, goes on with one,
\* or clears one and ends.
Unresolved(m) ==
  LET r == task[m].replica
      rows == Unexpired(memory[r])
  IN  /\ Keep(r, rows, Removal({Key(x) : x \in memory[r] \ rows}))
      /\ Ends(m, "over")
      /\ UNCHANGED <<settled, swept>>

Remembered(m, row) ==
  LET r == task[m].replica
      rows == Unexpired(memory[r])
  IN  /\ row \in Choice(rows, task[m].conversation)
      /\ Keep(r, rows, Removal({Key(x) : x \in memory[r] \ rows}))
      /\ Goes(m, "connecting", {row})
      /\ UNCHANGED <<settled, swept>>

Cancelled(m, row) ==
  LET r == task[m].replica
      rows == Unexpired(memory[r])
  IN  /\ row \in Choice(rows, task[m].conversation)
      /\ Clear(r, row, rows, {Key(x) : x \in memory[r] \ rows}, {row.ask})
      /\ Ends(m, "over")

LEMMA ResolveKinds ==
  ASSUME NEW m \in Messages, Resolve(m)
  PROVE  /\ task[m].pc = "refreshed"
         /\ UNCHANGED <<backend, running, asks, expired, faults>>
         /\ \/ Unresolved(m)
            \/ \E row : Remembered(m, row)
            \/ \E row : Cancelled(m, row)
<1>1. /\ task[m].pc = "refreshed"
      /\ UNCHANGED <<backend, running, asks, expired, faults>>
  BY DEF Resolve
<1>2. \/ Unresolved(m)
      \/ \E row : Remembered(m, row)
      \/ \E row : Cancelled(m, row)
  BY DEF Resolve, Unresolved, Remembered, Cancelled
<1> QED
  BY <1>1, <1>2

\* The rows a message looks at when it resolves, and the keys it removes.
LEMMA ResolveRows ==
  ASSUME TInv, NEW m \in Messages, task[m].pc = "refreshed"
  PROVE  LET r == task[m].replica
             rows == Unexpired(memory[r])
             old == {Key(x) : x \in memory[r] \ rows}
         IN  /\ r \in Replicas /\ r \in running
             /\ rows \in SUBSET Row
             /\ rows \subseteq memory[r]
             /\ \A x \in rows : x.ask \notin expired
             /\ old \in SUBSET Keys
             /\ Removal(old) \in Seq(Request) /\ NoReads(Removal(old))
<1> DEFINE r == task[m].replica
           rows == Unexpired(memory[r])
           old == {Key(x) : x \in memory[r] \ rows}
<1>1. r \in Replicas /\ r \in running
  BY DEF TInv, TypeOK, BusyInv
<1>2. memory[r] \in SUBSET Row
  BY <1>1 DEF TInv, TypeOK
<1>3. rows \in SUBSET Row /\ rows \subseteq memory[r] /\ \A x \in rows : x.ask \notin expired
  BY <1>2 DEF Unexpired, Live
<1>4. old \in SUBSET Keys
  BY <1>2, RowFields
<1>5. Removal(old) \in Seq(Request) /\ NoReads(Removal(old))
  BY <1>4, RequestsTyped, RemovalsDoNotRead
<1> QED
  BY <1>1, <1>3, <1>4, <1>5

LEMMA ClearSendsNoRead ==
  ASSUME TInv, NEW r \in Replicas, NEW row \in Row, NEW rows \in SUBSET Row,
         NEW old \in SUBSET Keys, NEW told, Clear(r, row, rows, old, told)
  PROVE  QueueShrinks
<1> DEFINE keys == Cleared(r, row)
<1>1. keys \in SUBSET Keys
  BY RowFields DEF Cleared, TInv, TypeOK
<1>2. Keep(r, Drop(rows, keys), Removal(old) \o Removal(keys))
  BY DEF Clear
<1> HIDE DEF keys
<1>3. Removal(old) \in Seq(Request) /\ Removal(keys) \in Seq(Request)
  BY <1>1, RequestsTyped
<1>4. NoReads(Removal(old) \o Removal(keys))
  BY <1>1, RemovalsDoNotRead
<1>5. Removal(old) \o Removal(keys) \in Seq(Request) /\ StoreTyped
  BY <1>3 DEF TInv, TypeOK, StoreTyped
<1> QED
  BY <1>2, <1>4, <1>5, KeepSendsNoRead

\* A message that clears a row and ends.
LEMMA ClearStep ==
  ASSUME TInv, NEW m \in Messages, task[m].pc # "reading",
         NEW r \in Replicas, NEW row \in Row, NEW rows \in SUBSET Row,
         NEW old \in SUBSET Keys, Clear(r, row, rows, old, {row.ask}),
         NEW pc \in {"over", "executed"}, Ends(m, pc),
         UNCHANGED <<backend, running, asks, expired, faults>>
  PROVE  TInv'
<1> USE DEF TInv
<1>1. {row.ask} \in SUBSET Asks
  BY RowFields DEF Asks
<1>2. StoreTyped' /\ settled' \subseteq Asks /\ swept' \subseteq Asks
  BY <1>1, ClearTyped
<1>3. /\ task' \in [Messages -> Task]
      /\ \A n \in Messages \ {m} : task'[n] = task[n]
      /\ task'[m].pc = pc
      /\ task'[m].expiredThen = {}
  BY EndsFields DEF TypeOK
<1>4. TypeOK'
  BY <1>2, <1>3 DEF TypeOK, StoreTyped
<1>5. ExpiryInv' /\ BusyInv'
  BY <1>3, OneMessage
<1>6. QueueInv'
  BY <1>3, ClearSendsNoRead, QueueKept
<1> QED
  BY <1>4, <1>5, <1>6

LEMMA ResolveStep ==
  ASSUME TInv, NEW m \in Messages, Resolve(m)
  PROVE  TInv'
<1> DEFINE r == task[m].replica
           rows == Unexpired(memory[r])
           old == {Key(x) : x \in memory[r] \ rows}
<1>1. /\ task[m].pc = "refreshed"
      /\ UNCHANGED <<backend, running, asks, expired, faults>>
  BY ResolveKinds
<1>2. /\ r \in Replicas /\ r \in running
      /\ rows \in SUBSET Row
      /\ \A x \in rows : x.ask \notin expired
      /\ old \in SUBSET Keys
      /\ Removal(old) \in Seq(Request) /\ NoReads(Removal(old))
  BY <1>1, ResolveRows
<1>3. task \in [Messages -> Task]
  BY DEF TInv, TypeOK
<1>4. CASE Unresolved(m)
  <2>1. Keep(r, rows, Removal(old)) /\ Ends(m, "over") /\ UNCHANGED <<settled, swept>>
    BY <1>4 DEF Unresolved
  <2> HIDE DEF r, rows, old
  <2>2. /\ task' \in [Messages -> Task]
        /\ \A n \in Messages \ {m} : task'[n] = task[n]
        /\ task'[m].pc = "over"
        /\ task'[m].expiredThen = {}
    BY <1>3, <2>1, EndsFields
  <2>3. settled' \subseteq Asks /\ swept' \subseteq Asks
    BY <2>1 DEF TInv, TypeOK
  <2> QED
    BY <1>1, <1>2, <2>1, <2>2, <2>3, MessageStep
<1>5. ASSUME NEW row, Remembered(m, row) PROVE TInv'
  <2>1. /\ row \in Choice(rows, task[m].conversation)
        /\ Keep(r, rows, Removal(old)) /\ Goes(m, "connecting", {row})
        /\ UNCHANGED <<settled, swept>>
    BY <1>5 DEF Remembered
  <2>2. row \in rows
    BY <2>1, ChoiceFrom
  <2>3. row \in Row /\ row.ask \notin expired
    BY <1>2, <2>2
  <2> HIDE DEF rows, old
  <2>4. /\ task' \in [Messages -> Task]
        /\ \A n \in Messages \ {m} : task'[n] = task[n]
        /\ task'[m].pc = "connecting"
        /\ task'[m].rows = {row}
        /\ task'[m].replica = r
        /\ task'[m].expiredThen = task[m].expiredThen
    BY <1>3, <2>1, <2>3, GoesFields
  <2> HIDE DEF r
  <2>5. task'[m].expiredThen \subseteq expired
    BY <2>4 DEF TInv, ExpiryInv
  <2>6. {x.ask : x \in task'[m].rows} \intersect task'[m].expiredThen = {}
    BY <2>3, <2>4, <2>5
  <2>7. settled' \subseteq Asks /\ swept' \subseteq Asks
    BY <2>1 DEF TInv, TypeOK
  <2> QED
    BY <1>1, <1>2, <2>1, <2>4, <2>5, <2>6, <2>7, MessageStep
<1>6. ASSUME NEW row, Cancelled(m, row) PROVE TInv'
  <2>1. /\ row \in Choice(rows, task[m].conversation)
        /\ Clear(r, row, rows, old, {row.ask}) /\ Ends(m, "over")
    BY <1>6 DEF Cancelled
  <2>2. row \in Row
    BY <1>2, <2>1, ChoiceFrom
  <2> HIDE DEF r, rows, old
  <2> QED
    BY <1>1, <1>2, <2>1, <2>2, ClearStep
<1> QED
  BY <1>4, <1>5, <1>6, ResolveKinds

LEMMA ExecuteStep ==
  ASSUME TInv, NEW m \in Messages, Execute(m)
  PROVE  TInv'
<1> DEFINE r == task[m].replica
<1>1. /\ task[m].pc = "connecting" /\ Ends(m, "executed")
      /\ UNCHANGED <<backend, running, asks, expired, faults>>
  BY DEF Execute
<1>2. PICK row \in task[m].rows : Clear(r, row, memory[r], {}, {row.ask})
  BY DEF Execute
<1>3. r \in Replicas /\ row \in Row
  BY <1>1 DEF TInv, BusyInv, TypeOK, Task
<1>4. memory[r] \in SUBSET Row
  BY <1>3 DEF TInv, TypeOK
<1> HIDE DEF r
<1> QED
  BY <1>1, <1>2, <1>3, <1>4, ClearStep

LEMMA ProcessStep ==
  ASSUME TInv, NEW r \in Replicas, Crash(r) \/ Start(r)
  PROVE  TInv'
<1> USE DEF TInv
<1>1. CASE Crash(r)
  <2>1. /\ running' = running \ {r}
        /\ memory' = [memory EXCEPT ![r] = {}]
        /\ requests' = [requests EXCEPT ![r] = <<>>]
        /\ faults' = faults + 1
        /\ faults < MaxFaults
        /\ UNCHANGED <<backend, shared, ghosts>>
    BY <1>1 DEF Crash
  <2> DEFINE over == [Idle EXCEPT !.pc = "over"]
  <2>2. /\ over \in Task /\ over.pc = "over" /\ over.expiredThen = {}
    BY DEF Idle, Task, Kinds
  <2>3. task' = [m \in Messages |-> IF task[m].replica = r THEN over ELSE task[m]]
    BY <1>1 DEF Crash
  <2> HIDE DEF over
  <2>4. <<>> \in Seq(Request)
    OBVIOUS
  <2>5. TypeOK'
    BY <2>1, <2>2, <2>3, <2>4, ConfirmationConstants DEF TypeOK, ghosts
  <2>6. ExpiryInv'
    BY <2>1, <2>2, <2>3 DEF ExpiryInv, Chosen, ghosts
  <2>7. BusyInv'
    BY <2>1, <2>2, <2>3 DEF BusyInv
  <2>8. \A s \in Replicas, m \in Messages, i \in Nat :
          Reads(s, i, m)' => Reads(s, i, m) /\ s # r
    BY <2>1 DEF Reads, TypeOK
  <2>9. QueueInv'
    <3> SUFFICES ASSUME NEW s \in Replicas, NEW m \in Messages, NEW i \in Nat, NEW j \in Nat,
                        Reads(s, i, m)'
                 PROVE  /\ task'[m].pc = "reading" /\ task'[m].replica = s
                        /\ Reads(s, j, m)' => i = j
      BY DEF QueueInv
    <3>1. s # r /\ Reads(s, i, m) /\ (Reads(s, j, m)' => Reads(s, j, m))
      BY <2>8
    <3>2. task[m].pc = "reading" /\ task[m].replica = s /\ (Reads(s, j, m) => i = j)
      BY <3>1 DEF QueueInv
    <3> QED
      BY <2>3, <3>1, <3>2
  <2> QED
    BY <2>5, <2>6, <2>7, <2>9
<1>2. CASE Start(r)
  <2> DEFINE old == {Key(x) : x \in shared \ Live(shared)}
  <2>1. /\ running' = running \union {r}
        /\ memory' = [memory EXCEPT ![r] = Live(shared)]
        /\ \/ requests' = requests
           \/ requests' = [requests EXCEPT ![r] = Removal(old)]
        /\ UNCHANGED <<backend, shared, task, ghosts, faults>>
    BY <1>2 DEF Start
  <2>2. old \in SUBSET Keys
    BY RowFields DEF TypeOK
  <2> HIDE DEF old
  <2>3. Removal(old) \in Seq(Request) /\ NoReads(Removal(old))
    BY <2>2, RequestsTyped, RemovalsDoNotRead
  <2>4. TypeOK'
    BY <2>1, <2>3 DEF TypeOK, ghosts, Live
  <2>5. QueueShrinks
    BY <2>1, <2>3 DEF QueueShrinks, Reads, NoReads, TypeOK
  <2>6. QueueInv'
    BY <2>1, <2>5, QueueKept
  <2>7. ExpiryInv' /\ BusyInv'
    BY <2>1, NoMessage DEF ghosts
  <2> QED
    BY <2>4, <2>6, <2>7
<1> QED
  BY <1>1, <1>2

LEMMA TInvNext == TInv /\ [Next]_vars => TInv'
<1> SUFFICES ASSUME TInv, [Next]_vars PROVE TInv'
  OBVIOUS
<1>1. ASSUME NEW a \in Asks, Expire(a) PROVE TInv'
  <2>1. UNCHANGED <<backend, running, stores, task, asks, settled, swept, faults>>
        /\ expired' = expired \union {a}
    BY <1>1 DEF Expire
  <2>2. TypeOK'
    BY <2>1 DEF TInv, TypeOK, stores
  <2>3. ExpiryInv' /\ BusyInv'
    BY <2>1, NoMessage DEF TInv
  <2>4. QueueInv'
    BY <2>1 DEF TInv, QueueInv, Reads, stores
  <2> QED
    BY <2>2, <2>3, <2>4 DEF TInv
<1>2. ASSUME NEW m \in Messages, ConnectFails(m) PROVE TInv'
  <2>1. /\ task[m].pc = "connecting" /\ Ends(m, "over")
        /\ UNCHANGED <<backend, running, stores, ghosts, faults>>
    BY <1>2 DEF ConnectFails
  <2>2. /\ task' \in [Messages -> Task]
        /\ \A n \in Messages \ {m} : task'[n] = task[n]
        /\ task'[m].pc = "over"
        /\ task'[m].expiredThen = {}
    BY <2>1, EndsFields DEF TInv, TypeOK
  <2>3. TypeOK'
    BY <2>1, <2>2 DEF TInv, TypeOK, stores, ghosts
  <2>4. ExpiryInv' /\ BusyInv'
    BY <2>1, <2>2, OneMessage DEF TInv, ghosts
  <2>5. QueueShrinks
    BY <2>1 DEF QueueShrinks, Reads, stores
  <2>6. QueueInv'
    BY <2>1, <2>2, <2>5, QueueKept DEF TInv
  <2> QED
    BY <2>3, <2>4, <2>6 DEF TInv
<1>3. CASE UNCHANGED vars
  <2>1. UNCHANGED <<backend, running, memory, shared, requests, task, asks, expired,
                    settled, swept, faults>>
    BY <1>3 DEF vars, stores, ghosts
  <2>2. TypeOK'
    BY <2>1 DEF TInv, TypeOK
  <2>3. ExpiryInv' /\ BusyInv'
    BY <2>1, NoMessage DEF TInv
  <2>4. QueueInv'
    BY <2>1 DEF TInv, QueueInv, Reads
  <2> QED
    BY <2>2, <2>3, <2>4 DEF TInv
<1> QED
  BY <1>1, <1>2, <1>3, AskStep, ReceiveStep, ServeStep, FailStep, RefreshStep, ResolveStep,
     ExecuteStep, ProcessStep DEF Next

\* No reachable state is ill-typed, whichever requests to Redis are on their way.
THEOREM ConfirmationTyped == Spec => []TypeOK
<1>1. TInv => TypeOK
  BY DEF TInv
<1> QED
  BY <1>1, TInvInit, TInvNext, PTL DEF Spec

\* No message executes an ask that had expired when it came, with any number of
\* processes and either backend.
THEOREM NoneExpired == Spec => ExpiredNotExecuted
<1>1. TInv => \A m \in Messages :
                Executes(m) => Chosen(m) \intersect task[m].expiredThen = {}
  BY DEF TInv, ExpiryInv, Executes
<1>2. TInv => [\A m \in Messages :
                 Executes(m) => Chosen(m) \intersect task[m].expiredThen = {}]_vars
  BY <1>1
<1> QED
  BY <1>2, TInvInit, TInvNext, PTL DEF Spec, ExpiredNotExecuted

-----------------------------------------------------------------------------
(* The file backend                                                        *)

FInv == TInv /\ FileInv

LEMMA FInvInit == Init /\ backend = "file" => FileInv
<1> SUFFICES ASSUME Init, backend = "file" PROVE FileInv
  OBVIOUS
<1>1. \A r, s \in running : r = s
  BY DEF Init
<1>2. /\ Idle.pc = "idle" /\ Idle.rows = {} /\ Idle.settledThen = {}
  BY DEF Idle
<1>3. OneProcess
  BY <1>1 DEF Init, OneProcess, Live
<1>4. \A x : ~Known(x) /\ ~Stored(x)
  BY <1>2 DEF Init, Known, Stored
<1>5. RowsInv
  BY <1>4 DEF Init, RowsInv
<1>6. OpenInv
  BY DEF Init, OpenInv
<1>7. \A m \in Messages : MessageInv(m)
  BY <1>2 DEF Init, MessageInv
<1> QED
  BY <1>3, <1>5, <1>6, <1>7 DEF FileInv

\* No row of the running process is lost but by what ends its ask.
NoneLost ==
  \A r \in running : \A x \in memory[r] : x \in memory'[r] \/ x.ask \in Gone'

\* A change of the rows of the process: the file follows, and what was open and
\* is not gone stays.
LEMMA KeepFile ==
  ASSUME FInv, backend = "file", NEW r \in running, NEW rows \in SUBSET Row, NEW sent,
         Keep(r, rows, sent),
         UNCHANGED <<running, expired>>,
         asks' \in Nat, settled \subseteq settled', swept \subseteq swept',
         \A x \in memory[r] : x \in rows \/ x.ask \in Gone',
         \A a \in 1..asks' : a \in 1..asks \/ \E x \in Live(rows) : x.ask = a
  PROVE  /\ OneProcess' /\ OpenInv' /\ NoneLost
         /\ memory' = [memory EXCEPT ![r] = rows] /\ shared' = Live(rows)
<1> USE DEF FInv, FileInv
<1>1. memory \in [Replicas -> SUBSET Row] /\ r \in Replicas /\ shared \subseteq Row
  BY DEF TInv, TypeOK
<1>2. /\ memory' = [memory EXCEPT ![r] = rows]
      /\ shared' = Live(rows)
      /\ requests' = requests
  BY DEF Keep
<1>3. /\ \A s, t \in running : s = t
      /\ \A s \in Replicas \ running : memory[s] = {}
      /\ \A s \in Replicas : requests[s] = <<>>
      /\ Live(shared) = Live(memory[r])
  BY DEF OneProcess
<1>4. Live(shared)' = Live(rows) /\ Live(memory[r])' = Live(rows)
  BY <1>1, <1>2 DEF Live
<1>5. OneProcess'
  <2>1. \A s \in running' : s = r
    BY <1>3
  <2>2. \A s \in Replicas \ running' : memory'[s] = {}
    BY <1>1, <1>2, <1>3
  <2>3. \A s \in running' : Live(shared)' = Live(memory[s])'
    BY <1>4, <2>1
  <2> QED
    BY <1>2, <1>3, <2>1, <2>2, <2>3 DEF OneProcess
<1>6. OpenInv'
  <2> SUFFICES ASSUME NEW a \in (1..asks') \ Gone' PROVE \E x \in shared' : x.ask = a
    BY DEF OpenInv
  <2>1. CASE a \in 1..asks
    <3>1. a \notin Gone /\ a \notin expired
      BY DEF Gone
    <3>2. PICK x \in shared : x.ask = a
      BY <2>1, <3>1 DEF OpenInv
    <3>3. x \in memory[r]
      BY <1>3, <3>1, <3>2 DEF Live
    <3>4. x \in rows
      BY <3>2, <3>3
    <3> QED
      BY <1>2, <3>1, <3>2, <3>4 DEF Live
  <2>2. CASE a \notin 1..asks
    BY <1>2, <2>2
  <2> QED
    BY <2>1, <2>2
<1>7. NoneLost
  BY <1>1, <1>2, <1>3 DEF NoneLost
<1> QED
  BY <1>2, <1>5, <1>6, <1>7

\* A message that is not touched knows what it knew.
LEMMA MessageKept ==
  ASSUME FInv, NEW m \in Messages, task'[m] = task[m],
         settled \subseteq settled', expired \subseteq expired', swept \subseteq swept',
         NoneLost
  PROVE  MessageInv(m)'
<1> USE DEF FInv, FileInv
<1>1. Gone \subseteq Gone'
  BY DEF Gone
<1>2. MessageInv(m)
  OBVIOUS
<1>3. task'[m].pc \notin {"reading", "read"} /\ task'[m].settledThen \subseteq settled'
  BY <1>2 DEF MessageInv
<1>4. ASSUME task'[m].pc = "refreshed", NEW x \in task'[m].openThen
      PROVE  /\ x.conversation = task'[m].conversation
             /\ x \in memory'[task'[m].replica] \/ x.ask \in Gone'
  <2>1. task[m].replica \in running
    BY <1>4 DEF TInv, BusyInv
  <2>2. /\ x.conversation = task[m].conversation
        /\ x \in memory[task[m].replica] \/ x.ask \in Gone
    BY <1>2, <1>4 DEF MessageInv
  <2> QED
    BY <1>1, <2>1, <2>2 DEF NoneLost
<1>5. ASSUME task'[m].pc = "connecting"
      PROVE  /\ Chosen(m)' \intersect task'[m].settledThen = {}
             /\ \A x \in task'[m].openThen : x.ask \in Chosen(m)' \union Gone'
  <2>1. Chosen(m)' = Chosen(m)
    BY DEF Chosen
  <2>2. /\ Chosen(m) \intersect task[m].settledThen = {}
        /\ \A x \in task[m].openThen : x.ask \in Chosen(m) \union Gone
    BY <1>2, <1>5 DEF MessageInv
  <2> QED
    BY <1>1, <2>1, <2>2
<1> QED
  BY <1>3, <1>4, <1>5 DEF MessageInv

\* One that has ended knows nothing.
LEMMA MessageEnded ==
  ASSUME FInv, NEW m \in Messages, NEW pc \in {"over", "executed"}, Ends(m, pc)
  PROVE  MessageInv(m)'
<1>1. task'[m].pc = pc /\ task'[m].settledThen = {}
  BY EndsFields DEF FInv, TInv, TypeOK
<1> QED
  BY <1>1 DEF MessageInv

\* Rows stay what they are.
LEMMA RowsKept ==
  ASSUME FInv, asks' = asks,
         \A x \in Row : Known(x)' => Known(x),
         \A x \in Row : Stored(x)' => x.ask \notin settled',
         settled' \union expired' \subseteq 1..asks
  PROVE  RowsInv'
  BY DEF FInv, FileInv, RowsInv

\* The rows of the process are finitely many, one to an ask.
LEMMA RowsFinite ==
  ASSUME FInv, NEW r \in running
  PROVE  IsFiniteSet(memory[r])
<1>1. r \in Replicas /\ memory[r] \subseteq Row
  BY DEF FInv, TInv, TypeOK
<1>2. \A x, y \in memory[r] : x.ask = y.ask => x = y
  BY <1>1 DEF FInv, FileInv, RowsInv, Known
<1> DEFINE f == [x \in memory[r] |-> x.ask]
<1>3. \A x \in memory[r] : x.ask \in 1..MaxAsks
  BY <1>1, RowFields
<1>4. f \in Injection(memory[r], 1..MaxAsks)
  BY <1>2, <1>3 DEF Injection, IsInjective
<1>5. IsFiniteSet(1..MaxAsks)
  BY ConfirmationConstants, FS_Interval
<1> QED
  BY <1>4, <1>5, FS_Injection

\* Each step with the file backend.
LEMMA AskFile ==
  ASSUME FInv, backend = "file", NEW r \in Replicas, NEW c \in Conversations,
         NEW s \in Scenes \union {NoScene}, Ask(r, c, s)
  PROVE  FileInv'
<1> USE DEF FInv
<1> DEFINE row == [conversation |-> c, scene |-> s, ask |-> asks + 1]
           rows == Put(memory[r], row)
<1>1. asks \in Nat /\ asks + 1 \in Asks /\ r \in running
  BY ConfirmationConstants DEF Ask, TInv, TypeOK, Asks
<1>2. row \in Row /\ row.ask = asks + 1
  BY <1>1 DEF Row
<1>3. /\ Keep(r, rows, <<SetRow(row)>>)
      /\ swept' = swept \union {x.ask : x \in {y \in memory[r] : Key(y) = Key(row)}}
      /\ asks' = asks + 1
      /\ UNCHANGED <<backend, running, task, expired, settled, faults>>
  BY DEF Ask
<1> HIDE DEF row
<1>4. memory \in [Replicas -> SUBSET Row] /\ shared \subseteq Row
  BY DEF TInv, TypeOK
<1>5. rows \in SUBSET Row
  BY <1>2, <1>4 DEF Put
<1>6. \A x \in memory[r] : x \in rows \/ x.ask \in Gone'
  BY <1>3 DEF Put, Gone
<1>7. settled \union expired \subseteq 1..asks
  BY DEF FileInv, RowsInv
<1>8. \E x \in Live(rows) : x.ask = asks + 1
  <2>1. row \in rows
    BY DEF Put
  <2>2. row.ask \notin expired
    BY <1>1, <1>2, <1>7
  <2> QED
    BY <1>2, <2>1, <2>2 DEF Live
<1>9. \A x : x \in rows => x \in memory[r] \/ x = row
  BY DEF Put
<1> HIDE DEF rows
<1>10. \A a \in 1..asks' : a \in 1..asks \/ \E x \in Live(rows) : x.ask = a
  BY <1>1, <1>3, <1>8
<1>11. /\ OneProcess' /\ OpenInv' /\ NoneLost
       /\ memory' = [memory EXCEPT ![r] = rows] /\ shared' = Live(rows)
  BY <1>1, <1>3, <1>5, <1>6, <1>10, KeepFile
<1>12. \A x \in Row : /\ Stored(x)' => Stored(x) \/ x = row
                      /\ Known(x)' => Known(x) \/ x = row
  BY <1>1, <1>3, <1>4, <1>9, <1>11 DEF Stored, Known, Live
<1>13. RowsInv'
  <2>1. \A x \in Row : Known(x) => x.ask <= asks /\ x.ask \in Nat
    BY RowFields DEF FileInv, RowsInv
  <2>2. \A x, y \in Row : Known(x)' /\ Known(y)' /\ x.ask = y.ask => x = y
    <3> SUFFICES ASSUME NEW x \in Row, NEW y \in Row, Known(x)', Known(y)', x.ask = y.ask
                 PROVE  x = y
      OBVIOUS
    <3>1. CASE Known(x) /\ Known(y)
      BY <3>1 DEF FileInv, RowsInv
    <3>2. Known(x) => x.ask # asks + 1
      BY <1>1, <2>1
    <3>3. Known(y) => y.ask # asks + 1
      BY <1>1, <2>1
    <3> QED
      BY <1>2, <1>12, <3>1, <3>2, <3>3
  <2>3. \A x \in Row : Known(x)' => x.ask <= asks'
    BY <1>1, <1>2, <1>3, <1>12, <2>1
  <2>4. \A x \in Row : Stored(x)' => x.ask \notin settled'
    <3>1. asks + 1 \notin settled
      BY <1>1, <1>7
    <3> QED
      BY <1>2, <1>3, <1>12, <3>1 DEF FileInv, RowsInv
  <2>5. settled' \union expired' \subseteq 1..asks'
    BY <1>1, <1>3, <1>7
  <2> QED
    BY <2>2, <2>3, <2>4, <2>5 DEF RowsInv
<1>14. \A m \in Messages : MessageInv(m)'
  BY <1>3, <1>11, MessageKept
<1> QED
  BY <1>11, <1>13, <1>14 DEF FileInv

LEMMA ReceiveFile ==
  ASSUME FInv, backend = "file", NEW m \in Messages, NEW r \in Replicas,
         NEW c \in Conversations, NEW k \in Kinds, Receive(m, r, c, k)
  PROVE  FileInv'
<1> USE DEF FInv, FileInv
<1>1. /\ UNCHANGED <<running, memory, shared, requests, asks, expired, settled, swept>>
      /\ r \in running
  BY DEF Receive, ghosts
<1>2. /\ \A n \in Messages \ {m} : task'[n] = task[n]
      /\ task'[m].pc = "refreshed"
      /\ task'[m].replica = r
      /\ task'[m].conversation = c
      /\ task'[m].rows = {}
      /\ task'[m].settledThen \subseteq settled
      /\ task'[m].openThen \subseteq {x \in Live(shared) : x.conversation = c}
  BY ReceiveFields DEF TInv
<1>3. OneProcess' /\ OpenInv'
  BY <1>1 DEF OneProcess, OpenInv, Live, Gone
<1>4. \A x \in Row : (Known(x)' => Known(x)) /\ (Stored(x)' => Stored(x))
  BY <1>1, <1>2 DEF Known, Stored
<1>5. RowsInv'
  BY <1>1, <1>4, RowsKept DEF RowsInv
<1>6. NoneLost
  BY <1>1 DEF NoneLost
<1>7. \A n \in Messages \ {m} : MessageInv(n)'
  BY <1>1, <1>2, <1>6, MessageKept
<1>8. MessageInv(m)'
  <2>1. Live(shared) \subseteq memory[r]
    BY <1>1 DEF OneProcess, Live
  <2> QED
    BY <1>1, <1>2, <2>1 DEF MessageInv
<1> QED
  BY <1>3, <1>5, <1>7, <1>8

\* A message clears a row that it found, in a process that holds `rows` of its
\* memory, and ends.
LEMMA ClearFile ==
  ASSUME FInv, backend = "file", NEW m \in Messages, NEW r \in running,
         NEW row \in Row, Known(row),
         NEW rows, rows \subseteq memory[r],
         \A x \in memory[r] \ rows : x.ask \in expired,
         NEW old, Clear(r, row, rows, old, {row.ask}),
         NEW pc \in {"over", "executed"}, Ends(m, pc),
         UNCHANGED <<running, asks, expired>>
  PROVE  FileInv'
<1> USE DEF FInv, FileInv
<1> DEFINE keys == Cleared(r, row)
           left == Drop(rows, keys)
<1>1. /\ Keep(r, left, Removal(old) \o Removal(keys))
      /\ settled' = settled \union {row.ask}
      /\ swept' = swept \union ({x.ask : x \in {y \in rows : Key(y) \in keys}} \ {row.ask})
  BY DEF Clear
<1>2. memory \in [Replicas -> SUBSET Row] /\ shared \subseteq Row /\ r \in Replicas
  BY DEF TInv, TypeOK
<1>3. row \in memory[r] => Key(row) \in keys
  BY DEF Cleared
<1> HIDE DEF keys
<1>4. left \subseteq rows /\ \A x \in left : Key(x) \notin keys
  BY DEF Drop
<1>5. \A x \in memory[r] : x \in left \/ x.ask \in Gone'
  <2> SUFFICES ASSUME NEW x \in memory[r], x \notin left PROVE x.ask \in Gone'
    OBVIOUS
  <2>1. CASE x \notin rows
    BY <2>1 DEF Gone
  <2>2. CASE x \in rows
    <3>1. Key(x) \in keys
      BY <2>2 DEF Drop
    <3> QED
      BY <1>1, <2>2, <3>1 DEF Gone
  <2> QED
    BY <2>1, <2>2
<1> HIDE DEF left
<1>6. left \in SUBSET Row /\ asks \in Nat
  BY <1>2, <1>4 DEF TInv, TypeOK
<1>7. /\ OneProcess' /\ OpenInv' /\ NoneLost
      /\ memory' = [memory EXCEPT ![r] = left] /\ shared' = Live(left)
  BY <1>1, <1>5, <1>6, KeepFile
<1>8. /\ task' \in [Messages -> Task]
      /\ \A n \in Messages \ {m} : task'[n] = task[n]
      /\ task'[m].rows = {}
  BY EndsFields DEF TInv, TypeOK
<1>9. \A x \in Row : /\ Stored(x)' => x \in left
                     /\ Known(x)' => Known(x)
  <2>1. \A x \in Row : Stored(x)' => x \in left
    BY <1>2, <1>7 DEF Stored, Live, OneProcess
  <2>2. \A x \in Row : x \in left => Known(x)
    BY <1>2, <1>4 DEF Known
  <2>3. \A x \in Row : Known(x)' => Stored(x)' \/ Known(x)
    BY <1>8 DEF Known, Stored
  <2> QED
    BY <2>1, <2>2, <2>3
<1>10. ASSUME NEW x \in Row, x \in left PROVE x.ask \notin settled'
  <2>1. x \in memory[r] /\ Key(x) \notin keys
    BY <1>4, <1>10
  <2>2. Stored(x) /\ Known(x)
    BY <1>2, <2>1 DEF Stored, Known
  <2>3. x.ask # row.ask
    BY <1>3, <2>1, <2>2 DEF RowsInv
  <2> QED
    BY <1>1, <2>2, <2>3 DEF RowsInv
<1>11. settled' \union expired' \subseteq 1..asks
  BY <1>1, RowFields DEF RowsInv
<1>12. RowsInv'
  BY <1>9, <1>10, <1>11, RowsKept
<1>13. \A n \in Messages \ {m} : MessageInv(n)'
  BY <1>1, <1>7, <1>8, MessageKept
<1>14. MessageInv(m)'
  BY MessageEnded
<1> QED
  BY <1>7, <1>12, <1>13, <1>14

LEMMA ResolveFile ==
  ASSUME FInv, backend = "file", NEW m \in Messages, Resolve(m)
  PROVE  FileInv'
<1> USE DEF FInv, FileInv
<1> DEFINE r == task[m].replica
           rows == Unexpired(memory[r])
           old == {Key(x) : x \in memory[r] \ rows}
<1>1. /\ task[m].pc = "refreshed"
      /\ UNCHANGED <<backend, running, asks, expired, faults>>
  BY ResolveKinds
<1>2. /\ r \in Replicas /\ r \in running
      /\ rows \in SUBSET Row /\ rows \subseteq memory[r]
      /\ \A x \in rows : x.ask \notin expired
  BY <1>1, ResolveRows
<1>3. \A x \in memory[r] \ rows : x.ask \in expired
  BY DEF Unexpired, Live
<1>4. /\ memory \in [Replicas -> SUBSET Row] /\ task \in [Messages -> Task]
      /\ asks \in Nat
  BY DEF TInv, TypeOK
\* The rows that are too old are dropped.
<1>5. ASSUME Keep(r, rows, Removal(old)), UNCHANGED <<settled, swept>>
      PROVE  /\ OneProcess' /\ OpenInv' /\ NoneLost
             /\ memory' = [memory EXCEPT ![r] = rows] /\ shared' = Live(rows)
  <2>1. \A x \in memory[r] : x \in rows \/ x.ask \in Gone'
    BY <1>1, <1>3 DEF Gone
  <2> HIDE DEF r, rows, old
  <2> QED
    BY <1>1, <1>2, <1>4, <1>5, <2>1, KeepFile
<1>6. ASSUME memory' = [memory EXCEPT ![r] = rows], shared' = Live(rows),
             UNCHANGED <<settled, swept>>,
             \A n \in Messages \ {m} : task'[n] = task[n],
             task'[m].rows \subseteq rows
      PROVE  RowsInv'
  <2>1. \A x \in Row : Stored(x)' => Stored(x)
    BY <1>2, <1>4, <1>6 DEF Stored, Live
  <2>2. \A x \in Row : Stored(x) => Known(x)
    BY DEF Stored, Known
  <2>3. \A x \in Row : x \in rows => Stored(x)
    BY <1>2 DEF Stored
  <2>4. \A x \in Row : Known(x)' => Stored(x)' \/ Known(x) \/ x \in rows
    BY <1>6 DEF Known, Stored
  <2>5. \A x \in Row : Known(x)' => Known(x)
    BY <2>1, <2>2, <2>3, <2>4
  <2>6. settled' \union expired' \subseteq 1..asks
    BY <1>1, <1>6 DEF RowsInv
  <2>7. \A x \in Row : Stored(x)' => x.ask \notin settled'
    BY <1>6, <2>1 DEF RowsInv
  <2> QED
    BY <1>1, <2>5, <2>6, <2>7, RowsKept
<1>7. CASE Unresolved(m)
  <2>1. Keep(r, rows, Removal(old)) /\ Ends(m, "over") /\ UNCHANGED <<settled, swept>>
    BY <1>7 DEF Unresolved
  <2>2. /\ \A n \in Messages \ {m} : task'[n] = task[n]
        /\ task'[m].rows = {}
    BY <1>4, <2>1, EndsFields
  <2> HIDE DEF r, rows, old
  <2>3. /\ OneProcess' /\ OpenInv' /\ NoneLost
        /\ memory' = [memory EXCEPT ![r] = rows] /\ shared' = Live(rows)
    BY <1>5, <2>1
  <2>4. RowsInv'
    BY <1>6, <2>1, <2>2, <2>3
  <2>5. \A n \in Messages \ {m} : MessageInv(n)'
    BY <1>1, <2>1, <2>2, <2>3, MessageKept
  <2>6. MessageInv(m)'
    BY <2>1, MessageEnded
  <2> QED
    BY <2>3, <2>4, <2>5, <2>6
<1>8. ASSUME NEW row, Remembered(m, row) PROVE FileInv'
  <2> DEFINE c == task[m].conversation
             here == {x \in rows : x.conversation = c}
  <2>1. /\ row \in Choice(rows, c)
        /\ Keep(r, rows, Removal(old)) /\ Goes(m, "connecting", {row})
        /\ UNCHANGED <<settled, swept>>
    BY <1>8 DEF Remembered
  <2>2. row \in rows
    BY <2>1, ChoiceFrom
  <2>3. \A x \in here : x = row
    <3>1. IsFiniteSet(here)
      <4>1. here \subseteq memory[r] /\ IsFiniteSet(memory[r])
        BY <1>2, RowsFinite
      <4> HIDE DEF here
      <4> QED
        BY <4>1, FS_Subset
    <3>2. ~(Cardinality(here) > 1)
      BY <2>1 DEF Choice
    <3>3. here # {} => row \in here
      BY <2>1 DEF Choice
    <3> HIDE DEF here
    <3>4. ASSUME NEW x \in here, x # row PROVE FALSE
      <4>1. {x, row} \subseteq here
        BY <3>3
      <4>2. Cardinality({x, row}) = 2
        <5>1. IsFiniteSet({x}) /\ Cardinality({x}) = 1 /\ row \notin {x}
          BY <3>4, FS_Singleton
        <5>2. Cardinality({x} \cup {row}) = 2
          BY <5>1, FS_AddElement
        <5>3. {x} \cup {row} = {x, row}
          OBVIOUS
        <5> QED
          BY <5>2, <5>3
      <4>3. Cardinality({x, row}) <= Cardinality(here)
        BY <3>1, <4>1, FS_Subset
      <4>4. Cardinality(here) \in Nat
        BY <3>1, FS_CardinalityType
      <4> QED
        BY <3>2, <4>2, <4>3, <4>4
    <3> QED
      BY <3>4
  <2>4. row \in Row
    BY <1>2, <2>2
  <2>5. /\ \A n \in Messages \ {m} : task'[n] = task[n]
        /\ task'[m].pc = "connecting"
        /\ task'[m].rows = {row}
        /\ task'[m].replica = r
        /\ task'[m].settledThen = task[m].settledThen
        /\ task'[m].openThen = task[m].openThen
    BY <1>4, <2>1, <2>4, GoesFields
  <2>6. /\ OneProcess' /\ OpenInv' /\ NoneLost
        /\ memory' = [memory EXCEPT ![r] = rows] /\ shared' = Live(rows)
    BY <1>5, <2>1
  <2>7. RowsInv'
    BY <1>6, <2>1, <2>2, <2>5, <2>6
  <2>8. \A n \in Messages \ {m} : MessageInv(n)'
    BY <1>1, <2>1, <2>5, <2>6, MessageKept
  <2>9. MessageInv(m)'
    <3>1. Chosen(m)' = {row.ask}
      BY <2>5 DEF Chosen
    <3>2. /\ task[m].settledThen \subseteq settled
          /\ \A x \in task[m].openThen :
               x.conversation = c /\ (x \in memory[r] \/ x.ask \in Gone)
      BY <1>1 DEF MessageInv
    <3>3. row.ask \notin settled
      BY <1>2, <2>2, <2>4 DEF RowsInv, Stored
    <3>4. Gone' = Gone
      BY <1>1, <2>1 DEF Gone
    <3>5. \A x \in task[m].openThen : x.ask \in Gone \/ x.ask = row.ask
      <4> SUFFICES ASSUME NEW x \in task[m].openThen, x.ask \notin Gone
                   PROVE  x.ask = row.ask
        OBVIOUS
      <4>1. x \in memory[r] /\ x.conversation = c
        BY <3>2
      <4>2. x \in rows
        BY <1>3, <4>1 DEF Gone
      <4> QED
        BY <2>3, <4>1, <4>2
    <3>6. settled' = settled
      BY <2>1
    <3> HIDE DEF r, rows, old, here
    <3>7. /\ task'[m].settledThen \subseteq settled'
          /\ Chosen(m)' \intersect task'[m].settledThen = {}
      BY <2>5, <3>1, <3>2, <3>3, <3>6
    <3>8. \A x \in task'[m].openThen : x.ask \in Chosen(m)' \union Gone'
      BY <2>5, <3>1, <3>4, <3>5
    <3> QED
      BY <2>5, <3>7, <3>8 DEF MessageInv
  <2> QED
    BY <2>6, <2>7, <2>8, <2>9
<1>9. ASSUME NEW row, Cancelled(m, row) PROVE FileInv'
  <2>1. /\ row \in Choice(rows, task[m].conversation)
        /\ Clear(r, row, rows, old, {row.ask}) /\ Ends(m, "over")
    BY <1>9 DEF Cancelled
  <2>2. row \in rows
    BY <2>1, ChoiceFrom
  <2>3. row \in Row /\ Known(row)
    BY <1>2, <2>2 DEF Known
  <2> HIDE DEF r, rows, old
  <2> QED
    BY <1>1, <1>2, <1>3, <2>1, <2>3, ClearFile
<1> QED
  BY <1>7, <1>8, <1>9, ResolveKinds

LEMMA ExecuteFile ==
  ASSUME FInv, backend = "file", NEW m \in Messages, Execute(m)
  PROVE  FileInv'
<1> DEFINE r == task[m].replica
<1>1. /\ task[m].pc = "connecting" /\ Ends(m, "executed")
      /\ UNCHANGED <<running, asks, expired>>
  BY DEF Execute
<1>2. PICK row \in task[m].rows : Clear(r, row, memory[r], {}, {row.ask})
  BY DEF Execute
<1>3. r \in running /\ row \in Row /\ Known(row)
  BY <1>1 DEF FInv, TInv, BusyInv, TypeOK, Task, Known
<1> HIDE DEF r
<1> QED
  BY <1>1, <1>2, <1>3, ClearFile

\* A process ends or starts: no message is handled then but by the one that ends.
LEMMA ProcessFile ==
  ASSUME FInv, backend = "file", NEW r \in Replicas, Crash(r) \/ Start(r)
  PROVE  FileInv'
<1> USE DEF FInv, FileInv
<1>1. /\ memory \in [Replicas -> SUBSET Row] /\ shared \subseteq Row
      /\ task \in [Messages -> Task] /\ asks \in Nat
      /\ \A s, t \in running : s = t
      /\ \A s \in Replicas \ running : memory[s] = {}
      /\ \A s \in Replicas : requests[s] = <<>>
      /\ requests \in [Replicas -> Seq(Request)]
  BY DEF TInv, TypeOK, OneProcess
<1>2. UNCHANGED <<shared, asks, expired, settled, swept>>
  BY DEF Crash, Start, ghosts
<1>3. OpenInv'
  BY <1>2 DEF OpenInv, Gone
<1>4. CASE Crash(r)
  <2>1. /\ running' = running \ {r} /\ r \in running
        /\ memory' = [memory EXCEPT ![r] = {}]
        /\ requests' = [requests EXCEPT ![r] = <<>>]
    BY <1>4 DEF Crash
  <2> DEFINE over == [Idle EXCEPT !.pc = "over"]
  <2>2. over.pc = "over" /\ over.rows = {} /\ over.settledThen = {}
    BY DEF Idle
  <2>3. task' = [m \in Messages |-> IF task[m].replica = r THEN over ELSE task[m]]
    BY <1>4 DEF Crash
  <2> HIDE DEF over
  <2>4. running' = {}
    BY <1>1, <2>1
  <2>5. OneProcess'
    BY <1>1, <2>1, <2>4 DEF OneProcess
  <2>6. \A x \in Row : (Known(x)' => Known(x)) /\ (Stored(x)' => Stored(x))
    BY <1>1, <1>2, <2>1, <2>2, <2>3 DEF Known, Stored
  <2>7. RowsInv'
    BY <1>2, <2>6, RowsKept DEF RowsInv
  <2>8. ASSUME NEW m \in Messages PROVE MessageInv(m)'
    <3>1. CASE task[m].replica = r
      <4>1. task'[m] = over
        BY <2>3, <3>1
      <4> QED
        BY <2>2, <4>1 DEF MessageInv
    <3>2. CASE task[m].replica # r
      <4>1. task'[m] = task[m]
        BY <2>3, <3>2
      <4>2. task[m].pc \notin {"refreshed", "connecting"}
        BY <1>1, <2>1, <3>2 DEF TInv, BusyInv
      <4>3. MessageInv(m)
        OBVIOUS
      <4> QED
        BY <1>2, <4>1, <4>2, <4>3 DEF MessageInv
    <3> QED
      BY <3>1, <3>2
  <2> QED
    BY <1>3, <2>5, <2>7, <2>8
<1>5. CASE Start(r)
  <2>1. /\ running = {} /\ running' = {r}
        /\ memory' = [memory EXCEPT ![r] = Live(shared)]
        /\ requests' = requests /\ task' = task
    BY <1>5 DEF Start
  <2>2. OneProcess'
    BY <1>1, <1>2, <2>1 DEF OneProcess, Live
  <2>3. \A x \in Row : (Known(x)' => Known(x)) /\ (Stored(x)' => Stored(x))
    BY <1>1, <1>2, <2>1 DEF Known, Stored, Live
  <2>4. RowsInv'
    BY <1>2, <2>3, RowsKept DEF RowsInv
  <2>5. NoneLost
    BY <2>1 DEF NoneLost
  <2>6. \A m \in Messages : MessageInv(m)'
    BY <1>2, <2>1, <2>5, MessageKept
  <2> QED
    BY <1>3, <2>2, <2>4, <2>6
<1> QED
  BY <1>4, <1>5

LEMMA ExpireFile ==
  ASSUME FInv, NEW a \in Asks, Expire(a)
  PROVE  FileInv'
<1> USE DEF FInv, FileInv
<1>1. /\ expired' = expired \union {a} /\ a \in 1..asks
      /\ UNCHANGED <<running, memory, shared, requests, task, asks, settled, swept>>
  BY DEF Expire, stores
<1>2. OneProcess'
  <2>1. \A r \in running : Live(shared)' = Live(memory[r])'
    <3> SUFFICES ASSUME NEW r \in running PROVE Live(shared)' = Live(memory[r])'
      OBVIOUS
    <3>1. Live(shared) = Live(memory[r])
      BY DEF OneProcess
    <3>2. /\ Live(shared)' = {x \in Live(shared) : x.ask # a}
          /\ Live(memory[r])' = {x \in Live(memory[r]) : x.ask # a}
      BY <1>1 DEF Live
    <3> QED
      BY <3>1, <3>2
  <2> QED
    BY <1>1, <2>1 DEF OneProcess
<1>3. OpenInv'
  BY <1>1 DEF OpenInv, Gone
<1>4. \A x \in Row : (Known(x)' => Known(x)) /\ (Stored(x)' => Stored(x))
  BY <1>1 DEF Known, Stored
<1>5. RowsInv'
  BY <1>1, <1>4, RowsKept DEF RowsInv
<1>6. NoneLost
  BY <1>1 DEF NoneLost
<1>7. \A m \in Messages : MessageInv(m)'
  BY <1>1, <1>6, MessageKept
<1> QED
  BY <1>2, <1>3, <1>5, <1>7

LEMMA FInvNext == FInv /\ backend = "file" /\ [Next]_vars => FileInv'
<1> SUFFICES ASSUME FInv, backend = "file", [Next]_vars PROVE FileInv'
  OBVIOUS
<1> USE DEF FInv, FileInv
<1>1. ASSUME NEW r \in Replicas, Serve(r) \/ RequestFails(r) PROVE FileInv'
  BY <1>1 DEF Serve, RequestFails, OneProcess
<1>2. ASSUME NEW m \in Messages, Refresh(m) PROVE FileInv'
  BY <1>2 DEF Refresh, MessageInv
<1>3. ASSUME NEW m \in Messages, ConnectFails(m) PROVE FileInv'
  <2>1. /\ Ends(m, "over")
        /\ UNCHANGED <<running, memory, shared, requests, asks, expired, settled, swept>>
    BY <1>3 DEF ConnectFails, stores, ghosts
  <2>2. /\ \A n \in Messages \ {m} : task'[n] = task[n]
        /\ task'[m].rows = {}
    BY <2>1, EndsFields DEF TInv, TypeOK
  <2>3. OneProcess' /\ OpenInv' /\ NoneLost
    BY <2>1 DEF OneProcess, OpenInv, NoneLost, Live, Gone
  <2>4. \A x \in Row : (Known(x)' => Known(x)) /\ (Stored(x)' => Stored(x))
    BY <2>1, <2>2 DEF Known, Stored
  <2>5. RowsInv'
    BY <2>1, <2>4, RowsKept DEF RowsInv
  <2>6. \A n \in Messages \ {m} : MessageInv(n)'
    BY <2>1, <2>2, <2>3, MessageKept
  <2>7. MessageInv(m)'
    BY <2>1, MessageEnded
  <2> QED
    BY <2>3, <2>5, <2>6, <2>7
<1>4. CASE UNCHANGED vars
  <2>1. UNCHANGED <<running, memory, shared, requests, task, asks, expired, settled, swept>>
    BY <1>4 DEF vars, stores, ghosts
  <2>2. OneProcess' /\ OpenInv' /\ NoneLost
    BY <2>1 DEF OneProcess, OpenInv, NoneLost, Live, Gone
  <2>3. \A x \in Row : (Known(x)' => Known(x)) /\ (Stored(x)' => Stored(x))
    BY <2>1 DEF Known, Stored
  <2>4. RowsInv'
    BY <2>1, <2>3, RowsKept DEF RowsInv
  <2>5. \A m \in Messages : MessageInv(m)'
    BY <2>1, <2>2, MessageKept
  <2> QED
    BY <2>2, <2>4, <2>5
<1>5. ASSUME NEW a \in Asks, Expire(a) PROVE FileInv'
  BY <1>5, ExpireFile
<1>6. ASSUME NEW r \in Replicas, Crash(r) \/ Start(r) PROVE FileInv'
  BY <1>6, ProcessFile
<1>7. ASSUME NEW m \in Messages, Resolve(m) \/ Execute(m) PROVE FileInv'
  BY <1>7, ResolveFile, ExecuteFile
<1>8. ASSUME NEW r \in Replicas, NEW c \in Conversations,
             \/ \E s \in Scenes \union {NoScene} : Ask(r, c, s)
             \/ \E m \in Messages, k \in Kinds : Receive(m, r, c, k)
      PROVE  FileInv'
  BY <1>8, AskFile, ReceiveFile
<1> QED
  BY <1>1, <1>2, <1>3, <1>4, <1>5, <1>6, <1>7, <1>8 DEF Next

\* What was open when it came is noted of a message with the file backend only.
OpenNeedsFile == backend # "file" => \A m \in Messages : task[m].openThen = {}

LEMMA OpenNext == TInv /\ OpenNeedsFile /\ [Next]_vars => OpenNeedsFile'
<1> SUFFICES ASSUME TInv, OpenNeedsFile, [Next]_vars, backend' # "file",
                    NEW m \in Messages
             PROVE  task'[m].openThen = {}
  BY DEF OpenNeedsFile
<1>1. backend' = backend
  BY DEF Next, Ask, Expire, Receive, Serve, RequestFails, Refresh, Resolve, Execute,
         ConnectFails, Crash, Start, vars
<1>2. task[m].openThen = {} /\ TypeOK /\ task \in [Messages -> Task]
  BY <1>1 DEF OpenNeedsFile, TInv, TypeOK
<1>3. CASE UNCHANGED task
  BY <1>2, <1>3
<1>4. ASSUME NEW n \in Messages, NEW pc \in {"over", "executed"}, Ends(n, pc)
      PROVE  task'[m].openThen = {}
  BY <1>2, <1>4, EndsFields
<1>5. ASSUME NEW n \in Messages, NEW pc \in {"reading", "read", "refreshed", "connecting"},
             NEW rows \in SUBSET Row, Goes(n, pc, rows)
      PROVE  task'[m].openThen = {}
  BY <1>2, <1>5, GoesFields
<1>6. ASSUME NEW n \in Messages, NEW r \in Replicas, NEW c \in Conversations,
             NEW k \in Kinds, Receive(n, r, c, k)
      PROVE  task'[m].openThen = {}
  BY <1>1, <1>2, <1>6, ReceiveFields
<1>n. ASSUME NEW r, NEW n \in Messages, NEW rows \in SUBSET Row, NEW left, NextRead(r, n, rows, left)
      PROVE  task'[m].openThen = {}
  BY <1>5, <1>n DEF NextRead
<1>7. ASSUME NEW r \in Replicas, Serve(r) \/ RequestFails(r) PROVE task'[m].openThen = {}
  <2> DEFINE q == Head(requests[r])
  <2>1. requests[r] # <<>>
    BY <1>7 DEF Serve, RequestFails
  <2>2. q \in Request
    BY <1>2, <2>1, HeadTyped
  <2>3. CASE UNCHANGED task
    BY <1>3, <2>3
  <2>4. ASSUME q.op = "scan", NEW left, NextRead(r, q.message, {}, left)
        PROVE  task'[m].openThen = {}
    BY <1>n, <2>2, <2>4, RequestFields
  <2>5. ASSUME q.op = "get", NEW k, NEW rows \in Found({x \in shared : Key(x) = k}),
               NextRead(r, q.message, task[q.message].rows \union rows, q.keys \ {k})
        PROVE  task'[m].openThen = {}
    <3>1. q.message \in Messages
      BY <2>2, <2>5, RequestFields
    <3>2. task[q.message].rows \in SUBSET Row
      BY <1>2, <3>1 DEF Task
    <3>3. task[q.message].rows \union rows \in SUBSET Row
      BY <1>2, <2>1, <2>5, <3>2, HeadTyped DEF Found
    <3> QED
      BY <1>n, <2>5, <3>1, <3>3
  <2>6. CASE q.op \in {"scan", "get"} /\ Ends(q.message, "over")
    BY <1>4, <2>2, <2>6, RequestFields
  <2> QED
    BY <1>7, <2>3, <2>4, <2>5, <2>6 DEF Serve, RequestFails
<1>8. ASSUME NEW n \in Messages, Resolve(n) PROVE task'[m].openThen = {}
  <2>1. CASE Unresolved(n)
    BY <1>4, <2>1 DEF Unresolved
  <2>2. ASSUME NEW row, Remembered(n, row) PROVE task'[m].openThen = {}
    <3>1. row \in Row
      BY <1>8, <2>2, ResolveKinds, ResolveRows, ChoiceFrom DEF Remembered
    <3> QED
      BY <1>5, <2>2, <3>1 DEF Remembered
  <2>3. ASSUME NEW row, Cancelled(n, row) PROVE task'[m].openThen = {}
    BY <1>4, <2>3 DEF Cancelled
  <2> QED
    BY <1>8, <2>1, <2>2, <2>3, ResolveKinds
<1>9. ASSUME NEW n \in Messages, Refresh(n) PROVE task'[m].openThen = {}
  BY <1>5, <1>9 DEF Refresh
<1>10. ASSUME NEW n \in Messages, Execute(n) \/ ConnectFails(n)
       PROVE  task'[m].openThen = {}
  BY <1>4, <1>10 DEF Execute, ConnectFails
<1>11. ASSUME NEW r \in Replicas, Crash(r) PROVE task'[m].openThen = {}
  <2> DEFINE over == [Idle EXCEPT !.pc = "over"]
  <2>1. over.openThen = {}
    BY DEF Idle
  <2>2. task' = [n \in Messages |-> IF task[n].replica = r THEN over ELSE task[n]]
    BY <1>11 DEF Crash
  <2> HIDE DEF over
  <2> QED
    BY <1>2, <2>1, <2>2
<1>12. ASSUME \/ \E r \in Replicas : Start(r)
              \/ \E r \in Replicas, c \in Conversations, s \in Scenes \union {NoScene} :
                   Ask(r, c, s)
              \/ \E a \in Asks : Expire(a)
              \/ UNCHANGED vars
       PROVE  UNCHANGED task
  BY <1>12 DEF Start, Ask, Expire, vars
<1> QED
  BY <1>3, <1>6, <1>7, <1>8, <1>9, <1>10, <1>11, <1>12 DEF Next

\* The inductive invariant: what holds with either backend, and of the file's.
Inv == TInv /\ OpenNeedsFile /\ (backend = "file" => FileInv)

LEMMA InvAlways == Spec => []Inv
<1>1. Init => Inv
  <2>1. Init => OpenNeedsFile
    BY DEF Init, OpenNeedsFile, Idle
  <2> QED
    BY <2>1, TInvInit, FInvInit DEF Inv
<1>2. Inv /\ [Next]_vars => Inv'
  <2>1. Inv /\ [Next]_vars => backend' = backend
    BY DEF Next, Ask, Expire, Receive, Serve, RequestFails, Refresh, Resolve, Execute,
           ConnectFails, Crash, Start, vars
  <2> QED
    BY <2>1, TInvNext, FInvNext, OpenNext DEF Inv, FInv
<1> QED
  BY <1>1, <1>2, PTL DEF Spec

\* An ask stays, in the file and in the memory of the process, until it is
\* executed, cancelled, replaced, cleared with its conversation or too old.
THEOREM AsksAreKept == Spec => []AskKept
<1>1. Inv => AskKept
  <2> SUFFICES ASSUME Inv, backend = "file",
                      NEW a \in (1..asks) \ (expired \union settled \union swept)
               PROVE  \A rows \in {shared} \union {memory[r] : r \in running} :
                        \E row \in rows : row.ask = a
    BY DEF AskKept
  <2>1. a \in (1..asks) \ Gone
    BY DEF Gone
  <2>2. PICK x \in shared : x.ask = a
    BY <2>1 DEF Inv, FileInv, OpenInv
  <2>3. \A r \in running : x \in memory[r]
    BY <2>2 DEF Inv, FileInv, OneProcess, Live
  <2> QED
    BY <2>2, <2>3
<1> QED
  BY <1>1, InvAlways, PTL

\* Of one process with the file backend: no message executes an ask that was
\* settled when it came, however the awaits of the others end.
THEOREM SettledOnce == Spec => SettledIsFinal
<1>1. Inv => \A m \in Messages : Executes(m) /\ backend = "file" =>
               Chosen(m) \intersect task[m].settledThen = {}
  BY DEF Inv, FileInv, MessageInv, Executes
<1>2. Inv => [\A m \in Messages : Executes(m) /\ backend = "file" =>
                Chosen(m) \intersect task[m].settledThen = {}]_vars
  BY <1>1
<1> QED
  BY <1>2, InvAlways, PTL DEF SettledIsFinal

\* With the file backend a confirmation executes nothing while another row of
\* its conversation is open that was there when it came.
THEOREM OneOfOne == Spec => NeverGuesses
<1>1. Inv => \A m \in Messages : Executes(m) =>
               \A x \in task[m].openThen \intersect Live(shared) :
                 x.ask \in Chosen(m) \union settled \union swept
  <2> SUFFICES ASSUME Inv, NEW m \in Messages, Executes(m),
                      NEW x \in task[m].openThen \intersect Live(shared)
               PROVE  x.ask \in Chosen(m) \union settled \union swept
    OBVIOUS
  <2>1. backend = "file"
    BY DEF Inv, OpenNeedsFile
  <2>2. x.ask \in Chosen(m) \union Gone
    BY <2>1 DEF Inv, FileInv, MessageInv, Executes
  <2>3. x.ask \notin expired
    BY DEF Live
  <2> QED
    BY <2>2, <2>3 DEF Gone
<1>2. Inv => [\A m \in Messages : Executes(m) =>
                \A x \in task[m].openThen \intersect Live(shared) :
                  x.ask \in Chosen(m) \union settled \union swept]_vars
  BY <1>1
<1> QED
  BY <1>2, InvAlways, PTL DEF NeverGuesses

=============================================================================
