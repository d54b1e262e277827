------------------------ MODULE CommandOutcomesProofs ------------------------
(***************************************************************************)
(* Who counts as notified was told, a push does not repeat while it is     *)
(* remembered, and a window is kept until it is settled: for any commands, *)
(* devices, late events, crashes and size of the memory.                   *)
(***************************************************************************)
EXTENDS CommandOutcomes, TLAPS

\* The steps by what they write: the calls of a command, its push, the windows.
CallStep(c) ==
  \/ \E s \in Kinds : Ends(c, s)
  \/ LateEvent(c)
  \/ \E i \in Calls : MessageArrives(c, i) \/ SendReturns(c, i) \/ SendFails(c, i)

HookStep(c) == HookCompleted(c) \/ HookFailed(c)

PushStep(c) == PushArrives(c) \/ PushReturns(c) \/ PushFails(c)

WindowStep == TickStep \/ \E i \in 1..Len(rows) : Due(i)

LEMMA Steps ==
  Next <=> \/ \E c \in Command : CallStep(c) \/ HookStep(c) \/ PushStep(c)
           \/ WindowStep \/ Crash
  BY DEF Next, CallStep, HookStep, PushStep, WindowStep

-----------------------------------------------------------------------------
(* The message to the user *)

\* A call whose message has arrived, like a record that is marked, is of a
\* user who was told.
ToldInv ==
  /\ tell \in [Command -> [Calls -> Stages]] /\ late \in [Command -> Nat]
  /\ notified \in [Command -> BOOLEAN] /\ told \in [Command -> BOOLEAN]
  /\ \A c \in Command : notified[c] => told[c]
  /\ \A c \in Command, i \in Calls : tell[c][i] = "arrived" => told[c]

LEMMA NotifyKeeps ==
  ASSUME ToldInv, NEW c \in Command, NEW i \in Calls, Notify(c, i)
  PROVE  /\ tell' \in [Command -> [Calls -> Stages]]
         /\ \A d \in Command, j \in Calls : tell'[d][j] = "arrived" => tell[d][j] = "arrived"
  <1>1. CASE UNCHANGED tell
    BY <1>1 DEF ToldInv
  <1>2. CASE tell' = [tell EXCEPT ![c][i] = "sending"]
    <2> DEFINE calls == [tell[c] EXCEPT ![i] = "sending"]
    <2>1. calls \in [Calls -> Stages] /\ \A j \in Calls : calls[j] = "arrived" => tell[c][j] = "arrived"
      BY DEF ToldInv, Stages
    <2>2. tell' = [tell EXCEPT ![c] = calls]
      BY <1>2
    <2> HIDE DEF calls
    <2> QED BY <2>1, <2>2 DEF ToldInv
  <1> QED BY <1>1, <1>2 DEF Notify

\* Nobody is told or marked, and no message arrives.
LEMMA ToldSame ==
  ASSUME ToldInv, UNCHANGED <<notified, told>>, late' \in [Command -> Nat],
         tell' \in [Command -> [Calls -> Stages]],
         \A d \in Command, j \in Calls : tell'[d][j] = "arrived" => tell[d][j] = "arrived"
  PROVE  ToldInv'
  BY DEF ToldInv, Calls

LEMMA ToldUntouched ==
  ASSUME ToldInv, UNCHANGED <<tell, late, notified, told>> PROVE ToldInv'
  BY ToldSame DEF ToldInv

LEMMA CallKeepsTold == ASSUME ToldInv, NEW c \in Command, CallStep(c) PROVE ToldInv'
  <1>0. MaxLate \in Nat /\ late[c] \in Nat
    BY OutcomeConstants DEF ToldInv
  <1>1. ASSUME NEW s \in Kinds, Ends(c, s) PROVE ToldInv'
    <2>1. 0 \in Calls /\ Notify(c, 0)
      BY <1>0, <1>1 DEF Calls, Ends
    <2> QED BY <1>1, <2>1, NotifyKeeps, ToldSame DEF Ends, ToldInv
  <1>2. CASE LateEvent(c)
    <2>1. late[c] + 1 \in Calls /\ Notify(c, late[c] + 1)
      BY <1>0, <1>2 DEF Calls, LateEvent
    <2>2. late' \in [Command -> Nat]
      BY <1>0, <1>2 DEF LateEvent, ToldInv
    <2> QED BY <1>2, <2>1, <2>2, NotifyKeeps, ToldSame DEF LateEvent, disk
  <1>3. ASSUME NEW i \in Calls, MessageArrives(c, i) PROVE ToldInv'
    BY <1>3 DEF MessageArrives, ToldInv, disk, Stages, Calls
  <1>4. ASSUME NEW i \in Calls, SendReturns(c, i) PROVE ToldInv'
    BY <1>4 DEF SendReturns, ToldInv, Stages, Calls
  <1>5. ASSUME NEW i \in Calls, SendFails(c, i) PROVE ToldInv'
    <2>1. /\ tell' \in [Command -> [Calls -> Stages]]
          /\ \A d \in Command, j \in Calls : tell'[d][j] = "arrived" => tell[d][j] = "arrived"
      BY <1>5 DEF SendFails, ToldInv, Stages
    <2> QED BY <1>5, <2>1, ToldSame DEF SendFails, disk, ToldInv
  <1> QED BY <1>1, <1>2, <1>3, <1>4, <1>5 DEF CallStep

LEMMA ToldInvNext == ToldInv /\ [Next]_vars => ToldInv'
  <1> SUFFICES ASSUME ToldInv, [Next]_vars PROVE ToldInv'
    OBVIOUS
  <1>1. ASSUME NEW c \in Command, HookStep(c) PROVE ToldInv'
    BY <1>1, ToldUntouched DEF HookStep, HookCompleted, HookFailed, disk
  <1>2. ASSUME NEW c \in Command, PushStep(c) PROVE ToldInv'
    BY <1>2, ToldUntouched DEF PushStep, PushArrives, PushReturns, PushFails, disk
  <1>3. CASE WindowStep
    BY <1>3, ToldUntouched DEF WindowStep, TickStep, TickStart, TickRow, TickEnd, Due, disk, memory
  <1>4. CASE Crash
    <2>1. /\ tell' \in [Command -> [Calls -> Stages]]
          /\ \A d \in Command, j \in Calls : tell'[d][j] = "none"
      BY <1>4 DEF Crash, Stages
    <2> QED BY <1>4, <2>1, ToldSame DEF Crash, disk, ToldInv
  <1>5. CASE UNCHANGED vars
    BY <1>5, ToldUntouched DEF vars, disk, memory
  <1> QED BY <1>1, <1>2, <1>3, <1>4, <1>5, CallKeepsTold, Steps

(* A command counts as notified only when its user has the message, however  *)
(* many notifications of it overlap (notifyCommandStatusChange).             *)
THEOREM ToldBeforeMarked == Spec => []NotifiedWasTold
  <1>1. Init => ToldInv
    BY DEF Init, ToldInv, Stages
  <1>2. ToldInv => NotifiedWasTold
    BY DEF ToldInv, NotifiedWasTold
  <1> QED BY <1>1, <1>2, ToldInvNext, PTL DEF Spec

-----------------------------------------------------------------------------
(* The pushes *)

LEMMA Ending == "running" \notin Kinds
  BY DEF Kinds

Keys == Command \union Device

\* What is being sent is in flight, under a key of its own, and not remembered.
PushInv ==
  /\ status \in [Command -> Kinds \union {"running"}]
  /\ push \in [Command -> Stages] /\ sentKeys \in [Kinds -> Seq(Keys)]
  /\ \A c \in Command : push[c] # "none" =>
       status[c] \in Kinds /\ Key(c) \in inFlight /\ ~Remembered(c)
  /\ \A c, d \in Command : push[c] # "none" /\ push[d] # "none" /\ c # d => Key(c) # Key(d)

\* Remember adds one key at most.
LEMMA Remembers ==
  ASSUME NEW q \in Seq(Keys), NEW k \in Keys
  PROVE  /\ Remember(q, k) \in Seq(Keys)
         /\ ToSet(Remember(q, k)) \subseteq ToSet(q) \union {k}
  <1> DEFINE longer == Append(q, k)
  <1>1. /\ longer \in Seq(Keys) /\ longer # <<>>
        /\ ToSet(longer) \subseteq ToSet(q) \union {k}
    BY DEF ToSet
  <1> HIDE DEF longer
  <1>2. Tail(longer) \in Seq(Keys) /\ ToSet(Tail(longer)) \subseteq ToSet(longer)
    BY <1>1 DEF ToSet
  <1> QED BY <1>1, <1>2 DEF Remember, longer

LEMMA PushUntouched ==
  ASSUME PushInv, UNCHANGED <<status, push, inFlight, sentKeys>> PROVE PushInv'
  BY DEF PushInv, Key, Remembered

LEMMA KeyOf == ASSUME PushInv, NEW c \in Command PROVE Key(c) \in Keys
  BY OutcomeConstants DEF PushInv, Key, Keys

LEMMA HookKeepsPush == ASSUME PushInv, NEW c \in Command, HookStep(c) PROVE PushInv'
  <1>1. UNCHANGED <<status, sentKeys>> /\ status[c] \in Kinds
    BY DEF HookStep, HookCompleted, HookFailed, disk, Kinds
  <1>2. StartPush(c) \/ UNCHANGED <<push, inFlight>>
    BY DEF HookStep, HookCompleted, HookFailed
  <1>3. CASE UNCHANGED <<push, inFlight>>
    BY <1>1, <1>3, PushUntouched
  <1>4. CASE /\ MayPush(c) /\ push' = [push EXCEPT ![c] = "sending"]
             /\ inFlight' = inFlight \union {Key(c)}
    <2>1. \A d \in Command : Key(d)' = Key(d) /\ (Remembered(d)' <=> Remembered(d))
      BY <1>1 DEF Key, Remembered
    <2>2. push' \in [Command -> Stages] /\ \A d \in Command \ {c} : push'[d] = push[d]
      BY <1>4 DEF PushInv, Stages
    <2>3. ~Remembered(c) /\ Key(c) \notin inFlight
      BY <1>4 DEF MayPush
    <2>4. \A d \in Command : push'[d] # "none" =>
            status'[d] \in Kinds /\ Key(d)' \in inFlight' /\ ~Remembered(d)'
      BY <1>1, <1>4, <2>1, <2>2, <2>3 DEF PushInv
    <2>5. \A d, e \in Command : push'[d] # "none" /\ push'[e] # "none" /\ d # e =>
            Key(d)' # Key(e)'
      BY <2>1, <2>2, <2>3 DEF PushInv
    <2> QED BY <1>1, <2>2, <2>4, <2>5 DEF PushInv
  <1> QED BY <1>2, <1>3, <1>4 DEF StartPush

LEMMA PushKeepsPush == ASSUME PushInv, NEW c \in Command, PushStep(c) PROVE PushInv'
  <1>1. UNCHANGED status
    BY DEF PushStep, PushArrives, PushReturns, PushFails, disk
  <1>2. \A d \in Command : Key(d)' = Key(d)
    BY <1>1 DEF Key
  <1>3. /\ push' \in [Command -> Stages]
        /\ \A d \in Command : push'[d] # "none" => push[d] # "none"
        /\ inFlight' = inFlight \/ (inFlight' = inFlight \ {Key(c)} /\ push'[c] = "none")
        /\ push[c] # "none"
    BY DEF PushStep, PushArrives, PushReturns, PushFails, PushInv, Stages
  <1>4. \A d \in Command : push'[d] # "none" => status'[d] \in Kinds /\ Key(d)' \in inFlight'
    BY <1>1, <1>2, <1>3 DEF PushInv
  <1>5. \A d, e \in Command : push'[d] # "none" /\ push'[e] # "none" /\ d # e =>
          Key(d)' # Key(e)'
    BY <1>2, <1>3 DEF PushInv
  <1>6. /\ sentKeys' \in [Kinds -> Seq(Keys)]
        /\ \A d \in Command : push'[d] # "none" => ~Remembered(d)'
    <2>1. CASE UNCHANGED sentKeys
      BY <1>1, <1>2, <1>3, <2>1 DEF PushInv, Remembered
    <2>2. CASE PushReturns(c)
      <3> DEFINE k == status[c]
      <3>1. k \in Kinds /\ sentKeys[k] \in Seq(Keys) /\ push'[c] = "none"
        BY <1>3, <2>2 DEF PushInv, PushReturns
      <3>2. sentKeys' = [sentKeys EXCEPT ![k] = Remember(sentKeys[k], Key(c))]
        BY <2>2 DEF PushReturns
      <3>3. /\ Remember(sentKeys[k], Key(c)) \in Seq(Keys)
            /\ ToSet(Remember(sentKeys[k], Key(c))) \subseteq ToSet(sentKeys[k]) \union {Key(c)}
        BY <3>1, KeyOf, Remembers
      <3> HIDE DEF k
      <3>4. sentKeys' \in [Kinds -> Seq(Keys)]
        BY <3>1, <3>2, <3>3 DEF PushInv
      <3>5. ASSUME NEW d \in Command, push'[d] # "none" PROVE ~Remembered(d)'
        <4>1. /\ d # c /\ Key(d) # Key(c) /\ status[d] \in Kinds
              /\ Key(d) \notin ToSet(sentKeys[status[d]])
          BY <1>3, <3>1, <3>5 DEF PushInv, Remembered
        <4>2. ToSet(sentKeys'[status[d]]) \subseteq ToSet(sentKeys[status[d]]) \union {Key(c)}
          BY <3>1, <3>2, <3>3, <4>1 DEF PushInv
        <4> QED BY <1>1, <1>2, <4>1, <4>2 DEF Remembered
      <3> QED BY <3>4, <3>5
    <2> QED BY <2>1, <2>2 DEF PushStep, PushArrives, PushFails
  <1> QED BY <1>1, <1>3, <1>4, <1>5, <1>6 DEF PushInv

LEMMA CallKeepsPush == ASSUME PushInv, NEW c \in Command, CallStep(c) PROVE PushInv'
  <1>1. ASSUME NEW s \in Kinds, Ends(c, s) PROVE PushInv'
    <2>1. /\ UNCHANGED <<push, inFlight, sentKeys>>
          /\ status' = [status EXCEPT ![c] = s] /\ status[c] = "running"
      BY <1>1 DEF Ends
    <2>2. status' \in [Command -> Kinds \union {"running"}] /\ push[c] = "none"
      BY <2>1, Ending DEF PushInv
    <2>3. \A d \in Command : push[d] # "none" => status'[d] = status[d]
      BY <2>1, <2>2 DEF PushInv
    <2> QED BY <2>1, <2>2, <2>3 DEF PushInv, Key, Remembered
  <1>2. CASE UNCHANGED <<status, push, inFlight, sentKeys>>
    BY <1>2, PushUntouched
  <1> QED BY <1>1, <1>2 DEF CallStep, LateEvent, MessageArrives, SendReturns, SendFails, disk

LEMMA PushInvNext == PushInv /\ [Next]_vars => PushInv'
  <1> SUFFICES ASSUME PushInv, [Next]_vars PROVE PushInv'
    OBVIOUS
  <1>1. CASE WindowStep
    BY <1>1, PushUntouched DEF WindowStep, TickStep, TickStart, TickRow, TickEnd, Due, disk, memory
  <1>2. CASE Crash
    BY <1>2 DEF Crash, disk, PushInv, Stages, Keys
  <1>3. CASE UNCHANGED vars
    BY <1>3, PushUntouched DEF vars, disk, memory
  <1> QED BY <1>1, <1>2, <1>3, CallKeepsPush, HookKeepsPush, PushKeepsPush, Steps

(* No second push of a key arrives while the process remembers the first,    *)
(* however close the completions and failures come (command-hooks.ts).       *)
THEOREM PushOnce == Spec => NoPushWhileRemembered
  <1>1. Init => PushInv
    BY Ending DEF Init, PushInv, Stages, Keys
  <1>2. PushInv /\ [Next]_vars => \A c \in Command : PushArrives(c) => ~Remembered(c)
    BY DEF PushInv, PushArrives
  <1> QED BY <1>1, <1>2, PushInvNext, PTL DEF Spec, NoPushWhileRemembered

-----------------------------------------------------------------------------
(* The windows *)

Windows == [cmd : Command, attempts : Nat, due : BOOLEAN]

Spent(r) == r.due /\ r.attempts + 1 >= MaxAttempts

\* During a tick a row of the file is still to be looked at, or is kept, or
\* need not be.
Settling(r) ==
  \/ r \in ToSet(tick.todo) \/ r.cmd \in Waiting(tick.keep)
  \/ outcome[r.cmd] = "window" \/ Spent(r)

WindowInv ==
  /\ rows \in Seq(Windows) /\ outcome \in [Command -> {"none", "after", "window"}]
  /\ tick \in [on : BOOLEAN, todo : Seq(Windows), keep : Seq(Windows)]
  /\ tick.on => \A i \in DOMAIN rows : Settling(rows[i])

LEMMA WindowUntouched ==
  ASSUME WindowInv, UNCHANGED <<rows, outcome, tick>> PROVE WindowInv'
  BY DEF WindowInv, Settling, Spent

\* What a tick does with a row.
LEMMA Cut ==
  ASSUME NEW q \in Seq(Windows), q # <<>>
  PROVE  /\ Head(q) \in Windows /\ Tail(q) \in Seq(Windows)
         /\ \A r \in ToSet(q) : r = Head(q) \/ r \in ToSet(Tail(q))
  <1>1. Head(q) \in Windows /\ Tail(q) \in Seq(Windows)
    OBVIOUS
  <1>2. ASSUME NEW i \in DOMAIN q PROVE q[i] = Head(q) \/ q[i] \in ToSet(Tail(q))
    <2>1. CASE i = 1
      BY <2>1
    <2>2. CASE i # 1
      <3>1. i - 1 \in DOMAIN Tail(q) /\ Tail(q)[i - 1] = q[i]
        BY <2>2
      <3> QED BY <3>1 DEF ToSet
    <2> QED BY <2>1, <2>2
  <1> QED BY <1>1, <1>2 DEF ToSet

LEMMA Joined ==
  ASSUME NEW q \in Seq(Windows), NEW p \in Seq(Windows)
  PROVE  /\ q \o p \in Seq(Windows) /\ Waiting(q) \subseteq Waiting(q \o p)
         /\ Waiting(p) \subseteq Waiting(q \o p)
  <1>1. /\ q \o p \in Seq(Windows)
        /\ \A i \in DOMAIN q : i \in DOMAIN (q \o p) /\ (q \o p)[i] = q[i]
    OBVIOUS
  <1>2. \A i \in DOMAIN p : Len(q) + i \in DOMAIN (q \o p) /\ (q \o p)[Len(q) + i] = p[i]
    OBVIOUS
  <1> QED BY <1>1, <1>2 DEF Waiting

LEMMA OneRow ==
  ASSUME NEW r \in Windows
  PROVE  <<r>> \in Seq(Windows) /\ r.cmd \in Waiting(<<r>>)
  BY DEF Waiting

\* A row that is due and not evaluated is kept unless its attempts are spent.
LEMMA Retries ==
  ASSUME NEW r \in Windows, r.due
  PROVE  /\ ScheduleRetry(r) \in Seq(Windows)
         /\ r.cmd \in Waiting(ScheduleRetry(r)) \/ Spent(r)
  <1>1. CASE r.attempts + 1 >= MaxAttempts
    <2>1. ScheduleRetry(r) = <<>>
      BY <1>1 DEF ScheduleRetry
    <2>2. Spent(r)
      BY <1>1 DEF Spent
    <2> QED BY <2>1, <2>2
  <1>2. CASE ~(r.attempts + 1 >= MaxAttempts)
    <2> DEFINE next == Row(r.cmd, r.attempts + 1, FALSE)
    <2>1. next \in Windows /\ next.cmd = r.cmd
      BY DEF Row, Windows
    <2>2. ScheduleRetry(r) = <<next>>
      BY <1>2 DEF ScheduleRetry
    <2> HIDE DEF next
    <2> QED BY <2>1, <2>2, OneRow
  <1> QED BY <1>1, <1>2

LEMMA TickRowKeeps == ASSUME WindowInv, TickRow PROVE WindowInv'
  <1> DEFINE r == Head(tick.todo)
  <1>1. /\ tick.on /\ tick.todo \in Seq(Windows) /\ tick.todo # <<>>
        /\ tick.keep \in Seq(Windows) /\ rows \in Seq(Windows) /\ rows' = rows
        /\ outcome \in [Command -> {"none", "after", "window"}]
    BY DEF WindowInv, TickRow
  <1>2. /\ r \in Windows /\ Tail(tick.todo) \in Seq(Windows) /\ r.cmd \in Command
        /\ \A x \in ToSet(tick.todo) : x = r \/ x \in ToSet(Tail(tick.todo))
    BY <1>1, Cut DEF Windows
  <1>3. PICK kept \in {<<r>>, <<>>, ScheduleRetry(r)} :
          /\ tick' = [on |-> TRUE, todo |-> Tail(tick.todo), keep |-> tick.keep \o kept]
          /\ \/ ~r.due /\ kept = <<r>> /\ outcome' = outcome
             \/ r.due /\ kept = <<>> /\ outcome' = [outcome EXCEPT ![r.cmd] = "window"]
             \/ r.due /\ kept = ScheduleRetry(r) /\ outcome' = outcome
    BY DEF TickRow
  <1> HIDE DEF r
  <1>4. kept \in Seq(Windows) /\ (r.cmd \in Waiting(kept) \/ outcome'[r.cmd] = "window" \/ Spent(r))
    <2>1. CASE ~r.due /\ kept = <<r>>
      BY <1>2, <2>1, OneRow
    <2>2. CASE r.due /\ kept = <<>> /\ outcome' = [outcome EXCEPT ![r.cmd] = "window"]
      BY <1>1, <1>2, <2>2
    <2>3. CASE r.due /\ kept = ScheduleRetry(r)
      BY <1>2, <2>3, Retries
    <2> QED BY <1>3, <2>1, <2>2, <2>3
  <1>5. /\ outcome' \in [Command -> {"none", "after", "window"}]
        /\ \A c \in Command : outcome[c] = "window" => outcome'[c] = "window"
    BY <1>1, <1>2, <1>3
  <1>6. /\ tick.keep \o kept \in Seq(Windows)
        /\ Waiting(tick.keep) \subseteq Waiting(tick.keep \o kept)
        /\ Waiting(kept) \subseteq Waiting(tick.keep \o kept)
    BY <1>1, <1>4, Joined
  <1>7. /\ tick'.on = TRUE /\ tick'.todo = Tail(tick.todo) /\ tick'.keep = tick.keep \o kept
        /\ tick' \in [on : BOOLEAN, todo : Seq(Windows), keep : Seq(Windows)]
    BY <1>2, <1>3, <1>6
  <1>8. ASSUME NEW i \in DOMAIN rows PROVE Settling(rows[i])'
    <2>1. Settling(rows[i])
      BY <1>1, <1>8 DEF WindowInv
    <2>2. rows[i] \in Windows /\ rows[i].cmd \in Command
      <3>1. rows[i] \in Windows
        BY <1>1, <1>8
      <3> QED BY <3>1 DEF Windows
    <2>3. CASE rows[i] = r
      BY <1>1, <1>4, <1>6, <1>7, <2>3 DEF Settling, Spent
    <2>4. CASE rows[i] # r
      BY <1>1, <1>2, <1>5, <1>6, <1>7, <2>1, <2>2, <2>4 DEF Settling, Spent
    <2> QED BY <2>3, <2>4
  <1> QED BY <1>1, <1>5, <1>7, <1>8 DEF WindowInv

LEMMA TickKeeps == ASSUME WindowInv, TickStart \/ TickEnd PROVE WindowInv'
  <1>1. CASE TickStart
    <2>1. /\ tick' \in [on : BOOLEAN, todo : Seq(Windows), keep : Seq(Windows)]
          /\ tick'.todo = rows
      BY <1>1 DEF TickStart, WindowInv
    <2> QED BY <1>1, <2>1 DEF TickStart, WindowInv, disk, Settling, ToSet
  <1>2. CASE TickEnd
    BY <1>2 DEF TickEnd, NoTick, WindowInv
  <1> QED BY <1>1, <1>2

\* A hook adds a row and a clock makes one due, and neither during a tick.
LEMMA HookKeepsWindows ==
  ASSUME WindowInv, NEW c \in Command, HookCompleted(c)
  PROVE  WindowInv' /\ \A i \in DOMAIN rows : i \in DOMAIN rows' /\ rows'[i] = rows[i]
  <1>1. ~tick.on /\ tick' = tick /\ rows \in Seq(Windows)
    BY DEF HookCompleted, Turn, WindowInv
  <1>2. outcome' \in [Command -> {"none", "after", "window"}]
    BY DEF HookCompleted, WindowInv
  <1>3. Row(c, 0, FALSE) \in Windows
    BY DEF Row, Windows
  <1>4. rows' = rows \/ rows' = Append(rows, Row(c, 0, FALSE))
    BY DEF HookCompleted
  <1>5. rows' \in Seq(Windows) /\ \A i \in DOMAIN rows : i \in DOMAIN rows' /\ rows'[i] = rows[i]
    <2> DEFINE row == Row(c, 0, FALSE)
    <2>1. row \in Windows /\ (rows' = rows \/ rows' = Append(rows, row))
      BY <1>3, <1>4
    <2> HIDE DEF row
    <2> QED BY <1>1, <2>1
  <1> QED BY <1>1, <1>2, <1>5 DEF WindowInv

LEMMA DueKeepsWindows ==
  ASSUME WindowInv, NEW n \in 1..Len(rows), Due(n)
  PROVE  WindowInv' /\ \A i \in DOMAIN rows : i \in DOMAIN rows' /\ rows'[i].cmd = rows[i].cmd
  <1> DEFINE row == Row(rows[n].cmd, rows[n].attempts, TRUE)
  <1>1. rows \in Seq(Windows) /\ n \in DOMAIN rows /\ rows[n] \in Windows
    BY DEF WindowInv
  <1>2. row \in Windows /\ row.cmd = rows[n].cmd
    BY <1>1 DEF Row, Windows
  <1>3. ~tick.on /\ tick' = tick /\ outcome' = outcome /\ rows' = [rows EXCEPT ![n] = row]
    BY DEF Due, Turn, memory
  <1> HIDE DEF row
  <1>4. rows' \in Seq(Windows)
    BY <1>1, <1>2, <1>3
  <1>5. \A i \in DOMAIN rows : i \in DOMAIN rows' /\ rows'[i].cmd = rows[i].cmd
    BY <1>1, <1>2, <1>3
  <1> QED BY <1>3, <1>4, <1>5 DEF WindowInv

LEMMA OthersKeepWindows ==
  ASSUME NEW c \in Command, CallStep(c) \/ HookFailed(c) \/ PushStep(c)
  PROVE  UNCHANGED <<rows, outcome, tick>>
  BY DEF CallStep, Ends, LateEvent, MessageArrives, SendReturns, SendFails, HookFailed,
         PushStep, PushArrives, PushReturns, PushFails, disk

LEMMA WindowInvNext == WindowInv /\ [Next]_vars => WindowInv'
  <1> SUFFICES ASSUME WindowInv, [Next]_vars PROVE WindowInv'
    OBVIOUS
  <1>1. CASE Crash
    BY <1>1 DEF Crash, disk, NoTick, WindowInv
  <1>2. CASE UNCHANGED vars
    BY <1>2, WindowUntouched DEF vars, disk, memory
  <1>3. ASSUME NEW c \in Command, CallStep(c) \/ HookStep(c) \/ PushStep(c) PROVE WindowInv'
    BY <1>3, OthersKeepWindows, HookKeepsWindows, WindowUntouched DEF HookStep
  <1>4. CASE WindowStep
    BY <1>4, TickRowKeeps, TickKeeps, DueKeepsWindows DEF WindowStep, TickStep
  <1> QED BY <1>1, <1>2, <1>3, <1>4, Steps

(* A window leaves the file only when it was evaluated or its attempts are   *)
(* spent, for files of any length (tickOutcomeScheduler, scheduleRetry).     *)
THEOREM WindowsStay == Spec => WindowKept
  <1>1. Init => WindowInv
    BY DEF Init, WindowInv, NoTick
  <1>2. WindowInv /\ [Next]_vars =>
          \A i \in DOMAIN rows : rows[i].cmd \notin Waiting(rows') =>
            \/ outcome[rows[i].cmd] = "window"
            \/ rows[i].due /\ rows[i].attempts + 1 >= MaxAttempts
    <2> SUFFICES ASSUME WindowInv, [Next]_vars, NEW i \in DOMAIN rows,
                        rows[i].cmd \notin Waiting(rows')
                 PROVE  outcome[rows[i].cmd] = "window" \/ Spent(rows[i])
      BY DEF Spent
    <2>1. CASE \E j \in DOMAIN rows' : rows'[j].cmd = rows[i].cmd
      BY <2>1 DEF Waiting
    <2>2. CASE TickEnd
      BY <2>2 DEF TickEnd, WindowInv, Settling, ToSet
    <2>3. CASE rows' = rows
      BY <2>1, <2>3
    <2>4. ASSUME NEW c \in Command, HookCompleted(c) PROVE FALSE
      BY <2>4, HookKeepsWindows DEF Waiting
    <2>5. ASSUME NEW n \in 1..Len(rows), Due(n) PROVE FALSE
      BY <2>5, DueKeepsWindows DEF Waiting
    <2>6. rows' = rows \/ TickEnd \/ (\E c \in Command : HookCompleted(c))
            \/ (\E n \in 1..Len(rows) : Due(n))
      <3>1. CASE Crash \/ UNCHANGED vars
        BY <3>1 DEF Crash, vars, disk
      <3>2. CASE TickStart \/ TickRow
        BY <3>2 DEF TickStart, TickRow, disk
      <3> QED BY <3>1, <3>2, OthersKeepWindows, Steps DEF HookStep, WindowStep, TickStep
    <2> QED BY <2>2, <2>3, <2>4, <2>5, <2>6
  <1> QED BY <1>1, <1>2, WindowInvNext, PTL DEF Spec, WindowKept

=============================================================================
