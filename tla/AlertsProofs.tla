---------------------------- MODULE AlertsProofs ----------------------------
(***************************************************************************)
(* No message is repeated within its cooldown, and no alarm within its     *)
(* episode, but for faults, and each fault accounts for one.               *)
(***************************************************************************)
EXTENDS Alerts, FiniteSetTheorems, TLAPS

Outage(k) == <<"offline", k[2]>>

\* A reservation of e's key is e's own.
Holds(e) == run[e].at \in {"episode", "send", "confirm", "release", "releaseEpisode"}

\* What an evaluation is at goes with its key, and only the poll has keys
\* other than those of threshold messages.
RunOK(e) ==
  /\ At(e, "idle") => run[e].age = 0
  /\ e # Poll /\ ~At(e, "idle") => ~sustained /\ run[e].todo \subseteq Rules
  /\ run[e].at \in {"idle", "loop"} <=> run[e].key = NoKey
  /\ e # Poll /\ run[e].key # NoKey => run[e].key[1] = "threshold"
  /\ run[e].at \in {"l1", "episode", "markL1", "releaseEpisode", "l2"} => run[e].key[1] = "l1"
  /\ At(e, "clear") => run[e].key[1] = "recovery"
  /\ At(e, "markL2") => run[e].key[1] = "l2"
  /\ run[e].key[1] \in {"l1", "l2"} => episode[run[e].key[2]] # NoRow
  /\ run[e].key[1] = "l1" /\ run[e].at \in {"l1", "episode", "send"} =>
       ~episode[run[e].key[2]].l1

RunInv == \A e \in Evaluations : RunOK(e)

\* What an evaluation that has reserved a key may rely on.
Kept(e) ==
  LET k == run[e].key IN
  /\ reserved[k] # Never /\ reserved[k] <= run[e].age
  /\ run[e].at \in {"episode", "send"} => CoolAgain(fired[k], Now(e, k))
  /\ At(e, "send") /\ k[1] = "recovery" => fired[Outage(k)] # Never
  /\ At(e, "confirm") => told[k] >= Now(e, k)

HeldInv ==
  /\ \A e \in Evaluations : run[e].age < TTL /\ (Holds(e) => Kept(e))
  /\ \A e \in Evaluations : run[e].at \in {"confirm", "clear"} /\ run[e].key[1] = "recovery" =>
       told[Outage(run[e].key)] = Never
  /\ \A e, f \in Evaluations : Holds(e) /\ Holds(f) /\ run[e].key = run[f].key => e = f

\* A message that was sent and is not on record, and no evaluation is about to
\* put it there; the record of an outage whose end was told, and no
\* evaluation is about to remove it.
Unrecorded(k) ==
  /\ told[k] # Never /\ (fired[k] = Never \/ fired[k] > told[k])
  /\ \A e \in Evaluations : ~(At(e, "confirm") /\ run[e].key = k)

Uncleared(k) ==
  /\ k[1] = "recovery" /\ told[Outage(k)] = Never /\ fired[Outage(k)] # Never
  /\ \A e \in Evaluations : ~(run[e].at \in {"confirm", "clear"} /\ run[e].key = k)

\* Of the faults one is not yet paid for with a repeat.
DebtInv ==
  \A k \in Keys : /\ repeats[k] <= faults
                  /\ Unrecorded(k) \/ Uncleared(k) => repeats[k] < faults

RepeatInv == ~late => HeldInv /\ DebtInv

AlarmDue(r) ==
  /\ ~episode[r].l1
  /\ ~(run[Poll].at \in {"confirm", "markL1"} /\ run[Poll].key = <<"l1", r>>)

AlarmInv ==
  \A r \in Rules : /\ alarms[r] <= 1 + faults
                   /\ AlarmDue(r) => alarms[r] <= faults

-----------------------------------------------------------------------------
(* The data *)

LEMMA KeyFacts ==
  /\ \A k \in Keys : /\ k = <<k[1], k[2]>>
                     /\ \/ k[1] \in {"threshold", "l1", "l2"} /\ k[2] \in Rules
                        \/ k[1] \in {"offline", "recovery"} /\ k[2] \in Nodes
  /\ \A r \in Rules, w \in {"threshold", "l1", "l2"} : <<w, r>> \in Keys
  /\ \A n \in Nodes, w \in {"offline", "recovery"} : <<w, n>> \in Keys
  /\ NoKey \notin Keys /\ NoKey[1] = "none"
  BY DEF Keys, NoKey

\* What Goes leaves behind: one evaluation at another place.
LEMMA Gone ==
  ASSUME TypeOK, NEW e \in Evaluations, NEW where, NEW todo, NEW key,
         Goes(e, where, todo, key), run' \in [Evaluations -> Runs]
  PROVE  /\ run'[e].at = where /\ run'[e].todo = todo /\ run'[e].key = key
         /\ run'[e].age = run[e].age
         /\ \A f \in Evaluations : f # e => run'[f] = run[f]
  BY DEF Goes, TypeOK, Runs

LEMMA GoneType ==
  ASSUME TypeOK, NEW e \in Evaluations,
         NEW where \in Stages,
         NEW todo \in SUBSET (Rules \union Nodes), NEW key \in Keys \union {NoKey},
         Goes(e, where, todo, key)
  PROVE  run' \in [Evaluations -> Runs]
  BY DEF Goes, TypeOK, Runs

LEMMA RunFacts ==
  ASSUME TypeOK, NEW e \in Evaluations
  PROVE  /\ run[e] \in Runs
         /\ run[e].at \in Stages
         /\ run[e].todo \subseteq Rules \union Nodes
         /\ run[e].key \in Keys \union {NoKey}
         /\ run[e].age \in 0..MaxRun
  BY DEF TypeOK, Runs

-----------------------------------------------------------------------------
(* Types *)

LEMMA Attempts ==
  ASSUME TypeOK, NEW e \in Evaluations, NEW s \in Rules \union Nodes, NEW k \in Keys,
         NEW next \in Stages, Attempt(e, s, k, next)
  PROVE  /\ run' \in [Evaluations -> Runs]
         /\ reserved' \in [Keys -> Never..Expiry]
  <1>1. CASE MayReserve(k, Now(e, k))
    <2>1. Goes(e, next, run[e].todo, k) /\ Reserve(k, Now(e, k))
      BY <1>1 DEF Attempt
    <2>2. run' \in [Evaluations -> Runs]
      BY <2>1, GoneType, RunFacts
    <2>3. Now(e, k) \in 0..Expiry
      BY AlertConstants, RunFacts DEF Now, Expiry
    <2>4. reserved' \in [Keys -> Never..Expiry]
      BY <2>1, <2>3, AlertConstants DEF Reserve, TypeOK, Never, Expiry
    <2>5. QED
      BY <2>2, <2>4
  <1>2. CASE ~MayReserve(k, Now(e, k))
    <2>1. Goes(e, "loop", run[e].todo \ {s}, NoKey) /\ UNCHANGED reserved
      BY <1>2 DEF Attempt, PassOver
    <2>2. run' \in [Evaluations -> Runs]
      BY <2>1, GoneType, RunFacts DEF Stages
    <2>3. QED
      BY <2>1, <2>2 DEF TypeOK
  <1>3. QED
    BY <1>1, <1>2

LEMMA Moved ==
  ASSUME TypeOK, NEW e \in Evaluations, NEW where \in Stages, Moves(e, where)
  PROVE  run' \in [Evaluations -> Runs]
  BY GoneType, RunFacts DEF Moves

LEMMA Passed ==
  ASSUME TypeOK, NEW e \in Evaluations, NEW s, PassOver(e, s)
  PROVE  run' \in [Evaluations -> Runs]
  <1>1. run[e].todo \ {s} \in SUBSET (Rules \union Nodes)
    BY RunFacts
  <1>2. QED
    BY <1>1, GoneType DEF PassOver, Stages

\* The evaluation works on a key.
Keyed(e) == run[e].at \notin {"idle", "loop"}

LEMMA KeyedFacts ==
  ASSUME TypeOK, RunInv, NEW e \in Evaluations, Keyed(e)
  PROVE  /\ run[e].key \in Keys
         /\ run[e].key = <<run[e].key[1], run[e].key[2]>>
         /\ \/ run[e].key[1] \in {"threshold", "l1", "l2"} /\ run[e].key[2] \in Rules
            \/ run[e].key[1] \in {"offline", "recovery"} /\ run[e].key[2] \in Nodes
  <1>1. run[e].key \in Keys
    BY RunFacts DEF RunInv, RunOK, Keyed
  <1>2. QED
    BY <1>1, KeyFacts

LEMMA Aged ==
  ASSUME NEW limit \in Nat, NEW age \in Never..limit
  PROVE  Older(age, limit) \in Never..limit
  BY DEF Older, Never

LEMMA LimitFacts ==
  /\ Expiry \in Nat /\ Long \in Nat /\ MaxRun <= Long /\ MaxRun <= Expiry
  /\ Never \in Never..Expiry /\ Never \in Never..Long
  /\ \A n \in 0..MaxRun : n \in Never..Expiry /\ n \in Never..Long
  BY AlertConstants DEF Expiry, Long, Never

\* The row an evaluation may write.
LEMMA RowFacts ==
  ASSUME TypeOK, NEW r \in Rules, episode[r] # NoRow
  PROVE  /\ episode[r].streak \in 1..MinStreak /\ episode[r].l1 \in BOOLEAN
         /\ episode[r].l2 \in BOOLEAN /\ episode[r].hold \in Never..Expiry
         /\ episode[r] \in Rows
  BY DEF TypeOK, Rows

\* The steps that write one field of it.
LEMMA RowWritten ==
  ASSUME TypeOK, NEW r \in Rules, episode[r] # NoRow,
         NEW l1 \in BOOLEAN, NEW l2 \in BOOLEAN, NEW hold \in Never..Expiry,
         \/ episode' = [episode EXCEPT ![r].hold = hold]
         \/ episode' = [episode EXCEPT ![r].l2 = l2]
         \/ episode' = [episode EXCEPT ![r].l1 = l1, ![r].hold = hold]
  PROVE  episode' \in [Rules -> Rows \union {NoRow}]
  <1>1. /\ [episode[r] EXCEPT !.hold = hold] \in Rows
        /\ [episode[r] EXCEPT !.l2 = l2] \in Rows
        /\ [[episode[r] EXCEPT !.l1 = l1] EXCEPT !.hold = hold] \in Rows
    BY RowFacts DEF Rows
  <1>2. QED
    BY <1>1 DEF TypeOK

LEMMA TypeInit == Init => TypeOK
  <1> SUFFICES ASSUME Init PROVE TypeOK
    OBVIOUS
  <1>1. Idle \in Runs
    BY AlertConstants DEF Idle, Runs, Stages
  <1>2. run \in [Evaluations -> Runs]
    BY <1>1 DEF Init
  <1>3. /\ sustained \in BOOLEAN /\ watch \in Watches /\ breach \in [Rules -> BOOLEAN]
        /\ node \in [Nodes -> {"unheard", "online", "offline"}] /\ late \in BOOLEAN
    BY DEF Init
  <1>4. /\ fired \in [Keys -> Never..Long] /\ reserved \in [Keys -> Never..Expiry]
        /\ told \in [Keys -> Never..Long]
    BY LimitFacts DEF Init
  <1>5. /\ repeats \in [Keys -> Nat] /\ alarms \in [Rules -> Nat]
        /\ faults \in 0..MaxFaults
    BY AlertConstants DEF Init
  <1>6. episode \in [Rules -> Rows \union {NoRow}]
    BY DEF Init
  <1>7. QED
    BY <1>2, <1>3, <1>4, <1>5, <1>6 DEF TypeOK

LEMMA ArrivalType ==
  ASSUME TypeOK, NEW e \in Evaluations, Arrives(e)
  PROVE  /\ told' \in [Keys -> Never..Long] /\ late' = late
         /\ repeats' \in [Keys -> Nat] /\ alarms' \in [Rules -> Nat]
  <1>1. Now(e, run[e].key) \in 0..MaxRun
    BY RunFacts, AlertConstants DEF Now
  <1>2. told' \in [Keys -> Never..Long]
    BY <1>1, LimitFacts DEF Arrives, TypeOK
  <1>3. \A k \in Keys : repeats[k] \in Nat /\ repeats[k] + 1 \in Nat
    BY DEF TypeOK
  <1>4. \A r \in Rules : alarms[r] + 1 \in Nat /\ alarms[r] + 0 \in Nat
    BY DEF TypeOK
  <1>5. repeats' \in [Keys -> Nat]
    BY <1>3 DEF Arrives, TypeOK
  <1>6. alarms' \in [Rules -> Nat]
    BY <1>4 DEF Arrives, TypeOK
  <1>7. QED
    BY <1>2, <1>5, <1>6 DEF Arrives

LEMMA TypeNext == TypeOK /\ RunInv /\ [Next]_vars => TypeOK'
  <1> SUFFICES ASSUME TypeOK, RunInv, [Next]_vars PROVE TypeOK'
    OBVIOUS
  <1> USE AlertConstants
  <1>1. ASSUME NEW e \in Evaluations, Begin(e) PROVE TypeOK'
    <2>1. (IF e = Poll THEN watch ELSE watch \intersect Rules) \in SUBSET (Rules \union Nodes)
      BY DEF TypeOK
    <2>2. run' \in [Evaluations -> Runs]
      BY <1>1, <2>1, GoneType DEF Begin, Stages
    <2>3. QED
      BY <1>1, <2>2 DEF Begin, TypeOK, world, config, file, ghosts
  <1>2. ASSUME NEW e \in Evaluations, End(e) PROVE TypeOK'
    <2>1. Idle \in Runs
      BY DEF Idle, Runs, Stages
    <2>2. run' \in [Evaluations -> Runs]
      BY <1>2, <2>1 DEF End, TypeOK
    <2>3. QED
      BY <1>2, <2>2 DEF End, TypeOK, world, config, file, ghosts
  <1>3. ASSUME NEW e \in Evaluations, NEW r \in Rules, EvaluateRule(e, r) PROVE TypeOK'
    <2>1. run' \in [Evaluations -> Runs] /\ reserved' \in [Keys -> Never..Expiry]
      <3>1. CASE Attempt(e, r, <<"threshold", r>>, "send")
        BY <3>1, Attempts, KeyFacts DEF Stages
      <3>2. CASE PassOver(e, r) /\ UNCHANGED reserved
        BY <3>2, Passed DEF TypeOK
      <3>3. QED
        BY <1>3, <3>1, <3>2 DEF EvaluateRule
    <2>2. QED
      BY <1>3, <2>1 DEF EvaluateRule, TypeOK, world, config, ghosts
  <1>4. ASSUME NEW e \in Evaluations, NEW n \in Nodes, EvaluateNode(e, n) PROVE TypeOK'
    <2>1. run' \in [Evaluations -> Runs] /\ reserved' \in [Keys -> Never..Expiry]
      <3>1. CASE Attempt(e, n, <<"offline", n>>, "send")
        BY <3>1, Attempts, KeyFacts DEF Stages
      <3>2. CASE Attempt(e, n, <<"recovery", n>>, "send")
        BY <3>2, Attempts, KeyFacts DEF Stages
      <3>3. CASE PassOver(e, n) /\ UNCHANGED reserved
        BY <3>3, Passed DEF TypeOK
      <3>4. QED
        BY <1>4, <3>1, <3>2, <3>3 DEF EvaluateNode
    <2>2. QED
      BY <1>4, <2>1 DEF EvaluateNode, TypeOK, world, config, ghosts
  <1>5. ASSUME NEW e \in Evaluations, NEW r \in Rules, TickEpisode(e, r) PROVE TypeOK'
    <2> DEFINE old == episode[r]
               new == [streak |-> IF old.streak = MinStreak THEN MinStreak ELSE old.streak + 1,
                       l1 |-> old.l1, l2 |-> old.l2,
                       hold |-> IF Expired(old.hold, run[e].age) THEN Never ELSE old.hold]
    <2>1. new \in Rows
      <3>1. old \in Rows \/ old = NoRow
        BY DEF TypeOK
      <3>2. /\ old.streak \in 0..MinStreak /\ old.l1 \in BOOLEAN /\ old.l2 \in BOOLEAN
            /\ old.hold \in Never..Expiry
        <4> HIDE DEF old
        <4>1. CASE old \in Rows
          BY <4>1 DEF Rows
        <4>2. CASE old = NoRow
          BY <4>2, LimitFacts DEF NoRow, Never
        <4>3. QED
          BY <3>1, <4>1, <4>2
      <3> HIDE DEF old
      <3>3. (IF Expired(old.hold, run[e].age) THEN Never ELSE old.hold) \in Never..Expiry
        BY <3>2, LimitFacts DEF Never
      <3>4. QED
        BY <3>2, <3>3 DEF Rows
    <2> HIDE DEF new, old
    <2>2. /\ run' \in [Evaluations -> Runs]
          /\ episode' \in [Rules -> Rows \union {NoRow}]
      <3>1. CASE PassOver(e, r) /\ UNCHANGED episode
        BY <3>1, Passed DEF TypeOK
      <3>2. CASE PassOver(e, r) /\ episode' = [episode EXCEPT ![r] = NoRow]
        BY <3>2, Passed DEF TypeOK
      <3>3. CASE PassOver(e, r) /\ episode' = [episode EXCEPT ![r] = new]
        BY <3>3, <2>1, Passed DEF TypeOK
      <3>4. CASE /\ episode' = [episode EXCEPT ![r] = new]
                 /\ Goes(e, IF ~new.l1 /\ new.hold = Never THEN "l1" ELSE "l2",
                         run[e].todo, <<"l1", r>>)
        <4>1. run' \in [Evaluations -> Runs]
          BY <3>4, GoneType, RunFacts, KeyFacts DEF Stages
        <4>2. QED
          BY <3>4, <4>1, <2>1 DEF TypeOK
      <3>5. QED
        BY <1>5, <3>1, <3>2, <3>3, <3>4 DEF TickEpisode, new, old
    <2>3. alarms' \in [Rules -> Nat]
      BY <1>5 DEF TickEpisode, TypeOK
    <2>4. QED
      BY <1>5, <2>2, <2>3 DEF TickEpisode, TypeOK, world, config, file
  <1>6. ASSUME NEW e \in Evaluations, ReserveL1(e) PROVE TypeOK'
    <2>1. run[e].key \in Keys /\ run[e].key[2] \in Rules \union Nodes
      BY <1>6, KeyedFacts DEF ReserveL1, At, Keyed
    <2>2. run' \in [Evaluations -> Runs] /\ reserved' \in [Keys -> Never..Expiry]
      BY <1>6, <2>1, Attempts DEF ReserveL1, Stages
    <2>3. QED
      BY <1>6, <2>2 DEF ReserveL1, TypeOK, world, config, ghosts
  <1>7. ASSUME NEW e \in Evaluations, ReserveEpisode(e) PROVE TypeOK'
    <2>1. run[e].key[2] \in Rules /\ episode[run[e].key[2]] # NoRow
      BY <1>7, KeyedFacts DEF ReserveEpisode, At, Keyed, RunInv, RunOK
    <2>2. run[e].age \in Never..Expiry
      BY RunFacts, LimitFacts DEF Never
    <2>3. episode' \in [Rules -> Rows \union {NoRow}]
      BY <1>7, <2>1, <2>2, RowWritten DEF ReserveEpisode
    <2>4. run' \in [Evaluations -> Runs]
      BY <1>7, Moved DEF ReserveEpisode, Stages
    <2>5. QED
      BY <1>7, <2>3, <2>4 DEF ReserveEpisode, TypeOK, world, config, ghosts, file
  <1>8. ASSUME NEW e \in Evaluations, MarkL1(e) PROVE TypeOK'
    <2>1. run[e].key[2] \in Rules /\ episode[run[e].key[2]] # NoRow
      BY <1>8, KeyedFacts DEF MarkL1, At, Keyed, RunInv, RunOK
    <2>2. Never \in Never..Expiry
      BY LimitFacts DEF Never
    <2>3. episode' \in [Rules -> Rows \union {NoRow}]
      BY <1>8, <2>1, <2>2, RowWritten DEF MarkL1
    <2>4. run' \in [Evaluations -> Runs]
      BY <1>8, Moved DEF MarkL1, Stages
    <2>5. QED
      BY <1>8, <2>3, <2>4 DEF MarkL1, TypeOK, world, config, ghosts, file
  <1>9. ASSUME NEW e \in Evaluations, ReleaseEpisode(e) PROVE TypeOK'
    <2>1. run[e].key[2] \in Rules /\ episode[run[e].key[2]] # NoRow
      BY <1>9, KeyedFacts DEF ReleaseEpisode, At, Keyed, RunInv, RunOK
    <2>2. Never \in Never..Expiry
      BY LimitFacts DEF Never
    <2>3. episode' \in [Rules -> Rows \union {NoRow}]
      BY <1>9, <2>1, <2>2, RowWritten DEF ReleaseEpisode
    <2>4. run' \in [Evaluations -> Runs]
      BY <1>9, Moved DEF ReleaseEpisode, Stages
    <2>5. QED
      BY <1>9, <2>3, <2>4 DEF ReleaseEpisode, TypeOK, world, config, ghosts, file
  <1>10. ASSUME NEW e \in Evaluations, ReserveL2(e) PROVE TypeOK'
    <2>1. run[e].key[2] \in Rules
      BY <1>10, KeyedFacts DEF ReserveL2, At, Keyed, RunInv, RunOK
    <2>2. run' \in [Evaluations -> Runs] /\ reserved' \in [Keys -> Never..Expiry]
      <3>1. CASE Attempt(e, run[e].key[2], <<"l2", run[e].key[2]>>, "send")
        BY <2>1, <3>1, Attempts, KeyFacts DEF Stages
      <3>2. CASE PassOver(e, run[e].key[2]) /\ UNCHANGED reserved
        BY <3>2, Passed DEF TypeOK
      <3>3. QED
        BY <1>10, <3>1, <3>2 DEF ReserveL2
    <2>3. QED
      BY <1>10, <2>2 DEF ReserveL2, TypeOK, world, config, ghosts
  <1>11. ASSUME NEW e \in Evaluations, MarkL2(e) PROVE TypeOK'
    <2>1. run[e].key[2] \in Rules /\ episode[run[e].key[2]] # NoRow
      BY <1>11, KeyedFacts DEF MarkL2, At, Keyed, RunInv, RunOK
    <2>2. episode' \in [Rules -> Rows \union {NoRow}]
      BY <1>11, <2>1, RowWritten, LimitFacts DEF MarkL2
    <2>3. run' \in [Evaluations -> Runs]
      BY <1>11, Passed DEF MarkL2, Done
    <2>4. QED
      BY <1>11, <2>2, <2>3 DEF MarkL2, TypeOK, world, config, ghosts, file
  <1>12. ASSUME NEW e \in Evaluations, AfterConfirm(e) PROVE run' \in [Evaluations -> Runs]
    BY <1>12, Moved, Passed DEF AfterConfirm, Done, Stages
  <1>13. ASSUME NEW e \in Evaluations, Confirm(e) PROVE TypeOK'
    <2>1. Now(e, run[e].key) \in 0..MaxRun
      BY RunFacts DEF Now
    <2>2. /\ fired' \in [Keys -> Never..Long]
          /\ reserved' \in [Keys -> Never..Expiry]
      BY <1>13, <2>1, LimitFacts DEF Confirm, ConfirmFired, TypeOK
    <2>3. QED
      BY <1>12, <1>13, <2>2 DEF Confirm, TypeOK, world, config, ghosts
  <1>14. ASSUME NEW e \in Evaluations, Release(e) PROVE TypeOK'
    <2>1. run' \in [Evaluations -> Runs]
      BY <1>14, Moved, Passed DEF Release, Done, Stages
    <2>2. reserved' \in [Keys -> Never..Expiry]
      BY <1>14, LimitFacts DEF Release, ReleaseReservation, TypeOK
    <2>3. QED
      BY <1>14, <2>1, <2>2 DEF Release, TypeOK, world, config, ghosts
  <1>15. ASSUME NEW e \in Evaluations, ClearOffline(e) PROVE TypeOK'
    <2>1. run' \in [Evaluations -> Runs]
      BY <1>15, Passed DEF ClearOffline, Done
    <2>2. /\ fired' \in [Keys -> Never..Long]
          /\ reserved' \in [Keys -> Never..Expiry]
      BY <1>15, LimitFacts DEF ClearOffline, ClearCooldown, TypeOK
    <2>3. QED
      BY <1>15, <2>1, <2>2 DEF ClearOffline, TypeOK, world, config, ghosts
  <1>16. ASSUME NEW e \in Evaluations, SendSucceeds(e) PROVE TypeOK'
    <2>1. run' \in [Evaluations -> Runs]
      BY <1>16, Moved DEF SendSucceeds, Stages
    <2>2. QED
      BY <1>16, <2>1, ArrivalType DEF SendSucceeds, TypeOK, world, config, file
  <1>17. ASSUME NEW e \in Evaluations, SendFails(e) PROVE TypeOK'
    <2>1. run' \in [Evaluations -> Runs]
      BY <1>17, Moved DEF SendFails, Stages
    <2>2. QED
      BY <1>17, <2>1 DEF SendFails, TypeOK, world, config, file, ghosts
  <1>18. ASSUME NEW e \in Evaluations, ConfirmGivesUp(e) PROVE TypeOK'
    BY <1>12, <1>18 DEF ConfirmGivesUp, TypeOK, world, config, file, ghosts
  <1>19. Idle \in Runs
    BY DEF Idle, Runs, Stages
  <1>20. ASSUME NEW e \in Evaluations, Throws(e) PROVE TypeOK'
    BY <1>19, <1>20 DEF Throws, TypeOK, world, config, file, ghosts
  <1>27. ASSUME NEW e \in Evaluations, ReplyLost(e) PROVE TypeOK'
    <2>1. run' \in [Evaluations -> Runs]
      BY <1>19, <1>27 DEF ReplyLost, TypeOK
    <2>2. faults' \in 0..MaxFaults
      BY <1>27 DEF ReplyLost, TypeOK
    <2>3. QED
      BY <1>27, <2>1, <2>2, ArrivalType DEF ReplyLost, TypeOK, world, config, file
  <1>21. ASSUME NEW r \in Rules, Telemetry(r) PROVE TypeOK'
    BY <1>21 DEF Telemetry, TypeOK, world, config, file, ghosts
  <1>22. ASSUME NEW n \in Nodes, Heartbeat(n) \/ GoesOffline(n) PROVE TypeOK'
    BY <1>22 DEF Heartbeat, GoesOffline, TypeOK, world, config, file, ghosts
  <1>23. ASSUME Crash PROVE TypeOK'
    BY <1>19, <1>23 DEF Crash, TypeOK, world, config, file, ghosts
  <1>24. ASSUME TimePasses PROVE TypeOK'
    <2> DEFINE busy == {e \in Evaluations : ~At(e, "idle")}
               over == {e \in busy : run[e].age + 1 = TTL}
    <2>1. faults + Cardinality(over) \in 0..MaxFaults
      <3>1. IsFiniteSet(Evaluations)
        BY FS_AddElement DEF Evaluations
      <3>2. Cardinality(over) \in Nat
        BY <3>1, FS_Subset, FS_CardinalityType
      <3>3. QED
        BY <1>24, <3>2 DEF TimePasses, TypeOK
    <2>2. run' \in [Evaluations -> Runs]
      <3>1. ASSUME NEW e \in busy PROVE [run[e] EXCEPT !.age = @ + 1] \in Runs
        <4>1. run[e].age + 1 \in 0..MaxRun
          BY <1>24, RunFacts DEF TimePasses
        <4>2. run[e] \in Runs
          BY RunFacts
        <4>3. QED
          BY <4>1, <4>2 DEF Runs
      <3>2. QED
        BY <1>24, <3>1 DEF TimePasses, TypeOK
    <2>3. /\ fired' \in [Keys -> Never..Long] /\ told' \in [Keys -> Never..Long]
          /\ reserved' \in [Keys -> Never..Expiry]
      BY <1>24, LimitFacts, Aged DEF TimePasses, TypeOK
    <2>4. episode' \in [Rules -> Rows \union {NoRow}]
      <3> DEFINE row(r) == [streak |-> episode[r].streak, l1 |-> episode[r].l1,
                            hold |-> Older(episode[r].hold, Expiry), l2 |-> episode[r].l2]
      <3>1. ASSUME NEW r \in Rules PROVE row(r) \in Rows \union {NoRow}
        <4>1. CASE episode[r] = NoRow
          BY <4>1 DEF NoRow, Older
        <4>2. CASE episode[r] # NoRow
          BY <4>2, RowFacts, LimitFacts, Aged DEF Rows
        <4>3. QED
          BY <4>1, <4>2
      <3>2. QED
        BY <1>24, <3>1 DEF TimePasses
    <2>5. late' \in BOOLEAN
      BY <1>24 DEF TimePasses
    <2>6. QED
      BY <1>24, <2>1, <2>2, <2>3, <2>4, <2>5 DEF TimePasses, TypeOK, world, config
  <1>25. CASE UNCHANGED vars
    BY <1>25 DEF TypeOK, vars, world, config, file, ghosts
  <1>26. QED
    BY <1>1, <1>2, <1>3, <1>4, <1>5, <1>6, <1>7, <1>8, <1>9, <1>10, <1>11, <1>13, <1>14, <1>15,
       <1>16, <1>17, <1>18, <1>20, <1>21, <1>22, <1>23, <1>24, <1>25, <1>27 DEF Next, Evaluate

-----------------------------------------------------------------------------
(* What evaluations are at *)

\* A step of one evaluation leaves the others where they may be: only the
\* poll deals with episodes.
LEMMA OthersRun ==
  ASSUME TypeOK, RunInv, NEW e \in Evaluations, NEW f \in Evaluations, f # e,
         run'[f] = run[f], sustained' = sustained, e = Poll \/ episode' = episode
  PROVE  RunOK(f)'
  <1>1. RunOK(f)
    BY DEF RunInv
  <1>2. CASE episode' = episode
    BY <1>1, <1>2 DEF RunOK, At
  <1>3. CASE f # Poll
    <2>1. run[f].key[1] \notin {"l1", "l2"}
      BY <1>1, <1>3, KeyFacts DEF RunOK
    <2>2. QED
      BY <1>1, <1>3, <2>1 DEF RunOK, At
  <1>4. QED
    BY <1>2, <1>3

\* The steps of one evaluation that is not idle before or after.
LEMMA Shift ==
  ASSUME TypeOK, RunInv, run' \in [Evaluations -> Runs], NEW e \in Evaluations,
         NEW where, NEW todo, NEW key, Goes(e, where, todo, key),
         sustained' = sustained, e = Poll \/ episode' = episode,
         ~At(e, "idle"), where # "idle", todo \subseteq run[e].todo,
         where = "loop" <=> key = NoKey,
         e # Poll /\ key # NoKey => key[1] = "threshold",
         where \in {"l1", "episode", "markL1", "releaseEpisode", "l2"} => key[1] = "l1",
         where = "clear" => key[1] = "recovery",
         where = "markL2" => key[1] = "l2",
         key[1] \in {"l1", "l2"} => episode'[key[2]] # NoRow,
         key[1] = "l1" /\ where \in {"l1", "episode", "send"} => ~episode'[key[2]].l1
  PROVE  RunInv'
  <1>1. /\ run'[e].at = where /\ run'[e].todo = todo /\ run'[e].key = key
        /\ \A f \in Evaluations : f # e => run'[f] = run[f]
    BY Gone
  <1>2. RunOK(e)'
    BY <1>1 DEF RunInv, RunOK, At
  <1>3. QED
    BY <1>1, <1>2, OthersRun DEF RunInv

LEMMA ShiftAttempt ==
  ASSUME TypeOK, RunInv, run' \in [Evaluations -> Runs], NEW e \in Evaluations,
         NEW s, NEW k \in Keys, NEW next, Attempt(e, s, k, next),
         sustained' = sustained, episode' = episode,
         ~At(e, "idle"), next \in {"send", "episode"},
         e # Poll => k[1] = "threshold",
         next = "episode" => k[1] = "l1",
         k[1] \in {"l1", "l2"} => episode[k[2]] # NoRow,
         k[1] = "l1" => ~episode[k[2]].l1
  PROVE  RunInv'
  <1>1. CASE MayReserve(k, Now(e, k))
    <2>1. Goes(e, next, run[e].todo, k)
      BY <1>1 DEF Attempt
    <2>2. k # NoKey
      BY KeyFacts
    <2>3. QED
      BY <2>1, <2>2, Shift
  <1>2. CASE ~MayReserve(k, Now(e, k))
    <2>1. Goes(e, "loop", run[e].todo \ {s}, NoKey)
      BY <1>2 DEF Attempt, PassOver
    <2>2. NoKey[1] = "none"
      BY KeyFacts
    <2>3. QED
      BY <2>1, <2>2, Shift
  <1>3. QED
    BY <1>1, <1>2

LEMMA ShiftPass ==
  ASSUME TypeOK, RunInv, run' \in [Evaluations -> Runs], NEW e \in Evaluations,
         NEW s, PassOver(e, s), sustained' = sustained, e = Poll \/ episode' = episode,
         ~At(e, "idle")
  PROVE  RunInv'
  <1>1. Goes(e, "loop", run[e].todo \ {s}, NoKey)
    BY DEF PassOver
  <1>2. NoKey[1] = "none"
    BY KeyFacts
  <1>3. QED
    BY <1>1, <1>2, Shift

LEMMA ShiftMove ==
  ASSUME TypeOK, RunInv, run' \in [Evaluations -> Runs], NEW e \in Evaluations,
         NEW where, Moves(e, where), Keyed(e), sustained' = sustained, episode' = episode,
         where \notin {"idle", "loop"},
         where \in {"l1", "episode", "markL1", "releaseEpisode", "l2"} => run[e].key[1] = "l1",
         where = "clear" => run[e].key[1] = "recovery",
         where = "markL2" => run[e].key[1] = "l2",
         run[e].key[1] = "l1" /\ where \in {"l1", "episode", "send"} =>
           run[e].at \in {"l1", "episode", "send"}
  PROVE  RunInv'
  <1>1. Goes(e, where, run[e].todo, run[e].key)
    BY DEF Moves
  <1>2. RunOK(e)
    BY DEF RunInv
  <1>3. QED
    BY <1>1, <1>2, Shift DEF RunOK, Keyed, At

\* Two that leave every evaluation where it is, or idle.
LEMMA SameRun ==
  ASSUME RunInv, UNCHANGED <<run, sustained, episode>>
  PROVE  RunInv'
  BY DEF RunInv, RunOK, At

LEMMA IdleRun ==
  ASSUME TypeOK, RunInv, UNCHANGED <<sustained, episode>>, run' \in [Evaluations -> Runs],
         \A e \in Evaluations : run'[e] \in {Idle, run[e]}
  PROVE  RunInv'
  <1>1. ASSUME NEW e \in Evaluations PROVE RunOK(e)'
    <2>1. RunOK(e)
      BY DEF RunInv
    <2>2. CASE run'[e] = Idle
      BY <2>2, KeyFacts DEF RunOK, At, Idle
    <2>3. CASE run'[e] = run[e]
      BY <2>1, <2>3 DEF RunOK, At
    <2>4. QED
      BY <2>2, <2>3
  <1>2. QED
    BY <1>1 DEF RunInv

\* A setting of the deployment.
LEMMA Steady == [Next]_vars => sustained' = sustained
  <1> USE DEF world, config
  <1>1. ASSUME NEW e \in Evaluations, Evaluate(e) PROVE sustained' = sustained
    <2>1. CASE Begin(e) \/ End(e) \/ ReserveL1(e) \/ ReserveEpisode(e) \/ MarkL1(e)
      BY <2>1 DEF Begin, End, ReserveL1, ReserveEpisode, MarkL1
    <2>2. CASE \/ ReleaseEpisode(e) \/ ReserveL2(e) \/ MarkL2(e)
               \/ Confirm(e) \/ Release(e) \/ ClearOffline(e)
      BY <2>2 DEF ReleaseEpisode, ReserveL2, MarkL2, Confirm, Release, ClearOffline
    <2>3. ASSUME NEW r \in Rules, EvaluateRule(e, r) \/ TickEpisode(e, r)
          PROVE  sustained' = sustained
      BY <2>3 DEF EvaluateRule, TickEpisode
    <2>4. ASSUME NEW n \in Nodes, EvaluateNode(e, n) PROVE sustained' = sustained
      BY <2>4 DEF EvaluateNode
    <2>5. QED
      BY <1>1, <2>1, <2>2, <2>3, <2>4 DEF Evaluate
  <1>2. ASSUME NEW e \in Evaluations,
               \/ SendSucceeds(e) \/ SendFails(e)
               \/ ReplyLost(e) \/ ConfirmGivesUp(e) \/ Throws(e)
        PROVE  sustained' = sustained
    BY <1>2 DEF SendSucceeds, SendFails, ReplyLost, ConfirmGivesUp, Throws
  <1>3. ASSUME \/ \E r \in Rules : Telemetry(r)
               \/ \E n \in Nodes : Heartbeat(n) \/ GoesOffline(n)
               \/ Crash \/ TimePasses \/ UNCHANGED vars
        PROVE  sustained' = sustained
    BY <1>3 DEF Telemetry, Heartbeat, GoesOffline, Crash, TimePasses, vars
  <1>4. QED
    BY <1>1, <1>2, <1>3 DEF Next

\* A row that is written is still a row, and only MarkL1 changes its l1.
LEMMA RowKept ==
  ASSUME TypeOK, NEW r \in Rules, episode[r] # NoRow, NEW hold
  PROVE  /\ \/ episode' = [episode EXCEPT ![r].hold = hold]
            \/ episode' = [episode EXCEPT ![r].l2 = TRUE]
            => episode'[r] # NoRow /\ episode'[r].l1 = episode[r].l1
         /\ episode' = [episode EXCEPT ![r].l1 = TRUE, ![r].hold = hold]
            => episode'[r] # NoRow /\ episode'[r].l1 = TRUE
         /\ \/ episode' = [episode EXCEPT ![r].hold = hold]
            \/ episode' = [episode EXCEPT ![r].l2 = TRUE]
            \/ episode' = [episode EXCEPT ![r].l1 = TRUE, ![r].hold = hold]
            => \A s \in Rules : s # r => episode'[s] = episode[s]
  <1>1. NoRow.streak = 0 /\ episode[r].streak # 0 /\ episode[r] \in Rows
    <2>1. NoRow.streak = 0
      BY DEF NoRow
    <2>2. episode[r].streak # 0 /\ episode[r] \in Rows
      BY AlertConstants, RowFacts
    <2>3. QED
      BY <2>1, <2>2
  <1>2. CASE episode' = [episode EXCEPT ![r].hold = hold]
    BY <1>1, <1>2 DEF TypeOK, Rows
  <1>3. CASE episode' = [episode EXCEPT ![r].l2 = TRUE]
    BY <1>1, <1>3 DEF TypeOK, Rows
  <1>4. CASE episode' = [episode EXCEPT ![r].l1 = TRUE, ![r].hold = hold]
    BY <1>1, <1>4 DEF TypeOK, Rows
  <1>5. QED
    BY <1>2, <1>3, <1>4

LEMMA RunNext == TypeOK /\ TypeOK' /\ RunInv /\ [Next]_vars => RunInv'
  <1> SUFFICES ASSUME TypeOK, TypeOK', RunInv, [Next]_vars PROVE RunInv'
    OBVIOUS
  <1>t. run' \in [Evaluations -> Runs]
    BY DEF TypeOK
  <1>s. sustained' = sustained
    BY Steady
  <1>k. \A e \in Evaluations : RunOK(e)
    BY DEF RunInv
  <1>1. ASSUME NEW e \in Evaluations, Begin(e) PROVE RunInv'
    <2> DEFINE todo == IF e = Poll THEN watch ELSE watch \intersect Rules
    <2>1. Goes(e, "loop", todo, NoKey) /\ episode' = episode /\ (e = Poll \/ ~sustained)
      BY <1>1 DEF Begin
    <2>2. /\ run'[e].at = "loop" /\ run'[e].todo = todo /\ run'[e].key = NoKey
          /\ \A f \in Evaluations : f # e => run'[f] = run[f]
      BY <1>t, <2>1, Gone
    <2>3. RunOK(e)'
      BY <1>s, <2>1, <2>2, KeyFacts DEF RunOK, At
    <2>4. QED
      BY <1>s, <2>1, <2>2, <2>3, OthersRun DEF RunInv
  <1>2. ASSUME NEW e \in Evaluations, End(e) PROVE RunInv'
    <2>1. run' = [run EXCEPT ![e] = Idle] /\ episode' = episode
      BY <1>2 DEF End
    <2>2. \A f \in Evaluations : run'[f] \in {Idle, run[f]}
      BY <2>1 DEF TypeOK
    <2>3. QED
      BY <1>t, <1>s, <2>1, <2>2, IdleRun
  <1>3. ASSUME NEW e \in Evaluations, NEW r \in Rules, EvaluateRule(e, r) PROVE RunInv'
    <2>1. episode' = episode /\ ~At(e, "idle")
      BY <1>3 DEF EvaluateRule, Looks, At
    <2>2. CASE Attempt(e, r, <<"threshold", r>>, "send")
      <3>1. <<"threshold", r>> \in Keys
        BY KeyFacts
      <3>2. QED
        BY <1>t, <1>s, <2>1, <2>2, <3>1, ShiftAttempt
    <2>3. CASE PassOver(e, r)
      BY <1>t, <1>s, <2>1, <2>3, ShiftPass
    <2>4. QED
      BY <1>3, <2>2, <2>3 DEF EvaluateRule
  <1>4. ASSUME NEW e \in Evaluations, NEW n \in Nodes, EvaluateNode(e, n) PROVE RunInv'
    <2>1. episode' = episode /\ ~At(e, "idle")
      BY <1>4 DEF EvaluateNode, Looks, At
    <2>2. e = Poll
      BY <1>4, <1>k, AlertConstants DEF EvaluateNode, Looks, Next1, RunOK, At
    <2>3. ASSUME NEW w \in {"offline", "recovery"}, Attempt(e, n, <<w, n>>, "send") PROVE RunInv'
      <3>1. <<w, n>> \in Keys
        BY KeyFacts
      <3>2. QED
        BY <1>t, <1>s, <2>1, <2>2, <2>3, <3>1, ShiftAttempt
    <2>4. CASE PassOver(e, n)
      BY <1>t, <1>s, <2>1, <2>4, ShiftPass
    <2>5. QED
      BY <1>4, <2>3, <2>4 DEF EvaluateNode
  <1>5. ASSUME NEW e \in Evaluations, NEW r \in Rules, TickEpisode(e, r) PROVE RunInv'
    <2>1. ~At(e, "idle") /\ sustained
      BY <1>5 DEF TickEpisode, Looks, At
    <2>2. e = Poll
      BY <1>k, <2>1 DEF RunOK
    <2>3. CASE PassOver(e, r)
      BY <1>t, <1>s, <2>1, <2>2, <2>3, ShiftPass
    <2>4. ASSUME ~PassOver(e, r)
          PROVE  \E where \in {"l1", "l2"} :
                   /\ Goes(e, where, run[e].todo, <<"l1", r>>)
                   /\ episode'[r] # NoRow
                   /\ where = "l1" => ~episode'[r].l1
      <3> DEFINE old == episode[r]
                 new == [streak |-> IF old.streak = MinStreak THEN MinStreak ELSE old.streak + 1,
                         l1 |-> old.l1, l2 |-> old.l2,
                         hold |-> IF Expired(old.hold, run[e].age) THEN Never ELSE old.hold]
      <3>1. /\ episode' = [episode EXCEPT ![r] = new]
            /\ Goes(e, IF ~new.l1 /\ new.hold = Never THEN "l1" ELSE "l2",
                    run[e].todo, <<"l1", r>>)
        BY <1>5, <2>4 DEF TickEpisode
      <3>2. new.streak # 0
        BY AlertConstants DEF TypeOK, Rows, NoRow
      <3> HIDE DEF new
      <3>3. episode'[r] = new /\ new # NoRow
        BY <3>1, <3>2 DEF TypeOK, NoRow
      <3>4. QED
        BY <3>1, <3>3
    <2>5. CASE ~PassOver(e, r)
      <3>1. PICK where \in {"l1", "l2"} :
                   /\ Goes(e, where, run[e].todo, <<"l1", r>>)
                   /\ episode'[r] # NoRow
                   /\ where = "l1" => ~episode'[r].l1
        BY <2>4, <2>5
      <3>2. <<"l1", r>> # NoKey
        BY KeyFacts
      <3>3. QED
        BY <1>t, <1>s, <2>1, <2>2, <3>1, <3>2, Shift
    <2>6. QED
      BY <2>3, <2>5
  <1>6. ASSUME NEW e \in Evaluations, ReserveL1(e) PROVE RunInv'
    <2>1. Keyed(e) /\ run[e].at = "l1" /\ episode' = episode
      BY <1>6 DEF ReserveL1, At, Keyed
    <2>2. QED
      BY <1>6, <1>t, <1>s, <1>k, <2>1, KeyedFacts, ShiftAttempt DEF ReserveL1, RunOK, At
  <1>7. ASSUME NEW e \in Evaluations, ReserveEpisode(e) PROVE RunInv'
    <2>1. Keyed(e) /\ ~At(e, "idle")
      BY <1>7 DEF ReserveEpisode, At, Keyed
    <2>2. /\ run[e].key[1] = "l1" /\ run[e].key[2] \in Rules /\ e = Poll /\ run[e].key # NoKey
          /\ episode[run[e].key[2]] # NoRow
          /\ At(e, "episode") => ~episode[run[e].key[2]].l1
      BY <1>7, <1>k, <2>1, KeyedFacts DEF RunOK, At, Keyed, ReserveEpisode
    <2>3. /\ episode'[run[e].key[2]] # NoRow
          /\ At(e, "episode") => ~episode'[run[e].key[2]].l1
      BY <1>7, <2>2, RowKept DEF ReserveEpisode, At
    <2>4. Goes(e, "send", run[e].todo, run[e].key)
      BY <1>7 DEF ReserveEpisode, Moves
    <2>5. QED
      BY <1>7, <1>t, <1>s, <2>1, <2>2, <2>3, <2>4, Shift DEF ReserveEpisode
  <1>8. ASSUME NEW e \in Evaluations, MarkL1(e) PROVE RunInv'
    <2>1. Keyed(e) /\ ~At(e, "idle")
      BY <1>8 DEF MarkL1, At, Keyed
    <2>2. /\ run[e].key[1] = "l1" /\ run[e].key[2] \in Rules /\ e = Poll /\ run[e].key # NoKey
          /\ episode[run[e].key[2]] # NoRow
          /\ At(e, "episode") => ~episode[run[e].key[2]].l1
      BY <1>8, <1>k, <2>1, KeyedFacts DEF RunOK, At, Keyed, MarkL1
    <2>3. /\ episode'[run[e].key[2]] # NoRow
          /\ At(e, "episode") => ~episode'[run[e].key[2]].l1
      BY <1>8, <2>2, RowKept DEF MarkL1, At
    <2>4. Goes(e, "l2", run[e].todo, run[e].key)
      BY <1>8 DEF MarkL1, Moves
    <2>5. QED
      BY <1>8, <1>t, <1>s, <2>1, <2>2, <2>3, <2>4, Shift DEF MarkL1
  <1>9. ASSUME NEW e \in Evaluations, ReleaseEpisode(e) PROVE RunInv'
    <2>1. Keyed(e) /\ ~At(e, "idle")
      BY <1>9 DEF ReleaseEpisode, At, Keyed
    <2>2. /\ run[e].key[1] = "l1" /\ run[e].key[2] \in Rules /\ e = Poll /\ run[e].key # NoKey
          /\ episode[run[e].key[2]] # NoRow
          /\ At(e, "episode") => ~episode[run[e].key[2]].l1
      BY <1>9, <1>k, <2>1, KeyedFacts DEF RunOK, At, Keyed, ReleaseEpisode
    <2>3. /\ episode'[run[e].key[2]] # NoRow
          /\ At(e, "episode") => ~episode'[run[e].key[2]].l1
      BY <1>9, <2>2, RowKept DEF ReleaseEpisode, At
    <2>4. Goes(e, "release", run[e].todo, run[e].key)
      BY <1>9 DEF ReleaseEpisode, Moves
    <2>5. QED
      BY <1>9, <1>t, <1>s, <2>1, <2>2, <2>3, <2>4, Shift DEF ReleaseEpisode
  <1>10. ASSUME NEW e \in Evaluations, ReserveL2(e) PROVE RunInv'
    <2>1. Keyed(e) /\ run[e].at = "l2" /\ episode' = episode
      BY <1>10 DEF ReserveL2, At, Keyed
    <2>2. /\ run[e].key[1] = "l1" /\ run[e].key[2] \in Rules /\ e = Poll
          /\ episode[run[e].key[2]] # NoRow
      BY <1>k, <2>1, KeyedFacts DEF RunOK, At, Keyed
    <2>3. CASE Attempt(e, run[e].key[2], <<"l2", run[e].key[2]>>, "send")
      <3> DEFINE k == <<"l2", run[e].key[2]>>
      <3>1. k \in Keys /\ k[1] = "l2" /\ k[2] = run[e].key[2]
        BY <2>2, KeyFacts
      <3> HIDE DEF k
      <3>2. Attempt(e, run[e].key[2], k, "send")
        BY <2>3 DEF k
      <3>3. QED
        BY <1>t, <1>s, <2>1, <2>2, <3>1, <3>2, ShiftAttempt DEF At
    <2>4. CASE PassOver(e, run[e].key[2])
      BY <1>t, <1>s, <2>1, <2>4, ShiftPass DEF At
    <2>5. QED
      BY <1>10, <2>3, <2>4 DEF ReserveL2
  <1>11. ASSUME NEW e \in Evaluations, MarkL2(e) PROVE RunInv'
    <2>1. Keyed(e) /\ ~At(e, "idle") /\ run[e].key[1] = "l2"
      BY <1>11, <1>k DEF MarkL2, At, Keyed, RunOK
    <2>2. e = Poll
      BY <1>k, <2>1, KeyedFacts, KeyFacts DEF RunOK
    <2>3. QED
      BY <1>11, <1>t, <1>s, <2>1, <2>2, ShiftPass DEF MarkL2, Done
  <1>12. ASSUME NEW e \in Evaluations, AfterConfirm(e), At(e, "confirm"), episode' = episode
         PROVE  RunInv'
    <2>1. Keyed(e) /\ ~At(e, "idle")
      BY <1>12 DEF At, Keyed
    <2>2. CASE PassOver(e, run[e].key[2])
      BY <1>12, <1>t, <1>s, <2>1, <2>2, ShiftPass
    <2>3. ASSUME run[e].key[1] = "l1", Moves(e, "markL1") PROVE RunInv'
      BY <1>12, <1>t, <1>s, <2>1, <2>3, ShiftMove
    <2>4. ASSUME run[e].key[1] = "l2", Moves(e, "markL2") PROVE RunInv'
      BY <1>12, <1>t, <1>s, <2>1, <2>4, ShiftMove
    <2>5. ASSUME run[e].key[1] = "recovery", Moves(e, "clear") PROVE RunInv'
      BY <1>12, <1>t, <1>s, <2>1, <2>5, ShiftMove
    <2>6. QED
      BY <1>12, <2>2, <2>3, <2>4, <2>5 DEF AfterConfirm, Done
  <1>13. ASSUME NEW e \in Evaluations, Confirm(e) PROVE RunInv'
    BY <1>12, <1>13 DEF Confirm
  <1>14. ASSUME NEW e \in Evaluations, Release(e) PROVE RunInv'
    <2>1. Keyed(e) /\ ~At(e, "idle") /\ episode' = episode
      BY <1>14 DEF Release, At, Keyed
    <2>2. ASSUME run[e].key[1] = "l1", Moves(e, "l2") PROVE RunInv'
      BY <1>t, <1>s, <2>1, <2>2, ShiftMove
    <2>3. CASE PassOver(e, run[e].key[2])
      BY <1>t, <1>s, <2>1, <2>3, ShiftPass
    <2>4. QED
      BY <1>14, <2>2, <2>3 DEF Release, Done
  <1>15. ASSUME NEW e \in Evaluations, ClearOffline(e) PROVE RunInv'
    BY <1>15, <1>t, <1>s, ShiftPass DEF ClearOffline, Done, At
  <1>16. ASSUME NEW e \in Evaluations, SendSucceeds(e) PROVE RunInv'
    <2>1. Keyed(e) /\ episode' = episode /\ Moves(e, "confirm")
      BY <1>16 DEF SendSucceeds, At, Keyed
    <2>2. QED
      BY <1>t, <1>s, <2>1, ShiftMove
  <1>17. ASSUME NEW e \in Evaluations, SendFails(e) PROVE RunInv'
    <2>1. Keyed(e) /\ episode' = episode
      BY <1>17 DEF SendFails, At, Keyed
    <2>2. QED
      BY <1>17, <1>t, <1>s, <2>1, ShiftMove DEF SendFails
  <1>18. ASSUME NEW e \in Evaluations, ConfirmGivesUp(e) PROVE RunInv'
    BY <1>12, <1>18 DEF ConfirmGivesUp
  <1>19. ASSUME NEW e \in Evaluations, ReplyLost(e) PROVE RunInv'
    <2>1. run' \in {run, [run EXCEPT ![e] = Idle]} /\ episode' = episode
      BY <1>19 DEF ReplyLost
    <2>2. \A f \in Evaluations : run'[f] \in {Idle, run[f]}
      BY <2>1 DEF TypeOK
    <2>3. QED
      BY <1>t, <1>s, <2>1, <2>2, IdleRun
  <1>20. ASSUME NEW e \in Evaluations, Throws(e) PROVE RunInv'
    <2>1. run' = [run EXCEPT ![e] = Idle] /\ episode' = episode
      BY <1>20 DEF Throws
    <2>2. \A f \in Evaluations : run'[f] \in {Idle, run[f]}
      BY <2>1 DEF TypeOK
    <2>3. QED
      BY <1>t, <1>s, <2>1, <2>2, IdleRun
  <1>21. ASSUME \/ \E r \in Rules : Telemetry(r)
                \/ \E n \in Nodes : Heartbeat(n) \/ GoesOffline(n)
         PROVE  RunInv'
    BY <1>21, <1>s, SameRun DEF Telemetry, Heartbeat, GoesOffline
  <1>23. ASSUME Crash PROVE RunInv'
    <2>1. (\A f \in Evaluations : run'[f] \in {Idle, run[f]}) /\ episode' = episode
      BY <1>23 DEF Crash
    <2>2. QED
      BY <1>t, <1>s, <2>1, IdleRun
  <1>24. ASSUME TimePasses PROVE RunInv'
    <2>1. ASSUME NEW e \in Evaluations
          PROVE  /\ run'[e].at = run[e].at /\ run'[e].todo = run[e].todo /\ run'[e].key = run[e].key
                 /\ At(e, "idle") => run'[e].age = run[e].age
      <3>1. run'[e] = IF ~At(e, "idle") THEN [run[e] EXCEPT !.age = @ + 1] ELSE run[e]
        BY <1>24 DEF TimePasses
      <3>2. run[e] \in Runs
        BY RunFacts
      <3>3. QED
        BY <3>1, <3>2 DEF Runs
    <2>2. ASSUME NEW r \in Rules
          PROVE  episode'[r].l1 = episode[r].l1 /\ episode'[r].streak = episode[r].streak
      BY <1>24 DEF TimePasses
    <2>3. ASSUME NEW r \in Rules, episode[r] # NoRow PROVE episode'[r] # NoRow
      <3>1. episode[r].streak # 0
        BY <2>3, RowFacts, AlertConstants
      <3>2. QED
        BY <2>2, <3>1 DEF NoRow
    <2>4. ASSUME NEW e \in Evaluations, run[e].key[1] \in {"l1", "l2"} PROVE run[e].key[2] \in Rules
      BY <2>4, RunFacts, KeyFacts
    <2>5. ASSUME NEW e \in Evaluations PROVE RunOK(e)'
      BY <1>k, <1>s, <2>1, <2>2, <2>3, <2>4 DEF RunOK, At
    <2>6. QED
      BY <2>5 DEF RunInv
  <1>25. CASE UNCHANGED vars
    BY <1>25, SameRun DEF vars, world, config
  <1>26. QED
    BY <1>1, <1>2, <1>3, <1>4, <1>5, <1>6, <1>7, <1>8, <1>9, <1>10, <1>11, <1>13, <1>14, <1>15,
       <1>16, <1>17, <1>18, <1>19, <1>20, <1>21, <1>23, <1>24, <1>25 DEF Next, Evaluate

\* Each step of an evaluation is its own.
LEMMA Alone ==
  ASSUME TypeOK, NEW e \in Evaluations,
         \/ Evaluate(e) \/ SendSucceeds(e) \/ SendFails(e)
         \/ ReplyLost(e) \/ ConfirmGivesUp(e) \/ Throws(e)
  PROVE  \A f \in Evaluations : f # e => run'[f] = run[f]
  <1> DEFINE Others == \A f \in Evaluations : f # e => run'[f] = run[f]
  <1>1. ASSUME NEW where, NEW todo, NEW key, Goes(e, where, todo, key) PROVE Others
    BY <1>1 DEF Goes, TypeOK
  <1>2. run' = [run EXCEPT ![e] = Idle] => Others
    BY DEF TypeOK
  <1>3. ASSUME NEW s, PassOver(e, s) PROVE Others
    BY <1>1, <1>3 DEF PassOver
  <1>4. ASSUME NEW where, Moves(e, where) PROVE Others
    BY <1>1, <1>4 DEF Moves
  <1>5. ASSUME NEW s, NEW k, NEW next, Attempt(e, s, k, next) PROVE Others
    BY <1>1, <1>3, <1>5 DEF Attempt
  <1> HIDE DEF Others
  <1>6. Begin(e) \/ End(e) => Others
    BY <1>1, <1>2 DEF Begin, End
  <1>7. ASSUME NEW r \in Rules, EvaluateRule(e, r) \/ TickEpisode(e, r) PROVE Others
    BY <1>1, <1>3, <1>5, <1>7 DEF EvaluateRule, TickEpisode
  <1>8. ASSUME NEW n \in Nodes, EvaluateNode(e, n) PROVE Others
    BY <1>3, <1>5, <1>8 DEF EvaluateNode
  <1>9. ReserveL1(e) \/ ReserveL2(e) => Others
    BY <1>3, <1>5 DEF ReserveL1, ReserveL2
  <1>10. ReserveEpisode(e) \/ MarkL1(e) \/ ReleaseEpisode(e) \/ MarkL2(e) => Others
    BY <1>3, <1>4 DEF ReserveEpisode, MarkL1, ReleaseEpisode, MarkL2, Done
  <1>11. Confirm(e) \/ ConfirmGivesUp(e) => Others
    BY <1>3, <1>4 DEF Confirm, ConfirmGivesUp, AfterConfirm, Done
  <1>12. Release(e) \/ ClearOffline(e) => Others
    BY <1>3, <1>4 DEF Release, ClearOffline, Done
  <1>13. SendSucceeds(e) \/ SendFails(e) \/ Throws(e) => Others
    BY <1>2, <1>4 DEF SendSucceeds, SendFails, Throws
  <1>r. ReplyLost(e) => Others
    <2>1. run' = run => Others
      BY DEF Others
    <2>2. QED
      BY <1>2, <2>1 DEF ReplyLost
  <1>14. Others
    BY <1>6, <1>7, <1>8, <1>9, <1>10, <1>11, <1>12, <1>13, <1>r DEF Evaluate
  <1>15. QED
    BY <1>14 DEF Others

-----------------------------------------------------------------------------
(* Alarms *)

LEMMA AlarmQuiet ==
  ASSUME TypeOK, TypeOK', AlarmInv, alarms' = alarms, faults' >= faults,
         \A r \in Rules : faults' > faults \/ (AlarmDue(r)' => AlarmDue(r))
  PROVE  AlarmInv'
  <1>1. faults \in Int /\ faults' \in Int /\ \A r \in Rules : alarms[r] \in Int
    BY AlertConstants DEF TypeOK
  <1>2. ASSUME NEW r \in Rules PROVE alarms'[r] <= 1 + faults' /\ (AlarmDue(r)' => alarms'[r] <= faults')
    BY <1>1 DEF AlarmInv
  <1>3. QED
    BY <1>2 DEF AlarmInv

LEMMA AlarmStep ==
  ASSUME TypeOK, TypeOK', AlarmInv, NEW e \in Evaluations,
         \A f \in Evaluations : f # e => run'[f] = run[f],
         ~At(e, "confirm"), ~At(e, "markL1"),
         \A r \in Rules : episode'[r].l1 = episode[r].l1,
         UNCHANGED <<alarms, faults>>
  PROVE  AlarmInv'
  <1>1. ASSUME NEW r \in Rules PROVE AlarmDue(r)' => AlarmDue(r)
    BY DEF AlarmDue, At, Evaluations
  <1>2. faults' >= faults
    BY AlertConstants DEF TypeOK
  <1>3. QED
    BY <1>1, <1>2, AlarmQuiet

LEMMA FaultsGrow ==
  ASSUME TypeOK, TimePasses
  PROVE  /\ faults' >= faults
         /\ ~late' => faults' = faults /\ \A e \in Evaluations : ~At(e, "idle") => run[e].age + 1 # TTL
  <1> DEFINE busy == {e \in Evaluations : ~At(e, "idle")}
             over == {e \in busy : run[e].age + 1 = TTL}
  <1>1. IsFiniteSet(Evaluations)
    BY FS_AddElement, AlertConstants DEF Evaluations
  <1>2. Cardinality(over) \in Nat
    BY <1>1, FS_Subset, FS_CardinalityType
  <1>3. faults' = faults + Cardinality(over) /\ late' = (late \/ over # {})
    BY DEF TimePasses
  <1>4. faults \in Int
    BY AlertConstants DEF TypeOK
  <1>5. over = {} => Cardinality(over) = 0
    BY FS_EmptySet
  <1>6. faults' >= faults
    BY <1>2, <1>3, <1>4
  <1>7. ~late' => faults' = faults
    <2>1. ~late' => over = {}
      BY <1>3, Zenon
    <2>2. over = {} => faults' = faults
      BY <1>3, <1>4, <1>5
    <2>3. QED
      BY <2>1, <2>2
  <1>8. ~late' => \A e \in Evaluations : ~At(e, "idle") => run[e].age + 1 # TTL
    <2>1. ~late' => over = {}
      BY <1>3, Zenon
    <2>2. over = {} => \A e \in Evaluations : ~At(e, "idle") => run[e].age + 1 # TTL
      OBVIOUS
    <2>3. QED
      BY <2>1, <2>2
  <1>9. QED
    BY <1>6, <1>7, <1>8

LEMMA OnlyOlder ==
  ASSUME TypeOK, TimePasses, NEW e \in Evaluations
  PROVE  /\ run'[e].at = run[e].at /\ run'[e].todo = run[e].todo /\ run'[e].key = run[e].key
         /\ run'[e].age = IF At(e, "idle") THEN run[e].age ELSE run[e].age + 1
  <1>1. run'[e] = IF ~At(e, "idle") THEN [run[e] EXCEPT !.age = @ + 1] ELSE run[e]
    BY DEF TimePasses
  <1>2. run[e] \in Runs
    BY RunFacts
  <1>3. QED
    BY <1>1, <1>2 DEF Runs

LEMMA AlarmNext == TypeOK /\ TypeOK' /\ RunInv /\ AlarmInv /\ [Next]_vars => AlarmInv'
  <1> SUFFICES ASSUME TypeOK, TypeOK', RunInv, AlarmInv, [Next]_vars PROVE AlarmInv'
    OBVIOUS
  <1>k. \A e \in Evaluations : RunOK(e)
    BY DEF RunInv
  <1>f. faults \in Int /\ faults' \in Int /\ \A r \in Rules : alarms[r] \in Int
    BY AlertConstants DEF TypeOK
  <1>1. ASSUME NEW e \in Evaluations, Evaluate(e), ~At(e, "confirm"), ~At(e, "markL1"),
               episode' = episode, UNCHANGED <<alarms, faults>>
        PROVE  AlarmInv'
    BY <1>1, Alone, AlarmStep
  <1>2. ASSUME NEW e \in Evaluations, Begin(e) \/ End(e) PROVE AlarmInv'
    BY <1>1, <1>2 DEF Begin, End, At, ghosts, Evaluate
  <1>3. ASSUME NEW e \in Evaluations, NEW r \in Rules, EvaluateRule(e, r) PROVE AlarmInv'
    BY <1>1, <1>3 DEF EvaluateRule, Looks, At, ghosts, Evaluate
  <1>4. ASSUME NEW e \in Evaluations, NEW n \in Nodes, EvaluateNode(e, n) PROVE AlarmInv'
    BY <1>1, <1>4 DEF EvaluateNode, Looks, At, ghosts, Evaluate
  <1>5. ASSUME NEW e \in Evaluations, NEW r \in Rules, TickEpisode(e, r) PROVE AlarmInv'
    <2>1. At(e, "loop") /\ faults' = faults /\ e = Poll
      BY <1>5, <1>k DEF TickEpisode, Looks, RunOK, At
    <2>2. /\ \A s \in Rules : s # r => episode'[s] = episode[s] /\ alarms'[s] = alarms[s]
          /\ alarms'[r] = IF episode'[r] = NoRow THEN 0 ELSE alarms[r]
          /\ episode'[r] = NoRow \/ episode'[r].l1 = episode[r].l1
      <3> DEFINE old == episode[r]
                 new == [streak |-> IF old.streak = MinStreak THEN MinStreak ELSE old.streak + 1,
                         l1 |-> old.l1, l2 |-> old.l2,
                         hold |-> IF Expired(old.hold, run[e].age) THEN Never ELSE old.hold]
      <3>1. new.l1 = episode[r].l1
        OBVIOUS
      <3> HIDE DEF new
      <3>2. \/ episode' = episode
            \/ episode' = [episode EXCEPT ![r] = NoRow]
            \/ episode' = [episode EXCEPT ![r] = new]
        BY <1>5 DEF TickEpisode, new
      <3>3. alarms' = [alarms EXCEPT ![r] = IF episode'[r] = NoRow THEN 0 ELSE @]
        BY <1>5 DEF TickEpisode
      <3>4. QED
        BY <3>1, <3>2, <3>3 DEF TypeOK
    <2>3. ASSUME NEW s \in Rules, AlarmDue(s)', episode'[s] # NoRow PROVE AlarmDue(s)
      BY <2>1, <2>2, <2>3 DEF AlarmDue, At
    <2>4. 0 <= faults
      BY AlertConstants DEF TypeOK
    <2>5. ASSUME NEW s \in Rules
          PROVE  alarms'[s] <= 1 + faults' /\ (AlarmDue(s)' => alarms'[s] <= faults')
      <3>1. CASE s = r /\ episode'[s] = NoRow
        BY <1>f, <2>1, <2>2, <2>4, <3>1
      <3>2. CASE s = r /\ episode'[s] # NoRow
        BY <1>f, <2>1, <2>2, <2>3, <3>2 DEF AlarmInv
      <3>3. CASE s # r
        <4>1. AlarmDue(s)' => AlarmDue(s)
          BY <2>1, <2>2, <3>3 DEF AlarmDue, At
        <4>2. QED
          BY <1>f, <2>1, <2>2, <3>3, <4>1 DEF AlarmInv
      <3>4. QED
        BY <3>1, <3>2, <3>3
    <2>6. QED
      BY <2>5 DEF AlarmInv
  <1>6. ASSUME NEW e \in Evaluations, ReserveL1(e) \/ ReserveL2(e) \/ Release(e) \/ ClearOffline(e)
        PROVE  AlarmInv'
    BY <1>1, <1>6 DEF ReserveL1, ReserveL2, Release, ClearOffline, At, ghosts, Evaluate
  <1>7. ASSUME NEW e \in Evaluations, ReserveEpisode(e) \/ ReleaseEpisode(e) \/ MarkL2(e)
        PROVE  AlarmInv'
    <2>1. run[e].key[2] \in Rules /\ episode[run[e].key[2]] # NoRow
      BY <1>7, <1>k, KeyedFacts DEF RunOK, At, Keyed, ReserveEpisode, ReleaseEpisode, MarkL2
    <2>2. \E hold : \/ episode' = [episode EXCEPT ![run[e].key[2]].hold = hold]
                    \/ episode' = [episode EXCEPT ![run[e].key[2]].l2 = TRUE]
      BY <1>7 DEF ReserveEpisode, ReleaseEpisode, MarkL2
    <2>3. \A r \in Rules : episode'[r].l1 = episode[r].l1
      BY <2>1, <2>2, RowKept
    <2>4. ~At(e, "confirm") /\ ~At(e, "markL1") /\ UNCHANGED <<alarms, faults>> /\ Evaluate(e)
      BY <1>7 DEF ReserveEpisode, ReleaseEpisode, MarkL2, At, ghosts, Evaluate
    <2>5. QED
      BY <2>3, <2>4, Alone, AlarmStep
  <1>8. ASSUME NEW e \in Evaluations, MarkL1(e) PROVE AlarmInv'
    <2>1. /\ run[e].key[1] = "l1" /\ run[e].key[2] \in Rules /\ e = Poll
          /\ run[e].key = <<"l1", run[e].key[2]>> /\ episode[run[e].key[2]] # NoRow
      BY <1>8, <1>k, KeyedFacts DEF RunOK, At, Keyed, MarkL1
    <2>2. /\ episode'[run[e].key[2]].l1
          /\ \A s \in Rules : s # run[e].key[2] => episode'[s] = episode[s]
      BY <1>8, <2>1, RowKept DEF MarkL1
    <2>3. \A r \in Rules : AlarmDue(r)' => AlarmDue(r)
      BY <2>1, <2>2 DEF AlarmDue
    <2>4. UNCHANGED <<alarms, faults>>
      BY <1>8 DEF MarkL1, ghosts
    <2>5. QED
      BY <1>f, <2>3, <2>4, AlarmQuiet
  <1>13. ASSUME NEW e \in Evaluations, Confirm(e) \/ ConfirmGivesUp(e) PROVE AlarmInv'
    <2>1. /\ At(e, "confirm") /\ AfterConfirm(e) /\ faults' >= faults
          /\ UNCHANGED <<episode, alarms>>
      BY <1>13, <1>f DEF Confirm, ConfirmGivesUp, ghosts
    <2>2. \A f \in Evaluations : f # e => run'[f] = run[f]
      BY <1>13, Alone DEF Evaluate
    <2>3. CASE run[e].key[1] = "l1"
      <3>1. Goes(e, "markL1", run[e].todo, run[e].key)
        BY <2>1, <2>3 DEF AfterConfirm, Moves
      <3>2. run'[e].at = "markL1" /\ run'[e].key = run[e].key
        BY <3>1, Gone DEF TypeOK
      <3>3. \A r \in Rules : AlarmDue(r)' => AlarmDue(r)
        BY <2>1, <2>2, <3>2 DEF AlarmDue, At, Evaluations
      <3>4. QED
        BY <2>1, <3>3, AlarmQuiet
    <2>4. CASE run[e].key[1] # "l1"
      <3>1. \A r \in Rules : run[e].key # <<"l1", r>>
        BY <2>4
      <3>2. \A r \in Rules : AlarmDue(r)' => AlarmDue(r)
        BY <2>1, <2>2, <3>1 DEF AlarmDue, Evaluations
      <3>3. QED
        BY <2>1, <3>2, AlarmQuiet
    <2>5. QED
      BY <2>3, <2>4
  <1>16. ASSUME NEW e \in Evaluations, SendSucceeds(e) PROVE AlarmInv'
    <2>1. /\ At(e, "send") /\ UNCHANGED <<episode, faults>>
          /\ Goes(e, "confirm", run[e].todo, run[e].key)
          /\ \A r \in Rules :
               alarms'[r] = IF run[e].key = <<"l1", r>> THEN alarms[r] + 1 ELSE alarms[r] + 0
      BY <1>16 DEF SendSucceeds, Arrives, Moves
    <2>2. /\ run'[e].at = "confirm" /\ run'[e].key = run[e].key
          /\ \A f \in Evaluations : f # e => run'[f] = run[f]
      BY <2>1, Gone DEF TypeOK
    <2>3. ASSUME NEW r \in Rules
          PROVE  alarms'[r] <= 1 + faults' /\ (AlarmDue(r)' => alarms'[r] <= faults')
      <3>1. CASE run[e].key = <<"l1", r>>
        <4>1. run[e].key[1] = "l1" /\ run[e].key[2] = r /\ run[e].key # NoKey
          BY <3>1, KeyFacts
        <4>2. e = Poll /\ ~episode[r].l1
          BY <1>k, <2>1, <4>1 DEF RunOK, At
        <4>3. AlarmDue(r) /\ ~AlarmDue(r)'
          BY <2>1, <2>2, <3>1, <4>2 DEF AlarmDue, At
        <4>4. QED
          BY <1>f, <2>1, <3>1, <4>3 DEF AlarmInv
      <3>2. CASE run[e].key # <<"l1", r>>
        <4>1. AlarmDue(r)' => AlarmDue(r)
          BY <2>1, <2>2, <3>2 DEF AlarmDue, Evaluations
        <4>2. alarms'[r] = alarms[r]
          BY <1>f, <2>1, <3>2
        <4>3. QED
          BY <2>1, <4>1, <4>2 DEF AlarmInv
      <3>3. QED
        BY <3>1, <3>2
    <2>4. QED
      BY <2>3 DEF AlarmInv
  <1>17. ASSUME NEW e \in Evaluations, SendFails(e) PROVE AlarmInv'
    BY <1>17, Alone, AlarmStep DEF SendFails, At, ghosts
  <1>19. ASSUME NEW e \in Evaluations, ReplyLost(e) PROVE AlarmInv'
    <2>1. /\ At(e, "send") /\ episode' = episode /\ faults' = faults + 1
          /\ \A r \in Rules :
               alarms'[r] = IF run[e].key = <<"l1", r>> THEN alarms[r] + 1 ELSE alarms[r] + 0
      BY <1>19 DEF ReplyLost, Arrives
    <2>2. ASSUME NEW r \in Rules
          PROVE  alarms'[r] <= 1 + faults' /\ (AlarmDue(r)' => alarms'[r] <= faults')
      <3>1. CASE run[e].key = <<"l1", r>>
        <4>1. run[e].key[1] = "l1" /\ run[e].key[2] = r /\ run[e].key # NoKey
          BY <3>1, KeyFacts
        <4>2. e = Poll /\ ~episode[r].l1
          BY <1>k, <2>1, <4>1 DEF RunOK, At
        <4>3. AlarmDue(r)
          BY <2>1, <4>2 DEF AlarmDue, At
        <4>4. QED
          BY <1>f, <2>1, <3>1, <4>3 DEF AlarmInv
      <3>2. CASE run[e].key # <<"l1", r>>
        <4>1. alarms'[r] = alarms[r]
          BY <1>f, <2>1, <3>2
        <4>2. QED
          BY <1>f, <2>1, <4>1 DEF AlarmInv
      <3>3. QED
        BY <3>1, <3>2
    <2>3. QED
      BY <2>2 DEF AlarmInv
  <1>20. ASSUME \/ \E e \in Evaluations : Throws(e)
                \/ Crash
         PROVE  AlarmInv'
    <2>1. faults' > faults /\ alarms' = alarms
      BY <1>20, <1>f DEF Throws, Crash, ghosts
    <2>2. QED
      BY <1>f, <2>1, AlarmQuiet
  <1>21. ASSUME \/ \E r \in Rules : Telemetry(r)
                \/ \E n \in Nodes : Heartbeat(n) \/ GoesOffline(n)
                \/ UNCHANGED vars
         PROVE  AlarmInv'
    <2>1. UNCHANGED <<episode, run, alarms, faults>>
      BY <1>21 DEF Telemetry, Heartbeat, GoesOffline, ghosts, vars
    <2>2. \A r \in Rules : AlarmDue(r)' => AlarmDue(r)
      BY <2>1 DEF AlarmDue
    <2>3. QED
      BY <1>f, <2>1, <2>2, AlarmQuiet
  <1>24. ASSUME TimePasses PROVE AlarmInv'
    <2>1. faults' >= faults /\ alarms' = alarms
      BY <1>24, FaultsGrow DEF TimePasses
    <2>2. run'[Poll].at = run[Poll].at /\ run'[Poll].key = run[Poll].key
      BY <1>24, OnlyOlder DEF Evaluations
    <2>3. \A r \in Rules : episode'[r].l1 = episode[r].l1
      BY <1>24 DEF TimePasses
    <2>4. \A r \in Rules : AlarmDue(r)' => AlarmDue(r)
      BY <2>2, <2>3 DEF AlarmDue
    <2>5. QED
      BY <2>1, <2>4, AlarmQuiet
  <1>26. QED
    BY <1>2, <1>3, <1>4, <1>5, <1>6, <1>7, <1>8, <1>13,
       <1>16, <1>17, <1>19, <1>20, <1>21, <1>24 DEF Next, Evaluate

-----------------------------------------------------------------------------
(* Repeats *)

\* e keeps no more than it kept: what it holds it held, and it gets nowhere
\* without the call that leads there.
Stays(e) ==
  /\ run'[e].age \in {run[e].age, 0}
  /\ Holds(e)' => Holds(e) /\ run'[e].key = run[e].key /\ run'[e].age = run[e].age
  /\ run'[e].at \in {"episode", "send"} => run[e].at \in {"episode", "send"}
  /\ run'[e].at = "send" /\ run'[e].key[1] = "recovery" => run[e].at = "send"
  /\ run'[e].at = "confirm" => run[e].at = "confirm"
  /\ run'[e].at \in {"confirm", "clear"} /\ run'[e].key[1] = "recovery" =>
       run[e].at \in {"confirm", "clear"} /\ run'[e].key = run[e].key

\* e does not drop what it still has to write.
Keeps(e) ==
  /\ At(e, "confirm") => run'[e].at = "confirm" /\ run'[e].key = run[e].key
  /\ run[e].at \in {"confirm", "clear"} /\ run[e].key[1] = "recovery" =>
       run'[e].at \in {"confirm", "clear"} /\ run'[e].key = run[e].key

LEMMA QuietHeld ==
  ASSUME TypeOK, HeldInv, UNCHANGED <<fired, reserved, told>>,
         \A e \in Evaluations : Stays(e)
  PROVE  HeldInv'
  <1>1. ASSUME NEW e \in Evaluations PROVE run'[e].age < TTL
    BY AlertConstants, RunFacts DEF HeldInv, Stays
  <1>2. ASSUME NEW e \in Evaluations, Holds(e)' PROVE Kept(e)'
    <2>1. /\ Kept(e) /\ run'[e].key = run[e].key /\ run'[e].age = run[e].age
          /\ run'[e].at \in {"episode", "send"} => run[e].at \in {"episode", "send"}
          /\ run'[e].at = "send" /\ run'[e].key[1] = "recovery" => run[e].at = "send"
          /\ run'[e].at = "confirm" => run[e].at = "confirm"
      BY <1>2 DEF HeldInv, Stays
    <2>2. QED
      BY <2>1 DEF Kept, At, Now
  <1>3. ASSUME NEW e \in Evaluations, run'[e].at \in {"confirm", "clear"}, run'[e].key[1] = "recovery"
        PROVE  told'[Outage(run'[e].key)] = Never
    BY <1>3 DEF HeldInv, Stays
  <1>4. ASSUME NEW e \in Evaluations, NEW f \in Evaluations, Holds(e)', Holds(f)', run'[e].key = run'[f].key
        PROVE  e = f
    BY <1>4 DEF HeldInv, Stays
  <1>5. QED
    BY <1>1, <1>2, <1>3, <1>4 DEF HeldInv, Outage

LEMMA QuietDebt ==
  ASSUME TypeOK, TypeOK', DebtInv, UNCHANGED <<fired, told, repeats>>, faults' >= faults,
         faults' > faults \/ \A e \in Evaluations : Keeps(e)
  PROVE  DebtInv'
  <1>1. faults \in Int /\ faults' \in Int /\ \A k \in Keys : repeats[k] \in Int
    BY AlertConstants DEF TypeOK
  <1>2. CASE faults' > faults
    BY <1>1, <1>2 DEF DebtInv
  <1>3. CASE \A e \in Evaluations : Keeps(e)
    <2>1. ASSUME NEW k \in Keys PROVE Unrecorded(k)' => Unrecorded(k)
      BY <1>3 DEF Unrecorded, Keeps, At
    <2>2. ASSUME NEW k \in Keys PROVE Uncleared(k)' => Uncleared(k)
      BY <1>3 DEF Uncleared, Keeps, Outage
    <2>3. QED
      BY <1>1, <2>1, <2>2 DEF DebtInv
  <1>4. QED
    BY <1>2, <1>3

\* A step of one evaluation that changes none of the keys.
LEMMA QuietStep ==
  ASSUME TypeOK, TypeOK', HeldInv, DebtInv, NEW e \in Evaluations,
         \A f \in Evaluations : f # e => run'[f] = run[f],
         UNCHANGED <<fired, reserved, told, repeats, faults>>, Stays(e), Keeps(e)
  PROVE  HeldInv' /\ DebtInv'
  <1>1. \A f \in Evaluations : Stays(f) /\ Keeps(f)
    BY DEF Stays, Keeps, At, Holds
  <1>2. faults' >= faults
    BY AlertConstants DEF TypeOK
  <1>3. QED
    BY <1>1, <1>2, QuietHeld, QuietDebt

LEMMA Reserves ==
  ASSUME TypeOK, TypeOK', RunInv, HeldInv, DebtInv, NEW e \in Evaluations,
         NEW k \in Keys, NEW next \in {"send", "episode"}, NEW todo,
         \A f \in Evaluations : f # e => run'[f] = run[f],
         run[e].at \in {"loop", "l1", "l2"},
         MayReserve(k, Now(e, k)), Reserve(k, Now(e, k)), Goes(e, next, todo, k),
         k[1] = "recovery" => fired[Outage(k)] # Never,
         UNCHANGED <<fired, told, repeats, faults>>
  PROVE  HeldInv' /\ DebtInv'
  <1>1. run'[e].at = next /\ run'[e].key = k /\ run'[e].age = run[e].age
    BY Gone DEF TypeOK
  <1>2. Now(e, k) \in Int /\ 0 <= Now(e, k) /\ Now(e, k) <= run[e].age
    BY RunFacts DEF Now
  <1>3. ASSUME NEW f \in Evaluations, Holds(f)
        PROVE  f # e /\ run[f].key # k /\ reserved'[run[f].key] = reserved[run[f].key]
    <2>1. reserved[run[f].key] # Never /\ reserved[run[f].key] <= run[f].age /\ run[f].age < TTL
      BY <1>3 DEF HeldInv, Kept
    <2>2. run[f].key \in Keys
      BY <1>3, KeyedFacts DEF Holds, Keyed
    <2>3. ~Expired(reserved[run[f].key], Now(e, k))
      BY <1>2, <2>1, <2>2, AlertConstants, RunFacts, LimitFacts DEF Expired, TypeOK, Never
    <2>4. QED
      BY <1>3, <2>2, <2>3 DEF Reserve, MayReserve, Holds
  <1>4. ASSUME NEW f \in Evaluations PROVE run'[f].age < TTL
    BY <1>1 DEF HeldInv
  <1>5. Kept(e)'
    <2>1. reserved'[k] = Now(e, k) /\ Now(e, k)' = Now(e, k)
      BY <1>1 DEF Reserve, Now
    <2>2. QED
      BY <1>1, <1>2, <2>1 DEF Kept, MayReserve, Never, At, CoolAgain
  <1>6. ASSUME NEW f \in Evaluations, f # e, Holds(f)' PROVE Kept(f)'
    <2>1. Holds(f) /\ Kept(f) /\ run'[f] = run[f]
      BY <1>6 DEF HeldInv, Holds
    <2>2. reserved'[run[f].key] = reserved[run[f].key]
      BY <1>3, <2>1
    <2>3. QED
      BY <2>1, <2>2 DEF Kept, At, Now, CoolAgain
  <1>7. ASSUME NEW f \in Evaluations, run'[f].at \in {"confirm", "clear"}, run'[f].key[1] = "recovery"
        PROVE  told'[Outage(run'[f].key)] = Never
    BY <1>1, <1>7 DEF HeldInv
  <1>8. ASSUME NEW f \in Evaluations, NEW g \in Evaluations, Holds(f)', Holds(g)', run'[f].key = run'[g].key
        PROVE  f = g
    <2>1. \A h \in Evaluations : h # e /\ Holds(h)' => Holds(h) /\ run'[h].key = run[h].key /\ run[h].key # k
      BY <1>3 DEF Holds
    <2>2. QED
      BY <1>1, <1>8, <2>1 DEF HeldInv
  <1>9. HeldInv'
    BY <1>4, <1>5, <1>6, <1>7, <1>8 DEF HeldInv, Outage
  <1>10. DebtInv'
    <2>1. \A f \in Evaluations : Keeps(f)
      BY DEF Keeps, At
    <2>2. faults' >= faults
      BY AlertConstants DEF TypeOK
    <2>3. QED
      BY <2>1, <2>2, QuietDebt
  <1>11. QED
    BY <1>9, <1>10

\* A message that is about to be sent is a repeat only if a fault is not yet
\* paid for.
LEMMA RepeatOwed ==
  ASSUME TypeOK, RunInv, HeldInv, DebtInv, NEW e \in Evaluations, At(e, "send"), Arrives(e)
  PROVE  repeats'[run[e].key] <= faults
  <1> DEFINE k == run[e].key
             repeat == \/ told[k] # Never /\ told[k] - Now(e, k) < Cooldown
                       \/ k[1] = "recovery" /\ told[Outage(k)] = Never
  <1>1. repeats' = [repeats EXCEPT ![k] = IF repeat THEN @ + 1 ELSE @]
    BY DEF Arrives, Outage
  <1>2. /\ k \in Keys /\ k = <<k[1], k[2]>>
        /\ k[1] \in {"offline", "recovery"} => e = Poll
    BY KeyedFacts, KeyFacts DEF At, Keyed, RunInv, RunOK
  <1>3. Holds(e) /\ Kept(e) /\ Now(e, k) \in Int /\ Now(e, k) >= 0
    BY RunFacts DEF Holds, At, HeldInv, Now
  <1>4. ASSUME NEW f \in Evaluations, Holds(f), f # e PROVE run[f].key # k
    BY <1>3, <1>4 DEF HeldInv
  <1>5. ASSUME told[k] # Never, told[k] - Now(e, k) < Cooldown PROVE Unrecorded(k)
    <2>1. fired[k] = Never \/ fired[k] > told[k]
      <3>1. fired[k] = Never \/ fired[k] - Now(e, k) >= Cooldown
        BY <1>3 DEF Kept, CoolAgain, At
      <3>2. fired[k] \in Int /\ told[k] \in Int /\ Cooldown \in Int
        BY <1>2, LimitFacts, AlertConstants DEF TypeOK, Never
      <3>3. QED
        BY <1>3, <1>5, <3>1, <3>2
    <2>2. ASSUME NEW f \in Evaluations PROVE ~(At(f, "confirm") /\ run[f].key = k)
      BY <1>4 DEF At, Holds
    <2>3. QED
      BY <1>5, <2>1, <2>2 DEF Unrecorded
  <1>6. ASSUME k[1] = "recovery", told[Outage(k)] = Never PROVE Uncleared(k)
    <2>1. fired[Outage(k)] # Never
      BY <1>3, <1>6 DEF Kept
    <2>2. ASSUME NEW f \in Evaluations PROVE ~(run[f].at \in {"confirm", "clear"} /\ run[f].key = k)
      <3>1. run[f].key = k => f = e
        BY <1>2, <1>6, KeyFacts DEF RunInv, RunOK
      <3>2. QED
        BY <3>1 DEF At
    <2>3. QED
      BY <1>6, <2>1, <2>2 DEF Uncleared
  <1>7. faults \in Int /\ repeats[k] \in Int
    BY <1>2, AlertConstants DEF TypeOK
  <1>8. QED
    BY <1>1, <1>2, <1>5, <1>6, <1>7 DEF DebtInv, TypeOK

LEMMA Sends ==
  ASSUME TypeOK, TypeOK', RunInv, HeldInv, DebtInv, NEW e \in Evaluations, SendSucceeds(e)
  PROVE  HeldInv' /\ DebtInv'
  <1> DEFINE k == run[e].key
             repeat == \/ told[k] # Never /\ told[k] - Now(e, k) < Cooldown
                       \/ k[1] = "recovery" /\ told[Outage(k)] = Never
  <1>1. /\ At(e, "send") /\ UNCHANGED <<fired, reserved, faults>>
        /\ Goes(e, "confirm", run[e].todo, k)
        /\ told' = [x \in Keys |-> IF x = k THEN Now(e, k)
                                   ELSE IF k[1] = "recovery" /\ x = Outage(k) THEN Never ELSE told[x]]
        /\ repeats' = [repeats EXCEPT ![k] = IF repeat THEN @ + 1 ELSE @]
    BY DEF SendSucceeds, Arrives, Moves, Outage, file
  <1>2. /\ run'[e].at = "confirm" /\ run'[e].key = k /\ run'[e].age = run[e].age
        /\ \A f \in Evaluations : f # e => run'[f] = run[f]
    BY <1>1, Gone DEF TypeOK
  <1>3. /\ k \in Keys /\ k = <<k[1], k[2]>>
        /\ k[1] \in {"offline", "recovery"} => e = Poll
    BY <1>1, KeyedFacts, KeyFacts DEF At, Keyed, RunInv, RunOK
  <1>4. Holds(e) /\ Kept(e) /\ Now(e, k) \in Int /\ Now(e, k) >= 0
    BY <1>1, RunFacts DEF Holds, At, HeldInv, Now
  <1>5. ASSUME NEW f \in Evaluations, Holds(f), f # e PROVE run[f].key # k
    BY <1>4, <1>5 DEF HeldInv
  <1>6. ASSUME NEW f \in Evaluations, run[f].key[1] \in {"offline", "recovery"}, k[1] \in {"offline", "recovery"}
        PROVE  f = e
    BY <1>3, <1>6, KeyFacts DEF RunInv, RunOK
  <1>7. \A x \in Keys : told[x] \in Int
    BY LimitFacts DEF TypeOK, Never
  <1>8. HeldInv'
    <2>1. ASSUME NEW f \in Evaluations PROVE run'[f].age < TTL
      BY <1>2 DEF HeldInv
    <2>2. Kept(e)'
      <3>1. told'[k] = Now(e, k) /\ Now(e, k)' = Now(e, k)
        BY <1>1, <1>2, <1>3 DEF Now
      <3>2. QED
        BY <1>1, <1>2, <1>4, <3>1 DEF Kept, At
    <2>3. ASSUME NEW f \in Evaluations, f # e, Holds(f)' PROVE Kept(f)'
      <3>1. Holds(f) /\ Kept(f) /\ run'[f] = run[f] /\ run[f].key # k
        BY <1>2, <1>5, <2>3 DEF HeldInv, Holds
      <3>2. told'[run[f].key] = told[run[f].key]
        <4>1. run[f].key \in Keys
          BY <3>1, KeyedFacts DEF Holds, Keyed
        <4>2. ~(k[1] = "recovery" /\ run[f].key = Outage(k))
          BY <1>6, <2>3 DEF Outage
        <4>3. QED
          BY <1>1, <3>1, <4>1, <4>2
      <3>3. QED
        BY <1>1, <3>1, <3>2 DEF Kept, At, Now, CoolAgain
    <2>4. ASSUME NEW f \in Evaluations, run'[f].at \in {"confirm", "clear"}, run'[f].key[1] = "recovery"
          PROVE  told'[Outage(run'[f].key)] = Never
      <3>1. CASE f = e
        <4>1. Outage(k) \in Keys /\ Outage(k) # k
          BY <1>2, <1>3, <2>4, <3>1, KeyFacts DEF Outage
        <4>2. QED
          BY <1>1, <1>2, <2>4, <3>1, <4>1
      <3>2. CASE f # e
        <4>1. run[f].at \in {"confirm", "clear"} /\ run[f].key[1] = "recovery" /\ run'[f] = run[f]
          BY <1>2, <2>4, <3>2
        <4>2. told[Outage(run[f].key)] = Never
          BY <4>1 DEF HeldInv
        <4>3. Outage(run[f].key) \in Keys
          BY <4>1, KeyedFacts, KeyFacts DEF Outage, Keyed
        <4>4. Outage(run[f].key) # k
          BY <1>6, <3>2, <4>1 DEF Outage
        <4>5. QED
          BY <1>1, <4>1, <4>2, <4>3, <4>4
      <3>3. QED
        BY <3>1, <3>2
    <2>5. ASSUME NEW f \in Evaluations, NEW g \in Evaluations, Holds(f)', Holds(g)', run'[f].key = run'[g].key
          PROVE  f = g
      BY <1>2, <1>4, <2>5 DEF HeldInv, Holds
    <2>6. QED
      BY <2>1, <2>2, <2>3, <2>4, <2>5 DEF HeldInv, Outage
  <1>9. DebtInv'
    <2>1. faults \in Int /\ \A x \in Keys : repeats[x] \in Int
      BY AlertConstants DEF TypeOK
    <2>2. ~Unrecorded(k)' /\ ~Uncleared(k)'
      BY <1>2 DEF Unrecorded, Uncleared, At
    <2>4. repeats'[k] <= faults
      BY <1>1, RepeatOwed DEF SendSucceeds
    <2>5. ASSUME NEW x \in Keys, x # k
          PROVE  repeats'[x] = repeats[x] /\ (Unrecorded(x)' => Unrecorded(x)) /\ (Uncleared(x)' => Uncleared(x))
      <3>1. repeats'[x] = repeats[x] /\ told'[x] \in {told[x], Never}
        BY <1>1, <2>5 DEF TypeOK
      <3>2. Unrecorded(x)' => Unrecorded(x)
        BY <1>1, <1>2, <2>5, <3>1 DEF Unrecorded, At
      <3>3. ASSUME Uncleared(x)' PROVE Uncleared(x)
        <4>1. x = <<"recovery", x[2]>> /\ Outage(x) \in Keys
          BY <3>3, KeyFacts DEF Uncleared, Outage
        <4>2. told'[Outage(x)] = Never
          BY <3>3 DEF Uncleared, Outage
        <4>3. k[1] = "recovery" => Outage(x) # Outage(k)
          BY <1>3, <2>5, <4>1 DEF Outage
        <4>4. told[Outage(x)] = Never
          BY <1>1, <1>4, <4>1, <4>2, <4>3 DEF Never
        <4>5. QED
          BY <1>1, <1>2, <2>5, <3>3, <4>4 DEF Uncleared, Outage
      <3>4. QED
        BY <3>1, <3>2, <3>3
    <2>6. ASSUME NEW x \in Keys
          PROVE  repeats'[x] <= faults' /\ (Unrecorded(x)' \/ Uncleared(x)' => repeats'[x] < faults')
      <3>1. CASE x = k
        <4>1. ~Unrecorded(x)' /\ ~Uncleared(x)'
          BY <1>2, <2>2, <3>1 DEF Unrecorded, Uncleared
        <4>2. QED
          BY <1>1, <2>4, <3>1, <4>1
      <3>2. CASE x # k
        BY <1>1, <2>5, <3>2 DEF DebtInv
      <3>3. QED
        BY <3>1, <3>2
    <2>7. QED
      BY <2>6 DEF DebtInv
  <1>10. QED
    BY <1>8, <1>9

LEMMA Loses ==
  ASSUME TypeOK, TypeOK', RunInv, HeldInv, DebtInv, NEW e \in Evaluations, ReplyLost(e)
  PROVE  HeldInv' /\ DebtInv'
  <1> DEFINE k == run[e].key
  <1>1. /\ At(e, "send") /\ UNCHANGED <<fired, reserved>> /\ faults' = faults + 1
        /\ told' = [x \in Keys |-> IF x = k THEN Now(e, k)
                                   ELSE IF k[1] = "recovery" /\ x = Outage(k) THEN Never ELSE told[x]]
        /\ \A x \in Keys : x # k => repeats'[x] = repeats[x]
    BY DEF ReplyLost, Arrives, Outage, file, TypeOK
  <1>2. /\ run'[e] \in {run[e], Idle}
        /\ \A f \in Evaluations : f # e => run'[f] = run[f]
    BY Alone DEF ReplyLost, TypeOK
  <1>3. /\ k \in Keys /\ k = <<k[1], k[2]>>
        /\ k[1] \in {"offline", "recovery"} => e = Poll
    BY <1>1, KeyedFacts, KeyFacts DEF At, Keyed, RunInv, RunOK
  <1>4. Holds(e) /\ Kept(e)
    BY <1>1 DEF Holds, At, HeldInv
  <1>5. ASSUME NEW f \in Evaluations, run[f].key[1] \in {"offline", "recovery"}, k[1] \in {"offline", "recovery"}
        PROVE  f = e
    BY <1>3, <1>5, KeyFacts DEF RunInv, RunOK
  <1>6. ASSUME NEW f \in Evaluations PROVE run'[f].age < TTL
    <2>1. Idle.age = 0
      BY DEF Idle
    <2>2. QED
      BY <1>2, <2>1, AlertConstants DEF HeldInv
  <1>7. ASSUME NEW f \in Evaluations, Holds(f)' PROVE Holds(f) /\ run'[f] = run[f]
    BY <1>2, <1>7 DEF Holds, Idle
  <1>8. ASSUME NEW f \in Evaluations, Holds(f)' PROVE Kept(f)'
    <2>1. Holds(f) /\ Kept(f) /\ run'[f] = run[f]
      BY <1>7, <1>8 DEF HeldInv
    <2>2. CASE f = e
      BY <1>1, <2>1, <2>2 DEF Kept, At, Now, CoolAgain
    <2>3. CASE f # e
      <3>1. run[f].key \in Keys /\ run[f].key # k
        BY <1>4, <2>1, <2>3, KeyedFacts DEF HeldInv, Holds, Keyed
      <3>2. ~(k[1] = "recovery" /\ run[f].key = Outage(k))
        BY <1>5, <2>3 DEF Outage
      <3>3. told'[run[f].key] = told[run[f].key]
        BY <1>1, <3>1, <3>2
      <3>4. QED
        BY <1>1, <2>1, <3>3 DEF Kept, At, Now, CoolAgain
    <2>4. QED
      BY <2>2, <2>3
  <1>9. ASSUME NEW f \in Evaluations, run'[f].at \in {"confirm", "clear"}, run'[f].key[1] = "recovery"
        PROVE  told'[Outage(run'[f].key)] = Never
    <2>1. run'[f] = run[f] /\ f # e
      BY <1>1, <1>2, <1>9 DEF Idle, At
    <2>2. told[Outage(run[f].key)] = Never
      BY <1>9, <2>1 DEF HeldInv
    <2>3. Outage(run[f].key) \in Keys
      BY <1>9, <2>1, KeyedFacts, KeyFacts DEF Outage, Keyed
    <2>4. Outage(run[f].key) # k
      BY <1>5, <1>9, <2>1 DEF Outage
    <2>5. QED
      BY <1>1, <2>1, <2>2, <2>3, <2>4
  <1>10. ASSUME NEW f \in Evaluations, NEW g \in Evaluations, Holds(f)', Holds(g)', run'[f].key = run'[g].key
         PROVE  f = g
    BY <1>7, <1>10 DEF HeldInv
  <1>11. HeldInv'
    BY <1>6, <1>8, <1>9, <1>10 DEF HeldInv, Outage
  <1>12. DebtInv'
    <2>1. faults \in Int /\ \A x \in Keys : repeats[x] \in Int /\ repeats'[x] \in Int
      BY AlertConstants DEF TypeOK
    <2>2. repeats'[k] <= faults
      BY <1>1, RepeatOwed DEF ReplyLost
    <2>3. ASSUME NEW x \in Keys PROVE repeats'[x] <= faults
      BY <1>1, <2>2 DEF DebtInv
    <2>4. QED
      BY <1>1, <2>1, <2>3 DEF DebtInv
  <1>13. QED
    BY <1>11, <1>12

LEMMA Confirms ==
  ASSUME TypeOK, TypeOK', RunInv, HeldInv, DebtInv, NEW e \in Evaluations, Confirm(e)
  PROVE  HeldInv' /\ DebtInv'
  <1> DEFINE key == run[e].key
  <1>k. PICK k \in Keys : k = key
    BY KeyedFacts DEF Confirm, At, Keyed
  <1>1. /\ At(e, "confirm") /\ UNCHANGED <<told, repeats, faults>>
        /\ fired' = [fired EXCEPT ![k] = Now(e, k)]
        /\ reserved' = [reserved EXCEPT ![k] = Never]
    BY <1>k DEF Confirm, ConfirmFired, ghosts
  <1>2. /\ ~Holds(e)' /\ run'[e].age = run[e].age /\ run'[e].at # "confirm"
        /\ run'[e].at \in {"confirm", "clear"} => run'[e].key = k
        /\ k[1] = "recovery" => run'[e].at = "clear" /\ run'[e].key = k
    <2>1. \E todo, x : \E where \in {"markL1", "markL2", "clear", "loop"} :
            /\ Goes(e, where, todo, x)
            /\ where = "clear" => x = k
            /\ k[1] = "recovery" => where = "clear"
      BY <1>k DEF Confirm, AfterConfirm, Done, Moves, PassOver
    <2>2. QED
      BY <2>1, Gone DEF TypeOK, Holds
  <1>3. \A f \in Evaluations : f # e => run'[f] = run[f]
    BY Alone DEF Evaluate
  <1>4. k = <<k[1], k[2]>>
    BY KeyFacts
  <1>5. /\ Kept(e) /\ Now(e, k) \in Int /\ Now(e, k) >= 0 /\ told[k] >= Now(e, k)
        /\ \A f \in Evaluations : Holds(f) /\ f # e => run[f].key # k
    BY <1>k, <1>1, RunFacts DEF Holds, At, HeldInv, Now, Kept
  <1>6. /\ fired'[k] = Now(e, k)
        /\ \A x \in Keys : x # k => fired'[x] = fired[x] /\ reserved'[x] = reserved[x]
    BY <1>1 DEF TypeOK
  <1>7. HeldInv'
    <2>1. ASSUME NEW f \in Evaluations PROVE run'[f].age < TTL
      BY <1>2, <1>3 DEF HeldInv
    <2>2. ASSUME NEW f \in Evaluations, Holds(f)' PROVE Kept(f)'
      <3>1. f # e
        BY <1>2, <2>2
      <3>2. Holds(f) /\ Kept(f) /\ run'[f] = run[f] /\ run[f].key # k
        BY <1>3, <1>5, <2>2, <3>1 DEF HeldInv, Holds
      <3>3. run[f].key \in Keys
        BY <3>2, KeyedFacts DEF Holds, Keyed
      <3>4. fired'[run[f].key] = fired[run[f].key] /\ reserved'[run[f].key] = reserved[run[f].key]
        BY <1>6, <3>2, <3>3
      <3>5. run[f].key[1] = "recovery" /\ At(f, "send") => fired'[Outage(run[f].key)] # Never
        <4> SUFFICES ASSUME run[f].key[1] = "recovery", At(f, "send")
                     PROVE  fired'[Outage(run[f].key)] # Never
          OBVIOUS
        <4>1. Outage(run[f].key) \in Keys
          BY <3>2, KeyedFacts, KeyFacts DEF Outage, Holds, Keyed
        <4>2. fired[Outage(run[f].key)] # Never
          BY <3>2 DEF Kept
        <4>3. QED
          BY <1>5, <1>6, <4>1, <4>2 DEF Never
      <3>6. QED
        BY <1>1, <3>2, <3>4, <3>5 DEF Kept, At, Now, CoolAgain, Outage
    <2>3. ASSUME NEW f \in Evaluations, run'[f].at \in {"confirm", "clear"}, run'[f].key[1] = "recovery"
          PROVE  told'[Outage(run'[f].key)] = Never
      BY <1>k, <1>1, <1>2, <1>3, <2>3 DEF HeldInv, At
    <2>4. ASSUME NEW f \in Evaluations, NEW g \in Evaluations, Holds(f)', Holds(g)', run'[f].key = run'[g].key
          PROVE  f = g
      BY <1>2, <1>3, <2>4 DEF HeldInv, Holds
    <2>5. QED
      BY <2>1, <2>2, <2>3, <2>4 DEF HeldInv, Outage
  <1>8. ASSUME NEW x \in Keys
        PROVE  (Unrecorded(x)' => Unrecorded(x)) /\ (Uncleared(x)' => Uncleared(x))
    <2>1. fired'[k] # Never /\ ~(fired'[k] > told[k]) /\ told[k] # Never
      <3>1. told[k] \in Int
        BY LimitFacts DEF TypeOK, Never
      <3>2. QED
        BY <1>5, <1>6, <3>1 DEF Never
    <2>2. Unrecorded(x)' => x # k
      BY <1>1, <2>1 DEF Unrecorded
    <2>3. ASSUME Unrecorded(x)' PROVE Unrecorded(x)
      BY <1>k, <1>1, <1>3, <1>6, <2>2, <2>3 DEF Unrecorded, At
    <2>4. ASSUME Uncleared(x)' PROVE Uncleared(x)
      <3>1. x[1] = "recovery" /\ Outage(x) \in Keys /\ told[Outage(x)] = Never /\ fired'[Outage(x)] # Never
        BY <1>1, <2>4, KeyFacts DEF Uncleared, Outage
      <3>2. fired[Outage(x)] # Never
        BY <1>6, <2>1, <3>1
      <3>3. ASSUME NEW f \in Evaluations, run[f].at \in {"confirm", "clear"}, run[f].key = x
            PROVE  FALSE
        <4>1. run'[f].at \in {"confirm", "clear"} /\ run'[f].key = x
          BY <1>k, <1>2, <1>3, <3>1, <3>3
        <4>2. QED
          BY <2>4, <4>1 DEF Uncleared
      <3>4. QED
        BY <3>1, <3>2, <3>3 DEF Uncleared
    <2>5. QED
      BY <2>3, <2>4
  <1>9. DebtInv'
    BY <1>1, <1>8 DEF DebtInv
  <1>10. QED
    BY <1>7, <1>9

LEMMA Releases ==
  ASSUME TypeOK, TypeOK', RunInv, HeldInv, DebtInv, NEW e \in Evaluations, Release(e)
  PROVE  HeldInv' /\ DebtInv'
  <1>k. PICK k \in Keys : k = run[e].key
    BY KeyedFacts DEF Release, At, Keyed
  <1>1. /\ At(e, "release") /\ UNCHANGED <<fired, told, repeats, faults>>
        /\ reserved' = [reserved EXCEPT ![k] = Never]
    BY <1>k DEF Release, ReleaseReservation, ghosts
  <1>2. ~Holds(e)' /\ run'[e].age = run[e].age /\ run'[e].at \in {"l2", "loop"}
    <2>1. \E todo, x : \E where \in {"l2", "loop"} : Goes(e, where, todo, x)
      BY DEF Release, Done, Moves, PassOver
    <2>2. QED
      BY <2>1, Gone DEF TypeOK, Holds
  <1>3. \A f \in Evaluations : f # e => run'[f] = run[f]
    BY Alone DEF Evaluate
  <1>4. \A f \in Evaluations : Holds(f) /\ f # e => run[f].key # k
    BY <1>k, <1>1 DEF Holds, At, HeldInv
  <1>5. \A x \in Keys : x # k => reserved'[x] = reserved[x]
    BY <1>1 DEF TypeOK
  <1>6. HeldInv'
    <2>1. ASSUME NEW f \in Evaluations PROVE run'[f].age < TTL
      BY <1>2, <1>3 DEF HeldInv
    <2>2. ASSUME NEW f \in Evaluations, Holds(f)' PROVE Kept(f)'
      <3>1. Holds(f) /\ Kept(f) /\ run'[f] = run[f] /\ run[f].key # k
        BY <1>2, <1>3, <1>4, <2>2 DEF HeldInv, Holds
      <3>2. reserved'[run[f].key] = reserved[run[f].key]
        BY <1>5, <3>1, KeyedFacts DEF Holds, Keyed
      <3>3. QED
        BY <1>1, <3>1, <3>2 DEF Kept, At, Now, CoolAgain, Outage
    <2>3. ASSUME NEW f \in Evaluations, run'[f].at \in {"confirm", "clear"}, run'[f].key[1] = "recovery"
          PROVE  told'[Outage(run'[f].key)] = Never
      BY <1>1, <1>2, <1>3, <2>3 DEF HeldInv
    <2>4. ASSUME NEW f \in Evaluations, NEW g \in Evaluations, Holds(f)', Holds(g)', run'[f].key = run'[g].key
          PROVE  f = g
      BY <1>2, <1>3, <2>4 DEF HeldInv, Holds
    <2>5. QED
      BY <2>1, <2>2, <2>3, <2>4 DEF HeldInv, Outage
  <1>7. DebtInv'
    <2>1. \A f \in Evaluations : Keeps(f)
      BY <1>1, <1>3 DEF Keeps, At
    <2>2. faults' >= faults
      BY <1>1, AlertConstants DEF TypeOK
    <2>3. QED
      BY <1>1, <2>1, <2>2, QuietDebt
  <1>8. QED
    BY <1>6, <1>7

\* The record of an outage goes when its end was told and nobody else deals
\* with the node.
LEMMA Clears ==
  ASSUME TypeOK, TypeOK', RunInv, HeldInv, DebtInv, NEW e \in Evaluations, ClearOffline(e)
  PROVE  HeldInv' /\ DebtInv'
  <1>k. PICK k \in Keys : k = run[e].key /\ k[1] = "recovery" /\ k = <<k[1], k[2]>> /\ e = Poll
    BY KeyedFacts, KeyFacts DEF ClearOffline, At, Keyed, RunInv, RunOK
  <1>o. PICK o \in Keys : o = Outage(k) /\ o[1] = "offline"
    BY <1>k, KeyFacts DEF Outage
  <1>1. /\ At(e, "clear") /\ UNCHANGED <<told, repeats, faults>>
        /\ fired' = [fired EXCEPT ![o] = Never]
        /\ reserved' = [reserved EXCEPT ![o] = Never]
        /\ told[o] = Never
    BY <1>k, <1>o DEF ClearOffline, ClearCooldown, ghosts, Outage, HeldInv, At
  <1>2. ~Holds(e)' /\ run'[e].age = run[e].age /\ run'[e].at = "loop"
    BY Gone DEF ClearOffline, Done, PassOver, TypeOK, Holds
  <1>3. \A f \in Evaluations : f # e => run'[f] = run[f]
    BY Alone DEF Evaluate
  <1>4. ASSUME NEW f \in Evaluations, f # e, run[f].at \notin {"idle", "loop"}
        PROVE  run[f].key \in Keys /\ run[f].key # o /\ run[f].key[1] = "threshold"
    BY <1>k, <1>o, <1>4, KeyedFacts, KeyFacts DEF RunInv, RunOK, Keyed
  <1>5. fired'[o] = Never /\ \A x \in Keys : x # o => fired'[x] = fired[x] /\ reserved'[x] = reserved[x]
    BY <1>1 DEF TypeOK
  <1>6. HeldInv'
    <2>1. ASSUME NEW f \in Evaluations PROVE run'[f].age < TTL
      BY <1>2, <1>3 DEF HeldInv
    <2>2. ASSUME NEW f \in Evaluations, Holds(f)' PROVE Kept(f)'
      <3>1. Holds(f) /\ Kept(f) /\ run'[f] = run[f] /\ f # e
        BY <1>2, <1>3, <2>2 DEF HeldInv, Holds
      <3>2. /\ reserved'[run[f].key] = reserved[run[f].key] /\ fired'[run[f].key] = fired[run[f].key]
            /\ run[f].key[1] = "threshold"
        BY <1>4, <1>5, <3>1 DEF Holds
      <3>3. QED
        BY <1>1, <3>1, <3>2 DEF Kept, At, Now, CoolAgain, Outage
    <2>3. ASSUME NEW f \in Evaluations, run'[f].at \in {"confirm", "clear"}, run'[f].key[1] = "recovery"
          PROVE  told'[Outage(run'[f].key)] = Never
      BY <1>1, <1>2, <1>3, <2>3 DEF HeldInv
    <2>4. ASSUME NEW f \in Evaluations, NEW g \in Evaluations, Holds(f)', Holds(g)', run'[f].key = run'[g].key
          PROVE  f = g
      BY <1>2, <1>3, <2>4 DEF HeldInv, Holds
    <2>5. QED
      BY <2>1, <2>2, <2>3, <2>4 DEF HeldInv, Outage
  <1>7. ASSUME NEW x \in Keys
        PROVE  (Unrecorded(x)' => Unrecorded(x)) /\ (Uncleared(x)' => Uncleared(x))
    <2>1. ASSUME Unrecorded(x)' PROVE Unrecorded(x)
      BY <1>1, <1>3, <1>5, <2>1 DEF Unrecorded, At
    <2>2. ASSUME Uncleared(x)' PROVE Uncleared(x)
      <3>1. x = <<"recovery", x[2]>> /\ Outage(x) \in Keys /\ Outage(x) # o
        BY <1>5, <2>2, KeyFacts DEF Uncleared, Outage
      <3>2. x # k
        BY <1>o, <3>1
      <3>3. QED
        BY <1>k, <1>1, <1>3, <1>5, <2>2, <3>1, <3>2 DEF Uncleared, Outage
    <2>3. QED
      BY <2>1, <2>2
  <1>8. DebtInv'
    BY <1>1, <1>7 DEF DebtInv
  <1>9. QED
    BY <1>6, <1>8

LEMMA OlderFacts ==
  ASSUME NEW limit \in Nat, NEW age \in Never..limit
  PROVE  /\ age = Never <=> Older(age, limit) = Never
         /\ age # Never => /\ Older(age, limit) >= age /\ Older(age, limit) <= age + 1
                           /\ age = limit \/ Older(age, limit) = age + 1
                           /\ Older(age, limit) <= limit
         /\ \A other \in Never..limit :
              age <= other => Older(age, limit) <= Older(other, limit)
  BY DEF Older, Never

LEMMA Ages ==
  ASSUME TypeOK, TypeOK', RunInv, HeldInv, DebtInv, TimePasses, ~late'
  PROVE  HeldInv' /\ DebtInv'
  <1> USE AlertConstants
  <1>1. /\ \A k \in Keys : fired'[k] = Older(fired[k], Long) /\ told'[k] = Older(told[k], Long)
        /\ \A k \in Keys : reserved'[k] = Older(reserved[k], Expiry)
        /\ repeats' = repeats /\ faults' = faults
    BY FaultsGrow DEF TimePasses
  <1>2. \A e \in Evaluations : run'[e].at = run[e].at /\ run'[e].key = run[e].key
    BY OnlyOlder
  <1>3. \A k \in Keys : /\ fired[k] \in Never..Long /\ told[k] \in Never..Long
                        /\ reserved[k] \in Never..Expiry
    BY DEF TypeOK
  <1>4. ASSUME NEW e \in Evaluations
        PROVE  /\ run[e].age \in 0..MaxRun /\ run[e].age < TTL
               /\ ~At(e, "idle") => run'[e].age = run[e].age + 1 /\ run'[e].age < TTL /\ run'[e].age <= MaxRun
               /\ At(e, "idle") => run'[e].age = run[e].age
    <2>1. run[e].age \in 0..MaxRun /\ run[e].age < TTL
      BY RunFacts DEF HeldInv
    <2>2. ~At(e, "idle") => run[e].age + 1 # TTL /\ run[e].age < MaxRun
      BY FaultsGrow DEF TimePasses
    <2>3. QED
      BY <2>1, <2>2, OnlyOlder
  <1>5. ASSUME NEW e \in Evaluations, Holds(e)' PROVE Kept(e)'
    <2>1. PICK k \in Keys : k = run[e].key /\ k = run'[e].key
      BY <1>2, <1>5, KeyedFacts DEF Holds, Keyed
    <2>2. Kept(e) /\ ~At(e, "idle")
      BY <1>2, <1>5 DEF Holds, HeldInv, At
    <2>3. reserved'[k] # Never /\ reserved'[k] <= run'[e].age
      <3>1. reserved[k] # Never /\ reserved[k] <= run[e].age
        BY <2>1, <2>2 DEF Kept
      <3>2. reserved'[k] # Never /\ reserved'[k] <= reserved[k] + 1
        BY <1>1, <1>3, <3>1, LimitFacts, OlderFacts
      <3>3. reserved[k] \in Int /\ reserved'[k] \in Int
        BY LimitFacts DEF TypeOK, Never
      <3>4. QED
        BY <1>4, <2>2, <3>1, <3>2, <3>3
    <2>4. /\ Now(e, k) \in 0..MaxRun /\ Now(e, k)' \in 0..MaxRun
          /\ Now(e, k)' \in {Now(e, k), Now(e, k) + 1}
      BY <1>4, <2>2 DEF Now
    <2>5. \A x \in Never..Long : x # Never => x \in 0..Long
      BY LimitFacts DEF Never
    <2>6. CoolAgain(fired[k], Now(e, k)) => CoolAgain(fired'[k], Now(e, k)')
      <3>1. CASE fired[k] = Never
        BY <1>1, <1>3, <3>1, LimitFacts, OlderFacts DEF CoolAgain
      <3>2. CASE fired[k] # Never
        <4>1. fired[k] = Long \/ fired'[k] = fired[k] + 1
          BY <1>1, <1>3, <3>2, LimitFacts, OlderFacts
        <4>2. fired'[k] >= fired[k] /\ fired'[k] <= Long /\ fired[k] \in Int /\ fired'[k] \in Int
          BY <1>1, <1>3, <3>2, LimitFacts, OlderFacts DEF TypeOK, Never
        <4>3. Long - MaxRun = Cooldown
          BY DEF Long
        <4>4. QED
          BY <2>4, <3>2, <4>1, <4>2, <4>3, LimitFacts DEF CoolAgain
      <3>3. QED
        BY <3>1, <3>2
    <2>7. told[k] >= Now(e, k) => told'[k] >= Now(e, k)'
      <3>1. CASE told[k] = Never
        BY <2>4, <3>1 DEF Never
      <3>2. CASE told[k] # Never
        <4>1. told[k] = Long \/ told'[k] = told[k] + 1
          BY <1>1, <1>3, <3>2, LimitFacts, OlderFacts
        <4>2. told'[k] >= told[k] /\ told[k] \in Int /\ told'[k] \in Int
          BY <1>1, <1>3, <3>2, LimitFacts, OlderFacts DEF TypeOK, Never
        <4>3. QED
          BY <2>4, <4>1, <4>2, LimitFacts
      <3>3. QED
        BY <3>1, <3>2
    <2>8. ASSUME k[1] = "recovery", fired[Outage(k)] # Never PROVE fired'[Outage(k)] # Never
      <3>1. Outage(k) \in Keys
        BY <2>8, KeyFacts DEF Outage
      <3>2. QED
        BY <1>1, <1>3, <2>8, <3>1, LimitFacts, OlderFacts
    <2>9. /\ run[e].at \in {"episode", "send"} => CoolAgain(fired[k], Now(e, k))
          /\ At(e, "send") /\ k[1] = "recovery" => fired[Outage(k)] # Never
          /\ At(e, "confirm") => told[k] >= Now(e, k)
      BY <2>1, <2>2 DEF Kept
    <2>10. /\ run'[e].at \in {"episode", "send"} => CoolAgain(fired'[k], Now(e, k)')
           /\ At(e, "send")' /\ k[1] = "recovery" => fired'[Outage(k)] # Never
           /\ At(e, "confirm")' => told'[k] >= Now(e, k)'
      BY <1>2, <2>6, <2>7, <2>8, <2>9 DEF At
    <2>11. QED
      BY <2>1, <2>3, <2>10 DEF Kept, Now, CoolAgain, Outage
  <1>6. HeldInv'
    <2>1. ASSUME NEW e \in Evaluations PROVE run'[e].age < TTL
      BY <1>4
    <2>2. ASSUME NEW e \in Evaluations, run'[e].at \in {"confirm", "clear"}, run'[e].key[1] = "recovery"
          PROVE  told'[Outage(run'[e].key)] = Never
      <3>1. told[Outage(run[e].key)] = Never
        BY <1>2, <2>2 DEF HeldInv
      <3>2. Outage(run[e].key) \in Keys
        BY <1>2, <2>2, KeyedFacts, KeyFacts DEF Outage, Keyed
      <3>3. QED
        BY <1>1, <1>2, <1>3, <3>1, <3>2, LimitFacts, OlderFacts
    <2>3. ASSUME NEW e \in Evaluations, NEW f \in Evaluations, Holds(e)', Holds(f)', run'[e].key = run'[f].key
          PROVE  e = f
      BY <1>2, <2>3 DEF HeldInv, Holds
    <2>4. QED
      BY <1>5, <2>1, <2>2, <2>3 DEF HeldInv, Outage
  <1>7. ASSUME NEW k \in Keys
        PROVE  (Unrecorded(k)' => Unrecorded(k)) /\ (Uncleared(k)' => Uncleared(k))
    <2>1. ASSUME Unrecorded(k)' PROVE Unrecorded(k)
      <3>1. told[k] # Never
        BY <1>1, <1>3, <2>1, LimitFacts, OlderFacts DEF Unrecorded
      <3>2. fired[k] = Never \/ fired[k] > told[k]
        <4> SUFFICES ASSUME fired[k] # Never, ~(fired[k] > told[k]) PROVE FALSE
          OBVIOUS
        <4>1. fired[k] <= told[k]
          BY LimitFacts DEF TypeOK, Never
        <4>2. fired'[k] <= told'[k] /\ fired'[k] # Never
          BY <1>1, <1>3, <4>1, LimitFacts, OlderFacts
        <4>3. fired'[k] \in Int /\ told'[k] \in Int
          BY LimitFacts DEF TypeOK, Never
        <4>4. QED
          BY <2>1, <4>2, <4>3 DEF Unrecorded
      <3>3. QED
        BY <1>2, <2>1, <3>1, <3>2 DEF Unrecorded, At
    <2>2. ASSUME Uncleared(k)' PROVE Uncleared(k)
      <3>1. Outage(k) \in Keys
        BY <2>2, KeyFacts DEF Uncleared, Outage
      <3>2. told[Outage(k)] = Never /\ fired[Outage(k)] # Never
        BY <1>1, <1>3, <2>2, <3>1, LimitFacts, OlderFacts DEF Uncleared, Outage
      <3>3. QED
        BY <1>2, <2>2, <3>2 DEF Uncleared
    <2>3. QED
      BY <2>1, <2>2
  <1>8. DebtInv'
    BY <1>1, <1>7 DEF DebtInv
  <1>9. QED
    BY <1>6, <1>8

\* A step of an evaluation that takes it to a place where it keeps nothing.
LEMMA Leaves ==
  ASSUME TypeOK, RunInv, NEW e \in Evaluations,
         NEW where \in {"loop", "l1", "l2", "markL2", "markL1", "release"}, NEW todo, NEW key,
         Goes(e, where, todo, key), run[e].at \notin {"confirm", "clear"},
         where = "release" => Holds(e) /\ key = run[e].key,
         run' \in [Evaluations -> Runs]
  PROVE  Stays(e) /\ Keeps(e)
  <1>1. run'[e].at = where /\ run'[e].key = key /\ run'[e].age = run[e].age
    BY Gone
  <1>2. QED
    BY <1>1 DEF Stays, Keeps, Holds, At

LEMMA LateStays == [Next]_vars => (late => late')
  <1> USE DEF ghosts
  <1>1. ASSUME NEW e \in Evaluations, Evaluate(e) PROVE (late => late')
    <2>1. CASE Begin(e) \/ End(e) \/ ReserveL1(e) \/ ReserveEpisode(e) \/ MarkL1(e)
      BY <2>1 DEF Begin, End, ReserveL1, ReserveEpisode, MarkL1
    <2>2. CASE \/ ReleaseEpisode(e) \/ ReserveL2(e) \/ MarkL2(e)
               \/ Confirm(e) \/ Release(e) \/ ClearOffline(e)
      BY <2>2 DEF ReleaseEpisode, ReserveL2, MarkL2, Confirm, Release, ClearOffline
    <2>3. ASSUME NEW r \in Rules, EvaluateRule(e, r) \/ TickEpisode(e, r)
          PROVE  (late => late')
      BY <2>3 DEF EvaluateRule, TickEpisode
    <2>4. ASSUME NEW n \in Nodes, EvaluateNode(e, n) PROVE (late => late')
      BY <2>4 DEF EvaluateNode
    <2>5. QED
      BY <1>1, <2>1, <2>2, <2>3, <2>4 DEF Evaluate
  <1>2. ASSUME NEW e \in Evaluations,
               \/ SendSucceeds(e) \/ SendFails(e)
               \/ ReplyLost(e) \/ ConfirmGivesUp(e) \/ Throws(e)
        PROVE  (late => late')
    BY <1>2 DEF SendSucceeds, SendFails, ReplyLost, ConfirmGivesUp, Throws, Arrives
  <1>3. ASSUME \/ \E r \in Rules : Telemetry(r)
               \/ \E n \in Nodes : Heartbeat(n) \/ GoesOffline(n)
               \/ Crash \/ TimePasses \/ UNCHANGED vars
        PROVE  (late => late')
    BY <1>3 DEF Telemetry, Heartbeat, GoesOffline, Crash, TimePasses, vars
  <1>4. QED
    BY <1>1, <1>2, <1>3 DEF Next

LEMMA RepeatNext == TypeOK /\ TypeOK' /\ RunInv /\ RepeatInv /\ [Next]_vars => RepeatInv'
  <1> SUFFICES ASSUME TypeOK, TypeOK', RunInv, RepeatInv, [Next]_vars, ~late'
               PROVE  HeldInv' /\ DebtInv'
    BY DEF RepeatInv
  <1>l. ~late
    BY LateStays
  <1>i. HeldInv /\ DebtInv
    BY <1>l DEF RepeatInv
  <1>t. run' \in [Evaluations -> Runs]
    BY DEF TypeOK
  <1>k. \A e \in Evaluations : RunOK(e)
    BY DEF RunInv
  <1>q. ASSUME NEW e \in Evaluations, Evaluate(e) \/ SendFails(e),
               UNCHANGED <<fired, reserved, told, repeats, faults>>, Stays(e), Keeps(e)
        PROVE  HeldInv' /\ DebtInv'
    BY <1>q, <1>i, Alone, QuietStep
  <1>1. ASSUME NEW e \in Evaluations, Begin(e) PROVE HeldInv' /\ DebtInv'
    <2>1. \E todo : Goes(e, "loop", todo, NoKey)
      BY <1>1 DEF Begin
    <2>2. Stays(e) /\ Keeps(e)
      BY <1>1, <1>t, <2>1, Leaves DEF Begin, At
    <2>3. QED
      BY <1>1, <1>q, <2>2 DEF Begin, Evaluate, file, ghosts
  <1>2. ASSUME NEW e \in Evaluations, End(e) PROVE HeldInv' /\ DebtInv'
    <2>1. run'[e] = Idle /\ At(e, "loop")
      BY <1>2 DEF End, TypeOK
    <2>2. Stays(e) /\ Keeps(e)
      BY <2>1 DEF Stays, Keeps, Idle, Holds, At
    <2>3. QED
      BY <1>2, <1>q, <2>2 DEF End, Evaluate, file, ghosts
  <1>a. ASSUME NEW e \in Evaluations, Evaluate(e), NEW s, NEW k \in Keys, NEW next \in {"send", "episode"},
               Attempt(e, s, k, next), run[e].at \in {"loop", "l1", "l2"},
               k[1] = "recovery" => fired[Outage(k)] # Never,
               UNCHANGED <<fired, told, repeats, faults>>
        PROVE  HeldInv' /\ DebtInv'
    <2>1. CASE MayReserve(k, Now(e, k))
      <3>1. Goes(e, next, run[e].todo, k) /\ Reserve(k, Now(e, k))
        BY <1>a, <2>1 DEF Attempt
      <3>2. QED
        BY <1>a, <1>i, <2>1, <3>1, Alone, Reserves
    <2>2. CASE ~MayReserve(k, Now(e, k))
      <3>1. Goes(e, "loop", run[e].todo \ {s}, NoKey) /\ reserved' = reserved
        BY <1>a, <2>2 DEF Attempt, PassOver
      <3>2. Stays(e) /\ Keeps(e)
        BY <1>a, <1>t, <3>1, Leaves
      <3>3. QED
        BY <1>a, <1>q, <3>1, <3>2
    <2>3. QED
      BY <2>1, <2>2
  <1>p. ASSUME NEW e \in Evaluations, Evaluate(e), NEW s, PassOver(e, s), run[e].at \notin {"confirm", "clear"},
               UNCHANGED <<fired, reserved, told, repeats, faults>>
        PROVE  HeldInv' /\ DebtInv'
    <2>1. Stays(e) /\ Keeps(e)
      BY <1>p, <1>t, Leaves DEF PassOver
    <2>2. QED
      BY <1>p, <1>q, <2>1
  <1>3. ASSUME NEW e \in Evaluations, NEW r \in Rules, EvaluateRule(e, r) PROVE HeldInv' /\ DebtInv'
    <2>1. At(e, "loop") /\ Evaluate(e) /\ UNCHANGED <<fired, told, repeats, faults>>
      BY <1>3 DEF EvaluateRule, Looks, Evaluate, ghosts
    <2>2. <<"threshold", r>> \in Keys
      BY KeyFacts
    <2>3. CASE Attempt(e, r, <<"threshold", r>>, "send")
      BY <1>a, <2>1, <2>2, <2>3 DEF At
    <2>4. CASE PassOver(e, r) /\ UNCHANGED reserved
      BY <1>p, <2>1, <2>4 DEF At
    <2>5. QED
      BY <1>3, <2>3, <2>4 DEF EvaluateRule
  <1>4. ASSUME NEW e \in Evaluations, NEW n \in Nodes, EvaluateNode(e, n) PROVE HeldInv' /\ DebtInv'
    <2>1. At(e, "loop") /\ Evaluate(e) /\ UNCHANGED <<fired, told, repeats, faults>>
      BY <1>4 DEF EvaluateNode, Looks, Evaluate, ghosts
    <2>2. CASE Attempt(e, n, <<"offline", n>>, "send")
      <3>1. <<"offline", n>> \in Keys
        BY KeyFacts
      <3>2. QED
        BY <1>a, <2>1, <2>2, <3>1 DEF At
    <2>3. CASE fired[<<"offline", n>>] # Never /\ Attempt(e, n, <<"recovery", n>>, "send")
      <3>1. <<"recovery", n>> \in Keys /\ Outage(<<"recovery", n>>) = <<"offline", n>>
        BY KeyFacts DEF Outage
      <3>2. QED
        BY <1>a, <2>1, <2>3, <3>1 DEF At
    <2>4. CASE PassOver(e, n) /\ UNCHANGED reserved
      BY <1>p, <2>1, <2>4 DEF At
    <2>5. QED
      BY <1>4, <2>2, <2>3, <2>4 DEF EvaluateNode
  <1>5. ASSUME NEW e \in Evaluations, NEW r \in Rules, TickEpisode(e, r) PROVE HeldInv' /\ DebtInv'
    <2>1. At(e, "loop") /\ Evaluate(e) /\ UNCHANGED <<fired, reserved, told, repeats, faults>>
      BY <1>5 DEF TickEpisode, Looks, Evaluate, file
    <2>2. \E todo, key : \E where \in {"loop", "l1", "l2"} : Goes(e, where, todo, key)
      BY <1>5 DEF TickEpisode, PassOver
    <2>3. Stays(e) /\ Keeps(e)
      BY <1>t, <2>1, <2>2, Leaves DEF At
    <2>4. QED
      BY <1>q, <2>1, <2>3
  <1>6. ASSUME NEW e \in Evaluations, ReserveL1(e) PROVE HeldInv' /\ DebtInv'
    <2>1. /\ At(e, "l1") /\ Evaluate(e) /\ UNCHANGED <<fired, told, repeats, faults>>
          /\ Attempt(e, run[e].key[2], run[e].key, "episode")
      BY <1>6 DEF ReserveL1, Evaluate, ghosts
    <2>2. run[e].key \in Keys /\ run[e].key[1] = "l1"
      BY <1>k, <2>1, KeyedFacts DEF RunOK, Keyed, At
    <2>3. QED
      BY <1>a, <2>1, <2>2 DEF At
  <1>7. ASSUME NEW e \in Evaluations, ReserveEpisode(e) PROVE HeldInv' /\ DebtInv'
    <2>1. /\ At(e, "episode") /\ Evaluate(e) /\ UNCHANGED <<fired, reserved, told, repeats, faults>>
          /\ Goes(e, "send", run[e].todo, run[e].key) /\ run[e].key[1] = "l1"
      BY <1>7, <1>k DEF ReserveEpisode, Evaluate, ghosts, file, Moves, RunOK, At
    <2>2. run'[e].at = "send" /\ run'[e].key = run[e].key /\ run'[e].age = run[e].age
      BY <1>t, <2>1, Gone
    <2>3. Stays(e) /\ Keeps(e)
      BY <2>1, <2>2 DEF Stays, Keeps, Holds, At
    <2>4. QED
      BY <1>q, <2>1, <2>3
  <1>8. ASSUME NEW e \in Evaluations, MarkL1(e) \/ MarkL2(e) \/ ReleaseEpisode(e) \/ SendFails(e)
        PROVE  HeldInv' /\ DebtInv'
    <2>1. /\ run[e].at \in {"markL1", "markL2", "releaseEpisode", "send"} /\ (Evaluate(e) \/ SendFails(e))
          /\ UNCHANGED <<fired, reserved, told, repeats, faults>>
      BY <1>8 DEF MarkL1, MarkL2, ReleaseEpisode, SendFails, Evaluate, ghosts, file, At
    <2>2. CASE MarkL1(e) \/ MarkL2(e)
      <3>1. \E todo, key : \E where \in {"loop", "l2"} : Goes(e, where, todo, key)
        BY <2>2 DEF MarkL1, MarkL2, Done, Moves, PassOver
      <3>2. Stays(e) /\ Keeps(e)
        BY <1>t, <2>1, <3>1, Leaves
      <3>3. QED
        BY <1>q, <2>1, <3>2
    <2>3. CASE ReleaseEpisode(e) \/ SendFails(e)
      <3>1. \E where \in {"release", "releaseEpisode"} : Goes(e, where, run[e].todo, run[e].key)
        BY <2>3 DEF ReleaseEpisode, SendFails, Moves
      <3>2. /\ run'[e].at \in {"release", "releaseEpisode"} /\ run'[e].key = run[e].key
            /\ run'[e].age = run[e].age /\ run[e].at \in {"releaseEpisode", "send"}
        BY <1>t, <2>3, <3>1, Gone DEF ReleaseEpisode, SendFails, At
      <3>3. Stays(e) /\ Keeps(e)
        BY <3>2 DEF Stays, Keeps, Holds, At
      <3>4. QED
        BY <1>q, <2>1, <3>3
    <2>4. QED
      BY <1>8, <2>2, <2>3
  <1>9. ASSUME NEW e \in Evaluations, ReserveL2(e) PROVE HeldInv' /\ DebtInv'
    <2>1. At(e, "l2") /\ Evaluate(e) /\ UNCHANGED <<fired, told, repeats, faults>>
      BY <1>9 DEF ReserveL2, Evaluate, ghosts
    <2>2. run[e].key[2] \in Rules
      BY <1>k, <2>1, KeyedFacts DEF RunOK, Keyed, At
    <2>3. CASE Attempt(e, run[e].key[2], <<"l2", run[e].key[2]>>, "send")
      <3> DEFINE k == <<"l2", run[e].key[2]>>
      <3>1. k \in Keys /\ k[1] = "l2"
        BY <2>2, KeyFacts
      <3>2. Attempt(e, run[e].key[2], k, "send")
        BY <2>3
      <3> HIDE DEF k
      <3>3. QED
        BY <1>a, <2>1, <3>1, <3>2 DEF At
    <2>4. CASE PassOver(e, run[e].key[2]) /\ UNCHANGED reserved
      BY <1>p, <2>1, <2>4 DEF At
    <2>5. QED
      BY <1>9, <2>3, <2>4 DEF ReserveL2
  <1>10. ASSUME NEW e \in Evaluations,
               \/ SendSucceeds(e) \/ ReplyLost(e)
               \/ Confirm(e) \/ Release(e) \/ ClearOffline(e)
         PROVE  HeldInv' /\ DebtInv'
    BY <1>10, <1>i, Sends, Loses, Confirms, Releases, Clears
  <1>11. ASSUME UNCHANGED <<fired, reserved, told, repeats>>, faults' > faults,
                \A e \in Evaluations : Stays(e)
         PROVE  HeldInv' /\ DebtInv'
    <2>1. faults' >= faults
      BY <1>11, AlertConstants DEF TypeOK
    <2>2. QED
      BY <1>11, <1>i, <2>1, QuietHeld, QuietDebt
  <1>12. ASSUME NEW e \in Evaluations, ConfirmGivesUp(e) PROVE HeldInv' /\ DebtInv'
    <2>1. At(e, "confirm") /\ faults' > faults /\ UNCHANGED <<fired, reserved, told, repeats>>
      BY <1>12, AlertConstants DEF ConfirmGivesUp, file, ghosts, TypeOK
    <2>2. \E todo, x : \E where \in {"markL1", "markL2", "clear", "loop"} :
            /\ Goes(e, where, todo, x)
            /\ where = "clear" => x = run[e].key
      BY <1>12 DEF ConfirmGivesUp, AfterConfirm, Done, Moves, PassOver
    <2>3. /\ run'[e].at \in {"markL1", "markL2", "clear", "loop"} /\ run'[e].age = run[e].age
          /\ run'[e].at = "clear" => run'[e].key = run[e].key
      BY <1>t, <2>2, Gone
    <2>4. Stays(e)
      BY <2>1, <2>3 DEF Stays, Holds, At
    <2>5. \A f \in Evaluations : f # e => run'[f] = run[f]
      BY <1>12, Alone
    <2>6. \A f \in Evaluations : Stays(f)
      BY <2>4, <2>5 DEF Stays, Holds
    <2>7. QED
      BY <1>11, <2>1, <2>6
  <1>13. ASSUME (\E e \in Evaluations : Throws(e)) \/ Crash PROVE HeldInv' /\ DebtInv'
    <2>1. faults' > faults /\ UNCHANGED <<fired, reserved, told, repeats>>
      BY <1>13, AlertConstants DEF Throws, Crash, file, ghosts, TypeOK
    <2>2. ASSUME NEW f \in Evaluations PROVE run'[f] = Idle \/ run'[f] = run[f]
      BY <1>13 DEF Throws, Crash, TypeOK
    <2>3. \A f \in Evaluations : Stays(f)
      BY <2>2 DEF Stays, Holds, Idle
    <2>4. QED
      BY <1>11, <2>1, <2>3
  <1>14. ASSUME \/ \E r \in Rules : Telemetry(r)
                \/ \E n \in Nodes : Heartbeat(n) \/ GoesOffline(n)
                \/ UNCHANGED vars
         PROVE  HeldInv' /\ DebtInv'
    <2>1. UNCHANGED <<run, fired, reserved, told, repeats, faults>>
      BY <1>14 DEF Telemetry, Heartbeat, GoesOffline, ghosts, file, vars
    <2>2. \A e \in Evaluations : Stays(e) /\ Keeps(e)
      BY <2>1 DEF Stays, Keeps, Holds, At
    <2>3. faults' >= faults
      BY <2>1, AlertConstants DEF TypeOK
    <2>4. QED
      BY <1>i, <2>1, <2>2, <2>3, QuietHeld, QuietDebt
  <1>15. ASSUME TimePasses PROVE HeldInv' /\ DebtInv'
    BY <1>15, <1>i, Ages
  <1>16. QED
    BY <1>1, <1>2, <1>3, <1>4, <1>5, <1>6, <1>7, <1>8, <1>9, <1>10, <1>12, <1>13, <1>14, <1>15
       DEF Next, Evaluate

-----------------------------------------------------------------------------
(* The theorems *)

Inv == TypeOK /\ RunInv /\ AlarmInv /\ RepeatInv

LEMMA InvInit == Init => Inv
  <1> SUFFICES ASSUME Init PROVE Inv
    OBVIOUS
  <1>1. TypeOK
    BY TypeInit
  <1>2. \A e \in Evaluations : run[e].at = "idle" /\ run[e].key = NoKey /\ run[e].age = 0
    BY DEF Init, Idle
  <1>3. RunInv
    BY <1>2, KeyFacts DEF RunInv, RunOK, At
  <1>4. AlarmInv
    BY AlertConstants DEF Init, AlarmInv
  <1>5. HeldInv
    BY <1>2, AlertConstants DEF HeldInv, Holds
  <1>6. DebtInv
    <2>1. \A k \in Keys : told[k] = Never /\ fired[k] = Never /\ repeats[k] = 0
      BY DEF Init
    <2>2. ASSUME NEW k \in Keys PROVE ~Unrecorded(k) /\ ~Uncleared(k)
      BY <2>1, KeyFacts DEF Unrecorded, Uncleared, Outage
    <2>3. faults = 0
      BY DEF Init
    <2>4. QED
      BY <2>1, <2>2, <2>3 DEF DebtInv
  <1>7. QED
    BY <1>1, <1>3, <1>4, <1>5, <1>6 DEF Inv, RepeatInv

LEMMA InvNext == Inv /\ [Next]_vars => Inv'
  <1> SUFFICES ASSUME Inv, [Next]_vars PROVE Inv'
    OBVIOUS
  <1>1. TypeOK'
    BY TypeNext DEF Inv
  <1>2. QED
    BY <1>1, RunNext, AlarmNext, RepeatNext DEF Inv

LEMMA Invariance == Spec => []Inv
  BY InvInit, InvNext, PTL DEF Spec

\* The files, the evaluations and what users were told have their types: an
\* age never exceeds its limit, no evaluation is at a call its key does not
\* have, and no row is written for an episode that has ended.
THEOREM AlertsTyped == Spec => []TypeOK
  <1>1. Inv => TypeOK
    BY DEF Inv
  <1>2. QED
    BY <1>1, Invariance, PTL

\* While no evaluation outlives its reservations, a message is repeated within
\* its cooldown, and a return told twice, at most once for each fault, a message
\* whose reply was lost among them, for any number of evaluations that overlap
\* (reserveAlertCooldown and confirmAlertFired of alert-state.ts).
THEOREM RepeatsBounded == Spec => []RepeatsNeedFaults
  <1>1. Inv => RepeatsNeedFaults
    BY DEF Inv, RepeatInv, DebtInv, RepeatsNeedFaults
  <1>2. QED
    BY <1>1, Invariance, PTL

\* The first message of an episode arrives once, and once more for each fault
\* at most, also when a reply is lost or an evaluation outlives its
\* reservations (sustained-state.ts).
THEOREM AlarmsBounded == Spec => []OneAlarmPerEpisode
  <1>1. Inv => OneAlarmPerEpisode
    BY DEF Inv, AlarmInv, OneAlarmPerEpisode
  <1>2. QED
    BY <1>1, Invariance, PTL

=============================================================================
