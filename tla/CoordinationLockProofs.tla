------------------------ MODULE CoordinationLockProofs ------------------------
(***************************************************************************)
(* The file lock is a mutex for the callers of one process, between        *)
(* processes it is not (run lock_race); a lock file whose process is gone  *)
(* expires.  Within its lease a holder of the Redis lock is alone.  Both   *)
(* hold of the lock that STATE_BACKEND chooses.                            *)
(***************************************************************************)
EXTENDS CoordinationLock, TLAPS

\* Whoever holds the lock finds its file at the path, and once it works the
\* file bears its pid, which keeps the others away.  A caller that is about to
\* remove the file does so while nobody holds the lock.
LockInv ==
    /\ TypeOK
    /\ \A c, d \in Caller : MidTurn(c) /\ MidTurn(d) => c = d
    /\ \A c \in Caller : Holds(c) =>
         /\ file.present
         /\ file.creator = c
         /\ pc[c] = "work" => file.written
         /\ alive[procOf[c]]
    /\ \A c, d \in Caller : pc[c] \in {"unlink", "reopen"} => ~Holds(d)

LEMMA LockInvInit == Init => LockInv
  BY FileLockConstants DEF Init, LockInv, TypeOK, MidTurn, Holds

LEMMA LockInvNext == OneProcess /\ LockInv /\ [Next]_vars => LockInv'
  <1> SUFFICES ASSUME OneProcess, LockInv, [Next]_vars PROVE LockInv'
    OBVIOUS
  <1> USE FileLockConstants
  <1>f. procOf' = procOf /\ reuse' = reuse
    BY DEF Next, Fixed, vars
  <1>1. ASSUME NEW c \in Caller, Runs(c) PROVE \A d \in Caller \ {c} : ~MidTurn(d)
    BY <1>1 DEF Runs, OneProcess
  <1>2. ASSUME NEW c \in Caller, Create(c) PROVE LockInv'
    BY <1>f, <1>1, <1>2 DEF Create, Runs, Go, Empty, NoFile, File, LockInv, TypeOK, MidTurn, Holds
  <1>3. ASSUME NEW c \in Caller, Exists(c) PROVE LockInv'
    BY <1>f, <1>1, <1>3 DEF Exists, Runs, Go, LockInv, TypeOK, MidTurn, Holds
  <1>4. ASSUME NEW c \in Caller, JudgeStale(c) PROVE LockInv'
    <2>1. \A d \in Caller : ~Holds(d)
      BY <1>f, <1>1, <1>4 DEF JudgeStale, Stale, LockInv, TypeOK, MidTurn, Holds
    <2>2. QED
      BY <1>f, <1>1, <1>4, <2>1 DEF JudgeStale, Runs, Go, LockInv, TypeOK, MidTurn, Holds
  <1>5. ASSUME NEW c \in Caller, Refuse(c) PROVE LockInv'
    BY <1>f, <1>1, <1>5 DEF Refuse, Runs, Go, LockInv, TypeOK, MidTurn, Holds
  <1>6. ASSUME NEW c \in Caller, Reclaim(c) PROVE LockInv'
    BY <1>f, <1>1, <1>6 DEF Reclaim, Runs, Go, LockInv, TypeOK, MidTurn, Holds
  <1>7. ASSUME NEW c \in Caller, Recreate(c) PROVE LockInv'
    BY <1>f, <1>1, <1>7 DEF Recreate, Runs, Go, Empty, NoFile, File, LockInv, TypeOK, MidTurn, Holds
  <1>8. ASSUME NEW c \in Caller, RecreateFails(c) PROVE LockInv'
    BY <1>f, <1>1, <1>8 DEF RecreateFails, Runs, Go, LockInv, TypeOK, MidTurn, Holds
  <1>9. ASSUME NEW c \in Caller, WriteMeta(c) PROVE LockInv'
    <2>1. file' = Written(c) /\ UNCHANGED alive
      BY <1>9 DEF WriteMeta, LockInv, Holds
    <2>2. /\ file'.present
          /\ file'.creator = c
          /\ file'.written
      BY <2>1 DEF Written
    <2>3. TypeOK'
      <3>1. file' \in File
        BY <2>1 DEF Written, File
      <3>2. QED
        BY <1>f, <1>9, <2>1, <3>1 DEF WriteMeta, Go, LockInv, TypeOK
    <2>4. pc' = [pc EXCEPT ![c] = "work"] /\ pc[c] = "write"
      BY <1>9 DEF WriteMeta, Go
    <2>5. \A d \in Caller \ {c} : ~Holds(d)
      BY <2>4 DEF LockInv, Holds
    <2>6. QED
      BY <1>f, <1>1, <1>9, <2>1, <2>2, <2>3, <2>4, <2>5
         DEF WriteMeta, LockInv, TypeOK, MidTurn, Holds
  <1>10. ASSUME NEW c \in Caller, WriteFails(c) PROVE LockInv'
    BY <1>f, <1>1, <1>10 DEF WriteFails, Runs, Go, LockInv, TypeOK, MidTurn, Holds
  <1>11. ASSUME NEW c \in Caller, Release(c) PROVE LockInv'
    BY <1>f, <1>1, <1>11 DEF Release, Runs, Go, LockInv, TypeOK, MidTurn, Holds
  <1>12. ASSUME NEW p \in Process, Crash(p) PROVE LockInv'
    BY <1>f, <1>12 DEF Crash, LockInv, TypeOK, MidTurn, Holds
  <1>13. ASSUME NEW p \in Process, Boot(p) PROVE LockInv'
    BY <1>f, <1>13 DEF Boot, LockInv, TypeOK, MidTurn, Holds
  <1>14. CASE TimePasses
    <2>1. file \in File /\ file' = [file EXCEPT !.age = file.age + 1]
      BY <1>14 DEF TimePasses, NoFile, LockInv, TypeOK
    <2>2. file' \in File
      <3>1. file.age + 1 \in 0..(StaleAge + 1)
        BY <1>14, <2>1 DEF TimePasses, File
      <3>2. QED
        BY <2>1, <3>1, Zenon DEF File
    <2>3. /\ file'.present = file.present
          /\ file'.creator = file.creator
          /\ file'.written = file.written
      BY <2>1 DEF File
    <2>4. UNCHANGED <<pc, alive>>
      BY <1>14 DEF TimePasses
    <2>5. TypeOK'
      BY <1>f, <2>2, <2>4 DEF LockInv, TypeOK
    <2>6. QED
      BY <1>f, <2>3, <2>4, <2>5 DEF LockInv, MidTurn, Holds
  <1>15. CASE UNCHANGED vars
    BY <1>15 DEF vars, LockInv, TypeOK, MidTurn, Holds
  <1>16. QED
    BY <1>2, <1>3, <1>4, <1>5, <1>6, <1>7, <1>8, <1>9, <1>10, <1>11, <1>12,
       <1>13, <1>14, <1>15 DEF Next, CallStep

\* Among any number of callers of one process, through crashes and restarts
\* with the same pid, the critical sections of withFileLock exclude each other.
THEOREM OneProcessMutex == Spec => []ExcludesInProcess
  <1>1. (OneProcess => LockInv) /\ [Next]_vars => (OneProcess => LockInv)'
    <2>1. [Next]_vars => procOf' = procOf
      BY DEF Next, Fixed, vars
    <2>2. QED
      BY <2>1, LockInvNext DEF OneProcess
  <1>2. (OneProcess => LockInv) => ExcludesInProcess
    BY DEF ExcludesInProcess, LockInv, MutualExclusion, Holds
  <1>3. Init => (OneProcess => LockInv)
    BY LockInvInit
  <1>4. QED
    BY <1>1, <1>2, <1>3, PTL DEF Spec

-----------------------------------------------------------------------------

\* Without reuse of pids a lock file belongs to somebody who holds the lock or
\* to a process that is gone: whoever gives up the lock removes the file that
\* is at the path, be it his own or not.
FileInv ==
    /\ TypeOK
    /\ ~reuse /\ file.present =>
         Holds(file.creator) \/ ~alive[procOf[file.creator]]

LEMMA FileInvInit == Init => FileInv
  BY DEF Init, FileInv, TypeOK, NoFile

\* The places of a caller that holds the lock, and the others.
Inside == {"write", "work", "release"}
Outside == {"idle", "judge", "unlink", "reopen"}

\* A caller removes the file, leaves it there without giving up the lock, or
\* leaves one of his own.
LEMMA FileInvStep ==
    ASSUME FileInv, procOf' = procOf, reuse' = reuse, alive' = alive,
           NEW c \in Caller, NEW to \in Inside \cup Outside,
           pc' = [pc EXCEPT ![c] = to],
           \/ file' = NoFile
           \/ file' = file /\ (Holds(c) => to \in Inside)
           \/ file' \in {Empty(c), Written(c)} /\ to \in Inside
    PROVE  FileInv'
  <1>1. pc' \in [Caller -> Inside \cup Outside]
    BY DEF FileInv, TypeOK, Inside, Outside
  <1>2. file' \in {NoFile} \cup File => TypeOK'
    BY <1>1 DEF FileInv, TypeOK, Inside, Outside
  <1>3. CASE file' = NoFile
    <2>1. ~file'.present
      BY <1>3 DEF NoFile
    <2>2. QED
      BY <1>2, <1>3, <2>1 DEF FileInv
  <1>4. CASE file' = file /\ file \in File /\ (Holds(c) => to \in Inside)
    <2>1. file.creator \in Caller
      BY <1>4 DEF File
    <2>2. Holds(file.creator) => Holds(file.creator)'
      BY <1>4, <2>1 DEF FileInv, TypeOK, Holds, Inside
    <2>3. QED
      BY <1>2, <1>4, <2>2 DEF FileInv
  <1>5. CASE file' \in {Empty(c), Written(c)} /\ to \in Inside
    <2>1. file' \in File /\ file'.creator = c
      <3>1. Empty(c) \in File /\ Empty(c).creator = c
        BY FileLockConstants DEF Empty, File
      <3>2. Written(c) \in File /\ Written(c).creator = c
        BY FileLockConstants DEF Written, File
      <3>3. QED
        BY <1>5, <3>1, <3>2
    <2>2. Holds(file.creator)'
      BY <1>5, <2>1 DEF FileInv, TypeOK, Holds, Inside
    <2>3. QED
      BY <1>2, <2>1, <2>2 DEF FileInv
  <1>6. QED
    BY <1>3, <1>4, <1>5 DEF FileInv, TypeOK

LEMMA FileInvNext == FileInv /\ [Next]_vars => FileInv'
  <1> SUFFICES ASSUME FileInv, [Next]_vars PROVE FileInv'
    OBVIOUS
  <1>1. ASSUME NEW c \in Caller, CallStep(c), Fixed PROVE FileInv'
    <2>1. procOf' = procOf /\ reuse' = reuse
      BY <1>1 DEF Fixed
    <2>2. alive' = alive
      BY <1>1 DEF CallStep, Create, Exists, JudgeStale, Refuse, Reclaim,
                  Recreate, RecreateFails, WriteMeta, WriteFails, Release
    <2>3. \E to \in Inside \cup Outside :
            /\ pc' = [pc EXCEPT ![c] = to]
            /\ \/ file' = NoFile
               \/ file' = file /\ (Holds(c) => to \in Inside)
               \/ file' \in {Empty(c), Written(c)} /\ to \in Inside
      <3>1. CASE Create(c) \/ Recreate(c)
        BY <3>1 DEF Create, Recreate, Go, Inside, Outside
      <3>2. CASE Exists(c)
        BY <3>2 DEF Exists, Go, Holds, Inside, Outside
      <3>3. CASE JudgeStale(c)
        BY <3>3 DEF JudgeStale, Go, Holds, Inside, Outside
      <3>4. CASE Refuse(c) \/ RecreateFails(c)
        BY <3>4 DEF Refuse, RecreateFails, Go, Holds, Inside, Outside
      <3>5. CASE Reclaim(c) \/ Release(c)
        BY <3>5 DEF Reclaim, Release, Go, Inside, Outside
      <3>6. CASE WriteMeta(c)
        BY <3>6 DEF WriteMeta, Go, Inside, Outside
      <3>7. CASE WriteFails(c)
        BY <3>7 DEF WriteFails, Go, Inside, Outside
      <3>8. QED
        BY <1>1, <3>1, <3>2, <3>3, <3>4, <3>5, <3>6, <3>7 DEF CallStep
    <2>4. QED
      BY <2>1, <2>2, <2>3, FileInvStep
  <1>2. ASSUME NEW p \in Process, Crash(p), Fixed PROVE FileInv'
    <2>1. /\ alive' = [alive EXCEPT ![p] = FALSE]
          /\ pc' = [c \in Caller |-> IF procOf[c] = p THEN "idle" ELSE pc[c]]
          /\ UNCHANGED <<file, procOf, reuse>>
      BY <1>2 DEF Crash, Fixed
    <2>t. TypeOK'
      BY <2>1 DEF FileInv, TypeOK
    <2>2. CASE file = NoFile
      <3>1. ~file'.present
        BY <2>1, <2>2 DEF NoFile
      <3>2. QED
        BY <2>t, <3>1 DEF FileInv
    <2>3. CASE file \in File
      <3>1. file.creator \in Caller
        BY <2>3 DEF File
      <3>2. procOf[file.creator] = p => ~alive'[procOf[file.creator]]
        BY <2>1, <3>1 DEF FileInv, TypeOK
      <3>3. procOf[file.creator] # p =>
              /\ alive'[procOf[file.creator]] = alive[procOf[file.creator]]
              /\ pc'[file.creator] = pc[file.creator]
        BY <2>1, <3>1 DEF FileInv, TypeOK
      <3>4. QED
        BY <2>1, <2>t, <3>2, <3>3 DEF FileInv, Holds
    <2>4. QED
      BY <2>2, <2>3 DEF FileInv, TypeOK
  <1>3. ASSUME NEW p \in Process, Boot(p), Fixed PROVE FileInv'
    BY <1>3 DEF Boot, Fixed, FileInv, TypeOK
  <1>4. CASE TimePasses /\ Fixed
    <2>1. file \in File /\ file' = [file EXCEPT !.age = file.age + 1]
      BY <1>4 DEF TimePasses, NoFile, FileInv, TypeOK
    <2>2. file' \in File
      <3>1. file.age + 1 \in 0..(StaleAge + 1)
        BY <1>4, <2>1, FileLockConstants DEF TimePasses, File
      <3>2. QED
        BY <2>1, <3>1, Zenon DEF File
    <2>3. file'.present = file.present /\ file'.creator = file.creator
      BY <2>1 DEF File
    <2>4. QED
      BY <1>4, <2>2, <2>3 DEF TimePasses, Fixed, FileInv, TypeOK, Holds
  <1>5. CASE UNCHANGED vars
    BY <1>5 DEF vars, FileInv, TypeOK, Holds
  <1>6. QED
    BY <1>1, <1>2, <1>3, <1>4, <1>5 DEF Next

\* Where no new process gets the pid of a dead one, a caller is refused beyond
\* the stale age only while somebody holds the lock, for any callers, processes
\* and stale age.
THEOREM LockFileExpires == Spec => ExpiresWithFreshPids
  <1>1. FileInv =>
          \A c \in Caller :
            ~reuse /\ Refuse(c) =>
              file.age <= StaleAge \/ \E d \in Caller : Holds(d)
    <2> SUFFICES ASSUME FileInv, NEW c \in Caller, ~reuse, Refuse(c),
                        ~(file.age <= StaleAge)
                 PROVE  \E d \in Caller : Holds(d)
      OBVIOUS
    <2>1. /\ file.present
          /\ ~(~alive[procOf[file.creator]] /\ file.age > StaleAge)
      BY DEF Refuse, Stale
    <2>2. file \in File
      BY <2>1 DEF FileInv, TypeOK, NoFile
    <2>3. file.creator \in Caller /\ file.age > StaleAge
      BY <2>2, FileLockConstants DEF File
    <2>4. alive[procOf[file.creator]]
      BY <2>1, <2>3
    <2>5. Holds(file.creator)
      BY <2>1, <2>4 DEF FileInv
    <2>6. QED
      BY <2>3, <2>5
  <1>2. FileInv => [\A c \in Caller :
                      ~reuse /\ Refuse(c) =>
                        file.age <= StaleAge \/ \E d \in Caller : Holds(d)]_vars
    BY <1>1
  <1>3. QED
    BY <1>2, FileInvInit, FileInvNext, PTL DEF Spec, ExpiresWithFreshPids

-----------------------------------------------------------------------------

\* A key that Lease or RedisTime writes.
LEMMA KeyWritten ==
    ASSUME NEW c \in Call, NEW n \in 0..Ttl
    PROVE  LET k == [present |-> TRUE, owner |-> c, ttl |-> n] IN
             k \in Key /\ k.present /\ k.owner = c /\ k.ttl = n
  BY DEF Key

\* During its lease the key bears the holder's token and expires with the
\* lease.  A script on the wire or a request that was not answered belongs to a
\* call that has not got the lock, or has it no more.
LeaseInv ==
    /\ RedisTypeOK
    /\ \A c \in Call : DelReq(c) \in wire => stage[c] \in {"releasing", "over"}
    /\ \A c \in Call : SetReq(c) \in wire => stage[c] \in {"waiting", "over"}
    /\ \A c \in Call : Has(c) /\ held[c] < Ttl => Owns(c) /\ key.ttl = Ttl - held[c]

LEMMA LeaseInvInit == RedisInit => LeaseInv
  BY RedisLockConstants DEF RedisInit, LeaseInv, RedisTypeOK, Has

LEMMA LeaseInvNext == LeaseInv /\ [RedisNext]_redisVars => LeaseInv'
  <1> SUFFICES ASSUME LeaseInv, [RedisNext]_redisVars PROVE LeaseInv'
    OBVIOUS
  <1> USE RedisLockConstants
  <1>r. \A c, d \in Call :
          /\ SetReq(c) \in Request /\ DelReq(c) \in Request
          /\ SetReq(c) # DelReq(d)
          /\ SetReq(c) = SetReq(d) => c = d
          /\ DelReq(c) = DelReq(d) => c = d
    BY DEF SetReq, DelReq, Request
  <1>1. ASSUME NEW c \in Call, Acquire(c) PROVE LeaseInv'
    BY <1>r, <1>1 DEF Acquire, Move, LeaseInv, RedisTypeOK, Has, Owns
  <1>2. ASSUME NEW c \in Call, Granted(c) PROVE LeaseInv'
    BY <1>2 DEF Granted, Move, LeaseInv, RedisTypeOK, Has, Owns
  <1>3. ASSUME NEW c \in Call, Refused(c) PROVE LeaseInv'
    BY <1>3 DEF Refused, Move, LeaseInv, RedisTypeOK, Has, Owns
  <1>4. ASSUME NEW c \in Call, SetThrew(c) PROVE LeaseInv'
    BY <1>4 DEF SetThrew, Move, LeaseInv, RedisTypeOK, Has, Owns
  <1>5. ASSUME NEW c \in Call, Finish(c) PROVE LeaseInv'
    BY <1>r, <1>5 DEF Finish, Move, LeaseInv, RedisTypeOK, Has, Owns
  <1>6. ASSUME NEW c \in Call, DelThrew(c) PROVE LeaseInv'
    BY <1>6 DEF DelThrew, Move, LeaseInv, RedisTypeOK, Has, Owns
  <1>7. ASSUME NEW c \in Call, Dies(c) PROVE LeaseInv'
    BY <1>7 DEF Dies, Move, LeaseInv, RedisTypeOK, Has, Owns
  <1>8. ASSUME NEW c \in Call, ServeSet(c) PROVE LeaseInv'
    <2>1. Ttl \in 0..Ttl
      OBVIOUS
    <2>2. Lease(c) \in Key /\ Lease(c).present /\ Lease(c).owner = c
          /\ Lease(c).ttl = Ttl
      BY <2>1, KeyWritten, Zenon DEF Lease
    <2>3. RedisTypeOK'
      BY <1>8, <2>2 DEF ServeSet, Move, LeaseInv, RedisTypeOK
    <2>4. ~Has(c)
      BY <1>8 DEF ServeSet, LeaseInv, Has
    <2>5. CASE key.present
      BY <1>r, <1>8, <2>3, <2>4, <2>5 DEF ServeSet, Move, LeaseInv, RedisTypeOK, Has, Owns
    <2>6. CASE ~key.present
      <3>1. \A d \in Call : Has(d) => ~(held[d] < Ttl)
        BY <2>6 DEF LeaseInv, Owns
      <3>2. Owns(c)' /\ key'.ttl = Ttl
        BY <1>8, <2>2, <2>6 DEF ServeSet, Owns
      <3>3. held'[c] = 0 /\ \A d \in Call \ {c} : held'[d] = held[d]
        BY <1>8 DEF ServeSet, LeaseInv, RedisTypeOK
      <3>4. \A d \in Call \ {c} : stage'[d] = stage[d]
        BY <1>8 DEF ServeSet, Move, LeaseInv, RedisTypeOK
      <3>5. \A d \in Call : Has(d)' /\ held'[d] < Ttl =>
              Owns(d)' /\ key'.ttl = Ttl - held'[d]
        BY <3>1, <3>2, <3>3, <3>4 DEF Has
      <3>6. QED
        BY <1>r, <1>8, <2>3, <3>5 DEF ServeSet, Move, LeaseInv, RedisTypeOK
    <2>7. QED
      BY <2>5, <2>6
  <1>9. ASSUME NEW c \in Call, ServeDel(c) PROVE LeaseInv'
    <2>1. ~Has(c)
      BY <1>9 DEF ServeDel, LeaseInv, Has
    <2>2. \A d \in Call : Has(d)' => Has(d) /\ d # c
      BY <1>9, <2>1 DEF ServeDel, Move, LeaseInv, RedisTypeOK, Has
    <2>3. \A d \in Call \ {c} : Owns(d) => key' = key
      BY <1>9 DEF ServeDel, Owns
    <2>4. QED
      BY <1>r, <1>9, <2>2, <2>3 DEF ServeDel, Move, LeaseInv, RedisTypeOK, Owns
  <1>10. ASSUME NEW r \in wire, LoseRequest(r) PROVE LeaseInv'
    BY <1>10 DEF LoseRequest, LeaseInv, RedisTypeOK, Has, Owns
  <1>11. CASE RedisTime
    <2>1. key' \in {NoKey} \cup Key
      <3>1. CASE ~key.present \/ key.ttl = 0 \/ key.ttl = 1
        BY <1>11, <3>1 DEF RedisTime, LeaseInv, RedisTypeOK
      <3>2. CASE key.present /\ key.ttl # 0 /\ key.ttl # 1
        <4>1. key.owner \in Call /\ key.ttl - 1 \in 0..Ttl
          <5>1. key \in Key
            BY <3>2 DEF LeaseInv, RedisTypeOK, NoKey
          <5>2. key.owner \in Call /\ key.ttl \in 0..Ttl
            BY <5>1 DEF Key
          <5>3. QED
            BY <3>2, <5>2
        <4>2. QED
          BY <1>11, <3>2, <4>1, KeyWritten DEF RedisTime
      <3>3. QED
        BY <3>1, <3>2
    <2>2. held' \in [Call -> 0..Ttl]
      BY <1>11 DEF RedisTime, LeaseInv, RedisTypeOK
    <2>3. ASSUME NEW c \in Call, Has(c), held'[c] < Ttl
          PROVE  Owns(c)' /\ key'.ttl = Ttl - held'[c]
      <3>1. held[c] < Ttl /\ held'[c] = held[c] + 1 /\ held[c] \in 0..Ttl
        BY <1>11, <2>3 DEF RedisTime, LeaseInv, RedisTypeOK
      <3>2. Owns(c) /\ key.ttl = Ttl - held[c]
        BY <2>3, <3>1 DEF LeaseInv
      <3>3. key.ttl # 0 /\ key.ttl # 1 /\ key.ttl - 1 = Ttl - held'[c]
            /\ key.ttl - 1 \in 0..Ttl
        BY <2>3, <3>1, <3>2
      <3>4. key' = [present |-> TRUE, owner |-> c, ttl |-> key.ttl - 1]
        BY <1>11, <3>2, <3>3 DEF RedisTime, Owns
      <3>5. QED
        BY <3>3, <3>4, KeyWritten, Zenon DEF Owns
    <2>4. QED
      BY <1>11, <2>1, <2>2, <2>3 DEF RedisTime, LeaseInv, RedisTypeOK, Has
  <1>12. CASE UNCHANGED redisVars
    BY <1>12 DEF redisVars, LeaseInv, RedisTypeOK, Has, Owns
  <1>13. QED
    BY <1>1, <1>2, <1>3, <1>4, <1>5, <1>6, <1>7, <1>8, <1>9, <1>10, <1>11,
       <1>12 DEF RedisNext

\* For any number of calls and any lease: two calls that run their critical
\* sections at once cannot both be within their leases, so a call that ends
\* before REDIS_LOCK_TTL_MS has passed was alone.
THEOREM LeaseExclusion == RedisSpec => []LeaseMutex
  <1>1. LeaseInv => LeaseMutex
    <2> SUFFICES ASSUME LeaseInv, NEW c \in Call, NEW d \in Call, c # d,
                        stage[c] = "work", stage[d] = "work",
                        ~(held[c] >= Ttl), ~(held[d] >= Ttl)
                 PROVE  FALSE
      BY DEF LeaseMutex
    <2>1. held[c] < Ttl /\ held[d] < Ttl
      BY RedisLockConstants DEF LeaseInv, RedisTypeOK
    <2>2. Owns(c) /\ Owns(d)
      BY <2>1 DEF LeaseInv, Has
    <2>3. QED
      BY <2>2 DEF Owns
  <1>2. QED
    BY <1>1, LeaseInvInit, LeaseInvNext, PTL DEF RedisSpec

-----------------------------------------------------------------------------

\* The lock that STATE_BACKEND chooses behaves like each of the two, of which
\* the other one stands still.
THEOREM ChosenLock == LockSpec => Spec /\ RedisSpec
  <1>1. LockInit => Init /\ RedisInit
    BY DEF LockInit
  <1>2. [LockNext]_lockVars => [Next]_vars /\ [RedisNext]_redisVars
    BY DEF LockNext, FileStep, RedisStep, lockVars
  <1>3. QED
    BY <1>1, <1>2, PTL DEF LockSpec, Spec, RedisSpec

\* Whichever lock is chosen, callers of one process exclude each other on the
\* file lock, holders within their leases on the Redis lock, and a lock file
\* expires.
THEOREM ChosenLockExcludes ==
    LockSpec => []ExcludesInProcess /\ []LeaseMutex /\ ExpiresWithFreshPids
  BY ChosenLock, OneProcessMutex, LeaseExclusion, LockFileExpires, PTL

=============================================================================
