-------------------------- MODULE CoordinationLock --------------------------
(***************************************************************************)
(* withFileLock of apps/api/src/fs/file-lock.ts, the lock that requests,   *)
(* alerts and accounts take: the Redis lock when STATE_BACKEND is redis,   *)
(* the file lock otherwise.  It is a setting of the environment, the same  *)
(* for all processes of a deployment.                                      *)
(***************************************************************************)
EXTENDS FileLock, RedisLock

VARIABLE backend    \* STATE_BACKEND

lockVars == <<vars, redisVars, backend>>

\* useRedisSessionStore(); the deployment of callers in processes and the use
\* of pids matter to the file lock only.
LockInit ==
    /\ Init /\ RedisInit
    /\ backend \in {"file", "redis"}
    /\ backend = "redis" => ~reuse /\ procOf = CHOOSE f \in [Caller -> Process] : TRUE

FileStep(A) ==
    /\ backend = "file"
    /\ A /\ Fixed
    /\ UNCHANGED <<redisVars, backend>>

RedisStep(A) ==
    /\ backend = "redis"
    /\ A
    /\ UNCHANGED <<vars, backend>>

LockNext == FileStep(Next) \/ RedisStep(RedisNext)

LockSpec == LockInit /\ [][LockNext]_lockVars

\* The fairness of the two locks, for the one in use.
FairLockSpec ==
    /\ LockSpec
    /\ WF_lockVars(FileStep(TimePasses))
    /\ \A c \in Caller :
         /\ WF_lockVars(FileStep(CallStep(c)))
         /\ SF_lockVars(FileStep(WriteMeta(c)))
    /\ WF_lockVars(RedisStep(RedisTime))

-----------------------------------------------------------------------------

\* No crash locks everybody out of the file lock (file-lock.ts 98): while a
\* process with callers is left, they keep getting into the critical section.
FileObtainedAgain == backend = "file" => ObtainedAgain

=============================================================================
