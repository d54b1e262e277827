----------------------------- MODULE RedisLock ------------------------------
(***************************************************************************)
(* withRedisLock of apps/api/src/state/redis-lock.ts on one key, which     *)
(* withFileLock uses when STATE_BACKEND is redis.  The server executes the *)
(* requests in any order, the connection may fail with a request or a      *)
(* reply under way, and the key expires on its own.                        *)
(***************************************************************************)
EXTENDS Integers

CONSTANTS
    Call,   \* calls of withRedisLock; the random token of each is the call
    Ttl     \* lockTtlMs(), in units of RedisTime

ASSUME RedisLockConstants == Ttl \in Nat \ {0}

VARIABLES
    key,    \* the key at the server
    wire,   \* requests on their way to the server
    stage,  \* where each call is
    held    \* time since the server granted the lock to each call

redisVars == <<key, wire, stage, held>>

NoKey == [present |-> FALSE]

\* ttl: what is left, 0 for a key that does not expire.
Key == [present : {TRUE}, owner : Call, ttl : 0..Ttl]

Request == [op : {"set", "del"}, call : Call]

SetReq(c) == [op |-> "set", call |-> c]
DelReq(c) == [op |-> "del", call |-> c]

RedisInit ==
    /\ key = NoKey
    /\ wire = {}
    /\ stage = [c \in Call |-> "idle"]
    /\ held = [c \in Call |-> 0]

Move(c, next) == stage' = [stage EXCEPT ![c] = next]

\* The lock is c's as far as c or the reply to it says.
Has(c) == stage[c] \in {"granted", "work"}

\* The key is at the server with c's token.
Owns(c) == key.present /\ key.owner = c

-----------------------------------------------------------------------------

\* await client.set(...)
Acquire(c) ==
    /\ stage[c] = "idle"
    /\ wire' = wire \cup {SetReq(c)}
    /\ Move(c, "waiting")
    /\ UNCHANGED <<key, held>>

\* Mutant: SET NX without PX.
Lease_NoExpiry(c) == [present |-> TRUE, owner |-> c, ttl |-> 0]

\* What SET with NX and PX puts in place of no key.
Lease(c) == [present |-> TRUE, owner |-> c, ttl |-> Ttl]

\* The server executes SET NX; the call may have failed meanwhile.
ServeSet(c) ==
    /\ SetReq(c) \in wire
    /\ wire' = wire \ {SetReq(c)}
    /\ key' = IF key.present THEN key ELSE Lease(c)
    /\ IF stage[c] = "waiting"
       THEN Move(c, IF key.present THEN "refused" ELSE "granted")
       ELSE UNCHANGED stage
    /\ held' = [held EXCEPT ![c] = 0]

\* The reply arrives: fn runs, or FileLockBusyError is thrown.
Granted(c) ==
    /\ stage[c] = "granted"
    /\ Move(c, "work")
    /\ UNCHANGED <<key, wire, held>>

Refused(c) ==
    /\ stage[c] = "refused"
    /\ Move(c, "over")
    /\ UNCHANGED <<key, wire, held>>

\* client.set rejects before the try: nothing is released, the request or the
\* key it has set may be left.
SetThrew(c) ==
    /\ stage[c] \in {"waiting", "granted", "refused"}
    /\ Move(c, "over")
    /\ UNCHANGED <<key, wire, held>>

\* fn has returned or thrown: await releaseRedisLock(...)
Finish(c) ==
    /\ stage[c] = "work"
    /\ wire' = wire \cup {DelReq(c)}
    /\ Move(c, "releasing")
    /\ UNCHANGED <<key, held>>

\* Mutant: the script deletes the key whatever its token.
ServeDel_AnyToken(c) ==
    /\ DelReq(c) \in wire
    /\ wire' = wire \ {DelReq(c)}
    /\ key' = NoKey
    /\ IF stage[c] = "releasing" THEN Move(c, "over") ELSE UNCHANGED stage
    /\ UNCHANGED held

\* The script of releaseRedisLock: get, compare and delete as one.
ServeDel(c) ==
    /\ DelReq(c) \in wire
    /\ wire' = wire \ {DelReq(c)}
    /\ key' = IF Owns(c) THEN NoKey ELSE key
    /\ IF stage[c] = "releasing" THEN Move(c, "over") ELSE UNCHANGED stage
    /\ UNCHANGED held

\* The exception of the release is ignored.
DelThrew(c) ==
    /\ stage[c] = "releasing"
    /\ Move(c, "over")
    /\ UNCHANGED <<key, wire, held>>

\* The process dies under fn.
Dies(c) ==
    /\ stage[c] = "work"
    /\ Move(c, "over")
    /\ UNCHANGED <<key, wire, held>>

LoseRequest(r) ==
    /\ r \in wire
    /\ wire' = wire \ {r}
    /\ UNCHANGED <<key, stage, held>>

\* The server's clock and the callers' run at the same pace; held stops at Ttl.
RedisTime ==
    /\ \/ key.present
       \/ \E c \in Call : Has(c) /\ held[c] < Ttl
    /\ key' = IF ~key.present \/ key.ttl = 0 THEN key
              ELSE IF key.ttl = 1 THEN NoKey
              ELSE [present |-> TRUE, owner |-> key.owner, ttl |-> key.ttl - 1]
    /\ held' = [c \in Call |-> IF Has(c) /\ held[c] < Ttl
                               THEN held[c] + 1 ELSE held[c]]
    /\ UNCHANGED <<wire, stage>>

RedisNext ==
    \/ \E c \in Call :
         \/ Acquire(c) \/ Granted(c) \/ Refused(c) \/ SetThrew(c)
         \/ Finish(c) \/ DelThrew(c) \/ Dies(c)
         \/ ServeSet(c) \/ ServeDel(c)
    \/ \E r \in wire : LoseRequest(r)
    \/ RedisTime

RedisSpec == RedisInit /\ [][RedisNext]_redisVars

\* Nothing but time is certain to go on.
RedisFairSpec == RedisSpec /\ WF_redisVars(RedisTime)

-----------------------------------------------------------------------------

RedisTypeOK ==
    /\ key \in {NoKey} \cup Key
    /\ wire \subseteq Request
    /\ stage \in [Call -> {"idle", "waiting", "granted", "refused", "work",
                           "releasing", "over"}]
    /\ held \in [Call -> 0..Ttl]

\* Of two calls that run their critical sections at once, one has outlived its
\* lease: within the lease the lock excludes, whatever requests are lost or
\* late and whoever releases a lock that is his no more.
LeaseMutex ==
    \A c, d \in Call :
        c # d /\ stage[c] = "work" /\ stage[d] = "work" =>
            held[c] >= Ttl \/ held[d] >= Ttl

\* Nobody keeps the lock for ever: not one who died, lost the reply to SET, or
\* whose release failed.
KeyIsFreed ==
    \A c \in Call : Owns(c) ~> ~Owns(c)

=============================================================================
