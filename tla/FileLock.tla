------------------------------ MODULE FileLock ------------------------------
(***************************************************************************)
(* withFileLock and withFileLockSync of packages/platform/src/file-lock.ts *)
(* on one lock path: the holder creates the file, writes its pid and the   *)
(* time into it, and removes it at the end.  A step is one system call:    *)
(* processes interleave between any two, the callers inside one process    *)
(* only where the code awaits.                                             *)
(***************************************************************************)
EXTENDS Integers

CONSTANTS
    Process,        \* operating system processes, one pid each
    Caller,         \* call sites; each calls again once its call has ended
    SyncCaller,     \* those that use withFileLockSync
    StaleAge        \* staleLockMs(), in units of TimePasses

ASSUME FileLockConstants ==
    /\ SyncCaller \subseteq Caller
    /\ StaleAge \in Nat

VARIABLES
    file,   \* what is at the lock path
    pc,     \* the next system call of each caller
    alive,  \* which pids are in use
    procOf, \* the deployment, fixed: the process of each caller, and
    reuse   \* whether a new process may get the pid of a dead one

vars == <<file, pc, alive, procOf, reuse>>

NoFile == [present |-> FALSE]

\* written: its pid and started_at have been written, age: since started_at.
File == [present : {TRUE}, creator : Caller, written : BOOLEAN,
         age : 0..(StaleAge + 1)]

Init ==
    /\ file = NoFile
    /\ pc = [c \in Caller |-> "idle"]
    /\ alive = [p \in Process |-> TRUE]
    /\ procOf \in [Caller -> Process]
    /\ reuse \in BOOLEAN

\* The caller's descriptor is open.
Holds(c) == pc[c] \in {"write", "work", "release"}

\* c is between two synchronous calls, so no other caller of its process runs.
MidTurn(c) ==
    \/ pc[c] \in {"judge", "unlink", "reopen", "write", "release"}
    \/ pc[c] = "work" /\ c \in SyncCaller

Runs(c) ==
    /\ alive[procOf[c]]
    /\ \A d \in Caller \ {c} : procOf[d] = procOf[c] => ~MidTurn(d)

Go(c, next) == pc' = [pc EXCEPT ![c] = next]

Empty(c) == [present |-> TRUE, creator |-> c, written |-> FALSE, age |-> 0]

Written(c) == [present |-> TRUE, creator |-> c, written |-> TRUE, age |-> 0]

-----------------------------------------------------------------------------

\* openSync(lockPath, "wx") succeeds.
Create(c) ==
    /\ pc[c] = "idle" /\ Runs(c)
    /\ ~file.present
    /\ file' = Empty(c)
    /\ Go(c, "write")
    /\ UNCHANGED alive

\* openSync throws EEXIST.
Exists(c) ==
    /\ pc[c] = "idle" /\ Runs(c)
    /\ file.present
    /\ Go(c, "judge")
    /\ UNCHANGED <<file, alive>>

\* Mutant: the age alone decides, whether the holder lives or not.
Stale_ByAge ==
    file.present /\ file.written => file.age > StaleAge

\* isStaleLock: no file and no readable content are stale, a live pid is not.
\* What was read cannot change except by the removal of the file, and a process
\* that dies before kill(pid, 0) has died as well before a later read.
Stale ==
    file.present /\ file.written =>
        ~alive[procOf[file.creator]] /\ file.age > StaleAge

JudgeStale(c) ==
    /\ pc[c] = "judge" /\ Runs(c)
    /\ Stale
    /\ Go(c, "unlink")
    /\ UNCHANGED <<file, alive>>

\* throw new FileLockBusyError
Refuse(c) ==
    /\ pc[c] = "judge" /\ Runs(c)
    /\ ~Stale
    /\ Go(c, "idle")
    /\ UNCHANGED <<file, alive>>

\* Mutant: a stale file is opened again without being removed.
Reclaim_KeepsFile(c) ==
    /\ pc[c] = "unlink" /\ Runs(c)
    /\ Go(c, "reopen")
    /\ UNCHANGED <<file, alive>>

\* unlinkSync of whatever is at the path by now; its failure is ignored.
Reclaim(c) ==
    /\ pc[c] = "unlink" /\ Runs(c)
    /\ file' = NoFile
    /\ Go(c, "reopen")
    /\ UNCHANGED alive

Recreate(c) ==
    /\ pc[c] = "reopen" /\ Runs(c)
    /\ ~file.present
    /\ file' = Empty(c)
    /\ Go(c, "write")
    /\ UNCHANGED alive

\* Another process was faster: the EEXIST of the second tryAcquire is thrown.
RecreateFails(c) ==
    /\ pc[c] = "reopen" /\ Runs(c)
    /\ file.present
    /\ Go(c, "idle")
    /\ UNCHANGED <<file, alive>>

\* writeLockMeta through the descriptor: the file that c created, which may be
\* at the path no more.
WriteMeta(c) ==
    /\ pc[c] = "write" /\ Runs(c)
    /\ file' = IF file.present /\ file.creator = c
               THEN Written(c) ELSE file
    /\ Go(c, "work")
    /\ UNCHANGED alive

\* writeSync throws: fn does not run.
WriteFails(c) ==
    /\ pc[c] = "write" /\ Runs(c)
    /\ Go(c, "release")
    /\ UNCHANGED <<file, alive>>

\* Mutant: the lock is released only when fn returns.
Release_OnReturn(c) ==
    /\ pc[c] \in {"work", "release"} /\ Runs(c)
    /\ \/ file' = NoFile
       \/ pc[c] = "work" /\ UNCHANGED file
    /\ Go(c, "idle")
    /\ UNCHANGED alive

\* fn has returned or thrown; releaseLock unlinks whatever is at the path.
Release(c) ==
    /\ pc[c] \in {"work", "release"} /\ Runs(c)
    /\ file' = NoFile
    /\ Go(c, "idle")
    /\ UNCHANGED alive

\* A crash leaves the file.
Crash(p) ==
    /\ alive[p]
    /\ alive' = [alive EXCEPT ![p] = FALSE]
    /\ pc' = [c \in Caller |-> IF procOf[c] = p THEN "idle" ELSE pc[c]]
    /\ UNCHANGED file

\* A new process with the pid of a dead one, as in a restarted container.
Boot(p) ==
    /\ reuse
    /\ ~alive[p]
    /\ alive' = [alive EXCEPT ![p] = TRUE]
    /\ UNCHANGED <<file, pc>>

\* Ages beyond StaleAge are alike.
TimePasses ==
    /\ file.present
    /\ file.age <= StaleAge
    /\ file' = [file EXCEPT !.age = @ + 1]
    /\ UNCHANGED <<pc, alive>>

\* Every step leaves the deployment as it is.
Fixed == UNCHANGED <<procOf, reuse>>

CallStep(c) ==
    \/ Create(c) \/ Exists(c)
    \/ JudgeStale(c) \/ Refuse(c)
    \/ Reclaim(c) \/ Recreate(c) \/ RecreateFails(c)
    \/ WriteMeta(c) \/ WriteFails(c)
    \/ Release(c)

Next ==
    /\ \/ \E c \in Caller : CallStep(c)
       \/ \E p \in Process : Crash(p) \/ Boot(p)
       \/ TimePasses
    /\ Fixed

Spec == Init /\ [][Next]_vars

\* Processes run, what is done under the lock ends, callers come back, and the
\* disk is not full for ever.
FairSpec ==
    /\ Spec
    /\ WF_vars(TimePasses /\ Fixed)
    /\ \A c \in Caller :
         /\ WF_vars(CallStep(c) /\ Fixed)
         /\ SF_vars(WriteMeta(c) /\ Fixed)

-----------------------------------------------------------------------------

TypeOK ==
    /\ file \in {NoFile} \cup File
    /\ pc \in [Caller -> {"idle", "judge", "unlink", "reopen", "write", "work",
                          "release"}]
    /\ alive \in [Process -> BOOLEAN]
    /\ procOf \in [Caller -> Process]
    /\ reuse \in BOOLEAN

\* What the lock is for: no two callers run their critical sections at once
\* (the query for a command in flight and createCommand in
\* publish-physical-command.ts 117).  Not kept between processes.
MutualExclusion ==
    \A c, d \in Caller : pc[c] = "work" /\ pc[d] = "work" => c = d

OneProcess == \A c, d \in Caller : procOf[c] = procOf[d]

\* Among the callers of one process it is kept, through crashes and restarts
\* with the same pid.
ExcludesInProcess == OneProcess => MutualExclusion

\* A lock file expires: beyond the stale age a caller is refused only while
\* somebody holds the lock, whoever crashed where and whichever callers removed
\* the file of another.  (A new process with the pid in a file that a crash left
\* keeps it for ever: isStaleLock looks at no age then.)
ExpiresWithFreshPids ==
    [][\A c \in Caller :
         ~reuse /\ Refuse(c) =>
            file.age <= StaleAge \/ \E d \in Caller : Holds(d)]_vars

\* No crash locks everybody out: while a process with callers is left, they
\* keep getting into the critical section.
ObtainedAgain ==
    ~reuse => \/ <>[](\A c \in Caller : ~alive[procOf[c]])
              \/ []<>(\E c \in Caller : pc[c] = "work")

=============================================================================
