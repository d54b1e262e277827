------------------------------ MODULE Resends -------------------------------
(***************************************************************************)
(* How often the watcher resends a command: CommandLifecycle with a        *)
(* counter that looks on.                                                  *)
(*                                                                         *)
(* The second loop of a tick decides to resend on the retries the record   *)
(* has, publishes, and counts the retry when the publish has returned, if  *)
(* the record is still sent.  So a resend may end uncounted: its publish   *)
(* threw although the broker may have the message, the record was taken    *)
(* further meanwhile, or the process stopped.  Publications of the first   *)
(* loop are not resends.                                                   *)
(***************************************************************************)
EXTENDS CommandLifecycle, Integers

VARIABLE spent   \* the resends of each command, less those that ended uncounted

\* The ticks in the await of publishPreparedCommand for a resend of c.
Publishing(c) ==
  {t \in Tick : /\ tick[t].phase = "awaiting" /\ tick[t].step = "publish"
                /\ tick[t].cur = c}

\* The resends of c that a step begins, and those it ends uncounted.
Begun(c) == Publishing(c)' \ Publishing(c)

Uncounted(c) ==
  IF rec'[c].retries > rec[c].retries THEN {} ELSE Publishing(c) \ Publishing(c)'

ResendsInit == Init /\ spent = [c \in Cmd |-> 0]

ResendsNext ==
  /\ Next
  /\ spent' = [c \in Cmd |->
       spent[c] + Cardinality(Begun(c)) - Cardinality(Uncounted(c))]

ResendsSpec == ResendsInit /\ [][ResendsNext]_<<vars, spent>>

-----------------------------------------------------------------------------
(* A command is resent at most COMMAND_MAX_RETRIES times, once more for      *)
(* every further tick that overlaps, since each decides before the other     *)
(* counts, and once more for every resend that ended uncounted               *)
(* (evaluateAwaitingAckAction and recordCommandRetry).                       *)
ResendsBounded == \A c \in Cmd : spent[c] <= MaxRetries + Cardinality(Tick) - 1

=============================================================================
