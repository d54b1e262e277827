-------------------------- MODULE SceneNodeProofs ---------------------------
(***************************************************************************)
(* An output has its command, a command its duration, and an output that   *)
(* ends too late or too early needs a wrap of the counter: for any         *)
(* channels, durations, delays of the loop and width of the counter.       *)
(***************************************************************************)
EXTENDS SceneNode, TLAPS

\* The counter's arithmetic, within one wrap on either side.
LEMMA Modulo ==
  ASSUME NEW w \in Nat \ {0}, NEW a \in Int, -w <= a, a < 2 * w
  PROVE  a % w = IF a < 0 THEN a + w ELSE IF a < w THEN a ELSE a - w
  BY Z3

LEMMA Wraps ==
  ASSUME NEW a \in Int, -Width <= a, a < 2 * Width
  PROVE  a % Width = IF a < 0 THEN a + Width ELSE IF a < Width THEN a ELSE a - Width
  <1>1. Width \in Nat \ {0}
    BY NodeConstants
  <1> QED BY ONLY <1>1, Modulo, a \in Int, -Width <= a, a < 2 * Width

LEMMA InClock == ASSUME NEW a \in Int PROVE a % Width \in Clock
  BY NodeConstants, Z3 DEF Clock

LEMMA Resolved == \A asked \in Nat : ResolveDuration(asked) \in MinPulse..MaxPulse
  BY NodeConstants DEF ResolveDuration

\* Types, with a duration within its limits.
Loads == [on : BOOLEAN, channel : Channels \union {"none"}, offAt : Clock]

Commands == [active : BOOLEAN, channel : Channels \union {"none"},
             started : Clock, duration : 0..MaxPulse]

Typed ==
  /\ millis \in Clock /\ lag \in 0..MaxLag
  /\ load \in Loads /\ pending \in Commands
  /\ ran \in Nat /\ high \in Nat /\ wrapped \in BOOLEAN
  /\ pending.active => pending.duration \in MinPulse..MaxPulse
  /\ ~pending.active => high = 0 /\ pending.duration = 0

\* A high output is the one of gActive, and gActive belongs to gPending.
Held ==
  /\ \A c \in pins : load.on /\ load.channel = c
  /\ load.on => /\ pending.active /\ load.channel = pending.channel
                /\ load.offAt = (pending.started + pending.duration) % Width

\* What the counter says of the time that passed, as long as it is measured.
Elapsed ==
  pending.active /\ ran < Long =>
    /\ millis = IF pending.started + ran < Width
                THEN pending.started + ran ELSE pending.started + ran - Width
    /\ ~wrapped => pending.started + ran < Width

\* Without a wrap the loop turns the output off in its first pass after the
\* deadline.
InTime ==
  pending.active /\ ~wrapped =>
    /\ high <= pending.duration + MaxLag
    /\ pending.channel \in pins => high <= ran /\ ran <= pending.duration + lag

\* With a deadline on this side of the wrap the output is high until its time.
NotEarly ==
  /\ pending.active /\ pending.started + pending.duration <= Width
  /\ high < pending.duration
  => pending.channel \in pins /\ high = ran

NodeInv == Typed /\ Held /\ Elapsed /\ InTime /\ NotEarly

LEMMA Zero == 0 \in Clock
  BY NodeConstants DEF Clock

LEMMA Nothing ==
  /\ NoLoad \in Loads /\ ~NoLoad.on
  /\ NoCommand \in Commands /\ ~NoCommand.active /\ NoCommand.duration = 0
  <1>1. 0 \in Clock /\ 0 \in 0..MaxPulse
    BY NodeConstants, Zero
  <1> QED BY <1>1 DEF NoLoad, Loads, NoCommand, Commands

\* No output and no command, as after the start, a completion or a reboot.
Empty ==
  /\ millis \in Clock /\ lag \in 0..MaxLag
  /\ pins = {} /\ load \in Loads /\ ~load.on /\ pending = NoCommand
  /\ ran = 0 /\ high = 0 /\ wrapped = FALSE

LEMMA EmptyInv == Empty => NodeInv
  <1> SUFFICES ASSUME Empty PROVE NodeInv
    OBVIOUS
  <1>1. pending \in Commands /\ ~pending.active /\ pending.duration = 0
    BY Nothing DEF Empty
  <1> QED BY <1>1 DEF Empty, NodeInv, Typed, Held, Elapsed, InTime, NotEarly

LEMMA Completes ==
  NodeInv /\ Complete => pins' = {} /\ load' \in Loads /\ ~load'.on
  <1> SUFFICES ASSUME NodeInv, Complete
               PROVE  pins' = {} /\ load' \in Loads /\ ~load'.on
    OBVIOUS
  <1>1. pins' = pins \ {pending.channel}
        /\ load' = IF load.on /\ load.channel = pending.channel THEN NoLoad ELSE load
    BY DEF Complete, StopChannel
  <1>2. \A c \in pins : c = pending.channel
    BY DEF NodeInv, Held
  <1>3. load.on => load.channel = pending.channel
    BY DEF NodeInv, Held
  <1> QED BY <1>1, <1>2, <1>3, Nothing DEF NodeInv, Typed

LEMMA NodeInvNext == NodeInv /\ [Next]_vars => NodeInv'
  <1> SUFFICES ASSUME NodeInv, [Next]_vars PROVE NodeInv'
    OBVIOUS
  <1> USE NodeConstants
  <1>1. ASSUME NEW c \in Channels, NEW asked \in 0..MaxAsked, Pulse(c, asked)
        PROVE  NodeInv'
    <2> DEFINE d == ResolveDuration(asked)
               l == [on |-> TRUE, channel |-> c, offAt |-> (millis + d) % Width]
               p == [active |-> TRUE, channel |-> c, started |-> millis, duration |-> d]
    <2>1. d \in MinPulse..MaxPulse /\ millis \in Clock
      BY Resolved DEF NodeInv, Typed
    <2>2. (millis + d) % Width \in Clock
      BY <2>1, InClock DEF Clock
    <2>3. pins' = pins \union {c} /\ load' = l /\ pending' = p
          /\ ran' = 0 /\ high' = 0 /\ wrapped' = FALSE /\ UNCHANGED <<millis, lag>>
          /\ \A x \in pins : x = c
      BY <1>1 DEF Pulse, StartOutput, Accepting, NodeInv, Held
    <2> HIDE DEF d
    <2>4. /\ l \in Loads /\ l.on /\ l.channel = c
          /\ l.offAt = (millis + d) % Width
      BY <2>2 DEF Loads
    <2>5. /\ p \in Commands /\ p.active /\ p.channel = c
          /\ p.started = millis /\ p.duration = d
      BY <2>1 DEF Commands
    <2> HIDE DEF l, p
    <2>6. Typed'
      BY <2>1, <2>3, <2>4, <2>5 DEF NodeInv, Typed
    <2>7. Held'
      BY <2>3, <2>4, <2>5 DEF Held
    <2>8. Elapsed' /\ InTime' /\ NotEarly'
      BY <2>1, <2>3, <2>5 DEF Elapsed, InTime, NotEarly, Clock, NodeInv, Typed
    <2> QED BY <2>6, <2>7, <2>8 DEF NodeInv
  <1>2. ASSUME NEW c \in Channels, Stop(c) PROVE NodeInv'
    <2>1. ~pending.active /\ ~load.on /\ pins = {}
      BY <1>2 DEF Stop, Accepting, NodeInv, Held
    <2> QED BY <1>2, <2>1 
      DEF Stop, StopChannel, NodeInv, Typed, Held, Elapsed, InTime, NotEarly, watch
  <1>3. ASSUME LoopPass PROVE NodeInv'
    <2>1. CASE Complete
      <3>1. Empty'
        BY <1>3, <2>1, Completes DEF LoopPass, Complete, Empty, NodeInv, Typed
      <3> QED BY <3>1, EmptyInv, PTL
    <2>2. CASE TimedOut /\ StopChannel(load.channel) /\ UNCHANGED <<millis, pending, watch>>
               /\ lag' = 0
      <3>1. pins' = {} /\ load' = NoLoad
        BY <2>2 DEF StopChannel, TimedOut, NodeInv, Held
      <3>2. Typed' /\ Held' /\ Elapsed' /\ InTime'
        BY <2>2, <3>1, Nothing DEF NodeInv, Typed, Held, Elapsed, InTime, watch
      <3>3. ASSUME pending.active, pending.started + pending.duration <= Width,
                   high < pending.duration
            PROVE  FALSE
        <4>1. /\ load.on /\ load.offAt # 0 /\ millis >= load.offAt
              /\ load.offAt = (pending.started + pending.duration) % Width
          BY <2>2 DEF TimedOut, NodeInv, Held
        <4>2. /\ pending.started \in Clock /\ millis \in Clock /\ ran \in Nat
              /\ pending.duration \in MinPulse..MaxPulse
          BY <3>3 DEF NodeInv, Typed, Commands
        <4>3. high = ran
          BY <3>3 DEF NodeInv, NotEarly
        <4>4. pending.active /\ ran < Long /\ pending.started + ran < Width
          BY <3>3, <4>2, <4>3 DEF Long, Clock
        <4>5. millis = pending.started + ran
          BY <4>4 DEF NodeInv, Elapsed
        <4> DEFINE a == pending.started + pending.duration
        <4>6. a \in Int /\ -Width <= a /\ a < 2 * Width /\ 0 <= a /\ a <= Width
              /\ millis < a
          BY <3>3, <4>2, <4>3, <4>5 DEF Clock
        <4>7. load.offAt = a % Width
          BY <4>1
        <4> HIDE DEF a
        <4>8. load.offAt = IF a < Width THEN a ELSE a - Width
          BY <4>6, <4>7, Wraps
        <4> QED BY <4>1, <4>2, <4>6, <4>8 DEF Clock
      <3>4. NotEarly'
        BY <2>2, <3>3 DEF NotEarly, watch
      <3> QED BY <3>2, <3>4 DEF NodeInv
    <2>3. CASE ~TimedOut /\ UNCHANGED <<pins, load, millis, pending, watch>> /\ lag' = 0
      <3>1. Typed' /\ Held' /\ Elapsed' /\ NotEarly'
        BY <2>3 DEF NodeInv, Typed, Held, Elapsed, NotEarly, watch
      <3>2. ASSUME pending.active, ~wrapped, pending.channel \in pins
            PROVE  ran <= pending.duration
        <4>1. /\ load.on
              /\ load.offAt = (pending.started + pending.duration) % Width
          BY <3>2 DEF NodeInv, Held
        <4>2. /\ pending.started \in Clock /\ millis \in Clock /\ ran \in Nat
              /\ pending.duration \in MinPulse..MaxPulse
          BY <3>2 DEF NodeInv, Typed, Commands
        <4>3. ran < Long /\ millis = pending.started + ran
          BY <3>2, <4>2 DEF NodeInv, Typed, InTime, Elapsed, Long
        <4>4. load.offAt = 0 \/ millis < load.offAt
          BY <2>3, <4>1, <4>2 DEF TimedOut, NodeInv, Typed, Loads, Clock
        <4>5. load.offAt = IF pending.started + pending.duration < Width
                           THEN pending.started + pending.duration
                           ELSE pending.started + pending.duration - Width
          <5> DEFINE a == pending.started + pending.duration
          <5>1. a \in Int /\ -Width <= a /\ a < 2 * Width /\ 0 <= a
            BY <4>2 DEF Clock
          <5>2. load.offAt = a % Width
            BY <4>1
          <5> HIDE DEF a
          <5>3. load.offAt = IF a < Width THEN a ELSE a - Width
            BY <5>1, <5>2, Wraps
          <5> QED BY <4>2, <5>3 DEF a, Clock
        <4> QED BY <4>2, <4>3, <4>4, <4>5 DEF Clock
      <3>3. InTime'
        BY <2>3, <3>2 DEF NodeInv, Typed, InTime, watch
      <3> QED BY <3>1, <3>3 DEF NodeInv
    <2> QED BY <1>3, <2>1, <2>2, <2>3 DEF LoopPass
  <1>4. ASSUME Disconnect \/ InputsChange PROVE NodeInv'
    BY <1>4
    DEF Disconnect, InputsChange, NodeInv, Typed, Held, Elapsed, InTime, NotEarly, pulse, watch
  <1>5. ASSUME Reboot PROVE NodeInv'
    <2>1. Empty'
      BY <1>5, Nothing, Zero DEF Reboot, Empty
    <2> QED BY <2>1, EmptyInv, PTL
  <1>6. ASSUME TimePasses PROVE NodeInv'
    <2>1. millis \in Clock /\ millis' = (millis + 1) % Width /\ lag' = lag + 1
          /\ lag \in 0..MaxLag /\ lag < MaxLag /\ UNCHANGED <<pins, load, pending>>
      BY <1>6 DEF TimePasses, pulse, NodeInv, Typed
    <2>2. millis' = IF millis + 1 < Width THEN millis + 1 ELSE 0
      <3> DEFINE a == millis + 1
      <3>1. a \in Int /\ -Width <= a /\ a < 2 * Width /\ 0 <= a /\ a <= Width
        BY <2>1 DEF Clock
      <3>2. millis' = a % Width
        BY <2>1
      <3> HIDE DEF a
      <3>3. millis' = IF a < Width THEN a ELSE a - Width
        BY <3>1, <3>2, Wraps
      <3>4. a = millis + 1 /\ millis \in Int /\ Width \in Int
        BY <2>1 DEF a, Clock
      <3> QED BY <3>1, <3>3, <3>4
    <2>3. Held'
      BY <2>1 DEF NodeInv, Held
    <2>4. CASE ~pending.active
      BY <1>6, <2>1, <2>2, <2>3, <2>4
      DEF TimePasses, watch, NodeInv, Typed, Elapsed, InTime, NotEarly, Clock
    <2>5. CASE pending.active
      <3>1. /\ ran' = IF ran < Long THEN ran + 1 ELSE ran
            /\ high' = IF pending.channel \in pins /\ high < Long THEN high + 1 ELSE high
            /\ wrapped' = (wrapped \/ millis' = 0)
        BY <1>6, <2>5 DEF TimePasses
      <3>2. /\ pending.started \in Clock /\ ran \in Nat /\ high \in Nat
            /\ pending.duration \in MinPulse..MaxPulse /\ wrapped \in BOOLEAN
        BY <2>5 DEF NodeInv, Typed, Commands
      <3>3. Typed'
        BY <2>1, <2>2, <2>5, <3>1, <3>2 DEF NodeInv, Typed, Clock, Long
      <3>4. Elapsed'
        <4>1. SUFFICES ASSUME ran' < Long
              PROVE  /\ millis' = IF pending.started + ran' < Width
                                  THEN pending.started + ran'
                                  ELSE pending.started + ran' - Width
                     /\ ~wrapped' => pending.started + ran' < Width
          BY <2>1 DEF Elapsed
        <4>2. ran < Long /\ ran' = ran + 1 /\ ran' < Width
          BY <3>1, <3>2, <4>1 DEF Long
        <4>3. /\ millis = IF pending.started + ran < Width
                          THEN pending.started + ran ELSE pending.started + ran - Width
              /\ ~wrapped => pending.started + ran < Width
          BY <2>5, <4>2 DEF NodeInv, Elapsed
        <4> DEFINE s == pending.started
        <4>4. /\ millis \in Int /\ 0 <= millis /\ millis < Width
              /\ s \in Int /\ 0 <= s /\ s < Width /\ Width \in Int
          BY <2>1, <3>2 DEF Clock
        <4>5. /\ millis = IF s + ran < Width THEN s + ran ELSE s + ran - Width
              /\ ~wrapped => s + ran < Width
          BY <4>3
        <4> HIDE DEF s
        <4>6. millis' = IF s + ran' < Width THEN s + ran' ELSE s + ran' - Width
          BY <2>2, <3>2, <4>2, <4>4, <4>5
        <4>7. ASSUME ~wrapped' PROVE s + ran' < Width
          <5>1. ~wrapped /\ millis' # 0
            BY <3>1, <4>7, Zenon
          <5> QED BY <2>2, <3>2, <4>2, <4>4, <4>5, <5>1
        <4> QED BY <4>6, <4>7 DEF s
      <3>5. InTime'
        BY <2>1, <2>2, <2>5, <3>1, <3>2 DEF NodeInv, InTime, Clock, Long
      <3>6. NotEarly'
        BY <2>1, <3>1, <3>2 DEF NodeInv, NotEarly, Long
      <3> QED BY <2>3, <3>3, <3>4, <3>5, <3>6 DEF NodeInv
    <2> QED BY <2>4, <2>5
  <1>7. CASE UNCHANGED vars
    BY <1>7 DEF vars, NodeInv, Typed, Held, Elapsed, InTime, NotEarly, pulse, watch
  <1> QED BY <1>1, <1>2, <1>3, <1>4, <1>5, <1>6, <1>7 DEF Next

LEMMA NodeInvAlways == Spec => []NodeInv
  <1>1. Init => NodeInv
    <2>1. Init => Empty
      BY NodeConstants, Nothing DEF Init, Empty
    <2> QED BY <2>1, EmptyInv
  <1> QED BY <1>1, NodeInvNext, PTL DEF Spec

(* An output is high only while the command that started it runs             *)
(* (completePending, nodeGpioLoop and nodeGpioStopChannel).                  *)
THEOREM OutputsAreHeld == Spec => []OutputHasCommand
  <1>1. NodeInv => OutputHasCommand
    BY DEF NodeInv, Held, OutputHasCommand
  <1> QED BY <1>1, NodeInvAlways, PTL

(* Without a wrap of the counter an output is off within the loop's delay of *)
(* its deadline, with or without a connection (nodeGpioLoop).                *)
THEOREM InTimeWithoutWrap == Spec => []OverrunNeedsWrap
  <1>1. NodeInv => OverrunNeedsWrap
    BY NodeConstants DEF NodeInv, Typed, Commands, InTime, OverrunNeedsWrap
  <1> QED BY <1>1, NodeInvAlways, PTL

(* A command that is reported completed has lasted its duration, also across *)
(* a wrap, and so has its output, but for a deadline beyond the wrap         *)
(* (nodeCmdLoop takes a difference, nodeGpioLoop compares with a deadline).  *)
THEOREM CompletedAreDone == Spec => CompletedIsDone
  <1> DEFINE Ends == pending.active /\ ~pending'.active =>
                       \/ Reboot
                       \/ /\ ran >= pending.duration
                          /\ \/ high >= pending.duration
                             \/ pending.started + pending.duration > Width
  <1>1. ASSUME NodeInv, [Next]_vars PROVE Ends
    <2> USE NodeConstants
    <2>1. ASSUME LoopPass, pending.active, ~pending'.active
          PROVE  /\ ran >= pending.duration
                 /\ \/ high >= pending.duration
                    \/ pending.started + pending.duration > Width
      <3>1. Due
        BY <2>1 DEF LoopPass, watch
      <3>2. /\ millis \in Clock /\ pending.started \in Clock /\ ran \in Nat
            /\ pending.duration \in MinPulse..MaxPulse
        BY <1>1, <2>1 DEF NodeInv, Typed, Commands
      <3>3. ran >= pending.duration
        <4>1. CASE ran < Long
          <5>1. (millis - pending.started) % Width = ran
            <6> DEFINE a == millis - pending.started
            <6>1. a = IF pending.started + ran < Width THEN ran ELSE ran - Width
              BY <1>1, <2>1, <3>2, <4>1 DEF NodeInv, Elapsed, Clock
            <6>2. ran < Width
              BY <3>2, <4>1 DEF Long
            <6> HIDE DEF a
            <6>3. a \in Int /\ -Width <= a /\ a < 2 * Width /\ (a = ran \/ a = ran - Width)
              BY <3>2, <6>1, <6>2
            <6>4. a % Width = ran
              BY <3>2, <6>2, <6>3, Wraps
            <6> QED BY <6>4 DEF a
          <5> QED BY <3>1, <3>2, <5>1 DEF Due
        <4> QED BY <3>2, <4>1 DEF Long
      <3>4. ASSUME pending.started + pending.duration <= Width
            PROVE  high >= pending.duration
        BY <1>1, <2>1, <3>2, <3>3, <3>4 DEF NodeInv, NotEarly, Typed
      <3> QED BY <3>2, <3>3, <3>4 DEF Clock
    <2>2. ASSUME NEW c \in Channels, NEW asked \in 0..MaxAsked, Pulse(c, asked) PROVE Ends
      BY <2>2 DEF Pulse, Accepting
    <2>3. ASSUME NEW c \in Channels, Stop(c) PROVE Ends
      BY <2>3 DEF Stop
    <2>4. ASSUME Disconnect \/ InputsChange \/ TimePasses \/ UNCHANGED vars PROVE Ends
      BY <2>4 DEF Disconnect, InputsChange, TimePasses, pulse, vars
    <2> QED BY <1>1, <2>1, <2>2, <2>3, <2>4 DEF Next
  <1> QED BY <1>1, NodeInvAlways, PTL DEF Spec, CompletedIsDone
=============================================================================
