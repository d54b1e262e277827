-------------------------- MODULE OnboardingProofs --------------------------
(***************************************************************************)
(* A code gives one token, the node and the platform have the same, and a  *)
(* node that has joined keeps its token: for any codes and tokens, and any *)
(* number of faults.                                                       *)
(***************************************************************************)
EXTENDS Onboarding, TLAPS

\* A code in the file has given no token yet.
CodeInv ==
  /\ codes \subseteq Codes /\ uses \in [Codes -> Nat]
  /\ \A c \in Codes : uses[c] <= 1 /\ (c \in codes => uses[c] = 0)

LEMMA CodeInvNext == CodeInv /\ [Next]_vars => CodeInv'
  <1> SUFFICES ASSUME CodeInv, [Next]_vars PROVE CodeInv'
    OBVIOUS
  <1>1. ASSUME NEW c \in Codes, Pair(c) PROVE CodeInv'
    BY <1>1 DEF Pair, Active, CodeInv
  <1>2. ASSUME NEW q \in requests, NEW t \in Tokens, Register(q, t) PROVE CodeInv'
    <2>1. q.code \in codes /\ codes' = codes \ {q.code}
          /\ uses' = [uses EXCEPT ![q.code] = @ + 1]
      BY <1>2 DEF Register, Active, Claim
    <2> QED BY <2>1 DEF CodeInv
  <1>3. ASSUME NEW q \in requests, RegisterPartly(q) PROVE CodeInv'
    BY <1>3 DEF RegisterPartly, Claim, CodeInv, ghosts
  <1>4. ASSUME UNCHANGED <<codes, uses>> PROVE CodeInv'
    BY <1>4 DEF CodeInv
  <1>5. ASSUME NEW c \in Codes, CodeExpires(c) \/ Post(c) PROVE UNCHANGED <<codes, uses>>
    BY <1>5 DEF CodeExpires, Post, server, file, ghosts
  <1>6. ASSUME PairingPublished \/ PairingFails \/ Bind \/ Connect \/ Disconnect
               \/ GivesUp \/ Reboot \/ ApiStops
        PROVE  UNCHANGED <<codes, uses>>
    BY <1>6 DEF PairingPublished, PairingFails, Bind, Connect, Disconnect, GivesUp,
                Reboot, ApiStops, server, file, ghosts
  <1>7. ASSUME NEW q \in requests,
               Refuse(q) \/ Cleared(q) \/ ClearFails(q) \/ Answered(q) \/ Lost(q)
        PROVE  UNCHANGED <<codes, uses>>
    BY <1>7 DEF Refuse, Cleared, ClearFails, Answered, Lost, server, file, ghosts
  <1>8. CASE UNCHANGED vars
    BY <1>8, <1>4 DEF vars, server, file, ghosts
  <1>9. ASSUME NEW c \in Codes, NEW t \in Tokens, Reregister(c, t)
        PROVE  UNCHANGED <<codes, uses>>
    BY <1>9 DEF Reregister, server, file, ghosts
  <1> QED BY <1>1, <1>2, <1>3, <1>4, <1>5, <1>6, <1>7, <1>8, <1>9 DEF Next

(* A code is good for one token, however often it is posted                  *)
(* (claimNodeInstallCode).                                                   *)
THEOREM OneTokenPerCode == Spec => []CodeUsedOnce
  <1>1. Init => CodeInv
    BY DEF Init, CodeInv
  <1>2. CodeInv => CodeUsedOnce
    BY DEF CodeInv, CodeUsedOnce
  <1> QED BY <1>1, <1>2, CodeInvNext, PTL DEF Spec

-----------------------------------------------------------------------------
\* A node waits for one post at most, and for none once it has a token; the
\* token it is about to get is the platform's, unless a post was overtaken.
TokenInv ==
  /\ requests \subseteq Registration /\ overtaken \in BOOLEAN /\ replaced \in BOOLEAN
  /\ codes \subseteq Codes /\ mail \subseteq Codes
  /\ retained \in Codes \union {None} /\ pairing \in Codes \union {None}
  /\ issued \in Tokens \union {None} /\ saved \in Tokens \union {None}
  /\ \A p, q \in requests : p.waited /\ q.waited => p = q
  /\ \A q \in requests : q.waited => posting # None
  /\ saved # None => posting = None
  /\ \A q \in requests : q.stage = "sent" => q.token = None
  /\ TokenAgrees
  /\ \A q \in requests : q.waited /\ q.token # None /\ ~overtaken /\ ~replaced => q.token = issued

\* A registration at another stage.
LEMMA AtIs ==
  ASSUME NEW q \in Registration, NEW stage \in {"sent", "clearing", "answered"},
         NEW t \in Tokens \union {None}
  PROVE  LET r == At(q, stage, t) IN
         r \in Registration /\ r.waited = q.waited /\ r.stage = stage /\ r.token = t
  BY DEF At, Registration

\* What an answer makes of the registrations.
LEMMA AnswerMakes ==
  ASSUME NEW q \in requests, NEW t \in Tokens \union {None},
         requests \subseteq Registration, Answer(q, t)
  PROVE  /\ requests' \subseteq Registration
         /\ \A r \in requests' :
              \/ r \in requests \ {q}
              \/ /\ q.waited /\ r.waited /\ r.stage = "answered" /\ r.token = t
  <1>1. /\ At(q, "answered", t) \in Registration
        /\ At(q, "answered", t).waited = q.waited
        /\ At(q, "answered", t).stage = "answered" /\ At(q, "answered", t).token = t
    BY AtIs
  <1> QED BY <1>1 DEF Answer, Replace

LEMMA TokenInvNext == TokenInv /\ [Next]_vars => TokenInv'
  <1> SUFFICES ASSUME TokenInv, [Next]_vars PROVE TokenInv'
    OBVIOUS
  <1> USE OnboardingConstants
  <1>1. ASSUME NEW c \in Codes, Pair(c) PROVE TokenInv'
    BY <1>1 DEF Pair, Active, TokenInv, TokenAgrees, node
  <1>2. ASSUME NEW c \in Codes, CodeExpires(c) PROVE TokenInv'
    BY <1>2 DEF CodeExpires, TokenInv, TokenAgrees, node, ghosts
  <1>3. ASSUME NEW c \in Codes, Post(c) PROVE TokenInv'
    <2> DEFINE r == [code |-> c, presents |-> None, waited |-> TRUE, stage |-> "sent", token |-> None]
    <2>1. r \in Registration /\ r.waited /\ r.stage = "sent" /\ r.token = None
      BY DEF Registration
    <2> HIDE DEF r
    <2>2. CASE Accepts
      <3>1. \A q \in requests : ~q.waited
        BY <1>3 DEF Post, TokenInv
      <3>2. requests' = requests \union {r} /\ posting' = c /\ posting' # None
        BY <1>3, <2>2 DEF Post, r
      <3> QED BY <1>3, <2>1, <2>2, <3>1, <3>2 DEF Post, Accepts, TokenInv, TokenAgrees, server, file, ghosts
    <2>3. CASE ~Accepts
      BY <1>3, <2>3 DEF Post, TokenInv, TokenAgrees, server, file, ghosts
    <2> QED BY <2>2, <2>3
  <1>4. ASSUME PairingPublished \/ PairingFails \/ Bind \/ Connect \/ Disconnect
        PROVE  TokenInv'
    BY <1>4 DEF PairingPublished, PairingFails, Bind, Connect, Disconnect, TokenInv,
                TokenAgrees, server, file, node, ghosts
  <1>5. ASSUME GivesUp \/ Reboot PROVE TokenInv'
    <2>1. requests' = Abandoned /\ posting' = None
          /\ UNCHANGED <<codes, issued, saved, overtaken, replaced, retained, pairing>>
          /\ mail' \in {mail, {}}
      BY <1>5 DEF GivesUp, Reboot, server, file, ghosts
    <2>2. ASSUME NEW q \in Registration
          PROVE  LET r == [code |-> q.code, presents |-> q.presents, waited |-> FALSE, stage |-> q.stage,
                           token |-> q.token] IN
                 /\ r \in Registration /\ ~r.waited
                 /\ r.stage = q.stage /\ r.token = q.token
      BY DEF Registration
    <2>3. \A r \in requests' : /\ r \in Registration /\ ~r.waited
                               /\ r.stage = "sent" => r.token = None
      BY <2>1, <2>2 DEF Abandoned, TokenInv
    <2> QED BY <2>1, <2>3 DEF TokenInv, TokenAgrees
  <1>6. ASSUME ApiStops PROVE TokenInv'
    <2> DEFINE Ended(q) == IF q.stage = "clearing" THEN At(q, "answered", None) ELSE q
    <2>1. ASSUME NEW q \in requests
          PROVE  LET r == Ended(q) IN
                 /\ r \in Registration /\ r.waited = q.waited
                 /\ r.stage = "sent" => r.token = None
                 /\ r.token \in {None, q.token}
      <3>1. q \in Registration
        BY DEF TokenInv
      <3>2. CASE q.stage = "clearing"
        BY <3>1, <3>2, AtIs
      <3>3. CASE q.stage # "clearing"
        BY <3>1, <3>3 DEF TokenInv
      <3> QED BY <3>2, <3>3
    <2>2. \A r \in requests' : \E q \in requests : r = Ended(q)
      BY <1>6 DEF ApiStops
    <2>3. UNCHANGED <<codes, issued, retained, mail, saved, posting, overtaken, replaced>>
          /\ pairing' = None
      BY <1>6 DEF ApiStops, file, node, ghosts
    <2> HIDE DEF Ended
    <2>4. \A p, q \in requests' : p.waited /\ q.waited => p = q
      BY <2>1, <2>2 DEF TokenInv
    <2>5. \A r \in requests' : /\ r \in Registration
                               /\ r.waited => posting' # None
                               /\ r.stage = "sent" => r.token = None
                               /\ r.waited /\ r.token # None /\ ~overtaken' /\ ~replaced'
                                  => r.token = issued'
      BY <2>1, <2>2, <2>3 DEF TokenInv
    <2> QED BY <2>3, <2>4, <2>5 DEF TokenInv, TokenAgrees
  <1>7. ASSUME NEW q \in requests, NEW t \in Tokens, Register(q, t) PROVE TokenInv'
    <2> DEFINE r == At(q, "clearing", t)
    <2>1. q \in Registration
      BY DEF TokenInv
    <2>2. r \in Registration /\ r.waited = q.waited /\ r.stage = "clearing" /\ r.token = t
      BY <2>1, AtIs
    <2>4. /\ requests' = (requests \ {q}) \union {r} /\ issued' = t
          /\ overtaken' = (overtaken \/ Overtakes(q)) /\ replaced' \in BOOLEAN
          /\ replaced' = (replaced \/ Presents(q))
          /\ codes' \subseteq codes
          /\ UNCHANGED <<pairing, retained, mail, saved, posting>>
      BY <1>7 DEF Register, Replace, Claim, node, TokenInv
    <2> HIDE DEF r
    <2>6. CASE q.waited
      <3>1. saved = None
        BY <2>6 DEF TokenInv
      <3>2. \A p \in requests' : p.waited => p = r
        BY <2>4, <2>6 DEF TokenInv
      <3> QED BY <2>2, <2>4, <2>6, <3>1, <3>2 DEF TokenInv, TokenAgrees
    <2>7. CASE ~q.waited
      <3>1. ~overtaken' /\ ~replaced' => saved = None /\ \A p \in requests : p.waited => p.token = None
        BY <2>4, <2>7 DEF Overtakes, Waited
      <3> QED BY <2>2, <2>4, <2>7, <3>1 DEF TokenInv, TokenAgrees
    <2> QED BY <2>1, <2>6, <2>7 DEF Registration
  <1>8. ASSUME NEW q \in requests,
               Refuse(q) \/ RegisterPartly(q) \/ Cleared(q) \/ ClearFails(q)
        PROVE  TokenInv'
    <2>0. q \in Registration
      BY DEF TokenInv
    <2>1. PICK t \in {None, q.token} : Answer(q, t)
      BY <1>8 DEF Refuse, RegisterPartly, Cleared, ClearFails
    <2>2. t \in Tokens \union {None}
      BY <2>0 DEF Registration
    <2>3. /\ codes' \subseteq codes /\ retained' \in {retained, None}
          /\ UNCHANGED <<issued, pairing, mail, saved, posting, overtaken, replaced>>
      BY <1>8 DEF Refuse, RegisterPartly, Cleared, ClearFails, Claim, server, file, node, ghosts
    <2>4. /\ requests' \subseteq Registration
          /\ \A r \in requests' :
               \/ r \in requests \ {q}
               \/ /\ q.waited /\ r.waited /\ r.stage = "answered" /\ r.token = t
      BY <2>1, <2>2, AnswerMakes DEF TokenInv
    <2>5. \A r, p \in requests' : r.waited /\ p.waited => p = r
      <3>1. CASE q.waited
        <4>1. \A r \in requests' : r.waited => r \notin requests \ {q}
          BY <3>1 DEF TokenInv
        <4>2. \A r \in requests' : r \notin requests \ {q} =>
                r = At(q, "answered", t)
          BY <2>1, <3>1 DEF Answer, Replace
        <4> QED BY <4>1, <4>2
      <3>2. CASE ~q.waited
        BY <2>4, <3>2 DEF TokenInv
      <3> QED BY <3>1, <3>2, <2>0 DEF Registration
    <2>6. \A r \in requests' : /\ r.waited => posting' # None
                               /\ r.stage = "sent" => r.token = None
                               /\ r.waited /\ r.token # None /\ ~overtaken' /\ ~replaced'
                                  => r.token = issued'
      BY <2>1, <2>3, <2>4 DEF TokenInv
    <2> QED BY <2>3, <2>4, <2>5, <2>6 DEF TokenInv, TokenAgrees
  <1>9. ASSUME NEW q \in requests, Answered(q) PROVE TokenInv'
    <2>1. q.waited /\ q \in Registration
      BY <1>9 DEF Answered, Waited, TokenInv
    <2>2. \A r \in requests' : r \in requests /\ ~r.waited
      BY <1>9, <2>1 DEF Answered, TokenInv
    <2>3. saved' # None /\ ~overtaken /\ ~replaced => saved' = issued
      BY <1>9, <2>1 DEF Answered, TokenInv, TokenAgrees
    <2>4. saved' \in Tokens \union {None}
      BY <1>9, <2>1 DEF Answered, TokenInv, Registration
    <2> QED BY <1>9, <2>2, <2>3, <2>4 DEF Answered, TokenInv, TokenAgrees, server, file, ghosts
  <1>10. ASSUME NEW q \in requests, Lost(q) PROVE TokenInv'
    BY <1>10 DEF Lost, TokenInv, TokenAgrees, server, file, node, ghosts
  <1>11. CASE UNCHANGED vars
    BY <1>11 DEF vars, TokenInv, TokenAgrees, server, file, node, ghosts
  <1>12. ASSUME NEW c \in Codes, NEW t \in Tokens, Reregister(c, t) PROVE TokenInv'
    <2> DEFINE r == [code |-> c, presents |-> t, waited |-> FALSE, stage |-> "sent",
                     token |-> None]
    <2>1. r \in Registration /\ ~r.waited /\ r.stage = "sent" /\ r.token = None
      BY DEF Registration
    <2>2. requests' = requests \union {r}
      BY <1>12 DEF Reregister
    <2> HIDE DEF r
    <2> QED BY <1>12, <2>1, <2>2
         DEF Reregister, TokenInv, TokenAgrees, server, file, node, ghosts
  <1> QED BY <1>1, <1>2, <1>3, <1>4, <1>5, <1>6, <1>7, <1>8, <1>9, <1>10, <1>11, <1>12
       DEF Next

(* The token a node keeps is the one the platform knows, whatever posts and  *)
(* answers were lost, unless a post it had given up was handled after it     *)
(* registered with another, or a client presented the token and got a new    *)
(* one (issueNodeToken, httpRegister).                                       *)
THEOREM SameToken == Spec => []TokenAgrees
  <1>1. Init => TokenInv
    BY OnboardingConstants DEF Init, TokenInv, TokenAgrees
  <1>2. TokenInv => TokenAgrees
    BY DEF TokenInv
  <1> QED BY <1>1, <1>2, TokenInvNext, PTL DEF Spec

(* The status and the token of a node that has joined stay, through every    *)
(* post and pairing, until a client presents the token and gets another (the *)
(* test of wasActive, and onPairingMessage of a node that has a token).      *)
THEOREM JoinsForGood == Spec => JoinedForGood
  <1> DEFINE Kept == Joined => Joined' \/ replaced'
  <1>1. ASSUME TokenInv, [Next]_vars PROVE Kept
    <2> SUFFICES ASSUME Joined PROVE Joined' \/ replaced'
      OBVIOUS
    <2> USE DEF Joined
    <2>1. ASSUME NEW q \in requests, NEW t \in Tokens, Register(q, t) PROVE replaced'
      BY <2>1 DEF Register, MayRegister
    <2>2. ASSUME NEW q \in requests, RegisterPartly(q) PROVE Joined'
      BY <2>2 DEF RegisterPartly, Registered, node
    <2>3. ASSUME NEW q \in requests, Answered(q) PROVE FALSE
      BY <1>1, <2>3 DEF Answered, Waited, TokenInv
    <2>4. ASSUME NEW q \in requests, Refuse(q) \/ Cleared(q) \/ ClearFails(q) \/ Lost(q)
          PROVE  Joined'
      BY <2>4 DEF Refuse, Cleared, ClearFails, Lost, server, node
    <2>5. ASSUME NEW c \in Codes, Pair(c) \/ CodeExpires(c) \/ Post(c) PROVE Joined'
      BY <2>5 DEF Pair, CodeExpires, Post, server, node
    <2>6. ASSUME NEW c \in Codes, NEW t \in Tokens, Reregister(c, t) PROVE Joined'
      BY <2>6 DEF Reregister, server, node
    <2>7. ASSUME PairingPublished \/ PairingFails \/ Bind \/ Connect \/ Disconnect
                 \/ GivesUp \/ Reboot \/ ApiStops
          PROVE  Joined'
      BY <2>7 DEF PairingPublished, PairingFails, Bind, Connect, Disconnect, GivesUp,
                  Reboot, ApiStops, server, node
    <2>8. CASE UNCHANGED vars
      BY <2>8 DEF vars, server, node
    <2> QED BY <1>1, <2>1, <2>2, <2>3, <2>4, <2>5, <2>6, <2>7, <2>8 DEF Next
  <1>2. Init => TokenInv
    BY OnboardingConstants DEF Init, TokenInv, TokenAgrees
  <1> QED BY <1>1, <1>2, TokenInvNext, PTL DEF Spec, JoinedForGood
=============================================================================
