----------------------------- MODULE Onboarding -----------------------------
(***************************************************************************)
(* How a Scene Node joins a deployment: the administrator pairs it, which  *)
(* issues an install code (install-codes.ts) and leaves it retained on the *)
(* node's pairing topic; the node posts the code to /nodes/register        *)
(* (routes/nodes.ts, node_reg.cpp) and keeps the token it gets back        *)
(* (tokens.ts); the administrator binds the node, which activates it.      *)
(*                                                                         *)
(* A node that has a token ignores every further code.  What the platform  *)
(* takes for the node's token is the last one it issued: it signs commands *)
(* with it and drops events and telemetry that carry another.  An active   *)
(* node may be registered again by a client that presents its token, which *)
(* the API offers and its tests do; the firmware presents none.            *)
(***************************************************************************)
EXTENDS Naturals, FiniteSets

CONSTANTS Codes,      \* install codes, used again when nothing holds them
          Tokens,     \* node tokens, used again likewise
          None,       \* no code, no token
          MaxActive,  \* MAX_ACTIVE_CODES
          MaxFaults   \* bound: posts given up, reboots, crashes, lost packets

ASSUME OnboardingConstants ==
  /\ None \notin Codes \union Tokens
  /\ MaxActive \in Nat \ {0} /\ MaxFaults \in Nat

VARIABLES
  codes,      \* node-install-codes.json
  old,        \* the codes in it that have expired
  issued,     \* node-tokens.json: the node's token
  status,     \* the node in the registry: "none", "pending" or "active"
  pairing,    \* the code of a pairing call that has not published yet
  retained,   \* the code retained on the pairing topic
  online,     \* the node is connected and subscribed to it
  mail,       \* codes the node has received and not looked at
  saved,      \* the node's preferences: its token
  posting,    \* the code the node is posting
  requests,   \* registrations on their way, or being handled
  uses,       \* [Codes -> tokens issued for the code since it was issued]
  overtaken,  \* a post the node had given up was handled after a later one
  replaced,   \* a client that presented the issued token got another
  faults

file == <<codes, old>>
server == <<file, issued, status, pairing>>
node == <<online, mail, saved, posting>>
ghosts == <<uses, overtaken, replaced>>
vars == <<server, retained, node, requests, ghosts, faults>>

-----------------------------------------------------------------------------
\* A registration: the code posted, the node_token presented with it, whether
\* the node waits for the answer, how far the handler is, and what it issued.
Registration == [code : Codes, presents : Tokens \union {None}, waited : BOOLEAN,
                 stage : {"sent", "clearing", "answered"},
                 token : Tokens \union {None}]

\* The registration q at a stage, with a token.
At(q, stage, t) ==
  [code |-> q.code, presents |-> q.presents, waited |-> q.waited,
   stage |-> stage, token |-> t]

\* What nothing in the system holds any more; pairing prunes expired codes.
FreeCodes == Codes \ ((codes \ old) \union mail \union {retained, posting, pairing}
                      \union {q.code : q \in requests})

FreeTokens == Tokens \ ({issued, saved} \union {q.token : q \in requests}
                         \union {q.presents : q \in requests})

Init ==
  /\ codes = {} /\ old = {} /\ issued = None /\ status = "none" /\ pairing = None
  /\ retained = None
  /\ online = FALSE /\ mail = {} /\ saved = None /\ posting = None
  /\ requests = {}
  /\ uses = [c \in Codes |-> 0]
  /\ overtaken = FALSE /\ replaced = FALSE
  /\ faults = 0

-----------------------------------------------------------------------------
(* The administrator *)

\* issueNodeInstallCode: those that expired are pruned before the rest is
\* counted and saved.
Active == codes \ old

\* POST /admin/nodes/:node_id/pair, up to its await: a code for this node.
\* One such call at a time.
Pair(c) ==
  /\ pairing = None /\ c \in FreeCodes
  /\ Cardinality(Active) < MaxActive      \* else too_many_active_install_codes
  /\ codes' = Active \union {c}
  /\ old' = {}
  /\ pairing' = c
  /\ uses' = [uses EXCEPT ![c] = 0]
  /\ UNCHANGED <<issued, status, retained, node, requests, overtaken, replaced,
                 faults>>

\* publishPairingInstallCode: retained, and delivered to a node that listens.
PairingPublished ==
  /\ pairing # None
  /\ pairing' = None
  /\ retained' = pairing
  /\ mail' = IF online THEN mail \union {pairing} ELSE mail
  /\ UNCHANGED <<file, issued, status, online, saved, posting, requests, ghosts,
                 faults>>

\* The publish fails: logged as not fatal, and the code stays valid.
PairingFails ==
  /\ pairing # None /\ faults < MaxFaults
  /\ pairing' = None
  /\ faults' = faults + 1
  /\ UNCHANGED <<file, issued, status, retained, node, requests, ghosts>>

\* PUT /admin/nodes/:node_id/binding: applyNodeBinding activates the node.
Bind ==
  /\ status # "none"                      \* else node_not_found
  /\ status' = "active"
  /\ UNCHANGED <<file, issued, pairing, retained, node, requests, ghosts,
                 faults>>

\* ttl_minutes: an expired code is no code.  Publishing and posting take
\* seconds, a code lives for half an hour: that it expires while the node has
\* it in hand is one of the faults.
CodeExpires(c) ==
  /\ c \in Active /\ c # pairing
  /\ old' = old \union {c}
  /\ IF posting # None \/ c \in mail
     THEN faults < MaxFaults /\ faults' = faults + 1
     ELSE UNCHANGED faults
  /\ UNCHANGED <<codes, issued, status, pairing, retained, node, requests, ghosts>>

-----------------------------------------------------------------------------
(* The node *)

\* nodeRegLoop connects, and the next pass subscribes if it has no token; the
\* broker then delivers what is retained.
Connect ==
  /\ ~online /\ posting = None /\ saved = None
  /\ online' = TRUE
  /\ mail' = IF retained = None THEN mail ELSE mail \union {retained}
  /\ UNCHANGED <<server, retained, saved, posting, requests, ghosts, faults>>

\* The connection is lost, and with it what was not yet received.
Disconnect ==
  /\ online /\ posting = None /\ faults < MaxFaults
  /\ online' = FALSE /\ mail' = {}
  /\ faults' = faults + 1
  /\ UNCHANGED <<server, retained, saved, posting, requests, ghosts>>

\* Mutant of Accepts: a node that has a token registers again.
Accepts_Always == TRUE

\* onPairingMessage: ignored by a node that is registered.
Accepts == saved = None

\* onPairingMessage and httpRegister: the post blocks the node's loop.
Post(c) ==
  /\ c \in mail /\ posting = None
  /\ mail' = mail \ {c}
  /\ IF Accepts
     THEN /\ posting' = c
          /\ requests' = requests \union
               {[code |-> c, presents |-> None, waited |-> TRUE, stage |-> "sent",
                 token |-> None]}
     ELSE UNCHANGED <<posting, requests>>
  /\ UNCHANGED <<server, retained, online, saved, ghosts, faults>>

Waited == {q \in requests : q.waited}

\* The registrations once the node waits for none: an answer finds nobody.
Abandoned ==
  {[code |-> q.code, presents |-> q.presents, waited |-> FALSE,
    stage |-> q.stage, token |-> q.token] : q \in {x \in requests : x.stage # "answered"}}

\* httpRegister with a 200 and a token: saveToken.  With anything else the
\* node waits for the next code.
Answered(q) ==
  /\ q \in Waited /\ q.stage = "answered"
  /\ requests' = requests \ {q}
  /\ posting' = None
  /\ saved' = IF q.token # None THEN q.token ELSE saved
  /\ UNCHANGED <<server, retained, online, mail, ghosts, faults>>

\* The post fails or takes too long: its request may still arrive, or be
\* under way.
GivesUp ==
  /\ posting # None /\ faults < MaxFaults
  /\ posting' = None
  /\ requests' = Abandoned
  /\ faults' = faults + 1
  /\ UNCHANGED <<server, retained, online, mail, saved, ghosts>>

\* loadPrefs: the token survives.
Reboot ==
  /\ faults < MaxFaults
  /\ online' = FALSE /\ mail' = {} /\ posting' = None
  /\ requests' = Abandoned
  /\ faults' = faults + 1
  /\ UNCHANGED <<server, retained, saved, ghosts>>

\* A client that has a token of the node registers the active node again: the
\* token the node keeps, or the last one, which an earlier such call returned.
\* One such call at a time.
Reregister(c, t) ==
  /\ status = "active"
  /\ c \in codes /\ t \in {issued, saved} \ {None}
  /\ \A q \in requests : q.presents = None
  /\ requests' = requests \union
       {[code |-> c, presents |-> t, waited |-> FALSE, stage |-> "sent", token |-> None]}
  /\ UNCHANGED <<server, retained, node, ghosts, faults>>

-----------------------------------------------------------------------------
(* POST /nodes/register *)

Replace(q, r) == requests' = (requests \ {q}) \union {r}

\* The handler's answer, with a token or an error.
Answer(q, t) ==
  IF q.waited THEN Replace(q, At(q, "answered", t))
              ELSE requests' = requests \ {q}

\* Mutants of MayRegister: any node; a node that never registered.
MayRegister_Always(q) == TRUE

MayRegister_Once(q) == status = "none"

\* validateNodeToken.
Presents(q) == q.presents # None /\ q.presents = issued

\* The test of `wasActive`: an active node needs its node_token.
MayRegister(q) == status = "active" => Presents(q)

\* 409 node_already_active, or 400 for a code that is not valid.
Refuse(q) ==
  /\ q \in requests /\ q.stage = "sent"
  /\ ~MayRegister(q) \/ q.code \notin Active
  /\ Answer(q, None)
  /\ UNCHANGED <<server, retained, node, ghosts, faults>>

\* Mutant of Claim: the code stays in the file.
Claim_Kept(c) == UNCHANGED file

\* claimNodeInstallCode: a code is good for one registration.
Claim(c) == codes' = codes \ {c} /\ old' = old \ {c}

\* A post that the node has given up is handled after a later one.
Overtakes(q) ==
  ~q.waited /\ ~Presents(q) /\ (saved # None \/ \E later \in Waited : later.token # None)

\* upsertNodeInRegistry: an active node stays active.
Registered == IF status = "active" THEN "active" ELSE "pending"

\* The handler up to its await: the code is claimed, the node registered, and
\* its token replaced.
Register(q, t) ==
  /\ q \in requests /\ q.stage = "sent"
  /\ MayRegister(q) /\ q.code \in Active
  /\ t \in FreeTokens
  /\ Claim(q.code)
  /\ status' = Registered
  /\ issued' = t
  /\ uses' = [uses EXCEPT ![q.code] = @ + 1]
  /\ overtaken' = (overtaken \/ Overtakes(q))
  /\ replaced' = (replaced \/ Presents(q))
  /\ Replace(q, At(q, "clearing", t))
  /\ UNCHANGED <<pairing, retained, node, faults>>

\* The registry or the token file cannot be written after the code is gone,
\* or the process stops in between: an error or no answer, and the node may
\* be in the registry.
RegisterPartly(q) ==
  /\ q \in requests /\ q.stage = "sent" /\ faults < MaxFaults
  /\ MayRegister(q) /\ q.code \in Active
  /\ Claim(q.code)
  /\ status' \in {status, Registered}
  /\ Answer(q, None)
  /\ faults' = faults + 1
  /\ UNCHANGED <<issued, pairing, retained, node, ghosts>>

\* clearPairingInstallCode: whatever is retained by now; then the answer.
Cleared(q) ==
  /\ q \in requests /\ q.stage = "clearing"
  /\ retained' = None
  /\ Answer(q, q.token)
  /\ UNCHANGED <<server, node, ghosts, faults>>

\* The clear fails or times out: logged as not fatal.
ClearFails(q) ==
  /\ q \in requests /\ q.stage = "clearing" /\ faults < MaxFaults
  /\ Answer(q, q.token)
  /\ faults' = faults + 1
  /\ UNCHANGED <<server, retained, node, ghosts>>

\* A request that nobody of the node waits for does not arrive.
Lost(q) ==
  /\ q \in requests /\ ~q.waited /\ q.stage = "sent"
  /\ requests' = requests \ {q}
  /\ UNCHANGED <<server, retained, node, ghosts, faults>>

\* The API stops: the calls under way end, without an answer.
ApiStops ==
  /\ faults < MaxFaults
  /\ pairing' = None
  /\ requests' = {IF q.stage = "clearing" THEN At(q, "answered", None) ELSE q :
                  q \in {x \in requests : x.waited \/ x.stage = "sent"}}
  /\ faults' = faults + 1
  /\ UNCHANGED <<file, issued, status, retained, node, ghosts>>

Next ==
  \/ \E c \in Codes : Pair(c) \/ CodeExpires(c) \/ Post(c)
  \/ \E c \in Codes, t \in Tokens : Reregister(c, t)
  \/ PairingPublished \/ PairingFails \/ Bind
  \/ Connect \/ Disconnect \/ GivesUp \/ Reboot \/ ApiStops
  \/ \E q \in requests :
       \/ \E t \in Tokens : Register(q, t)
       \/ Refuse(q) \/ RegisterPartly(q) \/ Cleared(q) \/ ClearFails(q)
       \/ Answered(q) \/ Lost(q)

Spec == Init /\ [][Next]_vars

\* While the node has no token the administrator pairs it again and again,
\* codes expire, the node connects, and calls end.
FairSpec ==
  /\ Spec
  /\ SF_vars(saved = None /\ \E c \in Codes : Pair(c))
  /\ WF_vars(PairingPublished)
  /\ WF_vars(\E c \in Codes : CodeExpires(c))
  /\ WF_vars(Connect)
  /\ WF_vars(\E c \in Codes : Post(c))
  /\ WF_vars(\E q \in requests, t \in Tokens : Register(q, t))
  /\ WF_vars(\E q \in requests : Refuse(q))
  /\ WF_vars(\E q \in requests : Cleared(q))
  /\ WF_vars(\E q \in requests : Answered(q))
  /\ WF_vars(\E q \in requests : Lost(q))

-----------------------------------------------------------------------------
TypeOK ==
  /\ codes \subseteq Codes /\ old \subseteq codes /\ issued \in Tokens \union {None}
  /\ status \in {"none", "pending", "active"} /\ pairing \in Codes \union {None}
  /\ retained \in Codes \union {None}
  /\ online \in BOOLEAN /\ mail \subseteq Codes
  /\ saved \in Tokens \union {None} /\ posting \in Codes \union {None}
  /\ requests \subseteq Registration
  /\ uses \in [Codes -> Nat] /\ overtaken \in BOOLEAN /\ replaced \in BOOLEAN
  /\ faults \in 0..MaxFaults

(* A code is good for one token, although a node may post it several times:  *)
(* it is retained, delivered again at every connection, and posts that were  *)
(* given up may still arrive (claimNodeInstallCode).                         *)
CodeUsedOnce == \A c \in Codes : uses[c] <= 1

(* The token a node keeps is the one the platform knows, through lost        *)
(* answers, restarts and repeated pairings.  Only two things take it away: a *)
(* post that the node had given up and that arrives after the node           *)
(* registered with another, and a client that presents the node's token and  *)
(* gets a new one (issueNodeToken replaces the node's token).                *)
TokenAgrees == saved # None /\ ~overtaken /\ ~replaced => saved = issued

\* A node that an administrator has activated, and that has the right token.
Joined == status = "active" /\ saved # None /\ saved = issued

(* A node that has joined has joined for good: whatever it posted before and *)
(* given up, whatever is posted later and whatever it is paired with, its    *)
(* status and its token stay, unless a client that presented the token of    *)
(* the time replaced it (the test of wasActive in routes/nodes.ts).          *)
JoinedForGood == [][Joined => Joined' \/ replaced']_vars

\* The answer to the node's registration was lost and the administrator bound
\* it: it has no token, and registering again gets 409.
Stranded == status = "active" /\ saved = None

(* A node that is paired again and again gets a token, whatever was lost     *)
(* before, unless it was activated without one.                              *)
NodeJoins == <>(saved # None \/ Stranded)

=============================================================================
