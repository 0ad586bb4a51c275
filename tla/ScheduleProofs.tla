---------------------------- MODULE ScheduleProofs ----------------------------
(***************************************************************************)
(* Proofs about the two schedules, for every set of settings requests,      *)
(* workers, plans and owners and every bound: the chain of standup reviews  *)
(* never breaks, one review is armed at a time, and the weekly series wins  *)
(* each of its moments once and drafts each period once.                    *)
(*                                                                          *)
(* The chain's argument names a witness: a queued review that no session    *)
(* has touched, or that only sessions have touched that are going to leave  *)
(* another when they commit (Chain).  That such a session cannot be talked  *)
(* out of it rests on what it knows of the workflow while it re-arms and on *)
(* the locks of flushed rows (Locking, Working, Editing).                   *)
(***************************************************************************)
EXTENDS MCSchedules, TLAPS, WellFoundedInduction, FiniteSetTheorems

--------------------------------------------------------------------------------
(* The review chain *)

\* A set of numbers that is not empty has a least one.
LEMMA Least ==
    ASSUME NEW T, T \subseteq Nat, T # {}
    PROVE  \E m \in T : \A k \in T : m <= k
<1> DEFINE R == {p \in Nat \X Nat : p[1] < p[2]}
<1>1. R = OpToRel(<, Nat)
  BY DEF OpToRel
<1>2. IsWellFoundedOn(R, Nat)
  BY <1>1, NatLessThanWellFounded
<1>3. \A m, k \in Nat : <<k, m>> \notin R => m <= k
  OBVIOUS
<1> HIDE DEF R
<1>4. \E x \in T : \A y \in T : ~(<<y, x>> \in R)
  BY <1>2, WFMin
<1>. QED
  BY <1>3, <1>4

\* The session has flushed a queued review, another than the one it runs, or any.
Carries(s) == \E r \in Rows \ {job[s]} : reviewHeld[s][r].state = "queued"
CarriesAny(s) == \E r \in Rows : reviewHeld[s][r].state = "queued"
\* The session is going to arm a review: nothing but its own end can keep it from it.
Bound(s) == where[s] \in {"pick", "rearm"} /\ known[s].enabled

\* What is flushed is one session's alone, a session that has ended holds nothing, and
\* a worker's session never switches the workflow on or off.
Locking ==
    /\ \A s, t \in ReviewSessions : s # t => flowHeld[s] = NoFlow \/ flowHeld[t] = NoFlow
    /\ \A s, t \in ReviewSessions : \A r \in Rows :
          s # t => reviewHeld[s][r] = NoJob \/ reviewHeld[t][r] = NoJob
    /\ \A s \in ReviewSessions :
          ~OpenSession(s) => flowHeld[s] = NoFlow /\ reviewHeld[s] = Nothing /\ job[s] = 0
    /\ \A w \in Runners : flowHeld[w] # NoFlow => flowHeld[w].enabled = flow.enabled

\* What a session has by the step it stands at: a workflow while it re-arms, a job
\* while it works, and, once it has re-armed, a successor it has flushed.
Working ==
    /\ \A s \in ReviewSessions :
          /\ where[s] \in {"write", "pick", "rearm"} => known[s] \in Flow
          /\ where[s] \in {"claim", "work"} => job[s] # 0
          /\ where[s] = "work" => Carries(s)
    /\ \A w \in Runners :
          /\ where[w] # "write"
          /\ where[w] \in {"pick", "rearm"} => known[w].enabled
    /\ \A e \in Editors :
          /\ where[e] \in {"idle", "write", "pick", "rearm"} /\ job[e] = 0
          /\ where[e] \in {"pick", "rearm"} => flowHeld[e] # NoFlow

\* A job that exists is due at some instant, and what a session claims, runs or drops
\* exists.
Dated ==
    /\ \A r \in Rows : review[r].state # "none" => review[r].due # 0
    /\ \A s \in ReviewSessions :
          /\ \A r \in Rows : reviewHeld[s][r] # NoJob =>
                reviewHeld[s][r].state # "none" /\ reviewHeld[s][r].due # 0
          /\ \A r \in Rows : r = job[s] \/ r \in drop[s] => Sees(s, r).state # "none"
          /\ where[s] \in {"pick", "rearm", "work"} /\ job[s] # 0 => reviewHeld[s][job[s]] # NoJob

\* Settings requests that come one after the other know whether the workflow is on.
Editing ==
    ~contested => \A e \in Editors : OpenSession(e) =>
        /\ \A d \in Editors : OpenSession(d) => d = e
        /\ where[e] = "write" => known[e].enabled = flow.enabled
        /\ where[e] \in {"pick", "rearm"} => flowHeld[e].enabled = known[e].enabled

\* Whoever has touched a row is going to leave a queued review when it commits.
Minds(s) == Bound(s) \/ CarriesAny(s)

\* The chain's strengthening: some queued review is either untouched, or every session
\* that has touched it arms another in the same commit.
Chain ==
    flow.enabled /\ ~contested =>
       \E r \in Armed : \A s \in ReviewSessions : reviewHeld[s][r] # NoJob => Minds(s)

\* One row if the workflow is on, none if it is off.
OnlyOne(S, on) == (~on /\ S = {}) \/ (on /\ \E r \in Rows : S = {r})
SeenArmed(s) == {r \in Rows : Sees(s, r).state = "queued"}

\* What the one open session has seen and flushed, step by step: it sees exactly one
\* queued review, or it has just taken it and is about to arm the next.
Alone(s) ==
    /\ job[s] = 0 => reviewHeld[s] = Nothing
    /\ where[s] = "rearm" => drop[s] = SeenArmed(s)
    /\ where[s] = "claim" => SeenArmed(s) = {job[s]}
    /\ where[s] \in {"work", "drain"} => OnlyOne(SeenArmed(s), flow.enabled)
    /\ where[s] \in {"pick", "rearm"} /\ job[s] # 0 => SeenArmed(s) = {}
    /\ where[s] \in {"pick", "rearm", "work"} /\ job[s] # 0 => reviewHeld[s][job[s]].state = "running"
    /\ s \in Editors /\ where[s] = "write" => known[s].enabled = flow.enabled
    /\ s \in Editors /\ where[s] \in {"pick", "rearm"} => flowHeld[s].enabled = known[s].enabled
    /\ s \in Runners /\ where[s] \in {"pick", "rearm"} => flow.enabled

\* While sessions come one after the other and no review fails, one review is armed.
Single ==
    ~overlapped /\ errors = 0 =>
        /\ OnlyOne(Armed, flow.enabled)
        /\ \A s \in ReviewSessions : OpenSession(s) =>
              Alone(s) /\ \A t \in ReviewSessions : OpenSession(t) => t = s

\* The inductive invariant of the review chain.
ReviewInv == ReviewTypeOK /\ Locking /\ Working /\ Editing /\ Dated /\ Chain /\ Single

\* next_occurrence returns an instant of the plan, strictly after now.
LEMMA OccurrenceIsLater ==
    ASSUME NEW plan \in Plans, NEW t \in 0..Horizon
    PROVE  Occurrence(plan, t) \in Instants /\ Occurrence(plan, t) # 0
<1> DEFINE Later == {i \in plan : i > t}
<1>0. plan \subseteq Nat \ {0} /\ t \in Nat
  BY ReviewAssumption
<1>1. Later \subseteq Nat /\ Later # {}
  BY <1>0, ReviewAssumption
<1>2. PICK m \in Later : \A k \in Later : m <= k
  BY <1>1, Least
<1>3. m \in plan /\ m > t /\ \A k \in plan : k > t => m <= k
  BY <1>2
<1>4. Occurrence(plan, t) \in plan
  BY <1>3 DEF Occurrence
<1>. QED
  BY <1>0, <1>4 DEF Instants

\* The placeholder of a row nobody has flushed is no row.
LEMMA NoneTypes == NoJob \in ReviewJob /\ NoFlow \notin Flow /\ Nothing \in [Rows -> ReviewJob]
                      /\ 0 \notin Rows
BY ReviewAssumption DEF NoJob, ReviewJob, NoFlow, Flow, Nothing, Rows

\* The marks: two requests are open at once only if they are set.
LEMMA Noted ==
    ASSUME ReviewNoted, ReviewTypeOK
    PROVE  /\ contested' \in BOOLEAN /\ overlapped' \in BOOLEAN
           /\ ~contested' => ~contested /\ \A s, t \in Editors : OpenSession(s)' /\ OpenSession(t)' => s = t
           /\ ~overlapped' => ~overlapped /\ \A s, t \in ReviewSessions : OpenSession(s)' /\ OpenSession(t)' => s = t
BY DEF ReviewNoted, ReviewTypeOK

\* A step keeps the chain if it switches nothing on, takes no queued review away and
\* whoever touches a row from now on is going to leave a review.
LEMMA StillChained ==
    ASSUME Chain, ReviewNoted, ReviewTypeOK, ReviewTypeOK',
           flow'.enabled => flow.enabled,
           \A r \in Rows : review[r].state = "queued" => review'[r].state = "queued",
           \A s \in ReviewSessions, r \in Rows : reviewHeld'[s][r] # NoJob =>
              Minds(s)' \/ (reviewHeld[s][r] # NoJob /\ ~Minds(s))
    PROVE  Chain'
<1> SUFFICES ASSUME flow'.enabled, ~contested' PROVE Chain!2'
  BY DEF Chain
<1>1. PICK r \in Armed : \A s \in ReviewSessions : reviewHeld[s][r] # NoJob => Minds(s)
  BY Noted DEF Chain
<1>2. r \in Armed'
  BY <1>1 DEF Armed
<1>3. \A s \in ReviewSessions : reviewHeld'[s][r] # NoJob => Minds(s)'
  BY <1>1 DEF Armed
<1>. QED
  BY <1>2, <1>3 DEF Chain

\* A step that leaves the armed reviews and every open session alone keeps one armed.
LEMMA StillSingle ==
    ASSUME Single, ReviewNoted, ReviewTypeOK,
           flow'.enabled = flow.enabled, errors' = errors, Armed' = Armed,
           \A s \in ReviewSessions : OpenSession(s)' =>
              /\ UNCHANGED <<where[s], job[s], known[s], drop[s], flowHeld[s], reviewHeld[s]>>
              /\ SeenArmed(s)' = SeenArmed(s)
    PROVE  Single'
<1> SUFFICES ASSUME ~overlapped', errors' = 0 PROVE Single!2'
  BY DEF Single
<1>1. OnlyOne(Armed, flow.enabled)'
  BY Noted DEF Single, OnlyOne
<1>2. ASSUME NEW s \in ReviewSessions, OpenSession(s)'
      PROVE  Alone(s)'
  <2>1. Alone(s)
    BY <1>2, Noted DEF Single, OpenSession
  <2>. QED
    BY <1>2, <2>1 DEF Alone, OnlyOne, Nothing
<1>. QED
  BY <1>1, <1>2, Noted DEF Single

\* Rows keep their types as they are read, retried, failed, begun and edited.
LEMMA SeenTypes ==
    ASSUME ReviewTypeOK, NEW s \in ReviewSessions
    PROVE  SeesFlow(s) \in Flow /\ \A r \in Rows : Sees(s, r) \in ReviewJob
BY DEF ReviewTypeOK, SeesFlow, Sees

LEMMA RetryTypes ==
    ASSUME NEW j \in ReviewJob
    PROVE  [j EXCEPT !.waits = FALSE] \in ReviewJob
BY DEF ReviewJob

LEMMA BackOffTypes ==
    ASSUME NEW j \in ReviewJob
    PROVE  [j EXCEPT !.state = "queued", !.waits = TRUE] \in ReviewJob
BY DEF ReviewJob

LEMMA BeginTypes ==
    ASSUME NEW j \in ReviewJob, NEW x \in {"running", "succeeded"}, NEW n \in 0..ReviewTries
    PROVE  [j EXCEPT !.state = x, !.tries = n] \in ReviewJob
BY DEF ReviewJob

LEMMA EditTypes ==
    ASSUME NEW f \in Flow, NEW on \in BOOLEAN, NEW p \in Plans, NEW a \in BOOLEAN, NEW b \in BOOLEAN
    PROVE  /\ [f EXCEPT !.enabled = on, !.plan = p] \in Flow
           /\ [f EXCEPT !.enabled = IF a THEN on ELSE @, !.plan = IF b THEN p ELSE @] \in Flow
BY DEF Flow

\* A new job takes one row, and nobody else's.
LEMMA NewRowIsOne ==
    NewRows \subseteq Rows /\ (\A m, n \in NewRows : m = n) /\ \A n \in NewRows : Spare(n)
BY DEF NewRows, Rows

\* Whoever re-arms knows a workflow, and the instant it arms is a real one.
LEMMA RearmFacts ==
    ASSUME ReviewTypeOK, Working, NEW s \in ReviewSessions, Rearm(s)
    PROVE  /\ where[s] = "rearm" /\ known[s] \in Flow /\ Due(s) \in Instants /\ Due(s) # 0
           /\ s \in Runners => known[s].enabled
           /\ s \in Editors => flowHeld[s] # NoFlow /\ job[s] = 0
<1>1. where[s] = "rearm" /\ known[s] \in Flow
  BY DEF Rearm, RearmAt, Working
<1>2. known[s].plan \in Plans /\ clock \in 0..Horizon
  BY <1>1 DEF Flow, ReviewTypeOK
<1>3. Due(s) \in Instants /\ Due(s) # 0
  BY <1>2, OccurrenceIsLater DEF Due
<1>. QED
  BY <1>1, <1>3 DEF Working

--------------------------------------------------------------------------------
(* The steps of the settings requests and of the workers *)

LEMMA ReviewLoadSettings ==
    ASSUME ReviewInv, NEW e \in Editors, LoadSettings(e), ReviewNoted
    PROVE  ReviewInv'
<1> USE ReviewAssumption, NoneTypes DEF ReviewInv
<1>1. ReviewTypeOK'
  BY Noted DEF LoadSettings, ReviewTypeOK, MoveTo, reviewRows, ReviewStep, ReviewJob, ReviewSessions, Working
<1>2. Locking'
  BY DEF LoadSettings, Locking, MoveTo, OpenSession, reviewRows
<1>3. Working'
  BY DEF LoadSettings, Working, MoveTo, Carries, ReviewTypeOK
<1>4. Editing'
  BY Noted DEF LoadSettings, Editing, MoveTo, OpenSession, reviewRows, ReviewTypeOK
<1>5. Dated'
  BY DEF LoadSettings, Dated, MoveTo, reviewRows, Sees
<1>6. Chain'
  <2>1. ReviewTypeOK'
    BY <1>1
  <2>2. flow'.enabled => flow.enabled
    BY DEF LoadSettings, reviewRows, reviewSessions, MoveTo
  <2>3. \A r \in Rows : review[r].state = "queued" => review'[r].state = "queued"
    BY DEF LoadSettings, reviewRows, reviewSessions, ReviewTypeOK
  <2>4. \A t \in ReviewSessions, r \in Rows : reviewHeld'[t][r] # NoJob =>
           Minds(t)' \/ (reviewHeld[t][r] # NoJob /\ ~Minds(t))
    BY DEF LoadSettings, Minds, Bound, CarriesAny, MoveTo
  <2>. QED
    BY <2>1, <2>2, <2>3, <2>4, StillChained
<1>7. Single'
  <2> SUFFICES ASSUME ~overlapped', errors' = 0
               PROVE  OnlyOne(Armed, flow.enabled)' /\ \A t \in ReviewSessions : OpenSession(t)' => Alone(t)'
    BY Noted DEF Single
  <2>1. ~overlapped /\ errors = 0
    BY Noted DEF LoadSettings, reviewHistory
  <2>2. OnlyOne(Armed, flow.enabled)
    BY <2>1 DEF Single
  <2>3. \A t \in ReviewSessions : OpenSession(t) => Alone(t) /\ \A u \in ReviewSessions : OpenSession(u) => u = t
    BY <2>1 DEF Single
  <2>4. OnlyOne(Armed, flow.enabled)'
    BY <2>2 DEF LoadSettings, OnlyOne, Armed, reviewRows
  <2>5. OpenSession(e)' /\ \A t \in ReviewSessions : t # e => ~OpenSession(t)'
    BY Noted DEF LoadSettings, MoveTo, OpenSession, ReviewSessions, ReviewTypeOK
  <2>6. Alone(e)'
    BY <2>3 DEF LoadSettings, Alone, MoveTo, ReviewTypeOK, ReviewSessions, Locking, reviewRows
  <2>. QED
    BY <2>4, <2>5, <2>6
<1>. QED
  BY <1>1, <1>2, <1>3, <1>4, <1>5, <1>6, <1>7

LEMMA ReviewWriteSettings ==
    ASSUME ReviewInv, NEW e \in Editors, WriteSettings(e), ReviewNoted
    PROVE  ReviewInv'
<1> USE ReviewAssumption, NoneTypes DEF ReviewInv
<1>1. ReviewTypeOK'
  <2>0. PICK on \in BOOLEAN, p \in Plans :
             /\ known' = [known EXCEPT ![e].enabled = on, ![e].plan = p]
             /\ flowHeld' = [flowHeld EXCEPT ![e] =
                   [flow EXCEPT !.enabled = IF on # known[e].enabled THEN on ELSE @,
                                !.plan = IF p # known[e].plan THEN p ELSE @]]
    BY DEF WriteSettings
  <2>a. known[e] \in Flow /\ flow \in Flow /\ e \in ReviewSessions
    BY DEF WriteSettings, Working, ReviewTypeOK, ReviewSessions
  <2>b. [known[e] EXCEPT !.enabled = on, !.plan = p] \in Flow
    BY <2>a, EditTypes
  <2>c. [flow EXCEPT !.enabled = IF on # known[e].enabled THEN on ELSE @,
                      !.plan = IF p # known[e].plan THEN p ELSE @] \in Flow
    BY <2>a, EditTypes
  <2>1. known' \in [ReviewSessions -> Flow \cup {NoFlow}]
    BY <2>0, <2>b DEF ReviewTypeOK
  <2>2. flowHeld' \in [ReviewSessions -> Flow \cup {NoFlow}]
    BY <2>0, <2>c DEF ReviewTypeOK
  <2>. QED
    BY <2>1, <2>2, Noted DEF WriteSettings, ReviewTypeOK, MoveTo, ReviewStep, reviewRows, reviewHistory
<1>2. Locking'
  BY DEF WriteSettings, Locking, MoveTo, OpenSession, ReviewSessions, FlowFree
<1>3. Working'
  <2>0. PICK on \in BOOLEAN, p \in Plans :
             /\ known' = [known EXCEPT ![e].enabled = on, ![e].plan = p]
             /\ flowHeld' = [flowHeld EXCEPT ![e] =
                   [flow EXCEPT !.enabled = IF on # known[e].enabled THEN on ELSE @,
                                !.plan = IF p # known[e].plan THEN p ELSE @]]
    BY DEF WriteSettings
  <2>a. known[e] \in Flow /\ flow \in Flow /\ e \in ReviewSessions
    BY DEF WriteSettings, Working, ReviewTypeOK, ReviewSessions
  <2>b. [known[e] EXCEPT !.enabled = on, !.plan = p] \in Flow
    BY <2>a, EditTypes
  <2>c. [flow EXCEPT !.enabled = IF on # known[e].enabled THEN on ELSE @,
                      !.plan = IF p # known[e].plan THEN p ELSE @] \in Flow
    BY <2>a, EditTypes
  <2>1. known'[e] \in Flow /\ flowHeld'[e] # NoFlow
    <3>1. known'[e] = [known[e] EXCEPT !.enabled = on, !.plan = p] /\ flowHeld'[e] \in Flow
      BY <2>0, <2>a, <2>c DEF ReviewTypeOK
    <3>. QED
      BY <3>1, <2>b
  <2>2. \A t \in ReviewSessions : t # e => known'[t] = known[t] /\ flowHeld'[t] = flowHeld[t]
    BY <2>0 DEF ReviewTypeOK
  <2>. QED
    BY <2>1 DEF WriteSettings, Working, Carries, MoveTo, ReviewTypeOK, ReviewSessions
<1>4. Editing'
  BY Noted DEF WriteSettings, Editing, MoveTo, OpenSession, ReviewTypeOK, ReviewSessions
<1>5. Dated'
  BY DEF WriteSettings, Dated, MoveTo, reviewRows, Sees, Working
<1>6. Chain'
  <2>1. ReviewTypeOK'
    BY <1>1
  <2>2. flow'.enabled => flow.enabled
    BY DEF WriteSettings, reviewRows, reviewSessions, MoveTo
  <2>3. \A r \in Rows : review[r].state = "queued" => review'[r].state = "queued"
    BY DEF WriteSettings, reviewRows, reviewSessions, ReviewTypeOK
  <2>4. \A t \in ReviewSessions, r \in Rows : reviewHeld'[t][r] # NoJob =>
           Minds(t)' \/ (reviewHeld[t][r] # NoJob /\ ~Minds(t))
    BY DEF WriteSettings, Minds, Bound, CarriesAny, MoveTo, ReviewTypeOK
  <2>. QED
    BY <2>1, <2>2, <2>3, <2>4, StillChained
<1>7. Single'
  <2> SUFFICES ASSUME ~overlapped', errors' = 0
               PROVE  OnlyOne(Armed, flow.enabled)' /\ \A t \in ReviewSessions : OpenSession(t)' => Alone(t)'
    BY Noted DEF Single
  <2>1. ~overlapped /\ errors = 0
    BY Noted DEF WriteSettings, reviewHistory
  <2>2. OnlyOne(Armed, flow.enabled)
    BY <2>1 DEF Single
  <2>3. \A t \in ReviewSessions : OpenSession(t) => Alone(t) /\ \A u \in ReviewSessions : OpenSession(u) => u = t
    BY <2>1 DEF Single
  <2>4. OnlyOne(Armed, flow.enabled)'
    BY <2>2 DEF WriteSettings, OnlyOne, Armed, reviewRows
  <2>5. OpenSession(e)' /\ \A t \in ReviewSessions : t # e => ~OpenSession(t)'
    BY Noted DEF WriteSettings, MoveTo, OpenSession, ReviewSessions
  <2>6. Alone(e)'
    <3>1. Alone(e)
      BY <2>3 DEF WriteSettings, OpenSession, ReviewSessions
    <3>2. PICK on \in BOOLEAN, p \in Plans :
             /\ known' = [known EXCEPT ![e].enabled = on, ![e].plan = p]
             /\ flowHeld' = [flowHeld EXCEPT ![e] =
                   [flow EXCEPT !.enabled = IF on # known[e].enabled THEN on ELSE @,
                                !.plan = IF p # known[e].plan THEN p ELSE @]]
      BY DEF WriteSettings
    <3>3. known[e].enabled = flow.enabled /\ where[e] = "write"
      BY <3>1 DEF WriteSettings, Alone
    <3>4. known'[e].enabled = on /\ flowHeld'[e].enabled = on
      BY <3>2, <3>3 DEF ReviewTypeOK, ReviewSessions
    <3>5. where'[e] = "pick" /\ UNCHANGED <<job, reviewHeld>> /\ job[e] = 0
      BY DEF WriteSettings, MoveTo, ReviewTypeOK, ReviewSessions, Working
    <3>. QED
      BY <3>1, <3>4, <3>5, ReviewAssumption DEF Alone
  <2>. QED
    BY <2>4, <2>5, <2>6
<1>. QED
  BY <1>1, <1>2, <1>3, <1>4, <1>5, <1>6, <1>7

LEMMA ReviewPickReviews ==
    ASSUME ReviewInv, NEW s \in ReviewSessions, PickReviews(s), ReviewNoted
    PROVE  ReviewInv'
<1> USE ReviewAssumption, NoneTypes DEF ReviewInv
<1>1. ReviewTypeOK'
  BY Noted DEF PickReviews, ReviewTypeOK, MoveTo, reviewRows, reviewHistory, ReviewStep, ReviewJob
<1>2. Locking'
  BY DEF PickReviews, Locking, MoveTo, OpenSession, reviewRows
<1>3. Working'
  BY DEF PickReviews, Working, MoveTo, Carries
<1>4. Editing'
  BY Noted DEF PickReviews, Editing, MoveTo, OpenSession, reviewRows
<1>5. Dated'
  BY DEF PickReviews, Dated, MoveTo, reviewRows, Sees
<1>6. Chain'
  <2>1. ReviewTypeOK'
    BY <1>1
  <2>2. flow'.enabled => flow.enabled
    BY DEF PickReviews, reviewRows, reviewSessions, MoveTo
  <2>3. \A r \in Rows : review[r].state = "queued" => review'[r].state = "queued"
    BY DEF PickReviews, reviewRows, reviewSessions, ReviewTypeOK
  <2>4. \A t \in ReviewSessions, r \in Rows : reviewHeld'[t][r] # NoJob =>
           Minds(t)' \/ (reviewHeld[t][r] # NoJob /\ ~Minds(t))
    BY DEF PickReviews, Minds, Bound, CarriesAny, MoveTo
  <2>. QED
    BY <2>1, <2>2, <2>3, <2>4, StillChained
<1>7. Single'
  <2> SUFFICES ASSUME ~overlapped', errors' = 0
               PROVE  OnlyOne(Armed, flow.enabled)' /\ \A t \in ReviewSessions : OpenSession(t)' => Alone(t)'
    BY Noted DEF Single
  <2>1. ~overlapped /\ errors = 0
    BY Noted DEF PickReviews, reviewHistory
  <2>2. OnlyOne(Armed, flow.enabled)
    BY <2>1 DEF Single
  <2>3. \A t \in ReviewSessions : OpenSession(t) => Alone(t) /\ \A u \in ReviewSessions : OpenSession(u) => u = t
    BY <2>1 DEF Single
  <2>4. OnlyOne(Armed, flow.enabled)'
    BY <2>2 DEF PickReviews, OnlyOne, Armed, reviewRows
  <2>5. OpenSession(s)' /\ \A t \in ReviewSessions : t # s => ~OpenSession(t)'
    BY Noted DEF PickReviews, MoveTo, OpenSession
  <2>6. Alone(s)'
    <3>1. Alone(s) /\ where[s] = "pick"
      BY <2>3 DEF PickReviews, OpenSession
    <3>2. where'[s] = "rearm" /\ drop'[s] = SeenArmed(s) /\ UNCHANGED <<flow, review, job, known, flowHeld,
         reviewHeld>>
      BY DEF PickReviews, MoveTo, ReviewTypeOK, reviewRows, SeenArmed
    <3>3. SeenArmed(s)' = SeenArmed(s)
      BY <3>2 DEF SeenArmed, Sees
    <3>. QED
      BY <3>1, <3>2, <3>3 DEF Alone
  <2>. QED
    BY <2>4, <2>5, <2>6
<1>. QED
  BY <1>1, <1>2, <1>3, <1>4, <1>5, <1>6, <1>7

\* An edit or a worker's start commits its re-arming at once.
LEMMA ReviewRearmCommit ==
    ASSUME ReviewInv, NEW s \in ReviewSessions, Rearm(s), job[s] = 0, ReviewNoted
    PROVE  ReviewInv'
<1> USE ReviewAssumption, NoneTypes DEF ReviewInv
<1>1. ReviewTypeOK'
  <2> DEFINE on == known[s].enabled
             i == IF on THEN Due(s) ELSE 0
             row == [SeesFlow(s) EXCEPT !.next = IF i # known[s].next THEN i ELSE @]
             jobs == [r \in Rows |-> IF on /\ r \in NewRows
                                     THEN [NoJob EXCEPT !.state = "queued", !.due = i]
                                     ELSE IF r \in drop[s] THEN [Sees(s, r) EXCEPT !.state = "cancelled"]
                                     ELSE reviewHeld[s][r]]
  <2>0. /\ (on => NewRows # {}) /\ UNCHANGED <<clock, reviewed, edits, errors, deaths>>
        /\ flow' = row /\ review' = [r \in Rows |-> IF jobs[r] # NoJob THEN jobs[r] ELSE review[r]]
        /\ Forget(s, Rest(s))
    BY DEF Rearm, RearmAt, Commit, reviewHistory
  <2>1. i \in Instants \cup {0}
    BY RearmFacts
  <2>2. row \in Flow
    BY <2>1, SeenTypes DEF Flow
  <2>3. jobs \in [Rows -> ReviewJob]
    <3>1. [NoJob EXCEPT !.state = "queued", !.due = i] \in ReviewJob
      BY <2>1 DEF NoJob, ReviewJob
    <3>2. \A r \in Rows : [Sees(s, r) EXCEPT !.state = "cancelled"] \in ReviewJob
      BY SeenTypes DEF ReviewJob
    <3>3. \A r \in Rows : reviewHeld[s][r] \in ReviewJob
      BY DEF ReviewTypeOK
    <3>. QED
      BY <3>1, <3>2, <3>3
  <2> HIDE DEF i, row, jobs, on
  <2>4. review' \in [Rows -> ReviewJob]
    BY <2>0, <2>3 DEF ReviewTypeOK
  <2>. QED
    BY <2>0, <2>2, <2>4, Noted DEF ReviewTypeOK, Forget, MoveTo, Rest, ReviewStep
<1>2. Locking'
  <2> DEFINE on == known[s].enabled
             i == IF on THEN Due(s) ELSE 0
             row == [SeesFlow(s) EXCEPT !.next = IF i # known[s].next THEN i ELSE @]
             jobs == [r \in Rows |-> IF on /\ r \in NewRows
                                     THEN [NoJob EXCEPT !.state = "queued", !.due = i]
                                     ELSE IF r \in drop[s] THEN [Sees(s, r) EXCEPT !.state = "cancelled"]
                                     ELSE reviewHeld[s][r]]
  <2>0. /\ (on => NewRows # {}) /\ UNCHANGED <<clock, reviewed, edits, errors, deaths>>
        /\ flow' = row /\ review' = [r \in Rows |-> IF jobs[r] # NoJob THEN jobs[r] ELSE review[r]]
        /\ Forget(s, Rest(s))
    BY DEF Rearm, RearmAt, Commit, reviewHistory
  <2>1. row.enabled = SeesFlow(s).enabled
    BY SeenTypes DEF Flow
  <2> HIDE DEF row, jobs
  <2>2. \A w \in Runners \ {s} : flowHeld[w] # NoFlow => row.enabled = flow.enabled
    BY <2>1, RearmFacts DEF SeesFlow, Locking, ReviewSessions
  <2>3. \A p, t \in ReviewSessions : p # t => flowHeld'[p] = NoFlow \/ flowHeld'[t] = NoFlow
    BY <2>0 DEF Locking, Forget, ReviewTypeOK
  <2>4. \A p, t \in ReviewSessions : \A r \in Rows :
           p # t => reviewHeld'[p][r] = NoJob \/ reviewHeld'[t][r] = NoJob
    BY <2>0 DEF Locking, Forget, Nothing, ReviewTypeOK
  <2>5. \A t \in ReviewSessions : ~OpenSession(t)' =>
           flowHeld'[t] = NoFlow /\ reviewHeld'[t] = Nothing /\ job'[t] = 0
    BY <2>0 DEF Locking, Forget, MoveTo, OpenSession, ReviewTypeOK
  <2>6. \A w \in Runners : flowHeld'[w] # NoFlow => flowHeld'[w].enabled = flow'.enabled
    BY <2>0, <2>2 DEF Locking, Forget, ReviewTypeOK
  <2>. QED
    BY <2>3, <2>4, <2>5, <2>6 DEF Locking
<1>3. Working'
  <2> DEFINE on == known[s].enabled
             i == IF on THEN Due(s) ELSE 0
             row == [SeesFlow(s) EXCEPT !.next = IF i # known[s].next THEN i ELSE @]
             jobs == [r \in Rows |-> IF on /\ r \in NewRows
                                     THEN [NoJob EXCEPT !.state = "queued", !.due = i]
                                     ELSE IF r \in drop[s] THEN [Sees(s, r) EXCEPT !.state = "cancelled"]
                                     ELSE reviewHeld[s][r]]
  <2>0. /\ (on => NewRows # {}) /\ UNCHANGED <<clock, reviewed, edits, errors, deaths>>
        /\ flow' = row /\ review' = [r \in Rows |-> IF jobs[r] # NoJob THEN jobs[r] ELSE review[r]]
        /\ Forget(s, Rest(s))
    BY DEF Rearm, RearmAt, Commit, reviewHistory
  <2> HIDE DEF row, jobs
  <2>. QED
    BY <2>0 DEF Working, Forget, MoveTo, Rest, Carries, ReviewTypeOK
<1>4. Editing'
  <2> DEFINE on == known[s].enabled
             i == IF on THEN Due(s) ELSE 0
             row == [SeesFlow(s) EXCEPT !.next = IF i # known[s].next THEN i ELSE @]
             jobs == [r \in Rows |-> IF on /\ r \in NewRows
                                     THEN [NoJob EXCEPT !.state = "queued", !.due = i]
                                     ELSE IF r \in drop[s] THEN [Sees(s, r) EXCEPT !.state = "cancelled"]
                                     ELSE reviewHeld[s][r]]
  <2>0. /\ (on => NewRows # {}) /\ UNCHANGED <<clock, reviewed, edits, errors, deaths>>
        /\ flow' = row /\ review' = [r \in Rows |-> IF jobs[r] # NoJob THEN jobs[r] ELSE review[r]]
        /\ Forget(s, Rest(s))
    BY DEF Rearm, RearmAt, Commit, reviewHistory
  <2>1. row.enabled = SeesFlow(s).enabled
    BY SeenTypes DEF Flow
  <2> HIDE DEF row, jobs
  <2>2. \A t \in ReviewSessions : t # s =>
           UNCHANGED <<where[t], known[t], flowHeld[t]>>
    BY <2>0 DEF Forget, MoveTo, ReviewTypeOK
  <2>3. ~OpenSession(s)'
    BY <2>0 DEF Forget, MoveTo, Rest, OpenSession, ReviewTypeOK
  <2>4. OpenSession(s)
    BY RearmFacts DEF OpenSession
  <2>5. s \in Runners => flow'.enabled = flow.enabled
    BY <2>0, <2>1 DEF SeesFlow, Locking
  <2>6. \A e \in Editors : OpenSession(e)' => e # s /\ OpenSession(e) /\ e \in ReviewSessions
    BY <2>2, <2>3 DEF OpenSession, ReviewSessions
  <2>7. CASE s \in Runners
    <3>1. flow'.enabled = flow.enabled
      BY <2>5, <2>7
    <3>2. ASSUME ~contested', NEW e \in Editors, OpenSession(e)'
          PROVE  /\ \A d \in Editors : OpenSession(d)' => d = e
                 /\ where'[e] = "write" => known'[e].enabled = flow'.enabled
                 /\ where'[e] \in {"pick", "rearm"} => flowHeld'[e].enabled = known'[e].enabled
      <4>1. e # s /\ OpenSession(e) /\ e \in ReviewSessions /\ ~contested
        BY <2>6, <3>2, Noted
      <4>2. UNCHANGED <<where[e], known[e], flowHeld[e]>>
        BY <2>2, <4>1
      <4>. QED
        BY <3>1, <3>2, <4>1, <4>2, Noted DEF Editing
    <3>. QED
      BY <3>2 DEF Editing
  <2>8. CASE s \in Editors
    BY <2>4, <2>6, <2>8, Noted DEF Editing
  <2>. QED
    BY <2>7, <2>8 DEF ReviewSessions
<1>5. Dated'
  <2> DEFINE on == known[s].enabled
             i == IF on THEN Due(s) ELSE 0
             row == [SeesFlow(s) EXCEPT !.next = IF i # known[s].next THEN i ELSE @]
             jobs == [r \in Rows |-> IF on /\ r \in NewRows
                                     THEN [NoJob EXCEPT !.state = "queued", !.due = i]
                                     ELSE IF r \in drop[s] THEN [Sees(s, r) EXCEPT !.state = "cancelled"]
                                     ELSE reviewHeld[s][r]]
  <2>0. /\ (on => NewRows # {}) /\ UNCHANGED <<clock, reviewed, edits, errors, deaths>>
        /\ flow' = row /\ review' = [r \in Rows |-> IF jobs[r] # NoJob THEN jobs[r] ELSE review[r]]
        /\ Forget(s, Rest(s))
    BY DEF Rearm, RearmAt, Commit, reviewHistory
  <2>1. \A r \in Rows : jobs[r] # NoJob => jobs[r].state # "none" /\ jobs[r].due # 0
    <3>1. \A r \in Rows : on /\ r \in NewRows => jobs[r].state = "queued" /\ jobs[r].due # 0
      BY RearmFacts DEF NoJob
    <3>2. \A r \in Rows : Sees(s, r).state # "none" => Sees(s, r).due # 0
      BY DEF Sees, Dated
    <3>3. \A r \in Rows : r \in drop[s] => Sees(s, r).state # "none" /\ Sees(s, r).due # 0
      BY <3>2 DEF Dated
    <3>4. \A r \in Rows : ~(on /\ r \in NewRows) /\ r \in drop[s] =>
             jobs[r].state = "cancelled" /\ jobs[r].due # 0
      BY <3>3, SeenTypes DEF ReviewJob
    <3>5. \A r \in Rows : ~(on /\ r \in NewRows) /\ r \notin drop[s] => jobs[r] = reviewHeld[s][r]
      OBVIOUS
    <3> HIDE DEF jobs, on
    <3>. QED
      BY <3>1, <3>4, <3>5 DEF Dated
  <2> HIDE DEF row, jobs, i
  <2>2. \A r \in Rows : /\ review'[r].state # "none" => review'[r].due # 0
                        /\ review[r].state # "none" => review'[r].state # "none"
    BY <2>0, <2>1 DEF Dated
  <2>3. \A t \in ReviewSessions : t # s =>
           UNCHANGED <<where[t], job[t], drop[t], reviewHeld[t]>>
    BY <2>0 DEF Forget, MoveTo, ReviewTypeOK
  <2>4. job'[s] = 0 /\ drop'[s] = {} /\ reviewHeld'[s] = Nothing
    BY <2>0 DEF Forget, ReviewTypeOK
  <2>5. ASSUME NEW t \in ReviewSessions, t # s, NEW r \in Rows, r = job'[t] \/ r \in drop'[t]
        PROVE  Sees(t, r)'.state # "none"
    BY <2>2, <2>3, <2>5 DEF Sees, Dated
  <2>. QED
    BY <2>2, <2>3, <2>4, <2>5 DEF Dated, Nothing
<1>6. Chain'
  <2> DEFINE on == known[s].enabled
             i == IF on THEN Due(s) ELSE 0
             row == [SeesFlow(s) EXCEPT !.next = IF i # known[s].next THEN i ELSE @]
             jobs == [r \in Rows |-> IF on /\ r \in NewRows
                                     THEN [NoJob EXCEPT !.state = "queued", !.due = i]
                                     ELSE IF r \in drop[s] THEN [Sees(s, r) EXCEPT !.state = "cancelled"]
                                     ELSE reviewHeld[s][r]]
  <2>0. /\ (on => NewRows # {}) /\ UNCHANGED <<clock, reviewed, edits, errors, deaths>>
        /\ flow' = row /\ review' = [r \in Rows |-> IF jobs[r] # NoJob THEN jobs[r] ELSE review[r]]
        /\ Forget(s, Rest(s))
    BY DEF Rearm, RearmAt, Commit, reviewHistory
  <2> SUFFICES ASSUME flow'.enabled, ~contested' PROVE Chain!2'
    BY DEF Chain
  <2>1. row.enabled = SeesFlow(s).enabled
    BY SeenTypes DEF Flow
  <2>2. on
    BY <2>0, RearmFacts, Noted DEF Editing, SeesFlow, OpenSession, ReviewSessions
  <2>3. PICK n \in NewRows : Spare(n)
    BY <2>0, <2>2, NewRowIsOne
  <2>4. n \in Rows /\ review'[n].state = "queued"
    BY <2>0, <2>2, <2>3, NewRowIsOne DEF NoJob
  <2>5. \A t \in ReviewSessions : reviewHeld'[t][n] = NoJob
    BY <2>0, <2>3, <2>4 DEF Forget, Nothing, Spare, ReviewTypeOK
  <2>. QED
    BY <2>4, <2>5 DEF Armed
<1>7. Single'
  <2> DEFINE on == known[s].enabled
             i == IF on THEN Due(s) ELSE 0
             row == [SeesFlow(s) EXCEPT !.next = IF i # known[s].next THEN i ELSE @]
             jobs == [r \in Rows |-> IF on /\ r \in NewRows
                                     THEN [NoJob EXCEPT !.state = "queued", !.due = i]
                                     ELSE IF r \in drop[s] THEN [Sees(s, r) EXCEPT !.state = "cancelled"]
                                     ELSE reviewHeld[s][r]]
  <2>0. /\ (on => NewRows # {}) /\ UNCHANGED <<clock, reviewed, edits, errors, deaths>>
        /\ flow' = row /\ review' = [r \in Rows |-> IF jobs[r] # NoJob THEN jobs[r] ELSE review[r]]
        /\ Forget(s, Rest(s))
    BY DEF Rearm, RearmAt, Commit, reviewHistory
  <2> SUFFICES ASSUME ~overlapped', errors' = 0
               PROVE  OnlyOne(Armed, flow.enabled)' /\ \A t \in ReviewSessions : ~OpenSession(t)'
    BY Noted DEF Single
  <2>1. OnlyOne(Armed, flow.enabled) /\ Alone(s) /\ \A t \in ReviewSessions : OpenSession(t) => t = s
    BY <2>0, Noted, RearmFacts DEF Single, OpenSession
  <2>2. row.enabled = on
    <3>1. row.enabled = SeesFlow(s).enabled
      BY SeenTypes DEF Flow
    <3>2. CASE s \in Editors
      BY <3>2, <2>1, RearmFacts DEF Alone, SeesFlow
    <3>3. CASE s \in Runners
      BY <3>1, <3>3, <2>1, RearmFacts DEF Alone, SeesFlow, Locking
    <3>. QED
      BY <3>2, <3>3 DEF ReviewSessions
  <2>3. \A r \in Rows : reviewHeld[s][r] = NoJob /\ Sees(s, r) = review[r]
    BY <2>1 DEF Alone, Nothing, Sees
  <2>4. drop[s] = Armed
    BY <2>1, <2>3, RearmFacts DEF Alone, SeenArmed, Armed
  <2>5. \A r \in Rows : review'[r].state = "queued" <=> on /\ r \in NewRows
    <3>1. \A r \in Rows : on /\ r \in NewRows => jobs[r].state = "queued"
      BY DEF NoJob
    <3>2. \A r \in Rows : ~(on /\ r \in NewRows) /\ r \in drop[s] => jobs[r].state = "cancelled"
      BY SeenTypes DEF ReviewJob
    <3>3. \A r \in Rows : ~(on /\ r \in NewRows) /\ r \notin drop[s] =>
             jobs[r] = NoJob /\ review[r].state # "queued"
      BY <2>3, <2>4 DEF Armed
    <3> HIDE DEF jobs, on
    <3>. QED
      BY <2>0, <3>1, <3>2, <3>3 DEF NoJob
  <2>6. OnlyOne(Armed, flow.enabled)'
    <3>1. CASE on
      <4>1. PICK n \in NewRows : TRUE
        BY <2>0, <3>1
      <4>2. Armed' = {n} /\ n \in Rows
        BY <2>5, <3>1, <4>1, NewRowIsOne DEF Armed
      <4>. QED
        BY <4>2, <2>0, <2>2, <3>1 DEF OnlyOne
    <3>2. CASE ~on
      BY <2>5, <2>0, <2>2, <3>2 DEF OnlyOne, Armed
    <3>. QED
      BY <3>1, <3>2
  <2>7. \A t \in ReviewSessions : ~OpenSession(t)'
    BY <2>0, <2>1 DEF Forget, MoveTo, Rest, OpenSession, ReviewTypeOK
  <2>. QED
    BY <2>6, <2>7
<1>. QED
  BY <1>1, <1>2, <1>3, <1>4, <1>5, <1>6, <1>7

\* A review goes on with its successor flushed.
LEMMA ReviewRearmOn ==
    ASSUME ReviewInv, NEW s \in ReviewSessions, Rearm(s), job[s] # 0, ReviewNoted
    PROVE  ReviewInv'
<1> USE ReviewAssumption, NoneTypes DEF ReviewInv
<1>1. ReviewTypeOK'
  <2> DEFINE on == known[s].enabled
             i == IF on THEN Due(s) ELSE 0
             row == [SeesFlow(s) EXCEPT !.next = IF i # known[s].next THEN i ELSE @]
             jobs == [r \in Rows |-> IF on /\ r \in NewRows
                                     THEN [NoJob EXCEPT !.state = "queued", !.due = i]
                                     ELSE IF r \in drop[s] THEN [Sees(s, r) EXCEPT !.state = "cancelled"]
                                     ELSE reviewHeld[s][r]]
  <2>0. /\ (on => NewRows # {}) /\ UNCHANGED <<clock, flow, review, job, known, reviewed, edits, errors, deaths>>
        /\ (i # known[s].next => FlowFree(s)) /\ \A r \in drop[s] : RowFree(s, r)
        /\ flowHeld' = (IF i # known[s].next THEN [flowHeld EXCEPT ![s] = row] ELSE flowHeld)
        /\ reviewHeld' = [reviewHeld EXCEPT ![s] = jobs]
        /\ drop' = [drop EXCEPT ![s] = {}] /\ where' = [where EXCEPT ![s] = "work"]
    BY DEF Rearm, RearmAt, reviewHistory, reviewRows, MoveTo
  <2>1. i \in Instants \cup {0}
    BY RearmFacts
  <2>2. row \in Flow
    BY <2>1, SeenTypes DEF Flow
  <2>3. jobs \in [Rows -> ReviewJob]
    <3>1. [NoJob EXCEPT !.state = "queued", !.due = i] \in ReviewJob
      BY <2>1 DEF NoJob, ReviewJob
    <3>2. \A r \in Rows : [Sees(s, r) EXCEPT !.state = "cancelled"] \in ReviewJob
      BY SeenTypes DEF ReviewJob
    <3>3. \A r \in Rows : reviewHeld[s][r] \in ReviewJob
      BY DEF ReviewTypeOK
    <3>. QED
      BY <3>1, <3>2, <3>3
  <2> HIDE DEF i, row, jobs, on
  <2>. QED
    BY <2>0, <2>2, <2>3, Noted DEF ReviewTypeOK, ReviewStep
<1>2. Locking'
  <2> DEFINE on == known[s].enabled
             i == IF on THEN Due(s) ELSE 0
             row == [SeesFlow(s) EXCEPT !.next = IF i # known[s].next THEN i ELSE @]
             jobs == [r \in Rows |-> IF on /\ r \in NewRows
                                     THEN [NoJob EXCEPT !.state = "queued", !.due = i]
                                     ELSE IF r \in drop[s] THEN [Sees(s, r) EXCEPT !.state = "cancelled"]
                                     ELSE reviewHeld[s][r]]
  <2>0. /\ (on => NewRows # {}) /\ UNCHANGED <<clock, flow, review, job, known, reviewed, edits, errors, deaths>>
        /\ (i # known[s].next => FlowFree(s)) /\ \A r \in drop[s] : RowFree(s, r)
        /\ flowHeld' = (IF i # known[s].next THEN [flowHeld EXCEPT ![s] = row] ELSE flowHeld)
        /\ reviewHeld' = [reviewHeld EXCEPT ![s] = jobs]
        /\ drop' = [drop EXCEPT ![s] = {}] /\ where' = [where EXCEPT ![s] = "work"]
    BY DEF Rearm, RearmAt, reviewHistory, reviewRows, MoveTo
  <2>1. i # known[s].next => row.enabled = flow.enabled
    BY RearmFacts DEF SeesFlow, Locking, ReviewSessions
  <2>2. \A r \in Rows : jobs[r] # NoJob => \A t \in ReviewSessions \ {s} : reviewHeld[t][r] = NoJob
    <3>1. \A r \in NewRows : \A t \in ReviewSessions : reviewHeld[t][r] = NoJob
      BY NewRowIsOne DEF Spare
    <3>2. \A r \in drop[s] : \A t \in ReviewSessions \ {s} : reviewHeld[t][r] = NoJob
      BY <2>0 DEF RowFree
    <3>3. \A r \in Rows : reviewHeld[s][r] # NoJob =>
             \A t \in ReviewSessions \ {s} : reviewHeld[t][r] = NoJob
      BY DEF Locking
    <3>. QED
      BY <3>1, <3>2, <3>3
  <2> HIDE DEF row, jobs, i
  <2>3. \A p, t \in ReviewSessions : p # t => flowHeld'[p] = NoFlow \/ flowHeld'[t] = NoFlow
    BY <2>0 DEF Locking, FlowFree, ReviewTypeOK
  <2>4. \A p, t \in ReviewSessions : \A r \in Rows :
           p # t => reviewHeld'[p][r] = NoJob \/ reviewHeld'[t][r] = NoJob
    BY <2>0, <2>2 DEF Locking, ReviewTypeOK
  <2>5. \A t \in ReviewSessions : ~OpenSession(t)' =>
           flowHeld'[t] = NoFlow /\ reviewHeld'[t] = Nothing /\ job'[t] = 0
    BY <2>0 DEF Locking, OpenSession, ReviewTypeOK
  <2>6. \A w \in Runners : flowHeld'[w] # NoFlow => flowHeld'[w].enabled = flow'.enabled
    BY <2>0, <2>1 DEF Locking, ReviewTypeOK, ReviewSessions
  <2>. QED
    BY <2>3, <2>4, <2>5, <2>6 DEF Locking
<1>3. Working'
  <2> DEFINE on == known[s].enabled
             i == IF on THEN Due(s) ELSE 0
             row == [SeesFlow(s) EXCEPT !.next = IF i # known[s].next THEN i ELSE @]
             jobs == [r \in Rows |-> IF on /\ r \in NewRows
                                     THEN [NoJob EXCEPT !.state = "queued", !.due = i]
                                     ELSE IF r \in drop[s] THEN [Sees(s, r) EXCEPT !.state = "cancelled"]
                                     ELSE reviewHeld[s][r]]
  <2>0. /\ (on => NewRows # {}) /\ UNCHANGED <<clock, flow, review, job, known, reviewed, edits, errors, deaths>>
        /\ (i # known[s].next => FlowFree(s)) /\ \A r \in drop[s] : RowFree(s, r)
        /\ flowHeld' = (IF i # known[s].next THEN [flowHeld EXCEPT ![s] = row] ELSE flowHeld)
        /\ reviewHeld' = [reviewHeld EXCEPT ![s] = jobs]
        /\ drop' = [drop EXCEPT ![s] = {}] /\ where' = [where EXCEPT ![s] = "work"]
    BY DEF Rearm, RearmAt, reviewHistory, reviewRows, MoveTo
  <2>1. s \in Runners /\ on
    BY RearmFacts DEF ReviewSessions
  <2>2. PICK n \in NewRows : n \in Rows /\ Spare(n)
    BY <2>0, <2>1, NewRowIsOne
  <2>3. jobs[n].state = "queued" /\ job[s] # n
    BY <2>1, <2>2 DEF NoJob, Spare
  <2> HIDE DEF row, jobs, i
  <2>4. Carries(s)'
    BY <2>0, <2>2, <2>3 DEF Carries, ReviewTypeOK
  <2>5. \A t \in ReviewSessions : t # s /\ Carries(t) => Carries(t)'
    BY <2>0 DEF Carries, ReviewTypeOK
  <2>6. s \notin Editors
    BY <2>1
  <2>. QED
    BY <2>0, <2>4, <2>5 DEF Working
<1>4. Editing'
  BY Noted DEF Rearm, RearmAt, Editing, MoveTo, OpenSession, reviewRows, ReviewTypeOK, ReviewSessions, SeesFlow, Flow
<1>5. Dated'
  <2> DEFINE on == known[s].enabled
             i == IF on THEN Due(s) ELSE 0
             row == [SeesFlow(s) EXCEPT !.next = IF i # known[s].next THEN i ELSE @]
             jobs == [r \in Rows |-> IF on /\ r \in NewRows
                                     THEN [NoJob EXCEPT !.state = "queued", !.due = i]
                                     ELSE IF r \in drop[s] THEN [Sees(s, r) EXCEPT !.state = "cancelled"]
                                     ELSE reviewHeld[s][r]]
  <2>0. /\ (on => NewRows # {}) /\ UNCHANGED <<clock, flow, review, job, known, reviewed, edits, errors, deaths>>
        /\ (i # known[s].next => FlowFree(s)) /\ \A r \in drop[s] : RowFree(s, r)
        /\ flowHeld' = (IF i # known[s].next THEN [flowHeld EXCEPT ![s] = row] ELSE flowHeld)
        /\ reviewHeld' = [reviewHeld EXCEPT ![s] = jobs]
        /\ drop' = [drop EXCEPT ![s] = {}] /\ where' = [where EXCEPT ![s] = "work"]
    BY DEF Rearm, RearmAt, reviewHistory, reviewRows, MoveTo
  <2>1. \A r \in Rows : jobs[r] # NoJob => jobs[r].state # "none" /\ jobs[r].due # 0
    <3>1. \A r \in Rows : on /\ r \in NewRows => jobs[r].state = "queued" /\ jobs[r].due # 0
      BY RearmFacts DEF NoJob
    <3>2. \A r \in Rows : Sees(s, r).state # "none" => Sees(s, r).due # 0
      BY DEF Sees, Dated
    <3>3. \A r \in Rows : r \in drop[s] => Sees(s, r).state # "none" /\ Sees(s, r).due # 0
      BY <3>2 DEF Dated
    <3>4. \A r \in Rows : ~(on /\ r \in NewRows) /\ r \in drop[s] =>
             jobs[r].state = "cancelled" /\ jobs[r].due # 0
      BY <3>3, SeenTypes DEF ReviewJob
    <3>5. \A r \in Rows : ~(on /\ r \in NewRows) /\ r \notin drop[s] => jobs[r] = reviewHeld[s][r]
      OBVIOUS
    <3> HIDE DEF jobs, on
    <3>. QED
      BY <3>1, <3>4, <3>5 DEF Dated
  <2>2. job[s] \in Rows /\ reviewHeld[s][job[s]] # NoJob /\ job[s] \notin NewRows
    BY RearmFacts, NewRowIsOne DEF ReviewTypeOK, Dated, Spare
  <2>3. jobs[job[s]] # NoJob
    BY <2>2 DEF NoJob
  <2> HIDE DEF row, jobs, i
  <2>4. \A t \in ReviewSessions : t # s =>
           UNCHANGED <<where[t], job[t], drop[t], reviewHeld[t]>>
    BY <2>0 DEF ReviewTypeOK
  <2>5. reviewHeld'[s] = jobs /\ drop'[s] = {} /\ UNCHANGED <<job, review>>
    BY <2>0 DEF ReviewTypeOK
  <2>6. ASSUME NEW t \in ReviewSessions, t # s, NEW r \in Rows, r = job'[t] \/ r \in drop'[t]
        PROVE  Sees(t, r)'.state # "none"
    BY <2>4, <2>5, <2>6 DEF Sees, Dated
  <2>7. Sees(s, job[s])'.state # "none"
    BY <2>1, <2>2, <2>3, <2>5 DEF Sees
  <2>. QED
    BY <2>1, <2>3, <2>4, <2>5, <2>6, <2>7 DEF Dated
<1>6. Chain'
  <2> DEFINE on == known[s].enabled
             i == IF on THEN Due(s) ELSE 0
             row == [SeesFlow(s) EXCEPT !.next = IF i # known[s].next THEN i ELSE @]
             jobs == [r \in Rows |-> IF on /\ r \in NewRows
                                     THEN [NoJob EXCEPT !.state = "queued", !.due = i]
                                     ELSE IF r \in drop[s] THEN [Sees(s, r) EXCEPT !.state = "cancelled"]
                                     ELSE reviewHeld[s][r]]
  <2>0. /\ (on => NewRows # {}) /\ UNCHANGED <<clock, flow, review, job, known, reviewed, edits, errors, deaths>>
        /\ (i # known[s].next => FlowFree(s)) /\ \A r \in drop[s] : RowFree(s, r)
        /\ flowHeld' = (IF i # known[s].next THEN [flowHeld EXCEPT ![s] = row] ELSE flowHeld)
        /\ reviewHeld' = [reviewHeld EXCEPT ![s] = jobs]
        /\ drop' = [drop EXCEPT ![s] = {}] /\ where' = [where EXCEPT ![s] = "work"]
    BY DEF Rearm, RearmAt, reviewHistory, reviewRows, MoveTo
  <2>1. s \in Runners /\ on
    BY RearmFacts DEF ReviewSessions
  <2>2. PICK n \in NewRows : n \in Rows /\ Spare(n)
    BY <2>0, <2>1, NewRowIsOne
  <2>3. jobs[n].state = "queued" /\ job[s] # n
    BY <2>1, <2>2 DEF NoJob, Spare
  <2> HIDE DEF row, jobs, i
  <2>4. Minds(s)'
    BY <2>0, <2>2, <2>3 DEF Minds, CarriesAny, ReviewTypeOK
  <2>5. \A t \in ReviewSessions : t # s =>
           reviewHeld'[t] = reviewHeld[t] /\ where'[t] = where[t] /\ known'[t] = known[t]
    BY <2>0 DEF ReviewTypeOK
  <2>6. \A t \in ReviewSessions, r \in Rows : reviewHeld'[t][r] # NoJob =>
           Minds(t)' \/ (reviewHeld[t][r] # NoJob /\ ~Minds(t))
    BY <2>4, <2>5 DEF Minds, Bound, CarriesAny
  <2>. QED
    BY <1>1, <2>0, <2>6, StillChained
<1>7. Single'
  <2> DEFINE on == known[s].enabled
             i == IF on THEN Due(s) ELSE 0
             row == [SeesFlow(s) EXCEPT !.next = IF i # known[s].next THEN i ELSE @]
             jobs == [r \in Rows |-> IF on /\ r \in NewRows
                                     THEN [NoJob EXCEPT !.state = "queued", !.due = i]
                                     ELSE IF r \in drop[s] THEN [Sees(s, r) EXCEPT !.state = "cancelled"]
                                     ELSE reviewHeld[s][r]]
  <2>0. /\ (on => NewRows # {}) /\ UNCHANGED <<clock, flow, review, job, known, reviewed, edits, errors, deaths>>
        /\ (i # known[s].next => FlowFree(s)) /\ \A r \in drop[s] : RowFree(s, r)
        /\ flowHeld' = (IF i # known[s].next THEN [flowHeld EXCEPT ![s] = row] ELSE flowHeld)
        /\ reviewHeld' = [reviewHeld EXCEPT ![s] = jobs]
        /\ drop' = [drop EXCEPT ![s] = {}] /\ where' = [where EXCEPT ![s] = "work"]
    BY DEF Rearm, RearmAt, reviewHistory, reviewRows, MoveTo
  <2>1. s \in Runners /\ on
    BY RearmFacts DEF ReviewSessions
  <2>2. PICK n \in NewRows : n \in Rows /\ Spare(n)
    BY <2>0, <2>1, NewRowIsOne
  <2>3. jobs[n].state = "queued" /\ job[s] # n
    BY <2>1, <2>2 DEF NoJob, Spare
  <2> SUFFICES ASSUME ~overlapped', errors' = 0
               PROVE  OnlyOne(Armed, flow.enabled)' /\ \A t \in ReviewSessions : OpenSession(t)' => Alone(t)'
    BY Noted DEF Single
  <2>4. OnlyOne(Armed, flow.enabled) /\ Alone(s) /\ \A t \in ReviewSessions : OpenSession(t) => t = s
    BY <2>0, Noted, RearmFacts DEF Single, OpenSession
  <2>5. drop[s] = {} /\ SeenArmed(s) = {} /\ flow.enabled /\ reviewHeld[s][job[s]].state = "running"
    BY <2>1, <2>4, RearmFacts DEF Alone
  <2>6. \A r \in Rows : r # n => jobs[r] = reviewHeld[s][r]
    BY <2>2, <2>5, NewRowIsOne
  <2> HIDE DEF jobs, row, i
  <2>7. reviewHeld'[s] = jobs /\ where'[s] = "work" /\ job' = job /\ UNCHANGED <<flow, review>>
    BY <2>0 DEF ReviewTypeOK
  <2>8. SeenArmed(s)' = {n}
    <3>1. Sees(s, n)'.state = "queued"
      BY <2>3, <2>7 DEF Sees, NoJob
    <3>2. \A r \in Rows : r # n => Sees(s, r)' = Sees(s, r)
      BY <2>6, <2>7 DEF Sees
    <3>. QED
      BY <3>1, <3>2, <2>2, <2>5 DEF SeenArmed
  <2>9. job[s] \in Rows => reviewHeld'[s][job[s]].state = "running"
    BY <2>3, <2>5, <2>6, <2>7
  <2>10. Alone(s)'
    BY <2>2, <2>5, <2>7, <2>8, <2>9 DEF Alone, OnlyOne, ReviewTypeOK
  <2>11. \A t \in ReviewSessions : t # s => ~OpenSession(t)'
    BY <2>0, <2>4 DEF OpenSession, ReviewTypeOK
  <2>. QED
    BY <2>0, <2>4, <2>10, <2>11 DEF Armed
<1>. QED
  BY <1>1, <1>2, <1>3, <1>4, <1>5, <1>6, <1>7

LEMMA ReviewLoseReviewDeadlock ==
    ASSUME ReviewInv, NEW s \in ReviewSessions, LoseReviewDeadlock(s), ReviewNoted
    PROVE  ReviewInv'
<1> USE ReviewAssumption, NoneTypes DEF ReviewInv
<1>1. ReviewTypeOK'
  BY Noted DEF LoseReviewDeadlock, Forget, Rest, ReviewTypeOK, MoveTo, reviewRows, reviewHistory, ReviewStep,
       ReviewSessions, Working, Locking
<1>2. Locking'
  BY DEF LoseReviewDeadlock, Forget, Locking, MoveTo, OpenSession, reviewRows, Nothing, ReviewTypeOK
<1>3. Working'
  BY DEF LoseReviewDeadlock, Forget, Rest, Working, MoveTo, Carries, Nothing, ReviewTypeOK, Locking
<1>4. Editing'
  BY Noted DEF LoseReviewDeadlock, Forget, Rest, Editing, MoveTo, OpenSession, reviewRows, ReviewTypeOK
<1>5. Dated'
  BY DEF LoseReviewDeadlock, Forget, Dated, MoveTo, reviewRows, Sees, ReviewTypeOK, ReviewSessions, NoJob,
       Nothing, ReviewJob, Locking
<1>6. Chain'
  <2>1. ReviewTypeOK'
    BY <1>1
  <2>2. flow'.enabled => flow.enabled
    BY DEF LoseReviewDeadlock, reviewRows
  <2>3. \A r \in Rows : review[r].state = "queued" => review'[r].state = "queued"
    BY DEF LoseReviewDeadlock, reviewRows
  <2>4. \A t \in ReviewSessions, r \in Rows : reviewHeld'[t][r] # NoJob =>
           Minds(t)' \/ (reviewHeld[t][r] # NoJob /\ ~Minds(t))
    BY DEF LoseReviewDeadlock, Minds, Bound, CarriesAny, MoveTo, ReviewTypeOK, Forget, Nothing
  <2>. QED
    BY <2>1, <2>2, <2>3, <2>4, StillChained
<1>7. Single'
  <2>1. flow'.enabled = flow.enabled /\ errors' = errors /\ Armed' = Armed
    BY DEF LoseReviewDeadlock, reviewRows, reviewHistory, Armed, ReviewTypeOK
  <2>2. \A t \in ReviewSessions : OpenSession(t)' =>
           UNCHANGED <<where[t], job[t], known[t], drop[t], flowHeld[t], reviewHeld[t]>>
    BY DEF LoseReviewDeadlock, OpenSession, ReviewTypeOK, MoveTo, Forget, Rest
  <2>3. \A t \in ReviewSessions : OpenSession(t)' => SeenArmed(t)' = SeenArmed(t)
    BY <2>2 DEF LoseReviewDeadlock, reviewRows, SeenArmed, Sees
  <2>. QED
    BY <2>1, <2>2, <2>3, StillSingle
<1>. QED
  BY <1>1, <1>2, <1>3, <1>4, <1>5, <1>6, <1>7

LEMMA ReviewStartRunner ==
    ASSUME ReviewInv, NEW w \in Runners, StartRunner(w), ReviewNoted
    PROVE  ReviewInv'
<1> USE ReviewAssumption, NoneTypes DEF ReviewInv
<1>1. ReviewTypeOK'
  BY Noted DEF StartRunner, ReviewTypeOK, MoveTo, ReviewStep, ReviewSessions, reviewRows, reviewHistory
<1>2. Locking'
  BY DEF StartRunner, Locking, MoveTo, OpenSession, reviewRows, ReviewTypeOK
<1>3. Working'
  BY DEF StartRunner, ReviewTypeOK, Working, Carries, MoveTo, ReviewSessions, reviewRows
<1>4. Editing'
  BY Noted DEF StartRunner, Editing, MoveTo, OpenSession, reviewRows, ReviewTypeOK, ReviewSessions, Flow
<1>5. Dated'
  BY DEF StartRunner, Dated, MoveTo, OpenSession, reviewRows, Sees, ReviewTypeOK, Locking, Working
<1>6. Chain'
  <2>1. ReviewTypeOK'
    BY <1>1
  <2>2. flow'.enabled => flow.enabled
    BY DEF StartRunner, reviewRows, reviewSessions, MoveTo
  <2>3. \A r \in Rows : review[r].state = "queued" => review'[r].state = "queued"
    BY DEF StartRunner, reviewRows, reviewSessions, ReviewTypeOK
  <2>4. \A t \in ReviewSessions, r \in Rows : reviewHeld'[t][r] # NoJob =>
           Minds(t)' \/ (reviewHeld[t][r] # NoJob /\ ~Minds(t))
    BY DEF StartRunner, Minds, Bound, CarriesAny, MoveTo, ReviewTypeOK
  <2>. QED
    BY <2>1, <2>2, <2>3, <2>4, StillChained
<1>7. Single'
  <2> DEFINE wakes == flow.enabled /\ flow.next <= clock
  <2>1. CASE ~wakes
    <3>1. flow'.enabled = flow.enabled /\ errors' = errors /\ Armed' = Armed
      BY DEF StartRunner, reviewRows, reviewHistory, Armed
    <3>2. \A t \in ReviewSessions : OpenSession(t)' =>
             UNCHANGED <<where[t], job[t], known[t], drop[t], flowHeld[t], reviewHeld[t]>>
      BY <2>1 DEF StartRunner, OpenSession, ReviewTypeOK, MoveTo
    <3>3. \A t \in ReviewSessions : OpenSession(t)' => SeenArmed(t)' = SeenArmed(t)
      BY <3>2 DEF StartRunner, reviewRows, SeenArmed, Sees
    <3>. QED
      BY <3>1, <3>2, <3>3, StillSingle
  <2>2. CASE wakes
    <3> SUFFICES ASSUME ~overlapped', errors' = 0
                 PROVE  OnlyOne(Armed, flow.enabled)' /\ \A t \in ReviewSessions : OpenSession(t)' => Alone(t)'
      BY Noted DEF Single
    <3>1. ~overlapped /\ errors = 0
      BY Noted DEF StartRunner, reviewHistory
    <3>2. OnlyOne(Armed, flow.enabled)
      BY <3>1 DEF Single
    <3>3. \A t \in ReviewSessions : OpenSession(t) => Alone(t) /\ \A u \in ReviewSessions : OpenSession(u) => u = t
      BY <3>1 DEF Single
    <3>4. OnlyOne(Armed, flow.enabled)'
      BY <3>2 DEF StartRunner, OnlyOne, Armed, reviewRows
    <3>5. OpenSession(w)' /\ \A t \in ReviewSessions : t # w => ~OpenSession(t)'
      BY <2>2, Noted DEF StartRunner, MoveTo, OpenSession, ReviewSessions, ReviewTypeOK
    <3>6. Alone(w)'
      BY DEF StartRunner, Alone, MoveTo, ReviewTypeOK, ReviewSessions, Locking, OpenSession, reviewRows
    <3>. QED
      BY <3>4, <3>5, <3>6
  <2>. QED
    BY <2>1, <2>2
<1>. QED
  BY <1>1, <1>2, <1>3, <1>4, <1>5, <1>6, <1>7

LEMMA ReviewClaimReview ==
    ASSUME ReviewInv, NEW w \in Runners, ClaimReview(w), ReviewNoted
    PROVE  ReviewInv'
<1> USE ReviewAssumption, NoneTypes DEF ReviewInv
<1>1. ReviewTypeOK'
  BY Noted DEF ClaimReview, ReviewTypeOK, MoveTo, reviewRows, reviewHistory, ReviewStep, ReviewJob,
       ReviewSessions, Working
<1>2. Locking'
  BY DEF ClaimReview, Locking, MoveTo, OpenSession, reviewRows, ReviewTypeOK
<1>3. Working'
  BY DEF ClaimReview, Working, MoveTo, Carries, ReviewTypeOK
<1>4. Editing'
  BY Noted DEF ClaimReview, Editing, MoveTo, OpenSession, reviewRows
<1>5. Dated'
  BY DEF ClaimReview, Dated, MoveTo, OpenSession, reviewRows, Sees, Locking, Working, Claimable
<1>6. Chain'
  <2>1. ReviewTypeOK'
    BY <1>1
  <2>2. flow'.enabled => flow.enabled
    BY DEF ClaimReview, reviewRows, reviewSessions, MoveTo
  <2>3. \A r \in Rows : review[r].state = "queued" => review'[r].state = "queued"
    BY DEF ClaimReview, reviewRows, reviewSessions, ReviewTypeOK
  <2>4. \A t \in ReviewSessions, r \in Rows : reviewHeld'[t][r] # NoJob =>
           Minds(t)' \/ (reviewHeld[t][r] # NoJob /\ ~Minds(t))
    <3>1. \A t \in ReviewSessions : where[t] = "idle" => reviewHeld[t] = Nothing
      BY DEF Locking, OpenSession
    <3>2. \A t \in ReviewSessions : Bound(t)' = Bound(t)
      BY DEF ClaimReview, Bound, MoveTo, ReviewTypeOK, ReviewSessions
    <3>3. reviewHeld' = reviewHeld
      BY <3>1 DEF ClaimReview, ReviewTypeOK, ReviewSessions
    <3>. QED
      BY <3>2, <3>3 DEF Minds, CarriesAny
  <2>. QED
    BY <2>1, <2>2, <2>3, <2>4, StillChained
<1>7. Single'
  <2> SUFFICES ASSUME ~overlapped', errors' = 0
               PROVE  OnlyOne(Armed, flow.enabled)' /\ \A t \in ReviewSessions : OpenSession(t)' => Alone(t)'
    BY Noted DEF Single
  <2>1. ~overlapped /\ errors = 0
    BY Noted DEF ClaimReview, reviewHistory
  <2>2. OnlyOne(Armed, flow.enabled)
    BY <2>1 DEF Single
  <2>3. \A t \in ReviewSessions : OpenSession(t) => Alone(t) /\ \A u \in ReviewSessions : OpenSession(u) => u = t
    BY <2>1 DEF Single
  <2>4. OnlyOne(Armed, flow.enabled)'
    BY <2>2 DEF ClaimReview, OnlyOne, Armed, reviewRows
  <2>5. OpenSession(w)' /\ \A t \in ReviewSessions : t # w => ~OpenSession(t)'
    BY Noted DEF ClaimReview, MoveTo, OpenSession, ReviewSessions, ReviewTypeOK
  <2>6. Alone(w)'
    <3>1. PICK r \in Rows : Claimable(w, r) /\ job' = [job EXCEPT ![w] = r]
      BY DEF ClaimReview
    <3>2. where'[w] = "claim" /\ job'[w] = r /\ r # 0 /\ UNCHANGED <<flow, review>>
      BY <3>1 DEF ClaimReview, MoveTo, ReviewTypeOK, ReviewSessions, reviewRows
    <3>3. reviewHeld' = reviewHeld
      BY DEF ClaimReview, ReviewTypeOK, ReviewSessions, Locking, OpenSession
    <3>4. SeenArmed(w)' = SeenArmed(w) /\ r \in SeenArmed(w)
      BY <3>1, <3>2, <3>3 DEF SeenArmed, Sees, Claimable
    <3>5. OnlyOne(SeenArmed(w), flow.enabled)
      <4>1. CASE where[w] = "idle"
        <5>1. reviewHeld[w] = Nothing
          BY <4>1 DEF Locking, OpenSession, ReviewSessions
        <5>2. SeenArmed(w) = Armed
          BY <5>1 DEF SeenArmed, Sees, Armed, Nothing
        <5>. QED
          BY <5>2, <2>2
      <4>2. CASE where[w] = "drain"
        BY <4>2, <2>3 DEF Alone, OpenSession, ReviewSessions
      <4>. QED
        BY <4>1, <4>2 DEF ClaimReview
    <3>6. SeenArmed(w)' = {job'[w]}
      BY <3>2, <3>4, <3>5 DEF OnlyOne
    <3>. QED
      BY <3>2, <3>6 DEF Alone
  <2>. QED
    BY <2>4, <2>5, <2>6
<1>. QED
  BY <1>1, <1>2, <1>3, <1>4, <1>5, <1>6, <1>7

LEMMA ReviewBeginReview ==
    ASSUME ReviewInv, NEW w \in Runners, BeginReview(w), ReviewNoted
    PROVE  ReviewInv'
<1> USE ReviewAssumption, NoneTypes DEF ReviewInv
<1>1. ReviewTypeOK'
  <2>1. reviewHeld' \in [ReviewSessions -> [Rows -> ReviewJob]]
    <3>1. reviewHeld[w] \in [Rows -> ReviewJob] /\ w \in ReviewSessions
      BY DEF ReviewTypeOK, ReviewSessions
    <3>2. job[w] \in Rows
      BY DEF BeginReview, Working, ReviewTypeOK, ReviewSessions
    <3> DEFINE tries == IF Sees(w, job[w]).tries < ReviewTries THEN Sees(w, job[w]).tries + 1 ELSE ReviewTries
    <3>3. Sees(w, job[w]) \in ReviewJob /\ tries \in 0..ReviewTries
      BY <3>1, <3>2, SeenTypes DEF ReviewJob
    <3>4. \A x \in {"running", "succeeded"} :
             [Sees(w, job[w]) EXCEPT !.state = x, !.tries = tries] \in ReviewJob
      BY <3>3, BeginTypes
    <3>. QED
      BY <3>1, <3>2, <3>4 DEF BeginReview, ReviewTypeOK
  <2>. QED
    BY <2>1, Noted, SeenTypes DEF BeginReview, ReviewTypeOK, MoveTo, ReviewStep, reviewRows, reviewHistory
<1>2. Locking'
  BY DEF BeginReview, Locking, MoveTo, OpenSession, reviewRows, RowFree
<1>3. Working'
  BY DEF BeginReview, Working, MoveTo, Carries, SeesFlow, ReviewTypeOK
<1>4. Editing'
  BY Noted DEF BeginReview, Editing, MoveTo, OpenSession, reviewRows
<1>5. Dated'
  <2> DEFINE r == job[w]
  <2>1. r \in Rows /\ w \in ReviewSessions
    BY DEF BeginReview, Working, ReviewTypeOK, ReviewSessions
  <2>2. reviewHeld'[w][r].state # "none" /\ reviewHeld'[w][r].due # 0
    <3> DEFINE tries == IF Sees(w, r).tries < ReviewTries THEN Sees(w, r).tries + 1 ELSE ReviewTries
    <3>1. Sees(w, r) \in ReviewJob /\ Sees(w, r).due # 0
      BY <2>1, SeenTypes DEF Dated, Sees
    <3>0. w \in DOMAIN reviewHeld /\ r \in DOMAIN reviewHeld[w]
      BY <2>1 DEF ReviewTypeOK
    <3>2. \E x \in {"running", "succeeded"} :
             reviewHeld'[w][r] = [Sees(w, r) EXCEPT !.state = x, !.tries = tries]
      BY <3>0 DEF BeginReview
    <3>. QED
      BY <3>1, <3>2 DEF ReviewJob
  <2>3. \A q \in Rows : q # r => reviewHeld'[w][q] = reviewHeld[w][q]
    BY <2>1 DEF BeginReview, ReviewTypeOK
  <2>4. \A t \in ReviewSessions : t # w => reviewHeld'[t] = reviewHeld[t] /\ where'[t] = where[t]
    BY <2>1 DEF BeginReview, MoveTo, ReviewTypeOK
  <2>5. UNCHANGED <<job, drop, review>> /\ r' = r
    BY DEF BeginReview, reviewRows
  <2> HIDE DEF r
  <2>6. \A q \in Rows : q # r => Sees(w, q)' = Sees(w, q)
    BY <2>3, <2>5 DEF Sees
  <2>7. \A t \in ReviewSessions, q \in Rows : t # w => Sees(t, q)' = Sees(t, q)
    BY <2>4, <2>5 DEF Sees
  <2>8. Sees(w, r)'.state # "none" /\ reviewHeld'[w][r] # NoJob
    BY <2>2, <2>5 DEF Sees, NoJob
  <2>. QED
    BY <2>2, <2>3, <2>4, <2>5, <2>6, <2>7, <2>8 DEF Dated, r
<1>6. Chain'
  <2> USE DEF ReviewSessions
  <2>1. CASE ~SeesFlow(w).enabled
    BY <2>1 DEF BeginReview, Chain, SeesFlow, Locking, reviewRows
  <2>2. CASE SeesFlow(w).enabled
    <3>1. flow'.enabled => flow.enabled
      BY DEF BeginReview, reviewRows
    <3>2. \A r \in Rows : review[r].state = "queued" => review'[r].state = "queued"
      BY DEF BeginReview, reviewRows
    <3>3. Minds(w)'
      BY <2>2 DEF BeginReview, Minds, Bound, MoveTo, ReviewTypeOK
    <3>4. \A t \in ReviewSessions : t # w =>
             reviewHeld'[t] = reviewHeld[t] /\ where'[t] = where[t] /\ known'[t] = known[t]
      BY DEF BeginReview, MoveTo, ReviewTypeOK
    <3>5. \A t \in ReviewSessions, r \in Rows : reviewHeld'[t][r] # NoJob =>
             Minds(t)' \/ (reviewHeld[t][r] # NoJob /\ ~Minds(t))
      BY <3>3, <3>4 DEF Minds, Bound, CarriesAny
    <3>. QED
      BY <1>1, <3>1, <3>2, <3>5, StillChained
  <2>. QED
    BY <2>1, <2>2
<1>7. Single'
  <2> SUFFICES ASSUME ~overlapped', errors' = 0
               PROVE  OnlyOne(Armed, flow.enabled)' /\ \A t \in ReviewSessions : OpenSession(t)' => Alone(t)'
    BY Noted DEF Single
  <2>1. ~overlapped /\ errors = 0
    BY Noted DEF BeginReview, reviewHistory
  <2>2. OnlyOne(Armed, flow.enabled)
    BY <2>1 DEF Single
  <2>3. \A t \in ReviewSessions : OpenSession(t) => Alone(t) /\ \A u \in ReviewSessions : OpenSession(u) => u = t
    BY <2>1 DEF Single
  <2>4. OnlyOne(Armed, flow.enabled)'
    BY <2>2 DEF BeginReview, OnlyOne, Armed, reviewRows
  <2>5. OpenSession(w)' /\ \A t \in ReviewSessions : t # w => ~OpenSession(t)'
    BY Noted DEF BeginReview, MoveTo, OpenSession, ReviewSessions
  <2>6. Alone(w)'
    <3> DEFINE r == job[w]  f == SeesFlow(w)
    <3>1. Alone(w) /\ where[w] = "claim"
      BY <2>3 DEF BeginReview, OpenSession, ReviewSessions
    <3>2. r \in Rows /\ r # 0
      BY <3>1 DEF Working, ReviewTypeOK, ReviewSessions
    <3>3. f.enabled = flow.enabled
      BY DEF SeesFlow, Locking, ReviewSessions
    <3>4. \A q \in Rows : q # r => reviewHeld'[w][q] = reviewHeld[w][q]
      BY DEF BeginReview, ReviewTypeOK, ReviewSessions
    <3>5. Sees(w, r) \in ReviewJob
      BY <3>2 DEF Sees, ReviewTypeOK, ReviewSessions
    <3>6. reviewHeld'[w][r].state = (IF f.enabled THEN "running" ELSE "succeeded")
      BY <3>2 DEF BeginReview, ReviewTypeOK, ReviewSessions
    <3>7. where'[w] = (IF f.enabled THEN "pick" ELSE "drain") /\ UNCHANGED <<job, flow, review>>
      BY DEF BeginReview, MoveTo, ReviewTypeOK, ReviewSessions, reviewRows
    <3>8. SeenArmed(w)' = {}
      <4>1. \A q \in Rows : q # r => ~(Sees(w, q)'.state = "queued")
        BY <3>1, <3>4, <3>7 DEF Alone, SeenArmed, Sees
      <4>2. Sees(w, r)'.state # "queued"
        BY <3>6, <3>7 DEF Sees, NoJob
      <4>. QED
        BY <4>1, <4>2, <3>7 DEF SeenArmed
    <3>9. w \notin Editors
      BY ReviewAssumption
    <3>. QED
      BY <3>2, <3>3, <3>6, <3>7, <3>8 DEF Alone, OnlyOne
  <2>. QED
    BY <2>4, <2>5, <2>6
<1>. QED
  BY <1>1, <1>2, <1>3, <1>4, <1>5, <1>6, <1>7

LEMMA ReviewCompleteReview ==
    ASSUME ReviewInv, NEW w \in Runners, CompleteReview(w), ReviewNoted
    PROVE  ReviewInv'
<1> USE ReviewAssumption, NoneTypes DEF ReviewInv
<1>1. ReviewTypeOK'
  <2>1. reviewHeld' \in [ReviewSessions -> [Rows -> ReviewJob]]
    <3>1. reviewHeld[w] \in [Rows -> ReviewJob] /\ w \in ReviewSessions
      BY DEF ReviewTypeOK, ReviewSessions
    <3>2. job[w] \in Rows
      BY DEF CompleteReview, Working, ReviewTypeOK, ReviewSessions
    <3>3. [reviewHeld[w][job[w]] EXCEPT !.state = "succeeded"] \in ReviewJob
      BY <3>1, <3>2 DEF ReviewJob
    <3>. QED
      BY <3>1, <3>2, <3>3 DEF CompleteReview, ReviewTypeOK
  <2>2. reviewHeld[w][job[w]].due \in Instants
    <3>1. job[w] \in Rows /\ w \in ReviewSessions
      BY DEF CompleteReview, Working, ReviewTypeOK, ReviewSessions
    <3>2. reviewHeld[w][job[w]] \in ReviewJob
      BY <3>1 DEF ReviewTypeOK
    <3>3. reviewHeld[w][job[w]].due # 0
      BY <3>1 DEF CompleteReview, Dated
    <3>. QED
      BY <3>2, <3>3 DEF ReviewJob
  <2>. QED
    BY <2>1, Noted, <2>2 DEF CompleteReview, ReviewTypeOK, MoveTo, ReviewStep, reviewRows
<1>2. Locking'
  <2>1. job[w] \in Rows /\ w \in ReviewSessions
    BY DEF CompleteReview, Working, ReviewTypeOK, ReviewSessions
  <2>2. reviewHeld[w][job[w]] # NoJob
    BY <2>1 DEF CompleteReview, Dated
  <2>3. \A t \in ReviewSessions : t # w => reviewHeld'[t] = reviewHeld[t]
    BY DEF CompleteReview, ReviewTypeOK
  <2>4. \A r \in Rows : r # job[w] => reviewHeld'[w][r] = reviewHeld[w][r]
    BY <2>1 DEF CompleteReview, ReviewTypeOK
  <2>5. \A s, t \in ReviewSessions : \A r \in Rows :
           s # t => reviewHeld'[s][r] = NoJob \/ reviewHeld'[t][r] = NoJob
    BY <2>1, <2>2, <2>3, <2>4 DEF Locking
  <2>6. \A t \in ReviewSessions : t # w => where'[t] = where[t]
    BY DEF CompleteReview, MoveTo, ReviewTypeOK
  <2>7. \A t \in ReviewSessions : ~OpenSession(t)' =>
           flowHeld'[t] = NoFlow /\ reviewHeld'[t] = Nothing /\ job'[t] = 0
    BY DEF CompleteReview, MoveTo, OpenSession, Locking
  <2>. QED
    BY <2>5, <2>7 DEF CompleteReview, Locking, reviewRows
<1>3. Working'
  BY DEF CompleteReview, Working, MoveTo, Carries
<1>4. Editing'
  BY Noted DEF CompleteReview, Editing, MoveTo, OpenSession, reviewRows
<1>5. Dated'
  BY DEF CompleteReview, Dated, MoveTo, reviewRows, Sees, NoJob, Nothing, ReviewJob
<1>6. Chain'
  <2>1. ReviewTypeOK'
    BY <1>1
  <2>2. flow'.enabled => flow.enabled
    BY DEF CompleteReview, reviewRows, reviewSessions, MoveTo
  <2>3. \A r \in Rows : review[r].state = "queued" => review'[r].state = "queued"
    BY DEF CompleteReview, reviewRows, reviewSessions, ReviewTypeOK
  <2>4. \A t \in ReviewSessions, r \in Rows : reviewHeld'[t][r] # NoJob =>
           Minds(t)' \/ (reviewHeld[t][r] # NoJob /\ ~Minds(t))
    <3>1. CarriesAny(w)'
      BY DEF CompleteReview, Working, Carries, CarriesAny, ReviewSessions
    <3>2. \A t \in ReviewSessions : t # w =>
             reviewHeld'[t] = reviewHeld[t] /\ where'[t] = where[t] /\ known'[t] = known[t]
      BY DEF CompleteReview, MoveTo, ReviewTypeOK, ReviewSessions
    <3>. QED
      BY <3>1, <3>2 DEF Minds, Bound, CarriesAny
  <2>. QED
    BY <2>1, <2>2, <2>3, <2>4, StillChained
<1>7. Single'
  <2> SUFFICES ASSUME ~overlapped', errors' = 0
               PROVE  OnlyOne(Armed, flow.enabled)' /\ \A t \in ReviewSessions : OpenSession(t)' => Alone(t)'
    BY Noted DEF Single
  <2>1. ~overlapped /\ errors = 0
    BY Noted DEF CompleteReview, reviewHistory
  <2>2. OnlyOne(Armed, flow.enabled)
    BY <2>1 DEF Single
  <2>3. \A t \in ReviewSessions : OpenSession(t) => Alone(t) /\ \A u \in ReviewSessions : OpenSession(u) => u = t
    BY <2>1 DEF Single
  <2>4. OnlyOne(Armed, flow.enabled)'
    BY <2>2 DEF CompleteReview, OnlyOne, Armed, reviewRows
  <2>5. OpenSession(w)' /\ \A t \in ReviewSessions : t # w => ~OpenSession(t)'
    BY Noted DEF CompleteReview, MoveTo, OpenSession, ReviewSessions
  <2>6. Alone(w)'
    <3> DEFINE r == job[w]
    <3>1. Alone(w) /\ where[w] = "work"
      BY <2>3 DEF CompleteReview, OpenSession, ReviewSessions
    <3>2. r \in Rows /\ r # 0 /\ reviewHeld[w][r].state = "running"
      BY <3>1 DEF Working, Alone, ReviewTypeOK, ReviewSessions
    <3>3. \A q \in Rows : q # r => reviewHeld'[w][q] = reviewHeld[w][q]
      BY DEF CompleteReview, ReviewTypeOK, ReviewSessions
    <3>4. reviewHeld'[w][r].state = "succeeded"
      BY <3>2 DEF CompleteReview, ReviewTypeOK, ReviewSessions, ReviewJob
    <3>5. where'[w] = "drain" /\ UNCHANGED <<job, flow, review>>
      BY DEF CompleteReview, MoveTo, ReviewTypeOK, ReviewSessions, reviewRows
    <3>6. SeenArmed(w)' = SeenArmed(w)
      <4>1. \A q \in Rows : q # r => Sees(w, q)' = Sees(w, q)
        BY <3>3, <3>5 DEF Sees
      <4>2. Sees(w, r)'.state # "queued" /\ Sees(w, r).state # "queued"
        BY <3>2, <3>4, <3>5 DEF Sees, NoJob
      <4>. QED
        BY <4>1, <4>2, <3>5 DEF SeenArmed
    <3>7. w \notin Editors
      BY ReviewAssumption
    <3>. QED
      BY <3>1, <3>2, <3>5, <3>6 DEF Alone
  <2>. QED
    BY <2>4, <2>5, <2>6
<1>. QED
  BY <1>1, <1>2, <1>3, <1>4, <1>5, <1>6, <1>7

LEMMA ReviewFailReview ==
    ASSUME ReviewInv, NEW w \in Runners, FailReview(w), ReviewNoted
    PROVE  ReviewInv'
<1> USE ReviewAssumption, NoneTypes DEF ReviewInv
<1>1. ReviewTypeOK'
  <2>1. reviewHeld' \in [ReviewSessions -> [Rows -> ReviewJob]]
    <3>1. reviewHeld[w] \in [Rows -> ReviewJob] /\ w \in ReviewSessions
      BY DEF ReviewTypeOK, ReviewSessions
    <3>2. job[w] \in Rows
      BY DEF FailReview, Working, ReviewTypeOK, ReviewSessions
    <3>3. [reviewHeld[w][job[w]] EXCEPT !.state = "dead_letter"] \in ReviewJob
      BY <3>1, <3>2 DEF ReviewJob
    <3>4. [reviewHeld[w][job[w]] EXCEPT !.state = "queued", !.waits = TRUE] \in ReviewJob
      BY <3>1, <3>2, BackOffTypes
    <3>. QED
      BY <3>3, <3>4 DEF FailReview, ReviewTypeOK
  <2>. QED
    BY <2>1, Noted DEF FailReview, ReviewTypeOK, MoveTo, ReviewStep, reviewRows
<1>2. Locking'
  <2>1. job[w] \in Rows /\ w \in ReviewSessions
    BY DEF FailReview, Working, ReviewTypeOK, ReviewSessions
  <2>2. reviewHeld[w][job[w]] # NoJob
    BY <2>1 DEF FailReview, Dated
  <2>3. \A t \in ReviewSessions : t # w => reviewHeld'[t] = reviewHeld[t]
    BY DEF FailReview, ReviewTypeOK
  <2>4. \A r \in Rows : r # job[w] => reviewHeld'[w][r] = reviewHeld[w][r]
    BY <2>1 DEF FailReview, ReviewTypeOK
  <2>5. \A s, t \in ReviewSessions : \A r \in Rows :
           s # t => reviewHeld'[s][r] = NoJob \/ reviewHeld'[t][r] = NoJob
    BY <2>1, <2>2, <2>3, <2>4 DEF Locking
  <2>6. \A t \in ReviewSessions : t # w => where'[t] = where[t]
    BY DEF FailReview, MoveTo, ReviewTypeOK
  <2>7. \A t \in ReviewSessions : ~OpenSession(t)' =>
           flowHeld'[t] = NoFlow /\ reviewHeld'[t] = Nothing /\ job'[t] = 0
    BY DEF FailReview, MoveTo, OpenSession, Locking
  <2>. QED
    BY <2>5, <2>7 DEF FailReview, Locking, reviewRows
<1>3. Working'
  BY DEF FailReview, Working, MoveTo, Carries
<1>4. Editing'
  BY Noted DEF FailReview, Editing, MoveTo, OpenSession, reviewRows
<1>5. Dated'
  <2> DEFINE r == job[w]
  <2>1. r \in Rows /\ w \in ReviewSessions
    BY DEF FailReview, Working, ReviewTypeOK, ReviewSessions
  <2>2. reviewHeld'[w][r].state # "none" /\ reviewHeld'[w][r].due # 0
    <3> DEFINE j == reviewHeld[w][r]
    <3>1. j \in ReviewJob /\ j.due # 0
      BY <2>1 DEF FailReview, Dated, ReviewTypeOK
    <3>2. CASE j.tries >= ReviewTries
      <4>1. reviewHeld'[w][r] = [j EXCEPT !.state = "dead_letter"]
        BY <2>1, <3>2 DEF FailReview, ReviewTypeOK
      <4>. QED
        BY <3>1, <4>1 DEF ReviewJob
    <3>3. CASE ~(j.tries >= ReviewTries)
      <4>1. reviewHeld'[w][r] = [j EXCEPT !.state = "queued", !.waits = TRUE]
        BY <2>1, <3>3 DEF FailReview, ReviewTypeOK
      <4>. QED
        BY <3>1, <4>1 DEF ReviewJob
    <3>. QED
      BY <3>2, <3>3
  <2>3. \A q \in Rows : q # r => reviewHeld'[w][q] = reviewHeld[w][q]
    BY <2>1 DEF FailReview, ReviewTypeOK
  <2>4. \A t \in ReviewSessions : t # w => reviewHeld'[t] = reviewHeld[t] /\ where'[t] = where[t]
    BY <2>1 DEF FailReview, MoveTo, ReviewTypeOK
  <2>5. UNCHANGED <<job, drop, review>> /\ r' = r
    BY DEF FailReview, reviewRows
  <2> HIDE DEF r
  <2>6. \A q \in Rows : q # r => Sees(w, q)' = Sees(w, q)
    BY <2>3, <2>5 DEF Sees
  <2>7. \A t \in ReviewSessions, q \in Rows : t # w => Sees(t, q)' = Sees(t, q)
    BY <2>4, <2>5 DEF Sees
  <2>8. Sees(w, r)'.state # "none" /\ reviewHeld'[w][r] # NoJob
    BY <2>2, <2>5 DEF Sees, NoJob
  <2>. QED
    BY <2>2, <2>3, <2>4, <2>5, <2>6, <2>7, <2>8 DEF Dated, r
<1>6. Chain'
  <2>1. ReviewTypeOK'
    BY <1>1
  <2>2. flow'.enabled => flow.enabled
    BY DEF FailReview, reviewRows, reviewSessions, MoveTo
  <2>3. \A r \in Rows : review[r].state = "queued" => review'[r].state = "queued"
    BY DEF FailReview, reviewRows, reviewSessions, ReviewTypeOK
  <2>4. \A t \in ReviewSessions, r \in Rows : reviewHeld'[t][r] # NoJob =>
           Minds(t)' \/ (reviewHeld[t][r] # NoJob /\ ~Minds(t))
    <3>1. CarriesAny(w)'
      BY DEF FailReview, Working, Carries, CarriesAny, ReviewSessions
    <3>2. \A t \in ReviewSessions : t # w =>
             reviewHeld'[t] = reviewHeld[t] /\ where'[t] = where[t] /\ known'[t] = known[t]
      BY DEF FailReview, MoveTo, ReviewTypeOK, ReviewSessions
    <3>. QED
      BY <3>1, <3>2 DEF Minds, Bound, CarriesAny
  <2>. QED
    BY <2>1, <2>2, <2>3, <2>4, StillChained
<1>7. Single'
  <2>1. errors' # 0
    BY DEF FailReview, ReviewTypeOK
  <2>. QED
    BY <2>1 DEF Single
<1>. QED
  BY <1>1, <1>2, <1>3, <1>4, <1>5, <1>6, <1>7

LEMMA ReviewCommitPass ==
    ASSUME ReviewInv, NEW w \in Runners, CommitPass(w), ReviewNoted
    PROVE  ReviewInv'
<1> USE ReviewAssumption, NoneTypes DEF ReviewInv
<1>1. ReviewTypeOK'
  BY Noted DEF CommitPass, Commit, Forget, ReviewTypeOK, MoveTo, reviewSessions, reviewHistory, ReviewStep,
       Flow, ReviewJob, Sees, SeesFlow, Claimable, Rest, ReviewSessions, Working, Locking
<1>2. Locking'
  BY DEF CommitPass, Commit, Forget, Locking, MoveTo, OpenSession, Nothing, Sees, SeesFlow, Working, ReviewTypeOK
<1>3. Working'
  BY DEF CommitPass, Commit, Forget, Rest, Working, MoveTo, Carries, SeesFlow
<1>4. Editing'
  BY Noted DEF CommitPass, Commit, Forget, Editing, MoveTo, OpenSession, Locking, SeesFlow, Flow
<1>5. Dated'
  BY DEF CommitPass, Commit, Forget, Dated, MoveTo, Sees, ReviewTypeOK, ReviewSessions, NoJob, Nothing, ReviewJob
<1>6. Chain'
  <2> SUFFICES ASSUME flow'.enabled, ~contested' PROVE Chain!2'
    BY DEF Chain
  <2> USE DEF ReviewSessions
  <2>0. /\ flow' = SeesFlow(w)
        /\ review' = [r \in Rows |-> IF reviewHeld[w][r] # NoJob THEN reviewHeld[w][r] ELSE review[r]]
        /\ Forget(w, Rest(w)) /\ where[w] \notin {"pick", "rearm"}
    BY DEF CommitPass, Commit
  <2>1. flow.enabled
    BY <2>0 DEF SeesFlow, Locking
  <2>2. PICK r \in Armed : \A t \in ReviewSessions : reviewHeld[t][r] # NoJob => Minds(t)
    BY <2>1, Noted DEF Chain
  <2>3. \A t \in ReviewSessions : t # w =>
           reviewHeld'[t] = reviewHeld[t] /\ where'[t] = where[t] /\ known'[t] = known[t]
    BY <2>0 DEF Forget, MoveTo, ReviewTypeOK
  <2>4. \A q \in Rows : reviewHeld'[w][q] = NoJob
    BY <2>0 DEF Forget, Nothing, ReviewTypeOK
  <2>5. CASE reviewHeld[w][r] = NoJob
    <3>1. r \in Armed'
      BY <2>0, <2>5 DEF Armed
    <3>2. \A t \in ReviewSessions : reviewHeld'[t][r] # NoJob => Minds(t)'
      BY <2>2, <2>3, <2>4 DEF Minds, Bound, CarriesAny, Armed
    <3>. QED
      BY <3>1, <3>2
  <2>6. CASE reviewHeld[w][r] # NoJob
    <3>1. PICK q \in Rows : reviewHeld[w][q].state = "queued"
      BY <2>0, <2>2, <2>6 DEF Minds, Bound, CarriesAny
    <3>2. reviewHeld[w][q] # NoJob
      BY <3>1 DEF NoJob
    <3>3. q \in Armed'
      BY <2>0, <3>1, <3>2 DEF Armed
    <3>4. \A t \in ReviewSessions : reviewHeld'[t][q] = NoJob
      BY <2>3, <2>4, <3>2 DEF Locking
    <3>. QED
      BY <3>3, <3>4
  <2>. QED
    BY <2>5, <2>6
<1>7. Single'
  <2> SUFFICES ASSUME ~overlapped', errors' = 0
               PROVE  OnlyOne(Armed, flow.enabled)' /\ \A t \in ReviewSessions : OpenSession(t)' => Alone(t)'
    BY Noted DEF Single
  <2> USE DEF ReviewSessions
  <2>0. /\ flow' = SeesFlow(w) /\ UNCHANGED errors
        /\ review' = [r \in Rows |-> IF reviewHeld[w][r] # NoJob THEN reviewHeld[w][r] ELSE review[r]]
        /\ Forget(w, Rest(w))
    BY DEF CommitPass, Commit, reviewHistory
  <2>1. ~overlapped /\ errors = 0
    BY <2>0, Noted
  <2>2. flow'.enabled = flow.enabled
    BY <2>0 DEF SeesFlow, Locking
  <2>3. Armed' = SeenArmed(w)
    BY <2>0 DEF Armed, SeenArmed, Sees
  <2>4. CASE where[w] = "drain"
    <3>1. OpenSession(w)
      BY <2>4 DEF OpenSession
    <3>2. Alone(w) /\ \A t \in ReviewSessions : OpenSession(t) => t = w
      BY <2>1, <3>1 DEF Single
    <3>3. OnlyOne(SeenArmed(w), flow.enabled)
      BY <2>4, <3>2 DEF Alone
    <3>4. \A t \in ReviewSessions : ~OpenSession(t)'
      BY <2>0, <3>2 DEF Forget, MoveTo, Rest, OpenSession, ReviewTypeOK
    <3>. QED
      BY <2>2, <2>3, <3>3, <3>4 DEF OnlyOne
  <2>5. CASE where[w] = "idle"
    <3>1. reviewHeld[w] = Nothing
      BY <2>5 DEF Locking, OpenSession
    <3>2. SeenArmed(w) = Armed /\ review' = review
      BY <2>0, <3>1 DEF SeenArmed, Sees, Armed, Nothing, ReviewTypeOK
    <3>3. \A t \in ReviewSessions : OpenSession(t)' =>
             UNCHANGED <<where[t], job[t], known[t], drop[t], flowHeld[t], reviewHeld[t]>>
      BY <2>0 DEF Forget, MoveTo, Rest, OpenSession, ReviewTypeOK
    <3>4. \A t \in ReviewSessions : OpenSession(t)' => SeenArmed(t)' = SeenArmed(t)
      BY <3>2, <3>3 DEF SeenArmed, Sees
    <3>5. Single'
      BY <2>0, <2>2, <2>3, <3>2, <3>3, <3>4, StillSingle
    <3>. QED
      BY <2>0, <3>5 DEF Single
  <2>. QED
    BY <2>4, <2>5 DEF CommitPass
<1>. QED
  BY <1>1, <1>2, <1>3, <1>4, <1>5, <1>6, <1>7

LEMMA ReviewRunnerDies ==
    ASSUME ReviewInv, NEW w \in Runners, RunnerDies(w), ReviewNoted
    PROVE  ReviewInv'
<1> USE ReviewAssumption, NoneTypes DEF ReviewInv
<1>1. ReviewTypeOK'
  BY Noted DEF RunnerDies, Forget, ReviewTypeOK, MoveTo, reviewRows, ReviewStep, Flow, ReviewSessions
<1>2. Locking'
  BY DEF RunnerDies, Forget, Locking, MoveTo, OpenSession, reviewRows, Nothing, Working, ReviewTypeOK
<1>3. Working'
  BY DEF RunnerDies, Forget, Working, MoveTo, Carries, ReviewTypeOK
<1>4. Editing'
  BY Noted DEF RunnerDies, Forget, Editing, MoveTo, OpenSession, reviewRows
<1>5. Dated'
  BY DEF RunnerDies, Forget, Dated, MoveTo, reviewRows, Sees, ReviewTypeOK, ReviewSessions, NoJob, Nothing
<1>6. Chain'
  <2>1. ReviewTypeOK'
    BY <1>1
  <2>2. flow'.enabled => flow.enabled
    BY DEF RunnerDies, reviewRows
  <2>3. \A r \in Rows : review[r].state = "queued" => review'[r].state = "queued"
    BY DEF RunnerDies, reviewRows
  <2>4. \A t \in ReviewSessions, r \in Rows : reviewHeld'[t][r] # NoJob =>
           Minds(t)' \/ (reviewHeld[t][r] # NoJob /\ ~Minds(t))
    BY DEF RunnerDies, Minds, Bound, CarriesAny, MoveTo, ReviewTypeOK, Forget, Nothing
  <2>. QED
    BY <2>1, <2>2, <2>3, <2>4, StillChained
<1>7. Single'
  <2>1. flow'.enabled = flow.enabled /\ errors' = errors /\ Armed' = Armed
    BY DEF RunnerDies, reviewRows, reviewHistory, Armed, ReviewTypeOK
  <2>2. \A t \in ReviewSessions : OpenSession(t)' =>
           UNCHANGED <<where[t], job[t], known[t], drop[t], flowHeld[t], reviewHeld[t]>>
    BY DEF RunnerDies, OpenSession, ReviewTypeOK, MoveTo, Forget
  <2>3. \A t \in ReviewSessions : OpenSession(t)' => SeenArmed(t)' = SeenArmed(t)
    BY <2>2 DEF RunnerDies, reviewRows, SeenArmed, Sees
  <2>. QED
    BY <2>1, <2>2, <2>3, StillSingle
<1>. QED
  BY <1>1, <1>2, <1>3, <1>4, <1>5, <1>6, <1>7

LEMMA ReviewRetryDue ==
    ASSUME ReviewInv, NEW r \in Rows, RetryDue(r), ReviewNoted
    PROVE  ReviewInv'
<1> USE ReviewAssumption, NoneTypes DEF ReviewInv
<1>1. ReviewTypeOK'
  <2>1. review' \in [Rows -> ReviewJob]
    <3>1. [review[r] EXCEPT !.waits = FALSE] \in ReviewJob
      BY RetryTypes DEF ReviewTypeOK
    <3>. QED
      BY <3>1 DEF RetryDue, ReviewTypeOK
  <2>. QED
    BY <2>1, Noted DEF RetryDue, ReviewTypeOK, reviewSessions, reviewHistory
<1>2. Locking'
  BY DEF RetryDue, Locking, OpenSession, reviewSessions
<1>3. Working'
  BY DEF RetryDue, Working, reviewSessions, Carries, ReviewJob, Flow, NoFlow
<1>4. Editing'
  BY Noted DEF RetryDue, Editing, OpenSession, reviewSessions
<1>5. Dated'
  BY DEF RetryDue, Dated, reviewSessions, Sees
<1>6. Chain'
  <2>1. ReviewTypeOK'
    BY <1>1
  <2>2. flow'.enabled => flow.enabled
    BY DEF RetryDue, reviewRows, reviewSessions, MoveTo
  <2>3. \A n \in Rows : review[n].state = "queued" => review'[n].state = "queued"
    BY DEF RetryDue, reviewRows, reviewSessions, ReviewTypeOK
  <2>4. \A t \in ReviewSessions, n \in Rows : reviewHeld'[t][n] # NoJob =>
           Minds(t)' \/ (reviewHeld[t][n] # NoJob /\ ~Minds(t))
    BY DEF RetryDue, Minds, Bound, CarriesAny, ReviewSessions, reviewSessions
  <2>. QED
    BY <2>1, <2>2, <2>3, <2>4, StillChained
<1>7. Single'
  <2>1. flow'.enabled = flow.enabled /\ errors' = errors /\ Armed' = Armed
    BY DEF RetryDue, reviewRows, reviewHistory, Armed, ReviewTypeOK
  <2>2. \A t \in ReviewSessions : OpenSession(t)' =>
           UNCHANGED <<where[t], job[t], known[t], drop[t], flowHeld[t], reviewHeld[t]>>
    BY DEF RetryDue, reviewSessions
  <2>3. \A t \in ReviewSessions : OpenSession(t)' => SeenArmed(t)' = SeenArmed(t)
    BY <2>2 DEF RetryDue, SeenArmed, Sees
  <2>. QED
    BY <2>1, <2>2, <2>3, StillSingle
<1>. QED
  BY <1>1, <1>2, <1>3, <1>4, <1>5, <1>6, <1>7

LEMMA ReviewPassTime ==
    ASSUME ReviewInv, PassTime, ReviewNoted
    PROVE  ReviewInv'
<1> USE ReviewAssumption, NoneTypes DEF ReviewInv
<1>1. ReviewTypeOK'
  BY Noted DEF PassTime, ReviewTypeOK, reviewRows, reviewSessions, reviewHistory
<1>2. Locking'
  BY DEF PassTime, Locking, OpenSession, reviewRows, reviewSessions
<1>3. Working'
  BY DEF PassTime, Working, reviewSessions, Carries, ReviewJob, Flow, NoFlow
<1>4. Editing'
  BY Noted DEF PassTime, Editing, OpenSession, reviewRows, reviewSessions
<1>5. Dated'
  BY DEF PassTime, Dated, reviewRows, reviewSessions, Sees
<1>6. Chain'
  <2>1. ReviewTypeOK'
    BY <1>1
  <2>2. flow'.enabled => flow.enabled
    BY DEF PassTime, reviewRows, reviewSessions, MoveTo
  <2>3. \A r \in Rows : review[r].state = "queued" => review'[r].state = "queued"
    BY DEF PassTime, reviewRows, reviewSessions, ReviewTypeOK
  <2>4. \A t \in ReviewSessions, r \in Rows : reviewHeld'[t][r] # NoJob =>
           Minds(t)' \/ (reviewHeld[t][r] # NoJob /\ ~Minds(t))
    BY DEF PassTime, Minds, Bound, CarriesAny, reviewRows, reviewSessions
  <2>. QED
    BY <2>1, <2>2, <2>3, <2>4, StillChained
<1>7. Single'
  <2>1. flow'.enabled = flow.enabled /\ errors' = errors /\ Armed' = Armed
    BY DEF PassTime, reviewRows, reviewHistory, Armed, ReviewTypeOK
  <2>2. \A t \in ReviewSessions : OpenSession(t)' =>
           UNCHANGED <<where[t], job[t], known[t], drop[t], flowHeld[t], reviewHeld[t]>>
    BY DEF PassTime, reviewSessions
  <2>3. \A t \in ReviewSessions : OpenSession(t)' => SeenArmed(t)' = SeenArmed(t)
    BY <2>2 DEF PassTime, reviewRows, SeenArmed, Sees
  <2>. QED
    BY <2>1, <2>2, <2>3, StillSingle
<1>. QED
  BY <1>1, <1>2, <1>3, <1>4, <1>5, <1>6, <1>7

--------------------------------------------------------------------------------
(* The weekly series *)

\* next_run returns a moment of the schedule, strictly after now.
LEMMA NextRunIsLater ==
    ASSUME NEW plan \in Schedules, NEW t \in 0..MaxNow
    PROVE  NextRun(plan, t) \in plan /\ NextRun(plan, t) > t /\ NextRun(plan, t) \in Moments
                /\ NextRun(plan, t) # 0
<1> DEFINE Later == {i \in plan : i > t}
<1>0. plan \subseteq Nat \ {0} /\ t \in Nat
  BY SeriesAssumption
<1>1. Later \subseteq Nat /\ Later # {}
  BY <1>0, SeriesAssumption
<1>2. PICK m \in Later : \A k \in Later : m <= k
  BY <1>1, Least
<1>3. m \in plan /\ m > t /\ \A k \in plan : k > t => m <= k
  BY <1>2
<1>4. NextRun(plan, t) \in plan /\ NextRun(plan, t) > t
  BY <1>3 DEF NextRun
<1>. QED
  BY <1>0, <1>4 DEF Moments

\* Periods and moments.
LEMMA PeriodTypes == 0 \in Periods /\ (\A t \in 0..MaxNow : PeriodOf(t) \in Periods)
<1>1. 0 \in 0..MaxNow
  BY SeriesAssumption
<1>2. PeriodOf(0) = 0
  BY SeriesAssumption DEF PeriodOf
<1>. QED
  BY <1>1, <1>2 DEF Periods

LEMMA MomentTypes == Moments \subseteq Nat \ {0} /\ {} \notin Schedules
BY SeriesAssumption DEF Moments

\* A moment that was won is past and never armed again, a series that is armed has a
\* schedule, and who is about to swap holds a moment that was due.
Planned ==
    /\ \A i \in Moments : fired[i] # 0 => i <= now /\ series.next # i
    /\ series.next # 0 => series.plan \in Schedules
    /\ \A s \in SeriesSessions :
          /\ loaded[s].plan \in Schedules => series.plan \in Schedules
          /\ at[s] = "swap" => /\ s \in Tickers /\ loaded[s].plan \in Schedules
                               /\ loaded[s].next # 0 /\ loaded[s].next <= now

Asks(o) == at[o] \in {"pause", "schedule"}

\* Requests that come one after the other know the switch, the schedule and whether
\* a run is armed.
Turns ==
    ~crowded => \A o \in Owners : Asks(o) =>
        /\ \A q \in Owners : Asks(q) => q = o
        /\ loaded[o].enabled = series.enabled /\ loaded[o].plan = series.plan
        /\ loaded[o].next = 0 <=> series.next = 0

\* The inductive invariant of the series.
SeriesInv == SeriesTypeOK /\ OneDraft /\ FiredOnce /\ Planned /\ SwitchedOnIsArmed /\ Turns

(* The steps of a tick, of preparing a draft and of the owner's requests *)

LEMMA SeriesTickRead ==
    ASSUME SeriesInv, NEW w \in Tickers, TickRead(w)
    PROVE  SeriesInv'
<1> USE SeriesAssumption, PeriodTypes, NextRunIsLater DEF SeriesInv
<1>1. SeriesTypeOK'
  BY DEF TickRead, GoTo, Prepare, SeriesTypeOK, SeriesStep
<1>2. OneDraft'
  BY DEF TickRead, OneDraft
<1>3. FiredOnce'
  BY DEF TickRead, FiredOnce
<1>4. Planned'
  BY DEF TickRead, GoTo, DueSeries, SeriesTypeOK, Planned
<1>5. SwitchedOnIsArmed'
  BY DEF TickRead, SwitchedOnIsArmed
<1>6. Turns'
  BY DEF TickRead, GoTo, Turns, Asks
<1>. QED
  BY <1>1, <1>2, <1>3, <1>4, <1>5, <1>6

LEMMA SeriesTickSwap ==
    ASSUME SeriesInv, NEW w \in Tickers, TickSwap(w)
    PROVE  SeriesInv'
<1> USE SeriesAssumption, PeriodTypes, NextRunIsLater DEF SeriesInv
<1>1. SeriesTypeOK'
  BY DEF TickSwap, TickSwapWhen, Proceed, GoTo, SeriesSessions, SeriesTypeOK, SeriesRow, NoSchedule,
       SeriesStep, Planned
<1>2. OneDraft'
  BY DEF TickSwap, TickSwapWhen, OneDraft
<1>3. FiredOnce'
  BY DEF TickSwap, TickSwapWhen, FiredOnce, Planned
<1>4. Planned'
  BY DEF TickSwap, TickSwapWhen, Proceed, GoTo, SeriesSessions, SeriesTypeOK, Planned
<1>5. SwitchedOnIsArmed'
  BY DEF TickSwap, TickSwapWhen, SeriesSessions, SeriesTypeOK, Planned, SwitchedOnIsArmed
<1>6. Turns'
  <2>1. UNCHANGED crowded /\ \A o \in Owners : at'[o] = at[o] /\ loaded'[o] = loaded[o]
    BY DEF TickSwap, TickSwapWhen, Proceed, GoTo
  <2>2. series'.enabled = series.enabled /\ series'.plan = series.plan
    BY DEF TickSwap, TickSwapWhen, SeriesTypeOK, SeriesRow
  <2>3. (series'.next = 0) <=> (series.next = 0)
    BY DEF TickSwap, TickSwapWhen, SeriesTypeOK, Planned, SeriesSessions
  <2>. QED
    BY <2>1, <2>2, <2>3 DEF Turns, Asks
<1>. QED
  BY <1>1, <1>2, <1>3, <1>4, <1>5, <1>6

LEMMA SeriesLookUp ==
    ASSUME SeriesInv, NEW s \in SeriesSessions, LookUp(s)
    PROVE  SeriesInv'
<1> USE SeriesAssumption, PeriodTypes, NextRunIsLater DEF SeriesInv
<1>1. SeriesTypeOK'
  BY DEF LookUp, Proceed, GoTo, SeriesTypeOK, SeriesRow, NoSchedule, SeriesStep
<1>2. OneDraft'
  BY DEF LookUp, OneDraft
<1>3. FiredOnce'
  BY DEF LookUp, FiredOnce
<1>4. Planned'
  BY DEF LookUp, Proceed, GoTo, NoSchedule, Planned
<1>5. SwitchedOnIsArmed'
  BY DEF LookUp, SwitchedOnIsArmed
<1>6. Turns'
  BY DEF LookUp, Proceed, GoTo, Turns, Asks
<1>. QED
  BY <1>1, <1>2, <1>3, <1>4, <1>5, <1>6

LEMMA SeriesInsertDraft ==
    ASSUME SeriesInv, NEW s \in SeriesSessions, InsertDraft(s)
    PROVE  SeriesInv'
<1> USE SeriesAssumption, PeriodTypes, NextRunIsLater DEF SeriesInv
<1>1. SeriesTypeOK'
  BY DEF InsertDraft, Proceed, GoTo, SeriesSessions, SeriesTypeOK, SeriesRow, NoSchedule, SeriesStep
<1>2. OneDraft'
  BY DEF InsertDraft, SeriesTypeOK, OneDraft
<1>3. FiredOnce'
  BY DEF InsertDraft, FiredOnce
<1>4. Planned'
  BY DEF InsertDraft, Proceed, GoTo, NoSchedule, Planned
<1>5. SwitchedOnIsArmed'
  BY DEF InsertDraft, SwitchedOnIsArmed
<1>6. Turns'
  BY DEF InsertDraft, Proceed, GoTo, Turns, Asks
<1>. QED
  BY <1>1, <1>2, <1>3, <1>4, <1>5, <1>6

LEMMA SeriesPrepareFails ==
    ASSUME SeriesInv, NEW s \in SeriesSessions, PrepareFails(s)
    PROVE  SeriesInv'
<1> USE SeriesAssumption, PeriodTypes, NextRunIsLater DEF SeriesInv
<1>1. SeriesTypeOK'
  BY DEF PrepareFails, Proceed, GoTo, SeriesTypeOK, SeriesRow, NoSchedule, SeriesStep
<1>2. OneDraft'
  BY DEF PrepareFails, OneDraft
<1>3. FiredOnce'
  BY DEF PrepareFails, FiredOnce
<1>4. Planned'
  BY DEF PrepareFails, Proceed, GoTo, NoSchedule, Planned
<1>5. SwitchedOnIsArmed'
  BY DEF PrepareFails, SwitchedOnIsArmed
<1>6. Turns'
  BY DEF PrepareFails, Proceed, GoTo, Turns, Asks
<1>. QED
  BY <1>1, <1>2, <1>3, <1>4, <1>5, <1>6

LEMMA SeriesAskPause ==
    ASSUME SeriesInv, NEW o \in Owners, AskPause(o)
    PROVE  SeriesInv'
<1> USE SeriesAssumption, PeriodTypes, NextRunIsLater DEF SeriesInv
<1>1. SeriesTypeOK'
  BY DEF AskPause, Open, GoTo, SeriesSessions, SeriesTypeOK, SeriesStep
<1>2. OneDraft'
  BY DEF AskPause, OneDraft
<1>3. FiredOnce'
  BY DEF AskPause, FiredOnce
<1>4. Planned'
  BY DEF AskPause, Open, GoTo, Planned
<1>5. SwitchedOnIsArmed'
  BY DEF AskPause, Open, SwitchedOnIsArmed
<1>6. Turns'
  BY DEF AskPause, Open, GoTo, SeriesSessions, SeriesTypeOK, Turns, Asks
<1>. QED
  BY <1>1, <1>2, <1>3, <1>4, <1>5, <1>6

LEMMA SeriesWritePause ==
    ASSUME SeriesInv, NEW o \in Owners, WritePause(o)
    PROVE  SeriesInv'
<1> USE SeriesAssumption, PeriodTypes, NextRunIsLater DEF SeriesInv
<1>1. SeriesTypeOK'
  BY DEF WritePause, Proceed, GoTo, SeriesTypeOK, SeriesRow, NoSchedule, SeriesStep
<1>2. OneDraft'
  BY DEF WritePause, OneDraft
<1>3. FiredOnce'
  BY DEF WritePause, FiredOnce
<1>4. Planned'
  BY DEF WritePause, Proceed, GoTo, NoSchedule, Planned
<1>5. SwitchedOnIsArmed'
  BY DEF WritePause, SwitchedOnIsArmed
<1>6. Turns'
  BY DEF WritePause, Proceed, GoTo, SeriesTypeOK, Turns, Asks
<1>. QED
  BY <1>1, <1>2, <1>3, <1>4, <1>5, <1>6

LEMMA SeriesAskSchedule ==
    ASSUME SeriesInv, NEW o \in Owners, AskSchedule(o)
    PROVE  SeriesInv'
<1> USE SeriesAssumption, PeriodTypes, NextRunIsLater DEF SeriesInv
<1>1. SeriesTypeOK'
  BY DEF AskSchedule, Open, GoTo, SeriesSessions, SeriesTypeOK, SeriesStep
<1>2. OneDraft'
  BY DEF AskSchedule, OneDraft
<1>3. FiredOnce'
  BY DEF AskSchedule, FiredOnce
<1>4. Planned'
  BY DEF AskSchedule, Open, GoTo, Planned
<1>5. SwitchedOnIsArmed'
  BY DEF AskSchedule, Open, SwitchedOnIsArmed
<1>6. Turns'
  BY DEF AskSchedule, Open, GoTo, SeriesSessions, SeriesTypeOK, Turns, Asks
<1>. QED
  BY <1>1, <1>2, <1>3, <1>4, <1>5, <1>6

LEMMA SeriesAskPrepare ==
    ASSUME SeriesInv, NEW o \in Owners, NEW t \in 0..MaxNow, AskPrepare(o, t)
    PROVE  SeriesInv'
<1> USE SeriesAssumption, PeriodTypes, NextRunIsLater DEF SeriesInv
<1>1. SeriesTypeOK'
  BY DEF AskPrepare, AskPrepareFor, Open, GoTo, Prepare, SeriesSessions, SeriesTypeOK, SeriesStep
<1>2. OneDraft'
  BY DEF AskPrepare, AskPrepareFor, OneDraft
<1>3. FiredOnce'
  BY DEF AskPrepare, AskPrepareFor, FiredOnce
<1>4. Planned'
  BY DEF AskPrepare, AskPrepareFor, Open, GoTo, Planned
<1>5. SwitchedOnIsArmed'
  BY DEF AskPrepare, AskPrepareFor, Open, SwitchedOnIsArmed
<1>6. Turns'
  BY DEF AskPrepare, AskPrepareFor, Open, GoTo, SeriesTypeOK, Turns, Asks
<1>. QED
  BY <1>1, <1>2, <1>3, <1>4, <1>5, <1>6

LEMMA SeriesWriteSchedule ==
    ASSUME SeriesInv, NEW o \in Owners, NEW on \in BOOLEAN, NEW plan \in Schedules, WriteSchedule(o, on, plan)
    PROVE  SeriesInv'
<1> USE SeriesAssumption, PeriodTypes, NextRunIsLater DEF SeriesInv
<1>1. SeriesTypeOK'
  BY DEF WriteSchedule, WriteScheduleAs, Proceed, GoTo, SeriesTypeOK, SeriesRow, NoSchedule, SeriesStep
<1>2. OneDraft'
  BY DEF WriteSchedule, WriteScheduleAs, OneDraft
<1>3. FiredOnce'
  BY DEF WriteSchedule, WriteScheduleAs, FiredOnce
<1>4. Planned'
  <2> DEFINE old == loaded[o]  next == IF on THEN NextRun(plan, now) ELSE 0
  <2>1. /\ series'.plan = (IF plan # old.plan THEN plan ELSE series.plan)
        /\ series'.next = (IF next # old.next THEN next ELSE series.next)
        /\ at' = [at EXCEPT ![o] = "rest"] /\ loaded' = [loaded EXCEPT ![o] = NoSchedule]
        /\ UNCHANGED <<now, fired>> /\ o \in SeriesSessions
    BY DEF WriteSchedule, WriteScheduleAs, Proceed, GoTo, SeriesSessions
  <2>2. series'.plan \in Schedules
    BY <2>1 DEF Planned
  <2>3. next = 0 \/ next > now
    BY DEF SeriesTypeOK
  <2>4. \A i \in Moments : fired[i] # 0 => i <= now /\ series'.next # i
    BY <2>1, MomentTypes DEF Planned, SeriesTypeOK
  <2>. QED
    BY <2>1, <2>4 DEF Planned
<1>5. SwitchedOnIsArmed'
  BY DEF WriteSchedule, WriteScheduleAs, SeriesTypeOK, SwitchedOnIsArmed, Turns, Asks
<1>6. Turns'
  BY DEF WriteSchedule, WriteScheduleAs, Proceed, GoTo, SeriesSessions, SeriesTypeOK, Turns, Asks
<1>. QED
  BY <1>1, <1>2, <1>3, <1>4, <1>5, <1>6

LEMMA SeriesTickerDies ==
    ASSUME SeriesInv, NEW w \in Tickers, TickerDies(w)
    PROVE  SeriesInv'
<1> USE SeriesAssumption, PeriodTypes, NextRunIsLater DEF SeriesInv
<1>1. SeriesTypeOK'
  BY DEF TickerDies, Proceed, GoTo, SeriesSessions, SeriesTypeOK, SeriesRow, NoSchedule, SeriesStep
<1>2. OneDraft'
  BY DEF TickerDies, OneDraft
<1>3. FiredOnce'
  BY DEF TickerDies, FiredOnce
<1>4. Planned'
  BY DEF TickerDies, Proceed, GoTo, SeriesTypeOK, NoSchedule, Planned
<1>5. SwitchedOnIsArmed'
  BY DEF TickerDies, SwitchedOnIsArmed
<1>6. Turns'
  BY DEF TickerDies, Proceed, GoTo, Turns, Asks
<1>. QED
  BY <1>1, <1>2, <1>3, <1>4, <1>5, <1>6

LEMMA SeriesWeekPasses ==
    ASSUME SeriesInv, WeekPasses
    PROVE  SeriesInv'
<1> USE SeriesAssumption, PeriodTypes, NextRunIsLater DEF SeriesInv
<1>1. SeriesTypeOK'
  BY DEF WeekPasses, SeriesTypeOK
<1>2. OneDraft'
  BY DEF WeekPasses, OneDraft
<1>3. FiredOnce'
  BY DEF WeekPasses, FiredOnce
<1>4. Planned'
  <2>1. UNCHANGED <<series, at, loaded, fired>> /\ now' = now + 1 /\ now \in Nat
    BY DEF WeekPasses, SeriesTypeOK
  <2>2. \A i \in Moments : i <= now => i <= now + 1
    BY <2>1, MomentTypes
  <2>3. \A s \in SeriesSessions : loaded[s].next \in Nat
    <3>1. \A s \in SeriesSessions : loaded[s].next \in Moments \cup {0}
      BY DEF SeriesTypeOK, SeriesRow
    <3>2. \A n \in Moments \cup {0} : n \in Nat
      BY MomentTypes
    <3>. QED
      BY <3>1, <3>2
  <2>. QED
    BY <2>1, <2>2, <2>3 DEF Planned
<1>5. SwitchedOnIsArmed'
  BY DEF WeekPasses, SwitchedOnIsArmed
<1>6. Turns'
  BY DEF WeekPasses, Turns, Asks
<1>. QED
  BY <1>1, <1>2, <1>3, <1>4, <1>5, <1>6

--------------------------------------------------------------------------------
(* Both schedules *)

\* The two schedules share a worker's desk, which is with one or the other.
ScheduleInv == ReviewInv /\ SeriesInv /\ desk \in {"reviews", "weekly"}

\* Each argument holds at the start, along each step and where nothing happens.
LEMMA ReviewInitInv == ReviewInit => ReviewInv
<1> SUFFICES ASSUME ReviewInit PROVE ReviewInv
  OBVIOUS
<1>1. PICK p \in Plans :
         /\ flow = [enabled |-> TRUE, plan |-> p, next |-> Occurrence(p, 0)]
         /\ review = [Nothing EXCEPT ![1] = [NoJob EXCEPT !.state = "queued", !.due = Occurrence(p, 0)]]
  BY DEF ReviewInit
<1>2. 0 \in 0..Horizon /\ 1 \in Rows /\ 0 \in 0..ReviewTries /\ 0 \in 0..MaxEdits /\ 0 \in 0..MaxFaults
  BY ReviewAssumption DEF Rows
<1>3. Occurrence(p, 0) \in Instants /\ Occurrence(p, 0) # 0
  BY <1>2, OccurrenceIsLater
<1>4. flow \in Flow /\ flow.enabled
  BY <1>1, <1>3 DEF Flow
<1> DEFINE first == [NoJob EXCEPT !.state = "queued", !.due = Occurrence(p, 0)]
<1>5. first \in ReviewJob /\ first.state = "queued" /\ first.due # 0
  BY <1>2, <1>3 DEF NoJob, ReviewJob
<1> HIDE DEF first
<1>6. /\ review \in [Rows -> ReviewJob] /\ review[1] = first
      /\ \A r \in Rows : r # 1 => review[r] = NoJob
  BY <1>1, <1>2, <1>5, NoneTypes DEF Nothing, first
<1>7. Armed = {1}
  BY <1>2, <1>5, <1>6 DEF Armed, NoJob
<1>8. /\ \A s \in ReviewSessions : /\ where[s] \in {"off", "idle"} /\ job[s] = 0 /\ flowHeld[s] = NoFlow
                                   /\ known[s] = NoFlow /\ drop[s] = {} /\ reviewHeld[s] = Nothing
                                   /\ ~OpenSession(s)
      /\ \A e \in Editors : where[e] = "idle"
      /\ \A s \in ReviewSessions, r \in Rows : reviewHeld[s][r] = NoJob
  BY ReviewAssumption DEF ReviewInit, ReviewSessions, OpenSession, Nothing
<1>9. ReviewTypeOK
  BY <1>2, <1>4, <1>6, NoneTypes, ReviewAssumption DEF ReviewInit, ReviewTypeOK, ReviewStep
<1>10. Locking /\ Working /\ Editing
  BY <1>8 DEF Locking, Working, Editing, ReviewSessions
<1>11. Dated
  BY <1>2, <1>5, <1>6, <1>8, NoneTypes DEF Dated, NoJob, ReviewSessions
<1>12. Chain
  BY <1>2, <1>7, <1>8 DEF Chain
<1>13. Single
  BY <1>2, <1>4, <1>7, <1>8 DEF Single, OnlyOne
<1>. QED
  BY <1>9, <1>10, <1>11, <1>12, <1>13 DEF ReviewInv

LEMMA ReviewStepInv == ReviewInv /\ ReviewNext => ReviewInv'
<1> SUFFICES ASSUME ReviewInv, ReviewStepTaken, ReviewNoted PROVE ReviewInv'
  BY DEF ReviewNext
<1>1. \A s \in ReviewSessions : Rearm(s) => ReviewInv'
  BY ReviewRearmCommit, ReviewRearmOn
<1>2. ASSUME NEW e \in Editors, LoadSettings(e) \/ SettingsStep(e) PROVE ReviewInv'
  BY <1>1, <1>2, ReviewLoadSettings, ReviewWriteSettings, ReviewPickReviews, ReviewLoseReviewDeadlock
     DEF SettingsStep, ReviewSessions
<1>3. ASSUME NEW w \in Runners, RunnerStep(w) \/ FailReview(w) \/ RunnerDies(w) PROVE ReviewInv'
  BY <1>1, <1>3, ReviewStartRunner, ReviewPickReviews, ReviewClaimReview, ReviewBeginReview, ReviewCompleteReview,
     ReviewCommitPass, ReviewLoseReviewDeadlock, ReviewFailReview, ReviewRunnerDies
     DEF RunnerStep, ReviewSessions
<1>4. ASSUME NEW r \in Rows, RetryDue(r) PROVE ReviewInv'
  BY <1>4, ReviewRetryDue
<1>5. PassTime => ReviewInv'
  BY ReviewPassTime
<1>. QED
  BY <1>2, <1>3, <1>4, <1>5 DEF ReviewStepTaken

LEMMA ReviewStutters == ReviewInv /\ UNCHANGED reviewVars => ReviewInv'
<1> SUFFICES ASSUME ReviewInv, UNCHANGED reviewVars PROVE ReviewInv'
  OBVIOUS
<1> USE DEF ReviewInv, reviewVars, reviewRows, reviewSessions, reviewHistory
<1>1. ReviewTypeOK' /\ Locking' /\ Working'
  BY DEF ReviewTypeOK, Locking, Working, OpenSession, Carries
<1>2. Editing' /\ Dated'
  BY DEF Editing, Dated, OpenSession, Sees
<1>3. Chain'
  BY DEF Chain, Armed, Minds, Bound, CarriesAny
<1>4. Single'
  BY DEF Single, OpenSession, Armed, OnlyOne, Alone, SeenArmed, Sees
<1>. QED
  BY <1>1, <1>2, <1>3, <1>4

LEMMA SeriesInitInv == SeriesInit => SeriesInv
<1> SUFFICES ASSUME SeriesInit PROVE SeriesInv
  OBVIOUS
<1>1. /\ \A s \in SeriesSessions : at[s] = "rest" /\ loaded[s] = NoSchedule
      /\ \A p \in Periods : decks[p] = 0
      /\ \A i \in Moments : fired[i] = 0 /\ i # 0
  BY MomentTypes DEF SeriesInit
<1>2. SeriesTypeOK
  <2>1. NoSchedule \in SeriesRow /\ 0 \in 0..MaxNow /\ 0 \in 0..MaxRequests /\ 0 \in 0..MaxTickerDeaths
    BY SeriesAssumption DEF NoSchedule, SeriesRow
  <2>. QED
    BY <2>1, PeriodTypes DEF SeriesInit, SeriesTypeOK, SeriesStep
<1>3. OneDraft /\ FiredOnce /\ SwitchedOnIsArmed
  BY <1>1 DEF SeriesInit, OneDraft, FiredOnce, SwitchedOnIsArmed, NoSchedule
<1>4. Planned /\ Turns
  BY <1>1, MomentTypes DEF SeriesInit, Planned, Turns, Asks, NoSchedule, SeriesSessions
<1>. QED
  BY <1>2, <1>3, <1>4 DEF SeriesInv

LEMMA SeriesStepInv == SeriesInv /\ SeriesNext => SeriesInv'
<1> SUFFICES ASSUME SeriesInv, SeriesNext PROVE SeriesInv'
  OBVIOUS
<1>1. ASSUME NEW s \in SeriesSessions, Prepares(s) PROVE SeriesInv'
  BY <1>1, SeriesLookUp, SeriesInsertDraft, SeriesPrepareFails DEF Prepares
<1>2. ASSUME NEW w \in Tickers, Tick(w) \/ TickerDies(w) PROVE SeriesInv'
  BY <1>1, <1>2, SeriesTickRead, SeriesTickSwap, SeriesTickerDies DEF Tick, SeriesSessions
<1>3. ASSUME NEW o \in Owners, AskPause(o) \/ WritePause(o) \/ AskSchedule(o) \/ Prepares(o) PROVE SeriesInv'
  BY <1>1, <1>3, SeriesAskPause, SeriesWritePause, SeriesAskSchedule DEF SeriesSessions
<1>. QED
  BY <1>2, <1>3, SeriesAskPrepare, SeriesWriteSchedule, SeriesWeekPasses DEF SeriesNext

LEMMA SeriesStutters == SeriesInv /\ UNCHANGED seriesVars => SeriesInv'
BY DEF SeriesInv, seriesVars, SeriesTypeOK, OneDraft, FiredOnce, Planned, SwitchedOnIsArmed, Turns, Asks

\* The inductive invariant holds throughout: of the standup reviews (standup/service.py,
\* standup/handlers.py) and of the weekly series (presentations/scheduler.py).
THEOREM SchedulesKept == Spec => []ScheduleInv
<1>1. Init => ScheduleInv
  BY ReviewInitInv, SeriesInitInv DEF Init, ScheduleInv
<1>2. ScheduleInv /\ [Next]_vars => ScheduleInv'
  <2> SUFFICES ASSUME ScheduleInv, [Next]_vars PROVE ScheduleInv'
    OBVIOUS
  <2>1. CASE Reviews(ReviewNext)
    BY <2>1, ReviewStepInv, SeriesStutters DEF Reviews, ScheduleInv
  <2>2. CASE Weekly(SeriesNext)
    BY <2>2, SeriesStepInv, ReviewStutters DEF Weekly, ScheduleInv
  <2>3. CASE UNCHANGED vars
    BY <2>3, ReviewStutters, SeriesStutters DEF vars, ScheduleInv
  <2>. QED
    BY <2>1, <2>2, <2>3 DEF Next
<1>. QED
  BY <1>1, <1>2, PTL DEF Spec

\* The rows and sessions of both schedules keep their types, whatever fails or dies.
THEOREM SchedulesTyped == Spec => []TypeOK
<1>1. ScheduleInv => TypeOK
  BY DEF ScheduleInv, ReviewInv, SeriesInv, TypeOK
<1>. QED
  BY <1>1, SchedulesKept, PTL

\* "The chain never breaks": whenever no session is open an enabled standup workflow has
\* a review armed, whatever failed, died or raced before, for any number of workers,
\* edits and faults; only two settings requests at once may break it.
THEOREM ChainNeverBreaks == Spec => []ChainHolds
<1>1. ScheduleInv => ChainHolds
  BY DEF ScheduleInv, ReviewInv, Chain, ChainHolds
<1>. QED
  BY <1>1, SchedulesKept, PTL

\* Exactly one review job is armed while the workflow is enabled and none while it is
\* not, unless sessions overlapped or a review failed after it had armed its successor.
THEOREM OneReviewArmed == Spec => []OneArmed
<1>1. Single => OneArmed
  <2> SUFFICES ASSUME Single, ~overlapped, errors = 0
               PROVE Cardinality(Armed) = IF flow.enabled THEN 1 ELSE 0
    BY DEF OneArmed
  <2>1. OnlyOne(Armed, flow.enabled)
    BY DEF Single
  <2>2. CASE ~flow.enabled
    BY <2>1, <2>2, FS_EmptySet DEF OnlyOne
  <2>3. CASE flow.enabled
    <3>1. PICK r \in Rows : Armed = {r}
      BY <2>1, <2>3 DEF OnlyOne
    <3>. QED
      BY <2>3, <3>1, FS_Singleton
  <2>. QED
    BY <2>2, <2>3
<1>. QED
  BY <1>1, SchedulesKept, PTL DEF ScheduleInv, ReviewInv

\* Manual and scheduled preparation converge on one draft per period of the series
\* (prepare_occurrence's unique key), however many prepare it at once, fail or die.
THEOREM OneDraftAPeriod == Spec => []OneDraft
<1>1. ScheduleInv => OneDraft
  BY DEF ScheduleInv, SeriesInv
<1>. QED
  BY <1>1, SchedulesKept, PTL

\* A planned instant of the series is won by one scheduler process, once (tick's
\* compare-and-swap of next_run_at), also when it is rescheduled while it is due.
THEOREM WonOnce == Spec => []FiredOnce
<1>1. ScheduleInv => FiredOnce
  BY DEF ScheduleInv, SeriesInv
<1>. QED
  BY <1>1, SchedulesKept, PTL

\* A series that is switched on has a next run (set_schedule); only two settings
\* requests at once can leave it without.
THEOREM StaysArmed == Spec => []SwitchedOnIsArmed
<1>1. ScheduleInv => SwitchedOnIsArmed
  BY DEF ScheduleInv, SeriesInv
<1>. QED
  BY <1>1, SchedulesKept, PTL
================================================================================
