----------------------------- MODULE StandupSchedule -----------------------------
(***************************************************************************)
(* The self-perpetuating chain of standup reviews: every review job arms    *)
(* the next one (standup/handlers.py, standup/service.py), a settings edit  *)
(* re-arms it, and a worker that starts re-arms what lies in the past.      *)
(*                                                                          *)
(* A session (a PATCH, a worker's start, a worker's pass) is one READ       *)
(* COMMITTED transaction; it knows the workflow as it loaded it, and rows   *)
(* it has flushed stay locked until it ends.                                *)
(*                                                                          *)
(* Instants are numbered; a plan (time zone, review time, working days) is  *)
(* the set of instants at which a review is due under it.                   *)
(***************************************************************************)
EXTENDS Naturals, FiniteSets

CONSTANTS Editors,       \* settings requests that may be open at once
          Runners,       \* standup workers: scripts/standup_worker.py
          Cron,          \* the runners started with --once, again and again
          Plans,         \* settings: sets of instants
          Horizon,       \* bound on the clock
          ReviewRows,    \* rows a job may use; rows of settled jobs are reused
          ReviewTries,   \* max_attempts of a review job
          MaxEdits, MaxFaults

ASSUME ReviewAssumption ==
    /\ Editors \cap Runners = {} /\ Cron \subseteq Runners
    /\ Horizon \in Nat /\ ReviewRows \in Nat \ {0} /\ ReviewTries \in Nat \ {0}
    /\ MaxEdits \in Nat /\ MaxFaults \in Nat
    /\ \A p \in Plans : p \subseteq Nat \ {0} /\ \A t \in 0..Horizon : \E i \in p : i > t

VARIABLES
    clock,
    flow,        \* the committed workflow: enabled, plan, next (0: NULL)
    review,      \* the committed review jobs
    where,       \* per session: its next step
    job,         \* per session: the row of the job it claims or runs (0: none)
    known,       \* per session: the workflow as its object says
    drop,        \* per session: the queued reviews its SELECT returned
    flowHeld,    \* per session: the workflow it has flushed, not committed
    reviewHeld,  \* per session: the jobs it has flushed, not committed
    reviewed,    \* instants whose review has been carried out
    edits, errors, deaths,
    overlapped,  \* two sessions have been open at once
    contested    \* two settings requests have been open at once

reviewRows == <<flow, review>>
reviewSessions == <<where, job, known, drop, flowHeld, reviewHeld>>
reviewHistory == <<reviewed, edits, errors, deaths>>
reviewVars == <<clock, reviewRows, reviewSessions, reviewHistory, overlapped, contested>>

ReviewSessions == Editors \cup Runners
Rows == 1..ReviewRows
Instants == UNION Plans
Flow == [enabled : BOOLEAN, plan : Plans, next : Instants \cup {0}]
ReviewJob == [state : {"none", "queued", "running", "succeeded", "cancelled", "dead_letter"},
              due : Instants \cup {0}, tries : 0..ReviewTries, waits : BOOLEAN]
ReviewStep == {"off", "idle", "write", "pick", "rearm", "claim", "work", "drain"}

NoJob == [state |-> "none", due |-> 0, tries |-> 0, waits |-> FALSE]
NoFlow == [enabled |-> FALSE, plan |-> {}, next |-> 0]
Nothing == [r \in Rows |-> NoJob]

ReviewTypeOK ==
    /\ clock \in 0..Horizon
    /\ flow \in Flow /\ review \in [Rows -> ReviewJob]
    /\ where \in [ReviewSessions -> ReviewStep]
    /\ job \in [ReviewSessions -> Rows \cup {0}]
    /\ known \in [ReviewSessions -> Flow \cup {NoFlow}]
    /\ drop \in [ReviewSessions -> SUBSET Rows]
    /\ flowHeld \in [ReviewSessions -> Flow \cup {NoFlow}]
    /\ reviewHeld \in [ReviewSessions -> [Rows -> ReviewJob]]
    /\ reviewed \subseteq Instants
    /\ edits \in 0..MaxEdits /\ errors \in 0..MaxFaults /\ deaths \in 0..MaxFaults
    /\ overlapped \in BOOLEAN /\ contested \in BOOLEAN

--------------------------------------------------------------------------------
(* Sessions and their locks *)

OpenSession(s) == where[s] \notin {"off", "idle"}

\* A flushed row belongs to its session until it ends.
RowFree(s, r) == \A t \in ReviewSessions \ {s} : reviewHeld[t][r] = NoJob
FlowFree(s) == \A t \in ReviewSessions \ {s} : flowHeld[t] = NoFlow

\* A row as the session sees it: what it flushed, or what is committed.
Sees(s, r) == IF reviewHeld[s][r] # NoJob THEN reviewHeld[s][r] ELSE review[r]
SeesFlow(s) == IF flowHeld[s] # NoFlow THEN flowHeld[s] ELSE flow

\* Rows a new job may use: unused or settled, and nobody's concern.
Spare(r) ==
    /\ review[r].state \notin {"queued", "running"}
    /\ \A t \in ReviewSessions : reviewHeld[t][r] = NoJob /\ job[t] # r /\ r \notin drop[t]

NewRows == {r \in Rows : Spare(r) /\ \A q \in Rows : Spare(q) => r <= q}

MoveTo(s, step) == where' = [where EXCEPT ![s] = step]

\* The session ends and forgets.
Forget(s, step) ==
    /\ MoveTo(s, step)
    /\ job' = [job EXCEPT ![s] = 0]
    /\ known' = [known EXCEPT ![s] = NoFlow]
    /\ drop' = [drop EXCEPT ![s] = {}]
    /\ flowHeld' = [flowHeld EXCEPT ![s] = NoFlow]
    /\ reviewHeld' = [reviewHeld EXCEPT ![s] = Nothing]

\* Commit these rows and end.
Commit(s, row, jobs, step) ==
    /\ flow' = row
    /\ review' = [r \in Rows |-> IF jobs[r] # NoJob THEN jobs[r] ELSE review[r]]
    /\ Forget(s, step)

\* Where a session that is done goes: a --once process ends.
Rest(s) == IF s \in Cron THEN "off" ELSE "idle"

--------------------------------------------------------------------------------
(* Re-arming *)

\* next_occurrence: the first due instant strictly after now.
Occurrence(plan, t) == CHOOSE i \in plan : i > t /\ \A k \in plan : k > t => i <= k

\* _cancel_pending_reviews selects the queued reviews ...
PickReviews(s) ==
    /\ where[s] = "pick"
    /\ drop' = [drop EXCEPT ![s] = {r \in Rows : Sees(s, r).state = "queued"}]
    /\ MoveTo(s, "rearm")
    /\ UNCHANGED <<clock, reviewRows, job, known, flowHeld, reviewHeld, reviewHistory>>

\* ... these are cancelled, and an enabled workflow gets its next review: its row
\* and a job.  All of it is one flush, which takes the rows' locks.  An edit and
\* a worker's start then commit; a review goes on.
RearmAt(s, due, new, dropped) ==
    LET on == known[s].enabled
        i == IF on THEN due ELSE 0
        row == [SeesFlow(s) EXCEPT !.next = IF i # known[s].next THEN i ELSE @]
        jobs == [r \in Rows |-> IF on /\ r \in new THEN [NoJob EXCEPT !.state = "queued", !.due = i]
                   ELSE IF r \in dropped THEN [Sees(s, r) EXCEPT !.state = "cancelled"]
                   ELSE reviewHeld[s][r]]
    IN
    /\ where[s] = "rearm" /\ (i # known[s].next => FlowFree(s))
    /\ \A r \in dropped : RowFree(s, r)
    /\ on => NewRows # {}
    /\ \/ job[s] = 0 /\ Commit(s, row, jobs, Rest(s))
       \/ /\ job[s] # 0 /\ MoveTo(s, "work")
          /\ flowHeld' = IF i # known[s].next THEN [flowHeld EXCEPT ![s] = row] ELSE flowHeld
          /\ reviewHeld' = [reviewHeld EXCEPT ![s] = jobs]
          /\ drop' = [drop EXCEPT ![s] = {}]
          /\ UNCHANGED <<reviewRows, job, known>>
    /\ UNCHANGED <<clock, reviewHistory>>

Due(s) == Occurrence(known[s].plan, clock)
NextFor(s) == IF known[s].enabled THEN Due(s) ELSE 0

\* Mutants of Rearm: the queued reviews stay; a review is armed only in the place
\* of another.
RearmBeside(s) == RearmAt(s, Due(s), NewRows, {})
RearmInstead(s) == RearmAt(s, Due(s), IF drop[s] = {} THEN {} ELSE NewRows, drop[s])

Rearm(s) == RearmAt(s, Due(s), NewRows, drop[s])

--------------------------------------------------------------------------------
(* Settings *)

\* PATCH /workflows/{id} loads the row ...
LoadSettings(e) ==
    /\ where[e] = "idle" /\ edits < MaxEdits
    /\ edits' = edits + 1
    /\ known' = [known EXCEPT ![e] = flow]
    /\ MoveTo(e, "write")
    /\ UNCHANGED <<clock, reviewRows, job, drop, flowHeld, reviewHeld, reviewed, errors, deaths>>

\* ... and flushes the fields that differ from what it loaded.
WriteSettings(e) ==
    /\ where[e] = "write" /\ FlowFree(e)
    /\ \E on \in BOOLEAN, p \in Plans :
          /\ known' = [known EXCEPT ![e].enabled = on, ![e].plan = p]
          /\ flowHeld' = [flowHeld EXCEPT ![e] =
                [flow EXCEPT !.enabled = IF on # known[e].enabled THEN on ELSE @,
                             !.plan = IF p # known[e].plan THEN p ELSE @]]
    /\ MoveTo(e, "pick")
    /\ UNCHANGED <<clock, reviewRows, job, drop, reviewHeld, reviewHistory>>

--------------------------------------------------------------------------------
(* A worker *)

\* main: bootstrap_schedules looks for an enabled workflow that is not armed for
\* the future.
StartRunner(w) ==
    /\ where[w] = "off"
    /\ \/ /\ flow.enabled /\ flow.next <= clock
          /\ known' = [known EXCEPT ![w] = flow]
          /\ MoveTo(w, "pick")
       \/ /\ ~(flow.enabled /\ flow.next <= clock)
          /\ MoveTo(w, "idle")
          /\ UNCHANGED known
    /\ UNCHANGED <<clock, reviewRows, job, drop, flowHeld, reviewHeld, reviewHistory>>

\* Mutant of Claimable: what is due now is not due yet.
ClaimableLater(w, r) == LET j == Sees(w, r) IN j.state = "queued" /\ ~j.waits /\ j.due < clock

Claimable(w, r) == LET j == Sees(w, r) IN j.state = "queued" /\ ~j.waits /\ j.due <= clock

\* claim_next selects a queued job that is due ...
ClaimReview(w) ==
    /\ where[w] \in {"idle", "drain"}
    /\ \E r \in Rows :
          /\ Claimable(w, r)
          /\ job' = [job EXCEPT ![w] = r]
          /\ reviewHeld' = IF where[w] = "drain" THEN reviewHeld ELSE [reviewHeld EXCEPT ![w] = Nothing]
    /\ MoveTo(w, "claim")
    /\ UNCHANGED <<clock, reviewRows, known, drop, flowHeld, reviewHistory>>

\* ... and marks it running by its id.  handle_review_due takes the workflow its
\* session knows, or loads it; a disabled one is skipped.
BeginReview(w) ==
    LET r == job[w]
        f == SeesFlow(w)
        tries == IF Sees(w, r).tries < ReviewTries THEN Sees(w, r).tries + 1 ELSE ReviewTries
    IN
    /\ where[w] = "claim" /\ RowFree(w, r)
    /\ known' = [known EXCEPT ![w] = IF f.enabled THEN f ELSE NoFlow]
    /\ reviewHeld' = [reviewHeld EXCEPT ![w][r] =
          [Sees(w, r) EXCEPT !.state = IF f.enabled THEN "running" ELSE "succeeded", !.tries = tries]]
    /\ MoveTo(w, IF f.enabled THEN "pick" ELSE "drain")
    /\ UNCHANGED <<clock, reviewRows, job, drop, flowHeld, reviewHistory>>

\* Evidence is collected, the draft built, the user notified: the job succeeds.
CompleteReview(w) ==
    /\ where[w] = "work"
    /\ reviewHeld' = [reviewHeld EXCEPT ![w][job[w]].state = "succeeded"]
    /\ reviewed' = reviewed \cup {reviewHeld[w][job[w]].due}
    /\ known' = [known EXCEPT ![w] = NoFlow]
    /\ MoveTo(w, "drain")
    /\ UNCHANGED <<clock, reviewRows, job, drop, flowHeld, edits, errors, deaths>>

\* An exception after the re-arming: the job backs off or is dead-lettered, and
\* what was flushed stays.
FailReview(w) ==
    LET j == reviewHeld[w][job[w]] IN
    /\ where[w] = "work" /\ errors + deaths < MaxFaults
    /\ errors' = errors + 1
    /\ reviewHeld' = [reviewHeld EXCEPT ![w][job[w]] =
          IF j.tries >= ReviewTries THEN [j EXCEPT !.state = "dead_letter"]
          ELSE [j EXCEPT !.state = "queued", !.waits = TRUE]]
    /\ known' = [known EXCEPT ![w] = NoFlow]
    /\ MoveTo(w, "drain")
    /\ UNCHANGED <<clock, reviewRows, job, drop, flowHeld, reviewed, edits, deaths>>

\* Nothing more is due: the pass commits.  The one pass of a --once process may
\* have found nothing at all.
CommitPass(w) ==
    /\ where[w] = "drain" \/ (w \in Cron /\ where[w] = "idle")
    /\ ~\E r \in Rows : Claimable(w, r)
    /\ Commit(w, SeesFlow(w), reviewHeld[w], Rest(w))
    /\ UNCHANGED <<clock, reviewHistory>>

RetryDue(r) ==
    /\ review[r].waits /\ \A s \in ReviewSessions : reviewHeld[s][r] = NoJob
    /\ review' = [review EXCEPT ![r].waits = FALSE]
    /\ UNCHANGED <<clock, flow, reviewSessions, reviewHistory>>

\* A worker dies; its session is rolled back.
RunnerDies(w) ==
    /\ where[w] # "off" /\ errors + deaths < MaxFaults
    /\ deaths' = deaths + 1
    /\ Forget(w, "off")
    /\ UNCHANGED <<clock, reviewRows, reviewed, edits, errors>>

\* Two sessions wait for each other's rows: PostgreSQL ends one of them.
Awaits(s) ==
    {t \in ReviewSessions \ {s} :
        \/ where[s] = "write" /\ flowHeld[t] # NoFlow
        \/ where[s] = "rearm" /\ flowHeld[t] # NoFlow /\ NextFor(s) # known[s].next
        \/ where[s] = "rearm" /\ \E r \in drop[s] : reviewHeld[t][r] # NoJob
        \/ where[s] = "claim" /\ reviewHeld[t][job[s]] # NoJob}

LoseReviewDeadlock(s) ==
    /\ \E t \in Awaits(s) : s \in Awaits(t) \/ \E u \in Awaits(t) : s \in Awaits(u)
    /\ Forget(s, IF where[s] = "rearm" /\ job[s] = 0 /\ s \in Runners THEN "off" ELSE Rest(s))
    /\ UNCHANGED <<clock, reviewRows, reviewHistory>>

PassTime ==
    /\ clock < Horizon
    /\ clock' = clock + 1
    /\ UNCHANGED <<reviewRows, reviewSessions, reviewHistory>>

--------------------------------------------------------------------------------

ReviewInit ==
    /\ clock = 0
    /\ \E p \in Plans :
          /\ flow = [enabled |-> TRUE, plan |-> p, next |-> Occurrence(p, 0)]
          /\ review = [Nothing EXCEPT ![1] = [NoJob EXCEPT !.state = "queued", !.due = Occurrence(p, 0)]]
    /\ where = [s \in ReviewSessions |-> IF s \in Runners THEN "off" ELSE "idle"]
    /\ job = [s \in ReviewSessions |-> 0]
    /\ known = [s \in ReviewSessions |-> NoFlow]
    /\ drop = [s \in ReviewSessions |-> {}]
    /\ flowHeld = [s \in ReviewSessions |-> NoFlow]
    /\ reviewHeld = [s \in ReviewSessions |-> Nothing]
    /\ reviewed = {} /\ edits = 0 /\ errors = 0 /\ deaths = 0
    /\ overlapped = FALSE /\ contested = FALSE

SettingsStep(e) == WriteSettings(e) \/ PickReviews(e) \/ Rearm(e) \/ LoseReviewDeadlock(e)

RunnerStep(w) ==
    \/ StartRunner(w) \/ PickReviews(w) \/ Rearm(w) \/ ClaimReview(w) \/ BeginReview(w)
    \/ CompleteReview(w) \/ CommitPass(w) \/ LoseReviewDeadlock(w)

ReviewStepTaken ==
    \/ \E e \in Editors : LoadSettings(e) \/ SettingsStep(e)
    \/ \E w \in Runners : RunnerStep(w) \/ FailReview(w) \/ RunnerDies(w)
    \/ \E r \in Rows : RetryDue(r)
    \/ PassTime

ReviewNoted ==
    /\ overlapped' = (overlapped \/ \E s, t \in ReviewSessions : s # t /\ OpenSession(s)' /\ OpenSession(t)')
    /\ contested' = (contested \/ \E s, t \in Editors : s # t /\ OpenSession(s)' /\ OpenSession(t)')

ReviewNext == ReviewStepTaken /\ ReviewNoted

--------------------------------------------------------------------------------
(* Properties *)

Quiet == \A s \in ReviewSessions : ~OpenSession(s)
Armed == {r \in Rows : review[r].state = "queued"}

\* "The chain never breaks": whenever no session is open an enabled workflow has
\* a review armed, whatever failed, died, raced or was edited before; only two
\* settings requests at once may break it.
ChainHolds == Quiet /\ flow.enabled /\ ~contested => Armed # {}

\* "Exactly one review job is armed": none or several only where sessions
\* overlapped or a review failed after it had armed its successor.
OneArmed ==
    Quiet /\ ~overlapped /\ errors = 0 => Cardinality(Armed) = IF flow.enabled THEN 1 ELSE 0

\* The chain moves on: time and again an enabled workflow has a review armed in
\* the future; a worker that runs the due one, or that starts over after dying,
\* sees to it, whatever failed before.
ChainMovesOn ==
    flow.enabled ~> (~flow.enabled \/ contested \/ \E r \in Armed : review[r].due > clock)

\* (violated) "python scripts/standup_worker.py --once  # single pass, for cron":
\* a review that is due is carried out.  Each such process first re-arms what is
\* due, which cancels the very job its pass would have run.
DueReviewsRun ==
    \A i \in Instants :
       (flow.enabled /\ flow.next = i /\ i <= clock) ~> (i \in reviewed)
================================================================================
