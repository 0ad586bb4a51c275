----------------------------- MODULE StandupDelivery -----------------------------
(***************************************************************************)
(* One day's standup draft (standup/service.py): edited and approved in the *)
(* browser, delivered into a Slack thread by the standup worker's passes    *)
(* (scripts/standup_worker.py over jobs/queue.py) or by "send now".         *)
(*                                                                          *)
(* A session (a request, or a whole worker pass) is one READ COMMITTED      *)
(* transaction.  It loads the draft's row once and an UPDATE carries only   *)
(* the columns it changed: what it did not touch may have been changed by   *)
(* others meanwhile.  A flushed row stays locked until the session ends.    *)
(***************************************************************************)
EXTENDS Integers

CONSTANTS Clients,      \* requests that may be open at the same time
          Workers,      \* standup workers
          Texts,        \* what a section may say; "" is the empty section
          Days,         \* standup days the draft may be aimed at
          MaxJobs,      \* bound on approvals: each enqueues a job
          MaxRequests,  \* bound on requests
          MaxAttempts,  \* max_attempts of a delivery job
          Faults        \* what may go wrong, each kind once: "crash" (of a session),
                        \* "outage" (of Slack's history), "timeout" (of a post)

Null == "null"

ASSUME StandupAssumption ==
    /\ "" \in Texts /\ Null \notin Texts /\ Null \notin Days
    /\ Days # {}
    /\ Clients \cap Workers = {}
    /\ Faults \subseteq {"crash", "outage", "timeout"}
    /\ MaxJobs \in Nat \ {0} /\ MaxRequests \in Nat /\ MaxAttempts \in Nat \ {0}

Sessions == Clients \cup Workers
Jobs == 1..MaxJobs

VARIABLES
    draft,      \* the committed row
    job,        \* committed row of each delivery job: state, attempts, due
    at,         \* per session: its next step
    on,         \* per session: the job it claims, runs or cancels
    was,        \* per session: the draft as it loaded it
    now,        \* per request: the draft as it wants it
    held,       \* per session: the draft it has flushed, not committed
    kept,       \* per session: the jobs it has flushed, not committed
    posts,      \* replies in Slack: none, one, or more (2)
    consented,  \* texts some committed approval froze
    asked,      \* how many requests there have been
    raced,      \* two sessions have been open at once
    faults      \* the faults there have been

rows == <<draft, job>>
sessions == <<at, on, was, now, held, kept>>
history == <<posts, consented, asked, faults>>
vars == <<rows, sessions, history, raced>>

Terminal == {"SENT", "SKIPPED", "EXPIRED"}
Status == {"NEEDS_REVIEW", "WAITING_FOR_THREAD", "SENDING", "THREAD_NOT_FOUND",
           "SEND_FAILED"} \cup Terminal
Sections == {"yesterday", "today"}
Text == [Sections -> Texts]
Snapshot == [Sections -> Texts \cup {Null}]
Draft == [status : Status, text : Text, frozen : Snapshot, hash : Snapshot,
          job : Jobs \cup {0}, thread : Days \cup {Null}, target : Days]
JobRow == [state : {"none", "queued", "running", "succeeded", "cancelled", "dead_letter"},
           attempts : Nat, due : BOOLEAN]
Step == {"idle", "write", "approve", "cancel", "skip", "resolve", "post", "sent",
         "drain", "claim", "run", "fail", "complete"}

NoText == [s \in Sections |-> ""]
NoSnapshot == [s \in Sections |-> Null]
NewDraft == [status |-> "NEEDS_REVIEW", text |-> NoText, frozen |-> NoSnapshot,
             hash |-> NoSnapshot, job |-> 0, thread |-> Null, target |-> CHOOSE d \in Days : TRUE]
NewJob == [state |-> "none", attempts |-> 0, due |-> FALSE]
\* A row a session has not flushed.  (kept's attempts are then what it read.)
Clean == [NewDraft EXCEPT !.status = "clean"]
CleanJob == [NewJob EXCEPT !.state = "clean"]

TypeOK ==
    /\ draft \in Draft /\ job \in [Jobs -> JobRow]
    /\ at \in [Sessions -> Step] /\ on \in [Sessions -> Jobs \cup {0}]
    /\ was \in [Sessions -> Draft] /\ now \in [Sessions -> Draft]
    /\ held \in [Sessions -> Draft \cup {Clean}]
    /\ kept \in [Sessions -> [Jobs -> JobRow \cup [state : {"clean"}, attempts : Nat, due : BOOLEAN]]]
    /\ posts \in 0..2
    /\ consented \subseteq Snapshot
    /\ asked \in 0..MaxRequests /\ raced \in BOOLEAN /\ faults \subseteq Faults

Init ==
    /\ draft \in {[NewDraft EXCEPT !.text = text] : text \in Text}
    /\ job = [j \in Jobs |-> NewJob]
    /\ at = [t \in Sessions |-> "idle"] /\ on = [t \in Sessions |-> 0]
    /\ was = [t \in Sessions |-> NewDraft] /\ now = [t \in Sessions |-> NewDraft]
    /\ held = [t \in Sessions |-> Clean]
    /\ kept = [t \in Sessions |-> [j \in Jobs |-> CleanJob]]
    /\ posts = 0 /\ consented = {}
    /\ asked = 0 /\ raced = FALSE /\ faults = {}

--------------------------------------------------------------------------------
(* Sessions *)

Holds(t) == held[t] # Clean
Keeps(t, j) == kept[t][j].state # "clean"
Free(t) == \A u \in Sessions \ {t} : ~Holds(u)
JobFree(t, j) == \A u \in Sessions \ {t} : ~Keeps(u, j)

\* The draft and a job as session t sees them: its own writes, or the committed.
Base(t) == IF Holds(t) THEN held[t] ELSE draft
Seen(t, j) == IF Keeps(t, j) THEN kept[t][j] ELSE job[j]

\* A column after the UPDATE of a session that loaded old and wants new.
Column(new, old, row) == IF new # old THEN new ELSE row
Columns(new, old, row) == [s \in Sections |-> Column(new[s], old[s], row[s])]

\* An UPDATE carries only what changed; each section is a column of its own.
Update(row, old, new) ==
    [status |-> Column(new.status, old.status, row.status),
     text   |-> Columns(new.text, old.text, row.text),
     frozen |-> Columns(new.frozen, old.frozen, row.frozen),
     hash   |-> Column(new.hash, old.hash, row.hash),
     job    |-> Column(new.job, old.job, row.job),
     thread |-> Column(new.thread, old.thread, row.thread),
     target |-> Column(new.target, old.target, row.target)]

\* A fault of this kind happens.
Suffer(kind) == kind \in Faults \ faults /\ faults' = faults \cup {kind}

Goto(t, step) == at' = [at EXCEPT ![t] = step]

\* The session ends, leaving these rows behind.
End(t, row, jobs) ==
    /\ draft' = row /\ job' = jobs
    /\ Goto(t, "idle")
    /\ on' = [on EXCEPT ![t] = 0]
    /\ was' = [was EXCEPT ![t] = NewDraft]
    /\ now' = [now EXCEPT ![t] = NewDraft]
    /\ held' = [held EXCEPT ![t] = Clean]
    /\ kept' = [kept EXCEPT ![t] = [j \in Jobs |-> CleanJob]]

Rollback(t) == End(t, draft, job)

--------------------------------------------------------------------------------
(* Requests: a load, then one UPDATE and the commit *)

Load(c, step, row) ==
    /\ at[c] = "idle"
    /\ asked < MaxRequests /\ asked' = asked + 1
    /\ Goto(c, step)
    /\ was' = [was EXCEPT ![c] = draft]
    /\ now' = [now EXCEPT ![c] = row]
    /\ UNCHANGED <<rows, held, kept, posts, consented, faults>>

\* _clear_approval, and back to review.
Reopened(row) ==
    [row EXCEPT !.status = "NEEDS_REVIEW", !.frozen = NoSnapshot, !.hash = NoSnapshot]

\* Mutant of EditDraft: history may be edited.
EditDraftAny(c) ==
    /\ \E text \in Text \ {draft.text} : Load(c, "write", Reopened([draft EXCEPT !.text = text]))
    /\ UNCHANGED on

\* PATCH /drafts/{id}: a text that differs revokes the approval.
EditDraft(c) ==
    /\ draft.status \notin Terminal
    /\ \E text \in Text \ {draft.text} : Load(c, "write", Reopened([draft EXCEPT !.text = text]))
    /\ UNCHANGED on

\* POST /workflows/{id}/generate, and the review job: the text compiled anew,
\* the day aimed at as the workflow's delivery mode now says.
GenerateDraft(c) ==
    /\ draft.status \notin Terminal
    /\ \E text \in Text, day \in Days :
          Load(c, "write", Reopened([draft EXCEPT !.text = text, !.target = day]))
    /\ UNCHANGED on

WriteDraft(c) ==
    /\ at[c] = "write" /\ Free(c)
    /\ End(c, Update(draft, was[c], now[c]), job)
    /\ UNCHANGED history

\* POST /drafts/{id}/approve freezes the text the session loaded ...
Approve(c) ==
    /\ draft.status \notin Terminal
    /\ \E j \in Jobs : job[j].state = "none"
    /\ Load(c, "approve", [draft EXCEPT !.status = "WAITING_FOR_THREAD",
                                        !.frozen = draft.text, !.hash = draft.text])
    /\ UNCHANGED on

\* ... and enqueues its delivery, due at once or when the thread's window opens.
ApproveCommit(c) ==
    /\ at[c] = "approve" /\ Free(c)
    /\ \E j \in Jobs, due \in BOOLEAN :
          /\ job[j].state = "none" /\ \A i \in 1..(j - 1) : job[i].state # "none"
          /\ End(c, [Update(draft, was[c], now[c]) EXCEPT !.job = j],
                    [job EXCEPT ![j] = [state |-> "queued", attempts |-> 0, due |-> due]])
    /\ consented' = consented \cup {now[c].hash}
    /\ UNCHANGED <<posts, asked, faults>>

\* POST /drafts/{id}/skip: the job the session knows of is cancelled if it waits ...
Skip(c) ==
    LET waits == draft.job # 0 /\ job[draft.job].state \in {"queued", "running"} IN
    /\ draft.status \notin Terminal
    /\ Load(c, IF waits THEN "cancel" ELSE "skip", [draft EXCEPT !.status = "SKIPPED"])
    /\ on' = [on EXCEPT ![c] = IF waits THEN draft.job ELSE 0]

CancelJob(c) ==
    /\ at[c] = "cancel" /\ JobFree(c, on[c])
    /\ kept' = [kept EXCEPT ![c][on[c]] = [job[on[c]] EXCEPT !.state = "cancelled"]]
    /\ Goto(c, "skip")
    /\ UNCHANGED <<rows, on, was, now, held, history>>

\* ... then the draft is written off.
SkipCommit(c) ==
    /\ at[c] = "skip" /\ Free(c)
    /\ End(c, Update(draft, was[c], now[c]), [j \in Jobs |-> Seen(c, j)])
    /\ UNCHANGED history

--------------------------------------------------------------------------------
(* deliver: in a request (send now) or in a worker's pass *)

\* content_hash tells any two texts apart; a missing section hashes as "".
Filled(frozen) == [s \in Sections |-> IF frozen[s] = Null THEN "" ELSE frozen[s]]
Approved(row) == row.hash # NoSnapshot /\ row.frozen["yesterday"] # Null
Intact(row) == Filled(row.frozen) = row.hash
\* Mutants of Deliverable: no integrity check; a skipped draft may go out.
DeliverableUnchecked(row) == row.status \notin Terminal /\ Approved(row)
DeliverableSkipped(row) == row.status # "SENT" /\ Approved(row) /\ Intact(row)

Deliverable(row) == row.status \notin Terminal /\ Approved(row) /\ Intact(row)

\* An exception: in a pass it fails the job, in a request it undoes everything.
Raise(t, row) ==
    IF t \in Workers
    THEN /\ Goto(t, "fail")
         /\ held' = [held EXCEPT ![t] = row]
         /\ UNCHANGED <<rows, on, was, now, kept>>
    ELSE Rollback(t)

\* POST /drafts/{id}/send-now; what cannot be delivered is refused at once.
SendNow(c) ==
    /\ Deliverable(draft)
    /\ Load(c, "resolve", draft)
    /\ UNCHANGED on

\* The known thread, or the target day's reminder found in the history.
ResolveThread(t) ==
    LET thread == IF was[t].thread # Null THEN was[t].thread ELSE was[t].target IN
    /\ at[t] = "resolve" /\ Free(t)
    /\ held' = [held EXCEPT ![t] = Update(Base(t), was[t],
                  [was[t] EXCEPT !.thread = thread, !.status = "SENDING"])]
    /\ Goto(t, "post")
    /\ UNCHANGED <<rows, on, was, now, kept, history>>

\* Mutant of MissThread: the draft's state is forgotten.
MissThreadSilently(t) ==
    /\ at[t] = "resolve" /\ Free(t) /\ was[t].thread = Null
    /\ Raise(t, held[t])
    /\ UNCHANGED history

\* No reminder matches: nothing is posted, and the draft says so.
MissThread(t) ==
    /\ at[t] = "resolve" /\ Free(t) /\ was[t].thread = Null
    /\ Raise(t, Update(Base(t), was[t], [was[t] EXCEPT !.status = "THREAD_NOT_FOUND"]))
    /\ UNCHANGED history

\* Slack's history cannot be read (or the workflow has no connection).  The pass
\* goes on to flush the draft's attempts with the job's, and so holds its row.
LoseHistory(t) ==
    /\ at[t] = "resolve" /\ was[t].thread = Null
    /\ t \in Workers => Free(t)
    /\ Suffer("outage")
    /\ Raise(t, Base(t))
    /\ UNCHANGED <<posts, consented, asked>>

Reply == posts' = IF posts = 0 THEN 1 ELSE 2

\* chat.postMessage succeeds ...
Post(t) ==
    /\ at[t] = "post"
    /\ Reply
    /\ held' = [held EXCEPT ![t].status = "SENT"]
    /\ Goto(t, IF t \in Workers THEN "complete" ELSE "sent")
    /\ UNCHANGED <<rows, on, was, now, kept, consented, asked, faults>>

\* ... or is refused, or posts the reply and its answer is lost.
RefusePost(t) ==
    /\ at[t] = "post"
    /\ Raise(t, [held[t] EXCEPT !.status = "SEND_FAILED"])
    /\ \/ UNCHANGED <<posts, faults>>
       \/ Suffer("timeout") /\ Reply
    /\ UNCHANGED <<consented, asked>>

SendNowCommit(c) ==
    /\ at[c] = "sent"
    /\ End(c, Base(c), job)
    /\ UNCHANGED history

--------------------------------------------------------------------------------
(* A worker's pass: one session, every job that is due *)

Runnable(w, j) == Seen(w, j).state = "queued" /\ Seen(w, j).due

\* claim_next selects the oldest job that is queued and due ...
ClaimRead(w) ==
    /\ at[w] \in {"idle", "drain"}
    /\ \E j \in Jobs :
          /\ Runnable(w, j) /\ \A i \in 1..(j - 1) : ~Runnable(w, i)
          /\ on' = [on EXCEPT ![w] = j]
          /\ kept' = [kept EXCEPT ![w][j].attempts = Seen(w, j).attempts]
    /\ Goto(w, "claim")
    /\ UNCHANGED <<rows, was, now, held, history>>

\* ... and marks it running by its id, once it gets the row.
ClaimWrite(w) ==
    /\ at[w] = "claim" /\ JobFree(w, on[w])
    /\ kept' = [kept EXCEPT ![w][on[w]] =
                  [Seen(w, on[w]) EXCEPT !.state = "running", !.attempts = kept[w][on[w]].attempts + 1]]
    /\ Goto(w, "run")
    /\ UNCHANGED <<rows, on, was, now, held, history>>

\* Mutant of RunJob: a draft already sent is not recognised.
RunJobAgain(w) ==
    LET row == Base(w) IN
    /\ at[w] = "run"
    /\ was' = [was EXCEPT ![w] = row]
    /\ Goto(w, IF Approved(row) /\ Intact(row) /\ row.status # "SKIPPED" THEN "resolve" ELSE "fail")
    /\ UNCHANGED <<rows, on, now, held, kept, history>>

\* handle_deliver loads the draft; deliver's checks.
RunJob(w) ==
    LET row == Base(w) IN
    /\ at[w] = "run"
    /\ was' = [was EXCEPT ![w] = row]
    /\ \/ row.status = "SENT" /\ Goto(w, "complete") /\ UNCHANGED held
       \/ Deliverable(row) /\ Goto(w, "resolve") /\ UNCHANGED held
       \/ row.status \in {"SKIPPED", "EXPIRED"} /\ Goto(w, "fail") /\ UNCHANGED held
       \/ /\ row.status \notin Terminal
          /\ ~Approved(row) /\ Goto(w, "fail") /\ UNCHANGED held
       \/ /\ row.status \notin Terminal
          /\ Approved(row) /\ ~Intact(row) /\ Free(w)
          /\ held' = [held EXCEPT ![w] = Reopened(row)]
          /\ Goto(w, "fail")
    /\ UNCHANGED <<rows, on, now, kept, history>>

CompleteJob(w) ==
    /\ at[w] = "complete"
    /\ kept' = [kept EXCEPT ![w][on[w]].state = "succeeded"]
    /\ Goto(w, "drain")
    /\ UNCHANGED <<rows, on, was, now, held, history>>

\* Mutant of FailJob: a state the queue does not know.
FailJobUnknown(w) ==
    /\ at[w] = "fail"
    /\ kept' = [kept EXCEPT ![w][on[w]].state = "failed"]
    /\ Goto(w, "drain")
    /\ UNCHANGED <<rows, on, was, now, held, history>>

\* queue.fail: back off, or give the job up.
FailJob(w) ==
    LET row == kept[w][on[w]] IN
    /\ at[w] = "fail"
    /\ kept' = [kept EXCEPT ![w][on[w]] =
                  IF row.attempts >= MaxAttempts THEN [row EXCEPT !.state = "dead_letter"]
                  ELSE [row EXCEPT !.state = "queued", !.due = FALSE]]
    /\ Goto(w, "drain")
    /\ UNCHANGED <<rows, on, was, now, held, history>>

CommitPass(w) ==
    /\ at[w] = "drain" /\ \A j \in Jobs : ~Runnable(w, j)
    /\ End(w, Base(w), [j \in Jobs |-> Seen(w, j)])
    /\ UNCHANGED history

--------------------------------------------------------------------------------
(* Time, and what dies *)

\* run_after passes.
BackoffEnds(j) ==
    /\ job[j].state = "queued" /\ ~job[j].due
    /\ \A t \in Sessions : ~Keeps(t, j)
    /\ job' = [job EXCEPT ![j].due = TRUE]
    /\ UNCHANGED <<draft, sessions, history>>

WaitsFor(t, u) ==
    \/ at[t] \in {"write", "approve", "skip", "resolve"} /\ Holds(u)
    \/ at[t] \in {"cancel", "claim"} /\ Keeps(u, on[t])

\* PostgreSQL ends one of two sessions that wait for each other's rows.
LoseDeadlock(t) ==
    /\ \E u \in Sessions \ {t} : WaitsFor(t, u) /\ WaitsFor(u, t)
    /\ Rollback(t)
    /\ UNCHANGED history

\* A session dies: its rows go back, what it posted stays.
Vanish(t) ==
    /\ at[t] # "idle"
    /\ Suffer("crash")
    /\ Rollback(t)
    /\ UNCHANGED <<posts, consented, asked>>

--------------------------------------------------------------------------------

Request(c) ==
    EditDraft(c) \/ GenerateDraft(c) \/ Approve(c) \/ Skip(c) \/ SendNow(c)

Answer(c) ==
    WriteDraft(c) \/ ApproveCommit(c) \/ CancelJob(c) \/ SkipCommit(c) \/ SendNowCommit(c)

Delivery(t) == ResolveThread(t) \/ MissThread(t) \/ Post(t) \/ RefusePost(t)

Pass(w) ==
    ClaimRead(w) \/ ClaimWrite(w) \/ RunJob(w) \/ CompleteJob(w) \/ FailJob(w) \/ CommitPass(w)

TakesDraft(t) ==
    \/ t \in Clients /\ (WriteDraft(t) \/ ApproveCommit(t) \/ SkipCommit(t))
    \/ ResolveThread(t) \/ MissThread(t)

SessionStep(t) ==
    \/ t \in Clients /\ Answer(t)
    \/ t \in Workers /\ Pass(t)
    \/ Delivery(t) \/ LoseDeadlock(t)

Races == \E t, u \in Sessions : t # u /\ at[t] # "idle" /\ at[u] # "idle"

Next ==
    /\ \/ \E c \in Clients : Request(c)
       \/ \E t \in Sessions : SessionStep(t) \/ LoseHistory(t) \/ Vanish(t)
       \/ \E j \in Jobs : BackoffEnds(j)
    /\ raced' = (raced \/ Races')

Spec == Init /\ [][Next]_vars

\* Requests are answered, back-offs end, the worker's loop outlives any failure,
\* and PostgreSQL hands a row to the sessions that wait for it in turn.
Fairness ==
    /\ \A t \in Sessions :
          /\ WF_vars(SessionStep(t) /\ raced' = (raced \/ Races'))
          /\ SF_vars(TakesDraft(t) /\ raced' = (raced \/ Races'))
    /\ \A j \in Jobs : WF_vars(BackoffEnds(j) /\ raced' = (raced \/ Races'))

FairSpec == Spec /\ Fairness

--------------------------------------------------------------------------------
(* Properties *)

\* "Delivery may only send the frozen copy": however edits, approvals and
\* deliveries interleave, what is about to be posted is what one approval froze, never a mixture.
OnlyConsentedText ==
    \A t \in Sessions : at[t] = "post" => Filled(was[t].frozen) \in consented

\* "Exactly once": jobs of earlier approvals, retries and send-now add no second
\* reply, unless something died or two sessions worked on the draft at once.
OneReply == ~raced /\ faults = {} => posts <= 1

\* A skipped draft is never posted, whichever of its jobs are still queued.
SkippedStaysSilent == [][draft.status = "SKIPPED" /\ ~raced => UNCHANGED posts]_vars

\* "That day is history": a sent draft stays sent, unless sessions overlapped.
SentIsFinal == [][draft.status = "SENT" /\ ~raced => draft'.status = "SENT"]_vars

\* A failed delivery is visible: an approved draft does not go on waiting for a
\* thread after its jobs are spent, unless Slack's history could not be read.
DeliveryEnds == (draft.status = "WAITING_FOR_THREAD") ~> (draft.status # "WAITING_FOR_THREAD" \/ "outage" \in faults)

\* (violated) "bounded by max_attempts, after which the draft is left in a visible
\* failure state" (handlers.py): with Slack's history unreadable it is not.
FailureShows == (draft.status = "WAITING_FOR_THREAD") ~> (draft.status # "WAITING_FOR_THREAD")

\* (violated) "a retry after a timeout cannot produce a second reply in the
\* thread" (db/models.py): the delivery key never reaches Slack.
NoSecondReply == posts <= 1
================================================================================
