--------------------------- MODULE IntegrationGateway ---------------------------
(***************************************************************************)
(* The integration gateway (integrations/service.py): a write to an external *)
(* provider opens a durable job and an approval, and runs only once the     *)
(* approval is granted, either in a worker's pass (integrations/worker.py   *)
(* over jobs/queue.py) or in a client's .../perform request.                *)
(*                                                                          *)
(* Every request and every worker pass is one database transaction of       *)
(* PostgreSQL's READ COMMITTED: its reads see what others have committed,   *)
(* its flushed rows are locked until it ends, and what it read may be stale *)
(* when it writes.  The provider is called in the middle of it, and a       *)
(* transaction that dies takes back its rows but not the call.              *)
(***************************************************************************)
EXTENDS Naturals

CONSTANTS Actions,      \* write actions; each names its job and its approval
          Clients,      \* requests that may be open at the same time
          Workers,      \* processes that loop run_pending
          MaxAttempts,  \* max_attempts of a job
          MaxFaults     \* bound on dead transactions and lost answers

ASSUME GatewayAssumption ==
    /\ Actions # {}
    /\ MaxAttempts \in Nat \ {0}
    /\ MaxFaults \in Nat

VARIABLES
    job,        \* committed row of each job: state, attempts, due
    approval,   \* committed status of each approval
    connected,  \* the connection's row exists
    secrets,    \* its credentials are in the credential store
    req,        \* per client: the open request, what it is about, where it is
    pc,         \* per worker: where it is in its pass
    current,    \* per worker: the job it works on
    plan,       \* per worker: what promote_approved_actions read
    copy,       \* per worker: the rows it has flushed, not yet committed
    carried,    \* how many times the provider carried each action out
    granted,    \* actions some committed decision approved
    raced,      \* actions two open transactions have worked on at once, or a
                \* pass that waited for a pass that waited for it
    faults

rows == <<job, approval, connected, secrets>>
passes == <<pc, current, plan, copy>>
history == <<carried, granted, faults>>
vars == <<rows, req, passes, history, raced>>

JobState == {"none", "blocked_on_approval", "queued", "running", "succeeded", "cancelled", "dead_letter"}
Settled == {"succeeded", "cancelled", "dead_letter"}
JobRow == [state : JobState, attempts : Nat, due : BOOLEAN]
ApprovalStatus == {"none", "pending", "approved", "rejected"}
Request == [kind : {"none", "perform", "approve", "reject", "cancel", "disconnect"},
            on : Actions, step : {"read", "called"}]
WorkerStep == {"idle", "promote", "drain", "claim", "run", "complete", "fail"}
\* A row the pass has flushed, or, where it has not, Clean (with the attempts
\* claim_next read).
Copy == [state : JobState \cup {"clean"}, attempts : Nat, due : BOOLEAN]
Clean == [state |-> "clean", attempts |-> 0, due |-> FALSE]

TypeOK ==
    /\ job \in [Actions -> JobRow]
    /\ approval \in [Actions -> ApprovalStatus]
    /\ connected \in BOOLEAN /\ secrets \in BOOLEAN
    /\ req \in [Clients -> Request]
    /\ pc \in [Workers -> WorkerStep]
    /\ current \in [Workers -> Actions]
    /\ plan \in [Workers -> [Actions -> {"keep", "queued", "cancelled"}]]
    /\ copy \in [Workers -> [Actions -> Copy]]
    /\ carried \in [Actions -> Nat]
    /\ granted \subseteq Actions /\ raced \subseteq Actions
    /\ faults \in 0..MaxFaults

NoRequest == [kind |-> "none", on |-> CHOOSE a \in Actions : TRUE, step |-> "read"]

Init ==
    /\ job = [a \in Actions |-> [state |-> "none", attempts |-> 0, due |-> TRUE]]
    /\ approval = [a \in Actions |-> "none"]
    /\ connected = TRUE /\ secrets = TRUE
    /\ req = [c \in Clients |-> NoRequest]
    /\ pc = [w \in Workers |-> "idle"]
    /\ current = [w \in Workers |-> NoRequest.on]
    /\ plan = [w \in Workers |-> [a \in Actions |-> "keep"]]
    /\ copy = [w \in Workers |-> [a \in Actions |-> Clean]]
    /\ carried = [a \in Actions |-> 0]
    /\ granted = {} /\ raced = {}
    /\ faults = 0

--------------------------------------------------------------------------------
(* Transactions *)

Dirty(w) == {a \in Actions : copy[w][a].state # "clean"}

\* No other pass holds the row's lock.
Free(a, w) == \A v \in Workers \ {w} : a \notin Dirty(v)
Unlocked(a) == \A w \in Workers : a \notin Dirty(w)

\* What a pass sees of a job: its own write, or else what is committed.
Seen(w, a) == IF a \in Dirty(w) THEN copy[w][a] ELSE job[a]

\* The actions a pass has read for writing, or written.
WorksOn(w) ==
    Dirty(w)
      \cup {a \in Actions : plan[w][a] # "keep"}
      \cup (IF pc[w] = "claim" THEN {current[w]} ELSE {})

\* Two passes that wait for each other's rows.
Stuck(w) ==
    \E v \in Workers \ {w} :
        WorksOn(w) \cap Dirty(v) # {} /\ WorksOn(v) \cap Dirty(w) # {}

Busy(c, a) == req[c].kind \notin {"none", "disconnect"} /\ req[c].on = a

\* Two transactions work on the action at once, or a pass that does is stuck.
Raced ==
    {a \in Actions :
       \/ \E c, d \in Clients : c # d /\ Busy(c, a) /\ Busy(d, a)
       \/ \E w \in Workers :
            /\ a \in WorksOn(w)
            /\ \/ Stuck(w)
               \/ \E c \in Clients : Busy(c, a)
               \/ \E v \in Workers \ {w} : a \in WorksOn(v)}

Close(c) == req' = [req EXCEPT ![c] = NoRequest]

--------------------------------------------------------------------------------
(* The requests *)

\* POST /integrations/{id}/execute of a write: the job and its approval appear.
ExecuteAction(a) ==
    /\ connected /\ job[a].state = "none"
    /\ job' = [job EXCEPT ![a].state = "blocked_on_approval"]
    /\ approval' = [approval EXCEPT ![a] = "pending"]
    /\ UNCHANGED <<connected, secrets, req, passes, history>>

Open(c, kind, a) ==
    /\ req[c].kind = "none"
    /\ req' = [req EXCEPT ![c] = [kind |-> kind, on |-> a, step |-> "read"]]
    /\ UNCHANGED <<rows, passes, history>>

\* Mutants of PerformRead: a finished job is performed again; any decision will do.
PerformReadAgain(c, a) ==
    /\ approval[a] = "approved" /\ connected /\ secrets
    /\ Open(c, "perform", a)

PerformReadDecided(c, a) ==
    /\ approval[a] \in {"approved", "rejected"} /\ job[a].state # "succeeded"
    /\ connected /\ secrets
    /\ Open(c, "perform", a)

\* perform_pending_action reads the approval, the job and the connection; with
\* the job done it answers at once.
PerformRead(c, a) ==
    /\ approval[a] = "approved"
    /\ job[a].state # "succeeded"
    /\ connected /\ secrets
    /\ Open(c, "perform", a)

\* The provider carries the action out, or raises (and the request rolls back).
PerformCall(c) ==
    /\ req[c].kind = "perform" /\ req[c].step = "read"
    /\ \/ /\ req' = [req EXCEPT ![c].step = "called"]
          /\ carried' = [carried EXCEPT ![req[c].on] = @ + 1]
       \/ Close(c) /\ UNCHANGED carried
    /\ UNCHANGED <<rows, passes, granted, faults>>

\* The job's state and the connection's last activity are written.  With the
\* connection's row gone the second UPDATE matches nothing and all is undone.
PerformCommit(c) ==
    /\ req[c].kind = "perform" /\ req[c].step = "called"
    /\ Unlocked(req[c].on)
    /\ job' = IF connected THEN [job EXCEPT ![req[c].on].state = "succeeded"] ELSE job
    /\ Close(c)
    /\ UNCHANGED <<approval, connected, secrets, passes, history>>

\* POST /approvals/{id}/decide finds the approval pending ...
DecideRead(c, a) ==
    /\ approval[a] = "pending"
    /\ \E kind \in {"approve", "reject"} : Open(c, kind, a)

\* ... and writes the decision by the approval's id.
DecideCommit(c) ==
    /\ req[c].kind \in {"approve", "reject"}
    /\ approval' = [approval EXCEPT ![req[c].on] =
                      IF req[c].kind = "approve" THEN "approved" ELSE "rejected"]
    /\ granted' = IF req[c].kind = "approve" THEN granted \cup {req[c].on} ELSE granted
    /\ Close(c)
    /\ UNCHANGED <<job, connected, secrets, passes, carried, faults>>

\* Mutant of CancelRead: settled jobs are cancelled as well.
CancelReadAny(c, a) ==
    /\ job[a].state # "none"
    /\ Open(c, "cancel", a)

\* POST /jobs/{id}/cancel finds the job queued (running is never committed) ...
CancelRead(c, a) ==
    /\ job[a].state \in {"queued", "running"}
    /\ Open(c, "cancel", a)

\* ... and writes the state once it gets the row.
CancelCommit(c) ==
    /\ req[c].kind = "cancel"
    /\ Unlocked(req[c].on)
    /\ job' = [job EXCEPT ![req[c].on].state = "cancelled"]
    /\ Close(c)
    /\ UNCHANGED <<approval, connected, secrets, passes, history>>

\* POST /integrations/{id}/disconnect: the credentials go at once, the row when
\* the request commits.
DisconnectRead(c) ==
    /\ connected /\ req[c].kind = "none"
    /\ req' = [req EXCEPT ![c] = [NoRequest EXCEPT !.kind = "disconnect"]]
    /\ secrets' = FALSE
    /\ UNCHANGED <<job, approval, connected, passes, history>>

DisconnectCommit(c) ==
    /\ req[c].kind = "disconnect"
    /\ connected' = FALSE
    /\ Close(c)
    /\ UNCHANGED <<job, approval, secrets, passes, history>>

--------------------------------------------------------------------------------
(* A worker's pass *)

\* Mutants of PromoteRead: what is not rejected is queued; rejections are ignored.
PromoteReadUndecided(w) ==
    /\ pc[w] = "idle"
    /\ plan' = [plan EXCEPT ![w] = [a \in Actions |->
                  IF job[a].state = "blocked_on_approval" /\ approval[a] # "rejected"
                  THEN "queued" ELSE "keep"]]
    /\ pc' = [pc EXCEPT ![w] = "promote"]
    /\ UNCHANGED <<rows, req, current, copy, history>>

PromoteReadApproved(w) ==
    /\ pc[w] = "idle"
    /\ plan' = [plan EXCEPT ![w] = [a \in Actions |->
                  IF job[a].state = "blocked_on_approval" /\ approval[a] = "approved"
                  THEN "queued" ELSE "keep"]]
    /\ pc' = [pc EXCEPT ![w] = "promote"]
    /\ UNCHANGED <<rows, req, current, copy, history>>

\* promote_approved_actions reads the gated jobs and their approvals ...
PromoteRead(w) ==
    /\ pc[w] = "idle"
    /\ plan' = [plan EXCEPT ![w] = [a \in Actions |->
                  CASE job[a].state = "blocked_on_approval" /\ approval[a] = "approved" -> "queued"
                    [] job[a].state = "blocked_on_approval" /\ approval[a] = "rejected" -> "cancelled"
                    [] OTHER -> "keep"]]
    /\ pc' = [pc EXCEPT ![w] = "promote"]
    /\ UNCHANGED <<rows, req, current, copy, history>>

\* ... and flushes the states it chose, due at once.
PromoteWrite(w) ==
    /\ pc[w] = "promote"
    /\ \A a \in Actions : plan[w][a] # "keep" => Free(a, w)
    /\ copy' = [copy EXCEPT ![w] = [a \in Actions |->
                  CASE plan[w][a] = "queued" -> [job[a] EXCEPT !.state = "queued", !.due = TRUE]
                    [] plan[w][a] = "cancelled" -> [job[a] EXCEPT !.state = "cancelled"]
                    [] OTHER -> Clean]]
    /\ plan' = [plan EXCEPT ![w] = [a \in Actions |-> "keep"]]
    /\ pc' = [pc EXCEPT ![w] = "drain"]
    /\ UNCHANGED <<rows, req, current, history>>

Runnable(w, a) == Seen(w, a).state = "queued" /\ Seen(w, a).due

\* claim_next selects a job that is queued and due ...
ClaimRead(w, a) ==
    /\ pc[w] = "drain" /\ Runnable(w, a)
    /\ current' = [current EXCEPT ![w] = a]
    /\ copy' = [copy EXCEPT ![w][a].attempts = Seen(w, a).attempts]
    /\ pc' = [pc EXCEPT ![w] = "claim"]
    /\ UNCHANGED <<rows, req, plan, history>>

\* ... and marks it running by its id, once it gets the row.
ClaimWrite(w) ==
    LET a == current[w] IN
    /\ pc[w] = "claim" /\ Free(a, w)
    /\ copy' = [copy EXCEPT ![w][a] = [Seen(w, a) EXCEPT !.state = "running",
                                               !.attempts = copy[w][a].attempts + 1]]
    /\ pc' = [pc EXCEPT ![w] = "run"]
    /\ UNCHANGED <<rows, req, current, plan, history>>

\* execute_job_payload: the connection and its credentials, then the provider.
RunJob(w) ==
    /\ pc[w] = "run"
    /\ \/ /\ connected /\ secrets
          /\ carried' = [carried EXCEPT ![current[w]] = @ + 1]
          /\ pc' = [pc EXCEPT ![w] = "complete"]
       \/ /\ pc' = [pc EXCEPT ![w] = "fail"]
          /\ UNCHANGED carried
    /\ UNCHANGED <<rows, req, current, plan, copy, granted, faults>>

\* The pass ends; its rows are committed or rolled back.
EndPass(w, committed) ==
    /\ job' = [a \in Actions |-> IF committed /\ a \in Dirty(w) THEN copy[w][a] ELSE job[a]]
    /\ copy' = [copy EXCEPT ![w] = [a \in Actions |-> Clean]]
    /\ plan' = [plan EXCEPT ![w] = [a \in Actions |-> "keep"]]
    /\ pc' = [pc EXCEPT ![w] = "idle"]
    /\ UNCHANGED <<approval, connected, secrets, req, current>>

\* queue.complete.  Its flush also carries the connection's last activity: with
\* that row gone it fails, and so does the attempt to record the failure.
CompleteJob(w) ==
    /\ pc[w] = "complete"
    /\ \/ /\ connected
          /\ copy' = [copy EXCEPT ![w][current[w]].state = "succeeded"]
          /\ pc' = [pc EXCEPT ![w] = "drain"]
          /\ UNCHANGED <<rows, req, current, plan>>
       \/ ~connected /\ EndPass(w, FALSE)
    /\ UNCHANGED history

\* Mutants of FailJob: one attempt too many; a state the queue does not know.
FailJobLate(w) ==
    LET row == copy[w][current[w]] IN
    /\ pc[w] = "fail"
    /\ copy' = [copy EXCEPT ![w][current[w]] =
                  IF row.attempts > MaxAttempts THEN [row EXCEPT !.state = "dead_letter"]
                  ELSE [row EXCEPT !.state = "queued", !.due = FALSE]]
    /\ pc' = [pc EXCEPT ![w] = "drain"]
    /\ UNCHANGED <<rows, req, current, plan, history>>

FailJobUnknown(w) ==
    /\ pc[w] = "fail"
    /\ copy' = [copy EXCEPT ![w][current[w]].state = "failed"]
    /\ pc' = [pc EXCEPT ![w] = "drain"]
    /\ UNCHANGED <<rows, req, current, plan, history>>

\* queue.fail: back off, or give the job up.
FailJob(w) ==
    LET row == copy[w][current[w]] IN
    /\ pc[w] = "fail"
    /\ copy' = [copy EXCEPT ![w][current[w]] =
                  IF row.attempts >= MaxAttempts THEN [row EXCEPT !.state = "dead_letter"]
                  ELSE [row EXCEPT !.state = "queued", !.due = FALSE]]
    /\ pc' = [pc EXCEPT ![w] = "drain"]
    /\ UNCHANGED <<rows, req, current, plan, history>>

\* drain finds nothing more to run.
CommitPass(w) ==
    /\ pc[w] = "drain" /\ \A a \in Actions : ~Runnable(w, a)
    /\ EndPass(w, TRUE)
    /\ UNCHANGED history

\* run_after passes.
BackoffEnds(a) ==
    /\ job[a].state = "queued" /\ ~job[a].due
    /\ Unlocked(a)
    /\ job' = [job EXCEPT ![a].due = TRUE]
    /\ UNCHANGED <<approval, connected, secrets, req, passes, history>>

\* PostgreSQL ends one of two passes that wait for each other's rows.
LoseDeadlock(w) ==
    /\ Stuck(w) /\ EndPass(w, FALSE)
    /\ UNCHANGED history

\* A transaction dies: its rows go back, what the provider did stays done.
Vanish ==
    /\ faults < MaxFaults
    /\ faults' = faults + 1
    /\ \/ \E c \in Clients : /\ req[c].kind # "none" /\ Close(c)
                             /\ UNCHANGED <<rows, passes>>
       \/ \E w \in Workers : pc[w] # "idle" /\ EndPass(w, FALSE)
    /\ UNCHANGED <<carried, granted>>

\* The provider carries the action out and its answer is lost.
LoseAnswer ==
    /\ faults < MaxFaults
    /\ faults' = faults + 1
    /\ \/ \E c \in Clients :
            /\ req[c].kind = "perform" /\ req[c].step = "read"
            /\ carried' = [carried EXCEPT ![req[c].on] = @ + 1]
            /\ Close(c)
            /\ UNCHANGED pc
       \/ \E w \in Workers :
            /\ pc[w] = "run" /\ connected /\ secrets
            /\ carried' = [carried EXCEPT ![current[w]] = @ + 1]
            /\ pc' = [pc EXCEPT ![w] = "fail"]
            /\ UNCHANGED req
    /\ UNCHANGED <<rows, current, plan, copy, granted>>

--------------------------------------------------------------------------------

Handle(c) ==
    \/ PerformCall(c) \/ PerformCommit(c) \/ DecideCommit(c) \/ CancelCommit(c)
    \/ DisconnectCommit(c)

Pass(w) ==
    \/ PromoteRead(w) \/ PromoteWrite(w)
    \/ (\E a \in Actions : ClaimRead(w, a)) \/ ClaimWrite(w)
    \/ RunJob(w) \/ CompleteJob(w) \/ FailJob(w) \/ CommitPass(w) \/ LoseDeadlock(w)

Step ==
    \/ \E a \in Actions : ExecuteAction(a) \/ BackoffEnds(a)
    \/ \E c \in Clients, a \in Actions : PerformRead(c, a) \/ DecideRead(c, a) \/ CancelRead(c, a)
    \/ \E c \in Clients : DisconnectRead(c) \/ Handle(c)
    \/ \E w \in Workers : Pass(w)
    \/ Vanish \/ LoseAnswer

Next == Step /\ raced' = raced \cup Raced'

Spec == Init /\ [][Next]_vars

\* Requests are answered, back-offs end, and a deployment loops run_pending.
Fairness ==
    /\ \A c \in Clients : WF_vars(Handle(c) /\ raced' = raced \cup Raced')
    /\ \A w \in Workers : WF_vars(Pass(w) /\ raced' = raced \cup Raced')
    /\ \A a \in Actions : WF_vars(BackoffEnds(a) /\ raced' = raced \cup Raced')

FairSpec == Spec /\ Fairness

--------------------------------------------------------------------------------
(* Properties *)

\* "Nothing runs until the Approval is granted": however requests and passes
\* interleave, what the provider carried out some committed decision approved.
ApprovalGates == \A a \in Actions : carried[a] > 0 => a \in granted

\* An action is carried out a second time only for a dead transaction or a lost
\* answer, or where two transactions worked on it at once or the database ended
\* the pass for a deadlock: that takes back what the pass had done besides.
RepeatsNeedAFault ==
    \A a \in Actions \ raced : carried[a] <= 1 + faults

\* Retries are bounded: unless two transactions worked on it at once, a job is
\* claimed at most max_attempts times and given up only after all of them.
RetriesAreBounded ==
    \A a \in Actions \ raced :
        /\ job[a].attempts <= MaxAttempts
        /\ job[a].state = "dead_letter" => job[a].attempts = MaxAttempts

\* A rejected action never runs and is never queued, unless the two reviewers
\* decided at once.
RejectionHolds ==
    \A a \in Actions \ raced :
        approval[a] = "rejected" =>
            carried[a] = 0 /\ job[a].state \in {"blocked_on_approval", "cancelled"}

\* A success is final: no later pass, perform or cancel takes it back.
SuccessIsFinal ==
    [][\A a \in Actions :
         (job[a].state = "succeeded" /\ a \notin raced') =>
            job'[a].state = "succeeded" /\ carried'[a] = carried[a]]_vars

\* While some worker loops, every decided action comes to rest: it succeeds, is
\* cancelled or is given up after its attempts.
DecidedSettles ==
    \A a \in Actions :
        approval[a] \in {"approved", "rejected"} ~> job[a].state \in Settled

\* "The approval has already been granted (the job would not be queued
\* otherwise)": a queued job has an approval that reads approved.
QueuedIsApproved ==
    \A a \in Actions : job[a].state = "queued" => approval[a] = "approved"
================================================================================
