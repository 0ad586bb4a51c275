------------------------------- MODULE SharedQueue ------------------------------
(***************************************************************************)
(* The one job queue that the services share (orch/jobs/): the standup        *)
(* enqueues reviews and deliveries, the gateway gated actions, the assistant   *)
(* coding tasks.  Two kinds of worker process drain it: the standup worker     *)
(* claims its own kinds, run_pending of the integrations claims whatever is    *)
(* due, with a handler for integration.execute alone.                        *)
(*                                                                          *)
(* A pass is one transaction.  The rows it has flushed are locked until it     *)
(* ends; a job that another pass has locked is written, as it was read, when   *)
(* that one has ended.                                                         *)
(***************************************************************************)
EXTENDS Naturals, FiniteSets

CONSTANTS StandupWorkers, IntegrationWorkers,
          Produced,     \* kinds of the jobs that are put in the queue
          Tries,        \* per kind of job: its max_attempts, 3 or 5 in the code
          MaxQueued, MaxDeaths   \* bounds on the jobs and on passes that die

Kind == {"review", "deliver", "integration.execute", "coding"}

ASSUME QueueAssumption ==
    /\ StandupWorkers \cap IntegrationWorkers = {}
    /\ Produced \subseteq Kind /\ Tries \in [Kind -> Nat \ {0}] /\ {MaxQueued, MaxDeaths} \subseteq Nat

VARIABLES
    queue,      \* rows of jobs, in the order they were created
    decided,    \* per job: what its approval says
    claims,     \* per job: how often a pass has claimed it, up to its limit
    pass,       \* per worker: its transaction
    deaths

queueVars == <<queue, decided, claims, pass, deaths>>

QueueWorkers == StandupWorkers \cup IntegrationWorkers
JobState == {"blocked_on_approval", "queued", "running", "succeeded", "dead_letter", "cancelled"}
JobRow == [kind : Kind, state : JobState, attempts : Nat, later : BOOLEAN]
Verdict == {"pending", "approved", "rejected"}
NoPass == [step |-> "rest"]
JobIds == DOMAIN queue

QueueTypeOK ==
    /\ JobIds = 1..Cardinality(JobIds) /\ Cardinality(JobIds) <= MaxQueued
    /\ \A j \in JobIds : queue[j] \in JobRow
    /\ decided \in [JobIds -> Verdict] /\ DOMAIN claims = JobIds
    /\ \A w \in QueueWorkers : pass[w].step \in {"rest", "look", "found", "run"}
    /\ deaths \in 0..MaxDeaths

\* What a process may claim, and what it can run.
KindsOf(w) == IF w \in StandupWorkers THEN {"review", "deliver"} ELSE Kind
Handled(w) == IF w \in StandupWorkers THEN {"review", "deliver"} ELSE {"integration.execute"}

--------------------------------------------------------------------------------
(* Producers *)

\* Reviews and deliveries are deferred, a gated action waits for its approval; the
\* assistant's coding task is queued at once, beside its approval.
FirstState(kind) == IF kind = "integration.execute" THEN "blocked_on_approval" ELSE "queued"

Enqueue(kind) ==
    /\ Cardinality(JobIds) < MaxQueued
    /\ LET j == Cardinality(JobIds) + 1 IN
       /\ queue' = [i \in 1..j |->
             IF i = j THEN [kind |-> kind, state |-> FirstState(kind), attempts |-> 0,
                            later |-> kind \in {"review", "deliver"}]
             ELSE queue[i]]
       /\ claims' = [i \in 1..j |-> IF i = j THEN 0 ELSE claims[i]]
       /\ decided' = [i \in 1..j |-> IF i = j THEN "pending" ELSE decided[i]]
    /\ UNCHANGED <<pass, deaths>>

\* What is decided on a coding task changes nothing of its job.
DecideJob(j, decision) ==
    /\ queue[j].kind = "integration.execute" /\ decided[j] = "pending"
    /\ decision # "pending" /\ decided' = [decided EXCEPT ![j] = decision]
    /\ UNCHANGED <<queue, claims, pass, deaths>>

\* run_after passes: a deferred job, or one that failed, becomes due.
FallsDue(j) ==
    /\ queue[j].state = "queued" /\ queue[j].later
    /\ queue' = [queue EXCEPT ![j].later = FALSE]
    /\ UNCHANGED <<decided, claims, pass, deaths>>

--------------------------------------------------------------------------------
(* A pass *)

InPass(w) == pass[w].step # "rest"
Flushed(w) == IF InPass(w) THEN DOMAIN pass[w].rows ELSE {}
Locked(j, w) == \E o \in QueueWorkers \ {w} : j \in Flushed(o)
QueueRow(w, j) == IF j \in Flushed(w) THEN pass[w].rows[j] ELSE queue[j]
WithRow(w, j, r) == [i \in Flushed(w) \cup {j} |-> IF i = j THEN r ELSE pass[w].rows[i]]

\* promote_approved_actions
Promotable == {j \in JobIds : queue[j].state = "blocked_on_approval" /\ decided[j] # "pending"}
Promoted(j) == [queue[j] EXCEPT !.state = IF decided[j] = "approved" THEN "queued" ELSE "cancelled"]

BeginPass(w) ==
    /\ ~InPass(w)
    /\ LET promoted == IF w \in IntegrationWorkers THEN Promotable ELSE {} IN
       /\ \A j \in promoted : ~Locked(j, w)
       /\ pass' = [pass EXCEPT ![w] = [step |-> "look", on |-> 0, was |-> 0,
                     rows |-> [j \in promoted |-> Promoted(j)]]]
    /\ UNCHANGED <<queue, decided, claims, deaths>>

Claimable(w) ==
    {j \in JobIds : QueueRow(w, j).state = "queued" /\ ~QueueRow(w, j).later /\ QueueRow(w, j).kind \in KindsOf(w)}

\* claim_next selects the oldest, without a lock ...
FindJob(w) ==
    /\ InPass(w) /\ pass[w].step = "look"
    /\ \E j \in Claimable(w) :
          /\ \A i \in Claimable(w) : j <= i
          /\ pass' = [pass EXCEPT ![w].step = "found", ![w].on = j, ![w].was = QueueRow(w, j).attempts]
    /\ UNCHANGED <<queue, decided, claims, deaths>>

\* ... and writes what it has made of the row it read.
ClaimJob(w) ==
    /\ InPass(w) /\ pass[w].step = "found" /\ ~Locked(pass[w].on, w)
    /\ LET j == pass[w].on IN
       pass' = [pass EXCEPT ![w].step = "run",
                  ![w].rows = WithRow(w, j, [QueueRow(w, j) EXCEPT !.state = "running", !.attempts = pass[w].was + 1])]
    /\ UNCHANGED <<queue, decided, claims, deaths>>

\* Mutant of Failed: one attempt early.
FailedEarly(r) ==
    IF r.attempts + 1 >= Tries[r.kind] THEN [r EXCEPT !.state = "dead_letter"]
    ELSE [r EXCEPT !.state = "queued", !.later = TRUE]

\* queue.fail
Failed(r) ==
    IF r.attempts >= Tries[r.kind] THEN [r EXCEPT !.state = "dead_letter"]
    ELSE [r EXCEPT !.state = "queued", !.later = TRUE]

\* process_once: a job without a handler fails like one whose handler does.
ProcessOnce(w, succeeds) ==
    /\ InPass(w) /\ pass[w].step = "run"
    /\ LET j == pass[w].on  r == pass[w].rows[j]  IN
       /\ succeeds => r.kind \in Handled(w)
       /\ pass' = [pass EXCEPT ![w].step = "look", ![w].on = 0, ![w].was = 0,
                     ![w].rows[j] = IF succeeds THEN [r EXCEPT !.state = "succeeded"] ELSE Failed(r)]
       /\ claims' = IF claims[j] < Tries[r.kind] THEN [claims EXCEPT ![j] = @ + 1] ELSE claims
    /\ UNCHANGED <<queue, decided, deaths>>

\* The pass has drained what it may claim.
CommitQueuePass(w) ==
    /\ InPass(w) /\ pass[w].step = "look" /\ Claimable(w) = {}
    /\ queue' = [j \in JobIds |-> QueueRow(w, j)]
    /\ pass' = [pass EXCEPT ![w] = NoPass]
    /\ UNCHANGED <<decided, claims, deaths>>

LosePass(w) ==
    /\ InPass(w) /\ deaths < MaxDeaths /\ deaths' = deaths + 1
    /\ pass' = [pass EXCEPT ![w] = NoPass]
    /\ UNCHANGED <<queue, decided, claims>>

QueueInit ==
    /\ queue = [j \in {} |-> 0] /\ claims = [j \in {} |-> 0] /\ decided = [j \in {} |-> 0]
    /\ pass = [w \in QueueWorkers |-> NoPass] /\ deaths = 0

QueueNext ==
    \/ \E kind \in Produced : Enqueue(kind)
    \/ \E j \in JobIds : FallsDue(j) \/ \E decision \in Verdict : DecideJob(j, decision)
    \/ \E w \in QueueWorkers :
          \/ BeginPass(w) \/ FindJob(w) \/ ClaimJob(w) \/ CommitQueuePass(w) \/ LosePass(w)
          \/ \E succeeds \in BOOLEAN : ProcessOnce(w, succeeds)

--------------------------------------------------------------------------------
(* Properties *)

\* A job is given up only after as many attempts as it is allowed, by whichever
\* passes and however they overlapped, and a pass never runs what it has no handler
\* for: a coding task is not done by any.
GivenUpInTime ==
    \A j \in JobIds :
       /\ queue[j].state = "dead_letter" => claims[j] = Tries[queue[j].kind]
       /\ queue[j].kind = "coding" => queue[j].state # "succeeded"
================================================================================
