---------------------------- MODULE PresentationRun ----------------------------
(***************************************************************************)
(* One build of one presentation revision (presentations/worker.py), with   *)
(* the requests that race with it (routers/presentations.py).               *)
(*                                                                          *)
(* A worker claims the run by a compare-and-swap on its lease epoch and     *)
(* then works through compose, export, render and publish.  Every write of  *)
(* a phase is one committed transaction, so an action below is one          *)
(* transaction; a row that was read in one transaction and written in a     *)
(* later one is held in the worker's or the request's own variables.        *)
(*                                                                          *)
(* A file is named by the epoch of the build that wrote it.                 *)
(***************************************************************************)
EXTENDS Naturals, FiniteSets

CONSTANTS Workers,      \* background tasks that may execute the run
          MaxAttempts,  \* MAX_ATTEMPTS of worker.py
          MaxCrashes    \* bound on how many workers vanish

ASSUME RunAssumption ==
    /\ MaxAttempts \in Nat \ {0}
    /\ MaxCrashes \in Nat

VARIABLES
    \* the PresentationRun row
    status, epoch, lease, attempts,
    \* the PresentationRevision row: its state, the file it names (0: none)
    \* and whether that file's receipt has hard failures
    state, file, hard,
    \* how many times the artifact rows of each build were inserted
    rows,
    \* whether the revision is an expert build
    expert,
    \* per worker: where it is, the epoch it read or holds, the revision
    \* state its session loaded
    pc, held, seen,
    \* the first background task waits to start
    scheduled,
    \* a cancel request that has read the run, and the file an approve request
    \* has checked (0: none)
    cancelling, approving,
    \* number of vanished workers
    crashes

runRow == <<status, epoch, lease, attempts>>
revRow == <<state, file, hard>>
workerVars == <<pc, held, seen>>
requests == <<cancelling, approving>>
vars == <<runRow, revRow, rows, expert, workerVars, scheduled, requests, crashes>>

Epochs == 1..MaxAttempts
Terminal == {"succeeded", "failed", "cancelled"}
RunStatus == {"queued", "running"} \cup Terminal
RevState == {"queued", "composing", "review_ready", "failed", "approved"}
\* Where a worker that holds an epoch can be.
Building == {"load", "mark", "compose", "to_export", "compile", "to_render",
             "to_publish", "publish", "fail"}
Step == {"idle", "claim", "giveup", "cas"} \cup Building

TypeOK ==
    /\ status \in RunStatus
    /\ epoch \in 0..MaxAttempts
    /\ lease \in {"none", "live", "expired"}
    /\ attempts \in 0..MaxAttempts
    /\ state \in RevState
    /\ file \in 0..MaxAttempts
    /\ hard \in BOOLEAN
    /\ rows \in [Epochs -> Nat]
    /\ expert \in BOOLEAN
    /\ pc \in [Workers -> Step]
    /\ held \in [Workers -> 0..MaxAttempts]
    /\ seen \in [Workers -> RevState]
    /\ scheduled \in BOOLEAN
    /\ cancelling \in BOOLEAN
    /\ approving \in 0..MaxAttempts
    /\ crashes \in 0..MaxCrashes

\* new_revision and start_run commit the queued revision and its run, then
\* hand worker.execute to the server's background tasks.
Init ==
    /\ status = "queued" /\ epoch = 0 /\ lease = "none" /\ attempts = 0
    /\ state = "queued" /\ file = 0 /\ hard = FALSE
    /\ rows = [e \in Epochs |-> 0]
    /\ expert \in BOOLEAN
    /\ pc = [w \in Workers |-> "idle"]
    /\ held = [w \in Workers |-> 0]
    /\ seen = [w \in Workers |-> "queued"]
    /\ scheduled = TRUE
    /\ cancelling = FALSE /\ approving = 0
    /\ crashes = 0

--------------------------------------------------------------------------------
(* The worker *)

Goto(w, step) == pc' = [pc EXCEPT ![w] = step]

\* Mutant of Fence: the status is not asked.
FenceOnEpoch(w) == epoch = held[w]

\* The condition of every guarded UPDATE: this epoch is current and running.
Fence(w) == epoch = held[w] /\ status = "running"

\* The background task of start_run begins.
Execute(w) ==
    /\ pc[w] = "idle" /\ scheduled
    /\ scheduled' = FALSE
    /\ Goto(w, "claim")
    /\ UNCHANGED <<runRow, revRow, rows, expert, held, seen, requests, crashes>>

\* Opening a deck queues every run whose lease ran out.
Recover(w) ==
    /\ pc[w] = "idle"
    /\ status = "running" /\ lease = "expired"
    /\ Goto(w, "claim")
    /\ UNCHANGED <<runRow, revRow, rows, expert, held, seen, scheduled, requests, crashes>>

\* Mutant of ClaimRead: the attempts are compared with > instead of >=.
ClaimReadOneTooMany(w) ==
    /\ pc[w] = "claim" /\ ~(status \in Terminal \/ (status = "running" /\ lease = "live"))
    /\ Goto(w, IF attempts > MaxAttempts THEN "giveup" ELSE "cas")
    /\ held' = [held EXCEPT ![w] = epoch]
    /\ UNCHANGED <<runRow, revRow, rows, expert, seen, scheduled, requests, crashes>>

\* claim reads the row and decides.
ClaimRead(w) ==
    /\ pc[w] = "claim"
    /\ \/ /\ status \in Terminal \/ (status = "running" /\ lease = "live")
          /\ Goto(w, "idle")
          /\ UNCHANGED held
       \/ /\ ~(status \in Terminal \/ (status = "running" /\ lease = "live"))
          /\ Goto(w, IF attempts >= MaxAttempts THEN "giveup" ELSE "cas")
          /\ held' = [held EXCEPT ![w] = epoch]
    /\ UNCHANGED <<runRow, revRow, rows, expert, seen, scheduled, requests, crashes>>

\* Mutant of GiveUp: the worker leaves without failing the run.
GiveUpSilently(w) ==
    /\ pc[w] = "giveup"
    /\ Goto(w, "idle")
    /\ UNCHANGED <<runRow, revRow, rows, expert, held, seen, scheduled, requests, crashes>>

\* The attempts are used up: an UPDATE by id alone.
GiveUp(w) ==
    /\ pc[w] = "giveup"
    /\ status' = "failed"
    /\ Goto(w, "idle")
    /\ UNCHANGED <<epoch, lease, attempts, revRow, rows, expert, held, seen, scheduled, requests, crashes>>

\* Mutant of ClaimSwap: an UPDATE by id, without the comparison.
ClaimSwapByIdAlone(w) ==
    /\ pc[w] = "cas"
    /\ status' = "running" /\ lease' = "live"
    /\ epoch' = held[w] + 1 /\ attempts' = held[w] + 1
    /\ held' = [held EXCEPT ![w] = @ + 1]
    /\ Goto(w, "load")
    /\ UNCHANGED <<revRow, rows, expert, seen, scheduled, requests, crashes>>

\* The compare-and-swap on the epoch that was read.  The attempts written are
\* those read with it plus one; they change only together with the epoch.
ClaimSwap(w) ==
    /\ pc[w] = "cas"
    /\ \/ /\ epoch = held[w]
          /\ status' = "running"
          /\ epoch' = held[w] + 1
          /\ lease' = "live"
          /\ attempts' = attempts + 1
          /\ held' = [held EXCEPT ![w] = @ + 1]
          /\ Goto(w, "load")
       \/ /\ epoch # held[w]
          /\ Goto(w, "idle")
          /\ UNCHANGED <<runRow, held>>
    /\ UNCHANGED <<revRow, rows, expert, seen, scheduled, requests, crashes>>

\* build reads the revision into its session.
LoadRevision(w) ==
    /\ pc[w] = "load"
    /\ seen' = [seen EXCEPT ![w] = state]
    /\ Goto(w, "mark")
    /\ UNCHANGED <<runRow, revRow, rows, expert, held, scheduled, requests, crashes>>

\* rev.state = "composing"; commit.  The session emits the UPDATE only when the
\* state it loaded differs, and the UPDATE carries no fence.
MarkComposing(w) ==
    /\ pc[w] = "mark"
    /\ state' = IF seen[w] = "composing" THEN state ELSE "composing"
    /\ seen' = [seen EXCEPT ![w] = "composing"]
    /\ Goto(w, "compose")
    /\ UNCHANGED <<runRow, file, hard, rows, expert, held, scheduled, requests, crashes>>

\* The engine (compose, then compile) or, for an expert build, the sandbox
\* answers or raises.
EngineAnswers(w) ==
    /\ pc[w] \in {"compose", "compile"}
    /\ \/ Goto(w, IF pc[w] = "compose" /\ ~expert THEN "to_export" ELSE "to_render")
       \/ Goto(w, "fail")
    /\ UNCHANGED <<runRow, revRow, rows, expert, held, seen, scheduled, requests, crashes>>

\* _phase: move on and renew the lease, under the fence.  Rendering cannot fail
\* the build, so the next thing to commit after it is the publish phase.
EnterPhase(w) ==
    /\ \/ pc[w] = "to_export"  /\ Goto(w, IF Fence(w) THEN "compile" ELSE "idle")
       \/ pc[w] = "to_render"  /\ Goto(w, IF Fence(w) THEN "to_publish" ELSE "idle")
       \/ pc[w] = "to_publish" /\ Goto(w, IF Fence(w) THEN "publish" ELSE "idle")
    /\ lease' = IF Fence(w) THEN "live" ELSE lease
    /\ UNCHANGED <<status, epoch, attempts, revRow, rows, expert, held, seen, scheduled, requests, crashes>>

\* Mutant of Publish: the rows are written without asking who holds the run.
PublishUnfenced(w) ==
    /\ pc[w] = "publish"
    /\ Goto(w, "idle")
    /\ status' = "succeeded" /\ lease' = "none"
    /\ rows' = [rows EXCEPT ![held[w]] = @ + 1]
    /\ file' = held[w] /\ hard' = FALSE /\ state' = "review_ready"
    /\ UNCHANGED <<epoch, attempts, expert, held, seen, scheduled, requests, crashes>>

\* One transaction, guarded by the lease epoch: the run succeeds, the artifact
\* rows appear and the revision names the new file.  bad: the receipt of the
\* file lists a hard failure.
Publish(w) ==
    /\ pc[w] = "publish"
    /\ Goto(w, "idle")
    /\ \/ /\ Fence(w)
          /\ status' = "succeeded" /\ lease' = "none"
          /\ rows' = [rows EXCEPT ![held[w]] = @ + 1]
          /\ file' = held[w]
          /\ \E bad \in BOOLEAN :
                hard' = bad /\ state' = IF bad THEN "failed" ELSE "review_ready"
       \/ /\ ~Fence(w)
          /\ UNCHANGED <<status, lease, rows, revRow>>
    /\ UNCHANGED <<epoch, attempts, expert, held, seen, scheduled, requests, crashes>>

\* EngineError or SandboxError: the run and its revision fail, under the fence.
FailBuild(w) ==
    /\ pc[w] = "fail"
    /\ Goto(w, "idle")
    /\ \/ /\ Fence(w)
          /\ status' = "failed" /\ lease' = "none" /\ state' = "failed"
       \/ /\ ~Fence(w)
          /\ UNCHANGED <<status, lease, state>>
    /\ UNCHANGED <<epoch, attempts, file, hard, rows, expert, held, seen, scheduled, requests, crashes>>

\* Any other exception, or the end of the process: execute logs it and the
\* worker is gone, as is a background task that had not started.
Vanish ==
    /\ crashes < MaxCrashes
    /\ \/ /\ \E w \in Workers : pc[w] # "idle" /\ Goto(w, "idle")
          /\ UNCHANGED scheduled
       \/ scheduled /\ scheduled' = FALSE /\ UNCHANGED pc
    /\ crashes' = crashes + 1
    /\ UNCHANGED <<runRow, revRow, rows, expert, held, seen, requests>>

\* LEASE passes without a renewal.
LeaseExpires ==
    /\ status = "running" /\ lease = "live"
    /\ lease' = "expired"
    /\ UNCHANGED <<status, epoch, attempts, revRow, rows, expert, workerVars, scheduled, requests, crashes>>

--------------------------------------------------------------------------------
(* The requests *)

\* POST /runs/{id}/cancel reads the run; a settled run is returned as it is.
CancelRead ==
    /\ ~cancelling /\ status \in {"queued", "running"}
    /\ cancelling' = TRUE
    /\ UNCHANGED <<runRow, revRow, rows, expert, workerVars, scheduled, approving, crashes>>

\* It then updates the run by id alone and fails a revision still being built.
CancelCommit ==
    /\ cancelling
    /\ cancelling' = FALSE
    /\ status' = "cancelled" /\ lease' = "none"
    /\ state' = IF state \in {"queued", "composing"} THEN "failed" ELSE state
    /\ UNCHANGED <<epoch, attempts, file, hard, rows, expert, workerVars, scheduled, approving, crashes>>

\* POST .../approve checks the state, the receipt and the file's hash ...
ApproveRead ==
    /\ approving = 0
    /\ state = "review_ready" /\ ~hard /\ file # 0
    /\ approving' = file
    /\ UNCHANGED <<runRow, revRow, rows, expert, workerVars, scheduled, cancelling, crashes>>

\* ... and sets the state alone when the request commits.
ApproveCommit ==
    /\ approving # 0
    /\ approving' = 0
    /\ state' = "approved"
    /\ UNCHANGED <<runRow, file, hard, rows, expert, workerVars, scheduled, cancelling, crashes>>

--------------------------------------------------------------------------------

Build(w) ==
    \/ ClaimRead(w) \/ GiveUp(w) \/ ClaimSwap(w)
    \/ LoadRevision(w) \/ MarkComposing(w) \/ EngineAnswers(w) \/ EnterPhase(w)
    \/ Publish(w) \/ FailBuild(w)

Request == CancelRead \/ CancelCommit \/ ApproveRead \/ ApproveCommit

Next ==
    \/ \E w \in Workers : Execute(w) \/ Recover(w) \/ Build(w)
    \/ Vanish
    \/ LeaseExpires
    \/ Request

Spec == Init /\ [][Next]_vars

\* A started worker keeps going, leases run out, and a deck that is being built
\* is reopened (the deck page polls while its revision is composing).
Fairness ==
    /\ \A w \in Workers : WF_vars(Build(w))
    /\ WF_vars(LeaseExpires)
    /\ WF_vars(\E w \in Workers : Recover(w))

FairSpec == Spec /\ Fairness

--------------------------------------------------------------------------------
(* Properties *)

\* The compare-and-swap of claim hands every epoch to one worker, and no worker
\* holds an epoch the row has not reached.
EpochsAreExclusive ==
    /\ \A w \in Workers : pc[w] \in Building => held[w] \in 1..epoch
    /\ \A v, w \in Workers :
         (v # w /\ pc[v] \in Building /\ pc[w] \in Building) => held[v] # held[w]

\* However claims, expiries and crashes interleave, each attempt is one epoch,
\* so a run is built at most MAX_ATTEMPTS times before it gives up.
AttemptsFollowEpochs ==
    /\ attempts = epoch
    /\ \A w \in Workers : pc[w] = "cas" => held[w] < MaxAttempts

\* The file the revision names is the newest one published, and no build
\* publishes twice: a stale worker that finishes late never replaces a file.
NewestFileWins ==
    /\ \A e \in Epochs : rows[e] > 0 => e <= file
    /\ \A e \in Epochs : rows[e] <= 1
    /\ file # 0 => rows[file] = 1

\* Once a cancel has taken effect nothing is published until a worker has
\* claimed the run anew: workers that were building are fenced off.
CancelFences ==
    [][status = "cancelled" => UNCHANGED <<rows, file>>]_vars

\* A run that some worker started does not stay unfinished: worker, lease and
\* recovery together bring it to rest for good.
RunSettles == (status = "running") ~> [](status \in Terminal)

\* The run is a build fenced by a token: the epoch is the token and the
\* revision's file is what is visible.
Fenced == INSTANCE FencedBuild WITH MaxTokens <- MaxAttempts, token <- epoch, visible <- file
FencedImplemented == Fenced!FencedSpec

\* "Stale workers cannot overwrite newer outputs, even if they finish later":
\* while a newer build's file is shown, a worker with an older epoch leaves the
\* revision alone.
StaleWorkersWriteNothing ==
    [][\A w \in Workers :
         (file # 0 /\ pc[w] \in Building /\ held[w] < file /\ pc'[w] # pc[w])
            => UNCHANGED revRow]_vars
================================================================================
