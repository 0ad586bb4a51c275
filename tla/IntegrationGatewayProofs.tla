------------------------ MODULE IntegrationGatewayProofs ------------------------
(***************************************************************************)
(* Proofs about IntegrationGateway for every set of actions, requests and   *)
(* worker processes.                                                        *)
(***************************************************************************)
EXTENDS IntegrationGateway, TLAPS

LEMMA NoRequestType == NoRequest \in Request
BY GatewayAssumption DEF NoRequest, Request

LEMMA CleanType == Clean \in Copy
BY DEF Clean, Copy

\* Writing a job's state, attempts or due time keeps the row a row.
LEMMA RowUpdates ==
    ASSUME NEW row \in JobRow, NEW s \in JobState, NEW d \in BOOLEAN
    PROVE  /\ [row EXCEPT !.state = s] \in JobRow
           /\ [row EXCEPT !.due = d] \in JobRow
           /\ [row EXCEPT !.state = s, !.due = d] \in JobRow
           /\ [row EXCEPT !.state = s, !.attempts = @ + 1] \in JobRow
<1>1. [row EXCEPT !.state = s] \in JobRow /\ [row EXCEPT !.due = d] \in JobRow
  BY DEF JobRow
<1>2. [row EXCEPT !.state = s, !.due = d] \in JobRow
  BY DEF JobRow
<1>3. row.attempts + 1 \in Nat
  BY DEF JobRow
<1>4. [row EXCEPT !.state = s, !.attempts = @ + 1] \in JobRow
  BY <1>3 DEF JobRow
<1>. QED
  BY <1>1, <1>2, <1>4

LEMMA CopyUpdates ==
    ASSUME NEW row \in Copy, NEW s \in JobState, NEW d \in BOOLEAN
    PROVE  /\ [row EXCEPT !.state = s] \in Copy
           /\ [row EXCEPT !.state = s, !.due = d] \in Copy
BY DEF Copy

LEMMA ClaimedRow ==
    ASSUME NEW row \in JobRow, NEW s \in JobState, NEW n \in Nat
    PROVE  [row EXCEPT !.state = s, !.attempts = n] \in Copy
BY DEF Copy, JobRow

LEMMA FlushedIsRow == \A row \in Copy : row.state # "clean" => row \in JobRow
BY DEF Copy, JobRow

LEMMA RowIsCopy == JobRow \subseteq Copy
BY DEF JobRow, Copy

LEMMA InitType == Init => TypeOK
<1> SUFFICES ASSUME Init PROVE TypeOK
  OBVIOUS
<1> USE GatewayAssumption DEF Init
<1>1. NoRequest.on \in Actions
  BY DEF NoRequest
<1>2. job \in [Actions -> JobRow]
  BY DEF JobRow, JobState
<1>3. approval \in [Actions -> ApprovalStatus] /\ carried \in [Actions -> Nat]
  BY DEF ApprovalStatus
<1>4. connected \in BOOLEAN /\ secrets \in BOOLEAN /\ granted \subseteq Actions /\ raced \subseteq Actions
  OBVIOUS
<1>5. req \in [Clients -> Request]
  BY NoRequestType
<1>6. pc \in [Workers -> WorkerStep] /\ current \in [Workers -> Actions]
  BY <1>1 DEF WorkerStep
<1>7. plan \in [Workers -> [Actions -> {"keep", "queued", "cancelled"}]]
  OBVIOUS
<1>8. copy \in [Workers -> [Actions -> Copy]]
  BY CleanType
<1>9. faults \in 0..MaxFaults
  OBVIOUS
<1>. QED
  BY <1>2, <1>3, <1>4, <1>5, <1>6, <1>7, <1>8, <1>9 DEF TypeOK

LEMMA EndPassType ==
    ASSUME TypeOK, NEW w \in Workers, NEW committed \in BOOLEAN, EndPass(w, committed)
    PROVE  /\ job' \in [Actions -> JobRow]
           /\ copy' \in [Workers -> [Actions -> Copy]]
           /\ plan' \in [Workers -> [Actions -> {"keep", "queued", "cancelled"}]]
           /\ pc' \in [Workers -> WorkerStep]
           /\ UNCHANGED <<approval, connected, secrets, req, current>>
<1> USE DEF TypeOK, EndPass
<1>1. Dirty(w) \subseteq Actions
  BY DEF Dirty
<1>2. ASSUME NEW a \in Dirty(w) PROVE copy[w][a] \in JobRow
  <2>1. copy[w][a] \in Copy /\ copy[w][a].state # "clean"
    BY <1>1 DEF Dirty
  <2>. QED
    BY <2>1, FlushedIsRow
<1>. QED
  BY <1>1, <1>2, CleanType DEF WorkerStep

LEMMA OpenType ==
    ASSUME TypeOK, NEW c \in Clients, NEW a \in Actions,
           NEW kind \in {"perform", "approve", "reject", "cancel"}, Open(c, kind, a)
    PROVE  req' \in [Clients -> Request] /\ UNCHANGED <<rows, passes, history>>
BY DEF TypeOK, Open, Request

LEMMA CloseType ==
    ASSUME TypeOK, NEW c \in Clients, Close(c)
    PROVE  req' \in [Clients -> Request]
BY NoRequestType DEF TypeOK, Close

\* Every step keeps the types.
LEMMA TypeStep ==
    ASSUME TypeOK, Next
    PROVE  TypeOK'
<1> USE GatewayAssumption DEF TypeOK
<1>0. raced' \subseteq Actions
  BY DEF Next, Raced
<1>1. ASSUME NEW a \in Actions, ExecuteAction(a) PROVE TypeOK'
  <2>1. [job[a] EXCEPT !.state = "blocked_on_approval"] \in JobRow
    BY RowUpdates DEF JobState
  <2>. QED
    BY <1>0, <1>1, <2>1 DEF ExecuteAction, ApprovalStatus, passes, history
<1>2. ASSUME NEW a \in Actions, BackoffEnds(a) PROVE TypeOK'
  <2>1. [job[a] EXCEPT !.due = TRUE] \in JobRow
    BY RowUpdates DEF JobState
  <2>. QED
    BY <1>0, <1>2, <2>1 DEF BackoffEnds, passes, history
<1>3. ASSUME NEW c \in Clients, NEW a \in Actions, PerformRead(c, a) PROVE TypeOK'
  <2>1. req' \in [Clients -> Request] /\ UNCHANGED <<rows, passes, history>>
    BY <1>3, OpenType DEF PerformRead
  <2>. QED
    BY <1>0, <1>3, <2>1 DEF rows, passes, history
<1>4. ASSUME NEW c \in Clients, NEW a \in Actions, DecideRead(c, a) PROVE TypeOK'
  <2>1. req' \in [Clients -> Request] /\ UNCHANGED <<rows, passes, history>>
    BY <1>4, OpenType DEF DecideRead
  <2>. QED
    BY <1>0, <1>4, <2>1 DEF rows, passes, history
<1>5. ASSUME NEW c \in Clients, NEW a \in Actions, CancelRead(c, a) PROVE TypeOK'
  <2>1. req' \in [Clients -> Request] /\ UNCHANGED <<rows, passes, history>>
    BY <1>5, OpenType DEF CancelRead
  <2>. QED
    BY <1>0, <1>5, <2>1 DEF rows, passes, history
<1>6. ASSUME NEW c \in Clients, DisconnectRead(c) PROVE TypeOK'
  <2>1. req' \in [Clients -> Request]
    BY <1>6, NoRequestType DEF DisconnectRead, Request
  <2>. QED
    BY <1>0, <1>6, <2>1 DEF DisconnectRead, passes, history
<1>7. ASSUME NEW c \in Clients, PerformCall(c) PROVE TypeOK'
  <2>1. req' \in [Clients -> Request]
    <3>1. CASE Close(c)
      BY <3>1, CloseType
    <3>2. CASE req' = [req EXCEPT ![c].step = "called"]
      <4>1. [req[c] EXCEPT !.step = "called"] \in Request
        BY DEF Request
      <4>. QED
        BY <3>2, <4>1
    <3>. QED
      BY <1>7, <3>1, <3>2 DEF PerformCall
  <2>2. carried' \in [Actions -> Nat]
    BY <1>7 DEF PerformCall, Request
  <2>. QED
    BY <1>0, <1>7, <2>1, <2>2 DEF PerformCall, rows, passes
<1>8. ASSUME NEW c \in Clients, PerformCommit(c) PROVE TypeOK'
  <2>1. req' \in [Clients -> Request] /\ req[c].on \in Actions
    BY <1>8, CloseType DEF PerformCommit, Request
  <2>2. [job[req[c].on] EXCEPT !.state = "succeeded"] \in JobRow
    BY <2>1, RowUpdates DEF JobState
  <2>3. job' \in [Actions -> JobRow]
    BY <1>8, <2>1, <2>2 DEF PerformCommit
  <2>. QED
    BY <1>0, <1>8, <2>1, <2>2, <2>3 DEF PerformCommit, passes, history
<1>9. ASSUME NEW c \in Clients, DecideCommit(c) PROVE TypeOK'
  <2>1. req' \in [Clients -> Request] /\ req[c].on \in Actions
    BY <1>9, CloseType DEF DecideCommit, Request
  <2>2. granted' \subseteq Actions
    BY <1>9, <2>1 DEF DecideCommit
  <2>3. approval' \in [Actions -> ApprovalStatus]
    BY <1>9, <2>1 DEF DecideCommit, ApprovalStatus
  <2>. QED
    BY <1>0, <1>9, <2>1, <2>2, <2>3 DEF DecideCommit, passes
<1>10. ASSUME NEW c \in Clients, CancelCommit(c) PROVE TypeOK'
  <2>1. req' \in [Clients -> Request] /\ req[c].on \in Actions
    BY <1>10, CloseType DEF CancelCommit, Request
  <2>2. [job[req[c].on] EXCEPT !.state = "cancelled"] \in JobRow
    BY <2>1, RowUpdates DEF JobState
  <2>3. job' \in [Actions -> JobRow]
    BY <1>10, <2>1, <2>2 DEF CancelCommit
  <2>. QED
    BY <1>0, <1>10, <2>1, <2>2, <2>3 DEF CancelCommit, passes, history
<1>11. ASSUME NEW c \in Clients, DisconnectCommit(c) PROVE TypeOK'
  <2>1. req' \in [Clients -> Request]
    BY <1>11, CloseType DEF DisconnectCommit
  <2>. QED
    BY <1>0, <1>11, <2>1 DEF DisconnectCommit, passes, history
<1>12. ASSUME NEW w \in Workers, PromoteRead(w) PROVE TypeOK'
  <2>1. plan' \in [Workers -> [Actions -> {"keep", "queued", "cancelled"}]]
    BY <1>12 DEF PromoteRead
  <2>. QED
    BY <1>0, <1>12, <2>1 DEF PromoteRead, WorkerStep, rows, history
<1>13. ASSUME NEW w \in Workers, PromoteWrite(w) PROVE TypeOK'
  <2>1. \A a \in Actions : [job[a] EXCEPT !.state = "queued", !.due = TRUE] \in Copy /\ [job[a] EXCEPT !.state = "cancelled"] \in Copy
    BY RowUpdates, RowIsCopy DEF JobState
  <2>2. copy' \in [Workers -> [Actions -> Copy]]
    BY <1>13, <2>1, CleanType DEF PromoteWrite
  <2>. QED
    BY <1>0, <1>13, <2>1, <2>2 DEF PromoteWrite, WorkerStep, rows, history
<1>14. ASSUME NEW w \in Workers, NEW a \in Actions, ClaimRead(w, a) PROVE TypeOK'
  <2>1. copy[w][a] \in Copy /\ job[a] \in JobRow
    OBVIOUS
  <2>2. Seen(w, a) \in JobRow
    BY <2>1, FlushedIsRow DEF Seen, Dirty
  <2>3. [copy[w][a] EXCEPT !.attempts = Seen(w, a).attempts] \in Copy
    BY <2>1, <2>2 DEF Copy, JobRow
  <2>4. copy' \in [Workers -> [Actions -> Copy]]
    BY <1>14, <2>3 DEF ClaimRead
  <2>. QED
    BY <1>0, <1>14, <2>4 DEF ClaimRead, WorkerStep, rows, history
<1>15. ASSUME NEW w \in Workers, ClaimWrite(w) PROVE TypeOK'
  <2>1. copy[w][current[w]] \in Copy /\ job[current[w]] \in JobRow
    OBVIOUS
  <2>2. Seen(w, current[w]) \in JobRow
    BY <2>1, FlushedIsRow DEF Seen, Dirty
  <2> DEFINE row == [Seen(w, current[w]) EXCEPT !.state = "running",
                                                !.attempts = copy[w][current[w]].attempts + 1]
  <2>3. row \in Copy
    <3>1. copy[w][current[w]].attempts + 1 \in Nat /\ "running" \in JobState
      BY <2>1 DEF Copy, JobState
    <3>. QED
      BY <2>2, <3>1, ClaimedRow
  <2>4. copy' \in [Workers -> [Actions -> Copy]]
    <3>1. copy' = [copy EXCEPT ![w][current[w]] = row]
      BY <1>15 DEF ClaimWrite
    <3> HIDE DEF row
    <3>. QED
      BY <2>3, <3>1
  <2>. QED
    BY <1>0, <1>15, <2>1, <2>2, <2>3, <2>4 DEF ClaimWrite, WorkerStep, rows, history
<1>16. ASSUME NEW w \in Workers, RunJob(w) PROVE TypeOK'
  <2>1. carried' \in [Actions -> Nat]
    BY <1>16 DEF RunJob
  <2>2. pc' \in [Workers -> WorkerStep]
    BY <1>16 DEF RunJob, WorkerStep
  <2>. QED
    BY <1>0, <1>16, <2>1, <2>2 DEF RunJob, WorkerStep, rows
<1>17. ASSUME NEW w \in Workers, CompleteJob(w) PROVE TypeOK'
  <2>1. CASE EndPass(w, FALSE)
    BY <1>17, <1>0, <2>1, EndPassType DEF CompleteJob, history
  <2>2. copy[w][current[w]] \in Copy
    OBVIOUS
  <2>3. [copy[w][current[w]] EXCEPT !.state = "succeeded"] \in Copy
    BY <2>2, CopyUpdates DEF JobState
  <2>4. CASE copy' = [copy EXCEPT ![w][current[w]].state = "succeeded"] /\ pc' = [pc EXCEPT ![w] = "drain"] /\ UNCHANGED <<rows, req, current, plan>>
    BY <1>17, <1>0, <2>3, <2>4 DEF CompleteJob, WorkerStep, rows, history
  <2>. QED
    BY <1>0, <1>17, <2>1, <2>2, <2>3, <2>4 DEF CompleteJob
<1>18. ASSUME NEW w \in Workers, FailJob(w) PROVE TypeOK'
  <2>1. copy[w][current[w]] \in Copy
    OBVIOUS
  <2>2. [copy[w][current[w]] EXCEPT !.state = "dead_letter"] \in Copy /\ [copy[w][current[w]] EXCEPT !.state = "queued", !.due = FALSE] \in Copy
    BY <2>1, CopyUpdates DEF JobState
  <2>3. copy' \in [Workers -> [Actions -> Copy]]
    BY <1>18, <2>2 DEF FailJob
  <2>. QED
    BY <1>0, <1>18, <2>1, <2>2, <2>3 DEF FailJob, WorkerStep, rows, history
<1>19. ASSUME NEW w \in Workers, CommitPass(w) \/ LoseDeadlock(w) PROVE TypeOK'
  <2>1. \E committed \in BOOLEAN : EndPass(w, committed)
    BY <1>19 DEF CommitPass, LoseDeadlock
  <2>2. UNCHANGED history
    BY <1>19 DEF CommitPass, LoseDeadlock
  <2>. QED
    BY <1>0, <2>1, <2>2, EndPassType DEF history
<1>20. ASSUME Vanish PROVE TypeOK'
  <2>1. faults' \in 0..MaxFaults
    BY <1>20 DEF Vanish
  <2>2. ASSUME NEW c \in Clients, Close(c), UNCHANGED <<rows, passes>> PROVE TypeOK'
    BY <1>20, <1>0, <2>1, <2>2, CloseType DEF Vanish, rows, passes
  <2>3. ASSUME NEW w \in Workers, EndPass(w, FALSE) PROVE TypeOK'
    BY <1>20, <1>0, <2>1, <2>3, EndPassType DEF Vanish
  <2>. QED
    BY <1>0, <1>20, <2>1, <2>2, <2>3 DEF Vanish
<1>21. ASSUME LoseAnswer PROVE TypeOK'
  <2>1. faults' \in 0..MaxFaults
    BY <1>21 DEF LoseAnswer
  <2>2. ASSUME NEW a \in Actions PROVE [carried EXCEPT ![a] = @ + 1] \in [Actions -> Nat]
    OBVIOUS
  <2>3. \A c \in Clients : req[c].on \in Actions
    BY DEF Request
  <2>4. carried' \in [Actions -> Nat]
    BY <1>21, <2>2, <2>3 DEF LoseAnswer
  <2>5. req' \in [Clients -> Request]
    BY <1>21, CloseType DEF LoseAnswer
  <2>6. pc' \in [Workers -> WorkerStep]
    BY <1>21 DEF LoseAnswer, WorkerStep
  <2>. QED
    BY <1>0, <1>21, <2>1, <2>2, <2>3, <2>4, <2>5, <2>6 DEF LoseAnswer, rows
<1>. QED
  BY <1>1, <1>2, <1>3, <1>4, <1>5, <1>6, <1>7, <1>8, <1>9, <1>10, <1>11, <1>12, <1>13, <1>14, <1>15, <1>16, <1>17, <1>18, <1>19, <1>20, <1>21 DEF Next, Step, Handle, Pass

--------------------------------------------------------------------------------
(* Consent *)

Live == {"queued", "running"}

\* Wherever an action is on its way to the provider, it has been granted: in a
\* committed row, in a row that a pass has flushed, in what a pass plans or works
\* on, and in an open request.
Consent ==
    /\ ApprovalGates
    /\ \A a \in Actions : approval[a] = "approved" => a \in granted
    /\ \A a \in Actions : job[a].state \in Live => a \in granted
    /\ \A w \in Workers, a \in Actions : copy[w][a].state \in Live => a \in granted
    /\ \A w \in Workers, a \in Actions : plan[w][a] = "queued" => a \in granted
    /\ \A w \in Workers : pc[w] \in {"claim", "run", "complete", "fail"} => current[w] \in granted
    /\ \A c \in Clients : req[c].kind = "perform" => req[c].on \in granted

LEMMA InitConsent == Init => Consent
<1> SUFFICES ASSUME Init PROVE Consent
  OBVIOUS
<1>1. \A c \in Clients : req[c].kind = "none"
  BY DEF Init, NoRequest
<1>2. \A w \in Workers, a \in Actions : copy[w][a].state = "clean" /\ plan[w][a] = "keep" /\ pc[w] = "idle"
  BY DEF Init, Clean
<1>3. \A a \in Actions : carried[a] = 0 /\ approval[a] = "none" /\ job[a].state = "none"
  BY DEF Init
<1>4. ApprovalGates
  BY <1>3 DEF ApprovalGates
<1>5. \A a \in Actions : approval[a] # "approved" /\ job[a].state \notin Live
  BY <1>3 DEF Live
<1>6. \A w \in Workers, a \in Actions : copy[w][a].state \notin Live /\ plan[w][a] # "queued"
  BY <1>2 DEF Live
<1>7. \A w \in Workers : pc[w] \notin {"claim", "run", "complete", "fail"}
  BY DEF Init
<1>. QED
  BY <1>1, <1>4, <1>5, <1>6, <1>7 DEF Consent

LEMMA EndPassConsent ==
    ASSUME TypeOK, Consent, NEW w \in Workers, NEW committed \in BOOLEAN,
           EndPass(w, committed), UNCHANGED <<carried, granted>>
    PROVE  Consent'
BY DEF TypeOK, Consent, ApprovalGates, EndPass, Dirty, Clean, Live

LEMMA CloseKeeps ==
    ASSUME TypeOK, NEW c \in Clients, Close(c)
    PROVE  \A d \in Clients : req'[d].kind = "perform" => req[d].kind = "perform" /\ req'[d].on = req[d].on
BY DEF TypeOK, Close, NoRequest

\* Every step keeps consent: only a committed decision grants, and only what is
\* granted is queued, claimed or performed.
LEMMA ConsentStep ==
    ASSUME TypeOK, TypeOK', Consent, [Next]_vars
    PROVE  Consent'
<1> USE DEF TypeOK, Consent, ApprovalGates, Live
<1>1. ASSUME NEW a \in Actions, ExecuteAction(a) PROVE Consent'
  BY <1>1 DEF ExecuteAction, passes, history
<1>2. ASSUME NEW a \in Actions, BackoffEnds(a) PROVE Consent'
  <2>1. job' = [job EXCEPT ![a].due = TRUE] /\ UNCHANGED <<approval, req, passes, history>>
    BY <1>2 DEF BackoffEnds
  <2>2. \A b \in Actions : job'[b].state = job[b].state
    BY <2>1 DEF JobRow
  <2>. QED
    BY <1>2, <2>1, <2>2 DEF passes, history
<1>3. ASSUME NEW c \in Clients, NEW a \in Actions, PerformRead(c, a) PROVE Consent'
  BY <1>3 DEF PerformRead, Open, rows, passes, history
<1>4. ASSUME NEW c \in Clients, NEW a \in Actions, DecideRead(c, a) PROVE Consent'
  <2>1. \A d \in Clients : req'[d].kind = "perform" => req[d].kind = "perform" /\ req'[d].on = req[d].on
    BY <1>4 DEF DecideRead, Open
  <2>2. UNCHANGED <<rows, passes, history>>
    BY <1>4 DEF DecideRead, Open
  <2>. QED
    BY <1>4, <2>1, <2>2 DEF rows, passes, history
<1>5. ASSUME NEW c \in Clients, NEW a \in Actions, CancelRead(c, a) PROVE Consent'
  <2>1. \A d \in Clients : req'[d].kind = "perform" => req[d].kind = "perform" /\ req'[d].on = req[d].on
    BY <1>5 DEF CancelRead, Open
  <2>2. UNCHANGED <<rows, passes, history>>
    BY <1>5 DEF CancelRead, Open
  <2>. QED
    BY <1>5, <2>1, <2>2 DEF rows, passes, history
<1>6. ASSUME NEW c \in Clients, DisconnectRead(c) PROVE Consent'
  <2>1. \A d \in Clients : req'[d].kind = "perform" => req[d].kind = "perform" /\ req'[d].on = req[d].on
    BY <1>6 DEF DisconnectRead, NoRequest
  <2>. QED
    BY <1>6, <2>1 DEF DisconnectRead, passes, history
<1>7. ASSUME NEW c \in Clients, DisconnectCommit(c) PROVE Consent'
  <2>1. \A d \in Clients : req'[d].kind = "perform" => req[d].kind = "perform" /\ req'[d].on = req[d].on
    BY <1>7, CloseKeeps DEF DisconnectCommit
  <2>. QED
    BY <1>7, <2>1 DEF DisconnectCommit, passes, history
<1>8. ASSUME NEW c \in Clients, PerformCall(c) PROVE Consent'
  <2>1. req[c].on \in granted /\ req[c].on \in Actions
    BY <1>8 DEF PerformCall, Request
  <2>2. \A d \in Clients : req'[d].kind = "perform" => req[d].kind = "perform" /\ req'[d].on = req[d].on
    <3>1. CASE req' = [req EXCEPT ![c].step = "called"]
      BY <3>1 DEF Request
    <3>2. CASE Close(c)
      BY <3>2, CloseKeeps
    <3>. QED
      BY <1>8, <3>1, <3>2 DEF PerformCall
  <2>3. \A a \in Actions : carried'[a] > 0 => a \in granted
    BY <1>8, <2>1 DEF PerformCall
  <2>. QED
    BY <1>8, <2>1, <2>2, <2>3 DEF PerformCall, rows, passes
<1>9. ASSUME NEW c \in Clients, PerformCommit(c) PROVE Consent'
  <2>1. \A d \in Clients : req'[d].kind = "perform" => req[d].kind = "perform" /\ req'[d].on = req[d].on
    BY <1>9, CloseKeeps DEF PerformCommit
  <2>2. \A a \in Actions : job'[a].state \in Live => job[a].state \in Live
    BY <1>9 DEF PerformCommit
  <2>. QED
    BY <1>9, <2>1, <2>2 DEF PerformCommit, passes, history
<1>10. ASSUME NEW c \in Clients, DecideCommit(c) PROVE Consent'
  <2>1. \A d \in Clients : req'[d].kind = "perform" => req[d].kind = "perform" /\ req'[d].on = req[d].on
    BY <1>10, CloseKeeps DEF DecideCommit
  <2>. QED
    BY <1>10, <2>1 DEF DecideCommit, passes
<1>11. ASSUME NEW c \in Clients, CancelCommit(c) PROVE Consent'
  <2>1. \A d \in Clients : req'[d].kind = "perform" => req[d].kind = "perform" /\ req'[d].on = req[d].on
    BY <1>11, CloseKeeps DEF CancelCommit
  <2>2. \A a \in Actions : job'[a].state \in Live => job[a].state \in Live
    BY <1>11 DEF CancelCommit
  <2>. QED
    BY <1>11, <2>1, <2>2 DEF CancelCommit, passes, history
<1>12. ASSUME NEW w \in Workers, PromoteRead(w) PROVE Consent'
  BY <1>12 DEF PromoteRead, rows, history
<1>13. ASSUME NEW w \in Workers, PromoteWrite(w) PROVE Consent'
  <2>1. \A a \in Actions : copy'[w][a].state \in Live => plan[w][a] = "queued"
    <3> SUFFICES ASSUME NEW a \in Actions, plan[w][a] # "queued"
                 PROVE  copy'[w][a].state \notin Live
      OBVIOUS
    <3>1. copy'[w][a] = IF plan[w][a] = "cancelled" THEN [job[a] EXCEPT !.state = "cancelled"] ELSE Clean
      BY <1>13 DEF PromoteWrite
    <3>2. [job[a] EXCEPT !.state = "cancelled"].state = "cancelled" /\ Clean.state = "clean"
      BY DEF JobRow, Clean
    <3>. QED
      BY <3>1, <3>2
  <2>2. \A v \in Workers : v # w => copy'[v] = copy[v] /\ pc'[v] = pc[v] /\ plan'[v] = plan[v]
    BY <1>13 DEF PromoteWrite
  <2>3. \A a \in Actions : plan'[w][a] = "keep"
    BY <1>13 DEF PromoteWrite
  <2>4. pc'[w] = "drain" /\ UNCHANGED <<rows, req, current, history>>
    BY <1>13 DEF PromoteWrite
  <2>. QED
    BY <1>13, <2>1, <2>2, <2>3, <2>4 DEF rows, history
<1>14. ASSUME NEW w \in Workers, NEW a \in Actions, ClaimRead(w, a) PROVE Consent'
  BY <1>14 DEF ClaimRead, Runnable, Seen, rows, history
<1>15. ASSUME NEW w \in Workers, ClaimWrite(w) PROVE Consent'
  BY <1>15 DEF ClaimWrite, Seen, rows, history
<1>16. ASSUME NEW w \in Workers, RunJob(w) PROVE Consent'
  <2>1. current[w] \in granted /\ current[w] \in Actions
    BY <1>16 DEF RunJob
  <2>2. \A a \in Actions : carried'[a] > 0 => a \in granted
    BY <1>16, <2>1 DEF RunJob
  <2>3. \A v \in Workers : pc'[v] \in {"claim", "run", "complete", "fail"} => pc[v] \in {"claim", "run", "complete", "fail"}
    BY <1>16 DEF RunJob
  <2>. QED
    BY <1>16, <2>1, <2>2, <2>3 DEF RunJob, rows
<1>17. ASSUME NEW w \in Workers, CompleteJob(w) PROVE Consent'
  <2>1. UNCHANGED history
    BY <1>17 DEF CompleteJob
  <2>2. CASE EndPass(w, FALSE)
    BY <2>1, <2>2, EndPassConsent DEF history
  <2>3. CASE copy' = [copy EXCEPT ![w][current[w]].state = "succeeded"] /\ pc' = [pc EXCEPT ![w] = "drain"] /\ UNCHANGED <<rows, req, current, plan>>
    BY <2>1, <2>3 DEF rows, history
  <2>. QED
    BY <1>17, <2>1, <2>2, <2>3 DEF CompleteJob
<1>18. ASSUME NEW w \in Workers, FailJob(w) PROVE Consent'
  BY <1>18 DEF FailJob, rows, history
<1>19. ASSUME NEW w \in Workers, CommitPass(w) \/ LoseDeadlock(w) PROVE Consent'
  BY <1>19, EndPassConsent DEF CommitPass, LoseDeadlock, history
<1>20. ASSUME Vanish PROVE Consent'
  <2>1. UNCHANGED <<carried, granted>>
    BY <1>20 DEF Vanish
  <2>2. ASSUME NEW c \in Clients, Close(c), UNCHANGED <<rows, passes>> PROVE Consent'
    BY <2>1, <2>2, CloseKeeps DEF rows, passes
  <2>3. ASSUME NEW w \in Workers, EndPass(w, FALSE) PROVE Consent'
    BY <2>1, <2>3, EndPassConsent
  <2>. QED
    BY <1>20, <2>1, <2>2, <2>3 DEF Vanish
<1>21. ASSUME LoseAnswer PROVE Consent'
  <2>1. \E a \in granted \cap Actions : carried' = [carried EXCEPT ![a] = @ + 1]
    BY <1>21 DEF LoseAnswer, Request
  <2>2. \A a \in Actions : carried'[a] > 0 => a \in granted
    BY <2>1
  <2>3. \A d \in Clients : req'[d].kind = "perform" => req[d].kind = "perform" /\ req'[d].on = req[d].on
    BY <1>21, CloseKeeps DEF LoseAnswer
  <2>4. \A w \in Workers : pc'[w] \in {"claim", "run", "complete", "fail"} => pc[w] \in {"claim", "run", "complete", "fail"}
    BY <1>21 DEF LoseAnswer
  <2>. QED
    BY <1>21, <2>1, <2>2, <2>3, <2>4 DEF LoseAnswer, rows
<1>22. ASSUME UNCHANGED vars PROVE Consent'
  BY <1>22 DEF vars, rows, passes, history
<1>. QED
  BY <1>1, <1>2, <1>3, <1>4, <1>5, <1>6, <1>7, <1>8, <1>9, <1>10, <1>11, <1>12, <1>13, <1>14, <1>15, <1>16, <1>17, <1>18, <1>19, <1>20, <1>21, <1>22 DEF Next, Step, Handle, Pass

--------------------------------------------------------------------------------
(* Transactions that work alone *)

WorkedOn == {"queued", "running", "succeeded", "dead_letter"}

\* Wherever an action has been worked on it was granted, and a pass that runs a
\* job has flushed it as running.
Settling ==
    /\ \A a \in Actions : job[a].state \in WorkedOn => a \in granted
    /\ \A w \in Workers, a \in Actions :
         \/ copy[w][a].state \in {"clean", "cancelled"}
         \/ copy[w][a].state \in WorkedOn /\ a \in granted
    /\ \A w \in Workers : pc[w] \in {"run", "complete", "fail"} => copy[w][current[w]].state = "running"
    /\ \A w \in Workers, a \in Actions : pc[w] \in {"idle", "promote"} => copy[w][a].state = "clean"

\* What a transaction that works alone on an action has read still holds.
ReadsHold(a) ==
    /\ \A w \in Workers :
         /\ plan[w][a] # "keep" => job[a].state = "blocked_on_approval"
         /\ a \in Dirty(w) => job[a].state \in {"blocked_on_approval", "queued"}
         /\ pc[w] = "claim" /\ current[w] = a =>
              Seen(w, a).state = "queued" /\ copy[w][a].attempts = Seen(w, a).attempts
    /\ \A c \in Clients : req[c].on = a =>
         /\ req[c].kind \in {"approve", "reject"} => approval[a] = "pending"
         /\ req[c].kind = "cancel" => job[a].state \in {"queued", "running"}
         /\ req[c].kind = "perform" => job[a].state # "succeeded"

\* The attempts of a row agree with its state.
Within(row) ==
    /\ row.attempts <= MaxAttempts
    /\ row.state \in {"none", "blocked_on_approval", "queued"} => row.attempts < MaxAttempts
    /\ row.state = "dead_letter" => row.attempts = MaxAttempts

Counted(a) == Within(job[a]) /\ \A w \in Workers : a \in Dirty(w) => Within(copy[w][a])

\* There is one decision, and the approval reads what it said.
Decided(a) ==
    /\ job[a].state = "none" <=> approval[a] = "none"
    /\ a \in granted => approval[a] = "approved"

\* Some row reads carried out, or will once its transaction ends.
Recorded(a) ==
    \/ job[a].state = "succeeded"
    \/ \E w \in Workers : \/ copy[w][a].state = "succeeded"
                          \/ pc[w] = "complete" /\ current[w] = a
    \/ \E c \in Clients : req[c].kind = "perform" /\ req[c].step = "called" /\ req[c].on = a

Reads(c, a) == req[c].kind = "perform" /\ req[c].step = "read" /\ req[c].on = a

\* Whoever can still carry the action out finds it recorded, but for the faults.
CarriedOnce(a) ==
    /\ carried[a] <= 1 + faults
    /\ connected \/ (\E c \in Clients : Reads(c, a)) => Recorded(a) \/ carried[a] <= faults

Good(a) == ReadsHold(a) /\ Counted(a) /\ Decided(a) /\ CarriedOnce(a)

Alone ==
    /\ Raced \subseteq raced
    /\ Settling
    /\ \A a \in Actions \ raced : Good(a)

LEMMA SettlingStep ==
    ASSUME TypeOK, Consent, Settling, [Next]_vars
    PROVE  Settling'
<1> USE DEF TypeOK, Settling, WorkedOn
<1>1. ASSUME NEW a \in Actions, ExecuteAction(a) PROVE Settling'
  BY <1>1 DEF ExecuteAction, passes, history
<1>2. ASSUME NEW a \in Actions, BackoffEnds(a) PROVE Settling'
  <2>1. \A b \in Actions : job'[b].state = job[b].state
    BY <1>2 DEF BackoffEnds, JobRow
  <2>. QED
    BY <1>2, <2>1 DEF BackoffEnds, passes, history
<1>3. ASSUME NEW c \in Clients, NEW a \in Actions, PerformRead(c, a) \/ DecideRead(c, a) \/ CancelRead(c, a) PROVE Settling'
  BY <1>3 DEF PerformRead, DecideRead, CancelRead, Open, rows, passes, history
<1>4. ASSUME NEW c \in Clients, DisconnectRead(c) \/ DisconnectCommit(c) PROVE Settling'
  BY <1>4 DEF DisconnectRead, DisconnectCommit, passes, history
<1>5. ASSUME NEW c \in Clients, PerformCall(c) PROVE Settling'
  BY <1>5 DEF PerformCall, rows, passes
<1>6. ASSUME NEW c \in Clients, PerformCommit(c) PROVE Settling'
  <2>1. req[c].on \in granted
    BY <1>6 DEF PerformCommit, Consent
  <2>. QED
    BY <1>6, <2>1 DEF PerformCommit, passes, history
<1>7. ASSUME NEW c \in Clients, DecideCommit(c) PROVE Settling'
  BY <1>7 DEF DecideCommit, passes
<1>8. ASSUME NEW c \in Clients, CancelCommit(c) PROVE Settling'
  BY <1>8 DEF CancelCommit, passes, history
<1>9. ASSUME NEW w \in Workers, PromoteRead(w) PROVE Settling'
  BY <1>9 DEF PromoteRead, rows, history
<1>10. ASSUME NEW w \in Workers, PromoteWrite(w) PROVE Settling'
  <2> HIDE DEF Settling
  <2>1. \A b \in Actions : plan[w][b] = "queued" => b \in granted
    BY DEF Consent
  <2>2. \A b \in Actions : plan[w][b] \in {"keep", "queued", "cancelled"}
    OBVIOUS
  <2>7. \A b \in Actions :
          /\ plan[w][b] = "queued" => copy'[w][b] = [job[b] EXCEPT !.state = "queued", !.due = TRUE]
          /\ plan[w][b] = "cancelled" => copy'[w][b] = [job[b] EXCEPT !.state = "cancelled"]
          /\ plan[w][b] = "keep" => copy'[w][b] = Clean
    BY <1>10 DEF PromoteWrite
  <2>4. \A b \in Actions : \/ copy'[w][b].state \in {"clean", "cancelled"}
                           \/ copy'[w][b].state \in WorkedOn /\ b \in granted
    <3> SUFFICES ASSUME NEW b \in Actions
                 PROVE  \/ copy'[w][b].state \in {"clean", "cancelled"}
                        \/ copy'[w][b].state = "queued" /\ b \in granted
      BY DEF WorkedOn
    <3>1. CASE plan[w][b] = "keep"
      <4>1. copy'[w][b] = Clean
        BY <2>7, <3>1
      <4>. QED
        BY <4>1 DEF Clean
    <3>2. CASE plan[w][b] = "queued"
      <4>1. copy'[w][b] = [job[b] EXCEPT !.state = "queued", !.due = TRUE] /\ job[b] \in JobRow
        BY <2>7, <3>2
      <4>. QED
        BY <2>1, <3>2, <4>1 DEF JobRow
    <3>3. CASE plan[w][b] = "cancelled"
      <4>1. copy'[w][b] = [job[b] EXCEPT !.state = "cancelled"] /\ job[b] \in JobRow
        BY <2>7, <3>3
      <4>. QED
        BY <4>1 DEF JobRow
    <3>. QED
      BY <2>2, <3>1, <3>2, <3>3
  <2>5. \A v \in Workers : v # w => copy'[v] = copy[v] /\ pc'[v] = pc[v]
    BY <1>10 DEF PromoteWrite
  <2>6. pc'[w] = "drain" /\ UNCHANGED <<job, current, granted>>
    BY <1>10 DEF PromoteWrite, rows, history
  <2>. QED
    <3>1. \A b \in Actions : job'[b].state \in WorkedOn => b \in granted'
      BY <2>6 DEF Settling
    <3>2. ASSUME NEW v \in Workers
          PROVE  /\ \A b \in Actions : \/ copy'[v][b].state \in {"clean", "cancelled"}
                                       \/ copy'[v][b].state \in WorkedOn /\ b \in granted'
                 /\ pc'[v] \in {"run", "complete", "fail"} => copy'[v][current'[v]].state = "running"
                 /\ pc'[v] \in {"idle", "promote"} => \A b \in Actions : copy'[v][b].state = "clean"
      <4>1. CASE v = w
        BY <2>4, <2>6, <4>1
      <4>2. CASE v # w
        BY <2>5, <2>6, <4>2 DEF Settling
      <4>. QED
        BY <4>1, <4>2
    <3>. QED
      BY <3>1, <3>2 DEF Settling
<1>11. ASSUME NEW w \in Workers, NEW a \in Actions, ClaimRead(w, a) PROVE Settling'
  BY <1>11 DEF ClaimRead, rows, history
<1>12. ASSUME NEW w \in Workers, ClaimWrite(w) PROVE Settling'
  <2>1. current[w] \in granted
    BY <1>12 DEF ClaimWrite, Consent
  <2>. QED
    BY <1>12, <2>1 DEF ClaimWrite, rows, history
<1>13. ASSUME NEW w \in Workers, RunJob(w) PROVE Settling'
  BY <1>13 DEF RunJob, rows
<1>14. ASSUME NEW w \in Workers, NEW committed \in BOOLEAN, EndPass(w, committed), UNCHANGED granted PROVE Settling'
  BY <1>14 DEF EndPass, Dirty, Clean
<1>15. ASSUME NEW w \in Workers, CompleteJob(w) PROVE Settling'
  <2>1. CASE EndPass(w, FALSE)
    BY <1>14, <1>15, <2>1 DEF CompleteJob, history
  <2>2. CASE /\ copy' = [copy EXCEPT ![w][current[w]].state = "succeeded"]
             /\ pc' = [pc EXCEPT ![w] = "drain"]
             /\ UNCHANGED <<rows, req, current, plan>>
    <3>1. current[w] \in granted
      BY <1>15 DEF CompleteJob, Consent
    <3>. QED
      BY <1>15, <2>2, <3>1 DEF CompleteJob, rows, history
  <2>. QED
    BY <1>15, <2>1, <2>2 DEF CompleteJob
<1>16. ASSUME NEW w \in Workers, FailJob(w) PROVE Settling'
  BY <1>16 DEF FailJob, rows, history
<1>17. ASSUME NEW w \in Workers, CommitPass(w) \/ LoseDeadlock(w) PROVE Settling'
  BY <1>14, <1>17 DEF CommitPass, LoseDeadlock, history
<1>18. ASSUME Vanish PROVE Settling'
  <2>1. UNCHANGED granted
    BY <1>18 DEF Vanish
  <2>2. CASE UNCHANGED <<rows, passes>>
    BY <2>1, <2>2 DEF rows, passes
  <2>3. ASSUME NEW w \in Workers, EndPass(w, FALSE) PROVE Settling'
    BY <1>14, <2>1, <2>3
  <2>. QED
    BY <1>18, <2>2, <2>3 DEF Vanish
<1>19. ASSUME LoseAnswer PROVE Settling'
  BY <1>19 DEF LoseAnswer, rows
<1>20. ASSUME UNCHANGED vars PROVE Settling'
  BY <1>20 DEF vars, rows, passes, history
<1>. QED
  BY <1>1, <1>2, <1>3, <1>4, <1>5, <1>6, <1>7, <1>8, <1>9, <1>10, <1>11, <1>12, <1>13, <1>15, <1>16, <1>17, <1>18, <1>19, <1>20 DEF Next, Step, Handle, Pass

LEMMA Solo ==
    ASSUME NEW a \in Actions, a \notin Raced
    PROVE  /\ \A c, d \in Clients : Busy(c, a) /\ Busy(d, a) => c = d
           /\ \A w \in Workers : a \in WorksOn(w) =>
                /\ ~Stuck(w)
                /\ \A c \in Clients : ~Busy(c, a)
                /\ \A v \in Workers : a \in WorksOn(v) => v = w
BY DEF Raced

LEMMA CloseLeaves ==
    ASSUME TypeOK, NEW c \in Clients, Close(c)
    PROVE  \A d \in Clients : /\ d # c => req'[d] = req[d]
                              /\ req'[d].kind # "none" => d # c
BY DEF TypeOK, Close, NoRequest

\* A request that ends leaves every other as it was.
LEMMA ClosedReads ==
    ASSUME TypeOK, NEW a \in Actions, ReadsHold(a), NEW c \in Clients, Close(c),
           UNCHANGED passes, job'[a] = job[a], approval'[a] = approval[a]
    PROVE  ReadsHold(a)'
<1>1. \A w \in Workers : (a \in Dirty(w))' <=> a \in Dirty(w)
  BY DEF Dirty, passes
<1>2. \A w \in Workers : Seen(w, a)' = Seen(w, a)
  BY <1>1 DEF Seen, passes
<1>3. UNCHANGED <<pc, current, plan, copy>>
  BY DEF passes
<1>4. \A d \in Clients : req'[d].kind # "none" => req'[d] = req[d]
  BY CloseLeaves
<1>. QED
  BY <1>1, <1>2, <1>3, <1>4 DEF ReadsHold, Busy

\* A request that may still carry the action out has found it unrecorded.
LEMMA UnrecordedRead ==
    ASSUME TypeOK, Settling, NEW a \in Actions, a \notin Raced, Good(a), NEW c \in Clients, Reads(c, a)
    PROVE  carried[a] <= faults
<1> USE DEF TypeOK, Good
<1>1. \A d \in Clients : ~(req[d].kind = "perform" /\ req[d].step = "called" /\ req[d].on = a)
  BY Solo DEF Reads, Busy
<1>2. \A w \in Workers : a \notin WorksOn(w)
  BY Solo DEF Reads, Busy
<1>3. \A w \in Workers : copy[w][a].state # "succeeded" /\ ~(pc[w] = "complete" /\ current[w] = a)
  BY <1>2 DEF WorksOn, Dirty, Settling
<1>4. job[a].state # "succeeded"
  BY DEF Reads, ReadsHold
<1>5. ~Recorded(a)
  BY <1>1, <1>3, <1>4 DEF Recorded
<1>. QED
  BY <1>5 DEF CarriedOnce

\* So has a pass that is about to.
LEMMA UnrecordedRun ==
    ASSUME TypeOK, Settling, NEW a \in Actions, a \notin Raced, Good(a),
           NEW w \in Workers, pc[w] = "run", current[w] = a, connected
    PROVE  carried[a] <= faults /\ job[a].state # "succeeded"
<1> USE DEF TypeOK, Good
<1>1. copy[w][a].state = "running" /\ a \in WorksOn(w)
  BY DEF Settling, WorksOn, Dirty
<1>2. \A d \in Clients : ~Busy(d, a)
  BY <1>1, Solo
<1>3. \A v \in Workers : v # w => a \notin WorksOn(v)
  BY <1>1, Solo
<1>4. \A v \in Workers : copy[v][a].state # "succeeded"
  BY <1>1, <1>3 DEF WorksOn, Dirty
<1>5. ASSUME NEW v \in Workers, pc[v] = "complete", current[v] = a PROVE FALSE
  <2>1. copy[v][a].state = "running" /\ v # w
    BY <1>5 DEF Settling
  <2>. QED
    BY <1>3, <2>1 DEF WorksOn, Dirty
<1>6. job[a].state # "succeeded"
  BY <1>1 DEF ReadsHold, Dirty
<1>7. ~Recorded(a)
  BY <1>2, <1>4, <1>5, <1>6 DEF Recorded, Busy
<1>. QED
  BY <1>6, <1>7 DEF CarriedOnce

\* A fault may take a record back, and pays for it.
LEMMA FaultPays ==
    ASSUME TypeOK, NEW a \in Actions, CarriedOnce(a), faults' = faults + 1, UNCHANGED carried
    PROVE  CarriedOnce(a)'
BY DEF TypeOK, CarriedOnce

LEMMA AtTheBound ==
    ASSUME NEW n \in Nat, n <= MaxAttempts, n >= MaxAttempts
    PROVE  n = MaxAttempts
BY GatewayAssumption

LEMMA ExecuteActionGood ==
    ASSUME TypeOK, Consent, Settling, NEW a \in Actions, a \notin Raced, Good(a), NEW b \in Actions, ExecuteAction(b)
    PROVE  Good(a)'
<1> USE Solo, CloseLeaves, GatewayAssumption DEF TypeOK, Good, Settling, WorkedOn
<1>1. ReadsHold(a)'
  BY DEF ReadsHold, Dirty, Seen, Busy, WorksOn, JobRow, Copy, Request, ExecuteAction, passes, history
<1>2. Counted(a)'
  BY DEF Counted, ReadsHold, Within, Dirty, Seen, WorksOn, Busy, JobRow, Copy, Request, ExecuteAction, passes, history
<1>3. Decided(a)'
  BY DEF Decided, ReadsHold, Consent, Dirty, WorksOn, Busy, JobRow, Copy, Request, ExecuteAction, passes, history
<1>4. CarriedOnce(a)'
  BY DEF CarriedOnce, Recorded, Reads, ReadsHold, Decided, Dirty, WorksOn, Busy, Seen, JobRow, Copy, Request, ExecuteAction, passes, history
<1>. QED
  BY <1>1, <1>2, <1>3, <1>4

LEMMA BackoffEndsGood ==
    ASSUME TypeOK, Consent, Settling, NEW a \in Actions, a \notin Raced, Good(a), NEW b \in Actions, BackoffEnds(b)
    PROVE  Good(a)'
<1> USE Solo, CloseLeaves, GatewayAssumption DEF TypeOK, Good, Settling, WorkedOn
<1>1. ReadsHold(a)'
  BY DEF ReadsHold, Dirty, Seen, Busy, WorksOn, JobRow, Copy, Request, BackoffEnds, passes, history
<1>2. Counted(a)'
  BY DEF Counted, ReadsHold, Within, Dirty, Seen, WorksOn, Busy, JobRow, Copy, Request, BackoffEnds, passes, history
<1>3. Decided(a)'
  BY DEF Decided, ReadsHold, Consent, Dirty, WorksOn, Busy, JobRow, Copy, Request, BackoffEnds, passes, history
<1>4. CarriedOnce(a)'
  BY DEF CarriedOnce, Recorded, Reads, ReadsHold, Decided, Dirty, WorksOn, Busy, Seen, JobRow, Copy, Request, BackoffEnds, passes, history
<1>. QED
  BY <1>1, <1>2, <1>3, <1>4

LEMMA PerformReadGood ==
    ASSUME TypeOK, Consent, Settling, NEW a \in Actions, a \notin Raced, Good(a), NEW c \in Clients, NEW b \in Actions, PerformRead(c, b)
    PROVE  Good(a)'
<1> USE Solo, CloseLeaves, GatewayAssumption DEF TypeOK, Good, Settling, WorkedOn
<1>1. ReadsHold(a)'
  BY DEF ReadsHold, Dirty, Seen, Busy, WorksOn, JobRow, Copy, Request, PerformRead, Open, rows, passes, history
<1>2. Counted(a)'
  BY DEF Counted, ReadsHold, Within, Dirty, Seen, WorksOn, Busy, JobRow, Copy, Request, PerformRead, Open, rows, passes, history
<1>3. Decided(a)'
  BY DEF Decided, ReadsHold, Consent, Dirty, WorksOn, Busy, JobRow, Copy, Request, PerformRead, Open, rows, passes, history
<1>4. CarriedOnce(a)'
  BY DEF CarriedOnce, Recorded, Reads, ReadsHold, Decided, Dirty, WorksOn, Busy, Seen, JobRow, Copy, Request, PerformRead, Open, rows, passes, history
<1>. QED
  BY <1>1, <1>2, <1>3, <1>4

LEMMA DecideReadGood ==
    ASSUME TypeOK, Consent, Settling, NEW a \in Actions, a \notin Raced, Good(a), NEW c \in Clients, NEW b \in Actions, DecideRead(c, b)
    PROVE  Good(a)'
<1> USE Solo, CloseLeaves, GatewayAssumption DEF TypeOK, Good, Settling, WorkedOn
<1>1. ReadsHold(a)'
  BY DEF ReadsHold, Dirty, Seen, Busy, WorksOn, JobRow, Copy, Request, DecideRead, Open, rows, passes, history
<1>2. Counted(a)'
  BY DEF Counted, ReadsHold, Within, Dirty, Seen, WorksOn, Busy, JobRow, Copy, Request, DecideRead, Open, rows, passes, history
<1>3. Decided(a)'
  BY DEF Decided, ReadsHold, Consent, Dirty, WorksOn, Busy, JobRow, Copy, Request, DecideRead, Open, rows, passes, history
<1>4. CarriedOnce(a)'
  BY DEF CarriedOnce, Recorded, Reads, ReadsHold, Decided, Dirty, WorksOn, Busy, Seen, JobRow, Copy, Request, DecideRead, Open, rows, passes, history
<1>. QED
  BY <1>1, <1>2, <1>3, <1>4

LEMMA CancelReadGood ==
    ASSUME TypeOK, Consent, Settling, NEW a \in Actions, a \notin Raced, Good(a), NEW c \in Clients, NEW b \in Actions, CancelRead(c, b)
    PROVE  Good(a)'
<1> USE Solo, CloseLeaves, GatewayAssumption DEF TypeOK, Good, Settling, WorkedOn
<1>1. ReadsHold(a)'
  BY DEF ReadsHold, Dirty, Seen, Busy, WorksOn, JobRow, Copy, Request, CancelRead, Open, rows, passes, history
<1>2. Counted(a)'
  BY DEF Counted, ReadsHold, Within, Dirty, Seen, WorksOn, Busy, JobRow, Copy, Request, CancelRead, Open, rows, passes, history
<1>3. Decided(a)'
  BY DEF Decided, ReadsHold, Consent, Dirty, WorksOn, Busy, JobRow, Copy, Request, CancelRead, Open, rows, passes, history
<1>4. CarriedOnce(a)'
  BY DEF CarriedOnce, Recorded, Reads, ReadsHold, Decided, Dirty, WorksOn, Busy, Seen, JobRow, Copy, Request, CancelRead, Open, rows, passes, history
<1>. QED
  BY <1>1, <1>2, <1>3, <1>4

LEMMA DisconnectReadGood ==
    ASSUME TypeOK, Consent, Settling, NEW a \in Actions, a \notin Raced, Good(a), NEW c \in Clients, DisconnectRead(c)
    PROVE  Good(a)'
<1> USE Solo, CloseLeaves, GatewayAssumption DEF TypeOK, Good, Settling, WorkedOn
<1>1. ReadsHold(a)'
  BY DEF ReadsHold, Dirty, Seen, Busy, WorksOn, JobRow, Copy, Request, DisconnectRead, NoRequest, passes, history
<1>2. Counted(a)'
  BY DEF Counted, ReadsHold, Within, Dirty, Seen, WorksOn, Busy, JobRow, Copy, Request, DisconnectRead, NoRequest, passes, history
<1>3. Decided(a)'
  BY DEF Decided, ReadsHold, Consent, Dirty, WorksOn, Busy, JobRow, Copy, Request, DisconnectRead, NoRequest, passes, history
<1>4. CarriedOnce(a)'
  BY DEF CarriedOnce, Recorded, Reads, ReadsHold, Decided, Dirty, WorksOn, Busy, Seen, JobRow, Copy, Request, DisconnectRead, NoRequest, passes, history
<1>. QED
  BY <1>1, <1>2, <1>3, <1>4

LEMMA DisconnectCommitGood ==
    ASSUME TypeOK, Consent, Settling, NEW a \in Actions, a \notin Raced, Good(a), NEW c \in Clients, DisconnectCommit(c)
    PROVE  Good(a)'
<1> USE Solo, GatewayAssumption DEF TypeOK, Good
<1>1. ReadsHold(a)'
  BY ClosedReads DEF DisconnectCommit
<1>2. Counted(a)'
  BY DEF Counted, Within, Dirty, DisconnectCommit, passes
<1>3. Decided(a)'
  BY DEF Decided, DisconnectCommit, history
<1>4. CarriedOnce(a)'
  <2>1. \A d \in Clients : req'[d].kind # "none" => req'[d] = req[d]
    BY CloseLeaves DEF DisconnectCommit
  <2>2. Recorded(a) => Recorded(a)'
    <3>1. \A d \in Clients : req[d].kind = "perform" => req'[d] = req[d]
      BY CloseLeaves DEF DisconnectCommit
    <3>. QED
      BY <3>1 DEF Recorded, DisconnectCommit, passes
  <2>3. \A d \in Clients : Reads(d, a)' => Reads(d, a)
    BY <2>1 DEF Reads
  <2>. QED
    BY <2>2, <2>3 DEF CarriedOnce, DisconnectCommit, history
<1>. QED
  BY <1>1, <1>2, <1>3, <1>4

LEMMA PerformCallGood ==
    ASSUME TypeOK, Consent, Settling, NEW a \in Actions, a \notin Raced, Good(a), NEW c \in Clients, PerformCall(c)
    PROVE  Good(a)'
<1> USE Solo, GatewayAssumption DEF TypeOK, Good
<1>0. UNCHANGED <<rows, passes, granted, faults>>
  BY DEF PerformCall
<1>1. ReadsHold(a)'
  <2>1. CASE Close(c)
    BY <1>0, <2>1, ClosedReads DEF rows
  <2>2. CASE req' = [req EXCEPT ![c].step = "called"]
    BY <1>0, <2>2 DEF ReadsHold, Dirty, Seen, Request, rows, passes
  <2>. QED
    BY <2>1, <2>2 DEF PerformCall
<1>2. Counted(a)'
  BY <1>0 DEF Counted, Within, Dirty, rows, passes
<1>3. Decided(a)'
  BY <1>0 DEF Decided, rows
<1>4. CarriedOnce(a)'
  <2>1. CASE Close(c)
    <3>1. \A d \in Clients : d # c => req'[d] = req[d]
      BY <2>1, CloseLeaves
    <3>2. Recorded(a) => Recorded(a)'
      BY <1>0, <3>1 DEF Recorded, PerformCall, rows, passes
    <3>3. \A d \in Clients : Reads(d, a)' => Reads(d, a)
      BY <2>1, CloseLeaves DEF Reads
    <3>4. carried' = carried
      BY <2>1, CloseLeaves DEF PerformCall, Request
    <3>. QED
      BY <1>0, <3>2, <3>3, <3>4 DEF CarriedOnce, rows
  <2>2. ASSUME req' = [req EXCEPT ![c].step = "called"], carried' = [carried EXCEPT ![req[c].on] = @ + 1], req[c].on = a
        PROVE CarriedOnce(a)'
    <3>1. Recorded(a)'
      BY <2>2 DEF PerformCall, Recorded, Request
    <3>2. Reads(c, a)
      BY <2>2 DEF PerformCall, Reads
    <3>3. carried[a] <= faults
      BY <3>2, UnrecordedRead
    <3>. QED
      BY <1>0, <2>2, <3>1, <3>3 DEF CarriedOnce
  <2>3. ASSUME req' = [req EXCEPT ![c].step = "called"], carried' = [carried EXCEPT ![req[c].on] = @ + 1], req[c].on # a
        PROVE CarriedOnce(a)'
    <3>1. carried'[a] = carried[a]
      BY <2>3 DEF Request
    <3>2. Recorded(a) => Recorded(a)'
      BY <1>0, <2>3 DEF Recorded, Request, rows, passes
    <3>3. \A d \in Clients : Reads(d, a)' => Reads(d, a)
      BY <2>3 DEF Reads, Request
    <3>. QED
      BY <1>0, <3>1, <3>2, <3>3 DEF CarriedOnce, rows
  <2>. QED
    BY <2>1, <2>2, <2>3 DEF PerformCall
<1>. QED
  BY <1>1, <1>2, <1>3, <1>4

LEMMA PerformCommitGood ==
    ASSUME TypeOK, Consent, Settling, NEW a \in Actions, a \notin Raced, Good(a), NEW c \in Clients, PerformCommit(c)
    PROVE  Good(a)'
<1> USE Solo, GatewayAssumption DEF TypeOK, Good
<1>0. /\ UNCHANGED <<approval, connected, passes, carried, granted, faults>>
      /\ Close(c) /\ req[c].on \in Actions /\ req[c].kind = "perform" /\ req[c].step = "called"
  BY DEF PerformCommit, Request, history
<1>1. CASE req[c].on # a
  <2>1. job'[a] = job[a]
    BY <1>0, <1>1 DEF PerformCommit
  <2>2. ReadsHold(a)'
    BY <1>0, <2>1, ClosedReads
  <2>3. Counted(a)' /\ Decided(a)'
    BY <1>0, <2>1 DEF Counted, Within, Decided, Dirty, passes
  <2>4. \A d \in Clients : d # c => req'[d] = req[d]
    BY <1>0, CloseLeaves
  <2>5. Recorded(a) => Recorded(a)'
    BY <1>0, <1>1, <2>1, <2>4 DEF Recorded, passes
  <2>6. \A d \in Clients : Reads(d, a)' => Reads(d, a)
    BY <1>0, CloseLeaves DEF Reads
  <2>. QED
    BY <1>0, <2>1, <2>2, <2>3, <2>5, <2>6 DEF CarriedOnce
<1>2. CASE req[c].on = a
  <2>1. Busy(c, a)
    BY <1>0, <1>2 DEF Busy
  <2>2. \A d \in Clients : d # c => ~Busy(d, a)
    BY <2>1
  <2>3. \A w \in Workers : a \notin WorksOn(w)
    BY <2>1
  <2>4. \A d \in Clients : req'[d].kind = "none" \/ req'[d].kind = "disconnect" \/ req'[d].on # a
    BY <1>0, <2>2, CloseLeaves DEF Busy
  <2>5. job'[a].state = IF connected THEN "succeeded" ELSE job[a].state
    BY <1>2 DEF PerformCommit, JobRow
  <2>6. job'[a].attempts = job[a].attempts
    BY <1>2 DEF PerformCommit, JobRow
  <2>7. a \in granted /\ job[a].state # "none"
    BY <1>0, <1>2 DEF Consent, Decided
  <2>8. ReadsHold(a)'
    BY <1>0, <2>3, <2>4 DEF ReadsHold, WorksOn, Dirty, passes
  <2>9. Counted(a)'
    BY <1>0, <2>5, <2>6, <2>3 DEF Counted, Within, WorksOn, Dirty, passes
  <2>10. Decided(a)'
    BY <1>0, <2>5, <2>7 DEF Decided
  <2>11. connected => Recorded(a)'
    BY <2>5 DEF Recorded
  <2>12. \A d \in Clients : ~Reads(d, a)'
    BY <2>4 DEF Reads
  <2>13. carried[a] <= 1 + faults
    BY DEF CarriedOnce
  <2>. QED
    BY <1>0, <2>8, <2>9, <2>10, <2>11, <2>12, <2>13 DEF CarriedOnce
<1>. QED
  BY <1>1, <1>2

LEMMA CancelCommitGood ==
    ASSUME TypeOK, Consent, Settling, NEW a \in Actions, a \notin Raced, Good(a), NEW c \in Clients, CancelCommit(c)
    PROVE  Good(a)'
<1> USE Solo, GatewayAssumption DEF TypeOK, Good
<1>0. /\ UNCHANGED <<approval, connected, passes, carried, granted, faults>>
      /\ Close(c) /\ req[c].on \in Actions /\ req[c].kind = "cancel"
  BY DEF CancelCommit, Request, history
<1>1. CASE req[c].on # a
  <2>1. job'[a] = job[a]
    BY <1>0, <1>1 DEF CancelCommit
  <2>2. ReadsHold(a)'
    BY <1>0, <2>1, ClosedReads
  <2>3. Counted(a)' /\ Decided(a)'
    BY <1>0, <2>1 DEF Counted, Within, Decided, Dirty, passes
  <2>4. \A d \in Clients : d # c => req'[d] = req[d]
    BY <1>0, CloseLeaves
  <2>5. Recorded(a) => Recorded(a)'
    BY <1>0, <1>1, <2>1, <2>4 DEF Recorded, passes
  <2>6. \A d \in Clients : Reads(d, a)' => Reads(d, a)
    BY <1>0, CloseLeaves DEF Reads
  <2>. QED
    BY <1>0, <2>1, <2>2, <2>3, <2>5, <2>6 DEF CarriedOnce
<1>2. CASE req[c].on = a
  <2>1. Busy(c, a)
    BY <1>0, <1>2 DEF Busy
  <2>2. \A d \in Clients : d # c => ~Busy(d, a)
    BY <2>1
  <2>3. \A w \in Workers : a \notin WorksOn(w)
    BY <2>1
  <2>4. \A d \in Clients : req'[d].kind = "none" \/ req'[d].kind = "disconnect" \/ req'[d].on # a
    BY <1>0, <2>2, CloseLeaves DEF Busy
  <2>5. job'[a].state = "cancelled" /\ job'[a].attempts = job[a].attempts
    BY <1>2 DEF CancelCommit, JobRow
  <2>6. job[a].state \in {"queued", "running"}
    BY <1>0, <1>2 DEF ReadsHold
  <2>7. ~Recorded(a)
    BY <1>0, <1>2, <2>1, <2>2, <2>3, <2>6 DEF Recorded, WorksOn, Dirty, Settling, Busy
  <2>8. ReadsHold(a)'
    BY <1>0, <2>3, <2>4 DEF ReadsHold, WorksOn, Dirty, passes
  <2>9. Counted(a)'
    BY <1>0, <2>5, <2>3 DEF Counted, Within, WorksOn, Dirty, passes
  <2>10. Decided(a)'
    BY <1>0, <2>5, <2>6 DEF Decided
  <2>12. \A d \in Clients : ~Reads(d, a)'
    BY <2>4 DEF Reads
  <2>. QED
    BY <1>0, <2>7, <2>8, <2>9, <2>10, <2>12 DEF CarriedOnce
<1>. QED
  BY <1>1, <1>2

LEMMA DecideCommitGood ==
    ASSUME TypeOK, Consent, Settling, NEW a \in Actions, a \notin Raced, Good(a), NEW c \in Clients, DecideCommit(c)
    PROVE  Good(a)'
<1> USE Solo, GatewayAssumption DEF TypeOK, Good
<1>0. /\ UNCHANGED <<job, connected, passes, carried, faults>>
      /\ Close(c) /\ req[c].on \in Actions /\ req[c].kind \in {"approve", "reject"}
  BY DEF DecideCommit, Request
<1>3. CarriedOnce(a)'
  <2>1. \A d \in Clients : req[d].kind = "perform" => req'[d] = req[d]
    BY <1>0, CloseLeaves
  <2>2. Recorded(a) => Recorded(a)'
    BY <1>0, <2>1 DEF Recorded, passes
  <2>3. \A d \in Clients : Reads(d, a)' => Reads(d, a)
    BY <1>0, CloseLeaves DEF Reads
  <2>. QED
    BY <1>0, <2>2, <2>3 DEF CarriedOnce
<1>1. CASE req[c].on # a
  <2>1. approval'[a] = approval[a] /\ (a \in granted' <=> a \in granted)
    BY <1>0, <1>1 DEF DecideCommit
  <2>2. ReadsHold(a)'
    BY <1>0, <2>1, ClosedReads
  <2>3. Counted(a)' /\ Decided(a)'
    BY <1>0, <2>1 DEF Counted, Within, Decided, Dirty, passes
  <2>. QED
    BY <2>2, <2>3, <1>3
<1>2. CASE req[c].on = a
  <2>1. Busy(c, a)
    BY <1>0, <1>2 DEF Busy
  <2>2. \A d \in Clients : d # c => ~Busy(d, a)
    BY <2>1
  <2>4. \A d \in Clients : req'[d].kind = "none" \/ req'[d].kind = "disconnect" \/ req'[d].on # a
    BY <1>0, <2>2, CloseLeaves DEF Busy
  <2>5. approval[a] = "pending"
    BY <1>0, <1>2 DEF ReadsHold
  <2>6. ReadsHold(a)'
    BY <1>0, <2>4 DEF ReadsHold, Seen, Dirty, passes
  <2>7. Counted(a)'
    BY <1>0 DEF Counted, Within, Dirty, passes
  <2>8. Decided(a)'
    BY <1>0, <1>2, <2>5 DEF Decided, DecideCommit
  <2>. QED
    BY <2>6, <2>7, <2>8, <1>3
<1>. QED
  BY <1>1, <1>2

LEMMA PromoteReadGood ==
    ASSUME TypeOK, Consent, Settling, NEW a \in Actions, a \notin Raced, Good(a), NEW w \in Workers, PromoteRead(w)
    PROVE  Good(a)'
<1> USE Solo, CloseLeaves, GatewayAssumption DEF TypeOK, Good, Settling, WorkedOn
<1>1. ReadsHold(a)'
  BY DEF ReadsHold, Dirty, Seen, Busy, WorksOn, JobRow, Copy, Request, PromoteRead, rows, history
<1>2. Counted(a)'
  BY DEF Counted, ReadsHold, Within, Dirty, Seen, WorksOn, Busy, JobRow, Copy, Request, PromoteRead, rows, history
<1>3. Decided(a)'
  BY DEF Decided, ReadsHold, Consent, Dirty, WorksOn, Busy, JobRow, Copy, Request, PromoteRead, rows, history
<1>4. CarriedOnce(a)'
  BY DEF CarriedOnce, Recorded, Reads, ReadsHold, Decided, Dirty, WorksOn, Busy, Seen, JobRow, Copy, Request, PromoteRead, rows, history
<1>. QED
  BY <1>1, <1>2, <1>3, <1>4

LEMMA PromoteWriteGood ==
    ASSUME TypeOK, Consent, Settling, NEW a \in Actions, a \notin Raced, Good(a), NEW w \in Workers, PromoteWrite(w)
    PROVE  Good(a)'
<1> USE GatewayAssumption DEF TypeOK, Good
<1>0. /\ UNCHANGED <<job, approval, connected, req, current, carried, granted, faults>>
      /\ pc[w] = "promote" /\ pc' = [pc EXCEPT ![w] = "drain"]
      /\ plan' = [plan EXCEPT ![w] = [b \in Actions |-> "keep"]]
      /\ \A v \in Workers : v # w => copy'[v] = copy[v] /\ pc'[v] = pc[v] /\ plan'[v] = plan[v]
  BY DEF PromoteWrite, rows, history
<1>1. \/ plan[w][a] = "keep" /\ copy'[w][a] = Clean
      \/ plan[w][a] = "queued" /\ copy'[w][a] = [job[a] EXCEPT !.state = "queued", !.due = TRUE]
      \/ plan[w][a] = "cancelled" /\ copy'[w][a] = [job[a] EXCEPT !.state = "cancelled"]
  <2>1. plan[w][a] \in {"keep", "queued", "cancelled"}
    OBVIOUS
  <2>. QED
    BY <2>1 DEF PromoteWrite
<1>2. job[a] \in JobRow /\ plan'[w][a] = "keep" /\ pc'[w] = "drain"
  BY <1>0
<1>3. \/ plan[w][a] = "keep" /\ copy'[w][a].state = "clean"
      \/ plan[w][a] # "keep" /\ copy'[w][a].state \in {"queued", "cancelled"} /\ copy'[w][a].attempts = job[a].attempts
  <2>1. CASE plan[w][a] = "keep" /\ copy'[w][a] = Clean
    BY <2>1 DEF Clean
  <2>2. CASE plan[w][a] = "queued" /\ copy'[w][a] = [job[a] EXCEPT !.state = "queued", !.due = TRUE]
    BY <1>2, <2>2 DEF JobRow
  <2>3. CASE plan[w][a] = "cancelled" /\ copy'[w][a] = [job[a] EXCEPT !.state = "cancelled"]
    BY <1>2, <2>3 DEF JobRow
  <2>. QED
    BY <1>1, <2>1, <2>2, <2>3
<1>4. plan[w][a] # "keep" => job[a].state = "blocked_on_approval"
  BY DEF ReadsHold
<1>5. ASSUME NEW v \in Workers, v # w PROVE Seen(v, a)' = Seen(v, a) /\ ((a \in Dirty(v))' <=> a \in Dirty(v)) /\ copy'[v] = copy[v] /\ pc'[v] = pc[v] /\ plan'[v] = plan[v]
  BY <1>0, <1>5 DEF Seen, Dirty
<1>6. ReadsHold(a)'
  <2>1. ASSUME NEW v \in Workers
        PROVE  /\ plan'[v][a] # "keep" => job'[a].state = "blocked_on_approval"
               /\ (a \in Dirty(v))' => job'[a].state \in {"blocked_on_approval", "queued"}
               /\ pc'[v] = "claim" /\ current'[v] = a =>
                    Seen(v, a)'.state = "queued" /\ copy'[v][a].attempts = Seen(v, a)'.attempts
    <3>1. CASE v = w
      BY <1>0, <1>2, <1>3, <1>4, <3>1 DEF Dirty
    <3>2. CASE v # w
      BY <1>0, <1>5, <3>2 DEF ReadsHold
    <3>. QED
      BY <3>1, <3>2
  <2>. QED
    BY <1>0, <2>1 DEF ReadsHold
<1>7. Counted(a)'
  <2>1. ASSUME NEW v \in Workers, (a \in Dirty(v))' PROVE Within(copy'[v][a])
    <3>1. CASE v = w
      BY <1>3, <1>4, <2>1, <3>1 DEF Counted, Within, Dirty
    <3>2. CASE v # w
      BY <1>5, <2>1, <3>2 DEF Counted
    <3>. QED
      BY <3>1, <3>2
  <2>. QED
    BY <1>0, <2>1 DEF Counted, Within
<1>8. Decided(a)'
  BY <1>0 DEF Decided
<1>9. CarriedOnce(a)'
  <2>1. \A d \in Clients : Reads(d, a)' <=> Reads(d, a)
    BY <1>0 DEF Reads
  <2>2. Recorded(a) => Recorded(a)'
    <3>1. copy[w][a].state = "clean"
      BY <1>0 DEF Settling
    <3>. QED
      BY <1>0, <1>5, <3>1 DEF Recorded
  <2>. QED
    BY <1>0, <2>1, <2>2 DEF CarriedOnce
<1>. QED
  BY <1>6, <1>7, <1>8, <1>9

LEMMA ClaimReadGood ==
    ASSUME TypeOK, Consent, Settling, NEW a \in Actions, a \notin Raced, Good(a), NEW w \in Workers, NEW b \in Actions, ClaimRead(w, b)
    PROVE  Good(a)'
<1> USE Solo, CloseLeaves, GatewayAssumption DEF TypeOK, Good, Settling, WorkedOn
<1>1. ReadsHold(a)'
  BY DEF ReadsHold, Dirty, Seen, Busy, WorksOn, JobRow, Copy, Request, ClaimRead, Runnable, rows, history
<1>2. Counted(a)'
  BY DEF Counted, ReadsHold, Within, Dirty, Seen, WorksOn, Busy, JobRow, Copy, Request, ClaimRead, Runnable, rows, history
<1>3. Decided(a)'
  BY DEF Decided, ReadsHold, Consent, Dirty, WorksOn, Busy, JobRow, Copy, Request, ClaimRead, Runnable, rows, history
<1>4. CarriedOnce(a)'
  BY DEF CarriedOnce, Recorded, Reads, ReadsHold, Decided, Dirty, WorksOn, Busy, Seen, JobRow, Copy, Request, ClaimRead, Runnable, rows, history
<1>. QED
  BY <1>1, <1>2, <1>3, <1>4

LEMMA ClaimWriteGood ==
    ASSUME TypeOK, Consent, Settling, NEW a \in Actions, a \notin Raced, Good(a), NEW w \in Workers, ClaimWrite(w)
    PROVE  Good(a)'
<1> USE Solo, CloseLeaves, GatewayAssumption DEF TypeOK, Good, Settling, WorkedOn
<1>1. ReadsHold(a)'
  BY DEF ReadsHold, Dirty, Seen, Busy, WorksOn, JobRow, Copy, Request, ClaimWrite, rows, history
<1>2. Counted(a)'
  BY DEF Counted, ReadsHold, Within, Dirty, Seen, WorksOn, Busy, JobRow, Copy, Request, ClaimWrite, rows, history
<1>3. Decided(a)'
  BY DEF Decided, ReadsHold, Consent, Dirty, WorksOn, Busy, JobRow, Copy, Request, ClaimWrite, rows, history
<1>4. CarriedOnce(a)'
  BY DEF CarriedOnce, Recorded, Reads, ReadsHold, Decided, Dirty, WorksOn, Busy, Seen, JobRow, Copy, Request, ClaimWrite, rows, history
<1>. QED
  BY <1>1, <1>2, <1>3, <1>4

LEMMA RunJobCarried ==
    ASSUME TypeOK, Consent, Settling, NEW a \in Actions, a \notin Raced, Good(a), NEW w \in Workers, RunJob(w)
    PROVE  CarriedOnce(a)'
<1> USE GatewayAssumption DEF TypeOK, Good
<1>0. UNCHANGED <<job, approval, connected, req, current, copy, faults>> /\ pc[w] = "run" /\ current[w] \in Actions
  BY DEF RunJob, rows
<1>1. \A d \in Clients : Reads(d, a)' <=> Reads(d, a)
  BY <1>0 DEF Reads
<1>2. Recorded(a) => Recorded(a)'
  <2>1. \A v \in Workers : pc[v] = "complete" => pc'[v] = "complete"
    BY <1>0 DEF RunJob
  <2>. QED
    BY <1>0, <2>1 DEF Recorded
<1>3. CASE carried'[a] = carried[a]
  BY <1>0, <1>1, <1>2, <1>3 DEF CarriedOnce
<1>4. ASSUME connected, current[w] = a, carried' = [carried EXCEPT ![a] = @ + 1], pc' = [pc EXCEPT ![w] = "complete"]
      PROVE  CarriedOnce(a)'
  <2>1. carried[a] <= faults
    BY <1>0, <1>4, UnrecordedRun
  <2>2. Recorded(a)'
    BY <1>0, <1>4 DEF Recorded
  <2>. QED
    BY <1>0, <1>4, <2>1, <2>2 DEF CarriedOnce
<1>. QED
  BY <1>0, <1>3, <1>4 DEF RunJob

LEMMA RunJobGood ==
    ASSUME TypeOK, Consent, Settling, NEW a \in Actions, a \notin Raced, Good(a), NEW w \in Workers, RunJob(w)
    PROVE  Good(a)'
<1> USE Solo, CloseLeaves, GatewayAssumption DEF TypeOK, Good, Settling, WorkedOn
<1>1. ReadsHold(a)'
  BY DEF ReadsHold, Dirty, Seen, Busy, WorksOn, JobRow, Copy, Request, RunJob, rows
<1>2. Counted(a)'
  BY DEF Counted, ReadsHold, Within, Dirty, Seen, WorksOn, Busy, JobRow, Copy, Request, RunJob, rows
<1>3. Decided(a)'
  BY DEF Decided, ReadsHold, Consent, Dirty, WorksOn, Busy, JobRow, Copy, Request, RunJob, rows
<1>4. CarriedOnce(a)'
  BY RunJobCarried
<1>. QED
  BY <1>1, <1>2, <1>3, <1>4

\* A pass that ends: what it had carried out is recorded, or a fault or a gone
\* connection has ended it.
LEMMA EndPassGood ==
    ASSUME TypeOK, Consent, Settling, NEW a \in Actions, a \notin Raced, Good(a),
           NEW w \in Workers, NEW committed \in BOOLEAN, EndPass(w, committed),
           UNCHANGED <<carried, granted>>, faults' \in Nat,
           \/ committed /\ pc[w] = "drain" /\ faults' = faults
           \/ ~committed /\ ~connected /\ faults' = faults
           \/ ~committed /\ Stuck(w) /\ faults' = faults
           \/ ~committed /\ faults' = faults + 1
    PROVE  Good(a)'
<1> USE GatewayAssumption DEF TypeOK, Good
<1>0. /\ UNCHANGED <<approval, connected, req, current>>
      /\ \A v \in Workers : v # w => copy'[v] = copy[v] /\ pc'[v] = pc[v] /\ plan'[v] = plan[v]
      /\ copy'[w][a].state = "clean" /\ plan'[w][a] = "keep" /\ pc'[w] = "idle"
      /\ job'[a] = IF committed /\ a \in Dirty(w) THEN copy[w][a] ELSE job[a]
  BY DEF EndPass, Clean
<1>1. \A v \in Workers : v # w => (((a \in Dirty(v))' <=> a \in Dirty(v)) /\ ((a \in WorksOn(v))' <=> a \in WorksOn(v)))
  BY <1>0 DEF Dirty, WorksOn
<1>2. CASE job'[a] = job[a]
  <2>1. \A v \in Workers : v # w => Seen(v, a)' = Seen(v, a)
    BY <1>0, <1>1, <1>2 DEF Seen
  <2>2. ReadsHold(a)'
    <3>1. ASSUME NEW v \in Workers
        PROVE  /\ plan'[v][a] # "keep" => job'[a].state = "blocked_on_approval"
               /\ (a \in Dirty(v))' => job'[a].state \in {"blocked_on_approval", "queued"}
               /\ pc'[v] = "claim" /\ current'[v] = a =>
                    Seen(v, a)'.state = "queued" /\ copy'[v][a].attempts = Seen(v, a)'.attempts
      <4>1. CASE v = w
        BY <1>0, <4>1 DEF Dirty
      <4>2. CASE v # w
        BY <1>0, <1>1, <1>2, <2>1, <4>2 DEF ReadsHold
      <4>. QED
        BY <4>1, <4>2
    <3>. QED
      BY <1>0, <1>2, <3>1 DEF ReadsHold
  <2>3. Counted(a)'
    <3>1. ASSUME NEW v \in Workers, (a \in Dirty(v))' PROVE Within(copy'[v][a])
      BY <1>0, <1>1, <3>1 DEF Counted, Dirty
    <3>. QED
      BY <1>2, <3>1 DEF Counted, Within
  <2>4. Decided(a)'
    BY <1>0, <1>2 DEF Decided
  <2>5. CarriedOnce(a)'
    <3>1. \A d \in Clients : Reads(d, a)' <=> Reads(d, a)
      BY <1>0 DEF Reads
    <3>2. CASE faults' = faults + 1
      BY <1>0, <3>2 DEF CarriedOnce
    <3>3. CASE faults' = faults /\ (Recorded(a) => Recorded(a)')
      BY <1>0, <3>1, <3>3 DEF CarriedOnce
    <3>4. CASE faults' = faults /\ Recorded(a) /\ ~Recorded(a)'
      <4>1. copy[w][a].state = "succeeded" \/ (pc[w] = "complete" /\ current[w] = a)
        <5>1. job[a].state # "succeeded"
          BY <1>2, <3>4 DEF Recorded
        <5>2. \A d \in Clients : ~(req[d].kind = "perform" /\ req[d].step = "called" /\ req[d].on = a)
          BY <1>0, <3>4 DEF Recorded
        <5>3. \A v \in Workers : v # w => copy[v][a].state # "succeeded" /\ ~(pc[v] = "complete" /\ current[v] = a)
          BY <1>0, <3>4 DEF Recorded
        <5>. QED
          BY <3>4, <5>1, <5>2, <5>3 DEF Recorded
      <4>2. a \in Dirty(w) /\ a \in WorksOn(w)
        BY <4>1 DEF Settling, Dirty, WorksOn
      <4>3. ~Stuck(w) /\ \A d \in Clients : ~Busy(d, a)
        BY <4>2, Solo
      <4>4. ~committed
        <5>1. ASSUME committed, pc[w] = "drain" PROVE FALSE
          <6>1. copy[w][a].state = "succeeded"
            BY <4>1, <5>1
          <6>. QED
            BY <1>0, <3>4, <4>2, <5>1, <6>1 DEF Recorded
        <5>. QED
          BY <5>1
      <4>5. ~connected
        BY <3>4, <4>3, <4>4
      <4>. QED
        BY <1>0, <3>4, <4>3, <4>5 DEF CarriedOnce, Reads, Busy
    <3>. QED
      BY <3>2, <3>3, <3>4
  <2>. QED
    BY <2>2, <2>3, <2>4, <2>5
<1>3. CASE committed /\ a \in Dirty(w)
  <2>1. a \in WorksOn(w) /\ job'[a] = copy[w][a] /\ pc[w] = "drain" /\ faults' = faults
    BY <1>0, <1>3 DEF WorksOn
  <2>2. /\ \A d \in Clients : ~Busy(d, a)
        /\ \A v \in Workers : v # w => a \notin WorksOn(v)
    BY <2>1, Solo
  <2>3. \A d \in Clients : ~Busy(d, a)'
    BY <1>0, <2>2 DEF Busy
  <2>4. \A v \in Workers : (a \notin WorksOn(v))'
    BY <1>0, <1>1, <2>2 DEF WorksOn, Dirty
  <2>5. ReadsHold(a)'
    BY <2>3, <2>4 DEF ReadsHold, Busy, WorksOn
  <2>6. Counted(a)'
    BY <2>1, <1>3, <2>4 DEF Counted, WorksOn
  <2>7. Decided(a)'
    <3>1. copy[w][a].state # "none" /\ job[a].state # "none"
      BY <1>3 DEF Settling, WorkedOn, Dirty, ReadsHold
    <3>. QED
      BY <1>0, <2>1, <3>1 DEF Decided
  <2>8. CarriedOnce(a)'
    <3>1. \A d \in Clients : ~Reads(d, a)'
      BY <2>3 DEF Reads, Busy
    <3>2. ASSUME Recorded(a) PROVE Recorded(a)'
      <4>1. copy[w][a].state = "succeeded"
        <5>1. job[a].state # "succeeded"
          BY <1>3 DEF ReadsHold
        <5>2. \A v \in Workers : v # w => copy[v][a].state # "succeeded" /\ ~(pc[v] = "complete" /\ current[v] = a)
          BY <2>2 DEF WorksOn, Dirty, Settling
        <5>3. \A d \in Clients : ~(req[d].kind = "perform" /\ req[d].on = a)
          BY <2>2 DEF Busy
        <5>. QED
          BY <2>1, <3>2, <5>1, <5>2, <5>3 DEF Recorded
      <4>. QED
        BY <2>1, <4>1 DEF Recorded
    <3>. QED
      BY <1>0, <2>1, <3>1, <3>2 DEF CarriedOnce
  <2>. QED
    BY <2>5, <2>6, <2>7, <2>8
<1>. QED
  BY <1>0, <1>2, <1>3

\* What a row that the current job's pass writes does to an action.
LEMMA FinishedCounted ==
    ASSUME TypeOK, Settling, NEW a \in Actions, Counted(a), NEW w \in Workers, pc[w] \in {"complete", "fail"},
           (CompleteJob(w) /\ connected) \/ FailJob(w)
    PROVE  Counted(a)'
<1> USE GatewayAssumption DEF TypeOK
<1>0. /\ UNCHANGED <<job, current>>
      /\ current[w] \in Actions /\ copy[w][current[w]].state = "running" /\ copy[w][current[w]] \in Copy
  <2>1. UNCHANGED <<job, current>>
    BY DEF CompleteJob, FailJob, rows
  <2>. QED
    BY <2>1 DEF Settling
<1>1. Within(job'[a])
  BY <1>0 DEF Counted, Within
<1>2. ASSUME NEW v \in Workers, (a \in Dirty(v))' PROVE Within(copy'[v][a])
  <2>1. CASE v # w \/ current[w] # a
    <3>1. copy'[v][a] = copy[v][a]
      <4>1. CASE CompleteJob(w) /\ connected
        BY <1>0, <2>1, <4>1 DEF CompleteJob
      <4>2. CASE FailJob(w)
        BY <1>0, <2>1, <4>2 DEF FailJob
      <4>. QED
        BY <4>1, <4>2
    <3>. QED
      BY <1>2, <3>1 DEF Counted, Within, Dirty
  <2>2. CASE v = w /\ current[w] = a
    <3>1. Within(copy[w][a]) /\ copy[w][a] \in Copy
      BY <1>0, <2>2 DEF Counted, Dirty
    <3>2. CASE CompleteJob(w) /\ connected
      <4>1. copy'[w][a] = [copy[w][a] EXCEPT !.state = "succeeded"]
        BY <1>0, <2>2, <3>2 DEF CompleteJob
      <4>. QED
        BY <2>2, <3>1, <4>1 DEF Within, Copy
    <3>3. CASE FailJob(w)
      <4>1. copy'[w][a] = IF copy[w][a].attempts >= MaxAttempts THEN [copy[w][a] EXCEPT !.state = "dead_letter"]
                          ELSE [copy[w][a] EXCEPT !.state = "queued", !.due = FALSE]
        BY <1>0, <2>2, <3>3 DEF FailJob
      <4>2. CASE copy[w][a].attempts >= MaxAttempts
        <5>1. copy'[w][a] = [copy[w][a] EXCEPT !.state = "dead_letter"] /\ copy[w][a].attempts = MaxAttempts
          <6>1. copy[w][a].attempts <= MaxAttempts /\ copy[w][a].attempts \in Nat
            BY <3>1 DEF Within, Copy
          <6>2. copy[w][a].attempts = MaxAttempts
            BY <4>2, <6>1, AtTheBound
          <6>. QED
            BY <4>1, <4>2, <6>2
        <5>. QED
          BY <2>2, <3>1, <5>1 DEF Within, Copy
      <4>3. CASE ~(copy[w][a].attempts >= MaxAttempts)
        BY <2>2, <3>1, <4>1, <4>3 DEF Within, Copy
      <4>. QED
        BY <4>2, <4>3
    <3>. QED
      BY <3>2, <3>3
  <2>. QED
    BY <2>1, <2>2
<1>. QED
  BY <1>1, <1>2 DEF Counted

LEMMA CompleteRowGood ==
    ASSUME TypeOK, Consent, Settling, NEW a \in Actions, a \notin Raced, Good(a), NEW w \in Workers, CompleteJob(w), connected
    PROVE  Good(a)'
<1> USE Solo, CloseLeaves, GatewayAssumption DEF TypeOK, Good, Settling, WorkedOn
<1>1. ReadsHold(a)'
  BY DEF ReadsHold, Dirty, Seen, Busy, WorksOn, JobRow, Copy, Request, CompleteJob, rows, history
<1>2. Counted(a)'
  BY FinishedCounted DEF CompleteJob
<1>3. Decided(a)'
  BY DEF Decided, ReadsHold, Consent, Dirty, WorksOn, Busy, JobRow, Copy, Request, CompleteJob, rows, history
<1>4. CarriedOnce(a)'
  BY DEF CarriedOnce, Recorded, Reads, ReadsHold, Decided, Dirty, WorksOn, Busy, Seen, JobRow, Copy, Request, CompleteJob, rows, history
<1>. QED
  BY <1>1, <1>2, <1>3, <1>4

LEMMA FailJobGood ==
    ASSUME TypeOK, Consent, Settling, NEW a \in Actions, a \notin Raced, Good(a), NEW w \in Workers, FailJob(w)
    PROVE  Good(a)'
<1> USE Solo, CloseLeaves, GatewayAssumption DEF TypeOK, Good, Settling, WorkedOn
<1>1. ReadsHold(a)'
  BY DEF ReadsHold, Dirty, Seen, Busy, WorksOn, JobRow, Copy, Request, FailJob, rows, history
<1>2. Counted(a)'
  BY FinishedCounted DEF FailJob
<1>3. Decided(a)'
  BY DEF Decided, ReadsHold, Consent, Dirty, WorksOn, Busy, JobRow, Copy, Request, FailJob, rows, history
<1>4. CarriedOnce(a)'
  BY DEF CarriedOnce, Recorded, Reads, ReadsHold, Decided, Dirty, WorksOn, Busy, Seen, JobRow, Copy, Request, FailJob, rows, history
<1>. QED
  BY <1>1, <1>2, <1>3, <1>4

LEMMA VanishGood ==
    ASSUME TypeOK, Consent, Settling, NEW a \in Actions, a \notin Raced, Good(a), Vanish
    PROVE  Good(a)'
<1> USE DEF TypeOK, Good
<1>1. faults' = faults + 1 /\ UNCHANGED <<carried, granted>>
  BY DEF Vanish
<1>2. ASSUME NEW c \in Clients, Close(c), UNCHANGED <<rows, passes>> PROVE Good(a)'
  <2>1. ReadsHold(a)'
    BY <1>2, ClosedReads DEF rows
  <2>2. Counted(a)' /\ Decided(a)'
    BY <1>1, <1>2 DEF Counted, Within, Decided, Dirty, rows, passes
  <2>. QED
    BY <1>1, <2>1, <2>2, FaultPays
<1>3. ASSUME NEW w \in Workers, EndPass(w, FALSE) PROVE Good(a)'
  <2>1. faults' \in Nat
    BY <1>1
  <2>. QED
    BY <1>1, <1>3, <2>1, EndPassGood
<1>. QED
  BY <1>2, <1>3 DEF Vanish

LEMMA LoseAnswerGood ==
    ASSUME TypeOK, Consent, Settling, NEW a \in Actions, a \notin Raced, Good(a), LoseAnswer
    PROVE  Good(a)'
<1> USE DEF TypeOK, Good
<1>1. faults' = faults + 1 /\ UNCHANGED <<rows, current, plan, copy, granted>>
  BY DEF LoseAnswer
<1>2. Counted(a)' /\ Decided(a)'
  BY <1>1 DEF Counted, Within, Decided, Dirty, rows
<1>3. ASSUME NEW c \in Clients, Close(c), req[c].kind = "perform", req[c].step = "read",
             carried' = [carried EXCEPT ![req[c].on] = @ + 1], UNCHANGED pc
      PROVE  Good(a)'
  <2>1. ReadsHold(a)'
    BY <1>1, <1>3, ClosedReads DEF rows, passes
  <2>2. carried'[a] <= 1 + faults
    <3>1. CASE req[c].on = a
      BY <1>3, <3>1, UnrecordedRead DEF Reads
    <3>2. CASE req[c].on # a
      BY <1>3, <3>2 DEF CarriedOnce, Request
    <3>. QED
      BY <3>1, <3>2
  <2>3. carried'[a] \in Nat
    BY <1>3 DEF Request
  <2>4. CarriedOnce(a)'
    BY <1>1, <2>2, <2>3 DEF CarriedOnce
  <2>. QED
    BY <1>2, <2>1, <2>4
<1>4. ASSUME NEW w \in Workers, pc[w] = "run", connected, carried' = [carried EXCEPT ![current[w]] = @ + 1],
             pc' = [pc EXCEPT ![w] = "fail"], UNCHANGED req
      PROVE  Good(a)'
  <2>1. ReadsHold(a)'
    BY <1>1, <1>4 DEF ReadsHold, Seen, Dirty, rows
  <2>2. carried'[a] <= 1 + faults
    <3>1. CASE current[w] = a
      BY <1>4, <3>1, UnrecordedRun
    <3>2. CASE current[w] # a
      BY <1>4, <3>2 DEF CarriedOnce
    <3>. QED
      BY <3>1, <3>2
  <2>3. carried'[a] \in Nat
    BY <1>4
  <2>4. CarriedOnce(a)'
    BY <1>1, <2>2, <2>3 DEF CarriedOnce
  <2>. QED
    BY <1>2, <2>1, <2>4
<1>. QED
  BY <1>3, <1>4 DEF LoseAnswer

\* Every step keeps, of an action that two transactions have not worked on at once,
\* what its rows and counters say.
LEMMA GoodStep ==
    ASSUME TypeOK, Consent, Settling, NEW a \in Actions, a \notin Raced, Good(a), Step
    PROVE  Good(a)'
<1>1. faults \in Nat
  BY GatewayAssumption DEF TypeOK
<1>2. ASSUME NEW w \in Workers, CompleteJob(w) PROVE Good(a)'
  <2>1. CASE connected
    BY <1>2, <2>1, CompleteRowGood
  <2>2. CASE ~connected
    <3>1. EndPass(w, FALSE) /\ UNCHANGED history
      BY <1>2, <2>2 DEF CompleteJob
    <3>. QED
      BY <1>1, <2>2, <3>1, EndPassGood DEF history
  <2>. QED
    BY <2>1, <2>2
<1>3. ASSUME NEW w \in Workers, CommitPass(w) PROVE Good(a)'
  <2>1. EndPass(w, TRUE) /\ pc[w] = "drain" /\ UNCHANGED history
    BY <1>3 DEF CommitPass
  <2>. QED
    BY <1>1, <2>1, EndPassGood DEF history
<1>4. ASSUME NEW w \in Workers, LoseDeadlock(w) PROVE Good(a)'
  <2>1. EndPass(w, FALSE) /\ Stuck(w) /\ UNCHANGED history
    BY <1>4 DEF LoseDeadlock
  <2>. QED
    BY <1>1, <2>1, EndPassGood DEF history
<1>5. ASSUME NEW b \in Actions, ExecuteAction(b) \/ BackoffEnds(b) PROVE Good(a)'
  BY <1>5, ExecuteActionGood, BackoffEndsGood
<1>6. ASSUME NEW c \in Clients, NEW b \in Actions, PerformRead(c, b) \/ DecideRead(c, b) \/ CancelRead(c, b)
      PROVE  Good(a)'
  BY <1>6, PerformReadGood, DecideReadGood, CancelReadGood
<1>7. ASSUME NEW c \in Clients, DisconnectRead(c) PROVE Good(a)'
  BY <1>7, DisconnectReadGood
<1>8. ASSUME NEW c \in Clients, Handle(c) PROVE Good(a)'
  BY <1>8, PerformCallGood, PerformCommitGood, DecideCommitGood, CancelCommitGood, DisconnectCommitGood DEF Handle
<1>9. ASSUME NEW w \in Workers, PromoteRead(w) \/ PromoteWrite(w) \/ ClaimWrite(w) PROVE Good(a)'
  BY <1>9, PromoteReadGood, PromoteWriteGood, ClaimWriteGood
<1>10. ASSUME NEW w \in Workers, NEW b \in Actions, ClaimRead(w, b) PROVE Good(a)'
  BY <1>10, ClaimReadGood
<1>11. ASSUME NEW w \in Workers, RunJob(w) \/ FailJob(w) PROVE Good(a)'
  BY <1>11, RunJobGood, FailJobGood
<1>12. ASSUME Vanish \/ LoseAnswer PROVE Good(a)'
  BY <1>12, VanishGood, LoseAnswerGood
<1>. QED
  BY <1>2, <1>3, <1>4, <1>5, <1>6, <1>7, <1>8, <1>9, <1>10, <1>11, <1>12 DEF Step, Pass

\* A success is final, and no transaction that works alone touches it.
LEMMA SuccessStep ==
    ASSUME TypeOK, Consent, Settling, NEW a \in Actions, a \notin Raced, Good(a), job[a].state = "succeeded", Step
    PROVE  job'[a].state = "succeeded" /\ carried'[a] = carried[a]
<1> USE DEF TypeOK, Good
<1>1. \A w \in Workers : a \notin Dirty(w)
  BY DEF ReadsHold
<1>2. \A c \in Clients : req[c].on = a => req[c].kind \notin {"perform", "cancel"}
  BY DEF ReadsHold
<1>3. \A w \in Workers : pc[w] \in {"run", "complete", "fail"} => current[w] # a
  BY <1>1 DEF Settling, Dirty
<1>4. ASSUME NEW w \in Workers, NEW committed \in BOOLEAN, EndPass(w, committed) PROVE job'[a] = job[a]
  BY <1>1, <1>4 DEF EndPass
<1>5. ASSUME NEW b \in Actions, ExecuteAction(b) \/ BackoffEnds(b) PROVE job'[a] = job[a] /\ carried' = carried
  BY <1>5 DEF ExecuteAction, BackoffEnds, history
<1>6. ASSUME NEW c \in Clients, NEW b \in Actions, PerformRead(c, b) \/ DecideRead(c, b) \/ CancelRead(c, b)
      PROVE  job' = job /\ carried' = carried
  BY <1>6 DEF PerformRead, DecideRead, CancelRead, Open, rows, history
<1>7. ASSUME NEW c \in Clients, DisconnectRead(c) \/ DecideCommit(c) \/ DisconnectCommit(c)
      PROVE  job' = job /\ carried' = carried
  BY <1>7 DEF DisconnectRead, DecideCommit, DisconnectCommit, history
<1>8. ASSUME NEW c \in Clients, PerformCommit(c) \/ CancelCommit(c) PROVE job'[a] = job[a] /\ carried' = carried
  BY <1>2, <1>8 DEF PerformCommit, CancelCommit, history
<1>9. ASSUME NEW c \in Clients, PerformCall(c) PROVE job' = job /\ carried'[a] = carried[a]
  BY <1>2, <1>9 DEF PerformCall, Request, rows
<1>10. ASSUME NEW w \in Workers, PromoteRead(w) \/ PromoteWrite(w) \/ ClaimWrite(w) \/ FailJob(w)
       PROVE job' = job /\ carried' = carried
  BY <1>10 DEF PromoteRead, PromoteWrite, ClaimWrite, FailJob, rows, history
<1>11. ASSUME NEW w \in Workers, NEW b \in Actions, ClaimRead(w, b) PROVE job' = job /\ carried' = carried
  BY <1>11 DEF ClaimRead, rows, history
<1>12. ASSUME NEW w \in Workers, RunJob(w) PROVE job' = job /\ carried'[a] = carried[a]
  BY <1>3, <1>12 DEF RunJob, rows
<1>13. ASSUME NEW w \in Workers, CompleteJob(w) \/ CommitPass(w) \/ LoseDeadlock(w)
       PROVE job'[a] = job[a] /\ carried' = carried
  BY <1>4, <1>13 DEF CompleteJob, CommitPass, LoseDeadlock, rows, history
<1>14. ASSUME Vanish PROVE job'[a] = job[a] /\ carried' = carried
  BY <1>4, <1>14 DEF Vanish, rows
<1>15. ASSUME LoseAnswer PROVE job' = job /\ carried'[a] = carried[a]
  BY <1>2, <1>3, <1>15 DEF LoseAnswer, Request, rows
<1>. QED
  BY <1>5, <1>6, <1>7, <1>8, <1>9, <1>10, <1>11, <1>12, <1>13, <1>14, <1>15 DEF Step, Handle, Pass

LEMMA InitAlone == Init => Alone
<1> SUFFICES ASSUME Init PROVE Alone
  OBVIOUS
<1>1. \A c \in Clients : req[c].kind = "none"
  BY DEF Init, NoRequest
<1>2. \A w \in Workers, a \in Actions : copy[w][a].state = "clean" /\ a \notin WorksOn(w) /\ a \notin Dirty(w)
  BY DEF Init, Clean, WorksOn, Dirty
<1>3. Raced = {}
  BY <1>1, <1>2 DEF Raced, Busy
<1>4. Settling
  BY <1>2 DEF Init, Settling, WorkedOn
<1>5. ASSUME NEW a \in Actions PROVE Good(a)
  <2>1. ReadsHold(a)
    BY <1>1, <1>2 DEF Init, ReadsHold
  <2>2. Counted(a)
    BY <1>2, GatewayAssumption DEF Init, Counted, Within
  <2>3. Decided(a)
    BY DEF Init, Decided
  <2>4. CarriedOnce(a)
    BY DEF Init, CarriedOnce
  <2>. QED
    BY <2>1, <2>2, <2>3, <2>4 DEF Good
<1>. QED
  BY <1>3, <1>4, <1>5 DEF Alone

LEMMA AloneStep ==
    ASSUME TypeOK, Consent, Alone, Next
    PROVE  Alone'
<1>1. raced' = raced \cup Raced' /\ Step
  BY DEF Next
<1>2. Settling'
  BY SettlingStep DEF Alone
<1>3. ASSUME NEW a \in Actions, a \notin raced' PROVE Good(a)'
  BY <1>1, <1>3, GoodStep DEF Alone
<1>. QED
  BY <1>1, <1>2, <1>3 DEF Alone

LEMMA AloneStutters ==
    ASSUME Alone, UNCHANGED vars
    PROVE  Alone'
<1> USE DEF vars, rows, passes, history
<1>1. \A w \in Workers : Dirty(w)' = Dirty(w)
  BY DEF Dirty
<1>2. \A w \in Workers : WorksOn(w)' = WorksOn(w)
  BY <1>1 DEF WorksOn
<1>3. \A w \in Workers : Stuck(w)' <=> Stuck(w)
  BY <1>1, <1>2 DEF Stuck
<1>4. Raced' = Raced
  BY <1>2, <1>3 DEF Raced, Busy
<1>5. Settling'
  BY DEF Alone, Settling
<1>6. ASSUME NEW a \in Actions, Good(a) PROVE Good(a)'
  <2>1. \A w \in Workers : Seen(w, a)' = Seen(w, a)
    BY <1>1 DEF Seen
  <2>2. ReadsHold(a)'
    BY <1>1, <1>6, <2>1 DEF Good, ReadsHold
  <2>3. Counted(a)' /\ Decided(a)'
    BY <1>1, <1>6 DEF Good, Counted, Within, Decided
  <2>4. CarriedOnce(a)'
    BY <1>6 DEF Good, CarriedOnce, Recorded, Reads
  <2>. QED
    BY <2>2, <2>3, <2>4 DEF Good
<1>. QED
  BY <1>4, <1>5, <1>6 DEF Alone

--------------------------------------------------------------------------------
LEMMA TypeIsInductive == TypeOK /\ [Next]_vars => TypeOK'
BY TypeStep DEF TypeOK, vars, rows, passes, history

\* Every row, request, pass and counter keeps its type.
THEOREM TypeCorrect == Spec => []TypeOK
BY InitType, TypeIsInductive, PTL DEF Spec

\* The inductive invariant: whatever is queued, planned, flushed, claimed or carried
\* out anywhere was approved by some committed decision.
THEOREM ConsentHolds == Spec => []Consent
<1>1. TypeOK /\ TypeOK' /\ Consent /\ [Next]_vars => Consent'
  BY ConsentStep
<1>. QED
  BY <1>1, InitConsent, TypeCorrect, PTL DEF Spec

\* Nothing runs until its approval is granted, for any number of actions,
\* requests and worker processes.
THEOREM NothingWithoutApproval == Spec => []ApprovalGates
<1>1. Consent => ApprovalGates
  BY DEF Consent
<1>. QED
  BY <1>1, ConsentHolds, PTL

\* The second inductive invariant: what a transaction that works alone on an action
\* has read still holds when it writes, so that the action's rows, its approval and
\* the provider's count agree.
THEOREM AloneHolds == Spec => []Alone
<1>1. TypeOK /\ Consent /\ Alone /\ [Next]_vars => Alone'
  BY AloneStep, AloneStutters
<1>. QED
  BY <1>1, InitAlone, TypeCorrect, ConsentHolds, PTL DEF Spec

\* An action is carried out again only for a fault, or where two transactions worked on
\* it at once or its pass was ended for a deadlock.
THEOREM RepeatsAreExplained == Spec => []RepeatsNeedAFault
<1>1. Alone => RepeatsNeedAFault
  BY DEF Alone, Good, CarriedOnce, RepeatsNeedAFault
<1>. QED
  BY <1>1, AloneHolds, PTL

\* A job is claimed at most max_attempts times, and given up only after all of them.
THEOREM RetriesBounded == Spec => []RetriesAreBounded
<1>1. Alone => RetriesAreBounded
  BY DEF Alone, Good, Counted, Within, RetriesAreBounded
<1>. QED
  BY <1>1, AloneHolds, PTL

\* A rejected action never runs and is never queued.
THEOREM RejectionIsFinal == Spec => []RejectionHolds
<1>1. TypeOK /\ Consent /\ Alone => RejectionHolds
  <2> SUFFICES ASSUME TypeOK, Consent, Alone, NEW a \in Actions \ raced, approval[a] = "rejected"
               PROVE  carried[a] = 0 /\ job[a].state \in {"blocked_on_approval", "cancelled"}
    BY DEF RejectionHolds
  <2>1. a \notin granted /\ job[a].state # "none"
    BY DEF Alone, Good, Decided
  <2>2. carried[a] = 0
    BY <2>1 DEF Consent, ApprovalGates, TypeOK
  <2>3. job[a].state \notin WorkedOn
    BY <2>1 DEF Alone, Settling
  <2>4. job[a].state \in JobState
    BY DEF TypeOK, JobRow
  <2>. QED
    BY <2>1, <2>2, <2>3, <2>4 DEF WorkedOn, JobState
<1>. QED
  BY <1>1, AloneHolds, ConsentHolds, TypeCorrect, PTL

\* No later pass, perform or cancel takes a success back or repeats it.
THEOREM SuccessStays == Spec => SuccessIsFinal
<1>1. TypeOK /\ Consent /\ Alone /\ [Next]_vars =>
        [\A a \in Actions : (job[a].state = "succeeded" /\ a \notin raced') =>
            job'[a].state = "succeeded" /\ carried'[a] = carried[a]]_vars
  <2> SUFFICES ASSUME TypeOK, Consent, Alone, Next, NEW a \in Actions, job[a].state = "succeeded", a \notin raced'
               PROVE  job'[a].state = "succeeded" /\ carried'[a] = carried[a]
    OBVIOUS
  <2>1. a \notin raced /\ Step
    BY DEF Next
  <2>. QED
    BY <2>1, SuccessStep DEF Alone
<1>. QED
  BY <1>1, AloneHolds, ConsentHolds, TypeCorrect, PTL DEF Spec, SuccessIsFinal
================================================================================
