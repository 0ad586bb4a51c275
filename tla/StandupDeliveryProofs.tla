------------------------- MODULE StandupDeliveryProofs -------------------------
(***************************************************************************)
(* Proofs about StandupDelivery for every set of requests, workers, texts   *)
(* and days: rows keep their types under merged UPDATEs; what a session is  *)
(* about to post is what one committed approval froze; and while sessions   *)
(* come one after the other, one reply is posted, a skipped draft stays     *)
(* silent and a sent one is history.                                        *)
(***************************************************************************)
EXTENDS StandupDelivery, TLAPS

--------------------------------------------------------------------------------
(* Rows *)

LEMMA Bounds == MaxRequests \in Nat
BY StandupAssumption

LEMMA Types ==
    /\ NoSnapshot \in Snapshot
    /\ Text \subseteq Snapshot
    /\ NewDraft \in Draft
    /\ NewJob \in JobRow
<1>1. (CHOOSE d \in Days : TRUE) \in Days
  BY StandupAssumption
<1>2. NoText \in Text /\ NoSnapshot \in Snapshot /\ Text \subseteq Snapshot
  BY StandupAssumption DEF NoText, Text, NoSnapshot, Snapshot
<1>3. NewDraft \in Draft
  BY <1>1, <1>2 DEF NewDraft, Draft, Status, Terminal
<1>. QED
  BY <1>2, <1>3 DEF NewJob, JobRow

\* An UPDATE of a row leaves a row, and its hash is one session's or the other's.
LEMMA UpdateKeepsType ==
    ASSUME NEW row \in Draft, NEW old \in Draft, NEW new \in Draft
    PROVE  /\ Update(row, old, new) \in Draft
           /\ Update(row, old, new).hash \in {row.hash, new.hash}
<1>1. Columns(new.text, old.text, row.text) \in Text
  BY DEF Columns, Column, Text, Draft
<1>2. Columns(new.frozen, old.frozen, row.frozen) \in Snapshot
  BY DEF Columns, Column, Snapshot, Draft
<1>. QED
  BY <1>1, <1>2 DEF Update, Column, Draft

LEMMA DraftUpdates ==
    ASSUME NEW row \in Draft
    PROVE  /\ \A s \in Status : [row EXCEPT !.status = s] \in Draft
           /\ \A s \in Status, d \in Days : [row EXCEPT !.thread = d, !.status = s] \in Draft
           /\ \A j \in Jobs : [row EXCEPT !.job = j] \in Draft
           /\ \A text \in Text : [row EXCEPT !.text = text] \in Draft
           /\ \A text \in Text, d \in Days : [row EXCEPT !.text = text, !.target = d] \in Draft
           /\ \A h \in Snapshot, s \in Status :
                 [row EXCEPT !.status = s, !.frozen = h, !.hash = h] \in Draft
BY DEF Draft

LEMMA ReopenedType == \A row \in Draft : Reopened(row) \in Draft /\ Reopened(row).hash = NoSnapshot
BY Types, DraftUpdates DEF Reopened, Draft, Status

KeptRow == JobRow \cup [state : {"clean"}, attempts : Nat, due : BOOLEAN]

LEMMA JobUpdates ==
    ASSUME NEW row \in KeptRow,
           NEW s \in {"none", "queued", "running", "succeeded", "cancelled", "dead_letter"}
    PROVE  /\ [row EXCEPT !.state = s] \in KeptRow
           /\ \A d \in BOOLEAN : [row EXCEPT !.state = s, !.due = d] \in KeptRow
           /\ \A n \in Nat : [row EXCEPT !.state = s, !.attempts = n] \in KeptRow
           /\ \A n \in Nat : [row EXCEPT !.attempts = n] \in KeptRow
           /\ row.attempts \in Nat
BY DEF KeptRow, JobRow

\* A session's jobs stay rows when one of them is rewritten.
LEMMA KeptUpdate ==
    ASSUME kept \in [Sessions -> [Jobs -> KeptRow]], NEW t \in Sessions, NEW j, NEW row,
           j \in Jobs => row \in KeptRow
    PROVE  [kept EXCEPT ![t][j] = row] \in [Sessions -> [Jobs -> KeptRow]]
<1>1. [kept[t] EXCEPT ![j] = row] \in [Jobs -> KeptRow]
  OBVIOUS
<1>. QED
  BY <1>1

LEMMA KeptType == TypeOK => kept \in [Sessions -> [Jobs -> KeptRow]]
BY DEF TypeOK, KeptRow

LEMMA BaseType == TypeOK => \A t \in Sessions : Base(t) \in Draft
BY DEF TypeOK, Base, Holds

LEMMA SeenType == TypeOK => \A t \in Sessions, j \in Jobs : Seen(t, j) \in JobRow
BY DEF TypeOK, Seen, Keeps

--------------------------------------------------------------------------------
(* Type correctness *)

HistoryOK ==
    /\ posts \in 0..2 /\ consented \subseteq Snapshot
    /\ asked \in 0..MaxRequests /\ raced \in BOOLEAN /\ faults \subseteq Faults

LEMMA InitType == Init => TypeOK
<1> SUFFICES ASSUME Init PROVE TypeOK
  OBVIOUS
<1>1. draft \in Draft
  BY Types, DraftUpdates DEF Init
<1>2. held \in [Sessions -> Draft \cup {Clean}]
  BY DEF Init
<1>3. kept \in [Sessions -> [Jobs -> KeptRow]]
  BY DEF Init, CleanJob, NewJob, KeptRow
<1>4. was \in [Sessions -> Draft] /\ now \in [Sessions -> Draft]
  BY Types DEF Init
<1>5. job \in [Jobs -> JobRow] /\ at \in [Sessions -> Step] /\ on \in [Sessions -> Jobs \cup {0}]
  BY Types DEF Init, Step
<1>6. HistoryOK
  <2>1. raced \in BOOLEAN /\ consented \subseteq Snapshot /\ faults \subseteq Faults
    BY Zenon DEF Init
  <2>2. posts \in 0..2 /\ asked \in 0..MaxRequests
    BY Bounds DEF Init
  <2>. QED
    BY <2>1, <2>2 DEF HistoryOK
<1>. QED
  BY <1>1, <1>2, <1>3, <1>4, <1>5, <1>6 DEF TypeOK, HistoryOK, KeptRow

LEMMA EndType ==
    ASSUME TypeOK, HistoryOK', NEW t \in Sessions, NEW row \in Draft,
           NEW jobs \in [Jobs -> JobRow], End(t, row, jobs)
    PROVE  TypeOK'
<1>1. kept' \in [Sessions -> [Jobs -> KeptRow]]
  BY KeptType DEF End, CleanJob, NewJob, KeptRow
<1>2. held' \in [Sessions -> Draft \cup {Clean}]
  BY DEF End, TypeOK
<1>3. was' \in [Sessions -> Draft] /\ now' \in [Sessions -> Draft]
  BY Types DEF End, TypeOK
<1>4. at' \in [Sessions -> Step] /\ on' \in [Sessions -> Jobs \cup {0}]
  BY DEF End, TypeOK, Goto, Step
<1>. QED
  BY <1>1, <1>2, <1>3, <1>4 DEF End, TypeOK, HistoryOK, KeptRow

LEMMA RollbackType ==
    ASSUME TypeOK, HistoryOK', NEW t \in Sessions, Rollback(t)
    PROVE  TypeOK'
BY EndType DEF Rollback, TypeOK

\* A session that moves on with its jobs as they are.
LEMMA MoveType ==
    ASSUME TypeOK, HistoryOK', NEW t \in Sessions, NEW step \in Step, Goto(t, step),
           UNCHANGED <<rows, on, now, kept>>,
           was' \in [Sessions -> Draft], held' \in [Sessions -> Draft \cup {Clean}]
    PROVE  TypeOK'
BY DEF TypeOK, HistoryOK, Goto, rows

LEMMA RaiseType ==
    ASSUME TypeOK, HistoryOK', NEW t \in Sessions, NEW row \in Draft \cup {Clean}, Raise(t, row)
    PROVE  TypeOK'
<1>1. CASE t \in Workers
  BY <1>1, MoveType DEF Raise, TypeOK, Step, rows
<1>2. CASE t \notin Workers
  BY <1>2, RollbackType DEF Raise
<1>. QED
  BY <1>1, <1>2

\* A session that rewrites one of its jobs.
LEMMA JobStepType ==
    ASSUME TypeOK, HistoryOK', NEW t \in Sessions, NEW step \in Step, Goto(t, step),
           UNCHANGED <<rows, was, now, held>>, on' \in [Sessions -> Jobs \cup {0}],
           NEW j, NEW row, j \in Jobs => row \in KeptRow,
           kept' = [kept EXCEPT ![t][j] = row]
    PROVE  TypeOK'
<1>1. kept' \in [Sessions -> [Jobs -> KeptRow]]
  BY KeptType, KeptUpdate
<1>. QED
  BY <1>1 DEF TypeOK, HistoryOK, Goto, rows, KeptRow

LEMMA LoadType ==
    ASSUME TypeOK, HistoryOK', NEW c \in Clients, NEW step \in Step, NEW row \in Draft,
           Load(c, step, row), on' \in [Sessions -> Jobs \cup {0}]
    PROVE  TypeOK'
<1>1. c \in Sessions
  BY DEF Sessions
<1>2. was' \in [Sessions -> Draft] /\ now' \in [Sessions -> Draft]
  BY <1>1 DEF Load, TypeOK
<1>3. at' \in [Sessions -> Step]
  BY DEF Load, Goto, TypeOK
<1>. QED
  BY <1>2, <1>3 DEF Load, TypeOK, HistoryOK, rows

LEMMA HistoryStep ==
    ASSUME TypeOK, raced' \in BOOLEAN, UNCHANGED history
    PROVE  HistoryOK'
BY DEF TypeOK, HistoryOK, history

LEMMA LoadHistory ==
    ASSUME TypeOK, raced' \in BOOLEAN, NEW c \in Clients, NEW step, NEW row, Load(c, step, row)
    PROVE  HistoryOK'
<1>1. asked' \in 0..MaxRequests
  BY Bounds DEF Load, TypeOK
<1>2. posts' \in 0..2 /\ consented' \subseteq Snapshot /\ faults' \subseteq Faults
  BY DEF Load, TypeOK
<1>. QED
  BY <1>1, <1>2 DEF HistoryOK

LEMMA RequestType ==
    ASSUME TypeOK, raced' \in BOOLEAN, NEW c \in Clients, Request(c)
    PROVE  TypeOK'
<1>1. draft \in Draft /\ on \in [Sessions -> Jobs \cup {0}] /\ c \in Sessions
  BY DEF TypeOK, Sessions
<1>2. ASSUME NEW step \in Step, NEW row \in Draft, Load(c, step, row),
             on' \in [Sessions -> Jobs \cup {0}]
      PROVE  TypeOK'
  BY <1>2, LoadType, LoadHistory
<1>3. CASE EditDraft(c)
  <2>1. PICK text \in Text : Load(c, "write", Reopened([draft EXCEPT !.text = text]))
    BY <1>3 DEF EditDraft
  <2>2. Reopened([draft EXCEPT !.text = text]) \in Draft
    BY <1>1, DraftUpdates, ReopenedType
  <2>. QED
    BY <1>1, <1>2, <1>3, <2>1, <2>2 DEF EditDraft, Step
<1>4. CASE GenerateDraft(c)
  <2>1. PICK text \in Text, day \in Days :
           Load(c, "write", Reopened([draft EXCEPT !.text = text, !.target = day]))
    BY <1>4 DEF GenerateDraft
  <2>2. Reopened([draft EXCEPT !.text = text, !.target = day]) \in Draft
    BY <1>1, DraftUpdates, ReopenedType
  <2>. QED
    BY <1>1, <1>2, <1>4, <2>1, <2>2 DEF GenerateDraft, Step
<1>5. CASE Approve(c)
  <2>1. draft.text \in Snapshot /\ "WAITING_FOR_THREAD" \in Status
    BY <1>1, Types DEF Draft, Status
  <2>2. [draft EXCEPT !.status = "WAITING_FOR_THREAD", !.frozen = draft.text, !.hash = draft.text] \in Draft
    BY <1>1, <2>1, DraftUpdates
  <2>. QED
    BY <1>1, <1>2, <1>5, <2>2 DEF Approve, Step
<1>6. CASE Skip(c)
  <2>1. [draft EXCEPT !.status = "SKIPPED"] \in Draft
    BY <1>1, DraftUpdates DEF Status, Terminal
  <2>2. draft.job \in Jobs \cup {0}
    BY <1>1 DEF Draft
  <2>3. on' \in [Sessions -> Jobs \cup {0}]
    BY <1>1, <1>6, <2>2 DEF Skip
  <2>4. PICK step \in {"cancel", "skip"} : Load(c, step, [draft EXCEPT !.status = "SKIPPED"])
    BY <1>6 DEF Skip
  <2>. QED
    BY <1>2, <2>1, <2>3, <2>4 DEF Step
<1>7. CASE SendNow(c)
  BY <1>1, <1>2, <1>7 DEF SendNow, Step
<1>. QED
  BY <1>3, <1>4, <1>5, <1>6, <1>7, Request(c) DEF Request

LEMMA AnswerType ==
    ASSUME TypeOK, raced' \in BOOLEAN, NEW c \in Clients, Answer(c)
    PROVE  TypeOK'
<1>1. /\ draft \in Draft /\ was[c] \in Draft /\ now[c] \in Draft /\ c \in Sessions
      /\ job \in [Jobs -> JobRow]
  BY DEF TypeOK, Sessions
<1>2. Update(draft, was[c], now[c]) \in Draft
  BY <1>1, UpdateKeepsType
<1>3. CASE WriteDraft(c)
  BY <1>1, <1>2, <1>3, EndType, HistoryStep DEF WriteDraft
<1>4. CASE ApproveCommit(c)
  <2>1. PICK j \in Jobs, due \in BOOLEAN :
          End(c, [Update(draft, was[c], now[c]) EXCEPT !.job = j],
                 [job EXCEPT ![j] = [state |-> "queued", attempts |-> 0, due |-> due]])
    BY <1>4 DEF ApproveCommit
  <2>2. [Update(draft, was[c], now[c]) EXCEPT !.job = j] \in Draft
    BY <1>2, DraftUpdates
  <2>3. [job EXCEPT ![j] = [state |-> "queued", attempts |-> 0, due |-> due]] \in [Jobs -> JobRow]
    BY <1>1 DEF JobRow
  <2>4. HistoryOK'
    BY <1>1, <1>4 DEF ApproveCommit, TypeOK, HistoryOK, Draft
  <2>. QED
    BY <1>1, <2>1, <2>2, <2>3, <2>4, EndType
<1>5. CASE CancelJob(c)
  <2> DEFINE row == [job[on[c]] EXCEPT !.state = "cancelled"]
  <2>1. on[c] \in Jobs => row \in KeptRow
    BY <1>1, JobUpdates DEF KeptRow
  <2>. QED
    BY <1>1, <1>5, <2>1, JobStepType, HistoryStep DEF CancelJob, TypeOK, Step
<1>6. CASE SkipCommit(c)
  <2>1. [j \in Jobs |-> Seen(c, j)] \in [Jobs -> JobRow]
    BY <1>1, SeenType
  <2>. QED
    BY <1>1, <1>2, <1>6, <2>1, EndType, HistoryStep DEF SkipCommit
<1>7. CASE SendNowCommit(c)
  <2>1. Base(c) \in Draft
    BY <1>1, BaseType
  <2>. QED
    BY <1>1, <1>7, <2>1, EndType, HistoryStep DEF SendNowCommit
<1>. QED
  BY <1>3, <1>4, <1>5, <1>6, <1>7, Answer(c) DEF Answer

LEMMA DeliveryType ==
    ASSUME TypeOK, raced' \in BOOLEAN, NEW t \in Sessions,
           Delivery(t) \/ LoseHistory(t) \/ LoseDeadlock(t) \/ Vanish(t)
    PROVE  TypeOK'
<1>1. /\ Base(t) \in Draft /\ was[t] \in Draft /\ held[t] \in Draft \cup {Clean}
      /\ held \in [Sessions -> Draft \cup {Clean}] /\ was \in [Sessions -> Draft]
  BY BaseType DEF TypeOK
<1>2. \A s \in Status : held[t] \in Draft \cup {Clean} => [held[t] EXCEPT !.status = s] \in Draft
  <2>1. \A s \in Status : [Clean EXCEPT !.status = s] \in Draft
    BY Types DEF Clean, Draft
  <2>. QED
    <3> SUFFICES ASSUME NEW s \in Status, held[t] \in Draft \cup {Clean}
                 PROVE  [held[t] EXCEPT !.status = s] \in Draft
      OBVIOUS
    <3>1. CASE held[t] \in Draft
      BY <3>1, DraftUpdates
    <3>2. CASE held[t] = Clean
      BY <2>1, <3>2
    <3>. QED
      BY <3>1, <3>2
<1>3. \A new \in Draft : Update(Base(t), was[t], new) \in Draft
  BY <1>1, UpdateKeepsType
<1>4. {"SENDING", "THREAD_NOT_FOUND", "SEND_FAILED", "SENT"} \subseteq Status
  BY DEF Status, Terminal
<1>5. CASE ResolveThread(t)
  <2> DEFINE thread == IF was[t].thread # Null THEN was[t].thread ELSE was[t].target
             row == Update(Base(t), was[t], [was[t] EXCEPT !.thread = thread, !.status = "SENDING"])
  <2>1. thread \in Days
    BY <1>1 DEF Draft
  <2>2. row \in Draft
    BY <1>1, <1>3, <1>4, <2>1, DraftUpdates
  <2>3. held' = [held EXCEPT ![t] = row]
    BY <1>5 DEF ResolveThread
  <2> HIDE DEF row
  <2>4. held' \in [Sessions -> Draft \cup {Clean}]
    BY <1>1, <2>2, <2>3
  <2>. QED
    BY <1>1, <1>5, <2>4, MoveType, HistoryStep DEF ResolveThread, Step
<1>6. CASE MissThread(t)
  <2>1. Update(Base(t), was[t], [was[t] EXCEPT !.status = "THREAD_NOT_FOUND"]) \in Draft
    BY <1>1, <1>3, <1>4, DraftUpdates
  <2>. QED
    BY <1>6, <2>1, RaiseType, HistoryStep DEF MissThread
<1>7. CASE LoseHistory(t)
  <2>1. HistoryOK'
    BY <1>7 DEF LoseHistory, Suffer, TypeOK, HistoryOK
  <2>. QED
    BY <1>1, <1>7, <2>1, RaiseType DEF LoseHistory
<1>8. CASE Post(t)
  <2>1. HistoryOK'
    BY <1>8 DEF Post, Reply, TypeOK, HistoryOK
  <2>2. held' = [held EXCEPT ![t] = [held[t] EXCEPT !.status = "SENT"]]
    BY <1>8 DEF Post
  <2>3. held' \in [Sessions -> Draft \cup {Clean}]
    BY <1>1, <1>2, <1>4, <2>2
  <2>4. PICK step \in {"complete", "sent"} : Goto(t, step)
    BY <1>8 DEF Post
  <2>. QED
    BY <1>1, <1>8, <2>1, <2>3, <2>4, MoveType DEF Post, Step
<1>9. CASE RefusePost(t)
  <2>1. HistoryOK'
    BY <1>9 DEF RefusePost, Suffer, Reply, TypeOK, HistoryOK
  <2>2. [held[t] EXCEPT !.status = "SEND_FAILED"] \in Draft
    BY <1>1, <1>2, <1>4
  <2>. QED
    BY <1>9, <2>1, <2>2, RaiseType DEF RefusePost
<1>10. CASE LoseDeadlock(t)
  BY <1>10, RollbackType, HistoryStep DEF LoseDeadlock
<1>11. CASE Vanish(t)
  <2>1. HistoryOK'
    BY <1>11 DEF Vanish, Suffer, TypeOK, HistoryOK
  <2>. QED
    BY <1>11, <2>1, RollbackType DEF Vanish
<1>. QED
  BY <1>5, <1>6, <1>7, <1>8, <1>9, <1>10, <1>11 DEF Delivery

LEMMA PassType ==
    ASSUME TypeOK, raced' \in BOOLEAN, NEW w \in Workers, Pass(w)
    PROVE  TypeOK'
<1>1. /\ w \in Sessions /\ Base(w) \in Draft
      /\ held \in [Sessions -> Draft \cup {Clean}] /\ was \in [Sessions -> Draft]
      /\ on \in [Sessions -> Jobs \cup {0}]
      /\ \A j \in Jobs : Seen(w, j) \in JobRow /\ kept[w][j] \in KeptRow
  BY BaseType, SeenType, KeptType DEF TypeOK, Sessions
<1>2. CASE ClaimRead(w)
  <2>1. PICK j \in Jobs : /\ on' = [on EXCEPT ![w] = j]
                          /\ kept' = [kept EXCEPT ![w][j].attempts = Seen(w, j).attempts]
    BY <1>2 DEF ClaimRead
  <2> DEFINE row == [kept[w][j] EXCEPT !.attempts = Seen(w, j).attempts]
  <2>2. row \in KeptRow
    <3>1. Seen(w, j).attempts \in Nat
      BY <1>1 DEF JobRow
    <3>. QED
      BY <1>1, <3>1, JobUpdates
  <2>3. kept' = [kept EXCEPT ![w][j] = row]
    BY <2>1
  <2>4. on' \in [Sessions -> Jobs \cup {0}]
    BY <1>1, <2>1
  <2> HIDE DEF row
  <2>. QED
    BY <1>1, <1>2, <2>2, <2>3, <2>4, JobStepType, HistoryStep DEF ClaimRead, Step
<1>3. CASE ClaimWrite(w)
  <2> DEFINE j == on[w]
             row == [Seen(w, j) EXCEPT !.state = "running", !.attempts = kept[w][j].attempts + 1]
  <2>1. j \in Jobs => row \in KeptRow
    <3> SUFFICES ASSUME j \in Jobs PROVE row \in KeptRow
      OBVIOUS
    <3>1. kept[w][j].attempts + 1 \in Nat
      <4>1. kept[w][j].attempts \in Nat
        BY <1>1, JobUpdates
      <4>. QED
        BY <4>1
    <3>2. Seen(w, j) \in KeptRow
      BY <1>1 DEF KeptRow
    <3>. QED
      BY <3>1, <3>2, JobUpdates
  <2>2. kept' = [kept EXCEPT ![w][j] = row]
    BY <1>3 DEF ClaimWrite
  <2> HIDE DEF row, j
  <2>. QED
    BY <1>1, <1>3, <2>1, <2>2, JobStepType, HistoryStep DEF ClaimWrite, Step
<1>4. CASE RunJob(w)
  <2>1. was' \in [Sessions -> Draft]
    BY <1>1, <1>4 DEF RunJob
  <2>2. Reopened(Base(w)) \in Draft
    BY <1>1, ReopenedType
  <2>3. held' \in [Sessions -> Draft \cup {Clean}]
    BY <1>1, <1>4, <2>2 DEF RunJob
  <2>4. PICK step \in {"complete", "resolve", "fail"} : Goto(w, step)
    BY <1>4 DEF RunJob
  <2>. QED
    BY <1>1, <1>4, <2>1, <2>3, <2>4, MoveType, HistoryStep DEF RunJob, Step
<1>5. CASE CompleteJob(w)
  <2> DEFINE j == on[w]
             row == [kept[w][j] EXCEPT !.state = "succeeded"]
  <2>1. j \in Jobs => row \in KeptRow
    BY <1>1, JobUpdates
  <2>2. kept' = [kept EXCEPT ![w][j] = row]
    BY <1>5 DEF CompleteJob
  <2> HIDE DEF row, j
  <2>. QED
    BY <1>1, <1>5, <2>1, <2>2, JobStepType, HistoryStep DEF CompleteJob, Step
<1>6. CASE FailJob(w)
  <2> DEFINE j == on[w]
             old == kept[w][j]
             row == IF old.attempts >= MaxAttempts THEN [old EXCEPT !.state = "dead_letter"]
                    ELSE [old EXCEPT !.state = "queued", !.due = FALSE]
  <2>1. j \in Jobs => row \in KeptRow
    BY <1>1, JobUpdates
  <2>2. kept' = [kept EXCEPT ![w][j] = row]
    BY <1>6 DEF FailJob
  <2> HIDE DEF row, j
  <2>. QED
    BY <1>1, <1>6, <2>1, <2>2, JobStepType, HistoryStep DEF FailJob, Step
<1>7. CASE CommitPass(w)
  <2>1. [j \in Jobs |-> Seen(w, j)] \in [Jobs -> JobRow]
    BY <1>1
  <2>. QED
    BY <1>1, <1>7, <2>1, EndType, HistoryStep DEF CommitPass
<1>. QED
  BY <1>2, <1>3, <1>4, <1>5, <1>6, <1>7, Pass(w) DEF Pass

LEMMA BackoffType ==
    ASSUME TypeOK, raced' \in BOOLEAN, NEW j \in Jobs, BackoffEnds(j)
    PROVE  TypeOK'
<1>1. job' \in [Jobs -> JobRow]
  BY DEF BackoffEnds, TypeOK, JobRow
<1>. QED
  BY <1>1, HistoryStep DEF BackoffEnds, TypeOK, HistoryOK, sessions

LEMMA TypeStep == TypeOK /\ [Next]_vars => TypeOK'
<1>1. ASSUME TypeOK, Next PROVE TypeOK'
  <2>1. raced' \in BOOLEAN
    BY <1>1 DEF Next
  <2>. QED
    BY <1>1, <2>1, RequestType, AnswerType, DeliveryType, PassType, BackoffType
       DEF Next, SessionStep
<1>2. ASSUME TypeOK, UNCHANGED vars PROVE TypeOK'
  BY <1>2 DEF TypeOK, vars, rows, sessions, history
<1>. QED
  BY <1>1, <1>2

\* Every row, committed or flushed, keeps its type: merging the columns of
\* overlapping sessions never yields anything but a draft.
THEOREM TypeCorrect == Spec => []TypeOK
BY InitType, TypeStep, PTL DEF Spec

--------------------------------------------------------------------------------
(* Consent *)

\* A hash stands for nothing, or for what some committed approval froze.
Vouched(h) == h = NoSnapshot \/ h \in consented

\* The inductive invariant: every hash a session could write is vouched for, the
\* one of an approval in flight excepted, and a delivery that got past the checks
\* loaded a snapshot that still hashes to what was approved.
Vouching ==
    /\ Vouched(draft.hash)
    /\ \A t \in Sessions :
          /\ Vouched(was[t].hash) /\ Vouched(held[t].hash)
          /\ at[t] # "approve" => Vouched(now[t].hash)
          /\ at[t] \in {"resolve", "post"} => Approved(was[t]) /\ Intact(was[t])

LEMMA InitVouching == Init => Vouching
<1>1. NewDraft.hash = NoSnapshot /\ Clean.hash = NoSnapshot
  BY DEF NewDraft, Clean
<1>2. \A text : [NewDraft EXCEPT !.text = text].hash = NoSnapshot
  BY DEF NewDraft
<1> SUFFICES ASSUME Init PROVE Vouching
  OBVIOUS
<1>3. draft.hash = NoSnapshot
  BY <1>2 DEF Init
<1>4. \A t \in Sessions : at[t] = "idle" /\ was[t] = NewDraft /\ now[t] = NewDraft /\ held[t] = Clean
  BY DEF Init
<1>. QED
  BY <1>1, <1>3, <1>4 DEF Vouching, Vouched

LEMMA EndVouching ==
    ASSUME TypeOK, Vouching, NEW t \in Sessions, NEW row, NEW jobs, End(t, row, jobs),
           consented \subseteq consented', row.hash = NoSnapshot \/ row.hash \in consented'
    PROVE  Vouching'
<1>1. NewDraft.hash = NoSnapshot /\ Clean.hash = NoSnapshot
  BY DEF NewDraft, Clean
<1>2. /\ at' = [at EXCEPT ![t] = "idle"] /\ was' = [was EXCEPT ![t] = NewDraft]
      /\ now' = [now EXCEPT ![t] = NewDraft] /\ held' = [held EXCEPT ![t] = Clean]
      /\ draft' = row
  BY DEF End, Goto
<1>. QED
  BY <1>1, <1>2 DEF Vouching, Vouched, Approved, Intact, TypeOK

LEMMA RollbackVouching ==
    ASSUME TypeOK, Vouching, NEW t \in Sessions, Rollback(t), UNCHANGED consented
    PROVE  Vouching'
BY EndVouching DEF Rollback, Vouching, Vouched

\* A session moves on; what it has flushed is vouched for.
LEMMA MoveVouching ==
    ASSUME TypeOK, Vouching, NEW t \in Sessions, NEW step, Goto(t, step), UNCHANGED <<rows, consented>>,
           UNCHANGED <<was, now>>, step \notin {"resolve", "approve"},
           step = "post" => at[t] = "resolve", at[t] # "approve",
           NEW row, held' = [held EXCEPT ![t] = row] \/ UNCHANGED held, Vouched(row.hash)
    PROVE  Vouching'
<1>1. at' = [at EXCEPT ![t] = step]
  BY DEF Goto
<1>. QED
  BY <1>1 DEF Vouching, Vouched, Approved, Intact, TypeOK, rows

LEMMA RaiseVouching ==
    ASSUME TypeOK, Vouching, NEW t \in Sessions, NEW row, Raise(t, row), UNCHANGED consented,
           Vouched(row.hash), at[t] # "approve"
    PROVE  Vouching'
<1>1. CASE t \in Workers
  BY <1>1, MoveVouching DEF Raise, rows
<1>2. CASE t \notin Workers
  BY <1>2, RollbackVouching DEF Raise
<1>. QED
  BY <1>1, <1>2

LEMMA LoadVouching ==
    ASSUME TypeOK, Vouching, NEW c \in Clients, NEW step, NEW row, Load(c, step, row),
           step # "post", step = "approve" \/ Vouched(row.hash),
           step = "resolve" => Deliverable(draft)
    PROVE  Vouching'
<1>1. /\ at' = [at EXCEPT ![c] = step] /\ was' = [was EXCEPT ![c] = draft]
      /\ now' = [now EXCEPT ![c] = row] /\ UNCHANGED <<draft, held, consented>>
  BY DEF Load, Goto, rows
<1>2. c \in Sessions
  BY DEF Sessions
<1>. QED
  BY <1>1, <1>2 DEF Vouching, Vouched, Deliverable, Approved, Intact, TypeOK

LEMMA UpdateVouched ==
    ASSUME NEW row \in Draft, NEW old \in Draft, NEW new \in Draft,
           Vouched(row.hash), Vouched(new.hash)
    PROVE  Vouched(Update(row, old, new).hash)
BY UpdateKeepsType DEF Vouched

LEMMA BaseVouched ==
    ASSUME TypeOK, Vouching, NEW t \in Sessions
    PROVE  Vouched(Base(t).hash)
BY DEF Base, Vouching

LEMMA RequestVouching ==
    ASSUME TypeOK, Vouching, NEW c \in Clients, Request(c)
    PROVE  Vouching'
<1>1. draft \in Draft /\ Vouched(draft.hash) /\ Vouched(NoSnapshot)
  BY DEF TypeOK, Vouching, Vouched
<1>2. CASE EditDraft(c)
  <2>1. PICK text \in Text : Load(c, "write", Reopened([draft EXCEPT !.text = text]))
    BY <1>2 DEF EditDraft
  <2>2. Reopened([draft EXCEPT !.text = text]).hash = NoSnapshot
    BY <1>1, DraftUpdates, ReopenedType
  <2>. QED
    BY <1>1, <2>1, <2>2, LoadVouching
<1>3. CASE GenerateDraft(c)
  <2>1. PICK text \in Text, day \in Days :
           Load(c, "write", Reopened([draft EXCEPT !.text = text, !.target = day]))
    BY <1>3 DEF GenerateDraft
  <2>2. Reopened([draft EXCEPT !.text = text, !.target = day]).hash = NoSnapshot
    BY <1>1, DraftUpdates, ReopenedType
  <2>. QED
    BY <1>1, <2>1, <2>2, LoadVouching
<1>4. CASE Approve(c)
  <2>1. PICK row : Load(c, "approve", row)
    BY <1>4 DEF Approve
  <2>. QED
    BY <2>1, LoadVouching
<1>5. CASE Skip(c)
  <2>1. PICK step \in {"cancel", "skip"} : Load(c, step, [draft EXCEPT !.status = "SKIPPED"])
    BY <1>5 DEF Skip
  <2>2. [draft EXCEPT !.status = "SKIPPED"].hash = draft.hash
    BY <1>1 DEF Draft
  <2>. QED
    BY <1>1, <2>1, <2>2, LoadVouching
<1>6. CASE SendNow(c)
  BY <1>1, <1>6, LoadVouching DEF SendNow
<1>. QED
  BY <1>2, <1>3, <1>4, <1>5, <1>6, Request(c) DEF Request

LEMMA AnswerVouching ==
    ASSUME TypeOK, Vouching, NEW c \in Clients, Answer(c)
    PROVE  Vouching'
<1>1. /\ draft \in Draft /\ was[c] \in Draft /\ now[c] \in Draft /\ c \in Sessions
      /\ Vouched(draft.hash) /\ (at[c] # "approve" => Vouched(now[c].hash))
  BY DEF TypeOK, Sessions, Vouching
<1>2. CASE WriteDraft(c)
  <2>1. Vouched(Update(draft, was[c], now[c]).hash)
    BY <1>1, <1>2, UpdateVouched DEF WriteDraft
  <2>. QED
    BY <1>1, <1>2, <2>1, EndVouching DEF WriteDraft, history, Vouched
<1>3. CASE ApproveCommit(c)
  <2> DEFINE merged == Update(draft, was[c], now[c])
  <2>0. PICK j \in Jobs : \E jobs : End(c, [merged EXCEPT !.job = j], jobs)
    BY <1>3 DEF ApproveCommit
  <2>1. PICK jobs : End(c, [merged EXCEPT !.job = j], jobs)
    BY <2>0
  <2>2. consented' = consented \cup {now[c].hash}
    BY <1>3 DEF ApproveCommit
  <2>3. merged \in Draft /\ merged.hash \in {draft.hash, now[c].hash}
    BY <1>1, UpdateKeepsType
  <2> HIDE DEF merged
  <2>4. [merged EXCEPT !.job = j].hash = merged.hash
    BY <2>3 DEF Draft
  <2>5. merged.hash = NoSnapshot \/ merged.hash \in consented'
    BY <1>1, <2>2, <2>3 DEF Vouched
  <2>6. consented \subseteq consented'
    BY <2>2
  <2> DEFINE row == [merged EXCEPT !.job = j]
  <2>7. End(c, row, jobs) /\ (row.hash = NoSnapshot \/ row.hash \in consented')
    BY <2>1, <2>4, <2>5
  <2> HIDE DEF row
  <2>. QED
    BY <1>1, <2>6, <2>7, EndVouching
<1>4. CASE CancelJob(c)
  BY <1>1, <1>4, MoveVouching DEF CancelJob, rows, history
<1>5. CASE SkipCommit(c)
  <2>1. Vouched(Update(draft, was[c], now[c]).hash)
    BY <1>1, <1>5, UpdateVouched DEF SkipCommit
  <2>. QED
    BY <1>1, <1>5, <2>1, EndVouching DEF SkipCommit, history, Vouched
<1>6. CASE SendNowCommit(c)
  BY <1>1, <1>6, BaseVouched, EndVouching DEF SendNowCommit, history, Vouched
<1>. QED
  BY <1>2, <1>3, <1>4, <1>5, <1>6, Answer(c) DEF Answer

LEMMA DeliveryVouching ==
    ASSUME TypeOK, Vouching, NEW t \in Sessions,
           Delivery(t) \/ LoseHistory(t) \/ LoseDeadlock(t) \/ Vanish(t)
    PROVE  Vouching'
<1>1. /\ was[t] \in Draft /\ Base(t) \in Draft /\ Vouched(Base(t).hash)
      /\ Vouched(was[t].hash) /\ Vouched(held[t].hash)
      /\ held[t] \in Draft \cup {Clean}
  BY BaseType, BaseVouched DEF TypeOK, Vouching
<1>2. ASSUME NEW row \in Draft, row.hash = was[t].hash
      PROVE  Vouched(Update(Base(t), was[t], row).hash)
  BY <1>1, <1>2, UpdateVouched
<1>3. \A s : [held[t] EXCEPT !.status = s].hash = held[t].hash
  BY <1>1 DEF Draft, Clean, NewDraft
<1>4. CASE ResolveThread(t)
  <2> DEFINE thread == IF was[t].thread # Null THEN was[t].thread ELSE was[t].target
             new == [was[t] EXCEPT !.thread = thread, !.status = "SENDING"]
             row == Update(Base(t), was[t], new)
  <2>1. new \in Draft /\ new.hash = was[t].hash
    <3>1. thread \in Days /\ "SENDING" \in Status
      BY <1>1 DEF Draft, Status
    <3>2. new.hash = was[t].hash
      BY <1>1 DEF Draft
    <3>. QED
      BY <1>1, <3>1, <3>2, DraftUpdates
  <2>2. Vouched(row.hash)
    BY <1>2, <2>1
  <2>3. held' = [held EXCEPT ![t] = row] /\ Goto(t, "post") /\ at[t] = "resolve"
    BY <1>4 DEF ResolveThread
  <2>4. UNCHANGED <<rows, was, now, consented>>
    BY <1>4 DEF ResolveThread, history
  <2> HIDE DEF row
  <2>. QED
    BY <2>2, <2>3, <2>4, MoveVouching
<1>5. CASE MissThread(t)
  <2> DEFINE new == [was[t] EXCEPT !.status = "THREAD_NOT_FOUND"]
             row == Update(Base(t), was[t], new)
  <2>1. new \in Draft /\ new.hash = was[t].hash
    <3>1. "THREAD_NOT_FOUND" \in Status
      BY DEF Status
    <3>2. new.hash = was[t].hash
      BY <1>1 DEF Draft
    <3>. QED
      BY <1>1, <3>1, <3>2, DraftUpdates
  <2>2. Vouched(row.hash)
    BY <1>2, <2>1
  <2>3. Raise(t, row) /\ at[t] = "resolve" /\ UNCHANGED consented
    BY <1>5 DEF MissThread, history
  <2> HIDE DEF row
  <2>. QED
    BY <2>2, <2>3, RaiseVouching
<1>6. CASE LoseHistory(t)
  BY <1>1, <1>6, RaiseVouching DEF LoseHistory
<1>7. CASE Post(t)
  <2> DEFINE row == [held[t] EXCEPT !.status = "SENT"]
  <2>1. Vouched(row.hash)
    BY <1>1, <1>3
  <2>2. held' = [held EXCEPT ![t] = row]
    BY <1>7 DEF Post
  <2>3. PICK step \in {"complete", "sent"} : Goto(t, step)
    BY <1>7 DEF Post
  <2>4. UNCHANGED <<rows, was, now, consented>> /\ at[t] = "post"
    BY <1>7 DEF Post
  <2> HIDE DEF row
  <2>. QED
    BY <2>1, <2>2, <2>3, <2>4, MoveVouching
<1>8. CASE RefusePost(t)
  <2> DEFINE row == [held[t] EXCEPT !.status = "SEND_FAILED"]
  <2>1. Vouched(row.hash)
    BY <1>1, <1>3
  <2>2. Raise(t, row) /\ at[t] = "post" /\ UNCHANGED consented
    BY <1>8 DEF RefusePost
  <2> HIDE DEF row
  <2>. QED
    BY <2>1, <2>2, RaiseVouching
<1>9. CASE LoseDeadlock(t) \/ Vanish(t)
  BY <1>9, RollbackVouching DEF LoseDeadlock, Vanish, history
<1>. QED
  BY <1>4, <1>5, <1>6, <1>7, <1>8, <1>9 DEF Delivery

LEMMA PassVouching ==
    ASSUME TypeOK, Vouching, NEW w \in Workers, Pass(w)
    PROVE  Vouching'
<1>1. w \in Sessions /\ Base(w) \in Draft /\ Vouched(Base(w).hash) /\ Vouched(held[w].hash)
  BY BaseType, BaseVouched DEF Sessions, Vouching
<1>2. CASE ClaimRead(w) \/ ClaimWrite(w) \/ CompleteJob(w) \/ FailJob(w)
  <2>1. UNCHANGED <<rows, was, now, held, consented>> /\ at[w] # "approve"
    BY <1>2 DEF ClaimRead, ClaimWrite, CompleteJob, FailJob, history
  <2>2. PICK step \in {"claim", "run", "drain"} : Goto(w, step)
    BY <1>2 DEF ClaimRead, ClaimWrite, CompleteJob, FailJob
  <2>. QED
    BY <1>1, <2>1, <2>2, MoveVouching
<1>3. CASE RunJob(w)
  <2>1. /\ was' = [was EXCEPT ![w] = Base(w)] /\ at[w] = "run"
        /\ UNCHANGED <<rows, now, consented>>
    BY <1>3 DEF RunJob, history
  <2>2. \/ Goto(w, "resolve") /\ Deliverable(Base(w)) /\ UNCHANGED held
        \/ (Goto(w, "complete") \/ Goto(w, "fail")) /\ UNCHANGED held
        \/ Goto(w, "fail") /\ held' = [held EXCEPT ![w] = Reopened(Base(w))]
    BY <1>3 DEF RunJob
  <2>3. Reopened(Base(w)).hash = NoSnapshot
    BY <1>1, ReopenedType
  <2>4. \A t \in Sessions : Vouched(held'[t].hash)
    BY <1>1, <2>2, <2>3 DEF Vouching, Vouched, TypeOK
  <2>5. at' \in {[at EXCEPT ![w] = step] : step \in {"resolve", "complete", "fail"}}
    BY <2>2 DEF Goto
  <2>6. at'[w] = "resolve" => Deliverable(Base(w))
    BY <1>1, <2>2 DEF Goto, TypeOK
  <2>7. \A t \in Sessions : Vouched(was'[t].hash)
    BY <1>1, <2>1 DEF Vouching, TypeOK
  <2>. QED
    BY <1>1, <2>1, <2>4, <2>5, <2>6, <2>7
       DEF Vouching, Vouched, Deliverable, Approved, Intact, TypeOK, rows
<1>4. CASE CommitPass(w)
  BY <1>1, <1>4, EndVouching DEF CommitPass, history, Vouched
<1>. QED
  BY <1>2, <1>3, <1>4, Pass(w) DEF Pass

LEMMA VouchingStep == TypeOK /\ Vouching /\ [Next]_vars => Vouching'
<1>1. ASSUME TypeOK, Vouching, Next PROVE Vouching'
  <2>1. ASSUME NEW j \in Jobs, BackoffEnds(j) PROVE Vouching'
    BY <1>1, <2>1 DEF BackoffEnds, sessions, history, Vouching, Vouched, Approved, Intact
  <2>. QED
    BY <1>1, <2>1, RequestVouching, AnswerVouching, DeliveryVouching, PassVouching
       DEF Next, SessionStep
<1>2. ASSUME Vouching, UNCHANGED vars PROVE Vouching'
  BY <1>2 DEF vars, rows, sessions, history, Vouching, Vouched, Approved, Intact
<1>. QED
  BY <1>1, <1>2

LEMMA VouchingIsEnough == Vouching => OnlyConsentedText
<1> SUFFICES ASSUME Vouching, NEW t \in Sessions, at[t] = "post"
             PROVE  Filled(was[t].frozen) \in consented
  BY DEF OnlyConsentedText
<1>1. Approved(was[t]) /\ Intact(was[t]) /\ Vouched(was[t].hash)
  BY DEF Vouching
<1>. QED
  BY <1>1 DEF Approved, Intact, Vouched

\* Delivery posts only what one approval froze, however many requests edit, approve
\* and deliver at once: mixed columns are caught by the hash.
THEOREM ConsentedText == Spec => []OnlyConsentedText
<1>1. Init => TypeOK /\ Vouching
  BY InitType, InitVouching
<1>2. TypeOK /\ Vouching /\ [Next]_vars => (TypeOK /\ Vouching)'
  BY TypeStep, VouchingStep
<1>. QED
  BY <1>1, <1>2, VouchingIsEnough, PTL DEF Spec
--------------------------------------------------------------------------------
(* One session at a time *)

Loaded == {"write", "approve", "cancel", "skip"}

\* What session t relies on while nothing else is open: the row it loaded is the
\* row it will write, and a row it holds replaces none that is history.
Undisturbed(t) ==
    /\ at[t] \in Loaded => ~Holds(t) /\ was[t] = draft /\ draft.status \notin Terminal
    /\ at[t] = "resolve" => was[t] = Base(t) /\ was[t].status \notin Terminal
    /\ at[t] = "post" => Holds(t) /\ held[t].status = "SENDING"
    /\ Holds(t) => draft.status \notin Terminal

\* A reply in Slack is on the record: committed, or flushed by who posted it.
Posted == draft.status = "SENT" \/ \E t \in Sessions : Holds(t) /\ held[t].status = "SENT"

\* The inductive invariant: until two sessions are open at once, each finds what it
\* loaded, and, nothing having died, one reply at most is out and the row says so.
Lone ==
    /\ \A t \in Sessions : at[t] = "idle" => ~Holds(t)
    /\ ~raced =>
          /\ ~Races
          /\ \A t \in Sessions : Undisturbed(t)
          /\ faults = {} => posts <= 1 /\ (posts # 0 => Posted)

Watch == raced' = (raced \/ Races')

LEMMA InitLone == Init => Lone
BY DEF Init, Lone, Races, Undisturbed, Loaded, Holds

\* What a session finds when, after its step, no two sessions have been open at once.
LEMMA LoneBefore ==
    ASSUME TypeOK, Lone, Watch, ~raced', NEW t \in Sessions, NEW step, Goto(t, step),
           step # "idle" \/ at[t] # "idle"
    PROVE  /\ ~raced /\ ~Races' /\ Undisturbed(t)
           /\ \A u \in Sessions \ {t} : at[u] = "idle" /\ at'[u] = "idle" /\ ~Holds(u)
           /\ faults = {} =>
                posts <= 1 /\ (posts # 0 => draft.status = "SENT" \/ (Holds(t) /\ held[t].status = "SENT"))
<1>1. at' = [at EXCEPT ![t] = step] /\ at \in [Sessions -> Step]
  BY DEF Goto, TypeOK
<1>2. ~raced /\ ~Races' /\ ~Races
  BY DEF Watch, Lone
<1>3. \A u \in Sessions \ {t} : at[u] = "idle" /\ at'[u] = "idle"
  BY <1>1, <1>2 DEF Races
<1>4. \A u \in Sessions \ {t} : ~Holds(u)
  BY <1>3 DEF Lone
<1>. QED
  BY <1>2, <1>3, <1>4 DEF Lone, Posted

\* A session moves on.
LEMMA MoveLone ==
    ASSUME TypeOK, Lone, Watch, NEW t \in Sessions, NEW step, Goto(t, step), step # "idle",
           NEW flushed, UNCHANGED draft,
           held' = [held EXCEPT ![t] = flushed] \/ (UNCHANGED held /\ flushed = held[t]),
           ~raced' =>
              /\ step \in Loaded => flushed = Clean /\ was'[t] = draft /\ draft.status \notin Terminal
              /\ step = "resolve" => /\ was'[t] = IF flushed # Clean THEN flushed ELSE draft
                                     /\ was'[t].status \notin Terminal
              /\ step = "post" => flushed # Clean /\ flushed.status = "SENDING"
              /\ flushed # Clean => draft.status \notin Terminal
              /\ faults' = {} =>
                    /\ posts' <= 1
                    /\ posts' # 0 => draft.status = "SENT" \/ (flushed # Clean /\ flushed.status = "SENT")
    PROVE  Lone'
<1>1. /\ at' = [at EXCEPT ![t] = step] /\ at \in [Sessions -> Step]
      /\ held \in [Sessions -> Draft \cup {Clean}]
  BY DEF Goto, TypeOK
<1>2. at'[t] = step /\ held'[t] = flushed
  BY <1>1
<1>3. \A u \in Sessions \ {t} : at'[u] = at[u] /\ held'[u] = held[u]
  BY <1>1
<1>4. \A u \in Sessions : at'[u] = "idle" => ~Holds(u)'
  BY <1>2, <1>3 DEF Lone, Holds
<1>5. ASSUME ~raced'
      PROVE  /\ ~Races' /\ \A u \in Sessions : Undisturbed(u)'
             /\ faults' = {} => posts' <= 1 /\ (posts' # 0 => Posted')
  <2>1. ~Races' /\ \A u \in Sessions \ {t} : at'[u] = "idle" /\ held'[u] = Clean
    BY <1>3, <1>5, LoneBefore DEF Holds
  <2>2. Undisturbed(t)'
    BY <1>2, <1>5 DEF Undisturbed, Holds, Base
  <2>3. \A u \in Sessions \ {t} : Undisturbed(u)'
    BY <2>1 DEF Undisturbed, Holds, Loaded
  <2>4. faults' = {} => posts' <= 1 /\ (posts' # 0 => Posted')
    BY <1>2, <1>5 DEF Posted, Holds
  <2>. QED
    BY <2>1, <2>2, <2>3, <2>4
<1>. QED
  BY <1>4, <1>5 DEF Lone

\* A session ends, leaving a row that says SENT if a reply is out.
LEMMA EndLone ==
    ASSUME TypeOK, Lone, Watch, NEW t \in Sessions, NEW row, NEW jobs, End(t, row, jobs),
           at[t] # "idle",
           ~raced' /\ faults' = {} => posts' <= 1 /\ (posts' # 0 => row.status = "SENT")
    PROVE  Lone'
<1>1. /\ at' = [at EXCEPT ![t] = "idle"] /\ held' = [held EXCEPT ![t] = Clean] /\ draft' = row
      /\ at \in [Sessions -> Step] /\ held \in [Sessions -> Draft \cup {Clean}]
      /\ Goto(t, "idle")
  BY DEF End, Goto, TypeOK
<1>2. \A u \in Sessions : at'[u] = "idle" => ~Holds(u)'
  BY <1>1 DEF Lone, Holds
<1>3. ASSUME ~raced'
      PROVE  /\ ~Races' /\ \A u \in Sessions : Undisturbed(u)'
             /\ faults' = {} => posts' <= 1 /\ (posts' # 0 => Posted')
  <2>1. ~Races' /\ \A u \in Sessions : at'[u] = "idle"
    BY <1>1, <1>3, LoneBefore
  <2>2. \A u \in Sessions : Undisturbed(u)'
    BY <1>2, <2>1 DEF Undisturbed, Loaded
  <2>3. faults' = {} => posts' <= 1 /\ (posts' # 0 => Posted')
    BY <1>1, <1>3 DEF Posted
  <2>. QED
    BY <2>1, <2>2, <2>3
<1>. QED
  BY <1>2, <1>3 DEF Lone

\* A session flushes a row ...
LEMMA FlushLone ==
    ASSUME TypeOK, Lone, Watch, NEW t \in Sessions, NEW flushed, UNCHANGED draft,
           NEW step, step \in {"post", "sent", "complete", "fail"}, Goto(t, step),
           held' = [held EXCEPT ![t] = flushed], flushed # Clean,
           step = "post" /\ ~raced' => flushed.status = "SENDING",
           ~raced' => draft.status \notin Terminal,
           ~raced' /\ faults' = {} => posts' = 0 \/ (posts' = 1 /\ flushed.status = "SENT")
    PROVE  Lone'
<1>1. step # "idle" /\ step \notin Loaded /\ step # "resolve"
  BY DEF Loaded
<1>2. ~raced' /\ faults' = {} => /\ posts' <= 1
                                 /\ posts' # 0 => flushed.status = "SENT"
  OBVIOUS
<1>3. held' = [held EXCEPT ![t] = flushed] \/ (UNCHANGED held /\ flushed = held[t])
  OBVIOUS
<1>. QED
  BY <1>1, <1>2, <1>3, MoveLone

\* ... or goes on with the row it has.
LEMMA StepLone ==
    ASSUME TypeOK, Lone, Watch, NEW t \in Sessions, UNCHANGED <<draft, held, posts, faults>>,
           NEW step \in {"claim", "run", "resolve", "complete", "fail", "drain"}, Goto(t, step),
           step = "resolve" => was'[t] = Base(t) /\ Base(t).status \notin Terminal
    PROVE  Lone'
<1>1. step # "idle" /\ step \notin Loaded /\ step # "post"
  BY DEF Loaded
<1>2. ~raced' => /\ Undisturbed(t)
                 /\ faults = {} => /\ posts <= 1
                                   /\ posts # 0 => draft.status = "SENT" \/ (Holds(t) /\ held[t].status = "SENT")
  BY <1>1, LoneBefore
<1>. QED
  BY <1>1, <1>2, MoveLone DEF Undisturbed, Holds, Base

\* Who has loaded a row that is not history knows that nothing is out.
LEMMA NothingOut ==
    ASSUME TypeOK, Lone, Watch, ~raced', NEW t \in Sessions, NEW step, Goto(t, step),
           at[t] \in Loaded \cup {"resolve", "post"}
    PROVE  /\ draft.status \notin Terminal
           /\ faults = {} => posts = 0
<1>1. /\ Undisturbed(t)
      /\ faults = {} =>
           posts <= 1 /\ (posts # 0 => draft.status = "SENT" \/ (Holds(t) /\ held[t].status = "SENT"))
  BY LoneBefore DEF Loaded
<1>2. draft.status \notin Terminal /\ ~(Holds(t) /\ held[t].status = "SENT")
  BY <1>1 DEF Undisturbed, Base, Terminal
<1>. QED
  BY <1>1, <1>2 DEF Terminal, TypeOK

\* An exception whose session may have posted nothing.
LEMMA RaiseLone ==
    ASSUME TypeOK, Lone, Watch, NEW t \in Sessions, NEW row \in Draft, Raise(t, row),
           at[t] \in {"resolve", "post"}, faults' = {} => faults = {} /\ posts' = posts
    PROVE  Lone'
<1>1. CASE t \in Workers
  <2>1. /\ Goto(t, "fail") /\ held' = [held EXCEPT ![t] = row] /\ UNCHANGED <<draft, was>>
    BY <1>1 DEF Raise, rows
  <2>2. (~raced' => draft.status \notin Terminal) /\ (~raced' /\ faults' = {} => posts' = 0)
    BY <2>1, NothingOut
  <2>3. row # Clean
    BY DEF Draft, Clean, NewDraft, Status, Terminal
  <2>. QED
    BY <2>1, <2>2, <2>3, FlushLone
<1>2. CASE t \notin Workers
  <2>1. End(t, draft, job) /\ Goto(t, "idle")
    BY <1>2 DEF Raise, Rollback, End
  <2>2. ~raced' => (faults' = {} => posts' = 0)
    BY <2>1, NothingOut
  <2>. QED
    BY <2>1, <2>2, EndLone
<1>. QED
  BY <1>1, <1>2

LEMMA LoadLone ==
    ASSUME TypeOK, Lone, Watch, NEW c \in Clients, NEW step \in Loaded \cup {"resolve"}, NEW row,
           Load(c, step, row), draft.status \notin Terminal
    PROVE  Lone'
<1>1. /\ Goto(c, step) /\ was' = [was EXCEPT ![c] = draft] /\ UNCHANGED <<draft, held, posts, faults>>
      /\ c \in Sessions /\ at[c] = "idle" /\ step # "idle" /\ step # "post"
  BY DEF Load, rows, Sessions, Loaded
<1>2. held[c] = Clean
  BY <1>1 DEF Lone, Holds
<1>3. ~raced' /\ faults' = {} => posts' <= 1 /\ (posts' # 0 => draft.status = "SENT")
  BY <1>1, <1>2, LoneBefore DEF Holds
<1>4. was'[c] = draft /\ held'[c] = Clean
  BY <1>1, <1>2 DEF TypeOK
<1>. QED
  BY <1>1, <1>2, <1>3, <1>4, MoveLone

LEMMA RequestLone ==
    ASSUME TypeOK, Lone, Watch, NEW c \in Clients, Request(c)
    PROVE  Lone'
<1>1. draft.status \notin Terminal
  BY DEF Request, EditDraft, GenerateDraft, Approve, Skip, SendNow, Deliverable
<1>2. PICK step \in Loaded \cup {"resolve"} : \E row : Load(c, step, row)
  BY DEF Request, EditDraft, GenerateDraft, Approve, Skip, SendNow, Loaded
<1>. QED
  BY <1>1, <1>2, LoadLone

LEMMA AnswerLone ==
    ASSUME TypeOK, Lone, Watch, NEW c \in Clients, Answer(c)
    PROVE  Lone'
<1>1. c \in Sessions
  BY DEF Sessions
<1>2. UNCHANGED <<posts, faults>> /\ at[c] # "idle"
  BY DEF Answer, WriteDraft, ApproveCommit, CancelJob, SkipCommit, SendNowCommit, history
<1>3. CASE WriteDraft(c) \/ ApproveCommit(c) \/ SkipCommit(c)
  <2>1. PICK row, jobs : End(c, row, jobs)
    BY <1>3 DEF WriteDraft, ApproveCommit, SkipCommit
  <2>2. at[c] \in Loaded /\ Goto(c, "idle")
    BY <1>3, <2>1 DEF WriteDraft, ApproveCommit, SkipCommit, Loaded, End
  <2>3. ~raced' => (faults = {} => posts = 0)
    BY <1>1, <2>2, NothingOut
  <2>. QED
    BY <1>1, <1>2, <2>1, <2>3, EndLone
<1>4. CASE CancelJob(c)
  <2>1. Goto(c, "skip") /\ at[c] = "cancel" /\ UNCHANGED <<draft, was, held>>
    BY <1>4 DEF CancelJob, rows
  <2>2. ~raced' => Undisturbed(c) /\ (faults = {} => posts = 0)
    BY <1>1, <2>1, NothingOut, LoneBefore DEF Loaded
  <2>. QED
    BY <1>1, <1>2, <2>1, <2>2, MoveLone DEF Undisturbed, Holds, Loaded
<1>5. CASE SendNowCommit(c)
  <2>1. End(c, Base(c), job) /\ Goto(c, "idle")
    BY <1>5 DEF SendNowCommit, End
  <2>2. ~raced' => /\ Undisturbed(c)
                   /\ faults = {} => posts <= 1 /\ (posts # 0 => draft.status = "SENT" \/ (Holds(c) /\ held[c].status = "SENT"))
    BY <1>1, <1>2, <2>1, LoneBefore
  <2>3. ~raced' /\ faults = {} => posts <= 1 /\ (posts # 0 => Base(c).status = "SENT")
    BY <2>2 DEF Base, Undisturbed, Terminal
  <2>. QED
    BY <1>1, <1>2, <2>1, <2>3, EndLone
<1>. QED
  BY <1>3, <1>4, <1>5, Answer(c) DEF Answer

LEMMA DeliveryLone ==
    ASSUME TypeOK, Lone, Watch, NEW t \in Sessions,
           Delivery(t) \/ LoseHistory(t) \/ LoseDeadlock(t) \/ Vanish(t)
    PROVE  Lone'
<1>1. /\ Base(t) \in Draft /\ was[t] \in Draft /\ held[t] \in Draft \cup {Clean}
  BY BaseType DEF TypeOK
<1>2. \A s \in Status : [was[t] EXCEPT !.status = s] \in Draft
  BY <1>1, DraftUpdates
<1>3. {"SENDING", "THREAD_NOT_FOUND", "SEND_FAILED", "SENT"} \subseteq Status
  BY DEF Status, Terminal
<1>4. CASE ResolveThread(t)
  <2> DEFINE thread == IF was[t].thread # Null THEN was[t].thread ELSE was[t].target
             new == [was[t] EXCEPT !.thread = thread, !.status = "SENDING"]
             row == Update(Base(t), was[t], new)
  <2>1. /\ at[t] = "resolve" /\ Goto(t, "post") /\ held' = [held EXCEPT ![t] = row]
        /\ UNCHANGED <<draft, was, posts, faults>>
    BY <1>4 DEF ResolveThread, rows, history
  <2>2. new.status = "SENDING"
    BY <1>1 DEF Draft
  <2>3. row.status = Column(new.status, was[t].status, Base(t).status)
    BY DEF Update
  <2>4. was[t] = Base(t) => row.status = "SENDING"
    BY <2>2, <2>3 DEF Column
  <2>5. /\ ~raced' => was[t] = Base(t) /\ draft.status \notin Terminal
        /\ ~raced' /\ faults' = {} => posts' = 0
    BY <2>1, NothingOut, LoneBefore DEF Undisturbed
  <2>6. ~raced' => row.status = "SENDING"
    BY <2>4, <2>5
  <2>7. row # Clean
    <3>1. row \in Draft
      <4>1. thread \in Days
        BY <1>1 DEF Draft
      <4>2. new \in Draft
        BY <1>1, <1>3, <4>1, DraftUpdates
      <4>. QED
        BY <1>1, <4>2, UpdateKeepsType DEF row
    <3>. QED
      BY <3>1 DEF Draft, Clean, NewDraft, Status, Terminal
  <2>. QED
    BY <2>1, <2>5, <2>6, <2>7, FlushLone
<1>5. CASE MissThread(t)
  <2>1. Update(Base(t), was[t], [was[t] EXCEPT !.status = "THREAD_NOT_FOUND"]) \in Draft
    BY <1>1, <1>2, <1>3, UpdateKeepsType
  <2>. QED
    BY <1>5, <2>1, RaiseLone DEF MissThread, history
<1>6. CASE LoseHistory(t)
  BY <1>1, <1>6, RaiseLone DEF LoseHistory, Suffer
<1>7. CASE Post(t)
  <2> DEFINE row == [held[t] EXCEPT !.status = "SENT"]
  <2>1. Goto(t, IF t \in Workers THEN "complete" ELSE "sent")
    BY <1>7 DEF Post
  <2>2. /\ at[t] = "post" /\ held' = [held EXCEPT ![t] = row] /\ Reply
        /\ UNCHANGED <<draft, was, faults>>
    BY <1>7 DEF Post, rows
  <2>3. (~raced' => draft.status \notin Terminal) /\ (~raced' /\ faults = {} => posts = 0)
    BY <2>1, <2>2, NothingOut
  <2>4. row.status = "SENT" /\ row # Clean
    BY <1>1 DEF Draft, Clean, NewDraft
  <2>5. ~raced' /\ faults' = {} => posts' = 1
    BY <2>2, <2>3 DEF Reply
  <2> HIDE DEF row
  <2>. QED
    BY <2>1, <2>2, <2>3, <2>4, <2>5, FlushLone
<1>8. CASE RefusePost(t)
  <2> DEFINE row == [held[t] EXCEPT !.status = "SEND_FAILED"]
  <2>1. row \in Draft
    <3>1. CASE held[t] \in Draft
      BY <1>3, <3>1, DraftUpdates
    <3>2. CASE held[t] = Clean
      BY <1>3, <3>2, Types DEF Clean, Draft
    <3>. QED
      BY <1>1, <3>1, <3>2
  <2>2. Raise(t, row) /\ at[t] = "post" /\ (faults' = {} => faults = {} /\ posts' = posts)
    BY <1>8 DEF RefusePost, Suffer
  <2> HIDE DEF row
  <2>. QED
    BY <2>1, <2>2, RaiseLone
<1>9. CASE LoseDeadlock(t)
  <2>1. PICK u \in Sessions \ {t} : WaitsFor(t, u) /\ WaitsFor(u, t)
    BY <1>9 DEF LoseDeadlock
  <2>2. at[t] # "idle" /\ at[u] # "idle"
    BY <2>1 DEF WaitsFor
  <2>3. raced'
    BY <2>1, <2>2 DEF Lone, Races, Watch
  <2>. QED
    BY <1>9, <2>2, <2>3, EndLone DEF LoseDeadlock, Rollback
<1>10. CASE Vanish(t)
  BY <1>10, EndLone DEF Vanish, Suffer, Rollback
<1>. QED
  BY <1>4, <1>5, <1>6, <1>7, <1>8, <1>9, <1>10 DEF Delivery

LEMMA PassLone ==
    ASSUME TypeOK, Lone, Watch, NEW w \in Workers, Pass(w)
    PROVE  Lone'
<1>1. w \in Sessions /\ Base(w) \in Draft /\ draft \in Draft
  BY BaseType DEF Sessions, TypeOK
<1>2. UNCHANGED <<posts, faults>>
  BY DEF Pass, ClaimRead, ClaimWrite, RunJob, CompleteJob, FailJob, CommitPass, history
<1>3. CASE ClaimRead(w) \/ ClaimWrite(w) \/ CompleteJob(w) \/ FailJob(w)
  <2>1. UNCHANGED <<draft, was, held>>
    BY <1>3 DEF ClaimRead, ClaimWrite, CompleteJob, FailJob, rows
  <2>2. PICK step \in {"claim", "run", "drain"} : Goto(w, step)
    BY <1>3 DEF ClaimRead, ClaimWrite, CompleteJob, FailJob
  <2>. QED
    BY <1>1, <1>2, <2>1, <2>2, StepLone
<1>4. CASE RunJob(w)
  <2>1. /\ was' = [was EXCEPT ![w] = Base(w)] /\ at[w] = "run" /\ UNCHANGED draft
    BY <1>4 DEF RunJob, rows
  <2>2. \/ Goto(w, "resolve") /\ Base(w).status \notin Terminal /\ UNCHANGED held
        \/ (Goto(w, "complete") \/ Goto(w, "fail")) /\ UNCHANGED held
        \/ /\ Goto(w, "fail") /\ held' = [held EXCEPT ![w] = Reopened(Base(w))]
           /\ Base(w).status \notin Terminal
    BY <1>4 DEF RunJob, Deliverable
  <2>3. CASE Goto(w, "resolve") /\ Base(w).status \notin Terminal /\ UNCHANGED held
    BY <1>1, <1>2, <2>1, <2>3, StepLone DEF TypeOK
  <2>4. CASE (Goto(w, "complete") \/ Goto(w, "fail")) /\ UNCHANGED held
    <3>1. PICK step \in {"complete", "fail"} : Goto(w, step)
      BY <2>4
    <3>. QED
      BY <1>1, <1>2, <2>1, <2>4, <3>1, StepLone
  <2>5. CASE /\ Goto(w, "fail") /\ held' = [held EXCEPT ![w] = Reopened(Base(w))]
             /\ Base(w).status \notin Terminal
    <3>1. ~raced' => /\ Undisturbed(w)
                     /\ faults = {} => /\ posts <= 1
                                       /\ posts # 0 => draft.status = "SENT" \/ (Holds(w) /\ held[w].status = "SENT")
      BY <1>1, <2>1, <2>5, LoneBefore
    <3>2. (~raced' => draft.status \notin Terminal) /\ (~raced' /\ faults' = {} => posts' = 0)
      BY <1>2, <2>5, <3>1 DEF Undisturbed, Base, Terminal, TypeOK
    <3>3. Reopened(Base(w)) # Clean
      BY <1>1, ReopenedType DEF Draft, Clean, NewDraft, Status, Terminal
    <3>. QED
      BY <1>1, <1>2, <2>1, <2>5, <3>2, <3>3, FlushLone
  <2>. QED
    BY <2>2, <2>3, <2>4, <2>5
<1>5. CASE CommitPass(w)
  <2>1. PICK jobs : End(w, Base(w), jobs)
    BY <1>5 DEF CommitPass
  <2>2. at[w] # "idle" /\ Goto(w, "idle")
    BY <1>5, <2>1 DEF CommitPass, End
  <2>3. ~raced' => /\ Undisturbed(w)
                   /\ faults = {} => posts <= 1 /\ (posts # 0 => draft.status = "SENT" \/ (Holds(w) /\ held[w].status = "SENT"))
    BY <1>1, <2>2, LoneBefore
  <2>4. ~raced' /\ faults = {} => posts <= 1 /\ (posts # 0 => Base(w).status = "SENT")
    BY <2>3 DEF Base, Undisturbed, Terminal
  <2>. QED
    BY <1>1, <1>2, <2>1, <2>2, <2>4, EndLone
<1>. QED
  BY <1>3, <1>4, <1>5, Pass(w) DEF Pass

LEMMA LoneStep == TypeOK /\ Lone /\ [Next]_vars => Lone'
<1>1. ASSUME TypeOK, Lone, Next PROVE Lone'
  <2>0. Watch
    BY <1>1 DEF Next, Watch
  <2>1. ASSUME NEW j \in Jobs, BackoffEnds(j) PROVE Lone'
    <3>1. UNCHANGED <<draft, at, was, held, posts, faults>>
      BY <2>1 DEF BackoffEnds, sessions, history
    <3>. QED
      BY <1>1, <2>0, <3>1 DEF Lone, Watch, Races, Undisturbed, Posted, Holds, Base
  <2>. QED
    BY <1>1, <2>0, <2>1, RequestLone, AnswerLone, DeliveryLone, PassLone
       DEF Next, SessionStep
<1>2. ASSUME Lone, UNCHANGED vars PROVE Lone'
  BY <1>2 DEF vars, rows, sessions, history, Lone, Races, Undisturbed, Posted, Holds, Base
<1>. QED
  BY <1>1, <1>2

\* While sessions come one after the other each finds the row it loaded, however
\* jobs, requests, crashes and lost answers follow one another.
THEOREM LoneHolds == Spec => [](TypeOK /\ Lone)
<1>1. Init => TypeOK /\ Lone
  BY InitType, InitLone
<1>2. TypeOK /\ Lone /\ [Next]_vars => (TypeOK /\ Lone)'
  BY TypeStep, LoneStep
<1>. QED
  BY <1>1, <1>2, PTL DEF Spec

\* "Exactly once": the jobs of earlier approvals, retries and send-now add no second
\* reply unless two sessions were open at once or something died.
THEOREM RepliesOnce == Spec => []OneReply
<1>1. Lone => OneReply
  BY DEF Lone, OneReply
<1>. QED
  BY <1>1, LoneHolds, PTL

\* A skipped draft is never posted, whichever of its jobs are still queued.
THEOREM SkippedIsSilent == Spec => SkippedStaysSilent
<1>1. Lone /\ [Next]_vars => [draft.status = "SKIPPED" /\ ~raced => UNCHANGED posts]_vars
  <2> SUFFICES ASSUME Lone, Next, draft.status = "SKIPPED", ~raced PROVE UNCHANGED posts
    BY DEF vars, history
  <2>1. \A t \in Sessions : at[t] # "post"
    BY DEF Lone, Undisturbed, Terminal
  <2>2. ASSUME NEW c \in Clients, Request(c) PROVE UNCHANGED posts
    BY <2>2 DEF Request, EditDraft, GenerateDraft, Approve, Skip, SendNow, Load
  <2>3. ASSUME NEW c \in Clients, Answer(c) PROVE UNCHANGED posts
    <3>1. CASE ApproveCommit(c)
      BY <3>1 DEF ApproveCommit
    <3>. QED
      BY <2>3, <3>1 DEF Answer, WriteDraft, CancelJob, SkipCommit, SendNowCommit, history
  <2>4. ASSUME NEW w \in Workers, Pass(w) PROVE UNCHANGED posts
    BY <2>4 DEF Pass, ClaimRead, ClaimWrite, RunJob, CompleteJob, FailJob, CommitPass, history
  <2>5. ASSUME NEW t \in Sessions, Delivery(t) \/ LoseHistory(t) \/ LoseDeadlock(t) \/ Vanish(t)
        PROVE  UNCHANGED posts
    BY <2>1, <2>5 DEF Delivery, ResolveThread, MissThread, Post, RefusePost, LoseHistory,
                      LoseDeadlock, Vanish, history
  <2>6. ASSUME NEW j \in Jobs, BackoffEnds(j) PROVE UNCHANGED posts
    BY <2>6 DEF BackoffEnds, history
  <2>. QED
    BY <2>2, <2>3, <2>4, <2>5, <2>6 DEF Next, SessionStep
<1>. QED
  BY <1>1, LoneHolds, PTL DEF Spec, SkippedStaysSilent

\* "That day is history": a sent draft stays sent unless sessions overlapped.
THEOREM SentStays == Spec => SentIsFinal
<1>1. Lone /\ [Next]_vars => [draft.status = "SENT" /\ ~raced => draft'.status = "SENT"]_vars
  <2> SUFFICES ASSUME Lone, Next, draft.status = "SENT", ~raced PROVE draft'.status = "SENT"
    BY DEF vars, rows
  <2>1. \A t \in Sessions : at[t] \notin Loaded /\ at[t] # "resolve" /\ Base(t) = draft
    BY DEF Lone, Undisturbed, Terminal, Base
  <2>2. ASSUME NEW t \in Sessions, NEW row, Raise(t, row) \/ Rollback(t) PROVE UNCHANGED draft
    BY <2>2 DEF Raise, Rollback, End, rows
  <2>3. ASSUME NEW c \in Clients, Request(c) PROVE UNCHANGED draft
    BY <2>3 DEF Request, EditDraft, GenerateDraft, Approve, Skip, SendNow, Load, rows
  <2>4. ASSUME NEW c \in Clients, Answer(c) PROVE UNCHANGED draft
    <3>1. c \in Sessions
      BY DEF Sessions
    <3>2. CASE SendNowCommit(c)
      BY <2>1, <3>1, <3>2 DEF SendNowCommit, End
    <3>. QED
      BY <2>1, <2>4, <3>1, <3>2 DEF Answer, WriteDraft, ApproveCommit, CancelJob, SkipCommit, Loaded
  <2>5. ASSUME NEW w \in Workers, Pass(w) PROVE UNCHANGED draft
    <3>1. w \in Sessions
      BY DEF Sessions
    <3>2. CASE CommitPass(w)
      BY <2>1, <3>1, <3>2 DEF CommitPass, End
    <3>. QED
      BY <2>5, <3>2 DEF Pass, ClaimRead, ClaimWrite, RunJob, CompleteJob, FailJob, rows
  <2>6. ASSUME NEW t \in Sessions, Delivery(t) \/ LoseHistory(t) \/ LoseDeadlock(t) \/ Vanish(t)
        PROVE  UNCHANGED draft
    BY <2>2, <2>6 DEF Delivery, ResolveThread, MissThread, Post, RefusePost, LoseHistory,
                      LoseDeadlock, Vanish, rows
  <2>7. ASSUME NEW j \in Jobs, BackoffEnds(j) PROVE UNCHANGED draft
    BY <2>7 DEF BackoffEnds
  <2>. QED
    BY <2>3, <2>4, <2>5, <2>6, <2>7 DEF Next, SessionStep
<1>. QED
  BY <1>1, LoneHolds, PTL DEF Spec, SentIsFinal
================================================================================
