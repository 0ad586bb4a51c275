------------------------- MODULE PresentationRunProofs -------------------------
(***************************************************************************)
(* Proofs about PresentationRun for every set of workers, every number of   *)
(* attempts and every bound on crashes.                                     *)
(***************************************************************************)
EXTENDS PresentationRun, TLAPS

\* A claim that is about to swap read an epoch the row had, with attempts left.
ClaimsAreBounded ==
    \A w \in Workers : pc[w] = "cas" => held[w] <= epoch /\ held[w] < MaxAttempts

\* A build that still runs has published nothing.
BuildersAreUnpublished ==
    \A w \in Workers : pc[w] \in Building => held[w] \in Epochs /\ rows[held[w]] = 0

FileIsOfThePast == file <= epoch

\* The inductive invariant.
IInv ==
    /\ TypeOK
    /\ attempts = epoch
    /\ ClaimsAreBounded
    /\ EpochsAreExclusive
    /\ BuildersAreUnpublished
    /\ NewestFileWins
    /\ FileIsOfThePast

\* Every step keeps the types; the swap stays below MAX_ATTEMPTS because a claim
\* that is about to swap read an epoch below it.
LEMMA TypeStep ==
    ASSUME TypeOK, attempts = epoch, ClaimsAreBounded, [Next]_vars
    PROVE  TypeOK'
<1> USE RunAssumption DEF TypeOK, RunStatus, Terminal, RevState, Step, Building, Epochs, Goto
<1>1. ASSUME NEW w \in Workers, Execute(w) PROVE TypeOK'
  BY <1>1 DEF Execute, runRow, revRow, workerVars, requests
<1>2. ASSUME NEW w \in Workers, Recover(w) PROVE TypeOK'
  BY <1>2 DEF Recover, runRow, revRow, workerVars, requests
<1>3. ASSUME NEW w \in Workers, ClaimRead(w) PROVE TypeOK'
  <2>1. \E step \in {"idle", "giveup", "cas"} : Goto(w, step)
    BY <1>3 DEF ClaimRead
  <2>2. pc' \in [Workers -> Step]
    BY <2>1
  <2>3. held' \in [Workers -> 0..MaxAttempts]
    BY <1>3 DEF ClaimRead
  <2>. QED
    BY <1>3, <2>2, <2>3 DEF ClaimRead, runRow, revRow, workerVars, requests
<1>4. ASSUME NEW w \in Workers, GiveUp(w) PROVE TypeOK'
  BY <1>4 DEF GiveUp, runRow, revRow, workerVars, requests
<1>5. ASSUME NEW w \in Workers, ClaimSwap(w) PROVE TypeOK'
  BY <1>5 DEF ClaimSwap, runRow, revRow, workerVars, requests, ClaimsAreBounded
<1>6. ASSUME NEW w \in Workers, LoadRevision(w) PROVE TypeOK'
  BY <1>6 DEF LoadRevision, runRow, revRow, workerVars, requests
<1>7. ASSUME NEW w \in Workers, MarkComposing(w) PROVE TypeOK'
  BY <1>7 DEF MarkComposing, runRow, revRow, workerVars, requests
<1>8. ASSUME NEW w \in Workers, EngineAnswers(w) PROVE TypeOK'
  BY <1>8 DEF EngineAnswers, runRow, revRow, workerVars, requests
<1>9. ASSUME NEW w \in Workers, EnterPhase(w) PROVE TypeOK'
  BY <1>9 DEF EnterPhase, Fence, runRow, revRow, workerVars, requests
<1>10. ASSUME NEW w \in Workers, Publish(w) PROVE TypeOK'
  BY <1>10 DEF Publish, Fence, runRow, revRow, workerVars, requests
<1>11. ASSUME NEW w \in Workers, FailBuild(w) PROVE TypeOK'
  BY <1>11 DEF FailBuild, Fence, runRow, revRow, workerVars, requests
<1>12. ASSUME Vanish PROVE TypeOK'
  <2>1. ASSUME NEW w \in Workers, Goto(w, "idle") PROVE pc' \in [Workers -> Step]
    BY <2>1
  <2>2. pc' \in [Workers -> Step]
    BY <1>12, <2>1 DEF Vanish
  <2>3. scheduled' = scheduled \/ scheduled' = FALSE
    BY <1>12, Zenon DEF Vanish
  <2>4. scheduled' \in BOOLEAN
    BY <2>3
  <2>5. crashes' \in 0..MaxCrashes
    BY <1>12 DEF Vanish
  <2>. QED
    BY <1>12, <2>2, <2>4, <2>5 DEF Vanish, runRow, revRow, workerVars, requests
<1>13. ASSUME LeaseExpires PROVE TypeOK'
  BY <1>13 DEF LeaseExpires, runRow, revRow, workerVars, requests
<1>14. ASSUME CancelRead PROVE TypeOK'
  BY <1>14 DEF CancelRead, runRow, revRow, workerVars, requests
<1>15. ASSUME CancelCommit PROVE TypeOK'
  BY <1>15 DEF CancelCommit, runRow, revRow, workerVars, requests
<1>16. ASSUME ApproveRead PROVE TypeOK'
  BY <1>16 DEF ApproveRead, runRow, revRow, workerVars, requests
<1>17. ASSUME ApproveCommit PROVE TypeOK'
  BY <1>17 DEF ApproveCommit, runRow, revRow, workerVars, requests
<1>18. CASE UNCHANGED vars
  BY <1>18 DEF vars, runRow, revRow, workerVars, requests
<1>19. QED
  BY <1>1, <1>2, <1>3, <1>4, <1>5, <1>6, <1>7, <1>8, <1>9, <1>10, <1>11, <1>12, <1>13, <1>14, <1>15, <1>16, <1>17, <1>18 DEF Next, Build, Request

--------------------------------------------------------------------------------
(* Only a claim, a swap and a publication touch what the invariant speaks of. *)

\* The epochs, the files and the builders' claims stay; a worker may stop.
Quiet ==
    /\ UNCHANGED <<epoch, attempts, held, rows, file>>
    /\ \A w \in Workers : /\ pc'[w] \in Building => pc[w] \in Building
                          /\ pc'[w] = "cas" => pc[w] = "cas"

Loud(w) == ClaimRead(w) \/ ClaimSwap(w) \/ Publish(w)

\* Every other step is quiet: a phase, a failure, a crash, a lease that runs out
\* and the requests, none of which is fenced against the others.
LEMMA MostStepsAreQuiet ==
    ASSUME TypeOK, [Next]_vars
    PROVE  Quiet \/ \E w \in Workers : Loud(w)
<1> USE DEF TypeOK, Quiet, Building, Goto
<1>1. ASSUME NEW w \in Workers, Execute(w) \/ Recover(w) PROVE Quiet
  BY <1>1 DEF Execute, Recover, runRow, revRow
<1>2. ASSUME NEW w \in Workers, GiveUp(w) PROVE Quiet
  BY <1>2 DEF GiveUp, revRow
<1>3. ASSUME NEW w \in Workers, LoadRevision(w) \/ MarkComposing(w) PROVE Quiet
  BY <1>3 DEF LoadRevision, MarkComposing, runRow, revRow
<1>4. ASSUME NEW w \in Workers, EngineAnswers(w) PROVE Quiet
  <2>1. pc[w] \in Building
    BY <1>4 DEF EngineAnswers
  <2>2. \E step \in Building : Goto(w, step)
    BY <1>4 DEF EngineAnswers
  <2>. QED
    BY <1>4, <2>1, <2>2 DEF EngineAnswers, runRow, revRow
<1>5. ASSUME NEW w \in Workers, EnterPhase(w) PROVE Quiet
  BY <1>5 DEF EnterPhase, revRow
<1>6. ASSUME NEW w \in Workers, FailBuild(w) PROVE Quiet
  BY <1>6 DEF FailBuild
<1>7. ASSUME Vanish PROVE Quiet
  BY <1>7 DEF Vanish, runRow, revRow
<1>8. ASSUME LeaseExpires \/ Request PROVE Quiet
  BY <1>8 DEF LeaseExpires, Request, CancelRead, CancelCommit, ApproveRead, ApproveCommit,
              runRow, revRow, workerVars
<1>9. CASE UNCHANGED vars
  BY <1>9 DEF vars, runRow, revRow, workerVars
<1>. QED
  BY <1>1, <1>2, <1>3, <1>4, <1>5, <1>6, <1>7, <1>8, <1>9 DEF Next, Build, Loud

LEMMA QuietStep ==
    ASSUME IInv, TypeOK', Quiet
    PROVE  IInv'
<1> USE DEF IInv, Quiet
<1>1. (attempts = epoch)' /\ FileIsOfThePast'
  BY DEF FileIsOfThePast
<1>2. ClaimsAreBounded'
  BY DEF ClaimsAreBounded
<1>3. EpochsAreExclusive'
  BY DEF EpochsAreExclusive
<1>4. BuildersAreUnpublished'
  BY DEF BuildersAreUnpublished
<1>5. NewestFileWins'
  BY DEF NewestFileWins
<1>. QED
  BY <1>1, <1>2, <1>3, <1>4, <1>5

\* A claim reads the epoch the row has now.
LEMMA ClaimReadStep ==
    ASSUME IInv, TypeOK', NEW w \in Workers, ClaimRead(w)
    PROVE  IInv'
<1> USE DEF IInv, TypeOK, Goto
<1>1. UNCHANGED <<epoch, attempts, rows, file>> /\ pc[w] = "claim"
  BY DEF ClaimRead, runRow, revRow
<1>2. pc'[w] \in {"idle", "giveup", "cas"} /\ pc'[w] \notin Building
  BY DEF ClaimRead, Building
<1>3. \A v \in Workers : v # w => pc'[v] = pc[v] /\ held'[v] = held[v]
  BY DEF ClaimRead
<1>4. pc'[w] = "cas" => held'[w] = epoch /\ epoch < MaxAttempts
  BY RunAssumption DEF ClaimRead
<1>5. (attempts = epoch)' /\ FileIsOfThePast'
  BY <1>1 DEF FileIsOfThePast
<1>6. ClaimsAreBounded'
  BY <1>1, <1>3, <1>4 DEF ClaimsAreBounded
<1>7. EpochsAreExclusive'
  BY <1>1, <1>2, <1>3 DEF EpochsAreExclusive
<1>8. BuildersAreUnpublished'
  BY <1>1, <1>2, <1>3 DEF BuildersAreUnpublished
<1>9. NewestFileWins'
  BY <1>1 DEF NewestFileWins
<1>. QED
  BY <1>5, <1>6, <1>7, <1>8, <1>9

\* The compare-and-swap issues an epoch that no worker holds and no file bears.
LEMMA ClaimSwapStep ==
    ASSUME IInv, TypeOK', NEW w \in Workers, ClaimSwap(w)
    PROVE  IInv'
<1> USE RunAssumption DEF IInv, TypeOK, Goto
<1>1. UNCHANGED <<rows, file>> /\ \A v \in Workers : v # w => pc'[v] = pc[v] /\ held'[v] = held[v]
  BY DEF ClaimSwap, revRow
<1>2. CASE epoch # held[w]
  <2>1. UNCHANGED <<epoch, attempts, held>> /\ pc'[w] = "idle"
    BY <1>2 DEF ClaimSwap, runRow
  <2>2. Quiet
    BY <1>1, <2>1 DEF Quiet, Building
  <2>. QED
    BY <2>2, QuietStep
<1>3. CASE epoch = held[w]
  <2>1. epoch' = epoch + 1 /\ attempts' = attempts + 1 /\ held'[w] = epoch + 1 /\ pc'[w] = "load"
    BY <1>3 DEF ClaimSwap
  <2>2. epoch + 1 \in Epochs
    BY <1>3 DEF ClaimSwap, ClaimsAreBounded, Epochs
  <2>3. rows[epoch + 1] = 0
    BY <2>2 DEF NewestFileWins, FileIsOfThePast, Epochs
  <2>4. (attempts = epoch)' /\ FileIsOfThePast'
    BY <1>1, <2>1 DEF FileIsOfThePast
  <2>5. ClaimsAreBounded'
    BY <1>1, <2>1 DEF ClaimsAreBounded
  <2>6. EpochsAreExclusive'
    BY <1>1, <2>1 DEF EpochsAreExclusive
  <2>7. BuildersAreUnpublished'
    BY <1>1, <2>1, <2>2, <2>3 DEF BuildersAreUnpublished
  <2>8. NewestFileWins'
    BY <1>1 DEF NewestFileWins
  <2>. QED
    BY <2>4, <2>5, <2>6, <2>7, <2>8
<1>. QED
  BY <1>2, <1>3

\* A publication under the fence bears the newest epoch, for the first time.
LEMMA PublishStep ==
    ASSUME IInv, TypeOK', NEW w \in Workers, Publish(w)
    PROVE  IInv'
<1> USE RunAssumption DEF IInv, TypeOK, Goto
<1>1. UNCHANGED <<epoch, attempts, held>> /\ pc'[w] = "idle" /\ pc[w] = "publish"
  BY DEF Publish
<1>2. \A v \in Workers : v # w => pc'[v] = pc[v]
  BY DEF Publish
<1>3. CASE ~Fence(w)
  <2>1. UNCHANGED <<rows, file>>
    BY <1>3 DEF Publish, revRow
  <2>2. Quiet
    BY <1>1, <1>2, <2>1 DEF Quiet, Building
  <2>. QED
    BY <2>2, QuietStep
<1>4. CASE Fence(w)
  <2>1. held[w] = epoch /\ epoch \in Epochs /\ rows[epoch] = 0
    BY <1>1, <1>4 DEF Fence, BuildersAreUnpublished, Building
  <2>2. file' = epoch /\ rows' = [rows EXCEPT ![epoch] = 1]
    BY <1>4, <2>1 DEF Publish
  <2>3. (attempts = epoch)' /\ FileIsOfThePast'
    BY <1>1, <2>2 DEF FileIsOfThePast
  <2>4. ClaimsAreBounded'
    BY <1>1, <1>2 DEF ClaimsAreBounded
  <2>5. EpochsAreExclusive'
    BY <1>1, <1>2 DEF EpochsAreExclusive, Building
  <2>6. BuildersAreUnpublished'
    <3> SUFFICES ASSUME NEW v \in Workers, pc'[v] \in Building
                 PROVE  held'[v] \in Epochs /\ rows'[held'[v]] = 0
      BY DEF BuildersAreUnpublished
    <3>1. v # w /\ pc[v] \in Building /\ pc[w] \in Building
      BY <1>1, <1>2 DEF Building
    <3>2. held[v] # epoch /\ held[v] \in Epochs /\ rows[held[v]] = 0
      BY <3>1, <2>1 DEF EpochsAreExclusive, BuildersAreUnpublished
    <3>. QED
      BY <1>1, <2>1, <2>2, <3>2
  <2>7. NewestFileWins'
    BY <1>1, <2>1, <2>2 DEF NewestFileWins, FileIsOfThePast, Epochs
  <2>. QED
    BY <2>3, <2>4, <2>5, <2>6, <2>7
<1>. QED
  BY <1>3, <1>4

--------------------------------------------------------------------------------
(* The theorems *)

LEMMA InitIInv == Init => IInv
<1> SUFFICES ASSUME Init PROVE IInv
  OBVIOUS
<1> USE RunAssumption DEF Init
<1>1. TypeOK
  <2>1. epoch \in 0..MaxAttempts /\ attempts \in 0..MaxAttempts /\ file \in 0..MaxAttempts
    OBVIOUS
  <2>2. approving \in 0..MaxAttempts /\ crashes \in 0..MaxCrashes /\ rows \in [Epochs -> Nat]
    OBVIOUS
  <2>3. pc \in [Workers -> Step] /\ held \in [Workers -> 0..MaxAttempts] /\ seen \in [Workers -> RevState]
    BY DEF Step, RevState
  <2>4. expert \in BOOLEAN /\ hard \in BOOLEAN /\ scheduled \in BOOLEAN /\ cancelling \in BOOLEAN
    BY Zenon
  <2>5. status \in RunStatus /\ lease \in {"none", "live", "expired"} /\ state \in RevState
    BY DEF RunStatus, RevState
  <2>. QED
    BY <2>1, <2>2, <2>3, <2>4, <2>5, Zenon DEF TypeOK
<1>2. ClaimsAreBounded /\ EpochsAreExclusive /\ BuildersAreUnpublished
  BY DEF ClaimsAreBounded, EpochsAreExclusive, BuildersAreUnpublished, Building
<1>3. NewestFileWins /\ FileIsOfThePast
  BY DEF NewestFileWins, FileIsOfThePast, Epochs
<1>. QED
  BY <1>1, <1>2, <1>3 DEF IInv

LEMMA NextIInv == IInv /\ [Next]_vars => IInv'
<1> SUFFICES ASSUME IInv, [Next]_vars PROVE IInv'
  OBVIOUS
<1>1. TypeOK'
  BY TypeStep DEF IInv
<1>2. Quiet \/ \E w \in Workers : Loud(w)
  BY MostStepsAreQuiet DEF IInv
<1>. QED
  BY <1>1, <1>2, QuietStep, ClaimReadStep, ClaimSwapStep, PublishStep DEF Loud

\* The inductive invariant holds in every state the run can reach.
THEOREM Inductive == Spec => []IInv
BY InitIInv, NextIInv, PTL DEF Spec

\* Every variable of the run, its workers and its requests keeps its type; in
\* particular neither the epoch nor the attempts ever pass MAX_ATTEMPTS.
THEOREM TypeCorrect == Spec => []TypeOK
<1>1. IInv => TypeOK
  BY DEF IInv
<1>. QED
  BY <1>1, Inductive, PTL

\* No two workers ever build under the same epoch.
THEOREM ExclusiveEpochs == Spec => []EpochsAreExclusive
<1>1. IInv => EpochsAreExclusive
  BY DEF IInv
<1>. QED
  BY <1>1, Inductive, PTL

\* The number of attempts is the number of epochs, and no claim passes the bound.
THEOREM BoundedAttempts == Spec => []AttemptsFollowEpochs
<1>1. IInv => AttemptsFollowEpochs
  BY DEF IInv, ClaimsAreBounded, AttemptsFollowEpochs
<1>. QED
  BY <1>1, Inductive, PTL

\* A file once replaced never comes back, and no build publishes twice.
THEOREM NewestFile == Spec => []NewestFileWins
<1>1. IInv => NewestFileWins
  BY DEF IInv
<1>. QED
  BY <1>1, Inductive, PTL

\* Nothing is published by a step that starts with the run cancelled.
THEOREM CancelIsAFence == Spec => CancelFences
<1>1. ASSUME TypeOK, [Next]_vars, status = "cancelled" PROVE UNCHANGED <<rows, file>>
  <2>1. CASE Quiet
    BY <2>1 DEF Quiet
  <2>2. ASSUME NEW w \in Workers, Loud(w) PROVE UNCHANGED <<rows, file>>
    BY <1>1, <2>2 DEF Loud, ClaimRead, ClaimSwap, Publish, Fence, revRow
  <2>. QED
    BY <1>1, <2>1, <2>2, MostStepsAreQuiet
<1>2. TypeOK /\ [Next]_vars => [status = "cancelled" => UNCHANGED <<rows, file>>]_vars
  BY <1>1
<1>. QED
  BY <1>2, TypeCorrect, PTL DEF Spec, CancelFences

\* The run implements the fenced build: a swap issues a token, a publication
\* reveals the newest one, every other step changes neither.
THEOREM RunImplementsFencedBuild == Spec => FencedImplemented
<1>1. Init => Fenced!FencedInit
  BY DEF Init, Fenced!FencedInit
<1>2. IInv /\ [Next]_vars => [Fenced!FencedNext]_<<epoch, file>>
  <2> SUFFICES ASSUME IInv, [Next]_vars PROVE [Fenced!FencedNext]_<<epoch, file>>
    OBVIOUS
  <2> USE RunAssumption DEF IInv, TypeOK
  <2>1. CASE Quiet
    BY <2>1 DEF Quiet
  <2>2. ASSUME NEW w \in Workers, ClaimRead(w) PROVE UNCHANGED <<epoch, file>>
    BY <2>2 DEF ClaimRead, runRow, revRow
  <2>3. ASSUME NEW w \in Workers, ClaimSwap(w) PROVE Fenced!Acquire \/ UNCHANGED <<epoch, file>>
    BY <2>3 DEF ClaimSwap, ClaimsAreBounded, Fenced!Acquire, runRow, revRow
  <2>4. ASSUME NEW w \in Workers, Publish(w) PROVE Fenced!Reveal \/ UNCHANGED <<epoch, file>>
    <3>1. CASE ~Fence(w)
      BY <2>4, <3>1 DEF Publish, revRow
    <3>2. CASE Fence(w)
      <4>1. held[w] = epoch /\ rows[epoch] = 0
        BY <2>4, <3>2 DEF Publish, Fence, BuildersAreUnpublished, Building
      <4>2. file # epoch
        BY <2>4, <4>1, <3>2 DEF NewestFileWins, BuildersAreUnpublished, Building, Epochs, Publish
      <4>3. file < epoch
        BY <4>2 DEF FileIsOfThePast
      <4>. QED
        BY <2>4, <3>2, <4>1, <4>3 DEF Publish, Fenced!Reveal
    <3>. QED
      BY <3>1, <3>2
  <2>. QED
    BY <2>1, <2>2, <2>3, <2>4, MostStepsAreQuiet DEF Loud, Fenced!FencedNext
<1>. QED
  BY <1>1, <1>2, Inductive, PTL DEF Spec, FencedImplemented, Fenced!FencedSpec
================================================================================
