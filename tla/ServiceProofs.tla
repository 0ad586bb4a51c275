----------------------------- MODULE ServiceProofs -----------------------------
(***************************************************************************)
(* Arguments about twelve services, for every value of their constants: an  *)
(* inductive invariant of each, kept by each of its steps.  MCServicesProofs *)
(* draws the theorems from them.                                            *)
(*                                                                          *)
(* Where requests read, call out and write later, the invariant relates what *)
(* each has read to what is committed now: locks an edit found to the       *)
(* revision it wrote, claims a pass counted to the row others see, what a    *)
(* turn added to the rows it had not read.                                  *)
(***************************************************************************)
EXTENDS AgentProposals, AgentRuns, ApprovalGates, AssistantTurns, DayPlan, DayScheduler,
        DeckRevisions, Delegation, DesignWork, DiagramPatches, PageInputs, SharedQueue, Sequences, TLAPS,
        FiniteSetTheorems

--------------------------------------------------------------------------------
(* The approval gates (MCP governance, agent work and reviews) *)

\* Rows and requests as far as the argument needs them.
GateShape ==
    /\ gated \in [Works -> [kind : WorkKind, tool : Tools \cup {NoWork.tool}, approval : Decision,
                            state : {"open", "approved", "rejected", "done"}]]
    /\ word \in [Works -> Decision] /\ muddled \subseteq Works
    /\ DOMAIN call = Callers
    /\ \A q \in Callers :
          /\ call[q].kind = "ask" => call[q].tool \in Tools
          /\ call[q].kind \in {"ask", "decide", "review", "perform"} => call[q].work \in Works
          /\ call[q].kind \in {"decide", "review"} => call[q].verdict \in Decision
          /\ call[q].kind \in {"decide", "review", "perform"} => call[q].saw.approval \in Decision
          /\ call[q].kind = "decide" => call[q].verdict # "pending"

\* An approval that stands was given by the last decision, or by a review that
\* repeated what it had read.
ApprovalsSpoken ==
    \A i \in Works : gated[i].approval = "approved" => word[i] = "approved" \/ i \in muddled

\* The inductive invariant of the gates.
GateInv == GateShape /\ ApprovalsSpoken /\ LastWordHolds

\* It holds at the start and along each step.
LEMMA GateInitInv == GateInit => GateInv
BY DEF GateInit, GateInv, GateShape, ApprovalsSpoken, LastWordHolds, NoWork, NoCall, WorkKind, Decision

LEMMA GatePropose ==
    ASSUME GateInv, NEW i \in Works, NEW kind \in WorkKind, Propose(i, kind)
    PROVE  GateInv'
<1>1. GateShape'
  BY DEF Propose, GateInv, GateShape, gateNotes
<1>2. ApprovalsSpoken'
  BY DEF Propose, GateInv, gateNotes, ApprovalsSpoken
<1>3. LastWordHolds'
  BY DEF Propose, GateInv, gateNotes, LastWordHolds
<1>. QED
  BY <1>1, <1>2, <1>3 DEF GateInv

LEMMA GateOpenAsk ==
    ASSUME GateInv, NEW q \in Callers, NEW i \in Works, NEW t \in Tools, OpenAsk(q, i, t)
    PROVE  GateInv'
<1>1. GateShape'
  BY DEF OpenAsk, GateInv, GateShape, Begin, gateRows, gateNotes
<1>2. ApprovalsSpoken'
  BY DEF OpenAsk, GateInv, gateRows, gateNotes, ApprovalsSpoken
<1>3. LastWordHolds'
  BY DEF OpenAsk, GateInv, Begin, gateNotes, LastWordHolds
<1>. QED
  BY <1>1, <1>2, <1>3 DEF GateInv

LEMMA GateAsk ==
    ASSUME GateInv, NEW q \in Callers, Ask(q)
    PROVE  GateInv'
<1>1. GateShape'
  BY DEF Ask, GateInv, GateShape, NoCall, Finish, gateNotes, NoWork, WorkKind, Decision
<1>2. ApprovalsSpoken'
  BY DEF Ask, GateInv, gateNotes, ApprovalsSpoken, NoWork
<1>3. LastWordHolds'
  BY DEF Ask, GateInv, NoCall, Finish, gateNotes, LastWordHolds
<1>. QED
  BY <1>1, <1>2, <1>3 DEF GateInv

LEMMA GateOpenToggle ==
    ASSUME GateInv, NEW q \in Callers, NEW kind, NEW t, NEW in, OpenToggle(q, kind, t, in)
    PROVE  GateInv'
<1>1. GateShape'
  BY DEF OpenToggle, GateInv, GateShape, Begin, gateRows, gateNotes
<1>2. ApprovalsSpoken'
  BY DEF OpenToggle, GateInv, gateRows, gateNotes, ApprovalsSpoken
<1>3. LastWordHolds'
  BY DEF OpenToggle, GateInv, Begin, gateNotes, LastWordHolds
<1>. QED
  BY <1>1, <1>2, <1>3 DEF GateInv

LEMMA GateToggle ==
    ASSUME GateInv, NEW q \in Callers, Toggle(q)
    PROVE  GateInv'
<1>1. GateShape'
  BY DEF Toggle, GateInv, GateShape, NoCall, Finish, gateNotes
<1>2. ApprovalsSpoken'
  BY DEF Toggle, GateInv, gateNotes, ApprovalsSpoken
<1>3. LastWordHolds'
  BY DEF Toggle, GateInv, NoCall, Finish, gateNotes, LastWordHolds
<1>. QED
  BY <1>1, <1>2, <1>3 DEF GateInv

LEMMA GateOpenDecide ==
    ASSUME GateInv, NEW q \in Callers, NEW i \in Works, NEW verdict \in Decision, OpenDecide(q, i, verdict)
    PROVE  GateInv'
<1>1. GateShape'
  BY DEF OpenDecide, GateInv, GateShape, Begin, AtWork, gateRows, gateNotes
<1>2. ApprovalsSpoken'
  BY DEF OpenDecide, GateInv, gateRows, gateNotes, ApprovalsSpoken
<1>3. LastWordHolds'
  BY DEF OpenDecide, GateInv, Begin, gateNotes, LastWordHolds
<1>. QED
  BY <1>1, <1>2, <1>3 DEF GateInv

LEMMA GateDecide ==
    ASSUME GateInv, NEW q \in Callers, Decide(q)
    PROVE  GateInv'
<1>1. GateShape'
  BY DEF Decide, GateInv, GateShape, NoCall, Finish
<1>2. ApprovalsSpoken'
  BY DEF Decide, GateInv, GateShape, ApprovalsSpoken
<1>3. LastWordHolds'
  BY DEF Decide, GateInv, NoCall, Finish, LastWordHolds
<1>. QED
  BY <1>1, <1>2, <1>3 DEF GateInv

LEMMA GateOpenReview ==
    ASSUME GateInv, NEW q \in Callers, NEW i \in Works, NEW verdict \in Decision, OpenReview(q, i, verdict)
    PROVE  GateInv'
<1>1. GateShape'
  BY DEF OpenReview, GateInv, GateShape, Begin, AtWork, gateRows, gateNotes
<1>2. ApprovalsSpoken'
  BY DEF OpenReview, GateInv, gateRows, gateNotes, ApprovalsSpoken
<1>3. LastWordHolds'
  BY DEF OpenReview, GateInv, Begin, gateNotes, LastWordHolds
<1>. QED
  BY <1>1, <1>2, <1>3 DEF GateInv

LEMMA GateReview ==
    ASSUME GateInv, NEW q \in Callers, Review(q)
    PROVE  GateInv'
<1>1. GateShape'
  BY DEF Review, ReviewMarking, Column, GateInv, GateShape, NoCall, Finish, gateRows, gateNotes, NoWork,
       WorkKind, Decision
<1>2. ApprovalsSpoken'
  BY DEF Review, ReviewMarking, Column, GateInv, GateShape, ApprovalsSpoken
<1>3. LastWordHolds'
  BY DEF Review, ReviewMarking, GateInv, NoCall, Finish, LastWordHolds
<1>. QED
  BY <1>1, <1>2, <1>3 DEF GateInv

LEMMA GateOpenPerform ==
    ASSUME GateInv, NEW q \in Callers, NEW i \in Works, OpenPerform(q, i)
    PROVE  GateInv'
<1>1. GateShape'
  BY DEF OpenPerform, GateInv, GateShape, Begin, AtWork, gateRows, gateNotes
<1>2. ApprovalsSpoken'
  BY DEF OpenPerform, GateInv, gateRows, gateNotes, ApprovalsSpoken
<1>3. LastWordHolds'
  BY DEF OpenPerform, GateInv, GateShape, NoCall, Begin, AtWork, gateNotes, ApprovalsSpoken, LastWordHolds
<1>. QED
  BY <1>1, <1>2, <1>3 DEF GateInv

LEMMA GatePerform ==
    ASSUME GateInv, NEW q \in Callers, Perform(q)
    PROVE  GateInv'
<1>1. GateShape'
  BY DEF Perform, Column, GateInv, GateShape, NoCall, Finish, gateNotes
<1>2. ApprovalsSpoken'
  BY DEF Perform, GateInv, gateNotes, ApprovalsSpoken
<1>3. LastWordHolds'
  BY DEF Perform, GateInv, NoCall, Finish, gateNotes, LastWordHolds
<1>. QED
  BY <1>1, <1>2, <1>3 DEF GateInv

LEMMA GateAbandon ==
    ASSUME GateInv, NEW q \in Callers, Abandon(q)
    PROVE  GateInv'
<1>1. GateShape'
  BY DEF Abandon, GateInv, GateShape, NoCall, Finish, gateRows, gateNotes
<1>2. ApprovalsSpoken'
  BY DEF Abandon, GateInv, gateRows, gateNotes, ApprovalsSpoken
<1>3. LastWordHolds'
  BY DEF Abandon, GateInv, NoCall, Finish, gateNotes, LastWordHolds
<1>. QED
  BY <1>1, <1>2, <1>3 DEF GateInv

LEMMA GateStepInv == GateInv /\ GateNext => GateInv'
BY GatePropose, GateOpenAsk, GateAsk, GateOpenToggle, GateToggle, GateOpenDecide, GateDecide, GateOpenReview,
   GateReview, GateOpenPerform, GatePerform, GateAbandon
   DEF GateNext

LEMMA GateStutters == GateInv /\ UNCHANGED gateVars => GateInv'
BY DEF gateVars, gateRows, gateNotes, GateInv, GateShape, ApprovalsSpoken, LastWordHolds

--------------------------------------------------------------------------------
(* The revisions of a deck *)

\* The revisions and requests as far as the argument needs them.
DeckShape ==
    /\ deckHead \in 1..MaxRevisions /\ DOMAIN revs = 1..deckHead
    /\ \A r \in 1..deckHead :
          revs[r] = [parent |-> revs[r].parent, story |-> revs[r].story, locks |-> revs[r].locks,
                     brand |-> revs[r].brand]
    /\ DOMAIN request = Editing /\ DOMAIN firm = Editing /\ DOMAIN kept = 1..MaxRevisions
    /\ \A q \in Editing :
          /\ request[q] = [kind |-> request[q].kind, base |-> request[q].base, seen |-> request[q].seen,
                           story |-> request[q].story, locks |-> request[q].locks, kit |-> request[q].kit,
                           flag |-> request[q].flag]
          /\ request[q].kind \in Edits \cup {"locks"} => request[q].base \in 1..deckHead

\* Only slides that are there are locked, and what is firm for an edit was locked
\* on its base when it opened.
LocksPresent ==
    /\ \A r \in 1..deckHead : revs[r].locks \subseteq Present(revs[r].story)
    /\ \A q \in Editing :
          /\ request[q].kind \in Edits =>
                /\ request[q].locks \subseteq Present(request[q].story)
                /\ request[q].seen \subseteq Present(revs[request[q].base].story)
                /\ firm[q] \subseteq request[q].seen
          /\ request[q].kind = "locks" => request[q].locks \subseteq Present(revs[request[q].base].story)

\* The inductive invariant of the deck.
DeckInv == DeckShape /\ LocksPresent /\ LinearHistory /\ LocksHold

\* It holds at the start and along each step: an edit that opens finds what it loads on
\* its base, and one that writes finds that base still there, unchanged but for its locks.
LEMMA DeckInitInv == DeckInit => DeckInv
<1> SUFFICES ASSUME DeckInit PROVE DeckInv
  OBVIOUS
<1>1. 1..1 = {1} /\ 1 \in 1..MaxRevisions /\ 2..1 = {}
  BY DeckAssumption
<1>2. DeckShape
  BY <1>1 DEF DeckInit, DeckShape, NoRequest, Edits
<1>3. LocksPresent /\ LinearHistory /\ LocksHold
  BY <1>1 DEF DeckInit, LocksPresent, LinearHistory, LocksHold, NoRequest, Edits, Present
<1>. QED
  BY <1>2, <1>3 DEF DeckInv

LEMMA DeckOpenRevise ==
    ASSUME DeckInv, NEW q \in Editing, NEW base \in 1..deckHead, NEW story \in Story,
         NEW locks \in SUBSET Slides, NEW rebrand \in BOOLEAN, OpenRevise(q, base, story, locks, rebrand)
    PROVE  DeckInv'
<1> USE DeckAssumption
<1>1. DeckShape'
  BY DEF OpenRevise, Open, OnRevision, deckRows, NoRequest, Edits, DeckInv, DeckShape
<1>2. LocksPresent'
  BY DEF OpenRevise, Open, OnRevision, deckRows, NoRequest, Edits, DeckInv, DeckShape, LocksPresent, Present
<1>3. LinearHistory'
  BY DEF OpenRevise, Open, OnRevision, deckRows, NoRequest, Edits, DeckInv, DeckShape, LinearHistory
<1>4. LocksHold'
  BY DEF OpenRevise, Open, OnRevision, deckRows, NoRequest, Edits, DeckInv, DeckShape, LocksHold, LocksPresent
<1>. QED
  BY <1>1, <1>2, <1>3, <1>4 DEF DeckInv

LEMMA DeckOpenRestore ==
    ASSUME DeckInv, NEW q \in Editing, NEW base \in 1..deckHead, NEW old \in 1..deckHead, OpenRestore(q, base, old)
    PROVE  DeckInv'
<1> USE DeckAssumption
<1>1. DeckShape'
  BY DEF OpenRestore, Open, OnRevision, deckRows, NoRequest, Edits, DeckInv, DeckShape
<1>2. LocksPresent'
  BY DEF OpenRestore, Open, OnRevision, deckRows, NoRequest, Edits, DeckInv, DeckShape, LocksPresent, Present
<1>3. LinearHistory'
  BY DEF OpenRestore, Open, OnRevision, deckRows, NoRequest, Edits, DeckInv, DeckShape, LinearHistory
<1>4. LocksHold'
  BY DEF OpenRestore, Open, OnRevision, deckRows, NoRequest, Edits, DeckInv, DeckShape, LocksHold, LocksPresent
<1>. QED
  BY <1>1, <1>2, <1>3, <1>4 DEF DeckInv

LEMMA DeckOpenRegenerate ==
    ASSUME DeckInv, NEW q \in Editing, NEW story \in Story, OpenRegenerate(q, story)
    PROVE  DeckInv'
<1> USE DeckAssumption
<1>1. DeckShape'
  <2>1. deckHead \in 1..deckHead
    BY DEF DeckInv, DeckShape
  <2>2. request' = [request EXCEPT ![q] = [OnRevision(deckHead) EXCEPT !.kind = "regenerate", !.story = story,
                                             !.locks = revs[deckHead].locks]]
    BY DEF OpenRegenerate, Open
  <2>3. /\ request'[q].kind = "regenerate" /\ request'[q].base = deckHead
        /\ request'[q] = [kind |-> "regenerate", base |-> deckHead, seen |-> revs[deckHead].locks, story |-> story,
                           locks |-> revs[deckHead].locks, kit |-> revs[deckHead].brand, flag |-> FALSE]
    BY <2>2 DEF OnRevision, NoRequest, DeckInv, DeckShape
  <2>4. \A p \in Editing : p # q => request'[p] = request[p]
    BY <2>2 DEF DeckInv, DeckShape
  <2>5. UNCHANGED deckRows /\ kept' = kept /\ DOMAIN request' = Editing /\ DOMAIN firm' = Editing
    BY DEF OpenRegenerate, Open, DeckInv, DeckShape
  <2>6. \A p \in Editing :
           /\ request'[p] = [kind |-> request'[p].kind, base |-> request'[p].base, seen |-> request'[p].seen,
                             story |-> request'[p].story, locks |-> request'[p].locks,
                             kit |-> request'[p].kit, flag |-> request'[p].flag]
           /\ request'[p].kind \in Edits \cup {"locks"} => request'[p].base \in 1..deckHead
    <3> TAKE p \in Editing
    <3>1. CASE p = q
      BY <2>1, <2>3, <3>1
    <3>2. CASE p # q
      BY <2>4, <3>2 DEF DeckInv, DeckShape
    <3>. QED
      BY <3>1, <3>2
  <2>. QED
    BY <2>5, <2>6 DEF deckRows, DeckInv, DeckShape
<1>2. LocksPresent'
  BY DEF OpenRegenerate, Open, OnRevision, deckRows, NoRequest, Edits, DeckInv, DeckShape, LocksPresent, Present
<1>3. LinearHistory'
  BY DEF OpenRegenerate, Open, OnRevision, deckRows, NoRequest, Edits, DeckInv, DeckShape, LinearHistory
<1>4. LocksHold'
  BY DEF OpenRegenerate, Open, OnRevision, deckRows, NoRequest, Edits, DeckInv, DeckShape, LocksHold, LocksPresent
<1>. QED
  BY <1>1, <1>2, <1>3, <1>4 DEF DeckInv

LEMMA DeckOpenExpert ==
    ASSUME DeckInv, NEW q \in Editing, NEW base \in 1..deckHead, OpenExpert(q, base)
    PROVE  DeckInv'
<1> USE DeckAssumption
<1>1. DeckShape'
  BY DEF OpenExpert, Open, OnRevision, deckRows, NoRequest, Edits, DeckInv, DeckShape
<1>2. LocksPresent'
  BY DEF OpenExpert, Open, OnRevision, deckRows, NoRequest, Edits, DeckInv, DeckShape, LocksPresent, Present
<1>3. LinearHistory'
  BY DEF OpenExpert, Open, OnRevision, deckRows, NoRequest, Edits, DeckInv, DeckShape, LinearHistory
<1>4. LocksHold'
  BY DEF OpenExpert, Open, OnRevision, deckRows, NoRequest, Edits, DeckInv, DeckShape, LocksHold, LocksPresent
<1>. QED
  BY <1>1, <1>2, <1>3, <1>4 DEF DeckInv

LEMMA DeckRevise ==
    ASSUME DeckInv, NEW q \in Editing, Revise(q)
    PROVE  DeckInv'
<1> USE DeckAssumption
<1> DEFINE e == request[q]
           made == [parent |-> e.base, story |-> e.story, locks |-> e.locks, brand |-> e.kit]
<1>1. /\ e.kind \in Edits /\ deckHead = e.base /\ e.base \in Nat \ {0} /\ e.base + 1 <= MaxRevisions
      /\ deckHead' = e.base + 1
      /\ revs' = [r \in 1..(e.base + 1) |->
            IF r = e.base + 1 THEN made
            ELSE IF r = e.base /\ e.flag THEN [revs[r] EXCEPT !.locks = {}] ELSE revs[r]]
      /\ kept' = [kept EXCEPT ![e.base + 1] = firm[q]]
  BY DEF Revise, ReviseWhen, DeckInv, DeckShape
<1>2. revs'[e.base + 1] = made
  BY <1>1
<1>3. \A r \in 1..e.base : /\ r # e.base + 1 /\ r \in 1..deckHead
                           /\ revs'[r] = IF r = e.base /\ e.flag THEN [revs[r] EXCEPT !.locks = {}] ELSE revs[r]
  BY <1>1
<1>4. /\ DOMAIN request' = Editing /\ DOMAIN firm' = Editing /\ request'[q] = NoRequest
      /\ \A p \in Editing : p # q => request'[p] = request[p] /\ firm'[p] \subseteq firm[p]
  BY DEF Revise, ReviseWhen, Close, DeckInv, DeckShape
<1>5. \A x \in firm[q] : revs[e.base].story[x] = e.story[x]
  BY <1>1 DEF Revise, ReviseWhen, LocksRespected, DeckInv, LocksPresent
<1>6. /\ made = [parent |-> made.parent, story |-> made.story, locks |-> made.locks, brand |-> made.brand]
      /\ made.parent = e.base /\ made.story = e.story /\ made.locks = e.locks
  OBVIOUS
<1>7. e.locks \subseteq Present(e.story)
  BY <1>1 DEF DeckInv, LocksPresent
<1> HIDE DEF e, made
<1>8. \A r \in 1..e.base :
         /\ revs'[r] = [parent |-> revs'[r].parent, story |-> revs'[r].story, locks |-> revs'[r].locks,
                        brand |-> revs'[r].brand]
         /\ revs'[r].story = revs[r].story /\ revs'[r].parent = revs[r].parent
         /\ revs'[r].locks \in {{}, revs[r].locks}
  <2> SUFFICES ASSUME NEW r \in 1..e.base
               PROVE  /\ revs'[r] = [parent |-> revs'[r].parent, story |-> revs'[r].story,
                                     locks |-> revs'[r].locks, brand |-> revs'[r].brand]
                      /\ revs'[r].story = revs[r].story /\ revs'[r].parent = revs[r].parent
                      /\ revs'[r].locks \in {{}, revs[r].locks}
    OBVIOUS
  <2>1. revs[r] = [parent |-> revs[r].parent, story |-> revs[r].story, locks |-> revs[r].locks,
                   brand |-> revs[r].brand]
    BY <1>3 DEF DeckInv, DeckShape
  <2>2. [revs[r] EXCEPT !.locks = {}]
           = [parent |-> revs[r].parent, story |-> revs[r].story, locks |-> {}, brand |-> revs[r].brand]
    BY <2>1
  <2>3. revs'[r] \in {[parent |-> revs[r].parent, story |-> revs[r].story, locks |-> {},
                       brand |-> revs[r].brand], revs[r]}
    BY <1>3, <2>2
  <2>. QED
    BY <2>1, <2>3
<1>9. \A r \in 1..(e.base + 1) : r = e.base + 1 \/ r \in 1..e.base
  BY <1>1
<1>10. kept'[e.base + 1] = firm[q] /\ \A r \in 1..MaxRevisions : r # e.base + 1 => kept'[r] = kept[r]
  BY <1>1 DEF DeckInv, DeckShape
<1>11. \A p \in Editing : p # q /\ request[p].kind \in Edits \cup {"locks"} =>
          request[p].base \in 1..e.base /\ request[p].base \in 1..deckHead'
  BY <1>1 DEF DeckInv, DeckShape
<1>12. DeckShape'
  <2>1. /\ deckHead' \in 1..MaxRevisions /\ DOMAIN revs' = 1..deckHead'
        /\ DOMAIN kept' = 1..MaxRevisions
    BY <1>1 DEF DeckInv, DeckShape
  <2>2. \A r \in 1..deckHead' :
           revs'[r] = [parent |-> revs'[r].parent, story |-> revs'[r].story, locks |-> revs'[r].locks,
                       brand |-> revs'[r].brand]
    BY <1>1, <1>2, <1>6, <1>8, <1>9
  <2>3. \A p \in Editing :
           request'[p] = [kind |-> request'[p].kind, base |-> request'[p].base, seen |-> request'[p].seen,
                          story |-> request'[p].story, locks |-> request'[p].locks, kit |-> request'[p].kit,
                          flag |-> request'[p].flag]
    BY <1>4 DEF DeckInv, DeckShape, NoRequest
  <2>4. \A p \in Editing : request'[p].kind \in Edits \cup {"locks"} => request'[p].base \in 1..deckHead'
    BY <1>4, <1>11 DEF NoRequest, Edits
  <2>. QED
    BY <1>4, <2>1, <2>2, <2>3, <2>4 DEF DeckShape
<1>13. LocksPresent'
  <2>1. \A r \in 1..deckHead' : revs'[r].locks \subseteq Present(revs'[r].story)
    <3>1. \A r \in 1..e.base : revs[r].locks \subseteq Present(revs[r].story)
      BY <1>3 DEF DeckInv, LocksPresent
    <3>. QED
      BY <1>1, <1>2, <1>6, <1>7, <1>8, <1>9, <3>1
  <2>2. \A p \in Editing :
           /\ request'[p].kind \in Edits =>
                 /\ request'[p].locks \subseteq Present(request'[p].story)
                 /\ request'[p].seen \subseteq Present(revs'[request'[p].base].story)
                 /\ firm'[p] \subseteq request'[p].seen
           /\ request'[p].kind = "locks" =>
                 request'[p].locks \subseteq Present(revs'[request'[p].base].story)
    <3> TAKE p \in Editing
    <3>1. CASE p = q
      BY <1>4, <3>1 DEF NoRequest, Edits
    <3>2. CASE p # q
      <4>1. request'[p] = request[p] /\ firm'[p] \subseteq firm[p]
        BY <1>4, <3>2
      <4>2. request[p].kind \in Edits \cup {"locks"} => revs'[request[p].base].story = revs[request[p].base].story
        BY <1>8, <1>11, <3>2
      <4>. QED
        BY <4>1, <4>2 DEF DeckInv, LocksPresent
    <3>. QED
      BY <3>1, <3>2
  <2>3. \A d : Present(d)' = Present(d)
    BY DEF Present
  <2>. QED
    BY <2>1, <2>2, <2>3 DEF LocksPresent, Present
<1>14. LinearHistory'
  <2>1. \A r \in 1..deckHead' : r = e.base + 1 => revs'[r].parent = r - 1
    BY <1>1, <1>2, <1>6
  <2>2. \A r \in 1..deckHead' : r # e.base + 1 => r \in 1..deckHead /\ revs'[r].parent = revs[r].parent
    BY <1>1, <1>3, <1>8, <1>9
  <2>. QED
    BY <2>1, <2>2 DEF DeckInv, LinearHistory
<1>15. LocksHold'
  <2> SUFFICES ASSUME NEW r \in 2..deckHead', NEW x \in kept'[r]
               PROVE  revs'[r].story[x] = revs'[r - 1].story[x]
    BY DEF LocksHold
  <2>1. CASE r = e.base + 1
    <3>1. e.base \in 1..e.base /\ r - 1 = e.base
      BY <1>1, <2>1
    <3>2. x \in firm[q] /\ revs'[r].story = e.story
      BY <1>2, <1>6, <1>10, <2>1
    <3>3. revs'[r - 1].story = revs[e.base].story
      BY <1>8, <3>1
    <3>. QED
      BY <1>5, <3>2, <3>3
  <2>2. CASE r # e.base + 1
    <3>1. r \in 1..e.base /\ r - 1 \in 1..e.base /\ r \in 2..deckHead /\ r \in 1..MaxRevisions
      BY <1>1, <2>2
    <3>2. x \in kept[r]
      BY <1>10, <2>2, <3>1
    <3>3. revs[r].story[x] = revs[r - 1].story[x]
      BY <3>1, <3>2 DEF DeckInv, LocksHold
    <3>4. revs'[r].story = revs[r].story /\ revs'[r - 1].story = revs[r - 1].story
      BY <1>8, <3>1
    <3>. QED
      BY <3>3, <3>4
  <2>. QED
    BY <2>1, <2>2
<1>. QED
  BY <1>12, <1>13, <1>14, <1>15 DEF DeckInv

LEMMA DeckOpenLocks ==
    ASSUME DeckInv, NEW q \in Editing, NEW locks \in SUBSET Slides, OpenLocks(q, locks)
    PROVE  DeckInv'
<1> USE DeckAssumption
<1>1. DeckShape'
  <2> DEFINE new == locks \cap Present(revs[deckHead].story)
  <2>1. deckHead \in 1..deckHead
    BY DEF DeckInv, DeckShape
  <2>2. request' = [request EXCEPT ![q] = [OnRevision(deckHead) EXCEPT !.kind = "locks", !.locks = new]]
    BY DEF OpenLocks, Open
  <2> HIDE DEF new
  <2>3. /\ request'[q].kind = "locks" /\ request'[q].base = deckHead
        /\ request'[q] = [kind |-> "locks", base |-> deckHead, seen |-> revs[deckHead].locks,
             story |-> NoRequest.story,
                           locks |-> new, kit |-> revs[deckHead].brand, flag |-> FALSE]
    BY <2>2 DEF OnRevision, NoRequest, DeckInv, DeckShape
  <2>4. \A p \in Editing : p # q => request'[p] = request[p]
    BY <2>2 DEF DeckInv, DeckShape
  <2>. QED
    BY <2>1, <2>2, <2>3, <2>4 DEF OpenLocks, Open, deckRows, DeckInv, DeckShape
<1>2. LocksPresent'
  BY DEF OpenLocks, Open, OnRevision, deckRows, NoRequest, Edits, DeckInv, DeckShape, LocksPresent, Present
<1>3. LinearHistory'
  BY DEF OpenLocks, Open, OnRevision, deckRows, NoRequest, Edits, DeckInv, DeckShape, LinearHistory
<1>4. LocksHold'
  BY DEF OpenLocks, Open, OnRevision, deckRows, NoRequest, Edits, DeckInv, DeckShape, LocksHold, LocksPresent
<1>. QED
  BY <1>1, <1>2, <1>3, <1>4 DEF DeckInv

LEMMA DeckWriteLocks ==
    ASSUME DeckInv, NEW q \in Editing, WriteLocks(q)
    PROVE  DeckInv'
<1> USE DeckAssumption
<1>0. /\ UNCHANGED <<deckHead, kept>>
      /\ DOMAIN revs' = 1..deckHead
      /\ \A r \in 1..deckHead :
            /\ revs'[r] = [parent |-> revs'[r].parent, story |-> revs'[r].story, locks |-> revs'[r].locks,
                           brand |-> revs'[r].brand]
            /\ revs'[r].story = revs[r].story /\ revs'[r].parent = revs[r].parent
            /\ revs'[r].locks = revs[r].locks \/ (r = request[q].base /\ revs'[r].locks = request[q].locks)
  <2>1. UNCHANGED <<deckHead, kept>> /\ DOMAIN revs' = 1..deckHead
    BY DEF WriteLocks, DeckInv, DeckShape
  <2> SUFFICES ASSUME NEW r \in 1..deckHead
               PROVE  /\ revs'[r] = [parent |-> revs'[r].parent, story |-> revs'[r].story,
                                     locks |-> revs'[r].locks, brand |-> revs'[r].brand]
                      /\ revs'[r].story = revs[r].story /\ revs'[r].parent = revs[r].parent
                      /\ revs'[r].locks = revs[r].locks
                            \/ (r = request[q].base /\ revs'[r].locks = request[q].locks)
    BY <2>1
  <2>2. revs[r] = [parent |-> revs[r].parent, story |-> revs[r].story, locks |-> revs[r].locks,
                   brand |-> revs[r].brand]
    BY DEF DeckInv, DeckShape
  <2>3. [revs[r] EXCEPT !.locks = request[q].locks]
           = [parent |-> revs[r].parent, story |-> revs[r].story, locks |-> request[q].locks,
              brand |-> revs[r].brand]
    BY <2>2
  <2>4. revs'[r] = revs[r]
           \/ (r = request[q].base /\ revs'[r] = [revs[r] EXCEPT !.locks = request[q].locks])
    BY DEF WriteLocks, DeckInv, DeckShape
  <2>. QED
    BY <2>2, <2>3, <2>4
<1>1. DeckShape'
  <2>1. /\ DOMAIN request' = Editing /\ DOMAIN firm' = Editing /\ request'[q] = NoRequest
        /\ \A p \in Editing : p # q => request'[p] = request[p]
    BY DEF WriteLocks, Close, DeckInv, DeckShape
  <2>2. \A p \in Editing :
           /\ request'[p] = [kind |-> request'[p].kind, base |-> request'[p].base, seen |-> request'[p].seen,
                             story |-> request'[p].story, locks |-> request'[p].locks,
                             kit |-> request'[p].kit, flag |-> request'[p].flag]
           /\ request'[p].kind \in Edits \cup {"locks"} => request'[p].base \in 1..deckHead
    <3> TAKE p \in Editing
    <3>1. CASE p = q
      BY <2>1, <3>1 DEF NoRequest, Edits
    <3>2. CASE p # q
      BY <2>1, <3>2 DEF DeckInv, DeckShape
    <3>. QED
      BY <3>1, <3>2
  <2>. QED
    BY <1>0, <2>1, <2>2 DEF DeckInv, DeckShape
<1>2. LocksPresent'
  <2> DEFINE e == request[q]
  <2>2. deckHead' = deckHead /\ e.base \in 1..deckHead /\ e.locks \subseteq Present(revs[e.base].story)
    BY DEF WriteLocks, DeckInv, DeckShape, LocksPresent
  <2>4. \A r \in 1..deckHead : revs'[r].locks \subseteq Present(revs'[r].story)
    BY <1>0, <2>2 DEF DeckInv, LocksPresent, Present
  <2>5. /\ request'[q] = NoRequest /\ \A p \in Editing : p # q => request'[p] = request[p]
        /\ \A p \in Editing : firm'[p] \subseteq firm[p]
    BY DEF WriteLocks, Close, DeckInv, DeckShape
  <2>6. \A p \in Editing : request[p].kind \in Edits \cup {"locks"} =>
           Present(revs'[request[p].base].story) = Present(revs[request[p].base].story)
    BY <1>0 DEF DeckInv, DeckShape, Present
  <2>7. \A p \in Editing :
           /\ request'[p].kind \in Edits =>
                 /\ request'[p].locks \subseteq Present(request'[p].story)
                 /\ request'[p].seen \subseteq Present(revs'[request'[p].base].story)
                 /\ firm'[p] \subseteq request'[p].seen
           /\ request'[p].kind = "locks" =>
                 request'[p].locks \subseteq Present(revs'[request'[p].base].story)
    <3> TAKE p \in Editing
    <3>1. CASE p = q
      BY <2>5, <3>1 DEF NoRequest, Edits
    <3>2. CASE p # q
      BY <2>5, <2>6, <3>2 DEF DeckInv, LocksPresent
    <3>. QED
      BY <3>1, <3>2
  <2>8. \A d : Present(d)' = Present(d)
    BY DEF Present
  <2>9. \A r \in 1..deckHead' : revs'[r].locks \subseteq Present(revs'[r].story)
    BY <2>2, <2>4
  <2>. QED
    BY <2>7, <2>8, <2>9 DEF LocksPresent, Present
<1>3. LinearHistory'
  <2>1. \A r \in 2..deckHead : r \in 1..deckHead
    BY DEF DeckInv, DeckShape
  <2>. QED
    BY <1>0, <2>1 DEF DeckInv, LinearHistory
<1>4. LocksHold'
  <2>3. \A r \in 2..deckHead : r \in 1..deckHead /\ r - 1 \in 1..deckHead
    BY DEF DeckInv, DeckShape
  <2>. QED
    BY <1>0, <2>3 DEF DeckInv, LocksHold
<1>. QED
  BY <1>1, <1>2, <1>3, <1>4 DEF DeckInv

LEMMA DeckOpenArchive ==
    ASSUME DeckInv, NEW q \in Editing, OpenArchive(q)
    PROVE  DeckInv'
<1> USE DeckAssumption
<1>1. DeckShape'
  BY DEF OpenArchive, Open, deckRows, NoRequest, Edits, DeckInv, DeckShape
<1>2. LocksPresent'
  BY DEF OpenArchive, Open, deckRows, NoRequest, Edits, DeckInv, DeckShape, LocksPresent, Present
<1>3. LinearHistory'
  BY DEF OpenArchive, Open, deckRows, NoRequest, Edits, DeckInv, DeckShape, LinearHistory
<1>4. LocksHold'
  BY DEF OpenArchive, Open, deckRows, NoRequest, Edits, DeckInv, DeckShape, LocksHold, LocksPresent
<1>. QED
  BY <1>1, <1>2, <1>3, <1>4 DEF DeckInv

LEMMA DeckWriteArchive ==
    ASSUME DeckInv, NEW q \in Editing, WriteArchive(q)
    PROVE  DeckInv'
<1> USE DeckAssumption
<1>1. DeckShape'
  BY DEF WriteArchive, Close, deckRows, NoRequest, Edits, DeckInv, DeckShape
<1>2. LocksPresent'
  BY DEF WriteArchive, Close, deckRows, NoRequest, Edits, DeckInv, DeckShape, LocksPresent, Present
<1>3. LinearHistory'
  BY DEF WriteArchive, Close, deckRows, NoRequest, Edits, DeckInv, DeckShape, LinearHistory
<1>4. LocksHold'
  BY DEF WriteArchive, Close, deckRows, NoRequest, Edits, DeckInv, DeckShape, LocksHold, LocksPresent
<1>. QED
  BY <1>1, <1>2, <1>3, <1>4 DEF DeckInv

LEMMA DeckOpenKit ==
    ASSUME DeckInv, NEW q \in Editing, NEW activate, OpenKit(q, activate)
    PROVE  DeckInv'
<1> USE DeckAssumption
<1>1. DeckShape'
  BY DEF OpenKit, Open, deckRows, NoRequest, Edits, DeckInv, DeckShape
<1>2. LocksPresent'
  BY DEF OpenKit, Open, deckRows, NoRequest, Edits, DeckInv, DeckShape, LocksPresent, Present
<1>3. LinearHistory'
  BY DEF OpenKit, Open, deckRows, NoRequest, Edits, DeckInv, DeckShape, LinearHistory
<1>4. LocksHold'
  BY DEF OpenKit, Open, deckRows, NoRequest, Edits, DeckInv, DeckShape, LocksHold, LocksPresent
<1>. QED
  BY <1>1, <1>2, <1>3, <1>4 DEF DeckInv

LEMMA DeckWriteKit ==
    ASSUME DeckInv, NEW q \in Editing, WriteKit(q)
    PROVE  DeckInv'
<1> USE DeckAssumption
<1>1. DeckShape'
  BY DEF WriteKit, Close, deckRows, NoRequest, Edits, DeckInv, DeckShape
<1>2. LocksPresent'
  BY DEF WriteKit, Close, deckRows, NoRequest, Edits, DeckInv, DeckShape, LocksPresent, Present
<1>3. LinearHistory'
  BY DEF WriteKit, Close, deckRows, NoRequest, Edits, DeckInv, DeckShape, LinearHistory
<1>4. LocksHold'
  BY DEF WriteKit, Close, deckRows, NoRequest, Edits, DeckInv, DeckShape, LocksHold, LocksPresent
<1>. QED
  BY <1>1, <1>2, <1>3, <1>4 DEF DeckInv

LEMMA DeckActivate ==
    ASSUME DeckInv, NEW q \in Editing, NEW old, NEW kit, Activate(q, old, kit)
    PROVE  DeckInv'
<1> USE DeckAssumption
<1>1. DeckShape'
  BY DEF Activate, deckRows, Edits, DeckInv, DeckShape
<1>2. LocksPresent'
  BY DEF Activate, deckRows, Edits, DeckInv, DeckShape, LocksPresent, Present
<1>3. LinearHistory'
  BY DEF Activate, deckRows, Edits, DeckInv, DeckShape, LinearHistory
<1>4. LocksHold'
  BY DEF Activate, deckRows, Edits, DeckInv, DeckShape, LocksHold, LocksPresent
<1>. QED
  BY <1>1, <1>2, <1>3, <1>4 DEF DeckInv

LEMMA DeckRefuse ==
    ASSUME DeckInv, NEW q \in Editing, Refuse(q)
    PROVE  DeckInv'
<1> USE DeckAssumption
<1>1. DeckShape'
  BY DEF Refuse, Close, deckRows, NoRequest, Edits, DeckInv, DeckShape
<1>2. LocksPresent'
  BY DEF Refuse, Close, deckRows, NoRequest, Edits, DeckInv, DeckShape, LocksPresent, Present
<1>3. LinearHistory'
  BY DEF Refuse, Close, deckRows, NoRequest, Edits, DeckInv, DeckShape, LinearHistory
<1>4. LocksHold'
  BY DEF Refuse, Close, deckRows, NoRequest, Edits, DeckInv, DeckShape, LocksHold, LocksPresent
<1>. QED
  BY <1>1, <1>2, <1>3, <1>4 DEF DeckInv

LEMMA DeckStepInv == DeckInv /\ DeckNext => DeckInv'
<1> SUFFICES ASSUME DeckInv, NEW q \in Editing, DeckNext!(q) PROVE DeckInv'
  BY DEF DeckNext
<1>1. CASE OpenEdit(q)
  BY <1>1, DeckOpenRevise, DeckOpenRestore, DeckOpenRegenerate, DeckOpenExpert DEF OpenEdit
<1>2. CASE ~OpenEdit(q)
  BY <1>2, DeckRevise, DeckOpenLocks, DeckWriteLocks, DeckOpenArchive, DeckWriteArchive, DeckOpenKit, DeckWriteKit,
     DeckActivate, DeckRefuse
<1>. QED
  BY <1>1, <1>2

LEMMA DeckStutters == DeckInv /\ UNCHANGED deckVars => DeckInv'
<1> SUFFICES ASSUME DeckInv, UNCHANGED deckVars PROVE DeckInv'
  OBVIOUS
<1>1. DeckShape' /\ LocksPresent'
  BY DEF deckVars, deckRows, DeckInv, DeckShape, LocksPresent
<1>2. LinearHistory' /\ LocksHold'
  BY DEF deckVars, deckRows, DeckInv, LinearHistory, LocksHold
<1>. QED
  BY <1>1, <1>2 DEF DeckInv

--------------------------------------------------------------------------------
(* The shared job queue *)

\* A row of a job of this kind, n of whose claims have been counted: it has no more
\* attempts than that (one more while it runs), or all that are counted, it was given
\* up at its limit, and no coding task is done.
SoundRow(r, kind, n, more) ==
    /\ r \in JobRow /\ r.kind = kind
    /\ r.attempts <= n + more \/ n = Tries[kind]
    /\ r.state = "dead_letter" => n = Tries[kind]
    /\ kind = "coding" => r.state # "succeeded"

SoundFlushed(p, j, q, c) ==
    /\ j \in DOMAIN q
    /\ SoundRow(p.rows[j], q[j].kind, c[j], IF p.step = "run" /\ p.on = j THEN 1 ELSE 0)

SoundPass(p, q, c) ==
    \/ p = NoPass
    \/ /\ p = [step |-> p.step, on |-> p.on, was |-> p.was, rows |-> p.rows]
       /\ p.step \in {"look", "found", "run"}
       /\ \A j \in DOMAIN p.rows : SoundFlushed(p, j, q, c)
       /\ p.step # "look" => p.on \in DOMAIN q
       /\ p.step = "found" => /\ p.was \in Nat
                              /\ p.was <= c[p.on] \/ c[p.on] = Tries[q[p.on].kind]
       /\ p.step = "run" => p.on \in DOMAIN p.rows

\* Each committed row, and each row a pass has flushed, has no more attempts than its
\* claims, and nobody counts past the limit.
QueueInv ==
    /\ \E n \in Nat : DOMAIN queue = 1..n
    /\ DOMAIN claims = DOMAIN queue /\ DOMAIN pass = QueueWorkers
    /\ \A j \in DOMAIN queue :
          /\ claims[j] \in Nat /\ claims[j] <= Tries[queue[j].kind]
          /\ SoundRow(queue[j], queue[j].kind, claims[j], 0)
    /\ \A w \in QueueWorkers : SoundPass(pass[w], queue, claims)

\* A row stays sound while others are claimed, and as it is claimed and requeued.
LEMMA RowStays ==
    ASSUME NEW r, NEW kind \in Kind, NEW n \in Nat, NEW m \in Nat, NEW more \in {0, 1},
           n <= m, m <= Tries[kind], SoundRow(r, kind, n, more)
    PROVE  SoundRow(r, kind, m, more)
BY QueueAssumption DEF SoundRow, JobRow

LEMMA RowClaimed ==
    ASSUME NEW r \in JobRow, NEW n \in Nat
    PROVE  /\ [r EXCEPT !.state = "running", !.attempts = n] \in JobRow
           /\ [r EXCEPT !.state = "running", !.attempts = n].attempts = n
           /\ [r EXCEPT !.state = "running", !.attempts = n].state = "running"
           /\ [r EXCEPT !.state = "running", !.attempts = n].kind = r.kind
BY DEF JobRow, JobState

LEMMA RowRequeued ==
    ASSUME NEW r \in JobRow
    PROVE  /\ [r EXCEPT !.state = "queued", !.later = TRUE] \in JobRow
           /\ [r EXCEPT !.state = "queued", !.later = TRUE].attempts = r.attempts
           /\ [r EXCEPT !.state = "queued", !.later = TRUE].state = "queued"
           /\ [r EXCEPT !.state = "queued", !.later = TRUE].kind = r.kind
BY DEF JobRow, JobState

\* So does a pass as rows are added and others commit.
LEMMA PassStays ==
    ASSUME NEW p, NEW q, NEW c, NEW q2, NEW c2, DOMAIN q \subseteq DOMAIN q2,
           \A j \in DOMAIN q :
              /\ q[j].kind \in Kind /\ q2[j].kind = q[j].kind
              /\ c[j] \in Nat /\ c2[j] \in Nat /\ c[j] <= c2[j] /\ c2[j] <= Tries[q[j].kind],
           SoundPass(p, q, c)
    PROVE  SoundPass(p, q2, c2)
<1>1. CASE p = NoPass
  BY <1>1 DEF SoundPass
<1>2. CASE p # NoPass
  <2>1. \A j \in DOMAIN p.rows : SoundFlushed(p, j, q2, c2)
    <3> TAKE j \in DOMAIN p.rows
    <3> DEFINE more == IF p.step = "run" /\ p.on = j THEN 1 ELSE 0
    <3>1. j \in DOMAIN q /\ SoundRow(p.rows[j], q[j].kind, c[j], more) /\ more \in {0, 1}
      BY <1>2 DEF SoundPass, SoundFlushed
    <3> HIDE DEF more
    <3>2. SoundRow(p.rows[j], q2[j].kind, c2[j], more)
      BY <3>1, RowStays
    <3>. QED
      BY <3>1, <3>2 DEF SoundFlushed, more
  <2>2. p.step = "found" => p.was <= c2[p.on] \/ c2[p.on] = Tries[q2[p.on].kind]
    BY <1>2, QueueAssumption DEF SoundPass
  <2>. QED
    BY <1>2, <2>1, <2>2 DEF SoundPass
<1>. QED
  BY <1>1, <1>2

\* The queue starts empty; each step keeps what is said of it.
LEMMA QueueInitInv == QueueInit => QueueInv
<1> SUFFICES ASSUME QueueInit PROVE QueueInv
  OBVIOUS
<1>1. 1..0 = {} /\ 0 \in Nat
  OBVIOUS
<1>. QED
  BY <1>1 DEF QueueInit, QueueInv, SoundPass

\* A step that changes one pass alone.
LEMMA PassMoves ==
    ASSUME QueueInv, NEW w \in QueueWorkers, UNCHANGED <<queue, claims>>, DOMAIN pass' = QueueWorkers,
           SoundPass(pass'[w], queue, claims),
           \A o \in QueueWorkers \ {w} : pass'[o] = pass[o]
    PROVE  QueueInv'
<1>1. \A o \in QueueWorkers : SoundPass(pass'[o], queue, claims)
  BY DEF QueueInv
<1>. QED
  BY <1>1 DEF QueueInv

\* The row a pass works on that has not read one is sound.
LEMMA RowSeen ==
    ASSUME QueueInv, NEW w \in QueueWorkers, InPass(w), NEW j \in JobIds,
           pass[w].step # "run" \/ pass[w].on # j
    PROVE  SoundRow(QueueRow(w, j), queue[j].kind, claims[j], 0)
<1>1. CASE j \in Flushed(w)
  <2>1. SoundPass(pass[w], queue, claims) /\ pass[w] # NoPass /\ j \in DOMAIN pass[w].rows
    BY <1>1 DEF QueueInv, InPass, NoPass, Flushed
  <2>2. SoundFlushed(pass[w], j, queue, claims)
    BY <2>1 DEF SoundPass
  <2>. QED
    BY <1>1, <2>2 DEF SoundFlushed, QueueRow
<1>2. CASE j \notin Flushed(w)
  BY <1>2 DEF QueueInv, QueueRow, JobIds
<1>. QED
  BY <1>1, <1>2

LEMMA QueueLosePass ==
    ASSUME QueueInv, NEW w \in QueueWorkers, LosePass(w)
    PROVE  QueueInv'
<1>1. SoundPass(pass'[w], queue, claims)
  BY DEF LosePass, SoundPass, QueueInv
<1>. QED
  BY <1>1, PassMoves DEF LosePass, QueueInv

LEMMA QueueBeginPass ==
    ASSUME QueueInv, NEW w \in QueueWorkers, BeginPass(w)
    PROVE  QueueInv'
<1> DEFINE promoted == IF w \in IntegrationWorkers THEN Promotable ELSE {}
           promotedRows == [j \in promoted |-> Promoted(j)]
<1>1. pass' = [pass EXCEPT ![w] = [step |-> "look", on |-> 0, was |-> 0, rows |-> promotedRows]]
  BY DEF BeginPass
<1>2. \A j \in promoted : j \in DOMAIN queue /\ SoundRow(promotedRows[j], queue[j].kind, claims[j], 0)
  BY DEF Promotable, Promoted, JobIds, QueueInv, SoundRow, JobRow, JobState
<1> HIDE DEF promoted
<1>3. DOMAIN promotedRows = promoted
  OBVIOUS
<1> HIDE DEF promotedRows
<1>4. SoundPass([step |-> "look", on |-> 0, was |-> 0, rows |-> promotedRows], queue, claims)
  BY <1>2, <1>3 DEF SoundPass, SoundFlushed
<1>. QED
  BY <1>1, <1>4, PassMoves DEF BeginPass, QueueInv

LEMMA QueueFindJob ==
    ASSUME QueueInv, NEW w \in QueueWorkers, FindJob(w)
    PROVE  QueueInv'
<1>1. InPass(w) /\ pass[w].step = "look" /\ SoundPass(pass[w], queue, claims) /\ pass[w] # NoPass
  BY DEF FindJob, InPass, QueueInv, NoPass
<1>2. PICK j \in Claimable(w) :
         pass' = [pass EXCEPT ![w].step = "found", ![w].on = j, ![w].was = QueueRow(w, j).attempts]
  BY DEF FindJob
<1>3. j \in JobIds /\ SoundRow(QueueRow(w, j), queue[j].kind, claims[j], 0) /\ claims[j] \in Nat
  BY <1>1, RowSeen DEF Claimable, QueueInv, JobIds
<1>4. pass'[w] = [step |-> "found", on |-> j, was |-> QueueRow(w, j).attempts, rows |-> pass[w].rows]
  BY <1>1, <1>2 DEF SoundPass, QueueInv
<1>5. /\ QueueRow(w, j).attempts \in Nat
      /\ QueueRow(w, j).attempts <= claims[j] \/ claims[j] = Tries[queue[j].kind]
  BY <1>3 DEF SoundRow, JobRow
<1>6. \A i \in DOMAIN pass[w].rows : SoundFlushed(pass'[w], i, queue, claims)
  BY <1>1, <1>4 DEF SoundPass, SoundFlushed
<1>7. SoundPass(pass'[w], queue, claims)
  BY <1>3, <1>4, <1>5, <1>6 DEF SoundPass, JobIds
<1>. QED
  BY <1>2, <1>7, PassMoves DEF FindJob, QueueInv

LEMMA QueueClaimJob ==
    ASSUME QueueInv, NEW w \in QueueWorkers, ClaimJob(w)
    PROVE  QueueInv'
<1> DEFINE j == pass[w].on
           r == [QueueRow(w, j) EXCEPT !.state = "running", !.attempts = pass[w].was + 1]
<1>1. InPass(w) /\ pass[w].step = "found" /\ SoundPass(pass[w], queue, claims) /\ pass[w] # NoPass
  BY DEF ClaimJob, InPass, QueueInv, NoPass
<1>2. /\ j \in JobIds /\ pass[w].was \in Nat
      /\ pass[w].was <= claims[j] \/ claims[j] = Tries[queue[j].kind]
      /\ claims[j] \in Nat
  BY <1>1 DEF SoundPass, JobIds, QueueInv
<1>3. SoundRow(QueueRow(w, j), queue[j].kind, claims[j], 0)
  BY <1>1, <1>2, RowSeen
<1>4. SoundRow(r, queue[j].kind, claims[j], 1)
  <2>1. /\ QueueRow(w, j) \in JobRow /\ QueueRow(w, j).kind = queue[j].kind /\ pass[w].was + 1 \in Nat
        /\ queue[j].kind = "coding" => QueueRow(w, j).state # "succeeded"
    BY <1>2, <1>3 DEF SoundRow
  <2>2. /\ r \in JobRow /\ r.attempts = pass[w].was + 1 /\ r.state = "running"
        /\ r.kind = queue[j].kind
    BY <2>1, RowClaimed
  <2>3. r.attempts <= claims[j] + 1 \/ claims[j] = Tries[queue[j].kind]
    BY <1>2, <2>2
  <2> HIDE DEF r
  <2>. QED
    BY <2>2, <2>3 DEF SoundRow
<1>5. pass' = [pass EXCEPT ![w].step = "run", ![w].rows = WithRow(w, j, r)]
  BY DEF ClaimJob
<1> HIDE DEF r
<1>6. pass'[w] = [step |-> "run", on |-> j, was |-> pass[w].was, rows |-> WithRow(w, j, r)]
  BY <1>1, <1>5 DEF SoundPass, QueueInv
<1>7. /\ DOMAIN WithRow(w, j, r) = DOMAIN pass[w].rows \cup {j}
      /\ WithRow(w, j, r)[j] = r
      /\ \A i \in DOMAIN pass[w].rows : i # j => WithRow(w, j, r)[i] = pass[w].rows[i]
  BY <1>1 DEF WithRow, Flushed
<1>8. \A i \in DOMAIN pass[w].rows : SoundFlushed(pass[w], i, queue, claims)
  BY <1>1 DEF SoundPass
<1>9. \A i \in DOMAIN pass[w].rows \cup {j} : SoundFlushed(pass'[w], i, queue, claims)
  BY <1>1, <1>2, <1>4, <1>6, <1>7, <1>8 DEF SoundFlushed, JobIds
<1>10. SoundPass(pass'[w], queue, claims)
  BY <1>2, <1>6, <1>7, <1>9 DEF SoundPass, JobIds
<1>. QED
  BY <1>5, <1>10, PassMoves DEF ClaimJob, QueueInv

LEMMA QueueProcessOnce ==
    ASSUME QueueInv, NEW w \in QueueWorkers, NEW succeeds \in BOOLEAN, ProcessOnce(w, succeeds)
    PROVE  QueueInv'
<1> DEFINE j == pass[w].on  r == pass[w].rows[j]
           new == IF succeeds THEN [r EXCEPT !.state = "succeeded"] ELSE Failed(r)
<1>1. InPass(w) /\ pass[w].step = "run" /\ SoundPass(pass[w], queue, claims) /\ pass[w] # NoPass
  BY DEF ProcessOnce, InPass, QueueInv, NoPass
<1>2. j \in DOMAIN queue /\ j \in DOMAIN pass[w].rows /\ SoundRow(r, queue[j].kind, claims[j], 1)
  BY <1>1 DEF SoundPass, SoundFlushed
<1>3. /\ claims[j] \in Nat /\ claims[j] <= Tries[queue[j].kind] /\ queue[j].kind \in Kind
      /\ Tries[queue[j].kind] \in Nat
  BY <1>2, QueueAssumption DEF QueueInv, SoundRow, JobRow
<1>4. claims' = IF claims[j] < Tries[queue[j].kind] THEN [claims EXCEPT ![j] = @ + 1] ELSE claims
  BY <1>2 DEF ProcessOnce, SoundRow
<1>5. /\ DOMAIN claims' = DOMAIN queue
      /\ \A i \in DOMAIN queue : /\ claims[i] \in Nat /\ claims'[i] \in Nat /\ claims[i] <= claims'[i]
                                 /\ claims'[i] <= Tries[queue[i].kind] /\ queue[i].kind \in Kind
  BY <1>3, <1>4, QueueAssumption DEF QueueInv, SoundRow, JobRow
<1>6. claims'[j] = claims[j] + 1 \/ claims'[j] = Tries[queue[j].kind]
  BY <1>2, <1>3, <1>4 DEF QueueInv
<1>7. SoundRow(new, queue[j].kind, claims'[j], 0)
  <2>1. CASE succeeds
    <3>1. r.kind \in Handled(w) /\ r.kind # "coding"
      BY <2>1 DEF ProcessOnce, Handled
    <3>. QED
      BY <1>2, <1>3, <1>5, <1>6, <2>1, <3>1 DEF SoundRow, JobRow, JobState
  <2>2. CASE ~succeeds /\ r.attempts >= Tries[r.kind]
    <3>1. new = [r EXCEPT !.state = "dead_letter"]
      BY <2>2 DEF Failed
    <3>2. claims'[j] = Tries[queue[j].kind]
      BY <1>2, <1>3, <1>5, <1>6, <2>2 DEF SoundRow, JobRow
    <3> HIDE DEF new
    <3>. QED
      BY <1>2, <3>1, <3>2 DEF SoundRow, JobRow, JobState
  <2>3. CASE ~succeeds /\ ~(r.attempts >= Tries[r.kind])
    <3>1. new = [r EXCEPT !.state = "queued", !.later = TRUE]
      BY <2>3 DEF Failed
    <3>2. r \in JobRow /\ r.kind = queue[j].kind
      BY <1>2 DEF SoundRow
    <3>3. new \in JobRow /\ new.attempts = r.attempts /\ new.state = "queued" /\ new.kind = r.kind
      BY <3>1, <3>2, RowRequeued
    <3>4. r.attempts \in Nat
      BY <3>2 DEF JobRow
    <3>5. r.attempts <= claims[j] + 1 \/ claims[j] = Tries[queue[j].kind]
      BY <1>2 DEF SoundRow
    <3>6. r.attempts <= claims'[j] \/ claims'[j] = Tries[queue[j].kind]
      BY <1>2, <1>3, <1>5, <1>6, <3>4, <3>5
    <3>7. claims'[j] + 0 = claims'[j]
      BY <1>2, <1>5
    <3> HIDE DEF new
    <3>. QED
      BY <3>2, <3>3, <3>6, <3>7 DEF SoundRow
  <2>. QED
    BY <2>1, <2>2, <2>3
<1>8. pass' = [pass EXCEPT ![w].step = "look", ![w].on = 0, ![w].was = 0, ![w].rows[j] = new] /\ queue' = queue
  BY DEF ProcessOnce
<1> HIDE DEF new
<1>9. pass'[w] = [step |-> "look", on |-> 0, was |-> 0, rows |-> [pass[w].rows EXCEPT ![j] = new]]
  BY <1>1, <1>8 DEF SoundPass, QueueInv
<1>10. \A o \in QueueWorkers : SoundPass(pass[o], queue, claims')
  BY <1>5, PassStays DEF QueueInv
<1>11. \A i \in DOMAIN pass[w].rows : i # j => SoundFlushed(pass'[w], i, queue, claims')
  <2>1. \A i \in DOMAIN pass[w].rows : SoundFlushed(pass[w], i, queue, claims')
    BY <1>1, <1>10 DEF SoundPass
  <2>2. \A i \in DOMAIN pass[w].rows : i # j => pass'[w].rows[i] = pass[w].rows[i]
    BY <1>9
  <2>. QED
    BY <1>9, <2>1, <2>2 DEF SoundFlushed
<1>12. SoundFlushed(pass'[w], j, queue, claims')
  BY <1>2, <1>7, <1>9 DEF SoundFlushed
<1>13. SoundPass(pass'[w], queue, claims')
  BY <1>9, <1>11, <1>12 DEF SoundPass
<1>14. \A o \in QueueWorkers : SoundPass(pass'[o], queue, claims')
  BY <1>8, <1>10, <1>13 DEF QueueInv
<1>15. \A i \in DOMAIN queue : SoundRow(queue[i], queue[i].kind, claims'[i], 0)
  BY <1>5, RowStays DEF QueueInv
<1>. QED
  BY <1>5, <1>8, <1>14, <1>15 DEF QueueInv

LEMMA QueueCommitPass ==
    ASSUME QueueInv, NEW w \in QueueWorkers, CommitQueuePass(w)
    PROVE  QueueInv'
<1>1. InPass(w) /\ pass[w].step = "look"
  BY DEF CommitQueuePass
<1>2. /\ queue' = [j \in DOMAIN queue |-> QueueRow(w, j)] /\ claims' = claims
      /\ pass' = [pass EXCEPT ![w] = NoPass]
  BY DEF CommitQueuePass, JobIds
<1>3. \A j \in DOMAIN queue : SoundRow(queue'[j], queue[j].kind, claims[j], 0)
  BY <1>1, <1>2, RowSeen DEF JobIds
<1>4. \A j \in DOMAIN queue : queue'[j].kind = queue[j].kind /\ queue[j].kind \in Kind
  BY <1>3 DEF SoundRow, JobRow
<1>5. \A o \in QueueWorkers : SoundPass(pass[o], queue', claims)
  BY <1>2, <1>4, PassStays DEF QueueInv
<1>6. \A o \in QueueWorkers : SoundPass(pass'[o], queue', claims)
  BY <1>2, <1>5 DEF QueueInv, SoundPass
<1>. QED
  BY <1>2, <1>3, <1>4, <1>6 DEF QueueInv

LEMMA QueueFallsDue ==
    ASSUME QueueInv, NEW j \in JobIds, FallsDue(j)
    PROVE  QueueInv'
<1>1. /\ queue' = [queue EXCEPT ![j].later = FALSE] /\ UNCHANGED <<claims, pass>> /\ j \in DOMAIN queue
  BY DEF FallsDue, JobIds
<1>2. SoundRow(queue'[j], queue[j].kind, claims[j], 0)
  BY <1>1 DEF QueueInv, SoundRow, JobRow
<1>3. \A i \in DOMAIN queue : SoundRow(queue'[i], queue[i].kind, claims[i], 0)
  BY <1>1, <1>2 DEF QueueInv
<1>4. \A i \in DOMAIN queue : queue'[i].kind = queue[i].kind /\ queue[i].kind \in Kind
  BY <1>3 DEF SoundRow, JobRow
<1>5. \A o \in QueueWorkers : SoundPass(pass[o], queue', claims)
  <2>1. DOMAIN queue \subseteq DOMAIN queue'
    BY <1>1
  <2>2. \A i \in DOMAIN queue : /\ claims[i] \in Nat /\ claims[i] <= claims[i]
                                /\ claims[i] <= Tries[queue[i].kind]
    BY DEF QueueInv
  <2>3. \A o \in QueueWorkers : SoundPass(pass[o], queue, claims)
    BY DEF QueueInv
  <2>. QED
    BY <1>4, <2>1, <2>2, <2>3, PassStays
<1>. QED
  BY <1>1, <1>3, <1>4, <1>5 DEF QueueInv

LEMMA QueueDecideJob ==
    ASSUME QueueInv, NEW j, NEW decision, DecideJob(j, decision)
    PROVE  QueueInv'
BY DEF DecideJob, QueueInv

LEMMA QueueEnqueue ==
    ASSUME QueueInv, NEW kind \in Produced, Enqueue(kind)
    PROVE  QueueInv'
<1>1. PICK n \in Nat : DOMAIN queue = 1..n
  BY DEF QueueInv
<1>2. Cardinality(JobIds) = n
  <2>1. 1 \in Int /\ n \in Int
    OBVIOUS
  <2>2. Cardinality(1..n) = IF 1 > n THEN 0 ELSE n - 1 + 1
    BY <2>1, FS_Interval
  <2>. QED
    BY <1>1, <2>2 DEF JobIds
<1> DEFINE new == [kind |-> kind, state |-> FirstState(kind), attempts |-> 0,
                   later |-> kind \in {"review", "deliver"}]
<1>3. /\ queue' = [i \in 1..(n + 1) |-> IF i = n + 1 THEN new ELSE queue[i]]
      /\ claims' = [i \in 1..(n + 1) |-> IF i = n + 1 THEN 0 ELSE claims[i]]
      /\ pass' = pass
  BY <1>2 DEF Enqueue
<1>4. kind \in Kind /\ Tries[kind] \in Nat
  BY QueueAssumption
<1>5. SoundRow(new, kind, 0, 0)
  BY <1>4 DEF SoundRow, JobRow, JobState, FirstState
<1>6. new.kind = kind
  OBVIOUS
<1> HIDE DEF new
<1>7. \A i \in 1..n : i \in 1..(n + 1) /\ i # n + 1
  OBVIOUS
<1>8. \A i \in 1..(n + 1) : i = n + 1 \/ i \in 1..n
  OBVIOUS
<1>9. \A i \in DOMAIN queue : /\ i \in DOMAIN queue' /\ queue'[i] = queue[i] /\ claims'[i] = claims[i]
                              /\ queue[i].kind \in Kind
  BY <1>1, <1>3, <1>7 DEF QueueInv, SoundRow, JobRow
<1>10. \A o \in QueueWorkers : SoundPass(pass[o], queue', claims')
  BY <1>9, PassStays DEF QueueInv
<1>11. queue'[n + 1] = new /\ claims'[n + 1] = 0
  BY <1>3
<1>12. \A i \in DOMAIN queue' :
          /\ claims'[i] \in Nat /\ claims'[i] <= Tries[queue'[i].kind]
          /\ SoundRow(queue'[i], queue'[i].kind, claims'[i], 0)
  BY <1>1, <1>3, <1>4, <1>5, <1>6, <1>8, <1>9, <1>11 DEF QueueInv
<1>. QED
  BY <1>3, <1>10, <1>12 DEF QueueInv

\* A job is dead only after as many claims as its kind may have.
LEMMA QueueSound == QueueInv => GivenUpInTime
BY DEF QueueInv, GivenUpInTime, SoundRow, JobIds

LEMMA QueueStepInv == QueueInv /\ QueueNext => QueueInv'
BY QueueEnqueue, QueueFallsDue, QueueDecideJob, QueueBeginPass, QueueFindJob, QueueClaimJob, QueueCommitPass,
   QueueLosePass, QueueProcessOnce
   DEF QueueNext

LEMMA QueueStutters == QueueInv /\ UNCHANGED queueVars => QueueInv'
BY DEF queueVars, QueueInv, SoundPass, SoundFlushed, SoundRow

--------------------------------------------------------------------------------
(* Delegation between agents *)

\* In every set of personas some one has delegated to none of them.
Acyclic(ds) ==
    \A s \in SUBSET Personas : s = {} \/
        \E a \in s : \A d \in ds : d.manager = a => d.worker \notin s

\* Nobody has seen more than was committed, and what a turn would commit over nothing
\* but what it has seen is free of cycles.
DelegationInv ==
    /\ DOMAIN turn = Turns /\ DOMAIN seen = Turns
    /\ \A q \in Turns :
          /\ turn[q] = [open |-> turn[q].open, manager |-> turn[q].manager, added |-> turn[q].added]
          /\ seen[q] \subseteq delegations
    /\ ~crossed =>
          /\ Acyclic(delegations)
          /\ \A q \in Turns :
                turn[q].added # {} /\ seen[q] = delegations => Acyclic(delegations \cup turn[q].added)

\* Who has delegated to the manager or to one of its ancestors is an ancestor.
LEMMA AncestorsClosed ==
    ASSUME NEW ds, NEW a, NEW d \in ds, d.manager \in Personas, d.worker \in Excluded(a, ds)
    PROVE  d.manager \in Ancestors(a, ds)
<1> SUFFICES ASSUME NEW up \in SUBSET Personas, ManagersOf(a, ds) \subseteq up,
                    \A b \in up : ManagersOf(b, ds) \subseteq up
             PROVE  d.manager \in up
  BY DEF Ancestors
<1>1. d.manager \in ManagersOf(d.worker, ds)
  BY DEF ManagersOf
<1>2. d.worker = a \/ d.worker \in up
  BY DEF Excluded, Ancestors
<1>. QED
  BY <1>1, <1>2

\* A row whose worker is no ancestor of its manager closes no cycle.
LEMMA NoCycleClosed ==
    ASSUME NEW ds, NEW e, Acyclic(ds), e.worker \notin Excluded(e.manager, ds)
    PROVE  Acyclic(ds \cup {e})
<1> SUFFICES ASSUME NEW s \in SUBSET Personas, s # {},
                    \A b \in s : \E d \in ds \cup {e} : d.manager = b /\ d.worker \in s
             PROVE  FALSE
  BY DEF Acyclic
<1>1. CASE ~(e.manager \in s /\ e.worker \in s)
  <2>1. \A b \in s : \E d \in ds : d.manager = b /\ d.worker \in s
    BY <1>1
  <2>. QED
    BY <2>1 DEF Acyclic
<1>2. CASE e.manager \in s /\ e.worker \in s
  <2> DEFINE below == s \ Excluded(e.manager, ds)
  <2>1. e.worker \in below /\ below \in SUBSET Personas
    BY <1>2
  <2>2. ASSUME NEW b \in below PROVE \E d \in ds : d.manager = b /\ d.worker \in below
    <3>1. PICK d \in ds \cup {e} : d.manager = b /\ d.worker \in s
      BY <2>2
    <3>2. d \in ds
      BY <2>2, <3>1 DEF Excluded
    <3>3. d.worker \notin Excluded(e.manager, ds)
      <4>1. b \in Personas /\ b \notin Ancestors(e.manager, ds)
        BY <2>2 DEF Excluded
      <4>. QED
        BY <3>1, <3>2, <4>1, AncestorsClosed
    <3>. QED
      BY <3>1, <3>2, <3>3
  <2> HIDE DEF below
  <2>. QED
    BY <2>1, <2>2 DEF Acyclic
<1>. QED
  BY <1>1, <1>2

\* The steps of the turns.
LEMMA DelegationInitInv == DelegationInit => DelegationInv
<1> SUFFICES ASSUME DelegationInit PROVE DelegationInv
  OBVIOUS
<1>1. Acyclic({})
  BY DEF Acyclic
<1>. QED
  BY <1>1 DEF DelegationInit, DelegationInv, NoTurn

\* Steps that commit nothing and add nothing: nobody's turn has added what it had not.
LEMMA DelegationQuiet ==
    ASSUME DelegationInv, UNCHANGED <<delegations, crossed>>, DOMAIN turn' = Turns, DOMAIN seen' = Turns,
           \A q \in Turns :
              /\ turn'[q] = [open |-> turn'[q].open, manager |-> turn'[q].manager, added |-> turn'[q].added]
              /\ turn'[q].added = {} \/ turn'[q].added = turn[q].added
              /\ seen'[q] = {} \/ seen'[q] = seen[q]
              /\ turn'[q].added # {} => seen'[q] = seen[q]
    PROVE  DelegationInv'
<1>1. Acyclic(delegations)' <=> Acyclic(delegations)
  BY DEF Acyclic
<1>2. \A p \in Turns : Acyclic(delegations \cup turn[p].added)' <=> Acyclic(delegations \cup turn'[p].added)
  BY DEF Acyclic
<1>. QED
  BY <1>1, <1>2 DEF DelegationInv

LEMMA DelegationBeginTurn ==
    ASSUME DelegationInv, NEW q \in Turns, NEW a \in Personas, BeginTurn(q, a)
    PROVE  DelegationInv'
BY DelegationQuiet DEF DelegationInv, BeginTurn

LEMMA DelegationDelegate ==
    ASSUME DelegationInv, NEW q \in Turns, NEW worker, NEW parent, Delegate(q, worker, parent)
    PROVE  DelegationInv'
<1> DEFINE a == turn[q].manager
           ds == delegations \cup turn[q].added
           e == [id |-> NextId, manager |-> a, worker |-> worker, parent |-> parent,
                 depth |-> ManagerDepth(a, ds) + 1]
<1>1. /\ turn' = [turn EXCEPT ![q].added = @ \cup {e}]
      /\ seen' = IF turn[q].added = {} THEN [seen EXCEPT ![q] = delegations] ELSE seen
      /\ UNCHANGED <<delegations, crossed>>
      /\ worker \notin Excluded(a, ds)
  BY DEF Delegate
<1>2. e.manager = a /\ e.worker = worker
  OBVIOUS
<1> HIDE DEF e
<1>3. turn'[q] = [open |-> turn[q].open, manager |-> a, added |-> turn[q].added \cup {e}]
  BY <1>1 DEF DelegationInv
<1>4. \A p \in Turns : p # q => turn'[p] = turn[p] /\ seen'[p] = seen[p]
  BY <1>1 DEF DelegationInv
<1>5. DOMAIN turn' = Turns /\ DOMAIN seen' = Turns /\ seen'[q] \subseteq delegations
  BY <1>1 DEF DelegationInv
<1>6. ~crossed /\ seen'[q] = delegations => Acyclic(delegations \cup turn'[q].added)
  <2> SUFFICES ASSUME ~crossed, seen'[q] = delegations PROVE Acyclic(ds \cup {e})
    BY <1>3
  <2>1. Acyclic(ds)
    <3>1. CASE turn[q].added = {}
      BY <3>1 DEF DelegationInv
    <3>2. CASE turn[q].added # {}
      BY <1>1, <3>2 DEF DelegationInv
    <3>. QED
      BY <3>1, <3>2
  <2> HIDE DEF ds
  <2>. QED
    BY <1>1, <1>2, <2>1, NoCycleClosed
<1>7. ~crossed' => /\ Acyclic(delegations')
                   /\ \A p \in Turns : turn'[p].added # {} /\ seen'[p] = delegations'
                                          => Acyclic(delegations' \cup turn'[p].added)
  BY <1>1, <1>4, <1>6 DEF DelegationInv
<1>8. \A p \in Turns : /\ seen'[p] \subseteq delegations'
                       /\ turn'[p] = [open |-> turn'[p].open, manager |-> turn'[p].manager, added |-> turn'[p].added]
  BY <1>1, <1>3, <1>4, <1>5 DEF DelegationInv
<1>9. Acyclic(delegations)' <=> Acyclic(delegations')
  BY DEF Acyclic
<1>10. \A p \in Turns : Acyclic(delegations \cup turn[p].added)' <=> Acyclic(delegations' \cup turn'[p].added)
  BY DEF Acyclic
<1>. QED
  BY <1>5, <1>7, <1>8, <1>9, <1>10 DEF DelegationInv

LEMMA DelegationCommitTurn ==
    ASSUME DelegationInv, NEW q \in Turns, CommitTurn(q)
    PROVE  DelegationInv'
<1>1. /\ turn' = [turn EXCEPT ![q] = NoTurn] /\ seen' = [seen EXCEPT ![q] = {}]
      /\ delegations' = delegations \cup turn[q].added
      /\ crossed' = (crossed \/ (turn[q].added # {} /\ seen[q] # delegations))
  BY DEF CommitTurn, CloseTurn
<1>2. /\ DOMAIN turn' = Turns /\ DOMAIN seen' = Turns /\ turn'[q] = NoTurn /\ seen'[q] = {}
      /\ \A p \in Turns : p # q => turn'[p] = turn[p] /\ seen'[p] = seen[p]
  BY <1>1 DEF DelegationInv
<1>3. \A p \in Turns : /\ seen'[p] \subseteq delegations'
                       /\ turn'[p] = [open |-> turn'[p].open, manager |-> turn'[p].manager, added |-> turn'[p].added]
  BY <1>1, <1>2 DEF DelegationInv, NoTurn
<1>4. ~crossed' => Acyclic(delegations')
  <2> SUFFICES ASSUME ~crossed' PROVE Acyclic(delegations \cup turn[q].added)
    BY <1>1
  <2>1. CASE turn[q].added = {}
    BY <1>1, <2>1 DEF DelegationInv
  <2>2. CASE turn[q].added # {}
    BY <1>1, <2>2 DEF DelegationInv
  <2>. QED
    BY <2>1, <2>2
<1>5. ASSUME NEW p \in Turns, ~crossed', turn'[p].added # {}, seen'[p] = delegations'
      PROVE  Acyclic(delegations' \cup turn'[p].added)
  <2>1. p # q
    BY <1>2, <1>5 DEF NoTurn
  <2>2. delegations' = delegations /\ seen[p] = delegations /\ ~crossed /\ turn'[p] = turn[p]
    BY <1>1, <1>2, <1>5, <2>1 DEF DelegationInv
  <2>. QED
    BY <1>5, <2>2 DEF DelegationInv
<1>6. Acyclic(delegations)' <=> Acyclic(delegations')
  BY DEF Acyclic
<1>7. \A p \in Turns : Acyclic(delegations \cup turn[p].added)' <=> Acyclic(delegations' \cup turn'[p].added)
  BY DEF Acyclic
<1>. QED
  BY <1>2, <1>3, <1>4, <1>5, <1>6, <1>7 DEF DelegationInv

LEMMA DelegationFailTurn ==
    ASSUME DelegationInv, NEW q \in Turns, FailTurn(q)
    PROVE  DelegationInv'
BY DelegationQuiet DEF DelegationInv, FailTurn, CloseTurn, NoTurn

LEMMA DelegationStepInv == DelegationInv /\ DelegationNext => DelegationInv'
BY DelegationBeginTurn, DelegationDelegate, DelegationCommitTurn, DelegationFailTurn DEF DelegationNext

LEMMA DelegationStutters == DelegationInv /\ UNCHANGED delegationVars => DelegationInv'
BY DelegationQuiet DEF DelegationInv, delegationVars

\* So nobody delegates to those who, through others, delegated to it.
LEMMA DelegationAcyclic == DelegationInv => NoCycles
BY DEF DelegationInv, Acyclic, NoCycles

--------------------------------------------------------------------------------
(* Coding runs *)

\* What was decided is no longer waiting, and who decides it all the same is one of two.
AgentRunInv ==
    /\ DOMAIN store = RunIds /\ DOMAIN deciding = Operators
    /\ \A r \in RunIds :
          /\ store[r] = [state |-> store[r].state, tools |-> store[r].tools, requires |-> store[r].requires]
          /\ store[r].state \in {"none", "WAITING_APPROVAL"} => r \notin approvedBy \cup blockedBy
    /\ \A q \in Operators :
          deciding[q] # NoDecision =>
             /\ deciding[q].run \in RunIds => store[deciding[q].run].state # "none"
             /\ deciding[q].run \in RunIds /\ deciding[q].run \in approvedBy \cup blockedBy
                   => deciding[q].run \in twoDecide
    /\ HeldUntilApproved /\ DecidedOnce

\* The steps of the runs and of their operators.
LEMMA AgentRunInitInv == AgentRunInit => AgentRunInv
BY DEF AgentRunInit, AgentRunInv, HeldUntilApproved, DecidedOnce, NoRun, NoDecision

LEMMA AgentRunPlanRun ==
    ASSUME AgentRunInv, NEW r \in RunIds, NEW tools, NEW allowed, PlanRun(r, tools, allowed)
    PROVE  AgentRunInv'
<1>1. HeldUntilApproved'
  BY DEF AgentRunInv, PlanRun, HeldUntilApproved, ApprovalRequiredFor
<1>2. DecidedOnce'
  BY DEF AgentRunInv, PlanRun, DecidedOnce
<1>. QED
  BY <1>1, <1>2 DEF AgentRunInv, PlanRun

LEMMA AgentRunCheckDecision ==
    ASSUME AgentRunInv, NEW r \in RunIds, NEW q \in Operators, NEW decision, CheckDecision(q, r, decision)
    PROVE  AgentRunInv'
<1>1. HeldUntilApproved' /\ DecidedOnce'
  BY DEF AgentRunInv, CheckDecision, HeldUntilApproved, DecidedOnce
<1>. QED
  BY <1>1 DEF AgentRunInv, CheckDecision, Waiting

LEMMA AgentRunWriteDecision ==
    ASSUME AgentRunInv, NEW q \in Operators, WriteDecision(q)
    PROVE  AgentRunInv'
<1>1. HeldUntilApproved'
  BY DEF AgentRunInv, WriteDecision, HeldUntilApproved
<1>2. DecidedOnce'
  BY DEF AgentRunInv, WriteDecision, DecidedOnce
<1>. QED
  BY <1>1, <1>2 DEF AgentRunInv, WriteDecision, NoDecision

LEMMA AgentRunRestart ==
    ASSUME AgentRunInv, RestartOrchestrator
    PROVE  AgentRunInv'
BY DEF RestartOrchestrator, AgentRunInv, HeldUntilApproved, DecidedOnce, NoRun, NoDecision

LEMMA AgentRunStepInv == AgentRunInv /\ AgentRunNext => AgentRunInv'
BY AgentRunPlanRun, AgentRunCheckDecision, AgentRunWriteDecision, AgentRunRestart DEF AgentRunNext

LEMMA AgentRunStutters == AgentRunInv /\ UNCHANGED runVars => AgentRunInv'
BY DEF AgentRunInv, runVars, HeldUntilApproved, DecidedOnce

--------------------------------------------------------------------------------
(* The assistant's turns *)

\* The turns are runs of an intent the assistant has, and a request is in one of them.
AssistantInv ==
    /\ \E S : exchanges \in Seq(S)
    /\ \A k \in DOMAIN exchanges :
          /\ exchanges[k] = [chat |-> exchanges[k].chat, intent |-> exchanges[k].intent,
                             bypass |-> exchanges[k].bypass, state |-> exchanges[k].state,
                             context |-> exchanges[k].context, before |-> exchanges[k].before,
                             did |-> exchanges[k].did]
          /\ exchanges[k].intent \in Intent
    /\ DOMAIN inTurn = Askers /\ \A q \in Askers : inTurn[q] = 0 \/ inTurn[q] \in DOMAIN exchanges
    /\ PreparedOnly

\* The steps of a turn.
LEMMA AssistantInitInv == AssistantInit => AssistantInv
<1> SUFFICES ASSUME AssistantInit PROVE AssistantInv
  OBVIOUS
<1>1. exchanges \in Seq({}) /\ DOMAIN exchanges = {}
  BY DEF AssistantInit
<1>. QED
  BY <1>1 DEF AssistantInit, AssistantInv, PreparedOnly

LEMMA AssistantAskAssistant ==
    ASSUME AssistantInv, NEW q \in Askers, NEW talk, NEW intent \in AskedFor, NEW bypass,
           AskAssistant(q, talk, intent, bypass)
    PROVE  AssistantInv'
<1>1. PICK S : exchanges \in Seq(S)
  BY DEF AssistantInv
<1> DEFINE n == Len(exchanges) + 1
           context == IF intent = "unknown" THEN History(talk) ELSE <<>>
           new == [chat |-> talk, intent |-> intent, bypass |-> bypass, state |-> "open",
                   context |-> context, before |-> AnsweredTurns(talk), did |-> {}]
<1>2. /\ exchanges' = Append(exchanges, new) /\ inTurn' = [inTurn EXCEPT ![q] = n]
      /\ UNCHANGED <<opened4, jobs>>
  BY DEF AskAssistant
<1>3. /\ new = [chat |-> new.chat, intent |-> new.intent, bypass |-> new.bypass, state |-> new.state,
                context |-> new.context, before |-> new.before, did |-> new.did]
      /\ new.intent \in Intent /\ new.did = {}
  BY AssistantAssumption
<1> HIDE DEF new
<1>4. /\ exchanges' \in Seq(S \cup {new}) /\ DOMAIN exchanges = 1..Len(exchanges)
      /\ DOMAIN exchanges' = 1..n /\ n \in Nat \ {0} /\ Len(exchanges) = n - 1
      /\ exchanges'[n] = new /\ \A k \in DOMAIN exchanges : exchanges'[k] = exchanges[k]
  BY <1>1, <1>2
<1> HIDE DEF n
<1>5. \A k \in DOMAIN exchanges' : k = n \/ k \in DOMAIN exchanges
  BY <1>4
<1>6. \A k \in DOMAIN exchanges : k \in DOMAIN exchanges'
  BY <1>4
<1>7. PreparedOnly'
  BY <1>2, <1>3, <1>4, <1>5 DEF AssistantInv, PreparedOnly
<1>. QED
  BY <1>2, <1>3, <1>4, <1>5, <1>6, <1>7 DEF AssistantInv

\* A turn ends: its request is free, and its run is another of the same intent.
LEMMA AssistantEnds ==
    ASSUME AssistantInv, NEW q \in Askers, NEW k, NEW new, k = inTurn[q], k # 0,
           exchanges' = [exchanges EXCEPT ![k] = new], inTurn' = [inTurn EXCEPT ![q] = 0],
           new = [chat |-> new.chat, intent |-> new.intent, bypass |-> new.bypass, state |-> new.state,
                  context |-> new.context, before |-> new.before, did |-> new.did],
           new.intent \in Intent, new.did \cap (ApprovalRequired \cup Blocked) = {},
           opened4 \subseteq opened4', \A j \in jobs' : j \in jobs \/ <<j, "coding.run">> \in opened4'
    PROVE  AssistantInv'
<1>1. PICK S : exchanges \in Seq(S)
  BY DEF AssistantInv
<1>2. k \in DOMAIN exchanges
  BY DEF AssistantInv
<1>3. /\ exchanges' \in Seq(S \cup {new}) /\ DOMAIN exchanges' = DOMAIN exchanges
      /\ exchanges'[k] = new /\ \A j \in DOMAIN exchanges : j # k => exchanges'[j] = exchanges[j]
  BY <1>1, <1>2
<1>4. PreparedOnly'
  BY <1>3 DEF AssistantInv, PreparedOnly
<1>. QED
  BY <1>3, <1>4 DEF AssistantInv

LEMMA TurnWritten ==
    ASSUME NEW t, NEW state, NEW did,
           t = [chat |-> t.chat, intent |-> t.intent, bypass |-> t.bypass, state |-> t.state,
                context |-> t.context, before |-> t.before, did |-> t.did]
    PROVE  [t EXCEPT !.state = state, !.did = did] =
               [chat |-> t.chat, intent |-> t.intent, bypass |-> t.bypass, state |-> state,
                context |-> t.context, before |-> t.before, did |-> did]
<1> DEFINE u == [chat |-> t.chat, intent |-> t.intent, bypass |-> t.bypass, state |-> state,
                 context |-> t.context, before |-> t.before, did |-> t.did]
<1>1. [t EXCEPT !.state = state] = u
  OBVIOUS
<1>2. [u EXCEPT !.did = did] =
               [chat |-> t.chat, intent |-> t.intent, bypass |-> t.bypass, state |-> state,
                context |-> t.context, before |-> t.before, did |-> did]
  OBVIOUS
<1> HIDE DEF u
<1>. QED
  BY <1>1, <1>2

LEMMA AssistantAnswerTurn ==
    ASSUME AssistantInv, NEW q \in Askers, AnswerTurn(q)
    PROVE  AssistantInv'
<1> DEFINE k == inTurn[q]
           t == exchanges[k]
           queued == {c \in ToolsOf(t.intent) : Gated(c, t.bypass)}
           new == [t EXCEPT !.state = "succeeded", !.did = ToolsOf(t.intent) \ queued]
<1>1. /\ k # 0 /\ inTurn' = [inTurn EXCEPT ![q] = 0]
      /\ opened4' = opened4 \cup {<<k, c>> : c \in queued}
      /\ jobs' = IF t.intent = "coding" THEN jobs \cup {k} ELSE jobs
  BY DEF AnswerTurn
<1>2. k \in DOMAIN exchanges /\ t.intent \in Intent
      /\ t = [chat |-> t.chat, intent |-> t.intent, bypass |-> t.bypass, state |-> t.state,
              context |-> t.context, before |-> t.before, did |-> t.did]
  BY <1>1 DEF AssistantInv
<1>3. exchanges' = [exchanges EXCEPT ![k] = new]
  BY <1>1 DEF AnswerTurn
<1>4. new = [chat |-> t.chat, intent |-> t.intent, bypass |-> t.bypass, state |-> "succeeded",
             context |-> t.context, before |-> t.before, did |-> ToolsOf(t.intent) \ queued]
  BY <1>2, TurnWritten
<1>5. (ToolsOf(t.intent) \ queued) \cap (ApprovalRequired \cup Blocked) = {}
  BY <1>2 DEF ToolsOf, Intent, Gated, ApprovalRequired, Blocked
<1>6. t.intent = "coding" => <<k, "coding.run">> \in opened4'
  BY <1>1 DEF ToolsOf, Gated, ApprovalRequired
<1> HIDE DEF new, queued, t
<1>7. /\ new = [chat |-> new.chat, intent |-> new.intent, bypass |-> new.bypass, state |-> new.state,
                context |-> new.context, before |-> new.before, did |-> new.did]
      /\ new.intent = t.intent /\ new.did = ToolsOf(t.intent) \ queued
  BY <1>4
<1>. QED
  BY <1>1, <1>2, <1>3, <1>5, <1>6, <1>7, AssistantEnds

LEMMA AssistantStops ==
    ASSUME AssistantInv, NEW q \in Askers, Fail(q) \/ LoseTurn(q)
    PROVE  AssistantInv'
<1> DEFINE k == inTurn[q]
           t == exchanges[k]
<1>1. PICK state : /\ k # 0 /\ inTurn' = [inTurn EXCEPT ![q] = 0] /\ UNCHANGED <<opened4, jobs>>
                   /\ exchanges' = [exchanges EXCEPT ![k].state = state]
  BY DEF Fail, LoseTurn
<1>2. k \in DOMAIN exchanges /\ t.intent \in Intent
      /\ t = [chat |-> t.chat, intent |-> t.intent, bypass |-> t.bypass, state |-> t.state,
              context |-> t.context, before |-> t.before, did |-> t.did]
      /\ t.did \cap (ApprovalRequired \cup Blocked) = {}
  BY <1>1 DEF AssistantInv, PreparedOnly
<1> DEFINE new == [t EXCEPT !.state = state]
<1>3. exchanges' = [exchanges EXCEPT ![k] = new]
  BY <1>1
<1>4. /\ new = [chat |-> new.chat, intent |-> new.intent, bypass |-> new.bypass, state |-> new.state,
                context |-> new.context, before |-> new.before, did |-> new.did]
      /\ new.intent = t.intent /\ new.did = t.did
  BY <1>2
<1>5. opened4 \subseteq opened4' /\ \A j \in jobs' : j \in jobs
  BY <1>1
<1>6. k # 0 /\ inTurn' = [inTurn EXCEPT ![q] = 0]
  BY <1>1
<1> HIDE DEF new, t
<1>7. new.intent \in Intent /\ new.did \cap (ApprovalRequired \cup Blocked) = {}
  BY <1>2, <1>4
<1>. QED
  BY <1>3, <1>4, <1>5, <1>6, <1>7, AssistantEnds

LEMMA AssistantStepInv == AssistantInv /\ AssistantNext => AssistantInv'
BY AssistantAskAssistant, AssistantAnswerTurn, AssistantStops DEF AssistantNext

LEMMA AssistantStutters == AssistantInv /\ UNCHANGED assistantVars => AssistantInv'
BY DEF AssistantInv, assistantVars, PreparedOnly

--------------------------------------------------------------------------------
(* Designs taken into projects *)

\* A design that was taken in has one task per batch.
DesignInv ==
    /\ \E S : intakes \in Seq(S)
    /\ \A k \in DOMAIN intakes : DOMAIN intakes[k].tasks = DOMAIN intakes[k].roadmap
    /\ DependentsWait

\* Only an intake makes tasks, and it starts the first batch alone.
LEMMA DesignInitInv == DesignInit => DesignInv
<1> SUFFICES ASSUME DesignInit PROVE DesignInv
  OBVIOUS
<1>1. intakes \in Seq({}) /\ DOMAIN intakes = {}
  BY DEF DesignInit
<1>. QED
  BY <1>1 DEF DesignInv, DependentsWait

LEMMA DesignIntakeBundle ==
    ASSUME DesignInv, NEW w \in Makers, NEW roadmap, IntakeBundle(w, roadmap)
    PROVE  DesignInv'
<1>1. PICK S : intakes \in Seq(S)
  BY DEF DesignInv
<1>2. PICK p \in DesignIds :
         intakes' = Append(intakes, [project |-> p, roadmap |-> roadmap, tasks |-> TasksFor(roadmap)])
  BY DEF IntakeBundle
<1> DEFINE new == [project |-> p, roadmap |-> roadmap, tasks |-> TasksFor(roadmap)]
<1>3. /\ new.roadmap = roadmap /\ DOMAIN new.tasks = DOMAIN roadmap
      /\ \A i \in DOMAIN roadmap : /\ roadmap[i] # {} <=> new.tasks[i] = "blocked"
                                   /\ new.tasks[i] = "active" => i = 1
  BY DEF TasksFor, TaskStatus
<1> HIDE DEF new
<1>4. intakes' \in Seq(S \cup {new})
  BY <1>1, <1>2 DEF new
<1>5. \A k \in DOMAIN intakes' : intakes'[k] = new \/ (k \in DOMAIN intakes /\ intakes'[k] = intakes[k])
  <2>1. /\ DOMAIN intakes = 1..Len(intakes) /\ Len(intakes) \in Nat
        /\ DOMAIN intakes' = 1..(Len(intakes) + 1) /\ intakes'[Len(intakes) + 1] = new
        /\ \A k \in 1..Len(intakes) : intakes'[k] = intakes[k]
    BY <1>1, <1>2 DEF new
  <2>. QED
    BY <2>1
<1>6. DependentsWait'
  BY <1>3, <1>5 DEF DesignInv, DependentsWait
<1>. QED
  BY <1>3, <1>4, <1>5, <1>6 DEF DesignInv

LEMMA DesignStepInv == DesignInv /\ DesignNext => DesignInv'
<1> SUFFICES ASSUME DesignInv, DesignNext PROVE DesignInv'
  OBVIOUS
<1>1. CASE \E w \in Makers, roadmap \in Roadmaps : IntakeBundle(w, roadmap)
  BY <1>1, DesignIntakeBundle
<1>2. CASE intakes' = intakes
  BY <1>2 DEF DesignInv, DependentsWait
<1>. QED
  BY <1>1, <1>2 DEF DesignNext, AskPlans, CreateBundle, AskReview, DesignerFails, PlansCome, DesignToReview,
     ReviewComes, ApplyReview, StayPut

LEMMA DesignStutters == DesignInv /\ UNCHANGED designVars => DesignInv'
BY DEF DesignInv, designVars, DependentsWait

--------------------------------------------------------------------------------
(* Knowledge maps *)

\* No topic has two parents, and every set of topics has one with no parent in it.
Forest(d) ==
    /\ \A e, f \in d.edges : e.target = f.target => e = f
    /\ \A ring \in (SUBSET d.nodes) \ {{}} :
          \E n \in ring : ~\E edge \in d.edges : edge.target = n /\ edge.source \in ring

\* The map and the outcome of an accepted proposal are forests.
MapInv == Forest(map) /\ Forest(applying)

\* A patch that validates leaves a forest, whatever its operations are.
LEMMA PatchedIsForest ==
    ASSUME NEW d, NEW ops, PatchedMap(d, ops).ok
    PROVE  Forest(PatchedMap(d, ops).doc)
BY DEF PatchedMap, NoResult, Valid, Forest

\* The steps of a map.
LEMMA EmptyIsForest == Forest(NoMap)
<1>1. NoMap.edges = {} /\ NoMap.nodes = {}
  BY DEF NoMap
<1>2. \A ring \in SUBSET NoMap.nodes : ring = {}
  BY <1>1
<1>. QED
  BY <1>1, <1>2 DEF Forest

LEMMA MapInitInv == MapInit => MapInv
<1> SUFFICES ASSUME MapInit PROVE MapInv
  OBVIOUS
<1>1. Forest(applying)
  BY EmptyIsForest DEF MapInit
<1>2. /\ FirstTopics \in Seq(Topics)
      /\ \A i, j \in DOMAIN FirstTopics : FirstTopics[i] = FirstTopics[j] => i = j
  BY MapAssumption
<1>3. \A e \in map.edges : \E i \in 2..Len(FirstTopics) :
         e = [id |-> i - 1, source |-> FirstTopics[1], target |-> FirstTopics[i]]
  BY DEF MapInit
<1>4. \A i \in 2..Len(FirstTopics) : i \in DOMAIN FirstTopics /\ 1 \in DOMAIN FirstTopics /\ i # 1
  BY <1>2
<1>5. \A e, f \in map.edges : e.target = f.target => e = f
  BY <1>2, <1>3, <1>4
<1>6. ASSUME NEW ring \in (SUBSET map.nodes) \ {{}}
      PROVE  \E n \in ring : ~\E edge \in map.edges : edge.target = n /\ edge.source \in ring
  <2>1. CASE FirstTopics[1] \in ring
    BY <1>2, <1>3, <1>4, <2>1
  <2>2. CASE FirstTopics[1] \notin ring
    <3>1. PICK n \in ring : TRUE
      OBVIOUS
    <3>2. \A edge \in map.edges : edge.source = FirstTopics[1]
      BY <1>3
    <3>. QED
      BY <2>2, <3>1, <3>2
  <2>. QED
    BY <2>1, <2>2
<1>. QED
  BY <1>1, <1>5, <1>6 DEF MapInv, Forest

LEMMA MapStepInv == MapInv /\ MapNext => MapInv'
<1> SUFFICES ASSUME MapInv, MapNext PROVE MapInv'
  OBVIOUS
<1>1. Forest(map') => Forest(map)'
  BY DEF Forest
<1>2. Forest(applying') => Forest(applying)'
  BY DEF Forest
<1>3. Forest(NoMap)
  BY EmptyIsForest
<1>4. CASE \E o \in ModelOps : EditMap(o)
  BY <1>1, <1>2, <1>4, PatchedIsForest DEF EditMap, MapInv
<1>5. CASE Accept
  BY <1>1, <1>2, <1>5, PatchedIsForest DEF Accept, MapInv
<1>6. CASE Applied
  BY <1>1, <1>2, <1>3, <1>6 DEF Applied, MapInv
<1>7. CASE UNCHANGED <<map, applying>>
  BY <1>1, <1>2, <1>7 DEF MapInv
<1>. QED
  BY <1>4, <1>5, <1>6, <1>7 DEF MapNext, AskAboutMap, NoReply, ReplyWith, CommitPush, BeginPush

LEMMA MapStutters == MapInv /\ UNCHANGED mapVars => MapInv'
<1> SUFFICES ASSUME MapInv, UNCHANGED mapVars PROVE MapInv'
  OBVIOUS
<1>1. Forest(map)' <=> Forest(map')
  BY DEF Forest
<1>2. Forest(applying)' <=> Forest(applying')
  BY DEF Forest
<1>. QED
  BY <1>1, <1>2 DEF MapInv, mapVars

\* The map of the two is the one the property is about.
LEMMA MapForest == MapInv => StaysForest
BY DEF MapInv, Forest, StaysForest

--------------------------------------------------------------------------------
(* What agents propose *)

\* A task that a turn may have added: the persona's own, or a proposal, which it cannot complete.
FreshTask == [status : {"active", "completed", "blocked"}, lifecycle : {"plain"}, approval : {"none"}]
        \cup [status : {"waiting_for_approval", "blocked"}, lifecycle : {"awaiting"}, approval : {"pending"}]

\* A task is a proposal, with an approval, or is none.
OfOneKind(tk) ==
    /\ tk.lifecycle = "plain" <=> tk.approval = "none"
    /\ tk.status = "none" <=> tk = NoTask

\* What a turn has made of a row it has read, while the committed row is tk: nothing, a
\* task nobody else has added, or another status, "completed" for no proposal.
Turned(rd, rw, tk) ==
    \/ rd = NoTask /\ rw = NoTask
    \/ rd = NoTask /\ rw \in FreshTask /\ tk = NoTask
    \/ /\ rd # NoTask /\ tk # NoTask /\ (rd.lifecycle = "plain" <=> tk.lifecycle = "plain")
       /\ rw.lifecycle = rd.lifecycle /\ rw.approval = rd.approval
       /\ rw.status \in {rd.status, "blocked", "completed"}
       /\ rw.status = rd.status \/ rw.status = "blocked" \/ rd.lifecycle = "plain"

\* The turn has added this task and not committed it.
Added(q, i) == chat[q].step = "applying" /\ chat[q].read[i] = NoTask /\ chat[q].rows[i] # NoTask

\* What a decision has made of its task, which nobody else has changed.
Decided(q, i) ==
    LET rd == chat[q].read[i]  rw == chat[q].rows[i]  IN
    /\ rd.status = task[i].status /\ rd.lifecycle = task[i].lifecycle /\ rd.approval = "pending"
    /\ rw.approval \in {"approved", "rejected"} /\ rw.lifecycle # "plain" /\ rw.status # "none"
    /\ rw.status = "completed" => carried[i] > 0
    /\ task[i].lifecycle \in {"completed", "rejected", "failed"}
          => rw.lifecycle \in {"completed", "rejected", "failed"}

\* Rows have their types, committed, read or flushed.
Shapes ==
    /\ task \in Rows /\ chat \in [Chats -> Chat] /\ carried \in [Tasks -> Nat]
    /\ \A i \in Tasks : OfOneKind(task[i])
    /\ \A q \in Chats, i \in Tasks : OfOneKind(chat[q].read[i]) /\ OfOneKind(chat[q].rows[i])

\* What a turn has flushed is what directives make of what it read, and no two turns
\* add the same task.
TurnsApart ==
    /\ \A q \in Chats, i \in Tasks :
          /\ chat[q].step = "applying" => Turned(chat[q].read[i], chat[q].rows[i], task[i])
          /\ chat[q].step \in {"rest", "asking", "deciding"} =>
                chat[q].read[i] = NoTask /\ chat[q].rows[i] = NoTask
    /\ \A p, q \in Chats, i \in Tasks : p # q /\ Added(p, i) => chat[q].rows[i] = NoTask

\* Decisions are about proposals, and no two are being executed about the same one.
DecisionsApart ==
    /\ \A q \in Chats : chat[q].step \in {"deciding", "executing"} => task[chat[q].about].lifecycle # "plain"
    /\ \A q \in Chats : chat[q].step = "executing" => Decided(q, chat[q].about)
    /\ \A p, q \in Chats : p # q /\ chat[p].step = "executing" /\ chat[q].step = "executing"
                              => chat[p].about # chat[q].about

\* An action that was carried out is final, or its decision is not yet committed.
CarriedIsFinal ==
    \A i \in Tasks \ lost : carried[i] # 0 =>
        /\ carried[i] = 1
        /\ \/ task[i].lifecycle \in {"completed", "rejected", "failed"}
           \/ \E q \in Chats : /\ chat[q].step = "executing" /\ chat[q].about = i
                               /\ chat[q].rows[i].lifecycle \in {"completed", "rejected", "failed"}

\* The inductive invariant of the proposals.
ProposalInv == Shapes /\ TurnsApart /\ DecisionsApart /\ CarriedIsFinal /\ DraftsNeverComplete

\* A row that is not there, and a request that is not open.
LEMMA NoTaskTypes == NoTask \in TaskRow /\ OfOneKind(NoTask) /\ NoTask.lifecycle = "plain" /\ NoTask.status = "none"
    /\ NoTask.approval = "none"
BY DEF NoTask, TaskRow, OfOneKind, Status, Lifecycle

LEMMA NoChatTypes ==
    /\ NoChat \in Chat /\ NoChat.step = "rest"
    /\ \A i \in Tasks : NoChat.read[i] = NoTask /\ NoChat.rows[i] = NoTask
BY NoTaskTypes, ProposalAssumption DEF NoChat, Chat, ChatStep, Rows

\* The columns of a merged row.
LEMMA Merging ==
    ASSUME NEW rd \in TaskRow, NEW rw \in TaskRow, NEW tk \in TaskRow, NEW m,
           m = [f \in DOMAIN NoTask |-> IF rw[f] = rd[f] THEN tk[f] ELSE rw[f]]
    PROVE  /\ m \in TaskRow
           /\ m.status = (IF rw.status = rd.status THEN tk.status ELSE rw.status)
           /\ m.lifecycle = (IF rw.lifecycle = rd.lifecycle THEN tk.lifecycle ELSE rw.lifecycle)
           /\ m.approval = (IF rw.approval = rd.approval THEN tk.approval ELSE rw.approval)
<1>1. m = [status |-> IF rw.status = rd.status THEN tk.status ELSE rw.status,
           lifecycle |-> IF rw.lifecycle = rd.lifecycle THEN tk.lifecycle ELSE rw.lifecycle,
           approval |-> IF rw.approval = rd.approval THEN tk.approval ELSE rw.approval]
  BY DEF NoTask
<1>. QED
  BY <1>1 DEF TaskRow

\* Whatever else was committed meanwhile, a merged row of a turn is of the kind it was.
LEMMA TurnMerges ==
    ASSUME NEW rd \in TaskRow, NEW rw \in TaskRow, NEW tk \in TaskRow, NEW m \in TaskRow,
           m.status = (IF rw.status = rd.status THEN tk.status ELSE rw.status),
           m.lifecycle = (IF rw.lifecycle = rd.lifecycle THEN tk.lifecycle ELSE rw.lifecycle),
           m.approval = (IF rw.approval = rd.approval THEN tk.approval ELSE rw.approval),
           OfOneKind(rd), OfOneKind(rw), OfOneKind(tk), Turned(rd, rw, tk)
    PROVE  /\ OfOneKind(m)
           /\ tk # NoTask => m # NoTask /\ m.lifecycle = tk.lifecycle
           /\ tk = NoTask => m = rw
           /\ m.lifecycle # "plain" /\ m.status = "completed" => tk.lifecycle # "plain" /\ tk.status = "completed"
           /\ rw = rd => m = tk
<1> USE NoTaskTypes DEF OfOneKind, TaskRow
<1>1. CASE rd = NoTask /\ rw = NoTask
  BY <1>1
<1>2. CASE rd = NoTask /\ rw \in FreshTask /\ tk = NoTask
  BY <1>2 DEF FreshTask
<1>3. CASE rd # NoTask
  BY <1>3 DEF Turned
<1>. QED
  BY <1>1, <1>2, <1>3 DEF Turned
\* The steps of turns and decisions.
LEMMA ProposalInitInv == ProposalInit => ProposalInv
<1> SUFFICES ASSUME ProposalInit PROVE ProposalInv
  OBVIOUS
<1>1. \A q \in Chats : chat[q] = NoChat
  BY DEF ProposalInit
<1>2. Shapes
  BY <1>1, NoChatTypes, NoTaskTypes DEF ProposalInit, Shapes, Rows
<1>3. TurnsApart /\ DecisionsApart
  BY <1>1, NoChatTypes DEF TurnsApart, DecisionsApart, Added
<1>4. CarriedIsFinal /\ DraftsNeverComplete
  BY NoTaskTypes DEF ProposalInit, CarriedIsFinal, DraftsNeverComplete
<1>. QED
  BY <1>2, <1>3, <1>4 DEF ProposalInv

\* A request goes on and changes no row that is committed.
LEMMA ProposalMoves ==
    ASSUME ProposalInv, NEW q \in Chats, NEW c \in Chat,
           chat' = [chat EXCEPT ![q] = c], UNCHANGED <<task, carried>>, lost \subseteq lost',
           \A i \in Tasks : OfOneKind(c.read[i]) /\ OfOneKind(c.rows[i]),
           c.step # "executing",
           c.step = "applying" => \A i \in Tasks : Turned(c.read[i], c.rows[i], task[i]),
           c.step # "applying" => \A i \in Tasks : c.read[i] = NoTask /\ c.rows[i] = NoTask,
           c.step = "deciding" => task[c.about].lifecycle # "plain",
           \A i \in Tasks : \A p \in Chats \ {q} :
              /\ c.step = "applying" /\ c.read[i] = NoTask /\ c.rows[i] # NoTask => chat[p].rows[i] = NoTask
              /\ Added(p, i) => c.rows[i] = NoTask,
           chat[q].step = "executing" => chat[q].about \in lost'
    PROVE  ProposalInv'
<1>1. chat'[q] = c /\ \A p \in Chats : p # q => chat'[p] = chat[p]
  BY DEF ProposalInv, Shapes
<1>2. \A p \in Chats : p = q \/ p # q
  OBVIOUS
<1>3. Shapes'
  BY <1>1, <1>2 DEF ProposalInv, Shapes, OfOneKind
<1>4. TurnsApart'
  <2>1. \A p \in Chats, i \in Tasks :
           /\ chat'[p].step = "applying" => Turned(chat'[p].read[i], chat'[p].rows[i], task[i])
           /\ chat'[p].step \in {"rest", "asking", "deciding"} =>
                chat'[p].read[i] = NoTask /\ chat'[p].rows[i] = NoTask
    BY <1>1 DEF ProposalInv, TurnsApart
  <2>2. \A p \in Chats, i \in Tasks : Turned(chat[p].read[i], chat[p].rows[i], task[i])'
                                       <=> Turned(chat'[p].read[i], chat'[p].rows[i], task[i])
    BY DEF Turned, NoTask, FreshTask
  <2>3. \A p, o \in Chats, i \in Tasks : p # o /\ Added(p, i)' => chat'[o].rows[i] = NoTask
    BY <1>1 DEF ProposalInv, TurnsApart, Added
  <2>4. NoTask' = NoTask
    BY DEF NoTask
  <2>. QED
    BY <2>1, <2>2, <2>3, <2>4 DEF TurnsApart
<1>5. DecisionsApart'
  BY <1>1 DEF ProposalInv, DecisionsApart, Decided
<1>6. CarriedIsFinal'
  BY <1>1 DEF ProposalInv, CarriedIsFinal
<1>7. DraftsNeverComplete'
  BY DEF ProposalInv, DraftsNeverComplete
<1>. QED
  BY <1>3, <1>4, <1>5, <1>6, <1>7 DEF ProposalInv

LEMMA ProposalSay ==
    ASSUME ProposalInv, NEW q \in Chats, Say(q)
    PROVE  ProposalInv'
<1> DEFINE c == [NoChat EXCEPT !.step = "asking"]
<1>1. /\ c \in Chat /\ c.step = "asking"
      /\ \A i \in Tasks : c.read[i] = NoTask /\ c.rows[i] = NoTask
  BY NoChatTypes DEF Chat, ChatStep
<1>2. chat' = [chat EXCEPT ![q] = c] /\ UNCHANGED <<task, carried, lost>> /\ chat[q].step = "rest"
  BY DEF Say, StartChat
<1> HIDE DEF c
<1>. QED
  BY <1>1, <1>2, NoTaskTypes, ProposalMoves

LEMMA ProposalAnswer ==
    ASSUME ProposalInv, NEW q \in Chats, Answer(q)
    PROVE  ProposalInv'
<1> DEFINE c == [chat[q] EXCEPT !.step = "applying", !.read = task, !.rows = task]
<1>1. c \in Chat /\ c.step = "applying" /\ c.read = task /\ c.rows = task
  BY DEF ProposalInv, Shapes, Chat, ChatStep
<1>2. chat' = [chat EXCEPT ![q] = c] /\ UNCHANGED <<task, carried, lost>> /\ chat[q].step = "asking"
  BY DEF Answer, ChatGoesOn
<1> HIDE DEF c
<1>3. \A i \in Tasks : OfOneKind(c.read[i]) /\ OfOneKind(c.rows[i])
  BY <1>1 DEF ProposalInv, Shapes
<1>4. \A i \in Tasks : Turned(c.read[i], c.rows[i], task[i])
  BY <1>1 DEF Turned
<1>5. \A i \in Tasks, p \in Chats : Added(p, i) => task[i] = NoTask
  BY DEF ProposalInv, TurnsApart, Added, Turned
<1>. QED
  BY <1>1, <1>2, <1>3, <1>4, <1>5, ProposalMoves

\* A turn adds a task or gives a row another status.
LEMMA ProposalDirective ==
    ASSUME ProposalInv, NEW q \in Chats, NEW i \in Tasks, NEW made \in TaskRow, Directive(q, i, made),
           UNCHANGED <<task, carried, lost>>, OfOneKind(made), Turned(chat[q].read[i], made, task[i]),
           \A p \in Chats \ {q} :
              /\ chat[q].read[i] = NoTask /\ made # NoTask => chat[p].rows[i] = NoTask
              /\ Added(p, i) => made = NoTask
    PROVE  ProposalInv'
<1> DEFINE c == [chat[q] EXCEPT !.rows[i] = made]
<1>1. /\ c \in Chat /\ c.step = "applying" /\ c.read = chat[q].read /\ c.rows = [chat[q].rows EXCEPT ![i] = made]
      /\ chat[q].step = "applying" /\ chat[q].rows \in Rows
  BY DEF ProposalInv, Shapes, Chat, ChatStep, Rows, Directive
<1>2. chat' = [chat EXCEPT ![q] = c]
  BY DEF Directive, ChatGoesOn
<1> HIDE DEF c
<1>3. c.rows[i] = made /\ \A j \in Tasks : j # i => c.rows[j] = chat[q].rows[j]
  BY <1>1 DEF Rows
<1>4. \A j \in Tasks : OfOneKind(c.read[j]) /\ OfOneKind(c.rows[j])
  BY <1>1, <1>3 DEF ProposalInv, Shapes
<1>5. \A j \in Tasks : Turned(c.read[j], c.rows[j], task[j])
  BY <1>1, <1>3 DEF ProposalInv, TurnsApart
<1>6. \A j \in Tasks : \A p \in Chats \ {q} :
         /\ c.read[j] = NoTask /\ c.rows[j] # NoTask => chat[p].rows[j] = NoTask
         /\ Added(p, j) => c.rows[j] = NoTask
  BY <1>1, <1>3 DEF ProposalInv, TurnsApart, Added
<1>7. UNCHANGED <<task, carried>> /\ lost \subseteq lost'
  OBVIOUS
<1>8. c.step # "executing" /\ c.step # "deciding" /\ chat[q].step # "executing"
  BY <1>1
<1>9. c \in Chat /\ c.step = "applying"
  BY <1>1
<1>. QED
  BY <1>2, <1>4, <1>5, <1>6, <1>7, <1>8, <1>9, ProposalMoves

LEMMA ProposalCreate ==
    ASSUME ProposalInv, NEW q \in Chats, NEW i \in Tasks, Create(q, i)
    PROVE  ProposalInv'
<1> DEFINE own == [NoTask EXCEPT !.status = "active"]
           withApproval == [status |-> "waiting_for_approval", lifecycle |-> "awaiting", approval |-> "pending"]
<1>1. PICK made \in {own, withApproval} : Directive(q, i, made)
  BY DEF Create
<1>2. own = [status |-> "active", lifecycle |-> "plain", approval |-> "none"]
  BY DEF NoTask
<1>3. made \in FreshTask /\ made \in TaskRow /\ made # NoTask /\ OfOneKind(made)
  BY <1>1, <1>2 DEF FreshTask, TaskRow, Status, Lifecycle, NoTask, OfOneKind
<1>4. /\ chat[q].rows[i] = NoTask /\ task[i] = NoTask /\ \A p \in Chats \ {q} : chat[p].rows[i] = NoTask
      /\ chat[q].step = "applying" /\ UNCHANGED <<task, carried, lost>>
  BY DEF Create, Directive
<1>5. Turned(chat[q].read[i], chat[q].rows[i], task[i])
  BY <1>4 DEF ProposalInv, TurnsApart
<1>6. Turned(chat[q].read[i], made, task[i])
  BY <1>3, <1>4, <1>5 DEF Turned
<1> HIDE DEF own, withApproval
<1>. QED
  BY <1>1, <1>3, <1>4, <1>6, ProposalDirective DEF Added

\* A row gets another status: "completed" only if it has no approval.
LEMMA StatusTurned ==
    ASSUME NEW rd \in TaskRow, NEW rw \in TaskRow, NEW tk \in TaskRow, NEW status \in {"completed", "blocked"},
           Turned(rd, rw, tk), OfOneKind(rd), OfOneKind(rw), rw.status # "none",
           status = "completed" => ~IsDraft(rw)
    PROVE  LET new == [rw EXCEPT !.status = status]
           IN  new \in TaskRow /\ OfOneKind(new) /\ new # NoTask /\ Turned(rd, new, tk)
<1> DEFINE new == [rw EXCEPT !.status = status]
<1>1. new = [status |-> status, lifecycle |-> rw.lifecycle, approval |-> rw.approval]
  BY DEF TaskRow
<1>2. new \in TaskRow /\ new.status = status /\ new.lifecycle = rw.lifecycle /\ new.approval = rw.approval
  BY <1>1 DEF TaskRow, Status
<1> HIDE DEF new
<1>3. OfOneKind(new) /\ new # NoTask
  BY <1>2, NoTaskTypes DEF OfOneKind
<1>4. CASE rd = NoTask
  <2>1. rw \in FreshTask /\ tk = NoTask
    BY <1>4, NoTaskTypes DEF Turned
  <2>2. new \in FreshTask
    BY <1>1, <2>1 DEF FreshTask, IsDraft
  <2>. QED
    BY <1>2, <1>3, <1>4, <2>1, <2>2 DEF Turned, new
<1>5. CASE rd # NoTask
  BY <1>2, <1>3, <1>5 DEF Turned, IsDraft, OfOneKind, new
<1>. QED
  BY <1>4, <1>5

LEMMA ProposalStatus ==
    ASSUME ProposalInv, NEW q \in Chats, NEW i \in Tasks, Complete(q, i) \/ Block(q, i)
    PROVE  ProposalInv'
<1>1. PICK status \in {"completed", "blocked"} :
         /\ Directive(q, i, [chat[q].rows[i] EXCEPT !.status = status])
         /\ chat[q].rows[i].status # "none" /\ (status = "completed" => ~IsDraft(chat[q].rows[i]))
  BY DEF Complete, Block
<1> DEFINE new == [chat[q].rows[i] EXCEPT !.status = status]
<1>2. /\ chat[q].step = "applying" /\ UNCHANGED <<task, carried, lost>>
  BY <1>1 DEF Directive
<1>3. /\ chat[q].read[i] \in TaskRow /\ chat[q].rows[i] \in TaskRow /\ task[i] \in TaskRow
      /\ OfOneKind(chat[q].read[i]) /\ OfOneKind(chat[q].rows[i])
  BY DEF ProposalInv, Shapes, Chat, Rows
<1>4. Turned(chat[q].read[i], chat[q].rows[i], task[i])
  BY <1>2 DEF ProposalInv, TurnsApart
<1>5. new \in TaskRow /\ OfOneKind(new) /\ new # NoTask /\ Turned(chat[q].read[i], new, task[i])
  BY <1>1, <1>3, <1>4, StatusTurned
<1>6. \A p \in Chats \ {q} : /\ chat[q].read[i] = NoTask => chat[p].rows[i] = NoTask
                             /\ ~Added(p, i)
  BY <1>1, <1>2, NoTaskTypes DEF ProposalInv, TurnsApart, Added
<1> HIDE DEF new
<1>7. Directive(q, i, new)
  BY <1>1 DEF new
<1>. QED
  BY <1>2, <1>5, <1>6, <1>7, ProposalDirective

LEMMA ProposalOpenDecision ==
    ASSUME ProposalInv, NEW q \in Chats, NEW i \in Tasks, OpenDecision(q, i)
    PROVE  ProposalInv'
<1> DEFINE c == [NoChat EXCEPT !.step = "deciding", !.about = i]
<1>1. /\ c \in Chat /\ c.step = "deciding" /\ c.about = i
      /\ \A j \in Tasks : c.read[j] = NoTask /\ c.rows[j] = NoTask
  BY NoChatTypes DEF Chat, ChatStep
<1>2. /\ chat' = [chat EXCEPT ![q] = c] /\ UNCHANGED <<task, carried, lost>> /\ chat[q].step = "rest"
      /\ task[i].approval = "pending"
  BY DEF OpenDecision, StartChat
<1>3. task[i].lifecycle # "plain"
  BY <1>2 DEF ProposalInv, Shapes, OfOneKind
<1> HIDE DEF c
<1>. QED
  BY <1>1, <1>2, <1>3, NoTaskTypes, ProposalMoves

LEMMA ProposalFailChat ==
    ASSUME ProposalInv, NEW q \in Chats, FailChat(q)
    PROVE  ProposalInv'
<1>1. /\ chat' = [chat EXCEPT ![q] = NoChat] /\ UNCHANGED <<task, carried>> /\ lost \subseteq lost'
      /\ chat[q].step = "executing" => chat[q].about \in lost'
  BY DEF FailChat, ChatGoesOn
<1>. QED
  BY <1>1, NoChatTypes, NoTaskTypes, ProposalMoves

\* The columns of a committed row.
LEMMA MergedRow ==
    ASSUME Shapes, NEW q \in Chats, NEW i \in Tasks
    PROVE  LET rd == chat[q].read[i]  rw == chat[q].rows[i]  tk == task[i]  m == Merged(q, i)
           IN  /\ rd \in TaskRow /\ rw \in TaskRow /\ tk \in TaskRow /\ m \in TaskRow
               /\ m.status = (IF rw.status = rd.status THEN tk.status ELSE rw.status)
               /\ m.lifecycle = (IF rw.lifecycle = rd.lifecycle THEN tk.lifecycle ELSE rw.lifecycle)
               /\ m.approval = (IF rw.approval = rd.approval THEN tk.approval ELSE rw.approval)
<1> DEFINE rd == chat[q].read[i]
           rw == chat[q].rows[i]
           tk == task[i]
           m == Merged(q, i)
<1>1. rd \in TaskRow /\ rw \in TaskRow /\ tk \in TaskRow
  BY DEF Shapes, Chat, Rows
<1>2. m = [f \in DOMAIN NoTask |-> IF rw[f] = rd[f] THEN tk[f] ELSE rw[f]]
  BY DEF Merged
<1> HIDE DEF rd, rw, tk, m
<1>3. /\ m \in TaskRow
      /\ m.status = (IF rw.status = rd.status THEN tk.status ELSE rw.status)
      /\ m.lifecycle = (IF rw.lifecycle = rd.lifecycle THEN tk.lifecycle ELSE rw.lifecycle)
      /\ m.approval = (IF rw.approval = rd.approval THEN tk.approval ELSE rw.approval)
  BY <1>1, <1>2, Merging
<1>. QED
  BY <1>1, <1>3 DEF rd, rw, tk, m

\* A turn commits: its tasks are new or get another status, and tasks of pending
\* decisions are left alone.
LEMMA ProposalCommitTurns ==
    ASSUME ProposalInv, NEW q \in Chats, CommitTurns(q)
    PROVE  ProposalInv'
<1> DEFINE m == [i \in Tasks |-> Merged(q, i)]
<1>1. /\ chat[q].step = "applying" /\ chat' = [chat EXCEPT ![q] = NoChat] /\ UNCHANGED <<carried, lost>>
      /\ task' = m
      /\ \A i \in Tasks : chat[q].rows[i] # chat[q].read[i] => ~Deciding(q, i)
  BY DEF CommitTurns, ChatGoesOn
<1>2. chat'[q] = NoChat /\ \A p \in Chats : p # q => chat'[p] = chat[p]
  BY <1>1 DEF ProposalInv, Shapes
<1>3. \A i \in Tasks :
         /\ task'[i] \in TaskRow /\ OfOneKind(task'[i])
         /\ task[i] # NoTask => task'[i] # NoTask /\ task'[i].lifecycle = task[i].lifecycle
         /\ task[i] = NoTask => task'[i] = chat[q].rows[i]
         /\ task'[i].lifecycle # "plain" /\ task'[i].status = "completed"
               => task[i].lifecycle # "plain" /\ task[i].status = "completed"
         /\ chat[q].rows[i] = chat[q].read[i] => task'[i] = task[i]
  <2> SUFFICES ASSUME NEW i \in Tasks
               PROVE  /\ task'[i] \in TaskRow /\ OfOneKind(task'[i])
                      /\ task[i] # NoTask => task'[i] # NoTask /\ task'[i].lifecycle = task[i].lifecycle
                      /\ task[i] = NoTask => task'[i] = chat[q].rows[i]
                      /\ task'[i].lifecycle # "plain" /\ task'[i].status = "completed"
                            => task[i].lifecycle # "plain" /\ task[i].status = "completed"
                      /\ chat[q].rows[i] = chat[q].read[i] => task'[i] = task[i]
    OBVIOUS
  <2> DEFINE rd == chat[q].read[i]
             rw == chat[q].rows[i]
             tk == task[i]
             mi == task'[i]
  <2>1. mi = Merged(q, i)
    BY <1>1
  <2>2. /\ rd \in TaskRow /\ rw \in TaskRow /\ tk \in TaskRow /\ mi \in TaskRow
        /\ mi.status = (IF rw.status = rd.status THEN tk.status ELSE rw.status)
        /\ mi.lifecycle = (IF rw.lifecycle = rd.lifecycle THEN tk.lifecycle ELSE rw.lifecycle)
        /\ mi.approval = (IF rw.approval = rd.approval THEN tk.approval ELSE rw.approval)
    BY <2>1, MergedRow DEF ProposalInv
  <2>3. OfOneKind(rd) /\ OfOneKind(rw) /\ OfOneKind(tk)
    BY DEF ProposalInv, Shapes
  <2>4. Turned(rd, rw, tk)
    BY <1>1 DEF ProposalInv, TurnsApart
  <2> HIDE DEF rd, rw, tk, mi
  <2>5. /\ OfOneKind(mi)
        /\ tk # NoTask => mi # NoTask /\ mi.lifecycle = tk.lifecycle
        /\ tk = NoTask => mi = rw
        /\ mi.lifecycle # "plain" /\ mi.status = "completed" => tk.lifecycle # "plain" /\ tk.status = "completed"
        /\ rw = rd => mi = tk
    BY <2>2, <2>3, <2>4, TurnMerges
  <2>. QED
    BY <2>2, <2>5 DEF rd, rw, tk, mi
<1>4. Shapes'
  <2>1. task' \in Rows
    BY <1>1, <1>3 DEF Rows
  <2>2. chat' \in [Chats -> Chat]
    BY <1>1, NoChatTypes DEF ProposalInv, Shapes
  <2>3. \A p \in Chats, i \in Tasks : OfOneKind(chat'[p].read[i]) /\ OfOneKind(chat'[p].rows[i])
    BY <1>2, NoChatTypes, NoTaskTypes DEF ProposalInv, Shapes
  <2>4. \A i \in Tasks : OfOneKind(task[i])' <=> OfOneKind(task'[i])
    BY DEF OfOneKind, NoTask
  <2>5. \A p \in Chats, i \in Tasks : /\ OfOneKind(chat[p].read[i])' <=> OfOneKind(chat'[p].read[i])
                                      /\ OfOneKind(chat[p].rows[i])' <=> OfOneKind(chat'[p].rows[i])
    BY DEF OfOneKind, NoTask
  <2>. QED
    BY <1>1, <1>3, <2>1, <2>2, <2>3, <2>4, <2>5 DEF ProposalInv, Shapes, Rows, Chat
<1>5. \A p \in Chats, i \in Tasks : chat[p].step = "applying" /\ p # q =>
         Turned(chat[p].read[i], chat[p].rows[i], task'[i])
  <2> SUFFICES ASSUME NEW p \in Chats, NEW i \in Tasks, chat[p].step = "applying", p # q
               PROVE  Turned(chat[p].read[i], chat[p].rows[i], task'[i])
    OBVIOUS
  <2>1. Turned(chat[p].read[i], chat[p].rows[i], task[i])
    BY DEF ProposalInv, TurnsApart
  <2>2. CASE chat[p].rows[i] = NoTask
    <3>1. chat[p].read[i] = NoTask
      BY <2>1, <2>2, NoTaskTypes DEF Turned, ProposalInv, Shapes, OfOneKind
    <3>. QED
      BY <2>2, <3>1 DEF Turned
  <2>3. CASE chat[p].read[i] = NoTask /\ chat[p].rows[i] # NoTask
    <3>1. chat[q].rows[i] = NoTask
      BY <2>3 DEF ProposalInv, TurnsApart, Added
    <3>2. task[i] = NoTask
      BY <2>1, <2>3 DEF Turned
    <3>3. task'[i] = NoTask
      BY <1>3, <3>1, <3>2
    <3>. QED
      BY <2>1, <2>3, <3>3 DEF Turned
  <2>4. CASE chat[p].read[i] # NoTask
    <3>1. task[i] # NoTask
      BY <2>1, <2>4 DEF Turned
    <3>2. task'[i] # NoTask /\ task'[i].lifecycle = task[i].lifecycle
      BY <1>3, <3>1
    <3>. QED
      BY <2>1, <2>4, <3>2 DEF Turned
  <2>. QED
    BY <2>2, <2>3, <2>4
<1>6. TurnsApart'
  <2>1. \A p \in Chats, i \in Tasks :
           /\ chat'[p].step = "applying" => Turned(chat'[p].read[i], chat'[p].rows[i], task'[i])
           /\ chat'[p].step \in {"rest", "asking", "deciding"} =>
                chat'[p].read[i] = NoTask /\ chat'[p].rows[i] = NoTask
    BY <1>2, <1>5, NoChatTypes DEF ProposalInv, TurnsApart
  <2>2. \A p \in Chats, i \in Tasks : Turned(chat[p].read[i], chat[p].rows[i], task[i])'
                                       <=> Turned(chat'[p].read[i], chat'[p].rows[i], task'[i])
    BY DEF Turned, NoTask, FreshTask
  <2>3. \A p, o \in Chats, i \in Tasks : p # o /\ Added(p, i)' => chat'[o].rows[i] = NoTask
    BY <1>2, NoChatTypes DEF ProposalInv, TurnsApart, Added, NoTask
  <2>4. NoTask' = NoTask
    BY DEF NoTask
  <2>. QED
    BY <2>1, <2>2, <2>3, <2>4 DEF TurnsApart
<1>7. \A p \in Chats : chat'[p].step \in {"deciding", "executing"} =>
         p # q /\ chat'[p] = chat[p] /\ chat[p].about \in Tasks /\ task[chat[p].about].lifecycle # "plain"
  BY <1>2, NoChatTypes DEF ProposalInv, Shapes, Chat, DecisionsApart
<1>8. \A p \in Chats : chat'[p].step = "executing" => task'[chat[p].about] = task[chat[p].about]
  BY <1>1, <1>3, <1>7 DEF Deciding
<1>9. \A i \in Tasks : task[i].lifecycle # "plain" => task'[i].lifecycle = task[i].lifecycle
  BY <1>3, NoTaskTypes
<1>10. DecisionsApart'
  <2>1. \A p \in Chats : chat'[p].step \in {"deciding", "executing"} => task'[chat'[p].about].lifecycle # "plain"
    BY <1>7, <1>9
  <2>2. \A p \in Chats : chat'[p].step = "executing" => Decided(p, chat[p].about)
    BY <1>7 DEF ProposalInv, DecisionsApart
  <2>3. \A p \in Chats : chat'[p].step = "executing" => Decided(p, chat[p].about)'
    <3> SUFFICES ASSUME NEW p \in Chats, chat'[p].step = "executing" PROVE Decided(p, chat[p].about)'
      OBVIOUS
    <3>1. /\ chat'[p] = chat[p] /\ task'[chat[p].about] = task[chat[p].about] /\ Decided(p, chat[p].about)
          /\ carried' = carried
      BY <1>1, <1>7, <1>8, <2>2
    <3>. QED
      BY <3>1 DEF Decided
  <2>4. \A p, o \in Chats : p # o /\ chat'[p].step = "executing" /\ chat'[o].step = "executing"
                              => chat'[p].about # chat'[o].about
    BY <1>7 DEF ProposalInv, DecisionsApart
  <2>. QED
    BY <2>1, <2>3, <2>4 DEF DecisionsApart
<1>11. CarriedIsFinal'
  <2>1. \A i \in Tasks : task[i].lifecycle \in {"completed", "rejected", "failed"} =>
           task'[i].lifecycle \in {"completed", "rejected", "failed"}
    BY <1>9
  <2>2. \A p \in Chats : chat[p].step = "executing" => chat'[p] = chat[p]
    BY <1>1, <1>2
  <2>. QED
    BY <1>1, <2>1, <2>2 DEF ProposalInv, CarriedIsFinal
<1>12. DraftsNeverComplete'
  BY <1>1, <1>3 DEF ProposalInv, DraftsNeverComplete
<1>. QED
  BY <1>4, <1>6, <1>10, <1>11, <1>12 DEF ProposalInv

\* What a committed decision leaves of its task.
LEMMA ProposalCommitDecision ==
    ASSUME ProposalInv, NEW q \in Chats, CommitDecision(q)
    PROVE  ProposalInv'
<1> DEFINE a == chat[q].about
           m == Merged(q, a)
           Final == {"completed", "rejected", "failed"}
<1>1. /\ chat[q].step = "executing" /\ chat' = [chat EXCEPT ![q] = NoChat] /\ UNCHANGED <<carried, lost>>
      /\ task' = [task EXCEPT ![a] = m]
  BY DEF CommitDecision, ChatGoesOn
<1>2. chat'[q] = NoChat /\ \A p \in Chats : p # q => chat'[p] = chat[p]
  BY <1>1 DEF ProposalInv, Shapes
<1>3. a \in Tasks
  BY DEF ProposalInv, Shapes, Chat
<1>4. Decided(q, a) /\ task[a].lifecycle # "plain"
  BY <1>1 DEF ProposalInv, DecisionsApart
<1>5. /\ task'[a] \in TaskRow /\ OfOneKind(task'[a]) /\ task'[a].lifecycle # "plain"
      /\ task'[a] # NoTask /\ task[a] # NoTask
      /\ task'[a].status = "completed" => carried[a] > 0
      /\ task[a].lifecycle \in Final => task'[a].lifecycle \in Final
      /\ chat[q].rows[a].lifecycle \in Final => task'[a].lifecycle \in Final
      /\ \A j \in Tasks : j # a => task'[j] = task[j]
  <2> DEFINE rd == chat[q].read[a]
             rw == chat[q].rows[a]
             tk == task[a]
  <2>1. task'[a] = m /\ \A j \in Tasks : j # a => task'[j] = task[j]
    BY <1>1, <1>3 DEF ProposalInv, Shapes, Rows
  <2>2. /\ rd \in TaskRow /\ rw \in TaskRow /\ tk \in TaskRow /\ m \in TaskRow
        /\ m.status = (IF rw.status = rd.status THEN tk.status ELSE rw.status)
        /\ m.lifecycle = (IF rw.lifecycle = rd.lifecycle THEN tk.lifecycle ELSE rw.lifecycle)
        /\ m.approval = (IF rw.approval = rd.approval THEN tk.approval ELSE rw.approval)
    BY <1>3, MergedRow DEF ProposalInv
  <2>3. /\ rd.status = tk.status /\ rd.lifecycle = tk.lifecycle /\ rd.approval = "pending"
        /\ rw.approval \in {"approved", "rejected"} /\ rw.lifecycle # "plain" /\ rw.status # "none"
        /\ rw.status = "completed" => carried[a] > 0
        /\ tk.lifecycle \in Final => rw.lifecycle \in Final
        /\ tk.lifecycle # "plain"
    BY <1>4 DEF Decided
  <2> HIDE DEF rd, rw, tk, m, a
  <2>4. m.status = rw.status /\ m.lifecycle = rw.lifecycle /\ m.approval = rw.approval
    BY <2>2, <2>3
  <2>5. OfOneKind(m) /\ m # NoTask /\ tk # NoTask
    BY <2>3, <2>4, NoTaskTypes DEF OfOneKind
  <2>. QED
    BY <2>1, <2>2, <2>3, <2>4, <2>5 DEF rw, tk
<1> HIDE DEF a, m, Final
<1>6. \A j \in Tasks : task'[j] \in TaskRow
  BY <1>3, <1>5 DEF ProposalInv, Shapes, Rows
<1>7. Shapes'
  <2>1. task' \in Rows
    BY <1>1, <1>3, <1>6 DEF ProposalInv, Shapes, Rows
  <2>2. chat' \in [Chats -> Chat]
    BY <1>1, NoChatTypes DEF ProposalInv, Shapes
  <2>3. \A p \in Chats, i \in Tasks : OfOneKind(chat'[p].read[i]) /\ OfOneKind(chat'[p].rows[i])
    BY <1>2, NoChatTypes, NoTaskTypes DEF ProposalInv, Shapes
  <2>4. \A i \in Tasks : OfOneKind(task[i])' <=> OfOneKind(task'[i])
    BY DEF OfOneKind, NoTask
  <2>5. \A p \in Chats, i \in Tasks : /\ OfOneKind(chat[p].read[i])' <=> OfOneKind(chat'[p].read[i])
                                      /\ OfOneKind(chat[p].rows[i])' <=> OfOneKind(chat'[p].rows[i])
    BY DEF OfOneKind, NoTask
  <2>6. \A i \in Tasks : OfOneKind(task'[i])
    BY <1>5 DEF ProposalInv, Shapes
  <2>. QED
    BY <1>1, <2>1, <2>2, <2>3, <2>4, <2>5, <2>6 DEF ProposalInv, Shapes, Rows, Chat
<1>8. \A p \in Chats, i \in Tasks : chat[p].step = "applying" /\ p # q =>
         Turned(chat[p].read[i], chat[p].rows[i], task'[i])
  <2> SUFFICES ASSUME NEW p \in Chats, NEW i \in Tasks, chat[p].step = "applying", p # q
               PROVE  Turned(chat[p].read[i], chat[p].rows[i], task'[i])
    OBVIOUS
  <2>1. Turned(chat[p].read[i], chat[p].rows[i], task[i])
    BY DEF ProposalInv, TurnsApart
  <2>2. CASE i # a
    BY <1>5, <2>1, <2>2
  <2>3. CASE i = a
    BY <1>4, <1>5, <2>1, <2>3 DEF Turned
  <2>. QED
    BY <2>2, <2>3
<1>9. TurnsApart'
  <2>1. \A p \in Chats, i \in Tasks :
           /\ chat'[p].step = "applying" => Turned(chat'[p].read[i], chat'[p].rows[i], task'[i])
           /\ chat'[p].step \in {"rest", "asking", "deciding"} =>
                chat'[p].read[i] = NoTask /\ chat'[p].rows[i] = NoTask
    BY <1>2, <1>8, NoChatTypes DEF ProposalInv, TurnsApart
  <2>2. \A p \in Chats, i \in Tasks : Turned(chat[p].read[i], chat[p].rows[i], task[i])'
                                       <=> Turned(chat'[p].read[i], chat'[p].rows[i], task'[i])
    BY DEF Turned, NoTask, FreshTask
  <2>3. \A p, o \in Chats, i \in Tasks : p # o /\ Added(p, i)' => chat'[o].rows[i] = NoTask
    BY <1>2, NoChatTypes DEF ProposalInv, TurnsApart, Added, NoTask
  <2>4. NoTask' = NoTask
    BY DEF NoTask
  <2>. QED
    BY <2>1, <2>2, <2>3, <2>4 DEF TurnsApart
<1>10. DecisionsApart'
  <2>1. \A p \in Chats : chat'[p].step \in {"deciding", "executing"} =>
           p # q /\ chat'[p] = chat[p] /\ chat[p].about \in Tasks /\ task[chat[p].about].lifecycle # "plain"
    BY <1>2, NoChatTypes DEF ProposalInv, Shapes, Chat, DecisionsApart
  <2>2. \A p \in Chats : chat'[p].step \in {"deciding", "executing"} => task'[chat'[p].about].lifecycle # "plain"
    BY <1>5, <2>1
  <2>3. \A p \in Chats : chat'[p].step = "executing" =>
           Decided(p, chat[p].about) /\ chat[p].about # a
    BY <1>1, <2>1 DEF ProposalInv, DecisionsApart, a
  <2>4. \A p \in Chats : chat'[p].step = "executing" => Decided(p, chat[p].about)'
    BY <1>1, <1>5, <2>1, <2>3 DEF Decided
  <2>5. \A p, o \in Chats : p # o /\ chat'[p].step = "executing" /\ chat'[o].step = "executing"
                              => chat'[p].about # chat'[o].about
    BY <2>1 DEF ProposalInv, DecisionsApart
  <2>. QED
    BY <2>1, <2>2, <2>4, <2>5 DEF DecisionsApart
<1>11. CarriedIsFinal'
  <2>1. \A i \in Tasks : task[i].lifecycle \in Final => task'[i].lifecycle \in Final
    BY <1>5
  <2>2. \A p \in Chats : chat[p].step = "executing" => chat'[p] = chat[p] \/ p = q
    BY <1>2
  <2>3. \A i \in Tasks \ lost : carried[i] # 0 =>
           /\ carried[i] = 1
           /\ \/ task'[i].lifecycle \in Final
              \/ \E p \in Chats : /\ chat'[p].step = "executing" /\ chat'[p].about = i
                                  /\ chat'[p].rows[i].lifecycle \in Final
    BY <1>5, <2>1, <2>2 DEF ProposalInv, CarriedIsFinal, a, Final
  <2>. QED
    BY <1>1, <2>3 DEF CarriedIsFinal, Final
<1>12. DraftsNeverComplete'
  BY <1>1, <1>5 DEF ProposalInv, DraftsNeverComplete
<1>. QED
  BY <1>7, <1>9, <1>10, <1>11, <1>12 DEF ProposalInv

\* A verdict is flushed over the task as it is committed: of two decisions on one task
\* the second waits for the first.
LEMMA ProposalOutcome ==
    ASSUME ProposalInv, NEW q \in Chats, NEW verdict \in {"approved", "rejected"},
           NEW status \in Status, NEW lifecycle \in Lifecycle, Outcome(q, verdict, status, lifecycle),
           UNCHANGED <<task, lost>>,
           \/ UNCHANGED carried
           \/ /\ carried' = [carried EXCEPT ![chat[q].about] = @ + 1]
              /\ task[chat[q].about].lifecycle \notin {"completed", "rejected", "failed"}
              /\ lifecycle \in {"completed", "rejected", "failed"},
           lifecycle # "plain", status # "none",
           status = "completed" => carried'[chat[q].about] > 0,
           task[chat[q].about].lifecycle \in {"completed", "rejected", "failed"}
              => lifecycle \in {"completed", "rejected", "failed"}
    PROVE  ProposalInv'
<1> DEFINE a == chat[q].about
           Final == {"completed", "rejected", "failed"}
           pend == [task EXCEPT ![a].approval = "pending"]
           new == [status |-> status, lifecycle |-> lifecycle, approval |-> verdict]
           made == [task EXCEPT ![a] = new]
           c == [chat[q] EXCEPT !.step = "executing", !.read = pend, !.rows = made]
<1>1. /\ chat[q].step = "deciding" /\ ~Deciding(q, a) /\ chat' = [chat EXCEPT ![q] = c]
  BY DEF Outcome, ChatGoesOn
<1>2. a \in Tasks /\ task[a] \in TaskRow /\ task[a].lifecycle # "plain" /\ OfOneKind(task[a])
  BY <1>1 DEF ProposalInv, Shapes, Chat, DecisionsApart, Rows
<1>3. /\ pend \in Rows /\ \A j \in Tasks : j # a => pend[j] = task[j]
      /\ pend[a] = [task[a] EXCEPT !.approval = "pending"]
  BY <1>2 DEF ProposalInv, Shapes, Rows, TaskRow
<1>4. /\ pend[a].status = task[a].status /\ pend[a].lifecycle = task[a].lifecycle /\ pend[a].approval = "pending"
      /\ pend[a] \in TaskRow
  BY <1>2, <1>3 DEF TaskRow
<1>5. new \in TaskRow /\ OfOneKind(new) /\ OfOneKind(pend[a])
  <2>1. new \in TaskRow
    BY DEF TaskRow
  <2>2. OfOneKind(new)
    BY NoTaskTypes DEF OfOneKind
  <2>3. OfOneKind(pend[a])
    BY <1>2, <1>4, NoTaskTypes DEF OfOneKind
  <2>. QED
    BY <2>1, <2>2, <2>3
<1> HIDE DEF new, pend
<1>60. made \in Rows /\ made[a] = new /\ \A j \in Tasks : j # a => made[j] = task[j]
  BY <1>2, <1>5 DEF ProposalInv, Shapes, Rows
<1>61. chat[q] \in Chat
  BY DEF ProposalInv, Shapes
<1> HIDE DEF made
<1>6. /\ c \in Chat /\ c.step = "executing" /\ c.about = a /\ c.read = pend /\ c.rows = made
  BY <1>60, <1>61, <1>3 DEF Chat, ChatStep
<1>7. c.rows[a] = new /\ \A j \in Tasks : j # a => c.rows[j] = task[j] /\ c.read[j] = task[j]
  BY <1>3, <1>6, <1>60
<1>8. chat'[q] = c /\ \A p \in Chats : p # q => chat'[p] = chat[p]
  BY <1>1 DEF ProposalInv, Shapes
<1>9. /\ carried' \in [Tasks -> Nat] /\ \A j \in Tasks : j # a => carried'[j] = carried[j]
      /\ carried'[a] >= carried[a]
  BY <1>2 DEF ProposalInv, Shapes
<1>10. new.status = status /\ new.lifecycle = lifecycle /\ new.approval = verdict
  BY DEF new
<1> HIDE DEF c, a, Final
<1>11. Shapes'
  <2>1. \A j \in Tasks : OfOneKind(c.read[j]) /\ OfOneKind(c.rows[j])
    BY <1>5, <1>6, <1>7 DEF ProposalInv, Shapes
  <2>2. chat' \in [Chats -> Chat]
    BY <1>1, <1>6 DEF ProposalInv, Shapes
  <2>3. \A p \in Chats, i \in Tasks : OfOneKind(chat'[p].read[i]) /\ OfOneKind(chat'[p].rows[i])
    BY <1>8, <2>1 DEF ProposalInv, Shapes
  <2>4. \A i \in Tasks : OfOneKind(task[i])' <=> OfOneKind(task[i])
    BY DEF OfOneKind, NoTask
  <2>5. \A p \in Chats, i \in Tasks : /\ OfOneKind(chat[p].read[i])' <=> OfOneKind(chat'[p].read[i])
                                      /\ OfOneKind(chat[p].rows[i])' <=> OfOneKind(chat'[p].rows[i])
    BY DEF OfOneKind, NoTask
  <2>. QED
    BY <1>9, <2>2, <2>3, <2>4, <2>5 DEF ProposalInv, Shapes, Rows, Chat
<1>12. TurnsApart'
  <2>1. \A p \in Chats, i \in Tasks :
           /\ chat'[p].step = "applying" => Turned(chat'[p].read[i], chat'[p].rows[i], task[i])
           /\ chat'[p].step \in {"rest", "asking", "deciding"} =>
                chat'[p].read[i] = NoTask /\ chat'[p].rows[i] = NoTask
    BY <1>6, <1>8 DEF ProposalInv, TurnsApart
  <2>2. \A p \in Chats, i \in Tasks : Turned(chat[p].read[i], chat[p].rows[i], task[i])'
                                       <=> Turned(chat'[p].read[i], chat'[p].rows[i], task[i])
    BY DEF Turned, NoTask, FreshTask
  <2>3. \A p \in Chats, i \in Tasks : p # q /\ Added(p, i) => c.rows[i] = NoTask
    <3> SUFFICES ASSUME NEW p \in Chats, NEW i \in Tasks, p # q, Added(p, i)
                 PROVE  c.rows[i] = NoTask
      OBVIOUS
    <3>1. task[i] = NoTask
      BY DEF ProposalInv, TurnsApart, Added, Turned
    <3>2. i # a
      BY <1>2, <3>1, NoTaskTypes
    <3>. QED
      BY <1>7, <3>1, <3>2
  <2>6. \A p \in Chats, i \in Tasks : Added(p, i)' => p # q /\ Added(p, i)
    BY <1>6, <1>8 DEF Added, NoTask
  <2>4. \A p, o \in Chats, i \in Tasks : p # o /\ Added(p, i)' => chat'[o].rows[i] = NoTask
    BY <1>8, <2>3, <2>6 DEF ProposalInv, TurnsApart
  <2>5. NoTask' = NoTask
    BY DEF NoTask
  <2>. QED
    BY <2>1, <2>2, <2>4, <2>5 DEF TurnsApart
<1>13. \A p \in Chats : p # q /\ chat[p].step = "executing" => chat[p].about # a
  BY <1>1 DEF Deciding
<1>14. Decided(q, a)'
  BY <1>4, <1>6, <1>7, <1>8, <1>10 DEF Decided, a, Final
<1>15. DecisionsApart'
  <2>1. \A p \in Chats : p # q /\ chat[p].step = "executing" => Decided(p, chat[p].about)'
    <3> SUFFICES ASSUME NEW p \in Chats, p # q, chat[p].step = "executing"
                 PROVE  Decided(p, chat[p].about)'
      OBVIOUS
    <3>1. Decided(p, chat[p].about) /\ chat[p].about # a /\ chat'[p] = chat[p] /\ chat[p].about \in Tasks
      BY <1>8, <1>13 DEF ProposalInv, DecisionsApart, Shapes, Chat
    <3>2. carried'[chat[p].about] = carried[chat[p].about]
      BY <1>9, <3>1
    <3>. QED
      BY <3>1, <3>2 DEF Decided
  <2>2. \A p \in Chats : chat'[p].step \in {"deciding", "executing"} => task[chat'[p].about].lifecycle # "plain"
    BY <1>2, <1>6, <1>8 DEF ProposalInv, DecisionsApart
  <2>3. \A p, o \in Chats : p # o /\ chat'[p].step = "executing" /\ chat'[o].step = "executing"
                              => chat'[p].about # chat'[o].about
    BY <1>6, <1>8, <1>13 DEF ProposalInv, DecisionsApart
  <2>4. \A p \in Chats : chat'[p].step = "executing" => Decided(p, chat[p].about)'
    BY <1>8, <1>14, <2>1 DEF a
  <2>5. \A p \in Chats : chat'[p].step = "executing" => chat'[p].about = chat[p].about
    BY <1>6, <1>8 DEF a
  <2>. QED
    BY <2>2, <2>3, <2>4, <2>5 DEF DecisionsApart
<1>16. CarriedIsFinal'
  <2> SUFFICES ASSUME NEW i \in Tasks \ lost, carried'[i] # 0
               PROVE  /\ carried'[i] = 1
                      /\ \/ task[i].lifecycle \in Final
                         \/ \E p \in Chats : /\ chat'[p].step = "executing" /\ chat'[p].about = i
                                             /\ chat'[p].rows[i].lifecycle \in Final
    BY DEF CarriedIsFinal, Final
  <2>1. CASE carried'[i] = carried[i]
    <3>1. /\ carried[i] = 1
          /\ \/ task[i].lifecycle \in Final
             \/ \E p \in Chats : /\ chat[p].step = "executing" /\ chat[p].about = i
                                 /\ chat[p].rows[i].lifecycle \in Final
      BY <2>1 DEF ProposalInv, CarriedIsFinal, Final
    <3>2. \A p \in Chats : chat[p].step = "executing" => chat'[p] = chat[p]
      BY <1>1, <1>8
    <3>. QED
      BY <2>1, <3>1, <3>2
  <2>2. CASE carried'[i] # carried[i]
    <3>1. i = a /\ ~UNCHANGED carried
      BY <1>9, <2>2
    <3>2. /\ carried'[a] = carried[a] + 1 /\ task[a].lifecycle \notin Final /\ lifecycle \in Final
      BY <1>2, <3>1 DEF ProposalInv, Shapes, a, Final
    <3>3. carried[a] = 0
      BY <1>13, <3>1, <3>2, <1>1 DEF ProposalInv, CarriedIsFinal, Final
    <3>4. chat'[q].step = "executing" /\ chat'[q].about = i /\ chat'[q].rows[i].lifecycle \in Final
      BY <1>6, <1>7, <1>8, <1>10, <3>1, <3>2
    <3>. QED
      BY <3>1, <3>2, <3>3, <3>4
  <2>. QED
    BY <2>1, <2>2
<1>17. DraftsNeverComplete'
  <2>1. \A j \in Tasks : carried'[j] >= carried[j]
    BY <1>9 DEF ProposalInv, Shapes
  <2>. QED
    BY <1>9, <2>1 DEF ProposalInv, DraftsNeverComplete, Shapes
<1>. QED
  BY <1>11, <1>12, <1>15, <1>16, <1>17 DEF ProposalInv

LEMMA ProposalDecides ==
    ASSUME ProposalInv, NEW q \in Chats, RejectProposal(q) \/ ExecuteApproved(q)
    PROVE  ProposalInv'
<1> DEFINE a == chat[q].about
<1>0. chat[q].step = "deciding"
  BY DEF RejectProposal, ExecuteApproved, ExecuteUnless, Outcome
<1>1. a \in Tasks /\ task[a] \in TaskRow /\ task[a].lifecycle # "plain" /\ OfOneKind(task[a])
  BY <1>0 DEF ProposalInv, Shapes, Chat, Rows, DecisionsApart
<1>2. CASE RejectProposal(q)
  <2>1. Outcome(q, "rejected", "cancelled", "rejected") /\ UNCHANGED <<task, carried, lost>>
    BY <1>2 DEF RejectProposal
  <2>. QED
    BY <2>1, ProposalOutcome DEF Status, Lifecycle
<1>3. CASE ExecuteApproved(q)
  <2>1. UNCHANGED <<task, lost>>
    BY <1>3 DEF ExecuteApproved, ExecuteUnless
  <2>2. CASE /\ task[a].lifecycle \in {"completed", "rejected", "failed"} /\ UNCHANGED carried
             /\ Outcome(q, "approved", task[a].status, task[a].lifecycle)
    <3>1. task[a].status \in Status /\ task[a].lifecycle \in Lifecycle /\ task[a].status # "none"
      BY <1>1, NoTaskTypes DEF TaskRow, OfOneKind
    <3>2. task[a].status = "completed" => carried[a] > 0
      BY <1>1 DEF ProposalInv, DraftsNeverComplete
    <3>. QED
      BY <2>1, <2>2, <3>1, <3>2, <1>1, ProposalOutcome
  <2>3. CASE /\ task[a].lifecycle \notin {"completed", "rejected", "failed"}
             /\ Outcome(q, "approved", "completed", "completed")
             /\ carried' = [carried EXCEPT ![a] = @ + 1]
    <3>1. carried'[a] > 0
      BY <1>1, <2>3 DEF ProposalInv, Shapes
    <3>. QED
      BY <2>1, <2>3, <3>1, ProposalOutcome DEF Status, Lifecycle
  <2>4. CASE Outcome(q, "approved", "failed", "failed") /\ UNCHANGED carried
    BY <2>1, <2>4, ProposalOutcome DEF Status, Lifecycle
  <2>. QED
    BY <1>3, <2>2, <2>3, <2>4 DEF ExecuteApproved, ExecuteUnless
<1>. QED
  BY <1>2, <1>3

LEMMA ProposalStepInv == ProposalInv /\ ProposalNext => ProposalInv'
<1> SUFFICES ASSUME ProposalInv, ProposalNext PROVE ProposalInv'
  OBVIOUS
<1>1. PICK q \in Chats :
         \/ Say(q) \/ Answer(q) \/ CommitTurns(q) \/ FailChat(q)
         \/ \E i \in Tasks : Create(q, i) \/ Complete(q, i) \/ Block(q, i) \/ OpenDecision(q, i)
         \/ RejectProposal(q) \/ ExecuteApproved(q) \/ CommitDecision(q)
  BY DEF ProposalNext
<1>2. CASE Say(q)
  BY <1>2, ProposalSay
<1>3. CASE Answer(q)
  BY <1>3, ProposalAnswer
<1>4. CASE CommitTurns(q)
  BY <1>4, ProposalCommitTurns
<1>5. CASE FailChat(q)
  BY <1>5, ProposalFailChat
<1>6. CASE \E i \in Tasks : Create(q, i) \/ Complete(q, i) \/ Block(q, i) \/ OpenDecision(q, i)
  BY <1>6, ProposalCreate, ProposalStatus, ProposalOpenDecision
<1>7. CASE RejectProposal(q) \/ ExecuteApproved(q)
  BY <1>7, ProposalDecides
<1>8. CASE CommitDecision(q)
  BY <1>8, ProposalCommitDecision
<1>. QED
  BY <1>1, <1>2, <1>3, <1>4, <1>5, <1>6, <1>7, <1>8

LEMMA ProposalStutters == ProposalInv /\ UNCHANGED proposalVars => ProposalInv'
<1> SUFFICES ASSUME ProposalInv, UNCHANGED proposalVars PROVE ProposalInv'
  OBVIOUS
<1>1. task' = task /\ chat' = chat /\ carried' = carried /\ lost' = lost
  BY DEF proposalVars
<1>2. Shapes'
  BY <1>1 DEF ProposalInv, Shapes, Rows, Chat, OfOneKind, NoTask
<1>3. TurnsApart'
  BY <1>1 DEF ProposalInv, TurnsApart, Turned, Added, NoTask, FreshTask
<1>4. DecisionsApart' /\ CarriedIsFinal' /\ DraftsNeverComplete'
  BY <1>1 DEF ProposalInv, DecisionsApart, Decided, CarriedIsFinal, DraftsNeverComplete
<1>. QED
  BY <1>2, <1>3, <1>4 DEF ProposalInv

\* A proposal that was carried out and not lost was carried out once.
LEMMA CarriesOnce == ProposalInv => CarriedOutOnce
BY DEF ProposalInv, Shapes, CarriedIsFinal, CarriedOutOnce

--------------------------------------------------------------------------------
(* The planner's timeline *)

\* What a block must respect, whatever its place in the timeline.
BlockSound(b) ==
    /\ b.kind # "break" => cfg.day_start <= b.start /\ b.end <= cfg.day_end
    /\ b.kind \in {"meeting", "admin"} => LunchEnd <= b.start
    /\ b.kind = "admin" => cfg.admin_batch_after <= b.start

\* TimelineSound is not inductive: that the next block overlaps none needs the
\* cursor to be behind every block, and that lunch does needs the morning's
\* blocks to end before it.
CursorBehind ==
    /\ \A i \in 1..Len(timeline) : timeline[i].end <= cursor
    /\ stage = "morning" => /\ cfg.day_start <= cursor
                            /\ \A i \in 1..Len(timeline) : timeline[i].end <= cfg.lunch_start
    /\ stage # "morning" => LunchEnd <= cursor
    /\ stage = "admin" => cfg.admin_batch_after <= cursor

SchedulerInv == SchedulerTypeOK /\ TimelineSound /\ CursorBehind

\* What the assumption says of the configuration at hand.
LEMMA SaneConfig ==
    ASSUME cfg \in Configs
    PROVE  /\ cfg.day_start \in Nat /\ cfg.day_end \in Nat /\ cfg.lunch_start \in Nat
           /\ cfg.lunch_minutes \in Nat /\ cfg.deep_block_minutes \in Nat
           /\ cfg.buffer_minutes \in Nat /\ cfg.admin_batch_after \in Nat
           /\ cfg.meeting_window_start \in Nat
           /\ cfg.day_start <= cfg.lunch_start /\ cfg.lunch_start <= cfg.day_end
           /\ cfg.admin_batch_after <= cfg.day_end
           /\ LunchEnd \in Nat /\ cfg.lunch_start <= LunchEnd
           /\ MeetingStart \in Nat /\ LunchEnd <= MeetingStart
           /\ MeetingMinutes \in Nat /\ AdminMinutes \in Nat
<1>1. cfg \in Config
  BY SchedulerAssumption
<1>2. /\ cfg.day_start <= cfg.lunch_start /\ cfg.lunch_start <= cfg.day_end
      /\ cfg.admin_batch_after <= cfg.day_end /\ MeetingMinutes \in Nat /\ AdminMinutes \in Nat
  BY SchedulerAssumption
<1> QED
  BY <1>1, <1>2 DEF Config, LunchEnd, MeetingStart, Later

LEMMA EndsAreTimes ==
    ASSUME timeline \in Seq(TimeBlock)
    PROVE  \A i \in 1..Len(timeline) : timeline[i].end \in Nat
<1> SUFFICES ASSUME NEW i \in 1..Len(timeline) PROVE timeline[i].end \in Nat
  OBVIOUS
<1>1. timeline[i] \in TimeBlock
  OBVIOUS
<1> QED
  BY <1>1 DEF TimeBlock

\* A sound timeline stays sound when a block is added that starts where all the
\* others have ended.
LEMMA AppendSound ==
    ASSUME timeline \in Seq(TimeBlock), TimelineSound,
           NEW b \in TimeBlock, BlockSound(b),
           \A i \in 1..Len(timeline) : timeline[i].end <= b.start,
           timeline' = Append(timeline, b), cfg' = cfg
    PROVE  timeline' \in Seq(TimeBlock) /\ TimelineSound'
<1>1. timeline' \in Seq(TimeBlock)
  OBVIOUS
<1>2. Len(timeline') = Len(timeline) + 1 /\ Len(timeline) \in Nat
  OBVIOUS
<1>3. ASSUME NEW i \in 1..Len(timeline)
      PROVE  timeline'[i] = timeline[i]
  OBVIOUS
<1>4. timeline'[Len(timeline) + 1] = b
  OBVIOUS
<1>5. SUFFICES ASSUME NEW i \in 1..(Len(timeline) + 1)
               PROVE  /\ \A j \in 1..(i - 1) : timeline'[j].end <= timeline'[i].start
                      /\ BlockSound(timeline'[i])
  BY <1>1, <1>2 DEF TimelineSound, BlockSound, LunchEnd
<1>6. CASE i = Len(timeline) + 1
  BY <1>2, <1>3, <1>4, <1>6
<1>7. CASE i # Len(timeline) + 1
  <2>1. i \in 1..Len(timeline)
    BY <1>2, <1>7
  <2>2. \A j \in 1..(i - 1) : j \in 1..Len(timeline)
    BY <1>2, <2>1
  <2> QED
    BY <1>3, <2>1, <2>2 DEF TimelineSound, BlockSound
<1> QED
  BY <1>6, <1>7

\* Placing a task: what PlaceMorning, PlaceMeeting, PlaceAfternoon and PlaceAdmin
\* have in common.
LEMMA PlaceSound ==
    ASSUME SchedulerInv, NEW kind \in {"deep", "meeting", "admin"}, NEW minutes \in Nat,
           NEW end \in Nat, Fits(kind, minutes, end), Place(kind, minutes),
           end <= cfg.day_end, cfg.day_start <= cursor,
           kind \in {"meeting", "admin"} => LunchEnd <= cursor,
           kind = "admin" => cfg.admin_batch_after <= cursor,
           stage = "morning" => end <= cfg.lunch_start
    PROVE  SchedulerInv'
<1> DEFINE b == [kind |-> kind, start |-> cursor, end |-> cursor + minutes]
<1>1. /\ cursor \in Nat /\ cfg \in Configs /\ timeline \in Seq(TimeBlock) /\ left \in Agenda
      /\ cursor + minutes <= end /\ left[kind] > 0
  BY DEF SchedulerInv, SchedulerTypeOK, Fits
<1>2. /\ timeline' = Append(timeline, b) /\ cursor' = cursor + minutes + cfg.buffer_minutes
      /\ left' = [left EXCEPT ![kind] = @ - 1]
      /\ UNCHANGED <<cfg, agenda, stage, hints, iterations>>
  BY DEF Place
<1>3. /\ cfg.day_start \in Nat /\ cfg.day_end \in Nat /\ cfg.buffer_minutes \in Nat
      /\ cfg.lunch_start \in Nat /\ LunchEnd \in Nat /\ cfg.admin_batch_after \in Nat
  BY <1>1, SaneConfig
<1>4. b \in TimeBlock /\ b.kind = kind /\ b.start = cursor /\ b.end = cursor + minutes
  <2>1. b \in TimeBlock
    BY <1>1 DEF TimeBlock
  <2> QED
    BY <2>1
<1>5. BlockSound(b)
  <2> HIDE DEF b
  <2> QED
    BY <1>1, <1>3, <1>4 DEF BlockSound
<1>6. \A i \in 1..Len(timeline) : timeline[i].end <= cursor /\ timeline[i].end \in Nat
  BY <1>1, EndsAreTimes DEF SchedulerInv, CursorBehind
<1> HIDE DEF b
<1>7. timeline' \in Seq(TimeBlock) /\ TimelineSound'
  BY <1>1, <1>2, <1>4, <1>5, <1>6, AppendSound DEF SchedulerInv
<1>8. left' \in Agenda
  BY <1>1, <1>2 DEF Agenda
<1>9. cursor' \in Nat /\ cursor + minutes <= cursor' /\ cursor <= cursor'
  BY SMTT(40), <1>1, <1>2, <1>3
<1>10. SchedulerTypeOK'
  BY <1>2, <1>7, <1>8, <1>9 DEF SchedulerInv, SchedulerTypeOK
<1>11. \A i \in 1..Len(timeline') : /\ timeline'[i].end <= cursor + minutes
                                    /\ timeline'[i].end \in Nat
  <2>1. Len(timeline') = Len(timeline) + 1 /\ Len(timeline) \in Nat
    BY <1>1, <1>2, <1>4
  <2>2. timeline'[Len(timeline) + 1] = b
    BY <1>1, <1>2, <1>4
  <2>3. \A i \in 1..Len(timeline) : timeline'[i] = timeline[i]
    BY <1>1, <1>2, <1>4
  <2> QED
    BY <1>1, <1>4, <1>6, <2>1, <2>2, <2>3
<1>12. CursorBehind'
  <2>1. LunchEnd' = LunchEnd
    BY <1>2 DEF LunchEnd
  <2>2. \A i \in 1..Len(timeline') : timeline'[i].end <= cursor'
    BY <1>1, <1>9, <1>11
  <2>3. stage = "morning" => \A i \in 1..Len(timeline') : timeline'[i].end <= cfg.lunch_start
    BY <1>1, <1>3, <1>11
  <2>4. /\ stage # "morning" => LunchEnd <= cursor'
        /\ stage = "admin" => cfg.admin_batch_after <= cursor'
        /\ cfg.day_start <= cursor'
    BY <1>1, <1>3, <1>9 DEF SchedulerInv, CursorBehind
  <2> QED
    BY <1>2, <2>1, <2>2, <2>3, <2>4 DEF CursorBehind
<1> QED
  BY <1>7, <1>10, <1>12 DEF SchedulerInv

LEMMA SchedulerInitInv == SchedulerInit => SchedulerInv
<1> SUFFICES ASSUME SchedulerInit PROVE SchedulerInv
  OBVIOUS
<1>1. cfg \in Configs /\ agenda \in Agendas /\ agenda \in Agenda
  BY SchedulerAssumption DEF SchedulerInit
<1>2. cfg.day_start \in Nat
  BY <1>1, SaneConfig
<1>3. timeline \in Seq(TimeBlock) /\ Len(timeline) = 0
  BY DEF SchedulerInit
<1>4. SchedulerTypeOK
  BY <1>1, <1>2, <1>3 DEF SchedulerInit, SchedulerTypeOK, Stage
<1> QED
  BY <1>2, <1>3, <1>4 DEF SchedulerInit, SchedulerInv, TimelineSound, CursorBehind

\* Each block is placed where the invariant is kept.
LEMMA SchedulerStepInv == SchedulerInv /\ [SchedulerNext]_schedulerVars => SchedulerInv'
<1> SUFFICES ASSUME SchedulerInv, [SchedulerNext]_schedulerVars PROVE SchedulerInv'
  OBVIOUS
<1>1. /\ cfg \in Configs /\ agenda \in Agendas /\ stage \in Stage /\ left \in Agenda
      /\ cursor \in Nat /\ timeline \in Seq(TimeBlock)
      /\ hints \in SUBSET Hint /\ iterations \in Nat
  BY DEF SchedulerInv, SchedulerTypeOK
<1>2. /\ cfg.day_start \in Nat /\ cfg.day_end \in Nat /\ cfg.lunch_start \in Nat
      /\ cfg.deep_block_minutes \in Nat /\ cfg.admin_batch_after \in Nat
      /\ cfg.day_start <= cfg.lunch_start /\ cfg.lunch_start <= cfg.day_end
      /\ cfg.admin_batch_after <= cfg.day_end
      /\ LunchEnd \in Nat /\ cfg.lunch_start <= LunchEnd
      /\ MeetingStart \in Nat /\ LunchEnd <= MeetingStart
      /\ MeetingMinutes \in Nat /\ AdminMinutes \in Nat
  BY <1>1, SaneConfig
<1>3. EndCap \in Nat /\ EndCap <= cfg.day_end
  BY <1>2 DEF EndCap
<1>4. stage # "morning" => LunchEnd <= cursor /\ cfg.day_start <= cursor
  BY <1>1, <1>2 DEF SchedulerInv, CursorBehind
<1>5. CASE PlaceMorning
  BY <1>1, <1>2, <1>5, PlaceSound DEF PlaceMorning, SchedulerInv, CursorBehind
<1>6. CASE EndMorning
  <2> DEFINE b == [kind |-> "break", start |-> cfg.lunch_start, end |-> LunchEnd]
  <2>1. /\ stage = "morning" /\ stage' = "meetings" /\ cursor' = MeetingStart
        /\ timeline' = Append(timeline, b)
        /\ UNCHANGED <<cfg, agenda, left, hints, iterations>>
    BY <1>6 DEF EndMorning
  <2>2. b \in TimeBlock /\ b.kind = "break" /\ b.start = cfg.lunch_start /\ b.end = LunchEnd
    <3>1. b \in TimeBlock
      BY <1>2 DEF TimeBlock
    <3> QED
      BY <3>1
  <2>3. \A i \in 1..Len(timeline) : timeline[i].end <= cfg.lunch_start /\ timeline[i].end \in Nat
    BY <1>1, <2>1, EndsAreTimes DEF SchedulerInv, CursorBehind
  <2> HIDE DEF b
  <2>4. BlockSound(b)
    BY <2>2 DEF BlockSound
  <2>5. timeline' \in Seq(TimeBlock) /\ TimelineSound'
    BY <1>1, <2>1, <2>2, <2>3, <2>4, AppendSound DEF SchedulerInv
  <2>6. SchedulerTypeOK'
    BY <1>1, <1>2, <2>1, <2>5 DEF SchedulerTypeOK, Stage
  <2>7. \A i \in 1..Len(timeline') : timeline'[i].end <= cursor'
    <3>1. Len(timeline') = Len(timeline) + 1 /\ Len(timeline) \in Nat
      BY <1>1, <2>1, <2>2
    <3>2. timeline'[Len(timeline) + 1] = b
      BY <1>1, <2>1, <2>2
    <3>3. \A i \in 1..Len(timeline) : timeline'[i] = timeline[i]
      BY <1>1, <2>1, <2>2
    <3> QED
      BY <1>2, <2>1, <2>2, <2>3, <3>1, <3>2, <3>3
  <2>8. LunchEnd' = LunchEnd
    BY <2>1 DEF LunchEnd
  <2>9. CursorBehind'
    BY <1>2, <2>1, <2>7, <2>8 DEF CursorBehind
  <2> QED
    BY <2>5, <2>6, <2>9 DEF SchedulerInv
<1>7. CASE PlaceMeeting
  BY <1>1, <1>2, <1>3, <1>4, <1>7, PlaceSound DEF PlaceMeeting
<1>8. CASE EndMeetings
  <2>1. /\ stage = "meetings" /\ stage' = "afternoon"
        /\ UNCHANGED <<cfg, agenda, left, cursor, timeline, hints, iterations>>
    BY <1>8 DEF EndMeetings
  <2> QED
    BY <2>1 DEF SchedulerInv, SchedulerTypeOK, Stage, TimelineSound, CursorBehind, LunchEnd
<1>9. CASE PlaceAfternoon
  BY <1>1, <1>2, <1>3, <1>4, <1>9, PlaceSound DEF PlaceAfternoon
<1>10. CASE EndAfternoon
  <2>1. /\ stage = "afternoon" /\ stage' = "admin" /\ cursor' = Later(cursor, cfg.admin_batch_after)
        /\ UNCHANGED <<cfg, agenda, left, timeline, hints, iterations>>
    BY <1>10 DEF EndAfternoon
  <2>2. cursor' \in Nat /\ cursor <= cursor' /\ cfg.admin_batch_after <= cursor'
    BY <1>1, <1>2, <2>1 DEF Later
  <2>3. \A i \in 1..Len(timeline) : timeline[i].end <= cursor /\ timeline[i].end \in Nat
    BY <1>1, EndsAreTimes DEF SchedulerInv, CursorBehind
  <2>4. LunchEnd' = LunchEnd
    BY <2>1 DEF LunchEnd
  <2>5. CursorBehind'
    BY SMTT(40), <1>1, <1>2, <1>4, <2>1, <2>2, <2>3, <2>4 DEF CursorBehind
  <2> QED
    BY <2>1, <2>2, <2>5 DEF SchedulerInv, SchedulerTypeOK, Stage, TimelineSound, LunchEnd
<1>11. CASE PlaceAdmin
  BY <1>1, <1>2, <1>4, <1>11, PlaceSound DEF PlaceAdmin, SchedulerInv, CursorBehind
<1>12. CASE EndDay
  <2>1. /\ stage = "admin" /\ stage' = "critique" /\ iterations' = iterations + 1
        /\ UNCHANGED <<cfg, agenda, left, cursor, timeline, hints>>
    BY <1>12 DEF EndDay
  <2> QED
    BY <1>1, <2>1 DEF SchedulerInv, SchedulerTypeOK, Stage, TimelineSound, CursorBehind, LunchEnd
<1>13. CASE Critique
  <2>1. /\ stage = "critique" /\ UNCHANGED <<cfg, agenda, iterations>> /\ hints' \in SUBSET Hint
    BY <1>13 DEF Critique
  <2>2. CASE UNCHANGED <<left, cursor, timeline>> /\ stage' \in {"finalized", "failed"}
    BY <2>1, <2>2 DEF SchedulerInv, SchedulerTypeOK, Stage, TimelineSound, CursorBehind, LunchEnd
  <2>3. CASE /\ left' = agenda /\ cursor' = cfg.day_start /\ timeline' = <<>>
             /\ stage' = "morning"
    <3>1. timeline' \in Seq(TimeBlock) /\ Len(timeline') = 0
      BY <2>3
    <3> QED
      BY <1>1, <1>2, <2>1, <2>3, <3>1, SchedulerAssumption
         DEF SchedulerInv, SchedulerTypeOK, Stage, TimelineSound, CursorBehind, LunchEnd
  <2> QED
    BY <1>13, <2>2, <2>3 DEF Critique
<1>14. CASE UNCHANGED schedulerVars
  BY <1>14 DEF schedulerVars, SchedulerInv, SchedulerTypeOK, TimelineSound, CursorBehind, LunchEnd
<1> QED
  BY <1>5, <1>6, <1>7, <1>8, <1>9, <1>10, <1>11, <1>12, <1>13, <1>14 DEF SchedulerNext

--------------------------------------------------------------------------------
(* Tasks for a map's topics *)

PushInv == tasksFor \in [Topics -> Nat] /\ OneTaskATopic

LEMMA PushInitInv == MapInit => PushInv
BY DEF MapInit, PushInv, OneTaskATopic

LEMMA PushCommits ==
    ASSUME PushInv, NEW q \in Pushers, CommitPush(q)
    PROVE  PushInv'
<1> DEFINE p == pushing[q]
<1>1. /\ tasksFor' = [t \in Topics |-> IF t \in Untasked(p) THEN tasksFor[t] + 1 ELSE tasksFor[t]]
      /\ pushesMet' = (pushesMet \/ \E t \in Untasked(p) : tasksFor[t] > 0)
  BY DEF CommitPush, Untasked
<1> HIDE DEF p
<1>2. tasksFor' \in [Topics -> Nat]
  BY <1>1 DEF PushInv
<1>3. ~pushesMet' => \A t \in Topics : tasksFor'[t] <= 1
  <2> SUFFICES ASSUME ~pushesMet', NEW t \in Topics PROVE tasksFor'[t] <= 1
    OBVIOUS
  <2>1. ~pushesMet /\ tasksFor[t] \in Nat /\ (t \in Untasked(p) => ~(tasksFor[t] > 0))
    BY <1>1 DEF PushInv
  <2>2. tasksFor[t] <= 1
    BY <2>1 DEF PushInv, OneTaskATopic
  <2>3. tasksFor'[t] = IF t \in Untasked(p) THEN tasksFor[t] + 1 ELSE tasksFor[t]
    BY <1>1
  <2>. QED
    BY <2>1, <2>2, <2>3
<1>. QED
  BY <1>2, <1>3 DEF PushInv, OneTaskATopic

LEMMA PushStutters == PushInv /\ UNCHANGED <<tasksFor, pushesMet>> => PushInv'
BY DEF PushInv, OneTaskATopic

LEMMA PushStepInv == PushInv /\ MapNext => PushInv'
<1> SUFFICES ASSUME PushInv, MapNext PROVE PushInv'
  OBVIOUS
<1>1. CASE \E o \in ModelOps : EditMap(o)
  BY <1>1, PushStutters DEF EditMap
<1>2. CASE AskAboutMap \/ NoReply
  BY <1>2, PushStutters DEF AskAboutMap, NoReply
<1>3. CASE Accept \/ Applied
  BY <1>3, PushStutters DEF Accept, Applied
<1>4. CASE \E reply \in Replies : ReplyWith(reply)
  BY <1>4, PushStutters DEF ReplyWith
<1>5. CASE \E q \in Pushers : CommitPush(q)
  BY <1>5, PushCommits
<1>6. CASE \E q \in Pushers, topics \in SUBSET Topics : BeginPush(q, topics)
  BY <1>6, PushStutters DEF BeginPush
<1>. QED
  BY <1>1, <1>2, <1>3, <1>4, <1>5, <1>6 DEF MapNext

--------------------------------------------------------------------------------
(* Patches of a diagram (DiagramPatches) *)

ShownInv == ProposalApplies /\ NothingOverwritten

LEMMA ShownInitInv == MapInit => ShownInv
BY DEF MapInit, ShownInv, ProposalApplies, NothingOverwritten

LEMMA ShownStutters == ShownInv /\ UNCHANGED mapVars => ShownInv'
BY DEF ShownInv, mapVars, ProposalApplies, NothingOverwritten

LEMMA ShownReplyKeeps == ASSUME ShownInv, NEW reply \in Replies, ReplyWith(reply) PROVE ShownInv'
<1> PICK c : c = Compilation(question, reply)
  OBVIOUS
<1> PICK n : n = [base |-> question, ops |-> c.out]
  OBVIOUS
<1>1. Shown(question, c) /\ proposal' = n /\ UNCHANGED <<applying, accepted, overtaken>>
  BY DEF ReplyWith
<1>2. PatchedMap(n.base, n.ops).ok
  BY <1>1 DEF Shown
<1>. QED
  BY <1>1, <1>2 DEF ShownInv, ProposalApplies, NothingOverwritten

LEMMA ShownAcceptKeeps == ASSUME ShownInv, Accept PROVE ShownInv'
<1> PICK r : r = PatchedMap(map, proposal.ops)
  OBVIOUS
<1>1. CASE BoundTo(proposal, map) /\ r.ok
  <2>1. applying' = r.doc /\ accepted' = PatchedMap(proposal.base, proposal.ops).doc /\ proposal' = proposal
    BY <1>1 DEF Accept
  <2>2. proposal.base = map
    BY <1>1 DEF BoundTo
  <2>. QED
    BY <2>1, <2>2 DEF ShownInv, ProposalApplies, NothingOverwritten
<1>2. CASE ~(BoundTo(proposal, map) /\ r.ok)
  BY <1>2 DEF Accept, ShownInv, ProposalApplies, NothingOverwritten
<1>. QED
  BY <1>1, <1>2

LEMMA ShownStepInv == ShownInv /\ MapNext => ShownInv'
<1> SUFFICES ASSUME ShownInv, MapNext PROVE ShownInv'
  OBVIOUS
<1>1. ASSUME NEW o \in ModelOps, EditMap(o) PROVE ShownInv'
  BY <1>1 DEF EditMap, ShownInv, ProposalApplies, NothingOverwritten
<1>2. CASE AskAboutMap
  BY <1>2 DEF AskAboutMap, ShownInv, ProposalApplies, NothingOverwritten
<1>3. CASE NoReply \/ \E q \in Pushers : CommitPush(q) \/ \E topics \in SUBSET Topics : BeginPush(q, topics)
  <2>1. UNCHANGED <<proposal, applying, accepted, overtaken>>
    BY <1>3 DEF NoReply, CommitPush, BeginPush
  <2>. QED
    BY <2>1 DEF ShownInv, ProposalApplies, NothingOverwritten
<1>4. CASE Applied
  BY <1>4 DEF Applied, ShownInv, ProposalApplies, NothingOverwritten
<1>. QED
  BY <1>1, <1>2, <1>3, <1>4, ShownReplyKeeps, ShownAcceptKeeps DEF MapNext

--------------------------------------------------------------------------------
(* Signals of a design (DesignWork) *)

MakingRow == [step : Steps, project : DesignIds \cup {Unfound}, repository : BOOLEAN, findings : SUBSET UNION FindingSets,
              seen : Seq(Nat), risk : {"low", "medium", "high"}, number : Nat]
DesignedRow == [there : BOOLEAN, repository : BOOLEAN, risk : {"low", "medium", "high"}, signals : Seq(Nat), input : Nat]
VerdictRow == [project : DesignIds \cup {Unfound}, findings : SUBSET UNION FindingSets, done : BOOLEAN]

Writing(w) == making[w].step = "write"

\* A list of signals is in order, the newest first, of reviews up to n.
DesignOrdered(s, n) ==
    /\ \A i \in DOMAIN s : s[i] <= n
    /\ \A i, j \in DOMAIN s : i < j => s[i] > s[j]
    /\ Len(s) <= SignalLimit

\* A list of signals of p names the review m, or is full of newer ones.
Names(s, m) == (\E i \in DOMAIN s : s[i] = m) \/ (Len(s) = SignalLimit /\ \A i \in DOMAIN s : s[i] > m)

Settled(m, p) == verdicts[m].done /\ verdicts[m].project = p /\ m \notin crossedReviews

SignalInv ==
    /\ DOMAIN making = Makers /\ DOMAIN designed = DesignIds
    /\ verdicts \in Seq(VerdictRow)
    /\ \A w \in Makers : making[w] \in MakingRow
    /\ \A p \in DesignIds : designed[p] \in DesignedRow
    /\ \A w \in Makers : making[w].project \in DesignIds => designed[making[w].project].there
    /\ \A n \in DOMAIN verdicts : verdicts[n].project \in DesignIds => designed[verdicts[n].project].there
    /\ \A w \in Makers : Writing(w) =>
          /\ making[w].number \in DOMAIN verdicts /\ ~verdicts[making[w].number].done
          /\ verdicts[making[w].number].project = making[w].project
          /\ verdicts[making[w].number].findings = making[w].findings
          /\ DesignOrdered(making[w].seen, making[w].number - 1)
    /\ \A v, w \in Makers : (v # w /\ Writing(v) /\ Writing(w)) =>
          /\ making[v].number # making[w].number
          /\ making[v].project = making[w].project => making[v].number \in crossedReviews
    /\ \A p \in DesignIds : DesignOrdered(designed[p].signals, Len(verdicts))
    /\ \A p \in DesignIds, m \in DOMAIN verdicts : Settled(m, p) => Names(designed[p].signals, m)
    /\ \A w \in Makers, m \in DOMAIN verdicts :
          (Writing(w) /\ making[w].project \in DesignIds /\ Settled(m, making[w].project)) => Names(making[w].seen, m)
    /\ \A w \in Makers :
          (Writing(w) /\ making[w].project \in DesignIds /\ making[w].number \notin crossedReviews)
              => designed[making[w].project].risk = making[w].risk
    /\ \A p \in DesignIds : designed[p].input # 0 =>
          designed[p].input \in DOMAIN verdicts /\ verdicts[designed[p].input].done /\ designed[p].signals # <<>>
    /\ LatestReviewShown

LEMMA SignalHolds == SignalInv => SignalsKept /\ LatestReviewShown
<1> SUFFICES ASSUME SignalInv PROVE SignalsKept
  BY DEF SignalInv
<1> SUFFICES ASSUME NEW n \in DOMAIN verdicts, verdicts[n].done, Found(verdicts[n].project), n \notin crossedReviews,
                    n \notin {designed[verdicts[n].project].signals[i] : i \in DOMAIN designed[verdicts[n].project].signals}
             PROVE /\ Len(designed[verdicts[n].project].signals) = SignalLimit
                   /\ \A i \in DOMAIN designed[verdicts[n].project].signals : designed[verdicts[n].project].signals[i] > n
  BY DEF SignalsKept
<1>1. Names(designed[verdicts[n].project].signals, n)
  BY DEF SignalInv, Settled, Found
<1>. QED
  BY <1>1 DEF Names

LEMMA SignalInitInv == DesignInit => SignalInv
<1> SUFFICES ASSUME DesignInit PROVE SignalInv
  OBVIOUS
<1>1. ASSUME NEW p \in DesignIds
      PROVE designed[p] \in DesignedRow /\ designed[p].signals = <<>> /\ designed[p].input = 0
  <2>3. designed[p] = [NoDesign EXCEPT !.there = p \in OldProjects]
    BY DEF DesignInit
  <2>4. (p \in OldProjects) \in BOOLEAN
    OBVIOUS
  <2>0. PICK b \in BOOLEAN : designed[p] = [NoDesign EXCEPT !.there = b]
    BY <2>3, <2>4, Zenon
  <2>1. designed[p] = [NoDesign EXCEPT !.there = b]
    BY <2>0
  <2>2. NoDesign \in DesignedRow
    BY DEF NoDesign, DesignedRow
  <2>. QED
    BY <2>1, <2>2 DEF NoDesign, DesignedRow
<1>2. \A w \in Makers : making[w] = NotMaking
  BY DEF DesignInit
<1>3. NotMaking \in MakingRow /\ NotMaking.project = Unfound /\ NotMaking.step = "none"
  BY DEF NotMaking, MakingRow, Steps
<1>4. verdicts \in Seq(VerdictRow) /\ DOMAIN verdicts = {} /\ DOMAIN making = Makers /\ DOMAIN designed = DesignIds
      /\ Len(verdicts) = 0
  BY DEF DesignInit
<1>5. \A p \in DesignIds : DesignOrdered(designed[p].signals, Len(verdicts))
  BY <1>1, <1>4, DesignAssumption DEF DesignOrdered
<1>6. LatestReviewShown
  BY <1>1 DEF LatestReviewShown
<1>. QED
  BY <1>1, <1>2, <1>3, <1>4, <1>5, <1>6, DesignAssumption DEF SignalInv, Writing

LEMMA SignalStutters == SignalInv /\ UNCHANGED designVars => SignalInv'
BY DEF SignalInv, designVars, LatestReviewShown, Settled, Writing

\* A request goes on to a step that does not write; the rest is as it was.
LEMMA DesignGoKeeps ==
    ASSUME SignalInv, NEW w \in Makers, NEW n \in MakingRow, Go(w, n), n.step # "write",
           n.project \in DesignIds => designed[n.project].there, StayPut
    PROVE SignalInv'
<1>1. /\ DOMAIN making' = Makers /\ making'[w] = n /\ \A v \in Makers \ {w} : making'[v] = making[v]
      /\ UNCHANGED <<designed, verdicts, crossedReviews, blockers>>
  BY DEF Go, StayPut, SignalInv
<1>2. \A v \in Makers : Writing(v)' => v # w /\ making'[v] = making[v] /\ Writing(v)
  BY <1>1 DEF Writing
<1>3. \A m \in DOMAIN verdicts, p \in DesignIds : Settled(m, p)' <=> Settled(m, p)
  BY <1>1 DEF Settled
<1>4. LatestReviewShown'
  BY <1>1 DEF LatestReviewShown, SignalInv
<1>5. \A v \in Makers : making'[v] \in MakingRow /\ (making'[v].project \in DesignIds => designed'[making'[v].project].there)
  BY <1>1 DEF SignalInv
<1>6. \A v \in Makers : Writing(v)' =>
          /\ making'[v].number \in DOMAIN verdicts' /\ ~verdicts'[making'[v].number].done
          /\ verdicts'[making'[v].number].project = making'[v].project
          /\ verdicts'[making'[v].number].findings = making'[v].findings
          /\ DesignOrdered(making'[v].seen, making'[v].number - 1)
  BY <1>1, <1>2 DEF SignalInv
<1>7. \A u, v \in Makers : (u # v /\ Writing(u)' /\ Writing(v)') =>
          /\ making'[u].number # making'[v].number
          /\ making'[u].project = making'[v].project => making'[u].number \in crossedReviews'
  BY <1>1, <1>2 DEF SignalInv
<1>8. \A v \in Makers, m \in DOMAIN verdicts' :
          (Writing(v)' /\ making'[v].project \in DesignIds /\ Settled(m, making[v].project)') => Names(making'[v].seen, m)
  BY <1>1, <1>2 DEF SignalInv, Settled
<1>9. \A v \in Makers :
          (Writing(v)' /\ making'[v].project \in DesignIds /\ making'[v].number \notin crossedReviews')
              => designed'[making'[v].project].risk = making'[v].risk
  BY <1>1, <1>2 DEF SignalInv
<1>10. /\ \A p \in DesignIds : designed'[p] \in DesignedRow /\ DesignOrdered(designed'[p].signals, Len(verdicts'))
       /\ \A p \in DesignIds, m \in DOMAIN verdicts' : Settled(m, p)' => Names(designed'[p].signals, m)
       /\ \A p \in DesignIds : designed'[p].input # 0 =>
             designed'[p].input \in DOMAIN verdicts' /\ verdicts'[designed'[p].input].done /\ designed'[p].signals # <<>>
       /\ \A k \in DOMAIN verdicts' : verdicts'[k].project \in DesignIds => designed'[verdicts'[k].project].there
       /\ DOMAIN designed' = DesignIds /\ verdicts' \in Seq(VerdictRow)
  BY <1>1, <1>3 DEF SignalInv
<1>. QED
  BY <1>1, <1>4, <1>5, <1>6, <1>7, <1>8, <1>9, <1>10 DEF SignalInv

LEMMA DesignAsksKeep ==
    ASSUME SignalInv, NEW w \in Makers, NEW p \in DesignIds \cup {Unfound}, NEW given \in BOOLEAN,
           AskPlans(w) \/ CreateBundle(w, p, given) \/ AskReview(w, p, given) \/ DesignerFails(w) \/ PlansCome(w) \/ DesignToReview(w)
    PROVE SignalInv'
<1>0. NotMaking \in MakingRow /\ NotMaking.project = Unfound /\ NotMaking.step = "none" /\ Unfound \notin DesignIds
      /\ (p \in KnownDesigns => (p \in DesignIds => designed[p].there))
  BY DesignAssumption DEF NotMaking, MakingRow, Steps, KnownDesigns
<1>1. ASSUME AskPlans(w) PROVE SignalInv'
  <2> PICK n : n = [NotMaking EXCEPT !.step = "propose"]
    OBVIOUS
  <2>1. n \in MakingRow /\ n.step = "propose" /\ n.project = Unfound
    BY <1>0 DEF MakingRow, Steps
  <2>. QED
    BY <1>0, <1>1, <2>1, DesignGoKeeps DEF AskPlans
<1>2. ASSUME CreateBundle(w, p, given) PROVE SignalInv'
  <2> PICK n : n = [NotMaking EXCEPT !.step = "bundle", !.project = p, !.repository = given]
    OBVIOUS
  <2>1. n \in MakingRow
    BY <1>0 DEF MakingRow, Steps
  <2>2. n.step = "bundle" /\ n.project = p
    BY <2>1, <1>0 DEF MakingRow
  <2>. QED
    BY <1>0, <1>2, <2>1, <2>2, DesignGoKeeps DEF CreateBundle
<1>3. ASSUME AskReview(w, p, given) PROVE SignalInv'
  <2> PICK t : t = IF given THEN "review" ELSE "design"
    OBVIOUS
  <2> PICK n : n = [NotMaking EXCEPT !.step = t, !.project = p]
    OBVIOUS
  <2>1. n \in MakingRow
    BY <1>0 DEF MakingRow, Steps
  <2>2. n.step # "write" /\ n.project = p
    BY <2>1, <1>0 DEF MakingRow
  <2>. QED
    BY <1>0, <1>3, <2>1, <2>2, DesignGoKeeps DEF AskReview
<1>4. ASSUME DesignerFails(w) \/ PlansCome(w) PROVE SignalInv'
  BY <1>0, <1>4, DesignGoKeeps DEF DesignerFails, PlansCome
<1>5. ASSUME DesignToReview(w) PROVE SignalInv'
  <2> PICK n : n = [making[w] EXCEPT !.step = "review"]
    OBVIOUS
  <2>2. making[w] \in MakingRow
    BY DEF SignalInv
  <2>3. n \in MakingRow
    BY <2>2 DEF MakingRow, Steps
  <2>1. n \in MakingRow /\ n.step = "review" /\ n.project = making[w].project
    BY <2>2, <2>3 DEF MakingRow
  <2>. QED
    BY <1>5, <2>1, DesignGoKeeps DEF DesignToReview, SignalInv
<1>. QED
  BY <1>1, <1>2, <1>3, <1>4, <1>5

LEMMA DesignTakenIn ==
    ASSUME SignalInv, NEW w \in Makers, NEW p \in DesignIds, NEW d, d = TakenIn(p, w)
    PROVE /\ d \in DesignedRow /\ d.there
          /\ (designed[p].there => d.risk = designed[p].risk /\ d.signals = designed[p].signals /\ d.input = designed[p].input)
          /\ (~designed[p].there => d.signals = <<0>> /\ d.input = 0)
<1>0. designed[p] \in DesignedRow /\ making[w].repository \in BOOLEAN
  BY DEF SignalInv, MakingRow
<1>1. CASE designed[p].there
  <2>1. d = [designed[p] EXCEPT !.repository = designed[p].repository \/ making[w].repository]
    BY <1>1 DEF Found, TakenIn
  <2>2. (designed[p].repository \/ making[w].repository) \in BOOLEAN
    OBVIOUS
  <2>3. PICK b \in BOOLEAN : d = [designed[p] EXCEPT !.repository = b]
    BY <2>1, <2>2, Zenon
  <2>. QED
    BY <1>0, <1>1, <2>3 DEF DesignedRow
<1>2. CASE ~designed[p].there
  <2> PICK b : b = making[w].repository
    OBVIOUS
  <2> PICK z : z = <<0>>
    OBVIOUS
  <2>1. d = [NoDesign EXCEPT !.there = TRUE, !.repository = b, !.signals = z]
    BY <1>2 DEF Found, TakenIn
  <2>2. d = [there |-> TRUE, repository |-> b, risk |-> "low", signals |-> z, input |-> 0]
    BY <2>1 DEF NoDesign
  <2>3. z \in Seq(Nat) /\ b \in BOOLEAN
    BY <1>0
  <2>4. d \in DesignedRow /\ d.there = TRUE /\ d.signals = z /\ d.input = 0
    BY <2>2, <2>3 DEF DesignedRow
  <2>. QED
    BY <1>2, <2>4
<1>. QED
  BY <1>1, <1>2

LEMMA DesignIntakeKeeps == ASSUME SignalInv, NEW w \in Makers, NEW roadmap \in Roadmaps, IntakeBundle(w, roadmap) PROVE SignalInv'
<1>0. NotMaking \in MakingRow /\ NotMaking.project = Unfound /\ NotMaking.step = "none" /\ Unfound \notin DesignIds
      /\ NoDesign \in DesignedRow
  BY DesignAssumption DEF NotMaking, MakingRow, Steps, NoDesign, DesignedRow
<1>1. /\ DOMAIN making' = Makers /\ making'[w] = NotMaking /\ \A v \in Makers \ {w} : making'[v] = making[v]
      /\ UNCHANGED <<verdicts, crossedReviews, blockers>>
  BY DEF Go, IntakeBundle, SignalInv
<1>2. \A v \in Makers : Writing(v)' => v # w /\ making'[v] = making[v] /\ Writing(v)
  BY <1>0, <1>1 DEF Writing
<1>3. \A m \in DOMAIN verdicts, p \in DesignIds : Settled(m, p)' <=> Settled(m, p)
  BY <1>1 DEF Settled
<1>15. PICK p \in DesignIds : designed' = [designed EXCEPT ![p] = TakenIn(p, w)]
  BY DEF IntakeBundle
<1> PICK d : d = TakenIn(p, w)
  OBVIOUS
<1>4. DOMAIN designed' = DesignIds /\ designed'[p] = d /\ \A x \in DesignIds \ {p} : designed'[x] = designed[x]
  BY <1>15 DEF SignalInv
<1>5. /\ d \in DesignedRow /\ d.there
      /\ (designed[p].there => d.risk = designed[p].risk /\ d.signals = designed[p].signals /\ d.input = designed[p].input)
      /\ (~designed[p].there => d.signals = <<0>> /\ d.input = 0)
  BY DesignTakenIn
<1>6. \A x \in DesignIds : designed[x].there => designed'[x].there
  BY <1>4, <1>5
<1>7. ASSUME NEW x \in DesignIds
      PROVE /\ designed'[x] \in DesignedRow /\ DesignOrdered(designed'[x].signals, Len(verdicts'))
            /\ \A m \in DOMAIN verdicts' : Settled(m, x)' => Names(designed'[x].signals, m)
            /\ designed'[x].input # 0 =>
                  designed'[x].input \in DOMAIN verdicts' /\ verdicts'[designed'[x].input].done /\ designed'[x].signals # <<>>
  <2>1. CASE x = p /\ ~designed[p].there
    <3>1. DesignOrdered(<<0>>, Len(verdicts))
      BY DesignAssumption DEF DesignOrdered, SignalInv
    <3>2. \A m \in DOMAIN verdicts : verdicts[m].project # p
      BY <2>1 DEF SignalInv
    <3>3. \A m \in DOMAIN verdicts' : ~Settled(m, x)'
      BY <1>1, <2>1, <3>2 DEF Settled
    <3>4. designed'[x] = d /\ d.signals = <<0>> /\ d.input = 0 /\ verdicts' = verdicts
      BY <1>1, <1>4, <1>5, <2>1
    <3>5. DesignOrdered(designed'[x].signals, Len(verdicts'))
      BY <3>1, <3>4
    <3>. QED
      BY <1>5, <3>3, <3>4, <3>5
  <2>2. CASE ~(x = p /\ ~designed[p].there)
    <3>1. designed'[x].signals = designed[x].signals /\ designed'[x].input = designed[x].input /\ designed'[x] \in DesignedRow
      BY <1>4, <1>5, <2>2 DEF SignalInv
    <3>. QED
      BY <1>1, <1>3, <3>1 DEF SignalInv
  <2>. QED
    BY <2>1, <2>2
<1>8. LatestReviewShown'
  BY <1>1, <1>4, <1>5 DEF LatestReviewShown, SignalInv
<1>9. \A v \in Makers : making'[v] \in MakingRow /\ (making'[v].project \in DesignIds => designed'[making'[v].project].there)
  BY <1>0, <1>1, <1>6 DEF SignalInv
<1>10. \A v \in Makers : Writing(v)' =>
          /\ making'[v].number \in DOMAIN verdicts' /\ ~verdicts'[making'[v].number].done
          /\ verdicts'[making'[v].number].project = making'[v].project
          /\ verdicts'[making'[v].number].findings = making'[v].findings
          /\ DesignOrdered(making'[v].seen, making'[v].number - 1)
  BY <1>1, <1>2 DEF SignalInv
<1>11. \A u, v \in Makers : (u # v /\ Writing(u)' /\ Writing(v)') =>
          /\ making'[u].number # making'[v].number
          /\ making'[u].project = making'[v].project => making'[u].number \in crossedReviews'
  BY <1>1, <1>2 DEF SignalInv
<1>12. \A v \in Makers, m \in DOMAIN verdicts' :
          (Writing(v)' /\ making'[v].project \in DesignIds /\ Settled(m, making[v].project)') => Names(making'[v].seen, m)
  BY <1>1, <1>2 DEF SignalInv, Settled
<1>13. ASSUME NEW v \in Makers, Writing(v)', making'[v].project \in DesignIds, making'[v].number \notin crossedReviews'
       PROVE designed'[making'[v].project].risk = making'[v].risk
  <2>1. making'[v] = making[v] /\ Writing(v) /\ designed[making[v].project].there
    BY <1>2, <1>13 DEF SignalInv
  <2>2. designed'[making[v].project].risk = designed[making[v].project].risk
    BY <1>4, <1>5, <1>13, <2>1
  <2>. QED
    BY <1>1, <1>13, <2>1, <2>2 DEF SignalInv
<1>14. /\ \A k \in DOMAIN verdicts' : verdicts'[k].project \in DesignIds => designed'[verdicts'[k].project].there
       /\ verdicts' \in Seq(VerdictRow)
  BY <1>1, <1>6 DEF SignalInv
<1>. QED
  BY <1>1, <1>4, <1>7, <1>8, <1>9, <1>10, <1>11, <1>12, <1>13, <1>14 DEF SignalInv

LEMMA DesignSeen ==
    ASSUME SignalInv, NEW p \in DesignIds
    PROVE designed[p].signals \in Seq(Nat) /\ designed[p].risk \in {"low", "medium", "high"}
BY DEF SignalInv, DesignedRow

LEMMA DesignComesKeeps ==
    ASSUME SignalInv, NEW w \in Makers, NEW findings \in FindingSets, ReviewComes(w, findings)
    PROVE SignalInv'
<1> PICK p : p = making[w].project
  OBVIOUS
<1> PICK n : n = Len(verdicts) + 1
  OBVIOUS
<1> PICK others : others = {v \in Makers : making[v].step = "write" /\ making[v].project = p}
  OBVIOUS
<1> PICK sofar : sofar = IF Found(p) THEN designed[p].signals ELSE <<>>
  OBVIOUS
<1> PICK risk : risk = IF Found(p) THEN designed[p].risk ELSE "low"
  OBVIOUS
<1> PICK k : k = [making[w] EXCEPT !.step = "write", !.number = n, !.findings = findings, !.seen = sofar, !.risk = risk]
  OBVIOUS
<1> PICK x : x = [project |-> p, findings |-> findings, done |-> FALSE]
  OBVIOUS
<1>1. /\ making[w].step = "review" /\ verdicts' = Append(verdicts, x) /\ making' = [making EXCEPT ![w] = k]
      /\ crossedReviews' = IF others = {} THEN crossedReviews ELSE crossedReviews \cup {n} \cup {making[v].number : v \in others}
      /\ UNCHANGED <<designed, blockers>>
  BY DEF ReviewComes, Go
<1>2. /\ p \in DesignIds \cup {Unfound} /\ (p \in DesignIds => designed[p].there) /\ making[w] \in MakingRow
      /\ verdicts \in Seq(VerdictRow) /\ n \in Nat /\ n - 1 = Len(verdicts) /\ Len(verdicts) \in Nat
  BY DEF SignalInv, MakingRow
<1>3. sofar \in Seq(Nat) /\ risk \in {"low", "medium", "high"} /\ findings \in SUBSET UNION FindingSets
  BY DesignSeen DEF Found
<1>4. x \in VerdictRow /\ x.project = p /\ x.findings = findings /\ x.done = FALSE
  BY <1>2, <1>3 DEF VerdictRow
<1>5. k = [step |-> "write", project |-> p, repository |-> making[w].repository, findings |-> findings, seen |-> sofar,
           risk |-> risk, number |-> n]
  BY <1>2 DEF MakingRow
<1>6. k \in MakingRow /\ k.step = "write" /\ k.project = p /\ k.findings = findings /\ k.seen = sofar /\ k.risk = risk /\ k.number = n
  <2>1. making[w].repository \in BOOLEAN
    BY <1>2 DEF MakingRow
  <2>. QED
    BY <1>2, <1>3, <1>5, <2>1 DEF MakingRow, Steps
<1>7. DOMAIN making' = Makers /\ making'[w] = k /\ \A v \in Makers \ {w} : making'[v] = making[v]
  BY <1>1 DEF SignalInv
<1>8. /\ verdicts' \in Seq(VerdictRow) /\ Len(verdicts') = n /\ DOMAIN verdicts = 1..Len(verdicts) /\ DOMAIN verdicts' = 1..n
      /\ verdicts'[n] = x /\ \A m \in DOMAIN verdicts : m \in DOMAIN verdicts' /\ m # n /\ verdicts'[m] = verdicts[m]
  BY <1>1, <1>2, <1>4
<1>9. \A m \in DOMAIN verdicts' : m = n \/ m \in DOMAIN verdicts
  BY <1>2, <1>8
<1>10. crossedReviews \subseteq crossedReviews'
  BY <1>1
<1>11. \A m \in DOMAIN verdicts', y \in DesignIds : Settled(m, y)' => m \in DOMAIN verdicts /\ m # n /\ Settled(m, y)
  BY <1>4, <1>8, <1>9, <1>10 DEF Settled
<1>12. \A v \in Makers \ {w} : Writing(v)' => Writing(v) /\ making'[v] = making[v] /\ making[v].number \in DOMAIN verdicts
  BY <1>7 DEF Writing, SignalInv
<1>13. DesignOrdered(sofar, n - 1)
  <2>1. CASE Found(p)
    BY <1>2, <2>1 DEF Found, SignalInv
  <2>2. CASE ~Found(p)
    <3>1. sofar = <<>>
      BY <2>2
    <3>. QED
      BY <3>1, DesignAssumption DEF DesignOrdered
  <2>. QED
    BY <2>1, <2>2
<1>14. ASSUME NEW v \in Makers, Writing(v)'
       PROVE /\ making'[v].number \in DOMAIN verdicts' /\ ~verdicts'[making'[v].number].done
             /\ verdicts'[making'[v].number].project = making'[v].project
             /\ verdicts'[making'[v].number].findings = making'[v].findings
             /\ DesignOrdered(making'[v].seen, making'[v].number - 1)
  <2>1. CASE v = w
    <3>1. making'[v] = k /\ n \in DOMAIN verdicts' /\ verdicts'[n] = x
      BY <1>2, <1>7, <1>8, <2>1
    <3>. QED
      BY <1>4, <1>6, <1>13, <3>1
  <2>2. CASE v # w
    <3>1. Writing(v) /\ making'[v] = making[v] /\ making[v].number \in DOMAIN verdicts
      BY <1>12, <1>14, <2>2
    <3>2. verdicts'[making[v].number] = verdicts[making[v].number] /\ making[v].number \in DOMAIN verdicts'
      BY <1>8, <3>1
    <3>. QED
      BY <3>1, <3>2 DEF SignalInv
  <2>. QED
    BY <2>1, <2>2
<1>15. ASSUME NEW u \in Makers, NEW v \in Makers, u # v, Writing(u)', Writing(v)'
       PROVE /\ making'[u].number # making'[v].number
             /\ making'[u].project = making'[v].project => making'[u].number \in crossedReviews'
  <2>1. CASE u # w /\ v # w
    BY <1>10, <1>12, <1>15, <2>1 DEF SignalInv
  <2>2. CASE u = w
    <3>1. Writing(v) /\ making'[v] = making[v] /\ making[v].number # n
      BY <1>8, <1>12, <1>15, <2>2
    <3>2. making[v].project = p => n \in crossedReviews'
      BY <1>1, <3>1 DEF Writing
    <3>. QED
      BY <1>6, <1>7, <2>2, <3>1, <3>2
  <2>3. CASE v = w
    <3>1. Writing(u) /\ making'[u] = making[u] /\ making[u].number # n
      BY <1>8, <1>12, <1>15, <2>3
    <3>2. making[u].project = p => making[u].number \in crossedReviews'
      BY <1>1, <3>1 DEF Writing
    <3>. QED
      BY <1>6, <1>7, <2>3, <3>1, <3>2
  <2>. QED
    BY <2>1, <2>2, <2>3
<1>16. ASSUME NEW v \in Makers, NEW m \in DOMAIN verdicts', Writing(v)', making'[v].project \in DesignIds,
              Settled(m, making[v].project)'
       PROVE Names(making'[v].seen, m)
  <2>1. m \in DOMAIN verdicts /\ Settled(m, making'[v].project)
    BY <1>11, <1>16
  <2>2. CASE v = w
    <3>1. p \in DesignIds /\ sofar = designed[p].signals
      BY <1>2, <1>6, <1>7, <1>16, <2>2 DEF Found
    <3>2. making'[v] = k /\ Settled(m, p)
      BY <1>6, <1>7, <2>1, <2>2
    <3>3. Names(designed[p].signals, m)
      BY <2>1, <3>1, <3>2 DEF SignalInv
    <3>. QED
      BY <1>6, <3>1, <3>2, <3>3
  <2>3. CASE v # w
    BY <1>12, <1>16, <2>1, <2>3 DEF SignalInv
  <2>. QED
    BY <2>2, <2>3
<1>17. ASSUME NEW v \in Makers, Writing(v)', making'[v].project \in DesignIds, making'[v].number \notin crossedReviews'
       PROVE designed'[making'[v].project].risk = making'[v].risk
  <2>1. CASE v = w
    <3>1. p \in DesignIds /\ risk = designed[p].risk
      BY <1>2, <1>6, <1>7, <1>17, <2>1 DEF Found
    <3>. QED
      BY <1>1, <1>6, <1>7, <2>1, <3>1
  <2>2. CASE v # w
    BY <1>1, <1>10, <1>12, <1>17, <2>2 DEF SignalInv
  <2>. QED
    BY <2>1, <2>2
<1>18. ASSUME NEW y \in DesignIds
       PROVE /\ designed'[y] \in DesignedRow /\ DesignOrdered(designed'[y].signals, Len(verdicts'))
             /\ \A m \in DOMAIN verdicts' : Settled(m, y)' => Names(designed'[y].signals, m)
             /\ designed'[y].input # 0 =>
                   designed'[y].input \in DOMAIN verdicts' /\ verdicts'[designed'[y].input].done /\ designed'[y].signals # <<>>
  <2>1. DesignOrdered(designed[y].signals, Len(verdicts)) /\ designed[y].signals \in Seq(Nat)
    BY DesignSeen DEF SignalInv
  <2>2. DesignOrdered(designed[y].signals, n)
    BY <1>2, <2>1 DEF DesignOrdered
  <2>3. \A m \in DOMAIN verdicts' : Settled(m, y)' => Names(designed[y].signals, m)
    BY <1>11 DEF SignalInv
  <2>. QED
    BY <1>1, <1>8, <2>2, <2>3 DEF SignalInv
<1>19. LatestReviewShown'
  <2> SUFFICES ASSUME NEW y \in DesignIds, designed'[y].input # 0
               PROVE /\ Head(designed'[y].signals) = designed'[y].input
                     /\ verdicts'[designed'[y].input].findings \cap {"critical", "high", "major"} # {}
                           => designed'[y].input \in blockers'
                     /\ ("critical" \in verdicts'[designed'[y].input].findings /\ designed'[y].input \notin crossedReviews')
                           => designed'[y].risk = "high"
    BY DEF LatestReviewShown
  <2>1. designed[y].input # 0 /\ designed[y].input \in DOMAIN verdicts /\ verdicts'[designed[y].input] = verdicts[designed[y].input]
    BY <1>1, <1>8 DEF SignalInv
  <2>. QED
    BY <1>1, <1>10, <2>1 DEF SignalInv, LatestReviewShown
<1>20. \A v \in Makers : making'[v] \in MakingRow /\ (making'[v].project \in DesignIds => designed'[making'[v].project].there)
  BY <1>1, <1>2, <1>6, <1>7 DEF SignalInv
<1>21. \A m \in DOMAIN verdicts' : verdicts'[m].project \in DesignIds => designed'[verdicts'[m].project].there
  BY <1>1, <1>2, <1>4, <1>8, <1>9 DEF SignalInv
<1>. QED
  BY ZenonT(60), <1>1, <1>7, <1>8, <1>14, <1>15, <1>16, <1>17, <1>18, <1>19, <1>20, <1>21 DEF SignalInv

\* A list in order stays so under a higher number.
LEMMA DesignOrderedUpTo ==
    ASSUME NEW s \in Seq(Nat), NEW low \in Nat, NEW high \in Nat, low <= high, DesignOrdered(s, low)
    PROVE  DesignOrdered(s, high)
<1>1. \A i \in DOMAIN s : s[i] \in Nat /\ s[i] <= low
  BY DEF DesignOrdered
<1>2. \A i \in DOMAIN s : s[i] <= high
  BY <1>1
<1>. QED
  BY <1>2 DEF DesignOrdered

\* The list of signals after one more.
LEMMA DesignNewest ==
    ASSUME NEW sofar \in Seq(Nat), NEW n \in Nat \ {0}, DesignOrdered(sofar, n - 1), NEW s, s = NewestFirst(n, sofar)
    PROVE /\ s \in Seq(Nat) /\ s # <<>> /\ Head(s) = n /\ DesignOrdered(s, n)
          /\ \A m \in Nat : m = n \/ Names(sofar, m) => Names(s, m)
<1> PICK all : all = <<n>> \o sofar
  OBVIOUS
<1> PICK k : k = IF Len(all) < SignalLimit THEN Len(all) ELSE SignalLimit
  OBVIOUS
<1>1. all \in Seq(Nat) /\ Len(all) = Len(sofar) + 1 /\ all[1] = n /\ Len(sofar) \in Nat
      /\ \A i \in 1..Len(sofar) : all[i + 1] = sofar[i]
  OBVIOUS
<1>2. k \in Nat /\ 1 <= k /\ k <= Len(all) /\ k <= SignalLimit /\ SignalLimit \in Nat
  BY <1>1, DesignAssumption
<1>3. s = SubSeq(all, 1, k)
  BY DEF NewestFirst
<1>4. s \in Seq(Nat) /\ Len(s) = k /\ \A i \in 1..k : s[i] = all[i]
  BY SMTT(40), <1>1, <1>2, <1>3
<1>5. DOMAIN s = 1..k /\ s # <<>> /\ s[1] = n /\ Head(s) = n
  BY <1>1, <1>2, <1>4
<1>6. ASSUME NEW i \in DOMAIN s, i # 1 PROVE i - 1 \in DOMAIN sofar /\ s[i] = sofar[i - 1]
  <2>1. i \in Nat /\ 2 <= i /\ i <= k /\ i - 1 \in 1..Len(sofar) /\ (i - 1) + 1 = i
    BY <1>1, <1>2, <1>5, <1>6
  <2>2. all[(i - 1) + 1] = sofar[i - 1]
    BY <1>1, <2>1
  <2>. QED
    BY SMTT(40), <1>1, <1>4, <1>5, <2>1, <2>2
<1>7. ASSUME NEW i \in DOMAIN sofar, i < k PROVE i + 1 \in DOMAIN s /\ s[i + 1] = sofar[i]
  <2>1. i \in 1..Len(sofar) /\ i + 1 \in 1..k
    BY <1>1, <1>2, <1>7
  <2>. QED
    BY <1>1, <1>4, <1>5, <2>1
<1>8. DesignOrdered(s, n)
  <2>1. ASSUME NEW i \in DOMAIN s PROVE s[i] <= n /\ (i # 1 => s[i] < n)
    <3>1. CASE i = 1
      BY <1>5, <3>1
    <3>2. CASE i # 1
      <4>1. sofar[i - 1] <= n - 1 /\ sofar[i - 1] \in Nat /\ s[i] = sofar[i - 1]
        BY <1>6, <3>2 DEF DesignOrdered
      <4>. QED
        BY <4>1
    <3>. QED
      BY <3>1, <3>2
  <2>2. ASSUME NEW i \in DOMAIN s, NEW j \in DOMAIN s, i < j PROVE s[i] > s[j]
    <3>0. s[j] \in Nat /\ s[i] \in Nat
      <4>1. \A x \in DOMAIN s : s[x] \in Nat
        BY <1>4
      <4>. QED
        BY <4>1, <2>2
    <3>1. i \in Nat /\ j \in Nat /\ 1 <= i /\ j # 1 /\ s[j] \in Nat /\ s[i] \in Nat
      BY <1>2, <1>5, <2>2, <3>0
    <3>2. CASE i = 1
      <4>1. s[j] < n /\ s[i] = n
        BY <1>5, <2>1, <3>1, <3>2
      <4>. QED
        BY <3>1, <4>1
    <3>3. CASE i # 1
      <4>1. i - 1 \in DOMAIN sofar /\ j - 1 \in DOMAIN sofar /\ i - 1 < j - 1 /\ s[i] = sofar[i - 1] /\ s[j] = sofar[j - 1]
        BY <1>6, <2>2, <3>1, <3>3
      <4>. QED
        BY <4>1 DEF DesignOrdered
    <3>. QED
      BY <3>2, <3>3
  <2>. QED
    BY <1>2, <1>4, <2>1, <2>2 DEF DesignOrdered
<1>9. Names(s, n)
  <2>1. 1 \in DOMAIN s
    BY <1>2, <1>5
  <2>. QED
    BY <1>5, <2>1 DEF Names
<1>10. ASSUME NEW m \in Nat, Names(sofar, m) PROVE Names(s, m)
  <2>0. SignalLimit >= 1 /\ Len(sofar) <= SignalLimit
    BY DesignAssumption DEF DesignOrdered
  <2>1. ASSUME NEW i \in DOMAIN sofar, sofar[i] = m PROVE Names(s, m)
    <3>0. i \in Nat /\ 1 <= i /\ i <= Len(sofar)
      BY <1>1
    <3>1. CASE i < k
      BY <1>7, <2>1, <3>1 DEF Names
    <3>2. CASE ~(i < k)
      <4>1. k = SignalLimit /\ i = k
        BY <1>1, <1>2, <2>0, <3>0, <3>2
      <4>2. ASSUME NEW j \in DOMAIN s PROVE s[j] > m
        <5>1. CASE j = 1
          <6>1. m <= n - 1
            BY <2>1 DEF DesignOrdered
          <6>. QED
            BY <1>5, <5>1, <6>1
        <5>2. CASE j # 1
          <6>1. j - 1 \in DOMAIN sofar /\ s[j] = sofar[j - 1] /\ j \in Nat /\ j <= k
            BY <1>5, <1>6, <5>2
          <6>2. j - 1 < i
            BY <4>1, <6>1, <1>2
          <6>. QED
            BY <2>1, <6>1, <6>2 DEF DesignOrdered
        <5>. QED
          BY <5>1, <5>2
      <4>. QED
        BY <1>4, <4>1, <4>2 DEF Names
    <3>. QED
      BY <3>1, <3>2
  <2>2. ASSUME Len(sofar) = SignalLimit, \A i \in DOMAIN sofar : sofar[i] > m PROVE Names(s, m)
    <3>1. k = SignalLimit
      BY <1>1, <1>2, <2>2
    <3>2. n > m
      <4>0. DOMAIN sofar = 1..Len(sofar) /\ Len(sofar) \in Nat /\ Len(sofar) >= 1
        BY <1>1, <2>0, <2>2
      <4>1. 1 \in DOMAIN sofar
        BY <4>0
      <4>2. sofar[1] <= n - 1 /\ sofar[1] > m /\ sofar[1] \in Nat
        <5>1. sofar[1] <= n - 1
          BY <4>1 DEF DesignOrdered
        <5>2. sofar[1] > m
          BY <2>2, <4>1
        <5>3. sofar[1] \in Nat
          BY <4>0
        <5>. QED
          BY <5>1, <5>2, <5>3
      <4>. QED
        BY <4>2
    <3>3. \A j \in DOMAIN s : s[j] > m
      BY <1>5, <1>6, <2>2, <3>2
    <3>. QED
      BY <1>4, <3>1, <3>3 DEF Names
  <2>. QED
    BY <1>10, <2>1, <2>2 DEF Names
<1>. QED
  BY <1>4, <1>5, <1>8, <1>9, <1>10

LEMMA DesignReviewed ==
    ASSUME SignalInv, NEW w \in Makers, Writing(w), NEW p \in DesignIds, making[w].project = p, NEW d, d = Reviewed(p, w)
    PROVE /\ d \in DesignedRow /\ d.there = designed[p].there /\ d.input = making[w].number
          /\ d.signals = NewestFirst(making[w].number, making[w].seen) /\ d.risk = RiskAfter(w, designed[p].risk)
<1> PICK n : n = making[w].number
  OBVIOUS
<1> PICK s : s = NewestFirst(n, making[w].seen)
  OBVIOUS
<1> PICK r : r = RiskAfter(w, designed[p].risk)
  OBVIOUS
<1>1. n \in Nat \ {0} /\ making[w].seen \in Seq(Nat) /\ DesignOrdered(making[w].seen, n - 1)
  BY DEF SignalInv, MakingRow, VerdictRow
<1>2. s \in Seq(Nat)
  BY <1>1, DesignNewest
<1>3. r \in {"low", "medium", "high"} /\ designed[p] \in DesignedRow
  BY DEF SignalInv, DesignedRow, RiskAfter, RiskOf
<1>4. d = [designed[p] EXCEPT !.signals = s, !.input = n, !.risk = r]
  BY DEF Reviewed
<1>5. d = [there |-> designed[p].there, repository |-> designed[p].repository, risk |-> r, signals |-> s, input |-> n]
  BY <1>3, <1>4 DEF DesignedRow
<1>6. designed[p].there \in BOOLEAN /\ designed[p].repository \in BOOLEAN
  BY <1>3 DEF DesignedRow
<1>. QED
  BY <1>1, <1>2, <1>3, <1>5, <1>6 DEF DesignedRow

\* The severities of a review that has a critical or a major finding.
LEMMA DesignSevere ==
    ASSUME NEW findings
    PROVE /\ "critical" \in findings => "critical" \in Severe(findings)
          /\ findings \cap {"critical", "high", "major"} # {} => Severe(findings) # {}
BY DEF Severe, SeverityOf

LEMMA DesignApplyKeeps == ASSUME SignalInv, NEW w \in Makers, ApplyReview(w) PROVE SignalInv'
<1> PICK p : p = making[w].project
  OBVIOUS
<1> PICK n : n = making[w].number
  OBVIOUS
<1> PICK sofar : sofar = making[w].seen
  OBVIOUS
<1> PICK severe : severe = Severe(making[w].findings)
  OBVIOUS
<1>1. /\ Writing(w) /\ verdicts' = [verdicts EXCEPT ![n].done = TRUE] /\ making' = [making EXCEPT ![w] = NotMaking]
      /\ blockers' = (IF severe = {} THEN blockers ELSE blockers \cup {n}) /\ crossedReviews' = crossedReviews
  BY DEF ApplyReview, Writing, Go
<1>2. /\ n \in DOMAIN verdicts /\ n \in Nat \ {0} /\ n - 1 \in Nat /\ ~verdicts[n].done /\ verdicts[n].project = p
      /\ verdicts[n].findings = making[w].findings /\ sofar \in Seq(Nat) /\ DesignOrdered(sofar, n - 1)
      /\ DOMAIN verdicts = 1..Len(verdicts) /\ Len(verdicts) \in Nat /\ verdicts \in Seq(VerdictRow)
      /\ p \in DesignIds \cup {Unfound} /\ (p \in DesignIds => designed[p].there)
  BY <1>1 DEF SignalInv, MakingRow
<1>3. NotMaking \in MakingRow /\ NotMaking.project = Unfound /\ NotMaking.step = "none" /\ Unfound \notin DesignIds
  BY DesignAssumption DEF NotMaking, MakingRow, Steps
<1>4. DOMAIN making' = Makers /\ making'[w] = NotMaking /\ \A v \in Makers \ {w} : making'[v] = making[v]
  BY <1>1 DEF SignalInv
<1>5. \A v \in Makers : Writing(v)' => v # w /\ making'[v] = making[v] /\ Writing(v)
  BY <1>3, <1>4 DEF Writing
<1> PICK x : x = [verdicts[n] EXCEPT !.done = TRUE]
  OBVIOUS
<1>6. x \in VerdictRow /\ x.done = TRUE /\ x.project = p /\ x.findings = making[w].findings
  <2>1. verdicts[n] \in VerdictRow
    BY <1>2
  <2>. QED
    BY <1>2, <2>1 DEF VerdictRow
<1>7. /\ verdicts' \in Seq(VerdictRow) /\ DOMAIN verdicts' = DOMAIN verdicts /\ Len(verdicts') = Len(verdicts) /\ verdicts'[n] = x
      /\ \A m \in DOMAIN verdicts \ {n} : verdicts'[m] = verdicts[m]
  <2>1. verdicts' = [verdicts EXCEPT ![n] = x]
    BY <1>1
  <2>2. DOMAIN verdicts' = DOMAIN verdicts /\ verdicts'[n] = x /\ \A m \in DOMAIN verdicts \ {n} : verdicts'[m] = verdicts[m]
    BY <1>2, <2>1
  <2>3. verdicts' \in Seq(VerdictRow) /\ Len(verdicts') = Len(verdicts)
    BY <1>2, <1>6, <2>1
  <2>. QED
    BY <2>2, <2>3
<1>8. \A m \in DOMAIN verdicts : verdicts'[m].project = verdicts[m].project /\ verdicts'[m].findings = verdicts[m].findings
  BY <1>2, <1>6, <1>7
<1>9. \A m \in DOMAIN verdicts, y \in DesignIds : Settled(m, y)' => (m = n /\ y = p) \/ (m # n /\ Settled(m, y))
  BY <1>1, <1>2, <1>6, <1>7 DEF Settled
<1> PICK d : d = Reviewed(p, w)
  OBVIOUS
<1>10. \A v \in Makers : Writing(v)' =>
          /\ making'[v].number \in DOMAIN verdicts' /\ ~verdicts'[making'[v].number].done
          /\ verdicts'[making'[v].number].project = making'[v].project
          /\ verdicts'[making'[v].number].findings = making'[v].findings
          /\ DesignOrdered(making'[v].seen, making'[v].number - 1)
  <2> SUFFICES ASSUME NEW v \in Makers, Writing(v)'
               PROVE /\ making'[v].number \in DOMAIN verdicts' /\ ~verdicts'[making'[v].number].done
                     /\ verdicts'[making'[v].number].project = making'[v].project
                     /\ verdicts'[making'[v].number].findings = making'[v].findings
                     /\ DesignOrdered(making'[v].seen, making'[v].number - 1)
    OBVIOUS
  <2>1. v # w /\ making'[v] = making[v] /\ Writing(v) /\ making[v].number # n /\ making[v].number \in DOMAIN verdicts
    BY <1>1, <1>5 DEF SignalInv
  <2>. QED
    BY <1>7, <2>1 DEF SignalInv
<1>11. \A u, v \in Makers : (u # v /\ Writing(u)' /\ Writing(v)') =>
          /\ making'[u].number # making'[v].number
          /\ making'[u].project = making'[v].project => making'[u].number \in crossedReviews'
  BY <1>1, <1>5 DEF SignalInv
<1>12. ASSUME NEW v \in Makers, NEW m \in DOMAIN verdicts', Writing(v)', making'[v].project \in DesignIds,
              Settled(m, making[v].project)'
       PROVE Names(making'[v].seen, m)
  <2>1. v # w /\ making'[v] = making[v] /\ Writing(v) /\ m \in DOMAIN verdicts
    BY <1>5, <1>7, <1>12
  <2>2. CASE m = n /\ making[v].project = p
    <3>1. n \in crossedReviews'
      BY <1>1, <2>1, <2>2 DEF SignalInv
    <3>. QED
      BY <1>12, <2>2, <3>1 DEF Settled
  <2>3. CASE ~(m = n /\ making[v].project = p)
    <3>1. Settled(m, making[v].project)
      BY <1>9, <1>12, <2>1, <2>3
    <3>. QED
      BY <1>12, <2>1, <3>1 DEF SignalInv
  <2>. QED
    BY <2>2, <2>3
<1>13. ASSUME NEW v \in Makers PROVE making'[v] \in MakingRow
  BY <1>3, <1>4 DEF SignalInv
<1>14. CASE p \notin DesignIds
  <2>1. designed' = designed
    BY <1>14 DEF ApplyReview, Found
  <2>2. \A m \in DOMAIN verdicts, y \in DesignIds : Settled(m, y)' => Settled(m, y)
    BY <1>9, <1>14
  <2>3. \A v \in Makers : making'[v].project \in DesignIds => designed'[making'[v].project].there
    BY <1>3, <1>4, <2>1 DEF SignalInv
  <2>4. \A v \in Makers :
          (Writing(v)' /\ making'[v].project \in DesignIds /\ making'[v].number \notin crossedReviews')
              => designed'[making'[v].project].risk = making'[v].risk
    BY <1>1, <1>5, <2>1 DEF SignalInv
  <2>5. \A m \in DOMAIN verdicts' : verdicts'[m].project \in DesignIds => designed'[verdicts'[m].project].there
    BY <1>7, <1>8, <2>1 DEF SignalInv
  <2>6. ASSUME NEW y \in DesignIds
        PROVE /\ designed'[y] \in DesignedRow /\ DesignOrdered(designed'[y].signals, Len(verdicts'))
              /\ \A m \in DOMAIN verdicts' : Settled(m, y)' => Names(designed'[y].signals, m)
              /\ designed'[y].input # 0 =>
                    designed'[y].input \in DOMAIN verdicts' /\ verdicts'[designed'[y].input].done /\ designed'[y].signals # <<>>
    <3>1. \A m \in DOMAIN verdicts : verdicts[m].done => verdicts'[m].done
      BY <1>6, <1>7
    <3>. QED
      BY <1>7, <2>1, <2>2, <3>1 DEF SignalInv
  <2>7. LatestReviewShown'
    BY <1>1, <1>8, <2>1 DEF SignalInv, LatestReviewShown
  <2>. QED
    BY <1>4, <1>7, <1>10, <1>11, <1>12, <1>13, <2>1, <2>3, <2>4, <2>5, <2>6, <2>7 DEF SignalInv
<1>15. CASE p \in DesignIds
  <2>1. d \in DesignedRow /\ d.there /\ d.input = n /\ d.signals = NewestFirst(n, sofar) /\ d.risk = RiskAfter(w, designed[p].risk)
    BY <1>1, <1>2, <1>15, DesignReviewed
  <2>2. /\ d.signals # <<>> /\ Head(d.signals) = n /\ DesignOrdered(d.signals, n)
        /\ \A m \in Nat : m = n \/ Names(sofar, m) => Names(d.signals, m)
    BY <1>2, <2>1, DesignNewest
  <2>3. DOMAIN designed' = DesignIds /\ designed'[p] = d /\ \A y \in DesignIds \ {p} : designed'[y] = designed[y]
    BY <1>2, <1>15 DEF ApplyReview, Found, SignalInv
  <2>4. \A y \in DesignIds : designed[y].there => designed'[y].there
    BY <2>1, <2>3
  <2>5. \A v \in Makers : making'[v].project \in DesignIds => designed'[making'[v].project].there
    BY <1>3, <1>4, <2>4 DEF SignalInv
  <2>6. ASSUME NEW v \in Makers, Writing(v)', making'[v].project \in DesignIds, making'[v].number \notin crossedReviews'
        PROVE designed'[making'[v].project].risk = making'[v].risk
    <3>1. v # w /\ making'[v] = making[v] /\ Writing(v) /\ making[v].number \notin crossedReviews
      BY <1>1, <1>5, <2>6
    <3>2. making[v].project # p
      BY <1>1, <3>1 DEF SignalInv
    <3>. QED
      BY <2>3, <2>6, <3>1, <3>2 DEF SignalInv
  <2>7. \A m \in DOMAIN verdicts' : verdicts'[m].project \in DesignIds => designed'[verdicts'[m].project].there
    BY <1>7, <1>8, <2>4 DEF SignalInv
  <2>8. ASSUME NEW y \in DesignIds
        PROVE /\ designed'[y] \in DesignedRow /\ DesignOrdered(designed'[y].signals, Len(verdicts'))
              /\ \A m \in DOMAIN verdicts' : Settled(m, y)' => Names(designed'[y].signals, m)
              /\ designed'[y].input # 0 =>
                    designed'[y].input \in DOMAIN verdicts' /\ verdicts'[designed'[y].input].done /\ designed'[y].signals # <<>>
    <3>1. \A m \in DOMAIN verdicts : verdicts[m].done => verdicts'[m].done
      BY <1>6, <1>7
    <3>2. CASE y # p
      <4>1. \A m \in DOMAIN verdicts : Settled(m, y)' => Settled(m, y)
        BY <1>9, <3>2
      <4>. QED
        BY <1>7, <2>3, <3>1, <3>2, <4>1 DEF SignalInv
    <3>3. CASE y = p
      <4>1. DesignOrdered(d.signals, Len(verdicts'))
        <5>1. d.signals \in Seq(Nat) /\ DesignOrdered(d.signals, n)
          BY <2>1, <2>2 DEF DesignedRow
        <5>2. n \in Nat /\ Len(verdicts') \in Nat /\ n <= Len(verdicts')
          BY <1>2, <1>7
        <5>. QED
          BY <5>1, <5>2, DesignOrderedUpTo
      <4>2. ASSUME NEW m \in DOMAIN verdicts', Settled(m, y)' PROVE Names(d.signals, m)
        <5>1. m \in Nat /\ m \in DOMAIN verdicts
          BY <1>2, <1>7
        <5>2. CASE m = n
          BY <2>2, <5>1, <5>2
        <5>3. CASE m # n
          <6>1. Settled(m, p)
            BY <1>9, <3>3, <4>2, <5>1, <5>3
          <6>2. Names(sofar, m)
            BY <1>1, <1>15, <5>1, <6>1 DEF SignalInv
          <6>. QED
            BY <2>2, <5>1, <6>2
        <5>. QED
          BY <5>2, <5>3
      <4>. QED
        BY ZenonT(60), <1>2, <1>6, <1>7, <2>1, <2>2, <2>3, <3>3, <4>1, <4>2
    <3>. QED
      BY <3>2, <3>3
  <2>9. LatestReviewShown'
    <3> SUFFICES ASSUME NEW y \in DesignIds, designed'[y].input # 0
                 PROVE /\ Head(designed'[y].signals) = designed'[y].input
                       /\ verdicts'[designed'[y].input].findings \cap {"critical", "high", "major"} # {}
                             => designed'[y].input \in blockers'
                       /\ ("critical" \in verdicts'[designed'[y].input].findings /\ designed'[y].input \notin crossedReviews')
                             => designed'[y].risk = "high"
      BY DEF LatestReviewShown
    <3>1. CASE y # p
      <4>1. designed'[y] = designed[y] /\ designed[y].input \in DOMAIN verdicts
        BY <2>3, <3>1 DEF SignalInv
      <4>. QED
        BY <1>1, <1>8, <4>1 DEF SignalInv, LatestReviewShown
    <3>2. CASE y = p
      <4>1. verdicts'[n].findings = making[w].findings
        BY <1>6, <1>7
      <4>2. making[w].findings \cap {"critical", "high", "major"} # {} => n \in blockers'
        BY <1>1, DesignSevere
      <4>3. ASSUME "critical" \in making[w].findings, n \notin crossedReviews' PROVE d.risk = "high"
        <5>1. "critical" \in severe /\ RiskOf(severe) = "high"
          BY <4>3, DesignSevere DEF RiskOf
        <5>2. designed[p].risk = making[w].risk
          BY <1>1, <1>15, <4>3 DEF SignalInv
        <5>. QED
          BY <2>1, <5>1, <5>2 DEF RiskAfter
      <4>. QED
        BY <2>1, <2>2, <2>3, <3>2, <4>1, <4>2, <4>3
    <3>. QED
      BY <3>1, <3>2
  <2>. QED
    BY <1>4, <1>7, <1>10, <1>11, <1>12, <1>13, <2>3, <2>5, <2>6, <2>7, <2>8, <2>9 DEF SignalInv
<1>. QED
  BY <1>2, <1>14, <1>15

LEMMA SignalStepInv == SignalInv /\ DesignNext => SignalInv'
BY DesignAsksKeep, DesignIntakeKeeps, DesignComesKeeps, DesignApplyKeeps DEF DesignNext

--------------------------------------------------------------------------------
(* The day that was wrapped up (DayPlan) *)

PlanRow == [id : Nat, date : Dates, state : PlanState]
BlockRow == [plan : Nat, gen : [by : Nat, source : {"tasks", "planner"}], task : WorkItems \cup {Lunch},
             status : {"scheduled", "blocked", "done", "missed"}]
LoadedRow == [plan : PlanRow, new : BOOLEAN, blocks : SUBSET BlockRow]
RequestRow == [op : Op, by : Nat, loaded : LoadedRow, stale : BOOLEAN, work : [WorkItems -> WorkStatus], heard : Nat,
               today : SUBSET PlanRow, plans : BOOLEAN]
ClosedRow == [wrapped : BOOLEAN, timeline : SUBSET [plan : Nat, gen : [by : Nat, source : {"tasks", "planner"}], task : WorkItems \cup {Lunch}]]

Asks(q) == asking[q] # Idle

\* What a request that nobody overlapped has loaded is so.
PlanCurrent(r) ==
    /\ r.loaded.new => PlansOf(r.loaded.plan.date) = {}
    /\ ~r.loaded.new => r.loaded.plan \in plans
    /\ r.op = "wrapup" => r.today = PlansOf(1)

\* A request acts on what the life of its plan allows.
PlanAllowed(r) ==
    /\ r.plans => Replannable(r.loaded.plan)
    /\ r.op \in PlanAction => NextStates(r.loaded.plan.state, r.op) # {}
    /\ r.op = "wrapup" => r.loaded.plan.date = 2
    /\ \A p \in r.today : p.date = 1
    /\ \A b \in r.loaded.blocks : b.plan = r.loaded.plan.id

\* The plans that are, and those requests hold.
KnownPlans == plans \cup {asking[q].loaded.plan : q \in {o \in Planners : Asks(o)}}
                    \cup UNION {asking[q].today : q \in {o \in Planners : Asks(o)}}

WrappedInv ==
    /\ plans \subseteq PlanRow /\ blocks \subseteq BlockRow /\ work \in [WorkItems -> WorkStatus]
    /\ discards \in Seq(SUBSET WorkItems) /\ proposed \subseteq SUBSET WorkItems /\ planRequests \in Nat
    /\ DOMAIN asking = Planners /\ DOMAIN closed = Dates
    /\ \A q \in Planners : Asks(q) => asking[q] \in RequestRow /\ PlanAllowed(asking[q]) /\ (~asking[q].stale => PlanCurrent(asking[q]))
    /\ \A p \in KnownPlans : p.id <= planRequests
    /\ \A p, o \in KnownPlans : p.id = o.id => p.date = o.date
    /\ \A d \in Dates \ collided : \A p, o \in PlansOf(d) : p = o
    /\ \A d \in Dates : closed[d].wrapped => PlansOf(d) # {}
    /\ WrappedDayKept

LEMMA WrappedInitInv == PlanInit => WrappedInv
<1> SUFFICES ASSUME PlanInit PROVE WrappedInv
  OBVIOUS
<1>1. PICK running \in BOOLEAN :
          /\ work = [n \in WorkItems |-> IF running THEN "open" ELSE "none"]
          /\ plans = IF running THEN {[id |-> 1, date |-> 1, state |-> "ACTIVE"]} ELSE {}
          /\ blocks = IF running
                THEN {[plan |-> 1, gen |-> [by |-> 1, source |-> "planner"], task |-> t,
                       status |-> "scheduled"] : t \in WorkItems \cup {Lunch}}
                ELSE {}
          /\ planRequests = IF running THEN 1 ELSE 0
  BY DEF PlanInit
<1>2. \A q \in Planners : ~Asks(q)
  BY DEF PlanInit, Asks
<1>3. KnownPlans = plans
  BY <1>2 DEF KnownPlans
<1>4. plans \subseteq PlanRow /\ blocks \subseteq BlockRow /\ work \in [WorkItems -> WorkStatus] /\ planRequests \in Nat
  BY <1>1 DEF PlanRow, BlockRow, PlanState, Dates, WorkStatus
<1>5. /\ \A p \in plans : p.id <= planRequests
      /\ \A p, o \in plans : p = o
  BY <1>1
<1>6. \A d \in Dates : closed[d] = NotWrapped
  BY DEF PlanInit
<1>7. discards \in Seq(SUBSET WorkItems) /\ proposed \subseteq SUBSET WorkItems /\ DOMAIN asking = Planners /\ DOMAIN closed = Dates
  BY DEF PlanInit
<1>8. WrappedDayKept /\ \A d \in Dates : ~closed[d].wrapped
  BY <1>6 DEF WrappedDayKept, NotWrapped
<1>. QED
  BY <1>2, <1>3, <1>4, <1>5, <1>7, <1>8 DEF WrappedInv, PlansOf

LEMMA WrappedHolds == WrappedInv => WrappedDayKept
BY DEF WrappedInv

LEMMA PlanRead == WrappedInv => PlanReadable
<1> SUFFICES ASSUME WrappedInv, NEW d \in Dates, d \notin collided PROVE Cardinality(PlansOf(d)) <= 1
  BY Zenon DEF PlanReadable
<1>1. \A p, o \in PlansOf(d) : p = o
  BY DEF WrappedInv
<1>2. CASE PlansOf(d) = {}
  BY <1>2, FS_EmptySet
<1>3. CASE PlansOf(d) # {}
  <2>1. PICK p : PlansOf(d) = {p}
    BY <1>1, <1>3
  <2>2. Cardinality({p}) = 1
    BY FS_Singleton
  <2>. QED
    BY <2>1, <2>2
<1>. QED
  BY <1>2, <1>3

\* A step that changes neither plans nor blocks, and opens no request.
LEMMA PlanQuietKeeps ==
    ASSUME WrappedInv, UNCHANGED <<plans, blocks, closed, collided>>, work' \in [WorkItems -> WorkStatus],
           discards' \in Seq(SUBSET WorkItems), proposed' = proposed, planRequests' \in Nat, planRequests <= planRequests',
           DOMAIN asking' = Planners, \A q \in Planners : asking'[q] = Idle \/ asking'[q] = asking[q]
    PROVE WrappedInv'
<1>1. \A q \in Planners : Asks(q)' => Asks(q) /\ asking'[q] = asking[q]
  BY DEF Asks
<1>2. \A d : PlansOf(d)' = PlansOf(d)
  BY DEF PlansOf
<1>3. ASSUME NEW q \in Planners, Asks(q)'
      PROVE asking'[q] \in RequestRow /\ PlanAllowed(asking'[q]) /\ (~asking'[q].stale => PlanCurrent(asking[q])')
  <2>1. Asks(q) /\ asking'[q] = asking[q]
    BY <1>1, <1>3
  <2>2. PlanCurrent(asking[q]) => PlanCurrent(asking[q])'
    BY <1>2, <2>1 DEF PlanCurrent
  <2>. QED
    BY <2>1, <2>2 DEF WrappedInv
<1>4. KnownPlans' \subseteq KnownPlans
  BY <1>1 DEF KnownPlans
<1>5. \A p \in KnownPlans : p.id \in Nat
  <2>1. \A q \in Planners : Asks(q) => asking[q].loaded.plan \in PlanRow /\ asking[q].today \subseteq PlanRow
    BY DEF WrappedInv, RequestRow, LoadedRow
  <2>2. KnownPlans \subseteq PlanRow
    BY <2>1 DEF KnownPlans, WrappedInv
  <2>. QED
    BY <2>2 DEF PlanRow
<1>6. ASSUME NEW p \in KnownPlans' PROVE p.id <= planRequests'
  <2>1. p.id \in Nat /\ p.id <= planRequests /\ planRequests \in Nat
    BY <1>4, <1>5 DEF WrappedInv
  <2>. QED
    BY <2>1
<1>7. \A p, o \in KnownPlans' : p.id = o.id => p.date = o.date
  BY <1>4 DEF WrappedInv
<1>8. WrappedDayKept'
  BY DEF WrappedInv, WrappedDayKept, PlansOf, BlocksOf
<1>. QED
  BY <1>2, <1>3, <1>6, <1>7, <1>8 DEF WrappedInv

LEMMA WrappedStutters == WrappedInv /\ UNCHANGED planVars => WrappedInv'
<1> SUFFICES ASSUME WrappedInv, UNCHANGED planVars PROVE WrappedInv'
  OBVIOUS
<1>1. UNCHANGED <<plans, blocks, closed, collided, work, discards, proposed, planRequests, asking>> /\ DOMAIN asking' = Planners
      /\ planRequests \in Nat /\ work \in [WorkItems -> WorkStatus] /\ discards \in Seq(SUBSET WorkItems)
  BY DEF planVars, WrappedInv
<1>. QED
  BY <1>1, PlanQuietKeeps

LEMMA PlanQuietSteps ==
    ASSUME WrappedInv,
           \/ \E q \in Planners : FailRequest(q)
           \/ \E signature \in proposed : Discard(signature)
           \/ \E n \in WorkItems, status \in WorkStatus : WorkChanges(n, status)
    PROVE WrappedInv'
<1>1. ASSUME NEW q \in Planners, FailRequest(q) PROVE WrappedInv'
  <2>1. UNCHANGED <<plans, blocks, closed, collided, work, discards, proposed, planRequests>> /\ DOMAIN asking' = Planners
        /\ (\A o \in Planners : asking'[o] = Idle \/ asking'[o] = asking[o]) /\ planRequests \in Nat
        /\ work \in [WorkItems -> WorkStatus] /\ discards \in Seq(SUBSET WorkItems)
    BY <1>1 DEF FailRequest, WrappedInv
  <2>. QED
    BY <2>1, PlanQuietKeeps
<1>2. ASSUME NEW signature \in proposed, Discard(signature) PROVE WrappedInv'
  <2>1. signature \in SUBSET WorkItems /\ discards \in Seq(SUBSET WorkItems)
    BY DEF WrappedInv
  <2>2. discards' \in Seq(SUBSET WorkItems)
    BY <1>2, <2>1 DEF Discard
  <2>3. UNCHANGED <<plans, blocks, closed, collided, work, proposed, asking>> /\ DOMAIN asking' = Planners
        /\ planRequests' = planRequests + 1 /\ planRequests \in Nat /\ work \in [WorkItems -> WorkStatus]
    BY <1>2 DEF Discard, WrappedInv
  <2>. QED
    BY <2>2, <2>3, PlanQuietKeeps
<1>3. ASSUME NEW n \in WorkItems, NEW status \in WorkStatus, WorkChanges(n, status) PROVE WrappedInv'
  <2>1. work' \in [WorkItems -> WorkStatus]
    BY <1>3 DEF WorkChanges, WrappedInv
  <2>2. UNCHANGED <<plans, blocks, closed, collided, discards, proposed, asking, planRequests>> /\ DOMAIN asking' = Planners
        /\ planRequests \in Nat /\ discards \in Seq(SUBSET WorkItems)
    BY <1>3 DEF WorkChanges, WrappedInv
  <2>. QED
    BY <2>1, <2>2, PlanQuietKeeps
<1>. QED
  BY <1>1, <1>2, <1>3

LEMMA PlanOpenKeeps ==
    ASSUME WrappedInv, NEW q \in Planners, NEW op \in Op \ {"none"}, NEW d \in Dates, OpenRequest(q, op, d)
    PROVE WrappedInv'
<1> PICK n : n = planRequests + 1
  OBVIOUS
<1>1. n \in Nat /\ planRequests \in Nat /\ planRequests < n /\ planRequests' = n /\ asking[q] = Idle
      /\ UNCHANGED <<plans, blocks, work, discards, proposed, closed, collided>>
  BY DEF OpenRequest, WrappedInv
<1>2. PICK loaded \in BuildOrGetDraft(d, n), calendar \in BOOLEAN :
          /\ op = "generate" => Replannable(loaded.plan)
          /\ op \in PlanAction => NextStates(loaded.plan.state, op) # {}
          /\ op = "wrapup" => d = 2
          /\ asking' = [asking EXCEPT ![q] =
                [op |-> op, by |-> n, loaded |-> loaded, stale |-> FALSE,
                 work |-> IF op \in Planning THEN work ELSE [t \in WorkItems |-> "none"],
                 heard |-> IF op \in Planning THEN Len(discards) ELSE 0,
                 today |-> IF op = "wrapup" THEN PlansOf(1) ELSE {},
                 plans |-> op = "generate" \/ (op = "review" /\ Regenerates(loaded, calendar))]]
  <2>1. PICK loaded \in BuildOrGetDraft(d, planRequests'), calendar \in BOOLEAN :
          /\ op = "generate" => Replannable(loaded.plan)
          /\ op \in PlanAction => NextStates(loaded.plan.state, op) # {}
          /\ op = "wrapup" => d = 2 /\ Cardinality(PlansOf(1)) <= 1
          /\ op = "draft" => loaded.new
          /\ calendar => op = "review"
          /\ asking' = [asking EXCEPT ![q] =
                [op |-> op, by |-> planRequests', loaded |-> loaded, stale |-> FALSE,
                 work |-> IF op \in Planning THEN work ELSE [t \in WorkItems |-> "none"],
                 heard |-> IF op \in Planning THEN Len(discards) ELSE 0,
                 today |-> IF op = "wrapup" THEN PlansOf(1) ELSE {},
                 plans |-> op = "generate" \/ (op = "review" /\ Regenerates(loaded, calendar))]]
    BY Zenon DEF OpenRequest
  <2>2. planRequests' = n
    BY <1>1
  <2>. QED
    BY <2>1, <2>2
<1> PICK plan : plan = (op = "generate" \/ (op = "review" /\ Regenerates(loaded, calendar)))
  OBVIOUS
<1> PICK atHand : atHand = IF op \in Planning THEN work ELSE [t \in WorkItems |-> "none"]
  OBVIOUS
<1> PICK heard : heard = IF op \in Planning THEN Len(discards) ELSE 0
  OBVIOUS
<1> PICK today : today = IF op = "wrapup" THEN PlansOf(1) ELSE {}
  OBVIOUS
<1> PICK r : r = [op |-> op, by |-> n, loaded |-> loaded, stale |-> FALSE, work |-> atHand, heard |-> heard, today |-> today, plans |-> plan]
  OBVIOUS
<1>3. DOMAIN asking' = Planners /\ asking'[q] = r /\ \A o \in Planners \ {q} : asking'[o] = asking[o]
  BY <1>2 DEF WrappedInv
<1>4. /\ loaded \in LoadedRow /\ loaded.plan.date = d /\ \A b \in loaded.blocks : b.plan = loaded.plan.id
      /\ loaded.new => PlansOf(d) = {} /\ loaded.plan.id = n
      /\ ~loaded.new => loaded.plan \in plans
  <2>1. CASE PlansOf(d) # {}
    <3>1. PICK p \in PlansOf(d) : loaded = [plan |-> p, new |-> FALSE, blocks |-> BlocksOf(p)]
      BY <2>1 DEF BuildOrGetDraft
    <3>2. p \in plans /\ p \in PlanRow /\ p.date = d /\ BlocksOf(p) \in SUBSET BlockRow
      BY DEF PlansOf, BlocksOf, WrappedInv
    <3>3. loaded.plan = p /\ loaded.new = FALSE /\ loaded.blocks = BlocksOf(p)
      BY <3>1
    <3>. QED
      BY <3>1, <3>2, <3>3 DEF LoadedRow, BlocksOf
  <2>2. CASE PlansOf(d) = {}
    <3> PICK p : p = [id |-> n, date |-> d, state |-> "DRAFT"]
      OBVIOUS
    <3>1. loaded = [plan |-> p, new |-> TRUE, blocks |-> Drafted(n)]
      BY <2>2 DEF BuildOrGetDraft
    <3>2. p \in PlanRow /\ p.date = d /\ p.id = n
      BY <1>1 DEF PlanRow, PlanState
    <3>3. Drafted(n) \in SUBSET BlockRow /\ \A b \in Drafted(n) : b.plan = n
      BY <1>1 DEF Drafted, BlockRow
    <3>4. loaded.plan = p /\ loaded.new = TRUE /\ loaded.blocks = Drafted(n)
      BY <3>1
    <3>. QED
      BY <2>2, <3>1, <3>2, <3>3, <3>4 DEF LoadedRow
  <2>. QED
    BY <2>1, <2>2
<1>5. PlansOf(1) \subseteq plans /\ plans \subseteq PlanRow /\ (\A p \in today : p.date = 1) /\ today \in SUBSET PlanRow /\ today \subseteq plans
  BY DEF PlansOf, WrappedInv
<1>6. r.op = op /\ r.loaded = loaded /\ r.today = today /\ r.plans = plan /\ r.stale = FALSE
  OBVIOUS
<1>7. r \in RequestRow /\ r # Idle
  <2>1. plan \in BOOLEAN
    OBVIOUS
  <2>2. atHand \in [WorkItems -> WorkStatus] /\ heard \in Nat
    BY DEF WrappedInv, WorkStatus
  <2>3. r \in RequestRow
    BY <1>1, <1>4, <1>5, <2>1, <2>2 DEF RequestRow
  <2>. QED
    BY <1>6, <2>3 DEF Idle
<1>8. PlanAllowed(r)
  <2>1. plan => Replannable(loaded.plan)
    BY <1>2 DEF Regenerates
  <2>. QED
    BY <1>2, <1>4, <1>5, <1>6, <2>1 DEF PlanAllowed
<1>9. \A x : PlansOf(x)' = PlansOf(x)
  BY <1>1 DEF PlansOf
<1>10. PlanCurrent(asking[q])'
  BY <1>1, <1>3, <1>4, <1>6, <1>9 DEF PlanCurrent
<1>11. \A o \in Planners \ {q} : (Asks(o)' <=> Asks(o)) /\ asking'[o] = asking[o]
  BY <1>3 DEF Asks
<1>12. ASSUME NEW o \in Planners, Asks(o)'
       PROVE asking'[o] \in RequestRow /\ PlanAllowed(asking'[o]) /\ (~asking'[o].stale => PlanCurrent(asking[o])')
  <2>1. CASE o = q
    BY <1>3, <1>7, <1>8, <1>10, <2>1
  <2>2. CASE o # q
    <3>1. Asks(o) /\ asking'[o] = asking[o]
      BY <1>11, <1>12, <2>2
    <3>2. PlanCurrent(asking[o]) => PlanCurrent(asking[o])'
      BY <1>1, <1>9, <3>1 DEF PlanCurrent
    <3>. QED
      BY <3>1, <3>2 DEF WrappedInv
  <2>. QED
    BY <2>1, <2>2
<1>13. ~Asks(q) /\ KnownPlans' \subseteq KnownPlans \cup {loaded.plan}
  <2>1. ~Asks(q)
    BY <1>1 DEF Asks
  <2>2. ASSUME NEW o \in Planners, Asks(o)'
        PROVE asking'[o].loaded.plan \in KnownPlans \cup {loaded.plan} /\ asking'[o].today \subseteq KnownPlans
    <3>1. CASE o = q
      BY <1>3, <1>5, <1>6, <3>1 DEF KnownPlans
    <3>2. CASE o # q
      BY <1>11, <2>2, <3>2 DEF KnownPlans
    <3>. QED
      BY <3>1, <3>2
  <2>. QED
    BY <1>1, <2>1, <2>2 DEF KnownPlans
<1>14. \A p \in KnownPlans : p.id \in Nat
  <2>1. \A o \in Planners : Asks(o) => asking[o].loaded.plan \in PlanRow /\ asking[o].today \subseteq PlanRow
    BY DEF WrappedInv, RequestRow, LoadedRow
  <2>2. KnownPlans \subseteq PlanRow
    BY <2>1 DEF KnownPlans, WrappedInv
  <2>. QED
    BY <2>2 DEF PlanRow
<1>15. \A p \in KnownPlans : p.id <= planRequests /\ p.id < n
  <2>1. \A p \in KnownPlans : p.id <= planRequests
    BY DEF WrappedInv
  <2>. QED
    BY <1>1, <1>14, <2>1
<1>16. loaded.plan \in KnownPlans \/ loaded.plan.id = n
  BY <1>4 DEF KnownPlans, LoadedRow
<1>17. \A p \in KnownPlans' : p.id <= planRequests'
  BY <1>1, <1>13, <1>14, <1>15, <1>16
<1>18. \A p, o \in KnownPlans' : p.id = o.id => p.date = o.date
  BY <1>1, <1>13, <1>14, <1>15, <1>16 DEF WrappedInv
<1>19. WrappedDayKept'
  BY <1>1 DEF WrappedInv, WrappedDayKept, PlansOf, BlocksOf
<1>. QED
  BY <1>1, <1>3, <1>9, <1>12, <1>17, <1>18, <1>19 DEF WrappedInv

\* The requests that are left when one ends; those on its dates are stale.
LEMMA PlanCloses ==
    ASSUME WrappedInv, NEW q \in Planners, CloseRequest(q)
    PROVE /\ DOMAIN asking' = Planners /\ ~Asks(q)'
          /\ \A o \in Planners : Asks(o)' => o # q /\ Asks(o)
          /\ \A o \in Planners \ {q} : Asks(o) =>
                /\ asking'[o] \in RequestRow /\ asking'[o].op = asking[o].op /\ asking'[o].loaded = asking[o].loaded
                /\ asking'[o].today = asking[o].today /\ asking'[o].plans = asking[o].plans
                /\ ~asking'[o].stale => ~asking[o].stale /\ Touched(asking[o]) \cap Touched(asking[q]) = {}
<1>1. DOMAIN asking' = Planners /\ asking'[q] = Idle /\ \A o \in Planners \ {q} : ~Asks(o) => asking'[o] = asking[o]
  BY DEF CloseRequest, Asks
<1>2. ASSUME NEW o \in Planners \ {q}, Asks(o)
      PROVE /\ asking'[o] \in RequestRow /\ asking'[o].op = asking[o].op /\ asking'[o].loaded = asking[o].loaded
            /\ asking'[o].today = asking[o].today /\ asking'[o].plans = asking[o].plans
            /\ ~asking'[o].stale => ~asking[o].stale /\ Touched(asking[o]) \cap Touched(asking[q]) = {}
  <2>0. asking[o] \in RequestRow
    BY <1>2 DEF WrappedInv
  <2>1. CASE Touched(asking[o]) \cap Touched(asking[q]) # {}
    <3> PICK n : n = [asking[o] EXCEPT !.stale = TRUE]
      OBVIOUS
    <3>1. asking'[o] = n
      BY <1>2, <2>1 DEF CloseRequest, Asks
    <3>2. n \in RequestRow
      BY <2>0 DEF RequestRow
    <3>3. n.op = asking[o].op /\ n.loaded = asking[o].loaded /\ n.today = asking[o].today /\ n.plans = asking[o].plans /\ n.stale = TRUE
      BY <2>0, <3>2 DEF RequestRow
    <3>. QED
      BY <3>1, <3>2, <3>3
  <2>2. CASE Touched(asking[o]) \cap Touched(asking[q]) = {}
    <3>1. asking'[o] = asking[o]
      BY <1>2, <2>2 DEF CloseRequest, Asks
    <3>. QED
      BY <2>0, <2>2, <3>1
  <2>. QED
    BY <2>1, <2>2
<1>. QED
  BY <1>1, <1>2 DEF Asks

\* What the synchronisation says of a block is of the same block.
LEMMA PlanRestated ==
    ASSUME NEW r, NEW late, NEW b \in BlockRow, NEW c, c = [b EXCEPT !.status = Synced(b, r, late)]
    PROVE c \in BlockRow /\ c.plan = b.plan /\ Key(c) = Key(b)
<1> PICK s : s = Synced(b, r, late)
  OBVIOUS
<1>1. b.status \in {"scheduled", "blocked", "done", "missed"}
  BY DEF BlockRow
<1>2. s \in {"scheduled", "blocked", "done", "missed"}
  BY <1>1 DEF Synced
<1>3. c = [b EXCEPT !.status = s]
  OBVIOUS
<1>4. c \in BlockRow
  BY <1>2, <1>3 DEF BlockRow
<1>5. c.plan = b.plan /\ c.gen = b.gen /\ c.task = b.task
  BY <1>3, <1>4 DEF BlockRow
<1>. QED
  BY <1>4, <1>5 DEF Key

\* A request writes blocks of its own plan, and as long as it does not plan anew, on the
\* same timeline.
OwnBlocks(r, B) ==
    /\ B \subseteq BlockRow
    /\ \A i : i # r.loaded.plan.id => {b \in B : b.plan = i} = {b \in blocks : b.plan = i}
    /\ (~r.plans /\ ~r.loaded.new) => \A i : Timeline({b \in B : b.plan = i}) = Timeline({b \in blocks : b.plan = i})

Checked(r, late) == (Syncs(r) /\ ~r.plans /\ ~r.loaded.new) => Timeline(Changed(r, late)) \subseteq Timeline(blocks)

LEMMA PlanBlocks ==
    ASSUME WrappedInv, NEW r \in RequestRow, PlanAllowed(r), NEW placed \in SUBSET WorkItems, NEW late,
           NEW B, B = BlocksAfter(r, placed, late), Checked(r, late)
    PROVE OwnBlocks(r, B)
<1> PICK id : id = r.loaded.plan.id
  OBVIOUS
<1>0. r.loaded.blocks \subseteq BlockRow /\ (\A b \in r.loaded.blocks : b.plan = id) /\ id \in Nat /\ r.by \in Nat /\ blocks \subseteq BlockRow
      /\ r.plans \in BOOLEAN /\ r.loaded.new \in BOOLEAN
  BY DEF RequestRow, LoadedRow, PlanRow, PlanAllowed, WrappedInv
<1>1. \A b, c : Key(b) = Key(c) => b.plan = c.plan
  BY DEF Key
<1>2. CASE r.plans
  <2>1. B = (blocks \ WithKeys(Timeline(r.loaded.blocks))) \cup Planned(r, placed)
    BY <1>2 DEF BlocksAfter, Rewritten
  <2>2. Planned(r, placed) \subseteq BlockRow /\ \A b \in Planned(r, placed) : b.plan = id
    BY <1>0 DEF Planned, BlockRow
  <2>3. \A b \in WithKeys(Timeline(r.loaded.blocks)) : b.plan = id
    BY <1>0, <1>1 DEF WithKeys, Timeline
  <2>. QED
    BY <1>0, <1>2, <2>1, <2>2, <2>3 DEF OwnBlocks
<1>3. CASE ~r.plans
  <2> PICK told : told = IF Syncs(r) THEN Changed(r, late) ELSE {}
    OBVIOUS
  <2> PICK stored : stored = IF r.loaded.new THEN blocks \cup r.loaded.blocks ELSE blocks
    OBVIOUS
  <2> PICK gone : gone = {b \in stored : Key(b) \in Timeline(told)}
    OBVIOUS
  <2> PICK again : again = {[b EXCEPT !.status = Synced(b, r, late)] : b \in told}
    OBVIOUS
  <2>1. B = (stored \ gone) \cup again
    BY <1>3 DEF BlocksAfter
  <2>2. told \subseteq r.loaded.blocks /\ told \subseteq BlockRow
    BY <1>0 DEF Changed
  <2>3. \A c \in again : \E b \in told : c = [b EXCEPT !.status = Synced(b, r, late)]
    OBVIOUS
  <2>4. \A c \in again : c \in BlockRow /\ c.plan = id /\ \E b \in told : Key(c) = Key(b)
    BY <1>0, <2>2, <2>3, PlanRestated
  <2>5. ASSUME NEW b \in told PROVE \E c \in again : Key(c) = Key(b) /\ c.plan = id
    <3> PICK c : c = [b EXCEPT !.status = Synced(b, r, late)]
      OBVIOUS
    <3>1. c \in again /\ b \in BlockRow /\ b.plan = id
      BY <1>0, <2>2
    <3>2. c.plan = b.plan /\ Key(c) = Key(b)
      BY <3>1, PlanRestated
    <3>. QED
      BY <3>1, <3>2
  <2>6. \A b \in gone : b.plan = id
    BY <1>0, <1>1, <2>2 DEF Timeline
  <2>7. \A b \in stored : b \in BlockRow /\ (b.plan # id => b \in blocks)
    BY <1>0
  <2>8. B \subseteq BlockRow
    BY <2>1, <2>4, <2>7
  <2>9. ASSUME NEW i, i # id PROVE {b \in B : b.plan = i} = {b \in blocks : b.plan = i}
    <3>1. \A b \in B : b.plan = i => b \in blocks
      BY <2>1, <2>4, <2>7, <2>9
    <3>2. \A b \in blocks : b.plan = i => b \in B
      BY <2>1, <2>6, <2>9
    <3>. QED
      BY <3>1, <3>2
  <2>10. ASSUME ~r.loaded.new, NEW i PROVE Timeline({b \in B : b.plan = i}) = Timeline({b \in blocks : b.plan = i})
    <3>1. stored = blocks /\ Timeline(told) \subseteq Timeline(blocks)
      BY <1>3, <2>10 DEF Timeline, Checked
    <3>2. ASSUME NEW b \in B, b.plan = i PROVE Key(b) \in Timeline({c \in blocks : c.plan = i})
      <4>1. CASE b \in blocks
        BY <3>2, <4>1 DEF Timeline
      <4>2. CASE b \in again
        <5>1. PICK c \in told : Key(b) = Key(c)
          BY <2>4, <4>2
        <5>2. PICK e \in blocks : Key(e) = Key(c)
          BY <3>1 DEF Timeline
        <5>3. e.plan = i
          BY <1>1, <3>2, <5>1, <5>2
        <5>. QED
          BY <5>1, <5>2, <5>3 DEF Timeline
      <4>. QED
        BY <2>1, <3>1, <3>2, <4>1, <4>2
    <3>3. ASSUME NEW b \in blocks, b.plan = i PROVE Key(b) \in Timeline({c \in B : c.plan = i})
      <4>1. CASE b \notin gone
        <5>1. b \in B
          BY <2>1, <3>1, <4>1
        <5>. QED
          BY <3>3, <5>1 DEF Timeline
      <4>2. CASE b \in gone
        <5>1. PICK c \in told : Key(b) = Key(c)
          BY <4>2 DEF Timeline
        <5>2. PICK e \in again : Key(e) = Key(c)
          BY <2>5
        <5>3. e.plan = i /\ e \in B
          BY <1>1, <2>1, <3>3, <5>1, <5>2
        <5>. QED
          BY <5>1, <5>2, <5>3 DEF Timeline
      <4>. QED
        BY <4>1, <4>2
    <3>. QED
      BY <3>2, <3>3 DEF Timeline
  <2>. QED
    BY <1>3, <2>8, <2>9, <2>10 DEF OwnBlocks
<1>. QED
  BY <1>0, <1>2, <1>3

\* P follows from prior: the same plans, those of dates not in D as they are.
Follows(P, prior, D) ==
    /\ P \subseteq PlanRow
    /\ \A p \in P : \E o \in prior : p.id = o.id /\ p.date = o.date /\ (o.date \notin D => p = o)
    /\ \A o \in prior : \E p \in P : p.id = o.id /\ p.date = o.date /\ (o.date \notin D => p = o)
    /\ \A d : (\A a, b \in prior : a.date = d /\ b.date = d => a = b) => (\A a, b \in P : a.date = d /\ b.date = d => a = b)

LEMMA PlanMoved ==
    ASSUME NEW prior \in SUBSET PlanRow, NEW moved \in PlanRow, NEW state \in PlanState, NEW P, P = MovedTo(prior, moved, state),
           \A p \in prior : p.id = moved.id => p.date = moved.date
    PROVE Follows(P, prior, {moved.date})
<1> DEFINE f(p) == IF p.id = moved.id THEN [p EXCEPT !.state = state] ELSE p
<1>1. ASSUME NEW p \in prior PROVE f(p) \in PlanRow /\ f(p).id = p.id /\ f(p).date = p.date /\ (p.date # moved.date => f(p) = p)
  <2>1. CASE p.id = moved.id
    <3> PICK n : n = [p EXCEPT !.state = state]
      OBVIOUS
    <3>1. n \in PlanRow
      BY DEF PlanRow
    <3>2. n.id = p.id /\ n.date = p.date
      BY <3>1 DEF PlanRow
    <3>. QED
      BY <2>1, <3>1, <3>2
  <2>2. CASE p.id # moved.id
    BY <2>2
  <2>. QED
    BY <2>1, <2>2
<1>2. P = {f(p) : p \in prior}
  BY DEF MovedTo
<1> HIDE DEF f
<1>3. P \subseteq PlanRow
  BY <1>1, <1>2
<1>4. \A p \in P : \E o \in prior : p = f(o)
  BY <1>2
<1>5. \A o \in prior : f(o) \in P
  BY <1>2
<1>6. \A p \in P : \E o \in prior : p.id = o.id /\ p.date = o.date /\ (o.date \notin {moved.date} => p = o)
  BY <1>1, <1>4
<1>7. \A o \in prior : \E p \in P : p.id = o.id /\ p.date = o.date /\ (o.date \notin {moved.date} => p = o)
  BY <1>1, <1>5
<1>8. ASSUME NEW d, \A a, b \in prior : a.date = d /\ b.date = d => a = b, NEW a \in P, NEW b \in P, a.date = d, b.date = d PROVE a = b
  <2>1. PICK x \in prior : a = f(x)
    BY <1>4
  <2>2. PICK y \in prior : b = f(y)
    BY <1>4
  <2>3. x.date = d /\ y.date = d
    BY <1>1, <1>8, <2>1, <2>2
  <2>. QED
    BY <1>8, <2>1, <2>2, <2>3
<1>. QED
  BY <1>3, <1>6, <1>7, <1>8 DEF Follows

PlanRows(r) == IF r.loaded.new THEN plans \cup {r.loaded.plan} ELSE plans

\* The dates whose plan a request moves on.
Moves(r) ==
    IF r.op \in PlanAction THEN {r.loaded.plan.date}
    ELSE IF r.op = "wrapup" /\ \E p \in r.today : p.state = "ACTIVE" THEN {1} ELSE {}

LEMMA PlanAfter ==
    ASSUME WrappedInv, NEW q \in Planners, Asks(q), NEW P, P \in PlansAfter(asking[q])
    PROVE Follows(P, PlanRows(asking[q]), Moves(asking[q]))
<1> PICK r : r = asking[q]
  OBVIOUS
<1> PICK prior : prior = IF r.loaded.new THEN plans \cup {r.loaded.plan} ELSE plans
  OBVIOUS
<1>1. r \in RequestRow /\ PlanAllowed(r) /\ r.loaded.plan \in PlanRow /\ r.today \subseteq PlanRow /\ prior = PlanRows(r)
  BY DEF WrappedInv, RequestRow, LoadedRow, PlanRows
<1>2. prior \in SUBSET PlanRow /\ prior \subseteq KnownPlans /\ r.loaded.plan \in KnownPlans /\ r.today \subseteq KnownPlans
  BY <1>1 DEF WrappedInv, KnownPlans
<1>3. \A m \in KnownPlans, p \in prior : p.id = m.id => p.date = m.date
  BY <1>2 DEF WrappedInv
<1>4. CASE r.op \in PlanAction
  <2>1. PICK s \in NextStates(r.loaded.plan.state, r.op) : P = MovedTo(prior, r.loaded.plan, s)
    BY <1>4 DEF PlansAfter
  <2>2. s \in PlanState
    BY DEF NextStates
  <2>. QED
    BY <1>1, <1>2, <1>3, <1>4, <2>1, <2>2, PlanMoved DEF Moves
<1>5. CASE r.op = "wrapup" /\ \E p \in r.today : p.state = "ACTIVE"
  <2>0. r.op \notin PlanAction
    BY <1>5 DEF PlanAction
  <2>1. PICK m \in r.today : P = MovedTo(prior, m, "WRAPPED")
    BY <1>5, <2>0 DEF PlansAfter
  <2>2. m.date = 1 /\ m \in PlanRow /\ m \in KnownPlans /\ "WRAPPED" \in PlanState
    BY <1>1, <1>2 DEF PlanAllowed, PlanState
  <2>3. Moves(r) = {m.date}
    BY <1>5, <2>0, <2>2 DEF Moves
  <2>4. Follows(P, prior, {m.date})
    BY <1>2, <1>3, <2>1, <2>2, PlanMoved
  <2>. QED
    BY <1>1, <2>3, <2>4
<1>6. CASE r.op \notin PlanAction /\ ~(r.op = "wrapup" /\ \E p \in r.today : p.state = "ACTIVE")
  <2>1. P = prior
    BY <1>6 DEF PlansAfter
  <2>. QED
    BY <1>1, <1>2, <2>1 DEF Follows
<1>. QED
  BY <1>4, <1>5, <1>6

LEMMA PlanCommitKeeps == ASSUME WrappedInv, NEW q \in Planners, CommitRequest(q) PROVE WrappedInv'
<1> PICK r : r = asking[q]
  OBVIOUS
<1>0. /\ CloseRequest(q) /\ Asks(q) /\ plans' \in PlansAfter(r) /\ proposed' = Proposed(r)
      /\ collided' = (IF r.stale THEN collided \cup Touched(r) ELSE collided)
      /\ UNCHANGED <<work, discards, planRequests>>
  BY DEF CommitRequest, CloseRequest, Asks
<1>1. r \in RequestRow /\ PlanAllowed(r) /\ (~r.stale => PlanCurrent(r)) /\ r.loaded.plan \in PlanRow /\ r.loaded.new \in BOOLEAN
      /\ r.loaded.plan.date \in Touched(r) /\ Moves(r) \subseteq Touched(r) /\ r.stale \in BOOLEAN
  <2>1. r \in RequestRow /\ PlanAllowed(r) /\ (~r.stale => PlanCurrent(r)) /\ r.loaded \in LoadedRow
    BY <1>0 DEF WrappedInv, RequestRow
  <2>2. r.loaded.plan \in PlanRow /\ r.loaded.new \in BOOLEAN /\ r.stale \in BOOLEAN /\ r.loaded.plan.date \in Dates
    BY <2>1 DEF RequestRow, LoadedRow, PlanRow
  <2>3. Moves(r) \subseteq Touched(r)
    BY DEF Moves, Touched, Dates, PlanAction
  <2>. QED
    BY <2>1, <2>2, <2>3 DEF Touched
<1>2. Follows(plans', PlanRows(r), Moves(r))
  BY <1>0, PlanAfter
<1>3. PICK placed \in SUBSET {t \in WorkItems : r.work[t] = "open"}, late \in SUBSET r.loaded.blocks :
          /\ (Syncs(r) /\ ~r.plans /\ ~r.loaded.new) => Timeline(Changed(r, late)) \subseteq Timeline(blocks)
          /\ blocks' = BlocksAfter(r, placed, late)
  BY DEF CommitRequest
<1>4. /\ blocks' \subseteq BlockRow
      /\ \A i : i # r.loaded.plan.id => {b \in blocks' : b.plan = i} = {b \in blocks : b.plan = i}
      /\ (~r.plans /\ ~r.loaded.new) => \A i : Timeline({b \in blocks' : b.plan = i}) = Timeline({b \in blocks : b.plan = i})
  <2>1. placed \in SUBSET WorkItems
    OBVIOUS
  <2>2. Checked(r, late)
    BY <1>3 DEF Checked
  <2>3. OwnBlocks(r, blocks')
    BY <1>1, <1>3, <2>1, <2>2, PlanBlocks
  <2>. QED
    BY <2>3 DEF OwnBlocks
<1>5. \A p \in PlanRows(r) : p \in plans \/ (p = r.loaded.plan /\ r.loaded.new)
  BY DEF PlanRows
<1>6. plans \subseteq PlanRows(r) /\ plans \subseteq PlanRow /\ plans' \subseteq PlanRow
  BY <1>2 DEF PlanRows, WrappedInv, Follows
\* The other dates.
<1>7. ASSUME NEW d, d \notin Moves(r), r.loaded.plan.date = d => ~r.loaded.new PROVE PlansOf(d)' = PlansOf(d)
  <2>1. ASSUME NEW p \in plans', p.date = d PROVE p \in plans
    <3>1. PICK o \in PlanRows(r) : p.date = o.date /\ (o.date \notin Moves(r) => p = o)
      BY <1>2 DEF Follows
    <3>. QED
      BY <1>5, <1>7, <2>1, <3>1
  <2>2. ASSUME NEW o \in plans, o.date = d PROVE o \in plans'
    BY <1>2, <1>6, <1>7, <2>2 DEF Follows
  <2>. QED
    BY <2>1, <2>2 DEF PlansOf
<1>8. \A d : d \notin Touched(r) => PlansOf(d)' = PlansOf(d)
  BY <1>1, <1>7
\* The requests that stay.
<1>9. ASSUME NEW o \in Planners, Asks(o)'
      PROVE /\ Asks(o) /\ asking'[o].loaded = asking[o].loaded /\ asking'[o].today = asking[o].today
            /\ asking'[o] \in RequestRow /\ PlanAllowed(asking'[o]) /\ (~asking'[o].stale => PlanCurrent(asking[o])')
  <2>1. o # q /\ Asks(o)
    BY <1>0, <1>9, PlanCloses
  <2>2. /\ asking'[o] \in RequestRow /\ asking'[o].op = asking[o].op /\ asking'[o].loaded = asking[o].loaded
        /\ asking'[o].today = asking[o].today /\ asking'[o].plans = asking[o].plans
        /\ ~asking'[o].stale => ~asking[o].stale /\ Touched(asking[o]) \cap Touched(r) = {}
    BY <1>0, <2>1, PlanCloses
  <2>3. PlanAllowed(asking[o]) /\ asking[o] \in RequestRow
    BY <2>1 DEF WrappedInv
  <2>4. PlanAllowed(asking'[o])
    BY <2>2, <2>3 DEF PlanAllowed
  <2>5. ASSUME ~asking'[o].stale PROVE PlanCurrent(asking[o])'
    <3>1. PlanCurrent(asking[o]) /\ Touched(asking[o]) \cap Touched(r) = {}
      BY <2>1, <2>2, <2>5 DEF WrappedInv
    <3>2. asking[o].loaded.plan.date \in Touched(asking[o]) /\ (asking[o].op = "wrapup" => 1 \in Touched(asking[o]))
      BY <2>3 DEF Touched, RequestRow, LoadedRow, PlanRow, Dates
    <3>3. PlansOf(asking[o].loaded.plan.date)' = PlansOf(asking[o].loaded.plan.date)'
      OBVIOUS
    <3>4. \A d : d = asking[o].loaded.plan.date => PlansOf(d)' = PlansOf(d)
      BY <1>8, <3>1, <3>2
    <3>5. asking[o].op = "wrapup" => PlansOf(1)' = PlansOf(1)
      BY <1>8, <3>1, <3>2
    <3>6. ASSUME asking[o].loaded.plan \in plans PROVE asking[o].loaded.plan \in plans'
      <4> PICK d : d = asking[o].loaded.plan.date
        OBVIOUS
      <4>1. asking[o].loaded.plan \in PlansOf(d)
        BY <3>6 DEF PlansOf
      <4>2. asking[o].loaded.plan \in PlansOf(d)'
        BY <3>4, <4>1
      <4>. QED
        BY <4>2 DEF PlansOf
    <3>7. asking[o].loaded.new => {p \in plans' : p.date = asking[o].loaded.plan.date} = {}
      <4> PICK d : d = asking[o].loaded.plan.date
        OBVIOUS
      <4>1. asking[o].loaded.new => PlansOf(d)' = {}
        BY <3>1, <3>4 DEF PlanCurrent
      <4>. QED
        BY <4>1 DEF PlansOf
    <3>8. asking[o].op = "wrapup" => asking[o].today = {p \in plans' : p.date = 1}
      BY <3>1, <3>5 DEF PlanCurrent, PlansOf
    <3>. QED
      BY <2>2, <3>1, <3>6, <3>7, <3>8 DEF PlanCurrent, PlansOf
  <2>. QED
    BY <2>1, <2>2, <2>4, <2>5
<1>10. ASSUME NEW p \in KnownPlans' PROVE \E o \in KnownPlans : p.id = o.id /\ p.date = o.date
  <2>1. CASE p \in plans'
    <3>1. PICK o \in PlanRows(r) : p.id = o.id /\ p.date = o.date
      BY <1>2, <2>1 DEF Follows
    <3>2. o \in KnownPlans
      BY <1>0, <1>5 DEF KnownPlans
    <3>. QED
      BY <3>1, <3>2
  <2>2. CASE p \notin plans'
    <3>1. PICK o \in Planners : Asks(o)' /\ (p = asking'[o].loaded.plan \/ p \in asking'[o].today)
      BY <2>2 DEF KnownPlans
    <3>2. p \in KnownPlans
      BY <1>9, <3>1 DEF KnownPlans
    <3>. QED
      BY <3>2
  <2>. QED
    BY <2>1, <2>2
<1>11. \A p \in KnownPlans' : p.id <= planRequests'
  BY <1>0, <1>10 DEF WrappedInv
<1>12. ASSUME NEW p \in KnownPlans', NEW o \in KnownPlans', p.id = o.id PROVE p.date = o.date
  <2>1. PICK x \in KnownPlans : p.id = x.id /\ p.date = x.date
    BY <1>10
  <2>2. PICK y \in KnownPlans : o.id = y.id /\ o.date = y.date
    BY <1>10
  <2>. QED
    BY <1>12, <2>1, <2>2 DEF WrappedInv
\* One plan a date.
<1>13. ASSUME NEW d \in Dates \ collided' PROVE d \notin collided /\ (d \in Touched(r) => PlanCurrent(r))
  BY <1>0, <1>1, <1>13
<1>14. ASSUME NEW d \in Dates \ collided' PROVE \A p, o \in PlansOf(d)' : p = o
  <2>1. \A a, b \in PlansOf(d) : a = b
    BY <1>13, <1>14 DEF WrappedInv
  <2>2. \A a, b \in PlanRows(r) : a.date = d /\ b.date = d => a = b
    <3>1. CASE r.loaded.new /\ r.loaded.plan.date = d
      <4>1. PlansOf(d) = {}
        BY <1>1, <1>13, <1>14, <3>1 DEF PlanCurrent
      <4>. QED
        BY <1>5, <4>1 DEF PlansOf
    <3>2. CASE ~(r.loaded.new /\ r.loaded.plan.date = d)
      BY <1>5, <2>1, <3>2 DEF PlansOf
    <3>. QED
      BY <3>1, <3>2
  <2>3. \A a, b \in plans' : a.date = d /\ b.date = d => a = b
    BY <1>2, <2>2 DEF Follows
  <2>. QED
    BY <2>3 DEF PlansOf
<1>15. closed' = [x \in Dates |->
          IF \E p \in plans' : p.date = x /\ p.state = "WRAPPED" /\ ~closed[x].wrapped
          THEN [wrapped |-> TRUE, timeline |-> Timeline({b \in blocks' : \E p \in plans' : p.date = x /\ p.id = b.plan})]
          ELSE closed[x]]
  BY DEF CommitRequest
<1>16. ASSUME NEW d \in Dates, closed'[d].wrapped PROVE PlansOf(d)' # {}
  <2>1. CASE \E p \in plans' : p.date = d
    BY <2>1 DEF PlansOf
  <2>2. CASE ~\E p \in plans' : p.date = d
    <3>1. closed'[d] = closed[d]
      BY <1>15, <2>2
    <3>2. PICK o \in plans : o.date = d
      BY <1>16, <3>1 DEF WrappedInv, PlansOf
    <3>. QED
      BY <1>2, <1>6, <2>2, <3>2 DEF Follows
  <2>. QED
    BY <2>1, <2>2
\* A wrapped day.
<1>17. ASSUME NEW d \in Dates, closed'[d].wrapped, d \notin collided', NEW p \in plans', p.date = d
       PROVE p.state = "WRAPPED" /\ Timeline({b \in blocks' : b.plan = p.id}) = closed'[d].timeline
  <2>0. \A a \in plans' : a.date = d => a = p
    BY <1>14, <1>17 DEF PlansOf
  <2>1. CASE \E a \in plans' : a.date = d /\ a.state = "WRAPPED" /\ ~closed[d].wrapped
    <3>1. p.state = "WRAPPED"
      BY <2>0, <2>1
    <3>2. closed'[d].timeline = Timeline({b \in blocks' : \E a \in plans' : a.date = d /\ a.id = b.plan})
      BY <1>15, <2>1
    <3>3. {b \in blocks' : \E a \in plans' : a.date = d /\ a.id = b.plan} = {b \in blocks' : b.plan = p.id}
      BY <1>17, <2>0
    <3>. QED
      BY <3>1, <3>2, <3>3
  <2>2. CASE ~\E a \in plans' : a.date = d /\ a.state = "WRAPPED" /\ ~closed[d].wrapped
    <3>1. closed'[d] = closed[d] /\ closed[d].wrapped /\ d \notin collided
      BY <1>13, <1>15, <1>17, <2>2
    <3>2. \A o \in PlansOf(d) : o.state = "WRAPPED" /\ Timeline({b \in blocks : b.plan = o.id}) = closed[d].timeline
      BY <3>1 DEF WrappedInv, WrappedDayKept, BlocksOf
    <3>3. PlansOf(d) # {}
      BY <3>1 DEF WrappedInv
    <3>4. r.loaded.plan.date = d => ~r.loaded.new /\ r.loaded.plan \in PlansOf(d)
      BY <1>1, <1>13, <1>17, <3>3 DEF PlanCurrent, PlansOf
    <3>5. d \notin Moves(r)
      <4>1. ASSUME r.op \in PlanAction, r.loaded.plan.date = d PROVE FALSE
        <5>1. r.loaded.plan.state = "WRAPPED" /\ NextStates(r.loaded.plan.state, r.op) # {}
          BY <1>1, <3>2, <3>4, <4>1 DEF PlanAllowed
        <5>. QED
          BY <5>1 DEF NextStates, Transitions
      <4>2. ASSUME r.op = "wrapup", d = 1, NEW a \in r.today, a.state = "ACTIVE" PROVE FALSE
        <5>1. 1 \in Touched(r)
          BY <4>2 DEF Touched, Dates
        <5>2. PlanCurrent(r)
          BY <1>13, <1>17, <4>2, <5>1
        <5>3. a \in PlansOf(d)
          BY <4>2, <5>2 DEF PlanCurrent
        <5>. QED
          BY <3>2, <4>2, <5>3
      <4>. QED
        BY <4>1, <4>2 DEF Moves
    <3>6. PlansOf(d)' = PlansOf(d)
      BY <1>7, <3>4, <3>5
    <3>7. p \in PlansOf(d)
      BY <1>17, <3>6 DEF PlansOf
    <3>8. Timeline({b \in blocks' : b.plan = p.id}) = Timeline({b \in blocks : b.plan = p.id})
      <4>1. CASE p.id # r.loaded.plan.id
        BY <1>4, <4>1
      <4>2. CASE p.id = r.loaded.plan.id
        <5>1. p \in KnownPlans /\ r.loaded.plan \in KnownPlans
          BY <1>0, <3>7 DEF KnownPlans, PlansOf
        <5>2. r.loaded.plan.date = d
          BY <1>17, <4>2, <5>1 DEF WrappedInv
        <5>3. r.loaded.plan.state = "WRAPPED" /\ ~r.loaded.new
          BY <3>2, <3>4, <5>2
        <5>4. ~r.plans
          BY <1>1, <5>3 DEF PlanAllowed, Replannable
        <5>. QED
          BY <1>4, <5>3, <5>4
      <4>. QED
        BY <4>1, <4>2
    <3>. QED
      BY <3>1, <3>2, <3>7, <3>8
  <2>. QED
    BY <2>1, <2>2
<1>18. WrappedDayKept'
  BY <1>17 DEF WrappedDayKept, PlansOf, BlocksOf
<1>19. proposed' \subseteq SUBSET WorkItems
  BY <1>0 DEF Proposed, Signature, WrappedInv
<1>20. DOMAIN asking' = Planners /\ DOMAIN closed' = Dates /\ work' \in [WorkItems -> WorkStatus] /\ discards' \in Seq(SUBSET WorkItems)
       /\ planRequests' \in Nat
  BY <1>0, <1>15, PlanCloses DEF WrappedInv
<1>. QED
  BY <1>4, <1>6, <1>9, <1>11, <1>12, <1>14, <1>16, <1>18, <1>19, <1>20 DEF WrappedInv

LEMMA WrappedStepInv == WrappedInv /\ PlanNext => WrappedInv'
BY PlanOpenKeeps, PlanCommitKeeps, PlanQuietSteps DEF PlanNext

--------------------------------------------------------------------------------
(* The machines a page is fetched from, and what its outline leaves out (PageInputs) *)

HopShape == DOMAIN hop = {"at", "count", "bytes", "ips"} /\ hop.count \in Nat

\* A hop's address was checked before its name is resolved, and what the name resolves to
\* before it is connected to; there is a connection for each redirect that was followed.
FetchInv ==
    /\ (\E S : met \in Seq(S)) /\ HopShape /\ hop.count <= MAX_REDIRECTS
    /\ step = "idle" => hop.count = 0
    /\ step \in {"idle", "resolve", "connect"} => Len(met) = hop.count
    /\ step \in {"resolve", "connect"} => hop.at \in WellFormed
    /\ step = "connect" => hop.ips # <<>> /\ ToSet(hop.ips) \subseteq PublicIps
    /\ OnlyCheckedMachines

LEMMA FetchInitInv == PageInit => FetchInv
<1> SUFFICES ASSUME PageInit PROVE FetchInv
  OBVIOUS
<1>1. met \in Seq({}) /\ Len(met) = 0 /\ DOMAIN met = {} /\ step = "idle"
  BY DEF PageInit
<1>3. hop = [at |-> CHOOSE u \in PageUrls : TRUE, count |-> 0, bytes |-> 0, ips |-> <<>>]
  BY DEF PageInit
<1>4. HopShape /\ hop.count = 0
  BY <1>3 DEF HopShape
<1>. QED
  BY <1>1, <1>4, InputsAssumption DEF FetchInv, OnlyCheckedMachines

LEMMA FetchStutters == FetchInv /\ UNCHANGED <<step, hop, met>> => FetchInv'
BY DEF FetchInv, HopShape, OnlyCheckedMachines

\* What is neither resolved nor connected to any more is as it was.
LEMMA FetchGoesOn ==
    ASSUME FetchInv, step' \notin {"idle", "resolve", "connect"}, UNCHANGED <<hop, met>>
    PROVE  FetchInv'
BY DEF FetchInv, HopShape, OnlyCheckedMachines

LEMMA UrlFetched == ASSUME FetchInv, NEW url \in PageUrls, FetchUrl(url) PROVE FetchInv'
<1>1. hop' = [hop EXCEPT !.at = url] /\ met' = met /\ step = "idle"
  BY DEF FetchUrl
<1>2. HopShape' /\ hop'.count = hop.count /\ hop'.at = url
  BY <1>1 DEF FetchInv, HopShape
<1>3. step' \in {"resolve", "refused"} /\ (step' = "resolve" => url \in WellFormed)
  BY DEF FetchUrl, CheckUrl
<1>. QED
  BY <1>1, <1>2, <1>3 DEF FetchInv, OnlyCheckedMachines

LEMMA NameResolved == ASSUME FetchInv, NEW a \in Ips, NEW b \in Ips, ResolveName(<<a, b>>) PROVE FetchInv'
<1>1. CASE ~AllPublic(<<a, b>>)
  BY <1>1, FetchGoesOn DEF ResolveName, RefuseInput
<1>2. CASE AllPublic(<<a, b>>)
  <2> PICK ips : ips = <<a, b>>
    OBVIOUS
  <2>1. step = "resolve" /\ step' = "connect" /\ hop' = [hop EXCEPT !.ips = ips] /\ met' = met
    BY <1>2 DEF ResolveName
  <2>2. ips # <<>> /\ ToSet(ips) \subseteq PublicIps
    BY <1>2 DEF AllPublic
  <2>3. HopShape' /\ hop'.count = hop.count /\ hop'.at = hop.at /\ hop'.ips = ips
    BY <2>1, <2>2 DEF FetchInv, HopShape
  <2>. QED
    BY <2>1, <2>2, <2>3 DEF FetchInv, OnlyCheckedMachines
<1>. QED
  BY <1>1, <1>2

\* A connection is one more, to addresses that were checked.
LEMMA HopConnected ==
    ASSUME FetchInv, step = "connect", ConnectTo
    PROVE  (\E S : met' \in Seq(S)) /\ Len(met') = hop.count + 1 /\ OnlyCheckedMachines'
<1> PICK c : c = [url |-> hop.at, ip |-> hop.ips[1], answers |-> ToSet(hop.ips)]
  OBVIOUS
<1>1. met' = Append(met, c)
  BY DEF ConnectTo
<1>2. PICK S : met \in Seq(S)
  BY DEF FetchInv
<1>3. c.url \in WellFormed /\ c.answers \subseteq PublicIps
  BY DEF FetchInv
<1>4. met' \in Seq(S \cup {c})
  <2>1. met \in Seq(S \cup {c})
    BY <1>2
  <2>. QED
    BY <1>1, <2>1
<1>5. Len(met) \in Nat /\ Len(met) = hop.count /\ hop.count <= MAX_REDIRECTS /\ MAX_REDIRECTS \in Nat
  BY <1>2, InputsAssumption DEF FetchInv
<1>6. Len(met') = Len(met) + 1 /\ DOMAIN met' = 1..(Len(met) + 1)
      /\ \A i \in DOMAIN met' : met'[i] = c \/ (i \in DOMAIN met /\ met'[i] = met[i])
  BY <1>1, <1>2
<1>7. \A i \in DOMAIN met' : met'[i].url \in WellFormed /\ met'[i].answers \subseteq PublicIps
  BY <1>3, <1>6 DEF FetchInv, OnlyCheckedMachines
<1>8. Len(met') <= MAX_REDIRECTS + 1
  BY <1>5, <1>6
<1>. QED
  BY <1>4, <1>5, <1>6, <1>7, <1>8 DEF OnlyCheckedMachines

LEMMA HopsOn == ASSUME FetchInv, NEW url \in PageUrls, Redirected(url) PROVE FetchInv'
<1>0. (\E S : met' \in Seq(S)) /\ Len(met') = hop.count + 1 /\ OnlyCheckedMachines'
  BY HopConnected DEF Redirected
<1>1. CASE hop.count = MAX_REDIRECTS
  <2>1. step' = "refused" /\ hop' = hop
    BY <1>1 DEF Redirected
  <2>. QED
    BY <1>0, <2>1 DEF FetchInv, HopShape
<1>2. CASE hop.count # MAX_REDIRECTS
  <2>1. step' = CheckUrl(url) /\ hop' = [hop EXCEPT !.at = url, !.count = @ + 1]
    BY <1>2 DEF Redirected, AfterRedirect
  <2>2. hop.count \in Nat /\ hop.count + 1 <= MAX_REDIRECTS
    BY <1>2, InputsAssumption DEF FetchInv, HopShape
  <2>3. HopShape' /\ hop'.count = hop.count + 1 /\ hop'.at = url
    BY <2>1, <2>2 DEF FetchInv, HopShape
  <2>4. step' \in {"resolve", "refused"} /\ (step' = "resolve" => url \in WellFormed)
    BY <2>1 DEF CheckUrl
  <2>. QED
    BY <1>0, <2>2, <2>3, <2>4 DEF FetchInv
<1>. QED
  BY <1>1, <1>2

LEMMA FetchOver == ASSUME FetchInv, FetchFails \/ PageComes PROVE FetchInv'
<1>1. (\E S : met' \in Seq(S)) /\ OnlyCheckedMachines'
  BY HopConnected DEF FetchFails, PageComes
<1>2. step' \in {"refused", "read"} /\ hop' = hop
  BY DEF FetchFails, PageComes
<1>. QED
  BY <1>1, <1>2 DEF FetchInv, HopShape

LEMMA ChunkRead == ASSUME FetchInv, NEW late, Chunk(late) PROVE FetchInv'
<1>1. CASE step' = "refused" /\ UNCHANGED <<hop, met>>
  BY <1>1, FetchGoesOn
<1>2. CASE step = "read" /\ hop' = [hop EXCEPT !.bytes = @ + 1] /\ UNCHANGED <<step, met>>
  <2>1. HopShape' /\ hop'.count = hop.count
    BY <1>2 DEF FetchInv, HopShape
  <2>. QED
    BY <1>2, <2>1 DEF FetchInv, OnlyCheckedMachines
<1>. QED
  BY <1>1, <1>2 DEF Chunk, RefuseInput

LEMMA FetchStepInv == FetchInv /\ PageNext => FetchInv'
<1> SUFFICES ASSUME FetchInv, PageNext PROVE FetchInv'
  OBVIOUS
<1>1. CASE \E url \in PageUrls : FetchUrl(url) \/ Redirected(url)
  BY <1>1, UrlFetched, HopsOn
<1>2. CASE FetchFails \/ PageComes
  BY <1>2, FetchOver
<1>3. CASE \E a, b \in Ips : ResolveName(<<a, b>>)
  BY <1>3, NameResolved
<1>4. CASE \E late \in BOOLEAN : Chunk(late)
  BY <1>4, ChunkRead
<1>5. CASE (\E type \in {"html", "plain"} : BodyRead(type))
           \/ (\E type \in {"docx", "plain"}, fit \in BOOLEAN : Extract(type, fit)) \/ EndOfFile \/ FinishText
  <2>1. step' \notin {"idle", "resolve", "connect"} /\ UNCHANGED <<hop, met>>
    BY <1>5 DEF BodyRead, Extract, EndOfFile, FinishText, GoTo, RefuseInput
  <2>. QED
    BY <2>1, FetchGoesOn
<1>6. CASE (\E tag \in Tags : StartTag(tag) \/ EndTag(tag)) \/ Data
           \/ (\E level \in 0..2, depth \in 0..1 : Paragraph(level, depth))
           \/ (\E l \in TextLines : ReadLine(l))
  <2>1. UNCHANGED <<step, hop, met>>
    BY <1>6 DEF StartTag, EndTag, Data, Paragraph, ReadLine
  <2>. QED
    BY <2>1, FetchStutters
<1>7. CASE WrapLine
  <2>1. UNCHANGED <<step, hop, met>>
    BY <1>7 DEF WrapLine
  <2>. QED
    BY <2>1, FetchStutters
<1>8. CASE ClosePage
  <2>1. step' \notin {"idle", "resolve", "connect"} /\ UNCHANGED <<hop, met>>
    BY <1>8 DEF ClosePage
  <2>. QED
    BY <2>1, FetchGoesOn
<1>. QED
  BY <1>1, <1>2, <1>3, <1>4, <1>5, <1>6, <1>7, <1>8 DEF PageNext

--------------------------------------------------------------------------------
(* What becomes of a page's elements (PageInputs) *)

OutlineShape ==
    /\ DOMAIN outline = {"skip", "heading", "depth", "indent", "buffer", "fresh", "given"}
    /\ {outline.skip, outline.heading, outline.depth, outline.indent} \subseteq Nat
    /\ outline.buffer \in Seq(BOOLEAN)
LinesShape == \E S : unwrapped \in Seq(S) /\ \A l \in S : "said" \in DOMAIN l
NestingShape == DOMAIN nesting = {"open", "stray"} /\ nesting.stray \in BOOLEAN /\ nesting.open \in Seq(Tags)

\* Where elements that are skipped are open.
SkippedAt(open) == {i \in 1..Len(open) : open[i] \in SkipTags}

\* While elements close as they were opened, as many are skipped as are counted at most, and
\* nothing of one waits for its line; text waits on the level under its heading.
OutlineInv ==
    /\ LinesShape /\ OutlineShape /\ NestingShape
    /\ step \in {"idle", "resolve", "connect", "read"} => outline = NoOutline /\ unwrapped = <<>>
    /\ (step = "html" /\ outline.fresh) => outline.indent = BodyIndent(outline)
    /\ ~nesting.stray => /\ Cardinality(SkippedAt(nesting.open)) <= outline.skip
                         /\ TRUE \notin ToSet(outline.buffer)
    /\ OutlineNests /\ SkippedStaysOut

LEMMA NothingSkipped == SkippedAt(<<>>) = {} /\ Cardinality(SkippedAt(<<>>)) = 0
<1>1. SkippedAt(<<>>) = {}
  BY DEF SkippedAt
<1>. QED
  BY <1>1, FS_EmptySet

LEMMA OutlineInitInv == PageInit => OutlineInv
<1> SUFFICES ASSUME PageInit PROVE OutlineInv
  OBVIOUS
<1>1. unwrapped = <<>> /\ outline = NoOutline /\ step = "idle" /\ nesting = [open |-> <<>>, stray |-> FALSE]
  BY DEF PageInit
<1>2. OutlineShape /\ ToSet(outline.buffer) = {}
  BY <1>1 DEF OutlineShape, NoOutline, ToSet
<1>3. NestingShape /\ nesting.open = <<>>
  BY <1>1 DEF NestingShape
<1>4. unwrapped \in Seq({}) /\ DOMAIN unwrapped = {}
  BY <1>1
<1>5. LinesShape
  BY <1>4 DEF LinesShape
<1>. QED
  BY <1>1, <1>2, <1>3, <1>4, <1>5, NothingSkipped DEF OutlineInv, OutlineNests, SkippedStaysOut, OutlineShape

LEMMA OutlineStutters == OutlineInv /\ UNCHANGED <<step, outline, unwrapped, nesting>> => OutlineInv'
BY DEF OutlineInv, OutlineShape, NestingShape, OutlineNests, SkippedStaysOut, BodyIndent, SkippedAt, BodyLevel, LinesShape

\* What reads nothing leaves outline and lines as they are.
LEMMA OutlineGoesOn ==
    ASSUME OutlineInv, UNCHANGED <<outline, unwrapped, nesting>>,
           \/ step' \in {"resolve", "connect", "read"} /\ step \in {"idle", "resolve", "connect", "read"}
           \/ step' \in {"html", "docx"} /\ step \in {"idle", "read"}
           \/ step' \in {"plain", "wrap", "done", "refused"}
    PROVE  OutlineInv'
<1>1. OutlineShape' /\ NestingShape' /\ LinesShape'
  BY DEF OutlineInv, OutlineShape, NestingShape, LinesShape
<1>2. step' = "html" => outline = NoOutline
  BY DEF OutlineInv
<1>3. step' \in {"html", "docx"} => DOMAIN unwrapped = {}
  BY DEF OutlineInv
<1>4. OutlineNests'
  BY <1>3 DEF OutlineNests
<1>5. SkippedStaysOut' /\ SkippedAt(nesting.open)' = SkippedAt(nesting.open)
  BY DEF OutlineInv, SkippedStaysOut, SkippedAt
<1>6. (step' = "html" /\ outline'.fresh) => outline'.indent = BodyIndent(outline')
  BY <1>2 DEF NoOutline, BodyIndent
<1>. QED
  BY <1>1, <1>4, <1>5, <1>6 DEF OutlineInv

\* One more line on its level, with nothing in it that is skipped.
LEMMA LineAdded ==
    ASSUME OutlineInv, NEW l, "said" \in DOMAIN l, step \in {"html", "docx"} \/ step' \notin {"html", "docx"},
           l.fresh /\ step' \in {"html", "docx"} => l.indent >= 2 * BodyLevel(l),
           ~nesting'.stray => TRUE \notin ToSet(l.said) /\ ~nesting.stray,
           unwrapped' = Append(unwrapped, l)
    PROVE  LinesShape' /\ OutlineNests' /\ SkippedStaysOut'
<1>1. PICK S : unwrapped \in Seq(S) /\ \A o \in S : "said" \in DOMAIN o
  BY DEF OutlineInv, LinesShape
<1> DEFINE T == S \cup {l}
<1>2. unwrapped \in Seq(T) /\ l \in T /\ \A o \in T : "said" \in DOMAIN o
  BY <1>1
<1> HIDE DEF T
<1>3. /\ unwrapped' \in Seq(T) /\ Len(unwrapped') = Len(unwrapped) + 1 /\ Len(unwrapped) \in Nat
      /\ \A i \in 1..Len(unwrapped) : unwrapped'[i] = unwrapped[i]
      /\ unwrapped'[Len(unwrapped) + 1] = l
  BY <1>2
<1>4. \A i \in DOMAIN unwrapped' : unwrapped'[i] = l \/ (i \in DOMAIN unwrapped /\ unwrapped'[i] = unwrapped[i])
  BY <1>2, <1>3
<1>5. OutlineNests'
  <2> SUFFICES ASSUME NEW i \in DOMAIN unwrapped', unwrapped'[i].fresh, step' \in {"html", "docx"}
               PROVE  unwrapped'[i].indent >= 2 * BodyLevel(unwrapped'[i])
    BY DEF OutlineNests, BodyLevel
  <2>1. CASE unwrapped'[i] = l
    BY <2>1
  <2>2. CASE i \in DOMAIN unwrapped /\ unwrapped'[i] = unwrapped[i]
    BY <2>2 DEF OutlineInv, OutlineNests
  <2>. QED
    BY <1>4, <2>1, <2>2
<1>6. SkippedStaysOut'
  BY <1>4 DEF OutlineInv, SkippedStaysOut
<1>. QED
  BY <1>2, <1>3, <1>5, <1>6 DEF LinesShape

\* What waits is a line on its level.
LEMMA LineFlushed ==
    ASSUME OutlineInv, step = "html", unwrapped' = FlushTo, ~nesting'.stray => ~nesting.stray
    PROVE  LinesShape' /\ OutlineNests' /\ SkippedStaysOut'
<1>1. CASE outline.buffer = <<>>
  BY <1>1 DEF OutlineInv, FlushTo, OutlineNests, SkippedStaysOut, BodyLevel, LinesShape
<1>2. CASE outline.buffer # <<>>
  <2>1. PICK l : l = OutlineLine(outline)
    OBVIOUS
  <2>2. /\ l.said = outline.buffer /\ l.fresh = outline.fresh /\ l.indent = 2 * outline.indent
        /\ l.heading = outline.heading /\ l.depth = outline.depth /\ "said" \in DOMAIN l
    BY <2>1 DEF OutlineLine
  <2>3. BodyLevel(l) = BodyIndent(outline)
    BY <2>2 DEF BodyLevel, BodyIndent
  <2>4. outline.fresh => outline.indent = BodyIndent(outline) /\ outline.indent \in Nat
    BY DEF OutlineInv, OutlineShape
  <2>5. l.fresh => l.indent >= 2 * BodyLevel(l)
    BY <2>2, <2>3, <2>4
  <2>6. ~nesting'.stray => TRUE \notin ToSet(l.said)
    BY <2>2 DEF OutlineInv
  <2>7. unwrapped' = Append(unwrapped, l)
    BY <1>2, <2>1 DEF FlushTo
  <2>. QED
    BY <2>2, <2>5, <2>6, <2>7, LineAdded
<1>. QED
  BY <1>1, <1>2

\* An element that opens is one more, and skipped or not.
LEMMA ElementOpened ==
    ASSUME NEW s \in Seq(Tags), NEW tag \in Tags
    PROVE  /\ tag \in SkipTags => Cardinality(SkippedAt(Append(s, tag))) = Cardinality(SkippedAt(s)) + 1
           /\ tag \notin SkipTags => SkippedAt(Append(s, tag)) = SkippedAt(s)
           /\ Cardinality(SkippedAt(s)) \in Nat
<1>1. SkippedAt(Append(s, tag)) = IF tag \in SkipTags THEN SkippedAt(s) \cup {Len(s) + 1} ELSE SkippedAt(s)
  BY DEF SkippedAt
<1>2. IsFiniteSet(1..Len(s)) /\ SkippedAt(s) \subseteq 1..Len(s) /\ Len(s) + 1 \notin 1..Len(s)
  BY FS_Interval DEF SkippedAt
<1>3. IsFiniteSet(SkippedAt(s))
  BY <1>2, FS_Subset
<1>4. Cardinality(SkippedAt(s)) \in Nat
  BY <1>3, FS_CardinalityType
<1>5. Cardinality(SkippedAt(s) \cup {Len(s) + 1}) = Cardinality(SkippedAt(s)) + 1
  BY <1>2, <1>3, FS_AddElement
<1>. QED
  BY <1>1, <1>4, <1>5

\* One that closes is one less.
LEMMA ElementClosed ==
    ASSUME NEW s \in Seq(Tags), s # <<>>
    PROVE  /\ Front(s) \in Seq(Tags)
           /\ Last(s) \in SkipTags => Cardinality(SkippedAt(Front(s))) = Cardinality(SkippedAt(s)) - 1
                                      /\ Cardinality(SkippedAt(s)) \in Nat \ {0}
           /\ Last(s) \notin SkipTags => SkippedAt(Front(s)) = SkippedAt(s)
<1>1. /\ Front(s) \in Seq(Tags) /\ Last(s) \in Tags /\ s = Append(Front(s), Last(s))
  BY DEF Front, Last
<1>2. PICK f \in Seq(Tags) : f = Front(s)
  BY <1>1
<1>3. PICK t \in Tags : t = Last(s)
  BY <1>1
<1>4. s = Append(f, t)
  BY <1>1, <1>2, <1>3
<1>. QED
  BY <1>2, <1>3, <1>4, ElementOpened

\* Nothing is open that is skipped unless it is counted.
LEMMA UncountedOpen ==
    ASSUME OutlineInv, ~nesting.stray, outline.skip = 0
    PROVE  ToSet(nesting.open) \cap SkipTags = {}
<1>1. nesting.open \in Seq(Tags)
  BY DEF OutlineInv, NestingShape
<1>2. IsFiniteSet(1..Len(nesting.open)) /\ SkippedAt(nesting.open) \subseteq 1..Len(nesting.open)
  BY <1>1, FS_Interval DEF SkippedAt
<1>3. IsFiniteSet(SkippedAt(nesting.open))
  BY <1>2, FS_Subset
<1>4. Cardinality(SkippedAt(nesting.open)) \in Nat /\ Cardinality(SkippedAt(nesting.open)) <= 0
  BY <1>3, FS_CardinalityType DEF OutlineInv
<1>5. SkippedAt(nesting.open) = {}
  BY <1>3, <1>4, FS_EmptySet
<1>. QED
  BY <1>1, <1>5 DEF SkippedAt, ToSet

\* A heading has a level.
LEMMA LevelOf == \A tag \in Headings : Level[tag] \in 1..6
<1>1. Level \in [Headings -> 1..6]
  BY InputsAssumption DEF Level
<1>. QED
  BY <1>1

\* Text is put on the level under its heading.
LEMMA ReadIndented ==
    ASSUME NEW o, DOMAIN o = {"skip", "heading", "depth", "indent", "buffer", "fresh", "given"},
           {o.skip, o.heading, o.depth} \subseteq Nat, o.buffer = <<>>,
           outline' = Indented(o)
    PROVE  /\ OutlineShape' /\ outline'.buffer = <<>> /\ outline'.skip = o.skip
           /\ outline'.fresh => outline'.indent = BodyIndent(outline')
<1>1. BodyIndent(o) \in Nat
  BY DEF BodyIndent
<1>2. /\ DOMAIN outline' = DOMAIN o /\ outline'.skip = o.skip /\ outline'.heading = o.heading
      /\ outline'.depth = o.depth /\ outline'.buffer = o.buffer /\ outline'.indent = BodyIndent(o)
  BY DEF Indented
<1>3. BodyIndent(outline') = BodyIndent(o)
  BY <1>2 DEF BodyIndent
<1>4. outline'.buffer = <<>> /\ {outline'.skip, outline'.heading, outline'.depth, outline'.indent} \subseteq Nat
  BY <1>1, <1>2
<1>5. <<>> \in Seq(BOOLEAN)
  OBVIOUS
<1>6. OutlineShape'
  BY <1>2, <1>4, <1>5 DEF OutlineShape
<1>. QED
  BY <1>2, <1>3, <1>6

LEMMA OpenCounted == \A s \in Seq(Tags), tag \in Tags : {Cardinality(SkippedAt(s)), Cardinality(SkippedAt(Append(s, tag)))} \subseteq Nat
<1> TAKE s \in Seq(Tags), tag \in Tags
<1>1. Append(s, tag) \in Seq(Tags)
  OBVIOUS
<1>. QED
  BY <1>1, ElementOpened

LEMMA StartKeeps == ASSUME OutlineInv, NEW tag \in Tags, StartTag(tag) PROVE OutlineInv'
<1>1. /\ step = "html" /\ step' = "html" /\ OutlineShape /\ NestingShape
      /\ outline.fresh => outline.indent = BodyIndent(outline)
  BY DEF StartTag, OutlineInv
<1>2. /\ NestingShape' /\ nesting'.stray = nesting.stray
      /\ nesting'.open \in {nesting.open, Append(nesting.open, tag)}
  BY <1>1 DEF StartTag, NestingShape
<1>3. nesting.open \in Seq(Tags) /\ outline.skip \in Nat
  BY <1>1 DEF NestingShape, OutlineShape
<1>4. /\ Cardinality(SkippedAt(nesting.open)) \in Nat
      /\ Cardinality(SkippedAt(nesting'.open)) <= Cardinality(SkippedAt(nesting.open)) + 1
      /\ tag \notin SkipTags => Cardinality(SkippedAt(nesting'.open)) = Cardinality(SkippedAt(nesting.open))
  <2>1. PICK s \in Seq(Tags) : s = nesting.open
    BY <1>3
  <2>2. /\ tag \in SkipTags => Cardinality(SkippedAt(Append(s, tag))) = Cardinality(SkippedAt(s)) + 1
        /\ tag \notin SkipTags => SkippedAt(Append(s, tag)) = SkippedAt(s)
        /\ Cardinality(SkippedAt(s)) \in Nat
    BY ElementOpened
  <2>3. CASE nesting'.open = s
    BY <2>1, <2>2, <2>3
  <2>4. CASE nesting'.open = Append(s, tag)
    BY <2>1, <2>2, <2>4
  <2>. QED
    BY <1>2, <2>1, <2>3, <2>4
<1>5. SkippedAt(nesting.open)' = SkippedAt(nesting'.open)
  BY DEF SkippedAt
<1>6. CASE tag \in SkipTags
  <2>1. outline' = [outline EXCEPT !.skip = @ + 1] /\ unwrapped' = unwrapped
    BY <1>6 DEF StartTag, SkipsMore
  <2>2. /\ OutlineShape' /\ outline'.skip = outline.skip + 1 /\ outline'.buffer = outline.buffer
        /\ outline'.fresh = outline.fresh /\ outline'.indent = outline.indent /\ BodyIndent(outline') = BodyIndent(outline)
    BY <1>1, <2>1 DEF OutlineShape, BodyIndent
  <2>3. OutlineNests' /\ SkippedStaysOut' /\ LinesShape'
    BY <2>1, <1>1, <1>2 DEF OutlineInv, OutlineNests, SkippedStaysOut, BodyLevel, LinesShape
  <2>4. ~nesting'.stray => Cardinality(SkippedAt(nesting'.open)) <= outline'.skip /\ TRUE \notin ToSet(outline'.buffer)
    <3>1. ~nesting.stray => Cardinality(SkippedAt(nesting.open)) <= outline.skip /\ TRUE \notin ToSet(outline.buffer)
      BY DEF OutlineInv
    <3>2. PICK c \in Nat : c = Cardinality(SkippedAt(nesting.open))
      BY <1>4
    <3>3. PICK d : d = Cardinality(SkippedAt(nesting'.open))
      OBVIOUS
    <3>4. d \in Nat
      BY <1>2, <1>3, <3>3, OpenCounted
    <3>5. c <= outline.skip => d <= outline'.skip
      BY <1>3, <1>4, <2>2, <3>2, <3>3, <3>4
    <3>. QED
      BY <1>2, <2>2, <3>1, <3>2, <3>3, <3>5
  <2>5. outline'.fresh => outline'.indent = BodyIndent(outline')
    BY <1>1, <2>2
  <2>. QED
    BY <1>1, <1>2, <1>5, <2>2, <2>3, <2>4, <2>5 DEF OutlineInv
<1>7. CASE tag \notin SkipTags /\ outline.skip > 0
  <2>1. outline' = outline /\ unwrapped' = unwrapped
    BY <1>7 DEF StartTag
  <2>2. OutlineShape' /\ OutlineNests' /\ SkippedStaysOut' /\ LinesShape'
    BY <2>1, <1>1, <1>2 DEF OutlineInv, OutlineNests, SkippedStaysOut, BodyLevel, OutlineShape, LinesShape
  <2>. QED
    BY <1>1, <1>2, <1>4, <1>5, <1>7, <2>1, <2>2 DEF OutlineInv
<1>8. CASE tag \notin SkipTags /\ ~(outline.skip > 0)
  <2>1. /\ unwrapped' = FlushTo
        /\ outline' = IF tag \in Headings
                      THEN [NoBuffer(outline) EXCEPT !.heading = Level[tag], !.indent = Level[tag] - 1, !.fresh = FALSE]
                      ELSE Indented(IF tag \in Lists THEN [NoBuffer(outline) EXCEPT !.depth = @ + 1]
                                    ELSE NoBuffer(outline))
    BY <1>8 DEF StartTag
  <2>2. /\ OutlineShape' /\ outline'.buffer = <<>> /\ outline'.skip = outline.skip
        /\ outline'.fresh => outline'.indent = BodyIndent(outline')
    <3>1. CASE tag \in Headings
      <4>1. Level[tag] \in 1..6
        BY <3>1, LevelOf
      <4>2. outline' = [NoBuffer(outline) EXCEPT !.heading = Level[tag], !.indent = Level[tag] - 1, !.fresh = FALSE]
        BY <2>1, <3>1
      <4>. QED
        BY <1>1, <4>1, <4>2 DEF OutlineShape, NoBuffer
    <3>2. CASE tag \notin Headings
      <4>1. PICK o : o = IF tag \in Lists THEN [NoBuffer(outline) EXCEPT !.depth = @ + 1] ELSE NoBuffer(outline)
        OBVIOUS
      <4>2. /\ DOMAIN o = DOMAIN outline /\ o.depth \in Nat /\ o.heading = outline.heading /\ o.buffer = <<>>
            /\ o.skip = outline.skip
        BY <1>1, <4>1 DEF NoBuffer, OutlineShape
      <4>3. outline' = Indented(o)
        BY <2>1, <3>2, <4>1
      <4>4. /\ DOMAIN o = {"skip", "heading", "depth", "indent", "buffer", "fresh", "given"}
            /\ {o.skip, o.heading, o.depth} \subseteq Nat
        BY <1>1, <4>2 DEF OutlineShape
      <4>. QED
        BY <4>2, <4>3, <4>4, ReadIndented
    <3>. QED
      BY <3>1, <3>2
  <2>3. LinesShape' /\ OutlineNests' /\ SkippedStaysOut'
    BY <1>1, <1>2, <2>1, LineFlushed
  <2>4. ToSet(outline'.buffer) = {}
    BY <2>2 DEF ToSet
  <2>. QED
    BY <1>1, <1>2, <1>4, <1>5, <1>8, <2>2, <2>3, <2>4 DEF OutlineInv
<1>. QED
  BY <1>6, <1>7, <1>8

\* An end takes its own start away, or is one without a start.
LEMMA EndKeeps == ASSUME OutlineInv, NEW tag \in Tags, EndTag(tag) PROVE OutlineInv'
<1>1. /\ step = "html" /\ step' = "html" /\ OutlineShape /\ NestingShape
      /\ outline.fresh => outline.indent = BodyIndent(outline)
  BY DEF EndTag, OutlineInv
<1>2. nesting.open \in Seq(Tags) /\ outline.skip \in Nat /\ DOMAIN nesting = {"open", "stray"} /\ nesting.stray \in BOOLEAN
  BY <1>1 DEF NestingShape, OutlineShape
<1>3. /\ NestingShape' /\ (~nesting'.stray => ~nesting.stray)
      /\ ~nesting'.stray => /\ nesting.open # <<>> /\ Last(nesting.open) = tag
                             /\ nesting'.open = Front(nesting.open)
  <2>1. CASE nesting.open # <<>> /\ Last(nesting.open) = tag
    <3>1. nesting' = [nesting EXCEPT !.open = Front(@)]
      BY <2>1 DEF EndTag
    <3>2. Front(nesting.open) \in Seq(Tags)
      BY <1>2, <2>1, ElementClosed
    <3>. QED
      BY <1>2, <2>1, <3>1, <3>2 DEF NestingShape
  <2>2. CASE ~(nesting.open # <<>> /\ Last(nesting.open) = tag)
    <3>1. nesting' = [nesting EXCEPT !.stray = TRUE]
      BY <2>2 DEF EndTag
    <3>. QED
      BY <1>2, <3>1 DEF NestingShape
  <2>. QED
    BY <2>1, <2>2
<1>4. SkippedAt(nesting.open)' = SkippedAt(nesting'.open)
  BY DEF SkippedAt
<1>5. ~nesting.stray => Cardinality(SkippedAt(nesting.open)) <= outline.skip /\ TRUE \notin ToSet(outline.buffer)
  BY DEF OutlineInv
<1>6. ASSUME ~nesting'.stray
      PROVE  /\ tag \in SkipTags => Cardinality(SkippedAt(nesting'.open)) = Cardinality(SkippedAt(nesting.open)) - 1
                                     /\ Cardinality(SkippedAt(nesting.open)) \in Nat \ {0}
             /\ tag \notin SkipTags => SkippedAt(nesting'.open) = SkippedAt(nesting.open)
  <2>1. PICK s \in Seq(Tags) : s = nesting.open
    BY <1>2
  <2>2. s # <<>> /\ Last(s) = tag /\ nesting'.open = Front(s)
    BY <1>3, <1>6, <2>1
  <2>3. /\ Last(s) \in SkipTags => Cardinality(SkippedAt(Front(s))) = Cardinality(SkippedAt(s)) - 1
                                    /\ Cardinality(SkippedAt(s)) \in Nat \ {0}
        /\ Last(s) \notin SkipTags => SkippedAt(Front(s)) = SkippedAt(s)
    BY <2>2, ElementClosed
  <2>. QED
    BY <2>1, <2>2, <2>3
<1>7. CASE tag \in SkipTags
  <2>1. outline' = [outline EXCEPT !.skip = IF @ > 0 THEN @ - 1 ELSE 0] /\ unwrapped' = unwrapped
    BY <1>7 DEF EndTag
  <2>2. /\ OutlineShape' /\ outline'.skip = (IF outline.skip > 0 THEN outline.skip - 1 ELSE 0)
        /\ outline'.buffer = outline.buffer
        /\ outline'.fresh = outline.fresh /\ outline'.indent = outline.indent /\ BodyIndent(outline') = BodyIndent(outline)
    BY <1>1, <2>1 DEF OutlineShape, BodyIndent
  <2>3. OutlineNests' /\ SkippedStaysOut' /\ LinesShape'
    BY <2>1, <1>1, <1>3 DEF OutlineInv, OutlineNests, SkippedStaysOut, BodyLevel, LinesShape
  <2>4. ASSUME ~nesting'.stray PROVE Cardinality(SkippedAt(nesting'.open)) <= outline'.skip
    <3>1. PICK c \in Nat \ {0} : c = Cardinality(SkippedAt(nesting.open))
      BY <1>6, <1>7, <2>4
    <3>2. Cardinality(SkippedAt(nesting'.open)) = c - 1 /\ c <= outline.skip
      BY <1>3, <1>5, <1>6, <1>7, <2>4, <3>1
    <3>3. c - 1 <= outline'.skip
      BY <1>2, <2>2, <3>1, <3>2
    <3>. QED
      BY <3>2, <3>3
  <2>5. outline'.fresh => outline'.indent = BodyIndent(outline')
    BY <1>1, <2>2
  <2>. QED
    BY <1>1, <1>3, <1>4, <1>5, <2>2, <2>3, <2>4, <2>5 DEF OutlineInv
<1>8. CASE tag \notin SkipTags /\ outline.skip > 0
  <2>1. outline' = outline /\ unwrapped' = unwrapped
    BY <1>8 DEF EndTag
  <2>2. OutlineShape' /\ OutlineNests' /\ SkippedStaysOut' /\ LinesShape'
    BY <2>1, <1>1, <1>3 DEF OutlineInv, OutlineNests, SkippedStaysOut, BodyLevel, OutlineShape, LinesShape
  <2>3. ~nesting'.stray => Cardinality(SkippedAt(nesting'.open)) <= outline'.skip /\ TRUE \notin ToSet(outline'.buffer)
    BY <1>3, <1>5, <1>6, <1>8, <2>1
  <2>. QED
    BY <1>1, <1>3, <1>4, <2>1, <2>2, <2>3 DEF OutlineInv
<1>9. CASE tag \notin SkipTags /\ ~(outline.skip > 0)
  <2>1. /\ unwrapped' = FlushTo
        /\ outline' = IF tag \in Lists
                      THEN Indented([NoBuffer(outline) EXCEPT !.depth = IF @ > 0 THEN @ - 1 ELSE 0])
                      ELSE NoBuffer(outline)
    BY <1>9 DEF EndTag
  <2>2. /\ OutlineShape' /\ outline'.buffer = <<>> /\ outline'.skip = outline.skip
        /\ outline'.fresh => outline'.indent = BodyIndent(outline')
    <3>1. CASE tag \notin Lists
      <4>1. outline' = NoBuffer(outline) /\ <<>> \in Seq(BOOLEAN)
        BY <2>1, <3>1
      <4>2. /\ DOMAIN outline' = DOMAIN outline /\ outline'.buffer = <<>> /\ outline'.skip = outline.skip
            /\ outline'.heading = outline.heading /\ outline'.depth = outline.depth
            /\ outline'.indent = outline.indent /\ outline'.fresh = outline.fresh
        BY <1>1, <4>1 DEF OutlineShape, NoBuffer
      <4>3. OutlineShape' /\ BodyIndent(outline') = BodyIndent(outline)
        BY <1>1, <4>1, <4>2 DEF OutlineShape, BodyIndent
      <4>. QED
        BY <1>1, <4>2, <4>3
    <3>2. CASE tag \in Lists
      <4>1. PICK o : o = [NoBuffer(outline) EXCEPT !.depth = IF @ > 0 THEN @ - 1 ELSE 0]
        OBVIOUS
      <4>2. /\ DOMAIN o = DOMAIN outline /\ o.depth \in Nat /\ o.heading = outline.heading /\ o.buffer = <<>>
            /\ o.skip = outline.skip
        BY <1>1, <4>1 DEF NoBuffer, OutlineShape
      <4>3. outline' = Indented(o)
        BY <2>1, <3>2, <4>1
      <4>4. /\ DOMAIN o = {"skip", "heading", "depth", "indent", "buffer", "fresh", "given"}
            /\ {o.skip, o.heading, o.depth} \subseteq Nat
        BY <1>1, <4>2 DEF OutlineShape
      <4>. QED
        BY <4>2, <4>3, <4>4, ReadIndented
    <3>. QED
      BY <3>1, <3>2
  <2>3. LinesShape' /\ OutlineNests' /\ SkippedStaysOut'
    BY <1>1, <1>3, <2>1, LineFlushed
  <2>4. ToSet(outline'.buffer) = {}
    BY <2>2 DEF ToSet
  <2>5. ~nesting'.stray => Cardinality(SkippedAt(nesting'.open)) <= outline'.skip
    BY <1>3, <1>5, <1>6, <1>9, <2>2
  <2>. QED
    BY <1>1, <1>3, <1>4, <2>2, <2>3, <2>4, <2>5 DEF OutlineInv
<1>. QED
  BY <1>7, <1>8, <1>9

\* Text of an element that is skipped does not come in.
LEMMA DataKeeps == ASSUME OutlineInv, Data PROVE OutlineInv'
<1>1. /\ step = "html" /\ step' = "html" /\ OutlineShape /\ NestingShape /\ UNCHANGED <<unwrapped, nesting>>
      /\ outline.fresh => outline.indent = BodyIndent(outline)
  BY DEF Data, OutlineInv
<1>2. NestingShape' /\ SkippedAt(nesting.open)' = SkippedAt(nesting.open)
  BY <1>1 DEF NestingShape, SkippedAt
<1>3. OutlineNests' /\ SkippedStaysOut' /\ LinesShape'
  BY <1>1 DEF OutlineInv, OutlineNests, SkippedStaysOut, BodyLevel, LinesShape
<1>4. CASE outline.skip > 0
  <2>1. outline' = outline
    BY <1>4 DEF Data
  <2>2. OutlineShape'
    BY <1>1, <2>1 DEF OutlineShape
  <2>. QED
    BY <1>1, <1>2, <1>3, <2>1, <2>2 DEF OutlineInv
<1>5. CASE ~(outline.skip > 0)
  <2>1. PICK b \in BOOLEAN : b = (ToSet(nesting.open) \cap SkipTags # {})
    OBVIOUS
  <2>2. outline' = [outline EXCEPT !.buffer = Append(@, b), !.given = @ + 1]
    BY <1>5, <2>1 DEF Data
  <2>3. /\ DOMAIN outline' = DOMAIN outline /\ outline'.buffer = Append(outline.buffer, b) /\ outline'.skip = outline.skip
        /\ outline'.heading = outline.heading /\ outline'.depth = outline.depth
        /\ outline'.indent = outline.indent /\ outline'.fresh = outline.fresh
    BY <1>1, <2>2 DEF OutlineShape
  <2>4. outline.buffer \in Seq(BOOLEAN) /\ outline.skip = 0
    BY <1>1, <1>5 DEF OutlineShape
  <2>5. outline'.buffer \in Seq(BOOLEAN) /\ ToSet(outline'.buffer) = ToSet(outline.buffer) \cup {b}
    BY <2>3, <2>4 DEF ToSet
  <2>6. OutlineShape' /\ BodyIndent(outline') = BodyIndent(outline)
    BY <1>1, <2>3, <2>5 DEF OutlineShape, BodyIndent
  <2>7. ~nesting.stray => ~b
    BY <2>1, <2>4, UncountedOpen
  <2>8. ~nesting.stray => TRUE \notin ToSet(outline'.buffer)
    BY <2>5, <2>7 DEF OutlineInv
  <2>. QED
    BY <1>1, <1>2, <1>3, <2>3, <2>6, <2>8 DEF OutlineInv
<1>. QED
  BY <1>4, <1>5

LEMMA CloseKeeps == ASSUME OutlineInv, ClosePage PROVE OutlineInv'
<1>1. /\ step = "html" /\ step' = "wrap" /\ OutlineShape /\ NestingShape /\ UNCHANGED nesting
      /\ unwrapped' = FlushTo /\ outline' = NoBuffer(outline) /\ <<>> \in Seq(BOOLEAN)
  BY DEF ClosePage, OutlineInv
<1>2. NestingShape' /\ SkippedAt(nesting.open)' = SkippedAt(nesting.open)
  BY <1>1 DEF NestingShape, SkippedAt
<1>3. /\ OutlineShape' /\ outline'.skip = outline.skip /\ outline'.buffer = <<>>
  BY <1>1 DEF OutlineShape, NoBuffer
<1>4. ToSet(outline'.buffer) = {}
  BY <1>3 DEF ToSet
<1>5. LinesShape' /\ OutlineNests' /\ SkippedStaysOut'
  BY <1>1, LineFlushed
<1>. QED
  BY <1>1, <1>2, <1>3, <1>4, <1>5 DEF OutlineInv

LEMMA ParagraphKeeps ==
    ASSUME OutlineInv, NEW level \in 0..2, NEW depth \in 0..1, Paragraph(level, depth)
    PROVE  OutlineInv'
<1>1. /\ step = "docx" /\ step' = "docx" /\ OutlineShape /\ NestingShape /\ UNCHANGED nesting
      /\ outline' = [outline EXCEPT !.heading = IF level > 0 THEN level ELSE @, !.given = @ + 1]
  BY DEF Paragraph, OutlineInv
<1>2. NestingShape' /\ SkippedAt(nesting.open)' = SkippedAt(nesting.open)
  BY <1>1 DEF NestingShape, SkippedAt
<1>3. /\ OutlineShape' /\ outline'.skip = outline.skip /\ outline'.buffer = outline.buffer
  BY <1>1 DEF OutlineShape
<1>4. PICK deep : deep = [outline' EXCEPT !.depth = depth + 1]
  OBVIOUS
<1>5. PICK o : o = [outline' EXCEPT !.buffer = <<FALSE>>, !.depth = depth + 1, !.fresh = level = 0,
                                !.indent = IF level > 0 THEN level - 1 ELSE BodyIndent(deep)]
  OBVIOUS
<1>6. unwrapped' = Append(unwrapped, OutlineLine(o))
  BY <1>4, <1>5 DEF Paragraph
<1>7. /\ o.buffer = <<FALSE>> /\ o.depth = depth + 1 /\ o.fresh = (level = 0) /\ o.heading = outline'.heading
      /\ o.indent = (IF level > 0 THEN level - 1 ELSE BodyIndent(deep))
  BY <1>3, <1>5 DEF OutlineShape
<1>8. deep.depth = depth + 1 /\ deep.heading = outline'.heading /\ outline'.heading \in Nat
  BY <1>3, <1>4 DEF OutlineShape
<1>9. PICK l : l = OutlineLine(o)
  OBVIOUS
<1>10. /\ l.said = <<FALSE>> /\ l.fresh = (level = 0) /\ l.indent = 2 * o.indent /\ l.heading = o.heading
       /\ l.depth = o.depth /\ "said" \in DOMAIN l
  BY <1>7, <1>9 DEF OutlineLine
<1>11. l.fresh => l.indent >= 2 * BodyLevel(l)
  <2>1. BodyIndent(deep) = BodyLevel(l) /\ BodyIndent(deep) \in Nat
    BY <1>7, <1>8, <1>10 DEF BodyIndent, BodyLevel
  <2>2. l.fresh => level = 0
    BY <1>10, Zenon
  <2>. QED
    BY <1>7, <1>10, <2>1, <2>2
<1>12. TRUE \notin ToSet(l.said)
  <2>1. DOMAIN l.said = {1} /\ ~l.said[1]
    BY <1>10
  <2>. QED
    BY <2>1 DEF ToSet
<1>13. LinesShape' /\ OutlineNests' /\ SkippedStaysOut'
  BY <1>1, <1>6, <1>9, <1>10, <1>11, <1>12, LineAdded
<1>. QED
  BY <1>1, <1>2, <1>3, <1>13 DEF OutlineInv

LEMMA LineKeeps == ASSUME OutlineInv, NEW file \in TextLines, ReadLine(file) PROVE OutlineInv'
<1>1. /\ step = "plain" /\ step' = "plain" /\ OutlineShape /\ NestingShape /\ UNCHANGED nesting
      /\ outline' = [outline EXCEPT !.given = @ + FoldLeft(Plus, 0, file.words)]
  BY DEF ReadLine, OutlineInv
<1>2. NestingShape' /\ SkippedAt(nesting.open)' = SkippedAt(nesting.open)
  BY <1>1 DEF NestingShape, SkippedAt
<1>3. /\ OutlineShape' /\ outline'.skip = outline.skip /\ outline'.buffer = outline.buffer
  BY <1>1 DEF OutlineShape
<1>4. PICK l : l = [OutlineLine(NoOutline) EXCEPT !.indent = file.indent, !.words = file.words]
  OBVIOUS
<1>5. l.said = <<>> /\ "said" \in DOMAIN l
  BY <1>4 DEF OutlineLine, NoOutline
<1>6. unwrapped' = Append(unwrapped, l)
  BY <1>4 DEF ReadLine
<1>7. ToSet(l.said) = {}
  BY <1>5 DEF ToSet
<1>8. LinesShape' /\ OutlineNests' /\ SkippedStaysOut'
  BY <1>1, <1>5, <1>6, <1>7, LineAdded
<1>. QED
  BY <1>1, <1>2, <1>3, <1>8 DEF OutlineInv

\* The rest of a line tells what the line did.
LEMMA WrapKeeps == ASSUME OutlineInv, WrapLine PROVE OutlineInv'
<1>1. /\ step = "wrap" /\ step' = "wrap" /\ unwrapped # <<>> /\ UNCHANGED <<outline, nesting>>
      /\ OutlineShape /\ NestingShape
  BY DEF WrapLine, OutlineInv
<1>2. NestingShape' /\ SkippedAt(nesting.open)' = SkippedAt(nesting.open) /\ OutlineShape'
  BY <1>1 DEF NestingShape, SkippedAt, OutlineShape
<1>3. PICK S : unwrapped \in Seq(S) /\ \A o \in S : "said" \in DOMAIN o
  BY DEF OutlineInv, LinesShape
<1>4. /\ Tail(unwrapped) \in Seq(S) /\ Head(unwrapped) = unwrapped[1] /\ 1 \in DOMAIN unwrapped
      /\ \A i \in DOMAIN Tail(unwrapped) : i + 1 \in DOMAIN unwrapped /\ Tail(unwrapped)[i] = unwrapped[i + 1]
  BY <1>1, <1>3
<1>5. CASE unwrapped' = Tail(unwrapped)
  <2>1. SkippedStaysOut'
    BY <1>1, <1>4, <1>5 DEF OutlineInv, SkippedStaysOut
  <2>. QED
    BY <1>1, <1>2, <1>3, <1>4, <1>5, <2>1 DEF OutlineInv, OutlineNests, LinesShape
<1>6. CASE \E words : unwrapped' = <<[Head(unwrapped) EXCEPT !.words = words]>> \o Tail(unwrapped)
  <2>1. PICK words : unwrapped' = <<[Head(unwrapped) EXCEPT !.words = words]>> \o Tail(unwrapped)
    BY <1>6
  <2>2. PICK l : l = [Head(unwrapped) EXCEPT !.words = words]
    OBVIOUS
  <2>3. l.said = unwrapped[1].said /\ "said" \in DOMAIN l
    BY <1>3, <1>4, <2>2
  <2>9. ~nesting.stray => TRUE \notin ToSet(l.said)
    BY <1>4, <2>3 DEF OutlineInv, SkippedStaysOut
  <2>4. unwrapped' = <<l>> \o Tail(unwrapped) /\ <<l>> \in Seq(S \cup {l}) /\ Tail(unwrapped) \in Seq(S \cup {l})
    BY <1>4, <2>1, <2>2
  <2>5. unwrapped' \in Seq(S \cup {l}) /\ Len(unwrapped') = Len(Tail(unwrapped)) + 1
    BY <2>4
  <2>6. \A i \in DOMAIN unwrapped' : unwrapped'[i] = l \/ (i - 1 \in DOMAIN Tail(unwrapped) /\ unwrapped'[i] = Tail(unwrapped)[i - 1])
    BY <2>4, <2>5
  <2>7. \A i \in DOMAIN unwrapped' : unwrapped'[i] = l \/ \E j \in DOMAIN unwrapped : unwrapped'[i] = unwrapped[j]
    BY <1>4, <2>6
  <2>8. SkippedStaysOut'
    BY <1>1, <2>9, <2>7 DEF OutlineInv, SkippedStaysOut
  <2>10. LinesShape'
    BY <1>3, <2>3, <2>5 DEF LinesShape
  <2>. QED
    BY <1>1, <1>2, <2>8, <2>10 DEF OutlineInv, OutlineNests
<1>7. unwrapped' = Tail(unwrapped) \/ \E words : unwrapped' = <<[Head(unwrapped) EXCEPT !.words = words]>> \o Tail(unwrapped)
  BY DEF WrapLine
<1>. QED
  BY <1>5, <1>6, <1>7

LEMMA OutlineStepInv == OutlineInv /\ PageNext => OutlineInv'
<1> SUFFICES ASSUME OutlineInv, PageNext PROVE OutlineInv'
  OBVIOUS
<1>1. CASE \E url \in PageUrls : FetchUrl(url) \/ Redirected(url)
  BY <1>1, OutlineGoesOn DEF FetchUrl, Redirected, CheckUrl, AfterRedirect
<1>2. CASE FetchFails \/ PageComes
  BY <1>2, OutlineGoesOn DEF FetchFails, PageComes
<1>3. CASE \E a, b \in Ips : ResolveName(<<a, b>>)
  BY <1>3, OutlineGoesOn DEF ResolveName, RefuseInput
<1>4. CASE \E late \in BOOLEAN : Chunk(late)
  BY <1>4, OutlineGoesOn, OutlineStutters DEF Chunk, RefuseInput
<1>5. CASE \E type \in {"html", "plain"} : BodyRead(type)
  BY <1>5, OutlineGoesOn DEF BodyRead, GoTo
<1>6. CASE \E tag \in Tags : StartTag(tag) \/ EndTag(tag)
  BY <1>6, StartKeeps, EndKeeps
<1>7. CASE Data \/ ClosePage
  BY <1>7, DataKeeps, CloseKeeps
<1>8. CASE \E type \in {"docx", "plain"}, fit \in BOOLEAN : Extract(type, fit)
  BY <1>8, OutlineGoesOn DEF Extract, GoTo, RefuseInput
<1>9. CASE \E level \in 0..2, depth \in 0..1 : Paragraph(level, depth)
  BY <1>9, ParagraphKeeps
<1>10. CASE \E l \in TextLines : ReadLine(l)
  BY <1>10, LineKeeps
<1>11. CASE EndOfFile \/ FinishText
  BY <1>11, OutlineGoesOn DEF EndOfFile, FinishText, GoTo, RefuseInput
<1>12. CASE WrapLine
  BY <1>12, WrapKeeps
<1>. QED
  BY <1>1, <1>2, <1>3, <1>4, <1>5, <1>6, <1>7, <1>8, <1>9, <1>10, <1>11, <1>12 DEF PageNext

================================================================================
