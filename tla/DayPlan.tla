-------------------------------- MODULE DayPlan --------------------------------
(***************************************************************************)
(* The plan of a day: the draft that the first request for a date creates    *)
(* (today_engine.py), its life (plan_state.py), the planner's rewrite of its  *)
(* blocks (planner/service.py), the synchronisation with the work that goes   *)
(* on meanwhile (planner/sync.py) and the wrap-up (wrapup.py).                *)
(*                                                                          *)
(* A request is one READ COMMITTED transaction: it loads the plan and its     *)
(* blocks, may wait for the model that words the summary, and writes when it  *)
(* commits.  The table has no unique key on the date.  Which open tasks find  *)
(* a place in the day, and which blocks are over, is left open.               *)
(***************************************************************************)
EXTENDS Naturals, Sequences, FiniteSets

CONSTANTS Planners,             \* requests that may be open at once
          WorkItems,            \* what asks for the owner's time, urgent mails too
          Lunch,                \* the block that belongs to no task
          DiscardsKept,         \* how many discards are read back, 50 in the code
          MaxPlanRequests, MaxNews   \* bounds

ASSUME DayPlanAssumption ==
    /\ Lunch \notin WorkItems
    /\ {DiscardsKept, MaxPlanRequests, MaxNews} \subseteq Nat

VARIABLES
    plans,       \* rows of day_plans
    blocks,      \* rows of plan_blocks
    work,        \* per task: its status
    after,       \* per task: the generations of blocks it is newer than
    discards,    \* signatures of the discarded proposals, oldest first
    proposed,    \* signatures of the proposals made
    closed,      \* per date: the timeline the day was wrapped with
    asking,      \* per request: what it does and what it has loaded
    collided,    \* dates written by requests that had not seen each other
    planRequests, news  \* requests, and changes of the work, so far

planVars == <<plans, blocks, work, after, discards, proposed, closed, asking, collided, planRequests, news>>

Dates == {1, 2}            \* today and tomorrow
WorkStatus == {"none", "open", "blocked", "done"}
PlanState == {"DRAFT", "PROPOSED", "APPROVED", "ACTIVE", "ADJUSTED", "WRAPPED"}
PlanAction == {"propose", "approve", "adjust", "redraft", "activate", "wrap"}
Op == PlanAction \cup {"none", "draft", "generate", "sync", "review", "wrapup"}
Planning == {"generate", "sync", "review"}   \* these read the work and its history
NotWrapped == [wrapped |-> FALSE, timeline |-> {}]
Idle == [op |-> "none"]

\* A generation is what one request wrote: the draft copied from the tasks, or
\* the planner's blocks.
Generation == [by : 1..MaxPlanRequests, source : {"tasks", "planner"}]
Plan == [id : 1..MaxPlanRequests, date : Dates, state : PlanState]
PlanBlock == [plan : 1..MaxPlanRequests, gen : Generation, task : WorkItems \cup {Lunch},
          status : {"scheduled", "blocked", "done", "missed"}]

PlanTypeOK ==
    /\ plans \subseteq Plan /\ blocks \subseteq PlanBlock
    /\ work \in [WorkItems -> WorkStatus] /\ after \in [WorkItems -> SUBSET Generation]
    /\ discards \in Seq(SUBSET WorkItems) /\ proposed \in SUBSET SUBSET WorkItems
    /\ \A q \in Planners : asking[q].op \in Op
    /\ collided \subseteq Dates
    /\ planRequests \in 0..MaxPlanRequests /\ news \in 0..MaxNews

PlansOf(d) == {p \in plans : p.date = d}
BlocksOf(p) == {b \in blocks : b.plan = p.id}
Key(b) == [plan |-> b.plan, gen |-> b.gen, task |-> b.task]
Timeline(rows) == {Key(b) : b \in rows}
WithKeys(keys) == {b \in blocks : Key(b) \in keys}

--------------------------------------------------------------------------------
(* The life of a plan *)

\* _TRANSITIONS
Transitions ==
    {<<"DRAFT", "propose", "PROPOSED">>, <<"PROPOSED", "approve", "APPROVED">>,
     <<"PROPOSED", "adjust", "ADJUSTED">>, <<"PROPOSED", "redraft", "DRAFT">>,
     <<"APPROVED", "activate", "ACTIVE">>, <<"APPROVED", "adjust", "ADJUSTED">>,
     <<"ADJUSTED", "approve", "APPROVED">>, <<"ADJUSTED", "activate", "ACTIVE">>,
     <<"ACTIVE", "adjust", "ADJUSTED">>, <<"ACTIVE", "wrap", "WRAPPED">>}

NextStates(state, action) == {s \in PlanState : <<state, action, s>> \in Transitions}

--------------------------------------------------------------------------------
(* A request loads the plan of its date, or drafts it *)

Drafted(n) ==
    {[plan |-> n, gen |-> [by |-> n, source |-> "tasks"], task |-> t,
      status |-> "scheduled"] : t \in {u \in WorkItems : work[u] = "open"}}

\* get_plan fails for ever once a date has two plans.
BuildOrGetDraft(d, n) ==
    {[plan |-> p, new |-> FALSE, blocks |-> BlocksOf(p)] : p \in PlansOf(d)} \cup
    (IF PlansOf(d) = {}
     THEN {[plan |-> [id |-> n, date |-> d, state |-> "DRAFT"], new |-> TRUE, blocks |-> Drafted(n)]}
     ELSE {})

\* Mutant of Replannable: a wrapped day may be planned again.
ReplannableAlways(plan) == plan.state \in PlanState
Replannable(plan) == plan.state # "WRAPPED"

Optimized(rows) == \E b \in rows : b.gen.source = "planner"

\* Whether the daily review runs the planner: there are no optimized blocks yet,
\* and enough to plan from, open tasks or a connected calendar.
Regenerates(loaded, calendar) ==
    /\ ~Optimized(loaded.blocks) /\ Replannable(loaded.plan)
    /\ calendar \/ \E t \in WorkItems : work[t] = "open"

\* Reading a plan that is there changes nothing, so a draft is of a new one.
OpenRequest(q, op, d) ==
    /\ asking[q] = Idle /\ planRequests < MaxPlanRequests /\ Cardinality(PlansOf(d)) <= 1
    /\ planRequests' = planRequests + 1
    /\ \E loaded \in BuildOrGetDraft(d, planRequests'), calendar \in BOOLEAN :
          /\ op = "generate" => Replannable(loaded.plan)
          /\ op \in PlanAction => NextStates(loaded.plan.state, op) # {}
          /\ op = "wrapup" => d = 2 /\ Cardinality(PlansOf(1)) <= 1
          /\ op = "draft" => loaded.new
          /\ calendar => op = "review"
          /\ asking' = [asking EXCEPT ![q] =
                [op |-> op, by |-> planRequests', loaded |-> loaded, stale |-> FALSE,
                 work |-> IF op \in Planning THEN work ELSE [n \in WorkItems |-> "none"],
                 heard |-> IF op \in Planning THEN Len(discards) ELSE 0,
                 today |-> IF op = "wrapup" THEN PlansOf(1) ELSE {},
                 plans |-> op = "generate" \/ (op = "review" /\ Regenerates(loaded, calendar))]]
    /\ UNCHANGED <<plans, blocks, work, after, discards, proposed, closed, collided, news>>

--------------------------------------------------------------------------------
(* What a request writes *)

\* generate_plan: the new blocks, and lunch.
Planned(r, placed) ==
    {[plan |-> r.loaded.plan.id, gen |-> [by |-> r.by, source |-> "planner"], task |-> t,
      status |-> "scheduled"] : t \in placed \cup {Lunch}}

\* generate_plan deletes the blocks it has loaded, completed ones too.
Rewritten(r, placed) ==
    (blocks \ WithKeys(Timeline(r.loaded.blocks))) \cup Planned(r, placed)

\* sync_plan, minor tier: the status a loaded block gets.
Synced(b, r, late) ==
    LET real == IF b.task \in WorkItems THEN r.work[b.task] ELSE "none"
        told == IF real = "done" THEN "done"
                ELSE IF real = "blocked" /\ b.status # "done" THEN "blocked" ELSE b.status
    IN  IF told = "scheduled" /\ b \in late THEN "missed" ELSE told

Changed(r, late) == {b \in r.loaded.blocks : Synced(b, r, late) # b.status}

\* sync_plan, the other tiers: open work newer than every loaded block.
Signature(r) ==
    {n \in WorkItems : /\ r.work[n] = "open"
                  /\ \A b \in r.loaded.blocks : b.gen \in after[n] /\ b.task # n}

Newest(s, k) == {s[i] : i \in {j \in 1..Len(s) : j + k > Len(s)}}
DiscardsRead(r) == Newest(SubSeq(discards, 1, r.heard), DiscardsKept)

Syncs(r) == r.op \in {"sync", "review"} /\ r.loaded.blocks # {}

Proposed(r) ==
    IF Syncs(r) /\ Signature(r) # {} /\ Signature(r) \notin DiscardsRead(r)
    THEN proposed \cup {Signature(r)} ELSE proposed

\* The plans after a request: its own row, its transition, and at the wrap-up
\* the day that was active.
MovedTo(rows, moved, state) == {IF p.id = moved.id THEN [p EXCEPT !.state = state] ELSE p : p \in rows}
PlansAfter(r) ==
    LET rows == IF r.loaded.new THEN plans \cup {r.loaded.plan} ELSE plans IN
    IF r.op \in PlanAction
    THEN {MovedTo(rows, r.loaded.plan, s) : s \in NextStates(r.loaded.plan.state, r.op)}
    ELSE IF r.op = "wrapup" /\ \E p \in r.today : p.state = "ACTIVE"
         THEN {MovedTo(rows, p, "WRAPPED") : p \in r.today}
         ELSE {rows}

\* Blocks after a request.  An update of a block that is gone fails the request;
\* the daily review that has planned synchronises the blocks it has just deleted.
BlocksAfter(r, placed, late) ==
    IF r.plans THEN Rewritten(r, placed)
    ELSE LET stored == IF r.loaded.new THEN blocks \cup r.loaded.blocks ELSE blocks
             told == IF Syncs(r) THEN Changed(r, late) ELSE {}
         IN  (stored \ {b \in stored : Key(b) \in Timeline(told)})
             \cup {[b EXCEPT !.status = Synced(b, r, late)] : b \in told}

Touched(r) == IF r.op = "wrapup" THEN Dates ELSE {r.loaded.plan.date}

\* The requests still open on the date have loaded what is no longer so.
CloseRequest(q) ==
    /\ asking[q] # Idle
    /\ asking' = [o \in Planners |->
          IF o = q THEN Idle
          ELSE IF asking[o] # Idle /\ Touched(asking[o]) \cap Touched(asking[q]) # {}
               THEN [asking[o] EXCEPT !.stale = TRUE] ELSE asking[o]]

CommitRequest(q) ==
    LET r == asking[q] IN
    /\ CloseRequest(q)
    /\ \E placed \in SUBSET {t \in WorkItems : r.work[t] = "open"}, late \in SUBSET r.loaded.blocks :
          /\ r.plans \/ placed = {}
          /\ (Syncs(r) /\ ~r.plans) \/ late = {}
          /\ Syncs(r) /\ ~r.plans /\ ~r.loaded.new =>
                Timeline(Changed(r, late)) \subseteq Timeline(blocks)
          /\ blocks' = BlocksAfter(r, placed, late)
    /\ plans' \in PlansAfter(r)
    /\ proposed' = Proposed(r)
    /\ closed' = [x \in Dates |->
          IF \E p \in plans' : p.date = x /\ p.state = "WRAPPED" /\ ~closed[x].wrapped
          THEN [wrapped |-> TRUE, timeline |-> Timeline({b \in blocks' : \E p \in plans' : p.date = x /\ p.id = b.plan})]
          ELSE closed[x]]
    /\ collided' = IF r.stale THEN collided \cup Touched(r) ELSE collided
    /\ UNCHANGED <<work, after, discards, planRequests, news>>

FailRequest(q) ==
    /\ asking[q] # Idle /\ asking' = [asking EXCEPT ![q] = Idle]
    /\ UNCHANGED <<plans, blocks, work, after, discards, proposed, closed, collided, planRequests, news>>

\* discard_proposal
Discard(signature) ==
    /\ planRequests < MaxPlanRequests /\ planRequests' = planRequests + 1
    /\ discards' = Append(discards, signature)
    /\ UNCHANGED <<plans, blocks, work, after, proposed, closed, asking, collided, news>>

\* Work arrives, is finished, gets stuck and goes on, outside the planner.
WorkChanges(n, status) ==
    /\ news < MaxNews /\ news' = news + 1
    /\ work[n] # status /\ work[n] # "done" /\ status # "none"
    /\ work[n] = "none" => status = "open"
    /\ work' = [work EXCEPT ![n] = status]
    /\ after' = IF work[n] = "none"
                THEN [after EXCEPT ![n] = {b.gen : b \in blocks} \cup
                        {b.gen : b \in UNION {IF asking[q] = Idle THEN {} ELSE asking[q].loaded.blocks : q \in Planners}}]
                ELSE after
    /\ UNCHANGED <<plans, blocks, discards, proposed, closed, asking, collided, planRequests>>

\* A fresh date, or a day in progress with the planner's blocks.
PlanInit ==
    /\ \E running \in BOOLEAN :
          /\ work = [n \in WorkItems |-> IF running THEN "open" ELSE "none"]
          /\ plans = IF running THEN {[id |-> 1, date |-> 1, state |-> "ACTIVE"]} ELSE {}
          /\ blocks = IF running
                THEN {[plan |-> 1, gen |-> [by |-> 1, source |-> "planner"], task |-> t,
                       status |-> "scheduled"] : t \in WorkItems \cup {Lunch}}
                ELSE {}
          /\ planRequests = IF running THEN 1 ELSE 0
    /\ after = [n \in WorkItems |-> {}]
    /\ discards = <<>> /\ proposed = {}
    /\ closed = [d \in Dates |-> NotWrapped]
    /\ asking = [q \in Planners |-> Idle]
    /\ collided = {} /\ news = 0

PlanNext ==
    \/ \E q \in Planners :
          \/ \E op \in Op \ {"none"}, d \in Dates : OpenRequest(q, op, d)
          \/ CommitRequest(q) \/ FailRequest(q)
    \/ \E signature \in proposed : Discard(signature)
    \/ \E n \in WorkItems, status \in WorkStatus : WorkChanges(n, status)

--------------------------------------------------------------------------------
(* Properties *)

\* get_plan expects at most one plan for a date and fails for ever on two; only
\* requests that draft the same date at the same time create them.
PlanReadable == \A d \in Dates : d \in collided \/ Cardinality(PlansOf(d)) <= 1

\* A wrapped day is over: it stays wrapped, with the timeline it was wrapped with,
\* whatever is generated, reviewed, synchronised or asked of it afterwards, unless
\* requests wrote over each other.
WrappedDayKept ==
    \A d \in Dates : closed[d].wrapped /\ d \notin collided =>
        \A p \in PlansOf(d) : p.state = "WRAPPED" /\ Timeline(BlocksOf(p)) = closed[d].timeline
================================================================================
