-------------------------------- MODULE AgentRuns ------------------------------
(***************************************************************************)
(* The orchestrator's governed runs (orch/agent_runtime.py): planned, held    *)
(* for an operator and decided.  They are kept in the process; two threads    *)
(* that decide one run check its state and then write it.                    *)
(***************************************************************************)
EXTENDS Naturals, FiniteSets

CONSTANTS Operators,          \* threads that plan and decide
          RunIds,
          RequireApproval,    \* DAYPILOT_REQUIRE_APPROVAL
          WriteEnabled        \* DAYPILOT_WRITE_ENABLED

ASSUME AgentRunAssumption == RequireApproval \in BOOLEAN /\ WriteEnabled \in BOOLEAN

VARIABLES
    store,       \* _RUN_STORE
    deciding,    \* per thread: the decision it is carrying out
    approvedBy,  \* runs an operator has approved
    blockedBy,   \* runs an operator has blocked
    twoDecide    \* runs two threads decided at once

runVars == <<store, deciding, approvedBy, blockedBy, twoDecide>>

RiskyWriteTools == {"email.send", "mcp.write"}
NoRun == [state |-> "none", tools |-> {}, requires |-> FALSE]
NoDecision == [run |-> "none", decision |-> "none"]

AgentRunTypeOK ==
    /\ store \in [RunIds -> [state : {"none", "WAITING_APPROVAL", "APPROVED", "BLOCKED"},
                             tools : SUBSET (RiskyWriteTools \cup {"web.search"}), requires : BOOLEAN]]
    /\ \A q \in Operators : deciding[q].decision \in {"none", "approve", "block"}
    /\ approvedBy \subseteq RunIds /\ blockedBy \subseteq RunIds /\ twoDecide \subseteq RunIds

--------------------------------------------------------------------------------
\* Mutant of ApprovalRequiredFor: the caller's flag is looked at first.
ApprovalUnlessAllowed(tools, allowed) ==
    ~allowed /\ (tools \cap RiskyWriteTools # {} \/ (~WriteEnabled /\ tools # {}) \/ RequireApproval)

\* _approval_required: the caller's flag lifts the global policy and nothing else.
ApprovalRequiredFor(tools, allowed) ==
    \/ tools \cap RiskyWriteTools # {}
    \/ ~WriteEnabled /\ tools # {}
    \/ RequireApproval /\ ~allowed

\* plan_agent_run
PlanRun(r, tools, allowed) ==
    /\ store[r].state = "none"
    /\ LET requires == ApprovalRequiredFor(tools, allowed) IN
       store' = [store EXCEPT ![r] = [state |-> IF requires THEN "WAITING_APPROVAL" ELSE "APPROVED",
                                      tools |-> tools, requires |-> requires]]
    /\ UNCHANGED <<deciding, approvedBy, blockedBy, twoDecide>>

\* Mutant of Waiting: any run can be decided.
WaitingAny(r) == store[r].state # "none"

Waiting(r) == store[r].state = "WAITING_APPROVAL"

\* apply_approval: the check,
CheckDecision(q, r, decision) ==
    /\ deciding[q] = NoDecision /\ Waiting(r)
    /\ deciding' = [deciding EXCEPT ![q] = [run |-> r, decision |-> decision]]
    /\ UNCHANGED <<store, approvedBy, blockedBy, twoDecide>>

\* and the write, of the run it has found.
WriteDecision(q) ==
    LET r == deciding[q].run IN
    /\ deciding[q] # NoDecision
    /\ IF deciding[q].decision = "approve"
       THEN /\ store' = [store EXCEPT ![r].state = "APPROVED", ![r].requires = FALSE]
            /\ approvedBy' = approvedBy \cup {r} /\ UNCHANGED blockedBy
       ELSE /\ store' = [store EXCEPT ![r].state = "BLOCKED"]
            /\ blockedBy' = blockedBy \cup {r} /\ UNCHANGED approvedBy
    /\ twoDecide' = IF \E p \in Operators \ {q} : deciding[p].run = r THEN twoDecide \cup {r} ELSE twoDecide
    /\ deciding' = [deciding EXCEPT ![q] = NoDecision]

\* The process restarts: its runs are gone, and the threads with them.
RestartOrchestrator ==
    /\ \E r \in RunIds : store[r].state # "none"
    /\ store' = [r \in RunIds |-> NoRun] /\ deciding' = [q \in Operators |-> NoDecision]
    /\ approvedBy' = {} /\ blockedBy' = {} /\ twoDecide' = {}

--------------------------------------------------------------------------------
AgentRunInit ==
    /\ store = [r \in RunIds |-> NoRun] /\ deciding = [q \in Operators |-> NoDecision]
    /\ approvedBy = {} /\ blockedBy = {} /\ twoDecide = {}

AgentRunNext ==
    \/ \E r \in RunIds :
          \/ \E tools \in {{}, {"web.search"}, {"web.search", "email.send"}}, allowed \in BOOLEAN :
                PlanRun(r, tools, allowed)
          \/ \E q \in Operators, decision \in {"approve", "block"} : CheckDecision(q, r, decision)
    \/ \E q \in Operators : WriteDecision(q)
    \/ RestartOrchestrator

--------------------------------------------------------------------------------
\* A run that can send or write, or any with tools while writing is off, is
\* approved only by an operator, whatever its caller allows.
HeldUntilApproved ==
    \A r \in RunIds :
        (store[r].state = "APPROVED" /\ (store[r].tools \cap RiskyWriteTools # {}
                                         \/ (~WriteEnabled /\ store[r].tools # {})))
        => r \in approvedBy

\* A decision is final: a run is not both approved and blocked, unless two threads
\* decided it at once.
DecidedOnce == \A r \in RunIds : r \in approvedBy \cap blockedBy => r \in twoDecide
================================================================================
