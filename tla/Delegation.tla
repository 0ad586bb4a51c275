------------------------------- MODULE Delegation ------------------------------
(***************************************************************************)
(* Sub-tasks handed from one HomePilot persona to another                   *)
(* (homepilot/delegation.py), by turns that run at the same time.           *)
(*                                                                          *)
(* A turn is one READ COMMITTED transaction and may delegate several times: *)
(* each delegation reads what is committed and what its own turn has added. *)
(* Which personas are enabled, online and match the capability is left open: *)
(* any persona that is not excluded may be the worker.                      *)
(***************************************************************************)
EXTENDS Naturals, FiniteSets

CONSTANTS Personas,
          Parents, NoParent,     \* parent tasks, and none
          Turns,                 \* turns that may be open at once
          MaxDelegationDepth, MaxWorkerAgents, MaxChildTasks,
          MaxTurns, MaxDelegations   \* bounds

ASSUME DelegationAssumption ==
    /\ NoParent \notin Parents
    /\ {MaxDelegationDepth, MaxWorkerAgents, MaxChildTasks, MaxTurns, MaxDelegations} \subseteq Nat

VARIABLES
    delegations,   \* committed rows, with their child tasks
    turn,          \* per turn: its manager, and the rows it has added
    seen,          \* per turn: what was committed when it first delegated
    crossed,       \* a turn has committed over delegations it had not seen
    turns

delegationVars == <<delegations, turn, seen, crossed, turns>>

Row == [id : 1..MaxDelegations, manager : Personas, worker : Personas,
        parent : Parents \cup {NoParent}, depth : 2..MaxDelegationDepth]
NoTurn == [open |-> FALSE, manager |-> CHOOSE a \in Personas : TRUE, added |-> {}]

DelegationTypeOK ==
    /\ delegations \subseteq Row
    /\ turn \in [Turns -> [open : BOOLEAN, manager : Personas, added : SUBSET Row]]
    /\ seen \in [Turns -> SUBSET Row] /\ crossed \in BOOLEAN /\ turns \in 0..MaxTurns

--------------------------------------------------------------------------------
(* What delegate reads *)

ManagersOf(a, rows) == {d.manager : d \in {e \in rows : e.worker = a}}

\* _manager_ancestors: every persona the delegations lead up to.
Ancestors(a, rows) ==
    {m \in Personas : \A up \in SUBSET Personas :
        (ManagersOf(a, rows) \subseteq up /\ \A b \in up : ManagersOf(b, rows) \subseteq up) => m \in up}

ManagerDepthOr(a, rows, top) ==
    LET depths == {d.depth : d \in {e \in rows : e.worker = a}} IN
    IF depths = {} THEN top ELSE CHOOSE n \in depths : \A k \in depths : k <= n

\* Mutant of ManagerDepth: a manager nobody delegated to is at depth 0.
ManagerDepthFromZero(a, rows) == ManagerDepthOr(a, rows, 0)

\* _manager_depth: how deep the manager was delegated to, 1 if never.
ManagerDepth(a, rows) == ManagerDepthOr(a, rows, 1)

WorkersUnder(a, parent, rows) == {d.worker : d \in {e \in rows : e.manager = a /\ e.parent = parent}}
Children(parent, rows) == {d \in rows : d.parent = parent}

\* Mutant of Excluded: only the manager itself and those that delegated to it.
ExcludedDirect(a, rows) == {a} \cup ManagersOf(a, rows)
Excluded(a, rows) == {a} \cup Ancestors(a, rows)

--------------------------------------------------------------------------------

BeginTurn(q, a) ==
    /\ ~turn[q].open /\ turns < MaxTurns
    /\ turns' = turns + 1
    /\ turn' = [turn EXCEPT ![q] = [open |-> TRUE, manager |-> a, added |-> {}]]
    /\ UNCHANGED <<delegations, seen, crossed>>

FreeIds == 1..MaxDelegations \ {d.id : d \in delegations \cup UNION {turn[q].added : q \in Turns}}
NextId == CHOOSE n \in FreeIds : \A k \in FreeIds : n <= k

\* delegate, to one of the eligible workers.  A refusal changes nothing.
Delegate(q, worker, parent) ==
    LET a == turn[q].manager
        rows == delegations \cup turn[q].added
        depth == ManagerDepth(a, rows) + 1 IN
    /\ turn[q].open
    /\ depth <= MaxDelegationDepth
    /\ Cardinality(WorkersUnder(a, parent, rows)) < MaxWorkerAgents
    /\ parent # NoParent => Cardinality(Children(parent, rows)) < MaxChildTasks
    /\ worker \notin Excluded(a, rows) /\ FreeIds # {}
    /\ turn' = [turn EXCEPT ![q].added = @ \cup {[id |-> NextId, manager |-> a, worker |-> worker,
                                                  parent |-> parent, depth |-> depth]}]
    /\ seen' = IF turn[q].added = {} THEN [seen EXCEPT ![q] = delegations] ELSE seen
    /\ UNCHANGED <<delegations, crossed, turns>>

CloseTurn(q) ==
    /\ turn[q].open
    /\ turn' = [turn EXCEPT ![q] = NoTurn] /\ seen' = [seen EXCEPT ![q] = {}]

CommitTurn(q) ==
    /\ CloseTurn(q)
    /\ delegations' = delegations \cup turn[q].added
    /\ crossed' = (crossed \/ (turn[q].added # {} /\ seen[q] # delegations))
    /\ UNCHANGED turns

FailTurn(q) == CloseTurn(q) /\ UNCHANGED <<delegations, crossed, turns>>

DelegationInit ==
    /\ delegations = {}
    /\ turn = [q \in Turns |-> NoTurn] /\ seen = [q \in Turns |-> {}]
    /\ crossed = FALSE /\ turns = 0

DelegationNext ==
    \E q \in Turns :
          \/ \E a \in Personas : BeginTurn(q, a)
          \/ \E worker \in Personas, parent \in Parents \cup {NoParent} : Delegate(q, worker, parent)
          \/ CommitTurn(q) \/ FailTurn(q)

--------------------------------------------------------------------------------
(* Properties *)

\* "No self-delegation and no cycles": in every set of personas some one has
\* delegated to none of them, so long as no turn has committed over delegations
\* it had not seen.
NoCycles ==
    crossed \/ \A s \in SUBSET Personas : s = {} \/
        \E a \in s : \A d \in delegations : d.manager = a => d.worker \notin s
================================================================================
