----------------------------- MODULE DiagramPatches ----------------------------
(***************************************************************************)
(* A mind map and the AI's proposals for it: what a reply may say             *)
(* (design/dmind_assist.py), the patch it is compiled to and the map it is     *)
(* applied to (dmind_patch.py, packages/ui-bridge/src/diagrams), the contract   *)
(* of a map (dmind_contract.py), and its topics sent to the task list           *)
(* (routers/diagram_tasks.py).                                               *)
(***************************************************************************)
EXTENDS Naturals, Sequences, SequencesExt

CONSTANTS Topics,       \* ids a topic may have
          FirstTopics,  \* those of the map that is opened, the first the root
          MaxOps,       \* operations of a reply
          Pushers,      \* requests that may send tasks at once
          MaxMapping    \* bound on edits, questions and pushes

ASSUME MapAssumption ==
    /\ MaxOps \in Nat /\ MaxMapping \in Nat /\ FirstTopics \in Seq(Topics)
    /\ \A i, j \in DOMAIN FirstTopics : FirstTopics[i] = FirstTopics[j] => i = j

VARIABLES
    map,        \* the document the person sees
    question,   \* the document a question was sent with
    proposal,   \* the proposal shown, with the document it is bound to
    applying,   \* the outcome of an accepted proposal, before the editor takes it
    accepted,   \* what the last applied proposal had promised
    overtaken,  \* an edit was made between a proposal's check and its application
    tasksFor,   \* per topic: how many tasks it has
    pushing,    \* per request: the topics it sends and what it has found
    pushesMet,  \* two pushes of one topic overlapped
    mappings

mapVars == <<map, question, proposal, applying, accepted, overtaken, tasksFor, pushing, pushesMet, mappings>>

Root == "1"     \* "@1", the first topic this reply adds
NoMap == [nodes |-> {}, edges |-> {}, renamed |-> {}]
NoProposal == [base |-> NoMap, ops |-> <<>>]
NoPush == [sent |-> {}, found |-> {}]
EdgeIds == 1..(2 * Cardinality(Topics) + 2)

MapTypeOK ==
    /\ map.nodes \subseteq Topics /\ map.renamed \subseteq map.nodes
    /\ \A edge \in map.edges : edge.id \in EdgeIds /\ edge.source \in Topics /\ edge.target \in Topics
    /\ tasksFor \in [Topics -> Nat] /\ overtaken \in BOOLEAN /\ pushesMet \in BOOLEAN
    /\ mappings \in 0..MaxMapping

--------------------------------------------------------------------------------
(* The contract *)

\* Mutant of Valid: the chain of parents is not followed.
ValidEdges(d) ==
    /\ d.nodes # {} /\ \A edge \in d.edges : {edge.source, edge.target} \subseteq d.nodes
    /\ \A e, f \in d.edges : e.target = f.target => e = f

\* Links between the map's topics, one parent each, and no topic above itself.
Valid(d) ==
    /\ d.nodes # {} /\ \A edge \in d.edges : {edge.source, edge.target} \subseteq d.nodes
    /\ \A e, f \in d.edges : e.target = f.target => e = f
    /\ \A ring \in (SUBSET d.nodes) \ {{}} : \E n \in ring : \A edge \in d.edges : edge.target = n => edge.source \notin ring

--------------------------------------------------------------------------------
(* From a reply to a patch *)

AddUnder(parent) == [op |-> "add", id |-> Root, parent |-> parent]
RemoveTopic(id) == [op |-> "remove", id |-> id, parent |-> Root]
MoveUnder(id, parent) == [op |-> "move", id |-> id, parent |-> parent]
RenameTopic(id) == [op |-> "rename", id |-> id, parent |-> Root]
Named == Topics \cup {Root}
ModelOps == {AddUnder(p) : p \in Named} \cup {RemoveTopic(i) : i \in Named} \cup {RenameTopic(i) : i \in Topics}
            \cup {MoveUnder(i, p) : i \in Named, p \in Named}
Replies == UNION {[1..n -> ModelOps] : n \in 1..MaxOps}

\* A name in a reply: a topic it has added, or one of the map it has not removed.
KnownName(base, s, name) ==
    IF name = Root THEN s.added # <<>> ELSE name \in base.nodes \ s.removed
Meant(s, name) == IF name = Root THEN s.added[1] ELSE name

Free(ids, used) == Min(ids \ used)
FreshEdge(base, s) ==
    Free(EdgeIds, {edge.id : edge \in base.edges} \cup {o.edge.id : o \in {x \in ToSet(s.out) : x.op = "add_edge"}})
FreshTopic(base, s) == CHOOSE t \in Topics : t \notin base.nodes \cup ToSet(s.added)
NewLink(base, s, source, target) ==
    [op |-> "add_edge", edge |-> [id |-> FreshEdge(base, s), source |-> source, target |-> target]]

\* The parents are those of the map: a topic this reply has moved or added keeps them.
Compiled(base, s, o) ==
    CASE ~s.ok -> s
      [] o.op = "add" ->
            IF ~KnownName(base, s, o.parent) \/ Topics \subseteq base.nodes \cup ToSet(s.added) THEN [s EXCEPT !.ok = FALSE]
            ELSE LET t == FreshTopic(base, s) IN
                 [s EXCEPT !.added = Append(@, t),
                           !.out = @ \o <<[op |-> "add_node", id |-> t], NewLink(base, s, Meant(s, o.parent), t)>>]
      [] o.op = "move" ->
            IF ~KnownName(base, s, o.id) \/ ~KnownName(base, s, o.parent) \/ Meant(s, o.id) = Meant(s, o.parent)
            THEN [s EXCEPT !.ok = FALSE]
            ELSE LET old == {edge \in base.edges : edge.target = Meant(s, o.id)}
                     cut == SetToSeq({[op |-> "remove_edge", id |-> edge.id] : edge \in old})
                 IN  [s EXCEPT !.out = @ \o cut \o <<NewLink(base, s, Meant(s, o.parent), Meant(s, o.id))>>]
      [] OTHER ->
            IF ~KnownName(base, s, o.id) THEN [s EXCEPT !.ok = FALSE]
            ELSE [s EXCEPT !.out = Append(@, [op |-> o.op, id |-> Meant(s, o.id)]),
                           !.removed = IF o.op = "remove" THEN @ \cup {Meant(s, o.id)} ELSE @]

Compilation(base, reply) ==
    FoldLeft(LAMBDA s, o : Compiled(base, s, o),
             [ok |-> TRUE, out |-> <<>>, added |-> <<>>, removed |-> {}], reply)

--------------------------------------------------------------------------------
(* From a patch to a map *)

NoResult == [ok |-> FALSE, doc |-> NoMap]
Made(d) == [ok |-> TRUE, doc |-> d]

OneStep(r, o) ==
    LET d == r.doc IN
    CASE ~r.ok -> NoResult
      [] o.op = "add_node" -> IF o.id \in d.nodes THEN NoResult ELSE Made([d EXCEPT !.nodes = @ \cup {o.id}])
      [] o.op = "rename" -> IF o.id \notin d.nodes THEN NoResult ELSE Made([d EXCEPT !.renamed = @ \cup {o.id}])
      [] o.op = "remove" ->
            IF o.id \notin d.nodes \/ d.nodes = {o.id} THEN NoResult
            ELSE Made([nodes |-> d.nodes \ {o.id}, renamed |-> d.renamed \ {o.id},
                       edges |-> {edge \in d.edges : o.id \notin {edge.source, edge.target}}])
      [] o.op = "add_edge" ->
            IF \E edge \in d.edges : edge.id = o.edge.id THEN NoResult ELSE Made([d EXCEPT !.edges = @ \cup {o.edge}])
      [] o.op = "remove_edge" ->
            IF \E edge \in d.edges : edge.id = o.id
            THEN Made([d EXCEPT !.edges = {edge \in @ : edge.id # o.id}]) ELSE NoResult

\* All or nothing.
PatchedMap(d, ops) ==
    LET r == FoldLeft(OneStep, Made(d), ops) IN IF r.ok /\ Valid(r.doc) THEN r ELSE NoResult

\* Mutant of BoundTo: any map will do.
BoundToAny(p, d) == TRUE

\* A proposal is bound to the document it was written for, by its hash.
BoundTo(p, d) == p.base = d

--------------------------------------------------------------------------------
Mapping == mappings < MaxMapping /\ mappings' = mappings + 1

\* The person's own operation.
EditMap(o) ==
    LET c == Compilation(map, <<o>>)
        r == PatchedMap(map, c.out)
    IN
    /\ c.ok /\ r.ok /\ r.doc # map
    /\ map' = r.doc /\ overtaken' = (overtaken \/ applying # NoMap)
    /\ Mapping
    /\ UNCHANGED <<question, proposal, applying, accepted, tasksFor, pushing, pushesMet>>

\* A new question drops the proposal that was shown.
AskAboutMap ==
    /\ question = NoMap /\ question' = map /\ proposal' = NoProposal
    /\ Mapping
    /\ UNCHANGED <<map, applying, accepted, overtaken, tasksFor, pushing, pushesMet>>

\* Mutant of Shown: the proposal is not tried.
ShownUntried(base, c) == c.ok /\ c.out # <<>>

\* A proposal is shown when it has been applied to a copy.
Shown(base, c) == c.ok /\ c.out # <<>> /\ PatchedMap(base, c.out).ok

ReplyWith(reply) ==
    LET c == Compilation(question, reply) IN
    /\ question # NoMap /\ Shown(question, c)
    /\ proposal' = [base |-> question, ops |-> c.out] /\ question' = NoMap
    /\ UNCHANGED <<map, applying, accepted, overtaken, tasksFor, pushing, pushesMet, mappings>>

\* No provider, no answer, an answer out of form, or one that does not apply.
NoReply ==
    /\ question # NoMap /\ question' = NoMap
    /\ UNCHANGED <<map, proposal, applying, accepted, overtaken, tasksFor, pushing, pushesMet, mappings>>

\* apply() reads the map and waits for its hash.
Accept ==
    /\ proposal # NoProposal /\ applying = NoMap
    /\ LET r == PatchedMap(map, proposal.ops) IN
       IF BoundTo(proposal, map) /\ r.ok
       THEN applying' = r.doc /\ accepted' = PatchedMap(proposal.base, proposal.ops).doc /\ UNCHANGED proposal
       ELSE proposal' = NoProposal /\ UNCHANGED <<applying, accepted>>
    /\ UNCHANGED <<map, question, overtaken, tasksFor, pushing, pushesMet, mappings>>

Applied ==
    /\ applying # NoMap
    /\ map' = applying /\ applying' = NoMap /\ proposal' = NoProposal /\ accepted' = NoMap
    /\ UNCHANGED <<question, overtaken, tasksFor, pushing, pushesMet, mappings>>

--------------------------------------------------------------------------------
(* Tasks *)

BeginPush(q, topics) ==
    /\ pushing[q] = NoPush /\ topics \subseteq map.nodes /\ topics # {}
    /\ pushing' = [pushing EXCEPT ![q] = [sent |-> topics, found |-> {t \in topics : tasksFor[t] > 0}]]
    /\ Mapping
    /\ UNCHANGED <<map, question, proposal, applying, accepted, overtaken, tasksFor, pushesMet>>

\* Mutant of Untasked: every topic that was sent.
UntaskedAny(p) == p.sent

Untasked(p) == p.sent \ p.found

CommitPush(q) ==
    LET p == pushing[q] IN
    /\ p # NoPush
    /\ tasksFor' = [t \in Topics |-> IF t \in Untasked(p) THEN tasksFor[t] + 1 ELSE tasksFor[t]]
    /\ pushesMet' = (pushesMet \/ \E t \in p.sent \ p.found : tasksFor[t] > 0)
    /\ pushing' = [pushing EXCEPT ![q] = NoPush]
    /\ UNCHANGED <<map, question, proposal, applying, accepted, overtaken, mappings>>

--------------------------------------------------------------------------------
MapInit ==
    /\ map = [nodes |-> ToSet(FirstTopics), renamed |-> {},
              edges |-> {[id |-> i - 1, source |-> FirstTopics[1], target |-> FirstTopics[i]] : i \in 2..Len(FirstTopics)}]
    /\ question = NoMap /\ proposal = NoProposal /\ applying = NoMap /\ accepted = NoMap /\ overtaken = FALSE
    /\ tasksFor = [t \in Topics |-> 0] /\ pushing = [q \in Pushers |-> NoPush] /\ pushesMet = FALSE /\ mappings = 0

MapNext ==
    \/ \E o \in ModelOps : EditMap(o)
    \/ AskAboutMap \/ NoReply \/ Accept \/ Applied
    \/ \E reply \in Replies : ReplyWith(reply)
    \/ \E q \in Pushers : CommitPush(q) \/ \E topics \in SUBSET Topics : BeginPush(q, topics)

--------------------------------------------------------------------------------
\* The map stays a forest: no topic is above itself, none has two parents.
StaysForest ==
    /\ \A e, f \in map.edges : e.target = f.target => e = f
    /\ \A ring \in (SUBSET map.nodes) \ {{}} : \E n \in ring : ~\E edge \in map.edges : edge.target = n /\ edge.source \in ring

\* A proposal that is shown can be applied to the map it was made for.
ProposalApplies == proposal # NoProposal => PatchedMap(proposal.base, proposal.ops).ok

\* What an accepted proposal makes of the map is what was shown, so no edit made in
\* between is lost; only one made while the hash is computed may be.
NothingOverwritten == applying # NoMap /\ ~overtaken => applying = accepted

\* A topic has one task, however often it is sent, unless two pushes overlap.
OneTaskATopic == pushesMet \/ \A t \in Topics : tasksFor[t] <= 1
================================================================================
