----------------------------- MODULE ApprovalGates -----------------------------
(***************************************************************************)
(* Three kinds of work behind a row of the Approval Center: coding runs     *)
(* (coding/service.py), MCP tool calls (integrations/mcp/service.py) and    *)
(* versions of the planner's config (planner/revision.py).  None has a      *)
(* worker: a person decides and a later request acts if the row says so.    *)
(*                                                                          *)
(* A request reads its rows when it opens and writes when it commits, the   *)
(* columns it has changed only.                                             *)
(***************************************************************************)
EXTENDS Naturals, Sequences

CONSTANTS Callers,        \* requests that may be open at once
          Works,          \* work that may be asked for
          Tools,          \* tools of the MCP server
          MaxCalls        \* bound: requests opened

ASSUME GateAssumption == MaxCalls \in Nat

VARIABLES
    gated,       \* per work: its kind, tool, approval row and own state
    enabled,     \* enabled_tools of the server
    destructive, \* tools an owner has reclassified as needing an approval
    configs,     \* the applied config events, newest last: the work approved
    call,        \* per request: what it does and what it has read
    word,        \* per work: the last decision committed on it
    muddled,     \* work with a review that repeated what it had read, over a row changed since
    calls

gateRows == <<gated, enabled, destructive, configs>>
gateNotes == <<word, muddled>>
gateVars == <<gateRows, call, gateNotes, calls>>

WorkKind == {"none", "coding", "mcp", "config"}
Decision == {"pending", "approved", "rejected"}
WorkRow == [kind : WorkKind, tool : Tools, approval : Decision,
            state : {"open", "approved", "rejected", "done"}]
NoWork == [kind |-> "none", tool |-> CHOOSE t \in Tools : TRUE, approval |-> "pending", state |-> "open"]
CallKind == {"none", "decide", "review", "perform", "ask", "toggle", "classify"}
Call == [kind : CallKind, work : Works, tool : Tools, saw : WorkRow, verdict : Decision,
         tools : SUBSET Tools, bidden : BOOLEAN]
NoCall == [kind |-> "none", work |-> CHOOSE i \in Works : TRUE, tool |-> NoWork.tool, saw |-> NoWork,
           verdict |-> "pending", tools |-> {}, bidden |-> FALSE]

GateTypeOK ==
    /\ gated \in [Works -> WorkRow] /\ call \in [Callers -> Call]
    /\ enabled \subseteq Tools /\ destructive \subseteq Tools
    /\ \A n \in DOMAIN configs : configs[n] \in Works /\ gated[configs[n]].kind = "config"
    /\ word \in [Works -> Decision] /\ muddled \subseteq Works
    /\ calls \in 0..MaxCalls

--------------------------------------------------------------------------------
(* Requests *)

Begin(q, loaded) ==
    /\ call[q].kind = "none" /\ calls < MaxCalls
    /\ calls' = calls + 1
    /\ call' = [call EXCEPT ![q] = loaded]

Finish(q) == call' = [call EXCEPT ![q] = NoCall] /\ UNCHANGED calls
AtWork(i) == [NoCall EXCEPT !.work = i, !.saw = gated[i], !.bidden = (word[i] = "approved")]

\* A column is written if the request has changed it.
Column(q, field, value) ==
    IF value = call[q].saw[field] THEN gated[call[q].work][field] ELSE value

\* The request is refused or fails: rolled back.
Abandon(q) ==
    /\ call[q].kind # "none"
    /\ Finish(q)
    /\ UNCHANGED <<gateRows, gateNotes>>

--------------------------------------------------------------------------------
(* Asking *)

\* create_coding_run, review_planner: the work and its pending approval.
Propose(i, kind) ==
    /\ gated[i].kind = "none" /\ kind \in {"coding", "config"}
    /\ gated' = [gated EXCEPT ![i].kind = kind]
    /\ UNCHANGED <<enabled, destructive, configs, call, gateNotes, calls>>

\* execute_tool: an enabled tool that only reads runs at once; for any other a
\* blocked job and its approval are added.
OpenAsk(q, i, t) ==
    /\ gated[i].kind = "none" /\ t \in enabled /\ t \in destructive
    /\ Begin(q, [NoCall EXCEPT !.kind = "ask", !.work = i, !.tool = t])
    /\ UNCHANGED <<gateRows, gateNotes>>

Ask(q) ==
    LET c == call[q] IN
    /\ c.kind = "ask" /\ gated[c.work].kind = "none"
    /\ gated' = [gated EXCEPT ![c.work] = [NoWork EXCEPT !.kind = "mcp", !.tool = c.tool]]
    /\ Finish(q)
    /\ UNCHANGED <<enabled, destructive, configs, gateNotes>>

\* set_tool_enabled and override_classification write the whole list they read,
\* with one tool changed.
OpenToggle(q, kind, t, in) ==
    LET list == IF kind = "toggle" THEN enabled ELSE destructive IN
    /\ kind \in {"toggle", "classify"}
    /\ in # (t \in list)
    /\ Begin(q, [NoCall EXCEPT !.kind = kind, !.tools = IF in THEN list \cup {t} ELSE list \ {t}])
    /\ UNCHANGED <<gateRows, gateNotes>>

Toggle(q) ==
    /\ call[q].kind \in {"toggle", "classify"}
    /\ enabled' = IF call[q].kind = "toggle" THEN call[q].tools ELSE enabled
    /\ destructive' = IF call[q].kind = "classify" THEN call[q].tools ELSE destructive
    /\ Finish(q)
    /\ UNCHANGED <<gated, configs, gateNotes>>

--------------------------------------------------------------------------------
(* Deciding *)

\* The Approval Center decides what it finds pending, once.
OpenDecide(q, i, verdict) ==
    /\ gated[i].kind # "none" /\ gated[i].approval = "pending" /\ verdict # "pending"
    /\ Begin(q, [AtWork(i) EXCEPT !.kind = "decide", !.verdict = verdict])
    /\ UNCHANGED <<gateRows, gateNotes>>

Decide(q) ==
    LET c == call[q] IN
    /\ c.kind = "decide"
    /\ gated' = [gated EXCEPT ![c.work].approval = c.verdict]
    /\ word' = [word EXCEPT ![c.work] = c.verdict]
    /\ Finish(q)
    /\ UNCHANGED <<enabled, destructive, configs, muddled>>

\* A patch review decides whatever was decided before; request_changes
\* ("pending") sets the run back to review and leaves the approval as it is.
OpenReview(q, i, verdict) ==
    /\ gated[i].kind = "coding"
    /\ Begin(q, [AtWork(i) EXCEPT !.kind = "review", !.verdict = verdict])
    /\ UNCHANGED <<gateRows, gateNotes>>

ReviewMarking(q, approval) ==
    LET c == call[q]
        i == c.work IN
    /\ c.kind = "review"
    /\ gated' = [gated EXCEPT ![i].state = Column(q, "state", IF c.verdict = "pending" THEN "open" ELSE c.verdict),
                              ![i].approval = Column(q, "approval", approval)]
    /\ word' = IF c.verdict = "pending" THEN word ELSE [word EXCEPT ![i] = c.verdict]
    /\ muddled' = IF c.verdict = c.saw.approval /\ gated[i].approval # c.saw.approval
                  THEN muddled \cup {i} ELSE muddled
    /\ Finish(q)
    /\ UNCHANGED <<enabled, destructive, configs>>

\* Mutant of Review: only the run is marked rejected.
ReviewRunOnly(q) ==
    ReviewMarking(q, IF call[q].verdict = "approved" THEN "approved" ELSE call[q].saw.approval)
Review(q) ==
    ReviewMarking(q, IF call[q].verdict = "pending" THEN call[q].saw.approval ELSE call[q].verdict)

--------------------------------------------------------------------------------
(* Acting *)

\* perform_write, perform_pending_tool, apply_config: refused unless the approval
\* is found approved.  A tool that has run is not run again.
OpenPerform(q, i) ==
    /\ gated[i].kind # "none" /\ gated[i].approval = "approved"
    /\ gated[i].kind = "mcp" => gated[i].state # "done"
    /\ Begin(q, [AtWork(i) EXCEPT !.kind = "perform"])
    /\ UNCHANGED <<gateRows, gateNotes>>

\* The merge is noted, the tool is called, or the config event is appended (as
\* often as it is applied).
Perform(q) ==
    LET c == call[q] IN
    /\ c.kind = "perform"
    /\ gated' = [gated EXCEPT ![c.work].state = Column(q, "state", IF c.saw.kind = "config" THEN "open" ELSE "done")]
    /\ configs' = IF c.saw.kind = "config" THEN Append(configs, c.work) ELSE configs
    /\ Finish(q)
    /\ UNCHANGED <<enabled, destructive, gateNotes>>

--------------------------------------------------------------------------------

\* add_server: every tool is off and none is reclassified; the model starts with
\* tools that need an approval.
GateInit ==
    /\ gated = [i \in Works |-> NoWork] /\ enabled = {} /\ destructive = Tools /\ configs = << >>
    /\ call = [q \in Callers |-> NoCall]
    /\ word = [i \in Works |-> "pending"]
    /\ muddled = {} /\ calls = 0

GateNext ==
    \/ \E i \in Works, kind \in WorkKind : Propose(i, kind)
    \/ \E q \in Callers :
          \/ \E i \in Works, t \in Tools : OpenAsk(q, i, t)
          \/ Ask(q) \/ Toggle(q) \/ Decide(q) \/ Review(q) \/ Perform(q) \/ Abandon(q)
          \/ \E kind \in CallKind, t \in Tools, in \in BOOLEAN : OpenToggle(q, kind, t, in)
          \/ \E i \in Works, verdict \in Decision : OpenDecide(q, i, verdict) \/ OpenReview(q, i, verdict)
          \/ \E i \in Works : OpenPerform(q, i)

--------------------------------------------------------------------------------
(* Properties *)

\* "Refused unless the run's approval is approved": whatever reviewers decide at
\* the same time, here or there, the last decision committed before a request
\* acts was to approve.  A review that only repeats what it has read is the
\* exception: it writes nothing, so a decision made meanwhile stands.
LastWordHolds ==
    \A q \in Callers :
       call[q].kind = "perform" => call[q].bidden \/ call[q].work \in muddled
================================================================================
