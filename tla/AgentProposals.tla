----------------------------- MODULE AgentProposals ----------------------------
(***************************************************************************)
(* The tasks one HomePilot persona keeps in DayPilot: its own bookkeeping   *)
(* and the actions it proposes (homepilot/task_mapper.py,                   *)
(* homepilot/action_mapping.py, homepilot_platform.turn), and the decision  *)
(* that carries a proposal out (routers/approvals.py).                      *)
(*                                                                          *)
(* A persona's turn commits the user's message, waits for the persona, then *)
(* reads its tasks and applies the answer.  Requests overlap under READ     *)
(* COMMITTED and write the columns they have changed.                       *)
(***************************************************************************)
EXTENDS Naturals

CONSTANTS Chats,          \* turns and decisions that may be open at once
          Tasks,          \* tasks the persona may create
          MaxChats        \* bound: turns and decisions opened

ASSUME ProposalAssumption == Tasks # {} /\ MaxChats \in Nat

VARIABLES
    task,        \* per task: status, remote_reference.lifecycle, approval
    messages,    \* messages of the conversation, the user's and the persona's
    chat,        \* per request: its step, the rows it has read and as it has changed them
    carried,     \* per task: how often its action was carried out
    lost,        \* tasks a decision on which failed after the action was carried out
    chats

proposalVars == <<task, messages, chat, carried, lost, chats>>

Status == {"none", "active", "blocked", "completed", "waiting_for_approval", "cancelled", "failed"}
Lifecycle == {"plain", "awaiting", "completed", "failed", "rejected"}
TaskRow == [status : Status, lifecycle : Lifecycle, approval : {"none", "pending", "approved", "rejected"}]
NoTask == [status |-> "none", lifecycle |-> "plain", approval |-> "none"]
Rows == [Tasks -> TaskRow]
ChatStep == {"rest", "asking", "applying", "deciding", "executing"}
Chat == [step : ChatStep, about : Tasks, read : Rows, rows : Rows]
NoChat == [step |-> "rest", about |-> CHOOSE i \in Tasks : TRUE,
           read |-> [i \in Tasks |-> NoTask], rows |-> [i \in Tasks |-> NoTask]]

ProposalTypeOK ==
    /\ task \in Rows /\ messages \in 0..(2 * MaxChats)
    /\ chat \in [Chats -> Chat] /\ carried \in [Tasks -> 0..MaxChats]
    /\ lost \subseteq Tasks /\ chats \in 0..MaxChats

--------------------------------------------------------------------------------
(* Requests *)

StartChat(q, begun) ==
    /\ chat[q].step = "rest" /\ chats < MaxChats
    /\ chats' = chats + 1
    /\ chat' = [chat EXCEPT ![q] = begun]

ChatGoesOn(q, changed) == chat' = [chat EXCEPT ![q] = changed] /\ UNCHANGED chats

\* The commit: columns the request has changed, over whatever is there now.
Merged(q, i) ==
    [f \in DOMAIN NoTask |->
        IF chat[q].rows[i][f] = chat[q].read[i][f] THEN task[i][f] ELSE chat[q].rows[i][f]]

\* The request fails and is rolled back; what was carried out stays so.
FailChat(q) ==
    /\ chat[q].step # "rest"
    /\ lost' = IF chat[q].step = "executing" THEN lost \cup {chat[q].about} ELSE lost
    /\ ChatGoesOn(q, NoChat)
    /\ UNCHANGED <<task, messages, carried>>

\* A decision has flushed its approval and its task: both rows are locked.
Deciding(q, i) == \E p \in Chats \ {q} : chat[p].step = "executing" /\ chat[p].about = i

--------------------------------------------------------------------------------
(* A turn *)

\* turn: the user's message is committed before the persona is asked.
Say(q) ==
    /\ StartChat(q, [NoChat EXCEPT !.step = "asking"])
    /\ messages' = messages + 1
    /\ UNCHANGED <<task, carried, lost>>

\* The persona answers: its tasks are read.  (No answer: FailChat.)
Answer(q) ==
    /\ chat[q].step = "asking"
    /\ ChatGoesOn(q, [chat[q] EXCEPT !.step = "applying", !.read = task, !.rows = task])
    /\ UNCHANGED <<task, messages, carried, lost>>

Directive(q, i, row) ==
    /\ chat[q].step = "applying" /\ row # chat[q].rows[i]
    /\ ChatGoesOn(q, [chat[q] EXCEPT !.rows[i] = row])
    /\ UNCHANGED <<task, messages, carried, lost>>

\* _create_task and _create_proposal (with its pending approval).
Create(q, i) ==
    /\ chat[q].rows[i] = NoTask
    /\ \A p \in Chats \ {q} : chat[p].rows[i] = NoTask
    /\ task[i] = NoTask
    /\ \/ Directive(q, i, [NoTask EXCEPT !.status = "active"])
       \/ Directive(q, i, [status |-> "waiting_for_approval", lifecycle |-> "awaiting", approval |-> "pending"])

\* Mutant of IsDraft: the status alone tells a draft.
IsDraftByStatus(row) == row.status = "waiting_for_approval"

\* _is_draft: a task that has, or ever had, an approval.
IsDraft(row) == row.status = "waiting_for_approval" \/ row.approval # "none"

\* task.complete and task.block; a persona's update of words changes no column
\* that is modelled.
Complete(q, i) ==
    /\ chat[q].rows[i].status # "none" /\ ~IsDraft(chat[q].rows[i])
    /\ Directive(q, i, [chat[q].rows[i] EXCEPT !.status = "completed"])

Block(q, i) ==
    /\ chat[q].rows[i].status # "none"
    /\ Directive(q, i, [chat[q].rows[i] EXCEPT !.status = "blocked"])

CommitTurns(q) ==
    /\ chat[q].step = "applying"
    /\ \A i \in Tasks : chat[q].rows[i] # chat[q].read[i] => ~Deciding(q, i)
    /\ task' = [i \in Tasks |-> Merged(q, i)]
    /\ messages' = messages + 1
    /\ ChatGoesOn(q, NoChat)
    /\ UNCHANGED <<carried, lost>>

--------------------------------------------------------------------------------
(* A decision *)

\* decide finds the approval pending.
OpenDecision(q, i) ==
    /\ task[i].approval = "pending"
    /\ StartChat(q, [NoChat EXCEPT !.step = "deciding", !.about = i])
    /\ UNCHANGED <<task, messages, carried, lost>>

\* Its verdict is flushed, which waits for another decision's; the task is read
\* only then, and left as its outcome says.
Outcome(q, verdict, status, lifecycle) ==
    LET i == chat[q].about IN
    /\ chat[q].step = "deciding" /\ ~Deciding(q, i)
    /\ ChatGoesOn(q, [chat[q] EXCEPT !.step = "executing",
                        !.read = [task EXCEPT ![i].approval = "pending"],
                        !.rows = [task EXCEPT ![i] = [status |-> status, lifecycle |-> lifecycle,
                                                      approval |-> verdict]]])

\* reject: nothing is carried out now.
RejectProposal(q) ==
    /\ Outcome(q, "rejected", "cancelled", "rejected")
    /\ UNCHANGED <<task, messages, carried, lost>>

\* execute_approved: a task that is final is left alone; otherwise the executor
\* acts, or there is none or it fails.
ExecuteUnless(q, final) ==
    LET row == task[chat[q].about] IN
    /\ \/ final /\ Outcome(q, "approved", row.status, row.lifecycle) /\ UNCHANGED carried
       \/ ~final /\ Outcome(q, "approved", "completed", "completed")
          /\ carried' = [carried EXCEPT ![chat[q].about] = @ + 1]
       \/ ~final /\ Outcome(q, "approved", "failed", "failed") /\ UNCHANGED carried
    /\ UNCHANGED <<task, messages, lost>>

\* Mutant of ExecuteApproved: a completed task is the only final one by its status.
ExecuteByStatus(q) == ExecuteUnless(q, task[chat[q].about].status = "completed")
ExecuteApproved(q) ==
    ExecuteUnless(q, task[chat[q].about].lifecycle \in {"completed", "rejected", "failed"})

CommitDecision(q) ==
    /\ chat[q].step = "executing"
    /\ task' = [task EXCEPT ![chat[q].about] = Merged(q, chat[q].about)]
    /\ ChatGoesOn(q, NoChat)
    /\ UNCHANGED <<messages, carried, lost>>

--------------------------------------------------------------------------------

ProposalInit ==
    /\ task = [i \in Tasks |-> NoTask] /\ messages = 0
    /\ chat = [q \in Chats |-> NoChat]
    /\ carried = [i \in Tasks |-> 0] /\ lost = {} /\ chats = 0

ProposalNext ==
    \E q \in Chats :
       \/ Say(q) \/ Answer(q) \/ CommitTurns(q) \/ FailChat(q)
       \/ \E i \in Tasks : Create(q, i) \/ Complete(q, i) \/ Block(q, i) \/ OpenDecision(q, i)
       \/ RejectProposal(q) \/ ExecuteApproved(q) \/ CommitDecision(q)

--------------------------------------------------------------------------------
(* Properties *)

\* "A draft is never completed" by what a persona says, in one turn or several,
\* beside whatever decisions: a proposal is completed only if its action was
\* carried out.
DraftsNeverComplete ==
    \A i \in Tasks :
       task[i].lifecycle # "plain" /\ task[i].status = "completed" => carried[i] > 0

\* "Idempotent-safe: an already-terminal task is left alone": however many
\* reviewers find the approval pending, the action is carried out once, unless a
\* decision fails after it.
CarriedOutOnce == \A i \in Tasks \ lost : carried[i] <= 1
================================================================================
