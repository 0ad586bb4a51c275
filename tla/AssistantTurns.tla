----------------------------- MODULE AssistantTurns ----------------------------
(***************************************************************************)
(* Turns of the assistant (orch/assistant/orchestrator.py): a message is      *)
(* given an intent, its tools run or are prepared behind an approval, and the *)
(* run is written with its answer when the request commits, once.            *)
(***************************************************************************)
EXTENDS Naturals, FiniteSets, Sequences

CONSTANTS Askers,        \* requests that may be open at once
          Sessions,      \* conversations
          AskedFor,      \* intents of the messages
          HistoryTurns,  \* _HISTORY_TURNS
          MaxAsked       \* bound on the turns

Intent == {"date", "email", "plan", "send_email", "coding", "unknown"}

ASSUME AssistantAssumption ==
    HistoryTurns \in Nat \ {0} /\ MaxAsked \in Nat /\ AskedFor \subseteq Intent

VARIABLES
    exchanges,  \* the runs in the order of created_at; "open" until they commit
    inTurn,     \* per request: the place of its run
    opened4,  \* approvals the assistant opened: turn and capability
    jobs        \* coding jobs by their turn

assistantVars == <<exchanges, inTurn, opened4, jobs>>

ReadOnly == {"clock.today", "planner.readiness", "email.status", "approvals.summary"}
LocalWrite == {"planner.generate", "project.create_wizard"}
ApprovalRequired == {"email.send", "calendar.write", "coding.run"}
Blocked == {"mailbox.delete"}

\* What the handler of an intent asks for.
ToolsOf(intent) ==
    CASE intent = "date"       -> {}
      [] intent = "email"      -> {"email.status"}
      [] intent = "plan"       -> {"planner.readiness", "planner.generate"}
      [] intent = "send_email" -> {"email.send"}
      [] intent = "coding"     -> {"coding.run"}
      [] intent = "unknown"    -> {}

AssistantTypeOK ==
    /\ \A k \in DOMAIN exchanges :
          exchanges[k] \in [chat : Sessions, intent : Intent, bypass : BOOLEAN,
                        state : {"open", "succeeded", "failed", "lost"},
                        context : Seq(Nat), before : SUBSET Nat, did : SUBSET (ReadOnly \cup LocalWrite \cup ApprovalRequired)]
    /\ inTurn \in [Askers -> 0..MaxAsked]
    /\ opened4 \subseteq (1..MaxAsked) \X ApprovalRequired
    /\ jobs \subseteq 1..MaxAsked

--------------------------------------------------------------------------------
\* Runs of a conversation that are committed and were answered.
AnsweredTurns(chat) == {k \in DOMAIN exchanges : exchanges[k].chat = chat /\ exchanges[k].state = "succeeded"}

\* Mutant of Recent: the first turns of the conversation are replayed.
RecentOldest(chat) == {k \in AnsweredTurns(chat) : Cardinality({j \in AnsweredTurns(chat) : j < k}) < HistoryTurns}

\* The newest of them,
Recent(chat) == {k \in AnsweredTurns(chat) : Cardinality({j \in AnsweredTurns(chat) : j > k}) < HistoryTurns}

\* _history_messages: replayed oldest first.
History(chat) ==
    LET s == Recent(chat) IN
    [i \in 1..Cardinality(s) |-> CHOOSE k \in s : Cardinality({j \in s : j < k}) = i - 1]

--------------------------------------------------------------------------------
\* Mutant of Gated: a message that asks to skip the approval is obeyed.
GatedUnlessAsked(capability, bypass) == capability \in ApprovalRequired /\ ~bypass

\* requires_approval; wants_to_bypass_approval changes the reply alone.
Gated(capability, bypass) == capability \in ApprovalRequired

\* run_turn until its handler has answered; general questions replay the history.
AskAssistant(q, chat, intent, bypass) ==
    /\ inTurn[q] = 0 /\ Len(exchanges) < MaxAsked
    /\ exchanges' = Append(exchanges, [chat |-> chat, intent |-> intent, bypass |-> bypass, state |-> "open",
                               context |-> IF intent = "unknown" THEN History(chat) ELSE <<>>,
                               before |-> AnsweredTurns(chat), did |-> {}])
    /\ inTurn' = [inTurn EXCEPT ![q] = Len(exchanges) + 1]
    /\ UNCHANGED <<opened4, jobs>>

\* The handler's tools: invoked, or prepared behind an approval; a coding job waits
\* for its own.  _finish.
AnswerTurn(q) ==
    LET k == inTurn[q]
        t == exchanges[k]
        gated == {c \in ToolsOf(t.intent) : Gated(c, t.bypass)} IN
    /\ k # 0
    /\ exchanges' = [exchanges EXCEPT ![k].state = "succeeded", ![k].did = ToolsOf(t.intent) \ gated]
    /\ opened4' = opened4 \cup {<<k, c>> : c \in gated}
    /\ jobs' = IF t.intent = "coding" THEN jobs \cup {k} ELSE jobs
    /\ inTurn' = [inTurn EXCEPT ![q] = 0]

\* An exception of a handler that reads or calls the provider or the planner: the
\* run is kept with its truthful failure.
Fail(q) ==
    LET k == inTurn[q] IN
    /\ k # 0 /\ exchanges[k].intent \in {"email", "plan", "unknown"}
    /\ exchanges' = [exchanges EXCEPT ![k].state = "failed"]
    /\ inTurn' = [inTurn EXCEPT ![q] = 0]
    /\ UNCHANGED <<opened4, jobs>>

\* The process dies or the commit fails: nothing of the turn stays.
LoseTurn(q) ==
    LET k == inTurn[q] IN
    /\ k # 0
    /\ exchanges' = [exchanges EXCEPT ![k].state = "lost"]
    /\ inTurn' = [inTurn EXCEPT ![q] = 0]
    /\ UNCHANGED <<opened4, jobs>>

--------------------------------------------------------------------------------
AssistantInit ==
    /\ exchanges = <<>> /\ inTurn = [q \in Askers |-> 0] /\ opened4 = {} /\ jobs = {}

AssistantNext ==
    \E q \in Askers :
        \/ \E chat \in Sessions, intent \in AskedFor, bypass \in BOOLEAN :
              (bypass => intent \in {"send_email", "coding"}) /\ AskAssistant(q, chat, intent, bypass)
        \/ AnswerTurn(q) \/ Fail(q) \/ LoseTurn(q)

--------------------------------------------------------------------------------
\* The assistant does nothing itself that needs an approval, however it is asked,
\* and each coding job waits for an approval of its turn.
PreparedOnly ==
    /\ \A k \in DOMAIN exchanges : exchanges[k].did \cap (ApprovalRequired \cup Blocked) = {}
    /\ \A k \in jobs : <<k, "coding.run">> \in opened4

\* A general question is asked with what was said just before: the conversation's
\* last turn that was answered when it began is the last one replayed, none of
\* another conversation, failed or lost is, and the order is that of the turns.
LastTurnRemembered ==
    \A k \in DOMAIN exchanges :
        LET c == exchanges[k].context IN
        /\ \A i \in DOMAIN c : c[i] \in exchanges[k].before
        /\ \A i \in DOMAIN c : i > 1 => c[i - 1] < c[i]
        /\ (exchanges[k].intent = "unknown" /\ exchanges[k].before # {}) =>
              /\ c # <<>>
              /\ \A j \in exchanges[k].before : j <= c[Len(c)]
================================================================================
