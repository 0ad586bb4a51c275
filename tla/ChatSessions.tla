------------------------------ MODULE ChatSessions -----------------------------
(***************************************************************************)
(* A persisted conversation (orch/chat/service.py): its messages, the counter *)
(* beside them and its title.  A request reads the row when it begins and     *)
(* writes the columns it changed when it commits.                            *)
(***************************************************************************)
EXTENDS Naturals, FiniteSets

CONSTANTS Chatters,     \* requests that may be open at once
          MaxChatting   \* bound on the requests

ASSUME ChatAssumption == MaxChatting \in Nat

VARIABLES
    session,       \* the row: whether it exists, its title, message_count
    lines,         \* numbers (seq) of its messages
    chatting,      \* per request: what it does and what it has read
    typed,         \* the person has typed a title
    interleaved,   \* what requests that crossed may have unsettled
    chattings

chatVars == <<session, lines, chatting, typed, interleaved, chattings>>

NoChatting == [op |-> "none"]

ChatTypeOK ==
    /\ session \in [exists : BOOLEAN, title : {"new", "typed", "auto"}, count : Nat]
    /\ lines \subseteq 1..MaxChatting
    /\ \A q \in Chatters : chatting[q].op \in {"none", "append", "rename", "clear"}
    /\ typed \in BOOLEAN /\ interleaved \in SUBSET {"count", "title"} /\ chattings \in 0..MaxChatting

--------------------------------------------------------------------------------
Beginning(q, call) ==
    /\ session.exists /\ chatting[q] = NoChatting /\ chattings < MaxChatting
    /\ chattings' = chattings + 1
    /\ chatting' = [chatting EXCEPT ![q] = call]
    /\ UNCHANGED <<session, lines, typed, interleaved>>

\* A row that is gone when it is written fails the request.
Ending(q) == session.exists /\ chatting' = [chatting EXCEPT ![q] = NoChatting] /\ UNCHANGED chattings

\* Mutant of TitleAfter: every message of the person gives the title.
TitleAfterAny(role, title) == IF role = "user" THEN "auto" ELSE "kept"

\* The first message of the person titles a conversation without one; a title that
\* is not set is not written.
TitleAfter(role, title) == IF role = "user" /\ title = "new" THEN "auto" ELSE "kept"

BeginAppend(q, role) ==
    Beginning(q, [op |-> "append", seq |-> chattings + 1, count |-> session.count, seen |-> lines, was |-> session.title,
                  title |-> TitleAfter(role, session.title)])

CommitAppend(q) ==
    LET c == chatting[q] IN
    /\ c.op = "append" /\ Ending(q)
    /\ lines' = lines \cup {c.seq}
    /\ session' = [session EXCEPT !.count = c.count + 1, !.title = IF c.title = "kept" THEN @ ELSE c.title]
    /\ interleaved' = interleaved \cup (IF c.seen # lines THEN {"count"} ELSE {})
                                  \cup (IF c.was # session.title THEN {"title"} ELSE {})
    /\ UNCHANGED typed

BeginRename(q) == Beginning(q, [op |-> "rename"])

CommitRename(q) ==
    /\ chatting[q].op = "rename" /\ Ending(q)
    /\ session' = [session EXCEPT !.title = "typed"] /\ typed' = TRUE
    /\ UNCHANGED <<lines, interleaved>>

\* Mutant of CountAfterClear: the counter is left.
CountAfterClearLeft(read) == read

CountAfterClear(read) == 0

\* clear_messages: the messages it saw are deleted; a counter read as 0 is not written.
BeginClear(q) ==
    Beginning(q, [op |-> "clear", seen |-> lines, count |-> session.count])

CommitClear(q) ==
    LET c == chatting[q] IN
    /\ c.op = "clear" /\ Ending(q)
    /\ lines' = lines \ c.seen
    /\ session' = [session EXCEPT !.count = IF c.count = 0 THEN @ ELSE CountAfterClear(c.count)]
    /\ interleaved' = interleaved \cup (IF c.seen # lines THEN {"count"} ELSE {})
    /\ UNCHANGED typed

\* delete_session takes the messages along.
DeleteSession(q) ==
    /\ session.exists /\ chatting[q] = NoChatting /\ chattings < MaxChatting
    /\ chattings' = chattings + 1
    /\ session' = [session EXCEPT !.exists = FALSE] /\ lines' = {}
    /\ UNCHANGED <<chatting, typed, interleaved>>

\* What was open then finds no session.
ChatFails(q) ==
    /\ ~session.exists /\ chatting[q] # NoChatting
    /\ chatting' = [chatting EXCEPT ![q] = NoChatting]
    /\ UNCHANGED <<session, lines, typed, interleaved, chattings>>

--------------------------------------------------------------------------------
ChatInit ==
    /\ session = [exists |-> TRUE, title |-> "new", count |-> 0] /\ lines = {}
    /\ chatting = [q \in Chatters |-> NoChatting] /\ typed = FALSE /\ interleaved = {} /\ chattings = 0

ChatNext ==
    \E q \in Chatters :
        \/ \E role \in {"user", "assistant"} : BeginAppend(q, role)
        \/ CommitAppend(q) \/ BeginRename(q) \/ CommitRename(q)
        \/ BeginClear(q) \/ CommitClear(q) \/ DeleteSession(q) \/ ChatFails(q)

--------------------------------------------------------------------------------
\* The counter a list shows is the number of messages, unless requests crossed.
CountAgrees == session.exists /\ "count" \notin interleaved => session.count = Cardinality(lines)

\* A title the person typed is not replaced by one made from a message, unless the
\* message was being added while it was typed.
TitleStays == typed /\ "title" \notin interleaved => session.title = "typed"
================================================================================
