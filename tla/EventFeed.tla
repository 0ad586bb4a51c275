------------------------------- MODULE EventFeed -------------------------------
(* The log of events.  A transaction appends rows and gets their numbers at     *)
(* once, but others see them when it commits.  Clients tail the log by number,   *)
(* over a stream or page by page, and resume after the last number they saw; the *)
(* notification centre shows the newest notices of the same log.                 *)
EXTENDS Integers, Sequences, FiniteSets, SequencesExt

CONSTANTS
    Recorders,     \* requests that append to the log
    Tailers,       \* clients, of workspace HomeSpace
    HomeSpace,
    EventKinds,    \* <<workspace, type>> of the events that may be recorded
    NoticeKinds,   \* <<workspace, severity>> of the notices that may be recorded
    FlowIds,       \* workflows that are run
    MaxSeq,        \* bound: rows ever numbered
    MaxArtifacts,  \* bound: tasks that workflows create
    StreamLimit,   \* rows that one poll of a stream reads (200 in the code)
    PullLimits,    \* rows that clients ask for in one page
    NewestLimit    \* notices that the centre shows (50 in the code)

ASSUME FeedAssumption == {StreamLimit, NewestLimit} \subseteq Nat /\ PullLimits \subseteq Nat

VARIABLES
    log,        \* the numbered rows in order, of open and undone transactions too
    commits,    \* sets of numbers in the order their transactions committed
    recording,  \* per request: what its transaction holds
    artifacts,  \* committed tasks of workflows and lines of their audit
    stream,     \* per client: the server's end of its stream
    saw         \* per client: the numbers it received, in order

feedVars == <<log, commits, recording, artifacts, stream, saw>>

EventTypes == {"plan.updated", "block.started", "approval.requested", "agent.state_changed",
               "blocker.raised"}
NoticeType == "integration.notification"
Severities == {"approval", "attention", "info"}

NoTransaction == [open |-> FALSE, rows |-> {}, tasks |-> 0, audits |-> 0]
NoStream == [open |-> FALSE, cursor |-> 0, rows |-> <<>>]

FeedTypeOK ==
    /\ log \in Seq([workspace : {k[1] : k \in EventKinds \cup NoticeKinds} \cup {HomeSpace},
                    type : {k[2] : k \in EventKinds} \cup {NoticeType},
                    severity : Severities \cup {"none"}, flagged : BOOLEAN])
    /\ Len(log) <= MaxSeq
    /\ commits \in Seq(SUBSET (1..MaxSeq))
    /\ recording \in [Recorders -> [open : BOOLEAN, rows : SUBSET (1..MaxSeq),
                                    tasks : 0..MaxArtifacts, audits : Nat]]
    /\ artifacts \in [tasks : 0..MaxArtifacts, audits : Nat]
    /\ DOMAIN stream = Tailers
    /\ \A c \in Tailers : stream[c].open \in BOOLEAN /\ stream[c].rows \in Seq(1..MaxSeq)
    /\ saw \in [Tailers -> Seq(1..MaxSeq)]

FeedInit ==
    /\ log = <<>> /\ commits = <<>>
    /\ recording = [w \in Recorders |-> NoTransaction]
    /\ artifacts = [tasks |-> 0, audits |-> 0]
    /\ stream = [c \in Tailers |-> NoStream]
    /\ saw = [c \in Tailers |-> <<>>]

\* What readers see: rows of transactions that committed.
Committed == UNION {commits[i] : i \in DOMAIN commits}

--------------------------------------------------------------------------------
(* Writing *)

Append1(w, row, audits) ==
    /\ Len(log) < MaxSeq
    /\ log' = Append(log, row)
    /\ recording' = [recording EXCEPT ![w].open = TRUE, ![w].rows = @ \cup {Len(log) + 1},
                                      ![w].audits = @ + audits]
    /\ UNCHANGED <<commits, artifacts, stream, saw>>

RecordEvent(w, kind) ==
    Append1(w, [workspace |-> kind[1], type |-> kind[2], severity |-> "none",
                flagged |-> kind[2] \notin EventTypes], 0)

KnownSeverity(severity) == IF severity \in Severities THEN severity ELSE "info"

Notice(workspace, severity) ==
    [workspace |-> workspace, type |-> NoticeType, severity |-> KnownSeverity(severity),
     flagged |-> FALSE]

RecordNotification(w, kind) == Append1(w, Notice(kind[1], kind[2]), 0)

\* A workflow leaves one artifact and a line in the audit.
FlowToTask(w) ==
    /\ artifacts.tasks + recording[w].tasks < MaxArtifacts
    /\ \A v \in Recorders \ {w} : recording[v].tasks = 0
    /\ recording' = [recording EXCEPT ![w].open = TRUE, ![w].tasks = @ + 1, ![w].audits = @ + 1]
    /\ UNCHANGED <<log, commits, artifacts, stream, saw>>

MailToFollowUp(w) == FlowToTask(w)
FlowToNotice(w) == Append1(w, Notice(HomeSpace, "attention"), 1)

RunWorkflow(w, id) ==
    \/ id = "slack_message_to_task" /\ FlowToTask(w)
    \/ id = "email_request_to_followup" /\ MailToFollowUp(w)
    \/ id = "github_failure_to_notify" /\ FlowToNotice(w)

CommitRows(w) ==
    /\ recording[w].open
    /\ commits' = IF recording[w].rows = {} THEN commits ELSE Append(commits, recording[w].rows)
    /\ artifacts' = [tasks |-> artifacts.tasks + recording[w].tasks,
                     audits |-> artifacts.audits + recording[w].audits]
    /\ recording' = [recording EXCEPT ![w] = NoTransaction]
    /\ UNCHANGED <<log, stream, saw>>

\* The numbers of a transaction that is undone are not given out again.
UndoRows(w) ==
    /\ recording[w].open
    /\ recording' = [recording EXCEPT ![w] = NoTransaction]
    /\ UNCHANGED <<log, commits, artifacts, stream, saw>>

--------------------------------------------------------------------------------
(* Reading *)

\* Mutant: the row of the cursor is read again.
RowsFrom(seq) == {s \in Committed : log[s].workspace = HomeSpace /\ s >= seq}

RowsAfter(seq) == {s \in Committed : log[s].workspace = HomeSpace /\ s > seq}

\* In order, each where as many are below it as come before it.
FirstOf(S, limit) ==
    [i \in 1..(IF Cardinality(S) < limit THEN Cardinality(S) ELSE limit) |->
        CHOOSE s \in S : Cardinality({t \in S : t < s}) = i - 1]

ListSince(seq, limit) == FirstOf(RowsAfter(seq), limit)

\* A client that has seen nothing asks from the beginning.
LastSeen(c) == IF saw[c] = <<>> THEN 0 ELSE Last(saw[c])

\* Mutant: a reconnect starts at the log's end.
ResumeLatest(c) == IF RowsAfter(0) = {} THEN 0 ELSE CHOOSE s \in RowsAfter(0) : RowsAfter(s) = {}

ResumeAt(c) == LastSeen(c)

OpenStream(c) ==
    /\ ~stream[c].open
    /\ stream' = [stream EXCEPT ![c] = [open |-> TRUE, cursor |-> ResumeAt(c), rows |-> <<>>]]
    /\ UNCHANGED <<log, commits, recording, artifacts, saw>>

PollLog(c) ==
    /\ stream[c].open /\ stream[c].rows = <<>>
    /\ ListSince(stream[c].cursor, StreamLimit) # <<>>
    /\ stream' = [stream EXCEPT ![c].rows = ListSince(stream[c].cursor, StreamLimit)]
    /\ UNCHANGED <<log, commits, recording, artifacts, saw>>

SendFrame(c) ==
    /\ stream[c].open /\ stream[c].rows # <<>>
    /\ stream' = [stream EXCEPT ![c].cursor = Head(stream[c].rows), ![c].rows = Tail(@)]
    /\ saw' = [saw EXCEPT ![c] = Append(@, Head(stream[c].rows))]
    /\ UNCHANGED <<log, commits, recording, artifacts>>

\* The connection breaks, between two frames too.
BreakStream(c) ==
    /\ stream[c].open
    /\ stream' = [stream EXCEPT ![c] = NoStream]
    /\ UNCHANGED <<log, commits, recording, artifacts, saw>>

\* The same log by pages, for a client without a stream.
PullPage(c, limit) ==
    /\ ~stream[c].open
    /\ ListSince(LastSeen(c), limit) # <<>>
    /\ saw' = [saw EXCEPT ![c] = @ \o ListSince(LastSeen(c), limit)]
    /\ UNCHANGED <<log, commits, recording, artifacts, stream>>

FeedNext ==
    \/ \E w \in Recorders :
          \/ \E kind \in EventKinds : RecordEvent(w, kind)
          \/ \E kind \in NoticeKinds : RecordNotification(w, kind)
          \/ \E id \in FlowIds : RunWorkflow(w, id)
          \/ CommitRows(w)
          \/ UndoRows(w)
    \/ \E c \in Tailers :
          \/ OpenStream(c)
          \/ PollLog(c)
          \/ SendFrame(c)
          \/ BreakStream(c)
          \/ \E limit \in PullLimits : PullPage(c, limit)

--------------------------------------------------------------------------------
(* The notification centre *)

Notices == {s \in RowsAfter(0) : log[s].type = NoticeType}
NewerOf(S, s) == {t \in S : t > s}

\* Mutant: the oldest are listed.
Oldest == {s \in Notices : Cardinality({t \in Notices : t < s}) < NewestLimit}

\* The newest of the workspace; a severity is picked from these.
NewestNotices == {s \in Notices : Cardinality(NewerOf(Notices, s)) < NewestLimit}
Listed(severity) == {s \in NewestNotices : log[s].severity = severity}
Counted(severity) == Cardinality({s \in Notices : log[s].severity = severity})

--------------------------------------------------------------------------------
(* Properties *)

\* A row that committed after one with a greater number had.
CommittedLate(s) ==
    \E i, j \in DOMAIN commits : i < j /\ s \in commits[j] /\ \E t \in commits[i] : t > s

\* A client that resumes after the last number it saw has missed no row of its
\* workspace below that number, however often its connection broke; only a row whose
\* transaction committed out of the order of the numbers is passed by.
NoEventMissed ==
    \A c \in Tailers : \A s \in Committed :
        log[s].workspace = HomeSpace /\ s <= LastSeen(c)
            => s \in {saw[c][i] : i \in DOMAIN saw[c]} \/ CommittedLate(s)

\* No event reaches a client twice or out of order, and none whose transaction is
\* open or undone, or that is another workspace's, at all.
DeliveredOnce ==
    \A c \in Tailers :
        /\ \A i, j \in DOMAIN saw[c] : i < j => saw[c][i] < saw[c][j]
        /\ \A i \in DOMAIN saw[c] : saw[c][i] \in RowsAfter(0)

\* The centre shows of each severity what its counter counts as long as there are no
\* more notices than it lists, and never leaves out a notice newer than one it shows.
NewestShown ==
    \A severity \in Severities :
        /\ Cardinality(Notices) <= NewestLimit
               => Cardinality(Listed(severity)) = Counted(severity)
        /\ \A s \in Listed(severity) :
              \A t \in NewerOf(Notices, s) : log[t].severity = severity => t \in Listed(severity)

================================================================================
