----------------------------- MODULE CalendarStore -----------------------------
(***************************************************************************)
(* The calendar (orch/calendar, gw/calendar_oauth.py): connections made by a  *)
(* consent's callback, the local event store and its conflicts, and what a    *)
(* meeting brief may read.                                                   *)
(*                                                                          *)
(* A request reads when it begins and writes when it commits.  No index makes *)
(* an event or a workspace's connection of a provider unique.                *)
(***************************************************************************)
EXTENDS Naturals, FiniteSets

CONSTANTS Dialers,           \* requests that may be open at once
          SeedSpan,          \* per event of the provider: when it starts and ends
          DraftSpans,        \* times of drafts
          MaxDials           \* bound on the requests

\* The provider's events have identifiers of their own.
ASSUME CalendarAssumption ==
    /\ MaxDials \in Nat /\ "draft" \notin DOMAIN SeedSpan
    /\ \A e \in DOMAIN SeedSpan : SeedSpan[e] \in Nat \X Nat
    /\ DraftSpans \subseteq Nat \X Nat

VARIABLES
    connected,    \* per provider: rows of the workspace's connections
    events,       \* rows of the event store; copy tells rows of one event apart
    policy,       \* CalendarSettings: sources of a brief, mode of private events
    dialing,      \* per request: what it does and what it has read
    lastSaid,     \* per setting: what the last committed patch said
    doubled,      \* what requests may have written twice
    dials

calendarVars == <<connected, events, policy, dialing, lastSaid, doubled, dials>>

\* One calendar and one other provider; what a brief may be granted.
Provider == {"google_calendar", "slack"}
Source == {"event", "tasks", "slack"}
AlwaysOn == {"event"}
DefaultSources == {"event", "tasks"}
NoDial == [op |-> "none"]
NoPolicy == [exists |-> FALSE, sources |-> DefaultSources, private |-> "metadata_only"]

CalendarTypeOK ==
    /\ connected \in [Provider -> Nat]
    /\ events \subseteq [of : DOMAIN SeedSpan \cup {"draft"}, copy : Nat, start : Nat, end : Nat]
    /\ policy \in [exists : BOOLEAN, sources : SUBSET Source, private : {"metadata_only", "full", "skip"}]
    /\ \A q \in Dialers : dialing[q].op \in {"none", "callback", "sync", "patch"}
    /\ lastSaid \in [sources : SUBSET Source, private : {"metadata_only", "full", "skip"}]
    /\ doubled \subseteq Provider \cup {"events"} /\ dials \in 0..MaxDials

--------------------------------------------------------------------------------
(* Conflicts *)

\* Ordered by start; of two rows of one start, one is first.
Before(a, b) ==
    \/ a.start < b.start
    \/ a.start = b.start /\ a # b /\ a = CHOOSE x \in {a, b} : TRUE

\* detect_conflicts: of two rows the later one starts before the earlier one ends.
Conflicts(rows) == {p \in rows \X rows : Before(p[1], p[2]) /\ p[2].start < p[1].end}

\* Mutant of InWindow: rows that start in the window.
InWindowStarts(lo, hi) == {x \in events : x.start < hi /\ x.start >= lo}

\* events_in_window: a row that ends as the window opens is in it.
InWindow(lo, hi) == {x \in events : x.start < hi /\ x.end >= lo}

--------------------------------------------------------------------------------
DialCounted(q) == dialing[q] = NoDial /\ dials < MaxDials /\ dials' = dials + 1

\* Mutant of Recorded: a callback adds a row without looking for one.
RecordedAnew == "insert"

\* handle_callback looks for the workspace's row; scalar_one_or_none fails on two.
Recorded == IF connected["google_calendar"] = 0 THEN "insert" ELSE "update"

BeginCalendarCallback(q) ==
    /\ DialCounted(q) /\ connected["google_calendar"] <= 1
    /\ dialing' = [dialing EXCEPT ![q] = [op |-> "callback", as |-> Recorded,
                                          base |-> connected["google_calendar"]]]
    /\ UNCHANGED <<connected, events, policy, lastSaid, doubled>>

\* A row that is gone when it is updated fails the request.
CommitCalendarCallback(q) ==
    LET c == dialing[q] IN
    /\ c.op = "callback"
    /\ IF c.as = "insert"
       THEN /\ connected' = [connected EXCEPT !["google_calendar"] = @ + 1]
            /\ doubled' = doubled \cup (IF connected["google_calendar"] # c.base
                                        THEN {"google_calendar"} ELSE {})
       ELSE UNCHANGED <<connected, doubled>>
    /\ dialing' = [dialing EXCEPT ![q] = NoDial]
    /\ UNCHANGED <<events, policy, lastSaid, dials>>

\* create_connection (the Integration Gateway's) never looks for a row.
Connect(q, p) ==
    /\ DialCounted(q)
    /\ connected' = [connected EXCEPT ![p] = @ + 1]
    /\ doubled' = doubled \cup (IF connected[p] > 0 THEN {p} ELSE {})
    /\ UNCHANGED <<events, policy, dialing, lastSaid>>

\* disconnect_connection
DisconnectOne(q, p) ==
    /\ DialCounted(q) /\ connected[p] > 0
    /\ connected' = [connected EXCEPT ![p] = @ - 1]
    /\ UNCHANGED <<events, policy, dialing, lastSaid, doubled>>

--------------------------------------------------------------------------------
Copies(e) == {x \in events : x.of = e}

\* Mutant of MissingEvents: events are added without looking for them.
AllEvents == DOMAIN SeedSpan

\* sync_events looks for each event; scalar_one_or_none fails on two.
MissingEvents == {e \in DOMAIN SeedSpan : Copies(e) = {}}

BeginCalendarSync(q) ==
    /\ DialCounted(q) /\ \A e \in DOMAIN SeedSpan : Cardinality(Copies(e)) <= 1
    /\ dialing' = [dialing EXCEPT ![q] = [op |-> "sync", missing |-> MissingEvents,
                                          had |-> {e \in DOMAIN SeedSpan : Copies(e) # {}}]]
    /\ UNCHANGED <<connected, events, policy, lastSaid, doubled>>

CommitCalendarSync(q) ==
    LET c == dialing[q] IN
    /\ c.op = "sync"
    /\ events' = events \cup {[of |-> e, copy |-> Cardinality(Copies(e)) + 1,
                               start |-> SeedSpan[e][1], end |-> SeedSpan[e][2]] : e \in c.missing}
    /\ doubled' = doubled \cup (IF \E e \in DOMAIN SeedSpan \ c.had : Copies(e) # {}
                                THEN {"events"} ELSE {})
    /\ dialing' = [dialing EXCEPT ![q] = NoDial]
    /\ UNCHANGED <<connected, policy, lastSaid, dials>>

\* propose_event_draft: any two times; the approval it opens writes no event.
ProposeDraft(q, span) ==
    /\ DialCounted(q)
    /\ events' = events \cup {[of |-> "draft", copy |-> dials + 1, start |-> span[1], end |-> span[2]]}
    /\ UNCHANGED <<connected, policy, dialing, lastSaid, doubled>>

--------------------------------------------------------------------------------
\* normalize_sources
Normalized(sources) == sources \cup AlwaysOn

\* Mutant of PolicyWritten: the row is written as it was read.
PolicyWrittenWhole(c) == [exists |-> TRUE,
    sources |-> IF c.field = "sources" THEN Normalized(c.value) ELSE c.old.sources,
    private |-> IF c.field = "private" THEN c.value ELSE c.old.private]

\* update_settings writes the columns the patch names.
PolicyWritten(c) == [exists |-> TRUE,
    sources |-> IF c.field = "sources" THEN Normalized(c.value) ELSE policy.sources,
    private |-> IF c.field = "private" THEN c.value ELSE policy.private]

BeginPatchPolicy(q, field, value) ==
    /\ DialCounted(q)
    /\ dialing' = [dialing EXCEPT ![q] = [op |-> "patch", field |-> field, value |-> value,
                                          old |-> policy]]
    /\ UNCHANGED <<connected, events, policy, lastSaid, doubled>>

\* get_settings inserts the first row; the unique index refuses a second.
CommitPatchPolicy(q) ==
    LET c == dialing[q] IN
    /\ c.op = "patch"
    /\ dialing' = [dialing EXCEPT ![q] = NoDial]
    /\ IF ~c.old.exists /\ policy.exists THEN UNCHANGED <<policy, lastSaid>>
       ELSE /\ policy' = PolicyWritten(c)
            /\ lastSaid' = [lastSaid EXCEPT ![c.field] = c.value]
    /\ UNCHANGED <<connected, events, doubled, dials>>

\* allowed_context_sources: what was granted, of what is connected.
Allowed == {s \in policy.sources \cup AlwaysOn : s = "slack" => connected["slack"] > 0}

--------------------------------------------------------------------------------
CalendarInit ==
    /\ connected = [p \in Provider |-> 0] /\ events = {} /\ policy = NoPolicy
    /\ dialing = [q \in Dialers |-> NoDial]
    /\ lastSaid = [sources |-> DefaultSources, private |-> "metadata_only"]
    /\ doubled = {} /\ dials = 0

CalendarNext ==
    \E q \in Dialers :
        \/ BeginCalendarCallback(q) \/ CommitCalendarCallback(q)
        \/ \E p \in Provider : Connect(q, p) \/ DisconnectOne(q, p)
        \/ BeginCalendarSync(q) \/ CommitCalendarSync(q)
        \/ \E span \in DraftSpans : ProposeDraft(q, span)
        \/ \E sources \in {{}, {"tasks", "slack"}} : BeginPatchPolicy(q, "sources", sources)
        \/ \E mode \in {"full", "skip"} : BeginPatchPolicy(q, "private", mode)
        \/ CommitPatchPolicy(q)

--------------------------------------------------------------------------------
\* Callbacks and syncs find at most one row of what they look for, unless they
\* crossed or the gateway connected the provider a second time.
CalendarReadable ==
    /\ connected["google_calendar"] > 1 => "google_calendar" \in doubled
    /\ (\E e \in DOMAIN SeedSpan : Cardinality(Copies(e)) > 1) => "events" \in doubled

Proper == {x \in events : x.start < x.end}
Larger(m, n) == IF m < n THEN n ELSE m
Smaller(m, n) == IF m < n THEN m ELSE n

\* Of rows that take time, two conflict exactly when they overlap, and a window's
\* answer names every two that overlap in it, those that began before it too.
ConflictsFound ==
    /\ \A a, b \in Proper : a # b =>
          ((<<a, b>> \in Conflicts(events) \/ <<b, a>> \in Conflicts(events))
           <=> Larger(a.start, b.start) < Smaller(a.end, b.end))
    /\ \A lo, hi \in 0..9 : \A a, b \in Proper :
          (a # b /\ Larger(lo, Larger(a.start, b.start)) < Smaller(hi, Smaller(a.end, b.end)))
          => <<a, b>> \in Conflicts(InWindow(lo, hi)) \/ <<b, a>> \in Conflicts(InWindow(lo, hi))

\* A brief reads what the last patch granted, the event itself and no more, and a
\* private event gives what was last said, whichever patches crossed.
SettingsAsSaid ==
    /\ Allowed \subseteq lastSaid.sources \cup AlwaysOn
    /\ policy.private = lastSaid.private
================================================================================
