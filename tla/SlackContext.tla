------------------------------ MODULE SlackContext ------------------------------
(***************************************************************************)
(* What a prepared Slack message knows and says (slack_workspace/context.py,  *)
(* compose.py, settings.py, transport.py; prepare_draft of service.py).       *)
(*                                                                          *)
(* Facts are gathered from the sources the workspace has granted and that are *)
(* connected, about the project the conversation is about; those that the     *)
(* recipient must not be told are removed before anything is composed, and     *)
(* the composed lines quote the rest.  A fact is where it is from, what it is  *)
(* about, who may hear it and its place in that source; its wording is left    *)
(* out.                                                                       *)
(*                                                                          *)
(* A request loads the conversation, the preferences and the connections when  *)
(* it opens and writes the draft, and the conversation's audience if it        *)
(* changed it, when it closes.  One conversation; the last draft is kept.      *)
(***************************************************************************)
EXTENDS Naturals, Sequences, FiniteSets

CONSTANTS Composers,        \* requests that may be open at once
          Projects,         \* projects of the workspace
          NoProject,
          NameLength,       \* length of a project's name
          OnHold,          \* projects that are blocked
          Records,          \* open tasks, indexed documents and runs, newest first
          ReadAhead,        \* rows read of each kind, and how many of them are kept
          Told,
          Said,             \* texts: the projects named or hinted at, the titles
          GrantChoices,     \* allow-lists a person may store
          MaxComposed       \* bound on requests, messages, settings and connections

ASSUME ContextAssumption ==
    /\ NoProject \notin Projects /\ NameLength \in [Projects -> Nat] /\ OnHold \subseteq Projects
    /\ \A i \in DOMAIN Records : Records[i].of \in Projects \cup {NoProject}
    /\ \A text \in Said : text.named \cup text.hinted \subseteq Projects
    /\ MaxComposed \in Nat

VARIABLES
    preference,  \* the row of slack_preferences
    linked,      \* connected providers a source requires
    audience,    \* of the conversation
    exchanged,      \* messages of the conversation with a row, newest last
    composing,   \* per request: what it has loaded
    composed,    \* the draft prepared last
    composings

contextVars == <<preference, linked, audience, exchanged, composing, composed, composings>>

--------------------------------------------------------------------------------
(* Settings and transport *)

Sources == {"conversation", "projects", "tasks", "documents", "github", "email"}
Requires == [github |-> "github", email |-> "email"]
Audiences == {"internal", "external", "self"}

\* normalize_sources: the conversation is always on.
NormalSources(wanted) == wanted \cup {"conversation"}

\* Mutant of AllowedSources: what was granted, connected or not.
GrantedSources(stored, connected) == NormalSources(stored)

\* allowed_context_sources: what was granted and can be read.
AllowedSources(stored, connected) ==
    {s \in NormalSources(stored) : s \in DOMAIN Requires => Requires[s] \in connected}

\* drafting_allowed, should_draft: a conversation and a message that earn a draft.
DraftingAllowed(row, m) ==
    row.auto /\ m.askedOf /\ (m.direct => row.direct) /\ (~m.direct => m.mentioned)

\* Mutant of Human: an application's posts pass.
HumanOrApp(e) == e.sort = "message" /\ e.by # "edit"

\* normalize: what someone has said, as opposed to edits, joins and the posts of
\* applications, DayPilot's own among them.
Human(e) == e.sort = "message" /\ e.by = "person"

\* verify_signature: signed with the secret and not older than five minutes.
Trusted(e) == e.signed /\ e.fresh

--------------------------------------------------------------------------------
(* Gathering *)

\* The first n of rows, which are named by their places in Records.
FirstRows(rows, n) == {i \in rows : Cardinality({j \in rows : j < i}) < n}
Longest(S) == {p \in S : \A o \in S : NameLength[o] <= NameLength[p]}

\* Mutant of ProjectFor: a word of a name counts as much as the name.
ProjectHinted(text) ==
    IF text.named \cup text.hinted = {} THEN {NoProject} ELSE Longest(text.named \cup text.hinted)

\* _project_for: of the projects named in full the longest name, failing that of
\* those of which a distinctive word is used; equal names in the rows' order.
ProjectFor(text) ==
    IF text.named # {} THEN Longest(text.named)
    ELSE IF text.hinted # {} THEN Longest(text.hinted) ELSE {NoProject}

Fact(from, about, who, at) == [from |-> from, about |-> about, who |-> who, at |-> at]

ThreadFacts(messages) ==
    {Fact("conversation", NoProject, "anyone", i) : i \in 1..(IF Len(messages) < 3 THEN Len(messages) ELSE 3)}
ProjectFacts(p) == IF p = NoProject THEN {} ELSE {Fact("projects", p, "internal", 1)}
EmailFacts(p) == IF p \in OnHold THEN {Fact("email", p, "restricted", 1)} ELSE {}

\* Mutant of Scoped: any row will do when the conversation is about no project.
ScopedLoosely(rows, p, text) == rows

\* _relevant: without a project only what the message names.
Scoped(rows, p, text) ==
    IF p # NoProject THEN rows ELSE {i \in rows : Records[i].title \in text.titles}

\* _task_source, _document_source: the newest rows, of the project if there is one.
NewestOf(kind, p) ==
    FirstRows({i \in DOMAIN Records : Records[i].kind = kind /\ (p # NoProject => Records[i].of = p)},
              ReadAhead[kind])
RowFacts(kind, rows) == {Fact(kind, Records[i].of, "internal", i) : i \in rows}
ListFacts(kind, p, text) == RowFacts(kind, FirstRows(Scoped(NewestOf(kind, p), p, text), Told[kind]))

\* _github_source: the newest run, whatever it is about if there is no project.
GithubFacts(p) == RowFacts("github", NewestOf("github", p))

\* assemble: a source that is not allowed is not consulted.
Assemble(r, p) ==
    LET If(source, facts) == IF source \in r.allowed THEN facts ELSE {} IN
    ThreadFacts(r.history) \cup ProjectFacts(p)
        \cup If("tasks", ListFacts("tasks", p, r.text))
        \cup If("documents", ListFacts("documents", p, r.text))
        \cup If("github", GithubFacts(p)) \cup If("email", EmailFacts(p))

Rank == [anyone |-> 0, internal |-> 1, restricted |-> 2]
Limit == [external |-> "anyone", internal |-> "internal", self |-> "restricted"]

\* Mutant of MayHear: one rank too far.
MayHearMore(fact, recipient) == Rank[fact.who] <= Rank[Limit[recipient]] + 1
MayHear(fact, recipient) == Rank[fact.who] <= Rank[Limit[recipient]]

\* redact_for_recipient, before anything is composed; what was removed is noted
\* without its text.
Kept(facts, r) == {f \in facts : ~r.protect \/ MayHear(f, r.audience)}
Withheld(facts, r) ==
    {[from |-> f.from, who |-> f.who] : f \in {g \in facts : r.protect /\ ~MayHear(g, r.audience)}}

\* The order in which assemble asks the sources.
SourceOrder == [conversation |-> 0, projects |-> 1, tasks |-> 2, documents |-> 3, github |-> 4, email |-> 5]
Sooner(f, g) == SourceOrder[f.from] < SourceOrder[g.from] \/ (f.from = g.from /\ f.at < g.at)
FirstFacts(facts, n) == {f \in facts : Cardinality({g \in facts : Sooner(g, f)}) < n}

\* Mutant of Lines: quotes of the conversation are content too.
QuotingLines(facts, kind) == FirstFacts(facts, IF kind = "channel" THEN 5 ELSE 3)

\* draft_text: three lines, five in a channel; quotes are no content.
Lines(facts, kind) ==
    FirstFacts({f \in facts : f.from # "conversation"}, IF kind = "channel" THEN 5 ELSE 3)

--------------------------------------------------------------------------------

NotComposing == [op |-> "none"]
NotComposed == [op |-> "none"]

ContextTypeOK ==
    /\ preference.sources \subseteq Sources
    /\ linked \subseteq {"github", "email"} /\ audience \in Audiences
    /\ \A i \in DOMAIN exchanged : exchanged[i] \in Said
    /\ \A q \in Composers : composing[q].op \in {"none", "event", "compose"}
    /\ composed.op \in {"none", "event", "compose"} /\ composings \in 0..MaxComposed

\* prepare_draft has loaded all it works from.
Load(q, op, text, e, as, asked, history) ==
    /\ composing[q] = NotComposing /\ composings < MaxComposed /\ composings' = composings + 1
    /\ composing' = [composing EXCEPT ![q] =
          [op |-> op, text |-> text, event |-> e, audience |-> as, asked |-> asked,
           was |-> audience, history |-> IF preference.previous THEN history ELSE <<>>,
           stored |-> preference.sources, connected |-> linked,
           allowed |-> AllowedSources(preference.sources, linked),
           protect |-> preference.protect]]
    /\ UNCHANGED <<preference, linked, audience, exchanged, composed>>

\* events, ingest: an event names no audience, and upsert_conversation takes
\* "internal" for it.  The message is part of its own history.
EventDraft(q, e) ==
    /\ Trusted(e) /\ Human(e) /\ DraftingAllowed(preference, e)
    /\ Load(q, "event", e.text, e, "internal", "none", Append(exchanged, e.text))

\* compose: a person starts a message to a recipient and says who it is.
ComposeTo(q, text, asked) == Load(q, "compose", text, NotComposed, asked, asked, exchanged)

\* compose and draft_reply in a conversation that is there.
ComposeIn(q, text) == Load(q, "compose", text, NotComposed, audience, "none", exchanged)

CommitDraft(q) ==
    LET r == composing[q] IN
    /\ r # NotComposing
    /\ \E p \in IF "projects" \in r.allowed THEN ProjectFor(r.text) ELSE {NoProject} :
          LET facts == Assemble(r, p)
              kept == Kept(facts, r) IN
          composed' = [op |-> r.op, request |-> r, facts |-> facts, kept |-> kept,
                       withheld |-> Withheld(facts, r),
                       lines |-> Lines(kept, IF r.op = "event" THEN "channel" ELSE "im")]
    /\ exchanged' = IF r.op = "event" THEN Append(exchanged, r.text) ELSE exchanged
    /\ audience' = IF r.audience # r.was THEN r.audience ELSE audience
    /\ composing' = [composing EXCEPT ![q] = NotComposing]
    /\ UNCHANGED <<preference, linked, composings>>

FailDraft(q) ==
    /\ composing[q] # NotComposing /\ composing' = [composing EXCEPT ![q] = NotComposing]
    /\ UNCHANGED <<preference, linked, audience, exchanged, composed, composings>>

\* update_preferences: only the keys that are sent.
UpdatePreferences(patch) ==
    /\ composings < MaxComposed /\ composings' = composings + 1
    /\ preference' = [k \in DOMAIN preference |->
          IF k \notin DOMAIN patch THEN preference[k]
          ELSE IF k = "sources" THEN NormalSources(patch[k]) ELSE patch[k]]
    /\ UNCHANGED <<linked, audience, exchanged, composing, composed>>

\* connected_providers: an integration is connected or disconnected elsewhere.
SwitchProvider(provider) ==
    /\ composings < MaxComposed /\ composings' = composings + 1
    /\ linked' = IF provider \in linked THEN linked \ {provider} ELSE linked \cup {provider}
    /\ UNCHANGED <<preference, audience, exchanged, composing, composed>>

\* What Slack may send: a person's message, an application's, DayPilot's own that
\* comes back, an edit; a captured request that is sent again.
SlackEvents ==
    [sort : {"message"}, by : {"person", "daypilot"}, text : Said, signed : {TRUE},
     fresh : {TRUE}, direct : {FALSE}, mentioned : {TRUE}, askedOf : {TRUE}]
    \cup [sort : {"message", "edit"}, by : {"person"}, text : Said, signed : BOOLEAN,
          fresh : BOOLEAN, direct : {TRUE}, mentioned : {FALSE}, askedOf : BOOLEAN]

Patches ==
    [sources : GrantChoices] \cup [protect : BOOLEAN] \cup [previous : BOOLEAN]
    \cup [auto : BOOLEAN, direct : BOOLEAN]

ContextInit ==
    /\ preference = [sources |-> {"conversation", "projects", "tasks", "documents"},
                     previous |-> TRUE, protect |-> TRUE, auto |-> TRUE, direct |-> TRUE]
    /\ linked = {} /\ audience = "internal" /\ exchanged = <<>>
    /\ composing = [q \in Composers |-> NotComposing] /\ composed = NotComposed
    /\ composings = 0

ContextNext ==
    \/ \E q \in Composers :
          \/ \E e \in SlackEvents : EventDraft(q, e)
          \/ \E text \in Said : ComposeIn(q, text) \/ \E a \in Audiences : ComposeTo(q, text, a)
          \/ CommitDraft(q) \/ FailDraft(q)
    \/ \E patch \in Patches : UpdatePreferences(patch)
    \/ \E provider \in {"github", "email"} : SwitchProvider(provider)

--------------------------------------------------------------------------------
(* Properties *)

Composed == composed # NotComposed
DraftFor == composed.request

\* A message that a person addresses to someone outside the company tells nothing
\* internal, and one inside nothing restricted, whatever an event does to the
\* conversation's audience meanwhile, as long as recipients were protected when it
\* was asked for; what was left out is noted with its source.
RecipientProtected ==
    Composed /\ DraftFor.protect /\ DraftFor.asked # "none" =>
        /\ \A f \in composed.kept :
              /\ DraftFor.asked = "external" => f.who = "anyone"
              /\ DraftFor.asked = "internal" => f.who # "restricted"
        /\ \A f \in composed.facts \ composed.kept :
              [from |-> f.from, who |-> f.who] \in composed.withheld

\* A draft knows nothing of a source that was not granted, or that was not connected,
\* when it was asked for.
OnlyGranted ==
    Composed => \A f \in composed.facts :
        f.from = "conversation" \/ (f.from \in DraftFor.stored
            /\ (f.from \in {"github", "email"} => f.from \in DraftFor.connected))

\* A conversation that names a project is told of no other, and one that names
\* nothing is told of no task and of no document.
EvidenceOnTopic ==
    Composed => \A f \in composed.facts :
        /\ DraftFor.text.named # {} /\ f.from # "conversation" /\ "projects" \in DraftFor.stored =>
              f.about \in DraftFor.text.named
        /\ DraftFor.text = [named |-> {}, hinted |-> {}, titles |-> {}] =>
              f.from \notin {"tasks", "documents"}

\* The lines of a draft are facts it may tell, and never quotes of what was said;
\* what it answers was said by a person, a short while ago.
LinesAreEvidence ==
    Composed =>
        /\ \A f \in composed.lines : f \in composed.kept /\ f.from # "conversation"
        /\ composed.op = "event" => DraftFor.event.by = "person" /\ DraftFor.event.fresh
================================================================================
