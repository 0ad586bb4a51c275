------------------------------ MODULE SlackIngest ------------------------------
(***************************************************************************)
(* Messages arriving in one Slack conversation and the replies prepared for *)
(* them (slack_workspace/service.py).  Slack delivers an event again until   *)
(* it is answered with success, and may deliver it twice at once.            *)
(*                                                                          *)
(* A delivery is one READ COMMITTED transaction.  The conversation's row    *)
(* and the unique keys on conversation and message make deliveries wait for *)
(* one another; the one that waited fails if the other commits its row.     *)
(* Editing and sending the drafts is not part of this module.               *)
(***************************************************************************)
EXTENDS Naturals, FiniteSets

CONSTANTS Deliveries,     \* requests that may be open at once
          Stamps,         \* Slack's message timestamps
          InboxRows,      \* newest messages that the inbox looks at (100 in the code)
          MaxDeliveries   \* bound: requests opened

ASSUME IngestAssumption == MaxDeliveries \in Nat /\ Stamps \subseteq Nat /\ InboxRows \in Nat \ {0}

VARIABLES
    conversation, \* its row is there
    traced,       \* messages with a row
    handled,      \* messages moved to Done
    prepared,     \* per message: drafts prepared by its ingestion
    asked,        \* drafts a person asked for
    autoPrepare,  \* prefs.auto_prepare
    delivery,     \* per request: its step, message and uncommitted rows
    spared,       \* messages ingested while no draft was wanted
    deliveries

inboxRows == <<conversation, traced, prepared, asked, spared>>
inboxVars == <<inboxRows, handled, autoPrepare, delivery, deliveries>>

IngestStep == {"rest", "conversation", "check", "insert", "draft", "commit"}
Delivery == [step : IngestStep, kind : {"event", "compose"}, ts : Stamps,
             newConversation : BOOLEAN, newMessage : BOOLEAN, drafts : 0..1, wanted : BOOLEAN]
NoDelivery == [step |-> "rest", kind |-> "event", ts |-> CHOOSE s \in Stamps : TRUE,
               newConversation |-> FALSE, newMessage |-> FALSE, drafts |-> 0, wanted |-> TRUE]

InboxTypeOK ==
    /\ conversation \in BOOLEAN /\ autoPrepare \in BOOLEAN
    /\ traced \subseteq Stamps /\ handled \subseteq traced /\ spared \subseteq traced
    /\ prepared \in [Stamps -> Nat] /\ asked \in 0..MaxDeliveries
    /\ delivery \in [Deliveries -> Delivery] /\ deliveries \in 0..MaxDeliveries

--------------------------------------------------------------------------------

At(d, step) == delivery[d].step = step
Others(d) == {delivery[e] : e \in Deliveries \ {d}}

\* Another request's uncommitted row has the same key.
ConversationWaits(d) == \E o \in Others(d) : o.newConversation
MessageWaits(d) == \E o \in Others(d) : o.newMessage

GoOn(d, changed) == delivery' = [delivery EXCEPT ![d] = changed]
Within == UNCHANGED <<inboxRows, handled, autoPrepare, deliveries>>

\* An event, or a person composing a message to the conversation.
Deliver(d, ts, kind) ==
    /\ At(d, "rest") /\ deliveries < MaxDeliveries
    /\ deliveries' = deliveries + 1
    /\ GoOn(d, [NoDelivery EXCEPT !.step = "conversation", !.ts = ts, !.kind = kind])
    /\ UNCHANGED <<inboxRows, handled, autoPrepare>>

\* draft_reply: a person asks for a reply in a conversation that is there.
DraftReply(d) ==
    /\ At(d, "rest") /\ deliveries < MaxDeliveries /\ conversation
    /\ deliveries' = deliveries + 1
    /\ GoOn(d, [NoDelivery EXCEPT !.step = "draft", !.kind = "compose"])
    /\ UNCHANGED <<inboxRows, handled, autoPrepare>>

\* upsert_conversation: insert what the read did not find.
Upsert(d) ==
    LET e == delivery[d]
        next == IF e.kind = "event" THEN "check" ELSE "draft" IN
    /\ At(d, "conversation")
    /\ IF conversation THEN GoOn(d, [e EXCEPT !.step = next])
       ELSE ~ConversationWaits(d) /\ GoOn(d, [e EXCEPT !.step = next, !.newConversation = TRUE])
    /\ Within

\* A message that has a row is a duplicate; nothing more is done.
CheckMessage(d) ==
    /\ At(d, "check")
    /\ GoOn(d, [delivery[d] EXCEPT !.step = IF delivery[d].ts \in traced THEN "commit" ELSE "insert"])
    /\ Within

\* The message's row; the conversation's row is locked with it.
InsertUnless(d, taken) ==
    /\ At(d, "insert") /\ ~MessageWaits(d)
    /\ IF taken THEN GoOn(d, NoDelivery)
       ELSE GoOn(d, [delivery[d] EXCEPT !.step = "draft", !.newMessage = TRUE])
    /\ Within

\* Mutant of InsertMessage: no unique key on the message.
InsertKeyless(d) == InsertUnless(d, FALSE)
InsertMessage(d) == InsertUnless(d, delivery[d].ts \in traced)

\* auto_prepare, the drafting scope and the classification decide; a person's
\* request is not asked.
PrepareDraft(d, scope) ==
    LET e == delivery[d]
        wanted == e.kind = "compose" \/ (autoPrepare /\ scope) IN
    /\ At(d, "draft")
    /\ GoOn(d, [e EXCEPT !.step = "commit", !.drafts = IF wanted THEN 1 ELSE 0, !.wanted = wanted])
    /\ Within

CommitDelivery(d) ==
    LET e == delivery[d] IN
    /\ At(d, "commit")
    /\ conversation' = (conversation \/ e.newConversation)
    /\ traced' = IF e.newMessage THEN traced \cup {e.ts} ELSE traced
    /\ spared' = IF e.newMessage /\ ~e.wanted THEN spared \cup {e.ts} ELSE spared
    /\ prepared' = IF e.kind = "event" THEN [prepared EXCEPT ![e.ts] = @ + e.drafts] ELSE prepared
    /\ asked' = IF e.kind = "compose" THEN asked + e.drafts ELSE asked
    /\ GoOn(d, NoDelivery)
    /\ UNCHANGED <<handled, autoPrepare, deliveries>>

\* The request fails; Slack will deliver the event again.
FailDelivery(d) ==
    /\ ~At(d, "rest")
    /\ GoOn(d, NoDelivery)
    /\ Within

\* mark_handled, in both directions; the preference.
MarkHandled(ts) ==
    /\ ts \in traced
    /\ handled' = IF ts \in handled THEN handled \ {ts} ELSE handled \cup {ts}
    /\ UNCHANGED <<inboxRows, autoPrepare, delivery, deliveries>>

SwitchAutoPrepare ==
    /\ autoPrepare' = ~autoPrepare
    /\ UNCHANGED <<inboxRows, handled, delivery, deliveries>>

InboxInit ==
    /\ conversation = FALSE /\ traced = {} /\ handled = {} /\ spared = {}
    /\ prepared = [ts \in Stamps |-> 0] /\ asked = 0
    /\ autoPrepare = TRUE
    /\ delivery = [d \in Deliveries |-> NoDelivery] /\ deliveries = 0

InboxNext ==
    \/ \E d \in Deliveries :
          \/ \E ts \in Stamps, kind \in {"event", "compose"} : Deliver(d, ts, kind)
          \/ DraftReply(d) \/ Upsert(d) \/ CheckMessage(d) \/ InsertMessage(d)
          \/ \E scope \in BOOLEAN : PrepareDraft(d, scope)
          \/ CommitDelivery(d) \/ FailDelivery(d)
    \/ \E ts \in Stamps : MarkHandled(ts)
    \/ SwitchAutoPrepare

--------------------------------------------------------------------------------
(* The inbox *)

InboxGroup == {"done", "open"}   \* the open ones are told apart by their classification
GroupOf(ts) == IF ts \in handled THEN "done" ELSE "open"
Looked == {ts \in traced : Cardinality({o \in traced : o > ts}) < InboxRows}

\* A conversation is listed by its newest message, in the group of that one.
ShownIn(group) == {ts \in Looked : (\A o \in Looked : o <= ts) /\ GroupOf(ts) = group}

\* The counters count messages.
InboxCount(group) == Cardinality({ts \in traced : GroupOf(ts) = group})

--------------------------------------------------------------------------------
(* Properties *)

\* A conversation is in one group of the inbox, that of the last message somebody
\* sent, and that group's counter is not zero: what was moved to Done leaves the list of what
\* is open with it, and a later message brings the conversation back.
InboxTells ==
    /\ \A g, h \in InboxGroup : ShownIn(g) # {} /\ ShownIn(h) # {} => g = h
    /\ \A g \in InboxGroup : ShownIn(g) # {} => InboxCount(g) > 0
    /\ \A ts \in traced : (\A o \in traced : o <= ts) => ts \in ShownIn(GroupOf(ts))

\* A message that earns a reply has exactly one prepared for it, however often
\* and however simultaneously Slack delivers it and whatever fails in between; a
\* message that has no row yet has none.
AnsweredOnce ==
    \A ts \in Stamps : prepared[ts] = IF ts \in traced \ spared THEN 1 ELSE 0
================================================================================
