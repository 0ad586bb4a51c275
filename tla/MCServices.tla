------------------------------- MODULE MCServices ------------------------------
(* Services that share no state: an execution is about one of them and leaves  *)
(* the others as they began.                                                  *)
EXTENDS AiCredits, DeckRevisions, ApprovalGates, SlackIngest, SlackDrafts, Delegation,
        AgentProposals, DiagramShares, MailInbox, DayPlan, DayScheduler, SharedQueue,
        ProviderConnections, HomePilotLinks, MailboxAccess, AiProfile, CalendarStore,
        AssistantTurns, ChatSessions, AgentRuns, StandupEvidence, DiagramPatches,
        SlackContext, PageInputs, AgentPortraits, SignIn, EventFeed, ProjectBoard,
        DesignWork, KnowledgeBase, TLC

CONSTANTS r1, r2, s1, s2, w1, w2, a1, a2, a3, l1, l2, l3, none

VARIABLE service   \* the one this execution is about

\* Requests, slides, wordings, messages, personas and links.
Requests == {r1, r2}
TwoSlides == {s1, s2}
TwoWordings == {w1, w2}
TwoStamps == {s1, s2}
ThreePersonas == {a1, a2, a3}
ThreeLinks == {l1, l2, l3}
OneTask == {w1}
OneParent == {s1}
StandupWorker == {l1}
IntegrationWorker == {l2}
FewTries == [k \in Kind |-> IF k = "deliver" THEN 2 ELSE 1]
OneAllowance == {3}
TwoCosts == {2, 3}
NoneOrOne == {0, 1}
OneOfFirst == a1 :> w1

\* Quarter hours: the default day, and one whose meeting window opens within a
\* long lunch.
DefaultDay == [day_start |-> 34, day_end |-> 72, lunch_start |-> 50, lunch_minutes |-> 3,
               deep_block_minutes |-> 6, buffer_minutes |-> 1, admin_batch_after |-> 64,
               meeting_window_start |-> 53, max_iterations |-> 2]
LongLunch == [DefaultDay EXCEPT !.meeting_window_start = 48, !.admin_batch_after = 56,
                               !.max_iterations = 3]
TwoDays == {DefaultDay, LongLunch}
SomeIntents == {"coding", "unknown"}
TwoEvents == s1 :> <<2, 4>> @@ s2 :> <<3, 6>>
SomeSpans == {<<0, 3>>, <<4, 8>>, <<5, 1>>}
SomeAgendas == [deep : 0..4, meeting : {0, 1, 4}, admin : {0, 1, 3}]

\* A task, a meeting and a note; the reminder, its bot, a stranger, and out of turn.
ThreeThings == {w1, s1, s2}
SortOfThings == w1 :> "task" @@ s1 :> "meeting" @@ s2 :> "note"
WordsOfThings == w1 :> {1, 2} @@ s1 :> {7} @@ s2 :> {1, 8, 9}
SizeOfThings == w1 :> 2 @@ s1 :> 1 @@ s2 :> 3
Posted(ts, timely, reply, signed, bot) ==
    [ts |-> ts, timely |-> timely, reply |-> reply, signed |-> signed, bot |-> bot]
FiveMessages == {Posted(1, TRUE, FALSE, TRUE, "b"), Posted(2, TRUE, FALSE, FALSE, "b"),
                 Posted(3, TRUE, FALSE, FALSE, "none"), Posted(4, FALSE, FALSE, TRUE, "b"),
                 Posted(5, TRUE, TRUE, TRUE, "b")}
TwoTopics == <<a1, a2>>

\* Two tasks, a document and a run; a message that names a project and hints at the
\* other, and one that names nothing.
LengthOfNames == w1 :> 2 @@ w2 :> 3
RecordOf(kind, project, title) == [kind |-> kind, of |-> project, title |-> title]
FourRecords == <<RecordOf("tasks", w2, 1), RecordOf("tasks", w1, 2), RecordOf("documents", w1, 3),
                 RecordOf("github", w2, 4)>>
TwoRows == [tasks |-> 2, documents |-> 2, github |-> 1]
OneRow == [tasks |-> 1, documents |-> 1]
TwoSayings == {[named |-> {w1}, hinted |-> {w2}, titles |-> {2}],
               [named |-> {}, hinted |-> {}, titles |-> {}]}
TwoGrants == {{"tasks", "github", "documents"}, {"projects", "email", "github"}}

\* A line that is too long, one long word, and one without room.
ThreeLines == {[indent |-> 0, words |-> <<2, 5, 1>>], [indent |-> 1, words |-> <<9>>],
               [indent |-> 5, words |-> <<1, 4>>]}

\* Packages with and without their picture, and one without its keys; HomePilot may be at the second of three hosts.
Package(complete, bundled) == [readable |-> TRUE, complete |-> complete, kind |-> "homepilot.persona",
                               type |-> "persona", thumb |-> s1, avatar |-> none, bundled |-> bundled]
ThreePackages == {Package(TRUE, {s1}), Package(TRUE, {}), Package(FALSE, {s1})}
OneAppearance == {[thumb |-> s1, avatar |-> s2]}
ThreeHosts == <<l1, l2, l3>>
KindOfHosts == l1 :> "linkLocal" @@ l2 :> "private" @@ l3 :> "public"

\* An event of another workspace and of a type that is not known; lists by change and by creation.
AwayEvent == {<<w2, "project.created">>}
HomeNotice == {<<w1, "odd">>}
AskFor(table, project, sort, order) ==
    [table |-> table, project |-> project, status |-> "any", sort |-> sort, order |-> order, limit |-> 1]
SomeListings == {AskFor("tasks", 0, "updated_at", "desc"), AskFor("tasks", 1, "created_at", "asc"),
                  AskFor("documents", 0, "updated_at", "asc")}

\* Three batches, the second after the first; a severe and a critical review.
OneRoadmap == {<<{}, {1}, {}>>}
TwoFindings == {{"high"}, {"critical"}}

\* A text in two chunks, an office file that is broken, and a path of a granted folder.
Upload(project, type, words, given) == [project |-> project, type |-> type, text |-> words,
    given |-> given, under |-> {s1}, broken |-> type = "office"]
ThreeUploads == {Upload(l1, "text", <<a1, a2, a1>>, TRUE), Upload(l2, "office", <<a2, a2>>, TRUE),
                 Upload(l1, "text", <<a2>>, FALSE)}
OneOutput == {<<a3, a1>>}
TwoQuestions == {{a1, a2}, {a3}}
WeightOfChunks == 1 :> 591 @@ 2 :> 476

vars == <<service, creditVars, deckVars, gateVars, inboxVars, draftVars, delegationVars,
          proposalVars, shareVars, mailVars, planVars, schedulerVars, queueVars,
          providerVars, linkVars, mailboxVars, profileVars, calendarVars, assistantVars,
          chatVars, runVars, evidenceVars, mapVars, contextVars, pageVars, portraitVars,
          signInVars, feedVars, boardVars, designVars, knowledgeVars>>

Of(name, A) ==
    /\ service = name /\ UNCHANGED service
    /\ name # "credits" => UNCHANGED creditVars
    /\ name # "deck" => UNCHANGED deckVars
    /\ name # "gates" => UNCHANGED gateVars
    /\ name # "slack" => UNCHANGED inboxVars
    /\ name # "drafts" => UNCHANGED draftVars
    /\ name # "delegation" => UNCHANGED delegationVars
    /\ name # "proposals" => UNCHANGED proposalVars
    /\ name # "shares" => UNCHANGED shareVars
    /\ name # "mail" => UNCHANGED mailVars
    /\ name # "plan" => UNCHANGED planVars
    /\ name # "scheduler" => UNCHANGED schedulerVars
    /\ name # "queue" => UNCHANGED queueVars
    /\ name # "providers" => UNCHANGED providerVars
    /\ name # "homepilot" => UNCHANGED linkVars
    /\ name # "mailbox" => UNCHANGED mailboxVars
    /\ name # "profile" => UNCHANGED profileVars
    /\ name # "calendar" => UNCHANGED calendarVars
    /\ name # "assistant" => UNCHANGED assistantVars
    /\ name # "chat" => UNCHANGED chatVars
    /\ name # "runs" => UNCHANGED runVars
    /\ name # "evidence" => UNCHANGED evidenceVars
    /\ name # "patches" => UNCHANGED mapVars
    /\ name # "context" => UNCHANGED contextVars
    /\ name # "page" => UNCHANGED pageVars
    /\ name # "portraits" => UNCHANGED portraitVars
    /\ name # "signin" => UNCHANGED signInVars
    /\ name # "feed" => UNCHANGED feedVars
    /\ name # "board" => UNCHANGED boardVars
    /\ name # "design" => UNCHANGED designVars
    /\ name # "knowledge" => UNCHANGED knowledgeVars
    /\ A

Init ==
    /\ service \in {"credits", "deck", "gates", "slack", "drafts", "delegation",
                    "proposals", "shares", "mail", "plan", "scheduler", "queue",
                    "providers", "homepilot", "mailbox", "profile", "calendar",
                    "assistant", "chat", "runs", "evidence", "patches", "context",
                    "page", "portraits", "signin", "feed", "board", "design",
                    "knowledge"}
    /\ CreditInit /\ DeckInit /\ GateInit /\ InboxInit /\ DraftInit /\ DelegationInit
    /\ ProposalInit /\ ShareInit /\ MailInit /\ QueueInit /\ MailboxInit
    /\ KnowledgeInit /\ DesignInit /\ BoardInit /\ FeedInit /\ SignInInit
    /\ PortraitInit /\ PageInit /\ ContextInit /\ MapInit /\ EvidenceInit
    /\ AgentRunInit /\ ChatInit /\ AssistantInit /\ ProfileInit /\ CalendarInit
    /\ IF service = "homepilot" THEN LinkInit ELSE LinkInit /\ secret.key = w1 /\ ~secret.optIn
    /\ IF service = "providers" THEN ProviderInit ELSE ProviderInit /\ storedKeys = {}
    /\ IF service = "plan" THEN PlanInit ELSE PlanInit /\ plans = {}
    /\ IF service = "scheduler" THEN SchedulerInit
       ELSE /\ SchedulerInit /\ cfg = DefaultDay /\ hints = {}
            /\ agenda = [deep |-> 0, meeting |-> 0, admin |-> 0]

Next ==
    \/ Of("credits", CreditNext)
    \/ Of("deck", DeckNext)
    \/ Of("gates", GateNext)
    \/ Of("slack", InboxNext)
    \/ Of("drafts", DraftNext)
    \/ Of("delegation", DelegationNext)
    \/ Of("proposals", ProposalNext)
    \/ Of("shares", ShareNext)
    \/ Of("mail", MailNext)
    \/ Of("plan", PlanNext)
    \/ Of("scheduler", SchedulerNext)
    \/ Of("queue", QueueNext)
    \/ Of("providers", ProviderNext)
    \/ Of("homepilot", LinkNext)
    \/ Of("mailbox", MailboxNext)
    \/ Of("profile", ProfileNext)
    \/ Of("calendar", CalendarNext)
    \/ Of("assistant", AssistantNext)
    \/ Of("chat", ChatNext)
    \/ Of("runs", AgentRunNext)
    \/ Of("evidence", EvidenceNext)
    \/ Of("patches", MapNext)
    \/ Of("context", ContextNext)
    \/ Of("page", PageNext)
    \/ Of("portraits", PortraitNext)
    \/ Of("signin", SignInNext)
    \/ Of("feed", FeedNext)
    \/ Of("board", BoardNext)
    \/ Of("design", DesignNext)
    \/ Of("knowledge", KnowledgeNext)

Spec == Init /\ [][Next]_vars

\* An execution about one service leaves the others as they began.
About(name, P) == service = name => P

TypeOK ==
    /\ About("credits", CreditTypeOK) /\ About("deck", DeckTypeOK)
    /\ About("gates", GateTypeOK) /\ About("slack", InboxTypeOK)
    /\ About("drafts", DraftTypeOK) /\ About("delegation", DelegationTypeOK)
    /\ About("proposals", ProposalTypeOK) /\ About("shares", ShareTypeOK)
    /\ About("mail", MailTypeOK) /\ About("plan", PlanTypeOK)
    /\ About("scheduler", SchedulerTypeOK) /\ About("queue", QueueTypeOK)
    /\ About("providers", ProviderTypeOK)
    /\ About("homepilot", LinkTypeOK) /\ About("mailbox", MailboxTypeOK)
    /\ About("profile", ProfileTypeOK)
    /\ About("calendar", CalendarTypeOK)
    /\ About("assistant", AssistantTypeOK)
    /\ About("chat", ChatTypeOK)
    /\ About("runs", AgentRunTypeOK)
    /\ About("evidence", EvidenceTypeOK)
    /\ About("patches", MapTypeOK)
    /\ About("context", ContextTypeOK)
    /\ About("page", PageTypeOK)
    /\ About("portraits", PortraitTypeOK)
    /\ About("signin", SignInTypeOK)
    /\ About("feed", FeedTypeOK)
    /\ About("board", BoardTypeOK)
    /\ About("design", DesignTypeOK)
    /\ About("knowledge", KnowledgeTypeOK)

--------------------------------------------------------------------------------
(* Properties of several services *)

\* No service runs into rows it cannot read again: get_plan, the inbox and
\* active_connector, a calendar's sync and its callback ask for at most one row of a
\* date, of a mail, of the active provider, of an event and of a connection and fail
\* for ever on two, and only requests that write at the same time
\* may create them.  A client of the event log misses no row it could read, and a project
\* can be removed whatever tasks it has.
LookupsSucceed ==
    /\ About("mail", InboxReadable) /\ About("plan", PlanReadable)
    /\ About("providers", OneActive) /\ About("calendar", CalendarReadable)
    /\ About("feed", NoEventMissed) /\ About("board", RemovalsExplained)

\* What is asked for once happens once: a Slack message that is delivered again and
\* again has one reply prepared, and a proposal that several reviewers decide is
\* carried out one time, a day's signal that is collected again is one row, there is one first owner, and a map's
\* topic that is sent again one task; no event of the log
\* reaches a client twice, and no two versions of a document have one number.
HappensOnce ==
    /\ About("slack", AnsweredOnce) /\ About("proposals", CarriedOutOnce)
    /\ About("signin", OneOwner) /\ About("feed", DeliveredOnce)
    /\ About("knowledge", VersionsDistinct)
    /\ About("evidence", OneRowASignal) /\ About("patches", OneTaskATopic)

\* Requests that check a limit before they write do not pass it by more than their
\* overlap explains: no credit is spent twice and none appears that no entry of the
\* ledger explains, and a diagram's links and a person's active goals exceed their
\* limit by less than the number of requests open at once; so do the passwords tried for
\* an address, which is locked by them alone.
LimitsHold ==
    /\ About("credits", NeverOverdrawn /\ LedgerExplains) /\ About("shares", LinksBounded)
    /\ About("profile", GoalsBounded) /\ About("signin", GuessesBounded /\ LockExplained)

\* A key opens what it was stored for: rows of a provider, an account or a mailbox and
\* the keys in the store, which no transaction covers, belong together, and no key is
\* shown to a server or a persona of another account, or used for a persona that was
\* imported, unless requests overlapped.
KeysStayHome ==
    /\ About("providers", KeysFollowRows) /\ About("homepilot", AccountsNeverBlend)
    /\ About("portraits", ImportsStayLocal)
    /\ About("mailbox", SecretOfTheMailbox /\ PasswordsStayHome /\ AccessRenews)

\* What a person chose survives what the system learns later: a pass over HomePilot's
\* personas enables none that nobody chose and takes none offline that is shared; a
\* profile is changed by who was shown it, and neither an update nor a reset takes
\* back a withdrawn consent, a rejection or a completed onboarding; a meeting brief
\* reads what the last setting allows, a Slack draft what was granted and its recipient
\* may hear, and evidence that was excluded is not brought back by a collection.
ChoicesHold ==
    /\ About("homepilot", ChosenOnly /\ OfflineMeansGone)
    /\ About("calendar", SettingsAsSaid) /\ About("evidence", ExclusionKept)
    /\ About("context", RecipientProtected /\ OnlyGranted)
    /\ About("profile", UpdatesFromNewest /\ WithdrawnStays /\ RejectedStays /\ OnboardingStays)

\* What a person has made stays: the plan of a wrapped day, a draft's first wording,
\* a title that was typed, a portrait once kept, the end of a session, a review's signal until newer ones
\* fill the list, and what was drawn into a map while a proposal for it was
\* made, unless requests overlapped.
PastKept ==
    /\ About("plan", WrappedDayKept) /\ About("drafts", OriginalKept)
    /\ About("portraits", NeverBlank) /\ About("signin", EndedStays)
    /\ About("design", SignalsKept)
    /\ About("chat", TitleStays) /\ About("patches", NothingOverwritten)

\* What is computed from rows says what they say: a calendar's conflicts are its
\* overlaps, in a window too; a conversation's counter is the number of its messages,
\* and a general question is asked with what was said just before; a standup tells of
\* included rows only, of each once, leaves none out for which there is room, and goes
\* into the reminder's thread; a proposal that is shown can be applied; a Slack draft
\* quotes evidence that is on the topic; an agent has its own face, noted
\* for what it is, and HomePilot is found where it is first; and the outline of a page or a document,
\* fetched from machines that were checked, nests as its headings and lists do and
\* leaves no text out.  A list that is read in pages gives each row that stayed as it was
\* once, the notification centre the newest notices, and a project its latest
\* review; an answer from documents cites passages of theirs that have the question's words; and Slack's
\* inbox lists a conversation in the group of its last message.
ViewsSound ==
    /\ About("calendar", ConflictsFound) /\ About("chat", CountAgrees)
    /\ About("assistant", LastTurnRemembered)
    /\ About("patches", ProposalApplies) /\ About("feed", NewestShown)
    /\ About("design", LatestReviewShown)
    /\ About("board", PagesComplete) /\ About("knowledge", AnswersGrounded)
    /\ About("slack", InboxTells)
    /\ About("portraits", OwnFace /\ CopyAgrees /\ SweepSound)
    /\ About("context", EvidenceOnTopic /\ LinesAreEvidence)
    /\ About("page", OnlyCheckedMachines /\ SkippedStaysOut /\ OutlineNests /\ LinesFit)
    /\ About("evidence", LinesTraced /\ RowsToldOnce /\ EveningCounts /\ ThreadIsReminder)

\* Delegations and a map's branches form no cycle, a batch waits for the batches it
\* depends on, a proposal is never complete before it was decided, a
\* governed run waits for its operator and its decision is final, and the assistant
\* does nothing itself that needs an approval.
DelegationSound ==
    /\ About("delegation", NoCycles) /\ About("patches", StaysForest) /\ About("proposals", DraftsNeverComplete)
    /\ About("design", DependentsWait)
    /\ About("runs", HeldUntilApproved /\ DecidedOnce) /\ About("assistant", PreparedOnly)

\* The deck keeps its history: each revision is made from the newest of its time,
\* and what is locked stays as it was.
DeckHistory == About("deck", LinearHistory /\ LocksHold)

\* The requests are interchangeable.
Interchange == Permutations(Requests)
================================================================================
