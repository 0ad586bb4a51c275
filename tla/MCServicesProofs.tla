---------------------------- MODULE MCServicesProofs ----------------------------
(***************************************************************************)
(* Theorems about the services as they run side by side (MCServices): a     *)
(* step of them all is a step of one, or leaves it as it is, so what each   *)
(* service's own steps keep holds throughout.                               *)
(***************************************************************************)
EXTENDS MCServices, ServiceProofs, OnceProofs, KeptProofs

\* A step of the services is one of a service or leaves it as it is.
LEMMA GatesApart == [Next]_vars => GateNext \/ UNCHANGED gateVars
BY ZenonT(60) DEF Next, Of, vars

LEMMA DeckApart == [Next]_vars => DeckNext \/ UNCHANGED deckVars
BY ZenonT(60) DEF Next, Of, vars

LEMMA QueueApart == [Next]_vars => QueueNext \/ UNCHANGED queueVars
BY ZenonT(60) DEF Next, Of, vars

\* An approval that stands was given by the last decision on it (mcp_service.py,
\* approvals.py, agent reviews), or by one that repeated what it had read, however
\* requests that read and write later overlap.
THEOREM LastWord == Spec => []LastWordHolds
<1>1. Init => GateInv
  BY GateInitInv DEF Init
<1>2. GateInv /\ [Next]_vars => GateInv'
  BY GatesApart, GateStepInv, GateStutters
<1>3. GateInv => LastWordHolds
  BY DEF GateInv
<1>. QED
  BY <1>1, <1>2, <1>3, PTL DEF Spec

\* Every change of a deck is a revision on top of the one before it, and a slide locked
\* there while the edit was open is the same in it (routers/presentations.py).
THEOREM DeckKeepsHistory == Spec => []DeckHistory
<1>1. Init => DeckInv
  BY DeckInitInv DEF Init
<1>2. DeckInv /\ [Next]_vars => DeckInv'
  BY DeckApart, DeckStepInv, DeckStutters
<1>3. DeckInv => DeckHistory
  BY DEF DeckInv, DeckHistory, About
<1>. QED
  BY <1>1, <1>2, <1>3, PTL DEF Spec

\* A job of the shared queue is given up only after as many claims as its kind may have
\* (jobs/queue.py), whichever of its workers lost passes or crossed others, and a coding
\* job, for which no worker has a handler, is done by none.
THEOREM NoneGivenUpEarly == Spec => []GivenUpInTime
<1>1. Init => QueueInv
  BY QueueInitInv DEF Init
<1>2. QueueInv /\ [Next]_vars => QueueInv'
  BY QueueApart, QueueStepInv, QueueStutters
<1>. QED
  BY <1>1, <1>2, QueueSound, PTL DEF Spec

LEMMA DelegationApart == [Next]_vars => DelegationNext \/ UNCHANGED delegationVars
BY ZenonT(60) DEF Next, Of, vars

LEMMA MapApart == [Next]_vars => MapNext \/ UNCHANGED mapVars
BY ZenonT(60) DEF Next, Of, vars

LEMMA ProposalsApart == [Next]_vars => ProposalNext \/ UNCHANGED proposalVars
BY ZenonT(60) DEF Next, Of, vars

LEMMA DesignApart == [Next]_vars => DesignNext \/ UNCHANGED designVars
BY ZenonT(60) DEF Next, Of, vars

LEMMA RunsApart == [Next]_vars => AgentRunNext \/ UNCHANGED runVars
BY ZenonT(60) DEF Next, Of, vars

LEMMA AssistantApart == [Next]_vars => AssistantNext \/ UNCHANGED assistantVars
BY ZenonT(60) DEF Next, Of, vars

\* What each of the six holds of the work an agent is given.
SoundWork == DelegationInv /\ MapInv /\ ProposalInv /\ DesignInv /\ AgentRunInv /\ AssistantInv

\* Work that is handed on stays in bounds: delegation has no cycles unless two turns
\* crossed (homepilot/delegation.py), a knowledge map stays a forest, a proposal is completed
\* only if its action was carried out, a batch that depends on another is blocked, a
\* coding run that can write waits for an operator and is decided once, and the
\* assistant only prepares what needs an approval.
THEOREM WorkIsSound == Spec => []DelegationSound
<1>1. Init => SoundWork
  BY DelegationInitInv, MapInitInv, ProposalInitInv, DesignInitInv, AgentRunInitInv, AssistantInitInv
     DEF Init, SoundWork
<1>2. SoundWork /\ [Next]_vars => SoundWork'
  <2> SUFFICES ASSUME SoundWork, [Next]_vars PROVE SoundWork'
    OBVIOUS
  <2>1. DelegationInv'
    BY DelegationApart, DelegationStepInv, DelegationStutters DEF SoundWork
  <2>2. MapInv'
    BY MapApart, MapStepInv, MapStutters DEF SoundWork
  <2>3. ProposalInv'
    BY ProposalsApart, ProposalStepInv, ProposalStutters DEF SoundWork
  <2>4. DesignInv'
    BY DesignApart, DesignStepInv, DesignStutters DEF SoundWork
  <2>5. AgentRunInv'
    BY RunsApart, AgentRunStepInv, AgentRunStutters DEF SoundWork
  <2>6. AssistantInv'
    BY AssistantApart, AssistantStepInv, AssistantStutters DEF SoundWork
  <2>. QED
    BY <2>1, <2>2, <2>3, <2>4, <2>5, <2>6 DEF SoundWork
<1>3. SoundWork => DelegationSound
  BY DelegationAcyclic, MapForest
     DEF SoundWork, DelegationSound, About, ProposalInv, DesignInv, AgentRunInv, AssistantInv
<1>. QED
  BY <1>1, <1>2, <1>3, PTL DEF Spec

LEMMA PlannerApart == [Next]_vars => [SchedulerNext]_schedulerVars
BY ZenonT(60) DEF Next, Of, vars

\* For every configuration with sane hours and every agenda, whatever the critic hints
\* at, the blocks the planner lays out (planner/scheduler.py) never overlap, lie inside the
\* hours and keep meetings and admin behind lunch.
THEOREM TimelineStaysSound == Spec => []TimelineSound
<1>1. Init => SchedulerInv
  BY SchedulerInitInv DEF Init
<1>2. SchedulerInv /\ [Next]_vars => SchedulerInv'
  BY PlannerApart, SchedulerStepInv
<1>3. SchedulerInv => TimelineSound
  BY DEF SchedulerInv
<1>. QED
  BY <1>1, <1>2, <1>3, PTL DEF Spec

LEMMA InboxApart == [Next]_vars => InboxNext \/ UNCHANGED inboxVars
BY ZenonT(60) DEF Next, Of, vars

LEMMA SignInApart == [Next]_vars => SignInNext \/ UNCHANGED signInVars
BY ZenonT(60) DEF Next, Of, vars

LEMMA FeedApart == [Next]_vars => FeedNext \/ UNCHANGED feedVars
BY ZenonT(60) DEF Next, Of, vars

LEMMA KnowledgeApart == [Next]_vars => KnowledgeNext \/ UNCHANGED knowledgeVars
BY ZenonT(60) DEF Next, Of, vars

LEMMA EvidenceApart == [Next]_vars => EvidenceNext \/ UNCHANGED evidenceVars
BY ZenonT(60) DEF Next, Of, vars

\* What each of the seven holds of what is to happen one time.
Once == SlackInv /\ ProposalInv /\ FirstInv /\ FeedInv /\ VersionInv /\ EvidenceInv /\ PushInv

\* What is to happen one time happens one time, however requests repeat or cross: a
\* message of Slack is answered by one draft, a proposal is carried out one time, there is one
\* first owner, an event reaches a client one time and in order, no two versions of a
\* document have one number, a day's signal is one row and a map's topic one task; where
\* two that were open at once may do a thing twice, the property names them.
THEOREM OneOfEach == Spec => []HappensOnce
<1>1. Init => Once
  BY SlackInitInv, ProposalInitInv, FirstInitInv, FeedInitInv, VersionInitInv, EvidenceInitInv,
     PushInitInv DEF Init, Once
<1>2. Once /\ [Next]_vars => Once'
  <2> SUFFICES ASSUME Once, [Next]_vars PROVE Once'
    OBVIOUS
  <2>1. SlackInv'
    BY InboxApart, SlackStepInv, SlackStutters DEF Once
  <2>2. ProposalInv'
    BY ProposalsApart, ProposalStepInv, ProposalStutters DEF Once
  <2>3. FirstInv'
    BY SignInApart, FirstStepInv, FirstStutters DEF Once
  <2>4. FeedInv'
    BY FeedApart, FeedStepInv, FeedStutters, FeedAssumption DEF Once, feedVars
  <2>5. VersionInv'
    BY KnowledgeApart, VersionStepInv, VersionStutters DEF Once, knowledgeVars
  <2>6. EvidenceInv'
    BY EvidenceApart, EvidenceStepInv, EvidenceStutters DEF Once
  <2>7. PushInv'
    BY MapApart, PushStepInv, PushStutters DEF Once, mapVars
  <2>. QED
    BY <2>1, <2>2, <2>3, <2>4, <2>5, <2>6, <2>7 DEF Once
<1>3. Once => HappensOnce
  BY FirstOwns, CarriesOnce
     DEF Once, HappensOnce, About, SlackInv, FeedInv, ReadInv, VersionInv, EvidenceInv, PushInv
<1>. QED
  BY <1>1, <1>2, <1>3, PTL DEF Spec

LEMMA CreditsApart == [Next]_vars => CreditNext \/ UNCHANGED creditVars
BY ZenonT(60) DEF Next, Of, vars

LEMMA SharesApart == [Next]_vars => ShareNext \/ UNCHANGED shareVars
BY ZenonT(60) DEF Next, Of, vars

LEMMA ProfileApart == [Next]_vars => ProfileNext \/ UNCHANGED profileVars
BY ZenonT(60) DEF Next, Of, vars

LEMMA MailboxApart == [Next]_vars => MailboxNext \/ UNCHANGED mailboxVars
BY ZenonT(60) DEF Next, Of, vars

LEMMA ProvidersApart == [Next]_vars => ProviderNext \/ UNCHANGED providerVars
BY ZenonT(60) DEF Next, Of, vars

LEMMA HomePilotApart == [Next]_vars => LinkNext \/ UNCHANGED linkVars
BY ZenonT(60) DEF Next, Of, vars

LEMMA PortraitsApart == [Next]_vars => PortraitNext \/ UNCHANGED portraitVars
BY ZenonT(60) DEF Next, Of, vars

LEMMA DraftsApart == [Next]_vars => DraftNext \/ UNCHANGED draftVars
BY ZenonT(60) DEF Next, Of, vars

LEMMA ChatApart == [Next]_vars => ChatNext \/ UNCHANGED chatVars
BY ZenonT(60) DEF Next, Of, vars

LEMMA PlanApart == [Next]_vars => PlanNext \/ UNCHANGED planVars
BY ZenonT(60) DEF Next, Of, vars

\* What each of the four holds of what is limited.
Limited == CreditInv /\ ShareInv /\ GoalInv /\ GuessInv

\* No credit is spent twice and the ledger explains each (ai_platform/credits.py), links of a
\* diagram (routers/diagram_shares.py) and a person's active goals (profile_platform.py) pass
\* their limit by less than the requests open at once, and so do wrong passwords, which alone
\* lock an address (auth/service.py).
THEOREM LimitsStand == Spec => []LimitsHold
<1>1. Init => Limited
  BY CreditInitInv, ShareInitInv, GoalInitInv, GuessInitInv DEF Init, Limited
<1>2. Limited /\ [Next]_vars => Limited'
  <2> SUFFICES ASSUME Limited, [Next]_vars PROVE Limited'
    OBVIOUS
  <2>1. CreditInv'
    BY CreditsApart, CreditStepInv, CreditStutters DEF Limited
  <2>2. ShareInv'
    BY SharesApart, ShareStepInv, ShareStutters DEF Limited
  <2>3. GoalInv'
    BY ProfileApart, GoalStepInv, GoalStutters DEF Limited, profileVars
  <2>4. GuessInv'
    BY SignInApart, GuessStepInv, GuessStutters DEF Limited
  <2>. QED
    BY <2>1, <2>2, <2>3, <2>4 DEF Limited
<1>3. Limited => LimitsHold
  BY CreditsHold, SharesHold, GoalsHold, GuessesHold DEF Limited, LimitsHold, About
<1>. QED
  BY <1>1, <1>2, <1>3, PTL DEF Spec

\* What each of the four holds of its keys.
Bound == ProviderInv /\ LinkInv /\ PortraitInv /\ MailboxInv

\* A key of a provider, of a HomePilot account, or of a mailbox opens what its row says, and
\* none is shown to a server of another or used for a persona that was imported, unless
\* requests that write rows and keys crossed.
THEOREM KeysAtHome == Spec => []KeysStayHome
<1>1. Init => Bound
  BY ProviderInitInv, LinkInitInv, PortraitInitInv, MailboxInitInv DEF Init, Bound
<1>2. Bound /\ [Next]_vars => Bound'
  <2> SUFFICES ASSUME Bound, [Next]_vars PROVE Bound'
    OBVIOUS
  <2>1. ProviderInv'
    BY ProvidersApart, ProviderStepInv, ProviderStutters DEF Bound
  <2>2. LinkInv'
    BY HomePilotApart, LinkStepInv, LinkStutters DEF Bound
  <2>3. PortraitInv'
    BY PortraitsApart, PortraitStepInv, PortraitStutters DEF Bound
  <2>4. MailboxInv'
    BY MailboxApart, MailboxStepInv, MailboxStutters DEF Bound
  <2>. QED
    BY <2>1, <2>2, <2>3, <2>4 DEF Bound
<1>3. Bound => KeysStayHome
  BY ProviderHolds, LinkHolds, PortraitHolds, MailboxHolds DEF Bound, KeysStayHome, About
<1>. QED
  BY <1>1, <1>2, <1>3, PTL DEF Spec

\* What each of the seven holds of what was.
Past == WrappedInv /\ DraftInv /\ PortraitInv /\ EndedInv /\ SignalInv /\ ChatInv /\ ShownInv

\* What a person has made stays, whatever they or others do next: the plan of a day that was
\* wrapped up, a draft's first wording, a typed title, a portrait, the end of a session, a
\* review's signal and what was drawn into a map, unless requests crossed that the property
\* names.
THEOREM PastStands == Spec => []PastKept
<1>1. Init => Past
  BY WrappedInitInv, DraftInitInv, PortraitInitInv, EndedInitInv, SignalInitInv, ChatInitInv, ShownInitInv DEF Init, Past
<1>2. Past /\ [Next]_vars => Past'
  <2> SUFFICES ASSUME Past, [Next]_vars PROVE Past'
    OBVIOUS
  <2>1. WrappedInv'
    BY PlanApart, WrappedStepInv, WrappedStutters DEF Past
  <2>2. DraftInv'
    BY DraftsApart, DraftStepInv, DraftStutters DEF Past
  <2>3. PortraitInv'
    BY PortraitsApart, PortraitStepInv, PortraitStutters DEF Past
  <2>4. EndedInv'
    BY SignInApart, EndedStepInv, EndedStutters DEF Past
  <2>5. SignalInv'
    BY DesignApart, SignalStepInv, SignalStutters DEF Past
  <2>6. ChatInv'
    BY ChatApart, ChatStepInv, ChatStutters DEF Past
  <2>7. ShownInv'
    BY MapApart, ShownStepInv, ShownStutters DEF Past
  <2>. QED
    BY <2>1, <2>2, <2>3, <2>4, <2>5, <2>6, <2>7 DEF Past
<1>3. Past => PastKept
  BY WrappedHolds, DraftHolds, PortraitHolds, EndedHolds, SignalHolds, ChatHolds DEF Past, PastKept, About, ShownInv
<1>. QED
  BY <1>1, <1>2, <1>3, PTL DEF Spec

LEMMA MailApart == [Next]_vars => MailNext \/ UNCHANGED mailVars
BY ZenonT(60) DEF Next, Of, vars

LEMMA CalendarApart == [Next]_vars => CalendarNext \/ UNCHANGED calendarVars
BY ZenonT(60) DEF Next, Of, vars

LEMMA BoardApart == [Next]_vars => BoardNext \/ UNCHANGED boardVars
BY ZenonT(60) DEF Next, Of, vars

\* What each of the six holds of the rows that are looked up.
Readable ==
    /\ ReadableInv /\ WrappedInv /\ ProviderInv /\ ActiveInv /\ StoreInv
    /\ FeedInv /\ MissInv /\ RemovalInv

\* No service is left with rows it cannot read: of a date, of a mail, of a calendar's event or
\* connection and of an active provider there is one row at most, unless requests that the
\* property names crossed (get_plan, the inbox, CalendarService, active_connector); a client of
\* the log has been sent each row of its workspace up to where it is, but those committed
\* late (events.py), and the removal of a project is refused only over a document, or over
\* a task that came while it was being removed (projects.py).
THEOREM NothingUnreadable == Spec => []LookupsSucceed
<1>1. Init => Readable
  BY ReadableInitInv, WrappedInitInv, ProviderInitInv, ActiveInitInv, StoreInitInv, FeedInitInv, MissInitInv,
     RemovalInitInv DEF Init, Readable
<1>2. Readable /\ [Next]_vars => Readable'
  <2> SUFFICES ASSUME Readable, [Next]_vars PROVE Readable'
    OBVIOUS
  <2>1. ReadableInv'
    BY MailApart, ReadableStepInv, ReadableStutters DEF Readable
  <2>2. WrappedInv'
    BY PlanApart, WrappedStepInv, WrappedStutters DEF Readable
  <2>3. ProviderInv'
    BY ProvidersApart, ProviderStepInv, ProviderStutters DEF Readable
  <2>4. ActiveInv'
    BY ProvidersApart, ActiveStepInv, ActiveStutters DEF Readable
  <2>5. StoreInv'
    BY CalendarApart, StoreStepInv, StoreStutters DEF Readable
  <2>6. FeedInv'
    BY FeedApart, FeedStepInv, FeedStutters, FeedAssumption DEF Readable, feedVars
  <2>7. MissInv'
    BY FeedApart, MissStepInv, MissStutters, FeedAssumption DEF Readable, feedVars
  <2>8. RemovalInv'
    BY BoardApart, RemovalStepInv, RemovalStutters, BoardAssumption DEF Readable
  <2>. QED
    BY <2>1, <2>2, <2>3, <2>4, <2>5, <2>6, <2>7, <2>8 DEF Readable
<1>3. Readable => LookupsSucceed
  BY ReadableHolds, PlanRead, ActiveHolds, StoreReadable, MissHolds, RemovalHolds
     DEF Readable, LookupsSucceed, About
<1>. QED
  BY <1>1, <1>2, <1>3, PTL DEF Spec

LEMMA ContextApart == [Next]_vars => ContextNext \/ UNCHANGED contextVars
BY ZenonT(60) DEF Next, Of, vars

\* What each of the five holds of what a person chose.
Wishes ==
    /\ LinkInv /\ StoreInv /\ EvidenceInv /\ ExcludedInv /\ ContextInv
    /\ WordInv /\ LearnedInv /\ OnboardingInv

\* What a person chose survives what the system learns later: of HomePilot's personas
\* (homepilot_platform.py), of a calendar's settings, of evidence that was excluded from a
\* standup, of sources that were granted for a Slack draft and who may hear what it tells
\* (slack_workspace/context.py), of consents withdrawn, suggestions rejected and an onboarding
\* completed (profile_platform.py), unless requests that the property names crossed.
THEOREM ChoicesStand == Spec => []ChoicesHold
<1>1. Init => Wishes
  BY LinkInitInv, StoreInitInv, EvidenceInitInv, ExcludedInitInv, ContextInitInv, WordInitInv DEF Init, Wishes
<1>2. Wishes /\ [Next]_vars => Wishes'
  <2> SUFFICES ASSUME Wishes, [Next]_vars PROVE Wishes'
    OBVIOUS
  <2>1. LinkInv'
    BY HomePilotApart, LinkStepInv, LinkStutters DEF Wishes
  <2>2. StoreInv'
    BY CalendarApart, StoreStepInv, StoreStutters DEF Wishes
  <2>3. EvidenceInv' /\ ExcludedInv'
    <3>1. CASE EvidenceNext
      BY <3>1, EvidenceStepInv, ExcludedStepInv DEF Wishes
    <3>2. CASE UNCHANGED evidenceVars
      BY <3>2, EvidenceStutters, ExcludedStutters DEF Wishes, evidenceVars
    <3>. QED
      BY <3>1, <3>2, EvidenceApart
  <2>4. ContextInv'
    BY ContextApart, ContextStepInv, ContextStutters DEF Wishes
  <2>5. WordInv' /\ LearnedInv' /\ OnboardingInv'
    <3>1. CASE ProfileNext
      BY <3>1, WordStepInv DEF Wishes
    <3>2. CASE UNCHANGED profileVars
      BY <3>2, WordStutters, LearnedStutters, OnboardingStutters DEF Wishes, profileVars
    <3>. QED
      BY <3>1, <3>2, ProfileApart
  <2>. QED
    BY <2>1, <2>2, <2>3, <2>4, <2>5 DEF Wishes
<1>3. Wishes => ChoicesHold
  BY LinkHolds, StoreSaid, ContextHolds, WordHolds, LearnedHolds
     DEF Wishes, ChoicesHold, About, ExcludedInv, OnboardingInv
<1>. QED
  BY <1>1, <1>2, <1>3, PTL DEF Spec

LEMMA PageApart == [Next]_vars => PageNext \/ UNCHANGED pageVars
BY ZenonT(60) DEF Next, Of, vars

\* What each of the eleven holds of what a reader is shown.
Viewed ==
    /\ ChatInv /\ ShownInv /\ SignalInv /\ ContextInv
    /\ FeedInv /\ SlackInv /\ TracedInv /\ StoreInv /\ SpansInv
    /\ EvidenceInv /\ EveningInv /\ ThreadIsReminder
    /\ PortraitInv /\ FaceInv /\ ReminderInv /\ FetchInv /\ OutlineInv

\* The parts of ViewsSound that hold for every value of the constants.
ViewsStand ==
    /\ About("calendar", ConflictsFound) /\ About("chat", CountAgrees)
    /\ About("assistant", LastTurnRemembered)
    /\ About("patches", ProposalApplies) /\ About("feed", NewestShown)
    /\ About("design", LatestReviewShown) /\ About("slack", InboxTells)
    /\ About("portraits", OwnFace /\ CopyAgrees)
    /\ About("context", EvidenceOnTopic /\ LinesAreEvidence)
    /\ About("page", OnlyCheckedMachines /\ SkippedStaysOut /\ OutlineNests)
    /\ About("evidence", EveningCounts /\ ThreadIsReminder)

\* What readers are shown is what was stored or said: a calendar finds each two events that
\* overlap (calendar/service.py), a conversation counts its messages (chat/service.py) and the
\* assistant is reminded of the last turn that was answered (assistant/orchestrator.py), a
\* proposal that is shown can be applied to the map (diagrams.py), the centre lists the newest
\* notices (integrations/notifications.py), a project shows its latest review
\* (bundle_intake.py), a Slack conversation is in one group (slack_workspace/service.py), an
\* agent has its own face (homepilot/portraits.py), a Slack draft quotes evidence it was given,
\* on the topic (slack_workspace/context.py), a page is fetched from machines that were checked
\* and is outlined without what is skipped (dmind_inputs.py), and a standup counts the evening
\* before and answers in the reminder's thread (standup/collector.py, thread_resolver.py).
THEOREM SomeViewsStand == Spec => []ViewsStand
<1>1. Init => Viewed
  BY ChatInitInv, ShownInitInv, SignalInitInv, ContextInitInv, FeedInitInv, SlackInitInv, TracedInitInv, StoreInitInv,
     SpansInitInv, EvidenceInitInv, EveningInitInv, ThreadInitInv, PortraitInitInv, FaceInitInv, ReminderInitInv,
     FetchInitInv, OutlineInitInv DEF Init, Viewed
<1>2. Viewed /\ [Next]_vars => Viewed'
  <2> SUFFICES ASSUME Viewed, [Next]_vars PROVE Viewed'
    OBVIOUS
  <2>1. ChatInv'
    BY ChatApart, ChatStepInv, ChatStutters DEF Viewed
  <2>2. ShownInv'
    BY MapApart, ShownStepInv, ShownStutters DEF Viewed
  <2>3. SignalInv'
    BY DesignApart, SignalStepInv, SignalStutters DEF Viewed
  <2>4. ContextInv'
    BY ContextApart, ContextStepInv, ContextStutters DEF Viewed
  <2>5. FeedInv'
    BY FeedApart, FeedStepInv, FeedStutters, FeedAssumption DEF Viewed, feedVars
  <2>6. SlackInv' /\ TracedInv'
    <3>1. CASE InboxNext
      BY <3>1, SlackStepInv, TracedStepInv DEF Viewed
    <3>2. CASE UNCHANGED inboxVars
      BY <3>2, SlackStutters, TracedStutters DEF Viewed
    <3>. QED
      BY <3>1, <3>2, InboxApart
  <2>7. StoreInv' /\ SpansInv'
    <3>1. CASE CalendarNext
      BY <3>1, StoreStepInv, SpansStepInv DEF Viewed
    <3>2. CASE UNCHANGED calendarVars
      BY <3>2, StoreStutters, SpansStutters DEF Viewed
    <3>. QED
      BY <3>1, <3>2, CalendarApart
  <2>8. EvidenceInv' /\ EveningInv' /\ ThreadIsReminder'
    <3>1. CASE EvidenceNext
      BY <3>1, EvidenceStepInv, EveningStepInv, ThreadStepInv DEF Viewed
    <3>2. CASE UNCHANGED evidenceVars
      BY <3>2, EvidenceStutters, EveningStutters, ThreadStutters DEF Viewed, evidenceVars
    <3>. QED
      BY <3>1, <3>2, EvidenceApart
  <2>9. PortraitInv' /\ FaceInv'
    <3>1. CASE PortraitNext
      BY <3>1, PortraitStepInv, FaceStepInv DEF Viewed
    <3>2. CASE UNCHANGED portraitVars
      BY <3>2, PortraitStutters, FaceStutters DEF Viewed
    <3>. QED
      BY <3>1, <3>2, PortraitsApart
  <2>10. ReminderInv'
    BY AssistantApart, ReminderStepInv, ReminderStutters DEF Viewed
  <2>11. FetchInv' /\ OutlineInv'
    <3>1. CASE PageNext
      BY <3>1, FetchStepInv, OutlineStepInv DEF Viewed
    <3>2. CASE UNCHANGED pageVars
      BY <3>2, FetchStutters, OutlineStutters DEF Viewed, pageVars
    <3>. QED
      BY <3>1, <3>2, PageApart
  <2>. QED
    BY <2>1, <2>2, <2>3, <2>4, <2>5, <2>6, <2>7, <2>8, <2>9, <2>10, <2>11 DEF Viewed
<1>3. Viewed => ViewsStand
  BY ChatHolds, SignalHolds, ContextHolds, CentreNewest, InboxShows, SpansConflict, FaceHolds, ReminderHolds
     DEF Viewed, ViewsStand, ShownInv, EveningInv, FetchInv, OutlineInv, About
<1>. QED
  BY <1>1, <1>2, <1>3, PTL DEF Spec

================================================================================
