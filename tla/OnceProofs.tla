------------------------------ MODULE OnceProofs -------------------------------
(***************************************************************************)
(* Why a delivery, a row, an event or a number is there one time, why rows   *)
(* can be read again, and what readers are told of chats, calendars, notices *)
(* and standups, for every value of the constants: inductive invariants of   *)
(* eleven services, kept by each of their steps.  MCServicesProofs draws the *)
(* theorems from them.                                                      *)
(*                                                                          *)
(* Requests read, and write later what may no longer be so; each invariant   *)
(* relates what a request has read to what is committed now, and says which *)
(* requests were open at once with another that wrote the same.              *)
(***************************************************************************)
EXTENDS AssistantTurns, CalendarStore, ChatSessions, EventFeed, KnowledgeBase, MailInbox, ProjectBoard, SignIn,
        SlackContext, SlackIngest, StandupEvidence, TLAPS, FiniteSetTheorems, WellFoundedInduction

--------------------------------------------------------------------------------
(* The first account *)

\* The inductive invariant of sign-in: a request for the first account began while there was
\* none, adds the workspace unless it was seeded, and is alone after the first unless two
\* had begun.
FirstInv ==
    /\ DOMAIN signing = Signers
    /\ workspace <=> (Seeded \/ accounts # {})
    /\ \A q \in Signers : signing[q].op = "bootstrap" =>
          /\ signing[q].email \in Emails
          /\ signing[q].addsWorkspace <=> ~Seeded
          /\ accounts # {} => doubledFirst
    /\ \/ accounts = {}
       \/ \E m \in Emails : accounts = {m}
       \/ doubledFirst /\ Seeded

LEMMA FirstInitInv == SignInInit => FirstInv
BY SignInAssumption DEF SignInInit, FirstInv, NoSigning

LEMMA FirstBegins ==
    ASSUME FirstInv, NEW q \in Signers, NEW m \in Emails, BeginBootstrap(q, m)
    PROVE  FirstInv'
<1>1. accounts = {} /\ UNCHANGED <<accounts, workspace, doubledFirst>>
  BY DEF BeginBootstrap, BootstrapRequired
<1>2. signing' = [signing EXCEPT ![q] = [op |-> "bootstrap", email |-> m, addsWorkspace |-> ~workspace]]
  BY DEF BeginBootstrap, OpenSigning
<1>3. DOMAIN signing' = Signers /\ \A x \in Signers : signing'[x].op = "bootstrap" =>
          (signing'[x].addsWorkspace <=> ~Seeded) /\ signing'[x].email \in Emails
  BY <1>1, <1>2 DEF FirstInv
<1>. QED
  BY <1>1, <1>3 DEF FirstInv

\* Two first accounts need two requests that began before either was there, and a workspace
\* that neither of them added.
LEMMA FirstCommits ==
    ASSUME FirstInv, NEW q \in Signers, CommitBootstrap(q)
    PROVE  FirstInv'
<1>1. /\ signing' = [signing EXCEPT ![q] = NoSigning] /\ signing[q].op = "bootstrap"
  BY DEF CommitBootstrap, SigningOver
<1>2. DOMAIN signing' = Signers
      /\ \A x \in Signers : signing'[x].op = "bootstrap" => x # q /\ signing'[x] = signing[x]
  BY <1>1 DEF FirstInv, NoSigning
<1>3. CASE BootstrapFails(signing[q])
  <2>1. UNCHANGED <<accounts, workspace, doubledFirst>>
    BY <1>3 DEF CommitBootstrap
  <2>. QED
    BY <1>2, <2>1 DEF FirstInv
<1>4. CASE ~BootstrapFails(signing[q])
  <2> DEFINE m == signing[q].email
  <2>1. /\ accounts' = accounts \cup {m} /\ workspace' = TRUE
        /\ doubledFirst' = (doubledFirst \/ \E o \in Signers \ {q} : signing[o].op = "bootstrap")
    BY <1>4 DEF CommitBootstrap
  <2>2. signing[q].addsWorkspace => ~workspace
    BY <1>4 DEF BootstrapFails
  <2>3. accounts # {} => doubledFirst /\ Seeded
    BY <1>1, <2>2 DEF FirstInv
  <2>4. \A x \in Signers : signing'[x].op = "bootstrap" => doubledFirst'
    BY <1>2, <2>1
  <2>. QED
    BY <1>1, <1>2, <2>1, <2>3, <2>4 DEF FirstInv
<1>. QED
  BY <1>3, <1>4

\* Logins and logouts leave the accounts as they are and open no request for the first.
LEMMA FirstElse ==
    ASSUME FirstInv,
           \/ \E q \in Signers, m \in Emails : BeginLogin(q, m)
           \/ \E q \in Signers : CommitLogoutAll(q)
           \/ \E q \in Signers, right \in BOOLEAN : VerifyPassword(q, right)
           \/ \E t \in 1..Len(sessions) : Logout(t) \/ \E q \in Signers : BeginLogoutAll(q, t)
           \/ ClockTicks
    PROVE  FirstInv'
<1>1. UNCHANGED <<accounts, workspace, doubledFirst>>
  <2>1. CASE \E q \in Signers, m \in Emails : BeginLogin(q, m)
    BY <2>1 DEF BeginLogin
  <2>2. CASE \E q \in Signers : CommitLogoutAll(q)
    BY <2>2 DEF CommitLogoutAll
  <2>3. CASE \E q \in Signers, right \in BOOLEAN : VerifyPassword(q, right)
    BY <2>3 DEF VerifyPassword
  <2>4. CASE \E t \in 1..Len(sessions) : Logout(t) \/ \E q \in Signers : BeginLogoutAll(q, t)
    BY <2>4 DEF Logout, BeginLogoutAll
  <2>5. CASE ClockTicks
    BY <2>5 DEF ClockTicks
  <2>. QED
    BY <2>1, <2>2, <2>3, <2>4, <2>5
<1>2. signing' = signing \/ \E q \in Signers :
         signing' = [signing EXCEPT ![q] = signing'[q]] /\ signing'[q].op # "bootstrap"
  <2>1. CASE \E q \in Signers, m \in Emails : BeginLogin(q, m)
    <3>1. PICK q \in Signers, m \in Emails : BeginLogin(q, m)
      BY <2>1
    <3>2. signing' = signing \/ signing' = [signing EXCEPT ![q] = [op |-> "login", email |-> m]]
      BY <3>1 DEF BeginLogin, OpenSigning
    <3>. QED
      BY <3>2 DEF FirstInv
  <2>2. CASE \E q \in Signers : CommitLogoutAll(q) \/ \E right \in BOOLEAN : VerifyPassword(q, right)
    <3>1. PICK q \in Signers : signing' = [signing EXCEPT ![q] = NoSigning]
      BY <2>2 DEF CommitLogoutAll, VerifyPassword, SigningOver
    <3>. QED
      BY <3>1 DEF FirstInv, NoSigning
  <2>3. CASE \E t \in 1..Len(sessions) : Logout(t)
    BY <2>3 DEF Logout
  <2>4. CASE \E t \in 1..Len(sessions), q \in Signers : BeginLogoutAll(q, t)
    <3>1. PICK t \in 1..Len(sessions), q \in Signers : BeginLogoutAll(q, t)
      BY <2>4
    <3>2. signing' = [signing EXCEPT ![q] = [op |-> "logoutAll", rows |-> Revoked(t),
                                             known |-> SessionsOf(sessions[t].email)]]
      BY <3>1 DEF BeginLogoutAll, OpenSigning
    <3>. QED
      BY <3>2 DEF FirstInv
  <2>5. CASE ClockTicks
    BY <2>5 DEF ClockTicks
  <2>. QED
    BY <2>1, <2>2, <2>3, <2>4, <2>5
<1>3. \A x \in Signers : signing'[x].op = "bootstrap" => signing'[x] = signing[x]
  BY <1>2 DEF FirstInv
<1>4. DOMAIN signing' = Signers
  BY <1>2 DEF FirstInv
<1>. QED
  BY <1>1, <1>3, <1>4 DEF FirstInv

LEMMA FirstStutters == FirstInv /\ UNCHANGED signInVars => FirstInv'
BY DEF FirstInv, signInVars

LEMMA FirstStepInv == FirstInv /\ SignInNext => FirstInv'
BY FirstBegins, FirstCommits, FirstElse DEF SignInNext

\* Two accounts are more than none and more than one.
LEMMA FirstOwns == FirstInv => OneOwner
<1> SUFFICES ASSUME FirstInv, ~(doubledFirst /\ Seeded) PROVE ~(Cardinality(accounts) > 1)
  BY DEF OneOwner
<1>1. CASE accounts = {}
  BY <1>1, FS_EmptySet
<1>2. CASE \E m \in Emails : accounts = {m}
  BY <1>2, FS_Singleton
<1>. QED
  BY <1>1, <1>2 DEF FirstInv

--------------------------------------------------------------------------------
(* Replies prepared for Slack's messages *)

DeliveryRow == [step : IngestStep, kind : {"event", "compose"}, ts : Stamps \cup {NoDelivery.ts},
        newConversation : BOOLEAN, newMessage : BOOLEAN, drafts : 0..1, wanted : BOOLEAN]

\* A message that a delivery has inserted is one nobody sees yet, and a delivery that gets
\* past its insertion without one has found it there and prepares nothing.
Delivering(r) ==
    /\ r.step # "rest" /\ r.kind = "event" => r.ts \in Stamps
    /\ r.step \in {"check", "insert"} => r.kind = "event"
    /\ r.step \in {"conversation", "check", "insert"} => r.drafts = 0
    /\ r.newMessage => r.kind = "event" /\ r.step \in {"draft", "commit"} /\ r.ts \notin traced
    /\ r.kind = "event" /\ r.step \in {"draft", "commit"} /\ ~r.newMessage => r.step = "commit" /\ r.drafts = 0
    /\ r.step = "commit" /\ r.newMessage => r.drafts = IF r.wanted THEN 1 ELSE 0

\* The inductive invariant of ingestion: one session at most holds a message's key.
SlackInv ==
    /\ delivery \in [Deliveries -> DeliveryRow]
    /\ \A d \in Deliveries : Delivering(delivery[d])
    /\ \A d, e \in Deliveries : delivery[d].newMessage /\ delivery[e].newMessage => d = e
    /\ spared \subseteq traced /\ traced \subseteq Stamps
    /\ prepared \in [Stamps -> Nat]
    /\ AnsweredOnce

\* A change of a delivery's record changes the fields it names.
LEMMA RowChanges ==
    ASSUME NEW r \in DeliveryRow
    PROVE  /\ \A s \in IngestStep : [r EXCEPT !.step = s] \in DeliveryRow
           /\ \A s \in IngestStep : [r EXCEPT !.step = s, !.newConversation = TRUE] \in DeliveryRow
           /\ \A s \in IngestStep : [r EXCEPT !.step = s, !.newMessage = TRUE] \in DeliveryRow
           /\ \A s \in IngestStep, w \in BOOLEAN :
                 [r EXCEPT !.step = s, !.drafts = IF w THEN 1 ELSE 0, !.wanted = w] \in DeliveryRow
           /\ \A s \in IngestStep, ts \in Stamps, k \in {"event", "compose"} :
                 [r EXCEPT !.step = s, !.ts = ts, !.kind = k] \in DeliveryRow
           /\ \A s \in IngestStep, k \in {"event", "compose"} : [r EXCEPT !.step = s, !.kind = k] \in DeliveryRow
<1>1. r = [step |-> r.step, kind |-> r.kind, ts |-> r.ts, newConversation |-> r.newConversation,
           newMessage |-> r.newMessage, drafts |-> r.drafts, wanted |-> r.wanted]
  BY DEF DeliveryRow
<1>2. \A w \in BOOLEAN : (IF w THEN 1 ELSE 0) \in 0..1
  OBVIOUS
<1>. QED
  BY <1>1, <1>2 DEF DeliveryRow

LEMMA SlackRest == NoDelivery \in DeliveryRow /\ Delivering(NoDelivery) /\ NoDelivery.newMessage = FALSE /\ NoDelivery.drafts = 0
<1>1. /\ NoDelivery.step = "rest" /\ NoDelivery.kind = "event" /\ NoDelivery.newMessage = FALSE
      /\ NoDelivery.drafts = 0
  BY DEF NoDelivery
<1>2. NoDelivery \in DeliveryRow
  BY DEF NoDelivery, DeliveryRow, IngestStep
<1>. QED
  BY <1>1, <1>2 DEF Delivering

LEMMA SlackInitInv == InboxInit => SlackInv
BY SlackRest DEF InboxInit, SlackInv, AnsweredOnce, Delivering

\* A step within a session keeps the invariant if what it makes of its record is sound and
\* it inserts a message only where no other session has.
LEMMA SlackGoesOn ==
    ASSUME SlackInv, NEW d \in Deliveries, NEW r \in DeliveryRow, Delivering(r), GoOn(d, r),
           UNCHANGED <<traced, spared, prepared>>,
           r.newMessage => \A e \in Deliveries \ {d} : ~delivery[e].newMessage
    PROVE  SlackInv'
<1>1. \A e \in Deliveries : delivery'[e] = IF e = d THEN r ELSE delivery[e]
  BY DEF SlackInv, GoOn
<1>2. delivery' \in [Deliveries -> DeliveryRow]
  BY DEF SlackInv, GoOn
<1>3. \A e \in Deliveries : Delivering(delivery[e])'
  BY <1>1 DEF SlackInv, Delivering
<1>4. \A x, y \in Deliveries : delivery'[x].newMessage /\ delivery'[y].newMessage => x = y
  BY <1>1 DEF SlackInv
<1>5. AnsweredOnce'
  BY DEF SlackInv, AnsweredOnce
<1>. QED
  BY <1>2, <1>3, <1>4, <1>5 DEF SlackInv

LEMMA SlackBegins ==
    ASSUME SlackInv, NEW d \in Deliveries,
           (\E ts \in Stamps, kind \in {"event", "compose"} : Deliver(d, ts, kind)) \/ DraftReply(d)
    PROVE  SlackInv'
<1>1. CASE \E ts \in Stamps, kind \in {"event", "compose"} : Deliver(d, ts, kind)
  <2>1. PICK ts \in Stamps, kind \in {"event", "compose"} : Deliver(d, ts, kind)
    BY <1>1
  <2> DEFINE r == [NoDelivery EXCEPT !.step = "conversation", !.ts = ts, !.kind = kind]
  <2>2. r \in DeliveryRow /\ r.step = "conversation" /\ r.ts \in Stamps /\ ~r.newMessage /\ r.drafts = 0
    <3>1. r \in DeliveryRow
      BY SlackRest, RowChanges DEF IngestStep
    <3>2. r.step = "conversation" /\ r.ts = ts /\ r.newMessage = NoDelivery.newMessage /\ r.drafts = NoDelivery.drafts
      BY SlackRest DEF DeliveryRow
    <3>. QED
      BY <3>1, <3>2, SlackRest
  <2>3. Delivering(r)
    BY <2>2 DEF Delivering
  <2>4. GoOn(d, r) /\ UNCHANGED <<traced, spared, prepared>>
    BY <2>1 DEF Deliver, inboxRows
  <2> HIDE DEF r
  <2>. QED
    BY <2>2, <2>3, <2>4, SlackGoesOn
<1>2. CASE DraftReply(d)
  <2> DEFINE r == [NoDelivery EXCEPT !.step = "draft", !.kind = "compose"]
  <2>1. r \in DeliveryRow /\ r.step = "draft" /\ r.kind = "compose" /\ ~r.newMessage
    <3>1. r \in DeliveryRow
      BY SlackRest, RowChanges DEF IngestStep
    <3>2. r.step = "draft" /\ r.kind = "compose" /\ r.newMessage = NoDelivery.newMessage
      BY SlackRest DEF DeliveryRow
    <3>. QED
      BY <3>1, <3>2, SlackRest
  <2>2. Delivering(r)
    BY <2>1 DEF Delivering
  <2>3. GoOn(d, r) /\ UNCHANGED <<traced, spared, prepared>>
    BY <1>2 DEF DraftReply, inboxRows
  <2> HIDE DEF r
  <2>. QED
    BY <2>1, <2>2, <2>3, SlackGoesOn
<1>. QED
  BY <1>1, <1>2

LEMMA SlackUpsert ==
    ASSUME SlackInv, NEW d \in Deliveries, Upsert(d)
    PROVE  SlackInv'
<1> DEFINE e == delivery[d]
           next == IF e.kind = "event" THEN "check" ELSE "draft"
           found == [e EXCEPT !.step = next]
           new == [e EXCEPT !.step = next, !.newConversation = TRUE]
<1>1. e \in DeliveryRow /\ Delivering(e) /\ e.step = "conversation"
  BY DEF SlackInv, Upsert, At
<1>2. next \in IngestStep /\ ~e.newMessage
  BY <1>1 DEF IngestStep, Delivering
<1>3. found \in DeliveryRow /\ new \in DeliveryRow
  BY <1>1, <1>2, RowChanges
<1>4. \A r \in {found, new} : r.step = next /\ r.kind = e.kind /\ r.ts = e.ts /\ ~r.newMessage /\ r.drafts = e.drafts
  BY <1>1, <1>2 DEF DeliveryRow
<1>5. Delivering(found) /\ Delivering(new)
  BY <1>1, <1>4 DEF Delivering
<1>6. (GoOn(d, found) \/ GoOn(d, new)) /\ UNCHANGED <<traced, spared, prepared>>
  BY DEF Upsert, Within, inboxRows
<1> HIDE DEF found, new
<1>. QED
  BY <1>3, <1>4, <1>5, <1>6, SlackGoesOn

LEMMA SlackChecks ==
    ASSUME SlackInv, NEW d \in Deliveries, CheckMessage(d)
    PROVE  SlackInv'
<1> DEFINE e == delivery[d]
           step == IF e.ts \in traced THEN "commit" ELSE "insert"
           r == [e EXCEPT !.step = step]
<1>1. e \in DeliveryRow /\ Delivering(e) /\ e.step = "check"
  BY DEF SlackInv, CheckMessage, At
<1>2. r \in DeliveryRow
  BY <1>1, RowChanges DEF IngestStep
<1>3. r.step = step /\ r.kind = e.kind /\ r.ts = e.ts /\ r.newMessage = e.newMessage /\ r.drafts = e.drafts
  BY <1>1 DEF DeliveryRow
<1>4. Delivering(r)
  BY <1>1, <1>3 DEF Delivering
<1>5. GoOn(d, r) /\ UNCHANGED <<traced, spared, prepared>>
  BY DEF CheckMessage, Within, inboxRows
<1>6. ~r.newMessage
  BY <1>1, <1>3 DEF Delivering
<1> HIDE DEF r
<1>. QED
  BY <1>2, <1>4, <1>5, <1>6, SlackGoesOn

LEMMA SlackInserts ==
    ASSUME SlackInv, NEW d \in Deliveries, InsertMessage(d)
    PROVE  SlackInv'
<1> DEFINE e == delivery[d]
           r == [e EXCEPT !.step = "draft", !.newMessage = TRUE]
<1>1. e \in DeliveryRow /\ Delivering(e) /\ e.step = "insert" /\ \A x \in Deliveries \ {d} : ~delivery[x].newMessage
  BY DEF SlackInv, InsertMessage, InsertUnless, At, MessageWaits, Others
<1>2. r \in DeliveryRow
  BY <1>1, RowChanges DEF IngestStep
<1>3. r.step = "draft" /\ r.kind = e.kind /\ r.ts = e.ts /\ r.newMessage
  BY <1>1 DEF DeliveryRow
<1>4. e.ts \notin traced => Delivering(r)
  BY <1>1, <1>3 DEF Delivering
<1>5. /\ UNCHANGED <<traced, spared, prepared>>
      /\ GoOn(d, NoDelivery) \/ (e.ts \notin traced /\ GoOn(d, r))
  BY DEF InsertMessage, InsertUnless, Within, inboxRows
<1> HIDE DEF r
<1>. QED
  BY <1>1, <1>2, <1>4, <1>5, SlackGoesOn, SlackRest

LEMMA SlackPrepares ==
    ASSUME SlackInv, NEW d \in Deliveries, NEW scope \in BOOLEAN, PrepareDraft(d, scope)
    PROVE  SlackInv'
<1> DEFINE e == delivery[d]
           wanted == e.kind = "compose" \/ (autoPrepare /\ scope)
           r == [e EXCEPT !.step = "commit", !.drafts = IF wanted THEN 1 ELSE 0, !.wanted = wanted]
<1>1. e \in DeliveryRow /\ Delivering(e) /\ e.step = "draft"
  BY DEF SlackInv, PrepareDraft, At
<1>2. wanted \in BOOLEAN
  OBVIOUS
<1>3. r \in DeliveryRow
  <2> HIDE DEF wanted
  <2>. QED
    BY <1>1, <1>2, RowChanges DEF IngestStep
<1>4. /\ r.step = "commit" /\ r.kind = e.kind /\ r.ts = e.ts /\ r.newMessage = e.newMessage
      /\ r.wanted = wanted /\ r.drafts = IF wanted THEN 1 ELSE 0
  <2> HIDE DEF wanted
  <2>. QED
    BY <1>1 DEF DeliveryRow
<1>5. Delivering(r)
  <2> HIDE DEF wanted, r
  <2>. QED
    BY <1>1, <1>4 DEF Delivering
<1>6. GoOn(d, r) /\ UNCHANGED <<traced, spared, prepared>>
  BY DEF PrepareDraft, Within, inboxRows
<1>7. r.newMessage => \A x \in Deliveries \ {d} : ~delivery[x].newMessage
  BY <1>4 DEF SlackInv
<1> HIDE DEF r
<1>. QED
  BY <1>3, <1>5, <1>6, <1>7, SlackGoesOn

\* A commit that brings a message brings its reply, if one was wanted, with it.
LEMMA SlackCommits ==
    ASSUME SlackInv, NEW d \in Deliveries, CommitDelivery(d)
    PROVE  SlackInv'
<1> DEFINE e == delivery[d]
<1>1. e \in DeliveryRow /\ Delivering(e) /\ e.step = "commit"
  BY DEF SlackInv, CommitDelivery, At
<1>2. \A x \in Deliveries : delivery'[x] = IF x = d THEN NoDelivery ELSE delivery[x]
  BY DEF SlackInv, CommitDelivery, GoOn
<1>3. delivery' \in [Deliveries -> DeliveryRow]
  BY SlackRest DEF SlackInv, CommitDelivery, GoOn
<1>4. \A x, y \in Deliveries : delivery'[x].newMessage /\ delivery'[y].newMessage => x = y
  BY <1>2, SlackRest DEF SlackInv
<1>5. CASE e.newMessage
  <2>1. e.kind = "event" /\ e.ts \in Stamps \ traced /\ e.drafts = IF e.wanted THEN 1 ELSE 0
    BY <1>1, <1>5 DEF Delivering
  <2>2. /\ traced' = traced \cup {e.ts}
        /\ spared' = IF ~e.wanted THEN spared \cup {e.ts} ELSE spared
        /\ prepared' = [prepared EXCEPT ![e.ts] = @ + e.drafts]
    BY <1>5, <2>1 DEF CommitDelivery
  <2>3. prepared[e.ts] = 0
    BY <2>1 DEF SlackInv, AnsweredOnce
  <2>4. prepared' \in [Stamps -> Nat] /\ prepared'[e.ts] = e.drafts
        /\ \A ts \in Stamps \ {e.ts} : prepared'[ts] = prepared[ts]
    BY <2>1, <2>2, <2>3 DEF SlackInv
  <2>5. AnsweredOnce'
    BY <2>1, <2>2, <2>4 DEF SlackInv, AnsweredOnce
  <2>6. \A x \in Deliveries : Delivering(delivery[x])'
    <3> SUFFICES ASSUME NEW x \in Deliveries PROVE Delivering(delivery[x])'
      OBVIOUS
    <3>1. CASE x = d
      BY <3>1, <1>2, SlackRest DEF Delivering
    <3>2. CASE x # d
      <4>1. delivery'[x] = delivery[x] /\ ~delivery[x].newMessage /\ Delivering(delivery[x])
        BY <3>2, <1>2, <1>5 DEF SlackInv
      <4>. QED
        BY <4>1 DEF Delivering
    <3>. QED
      BY <3>1, <3>2
  <2>7. spared' \subseteq traced' /\ traced' \subseteq Stamps
    BY <2>1, <2>2 DEF SlackInv
  <2>. QED
    BY <1>3, <1>4, <2>4, <2>5, <2>6, <2>7 DEF SlackInv
<1>6. CASE ~e.newMessage
  <2>1. traced' = traced /\ spared' = spared
    BY <1>6 DEF CommitDelivery
  <2>2. e.kind = "event" => e.ts \in Stamps /\ e.drafts = 0
    BY <1>1, <1>6 DEF Delivering
  <2>3. prepared' = prepared
    <3>1. CASE e.kind = "event"
      <4>1. prepared' = [prepared EXCEPT ![e.ts] = @ + 0] /\ prepared[e.ts] \in Nat
        BY <3>1, <2>2 DEF CommitDelivery, SlackInv
      <4>. QED
        BY <4>1 DEF SlackInv
    <3>2. CASE e.kind # "event"
      BY <3>2 DEF CommitDelivery
    <3>. QED
      BY <3>1, <3>2
  <2>. QED
    BY <2>1, <2>3, SlackRest, SlackGoesOn DEF CommitDelivery
<1>. QED
  BY <1>5, <1>6

LEMMA SlackFails ==
    ASSUME SlackInv, NEW d \in Deliveries, FailDelivery(d)
    PROVE  SlackInv'
BY SlackRest, SlackGoesOn DEF FailDelivery, Within, inboxRows

LEMMA SlackStutters == SlackInv /\ UNCHANGED inboxVars => SlackInv'
BY DEF SlackInv, inboxVars, inboxRows, Delivering, AnsweredOnce

LEMMA SlackStepInv == SlackInv /\ InboxNext => SlackInv'
<1> SUFFICES ASSUME SlackInv, InboxNext PROVE SlackInv'
  OBVIOUS
<1>1. CASE \E d \in Deliveries :
              \/ \E ts \in Stamps, kind \in {"event", "compose"} : Deliver(d, ts, kind)
              \/ DraftReply(d) \/ Upsert(d) \/ CheckMessage(d) \/ InsertMessage(d)
              \/ \E scope \in BOOLEAN : PrepareDraft(d, scope)
              \/ CommitDelivery(d) \/ FailDelivery(d)
  BY <1>1, SlackBegins, SlackUpsert, SlackChecks, SlackInserts, SlackPrepares, SlackCommits, SlackFails
<1>2. CASE (\E ts \in Stamps : MarkHandled(ts)) \/ SwitchAutoPrepare
  <2>1. UNCHANGED <<traced, spared, prepared, delivery>>
    BY <1>2 DEF MarkHandled, SwitchAutoPrepare, inboxRows
  <2>. QED
    BY <2>1 DEF SlackInv, Delivering, AnsweredOnce
<1>. QED
  BY <1>1, <1>2 DEF InboxNext

--------------------------------------------------------------------------------
(* The signals of a day *)

MatterStatus == {"none", "active", "blocked", "done", "pending", "decided", "planned"}
RowType == {"completed", "progress", "blocked", "meeting"}
SignalKeys == Seq(Work \cup MatterStatus)
SignalRow == [key : SignalKeys, thing : Work, type : RowType]
DraftLine == [key : SignalKeys, thing : Work, type : RowType, included : BOOLEAN]

\* Signals read at once are about different things, none of them a note.
OneEach(signals) ==
    /\ signals \subseteq SignalRow
    /\ \A s \in signals : s.key[1] = s.thing /\ Sort[s.thing] # "note"
    /\ \A s, t \in signals : s.thing = t.thing => s = t

\* The inductive invariant of the collections: a key tells what a row is about, and a pass
\* knows the keys of the rows it has seen.
EvidenceInv ==
    /\ evidence \in Seq(DraftLine)
    /\ \A n \in DOMAIN evidence : evidence[n].key[1] = evidence[n].thing
    /\ matters \in [Work -> [status : MatterStatus, at : Nat]] /\ part \in Nat
    /\ \A w \in Work : Sort[w] = "note" => matters[w].status = "none"
    /\ DOMAIN passes = Collectors
    /\ \A c \in Collectors : passes[c] # NoCollection =>
          /\ OneEach(passes[c].signals)
          /\ passes[c].seen \subseteq DOMAIN evidence
          /\ passes[c].known = {evidence[n].key : n \in passes[c].seen}
    /\ OneRowASignal

\* A set can be listed: its list has each member once.
LEMMA SetIsListed ==
    ASSUME NEW S, IsFiniteSet(S)
    PROVE  /\ SetToSeq(S) \in Seq(S)
           /\ \A i, j \in DOMAIN SetToSeq(S) : SetToSeq(S)[i] = SetToSeq(S)[j] => i = j
           /\ \A i \in DOMAIN SetToSeq(S) : SetToSeq(S)[i] \in S
<1>1. ExistsBijection(1..Cardinality(S), S) /\ Cardinality(S) \in Nat
  BY FS_CardinalityType
<1>2. \E f \in [1..Cardinality(S) -> S] : IsInjective(f)
  BY <1>1 DEF ExistsBijection, Bijection, Injection, IsInjective
<1>3. SetToSeq(S) \in [1..Cardinality(S) -> S] /\ IsInjective(SetToSeq(S))
  BY <1>2 DEF SetToSeq
<1>4. SetToSeq(S) \in Seq(S)
  BY <1>1, <1>3
<1>5. \A i, j \in DOMAIN SetToSeq(S) : SetToSeq(S)[i] = SetToSeq(S)[j] => i = j
  BY <1>3 DEF IsInjective
<1>. QED
  BY <1>3, <1>4, <1>5

LEMMA EvidenceInitInv == EvidenceInit => EvidenceInv
<1> SUFFICES ASSUME EvidenceInit PROVE EvidenceInv
  OBVIOUS
<1>1. evidence = <<>> /\ DOMAIN evidence = {}
  BY DEF EvidenceInit
<1>2. matters \in [Work -> [status : MatterStatus, at : Nat]] /\ part \in Nat
      /\ \A w \in Work : matters[w].status = "none"
  <2>1. matters = [w \in Work |-> [status |-> "none", at |-> 0]] /\ part = 1
    BY DEF EvidenceInit
  <2>2. "none" \in MatterStatus /\ 0 \in Nat /\ 1 \in Nat
    BY DEF MatterStatus
  <2>3. [status |-> "none", at |-> 0] \in [status : MatterStatus, at : Nat]
    BY <2>2
  <2>. QED
    BY <2>1, <2>2, <2>3
<1>3. DOMAIN passes = Collectors /\ \A c \in Collectors : passes[c] = NoCollection
  BY DEF EvidenceInit
<1>. QED
  BY <1>1, <1>2, <1>3 DEF EvidenceInv, OneRowASignal

\* A thing has one status, so it gives one signal.
LEMMA SignalsDiffer == EvidenceInv => OneEach(Signals)
<1> SUFFICES ASSUME EvidenceInv PROVE OneEach(Signals)
  OBVIOUS
<1> DEFINE Row(w) == [key |-> KeyOf(w, matters[w].status), thing |-> w, type |-> TypeOf(w, matters[w].status)]
<1>1. \A w \in Work : /\ KeyOf(w, matters[w].status) \in SignalKeys
                      /\ KeyOf(w, matters[w].status)[1] = w
                      /\ TypeOf(w, matters[w].status) \in RowType
  <2> TAKE w \in Work
  <2>1. matters[w].status \in MatterStatus
    BY DEF EvidenceInv
  <2>2. TypeOf(w, matters[w].status) \in {"blocked", "meeting", "completed", "progress"}
    BY DEF TypeOf
  <2>3. KeyOf(w, matters[w].status) \in SignalKeys
    <3>1. \A x \in MatterStatus : <<w, x>> \in SignalKeys
      BY DEF SignalKeys
    <3>2. <<w>> \in SignalKeys
      BY DEF SignalKeys
    <3>. QED
      BY <2>1, <3>1, <3>2 DEF KeyOf
  <2>4. KeyOf(w, matters[w].status)[1] = w
    BY DEF KeyOf
  <2>5. TypeOf(w, matters[w].status) \in RowType
    BY <2>2 DEF RowType
  <2>. QED
    BY <2>3, <2>4, <2>5
<1>2. \A s \in Signals : \E w \in Work : s = Row(w) /\ matters[w].status # "none"
  BY DEF Signals
<1>3. \A w \in Work : Row(w) \in SignalRow /\ Row(w).key[1] = w /\ Row(w).thing = w
  BY <1>1 DEF SignalRow
<1> HIDE DEF Row
<1>. QED
  BY <1>2, <1>3 DEF OneEach, EvidenceInv

\* A step that keeps the rows keeps the invariant if it opens no pass but a sound one.
LEMMA RowsKept ==
    ASSUME EvidenceInv, UNCHANGED <<evidence, twofold>>,
           matters' \in [Work -> [status : MatterStatus, at : Nat]], part' \in Nat,
           \A w \in Work : Sort[w] = "note" => matters'[w].status = "none",
           DOMAIN passes' = Collectors,
           \A c \in Collectors : passes'[c] = passes[c] \/ passes'[c] = NoCollection
              \/ passes'[c] = [open |-> TRUE, signals |-> Signals,
                     known |-> {evidence[n].key : n \in Existing}, seen |-> DOMAIN evidence, then |-> matters]
    PROVE  EvidenceInv'
<1>1. \A c \in Collectors : passes'[c] # NoCollection =>
          /\ OneEach(passes'[c].signals)
          /\ passes'[c].seen \subseteq DOMAIN evidence
          /\ passes'[c].known = {evidence[n].key : n \in passes'[c].seen}
  <2> SUFFICES ASSUME NEW c \in Collectors, passes'[c] # NoCollection
               PROVE  /\ OneEach(passes'[c].signals)
                      /\ passes'[c].seen \subseteq DOMAIN evidence
                      /\ passes'[c].known = {evidence[n].key : n \in passes'[c].seen}
    OBVIOUS
  <2>1. CASE passes'[c] = passes[c]
    BY <2>1 DEF EvidenceInv
  <2>2. CASE passes'[c] = [open |-> TRUE, signals |-> Signals,
                     known |-> {evidence[n].key : n \in Existing}, seen |-> DOMAIN evidence, then |-> matters]
    <3>1. passes'[c].signals = Signals /\ passes'[c].seen = DOMAIN evidence
          /\ passes'[c].known = {evidence[n].key : n \in Existing}
      BY <2>2
    <3>. QED
      BY <3>1, SignalsDiffer DEF Existing
  <2>. QED
    BY <2>1, <2>2
<1>2. OneRowASignal'
  BY DEF EvidenceInv, OneRowASignal
<1>. QED
  BY <1>1, <1>2 DEF EvidenceInv, OneEach, SignalRow, SignalKeys, MatterStatus, RowType

\* Rows that are added have keys that tell what they are about, and those that are there keep
\* theirs.
LEMMA RowsGrow ==
    ASSUME EvidenceInv, evidence' \in Seq(DraftLine), DOMAIN evidence \subseteq DOMAIN evidence',
           \A n \in DOMAIN evidence : evidence'[n].key = evidence[n].key /\ evidence'[n].thing = evidence[n].thing,
           \A n \in DOMAIN evidence' \ DOMAIN evidence : evidence'[n].key[1] = evidence'[n].thing,
           UNCHANGED <<matters, part>>, DOMAIN passes' = Collectors,
           \A c \in Collectors : passes'[c] = passes[c] \/ passes'[c] = NoCollection,
           OneRowASignal'
    PROVE  EvidenceInv'
<1>1. \A c \in Collectors : passes'[c] # NoCollection =>
          /\ OneEach(passes'[c].signals)
          /\ passes'[c].seen \subseteq DOMAIN evidence'
          /\ passes'[c].known = {evidence'[n].key : n \in passes'[c].seen}
  <2> SUFFICES ASSUME NEW c \in Collectors, passes[c] # NoCollection
               PROVE  /\ OneEach(passes[c].signals)
                      /\ passes[c].seen \subseteq DOMAIN evidence'
                      /\ passes[c].known = {evidence'[n].key : n \in passes[c].seen}
    OBVIOUS
  <2>1. /\ OneEach(passes[c].signals)
        /\ passes[c].seen \subseteq DOMAIN evidence
        /\ passes[c].known = {evidence[n].key : n \in passes[c].seen}
    BY DEF EvidenceInv
  <2>. QED
    BY <2>1
<1>2. \A n \in DOMAIN evidence' : evidence'[n].key[1] = evidence'[n].thing
  BY DEF EvidenceInv
<1>. QED
  BY <1>1, <1>2 DEF EvidenceInv, OneEach, SignalRow, SignalKeys, MatterStatus, RowType

LEMMA WorkMoves ==
    ASSUME EvidenceInv, NEW w \in Work, Move(w)
    PROVE  EvidenceInv'
<1>1. PICK status \in MatterStatus : matters' = [matters EXCEPT ![w] = [status |-> status, at |-> part]] /\ Sort[w] # "note"
  <2>1. \E status \in {"active", "blocked", "done", "pending", "decided", "planned"} :
           matters' = [matters EXCEPT ![w] = [status |-> status, at |-> part]] /\ Sort[w] # "note"
    BY EvidenceAssumption DEF Move
  <2>. QED
    BY <2>1 DEF MatterStatus
<1>2. matters' \in [Work -> [status : MatterStatus, at : Nat]]
  BY <1>1 DEF EvidenceInv
<1>3. \A v \in Work : Sort[v] = "note" => matters'[v].status = "none"
  BY <1>1 DEF EvidenceInv
<1>. QED
  BY <1>2, <1>3, RowsKept DEF Move, EvidenceInv

LEMMA PassBegins ==
    ASSUME EvidenceInv, NEW c \in Collectors, BeginCollect(c)
    PROVE  EvidenceInv'
BY RowsKept DEF BeginCollect, EvidenceInv

LEMMA NoteAdded ==
    ASSUME EvidenceInv, NEW w \in Work, AddNote(w)
    PROVE  EvidenceInv'
<1> DEFINE row == [key |-> <<w>>, thing |-> w, type |-> "completed", included |-> TRUE]
<1>1. row \in DraftLine /\ row.key = <<w>> /\ row.key[1] = w /\ row.thing = w
  <2>1. <<w>> \in SignalKeys /\ <<w>>[1] = w
    BY DEF SignalKeys
  <2>2. row = [key |-> <<w>>, thing |-> w, type |-> "completed", included |-> TRUE] /\ "completed" \in RowType
    BY DEF RowType
  <2>3. row \in DraftLine
    BY <2>1, <2>2 DEF DraftLine
  <2>. QED
    BY <2>1, <2>2, <2>3
<1>2. evidence' = Append(evidence, row) /\ UNCHANGED <<matters, part, passes, twofold>> /\ Sort[w] = "note"
  BY DEF AddNote
<1> HIDE DEF row
<1>3. evidence' \in Seq(DraftLine) /\ DOMAIN evidence' = 1..(Len(evidence) + 1) /\ DOMAIN evidence = 1..Len(evidence)
      /\ \A n \in DOMAIN evidence' : evidence'[n] = IF n \in DOMAIN evidence THEN evidence[n] ELSE row
  BY <1>1, <1>2 DEF EvidenceInv
<1>4. \A n \in DOMAIN evidence' : evidence'[n].key[1] = evidence'[n].thing
  BY <1>1, <1>3 DEF EvidenceInv
<1>5. OneRowASignal'
  <2> SUFFICES ASSUME ~twofold, NEW m \in DOMAIN evidence', NEW n \in DOMAIN evidence', m # n,
                      evidence'[m].key = evidence'[n].key
               PROVE  Sort[evidence'[n].thing] = "note"
    BY <1>2 DEF OneRowASignal
  <2>1. CASE m \in DOMAIN evidence /\ n \in DOMAIN evidence
    BY SMTT(40), <2>1, <1>3 DEF EvidenceInv, OneRowASignal
  <2>2. CASE ~(m \in DOMAIN evidence /\ n \in DOMAIN evidence)
    <3>1. evidence'[n].thing = w
      BY <2>2, <1>1, <1>3, <1>4
    <3>. QED
      BY <3>1, <1>2
  <2>. QED
    BY <2>1, <2>2
<1>. QED
  BY <1>2, <1>3, <1>4, <1>5, RowsGrow DEF EvidenceInv

\* Rows are chosen one by one; a row keeps its key.
LEMMA RowIncluded ==
    ASSUME EvidenceInv, NEW n \in DOMAIN evidence, NEW included \in BOOLEAN, Include(n, included)
    PROVE  EvidenceInv'
<1>1. evidence' = [evidence EXCEPT ![n].included = included] /\ UNCHANGED <<matters, part, passes, twofold>>
  BY DEF Include
<1>2. \A r \in DraftLine : [r EXCEPT !.included = included] \in DraftLine /\ [r EXCEPT !.included = included].key = r.key
                      /\ [r EXCEPT !.included = included].thing = r.thing
  BY DEF DraftLine
<1>3. evidence[n] \in DraftLine /\ evidence' = [evidence EXCEPT ![n] = [evidence[n] EXCEPT !.included = included]]
  BY <1>1 DEF EvidenceInv
<1>4. evidence' \in Seq(DraftLine) /\ DOMAIN evidence' = DOMAIN evidence
  BY <1>2, <1>3 DEF EvidenceInv
<1>5. \A m \in DOMAIN evidence : evidence'[m].key = evidence[m].key /\ evidence'[m].thing = evidence[m].thing
  BY <1>2, <1>3 DEF EvidenceInv
<1>6. OneRowASignal'
  BY <1>1, <1>4, <1>5 DEF EvidenceInv, OneRowASignal
<1>. QED
  BY <1>1, <1>4, <1>5, <1>6, RowsGrow DEF EvidenceInv

\* A pass that ends adds the signals it did not know; another pass that added one of them since
\* it read has crossed it.
LEMMA PassCommits ==
    ASSUME EvidenceInv, NEW c \in Collectors, CommitCollect(c)
    PROVE  /\ EvidenceInv'
           /\ twofold => twofold'
           /\ DOMAIN evidence \subseteq DOMAIN evidence'
           /\ \A n \in DOMAIN evidence : evidence'[n].key = evidence[n].key /\ evidence'[n].thing = evidence[n].thing
                                          /\ evidence'[n].included = evidence[n].included
           /\ \A n \in DOMAIN evidence' \ DOMAIN evidence :
                 twofold' \/ \A m \in DOMAIN evidence : evidence[m].key # evidence'[n].key
<1> DEFINE pass == passes[c]
           match(row) == {s \in pass.signals : row.key = s.key}
           refreshed == [n \in DOMAIN evidence |->
                            IF match(evidence[n]) # {} /\ evidence[n].key \in pass.known
                            THEN RefreshedRow(evidence[n], CHOOSE s \in match(evidence[n]) : TRUE)
                            ELSE evidence[n]]
           missing == {s \in pass.signals : s.key \notin pass.known}
           fresh == {[key |-> s.key, thing |-> s.thing, type |-> s.type, included |-> TRUE] : s \in missing}
           added == SetToSeq(fresh)
<1>1. /\ pass # NoCollection
      /\ evidence' = refreshed \o added
      /\ twofold' = (twofold \/ \E n \in DOMAIN evidence \ pass.seen, s \in missing : evidence[n].key = s.key)
      /\ passes' = [passes EXCEPT ![c] = NoCollection]
      /\ UNCHANGED <<matters, part>>
  BY DEF CommitCollect
<1>2. /\ OneEach(pass.signals) /\ pass.seen \subseteq DOMAIN evidence
      /\ pass.known = {evidence[n].key : n \in pass.seen}
  BY <1>1 DEF EvidenceInv
<1>3. /\ refreshed \in Seq(DraftLine) /\ Len(refreshed) = Len(evidence)
      /\ \A n \in DOMAIN evidence : refreshed[n].key = evidence[n].key /\ refreshed[n].thing = evidence[n].thing
                                    /\ refreshed[n].included = evidence[n].included
  <2>1. \A r \in DraftLine, s \in SignalRow : RefreshedRow(r, s) \in DraftLine /\ RefreshedRow(r, s).key = r.key
            /\ RefreshedRow(r, s).thing = r.thing /\ RefreshedRow(r, s).included = r.included
    BY DEF DraftLine, SignalRow, RefreshedRow
  <2>2. \A r \in DraftLine : match(r) # {} => (CHOOSE s \in match(r) : TRUE) \in SignalRow
    BY <1>2 DEF OneEach
  <2>3. \A n \in DOMAIN evidence : evidence[n] \in DraftLine
    BY DEF EvidenceInv
  <2> HIDE DEF match, pass
  <2>4. \A n \in DOMAIN evidence : refreshed[n] \in DraftLine
            /\ refreshed[n].key = evidence[n].key /\ refreshed[n].thing = evidence[n].thing
            /\ refreshed[n].included = evidence[n].included
    BY <2>1, <2>2, <2>3
  <2>5. DOMAIN evidence = 1..Len(evidence) /\ Len(evidence) \in Nat /\ DOMAIN refreshed = DOMAIN evidence
    BY DEF EvidenceInv
  <2>6. refreshed \in [1..Len(evidence) -> DraftLine]
    BY <2>4, <2>5
  <2> HIDE DEF refreshed
  <2>. QED
    BY <2>4, <2>5, <2>6
<1>4. /\ fresh \subseteq DraftLine
      /\ \A r \in fresh : r.key[1] = r.thing /\ r.key \notin pass.known /\ \E s \in missing : s.key = r.key
      /\ \A r, x \in fresh : r.thing = x.thing => r = x
  <2> DEFINE Row(x) == [key |-> x.key, thing |-> x.thing, type |-> x.type, included |-> TRUE]
  <2>1. \A x \in missing : x \in SignalRow /\ x.key[1] = x.thing /\ x.key \notin pass.known
    BY <1>2 DEF OneEach
  <2>2. \A x \in SignalRow : Row(x) \in DraftLine /\ Row(x).key = x.key /\ Row(x).thing = x.thing
    BY DEF SignalRow, DraftLine
  <2>3. \A r \in fresh : \E x \in missing : r = Row(x)
    OBVIOUS
  <2>4. \A x, y \in missing : x.thing = y.thing => x = y
    BY <1>2 DEF OneEach
  <2> HIDE DEF Row, missing, fresh, pass
  <2>5. ASSUME NEW r \in fresh, NEW x \in fresh, r.thing = x.thing PROVE r = x
    <3>1. PICK a \in missing : r = Row(a)
      BY <2>3
    <3>2. PICK b \in missing : x = Row(b)
      BY <2>3
    <3>3. a = b
      BY <3>1, <3>2, <2>1, <2>2, <2>4, <2>5
    <3>. QED
      BY <3>1, <3>2, <3>3
  <2>6. ASSUME NEW r \in fresh
        PROVE  r \in DraftLine /\ r.key[1] = r.thing /\ r.key \notin pass.known /\ \E s \in missing : s.key = r.key
    <3>1. PICK a \in missing : r = Row(a)
      BY <2>3
    <3>. QED
      BY <3>1, <2>1, <2>2
  <2>. QED
    BY <2>5, <2>6
<1> HIDE DEF fresh, missing, refreshed, pass
<1>5. IsFiniteSet(fresh)
  <2> DEFINE f == [r \in fresh |-> r.thing]
  <2>1. \A r \in fresh : r.thing \in Work
    BY <1>4 DEF DraftLine
  <2>2. f \in [fresh -> Work] /\ \A r, x \in fresh : f[r] = f[x] => r = x
    BY <1>4, <2>1
  <2>3. f \in Injection(fresh, Work)
    BY <2>2 DEF Injection, IsInjective
  <2>. QED
    BY <2>3, FS_Injection, EvidenceAssumption
<1>6. /\ added \in Seq(fresh)
      /\ \A i, j \in DOMAIN added : added[i] = added[j] => i = j
      /\ \A i \in DOMAIN added : added[i] \in fresh
  BY <1>5, SetIsListed
<1> HIDE DEF added
<1>7. added \in Seq(DraftLine)
  BY <1>4, <1>6
<1>8. /\ evidence' \in Seq(DraftLine) /\ DOMAIN evidence \subseteq DOMAIN evidence'
      /\ \A n \in DOMAIN evidence : evidence'[n] = refreshed[n]
      /\ \A n \in DOMAIN evidence' \ DOMAIN evidence :
            n - Len(evidence) \in DOMAIN added /\ evidence'[n] = added[n - Len(evidence)]
      /\ DOMAIN evidence' \subseteq Nat /\ Len(evidence) \in Nat
  <2>1. evidence \in Seq(DraftLine)
    BY DEF EvidenceInv
  <2>. QED
    BY <2>1, <1>1, <1>3, <1>7
<1>9. \A n \in DOMAIN evidence : evidence'[n].key = evidence[n].key /\ evidence'[n].thing = evidence[n].thing
                                  /\ evidence'[n].included = evidence[n].included
  BY <1>3, <1>8
<1>10. \A n \in DOMAIN evidence' \ DOMAIN evidence :
          /\ evidence'[n] \in fresh
          /\ evidence'[n].key[1] = evidence'[n].thing
          /\ twofold' \/ \A m \in DOMAIN evidence : evidence[m].key # evidence'[n].key
  <2> SUFFICES ASSUME NEW n \in DOMAIN evidence' \ DOMAIN evidence
               PROVE  /\ evidence'[n] \in fresh
                      /\ evidence'[n].key[1] = evidence'[n].thing
                      /\ twofold' \/ \A m \in DOMAIN evidence : evidence[m].key # evidence'[n].key
    OBVIOUS
  <2>1. evidence'[n] \in fresh
    BY <1>6, <1>8
  <2>2. evidence'[n].key[1] = evidence'[n].thing /\ evidence'[n].key \notin pass.known
    BY <2>1, <1>4
  <2>3. PICK s \in missing : s.key = evidence'[n].key
    BY <2>1, <1>4
  <2>4. ASSUME NEW m \in DOMAIN evidence, evidence[m].key = evidence'[n].key PROVE twofold'
    <3>1. m \notin pass.seen
      BY <2>2, <2>4, <1>2
    <3>. QED
      BY <3>1, <2>3, <2>4, <1>1
  <2>. QED
    BY <2>1, <2>2, <2>4
<1>11. OneRowASignal'
  <2> SUFFICES ASSUME ~twofold', NEW m \in DOMAIN evidence', NEW n \in DOMAIN evidence', m # n,
                      evidence'[m].key = evidence'[n].key
               PROVE  Sort[evidence'[n].thing] = "note"
    BY DEF OneRowASignal
  <2>1. CASE m \in DOMAIN evidence /\ n \in DOMAIN evidence
    <3>1. ~twofold /\ evidence[m].key = evidence[n].key /\ evidence'[n].thing = evidence[n].thing
      BY <2>1, <1>1, <1>9
    <3>. QED
      BY <2>1, <3>1 DEF EvidenceInv, OneRowASignal
  <2>2. CASE m \notin DOMAIN evidence /\ n \in DOMAIN evidence
    BY <2>2, <1>9, <1>10
  <2>3. CASE m \in DOMAIN evidence /\ n \notin DOMAIN evidence
    BY <2>3, <1>9, <1>10
  <2>4. CASE m \notin DOMAIN evidence /\ n \notin DOMAIN evidence
    <3>1. evidence'[m] \in fresh /\ evidence'[n] \in fresh /\ evidence'[m].thing = evidence'[n].thing
      BY <2>4, <1>10
    <3>2. evidence'[m] = evidence'[n]
      BY <3>1, <1>4
    <3>3. m - Len(evidence) = n - Len(evidence)
      BY <3>2, <2>4, <1>6, <1>8
    <3>. QED
      BY <3>3, <1>8
  <2>. QED
    BY <2>1, <2>2, <2>3, <2>4
<1>12. DOMAIN passes' = Collectors /\ \A x \in Collectors : passes'[x] = passes[x] \/ passes'[x] = NoCollection
  BY <1>1 DEF EvidenceInv
<1>13. EvidenceInv'
  BY <1>1, <1>8, <1>9, <1>10, <1>11, <1>12, RowsGrow
<1>. QED
  BY <1>1, <1>8, <1>9, <1>10, <1>13

LEMMA EvidenceStutters == EvidenceInv /\ UNCHANGED evidenceVars => EvidenceInv'
BY RowsKept DEF evidenceVars, EvidenceInv

LEMMA EvidenceStepInv == EvidenceInv /\ EvidenceNext => EvidenceInv'
<1> SUFFICES ASSUME EvidenceInv, EvidenceNext PROVE EvidenceInv'
  OBVIOUS
<1>1. CASE TimePasses
  BY <1>1, RowsKept DEF TimePasses, EvidenceInv
<1>2. CASE \E w \in Work : Move(w) \/ AddNote(w)
  BY <1>2, WorkMoves, NoteAdded
<1>3. CASE \E c \in Collectors : BeginCollect(c) \/ CommitCollect(c)
  BY <1>3, PassBegins, PassCommits
<1>4. CASE \E n \in DOMAIN evidence, included \in BOOLEAN : Include(n, included)
  BY <1>4, RowIncluded
<1>5. CASE Generate
  BY <1>5, RowsKept DEF Generate, EvidenceInv
<1>6. CASE \E history \in SUBSET Messages, learns \in BOOLEAN : Resolve(history, learns)
  <2>1. UNCHANGED <<evidence, twofold, matters, part, passes>>
    BY <1>6 DEF Resolve
  <2>. QED
    BY <2>1, RowsKept DEF EvidenceInv
<1>. QED
  BY <1>1, <1>2, <1>3, <1>4, <1>5, <1>6 DEF EvidenceNext

--------------------------------------------------------------------------------
(* What a person has excluded of the day *)

\* What was excluded is a row, and stays so.
ExcludedInv ==
    /\ \A k \in said : \E n \in DOMAIN evidence : evidence[n].key = k
    /\ ExclusionKept

LEMMA ExcludedInitInv == EvidenceInit => ExcludedInv
BY DEF EvidenceInit, ExcludedInv, ExclusionKept

LEMMA ExcludedStutters == ExcludedInv /\ UNCHANGED <<evidence, said, twofold>> => ExcludedInv'
BY DEF ExcludedInv, ExclusionKept

\* Rows that are added are not excluded, and those that are there stay in or out.
LEMMA ExcludedGrows ==
    ASSUME ExcludedInv, DOMAIN evidence \subseteq DOMAIN evidence', said' = said, twofold => twofold',
           \A n \in DOMAIN evidence : evidence'[n].key = evidence[n].key /\ evidence'[n].thing = evidence[n].thing
                                      /\ evidence'[n].included = evidence[n].included,
           \A n \in DOMAIN evidence' \ DOMAIN evidence :
               \/ twofold' \/ Sort[evidence'[n].thing] = "note"
               \/ \A m \in DOMAIN evidence : evidence[m].key # evidence'[n].key
    PROVE  ExcludedInv'
<1>1. \A k \in said : \E n \in DOMAIN evidence' : evidence'[n].key = k
  BY DEF ExcludedInv
<1>2. ASSUME ~twofold', NEW n \in DOMAIN evidence', evidence'[n].key \in said, evidence'[n].included
      PROVE  Sort[evidence'[n].thing] = "note"
  <2>1. CASE n \in DOMAIN evidence
    BY <1>2, <2>1 DEF ExcludedInv, ExclusionKept
  <2>2. CASE n \notin DOMAIN evidence
    <3>1. PICK m \in DOMAIN evidence : evidence[m].key = evidence'[n].key
      BY <1>2 DEF ExcludedInv
    <3>. QED
      BY <1>2, <2>2, <3>1
  <2>. QED
    BY <2>1, <2>2
<1>. QED
  BY <1>1, <1>2 DEF ExcludedInv, ExclusionKept

LEMMA ExcludedCommit ==
    ASSUME EvidenceInv, ExcludedInv, NEW c \in Collectors, CommitCollect(c)
    PROVE  ExcludedInv'
<1>1. said' = said
  BY DEF CommitCollect
<1>. QED
  BY <1>1, PassCommits, ExcludedGrows

LEMMA ExcludedNote ==
    ASSUME EvidenceInv, ExcludedInv, NEW w \in Work, AddNote(w)
    PROVE  ExcludedInv'
<1> PICK row : row = [key |-> <<w>>, thing |-> w, type |-> "completed", included |-> TRUE]
  OBVIOUS
<1>1. evidence' = Append(evidence, row) /\ UNCHANGED <<said, twofold>> /\ Sort[w] = "note" /\ row.thing = w
  BY DEF AddNote
<1>2. DOMAIN evidence' = 1..(Len(evidence) + 1) /\ DOMAIN evidence = 1..Len(evidence) /\ Len(evidence) \in Nat
      /\ \A n \in DOMAIN evidence' : evidence'[n] = IF n \in DOMAIN evidence THEN evidence[n] ELSE row
  BY <1>1 DEF EvidenceInv
<1>. QED
  BY <1>1, <1>2, ExcludedGrows

\* A row is excluded with its key; one of another row that is included has the same key
\* only after a crossing, or if both are notes.
LEMMA ExcludedChoice ==
    ASSUME EvidenceInv, ExcludedInv, NEW n \in DOMAIN evidence, NEW included \in BOOLEAN, Include(n, included)
    PROVE  ExcludedInv'
<1> PICK row : row = [evidence[n] EXCEPT !.included = included]
  OBVIOUS
<1>1. evidence[n] \in DraftLine
  BY DEF EvidenceInv
<1>2. row.key = evidence[n].key /\ row.thing = evidence[n].thing /\ row.included = included
  BY <1>1 DEF DraftLine
<1>3. evidence' = [evidence EXCEPT ![n] = row] /\ twofold' = twofold
      /\ said' = (IF included THEN said \ {evidence[n].key} ELSE said \cup {evidence[n].key})
  BY DEF Include
<1>4. DOMAIN evidence' = DOMAIN evidence /\ evidence'[n] = row /\ \A m \in DOMAIN evidence \ {n} : evidence'[m] = evidence[m]
  BY <1>3 DEF EvidenceInv
<1>5. \A k \in said' : \E m \in DOMAIN evidence' : evidence'[m].key = k
  <2> SUFFICES ASSUME NEW k \in said' PROVE \E m \in DOMAIN evidence' : evidence'[m].key = k
    OBVIOUS
  <2>1. PICK m \in DOMAIN evidence : evidence[m].key = k
    BY <1>3 DEF ExcludedInv
  <2>. QED
    BY <1>2, <1>4, <2>1
<1>6. ASSUME ~twofold', NEW m \in DOMAIN evidence', evidence'[m].key \in said', evidence'[m].included
      PROVE  Sort[evidence'[m].thing] = "note"
  <2>1. CASE m = n
    <3>1. included /\ evidence[n].key \in said'
      BY <1>2, <1>4, <1>6, <2>1
    <3>2. said' = said \ {evidence[n].key}
      BY <1>3, <3>1
    <3>. QED
      BY <3>1, <3>2
  <2>2. CASE m # n /\ evidence[m].key = evidence[n].key
    BY <1>3, <1>4, <1>6, <2>2 DEF EvidenceInv, OneRowASignal
  <2>3. CASE m # n /\ evidence[m].key # evidence[n].key
    <3>1. m \in DOMAIN evidence /\ evidence[m].key \in said /\ evidence[m].included /\ ~twofold
      BY <1>3, <1>4, <1>6, <2>3
    <3>. QED
      BY <1>4, <2>3, <3>1 DEF ExcludedInv, ExclusionKept
  <2>. QED
    BY <2>1, <2>2, <2>3
<1>. QED
  BY <1>5, <1>6 DEF ExcludedInv, ExclusionKept

LEMMA ExcludedStepInv == EvidenceInv /\ ExcludedInv /\ EvidenceNext => ExcludedInv'
<1> SUFFICES ASSUME EvidenceInv, ExcludedInv, EvidenceNext PROVE ExcludedInv'
  OBVIOUS
<1>1. CASE \E c \in Collectors : CommitCollect(c)
  BY <1>1, ExcludedCommit
<1>2. CASE \E w \in Work : AddNote(w)
  BY <1>2, ExcludedNote
<1>3. CASE \E n \in DOMAIN evidence, included \in BOOLEAN : Include(n, included)
  BY <1>3, ExcludedChoice
<1>4. CASE TimePasses \/ (\E w \in Work : Move(w)) \/ (\E c \in Collectors : BeginCollect(c)) \/ Generate
           \/ \E history \in SUBSET Messages, learns \in BOOLEAN : Resolve(history, learns)
  <2>1. UNCHANGED <<evidence, said, twofold>>
    BY <1>4 DEF TimePasses, Move, BeginCollect, Generate, Resolve
  <2>. QED
    BY <2>1, ExcludedStutters
<1>. QED
  BY <1>1, <1>2, <1>3, <1>4 DEF EvidenceNext

--------------------------------------------------------------------------------
(* What is read of the log *)

Below(S, s) == {t \in S : t < s}

Rising(q) == \A i, j \in DOMAIN q : i < j => q[i] < q[j]

\* A greater number of a finite set has more numbers below it.
LEMMA BelowGrows ==
    ASSUME NEW S \in SUBSET Nat, IsFiniteSet(S), NEW a \in S, NEW b \in S, a < b
    PROVE  /\ Cardinality(Below(S, a)) \in Nat /\ Cardinality(Below(S, b)) \in Nat
           /\ Cardinality(Below(S, b)) <= Cardinality(S) - 1
           /\ Cardinality(Below(S, a)) < Cardinality(Below(S, b))
<1>1. Below(S, b) \in SUBSET (S \ {b}) /\ Below(S, a) \in SUBSET (Below(S, b) \ {a}) /\ a \in Below(S, b)
  <2>1. \A t \in S : t \in Nat /\ (t < a => t < b /\ t # a) /\ (t < b => t # b)
    OBVIOUS
  <2>2. \A t \in Below(S, b) : t \in S \ {b}
    BY <2>1 DEF Below
  <2>3. \A t \in Below(S, a) : t \in Below(S, b) \ {a}
    BY <2>1 DEF Below
  <2>. QED
    BY <2>2, <2>3 DEF Below
<1>2. IsFiniteSet(S \ {b}) /\ Cardinality(S \ {b}) = Cardinality(S) - 1
  BY FS_RemoveElement
<1>3. IsFiniteSet(Below(S, b)) /\ Cardinality(Below(S, b)) <= Cardinality(S) - 1
  BY <1>1, <1>2, FS_Subset
<1>4. /\ IsFiniteSet(Below(S, b) \ {a})
      /\ Cardinality(Below(S, b) \ {a}) = Cardinality(Below(S, b)) - 1
  BY <1>1, <1>3, FS_RemoveElement
<1>5. IsFiniteSet(Below(S, a)) /\ Cardinality(Below(S, a)) <= Cardinality(Below(S, b)) - 1
  BY <1>1, <1>4, FS_Subset
<1>6. Cardinality(Below(S, a)) \in Nat /\ Cardinality(Below(S, b)) \in Nat
  BY <1>3, <1>5, FS_CardinalityType
<1>. QED
  BY <1>3, <1>5, <1>6

LEMMA BelowBounded ==
    ASSUME NEW S \in SUBSET Nat, IsFiniteSet(S), NEW a \in S
    PROVE  Cardinality(Below(S, a)) \in 0..(Cardinality(S) - 1)
<1>1. Below(S, a) \in SUBSET (S \ {a})
  BY DEF Below
<1>2. /\ IsFiniteSet(S \ {a}) /\ Cardinality(S \ {a}) = Cardinality(S) - 1
      /\ Cardinality(S) \in Nat
  BY FS_RemoveElement, FS_CardinalityType
<1>3. IsFiniteSet(Below(S, a)) /\ Cardinality(Below(S, a)) <= Cardinality(S) - 1
  BY <1>1, <1>2, FS_Subset
<1>4. Cardinality(Below(S, a)) \in Nat
  BY <1>3, FS_CardinalityType
<1>. QED
  BY <1>2, <1>3, <1>4

\* The numbers of a finite set are counted off without a gap.
LEMMA NoGap ==
    ASSUME NEW S \in SUBSET Nat, IsFiniteSet(S), NEW k \in 0..(Cardinality(S) - 1)
    PROVE  \E s \in S : Cardinality(Below(S, s)) = k
<1> DEFINE T == 0..(Cardinality(S) - 1)
           rank == [s \in S |-> Cardinality(Below(S, s))]
<1>1. Cardinality(S) \in Nat
  BY FS_CardinalityType
<1>2. IsFiniteSet(T) /\ Cardinality(T) = Cardinality(S)
  BY <1>1, FS_Interval
<1>3. rank \in [S -> T]
  BY BelowBounded
<1>4. ASSUME NEW a \in S, NEW b \in S, a # b PROVE rank[a] # rank[b]
  <2>1. a \in Nat /\ b \in Nat /\ (a < b \/ b < a)
    BY <1>4
  <2>2. CASE a < b
    BY <2>2, BelowGrows
  <2>3. CASE b < a
    BY <2>3, BelowGrows
  <2>. QED
    BY <2>1, <2>2, <2>3
<1> HIDE DEF rank, T
<1>5. rank \in Injection(S, T)
  BY <1>3, <1>4 DEF Injection, IsInjective
<1>6. rank \in Surjection(S, T)
  BY <1>2, <1>5, FS_Injection
<1>7. k \in T
  BY DEF T
<1>8. PICK s \in S : rank[s] = k
  BY <1>6, <1>7 DEF Surjection
<1>. QED
  BY <1>8 DEF rank

\* The first numbers of a finite set, in order.
LEMMA FirstRise ==
    ASSUME NEW S \in SUBSET Nat, IsFiniteSet(S), NEW limit \in Nat
    PROVE  /\ FirstOf(S, limit) \in Seq(S)
           /\ Rising(FirstOf(S, limit))
<1> DEFINE n == IF Cardinality(S) < limit THEN Cardinality(S) ELSE limit
           Nth(i) == CHOOSE s \in S : Cardinality(Below(S, s)) = i - 1
           q == [i \in 1..n |-> Nth(i)]
<1>1. n \in Nat /\ n <= Cardinality(S) /\ Cardinality(S) \in Nat
  BY FS_CardinalityType
<1>2. FirstOf(S, limit) = q
  BY DEF FirstOf, Below
<1>3. ASSUME NEW i \in 1..n PROVE Nth(i) \in S /\ Cardinality(Below(S, Nth(i))) = i - 1
  <2>1. i - 1 \in 0..(Cardinality(S) - 1)
    BY <1>1
  <2>2. \E s \in S : Cardinality(Below(S, s)) = i - 1
    BY <2>1, NoGap
  <2>. QED
    BY <2>2
<1> HIDE DEF n, Nth
<1>4. q \in [1..n -> S]
  BY <1>3
<1>5. q \in Seq(S)
  BY <1>1, <1>4
<1>6. ASSUME NEW i \in 1..n, NEW j \in 1..n, i < j PROVE Nth(i) < Nth(j)
  <2>1. /\ Nth(i) \in S /\ Cardinality(Below(S, Nth(i))) = i - 1
        /\ Nth(j) \in S /\ Cardinality(Below(S, Nth(j))) = j - 1
    BY <1>3
  <2>2. Nth(i) \in Nat /\ Nth(j) \in Nat /\ Nth(i) # Nth(j)
    <3>1. i - 1 # j - 1
      BY <1>6
    <3>2. Cardinality(Below(S, Nth(i))) # Cardinality(Below(S, Nth(j)))
      BY <2>1, <3>1
    <3>. QED
      BY <2>1, <3>2
  <2>3. CASE Nth(j) < Nth(i)
    <3>1. Cardinality(Below(S, Nth(j))) < Cardinality(Below(S, Nth(i)))
      BY <2>1, <2>3, BelowGrows
    <3>. QED
      BY <3>1, <2>1, <1>6
  <2>. QED
    BY <2>2, <2>3
<1>7. Rising(q)
  BY <1>6 DEF Rising
<1>. QED
  BY <1>2, <1>5, <1>7

--------------------------------------------------------------------------------
(* What a client is sent *)

Transactions == [open : BOOLEAN, rows : SUBSET Nat, tasks : Nat, audits : Nat]
ServerEnds == [open : BOOLEAN, cursor : Nat, rows : Seq(Nat)]

\* A stream that is open holds, in order, rows beyond the last that its client saw.
Ahead(c) ==
    stream[c].open =>
       /\ stream[c].cursor = LastSeen(c)
       /\ Rising(stream[c].rows)
       /\ \A i \in DOMAIN stream[c].rows :
             stream[c].rows[i] \in RowsAfter(0) /\ stream[c].rows[i] > stream[c].cursor

\* What transactions hold and have committed are numbers of the log.
LogInv ==
    /\ \E S : log \in Seq(S)
    /\ commits \in Seq(SUBSET Nat)
    /\ \A i \in DOMAIN commits : commits[i] \subseteq 1..Len(log)
    /\ recording \in [Recorders -> Transactions]
    /\ \A w \in Recorders : recording[w].rows \subseteq 1..Len(log)

\* What clients saw and are to be sent.
ReadInv ==
    /\ stream \in [Tailers -> ServerEnds] /\ saw \in [Tailers -> Seq(Nat)]
    /\ \A c \in Tailers : Ahead(c)
    /\ DeliveredOnce

FeedInv == LogInv /\ ReadInv

LEMMA FeedInitInv == FeedInit => FeedInv
<1> SUFFICES ASSUME FeedInit PROVE FeedInv
  OBVIOUS
<1>1. log \in Seq({}) /\ commits \in Seq(SUBSET Nat) /\ DOMAIN commits = {}
  BY DEF FeedInit
<1>2. recording \in [Recorders -> Transactions] /\ \A w \in Recorders : recording[w].rows = {}
  BY DEF FeedInit, Transactions, NoTransaction
<1>3. stream \in [Tailers -> ServerEnds] /\ \A c \in Tailers : ~stream[c].open
  <2>1. NoStream \in ServerEnds /\ ~NoStream.open
    BY DEF NoStream, ServerEnds
  <2>. QED
    BY <2>1 DEF FeedInit
<1>4. saw \in [Tailers -> Seq(Nat)] /\ \A c \in Tailers : DOMAIN saw[c] = {}
  BY DEF FeedInit
<1>. QED
  BY <1>1, <1>2, <1>3, <1>4 DEF FeedInv, LogInv, ReadInv, Ahead, DeliveredOnce

LEMMA FeedStutters ==
    FeedInv /\ UNCHANGED <<log, commits, recording, stream, saw>> => FeedInv'
BY DEF FeedInv, LogInv, ReadInv, Ahead, DeliveredOnce, LastSeen, RowsAfter, Committed

\* The rows that readers see are finitely many numbers of the log.
LEMMA RowsFinite ==
    ASSUME LogInv, NEW seq \in Nat
    PROVE  /\ RowsAfter(seq) \in SUBSET Nat /\ IsFiniteSet(RowsAfter(seq))
           /\ \A s \in RowsAfter(seq) : s \in RowsAfter(0) /\ s > seq
<1>1. Len(log) \in Nat
  BY DEF LogInv
<1>2. Committed \subseteq 1..Len(log)
  BY DEF LogInv, Committed
<1>3. RowsAfter(seq) \in SUBSET (1..Len(log)) /\ IsFiniteSet(1..Len(log))
  <2>1. IsFiniteSet(1..Len(log))
    BY <1>1, FS_Interval
  <2>2. \A s \in RowsAfter(seq) : s \in 1..Len(log)
    BY <1>2 DEF RowsAfter
  <2>. QED
    BY <2>1, <2>2
<1>4. IsFiniteSet(RowsAfter(seq))
  BY <1>3, FS_Subset
<1>5. \A s \in RowsAfter(seq) : s \in RowsAfter(0) /\ s > seq
  <2>1. \A s \in 1..Len(log) : s > 0
    BY <1>1
  <2>. QED
    BY <1>3, <2>1 DEF RowsAfter
<1>. QED
  BY <1>1, <1>3, <1>4, <1>5

\* A page of the log.
LEMMA PageRises ==
    ASSUME LogInv, NEW seq \in Nat, NEW limit \in Nat
    PROVE  /\ ListSince(seq, limit) \in Seq(Nat)
           /\ Rising(ListSince(seq, limit))
           /\ \A i \in DOMAIN ListSince(seq, limit) :
                 ListSince(seq, limit)[i] \in RowsAfter(0) /\ ListSince(seq, limit)[i] > seq
<1> DEFINE S == RowsAfter(seq)
           q == FirstOf(S, limit)
<1>1. S \in SUBSET Nat /\ IsFiniteSet(S) /\ \A s \in S : s \in RowsAfter(0) /\ s > seq
  BY RowsFinite
<1> HIDE DEF S
<1>2. q \in Seq(S) /\ Rising(q)
  BY <1>1, FirstRise
<1>3. ListSince(seq, limit) = q
  BY DEF ListSince, S
<1> HIDE DEF q
<1>4. q \in Seq(Nat) /\ \A i \in DOMAIN q : q[i] \in S
  <2>1. Len(q) \in Nat /\ q \in [1..Len(q) -> S]
    BY <1>2
  <2>2. \A i \in 1..Len(q) : q[i] \in S /\ q[i] \in Nat
    BY <1>1, <2>1
  <2>3. q \in [1..Len(q) -> Nat] /\ DOMAIN q = 1..Len(q)
    BY <2>1, <2>2
  <2>4. q \in Seq(Nat)
    BY <2>1, <2>3
  <2>. QED
    BY <2>2, <2>3, <2>4
<1>. QED
  BY <1>1, <1>2, <1>3, <1>4

\* The log and the transactions that committed only grow, so what was seen is there still.
LEMMA WriteKeeps ==
    ASSUME FeedInv, \A s \in RowsAfter(0) : s \in RowsAfter(0)', UNCHANGED <<stream, saw>>
    PROVE  ReadInv'
<1>1. \A c \in Tailers : Ahead(c)'
  BY DEF FeedInv, ReadInv, Ahead, LastSeen
<1>2. DeliveredOnce'
  BY DEF FeedInv, ReadInv, DeliveredOnce
<1>. QED
  BY <1>1, <1>2 DEF FeedInv, ReadInv

--------------------------------------------------------------------------------
(* Writing *)

\* What a request of the type becomes.
LEMMA RequestOf ==
    ASSUME NEW r \in SUBSET Nat, NEW t \in Nat, NEW u \in Nat,
           NEW y, y = [open |-> TRUE, rows |-> r, tasks |-> t, audits |-> u]
    PROVE  y \in Transactions /\ y.rows = r
<1>1. y.rows = r
  OBVIOUS
<1>2. y \in Transactions
  BY Zenon DEF Transactions
<1>. QED
  BY <1>1, <1>2

LEMMA RequestAppends ==
    ASSUME NEW x \in Transactions, NEW n \in Nat, NEW a \in Nat,
           NEW y, y = [x EXCEPT !.open = TRUE, !.rows = @ \cup {n}, !.audits = @ + a]
    PROVE  y \in Transactions /\ y.rows = x.rows \cup {n}
<1>1. /\ x.rows \in SUBSET Nat /\ x.tasks \in Nat /\ x.audits \in Nat
      /\ x = [open |-> x.open, rows |-> x.rows, tasks |-> x.tasks, audits |-> x.audits]
  BY DEF Transactions
<1> DEFINE r == x.rows \cup {n}
           u == x.audits + a
<1>2. r \in SUBSET Nat /\ u \in Nat
  BY <1>1
<1> HIDE DEF r, u
<1>3. y = [open |-> TRUE, rows |-> r, tasks |-> x.tasks, audits |-> u]
  BY <1>1 DEF r, u
<1>4. y \in Transactions /\ y.rows = r
  BY <1>1, <1>2, <1>3, RequestOf
<1>. QED
  BY <1>4 DEF r

LEMMA RequestFlows ==
    ASSUME NEW x \in Transactions,
           NEW y, y = [x EXCEPT !.open = TRUE, !.tasks = @ + 1, !.audits = @ + 1]
    PROVE  y \in Transactions /\ y.rows = x.rows
<1>1. /\ x.rows \in SUBSET Nat /\ x.tasks \in Nat /\ x.audits \in Nat
      /\ x = [open |-> x.open, rows |-> x.rows, tasks |-> x.tasks, audits |-> x.audits]
  BY DEF Transactions
<1> DEFINE r == x.rows
           t == x.tasks + 1
           u == x.audits + 1
<1>2. r \in SUBSET Nat /\ t \in Nat /\ u \in Nat
  BY <1>1
<1> HIDE DEF r, t, u
<1>3. y = [open |-> TRUE, rows |-> r, tasks |-> t, audits |-> u]
  BY <1>1 DEF r, t, u
<1>4. y \in Transactions /\ y.rows = r
  BY <1>2, <1>3, RequestOf
<1>. QED
  BY <1>4 DEF r

LEMMA FeedAppend ==
    ASSUME FeedInv, NEW w \in Recorders, NEW row, NEW a \in Nat, Append1(w, row, a)
    PROVE  FeedInv'
<1>0. PICK n : n = Len(log) + 1
  OBVIOUS
<1>1. PICK S : log \in Seq(S)
  BY DEF FeedInv, LogInv
<1>2. log \in Seq(S \cup {row}) /\ log' = Append(log, row)
  BY <1>1 DEF Append1
<1>3. /\ log' \in Seq(S \cup {row}) /\ Len(log') = n /\ n \in Nat /\ Len(log) \in Nat
      /\ \A s \in 1..Len(log) : log'[s] = log[s]
  BY <1>0, <1>2
<1>4. commits' = commits /\ UNCHANGED <<stream, saw>>
  BY DEF Append1
<1>5. \A v \in Recorders :
         /\ recording'[v] \in Transactions
         /\ recording'[v].rows \subseteq recording[v].rows \cup {n}
  <2> SUFFICES ASSUME NEW v \in Recorders
               PROVE  /\ recording'[v] \in Transactions
                      /\ recording'[v].rows \subseteq recording[v].rows \cup {n}
    OBVIOUS
  <2>1. recording[v] \in Transactions
    BY DEF FeedInv, LogInv
  <2>2. CASE v = w
    <3>1. recording'[v] = [recording[v] EXCEPT !.open = TRUE, !.rows = @ \cup {n}, !.audits = @ + a]
      BY <1>0, <2>2 DEF Append1, FeedInv, LogInv
    <3>2. PICK x \in Transactions : x = recording[v]
      BY <2>1
    <3>3. PICK y : y = recording'[v]
      OBVIOUS
    <3>4. y = [x EXCEPT !.open = TRUE, !.rows = @ \cup {n}, !.audits = @ + a]
      BY <3>1, <3>2, <3>3
    <3>5. n \in Nat
      BY <1>3
    <3>6. y \in Transactions /\ y.rows = x.rows \cup {n}
      BY <3>4, <3>5, RequestAppends, Zenon
    <3>. QED
      BY <3>2, <3>3, <3>6
  <2>3. CASE v # w
    <3>1. recording'[v] = recording[v]
      BY <2>3 DEF Append1, FeedInv, LogInv
    <3>. QED
      BY <3>1, <2>1
  <2>. QED
    BY <2>2, <2>3
<1>6. recording' \in [Recorders -> Transactions]
  <2>1. DOMAIN recording' = Recorders /\ recording' = [v \in Recorders |-> recording'[v]]
    BY DEF Append1, FeedInv, LogInv
  <2>. QED
    BY <2>1, <1>5
<1>7. \A v \in Recorders : recording'[v].rows \subseteq 1..Len(log')
  <2>1. \A v \in Recorders : recording[v].rows \subseteq 1..Len(log)
    BY DEF FeedInv, LogInv
  <2>. QED
    BY <2>1, <1>0, <1>3, <1>5
<1>8. Committed \subseteq 1..Len(log) /\ \A i \in DOMAIN commits : commits[i] \subseteq 1..Len(log')
  BY <1>0, <1>3 DEF FeedInv, LogInv, Committed
<1>9. LogInv'
  BY <1>3, <1>4, <1>6, <1>7, <1>8 DEF FeedInv, LogInv
<1>10. \A s \in RowsAfter(0) : s \in RowsAfter(0)'
  BY <1>3, <1>4, <1>8 DEF RowsAfter, Committed
<1>. QED
  BY <1>4, <1>9, <1>10, WriteKeeps DEF FeedInv

LEMMA FeedFlow ==
    ASSUME FeedInv, NEW w \in Recorders, FlowToTask(w)
    PROVE  FeedInv'
<1>1. UNCHANGED <<log, commits, stream, saw>>
  BY DEF FlowToTask
<1>2. \A v \in Recorders : recording'[v] \in Transactions /\ recording'[v].rows = recording[v].rows
  <2> SUFFICES ASSUME NEW v \in Recorders
               PROVE  recording'[v] \in Transactions /\ recording'[v].rows = recording[v].rows
    OBVIOUS
  <2>1. recording[v] \in Transactions
    BY DEF FeedInv, LogInv
  <2>2. CASE v = w
    <3>1. recording'[v] = [recording[v] EXCEPT !.open = TRUE, !.tasks = @ + 1, !.audits = @ + 1]
      BY <2>2 DEF FlowToTask, FeedInv, LogInv
    <3>. QED
      BY <3>1, <2>1, RequestFlows
  <2>3. CASE v # w
    BY <2>1, <2>3 DEF FlowToTask, FeedInv, LogInv
  <2>. QED
    BY <2>2, <2>3
<1>3. recording' \in [Recorders -> Transactions]
  <2>1. DOMAIN recording' = Recorders /\ recording' = [v \in Recorders |-> recording'[v]]
    BY DEF FlowToTask, FeedInv, LogInv
  <2>. QED
    BY <2>1, <1>2
<1>4. LogInv'
  BY <1>1, <1>2, <1>3 DEF FeedInv, LogInv
<1>5. RowsAfter(0)' = RowsAfter(0)
  BY <1>1 DEF RowsAfter, Committed
<1>. QED
  BY <1>1, <1>4, <1>5, WriteKeeps DEF FeedInv

LEMMA FeedCommit ==
    ASSUME FeedInv, NEW w \in Recorders, CommitRows(w) \/ UndoRows(w)
    PROVE  FeedInv'
<1>1. UNCHANGED <<log, stream, saw>> /\ recording' = [recording EXCEPT ![w] = NoTransaction]
  BY DEF CommitRows, UndoRows
<1>2. NoTransaction \in Transactions /\ NoTransaction.rows = {}
  BY DEF NoTransaction, Transactions
<1>3. /\ recording' \in [Recorders -> Transactions]
      /\ \A v \in Recorders : recording'[v].rows \subseteq 1..Len(log)
  BY <1>1, <1>2 DEF FeedInv, LogInv
<1>4. /\ commits' \in Seq(SUBSET Nat)
      /\ \A i \in DOMAIN commits' : commits'[i] \subseteq 1..Len(log)
      /\ \A i \in DOMAIN commits : i \in DOMAIN commits' /\ commits'[i] = commits[i]
  <2>1. CASE commits' = commits
    BY <2>1 DEF FeedInv, LogInv
  <2>2. CASE commits' = Append(commits, recording[w].rows)
    <3>1. recording[w].rows \in SUBSET Nat /\ recording[w].rows \subseteq 1..Len(log)
      BY DEF FeedInv, LogInv, Transactions
    <3>2. commits \in Seq(SUBSET Nat) /\ \A i \in DOMAIN commits : commits[i] \subseteq 1..Len(log)
      BY DEF FeedInv, LogInv
    <3>. QED
      BY <3>1, <3>2, <2>2
  <2>. QED
    BY <2>1, <2>2 DEF CommitRows, UndoRows
<1>5. LogInv'
  BY <1>1, <1>3, <1>4 DEF FeedInv, LogInv
<1>6. \A s \in Committed : s \in Committed'
  BY <1>4 DEF Committed
<1>7. \A s \in RowsAfter(0) : s \in RowsAfter(0)'
  BY <1>1, <1>6 DEF RowsAfter
<1>. QED
  BY <1>1, <1>5, <1>7, WriteKeeps DEF FeedInv

--------------------------------------------------------------------------------
(* Reading *)

LEMMA SeenIsNumber ==
    ASSUME FeedInv, NEW c \in Tailers
    PROVE  /\ LastSeen(c) \in Nat
           /\ \A i \in DOMAIN saw[c] : saw[c][i] \in Nat /\ saw[c][i] <= LastSeen(c)
<1>1. saw[c] \in Seq(Nat) /\ \A i, j \in DOMAIN saw[c] : i < j => saw[c][i] < saw[c][j]
  BY DEF FeedInv, ReadInv, DeliveredOnce
<1>2. CASE saw[c] = <<>>
  BY <1>2 DEF LastSeen
<1>3. CASE saw[c] # <<>>
  <2>1. Len(saw[c]) \in DOMAIN saw[c] /\ LastSeen(c) = saw[c][Len(saw[c])]
    BY <1>1, <1>3 DEF LastSeen, Last
  <2>. QED
    BY <1>1, <2>1
<1>. QED
  BY <1>2, <1>3

\* What a client is sent beyond the last number it saw, it is sent in order.
LEMMA SeenGrows ==
    ASSUME FeedInv, NEW c \in Tailers, NEW q \in Seq(Nat), Rising(q), q # <<>>,
           \A i \in DOMAIN q : q[i] \in RowsAfter(0) /\ q[i] > LastSeen(c),
           saw' = [saw EXCEPT ![c] = @ \o q], UNCHANGED <<log, commits>>
    PROVE  /\ saw' \in [Tailers -> Seq(Nat)] /\ DeliveredOnce'
           /\ saw'[c] # <<>> /\ LastSeen(c)' = q[Len(q)]
           /\ \A d \in Tailers \ {c} : LastSeen(d)' = LastSeen(d)
<1>1. saw \in [Tailers -> Seq(Nat)] /\ saw[c] \in Seq(Nat)
  BY DEF FeedInv, ReadInv
<1>2. saw'[c] = saw[c] \o q /\ \A d \in Tailers \ {c} : saw'[d] = saw[d]
  BY <1>1
<1> DEFINE m == Len(saw[c])
           n == Len(q)
<1>3. /\ m \in Nat /\ n \in Nat /\ n > 0 /\ saw'[c] \in Seq(Nat) /\ Len(saw'[c]) = m + n
      /\ \A i \in 1..m : saw'[c][i] = saw[c][i]
      /\ \A i \in (m + 1)..(m + n) : saw'[c][i] = q[i - m]
  BY <1>1, <1>2
<1>4. saw' \in [Tailers -> Seq(Nat)]
  BY <1>1
<1>5. /\ LastSeen(c) \in Nat
      /\ \A i \in 1..m : saw[c][i] \in Nat /\ saw[c][i] <= LastSeen(c)
  BY <1>1, SeenIsNumber
<1>6. RowsAfter(0)' = RowsAfter(0)
  BY DEF RowsAfter, Committed
<1>7. /\ \A i, j \in 1..m : i < j => saw[c][i] < saw[c][j]
      /\ \A i \in 1..m : saw[c][i] \in RowsAfter(0)
  BY SMTT(40), <1>1 DEF FeedInv, ReadInv, DeliveredOnce
<1>8. ASSUME NEW i \in 1..(m + n) PROVE saw'[c][i] \in RowsAfter(0)
  <2>1. CASE i \in 1..m
    BY <2>1, <1>3, <1>7
  <2>2. CASE i \in (m + 1)..(m + n)
    <3>1. i - m \in DOMAIN q
      BY <2>2, <1>3
    <3>. QED
      BY <2>2, <3>1, <1>3
  <2>. QED
    BY <2>1, <2>2, <1>3
<1>9. ASSUME NEW i \in 1..(m + n), NEW j \in 1..(m + n), i < j PROVE saw'[c][i] < saw'[c][j]
  <2>1. CASE j \in 1..m
    <3>1. i \in 1..m
      BY <1>9, <2>1, <1>3
    <3>. QED
      BY <1>9, <2>1, <3>1, <1>3, <1>7
  <2>2. CASE j \in (m + 1)..(m + n) /\ i \in 1..m
    <3>1. j - m \in DOMAIN q /\ saw'[c][j] = q[j - m] /\ q[j - m] \in Nat
      BY <2>2, <1>3
    <3>2. saw'[c][i] \in Nat /\ saw'[c][i] <= LastSeen(c) /\ q[j - m] > LastSeen(c)
      BY <2>2, <3>1, <1>3, <1>5
    <3>3. ASSUME NEW a \in Nat, NEW b \in Nat, NEW l \in Nat, a <= l, b > l PROVE a < b
      BY <3>3
    <3>. QED
      BY <3>1, <3>2, <3>3, <1>5
  <2>3. CASE j \in (m + 1)..(m + n) /\ i \in (m + 1)..(m + n)
    <3>1. i - m \in DOMAIN q /\ j - m \in DOMAIN q /\ i - m < j - m
      BY <1>9, <2>3, <1>3
    <3>2. q[i - m] < q[j - m]
      BY <3>1 DEF Rising
    <3>. QED
      BY <2>3, <3>2, <1>3
  <2>. QED
    BY <2>1, <2>2, <2>3, <1>3
<1>10. DeliveredOnce'
  <2> SUFFICES ASSUME NEW d \in Tailers
               PROVE  /\ \A i, j \in DOMAIN saw'[d] : i < j => saw'[d][i] < saw'[d][j]
                      /\ \A i \in DOMAIN saw'[d] : saw'[d][i] \in RowsAfter(0)
    BY <1>6 DEF DeliveredOnce
  <2>1. CASE d = c
    <3>1. DOMAIN saw'[c] = 1..(m + n)
      BY <1>3
    <3>. QED
      BY <2>1, <3>1, <1>8, <1>9
  <2>2. CASE d # c
    BY <2>2, <1>2 DEF FeedInv, ReadInv, DeliveredOnce
  <2>. QED
    BY <2>1, <2>2
<1>11. saw'[c] # <<>> /\ LastSeen(c)' = q[n]
  <2>1. saw'[c] # <<>>
    BY <1>3
  <2>2. LastSeen(c)' = saw'[c][m + n]
    BY <2>1, <1>3 DEF LastSeen, Last
  <2>. QED
    BY <2>1, <2>2, <1>3
<1>12. \A d \in Tailers \ {c} : LastSeen(d)' = LastSeen(d)
  BY <1>2 DEF LastSeen
<1>. QED
  BY <1>4, <1>10, <1>11, <1>12

\* A step that reads leaves the log alone and every other client's stream.
LEMMA ReadKeeps ==
    ASSUME FeedInv, NEW c \in Tailers, UNCHANGED <<log, commits, recording>>,
           stream' \in [Tailers -> ServerEnds], saw' \in [Tailers -> Seq(Nat)], DeliveredOnce',
           \A d \in Tailers \ {c} : stream'[d] = stream[d] /\ LastSeen(d)' = LastSeen(d),
           Ahead(c)'
    PROVE  FeedInv'
<1>1. LogInv'
  BY DEF FeedInv, LogInv
<1>2. RowsAfter(0)' = RowsAfter(0)
  BY DEF RowsAfter, Committed
<1>3. ASSUME NEW d \in Tailers PROVE Ahead(d)'
  <2>1. CASE d = c
    BY <2>1
  <2>2. CASE d # c
    BY <2>2, <1>2 DEF Ahead, FeedInv, ReadInv
  <2>. QED
    BY <2>1, <2>2
<1>. QED
  BY <1>1, <1>3 DEF FeedInv, ReadInv

LEMMA NothingSeen ==
    ASSUME FeedInv, UNCHANGED <<log, commits, saw>>
    PROVE  saw' \in [Tailers -> Seq(Nat)] /\ DeliveredOnce' /\ \A d \in Tailers : LastSeen(d)' = LastSeen(d)
BY DEF FeedInv, ReadInv, DeliveredOnce, LastSeen, RowsAfter, Committed

LEMMA FeedOpen ==
    ASSUME FeedInv, NEW c \in Tailers, OpenStream(c)
    PROVE  FeedInv'
<1> DEFINE x == [open |-> TRUE, cursor |-> ResumeAt(c), rows |-> <<>>]
<1>1. stream' = [stream EXCEPT ![c] = x] /\ UNCHANGED <<log, commits, recording, saw>>
  BY DEF OpenStream
<1>2. x \in ServerEnds /\ x.cursor = LastSeen(c) /\ x.rows = <<>>
  BY SeenIsNumber DEF ServerEnds, ResumeAt
<1> HIDE DEF x
<1>3. stream' \in [Tailers -> ServerEnds] /\ stream'[c] = x /\ \A d \in Tailers \ {c} : stream'[d] = stream[d]
  BY <1>1, <1>2 DEF FeedInv, ReadInv
<1>4. saw' \in [Tailers -> Seq(Nat)] /\ DeliveredOnce' /\ \A d \in Tailers : LastSeen(d)' = LastSeen(d)
  BY <1>1, NothingSeen
<1>5. Ahead(c)'
  BY <1>2, <1>3, <1>4 DEF Ahead, Rising
<1>. QED
  BY <1>1, <1>3, <1>4, <1>5, ReadKeeps

LEMMA FeedPoll ==
    ASSUME FeedInv, FeedAssumption, NEW c \in Tailers, PollLog(c)
    PROVE  FeedInv'
<1> DEFINE q == ListSince(stream[c].cursor, StreamLimit)
<1>1. stream' = [stream EXCEPT ![c].rows = q] /\ UNCHANGED <<log, commits, recording, saw>>
  BY DEF PollLog
<1>2. stream[c] \in ServerEnds /\ stream[c].cursor \in Nat /\ stream[c].open /\ stream[c].cursor = LastSeen(c)
  BY DEF FeedInv, ReadInv, ServerEnds, Ahead, PollLog
<1>3. /\ q \in Seq(Nat) /\ Rising(q)
      /\ \A i \in DOMAIN q : q[i] \in RowsAfter(0) /\ q[i] > stream[c].cursor
  BY <1>2, PageRises DEF FeedInv, FeedAssumption
<1> HIDE DEF q
<1>4. stream'[c] = [stream[c] EXCEPT !.rows = q] /\ \A d \in Tailers \ {c} : stream'[d] = stream[d]
  BY <1>1 DEF FeedInv, ReadInv
<1>5. stream'[c] \in ServerEnds /\ stream'[c].open /\ stream'[c].cursor = stream[c].cursor /\ stream'[c].rows = q
  BY <1>2, <1>3, <1>4 DEF ServerEnds
<1>6. stream' \in [Tailers -> ServerEnds]
  BY <1>1, <1>4, <1>5 DEF FeedInv, ReadInv
<1>7. saw' \in [Tailers -> Seq(Nat)] /\ DeliveredOnce' /\ \A d \in Tailers : LastSeen(d)' = LastSeen(d)
  BY <1>1, NothingSeen
<1>8. RowsAfter(0)' = RowsAfter(0)
  BY <1>1 DEF RowsAfter, Committed
<1>9. Ahead(c)'
  BY <1>2, <1>3, <1>5, <1>7, <1>8 DEF Ahead
<1>. QED
  BY <1>1, <1>4, <1>6, <1>7, <1>9, ReadKeeps

LEMMA FeedSend ==
    ASSUME FeedInv, NEW c \in Tailers, SendFrame(c)
    PROVE  FeedInv'
<1> DEFINE fresh == stream[c].rows
           q == <<Head(fresh)>>
<1>1. /\ stream' = [stream EXCEPT ![c].cursor = Head(fresh), ![c].rows = Tail(@)]
      /\ saw' = [saw EXCEPT ![c] = Append(@, Head(fresh))]
      /\ UNCHANGED <<log, commits, recording>>
  BY DEF SendFrame
<1>2. /\ stream[c] \in ServerEnds /\ fresh \in Seq(Nat) /\ fresh # <<>> /\ stream[c].open
      /\ stream[c].cursor = LastSeen(c) /\ Rising(fresh)
      /\ \A i \in DOMAIN fresh : fresh[i] \in RowsAfter(0) /\ fresh[i] > stream[c].cursor
  BY DEF FeedInv, ReadInv, ServerEnds, Ahead, SendFrame
<1> HIDE DEF fresh
<1>3. 1 \in DOMAIN fresh /\ Head(fresh) = fresh[1] /\ Head(fresh) \in Nat
  BY <1>2
<1>4. /\ q \in Seq(Nat) /\ Rising(q) /\ q # <<>> /\ Len(q) = 1 /\ q[1] = Head(fresh)
      /\ \A i \in DOMAIN q : q[i] \in RowsAfter(0) /\ q[i] > LastSeen(c)
  BY <1>2, <1>3 DEF Rising
<1>5. saw' = [saw EXCEPT ![c] = @ \o q]
  <2>1. saw[c] \in Seq(Nat)
    BY DEF FeedInv, ReadInv
  <2>2. Append(saw[c], Head(fresh)) = saw[c] \o q
    BY <2>1, <1>3
  <2>. QED
    BY <2>2, <1>1
<1> HIDE DEF q
<1>6. /\ saw' \in [Tailers -> Seq(Nat)] /\ DeliveredOnce'
      /\ LastSeen(c)' = Head(fresh)
      /\ \A d \in Tailers \ {c} : LastSeen(d)' = LastSeen(d)
  <2>1. /\ saw' \in [Tailers -> Seq(Nat)] /\ DeliveredOnce'
        /\ LastSeen(c)' = q[Len(q)]
        /\ \A d \in Tailers \ {c} : LastSeen(d)' = LastSeen(d)
    BY <1>1, <1>4, <1>5, SeenGrows
  <2>. QED
    BY <2>1, <1>4
<1>7. /\ stream'[c] = [stream[c] EXCEPT !.cursor = Head(fresh), !.rows = Tail(fresh)]
      /\ \A d \in Tailers \ {c} : stream'[d] = stream[d]
  BY <1>1 DEF FeedInv, ReadInv, fresh
<1>8. /\ Tail(fresh) \in Seq(Nat) /\ Len(Tail(fresh)) = Len(fresh) - 1
      /\ \A i \in 1..(Len(fresh) - 1) : Tail(fresh)[i] = fresh[i + 1]
  BY <1>2
<1>9. /\ stream'[c] \in ServerEnds /\ stream'[c].cursor = Head(fresh) /\ stream'[c].rows = Tail(fresh)
  BY <1>2, <1>3, <1>7, <1>8 DEF ServerEnds
<1>10. stream' \in [Tailers -> ServerEnds]
  BY <1>1, <1>7, <1>9 DEF FeedInv, ReadInv
<1>11. Rising(Tail(fresh))
  BY SMTT(40), <1>2, <1>8 DEF Rising
<1>12. \A i \in DOMAIN Tail(fresh) : Tail(fresh)[i] \in RowsAfter(0) /\ Tail(fresh)[i] > Head(fresh)
  BY <1>2, <1>3, <1>8 DEF Rising
<1>13. RowsAfter(0)' = RowsAfter(0)
  BY <1>1 DEF RowsAfter, Committed
<1>14. Ahead(c)'
  BY <1>6, <1>9, <1>11, <1>12, <1>13 DEF Ahead
<1>. QED
  BY <1>1, <1>6, <1>7, <1>10, <1>14, ReadKeeps

LEMMA FeedBreak ==
    ASSUME FeedInv, NEW c \in Tailers, BreakStream(c)
    PROVE  FeedInv'
<1>1. stream' = [stream EXCEPT ![c] = NoStream] /\ UNCHANGED <<log, commits, recording, saw>>
  BY DEF BreakStream
<1>2. NoStream \in ServerEnds /\ ~NoStream.open
  BY DEF NoStream, ServerEnds
<1>3. /\ stream' \in [Tailers -> ServerEnds] /\ ~stream'[c].open
      /\ \A d \in Tailers \ {c} : stream'[d] = stream[d]
  BY <1>1, <1>2 DEF FeedInv, ReadInv
<1>4. saw' \in [Tailers -> Seq(Nat)] /\ DeliveredOnce' /\ \A d \in Tailers : LastSeen(d)' = LastSeen(d)
  BY <1>1, NothingSeen
<1>. QED
  BY <1>1, <1>3, <1>4, ReadKeeps DEF Ahead

LEMMA FeedPull ==
    ASSUME FeedInv, FeedAssumption, NEW c \in Tailers, NEW limit \in PullLimits, PullPage(c, limit)
    PROVE  FeedInv'
<1> DEFINE q == ListSince(LastSeen(c), limit)
<1>1. /\ saw' = [saw EXCEPT ![c] = @ \o q] /\ q # <<>> /\ ~stream[c].open
      /\ UNCHANGED <<log, commits, recording, stream>>
  BY DEF PullPage
<1>2. LastSeen(c) \in Nat
  BY SeenIsNumber
<1>3. /\ q \in Seq(Nat) /\ Rising(q)
      /\ \A i \in DOMAIN q : q[i] \in RowsAfter(0) /\ q[i] > LastSeen(c)
  BY <1>2, PageRises DEF FeedInv, FeedAssumption
<1> HIDE DEF q
<1>4. saw' \in [Tailers -> Seq(Nat)] /\ DeliveredOnce' /\ \A d \in Tailers \ {c} : LastSeen(d)' = LastSeen(d)
  BY <1>1, <1>3, SeenGrows
<1>5. stream' \in [Tailers -> ServerEnds] /\ Ahead(c)'
  BY <1>1 DEF FeedInv, ReadInv, Ahead
<1>. QED
  BY <1>1, <1>4, <1>5, ReadKeeps

\* What clients have seen stays in order at every step of the feed.
LEMMA FeedStepInv ==
    ASSUME FeedInv, FeedAssumption, FeedNext
    PROVE  FeedInv'
<1>1. ASSUME NEW w \in Recorders, NEW kind \in EventKinds, RecordEvent(w, kind) PROVE FeedInv'
  BY <1>1, FeedAppend DEF RecordEvent
<1>2. ASSUME NEW w \in Recorders, NEW kind \in NoticeKinds, RecordNotification(w, kind) PROVE FeedInv'
  BY <1>2, FeedAppend DEF RecordNotification
<1>3. ASSUME NEW w \in Recorders, NEW id \in FlowIds, RunWorkflow(w, id) PROVE FeedInv'
  <2>1. CASE FlowToTask(w)
    BY <2>1, FeedFlow
  <2>2. CASE FlowToNotice(w)
    BY <2>2, FeedAppend DEF FlowToNotice
  <2>. QED
    BY <1>3, <2>1, <2>2 DEF RunWorkflow, MailToFollowUp
<1>4. ASSUME NEW w \in Recorders, CommitRows(w) \/ UndoRows(w) PROVE FeedInv'
  BY <1>4, FeedCommit
<1>5. ASSUME NEW c \in Tailers, OpenStream(c) PROVE FeedInv'
  BY <1>5, FeedOpen
<1>6. ASSUME NEW c \in Tailers, PollLog(c) PROVE FeedInv'
  BY <1>6, FeedPoll
<1>7. ASSUME NEW c \in Tailers, SendFrame(c) PROVE FeedInv'
  BY <1>7, FeedSend
<1>8. ASSUME NEW c \in Tailers, BreakStream(c) PROVE FeedInv'
  BY <1>8, FeedBreak
<1>9. ASSUME NEW c \in Tailers, NEW limit \in PullLimits, PullPage(c, limit) PROVE FeedInv'
  BY <1>9, FeedPull
<1>. QED
  BY <1>1, <1>2, <1>3, <1>4, <1>5, <1>6, <1>7, <1>8, <1>9 DEF FeedNext

--------------------------------------------------------------------------------
(* What a client has been shown *)

\* The first numbers of a set leave out none that is below one of them.
LEMMA FirstLeavesNone ==
    ASSUME NEW S \in SUBSET Nat, IsFiniteSet(S), NEW limit \in Nat, NEW s \in S,
           NEW i \in DOMAIN FirstOf(S, limit), s <= FirstOf(S, limit)[i]
    PROVE  \E k \in DOMAIN FirstOf(S, limit) : FirstOf(S, limit)[k] = s
<1> DEFINE n == IF Cardinality(S) < limit THEN Cardinality(S) ELSE limit
           Nth(k) == CHOOSE t \in S : Cardinality(Below(S, t)) = k - 1
           q == [k \in 1..n |-> Nth(k)]
<1>1. n \in Nat /\ n <= Cardinality(S) /\ Cardinality(S) \in Nat
  BY FS_CardinalityType
<1>2. FirstOf(S, limit) = q
  BY DEF FirstOf, Below
<1>3. i \in 1..n /\ s <= Nth(i)
  BY <1>2
<1> HIDE DEF n
<1>4. Nth(i) \in S /\ Cardinality(Below(S, Nth(i))) = i - 1
  <2>1. i - 1 \in 0..(Cardinality(S) - 1)
    BY <1>1, <1>3
  <2>2. \E t \in S : Cardinality(Below(S, t)) = i - 1
    BY <2>1, NoGap
  <2>. QED
    BY <2>2
<1> HIDE DEF Nth
<1>4a. s \in Nat /\ Nth(i) \in Nat
  BY <1>4
<1>5. Cardinality(Below(S, s)) <= i - 1 /\ Cardinality(Below(S, s)) \in Nat
  <2>1. CASE s = Nth(i)
    BY <1>1, <1>3, <1>4, <2>1, BelowBounded
  <2>2. CASE s < Nth(i)
    <3>1. Cardinality(Below(S, s)) < Cardinality(Below(S, Nth(i))) /\ Cardinality(Below(S, s)) \in Nat
      BY <1>4, <2>2, BelowGrows
    <3>. QED
      BY <1>1, <1>3, <1>4, <3>1
  <2>. QED
    BY <1>3, <1>4a, <2>1, <2>2
<1>6. PICK k \in 1..n : Cardinality(Below(S, s)) = k - 1
  <2>1. Cardinality(Below(S, s)) + 1 \in 1..n
    BY <1>1, <1>3, <1>5
  <2>2. Cardinality(Below(S, s)) = (Cardinality(Below(S, s)) + 1) - 1
    BY <1>5
  <2>. QED
    BY <2>1, <2>2
<1>7. Nth(k) \in S /\ Cardinality(Below(S, Nth(k))) = k - 1
  BY <1>6 DEF Nth
<1>8. Nth(k) = s
  <2>0. s \in Nat /\ Nth(k) \in Nat
    BY <1>7
  <2>1. CASE Nth(k) < s
    <3>1. Cardinality(Below(S, Nth(k))) < Cardinality(Below(S, s))
      BY <1>7, <2>1, BelowGrows
    <3>. QED
      BY <1>6, <1>7, <2>0, <3>1
  <2>2. CASE s < Nth(k)
    <3>1. Cardinality(Below(S, s)) < Cardinality(Below(S, Nth(k)))
      BY <1>7, <2>2, BelowGrows
    <3>. QED
      BY <1>6, <1>7, <2>0, <3>1
  <2>. QED
    BY <2>0, <2>1, <2>2
<1>. QED
  BY <1>2, <1>8

\* A page leaves out no row of the log that is below one of its rows.
LEMMA PageLeavesNone ==
    ASSUME LogInv, NEW seq \in Nat, NEW limit \in Nat, NEW s \in RowsAfter(seq),
           NEW i \in DOMAIN ListSince(seq, limit), s <= ListSince(seq, limit)[i]
    PROVE  \E k \in DOMAIN ListSince(seq, limit) : ListSince(seq, limit)[k] = s
BY RowsFinite, FirstLeavesNone DEF ListSince

--------------------------------------------------------------------------------
(* What no client misses *)

Home(s) == log[s].workspace = HomeSpace
Got(c, s) == \E i \in DOMAIN saw[c] : saw[c][i] = s
Comes(c, s) == \E i \in DOMAIN stream[c].rows : stream[c].rows[i] = s

\* Of the rows up to the last it saw a client has each, and a stream has each up to the
\* last of those it is to send, but for those that committed late.
MissInv ==
    /\ \A w \in Recorders : recording[w].rows \cap Committed = {}
    /\ \A v, w \in Recorders : v # w => recording[v].rows \cap recording[w].rows = {}
    /\ \A c \in Tailers, s \in Committed : Home(s) /\ s <= LastSeen(c) => Got(c, s) \/ CommittedLate(s)
    /\ \A c \in Tailers, s \in Committed : \A i \in DOMAIN stream[c].rows :
          (stream[c].open /\ Home(s) /\ s > stream[c].cursor /\ s <= stream[c].rows[i]) => Comes(c, s) \/ CommittedLate(s)

LEMMA MissInitInv == FeedInit => MissInv
<1> SUFFICES ASSUME FeedInit PROVE MissInv
  OBVIOUS
<1>1. Committed = {}
  BY DEF FeedInit, Committed
<1>2. \A w \in Recorders : recording[w].rows = {}
  BY DEF FeedInit, NoTransaction
<1>. QED
  BY <1>1, <1>2 DEF MissInv

LEMMA MissStutters == MissInv /\ UNCHANGED <<log, commits, recording, stream, saw>> => MissInv'
BY DEF MissInv, Committed, Home, Got, Comes, CommittedLate, LastSeen

LEMMA MissHolds == MissInv => NoEventMissed
<1> SUFFICES ASSUME MissInv, NEW c \in Tailers, NEW s \in Committed, log[s].workspace = HomeSpace, s <= LastSeen(c)
             PROVE s \in {saw[c][i] : i \in DOMAIN saw[c]} \/ CommittedLate(s)
  BY DEF NoEventMissed
<1>1. Got(c, s) \/ CommittedLate(s)
  BY DEF MissInv, Home
<1>. QED
  BY <1>1 DEF Got

\* A row is written, with a number no other has.
LEMMA MissAppend ==
    ASSUME FeedInv, MissInv, NEW w \in Recorders, NEW row, NEW a \in Nat, Append1(w, row, a)
    PROVE  MissInv'
<1>0. PICK n : n = Len(log) + 1
  OBVIOUS
<1>1. PICK S : log \in Seq(S)
  BY DEF FeedInv, LogInv
<1>2. Len(log) \in Nat /\ n \notin 1..Len(log) /\ log' = Append(log, row) /\ \A s \in 1..Len(log) : log'[s] = log[s]
  BY <1>0, <1>1 DEF Append1
<1>3. UNCHANGED <<commits, stream, saw>>
  BY DEF Append1
<1>4. Committed \subseteq 1..Len(log) /\ \A v \in Recorders : recording[v].rows \subseteq 1..Len(log)
  BY DEF FeedInv, LogInv, Committed
<1>5. recording[w] \in Transactions
  BY DEF FeedInv, LogInv
<1>6. recording'[w].rows = recording[w].rows \cup {n} /\ \A v \in Recorders \ {w} : recording'[v] = recording[v]
  <2>1. PICK x \in Transactions : x = recording[w]
    BY <1>5
  <2>2. PICK y : y = recording'[w]
    OBVIOUS
  <2>3. y = [x EXCEPT !.open = TRUE, !.rows = @ \cup {n}, !.audits = @ + a]
    BY <1>0, <2>1, <2>2 DEF Append1, FeedInv, LogInv
  <2>4. n \in Nat
    BY <1>0, <1>2
  <2>5. y.rows = x.rows \cup {n}
    BY <2>3, <2>4, RequestAppends, Zenon
  <2>6. \A v \in Recorders \ {w} : recording'[v] = recording[v]
    BY DEF Append1, FeedInv, LogInv
  <2>. QED
    BY <2>1, <2>2, <2>5, <2>6
<1>7. Committed' = Committed /\ \A s \in Committed : Home(s)' <=> Home(s)
  BY <1>2, <1>3, <1>4 DEF Committed, Home
<1>8. \A v \in Recorders : recording'[v].rows \cap Committed' = {}
  BY <1>2, <1>4, <1>6, <1>7 DEF MissInv
<1>9. \A u, v \in Recorders : u # v => recording'[u].rows \cap recording'[v].rows = {}
  BY <1>2, <1>4, <1>6 DEF MissInv
<1>10. \A c, s : (Got(c, s)' <=> Got(c, s)) /\ (Comes(c, s)' <=> Comes(c, s)) /\ (CommittedLate(s)' <=> CommittedLate(s)) /\ LastSeen(c)' = LastSeen(c)
  BY <1>3 DEF Got, Comes, CommittedLate, LastSeen
<1>. QED
  BY <1>3, <1>7, <1>8, <1>9, <1>10 DEF MissInv

LEMMA MissFlow ==
    ASSUME FeedInv, MissInv, NEW w \in Recorders, FlowToTask(w)
    PROVE  MissInv'
<1>1. UNCHANGED <<log, commits, stream, saw>>
  BY DEF FlowToTask
<1>2. \A v \in Recorders : recording'[v].rows = recording[v].rows
  <2>1. recording[w] \in Transactions /\ recording'[w] = [recording[w] EXCEPT !.open = TRUE, !.tasks = @ + 1, !.audits = @ + 1]
    BY DEF FlowToTask, FeedInv, LogInv
  <2>2. recording'[w].rows = recording[w].rows
    BY <2>1, RequestFlows
  <2>. QED
    BY <2>2 DEF FlowToTask, FeedInv, LogInv
<1>3. Committed' = Committed
  BY <1>1 DEF Committed
<1>. QED
  BY <1>1, <1>2, <1>3 DEF MissInv, Home, Got, Comes, CommittedLate, LastSeen

\* A row that commits after a client saw a later one is late.
LEMMA MissCommit ==
    ASSUME FeedInv, MissInv, NEW w \in Recorders, CommitRows(w) \/ UndoRows(w)
    PROVE  MissInv'
<1>1. UNCHANGED <<log, stream, saw>> /\ recording' = [recording EXCEPT ![w] = NoTransaction]
  BY DEF CommitRows, UndoRows
<1>2. recording'[w].rows = {} /\ \A v \in Recorders \ {w} : recording'[v] = recording[v]
  BY <1>1 DEF FeedInv, LogInv, NoTransaction
<1>3. \A c, s : (Got(c, s)' <=> Got(c, s)) /\ (Comes(c, s)' <=> Comes(c, s)) /\ LastSeen(c)' = LastSeen(c) /\ (Home(s)' <=> Home(s))
  BY <1>1 DEF Got, Comes, LastSeen, Home
<1>4. CASE commits' = commits
  <2>1. Committed' = Committed /\ \A s : CommittedLate(s)' <=> CommittedLate(s)
    BY <1>4 DEF Committed, CommittedLate
  <2>2. /\ \A v \in Recorders : recording'[v].rows \cap Committed' = {}
        /\ \A u, v \in Recorders : u # v => recording'[u].rows \cap recording'[v].rows = {}
    BY <1>2, <2>1 DEF MissInv
  <2>. QED
    BY <1>1, <1>3, <2>1, <2>2 DEF MissInv
<1>5. CASE commits' = Append(commits, recording[w].rows)
  <2> PICK new : new = recording[w].rows
    OBVIOUS
  <2> PICK n : n = Len(commits) + 1
    OBVIOUS
  <2>1. commits \in Seq(SUBSET Nat) /\ new \in SUBSET Nat
    BY DEF FeedInv, LogInv, Transactions
  <2>2. n \in Nat /\ DOMAIN commits' = 1..n /\ commits'[n] = new /\ DOMAIN commits = 1..(n - 1)
        /\ \A i \in 1..(n - 1) : commits'[i] = commits[i]
    BY <1>5, <2>1
  <2>3. Committed' = Committed \cup new
    <3>1. \A s \in Committed' : s \in Committed \cup new
      <4> SUFFICES ASSUME NEW i \in DOMAIN commits', NEW s \in commits'[i] PROVE s \in Committed \cup new
        BY DEF Committed
      <4>. QED
        BY <2>2 DEF Committed
    <3>2. \A s \in Committed : s \in Committed'
      BY <2>2 DEF Committed
    <3>3. \A s \in new : s \in Committed'
      BY <2>2 DEF Committed
    <3>. QED
      BY <3>1, <3>2, <3>3
  <2>4. \A s : CommittedLate(s) => CommittedLate(s)'
    BY <2>2 DEF CommittedLate
  <2>5. new \cap Committed = {}
    BY DEF MissInv
  <2>6. ASSUME NEW s \in new, NEW t \in Committed, s <= t PROVE CommittedLate(s)'
    <3>1. PICK i \in DOMAIN commits : t \in commits[i]
      BY <2>6 DEF Committed
    <3>2. s \in Nat /\ t \in Nat /\ s # t
      BY <2>1, <2>5, <2>6, <3>1
    <3>3. s \in commits'[n] /\ t \in commits'[i] /\ t > s /\ i < n /\ i \in DOMAIN commits' /\ n \in DOMAIN commits'
      BY <2>2, <2>6, <3>1, <3>2
    <3>. QED
      BY <3>3 DEF CommittedLate
  <2>7. /\ \A v \in Recorders : recording'[v].rows \cap Committed' = {}
        /\ \A u, v \in Recorders : u # v => recording'[u].rows \cap recording'[v].rows = {}
    BY <1>2, <2>3 DEF MissInv
  <2>8. ASSUME NEW c \in Tailers, NEW s \in new, s <= LastSeen(c) PROVE CommittedLate(s)'
    <3>1. saw[c] \in Seq(Nat) /\ \A i \in DOMAIN saw[c] : saw[c][i] \in RowsAfter(0)
      BY DEF FeedInv, ReadInv, DeliveredOnce
    <3>2. s \in Nat /\ s # 0
      BY <2>1 DEF FeedInv, LogInv
    <3>3. saw[c] # <<>>
      BY <2>8, <3>2 DEF LastSeen
    <3>4. Len(saw[c]) \in DOMAIN saw[c] /\ LastSeen(c) = saw[c][Len(saw[c])]
      BY <3>1, <3>3 DEF LastSeen, Last
    <3>5. LastSeen(c) \in Committed
      BY <3>1, <3>4 DEF RowsAfter
    <3>. QED
      BY <2>6, <2>8, <3>5
  <2>9. ASSUME NEW c \in Tailers, NEW s \in new, stream[c].open, NEW i \in DOMAIN stream[c].rows, s <= stream[c].rows[i] PROVE CommittedLate(s)'
    <3>1. stream[c].rows[i] \in Committed
      BY <2>9 DEF FeedInv, ReadInv, Ahead, RowsAfter
    <3>. QED
      BY <2>6, <2>9, <3>1
  <2>10. ASSUME NEW c \in Tailers, NEW s \in Committed', Home(s)', s <= LastSeen(c)' PROVE Got(c, s)' \/ CommittedLate(s)'
    <3>1. CASE s \in Committed
      BY <1>3, <2>4, <2>10, <3>1 DEF MissInv
    <3>2. CASE s \in new
      BY <1>3, <2>8, <2>10, <3>2
    <3>. QED
      BY <2>3, <3>1, <3>2
  <2>11. ASSUME NEW c \in Tailers, NEW s \in Committed', NEW i \in DOMAIN stream'[c].rows,
                stream'[c].open, Home(s)', s > stream'[c].cursor, s <= stream'[c].rows[i] PROVE Comes(c, s)' \/ CommittedLate(s)'
    <3>0. stream' = stream
      BY <1>1
    <3>1. CASE s \in Committed
      BY <1>3, <2>4, <2>11, <3>0, <3>1 DEF MissInv
    <3>2. CASE s \in new
      BY <2>9, <2>11, <3>0, <3>2
    <3>. QED
      BY <2>3, <3>1, <3>2
  <2>. QED
    BY <2>7, <2>10, <2>11 DEF MissInv
<1>. QED
  BY <1>4, <1>5 DEF CommitRows, UndoRows

\* A step that reads changes one client's end.
LEMMA MissRead ==
    ASSUME FeedInv, MissInv, NEW c \in Tailers, UNCHANGED <<log, commits, recording>>,
           \A d \in Tailers \ {c} : stream'[d] = stream[d] /\ saw'[d] = saw[d],
           \A s \in Committed : Home(s) /\ s <= LastSeen(c)' => Got(c, s)' \/ CommittedLate(s),
           \A s \in Committed, i \in DOMAIN stream'[c].rows :
              (stream'[c].open /\ Home(s) /\ s > stream'[c].cursor /\ s <= stream'[c].rows[i]) => Comes(c, s)' \/ CommittedLate(s)
    PROVE  MissInv'
<1>1. Committed' = Committed /\ \A s : (CommittedLate(s)' <=> CommittedLate(s)) /\ (Home(s)' <=> Home(s))
  BY DEF Committed, CommittedLate, Home
<1>2. \A d \in Tailers \ {c} : \A s : (Got(d, s)' <=> Got(d, s)) /\ (Comes(d, s)' <=> Comes(d, s)) /\ LastSeen(d)' = LastSeen(d)
  BY DEF Got, Comes, LastSeen
<1>3. ASSUME NEW d \in Tailers, NEW s \in Committed', Home(s)', s <= LastSeen(d)' PROVE Got(d, s)' \/ CommittedLate(s)'
  <2>1. CASE d = c
    BY <1>1, <1>3, <2>1
  <2>2. CASE d # c
    BY <1>1, <1>2, <1>3, <2>2 DEF MissInv
  <2>. QED
    BY <2>1, <2>2
<1>4. ASSUME NEW d \in Tailers, NEW s \in Committed', NEW i \in DOMAIN stream'[d].rows,
             stream'[d].open, Home(s)', s > stream'[d].cursor, s <= stream'[d].rows[i] PROVE Comes(d, s)' \/ CommittedLate(s)'
  <2>1. CASE d = c
    BY <1>1, <1>4, <2>1
  <2>2. CASE d # c
    <3>1. stream'[d] = stream[d]
      BY <2>2
    <3>. QED
      BY <1>1, <1>2, <1>4, <2>2, <3>1 DEF MissInv
  <2>. QED
    BY <2>1, <2>2
<1>5. /\ \A v \in Recorders : recording'[v].rows \cap Committed' = {}
      /\ \A u, v \in Recorders : u # v => recording'[u].rows \cap recording'[v].rows = {}
  BY <1>1 DEF MissInv
<1>. QED
  BY <1>3, <1>4, <1>5 DEF MissInv

LEMMA MissOpens ==
    ASSUME FeedInv, MissInv, NEW c \in Tailers, OpenStream(c) \/ BreakStream(c)
    PROVE  MissInv'
<1>1. UNCHANGED <<log, commits, recording, saw>> /\ stream'[c].rows = <<>> /\ \A d \in Tailers \ {c} : stream'[d] = stream[d]
  BY DEF OpenStream, BreakStream, NoStream, FeedInv, ReadInv
<1>2. \A s \in Committed : Home(s) /\ s <= LastSeen(c)' => Got(c, s)' \/ CommittedLate(s)
  BY <1>1 DEF MissInv, LastSeen, Got
<1>. QED
  BY <1>1, <1>2, MissRead

LEMMA MissPoll ==
    ASSUME FeedInv, MissInv, FeedAssumption, NEW c \in Tailers, PollLog(c)
    PROVE  MissInv'
<1> DEFINE q == ListSince(stream[c].cursor, StreamLimit)
<1>1. stream' = [stream EXCEPT ![c].rows = q] /\ UNCHANGED <<log, commits, recording, saw>>
  BY DEF PollLog
<1>2. stream[c] \in ServerEnds /\ stream[c].cursor \in Nat
  BY DEF FeedInv, ReadInv, ServerEnds
<1>3. ASSUME NEW s \in Committed, Home(s), s > stream[c].cursor, NEW i \in DOMAIN q, s <= q[i] PROVE \E k \in DOMAIN q : q[k] = s
  <2>1. s \in RowsAfter(stream[c].cursor)
    BY <1>3 DEF RowsAfter, Home
  <2>. QED
    BY <1>2, <1>3, <2>1, PageLeavesNone DEF FeedInv, FeedAssumption
<1> HIDE DEF q
<1>4. stream'[c].rows = q /\ stream'[c].cursor = stream[c].cursor /\ \A d \in Tailers \ {c} : stream'[d] = stream[d]
  BY <1>1, <1>2 DEF FeedInv, ReadInv, ServerEnds
<1>5. \A s \in Committed : Home(s) /\ s <= LastSeen(c)' => Got(c, s)' \/ CommittedLate(s)
  BY <1>1 DEF MissInv, LastSeen, Got
<1>6. \A s \in Committed, i \in DOMAIN stream'[c].rows :
         (stream'[c].open /\ Home(s) /\ s > stream'[c].cursor /\ s <= stream'[c].rows[i]) => Comes(c, s)' \/ CommittedLate(s)
  BY <1>3, <1>4 DEF Comes
<1>. QED
  BY <1>1, <1>4, <1>5, <1>6, MissRead

LEMMA MissSend ==
    ASSUME FeedInv, MissInv, NEW c \in Tailers, SendFrame(c)
    PROVE  MissInv'
<1> PICK frames : frames = stream[c].rows
  OBVIOUS
<1>1. /\ stream' = [stream EXCEPT ![c].cursor = Head(frames), ![c].rows = Tail(@)]
      /\ saw' = [saw EXCEPT ![c] = Append(@, Head(frames))]
      /\ UNCHANGED <<log, commits, recording>>
  BY DEF SendFrame
<1>2. /\ stream[c] \in ServerEnds /\ frames \in Seq(Nat) /\ frames # <<>> /\ stream[c].open
      /\ stream[c].cursor = LastSeen(c) /\ Rising(frames) /\ saw[c] \in Seq(Nat) /\ saw \in [Tailers -> Seq(Nat)]
  BY DEF FeedInv, ReadInv, ServerEnds, Ahead, SendFrame
<1>3. 1 \in DOMAIN frames /\ Head(frames) = frames[1] /\ frames[1] \in Nat
  BY <1>2
<1>4. stream'[c].cursor = frames[1] /\ stream'[c].rows = Tail(frames) /\ \A d \in Tailers \ {c} : stream'[d] = stream[d] /\ saw'[d] = saw[d]
  BY <1>1, <1>2, <1>3 DEF FeedInv, ReadInv, ServerEnds
<1>5. saw'[c] = Append(saw[c], frames[1])
  BY <1>1, <1>2, <1>3
<1>6. LastSeen(c)' = frames[1] /\ Got(c, frames[1])' /\ \A s : Got(c, s) => Got(c, s)'
  <2> PICK old \in Seq(Nat) : old = saw[c]
    BY <1>2
  <2>1. /\ saw'[c] # <<>> /\ Len(saw'[c]) = Len(old) + 1 /\ Len(old) \in Nat /\ saw'[c][Len(old) + 1] = frames[1]
        /\ DOMAIN saw'[c] = 1..(Len(old) + 1) /\ DOMAIN old = 1..Len(old)
        /\ \A i \in 1..Len(old) : i \in 1..(Len(old) + 1) /\ saw'[c][i] = old[i]
    BY <1>3, <1>5
  <2>2. LastSeen(c)' = frames[1]
    BY <2>1 DEF LastSeen, Last
  <2>. QED
    BY <2>1, <2>2 DEF Got
<1>7. ASSUME NEW s \in Committed, s \notin Nat PROVE FALSE
  BY <1>7 DEF FeedInv, LogInv, Committed
<1>8. ASSUME NEW s \in Committed, Home(s), s <= frames[1] PROVE Got(c, s)' \/ CommittedLate(s)
  <2>0. s \in Nat /\ LastSeen(c) \in Nat
    BY <1>2, <1>7 DEF ServerEnds
  <2>1. CASE s <= LastSeen(c)
    BY <1>6, <1>8, <2>1 DEF MissInv
  <2>2. CASE s > stream[c].cursor
    <3>1. Comes(c, s) \/ CommittedLate(s)
      BY <1>2, <1>3, <1>8, <2>2 DEF MissInv
    <3>2. ASSUME NEW k \in DOMAIN frames, frames[k] = s PROVE s = frames[1]
      <4>1. CASE k # 1
        <5>1. 1 < k /\ frames[1] < frames[k]
          BY <1>2, <1>3, <3>2, <4>1 DEF Rising
        <5>. QED
          BY <1>3, <1>8, <2>0, <3>2, <5>1
      <4>. QED
        BY <3>2, <4>1
    <3>. QED
      BY <1>6, <3>1, <3>2 DEF Comes
  <2>. QED
    BY <1>2, <2>0, <2>1, <2>2
<1>9. ASSUME NEW s \in Committed, NEW i \in DOMAIN Tail(frames), Home(s), s > frames[1], s <= Tail(frames)[i]
      PROVE Comes(c, s)' \/ CommittedLate(s)
  <2>1. i + 1 \in DOMAIN frames /\ Tail(frames)[i] = frames[i + 1] /\ DOMAIN Tail(frames) = 1..(Len(frames) - 1)
        /\ \A k \in 1..(Len(frames) - 1) : Tail(frames)[k] = frames[k + 1]
    BY <1>2
  <2>2. s > stream[c].cursor
    <3>1. s \in Nat /\ stream[c].cursor \in Nat /\ frames[1] > stream[c].cursor
      BY <1>2, <1>3, <1>7 DEF FeedInv, ReadInv, Ahead, ServerEnds
    <3>. QED
      BY <1>3, <1>9, <3>1
  <2>3. Comes(c, s) \/ CommittedLate(s)
    BY <1>2, <1>9, <2>1, <2>2 DEF MissInv
  <2>4. ASSUME NEW k \in DOMAIN frames, frames[k] = s PROVE Comes(c, s)'
    <3>1. k # 1
      BY <1>3, <1>7, <1>9, <2>4
    <3>2. k - 1 \in 1..(Len(frames) - 1) /\ frames[(k - 1) + 1] = s
      <4>1. k \in 1..Len(frames) /\ Len(frames) \in Nat
        BY <1>2
      <4>2. k - 1 \in 1..(Len(frames) - 1) /\ (k - 1) + 1 = k
        BY <3>1, <4>1
      <4>. QED
        BY <2>4, <4>2
    <3>3. k - 1 \in DOMAIN Tail(frames) /\ Tail(frames)[k - 1] = s
      BY <2>1, <3>2
    <3>. QED
      BY <1>4, <3>3 DEF Comes
  <2>. QED
    BY <2>3, <2>4 DEF Comes
<1>. QED
  BY <1>1, <1>4, <1>6, <1>8, <1>9, MissRead

LEMMA MissPull ==
    ASSUME FeedInv, MissInv, FeedAssumption, NEW c \in Tailers, NEW limit \in PullLimits, PullPage(c, limit)
    PROVE  MissInv'
<1> DEFINE q == ListSince(LastSeen(c), limit)
<1>1. /\ saw' = [saw EXCEPT ![c] = @ \o q] /\ q # <<>> /\ ~stream[c].open
      /\ UNCHANGED <<log, commits, recording, stream>>
  BY DEF PullPage
<1>2. LastSeen(c) \in Nat /\ saw[c] \in Seq(Nat) /\ saw \in [Tailers -> Seq(Nat)]
  BY SeenIsNumber DEF FeedInv, ReadInv
<1>3. q \in Seq(Nat)
  BY <1>2, PageRises DEF FeedInv, FeedAssumption
<1>4. ASSUME NEW s \in Committed, Home(s), s > LastSeen(c), NEW i \in DOMAIN q, s <= q[i] PROVE \E k \in DOMAIN q : q[k] = s
  <2>1. s \in RowsAfter(LastSeen(c))
    BY <1>4 DEF RowsAfter, Home
  <2>. QED
    BY <1>2, <1>4, <2>1, PageLeavesNone DEF FeedInv, FeedAssumption
<1> HIDE DEF q
<1> PICK p \in Seq(Nat) : p = q
  BY <1>3
<1>5. saw'[c] = saw[c] \o p /\ \A d \in Tailers \ {c} : stream'[d] = stream[d] /\ saw'[d] = saw[d]
  BY <1>1, <1>2
<1>6. /\ Len(p) \in DOMAIN p /\ LastSeen(c)' = p[Len(p)]
      /\ \A s : Got(c, s) => Got(c, s)'
      /\ \A k \in DOMAIN p : Got(c, p[k])'
  <2> PICK m \in Nat : m = Len(saw[c])
    BY <1>2
  <2> PICK n \in Nat : n = Len(p)
    BY <1>3
  <2>1. n > 0 /\ saw'[c] \in Seq(Nat) /\ Len(saw'[c]) = m + n /\ DOMAIN saw'[c] = 1..(m + n)
        /\ (\A i \in 1..m : saw'[c][i] = saw[c][i]) /\ \A i \in (m + 1)..(m + n) : saw'[c][i] = p[i - m]
    BY <1>1, <1>2, <1>3, <1>5
  <2>2. saw'[c] # <<>> /\ LastSeen(c)' = p[n]
    <3>1. saw'[c] # <<>>
      BY <2>1
    <3>2. LastSeen(c)' = saw'[c][m + n]
      BY <2>1, <3>1 DEF LastSeen, Last
    <3>3. m + n \in (m + 1)..(m + n) /\ (m + n) - m = n
      BY <2>1
    <3>. QED
      BY <2>1, <3>1, <3>2, <3>3
  <2>3. ASSUME NEW k \in DOMAIN p PROVE Got(c, p[k])'
    <3>1. k \in 1..n
      BY <1>3
    <3>2. m + k \in (m + 1)..(m + n) /\ (m + k) - m = k /\ m + k \in 1..(m + n)
      BY <3>1
    <3>3. saw'[c][m + k] = p[k] /\ m + k \in DOMAIN saw'[c]
      BY <2>1, <3>2
    <3>. QED
      BY <3>3 DEF Got
  <2>4. ASSUME NEW s, Got(c, s) PROVE Got(c, s)'
    <3>1. PICK k \in 1..m : saw[c][k] = s
      BY <1>2, <2>4 DEF Got
    <3>2. k \in 1..(m + n)
      OBVIOUS
    <3>. QED
      BY <2>1, <3>1, <3>2 DEF Got
  <2>. QED
    BY <1>3, <2>1, <2>2, <2>3, <2>4
<1>7. ASSUME NEW s \in Committed, Home(s), s <= LastSeen(c)' PROVE Got(c, s)' \/ CommittedLate(s)
  <2>0. s \in Nat
    BY DEF FeedInv, LogInv, Committed
  <2>1. CASE s <= LastSeen(c)
    BY <1>6, <1>7, <2>1 DEF MissInv
  <2>2. CASE s > LastSeen(c)
    <3>1. PICK k \in DOMAIN p : p[k] = s
      BY <1>4, <1>6, <1>7, <2>2
    <3>. QED
      BY <1>6, <3>1
  <2>. QED
    BY <1>2, <2>0, <2>1, <2>2
<1>. QED
  BY <1>1, <1>5, <1>7, MissRead

LEMMA MissStepInv ==
    ASSUME FeedInv, MissInv, FeedAssumption, FeedNext
    PROVE  MissInv'
<1>1. ASSUME NEW w \in Recorders, NEW kind \in EventKinds, RecordEvent(w, kind) PROVE MissInv'
  BY <1>1, MissAppend DEF RecordEvent
<1>2. ASSUME NEW w \in Recorders, NEW kind \in NoticeKinds, RecordNotification(w, kind) PROVE MissInv'
  BY <1>2, MissAppend DEF RecordNotification
<1>3. ASSUME NEW w \in Recorders, NEW id \in FlowIds, RunWorkflow(w, id) PROVE MissInv'
  <2>1. CASE FlowToTask(w)
    BY <2>1, MissFlow
  <2>2. CASE FlowToNotice(w)
    BY <2>2, MissAppend DEF FlowToNotice
  <2>. QED
    BY <1>3, <2>1, <2>2 DEF RunWorkflow, MailToFollowUp
<1>4. ASSUME NEW w \in Recorders, CommitRows(w) \/ UndoRows(w) PROVE MissInv'
  BY <1>4, MissCommit
<1>5. ASSUME NEW c \in Tailers, OpenStream(c) \/ BreakStream(c) PROVE MissInv'
  BY <1>5, MissOpens
<1>6. ASSUME NEW c \in Tailers, PollLog(c) PROVE MissInv'
  BY <1>6, MissPoll
<1>7. ASSUME NEW c \in Tailers, SendFrame(c) PROVE MissInv'
  BY <1>7, MissSend
<1>8. ASSUME NEW c \in Tailers, NEW limit \in PullLimits, PullPage(c, limit) PROVE MissInv'
  BY <1>8, MissPull
<1>. QED
  BY <1>1, <1>2, <1>3, <1>4, <1>5, <1>6, <1>7, <1>8 DEF FeedNext

--------------------------------------------------------------------------------
(* The versions of a document *)

\* A set of numbers up to n that is not empty has a greatest one.
LEMMA Greatest ==
    ASSUME NEW n \in Nat, NEW T, T \subseteq 0..n, T # {}
    PROVE  \E m \in T : \A k \in T : m >= k
<1> DEFINE R == {p \in Nat \X Nat : p[1] < p[2]}
           U == {n - k : k \in T}
<1>1. R = OpToRel(<, Nat)
  BY DEF OpToRel
<1>2. IsWellFoundedOn(R, Nat)
  BY <1>1, NatLessThanWellFounded
<1>3. \A m, k \in Nat : <<k, m>> \notin R => m <= k
  OBVIOUS
<1>4. U \subseteq Nat /\ U # {}
  <2>1. \A k \in T : n - k \in Nat
    OBVIOUS
  <2>2. PICK k \in T : TRUE
    OBVIOUS
  <2>3. n - k \in U
    BY <2>2
  <2>. QED
    BY <2>1, <2>3
<1> HIDE DEF R
<1>5. PICK x \in U : \A y \in U : ~(<<y, x>> \in R)
  BY <1>2, <1>4, WFMin
<1>6. PICK m \in T : x = n - m
  BY <1>5
<1>7. \A k \in T : n - m <= n - k
  BY <1>3, <1>4, <1>5, <1>6
<1>. QED
  BY <1>7

\* A request to write a version that no other has crossed is alone with its document, and the
\* number it was given is greater than those there are.
Numbering(w) ==
    generating[w].source # 0 =>
       /\ generating[w].source \in DOMAIN documents
       /\ generating[w].version \in 1..(Len(documents) + 1)
       /\ ~generating[w].crossed =>
             /\ \A d \in Lineage(documents[generating[w].source].root) :
                   documents[d].version < generating[w].version
             /\ \A v \in Generators \ {w} : generating[v].source # 0 =>
                   documents[generating[v].source].root # documents[generating[w].source].root

\* The inductive invariant of the versions.
VersionInv ==
    /\ \E S : documents \in Seq(S)
    /\ \A d \in DOMAIN documents : documents[d].root \in 1..d /\ documents[d].version \in 1..d
    /\ generating \in [Generators -> [source : Nat, version : Nat, crossed : BOOLEAN]]
    /\ \A w \in Generators :
          /\ generating[w].source = 0 => generating[w] = NotGenerating
          /\ Numbering(w)
    /\ VersionsDistinct

LEMMA VersionInitInv == KnowledgeInit => VersionInv
<1> SUFFICES ASSUME KnowledgeInit PROVE VersionInv
  OBVIOUS
<1>1. documents = <<>> /\ DOMAIN documents = {} /\ documents \in Seq({})
  BY DEF KnowledgeInit
<1>2. /\ generating \in [Generators -> [source : Nat, version : Nat, crossed : BOOLEAN]]
      /\ \A w \in Generators : generating[w] = NotGenerating /\ generating[w].source = 0
  BY DEF KnowledgeInit, NotGenerating
<1>. QED
  BY <1>1, <1>2 DEF VersionInv, Numbering, VersionsDistinct

LEMMA VersionStutters == VersionInv /\ UNCHANGED <<documents, generating, numberedAtOnce>> => VersionInv'
BY DEF VersionInv, Numbering, VersionsDistinct, Lineage

LEMMA DocumentDomain ==
    ASSUME VersionInv
    PROVE  DOMAIN documents = 1..Len(documents) /\ Len(documents) \in Nat
BY DEF VersionInv

\* A document that is appended is the last, and changes none before it.
LEMMA DocumentAdded ==
    ASSUME VersionInv, NEW x, documents' = Append(documents, x)
    PROVE  /\ \E S : documents' \in Seq(S)
           /\ DOMAIN documents' = 1..(Len(documents) + 1)
           /\ Len(documents') = Len(documents) + 1
           /\ documents'[Len(documents) + 1] = x
           /\ \A d \in DOMAIN documents : documents'[d] = documents[d]
<1>1. PICK S : documents \in Seq(S)
  BY DEF VersionInv
<1>2. documents \in Seq(S \cup {x})
  BY <1>1
<1>3. documents' \in Seq(S \cup {x})
  BY <1>2
<1>. QED
  BY <1>2, <1>3

LEMMA VersionIngest ==
    ASSUME VersionInv, NEW upload \in Uploads, IngestDocument(upload)
    PROVE  VersionInv'
<1>1. PICK x : documents' = Append(documents, x) /\ x.root = Len(documents) + 1 /\ x.version = 1
  BY DEF IngestDocument
<1>2. UNCHANGED <<generating, numberedAtOnce>>
  BY DEF IngestDocument
<1>3. /\ \E S : documents' \in Seq(S)
      /\ DOMAIN documents' = 1..(Len(documents) + 1)
      /\ Len(documents') = Len(documents) + 1
      /\ documents'[Len(documents) + 1] = x
      /\ \A d \in DOMAIN documents : documents'[d] = documents[d]
  BY <1>1, DocumentAdded
<1>4. DOMAIN documents = 1..Len(documents) /\ Len(documents) \in Nat
  BY DocumentDomain
<1>5. \A d \in DOMAIN documents' : documents'[d].root \in 1..d /\ documents'[d].version \in 1..d
  BY <1>1, <1>3, <1>4 DEF VersionInv
<1>6. ASSUME NEW w \in Generators PROVE Numbering(w)'
  <2> SUFFICES ASSUME generating[w].source # 0 PROVE Numbering(w)'
    BY <1>2 DEF Numbering
  <2>1. Numbering(w) /\ generating[w].source \in DOMAIN documents
    BY DEF VersionInv, Numbering
  <2>0. PICK r : r = documents[generating[w].source].root
    OBVIOUS
  <2>2. r \in 1..Len(documents) /\ documents'[generating[w].source].root = r
    BY <2>0, <2>1, <1>3, <1>4 DEF VersionInv
  <2>3. \A d : d \in Lineage(r)' <=> d \in Lineage(r)
    BY <2>2, <1>1, <1>3, <1>4 DEF Lineage
  <2>4. \A d \in Lineage(r) : documents'[d].version = documents[d].version
    BY <1>3 DEF Lineage
  <2>5. \A v \in Generators : generating[v].source # 0 =>
           documents'[generating[v].source].root = documents[generating[v].source].root
    BY <1>3 DEF VersionInv, Numbering
  <2>6. /\ generating[w].source \in DOMAIN documents'
        /\ generating[w].version \in 1..(Len(documents') + 1)
    BY <2>1, <1>3, <1>4 DEF Numbering
  <2>7. ASSUME ~generating[w].crossed
        PROVE  /\ \A d \in Lineage(r)' : documents'[d].version < generating[w].version
               /\ \A v \in Generators \ {w} : generating[v].source # 0 =>
                     documents'[generating[v].source].root # r
    <3>1. /\ \A d \in Lineage(r) : documents[d].version < generating[w].version
          /\ \A v \in Generators \ {w} : generating[v].source # 0 =>
                documents[generating[v].source].root # r
      BY <2>0, <2>1, <2>7 DEF Numbering
    <3>. QED
      BY <3>1, <2>3, <2>4, <2>5
  <2>8. Lineage(documents[generating[w].source].root)' = Lineage(r)'
    BY <1>2, <2>2 DEF Lineage
  <2>. QED
    BY <1>2, <2>2, <2>6, <2>7, <2>8 DEF Numbering
<1>7. VersionsDistinct'
  <2> SUFFICES ASSUME NEW d \in DOMAIN documents', NEW e \in DOMAIN documents', d < e,
                      documents'[d].root = documents'[e].root,
                      documents'[d].version = documents'[e].version
               PROVE  e \in numberedAtOnce
    BY <1>2 DEF VersionsDistinct
  <2>1. d \in DOMAIN documents /\ documents[d].root \in 1..Len(documents)
    BY <1>3, <1>4 DEF VersionInv
  <2>2. e \in DOMAIN documents
    BY <2>1, <1>1, <1>3, <1>4
  <2>. QED
    BY <2>1, <2>2, <1>3 DEF VersionInv, VersionsDistinct
<1>. QED
  BY <1>2, <1>3, <1>5, <1>6, <1>7 DEF VersionInv

--------------------------------------------------------------------------------
(* Generated versions *)

\* The next number is greater than those of the versions there are, and not beyond the number
\* of documents by more than one.
LEMMA NumberNext ==
    ASSUME VersionInv, NEW d \in DOMAIN documents, NEW r, r = documents[d].root
    PROVE  /\ NextVersion(r) \in 1..(Len(documents) + 1)
           /\ \A k \in Lineage(r) : documents[k].version < NextVersion(r)
<1> DEFINE T == {documents[k].version : k \in Lineage(r)}
           Tops(v) == v \in T /\ \A k \in Lineage(r) : v >= documents[k].version
<1>1. DOMAIN documents = 1..Len(documents) /\ Len(documents) \in Nat
  BY DocumentDomain
<1>2. \A k \in Lineage(r) : k \in 1..Len(documents) /\ documents[k].version \in 1..Len(documents)
  BY <1>1 DEF VersionInv, Lineage
<1>3. d \in Lineage(r)
  BY DEF Lineage
<1>4. T \subseteq 0..Len(documents) /\ T # {}
  BY <1>1, <1>2, <1>3
<1> HIDE DEF T
<1>5. PICK m \in T : \A k \in T : m >= k
  BY <1>1, <1>4, Greatest
<1>6. Tops(m)
  BY <1>5 DEF T
<1> DEFINE v == CHOOSE v \in T : \A k \in Lineage(r) : v >= documents[k].version
<1>7. Tops(v)
  BY <1>6
<1>8. NextVersion(r) = 1 + v
  BY DEF NextVersion, T
<1>9. v \in 1..Len(documents)
  BY <1>2, <1>7 DEF T
<1> HIDE DEF v
<1>10. \A k \in Lineage(r) : v >= documents[k].version
  BY <1>7
<1>. QED
  BY <1>1, <1>2, <1>8, <1>9, <1>10

\* A request that is crossed keeps its document and its number.
LEMMA CrossedKeeps ==
    ASSUME NEW g \in [source : Nat, version : Nat, crossed : BOOLEAN],
           NEW h, h = [g EXCEPT !.crossed = TRUE]
    PROVE  /\ h \in [source : Nat, version : Nat, crossed : BOOLEAN]
           /\ h.source = g.source /\ h.version = g.version /\ h.crossed
OBVIOUS

LEMMA VersionBegin ==
    ASSUME VersionInv, NEW w \in Generators, NEW d \in DOMAIN documents, BeginGenerate(w, d)
    PROVE  VersionInv'
<1> DEFINE r == documents[d].root
           others == {v \in Generators : /\ generating[v].source # 0
                                         /\ documents[generating[v].source].root = r}
<1>1. /\ generating[w] = NotGenerating
      /\ generating' = [v \in Generators |->
            IF v = w THEN [source |-> d, version |-> NextVersion(r), crossed |-> others # {}]
            ELSE IF v \in others THEN [generating[v] EXCEPT !.crossed = TRUE]
            ELSE generating[v]]
      /\ documents' = documents /\ numberedAtOnce' = numberedAtOnce
  BY DEF BeginGenerate
<1>2. DOMAIN documents = 1..Len(documents) /\ Len(documents) \in Nat
  BY DocumentDomain
<1>3. /\ NextVersion(r) \in 1..(Len(documents) + 1)
      /\ \A k \in Lineage(r) : documents[k].version < NextVersion(r)
  BY NumberNext
<1>4. \A v \in others : v \in Generators /\ generating[v].source # 0 /\ documents[generating[v].source].root = r
  OBVIOUS
<1>5. \A v \in Generators \ others : generating[v].source # 0 => documents[generating[v].source].root # r
  OBVIOUS
<1>6. generating[w].source = 0 /\ w \notin others
  BY <1>1, <1>4 DEF NotGenerating
<1> HIDE DEF others
<1>7. \A v \in Generators : generating[v] \in [source : Nat, version : Nat, crossed : BOOLEAN]
  BY DEF VersionInv
<1>8. generating'[w] = [source |-> d, version |-> NextVersion(r), crossed |-> others # {}]
  BY <1>1
<1>9. \A v \in Generators \ {w} :
         /\ generating'[v] \in [source : Nat, version : Nat, crossed : BOOLEAN]
         /\ generating'[v].source = generating[v].source
         /\ generating'[v].version = generating[v].version
         /\ ~generating'[v].crossed => ~generating[v].crossed /\ v \notin others
  <2> SUFFICES ASSUME NEW v \in Generators \ {w}
               PROVE  /\ generating'[v] \in [source : Nat, version : Nat, crossed : BOOLEAN]
                      /\ generating'[v].source = generating[v].source
                      /\ generating'[v].version = generating[v].version
                      /\ ~generating'[v].crossed => ~generating[v].crossed /\ v \notin others
    OBVIOUS
  <2>1. CASE v \in others
    <3>1. generating'[v] = [generating[v] EXCEPT !.crossed = TRUE]
      BY <2>1, <1>1
    <3>. QED
      BY <3>1, <1>7, CrossedKeeps
  <2>2. CASE v \notin others
    BY <2>2, <1>1, <1>7
  <2>. QED
    BY <2>1, <2>2
<1> HIDE DEF r
<1>10. /\ generating'[w] \in [source : Nat, version : Nat, crossed : BOOLEAN]
       /\ generating'[w].source = d /\ generating'[w].version = NextVersion(r)
       /\ ~generating'[w].crossed => others = {}
  <2> DEFINE b == others # {}
  <2>1. b \in BOOLEAN /\ (~b => others = {})
    OBVIOUS
  <2>2. generating'[w] = [source |-> d, version |-> NextVersion(r), crossed |-> b]
    BY <1>8
  <2>3. d \in Nat /\ NextVersion(r) \in Nat
    BY <1>2, <1>3
  <2> HIDE DEF b
  <2>. QED
    BY <2>1, <2>2, <2>3
<1>11. generating' \in [Generators -> [source : Nat, version : Nat, crossed : BOOLEAN]]
  <2>1. \A v \in Generators : generating'[v] \in [source : Nat, version : Nat, crossed : BOOLEAN]
    BY <1>9, <1>10
  <2>. QED
    BY <2>1, <1>1
<1>12. documents[d].root = r
  BY DEF r
<1>13. ASSUME NEW v \in Generators PROVE Numbering(v)'
  <2>1. CASE v = w
    <3>1. ~generating'[w].crossed =>
             \A u \in Generators \ {w} : generating'[u].source # 0 =>
                documents[generating'[u].source].root # r
      BY <1>5, <1>9, <1>10
    <3>2. Lineage(documents[generating[w].source].root)' = Lineage(r)
      BY <1>1, <1>10, <1>12 DEF Lineage
    <3>. QED
      BY <2>1, <3>1, <3>2, <1>1, <1>2, <1>3, <1>10, <1>12 DEF Numbering
  <2>2. CASE v # w
    <3> SUFFICES ASSUME generating'[v].source # 0 PROVE Numbering(v)'
      BY DEF Numbering
    <3>1. generating'[v].source = generating[v].source /\ generating'[v].version = generating[v].version
      BY <2>2, <1>9
    <3>2. Numbering(v)
      BY DEF VersionInv
    <3>3. ASSUME ~generating'[v].crossed
          PROVE  /\ \A k \in Lineage(documents[generating[v].source].root) :
                       documents[k].version < generating[v].version
                 /\ \A u \in Generators \ {v} : generating'[u].source # 0 =>
                       documents[generating'[u].source].root # documents[generating[v].source].root
      <4>1. ~generating[v].crossed /\ v \notin others
        BY <3>3, <2>2, <1>9
      <4>2. /\ \A k \in Lineage(documents[generating[v].source].root) :
                   documents[k].version < generating[v].version
            /\ \A u \in Generators \ {v} : generating[u].source # 0 =>
                   documents[generating[u].source].root # documents[generating[v].source].root
        BY <3>1, <3>2, <4>1 DEF Numbering
      <4>3. documents[generating[v].source].root # r
        BY <4>1, <3>1, <1>5
      <4>. QED
        BY <4>2, <4>3, <1>9, <1>10, <1>12
    <3>4. Lineage(documents[generating[v].source].root)' = Lineage(documents[generating[v].source].root)
      BY <3>1, <1>1 DEF Lineage
    <3>5. /\ generating[v].source \in DOMAIN documents
          /\ generating[v].version \in 1..(Len(documents) + 1)
      BY <3>1, <3>2 DEF Numbering
    <3>. QED
      BY <3>1, <3>3, <3>4, <3>5, <1>1 DEF Numbering
  <2>. QED
    BY <2>1, <2>2
<1>14. \A v \in Generators : generating'[v].source = 0 => generating'[v] = NotGenerating
  <2>1. d # 0
    BY <1>2
  <2>2. \A v \in Generators \ {w} : generating'[v].source = 0 => v \notin others /\ generating'[v] = generating[v]
    BY <1>1, <1>4, <1>9
  <2>. QED
    BY <2>1, <2>2, <1>10 DEF VersionInv
<1>. QED
  BY <1>1, <1>11, <1>13, <1>14 DEF VersionInv, VersionsDistinct

LEMMA VersionCommit ==
    ASSUME VersionInv, NEW w \in Generators, NEW text, CommitGenerate(w, text)
    PROVE  VersionInv'
<1> DEFINE s == generating[w].source
           r == documents[s].root
           n == Len(documents) + 1
<1>1. PICK x : documents' = Append(documents, x) /\ x.root = r /\ x.version = generating[w].version
  BY DEF CommitGenerate
<1>2. /\ generating' = [generating EXCEPT ![w] = NotGenerating]
      /\ numberedAtOnce' = IF generating[w].crossed THEN numberedAtOnce \cup {n} ELSE numberedAtOnce
      /\ generating[w] # NotGenerating
  BY DEF CommitGenerate
<1>3. /\ \E S : documents' \in Seq(S)
      /\ DOMAIN documents' = 1..n
      /\ Len(documents') = n
      /\ documents'[n] = x
      /\ \A d \in DOMAIN documents : documents'[d] = documents[d]
  BY <1>1, DocumentAdded
<1>4. DOMAIN documents = 1..Len(documents) /\ Len(documents) \in Nat
  BY DocumentDomain
<1>5. generating' \in [Generators -> [source : Nat, version : Nat, crossed : BOOLEAN]]
  <2>1. NotGenerating \in [source : Nat, version : Nat, crossed : BOOLEAN]
    BY DEF NotGenerating
  <2>. QED
    BY <2>1, <1>2 DEF VersionInv
<1>6. /\ generating'[w].source = 0
      /\ \A v \in Generators \ {w} : generating'[v] = generating[v]
  BY <1>2 DEF VersionInv, NotGenerating
<1>7. s # 0
  BY <1>2 DEF VersionInv
<1>8. /\ s \in DOMAIN documents /\ generating[w].version \in 1..n
      /\ ~generating[w].crossed =>
            /\ \A d \in Lineage(r) : documents[d].version < generating[w].version
            /\ \A v \in Generators \ {w} : generating[v].source # 0 =>
                  documents[generating[v].source].root # r
  BY <1>7 DEF VersionInv, Numbering
<1>9. r \in 1..Len(documents)
  BY <1>4, <1>8 DEF VersionInv
<1> HIDE DEF s, r
<1>10. \A d \in DOMAIN documents' : documents'[d].root \in 1..d /\ documents'[d].version \in 1..d
  BY <1>1, <1>3, <1>4, <1>8, <1>9 DEF VersionInv
<1>11. ASSUME NEW v \in Generators PROVE Numbering(v)'
  <2> SUFFICES ASSUME generating'[v].source # 0 PROVE Numbering(v)'
    BY DEF Numbering
  <2>0. PICK q : q = documents[generating[v].source].root
    OBVIOUS
  <2>1. v # w /\ generating'[v] = generating[v]
    BY <1>6
  <2>2. Numbering(v) /\ generating[v].source \in DOMAIN documents
    BY <2>1 DEF VersionInv, Numbering
  <2>3. documents'[generating[v].source].root = q
    BY <2>0, <2>2, <1>3
  <2>4. /\ generating[v].source \in DOMAIN documents'
        /\ generating[v].version \in 1..(Len(documents') + 1)
    BY <2>1, <2>2, <1>3, <1>4 DEF Numbering
  <2>5. ASSUME ~generating[v].crossed
        PROVE  /\ \A d \in Lineage(q)' : documents'[d].version < generating[v].version
               /\ \A u \in Generators \ {v} : generating'[u].source # 0 =>
                     documents'[generating'[u].source].root # q
    <3>1. /\ \A d \in Lineage(q) : documents[d].version < generating[v].version
          /\ \A u \in Generators \ {v} : generating[u].source # 0 =>
                documents[generating[u].source].root # q
      BY <2>0, <2>1, <2>2, <2>5 DEF Numbering
    <3>2. q # r
      BY <3>1, <2>1, <1>7 DEF r, s
    <3>3. \A d \in Lineage(q)' : d \in Lineage(q) /\ documents'[d] = documents[d]
      <4> SUFFICES ASSUME NEW d \in DOMAIN documents', documents'[d].root = q
                   PROVE  d \in DOMAIN documents
        BY <1>3, <1>4 DEF Lineage
      <4>. QED
        BY <3>2, <1>1, <1>3, <1>4
    <3>4. \A u \in Generators \ {v} : generating'[u].source # 0 =>
             /\ generating'[u] = generating[u]
             /\ generating[u].source \in DOMAIN documents
      BY <1>6 DEF VersionInv, Numbering
    <3>. QED
      BY <3>1, <3>3, <3>4, <1>3
  <2>6. Lineage(documents[generating[v].source].root)' = Lineage(q)'
    BY <2>1, <2>3 DEF Lineage
  <2>. QED
    BY <2>1, <2>3, <2>4, <2>5, <2>6 DEF Numbering
<1>12. VersionsDistinct'
  <2> SUFFICES ASSUME NEW d \in DOMAIN documents', NEW e \in DOMAIN documents', d < e,
                      documents'[d].root = documents'[e].root,
                      documents'[d].version = documents'[e].version
               PROVE  e \in numberedAtOnce'
    BY DEF VersionsDistinct
  <2>1. d \in DOMAIN documents
    BY <1>3, <1>4
  <2>2. CASE e \in DOMAIN documents
    BY <2>1, <2>2, <1>2, <1>3 DEF VersionInv, VersionsDistinct
  <2>3. CASE e = n
    <3>1. documents[d].root = r /\ documents[d].version = generating[w].version
      BY <2>1, <2>3, <1>1, <1>3
    <3>2. d \in Lineage(r) /\ documents[d].version \in Nat
      BY <2>1, <3>1, <1>4 DEF Lineage, VersionInv
    <3>3. generating[w].crossed
      BY <3>1, <3>2, <1>8
    <3>. QED
      BY <3>3, <2>3, <1>2
  <2>. QED
    BY <2>2, <2>3, <1>3, <1>4
<1>13. \A v \in Generators : generating'[v].source = 0 => generating'[v] = NotGenerating
  BY <1>2, <1>6 DEF VersionInv
<1>. QED
  BY <1>3, <1>5, <1>10, <1>11, <1>12, <1>13 DEF VersionInv

\* The numbering outlives every step of the knowledge base.
LEMMA VersionStepInv ==
    ASSUME VersionInv, KnowledgeNext
    PROVE  VersionInv'
<1>1. ASSUME NEW f \in Folders, GrantFolder(f) PROVE VersionInv'
  BY <1>1, VersionStutters DEF GrantFolder
<1>2. ASSUME NEW upload \in Uploads, IngestDocument(upload) PROVE VersionInv'
  BY <1>2, VersionIngest
<1>3. ASSUME NEW w \in Generators, NEW d \in DOMAIN documents, BeginGenerate(w, d) PROVE VersionInv'
  BY <1>3, VersionBegin
<1>4. ASSUME NEW w \in Generators, NEW text \in Outputs, CommitGenerate(w, text) PROVE VersionInv'
  BY <1>4, VersionCommit
<1>5. ASSUME AddLocal \/ Reindex \/ DeleteSource PROVE VersionInv'
  BY <1>5, VersionStutters DEF AddLocal, Reindex, DeleteSource
<1>6. ASSUME NEW j \in DOMAIN reindexing, NoHandler(j) PROVE VersionInv'
  BY <1>6, VersionStutters DEF NoHandler
<1>. QED
  BY <1>1, <1>2, <1>3, <1>4, <1>5, <1>6 DEF KnowledgeNext

--------------------------------------------------------------------------------
(* The row of a mail (MailInbox) *)

\* A row of a mail, and one that a sync has added.
MailRowOf(i) == DOMAIN i = {"id", "uid", "status"} /\ i.uid \in Uids
AddedOf(q, u) == RowsOf(u, mail[q].added)
Apart(found) == \A i, j \in found : i = j

\* The inductive invariant: of a message that no two syncs have added at once there is
\* one row, or one sync that is open has one.
ReadableInv ==
    /\ DOMAIN mail = Mailers
    /\ \A i \in items : MailRowOf(i)
    /\ \A q \in Mailers : /\ DOMAIN mail[q] = {"kind", "uid", "left", "added"}
                          /\ \A i \in mail[q].added : MailRowOf(i)
                          /\ mail[q].kind # "sync" => mail[q].added = {}
                          /\ \A u \in mail[q].left : AddedOf(q, u) = {}
    /\ \A u \in Uids \ twins :
          /\ Apart(RowsOf(u, items))
          /\ \A q \in Mailers : Apart(AddedOf(q, u)) /\ (RowsOf(u, items) # {} => AddedOf(q, u) = {})
          /\ \A p, q \in Mailers : p # q => AddedOf(p, u) = {} \/ AddedOf(q, u) = {}

LEMMA ReadableInitInv == MailInit => ReadableInv
<1> SUFFICES ASSUME MailInit PROVE ReadableInv
  OBVIOUS
<1>1. items = {} /\ DOMAIN mail = Mailers /\ \A q \in Mailers : mail[q] = NoMail
  BY DEF MailInit
<1>2. DOMAIN NoMail = {"kind", "uid", "left", "added"} /\ NoMail.added = {} /\ NoMail.left = {}
  BY DEF NoMail
<1>. QED
  BY <1>1, <1>2 DEF ReadableInv, AddedOf, RowsOf, Apart

LEMMA ReadableStutters == ReadableInv /\ UNCHANGED mailVars => ReadableInv'
BY DEF ReadableInv, mailVars, mailRows, AddedOf, RowsOf, Apart

LEMMA ReadableHolds == ReadableInv => InboxReadable
<1> SUFFICES ASSUME ReadableInv, NEW u \in Uids \ twins PROVE Single(RowsOf(u, items))
  BY DEF InboxReadable
<1>1. Apart(RowsOf(u, items))
  BY DEF ReadableInv
<1>2. CASE RowsOf(u, items) = {}
  BY <1>2, FS_EmptySet DEF Single
<1>3. ASSUME NEW i \in RowsOf(u, items) PROVE Single(RowsOf(u, items))
  <2>1. RowsOf(u, items) = {i}
    BY <1>1, <1>3 DEF Apart
  <2>2. Cardinality({i}) = 1
    BY FS_Singleton
  <2>. QED
    BY <2>1, <2>2 DEF Single
<1>. QED
  BY <1>2, <1>3

\* A request that holds no row opens or ends.
LEMMA MailerKeeps ==
    ASSUME ReadableInv, NEW q \in Mailers, NEW m, mail' = [mail EXCEPT ![q] = m], items' = items, twins' = twins,
           DOMAIN m = {"kind", "uid", "left", "added"}, m.added = {}
    PROVE ReadableInv'
<1>1. DOMAIN mail' = Mailers /\ mail'[q] = m /\ \A p \in Mailers \ {q} : mail'[p] = mail[p]
  BY DEF ReadableInv
<1>2. \A u : AddedOf(q, u)' = {} /\ \A p \in Mailers \ {q} : AddedOf(p, u)' = AddedOf(p, u)
  BY <1>1 DEF AddedOf, RowsOf
<1>3. \A u : RowsOf(u, items)' = RowsOf(u, items)
  BY DEF RowsOf
<1>4. \A p \in Mailers : /\ DOMAIN mail'[p] = {"kind", "uid", "left", "added"}
                         /\ \A i \in mail'[p].added : MailRowOf(i)
                         /\ mail'[p].kind # "sync" => mail'[p].added = {}
                         /\ \A u \in mail'[p].left : AddedOf(p, u)' = {}
  BY <1>1, <1>2 DEF ReadableInv
<1>5. ASSUME NEW u \in Uids \ twins
      PROVE /\ Apart(RowsOf(u, items)')
            /\ \A p \in Mailers : Apart(AddedOf(p, u)') /\ (RowsOf(u, items)' # {} => AddedOf(p, u)' = {})
            /\ \A o, p \in Mailers : o # p => AddedOf(o, u)' = {} \/ AddedOf(p, u)' = {}
  BY <1>2, <1>3 DEF ReadableInv, Apart
<1>. QED
  BY <1>1, <1>4, <1>5 DEF ReadableInv, Apart

LEMMA NoMailFine == DOMAIN NoMail = {"kind", "uid", "left", "added"} /\ NoMail.added = {} /\ NoMail.kind = "none"
BY DEF NoMail

\* A row that is marked is of the same message.
LEMMA RowsMarked ==
    ASSUME ReadableInv, NEW found \in SUBSET items, NEW status, items' = (items \ found) \cup Mark(found, status),
           NEW q \in Mailers, mail' = [mail EXCEPT ![q] = NoMail], twins' = twins
    PROVE ReadableInv'
<1>1. \A i \in Mark(found, status) : MailRowOf(i) /\ \E k \in found : i = [k EXCEPT !.status = status] /\ i.uid = k.uid
  <2> SUFFICES ASSUME NEW k \in found PROVE MailRowOf([k EXCEPT !.status = status]) /\ [k EXCEPT !.status = status].uid = k.uid
    BY DEF Mark
  <2>1. MailRowOf(k)
    BY DEF ReadableInv
  <2>. QED
    BY <2>1 DEF MailRowOf
<1>2. \A i \in items' : MailRowOf(i)
  BY <1>1 DEF ReadableInv
<1>3. DOMAIN mail' = Mailers /\ mail'[q] = NoMail /\ \A p \in Mailers \ {q} : mail'[p] = mail[p]
  BY DEF ReadableInv
<1>4. \A u : AddedOf(q, u)' = {} /\ \A p \in Mailers \ {q} : AddedOf(p, u)' = AddedOf(p, u)
  BY <1>3, NoMailFine DEF AddedOf, RowsOf
<1>5. \A p \in Mailers : /\ DOMAIN mail'[p] = {"kind", "uid", "left", "added"}
                         /\ \A i \in mail'[p].added : MailRowOf(i)
                         /\ mail'[p].kind # "sync" => mail'[p].added = {}
                         /\ \A u \in mail'[p].left : AddedOf(p, u)' = {}
  BY <1>3, <1>4, NoMailFine DEF ReadableInv
<1>6. ASSUME NEW u \in Uids \ twins
      PROVE Apart(RowsOf(u, items')) /\ (RowsOf(u, items') # {} => RowsOf(u, items) # {})
  <2>1. Apart(RowsOf(u, items))
    BY DEF ReadableInv
  <2>2. \A i \in RowsOf(u, items') : i \in RowsOf(u, items) \ found \/ \E k \in found : k.uid = u /\ i = [k EXCEPT !.status = status]
    BY <1>1 DEF RowsOf
  <2>3. \A k \in found : k.uid = u => k \in RowsOf(u, items)
    BY DEF RowsOf
  <2>4. ASSUME NEW i \in RowsOf(u, items'), NEW j \in RowsOf(u, items') PROVE i = j
    <3>1. CASE \E k \in found : k.uid = u
      <4>1. PICK k \in found : k.uid = u
        BY <3>1
      <4>2. \A x \in RowsOf(u, items) : x = k
        BY <2>1, <2>3, <4>1 DEF Apart
      <4>3. \A x \in RowsOf(u, items') : x = [k EXCEPT !.status = status]
        BY <2>2, <2>3, <4>1, <4>2
      <4>. QED
        BY <4>3
    <3>2. CASE ~\E k \in found : k.uid = u
      BY <2>1, <2>2, <2>4, <3>2 DEF Apart
    <3>. QED
      BY <3>1, <3>2
  <2>. QED
    BY <2>2, <2>3, <2>4 DEF Apart
<1>7. ASSUME NEW u \in Uids \ twins
      PROVE /\ \A p \in Mailers : Apart(AddedOf(p, u)') /\ (RowsOf(u, items') # {} => AddedOf(p, u)' = {})
            /\ \A o, p \in Mailers : o # p => AddedOf(o, u)' = {} \/ AddedOf(p, u)' = {}
  <2>1. /\ \A p \in Mailers : Apart(AddedOf(p, u)) /\ (RowsOf(u, items) # {} => AddedOf(p, u) = {})
        /\ \A o, p \in Mailers : o # p => AddedOf(o, u) = {} \/ AddedOf(p, u) = {}
    BY DEF ReadableInv
  <2>2. \A p \in Mailers : AddedOf(p, u)' = AddedOf(p, u) \/ AddedOf(p, u)' = {}
    BY <1>4
  <2>3. Apart({})
    BY DEF Apart
  <2>4. RowsOf(u, items') # {} => RowsOf(u, items) # {}
    BY <1>6
  <2>5. ASSUME NEW p \in Mailers PROVE Apart(AddedOf(p, u)') /\ (RowsOf(u, items') # {} => AddedOf(p, u)' = {})
    <3>1. CASE AddedOf(p, u)' = {}
      BY <2>3, <3>1
    <3>2. CASE AddedOf(p, u)' = AddedOf(p, u)
      BY <2>1, <2>4, <3>2
    <3>. QED
      BY <2>2, <3>1, <3>2
  <2>. QED
    BY <2>1, <2>2, <2>5
<1>. QED
  BY <1>2, <1>3, <1>5, <1>6, <1>7 DEF ReadableInv

LEMMA UpsertKeeps ==
    ASSUME ReadableInv, NEW q \in Mailers, NEW u \in Uids, UpsertMail(q, u)
    PROVE ReadableInv'
<1> PICK n : n = CHOOSE j \in FreeRows : \A k \in FreeRows : j <= k
  OBVIOUS
<1> PICK i : i = [id |-> n, uid |-> u, status |-> "classified"]
  OBVIOUS
<1>0. MailRowOf(i) /\ i.uid = u
  BY DEF MailRowOf
<1>1. PICK m : m = mail[q]
  OBVIOUS
<1>2. mail[q].kind = "sync" /\ u \in m.left /\ items' = items
  BY <1>1 DEF UpsertMail, UpsertWhen, mailRows
<1>3. DOMAIN m = {"kind", "uid", "left", "added"} /\ (\A j \in m.added : MailRowOf(j)) /\ \A v \in m.left : RowsOf(v, m.added) = {}
  BY <1>1 DEF ReadableInv, AddedOf
<1>4. CASE RowsOf(u, items) # {}
  <2>1. PICK r : r = [m EXCEPT !.left = @ \ {u}]
    OBVIOUS
  <2>2. mail' = [mail EXCEPT ![q] = r] /\ twins' = twins
    BY <1>1, <1>4, <2>1 DEF UpsertMail, UpsertWhen, ReadableInv
  <2>3. DOMAIN r = {"kind", "uid", "left", "added"} /\ r.added = m.added /\ r.kind = m.kind /\ r.left = m.left \ {u}
    BY <1>3, <2>1
  <2>4. DOMAIN mail' = Mailers /\ mail'[q] = r /\ \A p \in Mailers \ {q} : mail'[p] = mail[p]
    BY <2>2 DEF ReadableInv
  <2>5. \A p \in Mailers : \A v : AddedOf(p, v)' = AddedOf(p, v)
    BY <1>1, <2>3, <2>4 DEF AddedOf
  <2>. QED
    BY <1>1, <1>2, <2>2, <2>3, <2>4, <2>5 DEF ReadableInv, Apart
<1>5. CASE RowsOf(u, items) = {}
  <2>1. PICK r : r = [m EXCEPT !.left = @ \ {u}, !.added = @ \cup {i}]
    OBVIOUS
  <2>2. /\ mail' = [mail EXCEPT ![q] = r]
        /\ twins' = IF \E p \in Mailers \ {q} : AddedOf(p, u) # {} THEN twins \cup {u} ELSE twins
    BY <1>1, <1>5, <2>1 DEF UpsertMail, UpsertWhen, ReadableInv, AddedOf
  <2>3. DOMAIN r = {"kind", "uid", "left", "added"} /\ r.added = m.added \cup {i} /\ r.kind = m.kind /\ r.left = m.left \ {u}
    BY <1>3, <2>1
  <2>4. DOMAIN mail' = Mailers /\ mail'[q] = r /\ \A p \in Mailers \ {q} : mail'[p] = mail[p]
    BY <2>2 DEF ReadableInv
  <2>5. \A p \in Mailers \ {q} : \A v : AddedOf(p, v)' = AddedOf(p, v)
    BY <2>4 DEF AddedOf
  <2>6. AddedOf(q, u)' = {i} /\ \A v : v # u => AddedOf(q, v)' = AddedOf(q, v)
    BY <1>0, <1>1, <1>2, <1>3, <2>3, <2>4 DEF AddedOf, RowsOf
  <2>7. \A p \in Mailers : /\ DOMAIN mail'[p] = {"kind", "uid", "left", "added"}
                           /\ \A j \in mail'[p].added : MailRowOf(j)
                           /\ mail'[p].kind # "sync" => mail'[p].added = {}
                           /\ \A v \in mail'[p].left : AddedOf(p, v)' = {}
    <3>1. \A v \in m.left \ {u} : AddedOf(q, v)' = {}
      BY <1>1, <1>3, <2>6 DEF AddedOf
    <3>2. \A j \in r.added : MailRowOf(j)
      BY <1>0, <1>3, <2>3
    <3>3. ASSUME NEW p \in Mailers \ {q}
          PROVE /\ DOMAIN mail'[p] = {"kind", "uid", "left", "added"}
                /\ \A j \in mail'[p].added : MailRowOf(j)
                /\ mail'[p].kind # "sync" => mail'[p].added = {}
                /\ \A v \in mail'[p].left : AddedOf(p, v)' = {}
      BY <2>4, <2>5 DEF ReadableInv
    <3>. QED
      BY <1>1, <1>2, <2>3, <2>4, <3>1, <3>2, <3>3
  <2>8. ASSUME NEW v \in Uids \ twins'
        PROVE /\ Apart(RowsOf(v, items)')
              /\ \A p \in Mailers : Apart(AddedOf(p, v)') /\ (RowsOf(v, items)' # {} => AddedOf(p, v)' = {})
              /\ \A o, p \in Mailers : o # p => AddedOf(o, v)' = {} \/ AddedOf(p, v)' = {}
    <3>1. v \in Uids \ twins /\ RowsOf(v, items)' = RowsOf(v, items)
      BY <1>2, <2>2
    <3>2. CASE v # u
      BY <2>5, <2>6, <3>1, <3>2 DEF ReadableInv, Apart
    <3>3. CASE v = u
      <4>1. \A p \in Mailers \ {q} : AddedOf(p, u)' = {}
        BY <2>2, <2>5, <2>8, <3>3
      <4>2. \A p \in Mailers : p # q => AddedOf(p, u)' = {}
        BY <4>1
      <4>3. RowsOf(u, items)' = {} /\ AddedOf(q, u)' = {i}
        BY <1>5, <2>6, <3>1, <3>3
      <4>4. Apart({i}) /\ Apart({})
        BY DEF Apart
      <4>5. ASSUME NEW p \in Mailers PROVE Apart(AddedOf(p, u)')
        BY <4>2, <4>3, <4>4
      <4>. QED
        BY <3>3, <4>2, <4>3, <4>4, <4>5
    <3>. QED
      BY <3>2, <3>3
  <2>. QED
    BY <1>2, <2>4, <2>7, <2>8 DEF ReadableInv, Apart
<1>. QED
  BY <1>4, <1>5

LEMMA SyncCommits ==
    ASSUME ReadableInv, NEW q \in Mailers, CommitSync(q)
    PROVE ReadableInv'
<1>1. items' = items \cup mail[q].added /\ mail' = [mail EXCEPT ![q] = NoMail] /\ twins' = twins
  BY DEF CommitSync, EndMail
<1>2. DOMAIN mail' = Mailers /\ mail'[q] = NoMail /\ \A p \in Mailers \ {q} : mail'[p] = mail[p]
  BY <1>1 DEF ReadableInv
<1>3. \A u : AddedOf(q, u)' = {} /\ \A p \in Mailers \ {q} : AddedOf(p, u)' = AddedOf(p, u)
  BY <1>2, NoMailFine DEF AddedOf, RowsOf
<1>4. \A u : RowsOf(u, items)' = RowsOf(u, items) \cup AddedOf(q, u)
  BY <1>1 DEF RowsOf, AddedOf
<1>5. \A i \in items' : MailRowOf(i)
  BY <1>1 DEF ReadableInv
<1>6. \A p \in Mailers : /\ DOMAIN mail'[p] = {"kind", "uid", "left", "added"}
                         /\ \A i \in mail'[p].added : MailRowOf(i)
                         /\ mail'[p].kind # "sync" => mail'[p].added = {}
                         /\ \A u \in mail'[p].left : AddedOf(p, u)' = {}
  BY <1>2, <1>3, NoMailFine DEF ReadableInv
<1>7. ASSUME NEW u \in Uids \ twins
      PROVE /\ Apart(RowsOf(u, items)')
            /\ \A p \in Mailers : Apart(AddedOf(p, u)') /\ (RowsOf(u, items)' # {} => AddedOf(p, u)' = {})
            /\ \A o, p \in Mailers : o # p => AddedOf(o, u)' = {} \/ AddedOf(p, u)' = {}
  BY <1>3, <1>4 DEF ReadableInv, Apart
<1>. QED
  BY <1>1, <1>2, <1>5, <1>6, <1>7 DEF ReadableInv, Apart

LEMMA ReadableStepInv == ReadableInv /\ MailNext => ReadableInv'
<1> SUFFICES ASSUME ReadableInv, MailNext PROVE ReadableInv'
  OBVIOUS
<1>1. ASSUME NEW q \in Mailers, NEW listed \in SUBSET Uids, OpenSync(q, listed) PROVE ReadableInv'
  <2>1. PICK m : m = [NoMail EXCEPT !.kind = "sync", !.left = listed]
    OBVIOUS
  <2>2. DOMAIN m = {"kind", "uid", "left", "added"} /\ m.added = {}
    BY <2>1, NoMailFine
  <2>. QED
    BY <1>1, <2>1, <2>2, MailerKeeps DEF OpenSync, OpenMail, mailRows
<1>2. ASSUME NEW q \in Mailers, NEW u \in Uids, NEW kind, OpenMail(q, [NoMail EXCEPT !.kind = kind, !.uid = u]),
             UNCHANGED <<items, twins>> PROVE ReadableInv'
  <2>1. PICK m : m = [NoMail EXCEPT !.kind = kind, !.uid = u]
    OBVIOUS
  <2>2. DOMAIN m = {"kind", "uid", "left", "added"} /\ m.added = {}
    BY <2>1, NoMailFine
  <2>. QED
    BY <1>2, <2>1, <2>2, MailerKeeps DEF OpenMail
<1>3. ASSUME NEW q \in Mailers, NEW u \in Uids, UpsertMail(q, u) PROVE ReadableInv'
  BY <1>3, UpsertKeeps
<1>4. ASSUME NEW q \in Mailers, NEW u \in Uids, OpenReply(q, u) \/ OpenSend(q, u) PROVE ReadableInv'
  BY <1>2, <1>4 DEF OpenReply, OpenSend
<1>5. ASSUME NEW q \in Mailers, CommitSync(q) PROVE ReadableInv'
  BY <1>5, SyncCommits
<1>6. ASSUME NEW q \in Mailers, Reply(q) PROVE ReadableInv'
  <2>1. PICK found \in SUBSET items : found = RowsOf(mail[q].uid, items)
    BY DEF RowsOf
  <2>2. items' = (items \ found) \cup Mark(found, "drafted") /\ mail' = [mail EXCEPT ![q] = NoMail] /\ twins' = twins
    BY <1>6, <2>1 DEF Reply, EndMail
  <2>. QED
    BY <2>2, RowsMarked
<1>7. ASSUME NEW q \in Mailers, Send(q) PROVE ReadableInv'
  <2>1. mail' = [mail EXCEPT ![q] = NoMail] /\ twins' = twins
    BY <1>7 DEF Send, EndMail
  <2>2. CASE items' = items
    BY <2>1, <2>2, NoMailFine, MailerKeeps
  <2>3. ASSUME NEW i \in items, items' = (items \ {i}) \cup Mark({i}, "sent") PROVE ReadableInv'
    <3>1. {i} \in SUBSET items
      OBVIOUS
    <3>. QED
      BY <2>1, <2>3, <3>1, RowsMarked
  <2>. QED
    BY <1>7, <2>2, <2>3 DEF Send
<1>8. ASSUME NEW q \in Mailers, FailMail(q) PROVE ReadableInv'
  BY <1>8, NoMailFine, MailerKeeps DEF FailMail, EndMail, mailRows
<1>9. ASSUME NEW u \in Uids, NEW verdict, DecideReply(u, verdict) PROVE ReadableInv'
  BY <1>9 DEF DecideReply, ReadableInv, AddedOf, RowsOf, Apart
<1>. QED
  BY <1>1, <1>3, <1>4, <1>5, <1>6, <1>7, <1>8, <1>9 DEF MailNext

--------------------------------------------------------------------------------
(* The row of a calendar event, and of a connection (CalendarStore) *)

\* What a request that is open has read: no row is added by a callback that found one, and
\* an event that a sync adds it has not found.
DialFine(c) ==
    /\ (c.op = "callback" /\ c.as = "insert") => c.base = 0
    /\ c.op = "sync" => c.missing \subseteq DOMAIN SeedSpan \ c.had
    /\ c.op = "patch" => c.field \in {"sources", "private"}

\* The inductive invariant: two rows of an event or of the calendar's connection were written
\* by requests that crossed, and settings are as the last patch of each said.
StoreInv ==
    /\ DOMAIN dialing = Dialers /\ connected \in [Provider -> Nat]
    /\ \A q \in Dialers : DialFine(dialing[q])
    /\ connected["google_calendar"] > 1 => "google_calendar" \in doubled
    /\ "events" \notin doubled => \A e \in DOMAIN SeedSpan : \A x, y \in Copies(e) : x = y
    /\ DOMAIN lastSaid = {"sources", "private"}
    /\ policy.sources \subseteq lastSaid.sources \cup AlwaysOn
    /\ policy.private = lastSaid.private

LEMMA NoDialFine == DialFine(NoDial)
BY DEF DialFine, NoDial

LEMMA StoreInitInv == CalendarInit => StoreInv
<1> SUFFICES ASSUME CalendarInit PROVE StoreInv
  OBVIOUS
<1>1. connected \in [Provider -> Nat] /\ connected["google_calendar"] = 0
  BY DEF CalendarInit, Provider
<1>2. \A e : Copies(e) = {}
  BY DEF CalendarInit, Copies
<1>3. DOMAIN lastSaid = {"sources", "private"} /\ policy.sources = lastSaid.sources /\ policy.private = lastSaid.private
  BY DEF CalendarInit, NoPolicy
<1>4. \A q \in Dialers : DialFine(dialing[q])
  BY NoDialFine DEF CalendarInit
<1>. QED
  BY <1>1, <1>2, <1>3, <1>4 DEF StoreInv, CalendarInit

LEMMA StoreStutters == StoreInv /\ UNCHANGED calendarVars => StoreInv'
BY DEF StoreInv, calendarVars, DialFine, Copies

LEMMA StoreReadable == StoreInv => CalendarReadable
<1> SUFFICES ASSUME StoreInv, "events" \notin doubled, NEW e \in DOMAIN SeedSpan PROVE ~(Cardinality(Copies(e)) > 1)
  BY DEF CalendarReadable, StoreInv
<1>1. CASE Copies(e) = {}
  BY <1>1, FS_EmptySet
<1>2. ASSUME NEW x \in Copies(e) PROVE ~(Cardinality(Copies(e)) > 1)
  <2>1. Copies(e) = {x}
    BY <1>2 DEF StoreInv
  <2>2. Cardinality({x}) = 1
    BY FS_Singleton
  <2>. QED
    BY <2>1, <2>2
<1>. QED
  BY <1>1, <1>2

LEMMA StoreSaid == StoreInv => SettingsAsSaid
BY DEF StoreInv, SettingsAsSaid, Allowed

\* A request opens, or ends, and writes nothing.
LEMMA DialKeeps ==
    ASSUME StoreInv, NEW q \in Dialers, NEW c, dialing' = [dialing EXCEPT ![q] = c], DialFine(c),
           UNCHANGED <<connected, events, policy, lastSaid, doubled>>
    PROVE StoreInv'
<1>1. DOMAIN dialing' = Dialers /\ \A p \in Dialers : dialing'[p] = c \/ dialing'[p] = dialing[p]
  BY DEF StoreInv
<1>2. \A p \in Dialers : DialFine(dialing'[p])
  BY <1>1 DEF StoreInv
<1>. QED
  BY <1>1, <1>2 DEF StoreInv, DialFine, Copies

LEMMA EventsKeep ==
    ASSUME StoreInv, DOMAIN dialing' = Dialers, \A p \in Dialers : DialFine(dialing'[p]),
           UNCHANGED <<connected, policy, lastSaid>>, doubled \subseteq doubled',
           "events" \notin doubled' => \A e \in DOMAIN SeedSpan : \A x, y \in Copies(e)' : x = y
    PROVE StoreInv'
BY DEF StoreInv, DialFine

LEMMA CallbackKeeps == ASSUME StoreInv, NEW q \in Dialers, CommitCalendarCallback(q) PROVE StoreInv'
<1>1. PICK c : c = dialing[q]
  OBVIOUS
<1>2. dialing' = [dialing EXCEPT ![q] = NoDial] /\ UNCHANGED <<events, policy, lastSaid>>
  BY DEF CommitCalendarCallback
<1>3. CASE c.as = "insert"
  <2>1. /\ connected' = [connected EXCEPT !["google_calendar"] = @ + 1]
        /\ doubled' = doubled \cup (IF connected["google_calendar"] # c.base THEN {"google_calendar"} ELSE {})
        /\ c.base = 0
    BY <1>1, <1>3 DEF CommitCalendarCallback, StoreInv, DialFine
  <2>2. connected["google_calendar"] \in Nat /\ connected' \in [Provider -> Nat]
        /\ connected'["google_calendar"] = connected["google_calendar"] + 1
    BY <2>1 DEF StoreInv, Provider
  <2>3. connected'["google_calendar"] > 1 => "google_calendar" \in doubled'
    BY <2>1, <2>2
  <2>4. DOMAIN dialing' = Dialers /\ \A p \in Dialers : DialFine(dialing'[p])
    BY <1>2, NoDialFine DEF StoreInv
  <2>. QED
    BY <1>2, <2>1, <2>2, <2>3, <2>4 DEF StoreInv, DialFine, Copies
<1>4. CASE c.as # "insert"
  BY <1>1, <1>2, <1>4, NoDialFine, DialKeeps DEF CommitCalendarCallback
<1>. QED
  BY <1>3, <1>4

LEMMA GatewayConnects == ASSUME StoreInv, NEW q \in Dialers, NEW p \in Provider, Connect(q, p) \/ DisconnectOne(q, p) PROVE StoreInv'
<1>1. connected[p] \in Nat /\ UNCHANGED <<events, policy, dialing, lastSaid>>
  BY DEF StoreInv, Connect, DisconnectOne
<1>2. CASE Connect(q, p)
  <2>1. /\ connected' = [connected EXCEPT ![p] = @ + 1]
        /\ doubled' = doubled \cup (IF connected[p] > 0 THEN {p} ELSE {})
    BY <1>2 DEF Connect
  <2>2. connected' \in [Provider -> Nat] /\ connected'[p] = connected[p] + 1 /\ \A o \in Provider : o # p => connected'[o] = connected[o]
    BY <1>1, <2>1 DEF StoreInv
  <2>3. connected'["google_calendar"] > 1 => "google_calendar" \in doubled'
    BY <1>1, <2>1, <2>2 DEF StoreInv, Provider
  <2>. QED
    BY <1>1, <2>1, <2>2, <2>3 DEF StoreInv, DialFine, Copies
<1>3. CASE DisconnectOne(q, p)
  <2>1. connected' = [connected EXCEPT ![p] = @ - 1] /\ connected[p] > 0 /\ doubled' = doubled
    BY <1>3 DEF DisconnectOne
  <2>2. connected' \in [Provider -> Nat] /\ connected'[p] = connected[p] - 1 /\ \A o \in Provider : o # p => connected'[o] = connected[o]
    BY <1>1, <2>1 DEF StoreInv
  <2>3. connected'["google_calendar"] > 1 => "google_calendar" \in doubled'
    BY <1>1, <2>1, <2>2 DEF StoreInv, Provider
  <2>. QED
    BY <1>1, <2>1, <2>2, <2>3 DEF StoreInv, DialFine, Copies
<1>. QED
  BY <1>2, <1>3

LEMMA CalendarSyncs == ASSUME StoreInv, NEW q \in Dialers, CommitCalendarSync(q) PROVE StoreInv'
<1>1. PICK c : c = dialing[q]
  OBVIOUS
<1>2. c.missing \subseteq DOMAIN SeedSpan \ c.had
  BY <1>1 DEF CommitCalendarSync, StoreInv, DialFine
<1>3. /\ events' = events \cup {[of |-> e, copy |-> Cardinality(Copies(e)) + 1,
                                 start |-> SeedSpan[e][1], end |-> SeedSpan[e][2]] : e \in c.missing}
      /\ doubled' = doubled \cup (IF \E e \in DOMAIN SeedSpan \ c.had : Copies(e) # {} THEN {"events"} ELSE {})
      /\ dialing' = [dialing EXCEPT ![q] = NoDial] /\ UNCHANGED <<connected, policy, lastSaid>>
  BY <1>1 DEF CommitCalendarSync
<1>4. DOMAIN dialing' = Dialers /\ \A p \in Dialers : DialFine(dialing'[p])
  BY <1>3, NoDialFine DEF StoreInv
<1>5. ASSUME "events" \notin doubled', NEW e \in DOMAIN SeedSpan, NEW x \in Copies(e)', NEW y \in Copies(e)' PROVE x = y
  <2> PICK w : w = [of |-> e, copy |-> Cardinality(Copies(e)) + 1, start |-> SeedSpan[e][1], end |-> SeedSpan[e][2]]
    OBVIOUS
  <2>1. \A z \in Copies(e)' : z \in Copies(e) \/ (e \in c.missing /\ z = w)
    <3> SUFFICES ASSUME NEW z \in Copies(e)', z \notin Copies(e) PROVE e \in c.missing /\ z = w
      OBVIOUS
    <3>1. z \in events' /\ z.of = e /\ z \notin events
      BY DEF Copies
    <3>2. PICK d \in c.missing : z = [of |-> d, copy |-> Cardinality(Copies(d)) + 1, start |-> SeedSpan[d][1], end |-> SeedSpan[d][2]]
      BY <1>3, <3>1
    <3>3. d = e
      BY <3>1, <3>2
    <3>. QED
      BY <3>2, <3>3
  <2>2. "events" \notin doubled /\ \A d \in DOMAIN SeedSpan \ c.had : Copies(d) = {}
    BY <1>3, <1>5
  <2>3. CASE e \in c.missing
    <3>1. Copies(e) = {}
      BY <1>2, <2>2, <2>3
    <3>. QED
      BY <1>5, <2>1, <3>1
  <2>4. CASE e \notin c.missing
    <3>1. x \in Copies(e) /\ y \in Copies(e)
      BY <1>5, <2>1, <2>4
    <3>. QED
      BY <2>2, <3>1 DEF StoreInv
  <2>. QED
    BY <2>3, <2>4
<1>. QED
  BY <1>3, <1>4, <1>5, EventsKeep

LEMMA DraftsKeep == ASSUME StoreInv, CalendarAssumption, NEW q \in Dialers, NEW span, ProposeDraft(q, span) PROVE StoreInv'
<1>1. PICK x : x = [of |-> "draft", copy |-> dials + 1, start |-> span[1], end |-> span[2]]
  OBVIOUS
<1>2. events' = events \cup {x} /\ x.of = "draft"
  BY <1>1 DEF ProposeDraft
<1>3. \A e \in DOMAIN SeedSpan : Copies(e)' = Copies(e)
  BY <1>2 DEF Copies, CalendarAssumption
<1>4. UNCHANGED <<connected, policy, dialing, lastSaid, doubled>>
  BY DEF ProposeDraft
<1>. QED
  BY <1>3, <1>4 DEF StoreInv, DialFine
LEMMA PolicyKeeps == ASSUME StoreInv, NEW q \in Dialers, CommitPatchPolicy(q) PROVE StoreInv'
<1>1. PICK c : c = dialing[q]
  OBVIOUS
<1>2. dialing' = [dialing EXCEPT ![q] = NoDial] /\ UNCHANGED <<connected, events, doubled>> /\ c.field \in {"sources", "private"}
  BY <1>1 DEF CommitPatchPolicy, StoreInv, DialFine
<1>3. DOMAIN dialing' = Dialers /\ \A p \in Dialers : DialFine(dialing'[p])
  BY <1>2, NoDialFine DEF StoreInv
<1>4. CASE UNCHANGED <<policy, lastSaid>>
  BY <1>2, <1>4, NoDialFine, DialKeeps
<1>5. CASE policy' = PolicyWritten(c) /\ lastSaid' = [lastSaid EXCEPT ![c.field] = c.value]
  <2>1. DOMAIN lastSaid' = {"sources", "private"}
    BY <1>5 DEF StoreInv
  <2>2. CASE c.field = "sources"
    <3>1. lastSaid'.sources = c.value /\ lastSaid'.private = lastSaid.private
      BY <1>5, <2>2 DEF StoreInv
    <3>2. policy'.sources = Normalized(c.value) /\ policy'.private = policy.private
      BY <1>5, <2>2 DEF PolicyWritten
    <3>3. policy'.sources \subseteq lastSaid'.sources \cup AlwaysOn /\ policy'.private = lastSaid'.private
      BY <3>1, <3>2 DEF Normalized, StoreInv
    <3>. QED
      BY <1>2, <1>3, <2>1, <3>3 DEF StoreInv, Copies
  <2>3. CASE c.field = "private"
    <3>1. lastSaid'.private = c.value /\ lastSaid'.sources = lastSaid.sources
      BY <1>5, <2>3 DEF StoreInv
    <3>2. policy'.sources = policy.sources /\ policy'.private = c.value
      BY <1>5, <2>3 DEF PolicyWritten
    <3>3. policy'.sources \subseteq lastSaid'.sources \cup AlwaysOn /\ policy'.private = lastSaid'.private
      BY <3>1, <3>2 DEF StoreInv
    <3>. QED
      BY <1>2, <1>3, <2>1, <3>3 DEF StoreInv, Copies
  <2>. QED
    BY <1>2, <2>2, <2>3
<1>. QED
  BY <1>1, <1>4, <1>5 DEF CommitPatchPolicy

LEMMA StoreStepInv == StoreInv /\ CalendarNext => StoreInv'
<1> SUFFICES ASSUME StoreInv, CalendarNext PROVE StoreInv'
  OBVIOUS
<1>1. ASSUME NEW q \in Dialers, BeginCalendarCallback(q) PROVE StoreInv'
  <2>1. PICK c : c = [op |-> "callback", as |-> Recorded, base |-> connected["google_calendar"]]
    OBVIOUS
  <2>2. DialFine(c)
    BY <2>1 DEF DialFine, Recorded
  <2>. QED
    BY <1>1, <2>1, <2>2, DialKeeps DEF BeginCalendarCallback
<1>2. ASSUME NEW q \in Dialers, CommitCalendarCallback(q) PROVE StoreInv'
  BY <1>2, CallbackKeeps
<1>3. ASSUME NEW q \in Dialers, NEW p \in Provider, Connect(q, p) \/ DisconnectOne(q, p) PROVE StoreInv'
  BY <1>3, GatewayConnects
<1>4. ASSUME NEW q \in Dialers, BeginCalendarSync(q) PROVE StoreInv'
  <2>1. PICK c : c = [op |-> "sync", missing |-> MissingEvents, had |-> {e \in DOMAIN SeedSpan : Copies(e) # {}}]
    OBVIOUS
  <2>2. DialFine(c)
    BY <2>1 DEF DialFine, MissingEvents
  <2>. QED
    BY <1>4, <2>1, <2>2, DialKeeps DEF BeginCalendarSync
<1>5. ASSUME NEW q \in Dialers, CommitCalendarSync(q) PROVE StoreInv'
  BY <1>5, CalendarSyncs
<1>6. ASSUME NEW q \in Dialers, NEW span, ProposeDraft(q, span) PROVE StoreInv'
  BY <1>6, CalendarAssumption, DraftsKeep
<1>7. ASSUME NEW q \in Dialers, NEW field \in {"sources", "private"}, NEW value, BeginPatchPolicy(q, field, value) PROVE StoreInv'
  <2>1. PICK c : c = [op |-> "patch", field |-> field, value |-> value, old |-> policy]
    OBVIOUS
  <2>2. DialFine(c)
    BY <2>1 DEF DialFine
  <2>. QED
    BY <1>7, <2>1, <2>2, DialKeeps DEF BeginPatchPolicy
<1>8. ASSUME NEW q \in Dialers, CommitPatchPolicy(q) PROVE StoreInv'
  BY <1>8, PolicyKeeps
<1>. QED
  BY <1>1, <1>2, <1>3, <1>4, <1>5, <1>6, <1>7, <1>8 DEF CalendarNext

--------------------------------------------------------------------------------
(* Wrong passwords and ended sessions (SignIn) *)

GuessOutcome == [at : Nat, outcome : {"success", "failure", "locked"}]
WrongWithin(m) == {i \in DOMAIN authEvents[m] : /\ authEvents[m][i].outcome \in {"failure"}
                                               /\ authEvents[m][i].at + LockoutWindow >= signInTime}
Trying(m) == {q \in Signers : signing[q].op = "login" /\ signing[q].email = m}
GuessRoom == MAX_FAILURES - 1 + Cardinality(Signers)

\* The inductive invariant: the passwords that were wrong lately and those being tried.
GuessInv ==
    /\ authEvents \in [Emails -> Seq(GuessOutcome)] /\ signInTime \in Nat
    /\ DOMAIN signing = Signers /\ unexplained = FALSE
    /\ \A q \in Signers : signing[q].op \in {"login", "bootstrap"} => signing[q].email \in Emails
    /\ \A m \in Emails : Cardinality(WrongWithin(m)) + Cardinality(Trying(m)) <= GuessRoom

LEMMA GuessesFinite ==
    ASSUME GuessInv, NEW m \in Emails
    PROVE /\ MAX_FAILURES \in Nat \ {0} /\ IsFiniteSet(Signers) /\ Cardinality(Signers) \in Nat
          /\ IsFiniteSet(WrongWithin(m)) /\ Cardinality(WrongWithin(m)) \in Nat
          /\ IsFiniteSet(Trying(m)) /\ Cardinality(Trying(m)) \in Nat
<1>1. Trying(m) \subseteq Signers /\ WrongWithin(m) \subseteq 1..Len(authEvents[m]) /\ Len(authEvents[m]) \in Nat
  BY DEF Trying, WrongWithin, GuessInv
<1>2. IsFiniteSet(1..Len(authEvents[m]))
  BY <1>1, FS_Interval
<1>. QED
  BY <1>1, <1>2, SignInAssumption, FS_Subset, FS_CardinalityType

LEMMA GuessInitInv == SignInInit => GuessInv
<1> SUFFICES ASSUME SignInInit PROVE GuessInv
  OBVIOUS
<1>1. authEvents \in [Emails -> Seq(GuessOutcome)] /\ DOMAIN signing = Signers /\ \A q \in Signers : signing[q].op = "none"
  BY DEF SignInInit, NoSigning
<1>2. ASSUME NEW m \in Emails PROVE Cardinality(WrongWithin(m)) + Cardinality(Trying(m)) <= GuessRoom
  <2>1. WrongWithin(m) = {} /\ Trying(m) = {}
    BY <1>1 DEF WrongWithin, Trying, SignInInit
  <2>. QED
    BY <2>1, FS_EmptySet, FS_CardinalityType, SignInAssumption DEF GuessRoom
<1>. QED
  BY <1>1, <1>2 DEF GuessInv, SignInInit

LEMMA GuessStutters == GuessInv /\ UNCHANGED signInVars => GuessInv'
BY DEF GuessInv, signInVars, WrongWithin, Trying

\* Where neither grows the bound stays.
LEMMA FewerGuesses ==
    ASSUME GuessInv, NEW m \in Emails, WrongWithin(m)' \subseteq WrongWithin(m), Trying(m)' \subseteq Trying(m)
    PROVE (Cardinality(WrongWithin(m)) + Cardinality(Trying(m)) <= GuessRoom)'
<1> PICK a : a = WrongWithin(m)'
  OBVIOUS
<1> PICK o : o = Trying(m)'
  OBVIOUS
<1>1. Cardinality(a) \in Nat /\ Cardinality(a) <= Cardinality(WrongWithin(m))
  BY GuessesFinite, FS_Subset, FS_CardinalityType
<1>2. Cardinality(o) \in Nat /\ Cardinality(o) <= Cardinality(Trying(m))
  BY GuessesFinite, FS_Subset, FS_CardinalityType
<1>3. Cardinality(WrongWithin(m)) + Cardinality(Trying(m)) <= GuessRoom
  BY DEF GuessInv
<1>4. GuessRoom \in Int /\ Cardinality(WrongWithin(m)) \in Nat /\ Cardinality(Trying(m)) \in Nat
  BY GuessesFinite DEF GuessRoom
<1>5. Cardinality(a) + Cardinality(o) <= GuessRoom
  BY <1>1, <1>2, <1>3, <1>4
<1>. QED
  BY <1>5 DEF GuessRoom

\* What is recorded of an address: a wrong password adds one, anything else none.
LEMMA RecordCounts ==
    ASSUME GuessInv, NEW m \in Emails, NEW out \in {"success", "failure", "locked"}, Record(m, out),
           signInTime' = signInTime
    PROVE /\ authEvents' \in [Emails -> Seq(GuessOutcome)]
          /\ \A k \in Emails \ {m} : WrongWithin(k)' = WrongWithin(k)
          /\ out # "failure" => WrongWithin(m)' = WrongWithin(m)
          /\ WrongWithin(m)' \subseteq WrongWithin(m) \cup {Len(authEvents[m]) + 1}
<1> PICK n : n = [at |-> signInTime, outcome |-> out]
  OBVIOUS
<1> PICK s : s = authEvents[m]
  OBVIOUS
<1>1. n \in GuessOutcome /\ s \in Seq(GuessOutcome) /\ n.outcome = out
  BY DEF GuessOutcome, GuessInv
<1>2. authEvents' = [authEvents EXCEPT ![m] = Append(s, n)]
  BY DEF Record
<1>3. Append(s, n) \in Seq(GuessOutcome) /\ Len(Append(s, n)) = Len(s) + 1 /\ Append(s, n)[Len(s) + 1] = n
      /\ \A i \in 1..Len(s) : Append(s, n)[i] = s[i]
  BY <1>1
<1>4. authEvents' \in [Emails -> Seq(GuessOutcome)] /\ authEvents'[m] = Append(s, n)
      /\ \A k \in Emails \ {m} : authEvents'[k] = authEvents[k]
  BY <1>2, <1>3 DEF GuessInv
<1>5. \A k \in Emails \ {m} : WrongWithin(k)' = WrongWithin(k)
  BY <1>4 DEF WrongWithin
<1>6. DOMAIN s = 1..Len(s) /\ DOMAIN Append(s, n) = 1..(Len(s) + 1) /\ Len(s) \in Nat
  BY <1>1, <1>3
<1>7. WrongWithin(m)' \subseteq WrongWithin(m) \cup {Len(s) + 1}
  <2> SUFFICES ASSUME NEW i \in WrongWithin(m)', i # Len(s) + 1 PROVE i \in WrongWithin(m)
    OBVIOUS
  <2>1. i \in 1..Len(s) /\ authEvents'[m][i] = s[i]
    BY <1>3, <1>4, <1>6 DEF WrongWithin
  <2>. QED
    BY <2>1, <1>6 DEF WrongWithin
<1>8. ASSUME out # "failure" PROVE WrongWithin(m)' = WrongWithin(m)
  <2>1. Len(s) + 1 \notin WrongWithin(m)'
    BY <1>1, <1>3, <1>4, <1>8 DEF WrongWithin
  <2>2. ASSUME NEW i \in WrongWithin(m) PROVE i \in WrongWithin(m)'
    <3>1. i \in 1..Len(s) /\ i \in 1..(Len(s) + 1)
      BY <1>6 DEF WrongWithin
    <3>2. authEvents'[m][i] = s[i]
      BY <1>3, <1>4, <3>1
    <3>. QED
      BY <1>4, <1>6, <3>1, <3>2 DEF WrongWithin
  <2>. QED
    BY <1>7, <2>1, <2>2
<1>. QED
  BY <1>4, <1>5, <1>7, <1>8

\* A request that is over tries no password any more.
LEMMA OverTries ==
    ASSUME GuessInv, NEW q \in Signers, SigningOver(q)
    PROVE /\ DOMAIN signing' = Signers
          /\ \A p \in Signers : signing'[p].op \in {"login", "bootstrap"} => signing'[p].email \in Emails
          /\ \A m \in Emails : Trying(m)' = Trying(m) \ {q}
<1>1. DOMAIN signing' = Signers /\ signing'[q].op = "none" /\ \A p \in Signers \ {q} : signing'[p] = signing[p]
  BY DEF SigningOver, NoSigning, GuessInv
<1>2. \A m \in Emails : Trying(m)' = Trying(m) \ {q}
  BY <1>1 DEF Trying
<1>3. \A p \in Signers : signing'[p].op \in {"login", "bootstrap"} => signing'[p].email \in Emails
  BY <1>1 DEF GuessInv
<1>. QED
  BY <1>1, <1>2, <1>3

LEMMA OpenTries ==
    ASSUME GuessInv, NEW q \in Signers, NEW r, signing[q] = NoSigning, signing' = [signing EXCEPT ![q] = r],
           r.op # "login"
    PROVE DOMAIN signing' = Signers /\ \A m \in Emails : Trying(m)' \subseteq Trying(m)
BY DEF GuessInv, Trying

LEMMA LoginKeeps == ASSUME GuessInv, NEW q \in Signers, NEW m \in Emails, BeginLogin(q, m) PROVE GuessInv'
<1>1. RecentFailures(m) = Cardinality(WrongWithin(m)) /\ CountWithin(m, {"failure"}) = Cardinality(WrongWithin(m))
  BY DEF RecentFailures, CountWithin, WrongWithin
<1>2. CASE LockedOut(m)
  <2>1. Record(m, "locked") /\ signing' = signing /\ signInTime' = signInTime
        /\ unexplained' = (unexplained \/ CountWithin(m, {"failure"}) < MAX_FAILURES)
    BY <1>2 DEF BeginLogin
  <2>2. unexplained' = FALSE
    <3>1. Cardinality(WrongWithin(m)) >= MAX_FAILURES
      BY <1>1, <1>2 DEF LockedOut
    <3>2. Cardinality(WrongWithin(m)) \in Nat /\ MAX_FAILURES \in Nat /\ unexplained = FALSE
      BY GuessesFinite DEF GuessInv
    <3>3. ~(CountWithin(m, {"failure"}) < MAX_FAILURES)
      BY <1>1, <3>1, <3>2
    <3>. QED
      BY <2>1, <3>2, <3>3
  <2>3. authEvents' \in [Emails -> Seq(GuessOutcome)] /\ \A k \in Emails : WrongWithin(k)' = WrongWithin(k)
    BY <2>1, RecordCounts
  <2>4. \A k \in Emails : Trying(k)' = Trying(k)
    BY <2>1 DEF Trying
  <2>. QED
    BY <2>1, <2>2, <2>3, <2>4 DEF GuessInv, GuessRoom
<1>3. CASE ~LockedOut(m)
  <2> PICK r : r = [op |-> "login", email |-> m]
    OBVIOUS
  <2>1. /\ signing[q] = NoSigning /\ signing' = [signing EXCEPT ![q] = r]
        /\ UNCHANGED <<authEvents, unexplained, signInTime>>
    BY <1>3 DEF BeginLogin, OpenSigning
  <2>2. /\ DOMAIN signing' = Signers /\ signing'[q] = r
        /\ \A p \in Signers \ {q} : signing'[p] = signing[p]
    BY <2>1 DEF GuessInv
  <2>3. \A k \in Emails : WrongWithin(k)' = WrongWithin(k)
    BY <2>1 DEF WrongWithin
  <2>4. ASSUME NEW k \in Emails PROVE (Cardinality(WrongWithin(k)) + Cardinality(Trying(k)) <= GuessRoom)'
    <3>1. CASE k # m
      <4>1. Trying(k)' \subseteq Trying(k)
        BY <2>2, <3>1 DEF Trying
      <4>. QED
        BY <2>3, <4>1, FewerGuesses
    <3>2. CASE k = m
      <4> PICK o : o = Trying(m)'
        OBVIOUS
      <4>1. o \subseteq Signers
        BY DEF Trying
      <4>2. Cardinality(o) \in Nat /\ Cardinality(o) <= Cardinality(Signers)
        BY <4>1, GuessesFinite, FS_Subset, FS_CardinalityType
      <4>3. Cardinality(WrongWithin(m)) < MAX_FAILURES
        BY <1>1, <1>3, GuessesFinite DEF LockedOut
      <4>4. Cardinality(WrongWithin(m)) + Cardinality(o) <= GuessRoom
        BY <4>2, <4>3, GuessesFinite DEF GuessRoom
      <4>. QED
        BY <2>3, <3>2, <4>4 DEF GuessRoom
    <3>. QED
      BY <3>1, <3>2
  <2>5. \A p \in Signers : signing'[p].op \in {"login", "bootstrap"} => signing'[p].email \in Emails
    BY <2>2 DEF GuessInv
  <2>. QED
    BY <2>1, <2>2, <2>4, <2>5 DEF GuessInv
<1>. QED
  BY <1>2, <1>3

LEMMA VerifyKeeps ==
    ASSUME GuessInv, NEW q \in Signers, NEW right \in BOOLEAN, VerifyPassword(q, right) PROVE GuessInv'
<1> PICK m : m = signing[q].email
  OBVIOUS
<1>1. m \in Emails /\ q \in Trying(m) /\ SigningOver(q) /\ signInTime' = signInTime /\ unexplained' = unexplained
  BY DEF VerifyPassword, GuessInv, Trying
<1> PICK out \in {"success", "failure"} : Record(m, out)
  BY DEF VerifyPassword
<1>2. /\ authEvents' \in [Emails -> Seq(GuessOutcome)]
      /\ \A k \in Emails \ {m} : WrongWithin(k)' = WrongWithin(k)
      /\ WrongWithin(m)' \subseteq WrongWithin(m) \cup {Len(authEvents[m]) + 1}
  BY <1>1, RecordCounts
<1>3. \A k \in Emails : Trying(k)' = Trying(k) \ {q}
  BY <1>1, OverTries
<1>4. ASSUME NEW k \in Emails, k # m PROVE (Cardinality(WrongWithin(k)) + Cardinality(Trying(k)) <= GuessRoom)'
  BY <1>2, <1>3, <1>4, FewerGuesses
<1>5. (Cardinality(WrongWithin(m)) + Cardinality(Trying(m)) <= GuessRoom)'
  <2> PICK a : a = WrongWithin(m)'
    OBVIOUS
  <2> PICK o : o = Trying(m)'
    OBVIOUS
  <2> PICK i : i = Len(authEvents[m]) + 1
    OBVIOUS
  <2>1. Cardinality(o) = Cardinality(Trying(m)) - 1
    BY <1>1, <1>3, GuessesFinite, FS_RemoveElement
  <2>2. IsFiniteSet(WrongWithin(m)) /\ Cardinality(WrongWithin(m)) \in Nat
    BY <1>1, GuessesFinite
  <2>3. /\ IsFiniteSet(WrongWithin(m) \cup {i})
        /\ Cardinality(WrongWithin(m) \cup {i})
            = IF i \in WrongWithin(m) THEN Cardinality(WrongWithin(m)) ELSE Cardinality(WrongWithin(m)) + 1
    BY <2>2, FS_AddElement
  <2>4. Cardinality(a) \in Nat /\ Cardinality(a) <= Cardinality(WrongWithin(m)) + 1
    BY <1>2, <2>2, <2>3, FS_Subset, FS_CardinalityType
  <2>5. Cardinality(WrongWithin(m)) + Cardinality(Trying(m)) <= GuessRoom /\ GuessRoom \in Int /\ Cardinality(Trying(m)) \in Nat
    <3>1. GuessRoom \in Int /\ Cardinality(Trying(m)) \in Nat
      BY <1>1, GuessesFinite DEF GuessRoom
    <3>. QED
      BY <1>1, <3>1 DEF GuessInv
  <2>6. Cardinality(a) + Cardinality(o) <= GuessRoom
    BY <2>1, <2>2, <2>4, <2>5
  <2>. QED
    BY <2>6 DEF GuessRoom
<1>. QED
  BY <1>1, <1>2, <1>4, <1>5, OverTries DEF GuessInv

\* A request that ends without a wrong password.
LEMMA BootstrapKeeps == ASSUME GuessInv, NEW q \in Signers, CommitBootstrap(q) PROVE GuessInv'
<1> PICK m : m = signing[q].email
  OBVIOUS
<1>1. m \in Emails /\ SigningOver(q) /\ signInTime' = signInTime /\ unexplained' = unexplained
  BY DEF CommitBootstrap, GuessInv
<1>2. Record(m, "locked") \/ Record(m, "success") \/ authEvents' = authEvents
  BY DEF CommitBootstrap
<1>3. authEvents' \in [Emails -> Seq(GuessOutcome)] /\ \A k \in Emails : WrongWithin(k)' = WrongWithin(k)
  <2>1. CASE authEvents' = authEvents
    BY <1>1, <2>1 DEF WrongWithin, GuessInv
  <2>2. CASE Record(m, "locked")
    BY <1>1, <2>2, RecordCounts
  <2>3. CASE Record(m, "success")
    BY <1>1, <2>3, RecordCounts
  <2>. QED
    BY <1>2, <2>1, <2>2, <2>3
<1>4. \A k \in Emails : Trying(k)' = Trying(k) \ {q}
  BY <1>1, OverTries
<1>5. \A k \in Emails : (Cardinality(WrongWithin(k)) + Cardinality(Trying(k)) <= GuessRoom)'
  BY <1>3, <1>4, FewerGuesses
<1>. QED
  BY <1>1, <1>3, <1>5, OverTries DEF GuessInv

\* Steps that try and record nothing.
LEMMA TickKeeps == ASSUME GuessInv, ClockTicks PROVE GuessInv'
<1>1. signInTime' = signInTime + 1 /\ UNCHANGED <<authEvents, signing, unexplained>> /\ signInTime \in Nat
  BY DEF ClockTicks, GuessInv
<1>2. ASSUME NEW k \in Emails PROVE WrongWithin(k)' \subseteq WrongWithin(k)
  <2> SUFFICES ASSUME NEW i \in WrongWithin(k)' PROVE i \in WrongWithin(k)
    OBVIOUS
  <2>1. i \in DOMAIN authEvents[k] /\ authEvents[k][i].outcome \in {"failure"}
        /\ authEvents[k][i].at + LockoutWindow >= signInTime + 1
    BY <1>1 DEF WrongWithin
  <2>2. authEvents[k] \in Seq(GuessOutcome)
    BY DEF GuessInv
  <2>3. authEvents[k][i] \in GuessOutcome
    BY <2>1, <2>2
  <2>4. authEvents[k][i].at \in Nat
    BY <2>3 DEF GuessOutcome
  <2>. QED
    BY <1>1, <2>1, <2>4, SignInAssumption DEF WrongWithin
<1>3. \A k \in Emails : Trying(k)' = Trying(k)
  BY <1>1 DEF Trying
<1>4. \A k \in Emails : (Cardinality(WrongWithin(k)) + Cardinality(Trying(k)) <= GuessRoom)'
  BY <1>2, <1>3, FewerGuesses
<1>. QED
  BY <1>1, <1>4 DEF GuessInv

LEMMA GuessElse ==
    ASSUME GuessInv, NEW q \in Signers,
           \/ \E m \in Emails : BeginBootstrap(q, m)
           \/ \E t \in 1..Len(sessions) : BeginLogoutAll(q, t)
           \/ CommitLogoutAll(q)
    PROVE GuessInv'
<1>1. UNCHANGED <<authEvents, unexplained, signInTime>>
  BY DEF BeginBootstrap, BeginLogoutAll, CommitLogoutAll
<1>2. \A k \in Emails : WrongWithin(k)' = WrongWithin(k)
  BY <1>1 DEF WrongWithin
<1>3. CASE CommitLogoutAll(q)
  <2>1. SigningOver(q)
    BY <1>3 DEF CommitLogoutAll
  <2>2. \A k \in Emails : Trying(k)' = Trying(k) \ {q}
    BY <2>1, OverTries
  <2>3. \A k \in Emails : (Cardinality(WrongWithin(k)) + Cardinality(Trying(k)) <= GuessRoom)'
    BY <1>2, <2>2, FewerGuesses
  <2>. QED
    BY <1>1, <2>1, <2>3, OverTries DEF GuessInv
<1>4. CASE \E m \in Emails : BeginBootstrap(q, m)
  <2> PICK m \in Emails : BeginBootstrap(q, m)
    BY <1>4
  <2> PICK r : r = [op |-> "bootstrap", email |-> m, addsWorkspace |-> ~workspace]
    OBVIOUS
  <2>1. r.op = "bootstrap" /\ r.email = m
    OBVIOUS
  <2>2. signing[q] = NoSigning /\ signing' = [signing EXCEPT ![q] = r]
    BY DEF BeginBootstrap, OpenSigning
  <2>3. DOMAIN signing' = Signers /\ \A k \in Emails : Trying(k)' \subseteq Trying(k)
    BY <2>1, <2>2, OpenTries
  <2>4. \A k \in Emails : (Cardinality(WrongWithin(k)) + Cardinality(Trying(k)) <= GuessRoom)'
    BY <1>2, <2>3, FewerGuesses
  <2>5. \A p \in Signers : signing'[p].op \in {"login", "bootstrap"} => signing'[p].email \in Emails
    BY <2>1, <2>2 DEF GuessInv
  <2>. QED
    BY <1>1, <2>3, <2>4, <2>5 DEF GuessInv
<1>5. CASE \E t \in 1..Len(sessions) : BeginLogoutAll(q, t)
  <2> PICK t \in 1..Len(sessions) : BeginLogoutAll(q, t)
    BY <1>5
  <2> PICK r : r = [op |-> "logoutAll", rows |-> Revoked(t), known |-> SessionsOf(sessions[t].email)]
    OBVIOUS
  <2>1. r.op = "logoutAll"
    OBVIOUS
  <2>2. signing[q] = NoSigning /\ signing' = [signing EXCEPT ![q] = r]
    BY DEF BeginLogoutAll, OpenSigning
  <2>3. DOMAIN signing' = Signers /\ \A k \in Emails : Trying(k)' \subseteq Trying(k)
    BY <2>1, <2>2, OpenTries
  <2>4. \A k \in Emails : (Cardinality(WrongWithin(k)) + Cardinality(Trying(k)) <= GuessRoom)'
    BY <1>2, <2>3, FewerGuesses
  <2>5. \A p \in Signers : signing'[p].op \in {"login", "bootstrap"} => signing'[p].email \in Emails
    BY <2>1, <2>2 DEF GuessInv
  <2>. QED
    BY <1>1, <2>3, <2>4, <2>5 DEF GuessInv
<1>. QED
  BY <1>3, <1>4, <1>5

LEMMA GuessStepInv == GuessInv /\ SignInNext => GuessInv'
<1> SUFFICES ASSUME GuessInv, SignInNext PROVE GuessInv'
  OBVIOUS
<1>1. ASSUME NEW t \in 1..Len(sessions), Logout(t) PROVE GuessInv'
  BY <1>1 DEF Logout, GuessInv, WrongWithin, Trying
<1>. QED
  BY <1>1, LoginKeeps, VerifyKeeps, BootstrapKeeps, TickKeeps, GuessElse DEF SignInNext

LEMMA GuessesHold == GuessInv => GuessesBounded /\ LockExplained
<1> SUFFICES ASSUME GuessInv PROVE GuessesBounded /\ LockExplained
  OBVIOUS
<1>1. ASSUME NEW m \in Emails PROVE RecentFailures(m) < MAX_FAILURES + Cardinality(Signers)
  <2>1. RecentFailures(m) = Cardinality(WrongWithin(m))
    BY DEF RecentFailures, CountWithin, WrongWithin
  <2>2. Cardinality(WrongWithin(m)) + Cardinality(Trying(m)) <= MAX_FAILURES - 1 + Cardinality(Signers)
    BY DEF GuessInv, GuessRoom
  <2>. QED
    BY <2>1, <2>2, GuessesFinite
<1>. QED
  BY <1>1 DEF GuessesBounded, LockExplained, GuessInv

--------------------------------------------------------------------------------
GuessSessionRow == [email : Emails, expires : Nat, revoked : BOOLEAN]

\* The inductive invariant: sessions that were ended are revoked, and a logout of
\* all revokes every session it will be answered for.
EndedInv ==
    /\ sessions \in Seq(GuessSessionRow)
    /\ \A t \in ended : t \in 1..Len(sessions) /\ sessions[t].revoked
    /\ DOMAIN signing = Signers /\ signInTime \in Nat
    /\ \A q \in Signers :
          /\ signing[q].op = "logoutAll" => signing[q].known \subseteq signing[q].rows /\ signing[q].known \subseteq 1..Len(sessions)
          /\ signing[q].op \in {"login", "bootstrap"} => signing[q].email \in Emails

LEMMA EndedInitInv == SignInInit => EndedInv
BY DEF SignInInit, EndedInv, NoSigning

LEMMA EndedStutters == EndedInv /\ UNCHANGED signInVars => EndedInv'
BY DEF EndedInv, signInVars

LEMMA SessionAdded ==
    ASSUME EndedInv, NEW m \in Emails, sessions' = Append(sessions, NewSession(m))
    PROVE /\ sessions' \in Seq(GuessSessionRow) /\ Len(sessions') = Len(sessions) + 1
          /\ \A t \in 1..Len(sessions) : sessions'[t] = sessions[t]
<1> PICK n : n = NewSession(m)
  OBVIOUS
<1>1. signInTime + SessionTtl \in Nat
  BY SignInAssumption DEF EndedInv
<1>2. n \in GuessSessionRow
  BY <1>1 DEF NewSession, GuessSessionRow
<1>. QED
  BY <1>2 DEF EndedInv

\* A request that opens or ends while sessions are at most added.
LEMMA EndedMoves ==
    ASSUME EndedInv, NEW q \in Signers, NEW r, signing' = [signing EXCEPT ![q] = r], ended' = ended, signInTime' = signInTime,
           \/ sessions' = sessions
           \/ \E m \in Emails : sessions' = Append(sessions, NewSession(m)),
           r.op = "logoutAll" => r.known \subseteq r.rows /\ r.known \subseteq 1..Len(sessions),
           r.op \in {"login", "bootstrap"} => r.email \in Emails
    PROVE EndedInv'
<1>1. /\ sessions' \in Seq(GuessSessionRow)
      /\ Len(sessions) \in Nat /\ Len(sessions') \in Nat /\ Len(sessions') >= Len(sessions)
      /\ \A t \in 1..Len(sessions) : sessions'[t] = sessions[t]
  <2>1. CASE sessions' = sessions
    BY <2>1 DEF EndedInv
  <2>2. CASE \E m \in Emails : sessions' = Append(sessions, NewSession(m))
    <3>1. Len(sessions) \in Nat
      BY DEF EndedInv
    <3> PICK m \in Emails : sessions' = Append(sessions, NewSession(m))
      BY <2>2
    <3>2. /\ sessions' \in Seq(GuessSessionRow) /\ Len(sessions') = Len(sessions) + 1
          /\ \A t \in 1..Len(sessions) : sessions'[t] = sessions[t]
      BY SessionAdded
    <3>. QED
      BY <3>1, <3>2
  <2>. QED
    BY <2>1, <2>2
<1>2. 1..Len(sessions) \subseteq 1..Len(sessions')
  BY <1>1
<1>3. DOMAIN signing' = Signers /\ signing'[q] = r /\ \A p \in Signers \ {q} : signing'[p] = signing[p]
  BY DEF EndedInv
<1>4. \A t \in ended' : t \in 1..Len(sessions') /\ sessions'[t].revoked
  BY <1>1, <1>2 DEF EndedInv
<1>5. \A p \in Signers :
          /\ signing'[p].op = "logoutAll" => signing'[p].known \subseteq signing'[p].rows /\ signing'[p].known \subseteq 1..Len(sessions')
          /\ signing'[p].op \in {"login", "bootstrap"} => signing'[p].email \in Emails
  BY <1>2, <1>3 DEF EndedInv
<1>. QED
  BY <1>1, <1>3, <1>4, <1>5 DEF EndedInv

LEMMA LogoutKeeps == ASSUME EndedInv, NEW t \in 1..Len(sessions), Logout(t) PROVE EndedInv'
<1> PICK r : r = [sessions[t] EXCEPT !.revoked = TRUE]
  OBVIOUS
<1>1. sessions \in Seq(GuessSessionRow) /\ sessions[t] \in GuessSessionRow
  BY DEF EndedInv
<1>2. r \in GuessSessionRow /\ r.revoked
  BY <1>1 DEF GuessSessionRow
<1>3. sessions' = [sessions EXCEPT ![t] = r] /\ ended' = ended \cup {t} /\ signing' = signing /\ signInTime' = signInTime
  BY DEF Logout
<1>4. sessions' \in Seq(GuessSessionRow) /\ Len(sessions') = Len(sessions) /\ sessions'[t] = r
      /\ \A k \in 1..Len(sessions) \ {t} : sessions'[k] = sessions[k]
  <2>1. DOMAIN sessions = 1..Len(sessions) /\ Len(sessions) \in Nat /\ \A k \in 1..Len(sessions) : sessions[k] \in GuessSessionRow
    BY <1>1
  <2>2. DOMAIN sessions' = 1..Len(sessions) /\ sessions'[t] = r /\ \A k \in 1..Len(sessions) \ {t} : sessions'[k] = sessions[k]
    BY <1>3, <2>1
  <2>3. sessions' \in [1..Len(sessions) -> GuessSessionRow]
    BY <1>2, <1>3, <2>1
  <2>4. sessions' \in Seq(GuessSessionRow) /\ Len(sessions') = Len(sessions)
    BY <2>1, <2>3
  <2>. QED
    BY <2>2, <2>4
<1>5. \A k \in ended' : k \in 1..Len(sessions') /\ sessions'[k].revoked
  BY <1>2, <1>3, <1>4 DEF EndedInv
<1>. QED
  BY <1>3, <1>4, <1>5 DEF EndedInv

LEMMA LogoutAllKeeps == ASSUME EndedInv, NEW q \in Signers, CommitLogoutAll(q) PROVE EndedInv'
<1> PICK c : c = signing[q]
  OBVIOUS
<1>1. /\ sessions' = [t \in DOMAIN sessions |-> [sessions[t] EXCEPT !.revoked = @ \/ t \in c.rows]]
      /\ ended' = ended \cup c.known /\ c.op = "logoutAll" /\ signInTime' = signInTime
      /\ signing' = [signing EXCEPT ![q] = NoSigning]
  BY DEF CommitLogoutAll, SigningOver
<1>2. sessions \in Seq(GuessSessionRow) /\ DOMAIN sessions = 1..Len(sessions) /\ Len(sessions) \in Nat
  BY DEF EndedInv
<1>3. ASSUME NEW t \in 1..Len(sessions)
      PROVE sessions'[t] \in GuessSessionRow /\ (sessions'[t].revoked <=> (sessions[t].revoked \/ t \in c.rows))
  <2> PICK r : r = sessions[t]
    OBVIOUS
  <2> PICK b : b = (r.revoked \/ t \in c.rows)
    OBVIOUS
  <2>1. r \in GuessSessionRow /\ b \in BOOLEAN
    <3>1. r \in GuessSessionRow
      BY <1>2
    <3>2. b \in BOOLEAN
      OBVIOUS
    <3>. QED
      BY <3>1, <3>2
  <2>2. sessions'[t] = [r EXCEPT !.revoked = b]
    BY <1>1, <1>2
  <2>3. [r EXCEPT !.revoked = b] \in GuessSessionRow /\ [r EXCEPT !.revoked = b].revoked = b
    BY <2>1 DEF GuessSessionRow
  <2>. QED
    BY <2>2, <2>3
<1>4. DOMAIN sessions' = 1..Len(sessions) /\ sessions' \in [1..Len(sessions) -> GuessSessionRow]
  BY <1>1, <1>2, <1>3
<1>5. sessions' \in Seq(GuessSessionRow) /\ Len(sessions') = Len(sessions)
  BY <1>2, <1>4
<1>6. c.known \subseteq c.rows /\ c.known \subseteq 1..Len(sessions)
  BY <1>1 DEF EndedInv
<1>7. \A t \in ended' : t \in 1..Len(sessions') /\ sessions'[t].revoked
  BY <1>1, <1>3, <1>5, <1>6 DEF EndedInv
<1>8. DOMAIN signing' = Signers /\ signing'[q].op = "none" /\ \A p \in Signers \ {q} : signing'[p] = signing[p]
  BY <1>1 DEF EndedInv, NoSigning
<1>9. \A p \in Signers :
          /\ signing'[p].op = "logoutAll" => signing'[p].known \subseteq signing'[p].rows /\ signing'[p].known \subseteq 1..Len(sessions')
          /\ signing'[p].op \in {"login", "bootstrap"} => signing'[p].email \in Emails
  BY <1>5, <1>8 DEF EndedInv
<1>. QED
  BY <1>1, <1>5, <1>7, <1>8, <1>9 DEF EndedInv

LEMMA EndedStepInv == EndedInv /\ SignInNext => EndedInv'
<1> SUFFICES ASSUME EndedInv, SignInNext PROVE EndedInv'
  OBVIOUS
<1>1. ASSUME NEW t \in 1..Len(sessions), Logout(t) PROVE EndedInv'
  BY <1>1, LogoutKeeps
<1>2. ASSUME NEW q \in Signers, CommitLogoutAll(q) PROVE EndedInv'
  BY <1>2, LogoutAllKeeps
<1>3. ASSUME NEW q \in Signers, NEW t \in 1..Len(sessions), BeginLogoutAll(q, t) PROVE EndedInv'
  <2> PICK r : r = [op |-> "logoutAll", rows |-> Revoked(t), known |-> SessionsOf(sessions[t].email)]
    OBVIOUS
  <2>1. r.op = "logoutAll" /\ r.known \subseteq r.rows /\ r.known \subseteq 1..Len(sessions)
    BY DEF Revoked, SessionsOf
  <2>2. signing' = [signing EXCEPT ![q] = r] /\ UNCHANGED <<sessions, ended, signInTime>>
    BY <1>3 DEF BeginLogoutAll, OpenSigning
  <2>. QED
    BY <2>1, <2>2, EndedMoves
<1>4. ASSUME NEW q \in Signers, NEW m \in Emails, BeginBootstrap(q, m) PROVE EndedInv'
  <2> PICK r : r = [op |-> "bootstrap", email |-> m, addsWorkspace |-> ~workspace]
    OBVIOUS
  <2>1. r.op = "bootstrap" /\ r.email = m
    OBVIOUS
  <2>2. signing' = [signing EXCEPT ![q] = r] /\ UNCHANGED <<sessions, ended, signInTime>>
    BY <1>4 DEF BeginBootstrap, OpenSigning
  <2>. QED
    BY <2>1, <2>2, EndedMoves
<1>5. ASSUME NEW q \in Signers, NEW m \in Emails, BeginLogin(q, m) PROVE EndedInv'
  <2>1. CASE LockedOut(m)
    BY <1>5, <2>1 DEF BeginLogin, EndedInv
  <2>2. CASE ~LockedOut(m)
    <3> PICK r : r = [op |-> "login", email |-> m]
      OBVIOUS
    <3>1. r.op = "login" /\ r.email = m
      OBVIOUS
    <3>2. signing' = [signing EXCEPT ![q] = r] /\ UNCHANGED <<sessions, ended, signInTime>>
      BY <1>5, <2>2 DEF BeginLogin, OpenSigning
    <3>. QED
      BY <3>1, <3>2, EndedMoves
  <2>. QED
    BY <2>1, <2>2
<1>6. ASSUME NEW q \in Signers, NEW right \in BOOLEAN, VerifyPassword(q, right) PROVE EndedInv'
  <2>1. signing[q].email \in Emails
    BY <1>6 DEF VerifyPassword, EndedInv
  <2>2. \/ sessions' = sessions
        \/ \E m \in Emails : sessions' = Append(sessions, NewSession(m))
    BY <1>6, <2>1 DEF VerifyPassword
  <2>3. signing' = [signing EXCEPT ![q] = NoSigning] /\ UNCHANGED <<ended, signInTime>>
    BY <1>6 DEF VerifyPassword, SigningOver
  <2>. QED
    BY <2>2, <2>3, EndedMoves DEF NoSigning
<1>7. ASSUME NEW q \in Signers, CommitBootstrap(q) PROVE EndedInv'
  <2>1. signing[q].email \in Emails
    BY <1>7 DEF CommitBootstrap, EndedInv
  <2>2. \/ sessions' = sessions
        \/ \E m \in Emails : sessions' = Append(sessions, NewSession(m))
    BY <1>7, <2>1 DEF CommitBootstrap
  <2>3. signing' = [signing EXCEPT ![q] = NoSigning] /\ UNCHANGED <<ended, signInTime>>
    BY <1>7 DEF CommitBootstrap, SigningOver
  <2>. QED
    BY <2>2, <2>3, EndedMoves DEF NoSigning
<1>8. CASE ClockTicks
  BY <1>8 DEF ClockTicks, EndedInv
<1>. QED
  BY <1>1, <1>2, <1>3, <1>4, <1>5, <1>6, <1>7, <1>8 DEF SignInNext

LEMMA EndedHolds == EndedInv => EndedStays
BY DEF EndedInv, EndedStays, Resolves

--------------------------------------------------------------------------------
(* Chat sessions (ChatSessions) *)

ChatSessionRow == [exists : BOOLEAN, title : {"new", "typed", "auto"}, count : Nat]
AppendCall == [op : {"append"}, seq : Nat, count : Nat, seen : SUBSET Nat, was : {"new", "typed", "auto"}, title : {"auto", "kept"}]
ClearCall == [op : {"clear"}, seen : SUBSET Nat, count : Nat]
RenameCall == [op : {"rename"}]

\* What a request has read is what the conversation was then: the counter it knows is that
\* of the messages it saw, and it makes a title only of one without.
ReadThen(c) ==
    /\ IsFiniteSet(c.seen)
    /\ session.exists /\ "count" \notin interleaved => c.count = Cardinality(c.seen)

ChatInv ==
    /\ session \in ChatSessionRow /\ DOMAIN chatting = Chatters /\ chattings \in Nat
    /\ lines \subseteq 1..chattings /\ IsFiniteSet(lines)
    /\ \A q \in Chatters : chatting[q] # NoChatting => chatting[q] \in AppendCall \cup ClearCall \cup RenameCall
    /\ \A q \in Chatters : chatting[q].op = "append" =>
          /\ chatting[q].seq \in 1..chattings /\ chatting[q].seq \notin lines
          /\ chatting[q].title # "kept" => chatting[q].was = "new"
    /\ \A q, o \in Chatters : (q # o /\ chatting[q].op = "append" /\ chatting[o].op = "append") => chatting[q].seq # chatting[o].seq
    /\ \A q \in Chatters : chatting[q].op \in {"append", "clear"} => ReadThen(chatting[q])
    /\ CountAgrees /\ TitleStays

LEMMA ChatInitInv == ChatInit => ChatInv
<1> SUFFICES ASSUME ChatInit PROVE ChatInv
  OBVIOUS
<1>1. session \in ChatSessionRow /\ session.count = 0 /\ session.title = "new" /\ lines = {} /\ ~typed
  BY DEF ChatInit, ChatSessionRow
<1>2. IsFiniteSet({}) /\ Cardinality({}) = 0
  BY FS_EmptySet
<1>3. \A q \in Chatters : chatting[q] = NoChatting /\ chatting[q].op = "none"
  BY DEF ChatInit, NoChatting
<1>4. DOMAIN chatting = Chatters /\ chattings = 0
  BY DEF ChatInit
<1>. QED
  BY <1>1, <1>2, <1>3, <1>4 DEF ChatInv, CountAgrees, TitleStays

LEMMA ChatStutters == ChatInv /\ UNCHANGED chatVars => ChatInv'
BY DEF ChatInv, chatVars, CountAgrees, TitleStays, ReadThen

LEMMA ChatHolds == ChatInv => TitleStays /\ CountAgrees
BY DEF ChatInv

\* What is known of a request that is open.
LEMMA ChatCalls ==
    ASSUME ChatInv, NEW q \in Chatters
    PROVE /\ chatting[q].op = "append" => chatting[q] \in AppendCall
          /\ chatting[q].op = "clear" => chatting[q] \in ClearCall
<1>1. CASE chatting[q] = NoChatting
  BY <1>1 DEF NoChatting
<1>2. CASE chatting[q] # NoChatting
  BY <1>2 DEF ChatInv, AppendCall, ClearCall, RenameCall
<1>. QED
  BY <1>1, <1>2

LEMMA ChatBeginKeeps ==
    ASSUME ChatInv, NEW q \in Chatters, NEW c \in AppendCall \cup ClearCall \cup RenameCall, Beginning(q, c),
           c.op = "append" => c.seq = chattings + 1 /\ (c.title # "kept" => c.was = "new"),
           c.op \in {"append", "clear"} => c.seen = lines /\ c.count = session.count
    PROVE ChatInv'
<1>1. /\ session.exists /\ chattings' = chattings + 1 /\ chattings \in Nat
      /\ DOMAIN chatting' = Chatters /\ chatting'[q] = c /\ \A o \in Chatters \ {q} : chatting'[o] = chatting[o]
      /\ UNCHANGED <<session, lines, typed, interleaved>>
  BY DEF Beginning, ChatInv
<1>2. lines' \subseteq 1..chattings' /\ IsFiniteSet(lines)' /\ \A k \in 1..chattings : k \in 1..chattings' /\ k # chattings'
  BY <1>1 DEF ChatInv
<1>3. c.op = "append" => c.seq \in 1..chattings' /\ c.seq \notin lines
  BY <1>1 DEF ChatInv
<1>4. ASSUME NEW o \in Chatters
      PROVE /\ chatting'[o] # NoChatting => chatting'[o] \in AppendCall \cup ClearCall \cup RenameCall
            /\ chatting'[o].op = "append" =>
                  /\ chatting'[o].seq \in 1..chattings' /\ chatting'[o].seq \notin lines'
                  /\ chatting'[o].title # "kept" => chatting'[o].was = "new"
            /\ chatting'[o].op \in {"append", "clear"} => ReadThen(chatting[o])'
  <2>1. CASE o = q
    <3>1. c.op \in {"append", "clear"} => ReadThen(chatting[o])'
      BY <1>1, <1>2, <2>1 DEF ChatInv, CountAgrees, ReadThen
    <3>. QED
      BY <1>1, <1>3, <2>1, <3>1
  <2>2. CASE o # q
    <3>1. chatting[o].op \in {"append", "clear"} => ReadThen(chatting[o])
      BY DEF ChatInv
    <3>2. chatting[o].op \in {"append", "clear"} => ReadThen(chatting[o])'
      BY <1>1, <2>2, <3>1 DEF ReadThen
    <3>. QED
      BY <1>1, <1>2, <2>2, <3>2 DEF ChatInv
  <2>. QED
    BY <2>1, <2>2
<1>5. \A p, o \in Chatters : (p # o /\ chatting'[p].op = "append" /\ chatting'[o].op = "append") => chatting'[p].seq # chatting'[o].seq
  BY <1>1, <1>2 DEF ChatInv
<1>6. CountAgrees' /\ TitleStays'
  BY <1>1 DEF ChatInv, CountAgrees, TitleStays
<1>7. session' \in ChatSessionRow /\ chattings' \in Nat
  BY <1>1 DEF ChatInv
<1>. QED
  BY <1>1, <1>2, <1>4, <1>5, <1>6, <1>7 DEF ChatInv

\* A request ends, and those left open are as they were.
LEMMA ChatEndKeeps ==
    ASSUME ChatInv, NEW q \in Chatters, chatting' = [chatting EXCEPT ![q] = NoChatting], chattings' = chattings,
           session' \in ChatSessionRow, session'.exists => session.exists, interleaved \subseteq interleaved',
           IsFiniteSet(lines'),
           lines' \subseteq lines \cup (IF chatting[q].op = "append" THEN {chatting[q].seq} ELSE {}),
           CountAgrees', TitleStays'
    PROVE ChatInv'
<1>1. /\ DOMAIN chatting' = Chatters /\ chatting'[q] = NoChatting /\ \A o \in Chatters \ {q} : chatting'[o] = chatting[o]
  BY DEF ChatInv
<1>2. NoChatting.op = "none"
  BY DEF NoChatting
<1>3. \A o \in Chatters : chatting'[o].op = "append" => o # q /\ chatting[o].op = "append" /\ chatting'[o] = chatting[o] /\ chatting[o].seq \notin lines'
  BY <1>1, <1>2 DEF ChatInv
<1>4. lines' \subseteq 1..chattings'
  BY DEF ChatInv
<1>5. ASSUME NEW o \in Chatters, chatting'[o].op \in {"append", "clear"} PROVE ReadThen(chatting[o])'
  BY <1>1, <1>2, <1>5 DEF ReadThen, ChatInv
<1>6. \A o \in Chatters : chatting'[o] # NoChatting => chatting'[o] \in AppendCall \cup ClearCall \cup RenameCall
  BY <1>1 DEF ChatInv
<1>7. \A o \in Chatters : chatting'[o].op = "append" =>
          /\ chatting'[o].seq \in 1..chattings' /\ chatting'[o].seq \notin lines'
          /\ chatting'[o].title # "kept" => chatting'[o].was = "new"
  BY <1>3 DEF ChatInv
<1>8. \A p, o \in Chatters : (p # o /\ chatting'[p].op = "append" /\ chatting'[o].op = "append") => chatting'[p].seq # chatting'[o].seq
  BY <1>3 DEF ChatInv
<1>. QED
  BY <1>1, <1>4, <1>5, <1>6, <1>7, <1>8 DEF ChatInv

LEMMA ChatAppendKeeps == ASSUME ChatInv, NEW q \in Chatters, CommitAppend(q) PROVE ChatInv'
<1> PICK c : c = chatting[q]
  OBVIOUS
<1>1. /\ c \in AppendCall /\ c.op = "append" /\ session.exists /\ lines' = lines \cup {c.seq}
      /\ interleaved' = interleaved \cup (IF c.seen # lines THEN {"count"} ELSE {}) \cup (IF c.was # session.title THEN {"title"} ELSE {})
      /\ typed' = typed /\ c.seq \notin lines /\ ReadThen(c) /\ (c.title # "kept" => c.was = "new")
  BY ChatCalls DEF CommitAppend, Ending, ChatInv
<1> PICK t : t = IF c.title = "kept" THEN session.title ELSE c.title
  OBVIOUS
<1>2. session \in ChatSessionRow /\ c.count \in Nat /\ t \in {"new", "typed", "auto"}
  BY <1>1 DEF ChatInv, AppendCall, ChatSessionRow
<1> PICK n : n = [session EXCEPT !.count = c.count + 1, !.title = t]
  OBVIOUS
<1>3. session' = n
  BY <1>2 DEF CommitAppend, ChatSessionRow
<1>4. n \in ChatSessionRow /\ n.exists = session.exists /\ n.count = c.count + 1 /\ n.title = t
  <2> PICK k : k = c.count + 1
    OBVIOUS
  <2>1. k \in Nat
    BY <1>2
  <2>2. n = [session EXCEPT !.count = k, !.title = t]
    OBVIOUS
  <2>3. n = [exists |-> session.exists, title |-> t, count |-> k]
    BY <1>2, <2>2 DEF ChatSessionRow
  <2>. QED
    BY <1>2, <2>1, <2>3 DEF ChatSessionRow
<1>5. IsFiniteSet(lines') /\ Cardinality(lines') = Cardinality(lines) + 1
  BY <1>1, FS_AddElement DEF ChatInv
<1>6. CountAgrees'
  BY <1>1, <1>3, <1>4, <1>5 DEF CountAgrees, ReadThen
<1>7. TitleStays'
  BY <1>1, <1>3, <1>4 DEF TitleStays, ChatInv
<1>. QED
  BY <1>1, <1>3, <1>4, <1>5, <1>6, <1>7, ChatEndKeeps DEF CommitAppend, Ending

LEMMA ChatClearKeeps == ASSUME ChatInv, NEW q \in Chatters, CommitClear(q) PROVE ChatInv'
<1> PICK c : c = chatting[q]
  OBVIOUS
<1>1. /\ c \in ClearCall /\ c.op = "clear" /\ session.exists /\ lines' = lines \ c.seen
      /\ interleaved' = interleaved \cup (IF c.seen # lines THEN {"count"} ELSE {})
      /\ typed' = typed /\ ReadThen(c)
  BY ChatCalls DEF CommitClear, Ending, ChatInv
<1> PICK k : k = IF c.count = 0 THEN session.count ELSE 0
  OBVIOUS
<1>2. session \in ChatSessionRow /\ c.count \in Nat /\ k \in Nat
  BY <1>1 DEF ChatInv, ClearCall, ChatSessionRow
<1> PICK n : n = [session EXCEPT !.count = k]
  OBVIOUS
<1>3. session' = n
  BY <1>2 DEF CommitClear, ChatSessionRow, CountAfterClear
<1>4. n \in ChatSessionRow /\ n.exists = session.exists /\ n.count = k /\ n.title = session.title
  BY <1>2 DEF ChatSessionRow
<1>5. IsFiniteSet(lines')
  BY <1>1, FS_Difference DEF ChatInv
<1>6. CountAgrees'
  <2> SUFFICES ASSUME "count" \notin interleaved' PROVE k = Cardinality(lines')
    BY <1>3, <1>4 DEF CountAgrees
  <2>1. c.seen = lines /\ "count" \notin interleaved
    BY <1>1
  <2>2. lines' = {} /\ Cardinality({}) = 0
    BY <1>1, <2>1, FS_EmptySet
  <2>3. c.count = Cardinality(lines) /\ session.count = Cardinality(lines)
    BY <1>1, <2>1 DEF ReadThen, ChatInv, CountAgrees
  <2>. QED
    BY <2>2, <2>3
<1>7. TitleStays'
  BY <1>1, <1>3, <1>4 DEF TitleStays, ChatInv
<1>. QED
  BY <1>1, <1>3, <1>4, <1>5, <1>6, <1>7, ChatEndKeeps DEF CommitClear, Ending

LEMMA ChatRenameKeeps == ASSUME ChatInv, NEW q \in Chatters, CommitRename(q) PROVE ChatInv'
<1> PICK n : n = [session EXCEPT !.title = "typed"]
  OBVIOUS
<1>1. session \in ChatSessionRow /\ session' = n /\ UNCHANGED <<lines, interleaved, chattings>> /\ chatting[q].op = "rename"
      /\ chatting' = [chatting EXCEPT ![q] = NoChatting] /\ session.exists /\ IsFiniteSet(lines)
  BY DEF CommitRename, Ending, ChatInv
<1>2. n \in ChatSessionRow /\ n.exists = session.exists /\ n.count = session.count /\ n.title = "typed"
  BY <1>1 DEF ChatSessionRow
<1>3. CountAgrees' /\ TitleStays'
  BY <1>1, <1>2 DEF ChatInv, CountAgrees, TitleStays
<1>. QED
  BY <1>1, <1>2, <1>3, ChatEndKeeps

LEMMA ChatFailKeeps == ASSUME ChatInv, NEW q \in Chatters, ChatFails(q) PROVE ChatInv'
<1>1. UNCHANGED <<session, lines, typed, interleaved, chattings>> /\ chatting' = [chatting EXCEPT ![q] = NoChatting]
      /\ session \in ChatSessionRow /\ IsFiniteSet(lines)
  BY DEF ChatFails, ChatInv
<1>2. CountAgrees' /\ TitleStays'
  BY <1>1 DEF ChatInv, CountAgrees, TitleStays
<1>. QED
  BY <1>1, <1>2, ChatEndKeeps

LEMMA ChatDeleteKeeps == ASSUME ChatInv, NEW q \in Chatters, DeleteSession(q) PROVE ChatInv'
<1> PICK n : n = [session EXCEPT !.exists = FALSE]
  OBVIOUS
<1>1. session' = n /\ lines' = {} /\ chattings' = chattings + 1 /\ UNCHANGED <<chatting, typed, interleaved>>
      /\ session \in ChatSessionRow /\ chattings \in Nat /\ DOMAIN chatting = Chatters
  BY DEF DeleteSession, ChatInv
<1>2. n \in ChatSessionRow /\ n.exists = FALSE /\ n.title = session.title
  BY <1>1 DEF ChatSessionRow
<1>3. IsFiniteSet({}) /\ \A k \in 1..chattings : k \in 1..chattings'
  BY <1>1, FS_EmptySet
<1>4. ASSUME NEW o \in Chatters, chatting'[o].op \in {"append", "clear"} PROVE ReadThen(chatting[o])'
  BY <1>1, <1>2, <1>4 DEF ReadThen, ChatInv
<1>5. CountAgrees' /\ TitleStays'
  BY <1>1, <1>2 DEF ChatInv, CountAgrees, TitleStays
<1>6. \A o \in Chatters : chatting'[o].op = "append" =>
          /\ chatting'[o].seq \in 1..chattings' /\ chatting'[o].seq \notin lines'
          /\ chatting'[o].title # "kept" => chatting'[o].was = "new"
  BY <1>1, <1>3 DEF ChatInv
<1>7. \A o \in Chatters : chatting'[o] # NoChatting => chatting'[o] \in AppendCall \cup ClearCall \cup RenameCall
  BY <1>1 DEF ChatInv
<1>8. \A p, o \in Chatters : (p # o /\ chatting'[p].op = "append" /\ chatting'[o].op = "append") => chatting'[p].seq # chatting'[o].seq
  BY <1>1 DEF ChatInv
<1>. QED
  BY <1>1, <1>2, <1>3, <1>4, <1>5, <1>6, <1>7, <1>8 DEF ChatInv

LEMMA ChatBeginsKeep ==
    ASSUME ChatInv, NEW q \in Chatters, (\E role \in {"user", "assistant"} : BeginAppend(q, role)) \/ BeginRename(q) \/ BeginClear(q)
    PROVE ChatInv'
<1>0. session \in ChatSessionRow /\ session.count \in Nat /\ session.title \in {"new", "typed", "auto"} /\ lines \in SUBSET Nat /\ chattings + 1 \in Nat
  BY DEF ChatInv, ChatSessionRow
<1>1. ASSUME NEW role \in {"user", "assistant"}, BeginAppend(q, role) PROVE ChatInv'
  <2> PICK c : c = [op |-> "append", seq |-> chattings + 1, count |-> session.count, seen |-> lines, was |-> session.title,
                    title |-> TitleAfter(role, session.title)]
    OBVIOUS
  <2>1. Beginning(q, c)
    BY <1>1 DEF BeginAppend
  <2>2. c \in AppendCall
    BY <1>0 DEF AppendCall, TitleAfter
  <2>3. c.op = "append" /\ c.seq = chattings + 1 /\ c.seen = lines /\ c.count = session.count /\ (c.title # "kept" => c.was = "new")
    BY DEF TitleAfter
  <2>. QED
    BY <2>1, <2>2, <2>3, ChatBeginKeeps
<1>2. ASSUME BeginRename(q) PROVE ChatInv'
  <2> PICK c : c = [op |-> "rename"]
    OBVIOUS
  <2>1. Beginning(q, c) /\ c \in RenameCall /\ c.op = "rename"
    BY <1>2 DEF BeginRename, RenameCall
  <2>. QED
    BY <2>1, ChatBeginKeeps
<1>3. ASSUME BeginClear(q) PROVE ChatInv'
  <2> PICK c : c = [op |-> "clear", seen |-> lines, count |-> session.count]
    OBVIOUS
  <2>1. Beginning(q, c) /\ c \in ClearCall /\ c.op = "clear" /\ c.seen = lines /\ c.count = session.count
    BY <1>0, <1>3 DEF BeginClear, ClearCall
  <2>. QED
    BY <2>1, ChatBeginKeeps
<1>. QED
  BY <1>1, <1>2, <1>3

LEMMA ChatStepInv == ChatInv /\ ChatNext => ChatInv'
BY ChatBeginsKeep, ChatAppendKeeps, ChatClearKeeps, ChatRenameKeeps, ChatFailKeeps, ChatDeleteKeeps DEF ChatNext

--------------------------------------------------------------------------------
(* What a prepared Slack message tells (SlackContext) *)

\* What a request was opened with: the sources that were granted and connected, the audience
\* a person has asked for, and an event of a person that is not old.
RequestFine(r) ==
    /\ r.allowed = AllowedSources(r.stored, r.connected) /\ r.text \in Said
    /\ r.asked \in Audiences => r.audience = r.asked
    /\ r.asked \in Audiences \cup {"none"}
    /\ r.op = "event" => r.event.by = "person" /\ r.event.fresh

\* What the draft prepared last was made from and tells.
DraftFine == RecipientProtected /\ OnlyGranted /\ EvidenceOnTopic /\ LinesAreEvidence

ContextInv ==
    /\ DOMAIN composing = Composers
    /\ \A q \in Composers : composing[q] = NotComposing \/ RequestFine(composing[q])
    /\ DraftFine

LEMMA ContextHolds == ContextInv => RecipientProtected /\ OnlyGranted /\ EvidenceOnTopic /\ LinesAreEvidence
BY DEF ContextInv, DraftFine

LEMMA ContextInitInv == ContextInit => ContextInv
<1> SUFFICES ASSUME ContextInit PROVE ContextInv
  OBVIOUS
<1>1. composing = [q \in Composers |-> NotComposing] /\ composed = NotComposed
  BY DEF ContextInit
<1>2. DraftFine
  BY <1>1 DEF DraftFine, RecipientProtected, OnlyGranted, EvidenceOnTopic, LinesAreEvidence, Composed
<1>. QED
  BY <1>1, <1>2 DEF ContextInv

LEMMA FineStutters == ASSUME DraftFine, composed' = composed PROVE DraftFine'
BY DEF DraftFine, RecipientProtected, OnlyGranted, EvidenceOnTopic, LinesAreEvidence, Composed, DraftFor

LEMMA ContextStutters == ContextInv /\ UNCHANGED contextVars => ContextInv'
<1> SUFFICES ASSUME ContextInv, UNCHANGED contextVars PROVE ContextInv'
  OBVIOUS
<1>1. composed' = composed /\ composing' = composing
  BY DEF contextVars
<1>2. DraftFine'
  BY <1>1, FineStutters DEF ContextInv
<1>. QED
  BY <1>1, <1>2 DEF ContextInv, RequestFine

\* A request opens with what is stored at that time.
LEMMA ContextLoads ==
    ASSUME ContextInv, NEW q \in Composers, NEW op, NEW text \in Said, NEW e, NEW as, NEW to \in Audiences \cup {"none"},
           NEW history, Load(q, op, text, e, as, to, history), to \in Audiences => as = to,
           op = "event" => e.by = "person" /\ e.fresh
    PROVE  ContextInv'
<1> PICK h : h = IF preference.previous THEN history ELSE <<>>
  OBVIOUS
<1> PICK r : r = [op |-> op, text |-> text, event |-> e, audience |-> as, asked |-> to,
                  was |-> audience, history |-> h,
                  stored |-> preference.sources, connected |-> linked,
                  allowed |-> AllowedSources(preference.sources, linked),
                  protect |-> preference.protect]
  OBVIOUS
<1>1. composing' = [composing EXCEPT ![q] = r] /\ composed' = composed
  BY DEF Load
<1>2. RequestFine(r)
  BY DEF RequestFine
<1>3. DOMAIN composing' = Composers /\ composing'[q] = r /\ \A p \in Composers \ {q} : composing'[p] = composing[p]
  BY <1>1 DEF ContextInv
<1>4. \A p \in Composers : composing'[p] = NotComposing \/ RequestFine(composing'[p])
  BY <1>2, <1>3 DEF ContextInv
<1>5. DraftFine'
  BY <1>1, FineStutters DEF ContextInv
<1>. QED
  BY <1>1, <1>3, <1>4, <1>5 DEF ContextInv, RequestFine

\* The first rows are some of them.
LEMMA FirstAreSome == ASSUME NEW some, NEW n PROVE FirstRows(some, n) \subseteq some
BY DEF FirstRows

\* The facts of a source are internal, about the project the conversation is about and, if
\* it is about none, what the message names.
LEMMA ListTells ==
    ASSUME NEW kind, NEW p, NEW text, NEW f \in ListFacts(kind, p, text)
    PROVE  /\ f.from = kind /\ f.who = "internal"
           /\ p # NoProject => f.about = p
           /\ p = NoProject => text.titles # {}
<1>1. PICK i \in FirstRows(Scoped(NewestOf(kind, p), p, text), Told[kind]) :
            f = Fact(kind, Records[i].of, "internal", i)
  BY DEF ListFacts, RowFacts
<1>2. i \in Scoped(NewestOf(kind, p), p, text)
  BY <1>1, FirstAreSome
<1>3. i \in NewestOf(kind, p) /\ (p = NoProject => text.titles # {})
  BY <1>2 DEF Scoped
<1>4. p # NoProject => Records[i].of = p
  BY <1>3, FirstAreSome DEF NewestOf
<1>. QED
  BY <1>1, <1>3, <1>4 DEF Fact

LEMMA RunTells ==
    ASSUME NEW p, NEW f \in GithubFacts(p)
    PROVE  f.from = "github" /\ f.who = "internal" /\ (p # NoProject => f.about = p)
<1>1. PICK i \in NewestOf("github", p) : f = Fact("github", Records[i].of, "internal", i)
  BY DEF GithubFacts, RowFacts
<1>2. p # NoProject => Records[i].of = p
  BY <1>1, FirstAreSome DEF NewestOf
<1>. QED
  BY <1>1, <1>2 DEF Fact

\* What is gathered: of the sources allowed, with a word on who may hear it.
Gathered(f, r, p) ==
    /\ f.who \in {"anyone", "internal", "restricted"}
    /\ \/ f.from = "conversation"
       \/ f.from = "projects" /\ p # NoProject
       \/ f.from \in {"tasks", "documents", "github", "email"} /\ f.from \in r.allowed
    /\ (f.from # "conversation" /\ p # NoProject) => f.about = p
    /\ (f.from \in {"tasks", "documents"} /\ p = NoProject) => r.text.titles # {}

LEMMA AssembleGathers == ASSUME NEW r, NEW p, NEW f \in Assemble(r, p) PROVE Gathered(f, r, p)
<1>1. CASE f \in ThreadFacts(r.history)
  BY <1>1 DEF ThreadFacts, Fact, Gathered
<1>2. CASE f \in ProjectFacts(p)
  BY <1>2 DEF ProjectFacts, Fact, Gathered
<1>3. CASE "tasks" \in r.allowed /\ f \in ListFacts("tasks", p, r.text)
  <2>1. f.from = "tasks" /\ f.who = "internal" /\ (p # NoProject => f.about = p) /\ (p = NoProject => r.text.titles # {})
    BY <1>3, ListTells
  <2>. QED
    BY <1>3, <2>1 DEF Gathered
<1>4. CASE "documents" \in r.allowed /\ f \in ListFacts("documents", p, r.text)
  <2>1. f.from = "documents" /\ f.who = "internal" /\ (p # NoProject => f.about = p) /\ (p = NoProject => r.text.titles # {})
    BY <1>4, ListTells
  <2>. QED
    BY <1>4, <2>1 DEF Gathered
<1>5. CASE "github" \in r.allowed /\ f \in GithubFacts(p)
  <2>1. f.from = "github" /\ f.who = "internal" /\ (p # NoProject => f.about = p)
    BY <1>5, RunTells
  <2>. QED
    BY <1>5, <2>1 DEF Gathered
<1>6. CASE "email" \in r.allowed /\ f \in EmailFacts(p)
  BY <1>6 DEF EmailFacts, Fact, Gathered
<1>. QED
  BY <1>1, <1>2, <1>3, <1>4, <1>5, <1>6 DEF Assemble

\* The project of a conversation is one that it names or hints at.
LEMMA ProjectNamed ==
    ASSUME NEW text \in Said, NEW p \in ProjectFor(text)
    PROVE  /\ text.named # {} => p \in text.named /\ p # NoProject
           /\ text.named = {} /\ text.hinted = {} => p = NoProject
<1>1. text.named \cup text.hinted \subseteq Projects /\ NoProject \notin Projects
  BY ContextAssumption
<1>. QED
  BY <1>1 DEF ProjectFor, Longest

\* A draft that is made of facts gathered this way, and of those that may be heard.
LEMMA DraftSound ==
    ASSUME NEW r, RequestFine(r), NEW p \in IF "projects" \in r.allowed THEN ProjectFor(r.text) ELSE {NoProject},
           NEW facts, \A f \in facts : Gathered(f, r, p),
           composed'.op = r.op, composed'.request = r, composed'.facts = facts, composed'.kept = Kept(facts, r),
           composed'.withheld = Withheld(facts, r), NEW kind, composed'.lines = Lines(Kept(facts, r), kind)
    PROVE  DraftFine'
<1>1. \A f \in facts : /\ f.who \in {"anyone", "internal", "restricted"}
                       /\ \/ f.from = "conversation"
                          \/ f.from = "projects" /\ p # NoProject
                          \/ f.from \in {"tasks", "documents", "github", "email"} /\ f.from \in r.allowed
                       /\ (f.from # "conversation" /\ p # NoProject) => f.about = p
                       /\ (f.from \in {"tasks", "documents"} /\ p = NoProject) => r.text.titles # {}
  BY DEF Gathered
<1>2. p # NoProject => "projects" \in r.allowed
  OBVIOUS
<1>3. \A s \in r.allowed : s = "conversation" \/ s \in r.stored
  BY DEF RequestFine, AllowedSources, NormalSources
<1>4. /\ "github" \in r.allowed => "github" \in r.connected
      /\ "email" \in r.allowed => "email" \in r.connected
  BY DEF RequestFine, AllowedSources, Requires
<1>5. RecipientProtected'
  <2>1. r.asked # "none" => r.audience = r.asked
    BY DEF RequestFine
  <2>2. ASSUME NEW f \in Kept(facts, r), r.protect, r.asked # "none"
        PROVE  /\ r.asked = "external" => f.who = "anyone"
               /\ r.asked = "internal" => f.who # "restricted"
    <3>1. f \in facts /\ MayHear(f, r.asked)
      BY <2>1, <2>2 DEF Kept
    <3>2. f.who \in {"anyone", "internal", "restricted"}
      BY <1>1, <3>1
    <3>3. CASE r.asked = "external"
      BY <3>1, <3>2, <3>3 DEF MayHear, Rank, Limit
    <3>4. CASE r.asked = "internal"
      BY <3>1, <3>2, <3>4 DEF MayHear, Rank, Limit
    <3>. QED
      BY <3>3, <3>4
  <2>3. ASSUME NEW f \in facts \ Kept(facts, r), r.protect
        PROVE  [from |-> f.from, who |-> f.who] \in Withheld(facts, r)
    <3>1. r.protect /\ ~MayHear(f, r.audience)
      BY <2>3 DEF Kept
    <3>. QED
      BY <3>1 DEF Withheld
  <2>. QED
    BY <2>2, <2>3 DEF RecipientProtected, Composed, DraftFor
<1>6. OnlyGranted'
  <2> SUFFICES ASSUME NEW f \in facts, f.from # "conversation"
               PROVE  f.from \in r.stored /\ (f.from \in {"github", "email"} => f.from \in r.connected)
    BY DEF OnlyGranted, Composed, DraftFor
  <2>1. f.from \in r.allowed
    BY <1>1, <1>2
  <2>. QED
    BY <1>3, <1>4, <2>1
<1>7. EvidenceOnTopic'
  <2>1. r.text \in Said
    BY DEF RequestFine
  <2>2. "projects" \in r.stored => "projects" \in r.allowed
    BY DEF RequestFine, AllowedSources, NormalSources, Requires
  <2>3. ASSUME NEW f \in facts, r.text.named # {}, f.from # "conversation", "projects" \in r.stored
        PROVE  f.about \in r.text.named
    <3>1. p \in ProjectFor(r.text)
      BY <2>2, <2>3
    <3>2. p \in r.text.named /\ p # NoProject
      BY <2>1, <2>3, <3>1, ProjectNamed
    <3>. QED
      BY <1>1, <2>3, <3>2
  <2>4. ASSUME NEW f \in facts, r.text = [named |-> {}, hinted |-> {}, titles |-> {}]
        PROVE  f.from \notin {"tasks", "documents"}
    <3>1. r.text.named = {} /\ r.text.hinted = {} /\ r.text.titles = {}
      BY <2>4
    <3>2. p = NoProject
      BY <2>1, <3>1, ProjectNamed
    <3>. QED
      BY <1>1, <3>1, <3>2
  <2>. QED
    BY <2>3, <2>4 DEF EvidenceOnTopic, Composed, DraftFor
<1>8. LinesAreEvidence'
  <2>1. \A f \in Lines(Kept(facts, r), kind) : f \in Kept(facts, r) /\ f.from # "conversation"
    BY DEF Lines, FirstFacts
  <2>2. r.op = "event" => r.event.by = "person" /\ r.event.fresh
    BY DEF RequestFine
  <2>. QED
    BY <2>1, <2>2 DEF LinesAreEvidence, Composed, DraftFor
<1>. QED
  BY <1>5, <1>6, <1>7, <1>8 DEF DraftFine

LEMMA ContextCommits == ASSUME ContextInv, NEW q \in Composers, CommitDraft(q) PROVE ContextInv'
<1> PICK r : r = composing[q]
  OBVIOUS
<1>1. PICK p \in IF "projects" \in r.allowed THEN ProjectFor(r.text) ELSE {NoProject} :
         composed' = [op |-> r.op, request |-> r, facts |-> Assemble(r, p), kept |-> Kept(Assemble(r, p), r),
                      withheld |-> Withheld(Assemble(r, p), r),
                      lines |-> Lines(Kept(Assemble(r, p), r), IF r.op = "event" THEN "channel" ELSE "im")]
  BY DEF CommitDraft
<1>2. composing' = [composing EXCEPT ![q] = NotComposing] /\ r # NotComposing
  BY DEF CommitDraft
<1>3. RequestFine(r)
  BY <1>2 DEF ContextInv
<1> PICK facts : facts = Assemble(r, p)
  OBVIOUS
<1> PICK kind : kind = IF r.op = "event" THEN "channel" ELSE "im"
  OBVIOUS
<1>4. \A f \in facts : Gathered(f, r, p)
  BY AssembleGathers
<1>5. /\ composed'.op = r.op /\ composed'.request = r /\ composed'.facts = facts /\ composed'.kept = Kept(facts, r)
      /\ composed'.withheld = Withheld(facts, r) /\ composed'.lines = Lines(Kept(facts, r), kind)
  BY <1>1
<1>6. DraftFine'
  BY <1>1, <1>3, <1>4, <1>5, DraftSound
<1>7. DOMAIN composing' = Composers /\ composing'[q] = NotComposing /\ \A s \in Composers \ {q} : composing'[s] = composing[s]
  BY <1>2 DEF ContextInv
<1>8. \A s \in Composers : composing'[s] = NotComposing \/ RequestFine(composing'[s])
  BY <1>7 DEF ContextInv
<1>. QED
  BY <1>6, <1>7, <1>8 DEF ContextInv, RequestFine

LEMMA ContextStepInv == ContextInv /\ ContextNext => ContextInv'
<1> SUFFICES ASSUME ContextInv, ContextNext PROVE ContextInv'
  OBVIOUS
<1>1. ASSUME NEW q \in Composers, NEW e \in SlackEvents, EventDraft(q, e) PROVE ContextInv'
  <2>1. Load(q, "event", e.text, e, "internal", "none", Append(exchanged, e.text)) /\ e.by = "person" /\ e.fresh
    BY <1>1 DEF EventDraft, Trusted, Human
  <2>2. e.text \in Said
    BY DEF SlackEvents
  <2>3. "none" \notin Audiences
    BY DEF Audiences
  <2>. QED
    BY <2>1, <2>2, <2>3, ContextLoads
<1>2. ASSUME NEW q \in Composers, NEW text \in Said, ComposeIn(q, text) PROVE ContextInv'
  <2>1. Load(q, "compose", text, NotComposed, audience, "none", exchanged)
    BY <1>2 DEF ComposeIn
  <2>2. "none" \notin Audiences
    BY DEF Audiences
  <2>. QED
    BY <2>1, <2>2, ContextLoads
<1>3. ASSUME NEW q \in Composers, NEW text \in Said, NEW a \in Audiences, ComposeTo(q, text, a) PROVE ContextInv'
  <2>1. Load(q, "compose", text, NotComposed, a, a, exchanged)
    BY <1>3 DEF ComposeTo
  <2>. QED
    BY <2>1, ContextLoads
<1>4. ASSUME NEW q \in Composers, FailDraft(q) PROVE ContextInv'
  <2>1. composing' = [composing EXCEPT ![q] = NotComposing] /\ composed' = composed
    BY <1>4 DEF FailDraft
  <2>2. DOMAIN composing' = Composers /\ composing'[q] = NotComposing /\ \A s \in Composers \ {q} : composing'[s] = composing[s]
    BY <2>1 DEF ContextInv
  <2>3. \A s \in Composers : composing'[s] = NotComposing \/ RequestFine(composing'[s])
    BY <2>2 DEF ContextInv
  <2>4. DraftFine'
    BY <2>1, FineStutters DEF ContextInv
  <2>. QED
    BY <2>2, <2>3, <2>4 DEF ContextInv, RequestFine
<1>5. ASSUME UNCHANGED <<composing, composed>> PROVE ContextInv'
  <2>1. DraftFine'
    BY <1>5, FineStutters DEF ContextInv
  <2>. QED
    BY <1>5, <2>1 DEF ContextInv, RequestFine
<1>6. ASSUME NEW patch \in Patches, UpdatePreferences(patch) PROVE ContextInv'
  BY <1>5, <1>6 DEF UpdatePreferences
<1>7. ASSUME NEW provider \in {"github", "email"}, SwitchProvider(provider) PROVE ContextInv'
  BY <1>5, <1>7 DEF SwitchProvider
<1>. QED
  BY <1>1, <1>2, <1>3, <1>4, <1>6, <1>7, ContextCommits DEF ContextNext

--------------------------------------------------------------------------------
(* Rows of a removed project (ProjectBoard) *)

BoardFields == {"table", "project", "status", "created", "updated"}

\* A removal that is open: its project is there, and every task of it is detached or was
\* added meanwhile.
Removing ==
    /\ DOMAIN removal = {"project", "detached", "crossed"} /\ removal.crossed \in BOOLEAN
    /\ removal.project \in BoardProjects
    /\ ~removal.crossed => TasksOf(removal.project) \subseteq removal.detached

\* The inductive invariant: what a removal has read of its project's tasks is still so, and
\* each refusal has a reason.
RemovalInv ==
    /\ DOMAIN rows = RowIds /\ \A i \in RowIds : DOMAIN rows[i] = BoardFields
    /\ removal # NoRemoval => Removing
    /\ {} \notin refusals

LEMMA RemovalInitInv == BoardInit => RemovalInv
BY DEF BoardInit, RemovalInv, NoBoardRow, BoardFields

LEMMA RemovalStutters == RemovalInv /\ UNCHANGED boardVars => RemovalInv'
BY DEF RemovalInv, boardVars, Removing, BoardProjects, TasksOf

LEMMA RemovalHolds == RemovalInv => RemovalsExplained
BY DEF RemovalInv, RemovalsExplained

\* Rows change: no project is another row then, and no task is given to the one that is removed.
RowsMove ==
    /\ DOMAIN rows' = RowIds /\ \A i \in RowIds : DOMAIN rows'[i] = BoardFields
    /\ \A i \in RowIds : rows[i].table = "projects" => rows'[i].table = "projects"

LEMMA BoardRowsKeep ==
    ASSUME RemovalInv, RowsMove, refusals' = refusals, removal' = removal,
           removal # NoRemoval => \A i \in TasksOf(removal.project)' : i \in TasksOf(removal.project)
    PROVE RemovalInv'
<1>1. ASSUME removal # NoRemoval PROVE Removing'
  <2>1. Removing
    BY <1>1 DEF RemovalInv
  <2>2. removal'.project \in BoardProjects'
    BY <2>1 DEF Removing, RowsMove, BoardProjects
  <2>3. ~removal'.crossed => TasksOf(removal.project)' \subseteq removal'.detached
    BY <1>1, <2>1 DEF Removing, TasksOf
  <2>. QED
    BY <2>1, <2>2, <2>3 DEF Removing
<1>. QED
  BY <1>1 DEF RemovalInv, RowsMove

LEMMA BoardRowFine == ASSUME NEW t, NEW p, NEW s, NEW n
                 PROVE DOMAIN BoardRow(t, p, s, n) = BoardFields /\ BoardRow(t, p, s, n).table = t /\ BoardRow(t, p, s, n).project = p
BY DEF BoardRow, BoardFields

\* A row that was not used is written.
LEMMA OneRowNew ==
    ASSUME RemovalInv, NEW i \in Unused, NEW r, DOMAIN r = BoardFields, rows' = [rows EXCEPT ![i] = r]
    PROVE /\ RowsMove /\ rows[i].table = "none" /\ rows'[i] = r
          /\ \A j \in RowIds \ {i} : rows'[j] = rows[j]
<1>1. i \in RowIds /\ rows[i].table = "none"
  BY DEF Unused, NoBoardRow
<1>2. rows'[i] = r /\ (\A j \in RowIds \ {i} : rows'[j] = rows[j]) /\ DOMAIN rows' = RowIds
  BY <1>1 DEF RemovalInv
<1>. QED
  BY <1>1, <1>2 DEF RowsMove, RemovalInv

LEMMA CreateProjectKeeps == ASSUME RemovalInv, BoardAssumption, NEW p \in RowIds, CreateProject(p) PROVE RemovalInv'
<1>1. PICK r : r = BoardRow("projects", 0, "Active", now)
  OBVIOUS
<1>2. p \in Unused /\ rows[p].table = "none" /\ removal' = removal /\ refusals' = refusals
  BY DEF CreateProject, Unused, NoBoardRow
<1>3. removal # NoRemoval => removal.project # p
  BY <1>2 DEF RemovalInv, Removing, BoardProjects
<1>4. DOMAIN r = BoardFields /\ r.table = "projects"
  BY <1>1, BoardRowFine
<1>5. CASE rows' = [rows EXCEPT ![p] = r]
  <2>1. RowsMove /\ rows'[p] = r /\ \A j \in RowIds \ {p} : rows'[j] = rows[j]
    BY <1>2, <1>4, <1>5, OneRowNew
  <2>2. removal # NoRemoval => \A i \in TasksOf(removal.project)' : i \in TasksOf(removal.project)
    BY <1>2, <1>4, <2>1 DEF TasksOf
  <2>. QED
    BY <1>2, <2>1, <2>2, BoardRowsKeep
<1>6. ASSUME NEW t \in Unused \ {p}, rows' = [rows EXCEPT ![p] = r, ![t] = BoardRow("tasks", p, "active", now)] PROVE RemovalInv'
  <2>1. PICK s : s = BoardRow("tasks", p, "active", now)
    OBVIOUS
  <2>2. DOMAIN s = BoardFields /\ s.project = p
    BY <2>1, BoardRowFine
  <2>3. t \in RowIds /\ rows[t].table = "none"
    BY DEF Unused, NoBoardRow
  <2>4. rows'[p] = r /\ rows'[t] = s /\ (\A j \in RowIds \ {p, t} : rows'[j] = rows[j]) /\ DOMAIN rows' = RowIds
    BY <1>6, <2>1, <2>3 DEF RemovalInv
  <2>5. RowsMove
    BY <1>2, <1>4, <2>2, <2>3, <2>4 DEF RowsMove, RemovalInv
  <2>6. removal # NoRemoval => \A i \in TasksOf(removal.project)' : i \in TasksOf(removal.project)
    BY <1>2, <1>3, <1>4, <2>2, <2>4 DEF TasksOf
  <2>. QED
    BY <1>2, <2>5, <2>6, BoardRowsKeep
<1>. QED
  BY <1>1, <1>5, <1>6 DEF CreateProject, WriteRows

\* A row that is there gets a status or a stamp.
LEMMA BoardTouchKeeps ==
    ASSUME RemovalInv, NEW i \in RowIds, NEW r, rows' = [rows EXCEPT ![i] = r], DOMAIN r = BoardFields,
           r.table = rows[i].table, r.project = rows[i].project, refusals' = refusals, removal' = removal
    PROVE RemovalInv'
<1>1. rows'[i] = r /\ (\A j \in RowIds \ {i} : rows'[j] = rows[j]) /\ DOMAIN rows' = RowIds
  BY DEF RemovalInv
<1>2. RowsMove
  BY <1>1 DEF RowsMove, RemovalInv
<1>3. removal # NoRemoval => \A j \in TasksOf(removal.project)' : j \in TasksOf(removal.project)
  BY <1>1 DEF TasksOf
<1>. QED
  BY <1>2, <1>3, BoardRowsKeep

LEMMA UpdatesKeep ==
    ASSUME RemovalInv, NEW i \in RowIds, (\E patch : UpdateProject(i, patch)) \/ TaskChanges(i)
    PROVE RemovalInv'
<1>1. DOMAIN rows[i] = BoardFields /\ DOMAIN rows = RowIds /\ removal' = removal /\ refusals' = refusals
  BY DEF RemovalInv, UpdateProject, TaskChanges
<1>2. ASSUME NEW patch, UpdateProject(i, patch) PROVE RemovalInv'
  <2>1. PICK s : s = IF patch = "none" THEN rows[i].status ELSE patch
    OBVIOUS
  <2>2. PICK r : r = [rows[i] EXCEPT !.status = s, !.updated = now]
    OBVIOUS
  <2>3. rows' = [rows EXCEPT ![i] = r]
    BY <1>1, <1>2, <2>1, <2>2 DEF UpdateProject, WriteRows
  <2>4. DOMAIN r = BoardFields /\ r.table = rows[i].table /\ r.project = rows[i].project
    BY <1>1, <2>2 DEF BoardFields
  <2>. QED
    BY <1>1, <2>3, <2>4, BoardTouchKeeps
<1>3. CASE TaskChanges(i)
  <2>2. PICK r : r = [rows[i] EXCEPT !.updated = now]
    OBVIOUS
  <2>3. rows' = [rows EXCEPT ![i] = r]
    BY <1>1, <1>3, <2>2 DEF TaskChanges, WriteRows
  <2>4. DOMAIN r = BoardFields /\ r.table = rows[i].table /\ r.project = rows[i].project
    BY <1>1, <2>2 DEF BoardFields
  <2>. QED
    BY <1>1, <2>3, <2>4, BoardTouchKeeps
<1>. QED
  BY <1>2, <1>3

LEMMA CreateTaskKeeps == ASSUME RemovalInv, BoardAssumption, NEW t \in RowIds, NEW p \in RowIds \cup {0}, CreateTask(t, p) PROVE RemovalInv'
<1>1. PICK r : r = BoardRow("tasks", p, "active", now)
  OBVIOUS
<1>2. t \in Unused /\ rows' = [rows EXCEPT ![t] = r] /\ refusals' = refusals /\ DOMAIN r = BoardFields /\ r.project = p
  BY <1>1, BoardRowFine DEF CreateTask, WriteRows
<1>3. RowsMove /\ rows'[t] = r /\ \A j \in RowIds \ {t} : rows'[j] = rows[j]
  BY <1>2, OneRowNew
<1>4. CASE removal = NoRemoval
  <2>1. removal.crossed = FALSE /\ removal.project = 0
    BY <1>4 DEF NoRemoval
  <2>2. PICK b \in BOOLEAN : b = (removal.crossed \/ (p # 0 /\ p = removal.project))
    OBVIOUS
  <2>3. b = FALSE
    BY <2>1, <2>2
  <2>4. removal' = [removal EXCEPT !.crossed = b]
    BY <2>2 DEF CreateTask
  <2>5. removal' = NoRemoval
    BY <1>4, <2>3, <2>4 DEF NoRemoval
  <2>. QED
    BY <1>2, <1>3, <2>5 DEF RemovalInv, RowsMove
<1>5. CASE removal # NoRemoval
  <2>1. Removing /\ removal.project # 0
    BY <1>5, BoardAssumption DEF RemovalInv, Removing, BoardProjects, BoardAssumption
  <2>2. removal.crossed \in BOOLEAN /\ DOMAIN removal = {"project", "detached", "crossed"}
    BY <2>1 DEF Removing
  <2>3. PICK b \in BOOLEAN : (b <=> (removal.crossed \/ (p # 0 /\ p = removal.project))) /\ removal' = [removal EXCEPT !.crossed = b]
    BY <2>2, Zenon DEF CreateTask
  <2>4. removal'.project = removal.project /\ removal'.detached = removal.detached /\ removal'.crossed = b
        /\ DOMAIN removal' = {"project", "detached", "crossed"}
    BY <2>2, <2>3
  <2>5. removal'.project \in BoardProjects'
    BY <1>3, <2>1, <2>4 DEF Removing, RowsMove, BoardProjects
  <2>6. ASSUME ~b PROVE TasksOf(removal.project)' \subseteq removal'.detached
    <3>1. ~removal.crossed /\ p # removal.project
      BY <2>1, <2>3, <2>6
    <3>2. \A i \in TasksOf(removal.project)' : i \in TasksOf(removal.project)
      BY <1>2, <1>3, <2>4, <3>1 DEF TasksOf
    <3>. QED
      BY <2>1, <2>4, <3>1, <3>2 DEF Removing
  <2>7. Removing'
    BY <2>3, <2>4, <2>5, <2>6 DEF Removing
  <2>. QED
    BY <1>2, <1>3, <2>7 DEF RemovalInv, RowsMove
<1>. QED
  BY <1>4, <1>5

LEMMA DocumentKeeps == ASSUME RemovalInv, NEW d \in RowIds, NEW p, IndexDocument(d, p) PROVE RemovalInv'
<1>1. PICK r : r = BoardRow("documents", p, "indexed", now)
  OBVIOUS
<1>2. d \in Unused /\ rows' = [rows EXCEPT ![d] = r] /\ refusals' = refusals /\ removal' = removal /\ DOMAIN r = BoardFields /\ r.table = "documents"
  BY <1>1, BoardRowFine DEF IndexDocument, WriteRows
<1>3. RowsMove /\ rows'[d] = r /\ \A j \in RowIds \ {d} : rows'[j] = rows[j]
  BY <1>2, OneRowNew
<1>4. removal # NoRemoval => \A i \in TasksOf(removal.project)' : i \in TasksOf(removal.project)
  BY <1>2, <1>3 DEF TasksOf
<1>. QED
  BY <1>2, <1>3, <1>4, BoardRowsKeep

LEMMA BeginRemovalKeeps == ASSUME RemovalInv, NEW p \in RowIds, BeginRemoval(p) PROVE RemovalInv'
<1>1. p \in BoardProjects /\ removal' = [project |-> p, detached |-> TasksOf(p), crossed |-> FALSE] /\ rows' = rows /\ refusals' = refusals
  BY DEF BeginRemoval, ToDetach
<1>2. Removing'
  BY <1>1 DEF Removing, BoardProjects, TasksOf
<1>. QED
  BY <1>1, <1>2 DEF RemovalInv

\* What stands in the way is a document, or a task that was added meanwhile.
LEMMA CommitRemovalKeeps == ASSUME RemovalInv, CommitRemoval PROVE RemovalInv'
<1>1. Removing /\ removal' = NoRemoval
  BY DEF RemovalInv, CommitRemoval
<1>2. CASE StillReferring = {}
  <2>1. refusals' = refusals /\ DOMAIN rows' = RowIds
    BY <1>2 DEF CommitRemoval, WriteRows
  <2>2. ASSUME NEW i \in RowIds PROVE DOMAIN rows'[i] = BoardFields
    <3>1. DOMAIN rows[i] = BoardFields /\ DOMAIN GoneRow = BoardFields
      BY DEF RemovalInv, GoneRow, BoardFields
    <3>2. rows'[i] \in {GoneRow, rows[i], [rows[i] EXCEPT !.project = 0, !.updated = now]}
      BY <1>2 DEF CommitRemoval, WriteRows
    <3>. QED
      BY <3>1, <3>2
  <2>. QED
    BY <1>1, <2>1, <2>2 DEF RemovalInv
<1>3. CASE StillReferring # {}
  <2>1. PICK why : why = {w \in {"document", "crossing"} : (w = "document" /\ DocumentsOf(removal.project) # {}) \/ (w = "crossing" /\ removal.crossed)}
    OBVIOUS
  <2>2. refusals' = refusals \cup {why} /\ rows' = rows
    BY <1>3, <2>1 DEF CommitRemoval
  <2>3. why # {}
    <3>1. CASE DocumentsOf(removal.project) # {}
      BY <2>1, <3>1
    <3>2. CASE removal.crossed
      BY <2>1, <3>2
    <3>3. CASE DocumentsOf(removal.project) = {} /\ ~removal.crossed
      BY <1>1, <1>3, <3>3 DEF Removing, StillReferring
    <3>. QED
      BY <3>1, <3>2, <3>3
  <2>. QED
    BY <1>1, <2>2, <2>3 DEF RemovalInv
<1>. QED
  BY <1>2, <1>3

LEMMA RemovalStepInv == ASSUME RemovalInv, BoardAssumption, BoardNext PROVE RemovalInv'
<1>1. ASSUME UNCHANGED <<rows, removal, refusals>> PROVE RemovalInv'
  BY <1>1 DEF RemovalInv, Removing, BoardProjects, TasksOf
<1>2. ASSUME NEW of, Tick \/ AskList(of) \/ AskNextPage \/ ReaderLeaves PROVE UNCHANGED <<rows, removal, refusals>>
  BY <1>2 DEF Tick, AskList, AskNextPage, ReaderLeaves
<1>3. ASSUME NEW p \in RowIds, CreateProject(p) PROVE RemovalInv'
  BY <1>3, CreateProjectKeeps
<1>4. ASSUME NEW p \in RowIds, NEW patch, UpdateProject(p, patch) PROVE RemovalInv'
  BY <1>4, UpdatesKeep
<1>5. ASSUME NEW t \in RowIds, NEW p \in RowIds \cup {0}, CreateTask(t, p) PROVE RemovalInv'
  BY <1>5, CreateTaskKeeps
<1>6. ASSUME NEW d \in RowIds, NEW p \in RowIds, IndexDocument(d, p) PROVE RemovalInv'
  BY <1>6, DocumentKeeps
<1>7. ASSUME NEW t \in RowIds, TaskChanges(t) PROVE RemovalInv'
  BY <1>7, UpdatesKeep
<1>8. ASSUME NEW p \in RowIds, BeginRemoval(p) PROVE RemovalInv'
  BY <1>8, BeginRemovalKeeps
<1>9. ASSUME CommitRemoval PROVE RemovalInv'
  BY <1>9, CommitRemovalKeeps
<1>. QED
  BY <1>1, <1>2, <1>3, <1>4, <1>5, <1>6, <1>7, <1>8, <1>9 DEF BoardNext

--------------------------------------------------------------------------------
(* What readers are shown of the log, the inbox and the calendar *)

\* The centre's notices are the newest: what is newer than a notice that is shown has fewer
\* that are newer than itself, so it is shown too, and nothing is left out that fits.
LEMMA CentreNewest == ASSUME FeedInv PROVE NewestShown
<1> DEFINE S == Notices
<1>1. S \in SUBSET Nat /\ IsFiniteSet(S)
  <2>1. RowsAfter(0) \in SUBSET Nat /\ IsFiniteSet(RowsAfter(0))
    BY RowsFinite DEF FeedInv
  <2>2. S \subseteq RowsAfter(0)
    BY DEF Notices
  <2>. QED
    BY <2>1, <2>2, FS_Subset
<1>2. Cardinality(S) \in Nat /\ NewestLimit \in Nat
  BY <1>1, FS_CardinalityType, FeedAssumption
<1> HIDE DEF S
<1>3. ASSUME NEW s \in S PROVE /\ NewerOf(S, s) \subseteq S /\ IsFiniteSet(NewerOf(S, s))
                               /\ Cardinality(NewerOf(S, s)) \in Nat
                               /\ Cardinality(NewerOf(S, s)) < Cardinality(S)
  <2>1. NewerOf(S, s) \subseteq S \ {s}
    BY <1>1 DEF NewerOf
  <2>2. NewerOf(S, s) \subseteq S /\ NewerOf(S, s) # S
    BY <1>3, <2>1
  <2>3. /\ IsFiniteSet(NewerOf(S, s)) /\ Cardinality(NewerOf(S, s)) <= Cardinality(S)
        /\ Cardinality(NewerOf(S, s)) # Cardinality(S)
    BY <1>1, <2>2, FS_Subset
  <2>4. Cardinality(NewerOf(S, s)) \in Nat
    BY <2>3, FS_CardinalityType
  <2>. QED
    BY <1>2, <2>2, <2>3, <2>4
<1>4. ASSUME NEW s \in S, NEW t \in NewerOf(S, s) PROVE t \in S /\ Cardinality(NewerOf(S, t)) <= Cardinality(NewerOf(S, s))
  <2>1. t \in S /\ t > s
    BY <1>4 DEF NewerOf
  <2>2. NewerOf(S, t) \subseteq NewerOf(S, s)
    <3>1. \A x \in S : x > t => x > s
      BY <1>1, <2>1
    <3>. QED
      BY <3>1 DEF NewerOf
  <2>3. IsFiniteSet(NewerOf(S, s))
    BY <1>3
  <2>4. Cardinality(NewerOf(S, t)) <= Cardinality(NewerOf(S, s))
    BY <2>2, <2>3, FS_Subset
  <2>. QED
    BY <2>1, <2>4
<1>5. NewestNotices = {s \in S : Cardinality(NewerOf(S, s)) < NewestLimit}
  BY DEF NewestNotices, S
<1>6. ASSUME Cardinality(S) <= NewestLimit, NEW severity PROVE Cardinality(Listed(severity)) = Counted(severity)
  <2>1. \A s \in S : Cardinality(NewerOf(S, s)) < NewestLimit
    BY <1>2, <1>3, <1>6
  <2>2. NewestNotices = S
    BY <1>5, <2>1
  <2>. QED
    BY <2>2 DEF Listed, Counted, S
<1>7. ASSUME NEW severity, NEW s \in Listed(severity), NEW t \in NewerOf(S, s), log[t].severity = severity
      PROVE  t \in Listed(severity)
  <2>1. s \in S /\ Cardinality(NewerOf(S, s)) < NewestLimit
    BY <1>5, <1>7 DEF Listed
  <2>2. t \in S /\ Cardinality(NewerOf(S, t)) <= Cardinality(NewerOf(S, s))
    BY <1>4, <1>7, <2>1
  <2>3. Cardinality(NewerOf(S, t)) < NewestLimit
    BY <1>2, <1>3, <2>1, <2>2
  <2>. QED
    BY <1>5, <1>7, <2>2, <2>3 DEF Listed
<1>. QED
  BY <1>6, <1>7 DEF NewestShown, S

\* The messages of a conversation that have a row are finitely many.
TracedInv == IsFiniteSet(traced)

LEMMA TracedInitInv == InboxInit => TracedInv
BY FS_EmptySet DEF InboxInit, TracedInv

LEMMA TracedStutters == TracedInv /\ UNCHANGED inboxVars => TracedInv'
BY DEF TracedInv, inboxVars, inboxRows

LEMMA TracedStepInv == TracedInv /\ InboxNext => TracedInv'
<1> SUFFICES ASSUME TracedInv, InboxNext PROVE IsFiniteSet(traced')
  BY DEF TracedInv
<1>1. traced' = traced \/ \E ts : traced' = traced \cup {ts}
  <2>1. ASSUME NEW d \in Deliveries, CommitDelivery(d) PROVE traced' = traced \/ \E ts : traced' = traced \cup {ts}
    BY <2>1 DEF CommitDelivery
  <2>2. CASE \A d \in Deliveries : ~CommitDelivery(d)
    BY <2>2 DEF InboxNext, Deliver, DraftReply, Upsert, CheckMessage, InsertMessage, InsertUnless,
                PrepareDraft, FailDelivery, MarkHandled, SwitchAutoPrepare, Within, inboxRows
  <2>. QED
    BY <2>1, <2>2
<1>. QED
  BY <1>1, FS_AddElement DEF TracedInv

\* The newest of the messages has none that is newer, so it is looked at, and it is the only
\* one that is shown.
LEMMA InboxShows == ASSUME SlackInv, TracedInv PROVE InboxTells
<1>1. traced \subseteq Nat
  BY IngestAssumption DEF SlackInv
<1>2. ASSUME NEW g \in InboxGroup, NEW h \in InboxGroup, ShownIn(g) # {}, ShownIn(h) # {} PROVE g = h
  <2>1. PICK ts : ts \in ShownIn(g)
    BY <1>2
  <2>2. PICK to : to \in ShownIn(h)
    BY <1>2
  <2>3. ts \in Looked /\ to \in Looked /\ ts \in Nat /\ to \in Nat
    BY <1>1, <2>1, <2>2 DEF ShownIn, Looked
  <2>4. ts <= to /\ to <= ts
    BY <2>1, <2>2, <2>3 DEF ShownIn
  <2>5. ts = to
    BY <2>3, <2>4
  <2>. QED
    BY <2>1, <2>2, <2>5 DEF ShownIn
<1>3. ASSUME NEW g \in InboxGroup, ShownIn(g) # {} PROVE InboxCount(g) > 0
  <2> DEFINE S == {ts \in traced : GroupOf(ts) = g}
  <2>1. IsFiniteSet(S) /\ S # {}
    BY <1>3, FS_Subset DEF TracedInv, ShownIn, Looked
  <2>2. Cardinality(S) \in Nat /\ Cardinality(S) # 0
    BY <2>1, FS_CardinalityType, FS_EmptySet
  <2>. QED
    BY <2>2 DEF InboxCount
<1>4. ASSUME NEW ts \in traced, \A o \in traced : o <= ts PROVE ts \in ShownIn(GroupOf(ts))
  <2>1. {o \in traced : o > ts} = {}
    <3>1. \A o \in traced : o \in Nat /\ o <= ts /\ ts \in Nat
      BY <1>1, <1>4
    <3>2. \A o \in traced : ~(o > ts)
      BY <3>1
    <3>. QED
      BY <3>2
  <2>2. Cardinality({o \in traced : o > ts}) = 0 /\ 0 < InboxRows
    <3>1. 0 < InboxRows
      BY IngestAssumption
    <3>2. Cardinality({}) = 0
      BY FS_EmptySet
    <3>. QED
      BY <2>1, <3>1, <3>2
  <2>. QED
    BY <1>4, <2>2 DEF ShownIn, Looked
<1>. QED
  BY <1>2, <1>3, <1>4 DEF InboxTells
\* Every row of the calendar has two times.
SpansInv == \A x \in events : x.start \in Nat /\ x.end \in Nat

LEMMA SpansInitInv == CalendarInit => SpansInv
BY DEF CalendarInit, SpansInv

LEMMA SpansStutters == SpansInv /\ UNCHANGED calendarVars => SpansInv'
BY DEF SpansInv, calendarVars

LEMMA SpansStepInv == StoreInv /\ SpansInv /\ CalendarNext => SpansInv'
<1> SUFFICES ASSUME StoreInv, SpansInv, CalendarNext PROVE SpansInv'
  OBVIOUS
<1>1. ASSUME NEW q \in Dialers, CommitCalendarSync(q) PROVE SpansInv'
  <2>0. dialing[q].missing \subseteq DOMAIN SeedSpan
    BY <1>1 DEF CommitCalendarSync, StoreInv, DialFine
  <2>1. PICK n : n = [e \in DOMAIN SeedSpan |-> Cardinality(Copies(e)) + 1]
    OBVIOUS
  <2>2. \A x \in events' : x \in events \/ \E e \in DOMAIN SeedSpan :
           x = [of |-> e, copy |-> n[e], start |-> SeedSpan[e][1], end |-> SeedSpan[e][2]]
    BY <1>1, <2>0, <2>1 DEF CommitCalendarSync
  <2>3. \A e \in DOMAIN SeedSpan : SeedSpan[e][1] \in Nat /\ SeedSpan[e][2] \in Nat
    BY CalendarAssumption
  <2>. QED
    BY <2>2, <2>3 DEF SpansInv
<1>2. ASSUME NEW q \in Dialers, NEW span \in DraftSpans, ProposeDraft(q, span) PROVE SpansInv'
  <2>1. span[1] \in Nat /\ span[2] \in Nat
    BY CalendarAssumption
  <2>2. \A x \in events' : x \in events \/
           x = [of |-> "draft", copy |-> dials + 1, start |-> span[1], end |-> span[2]]
    BY <1>2 DEF ProposeDraft
  <2>. QED
    BY <2>1, <2>2 DEF SpansInv
<1>3. ASSUME events' = events PROVE SpansInv'
  BY <1>3 DEF SpansInv
<1>4. ASSUME NEW q \in Dialers,
             \/ BeginCalendarCallback(q) \/ CommitCalendarCallback(q)
             \/ (\E p \in Provider : Connect(q, p) \/ DisconnectOne(q, p))
             \/ BeginCalendarSync(q) \/ CommitPatchPolicy(q)
      PROVE  SpansInv'
  BY <1>3, <1>4 DEF BeginCalendarCallback, CommitCalendarCallback, Connect, DisconnectOne, BeginCalendarSync, CommitPatchPolicy
<1>5. ASSUME NEW q \in Dialers, NEW field, NEW v, BeginPatchPolicy(q, field, v) PROVE SpansInv'
  BY <1>3, <1>5 DEF BeginPatchPolicy
<1>6. PICK q \in Dialers :
        \/ BeginCalendarCallback(q) \/ CommitCalendarCallback(q)
        \/ \E p \in Provider : Connect(q, p) \/ DisconnectOne(q, p)
        \/ BeginCalendarSync(q) \/ CommitCalendarSync(q)
        \/ \E span \in DraftSpans : ProposeDraft(q, span)
        \/ \E sources \in {{}, {"tasks", "slack"}} : BeginPatchPolicy(q, "sources", sources)
        \/ \E mode \in {"full", "skip"} : BeginPatchPolicy(q, "private", mode)
        \/ CommitPatchPolicy(q)
  BY DEF CalendarNext
<1>. QED
  BY <1>1, <1>2, <1>4, <1>5, <1>6

LEMMA SpansOverlap ==
    ASSUME NEW m \in Nat, NEW n \in Nat, NEW k \in Nat, NEW l \in Nat
    PROVE  Larger(m, n) < Smaller(k, l) <=> (m < k /\ m < l /\ n < k /\ n < l)
BY DEF Larger, Smaller

\* Of two rows that take time one comes first, and they conflict when each starts before the
\* other ends.
LEMMA PairConflicts ==
    ASSUME NEW R, NEW a \in R, NEW b \in R, a # b, a.start \in Nat, a.end \in Nat, b.start \in Nat, b.end \in Nat,
           a.start < a.end, b.start < b.end
    PROVE  (<<a, b>> \in Conflicts(R) \/ <<b, a>> \in Conflicts(R)) <=> (a.start < b.end /\ b.start < a.end)
<1>1. <<a, b>> \in Conflicts(R) <=> (Before(a, b) /\ b.start < a.end)
  BY DEF Conflicts
<1>2. <<b, a>> \in Conflicts(R) <=> (Before(b, a) /\ a.start < b.end)
  BY DEF Conflicts
<1>3. CASE a.start = b.start
  <2>1. Before(a, b) \/ Before(b, a)
    BY <1>3 DEF Before
  <2>. QED
    BY <1>1, <1>2, <1>3, <2>1
<1>4. CASE a.start < b.start
  <2>1. Before(a, b) /\ ~Before(b, a)
    BY <1>4 DEF Before
  <2>. QED
    BY <1>1, <1>2, <1>4, <2>1
<1>5. CASE b.start < a.start
  <2>1. Before(b, a) /\ ~Before(a, b)
    BY <1>5 DEF Before
  <2>. QED
    BY <1>1, <1>2, <1>5, <2>1
<1>. QED
  BY <1>3, <1>4, <1>5

LEMMA SpansConflict == SpansInv => ConflictsFound
<1> SUFFICES ASSUME SpansInv PROVE ConflictsFound
  OBVIOUS
<1>1. ASSUME NEW x \in Proper PROVE /\ x \in events /\ x.start \in Nat /\ x.end \in Nat /\ x.start < x.end
  BY <1>1 DEF SpansInv, Proper
<1>3. ASSUME NEW a \in Proper, NEW b \in Proper, a # b
      PROVE  (<<a, b>> \in Conflicts(events) \/ <<b, a>> \in Conflicts(events))
                <=> Larger(a.start, b.start) < Smaller(a.end, b.end)
  <2>1. /\ a \in events /\ a.start \in Nat /\ a.end \in Nat /\ a.start < a.end
        /\ b \in events /\ b.start \in Nat /\ b.end \in Nat /\ b.start < b.end
    BY <1>1
  <2>2. Larger(a.start, b.start) < Smaller(a.end, b.end) <=> (a.start < b.end /\ b.start < a.end)
    BY <2>1, SpansOverlap
  <2>. QED
    BY <1>3, <2>1, <2>2, PairConflicts
<1>4. ASSUME NEW lo \in 0..9, NEW hi \in 0..9, NEW a \in Proper, NEW b \in Proper, a # b,
             Larger(lo, Larger(a.start, b.start)) < Smaller(hi, Smaller(a.end, b.end))
      PROVE  <<a, b>> \in Conflicts(InWindow(lo, hi)) \/ <<b, a>> \in Conflicts(InWindow(lo, hi))
  <2>1. /\ a \in events /\ a.start \in Nat /\ a.end \in Nat /\ a.start < a.end
        /\ b \in events /\ b.start \in Nat /\ b.end \in Nat /\ b.start < b.end
    BY <1>1
  <2>2. /\ lo < a.end /\ lo < b.end /\ a.start < hi /\ b.start < hi
        /\ a.start < b.end /\ b.start < a.end
    BY <1>4, <2>1 DEF Larger, Smaller
  <2>3. a \in InWindow(lo, hi) /\ b \in InWindow(lo, hi)
    BY <2>1, <2>2 DEF InWindow
  <2>. QED
    BY <1>4, <2>1, <2>2, <2>3, PairConflicts
<1>. QED
  BY <1>3, <1>4 DEF ConflictsFound

--------------------------------------------------------------------------------
(* What a standup is read from, and the thread it goes to (StandupEvidence) *)

\* Work that is done was last changed in one of the two parts of the day's time.
EveningInv ==
    /\ part \in {1, 2}
    /\ \A w \in Work : matters[w].status = "done" => matters[w].at \in {1, 2}
    /\ EveningCounts

\* What EveningInv reads of a pass.
LEMMA EveningKeeps ==
    ASSUME EvidenceInv, EveningInv, part' \in {1, 2}, DOMAIN passes' = Collectors,
           \A w \in Work : matters'[w] = matters[w] \/ matters'[w].at = part,
           \A c \in Collectors : passes'[c] = passes[c] \/ passes'[c] = NoCollection
    PROVE  EveningInv'
<1>1. \A w \in Work : matters'[w].status = "done" => matters'[w].at \in {1, 2}
  BY DEF EveningInv
<1>2. EveningCounts'
  BY DEF EveningInv, EveningCounts
<1>. QED
  BY <1>1, <1>2 DEF EveningInv

LEMMA EveningInitInv == EvidenceInit => EveningInv
BY DEF EvidenceInit, EveningInv, EveningCounts

LEMMA EveningStutters == EveningInv /\ UNCHANGED evidenceVars => EveningInv'
BY DEF EveningInv, EveningCounts, evidenceVars

LEMMA EveningPassBegins == ASSUME EvidenceInv, EveningInv, NEW c \in Collectors, BeginCollect(c) PROVE EveningInv'
<1> PICK p : p = [open |-> TRUE, signals |-> Signals, known |-> {evidence[n].key : n \in Existing},
                  seen |-> DOMAIN evidence, then |-> matters]
  OBVIOUS
<1>1. /\ \A d \in Collectors : passes'[d] = IF d = c THEN p ELSE passes[d]
      /\ UNCHANGED <<part, matters>>
  BY DEF BeginCollect, EvidenceInv
<1>2. ASSUME NEW w \in Work, Sort[w] = "task", matters[w].status = "done"
      PROVE  \E s \in Signals : s.thing = w /\ s.type = "completed"
  <2>1. matters[w].at \in Window
    BY <1>2 DEF EveningInv, Window
  <2>2. TypeOf(w, matters[w].status) = "completed"
    BY <1>2 DEF TypeOf
  <2> PICK s : s = [key |-> KeyOf(w, matters[w].status), thing |-> w, type |-> TypeOf(w, matters[w].status)]
    OBVIOUS
  <2>3. s \in Signals
    BY <1>2, <2>1 DEF Signals
  <2>. QED
    BY <2>2, <2>3
<1>3. p.signals = Signals /\ p.then = matters
  OBVIOUS
<1>4. EveningCounts'
  <2> SUFFICES ASSUME NEW d \in Collectors, passes'[d] # NoCollection, NEW w \in Work, Sort[w] = "task",
                      passes'[d].then[w].status = "done"
               PROVE  \E s \in passes'[d].signals : s.thing = w /\ s.type = "completed"
    BY DEF EveningCounts
  <2>1. CASE d = c
    BY <2>1, <1>1, <1>2, <1>3
  <2>2. CASE d # c
    BY <2>2, <1>1 DEF EveningInv, EveningCounts
  <2>. QED
    BY <2>1, <2>2
<1>. QED
  BY <1>1, <1>4 DEF EveningInv

LEMMA EveningStepInv == EvidenceInv /\ EveningInv /\ EvidenceNext => EveningInv'
<1> SUFFICES ASSUME EvidenceInv, EveningInv, EvidenceNext PROVE EveningInv'
  OBVIOUS
<1>1. CASE TimePasses
  <2>1. part' = 2 /\ UNCHANGED <<matters, passes>>
    BY <1>1 DEF TimePasses
  <2>. QED
    BY <2>1, EveningKeeps DEF EvidenceInv
<1>2. ASSUME NEW w \in Work, Move(w) PROVE EveningInv'
  <2>1. UNCHANGED <<part, passes>> /\ \E status : matters' = [matters EXCEPT ![w] = [status |-> status, at |-> part]]
    BY <1>2 DEF Move
  <2>2. \A v \in Work : matters'[v] = matters[v] \/ matters'[v].at = part
    BY <2>1 DEF EvidenceInv
  <2>. QED
    BY <2>1, <2>2, EveningKeeps DEF EvidenceInv, EveningInv
<1>3. ASSUME NEW c \in Collectors, CommitCollect(c) PROVE EveningInv'
  <2>1. UNCHANGED <<part, matters>> /\ passes' = [passes EXCEPT ![c] = NoCollection]
    BY <1>3 DEF CommitCollect
  <2>2. DOMAIN passes' = Collectors /\ \A d \in Collectors : passes'[d] = passes[d] \/ passes'[d] = NoCollection
    BY <2>1 DEF EvidenceInv
  <2>. QED
    BY <2>1, <2>2, EveningKeeps DEF EveningInv
<1>4. ASSUME UNCHANGED <<part, matters, passes>> PROVE EveningInv'
  BY <1>4 DEF EveningInv, EveningCounts
<1>5. CASE \/ \E w \in Work : AddNote(w)
           \/ \E n \in DOMAIN evidence, included \in BOOLEAN : Include(n, included)
           \/ Generate
           \/ \E history \in SUBSET Messages, learns \in BOOLEAN : Resolve(history, learns)
  BY <1>4, <1>5 DEF AddNote, Include, Generate, Resolve
<1>. QED
  BY <1>1, <1>2, <1>3, <1>5, EveningPassBegins DEF EvidenceNext

LEMMA ThreadInitInv == EvidenceInit => ThreadIsReminder
BY DEF EvidenceInit, ThreadIsReminder, NoThread

LEMMA ThreadStutters == ThreadIsReminder /\ UNCHANGED thread => ThreadIsReminder'
BY DEF ThreadIsReminder

\* What scores is a timely root, and before the bot is known it is worded as the reminder.
LEMMA Scores ==
    ASSUME NEW m, NEW b, Score(m, b) > 0
    PROVE  m.timely /\ ~m.reply /\ (m.signed \/ (b # "none" /\ m.bot = b))
BY DEF Score

LEMMA ThreadFound ==
    ASSUME ThreadIsReminder, NEW history \in SUBSET Messages, NEW learns \in BOOLEAN, Resolve(history, learns)
    PROVE  ThreadIsReminder'
<1> DEFINE rank(m) == 10 * Score(m, thread.bot) + m.ts
           good == {m \in history : Score(m, thread.bot) > 0}
           best == {m \in good : \A o \in good : rank(m) >= rank(o)}
<1>1. thread' = [found |-> best, bot |-> IF learns THEN BotAfter(best) ELSE thread.bot]
  BY DEF Resolve
<1>2. \A m \in best : m \in Messages /\ m.timely /\ ~m.reply /\ (m.signed \/ (thread.bot # "none" /\ m.bot = thread.bot))
  BY Scores
<1> HIDE DEF best
<1>3. CASE thread'.bot = thread.bot
  BY <1>1, <1>2, <1>3 DEF ThreadIsReminder
<1>4. CASE thread'.bot # thread.bot
  <2>1. thread.bot = "none" /\ best # {} /\ thread'.bot = (CHOOSE m \in best : TRUE).bot
    BY <1>1, <1>4 DEF BotAfter
  <2>2. PICK m : m \in best /\ thread'.bot = m.bot
    BY <2>1
  <2>. QED
    BY <1>1, <1>2, <2>1, <2>2 DEF ThreadIsReminder
<1>. QED
  BY <1>3, <1>4

LEMMA ThreadStepInv == ThreadIsReminder /\ EvidenceNext => ThreadIsReminder'
<1> SUFFICES ASSUME ThreadIsReminder, EvidenceNext PROVE ThreadIsReminder'
  OBVIOUS
<1>1. CASE \E history \in SUBSET Messages, learns \in BOOLEAN : Resolve(history, learns)
  BY <1>1, ThreadFound
<1>2. CASE ~\E history \in SUBSET Messages, learns \in BOOLEAN : Resolve(history, learns)
  <2>1. UNCHANGED thread
    BY <1>2 DEF EvidenceNext, TimePasses, Move, AddNote, BeginCollect, CommitCollect, Include, Generate
  <2>. QED
    BY <2>1, ThreadStutters
<1>. QED
  BY <1>1, <1>2

--------------------------------------------------------------------------------
(* What the assistant is reminded of (AssistantTurns) *)

\* The number with all the others below it is the greatest.
LEMMA TopOf ==
    ASSUME NEW S \in SUBSET Nat, IsFiniteSet(S), NEW s \in S, Cardinality(Below(S, s)) = Cardinality(S) - 1
    PROVE  \A t \in S : t <= s
<1>1. Below(S, s) \in SUBSET (S \ {s})
  BY DEF Below
<1>2. /\ IsFiniteSet(S \ {s}) /\ Cardinality(S \ {s}) = Cardinality(S) - 1
  BY FS_RemoveElement
<1>3. Below(S, s) = S \ {s}
  BY <1>1, <1>2, FS_Subset
<1>4. ASSUME NEW t \in S PROVE t <= s
  <2>1. t \in Nat /\ s \in Nat
    OBVIOUS
  <2>2. CASE t = s
    BY <2>1, <2>2
  <2>3. CASE t # s
    BY <2>1, <2>3, <1>3 DEF Below
  <2>. QED
    BY <2>2, <2>3
<1>. QED
  BY <1>4

\* What is replayed of a conversation, in order: the last turn that was answered is the last.
LEMMA HistoryEnds ==
    ASSUME NEW chat, IsFiniteSet(AnsweredTurns(chat)), AnsweredTurns(chat) \in SUBSET Nat
    PROVE  /\ History(chat) \in Seq(AnsweredTurns(chat)) /\ Rising(History(chat))
           /\ AnsweredTurns(chat) # {} =>
                 /\ History(chat) # <<>>
                 /\ \A j \in AnsweredTurns(chat) : j <= History(chat)[Len(History(chat))]
<1> DEFINE A == AnsweredTurns(chat)
           S == Recent(chat)
           n == Cardinality(S)
           Nth(i) == CHOOSE k \in S : Cardinality(Below(S, k)) = i - 1
           h == [i \in 1..n |-> Nth(i)]
<1>1. S \subseteq A /\ S \in SUBSET Nat /\ IsFiniteSet(S)
  BY FS_Subset DEF Recent
<1>2. n \in Nat
  BY <1>1, FS_CardinalityType
<1>3. History(chat) = h
  BY DEF History, Below
<1>4. FirstOf(S, n) = h
  BY <1>2 DEF FirstOf, Below
<1>5. \A m \in A : (\A j \in A : j <= m) => m \in S
  <2> SUFFICES ASSUME NEW m \in A, \A j \in A : j <= m PROVE m \in S
    OBVIOUS
  <2>1. {j \in A : j > m} = {}
    <3>1. \A j \in A : j \in Nat /\ m \in Nat /\ j <= m
      OBVIOUS
    <3>2. \A j \in A : ~(j > m)
      BY <3>1
    <3>. QED
      BY <3>2
  <2>2. Cardinality({}) = 0 /\ 0 < HistoryTurns
    <3>1. 0 < HistoryTurns
      BY AssistantAssumption
    <3>. QED
      BY <3>1, FS_EmptySet
  <2>3. Cardinality({j \in A : j > m}) < HistoryTurns
    BY <2>1, <2>2
  <2>. QED
    BY <2>3 DEF Recent
<1> HIDE DEF A, S, n
<1>6. h \in Seq(S) /\ Rising(h)
  BY <1>1, <1>2, <1>4, FirstRise
<1>7. DOMAIN h = 1..n /\ \A i \in 1..n : h[i] = Nth(i)
  OBVIOUS
<1> HIDE DEF h, Nth
<1>8. h \in Seq(A)
  <2>1. Len(h) \in Nat /\ h \in [1..Len(h) -> S]
    BY <1>6
  <2>2. \A i \in 1..Len(h) : h[i] \in A
    BY <1>1, <2>1
  <2>3. h \in [1..Len(h) -> A]
    BY <2>1, <2>2
  <2>. QED
    BY <2>1, <2>3
<1>9. ASSUME A # {} PROVE h # <<>> /\ \A j \in A : j <= h[Len(h)]
  <2>1. IsFiniteSet(A) /\ A \in SUBSET Nat /\ Cardinality(A) \in Nat /\ Cardinality(A) # 0
    BY <1>9, FS_CardinalityType, FS_EmptySet DEF A
  <2>2. Cardinality(A) - 1 \in 0..(Cardinality(A) - 1)
    BY <2>1
  <2>3. PICK m \in A : Cardinality(Below(A, m)) = Cardinality(A) - 1
    BY <2>1, <2>2, NoGap
  <2>4. \A j \in A : j <= m
    BY <2>1, <2>3, TopOf
  <2>5. m \in S
    BY <1>5, <2>4
  <2>6. n # 0 /\ n - 1 \in 0..(n - 1) /\ n \in 1..n
    <3>1. n # 0
      BY <1>1, <2>5, FS_EmptySet DEF n
    <3>. QED
      BY <1>2, <3>1
  <2>7. \E k \in S : Cardinality(Below(S, k)) = n - 1
    BY <1>1, <2>6, NoGap DEF n
  <2>8. Nth(n) \in S /\ Cardinality(Below(S, Nth(n))) = n - 1
    BY <2>7 DEF Nth
  <2>9. \A t \in S : t <= Nth(n)
    BY <1>1, <2>8, TopOf DEF n
  <2>10. Len(h) = n /\ h[Len(h)] = Nth(n) /\ h # <<>>
    <3>1. Len(h) \in Nat /\ DOMAIN h = 1..Len(h)
      BY <1>6
    <3>2. Len(h) = n
      BY <1>2, <1>7, <3>1
    <3>. QED
      BY <1>7, <2>6, <3>1, <3>2
  <2>11. \A j \in A : j \in Nat /\ j <= m /\ m \in Nat /\ m <= Nth(n) /\ Nth(n) \in Nat
    BY <1>1, <2>1, <2>4, <2>5, <2>8, <2>9
  <2>. QED
    BY <2>10, <2>11
<1>. QED
  BY <1>3, <1>6, <1>8, <1>9 DEF A

ExchangeFields == {"chat", "intent", "bypass", "state", "context", "before", "did"}

\* What is replayed with a turn, and what had been answered when it began.
Reminded(t) ==
    /\ \A i \in DOMAIN t.context : t.context[i] \in t.before
    /\ \A i \in DOMAIN t.context : i > 1 => t.context[i - 1] < t.context[i]
    /\ (t.intent = "unknown" /\ t.before # {}) =>
          /\ t.context # <<>>
          /\ \A j \in t.before : j <= t.context[Len(t.context)]

ReminderInv ==
    /\ \E S : exchanges \in Seq(S)
    /\ \A k \in DOMAIN exchanges : DOMAIN exchanges[k] = ExchangeFields /\ Reminded(exchanges[k])

LEMMA ReminderInitInv == AssistantInit => ReminderInv
<1> SUFFICES ASSUME AssistantInit PROVE ReminderInv
  OBVIOUS
<1>1. exchanges \in Seq({}) /\ DOMAIN exchanges = {}
  BY DEF AssistantInit
<1>. QED
  BY <1>1 DEF ReminderInv

LEMMA ReminderStutters == ReminderInv /\ UNCHANGED assistantVars => ReminderInv'
BY DEF ReminderInv, assistantVars

LEMMA ReminderHolds == ReminderInv => LastTurnRemembered
BY DEF ReminderInv, Reminded, LastTurnRemembered

LEMMA TurnAsked ==
    ASSUME ReminderInv, NEW q, NEW chat, NEW intent, NEW bypass, AskAssistant(q, chat, intent, bypass)
    PROVE  ReminderInv'
<1> PICK c : c = IF intent = "unknown" THEN History(chat) ELSE <<>>
  OBVIOUS
<1> PICK t : t = [chat |-> chat, intent |-> intent, bypass |-> bypass, state |-> "open",
                  context |-> c, before |-> AnsweredTurns(chat), did |-> {}]
  OBVIOUS
<1>1. exchanges' = Append(exchanges, t)
  BY DEF AskAssistant
<1>2. PICK S : exchanges \in Seq(S)
  BY DEF ReminderInv
<1>3. Len(exchanges) \in Nat /\ DOMAIN exchanges = 1..Len(exchanges)
  BY <1>2
<1>4. IsFiniteSet(AnsweredTurns(chat)) /\ AnsweredTurns(chat) \in SUBSET Nat
  <2>1. AnsweredTurns(chat) \subseteq 1..Len(exchanges)
    BY <1>3 DEF AnsweredTurns
  <2>2. IsFiniteSet(1..Len(exchanges))
    BY <1>3, FS_Interval
  <2>. QED
    BY <1>3, <2>1, <2>2, FS_Subset
<1>5. /\ t.context = c /\ t.before = AnsweredTurns(chat) /\ t.intent = intent /\ DOMAIN t = ExchangeFields
  BY DEF ExchangeFields
<1>6. Reminded(t)
  <2>1. CASE intent = "unknown"
    <3> PICK A : A = AnsweredTurns(chat)
      OBVIOUS
    <3>1. /\ c \in Seq(A) /\ Rising(c)
          /\ A # {} => c # <<>> /\ \A j \in A : j <= c[Len(c)]
      BY <1>4, <2>1, HistoryEnds
    <3>2. \A i \in DOMAIN c : c[i] \in A /\ (i > 1 => i - 1 \in DOMAIN c /\ i - 1 < i)
      <4>1. Len(c) \in Nat /\ DOMAIN c = 1..Len(c) /\ c \in [1..Len(c) -> A]
        BY <3>1
      <4>. QED
        BY <4>1
    <3>3. \A i \in DOMAIN c : i > 1 => c[i - 1] < c[i]
      BY <3>1, <3>2 DEF Rising
    <3>. QED
      BY <1>5, <3>1, <3>2, <3>3 DEF Reminded
  <2>2. CASE intent # "unknown"
    <3>1. c = <<>> /\ DOMAIN c = {}
      BY <2>2
    <3>. QED
      BY <1>5, <2>2, <3>1 DEF Reminded
  <2>. QED
    BY <2>1, <2>2
<1>7. exchanges' \in Seq(S \cup {t})
  <2>1. exchanges \in Seq(S \cup {t})
    BY <1>2
  <2>. QED
    BY <1>1, <2>1
<1>8. DOMAIN exchanges' = 1..(Len(exchanges) + 1)
      /\ \A k \in DOMAIN exchanges' : exchanges'[k] = t \/ (k \in DOMAIN exchanges /\ exchanges'[k] = exchanges[k])
  BY <1>1, <1>2, <1>3
<1>9. \A k \in DOMAIN exchanges' : DOMAIN exchanges'[k] = ExchangeFields /\ Reminded(exchanges'[k])
  BY <1>5, <1>6, <1>8 DEF ReminderInv
<1>. QED
  BY <1>7, <1>9 DEF ReminderInv, Reminded

\* A turn ends: what it was reminded of stays.
LEMMA TurnEnds ==
    ASSUME ReminderInv, NEW k, NEW x, NEW d,
           exchanges' = [exchanges EXCEPT ![k].state = x] \/ exchanges' = [exchanges EXCEPT ![k].state = x, ![k].did = d]
    PROVE  ReminderInv'
<1>1. PICK S : exchanges \in Seq(S)
  BY DEF ReminderInv
<1>2. PICK r : r = [exchanges[k] EXCEPT !.state = x] \/ r = [exchanges[k] EXCEPT !.state = x, !.did = d]
  OBVIOUS
<1> PICK r1 : r1 = [exchanges[k] EXCEPT !.state = x]
  OBVIOUS
<1> PICK r2 : r2 = [exchanges[k] EXCEPT !.state = x, !.did = d]
  OBVIOUS
<1>3. exchanges' = [exchanges EXCEPT ![k] = r1] \/ exchanges' = [exchanges EXCEPT ![k] = r2]
  OBVIOUS
<1>4. ASSUME DOMAIN exchanges[k] = ExchangeFields, NEW z \in {r1, r2}
      PROVE  DOMAIN z = ExchangeFields /\ z.context = exchanges[k].context /\ z.before = exchanges[k].before
             /\ z.intent = exchanges[k].intent
  BY <1>4 DEF ExchangeFields
<1>5. exchanges' \in Seq(S \cup {r1, r2}) /\ DOMAIN exchanges' = DOMAIN exchanges
  <2>1. exchanges \in Seq(S \cup {r1, r2})
    BY <1>1
  <2>. QED
    BY <1>3, <2>1
<1>6. ASSUME NEW j \in DOMAIN exchanges PROVE DOMAIN exchanges'[j] = ExchangeFields /\ Reminded(exchanges'[j])
  <2>1. DOMAIN exchanges[j] = ExchangeFields /\ Reminded(exchanges[j])
    BY DEF ReminderInv
  <2>2. exchanges'[j] = exchanges[j] \/ (j = k /\ exchanges'[j] \in {r1, r2})
    BY <1>3
  <2>3. CASE exchanges'[j] = exchanges[j]
    BY <2>1, <2>3
  <2>4. CASE j = k /\ exchanges'[j] \in {r1, r2}
    BY <2>1, <2>4, <1>4 DEF Reminded
  <2>. QED
    BY <2>2, <2>3, <2>4
<1>. QED
  BY <1>5, <1>6 DEF ReminderInv, Reminded

LEMMA ReminderStepInv == ReminderInv /\ AssistantNext => ReminderInv'
<1> SUFFICES ASSUME ReminderInv, AssistantNext PROVE ReminderInv'
  OBVIOUS
<1>1. ASSUME NEW q, NEW chat, NEW intent, NEW bypass, AskAssistant(q, chat, intent, bypass) PROVE ReminderInv'
  BY <1>1, TurnAsked
<1>2. ASSUME NEW q, AnswerTurn(q) PROVE ReminderInv'
  BY <1>2, TurnEnds DEF AnswerTurn
<1>3. ASSUME NEW q, Fail(q) \/ LoseTurn(q) PROVE ReminderInv'
  BY <1>3, TurnEnds DEF Fail, LoseTurn
<1>. QED
  BY <1>1, <1>2, <1>3 DEF AssistantNext

================================================================================
