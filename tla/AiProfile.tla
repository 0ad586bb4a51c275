------------------------------- MODULE AiProfile -------------------------------
(***************************************************************************)
(* A person's AI profile (gw/profile_platform.py): fields under a revision,   *)
(* consent by category, goals, learned observations and the onboarding, and   *)
(* what of them a model request is shown (orch/profile/context_builder.py).   *)
(*                                                                          *)
(* A request reads when it begins and writes, by key, when it commits.        *)
(***************************************************************************)
EXTENDS Naturals, FiniteSets

CONSTANTS People,          \* clients, each with one request open at a time
          CurrentGoals,    \* outcomes a person may have at once (3 in create_goal)
          Observations,    \* rows of learned suggestions
          MaxProfileCalls  \* bound on the requests

ASSUME ProfileAssumption == CurrentGoals \in Nat /\ MaxProfileCalls \in Nat /\ IsFiniteSet(People)

VARIABLES
    profile,     \* revision (0: no row), declared keys, categories withheld
    sees,        \* per client: revision and content it was last shown
    content,     \* number of the profile's last change
    goals,       \* active and other goals
    learned,     \* the observations
    onboarding,  \* "none" is the view's not_started: no row is committed so
    calling,     \* per client: its open request
    withdrawn,   \* categories whose last committed word was no
    refused,     \* keys whose last decision was a rejection
    finished,    \* an onboarding was completed
    blindly,     \* an update passed over a change its client had not been shown
    overlapped,  \* kinds of requests that committed over another of their kind
    byHand,      \* goals made active by an edit
    profileCalls

profileVars == <<profile, sees, content, goals, learned, onboarding, calling, withdrawn,
                 refused, finished, blindly, overlapped, byHand, profileCalls>>

\* Keys of a profile, and the two that a person's profile cannot do without.
DeclaredKey == {"timezone", "tone", "format"}
Category == {"identity", "communication", "goals"}
NoObservation == [state |-> "none", key |-> "tone", expired |-> FALSE]
NoCalling == [op |-> "none"]

ProfileTypeOK ==
    /\ profile \in [revision : Nat, declared : SUBSET DeclaredKey, withheld : SUBSET Category]
    /\ sees \in [People -> [revision : Nat, content : Nat]]
    /\ content \in Nat
    /\ goals \in [active : Nat, other : Nat]
    /\ learned \in [Observations -> [state : {"none", "suggested", "confirmed", "rejected"},
                                     key : DeclaredKey, expired : BOOLEAN]]
    /\ onboarding \in {"none", "in_progress", "completed"}
    /\ \A q \in People : calling[q].op \in {"none", "update", "goal", "record", "reset", "patch"}
    /\ withdrawn \subseteq Category /\ refused \subseteq DeclaredKey
    /\ {finished, blindly} \subseteq BOOLEAN
    /\ overlapped \subseteq {"update", "goal", "record"}
    /\ byHand \in Nat /\ profileCalls \in 0..MaxProfileCalls

--------------------------------------------------------------------------------
(* What a model request is shown *)

\* _PURPOSE_ALLOWLIST, of the facets modelled.
Facets(purpose) ==
    CASE purpose = "planning"         -> {"identity_tz", "goals"}
      [] purpose = "drafting"         -> {"communication"}
      [] purpose = "knowledge"        -> {"communication_format", "goals_selected"}
      [] purpose = "agent_delegation" -> {"goals_selected"}
      [] purpose = "assistant"        -> {"identity_tz", "communication"}

Purposes == {"planning", "drafting", "knowledge", "agent_delegation", "assistant"}

\* _CONSENT_FOR
ConsentFor(facet) ==
    CASE facet = "identity_tz"                                 -> "identity"
      [] facet \in {"communication", "communication_format"}   -> "communication"
      [] facet \in {"goals", "goals_selected"}                 -> "goals"

\* A category without a word is allowed.
Permitted(purpose, facet) ==
    facet \in Facets(purpose) /\ ConsentFor(facet) \notin profile.withheld

Confirmed == {learned[o].key : o \in {x \in Observations : learned[x].state = "confirmed"
                                                          /\ ~learned[x].expired}}

\* build: declared keys; the format alone where only that is allowed.
Declared(purpose) ==
    {k \in profile.declared :
        \/ k = "timezone" /\ Permitted(purpose, "identity_tz")
        \/ k \in {"tone", "format"} /\ Permitted(purpose, "communication")
        \/ k = "format" /\ Permitted(purpose, "communication_format")}

\* _overlay_observations: gaps are filled; where the format alone is allowed
\* every learned key of the communication passes.
Overlaid(purpose) ==
    {k \in Confirmed :
        IF k = "timezone" THEN Permitted(purpose, "identity_tz")
        ELSE Permitted(purpose, "communication") \/ Permitted(purpose, "communication_format")}

ShownGoals(purpose) ==
    IF goals.active > 0 /\ (Permitted(purpose, "goals") \/ Permitted(purpose, "goals_selected"))
    THEN {"goals"} ELSE {}

CategoryOf(shown) ==
    IF shown = "timezone" THEN "identity" ELSE IF shown = "goals" THEN "goals" ELSE "communication"

Projection(purpose) ==
    IF profile.revision = 0 THEN {}
    ELSE Declared(purpose) \cup Overlaid(purpose) \cup ShownGoals(purpose)

--------------------------------------------------------------------------------
Count(q) == calling[q] = NoCalling /\ profileCalls < MaxProfileCalls /\ profileCalls' = profileCalls + 1

\* get_ai_profile
ViewProfile(q) ==
    /\ calling[q] = NoCalling
    /\ sees' = [sees EXCEPT ![q] = [revision |-> profile.revision, content |-> content]]
    /\ UNCHANGED <<profile, content, goals, learned, onboarding, calling, withdrawn, refused,
                   finished, blindly, overlapped, byHand, profileCalls>>

\* Mutant of Matches: any revision is accepted.
AnyMatches(q) == TRUE

\* A first update needs no revision.
Matches(q) == profile.revision = 0 \/ sees[q].revision = profile.revision

\* apply_profile_update up to its flush: what will be written is made of what was read.
BeginUpdate(q, declared, no, yes) ==
    /\ Count(q) /\ Matches(q)
    /\ calling' = [calling EXCEPT ![q] = [op |-> "update", base |-> content, old |-> profile,
                                          declared |-> declared, no |-> no, yes |-> yes]]
    /\ blindly' = (blindly \/ (profile.revision # 0 /\ sees[q].content # content))
    /\ UNCHANGED <<profile, sees, content, goals, learned, onboarding, withdrawn, refused,
                   finished, overlapped, byHand>>

\* Mutant of Consent: the consent given replaces what was said before.
ConsentReplaced(c) == c.no

\* The categories withheld: the stored word, and what the update says of some.
Consent(c) == (c.old.withheld \ c.yes) \cup c.no

\* The unique index lets one first row pass; columns not given stay.
CommitUpdate(q) ==
    LET c == calling[q] IN
    /\ c.op = "update"
    /\ (c.old.revision = 0) = (profile.revision = 0)
    /\ profile' = [revision |-> c.old.revision + 1, declared |-> c.declared,
                   withheld |-> IF c.no \cup c.yes = {} THEN profile.withheld ELSE Consent(c)]
    /\ content' = content + 1
    /\ sees' = [sees EXCEPT ![q] = [revision |-> c.old.revision + 1, content |-> content + 1]]
    /\ withdrawn' = (withdrawn \ c.yes) \cup c.no
    /\ overlapped' = overlapped \cup (IF c.base # content THEN {"update"} ELSE {})
    /\ calling' = [calling EXCEPT ![q] = NoCalling]
    /\ UNCHANGED <<goals, learned, onboarding, refused, finished, blindly, byHand, profileCalls>>

\* A first row that comes second is refused by the index: the request fails.
InsertRefused(q) ==
    /\ calling[q].op = "update" /\ calling[q].old.revision = 0 /\ profile.revision # 0
    /\ calling' = [calling EXCEPT ![q] = NoCalling]
    /\ UNCHANGED <<profile, sees, content, goals, learned, onboarding, withdrawn, refused,
                   finished, blindly, overlapped, byHand, profileCalls>>

\* import_legacy: fills a gap and leaves the revision.
ImportLegacy(q) ==
    /\ Count(q) /\ "timezone" \notin profile.declared
    /\ profile' = [profile EXCEPT !.declared = @ \cup {"timezone"},
                                  !.revision = IF @ = 0 THEN 1 ELSE @]
    /\ content' = content + 1
    /\ overlapped' = overlapped \cup {"update"}
    /\ sees' = [sees EXCEPT ![q] = [revision |-> profile'.revision, content |-> content + 1]]
    /\ UNCHANGED <<goals, learned, onboarding, calling, withdrawn, refused, finished, blindly, byHand>>

--------------------------------------------------------------------------------
\* Mutant of GoalStatus: goals are not counted.
GoalStatusActive == "active"

\* create_goal: the goals counted when the request began.
GoalStatus == IF goals.active < CurrentGoals THEN "active" ELSE "other"

BeginGoal(q) ==
    /\ Count(q)
    /\ calling' = [calling EXCEPT ![q] = [op |-> "goal", status |-> GoalStatus, base |-> goals.active]]
    /\ UNCHANGED <<profile, sees, content, goals, learned, onboarding, withdrawn, refused,
                   finished, blindly, overlapped, byHand>>

CommitGoal(q) ==
    /\ calling[q].op = "goal"
    /\ goals' = IF calling[q].status = "active" THEN [goals EXCEPT !.active = @ + 1]
                ELSE [goals EXCEPT !.other = @ + 1]
    /\ overlapped' = overlapped \cup (IF calling[q].base # goals.active THEN {"goal"} ELSE {})
    /\ calling' = [calling EXCEPT ![q] = NoCalling]
    /\ UNCHANGED <<profile, sees, content, learned, onboarding, withdrawn, refused,
                   finished, blindly, byHand, profileCalls>>

\* update_goal counts nothing.
UpdateGoal(q, status) ==
    /\ Count(q)
    /\ IF status = "active"
       THEN /\ goals.other > 0 /\ byHand' = byHand + 1
            /\ goals' = [active |-> goals.active + 1, other |-> goals.other - 1]
       ELSE /\ goals.active > 0 /\ byHand' = byHand
            /\ goals' = [active |-> goals.active - 1, other |-> goals.other + 1]
    /\ UNCHANGED <<profile, sees, content, learned, onboarding, calling, withdrawn, refused,
                   finished, blindly, overlapped>>

DeleteGoal(q) ==
    /\ Count(q) /\ goals.active > 0
    /\ goals' = [goals EXCEPT !.active = @ - 1]
    /\ UNCHANGED <<profile, sees, content, learned, onboarding, calling, withdrawn, refused,
                   finished, blindly, overlapped, byHand>>

--------------------------------------------------------------------------------
\* Mutant of Known: a rejected value may be suggested again.
KnownOpen(key) == \E o \in Observations : learned[o].state \in {"suggested", "confirmed"} /\ learned[o].key = key

\* record_observation: a value that is known, a rejected one too, is not recorded.
Known(key) == \E o \in Observations : learned[o].state # "none" /\ learned[o].key = key

BeginRecord(q, key) ==
    /\ Count(q) /\ ~Known(key)
    /\ calling' = [calling EXCEPT ![q] = [op |-> "record", key |-> key]]
    /\ UNCHANGED <<profile, sees, content, goals, learned, onboarding, withdrawn, refused,
                   finished, blindly, overlapped, byHand>>

CommitRecord(q) ==
    /\ calling[q].op = "record"
    /\ \E o \in Observations :
          /\ learned[o].state = "none"
          /\ learned' = [learned EXCEPT ![o] = [state |-> "suggested", key |-> calling[q].key,
                                                expired |-> FALSE]]
    /\ overlapped' = overlapped \cup (IF Known(calling[q].key) THEN {"record"} ELSE {})
    /\ calling' = [calling EXCEPT ![q] = NoCalling]
    /\ UNCHANGED <<profile, sees, content, goals, onboarding, withdrawn, refused,
                   finished, blindly, byHand, profileCalls>>

\* decide_observation: whatever was decided before.
DecideObservation(o, state) ==
    /\ learned[o].state \notin {"none", state}
    /\ learned' = [learned EXCEPT ![o].state = state]
    /\ refused' = IF state = "rejected" THEN refused \cup {learned[o].key}
                  ELSE refused \ {learned[o].key}
    /\ UNCHANGED <<profile, sees, content, goals, onboarding, calling, withdrawn,
                   finished, blindly, overlapped, byHand, profileCalls>>

\* An observation's ninety days are over.
Expire(o) ==
    /\ learned[o].state # "none" /\ ~learned[o].expired
    /\ learned' = [learned EXCEPT ![o].expired = TRUE]
    /\ UNCHANGED <<profile, sees, content, goals, onboarding, calling, withdrawn, refused,
                   finished, blindly, overlapped, byHand, profileCalls>>

\* Mutant of Forgotten: everything learned is deleted.
ForgottenAll == {o \in Observations : learned[o].state # "none"}

\* reset_learned: rejections stay, to suppress.
Forgotten == {o \in Observations : learned[o].state \in {"suggested", "confirmed"}}

BeginReset(q) ==
    /\ Count(q) /\ Forgotten # {}
    /\ calling' = [calling EXCEPT ![q] = [op |-> "reset", rows |-> Forgotten, before |-> learned]]
    /\ UNCHANGED <<profile, sees, content, goals, learned, onboarding, withdrawn, refused,
                   finished, blindly, overlapped, byHand>>

CommitReset(q) ==
    /\ calling[q].op = "reset"
    /\ learned' = [o \in Observations |-> IF o \in calling[q].rows THEN NoObservation ELSE learned[o]]
    /\ overlapped' = overlapped \cup
          (IF \E o \in calling[q].rows : learned[o].state # calling[q].before[o].state
           THEN {"record"} ELSE {})
    /\ calling' = [calling EXCEPT ![q] = NoCalling]
    /\ UNCHANGED <<profile, sees, content, goals, onboarding, withdrawn, refused,
                   finished, blindly, byHand, profileCalls>>

--------------------------------------------------------------------------------
\* Mutant of Patched: every patch puts the flow in progress.
PatchedAlways(before) == "in_progress"

\* patch_onboarding: only a flow not begun is put in progress; "as is" writes nothing.
Patched(before) == IF before = "none" THEN "in_progress" ELSE "as is"

BeginPatch(q) ==
    /\ Count(q)
    /\ calling' = [calling EXCEPT ![q] = [op |-> "patch", new |-> onboarding = "none",
                                          status |-> Patched(onboarding)]]
    /\ UNCHANGED <<profile, sees, content, goals, learned, onboarding, withdrawn, refused,
                   finished, blindly, overlapped, byHand>>

\* Of two first rows the index lets one pass.
CommitPatch(q) ==
    LET c == calling[q] IN
    /\ c.op = "patch"
    /\ onboarding' = IF (c.new /\ onboarding # "none") \/ c.status = "as is" THEN onboarding
                     ELSE c.status
    /\ calling' = [calling EXCEPT ![q] = NoCalling]
    /\ UNCHANGED <<profile, sees, content, goals, learned, withdrawn, refused, finished,
                   blindly, overlapped, byHand, profileCalls>>

\* complete_onboarding: a time zone (and use cases, here declared with the tone).
CompleteOnboarding(q) ==
    /\ Count(q) /\ {"timezone", "tone"} \subseteq profile.declared
    /\ onboarding' = "completed" /\ finished' = TRUE
    /\ UNCHANGED <<profile, sees, content, goals, learned, calling, withdrawn, refused,
                   blindly, overlapped, byHand>>

--------------------------------------------------------------------------------
ProfileInit ==
    /\ profile = [revision |-> 0, declared |-> {}, withheld |-> {}]
    /\ sees = [q \in People |-> [revision |-> 0, content |-> 0]] /\ content = 0
    /\ goals = [active |-> 0, other |-> 0]
    /\ learned = [o \in Observations |-> NoObservation]
    /\ onboarding = "none" /\ calling = [q \in People |-> NoCalling]
    /\ withdrawn = {} /\ refused = {} /\ finished = FALSE /\ blindly = FALSE
    /\ overlapped = {} /\ byHand = 0 /\ profileCalls = 0

ProfileNext ==
    \/ \E q \in People :
          \/ ViewProfile(q)
          \/ \E declared \in {{"tone"}, {"timezone", "tone", "format"}},
                c \in {{}, {"communication"}, {"goals"}}, d \in BOOLEAN :
                BeginUpdate(q, declared, IF d THEN c ELSE {}, IF d THEN {} ELSE c)
          \/ CommitUpdate(q) \/ InsertRefused(q) \/ ImportLegacy(q)
          \/ BeginGoal(q) \/ CommitGoal(q) \/ DeleteGoal(q)
          \/ \E status \in {"active", "other"} : UpdateGoal(q, status)
          \/ BeginRecord(q, "tone")
          \/ CommitRecord(q) \/ BeginReset(q) \/ CommitReset(q)
          \/ BeginPatch(q) \/ CommitPatch(q) \/ CompleteOnboarding(q)
    \/ \E o \in Observations : Expire(o) \/ DecideObservation(o, "confirmed") \/ DecideObservation(o, "rejected")

--------------------------------------------------------------------------------
\* An update is made by someone who was shown what it changes; only updates that
\* crossed and imports, which keep the revision, let one pass blindly.
UpdatesFromNewest == blindly => "update" \in overlapped

\* What a person withdrew consent for is in no projection, declared or learned.
WithdrawnStays ==
    "update" \in overlapped \/
    \A purpose \in Purposes, shown \in DeclaredKey \cup {"goals"} :
        shown \in Projection(purpose) => CategoryOf(shown) \notin withdrawn

\* A suggestion that was rejected does not come back, not after a reset either,
\* unless a decision and a reset, or two recordings, crossed.
RejectedStays ==
    "record" \in overlapped \/
    \A o \in Observations : learned[o].state = "suggested" => learned[o].key \notin refused

\* A person's active goals stay within their number, but for edits and overlap.
GoalsBounded == goals.active <= CurrentGoals + byHand + (IF "goal" \in overlapped
                                                        THEN Cardinality(People) - 1 ELSE 0)

\* A completed onboarding never opens again, however patches and completions cross.
OnboardingStays == finished => onboarding = "completed"
================================================================================
