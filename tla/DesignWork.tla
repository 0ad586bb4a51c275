------------------------------- MODULE DesignWork ------------------------------
(* Work from an idea.  The designer, another service, proposes plans, designs the *)
(* chosen one as a roadmap of batches and reviews designs; a design becomes a      *)
(* project with one task per batch, a review becomes signals and risk of it.       *)
EXTENDS Integers, Sequences

CONSTANTS
    Makers,       \* requests for plans, designs and reviews
    DesignIds,    \* identifiers that projects may get
    OldProjects,     \* the projects that are there, made without a design
    Unfound,      \* an identifier of no project
    Roadmaps,     \* designs: per batch in order the batches it depends on
    FindingSets,  \* reviews: the severities, in the designer's words, of the findings
    MaxIntakes,   \* bound: designs taken in
    MaxReviews,   \* bound: reviews applied
    SignalLimit   \* signals that a project keeps (8 in the code)

ASSUME DesignAssumption == Unfound \notin DesignIds /\ SignalLimit \in Nat \ {0}

VARIABLES
    making,   \* per request: what it waits for and holds
    designed,  \* the projects
    intakes,   \* per design taken in: its project, roadmap and the states of its tasks
    verdicts,  \* per review: its project, its findings and whether it was applied
    crossedReviews,   \* reviews whose writing overlapped another's of the same project
    blockers   \* reviews for which a blocker was raised

designVars == <<making, designed, intakes, verdicts, crossedReviews, blockers>>

NotMaking == [step |-> "none", project |-> Unfound, repository |-> FALSE, findings |-> {},
              seen |-> <<>>, risk |-> "low", number |-> 0]
NoDesign == [there |-> FALSE, repository |-> FALSE, risk |-> "low", signals |-> <<>>, input |-> 0]

\* What a making waits for: the designer's plans or a design to show, a design to
\* take in or to have reviewed, a review, or its write.
Steps == {"none", "propose", "bundle", "design", "review", "write"}

DesignTypeOK ==
    /\ DOMAIN making = Makers
    /\ \A w \in Makers :
          /\ making[w].step \in Steps
          /\ making[w].findings \in FindingSets \cup {{}}
    /\ \A p \in DesignIds :
          /\ designed[p].risk \in {"low", "medium", "high"}
          /\ designed[p].signals \in Seq(0..MaxReviews) /\ Len(designed[p].signals) <= SignalLimit
    /\ Len(intakes) <= MaxIntakes /\ Len(verdicts) <= MaxReviews
    /\ crossedReviews \subseteq 1..MaxReviews /\ blockers \subseteq 1..MaxReviews

DesignInit ==
    /\ making = [w \in Makers |-> NotMaking]
    /\ designed = [p \in DesignIds |-> [NoDesign EXCEPT !.there = p \in OldProjects]]
    /\ intakes = <<>> /\ verdicts = <<>> /\ crossedReviews = {} /\ blockers = {}

\* A project is looked up by its identifier.
Found(p) == p \in DesignIds /\ designed[p].there

Go(w, next) == making' = [making EXCEPT ![w] = next]
StayPut == UNCHANGED <<designed, intakes, verdicts, crossedReviews, blockers>>

--------------------------------------------------------------------------------
(* The requests *)

KnownDesigns == {p \in DesignIds : designed[p].there} \cup {Unfound}

\* Plans to choose between, adjusted ones, and a design to look at change nothing.
AskPlans(w) ==
    /\ making[w].step = "none"
    /\ Go(w, [NotMaking EXCEPT !.step = "propose"])
    /\ StayPut

CreateBundle(w, p, repository) ==
    /\ making[w].step = "none" /\ p \in KnownDesigns
    /\ Go(w, [NotMaking EXCEPT !.step = "bundle", !.project = p, !.repository = repository])
    /\ StayPut

\* A review is of a design that is given, or of one designed for it from an idea; with
\* neither it is refused.
AskReview(w, p, document) ==
    /\ making[w].step = "none" /\ p \in KnownDesigns
    /\ Go(w, [NotMaking EXCEPT !.step = IF document THEN "review" ELSE "design", !.project = p])
    /\ StayPut

\* The designer refuses with a reason (400), cannot be reached or answers with an error
\* (502), or with what is not JSON (500): the making ends and has changed nothing.
Awaits(w) == making[w].step \in Steps \ {"none", "write"}
DesignerFails(w) ==
    /\ Awaits(w)
    /\ Go(w, NotMaking) /\ StayPut

PlansCome(w) ==
    /\ making[w].step = "propose"
    /\ Go(w, NotMaking) /\ StayPut

\* The design made for a review is sent back to be reviewed.
DesignToReview(w) ==
    /\ making[w].step = "design"
    /\ Go(w, [making[w] EXCEPT !.step = "review"]) /\ StayPut

--------------------------------------------------------------------------------
(* Taking in a design *)

\* Mutant: all but the first are scheduled.
TaskStatusByOrder(roadmap, i) == IF i = 1 THEN "active" ELSE "scheduled"

\* A batch that depends on others is blocked, the first is active.
TaskStatus(roadmap, i) ==
    IF roadmap[i] # {} THEN "blocked" ELSE IF i = 1 THEN "active" ELSE "scheduled"
TasksFor(roadmap) == [i \in DOMAIN roadmap |-> TaskStatus(roadmap, i)]

\* The project after the design: one that is there only gets to know of a repository.
TakenIn(p, w) ==
    IF Found(p) THEN [designed[p] EXCEPT !.repository = @ \/ making[w].repository]
    ELSE [NoDesign EXCEPT !.there = TRUE, !.repository = making[w].repository, !.signals = <<0>>]

\* An identifier that is not found is as none: another project is made.
IntakeBundle(w, roadmap) ==
    /\ making[w].step = "bundle" /\ Len(intakes) < MaxIntakes
    /\ \E p \in DesignIds :
          /\ IF Found(making[w].project) THEN p = making[w].project ELSE ~designed[p].there
          /\ designed' = [designed EXCEPT ![p] = TakenIn(p, w)]
          /\ intakes' = Append(intakes, [project |-> p, roadmap |-> roadmap,
                                         tasks |-> TasksFor(roadmap)])
    /\ Go(w, NotMaking)
    /\ UNCHANGED <<verdicts, crossedReviews, blockers>>

--------------------------------------------------------------------------------
(* Applying a review *)

\* Mutant: words as they come.
SeverityAsIs(word) == word

\* The designer's severities in review severities; words it does not know are minor.
SeverityOf(word) ==
    CASE word = "critical" -> "critical" [] word \in {"high", "major"} -> "major"
      [] word \in {"low", "info"} -> "info" [] OTHER -> "minor"
Severe(findings) == {SeverityOf(f) : f \in findings} \cap {"major", "critical"}
RiskOf(severe) == IF "critical" \in severe THEN "high" ELSE "medium"

\* When the review comes, the project is read; without one the review is told to the feed
\* alone.
ReviewComes(w, findings) ==
    /\ making[w].step = "review" /\ Len(verdicts) < MaxReviews
    /\ LET p == making[w].project
           n == Len(verdicts) + 1
           others == {v \in Makers : making[v].step = "write" /\ making[v].project = p}
       IN /\ verdicts' = Append(verdicts, [project |-> p, findings |-> findings,
                                           done |-> FALSE])
          /\ Go(w, [making[w] EXCEPT !.step = "write", !.number = n, !.findings = findings,
                                      !.seen = IF Found(p) THEN designed[p].signals ELSE <<>>,
                                      !.risk = IF Found(p) THEN designed[p].risk ELSE "low"])
          /\ crossedReviews' = IF others = {} THEN crossedReviews
                        ELSE crossedReviews \cup {n} \cup {making[v].number : v \in others}
    /\ UNCHANGED <<designed, intakes, blockers>>

\* Mutant: one signal less is kept.
OneLess(n, seen) ==
    LET all == <<n>> \o seen
    IN SubSeq(all, 1, IF Len(all) < SignalLimit THEN Len(all) ELSE SignalLimit - 1)

NewestFirst(n, seen) ==
    LET all == <<n>> \o seen IN SubSeq(all, 1, IF Len(all) < SignalLimit THEN Len(all) ELSE SignalLimit)

\* A risk that is as it was read is not written.
RiskAfter(w, now) ==
    LET severe == Severe(making[w].findings)
    IN IF severe = {} \/ RiskOf(severe) = making[w].risk THEN now ELSE RiskOf(severe)

\* What a review makes of its project.
Reviewed(p, w) ==
    LET n == making[w].number
    IN [designed[p] EXCEPT !.signals = NewestFirst(n, making[w].seen), !.input = n, !.risk = RiskAfter(w, @)]

ApplyReview(w) ==
    /\ making[w].step = "write"
    /\ LET p == making[w].project
           n == making[w].number
           severe == Severe(making[w].findings)
       IN /\ designed' = IF ~Found(p) THEN designed ELSE [designed EXCEPT ![p] = Reviewed(p, w)]
          /\ blockers' = IF severe = {} THEN blockers ELSE blockers \cup {n}
          /\ verdicts' = [verdicts EXCEPT ![n].done = TRUE]
    /\ Go(w, NotMaking)
    /\ UNCHANGED <<intakes, crossedReviews>>

DesignNext ==
    \E w \in Makers :
        \/ AskPlans(w)
        \/ \E p \in DesignIds \cup {Unfound} : \E given \in BOOLEAN :
              CreateBundle(w, p, given) \/ AskReview(w, p, given)
        \/ DesignerFails(w)
        \/ PlansCome(w)
        \/ DesignToReview(w)
        \/ \E roadmap \in Roadmaps : IntakeBundle(w, roadmap)
        \/ \E findings \in FindingSets : ReviewComes(w, findings)
        \/ ApplyReview(w)

--------------------------------------------------------------------------------
(* Properties *)

\* A task of a design that depends on another batch waits, whichever batch it is, and
\* only the first is active.
DependentsWait ==
    \A k \in DOMAIN intakes :
        \A i \in DOMAIN intakes[k].tasks :
            /\ intakes[k].roadmap[i] # {} <=> intakes[k].tasks[i] = "blocked"
            /\ intakes[k].tasks[i] = "active" => i = 1

\* A signal of a review stays on its project until newer reviews fill the list; only
\* reviews that were written at the same time take each other's away.
SignalsKept ==
    \A n \in DOMAIN verdicts :
        LET p == verdicts[n].project
            kept == designed[p].signals
        IN verdicts[n].done /\ Found(p) /\ n \notin crossedReviews /\ n \notin {kept[i] : i \in DOMAIN kept}
               => Len(kept) = SignalLimit /\ \A i \in DOMAIN kept : kept[i] > n

\* What a project shows is of one review: the input is of the review that its first
\* signal names, its risk is high if that review was critical, and if it was severe a blocker was
\* raised for it; only reviews written at the same time may leave another's risk.
LatestReviewShown ==
    \A p \in DesignIds :
        designed[p].input # 0 =>
            LET n == designed[p].input
            IN /\ Head(designed[p].signals) = n
               /\ verdicts[n].findings \cap {"critical", "high", "major"} # {}
                     => n \in blockers
               /\ "critical" \in verdicts[n].findings /\ n \notin crossedReviews => designed[p].risk = "high"
================================================================================
