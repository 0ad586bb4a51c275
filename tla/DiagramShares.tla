----------------------------- MODULE DiagramShares -----------------------------
(***************************************************************************)
(* One diagram, its revisions and its read-only links (routers/diagrams.py, *)
(* routers/diagram_shares.py).  A link shows the revision that was the head *)
(* when it was asked for, until it is revoked or expires.                   *)
(*                                                                          *)
(* A request reads when it opens and writes when it commits.                *)
(***************************************************************************)
EXTENDS Naturals, FiniteSets

CONSTANTS Sharers,        \* requests that may be open at once
          Links,          \* links that may be created
          MAX_ACTIVE_PER_DIAGRAM, MaxHours,
          MaxSaves, MaxClock, MaxSharings   \* bounds: revisions, hours, requests opened

ASSUME ShareAssumption ==
    /\ {MAX_ACTIVE_PER_DIAGRAM, MaxHours, MaxSaves, MaxClock, MaxSharings} \subseteq Nat \ {0}
    /\ IsFiniteSet(Sharers) /\ IsFiniteSet(Links)

VARIABLES
    head,       \* diagram.revision
    shelved,    \* diagram.archived
    links,      \* per link: the revision it shows, when it expires, whether it is revoked
    views,      \* per link
    sharing,    \* per request: what it does and what it has read
    clock, sharings

diagramRows == <<head, shelved, links, views>>
shareVars == <<diagramRows, sharing, clock, sharings>>

Link == [revision : 0..MaxSaves + 1, expires : 0..(MaxClock + MaxHours), revoked : BOOLEAN]
NoLink == [revision |-> 0, expires |-> 0, revoked |-> FALSE]
Sharing == [kind : {"none", "create", "save", "revoke", "view"}, link : Links,
            revision : 0..MaxSaves + 1, hours : 0..MaxHours, archive : {"keep", "yes", "no"}]
NoSharing == [kind |-> "none", link |-> CHOOSE l \in Links : TRUE, revision |-> 0, hours |-> 0,
              archive |-> "keep"]

ShareTypeOK ==
    /\ head \in 1..MaxSaves + 1 /\ shelved \in BOOLEAN /\ clock \in 0..MaxClock
    /\ links \in [Links -> Link] /\ views \in [Links -> 0..MaxSharings]
    /\ \A l \in Links : links[l].revision <= head
    /\ sharing \in [Sharers -> Sharing] /\ sharings \in 0..MaxSharings

--------------------------------------------------------------------------------

Exists(l) == links[l].revision > 0
ActiveAt(l, now) == Exists(l) /\ ~links[l].revoked /\ links[l].expires > now

StartSharing(q, loaded) ==
    /\ sharing[q].kind = "none" /\ sharings < MaxSharings
    /\ sharings' = sharings + 1
    /\ sharing' = [sharing EXCEPT ![q] = loaded]
    /\ UNCHANGED <<diagramRows, clock>>

DoneSharing(q) == sharing' = [sharing EXCEPT ![q] = NoSharing] /\ UNCHANGED <<clock, sharings>>

FailSharing(q) == sharing[q].kind # "none" /\ DoneSharing(q) /\ UNCHANGED diagramRows

--------------------------------------------------------------------------------
(* The diagram *)

\* save: a person's document on the revision they saw.
OpenSave(q, expected, archive) ==
    /\ head <= MaxSaves
    /\ StartSharing(q, [NoSharing EXCEPT !.kind = "save", !.revision = expected, !.archive = archive])

\* One compare-and-swap on the revision, or 409.
SaveRevision(q) ==
    LET c == sharing[q] IN
    /\ c.kind = "save" /\ head = c.revision /\ head <= MaxSaves
    /\ head' = c.revision + 1
    /\ shelved' = IF c.archive = "keep" THEN shelved ELSE (c.archive = "yes")
    /\ DoneSharing(q)
    /\ UNCHANGED <<links, views>>

--------------------------------------------------------------------------------
(* Links *)

\* create_share reads the diagram and counts the active links.
OpenShareUpTo(q, l, hours, most) ==
    /\ ~Exists(l) /\ ~shelved /\ hours > 0
    /\ \A p \in Sharers : sharing[p].kind = "create" => sharing[p].link # l
    /\ Cardinality({k \in Links : ActiveAt(k, clock)}) <= most
    /\ StartSharing(q, [NoSharing EXCEPT !.kind = "create", !.link = l, !.revision = head, !.hours = hours])

\* Mutant of OpenShare: one more than the limit.
OpenShareAtLimit(q, l, hours) == OpenShareUpTo(q, l, hours, MAX_ACTIVE_PER_DIAGRAM)
OpenShare(q, l, hours) == OpenShareUpTo(q, l, hours, MAX_ACTIVE_PER_DIAGRAM - 1)

CreateShare(q) ==
    LET c == sharing[q] IN
    /\ c.kind = "create"
    /\ links' = [links EXCEPT ![c.link] =
                    [revision |-> c.revision, expires |-> clock + c.hours, revoked |-> FALSE]]
    /\ DoneSharing(q)
    /\ UNCHANGED <<head, shelved, views>>

\* revoke_share: once; the first revocation's time stays unless two overlap.
OpenRevoke(q, l) ==
    /\ Exists(l) /\ ~links[l].revoked
    /\ StartSharing(q, [NoSharing EXCEPT !.kind = "revoke", !.link = l])

Revoke(q) ==
    /\ sharing[q].kind = "revoke"
    /\ links' = [links EXCEPT ![sharing[q].link].revoked = TRUE]
    /\ DoneSharing(q)
    /\ UNCHANGED <<head, shelved, views>>

\* lookup finds a link that is neither revoked nor expired; record_view counts in
\* one UPDATE.
OpenView(q, l) ==
    /\ ActiveAt(l, clock)
    /\ StartSharing(q, [NoSharing EXCEPT !.kind = "view", !.link = l])

View(q) ==
    /\ sharing[q].kind = "view"
    /\ views' = [views EXCEPT ![sharing[q].link] = @ + 1]
    /\ DoneSharing(q)
    /\ UNCHANGED <<head, shelved, links>>

HourPasses == clock < MaxClock /\ clock' = clock + 1 /\ UNCHANGED <<diagramRows, sharing, sharings>>

--------------------------------------------------------------------------------

ShareInit ==
    /\ head = 1 /\ shelved = FALSE /\ clock = 0 /\ sharings = 0
    /\ links = [l \in Links |-> NoLink] /\ views = [l \in Links |-> 0]
    /\ sharing = [q \in Sharers |-> NoSharing]

ShareNext ==
    \/ \E q \in Sharers :
          \/ \E expected \in 1..head, archive \in {"keep", "yes", "no"} : OpenSave(q, expected, archive)
          \/ \E l \in Links, hours \in 1..MaxHours : OpenShare(q, l, hours)
          \/ \E l \in Links : OpenRevoke(q, l) \/ OpenView(q, l)
          \/ SaveRevision(q) \/ CreateShare(q) \/ Revoke(q) \/ View(q) \/ FailSharing(q)
    \/ HourPasses

--------------------------------------------------------------------------------
(* Properties *)

\* "At most 20 active links per diagram": requests that counted before one
\* another's link was there may overshoot, by the number of requests open at
\* once less one and no more.
LinksBounded ==
    Cardinality({l \in Links : ActiveAt(l, clock)}) < MAX_ACTIVE_PER_DIAGRAM + Cardinality(Sharers)
================================================================================
