----------------------------- MODULE DeckRevisions -----------------------------
(***************************************************************************)
(* The edits of one presentation deck and the brand kits of its company     *)
(* (routers/presentations.py).  Every change of a deck is a new revision;   *)
(* an edit names the revision its author saw and is refused if the head has *)
(* moved on.                                                                *)
(*                                                                          *)
(* A request loads the rows it needs, checks them, may call an engine or a  *)
(* model, and then writes and commits in one statement sequence.  Building  *)
(* the revisions is PresentationRun's.                                      *)
(***************************************************************************)
EXTENDS Naturals

CONSTANTS Editing,        \* requests that may be open at once
          Slides, Wordings,
          Absent,         \* the wording of a slide that is not there
          MaxRevisions, MaxKits, MaxEditing   \* bounds

ASSUME DeckAssumption ==
    /\ Absent \notin Wordings
    /\ MaxRevisions \in Nat \ {0} /\ MaxKits \in Nat \ {0} /\ MaxEditing \in Nat

VARIABLES
    deckHead,    \* deck.head_revision
    revs,        \* the revisions 1..deckHead
    archived,
    kits,        \* number of brand kit versions
    activeKit,   \* company.active_brand_version
    request,     \* per request: what it does and what it has loaded
    firm,        \* per request: slides locked on its base ever since it opened
    kept,        \* per revision: the slides its edit found firm
    opened

deckRows == <<deckHead, revs, archived, kits, activeKit>>
deckVars == <<deckRows, request, firm, kept, opened>>

Story == {s \in [Slides -> Wordings \cup {Absent}] : \E x \in Slides : s[x] # Absent}
Present(story) == {x \in Slides : story[x] # Absent}
RevisionRow == [parent : 0..MaxRevisions, story : Story, locks : SUBSET Slides, brand : 1..MaxKits]
Edits == {"revise", "restore", "regenerate", "expert"}
RequestKind == Edits \cup {"none", "locks", "archive", "kit", "activate"}
\* What a request has loaded: the revision (or kit) it is about, the locks found
\* there, and the story, locks and kit it is going to write.
Loaded == [kind : RequestKind, base : 0..MaxRevisions, seen : SUBSET Slides, story : Story,
           locks : SUBSET Slides, kit : 0..MaxKits, flag : BOOLEAN]
NoRequest == [kind |-> "none", base |-> 0, seen |-> {}, story |-> [x \in Slides |-> CHOOSE w \in Wordings : TRUE],
              locks |-> {}, kit |-> 0, flag |-> FALSE]

DeckTypeOK ==
    /\ deckHead \in 1..MaxRevisions /\ revs \in [1..deckHead -> RevisionRow]
    /\ archived \in BOOLEAN
    /\ kits \in 1..MaxKits /\ activeKit \in 1..kits
    /\ \A r \in 1..deckHead : revs[r].brand <= kits
    /\ request \in [Editing -> Loaded] /\ firm \in [Editing -> SUBSET Slides]
    /\ kept \in [1..MaxRevisions -> SUBSET Slides]
    /\ opened \in 0..MaxEditing

--------------------------------------------------------------------------------
(* Requests *)

Open(q, loaded) ==
    /\ request[q].kind = "none" /\ opened < MaxEditing
    /\ opened' = opened + 1
    /\ request' = [request EXCEPT ![q] = loaded]
    /\ firm' = [firm EXCEPT ![q] = IF loaded.kind \in Edits THEN loaded.seen ELSE {}]
    /\ UNCHANGED <<deckRows, kept>>

\* The request ends.  What others found locked on revision r is firm for them
\* only while it stays locked.
Close(q, r, locks) ==
    /\ request' = [request EXCEPT ![q] = NoRequest]
    /\ firm' = [p \in Editing |-> IF p = q THEN {}
                                  ELSE IF request[p].base = r THEN firm[p] \cap locks ELSE firm[p]]
    /\ UNCHANGED opened

\* Refused, or the engine or the model fails: rolled back.
Refuse(q) ==
    /\ request[q].kind # "none"
    /\ Close(q, 0, {})
    /\ UNCHANGED <<deckRows, kept>>

OnRevision(base) == [NoRequest EXCEPT !.base = base, !.seen = revs[base].locks, !.kit = revs[base].brand]

--------------------------------------------------------------------------------
(* Edits *)

\* revise: a person's story and locks, on the deck's kit or on the current one.
OpenRevise(q, base, story, locks, rebrand) ==
    Open(q, [OnRevision(base) EXCEPT !.kind = "revise", !.story = story, !.locks = locks \cap Present(story),
                             !.kit = IF rebrand THEN activeKit ELSE @])

\* restore: an older revision's story, locks and kit; what locks it finds on the
\* base it lifts.
OpenRestore(q, base, old) ==
    Open(q, [OnRevision(base) EXCEPT !.kind = "restore", !.seen = {}, !.flag = revs[base].locks # {},
                             !.story = revs[old].story,
                             !.locks = IF old = base THEN {} ELSE revs[old].locks,
                             !.kit = revs[old].brand])

\* regenerate: a model rewrites slides of the head, none of them locked.
OpenRegenerate(q, story) ==
    LET head == revs[deckHead] IN
    /\ Present(story) = Present(head.story)
    /\ \A x \in head.locks : story[x] = head.story[x]
    /\ Open(q, [OnRevision(deckHead) EXCEPT !.kind = "regenerate", !.story = story, !.locks = head.locks])

\* expert: a script builds the slides; refused while one is locked.
OpenExpert(q, base) ==
    /\ revs[base].locks = {}
    /\ Open(q, [OnRevision(base) EXCEPT !.kind = "expert", !.story = revs[base].story])

\* Mutant of LocksRespected: a removed slide is not a changed one.
LocksRespectedIfThere(e) ==
    \A x \in e.seen \cap Present(e.story) : revs[e.base].story[x] = e.story[x]

\* The locks of the base, as they were loaded, hold.
LocksRespected(e) ==
    \A x \in e.seen \cap Present(revs[e.base].story) : revs[e.base].story[x] = e.story[x]

\* new_revision: a compare-and-swap of the head, then the revision's row.
ReviseWhen(q, current, number) ==
    LET e == request[q] IN
    /\ e.kind \in Edits /\ LocksRespected(e) /\ current /\ number <= MaxRevisions
    /\ deckHead' = number
    /\ revs' = [r \in 1..number |->
          IF r = number THEN [parent |-> e.base, story |-> e.story, locks |-> e.locks, brand |-> e.kit]
          ELSE IF r = e.base /\ e.flag THEN [revs[r] EXCEPT !.locks = {}] ELSE revs[r]]
    /\ kept' = [kept EXCEPT ![number] = firm[q]]
    /\ Close(q, IF e.flag THEN e.base ELSE 0, {})
    /\ UNCHANGED <<archived, kits, activeKit>>

\* Mutant of Revise: put on top of whatever the head is now.
ReviseOnTop(q) == ReviseWhen(q, TRUE, deckHead + 1)
Revise(q) == ReviseWhen(q, deckHead = request[q].base, request[q].base + 1)

--------------------------------------------------------------------------------
(* Locks, archive, brand kits *)

\* set_locks checks the head when it opens and writes that revision's row.
OpenLocks(q, locks) ==
    Open(q, [OnRevision(deckHead) EXCEPT !.kind = "locks", !.locks = locks \cap Present(revs[deckHead].story)])

WriteLocks(q) ==
    LET e == request[q] IN
    /\ e.kind = "locks"
    /\ IF e.locks = e.seen THEN Close(q, 0, {}) /\ UNCHANGED revs
       ELSE Close(q, e.base, e.locks) /\ revs' = [revs EXCEPT ![e.base].locks = e.locks]
    /\ UNCHANGED <<deckHead, archived, kits, activeKit, kept>>

\* archive writes the negation of what it loaded.
OpenArchive(q) == Open(q, [NoRequest EXCEPT !.kind = "archive", !.flag = ~archived])

WriteArchive(q) ==
    /\ request[q].kind = "archive"
    /\ archived' = request[q].flag
    /\ Close(q, 0, {})
    /\ UNCHANGED <<deckHead, revs, kits, activeKit, kept>>

\* create_brand_kit takes the next version; another kit created meanwhile has
\* taken it already, and the unique key refuses this one.
OpenKit(q, activate) ==
    /\ kits < MaxKits
    /\ Open(q, [NoRequest EXCEPT !.kind = "kit", !.kit = kits + 1, !.flag = activate])

WriteKit(q) ==
    LET e == request[q] IN
    /\ e.kind = "kit" /\ kits + 1 = e.kit
    /\ kits' = e.kit
    /\ activeKit' = IF e.flag THEN e.kit ELSE activeKit
    /\ Close(q, 0, {})
    /\ UNCHANGED <<deckHead, revs, archived, kept>>

\* activate_brand_kit: one compare-and-swap on the version the owner saw.
Activate(q, saw, kit) ==
    /\ request[q].kind = "none" /\ opened < MaxEditing
    /\ activeKit = saw
    /\ activeKit' = kit /\ opened' = opened + 1
    /\ UNCHANGED <<deckHead, revs, archived, kits, request, firm, kept>>

--------------------------------------------------------------------------------

\* create_deck.
DeckInit ==
    /\ deckHead = 1 /\ archived = FALSE /\ kits = 1 /\ activeKit = 1
    /\ revs = [r \in {1} |-> [parent |-> 0, story |-> NoRequest.story, locks |-> {}, brand |-> 1]]
    /\ request = [q \in Editing |-> NoRequest] /\ firm = [q \in Editing |-> {}]
    /\ kept = [r \in 1..MaxRevisions |-> {}]
    /\ opened = 0

OpenEdit(q) ==
    \/ \E base \in 1..deckHead, story \in Story, locks \in SUBSET Slides, rebrand \in BOOLEAN :
          OpenRevise(q, base, story, locks, rebrand)
    \/ \E base, old \in 1..deckHead : OpenRestore(q, base, old)
    \/ \E story \in Story : OpenRegenerate(q, story)
    \/ \E base \in 1..deckHead : OpenExpert(q, base)

DeckNext ==
    \E q \in Editing :
       \/ OpenEdit(q) \/ Revise(q)
       \/ \E locks \in SUBSET Slides : OpenLocks(q, locks)
       \/ WriteLocks(q)
       \/ OpenArchive(q) \/ WriteArchive(q)
       \/ \E activate \in BOOLEAN : OpenKit(q, activate)
       \/ WriteKit(q)
       \/ \E saw, kit \in 1..kits : Activate(q, saw, kit)
       \/ Refuse(q)

--------------------------------------------------------------------------------
(* Properties *)

\* "Every change is a new revision": each was made on top of the one before it,
\* so no edit silently undoes another, whichever requests overlapped.
LinearHistory == \A r \in 2..deckHead : revs[r].parent = r - 1

\* A slide that was locked on the previous revision as long as the edit was open
\* is the same in the next: neither a person, a model nor an expert script
\* changes or removes it.  Only restore may.
LocksHold ==
    \A r \in 2..deckHead : \A x \in kept[r] : revs[r].story[x] = revs[r - 1].story[x]
================================================================================
