------------------------------ MODULE SlackDrafts ------------------------------
(***************************************************************************)
(* A prepared Slack message on its way to a decision (slack_workspace/        *)
(* service.py, gw/routers/slack.py): edited, rewritten, undone, handed to the *)
(* Integration Gateway, discarded.  One draft, after prepare_draft.           *)
(*                                                                          *)
(* A request loads the draft, and for an undo its newest revision; it writes  *)
(* the columns it changed and its revision when it commits.  Refining only    *)
(* answers with a proposal and changes nothing.                              *)
(***************************************************************************)
EXTENDS Naturals, Sequences, SequencesExt

CONSTANTS Writers,            \* requests that may be open at once
          Texts, Prepared,    \* texts, and the one the draft was prepared with
          Blank,              \* a text that is not sent
          MaxWrites           \* bound on the requests

ASSUME DraftAssumption == {Prepared, Blank} \subseteq Texts /\ MaxWrites \in Nat

VARIABLES
    draft,       \* the row: its text and status
    revisions,   \* rows of slack_draft_revisions, oldest first
    handed,      \* texts handed to the gateway, each with an approval of its own
    writing,     \* per request: what it does, what it has loaded, whom it has met
    mixed,       \* an undo has overlapped an edit, or others that went further back
    writes

draftVars == <<draft, revisions, handed, writing, mixed, writes>>

DraftStatus == {"draft", "sending", "discarded"}
DraftRow == [text : Texts, status : DraftStatus]
Revision == [id : 1..MaxWrites, previous_text : Texts]
Rewrites == {"update_text", "accept_refinement"}
DraftOp == Rewrites \cup {"undo", "send", "discard"}
NotWriting == [op |-> "none"]

DraftTypeOK ==
    /\ draft \in DraftRow /\ revisions \in Seq(Revision) /\ handed \in Seq(Texts)
    /\ \A q \in Writers : writing[q].op \in DraftOp \cup {"none"}
    /\ mixed \in BOOLEAN /\ writes \in 0..MaxWrites

\* _editable: nothing in the code marks a draft sent, so discarding alone locks it.
Editable(row) == row.status # "discarded"

OpenWrite(q, op, text) ==
    /\ writing[q] = NotWriting /\ writes < MaxWrites /\ writes' = writes + 1
    /\ Editable(draft)
    /\ op = "undo" => revisions # <<>>
    /\ op = "send" => draft.text # Blank
    /\ op \notin Rewrites => text = draft.text
    /\ writing' = [writing EXCEPT ![q] =
          [op |-> op, by |-> writes', loaded |-> draft, text |-> text, met |-> {},
           undoes |-> IF op = "undo" THEN {revisions[Len(revisions)]} ELSE {}]]
    /\ UNCHANGED <<draft, revisions, handed, mixed>>

CloseWrite(q) ==
    /\ writing[q] # NotWriting
    /\ writing' = [o \in Writers |->
          IF o = q THEN NotWriting
          ELSE IF writing[o] # NotWriting THEN [writing[o] EXCEPT !.met = @ \cup {writing[q].op}]
          ELSE writing[o]]

\* A column is written if the session has changed it.
Store(r, text, status) ==
    draft' = [text |-> IF text # r.loaded.text THEN text ELSE draft.text,
              status |-> IF status # r.loaded.status THEN status ELSE draft.status]

\* Mutant of Pushed: the revision holds the new text.
PushedNew(r) == [id |-> r.by, previous_text |-> r.text]

\* The text an edit replaces, as its session has loaded it.
Pushed(r) == [id |-> r.by, previous_text |-> r.loaded.text]

\* update_text records nothing if nothing changes; accept_refinement always does.
Edit(q) ==
    LET r == writing[q] IN
    /\ CloseWrite(q) /\ r.op \in Rewrites
    /\ revisions' = IF r.op = "update_text" /\ r.text = r.loaded.text
                    THEN revisions ELSE Append(revisions, Pushed(r))
    /\ Store(r, r.text, r.loaded.status)
    /\ mixed' = (mixed \/ "undo" \in r.met)
    /\ UNCHANGED <<handed, writes>>

\* The revision was taken back by another undo, and by now the text is another one.
Late(r) == \E v \in r.undoes : v \notin ToSet(revisions) /\ draft.text # v.previous_text

\* A revision that is gone already is deleted once more without an error.
Undo(q) ==
    LET r == writing[q] IN
    /\ CloseWrite(q) /\ r.op = "undo"
    /\ revisions' = IF \E i \in DOMAIN revisions : revisions[i] \in r.undoes
                    THEN RemoveAt(revisions, CHOOSE i \in DOMAIN revisions : revisions[i] \in r.undoes)
                    ELSE revisions
    /\ \E v \in r.undoes : Store(r, v.previous_text, r.loaded.status)
    /\ mixed' = (mixed \/ r.met \cap Rewrites # {} \/ Late(r))
    /\ UNCHANGED <<handed, writes>>

\* send hands the text over and opens an approval each time it is called; it
\* posts nothing.
SendDraft(q) ==
    LET r == writing[q] IN
    /\ CloseWrite(q) /\ r.op = "send"
    /\ handed' = Append(handed, r.loaded.text)
    /\ Store(r, r.loaded.text, "sending")
    /\ UNCHANGED <<revisions, mixed, writes>>

\* discard leaves an approval that is pending alone.
DiscardDraft(q) ==
    LET r == writing[q] IN
    /\ CloseWrite(q) /\ r.op = "discard"
    /\ Store(r, r.loaded.text, "discarded")
    /\ UNCHANGED <<revisions, handed, mixed, writes>>

FailWrite(q) ==
    /\ writing[q] # NotWriting /\ writing' = [writing EXCEPT ![q] = NotWriting]
    /\ UNCHANGED <<draft, revisions, handed, mixed, writes>>

DraftInit ==
    /\ draft = [text |-> Prepared, status |-> "draft"]
    /\ revisions = <<>> /\ handed = <<>>
    /\ writing = [q \in Writers |-> NotWriting] /\ mixed = FALSE /\ writes = 0

DraftNext ==
    \E q \in Writers :
        \/ \E op \in DraftOp, text \in Texts : OpenWrite(q, op, text)
        \/ Edit(q) \/ Undo(q) \/ SendDraft(q) \/ DiscardDraft(q) \/ FailWrite(q)

--------------------------------------------------------------------------------
(* Properties *)

OldestText == IF revisions = <<>> THEN draft.text ELSE Head(revisions).previous_text

\* Undoing step by step leads back to the text the draft was prepared with,
\* however it was edited, rewritten and undone, also by requests that overlap,
\* unless an undo overlapped an edit, or two undos of which one took back the same
\* revision and the other one before it.
OriginalKept == mixed \/ OldestText = Prepared
================================================================================
