------------------------------- MODULE MailInbox -------------------------------
(***************************************************************************)
(* The inbox copied from the mail server, its reply drafts and the gated    *)
(* send (email/service.py, routers/email.py).                               *)
(*                                                                          *)
(* A request is one READ COMMITTED transaction; what the mail server was    *)
(* asked to do stays done when the request fails.                           *)
(***************************************************************************)
EXTENDS Naturals, FiniteSets

CONSTANTS Mailers,        \* requests that may be open at once
          Uids,           \* messages of the mailbox
          MaxItems, MaxMails   \* bounds: rows, requests opened

ASSUME MailAssumption == MaxItems \in Nat \ {0} /\ MaxMails \in Nat

VARIABLES
    items,      \* committed rows: id, message, whether a reply is drafted, sent
    drafts,     \* per message: drafts the mail server keeps, approvals and their decisions
    sent,       \* per message: replies handed to the mail server
    mail,       \* per request: what it does, the rows it has added
    twins,      \* messages two requests have added at once
    mails

mailRows == <<items, drafts, sent>>
mailVars == <<mailRows, mail, twins, mails>>

Item == [id : 1..MaxItems, uid : Uids, status : {"classified", "drafted", "sent"}]
Approval == {"none", "pending", "approved", "rejected"}
Mail == [kind : {"none", "sync", "reply", "send"}, uid : Uids, left : SUBSET Uids, added : SUBSET Item]
NoMail == [kind |-> "none", uid |-> CHOOSE u \in Uids : TRUE, left |-> {}, added |-> {}]

MailTypeOK ==
    /\ items \subseteq Item
    /\ \A i, j \in items : i.id = j.id => i = j
    /\ drafts \in [Uids -> [kept : 0..MaxMails, approval : Approval]]
    /\ sent \in [Uids -> 0..MaxMails]
    /\ mail \in [Mailers -> Mail] /\ twins \subseteq Uids /\ mails \in 0..MaxMails

--------------------------------------------------------------------------------

RowsOf(u, rows) == {i \in rows : i.uid = u}
Single(rows) == Cardinality(rows) <= 1
FreeRows == 1..MaxItems \ {i.id : i \in items \cup UNION {mail[q].added : q \in Mailers}}

OpenMail(q, loaded) ==
    /\ mail[q].kind = "none" /\ mails < MaxMails
    /\ mails' = mails + 1
    /\ mail' = [mail EXCEPT ![q] = loaded]

EndMail(q) == mail' = [mail EXCEPT ![q] = NoMail] /\ UNCHANGED mails

FailMail(q) == mail[q].kind # "none" /\ EndMail(q) /\ UNCHANGED <<mailRows, twins>>

--------------------------------------------------------------------------------
(* sync_inbox *)

\* The mail server lists some messages.
OpenSync(q, listed) ==
    /\ listed # {}
    /\ OpenMail(q, [NoMail EXCEPT !.kind = "sync", !.left = listed])
    /\ UNCHANGED <<mailRows, twins>>

\* One message: a row is added if none is found, and found again if there is one;
\* two rows fail the request (scalar_one_or_none).
UpsertWhen(q, u, absent) ==
    LET m == mail[q] IN
    /\ m.kind = "sync" /\ u \in m.left
    /\ Single(RowsOf(u, items))
    /\ IF absent
       THEN /\ FreeRows # {}
            /\ mail' = [mail EXCEPT ![q].left = @ \ {u},
                          ![q].added = @ \cup {[id |-> CHOOSE n \in FreeRows : \A k \in FreeRows : n <= k,
                                                uid |-> u, status |-> "classified"]}]
            /\ twins' = IF \E p \in Mailers \ {q} : RowsOf(u, mail[p].added) # {} THEN twins \cup {u} ELSE twins
       ELSE mail' = [mail EXCEPT ![q].left = @ \ {u}] /\ UNCHANGED twins
    /\ UNCHANGED <<mailRows, mails>>

\* Mutant of UpsertMail: only rows still to be answered are looked for.
UpsertUnanswered(q, u) == UpsertWhen(q, u, {i \in RowsOf(u, items) : i.status = "classified"} = {})
UpsertMail(q, u) == UpsertWhen(q, u, RowsOf(u, items) = {})

CommitSync(q) ==
    /\ mail[q].kind = "sync" /\ mail[q].left = {}
    /\ items' = items \cup mail[q].added
    /\ EndMail(q)
    /\ UNCHANGED <<drafts, sent, twins>>

--------------------------------------------------------------------------------
(* Replies *)

\* draft_reply: the mail server keeps a draft first; then the message's row is
\* looked for.
OpenReply(q, u) ==
    /\ OpenMail(q, [NoMail EXCEPT !.kind = "reply", !.uid = u])
    /\ drafts' = [drafts EXCEPT ![u].kept = @ + 1]
    /\ UNCHANGED <<items, sent, twins>>

Mark(rows, status) == {[i EXCEPT !.status = status] : i \in rows}

Reply(q) ==
    LET u == mail[q].uid
        row == RowsOf(u, items) IN
    /\ mail[q].kind = "reply" /\ Single(row)
    /\ items' = (items \ row) \cup Mark(row, "drafted")
    /\ drafts' = [drafts EXCEPT ![u].approval = "pending"]
    /\ EndMail(q)
    /\ UNCHANGED <<sent, twins>>

\* The Approval Center decides the newest draft's approval.
DecideReply(u, verdict) ==
    /\ drafts[u].approval = "pending"
    /\ drafts' = [drafts EXCEPT ![u].approval = verdict]
    /\ UNCHANGED <<items, sent, mail, twins, mails>>

\* send_draft: the approval is read, the mail server sends.
OpenSend(q, u) ==
    /\ drafts[u].approval = "approved"
    /\ OpenMail(q, [NoMail EXCEPT !.kind = "send", !.uid = u])
    /\ sent' = [sent EXCEPT ![u] = @ + 1]
    /\ UNCHANGED <<items, drafts, twins>>

\* Some row of the workspace, whichever comes first, is marked if it holds the
\* text that was sent.
Send(q) ==
    /\ mail[q].kind = "send"
    /\ \/ \E i \in items : i.uid = mail[q].uid /\ i.status # "classified"
                           /\ items' = (items \ {i}) \cup Mark({i}, "sent")
       \/ UNCHANGED items
    /\ EndMail(q)
    /\ UNCHANGED <<drafts, sent, twins>>

--------------------------------------------------------------------------------

MailInit ==
    /\ items = {} /\ drafts = [u \in Uids |-> [kept |-> 0, approval |-> "none"]]
    /\ sent = [u \in Uids |-> 0]
    /\ mail = [q \in Mailers |-> NoMail] /\ twins = {} /\ mails = 0

MailNext ==
    \/ \E q \in Mailers :
          \/ \E listed \in SUBSET Uids : OpenSync(q, listed)
          \/ \E u \in Uids : UpsertMail(q, u) \/ OpenReply(q, u) \/ OpenSend(q, u)
          \/ CommitSync(q) \/ Reply(q) \/ Send(q) \/ FailMail(q)
    \/ \E u \in Uids, verdict \in {"approved", "rejected"} : DecideReply(u, verdict)

--------------------------------------------------------------------------------
(* Properties *)

\* "Classify, and upsert": every message has one row, so that every later request
\* can find it, unless two requests added it at once.
InboxReadable == \A u \in Uids \ twins : Single(RowsOf(u, items))
================================================================================
