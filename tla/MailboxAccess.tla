----------------------------- MODULE MailboxAccess -----------------------------
(***************************************************************************)
(* A workspace's mailbox and the secret that opens it (gw/mail_setup.py,      *)
(* gw/mail_oauth.py): probes, password and OAuth connections, token refresh.  *)
(*                                                                          *)
(* The secret is put and deleted at once, the row is written when the request *)
(* commits; requests write the columns they changed.  The row exists: of two  *)
(* requests that insert it the unique index on the workspace lets one pass.   *)
(***************************************************************************)
EXTENDS Naturals, FiniteSets

CONSTANTS Posters,        \* requests that may be open at once
          Boxes,          \* accounts, each on a server of its own
          OAuthBoxes,     \* those of a provider whose hosts are known
          NoBox,          \* none
          Consents,       \* states of authorizations
          MaxPostings     \* bound on the requests

ASSUME MailboxAssumption ==
    OAuthBoxes \subseteq Boxes /\ NoBox \notin Boxes /\ MaxPostings \in Nat

VARIABLES
    mailbox,      \* the row; a provider is named by its account
    mailSecret,   \* the record of the credential store
    consents,     \* per state: whether its authorization is pending
    posting,      \* per request: what it does and what it has read
    astray,       \* accounts whose password was shown to another server
    renamed,      \* a probe that connected nothing has changed the row's provider
    ungranted,    \* a consent came without a refresh token
    mailMixed,    \* two requests have been open at once
    postings

mailboxVars == <<mailbox, mailSecret, consents, posting, astray, renamed, ungranted, mailMixed, postings>>

NoMailSecret == [auth |-> "none", box |-> NoBox, refresh |-> FALSE, fresh |-> FALSE]
NoPosting == [op |-> "none"]

MailboxTypeOK ==
    /\ mailbox \in [status : {"unconfigured", "testing", "connected", "degraded", "offline"},
                    provider : Boxes \cup {NoBox}, box : Boxes \cup {NoBox}, reference : BOOLEAN]
    /\ mailSecret \in [auth : {"none", "password", "xoauth2"}, box : Boxes \cup {NoBox},
                       refresh : BOOLEAN, fresh : BOOLEAN]
    /\ consents \in [Consents -> {"unused", "pending", "gone"}]
    /\ \A q \in Posters : posting[q].op \in {"none", "save", "callback", "refresh"}
    /\ astray \subseteq Boxes /\ {renamed, ungranted, mailMixed} \subseteq BOOLEAN
    /\ postings \in 0..MaxPostings

\* probe: IMAP first; a mailbox that can be read but not send is degraded.
Probe(credentials, imap, smtp) ==
    IF ~credentials \/ ~imap THEN "failed" ELSE IF smtp THEN "connected" ELSE "degraded"

\* _resolve_hosts: known providers have fixed hosts, others those of the row.
HostsOf(provider, box) == IF provider \in OAuthBoxes THEN provider ELSE box

CountPosting(q) == posting[q] = NoPosting /\ postings < MaxPostings /\ postings' = postings + 1

\* The row a request has read, and what it will have it say.
Saving(q, new) == posting' = [posting EXCEPT ![q] = [op |-> "save", old |-> mailbox, new |-> new]]

\* A probe names the provider it is about, and a stored secret keeps its own.
Renames(box) == mailbox.reference /\ box # mailbox.provider

--------------------------------------------------------------------------------
\* test_mailbox: the outcome is noted on the row, the credential is not kept.
TestMailbox(q, box, result) ==
    /\ CountPosting(q)
    /\ Saving(q, [mailbox EXCEPT !.provider = box,
                                 !.status = IF @ = "connected" THEN @
                                            ELSE IF result = "connected" THEN "testing" ELSE "offline"])
    /\ renamed' = (renamed \/ Renames(box))
    /\ UNCHANGED <<mailbox, mailSecret, consents, astray, ungranted>>

\* Mutant of Connected: the provider a probe has named stays.
ConnectedAsNamed(box, result) ==
    [status |-> result, provider |-> mailbox.provider, box |-> box, reference |-> TRUE]

Connected(box, result) == [status |-> result, provider |-> box, box |-> box, reference |-> TRUE]

\* Mutant of ConnectMailbox: the password is stored before it is tried.
ConnectUntried(q, box, result) ==
    /\ CountPosting(q)
    /\ mailSecret' = [auth |-> "password", box |-> box, refresh |-> FALSE, fresh |-> FALSE]
    /\ Saving(q, IF result = "failed" THEN [mailbox EXCEPT !.status = "offline", !.provider = box]
                 ELSE Connected(box, result))
    /\ renamed' = (renamed \/ (result = "failed" /\ Renames(box)))
    /\ UNCHANGED <<mailbox, consents, astray, ungranted>>

\* connect_mailbox: only a mailbox that answered is kept.
ConnectMailbox(q, box, result) ==
    /\ CountPosting(q)
    /\ IF result = "failed"
       THEN /\ Saving(q, [mailbox EXCEPT !.status = "offline", !.provider = box])
            /\ renamed' = (renamed \/ Renames(box)) /\ UNCHANGED mailSecret
       ELSE /\ Saving(q, Connected(box, result))
            /\ mailSecret' = [auth |-> "password", box |-> box, refresh |-> FALSE, fresh |-> FALSE]
            /\ UNCHANGED renamed
    /\ UNCHANGED <<mailbox, consents, astray, ungranted>>

\* Mutant of Disconnect: the reference goes, the secret stays.
DisconnectRow(q) ==
    /\ CountPosting(q)
    /\ UNCHANGED mailSecret
    /\ Saving(q, [mailbox EXCEPT !.status = "unconfigured", !.reference = FALSE])
    /\ UNCHANGED <<mailbox, consents, astray, renamed, ungranted>>

Disconnect(q) ==
    /\ CountPosting(q)
    /\ mailSecret' = IF mailbox.reference THEN NoMailSecret ELSE mailSecret
    /\ Saving(q, [mailbox EXCEPT !.status = "unconfigured", !.reference = FALSE])
    /\ UNCHANGED <<mailbox, consents, astray, renamed, ungranted>>

\* reconnect: a stored password is tried again; tokens are no password, and fail.
Reconnect(q, result) ==
    LET password == mailSecret.auth = "password" IN
    /\ CountPosting(q) /\ mailbox.reference
    /\ result # "failed" => password
    /\ Saving(q, [mailbox EXCEPT !.status = IF result = "failed" THEN "offline" ELSE result])
    /\ astray' = IF password /\ HostsOf(mailbox.provider, mailbox.box) # mailSecret.box
                 THEN astray \cup {mailSecret.box} ELSE astray
    /\ UNCHANGED <<mailbox, mailSecret, consents, renamed, ungranted>>

\* The columns the request changed.
CommitMailbox(q) ==
    LET r == posting[q] IN
    /\ r.op = "save"
    /\ mailbox' = [f \in DOMAIN mailbox |-> IF r.new[f] # r.old[f] THEN r.new[f] ELSE mailbox[f]]
    /\ posting' = [posting EXCEPT ![q] = NoPosting]
    /\ UNCHANGED <<mailSecret, consents, astray, renamed, ungranted, postings>>

--------------------------------------------------------------------------------
(* OAuth *)

\* build_authorization
StartConsent(s) ==
    /\ consents[s] = "unused"
    /\ consents' = [consents EXCEPT ![s] = "pending"]
    /\ UNCHANGED <<mailbox, mailSecret, posting, astray, renamed, ungranted, postings>>

\* handle_callback consumes the state, expired or not, and asks for the tokens.
BeginCallback(q, s, valid) ==
    /\ CountPosting(q) /\ consents[s] = "pending"
    /\ consents' = [consents EXCEPT ![s] = "gone"]
    /\ posting' = IF valid THEN [posting EXCEPT ![q] = [op |-> "callback"]] ELSE posting
    /\ UNCHANGED <<mailbox, mailSecret, astray, renamed, ungranted>>

\* The tokens replace the secret; a consent may come without a refresh token.
TokensGranted(q, box, refresh) ==
    /\ posting[q].op = "callback"
    /\ mailSecret' = [auth |-> "xoauth2", box |-> box, refresh |-> refresh, fresh |-> TRUE]
    /\ Saving(q, Connected(box, "connected"))
    /\ ungranted' = (ungranted \/ ~refresh)
    /\ UNCHANGED <<mailbox, consents, astray, renamed, postings>>

TokenExpires ==
    /\ mailSecret.fresh
    /\ mailSecret' = [mailSecret EXCEPT !.fresh = FALSE]
    /\ UNCHANGED <<mailbox, consents, posting, astray, renamed, ungranted, postings>>

\* adapter_for_workspace, xoauth2_credentials: whoever reads or sends mail with an
\* expired token asks for another one.
BeginRefresh(q) ==
    /\ CountPosting(q)
    /\ mailbox.status \in {"connected", "degraded"} /\ mailbox.reference
    /\ mailSecret.auth = "xoauth2" /\ mailSecret.refresh /\ ~mailSecret.fresh
    /\ posting' = [posting EXCEPT ![q] = [op |-> "refresh", box |-> mailSecret.box]]
    /\ UNCHANGED <<mailbox, mailSecret, consents, astray, renamed, ungranted>>

\* Mutant of KeptRefresh: only what the answer holds is stored.
AnswersRefresh(given) == given

\* _store_tokens: the refresh token it was asked with stays when no other is given.
KeptRefresh(given) == TRUE

\* The answer is stored under the reference it was read from.
Refreshed(q, given) ==
    /\ posting[q].op = "refresh"
    /\ mailSecret' = [auth |-> "xoauth2", box |-> posting[q].box, refresh |-> KeptRefresh(given),
                      fresh |-> TRUE]
    /\ posting' = [posting EXCEPT ![q] = NoPosting]
    /\ UNCHANGED <<mailbox, consents, astray, renamed, ungranted, postings>>

\* The provider did not answer the callback or the refresh.
TokensRefused(q) ==
    /\ posting[q].op \in {"callback", "refresh"}
    /\ posting' = [posting EXCEPT ![q] = NoPosting]
    /\ UNCHANGED <<mailbox, mailSecret, consents, astray, renamed, ungranted, postings>>

--------------------------------------------------------------------------------
MailboxInit ==
    /\ mailbox = [status |-> "unconfigured", provider |-> NoBox, box |-> NoBox, reference |-> FALSE]
    /\ mailSecret = NoMailSecret /\ consents = [s \in Consents |-> "unused"]
    /\ posting = [q \in Posters |-> NoPosting] /\ astray = {}
    /\ renamed = FALSE /\ ungranted = FALSE /\ mailMixed = FALSE /\ postings = 0

MailboxStep ==
    \/ \E q \in Posters, b \in Boxes, imap, smtp \in BOOLEAN :
          LET result == Probe(TRUE, imap, smtp) IN
          TestMailbox(q, b, result) \/ ConnectMailbox(q, b, result) \/ Reconnect(q, result)
    \/ \E q \in Posters : Disconnect(q) \/ CommitMailbox(q) \/ BeginRefresh(q) \/ TokensRefused(q)
    \/ \E s \in Consents : StartConsent(s)
    \/ \E q \in Posters, s \in Consents, valid \in BOOLEAN : BeginCallback(q, s, valid)
    \/ \E q \in Posters, b \in OAuthBoxes, refresh \in BOOLEAN : TokensGranted(q, b, refresh)
    \/ \E q \in Posters, given \in BOOLEAN : Refreshed(q, given)
    \/ TokenExpires

MailboxNext ==
    /\ MailboxStep
    /\ mailMixed' = (mailMixed \/ \E q, o \in Posters : q # o /\ NoPosting \notin {posting'[q], posting'[o]})

\* Once every request is over, a mailbox in use is opened by the secret of the account
\* it names, and a mailbox that was disconnected has none left, unless requests
\* overlapped.
SecretOfTheMailbox ==
    (~mailMixed /\ \A q \in Posters : posting[q] = NoPosting) =>
        mailSecret.box = IF mailbox.reference THEN mailbox.box ELSE NoBox

\* A password is shown to the server of its own account only, as long as no probe of
\* another one has renamed the row's provider and no requests overlapped.
PasswordsStayHome == renamed \/ mailMixed \/ astray = {}

\* A mailbox opened by tokens can renew them, unless a consent came without the means.
AccessRenews == (mailSecret.auth = "xoauth2" /\ ~mailSecret.refresh) => ungranted
================================================================================
