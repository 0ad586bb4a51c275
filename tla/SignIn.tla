--------------------------------- MODULE SignIn --------------------------------
(***************************************************************************)
(* The first account, logins, their lockout and the sessions                  *)
(* (app/identity.py, routers/auth_identity.py).                               *)
(*                                                                          *)
(* A request reads and writes in one transaction, which commits when it is     *)
(* answered; only the record of a refused login commits at once, because the   *)
(* request that is refused rolls back.  Of a password the model knows whether  *)
(* it is right.                                                              *)
(***************************************************************************)
EXTENDS Naturals, Sequences, FiniteSets

CONSTANTS Emails, Signers,  \* who signs in, and the requests that may be open at once
          MAX_FAILURES, LockoutWindow,
          SessionTtl,
          Seeded,           \* the default workspace is there before the first account
          MaxSignInTime,         \* bound on the signInTime
          MaxSignIns        \* bound on the requests

ASSUME SignInAssumption ==
    /\ {LockoutWindow, SessionTtl, MaxSignInTime, MaxSignIns} \subseteq Nat /\ MAX_FAILURES \in Nat \ {0}
    /\ Seeded \in BOOLEAN /\ IsFiniteSet(Signers)

VARIABLES
    accounts,    \* e-mail addresses with a password, each an owner
    workspace,   \* the default workspace is there
    authEvents,  \* per address: the logins' outcomes and when they were
    sessions,    \* rows of AuthSession, in the order they were committed
    signing,     \* per request: what it does and what it has read
    ended,       \* sessions a logout was answered for
    unexplained, \* a login was refused as locked without as many wrong passwords
    doubledFirst,\* two first accounts were created at once
    signInTime, signIns

signInVars == <<accounts, workspace, authEvents, sessions, signing, ended, unexplained,
                doubledFirst, signInTime, signIns>>

NoSigning == [op |-> "none"]
SignInTypeOK ==
    /\ accounts \subseteq Emails /\ workspace \in BOOLEAN
    /\ \A m \in Emails : authEvents[m] \in Seq([at : 0..MaxSignInTime, outcome : {"success", "failure", "locked"}])
    /\ sessions \in Seq([email : Emails, expires : Nat, revoked : BOOLEAN])
    /\ \A q \in Signers : signing[q].op \in {"bootstrap", "login", "logoutAll", "none"}
    /\ ended \subseteq 1..Len(sessions) /\ unexplained \in BOOLEAN /\ doubledFirst \in BOOLEAN
    /\ signInTime \in 0..MaxSignInTime /\ signIns \in 0..MaxSignIns

OpenSigning(q, r) ==
    /\ signing[q] = NoSigning /\ signIns < MaxSignIns /\ signIns' = signIns + 1
    /\ signing' = [signing EXCEPT ![q] = r]
SigningOver(q) == signing' = [signing EXCEPT ![q] = NoSigning]

--------------------------------------------------------------------------------
(* Lockout and sessions *)

Record(m, outcome) ==
    authEvents' = [authEvents EXCEPT ![m] = Append(@, [at |-> signInTime, outcome |-> outcome])]

CountWithin(m, outcomes) ==
    Cardinality({i \in DOMAIN authEvents[m] : /\ authEvents[m][i].outcome \in outcomes
                                              /\ authEvents[m][i].at + LockoutWindow >= signInTime})

\* Mutant of RecentFailures: every refused login counts.
RecentRefusals(m) == CountWithin(m, {"failure", "locked"})

\* Wrong passwords of the last quarter of an hour.
RecentFailures(m) == CountWithin(m, {"failure"})

\* Mutant of LockedOut: one more wrong password is let through.
LockedOutLate(m) == RecentFailures(m) > MAX_FAILURES

LockedOut(m) == RecentFailures(m) >= MAX_FAILURES

NewSession(m) == [email |-> m, expires |-> signInTime + SessionTtl, revoked |-> FALSE]

\* resolve_session: what a cookie's token is accepted for.
Resolves(t) == ~sessions[t].revoked /\ signInTime <= sessions[t].expires

--------------------------------------------------------------------------------
(* bootstrap *)

\* Mutant of BootstrapRequired: the address is not taken.
BootstrapFree(m) == m \notin accounts

\* No account has a password.
BootstrapRequired(m) == accounts = {}

\* The account, its workspace and its membership are added; the workspace only if it
\* was not there.
BeginBootstrap(q, m) ==
    /\ BootstrapRequired(m)
    /\ OpenSigning(q, [op |-> "bootstrap", email |-> m, addsWorkspace |-> ~workspace])
    /\ UNCHANGED <<accounts, workspace, authEvents, sessions, ended, unexplained, doubledFirst, signInTime>>

\* An address and a workspace exist once, and a locked address cannot be logged in:
\* nothing of the request is kept then.
BootstrapFails(r) == r.email \in accounts \/ (r.addsWorkspace /\ workspace) \/ LockedOut(r.email)

\* The new owner is logged in by the same request.
CommitBootstrap(q) ==
    LET r == signing[q] IN
    /\ r.op = "bootstrap" /\ SigningOver(q)
    /\ IF BootstrapFails(r)
       THEN /\ IF LockedOut(r.email) /\ r.email \notin accounts /\ ~(r.addsWorkspace /\ workspace)
               THEN Record(r.email, "locked") ELSE UNCHANGED authEvents
            /\ UNCHANGED <<accounts, workspace, sessions, doubledFirst>>
       ELSE /\ accounts' = accounts \cup {r.email} /\ workspace' = TRUE
            /\ sessions' = Append(sessions, NewSession(r.email))
            /\ Record(r.email, "success")
            /\ doubledFirst' = (doubledFirst \/ \E o \in Signers \ {q} : signing[o].op = "bootstrap")
    /\ UNCHANGED <<ended, unexplained, signInTime, signIns>>

--------------------------------------------------------------------------------
(* local_login, logout, logout_all *)

\* The lockout is checked first; a locked address is refused, and that is recorded.
BeginLogin(q, m) ==
    /\ IF LockedOut(m)
       THEN /\ signing[q] = NoSigning /\ signIns < MaxSignIns /\ signIns' = signIns + 1
            /\ Record(m, "locked") /\ unexplained' = (unexplained \/ CountWithin(m, {"failure"}) < MAX_FAILURES)
            /\ UNCHANGED signing
       ELSE OpenSigning(q, [op |-> "login", email |-> m]) /\ UNCHANGED <<authEvents, unexplained>>
    /\ UNCHANGED <<accounts, workspace, sessions, ended, doubledFirst, signInTime>>

\* The password is then verified.  A failure is recorded in a transaction of its own.
VerifyPassword(q, right) ==
    LET m == signing[q].email IN
    /\ signing[q].op = "login" /\ SigningOver(q)
    /\ IF right /\ m \in accounts
       THEN Record(m, "success") /\ sessions' = Append(sessions, NewSession(m))
       ELSE Record(m, "failure") /\ UNCHANGED sessions
    /\ UNCHANGED <<accounts, workspace, ended, unexplained, doubledFirst, signInTime, signIns>>

\* The session must be accepted, and its CSRF token was sent along.
Logout(t) ==
    /\ Resolves(t) /\ signIns < MaxSignIns /\ signIns' = signIns + 1
    /\ sessions' = [sessions EXCEPT ![t].revoked = TRUE]
    /\ ended' = ended \cup {t}
    /\ UNCHANGED <<accounts, workspace, authEvents, signing, unexplained, doubledFirst, signInTime>>

SessionsOf(m) == {t \in 1..Len(sessions) : sessions[t].email = m /\ ~sessions[t].revoked}

\* Mutant of Revoked: only the session that asks is revoked.
RevokedOwn(t) == {t}

Revoked(t) == SessionsOf(sessions[t].email)

BeginLogoutAll(q, t) ==
    /\ Resolves(t)
    /\ OpenSigning(q, [op |-> "logoutAll", rows |-> Revoked(t), known |-> SessionsOf(sessions[t].email)])
    /\ UNCHANGED <<accounts, workspace, authEvents, sessions, ended, unexplained, doubledFirst, signInTime>>

\* The rows it has read are revoked; a login of meanwhile keeps its session.
CommitLogoutAll(q) ==
    /\ signing[q].op = "logoutAll" /\ SigningOver(q)
    /\ sessions' = [t \in DOMAIN sessions |->
          [sessions[t] EXCEPT !.revoked = @ \/ t \in signing[q].rows]]
    /\ ended' = ended \cup signing[q].known
    /\ UNCHANGED <<accounts, workspace, authEvents, unexplained, doubledFirst, signInTime, signIns>>

ClockTicks ==
    /\ signInTime < MaxSignInTime /\ signInTime' = signInTime + 1
    /\ UNCHANGED <<accounts, workspace, authEvents, sessions, signing, ended, unexplained, doubledFirst, signIns>>

--------------------------------------------------------------------------------
SignInInit ==
    /\ accounts = {} /\ workspace = Seeded /\ authEvents = [m \in Emails |-> <<>>] /\ sessions = <<>>
    /\ signing = [q \in Signers |-> NoSigning] /\ ended = {}
    /\ unexplained = FALSE /\ doubledFirst = FALSE /\ signInTime = 0 /\ signIns = 0

SignInNext ==
    \/ \E q \in Signers, m \in Emails : BeginBootstrap(q, m) \/ BeginLogin(q, m)
    \/ \E q \in Signers : CommitBootstrap(q) \/ CommitLogoutAll(q)
    \/ \E q \in Signers, right \in BOOLEAN : VerifyPassword(q, right)
    \/ \E t \in 1..Len(sessions) : Logout(t) \/ \E q \in Signers : BeginLogoutAll(q, t)
    \/ ClockTicks

\* In any window no more passwords are tried for an address than the limit, and one for
\* each other request that was open with it.
GuessesBounded ==
    \A m \in Emails : RecentFailures(m) < MAX_FAILURES + Cardinality(Signers)

\* An address is locked by wrong passwords only: being refused does not keep it locked.
LockExplained == ~unexplained

\* There is one first owner, unless two requests created one at the same time in a
\* workspace that was there before.
OneOwner == Cardinality(accounts) > 1 => doubledFirst /\ Seeded

\* A session that was ended, alone or with all others of its user, is never accepted
\* again, whatever is signed in and out at the same time.
EndedStays == \A t \in ended : ~Resolves(t)
================================================================================
