-------------------------- MODULE ProviderConnections --------------------------
(***************************************************************************)
(* The two model providers of a workspace, a local gateway and the cloud      *)
(* (gw/providers_platform.py): tested, connected, signed in and out, made     *)
(* the active one.  A row is created by the first request that needs it.      *)
(*                                                                          *)
(* The credential store is no part of the transaction.  A request that asks a *)
(* provider has flushed the state `testing` and keeps the row locked while it  *)
(* waits; it writes the columns it changed when it commits.                   *)
(***************************************************************************)
EXTENDS Naturals, FiniteSets

CONSTANTS Setters,       \* requests that may be open at once
          MaxSettings    \* bound on the requests

ASSUME ProviderAssumption == MaxSettings \in Nat

VARIABLES
    connection,   \* per provider: its row of provider_connections
    storedKeys,         \* providers with a key or token in the credential store
    holder,       \* per provider: the request that has inserted or locked its row
    setting,      \* per request: what it does, what it has loaded, whom it has met
    moveCrossed,      \* requests that move the active provider have overlapped
    strayed,      \* providers whose key a failed or overlapping request has touched
    settings

providerVars == <<connection, storedKeys, holder, setting, moveCrossed, strayed, settings>>

Kinds == {"local", "cloud"}
ProviderState == {"unconfigured", "connected", "failing"}   \* degraded, unauthorized, offline
ProviderRow == [there : BOOLEAN, state : ProviderState, secret : BOOLEAN, active : BOOLEAN]
NoRow == [there |-> FALSE, state |-> "unconfigured", secret |-> FALSE, active |-> FALSE]
FreshRow == [NoRow EXCEPT !.there = TRUE]

Probes == {"local_test", "local_connect", "cloud_login"}   \* or cloud_connect_key
MovesActive == {"cloud_logout", "set_active"}
TouchesKey == {"local_connect", "cloud_login", "cloud_logout"}
SettingOp == Probes \cup MovesActive
NoSetting == [op |-> "none"]

ProviderTypeOK ==
    /\ connection \in [Kinds -> ProviderRow] /\ storedKeys \in SUBSET Kinds
    /\ holder \in [Kinds -> SUBSET Setters]
    /\ \A k \in Kinds : Cardinality(holder[k]) <= 1
    /\ \A q \in Setters : setting[q].op \in SettingOp \cup {"none"}
    /\ moveCrossed \in BOOLEAN /\ strayed \in SUBSET Kinds /\ settings \in 0..MaxSettings

AboutLocal == {"local_test", "local_connect"}
Target(op) == IF op \in AboutLocal THEN {"local"} ELSE IF op = "set_active" THEN Kinds ELSE {"cloud"}

\* The rows a request needs; a logout gives the active role of the cloud to the
\* local provider, connected or not.
Needed(r) ==
    IF r.op \in AboutLocal THEN {"local"}
    ELSE IF r.op = "set_active" \/ (r.op = "cloud_logout" /\ r.saw["cloud"].active) THEN Kinds
    ELSE {"cloud"}
Missing(r) == {k \in Needed(r) : ~r.saw[k].there}
MayWrite(q, k) == holder[k] \subseteq {q}

OpenSetting(q, op, kind) ==
    /\ setting[q] = NoSetting /\ settings < MaxSettings /\ settings' = settings + 1
    /\ kind \in Target(op)
    /\ setting' = [setting EXCEPT ![q] =
          [op |-> op, kind |-> kind, step |-> "load", saw |-> connection, got |-> "none",
           put |-> FALSE, met |-> {}]]
    /\ UNCHANGED <<connection, storedKeys, holder, moveCrossed, strayed>>

\* _get_or_create: the insert waits for one that is not committed yet, and
\* adopts its row.
GetOrCreate(q, k) ==
    /\ setting[q] # NoSetting /\ setting[q].step = "load" /\ k \in Missing(setting[q])
    /\ holder[k] = {}
    /\ setting' = [setting EXCEPT ![q].saw[k] = IF connection[k].there THEN connection[k] ELSE FreshRow]
    /\ holder' = IF connection[k].there THEN holder ELSE [holder EXCEPT ![k] = {q}]
    /\ UNCHANGED <<connection, storedKeys, moveCrossed, strayed, settings>>

SettingLoaded(q) == setting[q] # NoSetting /\ setting[q].step = "load" /\ Missing(setting[q]) = {}

\* The flush of `testing`.
BeginProbe(q) ==
    LET r == setting[q] IN
    /\ SettingLoaded(q) /\ r.op \in Probes /\ MayWrite(q, r.kind)
    /\ holder' = [holder EXCEPT ![r.kind] = {q}]
    /\ setting' = [setting EXCEPT ![q].step = "probe"]
    /\ UNCHANGED <<connection, storedKeys, moveCrossed, strayed, settings>>

\* The provider answers; a key that it accepts is stored at once, for the local
\* provider only if one was given.
Answered(q, outcome, withKey) ==
    LET r == setting[q] IN
    /\ r # NoSetting /\ r.step = "probe"
    /\ outcome # "unconfigured"
    /\ withKey => outcome = "connected" /\ r.op # "local_test"
    /\ outcome = "connected" /\ r.op = "cloud_login" => withKey
    /\ storedKeys' = IF withKey THEN storedKeys \cup {r.kind} ELSE storedKeys
    /\ setting' = [setting EXCEPT ![q].step = "write", ![q].got = outcome, ![q].put = withKey]
    /\ UNCHANGED <<connection, holder, moveCrossed, strayed, settings>>

\* Mutant of ForgetKey: only the active provider's token is deleted.
ForgetActive(r) == IF r.saw["cloud"].secret /\ r.saw["cloud"].active THEN storedKeys \ {"cloud"} ELSE storedKeys

\* cloud_logout deletes the token before its row is written.
ForgetKey(r) == IF r.saw["cloud"].secret THEN storedKeys \ {"cloud"} ELSE storedKeys

BeginMove(q) ==
    LET r == setting[q] IN
    /\ SettingLoaded(q) /\ r.op \in MovesActive
    /\ r.op = "set_active" => r.saw[r.kind].state = "connected"
    /\ storedKeys' = IF r.op = "cloud_logout" THEN ForgetKey(r) ELSE storedKeys
    /\ setting' = [setting EXCEPT ![q].step = "write"]
    /\ UNCHANGED <<connection, holder, moveCrossed, strayed, settings>>
\* What the session's row says when it is flushed.
Wanted(r, k) ==
    IF r.op \in Probes THEN [r.saw[k] EXCEPT !.state = r.got, !.secret = @ \/ r.put]
    ELSE IF r.op = "set_active" THEN [r.saw[k] EXCEPT !.active = (k = r.kind)]
    ELSE IF k = "cloud" THEN FreshRow
    ELSE [r.saw[k] EXCEPT !.active = @ \/ r.saw["cloud"].active]

\* A column is written if the session has changed it; a probe has written its
\* state once already.
Written(r, k) ==
    LET old == r.saw[k]  new == Wanted(r, k)  stored == connection[k] IN
    [there |-> TRUE,
     state |-> IF new.state # old.state \/ r.op \in Probes THEN new.state ELSE stored.state,
     secret |-> IF new.secret # old.secret THEN new.secret ELSE stored.secret,
     active |-> IF new.active # old.active THEN new.active ELSE stored.active]

\* The sessions still open have met this one.
EndSetting(q) ==
    /\ setting' = [o \in Setters |->
          IF o = q THEN NoSetting
          ELSE IF setting[o] # NoSetting THEN [setting[o] EXCEPT !.met = @ \cup ({setting[q].op} \ {"local_test"})]
          ELSE setting[o]]
    /\ holder' = [k \in Kinds |-> holder[k] \ {q}]

CommitSetting(q) ==
    LET r == setting[q] IN
    /\ r # NoSetting /\ r.step = "write" /\ \A k \in Needed(r) : MayWrite(q, k)
    /\ connection' = [k \in Kinds |-> IF k \in Needed(r) THEN Written(r, k) ELSE connection[k]]
    /\ moveCrossed' = (moveCrossed \/ (r.op \in MovesActive /\ r.met \cap MovesActive # {}))
    /\ strayed' = IF r.op \in TouchesKey /\ r.met \cap TouchesKey # {}
                  THEN strayed \cup {r.kind} ELSE strayed
    /\ EndSetting(q)
    /\ UNCHANGED <<storedKeys, settings>>

\* A refused or failed request rolls its rows back, but not the credential store.
FailSetting(q) ==
    LET r == setting[q] IN
    /\ r # NoSetting
    /\ strayed' = IF r.step = "write" /\ r.op \in TouchesKey THEN strayed \cup {r.kind} ELSE strayed
    /\ EndSetting(q)
    /\ UNCHANGED <<connection, storedKeys, moveCrossed, settings>>

\* An untouched workspace, or one with both providers connected.
ProviderInit ==
    /\ \/ connection = [k \in Kinds |-> NoRow] /\ storedKeys = {}
       \/ \E active \in SUBSET {"local"} :
             /\ connection = [k \in Kinds |-> [there |-> TRUE, state |-> "connected", secret |-> TRUE,
                                              active |-> k \in active]]
             /\ storedKeys = Kinds
    /\ holder = [k \in Kinds |-> {}] /\ setting = [q \in Setters |-> NoSetting]
    /\ moveCrossed = FALSE /\ strayed = {} /\ settings = 0

ProviderNext ==
    \E q \in Setters :
        \/ \E op \in SettingOp, kind \in Kinds : OpenSetting(q, op, kind)
        \/ \E k \in Kinds : GetOrCreate(q, k)
        \/ BeginProbe(q) \/ BeginMove(q) \/ CommitSetting(q) \/ FailSetting(q)
        \/ \E outcome \in ProviderState, withKey \in BOOLEAN : Answered(q, outcome, withKey)

--------------------------------------------------------------------------------
(* Properties *)

\* active_connector asks for at most one active provider and fails on two: however
\* providers are tested, signed in and out and made active, there is one at most,
\* unless requests that move the active one have overlapped.
OneActive == moveCrossed \/ Cardinality({k \in Kinds : connection[k].active}) <= 1

\* A row refers to a key exactly if the credential store has one, although the
\* store is written before the row commits; only a request that fails after it has
\* touched the store, or that overlaps another, leaves one without the other.
KeysFollowRows ==
    \A k \in Kinds : k \in strayed \/ (connection[k].secret <=> k \in storedKeys)
        \/ \E q \in Setters : setting[q] # NoSetting /\ setting[q].op \in TouchesKey
                                /\ setting[q].kind = k /\ setting[q].step = "write"
================================================================================
