----------------------------- MODULE HomePilotLinks ----------------------------
(***************************************************************************)
(* A workspace's HomePilot connection and the agents it refers to             *)
(* (gw/homepilot_platform.py, homepilot/sync.py), until it is deleted.         *)
(*                                                                          *)
(* Key, bound account and preferences are one record of the credential store, *)
(* which no transaction covers: whoever changes a part reads the record and    *)
(* puts it back, in one step here.  The agents are rows; a pass and a deletion *)
(* write the columns they changed when they commit.                           *)
(***************************************************************************)
EXTENDS Naturals, FiniteSets

CONSTANTS Linkers,       \* requests that may be open at once
          Homes,         \* HomePilot accounts, each with its key
          HomeOf,        \* the account each persona is of
          Unbound,       \* no account, no key
          MaxLinkings    \* bound on the requests

Agents == DOMAIN HomeOf

ASSUME LinkAssumption ==
    Unbound \notin Homes /\ HomeOf \in [Agents -> Homes] /\ MaxLinkings \in Nat

VARIABLES
    linkStatus,   \* of the connection's row
    secret,       \* the record in the credential store
    agentLinks,   \* per persona: its row
    linking,      \* per request: what it does and what it has read
    blended,      \* personas asked with another account's key while one was bound
    chosen,       \* personas somebody enabled, or let be enabled when they appear
    wronged,      \* personas a pass took offline although it was told they are shared
    halfRead,     \* a discovery has lost the second answer about the models
    tieMixed,     \* a connect or a deletion has overlapped another request
    linkings

linkVars == <<linkStatus, secret, agentLinks, linking, blended, chosen, wronged, halfRead,
              tieMixed, linkings>>

\* HomePilot's name for the account, or the fingerprint of its key.
HomeAccount == Homes \cup {Unbound}
NoSecret == [key |-> Unbound, bound |-> Unbound, optIn |-> FALSE]
NoAgent == [there |-> FALSE, account |-> Unbound, enabled |-> FALSE, shared |-> FALSE,
           status |-> "disabled"]
NoLinking == [op |-> "none"]

LinkTypeOK ==
    /\ linkStatus \in {"connected", "unreachable", "deleted"}
    /\ secret \in [key : HomeAccount, bound : HomeAccount, optIn : BOOLEAN]
    /\ agentLinks \in [Agents -> [there : BOOLEAN, account : HomeAccount, enabled : BOOLEAN,
                                  shared : BOOLEAN, status : {"disabled", "available", "offline"}]]
    /\ \A q \in Linkers : linking[q].op \in {"connect", "sync", "delete", "none"}
    /\ blended \cup chosen \cup wronged \subseteq Agents
    /\ halfRead \in BOOLEAN /\ tieMixed \in BOOLEAN /\ linkings \in 0..MaxLinkings

LinkAt(q, step) == linking[q] # NoLinking /\ linking[q].step = step
LinkOver(q) == linking' = [linking EXCEPT ![q] = NoLinking]
CountLinking == linkStatus # "deleted" /\ linkings < MaxLinkings /\ linkings' = linkings + 1

OpenLinking(q, op, step, key) ==
    /\ linking[q] = NoLinking /\ CountLinking
    /\ linking' = [linking EXCEPT ![q] =
          [op |-> op, step |-> step, key |-> key, ref |-> Unbound, links |-> agentLinks,
           optIn |-> FALSE, found |-> {}, sharing |-> {}, told |-> {}]]

--------------------------------------------------------------------------------
(* connect, and the account both connect and sync bind *)

\* Mutant of Reconnected: what the record says of the account is kept.
ReconnectedBound(home) == [key |-> home, bound |-> secret.bound, optIn |-> secret.optIn]

\* The new record replaces the old one, account and preferences included.
Reconnected(home) == [key |-> home, bound |-> Unbound, optIn |-> FALSE]

\* connect stores the key before it tries it.
BeginConnect(q, home) ==
    /\ OpenLinking(q, "connect", "probe", home)
    /\ secret' = Reconnected(home)
    /\ UNCHANGED <<linkStatus, agentLinks, blended, chosen, wronged, halfRead>>

\* An account is bound only if HomePilot answers.
Probed(q, reachable) ==
    /\ LinkAt(q, "probe")
    /\ IF reachable THEN linking' = [linking EXCEPT ![q].step = "resolve"] /\ UNCHANGED linkStatus
       ELSE LinkOver(q) /\ linkStatus' = IF linkStatus = "deleted" THEN "deleted" ELSE "unreachable"
    /\ UNCHANGED <<secret, agentLinks, blended, chosen, wronged, halfRead, linkings>>

\* _resolve_account asks with the key of now; its answer comes later.
ResolveAccount(q) ==
    /\ LinkAt(q, "resolve")
    /\ linking' = [linking EXCEPT ![q].step = "bind", ![q].ref = secret.key]
    /\ UNCHANGED <<linkStatus, secret, agentLinks, blended, chosen, wronged, halfRead, linkings>>

\* _store_account puts the account beside whatever the record says by then.
StoreAccount(q) ==
    /\ LinkAt(q, "bind")
    /\ secret' = [secret EXCEPT !.bound = linking[q].ref]
    /\ linking' = [linking EXCEPT ![q].step = IF linking[q].op = "connect" THEN "commit" ELSE "discover",
                                  ![q].optIn = secret.optIn]
    /\ UNCHANGED <<linkStatus, agentLinks, blended, chosen, wronged, halfRead, linkings>>

\* A row that was deleted meanwhile is not written.
CommitConnect(q) ==
    /\ LinkAt(q, "commit") /\ linking[q].op = "connect"
    /\ linkStatus' = IF linkStatus = "deleted" THEN "deleted" ELSE "connected"
    /\ LinkOver(q)
    /\ UNCHANGED <<secret, agentLinks, blended, chosen, wronged, halfRead, linkings>>

\* patch_connection: whether new agents are enabled at once.
SetOptIn(on) ==
    /\ CountLinking /\ secret.optIn # on
    /\ secret' = [secret EXCEPT !.optIn = on]
    /\ UNCHANGED <<linkStatus, agentLinks, linking, blended, chosen, wronged, halfRead>>

--------------------------------------------------------------------------------
(* sync *)

\* The client keeps the key of now for the whole pass.
BeginSync(q) ==
    /\ secret.key # Unbound
    /\ OpenLinking(q, "sync", "resolve", secret.key)
    /\ UNCHANGED <<linkStatus, secret, agentLinks, blended, chosen, wronged, halfRead>>

\* HomePilot tells some of the key's personas, and which of them are shared.
\* discover asks for the models twice and looks at the first answer only: when the
\* second is lost nothing seems shared.  The rows are then read.
Discovered(q, found, sharing, half) ==
    /\ LinkAt(q, "discover") /\ sharing \subseteq found
    /\ \A a \in found : HomeOf[a] = linking[q].key
    /\ linking' = [linking EXCEPT ![q].step = "commit", ![q].found = found, ![q].links = agentLinks,
                                  ![q].sharing = IF half THEN {} ELSE sharing, ![q].told = sharing]
    /\ halfRead' = (halfRead \/ half)
    /\ UNCHANGED <<linkStatus, secret, agentLinks, blended, chosen, wronged, linkings>>

\* Mutant of DiscoveryFailed: no answer is read as no personas.
NoneFound(q) ==
    /\ LinkAt(q, "discover")
    /\ linking' = [linking EXCEPT ![q].step = "commit", ![q].links = agentLinks,
                                  ![q].told = {a \in Agents : agentLinks[a].shared}]
    /\ UNCHANGED <<linkStatus, secret, agentLinks, blended, chosen, wronged, halfRead, linkings>>

\* A discovery that failed leaves the agents alone.
DiscoveryFailed(q) ==
    /\ LinkAt(q, "discover")
    /\ LinkOver(q)
    /\ UNCHANGED <<linkStatus, secret, agentLinks, blended, chosen, wronged, halfRead, linkings>>

Presence(enabled, shared) ==
    IF ~enabled THEN "disabled" ELSE IF shared THEN "available" ELSE "offline"

\* Mutant of Enabled: a persona found again takes the preference for new ones.
EnabledAnew(r, a) == r.optIn \/ r.links[a].enabled

\* New personas take the preference, known ones keep their own.
Enabled(r, a) == IF r.links[a].there THEN r.links[a].enabled ELSE r.optIn

\* A persona's row after the pass; one that was not found goes offline.
AfterPass(r, a) ==
    IF a \in r.found
    THEN [there |-> TRUE, account |-> r.ref, enabled |-> Enabled(r, a), shared |-> a \in r.sharing,
          status |-> Presence(Enabled(r, a), a \in r.sharing)]
    ELSE IF r.links[a].there THEN [r.links[a] EXCEPT !.status = "offline"] ELSE r.links[a]

\* The columns this session changed.
ColumnsChanged(old, new, now) == [f \in DOMAIN now |-> IF new[f] # old[f] THEN new[f] ELSE now[f]]

\* A row another pass has added meanwhile is of the same unique key: nothing is written.
CommitPass(q) ==
    LET r == linking[q]
        doubled == \E a \in r.found : ~r.links[a].there /\ agentLinks[a].there IN
    /\ LinkAt(q, "commit") /\ r.op = "sync"
    /\ IF linkStatus = "deleted" \/ doubled THEN UNCHANGED <<agentLinks, chosen, wronged>>
       ELSE /\ agentLinks' = [a \in Agents |-> ColumnsChanged(r.links[a], AfterPass(r, a), agentLinks[a])]
            /\ chosen' = chosen \cup {a \in r.found : ~r.links[a].there /\ r.optIn}
            /\ wronged' = wronged \cup {a \in r.told : /\ r.links[a].status = "available"
                                                       /\ AfterPass(r, a).status = "offline"}
    /\ LinkOver(q)
    /\ UNCHANGED <<linkStatus, secret, blended, halfRead, linkings>>

--------------------------------------------------------------------------------
(* delete_connection, patch_profile, turn *)

\* The key is gone before the rows are.
BeginDelete(q) ==
    /\ OpenLinking(q, "delete", "commit", Unbound)
    /\ secret' = NoSecret
    /\ UNCHANGED <<linkStatus, agentLinks, blended, chosen, wronged, halfRead>>

CommitDelete(q) ==
    /\ LinkAt(q, "commit") /\ linking[q].op = "delete"
    /\ linkStatus' = "deleted"
    /\ agentLinks' = [a \in Agents |->
          IF linking[q].links[a].there /\ linking[q].links[a].status # "offline"
          THEN [agentLinks[a] EXCEPT !.status = "offline"] ELSE agentLinks[a]]
    /\ LinkOver(q)
    /\ UNCHANGED <<secret, blended, chosen, wronged, halfRead, linkings>>

\* Its presence follows from what the last pass saw.
PatchProfile(a, on) ==
    /\ CountLinking /\ agentLinks[a].there /\ agentLinks[a].enabled # on
    /\ agentLinks' = [agentLinks EXCEPT ![a].enabled = on,
                                        ![a].status = Presence(on, agentLinks[a].shared)]
    /\ chosen' = IF on THEN chosen \cup {a} ELSE chosen \ {a}
    /\ UNCHANGED <<linkStatus, secret, linking, blended, wronged, halfRead>>

\* Mutant of AccountMatches: the account is not compared.
AnyAccount(a) == TRUE

\* An account that is not bound is not compared.
AccountMatches(a) ==
    Unbound \in {secret.bound, agentLinks[a].account} \/ agentLinks[a].account = secret.bound

\* A turn asks an enabled persona with the key of now.
AskPersona(a) ==
    /\ CountLinking /\ agentLinks[a].there /\ agentLinks[a].enabled
    /\ secret.key # Unbound /\ AccountMatches(a)
    /\ blended' = IF secret.bound # Unbound /\ secret.key # HomeOf[a] THEN blended \cup {a} ELSE blended
    /\ UNCHANGED <<linkStatus, secret, agentLinks, linking, chosen, wronged, halfRead>>

--------------------------------------------------------------------------------
LinkInit ==
    /\ \E h \in Homes, on \in BOOLEAN : secret = [key |-> h, bound |-> h, optIn |-> on]
    /\ linkStatus = "connected" /\ agentLinks = [a \in Agents |-> NoAgent]
    /\ linking = [q \in Linkers |-> NoLinking]
    /\ blended = {} /\ chosen = {} /\ wronged = {}
    /\ halfRead = FALSE /\ tieMixed = FALSE /\ linkings = 0

LinkStep ==
    \/ \E q \in Linkers, h \in Homes : BeginConnect(q, h)
    \/ \E q \in Linkers, reachable \in BOOLEAN : Probed(q, reachable)
    \/ \E q \in Linkers : ResolveAccount(q) \/ StoreAccount(q) \/ CommitConnect(q) \/ BeginSync(q)
                          \/ DiscoveryFailed(q) \/ CommitPass(q) \/ BeginDelete(q) \/ CommitDelete(q)
    \/ \E q \in Linkers, found \in SUBSET Agents, sharing \in SUBSET Agents, half \in BOOLEAN :
          Discovered(q, found, sharing, half)
    \/ \E on \in BOOLEAN : SetOptIn(on)
    \/ \E a \in Agents, on \in BOOLEAN : PatchProfile(a, on)
    \/ \E a \in Agents : AskPersona(a)

\* Open requests of which one connects or deletes.
Mixing == \E q, o \in Linkers : q # o /\ linking[q].op \in {"connect", "delete"} /\ linking[o] # NoLinking

LinkNext == LinkStep /\ tieMixed' = (tieMixed \/ Mixing')

\* While an account is bound no persona is asked with the key of another account,
\* whatever was connected, synchronised and enabled before, unless a connect or a
\* deletion overlapped another request: then an account resolved with one key may be
\* stored beside another.
AccountsNeverBlend == tieMixed \/ blended = {}

\* A persona HomePilot says it shares is not taken offline, whatever else a pass runs
\* into, unless the second answer about the models was lost.
OfflineMeansGone == halfRead \/ wronged = {}

\* Only personas somebody has chosen, one by one or for all new ones, are enabled.
ChosenOnly == \A a \in Agents : agentLinks[a].enabled => a \in chosen
================================================================================
