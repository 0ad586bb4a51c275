----------------------------- MODULE AgentPortraits ----------------------------
(***************************************************************************)
(* How a HomePilot is found, how personas are imported from packages, and     *)
(* where the portraits of the agents come from (app/homepilot_setup.py,        *)
(* homepilot/hpersona.py, homepilot/portraits.py, the portraits of             *)
(* app/homepilot_platform.py).                                                *)
(*                                                                          *)
(* A portrait is proxied from HomePilot and a copy is kept in two files: the   *)
(* image, and what is known of it.  Each file is replaced whole, the two one   *)
(* after the other, and no lock covers them.  A copy is never removed.         *)
(***************************************************************************)
EXTENDS Naturals, Sequences, SequencesExt

CONSTANTS Faces,         \* agents the directory may show
          Refs, NoRef,   \* names HomePilot gives a persona's pictures
          Appearances,   \* thumbnail and portrait a sync may find
          Bytes,         \* what HomePilot may send as an image
          Viewers,       \* requests that may be open at once
          Packages,      \* .hpersona files: what inspect and the importer read of them
          HostOrder,     \* hosts detection may try, by priority
          HostKind,      \* per host: where its address lies
          StaticHosts,   \* those not found at run time
          MAX_CANDIDATES,
          MaxPortraits   \* bound on the requests, syncs and sweeps

ASSUME PortraitAssumption ==
    /\ NoRef \notin Refs
    /\ HostKind \in [ToSet(HostOrder) -> {"private", "public", "linkLocal", "metadata"}]
    /\ Appearances \subseteq [thumb : Refs \cup {NoRef}, avatar : Refs \cup {NoRef}]
    /\ Bytes \subseteq {"image", "page", "huge"}
    /\ {MAX_CANDIDATES, MaxPortraits} \subseteq Nat

VARIABLES
    faceLinks,   \* per agent: its row, as far as portraits read it
    addressed,   \* the connection's address is known
    onDisk,      \* per agent: the two files of its copy
    viewing,     \* per request: what it has read and fetched
    shown,       \* the last answer about an agent
    blank,       \* agents shown without a face although a copy had been kept
    askedLive,   \* imported agents HomePilot has been asked about
    torn,        \* agents two requests fetched at once, or whose copy was half written when the process died
    sweep,       \* the last detection: the candidates that answered, and the choice
    portraitOps

portraitVars == <<faceLinks, addressed, onDisk, viewing, shown, blank, askedLive, torn,
                  sweep, portraitOps>>

--------------------------------------------------------------------------------
(* portraits.py *)

\* The bytes HomePilot sends as an image: whose, for which reference, and what they are.
Picture == [of : Faces, ref : Refs, bytes : Bytes]
NoPicture == [of |-> NoRef, ref |-> NoRef, bytes |-> "none"]
NoCopy == [img |-> NoPicture, meta |-> NoPicture]
NoViewing == [op |-> "none", changed |-> {}]
NoFace == [there |-> FALSE, local |-> FALSE, embedded |-> FALSE, thumb |-> NoRef, avatar |-> NoRef]

PortraitTypeOK ==
    /\ faceLinks \in [Faces -> [there : BOOLEAN, local : BOOLEAN, embedded : BOOLEAN,
                                thumb : Refs \cup {NoRef}, avatar : Refs \cup {NoRef}]]
    /\ addressed \in BOOLEAN
    /\ \A a \in Faces : {onDisk[a].img, onDisk[a].meta} \subseteq Picture \cup {NoPicture}
    /\ \A q \in Viewers : viewing[q].op \in {"page", "prefetch", "none"}
    /\ blank \cup askedLive \cup torn \subseteq Faces
    /\ portraitOps \in 0..MaxPortraits

CountPortrait == portraitOps < MaxPortraits /\ portraitOps' = portraitOps + 1
ViewAt(q, step) == viewing[q] # NoViewing /\ viewing[q].step = step
ViewOver(q) == viewing' = [viewing EXCEPT ![q] = NoViewing]

PicturesOf(a) == {faceLinks[a].thumb, faceLinks[a].avatar} \ {NoRef}

\* Mutant of StoreKey: a copy is stored under the name of the picture.
ByRef(a, ref) == CHOOSE b \in Faces : \A c \in Faces : ref \in PicturesOf(c) => ref \in PicturesOf(b)

\* The file name is made of the workspace and the agent.
StoreKey(a, ref) == a

\* Mutant of Storable: what HomePilot calls an image is kept.
AsDeclared(p) == p.bytes # "huge"

\* Bytes that are an image by their signature, and not too many.
Storable(p) == p.bytes = "image"

\* Mutant of KeptAs: the copy is noted for the first picture the agent has.
AsFirst(q, p) == [p EXCEPT !.ref = Head(viewing[q].asked)]

\* What is noted of a copy: the reference it was fetched for.
KeptAs(q, p) == p

\* has compares the reference alone.
HasCopy(a, ref) == onDisk[StoreKey(a, ref)].meta.ref = ref

\* load checks the signature again.
LastCopy(a) == LET img == onDisk[StoreKey(a, faceLinks[a].thumb)].img IN
    IF img.bytes \in {"image", "huge"} THEN img ELSE NoPicture

--------------------------------------------------------------------------------
(* fetch_avatar_with_source, _prefetch_portraits *)

\* Mutant of HasClient: any agent is asked about over the first connection.
AnyClient(a) == addressed

\* An imported agent's connection does not exist.
HasClient(a) == addressed /\ ~faceLinks[a].local

\* Thumbnail first, then the whole portrait.
RefsToAsk(row) == SelectSeq(<<row.thumb, row.avatar>>, LAMBDA r : r # NoRef)

\* Another request is fetching the agent's picture.
Fetching(q, a) == \E o \in Viewers \ {q} :
    viewing[o] # NoViewing /\ viewing[o].agent = a /\ viewing[o].step # "next"

StartFetch(q, op, a, row, rest) ==
    /\ viewing' = [viewing EXCEPT ![q] = [op |-> op, agent |-> a, refs |-> RefsToAsk(row),
                                         asked |-> RefsToAsk(row), step |-> "ask", got |-> NoPicture,
                                         rows |-> rest.rows, changed |-> rest.changed,
                                         todo |-> rest.todo]]
    /\ askedLive' = IF row.local THEN askedLive \cup {a} ELSE askedLive
    /\ torn' = IF Fetching(q, a) THEN torn \cup {a} ELSE torn

Show(a, picture, source) ==
    /\ shown' = [agent |-> a, picture |-> picture]
    /\ blank' = IF source = "none" /\ onDisk[a].meta # NoPicture THEN blank \cup {a} ELSE blank

ShowSaved(a) == Show(a, LastCopy(a), IF LastCopy(a) = NoPicture THEN "none" ELSE "saved")

\* A page asks for one portrait: the embedded one, HomePilot's, or the last copy.
AskPortrait(q, a) ==
    LET live == HasClient(a) /\ RefsToAsk(faceLinks[a]) # <<>> IN
    /\ viewing[q] = NoViewing /\ faceLinks[a].there /\ CountPortrait
    /\ IF live /\ ~faceLinks[a].embedded
       THEN /\ StartFetch(q, "page", a, faceLinks[a], [rows |-> faceLinks, changed |-> {}, todo |-> {}])
            /\ UNCHANGED <<shown, blank>>
       ELSE /\ IF faceLinks[a].embedded
               THEN Show(a, [of |-> a, ref |-> NoRef, bytes |-> "image"], "embedded")
               ELSE ShowSaved(a)
            /\ UNCHANGED <<viewing, askedLive, torn>>
    /\ UNCHANGED <<faceLinks, addressed, onDisk, sweep>>

\* A sync has written one agent's references in its session, which commits at the end,
\* and goes on to fetch the pictures that are missing.
SyncFaces(q, a, found) ==
    /\ viewing[q] = NoViewing /\ addressed /\ ~faceLinks[a].local /\ CountPortrait
    /\ viewing' = [viewing EXCEPT ![q] =
          [op |-> "prefetch", agent |-> a, refs |-> <<>>, asked |-> <<>>, step |-> "next", got |-> NoPicture,
           rows |-> [faceLinks EXCEPT ![a].there = TRUE, ![a].thumb = found.thumb, ![a].avatar = found.avatar],
           changed |-> {a}, todo |-> Faces]]
    /\ UNCHANGED <<faceLinks, addressed, onDisk, shown, blank, askedLive, torn, sweep>>

\* An agent of the connection with no copy of its first picture.
Lacking(row, a) == /\ row.there /\ ~row.local /\ RefsToAsk(row) # <<>>
                   /\ ~HasCopy(a, Head(RefsToAsk(row)))

\* The next agent, in no particular order.
PrefetchNext(q, a) ==
    /\ ViewAt(q, "next") /\ a \in viewing[q].todo /\ Lacking(viewing[q].rows[a], a)
    /\ StartFetch(q, "prefetch", a, viewing[q].rows[a], [viewing[q] EXCEPT !.todo = @ \ {a}])
    /\ UNCHANGED <<faceLinks, addressed, onDisk, shown, blank, sweep, portraitOps>>

\* Nothing is missing any more, or PREFETCH_SECONDS have passed: the rows it changed are committed.
PrefetchEnds(q) ==
    /\ ViewAt(q, "next") /\ ViewOver(q)
    /\ faceLinks' = [a \in Faces |-> IF a \in viewing[q].changed THEN viewing[q].rows[a] ELSE faceLinks[a]]
    /\ UNCHANGED <<addressed, onDisk, shown, blank, askedLive, torn, sweep, portraitOps>>

\* The fetch is over: the page is answered, the sync goes on.
FetchDone(q, picture) ==
    LET a == viewing[q].agent IN
    IF viewing[q].op = "prefetch"
    THEN viewing' = [viewing EXCEPT ![q].step = "next"] /\ UNCHANGED <<shown, blank>>
    ELSE ViewOver(q) /\ IF picture = NoPicture THEN ShowSaved(a) ELSE Show(a, picture, "live")

\* asset: the file of the agent's project; one of that name in HomePilot's flat
\* uploads is taken for it.  The image is written before what is known of it.
AssetCame(q, bytes) ==
    LET a == viewing[q].agent
        p == [of |-> a, ref |-> Head(viewing[q].refs), bytes |-> bytes] IN
    /\ ViewAt(q, "ask")
    /\ IF Storable(p) /\ onDisk[StoreKey(a, p.ref)].meta # p
       THEN /\ onDisk' = [onDisk EXCEPT ![StoreKey(a, p.ref)].img = p]
            /\ viewing' = [viewing EXCEPT ![q].step = "meta", ![q].got = p]
            /\ UNCHANGED <<shown, blank>>
       ELSE FetchDone(q, p) /\ UNCHANGED onDisk
    /\ UNCHANGED <<faceLinks, addressed, askedLive, torn, sweep, portraitOps>>

\* No such file, an error page, or HomePilot does not answer.
AssetMissed(q) ==
    /\ ViewAt(q, "ask")
    /\ IF Len(viewing[q].refs) > 1
       THEN viewing' = [viewing EXCEPT ![q].refs = Tail(@)] /\ UNCHANGED <<shown, blank>>
       ELSE FetchDone(q, NoPicture)
    /\ UNCHANGED <<faceLinks, addressed, onDisk, askedLive, torn, sweep, portraitOps>>

CopyWritten(q) ==
    LET p == viewing[q].got IN
    /\ ViewAt(q, "meta")
    /\ onDisk' = [onDisk EXCEPT ![StoreKey(viewing[q].agent, p.ref)].meta = KeptAs(q, p)]
    /\ FetchDone(q, p)
    /\ UNCHANGED <<faceLinks, addressed, askedLive, torn, sweep, portraitOps>>

\* The process dies between any two steps: the files stay, a sync's rows are lost.
GatewayDies ==
    /\ \E q \in Viewers : viewing[q] # NoViewing
    /\ viewing' = [q \in Viewers |-> NoViewing]
    /\ torn' = torn \cup {viewing[q].agent : q \in {o \in Viewers : ViewAt(o, "meta")}}
    /\ UNCHANGED <<faceLinks, addressed, onDisk, shown, blank, askedLive, sweep, portraitOps>>

\* The credentials are lost with the process that held them, or saved again.
AddressChanges ==
    /\ CountPortrait /\ addressed' = ~addressed
    /\ UNCHANGED <<faceLinks, onDisk, viewing, shown, blank, askedLive, torn, sweep>>

--------------------------------------------------------------------------------
(* hpersona.py *)

\* inspect refuses a file that is empty, too large, not a ZIP or without a manifest,
\* and a manifest that lacks a key or is of something else.
ValidPackage(pkg) ==
    pkg.readable /\ pkg.complete /\ pkg.kind = "homepilot.persona" /\ pkg.type \in {"none", "persona"}

\* A bundled picture small enough to be embedded, the thumbnail first.
EmbeddedAvatar(pkg) == pkg.bundled \cap ({pkg.thumb, pkg.avatar} \ {NoRef}) # {}

\* import_local: the agent is of no connection, offline and not enabled.
ImportLocal(a, pkg) ==
    /\ ~faceLinks[a].there /\ \A q \in Viewers : a \notin viewing[q].changed
    /\ ValidPackage(pkg) /\ CountPortrait
    /\ faceLinks' = [faceLinks EXCEPT ![a] = [there |-> TRUE, local |-> TRUE, embedded |-> EmbeddedAvatar(pkg),
                                              thumb |-> pkg.thumb, avatar |-> pkg.avatar]]
    /\ UNCHANGED <<addressed, onDisk, viewing, shown, blank, askedLive, torn, sweep>>

--------------------------------------------------------------------------------
(* homepilot_setup.py *)

\* Addresses found at run time are tried only if they are private.
SweptHosts == SelectSeq(HostOrder, LAMBDA h : h \in StaticHosts \/ HostKind[h] = "private")

\* Mutant of SsrfOk: every host may be tried.
AnyHost(h) == TRUE

\* Never an address of the link or of a cloud's metadata service.
SsrfOk(h) == HostKind[h] \notin {"linkLocal", "metadata"}

\* Every host with the two ports HomePilot is shipped with, up to a number.
Candidates ==
    LET safe == SelectSeq(SweptHosts, SsrfOk)
        all == [i \in 1..(2 * Len(safe)) |-> [host |-> safe[(i + 1) \div 2], desktop |-> i % 2 = 1]] IN
    SubSeq(all, 1, IF Len(all) < MAX_CANDIDATES THEN Len(all) ELSE MAX_CANDIDATES)

\* Mutant of Chosen: the candidate whose answer came first.
FirstToAnswer(alive, first) == first

\* The first of those that answer at /health or tell their models, by priority.
Chosen(alive, first) == Min(alive)

\* detect asks all candidates at once; their answers come in any order.
Detect(alive, first) ==
    /\ CountPortrait /\ alive \subseteq 1..Len(Candidates) /\ first \in alive
    /\ sweep' = [alive |-> alive, found |-> Chosen(alive, first)]
    /\ UNCHANGED <<faceLinks, addressed, onDisk, viewing, shown, blank, askedLive, torn>>

--------------------------------------------------------------------------------
PortraitInit ==
    /\ faceLinks = [a \in Faces |-> NoFace] /\ addressed = TRUE
    /\ onDisk = [a \in Faces |-> NoCopy] /\ viewing = [q \in Viewers |-> NoViewing]
    /\ shown = [agent |-> NoRef, picture |-> NoPicture]
    /\ blank = {} /\ askedLive = {} /\ torn = {}
    /\ sweep = [alive |-> {}, found |-> 0] /\ portraitOps = 0

PortraitNext ==
    \/ \E q \in Viewers, a \in Faces : AskPortrait(q, a) \/ PrefetchNext(q, a)
    \/ \E q \in Viewers, a \in Faces, found \in Appearances : SyncFaces(q, a, found)
    \/ \E q \in Viewers : PrefetchEnds(q) \/ AssetMissed(q) \/ CopyWritten(q)
    \/ \E q \in Viewers, bytes \in Bytes :
          AssetCame(q, bytes)
    \/ GatewayDies \/ AddressChanges
    \/ \E a \in Faces, pkg \in Packages : ImportLocal(a, pkg)
    \/ \E alive \in SUBSET (1..Len(Candidates)) : \E first \in alive : Detect(alive, first)

\* No agent is shown another agent's face, whatever its pictures are called and however
\* requests, syncs and crashes meet.
OwnFace == shown.picture.of \in {shown.agent, NoRef}

\* Once a copy of an agent's portrait was kept, the agent is never again shown without
\* one, whatever HomePilot sends and whether it is there at all.
NeverBlank == blank = {}

\* What is noted of a copy names the picture that was kept (has is what decides that
\* nothing is fetched again), unless two requests fetched it at once or the process died
\* between the two files.
CopyAgrees ==
    \A a \in Faces \ torn : \/ onDisk[a].meta.ref = onDisk[a].img.ref
                            \/ \E q \in Viewers : ViewAt(q, "meta") /\ viewing[q].agent = a

\* HomePilot is never asked about an agent that was imported.
ImportsStayLocal == askedLive = {}

\* Whatever the order of the answers, the same HomePilot is chosen, and no address of
\* the link, of a metadata service or outside the private ranges found at run time is tried.
SweepSound ==
    /\ sweep.found # 0 => sweep.alive # {} /\ \A i \in sweep.alive : sweep.found <= i
    /\ \A i \in sweep.alive : HostKind[Candidates[i].host] \in {"private", "public"}
================================================================================
