------------------------------- MODULE PageInputs -------------------------------
(***************************************************************************)
(* A document or a web page becomes the outline a mind map can be made of     *)
(* (app/dmind_inputs.py, routers/diagram_inputs.py): one extraction, from the  *)
(* request to its answer.  Nothing is saved.                                  *)
(*                                                                          *)
(* A page is fetched over redirects, each hop's name resolved and its         *)
(* addresses checked; the names' answers change at will.  Tags and text drive  *)
(* the outline, lines that are too long are wrapped.  A line is its            *)
(* indentation and the lengths of its words.                                  *)
(***************************************************************************)
EXTENDS Naturals, Sequences, SequencesExt

CONSTANTS PageUrls,          \* addresses a person or a redirect may name
          WellFormed,        \* those check_url accepts
          PublicIps, PrivateIps,
          MAX_REDIRECTS,
          MAX_PAGE_BYTES,    \* in chunks
          MAX_LINE_CHARS, MinRoom, \* of a line, and what is left to a deep one
          MAX_TEXT_CHARS,
          SkipTags, Headings, Lists, Blocks,
          Void,              \* tags without an end
          TextLines,         \* lines a text file may hold: indentation and words
          MaxTokens          \* bound on the tags, texts, paragraphs and chunks of a document

ASSUME InputsAssumption ==
    /\ WellFormed \subseteq PageUrls /\ PublicIps \cap PrivateIps = {}
    /\ {MAX_REDIRECTS, MAX_PAGE_BYTES, MAX_LINE_CHARS, MinRoom, MaxTokens} \subseteq Nat
    /\ \E f \in [Headings -> 1..6] : \A g, h \in Headings : g # h => f[g] # f[h]

VARIABLES
    step,       \* where the extraction is
    hop,        \* its redirects, the address of this hop and its addresses
    met,        \* connections: the hop's address and the machine
    outline,    \* the parser: _HtmlOutline, or docx_text's heading
    unwrapped,  \* lines not wrapped yet
    text,       \* lines of the result
    tokens,     \* of the document so far
    nesting     \* elements that are open, and whether every end had its start

pageVars == <<step, hop, met, outline, unwrapped, text, tokens, nesting>>

Ips == PublicIps \cup PrivateIps
Tags == SkipTags \cup Headings \cup Lists \cup Blocks
InputStep == {"idle", "resolve", "connect", "read", "html", "docx", "plain",
              "wrap", "done", "refused"}

PageTypeOK ==
    /\ step \in InputStep /\ hop.at \in PageUrls /\ hop.count \in 0..(MAX_REDIRECTS + 1)
    /\ outline.skip \in Nat /\ outline.depth \in Nat /\ outline.heading \in 0..6
    /\ tokens \in 0..MaxTokens

--------------------------------------------------------------------------------
(* Fetching a page *)

NoOutline == [skip |-> 0, heading |-> 0, depth |-> 0, indent |-> 0, buffer |-> <<>>, fresh |-> TRUE,
              given |-> 0]
RefuseInput == step' = "refused" /\ UNCHANGED <<hop, met, outline, unwrapped, text, tokens, nesting>>
GoTo(next) == step' = next /\ UNCHANGED <<hop, met, outline, unwrapped, text, tokens, nesting>>

\* check_url.
CheckUrl(url) == IF url \in WellFormed THEN "resolve" ELSE "refused"

FetchUrl(url) ==
    /\ step = "idle" /\ step' = CheckUrl(url) /\ hop' = [hop EXCEPT !.at = url]
    /\ UNCHANGED <<met, outline, unwrapped, text, tokens, nesting>>

\* Mutant of AllPublic: the first answer decides.
FirstPublic(ips) == ips # <<>> /\ ips[Len(ips)] \in PublicIps

\* resolve_public: one private answer refuses the lot.
AllPublic(ips) == ips # <<>> /\ ToSet(ips) \subseteq PublicIps

\* The address that was checked is the one that is connected to.
ResolveName(ips) ==
    /\ step = "resolve"
    /\ IF ~AllPublic(ips) THEN RefuseInput
       ELSE /\ step' = "connect" /\ hop' = [hop EXCEPT !.ips = ips]
            /\ UNCHANGED <<met, outline, unwrapped, text, tokens, nesting>>

ConnectTo ==
    /\ hop.count <= MAX_REDIRECTS
    /\ met' = Append(met, [url |-> hop.at, ip |-> hop.ips[1], answers |-> ToSet(hop.ips)])

\* Mutant of AfterRedirect: only the first address is checked.
StraightOn(url) == "connect"
AfterRedirect(url) == CheckUrl(url)

\* A redirect is an address like any other, at most MAX_REDIRECTS times.
Redirected(url) ==
    /\ step = "connect" /\ ConnectTo
    /\ IF hop.count = MAX_REDIRECTS THEN step' = "refused" /\ UNCHANGED hop
       ELSE step' = AfterRedirect(url) /\ hop' = [hop EXCEPT !.at = url, !.count = @ + 1]
    /\ UNCHANGED <<outline, unwrapped, text, tokens, nesting>>

\* An error, a timeout, an unwanted type, or a redirect that says nothing.
FetchFails ==
    /\ step = "connect" /\ ConnectTo /\ step' = "refused"
    /\ UNCHANGED <<hop, outline, unwrapped, text, tokens, nesting>>

PageComes ==
    /\ step = "connect" /\ ConnectTo /\ step' = "read"
    /\ UNCHANGED <<hop, outline, unwrapped, text, tokens, nesting>>

\* A chunk of the body: its size, and the time since the request.
Chunk(late) ==
    /\ step = "read"
    /\ IF hop.bytes >= MAX_PAGE_BYTES \/ late THEN RefuseInput
       ELSE /\ hop' = [hop EXCEPT !.bytes = @ + 1]
            /\ UNCHANGED <<step, met, outline, unwrapped, text, tokens, nesting>>

\* What comes after the last whole chunk is not counted.
BodyRead(type) == step = "read" /\ GoTo(type)

--------------------------------------------------------------------------------
(* The outline of a page *)

Token == tokens < MaxTokens /\ tokens' = tokens + 1

\* Mutant of BodyIndent: a heading's text on its own level.
BesideHeading(o) == IF o.heading = 0 THEN 0 ELSE o.heading - 1

\* _body_indent: text under its heading, an inner list under its item.
BodyIndent(o) == o.heading + (IF o.depth > 0 THEN o.depth - 1 ELSE 0)

\* A level is two spaces.
OutlineLine(o) == [indent |-> 2 * o.indent, words |-> <<Len(o.buffer)>>, said |-> o.buffer,
                   heading |-> o.heading, depth |-> o.depth, fresh |-> o.fresh]
\* _flush.
NoBuffer(o) == [o EXCEPT !.buffer = <<>>]
FlushTo == IF outline.buffer # <<>> THEN Append(unwrapped, OutlineLine(outline)) ELSE unwrapped
Indented(o) == [o EXCEPT !.indent = BodyIndent(o), !.fresh = TRUE]

\* Mutant of SkipsMore: skipped elements are read.
SkipsNone(o) == o
SkipsMore(o) == [o EXCEPT !.skip = @ + 1]

Level == CHOOSE f \in [Headings -> 1..6] : \A g, h \in Headings : g # h => f[g] # f[h]

StartTag(tag) ==
    /\ step = "html" /\ Token
    /\ nesting' = IF tag \in Void THEN nesting ELSE [nesting EXCEPT !.open = Append(@, tag)]
    /\ IF tag \in SkipTags THEN outline' = SkipsMore(outline) /\ UNCHANGED unwrapped
       ELSE IF outline.skip > 0 THEN UNCHANGED <<outline, unwrapped>>
       ELSE /\ unwrapped' = FlushTo
            /\ outline' =
                  LET o == NoBuffer(outline) IN
                  IF tag \in Headings
                  THEN [o EXCEPT !.heading = Level[tag], !.indent = Level[tag] - 1, !.fresh = FALSE]
                  ELSE Indented(IF tag \in Lists THEN [o EXCEPT !.depth = @ + 1] ELSE o)
    /\ UNCHANGED <<step, hop, met, text>>

EndTag(tag) ==
    /\ step = "html" /\ Token /\ tag \notin Void
    /\ nesting' =
          IF nesting.open # <<>> /\ Last(nesting.open) = tag THEN [nesting EXCEPT !.open = Front(@)]
          ELSE [nesting EXCEPT !.stray = TRUE]
    /\ IF tag \in SkipTags
       THEN outline' = [outline EXCEPT !.skip = IF @ > 0 THEN @ - 1 ELSE 0] /\ UNCHANGED unwrapped
       ELSE IF outline.skip > 0 THEN UNCHANGED <<outline, unwrapped>>
       ELSE /\ unwrapped' = FlushTo
            /\ outline' =
                  LET o == NoBuffer(outline) IN
                  IF tag \in Lists
                  THEN Indented([o EXCEPT !.depth = IF @ > 0 THEN @ - 1 ELSE 0])
                  ELSE o
    /\ UNCHANGED <<step, hop, met, text>>

\* Text, with the elements it is in.
Data ==
    /\ step = "html" /\ Token
    /\ outline' = IF outline.skip > 0 THEN outline
                  ELSE [outline EXCEPT !.buffer = Append(@, ToSet(nesting.open) \cap SkipTags # {}),
                                     !.given = @ + 1]
    /\ UNCHANGED <<step, hop, met, unwrapped, text, nesting>>

ClosePage ==
    /\ step = "html" /\ step' = "wrap"
    /\ unwrapped' = FlushTo /\ outline' = NoBuffer(outline)
    /\ UNCHANGED <<hop, met, text, tokens, nesting>>

--------------------------------------------------------------------------------
(* Files, and wrapping *)

\* extract_text: the bytes decide what reads the file, a name is only a hint; a
\* file that is too large, unsafe, encrypted, damaged or of no known kind is refused.
Extract(type, fit) == step = "idle" /\ IF fit THEN GoTo(type) ELSE RefuseInput

\* docx_text: a paragraph that is a heading, or text in a list.
Paragraph(level, depth) ==
    /\ step = "docx" /\ Token
    /\ outline' = [outline EXCEPT !.heading = IF level > 0 THEN level ELSE @, !.given = @ + 1]
    /\ unwrapped' = Append(unwrapped,
          OutlineLine([outline' EXCEPT !.buffer = <<FALSE>>, !.depth = depth + 1, !.fresh = level = 0,
                                !.indent = IF level > 0 THEN level - 1
                                           ELSE BodyIndent([outline' EXCEPT !.depth = depth + 1])]))
    /\ UNCHANGED <<step, hop, met, text, nesting>>

Plus(a, b) == a + b

\* text_file, and the pages of pdf_text and ocr_text.
ReadLine(l) ==
    /\ step = "plain" /\ Token
    /\ unwrapped' = Append(unwrapped, [OutlineLine(NoOutline) EXCEPT !.indent = l.indent, !.words = l.words])
    /\ outline' = [outline EXCEPT !.given = @ + FoldLeft(Plus, 0, l.words)]
    /\ UNCHANGED <<step, hop, met, text, nesting>>

EndOfFile == step \in {"docx", "plain"} /\ GoTo("wrap")

Length(words) == FoldLeft(Plus, 0, words) + (IF words = <<>> THEN 0 ELSE Len(words) - 1)
Room(l) == IF MAX_LINE_CHARS < l.indent + MinRoom THEN MinRoom ELSE MAX_LINE_CHARS - l.indent

\* Mutant of CutAt: a space behind the room counts, too.
CutLate(words, room) == Max({n \in 0..Len(words) : n = 0 \/ Length(SubSeq(words, 1, n - 1)) < room})

\* The last space within the room, as the number of words before it.
CutAt(words, room) == Max({n \in 0..(Len(words) - 1) : Length(SubSeq(words, 1, n)) < room})

\* One round of finish: what fits is split off at a space in the second half of the
\* room, and within a word if there is none.
WrapLine ==
    LET l == Head(unwrapped)
        room == Room(l)
        n == CutAt(l.words, room)
        first == Length(SubSeq(l.words, 1, n))
        bySpace == n > 0 /\ first > room \div 2
        word == n + 1
        within == room - (IF n = 0 THEN 0 ELSE first + 1)
        rest == IF bySpace THEN SubSeq(l.words, n + 1, Len(l.words))
                ELSE IF within = 0 THEN SubSeq(l.words, word, Len(l.words))
                ELSE <<l.words[word] - within>> \o SubSeq(l.words, word + 1, Len(l.words))
        head == IF bySpace \/ within = 0 THEN SubSeq(l.words, 1, n)
                ELSE Append(SubSeq(l.words, 1, n), within) IN
    /\ step = "wrap" /\ unwrapped # <<>>
    /\ IF Length(l.words) <= room
       THEN /\ unwrapped' = Tail(unwrapped) /\ text' = Append(text, l)
       ELSE /\ unwrapped' = <<[l EXCEPT !.words = SelectSeq(rest, LAMBDA w : w > 0)]>> \o Tail(unwrapped)
            /\ text' = Append(text, [l EXCEPT !.words = head])
    /\ UNCHANGED <<step, hop, met, outline, tokens, nesting>>

TextLength == FoldLeft(LAMBDA n, l : n + 1 + l.indent + Length(l.words), 0, text)

\* finish: a document without text and one with too much are refused as a whole.
FinishText ==
    /\ step = "wrap" /\ unwrapped = <<>>
    /\ IF text = <<>> \/ TextLength - 1 > MAX_TEXT_CHARS THEN RefuseInput ELSE GoTo("done")

PageInit ==
    /\ step = "idle" /\ hop = [at |-> CHOOSE u \in PageUrls : TRUE, count |-> 0, bytes |-> 0, ips |-> <<>>]
    /\ met = <<>> /\ outline = NoOutline /\ unwrapped = <<>> /\ text = <<>> /\ tokens = 0
    /\ nesting = [open |-> <<>>, stray |-> FALSE]

PageNext ==
    \/ \E url \in PageUrls : FetchUrl(url) \/ Redirected(url)
    \/ FetchFails \/ PageComes
    \/ \E a, b \in Ips : ResolveName(<<a, b>>)
    \/ \E late \in BOOLEAN : Chunk(late)
    \/ \E type \in {"html", "plain"} : BodyRead(type)
    \/ \E tag \in Tags : StartTag(tag) \/ EndTag(tag)
    \/ Data \/ ClosePage
    \/ \E type \in {"docx", "plain"}, fit \in BOOLEAN : Extract(type, fit)
    \/ \E level \in 0..2, depth \in 0..1 : Paragraph(level, depth)
    \/ \E l \in TextLines : ReadLine(l)
    \/ EndOfFile \/ WrapLine \/ FinishText

--------------------------------------------------------------------------------
(* Properties *)

\* However often a page redirects and whatever the names resolve to meanwhile, the
\* fetcher connects to public addresses only, each one checked for the address of its
\* own hop, and at most once more than it follows redirects.
OnlyCheckedMachines ==
    /\ Len(met) <= MAX_REDIRECTS + 1
    /\ \A i \in DOMAIN met : met[i].url \in WellFormed /\ met[i].answers \subseteq PublicIps

\* In a page whose elements are closed as they were opened nothing of a skipped
\* element becomes text.
SkippedStaysOut ==
    ~nesting.stray =>
        \A i \in DOMAIN unwrapped : TRUE \notin ToSet(unwrapped[i].said)

\* Text in a block is a level under its heading, in a list within a list one more.
BodyLevel(l) == l.heading + (IF l.depth > 0 THEN l.depth - 1 ELSE 0)
OutlineNests ==
    \A i \in DOMAIN unwrapped :
        unwrapped[i].fresh /\ step \in {"html", "docx"} =>
            unwrapped[i].indent >= 2 * BodyLevel(unwrapped[i])

\* Wrapping splits lines and drops nothing: what was said is in the text, in lines that
\* wait to be wrapped or in the parser's hands, and no line is longer than a topic's
\* label unless it is indented so far that hardly any room is left.
WordChars(lines) == FoldLeft(LAMBDA n, l : n + FoldLeft(Plus, 0, l.words), 0, lines)
LinesFit ==
    /\ outline.given = WordChars(text) + WordChars(unwrapped) + Len(outline.buffer)
    /\ \A i \in DOMAIN text :
          text[i].indent + MinRoom <= MAX_LINE_CHARS =>
              text[i].indent + Length(text[i].words) <= MAX_LINE_CHARS
================================================================================
