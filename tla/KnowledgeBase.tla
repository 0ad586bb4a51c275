----------------------------- MODULE KnowledgeBase -----------------------------
(* Documents that are taken in from granted folders, parsed and cut in chunks;    *)
(* generated versions of them; answers from their chunks with citations; and the  *)
(* folders that are to be indexed again by jobs.                                  *)
EXTENDS Integers, Sequences, FiniteSets, SequencesExt

CONSTANTS
    Generators,    \* requests that generate versions
    Uploads,       \* what is taken in: [project, type, text, given, under]
    Outputs,       \* texts, as sequences of words, that are generated
    Questions,     \* sets of words
    NoScope,       \* a question about all projects
    Folders,       \* folders that may be granted
    Placeholder,   \* the word of a text that says it could not be read
    ExtrasThere,   \* whether the libraries for office files are installed
    ChunkSize,     \* words of a chunk (1200 characters in the code, whose cut may divide a word:
                   \* each part counts as a word of its own)
    Weight,        \* per length of a chunk, what a repeated word counts, in thousandths
    PassageLimit,  \* passages of an answer (5 in the code)
    IndexTries,    \* attempts that a job to index has (3 in the code)
    MaxDocuments, MaxReindexed  \* bounds

VARIABLES
    documents,   \* the documents in order
    granted,     \* folders that may be read
    generating,  \* per request: the document it makes a version of
    numberedAtOnce,  \* documents numbered while another request numbered one
    folder,      \* the folder to be indexed
    reindexing   \* the attempts of its jobs in order; with the last one they are given up

knowledgeVars == <<documents, granted, generating, numberedAtOnce, folder, reindexing>>

NotGenerating == [source |-> 0, version |-> 0, crossed |-> FALSE]

KnowledgeTypeOK ==
    /\ Len(documents) <= MaxDocuments
    /\ \A d \in DOMAIN documents :
          /\ documents[d].root \in 1..MaxDocuments /\ documents[d].version \in 1..MaxDocuments
          /\ documents[d].state \in {"indexed", "needs_parser"}
          /\ \A n \in DOMAIN documents[d].chunks :
                Len(documents[d].chunks[n]) \in 1..ChunkSize
    /\ granted \subseteq Folders /\ numberedAtOnce \subseteq DOMAIN documents
    /\ folder \in {"none", "queued"} /\ reindexing \in Seq(0..IndexTries)
    /\ Len(reindexing) <= MaxReindexed

KnowledgeInit ==
    /\ documents = <<>> /\ granted = {}
    /\ generating = [w \in Generators |-> NotGenerating]
    /\ numberedAtOnce = {} /\ folder = "none" /\ reindexing = <<>>

--------------------------------------------------------------------------------
(* Taking in *)

ChunkCount(text) == (Len(text) + ChunkSize - 1) \div ChunkSize
\* Mutant: a last chunk that is not full is left off.
ChunksFull(text) ==
    [n \in 1..(Len(text) \div ChunkSize) |-> SubSeq(text, (n - 1) * ChunkSize + 1, n * ChunkSize)]

\* The chunks of a text, each as long as it may be.
Chunks(text) ==
    [n \in 1..ChunkCount(text) |->
        SubSeq(text, (n - 1) * ChunkSize + 1,
               IF n * ChunkSize < Len(text) THEN n * ChunkSize ELSE Len(text))]

\* Office files are read when the libraries are there, and never when they break.
OfficeText(upload) == IF ExtrasThere /\ ~upload.broken THEN upload.text ELSE <<Placeholder>>
NeedsExtra(upload) ==
    upload.type = "image" \/ (upload.type = "office" /\ (~ExtrasThere \/ upload.broken))
ParseDocument(upload) ==
    CASE upload.type = "image" -> <<Placeholder>>
      [] upload.type = "office" -> OfficeText(upload)
      [] OTHER -> upload.text

\* Without a content the path must be in a granted folder; the file is not read then.
IsPermitted(upload) == upload.given \/ upload.under \cap granted # {}

GrantFolder(f) ==
    /\ f \in Folders \ granted /\ granted' = granted \cup {f}
    /\ UNCHANGED <<documents, generating, numberedAtOnce, folder, reindexing>>

IngestDocument(upload) ==
    /\ Len(documents) < MaxDocuments /\ IsPermitted(upload)
    /\ LET text == IF upload.given THEN ParseDocument(upload)
                   ELSE ParseDocument([upload EXCEPT !.text = <<>>])
       IN documents' = Append(documents,
              [project |-> upload.project, root |-> Len(documents) + 1, version |-> 1,
               state |-> IF NeedsExtra(upload) THEN "needs_parser" ELSE "indexed",
               generated |-> FALSE, text |-> text, chunks |-> Chunks(text)])
    /\ UNCHANGED <<granted, generating, numberedAtOnce, folder, reindexing>>

--------------------------------------------------------------------------------
(* Generated versions *)

\* Mutant: versions of the document alone are counted.
OwnVersions(root) == {d \in DOMAIN documents : d = root}

Lineage(root) == {d \in DOMAIN documents : documents[d].root = root}

NextVersion(root) ==
    1 + CHOOSE v \in {documents[d].version : d \in Lineage(root)} :
            \A d \in Lineage(root) : v >= documents[d].version

BeginGenerate(w, d) ==
    /\ generating[w] = NotGenerating /\ d \in DOMAIN documents
    /\ LET root == documents[d].root
           others == {v \in Generators : generating[v].source # 0
                                       /\ documents[generating[v].source].root = root}
       IN generating' = [v \in Generators |->
              IF v = w THEN [source |-> d, version |-> NextVersion(root), crossed |-> others # {}]
              ELSE IF v \in others THEN [generating[v] EXCEPT !.crossed = TRUE]
              ELSE generating[v]]
    /\ UNCHANGED <<documents, granted, numberedAtOnce, folder, reindexing>>

CommitGenerate(w, text) ==
    /\ generating[w] # NotGenerating /\ Len(documents) < MaxDocuments
    /\ LET source == documents[generating[w].source]
       IN documents' = Append(documents,
              [project |-> source.project, root |-> source.root, version |-> generating[w].version,
               state |-> "indexed", generated |-> TRUE, text |-> text, chunks |-> Chunks(text)])
    /\ numberedAtOnce' = IF generating[w].crossed THEN numberedAtOnce \cup {Len(documents) + 1} ELSE numberedAtOnce
    /\ generating' = [generating EXCEPT ![w] = NotGenerating]
    /\ UNCHANGED <<granted, folder, reindexing>>

--------------------------------------------------------------------------------
(* Answers *)

Passages == {p \in (DOMAIN documents) \X (1..10) : p[2] \in DOMAIN documents[p[1]].chunks}
ChunkOf(p) == documents[p[1]].chunks[p[2]]
WordsOf(chunk) == {chunk[i] : i \in DOMAIN chunk}
InScope(p, project) == project = NoScope \/ documents[p[1]].project = project

Overlap(q, p) == Cardinality(q \cap WordsOf(ChunkOf(p)))
Frequency(q, p) == Cardinality({i \in DOMAIN ChunkOf(p) : ChunkOf(p)[i] \in q})
PassageScore(q, p) == Overlap(q, p) * 2000 + Frequency(q, p) * Weight[Len(ChunkOf(p))]
\* Mutant: chunks without a word of the question are ranked too.
MatchingAny(q, project) == {p \in Passages : InScope(p, project)}

MatchingPassages(q, project) == {p \in Passages : InScope(p, project) /\ Overlap(q, p) > 0}

\* Best first; rows of one score as they were read.
HybridSearch(q, project) ==
    LET before(p, r) == \/ PassageScore(q, p) > PassageScore(q, r)
                        \/ PassageScore(q, p) = PassageScore(q, r) /\ (p[1] < r[1] \/ (p[1] = r[1] /\ p[2] < r[2]))
        ranked == SetToSortSeq(MatchingPassages(q, project), before)
    IN SubSeq(ranked, 1, IF Len(ranked) < PassageLimit THEN Len(ranked) ELSE PassageLimit)

\* The passages of the document asked about, or all that were found if none is its.
CitedPassages(found, d) ==
    LET own == SelectSeq(found, LAMBDA p : p[1] = d)
    IN IF own = <<>> THEN found ELSE own

--------------------------------------------------------------------------------
(* Folders to index *)

EnqueueIndex ==
    /\ Len(reindexing) < MaxReindexed
    /\ reindexing' = Append(reindexing, 0) /\ folder' = "queued"

AddLocal ==
    /\ folder = "none" /\ EnqueueIndex
    /\ UNCHANGED <<documents, granted, generating, numberedAtOnce>>

Reindex ==
    /\ folder # "none" /\ EnqueueIndex
    /\ UNCHANGED <<documents, granted, generating, numberedAtOnce>>

DeleteSource ==
    /\ folder # "none" /\ folder' = "none"
    /\ UNCHANGED <<documents, granted, generating, numberedAtOnce, reindexing>>

\* The worker of the integrations takes every job, and has no handler for this kind: the
\* attempt fails, and the folder's row is not told.
NoHandler(j) ==
    /\ reindexing[j] < IndexTries /\ reindexing' = [reindexing EXCEPT ![j] = @ + 1]
    /\ UNCHANGED <<documents, granted, generating, numberedAtOnce, folder>>

KnowledgeNext ==
    \/ \E f \in Folders : GrantFolder(f)
    \/ \E upload \in Uploads : IngestDocument(upload)
    \/ \E w \in Generators : \/ \E d \in DOMAIN documents : BeginGenerate(w, d)
                           \/ \E text \in Outputs : CommitGenerate(w, text)
    \/ AddLocal
    \/ Reindex
    \/ DeleteSource
    \/ \E j \in DOMAIN reindexing : NoHandler(j)

--------------------------------------------------------------------------------
(* Properties *)

\* Each version of a document has a number of its own, whichever of its versions it was
\* generated from; only requests that were open at once may number two alike.
VersionsDistinct ==
    \A d, e \in DOMAIN documents :
        d < e /\ documents[d].root = documents[e].root /\ documents[d].version = documents[e].version
            => e \in numberedAtOnce

\* No text is lost between the chunks of a document, and an answer is grounded in
\* them: each passage it cites is of the project that was asked about and has a word of
\* the question, the best comes first, and it has none only if no chunk has; asked
\* about one document it never mixes its passages with those of others.
AnswersGrounded ==
    /\ \A d \in DOMAIN documents : FlattenSeq(documents[d].chunks) = documents[d].text
    /\ \A q \in Questions : \A project \in {NoScope} \cup {documents[d].project : d \in DOMAIN documents} :
        LET found == HybridSearch(q, project)
        IN /\ \A i \in DOMAIN found :
                /\ InScope(found[i], project) /\ WordsOf(ChunkOf(found[i])) \cap q # {}
                /\ i > 1 => PassageScore(q, found[i]) <= PassageScore(q, found[i - 1])
           /\ found = <<>> => ~ \E p \in Passages : InScope(p, project) /\ Overlap(q, p) > 0
           /\ \A d \in {found[i][1] : i \in DOMAIN found} :
                \A i \in DOMAIN CitedPassages(found, d) : CitedPassages(found, d)[i][1] = d
================================================================================
