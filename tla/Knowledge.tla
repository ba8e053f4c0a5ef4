----------------------------- MODULE Knowledge -----------------------------
(***************************************************************************)
(* The documents of a knowledge base: app/services/knowledge_service.py,   *)
(* behind app/routes/knowledge.py.  A document is stored, cut into         *)
(* overlapping windows of words, embedded by a service outside, and its    *)
(* chunks are stored for searches.  A window is <<first word, end>>.       *)
(*                                                                         *)
(* Each document is processed once, by a background task of the process    *)
(* that stored it; the task awaits only the embedding.  One process runs   *)
(* the tasks; deletions may come from any.                                 *)
(***************************************************************************)
EXTENDS Integers

CONSTANTS
    Document,   \* bound: documents that can ever be stored
    Length,     \* numbers of words in a document
    ChunkSize,  \* chunk_size of the knowledge base
    Overlap     \* values of its chunk_overlap

ASSUME KnowledgeAssumption ==
    /\ Length \subseteq Nat /\ ChunkSize \in Nat \ {0} /\ Overlap \subseteq Nat

VARIABLES
    overlap,  \* chunk_overlap of the knowledge base
    status,   \* of each document in knowledge_documents; "absent": no row
    words,    \* the number of words in each
    task,     \* where process_document is, for each document
    start,    \* its variable start
    cut,      \* its variable chunks
    chunks    \* knowledge_chunks of each document

documentVars == <<overlap, status, words, task, start, cut, chunks>>

Stored(d) == status[d] # "absent"
EndOf(d) == IF start[d] + ChunkSize < words[d] THEN start[d] + ChunkSize ELSE words[d]

KnowledgeInit ==
    /\ overlap \in Overlap
    /\ status = [d \in Document |-> "absent"] /\ words = [d \in Document |-> 0]
    /\ task = [d \in Document |-> "none"] /\ start = [d \in Document |-> 0]
    /\ cut = [d \in Document |-> {}] /\ chunks = [d \in Document |-> {}]

(* An endless loop in one task keeps the event loop from all of them.       *)
LoopRuns == \A d \in Document : task[d] # "spinning"

At(d, from, to) == LoopRuns /\ task[d] = from /\ task' = [task EXCEPT ![d] = to]

(* create_document, when its knowledge base exists: a row, and a task once  *)
(* the response has been sent.                                              *)
CreateDocument(d) ==
    /\ ~Stored(d) /\ At(d, "none", "load")
    /\ status' = [status EXCEPT ![d] = "pending"]
    /\ \E n \in Length : words' = [words EXCEPT ![d] = n]
    /\ UNCHANGED <<overlap, start, cut, chunks>>

(* process_document loads the row, if it is still there.  A failing         *)
(* transaction out here ends the task, and nothing but the log knows        *)
(* ("broken").                                                              *)
LoadDocument(d) ==
    /\ \/ At(d, "load", IF Stored(d) THEN "mark" ELSE "over")
       \/ At(d, "load", "broken")
    /\ UNCHANGED <<overlap, status, words, start, cut, chunks>>

(* The row is marked, if it has not been deleted since. *)
MarkProcessing(d) ==
    /\ \/ /\ At(d, "mark", "cut")
          /\ status' = IF Stored(d) THEN [status EXCEPT ![d] = "processing"] ELSE status
       \/ At(d, "mark", "broken") /\ UNCHANGED status
    /\ UNCHANGED <<overlap, words, start, cut, chunks>>

(* A mutant of NextStart: the windows move apart.                           *)
NextStartAfter(d) == start[d] + ChunkSize + overlap

NextStart(d) == start[d] + ChunkSize - overlap

(* One iteration of _chunk_text.  With an overlap that is not less than the *)
(* window, start never gets ahead, and the loop, which awaits nothing,      *)
(* keeps its process for ever ("spinning").                                 *)
CutChunk(d) ==
    /\ words[d] > 0
    /\ At(d, "cut", IF EndOf(d) = words[d] THEN "embed"
                    ELSE IF NextStart(d) <= start[d] THEN "spinning" ELSE "cut")
    /\ cut' = [cut EXCEPT ![d] = @ \cup {<<start[d], EndOf(d)>>}]
    /\ start' = [start EXCEPT ![d] = IF EndOf(d) = words[d] THEN @ ELSE NextStart(d)]
    /\ UNCHANGED <<overlap, status, words, chunks>>

(* No words, no chunks: a ValueError. *)
NothingToCut(d) ==
    /\ words[d] = 0 /\ At(d, "cut", "fail")
    /\ UNCHANGED <<overlap, status, words, start, cut, chunks>>

(* _embed_texts: all vectors, or an error or a timeout of the service.      *)
EmbedChunks(d) ==
    /\ \/ At(d, "embed", "clear")
       \/ At(d, "embed", "fail")
    /\ UNCHANGED <<overlap, status, words, start, cut, chunks>>

(* DELETE FROM knowledge_chunks, a transaction of its own. *)
ClearChunks(d) ==
    /\ \/ At(d, "clear", "store") /\ chunks' = [chunks EXCEPT ![d] = {}]
       \/ At(d, "clear", "fail") /\ UNCHANGED chunks
    /\ UNCHANGED <<overlap, status, words, start, cut>>

(* A mutant of StoreChunks: the chunks are committed before the status.     *)
StoreChunksFirst(d) ==
    /\ Stored(d) /\ At(d, "store", "fail")
    /\ chunks' = [chunks EXCEPT ![d] = cut[d]]
    /\ UNCHANGED <<overlap, status, words, start, cut>>

(* All chunks and the status in one transaction; it fails if the document   *)
(* has been deleted, by the foreign key of the chunks, or for another       *)
(* reason.                                                                  *)
StoreChunks(d) ==
    \/ /\ Stored(d) /\ At(d, "store", "over")
       /\ chunks' = [chunks EXCEPT ![d] = cut[d]]
       /\ status' = [status EXCEPT ![d] = "ready"]
       /\ UNCHANGED <<overlap, words, start, cut>>
    \/ /\ At(d, "store", "fail")
       /\ UNCHANGED <<overlap, status, words, start, cut, chunks>>

(* A mutant of MarkFailed: the error is only logged. *)
LogFailure(d) ==
    /\ At(d, "fail", "over")
    /\ UNCHANGED <<overlap, status, words, start, cut, chunks>>

(* The handler of any exception: the row, if it is there, is 'failed',      *)
(* unless this transaction fails as well.                                   *)
MarkFailed(d) ==
    /\ \/ /\ At(d, "fail", "over")
          /\ status' = IF Stored(d) THEN [status EXCEPT ![d] = "failed"] ELSE status
       \/ At(d, "fail", "broken") /\ UNCHANGED status
    /\ UNCHANGED <<overlap, words, start, cut, chunks>>

(* delete_document; its chunks go with it (ON DELETE CASCADE).              *)
DeleteDocument(d) ==
    /\ Stored(d)
    /\ status' = [status EXCEPT ![d] = "absent"]
    /\ chunks' = [chunks EXCEPT ![d] = {}]
    /\ UNCHANGED <<overlap, words, task, start, cut>>

(* delete_knowledge_base: all documents and chunks.                         *)
DeleteBase ==
    /\ \E d \in Document : Stored(d)
    /\ status' = [d \in Document |-> "absent"] /\ chunks' = [d \in Document |-> {}]
    /\ UNCHANGED <<overlap, words, task, start, cut>>

(* The process ends with the tasks in it, which nothing starts again.       *)
Running == {d \in Document : task[d] \notin {"none", "over", "broken", "lost"}}

ProcessEnds ==
    /\ Running # {}
    /\ task' = [d \in Document |-> IF d \in Running THEN "lost" ELSE task[d]]
    /\ UNCHANGED <<overlap, status, words, start, cut, chunks>>

ProcessStep(d) ==
    \/ LoadDocument(d)
    \/ MarkProcessing(d)
    \/ CutChunk(d)
    \/ NothingToCut(d)
    \/ EmbedChunks(d)
    \/ ClearChunks(d)
    \/ StoreChunks(d)
    \/ MarkFailed(d)

KnowledgeNext ==
    \/ \E d \in Document :
         \/ CreateDocument(d)
         \/ ProcessStep(d)
         \/ DeleteDocument(d)
    \/ DeleteBase
    \/ ProcessEnds

(* The event loop runs the task until it ends: the embedding has a timeout. *)
KnowledgeFairness == \A d \in Document : WF_documentVars(ProcessStep(d))
KnowledgeSpec == KnowledgeInit /\ [][KnowledgeNext]_documentVars
FairKnowledgeSpec == KnowledgeSpec /\ KnowledgeFairness

-----------------------------------------------------------------------------
Task == {"none", "load", "mark", "cut", "spinning", "embed", "clear", "store", "fail", "over",
         "broken", "lost"}

(* Types. *)
KnowledgeTypeOK ==
    /\ overlap \in Overlap
    /\ status \in [Document -> {"absent", "pending", "processing", "ready", "failed"}]
    /\ words \in [Document -> Length \cup {0}] /\ task \in [Document -> Task]
    /\ start \in [Document -> Int] /\ \A d \in Document : start[d] <= words[d]
    /\ cut \in [Document -> SUBSET (Int \X Int)] /\ chunks \in [Document -> SUBSET (Int \X Int)]

(* A search sees a document as a whole or not at all: stored chunks are     *)
(* those of a document that is ready, they hold every word, and none is     *)
(* longer than a chunk.                                                     *)
Holds(window, w) == window[1] <= w /\ w < window[2]

SearchSeesWholeDocuments ==
    \A d \in Document : chunks[d] # {} =>
        /\ status[d] = "ready"
        /\ \A w \in 0..(words[d] - 1) : \E window \in chunks[d] : Holds(window, w)
        /\ \A window \in chunks[d] : window[2] - window[1] <= ChunkSize

(* A document that was stored is ready, failed or deleted in the end: its   *)
(* task gets through the embedding and the deletions that race with it.     *)
(* The task's own end spares it that: its process ends, or a transaction    *)
(* fails where nothing handles it, which is before the try or in the        *)
(* handler; and so does a knowledge base with an overlap as long as its     *)
(* chunks.                                                                  *)
DocumentSettles ==
    \A d \in Document :
        status[d] = "pending" ~> \/ status[d] \in {"ready", "failed", "absent"}
                                  \/ task[d] \in {"broken", "lost"} \/ ~LoopRuns

(* What the code does not keep; no run lists it: a restart, and a database  *)
(* that is away for a moment, leave documents 'pending' or 'processing',    *)
(* which the routes offer no way to process again ("Poll GET /documents to  *)
(* check when status=ready", app/routes/knowledge.py:110).                  *)
NoDocumentIsForgotten ==
    \A d \in Document : task[d] \in {"broken", "lost"} => status[d] \in {"ready", "failed", "absent"}
=============================================================================
