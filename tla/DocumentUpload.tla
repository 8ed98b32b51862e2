--------------------------- MODULE DocumentUpload ---------------------------
(***************************************************************************)
(* Resumable attachments of a project (api/routes/document_uploads.py,     *)
(* services/document_upload_service.py): an actor opens an upload, writes  *)
(* its chunks in any order and completes it; the parser runs between two   *)
(* transactions, and what both checked may have changed in between.  All   *)
(* writes hold the membership and the project, so each is one step.        *)
(***************************************************************************)
EXTENDS Naturals, Sequences, FiniteSets

CONSTANTS
    Actors, Files,      \* members who may upload; the manifests they upload
    LastChunk,          \* chunks of a file are 1..LastChunk
    ActorLimit,         \* open uploads of an actor, 2 in the code
    TotalLimit,         \* open uploads of the workspace, 8 in the code
    MaxUploads,         \* bound: uploads
    MaxLapses           \* bound: deadlines that pass, documents removed, roles changed

VARIABLES
    uploads,            \* document_uploads, in order
    documents,          \* offer_documents of these files, in order
    underway,           \* requests between their two transactions
    permitted,          \* members whose role may upload
    lapses

uploadVars == <<uploads, documents, underway, permitted, lapses>>

Chunks == 1..LastChunk
Active(u) == uploads[u].status = "uploading" /\ ~uploads[u].lapsed
OpenUploads == {u \in DOMAIN uploads : Active(u)}

\* _matching_doc: the oldest document of this content that can still be read.
Readable(d) == documents[d].status = "ready" /\ ~documents[d].lapsed
MatchingDocs(file) == {d \in DOMAIN documents : documents[d].file = file /\ Readable(d)}
Oldest(S) == CHOOSE d \in S : \A e \in S : d <= e

\* purge_staging, at the start of every list, start and read: the bytes of
\* lapsed uploads and the slides of lapsed documents go.
Purged == [u \in DOMAIN uploads |->
              IF uploads[u].status = "uploading" /\ uploads[u].lapsed
              THEN [uploads[u] EXCEPT !.status = "expired", !.chunks = {}] ELSE uploads[u]]
WithoutSlides == [d \in DOMAIN documents |->
                     IF documents[d].lapsed THEN [documents[d] EXCEPT !.slides = FALSE] ELSE documents[d]]

\* getOfferDocumentUpload, listOfferDocuments, or a start that is refused or replayed.
ReadUploads ==
    /\ \E actor \in Actors : actor \in permitted
    /\ uploads' = Purged /\ documents' = WithoutSlides
    /\ UNCHANGED <<underway, permitted, lapses>>

\* startOfferDocumentUpload joins the actor's open upload of the same file, or
\* points to the document, or opens one within the limits.
StartDocumentUpload(actor, file) ==
    LET mine == {u \in OpenUploads : uploads[u].actor = actor}
        match == MatchingDocs(file) IN
    /\ actor \in permitted
    /\ \A u \in mine : uploads[u].file # file
    /\ match # {} \/ (Cardinality(OpenUploads) < TotalLimit /\ Cardinality(mine) < ActorLimit)
    /\ Len(uploads) < MaxUploads
    /\ uploads' = Append(Purged,
           [actor |-> actor, file |-> file, chunks |-> {}, lapsed |-> FALSE,
            status |-> IF match = {} THEN "uploading" ELSE "completed",
            document |-> IF match = {} THEN 0 ELSE Oldest(match)])
    /\ documents' = WithoutSlides
    /\ UNCHANGED <<underway, permitted, lapses>>

\* putDocumentChunk authorizes before it reads the bytes ...
ReceiveChunk(u, chunk) ==
    /\ uploads[u].actor \in permitted /\ Active(u)
    /\ chunk \notin uploads[u].chunks
    /\ underway' = underway \cup {[op |-> "chunk", upload |-> u, chunk |-> chunk]}
    /\ UNCHANGED <<uploads, documents, permitted, lapses>>

\* Mutant: what was checked before the bytes were read is relied on.
Accepts_AsRead(u) == uploads[u].actor \in permitted

\* ... and again, under the lock of the row, before it writes them.
Accepts(u) == uploads[u].actor \in permitted /\ Active(u)

PutChunk(r) ==
    /\ r \in underway /\ r.op = "chunk"
    /\ underway' = underway \ {r}
    /\ uploads' = IF Accepts(r.upload) THEN [uploads EXCEPT ![r.upload].chunks = @ \cup {r.chunk}]
                  ELSE uploads
    /\ UNCHANGED <<documents, permitted, lapses>>

\* completeOfferDocumentUpload takes the bytes of a whole upload to the parser ...
TakeBody(u) ==
    /\ uploads[u].actor \in permitted /\ Active(u)
    /\ uploads[u].chunks = Chunks
    /\ underway' = underway \cup {[op |-> "complete", upload |-> u, chunk |-> 0]}
    /\ UNCHANGED <<uploads, documents, permitted, lapses>>

Settled(u, status, d) ==
    [uploads EXCEPT ![u] = [@ EXCEPT !.status = status, !.document = d, !.chunks = {}]]

Document(file) == [file |-> file, status |-> "ready", lapsed |-> FALSE, slides |-> TRUE]

\* ... and publishes the document, once for all uploads of the file.
Publish(u) ==
    LET match == MatchingDocs(uploads[u].file) IN
    /\ documents' = IF match = {} THEN Append(documents, Document(uploads[u].file)) ELSE documents
    /\ uploads' = Settled(u, "completed", IF match = {} THEN Len(documents') ELSE Oldest(match))

\* A parser that times out, or bytes that are no document of the manifest.
Reject(u) == uploads' = Settled(u, "failed", 0) /\ UNCHANGED documents

CompleteDocumentUpload(r) ==
    /\ r \in underway /\ r.op = "complete"
    /\ underway' = underway \ {r}
    /\ IF Accepts(r.upload) THEN Publish(r.upload) \/ Reject(r.upload) ELSE UNCHANGED <<uploads, documents>>
    /\ UNCHANGED <<permitted, lapses>>

------------------------------------------------------------------------------
Lapse == lapses < MaxLapses /\ lapses' = lapses + 1 /\ UNCHANGED underway

\* The hour of an upload, or the 30 days of a document.
UploadLapses(u) ==
    /\ Active(u) /\ Lapse
    /\ uploads' = [uploads EXCEPT ![u].lapsed = TRUE] /\ UNCHANGED <<documents, permitted>>

DocumentLapses(d) ==
    /\ Readable(d) /\ Lapse
    /\ documents' = [documents EXCEPT ![d].lapsed = TRUE] /\ UNCHANGED <<uploads, permitted>>

\* deleteOfferDocument, as far as it concerns the content.
DeleteDocument(d) ==
    /\ documents[d].status = "ready" /\ Lapse
    /\ documents' = [documents EXCEPT ![d].status = "deleted", ![d].slides = FALSE]
    /\ UNCHANGED <<uploads, permitted>>

ChangeRole(actor) ==
    /\ Lapse
    /\ permitted' = IF actor \in permitted THEN permitted \ {actor} ELSE permitted \cup {actor}
    /\ UNCHANGED <<uploads, documents>>

UploadInit ==
    /\ uploads = <<>> /\ documents = <<>> /\ underway = {} /\ permitted = Actors /\ lapses = 0

UploadNext ==
    \/ ReadUploads
    \/ \E actor \in Actors, file \in Files : StartDocumentUpload(actor, file)
    \/ \E u \in DOMAIN uploads, chunk \in Chunks : ReceiveChunk(u, chunk)
    \/ \E u \in DOMAIN uploads : TakeBody(u) \/ UploadLapses(u)
    \/ \E r \in underway : PutChunk(r) \/ CompleteDocumentUpload(r)
    \/ \E d \in DOMAIN documents : DocumentLapses(d) \/ DeleteDocument(d)
    \/ \E actor \in Actors : ChangeRole(actor)

------------------------------------------------------------------------------
UploadTypeOK ==
    /\ permitted \subseteq Actors /\ lapses \in 0..MaxLapses
    /\ \A u \in DOMAIN uploads :
          /\ uploads[u].status \in {"uploading", "completed", "failed", "expired"}
          /\ uploads[u].chunks \subseteq Chunks /\ uploads[u].document \in 0..Len(documents)

\* The bytes of a file are kept once: in uploads that are still open, or in one
\* document that can be read, with which its finished uploads agree (complete,
\* put, start and purge, around the parser and each other).
BytesKeptOnce ==
    /\ \A u \in DOMAIN uploads :
          /\ uploads[u].chunks # {} => uploads[u].status = "uploading"
          /\ uploads[u].status = "completed" => documents[uploads[u].document].file = uploads[u].file
    /\ \A file \in Files : Cardinality(MatchingDocs(file)) <= 1
=============================================================================
