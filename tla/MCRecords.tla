---- MODULE MCRecords ----
(***************************************************************************)
(* One exploration of the components that keep the records people work     *)
(* with, built like MCLifecycles: an initial choice says which component   *)
(* runs, and every property below is the property of its module.           *)
(***************************************************************************)
EXTENDS SpendingAndEdits

CONSTANTS Actors, Files, LastChunk, ActorLimit, TotalLimit, MaxUploads,
          MaxLapses   \* of DocumentUpload
CONSTANTS SourceKinds, Backends, MaxObjects, MaxClaims, MaxFaults   \* of SourceRetention
CONSTANTS Runs, Hits, ReviewPages, Imports, CandidateFiles, Home, Projects,
          MaxAttempts, MaxReviews   \* of BuyerIdentity
CONSTANTS DraftClaims, DraftJobs, MaxRevision, MaxUpheavals   \* of DraftGrounding
CONSTANTS Typists, DraftLists, MaxTexts, MaxOthers, MaxSessions, MaxTrouble   \* of DraftEditor
CONSTANTS BindingOrder, Tools, Manifests, MaxBatches, MaxTurns   \* of IdentityBinding

VARIABLE which          \* the component that is explored

----------------------------------------------------------------------------
\* Uploads, and what the theorem about stored bytes rests on.

VARIABLES uploads, documents, underway, permitted, lapses
uploadVars == <<uploads, documents, underway, permitted, lapses>>

Uploads == INSTANCE DocumentUpload

\* The records of an upload and of a document.
UploadRecord == [actor : Actors, file : Files, chunks : SUBSET Uploads!Chunks, lapsed : BOOLEAN,
                 status : {"uploading", "completed", "failed", "expired"}, document : Nat]
UploadedRecord == [file : Files, status : {"ready", "deleted"}, lapsed : BOOLEAN, slides : BOOLEAN]

\* Bytes are only kept while an upload is open, and a completed one names a
\* document of its file.
UploadHolds(u, ds) ==
    /\ u.chunks # {} => u.status = "uploading"
    /\ u.status = "completed" => u.document \in DOMAIN ds /\ ds[u.document].file = u.file

\* A file has one document that can be read, however old.
IsReadable(d) == d.status = "ready" /\ ~d.lapsed
OneReadable(ds) ==
    \A d, e \in DOMAIN ds : IsReadable(ds[d]) /\ IsReadable(ds[e]) /\ ds[d].file = ds[e].file => d = e

UploadsHold(us, ds) ==
    /\ us \in Seq(UploadRecord) /\ ds \in Seq(UploadedRecord)
    /\ \A u \in DOMAIN us : UploadHolds(us[u], ds)
    /\ OneReadable(ds)

\* A request between its two transactions is about an upload.
UploadInv ==
    /\ UploadsHold(uploads, documents)
    /\ \A r \in underway : r.upload \in DOMAIN uploads /\ (r.op = "chunk" => r.chunk \in Uploads!Chunks)

\* Documents keep their file, and none becomes readable again.
DocumentsStay(ds, es) ==
    /\ es \in Seq(UploadedRecord) /\ Len(ds) <= Len(es)
    /\ \A d \in DOMAIN ds : es[d].file = ds[d].file /\ (IsReadable(es[d]) => IsReadable(ds[d]))

LEMMA StillOneReadable ==
    ASSUME NEW ds \in Seq(UploadedRecord), NEW es, DocumentsStay(ds, es), OneReadable(ds), Len(es) = Len(ds)
    PROVE  OneReadable(es)
<1>1. DOMAIN es = DOMAIN ds
  BY DEF DocumentsStay
<1> QED BY <1>1 DEF OneReadable, DocumentsStay

LEMMA StillHolds ==
    ASSUME NEW ds \in Seq(UploadedRecord), NEW es, DocumentsStay(ds, es), NEW u, UploadHolds(u, ds)
    PROVE  UploadHolds(u, es)
<1>1. DOMAIN ds \subseteq DOMAIN es
  BY DEF DocumentsStay
<1> QED BY <1>1 DEF UploadHolds, DocumentsStay

\* One document of the file can be read at most, and it is what is matched.
LEMMA MatchesAreOne ==
    ASSUME UploadInv, NEW file
    PROVE  /\ \A d, e \in Uploads!MatchingDocs(file) : d = e
           /\ Uploads!MatchingDocs(file) # {} =>
                 Uploads!Oldest(Uploads!MatchingDocs(file)) \in Uploads!MatchingDocs(file)
           /\ \A d \in Uploads!MatchingDocs(file) : d \in DOMAIN documents /\ documents[d].file = file
                                             /\ IsReadable(documents[d]) /\ d \in Nat
<1>1. documents \in Seq(UploadedRecord) /\ OneReadable(documents)
  BY DEF UploadInv, UploadsHold
<1>2. \A d \in Uploads!MatchingDocs(file) : d \in DOMAIN documents /\ documents[d].file = file
                                     /\ IsReadable(documents[d]) /\ d \in Nat
  BY <1>1 DEF Uploads!MatchingDocs, Uploads!Readable, IsReadable
<1>3. \A d, e \in Uploads!MatchingDocs(file) : d = e
  BY <1>1, <1>2 DEF OneReadable
<1>4. ASSUME Uploads!MatchingDocs(file) # {} PROVE Uploads!Oldest(Uploads!MatchingDocs(file)) \in Uploads!MatchingDocs(file)
  <2>1. PICK d \in Uploads!MatchingDocs(file) : TRUE
    BY <1>4
  <2>2. \A e \in Uploads!MatchingDocs(file) : d <= e
    BY <1>2, <1>3, <2>1
  <2> QED BY <2>1, <2>2 DEF Uploads!Oldest
<1> QED BY <1>2, <1>3, <1>4

\* What a purge leaves.
LEMMA PurgedHolds ==
    ASSUME UploadInv
    PROVE  /\ Uploads!Purged \in Seq(UploadRecord) /\ DOMAIN Uploads!Purged = DOMAIN uploads
           /\ DocumentsStay(documents, Uploads!WithoutSlides) /\ Len(Uploads!WithoutSlides) = Len(documents)
           /\ DOMAIN Uploads!WithoutSlides = DOMAIN documents
           /\ \A d \in DOMAIN documents : IsReadable(Uploads!WithoutSlides[d]) <=> IsReadable(documents[d])
           /\ UploadsHold(Uploads!Purged, Uploads!WithoutSlides)
<1>1. uploads \in Seq(UploadRecord) /\ documents \in Seq(UploadedRecord) /\ OneReadable(documents)
      /\ \A u \in DOMAIN uploads : UploadHolds(uploads[u], documents)
  BY DEF UploadInv, UploadsHold
<1>2. \A u \in UploadRecord : LET v == [u EXCEPT !.status = "expired", !.chunks = {}] IN
         v \in UploadRecord /\ v.status = "expired" /\ v.chunks = {}
  BY DEF UploadRecord
<1>3. DOMAIN Uploads!Purged = 1..Len(uploads) /\ \A u \in 1..Len(uploads) :
         Uploads!Purged[u] \in UploadRecord /\ UploadHolds(Uploads!Purged[u], documents)
  <2>1. DOMAIN Uploads!Purged = 1..Len(uploads)
    BY <1>1 DEF Uploads!Purged
  <2>2. ASSUME NEW u \in 1..Len(uploads) PROVE Uploads!Purged[u] \in UploadRecord /\ UploadHolds(Uploads!Purged[u], documents)
    <3>1. uploads[u] \in UploadRecord /\ UploadHolds(uploads[u], documents) /\ u \in DOMAIN uploads
      BY <1>1
    <3>2. \/ Uploads!Purged[u] = uploads[u]
          \/ /\ Uploads!Purged[u].status = "expired" /\ Uploads!Purged[u].chunks = {}
             /\ Uploads!Purged[u] \in UploadRecord
      <4>1. PICK v : v = [uploads[u] EXCEPT !.status = "expired", !.chunks = {}]
        OBVIOUS
      <4>2. v \in UploadRecord /\ v.status = "expired" /\ v.chunks = {}
        BY <1>2, <3>1, <4>1
      <4>3. Uploads!Purged[u] = uploads[u] \/ Uploads!Purged[u] = v
        BY <3>1, <4>1 DEF Uploads!Purged
      <4> QED BY <4>2, <4>3
    <3> QED BY <3>1, <3>2 DEF UploadHolds
  <2> QED BY <2>1, <2>2
<1>4. Uploads!Purged \in Seq(UploadRecord) /\ DOMAIN Uploads!Purged = DOMAIN uploads
  <2>1. Uploads!Purged \in [1..Len(uploads) -> UploadRecord]
    BY <1>3 DEF Uploads!Purged
  <2> QED BY <1>1, <2>1
<1>5. \A d \in UploadedRecord : LET e == [d EXCEPT !.slides = FALSE] IN
         e \in UploadedRecord /\ e.file = d.file /\ e.status = d.status /\ e.lapsed = d.lapsed
  BY DEF UploadedRecord
<1>6. \A d \in 1..Len(documents) : /\ Uploads!WithoutSlides[d] \in UploadedRecord
                                   /\ Uploads!WithoutSlides[d].file = documents[d].file
                                   /\ IsReadable(Uploads!WithoutSlides[d]) <=> IsReadable(documents[d])
  BY <1>1, <1>5 DEF Uploads!WithoutSlides, IsReadable
<1>7. Uploads!WithoutSlides \in Seq(UploadedRecord) /\ Len(Uploads!WithoutSlides) = Len(documents)
      /\ DOMAIN Uploads!WithoutSlides = DOMAIN documents
  <2>1. Uploads!WithoutSlides \in [1..Len(documents) -> UploadedRecord]
    <3>1. DOMAIN Uploads!WithoutSlides = 1..Len(documents)
      BY <1>1 DEF Uploads!WithoutSlides
    <3> QED BY <1>6, <3>1 DEF Uploads!WithoutSlides
  <2> QED BY <1>1, <2>1
<1>8. DocumentsStay(documents, Uploads!WithoutSlides)
  BY <1>1, <1>6, <1>7 DEF DocumentsStay
<1>9. UploadsHold(Uploads!Purged, Uploads!WithoutSlides)
  BY <1>1, <1>3, <1>4, <1>7, <1>8, StillOneReadable, StillHolds DEF UploadsHold
<1> QED BY <1>1, <1>4, <1>6, <1>7, <1>8, <1>9

LEMMA UploadsRead == UploadInv /\ Uploads!ReadUploads => UploadInv'
<1> SUFFICES ASSUME UploadInv, Uploads!ReadUploads PROVE UploadInv'
  OBVIOUS
<1>1. uploads' = Uploads!Purged /\ documents' = Uploads!WithoutSlides /\ underway' = underway
  BY DEF Uploads!ReadUploads
<1>2. UploadsHold(Uploads!Purged, Uploads!WithoutSlides) /\ DOMAIN Uploads!Purged = DOMAIN uploads
  BY PurgedHolds
<1> QED BY <1>1, <1>2 DEF UploadInv

LEMMA UploadStarted ==
    ASSUME UploadInv, NEW actor \in Actors, NEW file \in Files, Uploads!StartDocumentUpload(actor, file)
    PROVE  UploadInv'
<1>1. PICK match : match = Uploads!MatchingDocs(file)
  OBVIOUS
<1>2. PICK u : u = [actor |-> actor, file |-> file, chunks |-> {}, lapsed |-> FALSE,
                    status |-> IF match = {} THEN "uploading" ELSE "completed",
                    document |-> IF match = {} THEN 0 ELSE Uploads!Oldest(match)]
  OBVIOUS
<1>3. uploads' = Append(Uploads!Purged, u) /\ documents' = Uploads!WithoutSlides /\ underway' = underway
  BY <1>1, <1>2 DEF Uploads!StartDocumentUpload
<1>4. /\ Uploads!Purged \in Seq(UploadRecord) /\ DOMAIN Uploads!Purged = DOMAIN uploads
      /\ DocumentsStay(documents, Uploads!WithoutSlides) /\ UploadsHold(Uploads!Purged, Uploads!WithoutSlides)
      /\ documents \in Seq(UploadedRecord)
  BY PurgedHolds DEF UploadInv, UploadsHold
<1>5. match # {} => /\ Uploads!Oldest(match) \in Nat /\ Uploads!Oldest(match) \in DOMAIN documents
                    /\ documents[Uploads!Oldest(match)].file = file
  BY <1>1, MatchesAreOne
<1>6. u \in UploadRecord
  BY <1>2, <1>5 DEF UploadRecord
<1>7. UploadHolds(u, documents)
  BY <1>2, <1>5 DEF UploadHolds
<1>8. UploadHolds(u, Uploads!WithoutSlides)
  BY <1>4, <1>7, StillHolds
<1>9. uploads' \in Seq(UploadRecord) /\ DOMAIN Uploads!Purged \subseteq DOMAIN uploads'
      /\ \A v \in DOMAIN uploads' : uploads'[v] = u \/ (v \in DOMAIN Uploads!Purged /\ uploads'[v] = Uploads!Purged[v])
  BY <1>3, <1>4, <1>6
<1>10. UploadsHold(uploads', Uploads!WithoutSlides)
  BY <1>4, <1>8, <1>9 DEF UploadsHold
<1> QED BY <1>3, <1>4, <1>9, <1>10 DEF UploadInv

\* An upload is replaced, or keeps its bytes.
LEMMA UploadReplaced ==
    ASSUME UploadInv, NEW u \in DOMAIN uploads, NEW v \in UploadRecord, NEW es,
           DocumentsStay(documents, es), OneReadable(es), UploadHolds(v, es),
           uploads' = [uploads EXCEPT ![u] = v], documents' = es, underway' \subseteq underway
    PROVE  UploadInv'
<1>1. uploads \in Seq(UploadRecord) /\ documents \in Seq(UploadedRecord)
      /\ \A w \in DOMAIN uploads : UploadHolds(uploads[w], documents)
  BY DEF UploadInv, UploadsHold
<1>2. uploads' \in Seq(UploadRecord) /\ DOMAIN uploads' = DOMAIN uploads
      /\ \A w \in DOMAIN uploads : uploads'[w] = IF w = u THEN v ELSE uploads[w]
  BY <1>1
<1>3. \A w \in DOMAIN uploads : UploadHolds(uploads[w], es)
  BY <1>1, StillHolds
<1>4. UploadsHold(uploads', es)
  BY <1>2, <1>3 DEF UploadsHold, DocumentsStay
<1> QED BY <1>2, <1>4 DEF UploadInv

LEMMA DocumentsAsTheyWere == UploadInv => DocumentsStay(documents, documents) /\ OneReadable(documents)
BY DEF UploadInv, UploadsHold, DocumentsStay

LEMMA RequestReceived ==
    ASSUME UploadInv, NEW u \in DOMAIN uploads,
           Uploads!TakeBody(u) \/ \E chunk \in Uploads!Chunks : Uploads!ReceiveChunk(u, chunk)
    PROVE  UploadInv'
<1>1. UNCHANGED <<uploads, documents>>
  BY DEF Uploads!TakeBody, Uploads!ReceiveChunk
<1>2. \A r \in underway' : r.upload \in DOMAIN uploads /\ (r.op = "chunk" => r.chunk \in Uploads!Chunks)
  BY DEF Uploads!TakeBody, Uploads!ReceiveChunk, UploadInv
<1> QED BY <1>1, <1>2 DEF UploadInv

LEMMA ChunkPut ==
    ASSUME UploadInv, NEW r \in underway, Uploads!PutChunk(r)
    PROVE  UploadInv'
<1>1. PICK u : u = r.upload
  OBVIOUS
<1>2. /\ u \in DOMAIN uploads /\ r.chunk \in Uploads!Chunks /\ underway' \subseteq underway
      /\ documents' = documents /\ uploads[u] \in UploadRecord /\ UploadHolds(uploads[u], documents)
  BY <1>1 DEF Uploads!PutChunk, UploadInv, UploadsHold
<1>3. CASE uploads' = uploads
  BY <1>2, <1>3 DEF UploadInv
<1>4. CASE Uploads!Accepts(u) /\ uploads' = [uploads EXCEPT ![u].chunks = @ \cup {r.chunk}]
  <2>1. PICK chunks \in SUBSET Uploads!Chunks : chunks = uploads[u].chunks \cup {r.chunk}
    BY <1>2 DEF UploadRecord
  <2>2. PICK v : v = [uploads[u] EXCEPT !.chunks = chunks]
    OBVIOUS
  <2>3. v \in UploadRecord /\ v.status = uploads[u].status /\ v.document = uploads[u].document
        /\ v.file = uploads[u].file /\ v.status = "uploading"
    BY <1>2, <1>4, <2>2 DEF UploadRecord, Uploads!Accepts, Uploads!Active
  <2>4. UploadHolds(v, documents)
    BY <2>3 DEF UploadHolds
  <2>5. uploads' = [uploads EXCEPT ![u] = v]
    BY <1>4, <2>1, <2>2
  <2> QED BY <1>2, <2>3, <2>4, <2>5, DocumentsAsTheyWere, UploadReplaced
<1> QED BY <1>1, <1>3, <1>4 DEF Uploads!PutChunk

LEMMA UploadCompleted ==
    ASSUME UploadInv, NEW r \in underway, Uploads!CompleteDocumentUpload(r)
    PROVE  UploadInv'
<1>1. PICK u : u = r.upload
  OBVIOUS
<1>2. /\ u \in DOMAIN uploads /\ underway' \subseteq underway
      /\ uploads[u] \in UploadRecord /\ uploads[u].file \in Files
      /\ documents \in Seq(UploadedRecord) /\ OneReadable(documents)
  <2>1. u \in DOMAIN uploads /\ uploads \in Seq(UploadRecord)
        /\ documents \in Seq(UploadedRecord) /\ OneReadable(documents)
    BY <1>1 DEF UploadInv, UploadsHold
  <2>2. uploads[u] \in UploadRecord
    BY <2>1
  <2>3. uploads[u].file \in Files
    BY <2>2 DEF UploadRecord
  <2>4. underway' \subseteq underway
    BY DEF Uploads!CompleteDocumentUpload
  <2> QED BY <2>1, <2>2, <2>3, <2>4
<1>3. CASE UNCHANGED <<uploads, documents>>
  BY <1>2, <1>3 DEF UploadInv
<1>4. ASSUME NEW status \in {"completed", "failed"}, NEW d \in Nat
      PROVE  LET v == [uploads[u] EXCEPT !.status = status, !.document = d, !.chunks = {}] IN
             /\ v \in UploadRecord /\ v.status = status /\ v.document = d /\ v.chunks = {}
             /\ v.file = uploads[u].file /\ Uploads!Settled(u, status, d) = [uploads EXCEPT ![u] = v]
  BY <1>2 DEF UploadRecord, Uploads!Settled
<1>5. CASE Uploads!Reject(u)
  <2>1. PICK v : v = [uploads[u] EXCEPT !.status = "failed", !.document = 0, !.chunks = {}]
    OBVIOUS
  <2>2. v \in UploadRecord /\ v.status = "failed" /\ v.chunks = {} /\ uploads' = [uploads EXCEPT ![u] = v]
    BY <1>4, <1>5, <2>1 DEF Uploads!Reject
  <2>3. UploadHolds(v, documents)
    BY <2>2 DEF UploadHolds
  <2> QED BY <1>2, <1>5, <2>2, <2>3, DocumentsAsTheyWere, UploadReplaced DEF Uploads!Reject
<1>6. CASE Uploads!Publish(u)
  <2>1. PICK match, file : match = Uploads!MatchingDocs(file) /\ file = uploads[u].file
    OBVIOUS
  <2>2. CASE match # {}
    <3>1. PICK d : d = Uploads!Oldest(match)
      OBVIOUS
    <3>2. d \in Nat /\ d \in DOMAIN documents /\ documents[d].file = file
      BY <2>1, <2>2, <3>1, MatchesAreOne
    <3>3. PICK v : v = [uploads[u] EXCEPT !.status = "completed", !.document = d, !.chunks = {}]
      OBVIOUS
    <3>4. /\ v \in UploadRecord /\ v.status = "completed" /\ v.chunks = {} /\ v.document = d
          /\ v.file = file /\ Uploads!Settled(u, "completed", d) = [uploads EXCEPT ![u] = v]
      BY <1>4, <2>1, <3>2, <3>3
    <3>5. UploadHolds(v, documents)
      BY <3>2, <3>4 DEF UploadHolds
    <3>6. documents' = documents /\ uploads' = [uploads EXCEPT ![u] = v]
      BY <1>6, <2>1, <2>2, <3>1, <3>4 DEF Uploads!Publish
    <3> QED BY <1>2, <3>4, <3>5, <3>6, DocumentsAsTheyWere, UploadReplaced
  <2>3. CASE match = {}
    <3>1. PICK e : e = Uploads!Document(file)
      OBVIOUS
    <3>2. e \in UploadedRecord /\ e.file = file /\ IsReadable(e)
      BY <1>2, <2>1, <3>1 DEF Uploads!Document, UploadedRecord, IsReadable
    <3>3. documents' = Append(documents, e) /\ uploads' = Uploads!Settled(u, "completed", Len(documents'))
      BY <1>6, <2>1, <2>3, <3>1 DEF Uploads!Publish
    <3>4. PICK n \in Nat : n = Len(documents) + 1
      BY <1>2
    <3>5. /\ documents' \in Seq(UploadedRecord) /\ Len(documents') = n /\ documents'[n] = e
          /\ DOMAIN documents' = 1..n /\ DOMAIN documents = 1..(n - 1) /\ n \in DOMAIN documents'
          /\ \A d \in DOMAIN documents : d \in DOMAIN documents' /\ documents'[d] = documents[d]
          /\ \A d \in DOMAIN documents' : d # n => d \in DOMAIN documents
      BY <1>2, <3>2, <3>3, <3>4
    <3>6. DocumentsStay(documents, documents')
      BY <1>2, <3>4, <3>5 DEF DocumentsStay
    <3>7. \A d \in DOMAIN documents : ~(IsReadable(documents[d]) /\ documents[d].file = file)
      BY <2>1, <2>3 DEF Uploads!MatchingDocs, Uploads!Readable, IsReadable
    <3>8. OneReadable(documents')
      BY <1>2, <3>2, <3>5, <3>7 DEF OneReadable
    <3>9. PICK v : v = [uploads[u] EXCEPT !.status = "completed", !.document = n, !.chunks = {}]
      OBVIOUS
    <3>10. /\ v \in UploadRecord /\ v.status = "completed" /\ v.chunks = {} /\ v.document = n
           /\ v.file = file /\ Uploads!Settled(u, "completed", n) = [uploads EXCEPT ![u] = v]
      BY <1>4, <2>1, <3>9
    <3>11. UploadHolds(v, documents')
      BY <3>2, <3>5, <3>10 DEF UploadHolds
    <3> QED BY <1>2, <3>3, <3>5, <3>6, <3>8, <3>10, <3>11, UploadReplaced
  <2> QED BY <2>2, <2>3
<1> QED BY <1>1, <1>3, <1>5, <1>6 DEF Uploads!CompleteDocumentUpload

LEMMA UploadLapsed ==
    ASSUME UploadInv, NEW u \in DOMAIN uploads, Uploads!UploadLapses(u)
    PROVE  UploadInv'
<1>1. uploads[u] \in UploadRecord /\ UploadHolds(uploads[u], documents)
  BY DEF UploadInv, UploadsHold
<1>2. PICK v : v = [uploads[u] EXCEPT !.lapsed = TRUE]
  OBVIOUS
<1>3. v \in UploadRecord /\ v.status = uploads[u].status /\ v.document = uploads[u].document
      /\ v.file = uploads[u].file /\ v.chunks = uploads[u].chunks
  BY <1>1, <1>2 DEF UploadRecord
<1>4. UploadHolds(v, documents)
  BY <1>1, <1>3 DEF UploadHolds
<1>5. uploads' = [uploads EXCEPT ![u] = v] /\ documents' = documents /\ underway' = underway
  BY <1>2 DEF Uploads!UploadLapses, Uploads!Lapse
<1> QED BY <1>3, <1>4, <1>5, DocumentsAsTheyWere, UploadReplaced

LEMMA DocumentEnded ==
    ASSUME UploadInv, NEW d \in DOMAIN documents, Uploads!DocumentLapses(d) \/ Uploads!DeleteDocument(d)
    PROVE  UploadInv'
<1>1. documents \in Seq(UploadedRecord) /\ OneReadable(documents) /\ documents[d] \in UploadedRecord
      /\ uploads \in Seq(UploadRecord) /\ \A u \in DOMAIN uploads : UploadHolds(uploads[u], documents)
  BY DEF UploadInv, UploadsHold
<1>2. PICK e, f : /\ e = [documents[d] EXCEPT !.lapsed = TRUE]
                  /\ f = [documents[d] EXCEPT !.status = "deleted", !.slides = FALSE]
  OBVIOUS
<1>3. /\ e \in UploadedRecord /\ e.file = documents[d].file /\ ~IsReadable(e)
      /\ f \in UploadedRecord /\ f.file = documents[d].file /\ ~IsReadable(f)
  BY <1>1, <1>2 DEF UploadedRecord, IsReadable
<1>4. documents' = [documents EXCEPT ![d] = e] \/ documents' = [documents EXCEPT ![d] = f]
  BY <1>1, <1>2 DEF Uploads!DocumentLapses, Uploads!DeleteDocument
<1>5. /\ documents' \in Seq(UploadedRecord) /\ Len(documents') = Len(documents)
      /\ \A c \in DOMAIN documents : documents'[c] \in {documents[c], e, f} /\ (documents'[c] # documents[c] => c = d)
  <2>1. CASE documents' = [documents EXCEPT ![d] = e]
    BY <1>1, <1>3, <2>1
  <2>2. CASE documents' = [documents EXCEPT ![d] = f]
    BY <1>1, <1>3, <2>2
  <2> QED BY <1>4, <2>1, <2>2
<1>6. DocumentsStay(documents, documents')
  BY <1>1, <1>3, <1>5 DEF DocumentsStay
<1>7. uploads' = uploads /\ underway' = underway
  BY DEF Uploads!DocumentLapses, Uploads!DeleteDocument, Uploads!Lapse
<1>8. UploadsHold(uploads, documents')
  BY <1>1, <1>5, <1>6, StillOneReadable, StillHolds DEF UploadsHold
<1> QED BY <1>7, <1>8 DEF UploadInv

LEMMA UploadStart == Uploads!UploadInit => UploadInv
<1> SUFFICES ASSUME Uploads!UploadInit PROVE UploadInv
  OBVIOUS
<1>1. uploads \in Seq(UploadRecord) /\ documents \in Seq(UploadedRecord)
      /\ DOMAIN uploads = {} /\ DOMAIN documents = {}
  BY DEF Uploads!UploadInit
<1> QED BY <1>1 DEF Uploads!UploadInit, UploadInv, UploadsHold, OneReadable

LEMMA UploadStep == UploadInv /\ [Uploads!UploadNext]_uploadVars => UploadInv'
<1> SUFFICES ASSUME UploadInv, [Uploads!UploadNext]_uploadVars PROVE UploadInv'
  OBVIOUS
<1>1. CASE Uploads!ReadUploads
  BY <1>1, UploadsRead
<1>2. ASSUME NEW actor \in Actors, NEW file \in Files, Uploads!StartDocumentUpload(actor, file) PROVE UploadInv'
  BY <1>2, UploadStarted
<1>3. ASSUME NEW u \in DOMAIN uploads, NEW chunk \in Uploads!Chunks, Uploads!ReceiveChunk(u, chunk) PROVE UploadInv'
  BY <1>3, RequestReceived
<1>4. ASSUME NEW u \in DOMAIN uploads, Uploads!TakeBody(u) \/ Uploads!UploadLapses(u) PROVE UploadInv'
  BY <1>4, RequestReceived, UploadLapsed
<1>5. ASSUME NEW r \in underway, Uploads!PutChunk(r) \/ Uploads!CompleteDocumentUpload(r) PROVE UploadInv'
  BY <1>5, ChunkPut, UploadCompleted
<1>6. ASSUME NEW d \in DOMAIN documents, Uploads!DocumentLapses(d) \/ Uploads!DeleteDocument(d) PROVE UploadInv'
  BY <1>6, DocumentEnded
<1>7. ASSUME NEW actor \in Actors, Uploads!ChangeRole(actor) PROVE UploadInv'
  BY <1>7 DEF Uploads!ChangeRole, Uploads!Lapse, UploadInv
<1>8. CASE UNCHANGED uploadVars
  BY <1>8 DEF uploadVars, UploadInv
<1> QED BY <1>1, <1>2, <1>3, <1>4, <1>5, <1>6, <1>7, <1>8 DEF Uploads!UploadNext

\* The cardinality of DocumentUpload is the one of the theorems on finite sets.
LEMMA UploadCardinality == \A S : Uploads!Cardinality(S) = Cardinality(S)
BY DEF Uploads!Cardinality, Cardinality

\* What is one is counted as one.
LEMMA UploadIsTrue == UploadInv => Uploads!BytesKeptOnce
<1> SUFFICES ASSUME UploadInv PROVE Uploads!BytesKeptOnce
  OBVIOUS
<1>1. \A u \in DOMAIN uploads :
          /\ uploads[u].chunks # {} => uploads[u].status = "uploading"
          /\ uploads[u].status = "completed" => documents[uploads[u].document].file = uploads[u].file
  BY DEF UploadInv, UploadsHold, UploadHolds
<1>2. ASSUME NEW file \in Files PROVE Cardinality(Uploads!MatchingDocs(file)) <= 1
  <2>1. \A d, e \in Uploads!MatchingDocs(file) : d = e
    BY MatchesAreOne
  <2>2. CASE Uploads!MatchingDocs(file) = {}
    BY <2>2, FS_EmptySet
  <2>3. CASE Uploads!MatchingDocs(file) # {}
    <3>1. PICK d : Uploads!MatchingDocs(file) = {d}
      BY <2>1, <2>3
    <3>2. Cardinality({d}) = 1
      BY FS_Singleton
    <3> QED BY <3>1, <3>2
  <2> QED BY <2>2, <2>3
<1> QED BY <1>1, <1>2, UploadCardinality DEF Uploads!BytesKeptOnce

----------------------------------------------------------------------------
\* The object store, and what the theorem about stored bytes rests on.

VARIABLES backend, stored, document, source, outbox, calls, due, puts, broken,
          trouble
retentionVars == <<backend, stored, document, source, outbox, calls, due,
    puts, broken, trouble>>

Objects == INSTANCE SourceRetention WITH
    Kinds <- SourceKinds

\* The records of the two rows, of an outbox row and of a call.
DocumentRecord == [status : {"none", "quarantined", "queued", "ready", "failed", "deleted"}, key : Nat]
SourceRecord == [state : {"none", "live", "tombstone"}, key : Nat]
EventRecord == [state : {"none", "ready", "dispatched", "done"}, generation : Nat]
CallRecord == [type : Objects!EventTypes \cup {"upload"}, at : {"commit", "store", "finalize", "cleanup"},
               generation : Nat, key : Nat, own : Nat]

\* Nothing is known of an object that was not put yet.
PutsHold ==
    /\ puts \in Nat /\ stored \subseteq 1..puts
    /\ document.key <= puts /\ source.key <= puts
    /\ \A c \in calls : c.key <= puts /\ c.own <= puts

\* Which of a document's rows may have a key: a source is the document's own
\* object, and what is still to be fetched has none.
RowsHold ==
    /\ document \in DocumentRecord /\ source \in SourceRecord
    /\ source.key # Objects!None => source.key = document.key
    /\ document.status \in {"none", "queued"} =>
          /\ document.key = Objects!None /\ source = Objects!NoSource
          /\ outbox["source.delete"].state = "none"
    /\ document.status \in {"quarantined", "ready"} /\ ~due => document.key \in stored
    /\ source.state = "tombstone" => due

\* A document's deletion is asked for when it is deleted, and a deletion that is
\* closed left no key.
EventsHold ==
    /\ outbox \in [Objects!EventTypes -> EventRecord]
    /\ outbox["offer.delete"].state # "none" => document.status = "deleted"
    /\ outbox["offer.delete"].state = "done" => document.key = Objects!None
    /\ outbox["source.delete"].state = "done" => source.key = Objects!None

\* An object that a call put is its own: no row, no other call and no deletion
\* names it; and a deletion removes what its row names.
CallHolds(c) ==
    /\ c.own # Objects!None =>
          /\ c.own \notin {document.key, source.key}
          /\ ~due => c.own \in stored
          /\ \A d \in calls : c.own # d.key /\ (d.own = c.own => d = c)
    /\ c.own # Objects!None => c.type \in {"upload", "offer.fetch"} /\ c.at # "store"
    /\ c.type = "upload" => c.own # Objects!None /\ c.at \in {"commit", "cleanup"}
    /\ c.type = "offer.delete" => document.status = "deleted" /\ document.key \in {Objects!None, c.key}
    /\ c.type = "source.delete" => due
    /\ c.type \in {"offer.delete", "source.delete"} /\ c.at = "finalize" => c.key \notin stored \/ c.key = Objects!None

Owned(o) ==
    \/ o \in {document.key, source.key} \cup broken
    \/ \E c \in calls : c.own = o

RetentionInv ==
    /\ PutsHold /\ RowsHold /\ EventsHold
    /\ calls \subseteq CallRecord /\ \A c \in calls : CallHolds(c)
    /\ \A o \in stored : Owned(o)

\* The call goes on to its next step, and only its place changes.
Gone(c, at) == [c EXCEPT !.at = at]
LEMMA CallGoes ==
    \A c \in CallRecord, at \in {"store", "finalize", "cleanup"} :
       /\ Gone(c, at) \in CallRecord /\ Gone(c, at).at = at /\ Gone(c, at).type = c.type
       /\ Gone(c, at).generation = c.generation /\ Gone(c, at).key = c.key /\ Gone(c, at).own = c.own
BY DEF CallRecord, Gone

LEMMA CallIsTyped ==
    ASSUME RetentionInv, NEW c \in calls
    PROVE  /\ c \in CallRecord /\ CallHolds(c) /\ c.key \in Nat /\ c.own \in Nat
           /\ c.key <= puts /\ c.own <= puts
BY DEF RetentionInv, CallRecord, PutsHold

LEMMA NumbersGrow ==
    ASSUME NEW n \in Nat, NEW S, S \subseteq 1..n
    PROVE  S \cup {n + 1} \subseteq 1..(n + 1)
<1>1. 1..n \subseteq 1..(n + 1) /\ n + 1 \in 1..(n + 1)
  OBVIOUS
<1> QED BY <1>1

LEMMA StoredIsOwned ==
    ASSUME RetentionInv, NEW o \in stored
    PROVE  Owned(o) /\ o # Objects!None
<1>1. o \in 1..puts /\ puts \in Nat
  BY DEF RetentionInv, PutsHold
<1>2. o # Objects!None
  BY <1>1 DEF Objects!None
<1>3. Owned(o)
  BY DEF RetentionInv
<1> QED BY <1>2, <1>3

\* Requests that put an object.
LEMMA UploadPut == RetentionInv /\ Objects!PutUpload => RetentionInv'
<1> SUFFICES ASSUME RetentionInv, Objects!PutUpload PROVE RetentionInv'
  OBVIOUS
<1>1. PICK d : d = Objects!Call("upload", "commit", 0, Objects!None, puts + 1)
  OBVIOUS
<1>2. /\ d.type = "upload" /\ d.at = "commit" /\ d.key = Objects!None /\ d.own = puts + 1 /\ d.generation = 0
      /\ puts \in Nat
  BY <1>1 DEF Objects!Call, RetentionInv, PutsHold
<1>3. d \in CallRecord
  BY <1>1, <1>2 DEF Objects!Call, CallRecord, Objects!None
<1>4. /\ puts' = puts + 1 /\ stored' = stored \cup {puts + 1} /\ calls' = calls \cup {d}
      /\ UNCHANGED <<document, source, outbox, due, broken>>
  BY <1>1 DEF Objects!PutUpload
<1>5. PutsHold'
  <2>1. stored' \subseteq 1..(puts + 1)
    <3>1. stored \subseteq 1..puts
      BY DEF RetentionInv, PutsHold
    <3> QED BY <1>2, <1>4, <3>1, NumbersGrow
  <2>2. \A c \in calls : c.key \in Nat /\ c.own \in Nat /\ c.key <= puts /\ c.own <= puts
    BY CallIsTyped
  <2>3. document.key \in Nat /\ source.key \in Nat /\ document.key <= puts /\ source.key <= puts
    BY DEF RetentionInv, PutsHold, RowsHold, DocumentRecord, SourceRecord
  <2> QED BY <1>2, <1>4, <2>1, <2>2, <2>3 DEF PutsHold, Objects!None
<1>6. RowsHold' /\ EventsHold'
  BY <1>4 DEF RetentionInv, RowsHold, EventsHold
<1>7. calls' \subseteq CallRecord
  BY <1>3, <1>4 DEF RetentionInv
<1>8. \A c \in calls : c.own # puts + 1 /\ c.key # puts + 1
  BY <1>2, CallIsTyped
<1>9. CallHolds(d)'
  <2>1. document.key # puts + 1 /\ source.key # puts + 1
    BY <1>2 DEF RetentionInv, PutsHold, RowsHold, DocumentRecord, SourceRecord
  <2> QED BY <1>2, <1>4, <1>8, <2>1 DEF CallHolds, Objects!None
<1>10. ASSUME NEW c \in calls PROVE CallHolds(c)'
  <2>1. CallHolds(c) /\ c.own # puts + 1 /\ c.key # puts + 1
    BY <1>8, CallIsTyped
  <2> QED BY <1>2, <1>4, <2>1 DEF CallHolds, Objects!None
<1>11. \A o \in stored' : Owned(o)'
  BY <1>2, <1>4 DEF RetentionInv, Owned
<1> QED BY <1>4, <1>5, <1>6, <1>7, <1>9, <1>10, <1>11 DEF RetentionInv

LEMMA InlineUploaded ==
    ASSUME RetentionInv, NEW status \in {"ready", "failed"}, Objects!UploadInline(status)
    PROVE  RetentionInv'
<1>1. /\ puts \in Nat /\ document = Objects!NoRow /\ source = Objects!NoSource
      /\ outbox["offer.delete"].state = "none" /\ outbox["source.delete"].state = "none"
  BY DEF Objects!UploadInline, RetentionInv, PutsHold, RowsHold, EventsHold, Objects!NoRow
<1>2. /\ puts' = puts + 1 /\ stored' = stored \cup {puts + 1} /\ calls' = calls
      /\ document' = [status |-> status, key |-> puts + 1]
      /\ outbox' = Objects!Done("offer.parse") /\ UNCHANGED <<source, due, broken>>
  BY DEF Objects!UploadInline
<1>3. document' \in DocumentRecord /\ document'.status = status /\ document'.key = puts + 1
  BY <1>1, <1>2 DEF DocumentRecord
<1>4. \A c \in calls : /\ c.own \in Nat /\ c.own <= puts /\ c.own # puts + 1 /\ c.key # puts + 1
                       /\ c.key \in Nat /\ c.key <= puts
  BY <1>1, CallIsTyped
<1>5. PutsHold'
  <2>1. stored' \subseteq 1..(puts + 1)
    <3>1. stored \subseteq 1..puts
      BY DEF RetentionInv, PutsHold
    <3> QED BY <1>1, <1>2, <3>1, NumbersGrow
  <2> QED BY <1>1, <1>2, <1>3, <1>4, <2>1 DEF PutsHold, Objects!NoSource, Objects!None
<1>6. /\ outbox' \in [Objects!EventTypes -> EventRecord]
      /\ outbox'["offer.delete"] = outbox["offer.delete"] /\ outbox'["source.delete"] = outbox["source.delete"]
  <2>1. outbox \in [Objects!EventTypes -> EventRecord]
    BY DEF RetentionInv, EventsHold
  <2>2. [outbox["offer.parse"] EXCEPT !.state = "done"] \in EventRecord
    BY <2>1 DEF EventRecord, Objects!EventTypes
  <2> QED BY <1>2, <2>1, <2>2 DEF Objects!Done, Objects!EventTypes
<1>7. RowsHold'
  BY <1>1, <1>2, <1>3, <1>6 DEF RetentionInv, RowsHold, Objects!NoSource, Objects!None
<1>8. EventsHold'
  BY <1>1, <1>6 DEF EventsHold
<1>9. ASSUME NEW c \in calls PROVE CallHolds(c)'
  <2>1. CallHolds(c) /\ c.own # puts + 1 /\ c.key # puts + 1
    BY <1>4, CallIsTyped
  <2>2. document.key = Objects!None /\ document.status = "none"
    BY <1>1 DEF Objects!NoRow
  <2> QED BY <1>2, <1>3, <2>1, <2>2 DEF CallHolds, Objects!None
<1>10. \A o \in stored' : Owned(o)'
  <2>1. \A o \in stored : Owned(o) /\ o # Objects!None
    BY StoredIsOwned
  <2> QED BY <1>1, <1>2, <1>3, <2>1 DEF Owned, Objects!NoRow, Objects!NoSource
<1> QED BY <1>2, <1>5, <1>7, <1>8, <1>9, <1>10 DEF RetentionInv

\* A call goes on with the object it may have put, and nothing else changes.
LEMMA CallKept ==
    ASSUME RetentionInv, NEW c \in calls, NEW at \in {"finalize", "cleanup"},
           c.type = "upload" => at = "cleanup",
           c.type \in {"offer.delete", "source.delete"} => c.key \notin stored \/ c.key = Objects!None,
           calls' = (calls \ {c}) \cup {Gone(c, at)},
           UNCHANGED <<stored, document, source, outbox, due, puts, broken>>
    PROVE  RetentionInv'
<1>1. PICK d : d = Gone(c, at)
  OBVIOUS
<1>2. c \in CallRecord /\ CallHolds(c)
  BY CallIsTyped
<1>3. d \in CallRecord /\ d.at = at /\ d.type = c.type /\ d.key = c.key /\ d.own = c.own
  BY <1>1, <1>2, CallGoes
<1>4. calls' = (calls \ {c}) \cup {d}
  BY <1>1
<1>5. PutsHold' /\ RowsHold' /\ EventsHold'
  BY <1>3, <1>4 DEF RetentionInv, PutsHold, RowsHold, EventsHold
<1>6. CallHolds(d)'
  BY <1>2, <1>3, <1>4 DEF CallHolds
<1>7. ASSUME NEW e \in calls \ {c} PROVE CallHolds(e)'
  <2>1. CallHolds(e)
    BY CallIsTyped
  <2> QED BY <1>3, <1>4, <2>1 DEF CallHolds
<1>8. \A o \in stored' : Owned(o)'
  BY <1>3, <1>4 DEF RetentionInv, Owned
<1> QED BY <1>3, <1>4, <1>5, <1>6, <1>7, <1>8 DEF RetentionInv

\* Rows change by a request.
LEMMA UploadCommitted ==
    ASSUME RetentionInv, NEW c \in calls, Objects!CommitUpload(c)
    PROVE  RetentionInv'
<1>1. /\ c \in CallRecord /\ CallHolds(c) /\ c.type = "upload" /\ c.own # Objects!None /\ c.own \in Nat
      /\ c.own <= puts /\ (~due => c.own \in stored)
  BY CallIsTyped DEF Objects!CommitUpload, CallHolds
<1>2. CASE /\ document = Objects!NoRow /\ document' = [status |-> "quarantined", key |-> c.own]
           /\ outbox' = [outbox EXCEPT !["offer.parse"] = Objects!Ready] /\ calls' = calls \ {c}
  <2>1. UNCHANGED <<stored, source, due, puts, broken>> /\ source = Objects!NoSource
    BY <1>2 DEF Objects!CommitUpload, RetentionInv, RowsHold, Objects!NoRow
  <2>2. document' \in DocumentRecord /\ document'.status = "quarantined" /\ document'.key = c.own
    BY <1>1, <1>2 DEF DocumentRecord
  <2>3. /\ outbox' \in [Objects!EventTypes -> EventRecord]
        /\ outbox'["offer.delete"] = outbox["offer.delete"] /\ outbox'["source.delete"] = outbox["source.delete"]
    BY <1>2 DEF RetentionInv, EventsHold, EventRecord, Objects!EventTypes, Objects!Ready
  <2>4. /\ outbox["offer.delete"].state = "none" /\ outbox["source.delete"].state = "none"
        /\ document.key = Objects!None /\ document.status = "none"
    BY <1>2 DEF RetentionInv, RowsHold, EventsHold, Objects!NoRow
  <2>5. PutsHold'
    BY <1>1, <1>2, <2>1, <2>2 DEF RetentionInv, PutsHold
  <2>6. RowsHold'
    <3>1. source \in SourceRecord /\ source.key = Objects!None /\ source.state = "none"
      BY <2>1 DEF RetentionInv, RowsHold, Objects!NoSource
    <3>2. ~due' => document'.key \in stored'
      BY <1>1, <2>1, <2>2
    <3> QED BY <2>1, <2>2, <3>1, <3>2 DEF RowsHold
  <2>7. EventsHold'
    BY <2>3, <2>4 DEF EventsHold
  <2>8. ASSUME NEW d \in calls \ {c} PROVE CallHolds(d)'
    <3>1. CallHolds(d) /\ d.own # c.own /\ d.type # "offer.delete"
      BY <1>1, <2>4, CallIsTyped DEF CallHolds
    <3> QED BY <1>1, <1>2, <2>1, <2>2, <3>1 DEF CallHolds
  <2>9. \A o \in stored' : Owned(o)'
    <3> SUFFICES ASSUME NEW o \in stored PROVE Owned(o)'
      BY <2>1
    <3>1. Owned(o) /\ o # Objects!None
      BY StoredIsOwned
    <3> QED BY <1>2, <2>1, <2>2, <2>4, <3>1 DEF Owned, Objects!NoSource
  <2> QED BY <1>2, <2>5, <2>6, <2>7, <2>8, <2>9 DEF RetentionInv
<1>3. CASE /\ UNCHANGED <<document, outbox>>
           /\ calls' = (calls \ {c}) \cup {[c EXCEPT !.at = "cleanup"]}
  BY <1>1, <1>3, CallKept DEF Objects!CommitUpload, Gone
<1> QED BY <1>2, <1>3 DEF Objects!CommitUpload

LEMMA UrlIngested == RetentionInv /\ Objects!IngestUrl => RetentionInv'
<1> SUFFICES ASSUME RetentionInv, Objects!IngestUrl PROVE RetentionInv'
  OBVIOUS
<1>1. /\ document = Objects!NoRow /\ document' = [status |-> "queued", key |-> Objects!None]
      /\ outbox' = [outbox EXCEPT !["offer.fetch"] = Objects!Ready]
      /\ UNCHANGED <<stored, source, calls, due, puts, broken>>
  BY DEF Objects!IngestUrl
<1>2. /\ document' \in DocumentRecord /\ document'.status = "queued" /\ document'.key = Objects!None
      /\ document.key = Objects!None /\ document.status = "none"
  BY <1>1 DEF DocumentRecord, Objects!NoRow, Objects!None
<1>3. /\ outbox' \in [Objects!EventTypes -> EventRecord]
      /\ outbox'["offer.delete"] = outbox["offer.delete"] /\ outbox'["source.delete"] = outbox["source.delete"]
  BY <1>1 DEF RetentionInv, EventsHold, EventRecord, Objects!EventTypes, Objects!Ready
<1>4. PutsHold' /\ RowsHold' /\ EventsHold'
  BY <1>1, <1>2, <1>3 DEF RetentionInv, PutsHold, RowsHold, EventsHold, Objects!NoSource
<1>5. \A c \in calls' : CallHolds(c)'
  BY <1>1, <1>2 DEF RetentionInv, CallHolds
<1>6. \A o \in stored' : Owned(o)'
  BY <1>1, <1>2 DEF RetentionInv, Owned
<1> QED BY <1>1, <1>4, <1>5, <1>6 DEF RetentionInv

LEMMA DocumentDeleted == RetentionInv /\ Objects!DeleteDocument => RetentionInv'
<1> SUFFICES ASSUME RetentionInv, Objects!DeleteDocument PROVE RetentionInv'
  OBVIOUS
<1>1. /\ document.status \notin {"none", "deleted"} /\ UNCHANGED <<calls, due, puts, broken>>
      /\ document \in DocumentRecord /\ source \in SourceRecord /\ outbox["offer.delete"].state = "none"
      /\ outbox \in [Objects!EventTypes -> EventRecord]
  BY DEF Objects!DeleteDocument, RetentionInv, RowsHold, EventsHold, EventRecord
<1>2. \A c \in calls : CallHolds(c) /\ c.type # "offer.delete"
  BY <1>1, CallIsTyped DEF CallHolds
\* The object goes with the row.
<1>3. ASSUME document.key # Objects!None, stored' = stored \ {document.key},
             document' = [status |-> "deleted", key |-> Objects!None],
             source' = [source EXCEPT !.key = Objects!None], outbox' = Objects!Done("offer.delete")
      PROVE  RetentionInv'
  <2>1. /\ document' \in DocumentRecord /\ document'.status = "deleted" /\ document'.key = Objects!None
        /\ source' \in SourceRecord /\ source'.key = Objects!None /\ source'.state = source.state
    BY <1>1, <1>3 DEF DocumentRecord, SourceRecord, Objects!None
  <2>2. /\ outbox' \in [Objects!EventTypes -> EventRecord] /\ outbox'["source.delete"] = outbox["source.delete"]
        /\ outbox'["offer.delete"].state = "done"
    BY <1>1, <1>3 DEF Objects!Done, EventRecord, Objects!EventTypes
  <2>3. PutsHold'
    BY <1>1, <1>3, <2>1 DEF RetentionInv, PutsHold, Objects!None
  <2>4. RowsHold' /\ EventsHold'
    BY <1>1, <2>1, <2>2 DEF RetentionInv, RowsHold, EventsHold
  <2>5. \A c \in calls : CallHolds(c)'
    BY <1>1, <1>2, <1>3, <2>1 DEF CallHolds
  <2>6. \A o \in stored' : Owned(o)'
    <3> SUFFICES ASSUME NEW o \in stored, o # document.key PROVE Owned(o)'
      BY <1>3
    <3>1. Owned(o) /\ o # Objects!None
      BY StoredIsOwned
    <3>2. source.key = Objects!None \/ source.key = document.key
      BY DEF RetentionInv, RowsHold
    <3> QED BY <1>1, <3>1, <3>2 DEF Owned
  <2> QED BY <1>1, <2>3, <2>4, <2>5, <2>6 DEF RetentionInv
\* The object is left to the intent.
<1>4. ASSUME document' = [document EXCEPT !.status = "deleted"],
             outbox' = [outbox EXCEPT !["offer.delete"] = Objects!Ready], UNCHANGED <<stored, source>>
      PROVE  RetentionInv'
  <2>1. document' \in DocumentRecord /\ document'.status = "deleted" /\ document'.key = document.key
    BY <1>1, <1>4 DEF DocumentRecord
  <2>2. /\ outbox' \in [Objects!EventTypes -> EventRecord] /\ outbox'["source.delete"] = outbox["source.delete"]
        /\ outbox'["offer.delete"].state = "ready"
    BY <1>1, <1>4 DEF Objects!Ready, EventRecord, Objects!EventTypes
  <2>3. PutsHold' /\ RowsHold' /\ EventsHold'
    BY <1>1, <1>4, <2>1, <2>2 DEF RetentionInv, PutsHold, RowsHold, EventsHold
  <2>4. \A c \in calls : CallHolds(c)'
    BY <1>1, <1>2, <1>4, <2>1 DEF CallHolds
  <2>5. \A o \in stored' : Owned(o)'
    BY <1>1, <1>4, <2>1 DEF RetentionInv, Owned
  <2> QED BY <1>1, <2>3, <2>4, <2>5 DEF RetentionInv
<1> QED BY <1>3, <1>4 DEF Objects!DeleteDocument

\* Workers.
LEMMA EventClaimed ==
    ASSUME RetentionInv, NEW type \in Objects!EventTypes, Objects!Claim(type)
    PROVE  RetentionInv'
<1>1. outbox \in [Objects!EventTypes -> EventRecord] /\ outbox[type].generation \in Nat
      /\ outbox[type].state \in {"ready", "dispatched"}
  BY DEF RetentionInv, EventsHold, EventRecord, Objects!Claim
<1>2. UNCHANGED <<stored, document, source, calls, due, puts, broken>>
  BY DEF Objects!Claim
<1>3. PICK e : e = [state |-> "dispatched", generation |-> outbox[type].generation + 1]
  OBVIOUS
<1>4. e \in EventRecord /\ e.state = "dispatched" /\ outbox' = [outbox EXCEPT ![type] = e]
  BY <1>1, <1>3 DEF EventRecord, Objects!Claim
<1>5. /\ outbox' \in [Objects!EventTypes -> EventRecord]
      /\ \A t \in Objects!EventTypes : outbox'[t] = IF t = type THEN e ELSE outbox[t]
  BY <1>1, <1>4
<1>6. "offer.delete" \in Objects!EventTypes /\ "source.delete" \in Objects!EventTypes
  BY DEF Objects!EventTypes
<1>7. PutsHold'
  BY <1>2 DEF RetentionInv, PutsHold
<1>8. RowsHold' /\ EventsHold'
  BY <1>1, <1>2, <1>4, <1>5, <1>6 DEF RetentionInv, RowsHold, EventsHold
<1>9. (\A c \in calls : CallHolds(c))' /\ (\A o \in stored : Owned(o))'
  BY <1>2 DEF RetentionInv, CallHolds, Owned
<1> QED BY <1>2, <1>7, <1>8, <1>9 DEF RetentionInv

LEMMA WorkPrepared ==
    ASSUME RetentionInv, NEW type \in Objects!EventTypes, Objects!Prepare(type)
    PROVE  RetentionInv'
<1>1. UNCHANGED <<stored, document, source, outbox, due, puts, broken>>
  BY DEF Objects!Prepare
<1>2. PICK key : key = IF type = "source.delete" THEN source.key ELSE document.key
  OBVIOUS
<1>3. PICK d : d = Objects!Call(type, "store", outbox[type].generation, key, Objects!None)
  OBVIOUS
<1>4. /\ d.type = type /\ d.at = "store" /\ d.key = key /\ d.own = Objects!None
      /\ calls' = calls \cup {d}
  BY <1>2, <1>3 DEF Objects!Call, Objects!Prepare
<1>5. key \in Nat /\ key <= puts /\ key \in {document.key, source.key} /\ puts \in Nat
  BY <1>2 DEF RetentionInv, RowsHold, PutsHold, DocumentRecord, SourceRecord
<1>6. d \in CallRecord
  <2>1. outbox[type].generation \in Nat
    BY DEF RetentionInv, EventsHold, EventRecord
  <2> QED BY <1>3, <1>5, <2>1 DEF Objects!Call, CallRecord, Objects!None
<1>7. PutsHold' /\ RowsHold' /\ EventsHold'
  BY <1>1, <1>4, <1>5 DEF RetentionInv, PutsHold, RowsHold, EventsHold, Objects!None
<1>8. CallHolds(d)'
  <2>1. type = "offer.delete" => document.status = "deleted" /\ key = document.key
    BY <1>2 DEF Objects!Prepare, RetentionInv, EventsHold
  <2>2. type = "source.delete" => due
    BY DEF Objects!Prepare, Objects!Prepares, RetentionInv, RowsHold
  <2>3. type # "upload"
    BY DEF Objects!EventTypes
  <2> QED BY <1>1, <1>4, <2>1, <2>2, <2>3 DEF CallHolds
<1>9. ASSUME NEW c \in calls PROVE CallHolds(c)'
  <2>1. CallHolds(c)
    BY CallIsTyped
  <2>2. c.own # Objects!None => c.own # key
    BY <1>5, <2>1 DEF CallHolds
  <2> QED BY <1>1, <1>4, <2>1, <2>2 DEF CallHolds
<1>10. \A o \in stored' : Owned(o)'
  BY <1>1, <1>4 DEF RetentionInv, Owned
<1> QED BY <1>1, <1>4, <1>6, <1>7, <1>8, <1>9, <1>10 DEF RetentionInv

\* A call ends without an object of its own.
LEMMA CallEnded ==
    ASSUME RetentionInv, NEW c \in calls, c.own = Objects!None, calls' = calls \ {c},
           UNCHANGED <<stored, document, source, outbox, due, puts, broken>>
    PROVE  RetentionInv'
<1>1. PutsHold' /\ RowsHold' /\ EventsHold'
  BY DEF RetentionInv, PutsHold, RowsHold, EventsHold
<1>2. \A d \in calls' : CallHolds(d)'
  BY DEF RetentionInv, CallHolds
<1>3. ASSUME NEW o \in stored' PROVE Owned(o)'
  <2>1. Owned(o) /\ o # Objects!None
    BY <1>3, StoredIsOwned
  <2> QED BY <2>1 DEF Owned
<1> QED BY <1>1, <1>2, <1>3 DEF RetentionInv

\* The store deletes what the call names.
LEMMA ObjectRemoved ==
    ASSUME RetentionInv, NEW c \in calls, c.at = "store", Objects!Deletes(c), stored' = stored \ {c.key},
           Objects!Goes(c, "finalize"), UNCHANGED <<document, source, outbox, due, puts, broken>>
    PROVE  RetentionInv'
<1>1. PICK d : d = Gone(c, "finalize")
  OBVIOUS
<1>2. c \in CallRecord /\ CallHolds(c) /\ c.type \in {"offer.delete", "source.delete"} /\ c.own = Objects!None
  BY CallIsTyped DEF Objects!Deletes, CallHolds
<1>3. d \in CallRecord /\ d.at = "finalize" /\ d.type = c.type /\ d.key = c.key /\ d.own = Objects!None
  BY <1>1, <1>2, CallGoes
<1>4. calls' = (calls \ {c}) \cup {d}
  BY <1>1 DEF Objects!Goes, Gone
<1>5. document.status = "deleted" \/ due
  BY <1>2 DEF CallHolds
<1>6. PutsHold' /\ RowsHold' /\ EventsHold'
  <2>1. PutsHold'
    BY <1>2, <1>3, <1>4 DEF RetentionInv, PutsHold
  <2>2. ~(document.status \in {"quarantined", "ready"} /\ ~due)
    BY <1>5
  <2>3. RowsHold'
    BY <2>2 DEF RetentionInv, RowsHold
  <2>4. EventsHold'
    BY DEF RetentionInv, EventsHold
  <2> QED BY <2>1, <2>3, <2>4
<1>7. CallHolds(d)'
  BY <1>2, <1>3, <1>4 DEF CallHolds
<1>8. ASSUME NEW e \in calls \ {c} PROVE CallHolds(e)'
  <2>1. CallHolds(e)
    BY CallIsTyped
  <2>2. e.own # Objects!None => e.own # c.key
    BY <2>1 DEF CallHolds
  <2> QED BY <1>3, <1>4, <2>1, <2>2 DEF CallHolds
<1>9. ASSUME NEW o \in stored' PROVE Owned(o)'
  <2>1. Owned(o) /\ o # Objects!None
    BY <1>9, StoredIsOwned
  <2> QED BY <1>2, <1>4, <2>1 DEF Owned
<1> QED BY <1>3, <1>4, <1>6, <1>7, <1>8, <1>9 DEF RetentionInv

\* The store keeps what the call fetched.
LEMMA ObjectFetched ==
    ASSUME RetentionInv, NEW c \in calls, c.at = "store", c.type = "offer.fetch",
           puts' = puts + 1, stored' = stored \cup {puts + 1},
           calls' = (calls \ {c}) \cup {[c EXCEPT !.at = "finalize", !.own = puts + 1]},
           UNCHANGED <<document, source, outbox, due, broken>>
    PROVE  RetentionInv'
<1>1. PICK d : d = [c EXCEPT !.at = "finalize", !.own = puts + 1]
  OBVIOUS
<1>2. c \in CallRecord /\ CallHolds(c) /\ c.own = Objects!None /\ puts \in Nat /\ c.key \in Nat /\ c.key <= puts
  BY CallIsTyped DEF CallHolds, RetentionInv, PutsHold
<1>3. d \in CallRecord /\ d.at = "finalize" /\ d.type = "offer.fetch" /\ d.key = c.key /\ d.own = puts + 1
  <2>1. PICK n \in Nat : n = puts + 1
    BY <1>2
  <2>2. d = [c EXCEPT !.at = "finalize", !.own = n]
    BY <1>1, <2>1
  <2>3. d \in CallRecord /\ d.at = "finalize" /\ d.type = c.type /\ d.key = c.key /\ d.own = n
    BY <1>2, <2>2 DEF CallRecord
  <2> QED BY <2>1, <2>3
<1>4. calls' = (calls \ {c}) \cup {d}
  BY <1>1
<1>5. \A e \in calls : e.own \in Nat /\ e.own <= puts /\ e.own # puts + 1
                       /\ e.key \in Nat /\ e.key <= puts /\ e.key # puts + 1
  BY <1>2, CallIsTyped
<1>6. /\ document.key \in Nat /\ source.key \in Nat /\ document.key <= puts /\ source.key <= puts
      /\ document.key # puts + 1 /\ source.key # puts + 1
  BY <1>2 DEF RetentionInv, PutsHold, RowsHold, DocumentRecord, SourceRecord
<1>7. PutsHold'
  <2>1. stored' \subseteq 1..(puts + 1)
    BY <1>2 DEF RetentionInv, PutsHold
  <2> QED BY <1>2, <1>3, <1>4, <1>5, <1>6, <2>1 DEF PutsHold
<1>8. RowsHold' /\ EventsHold'
  BY DEF RetentionInv, RowsHold, EventsHold
<1>9. CallHolds(d)'
  BY <1>2, <1>3, <1>4, <1>5, <1>6 DEF CallHolds
<1>10. ASSUME NEW e \in calls \ {c} PROVE CallHolds(e)'
  <2>1. CallHolds(e)
    BY CallIsTyped
  <2> QED BY <1>2, <1>3, <1>4, <1>5, <2>1 DEF CallHolds
<1>11. ASSUME NEW o \in stored' PROVE Owned(o)'
  <2>1. CASE o \in stored
    <3>1. Owned(o) /\ o # Objects!None
      BY <2>1, StoredIsOwned
    <3> QED BY <1>2, <1>4, <3>1 DEF Owned
  <2>2. CASE o = puts + 1
    BY <1>3, <1>4, <2>2 DEF Owned
  <2> QED BY <2>1, <2>2
<1> QED BY <1>3, <1>4, <1>7, <1>8, <1>9, <1>10, <1>11 DEF RetentionInv

LEMMA StoreCalled ==
    ASSUME RetentionInv, NEW c \in calls, Objects!CallStore(c)
    PROVE  RetentionInv'
<1>1. /\ CallHolds(c) /\ c.at = "store" /\ c.own = Objects!None /\ c.type # "upload"
      /\ UNCHANGED <<document, source, outbox, due, broken>>
  BY CallIsTyped DEF Objects!CallStore, CallHolds
<1>2. CASE Objects!Deletes(c) /\ stored' = stored \ {c.key} /\ Objects!Goes(c, "finalize") /\ UNCHANGED puts
  BY <1>1, <1>2, ObjectRemoved
<1>3. CASE c.type \in {"offer.parse", "offer.fetch"} /\ Objects!Goes(c, "finalize") /\ UNCHANGED <<stored, puts>>
  <2>1. calls' = (calls \ {c}) \cup {Gone(c, "finalize")}
    BY <1>3 DEF Objects!Goes, Gone
  <2> QED BY <1>1, <1>3, <2>1, CallKept
<1>4. CASE /\ c.type = "offer.fetch" /\ puts' = puts + 1 /\ stored' = stored \cup {puts'}
           /\ calls' = (calls \ {c}) \cup {[c EXCEPT !.at = "finalize", !.own = puts']}
  BY <1>1, <1>4, ObjectFetched
<1>5. CASE Objects!StoreFails(c) /\ UNCHANGED <<stored, puts>>
  BY <1>1, <1>5, CallEnded DEF Objects!StoreFails
<1> QED BY <1>2, <1>3, <1>4, <1>5 DEF Objects!CallStore

LEMMA WorkFinalized ==
    ASSUME RetentionInv, NEW c \in calls, Objects!FinalizeWork(c)
    PROVE  RetentionInv'
<1>1. /\ c \in CallRecord /\ CallHolds(c) /\ c.at = "finalize" /\ c.type # "offer.fetch" /\ c.own = Objects!None
      /\ calls' = calls \ {c} /\ UNCHANGED <<stored, due, puts, broken>>
  BY CallIsTyped DEF Objects!FinalizeWork, CallHolds
<1>2. /\ outbox \in [Objects!EventTypes -> EventRecord] /\ document \in DocumentRecord /\ source \in SourceRecord
  BY DEF RetentionInv, EventsHold, RowsHold
<1>3. CASE UNCHANGED <<document, source, outbox>>
  BY <1>1, <1>3, CallEnded
<1>4. ASSUME NEW t \in Objects!EventTypes
      PROVE  /\ Objects!Done(t) \in [Objects!EventTypes -> EventRecord] /\ Objects!Done(t)[t].state = "done"
             /\ \A u \in Objects!EventTypes \ {t} : Objects!Done(t)[u] = outbox[u]
  <2>1. [outbox[t] EXCEPT !.state = "done"] \in EventRecord /\ [outbox[t] EXCEPT !.state = "done"].state = "done"
    BY <1>2 DEF EventRecord
  <2> QED BY <1>2, <2>1 DEF Objects!Done
<1>5. CASE c.type = "offer.parse" /\ Objects!Parse(c)
  <2>1. /\ document' \in DocumentRecord /\ document'.key = document.key /\ source' = source
        /\ \/ document' = document
           \/ document.status = "quarantined" /\ document'.status \in {"ready", "failed"}
    BY <1>2, <1>5 DEF Objects!Parse, DocumentRecord
  <2>2. /\ outbox' \in [Objects!EventTypes -> EventRecord]
        /\ outbox'["offer.delete"] = outbox["offer.delete"] /\ outbox'["source.delete"] = outbox["source.delete"]
    BY <1>4, <1>5 DEF Objects!Parse, Objects!EventTypes
  <2>3. PutsHold' /\ RowsHold' /\ EventsHold'
    BY <1>1, <2>1, <2>2 DEF RetentionInv, PutsHold, RowsHold, EventsHold
  <2>4. ASSUME NEW d \in calls PROVE CallHolds(d)'
    <3>1. CallHolds(d)
      BY CallIsTyped
    <3> QED BY <1>1, <2>1, <3>1 DEF CallHolds
  <2>5. ASSUME NEW o \in stored' PROVE Owned(o)'
    <3>1. Owned(o) /\ o # Objects!None
      BY <1>1, <2>5, StoredIsOwned
    <3> QED BY <1>1, <2>1, <3>1 DEF Owned
  <2> QED BY <1>1, <2>3, <2>4, <2>5 DEF RetentionInv
<1>6. CASE c.type = "offer.delete" /\ Objects!DeleteObject(c)
  <2>1. /\ document' \in DocumentRecord /\ document'.key = Objects!None /\ document'.status = "deleted"
        /\ source' \in SourceRecord /\ source'.key = Objects!None /\ source'.state = source.state
    BY <1>2, <1>6 DEF Objects!DeleteObject, DocumentRecord, SourceRecord, Objects!None
  <2>2. /\ outbox' \in [Objects!EventTypes -> EventRecord] /\ outbox'["source.delete"] = outbox["source.delete"]
        /\ outbox'["offer.delete"].state = "done"
    BY <1>4, <1>6 DEF Objects!DeleteObject, Objects!EventTypes
  <2>3. PutsHold' /\ RowsHold' /\ EventsHold'
    BY <1>1, <1>6, <2>1, <2>2 DEF RetentionInv, PutsHold, RowsHold, EventsHold, Objects!DeleteObject, Objects!None
  <2>4. ASSUME NEW d \in calls PROVE CallHolds(d)'
    <3>1. CallHolds(d)
      BY CallIsTyped
    <3> QED BY <1>1, <2>1, <3>1 DEF CallHolds
  <2>5. ASSUME NEW o \in stored' PROVE Owned(o)'
    <3>1. Owned(o) /\ o # Objects!None /\ o \in stored
      BY <1>1, <2>5, StoredIsOwned
    <3>2. o \notin {document.key, source.key}
      BY <1>1, <1>6, <3>1 DEF CallHolds, RetentionInv, RowsHold
    <3> QED BY <1>1, <3>1, <3>2 DEF Owned
  <2> QED BY <1>1, <2>3, <2>4, <2>5 DEF RetentionInv
<1>7. CASE c.type = "source.delete" /\ Objects!DeleteSource(c)
  <2>1. /\ document' = document
        /\ source' \in SourceRecord /\ source'.key = Objects!None /\ source'.state = source.state
    BY <1>2, <1>7 DEF Objects!DeleteSource, SourceRecord, Objects!None
  <2>2. /\ outbox' \in [Objects!EventTypes -> EventRecord] /\ outbox'["offer.delete"] = outbox["offer.delete"]
    BY <1>4, <1>7 DEF Objects!DeleteSource, Objects!EventTypes
  <2>3. document.status \notin {"none", "queued"}
    <3>1. outbox["source.delete"].state # "none"
      <4>1. Objects!Current(c) \/ UNCHANGED <<document, source, outbox>>
        BY DEF Objects!FinalizeWork
      <4>2. CASE Objects!Current(c)
        BY <1>7, <4>2 DEF Objects!Current
      <4>3. CASE outbox' = outbox
        BY <1>4, <1>7, <4>3 DEF Objects!DeleteSource, Objects!EventTypes
      <4> QED BY <4>1, <4>2, <4>3
    <3> QED BY <3>1 DEF RetentionInv, RowsHold
  <2>4. PutsHold' /\ RowsHold' /\ EventsHold'
    BY <1>1, <2>1, <2>2, <2>3 DEF RetentionInv, PutsHold, RowsHold, EventsHold, Objects!None
  <2>5. ASSUME NEW d \in calls PROVE CallHolds(d)'
    <3>1. CallHolds(d)
      BY CallIsTyped
    <3> QED BY <1>1, <2>1, <3>1 DEF CallHolds
  <2>6. ASSUME NEW o \in stored' PROVE Owned(o)'
    <3>1. Owned(o) /\ o # Objects!None
      BY <1>1, <2>6, StoredIsOwned
    <3>2. source.key = Objects!None \/ source.key = document.key
      BY DEF RetentionInv, RowsHold
    <3> QED BY <1>1, <2>1, <3>1, <3>2 DEF Owned
  <2> QED BY <1>1, <2>1, <2>4, <2>5, <2>6 DEF RetentionInv
<1> QED BY <1>3, <1>5, <1>6, <1>7 DEF Objects!FinalizeWork

LEMMA FetchFinalized ==
    ASSUME RetentionInv, NEW c \in calls, Objects!FinalizeFetch(c)
    PROVE  RetentionInv'
<1>1. /\ c \in CallRecord /\ CallHolds(c) /\ c.type = "offer.fetch" /\ c.own \in Nat /\ c.own <= puts
      /\ UNCHANGED <<stored, due, puts, broken>>
  BY CallIsTyped DEF Objects!FinalizeFetch
<1>2. /\ outbox \in [Objects!EventTypes -> EventRecord] /\ document \in DocumentRecord /\ source \in SourceRecord
  BY DEF RetentionInv, EventsHold, RowsHold
<1>3. CASE /\ IF c.own = Objects!None THEN calls' = calls \ {c} ELSE Objects!Goes(c, "cleanup")
           /\ UNCHANGED <<document, source, outbox>>
  <2>1. CASE c.own = Objects!None
    BY <1>1, <1>3, <2>1, CallEnded
  <2>2. CASE c.own # Objects!None
    <3>1. calls' = (calls \ {c}) \cup {Gone(c, "cleanup")}
      BY <1>3, <2>2 DEF Objects!Goes, Gone
    <3> QED BY <1>1, <1>3, <3>1, CallKept
  <2> QED BY <2>1, <2>2
<1>4. CASE /\ Objects!StillQueued /\ ~due /\ outbox' = Objects!Done(c.type) /\ calls' = calls \ {c}
           /\ IF c.own = Objects!None
              THEN document' = [document EXCEPT !.status = "failed"] /\ UNCHANGED source
              ELSE /\ document' = [status |-> "ready", key |-> c.own]
                   /\ source' = [state |-> "live", key |-> c.own]
  <2>1. /\ document.key = Objects!None /\ source = Objects!NoSource /\ document.status = "queued"
        /\ outbox["offer.delete"].state = "none" /\ outbox["source.delete"].state = "none"
    BY <1>4 DEF Objects!StillQueued, RetentionInv, RowsHold, EventsHold
  <2>2. /\ outbox' \in [Objects!EventTypes -> EventRecord]
        /\ outbox'["offer.delete"] = outbox["offer.delete"] /\ outbox'["source.delete"] = outbox["source.delete"]
    <3>1. [outbox["offer.fetch"] EXCEPT !.state = "done"] \in EventRecord
      BY <1>2 DEF EventRecord, Objects!EventTypes
    <3> QED BY <1>1, <1>2, <1>4, <3>1 DEF Objects!Done, Objects!EventTypes
  <2>3. /\ document' \in DocumentRecord /\ source' \in SourceRecord
        /\ document'.key = c.own /\ source'.key = c.own
        /\ document'.status = (IF c.own = Objects!None THEN "failed" ELSE "ready")
        /\ source'.state \in {"none", "live"}
    BY <1>1, <1>2, <1>4, <2>1 DEF DocumentRecord, SourceRecord, Objects!NoSource
  <2>4. PutsHold'
    BY <1>1, <1>4, <2>3 DEF RetentionInv, PutsHold
  <2>5. RowsHold'
    BY <1>1, <1>4, <2>3 DEF RowsHold, CallHolds
  <2>6. EventsHold'
    BY <2>1, <2>2 DEF EventsHold
  <2>7. ASSUME NEW d \in calls \ {c} PROVE CallHolds(d)'
    <3>1. CallHolds(d) /\ d.type # "offer.delete" /\ (d.own # Objects!None => d.own # c.own)
      BY <2>1, CallIsTyped DEF CallHolds
    <3> QED BY <1>1, <1>4, <2>3, <3>1 DEF CallHolds
  <2>8. ASSUME NEW o \in stored' PROVE Owned(o)'
    <3>1. Owned(o) /\ o # Objects!None
      BY <1>1, <2>8, StoredIsOwned
    <3> QED BY <1>1, <1>4, <2>1, <2>3, <3>1 DEF Owned, Objects!NoSource
  <2> QED BY <1>4, <2>4, <2>5, <2>6, <2>7, <2>8 DEF RetentionInv
<1> QED BY <1>3, <1>4 DEF Objects!FinalizeFetch

LEMMA CallCleaned ==
    ASSUME RetentionInv, NEW c \in calls, Objects!Cleanup(c) \/ Objects!Crash(c)
    PROVE  RetentionInv'
<1>1. /\ c \in CallRecord /\ CallHolds(c)
      /\ calls' = calls \ {c} /\ UNCHANGED <<document, source, outbox, due, puts>>
  BY CallIsTyped DEF Objects!Cleanup, Objects!Crash
<1>2. \/ stored' = stored \ {c.own} /\ broken' = broken /\ c.at = "cleanup"
      \/ stored' = stored /\ broken \subseteq broken' /\ (c.own # Objects!None => c.own \in broken')
  BY DEF Objects!Cleanup, Objects!Crash
<1>3. stored' \subseteq stored /\ (document.key \in stored /\ document.key # c.own => document.key \in stored')
  BY <1>2
<1>4. PutsHold'
  BY <1>1, <1>3 DEF RetentionInv, PutsHold
<1>5. RowsHold'
  <2>1. document.key \in stored => document.key # c.own
    BY <1>1 DEF RetentionInv, PutsHold, CallHolds, Objects!None
  <2> QED BY <1>1, <1>3, <2>1 DEF RetentionInv, RowsHold
<1>6. EventsHold'
  BY <1>1 DEF RetentionInv, EventsHold
<1>7. ASSUME NEW d \in calls \ {c} PROVE CallHolds(d)'
  <2>1. CallHolds(d) /\ (d.own # Objects!None => d.own # c.own)
    BY CallIsTyped DEF CallHolds
  <2>2. d.own \in stored /\ d.own # Objects!None => d.own \in stored'
    BY <1>2, <2>1
  <2> QED BY <1>1, <1>3, <2>1, <2>2 DEF CallHolds
<1>8. ASSUME NEW o \in stored' PROVE Owned(o)'
  <2>1. Owned(o) /\ o # Objects!None
    BY <1>3, <1>8, StoredIsOwned
  <2> QED BY <1>1, <1>2, <1>8, <2>1 DEF Owned
<1> QED BY <1>1, <1>4, <1>5, <1>6, <1>7, <1>8 DEF RetentionInv

\* Retention.
LEMMA TimePassed == RetentionInv /\ (Objects!TimePasses \/ Objects!PurgeDue) => RetentionInv'
<1> SUFFICES ASSUME RetentionInv, Objects!TimePasses \/ Objects!PurgeDue PROVE RetentionInv'
  OBVIOUS
<1>1. due' /\ stored' \subseteq stored /\ UNCHANGED <<document, source, outbox, calls, puts, broken>>
  BY DEF Objects!TimePasses, Objects!PurgeDue
<1>2. PutsHold' /\ RowsHold' /\ EventsHold'
  BY <1>1 DEF RetentionInv, PutsHold, RowsHold, EventsHold
<1>3. \A c \in calls : CallHolds(c)'
  BY <1>1 DEF RetentionInv, CallHolds
<1>4. \A o \in stored' : Owned(o)'
  BY <1>1 DEF RetentionInv, Owned
<1> QED BY <1>1, <1>2, <1>3, <1>4 DEF RetentionInv

LEMMA SourceExpired == RetentionInv /\ Objects!ExpireSource => RetentionInv'
<1> SUFFICES ASSUME RetentionInv, Objects!ExpireSource PROVE RetentionInv'
  OBVIOUS
<1>1. /\ due /\ source.state # "none" /\ UNCHANGED <<stored, document, calls, due, puts, broken>>
      /\ outbox \in [Objects!EventTypes -> EventRecord] /\ source \in SourceRecord
  BY DEF Objects!ExpireSource, RetentionInv, EventsHold, RowsHold
<1>2. source' \in SourceRecord /\ source'.key = source.key /\ source'.state = "tombstone"
  BY <1>1 DEF Objects!ExpireSource, SourceRecord
<1>3. /\ outbox' \in [Objects!EventTypes -> EventRecord] /\ outbox'["offer.delete"] = outbox["offer.delete"]
      /\ outbox'["source.delete"].state = "done" => outbox["source.delete"].state = "done"
  <2>1. CASE outbox' = outbox
    BY <1>1, <2>1
  <2>2. CASE outbox' = [outbox EXCEPT !["source.delete"].state = "ready"]
    <3>1. [outbox["source.delete"] EXCEPT !.state = "ready"] \in EventRecord
      BY <1>1 DEF EventRecord, Objects!EventTypes
    <3>2. [outbox["source.delete"] EXCEPT !.state = "ready"].state = "ready"
      BY <1>1 DEF EventRecord, Objects!EventTypes
    <3> QED BY <1>1, <2>2, <3>1, <3>2 DEF Objects!EventTypes
  <2> QED BY <2>1, <2>2 DEF Objects!ExpireSource
<1>4. document.status \notin {"none", "queued"}
  BY <1>1 DEF RetentionInv, RowsHold, Objects!NoSource
<1>5. PutsHold' /\ RowsHold' /\ EventsHold'
  BY <1>1, <1>2, <1>3, <1>4 DEF RetentionInv, PutsHold, RowsHold, EventsHold
<1>6. \A c \in calls : CallHolds(c)'
  BY <1>1, <1>2 DEF RetentionInv, CallHolds
<1>7. \A o \in stored' : Owned(o)'
  BY <1>1, <1>2 DEF RetentionInv, Owned
<1> QED BY <1>1, <1>5, <1>6, <1>7 DEF RetentionInv

LEMMA RetentionStart == Objects!RetentionInit => RetentionInv
<1> SUFFICES ASSUME Objects!RetentionInit PROVE RetentionInv
  OBVIOUS
<1>1. /\ document \in DocumentRecord /\ document.key = Objects!None /\ document.status = "none"
      /\ source \in SourceRecord /\ source = Objects!NoSource /\ source.key = Objects!None /\ source.state = "none"
  BY DEF Objects!RetentionInit, Objects!NoRow, Objects!NoSource, DocumentRecord, SourceRecord, Objects!None
<1>2. outbox \in [Objects!EventTypes -> EventRecord] /\ \A t \in Objects!EventTypes : outbox[t].state = "none"
  BY DEF Objects!RetentionInit, Objects!NoEvent, EventRecord
<1>3. PutsHold /\ RowsHold /\ EventsHold
  BY <1>1, <1>2 DEF Objects!RetentionInit, PutsHold, RowsHold, EventsHold, Objects!EventTypes, Objects!None
<1> QED BY <1>3 DEF Objects!RetentionInit, RetentionInv

LEMMA RetentionStep == RetentionInv /\ [Objects!RetentionNext]_retentionVars => RetentionInv'
<1> SUFFICES ASSUME RetentionInv, [Objects!RetentionNext]_retentionVars PROVE RetentionInv'
  OBVIOUS
<1>1. CASE Objects!PutUpload \/ Objects!IngestUrl \/ Objects!DeleteDocument
  BY <1>1, UploadPut, UrlIngested, DocumentDeleted
<1>2. CASE Objects!TimePasses \/ Objects!ExpireSource \/ Objects!PurgeDue
  BY <1>2, TimePassed, SourceExpired
<1>3. ASSUME NEW status \in {"ready", "failed"}, Objects!UploadInline(status) PROVE RetentionInv'
  BY <1>3, InlineUploaded
<1>4. ASSUME NEW type \in Objects!EventTypes, Objects!Claim(type) \/ Objects!Prepare(type) PROVE RetentionInv'
  BY <1>4, EventClaimed, WorkPrepared
<1>5. ASSUME NEW c \in calls, Objects!CommitUpload(c) \/ Objects!CallStore(c) \/ Objects!FinalizeWork(c) PROVE RetentionInv'
  BY <1>5, UploadCommitted, StoreCalled, WorkFinalized
<1>6. ASSUME NEW c \in calls, Objects!FinalizeFetch(c) \/ Objects!Cleanup(c) \/ Objects!Crash(c) PROVE RetentionInv'
  BY <1>6, FetchFinalized, CallCleaned
<1>7. CASE UNCHANGED retentionVars
  BY <1>7 DEF retentionVars, RetentionInv, PutsHold, RowsHold, EventsHold, CallHolds, Owned
<1> QED BY <1>1, <1>2, <1>3, <1>4, <1>5, <1>6, <1>7 DEF Objects!RetentionNext

\* What the rows and the calls own is what the property asks for.
LEMMA RetentionIsTrue == RetentionInv => Objects!ObjectsAreOwned
<1> SUFFICES ASSUME RetentionInv PROVE Objects!ObjectsAreOwned
  OBVIOUS
<1>1. outbox["offer.delete"].state = "done" => document.key = Objects!None /\ source.key = Objects!None
  BY DEF RetentionInv, EventsHold, RowsHold
<1>2. outbox["source.delete"].state = "done" => source.key = Objects!None
  BY DEF RetentionInv, EventsHold
<1>3. document.status \in {"quarantined", "ready"} /\ ~due => document.key \in stored
  BY DEF RetentionInv, RowsHold
<1>4. \A o \in stored : Owned(o)
  BY DEF RetentionInv
<1> QED BY <1>1, <1>2, <1>3, <1>4 DEF Objects!ObjectsAreOwned, Objects!HasKey, Owned

----------------------------------------------------------------------------
\* Companies and candidates, and what the theorem about identities rests on.

VARIABLES companies, mapped, buyers, evidence, counted, tx, imports,
          importing, attempts, reviews
identityVars == <<companies, mapped, buyers, evidence, counted, tx, imports,
    importing, attempts, reviews>>

Identity == INSTANCE BuyerIdentity WITH
    Pages <- ReviewPages, Files <- CandidateFiles

\* Rows of the import, companies and mappings.
HitRecord == [registry : STRING, domain : STRING, name : STRING]
Ids == (Runs \cup Imports) \X Nat
CompanyRecord == [id : Ids, registry : STRING \cup {Identity!None}, domain : STRING, name : STRING]
MappingRecord == [company : Ids, state : {"needs_review", "exact_registry", "created", "reviewed_page", "reviewed_split"}]
Mappings == UNION {[D -> Seq(MappingRecord)] : D \in SUBSET ((Runs \cup ReviewPages) \X Nat)}
TxRecord == [open : BOOLEAN, at : Nat, stage : {"read", "insert", "decide"}, known : BOOLEAN,
             made : SUBSET CompanyRecord, chosen : Ids \cup {<<Identity!None, 0>>}, maps : Mappings]

\* Runs, pages and imports are different things, and none is "none".
ASSUME IdentityAssumption ==
    /\ Hits \in [Runs -> Seq(HitRecord)] /\ CandidateFiles \subseteq Seq([name : STRING, domain : STRING])
    /\ Runs \cap ReviewPages = {} /\ Runs \cap Imports = {} /\ Identity!None \notin Imports

\* One company has a registry id.
OneEach(cs) == \A c, d \in cs : c.registry = d.registry => c.id = d.id \/ c.registry = Identity!None

\* A candidate is mapped to a company that exists, and once only to the one that
\* has its registry id.
MappingHolds(raw, maps, cs) ==
    /\ maps # <<>> /\ \E c \in cs : c.id = maps[Len(maps)].company
    /\ raw[1] \in Runs /\ Len(maps) = 1 /\ Hits[raw[1]][raw[2]].registry # Identity!None =>
          \E c \in cs : c.id = maps[1].company /\ c.registry = Hits[raw[1]][raw[2]].registry

\* A transaction made companies of its own candidates, and decides for one it sees.
TxHolds(r, q, cs) ==
    /\ \A c \in q.made : c.id[1] = r
    /\ \A raw \in DOMAIN q.maps : raw[1] = r /\ MappingHolds(raw, q.maps[raw], cs \cup q.made)
    /\ q.open => q.at >= 1
    /\ q.open /\ q.stage = "decide" => \E c \in cs \cup q.made :
          c.id = q.chosen /\ (Hits[r][q.at].registry = Identity!None \/ c.registry = Hits[r][q.at].registry)

Everything == companies \cup UNION {tx[r].made : r \in Runs}

\* A file that is imported meets no company of another file, nor do its new rows
\* meet one another.
Alone(k) ==
    \A i \in Identity!Ready(k) :
        /\ \A c \in companies : c.id[1] \in Imports => ~Identity!Meet(c, imports[k].file[i])
        /\ \A j \in Identity!Ready(k) : i # j => ~Identity!Meet(imports[k].file[j], imports[k].file[i])

ImportHolds ==
    /\ DOMAIN imports = Imports
    /\ \A k \in Imports : /\ DOMAIN imports[k] = {"file", "rows", "status"}
                          /\ imports[k].status = "previewed" => imports[k].file \in CandidateFiles
    /\ importing \in Imports \cup {Identity!None}
    /\ importing # Identity!None => imports[importing].status = "previewed" /\ Alone(importing)
    /\ Identity!ImportsAreDistinct

IdentityInv ==
    /\ companies \subseteq CompanyRecord /\ OneEach(Everything)
    /\ mapped \in Mappings /\ \A raw \in DOMAIN mapped : MappingHolds(raw, mapped[raw], companies)
    /\ tx \in [Runs -> TxRecord] /\ \A r \in Runs : TxHolds(r, tx[r], companies)
    /\ \A e \in evidence : \E c \in companies : c.id = e[2]
    /\ ImportHolds

\* Companies only get more.
LEMMA MappingStays ==
    ASSUME NEW raw, NEW maps, NEW cs, NEW ds, cs \subseteq ds, MappingHolds(raw, maps, cs)
    PROVE  MappingHolds(raw, maps, ds)
BY DEF MappingHolds

LEMMA TxStays ==
    ASSUME NEW r \in Runs, NEW q \in TxRecord, NEW cs, NEW ds, cs \subseteq ds, TxHolds(r, q, cs)
    PROVE  TxHolds(r, q, ds)
<1>1. \A raw \in DOMAIN q.maps : raw[1] = r /\ MappingHolds(raw, q.maps[raw], ds \cup q.made)
  <2>1. cs \cup q.made \subseteq ds \cup q.made
    OBVIOUS
  <2> QED BY <2>1, MappingStays DEF TxHolds
<1>2. \A c \in q.made : c.id[1] = r
  BY DEF TxHolds
<1>3. q.open => q.at >= 1
  BY DEF TxHolds
<1>4. q.open /\ q.stage = "decide" => \E c \in ds \cup q.made :
          c.id = q.chosen /\ (Hits[r][q.at].registry = Identity!None \/ c.registry = Hits[r][q.at].registry)
  BY DEF TxHolds
<1> QED BY <1>1, <1>2, <1>3, <1>4 DEF TxHolds

LEMMA FewerAreOneEach ==
    ASSUME NEW cs, NEW ds, ds \subseteq cs, OneEach(cs)
    PROVE  OneEach(ds)
BY DEF OneEach

\* Only the transaction of a run moves.
LEMMA TxMoves ==
    ASSUME IdentityInv, NEW r \in Runs, NEW q \in TxRecord, tx' = [tx EXCEPT ![r] = q],
           UNCHANGED <<companies, mapped, evidence, imports, importing>>,
           TxHolds(r, q, companies), OneEach(Everything')
    PROVE  IdentityInv'
<1>1. tx' \in [Runs -> TxRecord] /\ \A other \in Runs : tx'[other] = IF other = r THEN q ELSE tx[other]
  BY DEF IdentityInv
<1>2. \A other \in Runs : TxHolds(other, tx'[other], companies)
  BY <1>1 DEF IdentityInv
<1>3. ImportHolds'
  BY DEF IdentityInv, ImportHolds, Alone, Identity!Ready, Identity!ImportsAreDistinct
<1> QED BY <1>1, <1>2, <1>3 DEF IdentityInv

LEMMA MadeStays ==
    ASSUME IdentityInv, NEW r \in Runs, NEW q \in TxRecord, tx' = [tx EXCEPT ![r] = q],
           companies' = companies, q.made \subseteq tx[r].made
    PROVE  OneEach(Everything')
<1>1. \A other \in Runs : tx'[other] = IF other = r THEN q ELSE tx[other]
  BY DEF IdentityInv
<1>2. Everything' \subseteq Everything
  BY <1>1 DEF Everything
<1> QED BY <1>2, FewerAreOneEach DEF IdentityInv

LEMMA IdleIsTyped == Identity!Idle \in TxRecord /\ Identity!Idle.maps = <<>> /\ Identity!Idle.made = {} /\ Identity!Idle.open = FALSE /\ DOMAIN Identity!Idle.maps = {}
<1>1. <<>> \in [{} -> Seq(MappingRecord)]
  OBVIOUS
<1>2. <<>> \in Mappings
  BY <1>1 DEF Mappings
<1> QED BY <1>2 DEF Identity!Idle, TxRecord

LEMMA RunBegun ==
    ASSUME IdentityInv, NEW r \in Runs, Identity!BeginRun(r) \/ Identity!RollBackRun(r)
    PROVE  IdentityInv'
<1>1. PICK q : q = [Identity!Idle EXCEPT !.open = TRUE, !.at = 1]
  OBVIOUS
<1>2. q \in TxRecord /\ q.made = {} /\ DOMAIN q.maps = {} /\ q.at = 1 /\ q.stage = "read"
  BY <1>1, IdleIsTyped DEF Identity!Idle, TxRecord
<1>3. TxHolds(r, q, companies) /\ TxHolds(r, Identity!Idle, companies)
  BY <1>2, IdleIsTyped DEF TxHolds
<1>4. PICK p \in {q, Identity!Idle} : tx' = [tx EXCEPT ![r] = p]
  BY <1>1 DEF Identity!BeginRun, Identity!RollBackRun
<1>5. p \in TxRecord /\ p.made = {} /\ TxHolds(r, p, companies)
  BY <1>2, <1>3, <1>4, IdleIsTyped
<1>6. UNCHANGED <<companies, mapped, evidence, imports, importing>>
  BY DEF Identity!BeginRun, Identity!RollBackRun
<1> QED BY <1>4, <1>5, <1>6, MadeStays, TxMoves

\* What an open transaction is at.
LEMMA OpenRun ==
    ASSUME IdentityInv, NEW r \in Runs, Identity!IsOpen(r)
    PROVE  /\ tx[r] \in TxRecord /\ TxHolds(r, tx[r], companies) /\ tx[r].at \in Nat /\ tx[r].at >= 1
           /\ Identity!Hit(r) \in HitRecord /\ Identity!Hit(r) = Hits[r][tx[r].at] /\ Identity!Raw(r) = <<r, tx[r].at>>
           /\ Identity!Raw(r) \in Ids /\ Identity!Raw(r) \in (Runs \cup ReviewPages) \X Nat /\ Identity!Raw(r)[1] = r /\ Identity!Raw(r)[2] = tx[r].at
<1>1. tx[r] \in TxRecord /\ TxHolds(r, tx[r], companies)
  BY DEF IdentityInv
<1>2. tx[r].at \in Nat /\ tx[r].at >= 1 /\ tx[r].at <= Len(Hits[r])
  BY <1>1 DEF Identity!IsOpen, TxRecord, TxHolds
<1>3. Hits[r] \in Seq(HitRecord)
  BY IdentityAssumption
<1>4. Hits[r][tx[r].at] \in HitRecord
  BY <1>2, <1>3
<1> QED BY <1>1, <1>2, <1>4 DEF Identity!Hit, Identity!Raw, Ids

LEMMA RegistryRead ==
    ASSUME IdentityInv, NEW r \in Runs, Identity!ReadRegistry(r)
    PROVE  IdentityInv'
<1>1. PICK q : q = tx[r]
  OBVIOUS
<1>2. q \in TxRecord /\ TxHolds(r, q, companies) /\ q.at \in Nat /\ q.stage = "read"
  BY <1>1, OpenRun DEF Identity!ReadRegistry
<1>3. PICK n \in Nat : n = q.at + 1
  BY <1>2
<1>4. PICK v, w : v = [q EXCEPT !.at = n] /\ w = [q EXCEPT !.stage = "insert", !.known = Identity!Registered(r) # {}]
  OBVIOUS
<1>5. /\ v \in TxRecord /\ v.made = q.made /\ v.maps = q.maps /\ v.stage = q.stage /\ v.at = n /\ v.open = q.open
      /\ w \in TxRecord /\ w.made = q.made /\ w.maps = q.maps /\ w.stage = "insert" /\ w.at = q.at /\ w.open = q.open
  BY <1>2, <1>4 DEF TxRecord
<1>6. TxHolds(r, v, companies) /\ TxHolds(r, w, companies)
  <2>1. n >= 1
    BY <1>2, <1>3
  <2> QED BY <1>2, <1>5, <2>1 DEF TxHolds
<1>7. PICK p \in {v, w} : tx' = [tx EXCEPT ![r] = p]
  BY <1>1, <1>3, <1>4 DEF Identity!ReadRegistry
<1>8. p \in TxRecord /\ p.made = tx[r].made /\ TxHolds(r, p, companies)
  BY <1>1, <1>5, <1>6, <1>7
<1>9. UNCHANGED <<companies, mapped, evidence, imports, importing>>
  BY DEF Identity!ReadRegistry
<1> QED BY <1>7, <1>8, <1>9, MadeStays, TxMoves

LEMMA CompanyInserted ==
    ASSUME IdentityInv, NEW r \in Runs, Identity!InsertCompany(r)
    PROVE  IdentityInv'
<1>1. PICK q, hit : q = tx[r] /\ hit = Identity!Hit(r)
  OBVIOUS
<1>2. /\ q \in TxRecord /\ TxHolds(r, q, companies) /\ q.at \in Nat /\ q.stage = "insert"
      /\ hit \in HitRecord /\ hit = Hits[r][q.at] /\ Identity!Raw(r) \in Ids /\ Identity!Raw(r)[1] = r
      /\ UNCHANGED <<companies, mapped, evidence, imports, importing>>
  BY <1>1, OpenRun DEF Identity!InsertCompany
<1>3. Identity!Visible(r) = companies \cup q.made /\ Identity!Visible(r) \subseteq CompanyRecord
  BY <1>1, <1>2 DEF Identity!Visible, IdentityInv, TxRecord
<1>4. CASE Identity!Registered(r) # {}
  <2>1. PICK c \in Identity!Registered(r) : c = CHOOSE d \in Identity!Registered(r) : TRUE
    BY <1>4
  <2>2. c \in companies \cup q.made /\ c \in CompanyRecord /\ c.registry = hit.registry /\ c.id \in Ids
    BY <1>1, <1>3, <2>1 DEF Identity!Registered, CompanyRecord
  <2>3. PICK w : w = [q EXCEPT !.stage = "decide", !.chosen = c.id]
    OBVIOUS
  <2>4. w \in TxRecord /\ w.made = q.made /\ w.maps = q.maps /\ w.stage = "decide" /\ w.at = q.at /\ w.open = q.open /\ w.chosen = c.id
    BY <1>2, <2>2, <2>3 DEF TxRecord
  <2>5. TxHolds(r, w, companies)
    BY <1>2, <2>2, <2>4 DEF TxHolds
  <2>6. tx' = [tx EXCEPT ![r] = w]
    BY <1>1, <1>4, <2>1, <2>3 DEF Identity!InsertCompany
  <2> QED BY <1>1, <1>2, <2>4, <2>5, <2>6, MadeStays, TxMoves
<1>5. CASE Identity!Registered(r) = {}
  <2>1. PICK c : c = Identity!Company(Identity!Raw(r), hit)
    OBVIOUS
  <2>2. c \in CompanyRecord /\ c.id = Identity!Raw(r) /\ c.registry = hit.registry
    <3>1. hit.registry \in STRING /\ hit.domain \in STRING /\ hit.name \in STRING
      BY <1>2 DEF HitRecord
    <3> QED BY <1>2, <2>1, <3>1 DEF Identity!Company, CompanyRecord
  <2>3. PICK made \in SUBSET CompanyRecord : made = q.made \cup {c}
    BY <1>2, <2>2 DEF TxRecord
  <2>4. PICK w : w = [q EXCEPT !.stage = "decide", !.chosen = Identity!Raw(r), !.made = made]
    OBVIOUS
  <2>5. w \in TxRecord /\ w.made = made /\ w.maps = q.maps /\ w.stage = "decide" /\ w.at = q.at /\ w.open = q.open /\ w.chosen = Identity!Raw(r)
    BY <1>2, <2>3, <2>4 DEF TxRecord
  <2>6. \A raw \in DOMAIN w.maps : raw[1] = r /\ MappingHolds(raw, w.maps[raw], companies \cup w.made)
    <3>1. companies \cup q.made \subseteq companies \cup w.made
      BY <2>3, <2>5
    <3> QED BY <1>2, <2>5, <3>1, MappingStays DEF TxHolds
  <2>7. TxHolds(r, w, companies)
    BY <1>2, <2>2, <2>3, <2>5, <2>6 DEF TxHolds
  <2>8. tx' = [tx EXCEPT ![r] = w]
    BY <1>1, <1>5, <2>1, <2>3, <2>4 DEF Identity!InsertCompany
  <2>9. Everything' \subseteq Everything \cup {c}
    <3>1. \A other \in Runs : tx'[other] = IF other = r THEN w ELSE tx[other]
      BY <2>8 DEF IdentityInv
    <3> QED BY <1>1, <1>2, <2>3, <2>5, <3>1 DEF Everything
  <2>10. \A d \in Everything : c.registry = Identity!None \/ d.registry # c.registry
    <3>1. ASSUME NEW d \in companies \cup q.made PROVE c.registry = Identity!None \/ d.registry # c.registry
      BY <1>1, <1>3, <1>5, <2>2, <3>1 DEF Identity!Registered
    <3>2. ASSUME NEW other \in Runs \ {r}, NEW d \in tx[other].made PROVE c.registry = Identity!None \/ d.registry # c.registry
      BY <1>1, <2>2, <3>2 DEF Identity!InsertCompany, Identity!IndexIsFree
    <3> QED BY <1>1, <3>1, <3>2 DEF Everything
  <2>11. OneEach(Everything \cup {c})
    BY <2>10 DEF IdentityInv, OneEach
  <2>12. OneEach(Everything')
    BY <2>9, <2>11, FewerAreOneEach
  <2> QED BY <1>2, <2>5, <2>7, <2>8, <2>12, TxMoves
<1> QED BY <1>4, <1>5


LEMMA MappingDecided ==
    ASSUME IdentityInv, NEW r \in Runs, Identity!DecideMapping(r)
    PROVE  IdentityInv'
<1>1. PICK q, hit, raw : q = tx[r] /\ hit = Identity!Hit(r) /\ raw = Identity!Raw(r)
  OBVIOUS
<1>2. /\ q \in TxRecord /\ TxHolds(r, q, companies) /\ q.at \in Nat /\ q.stage = "decide" /\ q.open
      /\ hit \in HitRecord /\ hit = Hits[r][q.at] /\ raw \in (Runs \cup ReviewPages) \X Nat /\ raw[1] = r /\ raw[2] = q.at
      /\ UNCHANGED <<companies, mapped, evidence, imports, importing>>
  BY <1>1, OpenRun DEF Identity!DecideMapping, Identity!IsOpen
<1>3. PICK c \in companies \cup q.made : c.id = q.chosen /\ (hit.registry = Identity!None \/ c.registry = hit.registry)
  BY <1>2 DEF TxHolds
<1>4. q.chosen \in Ids
  BY <1>2, <1>3 DEF IdentityInv, TxRecord, CompanyRecord
<1>5. PICK noted : noted = [company |-> q.chosen, state |-> Identity!Decision(r)]
  OBVIOUS
<1>6. noted \in MappingRecord /\ noted.company = q.chosen
  BY <1>4, <1>5 DEF MappingRecord, Identity!Decision
<1>7. PICK maps : maps = [x \in DOMAIN q.maps \cup {raw} |-> IF x = raw THEN <<noted>> ELSE q.maps[x]]
  OBVIOUS
<1>8. maps \in Mappings /\ DOMAIN maps = DOMAIN q.maps \cup {raw}
  <2>1. PICK D \in SUBSET ((Runs \cup ReviewPages) \X Nat) : q.maps \in [D -> Seq(MappingRecord)]
    BY <1>2 DEF TxRecord, Mappings
  <2>2. maps \in [D \cup {raw} -> Seq(MappingRecord)]
    BY <1>6, <1>7, <2>1
  <2>3. D \cup {raw} \in SUBSET ((Runs \cup ReviewPages) \X Nat)
    BY <1>2
  <2> QED BY <1>7, <2>2, <2>3 DEF Mappings
<1>9. PICK n \in Nat : n = q.at + 1
  BY <1>2
<1>10. PICK w : w = [q EXCEPT !.stage = "read", !.at = n, !.maps = maps]
  OBVIOUS
<1>11. w \in TxRecord /\ w.made = q.made /\ w.maps = maps /\ w.stage = "read" /\ w.at = n
  BY <1>2, <1>8, <1>10 DEF TxRecord
<1>12. TxHolds(r, w, companies)
  <2>1. n >= 1
    BY <1>2, <1>9
  <2>2. MappingHolds(raw, <<noted>>, companies \cup q.made)
    BY <1>2, <1>3, <1>6 DEF MappingHolds
  <2>3. \A x \in DOMAIN w.maps : x[1] = r /\ MappingHolds(x, w.maps[x], companies \cup w.made)
    <3>1. ASSUME NEW x \in DOMAIN q.maps, x # raw PROVE x[1] = r /\ MappingHolds(x, w.maps[x], companies \cup w.made)
      <4>1. w.maps[x] = q.maps[x]
        BY <1>7, <1>11, <3>1
      <4> QED BY <1>2, <1>11, <4>1 DEF TxHolds
    <3>2. w.maps[raw] = <<noted>>
      BY <1>7, <1>11
    <3>3. MappingHolds(raw, w.maps[raw], companies \cup w.made)
      BY <1>11, <2>2, <3>2
    <3> QED BY <1>2, <1>8, <1>11, <3>1, <3>3
  <2> QED BY <1>2, <1>11, <2>1, <2>3 DEF TxHolds
<1>13. tx' = [tx EXCEPT ![r] = w]
  BY <1>1, <1>5, <1>7, <1>9, <1>10 DEF Identity!DecideMapping
<1> QED BY <1>1, <1>2, <1>11, <1>12, <1>13, MadeStays, TxMoves

\* The companies of a run are of its own, never those of an import.
LEMMA ImportsStayAlone ==
    ASSUME IdentityInv, NEW r \in Runs, companies' = companies \cup tx[r].made, UNCHANGED <<imports, importing>>
    PROVE  ImportHolds'
<1>1. \A c \in companies' : c \in companies \/ c.id[1] = r
  BY DEF IdentityInv, TxHolds
<1>2. \A c \in companies' : c.id[1] \in Imports => c \in companies
  BY <1>1, IdentityAssumption
<1>3. Identity!ImportsAreDistinct'
  BY <1>2 DEF IdentityInv, ImportHolds, Identity!ImportsAreDistinct
<1>4. importing # Identity!None => Alone(importing)'
  BY <1>2 DEF IdentityInv, ImportHolds, Alone, Identity!Ready
<1> QED BY <1>3, <1>4 DEF IdentityInv, ImportHolds

LEMMA RunCommitted ==
    ASSUME IdentityInv, NEW r \in Runs, Identity!CommitRun(r)
    PROVE  IdentityInv'
<1>1. PICK q : q = tx[r]
  OBVIOUS
<1>2. q \in TxRecord /\ TxHolds(r, q, companies) /\ q.made \subseteq CompanyRecord /\ q.maps \in Mappings
  BY <1>1 DEF IdentityInv, TxRecord
<1>3. PICK all : all = [raw \in DOMAIN mapped \cup DOMAIN q.maps |->
                    IF raw \in DOMAIN mapped THEN mapped[raw] ELSE q.maps[raw]]
  OBVIOUS
<1>4. /\ mapped' = all /\ companies' = companies \cup q.made
      /\ evidence' = evidence \cup {<<raw, Identity!Current(all, raw)>> : raw \in {x \in DOMAIN all : x[1] = r}}
      /\ tx' = [tx EXCEPT ![r] = Identity!Idle] /\ UNCHANGED <<imports, importing>>
  BY <1>1, <1>3 DEF Identity!CommitRun
<1>5. all \in Mappings
  <2>1. PICK D \in SUBSET ((Runs \cup ReviewPages) \X Nat) : q.maps \in [D -> Seq(MappingRecord)]
    BY <1>2 DEF Mappings
  <2>2. PICK E \in SUBSET ((Runs \cup ReviewPages) \X Nat) : mapped \in [E -> Seq(MappingRecord)]
    BY DEF Mappings, IdentityInv
  <2>3. all \in [E \cup D -> Seq(MappingRecord)]
    BY <1>3, <2>1, <2>2
  <2>4. E \cup D \in SUBSET ((Runs \cup ReviewPages) \X Nat)
    OBVIOUS
  <2> QED BY <2>3, <2>4 DEF Mappings
<1>6. \A raw \in DOMAIN all : MappingHolds(raw, all[raw], companies')
  <2>1. ASSUME NEW raw \in DOMAIN mapped PROVE MappingHolds(raw, mapped[raw], companies')
    <3>1. companies \subseteq companies' /\ MappingHolds(raw, mapped[raw], companies)
      BY <1>4 DEF IdentityInv
    <3> QED BY <3>1, MappingStays
  <2>2. ASSUME NEW raw \in DOMAIN q.maps PROVE MappingHolds(raw, q.maps[raw], companies')
    BY <1>2, <1>4 DEF TxHolds
  <2> QED BY <1>3, <2>1, <2>2
<1>7. tx' \in [Runs -> TxRecord] /\ \A other \in Runs : tx'[other] = IF other = r THEN Identity!Idle ELSE tx[other]
  BY <1>4, IdleIsTyped DEF IdentityInv
<1>8. \A other \in Runs : TxHolds(other, tx'[other], companies')
  <2>1. TxHolds(r, Identity!Idle, companies')
    BY IdleIsTyped DEF TxHolds
  <2>2. ASSUME NEW other \in Runs, other # r PROVE TxHolds(other, tx[other], companies')
    <3>1. companies \subseteq companies' /\ TxHolds(other, tx[other], companies) /\ tx[other] \in TxRecord
      BY <1>4 DEF IdentityInv
    <3> QED BY <3>1, TxStays
  <2> QED BY <1>7, <2>1, <2>2
<1>9. OneEach(Everything')
  <2>1. Everything' \subseteq Everything
    BY <1>1, <1>4, <1>7, IdleIsTyped DEF Everything
  <2> QED BY <2>1, FewerAreOneEach DEF IdentityInv
<1>10. \A e \in evidence' : \E c \in companies' : c.id = e[2]
  <2>1. \A raw \in DOMAIN all : \E c \in companies' : c.id = Identity!Current(all, raw)
    BY <1>6 DEF MappingHolds, Identity!Current
  <2> QED BY <1>4, <2>1 DEF IdentityInv
<1>11. companies' \subseteq CompanyRecord
  BY <1>2, <1>4 DEF IdentityInv
<1>12. ImportHolds'
  BY <1>1, <1>4, ImportsStayAlone
<1> QED BY <1>4, <1>5, <1>6, <1>7, <1>8, <1>9, <1>10, <1>11, <1>12 DEF IdentityInv

------------------------------------------------------------------------------
\* A person adds a decision about a candidate.
LEMMA DecisionAdded ==
    ASSUME IdentityInv, NEW raw \in (Runs \cup ReviewPages) \X Nat, NEW c \in companies,
           NEW state \in {"reviewed_page", "reviewed_split"}, Identity!Reviewed(raw, c.id, state),
           raw \in DOMAIN mapped \/ raw[1] \notin Runs
    PROVE  mapped' \in Mappings /\ \A x \in DOMAIN mapped' : MappingHolds(x, mapped'[x], companies)
<1>1. PICK D \in SUBSET ((Runs \cup ReviewPages) \X Nat) : mapped \in [D -> Seq(MappingRecord)]
  BY DEF Mappings, IdentityInv
<1>2. PICK noted : noted = [company |-> c.id, state |-> state]
  OBVIOUS
<1>3. noted \in MappingRecord /\ noted.company = c.id
  BY <1>2 DEF IdentityInv, CompanyRecord, MappingRecord
<1>4. PICK maps : maps = (IF raw \in DOMAIN mapped THEN mapped[raw] ELSE <<>>)
  OBVIOUS
<1>5. maps \in Seq(MappingRecord)
  BY <1>1, <1>4
<1>6. PICK more : more = maps \o <<noted>>
  OBVIOUS
<1>7. more \in Seq(MappingRecord) /\ Len(more) = Len(maps) + 1 /\ more[Len(more)] = noted /\ more # <<>>
  BY <1>3, <1>5, <1>6
<1>8. mapped' = [x \in D \cup {raw} |-> IF x # raw THEN mapped[x] ELSE more]
  BY <1>1, <1>2, <1>4, <1>6 DEF Identity!Reviewed
<1>9. mapped' \in [D \cup {raw} -> Seq(MappingRecord)]
  BY <1>1, <1>7, <1>8
<1>10. MappingHolds(raw, more, companies)
  <2>1. CASE raw \in DOMAIN mapped
    <3>1. maps # <<>>
      BY <1>4, <2>1 DEF IdentityInv, MappingHolds
    <3>2. Len(more) # 1
      BY <1>5, <1>7, <3>1
    <3> QED BY <1>3, <1>7, <3>2 DEF MappingHolds
  <2>2. CASE raw[1] \notin Runs
    BY <1>3, <1>7, <2>2 DEF MappingHolds
  <2> QED BY <2>1, <2>2
<1>11. \A x \in DOMAIN mapped' : MappingHolds(x, mapped'[x], companies)
  BY <1>1, <1>8, <1>10 DEF IdentityInv
<1> QED BY <1>9, <1>11 DEF Mappings

LEMMA CandidateReviewed ==
    ASSUME IdentityInv, NEW c \in companies,
           \/ \E p \in ReviewPages : Identity!ReviewPage(p, c.id)
           \/ \E raw \in DOMAIN mapped : Identity!RepairMapping(raw, c.id)
    PROVE  IdentityInv'
<1>1. UNCHANGED <<companies, tx, imports, importing>>
  BY DEF Identity!ReviewPage, Identity!RepairMapping
<1>2. mapped' \in Mappings /\ \A x \in DOMAIN mapped' : MappingHolds(x, mapped'[x], companies)
  <2>1. ASSUME NEW p \in ReviewPages, Identity!ReviewPage(p, c.id) PROVE <1>2!1 /\ <1>2!2
    BY <2>1, DecisionAdded, IdentityAssumption DEF Identity!ReviewPage
  <2>2. ASSUME NEW raw \in DOMAIN mapped, Identity!RepairMapping(raw, c.id) PROVE <1>2!1 /\ <1>2!2
    <3>1. raw \in (Runs \cup ReviewPages) \X Nat
      BY DEF IdentityInv, Mappings
    <3> QED BY <2>2, <3>1, DecisionAdded DEF Identity!RepairMapping
  <2> QED BY <2>1, <2>2
<1>3. \A e \in evidence' : \E d \in companies : d.id = e[2]
  <2>1. ASSUME NEW e \in evidence' PROVE \E d \in companies : d.id = e[2]
    <3>1. e \in evidence \/ e[2] = c.id
      <4>1. CASE \E raw \in DOMAIN mapped : Identity!RepairMapping(raw, c.id)
        BY <2>1, <4>1 DEF Identity!RepairMapping
      <4>2. CASE \E p \in ReviewPages : Identity!ReviewPage(p, c.id)
        <5>1. PICK p \in ReviewPages : evidence' = evidence \cup {<<<<p, 1>>, c.id>>}
          BY <4>2 DEF Identity!ReviewPage
        <5> QED BY <2>1, <5>1
      <4> QED BY <4>1, <4>2
    <3> QED BY <3>1 DEF IdentityInv
  <2> QED BY <2>1
<1>4. ImportHolds' /\ OneEach(Everything')
  BY <1>1 DEF IdentityInv, ImportHolds, Alone, Identity!Ready, Identity!ImportsAreDistinct, Everything
<1>5. \A r \in Runs : TxHolds(r, tx'[r], companies')
  BY <1>1 DEF IdentityInv
<1> QED BY <1>1, <1>2, <1>3, <1>4, <1>5 DEF IdentityInv

------------------------------------------------------------------------------
\* The runs and their candidates stay as they are.
LEMMA ImportMoves ==
    ASSUME IdentityInv, UNCHANGED <<companies, mapped, evidence, tx>>, ImportHolds'
    PROVE  IdentityInv'
<1>1. OneEach(Everything')
  BY DEF IdentityInv, Everything
<1> QED BY <1>1 DEF IdentityInv

LEMMA ImportPreviewed ==
    ASSUME IdentityInv, NEW k \in Imports, NEW file \in CandidateFiles, Identity!PreviewImport(k, file)
    PROVE  IdentityInv'
<1>1. PICK v : v = [file |-> file, rows |-> Identity!Classified(Home[k], file), status |-> "previewed"]
  OBVIOUS
<1>2. imports' = [imports EXCEPT ![k] = v] /\ UNCHANGED <<companies, mapped, evidence, tx, importing>>
  BY <1>1 DEF Identity!PreviewImport
<1>3. DOMAIN v = {"file", "rows", "status"} /\ v.file = file
  BY <1>1
<1>4. DOMAIN imports' = Imports /\ \A j \in Imports : imports'[j] = IF j = k THEN v ELSE imports[j]
  BY <1>2 DEF IdentityInv, ImportHolds
<1>5. importing # Identity!None => importing \in Imports /\ imports'[importing] = imports[importing]
  BY <1>4, IdentityAssumption DEF IdentityInv, ImportHolds, Identity!PreviewImport, Identity!Staged, Identity!None
<1>6. ImportHolds'
  BY <1>2, <1>3, <1>4, <1>5 DEF IdentityInv, ImportHolds, Alone, Identity!Ready, Identity!ImportsAreDistinct
<1> QED BY <1>2, <1>6, ImportMoves

LEMMA ImportExpired ==
    ASSUME IdentityInv, NEW k \in Imports, Identity!PreviewExpires(k)
    PROVE  IdentityInv'
<1>1. PICK v : v = [imports[k] EXCEPT !.status = "expired"]
  OBVIOUS
<1>2. imports' = [imports EXCEPT ![k] = v] /\ UNCHANGED <<companies, mapped, evidence, tx, importing>> /\ importing # k
  BY <1>1 DEF Identity!PreviewExpires
<1>3. DOMAIN v = {"file", "rows", "status"} /\ v.status = "expired"
  <2>1. PICK u : u = imports[k]
    OBVIOUS
  <2>2. DOMAIN u = {"file", "rows", "status"}
    BY <2>1 DEF IdentityInv, ImportHolds
  <2> QED BY <1>1, <2>1, <2>2
<1>4. DOMAIN imports' = Imports /\ \A j \in Imports : imports'[j] = IF j = k THEN v ELSE imports[j]
  BY <1>2 DEF IdentityInv, ImportHolds
<1>5. importing # Identity!None => importing \in Imports /\ imports'[importing] = imports[importing]
  BY <1>2, <1>4 DEF IdentityInv, ImportHolds
<1>6. ImportHolds'
  BY <1>2, <1>3, <1>4, <1>5 DEF IdentityInv, ImportHolds, Alone, Identity!Ready, Identity!ImportsAreDistinct
<1> QED BY <1>2, <1>6, ImportMoves

LEMMA MeetIsSymmetric == \A x, y : Identity!Meet(x, y) <=> Identity!Meet(y, x)
BY DEF Identity!Meet

\* A row that is ready was found to meet nothing.
LEMMA ReadyMeetsNothing ==
    ASSUME NEW project, NEW parsed, NEW found, NEW i,
           Identity!Identified(project, parsed, found, i).status = "ready"
    PROVE  /\ \A c \in companies : ~Identity!Meet(c, parsed[i])
           /\ \A j \in 1..(i - 1) : found[j].status = "ready" => ~Identity!Meet(parsed[j], parsed[i])
<1>1. PICK known, seen : /\ known = {c.id : c \in {c \in companies : Identity!Meet(c, parsed[i])}}
          /\ seen = {found[j].is : j \in {j \in 1..(i - 1) : found[j].status # "invalid" /\ Identity!Meet(parsed[j], parsed[i])}}
  OBVIOUS
<1>2. known \cup seen = {}
  <2>1. PICK all, only : all = known \cup seen /\ only = CHOOSE x \in all : TRUE
    OBVIOUS
  <2>2. Identity!Identified(project, parsed, found, i) =
           IF all = {} THEN [status |-> "ready", is |-> <<"row", i>>]
           ELSE IF Identity!Cardinality(all) > 1 \/ (only[1] # "row" /\ <<project, only>> \notin buyers)
                THEN [status |-> "invalid", is |-> <<"row", i>>]
           ELSE [status |-> "duplicate", is |-> only]
    BY <1>1, <2>1 DEF Identity!Identified
  <2>3. all = {}
    BY <2>2
  <2> QED BY <2>1, <2>3
<1> QED BY <1>1, <1>2

LEMMA ImportConfirmed ==
    ASSUME IdentityInv, NEW k \in Imports, Identity!ConfirmImport(k)
    PROVE  IdentityInv'
<1>1. UNCHANGED <<companies, mapped, evidence, tx, imports>> /\ importing' = k /\ imports[k].status = "previewed" /\ Identity!Matched(k)
  BY DEF Identity!ConfirmImport
<1>2. PICK file, parsed : file = imports[k].file /\ parsed = imports[k].rows
  OBVIOUS
<1>3. file \in Seq([name : STRING, domain : STRING])
  <2>1. file \in CandidateFiles
    BY <1>1, <1>2 DEF IdentityInv, ImportHolds
  <2> QED BY <2>1, IdentityAssumption
<1>4. \A i \in Identity!Ready(k) : i \in Nat /\ i >= 1 /\ parsed[i].status = "ready"
  BY <1>2, <1>3 DEF Identity!Ready
<1>5. ASSUME NEW i \in Identity!Ready(k)
      PROVE  /\ \A c \in companies : ~Identity!Meet(c, file[i])
             /\ \A j \in 1..(i - 1) : parsed[j].status = "ready" => ~Identity!Meet(file[j], file[i])
  <2>1. parsed[i] = Identity!Identified(Home[k], file, parsed, i) /\ parsed[i].status = "ready"
    BY <1>1, <1>2 DEF Identity!Matched, Identity!Ready
  <2>2. Identity!Identified(Home[k], file, parsed, i).status = "ready"
    BY <2>1
  <2> QED BY <2>2, ReadyMeetsNothing
<1>6. ASSUME NEW i \in Identity!Ready(k), NEW j \in Identity!Ready(k), i # j PROVE ~Identity!Meet(file[j], file[i])
  <2>1. i \in Nat /\ j \in Nat /\ i >= 1 /\ j >= 1 /\ parsed[i].status = "ready" /\ parsed[j].status = "ready"
    BY <1>4
  <2>2. CASE j < i
    <3>1. j \in 1..(i - 1)
      BY <2>1, <2>2
    <3> QED BY <1>5, <2>1, <3>1
  <2>3. CASE i < j
    <3>1. i \in 1..(j - 1)
      BY <2>1, <2>3
    <3>2. ~Identity!Meet(file[i], file[j])
      BY <1>5, <2>1, <3>1
    <3> QED BY <3>2, MeetIsSymmetric
  <2> QED BY <1>6, <2>1, <2>2, <2>3
<1>7. Alone(k)
  BY <1>2, <1>5, <1>6 DEF Alone
<1>8. Alone(k)'
  BY <1>1, <1>7 DEF Alone, Identity!Ready
<1>9. ImportHolds'
  BY <1>1, <1>8 DEF IdentityInv, ImportHolds, Identity!ImportsAreDistinct
<1> QED BY <1>1, <1>9, ImportMoves

LEMMA ImportRolledBack ==
    ASSUME IdentityInv, NEW k \in Imports, Identity!RollBackImport(k)
    PROVE  IdentityInv'
<1>1. ImportHolds'
  BY DEF Identity!RollBackImport, IdentityInv, ImportHolds, Identity!ImportsAreDistinct
<1> QED BY <1>1, ImportMoves DEF Identity!RollBackImport

LEMMA ImportCommitted ==
    ASSUME IdentityInv, NEW k \in Imports, Identity!CommitImport(k)
    PROVE  IdentityInv'
<1>1. PICK file, ready : file = imports[k].file /\ ready = Identity!Ready(k)
  OBVIOUS
<1>2. importing = k /\ k # Identity!None /\ imports[k].status = "previewed" /\ Alone(k) /\ file \in Seq([name : STRING, domain : STRING])
  <2>1. importing = k /\ k # Identity!None
    BY IdentityAssumption DEF Identity!CommitImport
  <2>2. imports[k].status = "previewed" /\ Alone(k)
    BY <2>1 DEF IdentityInv, ImportHolds
  <2>3. file \in CandidateFiles
    BY <1>1, <2>2 DEF IdentityInv, ImportHolds
  <2> QED BY <2>1, <2>2, <2>3, IdentityAssumption
<1>3. ready \subseteq Nat /\ ready \subseteq DOMAIN file
  BY <1>1, <1>2 DEF Identity!Ready
<1>4. PICK new : new = {Identity!Company(<<k, i>>, [registry |-> Identity!None, domain |-> file[i].domain, name |-> file[i].name]) : i \in ready}
  OBVIOUS
<1>5. companies' = companies \cup new /\ importing' = Identity!None /\ UNCHANGED <<mapped, evidence, tx>>
  BY <1>1, <1>4 DEF Identity!CommitImport
<1>6. ASSUME NEW c \in new
      PROVE  /\ c \in CompanyRecord /\ c.registry = Identity!None
             /\ \E i \in ready : c.id = <<k, i>> /\ c.name = file[i].name /\ c.domain = file[i].domain
  <2>1. PICK i \in ready : c = Identity!Company(<<k, i>>, [registry |-> Identity!None, domain |-> file[i].domain, name |-> file[i].name])
    BY <1>4
  <2>2. file[i] \in [name : STRING, domain : STRING]
    <3>1. PICK S : S = [name : STRING, domain : STRING]
      OBVIOUS
    <3>2. file \in Seq(S) /\ i \in 1..Len(file) /\ Len(file) \in Nat
      BY <1>2, <1>3, <3>1
    <3>3. file[i] \in S
      BY <3>2
    <3> QED BY <3>1, <3>3
  <2>3. file[i].name \in STRING /\ file[i].domain \in STRING /\ <<k, i>> \in Ids
    BY <1>3, <2>2 DEF Ids
  <2>4. c.id = <<k, i>> /\ c.registry = Identity!None /\ c.domain = file[i].domain /\ c.name = file[i].name
    BY <2>1 DEF Identity!Company
  <2>5. c \in CompanyRecord
    BY <2>1, <2>3 DEF Identity!Company, CompanyRecord
  <2> QED BY <2>4, <2>5
<1>7. companies' \subseteq CompanyRecord
  BY <1>5, <1>6 DEF IdentityInv
<1>8. OneEach(Everything')
  <2>1. Everything' = Everything \cup new
    BY <1>5 DEF Everything
  <2>2. \A c \in new : c.registry = Identity!None
    BY <1>6
  <2> QED BY <2>1, <2>2 DEF IdentityInv, OneEach
<1>9. \A raw \in DOMAIN mapped' : MappingHolds(raw, mapped'[raw], companies')
  <2>1. ASSUME NEW raw \in DOMAIN mapped PROVE MappingHolds(raw, mapped[raw], companies')
    <3>1. companies \subseteq companies' /\ MappingHolds(raw, mapped[raw], companies)
      BY <1>5 DEF IdentityInv
    <3> QED BY <3>1, MappingStays
  <2> QED BY <1>5, <2>1
<1>10. \A r \in Runs : TxHolds(r, tx'[r], companies')
  <2>1. ASSUME NEW r \in Runs PROVE TxHolds(r, tx[r], companies')
    <3>1. companies \subseteq companies' /\ TxHolds(r, tx[r], companies) /\ tx[r] \in TxRecord
      BY <1>5 DEF IdentityInv
    <3> QED BY <3>1, TxStays
  <2> QED BY <1>5, <2>1
<1>11. \A e \in evidence' : \E c \in companies' : c.id = e[2]
  BY <1>5 DEF IdentityInv
<1>12. Identity!ImportsAreDistinct'
  <2>1. \A c \in new : \E i \in ready : c.id = <<k, i>> /\ Identity!Keys(c) = Identity!Keys(file[i])
    <3>1. ASSUME NEW c \in new PROVE \E i \in ready : c.id = <<k, i>> /\ Identity!Keys(c) = Identity!Keys(file[i])
      <4>1. PICK i \in ready : c.id = <<k, i>> /\ c.name = file[i].name /\ c.domain = file[i].domain
        BY <1>6
      <4>2. Identity!Keys(c) = Identity!Keys(file[i])
        BY <4>1 DEF Identity!Keys
      <4> QED BY <4>1, <4>2
    <3> QED BY <3>1
  <2>2. ASSUME NEW c \in new, NEW d \in companies, d.id[1] \in Imports PROVE ~Identity!Meet(d, c)
    <3>1. PICK i \in ready : Identity!Keys(c) = Identity!Keys(file[i])
      BY <2>1
    <3>2. ~Identity!Meet(d, file[i])
      BY <1>1, <1>2, <2>2 DEF Alone
    <3> QED BY <3>1, <3>2 DEF Identity!Meet
  <2>3. ASSUME NEW c \in new, NEW d \in new, c.id # d.id PROVE ~Identity!Meet(d, c)
    <3>1. PICK i \in ready : c.id = <<k, i>> /\ Identity!Keys(c) = Identity!Keys(file[i])
      BY <2>1
    <3>2. PICK j \in ready : d.id = <<k, j>> /\ Identity!Keys(d) = Identity!Keys(file[j])
      BY <2>1
    <3>3. ~Identity!Meet(file[j], file[i])
      BY <1>1, <1>2, <2>3, <3>1, <3>2 DEF Alone
    <3> QED BY <3>1, <3>2, <3>3 DEF Identity!Meet
  <2>4. ASSUME NEW c \in companies', NEW d \in companies', c.id[1] \in Imports, d.id[1] \in Imports, c.id # d.id
        PROVE  ~Identity!Meet(c, d)
    <3>1. CASE c \in companies /\ d \in companies
      BY <2>4, <3>1 DEF IdentityInv, ImportHolds, Identity!ImportsAreDistinct
    <3>2. CASE c \in companies /\ d \in new
      BY <2>2, <2>4, <3>2
    <3>3. CASE c \in new /\ d \in companies
      BY <2>2, <2>4, <3>3, MeetIsSymmetric
    <3>4. CASE c \in new /\ d \in new
      BY <2>3, <2>4, <3>4
    <3> QED BY <1>5, <3>1, <3>2, <3>3, <3>4
  <2> QED BY <2>4 DEF Identity!ImportsAreDistinct
<1>13. ImportHolds'
  <2>1. PICK v : v = [imports[k] EXCEPT !.status = "completed"]
    OBVIOUS
  <2>2. imports' = [imports EXCEPT ![k] = v]
    BY <2>1 DEF Identity!CommitImport
  <2>3. DOMAIN v = {"file", "rows", "status"} /\ v.status = "completed"
    <3>1. PICK u : u = imports[k]
      OBVIOUS
    <3>2. DOMAIN u = {"file", "rows", "status"}
      BY <3>1 DEF IdentityInv, ImportHolds
    <3> QED BY <2>1, <3>1, <3>2
  <2>4. DOMAIN imports' = Imports /\ \A j \in Imports : imports'[j] = IF j = k THEN v ELSE imports[j]
    BY <2>2 DEF IdentityInv, ImportHolds
  <2>5. importing' = Identity!None
    BY <1>5
  <2> QED BY <1>12, <2>3, <2>4, <2>5 DEF IdentityInv, ImportHolds
<1> QED BY <1>5, <1>7, <1>8, <1>9, <1>10, <1>11, <1>13 DEF IdentityInv

------------------------------------------------------------------------------
LEMMA IdentityStart == Identity!IdentityInit => IdentityInv
<1> SUFFICES ASSUME Identity!IdentityInit PROVE IdentityInv
  OBVIOUS
<1>1. mapped \in Mappings /\ DOMAIN mapped = {}
  BY IdleIsTyped DEF Identity!IdentityInit, Identity!Idle, TxRecord
<1>2. tx \in [Runs -> TxRecord] /\ \A r \in Runs : tx[r] = Identity!Idle
  BY IdleIsTyped DEF Identity!IdentityInit
<1>3. \A r \in Runs : TxHolds(r, tx[r], companies)
  BY <1>2, IdleIsTyped DEF TxHolds
<1>4. OneEach(Everything)
  BY <1>2, IdleIsTyped DEF Identity!IdentityInit, Everything, OneEach
<1>5. ImportHolds
  BY IdentityAssumption DEF Identity!IdentityInit, ImportHolds, Identity!ImportsAreDistinct, Identity!None
<1> QED BY <1>1, <1>2, <1>3, <1>4, <1>5 DEF Identity!IdentityInit, IdentityInv

LEMMA IdentityStep == IdentityInv /\ [Identity!IdentityNext]_identityVars => IdentityInv'
<1> SUFFICES ASSUME IdentityInv, [Identity!IdentityNext]_identityVars PROVE IdentityInv'
  OBVIOUS
<1>1. ASSUME NEW r \in Runs, \/ Identity!BeginRun(r) \/ Identity!ReadRegistry(r) \/ Identity!InsertCompany(r) \/ Identity!DecideMapping(r)
                            \/ Identity!CommitRun(r) \/ Identity!RollBackRun(r)
      PROVE  IdentityInv'
  BY <1>1, RunBegun, RegistryRead, CompanyInserted, MappingDecided, RunCommitted
<1>2. ASSUME NEW c \in companies, \/ \E p \in ReviewPages : Identity!ReviewPage(p, c.id)
                                  \/ \E raw \in DOMAIN mapped : Identity!RepairMapping(raw, c.id)
      PROVE  IdentityInv'
  BY <1>2, CandidateReviewed
<1>3. ASSUME NEW k \in Imports, \/ \E file \in CandidateFiles : Identity!PreviewImport(k, file)
                                \/ Identity!PreviewExpires(k) \/ Identity!ConfirmImport(k) \/ Identity!CommitImport(k) \/ Identity!RollBackImport(k)
      PROVE  IdentityInv'
  BY <1>3, ImportPreviewed, ImportExpired, ImportConfirmed, ImportCommitted, ImportRolledBack
<1>4. ASSUME UNCHANGED identityVars PROVE IdentityInv'
  BY <1>4 DEF identityVars, IdentityInv, Everything, ImportHolds, Alone, Identity!Ready, Identity!ImportsAreDistinct
<1> QED BY <1>1, <1>2, <1>3, <1>4 DEF Identity!IdentityNext

\* What the run checks of the component.
LEMMA IdentityIsTrue == IdentityInv => Identity!IdentityIsKept
<1> SUFFICES ASSUME IdentityInv PROVE Identity!IdentityIsKept
  OBVIOUS
<1>1. \A c, d \in companies : c.registry = d.registry => c.id = d.id \/ c.registry = Identity!None
  BY DEF IdentityInv, OneEach, Everything
<1>2. ASSUME NEW raw \in DOMAIN mapped, raw[1] \in Runs, Len(mapped[raw]) = 1, Hits[raw[1]][raw[2]].registry # Identity!None
      PROVE  \E c \in companies : c.id = Identity!Current(mapped, raw) /\ c.registry = Hits[raw[1]][raw[2]].registry
  BY <1>2 DEF IdentityInv, MappingHolds, Identity!Current
<1>3. Identity!RegistryNamesTheCompany
  BY <1>1, <1>2 DEF Identity!RegistryNamesTheCompany, IdentityInv
<1>4. Identity!ImportsAreDistinct
  BY DEF IdentityInv, ImportHolds
<1> QED BY <1>3, <1>4 DEF Identity!IdentityIsKept

----------------------------------------------------------------------------
\* Drafts and their claims, and what the theorem about drafts rests on.

VARIABLES basis, assessments, accepted, stale, jobs, drafts, changed
groundingVars == <<basis, assessments, accepted, stale, jobs, drafts,
    changed>>

Grounding == INSTANCE DraftGrounding WITH
    Claims <- DraftClaims, Jobs <- DraftJobs, MaxChanges <- MaxUpheavals

\* Assessments, commands and drafts.
AssessmentRecord == [profile : Nat, cites : SUBSET DraftClaims]
Bases == {<< >>} \cup [Grounding!Parts -> Nat]
CommandRecord == [basis : Bases, fit : Nat, refs : SUBSET DraftClaims]
JobRecord == [status : {"none", "queued", "completed", "failed"}, command : CommandRecord]
Qualifications == {<< >>} \cup UNION {[text -> SUBSET DraftClaims] : text \in SUBSET Grounding!Pieces}
Fingerprints == {<< >>} \cup (Nat \X [Grounding!Parts -> Nat] \X Nat \X Nat)
DraftRecord ==
    [job : DraftJobs, state : {"draft", "review_requested", "approved", "stale"}, revision : Nat,
     text : SUBSET Grounding!Pieces, refs : SUBSET DraftClaims, claims : Qualifications, grounded : BOOLEAN,
     manual : BOOLEAN, profile : Nat, sender : Nat, recipient : Nat, fit : Nat,
     review : Fingerprints, approved : BOOLEAN]

\* What is qualified is the text, with claims the draft selected, and only a
\* person says of a piece that it needs none; what is approved was qualified.
DraftHolds(t) ==
    /\ t.grounded => /\ DOMAIN t.claims = t.text
                     /\ \A piece \in t.text : /\ t.claims[piece] \subseteq t.refs
                                              /\ t.claims[piece] = {} => t.manual
    /\ t.approved => t.grounded /\ t.text # {}

RowsAreTyped ==
    /\ basis \in [Grounding!Parts -> Nat] /\ assessments \in Seq(AssessmentRecord) /\ accepted \in Nat
    /\ jobs \in [DraftJobs -> JobRecord]

\* A draft is of a job that is done, and a job that is done has one.
DraftsOf(ds, js) ==
    /\ ds \in Seq(DraftRecord) /\ \A d \in DOMAIN ds : DraftHolds(ds[d]) /\ js[ds[d].job].status = "completed"
    /\ \A d, e \in DOMAIN ds : ds[d].job = ds[e].job => d = e
    /\ \A j \in DraftJobs : js[j].status = "completed" => \E d \in DOMAIN ds : ds[d].job = j

GroundingInv == RowsAreTyped /\ DraftsOf(drafts, jobs)

\* At the start nothing was asked for.
LEMMA GroundingStart == Grounding!GroundingInit => GroundingInv
<1> SUFFICES ASSUME Grounding!GroundingInit PROVE GroundingInv
  OBVIOUS
<1>1. Grounding!NoCommand \in CommandRecord
  BY DEF Grounding!NoCommand, CommandRecord, Bases
<1>2. Grounding!Unasked \in JobRecord /\ Grounding!Unasked.status = "none"
  BY <1>1 DEF Grounding!Unasked, JobRecord
<1>3. PICK a : a = [profile |-> 1, cites |-> DraftClaims]
  OBVIOUS
<1>4. a \in AssessmentRecord
  BY <1>3 DEF AssessmentRecord
<1>5. assessments = <<a>> /\ drafts = << >>
  BY <1>3 DEF Grounding!GroundingInit
<1>6. RowsAreTyped
  BY <1>2, <1>4, <1>5 DEF Grounding!GroundingInit, RowsAreTyped, Grounding!Parts
<1>7. DraftsOf(drafts, jobs)
  BY <1>2, <1>5 DEF Grounding!GroundingInit, DraftsOf
<1> QED BY <1>6, <1>7 DEF GroundingInv

LEMMA DraftIsTyped ==
    ASSUME GroundingInv, NEW d \in DOMAIN drafts
    PROVE  /\ drafts[d] \in DraftRecord /\ drafts[d].job \in DraftJobs /\ DraftHolds(drafts[d])
           /\ jobs[drafts[d].job].status = "completed"
<1>1. PICK S : S = DraftRecord
  OBVIOUS
<1>2. drafts \in Seq(S) /\ d \in 1..Len(drafts)
  BY <1>1 DEF GroundingInv, DraftsOf
<1>3. drafts[d] \in DraftRecord
  BY <1>1, <1>2
<1>4. drafts[d].job \in DraftJobs
  BY <1>3 DEF DraftRecord
<1> QED BY <1>3, <1>4 DEF GroundingInv, DraftsOf

\* Drafts are replaced by others of the same jobs.
LEMMA DraftsReplaced ==
    ASSUME GroundingInv, RowsAreTyped', jobs' = jobs,
           drafts' \in Seq(DraftRecord), DOMAIN drafts' = DOMAIN drafts,
           \A d \in DOMAIN drafts : drafts'[d].job = drafts[d].job /\ DraftHolds(drafts'[d])
    PROVE  GroundingInv'
<1>1. DraftsOf(drafts, jobs)
  BY DEF GroundingInv
<1>2. \A d \in DOMAIN drafts' : DraftHolds(drafts'[d]) /\ jobs[drafts'[d].job].status = "completed"
  BY <1>1 DEF DraftsOf
<1>3. \A d, e \in DOMAIN drafts' : drafts'[d].job = drafts'[e].job => d = e
  BY <1>1 DEF DraftsOf
<1>4. \A j \in DraftJobs : jobs[j].status = "completed" => \E d \in DOMAIN drafts' : drafts'[d].job = j
  BY <1>1 DEF DraftsOf
<1>5. DraftsOf(drafts', jobs)
  BY <1>2, <1>3, <1>4 DEF DraftsOf
<1> QED BY <1>5 DEF GroundingInv

\* The drafts with one of them replaced by t.
With(d, t) == [drafts EXCEPT ![d] = t]
LEMMA DraftReplaced ==
    ASSUME GroundingInv, NEW d \in DOMAIN drafts, NEW t \in DraftRecord,
           t.job = drafts[d].job, DraftHolds(t), drafts' = With(d, t), Grounding!DraftsOnly
    PROVE  GroundingInv'
<1>1. drafts \in Seq(DraftRecord) /\ \A e \in DOMAIN drafts : DraftHolds(drafts[e])
  BY DEF GroundingInv, DraftsOf
<1>2. /\ drafts' \in Seq(DraftRecord) /\ DOMAIN drafts' = DOMAIN drafts
      /\ \A e \in DOMAIN drafts : drafts'[e] = IF e = d THEN t ELSE drafts[e]
  BY <1>1 DEF With
<1>3. RowsAreTyped' /\ jobs' = jobs
  BY DEF GroundingInv, RowsAreTyped, Grounding!DraftsOnly
<1> QED BY <1>1, <1>2, <1>3, DraftsReplaced

\* Preparation makes the draft of its job, and a finished job is not prepared again.
LEMMA TemplateAdmitted ==
    ASSUME GroundingInv, NEW j \in DraftJobs, NEW refs \in SUBSET DraftClaims, Grounding!AdmitGroundedTemplate(j, refs)
    PROVE  GroundingInv'
<1>1. RowsAreTyped /\ DraftsOf(drafts, jobs)
  BY DEF GroundingInv
<1>2. PICK c : c = [basis |-> basis, fit |-> Len(assessments), refs |-> refs]
  OBVIOUS
<1>3. c \in CommandRecord
  BY <1>1, <1>2 DEF RowsAreTyped, CommandRecord, Bases
<1>4. PICK q : q = [status |-> "queued", command |-> c]
  OBVIOUS
<1>5. q \in JobRecord /\ q.status = "queued"
  BY <1>3, <1>4 DEF JobRecord
<1>6. /\ jobs[j].status = "none" /\ jobs' = [jobs EXCEPT ![j] = q] /\ drafts' = drafts
      /\ UNCHANGED <<basis, assessments, accepted>>
  BY <1>2, <1>4 DEF Grounding!AdmitGroundedTemplate
<1>7. RowsAreTyped'
  BY <1>1, <1>5, <1>6 DEF RowsAreTyped
<1>8. \A d \in DOMAIN drafts : drafts[d].job # j /\ jobs'[drafts[d].job] = jobs[drafts[d].job]
  <2>1. \A d \in DOMAIN drafts : drafts[d].job \in DraftJobs /\ jobs[drafts[d].job].status = "completed"
    BY DraftIsTyped
  <2> QED BY <1>1, <1>6, <2>1 DEF RowsAreTyped
<1>9. \A k \in DraftJobs : jobs'[k].status = "completed" => jobs[k].status = "completed"
  BY <1>1, <1>5, <1>6 DEF RowsAreTyped
<1>10. DraftsOf(drafts, jobs')
  BY <1>1, <1>8, <1>9 DEF DraftsOf
<1> QED BY <1>6, <1>7, <1>10 DEF GroundingInv

LEMMA GeneratedHolds ==
    ASSUME GroundingInv, NEW j \in DraftJobs
    PROVE  Grounding!Generated(j) \in DraftRecord /\ Grounding!Generated(j).job = j /\ DraftHolds(Grounding!Generated(j))
<1>1. RowsAreTyped
  BY DEF GroundingInv
<1>2. PICK refs, fit : refs = jobs[j].command.refs /\ fit = jobs[j].command.fit
  OBVIOUS
<1>3. refs \in SUBSET DraftClaims /\ fit \in Nat
  BY <1>1, <1>2 DEF RowsAreTyped, JobRecord, CommandRecord
<1>4. PICK m : m = [piece \in refs |-> {piece}]
  OBVIOUS
<1>5. m \in [refs -> SUBSET DraftClaims] /\ \A piece \in refs : m[piece] = {piece}
  BY <1>3, <1>4
<1>6. m \in Qualifications /\ refs \in SUBSET Grounding!Pieces
  BY <1>3, <1>5 DEF Qualifications, Grounding!Pieces
<1>7. basis["profile"] \in Nat /\ basis["sender"] \in Nat /\ basis["recipient"] \in Nat
  BY <1>1 DEF RowsAreTyped, Grounding!Parts
<1>8. PICK t : t = Grounding!Generated(j)
  OBVIOUS
<1>9. t = [job |-> j, state |-> "draft", revision |-> 1, text |-> refs, refs |-> refs,
           claims |-> m, grounded |-> TRUE, manual |-> FALSE,
           profile |-> basis["profile"], sender |-> basis["sender"], recipient |-> basis["recipient"],
           fit |-> fit, review |-> << >>, approved |-> FALSE]
  BY <1>2, <1>4, <1>8 DEF Grounding!Generated
<1>10. t \in DraftRecord
  BY <1>3, <1>6, <1>7, <1>9 DEF DraftRecord, Fingerprints
<1>11. t.job = j /\ t.text = refs /\ t.refs = refs /\ t.claims = m /\ t.approved = FALSE
  BY <1>9
<1>12. DraftHolds(t)
  BY <1>5, <1>11 DEF DraftHolds
<1> QED BY <1>8, <1>10, <1>11, <1>12

LEMMA Materialized ==
    ASSUME GroundingInv, NEW j \in DraftJobs, Grounding!Materialize(j)
    PROVE  GroundingInv'
<1>1. RowsAreTyped /\ DraftsOf(drafts, jobs)
  BY DEF GroundingInv
<1>2. jobs[j].status = "queued" /\ jobs[j] \in JobRecord /\ UNCHANGED <<basis, assessments, accepted>>
  BY <1>1 DEF Grounding!Materialize, Grounding!IsPending, RowsAreTyped
<1>3. PICK q, f : /\ q = [jobs[j] EXCEPT !.status = "completed"]
                  /\ f = [jobs[j] EXCEPT !.status = "failed"]
  OBVIOUS
<1>4. q \in JobRecord /\ q.status = "completed" /\ f \in JobRecord /\ f.status = "failed"
  BY <1>2, <1>3 DEF JobRecord
<1>5. \A d \in DOMAIN drafts : drafts[d].job \in DraftJobs /\ drafts[d].job # j /\ drafts[d] \in DraftRecord
  BY <1>2, DraftIsTyped
<1>6. CASE Grounding!Unchanged(jobs[j].command)
  <2>1. PICK t : t = Grounding!Generated(j)
    OBVIOUS
  <2>2. t \in DraftRecord /\ t.job = j /\ DraftHolds(t)
    BY <2>1, GeneratedHolds
  <2>3. jobs' = [jobs EXCEPT ![j] = q] /\ drafts' = Append(drafts, t)
    BY <1>3, <1>6, <2>1 DEF Grounding!Materialize
  <2>4. /\ drafts' \in Seq(DraftRecord) /\ DOMAIN drafts' = DOMAIN drafts \cup {Len(drafts) + 1}
        /\ drafts'[Len(drafts) + 1] = t /\ Len(drafts) + 1 \notin DOMAIN drafts
        /\ \A d \in DOMAIN drafts : drafts'[d] = drafts[d]
    <3>1. drafts \in Seq(DraftRecord)
      BY <1>1 DEF DraftsOf
    <3> QED BY <2>2, <2>3, <3>1
  <2>5. jobs' \in [DraftJobs -> JobRecord] /\ jobs'[j].status = "completed" /\ \A k \in DraftJobs : k # j => jobs'[k] = jobs[k]
    BY <1>1, <1>4, <2>3 DEF RowsAreTyped
  <2>6. \A d \in DOMAIN drafts' : DraftHolds(drafts'[d]) /\ jobs'[drafts'[d].job].status = "completed"
    BY <1>1, <1>5, <2>2, <2>4, <2>5 DEF DraftsOf
  <2>7. \A d, e \in DOMAIN drafts' : drafts'[d].job = drafts'[e].job => d = e
    BY <1>1, <1>5, <2>2, <2>4 DEF DraftsOf
  <2>8. ASSUME NEW k \in DraftJobs, jobs'[k].status = "completed" PROVE \E d \in DOMAIN drafts' : drafts'[d].job = k
    BY <1>1, <2>2, <2>4, <2>5, <2>8 DEF DraftsOf
  <2>9. DraftsOf(drafts', jobs')
    BY <2>4, <2>6, <2>7, <2>8 DEF DraftsOf
  <2> QED BY <1>1, <1>2, <2>5, <2>9 DEF GroundingInv, RowsAreTyped
<1>7. CASE ~Grounding!Unchanged(jobs[j].command)
  <2>1. jobs' = [jobs EXCEPT ![j] = f] /\ drafts' = drafts
    BY <1>3, <1>7 DEF Grounding!Materialize
  <2>2. jobs' \in [DraftJobs -> JobRecord] /\ jobs'[j].status = "failed" /\ \A k \in DraftJobs : k # j => jobs'[k] = jobs[k]
    BY <1>1, <1>4, <2>1 DEF RowsAreTyped
  <2>3. DraftsOf(drafts, jobs')
    BY <1>1, <1>5, <2>2 DEF DraftsOf
  <2> QED BY <1>1, <1>2, <2>1, <2>2, <2>3 DEF GroundingInv, RowsAreTyped
<1> QED BY <1>6, <1>7

\* What people do with a draft.
LEMMA RevisedHolds ==
    ASSUME GroundingInv, NEW d \in DOMAIN drafts, NEW text \in SUBSET Grounding!Pieces, NEW refs \in SUBSET DraftClaims,
           NEW claims \in Qualifications, NEW grounded \in BOOLEAN,
           grounded => /\ DOMAIN claims = text
                       /\ \A piece \in text : claims[piece] \subseteq refs
    PROVE  LET t == Grounding!Revised(d, text, refs, claims, grounded)
           IN  t \in DraftRecord /\ t.job = drafts[d].job /\ DraftHolds(t)
<1>1. PICK u : u = drafts[d]
  OBVIOUS
<1>2. u \in DraftRecord
  BY <1>1, DraftIsTyped
<1>3. PICK n : n = u.revision + 1
  OBVIOUS
<1>4. n \in Nat
  BY <1>2, <1>3 DEF DraftRecord
<1>5. PICK t : t = [u EXCEPT !.revision = n, !.state = "draft", !.text = text, !.refs = refs,
                        !.claims = claims, !.grounded = grounded, !.manual = grounded,
                        !.review = << >>, !.approved = FALSE]
  OBVIOUS
<1>6. t = Grounding!Revised(d, text, refs, claims, grounded)
  BY <1>1, <1>3, <1>5 DEF Grounding!Revised
<1>7. t \in DraftRecord
  BY <1>2, <1>4, <1>5 DEF DraftRecord, Fingerprints
<1>8. /\ t.job = u.job /\ t.text = text /\ t.refs = refs /\ t.claims = claims /\ t.grounded = grounded
      /\ t.manual = grounded /\ t.approved = FALSE
  BY <1>2, <1>5 DEF DraftRecord
<1>9. DraftHolds(t)
  BY <1>8 DEF DraftHolds
<1> QED BY <1>1, <1>6, <1>7, <1>8, <1>9

LEMMA DraftEdited ==
    ASSUME GroundingInv, NEW d \in DOMAIN drafts, NEW text \in SUBSET Grounding!Pieces, NEW refs \in SUBSET DraftClaims,
           Grounding!EditDraft(d, text, refs)
    PROVE  GroundingInv'
<1>1. << >> \in Qualifications
  BY DEF Qualifications
<1>2. PICK t : t = Grounding!Edited(d, text, refs)
  OBVIOUS
<1>3. t \in DraftRecord /\ t.job = drafts[d].job /\ DraftHolds(t)
  BY <1>1, <1>2, RevisedHolds DEF Grounding!Edited
<1>4. drafts' = With(d, t) /\ Grounding!DraftsOnly
  BY <1>2 DEF Grounding!EditDraft, With
<1> QED BY <1>3, <1>4, DraftReplaced

LEMMA DraftQualified ==
    ASSUME GroundingInv, NEW d \in DOMAIN drafts, NEW claims \in [drafts[d].text -> SUBSET DraftClaims],
           Grounding!ReviewManualGrounding(d, claims)
    PROVE  GroundingInv'
<1>1. PICK text, refs : text = drafts[d].text /\ refs = drafts[d].refs
  OBVIOUS
<1>2. text \in SUBSET Grounding!Pieces /\ refs \in SUBSET DraftClaims
  BY <1>1, DraftIsTyped DEF DraftRecord
<1>3. claims \in Qualifications
  BY <1>1, <1>2 DEF Qualifications
<1>4. DOMAIN claims = text /\ \A piece \in text : claims[piece] \subseteq refs
  BY <1>1 DEF Grounding!ReviewManualGrounding, Grounding!ValidSegments
<1>5. PICK t : t = Grounding!Revised(d, text, refs, claims, TRUE)
  OBVIOUS
<1>6. t \in DraftRecord /\ t.job = drafts[d].job /\ DraftHolds(t)
  BY <1>2, <1>3, <1>4, <1>5, RevisedHolds
<1>7. drafts' = With(d, t) /\ Grounding!DraftsOnly
  BY <1>1, <1>5 DEF Grounding!ReviewManualGrounding, With
<1> QED BY <1>6, <1>7, DraftReplaced

LEMMA FingerprintIsTyped ==
    ASSUME GroundingInv, NEW d \in DOMAIN drafts
    PROVE  Grounding!Fingerprint(d) \in Fingerprints
<1>1. drafts[d].revision \in Nat
  BY DraftIsTyped DEF DraftRecord
<1>2. basis \in [Grounding!Parts -> Nat] /\ Len(assessments) \in Nat /\ accepted \in Nat
  BY DEF GroundingInv, RowsAreTyped
<1> QED BY <1>1, <1>2 DEF Grounding!Fingerprint, Fingerprints

LEMMA ReviewRequested ==
    ASSUME GroundingInv, NEW d \in DOMAIN drafts, Grounding!RequestDraftReview(d)
    PROVE  GroundingInv'
<1>1. PICK u, f : u = drafts[d] /\ f = Grounding!Fingerprint(d)
  OBVIOUS
<1>2. u \in DraftRecord /\ f \in Fingerprints /\ DraftHolds(u)
  BY <1>1, DraftIsTyped, FingerprintIsTyped
<1>3. PICK t : t = [u EXCEPT !.state = "review_requested", !.review = f, !.approved = FALSE]
  OBVIOUS
<1>4. /\ t \in DraftRecord /\ t.job = u.job /\ t.text = u.text /\ t.refs = u.refs /\ t.claims = u.claims
      /\ t.grounded = u.grounded /\ t.manual = u.manual /\ t.approved = FALSE
  BY <1>2, <1>3 DEF DraftRecord
<1>5. DraftHolds(t)
  BY <1>2, <1>4 DEF DraftHolds
<1>6. drafts' = With(d, t) /\ Grounding!DraftsOnly
  BY <1>1, <1>2, <1>3, DraftIsTyped DEF Grounding!RequestDraftReview, With, DraftRecord
<1> QED BY <1>1, <1>4, <1>5, <1>6, DraftReplaced

LEMMA DraftApproved ==
    ASSUME GroundingInv, NEW d \in DOMAIN drafts, Grounding!ApproveDraft(d)
    PROVE  GroundingInv'
<1>1. PICK u : u = drafts[d]
  OBVIOUS
<1>2. u \in DraftRecord /\ DraftHolds(u)
  BY <1>1, DraftIsTyped
<1>3. PICK t : t = [u EXCEPT !.state = "approved", !.approved = TRUE]
  OBVIOUS
<1>4. /\ t \in DraftRecord /\ t.job = u.job /\ t.text = u.text /\ t.refs = u.refs /\ t.claims = u.claims
      /\ t.grounded = u.grounded /\ t.manual = u.manual
  BY <1>2, <1>3 DEF DraftRecord
<1>5. u.grounded /\ u.text # {}
  BY <1>1 DEF Grounding!ApproveDraft, Grounding!Approvable
<1>6. DraftHolds(t)
  BY <1>2, <1>4, <1>5 DEF DraftHolds
<1>7. drafts' = With(d, t) /\ Grounding!DraftsOnly
  BY <1>1, <1>2, <1>3, DraftIsTyped DEF Grounding!ApproveDraft, With, DraftRecord
<1> QED BY <1>1, <1>4, <1>6, <1>7, DraftReplaced

\* What changes around the drafts: some lose their approval, nothing else of them changes.
LEMMA DraftDisapproved ==
    ASSUME GroundingInv, NEW d \in DOMAIN drafts
    PROVE  LET t == [drafts[d] EXCEPT !.approved = FALSE]
           IN  t \in DraftRecord /\ t.job = drafts[d].job /\ DraftHolds(t)
<1>1. PICK u : u = drafts[d]
  OBVIOUS
<1>2. u \in DraftRecord /\ DraftHolds(u)
  BY <1>1, DraftIsTyped
<1>3. PICK t : t = [u EXCEPT !.approved = FALSE]
  OBVIOUS
<1>4. /\ t \in DraftRecord /\ t.job = u.job /\ t.text = u.text /\ t.refs = u.refs /\ t.claims = u.claims
      /\ t.grounded = u.grounded /\ t.manual = u.manual /\ t.approved = FALSE
  BY <1>2, <1>3 DEF DraftRecord
<1>5. DraftHolds(t)
  BY <1>2, <1>4 DEF DraftHolds
<1> QED BY <1>1, <1>3, <1>4, <1>5

LEMMA DisapprovedHolds ==
    ASSUME GroundingInv
    PROVE  /\ Grounding!Disapproved \in Seq(DraftRecord) /\ DOMAIN Grounding!Disapproved = DOMAIN drafts
           /\ \A d \in DOMAIN drafts : Grounding!Disapproved[d].job = drafts[d].job /\ DraftHolds(Grounding!Disapproved[d])
<1>1. \A d \in DOMAIN drafts : /\ Grounding!Disapproved[d] \in DraftRecord /\ Grounding!Disapproved[d].job = drafts[d].job
                               /\ DraftHolds(Grounding!Disapproved[d])
  BY DraftDisapproved DEF Grounding!Disapproved
<1>2. PICK S : S = DraftRecord
  OBVIOUS
<1>3. drafts \in Seq(S)
  BY <1>2 DEF GroundingInv, DraftsOf
<1>4. PICK n : n = Len(drafts)
  OBVIOUS
<1>5. n \in Nat /\ DOMAIN drafts = 1..n
  BY <1>3, <1>4
<1>6. Grounding!Disapproved \in [1..n -> S]
  BY <1>1, <1>2, <1>5 DEF Grounding!Disapproved
<1>7. Grounding!Disapproved \in Seq(S)
  BY <1>5, <1>6
<1> QED BY <1>1, <1>2, <1>5, <1>6, <1>7

LEMMA OutdatedHolds ==
    ASSUME GroundingInv
    PROVE  /\ Grounding!Outdated \in Seq(DraftRecord) /\ DOMAIN Grounding!Outdated = DOMAIN drafts
           /\ \A d \in DOMAIN drafts : Grounding!Outdated[d].job = drafts[d].job /\ DraftHolds(Grounding!Outdated[d])
<1>1. ASSUME NEW d \in DOMAIN drafts
      PROVE  Grounding!Outdated[d] \in DraftRecord /\ Grounding!Outdated[d].job = drafts[d].job /\ DraftHolds(Grounding!Outdated[d])
  <2>1. PICK u : u = Grounding!Disapproved[d]
    OBVIOUS
  <2>2. u \in DraftRecord /\ u.job = drafts[d].job /\ DraftHolds(u)
    BY <2>1, DraftDisapproved DEF Grounding!Disapproved
  <2>3. PICK s : s = IF u.state = "approved" THEN "stale" ELSE u.state
    OBVIOUS
  <2>4. s \in {"draft", "review_requested", "approved", "stale"}
    BY <2>2, <2>3 DEF DraftRecord
  <2>5. PICK t : t = [u EXCEPT !.state = s]
    OBVIOUS
  <2>6. /\ t \in DraftRecord /\ t.job = u.job /\ t.text = u.text /\ t.refs = u.refs /\ t.claims = u.claims
        /\ t.grounded = u.grounded /\ t.manual = u.manual /\ t.approved = u.approved
    BY <2>2, <2>4, <2>5 DEF DraftRecord
  <2>7. DraftHolds(t)
    BY <2>2, <2>6 DEF DraftHolds
  <2>8. Grounding!Outdated[d] = [u EXCEPT !.state = IF u.state = "approved" THEN "stale" ELSE u.state]
    BY <2>1 DEF Grounding!Outdated
  <2> QED BY <2>2, <2>3, <2>5, <2>6, <2>7, <2>8
<1>2. PICK S : S = DraftRecord
  OBVIOUS
<1>3. drafts \in Seq(S)
  BY <1>2 DEF GroundingInv, DraftsOf
<1>4. PICK n : n = Len(drafts)
  OBVIOUS
<1>5. n \in Nat /\ DOMAIN drafts = 1..n
  BY <1>3, <1>4
<1>6. Grounding!Outdated \in [1..n -> S]
  BY <1>1, <1>2, <1>5 DEF Grounding!Outdated
<1>7. Grounding!Outdated \in Seq(S)
  BY <1>5, <1>6
<1> QED BY <1>1, <1>2, <1>5, <1>6, <1>7

LEMMA SurroundingsChanged ==
    ASSUME GroundingInv, RowsAreTyped', jobs' = jobs, drafts' \in {drafts, Grounding!Disapproved, Grounding!Outdated}
    PROVE  GroundingInv'
<1>1. drafts \in Seq(DraftRecord) /\ \A d \in DOMAIN drafts : DraftHolds(drafts[d])
  BY DEF GroundingInv, DraftsOf
<1>2. CASE drafts' = drafts
  BY <1>1, <1>2, DraftsReplaced
<1>3. CASE drafts' = Grounding!Disapproved
  BY <1>3, DisapprovedHolds, DraftsReplaced
<1>4. CASE drafts' = Grounding!Outdated
  BY <1>4, OutdatedHolds, DraftsReplaced
<1> QED BY <1>2, <1>3, <1>4

LEMMA PartChanged ==
    ASSUME GroundingInv, NEW part \in Grounding!Parts, Grounding!ChangePart(part)
    PROVE  GroundingInv'
<1>1. RowsAreTyped'
  BY DEF GroundingInv, RowsAreTyped, Grounding!ChangePart
<1>2. drafts' \in {drafts, Grounding!Disapproved, Grounding!Outdated}
  BY Zenon DEF Grounding!ChangePart
<1> QED BY <1>1, <1>2, SurroundingsChanged DEF Grounding!ChangePart

LEMMA SourceLapsed ==
    ASSUME GroundingInv, Grounding!Assess \/ (\E accepts \in BOOLEAN : Grounding!ReviewFit(accepts)) \/ (\E c \in DraftClaims : Grounding!SourceLapses(c))
    PROVE  GroundingInv'
<1>1. CASE Grounding!Assess
  <2>1. PICK a : a = [profile |-> basis["profile"], cites |-> DraftClaims \ stale]
    OBVIOUS
  <2>2. a \in AssessmentRecord
    BY <2>1 DEF GroundingInv, RowsAreTyped, AssessmentRecord, Grounding!Parts
  <2>3. assessments' = Append(assessments, a) /\ UNCHANGED <<basis, accepted, jobs, drafts>>
    BY <1>1, <2>1 DEF Grounding!Assess
  <2>4. RowsAreTyped'
    BY <2>2, <2>3 DEF GroundingInv, RowsAreTyped
  <2> QED BY <2>3, <2>4, SurroundingsChanged
<1>2. CASE \E accepts \in BOOLEAN : Grounding!ReviewFit(accepts)
  <2>1. PICK accepts \in BOOLEAN : Grounding!ReviewFit(accepts)
    BY <1>2
  <2>2. basis' \in [Grounding!Parts -> Nat] /\ UNCHANGED <<assessments, jobs>> /\ drafts' = Grounding!Disapproved
    <3>1. "buyer" \in Grounding!Parts
      BY DEF Grounding!Parts
    <3> QED BY <2>1, <3>1 DEF Grounding!ReviewFit, GroundingInv, RowsAreTyped
  <2>3. accepted' \in Nat
    <3>1. Len(assessments) \in Nat
      BY DEF GroundingInv, RowsAreTyped
    <3>2. accepted' = Len(assessments) \/ accepted' = 0
      BY <2>1, Zenon DEF Grounding!ReviewFit
    <3> QED BY <3>1, <3>2
  <2>4. RowsAreTyped'
    BY <2>2, <2>3 DEF GroundingInv, RowsAreTyped
  <2> QED BY <2>2, <2>4, SurroundingsChanged
<1>3. CASE \E c \in DraftClaims : Grounding!SourceLapses(c)
  <2>1. UNCHANGED <<basis, assessments, accepted, jobs, drafts>>
    BY <1>3 DEF Grounding!SourceLapses
  <2>2. RowsAreTyped'
    BY <2>1 DEF GroundingInv, RowsAreTyped
  <2> QED BY <2>1, <2>2, SurroundingsChanged
<1> QED BY <1>1, <1>2, <1>3

LEMMA GroundingStep == GroundingInv /\ [Grounding!GroundingNext]_groundingVars => GroundingInv'
<1> SUFFICES ASSUME GroundingInv, [Grounding!GroundingNext]_groundingVars PROVE GroundingInv'
  OBVIOUS
<1>1. CASE UNCHANGED groundingVars
  BY <1>1 DEF groundingVars, GroundingInv, RowsAreTyped, DraftsOf
<1>2. CASE \E j \in DraftJobs : Grounding!Materialize(j) \/ \E refs \in SUBSET DraftClaims : Grounding!AdmitGroundedTemplate(j, refs)
  BY <1>2, Materialized, TemplateAdmitted
<1>3. ASSUME NEW d \in DOMAIN drafts,
             \/ \E text \in SUBSET Grounding!Pieces, refs \in SUBSET DraftClaims : Grounding!EditDraft(d, text, refs)
             \/ \E claims \in [drafts[d].text -> SUBSET DraftClaims] : Grounding!ReviewManualGrounding(d, claims)
             \/ Grounding!RequestDraftReview(d) \/ Grounding!ApproveDraft(d)
      PROVE  GroundingInv'
  BY <1>3, DraftEdited, DraftQualified, ReviewRequested, DraftApproved
<1>4. CASE \E part \in Grounding!Parts : Grounding!ChangePart(part)
  BY <1>4, PartChanged
<1>5. CASE Grounding!Assess \/ (\E accepts \in BOOLEAN : Grounding!ReviewFit(accepts)) \/ (\E c \in DraftClaims : Grounding!SourceLapses(c))
  BY <1>5, SourceLapsed
<1> QED BY <1>1, <1>2, <1>3, <1>4, <1>5 DEF Grounding!GroundingNext

\* The cardinality of DraftGrounding is the one of the theorems on finite sets.
LEMMA DraftCardinality == \A S : Grounding!Cardinality(S) = Cardinality(S)
BY DEF Grounding!Cardinality, Cardinality

\* One draft is of a finished job.
LEMMA GroundingIsTrue == GroundingInv => Grounding!DraftsAreGrounded
<1> SUFFICES ASSUME GroundingInv PROVE Grounding!DraftsAreGrounded
  OBVIOUS
<1>1. ASSUME NEW j \in DraftJobs
      PROVE  Cardinality({d \in DOMAIN drafts : drafts[d].job = j}) = IF jobs[j].status = "completed" THEN 1 ELSE 0
  <2>1. CASE jobs[j].status = "completed"
    <3>1. PICK d \in DOMAIN drafts : drafts[d].job = j
      BY <2>1 DEF GroundingInv, DraftsOf
    <3>2. {e \in DOMAIN drafts : drafts[e].job = j} = {d}
      BY <3>1 DEF GroundingInv, DraftsOf
    <3>3. Cardinality({d}) = 1
      BY FS_Singleton
    <3> QED BY <2>1, <3>2, <3>3
  <2>2. CASE jobs[j].status # "completed"
    <3>1. {e \in DOMAIN drafts : drafts[e].job = j} = {}
      BY <2>2, DraftIsTyped
    <3> QED BY <2>2, <3>1, FS_EmptySet
  <2> QED BY <2>1, <2>2
<1>2. Grounding!ApprovedTextIsQualified
  BY DraftIsTyped DEF DraftHolds, Grounding!ApprovedTextIsQualified
<1> QED BY <1>1, <1>2, DraftCardinality DEF Grounding!DraftsAreGrounded, Grounding!OneDraftPerRequest

----------------------------------------------------------------------------
\* The draft editor, and what the theorem about drafts rests on.

VARIABLES server, settled, tab, kept, sent, typists, passed, others, sessions,
          lost
editorVars == <<server, settled, tab, kept, sent, typists, passed, others,
    sessions, lost>>

Editor == INSTANCE DraftEditor WITH
    Actors <- Typists

\* Every draft has a name.
ASSUME EditorAssumption == Editor!None \notin UNION DraftLists

Names == UNION DraftLists
SaveRecord == [session : Nat, draft : Names, version : Nat, text : Int]
BufferRecord == [text : Int, version : Nat]
TabRecord == [actor : Typists \cup {Editor!None}, draft : Names \cup {Editor!None}, version : Nat, text : Int,
              base : Int, awaits : BOOLEAN, next : Names \cup {Editor!None}]

\* What the revisions of s say.
WrittenIn(s) == UNION {{s[d][n] : n \in DOMAIN s[d]} : d \in DOMAIN s}
Revisions(s) == s \in [DOMAIN s -> Seq(Int)] /\ DOMAIN s \in DraftLists /\ \A d \in DOMAIN s : Len(s[d]) >= 1

SettledHolds(save, s) ==
    /\ save \in SaveRecord /\ save.draft \in DOMAIN s
    /\ save.version < Len(s[save.draft]) /\ s[save.draft][save.version + 1] = save.text

\* The editor shows a draft to somebody, from a base that was written.
TabHolds(t, s) ==
    /\ t \in TabRecord
    /\ t.draft = Editor!None => t.text = 0 /\ t.base = 0
    /\ t.actor = Editor!None => t.draft = Editor!None
    /\ t.draft # Editor!None => t.actor \in Typists /\ t.draft \in DOMAIN s /\ t.base \in WrittenIn(s)
    /\ t.next \in DOMAIN s \cup {Editor!None}

\* What is not written yet is shown to its author and retained for its author.
Own(n, a, s, ts) == n > 0 /\ n \notin WrittenIn(s) => n <= Len(ts) /\ ts[n] = a
BuffersHold(k, s, ts) ==
    /\ k \in [Typists \X DOMAIN s -> BufferRecord]
    /\ \A a \in Typists, d \in DOMAIN s : Own(k[<<a, d>>].text, a, s, ts)

IsKept(n, t, k, s, ts, ps) ==
    \/ n \in WrittenIn(s) \/ n \in ps \/ t.text = n
    \/ \E d \in DOMAIN s : k[<<ts[n], d>>].text = n

EditorInv ==
    /\ Revisions(server) /\ typists \in Seq(Typists) /\ sessions \in Nat /\ others \in Nat
    /\ TabHolds(tab, server) /\ Own(tab.text, tab.actor, server, typists)
    /\ BuffersHold(kept, server, typists)
    /\ \A save \in sent : save \in SaveRecord /\ save.draft \in DOMAIN server
    /\ \A save \in settled : SettledHolds(save, server)
    /\ \A n \in DOMAIN typists : IsKept(n, tab, kept, server, typists, passed)

\* At the start nothing was typed.
LEMMA EditorStart == Editor!EditorInit => EditorInv
<1> SUFFICES ASSUME Editor!EditorInit PROVE EditorInv
  OBVIOUS
<1>1. PICK project \in DraftLists : server = [d \in project |-> <<0>>]
  BY DEF Editor!EditorInit
<1>2. Revisions(server)
  BY <1>1 DEF Revisions
<1>3. /\ tab \in TabRecord /\ tab.text = 0 /\ tab.base = 0 /\ tab.draft = Editor!None /\ tab.next = Editor!None
  BY DEF Editor!EditorInit, Editor!Fresh, TabRecord
<1>4. typists \in Seq(Typists) /\ Len(typists) = 0 /\ DOMAIN typists = {}
  BY DEF Editor!EditorInit
<1>5. Editor!NoBuffer \in BufferRecord /\ Editor!NoBuffer.text = 0
  BY DEF Editor!NoBuffer, BufferRecord
<1>6. BuffersHold(kept, server, typists)
  <2>1. kept = [x \in Typists \X DOMAIN server |-> Editor!NoBuffer]
    BY DEF Editor!EditorInit, Editor!Drafts
  <2>2. kept \in [Typists \X DOMAIN server -> BufferRecord]
    BY <1>5, <2>1
  <2>3. \A a \in Typists, d \in DOMAIN server : kept[<<a, d>>].text = 0
    BY <1>5, <2>1
  <2> QED BY <1>4, <2>2, <2>3 DEF BuffersHold, Own
<1>7. TabHolds(tab, server) /\ Own(tab.text, tab.actor, server, typists)
  BY <1>3, <1>4 DEF TabHolds, Own
<1> QED BY <1>2, <1>4, <1>6, <1>7 DEF Editor!EditorInit, EditorInv

\* What is saved follows what it started from.
Added(s, d, text) == [s EXCEPT ![d] = Append(s[d], text)]
LEMMA RevisionsGrow ==
    ASSUME NEW s, Revisions(s), NEW d \in DOMAIN s, NEW text \in Int
    PROVE  LET u == Added(s, d, text) IN
           /\ Revisions(u) /\ DOMAIN u = DOMAIN s /\ WrittenIn(s) \subseteq WrittenIn(u) /\ text \in WrittenIn(u)
           /\ Len(u[d]) = Len(s[d]) + 1 /\ u[d][Len(s[d]) + 1] = text
           /\ \A save : SettledHolds(save, s) => SettledHolds(save, u)
<1>1. PICK v : v = Append(s[d], text)
  OBVIOUS
<1>2. s[d] \in Seq(Int) /\ Len(s[d]) \in Nat
  BY DEF Revisions
<1>3. /\ v \in Seq(Int) /\ Len(v) = Len(s[d]) + 1 /\ v[Len(s[d]) + 1] = text
      /\ \A n \in 1..Len(s[d]) : v[n] = s[d][n]
  BY <1>1, <1>2
<1> DEFINE u == Added(s, d, text)
<1>4. u = [s EXCEPT ![d] = v]
  BY <1>1 DEF Added
<1> HIDE DEF u
<1>5. DOMAIN u = DOMAIN s /\ u[d] = v /\ \A e \in DOMAIN s : e # d => u[e] = s[e]
  BY <1>4
<1>6. Revisions(u)
  <2>1. ASSUME NEW e \in DOMAIN s PROVE u[e] \in Seq(Int) /\ Len(u[e]) >= 1
    <3>1. CASE e = d
      BY <1>2, <1>3, <1>5, <3>1
    <3>2. CASE e # d
      BY <1>5, <3>2 DEF Revisions
    <3> QED BY <3>1, <3>2
  <2> QED BY <1>4, <1>5, <2>1 DEF Revisions
<1>7. \A e \in DOMAIN s : \A n \in DOMAIN s[e] : n \in DOMAIN u[e] /\ u[e][n] = s[e][n]
  <2>1. DOMAIN s[d] = 1..Len(s[d]) /\ DOMAIN v = 1..Len(s[d]) + 1
    BY <1>2, <1>3
  <2> QED BY <1>2, <1>3, <1>5, <2>1
<1>8. WrittenIn(s) \subseteq WrittenIn(u)
  BY <1>5, <1>7 DEF WrittenIn
<1>9. text \in WrittenIn(u)
  <2>1. Len(s[d]) + 1 \in DOMAIN u[d]
    BY <1>2, <1>3, <1>5
  <2> QED BY <1>3, <1>5, <2>1 DEF WrittenIn
<1>10. ASSUME NEW save, SettledHolds(save, s) PROVE SettledHolds(save, u)
  <2>1. /\ save \in SaveRecord /\ save.draft \in DOMAIN s /\ save.version < Len(s[save.draft])
        /\ s[save.draft][save.version + 1] = save.text /\ save.version \in Nat
    BY <1>10 DEF SettledHolds, SaveRecord
  <2>2. s[save.draft] \in Seq(Int)
    BY <2>1 DEF Revisions
  <2>3. save.version + 1 \in 1..Len(s[save.draft])
    BY <2>1, <2>2
  <2>4. u[save.draft][save.version + 1] = save.text
    BY <1>7, <2>1, <2>2, <2>3
  <2>5. Len(u[save.draft]) >= Len(s[save.draft])
    BY <1>2, <1>3, <1>5, <2>1, <2>2
  <2> QED BY <1>3, <1>5, <1>6, <2>1, <2>2, <2>4, <2>5 DEF SettledHolds, Revisions
<1> QED BY <1>3, <1>5, <1>6, <1>8, <1>9, <1>10 DEF u

\* What is kept stays so when the text, the buffers and what was passed by only
\* change as the editor changes them.
LEMMA TextsStay ==
    ASSUME EditorInv, server' = server, typists' = typists, sessions' \in Nat, others' = others, settled' = settled,
           \A save \in sent' : save \in SaveRecord /\ save.draft \in DOMAIN server,
           TabHolds(tab', server), Own(tab'.text, tab'.actor, server, typists),
           BuffersHold(kept', server, typists),
           \A n \in DOMAIN typists : IsKept(n, tab, kept, server, typists, passed) =>
                                     IsKept(n, tab', kept', server, typists, passed')
    PROVE  EditorInv'
<1>1. /\ Revisions(server') /\ typists' \in Seq(Typists) /\ sessions' \in Nat /\ others' \in Nat
      /\ \A save \in sent' : save \in SaveRecord /\ save.draft \in DOMAIN server'
      /\ \A save \in settled' : SettledHolds(save, server')
  BY DEF EditorInv
<1>2. /\ TabHolds(tab', server') /\ Own(tab'.text, tab'.actor, server', typists')
      /\ BuffersHold(kept', server', typists')
  OBVIOUS
<1>3. \A n \in DOMAIN typists' : IsKept(n, tab', kept', server', typists', passed')
  BY DEF EditorInv
<1> QED BY <1>1, <1>2, <1>3 DEF EditorInv

LEMMA EditorFacts ==
    ASSUME EditorInv
    PROVE  /\ tab \in TabRecord /\ Len(typists) \in Nat /\ typists \in Seq(Typists)
           /\ kept \in [Typists \X DOMAIN server -> BufferRecord]
           /\ ~Editor!Unsaved => tab.text = 0 \/ tab.text \in WrittenIn(server)
           /\ Editor!Unsaved => tab.draft # Editor!None /\ tab.actor \in Typists /\ tab.draft \in DOMAIN server
           /\ tab.text > 0 => tab.draft # Editor!None
<1>1. tab \in TabRecord /\ typists \in Seq(Typists) /\ kept \in [Typists \X DOMAIN server -> BufferRecord]
  BY DEF EditorInv, TabHolds, BuffersHold
<1>2. Editor!Unsaved => tab.draft # Editor!None /\ tab.actor \in Typists /\ tab.draft \in DOMAIN server
  BY DEF EditorInv, TabHolds, Editor!Unsaved
<1>3. ~Editor!Unsaved => tab.text = 0 \/ tab.text \in WrittenIn(server)
  BY DEF EditorInv, TabHolds, Editor!Unsaved
<1>4. tab.text > 0 => tab.draft # Editor!None
  BY DEF EditorInv, TabHolds
<1> QED BY <1>1, <1>2, <1>3, <1>4

LEMMA BufferFacts ==
    ASSUME EditorInv, NEW a \in Typists, NEW d \in DOMAIN server
    PROVE  /\ kept[<<a, d>>] \in BufferRecord /\ kept[<<a, d>>].text \in Int
           /\ Own(kept[<<a, d>>].text, a, server, typists)
<1>1. kept[<<a, d>>] \in BufferRecord
  BY DEF EditorInv, BuffersHold
<1>2. kept[<<a, d>>].text \in Int
  BY <1>1 DEF BufferRecord
<1> QED BY <1>1, <1>2 DEF EditorInv, BuffersHold

\* Sessions.
LEMMA SignedIn ==
    ASSUME EditorInv, NEW a \in Typists, Editor!SignIn(a)
    PROVE  EditorInv'
<1>1. tab.actor = Editor!None /\ tab' = Editor!Fresh(a) /\ sessions' = sessions + 1
      /\ UNCHANGED <<server, settled, kept, sent, typists, passed, others, lost>>
  BY DEF Editor!SignIn
<1>2. tab' \in TabRecord /\ tab'.text = 0 /\ tab'.base = 0 /\ tab'.draft = Editor!None /\ tab'.next = Editor!None
  BY <1>1 DEF Editor!Fresh, TabRecord
<1>3. TabHolds(tab', server) /\ Own(tab'.text, tab'.actor, server, typists)
  BY <1>2, EditorFacts DEF TabHolds, Own
<1>4. ASSUME NEW n \in DOMAIN typists, IsKept(n, tab, kept, server, typists, passed)
      PROVE  IsKept(n, tab', kept', server, typists, passed')
  <2>1. tab.text # n
    BY <1>1, EditorFacts DEF EditorInv, TabHolds
  <2> QED BY <1>1, <1>4, <2>1 DEF IsKept
<1> QED BY <1>1, <1>3, <1>4, TextsStay DEF EditorInv

\* A buffer is replaced by another of the same person for the same draft.
Rebuffered(a, d, b) == [kept EXCEPT ![<<a, d>>] = b]
LEMMA BufferReplaced ==
    ASSUME EditorInv, NEW a \in Typists, NEW d \in DOMAIN server, NEW b \in BufferRecord,
           Own(b.text, a, server, typists)
    PROVE  /\ BuffersHold(Rebuffered(a, d, b), server, typists) /\ Rebuffered(a, d, b)[<<a, d>>] = b
           /\ \A c \in Typists, e \in DOMAIN server :
                  Rebuffered(a, d, b)[<<c, e>>] = kept[<<c, e>>] \/ (c = a /\ e = d)
<1> DEFINE k == Rebuffered(a, d, b)
<1>1. kept \in [Typists \X DOMAIN server -> BufferRecord] /\ <<a, d>> \in Typists \X DOMAIN server
  BY EditorFacts
<1>2. k \in [Typists \X DOMAIN server -> BufferRecord] /\ k[<<a, d>>] = b
  BY <1>1 DEF Rebuffered
<1>3. \A c \in Typists, e \in DOMAIN server : k[<<c, e>>] = kept[<<c, e>>] \/ (c = a /\ e = d)
  BY <1>1 DEF Rebuffered
<1> HIDE DEF k
<1>4. ASSUME NEW c \in Typists, NEW e \in DOMAIN server
      PROVE  Own(k[<<c, e>>].text, c, server, typists)
  BY <1>2, <1>3, BufferFacts
<1>5. BuffersHold(k, server, typists)
  BY <1>2, <1>4 DEF BuffersHold
<1> QED BY <1>2, <1>3, <1>5 DEF k

\* The text of an editor that is left is retained, written or passed by.
LEMMA SessionEnded ==
    ASSUME EditorInv, Editor!SessionEnds
    PROVE  EditorInv'
<1>1. /\ tab' = Editor!Fresh(Editor!None) /\ kept' = Editor!Retained
      /\ passed' = passed \cup (IF Editor!Unsaved THEN Editor!PassedBy(Editor!Here) ELSE {})
      /\ UNCHANGED <<server, settled, sent, typists, others, sessions, lost>>
  BY DEF Editor!SessionEnds
<1>2. tab' \in TabRecord /\ tab'.text = 0 /\ tab'.base = 0 /\ tab'.draft = Editor!None /\ tab'.next = Editor!None
  BY <1>1 DEF Editor!Fresh, TabRecord
<1>3. TabHolds(tab', server) /\ Own(tab'.text, tab'.actor, server, typists)
  BY <1>2, EditorFacts DEF TabHolds, Own
<1>4. CASE Editor!Unsaved
  <2>1. PICK a, d : a = tab.actor /\ d = tab.draft
    OBVIOUS
  <2>2. a \in Typists /\ d \in DOMAIN server
    BY <1>4, <2>1, EditorFacts
  <2>3. PICK b : b = [text |-> tab.text, version |-> tab.version]
    OBVIOUS
  <2>4. b \in BufferRecord /\ b.text = tab.text
    BY <2>3, EditorFacts DEF BufferRecord, TabRecord
  <2>5. Own(b.text, a, server, typists)
    BY <2>1, <2>4 DEF EditorInv, TabHolds
  <2>6. kept' = [kept EXCEPT ![<<a, d>>] = b]
    BY <1>1, <1>4, <2>1, <2>3 DEF Editor!Retained, Editor!Here
  <2>7. /\ BuffersHold(kept', server, typists) /\ kept'[<<a, d>>] = b
        /\ \A c \in Typists, e \in DOMAIN server : kept'[<<c, e>>] = kept[<<c, e>>] \/ (c = a /\ e = d)
    <3>1. kept' = Rebuffered(a, d, b)
      BY <2>6 DEF Rebuffered
    <3> QED BY <2>2, <2>4, <2>5, <3>1, BufferReplaced
  <2>8. passed' = passed \cup {kept[<<a, d>>].text}
    BY <1>1, <1>4, <2>1 DEF Editor!PassedBy, Editor!Here
  <2>9. ASSUME NEW n \in DOMAIN typists, IsKept(n, tab, kept, server, typists, passed)
        PROVE  IsKept(n, tab', kept', server, typists, passed')
    <3>1. n > 0 /\ typists[n] \in Typists
      BY EditorFacts
    <3>2. CASE tab.text = n
      <4>1. n \in WrittenIn(server) \/ typists[n] = a
        BY <2>4, <2>5, <3>1, <3>2 DEF Own
      <4> QED BY <2>2, <2>4, <2>7, <3>2, <4>1 DEF IsKept
    <3>3. ASSUME NEW e \in DOMAIN server, kept[<<typists[n], e>>].text = n
          PROVE  IsKept(n, tab', kept', server, typists, passed')
      <4>1. kept'[<<typists[n], e>>] = kept[<<typists[n], e>>] \/ (typists[n] = a /\ e = d)
        BY <2>7, <3>1
      <4> QED BY <2>8, <3>3, <4>1 DEF IsKept
    <3> QED BY <2>8, <2>9, <3>2, <3>3 DEF IsKept
  <2> QED BY <1>1, <1>3, <2>7, <2>9, TextsStay DEF EditorInv
<1>5. CASE ~Editor!Unsaved
  <2>1. kept' = kept /\ passed' = passed
    BY <1>1, <1>5 DEF Editor!Retained
  <2>2. ASSUME NEW n \in DOMAIN typists, IsKept(n, tab, kept, server, typists, passed)
        PROVE  IsKept(n, tab', kept', server, typists, passed')
    <3>1. n > 0
      BY EditorFacts
    <3>2. tab.text = n => n \in WrittenIn(server)
      BY <1>5, <3>1, EditorFacts
    <3> QED BY <2>1, <2>2, <3>2 DEF IsKept
  <2> QED BY <1>1, <1>3, <2>1, <2>2, TextsStay DEF EditorInv
<1> QED BY <1>4, <1>5

\* Opening a draft and typing.
LEMMA DraftsAreNamed ==
    ASSUME EditorInv, NEW d \in DOMAIN server
    PROVE  d \in Names /\ d # Editor!None
<1>1. DOMAIN server \in DraftLists
  BY DEF EditorInv, Revisions
<1>2. d \in Names
  BY <1>1 DEF Names
<1> QED BY <1>2, EditorAssumption DEF Names

LEMMA AppliedHolds ==
    ASSUME EditorInv, NEW d \in DOMAIN server, tab.actor \in Typists, tab.actor # Editor!None
    PROVE  /\ TabHolds(Editor!Applied(d), server) /\ Editor!Applied(d).text \in WrittenIn(server)
           /\ Editor!Applied(d) \in TabRecord /\ Editor!Applied(d).actor = tab.actor /\ Editor!Applied(d).draft = d
           /\ Editor!Applied(d).base \in WrittenIn(server) /\ Editor!Applied(d).next = Editor!None
<1>1. PICK n, x : n = Len(server[d]) /\ x = server[d][n]
  OBVIOUS
<1>2. server[d] \in Seq(Int) /\ n \in Nat /\ n >= 1
  BY <1>1 DEF EditorInv, Revisions
<1>3. n \in DOMAIN server[d] /\ x \in Int
  BY <1>1, <1>2
<1>4. x \in WrittenIn(server)
  BY <1>1, <1>3 DEF WrittenIn
<1>5. PICK t : t = [tab EXCEPT !.draft = d, !.version = n, !.text = x, !.base = x, !.awaits = FALSE, !.next = Editor!None]
  OBVIOUS
<1>6. t = Editor!Applied(d)
  BY <1>1, <1>5 DEF Editor!Applied, Editor!Version
<1>7. /\ t \in TabRecord /\ t.actor = tab.actor /\ t.draft = d /\ t.text = x /\ t.base = x /\ t.next = Editor!None
  BY <1>2, <1>3, <1>5, EditorFacts, DraftsAreNamed DEF TabRecord
<1>8. TabHolds(t, server)
  BY <1>4, <1>7, DraftsAreNamed DEF TabHolds
<1> QED BY <1>4, <1>6, <1>7, <1>8

LEMMA AddressOpened ==
    ASSUME EditorInv, NEW d \in DOMAIN server, Editor!OpenFromAddress(d)
    PROVE  EditorInv'
<1>1. /\ tab.actor # Editor!None /\ tab.draft = Editor!None
      /\ UNCHANGED <<server, settled, kept, sent, typists, passed, others, sessions>>
  BY DEF Editor!OpenFromAddress
<1>2. tab.actor \in Typists /\ tab.text = 0
  BY <1>1, EditorFacts DEF TabRecord, EditorInv, TabHolds
<1>3. PICK a, b : a = tab.actor /\ b = kept[<<a, d>>]
  OBVIOUS
<1>4. b \in BufferRecord /\ b.text \in Int /\ Own(b.text, a, server, typists)
  BY <1>2, <1>3, BufferFacts
<1>5. TabHolds(tab', server) /\ Own(tab'.text, tab'.actor, server, typists)
  <2>1. CASE Editor!Recovered(d) = Editor!NoBuffer
    <3>1. tab' = Editor!Applied(d)
      BY <2>1 DEF Editor!OpenFromAddress
    <3> QED BY <1>1, <1>2, <3>1, AppliedHolds DEF Own
  <2>2. CASE Editor!Recovered(d) # Editor!NoBuffer
    <3>1. PICK u : u = Editor!Applied(d)
      OBVIOUS
    <3>2. tab' = [u EXCEPT !.text = b.text]
      BY <1>3, <2>2, <3>1 DEF Editor!OpenFromAddress, Editor!Recovered
    <3>3. /\ u \in TabRecord /\ u.actor = a /\ u.draft = d /\ u.base \in WrittenIn(server) /\ u.next = Editor!None
      BY <1>1, <1>2, <1>3, <3>1, AppliedHolds
    <3>4. /\ tab' \in TabRecord /\ tab'.actor = a /\ tab'.draft = d /\ tab'.base \in WrittenIn(server)
          /\ tab'.text = b.text /\ tab'.next = Editor!None
      BY <1>4, <3>2, <3>3 DEF TabRecord
    <3>5. TabHolds(tab', server)
      BY <1>1, <1>2, <1>3, <3>4, DraftsAreNamed DEF TabHolds
    <3> QED BY <1>4, <3>4, <3>5
  <2> QED BY <2>1, <2>2
<1>6. ASSUME NEW n \in DOMAIN typists, IsKept(n, tab, kept, server, typists, passed)
      PROVE  IsKept(n, tab', kept', server, typists, passed')
  <2>1. tab.text # n
    BY <1>2, EditorFacts
  <2> QED BY <1>1, <1>6, <2>1 DEF IsKept
<1> QED BY <1>1, <1>5, <1>6, TextsStay DEF EditorInv

\* A buffer that is dropped was passed by.
LEMMA BufferForgotten ==
    ASSUME EditorInv, NEW a \in Typists, NEW d \in DOMAIN server, a = tab.actor, d = tab.draft
    PROVE  /\ BuffersHold(Editor!Forgotten, server, typists)
           /\ \A n \in DOMAIN typists, e \in DOMAIN server : kept[<<typists[n], e>>].text = n =>
                  Editor!Forgotten[<<typists[n], e>>].text = n \/ kept[Editor!Here].text = n
<1>1. Editor!NoBuffer \in BufferRecord /\ Editor!NoBuffer.text = 0
  BY DEF Editor!NoBuffer, BufferRecord
<1>2. Own(Editor!NoBuffer.text, a, server, typists)
  BY <1>1 DEF Own
<1>3. PICK b : b = Editor!NoBuffer
  OBVIOUS
<1>4. Editor!Forgotten = Rebuffered(a, d, b)
  BY <1>3 DEF Editor!Forgotten, Rebuffered, Editor!Here
<1>5. /\ BuffersHold(Editor!Forgotten, server, typists)
      /\ \A c \in Typists, e \in DOMAIN server : Editor!Forgotten[<<c, e>>] = kept[<<c, e>>] \/ (c = a /\ e = d)
  <2>1. b \in BufferRecord /\ Own(b.text, a, server, typists)
    BY <1>1, <1>2, <1>3
  <2>2. /\ BuffersHold(Rebuffered(a, d, b), server, typists)
        /\ \A c \in Typists, e \in DOMAIN server :
               Rebuffered(a, d, b)[<<c, e>>] = kept[<<c, e>>] \/ (c = a /\ e = d)
    BY <2>1, BufferReplaced, ZenonT(60)
  <2> QED BY <1>4, <2>2
<1>6. \A n \in DOMAIN typists : typists[n] \in Typists
  BY EditorFacts
<1> QED BY <1>5, <1>6 DEF Editor!Here

LEMMA ListOpened ==
    ASSUME EditorInv, NEW d \in DOMAIN server, Editor!OpenFromList(d)
    PROVE  EditorInv'
<1>1. /\ tab.actor # Editor!None /\ tab' = Editor!Applied(d) /\ UNCHANGED <<server, settled, sent, typists, others, sessions>>
      /\ kept' = IF Editor!Unsaved THEN Editor!Forgotten ELSE kept
      /\ passed' = passed \cup (IF Editor!Unsaved THEN {tab.text} \cup Editor!PassedBy(Editor!Here) ELSE {})
  BY DEF Editor!OpenFromList
<1>2. tab.actor \in Typists
  BY <1>1, EditorFacts DEF TabRecord
<1>3. TabHolds(tab', server) /\ Own(tab'.text, tab'.actor, server, typists)
  BY <1>1, <1>2, AppliedHolds DEF Own
<1>4. CASE Editor!Unsaved
  <2>1. /\ BuffersHold(kept', server, typists)
        /\ \A n \in DOMAIN typists, e \in DOMAIN server : kept[<<typists[n], e>>].text = n =>
               kept'[<<typists[n], e>>].text = n \/ kept[Editor!Here].text = n
    BY <1>1, <1>4, EditorFacts, BufferForgotten
  <2>2. passed' = passed \cup ({tab.text} \cup {kept[Editor!Here].text})
    BY <1>1, <1>4 DEF Editor!PassedBy
  <2>3. ASSUME NEW n \in DOMAIN typists, IsKept(n, tab, kept, server, typists, passed)
        PROVE  IsKept(n, tab', kept', server, typists, passed')
    BY <2>1, <2>2, <2>3 DEF IsKept
  <2> QED BY <1>1, <1>3, <2>1, <2>3, TextsStay DEF EditorInv
<1>5. CASE ~Editor!Unsaved
  <2>1. kept' = kept /\ passed' = passed
    BY <1>1, <1>5
  <2>2. ASSUME NEW n \in DOMAIN typists, IsKept(n, tab, kept, server, typists, passed)
        PROVE  IsKept(n, tab', kept', server, typists, passed')
    <3>1. n > 0
      BY EditorFacts
    <3>2. tab.text = n => n \in WrittenIn(server)
      BY <1>5, <3>1, EditorFacts
    <3> QED BY <2>1, <2>2, <3>2 DEF IsKept
  <2> QED BY <1>1, <1>3, <2>1, <2>2, TextsStay DEF EditorInv
<1> QED BY <1>4, <1>5

\* What was typed before is written, passed by or kept, and the new text is the editor's.
LEMMA Typed ==
    ASSUME EditorInv, Editor!Type
    PROVE  EditorInv'
<1>1. PICK m : m = Len(typists) + 1
  OBVIOUS
<1>2. /\ tab.draft # Editor!None /\ typists' = Append(typists, tab.actor)
      /\ UNCHANGED <<server, settled, kept, sent, others, sessions>>
      /\ passed' = IF Editor!Unsaved THEN passed \cup {tab.text} ELSE passed
  BY DEF Editor!Type
<1>3. tab.actor \in Typists /\ tab.draft \in DOMAIN server /\ tab.base \in WrittenIn(server)
  BY <1>2 DEF EditorInv, TabHolds
<1>4. /\ typists' \in Seq(Typists) /\ Len(typists') = m /\ m \in Nat /\ typists'[m] = tab.actor
      /\ DOMAIN typists' = DOMAIN typists \cup {m}
      /\ \A n \in DOMAIN typists : typists'[n] = typists[n] /\ n > 0
      /\ \A n \in Int : n > 0 /\ n <= Len(typists) => n \in DOMAIN typists
  BY <1>1, <1>2, <1>3, EditorFacts
<1>5. tab' = [tab EXCEPT !.text = m]
  BY <1>4 DEF Editor!Type
<1>6. /\ tab' \in TabRecord /\ tab'.text = m /\ tab'.actor = tab.actor /\ tab'.draft = tab.draft
      /\ tab'.base = tab.base /\ tab'.next = tab.next
  <2>1. tab \in TabRecord /\ m \in Int
    BY <1>4, EditorFacts
  <2> QED BY <1>5, <2>1 DEF TabRecord
<1>7. TabHolds(tab', server)
  BY <1>2, <1>6 DEF EditorInv, TabHolds
<1>8. Own(tab'.text, tab'.actor, server, typists')
  BY <1>4, <1>6 DEF Own
<1>9. ASSUME NEW n \in Int, NEW a, Own(n, a, server, typists) PROVE Own(n, a, server, typists')
  BY <1>1, <1>4, <1>9 DEF Own
<1>10. BuffersHold(kept, server, typists')
  BY <1>9, BufferFacts, EditorFacts DEF BuffersHold
<1>11. ASSUME NEW n \in DOMAIN typists' PROVE IsKept(n, tab', kept, server, typists', passed')
  <2>1. CASE n = m
    BY <1>6, <2>1 DEF IsKept
  <2>2. CASE n \in DOMAIN typists
    <3>1. IsKept(n, tab, kept, server, typists, passed)
      BY <2>2 DEF EditorInv
    <3>2. tab.text = n => n \in WrittenIn(server) \/ n \in passed'
      <4>1. CASE Editor!Unsaved
        BY <1>2, <4>1
      <4>2. CASE ~Editor!Unsaved
        BY <1>4, <2>2, <4>2, EditorFacts
      <4> QED BY <4>1, <4>2
    <3>3. passed \subseteq passed'
      BY <1>2
    <3> QED BY <1>4, <2>2, <3>1, <3>2, <3>3 DEF IsKept
  <2> QED BY <1>4, <2>1, <2>2
<1> QED BY <1>2, <1>4, <1>7, <1>8, <1>10, <1>11 DEF EditorInv

\* A revision is added and nothing else of what is kept changes.
LEMMA ServerGrew ==
    ASSUME EditorInv, NEW d \in DOMAIN server, NEW text \in Int, server' = [server EXCEPT ![d] = Append(@, text)],
           UNCHANGED <<tab, kept, sent, typists, passed, sessions>>, others' \in Nat,
           \A save \in settled' : save \in settled \/
               (save \in SaveRecord /\ save.draft = d /\ save.version = Len(server[d]) /\ save.text = text)
    PROVE  EditorInv'
<1>1. PICK u : u = Added(server, d, text)
  OBVIOUS
<1>2. Revisions(server)
  BY DEF EditorInv
<1>3. /\ Revisions(u) /\ DOMAIN u = DOMAIN server /\ WrittenIn(server) \subseteq WrittenIn(u)
      /\ Len(u[d]) = Len(server[d]) + 1 /\ u[d][Len(server[d]) + 1] = text
      /\ \A save : SettledHolds(save, server) => SettledHolds(save, u)
  BY <1>1, <1>2, RevisionsGrow
<1>4. server' = u
  BY <1>1 DEF Added
<1>5. Revisions(server')
  BY <1>3, <1>4
<1>6. \A n, a : Own(n, a, server, typists) => Own(n, a, u, typists)
  BY <1>3 DEF Own
<1>7. TabHolds(tab, u) /\ Own(tab.text, tab.actor, u, typists)
  BY <1>3, <1>6 DEF EditorInv, TabHolds
<1>8. BuffersHold(kept, u, typists)
  BY <1>3, <1>6 DEF EditorInv, BuffersHold
<1>9. \A save \in sent : save \in SaveRecord /\ save.draft \in DOMAIN u
  BY <1>3 DEF EditorInv
<1>10. ASSUME NEW save \in settled' PROVE SettledHolds(save, u)
  <2>1. CASE save \in settled
    BY <1>3, <2>1 DEF EditorInv
  <2>2. CASE save \in SaveRecord /\ save.draft = d /\ save.version = Len(server[d]) /\ save.text = text
    <3>1. server[d] \in Seq(Int)
      BY <1>2 DEF Revisions
    <3> QED BY <1>3, <2>2, <3>1 DEF SettledHolds
  <2> QED BY <2>1, <2>2
<1>11. ASSUME NEW n \in DOMAIN typists PROVE IsKept(n, tab, kept, u, typists, passed)
  <2>1. IsKept(n, tab, kept, server, typists, passed)
    BY DEF EditorInv
  <2> QED BY <1>3, <2>1 DEF IsKept
<1> QED BY <1>4, <1>5, <1>7, <1>8, <1>9, <1>10, <1>11 DEF EditorInv

LEMMA OthersEdited ==
    ASSUME EditorInv, NEW d \in DOMAIN server, Editor!OtherEdits(d)
    PROVE  EditorInv'
<1>1. others \in Nat
  BY DEF EditorInv
<1>2. -others - 1 \in Int /\ others + 1 \in Nat
  BY <1>1
<1>3. server' = [server EXCEPT ![d] = Append(@, -others - 1)] /\ others' = others + 1
      /\ UNCHANGED <<settled, tab, kept, sent, typists, passed, sessions>>
  BY DEF Editor!OtherEdits
<1> QED BY <1>2, <1>3, ServerGrew

LEMMA SaveWritten ==
    ASSUME EditorInv, NEW save \in sent, Editor!EditDraft(save)
    PROVE  EditorInv'
<1>1. save \in SaveRecord /\ save.draft \in DOMAIN server /\ others \in Nat
  BY DEF EditorInv
<1>2. PICK d, text : d = save.draft /\ text = save.text
  OBVIOUS
<1>3. d \in DOMAIN server /\ text \in Int /\ save.version = Len(server[d])
  BY <1>1, <1>2 DEF SaveRecord, Editor!EditDraft, Editor!Fits, Editor!Version
<1>4. server' = [server EXCEPT ![d] = Append(@, text)] /\ settled' = settled \cup {save}
      /\ UNCHANGED <<tab, kept, sent, typists, passed, others, sessions>>
  BY <1>2 DEF Editor!EditDraft
<1>5. \A s \in settled' : s \in settled \/
          (s \in SaveRecord /\ s.draft = d /\ s.version = Len(server[d]) /\ s.text = text)
  BY <1>1, <1>2, <1>3, <1>4
<1> QED BY <1>1, <1>3, <1>4, <1>5, ServerGrew

\* The editor goes on with the same text.
LEMMA SameText ==
    ASSUME EditorInv, UNCHANGED <<server, settled, kept, typists, passed, others, sessions>>,
           \A save \in sent' : save \in SaveRecord /\ save.draft \in DOMAIN server,
           TabHolds(tab', server), tab'.text = tab.text, tab'.actor = tab.actor
    PROVE  EditorInv'
<1>1. Own(tab'.text, tab'.actor, server, typists)
  BY DEF EditorInv
<1>2. \A n \in DOMAIN typists : IsKept(n, tab, kept, server, typists, passed) =>
                                IsKept(n, tab', kept', server, typists, passed')
  BY DEF IsKept
<1> QED BY <1>1, <1>2, TextsStay DEF EditorInv

LEMMA SaveSent ==
    ASSUME EditorInv, NEW next \in DOMAIN server \cup {Editor!None}, Editor!SaveRevision(next)
    PROVE  EditorInv'
<1>1. PICK f : f = Editor!Fingerprint
  OBVIOUS
<1>2. Editor!Unsaved /\ sent' = sent \cup {f} /\ UNCHANGED <<server, settled, kept, typists, passed, others, sessions>>
  BY <1>1 DEF Editor!SaveRevision
<1>3. tab.draft \in DOMAIN server /\ tab.draft \in Names
  BY <1>2, EditorFacts, DraftsAreNamed
<1>4. f \in SaveRecord /\ f.draft = tab.draft
  <2>1. sessions \in Nat
    BY DEF EditorInv
  <2> QED BY <1>1, <1>3, <2>1, EditorFacts DEF Editor!Fingerprint, SaveRecord, TabRecord
<1>5. tab' = [tab EXCEPT !.awaits = TRUE, !.next = next]
  BY DEF Editor!SaveRevision
<1>6. next \in Names \cup {Editor!None}
  BY DraftsAreNamed
<1>7. tab \in TabRecord
  BY EditorFacts
<1>8. /\ tab' \in TabRecord /\ tab'.text = tab.text /\ tab'.actor = tab.actor /\ tab'.draft = tab.draft
      /\ tab'.base = tab.base /\ tab'.next = next
  BY <1>5, <1>6, <1>7 DEF TabRecord
<1>9. TabHolds(tab', server)
  BY <1>8 DEF EditorInv, TabHolds
<1>10. \A save \in sent' : save \in SaveRecord /\ save.draft \in DOMAIN server
  BY <1>2, <1>3, <1>4 DEF EditorInv
<1> QED BY <1>2, <1>8, <1>9, <1>10, SameText

LEMMA WaitingStopped ==
    ASSUME EditorInv, NEW save \in sent, Editor!Refused(save) \/ Editor!GiveUp(save) \/ Editor!Vanishes(save)
    PROVE  EditorInv'
<1>1. sent' \subseteq sent /\ UNCHANGED <<server, settled, kept, typists, passed, others, sessions>>
  BY DEF Editor!Refused, Editor!GiveUp, Editor!Vanishes
<1>2. \A s \in sent' : s \in SaveRecord /\ s.draft \in DOMAIN server
  BY <1>1 DEF EditorInv
<1>3. tab \in TabRecord /\ TabHolds(tab, server)
  BY DEF EditorInv, TabHolds
<1>4. PICK t : t = [tab EXCEPT !.awaits = FALSE, !.next = Editor!None]
  OBVIOUS
<1>5. /\ t \in TabRecord /\ t.text = tab.text /\ t.actor = tab.actor /\ t.draft = tab.draft
      /\ t.base = tab.base /\ t.next = Editor!None
  BY <1>3, <1>4 DEF TabRecord
<1>6. TabHolds(t, server)
  BY <1>3, <1>5 DEF TabHolds
<1>7. tab' = t \/ tab' = tab
  BY <1>4 DEF Editor!Refused, Editor!GiveUp, Editor!Vanishes, Editor!StopsWaiting
<1> QED BY <1>1, <1>2, <1>3, <1>5, <1>6, <1>7, SameText

\* What was saved is written, and a buffer that is forgotten with it was passed by.
LEMMA SaveAnswered ==
    ASSUME EditorInv, NEW save \in sent, Editor!Saved(save)
    PROVE  EditorInv'
<1>1. /\ tab.actor # Editor!None /\ tab.awaits /\ save = Editor!Fingerprint /\ save \in settled
      /\ kept' = Editor!Forgotten /\ sent' \subseteq sent /\ passed' = passed \cup (Editor!PassedBy(Editor!Here) \ {save.text})
      /\ UNCHANGED <<server, settled, typists, others, sessions>>
  BY DEF Editor!Saved, Editor!Awaited
<1>2. save.text = tab.text /\ save.draft = tab.draft
  BY <1>1 DEF Editor!Fingerprint
<1>3. SettledHolds(save, server) /\ tab \in TabRecord /\ TabHolds(tab, server)
  BY <1>1 DEF EditorInv, TabHolds
<1>4. tab.actor \in Typists /\ tab.draft \in DOMAIN server
  BY <1>1, <1>2, <1>3 DEF SettledHolds, TabRecord
<1>5. tab.text \in WrittenIn(server)
  <2>1. server[save.draft] \in Seq(Int) /\ save.draft \in DOMAIN server
    BY <1>3 DEF SettledHolds, EditorInv, Revisions
  <2>2. /\ save.version \in Nat /\ save.version < Len(server[save.draft])
        /\ server[save.draft][save.version + 1] = save.text
    BY <1>3 DEF SettledHolds, SaveRecord
  <2>3. save.version + 1 \in DOMAIN server[save.draft]
    BY <2>1, <2>2
  <2> QED BY <1>2, <2>1, <2>2, <2>3 DEF WrittenIn
<1>6. /\ BuffersHold(kept', server, typists)
      /\ \A n \in DOMAIN typists, e \in DOMAIN server : kept[<<typists[n], e>>].text = n =>
             kept'[<<typists[n], e>>].text = n \/ kept[Editor!Here].text = n
  BY <1>1, <1>4, BufferForgotten
<1>7. ASSUME NEW n \in DOMAIN typists, IsKept(n, tab, kept, server, typists, passed)
      PROVE  IsKept(n, tab', kept', server, typists, passed')
  <2>1. kept[Editor!Here].text = n => n \in passed' \/ n \in WrittenIn(server)
    BY <1>1, <1>2, <1>5 DEF Editor!PassedBy
  <2>2. passed \subseteq passed'
    BY <1>1
  <2> QED BY <1>5, <1>6, <1>7, <2>1, <2>2 DEF IsKept
<1>8. TabHolds(tab', server) /\ Own(tab'.text, tab'.actor, server, typists)
  <2>1. CASE tab.next # Editor!None
    <3>1. tab' = Editor!Applied(tab.next) /\ tab.next \in DOMAIN server
      BY <1>3, <2>1 DEF Editor!Saved, TabHolds
    <3> QED BY <1>1, <1>4, <3>1, AppliedHolds DEF Own
  <2>2. CASE tab.next = Editor!None
    <3>1. PICK v : v = tab.version + 1
      OBVIOUS
    <3>2. v \in Nat
      BY <1>3, <3>1 DEF TabRecord
    <3>3. tab' = [tab EXCEPT !.version = v, !.base = tab.text, !.awaits = FALSE]
      BY <2>2, <3>1 DEF Editor!Saved
    <3>4. /\ tab' \in TabRecord /\ tab'.text = tab.text /\ tab'.actor = tab.actor /\ tab'.draft = tab.draft
          /\ tab'.base = tab.text /\ tab'.next = tab.next
      BY <1>3, <3>2, <3>3 DEF TabRecord
    <3>5. tab.draft # Editor!None
      BY <1>4, DraftsAreNamed
    <3> QED BY <1>3, <1>4, <1>5, <3>4, <3>5 DEF TabHolds, Own
  <2> QED BY <2>1, <2>2
<1>9. \A s \in sent' : s \in SaveRecord /\ s.draft \in DOMAIN server
  BY <1>1 DEF EditorInv
<1> QED BY <1>1, <1>6, <1>7, <1>8, <1>9, TextsStay DEF EditorInv

\* The current revision goes under the text that is shown.
LEMMA FailureExplained ==
    ASSUME EditorInv, Editor!ExplainApprovalFailure
    PROVE  EditorInv'
<1>1. tab.draft # Editor!None /\ UNCHANGED <<server, settled, kept, sent, typists, passed, others, sessions>>
  BY DEF Editor!ExplainApprovalFailure
<1>2. tab \in TabRecord /\ tab.draft \in DOMAIN server /\ tab.actor \in Typists /\ tab.actor # Editor!None
  BY <1>1 DEF EditorInv, TabHolds
<1>3. PICK u : u = Editor!Applied(tab.draft)
  OBVIOUS
<1>4. /\ u \in TabRecord /\ u.actor = tab.actor /\ u.draft = tab.draft /\ u.base \in WrittenIn(server) /\ u.next = Editor!None
  BY <1>2, <1>3, AppliedHolds
<1>5. tab' = [u EXCEPT !.text = tab.text]
  BY <1>3 DEF Editor!ExplainApprovalFailure
<1>6. /\ tab' \in TabRecord /\ tab'.actor = tab.actor /\ tab'.draft = tab.draft /\ tab'.text = tab.text
      /\ tab'.base \in WrittenIn(server) /\ tab'.next = Editor!None
  BY <1>2, <1>4, <1>5 DEF TabRecord
<1>7. TabHolds(tab', server)
  BY <1>1, <1>2, <1>6 DEF TabHolds
<1> QED BY <1>1, <1>6, <1>7, SameText DEF EditorInv

LEMMA EditorStep == EditorInv /\ [Editor!EditorNext]_editorVars => EditorInv'
<1> SUFFICES ASSUME EditorInv, [Editor!EditorNext]_editorVars PROVE EditorInv'
  OBVIOUS
<1>1. CASE UNCHANGED editorVars
  BY <1>1 DEF editorVars, EditorInv
<1>2. CASE \E a \in Typists : Editor!SignIn(a)
  BY <1>2, SignedIn
<1>3. CASE \E d \in DOMAIN server : Editor!OpenFromAddress(d) \/ Editor!OpenFromList(d) \/ Editor!OtherEdits(d)
  BY <1>3, AddressOpened, ListOpened, OthersEdited
<1>4. CASE \E next \in DOMAIN server \cup {Editor!None} : Editor!SaveRevision(next)
  BY <1>4, SaveSent
<1>5. CASE \E save \in sent : Editor!EditDraft(save) \/ Editor!Saved(save) \/ Editor!Refused(save) \/ Editor!GiveUp(save) \/ Editor!Vanishes(save)
  BY <1>5, SaveWritten, SaveAnswered, WaitingStopped
<1>6. CASE Editor!SessionEnds \/ Editor!Type \/ Editor!ExplainApprovalFailure
  BY <1>6, SessionEnded, Typed, FailureExplained
<1> QED BY <1>1, <1>2, <1>3, <1>4, <1>5, <1>6 DEF Editor!EditorNext, Editor!Drafts

LEMMA EditorIsTrue == EditorInv => Editor!EditorKeepsText
<1> SUFFICES ASSUME EditorInv PROVE Editor!EditorKeepsText
  OBVIOUS
<1>1. Editor!Written = WrittenIn(server)
  BY DEF Editor!Written, WrittenIn, Editor!Drafts
<1>2. Editor!TypedTextIsKept
  BY <1>1 DEF EditorInv, IsKept, Editor!TypedTextIsKept, Editor!Drafts
<1>3. Editor!OwnTextOnly
  BY <1>1 DEF EditorInv, Own, Editor!OwnTextOnly
<1>4. Editor!SavesFollowTheirBaseline
  BY DEF EditorInv, SettledHolds, Editor!SavesFollowTheirBaseline, Editor!Version
<1> QED BY <1>2, <1>3, <1>4 DEF Editor!EditorKeepsText

----------------------------------------------------------------------------
\* Bindings of principals, and what the theorem about identities rests on.

VARIABLES bindings, roster, trail, writers, begun, turns
identityBindingVars == <<bindings, roster, trail, writers, begun, turns>>

Bindings == INSTANCE IdentityBinding WITH
    Order <- BindingOrder

\* The rows of a manifest, a binding and the transaction of a tool.
ManifestRow == [workspace : STRING, user : STRING, principal : STRING, proof : STRING, expected : Nat]
BindingRecord == [user : STRING \cup {"chief"}, status : {"active", "revoked"}, version : Nat,
                  proof : STRING \cup {"primary"}]
WriterRecord == [stage : {"idle", "locking", "row", "link", "commit", "told"}, manifest : Seq(ManifestRow),
                 index : Nat, locks : SUBSET STRING, staged : SUBSET ManifestRow, users : SUBSET STRING,
                 linked : SUBSET ManifestRow, report : {"none", "applied", "rejected", "unknown"}]

\* A manifest names a principal once (parse_identity_manifest).
ASSUME BindingAssumption ==
    /\ Manifests \subseteq Seq(ManifestRow)
    /\ \A m \in Manifests : \A i, j \in DOMAIN m : m[i].principal = m[j].principal => i = j

BoundAs(bs, r) == r.principal \in DOMAIN bs /\ bs[r.principal].user = r.user

\* What a transaction has done of its manifest.
Working(w) == w.stage \in {"row", "link", "commit"}
Placed(w) ==
    /\ w.index \in 1..(Len(w.manifest) + 1)
    /\ w.stage = "commit" => w.index = Len(w.manifest) + 1
    /\ w.stage \in {"row", "link"} => w.index <= Len(w.manifest)

\* A transaction that works holds the locks of its rows; what it staged is of
\* its manifest and not bound; each row it passed is bound or staged; and what
\* it links was never audited.
WriterHolds(w, bs, audits) ==
    /\ w.manifest \in Manifests \cup {<<>>}
    /\ w.staged # {} => Working(w)
    /\ w.stage = "idle" => w.report = "none"
    /\ w.stage = "locking" => w.linked = {} /\ w.index = 1 /\ w.report = "none"
    /\ Working(w) =>
          /\ Placed(w) /\ w.report = "none" /\ \A i \in DOMAIN w.manifest : w.manifest[i].workspace \in w.locks
          /\ \A r \in w.linked : r \in Bindings!Rows /\ audits[r] = 0 /\ r.workspace \in w.locks
          /\ \A r \in w.linked : r \in w.staged \/ BoundAs(bs, r)
          /\ w.staged \subseteq w.linked
          /\ \A r \in w.staged : r.principal \notin DOMAIN bs /\ \E i \in DOMAIN w.manifest : w.manifest[i] = r
          /\ \A i \in 1..(w.index - 1) : w.manifest[i] \in w.staged \/ BoundAs(bs, w.manifest[i])
          /\ w.stage = "link" => audits[w.manifest[w.index]] = 0
    /\ w.report = "applied" => \A i \in DOMAIN w.manifest : BoundAs(bs, w.manifest[i])

\* Two transactions hold no lock and have staged no principal in common.
Apart(v, w) ==
    /\ v.locks \cap w.locks = {}
    /\ \A r \in v.staged, s \in w.staged : r.principal # s.principal

\* Whoever is bound was audited, and whoever was audited is bound.
BooksHold(bs, audits) ==
    /\ \A p \in DOMAIN bs : bs[p] \in BindingRecord
    /\ audits \in [Bindings!Rows -> 0..1]
    /\ \A r \in Bindings!Rows : audits[r] = 1 => r.principal \in DOMAIN bs
    /\ \A p \in DOMAIN bs \ {"root"} : \E r \in Bindings!Rows : r.principal = p /\ r.user = bs[p].user /\ audits[r] = 1

BindingInv ==
    /\ BooksHold(bindings, trail)
    /\ writers \in [Tools -> WriterRecord]
    /\ \A t \in Tools : WriterHolds(writers[t], bindings, trail)
    /\ \A t, u \in Tools : t # u => Apart(writers[t], writers[u])

\* Only a transaction moves.
LEMMA WriterMoves ==
    ASSUME BindingInv, NEW t \in Tools, NEW w \in WriterRecord,
           writers' = [writers EXCEPT ![t] = w], UNCHANGED <<bindings, trail>>,
           WriterHolds(w, bindings, trail),
           \A u \in Tools \ {t} : Apart(writers[u], w)
    PROVE  BindingInv'
<1>1. writers' \in [Tools -> WriterRecord] /\ \A u \in Tools : writers'[u] = IF u = t THEN w ELSE writers[u]
  BY DEF BindingInv
<1>2. \A u \in Tools \ {t} : Apart(w, writers[u])
  BY DEF Apart
<1>3. \A u, v \in Tools : u # v => Apart(writers'[u], writers'[v])
  BY <1>1, <1>2 DEF BindingInv
<1>4. \A u \in Tools : WriterHolds(writers'[u], bindings, trail)
  BY <1>1 DEF BindingInv
<1> QED BY <1>1, <1>3, <1>4 DEF BindingInv

LEMMA FreeIsTyped == Bindings!Free \in WriterRecord
BY DEF Bindings!Free, WriterRecord

LEMMA BatchBegun ==
    ASSUME BindingInv, NEW t \in Tools, NEW manifest \in Manifests, Bindings!Begin(t, manifest)
    PROVE  BindingInv'
<1>1. PICK w : w = [Bindings!Free EXCEPT !.stage = "locking", !.manifest = manifest]
  OBVIOUS
<1>2. w \in WriterRecord /\ w.manifest = manifest /\ w.stage = "locking" /\ w.staged = {}
      /\ w.locks = {} /\ w.report = "none" /\ w.linked = {} /\ w.index = 1
  BY <1>1, BindingAssumption DEF Bindings!Free, WriterRecord
<1>3. WriterHolds(w, bindings, trail)
  BY <1>2 DEF WriterHolds, Working
<1>4. \A u \in Tools \ {t} : Apart(writers[u], w)
  BY <1>2 DEF Apart
<1>5. writers' = [writers EXCEPT ![t] = w] /\ UNCHANGED <<bindings, trail>>
  BY <1>1 DEF Bindings!Begin
<1> QED BY <1>2, <1>3, <1>4, <1>5, WriterMoves

\* A transaction ends, or a report is put away.
LEMMA WriterEnds ==
    ASSUME BindingInv, NEW t \in Tools, NEW report \in {"rejected", "unknown"}, Bindings!End(t, report),
           UNCHANGED <<bindings, trail>>
    PROVE  BindingInv'
<1>1. PICK q : q = writers[t]
  OBVIOUS
<1>2. q \in WriterRecord /\ WriterHolds(q, bindings, trail)
  BY <1>1 DEF BindingInv
<1>3. PICK w : w = [Bindings!Free EXCEPT !.manifest = q.manifest, !.stage = "told", !.report = report, !.linked = q.linked]
  OBVIOUS
<1>4. w \in WriterRecord /\ w.manifest = q.manifest /\ w.stage = "told" /\ w.report = report /\ w.staged = {} /\ w.locks = {}
  BY <1>2, <1>3 DEF Bindings!Free, WriterRecord
<1>5. WriterHolds(w, bindings, trail)
  BY <1>2, <1>4 DEF WriterHolds, Working
<1>6. \A u \in Tools \ {t} : Apart(writers[u], w)
  BY <1>4 DEF Apart
<1>7. writers' = [writers EXCEPT ![t] = w]
  BY <1>1, <1>3 DEF Bindings!End
<1> QED BY <1>4, <1>5, <1>6, <1>7, WriterMoves

LEMMA ReportPutAway ==
    ASSUME BindingInv, NEW t \in Tools, Bindings!Rerun(t)
    PROVE  BindingInv'
<1>1. WriterHolds(Bindings!Free, bindings, trail) /\ \A u \in Tools \ {t} : Apart(writers[u], Bindings!Free)
  BY DEF WriterHolds, Working, Apart, Bindings!Free
<1>2. writers' = [writers EXCEPT ![t] = Bindings!Free] /\ UNCHANGED <<bindings, trail>>
  BY DEF Bindings!Rerun
<1> QED BY <1>1, <1>2, FreeIsTyped, WriterMoves

LEMMA WorkspaceLocked ==
    ASSUME BindingInv, NEW t \in Tools, Bindings!LockAdmin(t)
    PROVE  BindingInv'
<1>1. PICK q : q = writers[t]
  OBVIOUS
<1>2. q \in WriterRecord /\ WriterHolds(q, bindings, trail) /\ q.stage = "locking"
  BY <1>1 DEF BindingInv, Bindings!LockAdmin
<1>3. PICK place \in Bindings!Lockable(t) :
         writers' = [writers EXCEPT ![t].locks = @ \cup {place},
                                    ![t].stage = IF Bindings!Wanted(t) \ (writers[t].locks \cup {place}) = {} THEN "row" ELSE @]
  BY DEF Bindings!LockAdmin
<1>4. Bindings!Wanted(t) = {q.manifest[i].workspace : i \in DOMAIN q.manifest}
  BY <1>1 DEF Bindings!Wanted, Bindings!Range
<1>5. place \in Bindings!Wanted(t) /\ place \in STRING /\ \A u \in Tools \ {t} : place \notin writers[u].locks
  <2>1. place \in Bindings!Wanted(t)
    BY <1>3 DEF Bindings!Lockable, Bindings!Turn
  <2>2. \A u \in Tools \ {t} : place \notin writers[u].locks
    BY <1>3 DEF Bindings!Lockable, Bindings!Others
  <2>3. q.manifest \in Seq(ManifestRow)
    BY <1>2 DEF WriterRecord
  <2>4. PICK i \in DOMAIN q.manifest : place = q.manifest[i].workspace
    BY <1>4, <2>1
  <2>5. q.manifest[i] \in ManifestRow
    BY <2>3
  <2> QED BY <2>1, <2>2, <2>4, <2>5 DEF ManifestRow
<1>6. PICK ls, st : ls = q.locks \cup {place} /\ st = IF Bindings!Wanted(t) \ ls = {} THEN "row" ELSE "locking"
  OBVIOUS
<1>7. PICK w : w = [q EXCEPT !.locks = ls, !.stage = st]
  OBVIOUS
<1>8. ls \in SUBSET STRING /\ st \in {"row", "locking"}
  BY <1>2, <1>5, <1>6 DEF WriterRecord
<1>9. w \in WriterRecord /\ w.locks = ls /\ w.stage = st /\ w.manifest = q.manifest /\ w.staged = q.staged
      /\ w.linked = q.linked /\ w.report = q.report /\ w.index = q.index
  BY <1>2, <1>7, <1>8 DEF WriterRecord
<1>10. writers' = [writers EXCEPT ![t] = w]
  <2>1. PICK v : v = [q EXCEPT !.locks = ls]
    OBVIOUS
  <2>2. v \in WriterRecord /\ v.stage = "locking" /\ w = [v EXCEPT !.stage = st]
    BY <1>2, <1>7, <1>8, <2>1 DEF WriterRecord
  <2>3. PICK ws : ws = [writers EXCEPT ![t].locks = @ \cup {place}]
    OBVIOUS
  <2>4. ws = [writers EXCEPT ![t] = v] /\ ws[t] = v
    BY <1>1, <1>6, <2>1, <2>3 DEF BindingInv
  <2>5. writers' = [ws EXCEPT ![t].stage = st]
    <3>1. Bindings!Wanted(t) \ (writers[t].locks \cup {place}) = {} <=> st = "row"
      BY <1>1, <1>6
    <3>2. ASSUME st = "row" PROVE writers' = [ws EXCEPT ![t].stage = st]
      BY <1>3, <2>3, <3>1, <3>2
    <3>3. ASSUME st # "row" PROVE writers' = [ws EXCEPT ![t].stage = @]
      BY <1>3, <2>3, <3>1, <3>3
    <3>4. st # "row" => ws[t].stage = st
      BY <1>6, <2>2, <2>4
    <3> QED BY <3>2, <3>3, <3>4
  <2> QED BY <2>2, <2>4, <2>5 DEF BindingInv
<1>11. WriterHolds(w, bindings, trail)
  <2>1. CASE st = "locking"
    BY <1>2, <1>9, <2>1 DEF WriterHolds, Working
  <2>2. CASE st = "row"
    <3>1. \A i \in DOMAIN q.manifest : q.manifest[i].workspace \in ls
      BY <1>4, <1>6, <2>2
    <3>2. Len(q.manifest) \in Nat /\ DOMAIN q.manifest = 1..Len(q.manifest) /\ DOMAIN q.manifest # {}
      BY <1>2, <1>4, <1>5 DEF WriterRecord
    <3>3. q.index = 1 /\ q.linked = {} /\ q.staged = {} /\ q.report = "none"
      BY <1>2 DEF WriterHolds, Working
    <3>4. Placed(w)
      BY <1>9, <2>2, <3>2, <3>3 DEF Placed
    <3> QED BY <1>2, <1>9, <2>2, <3>1, <3>3, <3>4 DEF WriterHolds
  <2> QED BY <1>8, <2>1, <2>2
<1>12. \A u \in Tools \ {t} : Apart(writers[u], w)
  BY <1>1, <1>5, <1>6, <1>9 DEF BindingInv, Apart
<1> QED BY <1>9, <1>10, <1>11, <1>12, WriterMoves DEF Bindings!LockAdmin

\* A row is passed: what the transaction then has staged and linked.
Passes(q, v) ==
    /\ v.manifest = q.manifest /\ v.index = q.index /\ v.locks = q.locks /\ v.report = "none"
    /\ q.staged \subseteq v.staged /\ v.staged \subseteq v.linked
    /\ v.manifest[q.index] \in v.staged \/ BoundAs(bindings, v.manifest[q.index])
    /\ \A r \in v.linked : r \in Bindings!Rows /\ trail[r] = 0 /\ r.workspace \in v.locks
    /\ \A r \in v.linked : r \in v.staged \/ BoundAs(bindings, r)
    /\ \A r \in v.staged : r.principal \notin DOMAIN bindings /\ \E i \in DOMAIN v.manifest : v.manifest[i] = r

LEMMA RowDone ==
    ASSUME BindingInv, NEW t \in Tools, NEW v \in WriterRecord, writers[t].stage \in {"row", "link"},
           Passes(writers[t], v), Bindings!Done(t, v), UNCHANGED <<bindings, trail>>,
           \A u \in Tools \ {t} : Apart(writers[u], v)
    PROVE  BindingInv'
<1>1. PICK q : q = writers[t]
  OBVIOUS
<1>2. q \in WriterRecord /\ WriterHolds(q, bindings, trail) /\ Passes(q, v) /\ q.stage \in {"row", "link"}
  BY <1>1 DEF BindingInv
<1>3. /\ q.index \in 1..Len(q.manifest) /\ Len(q.manifest) \in Nat /\ v.index = q.index /\ v.manifest = q.manifest
      /\ \A i \in DOMAIN q.manifest : q.manifest[i].workspace \in q.locks
      /\ \A i \in 1..(q.index - 1) : q.manifest[i] \in q.staged \/ BoundAs(bindings, q.manifest[i])
      /\ q.manifest \in Manifests \cup {<<>>} /\ DOMAIN q.manifest = 1..Len(q.manifest)
  <2>1. q.manifest \in Seq(ManifestRow)
    BY <1>2 DEF WriterRecord
  <2> QED BY <1>2, <2>1 DEF WriterHolds, Working, Placed, Passes
<1>4. PICK n \in Nat, st \in {"row", "commit"} : n = q.index + 1
         /\ st = IF q.index = Len(q.manifest) THEN "commit" ELSE "row"
  <2>1. q.index + 1 \in Nat
    BY <1>3
  <2>2. (IF q.index = Len(q.manifest) THEN "commit" ELSE "row") \in {"row", "commit"}
    OBVIOUS
  <2> QED BY <2>1, <2>2
<1>5. PICK w : w = [v EXCEPT !.index = n, !.stage = st]
  OBVIOUS
<1>6. w \in WriterRecord /\ w.index = n /\ w.stage = st /\ w.manifest = v.manifest /\ w.staged = v.staged
      /\ w.linked = v.linked /\ w.report = v.report /\ w.locks = v.locks
  BY <1>4, <1>5 DEF WriterRecord
<1>7. writers' = [writers EXCEPT ![t] = w]
  BY <1>1, <1>3, <1>4, <1>5 DEF Bindings!Done
<1>8. Placed(w)
  BY <1>3, <1>4, <1>6 DEF Placed
<1>9. \A i \in 1..(n - 1) : q.manifest[i] \in v.staged \/ BoundAs(bindings, q.manifest[i])
  <2>1. ASSUME NEW i \in 1..(n - 1) PROVE i \in 1..(q.index - 1) \/ i = q.index
    BY <1>3, <1>4
  <2> QED BY <1>2, <1>3, <2>1 DEF Passes
<1>10. WriterHolds(w, bindings, trail)
  <2>1. w.manifest = q.manifest /\ w.index - 1 = n - 1 /\ w.stage \in {"row", "commit"}
    BY <1>3, <1>4, <1>6
  <2>2. \A i \in 1..(w.index - 1) : w.manifest[i] \in w.staged \/ BoundAs(bindings, w.manifest[i])
    BY <1>6, <1>9, <2>1
  <2>3. /\ \A r \in w.linked : r \in Bindings!Rows /\ trail[r] = 0 /\ r.workspace \in w.locks
        /\ \A r \in w.linked : r \in w.staged \/ BoundAs(bindings, r)
        /\ w.staged \subseteq w.linked /\ w.report = "none"
        /\ \A r \in w.staged : r.principal \notin DOMAIN bindings /\ \E i \in DOMAIN w.manifest : w.manifest[i] = r
    BY <1>2, <1>6 DEF Passes
  <2>4. \A i \in DOMAIN w.manifest : w.manifest[i].workspace \in w.locks
    BY <1>2, <1>3, <1>6, <2>1 DEF Passes
  <2> QED BY <1>3, <1>8, <2>1, <2>2, <2>3, <2>4 DEF WriterHolds, Working
<1>11. \A u \in Tools \ {t} : Apart(writers[u], w)
  BY <1>6 DEF Apart
<1> QED BY <1>6, <1>7, <1>10, <1>11, WriterMoves

\* What a working transaction knows of the row it is at.
LEMMA RowIsHeld ==
    ASSUME BindingInv, NEW t \in Tools, writers[t].stage \in {"row", "link"}
    PROVE  /\ writers[t] \in WriterRecord /\ Bindings!Row(t) \in ManifestRow /\ Bindings!Row(t) \in Bindings!Rows
           /\ Bindings!Row(t).workspace \in writers[t].locks
           /\ \E i \in DOMAIN writers[t].manifest : writers[t].manifest[i] = Bindings!Row(t)
           /\ writers[t].stage = "link" => trail[Bindings!Row(t)] = 0
<1>1. PICK q : q = writers[t]
  OBVIOUS
<1>2. q \in WriterRecord /\ WriterHolds(q, bindings, trail) /\ Working(q)
  BY <1>1 DEF BindingInv, Working
<1>3. q.manifest \in Seq(ManifestRow) /\ q.manifest \in Manifests \cup {<<>>} /\ q.index \in DOMAIN q.manifest
  <2>1. q.manifest \in Seq(ManifestRow) /\ q.manifest \in Manifests \cup {<<>>}
    BY <1>2 DEF WriterRecord, WriterHolds
  <2>2. q.index \in 1..Len(q.manifest)
    BY <1>1, <1>2, <2>1 DEF WriterHolds, Placed
  <2> QED BY <2>1, <2>2
<1>4. q.manifest \in Manifests
  BY <1>3
<1>5. q.manifest[q.index] \in ManifestRow /\ q.manifest[q.index] \in Bindings!Rows
  BY <1>3, <1>4 DEF Bindings!Rows, Bindings!Range
<1> QED BY <1>1, <1>2, <1>3, <1>5 DEF Bindings!Row, WriterHolds

LEMMA RowRead ==
    ASSUME BindingInv, NEW t \in Tools, Bindings!ReadRow(t)
    PROVE  BindingInv'
<1>1. PICK q, r : q = writers[t] /\ r = Bindings!Row(t)
  OBVIOUS
<1>2. /\ q \in WriterRecord /\ WriterHolds(q, bindings, trail) /\ q.stage = "row"
      /\ r = q.manifest[q.index] /\ r \in Bindings!Rows
      /\ UNCHANGED <<bindings, trail>>
  BY <1>1, RowIsHeld DEF BindingInv, Bindings!ReadRow, Bindings!Row
<1>3. CASE Bindings!End(t, "rejected")
  BY <1>2, <1>3, WriterEnds
<1>4. CASE /\ r.principal \in DOMAIN bindings /\ Bindings!SameBinding(bindings[r.principal], r)
           /\ Bindings!Done(t, writers[t])
  <2>1. Passes(q, q)
    BY <1>2, <1>4 DEF WriterHolds, Working, Passes, BoundAs, Bindings!SameBinding
  <2>2. \A u \in Tools \ {t} : Apart(writers[u], q)
    BY <1>1 DEF BindingInv
  <2> QED BY <1>1, <1>2, <1>4, <2>1, <2>2, RowDone
<1>5. CASE r.principal \notin DOMAIN bindings /\ writers' = [writers EXCEPT ![t].stage = "link"]
  <2>1. PICK w : w = [q EXCEPT !.stage = "link"]
    OBVIOUS
  <2>2. w \in WriterRecord /\ w.index = q.index /\ w.stage = "link" /\ w.manifest = q.manifest /\ w.staged = q.staged
        /\ w.linked = q.linked /\ w.report = q.report /\ w.locks = q.locks
    BY <1>2, <2>1 DEF WriterRecord
  <2>3. trail[r] = 0
    BY <1>2, <1>5 DEF BindingInv, BooksHold
  <2>4. Placed(q) => Placed(w)
    BY <1>2, <2>2 DEF Placed
  <2>5. WriterHolds(w, bindings, trail)
    BY <1>2, <2>2, <2>3, <2>4 DEF WriterHolds, Working
  <2>6. \A u \in Tools \ {t} : Apart(writers[u], w)
    BY <1>1, <2>2 DEF BindingInv, Apart
  <2>7. writers' = [writers EXCEPT ![t] = w]
    BY <1>1, <1>5, <2>1
  <2> QED BY <1>2, <2>2, <2>5, <2>6, <2>7, WriterMoves
<1> QED BY <1>1, <1>3, <1>4, <1>5 DEF Bindings!ReadRow

LEMMA RowLinked ==
    ASSUME BindingInv, NEW t \in Tools, Bindings!LinkRow(t)
    PROVE  BindingInv'
<1>1. PICK q, r : q = writers[t] /\ r = Bindings!Row(t)
  OBVIOUS
<1>2. /\ q \in WriterRecord /\ WriterHolds(q, bindings, trail) /\ q.stage = "link"
      /\ r = q.manifest[q.index] /\ r \in Bindings!Rows /\ r \in ManifestRow /\ r.workspace \in q.locks /\ trail[r] = 0
      /\ \E i \in DOMAIN q.manifest : q.manifest[i] = r
      /\ UNCHANGED <<bindings, trail>>
  BY <1>1, RowIsHeld DEF BindingInv, Bindings!LinkRow, Bindings!Row
<1>3. \A u \in Tools \ {t} : \A s \in writers[u].staged : s.principal # r.principal
  BY <1>1 DEF Bindings!LinkRow, Bindings!Blockers, Bindings!Others
<1>4. PICK v : v = [q EXCEPT !.users = @ \cup {r.user}, !.linked = @ \cup {r}]
  OBVIOUS
<1>5. v \in WriterRecord /\ v.index = q.index /\ v.manifest = q.manifest /\ v.staged = q.staged
      /\ v.linked = q.linked \cup {r} /\ v.report = q.report /\ v.locks = q.locks /\ v.stage = q.stage
  <2>1. PICK us \in SUBSET STRING, ls \in SUBSET ManifestRow : us = q.users \cup {r.user} /\ ls = q.linked \cup {r}
    BY <1>2 DEF WriterRecord, ManifestRow
  <2>2. v = [q EXCEPT !.users = us, !.linked = ls]
    BY <1>4, <2>1
  <2> QED BY <1>2, <2>1, <2>2 DEF WriterRecord
<1>6. CASE Bindings!End(t, "rejected")
  BY <1>2, <1>6, WriterEnds
<1>7. CASE r.principal \in DOMAIN bindings /\ Bindings!SameBinding(bindings[r.principal], r) /\ Bindings!Done(t, v)
  <2>1. Passes(q, v)
    BY <1>2, <1>5, <1>7 DEF WriterHolds, Working, Passes, BoundAs, Bindings!SameBinding
  <2>2. \A u \in Tools \ {t} : Apart(writers[u], v)
    BY <1>1, <1>5 DEF BindingInv, Apart
  <2> QED BY <1>1, <1>2, <1>5, <1>7, <2>1, <2>2, RowDone
<1>8. CASE r.principal \notin DOMAIN bindings /\ Bindings!Done(t, [v EXCEPT !.staged = @ \cup {r}])
  <2>1. PICK ss \in SUBSET ManifestRow : ss = q.staged \cup {r}
    BY <1>2 DEF WriterRecord
  <2>2. PICK w : w = [v EXCEPT !.staged = ss]
    OBVIOUS
  <2>3. w \in WriterRecord /\ w.index = q.index /\ w.manifest = q.manifest /\ w.staged = ss
        /\ w.linked = q.linked \cup {r} /\ w.report = q.report /\ w.locks = q.locks
    BY <1>5, <2>1, <2>2 DEF WriterRecord
  <2>4. Bindings!Done(t, w)
    BY <1>5, <1>8, <2>1, <2>2
  <2>5. Passes(q, w)
    BY <1>2, <1>8, <2>1, <2>3 DEF WriterHolds, Working, Passes
  <2>6. \A u \in Tools \ {t} : Apart(writers[u], w)
    BY <1>1, <1>3, <2>1, <2>3 DEF BindingInv, Apart
  <2> QED BY <1>1, <1>2, <2>3, <2>4, <2>5, <2>6, RowDone
<1> QED BY <1>1, <1>4, <1>6, <1>7, <1>8 DEF Bindings!LinkRow

\* Bindings are only added, and keep their user.
Extends(bs, cs) == DOMAIN bs \subseteq DOMAIN cs /\ \A p \in DOMAIN bs : cs[p].user = bs[p].user

\* The rows of a transaction are audited by nobody else while it works.
LEMMA WriterStays ==
    ASSUME NEW w \in WriterRecord, NEW bs, NEW cs, NEW audits, NEW news, Extends(bs, cs), WriterHolds(w, bs, audits),
           \A r \in w.staged : r.principal \notin DOMAIN cs,
           \A r \in Bindings!Rows : r.workspace \in w.locks => news[r] = audits[r]
    PROVE  WriterHolds(w, cs, news)
<1>1. \A r : BoundAs(bs, r) => BoundAs(cs, r)
  BY DEF BoundAs, Extends
<1>2. ASSUME w.stage = "link" PROVE w.manifest[w.index] \in Bindings!Rows /\ w.manifest[w.index].workspace \in w.locks
  <2>1. w.manifest \in Seq(ManifestRow) /\ w.manifest \in Manifests \cup {<<>>} /\ w.index \in 1..Len(w.manifest)
    BY <1>2 DEF WriterRecord, WriterHolds, Working, Placed
  <2>2. w.index \in DOMAIN w.manifest /\ w.manifest \in Manifests
    BY <2>1
  <2>3. w.manifest[w.index] \in Bindings!Rows
    BY <2>2 DEF Bindings!Rows, Bindings!Range
  <2> QED BY <1>2, <2>2, <2>3 DEF WriterHolds, Working
<1>3. ASSUME Working(w)
      PROVE  /\ \A r \in w.linked : r \in Bindings!Rows /\ news[r] = 0 /\ r.workspace \in w.locks
             /\ \A r \in w.linked : r \in w.staged \/ BoundAs(cs, r)
             /\ \A r \in w.staged : r.principal \notin DOMAIN cs /\ \E i \in DOMAIN w.manifest : w.manifest[i] = r
             /\ \A i \in 1..(w.index - 1) : w.manifest[i] \in w.staged \/ BoundAs(cs, w.manifest[i])
             /\ w.stage = "link" => news[w.manifest[w.index]] = 0
  <2>1. \A r \in w.linked : r \in Bindings!Rows /\ news[r] = 0 /\ r.workspace \in w.locks
    BY <1>3 DEF WriterHolds
  <2>2. \A r \in w.linked : r \in w.staged \/ BoundAs(cs, r)
    BY <1>1, <1>3 DEF WriterHolds
  <2>3. \A r \in w.staged : r.principal \notin DOMAIN cs /\ \E i \in DOMAIN w.manifest : w.manifest[i] = r
    BY <1>3 DEF WriterHolds
  <2>4. \A i \in 1..(w.index - 1) : w.manifest[i] \in w.staged \/ BoundAs(cs, w.manifest[i])
    BY <1>1, <1>3 DEF WriterHolds
  <2>5. w.stage = "link" => news[w.manifest[w.index]] = 0
    BY <1>2, <1>3 DEF WriterHolds
  <2> QED BY <2>1, <2>2, <2>3, <2>4, <2>5
<1>4. w.report = "applied" => \A i \in DOMAIN w.manifest : BoundAs(cs, w.manifest[i])
  BY <1>1 DEF WriterHolds
<1> QED BY <1>3, <1>4 DEF WriterHolds

\* What a commit binds: the principals it staged, each to the user of its row.
LEMMA StagedAreBound ==
    ASSUME BindingInv, NEW t \in Tools, writers[t].stage = "commit"
    PROVE  LET q == writers[t]
               cs == Bindings!Bound(bindings, q.staged) IN
           /\ Extends(bindings, cs) /\ \A p \in DOMAIN cs : cs[p] \in BindingRecord
           /\ \A r \in q.staged : BoundAs(cs, r)
           /\ \A p \in DOMAIN cs : p \in DOMAIN bindings \/ \E r \in q.staged : r.principal = p /\ cs[p].user = r.user
<1>1. PICK q, cs : q = writers[t] /\ cs = Bindings!Bound(bindings, q.staged)
  OBVIOUS
<1>2. q \in WriterRecord /\ WriterHolds(q, bindings, trail) /\ Working(q) /\ \A p \in DOMAIN bindings : bindings[p] \in BindingRecord
  BY <1>1 DEF BindingInv, Working, BooksHold
<1>3. q.staged \subseteq ManifestRow /\ q.manifest \in Manifests \cup {<<>>}
      /\ \A r \in q.staged : r.principal \notin DOMAIN bindings /\ \E i \in DOMAIN q.manifest : q.manifest[i] = r
  BY <1>2 DEF WriterRecord, WriterHolds
<1>4. \A r, s \in q.staged : r.principal = s.principal => r = s
  BY <1>3, BindingAssumption
<1>5. DOMAIN cs = DOMAIN bindings \cup {r.principal : r \in q.staged}
  BY <1>1 DEF Bindings!Bound
<1>6. \A p \in DOMAIN bindings : cs[p] = bindings[p]
  BY <1>1 DEF Bindings!Bound
<1>7. \A r \in q.staged : cs[r.principal] = [user |-> r.user, status |-> "active", version |-> 1, proof |-> r.proof]
  <2>1. SUFFICES ASSUME NEW r \in q.staged
                 PROVE  cs[r.principal] = [user |-> r.user, status |-> "active", version |-> 1, proof |-> r.proof]
    OBVIOUS
  <2>2. (CHOOSE s \in q.staged : s.principal = r.principal) = r
    BY <1>4, <2>1
  <2>3. r.principal \notin DOMAIN bindings
    BY <1>3, <2>1
  <2> QED BY <1>1, <2>1, <2>2, <2>3 DEF Bindings!Bound
<1>8. \A r \in q.staged : cs[r.principal] \in BindingRecord /\ cs[r.principal].user = r.user
  <2>1. SUFFICES ASSUME NEW r \in q.staged PROVE cs[r.principal] \in BindingRecord /\ cs[r.principal].user = r.user
    OBVIOUS
  <2>2. r.user \in STRING /\ r.proof \in STRING
    BY <1>3, <2>1 DEF ManifestRow
  <2>3. cs[r.principal] = [user |-> r.user, status |-> "active", version |-> 1, proof |-> r.proof]
    BY <1>7, <2>1
  <2> QED BY <2>2, <2>3 DEF BindingRecord
<1> QED BY <1>1, <1>2, <1>5, <1>6, <1>8 DEF Extends, BoundAs

LEMMA BatchCommitted ==
    ASSUME BindingInv, NEW t \in Tools, Bindings!Commit(t)
    PROVE  BindingInv'
<1>1. PICK q, cs : q = writers[t] /\ cs = Bindings!Bound(bindings, q.staged)
  OBVIOUS
<1>2. q \in WriterRecord /\ WriterHolds(q, bindings, trail) /\ q.stage = "commit" /\ Working(q) /\ BooksHold(bindings, trail)
  BY <1>1 DEF BindingInv, Working, Bindings!Commit
<1>3. /\ Extends(bindings, cs) /\ \A p \in DOMAIN cs : cs[p] \in BindingRecord
      /\ \A r \in q.staged : BoundAs(cs, r)
      /\ \A p \in DOMAIN cs : p \in DOMAIN bindings \/ \E r \in q.staged : r.principal = p /\ cs[p].user = r.user
  BY <1>1, <1>2, StagedAreBound
<1>4. bindings' = cs /\ trail' = [r \in Bindings!Rows |-> trail[r] + IF r \in q.linked THEN 1 ELSE 0]
  BY <1>1 DEF Bindings!Commit
<1>5. PICK report \in {"applied", "unknown"} : Bindings!End(t, report)
  BY DEF Bindings!Commit
<1>6. PICK w : w = [Bindings!Free EXCEPT !.manifest = q.manifest, !.stage = "told", !.report = report, !.linked = q.linked]
  OBVIOUS
<1>7. w \in WriterRecord /\ w.manifest = q.manifest /\ w.stage = "told" /\ w.report = report /\ w.staged = {} /\ w.locks = {}
  BY <1>2, <1>6 DEF Bindings!Free, WriterRecord
<1>8. writers' = [writers EXCEPT ![t] = w]
  BY <1>1, <1>5, <1>6 DEF Bindings!End
<1>9. /\ \A r \in q.linked : r \in Bindings!Rows /\ trail[r] = 0 /\ r.workspace \in q.locks /\ (r \in q.staged \/ BoundAs(bindings, r))
      /\ q.staged \subseteq q.linked /\ trail \in [Bindings!Rows -> 0..1]
  BY <1>2 DEF WriterHolds, BooksHold
<1>10. trail' \in [Bindings!Rows -> 0..1] /\ \A r \in Bindings!Rows : trail'[r] = IF r \in q.linked THEN 1 ELSE trail[r]
  BY <1>4, <1>9
<1>11. BooksHold(cs, trail')
  <2>1. \A r \in Bindings!Rows : trail'[r] = 1 => r.principal \in DOMAIN cs
    BY <1>2, <1>3, <1>9, <1>10 DEF BooksHold, Extends, BoundAs
  <2>2. ASSUME NEW p \in DOMAIN cs \ {"root"}
        PROVE  \E r \in Bindings!Rows : r.principal = p /\ r.user = cs[p].user /\ trail'[r] = 1
    <3>1. CASE p \in DOMAIN bindings
      <4>1. PICK r \in Bindings!Rows : r.principal = p /\ r.user = bindings[p].user /\ trail[r] = 1
        BY <1>2, <2>2, <3>1 DEF BooksHold
      <4> QED BY <1>3, <1>10, <3>1, <4>1 DEF Extends
    <3>2. CASE p \notin DOMAIN bindings
      <4>1. PICK r \in q.staged : r.principal = p /\ cs[p].user = r.user
        BY <1>3, <2>2, <3>2
      <4> QED BY <1>9, <1>10, <4>1
    <3> QED BY <3>1, <3>2
  <2> QED BY <1>3, <1>10, <2>1, <2>2 DEF BooksHold
<1>12. WriterHolds(w, cs, trail')
  <2>1. ASSUME NEW i \in DOMAIN q.manifest PROVE BoundAs(cs, q.manifest[i])
    <3>1. q.manifest \in Seq(ManifestRow) /\ q.index = Len(q.manifest) + 1
      BY <1>2 DEF WriterRecord, WriterHolds, Placed
    <3>2. i \in 1..(q.index - 1)
      BY <2>1, <3>1
    <3>3. q.manifest[i] \in q.staged \/ BoundAs(bindings, q.manifest[i])
      BY <1>2, <3>2 DEF WriterHolds
    <3> QED BY <1>3, <3>3 DEF Extends, BoundAs
  <2> QED BY <1>2, <1>5, <1>7, <2>1 DEF WriterHolds, Working
<1>13. ASSUME NEW u \in Tools \ {t} PROVE WriterHolds(writers[u], cs, trail')
  <2>1. writers[u] \in WriterRecord /\ WriterHolds(writers[u], bindings, trail) /\ Apart(writers[u], q)
    BY <1>1, <1>13 DEF BindingInv
  <2>2. \A r \in writers[u].staged : r.principal \notin DOMAIN bindings
    BY <2>1 DEF WriterHolds
  <2>3. \A r \in writers[u].staged : r.principal \notin DOMAIN cs
    BY <1>3, <2>1, <2>2 DEF Apart
  <2>4. \A r \in Bindings!Rows : r.workspace \in writers[u].locks => trail'[r] = trail[r]
    BY <1>9, <1>10, <2>1 DEF Apart
  <2> QED BY <1>3, <2>1, <2>3, <2>4, WriterStays
<1>14. writers' \in [Tools -> WriterRecord] /\ \A u \in Tools : writers'[u] = IF u = t THEN w ELSE writers[u]
  BY <1>7, <1>8 DEF BindingInv
<1>15. \A u, v \in Tools : u # v => Apart(writers'[u], writers'[v])
  BY <1>7, <1>14 DEF BindingInv, Apart
<1>16. \A u \in Tools : WriterHolds(writers'[u], cs, trail')
  BY <1>12, <1>13, <1>14
<1> QED BY <1>4, <1>11, <1>14, <1>15, <1>16 DEF BindingInv

LEMMA BindingRevoked ==
    ASSUME BindingInv, NEW p \in DOMAIN bindings, Bindings!Revoke(p)
    PROVE  BindingInv'
<1>1. BooksHold(bindings, trail) /\ trail' = trail /\ writers' = writers
  BY DEF BindingInv, Bindings!Revoke
<1>2. PICK n \in Nat : n = bindings[p].version + 1
  BY <1>1 DEF BooksHold, BindingRecord
<1>3. PICK b : b = [bindings[p] EXCEPT !.status = "revoked", !.version = n]
  OBVIOUS
<1>4. b \in BindingRecord /\ b.user = bindings[p].user
  <2>1. bindings[p] \in BindingRecord
    BY <1>1 DEF BooksHold
  <2> QED BY <1>2, <1>3, <2>1 DEF BindingRecord
<1>5. DOMAIN bindings' = DOMAIN bindings /\ \A x \in DOMAIN bindings : bindings'[x] = IF x = p THEN b ELSE bindings[x]
  BY <1>2, <1>3 DEF Bindings!Revoke
<1>6. Extends(bindings, bindings')
  BY <1>4, <1>5 DEF Extends
<1>7. BooksHold(bindings', trail)
  BY <1>1, <1>4, <1>5 DEF BooksHold
<1>8. ASSUME NEW t \in Tools PROVE WriterHolds(writers[t], bindings', trail)
  <2>1. writers[t] \in WriterRecord /\ WriterHolds(writers[t], bindings, trail)
    BY <1>8 DEF BindingInv
  <2>2. \A r \in writers[t].staged : r.principal \notin DOMAIN bindings'
    BY <1>5, <2>1 DEF WriterHolds
  <2> QED BY <1>6, <2>1, <2>2, WriterStays
<1> QED BY <1>1, <1>7, <1>8 DEF BindingInv

LEMMA BindingStart == Bindings!BindingInit => BindingInv
<1> SUFFICES ASSUME Bindings!BindingInit PROVE BindingInv
  OBVIOUS
<1>1. BooksHold(bindings, trail)
  <2>1. Bindings!Chief \in BindingRecord
    BY DEF Bindings!Chief, BindingRecord
  <2>2. DOMAIN bindings = {"root"} /\ \A p \in DOMAIN bindings : bindings[p] = Bindings!Chief
    BY DEF Bindings!BindingInit
  <2>3. trail \in [Bindings!Rows -> 0..1] /\ \A r \in Bindings!Rows : trail[r] = 0
    BY DEF Bindings!BindingInit
  <2> QED BY <2>1, <2>2, <2>3 DEF BooksHold
<1>2. \A t \in Tools : writers[t] = Bindings!Free
  BY DEF Bindings!BindingInit
<1>3. WriterHolds(Bindings!Free, bindings, trail) /\ Apart(Bindings!Free, Bindings!Free)
  BY DEF WriterHolds, Working, Apart, Bindings!Free
<1> QED BY <1>1, <1>2, <1>3, FreeIsTyped DEF Bindings!BindingInit, BindingInv

LEMMA BindingStep == BindingInv /\ [Bindings!BindingNext]_identityBindingVars => BindingInv'
<1> SUFFICES ASSUME BindingInv, [Bindings!BindingNext]_identityBindingVars PROVE BindingInv'
  OBVIOUS
<1>1. ASSUME NEW t \in Tools, Bindings!LockAdmin(t) \/ Bindings!ReadRow(t) \/ Bindings!LinkRow(t) \/ Bindings!Commit(t) \/ Bindings!Rerun(t) PROVE BindingInv'
  BY <1>1, WorkspaceLocked, RowRead, RowLinked, BatchCommitted, ReportPutAway
<1>2. ASSUME NEW t \in Tools, Bindings!Deadlock(t) \/ Bindings!LoseCommit(t) PROVE BindingInv'
  BY <1>2, WriterEnds DEF Bindings!Deadlock, Bindings!LoseCommit
<1>3. ASSUME NEW t \in Tools, NEW m \in Manifests, Bindings!Begin(t, m) PROVE BindingInv'
  BY <1>3, BatchBegun
<1>4. ASSUME NEW r \in Bindings!Rows, Bindings!EndMembership(r.workspace, r.user) PROVE BindingInv'
  BY <1>4 DEF Bindings!EndMembership, BindingInv
<1>5. ASSUME NEW p \in DOMAIN bindings, Bindings!Revoke(p) PROVE BindingInv'
  BY <1>5, BindingRevoked
<1>6. CASE UNCHANGED identityBindingVars
  BY <1>6 DEF identityBindingVars, BindingInv
<1> QED BY <1>1, <1>2, <1>3, <1>4, <1>5, <1>6 DEF Bindings!BindingNext

\* The books are what the property asks for.
LEMMA BindingIsTrue == BindingInv => Bindings!BindingsAreAudited
<1> SUFFICES ASSUME BindingInv PROVE Bindings!BindingsAreAudited
  OBVIOUS
<1>1. \A r \in Bindings!Rows : trail[r] <= 1
  BY DEF BindingInv, BooksHold
<1>2. \A t \in Tools : writers[t].report = "applied" =>
         \A r \in Bindings!Range(writers[t].manifest) : r.principal \in DOMAIN bindings /\ bindings[r.principal].user = r.user
  BY DEF BindingInv, WriterHolds, BoundAs, Bindings!Range
<1> QED BY <1>1, <1>2 DEF BindingInv, BooksHold, Bindings!BindingsAreAudited

----------------------------------------------------------------------------
VARIABLES observations, judgements, leadCase, form, preparation, approver,
          proofs, around
VARIABLES present, lapsed, profile, graph, attempt, outcome, fits, decisions,
          version, selected, changes
VARIABLES device, windows, saves, workspace, noted, tried, failures
VARIABLES discussion, posts, requests, desks, answers, typed, dropped
VARIABLES grounds, allowed, fence, receipts, repliers, intent, modelCalls,
          upsets
VARIABLES versionOf, company, persons, paid, proposals, applying, panels,
          editings, losses
VARIABLES buyer, work, versions, desktops, applied, withdrawn, elapsed,
          forgotten

leadVars == <<observations, judgements, leadCase, form, preparation, approver,
    proofs, around>>
assessmentVars == <<present, lapsed, profile, graph, attempt, outcome, fits,
    decisions, version, selected, changes>>
localVars == <<device, windows, saves, workspace, noted, tried, failures>>
sharedVars == <<discussion, posts, requests, desks, answers, typed, dropped>>
groundVars == <<grounds, allowed, fence, receipts, repliers, intent,
    modelCalls, upsets>>
enrichmentVars == <<versionOf, company, persons, paid, proposals, applying,
    panels, editings, losses>>
outputVars == <<buyer, work, versions, desktops, applied, withdrawn, elapsed,
    forgotten>>

\* Two runs find the same two companies in opposite orders.
SearchHit(g, d, n) == [registry |-> g, domain |-> d, name |-> n]
FoundBy ==
    LET first == SearchHit("g1", "d1", "n1")
        second == SearchHit("g2", "d2", "n2")
    IN  [r \in {"r1", "r2"} |->
            IF r = "r1" THEN <<first, second>> ELSE <<second, first>>]
HomeOf == [x \in {"r1", "r2", "pg", "i1", "i2"} |-> IF x = "r2" THEN "q" ELSE "p"]

\* Two files: one meets what a run found, the other names a company twice.
FileRow(n, d) == [name |-> n, domain |-> d]
ImportFiles ==
    {<<FileRow("n1", "none"), FileRow("n3", "d3")>>,
     <<FileRow("n4", "d3"), FileRow("n4", "none")>>}

\* A requirement that must hold, one that must not, and claims about them.
RequirementKind ==
    [r \in {"m", "x"} |->
        [category |-> IF r = "m" THEN "must" ELSE "exclude", hard |-> TRUE]]
ClaimOf(r, s, i, src) == [about |-> r, stance |-> s, inferred |-> i, source |-> src]
Findings(s) ==
    <<ClaimOf("m", "supports", FALSE, "s"), ClaimOf("x", s, FALSE, "t"),
      ClaimOf("none", "qualifies", TRUE, "t")>>

\* What the pages of a discussion's owner and of the other person are used for.
PageUses(own, other) == [p \in {"o", "e"} |-> IF p = "o" THEN own ELSE other]

\* Manifests that bind the same principals in other orders, or to another user.
BindingRow(w, u, p) ==
    [workspace |-> w, user |-> u, principal |-> p, proof |-> "ok", expected |-> 0]
BindingManifests ==
    {<<BindingRow("v", "u1", "p"), BindingRow("v", "u2", "q")>>,
     <<BindingRow("w", "u2", "q"), BindingRow("w", "u1", "p")>>,
     <<BindingRow("w", "u3", "p"), BindingRow("v", "u2", "q")>>}

\* The order in which workspaces are locked.
LockOrder == <<"v", "w">>

\* A project has one draft, or two.
ListsOfDrafts == {{"d1"}, {"d1", "d2"}}

\* Two people quote one buyer, or one person quotes two.
BuyersRead ==
    {[members |-> {"a", "b"}, prospects |-> {"x"}],
     [members |-> {"a"}, prospects |-> {"x", "y"}]}

\* A workspace has one connection, or two.
SetsOfConnections == {{"x"}, {"x", "y"}}

\* One edit, with a request given up or a page opened again, or two edits.
EditsAndFaults ==
    {[contents |-> {"c"}, faults |-> 1], [contents |-> {"c", "d"}, faults |-> 0]}

\* Assignments to either of two owners, or assignments and reviews.
OwnersAndVerdicts ==
    {[owners |-> {"o", "p"}, verdicts |-> {},
      lists |-> 1, attempts |-> 3, troubles |-> 2],
     [owners |-> {"o"}, verdicts |-> {"yes"},
      lists |-> 2, attempts |-> 2, troubles |-> 1]}

Lead == INSTANCE LeadWorkflow WITH
    MaxObservations <- 3, MaxReviews <- 1, MaxRevision <- 0, MaxChanges <- 1

Leads == INSTANCE LeadWorkflow WITH
    MaxObservations <- 2, MaxReviews <- 2, MaxRevision <- 1, MaxChanges <- 0

OfferLeads == INSTANCE LeadWorkflow WITH
    MaxObservations <- 2, MaxReviews <- 1, MaxRevision <- 1, MaxChanges <- 1

Fits == INSTANCE BuyerAssessment WITH
    Requirements <- {"m", "x"}, Kind <- RequirementKind, Claims <- {1, 2, 3},
    Says <- Findings("supports"), Late <- {3}, People <- {}, MaxChanges <- 2,
    MaxAttempts <- 2, MaxReviews <- 2

Reviews == INSTANCE BuyerAssessment WITH
    Requirements <- {"m", "x"}, Kind <- RequirementKind, Claims <- {1, 2, 3},
    Says <- Findings("contradicts"), Late <- {3}, People <- {"a", "b"},
    MaxChanges <- 1, MaxAttempts <- 1, MaxReviews <- 2

Device == INSTANCE LocalDiscussions WITH
    Browsers <- {"a", "b"}, Locking <- TRUE, MaxNotes <- 3, MaxCopies <- 1,
    MaxFailures <- 1

Unlocked == INSTANCE LocalDiscussions WITH
    Browsers <- {"a", "b"}, Locking <- FALSE, MaxNotes <- 2, MaxCopies <- 1,
    MaxFailures <- 1

Revoked == INSTANCE SharedDiscussion WITH
    People <- {"o", "e"}, Owner <- "o", Does <- PageUses({"none"}, {"note"}),
    MaxTexts <- 1, MaxVersion <- 3, MaxMounts <- 2, MaxLost <- 1

Asked == INSTANCE SharedDiscussion WITH
    People <- {"o"}, Owner <- "o", Does <- PageUses({"note", "sources"}, {}),
    MaxTexts <- 1, MaxVersion <- 3, MaxMounts <- 2, MaxLost <- 1

Edited == INSTANCE SharedDiscussion WITH
    People <- {"o", "e"}, Owner <- "o",
    Does <- PageUses({"viewer", "rename", "delete"}, {"note", "sources"}),
    MaxTexts <- 1, MaxVersion <- 3, MaxMounts <- 1, MaxLost <- 0

Grounded == INSTANCE GroundedReply WITH
    Questions <- {"q"}, Handlers <- {1, 2}, MaxKeys <- 1, MaxChanges <- 2

Reworded == INSTANCE GroundedReply WITH
    Questions <- {"q", "p"}, Handlers <- {1}, MaxKeys <- 2, MaxChanges <- 1

Enriched == INSTANCE EnrichmentReview WITH
    Reviewers <- {"a", "b"},
    Home <- [a \in {"a", "b"} |-> IF a = "a" THEN "p" ELSE "q"],
    Identities <- {"i"}, MaxRecords <- 3, MaxEdits <- 1, MaxLost <- 1

EnrichedBatch == INSTANCE EnrichmentReview WITH
    Reviewers <- {"a"},
    Home <- [a \in {"a", "b"} |-> IF a = "a" THEN "p" ELSE "q"],
    Identities <- {"i", "j", "k"}, MaxRecords <- 3, MaxEdits <- 1, MaxLost <- 1

Outputs == INSTANCE SavedOutputs WITH
    Members <- {"a"}, MaxBuyer <- 3, MaxVersions <- 2, PageSize <- 1,
    MaxLost <- 1

Components == {"lead", "leads", "offers", "pilot", "intents", "uploads",
               "objects", "identity", "fits", "reviews", "grounding",
               "editor", "quotes", "device", "unlocked", "revoked", "asked",
               "edited", "grounded", "reworded", "connection", "company",
               "batch", "outputs", "bindings", "results", "manifest"}

Init ==
    /\ which \in Components
    /\ IF which = "offers" THEN OfferLeads!LeadInit
       ELSE IF which = "leads" THEN Leads!LeadInit
       ELSE Lead!LeadInit
    /\ Pilot!PilotInit
    /\ Intents!IntentInit
    /\ which # "intents" => session = CHOOSE s \in EditSessions : TRUE
    /\ Uploads!UploadInit
    /\ Objects!RetentionInit
    /\ which # "objects" => backend = CHOOSE b \in Backends : TRUE
    /\ Identity!IdentityInit
    /\ IF which = "reviews" THEN Reviews!AssessmentInit
       ELSE Fits!AssessmentInit
    /\ Grounding!GroundingInit
    /\ Editor!EditorInit
    /\ which # "editor" => DOMAIN server = CHOOSE list \in DraftLists : TRUE
    /\ Quotes!QuotesInit
    /\ which # "quotes" => \E w \in {CHOOSE v \in QuoteWorkspaces : TRUE} : DOMAIN readers = w.members /\ DOMAIN prospects = w.prospects
    /\ IF which = "unlocked" THEN Unlocked!LocalInit
       ELSE Device!LocalInit
    /\ IF which = "edited" THEN Edited!SharedInit
       ELSE IF which = "asked" THEN Asked!SharedInit
       ELSE Revoked!SharedInit
    /\ IF which = "reworded" THEN Reworded!GroundInit
       ELSE Grounded!GroundInit
    /\ Connection!ConnectionInit
    /\ which # "connection" => DOMAIN rows = (CHOOSE w \in ConnectionSets : TRUE) /\ assigned = AssignedProjects \X {CHOOSE c \in DOMAIN rows : TRUE}
    /\ IF which = "batch" THEN EnrichedBatch!EnrichmentInit
       ELSE Enriched!EnrichmentInit
    /\ Outputs!OutputInit
    /\ Bindings!BindingInit
    /\ Results!ResultsInit
    /\ which # "results" => tally.sitting = CHOOSE s \in Sittings : TRUE
    /\ Maintenance!ManifestInit

Next ==
    /\ UNCHANGED which
    /\ IF which = "lead" THEN Lead!LeadNext
       ELSE IF which = "leads" THEN Leads!LeadNext
       ELSE IF which = "offers" THEN OfferLeads!LeadNext ELSE UNCHANGED leadVars
    /\ IF which = "pilot" THEN Pilot!PilotNext ELSE UNCHANGED pilotVars
    /\ IF which = "intents" THEN Intents!IntentNext ELSE UNCHANGED intentVars
    /\ IF which = "uploads" THEN Uploads!UploadNext ELSE UNCHANGED uploadVars
    /\ IF which = "objects" THEN Objects!RetentionNext ELSE UNCHANGED retentionVars
    /\ IF which = "identity" THEN Identity!IdentityNext ELSE UNCHANGED identityVars
    /\ IF which = "fits" THEN Fits!AssessmentNext
       ELSE IF which = "reviews" THEN Reviews!AssessmentNext ELSE UNCHANGED assessmentVars
    /\ IF which = "grounding" THEN Grounding!GroundingNext ELSE UNCHANGED groundingVars
    /\ IF which = "editor" THEN Editor!EditorNext ELSE UNCHANGED editorVars
    /\ IF which = "quotes" THEN Quotes!QuotesNext ELSE UNCHANGED quoteVars
    /\ IF which = "device" THEN Device!LocalNext
       ELSE IF which = "unlocked" THEN Unlocked!LocalNext ELSE UNCHANGED localVars
    /\ IF which = "revoked" THEN Revoked!SharedNext
       ELSE IF which = "asked" THEN Asked!SharedNext
       ELSE IF which = "edited" THEN Edited!SharedNext ELSE UNCHANGED sharedVars
    /\ IF which = "grounded" THEN Grounded!GroundNext
       ELSE IF which = "reworded" THEN Reworded!GroundNext ELSE UNCHANGED groundVars
    /\ IF which = "connection" THEN Connection!ConnectionNext ELSE UNCHANGED connectionVars
    /\ IF which = "company" THEN Enriched!EnrichmentNext
       ELSE IF which = "batch" THEN EnrichedBatch!EnrichmentNext ELSE UNCHANGED enrichmentVars
    /\ IF which = "outputs" THEN Outputs!OutputNext ELSE UNCHANGED outputVars
    /\ IF which = "bindings" THEN Bindings!BindingNext ELSE UNCHANGED identityBindingVars
    /\ IF which = "results" THEN Results!ResultsNext ELSE UNCHANGED resultsVars
    /\ IF which = "manifest" THEN Maintenance!ManifestNext ELSE UNCHANGED manifestVars

vars == <<which, leadVars, pilotVars, intentVars, uploadVars, retentionVars,
          identityVars, assessmentVars, groundingVars, editorVars, quoteVars,
          localVars, sharedVars, groundVars, connectionVars, enrichmentVars,
          outputVars, identityBindingVars, resultsVars, manifestVars>>
Spec == Init /\ [][Next]_vars

\* Type invariant: the explored component is well formed.
TypeOK ==
    /\ which \in Components
    /\ which = "lead" => Lead!LeadTypeOK
    /\ which = "leads" => Leads!LeadTypeOK
    /\ which = "offers" => OfferLeads!LeadTypeOK
    /\ which = "pilot" => Pilot!PilotTypeOK
    /\ which = "intents" => Intents!IntentTypeOK
    /\ which = "uploads" => Uploads!UploadTypeOK
    /\ which = "objects" => Objects!RetentionTypeOK
    /\ which = "identity" => Identity!IdentityTypeOK
    /\ which = "fits" => Fits!AssessmentTypeOK
    /\ which = "reviews" => Reviews!AssessmentTypeOK
    /\ which = "grounding" => Grounding!GroundingTypeOK
    /\ which = "editor" => Editor!EditorTypeOK
    /\ which = "quotes" => Quotes!QuotesTypeOK
    /\ which = "device" => Device!LocalTypeOK
    /\ which = "unlocked" => Unlocked!LocalTypeOK
    /\ which = "revoked" => Revoked!SharedTypeOK
    /\ which = "asked" => Asked!SharedTypeOK
    /\ which = "edited" => Edited!SharedTypeOK
    /\ which = "grounded" => Grounded!GroundTypeOK
    /\ which = "reworded" => Reworded!GroundTypeOK
    /\ which = "connection" => Connection!ConnectionTypeOK
    /\ which = "company" => Enriched!EnrichmentTypeOK
    /\ which = "batch" => EnrichedBatch!EnrichmentTypeOK
    /\ which = "outputs" => Outputs!OutputTypeOK
    /\ which = "bindings" => Bindings!BindingTypeOK
    /\ which = "results" => Results!ResultsTypeOK
    /\ which = "manifest" => Maintenance!ManifestTypeOK

\* A judgement addresses exactly the observations that counted when it was
\* recorded, although they were read before the case was locked: one that was
\* appended in between refuses the judgement instead of slipping under it
\* (validate_lead_review, lock_case, append_observation).
JudgementsSawEverything ==
    /\ which = "lead" => Lead!JudgementsSawEverything
    /\ which = "leads" => Leads!JudgementsSawEverything
    /\ which = "offers" => OfferLeads!JudgementsSawEverything

\* A preparation is shown as reviewed only if somebody approved this revision
\* knowing the sources, the judgement, the facts and the policy that hold now,
\* and these still carry it: recent support of every claim, no open conflict
\* (get_preparation, reviewed_subjects, has_current_reviewed_preparation).
ReviewedIsCurrent ==
    /\ which = "lead" => Lead!ReviewedIsCurrent
    /\ which = "leads" => Leads!ReviewedIsCurrent
    /\ which = "offers" => OfferLeads!ReviewedIsCurrent

\* An operation is admitted only while the month bears it together with every
\* other charge, and only if a person reconciled this month, in evidence that
\* is still kept, knowing exactly the events that count now (reserve_operation,
\* assert_pilot_admission, _snapshot, reconcile_pilot_budget).
AdmissionWithinCap == [][which = "pilot" => Pilot!AdmittedWithinCap]_vars

\* An edit is written at most once however often it is sent, answered late or
\* finished from another tab; what was cancelled is never written; and a
\* content is open in one intent at a time (prepare_intent, apply_intent,
\* cancel_intent; lead-intents.ts).
EditWrittenOnce == which = "intents" => Intents!EditWrittenOnce

\* The bytes of a file are kept once: in uploads that are still open, or in one
\* document that can be read, with which its finished uploads agree (complete,
\* put, start and purge, around the parser and each other).
BytesKeptOnce == which = "uploads" => Uploads!BytesKeptOnce

\* The store and the rows agree although no transaction covers both: an object
\* belongs to a row, to a call that still runs, or to one that is known to have
\* failed; what a reader may open is there; and a deletion that is closed, of
\* the document or of its source, left nothing behind (upload, fetch, parse,
\* delete, expiry and their crashes in any order).
ObjectsAreOwned == which = "objects" => Objects!ObjectsAreOwned

\* A candidate's company is what the registry, a person or a file that was
\* matched under the lock made it (RegistryNamesTheCompany, ImportsAreDistinct).
IdentityIsKept == which = "identity" => Identity!IdentityIsKept

\* An assessment is written of what is so when it is written, once for one
\* basis and answer, whatever the graph saw at its earlier nodes; a match has
\* a current claim of a source for every requirement that must hold. A review
\* is made by someone who saw every earlier one (FitDomainRunner.persist,
\* buyer_review.apply).
DecisionsHold ==
    [][/\ which = "fits" => Fits!DecisionHolds
       /\ which = "reviews" => Reviews!DecisionHolds
      ]_vars

\* A request makes one draft, however often the queue delivers it; in an
\* approved draft everything that is said rests on a claim the draft selected,
\* or a person said that it states no fact - never on what an earlier text
\* was qualified with (_materialize, edit_draft, review_manual_grounding,
\* current_approval_context).
DraftsAreGrounded == which = "grounding" => Grounding!DraftsAreGrounded

\* What is typed in the draft editor is neither lost nor shown to another
\* person, and a save follows the revision its author started from
\* (TypedTextIsKept, OwnTextOnly, SavesFollowTheirBaseline).
EditorKeepsText == which = "editor" => Editor!EditorKeepsText

\* What is ordered is what may be ordered at that moment, however long ago it
\* was quoted: each buyer is accepted, permitted, without a contact and in no
\* lookup the code counts as under way, at the price that is in force; and a
\* quote becomes one order (quote_lookup, confirm_lookup).
OrderedIsEligible == [][which = "quotes" => Quotes!OrderIsEligible]_vars

\* No tab overwrites what another tab stored: a note leaves the device only by
\* a tab whose person saw it and removed it; and one save to the workspace makes one
\* copy, however often its reply was lost or refused and whatever was typed in
\* between (withLocalWrite, save, import).
DeviceNotesAreKept ==
    [][/\ which = "device" => Device!NoteIsKept
       /\ which = "unlocked" => Unlocked!NoteIsKept
      ]_vars

\* Nobody who is not admitted at that moment writes into a discussion or is
\* answered with it, not even when an accepted request is repeated and waits
\* for the row while the share is revoked; and an answer that was paid is not
\* paid again because its note could not be saved (load, begin_idempotency, ask).
AdmittedAtEachStep ==
    [][/\ which = "revoked" => Revoked!AdmittedNow
       /\ which = "asked" => Asked!AdmittedNow
       /\ which = "edited" => Edited!AdmittedNow
      ]_vars

\* A key is paid at most once however often its question is asked, given up
\* and asked again; the call stands on grounds that were current and permitted
\* when it was claimed; its hold stays; and no answer leaves once its grounds
\* changed (prepare_conversation, claim, finish, get).
AnswersStandOnGrounds ==
    [][/\ which = "grounded" => Grounded!AnswerStands
       /\ which = "reworded" => Reworded!AnswerStands
      ]_vars

\* The credential of the generation in force was staged and is not revoked: a
\* late revocation, of a disconnect somebody rotated after, spares it.
\* An assignment or a disconnect committed while a rotation was refreshing is
\* never undone by publishing it: a connection becomes connected only from the
\* state that was prepared, with the credential staged from it. A project never
\* has two connections. An answer is used only if nothing touched its
\* connection since it was ordered, and a disconnect takes every answer its
\* connection gave (publish_rotation, assign_xverum, call_xverum).
ConnectionAuthority == [][which = "connection" => Connection!AuthorityHolds]_vars

\* What is applied is what was reviewed: the company, the person and the buyer
\* are still what the proposal showed, no edit in between is passed over, an
\* identity of a batch is applied once, and the applied records of a batch are
\* one chain of consecutive versions, whatever answers were lost and whoever
\* else reviewed the same company (apply_enrichment, transition_chain).
EnrichmentAsReviewed ==
    [][/\ which = "company" => Enriched!AppliedAsReviewed
       /\ which = "batch" => EnrichedBatch!AppliedAsReviewed
      ]_vars

\* A saved version is never rewritten, only erased; nothing is saved on what
\* was withdrawn, however far its erasure is. A note is written once per
\* request, over exactly the buyer its version names, and leaves the saved work
\* linked to what it wrote. When an erasure is called complete, everything that
\* stood on its root is erased, also what was saved while it went on (save_output,
\* apply_native_action, purge_page, drain_pending).
SavedWorkHolds == [][which = "outputs" => Outputs!WorkHolds]_vars

\* However often a manifest is run, and by whom, a row is audited once; nobody is
\* bound without an audit that names the user; and a report is true of the whole
\* manifest: applied means every row is bound to its user
\* (identity_linking.py: reconcile_identity_manifest, _reconcile_identity_row).
BindingsAreAudited == which = "bindings" => Bindings!BindingsAreAudited

\* What the panel reports of a confirmed assignment or review is what became
\* of it: "updated" only if its exact rows and target were written, a conflict
\* never because of its own earlier attempt, and one confirmation writes the
\* buyer at most once however often it is sent.  A lost answer, a move to
\* another project and back, a role lost in between and an edit by a colleague
\* may come in any order (bulk-actions.tsx: "Retry the same frozen assignment
\* to reconcile").
ReportsAreTrue == which = "results" => Results!ReportsAreTrue

\* What is executed is what the person asked for and confirmed: a panel that
\* says "Failed rows only" shows a manifest of exactly that job's rows, no
\* manifest is executed that was not confirmed while it was shown, and the
\* result on the screen is the one recorded for it, whatever was frozen,
\* forgotten, lost or executed late in between (bulk-manifest.tsx).
ManifestsAreAsAsked == which = "manifest" => Maintenance!ManifestsAreAsAsked

\* What people decide about a lead, they decide knowing what counts: a
\* judgement every observation, a review everything that holds now
\* (LeadWorkflow).
LeadDecisionsAreInformed == JudgementsSawEverything /\ ReviewedIsCurrent

\* Bytes are kept once and by somebody: no chunk, object or inline copy is left
\* that no upload, document or pending deletion answers for (DocumentUpload,
\* SourceRetention).
StoredBytesAreOwned == BytesKeptOnce /\ ObjectsAreOwned

\* What a draft says stands on evidence that holds, and what a person typed
\* into it is neither lost nor mixed with another's text (DraftGrounding,
\* DraftEditor).
DraftsAreKept == DraftsAreGrounded /\ EditorKeepsText

\* Nothing is ordered or admitted that would not be admitted at that moment: a
\* buyer once, eligible, at the price in force; a pilot cost within what is
\* left; a provider under the authority that holds (ContactQuotes, PilotBudget,
\* XverumConnection).
SpendingIsAdmitted == AdmissionWithinCap /\ OrderedIsEligible /\ ConnectionAuthority

\* A discussion loses no note, answers nobody whose access is gone and pays a
\* question once (LocalDiscussions, SharedDiscussion, GroundedReply).
DiscussionsAreKept == DeviceNotesAreKept /\ AdmittedAtEachStep /\ AnswersStandOnGrounds

\* What a person reviewed is what is decided or written: fits, decisions, paid
\* findings about a buyer, and what a task saved (BuyerAssessment,
\* EnrichmentReview, SavedOutputs).
ReviewsHold == DecisionsHold /\ EnrichmentAsReviewed /\ SavedWorkHolds

\* An identity is established once: a company once in a project, a principal by
\* one audited row (BuyerIdentity, IdentityBinding).
IdentitiesAreKept == IdentityIsKept /\ BindingsAreAudited

\* What a screen says became of an edit is what was written, and it was written
\* once (LeadIntents, BuyerResults, ManifestScreen).
EditsAreReported == EditWrittenOnce /\ ReportsAreTrue /\ ManifestsAreAsAsked

----------------------------------------------------------------------------
(* Proofs.  Leads, on all three instances: the lemmas are those of          *)
(* LeadWorkflow.                                                            *)

LeadsInv ==
    /\ which = "lead" => Lead!LeadInv
    /\ which = "leads" => Leads!LeadInv
    /\ which = "offers" => OfferLeads!LeadInv

LEMMA LeadsStart == Init => LeadsInv
<1>1. ASSUME Init, which = "lead" PROVE Lead!LeadInv
  BY <1>1, Lead!LeadStarts DEF Init
<1>2. ASSUME Init, which = "leads" PROVE Leads!LeadInv
  BY <1>2, Leads!LeadStarts DEF Init
<1>3. ASSUME Init, which = "offers" PROVE OfferLeads!LeadInv
  BY <1>3, OfferLeads!LeadStarts DEF Init
<1> QED BY <1>1, <1>2, <1>3 DEF LeadsInv

LEMMA LeadsStep == LeadsInv /\ [Next]_vars => LeadsInv'
<1> SUFFICES ASSUME LeadsInv, [Next]_vars PROVE LeadsInv'
  OBVIOUS
<1>1. which' = which
  BY DEF Next, vars
<1>2. CASE which = "lead"
  <2>1. [Lead!LeadNext]_(Lead!leadVars) /\ Lead!LeadInv
    BY <1>2 DEF Next, vars, leadVars, Lead!leadVars, LeadsInv
  <2> QED BY <1>1, <1>2, <2>1, Lead!LeadMoves DEF LeadsInv
<1>3. CASE which = "leads"
  <2>1. [Leads!LeadNext]_(Leads!leadVars) /\ Leads!LeadInv
    BY <1>3 DEF Next, vars, leadVars, Leads!leadVars, LeadsInv
  <2> QED BY <1>1, <1>3, <2>1, Leads!LeadMoves DEF LeadsInv
<1>4. CASE which = "offers"
  <2>1. [OfferLeads!LeadNext]_(OfferLeads!leadVars) /\ OfferLeads!LeadInv
    BY <1>4 DEF Next, vars, leadVars, OfferLeads!leadVars, LeadsInv
  <2> QED BY <1>1, <1>4, <2>1, OfferLeads!LeadMoves DEF LeadsInv
<1>5. CASE which \notin {"lead", "leads", "offers"}
  BY <1>1, <1>5 DEF LeadsInv
<1> QED BY <1>2, <1>3, <1>4, <1>5

\* What people decide about a lead they decide knowing what counts: a judgement
\* every observation, a review everything that holds now (lead_review_service,
\* lead_preparation_service).
THEOREM LeadsAreDecidedInformed == Spec => []LeadDecisionsAreInformed
<1>1. Lead!LeadInv => Lead!JudgementsSawEverything /\ Lead!ReviewedIsCurrent
  BY Lead!ReviewedIsInformed DEF Lead!LeadInv
<1>2. Leads!LeadInv => Leads!JudgementsSawEverything /\ Leads!ReviewedIsCurrent
  BY Leads!ReviewedIsInformed DEF Leads!LeadInv
<1>3. OfferLeads!LeadInv => OfferLeads!JudgementsSawEverything /\ OfferLeads!ReviewedIsCurrent
  BY OfferLeads!ReviewedIsInformed DEF OfferLeads!LeadInv
<1>4. LeadsInv => LeadDecisionsAreInformed
  BY <1>1, <1>2, <1>3 DEF LeadsInv, LeadDecisionsAreInformed, JudgementsSawEverything, ReviewedIsCurrent
<1> QED BY LeadsStart, LeadsStep, <1>4, PTL DEF Spec

\* Bytes are kept once and by somebody, for any number of members, files, objects,
\* claims and faults and in either store (document_upload_service, the upload
\* route, the parse, fetch and delete workers and the purge of expired sources).
THEOREM BytesAreOwned == Spec => []StoredBytesAreOwned
<1> DEFINE Kept == (which = "uploads" => UploadInv) /\ (which = "objects" => RetentionInv)
<1>1. Init => Kept
  BY UploadStart, RetentionStart DEF Init
<1>2. Kept /\ [Next]_vars => Kept'
  <2> SUFFICES ASSUME Kept, [Next]_vars PROVE Kept'
    OBVIOUS
  <2>1. which' = which
    BY DEF Next, vars
  <2>2. ASSUME which = "uploads" PROVE UploadInv'
    <3>1. [Uploads!UploadNext]_uploadVars
      BY <2>2 DEF Next, vars
    <3> QED BY <2>2, <3>1, UploadStep
  <2>3. ASSUME which = "objects" PROVE RetentionInv'
    <3>1. [Objects!RetentionNext]_retentionVars
      BY <2>3 DEF Next, vars
    <3> QED BY <2>3, <3>1, RetentionStep
  <2> QED BY <2>1, <2>2, <2>3
<1>3. Kept => StoredBytesAreOwned
  BY UploadIsTrue, RetentionIsTrue DEF StoredBytesAreOwned, BytesKeptOnce, ObjectsAreOwned
<1> QED BY <1>1, <1>2, <1>3, PTL DEF Spec

\* The company of a candidate and the user of a principal stay what was decided
\* and audited, for any runs, hits, files, tools and manifests
\* (persist_candidate_evidence, repair_candidate_mapping, buyer_import,
\* _reconcile_identity_row).
THEOREM IdentitiesStayKept == Spec => []IdentitiesAreKept
<1> DEFINE Kept == (which = "identity" => IdentityInv) /\ (which = "bindings" => BindingInv)
<1>1. Init => Kept
  BY IdentityStart, BindingStart DEF Init
<1>2. Kept /\ [Next]_vars => Kept'
  <2> SUFFICES ASSUME Kept, [Next]_vars PROVE Kept'
    OBVIOUS
  <2>1. which' = which
    BY DEF Next, vars
  <2>2. ASSUME which = "identity" PROVE IdentityInv'
    <3>1. [Identity!IdentityNext]_identityVars
      BY <2>2 DEF Next, vars
    <3> QED BY <2>2, <3>1, IdentityStep
  <2>3. ASSUME which = "bindings" PROVE BindingInv'
    <3>1. [Bindings!BindingNext]_identityBindingVars
      BY <2>3 DEF Next, vars
    <3> QED BY <2>3, <3>1, BindingStep
  <2> QED BY <2>1, <2>2, <2>3
<1>3. Kept => IdentitiesAreKept
  BY IdentityIsTrue, BindingIsTrue DEF IdentitiesAreKept, IdentityIsKept, BindingsAreAudited
<1> QED BY <1>1, <1>2, <1>3, PTL DEF Spec

\* What a draft says stands on evidence that holds, and what a person typed is
\* neither lost nor another's, for any claims, jobs, drafts and people
\* (draft_service, draft_grounding, approval_service, drafts.tsx, DraftRecovery).
THEOREM DraftsStayKept == Spec => []DraftsAreKept
<1> DEFINE Kept == (which = "grounding" => GroundingInv) /\ (which = "editor" => EditorInv)
<1>1. Init => Kept
  BY GroundingStart, EditorStart DEF Init
<1>2. Kept /\ [Next]_vars => Kept'
  <2> SUFFICES ASSUME Kept, [Next]_vars PROVE Kept'
    OBVIOUS
  <2>1. which' = which
    BY DEF Next, vars
  <2>2. ASSUME which = "grounding" PROVE GroundingInv'
    <3>1. [Grounding!GroundingNext]_groundingVars
      BY <2>2 DEF Next, vars
    <3> QED BY <2>2, <3>1, GroundingStep
  <2>3. ASSUME which = "editor" PROVE EditorInv'
    <3>1. [Editor!EditorNext]_editorVars
      BY <2>3 DEF Next, vars
    <3> QED BY <2>3, <3>1, EditorStep
  <2> QED BY <2>1, <2>2, <2>3
<1>3. Kept => DraftsAreKept
  BY GroundingIsTrue, EditorIsTrue DEF DraftsAreKept, DraftsAreGrounded, EditorKeepsText
<1> QED BY <1>1, <1>2, <1>3, PTL DEF Spec

\* Whatever is spent was admitted: within the month's cap and on a current
\* reconciliation, for buyers that are still eligible, under an authority that
\* nobody took back; for any amounts, limit, buyers, connections, people and
\* projects (assert_pilot_admission, confirm_lookup, call_xverum).
THEOREM SpendingStaysAdmitted == Spec => SpendingIsAdmitted
<1> DEFINE Kept == /\ which = "pilot" => PilotInv
                   /\ which = "quotes" => QuoteInv
                   /\ which = "connection" => ConnectionInv
           Admitted == /\ which = "pilot" => Pilot!AdmittedWithinCap
                       /\ which = "quotes" => Quotes!OrderIsEligible
                       /\ which = "connection" => Connection!AuthorityHolds
<1>1. Init => Kept
  BY PilotStart, QuoteStart, ConnectionStart, ConnectionAssumption DEF Init
<1>2. Kept /\ [Next]_vars => Kept' /\ Admitted
  <2> SUFFICES ASSUME Kept, [Next]_vars PROVE Kept' /\ Admitted
    OBVIOUS
  <2>1. which' = which
    BY DEF Next, vars
  <2>2. ASSUME which = "pilot" PROVE PilotInv' /\ Pilot!AdmittedWithinCap
    <3>1. [Pilot!PilotNext]_pilotVars
      BY <2>2 DEF Next, vars
    <3> QED BY <2>2, <3>1, PilotStep, AdmissionsAreWithinCap, PilotAssumption
  <2>3. ASSUME which = "quotes" PROVE QuoteInv' /\ Quotes!OrderIsEligible
    <3>1. [Quotes!QuotesNext]_quoteVars
      BY <2>3 DEF Next, vars
    <3> QED BY <2>3, <3>1, QuoteStep, OrdersAreEligible
  <2>4. ASSUME which = "connection" PROVE ConnectionInv' /\ Connection!AuthorityHolds
    <3>1. [Connection!ConnectionNext]_connectionVars
      BY <2>4 DEF Next, vars
    <3> QED BY <2>4, <3>1, ConnectionStep, AuthorityIsKept
  <2> QED BY <2>1, <2>2, <2>3, <2>4
<1>3. [Admitted]_vars => /\ [which = "pilot" => Pilot!AdmittedWithinCap]_vars
                        /\ [which = "quotes" => Quotes!OrderIsEligible]_vars
                        /\ [which = "connection" => Connection!AuthorityHolds]_vars
  OBVIOUS
<1>4. Kept /\ [Next]_vars => /\ Kept' /\ [which = "pilot" => Pilot!AdmittedWithinCap]_vars
                             /\ [which = "quotes" => Quotes!OrderIsEligible]_vars
                             /\ [which = "connection" => Connection!AuthorityHolds]_vars
  <2> HIDE DEF Kept
  <2> QED BY <1>2, <1>3
<1> QED BY <1>1, <1>4, PTL DEF Spec, SpendingIsAdmitted, AdmissionWithinCap, OrderedIsEligible, ConnectionAuthority

\* What a screen says became of an edit is what was written, and it was written
\* once, for any tabs, edits, faults, sittings, rows and requests (recovery.ts,
\* mutation_intent_service, buyer-results.tsx, maintenance.tsx, manifests.py).
THEOREM EditsStayReported == Spec => []EditsAreReported
<1> DEFINE Kept == /\ which = "intents" => IntentInv
                   /\ which = "results" => ResultsInv
                   /\ which = "manifest" => ManifestInv
<1>1. Init => Kept
  BY IntentStart, ResultsStart, ManifestStart DEF Init
<1>2. Kept /\ [Next]_vars => Kept'
  <2> SUFFICES ASSUME Kept, [Next]_vars PROVE Kept'
    OBVIOUS
  <2>1. which' = which
    BY DEF Next, vars
  <2>2. ASSUME which = "intents" PROVE IntentInv'
    <3>1. [Intents!IntentNext]_intentVars
      BY <2>2 DEF Next, vars
    <3> QED BY <2>2, <3>1, IntentStep
  <2>3. ASSUME which = "results" PROVE ResultsInv'
    <3>1. [Results!ResultsNext]_resultsVars
      BY <2>3 DEF Next, vars
    <3> QED BY <2>3, <3>1, ResultsStep
  <2>4. ASSUME which = "manifest" PROVE ManifestInv'
    <3>1. [Maintenance!ManifestNext]_manifestVars
      BY <2>4 DEF Next, vars
    <3> QED BY <2>4, <3>1, ManifestStep
  <2> QED BY <2>1, <2>2, <2>3, <2>4
<1>3. Kept => EditsAreReported
  BY IntentIsTrue, ResultsAreTrue, ManifestIsTrue
  DEF EditsAreReported, EditWrittenOnce, ReportsAreTrue, ManifestsAreAsAsked
<1> QED BY <1>1, <1>2, <1>3, PTL DEF Spec

====
