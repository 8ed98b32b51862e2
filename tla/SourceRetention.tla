-------------------------- MODULE SourceRetention --------------------------
(***************************************************************************)
(* The bytes of one offer document between the database and the private    *)
(* object store, which no transaction covers: the upload route puts an     *)
(* object and then commits its row (api/routes/documents.py), workers      *)
(* parse, fetch and delete with the store call between two transactions    *)
(* (execution/document_runner.py, fetch_runner.py), and retention erases   *)
(* the source first and its object later (services/retention.py,           *)
(* execution/handlers/retention.py).  An object in R2 needs a call of its  *)
(* own; one in Postgres is written and removed by the transaction.         *)
(*                                                                         *)
(* The intents run on the execution core: a claim hands out the envelope,  *)
(* and a later claim fences it off by its generation.                      *)
(***************************************************************************)
EXTENDS Naturals, FiniteSets

CONSTANTS
    Kinds,              \* subset of {"upload", "url"}: what the document is
    Backends,           \* subset of {"r2", "postgres"}: what the deployment may keep objects in
    MaxObjects,         \* bound: objects put
    MaxClaims,          \* bound: claims of each intent
    MaxFaults           \* bound: crashes, failures of the store and revoked permissions

VARIABLES
    backend,            \* private_object_backend of the deployment
    stored,             \* objects in the store
    document,           \* the offer_documents row
    source,             \* the source_documents row of a fetched document
    outbox,             \* the outbox rows of the document
    calls,              \* requests and workers between two transactions
    due,                \* the retention deadline has passed
    puts,               \* objects put so far
    broken,             \* objects whose cleanup failed or whose holder crashed
    trouble             \* crashes, failures of the store and revoked permissions so far

retentionVars == <<backend, stored, document, source, outbox, calls, due, puts, broken, trouble>>

None == 0
EventTypes == {"offer.parse", "offer.fetch", "offer.delete", "source.delete"}
NoRow == [status |-> "none", key |-> None]
NoSource == [state |-> "none", key |-> None]
NoEvent == [state |-> "none", generation |-> 0]
Ready == [state |-> "ready", generation |-> 0]
Done(type) == [outbox EXCEPT ![type].state = "done"]
HasKey(row, S) == row.key # None /\ row.key \in S

Faulty == trouble < MaxFaults /\ trouble' = trouble + 1
Call(type, at, generation, key, own) ==
    [type |-> type, at |-> at, generation |-> generation, key |-> key, own |-> own]

------------------------------------------------------------------------------
\* The routes.

\* upload_offer_document into R2 puts the object before its transaction.
PutUpload ==
    /\ "upload" \in Kinds /\ backend = "r2" /\ puts < MaxObjects
    /\ puts' = puts + 1 /\ stored' = stored \cup {puts'}
    /\ calls' = calls \cup {Call("upload", "commit", 0, None, puts')}
    /\ UNCHANGED <<document, source, outbox, due, broken, trouble>>

\* A repeated key is answered with the first document, and its object is not needed.
CommitUpload(c) ==
    /\ c \in calls /\ c.type = "upload" /\ c.at = "commit"
    /\ \/ /\ document = NoRow
          /\ document' = [status |-> "quarantined", key |-> c.own]
          /\ outbox' = [outbox EXCEPT !["offer.parse"] = Ready]
          /\ calls' = calls \ {c} /\ UNCHANGED trouble
       \/ /\ document # NoRow
          /\ calls' = (calls \ {c}) \cup {[c EXCEPT !.at = "cleanup"]}
          /\ UNCHANGED <<document, outbox, trouble>>
       \/ /\ Faulty
          /\ calls' = (calls \ {c}) \cup {[c EXCEPT !.at = "cleanup"]}
          /\ UNCHANGED <<document, outbox>>
    /\ UNCHANGED <<stored, source, due, puts, broken>>

\* Into Postgres the bytes are part of the transaction, which also parsed them.
UploadInline(status) ==
    /\ "upload" \in Kinds /\ backend = "postgres" /\ document = NoRow /\ puts < MaxObjects
    /\ puts' = puts + 1 /\ stored' = stored \cup {puts'}
    /\ document' = [status |-> status, key |-> puts']
    /\ outbox' = Done("offer.parse")
    /\ UNCHANGED <<source, calls, due, broken, trouble>>

IngestUrl ==
    /\ "url" \in Kinds /\ document = NoRow
    /\ document' = [status |-> "queued", key |-> None]
    /\ outbox' = [outbox EXCEPT !["offer.fetch"] = Ready]
    /\ UNCHANGED <<stored, source, calls, due, puts, broken, trouble>>

\* An object in Postgres goes with the row, one in R2 is left to an intent.
DeleteDocument ==
    /\ document.status \notin {"none", "deleted"}
    /\ IF backend = "postgres" /\ document.key # None
       THEN /\ stored' = stored \ {document.key}
            /\ document' = [status |-> "deleted", key |-> None]
            /\ source' = [source EXCEPT !.key = None]
            /\ outbox' = Done("offer.delete")
       ELSE /\ document' = [document EXCEPT !.status = "deleted"]
            /\ outbox' = [outbox EXCEPT !["offer.delete"] = Ready]
            /\ UNCHANGED <<stored, source>>
    /\ UNCHANGED <<calls, due, puts, broken, trouble>>

------------------------------------------------------------------------------
\* Workers: the first transaction, the store, the second transaction.

Claim(type) ==
    /\ outbox[type].state \in {"ready", "dispatched"} /\ outbox[type].generation < MaxClaims
    /\ outbox' = [outbox EXCEPT ![type] = [state |-> "dispatched", generation |-> @.generation + 1]]
    /\ UNCHANGED <<stored, document, source, calls, due, puts, broken, trouble>>

Prepares(type) ==
    CASE type = "offer.parse" -> TRUE
      [] type = "offer.fetch" -> document.status = "queued" /\ ~due
      [] type = "offer.delete" -> TRUE
      [] type = "source.delete" -> source.state = "tombstone"

Prepare(type) ==
    /\ outbox[type].state = "dispatched" /\ Prepares(type)
    /\ \A c \in calls : <<c.type, c.generation>> # <<type, outbox[type].generation>>
    /\ calls' = calls \cup {Call(type, "store", outbox[type].generation,
                                 IF type = "source.delete" THEN source.key ELSE document.key, None)}
    /\ UNCHANGED <<stored, document, source, outbox, due, puts, broken, trouble>>

Deletes(c) == c.type \in {"offer.delete", "source.delete"}
Goes(c, at) == calls' = (calls \ {c}) \cup {[c EXCEPT !.at = at]}

\* Mutant: an object that could not be removed is taken for removed.
StoreFails_Ignored(c) == Goes(c, "finalize")

\* The row stays dispatched, and its next claim tries again.
StoreFails(c) == calls' = calls \ {c}

CallStore(c) ==
    /\ c \in calls /\ c.at = "store"
    /\ \/ /\ Deletes(c)
          /\ stored' = stored \ {c.key} /\ Goes(c, "finalize") /\ UNCHANGED <<puts, trouble>>
       \/ c.type = "offer.parse" /\ Goes(c, "finalize") /\ UNCHANGED <<stored, puts, trouble>>
       \/ /\ c.type = "offer.fetch" /\ puts < MaxObjects
          /\ puts' = puts + 1 /\ stored' = stored \cup {puts'}
          /\ calls' = (calls \ {c}) \cup {[c EXCEPT !.at = "finalize", !.own = puts']}
          /\ UNCHANGED trouble
       \/ /\ c.type = "offer.fetch"                      \* refused by the page
          /\ Goes(c, "finalize") /\ UNCHANGED <<stored, puts, trouble>>
       \/ /\ c.key # None \/ c.type = "offer.fetch"
          /\ Faulty /\ StoreFails(c) /\ UNCHANGED <<stored, puts>>
    /\ UNCHANGED <<document, source, outbox, due, broken>>

\* fence_ok under the lock of the row.
Current(c) == outbox[c.type].state = "dispatched" /\ outbox[c.type].generation = c.generation

Parse(c) ==
    /\ outbox' = Done(c.type)
    /\ \E status \in {"ready", "failed"} :
          document' = IF document.status = "quarantined" THEN [document EXCEPT !.status = status] ELSE document
    /\ UNCHANGED source

DeleteObject(c) ==
    /\ document.status = "deleted"
    /\ outbox' = Done(c.type)
    /\ document' = [document EXCEPT !.key = None]
    /\ source' = [source EXCEPT !.key = None]

SameObject(c) == source.key = c.key

DeleteSource(c) ==
    /\ SameObject(c)
    /\ outbox' = Done(c.type)
    /\ source' = [source EXCEPT !.key = None]
    /\ UNCHANGED document

FinalizeWork(c) ==
    /\ c \in calls /\ c.at = "finalize" /\ c.type # "offer.fetch"
    /\ calls' = calls \ {c}
    /\ \/ Current(c) /\ (\/ c.type = "offer.parse" /\ Parse(c)
                         \/ c.type = "offer.delete" /\ DeleteObject(c)
                         \/ c.type = "source.delete" /\ DeleteSource(c))
       \/ ~(Current(c) /\ (c.type = "source.delete" => SameObject(c))) /\ UNCHANGED <<document, source, outbox>>
    /\ UNCHANGED <<stored, due, puts, broken, trouble>>

\* Mutant: a document that was deleted during the retrieval is brought back.
StillQueued_Existing == document # NoRow

StillQueued == document.status = "queued"

FinalizeFetch(c) ==
    /\ c \in calls /\ c.at = "finalize" /\ c.type = "offer.fetch"
    /\ \/ /\ Current(c) /\ StillQueued /\ ~due
          /\ outbox' = Done(c.type) /\ calls' = calls \ {c}
          /\ IF c.own = None
             THEN document' = [document EXCEPT !.status = "failed"] /\ UNCHANGED source
             ELSE /\ document' = [status |-> "ready", key |-> c.own]
                  /\ source' = [state |-> "live", key |-> c.own]
          /\ UNCHANGED trouble
       \/ /\ \/ ~(Current(c) /\ StillQueued /\ ~due) /\ UNCHANGED trouble
             \/ Faulty                                   \* the permission was revoked
          /\ IF c.own = None THEN calls' = calls \ {c} ELSE Goes(c, "cleanup")
          /\ UNCHANGED <<document, source, outbox>>
    /\ UNCHANGED <<stored, due, puts, broken>>

\* A call removes the object that it put itself; this is tried once.
Cleanup(c) ==
    /\ c \in calls /\ c.at = "cleanup" /\ calls' = calls \ {c}
    /\ \/ stored' = stored \ {c.own} /\ UNCHANGED <<broken, trouble>>
       \/ Faulty /\ broken' = broken \cup {c.own} /\ UNCHANGED stored
    /\ UNCHANGED <<document, source, outbox, due, puts>>

Crash(c) ==
    /\ c \in calls /\ Faulty /\ calls' = calls \ {c}
    /\ broken' = broken \cup ({c.own} \ {None})
    /\ UNCHANGED <<stored, document, source, outbox, due, puts>>

------------------------------------------------------------------------------
\* Retention.

TimePasses ==
    /\ ~due /\ due' = TRUE
    /\ UNCHANGED <<stored, document, source, outbox, calls, puts, broken, trouble>>

\* expire_due_sources: the row is erased first; a tombstone with an object is
\* visited again, and an intent that ended is opened again.
ExpireSource ==
    /\ due /\ (source.state = "live" \/ (source.state = "tombstone" /\ source.key # None))
    /\ source' = [source EXCEPT !.state = "tombstone"]
    /\ outbox' = IF source.key # None /\ outbox["source.delete"].state \in {"none", "done"}
                 THEN [outbox EXCEPT !["source.delete"].state = "ready"] ELSE outbox
    /\ source' # source \/ outbox' # outbox
    /\ UNCHANGED <<stored, document, calls, due, puts, broken, trouble>>

\* purge_due_tenant_private_objects.
PurgeDue ==
    /\ due /\ backend = "postgres" /\ stored # {} /\ stored' = {}
    /\ UNCHANGED <<document, source, outbox, calls, due, puts, broken, trouble>>

RetentionInit ==
    /\ backend \in Backends
    /\ stored = {} /\ document = NoRow /\ source = NoSource /\ calls = {} /\ broken = {}
    /\ outbox = [type \in EventTypes |-> NoEvent]
    /\ due = FALSE /\ puts = 0 /\ trouble = 0

RetentionNext ==
    /\ UNCHANGED backend
    /\ \/ PutUpload \/ IngestUrl \/ DeleteDocument \/ TimePasses \/ ExpireSource \/ PurgeDue
       \/ \E status \in {"ready", "failed"} : UploadInline(status)
       \/ \E type \in EventTypes : Claim(type) \/ Prepare(type)
       \/ \E c \in calls : \/ CommitUpload(c) \/ CallStore(c) \/ FinalizeWork(c) \/ FinalizeFetch(c)
                           \/ Cleanup(c) \/ Crash(c)

RetentionSpec == RetentionInit /\ [][RetentionNext]_retentionVars

------------------------------------------------------------------------------
RetentionTypeOK ==
    /\ backend \in Backends
    /\ stored \subseteq 1..puts /\ puts <= MaxObjects /\ trouble <= MaxFaults
    /\ document.status \in {"none", "quarantined", "queued", "ready", "failed", "deleted"}
    /\ source.state \in {"none", "live", "tombstone"}
    /\ \A type \in EventTypes : outbox[type].generation <= MaxClaims

\* The store and the rows agree although no transaction covers both: an object
\* belongs to a row, to a call that still runs, or to one that is known to have
\* failed; what a reader may open is there; and a deletion that is closed, of
\* the document or of its source, left nothing behind (upload, fetch, parse,
\* delete, expiry and their crashes in any order).
ObjectsAreOwned ==
    /\ \A o \in stored :
          \/ o \in {document.key, source.key} \cup broken
          \/ \E c \in calls : c.own = o
    /\ document.status \in {"quarantined", "ready"} /\ ~due => document.key \in stored
    /\ outbox["offer.delete"].state = "done" => ~HasKey(document, stored) /\ ~HasKey(source, stored)
    /\ outbox["source.delete"].state = "done" => ~HasKey(source, stored)
=============================================================================
