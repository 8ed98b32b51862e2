---- MODULE BulkJob ----
(***************************************************************************)
(* Bulk mutations of buyers: a durable job that applies its rows in chunks *)
(* through the outbox, cancellation between chunks, and retries of the     *)
(* failed rows of a finished job, either at once or from a frozen manifest *)
(* that was previewed and is then executed by its digest and version.      *)
(*                                                                         *)
(* A buyer is kept as its version and the set of operations whose target   *)
(* value (owner, review, list) it already has.  A wake-up is an outbox     *)
(* intent that is ready; the durable core runs each exactly once.          *)
(***************************************************************************)
EXTENDS Naturals, FiniteSets, FiniteSetsExt

CONSTANTS Buyers,      \* rows are ordered: a set of naturals
          BulkJobs,    \* ids of jobs, taken in order
          Manifests,   \* ids of frozen manifests
          Sources,     \* jobs whose failed rows are previewed; 0 is a selection by filter
          Edited,      \* bound: buyers that other users revise meanwhile
          Exclusions,  \* sets of rows a preview may leave out
          Operations,  \* subset of the three bulk operations
          ChunkSize,   \* rows of one transaction (50 in the code)
          SyncLimit,   \* rows applied within the request (100 in the code)
          MaxVersion   \* bound: versions of a buyer explored

VARIABLES buyers,     \* project_buyers
          bulkJobs,   \* async_jobs with their async_job_items
          manifests,  \* bulk_manifests with their items and their results
          wakeups,    \* ready "bulk.mutate" intents: job and processed count
          permitted   \* memberships allow it: the actor's role and the new owner

bulkVars == <<buyers, bulkJobs, manifests, wakeups, permitted>>

ItemStates == {"pending", "updated", "unchanged", "blocked", "conflict", "cancelled"}
Succeeded == {"updated", "unchanged"}
Failed == {"blocked", "conflict"}
Finished == {"completed", "cancelled", "failed"}
Tallies == Succeeded \cup Failed
JobStatuses == {"absent", "queued", "running", "cancel_requested"} \cup Finished

\* A row that is not selected has no expected version and no result.
NotSelected == [expected |-> 0, result |-> "none"]
NoRows == [b \in Buyers |-> NotSelected]
Select(versions) == [b \in Buyers |-> IF b \in DOMAIN versions
                       THEN [expected |-> versions[b], result |-> "pending"] ELSE NotSelected]
In(rows, states) == {b \in Buyers : rows[b].result \in states}
Requested(job) == Cardinality(In(job.items, ItemStates))

NoJob == [status |-> "absent", op |-> "none", items |-> NoRows, processed |-> 0,
          tally |-> [s \in Tallies |-> 0], manifest |-> 0]
NoManifest == [status |-> "absent", op |-> "none", source |-> 0, items |-> NoRows]

BulkInit ==
    /\ buyers = [b \in Buyers |-> [version |-> 1, has |-> {}]]
    /\ bulkJobs = [j \in BulkJobs |-> NoJob]
    /\ manifests = [m \in Manifests |-> NoManifest]
    /\ wakeups = {}
    /\ permitted = TRUE

BulkTypeOK ==
    /\ \A b \in Buyers : buyers[b].version \in 1 .. MaxVersion /\ buyers[b].has \subseteq Operations
    /\ \A j \in BulkJobs : bulkJobs[j].status \in JobStatuses
    /\ \A m \in Manifests : manifests[m].status \in {"absent", "ready", "executed"}
    /\ wakeups \subseteq BulkJobs \X (0 .. Cardinality(Buyers))

----------------------------------------------------------------------------
(* Applying rows.                                                          *)

\* Mutant: a row is applied to whatever version the buyer now has.
Outcome_AnyVersion(op, buyer, expected) ==
    IF op \in buyer.has THEN "unchanged" ELSE "updated"

Outcome(op, buyer, expected) ==
    IF buyer.version # expected THEN "conflict"
    ELSE IF op \in buyer.has THEN "unchanged"
    ELSE "updated"

\* A change of list membership is no revision of the buyer.
Applied(op, buyer) ==
    [version |-> IF op = "changeListMemberships" THEN buyer.version ELSE buyer.version + 1,
     has |-> buyer.has \cup {op}]

\* Rows of the set chunk with their outcomes, and the buyers after them.
ApplyRows(op, items, chunk) ==
    [b \in Buyers |-> IF b \in chunk
       THEN [items[b] EXCEPT !.result = Outcome(op, buyers[b], items[b].expected)] ELSE items[b]]

BuyersAfter(op, items, chunk) ==
    [b \in Buyers |-> IF b \in chunk /\ Outcome(op, buyers[b], items[b].expected) = "updated"
                      THEN Applied(op, buyers[b]) ELSE buyers[b]]

Refuse(items, chunk, word) ==
    [b \in Buyers |-> IF b \in chunk THEN [items[b] EXCEPT !.result = word] ELSE items[b]]

Versioned(chunk) == \A b \in chunk : buyers[b].version < MaxVersion

----------------------------------------------------------------------------
(* The job.                                                                *)

Unused(j) == bulkJobs[j].status = "absent" /\ \A i \in BulkJobs : i < j => bulkJobs[i].status # "absent"
Queued(op, items, m) == [NoJob EXCEPT !.status = "queued", !.op = op, !.items = items, !.manifest = m]

CreateBulkJob(j, op, selection) ==
    /\ Unused(j)
    /\ Cardinality(selection) > SyncLimit
    /\ permitted
    /\ bulkJobs' = [bulkJobs EXCEPT ![j] =
                      Queued(op, Select([b \in selection |-> buyers[b].version]), 0)]
    /\ wakeups' = wakeups \cup {<<j, 0>>}
    /\ UNCHANGED <<buyers, manifests, permitted>>

\* The first pending rows, by ordinal.
Chunk(items) ==
    {b \in In(items, {"pending"}) :
        Cardinality({c \in In(items, {"pending"}) : c < b}) < ChunkSize}

\* Mutant: rows refused because the actor lost the role are not counted.
Count_AppliedOnly(tally, items, chunk) ==
    [s \in Tallies |-> tally[s] + IF s = "blocked" THEN 0
                                  ELSE Cardinality(chunk \cap In(items, {s}))]

Count(tally, items, chunk) ==
    [s \in Tallies |-> tally[s] + Cardinality(chunk \cap In(items, {s}))]

\* What one chunk makes of the job, its rows and the buyers.
Cancelled(job, chunk) ==
    LET processed == job.processed + Cardinality(chunk) IN
    [job EXCEPT !.items = Refuse(job.items, chunk, "cancelled"), !.processed = processed,
                !.status = IF processed = Requested(job) THEN "cancelled" ELSE "cancel_requested"]

Advanced(job, chunk, items) ==
    LET processed == job.processed + Cardinality(chunk) IN
    [job EXCEPT !.items = items, !.processed = processed,
                !.tally = Count(job.tally, items, chunk),
                !.status = IF processed = Requested(job) THEN "completed" ELSE "running"]

\* Mutant: the next chunk is left to the intent that is already there.
NextWakeup_None(j, job) == {}

NextWakeup(j, job) == IF job.processed < Requested(job) THEN {<<j, job.processed>>} ELSE {}

\* One run of the intent.  The actor's role and the new owner are read again
\* for every chunk; a job that is finished changes nothing.
ApplyBulkChunk(j, k) ==
    LET job == bulkJobs[j]
        chunk == Chunk(job.items)
        after == IF job.status \in Finished THEN job
                 ELSE IF job.status = "cancel_requested" THEN Cancelled(job, chunk)
                 ELSE Advanced(job, chunk, IF permitted THEN ApplyRows(job.op, job.items, chunk)
                                           ELSE Refuse(job.items, chunk, "blocked"))
        applies == permitted /\ job.status \in {"queued", "running"}
    IN
    /\ <<j, k>> \in wakeups
    /\ applies => Versioned(chunk)
    /\ bulkJobs' = [bulkJobs EXCEPT ![j] = after]
    /\ buyers' = IF applies THEN BuyersAfter(job.op, job.items, chunk) ELSE buyers
    /\ wakeups' = (wakeups \ {<<j, k>>}) \cup
                    IF job.status \in Finished THEN {} ELSE NextWakeup(j, after)
    /\ UNCHANGED <<manifests, permitted>>

CancelBulkJob(j) ==
    /\ bulkJobs[j].status \in JobStatuses \ (Finished \cup {"absent", "cancel_requested"})
    /\ bulkJobs' = [bulkJobs EXCEPT ![j].status = "cancel_requested"]
    /\ UNCHANGED <<buyers, manifests, wakeups, permitted>>

\* A job without a manifest starts its failed rows over at current versions.
RetryFailedOnly(j, retry) ==
    LET job == bulkJobs[j]
        failed == In(job.items, Failed)
        items == Select([b \in failed |-> buyers[b].version])
    IN
    /\ job.status = "completed" /\ job.manifest = 0 /\ permitted
    /\ failed # {}
    /\ IF Cardinality(failed) > SyncLimit
       THEN /\ Unused(retry)
            /\ bulkJobs' = [bulkJobs EXCEPT ![retry] = Queued(job.op, items, 0)]
            /\ wakeups' = wakeups \cup {<<retry, 0>>}
            /\ UNCHANGED buyers
       ELSE /\ Versioned(failed)
            /\ buyers' = BuyersAfter(job.op, items, failed)
            /\ UNCHANGED <<bulkJobs, wakeups>>
    /\ UNCHANGED <<manifests, permitted>>

----------------------------------------------------------------------------
(* Frozen manifests.                                                       *)

Retries(source) == {m \in Manifests : manifests[m].status = "executed" /\ manifests[m].source = source}
RetryJobs(source) == {j \in BulkJobs : bulkJobs[j].manifest \in Retries(source)}

\* The receipts a retry of this source left, in a result or in a job.
Receipts(source, states) ==
    UNION ({In(manifests[m].items, states) : m \in Retries(source)}
           \cup {In(bulkJobs[j].items, states) : j \in RetryJobs(source)})
SuccessfulRetries(source) == Receipts(source, Succeeded)

ActiveRetry(source) == \E j \in RetryJobs(source) : bulkJobs[j].status \notin Finished

\* A manifest freezes the failed rows of a finished job that no retry of it
\* has handled, or a selection by filter, at their current versions.
Preview(m, op, source, excluded) ==
    LET rows == (IF source = 0 THEN Buyers
                 ELSE In(bulkJobs[source].items, Failed) \ SuccessfulRetries(source)) \ excluded
    IN
    /\ manifests[m].status = "absent" /\ \A n \in Manifests : n < m => manifests[n].status # "absent"
    /\ permitted
    /\ source # 0 => /\ bulkJobs[source].status \in Finished
                     /\ bulkJobs[source].op = op
                     /\ ~ActiveRetry(source)
    /\ rows # {}
    /\ manifests' = [manifests EXCEPT ![m] =
                       [status |-> "ready", op |-> op, source |-> source,
                        items |-> Select([b \in rows |-> buyers[b].version])]]
    /\ UNCHANGED <<buyers, bulkJobs, wakeups, permitted>>

\* Mutant: siblings of a manifest are only excluded while their job runs.
Serialized_ActiveOnly(m) == ~ActiveRetry(manifests[m].source)

\* Admissions of one source are serialized on the source job.
Serialized(m) ==
    LET row == manifests[m] IN
    row.source # 0 =>
        /\ bulkJobs[row.source].status \in Finished
        /\ ~ActiveRetry(row.source)
        /\ In(row.items, ItemStates) \cap SuccessfulRetries(row.source) = {}

Execute(m, j) ==
    LET row == manifests[m]
        rows == In(row.items, ItemStates)
    IN
    /\ row.status = "ready"
    /\ permitted
    /\ Serialized(m)
    /\ IF Cardinality(rows) > SyncLimit
       THEN /\ Unused(j)
            /\ bulkJobs' = [bulkJobs EXCEPT ![j] = Queued(row.op, row.items, m)]
            /\ wakeups' = wakeups \cup {<<j, 0>>}
            /\ manifests' = [manifests EXCEPT ![m].status = "executed"]
            /\ UNCHANGED buyers
       ELSE /\ Versioned(rows)
            /\ buyers' = BuyersAfter(row.op, row.items, rows)
            /\ manifests' = [manifests EXCEPT ![m].status = "executed",
                               ![m].items = ApplyRows(row.op, row.items, rows)]
            /\ UNCHANGED <<bulkJobs, wakeups>>
    /\ UNCHANGED permitted

----------------------------------------------------------------------------
(* Everybody else.                                                         *)

\* Another user revises the buyer and takes the target values away again.
EditBuyer(b) ==
    /\ buyers[b].version < MaxVersion
    /\ buyers' = [buyers EXCEPT ![b] = [version |-> @.version + 1, has |-> {}]]
    /\ UNCHANGED <<bulkJobs, manifests, wakeups, permitted>>

\* A role is revoked or given back, the chosen owner leaves or returns.
ChangeMembership ==
    /\ permitted' = ~permitted
    /\ UNCHANGED <<buyers, bulkJobs, manifests, wakeups>>

BulkNext ==
    \/ \E j \in BulkJobs, op \in Operations, s \in SUBSET Buyers : CreateBulkJob(j, op, s)
    \/ \E w \in wakeups : ApplyBulkChunk(w[1], w[2])
    \/ \E j \in BulkJobs : CancelBulkJob(j)
    \/ \E j, retry \in BulkJobs : RetryFailedOnly(j, retry)
    \/ \E m \in Manifests, op \in Operations, s \in Sources, x \in Exclusions :
          Preview(m, op, s, x)
    \/ \E m \in Manifests, j \in BulkJobs : Execute(m, j)
    \/ \E b \in Edited : EditBuyer(b)
    \/ ChangeMembership

BulkSpec == BulkInit /\ [][BulkNext]_bulkVars

----------------------------------------------------------------------------
(* Properties.                                                             *)

\* A job's counters are the counts of its rows in every state it passes
\* through, cancelled and refused rows included, it is finished exactly when
\* no row is pending, and while it is not there is one intent to go on with.
JobAddsUp ==
    \A j \in BulkJobs :
        LET job == bulkJobs[j]
            pending == In(job.items, {"pending"})
        IN
        /\ job.processed + Cardinality(pending) = Requested(job)
        /\ \A s \in Tallies : job.tally[s] = Cardinality(In(job.items, {s}))
        /\ job.status \in {"completed", "cancelled"} => pending = {}
        /\ job.status \in {"queued", "running", "cancel_requested"} =>
             pending # {} /\ {w \in wakeups : w[1] = j} = {<<j, job.processed>>}

\* A failed row of a job is handled by at most one retry, however many
\* manifests were previewed over it and in whatever order they are executed:
\* "Successful retry receipts exclude rows without rewriting that source job".
RetryHandlesOnce ==
    \A s \in BulkJobs : \A b \in Buyers :
        Cardinality({m \in Retries(s) : manifests[m].items[b].result \in Succeeded})
          + Cardinality({j \in RetryJobs(s) : bulkJobs[j].items[b].result \in Succeeded}) <= 1

\* Optimistic concurrency over jobs, manifests and edits: no two rows report
\* that they updated the same version of a buyer, and none reports an update
\* of a version that is still the current one.
VersionSpentOnce ==
    LET rs == {<<"job", j, b>> : j \in BulkJobs, b \in Buyers}
                      \cup {<<"manifest", m, b>> : m \in Manifests, b \in Buyers}
        op(r) == IF r[1] = "job" THEN bulkJobs[r[2]].op ELSE manifests[r[2]].op
        row(r) == IF r[1] = "job" THEN bulkJobs[r[2]].items[r[3]] ELSE manifests[r[2]].items[r[3]]
        spent == {r \in rs : row(r).result = "updated" /\ op(r) # "changeListMemberships"}
    IN /\ \A r, q \in spent : r # q /\ r[3] = q[3] => row(r).expected # row(q).expected
       /\ \A r \in spent : row(r).expected < buyers[r[3]].version

\* Every job ends: cancellation, revocation and conflicts only change how.
JobsFinish == \A j \in BulkJobs : bulkJobs[j].status = "queued" ~> bulkJobs[j].status \in Finished

\* The counts of a job are true of its rows, and a failed row is repaired by at
\* most one of its retries, through edits, cancellation and lost permissions.
BulkCountsAreTrue == JobAddsUp /\ RetryHandlesOnce /\ VersionSpentOnce
====
