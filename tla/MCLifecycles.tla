---- MODULE MCLifecycles ----
(***************************************************************************)
(* One exploration of the components that do work in the background, wait  *)
(* for approvals or keep a screen in step with the server: an initial      *)
(* choice says which component runs, it takes all steps of its own module, *)
(* and the others stay in one initial state. The states are the disjoint   *)
(* union of the components' states, and every property below is the        *)
(* property of its module.                                                 *)
(***************************************************************************)
EXTENDS Naturals, Sequences, FiniteSets, FiniteSetTheorems, TLAPS

CONSTANTS Buyers, BulkJobs, Manifests, Sources, Edited, Exclusions,
          Operations, ChunkSize, SyncLimit, MaxVersion   \* of BulkJob
CONSTANTS Scopes, Bodies, Surfaces, MaxSends, MaxMoves   \* of UserAction
CONSTANTS LastStep, MaxOperations, MaxFailures, MaxUnits   \* of JobWorkflow
CONSTANTS MaxBackoff   \* of JobPoller
CONSTANTS Users, MaxGeneration, MaxLoads   \* of BrowserSession
CONSTANTS Sections, ToolCount, MaxIntake   \* of SalesTask
CONSTANTS Members, Horizon, Ends, MaxChanges, MaxAuthorities, MaxRequests,
          MaxDecisions   \* of PolicyActivation
CONSTANTS Hosts, Plans, ReviewedPlans, Concurrency, MaxDeliveries   \* of LiveResearch

\* Requests are counted, and a body says something.
ASSUME UserAssumption == MaxSends \in Nat /\ "none" \notin Bodies

\* Ids of jobs and manifests are not 0, which stands for none.
ASSUME BulkAssumption == 
    /\ IsFiniteSet(Buyers) /\ 0 \notin BulkJobs \cup Manifests
    /\ Sources \subseteq BulkJobs \cup {0} /\ SyncLimit \in Nat

\* A plan has finitely many sections and tools.
ASSUME SalesAssumption == IsFiniteSet(Sections) /\ ToolCount \in Nat

\* A plan freezes a number of queries.
ASSUME LiveAssumption == Plans \subseteq Nat

\* A failure lengthens the delay up to a limit.
ASSUME PollerAssumption == MaxBackoff \in Nat

\* Terms end at instants of the database's clock.
ASSUME PolicyAssumption == Ends \subseteq Nat

VARIABLE which          \* the component that is explored

----------------------------------------------------------------------------
\* Bulk jobs, and what their theorem rests on.

VARIABLES buyers, bulkJobs, manifests, wakeups, permitted
bulkVars == <<buyers, bulkJobs, manifests, wakeups, permitted>>

Bulk == INSTANCE BulkJob

RowRecord == [expected : Nat, result : Bulk!ItemStates \cup {"none"}]
BulkJobRecord ==
    [status : Bulk!JobStatuses, op : Operations \cup {"none"}, items : [Buyers -> RowRecord],
     processed : Nat, tally : [Bulk!Tallies -> Nat], manifest : Manifests \cup {0}]
ManifestRecord ==
    [status : {"absent", "ready", "executed"}, op : Operations \cup {"none"},
     source : BulkJobs \cup {0}, items : [Buyers -> RowRecord]]
BuyerRecord == [version : Nat, has : SUBSET (Operations \cup {"none"})]

BulkTypes ==
    /\ buyers \in [Buyers -> BuyerRecord]
    /\ bulkJobs \in [BulkJobs -> BulkJobRecord]
    /\ manifests \in [Manifests -> ManifestRecord]
    /\ wakeups \subseteq BulkJobs \X Nat

\* A job that was not created has no intent; a manifest that was not executed
\* has no results, and no job of its own.
IntentsOf(j) == {w \in wakeups : w[1] = j}
NothingAhead ==
    /\ \A j \in BulkJobs : bulkJobs[j].status = "absent" => IntentsOf(j) = {}
    /\ \A m \in Manifests : manifests[m].status # "executed" =>
          /\ \A b \in Buyers : manifests[m].items[b].result \in {"pending", "none"}
          /\ \A j \in BulkJobs : bulkJobs[j].manifest # m

\* Who handled a failed row of the job s: a manifest at once, or a job of one.
ByManifest(m, s, b) == m \in Bulk!Retries(s) /\ manifests[m].items[b].result \in Bulk!Succeeded
ByJob(j, s, b) == j \in Bulk!RetryJobs(s) /\ bulkJobs[j].items[b].result \in Bulk!Succeeded
Unhandled(s, b) == /\ \A m \in Manifests : ~ByManifest(m, s, b)
                   /\ \A j \in BulkJobs : ~ByJob(j, s, b)

OneReceipt ==
    \A s \in BulkJobs, b \in Buyers :
        /\ \A m, n \in Manifests : ByManifest(m, s, b) /\ ByManifest(n, s, b) => m = n
        /\ \A i, j \in BulkJobs : ByJob(i, s, b) /\ ByJob(j, s, b) => i = j
        /\ \A m \in Manifests, j \in BulkJobs : ~(ByManifest(m, s, b) /\ ByJob(j, s, b))

\* One retry of a job runs at a time, over rows that no other one handled.
OneRetryRuns ==
    \A s \in BulkJobs : \A i \in Bulk!RetryJobs(s) :
        bulkJobs[i].status \notin Bulk!Finished =>
            /\ \A j \in Bulk!RetryJobs(s) : bulkJobs[j].status \notin Bulk!Finished => i = j
            /\ \A b \in Bulk!In(bulkJobs[i].items, {"pending"}) : Unhandled(s, b)

\* The rows that report a new version of the buyer b.
SpentByJob(j, b) == bulkJobs[j].items[b].result = "updated" /\ bulkJobs[j].op # "changeListMemberships"
SpentByManifest(m, b) ==
    manifests[m].items[b].result = "updated" /\ manifests[m].op # "changeListMemberships"

SpentOnce ==
    \A b \in Buyers :
        /\ \A j \in BulkJobs : SpentByJob(j, b) => bulkJobs[j].items[b].expected < buyers[b].version
        /\ \A m \in Manifests :
              SpentByManifest(m, b) => manifests[m].items[b].expected < buyers[b].version
        /\ \A i, j \in BulkJobs : SpentByJob(i, b) /\ SpentByJob(j, b) /\ i # j =>
              bulkJobs[i].items[b].expected # bulkJobs[j].items[b].expected
        /\ \A m, n \in Manifests : SpentByManifest(m, b) /\ SpentByManifest(n, b) /\ m # n =>
              manifests[m].items[b].expected # manifests[n].items[b].expected
        /\ \A j \in BulkJobs, m \in Manifests : SpentByJob(j, b) /\ SpentByManifest(m, b) =>
              bulkJobs[j].items[b].expected # manifests[m].items[b].expected

BulkInv == BulkTypes /\ NothingAhead /\ Bulk!JobAddsUp /\ OneReceipt /\ OneRetryRuns /\ SpentOnce

\* The cardinality of BulkJob is the one of the theorems on finite sets.
LEMMA SameCardinality == \A S : Bulk!Cardinality(S) = Cardinality(S)
BY DEF Bulk!Cardinality, Cardinality

\* Counting rows.
LEMMA RowsAreFinite ==
    ASSUME NEW items, NEW states
    PROVE  Bulk!In(items, states) \subseteq Buyers /\ IsFiniteSet(Bulk!In(items, states))
           /\ Cardinality(Bulk!In(items, states)) \in Nat
<1>1. Bulk!In(items, states) \subseteq Buyers
  BY DEF Bulk!In
<1> QED BY <1>1, BulkAssumption, FS_Subset, FS_CardinalityType

\* What is selected is pending, and all that is requested.
LEMMA SelectedRows ==
    ASSUME NEW S \in SUBSET Buyers, NEW versions, DOMAIN versions = S, \A b \in S : versions[b] \in Nat
    PROVE  /\ Bulk!Select(versions) \in [Buyers -> RowRecord]
           /\ Bulk!In(Bulk!Select(versions), Bulk!ItemStates) = S /\ Bulk!In(Bulk!Select(versions), {"pending"}) = S
           /\ \A s \in Bulk!Tallies : Bulk!In(Bulk!Select(versions), {s}) = {}
           /\ \A b \in Buyers : Bulk!Select(versions)[b].result \in {"pending", "none"}
<1>1. \A b \in S : Bulk!Select(versions)[b] = [expected |-> versions[b], result |-> "pending"]
  BY DEF Bulk!Select
<1>2. \A b \in Buyers \ S : Bulk!Select(versions)[b] = [expected |-> 0, result |-> "none"]
  BY DEF Bulk!Select, Bulk!NotSelected
<1>3. \A b \in Buyers : Bulk!Select(versions)[b] \in RowRecord
  <2>0. \A p \in Nat : [expected |-> p, result |-> "pending"] \in RowRecord
    BY DEF RowRecord, Bulk!ItemStates
  <2>1. \A b \in S : Bulk!Select(versions)[b] \in RowRecord
    BY <1>1, <2>0
  <2>2. \A b \in Buyers \ S : Bulk!Select(versions)[b] \in RowRecord
    BY <1>2 DEF RowRecord
  <2> QED BY <2>1, <2>2
<1>4. Bulk!Select(versions) \in [Buyers -> RowRecord]
  BY <1>3 DEF Bulk!Select
<1>5. /\ \A b \in S : Bulk!Select(versions)[b].result = "pending"
      /\ \A b \in Buyers \ S : Bulk!Select(versions)[b].result = "none"
  <2>1. ASSUME NEW b \in S PROVE Bulk!Select(versions)[b].result = "pending"
    <3>1. Bulk!Select(versions)[b] = [expected |-> versions[b], result |-> "pending"]
      BY <1>1
    <3> QED BY <3>1
  <2>2. ASSUME NEW b \in Buyers \ S PROVE Bulk!Select(versions)[b].result = "none"
    <3>1. Bulk!Select(versions)[b] = [expected |-> 0, result |-> "none"]
      BY <1>2
    <3> QED BY <3>1
  <2> QED BY <2>1, <2>2
<1> QED BY <1>4, <1>5 DEF Bulk!In, Bulk!ItemStates, Bulk!Tallies, Bulk!Succeeded, Bulk!Failed

\* A job is queued with no count and no result.
LEMMA QueuedIs ==
    ASSUME NEW items \in [Buyers -> RowRecord], NEW op \in Operations \cup {"none"}, NEW m \in Manifests \cup {0}
    PROVE  /\ Bulk!Queued(op, items, m) \in BulkJobRecord
           /\ Bulk!Queued(op, items, m).status = "queued" /\ Bulk!Queued(op, items, m).items = items
           /\ Bulk!Queued(op, items, m).manifest = m /\ Bulk!Queued(op, items, m).op = op
           /\ Bulk!Queued(op, items, m).processed = 0
           /\ \A s \in Bulk!Tallies : Bulk!Queued(op, items, m).tally[s] = 0
<1>1. /\ Bulk!Queued(op, items, m).status = "queued" /\ Bulk!Queued(op, items, m).items = items
      /\ Bulk!Queued(op, items, m).manifest = m /\ Bulk!Queued(op, items, m).op = op
      /\ Bulk!Queued(op, items, m).processed = 0
      /\ Bulk!Queued(op, items, m).tally = [s \in Bulk!Tallies |-> 0]
  BY DEF Bulk!Queued, Bulk!NoJob
<1>2. [s \in Bulk!Tallies |-> 0] \in [Bulk!Tallies -> Nat] /\ "queued" \in Bulk!JobStatuses
  BY DEF Bulk!JobStatuses
<1>3. Bulk!NoJob \in BulkJobRecord
  <2>1. Bulk!NoRows \in [Buyers -> RowRecord]
    BY DEF Bulk!NoRows, Bulk!NotSelected, RowRecord
  <2>2. "absent" \in Bulk!JobStatuses
    BY DEF Bulk!JobStatuses
  <2> QED BY <1>2, <2>1, <2>2 DEF Bulk!NoJob, BulkJobRecord
<1>4. Bulk!Queued(op, items, m) \in BulkJobRecord
  <2>1. \A x \in BulkJobRecord, w \in Bulk!JobStatuses :
          [x EXCEPT !.status = w, !.op = op, !.items = items, !.manifest = m] \in BulkJobRecord
    BY DEF BulkJobRecord
  <2> QED BY <1>2, <1>3, <2>1 DEF Bulk!Queued
<1> QED BY <1>1, <1>4

\* JobAddsUp of one job, W being its ready intents.
AddsUp(j, job, W) ==
    /\ job.processed + Cardinality(Bulk!In(job.items, {"pending"})) = Bulk!Requested(job)
    /\ \A s \in Bulk!Tallies : job.tally[s] = Cardinality(Bulk!In(job.items, {s}))
    /\ job.status \in {"completed", "cancelled"} => Bulk!In(job.items, {"pending"}) = {}
    /\ job.status \in {"queued", "running", "cancel_requested"} =>
          Bulk!In(job.items, {"pending"}) # {} /\ W = {<<j, job.processed>>}

LEMMA JobsAddUp == Bulk!JobAddsUp <=> \A j \in BulkJobs : AddsUp(j, bulkJobs[j], IntentsOf(j))
BY SameCardinality DEF Bulk!JobAddsUp, AddsUp, IntentsOf

\* Rows of a job that a step finishes, all of them pending before.
Settles(before, after, chunk) ==
    /\ chunk \subseteq Bulk!In(before, {"pending"})
    /\ \A b \in chunk : after[b].result \in Bulk!ItemStates \ {"pending"}
    /\ \A b \in Buyers \ chunk : after[b].result = before[b].result
    /\ \A b \in Buyers : after[b].expected = before[b].expected

LEMMA SettledRows ==
    ASSUME NEW before, NEW after, NEW chunk, Settles(before, after, chunk)
    PROVE  /\ Bulk!In(after, Bulk!ItemStates) = Bulk!In(before, Bulk!ItemStates)
           /\ Bulk!In(after, {"pending"}) = Bulk!In(before, {"pending"}) \ chunk
           /\ Cardinality(chunk) \in Nat
           /\ Cardinality(Bulk!In(before, {"pending"})) = Cardinality(Bulk!In(after, {"pending"})) + Cardinality(chunk)
           /\ \A s \in Bulk!Tallies : Cardinality(Bulk!In(after, {s})) =
                 Cardinality(Bulk!In(before, {s})) + Cardinality(chunk \cap Bulk!In(after, {s}))
<1>1. Bulk!In(after, Bulk!ItemStates) = Bulk!In(before, Bulk!ItemStates)
  BY DEF Bulk!In, Settles, Bulk!ItemStates
<1>2. Bulk!In(after, {"pending"}) = Bulk!In(before, {"pending"}) \ chunk
  BY DEF Bulk!In, Settles, Bulk!ItemStates
<1>3. IsFiniteSet(chunk) /\ Cardinality(chunk) \in Nat
  BY RowsAreFinite, FS_Subset, FS_CardinalityType DEF Settles
<1>4. Cardinality(Bulk!In(before, {"pending"})) = Cardinality(Bulk!In(after, {"pending"})) + Cardinality(chunk)
  <2>1. /\ Bulk!In(after, {"pending"}) \cup chunk = Bulk!In(before, {"pending"})
        /\ Bulk!In(after, {"pending"}) \cap chunk = {}
    BY <1>2 DEF Settles
  <2>2. IsFiniteSet(Bulk!In(after, {"pending"})) /\ Cardinality(Bulk!In(after, {"pending"})) \in Nat
    BY RowsAreFinite
  <2>3. Cardinality(Bulk!In(after, {"pending"}) \cup chunk)
          = Cardinality(Bulk!In(after, {"pending"})) + Cardinality(chunk)
          - Cardinality(Bulk!In(after, {"pending"}) \cap chunk)
    BY <1>3, <2>2, FS_Union
  <2>4. Cardinality(Bulk!In(after, {"pending"}) \cap chunk) = 0
    BY <2>1, FS_EmptySet
  <2>5. Cardinality(Bulk!In(after, {"pending"}) \cup chunk) = Cardinality(Bulk!In(before, {"pending"}))
    BY <2>1
  <2> QED BY <1>3, <2>2, <2>3, <2>4, <2>5
<1>5. ASSUME NEW s \in Bulk!Tallies
      PROVE  Cardinality(Bulk!In(after, {s})) = Cardinality(Bulk!In(before, {s})) + Cardinality(chunk \cap Bulk!In(after, {s}))
  <2>1. s # "pending"
    BY DEF Bulk!Tallies, Bulk!Succeeded, Bulk!Failed
  <2>2. /\ Bulk!In(after, {s}) = Bulk!In(before, {s}) \cup (chunk \cap Bulk!In(after, {s}))
        /\ Bulk!In(before, {s}) \cap (chunk \cap Bulk!In(after, {s})) = {}
    BY <2>1 DEF Bulk!In, Settles
  <2>3. IsFiniteSet(chunk \cap Bulk!In(after, {s}))
    BY <1>3, FS_Subset
  <2>4. IsFiniteSet(Bulk!In(before, {s})) /\ Cardinality(Bulk!In(before, {s})) \in Nat
        /\ Cardinality(chunk \cap Bulk!In(after, {s})) \in Nat
    BY <2>3, RowsAreFinite, FS_CardinalityType
  <2>5. Cardinality(Bulk!In(before, {s}) \cup (chunk \cap Bulk!In(after, {s})))
          = Cardinality(Bulk!In(before, {s})) + Cardinality(chunk \cap Bulk!In(after, {s}))
          - Cardinality(Bulk!In(before, {s}) \cap (chunk \cap Bulk!In(after, {s})))
    BY <2>3, <2>4, FS_Union
  <2>6. Cardinality(Bulk!In(before, {s}) \cap (chunk \cap Bulk!In(after, {s}))) = 0
    BY <2>2, FS_EmptySet
  <2>7. Cardinality(Bulk!In(before, {s}) \cup (chunk \cap Bulk!In(after, {s}))) = Cardinality(Bulk!In(after, {s}))
    BY <2>2
  <2> QED BY <2>4, <2>5, <2>6, <2>7
<1> QED BY <1>1, <1>2, <1>3, <1>4, <1>5

LEMMA ChunkIsPending == ASSUME NEW items PROVE Bulk!Chunk(items) \subseteq Bulk!In(items, {"pending"})
BY DEF Bulk!Chunk

\* What applying or refusing rows makes of them.
LEMMA OutcomesSettle ==
    ASSUME NEW items \in [Buyers -> RowRecord], NEW op, NEW chunk, chunk \subseteq Bulk!In(items, {"pending"}),
           buyers \in [Buyers -> BuyerRecord]
    PROVE  /\ Settles(items, Bulk!ApplyRows(op, items, chunk), chunk)
           /\ Bulk!ApplyRows(op, items, chunk) \in [Buyers -> RowRecord]
           /\ \A b \in chunk : Bulk!ApplyRows(op, items, chunk)[b].result = Bulk!Outcome(op, buyers[b], items[b].expected)
           /\ \A word \in {"blocked", "cancelled"} :
                 /\ Settles(items, Bulk!Refuse(items, chunk, word), chunk)
                 /\ \A b \in chunk : Bulk!Refuse(items, chunk, word)[b].result = word
                 /\ Bulk!Refuse(items, chunk, word) \in [Buyers -> RowRecord]
<1>1. chunk \subseteq Buyers
  BY DEF Bulk!In
<1>3. \A r \in RowRecord, w \in Bulk!ItemStates :
         /\ [r EXCEPT !.result = w] \in RowRecord /\ [r EXCEPT !.result = w].result = w
         /\ [r EXCEPT !.result = w].expected = r.expected
  BY DEF RowRecord
<1>4. \A b \in Buyers : \A e : Bulk!Outcome(op, buyers[b], e) \in {"updated", "unchanged", "conflict"}
  BY DEF Bulk!Outcome
<1>5. /\ \A b \in chunk : Bulk!ApplyRows(op, items, chunk)[b] \in RowRecord
      /\ \A b \in chunk : Bulk!ApplyRows(op, items, chunk)[b].result \in Bulk!Tallies
      /\ \A b \in chunk : Bulk!ApplyRows(op, items, chunk)[b].result = Bulk!Outcome(op, buyers[b], items[b].expected)
      /\ \A b \in chunk : Bulk!ApplyRows(op, items, chunk)[b].expected = items[b].expected
      /\ \A b \in Buyers \ chunk : Bulk!ApplyRows(op, items, chunk)[b] = items[b]
  <2>1. ASSUME NEW b \in chunk
        PROVE  /\ Bulk!ApplyRows(op, items, chunk)[b] \in RowRecord
               /\ Bulk!ApplyRows(op, items, chunk)[b].result \in Bulk!Tallies
               /\ Bulk!ApplyRows(op, items, chunk)[b].result = Bulk!Outcome(op, buyers[b], items[b].expected)
               /\ Bulk!ApplyRows(op, items, chunk)[b].expected = items[b].expected
    <3>1. PICK w : w = Bulk!Outcome(op, buyers[b], items[b].expected)
      OBVIOUS
    <3>2. Bulk!ApplyRows(op, items, chunk)[b] = [items[b] EXCEPT !.result = w]
      BY <1>1, <3>1 DEF Bulk!ApplyRows
    <3>3. w \in Bulk!ItemStates /\ w \in Bulk!Tallies
      BY <1>1, <1>4, <3>1 DEF Bulk!ItemStates, Bulk!Tallies, Bulk!Succeeded, Bulk!Failed
    <3>4. items[b] \in RowRecord
      BY <1>1
    <3> QED BY <1>3, <3>1, <3>2, <3>3, <3>4
  <2>2. \A b \in Buyers \ chunk : Bulk!ApplyRows(op, items, chunk)[b] = items[b]
    BY DEF Bulk!ApplyRows
  <2> QED BY <2>1, <2>2
<1>6. ASSUME NEW word \in {"blocked", "cancelled"}
      PROVE  /\ \A b \in chunk : Bulk!Refuse(items, chunk, word)[b] \in RowRecord
             /\ \A b \in chunk : Bulk!Refuse(items, chunk, word)[b].result = word
             /\ \A b \in chunk : Bulk!Refuse(items, chunk, word)[b].expected = items[b].expected
             /\ \A b \in Buyers \ chunk : Bulk!Refuse(items, chunk, word)[b] = items[b]
  <2>1. ASSUME NEW b \in chunk
        PROVE  /\ Bulk!Refuse(items, chunk, word)[b] \in RowRecord
               /\ Bulk!Refuse(items, chunk, word)[b].result = word
               /\ Bulk!Refuse(items, chunk, word)[b].expected = items[b].expected
    <3>2. Bulk!Refuse(items, chunk, word)[b] = [items[b] EXCEPT !.result = word]
      BY <1>1 DEF Bulk!Refuse
    <3>3. word \in Bulk!ItemStates
      BY DEF Bulk!ItemStates
    <3>4. items[b] \in RowRecord
      BY <1>1
    <3> QED BY <1>3, <3>2, <3>3, <3>4
  <2>2. \A b \in Buyers \ chunk : Bulk!Refuse(items, chunk, word)[b] = items[b]
    BY DEF Bulk!Refuse
  <2> QED BY <2>1, <2>2
<1>7. \A s \in Bulk!Tallies : s \in Bulk!ItemStates \ {"pending"}
  BY DEF Bulk!Tallies, Bulk!Succeeded, Bulk!Failed, Bulk!ItemStates
<1>8. "blocked" \in Bulk!ItemStates \ {"pending"} /\ "cancelled" \in Bulk!ItemStates \ {"pending"}
  BY DEF Bulk!ItemStates
<1>9. /\ Settles(items, Bulk!ApplyRows(op, items, chunk), chunk)
      /\ Bulk!ApplyRows(op, items, chunk) \in [Buyers -> RowRecord]
  <2>1. \A b \in Buyers : Bulk!ApplyRows(op, items, chunk)[b] \in RowRecord
    BY <1>5
  <2>2. Bulk!ApplyRows(op, items, chunk) \in [Buyers -> RowRecord]
    BY <2>1 DEF Bulk!ApplyRows
  <2> QED BY <1>1, <1>5, <1>7, <2>2 DEF Settles
<1>10. ASSUME NEW word \in {"blocked", "cancelled"}
       PROVE  /\ Settles(items, Bulk!Refuse(items, chunk, word), chunk)
              /\ Bulk!Refuse(items, chunk, word) \in [Buyers -> RowRecord]
  <2>1. \A b \in Buyers : Bulk!Refuse(items, chunk, word)[b] \in RowRecord
    BY <1>6
  <2>2. Bulk!Refuse(items, chunk, word) \in [Buyers -> RowRecord]
    BY <2>1 DEF Bulk!Refuse
  <2>3. word \in Bulk!ItemStates \ {"pending"}
    BY <1>8
  <2> QED BY <1>1, <1>6, <2>2, <2>3 DEF Settles
<1> QED BY <1>5, <1>6, <1>9, <1>10

\* A row that reports a new version was selected at the one that was current.
LEMMA UpdatedWasCurrent ==
    ASSUME NEW op, NEW buyer, NEW expected, Bulk!Outcome(op, buyer, expected) = "updated"
    PROVE  buyer.version = expected
BY DEF Bulk!Outcome

\* Versions only grow, and an update but of a list makes a new one.
BuyersGo(op, items, chunk, new) ==
    /\ new \in [Buyers -> BuyerRecord]
    /\ \A b \in Buyers : buyers[b].version <= new[b].version
    /\ \A b \in Buyers \cap chunk :
          Bulk!Outcome(op, buyers[b], items[b].expected) = "updated" /\ op # "changeListMemberships" =>
             new[b].version = buyers[b].version + 1
LEMMA BuyersMove ==
    ASSUME NEW items, NEW op \in Operations \cup {"none"}, NEW chunk,
           buyers \in [Buyers -> BuyerRecord]
    PROVE  BuyersGo(op, items, chunk, Bulk!BuyersAfter(op, items, chunk))
<1>1. ASSUME NEW b \in Buyers
      PROVE  /\ Bulk!Applied(op, buyers[b]) \in BuyerRecord
             /\ buyers[b].version <= Bulk!Applied(op, buyers[b]).version
             /\ op # "changeListMemberships" => Bulk!Applied(op, buyers[b]).version = buyers[b].version + 1
             /\ buyers[b] \in BuyerRecord /\ buyers[b].version \in Nat
  <2>1. buyers[b] \in BuyerRecord
    OBVIOUS
  <2>2. buyers[b].version \in Nat /\ buyers[b].has \subseteq Operations \cup {"none"}
    BY <2>1 DEF BuyerRecord
  <2>3. \A v \in Nat, h \in SUBSET (Operations \cup {"none"}) : [version |-> v, has |-> h] \in BuyerRecord
    BY DEF BuyerRecord
  <2>4. CASE op = "changeListMemberships"
    <3>1. Bulk!Applied(op, buyers[b]) = [version |-> buyers[b].version, has |-> buyers[b].has \cup {op}]
      BY <2>4 DEF Bulk!Applied
    <3> QED BY <2>1, <2>2, <2>3, <2>4, <3>1
  <2>5. CASE op # "changeListMemberships"
    <3>1. Bulk!Applied(op, buyers[b]) = [version |-> buyers[b].version + 1, has |-> buyers[b].has \cup {op}]
      BY <2>5 DEF Bulk!Applied
    <3> QED BY <2>1, <2>2, <2>3, <2>5, <3>1
  <2> QED BY <2>4, <2>5
<1>2. ASSUME NEW b \in Buyers
      PROVE  /\ Bulk!BuyersAfter(op, items, chunk)[b] \in BuyerRecord
             /\ buyers[b].version <= Bulk!BuyersAfter(op, items, chunk)[b].version
             /\ b \in chunk /\ Bulk!Outcome(op, buyers[b], items[b].expected) = "updated" =>
                   Bulk!BuyersAfter(op, items, chunk)[b] = Bulk!Applied(op, buyers[b])
  <2>1. CASE b \in chunk /\ Bulk!Outcome(op, buyers[b], items[b].expected) = "updated"
    <3>1. Bulk!BuyersAfter(op, items, chunk)[b] = Bulk!Applied(op, buyers[b])
      BY <2>1 DEF Bulk!BuyersAfter
    <3> QED BY <1>1, <3>1
  <2>2. CASE ~(b \in chunk /\ Bulk!Outcome(op, buyers[b], items[b].expected) = "updated")
    <3>1. Bulk!BuyersAfter(op, items, chunk)[b] = buyers[b]
      BY <2>2 DEF Bulk!BuyersAfter
    <3> QED BY <1>1, <2>2, <3>1
  <2> QED BY <2>1, <2>2
<1>3. Bulk!BuyersAfter(op, items, chunk) \in [Buyers -> BuyerRecord]
  BY <1>2 DEF Bulk!BuyersAfter
<1>4. \A b \in Buyers \cap chunk :
         Bulk!Outcome(op, buyers[b], items[b].expected) = "updated" /\ op # "changeListMemberships" =>
            Bulk!BuyersAfter(op, items, chunk)[b].version = buyers[b].version + 1
  BY <1>1, <1>2
<1>5. \A b \in Buyers : buyers[b].version <= Bulk!BuyersAfter(op, items, chunk)[b].version
  BY <1>2
<1> QED BY <1>3, <1>4, <1>5 DEF BuyersGo

\* A job that was just created adds up.
LEMMA QueuedAddsUp ==
    ASSUME NEW j, NEW job, job.status = "queued", job.processed = 0,
           \A s \in Bulk!Tallies : job.tally[s] = 0 /\ Bulk!In(job.items, {s}) = {},
           Bulk!In(job.items, {"pending"}) = Bulk!In(job.items, Bulk!ItemStates), Bulk!In(job.items, {"pending"}) # {}
    PROVE  AddsUp(j, job, {<<j, 0>>})
<1>1. Cardinality(Bulk!In(job.items, {"pending"})) \in Nat
  BY RowsAreFinite
<1>2. job.processed + Cardinality(Bulk!In(job.items, {"pending"})) = Bulk!Requested(job)
  BY SameCardinality, <1>1 DEF Bulk!Requested
<1>3. \A s \in Bulk!Tallies : job.tally[s] = Cardinality(Bulk!In(job.items, {s}))
  BY FS_EmptySet
<1> QED BY <1>2, <1>3 DEF AddsUp

\* What a chunk leaves, whether it applied, refused or cancelled its rows.
Proceeds(j, job, after, chunk, W) ==
    /\ after \in BulkJobRecord
    /\ after.op = job.op /\ after.manifest = job.manifest
    /\ after.status \in Bulk!JobStatuses \ {"absent", "failed"}
    /\ Settles(job.items, after.items, chunk)
    /\ AddsUp(j, after, W)

\* The bookkeeping of a chunk.
Books(job, after, items, chunk) ==
    /\ after.items = items /\ after.processed = job.processed + Cardinality(chunk)
    /\ after.processed = Bulk!Requested(job) => after.status \in {"completed", "cancelled"}
    /\ after.processed # Bulk!Requested(job) => after.status \in {"running", "cancel_requested"}
    /\ \A s \in Bulk!Tallies : after.tally[s] = job.tally[s] + Cardinality(chunk \cap Bulk!In(items, {s}))

LEMMA ChunkProceeds ==
    ASSUME NEW j, NEW job \in BulkJobRecord, NEW W, AddsUp(j, job, W),
           NEW chunk, NEW items \in [Buyers -> RowRecord], Settles(job.items, items, chunk),
           NEW after \in BulkJobRecord, Books(job, after, items, chunk)
    PROVE  AddsUp(j, after, Bulk!NextWakeup(j, after))
<1> USE DEF Books
<1>1. /\ Bulk!Requested(after) = Bulk!Requested(job)
      /\ Cardinality(chunk) \in Nat
      /\ Cardinality(Bulk!In(job.items, {"pending"})) = Cardinality(Bulk!In(items, {"pending"})) + Cardinality(chunk)
      /\ \A s \in Bulk!Tallies : Cardinality(Bulk!In(items, {s})) =
            Cardinality(Bulk!In(job.items, {s})) + Cardinality(chunk \cap Bulk!In(items, {s}))
  BY SettledRows DEF Bulk!Requested
<1>2. job.processed \in Nat /\ after.processed \in Nat /\ job.tally \in [Bulk!Tallies -> Nat]
  BY DEF BulkJobRecord
<1>3. IsFiniteSet(Bulk!In(items, {"pending"})) /\ Cardinality(Bulk!In(items, {"pending"})) \in Nat
  BY RowsAreFinite
<1>4. job.processed + Cardinality(Bulk!In(job.items, {"pending"})) = Bulk!Requested(job)
  BY DEF AddsUp
<1>5. after.processed + Cardinality(Bulk!In(items, {"pending"})) = Bulk!Requested(after)
  BY <1>1, <1>2, <1>3, <1>4
<1>6. \A s \in Bulk!Tallies : after.tally[s] = Cardinality(Bulk!In(items, {s}))
  BY <1>1, <1>2 DEF AddsUp
<1>7. CASE after.processed = Bulk!Requested(job)
  <2>1. Cardinality(Bulk!In(items, {"pending"})) = 0
    BY <1>1, <1>2, <1>3, <1>5, <1>7
  <2>2. Bulk!In(items, {"pending"}) = {}
    BY <1>3, <2>1, FS_EmptySet
  <2>3. after.status \in {"completed", "cancelled"}
    BY <1>7
  <2> QED BY <1>5, <1>6, <2>2, <2>3 DEF AddsUp
<1>8. CASE after.processed # Bulk!Requested(job)
  <2>1. Cardinality(Bulk!In(items, {"pending"})) # 0
    BY <1>1, <1>2, <1>3, <1>5, <1>8
  <2>2. Bulk!In(items, {"pending"}) # {}
    BY <1>3, <2>1, FS_EmptySet
  <2>3. after.processed < Bulk!Requested(after)
    BY <1>2, <1>3, <1>5, <2>1
  <2>4. Bulk!NextWakeup(j, after) = {<<j, after.processed>>}
    BY <2>3 DEF Bulk!NextWakeup
  <2>5. after.status \in {"running", "cancel_requested"}
    BY <1>8
  <2> QED BY <1>5, <1>6, <2>2, <2>4, <2>5 DEF AddsUp
<1> QED BY <1>7, <1>8

LEMMA CancelledProceeds ==
    ASSUME NEW j, NEW job \in BulkJobRecord, NEW W, AddsUp(j, job, W), buyers \in [Buyers -> BuyerRecord]
    PROVE  LET chunk == Bulk!Chunk(job.items)  after == Bulk!Cancelled(job, chunk) IN
           /\ Proceeds(j, job, after, chunk, Bulk!NextWakeup(j, after))
           /\ \A b \in chunk : after.items[b].result = "cancelled"
<1> DEFINE chunk == Bulk!Chunk(job.items)
           items == Bulk!Refuse(job.items, chunk, "cancelled")
           after == Bulk!Cancelled(job, chunk)
<1>1. /\ Settles(job.items, items, chunk) /\ items \in [Buyers -> RowRecord]
      /\ \A b \in chunk : items[b].result = "cancelled"
  <2>1. job.items \in [Buyers -> RowRecord] /\ chunk \subseteq Bulk!In(job.items, {"pending"})
    BY ChunkIsPending DEF BulkJobRecord
  <2> QED BY <2>1, OutcomesSettle
<1> HIDE DEF chunk, items, after
<1>2. /\ Cardinality(chunk) \in Nat
      /\ \A s \in Bulk!Tallies : chunk \cap Bulk!In(items, {s}) = {}
  BY <1>1, SettledRows DEF Bulk!In, Bulk!Tallies, Bulk!Succeeded, Bulk!Failed
<1>3. \E w \in {"cancelled", "cancel_requested"} :
         after = [job EXCEPT !.items = items, !.processed = job.processed + Cardinality(chunk), !.status = w]
         /\ w = IF job.processed + Cardinality(chunk) = Bulk!Requested(job) THEN "cancelled" ELSE "cancel_requested"
  BY SameCardinality DEF after, Bulk!Cancelled, items
<1>4. PICK w \in {"cancelled", "cancel_requested"} :
         after = [job EXCEPT !.items = items, !.processed = job.processed + Cardinality(chunk), !.status = w]
         /\ w = IF job.processed + Cardinality(chunk) = Bulk!Requested(job) THEN "cancelled" ELSE "cancel_requested"
  BY <1>3
<1>5. /\ after.items = items /\ after.processed = job.processed + Cardinality(chunk) /\ after.status = w
      /\ after.op = job.op /\ after.manifest = job.manifest /\ after.tally = job.tally
  BY <1>4 DEF BulkJobRecord
<1>6. after \in BulkJobRecord
  <2>1. job.processed + Cardinality(chunk) \in Nat
    BY <1>2 DEF BulkJobRecord
  <2>2. w \in Bulk!JobStatuses
    BY DEF Bulk!JobStatuses, Bulk!Finished
  <2>3. \A p \in Nat, s \in Bulk!JobStatuses :
           [job EXCEPT !.items = items, !.processed = p, !.status = s] \in BulkJobRecord
    BY <1>1 DEF BulkJobRecord
  <2> QED BY <1>4, <2>1, <2>2, <2>3
<1>7. \A s \in Bulk!Tallies : after.tally[s] = job.tally[s] + Cardinality(chunk \cap Bulk!In(items, {s}))
  <2>1. job.tally \in [Bulk!Tallies -> Nat]
    BY DEF BulkJobRecord
  <2>2. \A s \in Bulk!Tallies : Cardinality(chunk \cap Bulk!In(items, {s})) = 0
    BY <1>2, FS_EmptySet
  <2> QED BY <1>5, <2>1, <2>2
<1>8. /\ after.processed = Bulk!Requested(job) => after.status \in {"completed", "cancelled"}
      /\ after.processed # Bulk!Requested(job) => after.status \in {"running", "cancel_requested"}
  BY <1>4, <1>5
<1>9. AddsUp(j, after, Bulk!NextWakeup(j, after))
  <2>1. Books(job, after, items, chunk)
    BY <1>5, <1>7, <1>8 DEF Books
  <2> QED BY <2>1, <1>1, <1>6, ChunkProceeds
<1>10. after.status \in Bulk!JobStatuses \ {"absent", "failed"}
  BY <1>5 DEF Bulk!JobStatuses, Bulk!Finished
<1> QED BY <1>1, <1>5, <1>6, <1>9, <1>10 DEF Proceeds, chunk, after

LEMMA AdvancedProceeds ==
    ASSUME NEW j, NEW job \in BulkJobRecord, NEW W, AddsUp(j, job, W),
           NEW chunk, NEW items \in [Buyers -> RowRecord], Settles(job.items, items, chunk)
    PROVE  LET after == Bulk!Advanced(job, chunk, items) IN
           Proceeds(j, job, after, chunk, Bulk!NextWakeup(j, after)) /\ after.items = items
<1> DEFINE after == Bulk!Advanced(job, chunk, items)
           tally == Bulk!Count(job.tally, items, chunk)
<1> HIDE DEF after, tally
<1>2. Cardinality(chunk) \in Nat
  BY SettledRows
<1>3. \E w \in {"completed", "running"} :
         after = [job EXCEPT !.items = items, !.processed = job.processed + Cardinality(chunk),
                             !.tally = tally, !.status = w]
         /\ w = IF job.processed + Cardinality(chunk) = Bulk!Requested(job) THEN "completed" ELSE "running"
  BY SameCardinality DEF after, Bulk!Advanced, tally
<1>4. PICK w \in {"completed", "running"} :
         after = [job EXCEPT !.items = items, !.processed = job.processed + Cardinality(chunk),
                             !.tally = tally, !.status = w]
         /\ w = IF job.processed + Cardinality(chunk) = Bulk!Requested(job) THEN "completed" ELSE "running"
  BY <1>3
<1>5. /\ after.items = items /\ after.processed = job.processed + Cardinality(chunk) /\ after.status = w
      /\ after.op = job.op /\ after.manifest = job.manifest /\ after.tally = tally
  BY <1>4 DEF BulkJobRecord
<1>6. /\ tally \in [Bulk!Tallies -> Nat]
      /\ \A s \in Bulk!Tallies : tally[s] = job.tally[s] + Cardinality(chunk \cap Bulk!In(items, {s}))
  <2>1. job.tally \in [Bulk!Tallies -> Nat]
    BY DEF BulkJobRecord
  <2>2. \A s \in Bulk!Tallies : Cardinality(chunk \cap Bulk!In(items, {s})) \in Nat
    <3> TAKE s \in Bulk!Tallies
    <3>1. chunk \cap Bulk!In(items, {s}) \subseteq Bulk!In(items, {s})
      OBVIOUS
    <3> QED BY <3>1, RowsAreFinite, FS_Subset, FS_CardinalityType
  <2> QED BY SameCardinality, <2>1, <2>2 DEF tally, Bulk!Count
<1>7. after \in BulkJobRecord
  <2>1. job.processed + Cardinality(chunk) \in Nat
    BY <1>2 DEF BulkJobRecord
  <2>2. w \in Bulk!JobStatuses
    BY DEF Bulk!JobStatuses, Bulk!Finished
  <2>3. \A p \in Nat, s \in Bulk!JobStatuses :
           [job EXCEPT !.items = items, !.processed = p, !.tally = tally, !.status = s] \in BulkJobRecord
    BY <1>6 DEF BulkJobRecord
  <2> QED BY <1>4, <2>1, <2>2, <2>3
<1>8. /\ after.processed = Bulk!Requested(job) => after.status \in {"completed", "cancelled"}
      /\ after.processed # Bulk!Requested(job) => after.status \in {"running", "cancel_requested"}
  BY <1>4, <1>5
<1>9. AddsUp(j, after, Bulk!NextWakeup(j, after))
  <2>1. \A s \in Bulk!Tallies : after.tally[s] = job.tally[s] + Cardinality(chunk \cap Bulk!In(items, {s}))
    BY <1>5, <1>6
  <2>2. after.items = items /\ after.processed = job.processed + Cardinality(chunk)
    BY <1>5
  <2>3. Books(job, after, items, chunk)
    BY <2>1, <2>2, <1>8 DEF Books
  <2> QED BY <2>3, <1>7, ChunkProceeds
<1>10. after.status \in Bulk!JobStatuses \ {"absent", "failed"}
  BY <1>5 DEF Bulk!JobStatuses, Bulk!Finished
<1> QED BY <1>5, <1>7, <1>9, <1>10 DEF Proceeds, after

\* The five kinds of steps.  Versions of buyers only grow in each of them.
VersionsGrow == /\ buyers' \in [Buyers -> BuyerRecord]
                /\ \A b \in Buyers : buyers[b].version <= buyers'[b].version

Idles == UNCHANGED <<bulkJobs, manifests, wakeups>> /\ VersionsGrow

\* The job j and its intents become what is given, all others stay.
OneJob(j, job) ==
    /\ job \in BulkJobRecord /\ job.status # "absent"
    /\ bulkJobs' = [bulkJobs EXCEPT ![j] = job]
    /\ wakeups' \subseteq BulkJobs \X Nat
    /\ \A i \in BulkJobs : i # j => IntentsOf(i)' = IntentsOf(i)
    /\ AddsUp(j, job, IntentsOf(j)')

\* Rows are decided once, an update at the version it found.
Decides(op, before, after) ==
    \A b \in Buyers :
        /\ after[b].expected = before[b].expected
        /\ after[b].result # before[b].result =>
              /\ before[b].result = "pending"
              /\ after[b].result = "updated" /\ op # "changeListMemberships" =>
                    before[b].expected = buyers[b].version /\ buyers'[b].version = buyers[b].version + 1

RunsOn(j, job) ==
    /\ OneJob(j, job) /\ VersionsGrow /\ UNCHANGED manifests
    /\ job.op = bulkJobs[j].op /\ job.manifest = bulkJobs[j].manifest
    /\ Decides(job.op, bulkJobs[j].items, job.items)
    /\ bulkJobs[j].status \notin Bulk!Finished \/ (job.status \in Bulk!Finished /\ job.items = bulkJobs[j].items)

\* A ready manifest is executed while no retry of its source runs, over rows
\* that no retry handled.
Admits(m) ==
    /\ manifests[m].status = "ready"
    /\ \A s \in BulkJobs : manifests[m].source = s =>
          ~Bulk!ActiveRetry(s) /\ Bulk!In(manifests[m].items, Bulk!ItemStates) \cap Bulk!SuccessfulRetries(s) = {}

Queues(j, job) ==
    /\ OneJob(j, job) /\ VersionsGrow /\ bulkJobs[j].status = "absent"
    /\ \A b \in Buyers : job.items[b].result \in {"pending", "none"}
    /\ \/ job.manifest = 0 /\ UNCHANGED manifests
       \/ \E m \in Manifests :
             /\ job.manifest = m /\ Admits(m) /\ job.items = manifests[m].items
             /\ manifests' = [manifests EXCEPT ![m].status = "executed"]

Previews(m, row) ==
    /\ row \in ManifestRecord /\ row.status = "ready" /\ manifests[m].status = "absent"
    /\ \A b \in Buyers : row.items[b].result \in {"pending", "none"}
    /\ manifests' = [manifests EXCEPT ![m] = row]
    /\ VersionsGrow /\ UNCHANGED <<bulkJobs, wakeups>>

Executes(m, row) ==
    /\ row \in ManifestRecord /\ row.status = "executed" /\ Admits(m)
    /\ row.op = manifests[m].op /\ row.source = manifests[m].source
    /\ Decides(row.op, manifests[m].items, row.items)
    /\ manifests' = [manifests EXCEPT ![m] = row]
    /\ VersionsGrow /\ UNCHANGED <<bulkJobs, wakeups>>

BulkMoves ==
    \/ Idles
    \/ \E j \in BulkJobs, job \in BulkJobRecord : RunsOn(j, job) \/ Queues(j, job)
    \/ \E m \in Manifests, row \in ManifestRecord : Previews(m, row) \/ Executes(m, row)

----------------------------------------------------------------------------
\* Counts.
LEMMA OneJobAddsUp ==
    ASSUME BulkTypes, NothingAhead, Bulk!JobAddsUp, NEW j \in BulkJobs, NEW job, OneJob(j, job)
    PROVE  /\ bulkJobs' \in [BulkJobs -> BulkJobRecord] /\ wakeups' \subseteq BulkJobs \X Nat
           /\ Bulk!JobAddsUp'
           /\ \A i \in BulkJobs : bulkJobs'[i].status = "absent" => IntentsOf(i)' = {}
<1>1. /\ bulkJobs' \in [BulkJobs -> BulkJobRecord] /\ bulkJobs'[j] = job
      /\ \A i \in BulkJobs : i # j => bulkJobs'[i] = bulkJobs[i]
  BY DEF OneJob, BulkTypes
<1>2. wakeups' \subseteq BulkJobs \X Nat
  BY DEF OneJob
<1>3. \A i \in BulkJobs : AddsUp(i, bulkJobs[i], IntentsOf(i))
  BY JobsAddUp
<1>4. \A i \in BulkJobs : AddsUp(i, bulkJobs'[i], IntentsOf(i)')
  <2> TAKE i \in BulkJobs
  <2>1. CASE i = j
    BY <1>1, <2>1 DEF OneJob
  <2>2. CASE i # j
    <3>1. bulkJobs'[i] = bulkJobs[i] /\ IntentsOf(i)' = IntentsOf(i)
      BY <1>1, <2>2 DEF OneJob
    <3> QED BY <1>3, <3>1
  <2> QED BY <2>1, <2>2
<1>5. Bulk!JobAddsUp'
  BY SameCardinality, <1>4 DEF Bulk!JobAddsUp, AddsUp, IntentsOf, Bulk!In, Bulk!Requested
<1>6. \A i \in BulkJobs : bulkJobs'[i].status = "absent" => IntentsOf(i)' = {}
  BY <1>1 DEF OneJob, NothingAhead
<1> QED BY <1>1, <1>2, <1>5, <1>6

LEMMA SameJobsAddUp ==
    ASSUME BulkTypes, NothingAhead, Bulk!JobAddsUp, UNCHANGED <<bulkJobs, wakeups>>
    PROVE  /\ bulkJobs' \in [BulkJobs -> BulkJobRecord] /\ wakeups' \subseteq BulkJobs \X Nat
           /\ Bulk!JobAddsUp'
           /\ \A i \in BulkJobs : bulkJobs'[i].status = "absent" => IntentsOf(i)' = {}
BY DEF BulkTypes, NothingAhead, Bulk!JobAddsUp, IntentsOf

LEMMA CountsMove ==
    ASSUME BulkTypes, NothingAhead, Bulk!JobAddsUp, BulkMoves
    PROVE  BulkTypes' /\ NothingAhead' /\ Bulk!JobAddsUp'
<1>1. /\ bulkJobs' \in [BulkJobs -> BulkJobRecord] /\ wakeups' \subseteq BulkJobs \X Nat
      /\ Bulk!JobAddsUp'
      /\ \A i \in BulkJobs : bulkJobs'[i].status = "absent" => IntentsOf(i)' = {}
  BY OneJobAddsUp, SameJobsAddUp DEF BulkMoves, Idles, RunsOn, Queues, Previews, Executes
<1>2. buyers' \in [Buyers -> BuyerRecord]
  BY DEF BulkMoves, Idles, RunsOn, Queues, Previews, Executes, VersionsGrow
<1> DEFINE Ahead(m) == manifests[m].status # "executed" =>
                          /\ \A b \in Buyers : manifests[m].items[b].result \in {"pending", "none"}
                          /\ \A j \in BulkJobs : bulkJobs[j].manifest # m
<1>3. manifests \in [Manifests -> ManifestRecord] /\ \A m \in Manifests : Ahead(m)
  BY DEF BulkTypes, NothingAhead
<1>4. manifests' \in [Manifests -> ManifestRecord] /\ \A m \in Manifests : Ahead(m)'
  <2>1. CASE UNCHANGED manifests /\ \A j \in BulkJobs : bulkJobs'[j].manifest \in {0, bulkJobs[j].manifest}
    BY <1>3, <2>1, BulkAssumption
  <2>2. CASE Idles
    BY <2>1, <2>2 DEF Idles
  <2>3. ASSUME NEW j \in BulkJobs, NEW job, RunsOn(j, job)
        PROVE  manifests' \in [Manifests -> ManifestRecord] /\ \A m \in Manifests : Ahead(m)'
    BY <2>1, <2>3 DEF RunsOn, OneJob, BulkTypes
  <2>4. ASSUME NEW j \in BulkJobs, NEW job, Queues(j, job)
        PROVE  manifests' \in [Manifests -> ManifestRecord] /\ \A m \in Manifests : Ahead(m)'
    <3>1. CASE job.manifest = 0 /\ UNCHANGED manifests
      BY <2>1, <2>4, <3>1 DEF Queues, OneJob, BulkTypes
    <3>2. ASSUME NEW m \in Manifests, job.manifest = m,
                 manifests' = [manifests EXCEPT ![m].status = "executed"]
          PROVE  manifests' \in [Manifests -> ManifestRecord] /\ \A n \in Manifests : Ahead(n)'
      <4>1. manifests' \in [Manifests -> ManifestRecord]
        <5>1. \A r \in ManifestRecord : [r EXCEPT !.status = "executed"] \in ManifestRecord
          BY DEF ManifestRecord
        <5> QED BY <1>3, <3>2, <5>1
      <4>2. manifests'[m].status = "executed" /\ \A n \in Manifests : n # m => manifests'[n] = manifests[n]
        BY <1>3, <3>2 DEF ManifestRecord
      <4>3. \A i \in BulkJobs : bulkJobs'[i].manifest \in {m, bulkJobs[i].manifest}
        BY <2>4, <3>2 DEF Queues, OneJob, BulkTypes
      <4> QED BY <1>3, <4>1, <4>2, <4>3
    <3> QED BY <2>4, <3>1, <3>2 DEF Queues
  <2>5. ASSUME NEW m \in Manifests, NEW row, Previews(m, row) \/ Executes(m, row)
        PROVE  manifests' \in [Manifests -> ManifestRecord] /\ \A n \in Manifests : Ahead(n)'
    <3>1. manifests' \in [Manifests -> ManifestRecord] /\ UNCHANGED bulkJobs
      BY <1>3, <2>5 DEF Previews, Executes
    <3>2. manifests'[m] = row /\ \A n \in Manifests : n # m => manifests'[n] = manifests[n]
      BY <1>3, <2>5 DEF Previews, Executes
    <3>3. Ahead(m)'
      <4>1. CASE Previews(m, row)
        BY <1>3, <3>1, <3>2, <4>1 DEF Previews
      <4>2. CASE Executes(m, row)
        BY <3>2, <4>2 DEF Executes
      <4> QED BY <2>5, <4>1, <4>2
    <3> QED BY <1>3, <3>1, <3>2, <3>3
  <2> QED BY <2>2, <2>3, <2>4, <2>5 DEF BulkMoves
<1> QED BY <1>1, <1>2, <1>4 DEF BulkTypes, NothingAhead

----------------------------------------------------------------------------
\* Receipts.
LEMMA NotInReceipts ==
    ASSUME NEW s, NEW b \in Buyers, b \notin Bulk!SuccessfulRetries(s)
    PROVE  Unhandled(s, b)
<1>1. ASSUME NEW m \in Manifests, ByManifest(m, s, b) PROVE FALSE
  <2>1. m \in Bulk!Retries(s) /\ b \in Bulk!In(manifests[m].items, Bulk!Succeeded)
    BY <1>1 DEF ByManifest, Bulk!In
  <2>2. Bulk!In(manifests[m].items, Bulk!Succeeded) \in {Bulk!In(manifests[n].items, Bulk!Succeeded) : n \in Bulk!Retries(s)}
    BY <2>1
  <2> QED BY <2>1, <2>2 DEF Bulk!SuccessfulRetries, Bulk!Receipts
<1>2. ASSUME NEW j \in BulkJobs, ByJob(j, s, b) PROVE FALSE
  <2>1. j \in Bulk!RetryJobs(s) /\ b \in Bulk!In(bulkJobs[j].items, Bulk!Succeeded)
    BY <1>2 DEF ByJob, Bulk!In
  <2>2. Bulk!In(bulkJobs[j].items, Bulk!Succeeded) \in {Bulk!In(bulkJobs[i].items, Bulk!Succeeded) : i \in Bulk!RetryJobs(s)}
    BY <2>1
  <2> QED BY <2>1, <2>2 DEF Bulk!SuccessfulRetries, Bulk!Receipts
<1> QED BY <1>1, <1>2 DEF Unhandled

\* A step handles nothing, or rows that nobody handled, by one manifest or job.
LEMMA QuietReceipts ==
    ASSUME OneReceipt, OneRetryRuns,
           \A s \in BulkJobs, b \in Buyers :
              /\ \A m \in Manifests : ByManifest(m, s, b)' => ByManifest(m, s, b)
              /\ \A j \in BulkJobs : ByJob(j, s, b)' => ByJob(j, s, b),
           \A s \in BulkJobs : \A i \in Bulk!RetryJobs(s)' : bulkJobs'[i].status \notin Bulk!Finished =>
              /\ i \in Bulk!RetryJobs(s) /\ bulkJobs[i].status \notin Bulk!Finished
              /\ Bulk!In(bulkJobs'[i].items, {"pending"}) \subseteq Bulk!In(bulkJobs[i].items, {"pending"})
    PROVE  OneReceipt' /\ OneRetryRuns'
<1>1. OneReceipt'
  BY DEF OneReceipt
<1>2. OneRetryRuns'
  <2> SUFFICES ASSUME NEW s \in BulkJobs, NEW i \in Bulk!RetryJobs(s)', bulkJobs'[i].status \notin Bulk!Finished
               PROVE  /\ \A j \in Bulk!RetryJobs(s)' : bulkJobs'[j].status \notin Bulk!Finished => i = j
                      /\ \A b \in Bulk!In(bulkJobs'[i].items, {"pending"}) : Unhandled(s, b)'
    BY DEF OneRetryRuns, Bulk!In
  <2>1. \A j \in Bulk!RetryJobs(s)' : bulkJobs'[j].status \notin Bulk!Finished => i = j
    BY DEF OneRetryRuns
  <2>2. \A b \in Bulk!In(bulkJobs'[i].items, {"pending"}) : Unhandled(s, b)'
    <3> TAKE b \in Bulk!In(bulkJobs'[i].items, {"pending"})
    <3>1. b \in Buyers /\ Unhandled(s, b)
      BY DEF OneRetryRuns, Bulk!In
    <3> QED BY <3>1 DEF Unhandled
  <2> QED BY <2>1, <2>2
<1> QED BY <1>1, <1>2

\* The job that runs handles rows that were pending, so no other retry did.
LEMMA RunsReceipts ==
    ASSUME BulkTypes, OneReceipt, OneRetryRuns, NEW j \in BulkJobs, NEW job, RunsOn(j, job)
    PROVE  OneReceipt' /\ OneRetryRuns'
<1>1. /\ bulkJobs'[j] = job /\ \A i \in BulkJobs : i # j => bulkJobs'[i] = bulkJobs[i]
      /\ manifests' = manifests
  BY DEF RunsOn, OneJob, BulkTypes
<1>2. \A s : Bulk!Retries(s)' = Bulk!Retries(s)
  BY <1>1 DEF Bulk!Retries
<1>3. \A s : Bulk!RetryJobs(s)' = Bulk!RetryJobs(s)
  BY <1>1, <1>2 DEF Bulk!RetryJobs, RunsOn
<1>4. \A s \in BulkJobs, b \in Buyers :
         /\ \A m \in Manifests : ByManifest(m, s, b)' <=> ByManifest(m, s, b)
         /\ \A i \in BulkJobs \ {j} : ByJob(i, s, b)' <=> ByJob(i, s, b)
  BY <1>1, <1>2, <1>3 DEF ByManifest, ByJob
<1>5. ASSUME NEW i \in BulkJobs, bulkJobs'[i].status \notin Bulk!Finished
      PROVE  /\ bulkJobs[i].status \notin Bulk!Finished
             /\ Bulk!In(bulkJobs'[i].items, {"pending"}) \subseteq Bulk!In(bulkJobs[i].items, {"pending"})
  <2>1. CASE i = j
    BY <1>1, <1>5, <2>1 DEF RunsOn, Decides, Bulk!In
  <2>2. CASE i # j
    BY <1>1, <1>5, <2>2
  <2> QED BY <2>1, <2>2
<1>6. ASSUME NEW s \in BulkJobs, NEW b \in Buyers, ByJob(j, s, b)', ~ByJob(j, s, b)
      PROVE  j \in Bulk!RetryJobs(s) /\ bulkJobs[j].status \notin Bulk!Finished /\ Unhandled(s, b)
  <2>1. j \in Bulk!RetryJobs(s)
    BY <1>3, <1>6 DEF ByJob
  <2>2. job.items[b].result \in Bulk!Succeeded /\ bulkJobs[j].items[b].result \notin Bulk!Succeeded
    BY <1>1, <1>6, <2>1 DEF ByJob
  <2>3. bulkJobs[j].items[b].result = "pending" /\ bulkJobs[j].status \notin Bulk!Finished
    BY <2>2 DEF RunsOn, Decides
  <2>4. b \in Bulk!In(bulkJobs[j].items, {"pending"})
    BY <2>3 DEF Bulk!In
  <2> QED BY <2>1, <2>3, <2>4 DEF OneRetryRuns
<1>7. OneReceipt'
  <2> SUFFICES ASSUME NEW s \in BulkJobs, NEW b \in Buyers
               PROVE  /\ \A m, n \in Manifests : ByManifest(m, s, b)' /\ ByManifest(n, s, b)' => m = n
                      /\ \A i, k \in BulkJobs : ByJob(i, s, b)' /\ ByJob(k, s, b)' => i = k
                      /\ \A m \in Manifests, i \in BulkJobs : ~(ByManifest(m, s, b)' /\ ByJob(i, s, b)')
    BY DEF OneReceipt
  <2>1. CASE ByJob(j, s, b)' => ByJob(j, s, b)
    BY <1>4, <2>1 DEF OneReceipt
  <2>2. CASE ByJob(j, s, b)' /\ ~ByJob(j, s, b)
    BY <1>4, <1>6, <2>2 DEF Unhandled
  <2> QED BY <2>1, <2>2
<1>8. OneRetryRuns'
  <2> SUFFICES ASSUME NEW s \in BulkJobs, NEW i \in Bulk!RetryJobs(s)', bulkJobs'[i].status \notin Bulk!Finished
               PROVE  /\ \A k \in Bulk!RetryJobs(s)' : bulkJobs'[k].status \notin Bulk!Finished => i = k
                      /\ \A b \in Bulk!In(bulkJobs'[i].items, {"pending"}) : Unhandled(s, b)'
    BY DEF OneRetryRuns, Bulk!In
  <2>1. i \in BulkJobs /\ i \in Bulk!RetryJobs(s) /\ bulkJobs[i].status \notin Bulk!Finished
    BY <1>3, <1>5 DEF Bulk!RetryJobs
  <2>2. \A k \in Bulk!RetryJobs(s)' : bulkJobs'[k].status \notin Bulk!Finished => i = k
    <3> TAKE k \in Bulk!RetryJobs(s)'
    <3>1. k \in BulkJobs /\ k \in Bulk!RetryJobs(s)
      BY <1>3 DEF Bulk!RetryJobs
    <3> QED BY <1>5, <2>1, <3>1 DEF OneRetryRuns
  <2>3. \A b \in Bulk!In(bulkJobs'[i].items, {"pending"}) : Unhandled(s, b)'
    <3> TAKE b \in Bulk!In(bulkJobs'[i].items, {"pending"})
    <3>1. b \in Buyers /\ bulkJobs'[i].items[b].result = "pending" /\ b \in Bulk!In(bulkJobs[i].items, {"pending"})
      BY <1>5, <2>1 DEF Bulk!In
    <3>2. Unhandled(s, b)
      BY <2>1, <3>1 DEF OneRetryRuns
    <3>3. ~ByJob(j, s, b)'
      <4>1. SUFFICES ASSUME ByJob(j, s, b)' PROVE FALSE
        OBVIOUS
      <4>2. ~ByJob(j, s, b)
        BY <3>2 DEF Unhandled
      <4>3. j \in Bulk!RetryJobs(s) /\ bulkJobs[j].status \notin Bulk!Finished
        BY <1>6, <3>1, <4>1, <4>2
      <4>4. i = j
        BY <2>1, <4>3 DEF OneRetryRuns
      <4>5. bulkJobs'[j].items[b].result \in Bulk!Succeeded
        BY <4>1 DEF ByJob
      <4> QED BY <3>1, <4>4, <4>5 DEF Bulk!Succeeded
    <3> QED BY <1>4, <3>1, <3>2, <3>3 DEF Unhandled
  <2> QED BY <2>2, <2>3
<1> QED BY <1>7, <1>8

\* The manifest m is executed and becomes row: at once, or with the new job j,
\* which is no job when there is none.
Admission(m, row, j) ==
    /\ Admits(m) /\ row \in ManifestRecord /\ row.status = "executed"
    /\ row.source = manifests[m].source /\ manifests' = [manifests EXCEPT ![m] = row]
    /\ \A i \in BulkJobs : i # j => bulkJobs'[i] = bulkJobs[i]
    /\ j \in BulkJobs =>
          /\ bulkJobs'[j].manifest = m /\ \A b \in Buyers : bulkJobs'[j].items[b].result \in {"pending", "none"}
          /\ bulkJobs'[j].items = manifests[m].items
    /\ \A b \in Buyers : row.items[b].result \in Bulk!Succeeded =>
          j \notin BulkJobs /\ manifests[m].items[b].result = "pending"

\* It is the first retry of its source to handle its rows.
LEMMA AdmitsReceipts ==
    ASSUME BulkTypes, NothingAhead, OneReceipt, OneRetryRuns,
           NEW m \in Manifests, NEW row, NEW j, Admission(m, row, j)
    PROVE  OneReceipt' /\ OneRetryRuns'
<1> USE DEF Admission
<1>1. /\ manifests'[m] = row /\ \A n \in Manifests : n # m => manifests'[n] = manifests[n]
      /\ manifests[m].status = "ready" /\ \A i \in BulkJobs : bulkJobs[i].manifest # m
  BY DEF BulkTypes, NothingAhead, Admits
<1>2. ASSUME NEW s \in BulkJobs
      PROVE  /\ \A n \in Manifests \ {m} : n \in Bulk!Retries(s)' <=> n \in Bulk!Retries(s)
             /\ m \notin Bulk!Retries(s) /\ (m \in Bulk!Retries(s)' <=> row.source = s)
             /\ \A i \in BulkJobs \ {j} : i \in Bulk!RetryJobs(s)' <=> i \in Bulk!RetryJobs(s)
             /\ j \in BulkJobs => (j \in Bulk!RetryJobs(s)' <=> row.source = s)
  <2>1. /\ \A n \in Manifests \ {m} : n \in Bulk!Retries(s)' <=> n \in Bulk!Retries(s)
        /\ m \notin Bulk!Retries(s) /\ (m \in Bulk!Retries(s)' <=> row.source = s)
    BY <1>1 DEF Bulk!Retries
  <2>2. \A i \in BulkJobs \ {j} : i \in Bulk!RetryJobs(s)' <=> i \in Bulk!RetryJobs(s)
    BY <1>1, <2>1 DEF Bulk!RetryJobs, Bulk!Retries
  <2>3. j \in BulkJobs => (j \in Bulk!RetryJobs(s)' <=> row.source = s)
    BY <2>1 DEF Bulk!RetryJobs
  <2> QED BY <2>1, <2>2, <2>3
<1>3. ASSUME NEW s \in BulkJobs, NEW b \in Buyers
      PROVE  /\ \A n \in Manifests \ {m} : ByManifest(n, s, b)' <=> ByManifest(n, s, b)
             /\ \A i \in BulkJobs : ByJob(i, s, b)' => ByJob(i, s, b)
             /\ ByManifest(m, s, b)' => row.source = s /\ Unhandled(s, b)
  <2>1. \A n \in Manifests \ {m} : ByManifest(n, s, b)' <=> ByManifest(n, s, b)
    BY <1>1, <1>2 DEF ByManifest
  <2>2. \A i \in BulkJobs : ByJob(i, s, b)' => ByJob(i, s, b)
    <3> TAKE i \in BulkJobs
    <3>1. CASE i = j
      BY <3>1 DEF ByJob, Bulk!Succeeded
    <3>2. CASE i # j
      BY <1>2, <3>2 DEF ByJob
    <3> QED BY <3>1, <3>2
  <2>3. ASSUME ByManifest(m, s, b)' PROVE row.source = s /\ Unhandled(s, b)
    <3>1. row.source = s /\ row.items[b].result \in Bulk!Succeeded
      BY <1>1, <1>2, <2>3 DEF ByManifest
    <3>2. b \in Bulk!In(manifests[m].items, Bulk!ItemStates)
      BY <3>1 DEF Bulk!In, Bulk!ItemStates
    <3>3. b \notin Bulk!SuccessfulRetries(s)
      BY <3>1, <3>2 DEF Admits
    <3> QED BY <3>1, <3>3, NotInReceipts
  <2> QED BY <2>1, <2>2, <2>3
<1>4. OneReceipt'
  <2> SUFFICES ASSUME NEW s \in BulkJobs, NEW b \in Buyers
               PROVE  /\ \A k, n \in Manifests : ByManifest(k, s, b)' /\ ByManifest(n, s, b)' => k = n
                      /\ \A i, k \in BulkJobs : ByJob(i, s, b)' /\ ByJob(k, s, b)' => i = k
                      /\ \A n \in Manifests, i \in BulkJobs : ~(ByManifest(n, s, b)' /\ ByJob(i, s, b)')
    BY DEF OneReceipt
  <2>1. CASE ByManifest(m, s, b)'
    BY <1>3, <2>1 DEF Unhandled
  <2>2. CASE ~ByManifest(m, s, b)'
    BY <1>3, <2>2 DEF OneReceipt
  <2> QED BY <2>1, <2>2
<1>5. OneRetryRuns'
  <2> SUFFICES ASSUME NEW s \in BulkJobs, NEW i \in Bulk!RetryJobs(s)', bulkJobs'[i].status \notin Bulk!Finished
               PROVE  /\ \A k \in Bulk!RetryJobs(s)' : bulkJobs'[k].status \notin Bulk!Finished => i = k
                      /\ \A b \in Bulk!In(bulkJobs'[i].items, {"pending"}) : Unhandled(s, b)'
    BY DEF OneRetryRuns, Bulk!In
  <2>1. i \in BulkJobs /\ \A k \in Bulk!RetryJobs(s)' : k \in BulkJobs
    BY DEF Bulk!RetryJobs
  <2>2. CASE row.source = s
    <3>1. \A k \in Bulk!RetryJobs(s) : bulkJobs[k].status \in Bulk!Finished
      BY <2>2 DEF Admits, Bulk!ActiveRetry
    <3>2. \A k \in Bulk!RetryJobs(s)' : k # j => bulkJobs'[k].status \in Bulk!Finished
      BY <1>2, <2>1, <3>1
    <3>3. i = j
      BY <3>2
    <3>4. \A b \in Bulk!In(bulkJobs'[i].items, {"pending"}) : Unhandled(s, b)'
      <4> TAKE b \in Bulk!In(bulkJobs'[i].items, {"pending"})
      <4>1. b \in Buyers /\ b \in Bulk!In(manifests[m].items, Bulk!ItemStates)
        BY <2>1, <3>3 DEF Bulk!In, Bulk!ItemStates
      <4>2. Unhandled(s, b)
        BY <2>2, <4>1, NotInReceipts DEF Admits
      <4>3. ~ByManifest(m, s, b)'
        BY <1>1, <2>1, <3>3, <4>1 DEF ByManifest
      <4> QED BY <1>3, <4>1, <4>2, <4>3 DEF Unhandled
    <3> QED BY <3>2, <3>3, <3>4
  <2>3. CASE row.source # s
    <3>1. i # j /\ \A k \in Bulk!RetryJobs(s)' : k # j /\ k \in Bulk!RetryJobs(s)
      BY <1>2, <2>1, <2>3
    <3>2. \A k \in Bulk!RetryJobs(s)' : bulkJobs'[k] = bulkJobs[k]
      BY <2>1, <3>1
    <3>3. \A b \in Bulk!In(bulkJobs[i].items, {"pending"}) : Unhandled(s, b)
      BY <3>1, <3>2 DEF OneRetryRuns
    <3>4. \A b \in Bulk!In(bulkJobs'[i].items, {"pending"}) : Unhandled(s, b)'
      <4> TAKE b \in Bulk!In(bulkJobs'[i].items, {"pending"})
      <4>1. b \in Buyers /\ Unhandled(s, b)
        BY <3>2, <3>3 DEF Bulk!In
      <4>2. ~ByManifest(m, s, b)'
        BY <1>3, <2>3, <4>1
      <4> QED BY <1>3, <4>1, <4>2 DEF Unhandled
    <3> QED BY <3>1, <3>2, <3>4 DEF OneRetryRuns
  <2> QED BY <2>2, <2>3
<1> QED BY <1>4, <1>5

LEMMA ReceiptsMove ==
    ASSUME BulkTypes, NothingAhead, OneReceipt, OneRetryRuns, BulkMoves
    PROVE  OneReceipt' /\ OneRetryRuns'
<1>1. CASE Idles
  <2>1. bulkJobs' = bulkJobs /\ manifests' = manifests
    BY <1>1 DEF Idles
  <2> QED BY <2>1 DEF OneReceipt, OneRetryRuns, ByManifest, ByJob, Unhandled, Bulk!RetryJobs, Bulk!Retries, Bulk!In
<1>2. ASSUME NEW j \in BulkJobs, NEW job, Queues(j, job), job.manifest = 0, UNCHANGED manifests
      PROVE  OneReceipt' /\ OneRetryRuns'
  <2>1. /\ bulkJobs'[j] = job /\ \A i \in BulkJobs : i # j => bulkJobs'[i] = bulkJobs[i]
        /\ manifests' = manifests
    BY <1>2 DEF Queues, OneJob, BulkTypes
  <2>2. \A s : Bulk!Retries(s)' = Bulk!Retries(s) /\ 0 \notin Bulk!Retries(s)
    BY <2>1, BulkAssumption DEF Bulk!Retries
  <2>3. \A s : \A i \in Bulk!RetryJobs(s)' : i # j /\ i \in BulkJobs /\ i \in Bulk!RetryJobs(s) /\ bulkJobs'[i] = bulkJobs[i]
    BY <1>2, <2>1, <2>2 DEF Bulk!RetryJobs
  <2>4. \A s \in BulkJobs, b \in Buyers :
           /\ \A m \in Manifests : ByManifest(m, s, b)' => ByManifest(m, s, b)
           /\ \A i \in BulkJobs : ByJob(i, s, b)' => ByJob(i, s, b)
    BY <2>1, <2>2, <2>3 DEF ByManifest, ByJob
  <2>5. \A s \in BulkJobs : \A i \in Bulk!RetryJobs(s)' : bulkJobs'[i].status \notin Bulk!Finished =>
           /\ i \in Bulk!RetryJobs(s) /\ bulkJobs[i].status \notin Bulk!Finished
           /\ Bulk!In(bulkJobs'[i].items, {"pending"}) \subseteq Bulk!In(bulkJobs[i].items, {"pending"})
    BY <2>3
  <2> QED BY <2>4, <2>5, QuietReceipts
<1>3. ASSUME NEW j \in BulkJobs, NEW job, Queues(j, job), NEW m \in Manifests, job.manifest = m, Admits(m),
             job.items = manifests[m].items, manifests' = [manifests EXCEPT ![m].status = "executed"]
      PROVE  OneReceipt' /\ OneRetryRuns'
  <2>1. /\ bulkJobs'[j] = job /\ \A i \in BulkJobs : i # j => bulkJobs'[i] = bulkJobs[i]
        /\ manifests[m] \in ManifestRecord
    BY <1>3 DEF Queues, OneJob, BulkTypes
  <2>2. PICK row : row = [manifests[m] EXCEPT !.status = "executed"]
    OBVIOUS
  <2>3. /\ row \in ManifestRecord /\ row.status = "executed" /\ row.source = manifests[m].source
        /\ row.items = manifests[m].items
    BY <2>1, <2>2 DEF ManifestRecord
  <2>4. manifests' = [manifests EXCEPT ![m] = row]
    BY <1>3, <2>2
  <2>5. \A b \in Buyers : row.items[b].result \in Bulk!Succeeded =>
           j \notin BulkJobs /\ manifests[m].items[b].result = "pending"
    BY <1>3, <2>3 DEF Queues, Bulk!Succeeded
  <2>6. j \in BulkJobs =>
           /\ bulkJobs'[j].manifest = m /\ \A b \in Buyers : bulkJobs'[j].items[b].result \in {"pending", "none"}
           /\ bulkJobs'[j].items = manifests[m].items
    BY <1>3, <2>1 DEF Queues
  <2>7. /\ row \in ManifestRecord /\ row.status = "executed" /\ row.source = manifests[m].source
        /\ Admits(m) /\ \A i \in BulkJobs : i # j => bulkJobs'[i] = bulkJobs[i]
    BY <1>3, <2>1, <2>3
  <2>8. Admission(m, row, j)
    BY <2>4, <2>5, <2>6, <2>7 DEF Admission
  <2> QED BY <1>3, <2>8, AdmitsReceipts
<1>4. ASSUME NEW m \in Manifests, NEW row, Previews(m, row)
      PROVE  OneReceipt' /\ OneRetryRuns'
  <2>1. /\ manifests'[m] = row /\ \A n \in Manifests : n # m => manifests'[n] = manifests[n]
        /\ bulkJobs' = bulkJobs
    BY <1>4 DEF Previews, BulkTypes
  <2>2. \A s : Bulk!Retries(s)' = Bulk!Retries(s)
    BY <1>4, <2>1 DEF Bulk!Retries, Previews
  <2>3. \A s : Bulk!RetryJobs(s)' = Bulk!RetryJobs(s)
    BY <2>1, <2>2 DEF Bulk!RetryJobs
  <2>4. \A s \in BulkJobs, b \in Buyers :
           /\ \A n \in Manifests : ByManifest(n, s, b)' => ByManifest(n, s, b)
           /\ \A i \in BulkJobs : ByJob(i, s, b)' => ByJob(i, s, b)
    <3> TAKE s \in BulkJobs, b \in Buyers
    <3>1. \A n \in Manifests : n \in Bulk!Retries(s) => n # m
      BY <1>4 DEF Bulk!Retries, Previews
    <3> QED BY <2>1, <2>2, <2>3, <3>1 DEF ByManifest, ByJob
  <2>5. \A s \in BulkJobs : \A i \in Bulk!RetryJobs(s)' : bulkJobs'[i].status \notin Bulk!Finished =>
           /\ i \in Bulk!RetryJobs(s) /\ bulkJobs[i].status \notin Bulk!Finished
           /\ Bulk!In(bulkJobs'[i].items, {"pending"}) \subseteq Bulk!In(bulkJobs[i].items, {"pending"})
    BY <2>1, <2>3
  <2> QED BY <2>4, <2>5, QuietReceipts
<1>5. ASSUME NEW m \in Manifests, NEW row \in ManifestRecord, Executes(m, row)
      PROVE  OneReceipt' /\ OneRetryRuns'
  <2>1. PICK j : j \notin BulkJobs
    BY BulkAssumption
  <2>2. bulkJobs' = bulkJobs
    BY <1>5 DEF Executes
  <2>3. \A b \in Buyers : row.items[b].result \in Bulk!Succeeded =>
           j \notin BulkJobs /\ manifests[m].items[b].result = "pending"
    <3>1. \A b \in Buyers : manifests[m].items[b].result \in {"pending", "none"}
      BY <1>5 DEF Executes, Admits, NothingAhead
    <3> QED BY <1>5, <2>1, <3>1 DEF Executes, Decides, Bulk!Succeeded
  <2>4. Admits(m) /\ row.status = "executed" /\ row.source = manifests[m].source
        /\ manifests' = [manifests EXCEPT ![m] = row]
    BY <1>5 DEF Executes
  <2>5. Admission(m, row, j)
    BY <2>1, <2>2, <2>3, <2>4 DEF Admission
  <2> QED BY <1>5, <2>5, AdmitsReceipts
<1>6. ASSUME NEW j \in BulkJobs, NEW job, Queues(j, job) PROVE OneReceipt' /\ OneRetryRuns'
  BY <1>2, <1>3, <1>6 DEF Queues
<1> QED BY <1>1, <1>4, <1>5, <1>6, RunsReceipts DEF BulkMoves

----------------------------------------------------------------------------
\* Versions.
LEMMA QuietSpending ==
    ASSUME BulkTypes, SpentOnce, VersionsGrow,
           \A b \in Buyers :
              /\ \A j \in BulkJobs : SpentByJob(j, b)' =>
                    SpentByJob(j, b) /\ bulkJobs'[j].items[b].expected = bulkJobs[j].items[b].expected
              /\ \A m \in Manifests : SpentByManifest(m, b)' =>
                    SpentByManifest(m, b) /\ manifests'[m].items[b].expected = manifests[m].items[b].expected
    PROVE  SpentOnce'
<1> SUFFICES ASSUME NEW b \in Buyers
             PROVE  /\ \A j \in BulkJobs : SpentByJob(j, b)' => bulkJobs'[j].items[b].expected < buyers'[b].version
                    /\ \A m \in Manifests :
                          SpentByManifest(m, b)' => manifests'[m].items[b].expected < buyers'[b].version
                    /\ \A i, j \in BulkJobs : SpentByJob(i, b)' /\ SpentByJob(j, b)' /\ i # j =>
                          bulkJobs'[i].items[b].expected # bulkJobs'[j].items[b].expected
                    /\ \A m, n \in Manifests : SpentByManifest(m, b)' /\ SpentByManifest(n, b)' /\ m # n =>
                          manifests'[m].items[b].expected # manifests'[n].items[b].expected
                    /\ \A j \in BulkJobs, m \in Manifests : SpentByJob(j, b)' /\ SpentByManifest(m, b)' =>
                          bulkJobs'[j].items[b].expected # manifests'[m].items[b].expected
  BY DEF SpentOnce
<1>1. /\ \A j \in BulkJobs : bulkJobs[j].items[b].expected \in Nat
      /\ \A m \in Manifests : manifests[m].items[b].expected \in Nat
      /\ buyers[b].version \in Nat /\ buyers'[b].version \in Nat /\ buyers[b].version <= buyers'[b].version
  BY DEF BulkTypes, BulkJobRecord, ManifestRecord, RowRecord, BuyerRecord, VersionsGrow
<1> QED BY <1>1 DEF SpentOnce

LEMMA SpendingMoves ==
    ASSUME BulkTypes, NothingAhead, SpentOnce, BulkMoves
    PROVE  SpentOnce'
<1>1. VersionsGrow
  BY DEF BulkMoves, Idles, RunsOn, Queues, Previews, Executes
<1>2. CASE Idles
  <2>1. bulkJobs' = bulkJobs /\ manifests' = manifests
    BY <1>2 DEF Idles
  <2> QED BY <1>1, <2>1, QuietSpending DEF SpentByJob, SpentByManifest
<1>3. ASSUME NEW m \in Manifests, NEW row, Previews(m, row) PROVE SpentOnce'
  <2>1. /\ manifests'[m] = row /\ \A n \in Manifests : n # m => manifests'[n] = manifests[n]
        /\ bulkJobs' = bulkJobs /\ \A b \in Buyers : row.items[b].result \in {"pending", "none"}
    BY <1>3 DEF Previews, BulkTypes
  <2> QED BY <1>1, <2>1, QuietSpending DEF SpentByJob, SpentByManifest
<1>4. ASSUME NEW j \in BulkJobs, NEW job, Queues(j, job) PROVE SpentOnce'
  <2>1. /\ bulkJobs'[j] = job /\ \A i \in BulkJobs : i # j => bulkJobs'[i] = bulkJobs[i]
        /\ \A b \in Buyers : job.items[b].result \in {"pending", "none"}
    BY <1>4 DEF Queues, OneJob, BulkTypes
  <2>2. \A m \in Manifests : manifests'[m].items = manifests[m].items /\ manifests'[m].op = manifests[m].op
    BY <1>4 DEF Queues, BulkTypes, ManifestRecord
  <2> QED BY <1>1, <2>1, <2>2, QuietSpending DEF SpentByJob, SpentByManifest
<1>5. ASSUME NEW j \in BulkJobs, NEW job, RunsOn(j, job) PROVE SpentOnce'
  <2>1. /\ bulkJobs'[j] = job /\ \A i \in BulkJobs : i # j => bulkJobs'[i] = bulkJobs[i]
        /\ manifests' = manifests
    BY <1>5 DEF RunsOn, OneJob, BulkTypes
  <2> SUFFICES ASSUME NEW b \in Buyers
               PROVE  /\ \A i \in BulkJobs : SpentByJob(i, b)' => bulkJobs'[i].items[b].expected < buyers'[b].version
                      /\ \A m \in Manifests :
                            SpentByManifest(m, b)' => manifests'[m].items[b].expected < buyers'[b].version
                      /\ \A i, k \in BulkJobs : SpentByJob(i, b)' /\ SpentByJob(k, b)' /\ i # k =>
                            bulkJobs'[i].items[b].expected # bulkJobs'[k].items[b].expected
                      /\ \A m, n \in Manifests : SpentByManifest(m, b)' /\ SpentByManifest(n, b)' /\ m # n =>
                            manifests'[m].items[b].expected # manifests'[n].items[b].expected
                      /\ \A i \in BulkJobs, m \in Manifests : SpentByJob(i, b)' /\ SpentByManifest(m, b)' =>
                            bulkJobs'[i].items[b].expected # manifests'[m].items[b].expected
    BY DEF SpentOnce
  <2>2. /\ \A i \in BulkJobs : bulkJobs[i].items[b].expected \in Nat
        /\ \A m \in Manifests : manifests[m].items[b].expected \in Nat
        /\ buyers[b].version \in Nat /\ buyers'[b].version \in Nat /\ buyers[b].version <= buyers'[b].version
    BY <1>1 DEF BulkTypes, BulkJobRecord, ManifestRecord, RowRecord, BuyerRecord, VersionsGrow
  <2>3. /\ \A i \in BulkJobs : bulkJobs'[i].items[b].expected = bulkJobs[i].items[b].expected
        /\ \A i \in BulkJobs \ {j} : SpentByJob(i, b)' => SpentByJob(i, b)
        /\ \A m \in Manifests : SpentByManifest(m, b)' => SpentByManifest(m, b)
    BY <1>5, <2>1 DEF RunsOn, Decides, SpentByJob, SpentByManifest
  <2>4. SpentByJob(j, b)' => SpentByJob(j, b) \/ (/\ bulkJobs[j].items[b].expected = buyers[b].version
                                                  /\ buyers'[b].version = buyers[b].version + 1)
    BY <1>5, <2>1 DEF RunsOn, Decides, SpentByJob
  <2> QED BY <2>1, <2>2, <2>3, <2>4 DEF SpentOnce
<1>6. ASSUME NEW m \in Manifests, NEW row, Executes(m, row) PROVE SpentOnce'
  <2>1. /\ manifests'[m] = row /\ \A n \in Manifests : n # m => manifests'[n] = manifests[n]
        /\ bulkJobs' = bulkJobs
    BY <1>6 DEF Executes, BulkTypes
  <2> SUFFICES ASSUME NEW b \in Buyers
               PROVE  /\ \A i \in BulkJobs : SpentByJob(i, b)' => bulkJobs'[i].items[b].expected < buyers'[b].version
                      /\ \A n \in Manifests :
                            SpentByManifest(n, b)' => manifests'[n].items[b].expected < buyers'[b].version
                      /\ \A i, k \in BulkJobs : SpentByJob(i, b)' /\ SpentByJob(k, b)' /\ i # k =>
                            bulkJobs'[i].items[b].expected # bulkJobs'[k].items[b].expected
                      /\ \A k, n \in Manifests : SpentByManifest(k, b)' /\ SpentByManifest(n, b)' /\ k # n =>
                            manifests'[k].items[b].expected # manifests'[n].items[b].expected
                      /\ \A i \in BulkJobs, n \in Manifests : SpentByJob(i, b)' /\ SpentByManifest(n, b)' =>
                            bulkJobs'[i].items[b].expected # manifests'[n].items[b].expected
    BY DEF SpentOnce
  <2>2. /\ \A i \in BulkJobs : bulkJobs[i].items[b].expected \in Nat
        /\ \A n \in Manifests : manifests[n].items[b].expected \in Nat
        /\ buyers[b].version \in Nat /\ buyers'[b].version \in Nat /\ buyers[b].version <= buyers'[b].version
    BY <1>1 DEF BulkTypes, BulkJobRecord, ManifestRecord, RowRecord, BuyerRecord, VersionsGrow
  <2>3. /\ \A n \in Manifests : manifests'[n].items[b].expected = manifests[n].items[b].expected
        /\ \A n \in Manifests \ {m} : SpentByManifest(n, b)' => SpentByManifest(n, b)
        /\ \A i \in BulkJobs : SpentByJob(i, b)' => SpentByJob(i, b)
    BY <1>6, <2>1 DEF Executes, Decides, SpentByJob, SpentByManifest
  <2>4. SpentByManifest(m, b)' => SpentByManifest(m, b) \/ (/\ manifests[m].items[b].expected = buyers[b].version
                                                            /\ buyers'[b].version = buyers[b].version + 1)
    BY <1>6, <2>1 DEF Executes, Decides, SpentByManifest
  <2> QED BY <2>1, <2>2, <2>3, <2>4 DEF SpentOnce
<1> QED BY <1>2, <1>3, <1>4, <1>5, <1>6 DEF BulkMoves

----------------------------------------------------------------------------
\* Every action is of one of these kinds.
LEMMA QueueIsOneJob ==
    ASSUME BulkTypes, NothingAhead, NEW j \in BulkJobs, bulkJobs[j].status = "absent",
           NEW items \in [Buyers -> RowRecord], NEW op \in Operations \cup {"none"}, NEW m \in Manifests \cup {0},
           \A b \in Buyers : items[b].result \in {"pending", "none"}, Bulk!In(items, Bulk!ItemStates) # {},
           bulkJobs' = [bulkJobs EXCEPT ![j] = Bulk!Queued(op, items, m)],
           wakeups' = wakeups \cup {<<j, 0>>}
    PROVE  OneJob(j, Bulk!Queued(op, items, m))
<1>1. /\ Bulk!In(items, {"pending"}) = Bulk!In(items, Bulk!ItemStates)
      /\ \A s \in Bulk!Tallies : Bulk!In(items, {s}) = {}
  BY DEF Bulk!In, Bulk!ItemStates, Bulk!Tallies, Bulk!Succeeded, Bulk!Failed
<1>2. IntentsOf(j)' = {<<j, 0>>} /\ \A i \in BulkJobs : i # j => IntentsOf(i)' = IntentsOf(i)
  <2>1. IntentsOf(j) = {}
    BY DEF NothingAhead
  <2> QED BY <2>1 DEF IntentsOf
<1>3. wakeups' \subseteq BulkJobs \X Nat
  BY DEF BulkTypes
<1> DEFINE job == Bulk!Queued(op, items, m)
<1>4. /\ job \in BulkJobRecord /\ job.status = "queued" /\ job.processed = 0 /\ job.items = items
      /\ \A s \in Bulk!Tallies : job.tally[s] = 0
  BY QueuedIs
<1> HIDE DEF job
<1>5. AddsUp(j, job, {<<j, 0>>})
  BY <1>1, <1>4, QueuedAddsUp
<1>6. bulkJobs' = [bulkJobs EXCEPT ![j] = job]
  BY DEF job
<1>7. OneJob(j, job)
  BY <1>2, <1>3, <1>4, <1>5, <1>6 DEF OneJob
<1> QED BY <1>7 DEF job

LEMMA SameBuyers == ASSUME BulkTypes, UNCHANGED buyers PROVE VersionsGrow
<1>1. \A b \in Buyers : buyers[b].version \in Nat
  BY DEF BulkTypes, BuyerRecord
<1> QED BY <1>1 DEF BulkTypes, VersionsGrow

LEMMA CreateMoves ==
    ASSUME BulkTypes, NothingAhead, NEW j \in BulkJobs, NEW op \in Operations, NEW s \in SUBSET Buyers,
           Bulk!CreateBulkJob(j, op, s)
    PROVE  BulkMoves
<1> DEFINE versions == [b \in s |-> buyers[b].version]
           items == Bulk!Select(versions)
<1>1. \A b \in s : versions[b] \in Nat
  BY DEF BulkTypes, BuyerRecord
<1>2. /\ items \in [Buyers -> RowRecord] /\ Bulk!In(items, Bulk!ItemStates) = s
      /\ \A b \in Buyers : items[b].result \in {"pending", "none"}
  BY <1>1, SelectedRows
<1>3. s # {}
  BY SameCardinality, FS_EmptySet, BulkAssumption DEF Bulk!CreateBulkJob
<1>4. /\ bulkJobs[j].status = "absent" /\ bulkJobs' = [bulkJobs EXCEPT ![j] = Bulk!Queued(op, items, 0)]
      /\ wakeups' = wakeups \cup {<<j, 0>>} /\ UNCHANGED <<buyers, manifests>>
  BY DEF Bulk!CreateBulkJob, Bulk!Unused
<1> HIDE DEF items
<1>5. OneJob(j, Bulk!Queued(op, items, 0))
  BY <1>2, <1>3, <1>4, QueueIsOneJob
<1>6. Bulk!Queued(op, items, 0) \in BulkJobRecord /\ Bulk!Queued(op, items, 0).items = items
      /\ Bulk!Queued(op, items, 0).manifest = 0
  BY <1>2, QueuedIs
<1>7. Queues(j, Bulk!Queued(op, items, 0))
  BY <1>2, <1>4, <1>5, <1>6, SameBuyers DEF Queues
<1> QED BY <1>6, <1>7 DEF BulkMoves

LEMMA RetryMoves ==
    ASSUME BulkTypes, NothingAhead, NEW j \in BulkJobs, NEW retry \in BulkJobs, Bulk!RetryFailedOnly(j, retry)
    PROVE  BulkMoves
<1> DEFINE failed == Bulk!In(bulkJobs[j].items, Bulk!Failed)
           versions == [b \in failed |-> buyers[b].version]
           items == Bulk!Select(versions)
           op == bulkJobs[j].op
<1>0. failed \subseteq Buyers /\ failed # {} /\ op \in Operations \cup {"none"}
  BY DEF Bulk!RetryFailedOnly, Bulk!In, BulkTypes, BulkJobRecord
<1>1. CASE Cardinality(failed) > SyncLimit
  <2>1. \A b \in failed : versions[b] \in Nat
    BY <1>0 DEF BulkTypes, BuyerRecord
  <2>2. /\ items \in [Buyers -> RowRecord] /\ Bulk!In(items, Bulk!ItemStates) = failed
        /\ \A b \in Buyers : items[b].result \in {"pending", "none"}
    BY <1>0, <2>1, SelectedRows
  <2>4. /\ bulkJobs[retry].status = "absent" /\ bulkJobs' = [bulkJobs EXCEPT ![retry] = Bulk!Queued(op, items, 0)]
        /\ wakeups' = wakeups \cup {<<retry, 0>>} /\ UNCHANGED <<buyers, manifests>>
    BY SameCardinality, <1>1 DEF Bulk!RetryFailedOnly, Bulk!Unused
  <2> HIDE DEF items, op, failed
  <2>5. OneJob(retry, Bulk!Queued(op, items, 0))
    BY <1>0, <2>2, <2>4, QueueIsOneJob
  <2>6. Bulk!Queued(op, items, 0) \in BulkJobRecord /\ Bulk!Queued(op, items, 0).items = items
        /\ Bulk!Queued(op, items, 0).manifest = 0
    BY <1>0, <2>2, QueuedIs
  <2>7. Queues(retry, Bulk!Queued(op, items, 0))
    BY <2>2, <2>4, <2>5, <2>6, SameBuyers DEF Queues
  <2> QED BY <2>6, <2>7 DEF BulkMoves
<1>2. CASE ~(Cardinality(failed) > SyncLimit)
  <2>1. buyers' = Bulk!BuyersAfter(op, items, failed) /\ UNCHANGED <<bulkJobs, wakeups, manifests>>
    BY SameCardinality, <1>2 DEF Bulk!RetryFailedOnly
  <2> HIDE DEF items, op, failed
  <2>2. VersionsGrow
    <3>1. BuyersGo(op, items, failed, Bulk!BuyersAfter(op, items, failed))
      BY <1>0, BuyersMove DEF BulkTypes
    <3> QED BY <2>1, <3>1 DEF VersionsGrow, BuyersGo
  <2> QED BY <2>1, <2>2 DEF BulkMoves, Idles
<1> QED BY <1>1, <1>2

LEMMA CancelMoves ==
    ASSUME BulkTypes, NothingAhead, Bulk!JobAddsUp, NEW j \in BulkJobs, Bulk!CancelBulkJob(j)
    PROVE  BulkMoves
<1> DEFINE job == [bulkJobs[j] EXCEPT !.status = "cancel_requested"]
<1>1. bulkJobs[j] \in BulkJobRecord /\ bulkJobs[j].status \in {"queued", "running"}
  BY DEF Bulk!CancelBulkJob, Bulk!JobStatuses, BulkTypes
<1>2. /\ job \in BulkJobRecord /\ job.status = "cancel_requested" /\ job.items = bulkJobs[j].items
      /\ job.processed = bulkJobs[j].processed /\ job.tally = bulkJobs[j].tally
      /\ job.op = bulkJobs[j].op /\ job.manifest = bulkJobs[j].manifest
  BY <1>1 DEF BulkJobRecord, Bulk!JobStatuses
<1>3. bulkJobs' = [bulkJobs EXCEPT ![j] = job] /\ UNCHANGED <<buyers, manifests, wakeups>>
  BY DEF Bulk!CancelBulkJob
<1> HIDE DEF job
<1>4. AddsUp(j, bulkJobs[j], IntentsOf(j))
  BY JobsAddUp
<1>5. AddsUp(j, job, IntentsOf(j)')
  <2>1. IntentsOf(j)' = IntentsOf(j)
    BY <1>3 DEF IntentsOf
  <2> QED BY <1>1, <1>2, <1>4, <2>1 DEF AddsUp, Bulk!Requested
<1>6. OneJob(j, job)
  BY <1>2, <1>3, <1>5 DEF OneJob, IntentsOf, BulkTypes
<1>7. RunsOn(j, job)
  BY <1>1, <1>2, <1>3, <1>6, SameBuyers DEF RunsOn, Decides, Bulk!Finished
<1> QED BY <1>2, <1>7 DEF BulkMoves

LEMMA PreviewMoves ==
    ASSUME BulkTypes, NEW m \in Manifests, NEW op \in Operations, NEW s \in Sources, NEW x, Bulk!Preview(m, op, s, x)
    PROVE  BulkMoves
<1>1. PICK rows \in SUBSET Buyers :
         manifests' = [manifests EXCEPT ![m] = [status |-> "ready", op |-> op, source |-> s,
                                                items |-> Bulk!Select([b \in rows |-> buyers[b].version])]]
  <2> DEFINE rows == (IF s = 0 THEN Buyers ELSE Bulk!In(bulkJobs[s].items, Bulk!Failed) \ Bulk!SuccessfulRetries(s)) \ x
  <2>1. rows \in SUBSET Buyers
    BY DEF Bulk!In
  <2>2. manifests' = [manifests EXCEPT ![m] = [status |-> "ready", op |-> op, source |-> s,
                                               items |-> Bulk!Select([b \in rows |-> buyers[b].version])]]
    BY Zenon DEF Bulk!Preview
  <2> HIDE DEF rows
  <2> QED BY <2>1, <2>2
<1> DEFINE versions == [b \in rows |-> buyers[b].version]
           items == Bulk!Select(versions)
           row == [status |-> "ready", op |-> op, source |-> s, items |-> items]
<1>2. \A b \in rows : versions[b] \in Nat
  BY DEF BulkTypes, BuyerRecord
<1>3. items \in [Buyers -> RowRecord] /\ \A b \in Buyers : items[b].result \in {"pending", "none"}
  BY <1>2, SelectedRows
<1>4. manifests' = [manifests EXCEPT ![m] = row]
  BY <1>1
<1> HIDE DEF items
<1>5. row \in ManifestRecord /\ row.status = "ready" /\ row.items = items
  BY <1>3, BulkAssumption DEF ManifestRecord
<1>6. manifests[m].status = "absent" /\ UNCHANGED <<buyers, bulkJobs, wakeups>>
  BY DEF Bulk!Preview
<1> HIDE DEF row
<1>7. Previews(m, row)
  BY <1>3, <1>4, <1>5, <1>6, SameBuyers DEF Previews
<1> QED BY <1>5, <1>7 DEF BulkMoves

LEMMA ExecuteMoves ==
    ASSUME BulkTypes, NothingAhead, NEW m \in Manifests, NEW j \in BulkJobs, Bulk!Execute(m, j)
    PROVE  BulkMoves
<1> DEFINE op == manifests[m].op
           items == manifests[m].items
           rows == Bulk!In(items, Bulk!ItemStates)
<1>1. /\ manifests[m] \in ManifestRecord /\ op \in Operations \cup {"none"} /\ items \in [Buyers -> RowRecord]
      /\ manifests[m].status = "ready"
  BY DEF BulkTypes, ManifestRecord, Bulk!Execute
<1>2. /\ \A b \in Buyers : items[b].result \in {"pending", "none"}
      /\ rows \subseteq Bulk!In(items, {"pending"})
  BY <1>1 DEF NothingAhead, Bulk!In, Bulk!ItemStates
<1>3. Admits(m)
  <2>1. Bulk!Serialized(m)
    BY DEF Bulk!Execute
  <2>2. \A s \in BulkJobs : s # 0
    BY BulkAssumption
  <2> QED BY <1>1, <2>1, <2>2 DEF Admits, Bulk!Serialized
<1>4. CASE Cardinality(rows) > SyncLimit
  <2>1. /\ Bulk!Unused(j) /\ bulkJobs' = [bulkJobs EXCEPT ![j] = Bulk!Queued(op, items, m)]
        /\ wakeups' = wakeups \cup {<<j, 0>>} /\ manifests' = [manifests EXCEPT ![m].status = "executed"]
        /\ UNCHANGED buyers
    <3>1. Cardinality(Bulk!In(manifests[m].items, Bulk!ItemStates)) > SyncLimit
      BY <1>4
    <3>2. /\ Bulk!Unused(j) /\ bulkJobs' = [bulkJobs EXCEPT ![j] = Bulk!Queued(manifests[m].op, manifests[m].items, m)]
          /\ wakeups' = wakeups \cup {<<j, 0>>} /\ manifests' = [manifests EXCEPT ![m].status = "executed"]
          /\ UNCHANGED buyers
      BY SameCardinality, <3>1, Zenon DEF Bulk!Execute
    <3> QED BY <3>2
  <2>2. rows # {}
    BY <1>4, FS_EmptySet, BulkAssumption
  <2>3. bulkJobs[j].status = "absent"
    BY <2>1 DEF Bulk!Unused
  <2> HIDE DEF op
  <2>4. OneJob(j, Bulk!Queued(op, items, m))
    BY <1>1, <1>2, <2>1, <2>2, <2>3, QueueIsOneJob
  <2>5. Bulk!Queued(op, items, m) \in BulkJobRecord /\ Bulk!Queued(op, items, m).items = items
        /\ Bulk!Queued(op, items, m).manifest = m
    <3>1. m \in Manifests \cup {0} /\ items \in [Buyers -> RowRecord] /\ op \in Operations \cup {"none"}
      BY <1>1
    <3> HIDE DEF items
    <3> QED BY <3>1, QueuedIs
  <2>6. Queues(j, Bulk!Queued(op, items, m))
    BY <1>2, <1>3, <2>1, <2>3, <2>4, <2>5, SameBuyers DEF Queues
  <2> QED BY <2>5, <2>6 DEF BulkMoves
<1>5. CASE ~(Cardinality(rows) > SyncLimit)
  <2>1. /\ buyers' = Bulk!BuyersAfter(op, items, rows) /\ UNCHANGED <<bulkJobs, wakeups>>
        /\ manifests' = [manifests EXCEPT ![m].status = "executed", ![m].items = Bulk!ApplyRows(op, items, rows)]
    <3>1. ~(Cardinality(Bulk!In(manifests[m].items, Bulk!ItemStates)) > SyncLimit)
      BY <1>5
    <3>2. /\ buyers' = Bulk!BuyersAfter(manifests[m].op, manifests[m].items, Bulk!In(manifests[m].items, Bulk!ItemStates))
          /\ UNCHANGED <<bulkJobs, wakeups>>
          /\ manifests' = [manifests EXCEPT ![m].status = "executed",
                 ![m].items = Bulk!ApplyRows(manifests[m].op, manifests[m].items, Bulk!In(manifests[m].items, Bulk!ItemStates))]
      BY SameCardinality, <3>1, Zenon DEF Bulk!Execute
    <3> QED BY <3>2
  <2>2. PICK applied : applied = Bulk!ApplyRows(op, items, rows)
    OBVIOUS
  <2>3. PICK row : row = [manifests[m] EXCEPT !.status = "executed", !.items = applied]
    OBVIOUS
  <2>4. manifests' = [manifests EXCEPT ![m] = row]
    BY <2>1, <2>2, <2>3 DEF BulkTypes
  <2> HIDE DEF op, items, rows
  <2>5. /\ Settles(items, applied, rows) /\ applied \in [Buyers -> RowRecord]
        /\ \A b \in rows : applied[b].result = Bulk!Outcome(op, buyers[b], items[b].expected)
    BY <1>1, <1>2, <2>2, OutcomesSettle DEF BulkTypes
  <2>6. /\ buyers' \in [Buyers -> BuyerRecord] /\ \A b \in Buyers : buyers[b].version <= buyers'[b].version
        /\ \A b \in Buyers \cap rows :
              Bulk!Outcome(op, buyers[b], items[b].expected) = "updated" /\ op # "changeListMemberships" =>
                 buyers'[b].version = buyers[b].version + 1
    <3>1. BuyersGo(op, items, rows, Bulk!BuyersAfter(op, items, rows))
      BY <1>1, BuyersMove DEF BulkTypes
    <3> QED BY <2>1, <3>1 DEF BuyersGo
  <2>7. /\ row \in ManifestRecord /\ row.status = "executed" /\ row.items = applied
        /\ row.op = op /\ row.source = manifests[m].source
    <3>1. PICK old \in ManifestRecord : old = manifests[m]
      BY <1>1
    <3>2. row = [old EXCEPT !.status = "executed", !.items = applied]
      BY <2>3, <3>1
    <3>3. /\ row \in ManifestRecord /\ row.status = "executed" /\ row.items = applied
          /\ row.op = old.op /\ row.source = old.source
      BY <2>5, <3>2 DEF ManifestRecord
    <3> QED BY <3>1, <3>3 DEF op
  <2>8. Decides(op, items, applied)
    <3> SUFFICES ASSUME NEW b \in Buyers
                 PROVE  /\ applied[b].expected = items[b].expected
                        /\ applied[b].result # items[b].result =>
                              /\ items[b].result = "pending"
                              /\ applied[b].result = "updated" /\ op # "changeListMemberships" =>
                                    items[b].expected = buyers[b].version /\ buyers'[b].version = buyers[b].version + 1
      BY DEF Decides
    <3>1. applied[b].expected = items[b].expected /\ (b \notin rows => applied[b].result = items[b].result)
      BY <2>5 DEF Settles
    <3>2. b \in rows => items[b].result = "pending"
      BY <2>5 DEF Settles, Bulk!In
    <3>3. ASSUME b \in rows, applied[b].result = "updated"
          PROVE  items[b].expected = buyers[b].version /\ Bulk!Outcome(op, buyers[b], items[b].expected) = "updated"
      BY <2>5, <3>3, UpdatedWasCurrent
    <3> QED BY <2>6, <3>1, <3>2, <3>3
  <2>9. VersionsGrow
    BY <2>6 DEF VersionsGrow
  <2>10. Decides(row.op, manifests[m].items, row.items) /\ row.op = manifests[m].op
    BY <2>7, <2>8 DEF op, items
  <2>11. Executes(m, row)
    BY <1>3, <2>1, <2>4, <2>7, <2>9, <2>10 DEF Executes
  <2> QED BY <2>7, <2>11 DEF BulkMoves
<1> QED BY <1>4, <1>5

LEMMA EditMoves == ASSUME BulkTypes, NEW b, Bulk!EditBuyer(b) PROVE BulkMoves
<1>1. \A c \in Buyers : buyers[c] \in BuyerRecord /\ buyers[c].version \in Nat
  BY DEF BulkTypes, BuyerRecord
<1>2. \A c \in Buyers : c # b => buyers'[c] = buyers[c]
  BY DEF Bulk!EditBuyer, BulkTypes
<1>3. b \in Buyers => buyers'[b] = [version |-> buyers[b].version + 1, has |-> {}]
  BY DEF Bulk!EditBuyer, BulkTypes
<1>4. \A v \in Nat : [version |-> v + 1, has |-> {}] \in BuyerRecord
  BY DEF BuyerRecord
<1>5. \A c \in Buyers : buyers'[c] \in BuyerRecord /\ buyers[c].version <= buyers'[c].version
  <2> TAKE c \in Buyers
  <2>1. CASE c = b
    BY <1>1, <1>3, <1>4, <2>1
  <2>2. CASE c # b
    BY <1>1, <1>2, <2>2
  <2> QED BY <2>1, <2>2
<1>6. buyers' \in [Buyers -> BuyerRecord]
  BY <1>5 DEF Bulk!EditBuyer, BulkTypes
<1> QED BY <1>5, <1>6 DEF Bulk!EditBuyer, BulkMoves, Idles, VersionsGrow

\* What a run of the intent leaves of the intents.
LEMMA NextIntents ==
    ASSUME NEW j, NEW k, NEW W, <<j, k>> \in wakeups, IntentsOf(j) \subseteq {<<j, k>>},
           \A w \in W : w[1] = j, wakeups' = (wakeups \ {<<j, k>>}) \cup W
    PROVE  IntentsOf(j)' = W /\ \A i : i # j => IntentsOf(i)' = IntentsOf(i)
BY DEF IntentsOf

LEMMA ChunkMoves ==
    ASSUME BulkTypes, NothingAhead, Bulk!JobAddsUp, NEW j \in BulkJobs, NEW k, Bulk!ApplyBulkChunk(j, k)
    PROVE  BulkMoves
<1> DEFINE job == bulkJobs[j]
           chunk == Bulk!Chunk(job.items)
<1>1. job \in BulkJobRecord /\ AddsUp(j, job, IntentsOf(j)) /\ buyers \in [Buyers -> BuyerRecord]
  BY JobsAddUp DEF BulkTypes
<1>2. <<j, k>> \in IntentsOf(j) /\ job.status # "absent"
  BY DEF Bulk!ApplyBulkChunk, IntentsOf, NothingAhead
<1>3. /\ job.op \in Operations \cup {"none"} /\ job.items \in [Buyers -> RowRecord]
      /\ chunk \subseteq Bulk!In(job.items, {"pending"})
  BY <1>1, ChunkIsPending DEF BulkJobRecord
<1>4. UNCHANGED manifests
  BY DEF Bulk!ApplyBulkChunk
<1>5. CASE job.status \in Bulk!Finished
  <2>1. bulkJobs' = [bulkJobs EXCEPT ![j] = job] /\ wakeups' = wakeups \ {<<j, k>>} /\ buyers' = buyers
    BY <1>5 DEF Bulk!ApplyBulkChunk, Bulk!Finished
  <2>2. AddsUp(j, job, IntentsOf(j)')
    BY <1>1, <1>5 DEF AddsUp, Bulk!Finished
  <2>3. \A i \in BulkJobs : i # j => IntentsOf(i)' = IntentsOf(i)
    BY <2>1 DEF IntentsOf
  <2>4. wakeups' \subseteq BulkJobs \X Nat
    BY <2>1 DEF BulkTypes
  <2> HIDE DEF job
  <2>5. OneJob(j, job)
    BY <1>1, <1>2, <2>1, <2>2, <2>3, <2>4 DEF OneJob
  <2>6. Decides(job.op, bulkJobs[j].items, job.items)
    BY DEF Decides, job
  <2>7. job.op = bulkJobs[j].op /\ job.manifest = bulkJobs[j].manifest /\ job.items = bulkJobs[j].items
    BY DEF job
  <2>8. RunsOn(j, job)
    BY <1>4, <1>5, <2>1, <2>5, <2>6, <2>7, SameBuyers DEF RunsOn
  <2> QED BY <1>1, <2>8 DEF BulkMoves
<1>6. ASSUME job.status \in {"queued", "running", "cancel_requested"}, NEW after,
             Proceeds(j, job, after, chunk, Bulk!NextWakeup(j, after)),
             bulkJobs' = [bulkJobs EXCEPT ![j] = after],
             wakeups' = (wakeups \ {<<j, k>>}) \cup Bulk!NextWakeup(j, after),
             VersionsGrow,
             \A b \in chunk : after.items[b].result = "updated" /\ job.op # "changeListMemberships" =>
                job.items[b].expected = buyers[b].version /\ buyers'[b].version = buyers[b].version + 1
      PROVE  BulkMoves
  <2>1. IntentsOf(j) = {<<j, job.processed>>}
    BY <1>1, <1>6 DEF AddsUp
  <2>2. IntentsOf(j) \subseteq {<<j, k>>}
    BY <1>2, <2>1
  <2>3. after \in BulkJobRecord /\ after.processed \in Nat
    BY <1>6 DEF Proceeds, BulkJobRecord
  <2>4. /\ \A w \in Bulk!NextWakeup(j, after) : w[1] = j
        /\ Bulk!NextWakeup(j, after) \subseteq BulkJobs \X Nat
    BY <2>3 DEF Bulk!NextWakeup
  <2>5. <<j, k>> \in wakeups
    BY <1>2 DEF IntentsOf
  <2>6. IntentsOf(j)' = Bulk!NextWakeup(j, after) /\ \A i : i # j => IntentsOf(i)' = IntentsOf(i)
    BY <1>6, <2>2, <2>4, <2>5, NextIntents
  <2>7. wakeups' \subseteq BulkJobs \X Nat
    BY <1>6, <2>4 DEF BulkTypes
  <2> HIDE DEF job, chunk
  <2>8. OneJob(j, after)
    BY <1>6, <2>3, <2>6, <2>7 DEF OneJob, Proceeds
  <2>9. Decides(after.op, job.items, after.items)
    <3>1. after.op = job.op /\ Settles(job.items, after.items, chunk)
      BY <1>6 DEF Proceeds
    <3>2. \A b \in chunk : job.items[b].result = "pending"
      BY <3>1 DEF Settles, Bulk!In
    <3>3. \A b \in Buyers : after.items[b].expected = job.items[b].expected
      BY <3>1 DEF Settles
    <3>4. \A b \in Buyers : after.items[b].result # job.items[b].result => b \in chunk
      BY <3>1 DEF Settles
    <3> QED BY <1>6, <3>1, <3>2, <3>3, <3>4 DEF Decides
  <2>10. after.op = job.op /\ after.manifest = job.manifest /\ job.status \notin Bulk!Finished
    BY <1>6 DEF Proceeds, Bulk!Finished
  <2>11. RunsOn(j, after)
    BY <1>4, <1>6, <2>8, <2>9, <2>10 DEF RunsOn, job
  <2> QED BY <2>3, <2>11 DEF BulkMoves
<1>7. CASE job.status = "cancel_requested"
  <2>1. PICK after : after = Bulk!Cancelled(job, chunk)
    OBVIOUS
  <2>2. /\ bulkJobs' = [bulkJobs EXCEPT ![j] = after] /\ buyers' = buyers
        /\ wakeups' = (wakeups \ {<<j, k>>}) \cup Bulk!NextWakeup(j, after)
    BY <1>7, <2>1 DEF Bulk!ApplyBulkChunk, Bulk!Finished
  <2> HIDE DEF job
  <2>3. Proceeds(j, job, after, chunk, Bulk!NextWakeup(j, after)) /\ \A b \in chunk : after.items[b].result = "cancelled"
    BY <1>1, <2>1, CancelledProceeds
  <2> HIDE DEF chunk
  <2>4. VersionsGrow
    BY <2>2, SameBuyers
  <2> QED BY <1>6, <1>7, <2>2, <2>3, <2>4
<1>8. CASE job.status \in {"queued", "running"} /\ permitted
  <2>1. PICK items : items = Bulk!ApplyRows(job.op, job.items, chunk)
    OBVIOUS
  <2>2. PICK after : after = Bulk!Advanced(job, chunk, items)
    OBVIOUS
  <2>3. /\ bulkJobs' = [bulkJobs EXCEPT ![j] = after] /\ buyers' = Bulk!BuyersAfter(job.op, job.items, chunk)
        /\ wakeups' = (wakeups \ {<<j, k>>}) \cup Bulk!NextWakeup(j, after)
    BY <1>8, <2>1, <2>2 DEF Bulk!ApplyBulkChunk, Bulk!Finished
  <2> HIDE DEF job, chunk
  <2>4. /\ Settles(job.items, items, chunk) /\ items \in [Buyers -> RowRecord]
        /\ \A b \in chunk : items[b].result = Bulk!Outcome(job.op, buyers[b], job.items[b].expected)
    BY <1>1, <1>3, <2>1, OutcomesSettle
  <2>5. Proceeds(j, job, after, chunk, Bulk!NextWakeup(j, after)) /\ after.items = items
    BY <1>1, <2>2, <2>4, AdvancedProceeds
  <2>6. /\ VersionsGrow
        /\ \A b \in Buyers \cap chunk :
              Bulk!Outcome(job.op, buyers[b], job.items[b].expected) = "updated" /\ job.op # "changeListMemberships" =>
                 buyers'[b].version = buyers[b].version + 1
    <3>0. PICK op \in Operations \cup {"none"} : op = job.op
      BY <1>3
    <3>00. PICK rows : rows = job.items
      OBVIOUS
    <3>1. PICK new : new = Bulk!BuyersAfter(op, rows, chunk)
      OBVIOUS
    <3>2. /\ new \in [Buyers -> BuyerRecord] /\ \A b \in Buyers : buyers[b].version <= new[b].version
          /\ \A b \in Buyers \cap chunk :
                Bulk!Outcome(op, buyers[b], rows[b].expected) = "updated" /\ op # "changeListMemberships" =>
                   new[b].version = buyers[b].version + 1
      <4>1. BuyersGo(op, rows, chunk, new)
        BY <1>1, <3>1, BuyersMove
      <4> QED BY <4>1 DEF BuyersGo
    <3>3. buyers' = new
      BY <2>3, <3>0, <3>00, <3>1
    <3>4. VersionsGrow
      BY <3>2, <3>3 DEF VersionsGrow
    <3> QED BY <3>0, <3>00, <3>2, <3>3, <3>4
  <2>7. \A b \in chunk : after.items[b].result = "updated" /\ job.op # "changeListMemberships" =>
           job.items[b].expected = buyers[b].version /\ buyers'[b].version = buyers[b].version + 1
    <3> SUFFICES ASSUME NEW b \in chunk, after.items[b].result = "updated", job.op # "changeListMemberships"
                 PROVE  job.items[b].expected = buyers[b].version /\ buyers'[b].version = buyers[b].version + 1
      OBVIOUS
    <3>1. Bulk!Outcome(job.op, buyers[b], job.items[b].expected) = "updated"
      BY <2>4, <2>5
    <3>2. b \in Buyers
      BY <1>3 DEF Bulk!In
    <3> QED BY <2>6, <3>1, <3>2, UpdatedWasCurrent
  <2> QED BY <1>6, <1>8, <2>3, <2>5, <2>6, <2>7
<1>9. CASE job.status \in {"queued", "running"} /\ ~permitted
  <2>1. PICK items : items = Bulk!Refuse(job.items, chunk, "blocked")
    OBVIOUS
  <2>2. PICK after : after = Bulk!Advanced(job, chunk, items)
    OBVIOUS
  <2>3. /\ bulkJobs' = [bulkJobs EXCEPT ![j] = after] /\ buyers' = buyers
        /\ wakeups' = (wakeups \ {<<j, k>>}) \cup Bulk!NextWakeup(j, after)
    BY <1>9, <2>1, <2>2 DEF Bulk!ApplyBulkChunk, Bulk!Finished
  <2> HIDE DEF job, chunk
  <2>4. /\ Settles(job.items, items, chunk) /\ items \in [Buyers -> RowRecord]
        /\ \A b \in chunk : items[b].result = "blocked"
    BY <1>1, <1>3, <2>1, OutcomesSettle
  <2>5. Proceeds(j, job, after, chunk, Bulk!NextWakeup(j, after)) /\ after.items = items
    BY <1>1, <2>2, <2>4, AdvancedProceeds
  <2>6. VersionsGrow
    BY <2>3, SameBuyers
  <2> QED BY <1>6, <1>9, <2>3, <2>4, <2>5, <2>6
<1>10. job.status \in Bulk!JobStatuses
  BY <1>1 DEF BulkJobRecord
<1> QED BY <1>2, <1>5, <1>7, <1>8, <1>9, <1>10 DEF Bulk!JobStatuses

----------------------------------------------------------------------------
LEMMA BulkStart == ASSUME Bulk!BulkInit PROVE BulkInv
<1>1. \A b \in Buyers : Bulk!NoRows[b].result = "none" /\ Bulk!NoRows[b].expected = 0
  BY DEF Bulk!NoRows, Bulk!NotSelected
<1>2. Bulk!NoRows \in [Buyers -> RowRecord]
  BY DEF Bulk!NoRows, Bulk!NotSelected, RowRecord
<1>3. \A states \in SUBSET Bulk!ItemStates : Bulk!In(Bulk!NoRows, states) = {}
  BY <1>1 DEF Bulk!In, Bulk!ItemStates
<1>4. Bulk!NoJob \in BulkJobRecord /\ Bulk!NoManifest \in ManifestRecord
  BY <1>2 DEF Bulk!NoJob, Bulk!NoManifest, BulkJobRecord, ManifestRecord, Bulk!JobStatuses
<1>5. \A j \in BulkJobs : bulkJobs[j] = Bulk!NoJob
  BY DEF Bulk!BulkInit
<1>6. \A m \in Manifests : manifests[m] = Bulk!NoManifest
  BY DEF Bulk!BulkInit
<1>7. /\ Bulk!NoJob.status = "absent" /\ Bulk!NoJob.items = Bulk!NoRows /\ Bulk!NoJob.processed = 0 /\ Bulk!NoJob.manifest = 0
      /\ Bulk!NoJob.tally = [s \in Bulk!Tallies |-> 0] /\ Bulk!NoManifest.status = "absent" /\ Bulk!NoManifest.items = Bulk!NoRows
  BY DEF Bulk!NoJob, Bulk!NoManifest
<1>8. BulkTypes
  <2>1. [version |-> 1, has |-> {}] \in BuyerRecord
    BY DEF BuyerRecord
  <2>2. buyers \in [Buyers -> BuyerRecord]
    BY <2>1 DEF Bulk!BulkInit
  <2> QED BY <1>4, <2>2 DEF Bulk!BulkInit, BulkTypes
<1>9. NothingAhead
  BY <1>1, <1>5, <1>6, <1>7, BulkAssumption DEF NothingAhead, IntentsOf, Bulk!BulkInit
<1>10. Bulk!JobAddsUp
  <2>1. \A s \in Bulk!Tallies : Bulk!In(Bulk!NoRows, {s}) = {} /\ Bulk!In(Bulk!NoRows, {"pending"}) = {} /\ Bulk!In(Bulk!NoRows, Bulk!ItemStates) = {}
    BY <1>3 DEF Bulk!Tallies, Bulk!Succeeded, Bulk!Failed, Bulk!ItemStates
  <2>2. Bulk!In(Bulk!NoRows, {"pending"}) = {} /\ Bulk!In(Bulk!NoRows, Bulk!ItemStates) = {}
    BY <1>3 DEF Bulk!ItemStates
  <2>3. Bulk!Requested(Bulk!NoJob) = 0 /\ Cardinality(Bulk!In(Bulk!NoJob.items, {"pending"})) = 0
    BY SameCardinality, <1>7, <2>2, FS_EmptySet DEF Bulk!Requested
  <2>4. \A s \in Bulk!Tallies : Bulk!NoJob.tally[s] = Cardinality(Bulk!In(Bulk!NoJob.items, {s}))
    BY <1>7, <2>1, FS_EmptySet
  <2>5. \A j : AddsUp(j, Bulk!NoJob, {})
    BY <1>7, <2>3, <2>4 DEF AddsUp
  <2>6. \A j \in BulkJobs : IntentsOf(j) = {}
    BY DEF Bulk!BulkInit, IntentsOf
  <2> QED BY <1>5, <2>5, <2>6, JobsAddUp
<1>11. \A s : Bulk!Retries(s) = {}
  BY <1>6, <1>7 DEF Bulk!Retries
<1>12. \A s : Bulk!RetryJobs(s) = {}
  BY <1>11 DEF Bulk!RetryJobs
<1>13. OneReceipt /\ OneRetryRuns
  BY <1>11, <1>12 DEF OneReceipt, OneRetryRuns, ByManifest, ByJob
<1>14. SpentOnce
  BY <1>1, <1>5, <1>6, <1>7 DEF SpentOnce, SpentByJob, SpentByManifest
<1> QED BY <1>8, <1>9, <1>10, <1>13, <1>14 DEF BulkInv

LEMMA BulkStep == ASSUME BulkInv, [Bulk!BulkNext]_bulkVars PROVE BulkInv'
<1>1. BulkMoves
  <2>1. ASSUME NEW w \in wakeups, Bulk!ApplyBulkChunk(w[1], w[2]) PROVE BulkMoves
    <3>1. w[1] \in BulkJobs
      BY DEF BulkInv, BulkTypes
    <3> QED BY <2>1, <3>1, ChunkMoves DEF BulkInv
  <2>2. ASSUME NEW m \in Manifests, NEW op \in Operations, NEW s \in Sources, NEW x, Bulk!Preview(m, op, s, x)
        PROVE  BulkMoves
    BY <2>2, PreviewMoves DEF BulkInv
  <2>3. ASSUME Bulk!ChangeMembership PROVE BulkMoves
    BY <2>3, SameBuyers DEF Bulk!ChangeMembership, BulkInv, BulkMoves, Idles
  <2>4. ASSUME UNCHANGED bulkVars PROVE BulkMoves
    BY <2>4, SameBuyers DEF bulkVars, BulkInv, BulkMoves, Idles
  <2> QED BY <2>1, <2>2, <2>3, <2>4, CreateMoves, CancelMoves, RetryMoves, ExecuteMoves, EditMoves
          DEF Bulk!BulkNext, BulkInv
<1> QED BY <1>1, CountsMove, ReceiptsMove, SpendingMoves DEF BulkInv

LEMMA AtMostOne ==
    ASSUME NEW S, \A x, y \in S : x = y
    PROVE  Cardinality(S) \in {0, 1} /\ (Cardinality(S) = 1 => S # {})
<1>1. CASE S = {}
  BY <1>1, FS_EmptySet
<1>2. CASE S # {}
  <2>1. PICK x : S = {x}
    BY <1>2
  <2> QED BY <2>1, FS_Singleton
<1> QED BY <1>1, <1>2

\* What the invariant says of the counts that the run checks.
LEMMA BulkIsTrue == ASSUME BulkInv PROVE Bulk!BulkCountsAreTrue
<1>1. Bulk!RetryHandlesOnce
  <2> SUFFICES ASSUME NEW s \in BulkJobs, NEW b \in Buyers
               PROVE  Cardinality({m \in Bulk!Retries(s) : manifests[m].items[b].result \in Bulk!Succeeded})
                        + Cardinality({j \in Bulk!RetryJobs(s) : bulkJobs[j].items[b].result \in Bulk!Succeeded}) <= 1
    BY SameCardinality DEF Bulk!RetryHandlesOnce
  <2> DEFINE M == {m \in Bulk!Retries(s) : manifests[m].items[b].result \in Bulk!Succeeded}
             J == {j \in Bulk!RetryJobs(s) : bulkJobs[j].items[b].result \in Bulk!Succeeded}
  <2>1. /\ \A m \in M : m \in Manifests /\ ByManifest(m, s, b)
        /\ \A j \in J : j \in BulkJobs /\ ByJob(j, s, b)
    BY DEF Bulk!Retries, Bulk!RetryJobs, ByManifest, ByJob
  <2>2. /\ \A m, n \in M : m = n
        /\ \A i, j \in J : i = j
        /\ M = {} \/ J = {}
    BY <2>1 DEF BulkInv, OneReceipt
  <2> HIDE DEF M, J
  <2>3. Cardinality(M) \in {0, 1} /\ Cardinality(J) \in {0, 1} /\ (M = {} => Cardinality(M) = 0)
        /\ (J = {} => Cardinality(J) = 0)
    BY <2>2, AtMostOne, FS_EmptySet
  <2>4. Cardinality(M) + Cardinality(J) <= 1
    BY <2>2, <2>3
  <2> QED BY <2>4 DEF M, J
<1>2. Bulk!VersionSpentOnce
  <2> DEFINE rs == {<<"job", j, b>> : j \in BulkJobs, b \in Buyers}
                      \cup {<<"manifest", m, b>> : m \in Manifests, b \in Buyers}
             op(r) == IF r[1] = "job" THEN bulkJobs[r[2]].op ELSE manifests[r[2]].op
             row(r) == IF r[1] = "job" THEN bulkJobs[r[2]].items[r[3]] ELSE manifests[r[2]].items[r[3]]
             spent == {r \in rs : row(r).result = "updated" /\ op(r) # "changeListMemberships"}
  <2>1. ASSUME NEW r \in spent
        PROVE  \/ /\ r[1] = "job" /\ r[2] \in BulkJobs /\ r[3] \in Buyers /\ r = <<"job", r[2], r[3]>>
                  /\ SpentByJob(r[2], r[3])
                  /\ row(r).expected = bulkJobs[r[2]].items[r[3]].expected
               \/ /\ r[1] = "manifest" /\ r[2] \in Manifests /\ r[3] \in Buyers /\ r = <<"manifest", r[2], r[3]>>
                  /\ SpentByManifest(r[2], r[3])
                  /\ row(r).expected = manifests[r[2]].items[r[3]].expected
    BY <2>1 DEF SpentByJob, SpentByManifest
  <2> HIDE DEF spent, row
  <2>2. \A r, q \in spent : r # q /\ r[3] = q[3] => row(r).expected # row(q).expected
    <3> SUFFICES ASSUME NEW r \in spent, NEW q \in spent, r # q, r[3] = q[3]
                 PROVE  row(r).expected # row(q).expected
      OBVIOUS
    <3>1. CASE r[1] = "job" /\ q[1] = "job"
      BY <2>1, <3>1 DEF BulkInv, SpentOnce
    <3>2. CASE r[1] = "manifest" /\ q[1] = "manifest"
      BY <2>1, <3>2 DEF BulkInv, SpentOnce
    <3>3. CASE r[1] = "job" /\ q[1] = "manifest"
      BY <2>1, <3>3 DEF BulkInv, SpentOnce
    <3>4. CASE r[1] = "manifest" /\ q[1] = "job"
      BY <2>1, <3>4 DEF BulkInv, SpentOnce
    <3> QED BY <2>1, <3>1, <3>2, <3>3, <3>4
  <2>3. \A r \in spent : row(r).expected < buyers[r[3]].version
    BY <2>1 DEF BulkInv, SpentOnce
  <2> QED BY <2>2, <2>3 DEF Bulk!VersionSpentOnce, spent, row
<1> QED BY <1>1, <1>2 DEF BulkInv, Bulk!BulkCountsAreTrue

----------------------------------------------------------------------------
\* Sales tasks, and what their theorem rests on.

VARIABLES task, reviewed, parent, steps, hold, stage, tools
salesVars == <<task, reviewed, parent, steps, hold, stage, tools>>

Sales == INSTANCE SalesTask

StepRecord == [state : Sales!StepStates, call : {"none", "held", "sent", "gone", "over"},
               unsubmitted : BOOLEAN, evidence : {"none", "kept", "settled"}, listed : BOOLEAN]
ToolStates == Sales!StepStates \cup {"nonaccepted"}
ToolRecord == [state : ToolStates, attempts : Nat, call : {"none", "held", "sent"},
               accepted : {0, 1}, taken : {0, 1}]
TaskStates == {"needs_input", "ready_for_review", "queued", "running", "cancel_requested",
               "cancelled", "outcome_unknown", "partially_completed", "failed", "completed"}
TaskRecord == [state : TaskStates, intake : Nat]
ParentRecord == [admitted : BOOLEAN, cancelled : BOOLEAN, released : BOOLEAN, intake : Nat]
StageRecord ==
    [dispatch : {"none", "reserved", "dispatched", "outcome_unknown", "settled", "cancelled"},
     cancelled : BOOLEAN, intake : Nat]

TaskTypes ==
    /\ task \in TaskRecord
    /\ parent \in ParentRecord
    /\ hold \in [state : {"none", "active", "released", "settled"}, remaining : Nat]

\* A section is untouched until it is claimed; what is billed was called, and
\* what a receipt lists ended without a call.
StepHolds(r) ==
    /\ r.state = "queued" => r.call = "none" /\ ~r.unsubmitted /\ r.evidence = "none" /\ ~r.listed
    /\ r.call = "none" => r.state \in {"queued", "failed", "cancelled"} /\ r.evidence = "none"
    /\ r.unsubmitted => r.state = "failed"
    /\ r.listed => r.state \in {"failed", "cancelled"} /\ (r.call = "none" \/ r.unsubmitted)
StepsHold(ss) == ss \in [Sections -> StepRecord] /\ \A s \in Sections : StepHolds(ss[s])

\* A tool that may be called again, or was not accepted, is not with the
\* supplier; a call under way is the only one, and is as the supplier took it.
ToolHolds(r) ==
    /\ r.state \in {"queued", "nonaccepted", "cancelled"} => r.accepted = 0
    /\ r.call = "held" /\ r.state = "submitting" => r.accepted = 0
    /\ r.call = "sent" => r.accepted = r.taken
ToolsHold(st, ts) ==
    /\ st \in StageRecord /\ ts \in [Sales!ToolIds -> ToolRecord]
    /\ \A i \in Sales!ToolIds : ToolHolds(ts[i])
    /\ st.dispatch = "none" => Sales!AllIn(ts, {"queued"})
    /\ st.dispatch = "cancelled" => Sales!AllIn(ts, {"cancelled"})

\* Before the admission nothing is called or held, and a finished task has no
\* section left to call.
ParentHolds ==
    /\ ~parent.admitted => /\ hold.remaining = 0 /\ ~parent.released
                           /\ \A s \in Sections : steps[s].state = "queued"
    /\ task.state = "completed" => ~parent.admitted \/ \A s \in Sections : steps[s].state = "received"

\* Every unit of the hold is there, billed, or listed as unused.
BilledSteps == {s \in Sections : steps[s].evidence = "settled"}
ListedSteps == {s \in Sections : steps[s].listed}
HoldAddsUp ==
    /\ parent.released => hold.remaining = 0 /\ Sales!Unused(steps)
    /\ parent.admitted /\ ~parent.released =>
          hold.remaining + Cardinality(BilledSteps) + Cardinality(ListedSteps) = Cardinality(Sections)

DoubtSteps(ss) == {s \in Sections : ss[s].state \in Sales!InDoubt}
DoubtTools(ts) == {i \in Sales!ToolIds : ts[i].state \in Sales!InDoubt}
NoDoubt(ss, ts) == DoubtSteps(ss) = {} /\ DoubtTools(ts) = {}

SalesInv ==
    /\ TaskTypes /\ StepsHold(steps) /\ ToolsHold(stage, tools) /\ ParentHolds /\ HoldAddsUp
    /\ Sales!Active(steps, tools) <= Sales!MaxConcurrency
    /\ task.state \in Sales!Deletable => NoDoubt(steps, tools)

\* The cardinality of SalesTask is the one of the theorems on finite sets.
LEMMA SalesCardinality == \A S : Sales!Cardinality(S) = Cardinality(S)
BY DEF Sales!Cardinality, Cardinality

\* The calls in doubt.
LEMMA DoubtIsCounted ==
  ASSUME NEW ss, NEW ts
  PROVE  /\ IsFiniteSet(DoubtSteps(ss)) /\ IsFiniteSet(DoubtTools(ts))
         /\ Sales!Active(ss, ts) \in Nat
         /\ Sales!Active(ss, ts) = Cardinality(DoubtSteps(ss)) + Cardinality(DoubtTools(ts))
         /\ NoDoubt(ss, ts) <=> Sales!Active(ss, ts) = 0
<1>1. IsFiniteSet(Sales!ToolIds)
  BY FS_Interval, SalesAssumption DEF Sales!ToolIds
<1>2. IsFiniteSet(DoubtSteps(ss))
  BY FS_Subset, SalesAssumption DEF DoubtSteps
<1>3. IsFiniteSet(DoubtTools(ts))
  BY <1>1, FS_Subset DEF DoubtTools
<1>4. Sales!Active(ss, ts) = Cardinality(DoubtSteps(ss)) + Cardinality(DoubtTools(ts))
  BY SalesCardinality DEF Sales!Active, DoubtSteps, DoubtTools
<1>5. Cardinality(DoubtSteps(ss)) \in Nat /\ Cardinality(DoubtTools(ts)) \in Nat
  BY <1>2, <1>3, FS_CardinalityType
<1>6. /\ Cardinality(DoubtSteps(ss)) = 0 <=> DoubtSteps(ss) = {}
      /\ Cardinality(DoubtTools(ts)) = 0 <=> DoubtTools(ts) = {}
  BY <1>2, <1>3, FS_EmptySet
<1> QED BY <1>2, <1>3, <1>4, <1>5, <1>6 DEF NoDoubt

LEMMA FewerDoubts ==
  ASSUME NEW ss, NEW ts, NEW st, NEW us,
         DoubtSteps(st) \subseteq DoubtSteps(ss), DoubtTools(us) \subseteq DoubtTools(ts)
  PROVE  Sales!Active(st, us) <= Sales!Active(ss, ts)
<1>1. Cardinality(DoubtSteps(st)) <= Cardinality(DoubtSteps(ss))
  BY DoubtIsCounted, FS_Subset
<1>2. Cardinality(DoubtTools(us)) <= Cardinality(DoubtTools(ts))
  BY DoubtIsCounted, FS_Subset
<1>3. /\ Cardinality(DoubtSteps(st)) \in Nat /\ Cardinality(DoubtSteps(ss)) \in Nat
      /\ Cardinality(DoubtTools(us)) \in Nat /\ Cardinality(DoubtTools(ts)) \in Nat
  BY DoubtIsCounted, FS_CardinalityType
<1> QED BY <1>1, <1>2, <1>3, DoubtIsCounted

\* A claim adds one call in doubt.
LEMMA OneMoreStep ==
  ASSUME NEW ss, NEW st, NEW ts, NEW s, DoubtSteps(st) \subseteq DoubtSteps(ss) \cup {s}
  PROVE  Sales!Active(st, ts) <= Sales!Active(ss, ts) + 1
<1>1. /\ IsFiniteSet(DoubtSteps(ss) \cup {s})
      /\ Cardinality(DoubtSteps(ss) \cup {s}) <= Cardinality(DoubtSteps(ss)) + 1
  BY DoubtIsCounted, FS_AddElement, FS_CardinalityType
<1>2. Cardinality(DoubtSteps(st)) <= Cardinality(DoubtSteps(ss) \cup {s})
  BY <1>1, FS_Subset
<1>3. /\ Cardinality(DoubtSteps(st)) \in Nat /\ Cardinality(DoubtSteps(ss)) \in Nat
      /\ Cardinality(DoubtSteps(ss) \cup {s}) \in Nat /\ Cardinality(DoubtTools(ts)) \in Nat
  BY <1>1, DoubtIsCounted, FS_CardinalityType
<1> QED BY <1>1, <1>2, <1>3, DoubtIsCounted

LEMMA OneMoreTool ==
  ASSUME NEW ss, NEW us, NEW ts, NEW i, DoubtTools(us) \subseteq DoubtTools(ts) \cup {i}
  PROVE  Sales!Active(ss, us) <= Sales!Active(ss, ts) + 1
<1>1. /\ IsFiniteSet(DoubtTools(ts) \cup {i})
      /\ Cardinality(DoubtTools(ts) \cup {i}) <= Cardinality(DoubtTools(ts)) + 1
  BY DoubtIsCounted, FS_AddElement, FS_CardinalityType
<1>2. Cardinality(DoubtTools(us)) <= Cardinality(DoubtTools(ts) \cup {i})
  BY <1>1, FS_Subset
<1>3. /\ Cardinality(DoubtTools(us)) \in Nat /\ Cardinality(DoubtTools(ts)) \in Nat
      /\ Cardinality(DoubtTools(ts) \cup {i}) \in Nat /\ Cardinality(DoubtSteps(ss)) \in Nat
  BY <1>1, DoubtIsCounted, FS_CardinalityType
<1> QED BY <1>1, <1>2, <1>3, DoubtIsCounted

\* The state a task is given.
LEMMA AggregateState ==
  ASSUME NEW states, NEW c \in BOOLEAN
  PROVE  /\ Sales!Aggregate(states, c) \in TaskStates /\ Sales!Aggregate(states, c) # "completed"
         /\ Sales!Aggregate(states, c) \in Sales!Deletable => states \cap Sales!InDoubt = {}
<1>1. CASE "unknown" \in states
  BY <1>1 DEF Sales!Aggregate, TaskStates, Sales!Deletable
<1>2. CASE "unknown" \notin states /\ "submitting" \in states
  BY <1>2 DEF Sales!Aggregate, TaskStates, Sales!Deletable
<1>3. CASE "unknown" \notin states /\ "submitting" \notin states
  <2>1. states \cap Sales!InDoubt = {}
    BY <1>3 DEF Sales!InDoubt
  <2>2. Sales!Aggregate(states, c) \in {"cancelled", "running", "ready_for_review", "partially_completed", "failed"}
    BY <1>3 DEF Sales!Aggregate
  <2> QED BY <2>1, <2>2 DEF TaskStates
<1> QED BY <1>1, <1>2, <1>3

\* A task that may be deleted owes its state to rows without a call in doubt.
LEMMA CombinedState ==
  ASSUME NEW fallback \in TaskStates, NEW ss \in [Sections -> StepRecord],
         NEW st \in StageRecord, NEW ts \in [Sales!ToolIds -> ToolRecord]
  PROVE  /\ Sales!Combined(fallback, ss, st, ts) \in TaskStates
         /\ Sales!Combined(fallback, ss, st, ts) = "completed" => fallback = "completed"
         /\ st.dispatch = "none" => Sales!Combined(fallback, ss, st, ts) = fallback
         /\ st.dispatch # "none" /\ Sales!Combined(fallback, ss, st, ts) \in Sales!Deletable =>
               DoubtTools(ts) = {} /\ (parent.admitted => DoubtSteps(ss) = {})
<1> DEFINE provider == {IF ts[i].state = "nonaccepted" THEN "failed" ELSE ts[i].state : i \in Sales!ToolIds}
           states == provider \cup (IF parent.admitted THEN Sales!StatesOf(ss) ELSE {})
           c == fallback \in {"cancelled", "cancel_requested"} \/ states = {"cancelled"}
<1>1. CASE st.dispatch = "none"
  BY <1>1 DEF Sales!Combined
<1>2. CASE st.dispatch # "none" /\ states = {"queued"}
  <2>1. Sales!Combined(fallback, ss, st, ts) = "queued"
    BY <1>2 DEF Sales!Combined
  <2> QED BY <2>1, <1>2 DEF TaskStates, Sales!Deletable
<1>3. CASE st.dispatch # "none" /\ states # {"queued"}
  <2>1. Sales!Combined(fallback, ss, st, ts) = Sales!Aggregate(states, c)
    BY <1>3 DEF Sales!Combined
  <2>2. states \cap Sales!InDoubt = {} => DoubtTools(ts) = {}
    BY DEF DoubtTools, Sales!InDoubt
  <2>3. states \cap Sales!InDoubt = {} /\ parent.admitted => DoubtSteps(ss) = {}
    <3>1. DOMAIN ss = Sections
      OBVIOUS
    <3> QED BY <3>1 DEF DoubtSteps, Sales!InDoubt, Sales!StatesOf
  <2>4. c \in BOOLEAN
    OBVIOUS
  <2> HIDE DEF states, c, provider
  <2> QED BY <2>1, <2>2, <2>3, <2>4, <1>3, AggregateState
<1> QED BY <1>1, <1>2, <1>3

\* The rows of a stage.
LEMMA ToolFields ==
  /\ \A r \in ToolRecord, v \in ToolStates : [r EXCEPT !.state = v] \in ToolRecord
  /\ \A r \in ToolRecord : [r EXCEPT !.call = "none"] \in ToolRecord
  /\ \A r \in ToolRecord, v \in {0, 1} : [r EXCEPT !.call = "sent", !.accepted = v, !.taken = v] \in ToolRecord
  /\ \A r \in ToolRecord : [r EXCEPT !.state = "submitting", !.attempts = @ + 1, !.call = "held"] \in ToolRecord
<1>1. \A r \in ToolRecord, v \in ToolStates : [r EXCEPT !.state = v] \in ToolRecord
  BY DEF ToolRecord
<1>2. \A r \in ToolRecord, v \in {"none", "held", "sent"} : [r EXCEPT !.call = v] \in ToolRecord
  BY DEF ToolRecord
<1>3. \A r \in ToolRecord, v \in {0, 1} : [r EXCEPT !.call = "sent", !.accepted = v, !.taken = v] \in ToolRecord
  BY DEF ToolRecord
<1>4. \A r \in ToolRecord : [r EXCEPT !.state = "submitting", !.attempts = @ + 1, !.call = "held"] \in ToolRecord
  <2>1. \A r \in ToolRecord, n \in Nat :
           [r EXCEPT !.state = "submitting", !.attempts = n, !.call = "held"] \in ToolRecord
    BY DEF ToolRecord, ToolStates, Sales!StepStates
  <2>2. \A r \in ToolRecord : r.attempts + 1 \in Nat
    BY DEF ToolRecord
  <2> QED BY <2>1, <2>2
<1> QED BY <1>1, <1>2, <1>3, <1>4

LEMMA ToolTurned ==
  ASSUME NEW ts \in [Sales!ToolIds -> ToolRecord], NEW from, NEW to \in ToolStates
  PROVE  /\ Sales!Turn(ts, from, to) \in [Sales!ToolIds -> ToolRecord]
         /\ \A i \in Sales!ToolIds :
               /\ Sales!Turn(ts, from, to)[i].state = IF ts[i].state \in from THEN to ELSE ts[i].state
               /\ Sales!Turn(ts, from, to)[i].call = ts[i].call
               /\ Sales!Turn(ts, from, to)[i].accepted = ts[i].accepted
               /\ Sales!Turn(ts, from, to)[i].taken = ts[i].taken
<1> DEFINE us == Sales!Turn(ts, from, to)
<1>1. \A i \in Sales!ToolIds : us[i] = IF ts[i].state \in from THEN [ts[i] EXCEPT !.state = to] ELSE ts[i]
  BY DEF Sales!Turn
<1>2. \A i \in Sales!ToolIds : ts[i] \in ToolRecord
  OBVIOUS
<1>3. ASSUME NEW i \in Sales!ToolIds PROVE us[i] \in ToolRecord
  <2>1. [ts[i] EXCEPT !.state = to] \in ToolRecord
    BY <1>2, ToolFields
  <2> QED BY <1>1, <1>2, <2>1
<1>4. us = [i \in Sales!ToolIds |-> us[i]]
  BY DEF Sales!Turn
<1>5. us \in [Sales!ToolIds -> ToolRecord]
  BY <1>3, <1>4
<1>6. \A r \in ToolRecord : /\ [r EXCEPT !.state = to].state = to /\ [r EXCEPT !.state = to].call = r.call
                            /\ [r EXCEPT !.state = to].accepted = r.accepted
                            /\ [r EXCEPT !.state = to].taken = r.taken
  BY DEF ToolRecord
<1> HIDE DEF us
<1>7. \A i \in Sales!ToolIds : /\ us[i].state = IF ts[i].state \in from THEN to ELSE ts[i].state
                               /\ us[i].call = ts[i].call
                               /\ us[i].accepted = ts[i].accepted
                               /\ us[i].taken = ts[i].taken
  BY <1>1, <1>2, <1>6
<1> QED BY <1>5, <1>7 DEF us

LEMMA StageFields ==
  /\ \A s \in StageRecord, v \in {"dispatched", "outcome_unknown", "settled", "cancelled"} :
        [s EXCEPT !.dispatch = v] \in StageRecord /\ [s EXCEPT !.dispatch = v].dispatch = v
  /\ \A s \in StageRecord : [s EXCEPT !.cancelled = TRUE] \in StageRecord
                            /\ [s EXCEPT !.cancelled = TRUE].dispatch = s.dispatch
  /\ \A s \in StageRecord, v \in Nat : [s EXCEPT !.dispatch = "reserved", !.intake = v] \in StageRecord
                            /\ [s EXCEPT !.dispatch = "reserved", !.intake = v].dispatch = "reserved"
BY DEF StageRecord

\* A step of the stage: its rows keep what holds of them, no call comes in
\* doubt, and a quote that was confirmed stays so.
Follows(after, st, ts) ==
    /\ ToolsHold(after.stage, after.tools)
    /\ DoubtTools(after.tools) \subseteq DoubtTools(ts)
    /\ st.dispatch # "none" => after.stage.dispatch # "none"

LEMMA SameRows ==
  ASSUME NEW st, NEW ts, ToolsHold(st, ts)
  PROVE  Follows(Sales!Both(st, ts), st, ts)
<1>1. Sales!Both(st, ts).stage = st /\ Sales!Both(st, ts).tools = ts
  BY DEF Sales!Both
<1> QED BY <1>1 DEF Follows

LEMMA MarkedUnknown ==
  ASSUME NEW st, NEW ts, ToolsHold(st, ts), st.dispatch # "none"
  PROVE  Follows(Sales!MarkUnknown(st, ts), st, ts)
<1> DEFINE us == Sales!Turn(ts, {"submitting"}, "unknown")
           st2 == [st EXCEPT !.dispatch = IF @ \in {"settled", "cancelled"} THEN @ ELSE "outcome_unknown"]
<1>1. Sales!MarkUnknown(st, ts).stage = st2 /\ Sales!MarkUnknown(st, ts).tools = us
  BY DEF Sales!MarkUnknown, Sales!Both
<1>2. st \in StageRecord /\ ts \in [Sales!ToolIds -> ToolRecord]
  BY DEF ToolsHold
<1>3. st2 \in StageRecord /\ st2.dispatch # "none" /\ (st2.dispatch = "cancelled" => st.dispatch = "cancelled")
  BY <1>2 DEF StageRecord
<1>4. us \in [Sales!ToolIds -> ToolRecord]
  BY <1>2, ToolTurned DEF ToolStates, Sales!StepStates
<1>5. \A i \in Sales!ToolIds : /\ us[i].state = IF ts[i].state = "submitting" THEN "unknown" ELSE ts[i].state
                               /\ us[i].call = ts[i].call /\ us[i].accepted = ts[i].accepted
                               /\ us[i].taken = ts[i].taken
  BY <1>2, ToolTurned DEF ToolStates, Sales!StepStates
<1> HIDE DEF us, st2
<1>6. \A i \in Sales!ToolIds : ToolHolds(us[i])
  BY <1>5 DEF ToolsHold, ToolHolds
<1>7. st2.dispatch = "cancelled" => Sales!AllIn(us, {"cancelled"})
  BY <1>3, <1>5 DEF ToolsHold, Sales!AllIn
<1>8. DoubtTools(us) \subseteq DoubtTools(ts)
  BY <1>5 DEF DoubtTools, Sales!InDoubt
<1>9. ToolsHold(st2, us)
  BY <1>3, <1>4, <1>6, <1>7 DEF ToolsHold
<1> QED BY <1>1, <1>3, <1>8, <1>9 DEF Follows

LEMMA Released ==
  ASSUME NEW st, NEW ts, ToolsHold(st, ts), Sales!AllIn(ts, {"queued", "nonaccepted", "cancelled"})
  PROVE  Follows(Sales!ReleaseKnownUnsubmitted(st, ts), st, ts)
<1> DEFINE us == Sales!Turn(ts, {"queued", "nonaccepted"}, "cancelled")
           st2 == [st EXCEPT !.dispatch = "cancelled"]
<1>1. /\ Sales!ReleaseKnownUnsubmitted(st, ts).stage = st2
      /\ Sales!ReleaseKnownUnsubmitted(st, ts).tools = us
  BY DEF Sales!ReleaseKnownUnsubmitted, Sales!Both
<1>2. st \in StageRecord /\ ts \in [Sales!ToolIds -> ToolRecord]
  BY DEF ToolsHold
<1>3. st2 \in StageRecord /\ st2.dispatch = "cancelled"
  BY <1>2, StageFields
<1>4. us \in [Sales!ToolIds -> ToolRecord]
  BY <1>2, ToolTurned DEF ToolStates, Sales!StepStates
<1>5. \A i \in Sales!ToolIds : /\ us[i].state = "cancelled" /\ us[i].call = ts[i].call
                               /\ us[i].accepted = ts[i].accepted /\ us[i].taken = ts[i].taken
  BY <1>2, ToolTurned DEF ToolStates, Sales!StepStates, Sales!AllIn
<1> HIDE DEF us, st2
<1>6. \A i \in Sales!ToolIds : ToolHolds(us[i])
  BY <1>5 DEF ToolsHold, ToolHolds, Sales!AllIn
<1>7. Sales!AllIn(us, {"cancelled"}) /\ DoubtTools(us) = {}
  BY <1>5 DEF Sales!AllIn, DoubtTools, Sales!InDoubt
<1>8. ToolsHold(st2, us)
  BY <1>3, <1>4, <1>6, <1>7 DEF ToolsHold
<1> QED BY <1>1, <1>3, <1>7, <1>8 DEF Follows

LEMMA SettledStage ==
  ASSUME NEW st, NEW ts, ToolsHold(st, ts)
  PROVE  Follows(Sales!Both([st EXCEPT !.dispatch = "settled"], ts), st, ts)
<1>1. /\ Sales!Both([st EXCEPT !.dispatch = "settled"], ts).stage = [st EXCEPT !.dispatch = "settled"]
      /\ Sales!Both([st EXCEPT !.dispatch = "settled"], ts).tools = ts
  BY DEF Sales!Both
<1>2. /\ [st EXCEPT !.dispatch = "settled"] \in StageRecord
      /\ [st EXCEPT !.dispatch = "settled"].dispatch = "settled"
  BY StageFields DEF ToolsHold
<1>3. ToolsHold([st EXCEPT !.dispatch = "settled"], ts)
  BY <1>2 DEF ToolsHold
<1> QED BY <1>1, <1>2, <1>3 DEF Follows

LEMMA FinalizedFollows ==
  ASSUME NEW st, NEW ts, ToolsHold(st, ts), st.dispatch # "none"
  PROVE  Follows(Sales!Finalized(st, ts), st, ts)
<1>1. CASE Sales!Finalized(st, ts) = Sales!Both(st, ts)
  BY <1>1, SameRows
<1>2. CASE Sales!Finalized(st, ts) = Sales!MarkUnknown(st, ts)
  BY <1>2, MarkedUnknown
<1>3. CASE Sales!Finalized(st, ts) = Sales!ReleaseKnownUnsubmitted(st, ts) /\ Sales!AllIn(ts, {"nonaccepted", "cancelled"})
  BY <1>3, Released DEF Sales!AllIn
<1>4. CASE Sales!Finalized(st, ts) = Sales!Both([st EXCEPT !.dispatch = "settled"], ts)
  BY <1>4, SettledStage
<1> QED BY <1>1, <1>2, <1>3, <1>4, Zenon DEF Sales!Finalized

LEMMA QueueCancelled ==
  ASSUME NEW st, NEW ts, ToolsHold(st, ts), st.dispatch # "none"
  PROVE  /\ ToolsHold(st, Sales!Turn(ts, {"queued"}, "cancelled"))
         /\ DoubtTools(Sales!Turn(ts, {"queued"}, "cancelled")) \subseteq DoubtTools(ts)
<1> DEFINE us == Sales!Turn(ts, {"queued"}, "cancelled")
<1>1. st \in StageRecord /\ ts \in [Sales!ToolIds -> ToolRecord]
  BY DEF ToolsHold
<1>2. us \in [Sales!ToolIds -> ToolRecord]
  BY <1>1, ToolTurned DEF ToolStates, Sales!StepStates
<1>3. \A i \in Sales!ToolIds : /\ us[i].state = IF ts[i].state = "queued" THEN "cancelled" ELSE ts[i].state
                               /\ us[i].call = ts[i].call /\ us[i].accepted = ts[i].accepted
                               /\ us[i].taken = ts[i].taken
  BY <1>1, ToolTurned DEF ToolStates, Sales!StepStates
<1> HIDE DEF us
<1>4. \A i \in Sales!ToolIds : ToolHolds(us[i])
  BY <1>3 DEF ToolsHold, ToolHolds
<1>5. st.dispatch = "cancelled" => Sales!AllIn(us, {"cancelled"})
  BY <1>3 DEF ToolsHold, Sales!AllIn
<1>6. DoubtTools(us) \subseteq DoubtTools(ts)
  BY <1>3 DEF DoubtTools, Sales!InDoubt
<1>7. ToolsHold(st, us)
  BY <1>1, <1>2, <1>4, <1>5 DEF ToolsHold
<1> QED BY <1>6, <1>7 DEF us

LEMMA KnownFollows ==
  ASSUME NEW st, NEW ts, ToolsHold(st, ts), st.dispatch # "none"
  PROVE  Follows(Sales!Finalized(st, Sales!Turn(ts, {"queued"}, "cancelled")), st, ts)
<1> DEFINE us == Sales!Turn(ts, {"queued"}, "cancelled")
<1>1. ToolsHold(st, us) /\ DoubtTools(us) \subseteq DoubtTools(ts)
  BY QueueCancelled
<1> HIDE DEF us
<1>2. Follows(Sales!Finalized(st, us), st, us)
  BY <1>1, FinalizedFollows
<1>3. Follows(Sales!Finalized(st, us), st, ts)
  BY <1>1, <1>2 DEF Follows
<1> QED BY <1>3 DEF us

LEMMA StoppedFollows ==
  ASSUME NEW st, NEW ts, ToolsHold(st, ts), st.dispatch # "none"
  PROVE  Follows(Sales!Stopped(st, ts), st, ts)
<1> DEFINE ended == [st EXCEPT !.cancelled = TRUE]
<1>1. ended \in StageRecord /\ ended.dispatch = st.dispatch
  BY StageFields DEF ToolsHold
<1>2. ToolsHold(ended, ts)
  BY <1>1 DEF ToolsHold
<1>3. Sales!Stopped(st, ts) = Sales!Both(ended, ts) => Follows(Sales!Stopped(st, ts), st, ts)
  BY <1>1, <1>2, SameRows DEF Follows
<1>4. Sales!Stopped(st, ts) = Sales!ReleaseKnownUnsubmitted(ended, ts) /\ Sales!AllIn(ts, {"queued", "nonaccepted", "cancelled"})
         => Follows(Sales!Stopped(st, ts), st, ts)
  BY <1>1, <1>2, Released DEF Follows
<1>5. Sales!Stopped(st, ts) = Sales!Finalized(ended, Sales!Turn(ts, {"queued"}, "cancelled")) => Follows(Sales!Stopped(st, ts), st, ts)
  BY <1>1, <1>2, KnownFollows DEF Follows
<1> QED BY <1>3, <1>4, <1>5, Zenon DEF Sales!Stopped

\* A step of the stage keeps the invariant, when what it leaves is in order.
LEMMA StageStep ==
  ASSUME SalesInv, NEW after, Sales!SyncTask(after), ToolsHold(after.stage, after.tools),
         Sales!Active(steps, after.tools) <= Sales!MaxConcurrency,
         task.state = "completed" \/ after.stage.dispatch = "none" =>
             DoubtTools(after.tools) \subseteq DoubtTools(tools)
  PROVE  SalesInv'
<1>1. stage' = after.stage /\ tools' = after.tools /\ steps' = steps /\ parent' = parent /\ hold' = hold
  BY DEF Sales!SyncTask
<1>2. task \in TaskRecord /\ task.state \in TaskStates /\ task.intake \in Nat
  BY DEF SalesInv, TaskTypes, TaskRecord
<1>3. after.stage \in StageRecord /\ after.tools \in [Sales!ToolIds -> ToolRecord]
  BY DEF ToolsHold
<1>4. steps \in [Sections -> StepRecord]
  BY DEF SalesInv, StepsHold
<1>5. PICK w : w = Sales!Combined(task.state, steps, after.stage, after.tools)
  OBVIOUS
<1>6. /\ w \in TaskStates
      /\ w = "completed" => task.state = "completed"
      /\ after.stage.dispatch = "none" => w = task.state
      /\ after.stage.dispatch # "none" /\ w \in Sales!Deletable =>
            DoubtTools(after.tools) = {} /\ (parent.admitted => DoubtSteps(steps) = {})
  BY <1>2, <1>3, <1>4, <1>5, CombinedState
<1>7. task' = IF task.state = "completed" THEN task ELSE [task EXCEPT !.state = w]
  BY <1>5 DEF Sales!SyncTask, Sales!SetState
<1>8. task' \in TaskRecord /\ task'.state = IF task.state = "completed" THEN "completed" ELSE w
  BY <1>2, <1>6, <1>7 DEF TaskRecord
<1>9. ~parent.admitted => DoubtSteps(steps) = {}
  BY DEF SalesInv, ParentHolds, DoubtSteps, Sales!InDoubt
<1>10. task.state \in Sales!Deletable => NoDoubt(steps, tools)
  BY DEF SalesInv
<1>11. task'.state \in Sales!Deletable => NoDoubt(steps, after.tools)
  <2>1. CASE task.state = "completed"
    BY <2>1, <1>10 DEF Sales!Deletable, NoDoubt
  <2>2. CASE task.state # "completed" /\ after.stage.dispatch = "none"
    BY <2>2, <1>6, <1>8, <1>10 DEF NoDoubt
  <2>3. CASE task.state # "completed" /\ after.stage.dispatch # "none"
    BY <2>3, <1>6, <1>8, <1>9 DEF NoDoubt
  <2> QED BY <2>1, <2>2, <2>3
<1>12. ParentHolds' /\ HoldAddsUp'
  <2>1. task'.state = "completed" => task.state = "completed"
    BY <1>6, <1>8
  <2>2. ParentHolds'
    BY <1>1, <2>1 DEF SalesInv, ParentHolds
  <2>3. HoldAddsUp'
    BY <1>1 DEF SalesInv, HoldAddsUp, BilledSteps, ListedSteps, Sales!Unused
  <2> QED BY <2>2, <2>3
<1>13. TaskTypes' /\ StepsHold(steps')
  BY <1>1, <1>8 DEF SalesInv, TaskTypes
<1> QED BY <1>1, <1>8, <1>11, <1>12, <1>13 DEF SalesInv, NoDoubt, DoubtSteps, DoubtTools, Sales!Active, ToolsHold, Sales!AllIn, StepsHold

LEMMA StageFollows ==
  ASSUME SalesInv, NEW after, Sales!SyncTask(after), Follows(after, stage, tools)
  PROVE  SalesInv'
<1>1. Sales!Active(steps, after.tools) <= Sales!Active(steps, tools)
  BY FewerDoubts DEF Follows
<1>2. Sales!Active(steps, after.tools) <= Sales!MaxConcurrency
  BY <1>1, DoubtIsCounted DEF SalesInv, Sales!MaxConcurrency
<1> QED BY <1>2, StageStep DEF Follows

\* One tool of the stage has a new row.
LEMMA ToolChanged ==
  ASSUME NEW st, NEW ts, ToolsHold(st, ts), NEW i \in Sales!ToolIds, NEW r \in ToolRecord, ToolHolds(r),
         st.dispatch \in {"none", "cancelled"} => r.state = ts[i].state
  PROVE  /\ ToolsHold(st, [ts EXCEPT ![i] = r])
         /\ DoubtTools([ts EXCEPT ![i] = r]) \subseteq DoubtTools(ts) \cup {i}
         /\ (r.state \in Sales!InDoubt => ts[i].state \in Sales!InDoubt) =>
               DoubtTools([ts EXCEPT ![i] = r]) \subseteq DoubtTools(ts)
<1>1. ts \in [Sales!ToolIds -> ToolRecord]
  BY DEF ToolsHold
<1>2. PICK us : us = [ts EXCEPT ![i] = r]
  OBVIOUS
<1>3. us \in [Sales!ToolIds -> ToolRecord] /\ us[i] = r /\ \A j \in Sales!ToolIds : j # i => us[j] = ts[j]
  BY <1>1, <1>2
<1>4. \A j \in Sales!ToolIds : ToolHolds(us[j])
  BY <1>3 DEF ToolsHold
<1>5. st.dispatch \in {"none", "cancelled"} => \A j \in Sales!ToolIds : us[j].state = ts[j].state
  BY <1>3
<1>6. /\ st.dispatch = "none" => Sales!AllIn(us, {"queued"})
      /\ st.dispatch = "cancelled" => Sales!AllIn(us, {"cancelled"})
  BY <1>5 DEF ToolsHold, Sales!AllIn
<1>7. ToolsHold(st, us)
  BY <1>3, <1>4, <1>6 DEF ToolsHold
<1>8. /\ DoubtTools(us) \subseteq DoubtTools(ts) \cup {i}
      /\ (r.state \in Sales!InDoubt => ts[i].state \in Sales!InDoubt) => DoubtTools(us) \subseteq DoubtTools(ts)
  BY <1>3 DEF DoubtTools
<1> QED BY <1>2, <1>7, <1>8

\* Only the rows of the tools change.
LEMMA OnlyTools ==
  ASSUME SalesInv, UNCHANGED <<task, reviewed, parent, steps, hold, stage>>,
         ToolsHold(stage, tools'), DoubtTools(tools') \subseteq DoubtTools(tools)
  PROVE  SalesInv'
<1>1. Sales!Active(steps, tools') <= Sales!Active(steps, tools)
  BY FewerDoubts
<1>2. Sales!Active(steps, tools') <= Sales!MaxConcurrency
  BY <1>1, DoubtIsCounted DEF SalesInv, Sales!MaxConcurrency
<1>3. TaskTypes' /\ StepsHold(steps') /\ ParentHolds' /\ HoldAddsUp'
  BY DEF SalesInv, TaskTypes, ParentHolds, HoldAddsUp, BilledSteps, ListedSteps, Sales!Unused
<1>4. task'.state \in Sales!Deletable => NoDoubt(steps', tools')
  BY DEF SalesInv, NoDoubt
<1> QED BY <1>2, <1>3, <1>4 DEF SalesInv, NoDoubt, DoubtSteps, DoubtTools, Sales!Active, ToolsHold, Sales!AllIn, StepsHold

LEMMA QuoteConfirmed == SalesInv /\ Sales!ConfirmQuote => SalesInv'
<1> SUFFICES ASSUME SalesInv, Sales!ConfirmQuote PROVE SalesInv'
  OBVIOUS
<1>1. PICK st : st = [stage EXCEPT !.dispatch = "reserved", !.intake = task.intake]
  OBVIOUS
<1>2. PICK after : after = Sales!Both(st, tools)
  OBVIOUS
<1>3. Sales!SyncTask(after)
  BY <1>1, <1>2 DEF Sales!ConfirmQuote
<1>4. after.stage = st /\ after.tools = tools
  BY <1>2 DEF Sales!Both
<1>5. stage \in StageRecord /\ task.intake \in Nat
  BY DEF SalesInv, ToolsHold, TaskTypes, TaskRecord
<1>6. st \in StageRecord /\ st.dispatch = "reserved"
  BY <1>1, <1>5, StageFields
<1>7. ToolsHold(st, tools)
  BY <1>6 DEF SalesInv, ToolsHold
<1>8. Follows(after, stage, tools)
  BY <1>4, <1>6, <1>7 DEF Follows
<1> QED BY <1>3, <1>8, StageFollows

LEMMA DoubtFound == SalesInv /\ Sales!ToolClaimInDoubt => SalesInv'
<1> SUFFICES ASSUME SalesInv, Sales!ToolClaimInDoubt PROVE SalesInv'
  OBVIOUS
<1>1. stage.dispatch # "none" /\ Sales!SyncTask(Sales!MarkUnknown(stage, tools))
  BY DEF Sales!ToolClaimInDoubt, Sales!LiveStage
<1>2. Follows(Sales!MarkUnknown(stage, tools), stage, tools)
  BY <1>1, MarkedUnknown DEF SalesInv
<1> QED BY <1>1, <1>2, StageFollows

LEMMA StageStopped == SalesInv /\ (Sales!ToolClaimRefused \/ Sales!CancelReceipt) => SalesInv'
<1> SUFFICES ASSUME SalesInv, Sales!ToolClaimRefused \/ Sales!CancelReceipt PROVE SalesInv'
  OBVIOUS
<1>1. stage.dispatch # "none" /\ Sales!SyncTask(Sales!Stopped(stage, tools))
  BY DEF Sales!ToolClaimRefused, Sales!CancelReceipt, Sales!LiveStage
<1>2. Follows(Sales!Stopped(stage, tools), stage, tools)
  BY <1>1, StoppedFollows DEF SalesInv
<1> QED BY <1>1, <1>2, StageFollows

\* The claim of a tool.
LEMMA ToolClaimed == \A i \in Sales!ToolIds : SalesInv /\ Sales!ToolClaim(i) => SalesInv'
<1> SUFFICES ASSUME NEW i \in Sales!ToolIds, SalesInv, Sales!ToolClaim(i) PROVE SalesInv'
  OBVIOUS
<1>1. tools[i] \in ToolRecord /\ tools[i].state = "queued" /\ tools[i].accepted = 0
  BY DEF SalesInv, ToolsHold, ToolHolds, Sales!ToolClaim
<1>2. PICK r : r = [tools[i] EXCEPT !.state = "submitting", !.attempts = @ + 1, !.call = "held"]
  OBVIOUS
<1>3. r \in ToolRecord
  BY <1>1, <1>2, ToolFields
<1>4. r.state = "submitting" /\ r.accepted = 0 /\ r.call = "held"
  BY <1>1, <1>2 DEF ToolRecord
<1>5. ToolHolds(r)
  BY <1>4 DEF ToolHolds
<1>6. PICK ts : ts = [tools EXCEPT ![i] = r]
  OBVIOUS
<1>7. stage.dispatch \in {"reserved", "dispatched"} /\ task.state # "completed"
      /\ Sales!Active(steps, tools) < Sales!MaxConcurrency
  BY DEF Sales!ToolClaim, Sales!LiveStage, Sales!Dispatchable
<1>8. ToolsHold(stage, tools)
  BY DEF SalesInv
<1>9. ToolsHold(stage, ts) /\ DoubtTools(ts) \subseteq DoubtTools(tools) \cup {i}
  BY <1>3, <1>5, <1>6, <1>7, <1>8, ToolChanged
<1>10. PICK st : st = [stage EXCEPT !.dispatch = "dispatched"]
  OBVIOUS
<1>11. st \in StageRecord /\ st.dispatch = "dispatched"
  BY <1>8, <1>10, StageFields DEF ToolsHold
<1>12. ToolsHold(st, ts)
  BY <1>9, <1>11 DEF ToolsHold
<1>13. Sales!Active(steps, ts) <= Sales!MaxConcurrency
  <2>1. Sales!Active(steps, ts) <= Sales!Active(steps, tools) + 1
    BY <1>9, OneMoreTool
  <2> QED BY <2>1, <1>7, DoubtIsCounted DEF Sales!MaxConcurrency
<1>14. PICK after : after = Sales!Both(st, ts)
  OBVIOUS
<1>15. after.stage = st /\ after.tools = ts
  BY <1>14 DEF Sales!Both
<1>16. Sales!SyncTask(after)
  <2>1. ts = [tools EXCEPT ![i].state = "submitting", ![i].attempts = @ + 1, ![i].call = "held"]
    BY <1>2, <1>6
  <2> QED BY <2>1, <1>10, <1>14 DEF Sales!ToolClaim
<1> QED BY <1>7, <1>11, <1>12, <1>13, <1>15, <1>16, StageStep

LEMMA ToolSent == \A i \in Sales!ToolIds : SalesInv /\ Sales!ToolSend(i) => SalesInv'
<1> SUFFICES ASSUME NEW i \in Sales!ToolIds, SalesInv, Sales!ToolSend(i) PROVE SalesInv'
  OBVIOUS
<1>1. /\ tools[i] \in ToolRecord /\ tools[i].state = "submitting" /\ tools[i].call = "held"
      /\ tools[i].accepted = 0
  BY DEF SalesInv, ToolsHold, ToolHolds, Sales!ToolSend
<1>2. PICK taken \in {0, 1} :
         tools' = [tools EXCEPT ![i].call = "sent", ![i].accepted = @ + taken, ![i].taken = taken]
  BY DEF Sales!ToolSend
<1>3. PICK r : r = [tools[i] EXCEPT !.call = "sent", !.accepted = @ + taken, !.taken = taken]
  OBVIOUS
<1>4. r \in ToolRecord /\ r.state = "submitting" /\ r.accepted = taken /\ r.taken = taken /\ r.call = "sent"
  <2>1. tools[i].accepted + taken = taken
    BY <1>1
  <2>2. r = [tools[i] EXCEPT !.call = "sent", !.accepted = taken, !.taken = taken]
    BY <1>3, <2>1
  <2>3. r \in ToolRecord
    BY <1>1, <2>2, ToolFields
  <2> QED BY <1>1, <2>2, <2>3 DEF ToolRecord
<1>6. ToolHolds(r)
  BY <1>4 DEF ToolHolds
<1>7. tools' = [tools EXCEPT ![i] = r]
  BY <1>2, <1>3
<1>8. ToolsHold(stage, tools)
  BY DEF SalesInv
<1>9. ToolsHold(stage, tools') /\ DoubtTools(tools') \subseteq DoubtTools(tools)
  BY <1>1, <1>4, <1>6, <1>7, <1>8, ToolChanged
<1> QED BY <1>9, OnlyTools DEF Sales!ToolSend

\* A call that is over leaves a row that says so.
LEMMA CallOver ==
  ASSUME SalesInv, NEW i \in Sales!ToolIds, tools[i].call # "none"
  PROVE  /\ ToolsHold(stage, [tools EXCEPT ![i].call = "none"])
         /\ DoubtTools([tools EXCEPT ![i].call = "none"]) = DoubtTools(tools)
<1>1. tools[i] \in ToolRecord /\ ToolHolds(tools[i]) /\ ToolsHold(stage, tools)
  BY DEF SalesInv, ToolsHold
<1>2. PICK r : r = [tools[i] EXCEPT !.call = "none"]
  OBVIOUS
<1>3. r \in ToolRecord
  BY <1>1, <1>2, ToolFields
<1>4. r.state = tools[i].state /\ r.call = "none" /\ r.accepted = tools[i].accepted
  BY <1>1, <1>2 DEF ToolRecord
<1>5. ToolHolds(r)
  BY <1>1, <1>4 DEF ToolHolds
<1>6. [tools EXCEPT ![i].call = "none"] = [tools EXCEPT ![i] = r]
  BY <1>2
<1>7. PICK ts : ts = [tools EXCEPT ![i] = r]
  OBVIOUS
<1>8. ToolsHold(stage, ts)
  BY <1>1, <1>3, <1>4, <1>5, <1>7, ToolChanged
<1>9. \A j \in Sales!ToolIds : ts[j].state = tools[j].state
  BY <1>1, <1>4, <1>7 DEF ToolsHold
<1>10. DoubtTools(ts) = DoubtTools(tools)
  BY <1>9 DEF DoubtTools
<1> QED BY <1>6, <1>7, <1>8, <1>10

LEMMA StateGiven ==
  ASSUME NEW st, NEW ts, ToolsHold(st, ts), st.dispatch \notin {"none", "cancelled"},
         NEW i \in Sales!ToolIds, NEW v \in {"queued", "received", "nonaccepted"},
         v # "received" => ts[i].accepted = 0
  PROVE  /\ ToolsHold(st, [ts EXCEPT ![i].state = v])
         /\ DoubtTools([ts EXCEPT ![i].state = v]) \subseteq DoubtTools(ts)
<1>1. ts[i] \in ToolRecord /\ ToolHolds(ts[i])
  BY DEF ToolsHold
<1>2. PICK r : r = [ts[i] EXCEPT !.state = v]
  OBVIOUS
<1>3. v \in ToolStates /\ v \notin Sales!InDoubt
  BY DEF ToolStates, Sales!StepStates, Sales!InDoubt
<1>4. r \in ToolRecord
  BY <1>1, <1>2, <1>3, ToolFields
<1>5. r.state = v /\ r.accepted = ts[i].accepted /\ r.call = ts[i].call /\ r.taken = ts[i].taken
  BY <1>1, <1>2 DEF ToolRecord
<1>6. ToolHolds(r)
  BY <1>1, <1>5 DEF ToolHolds
<1>7. [ts EXCEPT ![i].state = v] = [ts EXCEPT ![i] = r]
  BY <1>2
<1>8. PICK us : us = [ts EXCEPT ![i] = r]
  OBVIOUS
<1>9. ToolsHold(st, us)
  BY <1>4, <1>6, <1>8, ToolChanged
<1>10. r.state \in Sales!InDoubt => ts[i].state \in Sales!InDoubt
  BY <1>3, <1>5
<1>11. DoubtTools(us) \subseteq DoubtTools(ts)
  BY <1>4, <1>6, <1>8, <1>10, ToolChanged
<1> QED BY <1>7, <1>8, <1>9, <1>11

\* A call in doubt belongs to a stage that was confirmed and not given back.
LEMMA DoubtIsOpen ==
  ASSUME NEW st, NEW ts, ToolsHold(st, ts), NEW i \in Sales!ToolIds, ts[i].state \in Sales!InDoubt
  PROVE  st.dispatch \notin {"none", "cancelled"}
BY DEF ToolsHold, Sales!AllIn, Sales!InDoubt

LEMMA ToolAnswered == \A i \in Sales!ToolIds : SalesInv /\ Sales!ToolAnswer(i) => SalesInv'
<1> SUFFICES ASSUME NEW i \in Sales!ToolIds, SalesInv, Sales!ToolAnswer(i) PROVE SalesInv'
  OBVIOUS
<1>1. PICK ts : ts = [tools EXCEPT ![i].call = "none"]
  OBVIOUS
<1>2. ToolsHold(stage, ts) /\ DoubtTools(ts) = DoubtTools(tools)
  BY <1>1, CallOver DEF Sales!ToolAnswer
<1>3. CASE stage.dispatch \notin {"settled", "cancelled"} /\ tools[i].state \in Sales!InDoubt
  <2>1. PICK us : us = [ts EXCEPT ![i].state = "received"]
    OBVIOUS
  <2>2. Sales!SyncTask(Sales!Finalized(stage, us))
    BY <1>1, <1>3, <2>1 DEF Sales!ToolAnswer
  <2>3. stage.dispatch \notin {"none", "cancelled"}
    BY <1>3, DoubtIsOpen DEF SalesInv
  <2>4. ToolsHold(stage, us) /\ DoubtTools(us) \subseteq DoubtTools(tools)
    BY <1>2, <2>1, <2>3, StateGiven
  <2>5. Follows(Sales!Finalized(stage, us), stage, us)
    BY <2>3, <2>4, FinalizedFollows
  <2>6. Follows(Sales!Finalized(stage, us), stage, tools)
    BY <2>4, <2>5 DEF Follows
  <2> QED BY <2>2, <2>6, StageFollows
<1>4. CASE ~(stage.dispatch \notin {"settled", "cancelled"} /\ tools[i].state \in Sales!InDoubt)
  <2>1. Sales!SyncTask(Sales!Both(stage, ts))
    BY <1>1, <1>4 DEF Sales!ToolAnswer
  <2>2. Follows(Sales!Both(stage, ts), stage, tools)
    BY <1>2, SameRows DEF Follows
  <2> QED BY <2>1, <2>2, StageFollows
<1> QED BY <1>3, <1>4

\* A step from rows with the doubts of others is a step from those.
LEMMA Still ==
  ASSUME NEW after, NEW st, NEW ts, NEW us, Follows(after, st, us),
         DoubtTools(us) \subseteq DoubtTools(ts)
  PROVE  Follows(after, st, ts)
BY DEF Follows

LEMMA ToolRefused == \A i \in Sales!ToolIds : SalesInv /\ Sales!ToolNonaccepted(i) => SalesInv'
<1> SUFFICES ASSUME NEW i \in Sales!ToolIds, SalesInv, Sales!ToolNonaccepted(i) PROVE SalesInv'
  OBVIOUS
<1>1. PICK ts : ts = [tools EXCEPT ![i].call = "none"]
  OBVIOUS
<1>2. ToolsHold(stage, ts) /\ DoubtTools(ts) = DoubtTools(tools)
  BY <1>1, CallOver DEF Sales!ToolNonaccepted
<1>3. ts[i].accepted = 0
  <2>1. tools[i] \in ToolRecord /\ tools[i].accepted = 0
    BY DEF SalesInv, ToolsHold, ToolHolds, Sales!ToolNonaccepted
  <2> QED BY <1>1, <2>1 DEF SalesInv, ToolsHold, ToolRecord
<1>4. tools[i].state \in Sales!InDoubt => stage.dispatch \notin {"none", "cancelled"}
  BY DoubtIsOpen DEF SalesInv
<1>5. \/ /\ tools[i].state \in Sales!InDoubt /\ tools' = [ts EXCEPT ![i].state = "queued"]
         /\ UNCHANGED <<task, reviewed, parent, steps, hold, stage>>
      \/ /\ tools[i].state \in Sales!InDoubt
         /\ Sales!SyncTask(Sales!Finalized(stage, Sales!Turn([ts EXCEPT ![i].state = "nonaccepted"], {"queued"}, "cancelled")))
      \/ Sales!SyncTask(Sales!Both(stage, ts))
  BY <1>1 DEF Sales!ToolNonaccepted
<1>6. CASE /\ tools[i].state \in Sales!InDoubt /\ tools' = [ts EXCEPT ![i].state = "queued"]
           /\ UNCHANGED <<task, reviewed, parent, steps, hold, stage>>
  <2>1. ToolsHold(stage, tools') /\ DoubtTools(tools') \subseteq DoubtTools(tools)
    BY <1>2, <1>3, <1>4, <1>6, StateGiven
  <2> QED BY <1>6, <2>1, OnlyTools
<1>7. CASE /\ tools[i].state \in Sales!InDoubt
           /\ Sales!SyncTask(Sales!Finalized(stage, Sales!Turn([ts EXCEPT ![i].state = "nonaccepted"], {"queued"}, "cancelled")))
  <2>1. PICK us : us = [ts EXCEPT ![i].state = "nonaccepted"]
    OBVIOUS
  <2>2. ToolsHold(stage, us) /\ DoubtTools(us) \subseteq DoubtTools(tools)
    BY <1>2, <1>3, <1>4, <1>7, <2>1, StateGiven
  <2>3. Follows(Sales!Finalized(stage, Sales!Turn(us, {"queued"}, "cancelled")), stage, us)
    BY <1>4, <1>7, <2>2, KnownFollows
  <2>4. Follows(Sales!Finalized(stage, Sales!Turn(us, {"queued"}, "cancelled")), stage, tools)
    BY <2>2, <2>3, Still
  <2> QED BY <1>7, <2>1, <2>4, StageFollows
<1>8. CASE Sales!SyncTask(Sales!Both(stage, ts))
  <2>1. Follows(Sales!Both(stage, ts), stage, tools)
    BY <1>2, SameRows DEF Follows
  <2> QED BY <1>8, <2>1, StageFollows
<1> QED BY <1>5, <1>6, <1>7, <1>8

LEMMA ToolMissing == \A i \in Sales!ToolIds : SalesInv /\ Sales!ToolLost(i) => SalesInv'
<1> SUFFICES ASSUME NEW i \in Sales!ToolIds, SalesInv, Sales!ToolLost(i) PROVE SalesInv'
  OBVIOUS
<1>1. PICK ts : ts = [tools EXCEPT ![i].call = "none"]
  OBVIOUS
<1>2. ToolsHold(stage, ts) /\ DoubtTools(ts) = DoubtTools(tools)
  BY <1>1, CallOver DEF Sales!ToolLost
<1>3. PICK after : after = IF tools[i].state \in Sales!InDoubt THEN Sales!MarkUnknown(stage, ts) ELSE Sales!Both(stage, ts)
  OBVIOUS
<1>4. Sales!SyncTask(after)
  BY <1>1, <1>3 DEF Sales!ToolLost
<1>5. tools[i].state \in Sales!InDoubt => stage.dispatch # "none"
  BY DoubtIsOpen DEF SalesInv
<1>6. Follows(after, stage, ts)
  BY <1>2, <1>3, <1>5, MarkedUnknown, SameRows
<1>7. Follows(after, stage, tools)
  BY <1>2, <1>6, Still
<1> QED BY <1>4, <1>7, StageFollows

LEMMA ToolCrashed == \A i \in Sales!ToolIds : SalesInv /\ Sales!CrashTool(i) => SalesInv'
<1> SUFFICES ASSUME NEW i \in Sales!ToolIds, SalesInv, Sales!CrashTool(i) PROVE SalesInv'
  OBVIOUS
<1>1. ToolsHold(stage, tools') /\ DoubtTools(tools') = DoubtTools(tools)
  BY CallOver DEF Sales!CrashTool
<1> QED BY <1>1, OnlyTools DEF Sales!CrashTool

LEMMA ToolReconciled == \A i \in Sales!ToolIds : SalesInv /\ Sales!ReconcileXverum(i) => SalesInv'
<1> SUFFICES ASSUME NEW i \in Sales!ToolIds, SalesInv, Sales!ReconcileXverum(i) PROVE SalesInv'
  OBVIOUS
<1>1. PICK st : st = [stage EXCEPT !.cancelled = TRUE]
  OBVIOUS
<1>2. st \in StageRecord /\ st.dispatch = stage.dispatch
  BY <1>1, StageFields DEF SalesInv, ToolsHold
<1>3. ToolsHold(st, tools) /\ st.dispatch \notin {"none", "cancelled"}
  BY <1>2 DEF SalesInv, ToolsHold, Sales!ReconcileXverum
<1>4. \/ Sales!SyncTask(Sales!Finalized(st, Sales!Turn([tools EXCEPT ![i].state = "received"], {"queued"}, "cancelled")))
      \/ /\ tools[i].accepted = 0
         /\ Sales!SyncTask(Sales!Finalized(st, Sales!Turn([tools EXCEPT ![i].state = "nonaccepted"], {"queued"}, "cancelled")))
      \/ Sales!SyncTask(Sales!MarkUnknown(st, tools))
  BY <1>1 DEF Sales!ReconcileXverum
<1>5. ASSUME NEW v \in {"received", "nonaccepted"}, v # "received" => tools[i].accepted = 0,
             Sales!SyncTask(Sales!Finalized(st, Sales!Turn([tools EXCEPT ![i].state = v], {"queued"}, "cancelled")))
      PROVE  SalesInv'
  <2>1. PICK us : us = [tools EXCEPT ![i].state = v]
    OBVIOUS
  <2>2. ToolsHold(st, us) /\ DoubtTools(us) \subseteq DoubtTools(tools)
    BY <1>3, <1>5, <2>1, StateGiven
  <2>3. Follows(Sales!Finalized(st, Sales!Turn(us, {"queued"}, "cancelled")), st, us)
    BY <1>3, <2>2, KnownFollows
  <2>4. Follows(Sales!Finalized(st, Sales!Turn(us, {"queued"}, "cancelled")), stage, tools)
    BY <1>2, <1>3, <2>2, <2>3 DEF Follows
  <2> QED BY <1>5, <2>1, <2>4, StageFollows
<1>6. Sales!SyncTask(Sales!MarkUnknown(st, tools)) => SalesInv'
  <2>1. Follows(Sales!MarkUnknown(st, tools), stage, tools)
    BY <1>2, <1>3, MarkedUnknown DEF Follows
  <2> QED BY <2>1, StageFollows
<1> QED BY <1>4, <1>5, <1>6

\* The sections.
LEMMA StepFields ==
  /\ \A r \in StepRecord, v \in Sales!StepStates : [r EXCEPT !.state = v] \in StepRecord
  /\ \A r \in StepRecord, v \in Sales!StepStates : [r EXCEPT !.state = v, !.call = "over"] \in StepRecord
  /\ \A r \in StepRecord : [r EXCEPT !.state = "submitting", !.call = "held"] \in StepRecord
  /\ \A r \in StepRecord : [r EXCEPT !.state = "failed", !.call = "over", !.unsubmitted = TRUE] \in StepRecord
  /\ \A r \in StepRecord, v \in {"sent", "gone"} : [r EXCEPT !.call = v] \in StepRecord
  /\ \A r \in StepRecord, v \in {"none", "kept", "settled"}, b \in BOOLEAN :
        [r EXCEPT !.evidence = v, !.listed = b] \in StepRecord
<1>1. {"submitting", "failed"} \subseteq Sales!StepStates
  BY DEF Sales!StepStates
<1>2. \A r \in StepRecord, v \in Sales!StepStates : [r EXCEPT !.state = v] \in StepRecord
  BY DEF StepRecord
<1>3. \A r \in StepRecord, v \in Sales!StepStates : [r EXCEPT !.state = v, !.call = "over"] \in StepRecord
  BY DEF StepRecord
<1>4. \A r \in StepRecord : [r EXCEPT !.state = "submitting", !.call = "held"] \in StepRecord
  BY <1>1 DEF StepRecord
<1>5. \A r \in StepRecord : [r EXCEPT !.state = "failed", !.call = "over", !.unsubmitted = TRUE] \in StepRecord
  BY <1>1 DEF StepRecord
<1>6. \A r \in StepRecord, v \in {"sent", "gone"} : [r EXCEPT !.call = v] \in StepRecord
  BY DEF StepRecord
<1>7. \A r \in StepRecord, v \in {"none", "kept", "settled"}, b \in BOOLEAN :
         [r EXCEPT !.evidence = v, !.listed = b] \in StepRecord
  BY DEF StepRecord
<1> QED BY <1>2, <1>3, <1>4, <1>5, <1>6, <1>7

\* One section has a new row.
LEMMA StepChanged ==
  ASSUME StepsHold(steps), NEW s \in Sections, NEW r \in StepRecord, StepHolds(r)
  PROVE  /\ StepsHold([steps EXCEPT ![s] = r])
         /\ DoubtSteps([steps EXCEPT ![s] = r]) \subseteq DoubtSteps(steps) \cup {s}
         /\ (r.state \in Sales!InDoubt => steps[s].state \in Sales!InDoubt) =>
               DoubtSteps([steps EXCEPT ![s] = r]) \subseteq DoubtSteps(steps)
<1>1. PICK ss : ss = [steps EXCEPT ![s] = r]
  OBVIOUS
<1>2. ss \in [Sections -> StepRecord] /\ ss[s] = r /\ \A x \in Sections : x # s => ss[x] = steps[x]
  BY <1>1 DEF StepsHold
<1>3. StepsHold(ss)
  BY <1>2 DEF StepsHold
<1>4. /\ DoubtSteps(ss) \subseteq DoubtSteps(steps) \cup {s}
      /\ (r.state \in Sales!InDoubt => steps[s].state \in Sales!InDoubt) => DoubtSteps(ss) \subseteq DoubtSteps(steps)
  BY <1>2 DEF DoubtSteps
<1> QED BY <1>1, <1>3, <1>4

\* Queued sections that are refused, or cancelled, end without a call.
Ended(ss, failing, v) == [x \in Sections |-> IF x \in failing THEN [ss[x] EXCEPT !.state = v] ELSE ss[x]]

LEMMA QueueEnded ==
  ASSUME NEW ss, StepsHold(ss), NEW v \in {"failed", "cancelled"}, NEW failing,
         \A s \in failing : s \in Sections /\ ss[s].state = "queued"
  PROVE  /\ StepsHold(Ended(ss, failing, v)) /\ DoubtSteps(Ended(ss, failing, v)) \subseteq DoubtSteps(ss)
         /\ \A s \in Sections : /\ Ended(ss, failing, v)[s].evidence = ss[s].evidence
                                /\ Ended(ss, failing, v)[s].listed = ss[s].listed
         /\ Sales!Unused(ss) => Sales!Unused(Ended(ss, failing, v))
<1>1. \A x \in Sections : ss[x] \in StepRecord /\ StepHolds(ss[x])
  BY DEF StepsHold
<1> DEFINE us == Ended(ss, failing, v)
<1>2. \A x \in Sections : us[x] = IF x \in failing THEN [ss[x] EXCEPT !.state = v] ELSE ss[x]
  BY DEF Ended
<1> HIDE DEF us
<1>3. v \in Sales!StepStates
  BY DEF Sales!StepStates
<1>4. \A r \in StepRecord : /\ [r EXCEPT !.state = v] \in StepRecord
                            /\ [r EXCEPT !.state = v].state = v
                            /\ [r EXCEPT !.state = v].call = r.call
                            /\ [r EXCEPT !.state = v].unsubmitted = r.unsubmitted
                            /\ [r EXCEPT !.state = v].evidence = r.evidence
                            /\ [r EXCEPT !.state = v].listed = r.listed
  <2>1. \A r \in StepRecord : [r EXCEPT !.state = v] \in StepRecord
    BY <1>3, StepFields
  <2> QED BY <2>1 DEF StepRecord
<1>5. ASSUME NEW x \in Sections
      PROVE  /\ us[x] \in StepRecord /\ StepHolds(us[x])
             /\ us[x].state \in Sales!InDoubt => ss[x].state \in Sales!InDoubt
             /\ us[x].evidence = ss[x].evidence /\ us[x].listed = ss[x].listed
             /\ us[x].call = ss[x].call /\ us[x].unsubmitted = ss[x].unsubmitted
             /\ ss[x].state \in {"failed", "cancelled"} => us[x].state = ss[x].state
  <2>1. CASE x \in failing
    <3>1. ss[x].state = "queued" /\ ss[x] \in StepRecord /\ StepHolds(ss[x])
      BY <1>1, <2>1
    <3>2. us[x] = [ss[x] EXCEPT !.state = v]
      BY <1>2, <2>1
    <3>3. /\ us[x] \in StepRecord /\ us[x].state = v /\ us[x].call = ss[x].call
          /\ us[x].unsubmitted = ss[x].unsubmitted /\ us[x].evidence = ss[x].evidence
          /\ us[x].listed = ss[x].listed
      BY <1>4, <3>1, <3>2
    <3>4. StepHolds(us[x])
      BY <3>1, <3>3 DEF StepHolds
    <3> QED BY <3>1, <3>3, <3>4 DEF Sales!InDoubt
  <2>2. CASE x \notin failing
    BY <1>1, <1>2, <2>2
  <2> QED BY <2>1, <2>2
<1>6. us \in [Sections -> StepRecord]
  <2>1. us = [x \in Sections |-> us[x]]
    BY DEF us, Ended
  <2> QED BY <1>5, <2>1
<1>7. StepsHold(us)
  BY <1>5, <1>6 DEF StepsHold
<1>8. DoubtSteps(us) \subseteq DoubtSteps(ss)
  BY <1>5 DEF DoubtSteps
<1>9. Sales!Unused(ss) => Sales!Unused(us)
  BY <1>5 DEF Sales!Unused
<1> QED BY <1>5, <1>7, <1>8, <1>9 DEF us

\* What becomes of the parent and its hold.
LEMMA ParentKept ==
  ASSUME SalesInv, parent.admitted, NEW ss, NEW c \in BOOLEAN, Sales!Children(ss, c),
         \A s \in Sections : ss[s].evidence = steps[s].evidence /\ ss[s].listed = steps[s].listed,
         Sales!Unused(steps) => Sales!Unused(ss)
  PROVE  /\ steps' = ss /\ parent' \in ParentRecord /\ parent'.admitted
         /\ hold' \in [state : {"none", "active", "released", "settled"}, remaining : Nat]
         /\ HoldAddsUp'
<1>1. steps' = ss /\ Sales!ReleaseUnused(ss)
      /\ parent' = [parent EXCEPT !.cancelled = c, !.released = @ \/ Sales!Unused(ss)]
  BY DEF Sales!Children
<1>2. /\ parent \in ParentRecord
      /\ hold \in [state : {"none", "active", "released", "settled"}, remaining : Nat]
  BY DEF SalesInv, TaskTypes
<1>3. Sales!Unused(ss) \in BOOLEAN
  BY DEF Sales!Unused
<1>4. parent' \in ParentRecord /\ parent'.admitted /\ (parent'.released <=> parent.released \/ Sales!Unused(ss))
  BY <1>1, <1>2, <1>3 DEF ParentRecord
<1>5. BilledSteps' = BilledSteps /\ ListedSteps' = ListedSteps
  BY <1>1 DEF BilledSteps, ListedSteps
<1>6. CASE Sales!Unused(ss) /\ ~parent.released
  <2>1. hold' = [state |-> "released", remaining |-> 0]
    BY <1>1, <1>6 DEF Sales!ReleaseUnused
  <2>2. parent'.released /\ Sales!Unused(steps')
    BY <1>1, <1>4, <1>6
  <2> QED BY <1>1, <1>4, <2>1, <2>2 DEF HoldAddsUp, Sales!Unused
<1>7. CASE ~(Sales!Unused(ss) /\ ~parent.released)
  <2>1. hold' = hold
    BY <1>1, <1>7 DEF Sales!ReleaseUnused
  <2>2. parent'.released <=> parent.released
    BY <1>4, <1>7
  <2>3. parent.released => Sales!Unused(ss)
    BY DEF SalesInv, HoldAddsUp
  <2>4. parent.released => Sales!Unused(steps)'
    BY <1>1, <2>3 DEF Sales!Unused
  <2>5. HoldAddsUp'
    BY <1>4, <1>5, <2>1, <2>2, <2>4 DEF SalesInv, HoldAddsUp
  <2> QED BY <1>1, <1>2, <1>4, <2>1, <2>5
<1> QED BY <1>6, <1>7

\* The state of the task after a step of its sections.
LEMMA TaskGiven ==
  ASSUME SalesInv, task.state # "completed", NEW ss \in [Sections -> StepRecord],
         NEW st, NEW ts, ToolsHold(st, ts),
         NEW f \in TaskStates, f # "completed",
         st.dispatch = "none" /\ f \in Sales!Deletable => DoubtSteps(ss) = {},
         ~parent.admitted => DoubtSteps(ss) = {},
         Sales!SetState(Sales!Combined(f, ss, st, ts))
  PROVE  /\ task' \in TaskRecord /\ task'.state # "completed"
         /\ task'.state \in Sales!Deletable => NoDoubt(ss, ts)
<1>1. PICK w : w = Sales!Combined(f, ss, st, ts)
  OBVIOUS
<1>2. st \in StageRecord /\ ts \in [Sales!ToolIds -> ToolRecord]
  BY DEF ToolsHold
<1>3. /\ w \in TaskStates /\ (w = "completed" => f = "completed")
      /\ st.dispatch = "none" => w = f
      /\ st.dispatch # "none" /\ w \in Sales!Deletable =>
            DoubtTools(ts) = {} /\ (parent.admitted => DoubtSteps(ss) = {})
  BY <1>1, <1>2, CombinedState
<1>4. task' = [task EXCEPT !.state = w] /\ task \in TaskRecord
  BY <1>1 DEF Sales!SetState, SalesInv, TaskTypes
<1>5. task' \in TaskRecord /\ task'.state = w
  BY <1>3, <1>4 DEF TaskRecord
<1>6. st.dispatch = "none" => DoubtTools(ts) = {}
  BY DEF ToolsHold, Sales!AllIn, DoubtTools, Sales!InDoubt
<1>7. w \in Sales!Deletable => DoubtSteps(ss) = {} /\ DoubtTools(ts) = {}
  <2>1. CASE st.dispatch = "none"
    BY <1>3, <1>6, <2>1
  <2>2. CASE st.dispatch # "none"
    BY <1>3, <2>2
  <2> QED BY <2>1, <2>2
<1> QED BY <1>3, <1>5, <1>7 DEF NoDoubt

LEMMA AggregateSteps ==
  ASSUME NEW ss \in [Sections -> StepRecord], NEW c \in BOOLEAN
  PROVE  /\ Sales!Aggregate(Sales!StatesOf(ss), c) \in TaskStates /\ Sales!Aggregate(Sales!StatesOf(ss), c) # "completed"
         /\ Sales!Aggregate(Sales!StatesOf(ss), c) \in Sales!Deletable => DoubtSteps(ss) = {}
<1>1. PICK states : states = Sales!StatesOf(ss)
  OBVIOUS
<1>2. states \cap Sales!InDoubt = {} => DoubtSteps(ss) = {}
  <2>1. DOMAIN ss = Sections
    OBVIOUS
  <2> QED BY <1>1, <2>1 DEF Sales!StatesOf, DoubtSteps
<1>3. /\ Sales!Aggregate(states, c) \in TaskStates /\ Sales!Aggregate(states, c) # "completed"
      /\ Sales!Aggregate(states, c) \in Sales!Deletable => states \cap Sales!InDoubt = {}
  BY AggregateState
<1> QED BY <1>1, <1>2, <1>3

\* A step of the sections keeps the invariant.
LEMMA SectionStep ==
  ASSUME SalesInv, parent.admitted, NEW ss, NEW c \in BOOLEAN, Sales!Children(ss, c), StepsHold(ss),
         \A s \in Sections : ss[s].evidence = steps[s].evidence /\ ss[s].listed = steps[s].listed,
         Sales!Unused(steps) => Sales!Unused(ss),
         DoubtSteps(ss) \subseteq DoubtSteps(steps),
         ToolsHold(stage', tools'), DoubtTools(tools') \subseteq DoubtTools(tools),
         task' \in TaskRecord, task'.state # "completed",
         task'.state \in Sales!Deletable => NoDoubt(ss, tools')
  PROVE  SalesInv'
<1>1. /\ steps' = ss /\ parent' \in ParentRecord /\ parent'.admitted
      /\ hold' \in [state : {"none", "active", "released", "settled"}, remaining : Nat]
      /\ HoldAddsUp'
  BY ParentKept
<1>2. TaskTypes' /\ ParentHolds'
  BY <1>1 DEF TaskTypes, ParentHolds
<1>3. Sales!Active(ss, tools') <= Sales!Active(steps, tools)
  BY FewerDoubts
<1>4. Sales!Active(ss, tools') <= Sales!MaxConcurrency
  BY <1>3, DoubtIsCounted DEF SalesInv, Sales!MaxConcurrency
<1> QED BY <1>1, <1>2, <1>4 DEF SalesInv, NoDoubt, DoubtSteps, DoubtTools, Sales!Active, ToolsHold, Sales!AllIn, StepsHold

LEMMA Updated ==
  ASSUME SalesInv, parent.admitted, NEW ss, Sales!UpdateStates(ss), StepsHold(ss),
         \A s \in Sections : ss[s].evidence = steps[s].evidence /\ ss[s].listed = steps[s].listed,
         NEW x \in Sections, steps[x].state \in Sales!InDoubt,
         DoubtSteps(ss) \subseteq DoubtSteps(steps)
  PROVE  SalesInv'
<1>1. ss \in [Sections -> StepRecord] /\ parent.cancelled \in BOOLEAN
  BY DEF StepsHold, SalesInv, TaskTypes, ParentRecord
<1>2. Sales!Children(ss, parent.cancelled) /\ stage' = stage /\ tools' = tools
      /\ Sales!SetState(Sales!Combined(Sales!Aggregate(Sales!StatesOf(ss), parent.cancelled), ss, stage, tools))
  BY DEF Sales!UpdateStates
<1>3. task.state # "completed" /\ ~Sales!Unused(steps)
  <2>1. ~NoDoubt(steps, tools)
    BY DEF NoDoubt, DoubtSteps
  <2>2. task.state # "completed"
    BY <2>1 DEF SalesInv, Sales!Deletable
  <2>3. ~Sales!Unused(steps)
    BY DEF Sales!Unused, Sales!InDoubt
  <2> QED BY <2>2, <2>3
<1>4. PICK f : f = Sales!Aggregate(Sales!StatesOf(ss), parent.cancelled)
  OBVIOUS
<1>5. f \in TaskStates /\ f # "completed" /\ (f \in Sales!Deletable => DoubtSteps(ss) = {})
  BY <1>1, <1>4, AggregateSteps
<1>6. ToolsHold(stage, tools)
  BY DEF SalesInv
<1>7. /\ task' \in TaskRecord /\ task'.state # "completed"
      /\ task'.state \in Sales!Deletable => NoDoubt(ss, tools)
  BY <1>1, <1>2, <1>3, <1>4, <1>5, <1>6, TaskGiven
<1> QED BY <1>1, <1>2, <1>3, <1>6, <1>7, SectionStep

\* A section that was called belongs to an admitted task.
LEMMA CalledIsAdmitted ==
  ASSUME SalesInv, NEW s \in Sections, steps[s].state # "queued" \/ steps[s].call # "none"
  PROVE  parent.admitted
BY DEF SalesInv, ParentHolds, StepsHold, StepHolds

LEMMA ResultPersisted == \A s \in Sections : SalesInv /\ Sales!PersistResult(s) => SalesInv'
<1> SUFFICES ASSUME NEW s \in Sections, SalesInv, Sales!PersistResult(s) PROVE SalesInv'
  OBVIOUS
<1>1. PICK v \in {"received", "unknown"} :
         Sales!UpdateStates([steps EXCEPT ![s].state = v, ![s].call = "over"])
  BY DEF Sales!PersistResult
<1>2. steps[s] \in StepRecord /\ StepHolds(steps[s]) /\ steps[s].call = "sent" /\ steps[s].state \in Sales!InDoubt
  BY DEF SalesInv, StepsHold, Sales!PersistResult
<1>3. PICK r : r = [steps[s] EXCEPT !.state = v, !.call = "over"]
  OBVIOUS
<1>4. r \in StepRecord
  <2>1. v \in Sales!StepStates
    BY DEF Sales!StepStates
  <2> QED BY <1>2, <1>3, <2>1, StepFields
<1>5. /\ r.state = v /\ r.call = "over" /\ r.evidence = steps[s].evidence
      /\ r.listed = steps[s].listed /\ r.unsubmitted = steps[s].unsubmitted
  BY <1>2, <1>3 DEF StepRecord
<1>6. StepHolds(r)
  BY <1>2, <1>5 DEF StepHolds, Sales!InDoubt
<1>7. PICK ss : ss = [steps EXCEPT ![s] = r]
  OBVIOUS
<1>8. Sales!UpdateStates(ss)
  BY <1>1, <1>3, <1>7
<1>9. /\ StepsHold(ss) /\ ss[s] = r /\ \A x \in Sections : x # s => ss[x] = steps[x]
      /\ DoubtSteps(ss) \subseteq DoubtSteps(steps)
  <2>1. StepsHold(steps) /\ (r.state \in Sales!InDoubt => steps[s].state \in Sales!InDoubt)
    BY <1>2 DEF SalesInv
  <2>2. /\ StepsHold(ss) /\ ss[s] = r /\ \A x \in Sections : x # s => ss[x] = steps[x]
        /\ (r.state \in Sales!InDoubt => steps[s].state \in Sales!InDoubt) => DoubtSteps(ss) \subseteq DoubtSteps(steps)
    <3>1. StepsHold(ss) /\ ((r.state \in Sales!InDoubt => steps[s].state \in Sales!InDoubt) => DoubtSteps(ss) \subseteq DoubtSteps(steps))
      BY <1>4, <1>6, <1>7, <2>1, StepChanged
    <3> QED BY <1>7, <2>1, <3>1 DEF StepsHold
  <2> QED BY <2>1, <2>2
<1>10. \A x \in Sections : ss[x].evidence = steps[x].evidence /\ ss[x].listed = steps[x].listed
  BY <1>5, <1>9
<1>11. parent.admitted
  BY <1>2, CalledIsAdmitted
<1> QED BY <1>2, <1>8, <1>9, <1>10, <1>11, Updated

LEMMA StepRecovered == \A s \in Sections : SalesInv /\ Sales!RecoverStep(s) => SalesInv'
<1> SUFFICES ASSUME NEW s \in Sections, SalesInv, Sales!RecoverStep(s) PROVE SalesInv'
  OBVIOUS
<1>1. Sales!UpdateStates([steps EXCEPT ![s].state = "unknown"])
  BY DEF Sales!RecoverStep
<1>2. steps[s] \in StepRecord /\ StepHolds(steps[s]) /\ steps[s].state = "submitting"
  BY DEF SalesInv, StepsHold, Sales!RecoverStep
<1>3. PICK r : r = [steps[s] EXCEPT !.state = "unknown"]
  OBVIOUS
<1>4. r \in StepRecord
  <2>1. "unknown" \in Sales!StepStates
    BY DEF Sales!StepStates
  <2> QED BY <1>2, <1>3, <2>1, StepFields
<1>5. /\ r.state = "unknown" /\ r.call = steps[s].call /\ r.evidence = steps[s].evidence
      /\ r.listed = steps[s].listed /\ r.unsubmitted = steps[s].unsubmitted
  BY <1>2, <1>3 DEF StepRecord
<1>6. StepHolds(r)
  BY <1>2, <1>5 DEF StepHolds
<1>7. PICK ss : ss = [steps EXCEPT ![s] = r]
  OBVIOUS
<1>8. Sales!UpdateStates(ss)
  BY <1>1, <1>3, <1>7
<1>9. /\ StepsHold(ss) /\ ss[s] = r /\ \A x \in Sections : x # s => ss[x] = steps[x]
      /\ DoubtSteps(ss) \subseteq DoubtSteps(steps)
  <2>1. StepsHold(steps) /\ (r.state \in Sales!InDoubt => steps[s].state \in Sales!InDoubt)
    BY <1>2 DEF SalesInv, Sales!InDoubt
  <2>2. /\ StepsHold(ss) /\ ss[s] = r /\ \A x \in Sections : x # s => ss[x] = steps[x]
        /\ (r.state \in Sales!InDoubt => steps[s].state \in Sales!InDoubt) => DoubtSteps(ss) \subseteq DoubtSteps(steps)
    <3>1. StepsHold(ss) /\ ((r.state \in Sales!InDoubt => steps[s].state \in Sales!InDoubt) => DoubtSteps(ss) \subseteq DoubtSteps(steps))
      BY <1>4, <1>6, <1>7, <2>1, StepChanged
    <3> QED BY <1>7, <2>1, <3>1 DEF StepsHold
  <2> QED BY <2>1, <2>2
<1>10. \A x \in Sections : ss[x].evidence = steps[x].evidence /\ ss[x].listed = steps[x].listed
  BY <1>5, <1>9
<1>11. parent.admitted /\ steps[s].state \in Sales!InDoubt
  BY <1>2, CalledIsAdmitted DEF Sales!InDoubt
<1> QED BY <1>8, <1>9, <1>10, <1>11, Updated

\* A step that leaves the parent and its hold alone keeps the invariant.
LEMMA RowsStep ==
  ASSUME SalesInv, parent' = parent, hold' = hold, StepsHold(steps'),
         \A s \in Sections : /\ steps'[s].listed = steps[s].listed
                             /\ steps'[s].evidence = "settled" <=> steps[s].evidence = "settled",
         Sales!Unused(steps) => Sales!Unused(steps'),
         ~parent.admitted => \A s \in Sections : steps'[s].state = "queued",
         ToolsHold(stage', tools'), Sales!Active(steps', tools') <= Sales!MaxConcurrency,
         task' \in TaskRecord,
         task'.state = "completed" => ~parent.admitted \/ \A s \in Sections : steps'[s].state = "received",
         task'.state \in Sales!Deletable => NoDoubt(steps', tools')
  PROVE  SalesInv'
<1>1. TaskTypes' /\ ParentHolds'
  BY DEF SalesInv, TaskTypes, ParentHolds
<1>2. BilledSteps' = BilledSteps /\ ListedSteps' = ListedSteps
  BY DEF BilledSteps, ListedSteps
<1>3. Sales!Unused(steps') => Sales!Unused(steps)'
  BY DEF Sales!Unused
<1>4. HoldAddsUp'
  BY <1>2, <1>3 DEF SalesInv, HoldAddsUp
<1> QED BY <1>1, <1>4 DEF SalesInv, NoDoubt, DoubtSteps, DoubtTools, Sales!Active, ToolsHold, Sales!AllIn, StepsHold

LEMMA StepClaimed == \A s \in Sections : SalesInv /\ Sales!ClaimStep(s) => SalesInv'
<1> SUFFICES ASSUME NEW s \in Sections, SalesInv, Sales!ClaimStep(s) PROVE SalesInv'
  OBVIOUS
<1>1. steps[s] \in StepRecord /\ StepHolds(steps[s]) /\ steps[s].state = "queued" /\ StepsHold(steps)
  BY DEF SalesInv, StepsHold, Sales!ClaimStep
<1>2. PICK r : r = [steps[s] EXCEPT !.state = "submitting", !.call = "held"]
  OBVIOUS
<1>3. r \in StepRecord
  BY <1>1, <1>2, StepFields
<1>4. /\ r.state = "submitting" /\ r.call = "held" /\ r.evidence = steps[s].evidence
      /\ r.listed = steps[s].listed /\ r.unsubmitted = steps[s].unsubmitted
  BY <1>1, <1>2 DEF StepRecord
<1>5. StepHolds(r)
  BY <1>1, <1>4 DEF StepHolds
<1>6. steps' = [steps EXCEPT ![s] = r]
  BY <1>2 DEF Sales!ClaimStep
<1>7. StepsHold(steps') /\ DoubtSteps(steps') \subseteq DoubtSteps(steps) \cup {s}
  BY <1>1, <1>3, <1>5, <1>6, StepChanged
<1>8. \A x \in Sections : steps'[x] = IF x = s THEN r ELSE steps[x]
  BY <1>1, <1>6 DEF StepsHold
<1>9. \A x \in Sections : /\ steps'[x].listed = steps[x].listed
                          /\ steps'[x].evidence = "settled" <=> steps[x].evidence = "settled"
  BY <1>4, <1>8
<1>10. parent.admitted /\ ~Sales!Unused(steps) /\ task.state # "completed"
  BY <1>1 DEF SalesInv, ParentHolds, Sales!Unused, Sales!ClaimStep
<1>11. Sales!Active(steps', tools) <= Sales!MaxConcurrency
  <2>1. Sales!Active(steps', tools) <= Sales!Active(steps, tools) + 1
    BY <1>7, OneMoreStep
  <2>2. Sales!Active(steps, tools) < Sales!MaxConcurrency
    BY DEF Sales!ClaimStep
  <2> QED BY <2>1, <2>2, DoubtIsCounted DEF Sales!MaxConcurrency
<1>12. /\ task' \in TaskRecord /\ task'.state # "completed"
       /\ task'.state \in Sales!Deletable => NoDoubt(steps', tools)
  <2>1. "running" \in TaskStates /\ "running" \notin Sales!Deletable
    BY DEF TaskStates, Sales!Deletable
  <2>2. Sales!SetState(Sales!Combined("running", steps', stage, tools)) /\ ToolsHold(stage, tools)
    BY DEF Sales!ClaimStep, SalesInv
  <2>3. steps' \in [Sections -> StepRecord]
    BY <1>7 DEF StepsHold
  <2> QED BY <1>10, <2>1, <2>2, <2>3, TaskGiven
<1>13. UNCHANGED <<parent, hold, stage, tools>> /\ ToolsHold(stage, tools)
  BY DEF Sales!ClaimStep, SalesInv
<1> QED BY <1>7, <1>9, <1>10, <1>11, <1>12, <1>13, RowsStep

\* The call or the evidence of one section changes.
LEMMA OneRow ==
  ASSUME SalesInv, UNCHANGED <<task, parent, hold, stage, tools>>,
         NEW s \in Sections, NEW r \in StepRecord, StepHolds(r), steps' = [steps EXCEPT ![s] = r],
         r.state = steps[s].state, r.listed = steps[s].listed, r.unsubmitted = steps[s].unsubmitted,
         r.evidence = "settled" <=> steps[s].evidence = "settled", steps[s].call # "none"
  PROVE  SalesInv'
<1>1. StepsHold(steps)
  BY DEF SalesInv
<1>2. StepsHold(steps') /\ DoubtSteps(steps') \subseteq DoubtSteps(steps)
  BY <1>1, StepChanged
<1>3. \A x \in Sections : steps'[x] = IF x = s THEN r ELSE steps[x]
  BY <1>1 DEF StepsHold
<1>4. \A x \in Sections : /\ steps'[x].listed = steps[x].listed /\ steps'[x].state = steps[x].state
                          /\ steps'[x].evidence = "settled" <=> steps[x].evidence = "settled"
  BY <1>3
<1>5. Sales!Unused(steps) => Sales!Unused(steps')
  BY <1>3 DEF Sales!Unused
<1>6. ~parent.admitted => \A x \in Sections : steps'[x].state = "queued"
  BY <1>4 DEF SalesInv, ParentHolds
<1>7. task'.state = "completed" => ~parent.admitted \/ \A x \in Sections : steps'[x].state = "received"
  BY <1>4 DEF SalesInv, ParentHolds
<1>8. Sales!Active(steps', tools) <= Sales!Active(steps, tools)
  BY <1>2, FewerDoubts
<1>9. Sales!Active(steps', tools') <= Sales!MaxConcurrency
  BY <1>8, DoubtIsCounted DEF SalesInv, Sales!MaxConcurrency
<1>10. task'.state \in Sales!Deletable => NoDoubt(steps', tools')
  BY <1>2 DEF SalesInv, NoDoubt
<1>11. task' \in TaskRecord /\ ToolsHold(stage', tools')
  BY DEF SalesInv, TaskTypes
<1> QED BY <1>2, <1>4, <1>5, <1>6, <1>7, <1>9, <1>10, <1>11, RowsStep

LEMMA CallMoved == \A s \in Sections : SalesInv /\ (Sales!SendStep(s) \/ Sales!CrashStep(s)) => SalesInv'
<1> SUFFICES ASSUME NEW s \in Sections, SalesInv, Sales!SendStep(s) \/ Sales!CrashStep(s) PROVE SalesInv'
  OBVIOUS
<1>1. PICK v \in {"sent", "gone"} : steps' = [steps EXCEPT ![s].call = v]
  BY DEF Sales!SendStep, Sales!CrashStep
<1>2. steps[s] \in StepRecord /\ StepHolds(steps[s]) /\ steps[s].call # "none"
  BY DEF SalesInv, StepsHold, Sales!SendStep, Sales!CrashStep
<1>3. PICK r : r = [steps[s] EXCEPT !.call = v]
  OBVIOUS
<1>4. r \in StepRecord
  BY <1>2, <1>3, StepFields
<1>5. /\ r.state = steps[s].state /\ r.call = v /\ r.evidence = steps[s].evidence
      /\ r.listed = steps[s].listed /\ r.unsubmitted = steps[s].unsubmitted
  BY <1>2, <1>3 DEF StepRecord
<1>6. StepHolds(r)
  BY <1>2, <1>5 DEF StepHolds
<1>7. steps' = [steps EXCEPT ![s] = r]
  BY <1>1, <1>3
<1>8. UNCHANGED <<task, parent, hold, stage, tools>>
  BY DEF Sales!SendStep, Sales!CrashStep
<1> QED BY <1>2, <1>4, <1>5, <1>6, <1>7, <1>8, OneRow

LEMMA EvidenceRecorded == \A s \in Sections : SalesInv /\ Sales!RecordEvidence(s) => SalesInv'
<1> SUFFICES ASSUME NEW s \in Sections, SalesInv, Sales!RecordEvidence(s) PROVE SalesInv'
  OBVIOUS
<1>1. steps' = [steps EXCEPT ![s].evidence = "kept"] /\ UNCHANGED <<task, parent, hold, stage, tools>>
  BY DEF Sales!RecordEvidence
<1>2. /\ steps[s] \in StepRecord /\ StepHolds(steps[s]) /\ steps[s].evidence = "none"
      /\ steps[s].state \in {"submitting", "unknown", "received"}
  BY DEF SalesInv, StepsHold, Sales!RecordEvidence, Sales!InDoubt
<1>3. PICK r : r = [steps[s] EXCEPT !.evidence = "kept"]
  OBVIOUS
<1>4. r \in StepRecord
  BY <1>2, <1>3 DEF StepRecord
<1>5. /\ r.state = steps[s].state /\ r.call = steps[s].call /\ r.evidence = "kept"
      /\ r.listed = steps[s].listed /\ r.unsubmitted = steps[s].unsubmitted
  BY <1>2, <1>3 DEF StepRecord
<1>6. StepHolds(r) /\ steps[s].call # "none"
  BY <1>2, <1>5 DEF StepHolds
<1>7. steps' = [steps EXCEPT ![s] = r]
  BY <1>1, <1>3
<1> QED BY <1>1, <1>2, <1>4, <1>5, <1>6, <1>7, OneRow

LEMMA StepRefused == \A s \in Sections : SalesInv /\ Sales!RefuseStep(s) => SalesInv'
<1> SUFFICES ASSUME NEW s \in Sections, SalesInv, Sales!RefuseStep(s) PROVE SalesInv'
  OBVIOUS
<1>1. PICK failing \in {{s}, Sales!QueuedSteps} :
         /\ Sales!Children(Sales!Refused(steps, failing), parent.cancelled)
         /\ Sales!SetState(Sales!Combined(Sales!Aggregate(Sales!StatesOf(Sales!Refused(steps, failing)), FALSE), Sales!Refused(steps, failing), stage, tools))
  BY DEF Sales!RefuseStep
<1>2. parent.admitted /\ steps[s].state = "queued" /\ stage' = stage /\ tools' = tools
  BY DEF Sales!RefuseStep
<1>3. \A x \in failing : x \in Sections /\ steps[x].state = "queued"
  BY <1>1, <1>2 DEF Sales!QueuedSteps
<1>4. PICK ss : ss = Sales!Refused(steps, failing)
  OBVIOUS
<1>5. ss = Ended(steps, failing, "failed")
  BY <1>4 DEF Sales!Refused, Ended
<1>6. StepsHold(steps) /\ ToolsHold(stage, tools) /\ parent.cancelled \in BOOLEAN
  BY DEF SalesInv, TaskTypes, ParentRecord
<1>7. /\ StepsHold(ss) /\ DoubtSteps(ss) \subseteq DoubtSteps(steps)
      /\ \A x \in Sections : ss[x].evidence = steps[x].evidence /\ ss[x].listed = steps[x].listed
      /\ Sales!Unused(steps) => Sales!Unused(ss)
  BY <1>3, <1>5, <1>6, QueueEnded
<1>8. task.state # "completed"
  BY <1>2 DEF SalesInv, ParentHolds
<1>9. PICK f : f = Sales!Aggregate(Sales!StatesOf(ss), FALSE)
  OBVIOUS
<1>10. ss \in [Sections -> StepRecord]
  BY <1>7 DEF StepsHold
<1>11. f \in TaskStates /\ f # "completed" /\ (f \in Sales!Deletable => DoubtSteps(ss) = {})
  BY <1>9, <1>10, AggregateSteps
<1>12. /\ task' \in TaskRecord /\ task'.state # "completed"
       /\ task'.state \in Sales!Deletable => NoDoubt(ss, tools)
  BY <1>1, <1>2, <1>4, <1>6, <1>8, <1>9, <1>10, <1>11, TaskGiven
<1> QED BY <1>1, <1>2, <1>4, <1>6, <1>7, <1>12, SectionStep

LEMMA UnsubmittedPersisted == \A s \in Sections : SalesInv /\ Sales!PersistUnsubmitted(s) => SalesInv'
<1> SUFFICES ASSUME NEW s \in Sections, SalesInv, Sales!PersistUnsubmitted(s) PROVE SalesInv'
  OBVIOUS
<1>1. Sales!UpdateStates(Sales!Refused([steps EXCEPT ![s].state = "failed", ![s].call = "over",
                                        ![s].unsubmitted = TRUE], Sales!QueuedSteps))
  BY DEF Sales!PersistUnsubmitted
<1>2. steps[s] \in StepRecord /\ StepHolds(steps[s]) /\ steps[s].call = "held" /\ steps[s].state \in Sales!InDoubt
  BY DEF SalesInv, StepsHold, Sales!PersistUnsubmitted
<1>3. PICK r : r = [steps[s] EXCEPT !.state = "failed", !.call = "over", !.unsubmitted = TRUE]
  OBVIOUS
<1>4. r \in StepRecord
  BY <1>2, <1>3, StepFields
<1>5. /\ r.state = "failed" /\ r.call = "over" /\ r.evidence = steps[s].evidence
      /\ r.listed = steps[s].listed /\ r.unsubmitted
  BY <1>2, <1>3 DEF StepRecord
<1>6. StepHolds(r) /\ r.state \notin Sales!InDoubt
  BY <1>2, <1>5 DEF StepHolds, Sales!InDoubt
<1>7. PICK us : us = [steps EXCEPT ![s] = r]
  OBVIOUS
<1>8. StepsHold(steps)
  BY DEF SalesInv
<1>9. StepsHold(us) /\ DoubtSteps(us) \subseteq DoubtSteps(steps)
  BY <1>4, <1>6, <1>7, <1>8, StepChanged
<1>10. \A x \in Sections : us[x] = IF x = s THEN r ELSE steps[x]
  BY <1>7, <1>8 DEF StepsHold
<1>11. \A x \in Sales!QueuedSteps : x \in Sections /\ us[x].state = "queued"
  BY <1>2, <1>10 DEF Sales!QueuedSteps, Sales!InDoubt
<1>12. PICK ss : ss = Sales!Refused(us, Sales!QueuedSteps)
  OBVIOUS
<1>13. ss = Ended(us, Sales!QueuedSteps, "failed")
  BY <1>12 DEF Sales!Refused, Ended
<1>14. /\ StepsHold(ss) /\ DoubtSteps(ss) \subseteq DoubtSteps(us)
       /\ \A x \in Sections : ss[x].evidence = us[x].evidence /\ ss[x].listed = us[x].listed
  BY <1>9, <1>11, <1>13, QueueEnded
<1>15. \A x \in Sections : ss[x].evidence = steps[x].evidence /\ ss[x].listed = steps[x].listed
  BY <1>5, <1>10, <1>14
<1>16. Sales!UpdateStates(ss)
  <2>1. us = [steps EXCEPT ![s].state = "failed", ![s].call = "over", ![s].unsubmitted = TRUE]
    BY <1>3, <1>7
  <2> QED BY <1>1, <1>12, <2>1
<1>17. parent.admitted
  BY <1>2, CalledIsAdmitted
<1>18. DoubtSteps(ss) \subseteq DoubtSteps(steps)
  BY <1>9, <1>14
<1> QED BY <1>2, <1>14, <1>15, <1>16, <1>17, <1>18, Updated

LEMMA TaskCancelled == SalesInv /\ Sales!CancelTask => SalesInv'
<1> SUFFICES ASSUME SalesInv, Sales!CancelTask PROVE SalesInv'
  OBVIOUS
<1>1. PICK ss : ss = [s \in Sections |-> IF parent.admitted /\ steps[s].state = "queued"
                                         THEN [steps[s] EXCEPT !.state = "cancelled"] ELSE steps[s]]
  OBVIOUS
<1>2. PICK own : own = IF parent.admitted THEN Sales!Aggregate(Sales!StatesOf(ss), TRUE)
                       ELSE IF task.state \in {"failed", "cancelled", "outcome_unknown", "cancel_requested"}
                            THEN task.state
                       ELSE IF task.state \in {"needs_input", "ready_for_review"} THEN "cancelled"
                       ELSE "cancel_requested"
  OBVIOUS
<1>3. PICK first, after : first = Sales!Combined(own, ss, stage, tools) /\ after = Sales!Stopped(stage, tools)
  OBVIOUS
<1>4. /\ task.state # "completed"
      /\ IF parent.admitted THEN Sales!Children(ss, TRUE) ELSE UNCHANGED <<parent, steps, hold>>
      /\ IF stage.dispatch = "none"
         THEN Sales!SetState(first) /\ UNCHANGED <<stage, tools>>
         ELSE /\ stage' = after.stage /\ tools' = after.tools
              /\ Sales!SetState(IF stage.dispatch \in {"settled", "cancelled"} THEN first
                          ELSE Sales!Combined(first, ss, after.stage, after.tools))
  BY <1>1, <1>2, <1>3 DEF Sales!CancelTask
<1>5. StepsHold(steps) /\ ToolsHold(stage, tools) /\ task.state \in TaskStates
  BY DEF SalesInv, TaskTypes, TaskRecord
<1>6. PICK failing : failing = {s \in Sections : parent.admitted /\ steps[s].state = "queued"}
  OBVIOUS
<1>7. /\ StepsHold(ss) /\ DoubtSteps(ss) \subseteq DoubtSteps(steps)
      /\ \A x \in Sections : ss[x].evidence = steps[x].evidence /\ ss[x].listed = steps[x].listed
      /\ Sales!Unused(steps) => Sales!Unused(ss)
  <2>1. \A s \in failing : s \in Sections /\ steps[s].state = "queued"
    BY <1>6
  <2>2. ss = Ended(steps, failing, "cancelled")
    BY <1>1, <1>6 DEF Ended
  <2> QED BY <1>5, <2>1, <2>2, QueueEnded
<1>8. ss \in [Sections -> StepRecord]
  BY <1>7 DEF StepsHold
<1>9. ~parent.admitted => DoubtSteps(ss) = {}
  BY <1>7 DEF SalesInv, ParentHolds, DoubtSteps, Sales!InDoubt
<1>10. own \in TaskStates /\ own # "completed" /\ (own \in Sales!Deletable => DoubtSteps(ss) = {})
  <2>1. CASE parent.admitted
    BY <1>2, <1>8, <2>1, AggregateSteps
  <2>2. CASE ~parent.admitted
    <3>1. own \in {"failed", "cancelled", "outcome_unknown", "cancel_requested"}
      BY <1>2, <2>2
    <3> QED BY <1>9, <2>2, <3>1 DEF TaskStates
  <2> QED BY <2>1, <2>2
<1>11. first \in TaskStates /\ first # "completed"
  <2>1. stage \in StageRecord /\ tools \in [Sales!ToolIds -> ToolRecord]
    BY <1>5 DEF ToolsHold
  <2> QED BY <1>3, <1>8, <1>10, <2>1, CombinedState
<1>12. /\ ToolsHold(stage', tools') /\ DoubtTools(tools') \subseteq DoubtTools(tools)
       /\ task' \in TaskRecord /\ task'.state # "completed"
       /\ task'.state \in Sales!Deletable => NoDoubt(ss, tools')
  <2>1. CASE stage.dispatch = "none"
    <3>1. Sales!SetState(Sales!Combined(own, ss, stage, tools)) /\ stage' = stage /\ tools' = tools
      BY <1>3, <1>4, <2>1
    <3>2. /\ task' \in TaskRecord /\ task'.state # "completed"
          /\ task'.state \in Sales!Deletable => NoDoubt(ss, tools)
      BY <1>4, <1>5, <1>8, <1>9, <1>10, <3>1, TaskGiven
    <3> QED BY <1>5, <3>1, <3>2
  <2>2. CASE stage.dispatch # "none"
    <3>1. Follows(after, stage, tools)
      BY <1>3, <1>5, <2>2, StoppedFollows
    <3>2. /\ ToolsHold(after.stage, after.tools) /\ after.stage.dispatch # "none"
          /\ DoubtTools(after.tools) \subseteq DoubtTools(tools)
      BY <2>2, <3>1 DEF Follows
    <3>3. stage' = after.stage /\ tools' = after.tools
      BY <1>4, <2>2
    <3>4. CASE stage.dispatch \in {"settled", "cancelled"}
      <4>1. after.tools = tools
        BY <1>3, <3>4 DEF Sales!Stopped, Sales!Both
      <4>2. Sales!SetState(Sales!Combined(own, ss, stage, tools))
        BY <1>3, <1>4, <2>2, <3>4
      <4>3. /\ task' \in TaskRecord /\ task'.state # "completed"
            /\ task'.state \in Sales!Deletable => NoDoubt(ss, tools)
        BY <1>4, <1>5, <1>8, <1>9, <1>10, <4>2, TaskGiven
      <4> QED BY <3>2, <3>3, <4>1, <4>3
    <3>5. CASE stage.dispatch \notin {"settled", "cancelled"}
      <4>1. Sales!SetState(Sales!Combined(first, ss, after.stage, after.tools))
        BY <1>4, <2>2, <3>5
      <4>2. /\ task' \in TaskRecord /\ task'.state # "completed"
            /\ task'.state \in Sales!Deletable => NoDoubt(ss, after.tools)
        BY <1>4, <1>8, <1>9, <1>11, <3>2, <4>1, TaskGiven
      <4> QED BY <3>2, <3>3, <4>2
    <3> QED BY <3>4, <3>5
  <2> QED BY <2>1, <2>2
<1>13. CASE parent.admitted
  BY <1>4, <1>7, <1>12, <1>13, SectionStep
<1>14. CASE ~parent.admitted
  <2>1. UNCHANGED <<parent, steps, hold>>
    BY <1>4, <1>14
  <2>2. Sales!Active(steps', tools') <= Sales!MaxConcurrency
    <3>1. Sales!Active(steps, tools') <= Sales!Active(steps, tools)
      BY <1>12, FewerDoubts
    <3> QED BY <2>1, <3>1, DoubtIsCounted DEF SalesInv, Sales!MaxConcurrency
  <2>3. ss = steps
    BY <1>1, <1>5, <1>14 DEF StepsHold
  <2>4. \A s \in Sections : steps'[s].state = "queued"
    BY <1>14, <2>1 DEF SalesInv, ParentHolds
  <2> QED BY <1>5, <1>12, <2>1, <2>2, <2>3, <2>4, RowsStep
<1> QED BY <1>13, <1>14

\* The intake, its review and the admission.
LEMMA IntakeMoved == SalesInv /\ (Sales!FollowUp \/ Sales!ApproveStep) => SalesInv'
<1> SUFFICES ASSUME SalesInv, Sales!FollowUp \/ Sales!ApproveStep PROVE SalesInv'
  OBVIOUS
<1>1. UNCHANGED <<parent, steps, hold, stage, tools>> /\ task.state \in {"needs_input", "ready_for_review"}
  BY DEF Sales!FollowUp, Sales!ApproveStep
<1>2. task' \in TaskRecord /\ task'.state \in {"needs_input", "ready_for_review"}
  <2>1. CASE Sales!FollowUp
    <3>1. PICK v \in {"needs_input", "ready_for_review"} : task' = [state |-> v, intake |-> task.intake + 1]
      BY <2>1 DEF Sales!FollowUp
    <3> QED BY <3>1 DEF SalesInv, TaskTypes, TaskRecord, TaskStates
  <2>2. CASE Sales!ApproveStep
    BY <1>1, <2>2 DEF Sales!ApproveStep, SalesInv, TaskTypes
  <2> QED BY <2>1, <2>2
<1>3. NoDoubt(steps, tools)
  BY <1>1 DEF SalesInv, Sales!Deletable
<1>4. /\ StepsHold(steps) /\ ToolsHold(stage, tools) /\ Sales!Active(steps, tools) <= Sales!MaxConcurrency
      /\ ~parent.admitted => \A s \in Sections : steps[s].state = "queued"
  BY DEF SalesInv, ParentHolds
<1> QED BY <1>1, <1>2, <1>3, <1>4, RowsStep

LEMMA OutputSaved == SalesInv /\ Sales!SaveOutput => SalesInv'
<1> SUFFICES ASSUME SalesInv, Sales!SaveOutput PROVE SalesInv'
  OBVIOUS
<1>1. /\ UNCHANGED <<parent, steps, hold, stage, tools>> /\ task.state = "ready_for_review"
      /\ task' = [task EXCEPT !.state = "completed"]
      /\ parent.admitted => Sales!StatesOf(steps) = {"received"}
  BY DEF Sales!SaveOutput
<1>2. task' \in TaskRecord
  BY <1>1 DEF SalesInv, TaskTypes, TaskRecord, TaskStates
<1>3. NoDoubt(steps, tools)
  BY <1>1 DEF SalesInv, Sales!Deletable
<1>4. /\ StepsHold(steps) /\ ToolsHold(stage, tools) /\ Sales!Active(steps, tools) <= Sales!MaxConcurrency
      /\ ~parent.admitted => \A s \in Sections : steps[s].state = "queued"
  BY DEF SalesInv, ParentHolds
<1>5. parent.admitted => \A s \in Sections : steps[s].state = "received"
  <2>1. DOMAIN steps = Sections
    BY <1>4 DEF StepsHold
  <2>2. \A s \in Sections : steps[s].state \in Sales!StatesOf(steps)
    BY <2>1 DEF Sales!StatesOf
  <2> QED BY <1>1, <2>2
<1> QED BY <1>1, <1>2, <1>3, <1>4, <1>5, RowsStep

LEMMA Admitted == SalesInv /\ Sales!AdmitStep => SalesInv'
<1> SUFFICES ASSUME SalesInv, Sales!AdmitStep PROVE SalesInv'
  OBVIOUS
<1>1. /\ ~parent.admitted /\ task.state = "ready_for_review" /\ UNCHANGED <<steps, stage, tools>>
      /\ parent' = [parent EXCEPT !.admitted = TRUE, !.intake = task.intake]
      /\ hold' = [state |-> "active", remaining |-> Cardinality(Sections)]
  BY SalesCardinality DEF Sales!AdmitStep
<1>2. task \in TaskRecord /\ parent \in ParentRecord /\ task.intake \in Nat
  BY DEF SalesInv, TaskTypes, TaskRecord
<1>3. /\ parent' \in ParentRecord /\ parent'.admitted /\ parent'.released = parent.released
  BY <1>1, <1>2 DEF ParentRecord
<1>4. Cardinality(Sections) \in Nat
  BY SalesAssumption, FS_CardinalityType
<1>5. task' \in TaskRecord /\ task'.state \notin Sales!Deletable
  <2>1. PICK states : states = {"queued"} \cup Sales!StatesOf(tools)
    OBVIOUS
  <2>2. PICK v : v = IF stage.dispatch = "none" THEN "queued"
                     ELSE IF states = {"queued"} THEN "queued" ELSE Sales!Aggregate(states, FALSE)
    OBVIOUS
  <2>3. task' = [task EXCEPT !.state = v]
    BY <2>1, <2>2 DEF Sales!AdmitStep
  <2>4. v \in {"queued", "outcome_unknown", "running"}
    BY <2>1, <2>2 DEF Sales!Aggregate
  <2> QED BY <1>2, <2>3, <2>4 DEF TaskRecord, TaskStates, Sales!Deletable
<1>6. BilledSteps' = {} /\ ListedSteps' = {}
  BY <1>1 DEF SalesInv, ParentHolds, StepsHold, StepHolds, BilledSteps, ListedSteps
<1>7. HoldAddsUp'
  <2>1. ~parent'.released
    BY <1>1, <1>3 DEF SalesInv, ParentHolds
  <2>2. hold'.remaining + Cardinality(BilledSteps') + Cardinality(ListedSteps') = Cardinality(Sections)
    BY <1>1, <1>4, <1>6, FS_EmptySet
  <2> QED BY <2>1, <2>2 DEF HoldAddsUp
<1>8. TaskTypes'
  BY <1>1, <1>3, <1>4, <1>5 DEF TaskTypes
<1>9. ParentHolds'
  BY <1>3, <1>5 DEF ParentHolds, Sales!Deletable
<1> QED BY <1>1, <1>5, <1>7, <1>8, <1>9
  DEF SalesInv, NoDoubt, DoubtSteps, DoubtTools, Sales!Active, ToolsHold, Sales!AllIn, StepsHold

\* The settlement of bills and of unused sections.
LEMMA ParentReconciled == \A bills \in SUBSET Sections : SalesInv /\ Sales!ReconcileParent(bills) => SalesInv'
<1> SUFFICES ASSUME NEW bills \in SUBSET Sections, SalesInv, Sales!ReconcileParent(bills) PROVE SalesInv'
  OBVIOUS
<1>1. PICK bound : bound = Cardinality(bills) + Cardinality(Sales!UnusedSteps)
  OBVIOUS
<1>2. /\ parent.admitted /\ ~parent.released /\ bound \in 1 .. hold.remaining
      /\ hold' = [state |-> IF bound = hold.remaining THEN "settled" ELSE "active",
                  remaining |-> hold.remaining - bound]
      /\ steps' = [s \in Sections |->
                      [steps[s] EXCEPT !.evidence = IF s \in bills THEN "settled" ELSE @,
                                       !.listed   = @ \/ s \in Sales!UnusedSteps]]
      /\ UNCHANGED <<task, parent, stage, tools>>
      /\ \A s \in bills : /\ steps[s].evidence = "kept" /\ ~steps[s].unsubmitted
                          /\ steps[s].state \in Sales!InDoubt \cup {"received"}
  BY <1>1, SalesCardinality DEF Sales!ReconcileParent
<1>3. StepsHold(steps) /\ hold.remaining \in Nat
  BY DEF SalesInv, TaskTypes
<1>4. ASSUME NEW s \in Sections
      PROVE  /\ steps'[s] \in StepRecord /\ StepHolds(steps'[s])
             /\ steps'[s].state = steps[s].state /\ steps'[s].call = steps[s].call
             /\ steps'[s].unsubmitted = steps[s].unsubmitted
             /\ steps'[s].evidence = IF s \in bills THEN "settled" ELSE steps[s].evidence
             /\ steps'[s].listed <=> steps[s].listed \/ s \in Sales!UnusedSteps
  <2>1. PICK v, b : v = (IF s \in bills THEN "settled" ELSE steps[s].evidence)
                    /\ b = (steps[s].listed \/ s \in Sales!UnusedSteps)
    OBVIOUS
  <2>2. steps[s] \in StepRecord /\ StepHolds(steps[s])
    BY <1>3 DEF StepsHold
  <2>3. v \in {"none", "kept", "settled"} /\ b \in BOOLEAN
    BY <2>1, <2>2 DEF StepRecord
  <2>4. steps'[s] = [steps[s] EXCEPT !.evidence = v, !.listed = b]
    BY <1>2, <2>1
  <2>5. /\ steps'[s] \in StepRecord /\ steps'[s].state = steps[s].state
        /\ steps'[s].call = steps[s].call /\ steps'[s].unsubmitted = steps[s].unsubmitted
        /\ steps'[s].evidence = v /\ steps'[s].listed = b
    <3>1. [steps[s] EXCEPT !.evidence = v, !.listed = b] \in StepRecord
      BY <2>2, <2>3 DEF StepRecord
    <3>2. steps'[s] \in StepRecord
      BY <2>4, <3>1
    <3> QED BY <2>2, <2>3, <2>4, <3>2 DEF StepRecord
  <2>6. s \in bills => steps[s].state \in {"submitting", "unknown", "received"}
    BY <1>2 DEF Sales!InDoubt
  <2>7. s \in Sales!UnusedSteps => /\ steps[s].state \in {"failed", "cancelled"}
                                   /\ steps[s].call = "none" \/ steps[s].unsubmitted
    BY DEF Sales!UnusedSteps
  <2>8. StepHolds(steps'[s])
    BY <2>1, <2>2, <2>5, <2>6, <2>7 DEF StepHolds
  <2> QED BY <2>1, <2>5, <2>8
<1>5. StepsHold(steps')
  <2>1. steps' \in [Sections -> StepRecord]
    BY <1>2, <1>4
  <2> QED BY <1>4, <2>1 DEF StepsHold
<1>6. BilledSteps' = BilledSteps \cup bills /\ BilledSteps \cap bills = {}
  <2>1. \A s \in bills : s \in Sections /\ steps[s].evidence = "kept"
    BY <1>2
  <2>2. \A s \in Sections : steps'[s].evidence = "settled" <=> s \in bills \/ steps[s].evidence = "settled"
    BY <1>4
  <2> QED BY <2>1, <2>2 DEF BilledSteps
<1>7. ListedSteps' = ListedSteps \cup Sales!UnusedSteps /\ ListedSteps \cap Sales!UnusedSteps = {}
  BY <1>4 DEF ListedSteps, Sales!UnusedSteps
<1>8. /\ IsFiniteSet(BilledSteps) /\ IsFiniteSet(bills) /\ IsFiniteSet(ListedSteps) /\ IsFiniteSet(Sales!UnusedSteps)
  BY SalesAssumption, FS_Subset DEF BilledSteps, ListedSteps, Sales!UnusedSteps
<1>9. /\ Cardinality(BilledSteps) \in Nat /\ Cardinality(bills) \in Nat
      /\ Cardinality(ListedSteps) \in Nat /\ Cardinality(Sales!UnusedSteps) \in Nat
  BY <1>8, FS_CardinalityType
<1>10. Cardinality(BilledSteps') = Cardinality(BilledSteps) + Cardinality(bills)
  <2>1. Cardinality(BilledSteps \cup bills)
          = Cardinality(BilledSteps) + Cardinality(bills) - Cardinality(BilledSteps \cap bills)
    BY <1>8, FS_Union
  <2>2. Cardinality(BilledSteps \cap bills) = 0
    BY <1>6, FS_EmptySet
  <2> QED BY <1>6, <1>9, <2>1, <2>2
<1>11. Cardinality(ListedSteps') = Cardinality(ListedSteps) + Cardinality(Sales!UnusedSteps)
  <2>1. Cardinality(ListedSteps \cup Sales!UnusedSteps)
          = Cardinality(ListedSteps) + Cardinality(Sales!UnusedSteps) - Cardinality(ListedSteps \cap Sales!UnusedSteps)
    BY <1>8, FS_Union
  <2>2. Cardinality(ListedSteps \cap Sales!UnusedSteps) = 0
    BY <1>7, FS_EmptySet
  <2> QED BY <1>7, <1>9, <2>1, <2>2
<1>12. HoldAddsUp'
  <2>1. hold.remaining + Cardinality(BilledSteps) + Cardinality(ListedSteps) = Cardinality(Sections)
    BY <1>2 DEF SalesInv, HoldAddsUp
  <2>2. Cardinality(Sections) \in Nat
    BY SalesAssumption, FS_CardinalityType
  <2>3. hold'.remaining = hold.remaining - bound
    BY <1>2
  <2>4. hold'.remaining + Cardinality(BilledSteps') + Cardinality(ListedSteps') = Cardinality(Sections)
    BY <1>1, <1>3, <1>9, <1>10, <1>11, <2>1, <2>2, <2>3
  <2> QED BY <1>2, <2>4 DEF HoldAddsUp
<1>13. TaskTypes'
  <2>1. hold.remaining - bound \in Nat
    <3>1. bound \in 1 .. hold.remaining
      BY <1>2
    <3> QED BY <1>3, <3>1
  <2> QED BY <1>2, <2>1 DEF SalesInv, TaskTypes
<1>14. ParentHolds'
  <2>1. parent'.admitted
    BY <1>2
  <2>2. ASSUME task'.state = "completed", NEW s \in Sections
        PROVE  steps'[s].state = "received"
    <3>1. task.state = "completed" /\ parent.admitted
      BY <1>2, <2>2
    <3>2. steps[s].state = "received"
      BY <3>1 DEF SalesInv, ParentHolds
    <3> QED BY <1>4, <3>2
  <2> QED BY <2>1, <2>2 DEF ParentHolds
<1>15. DoubtSteps(steps') = DoubtSteps(steps)
  BY <1>4 DEF DoubtSteps
<1>16. Sales!Active(steps', tools') <= Sales!MaxConcurrency /\ (task'.state \in Sales!Deletable => NoDoubt(steps', tools'))
  <2>1. Sales!Active(steps', tools) <= Sales!Active(steps, tools)
    BY <1>15, FewerDoubts
  <2>2. Sales!Active(steps', tools') <= Sales!MaxConcurrency
    <3>1. tools' = tools /\ Sales!Active(steps, tools) <= 2
      BY <1>2 DEF SalesInv, Sales!MaxConcurrency
    <3>2. Sales!Active(steps', tools) \in Nat /\ Sales!Active(steps, tools) \in Nat
      BY DoubtIsCounted
    <3> QED BY <2>1, <3>1, <3>2 DEF Sales!MaxConcurrency
  <2> QED BY <1>2, <1>15, <2>2 DEF SalesInv, NoDoubt
<1>17. ToolsHold(stage', tools')
  BY <1>2 DEF SalesInv
<1> QED BY <1>5, <1>12, <1>13, <1>14, <1>16, <1>17
  DEF SalesInv, NoDoubt, DoubtSteps, DoubtTools, Sales!Active, ToolsHold, Sales!AllIn, StepsHold

LEMMA SalesStart == Sales!SalesInit => SalesInv
<1> SUFFICES ASSUME Sales!SalesInit PROVE SalesInv
  OBVIOUS
<1>1. TaskTypes
  BY DEF Sales!SalesInit, TaskTypes, TaskRecord, TaskStates, ParentRecord
<1>2. \A s \in Sections : steps[s] = [state |-> "queued", call |-> "none", unsubmitted |-> FALSE,
                                      evidence |-> "none", listed |-> FALSE]
  BY DEF Sales!SalesInit
<1>3. \A s \in Sections : steps[s].state = "queued" /\ StepHolds(steps[s])
  BY <1>2 DEF StepHolds
<1>4. StepsHold(steps)
  <2>1. steps \in [Sections -> StepRecord]
    BY DEF Sales!SalesInit, StepRecord, Sales!StepStates
  <2> QED BY <1>3, <2>1 DEF StepsHold
<1>5. \A i \in Sales!ToolIds : tools[i] = [state |-> "queued", attempts |-> 0, call |-> "none",
                                     accepted |-> 0, taken |-> 0]
  BY DEF Sales!SalesInit
<1>6. \A i \in Sales!ToolIds : tools[i].state = "queued" /\ ToolHolds(tools[i])
  BY <1>5 DEF ToolHolds
<1>7. ToolsHold(stage, tools)
  <2>1. tools \in [Sales!ToolIds -> ToolRecord]
    BY DEF Sales!SalesInit, ToolRecord, ToolStates, Sales!StepStates
  <2>2. stage \in StageRecord /\ stage.dispatch = "none"
    BY DEF Sales!SalesInit, StageRecord
  <2> QED BY <1>6, <2>1, <2>2 DEF ToolsHold, Sales!AllIn
<1>8. ParentHolds /\ HoldAddsUp
  BY <1>3 DEF Sales!SalesInit, ParentHolds, HoldAddsUp
<1>9. NoDoubt(steps, tools)
  BY <1>3, <1>6 DEF NoDoubt, DoubtSteps, DoubtTools, Sales!InDoubt
<1>10. Sales!Active(steps, tools) <= Sales!MaxConcurrency
  BY <1>9, DoubtIsCounted DEF Sales!MaxConcurrency
<1> QED BY <1>1, <1>4, <1>7, <1>8, <1>9, <1>10 DEF SalesInv

LEMMA SalesStep == SalesInv /\ [Sales!SalesNext]_salesVars => SalesInv'
<1> SUFFICES ASSUME SalesInv, [Sales!SalesNext]_salesVars PROVE SalesInv'
  OBVIOUS
<1>1. CASE Sales!FollowUp \/ Sales!ApproveStep
  BY <1>1, IntakeMoved
<1>2. CASE Sales!AdmitStep
  BY <1>2, Admitted
<1>3. CASE Sales!CancelTask
  BY <1>3, TaskCancelled
<1>4. CASE Sales!SaveOutput
  BY <1>4, OutputSaved
<1>5. CASE Sales!ConfirmQuote
  BY <1>5, QuoteConfirmed
<1>6. CASE Sales!ToolClaimInDoubt
  BY <1>6, DoubtFound
<1>7. CASE Sales!ToolClaimRefused \/ Sales!CancelReceipt
  BY <1>7, StageStopped
<1>8. ASSUME NEW s \in Sections,
             \/ Sales!ClaimStep(s) \/ Sales!RefuseStep(s) \/ Sales!SendStep(s) \/ Sales!CrashStep(s)
             \/ Sales!PersistResult(s) \/ Sales!PersistUnsubmitted(s) \/ Sales!RecoverStep(s) \/ Sales!RecordEvidence(s)
      PROVE  SalesInv'
  BY <1>8, StepClaimed, StepRefused, CallMoved, ResultPersisted, UnsubmittedPersisted, StepRecovered,
     EvidenceRecorded
<1>9. ASSUME NEW i \in Sales!ToolIds,
             \/ Sales!ToolClaim(i) \/ Sales!ToolSend(i) \/ Sales!ToolAnswer(i) \/ Sales!ToolNonaccepted(i)
             \/ Sales!ToolLost(i) \/ Sales!CrashTool(i) \/ Sales!ReconcileXverum(i)
      PROVE  SalesInv'
  BY <1>9, ToolClaimed, ToolSent, ToolAnswered, ToolRefused, ToolMissing, ToolCrashed, ToolReconciled
<1>10. ASSUME NEW bills \in SUBSET Sections, Sales!ReconcileParent(bills) PROVE SalesInv'
  BY <1>10, ParentReconciled
<1>11. CASE UNCHANGED salesVars
  BY <1>11 DEF salesVars, SalesInv, TaskTypes, ParentHolds, HoldAddsUp, BilledSteps, ListedSteps, Sales!Unused,
     NoDoubt, DoubtSteps, DoubtTools, Sales!Active, ToolsHold, Sales!AllIn, StepsHold
<1> QED BY <1>1, <1>2, <1>3, <1>4, <1>5, <1>6, <1>7, <1>8, <1>9, <1>10, <1>11 DEF Sales!SalesNext

\* What may still be billed is neither billed nor listed as unused.
LEMMA SalesIsTrue == SalesInv => Sales!LiabilityIsHeld
<1> SUFFICES ASSUME SalesInv PROVE Sales!LiabilityIsHeld
  OBVIOUS
<1>1. Sales!BoundedCalls
  BY DEF SalesInv, ToolsHold, ToolRecord, Sales!BoundedCalls
<1>2. Sales!DeletableIsSettled
  BY DoubtIsCounted DEF SalesInv, Sales!DeletableIsSettled
<1>3. stage.dispatch = "cancelled" => \A i \in Sales!ToolIds : tools[i].accepted = 0
  BY DEF SalesInv, ToolsHold, ToolHolds, Sales!AllIn
<1>4. PICK owed : owed = {s \in Sections : steps[s].call # "none" /\ ~steps[s].unsubmitted
                                              /\ steps[s].evidence # "settled"}
  OBVIOUS
<1>5. ASSUME \A s \in Sections : ~(steps[s].evidence = "settled" /\ steps[s].unsubmitted)
      PROVE  hold.remaining >= Cardinality(owed)
  <2>1. \A s \in Sections : StepHolds(steps[s])
    BY DEF SalesInv, StepsHold
  <2>2. hold.remaining \in Nat
    BY DEF SalesInv, TaskTypes
  <2>3. CASE ~parent.admitted
    <3>1. owed = {}
      BY <1>4, <2>1, <2>3 DEF SalesInv, ParentHolds, StepHolds
    <3> QED BY <2>2, <3>1, FS_EmptySet
  <2>4. CASE parent.released
    <3>1. owed = {}
      BY <1>4, <2>4 DEF SalesInv, HoldAddsUp, Sales!Unused
    <3> QED BY <2>2, <3>1, FS_EmptySet
  <2>5. CASE parent.admitted /\ ~parent.released
    <3>1. hold.remaining + Cardinality(BilledSteps) + Cardinality(ListedSteps) = Cardinality(Sections)
      BY <2>5 DEF SalesInv, HoldAddsUp
    <3>2. /\ BilledSteps \cap ListedSteps = {}
          /\ (BilledSteps \cup ListedSteps) \cap owed = {}
      BY <1>4, <1>5, <2>1 DEF StepHolds, BilledSteps, ListedSteps
    <3>3. /\ IsFiniteSet(BilledSteps) /\ IsFiniteSet(ListedSteps) /\ IsFiniteSet(owed)
      BY <1>4, SalesAssumption, FS_Subset DEF BilledSteps, ListedSteps
    <3>4. /\ IsFiniteSet(BilledSteps \cup ListedSteps)
          /\ Cardinality(BilledSteps \cup ListedSteps) = Cardinality(BilledSteps) + Cardinality(ListedSteps)
      <4>1. IsFiniteSet(BilledSteps \cup ListedSteps)
        BY <3>3, FS_Union
      <4>2. Cardinality(BilledSteps \cup ListedSteps)
              = Cardinality(BilledSteps) + Cardinality(ListedSteps) - Cardinality(BilledSteps \cap ListedSteps)
        BY <3>3, FS_Union
      <4>3. Cardinality(BilledSteps \cap ListedSteps) = 0
        BY <3>2, FS_EmptySet
      <4>4. Cardinality(BilledSteps) \in Nat /\ Cardinality(ListedSteps) \in Nat
        BY <3>3, FS_CardinalityType
      <4> QED BY <4>1, <4>2, <4>3, <4>4
    <3>5. PICK done : done = BilledSteps \cup ListedSteps
      OBVIOUS
    <3>6. Cardinality(done \cup owed) = Cardinality(done) + Cardinality(owed)
      <4>1. Cardinality(done \cup owed) = Cardinality(done) + Cardinality(owed) - Cardinality(done \cap owed)
        BY <3>3, <3>4, <3>5, FS_Union
      <4>2. Cardinality(done \cap owed) = 0
        BY <3>2, <3>5, FS_EmptySet
      <4>3. Cardinality(done) \in Nat /\ Cardinality(owed) \in Nat
        BY <3>3, <3>4, <3>5, FS_CardinalityType
      <4> QED BY <4>1, <4>2, <4>3
    <3>7. Cardinality(done \cup owed) <= Cardinality(Sections)
      <4>1. done \cup owed \subseteq Sections
        BY <1>4, <3>5 DEF BilledSteps, ListedSteps
      <4> QED BY <4>1, SalesAssumption, FS_Subset
    <3>8. /\ Cardinality(BilledSteps) \in Nat /\ Cardinality(ListedSteps) \in Nat
          /\ Cardinality(owed) \in Nat /\ Cardinality(Sections) \in Nat
      BY <3>3, SalesAssumption, FS_CardinalityType
    <3> QED BY <2>2, <3>1, <3>4, <3>5, <3>6, <3>7, <3>8
  <2> QED BY <2>3, <2>4, <2>5
<1>6. Sales!HoldsCoverLiability
  BY <1>3, <1>4, <1>5, SalesCardinality DEF Sales!HoldsCoverLiability
<1> QED BY <1>1, <1>2, <1>6 DEF Sales!LiabilityIsHeld

----------------------------------------------------------------------------
\* Live research, and what its theorem rests on.

VARIABLES plan, units, candidates, usage, gates, slot, hosts
liveVars == <<plan, units, candidates, usage, gates, slot, hosts>>

Live == INSTANCE LiveResearch WITH
    MaxChanges <- 1

\* The records of a unit, of a candidate, of the run's counters and of a process.
UnitRecord == [event : {"none", "ready", "dispatched", "done"}, deliveries : Nat,
               operation : {"none", "reserved", "succeeded"} \cup Live!InDoubt,
               receipt : {"none", "prepared", "submitting", "received", "unknown"},
               prepared : Nat, child : {"none", "ready", "dispatched", "done"}, asked : Nat]
CandidateRecord == [intake : BOOLEAN, reviewed : BOOLEAN, page : {"none", "prepared", "finished"}]
UsageRecord == [queries : Nat, inFlight : Nat, partial : BOOLEAN]
Steps == {"start", "external", "claim", "call", "answered", "finalize", "status", "intake", "pages", "fetch"}
BusyHost == [at : Steps, unit : Live!Calls, generation : Nat,
             answer : {"none", "received", "unknown", "accepted"}, page : Live!Queries]

\* A child is queued only for an operation that was prepared.
UnitHolds(r) == r.child # "none" => r.operation # "none"
UnitsHold(us) == us \in [Live!Calls -> UnitRecord] /\ \A u \in Live!Calls : UnitHolds(us[u])

\* A process that goes on after its claim has a prepared operation, and one
\* that fetches a page holds the only claim of it.
HostHolds(r, us, cs) ==
    /\ r.at \in {"claim", "call", "answered", "finalize", "status"} => us[r.unit].operation # "none"
    /\ r.at = "answered" => r.answer \in {"received", "unknown"}
    /\ r.at = "finalize" => r.answer \in {"accepted", "unknown"}
    /\ r.at = "fetch" => cs[r.page].page = "prepared"
HostsHold(hs, us, cs) ==
    /\ hs \in [Hosts -> BusyHost \cup {Live!IdleHost}]
    /\ \A h \in Hosts : HostHolds(hs[h], us, cs)
    /\ \A g, h \in Hosts : hs[g].at = "fetch" /\ hs[h].at = "fetch" /\ hs[g].page = hs[h].page => g = h

OpenSearches(us, cs) == {q \in Live!Queries : us[<<"search", q>>].operation # "none" /\ ~cs[q].intake}
OpenPages(cs) == {q \in Live!Queries : cs[q].page = "prepared"}
InFlightHolds(us, cs, flight) == Cardinality(OpenSearches(us, cs)) + Cardinality(OpenPages(cs)) <= flight

LiveHolds(us, cs, ug, hs) ==
    /\ UnitsHold(us)
    /\ cs \in [Live!Queries -> CandidateRecord]
    /\ ug \in UsageRecord
    /\ HostsHold(hs, us, cs)
    /\ InFlightHolds(us, cs, ug.inFlight)
LiveInv == plan \in Nat /\ LiveHolds(units, candidates, usage, hosts)

\* The cardinality of LiveResearch is the one of the theorems on finite sets.
LEMMA LiveCardinality == \A S : Live!Cardinality(S) = Cardinality(S)
BY DEF Live!Cardinality, Cardinality

\* How many searches and pages are open, one more or one fewer.
LEMMA OpenIsFinite ==
    ASSUME plan \in Nat, NEW us, NEW cs
    PROVE  /\ IsFiniteSet(OpenSearches(us, cs)) /\ Cardinality(OpenSearches(us, cs)) \in Nat
           /\ IsFiniteSet(OpenPages(cs)) /\ Cardinality(OpenPages(cs)) \in Nat
<1>1. IsFiniteSet(Live!Queries)
  BY FS_Interval DEF Live!Queries
<1>2. OpenSearches(us, cs) \subseteq Live!Queries /\ OpenPages(cs) \subseteq Live!Queries
  BY DEF OpenSearches, OpenPages
<1> QED BY <1>1, <1>2, FS_Subset, FS_CardinalityType

\* Nothing opened or closed.
SameOpen(us, cs, us2, cs2) ==
    \A q \in Live!Queries : /\ us2[<<"search", q>>].operation # "none" /\ ~cs2[q].intake
                             <=> us[<<"search", q>>].operation # "none" /\ ~cs[q].intake
                            /\ cs2[q].page = "prepared" <=> cs[q].page = "prepared"

LEMMA NothingOpened ==
    ASSUME NEW us, NEW cs, NEW us2, NEW cs2, NEW flight, InFlightHolds(us, cs, flight),
           SameOpen(us, cs, us2, cs2)
    PROVE  InFlightHolds(us2, cs2, flight)
<1>1. OpenSearches(us2, cs2) = OpenSearches(us, cs) /\ OpenPages(cs2) = OpenPages(cs)
  BY DEF SameOpen, OpenSearches, OpenPages
<1> QED BY <1>1 DEF InFlightHolds

\* One more is open: a search that was prepared, or a page that was claimed.
LEMMA OneOpened ==
    ASSUME plan \in Nat, NEW us, NEW cs, NEW us2, NEW cs2, NEW flight \in Nat,
           InFlightHolds(us, cs, flight), NEW q \in Live!Queries,
           \/ /\ OpenSearches(us2, cs2) = OpenSearches(us, cs) \cup {q}
              /\ OpenPages(cs2) = OpenPages(cs)
           \/ /\ OpenSearches(us2, cs2) = OpenSearches(us, cs)
              /\ OpenPages(cs2) = OpenPages(cs) \cup {q}
    PROVE  InFlightHolds(us2, cs2, flight + 1)
<1>1. /\ IsFiniteSet(OpenSearches(us, cs)) /\ Cardinality(OpenSearches(us, cs)) \in Nat
      /\ IsFiniteSet(OpenPages(cs)) /\ Cardinality(OpenPages(cs)) \in Nat
  BY OpenIsFinite
<1>2. Cardinality(OpenSearches(us, cs) \cup {q}) <= Cardinality(OpenSearches(us, cs)) + 1
  <2>1. IsFiniteSet(OpenSearches(us, cs))
    BY <1>1
  <2>2. Cardinality(OpenSearches(us, cs) \cup {q}) =
           IF q \in OpenSearches(us, cs) THEN Cardinality(OpenSearches(us, cs))
           ELSE Cardinality(OpenSearches(us, cs)) + 1
    BY <2>1, FS_AddElement
  <2> QED BY <1>1, <2>2
<1>3. Cardinality(OpenPages(cs) \cup {q}) <= Cardinality(OpenPages(cs)) + 1
  <2>1. IsFiniteSet(OpenPages(cs))
    BY <1>1
  <2>2. Cardinality(OpenPages(cs) \cup {q}) =
           IF q \in OpenPages(cs) THEN Cardinality(OpenPages(cs)) ELSE Cardinality(OpenPages(cs)) + 1
    BY <2>1, FS_AddElement
  <2> QED BY <1>1, <2>2
<1>4. /\ Cardinality(OpenSearches(us2, cs2)) \in Nat /\ Cardinality(OpenPages(cs2)) \in Nat
  BY OpenIsFinite
<1>5. CASE OpenSearches(us2, cs2) = OpenSearches(us, cs) \cup {q} /\ OpenPages(cs2) = OpenPages(cs)
  BY <1>1, <1>2, <1>4, <1>5 DEF InFlightHolds
<1>6. CASE OpenSearches(us2, cs2) = OpenSearches(us, cs) /\ OpenPages(cs2) = OpenPages(cs) \cup {q}
  BY <1>1, <1>3, <1>4, <1>6 DEF InFlightHolds
<1> QED BY <1>5, <1>6

\* One fewer is open: a search that was taken in, or a page that was finished.
LEMMA OneClosed ==
    ASSUME plan \in Nat, NEW us, NEW cs, NEW us2, NEW cs2, NEW flight \in Nat,
           InFlightHolds(us, cs, flight), NEW q \in Live!Queries,
           \/ /\ q \in OpenSearches(us, cs) /\ OpenSearches(us2, cs2) = OpenSearches(us, cs) \ {q}
              /\ OpenPages(cs2) = OpenPages(cs)
           \/ /\ OpenSearches(us2, cs2) = OpenSearches(us, cs)
              /\ q \in OpenPages(cs) /\ OpenPages(cs2) = OpenPages(cs) \ {q}
    PROVE  flight - 1 \in Nat /\ InFlightHolds(us2, cs2, flight - 1)
<1>1. /\ IsFiniteSet(OpenSearches(us, cs)) /\ Cardinality(OpenSearches(us, cs)) \in Nat
      /\ IsFiniteSet(OpenPages(cs)) /\ Cardinality(OpenPages(cs)) \in Nat
  BY OpenIsFinite
<1>2. q \in OpenSearches(us, cs) =>
         Cardinality(OpenSearches(us, cs) \ {q}) = Cardinality(OpenSearches(us, cs)) - 1
  <2>1. IsFiniteSet(OpenSearches(us, cs))
    BY <1>1
  <2> QED BY <2>1, FS_RemoveElement
<1>3. q \in OpenPages(cs) => Cardinality(OpenPages(cs) \ {q}) = Cardinality(OpenPages(cs)) - 1
  <2>1. IsFiniteSet(OpenPages(cs))
    BY <1>1
  <2> QED BY <2>1, FS_RemoveElement
<1>4. /\ Cardinality(OpenSearches(us2, cs2)) \in Nat /\ Cardinality(OpenPages(cs2)) \in Nat
  BY OpenIsFinite
<1>5. CASE /\ q \in OpenSearches(us, cs) /\ OpenSearches(us2, cs2) = OpenSearches(us, cs) \ {q}
           /\ OpenPages(cs2) = OpenPages(cs)
  BY <1>1, <1>2, <1>4, <1>5 DEF InFlightHolds
<1>6. CASE /\ OpenSearches(us2, cs2) = OpenSearches(us, cs)
           /\ q \in OpenPages(cs) /\ OpenPages(cs2) = OpenPages(cs) \ {q}
  BY <1>1, <1>3, <1>4, <1>6 DEF InFlightHolds
<1> QED BY <1>5, <1>6

\* A unit is replaced by another that keeps what was prepared.
UnitsMove(us, us2) ==
    /\ UnitsHold(us2)
    /\ \A u \in Live!Calls : us2[u].operation # "none" <=> us[u].operation # "none"

LEMMA UnitMoved ==
    ASSUME UnitsHold(units), NEW u \in Live!Calls, NEW r \in UnitRecord, UnitHolds(r),
           r.operation # "none" <=> units[u].operation # "none"
    PROVE  UnitsMove(units, [units EXCEPT ![u] = r])
BY DEF UnitsHold, UnitsMove

\* A process goes on, and what the others rely on is still there.
LEMMA HostMoved ==
    ASSUME HostsHold(hosts, units, candidates), NEW us2, NEW cs2,
           \A u \in Live!Calls : units[u].operation # "none" => us2[u].operation # "none",
           NEW h \in Hosts, NEW r \in BusyHost \cup {Live!IdleHost}, HostHolds(r, us2, cs2),
           \A g \in Hosts \ {h} : hosts[g].at = "fetch" =>
              /\ cs2[hosts[g].page].page = "prepared"
              /\ r.at = "fetch" => hosts[g].page # r.page
    PROVE  HostsHold([hosts EXCEPT ![h] = r], us2, cs2)
<1> DEFINE hs2 == [hosts EXCEPT ![h] = r]
<1>1. hs2 \in [Hosts -> BusyHost \cup {Live!IdleHost}]
  BY DEF HostsHold
<1>2. hs2[h] = r /\ \A g \in Hosts \ {h} : hs2[g] = hosts[g]
  BY DEF HostsHold
<1>3. ASSUME NEW g \in Hosts \ {h} PROVE HostHolds(hosts[g], us2, cs2)
  <2>1. HostHolds(hosts[g], units, candidates)
    BY DEF HostsHold
  <2>2. hosts[g] \in BusyHost \/ hosts[g].at = "idle"
    BY DEF HostsHold, Live!IdleHost
  <2>3. hosts[g] \in BusyHost => hosts[g].unit \in Live!Calls
    BY DEF BusyHost
  <2> QED BY <2>1, <2>2, <2>3 DEF HostHolds
<1>4. \A g \in Hosts : HostHolds(hs2[g], us2, cs2)
  BY <1>2, <1>3
<1>5. \A f, g \in Hosts : hs2[f].at = "fetch" /\ hs2[g].at = "fetch" /\ hs2[f].page = hs2[g].page => f = g
  BY <1>2 DEF HostsHold
<1> HIDE DEF hs2
<1>6. HostsHold(hs2, us2, cs2)
  BY <1>1, <1>4, <1>5 DEF HostsHold
<1> QED BY <1>6 DEF hs2

\* The same when it is not about to fetch a page and the candidates stay.
LEMMA HostGone ==
    ASSUME HostsHold(hosts, units, candidates), NEW us2, 
           \A u \in Live!Calls : units[u].operation # "none" => us2[u].operation # "none",
           NEW h \in Hosts, NEW r \in BusyHost \cup {Live!IdleHost}, HostHolds(r, us2, candidates),
           r.at # "fetch"
    PROVE  HostsHold([hosts EXCEPT ![h] = r], us2, candidates)
<1>1. \A g \in Hosts : hosts[g].at = "fetch" => candidates[hosts[g].page].page = "prepared"
  BY DEF HostsHold, HostHolds
<1> QED BY <1>1, HostMoved

\* No process moves.
LEMMA HostsWait ==
    ASSUME HostsHold(hosts, units, candidates), NEW us2, NEW cs2,
           \A u \in Live!Calls : units[u].operation # "none" => us2[u].operation # "none",
           \A q \in Live!Queries : candidates[q].page = "prepared" => cs2[q].page = "prepared"
    PROVE  HostsHold(hosts, us2, cs2)
<1>1. ASSUME NEW g \in Hosts PROVE HostHolds(hosts[g], us2, cs2)
  <2>1. HostHolds(hosts[g], units, candidates)
    BY DEF HostsHold
  <2>2. hosts[g] \in BusyHost \/ hosts[g].at = "idle"
    BY DEF HostsHold, Live!IdleHost
  <2>3. hosts[g] \in BusyHost => hosts[g].unit \in Live!Calls /\ hosts[g].page \in Live!Queries
    BY DEF BusyHost
  <2> QED BY <2>1, <2>2, <2>3 DEF HostHolds
<1> QED BY <1>1 DEF HostsHold

\* A busy process is at one of the steps of its unit, and may go to any.
LEMMA BusyIsTyped ==
    ASSUME HostsHold(hosts, units, candidates), NEW h \in Hosts, hosts[h].at # "idle"
    PROVE  /\ hosts[h] \in BusyHost /\ hosts[h].unit \in Live!Calls /\ hosts[h].page \in Live!Queries
           /\ hosts[h].answer \in {"none", "received", "unknown", "accepted"}
BY DEF HostsHold, Live!IdleHost, BusyHost

LEMMA BusyGoes ==
    \A r \in BusyHost, at \in Steps :
       /\ [r EXCEPT !.at = at] \in BusyHost
       /\ [r EXCEPT !.at = at].at = at
       /\ [r EXCEPT !.at = at].unit = r.unit
       /\ [r EXCEPT !.at = at].answer = r.answer
       /\ [r EXCEPT !.at = at].page = r.page
BY DEF BusyHost

Answered(r, at, answer) == [r EXCEPT !.at = at, !.answer = answer]
LEMMA BusyAnswers ==
    \A r \in BusyHost, at \in Steps, answer \in {"received", "unknown", "accepted"} :
       /\ Answered(r, at, answer) \in BusyHost
       /\ Answered(r, at, answer).at = at
       /\ Answered(r, at, answer).unit = r.unit
       /\ Answered(r, at, answer).answer = answer
BY DEF BusyHost, Answered

\* What a step makes of the record of a unit.
LEMMA UnitFields ==
    \A r \in UnitRecord :
       /\ \A n \in Nat : LET d == [r EXCEPT !.event = "dispatched", !.deliveries = n] IN
             d \in UnitRecord /\ d.operation = r.operation /\ d.child = r.child
       /\ \A n \in Nat : LET d == [r EXCEPT !.asked = n] IN
             d \in UnitRecord /\ d.operation = r.operation /\ d.child = r.child
       /\ \A e \in {"none", "ready", "dispatched", "done"} : LET d == [r EXCEPT !.event = e] IN
             d \in UnitRecord /\ d.operation = r.operation /\ d.child = r.child
       /\ \A c \in {"ready", "dispatched"} : LET d == [r EXCEPT !.child = c] IN
             d \in UnitRecord /\ d.operation = r.operation /\ d.child = c
       /\ \A a \in {"submitting", "received", "unknown"} : LET d == [r EXCEPT !.receipt = a] IN
             d \in UnitRecord /\ d.operation = r.operation /\ d.child = r.child
<1> SUFFICES ASSUME NEW r \in UnitRecord
    PROVE  /\ \A n \in Nat : LET d == [r EXCEPT !.event = "dispatched", !.deliveries = n] IN
                 d \in UnitRecord /\ d.operation = r.operation /\ d.child = r.child
           /\ \A n \in Nat : LET d == [r EXCEPT !.asked = n] IN
                 d \in UnitRecord /\ d.operation = r.operation /\ d.child = r.child
           /\ \A e \in {"none", "ready", "dispatched", "done"} : LET d == [r EXCEPT !.event = e] IN
                 d \in UnitRecord /\ d.operation = r.operation /\ d.child = r.child
           /\ \A c \in {"ready", "dispatched"} : LET d == [r EXCEPT !.child = c] IN
                 d \in UnitRecord /\ d.operation = r.operation /\ d.child = c
           /\ \A a \in {"submitting", "received", "unknown"} : LET d == [r EXCEPT !.receipt = a] IN
                 d \in UnitRecord /\ d.operation = r.operation /\ d.child = r.child
  OBVIOUS
<1>1. ASSUME NEW n \in Nat, NEW d, d = [r EXCEPT !.event = "dispatched", !.deliveries = n]
      PROVE  d \in UnitRecord /\ d.operation = r.operation /\ d.child = r.child
  BY <1>1 DEF UnitRecord
<1>2. ASSUME NEW n \in Nat, NEW d, d = [r EXCEPT !.asked = n]
      PROVE  d \in UnitRecord /\ d.operation = r.operation /\ d.child = r.child
  BY <1>2 DEF UnitRecord
<1>3. ASSUME NEW e \in {"none", "ready", "dispatched", "done"}, NEW d, d = [r EXCEPT !.event = e]
      PROVE  d \in UnitRecord /\ d.operation = r.operation /\ d.child = r.child
  BY <1>3 DEF UnitRecord
<1>4. ASSUME NEW c \in {"ready", "dispatched"}, NEW d, d = [r EXCEPT !.child = c]
      PROVE  d \in UnitRecord /\ d.operation = r.operation /\ d.child = c
  BY <1>4 DEF UnitRecord
<1>5. ASSUME NEW a \in {"submitting", "received", "unknown"}, NEW d, d = [r EXCEPT !.receipt = a]
      PROVE  d \in UnitRecord /\ d.operation = r.operation /\ d.child = r.child
  BY <1>5 DEF UnitRecord
<1> QED BY <1>1, <1>2, <1>3, <1>4, <1>5

LEMMA UnitOperates ==
    \A r \in UnitRecord, o \in {"succeeded", "submitting", "accepted", "unknown"} :
       /\ LET d == [r EXCEPT !.operation = o] IN d \in UnitRecord /\ d.operation = o /\ d.child = r.child
       /\ LET d == [r EXCEPT !.operation = o, !.child = "done"] IN d \in UnitRecord /\ d.operation = o
<1> SUFFICES ASSUME NEW r \in UnitRecord,
                    NEW o \in {"succeeded", "submitting", "accepted", "unknown"}
    PROVE  /\ LET d == [r EXCEPT !.operation = o] IN
                d \in UnitRecord /\ d.operation = o /\ d.child = r.child
           /\ LET d == [r EXCEPT !.operation = o, !.child = "done"] IN
                d \in UnitRecord /\ d.operation = o
  OBVIOUS
<1>1. ASSUME NEW d, d = [r EXCEPT !.operation = o]
      PROVE  d \in UnitRecord /\ d.operation = o /\ d.child = r.child
  BY <1>1 DEF UnitRecord, Live!InDoubt
<1>2. ASSUME NEW d, d = [r EXCEPT !.operation = o, !.child = "done"]
      PROVE  d \in UnitRecord /\ d.operation = o
  BY <1>2 DEF UnitRecord, Live!InDoubt
<1> QED BY <1>1, <1>2

LEMMA UnitDoubted ==
    \A r \in UnitRecord : r.operation \in Live!InDoubt =>
       Live!Doubted(r) \in UnitRecord /\ Live!Doubted(r).operation # "none"
BY DEF UnitRecord, Live!Doubted, Live!InDoubt

LEMMA UnitQueued ==
    \A r \in UnitRecord : Live!Queued(r) \in UnitRecord /\ Live!Queued(r).operation = r.operation
<1> SUFFICES ASSUME NEW r \in UnitRecord
             PROVE  Live!Queued(r) \in UnitRecord /\ Live!Queued(r).operation = r.operation
  OBVIOUS
<1>1. PICK c : c = IF r.child = "none" THEN "ready" ELSE r.child
  OBVIOUS
<1>2. c \in {"none", "ready", "dispatched", "done"}
  BY <1>1 DEF UnitRecord
<1>3. PICK d : d = [r EXCEPT !.event = "done", !.child = c]
  OBVIOUS
<1>4. Live!Queued(r) = d
  BY <1>1, <1>3 DEF Live!Queued
<1>5. d \in UnitRecord /\ d.operation = r.operation
  BY <1>2, <1>3 DEF UnitRecord
<1> QED BY <1>4, <1>5

LEMMA UnitPrepared ==
    \A r \in UnitRecord : Live!Fresh(r) \in UnitRecord /\ Live!Fresh(r).operation = "reserved"
BY DEF UnitRecord, Live!Fresh

\* A step of a process that prepares nothing, takes nothing in and claims no page.
LEMMA QuietStep ==
    ASSUME LiveInv, NEW us2, UnitsMove(units, us2), NEW h \in Hosts,
           NEW r \in BusyHost \cup {Live!IdleHost}, HostHolds(r, us2, candidates), r.at # "fetch"
    PROVE  LiveHolds(us2, candidates, usage, [hosts EXCEPT ![h] = r])
<1>1. HostsHold([hosts EXCEPT ![h] = r], us2, candidates)
  <2>1. HostsHold(hosts, units, candidates)
    BY DEF LiveInv, LiveHolds
  <2>2. \A u \in Live!Calls : units[u].operation # "none" => us2[u].operation # "none"
    BY DEF UnitsMove
  <2> QED BY <2>1, <2>2, HostGone
<1>2. InFlightHolds(us2, candidates, usage.inFlight)
  <2>1. \A q \in Live!Queries : <<"search", q>> \in Live!Calls
    BY DEF Live!Calls
  <2>2. SameOpen(units, candidates, us2, candidates)
    BY <2>1 DEF SameOpen, UnitsMove
  <2> QED BY <2>2, NothingOpened DEF LiveInv, LiveHolds
<1> QED BY <1>1, <1>2 DEF LiveInv, LiveHolds, UnitsMove

\* A step outside the processes.
LEMMA QuietUnits ==
    ASSUME LiveInv, NEW us2, UnitsMove(units, us2)
    PROVE  LiveHolds(us2, candidates, usage, hosts)
<1>1. HostsHold(hosts, us2, candidates)
  <2>1. HostsHold(hosts, units, candidates)
    BY DEF LiveInv, LiveHolds
  <2>2. \A u \in Live!Calls : units[u].operation # "none" => us2[u].operation # "none"
    BY DEF UnitsMove
  <2> QED BY <2>1, <2>2, HostsWait
<1>2. InFlightHolds(us2, candidates, usage.inFlight)
  <2>1. \A q \in Live!Queries : <<"search", q>> \in Live!Calls
    BY DEF Live!Calls
  <2>2. SameOpen(units, candidates, us2, candidates)
    BY <2>1 DEF SameOpen, UnitsMove
  <2> QED BY <2>2, NothingOpened DEF LiveInv, LiveHolds
<1> QED BY <1>1, <1>2 DEF LiveInv, LiveHolds, UnitsMove

LEMMA NoUnitMoves == LiveInv => UnitsMove(units, units)
BY DEF LiveInv, LiveHolds, UnitsMove

LEMMA IdleHolds == \A us, cs : Live!IdleHost \in BusyHost \cup {Live!IdleHost} /\ HostHolds(Live!IdleHost, us, cs) /\ Live!IdleHost.at # "fetch"
BY DEF Live!IdleHost, HostHolds

LEMMA UnitIsTyped ==
    ASSUME LiveInv, NEW u \in Live!Calls
    PROVE  units[u] \in UnitRecord /\ UnitHolds(units[u]) /\ UnitsHold(units)
           /\ units[u].deliveries \in Nat /\ units[u].asked \in Nat /\ Live!Query(u) \in Live!Queries
<1>1. Live!Query(u) \in Live!Queries
  BY DEF Live!Calls, Live!Query, Live!Reviewable
<1> QED BY <1>1 DEF LiveInv, LiveHolds, UnitsHold, UnitRecord

LEMMA HostIsTyped ==
    ASSUME LiveInv, NEW h \in Hosts, hosts[h].at # "idle"
    PROVE  /\ hosts[h] \in BusyHost /\ hosts[h].unit \in Live!Calls /\ hosts[h].page \in Live!Queries
           /\ hosts[h].answer \in {"none", "received", "unknown", "accepted"}
           /\ HostHolds(hosts[h], units, candidates)
<1>1. HostsHold(hosts, units, candidates)
  BY DEF LiveInv, LiveHolds
<1>2. HostHolds(hosts[h], units, candidates)
  BY <1>1 DEF HostsHold
<1> QED BY <1>1, <1>2, BusyIsTyped

\* A process leaves: nothing it holds is undone.
LEMMA HostLeaves ==
    ASSUME LiveInv, NEW us2, UnitsMove(units, us2), NEW h \in Hosts, units' = us2,
           candidates' = candidates, usage' = usage, Live!Leaves(h)
    PROVE  LiveHolds(units', candidates', usage', hosts')
<1>1. hosts' = [hosts EXCEPT ![h] = Live!IdleHost]
  BY DEF Live!Leaves
<1>2. LiveHolds(us2, candidates, usage, [hosts EXCEPT ![h] = Live!IdleHost])
  BY IdleHolds, QuietStep
<1> QED BY <1>1, <1>2

\* A process goes on to a step that relies on nothing new.
LEMMA HostGoes ==
    ASSUME LiveInv, NEW us2, UnitsMove(units, us2), NEW h \in Hosts, units' = us2,
           candidates' = candidates, usage' = usage, hosts[h].at # "idle",
           NEW at \in {"external", "claim", "call", "intake", "pages"}, Live!Goes(h, at),
           at \in {"claim", "call"} => units[hosts[h].unit].operation # "none"
    PROVE  LiveHolds(units', candidates', usage', hosts')
<1>1. PICK r : r = [hosts[h] EXCEPT !.at = at]
  OBVIOUS
<1>2. hosts[h] \in BusyHost /\ hosts[h].unit \in Live!Calls
  BY HostIsTyped
<1>3. at \in Steps
  BY DEF Steps
<1>4. r \in BusyHost /\ r.at = at /\ r.unit = hosts[h].unit
  BY <1>1, <1>2, <1>3, BusyGoes
<1>5. us2[hosts[h].unit].operation # "none" <=> units[hosts[h].unit].operation # "none"
  BY <1>2 DEF UnitsMove
<1>6. HostHolds(r, us2, candidates) /\ r.at # "fetch"
  BY <1>4, <1>5 DEF HostHolds
<1>7. hosts' = [hosts EXCEPT ![h] = r]
  BY <1>1 DEF Live!Goes
<1>8. LiveHolds(us2, candidates, usage, [hosts EXCEPT ![h] = r])
  BY <1>4, <1>6, QuietStep
<1> QED BY <1>7, <1>8

LEMMA Delivered ==
    ASSUME LiveInv, NEW h \in Hosts, NEW u \in Live!Calls, Live!Deliver(h, u)
    PROVE  LiveHolds(units', candidates', usage', hosts')
<1>1. PICK d : d = [units[u] EXCEPT !.event = "dispatched", !.deliveries = units[u].deliveries + 1]
  OBVIOUS
<1>2. units[u] \in UnitRecord /\ UnitHolds(units[u]) /\ UnitsHold(units) /\ units[u].deliveries \in Nat
      /\ Live!Query(u) \in Live!Queries
  BY UnitIsTyped
<1>3. units[u].deliveries + 1 \in Nat
  BY <1>2
<1>4. d \in UnitRecord /\ d.operation = units[u].operation /\ d.child = units[u].child
  BY <1>1, <1>2, <1>3, UnitFields
<1>5. units' = [units EXCEPT ![u] = d]
  BY <1>1 DEF Live!Deliver
<1>6. UnitsMove(units, units')
  BY <1>2, <1>4, <1>5, UnitMoved DEF UnitHolds
<1>7. PICK r : r = [at |-> "start", unit |-> u, generation |-> units'[u].deliveries, answer |-> "none",
                    page |-> Live!Query(u)]
  OBVIOUS
<1>8. units'[u].deliveries \in Nat
  BY <1>6 DEF UnitsMove, UnitsHold, UnitRecord
<1>9. r \in BusyHost /\ r.at = "start"
  BY <1>2, <1>7, <1>8 DEF BusyHost, Steps
<1>10. HostHolds(r, units', candidates) /\ r.at # "fetch"
  BY <1>9 DEF HostHolds
<1>11. hosts' = [hosts EXCEPT ![h] = r] /\ candidates' = candidates /\ usage' = usage
  BY <1>7 DEF Live!Deliver
<1> QED BY <1>6, <1>9, <1>10, <1>11, QuietStep

LEMMA ChildDelivered ==
    ASSUME LiveInv, NEW h \in Hosts, NEW u \in Live!Calls, Live!DeliverChild(h, u)
    PROVE  LiveHolds(units', candidates', usage', hosts')
<1>1. PICK d : d = [units[u] EXCEPT !.child = "dispatched"]
  OBVIOUS
<1>2. units[u] \in UnitRecord /\ UnitHolds(units[u]) /\ UnitsHold(units) /\ Live!Query(u) \in Live!Queries
  BY UnitIsTyped
<1>3. units[u].operation # "none"
  BY <1>2 DEF Live!DeliverChild, UnitHolds
<1>4. d \in UnitRecord /\ d.operation = units[u].operation
  BY <1>1, <1>2, UnitFields
<1>5. units' = [units EXCEPT ![u] = d]
  BY <1>1 DEF Live!DeliverChild
<1>6. UnitsMove(units, units')
  BY <1>2, <1>3, <1>4, <1>5, UnitMoved DEF UnitHolds
<1>7. PICK r : r = [at |-> "status", unit |-> u, generation |-> 0, answer |-> "none", page |-> Live!Query(u)]
  OBVIOUS
<1>8. r \in BusyHost /\ r.at = "status" /\ r.unit = u
  BY <1>2, <1>7 DEF BusyHost, Steps
<1>9. units'[u].operation # "none"
  BY <1>3, <1>6 DEF UnitsMove
<1>10. HostHolds(r, units', candidates) /\ r.at # "fetch"
  BY <1>8, <1>9 DEF HostHolds
<1>11. hosts' = [hosts EXCEPT ![h] = r] /\ candidates' = candidates /\ usage' = usage
  BY <1>7 DEF Live!DeliverChild
<1> QED BY <1>6, <1>8, <1>10, <1>11, QuietStep

LEMMA HostAbandons ==
    ASSUME LiveInv, NEW h \in Hosts, Live!Abandon(h) \/ Live!Lapse(h) \/ Live!NoMorePages(h)
    PROVE  LiveHolds(units', candidates', usage', hosts')
<1>1. UnitsMove(units, units)
  BY NoUnitMoves
<1>2. CASE Live!Lapse(h)
  BY <1>2 DEF Live!Lapse, LiveInv
<1>3. CASE Live!Abandon(h)
  BY <1>1, <1>3, HostLeaves DEF Live!Abandon
<1>4. CASE Live!NoMorePages(h)
  BY <1>1, <1>4, HostLeaves DEF Live!NoMorePages
<1> QED BY <1>2, <1>3, <1>4

\* The operation of a call is prepared, or found as a lost delivery left it.
LEMMA CallPrepared ==
    ASSUME LiveInv, NEW h \in Hosts, Live!Prepare(h) \/ Live!ExistingModel(h)
    PROVE  LiveHolds(units', candidates', usage', hosts')
<1>1. PICK u : u = hosts[h].unit
  OBVIOUS
<1>2. hosts[h].at = "start" /\ candidates' = candidates /\ Live!Goes(h, "external")
  BY DEF Live!Prepare, Live!ExistingModel
<1>3. hosts[h] \in BusyHost /\ u \in Live!Calls
  BY <1>1, <1>2, HostIsTyped
<1>4. CASE units' = units /\ usage' = usage
  BY <1>2, <1>4, NoUnitMoves, HostGoes
<1>5. ASSUME units[u].operation = "none", units' = [units EXCEPT ![u] = Live!Fresh(units[u])],
             usage' = [usage EXCEPT !.inFlight = @ + 1,
                                    !.queries = IF Live!Kind(u) = "search" THEN @ + 1 ELSE @]
      PROVE  LiveHolds(units', candidates', usage', hosts')
  <2>1. units[u] \in UnitRecord /\ UnitsHold(units)
    BY <1>3, UnitIsTyped
  <2>2. Live!Fresh(units[u]) \in UnitRecord /\ Live!Fresh(units[u]).operation = "reserved"
    BY <2>1, UnitPrepared
  <2>3. units'[u].operation = "reserved" /\ \A v \in Live!Calls \ {u} : units'[v] = units[v]
    BY <1>3, <1>5, <2>1, <2>2 DEF UnitsHold
  <2>4. UnitsHold(units')
    <3>1. units' \in [Live!Calls -> UnitRecord]
      BY <1>3, <1>5, <2>1, <2>2 DEF UnitsHold
    <3>2. \A v \in Live!Calls : UnitHolds(units'[v])
      BY <2>1, <2>3 DEF UnitsHold, UnitHolds
    <3> QED BY <3>1, <3>2 DEF UnitsHold
  <2>5. HostsHold(hosts', units', candidates)
    <3>1. PICK r : r = [hosts[h] EXCEPT !.at = "external"]
      OBVIOUS
    <3>2. r \in BusyHost /\ r.at = "external"
      BY <1>3, <3>1, BusyGoes DEF Steps
    <3>3. HostHolds(r, units', candidates) /\ r.at # "fetch"
      BY <3>2 DEF HostHolds
    <3>4. \A v \in Live!Calls : units[v].operation # "none" => units'[v].operation # "none"
      BY <2>3
    <3>5. HostsHold(hosts, units, candidates)
      BY DEF LiveInv, LiveHolds
    <3>6. HostsHold([hosts EXCEPT ![h] = r], units', candidates)
      BY <3>2, <3>3, <3>4, <3>5, HostGone
    <3> QED BY <1>2, <3>1, <3>6 DEF Live!Goes
  <2>6. usage \in UsageRecord /\ usage.inFlight \in Nat /\ usage.queries \in Nat
    BY DEF LiveInv, LiveHolds, UsageRecord
  <2>7. usage' \in UsageRecord /\ usage'.inFlight = usage.inFlight + 1
    <3>1. PICK n \in Nat, m \in Nat :
             n = usage.inFlight + 1 /\ m = IF Live!Kind(u) = "search" THEN usage.queries + 1 ELSE usage.queries
      BY <2>6
    <3>2. usage' = [usage EXCEPT !.inFlight = n, !.queries = m]
      BY <1>5, <3>1
    <3>3. [usage EXCEPT !.inFlight = n, !.queries = m] \in UsageRecord
      BY <2>6 DEF UsageRecord
    <3>4. [usage EXCEPT !.inFlight = n, !.queries = m].inFlight = n
      BY <2>6 DEF UsageRecord
    <3> QED BY <3>1, <3>2, <3>3, <3>4
  <2>8. InFlightHolds(units, candidates, usage.inFlight) /\ plan \in Nat
    BY DEF LiveInv, LiveHolds
  <2>9. InFlightHolds(units', candidates, usage.inFlight + 1)
    <3>1. \A q \in Live!Queries : <<"search", q>> \in Live!Calls
      BY DEF Live!Calls
    <3>2. \A q \in Live!Queries, v \in Live!Calls : <<"search", q>> = v => q = Live!Query(v) /\ Live!Query(v) \in Live!Queries
      BY DEF Live!Query
    <3>3. OpenPages(candidates) = OpenPages(candidates)
      OBVIOUS
    <3>4. CASE \E q \in Live!Queries : u = <<"search", q>> /\ ~candidates[q].intake
      <4>1. PICK q \in Live!Queries : u = <<"search", q>> /\ ~candidates[q].intake
        BY <3>4
      <4>2. \A p \in Live!Queries : p # q => units'[<<"search", p>>] = units[<<"search", p>>]
        BY <2>3, <3>1, <4>1
      <4>3. OpenSearches(units', candidates) = OpenSearches(units, candidates) \cup {q}
        BY <2>3, <4>1, <4>2 DEF OpenSearches
      <4> QED BY <2>6, <2>8, <4>3, OneOpened
    <3>5. CASE ~ \E q \in Live!Queries : u = <<"search", q>> /\ ~candidates[q].intake
      <4>1. \A q \in Live!Queries : ~candidates[q].intake => units'[<<"search", q>>] = units[<<"search", q>>]
        BY <2>3, <3>1, <3>5
      <4>2. OpenSearches(units', candidates) = OpenSearches(units, candidates)
        BY <4>1 DEF OpenSearches
      <4>3. /\ Cardinality(OpenSearches(units, candidates)) \in Nat
            /\ Cardinality(OpenPages(candidates)) \in Nat
        BY <2>8, OpenIsFinite
      <4> QED BY <2>6, <2>8, <4>2, <4>3 DEF InFlightHolds
    <3> QED BY <3>4, <3>5
  <2> QED BY <1>2, <2>4, <2>5, <2>7, <2>9 DEF LiveHolds, LiveInv
<1> QED BY <1>1, <1>4, <1>5 DEF Live!Prepare, Live!ExistingModel, Live!Unit

LEMMA ExternallyPrepared ==
    ASSUME LiveInv, NEW h \in Hosts, Live!ExternalPrepare(h)
    PROVE  LiveHolds(units', candidates', usage', hosts')
<1>1. PICK u : u = hosts[h].unit
  OBVIOUS
<1>2. hosts[h].at = "external" /\ candidates' = candidates /\ usage' = usage
  BY DEF Live!ExternalPrepare
<1>3. hosts[h] \in BusyHost /\ u \in Live!Calls
  BY <1>1, <1>2, HostIsTyped
<1>4. units[u] \in UnitRecord /\ UnitHolds(units[u]) /\ UnitsHold(units)
  BY <1>3, UnitIsTyped
<1>5. ASSUME units[u].operation = "reserved", units' = [units EXCEPT ![u].operation = "submitting"],
             Live!Goes(h, "claim")
      PROVE  LiveHolds(units', candidates', usage', hosts')
  <2>1. PICK d : d = [units[u] EXCEPT !.operation = "submitting"]
    OBVIOUS
  <2>2. d \in UnitRecord /\ d.operation = "submitting"
    BY <1>4, <2>1, UnitOperates
  <2>3. units' = [units EXCEPT ![u] = d]
    BY <1>5, <2>1
  <2>4. UnitsMove(units, units')
    BY <1>3, <1>4, <1>5, <2>2, <2>3, UnitMoved DEF UnitHolds
  <2> QED BY <1>1, <1>2, <1>5, <2>4, HostGoes
<1>6. ASSUME units[u].operation \in Live!InDoubt, Live!Leaves(h),
             units' = [units EXCEPT ![u] = Live!Queued(Live!Doubted(units[u]))]
      PROVE  LiveHolds(units', candidates', usage', hosts')
  <2>1. PICK d : d = Live!Doubted(units[u])
    OBVIOUS
  <2>2. d \in UnitRecord /\ d.operation # "none"
    BY <1>4, <1>6, <2>1, UnitDoubted
  <2>3. Live!Queued(d) \in UnitRecord /\ Live!Queued(d).operation = d.operation
    BY <2>2, UnitQueued
  <2>4. units' = [units EXCEPT ![u] = Live!Queued(d)]
    BY <1>6, <2>1
  <2>5. units[u].operation # "none"
    BY <1>6 DEF Live!InDoubt
  <2>6. UnitsMove(units, units')
    BY <1>3, <1>4, <2>2, <2>3, <2>4, <2>5, UnitMoved DEF UnitHolds
  <2> QED BY <1>2, <1>6, <2>6, HostLeaves
<1> QED BY <1>1, <1>5, <1>6 DEF Live!ExternalPrepare, Live!Unit

LEMMA CallClaimed ==
    ASSUME LiveInv, NEW h \in Hosts, Live!Claim(h)
    PROVE  LiveHolds(units', candidates', usage', hosts')
<1>1. PICK u : u = hosts[h].unit
  OBVIOUS
<1>2. hosts[h].at = "claim" /\ candidates' = candidates /\ usage' = usage
  BY DEF Live!Claim
<1>3. hosts[h] \in BusyHost /\ u \in Live!Calls /\ HostHolds(hosts[h], units, candidates)
  BY <1>1, <1>2, HostIsTyped
<1>4. units[u] \in UnitRecord /\ UnitHolds(units[u]) /\ UnitsHold(units)
  BY <1>3, UnitIsTyped
<1>5. units[u].operation # "none"
  BY <1>1, <1>2, <1>3 DEF HostHolds
<1>6. ASSUME units' = [units EXCEPT ![u].receipt = "submitting"], Live!Goes(h, "call")
      PROVE  LiveHolds(units', candidates', usage', hosts')
  <2>1. PICK d : d = [units[u] EXCEPT !.receipt = "submitting"]
    OBVIOUS
  <2>2. d \in UnitRecord /\ d.operation = units[u].operation /\ d.child = units[u].child
    BY <1>4, <2>1, UnitFields
  <2>3. units' = [units EXCEPT ![u] = d]
    BY <1>6, <2>1
  <2>4. UnitsMove(units, units')
    BY <1>3, <1>4, <2>2, <2>3, UnitMoved DEF UnitHolds
  <2> QED BY <1>1, <1>2, <1>5, <1>6, <2>4, HostGoes
<1>7. ASSUME units' = units, hosts' = [hosts EXCEPT ![h].at = "finalize", ![h].answer = "unknown"]
      PROVE  LiveHolds(units', candidates', usage', hosts')
  <2>1. PICK r : r = [hosts[h] EXCEPT !.at = "finalize", !.answer = "unknown"]
    OBVIOUS
  <2>2. r \in BusyHost /\ r.at = "finalize" /\ r.unit = u /\ r.answer = "unknown"
    <3>1. PICK at \in Steps, answer \in {"received", "unknown", "accepted"} :
             at = "finalize" /\ answer = "unknown"
      BY DEF Steps
    <3>2. hosts[h] \in BusyHost /\ r = [hosts[h] EXCEPT !.at = at, !.answer = answer]
      BY <1>3, <2>1, <3>1
    <3>3. r \in BusyHost /\ r.at = at /\ r.unit = hosts[h].unit /\ r.answer = answer
      <4>1. r = Answered(hosts[h], at, answer)
        BY <3>2 DEF Answered
      <4> QED BY <3>2, <4>1, BusyAnswers
    <3> QED BY <1>1, <3>1, <3>3
  <2>3. HostHolds(r, units, candidates) /\ r.at # "fetch"
    BY <1>5, <2>2 DEF HostHolds
  <2>4. hosts' = [hosts EXCEPT ![h] = r]
    BY <1>3, <1>7, <2>1 DEF LiveInv, LiveHolds, HostsHold
  <2>5. UnitsMove(units, units)
    BY NoUnitMoves
  <2>6. LiveHolds(units, candidates, usage, [hosts EXCEPT ![h] = r])
    BY <2>2, <2>3, <2>5, QuietStep
  <2> QED BY <1>2, <1>7, <2>4, <2>6
<1> QED BY <1>1, <1>6, <1>7 DEF Live!Claim, Live!Unit

\* The answer goes to the receipt of the unit, and then to its operation.
LEMMA CallAnswered ==
    ASSUME LiveInv, NEW h \in Hosts, NEW answer \in {"received", "unknown"}, Live!Ask(h, answer)
    PROVE  LiveHolds(units', candidates', usage', hosts')
<1>1. PICK u : u = hosts[h].unit
  OBVIOUS
<1>2. hosts[h].at = "call" /\ candidates' = candidates /\ usage' = usage
  BY DEF Live!Ask
<1>3. hosts[h] \in BusyHost /\ u \in Live!Calls /\ HostHolds(hosts[h], units, candidates)
  BY <1>1, <1>2, HostIsTyped
<1>4. units[u] \in UnitRecord /\ UnitHolds(units[u]) /\ UnitsHold(units) /\ units[u].asked \in Nat
  BY <1>3, UnitIsTyped
<1>5. PICK n \in Nat : n = units[u].asked + 1
  BY <1>4
<1>6. PICK d : d = [units[u] EXCEPT !.asked = n]
  OBVIOUS
<1>7. d \in UnitRecord /\ d.operation = units[u].operation /\ d.child = units[u].child
  BY <1>4, <1>6, UnitFields
<1>8. units' = [units EXCEPT ![u] = d]
  BY <1>1, <1>5, <1>6 DEF Live!Ask
<1>9. UnitsMove(units, units')
  BY <1>3, <1>4, <1>7, <1>8, UnitMoved DEF UnitHolds
<1>10. PICK r : r = Answered(hosts[h], "answered", answer)
  OBVIOUS
<1>11. "answered" \in Steps /\ answer \in {"received", "unknown", "accepted"}
  BY DEF Steps
<1>12. r \in BusyHost /\ r.at = "answered" /\ r.unit = u /\ r.answer = answer
  BY <1>1, <1>3, <1>10, <1>11, BusyAnswers
<1>13. units'[u].operation # "none"
  BY <1>1, <1>2, <1>3, <1>9 DEF HostHolds, UnitsMove
<1>14. HostHolds(r, units', candidates) /\ r.at # "fetch"
  BY <1>12, <1>13 DEF HostHolds
<1>15. hosts' = [hosts EXCEPT ![h] = r]
  BY <1>10 DEF Live!Ask, Answered
<1>16. LiveHolds(units', candidates, usage, [hosts EXCEPT ![h] = r])
  BY <1>9, <1>12, <1>14, QuietStep
<1> QED BY <1>2, <1>15, <1>16

LEMMA ReceiptFinished ==
    ASSUME LiveInv, NEW h \in Hosts, Live!FinishReceipt(h)
    PROVE  LiveHolds(units', candidates', usage', hosts')
<1>1. PICK u : u = hosts[h].unit
  OBVIOUS
<1>2. hosts[h].at = "answered" /\ candidates' = candidates /\ usage' = usage
  BY DEF Live!FinishReceipt
<1>3. hosts[h] \in BusyHost /\ u \in Live!Calls /\ HostHolds(hosts[h], units, candidates)
  BY <1>1, <1>2, HostIsTyped
<1>4. units[u] \in UnitRecord /\ UnitHolds(units[u]) /\ UnitsHold(units)
  BY <1>3, UnitIsTyped
<1>5. hosts[h].answer \in {"submitting", "received", "unknown"}
  BY <1>2, <1>3 DEF HostHolds
<1>6. PICK d : d = [units[u] EXCEPT !.receipt = hosts[h].answer]
  OBVIOUS
<1>7. d \in UnitRecord /\ d.operation = units[u].operation /\ d.child = units[u].child
  BY <1>4, <1>5, <1>6, UnitFields
<1>8. units' = [units EXCEPT ![u] = d]
  BY <1>1, <1>6 DEF Live!FinishReceipt
<1>9. UnitsMove(units, units')
  BY <1>3, <1>4, <1>7, <1>8, UnitMoved DEF UnitHolds
<1>10. PICK answer \in {"accepted", "unknown"} :
          answer = IF hosts[h].answer = "received" /\ gates.permitted THEN "accepted" ELSE "unknown"
  OBVIOUS
<1>11. PICK r : r = Answered(hosts[h], "finalize", answer)
  OBVIOUS
<1>12. "finalize" \in Steps /\ answer \in {"received", "unknown", "accepted"}
  BY DEF Steps
<1>13. r \in BusyHost /\ r.at = "finalize" /\ r.unit = u /\ r.answer = answer
  BY <1>1, <1>3, <1>11, <1>12, BusyAnswers
<1>14. units'[u].operation # "none"
  BY <1>1, <1>2, <1>3, <1>9 DEF HostHolds, UnitsMove
<1>15. HostHolds(r, units', candidates) /\ r.at # "fetch"
  BY <1>13, <1>14 DEF HostHolds
<1>16. hosts' = [hosts EXCEPT ![h] = r]
  BY <1>3, <1>10, <1>11 DEF Live!FinishReceipt, Answered, BusyHost
<1>17. LiveHolds(units', candidates, usage, [hosts EXCEPT ![h] = r])
  BY <1>9, <1>13, <1>15, QuietStep
<1> QED BY <1>2, <1>16, <1>17

LEMMA ExternallyFinalized ==
    ASSUME LiveInv, NEW h \in Hosts, Live!ExternalFinalize(h)
    PROVE  LiveHolds(units', candidates', usage', hosts')
<1>1. PICK u : u = hosts[h].unit
  OBVIOUS
<1>2. hosts[h].at = "finalize" /\ candidates' = candidates /\ usage' = usage
  BY DEF Live!ExternalFinalize
<1>3. hosts[h] \in BusyHost /\ u \in Live!Calls /\ HostHolds(hosts[h], units, candidates)
  BY <1>1, <1>2, HostIsTyped
<1>4. units[u] \in UnitRecord /\ UnitHolds(units[u]) /\ UnitsHold(units)
  BY <1>3, UnitIsTyped
<1>5. hosts[h].answer \in {"succeeded", "submitting", "accepted", "unknown"} /\ units[u].operation # "none"
  BY <1>1, <1>2, <1>3 DEF HostHolds
<1>6. PICK d : d = [units[u] EXCEPT !.operation = hosts[h].answer]
  OBVIOUS
<1>7. d \in UnitRecord /\ d.operation = hosts[h].answer
  BY <1>4, <1>5, <1>6, UnitOperates
<1>8. Live!Queued(d) \in UnitRecord /\ Live!Queued(d).operation # "none"
  BY <1>5, <1>7, UnitQueued
<1>9. units' = [units EXCEPT ![u] = Live!Queued(d)]
  BY <1>1, <1>6 DEF Live!ExternalFinalize
<1>10. UnitsMove(units, units')
  BY <1>3, <1>4, <1>5, <1>8, <1>9, UnitMoved DEF UnitHolds
<1>11. CASE Live!Leaves(h)
  BY <1>2, <1>10, <1>11, HostLeaves
<1>12. CASE Live!Goes(h, "intake")
  BY <1>2, <1>10, <1>12, HostGoes
<1> QED BY <1>11, <1>12 DEF Live!ExternalFinalize, Live!GoesOnAlone

LEMMA StatusAsked ==
    ASSUME LiveInv, NEW h \in Hosts, Live!AskStatus(h)
    PROVE  LiveHolds(units', candidates', usage', hosts')
<1>1. PICK u : u = hosts[h].unit
  OBVIOUS
<1>2. hosts[h].at = "status" /\ candidates' = candidates /\ usage' = usage
  BY DEF Live!AskStatus
<1>3. hosts[h] \in BusyHost /\ u \in Live!Calls /\ HostHolds(hosts[h], units, candidates)
  BY <1>1, <1>2, HostIsTyped
<1>4. units[u] \in UnitRecord /\ UnitHolds(units[u]) /\ UnitsHold(units)
  BY <1>3, UnitIsTyped
<1>5. units[u].operation # "none"
  BY <1>1, <1>2, <1>3 DEF HostHolds
<1>6. PICK d, e : /\ d = [units[u] EXCEPT !.operation = "succeeded", !.child = "done"]
                  /\ e = [units[u] EXCEPT !.operation = "unknown"]
  OBVIOUS
<1>7. d \in UnitRecord /\ d.operation = "succeeded" /\ e \in UnitRecord /\ e.operation = "unknown"
  BY <1>4, <1>6, UnitOperates
<1>8. units' = [units EXCEPT ![u] = d] \/ units' = [units EXCEPT ![u] = e]
  BY <1>1, <1>3, <1>4, <1>6 DEF Live!AskStatus, UnitsHold, UnitRecord
<1>9. UnitsMove(units, units')
  BY <1>3, <1>4, <1>5, <1>7, <1>8, UnitMoved DEF UnitHolds
<1>10. CASE Live!Leaves(h)
  BY <1>2, <1>9, <1>10, HostLeaves
<1>11. CASE Live!Goes(h, "intake")
  BY <1>2, <1>9, <1>11, HostGoes
<1> QED BY <1>10, <1>11 DEF Live!AskStatus, Live!GoesOnAlone

\* The counters lose one, and the run may stop early.
LEMMA UsageFalls ==
    \A r \in UsageRecord, n \in Nat :
       /\ LET d == [r EXCEPT !.inFlight = n] IN d \in UsageRecord /\ d.inFlight = n
       /\ LET d == [r EXCEPT !.inFlight = n, !.partial = TRUE] IN d \in UsageRecord /\ d.inFlight = n
BY DEF UsageRecord

\* The next query is queued, or not.
LEMMA SuccessorMoves ==
    ASSUME LiveInv, NEW q \in Live!Queries, Live!Successor(q), usage.inFlight > 0
    PROVE  /\ UnitsMove(units, units') /\ usage' \in UsageRecord
           /\ usage'.inFlight = usage.inFlight - 1
<1>1. usage \in UsageRecord /\ usage.inFlight \in Nat
  BY DEF LiveInv, LiveHolds, UsageRecord
<1>2. PICK n \in Nat : n = usage.inFlight - 1
  BY <1>1
<1>3. usage' = [usage EXCEPT !.inFlight = n] \/ usage' = [usage EXCEPT !.inFlight = n, !.partial = TRUE]
  BY <1>2 DEF Live!Successor
<1>4. usage' \in UsageRecord /\ usage'.inFlight = n
  BY <1>1, <1>3, UsageFalls
<1>5. CASE units' = units
  BY <1>2, <1>4, <1>5, NoUnitMoves
<1>6. CASE q # plan /\ units' # units
  <2>1. PICK u : u = <<"search", q + 1>>
    OBVIOUS
  <2>2. u \in Live!Calls
    <3>1. q + 1 \in Live!Queries
      BY <1>6 DEF Live!Queries, LiveInv
    <3> QED BY <2>1, <3>1 DEF Live!Calls
  <2>3. units[u] \in UnitRecord /\ UnitHolds(units[u]) /\ UnitsHold(units)
    BY <2>2, UnitIsTyped
  <2>4. PICK e \in {"none", "ready", "dispatched", "done"} :
           e = IF units[u].event = "none" THEN "ready" ELSE units[u].event
    BY <2>3 DEF UnitRecord
  <2>5. PICK d : d = [units[u] EXCEPT !.event = e]
    OBVIOUS
  <2>6. d \in UnitRecord /\ d.operation = units[u].operation /\ d.child = units[u].child
    BY <2>3, <2>4, <2>5, UnitFields
  <2>7. units' = [units EXCEPT ![u] = d]
    BY <1>6, <2>1, <2>2, <2>3, <2>4, <2>5 DEF Live!Successor, UnitsHold, UnitRecord
  <2>8. UnitsMove(units, units')
    BY <2>2, <2>3, <2>6, <2>7, UnitMoved DEF UnitHolds
  <2> QED BY <1>2, <1>4, <2>8
<1> QED BY <1>5, <1>6 DEF Live!Successor

\* The answer of a query is taken in once, and its search is closed.
LEMMA ReceivedIngested ==
    ASSUME LiveInv, NEW h \in Hosts, Live!IngestReceived(h)
    PROVE  LiveHolds(units', candidates', usage', hosts')
<1>1. PICK q : q = Live!Query(hosts[h].unit)
  OBVIOUS
<1>2. hosts[h].at = "intake" /\ Live!Intake(h, q) /\ Live!Goes(h, "pages")
  BY <1>1 DEF Live!IngestReceived
<1>3. hosts[h] \in BusyHost /\ q \in Live!Queries
  BY <1>1, <1>2, HostIsTyped, UnitIsTyped
<1>4. CASE units' = units /\ candidates' = candidates /\ usage' = usage
  BY <1>2, <1>4, NoUnitMoves, HostGoes
<1>5. ASSUME ~candidates[q].intake, usage.inFlight > 0, Live!Successor(q),
             candidates' = [candidates EXCEPT ![q].intake = TRUE]
      PROVE  LiveHolds(units', candidates', usage', hosts')
  <2>1. /\ UnitsMove(units, units') /\ usage' \in UsageRecord
        /\ usage'.inFlight = usage.inFlight - 1
    BY <1>3, <1>5, SuccessorMoves
  <2>2. candidates \in [Live!Queries -> CandidateRecord]
    BY DEF LiveInv, LiveHolds
  <2>3. /\ candidates' \in [Live!Queries -> CandidateRecord]
        /\ candidates'[q].intake /\ \A p \in Live!Queries : candidates'[p].page = candidates[p].page
        /\ \A p \in Live!Queries \ {q} : candidates'[p] = candidates[p]
    BY <1>3, <1>5, <2>2 DEF CandidateRecord
  <2>4. HostsHold(hosts', units', candidates')
    <3>1. PICK r : r = [hosts[h] EXCEPT !.at = "pages"]
      OBVIOUS
    <3>2. r \in BusyHost /\ r.at = "pages"
      BY <1>3, <3>1, BusyGoes DEF Steps
    <3>3. HostHolds(r, units', candidates')
      BY <3>2 DEF HostHolds
    <3>4. HostsHold(hosts, units, candidates)
      BY DEF LiveInv, LiveHolds
    <3>5. \A g \in Hosts : hosts[g].at = "fetch" => candidates'[hosts[g].page].page = "prepared"
      <4> SUFFICES ASSUME NEW g \in Hosts, hosts[g].at = "fetch"
                   PROVE  candidates'[hosts[g].page].page = "prepared"
        OBVIOUS
      <4>1. hosts[g].page \in Live!Queries /\ HostHolds(hosts[g], units, candidates)
        BY HostIsTyped
      <4> QED BY <2>3, <4>1 DEF HostHolds
    <3>6. \A u \in Live!Calls : units[u].operation # "none" => units'[u].operation # "none"
      BY <2>1 DEF UnitsMove
    <3>7. HostsHold([hosts EXCEPT ![h] = r], units', candidates')
      BY <3>2, <3>3, <3>4, <3>5, <3>6, HostMoved
    <3> QED BY <1>2, <3>1, <3>7 DEF Live!Goes
  <2>5. InFlightHolds(units', candidates', usage.inFlight - 1)
    <3>1. <<"search", q>> \in Live!Calls /\ units[<<"search", q>>].operation # "none"
      BY <1>2, <1>3 DEF Live!Intake, Live!Receivable, Live!Calls
    <3>2. q \in OpenSearches(units, candidates)
      BY <1>3, <1>5, <3>1 DEF OpenSearches
    <3>3. \A p \in Live!Queries : units'[<<"search", p>>].operation # "none"
                                <=> units[<<"search", p>>].operation # "none"
      BY <2>1 DEF UnitsMove, Live!Calls
    <3>4. OpenSearches(units', candidates') = OpenSearches(units, candidates) \ {q}
      BY <2>3, <3>3 DEF OpenSearches
    <3>5. OpenPages(candidates') = OpenPages(candidates)
      BY <2>3 DEF OpenPages
    <3>6. plan \in Nat /\ usage.inFlight \in Nat /\ InFlightHolds(units, candidates, usage.inFlight)
      BY DEF LiveInv, LiveHolds, UsageRecord
    <3> QED BY <1>3, <3>2, <3>4, <3>5, <3>6, OneClosed
  <2> QED BY <2>1, <2>3, <2>4, <2>5 DEF LiveHolds, UnitsMove
<1> QED BY <1>1, <1>2, <1>4, <1>5 DEF Live!Intake, Live!IngestReceived

\* A page is claimed by one process, and its place is taken.
LEMMA PagePrepared ==
    ASSUME LiveInv, NEW h \in Hosts, NEW q \in Live!Queries, Live!PreparePage(h, q)
    PROVE  LiveHolds(units', candidates', usage', hosts')
<1>1. hosts[h].at = "pages" /\ units' = units /\ candidates[q].page = "none"
  BY DEF Live!PreparePage, Live!PageReady
<1>2. hosts[h] \in BusyHost
  BY <1>1, HostIsTyped
<1>3. candidates \in [Live!Queries -> CandidateRecord] /\ candidates' = [candidates EXCEPT ![q].page = "prepared"]
  BY DEF LiveInv, LiveHolds, Live!PreparePage
<1>4. /\ candidates' \in [Live!Queries -> CandidateRecord] /\ candidates'[q].page = "prepared"
      /\ \A p \in Live!Queries : candidates'[p].intake = candidates[p].intake
      /\ \A p \in Live!Queries \ {q} : candidates'[p] = candidates[p]
  BY <1>3 DEF CandidateRecord
<1>5. plan \in Nat /\ usage \in UsageRecord /\ usage.inFlight \in Nat
      /\ InFlightHolds(units, candidates, usage.inFlight)
  BY DEF LiveInv, LiveHolds, UsageRecord
<1>6. PICK n \in Nat : n = usage.inFlight + 1
  BY <1>5
<1>7. usage' \in UsageRecord /\ usage'.inFlight = n
  <2>1. usage' = [usage EXCEPT !.inFlight = n]
    BY <1>6 DEF Live!PreparePage
  <2> QED BY <1>5, <2>1, UsageFalls
<1>8. HostsHold(hosts', units, candidates')
  <2>1. PICK r : r = [hosts[h] EXCEPT !.at = "fetch", !.page = q]
    OBVIOUS
  <2>2. r \in BusyHost /\ r.at = "fetch" /\ r.page = q
    BY <1>2, <2>1 DEF BusyHost, Steps
  <2>3. HostHolds(r, units, candidates')
    BY <1>4, <2>2 DEF HostHolds
  <2>4. HostsHold(hosts, units, candidates)
    BY DEF LiveInv, LiveHolds
  <2>5. ASSUME NEW g \in Hosts \ {h}, hosts[g].at = "fetch"
        PROVE  candidates'[hosts[g].page].page = "prepared" /\ hosts[g].page # q
    <3>1. hosts[g].page \in Live!Queries /\ HostHolds(hosts[g], units, candidates)
      BY <2>5, HostIsTyped
    <3>2. candidates[hosts[g].page].page = "prepared"
      BY <2>5, <3>1 DEF HostHolds
    <3> QED BY <1>1, <1>4, <3>1, <3>2
  <2>6. HostsHold([hosts EXCEPT ![h] = r], units, candidates')
    BY <2>2, <2>3, <2>4, <2>5, HostMoved
  <2>7. hosts' = [hosts EXCEPT ![h] = r]
    BY <2>1 DEF Live!PreparePage
  <2> QED BY <2>6, <2>7
<1>9. InFlightHolds(units, candidates', usage.inFlight + 1)
  <2>1. OpenSearches(units, candidates') = OpenSearches(units, candidates)
    BY <1>4 DEF OpenSearches
  <2>2. OpenPages(candidates') = OpenPages(candidates) \cup {q}
    BY <1>4 DEF OpenPages
  <2> QED BY <1>5, <2>1, <2>2, OneOpened
<1> QED BY <1>1, <1>4, <1>6, <1>7, <1>8, <1>9 DEF LiveHolds, LiveInv

\* The process that claimed a page finishes it, and frees its place.
LEMMA PageFinished ==
    ASSUME LiveInv, NEW h \in Hosts, Live!FinishPage(h)
    PROVE  LiveHolds(units', candidates', usage', hosts')
<1>1. PICK q : q = hosts[h].page
  OBVIOUS
<1>2. hosts[h].at = "fetch" /\ units' = units /\ Live!Goes(h, "pages")
  BY DEF Live!FinishPage
<1>3. hosts[h] \in BusyHost /\ q \in Live!Queries /\ candidates[q].page = "prepared"
  BY <1>1, <1>2, HostIsTyped DEF HostHolds
<1>4. CASE candidates' = candidates /\ usage' = usage
  BY <1>2, <1>4, NoUnitMoves, HostGoes
<1>5. ASSUME candidates' = [candidates EXCEPT ![q].page = "finished"],
             usage' = [usage EXCEPT !.inFlight = usage.inFlight - 1]
      PROVE  LiveHolds(units', candidates', usage', hosts')
  <2>1. candidates \in [Live!Queries -> CandidateRecord]
    BY DEF LiveInv, LiveHolds
  <2>2. /\ candidates' \in [Live!Queries -> CandidateRecord] /\ candidates'[q].page = "finished"
        /\ \A p \in Live!Queries : candidates'[p].intake = candidates[p].intake
        /\ \A p \in Live!Queries \ {q} : candidates'[p] = candidates[p]
    BY <1>3, <1>5, <2>1 DEF CandidateRecord
  <2>3. plan \in Nat /\ usage \in UsageRecord /\ usage.inFlight \in Nat
        /\ InFlightHolds(units, candidates, usage.inFlight)
    BY DEF LiveInv, LiveHolds, UsageRecord
  <2>4. usage.inFlight - 1 \in Nat /\ InFlightHolds(units, candidates', usage.inFlight - 1)
    <3>1. OpenSearches(units, candidates') = OpenSearches(units, candidates)
      BY <2>2 DEF OpenSearches
    <3>2. q \in OpenPages(candidates) /\ OpenPages(candidates') = OpenPages(candidates) \ {q}
      BY <1>3, <2>2 DEF OpenPages
    <3> QED BY <1>3, <2>3, <3>1, <3>2, OneClosed
  <2>5. usage' \in UsageRecord /\ usage'.inFlight = usage.inFlight - 1
    BY <1>5, <2>3, <2>4, UsageFalls
  <2>6. HostsHold(hosts', units, candidates')
    <3>1. PICK r : r = [hosts[h] EXCEPT !.at = "pages"]
      OBVIOUS
    <3>2. r \in BusyHost /\ r.at = "pages"
      BY <1>3, <3>1, BusyGoes DEF Steps
    <3>3. HostHolds(r, units, candidates')
      BY <3>2 DEF HostHolds
    <3>4. HostsHold(hosts, units, candidates)
      BY DEF LiveInv, LiveHolds
    <3>5. ASSUME NEW g \in Hosts \ {h}, hosts[g].at = "fetch"
          PROVE  candidates'[hosts[g].page].page = "prepared"
      <4>1. hosts[g].page \in Live!Queries /\ HostHolds(hosts[g], units, candidates)
        BY <3>5, HostIsTyped
      <4>2. hosts[g].page # q
        BY <1>1, <1>2, <3>4, <3>5 DEF HostsHold
      <4> QED BY <2>2, <3>5, <4>1, <4>2 DEF HostHolds
    <3>6. HostsHold([hosts EXCEPT ![h] = r], units, candidates')
      BY <3>2, <3>3, <3>4, <3>5, HostMoved
    <3> QED BY <1>2, <3>1, <3>6 DEF Live!Goes
  <2> QED BY <1>2, <2>2, <2>4, <2>5, <2>6 DEF LiveHolds, LiveInv
<1> QED BY <1>1, <1>4, <1>5 DEF Live!FinishPage

\* A review, and the model event it queues.
LEMMA CandidateReviewed ==
    ASSUME LiveInv, NEW q \in Live!Reviewable, Live!ReviewCandidate(q)
    PROVE  LiveHolds(units', candidates', usage', hosts')
<1>1. q \in Live!Queries /\ usage' = usage /\ hosts' = hosts
  BY DEF Live!Reviewable, Live!ReviewCandidate
<1>2. candidates \in [Live!Queries -> CandidateRecord] /\ candidates' = [candidates EXCEPT ![q].reviewed = TRUE]
  BY DEF LiveInv, LiveHolds, Live!ReviewCandidate
<1>3. /\ candidates' \in [Live!Queries -> CandidateRecord]
      /\ \A p \in Live!Queries : candidates'[p].intake = candidates[p].intake
      /\ \A p \in Live!Queries : candidates'[p].page = candidates[p].page
  BY <1>1, <1>2 DEF CandidateRecord
<1>4. UnitsMove(units, units')
  <2>1. PICK u : u = <<"model", q>>
    OBVIOUS
  <2>2. u \in Live!Calls
    BY <2>1 DEF Live!Calls
  <2>3. units[u] \in UnitRecord /\ UnitHolds(units[u]) /\ UnitsHold(units)
    BY <2>2, UnitIsTyped
  <2>4. PICK d : d = [units[u] EXCEPT !.event = "ready"]
    OBVIOUS
  <2>5. d \in UnitRecord /\ d.operation = units[u].operation /\ d.child = units[u].child
    BY <2>3, <2>4, UnitFields
  <2>6. units' = units \/ units' = [units EXCEPT ![u] = d]
    BY <2>1, <2>4 DEF Live!ReviewCandidate
  <2> QED BY <2>2, <2>3, <2>5, <2>6, UnitMoved, NoUnitMoves DEF UnitHolds
<1>5. HostsHold(hosts, units', candidates')
  <2>1. HostsHold(hosts, units, candidates)
    BY DEF LiveInv, LiveHolds
  <2>2. \A u \in Live!Calls : units[u].operation # "none" => units'[u].operation # "none"
    BY <1>4 DEF UnitsMove
  <2> QED BY <1>3, <2>1, <2>2, HostsWait
<1>6. InFlightHolds(units', candidates', usage.inFlight)
  <2>1. \A p \in Live!Queries : <<"search", p>> \in Live!Calls
    BY DEF Live!Calls
  <2>2. SameOpen(units, candidates, units', candidates')
    BY <1>3, <1>4, <2>1 DEF SameOpen, UnitsMove
  <2> QED BY <2>2, NothingOpened DEF LiveInv, LiveHolds
<1> QED BY <1>1, <1>3, <1>4, <1>5, <1>6 DEF LiveHolds, LiveInv, UnitsMove

\* The recovery sweep.
LEMMA UnitRecovered ==
    ASSUME LiveInv, NEW u \in Live!Calls, Live!Recover(u) \/ Live!RecoverChild(u)
    PROVE  LiveHolds(units', candidates', usage', hosts')
<1>1. candidates' = candidates /\ usage' = usage /\ hosts' = hosts
  BY DEF Live!Recover, Live!RecoverChild
<1>2. units[u] \in UnitRecord /\ UnitHolds(units[u]) /\ UnitsHold(units)
  BY UnitIsTyped
<1>3. ASSUME NEW d \in UnitRecord, d.operation = units[u].operation, UnitHolds(d),
             units' = [units EXCEPT ![u] = d]
      PROVE  LiveHolds(units', candidates', usage', hosts')
  <2>1. UnitsMove(units, units')
    BY <1>2, <1>3, UnitMoved
  <2> QED BY <1>1, <2>1, QuietUnits
<1>4. ASSUME units[u].operation \in Live!InDoubt, units' = [units EXCEPT ![u] = Live!Queued(units[u])]
      PROVE  LiveHolds(units', candidates', usage', hosts')
  <2>1. Live!Queued(units[u]) \in UnitRecord /\ Live!Queued(units[u]).operation = units[u].operation
    BY <1>2, UnitQueued
  <2>2. UnitHolds(Live!Queued(units[u]))
    BY <1>4, <2>1 DEF UnitHolds, Live!InDoubt
  <2> QED BY <1>3, <1>4, <2>1, <2>2
<1>5. ASSUME units' = [units EXCEPT ![u] = [units[u] EXCEPT !.event = "ready"]]
      PROVE  LiveHolds(units', candidates', usage', hosts')
  <2>1. PICK d : d = [units[u] EXCEPT !.event = "ready"]
    OBVIOUS
  <2>2. d \in UnitRecord /\ d.operation = units[u].operation /\ d.child = units[u].child
    BY <1>2, <2>1, UnitFields
  <2> QED BY <1>2, <1>3, <1>5, <2>1, <2>2 DEF UnitHolds
<1>6. CASE Live!RecoverChild(u)
  <2>1. PICK d : d = [units[u] EXCEPT !.child = "ready"]
    OBVIOUS
  <2>2. d \in UnitRecord /\ d.operation = units[u].operation
    BY <1>2, <2>1, UnitFields
  <2>3. units[u].operation # "none"
    BY <1>2, <1>6 DEF Live!RecoverChild, UnitHolds
  <2>4. units' = [units EXCEPT ![u] = d]
    BY <1>6, <2>1 DEF Live!RecoverChild
  <2> QED BY <1>3, <2>2, <2>3, <2>4 DEF UnitHolds
<1>7. CASE Live!Recover(u)
  BY <1>4, <1>5, <1>7 DEF Live!Recover
<1> QED BY <1>6, <1>7

LEMMA LiveStart == Live!LiveInit => LiveInv
<1> SUFFICES ASSUME Live!LiveInit PROVE LiveInv
  OBVIOUS
<1>1. plan \in Nat
  BY LiveAssumption DEF Live!LiveInit
<1>2. UnitsHold(units)
  <2>1. ASSUME NEW e \in {"ready", "none"}
        PROVE  LET r == [Live!NoUnit EXCEPT !.event = e] IN
               r \in UnitRecord /\ r.operation = "none" /\ r.child = "none"
    BY DEF Live!NoUnit, UnitRecord
  <2>2. \A u \in Live!Calls : units[u] \in UnitRecord /\ units[u].operation = "none" /\ units[u].child = "none"
    BY <2>1 DEF Live!LiveInit
  <2>3. units \in [Live!Calls -> UnitRecord]
    BY <2>2 DEF Live!LiveInit
  <2> QED BY <2>2, <2>3 DEF UnitsHold, UnitHolds
<1>3. candidates \in [Live!Queries -> CandidateRecord]
  BY DEF Live!LiveInit, CandidateRecord
<1>4. usage \in UsageRecord /\ usage.inFlight = 0
  BY DEF Live!LiveInit, UsageRecord
<1>5. HostsHold(hosts, units, candidates)
  BY DEF Live!LiveInit, HostsHold, HostHolds, Live!IdleHost
<1>6. InFlightHolds(units, candidates, 0)
  <2>1. \A q \in Live!Queries : units[<<"search", q>>].operation = "none"
    BY DEF Live!LiveInit, Live!Calls, Live!NoUnit
  <2>2. OpenSearches(units, candidates) = {} /\ OpenPages(candidates) = {}
    BY <2>1 DEF Live!LiveInit, OpenSearches, OpenPages
  <2> QED BY <2>2, FS_EmptySet DEF InFlightHolds
<1> QED BY <1>1, <1>2, <1>3, <1>4, <1>5, <1>6 DEF LiveInv, LiveHolds

LEMMA LiveStep == LiveInv /\ [Live!LiveNext]_liveVars => LiveInv'
<1> SUFFICES ASSUME LiveInv, [Live!LiveNext]_liveVars PROVE LiveInv'
  OBVIOUS
<1>1. plan' = plan
  BY DEF Live!LiveNext, liveVars
<1>2. LiveHolds(units', candidates', usage', hosts')
  <2>1. ASSUME NEW h \in Hosts, NEW u \in Live!Calls, Live!Deliver(h, u) \/ Live!DeliverChild(h, u)
        PROVE  LiveHolds(units', candidates', usage', hosts')
    BY <2>1, Delivered, ChildDelivered
  <2>2. ASSUME NEW h \in Hosts,
               \/ Live!Abandon(h) \/ Live!Lapse(h) \/ Live!NoMorePages(h)
               \/ Live!Prepare(h) \/ Live!ExistingModel(h) \/ Live!ExternalPrepare(h) \/ Live!Claim(h)
        PROVE  LiveHolds(units', candidates', usage', hosts')
    BY <2>2, HostAbandons, CallPrepared, ExternallyPrepared, CallClaimed
  <2>3. ASSUME NEW h \in Hosts,
               \/ Live!FinishReceipt(h) \/ Live!ExternalFinalize(h) \/ Live!AskStatus(h)
               \/ Live!IngestReceived(h) \/ Live!FinishPage(h)
        PROVE  LiveHolds(units', candidates', usage', hosts')
    BY <2>3, ReceiptFinished, ExternallyFinalized, StatusAsked, ReceivedIngested, PageFinished
  <2>4. ASSUME NEW h \in Hosts, NEW answer \in {"received", "unknown"}, Live!Ask(h, answer)
        PROVE  LiveHolds(units', candidates', usage', hosts')
    BY <2>4, CallAnswered
  <2>5. ASSUME NEW h \in Hosts, NEW q \in Live!Queries, Live!PreparePage(h, q)
        PROVE  LiveHolds(units', candidates', usage', hosts')
    BY <2>5, PagePrepared
  <2>6. ASSUME NEW q \in Live!Reviewable, Live!ReviewCandidate(q)
        PROVE  LiveHolds(units', candidates', usage', hosts')
    BY <2>6, CandidateReviewed
  <2>7. ASSUME NEW u \in Live!Calls, Live!Recover(u) \/ Live!RecoverChild(u)
        PROVE  LiveHolds(units', candidates', usage', hosts')
    BY <2>7, UnitRecovered
  <2>8. CASE Live!ChangeGate
    BY <2>8 DEF Live!ChangeGate, LiveInv
  <2>9. CASE UNCHANGED liveVars
    BY <2>9 DEF liveVars, LiveInv
  <2> QED BY <2>1, <2>2, <2>3, <2>4, <2>5, <2>6, <2>7, <2>8, <2>9 DEF Live!LiveNext
\* The sets that depend on the plan stay, so what holds in the new state is the invariant.
<1>3. Live!Queries' = Live!Queries
  BY <1>1 DEF Live!Queries
<1>4. Live!Calls' = Live!Calls
  BY <1>1, <1>3 DEF Live!Calls, Live!Reviewable
<1>5. BusyHost' = BusyHost
  BY <1>3, <1>4 DEF BusyHost, Steps
<1>6. UnitsHold(units)'
  BY <1>2, <1>4 DEF LiveHolds, UnitsHold, UnitHolds, UnitRecord, Live!InDoubt
<1>7. (candidates \in [Live!Queries -> CandidateRecord])' /\ (usage \in UsageRecord)'
  BY <1>2, <1>3 DEF LiveHolds, CandidateRecord, UsageRecord
<1>8. HostsHold(hosts, units, candidates)'
  BY <1>2, <1>5 DEF LiveHolds, HostsHold, HostHolds
<1>9. InFlightHolds(units, candidates, usage.inFlight)'
  BY <1>2, <1>3 DEF LiveHolds, InFlightHolds, OpenSearches, OpenPages
<1>10. (plan \in Nat)'
  BY <1>1 DEF LiveInv
<1> QED BY <1>6, <1>7, <1>8, <1>9, <1>10 DEF LiveInv, LiveHolds

\* What the invariant says of the counter is the property.
LEMMA LiveIsTrue == LiveInv => Live!InFlightCoversOpenWork
BY LiveCardinality DEF LiveInv, LiveHolds, InFlightHolds, OpenSearches, OpenPages, Live!InFlightCoversOpenWork

----------------------------------------------------------------------------
VARIABLES session, records, sends, keys, decided, crossed
VARIABLES backend, run, searches, intents, runWorkers, current
VARIABLES message, workflow, call, arriving, receipts, slotTaken, performed,
          unread
VARIABLES page, poller, jobOver
VARIABLES cookie, storage, adapter, scope, wire, waiters, loads
VARIABLES material, contact, draft, approval, messages, holder, senders
VARIABLES instant, members, authorities, requests, decisions, source
VARIABLES committed, reads, screen, cursor, batch
VARIABLES selectable, letter, mayExport, exports, downloads, handed, edits
VARIABLES project, profiles, removed, forms, actions, replies, boards, unheard
VARIABLES listing, view, check, browse, visited, denied, upheavals
VARIABLES talk, works, costing, consents, onRecord, panel, keptDraft, keyring,
          live, pressed, ration

userVars == <<session, records, sends, keys, decided, crossed>>
runVars == <<backend, run, searches, intents, runWorkers, current>>
flowVars == <<message, workflow, call, arriving, receipts, slotTaken,
    performed, unread>>
pollerVars == <<page, poller, jobOver>>
sessionVars == <<cookie, storage, adapter, scope, wire, waiters, loads>>
deliveryVars == <<material, contact, draft, approval, messages, holder,
    senders>>
policyVars == <<instant, members, authorities, requests, decisions, source>>
feedVars == <<committed, reads, screen, cursor, batch>>
exportVars == <<selectable, letter, mayExport, exports, downloads, handed,
    edits>>
profileVars == <<project, profiles, removed, forms, actions, replies, boards,
    unheard>>
selectionVars == <<listing, view, check, browse, visited, denied, upheavals>>
guidedVars == <<talk, works, costing, consents, onRecord, panel, keptDraft,
    keyring, live, pressed, ration>>

User == INSTANCE UserAction

Run == INSTANCE RunLifecycle WITH
    RunBackends <- {"celery", "cloudflare"}, RunWorkers <- {"p1", "p2"},
    LastQuery <- 1, MaxClaims <- 2, MaxFits <- 1

Retries == INSTANCE RunLifecycle WITH
    RunBackends <- {"celery", "cloudflare"}, RunWorkers <- {"p1"},
    LastQuery <- 1, MaxClaims <- 1, MaxFits <- 2

Flow == INSTANCE JobWorkflow

Poller == INSTANCE JobPoller

Session == INSTANCE BrowserSession

Delivery == INSTANCE OutreachDelivery WITH
    Keys <- {"k1", "k2"}, Senders <- {"w1", "w2"},
    Reports <- {<<"status", "delivered">>, <<"callback", "bounced">>},
    MaxRevision <- 2, MaxMaterial <- 3, MaxApprovals <- 2

Recipients == INSTANCE OutreachDelivery WITH
    Keys <- {"k1"}, Senders <- {"w1"},
    Reports <- {<<"status", "delivered">>, <<"callback", "suppressed">>},
    MaxRevision <- 3, MaxMaterial <- 4, MaxApprovals <- 2

Policy == INSTANCE PolicyActivation

Feed == INSTANCE RunFeed WITH
    LastEvent <- 3, PageLimit <- 2, Reads <- {1, 2, 3}

Exports == INSTANCE ExportRelease WITH
    Rows <- {"x", "y"}, Contacts <- {1, 2}, Tabs <- {"t"}, MaxExports <- 1,
    MaxEdits <- 2

ExportTabs == INSTANCE ExportRelease WITH
    Rows <- {"x"}, Contacts <- {1}, Tabs <- {"t", "u"}, MaxExports <- 2,
    MaxEdits <- 1

OfferWizard == INSTANCE OfferProfile WITH
    Authors <- {"a"}, Reviewers <- {"r"}, Offers <- {"o", "p"},
    Documents <- {"d"}, First <- "o", MaxVersion <- 4, MaxProfiles <- 2,
    MaxKeys <- 2, MaxLost <- 1

OfferWizards == INSTANCE OfferProfile WITH
    Authors <- {"a", "b"}, Reviewers <- {"r"}, Offers <- {"o", "p"},
    Documents <- {}, First <- "o", MaxVersion <- 3, MaxProfiles <- 2,
    MaxKeys <- 1, MaxLost <- 0

Selection == INSTANCE WorkspaceSelection WITH
    Home <- [p \in {"p", "q", "r"} |-> IF p = "r" THEN "w" ELSE "v"],
    Strange <- "x", Early <- TRUE, MaxMoves <- 4, MaxChanges <- 1

SelectionAtOnce == INSTANCE WorkspaceSelection WITH
    Home <- [p \in {"p", "q", "r"} |-> IF p = "r" THEN "w" ELSE "v"],
    Strange <- "x", Early <- FALSE, MaxMoves <- 4, MaxChanges <- 1

SalesDesk == INSTANCE GuidedSales WITH
    MaxTasks <- 1, MaxRevision <- 3, MaxCosting <- 2, MaxCalls <- 4,
    MaxTexts <- 0, MaxTurns <- 1, MaxUpsets <- 1

SalesDeskRetried == INSTANCE GuidedSales WITH
    MaxTasks <- 1, MaxRevision <- 3, MaxCosting <- 2, MaxCalls <- 5,
    MaxTexts <- 0, MaxTurns <- 0, MaxUpsets <- 1

SalesDeskOfTwo == INSTANCE GuidedSales WITH
    MaxTasks <- 2, MaxRevision <- 2, MaxCosting <- 1, MaxCalls <- 4,
    MaxTexts <- 1, MaxTurns <- 1, MaxUpsets <- 0

Components == {"bulk", "user", "run", "retries", "flow", "poller", "session",
               "sales", "delivery", "contacts", "policy", "live", "feed",
               "exports", "tabs", "offer", "wizards", "selection", "webkit",
               "guided", "retried", "twoTasks"}

Init ==
    /\ which \in Components
    /\ Bulk!BulkInit
    /\ User!UserInit
    /\ which # "user" => session.scope = CHOOSE s \in Scopes : TRUE
    /\ IF which = "retries" THEN Retries!RunInit
       ELSE Run!RunInit
    /\ which # "run" => backend = "celery"
    /\ Flow!FlowInit
    /\ Poller!PollerInit
    /\ which # "poller" => page.visible /\ page.online
    /\ Session!SessionInit
    /\ which # "session" => cookie = "none"
    /\ Sales!SalesInit
    /\ which # "sales" => task.state = "needs_input"
    /\ IF which = "contacts" THEN Recipients!DeliveryInit
       ELSE Delivery!DeliveryInit
    /\ Policy!PolicyInit
    /\ Live!LiveInit
    /\ which # "live" => plan = 1
    /\ Feed!FeedInit
    /\ IF which = "tabs" THEN ExportTabs!ExportInit
       ELSE Exports!ExportInit
    /\ IF which = "wizards" THEN OfferWizards!ProfileInit
       ELSE OfferWizard!ProfileInit
    /\ IF which = "webkit" THEN SelectionAtOnce!SelectionInit
       ELSE Selection!SelectionInit
    /\ which \notin {"selection", "webkit"} =>
           listing = [members |-> {}, projects |-> Selection!Projects] /\ visited = {Selection!Nowhere}
    /\ IF which = "twoTasks" THEN SalesDeskOfTwo!GuidedInit
       ELSE IF which = "retried" THEN SalesDeskRetried!GuidedInit
       ELSE SalesDesk!GuidedInit

Next ==
    /\ UNCHANGED which
    /\ IF which = "bulk" THEN Bulk!BulkNext ELSE UNCHANGED bulkVars
    /\ IF which = "user" THEN User!UserNext ELSE UNCHANGED userVars
    /\ IF which = "run" THEN Run!RunNext
       ELSE IF which = "retries" THEN Retries!RunNext ELSE UNCHANGED runVars
    /\ IF which = "flow" THEN Flow!FlowNext ELSE UNCHANGED flowVars
    /\ IF which = "poller" THEN Poller!PollerNext ELSE UNCHANGED pollerVars
    /\ IF which = "session" THEN Session!SessionNext ELSE UNCHANGED sessionVars
    /\ IF which = "sales" THEN Sales!SalesNext ELSE UNCHANGED salesVars
    /\ IF which = "delivery" THEN Delivery!DeliveryNext
       ELSE IF which = "contacts" THEN Recipients!DeliveryNext ELSE UNCHANGED deliveryVars
    /\ IF which = "policy" THEN Policy!PolicyNext ELSE UNCHANGED policyVars
    /\ IF which = "live" THEN Live!LiveNext ELSE UNCHANGED liveVars
    /\ IF which = "feed" THEN Feed!FeedNext ELSE UNCHANGED feedVars
    /\ IF which = "exports" THEN Exports!ExportNext
       ELSE IF which = "tabs" THEN ExportTabs!ExportNext ELSE UNCHANGED exportVars
    /\ IF which = "offer" THEN OfferWizard!ProfileNext
       ELSE IF which = "wizards" THEN OfferWizards!ProfileNext ELSE UNCHANGED profileVars
    /\ IF which = "selection" THEN Selection!SelectionNext
       ELSE IF which = "webkit" THEN SelectionAtOnce!SelectionNext ELSE UNCHANGED selectionVars
    /\ IF which = "guided" THEN SalesDesk!GuidedNext
       ELSE IF which = "retried" THEN SalesDeskRetried!GuidedNext
       ELSE IF which = "twoTasks" THEN SalesDeskOfTwo!GuidedNext ELSE UNCHANGED guidedVars

vars == <<which, bulkVars, userVars, runVars, flowVars, pollerVars,
          sessionVars, salesVars, deliveryVars, policyVars, liveVars,
          feedVars, exportVars, profileVars, selectionVars, guidedVars>>
Spec == Init /\ [][Next]_vars

\* Type invariant: the explored component is well formed.
TypeOK ==
    /\ which \in Components
    /\ which = "bulk" => Bulk!BulkTypeOK
    /\ which = "user" => User!UserTypeOK
    /\ which = "run" => Run!RunTypeOK
    /\ which = "retries" => Retries!RunTypeOK
    /\ which = "flow" => Flow!FlowTypeOK
    /\ which = "poller" => Poller!PollerTypeOK
    /\ which = "session" => Session!SessionTypeOK
    /\ which = "sales" => Sales!SalesTypeOK
    /\ which = "delivery" => Delivery!DeliveryTypeOK
    /\ which = "contacts" => Recipients!DeliveryTypeOK
    /\ which = "policy" => Policy!PolicyTypeOK
    /\ which = "live" => Live!LiveTypeOK
    /\ which = "feed" => Feed!FeedTypeOK
    /\ which = "exports" => Exports!ExportTypeOK
    /\ which = "tabs" => ExportTabs!ExportTypeOK
    /\ which = "offer" => OfferWizard!ProfileTypeOK
    /\ which = "wizards" => OfferWizards!ProfileTypeOK
    /\ which = "selection" => Selection!SelectionTypeOK
    /\ which = "webkit" => SelectionAtOnce!SelectionTypeOK
    /\ which = "guided" => SalesDesk!GuidedTypeOK
    /\ which = "retried" => SalesDeskRetried!GuidedTypeOK
    /\ which = "twoTasks" => SalesDeskOfTwo!GuidedTypeOK

\* The counts of a job are true of its rows, and a failed row is repaired by at
\* most one of its retries, through edits, cancellation and lost permissions.
BulkCountsAreTrue == which = "bulk" => Bulk!BulkCountsAreTrue

\* An action runs once: its key commits one run through repeats and renewed
\* tokens, and a run whose answer was lost is found again by its key, from any
\* control, unless requests for different bodies were under way at once.
ActionRunsOnce == which = "user" => User!ActionRunsOnce

\* A run is carried through: while it is under way some intent goes on with it,
\* and it is called completed only when nothing of it is missing (discovery,
\* fits, recovery, cancellation and retry in any order).
RunIsCarriedThrough ==
    /\ which = "run" => Run!RunIsCarriedThrough
    /\ which = "retries" => Retries!RunIsCarriedThrough

\* "only completed/cancelled are terminal": no worker that was already under
\* way, no denial that is recorded late, no retry and no reconciliation takes
\* a run out of them.
TerminalRunsFinal ==
    /\ Run!TerminalRunsFinal
    /\ Retries!TerminalRunsFinal

\* "This status read must complete before any decision to execute this key
\* again": whatever responses are lost, an execution is never sent while the
\* fate of an earlier one is unread.
NoBlindRepeat == which = "flow" => Flow!NoBlindRepeat

\* However hiding, going offline, timeouts and answers interleave, a page that
\* can be read always has a request or a timer: polling never dies silently.
KeepsPolling == which = "poller" => Poller!KeepsPolling

\* The token the page sends is the one of the actor it shows, whoever signs in
\* elsewhere meanwhile and however late a renewal is answered.
TokenIsActors == which = "session" => Session!TokenIsActors

\* After a sign-out neither a late answer nor a page load brings the session
\* back, even if the cookie survived; only a new sign-in of this tab does.
NoRevival == Session!NoRevival

\* A task's calls and its money agree: the hold covers what may be billed, no
\* call is made twice or beyond the limit, and what may be deleted owes nothing.
LiabilityIsHeld == which = "sales" => Sales!LiabilityIsHeld

\* What leaves the house was approved as it is and leaves once: an approval is
\* for the current text and recipient, and no revision is posted twice.
ApprovedCopySentOnce ==
    /\ which = "delivery" => Delivery!ApprovedCopySentOnce
    /\ which = "contacts" => Recipients!ApprovedCopySentOnce

\* A permission that ended never comes back: once a granted decision no longer
\* permits (superseded, expired, its controller revoked, replaced, demoted and
\* promoted again, or removed and restored) nothing but a new decision does,
\* and an application found stale or expired is not approved later
\* (policy_activation_read, decide_activation).
PermissionEndsForGood == Policy!PermissionEndsForGood

\* The run's in_flight counter covers every search prepared and not yet taken
\* in and every page claimed and not finished, whatever was repeated, lost or
\* taken in twice: otherwise the run would ask more at once than its limit
\* provider_concurrency allows (run_usage.advance_usage, search_intake).
InFlightCoversOpenWork == which = "live" => Live!InFlightCoversOpenWork

\* When every event was received and every read answered, a read sees the last
\* event's state, unless the opening read already counted that event as read:
\* it reads the row before the sequence, and its screen may then stay behind.
LastEventWasRead == which = "feed" => Feed!LastEventWasRead

\* Whatever changed between the preparation and a download, every download of
\* an export hands out the rows, contacts, revision and approval it was
\* prepared with (authorize_export_content): never fewer, never others. And none
\* that was edited, blocked, withdrawn or no longer approved when it was put together,
\* though the export was read before the policy lock, when all of it may have been in force.
ExportsStayFrozen ==
    /\ which = "exports" => Exports!ExportsStayFrozen
    /\ which = "tabs" => ExportTabs!ExportsStayFrozen

\* The profile searches and drafts run under was approved and not taken back, says what
\* the project's offer says and stands on documents that exist; every other approval was
\* taken back. One exact form is saved once, however often it is sent
\* (update_project, save_icp_version, approve_icp, delete_offer_document, ActionIntent).
ActiveProfileHolds ==
    /\ which = "offer" => OfferWizard!ActiveProfileHolds
    /\ which = "wizards" => OfferWizards!ActiveProfileHolds

\* The page shows a project only in the workspace it belongs to; no denial is
\* lost in a check that had begun before it; and once every read is in, the
\* page stands in a workspace that was read, at the address that names it
\* (workspace-picker.tsx: retryAccess, subscribeAccessDenied, restoreScope).
SelectionHolds ==
    /\ which = "selection" => Selection!SelectionHolds
    /\ which = "webkit" => SelectionAtOnce!SelectionHolds

\* Paid work starts only at the cost, and on the words, that were on the
\* screen of a task when its person approved them and again when the start was
\* pressed: a follow-up of a colleague, a new registration, an approval that
\* has run out, another task chosen or an answer that comes late never let an
\* approval pass for something else (execution/sales_tasks.py: "displayed
\* execution quote changed").
WorkIsAsApproved ==
    /\ which = "guided" => SalesDesk!WorkIsAsApproved
    /\ which = "retried" => SalesDeskRetried!WorkIsAsApproved
    /\ which = "twoTasks" => SalesDeskOfTwo!WorkIsAsApproved

\* What was approved is what is used: an export releases the rows it froze, the
\* active profile is the one a person approved for the offer as it is, and paid
\* work on a task starts at the cost that was approved (ExportRelease,
\* OfferProfile, GuidedSales).
ApprovalsHold == ExportsStayFrozen /\ ActiveProfileHolds /\ WorkIsAsApproved

\* What a screen shows is what was read for the place it stands in: the last
\* event of the run it names, the project of its workspace, and the token it
\* sends is that of the actor it shows (RunFeed, WorkspaceSelection,
\* BrowserSession).
ScreensAreCurrent == LastEventWasRead /\ SelectionHolds /\ TokenIsActors

\* A right that ended does not come back: a session that was signed out, and a
\* permission taken away by a policy, a decision or a change of membership
\* (BrowserSession, PolicyActivation).
RightsEndForGood == NoRevival /\ PermissionEndsForGood

----------------------------------------------------------------------------
(* Theorems: what holds of one component, for every value of its constants. *)

(* The poller of a background job.                                         *)

PollerRecord ==
    [stopped : BOOLEAN, done : BOOLEAN, inFlight : BOOLEAN, aborted : BOOLEAN,
     timedOut : BOOLEAN, failures : 0 .. MaxBackoff, timer : BOOLEAN, due : BOOLEAN]
PageRecord == [visible : BOOLEAN, online : BOOLEAN]

\* The poller is well formed, and a page that can be read is polled.
PollerInv == which = "poller" => Poller!PollerTypeOK /\ KeepsPolling /\ jobOver \in BOOLEAN

\* What a poller p is left with on a page pg goes on polling.
GoesOn(p, pg) == Poller!Running(p) /\ Poller!CanRead(pg) => p.inFlight \/ p.timer

\* A poll leaves a request behind, whatever it found.
LEMMA PollGoesOn ==
    ASSUME NEW p \in PollerRecord, NEW pg \in PageRecord
    PROVE  Poller!Poll(p, pg) \in PollerRecord /\ GoesOn(Poller!Poll(p, pg), pg)
BY DEF PollerRecord, PageRecord, GoesOn, Poller!Poll, Poller!Running, Poller!CanRead

\* A scheduled poller has a timer.
LEMMA ScheduleGoesOn ==
    ASSUME NEW p \in PollerRecord, NEW pg \in PageRecord
    PROVE  Poller!Schedule(p, pg) \in PollerRecord /\ GoesOn(Poller!Schedule(p, pg), pg)
BY DEF PollerRecord, PageRecord, GoesOn, Poller!Schedule, Poller!Running, Poller!CanRead

\* Whatever a request ended with, the next one is sent or waited for.
LEMMA RearmGoesOn ==
    ASSUME NEW p \in PollerRecord, NEW soon \in BOOLEAN, page \in PageRecord
    PROVE  Poller!Rearm(p, soon) \in PollerRecord /\ GoesOn(Poller!Rearm(p, soon), page)
<1> DEFINE settled == [p EXCEPT !.inFlight = FALSE, !.due = soon]
<1>1. settled \in PollerRecord
  BY DEF PollerRecord
<1>2. Poller!Poll(settled, page) \in PollerRecord /\ GoesOn(Poller!Poll(settled, page), page)
  BY <1>1, PollGoesOn
<1>3. Poller!Schedule(settled, page) \in PollerRecord /\ GoesOn(Poller!Schedule(settled, page), page)
  BY <1>1, ScheduleGoesOn
<1>4. CASE ~Poller!Running(p)
  BY <1>4 DEF PollerRecord, GoesOn, Poller!Rearm, Poller!Running
<1>5. CASE Poller!Running(p)
  <2> HIDE DEF settled
  <2>1. Poller!Rearm(p, soon) = IF soon /\ Poller!CanRead(page) THEN Poller!Poll(settled, page)
                                ELSE Poller!Schedule(settled, page)
    BY <1>5 DEF Poller!Rearm, settled
  <2> QED BY <2>1, <1>2, <1>3
<1> QED BY <1>4, <1>5

\* However the page is shown, hidden or cut off, it goes on.
LEMMA AvailabilityGoesOn ==
    ASSUME NEW pg \in PageRecord, poller \in PollerRecord
    PROVE  Poller!Availability(pg) \in PollerRecord /\ GoesOn(Poller!Availability(pg), pg)
<1>1. Poller!Poll(poller, pg) \in PollerRecord /\ GoesOn(Poller!Poll(poller, pg), pg)
  BY PollGoesOn
<1>2. Poller!Schedule(poller, pg) \in PollerRecord /\ GoesOn(Poller!Schedule(poller, pg), pg)
  BY ScheduleGoesOn
<1>3. CASE ~Poller!Running(poller)
  BY <1>3 DEF PollerRecord, GoesOn, Poller!Availability, Poller!Running
<1>4. CASE Poller!Running(poller) /\ ~Poller!CanRead(pg)
  BY <1>4 DEF PollerRecord, GoesOn, Poller!Availability, Poller!Running
<1>5. CASE Poller!Running(poller) /\ Poller!CanRead(pg) /\ poller.inFlight
  BY <1>5 DEF PollerRecord, GoesOn, Poller!Availability, Poller!Running
<1>6. CASE Poller!Running(poller) /\ Poller!CanRead(pg) /\ ~poller.inFlight
  BY <1>6, <1>1, <1>2 DEF Poller!Availability
<1> QED BY <1>3, <1>4, <1>5, <1>6

LEMMA PollerStep == PollerInv /\ [Next]_vars => PollerInv'
<1> SUFFICES ASSUME PollerInv, [Next]_vars, which = "poller"
             PROVE  PollerInv'
  BY DEF PollerInv, Next, vars
<1> USE DEF PollerRecord, PageRecord
<1>1. jobOver \in BOOLEAN /\ poller \in PollerRecord /\ page \in PageRecord /\ GoesOn(poller, page)
  BY DEF PollerInv, Poller!PollerTypeOK, KeepsPolling, Poller!KeepsPolling, GoesOn
<1>2. SUFFICES /\ poller' \in PollerRecord /\ page' \in PageRecord
               /\ jobOver' \in BOOLEAN /\ GoesOn(poller', page')
  BY DEF PollerInv, Poller!PollerTypeOK, KeepsPolling, Poller!KeepsPolling, GoesOn,
         Poller!Running, Poller!CanRead
<1>3. Poller!PollerNext \/ UNCHANGED pollerVars
  BY DEF Next, vars
<1>4. CASE Poller!PageEvent
  <2>1. page' \in PageRecord
    BY <1>1, <1>4 DEF Poller!PageEvent
  <2>2. poller' = Poller!Availability(page')
    BY <1>4 DEF Poller!PageEvent
  <2>3. jobOver' = jobOver
    BY <1>4 DEF Poller!PageEvent
  <2> QED BY <2>1, <2>2, <2>3, <1>1, AvailabilityGoesOn
<1>5. CASE Poller!DeadlinePasses
  BY <1>5, <1>1 DEF Poller!DeadlinePasses, GoesOn, Poller!Running, Poller!CanRead
<1>6. CASE Poller!TimerFires
  <2>1. poller' = Poller!Poll(poller, page) /\ page' = page /\ jobOver' = jobOver
    BY <1>6 DEF Poller!TimerFires
  <2> QED BY <2>1, <1>1, PollGoesOn
<1>7. CASE Poller!TimeOut
  BY <1>7, <1>1 DEF Poller!TimeOut, GoesOn, Poller!Running, Poller!CanRead
<1>8. CASE Poller!SettleValue
  <2> DEFINE shown == [poller EXCEPT !.failures = 0, !.done = jobOver]
  <2>1. PICK p \in {poller, shown}, soon \in BOOLEAN : 
         poller' = Poller!Rearm(p, soon) /\ page' = page /\ jobOver' = jobOver
    BY <1>8 DEF Poller!SettleValue
  <2>2. 0 \in 0 .. MaxBackoff
    BY PollerAssumption
  <2>3. shown \in PollerRecord
    BY <2>2, <1>1
  <2>4. p \in PollerRecord
    <3> HIDE DEF shown
    <3> QED BY <2>1, <2>3, <1>1
  <2> QED BY <2>1, <2>4, <1>1, RearmGoesOn
<1>9. CASE Poller!SettleError
  <2> DEFINE stopped == [poller EXCEPT !.stopped = TRUE, !.timer = FALSE]
             refused == [poller EXCEPT !.done = TRUE]
             failed == [poller EXCEPT !.failures = IF @ < MaxBackoff THEN @ + 1 ELSE @]
  <2>1. PICK p \in {poller, stopped, refused, failed}, soon \in BOOLEAN :
         poller' = Poller!Rearm(p, soon) /\ page' = page /\ jobOver' = jobOver
    BY <1>9 DEF Poller!SettleError
  <2>2. failed \in PollerRecord
    BY <1>1, PollerAssumption
  <2>3. stopped \in PollerRecord /\ refused \in PollerRecord
    BY <1>1
  <2>4. p \in PollerRecord
    <3> HIDE DEF stopped, refused, failed
    <3> QED BY <2>1, <2>2, <2>3, <1>1
  <2> QED BY <2>1, <2>4, <1>1, RearmGoesOn
<1>10. CASE Poller!Stop
  BY <1>10, <1>1 DEF Poller!Stop, GoesOn, Poller!Running, Poller!CanRead
<1>11. CASE Poller!JobEnds
  BY <1>11, <1>1 DEF Poller!JobEnds
<1>12. CASE UNCHANGED pollerVars
  BY <1>12, <1>1 DEF pollerVars
<1> QED BY <1>3, <1>4, <1>5, <1>6, <1>7, <1>8, <1>9, <1>10, <1>11, <1>12 DEF Poller!PollerNext

\* The polling of a page that can be read never dies silently, whatever limit
\* there is on its delay (startJobPoller).
THEOREM PollingGoesOn == Spec => []KeepsPolling
<1>1. Init => PollerInv
  <2> SUFFICES ASSUME Init, which = "poller"
               PROVE  PollerInv
    BY DEF PollerInv
  <2>1. page \in PageRecord /\ poller = Poller!Poll(Poller!Idle, page) /\ jobOver = FALSE
    BY DEF Init, Poller!PollerInit, PageRecord
  <2>2. Poller!Idle \in PollerRecord
    BY PollerAssumption DEF Poller!Idle, PollerRecord
  <2>3. poller \in PollerRecord /\ GoesOn(poller, page)
    BY <2>1, <2>2, PollGoesOn
  <2> QED BY <2>1, <2>3 DEF PollerInv, Poller!PollerTypeOK, KeepsPolling, Poller!KeepsPolling,
             GoesOn, PollerRecord, PageRecord
<1>2. PollerInv => KeepsPolling
  BY DEF PollerInv, KeepsPolling
<1> QED BY <1>1, <1>2, PollerStep, PTL DEF Spec
----------------------------------------------------------------------------
(* The Cloudflare Workflow of a claimed job.                               *)

IsCall(c) == c = [op |-> c.op, n |-> c.n, answer |-> c.answer]
IsWorkflow(w) ==
    w = [at |-> w.at, key |-> w.key, needsStatus |-> w.needsStatus, failures |-> w.failures,
         units |-> w.units, counted |-> w.counted, result |-> w.result]

\* What the Workflow knows of an execution that went unanswered: the call after
\* it is a status read, and the loop remembers that it has yet to be made.
BlindRepeatInv ==
    which = "flow" =>
        /\ IsCall(call) /\ IsWorkflow(workflow)
        /\ workflow.at \in {"absent", "loop", "calling", "over"}
        /\ workflow.at \in {"absent", "loop"} => call.op = "none"
        /\ workflow.at = "absent" => ~unread
        /\ workflow.at = "loop" /\ unread => workflow.needsStatus
        /\ NoBlindRepeat

\* An answer that reaches the Workflow says nothing new of what was asked.
LEMMA AnswerKeepsTheCall ==
    ASSUME IsCall(call), NEW n, NEW outcome
    PROVE  IsCall(Flow!Answer(n, outcome)) /\ Flow!Answer(n, outcome).op = call.op
BY DEF IsCall, Flow!Answer

LEMMA FlowStep == BlindRepeatInv /\ [Next]_vars => BlindRepeatInv'
<1> SUFFICES ASSUME BlindRepeatInv, [Next]_vars, which = "flow"
             PROVE  BlindRepeatInv'
  BY DEF BlindRepeatInv, Next, vars
<1>1. Flow!FlowNext \/ UNCHANGED flowVars
  BY DEF Next, vars
<1>2. IsCall(call) /\ IsWorkflow(workflow)
  BY DEF BlindRepeatInv
<1> USE DEF BlindRepeatInv, NoBlindRepeat, Flow!NoBlindRepeat
<1>3. CASE Flow!Publish
  BY <1>3 DEF Flow!Publish, IsCall, IsWorkflow
<1>4. CASE \E created, seen \in BOOLEAN : Flow!Handoff(created, seen)
  BY <1>4 DEF Flow!Handoff, IsCall, IsWorkflow
<1>5. CASE Flow!Redeliver
  BY <1>5 DEF Flow!Redeliver, IsCall, IsWorkflow
<1>6. CASE Flow!Call
  BY <1>6 DEF Flow!Call, IsCall, IsWorkflow
<1>7. CASE Flow!OutOfRoom
  BY <1>7 DEF Flow!OutOfRoom, Flow!Ended, IsCall, IsWorkflow
<1>8. CASE Flow!LoseExecution
  BY <1>8 DEF Flow!LoseExecution, IsCall, IsWorkflow
<1>9. CASE Flow!LoseStatus
  BY <1>9 DEF Flow!LoseStatus, Flow!NoCall, IsCall, IsWorkflow
<1>10. CASE Flow!Refused
  BY <1>10 DEF Flow!Refused, Flow!Ended, Flow!NoCall, IsCall, IsWorkflow
<1>11. CASE Flow!Decide
  BY <1>11 DEF Flow!Decide, Flow!Ended, Flow!NoCall, IsCall, IsWorkflow
<1>12. CASE Flow!Arrive
  BY <1>12, <1>2, AnswerKeepsTheCall DEF Flow!Arrive
<1>13. CASE Flow!Finish
  BY <1>13, <1>2, AnswerKeepsTheCall DEF Flow!Finish
<1>14. CASE Flow!Expire
  BY <1>14 DEF Flow!Expire, IsCall, IsWorkflow
<1>15. CASE Flow!ReadStatus
  BY <1>15, <1>2, AnswerKeepsTheCall DEF Flow!ReadStatus
<1>16. CASE Flow!OtherJob
  BY <1>16 DEF Flow!OtherJob, IsCall, IsWorkflow
<1>17. CASE UNCHANGED flowVars
  BY <1>17 DEF flowVars, IsCall, IsWorkflow
<1> QED BY <1>1, <1>3, <1>4, <1>5, <1>6, <1>7, <1>8, <1>9, <1>10, <1>11, <1>12, <1>13, <1>14,
           <1>15, <1>16, <1>17 DEF Flow!FlowNext

\* No execution is sent while the fate of an earlier one is unread, however
\* many units, operations and failures a Workflow is allowed (runJob).
THEOREM StatusBeforeRepeat == Spec => []NoBlindRepeat
<1>1. Init => BlindRepeatInv
  BY DEF Init, BlindRepeatInv, NoBlindRepeat, Flow!FlowInit, Flow!NoBlindRepeat, Flow!NoCall,
         Flow!NoWorkflow, IsCall, IsWorkflow
<1>2. BlindRepeatInv => NoBlindRepeat
  BY DEF BlindRepeatInv, NoBlindRepeat
<1> QED BY <1>1, <1>2, FlowStep, PTL DEF Spec
----------------------------------------------------------------------------
(* The session of a browser tab.                                           *)

IsAdapter(a) ==
    a = [blocked |-> a.blocked, subject |-> a.subject, token |-> a.token, generation |-> a.generation]
IsStorage(s) == s = [transaction |-> s.transaction, invalidated |-> s.invalidated]
IsScope(s) == s = [actor |-> s.actor, token |-> s.token, generation |-> s.generation]

\* A blocked adapter has no token to send, and the tab remembers that it is
\* blocked: that is what a page load goes by.
RevivalInv ==
    which = "session" =>
        /\ IsAdapter(adapter) /\ IsStorage(storage) /\ IsScope(scope)
        /\ adapter.blocked => storage.invalidated /\ scope.token = "none"

\* What a step may do to a session that was signed out.
StaysSignedOut ==
    /\ adapter.blocked /\ scope'.token # "none" => FALSE
    /\ adapter.blocked /\ ~adapter'.blocked => storage.transaction

\* Signing out leaves nothing of the session.
LEMMA ClearSignsOut ==
    ASSUME NEW transaction, Session!Clear(transaction), IsScope(scope), IsStorage(storage)
    PROVE  /\ IsAdapter(adapter') /\ IsStorage(storage') /\ IsScope(scope')
           /\ adapter'.blocked /\ storage'.invalidated /\ scope'.token = "none"
BY DEF Session!Clear, Session!Cleared, IsAdapter, IsStorage, IsScope

LEMMA SessionStep ==
    ASSUME RevivalInv, [Next]_vars, which = "session"
    PROVE  RevivalInv' /\ StaysSignedOut
<1>1. Session!SessionNext \/ UNCHANGED sessionVars
  BY DEF Next, vars
<1>2. /\ IsAdapter(adapter) /\ IsStorage(storage) /\ IsScope(scope)
      /\ adapter.blocked => storage.invalidated /\ scope.token = "none"
  BY DEF RevivalInv
<1>3. SUFFICES /\ IsAdapter(adapter') /\ IsStorage(storage') /\ IsScope(scope')
               /\ adapter'.blocked => storage'.invalidated /\ scope'.token = "none"
               /\ StaysSignedOut
  BY DEF RevivalInv, IsAdapter, IsStorage, IsScope
<1> USE DEF StaysSignedOut
<1>4. CASE Session!Invalidate
  BY <1>4, <1>2, ClearSignsOut DEF Session!Invalidate
<1>5. CASE Session!Respond
  BY <1>5, <1>2 DEF Session!Respond
<1>6. CASE Session!ReceiveSession
  <2>1. CASE Session!Clear(storage.transaction)
    BY <2>1, <1>2, ClearSignsOut
  <2>2. CASE ~Session!Clear(storage.transaction)
    BY <2>2, <1>6, <1>2 DEF Session!ReceiveSession, Session!Outdated, IsAdapter, IsStorage, IsScope
  <2> QED BY <2>1, <2>2
<1>7. CASE Session!ReceiveToken
  <2>1. CASE Session!Clear(storage.transaction)
    BY <2>1, <1>2, ClearSignsOut
  <2>2. CASE ~Session!Clear(storage.transaction)
    BY <2>2, <1>7, <1>2 DEF Session!ReceiveToken, Session!Accepted, Session!Outdated, IsAdapter,
       IsStorage, IsScope
  <2> QED BY <2>1, <2>2
<1>8. CASE Session!Renew
  BY <1>8, <1>2 DEF Session!Renew
<1>9. CASE Session!Move
  BY <1>9, <1>2 DEF Session!Move, IsScope
<1>10. CASE Session!SignIn
  BY <1>10, <1>2 DEF Session!SignIn, IsStorage
<1>11. CASE Session!Load
  BY <1>11, <1>2 DEF Session!Load, Session!Clean, IsAdapter, IsStorage, IsScope
<1>12. CASE Session!Callback
  BY <1>12, <1>2 DEF Session!Callback, Session!Clean, IsAdapter, IsStorage, IsScope
<1>13. CASE UNCHANGED sessionVars
  BY <1>13, <1>2 DEF sessionVars
<1> QED BY <1>1, <1>4, <1>5, <1>6, <1>7, <1>8, <1>9, <1>10, <1>11, <1>12, <1>13 DEF Session!SessionNext
----------------------------------------------------------------------------
(* Permissions.                                                            *)

AuthorityRecord == [approver : Members, membership : Nat, status : {"active", "revoked"}, until : Ends]
RequestRecord ==
    [requester : Members, authority : Nat, head : Nat, until : Ends, deadline : Ends,
     outcome : {"none", "approved", "rejected", "withdrawn"}]
DecisionRecord ==
    [status : {"permitted", "requires_review", "blocked"}, request : Nat, until : Ends]

\* Rows name rows that exist: a permitting decision its application, an
\* application its designation and a head that was written.
RowsAreNamed ==
    /\ \A r \in DOMAIN requests :
          requests[r].authority \in DOMAIN authorities /\ requests[r].head <= Len(decisions)
    /\ \A d \in DOMAIN decisions :
          decisions[d].status = "permitted" => decisions[d].request \in DOMAIN requests

\* No designation is bound to a membership that is still to come.
MembershipsAreOld ==
    \A n \in DOMAIN authorities :
        authorities[n].membership <= members[authorities[n].approver].version

PermissionInv ==
    which = "policy" =>
        /\ instant \in Nat
        /\ members \in [Members -> [admin : BOOLEAN, active : BOOLEAN, version : Nat]]
        /\ authorities \in Seq(AuthorityRecord)
        /\ requests \in Seq(RequestRecord)
        /\ decisions \in Seq(DecisionRecord)
        /\ RowsAreNamed /\ MembershipsAreOld

\* What no step does: rows are added and resolved, never changed otherwise, a
\* membership that changes gets a new version, and time goes on.
Extends(s, t) == Len(s) <= Len(t) /\ \A n \in DOMAIN s : n \in DOMAIN t /\ t[n] = s[n]

OnlyForward ==
    /\ instant' \in Nat /\ instant <= instant'
    /\ \A u \in Members : members'[u] = members[u] \/ members'[u].version > members[u].version
    /\ Extends(authorities, authorities') /\ Extends(decisions, decisions')
    /\ \A r \in DOMAIN requests :
          /\ r \in DOMAIN requests'
          /\ requests'[r].authority = requests[r].authority
          /\ requests'[r].head = requests[r].head
          /\ requests'[r].deadline = requests[r].deadline
          /\ requests[r].outcome # "none" => requests'[r].outcome = requests[r].outcome
          /\ requests'[r].outcome = "approved" /\ requests[r].outcome = "none" => Policy!Decidable(r)

\* A sequence keeps its rows when one is added.
LEMMA AppendExtends ==
    ASSUME NEW S, NEW s \in Seq(S), NEW e \in S
    PROVE  /\ Append(s, e) \in Seq(S) /\ Extends(s, Append(s, e))
           /\ Len(Append(s, e)) = Len(s) + 1 /\ Append(s, e)[Len(s) + 1] = e
           /\ DOMAIN Append(s, e) = DOMAIN s \cup {Len(s) + 1}
BY DEF Extends

LEMMA SameExtends == ASSUME NEW S, NEW s \in Seq(S) PROVE Extends(s, s)
BY DEF Extends

LEMMA PolicyStep ==
    ASSUME PermissionInv, [Next]_vars, which = "policy"
    PROVE  PermissionInv' /\ OnlyForward
<1>1. Policy!PolicyNext \/ UNCHANGED policyVars
  BY DEF Next, vars
<1>2. /\ instant \in Nat
      /\ members \in [Members -> [admin : BOOLEAN, active : BOOLEAN, version : Nat]]
      /\ authorities \in Seq(AuthorityRecord) /\ requests \in Seq(RequestRecord)
      /\ decisions \in Seq(DecisionRecord)
      /\ RowsAreNamed /\ MembershipsAreOld
  BY DEF PermissionInv
<1>3. /\ Extends(authorities, authorities) /\ Extends(decisions, decisions)
  BY <1>2, SameExtends
<1>4. /\ \A n \in DOMAIN authorities : authorities[n] \in AuthorityRecord
      /\ \A r \in DOMAIN requests : requests[r] \in RequestRecord /\ requests[r].head \in Nat
  <2>1. \A n \in DOMAIN authorities : authorities[n] \in AuthorityRecord
    BY <1>2
  <2>2. \A r \in DOMAIN requests : requests[r] \in RequestRecord
    BY <1>2
  <2> QED BY <2>1, <2>2 DEF RequestRecord
<1>5. ASSUME NEW u \in Members, NEW admin \in BOOLEAN, NEW active \in BOOLEAN,
             Policy!ApplyUpdate(u, admin, active), UNCHANGED <<instant, authorities, requests, decisions>>
      PROVE  /\ members' \in [Members -> [admin : BOOLEAN, active : BOOLEAN, version : Nat]]
             /\ MembershipsAreOld' /\ RowsAreNamed' /\ OnlyForward
  <2>1. members' = [members EXCEPT ![u] = [admin |-> admin, active |-> active, version |-> members[u].version + 1]]
    BY <1>5 DEF Policy!ApplyUpdate
  <2>2. members' \in [Members -> [admin : BOOLEAN, active : BOOLEAN, version : Nat]]
    BY <2>1, <1>2
  <2>3. \A m \in Members : members'[m] = members[m] \/ members'[m].version > members[m].version
    BY <2>1, <1>2
  <2>4. MembershipsAreOld'
    <3> SUFFICES ASSUME NEW n \in DOMAIN authorities
                 PROVE  authorities[n].membership <= members'[authorities[n].approver].version
      BY <1>5 DEF MembershipsAreOld
    <3>1. authorities[n].approver \in Members /\ authorities[n].membership \in Nat
      BY <1>4 DEF AuthorityRecord
    <3>2. /\ members[authorities[n].approver].version \in Nat
          /\ members'[authorities[n].approver].version \in Nat
      BY <3>1, <1>2, <2>2
    <3>3. authorities[n].membership <= members[authorities[n].approver].version
      BY <1>2 DEF MembershipsAreOld
    <3> QED BY <3>1, <3>2, <3>3, <2>3
  <2>5. RowsAreNamed'
    BY <1>2, <1>5 DEF RowsAreNamed
  <2> QED BY <2>2, <2>3, <2>4, <2>5, <1>2, <1>3, <1>5 DEF OnlyForward
<1>6. ASSUME NEW row \in AuthorityRecord, authorities' = Append(authorities, row),
             row.membership <= members[row.approver].version,
             UNCHANGED <<instant, members, requests, decisions, source>>
      PROVE  /\ authorities' \in Seq(AuthorityRecord)
             /\ MembershipsAreOld' /\ RowsAreNamed' /\ OnlyForward
  <2>1. /\ authorities' \in Seq(AuthorityRecord) /\ Extends(authorities, authorities')
        /\ DOMAIN authorities' = DOMAIN authorities \cup {Len(authorities) + 1}
        /\ authorities'[Len(authorities) + 1] = row
    BY <1>6, <1>2, AppendExtends
  <2>2. MembershipsAreOld'
    BY <2>1, <1>2, <1>6 DEF MembershipsAreOld, Extends
  <2>3. RowsAreNamed'
    BY <2>1, <1>2, <1>6 DEF RowsAreNamed
  <2> QED BY <2>1, <2>2, <2>3, <1>2, <1>3, <1>6 DEF OnlyForward
<1>7. ASSUME NEW r \in DOMAIN requests, NEW outcome \in {"approved", "rejected", "withdrawn"},
             requests[r].outcome = "none", outcome = "approved" => Policy!Decidable(r),
             requests' = [requests EXCEPT ![r].outcome = outcome],
             UNCHANGED <<instant, members, authorities>>, Extends(decisions, decisions')
      PROVE  /\ requests' \in Seq(RequestRecord) /\ DOMAIN requests' = DOMAIN requests
             /\ MembershipsAreOld' /\ OnlyForward
             /\ \A q \in DOMAIN requests' : /\ requests'[q].authority \in DOMAIN authorities'
                                            /\ requests'[q].head <= Len(decisions)
  <2> DEFINE row == [requests[r] EXCEPT !.outcome = outcome]
  <2>1. requests' \in Seq(RequestRecord) /\ DOMAIN requests' = DOMAIN requests
    <3>1. row \in RequestRecord
      BY <1>4 DEF RequestRecord
    <3>2. requests' = [requests EXCEPT ![r] = row]
      BY <1>7
    <3> HIDE DEF row
    <3> QED BY <3>1, <3>2, <1>2
  <2>2. \A q \in DOMAIN requests :
          /\ requests'[q].authority = requests[q].authority
          /\ requests'[q].head = requests[q].head
          /\ requests'[q].deadline = requests[q].deadline
          /\ requests[q].outcome # "none" => requests'[q].outcome = requests[q].outcome
          /\ requests'[q].outcome = "approved" /\ requests[q].outcome = "none" => Policy!Decidable(q)
    BY <1>7, <1>2, <1>4 DEF RequestRecord
  <2>3. MembershipsAreOld'
    BY <1>2, <1>7 DEF MembershipsAreOld
  <2>4. OnlyForward
    BY <2>1, <2>2, <1>2, <1>3, <1>7 DEF OnlyForward
  <2> QED BY <2>1, <2>2, <2>3, <2>4, <1>2, <1>7 DEF RowsAreNamed
<1>8. ASSUME NEW actor, NEW u \in Members, NEW admin \in BOOLEAN, NEW active \in BOOLEAN,
             Policy!UpdateMembership(actor, u, admin, active)
      PROVE  PermissionInv' /\ OnlyForward
  BY <1>8, <1>5, <1>2 DEF Policy!UpdateMembership, PermissionInv
<1>9. ASSUME NEW actor, NEW u \in Members, Policy!RestoreStaff(actor, u)
      PROVE  PermissionInv' /\ OnlyForward
  <2>1. members[u].admin \in BOOLEAN
    BY <1>2
  <2> QED BY <2>1, <1>9, <1>5, <1>2 DEF Policy!RestoreStaff, PermissionInv
<1>10. ASSUME NEW u \in Members, NEW until \in Ends, Policy!Provision(u, until)
       PROVE  PermissionInv' /\ OnlyForward
  <2> DEFINE row == [approver |-> u, membership |-> members[u].version, status |-> "active", until |-> until]
  <2>1. row \in AuthorityRecord /\ row.membership <= members[row.approver].version
    BY <1>2 DEF AuthorityRecord
  <2>2. authorities' = Append(authorities, row) /\ UNCHANGED <<instant, members, requests, decisions, source>>
    BY <1>10 DEF Policy!Provision
  <2> HIDE DEF row
  <2> QED BY <2>1, <2>2, <1>6, <1>2 DEF PermissionInv
<1>11. ASSUME NEW a \in DOMAIN authorities, Policy!RevokeAuthority(a)
       PROVE  PermissionInv' /\ OnlyForward
  <2> DEFINE row == [authorities[a] EXCEPT !.status = "revoked"]
  <2>0. authorities[a] \in AuthorityRecord
    BY <1>2
  <2>1. row \in AuthorityRecord
    BY <2>0 DEF AuthorityRecord
  <2>2. row.membership <= members[row.approver].version
    BY <2>0, <1>2 DEF AuthorityRecord, MembershipsAreOld
  <2>3. authorities' = Append(authorities, row) /\ UNCHANGED <<instant, members, requests, decisions, source>>
    BY <1>11 DEF Policy!RevokeAuthority
  <2> HIDE DEF row
  <2> QED BY <2>1, <2>2, <2>3, <1>6, <1>2 DEF PermissionInv
<1>12. ASSUME NEW actor \in Members, NEW a \in DOMAIN authorities, NEW until \in Ends, NEW deadline \in Ends,
              Policy!SubmitActivation(actor, a, until, deadline)
       PROVE  PermissionInv' /\ OnlyForward
  <2> DEFINE row == [requester |-> actor, authority |-> a, head |-> Policy!LatestHead,
                     until |-> until, deadline |-> deadline, outcome |-> "none"]
  <2>1. row \in RequestRecord /\ row.authority \in DOMAIN authorities /\ row.head <= Len(decisions)
        /\ row.outcome = "none"
    BY <1>2 DEF RequestRecord, Policy!LatestHead
  <2>2. requests' = Append(requests, row) /\ UNCHANGED <<instant, members, authorities, decisions>>
    BY <1>12 DEF Policy!SubmitActivation
  <2> HIDE DEF row
  <2>3. /\ requests' \in Seq(RequestRecord) /\ Extends(requests, requests')
        /\ DOMAIN requests' = DOMAIN requests \cup {Len(requests) + 1}
        /\ requests'[Len(requests) + 1] = row
    BY <2>1, <2>2, <1>2, AppendExtends
  <2>4. RowsAreNamed'
    BY <2>1, <2>2, <2>3, <1>2 DEF RowsAreNamed, Extends
  <2>5. MembershipsAreOld'
    BY <2>2, <1>2 DEF MembershipsAreOld
  <2>6. OnlyForward
    BY <2>2, <2>3, <1>2, <1>3 DEF OnlyForward, Extends
  <2> QED BY <2>2, <2>3, <2>4, <2>5, <2>6, <1>2 DEF PermissionInv
<1>13. ASSUME NEW r \in DOMAIN requests, Policy!Approve(r)
       PROVE  PermissionInv' /\ OnlyForward
  <2> DEFINE row == [status |-> "permitted", request |-> r, until |-> requests[r].until]
  <2>0. requests[r] \in RequestRecord /\ r \in Nat
    BY <1>2
  <2>1. row \in DecisionRecord /\ row.request = r
    BY <2>0 DEF RequestRecord, DecisionRecord
  <2>2. /\ decisions' = Append(decisions, row) /\ requests' = [requests EXCEPT ![r].outcome = "approved"]
        /\ UNCHANGED <<instant, members, authorities>> /\ Policy!Decidable(r) /\ requests[r].outcome = "none"
    BY <1>13 DEF Policy!Approve, Policy!Decidable
  <2> HIDE DEF row
  <2>3. /\ decisions' \in Seq(DecisionRecord) /\ Extends(decisions, decisions')
        /\ DOMAIN decisions' = DOMAIN decisions \cup {Len(decisions) + 1}
        /\ decisions'[Len(decisions) + 1] = row /\ Len(decisions') = Len(decisions) + 1
    BY <2>1, <2>2, <1>2, AppendExtends
  <2>4. /\ requests' \in Seq(RequestRecord) /\ DOMAIN requests' = DOMAIN requests
        /\ MembershipsAreOld' /\ OnlyForward
        /\ \A q \in DOMAIN requests' : /\ requests'[q].authority \in DOMAIN authorities'
                                       /\ requests'[q].head <= Len(decisions)
    BY <2>2, <2>3, <1>7
  <2>5. \A q \in DOMAIN requests' : requests'[q].head \in Nat
    <3>1. \A q \in DOMAIN requests' : requests'[q] \in RequestRecord
      BY <2>4
    <3> QED BY <3>1 DEF RequestRecord
  <2>6. \A q \in DOMAIN requests' : requests'[q].head <= Len(decisions')
    BY <2>3, <2>4, <2>5, <1>2
  <2>7. \A d \in DOMAIN decisions' : decisions'[d].status = "permitted" => decisions'[d].request \in DOMAIN requests'
    BY <2>1, <2>3, <2>4, <1>2 DEF RowsAreNamed, Extends
  <2> QED BY <2>2, <2>3, <2>4, <2>6, <2>7, <1>2 DEF PermissionInv, RowsAreNamed
<1>14. ASSUME NEW r \in DOMAIN requests, Policy!Reject(r) \/ Policy!WithdrawActivation(r)
       PROVE  PermissionInv' /\ OnlyForward
  <2>1. /\ requests[r].outcome = "none"
        /\ UNCHANGED <<instant, members, authorities, decisions>>
    BY <1>14 DEF Policy!Reject, Policy!WithdrawActivation, Policy!Decidable
  <2>2. PICK outcome \in {"rejected", "withdrawn"} : requests' = [requests EXCEPT ![r].outcome = outcome]
    BY <1>14 DEF Policy!Reject, Policy!WithdrawActivation
  <2>3. /\ requests' \in Seq(RequestRecord) /\ DOMAIN requests' = DOMAIN requests
        /\ MembershipsAreOld' /\ OnlyForward
        /\ \A q \in DOMAIN requests' : /\ requests'[q].authority \in DOMAIN authorities'
                                       /\ requests'[q].head <= Len(decisions)
    BY <2>1, <2>2, <1>3, <1>7
  <2>4. RowsAreNamed'
    BY <2>1, <2>3, <1>2 DEF RowsAreNamed
  <2> QED BY <2>1, <2>3, <2>4, <1>2 DEF PermissionInv
<1>15. ASSUME NEW actor, NEW status \in {"requires_review", "blocked"}, NEW until \in Ends,
              Policy!RecordPolicyDecision(actor, status, until)
       PROVE  PermissionInv' /\ OnlyForward
  <2> DEFINE row == [status |-> status, request |-> Policy!Manual, until |-> until]
  <2>1. row \in DecisionRecord /\ row.status # "permitted"
    BY DEF DecisionRecord, Policy!Manual
  <2>2. decisions' = Append(decisions, row) /\ UNCHANGED <<instant, members, authorities, requests>>
    BY <1>15 DEF Policy!RecordPolicyDecision
  <2> HIDE DEF row
  <2>3. /\ decisions' \in Seq(DecisionRecord) /\ Extends(decisions, decisions')
        /\ DOMAIN decisions' = DOMAIN decisions \cup {Len(decisions) + 1}
        /\ decisions'[Len(decisions) + 1] = row /\ Len(decisions') = Len(decisions) + 1
    BY <2>1, <2>2, <1>2, AppendExtends
  <2>4. RowsAreNamed'
    BY <1>4, <2>1, <2>2, <2>3, <1>2 DEF RowsAreNamed, Extends
  <2>5. MembershipsAreOld'
    BY <2>2, <1>2 DEF MembershipsAreOld
  <2>6. OnlyForward
    BY <2>2, <2>3, <1>2, <1>3 DEF OnlyForward
  <2> QED BY <2>2, <2>3, <2>4, <2>5, <2>6, <1>2 DEF PermissionInv
<1>16. ASSUME Policy!DropSource \/ Policy!Tick \/ UNCHANGED policyVars
       PROVE  PermissionInv' /\ OnlyForward
  <2>1. instant' \in Nat /\ instant <= instant' /\ UNCHANGED <<members, authorities, requests, decisions>>
    BY <1>16, <1>2 DEF Policy!DropSource, Policy!Tick, policyVars
  <2>2. RowsAreNamed' /\ MembershipsAreOld'
    BY <2>1, <1>2 DEF RowsAreNamed, MembershipsAreOld
  <2>3. OnlyForward
    BY <2>1, <1>2, <1>3 DEF OnlyForward
  <2> QED BY <2>1, <2>2, <2>3, <1>2 DEF PermissionInv
<1> QED BY <1>1, <1>8, <1>9, <1>10, <1>11, <1>12, <1>13, <1>14, <1>15, <1>16 DEF Policy!PolicyNext

\* A designation that is eligible after a step was eligible before it.
LEMMA EligibleBefore ==
    ASSUME PermissionInv, OnlyForward, which = "policy",
           NEW a \in DOMAIN authorities, Policy!AuthorityEligible(a)'
    PROVE  Policy!AuthorityEligible(a)
<1>1. authorities[a] \in AuthorityRecord /\ authorities'[a] = authorities[a]
  BY DEF PermissionInv, OnlyForward, Extends
<1>2. instant \in Nat /\ instant' \in Nat /\ instant <= instant' /\ authorities[a].until \in Nat
  BY <1>1, PolicyAssumption DEF PermissionInv, OnlyForward, AuthorityRecord
<1> DEFINE u == authorities[a].approver
<1>3. members'[u] = members[u]
  BY <1>1 DEF PermissionInv, OnlyForward, MembershipsAreOld, AuthorityRecord, Policy!AuthorityEligible
<1>4. Policy!IsCurrentAuthority(a)
  BY <1>1 DEF OnlyForward, Extends, Policy!AuthorityEligible, Policy!IsCurrentAuthority
<1> QED BY <1>1, <1>2, <1>3, <1>4 DEF Policy!AuthorityEligible, Policy!CurrentAdmin, PermissionInv

\* A decision that permits after a step permitted before it.
LEMMA PermittedBefore ==
    ASSUME PermissionInv, OnlyForward, which = "policy",
           NEW d \in DOMAIN decisions, Policy!Permits(d)'
    PROVE  Policy!Permits(d)
<1> DEFINE r == decisions[d].request
           a == requests[r].authority
<1>1. decisions'[d] = decisions[d] /\ decisions[d] \in DecisionRecord
  BY DEF PermissionInv, OnlyForward, Extends
<1>2. instant \in Nat /\ instant' \in Nat /\ instant <= instant' /\ decisions[d].until \in Nat
  BY <1>1, PolicyAssumption DEF PermissionInv, OnlyForward, DecisionRecord
<1>3. d = Policy!LatestHead
  BY DEF Policy!Permits, Policy!LatestHead, PermissionInv, OnlyForward, Extends
<1>4. decisions[d].status = "permitted" /\ instant' < decisions[d].until
  BY <1>1, <1>2 DEF Policy!Permits, Policy!EffectiveStatus
<1>5. r \in DOMAIN requests /\ a \in DOMAIN authorities /\ requests'[r].authority = a
  BY <1>4 DEF PermissionInv, RowsAreNamed, OnlyForward
<1>6. Policy!AuthorityEligible(requests[decisions[d].request].authority)'
  BY <1>1, <1>2, <1>4 DEF Policy!Permits, Policy!EffectiveStatus
<1> HIDE DEF a
<1>7. PICK b \in DOMAIN authorities : b = a
  BY <1>5
<1>8. Policy!AuthorityEligible(b)'
  BY <1>1, <1>5, <1>6, <1>7 DEF Policy!AuthorityEligible, Policy!IsCurrentAuthority
<1>9. Policy!AuthorityEligible(b)
  BY <1>8, EligibleBefore
<1> QED BY <1>2, <1>3, <1>4, <1>7, <1>9 DEF a, Policy!Permits, Policy!EffectiveStatus

\* An application found stale or expired is not open again after a step.
LEMMA StaleBefore ==
    ASSUME PermissionInv, OnlyForward, which = "policy", requests' \in Seq(RequestRecord),
           NEW r \in DOMAIN requests, Policy!RequestState(r) \in {"stale", "expired"}
    PROVE  Policy!RequestState(r)' \notin {"submitted", "approved"}
<1> DEFINE a == requests[r].authority
<1>1. requests[r] \in RequestRecord
  BY DEF PermissionInv
<1>2. instant \in Nat /\ instant' \in Nat /\ instant <= instant' /\ requests[r].deadline \in Nat
  BY <1>1, PolicyAssumption DEF PermissionInv, OnlyForward, RequestRecord
<1>3. requests[r].outcome = "none"
  BY <1>1 DEF Policy!RequestState, RequestRecord
<1>4. /\ requests'[r].authority = a /\ requests'[r].head = requests[r].head
      /\ requests'[r].deadline = requests[r].deadline
      /\ requests'[r].outcome = "approved" => Policy!Decidable(r)
  BY <1>3 DEF OnlyForward
<1>. requests'[r].outcome \in {"none", "approved", "rejected", "withdrawn"}
  <2>1. requests'[r] \in RequestRecord
    BY DEF OnlyForward
  <2> QED BY <2>1 DEF RequestRecord
<1>5. CASE requests[r].deadline <= instant
  BY <1>2, <1>4, <1>5 DEF Policy!RequestState, Policy!Decidable
<1>6. CASE ~(requests[r].deadline <= instant)
  <2>1. ~(Policy!AuthorityEligible(a) /\ requests[r].head = Policy!LatestHead)
    BY <1>3, <1>6 DEF Policy!RequestState
  <2>2. requests'[r].outcome # "approved"
    BY <2>1, <1>4 DEF Policy!Decidable
  <2>3. a \in DOMAIN authorities /\ requests[r].head \in Nat /\ requests[r].head <= Len(decisions)
    BY <1>1 DEF PermissionInv, RowsAreNamed, RequestRecord
  <2>4. ASSUME Policy!RequestState(r)' = "submitted"
        PROVE  FALSE
    <3>1. Policy!AuthorityEligible(requests[r].authority)' /\ requests'[r].head = Policy!LatestHead'
      BY <2>4 DEF Policy!RequestState
    <3>2. requests[r].head = Policy!LatestHead
      BY <3>1, <2>3, <1>4 DEF Policy!LatestHead, PermissionInv, OnlyForward, Extends
    <3> HIDE DEF a
    <3>3. PICK b \in DOMAIN authorities : b = a
      BY <2>3
    <3>4. Policy!AuthorityEligible(b)'
      BY <3>1, <3>3, <1>4 DEF Policy!AuthorityEligible, Policy!IsCurrentAuthority
    <3>5. Policy!AuthorityEligible(b)
      BY <3>4, EligibleBefore
    <3> QED BY <3>2, <3>3, <3>5, <2>1
  <2> QED BY <2>2, <2>4 DEF Policy!RequestState
<1> QED BY <1>5, <1>6

\* Neither a session that was signed out nor a permission that ended comes
\* back, for any users, terms and numbers of changes (SessionScope,
\* createNeonAuthAdapter, policy_activation_read, decide_activation).
THEOREM EndedRightsStayEnded == Spec => RightsEndForGood
<1>1. Init => RevivalInv
  BY DEF Init, RevivalInv, Session!SessionInit, Session!Clean, IsAdapter, IsStorage, IsScope
<1>2. Init => PermissionInv
  <2> SUFFICES ASSUME Init, which = "policy"
               PROVE  PermissionInv
    BY DEF PermissionInv
  <2>1. /\ instant = 0
        /\ members = [u \in Members |-> [admin |-> TRUE, active |-> TRUE, version |-> 1]]
        /\ authorities = <<>> /\ requests = <<>> /\ decisions = <<>>
    BY DEF Init, Policy!PolicyInit
  <2>2. /\ authorities \in Seq(AuthorityRecord) /\ requests \in Seq(RequestRecord)
        /\ decisions \in Seq(DecisionRecord)
    BY <2>1
  <2> QED BY <2>1, <2>2 DEF PermissionInv, RowsAreNamed, MembershipsAreOld
<1>3. RevivalInv /\ [Next]_vars => RevivalInv'
  BY SessionStep DEF RevivalInv, Next, vars
<1>4. PermissionInv /\ [Next]_vars => PermissionInv'
  BY PolicyStep DEF PermissionInv, Next, vars
<1>5. RevivalInv /\ [Next]_vars =>
        [/\ adapter.blocked /\ scope'.token # "none" => FALSE
         /\ adapter.blocked /\ ~adapter'.blocked => storage.transaction]_sessionVars
  <2> SUFFICES ASSUME RevivalInv, [Next]_vars, sessionVars' # sessionVars
               PROVE  StaysSignedOut
    BY DEF StaysSignedOut
  <2>1. which = "session"
    BY DEF Next, vars
  <2> QED BY <2>1, SessionStep
<1>6. PermissionInv /\ [Next]_vars =>
        [/\ \A d \in DOMAIN decisions : Policy!Permits(d)' => Policy!Permits(d)
         /\ \A r \in DOMAIN requests :
               Policy!RequestState(r) \in {"stale", "expired"} =>
                  Policy!RequestState(r)' \notin {"submitted", "approved"}]_policyVars
  <2> SUFFICES ASSUME PermissionInv, [Next]_vars, policyVars' # policyVars
               PROVE  /\ \A d \in DOMAIN decisions : Policy!Permits(d)' => Policy!Permits(d)
                      /\ \A r \in DOMAIN requests :
                            Policy!RequestState(r) \in {"stale", "expired"} =>
                               Policy!RequestState(r)' \notin {"submitted", "approved"}
    OBVIOUS
  <2>1. which = "policy"
    BY DEF Next, vars
  <2>2. OnlyForward /\ PermissionInv' /\ which' = which
    BY <2>1, PolicyStep DEF Next, vars
  <2>3. requests' \in Seq(RequestRecord)
    BY <2>1, <2>2 DEF PermissionInv
  <2> QED BY <2>1, <2>2, <2>3, PermittedBefore, StaleBefore
<1>7. Spec => Session!NoRevival
  BY <1>1, <1>3, <1>5, PTL DEF Spec, Session!NoRevival, sessionVars, Session!sessionVars
<1>8. Spec => Policy!PermissionEndsForGood
  BY <1>2, <1>4, <1>6, PTL DEF Spec, Policy!PermissionEndsForGood, policyVars, Policy!policyVars
<1> QED BY <1>7, <1>8 DEF RightsEndForGood, NoRevival, PermissionEndsForGood
----------------------------------------------------------------------------
(* The user action.                                                        *)

SendRecord ==
    [client : {"unused", "waiting", "shown", "failed"},
     server : {"none", "sent", "inserting", "working", "committed", "over"},
     answer : {"none", "data", "conflict", "refused", "unauthorized"},
     scope : Scopes \cup {"none"}, body : Bodies \cup {"none"}, key : Nat, intent : Nat,
     generation : Nat, disprovable : BOOLEAN, renewed : BOOLEAN]
IntentRecord ==
    [id : Nat, body : Bodies \cup {"none"}, key : Nat, uncertain : BOOLEAN, pending : BOOLEAN]

UserTypes ==
    /\ session \in [scope : Scopes, generation : Nat]
    /\ records \in [Scopes -> IntentRecord]
    /\ sends \in [User!Sends -> SendRecord]
    /\ keys \in [User!Sends -> Bodies \cup {"none"}]
    /\ decided \subseteq User!Sends

IsStarted(f) == sends[f].client # "unused"

\* A request that was sent has its key, and one that was not has no effect.
SendsAreWhole ==
    \A f \in User!Sends :
        /\ IsStarted(f) => /\ sends[f].key \in User!Sends /\ sends[f].scope \in Scopes
                           /\ sends[f].body \in Bodies /\ sends[f].intent # 0
        /\ ~IsStarted(f) => sends[f].server = "none" /\ sends[f].answer = "none"
        /\ sends[f].server \in {"sent", "inserting", "working"} => sends[f].answer = "none"
        /\ sends[f].server = "committed" => sends[f].answer = "data"

\* What a transaction may rely on: a key that is held is not committed, and a
\* committed one has the run and the answer of its body.
KeysAreOfRuns ==
    /\ \A f \in User!Sends :
          /\ sends[f].server = "working" => keys[sends[f].key] = "none"
          /\ sends[f].answer = "data" => IsStarted(f) /\ keys[sends[f].key] = sends[f].body
    /\ \A f, g \in User!Sends :
          /\ sends[f].server = "working" /\ sends[g].server = "working" /\ sends[f].key = sends[g].key
                => f = g
          /\ sends[f].server = "committed" /\ sends[g].server = "committed" /\ sends[f].key = sends[g].key
                => f = g
    /\ \A k \in User!Sends :
          keys[k] # "none" => \E g \in User!Sends : /\ sends[g].server = "committed" /\ sends[g].key = k
                                                   /\ sends[g].body = keys[k]

\* A key stays in the scope it was made in, with the request it was made for.
KeysStayInScope ==
    /\ \A f \in User!Sends :
          IsStarted(f) => /\ IsStarted(sends[f].key)
                          /\ sends[sends[f].key].scope = sends[f].scope
    /\ \A s \in Scopes :
          /\ records[s].id = 0 => records[s].key = 0 /\ ~records[s].uncertain
          /\ records[s].key # 0 => /\ records[s].key \in User!Sends /\ IsStarted(records[s].key)
                                   /\ sends[records[s].key].scope = s

OneRunInv == which = "user" => UserTypes /\ SendsAreWhole /\ KeysAreOfRuns /\ KeysStayInScope

\* A step of the server changes what became of a request, not the request.
SameRequest(f) ==
    /\ sends'[f].client = sends[f].client /\ sends'[f].key = sends[f].key
    /\ sends'[f].scope = sends[f].scope /\ sends'[f].body = sends[f].body
    /\ sends'[f].intent = sends[f].intent /\ sends'[f].disprovable = sends[f].disprovable
SameOutcome(f) ==
    /\ sends'[f].server = sends[f].server /\ sends'[f].answer = sends[f].answer
    /\ sends'[f].key = sends[f].key /\ sends'[f].body = sends[f].body
    /\ sends'[f].scope = sends[f].scope /\ sends'[f].intent = sends[f].intent
    /\ IsStarted(f)' <=> IsStarted(f)

\* A record that is kept stays that of its key; what becomes uncertain exists.
SameRecord(t) ==
    \/ records'[t] = User!NoIntent
    \/ /\ records'[t].id = records[t].id /\ records'[t].key = records[t].key
       /\ records'[t].uncertain => records[t].uncertain \/ records[t].id # 0

\* What a browser does to its requests leaves the server's outcomes alone.
LEMMA OutcomesKept ==
    ASSUME UserTypes, SendsAreWhole, KeysAreOfRuns, KeysStayInScope, UNCHANGED keys,
           \A f \in User!Sends : SameOutcome(f), \A t \in Scopes : SameRecord(t)
    PROVE  SendsAreWhole' /\ KeysAreOfRuns' /\ KeysStayInScope'
<1>1. SendsAreWhole'
  BY DEF SendsAreWhole, SameOutcome, IsStarted
<1>2. KeysAreOfRuns'
  BY DEF KeysAreOfRuns, SameOutcome, IsStarted
<1>3. ASSUME NEW f \in User!Sends, sends'[f].client # "unused"
      PROVE  sends'[sends'[f].key].client # "unused" /\ sends'[sends'[f].key].scope = sends'[f].scope
  <2>1. IsStarted(f) /\ sends[f].key \in User!Sends /\ sends'[f].key = sends[f].key
    BY <1>3 DEF SameOutcome, IsStarted, SendsAreWhole
  <2> QED BY <2>1 DEF KeysStayInScope, SameOutcome, IsStarted
<1>4. ASSUME NEW t \in Scopes
      PROVE  /\ records'[t].id = 0 => records'[t].key = 0 /\ ~records'[t].uncertain
             /\ records'[t].key # 0 => /\ records'[t].key \in User!Sends
                                       /\ sends'[records'[t].key].client # "unused"
                                       /\ sends'[records'[t].key].scope = t
  <2>1. CASE records'[t] = User!NoIntent
    BY <2>1 DEF User!NoIntent
  <2>2. CASE records'[t] # User!NoIntent
    BY <2>2 DEF SameRecord, KeysStayInScope, SameOutcome, IsStarted
  <2> QED BY <2>1, <2>2
<1> QED BY <1>1, <1>2, <1>3, <1>4 DEF KeysStayInScope, IsStarted

\* What the server's write of an outcome changes.
Wrote(f, server, answer) ==
    /\ sends' \in [User!Sends -> SendRecord]
    /\ \A g \in User!Sends : SameRequest(g) /\ (g # f => sends'[g] = sends[g])
    /\ sends'[f].server = server /\ sends'[f].answer = answer

LEMMA AnswerWrites ==
    ASSUME UserTypes, NEW f \in User!Sends,
           NEW answer \in {"none", "data", "conflict", "refused", "unauthorized"},
           sends' = User!Answer(f, answer)
    PROVE  Wrote(f, IF answer = "data" /\ sends[f].server = "working" THEN "committed" ELSE "over", answer)
<1> DEFINE server == IF answer = "data" /\ sends[f].server = "working" THEN "committed" ELSE "over"
<1>1. sends' = [sends EXCEPT ![f] = [sends[f] EXCEPT !.server = server, !.answer = answer]]
  BY DEF User!Answer, UserTypes
<1>2. /\ server \in {"committed", "over"}
      /\ sends \in [User!Sends -> SendRecord] /\ sends[f] \in SendRecord
  BY DEF UserTypes
<1> HIDE DEF server
<1>3. [sends[f] EXCEPT !.server = server, !.answer = answer] \in SendRecord
  BY <1>2 DEF SendRecord
<1>4. sends' \in [User!Sends -> SendRecord]
  BY <1>1, <1>2, <1>3
<1>5. \A g \in User!Sends : g # f => sends'[g] = sends[g]
  BY <1>1, <1>2
<1>6. sends'[f] = [sends[f] EXCEPT !.server = server, !.answer = answer] /\ sends[f] \in SendRecord
  BY <1>1, <1>2
<1>7. SameRequest(f) /\ sends'[f].server = server /\ sends'[f].answer = answer
  BY <1>6 DEF SameRequest, SendRecord
<1>8. \A g \in User!Sends : SameRequest(g)
  BY <1>5, <1>7 DEF SameRequest
<1> QED BY <1>4, <1>5, <1>7, <1>8 DEF Wrote, server

LEMMA ServerWrites ==
    ASSUME UserTypes, NEW f \in User!Sends, NEW server \in {"inserting", "working"},
           sends' = [sends EXCEPT ![f].server = server]
    PROVE  Wrote(f, server, sends[f].answer)
<1>1. sends' = [sends EXCEPT ![f] = [sends[f] EXCEPT !.server = server]]
  BY DEF UserTypes
<1>2. sends \in [User!Sends -> SendRecord] /\ sends[f] \in SendRecord
  BY DEF UserTypes
<1>3. [sends[f] EXCEPT !.server = server] \in SendRecord
  BY <1>2 DEF SendRecord
<1>4. sends' \in [User!Sends -> SendRecord]
  BY <1>1, <1>2, <1>3
<1>5. \A g \in User!Sends : g # f => sends'[g] = sends[g]
  BY <1>1, <1>2
<1>6. sends'[f] = [sends[f] EXCEPT !.server = server]
  BY <1>1, <1>2
<1>7. SameRequest(f) /\ sends'[f].server = server /\ sends'[f].answer = sends[f].answer
  BY <1>2, <1>6 DEF SameRequest, SendRecord
<1>8. \A g \in User!Sends : SameRequest(g)
  BY <1>5, <1>7 DEF SameRequest
<1> QED BY <1>4, <1>5, <1>7, <1>8 DEF Wrote

LEMMA RenewWrites ==
    ASSUME UserTypes, NEW f \in User!Sends,
           sends' = [sends EXCEPT ![f].server = "sent", ![f].answer = "none", ![f].renewed = TRUE]
    PROVE  Wrote(f, "sent", "none")
<1> DEFINE row == [sends[f] EXCEPT !.server = "sent", !.answer = "none", !.renewed = TRUE]
<1>1. sends' = [sends EXCEPT ![f] = row]
  BY DEF UserTypes
<1>2. sends \in [User!Sends -> SendRecord] /\ sends[f] \in SendRecord
  BY DEF UserTypes
<1>3. row \in SendRecord
  BY <1>2 DEF SendRecord
<1>4. sends' \in [User!Sends -> SendRecord]
  BY <1>1, <1>2, <1>3
<1>5. \A g \in User!Sends : g # f => sends'[g] = sends[g]
  BY <1>1, <1>2
<1>6. sends'[f] = row
  BY <1>1, <1>2
<1>7. SameRequest(f) /\ sends'[f].server = "sent" /\ sends'[f].answer = "none"
  BY <1>2, <1>6 DEF SameRequest, SendRecord
<1>8. \A g \in User!Sends : SameRequest(g)
  BY <1>5, <1>7 DEF SameRequest
<1> QED BY <1>4, <1>5, <1>7, <1>8 DEF Wrote

\* An outcome short of a commit keeps what is known of the keys.
LEMMA OutcomeOfARequest ==
    ASSUME UserTypes, SendsAreWhole, KeysAreOfRuns, UNCHANGED keys,
           NEW f \in User!Sends, NEW server \in {"sent", "inserting", "working", "over"}, NEW answer,
           Wrote(f, server, answer), IsStarted(f), sends[f].server # "committed",
           server # "over" => answer = "none",
           server = "working" => /\ keys[sends[f].key] = "none"
                                 /\ \A g \in User!Sends : ~(sends[g].server = "working" /\ sends[g].key = sends[f].key),
           answer = "data" => keys[sends[f].key] = sends[f].body
    PROVE  SendsAreWhole' /\ KeysAreOfRuns'
<1>1. SendsAreWhole'
  BY DEF SendsAreWhole, Wrote, SameRequest, IsStarted
<1>2. \A g \in User!Sends : /\ sends'[g].key = sends[g].key /\ sends'[g].body = sends[g].body
                            /\ g # f => sends'[g] = sends[g]
  BY DEF Wrote, SameRequest
<1>3. sends'[f].server = server /\ sends'[f].answer = answer /\ IsStarted(f)'
  BY DEF Wrote, SameRequest, IsStarted
<1>4. \A g \in User!Sends :
          /\ sends'[g].server = "working" => keys'[sends'[g].key] = "none"
          /\ sends'[g].answer = "data" => IsStarted(g)' /\ keys'[sends'[g].key] = sends'[g].body
  BY <1>2, <1>3 DEF KeysAreOfRuns, IsStarted
<1>5. \A g, h \in User!Sends :
          /\ sends'[g].server = "working" /\ sends'[h].server = "working" /\ sends'[g].key = sends'[h].key
                => g = h
          /\ sends'[g].server = "committed" /\ sends'[h].server = "committed" /\ sends'[g].key = sends'[h].key
                => g = h
  BY <1>2, <1>3 DEF KeysAreOfRuns
<1>6. ASSUME NEW k \in User!Sends, keys'[k] # "none"
      PROVE  \E g \in User!Sends : /\ sends'[g].server = "committed" /\ sends'[g].key = k
                                   /\ sends'[g].body = keys'[k]
  <2>1. PICK g \in User!Sends : sends[g].server = "committed" /\ sends[g].key = k /\ sends[g].body = keys[k]
    BY <1>6 DEF KeysAreOfRuns
  <2>2. g # f
    BY <2>1
  <2> QED BY <2>1, <2>2, <1>2
<1> QED BY <1>1, <1>4, <1>5, <1>6 DEF KeysAreOfRuns

\* A commit gives its key the one run it has.
LEMMA CommitOfARequest ==
    ASSUME UserTypes, SendsAreWhole, KeysAreOfRuns, NEW f \in User!Sends, User!Commit(f)
    PROVE  /\ UserTypes' /\ SendsAreWhole' /\ KeysAreOfRuns'
           /\ \A g \in User!Sends : SameRequest(g) /\ (g # f => sends'[g] = sends[g])
<1>1. Wrote(f, "committed", "data")
  BY AnswerWrites DEF User!Commit
<1>2. /\ sends[f].server = "working" /\ IsStarted(f) /\ sends[f].key \in User!Sends
      /\ sends[f].body \in Bodies /\ keys[sends[f].key] = "none" /\ sends[f].body # "none"
  BY UserAssumption DEF User!Commit, SendsAreWhole, KeysAreOfRuns
<1>3. /\ \A k \in User!Sends : k # sends[f].key => keys'[k] = keys[k]
      /\ keys'[sends[f].key] = sends[f].body /\ keys' \in [User!Sends -> Bodies \cup {"none"}]
  BY <1>2 DEF User!Commit, UserTypes
<1>4. \A g \in User!Sends : sends[g].server # "committed" \/ sends[g].key # sends[f].key
  BY <1>2, UserAssumption DEF KeysAreOfRuns, SendsAreWhole
<1>5. UserTypes'
  BY <1>1, <1>3 DEF UserTypes, Wrote, User!Commit
<1>6. SendsAreWhole'
  BY <1>1, <1>2 DEF SendsAreWhole, Wrote, SameRequest, IsStarted
<1>7. \A g \in User!Sends : /\ sends'[g].key = sends[g].key /\ sends'[g].body = sends[g].body
                            /\ g # f => sends'[g] = sends[g]
  BY <1>1 DEF Wrote, SameRequest
<1>8. sends'[f].server = "committed" /\ sends'[f].answer = "data" /\ IsStarted(f)'
  BY <1>1, <1>2 DEF Wrote, SameRequest, IsStarted
<1>9. \A g \in User!Sends : IsStarted(g) => sends[g].key \in User!Sends
  BY DEF SendsAreWhole
<1>10. \A g \in User!Sends :
          /\ sends'[g].server = "working" => keys'[sends'[g].key] = "none"
          /\ sends'[g].answer = "data" => IsStarted(g)' /\ keys'[sends'[g].key] = sends'[g].body
  <2> SUFFICES ASSUME NEW g \in User!Sends
               PROVE  /\ sends'[g].server = "working" => keys'[sends'[g].key] = "none"
                      /\ sends'[g].answer = "data" => IsStarted(g)' /\ keys'[sends'[g].key] = sends'[g].body
    OBVIOUS
  <2>1. CASE g = f
    BY <2>1, <1>3, <1>7, <1>8
  <2>2. CASE g # f
    <3>1. sends'[g] = sends[g]
      BY <2>2, <1>7
    <3>2. sends[g].server = "working" => sends[g].key # sends[f].key /\ IsStarted(g)
      BY <2>2, <1>2 DEF KeysAreOfRuns, SendsAreWhole
    <3>3. sends[g].answer = "data" => sends[g].key # sends[f].key
      BY <1>2, UserAssumption DEF KeysAreOfRuns, SendsAreWhole
    <3> QED BY <3>1, <3>2, <3>3, <1>3, <1>9 DEF KeysAreOfRuns, IsStarted
  <2> QED BY <2>1, <2>2
<1>11. \A g, h \in User!Sends :
          /\ sends'[g].server = "working" /\ sends'[h].server = "working" /\ sends'[g].key = sends'[h].key
                => g = h
          /\ sends'[g].server = "committed" /\ sends'[h].server = "committed" /\ sends'[g].key = sends'[h].key
                => g = h
  BY <1>4, <1>7, <1>8 DEF KeysAreOfRuns
<1>12. ASSUME NEW k \in User!Sends, keys'[k] # "none"
       PROVE  \E g \in User!Sends : /\ sends'[g].server = "committed" /\ sends'[g].key = k
                                    /\ sends'[g].body = keys'[k]
  <2>1. CASE k = sends[f].key
    BY <2>1, <1>3, <1>7, <1>8
  <2>2. CASE k # sends[f].key
    <3>1. PICK g \in User!Sends : sends[g].server = "committed" /\ sends[g].key = k /\ sends[g].body = keys[k]
      BY <2>2, <1>3, <1>12 DEF KeysAreOfRuns
    <3>2. g # f
      BY <3>1, <2>2
    <3> QED BY <3>1, <3>2, <2>2, <1>3, <1>7
  <2> QED BY <2>1, <2>2
<1>13. KeysAreOfRuns'
  BY <1>10, <1>11, <1>12 DEF KeysAreOfRuns
<1> QED BY <1>1, <1>5, <1>6, <1>13 DEF Wrote

ServerAct(f) ==
    \/ User!Unauthorized(f) \/ User!Renew(f) \/ User!Lookup(f) \/ User!Insert(f) \/ User!Commit(f)
    \/ \E answer \in {"refused", "none"} : User!Rollback(f, answer)

CanCommit(f) == sends[f].server \in {"sent", "inserting", "working", "committed"}

\* What the server does with a request: the request is as it was, and only one
\* that waits can be tried again after it was refused.
LEMMA ServerStep ==
    ASSUME UserTypes, SendsAreWhole, KeysAreOfRuns, NEW f \in User!Sends, ServerAct(f)
    PROVE  /\ UserTypes' /\ SendsAreWhole' /\ KeysAreOfRuns'
           /\ UNCHANGED <<session, records, decided, crossed>>
           /\ \A g \in User!Sends :
                 SameRequest(g) /\ (CanCommit(g)' => CanCommit(g) \/ g \in User!Waiting)
<1> DEFINE Goal == /\ UserTypes' /\ SendsAreWhole' /\ KeysAreOfRuns'
                   /\ UNCHANGED <<session, records, decided, crossed>>
                   /\ \A g \in User!Sends :
                         SameRequest(g) /\ (CanCommit(g)' => CanCommit(g) \/ g \in User!Waiting)
<1>1. sends[f] \in SendRecord /\ (IsStarted(f) => sends[f].key \in User!Sends)
  BY DEF UserTypes, SendsAreWhole
<1>2. ASSUME NEW server \in {"sent", "inserting", "working", "over"}, NEW answer,
             Wrote(f, server, answer), UNCHANGED <<session, records, keys, decided, crossed>>,
             CanCommit(f) \/ f \in User!Waiting \/ server = "over", SendsAreWhole', KeysAreOfRuns'
      PROVE  Goal
  BY <1>2 DEF UserTypes, Wrote, CanCommit
<1>3. CASE User!Unauthorized(f)
  <2>1. Wrote(f, "over", "unauthorized") /\ sends[f].server = "sent" /\ UNCHANGED <<session, records, keys, decided, crossed>>
    BY <1>3, AnswerWrites DEF User!Unauthorized
  <2>2. SendsAreWhole' /\ KeysAreOfRuns'
    BY <2>1, OutcomeOfARequest DEF SendsAreWhole
  <2> QED BY <2>1, <2>2, <1>2
<1>4. CASE User!Renew(f)
  <2>1. /\ Wrote(f, "sent", "none") /\ sends[f].answer = "unauthorized" /\ f \in User!Waiting
        /\ UNCHANGED <<session, records, keys, decided, crossed>>
    BY <1>4, RenewWrites DEF User!Renew
  <2>2. SendsAreWhole' /\ KeysAreOfRuns'
    BY <2>1, OutcomeOfARequest DEF SendsAreWhole, User!Waiting, IsStarted
  <2> QED BY <2>1, <2>2, <1>2
<1>5. ASSUME sends[f].server \in {"sent", "inserting"}, keys[sends[f].key] # "none",
             sends' = User!Answer(f, User!Resolved(f)), UNCHANGED <<session, records, keys, decided, crossed>>
      PROVE  Goal
  <2>1. User!Resolved(f) \in {"data", "conflict"}
    BY DEF User!Resolved
  <2>2. Wrote(f, "over", User!Resolved(f))
    BY <1>5, <2>1, AnswerWrites
  <2>3. SendsAreWhole' /\ KeysAreOfRuns'
    BY <1>5, <2>1, <2>2, OutcomeOfARequest DEF SendsAreWhole, User!Resolved
  <2> QED BY <1>5, <2>2, <2>3, <1>2
<1>6. CASE User!Lookup(f)
  <2>1. CASE keys[sends[f].key] # "none"
    BY <2>1, <1>5, <1>6 DEF User!Lookup
  <2>2. CASE keys[sends[f].key] = "none"
    <3>1. /\ Wrote(f, "inserting", sends[f].answer) /\ sends[f].server = "sent"
          /\ UNCHANGED <<session, records, keys, decided, crossed>>
      BY <2>2, <1>6, ServerWrites DEF User!Lookup
    <3>2. SendsAreWhole' /\ KeysAreOfRuns'
      BY <3>1, OutcomeOfARequest DEF SendsAreWhole
    <3> QED BY <3>1, <3>2, <1>2 DEF CanCommit
  <2> QED BY <2>1, <2>2
<1>7. CASE User!Insert(f)
  <2>1. CASE keys[sends[f].key] # "none"
    BY <2>1, <1>5, <1>7 DEF User!Insert
  <2>2. CASE keys[sends[f].key] = "none"
    <3>1. /\ Wrote(f, "working", sends[f].answer) /\ sends[f].server = "inserting"
          /\ UNCHANGED <<session, records, keys, decided, crossed>>
      BY <2>2, <1>7, ServerWrites DEF User!Insert
    <3>2. SendsAreWhole' /\ KeysAreOfRuns'
      BY <3>1, <2>2, <1>7, OutcomeOfARequest DEF SendsAreWhole, User!Insert, User!Unblocked
    <3> QED BY <3>1, <3>2, <1>2 DEF CanCommit
  <2> QED BY <2>1, <2>2
<1>8. CASE User!Commit(f)
  <2>1. /\ UserTypes' /\ SendsAreWhole' /\ KeysAreOfRuns'
        /\ \A g \in User!Sends : SameRequest(g) /\ (g # f => sends'[g] = sends[g])
    BY <1>8, CommitOfARequest
  <2> QED BY <2>1, <1>8 DEF CanCommit, User!Commit
<1>9. ASSUME NEW answer \in {"refused", "none"}, User!Rollback(f, answer)
      PROVE  Goal
  <2>1. Wrote(f, "over", answer) /\ sends[f].server = "working" /\ UNCHANGED <<session, records, keys, decided, crossed>>
    BY <1>9, AnswerWrites DEF User!Rollback
  <2>2. SendsAreWhole' /\ KeysAreOfRuns'
    BY <2>1, OutcomeOfARequest DEF SendsAreWhole
  <2> QED BY <2>1, <2>2, <1>2
<1> QED BY <1>3, <1>4, <1>6, <1>7, <1>8, <1>9 DEF ServerAct

\* A request is started under a key of its scope: a new one, or the one its
\* record holds for the same body.
LEMMA StartWrites ==
    ASSUME UserTypes, SendsAreWhole, KeysAreOfRuns, KeysStayInScope,
           NEW surface \in Surfaces, NEW body \in Bodies, NEW f \in User!Sends,
           User!Start(surface, body, f)
    PROVE  LET s == session.scope IN
           /\ UserTypes' /\ SendsAreWhole' /\ KeysAreOfRuns' /\ KeysStayInScope'
           /\ ~IsStarted(f) /\ sends'[f].client = "waiting" /\ sends'[f].scope = s
           /\ \A g \in User!Sends : g # f => sends'[g] = sends[g]
           /\ \A t \in Scopes : t # s => records'[t] = records[t]
           /\ records'[s].id = sends'[f].intent /\ records'[s].key = sends'[f].key
           /\ records'[s].uncertain = records[s].uncertain /\ records'[s].pending
           /\ sends'[f].disprovable => ~records[s].uncertain
           /\ sends'[f].key \in {records[s].key, f}
           /\ records[s].uncertain /\ records[s].key # 0 => sends'[f].key = records[s].key
<1> DEFINE s == session.scope
           record == User!RecordOf(s, f)
           key == User!KeyOf(record, body, f)
           row == [User!NoSend EXCEPT !.client = "waiting", !.server = "sent", !.scope = s,
                      !.body = body, !.key = key, !.intent = record.id,
                      !.generation = session.generation,
                      !.disprovable = User!MayDisprove(surface, record)]
           kept == [record EXCEPT !.body = body, !.key = key, !.pending = TRUE]
<1>1. /\ s \in Scopes /\ records[s] \in IntentRecord /\ session.generation \in Nat
      /\ sends \in [User!Sends -> SendRecord] /\ records \in [Scopes -> IntentRecord]
      /\ f \in Nat /\ f # 0
  BY UserAssumption DEF UserTypes, User!Sends
<1>2. record \in IntentRecord /\ (records[s].id = 0 => records[s].key = 0)
  BY <1>1 DEF User!RecordOf, IntentRecord, User!NoIntent, KeysStayInScope
<1>3. /\ key \in User!Sends /\ key \in Nat /\ key \in {records[s].key, f}
      /\ (key # f => key = records[s].key /\ key # 0)
  BY <1>1, <1>2 DEF User!RecordOf, User!KeyOf, User!NoIntent, KeysStayInScope, IntentRecord
<1>4. records[s].uncertain /\ records[s].key # 0 => key = records[s].key
  BY <1>1, <1>2 DEF User!RecordOf, User!KeyOf, User!Start
<1>5. ~IsStarted(f)
  BY DEF User!Start, IsStarted
<1> HIDE DEF record, key
<1>6. record.id \in Nat /\ record.uncertain \in BOOLEAN
  BY <1>2 DEF IntentRecord
<1>7. /\ row.client = "waiting" /\ row.server = "sent" /\ row.answer = "none"
      /\ row.scope = s /\ row.body = body /\ row.key = key /\ row.intent = record.id
      /\ row.disprovable = User!MayDisprove(surface, record)
  BY DEF User!NoSend
<1>8. row \in SendRecord
  BY <1>1, <1>3, <1>6 DEF SendRecord, User!NoSend, User!MayDisprove
<1>9. kept \in IntentRecord /\ kept.key = key /\ kept.id = record.id
      /\ kept.uncertain = record.uncertain /\ kept.pending
  BY <1>2, <1>3 DEF IntentRecord
<1>10. /\ sends' = [sends EXCEPT ![f] = row] /\ records' = [records EXCEPT ![s] = kept]
       /\ UNCHANGED <<session, keys, decided>>
  BY DEF User!Start, record, key
<1> HIDE DEF row, kept
<1>11. /\ sends' \in [User!Sends -> SendRecord] /\ sends'[f] = row
       /\ records' \in [Scopes -> IntentRecord] /\ records'[s] = kept
       /\ \A g \in User!Sends : g # f => sends'[g] = sends[g]
       /\ \A t \in Scopes : t # s => records'[t] = records[t]
  BY <1>1, <1>8, <1>9, <1>10
<1>12. /\ sends'[f].client = "waiting" /\ sends'[f].server = "sent" /\ sends'[f].answer = "none"
       /\ sends'[f].scope = s /\ sends'[f].body = body /\ sends'[f].key = key
       /\ sends'[f].intent = record.id
       /\ sends'[f].disprovable = User!MayDisprove(surface, record)
  BY <1>7, <1>11
<1>13. UserTypes'
  BY <1>10, <1>11 DEF UserTypes
<1>14. sends[f].server = "none" /\ sends[f].answer = "none"
  BY <1>5 DEF SendsAreWhole
<1>15. SendsAreWhole'
  <2>1. \A g \in User!Sends : g = f \/ sends'[g] = sends[g]
    BY <1>11
  <2>2. record.id # 0
    BY <1>1 DEF record, User!RecordOf, User!NoIntent
  <2> QED BY <2>1, <2>2, <1>1, <1>3, <1>12 DEF SendsAreWhole, IsStarted
<1>16. KeysAreOfRuns'
  <2>1. \A g \in User!Sends :
          /\ sends'[g].server = "working" => g # f /\ sends'[g] = sends[g]
          /\ sends'[g].server = "committed" => g # f /\ sends'[g] = sends[g]
          /\ sends'[g].answer = "data" => g # f /\ sends'[g] = sends[g]
    BY <1>11, <1>12
  <2>2. \A g \in User!Sends : sends[g].server = "committed" => sends'[g] = sends[g]
    BY <1>11, <1>14
  <2> QED BY <2>1, <2>2, <1>10 DEF KeysAreOfRuns, IsStarted
<1>17. KeysStayInScope'
  <2>1. sends'[key].client # "unused" /\ sends'[key].scope = s
    <3>1. CASE key = f
      BY <3>1, <1>12
    <3>2. CASE key # f
      BY <3>2, <1>1, <1>3, <1>11 DEF IsStarted, KeysStayInScope
    <3> QED BY <3>1, <3>2
  <2>2. \A g \in User!Sends : g # f /\ IsStarted(g) =>
           sends[g].key # f /\ sends[g].key \in User!Sends /\ sends'[sends[g].key] = sends[sends[g].key]
    BY <1>5, <1>11 DEF KeysStayInScope, SendsAreWhole
  <2>3. ASSUME NEW g \in User!Sends, sends'[g].client # "unused"
        PROVE  sends'[sends'[g].key].client # "unused" /\ sends'[sends'[g].key].scope = sends'[g].scope
    <3>1. CASE g = f
      BY <3>1, <2>1, <1>12
    <3>2. CASE g # f
      BY <3>2, <2>2, <2>3, <1>11 DEF KeysStayInScope, IsStarted
    <3> QED BY <3>1, <3>2
  <2>4. record.id # 0
    BY <1>1 DEF record, User!RecordOf, User!NoIntent
  <2>5. ASSUME NEW t \in Scopes
        PROVE  /\ records'[t].id = 0 => records'[t].key = 0 /\ ~records'[t].uncertain
               /\ records'[t].key # 0 => /\ records'[t].key \in User!Sends
                                         /\ sends'[records'[t].key].client # "unused"
                                         /\ sends'[records'[t].key].scope = t
    <3>1. CASE t = s
      BY <3>1, <2>1, <2>4, <1>3, <1>9, <1>11
    <3>2. CASE t # s
      <4>1. records'[t] = records[t]
        BY <3>2, <1>11
      <4>2. records[t].key # 0 => records[t].key # f
        BY <1>5 DEF KeysStayInScope
      <4> QED BY <4>1, <4>2, <1>11 DEF KeysStayInScope, IsStarted
    <3> QED BY <3>1, <3>2
  <2> QED BY <2>3, <2>5 DEF KeysStayInScope, IsStarted
<1>18. record.uncertain = records[s].uncertain
  <2>1. CASE records[s].id # 0
    BY <2>1 DEF record, User!RecordOf
  <2>2. CASE records[s].id = 0
    BY <2>2, <1>1 DEF record, User!RecordOf, KeysStayInScope, User!NoIntent, IntentRecord
  <2> QED BY <2>1, <2>2
<1> QED BY <1>3, <1>4, <1>5, <1>9, <1>11, <1>12, <1>13, <1>15, <1>16, <1>17, <1>18 DEF User!MayDisprove

\* A request that ends in the browser.
LEMMA ClientWrites ==
    ASSUME UserTypes, NEW f \in User!Sends, NEW client \in {"shown", "failed"}, f \in User!Waiting,
           sends' = [sends EXCEPT ![f].client = client]
    PROVE  /\ sends' \in [User!Sends -> SendRecord] /\ sends'[f].client = client
           /\ \A g \in User!Sends : SameOutcome(g) /\ (g # f => sends'[g] = sends[g])
<1>1. sends' = [sends EXCEPT ![f] = [sends[f] EXCEPT !.client = client]]
  BY DEF UserTypes
<1>2. sends \in [User!Sends -> SendRecord] /\ sends[f] \in SendRecord
  BY DEF UserTypes
<1>3. [sends[f] EXCEPT !.client = client] \in SendRecord
  BY <1>2 DEF SendRecord
<1>4. sends' \in [User!Sends -> SendRecord] /\ \A g \in User!Sends : g # f => sends'[g] = sends[g]
  BY <1>1, <1>2, <1>3
<1>5. sends'[f] = [sends[f] EXCEPT !.client = client]
  BY <1>1, <1>2
<1>6. sends'[f].client = client /\ SameOutcome(f)
  BY <1>2, <1>5 DEF SendRecord, SameOutcome, IsStarted, User!Waiting
<1>7. \A g \in User!Sends : SameOutcome(g)
  BY <1>4, <1>6 DEF SameOutcome, IsStarted
<1> QED BY <1>4, <1>6, <1>7

\* What ends or clears a request keeps every outcome; a record of it is kept
\* as uncertain, or is over.
BrowserKeeps ==
    /\ UserTypes' /\ SendsAreWhole' /\ KeysAreOfRuns' /\ KeysStayInScope'
    /\ \A g \in User!Sends : SameOutcome(g)

LEMMA SucceedWrites ==
    ASSUME UserTypes, SendsAreWhole, KeysAreOfRuns, KeysStayInScope,
           NEW f \in User!Sends, User!Succeed(f)
    PROVE  /\ BrowserKeeps /\ sends'[f].client = "shown"
           /\ \A g \in User!Sends : g # f => sends'[g] = sends[g]
<1>1. /\ sends' \in [User!Sends -> SendRecord] /\ sends'[f].client = "shown"
      /\ \A g \in User!Sends : SameOutcome(g) /\ (g # f => sends'[g] = sends[g])
  BY ClientWrites DEF User!Succeed
<1>2. User!NoIntent \in IntentRecord
  BY DEF User!NoIntent, IntentRecord
<1>3. /\ records' \in [Scopes -> IntentRecord]
      /\ \A t \in Scopes : records'[t] = records[t] \/ records'[t] = User!NoIntent
  BY <1>2 DEF User!Succeed, UserTypes
<1>4. UserTypes'
  BY <1>1, <1>3 DEF UserTypes, User!Succeed
<1>5. \A t \in Scopes : SameRecord(t)
  BY <1>3 DEF SameRecord
<1> QED BY <1>1, <1>4, <1>5, OutcomesKept DEF BrowserKeeps, User!Succeed

LEMMA FailWrites ==
    ASSUME UserTypes, SendsAreWhole, KeysAreOfRuns, KeysStayInScope,
           NEW f \in User!Sends, User!Fail(f)
    PROVE  /\ BrowserKeeps /\ sends'[f].client = "failed"
           /\ \A g \in User!Sends : g # f => sends'[g] = sends[g]
           /\ \A t \in Scopes : t # sends[f].scope => records'[t] = records[t]
           /\ User!Owns(f) /\ ~User!Disproves(f) =>
                 records'[sends[f].scope].uncertain /\ records'[sends[f].scope].key = records[sends[f].scope].key
           /\ User!Owns(f) /\ User!Disproves(f) => records'[sends[f].scope] = User!NoIntent
           /\ ~User!Owns(f) => \/ records'[sends[f].scope] = records[sends[f].scope]
                               \/ User!Disproves(f) /\ records'[sends[f].scope] = User!NoIntent
<1> DEFINE s == sends[f].scope
           failed == User!Failed(f, records[s])
           kept == IF User!Owns(f) THEN failed ELSE records[s]
<1>1. /\ sends' \in [User!Sends -> SendRecord] /\ sends'[f].client = "failed"
      /\ \A g \in User!Sends : SameOutcome(g) /\ (g # f => sends'[g] = sends[g])
  BY ClientWrites DEF User!Fail
<1>2. /\ s \in Scopes /\ records[s] \in IntentRecord /\ (User!Owns(f) => records[s].id # 0)
      /\ records \in [Scopes -> IntentRecord]
  BY DEF User!Fail, UserTypes, SendsAreWhole, User!Waiting, IsStarted, User!Owns
<1>3. User!NoIntent \in IntentRecord
  BY DEF User!NoIntent, IntentRecord
<1>4. /\ failed \in IntentRecord /\ failed.uncertain /\ failed.key = records[s].key
      /\ failed.id = records[s].id /\ ~failed.pending
  BY <1>2 DEF IntentRecord, User!Failed
<1> HIDE DEF failed
<1>5. kept \in IntentRecord
  BY <1>2, <1>4
<1>6. /\ records' \in [Scopes -> IntentRecord]
      /\ \A t \in Scopes : t # s => records'[t] = records[t]
      /\ records'[s] = IF User!Disproves(f) /\ ~kept.pending THEN User!NoIntent ELSE kept
  <2> DEFINE own == [records EXCEPT ![s] = kept]
  <2>1. records' = IF User!Disproves(f) /\ ~own[s].pending THEN [own EXCEPT ![s] = User!NoIntent] ELSE own
    BY DEF User!Fail, failed
  <2>2. /\ own \in [Scopes -> IntentRecord] /\ own[s] = kept
        /\ \A t \in Scopes : t # s => own[t] = records[t]
    BY <1>2, <1>5
  <2> HIDE DEF own
  <2> QED BY <2>1, <2>2, <1>2, <1>3
<1>7. UserTypes'
  BY <1>1, <1>6 DEF UserTypes, User!Fail
<1>8. \A t \in Scopes : SameRecord(t)
  BY <1>2, <1>4, <1>6 DEF SameRecord
<1>9. BrowserKeeps
  BY <1>1, <1>7, <1>8, OutcomesKept DEF BrowserKeeps, User!Fail
<1> QED BY <1>1, <1>4, <1>6, <1>9

LEMMA MoveWrites ==
    ASSUME UserTypes, SendsAreWhole, KeysAreOfRuns, KeysStayInScope,
           NEW s \in Scopes, User!Move(s)
    PROVE  /\ BrowserKeeps /\ \A g \in User!Sends : sends'[g].client # "waiting"
           /\ \A t \in Scopes :
                 /\ records'[t].key = records[t].key
                 /\ records[t].uncertain => records'[t].uncertain
                 /\ (\E g \in User!Waiting : sends[g].scope = t /\ User!Owns(g)) => records'[t].uncertain
<1> DEFINE Left(t) == \E g \in User!Waiting : sends[g].scope = t /\ User!Owns(g)
<1>1. sends \in [User!Sends -> SendRecord] /\ \A g \in User!Sends : sends[g] \in SendRecord
  BY DEF UserTypes
<1>2. sends' = [g \in User!Sends |-> IF g \in User!Waiting THEN [sends[g] EXCEPT !.client = "failed"]
                                     ELSE sends[g]]
  BY DEF User!Move
<1>3. \A g \in User!Sends : [sends[g] EXCEPT !.client = "failed"] \in SendRecord
  BY <1>1 DEF SendRecord
<1>4. sends' \in [User!Sends -> SendRecord]
  BY <1>1, <1>2, <1>3
<1>5. \A g \in User!Sends : SameOutcome(g) /\ sends'[g].client # "waiting"
  BY <1>1, <1>2 DEF SameOutcome, SendRecord, User!Waiting, IsStarted
<1>6. records' = [t \in Scopes |-> IF Left(t) THEN [records[t] EXCEPT !.uncertain = TRUE, !.pending = FALSE]
                                   ELSE records[t]]
  BY DEF User!Move
<1>7. \A t \in Scopes : Left(t) => records[t].id # 0
  BY DEF User!Owns, User!Waiting, SendsAreWhole, IsStarted
<1> HIDE DEF Left
<1>8. \A t \in Scopes : records[t] \in IntentRecord
  BY DEF UserTypes
<1>9. \A t \in Scopes :
        LET kept == [records[t] EXCEPT !.uncertain = TRUE, !.pending = FALSE]
        IN  kept \in IntentRecord /\ kept.uncertain /\ kept.id = records[t].id /\ kept.key = records[t].key
  BY <1>8 DEF IntentRecord
<1>10. records' \in [Scopes -> IntentRecord]
  BY <1>6, <1>8, <1>9
<1>11. \A t \in Scopes :
          /\ records'[t].id = records[t].id /\ records'[t].key = records[t].key
          /\ Left(t) => records'[t].uncertain
          /\ ~Left(t) => records'[t] = records[t]
  BY <1>6, <1>9
<1>12. \A t \in Scopes : SameRecord(t)
  BY <1>7, <1>11 DEF SameRecord
<1>13. UserTypes'
  <2>1. session' = [scope |-> s, generation |-> session.generation + 1] /\ session.generation \in Nat
    BY DEF UserTypes, User!Move
  <2>2. session' \in [scope : Scopes, generation : Nat]
    BY <2>1
  <2> QED BY <1>4, <1>10, <2>2 DEF UserTypes, User!Move
<1>14. BrowserKeeps
  BY <1>5, <1>12, <1>13, OutcomesKept DEF BrowserKeeps, User!Move
<1> QED BY <1>5, <1>11, <1>14 DEF Left

LEMMA ResetWrites ==
    ASSUME UserTypes, SendsAreWhole, KeysAreOfRuns, KeysStayInScope,
           User!Reset
    PROVE  /\ BrowserKeeps /\ UNCHANGED <<sends, session, crossed>>
           /\ \A t \in Scopes : t # session.scope => records'[t] = records[t]
           /\ records'[session.scope] = User!NoIntent
<1>1. session.scope \in Scopes /\ User!NoIntent \in IntentRecord
  BY DEF UserTypes, User!NoIntent, IntentRecord
<1>2. /\ records' \in [Scopes -> IntentRecord]
      /\ \A t \in Scopes : t # session.scope => records'[t] = records[t]
      /\ records'[session.scope] = User!NoIntent
  BY <1>1 DEF User!Reset, UserTypes
<1>3. UserTypes'
  BY <1>2 DEF UserTypes, User!Reset, User!Started
<1>4. \A t \in Scopes : SameRecord(t)
  BY <1>2 DEF SameRecord
<1>5. \A g \in User!Sends : SameOutcome(g)
  BY DEF User!Reset, SameOutcome, IsStarted
<1> QED BY <1>2, <1>3, <1>4, <1>5, OutcomesKept DEF BrowserKeeps, User!Reset

\* A press that shares the request under way changes only what its refusal may
\* disprove, and nothing of a request whose record is in doubt.
LEMMA ShareWrites ==
    ASSUME UserTypes, SendsAreWhole, KeysAreOfRuns, KeysStayInScope,
           NEW surface \in Surfaces, NEW f \in User!Sends, User!Share(surface, f)
    PROVE  /\ BrowserKeeps /\ UNCHANGED <<session, records, keys, decided, crossed>>
           /\ \A g \in User!Sends : /\ sends'[g].client = sends[g].client
                                    /\ g # f => sends'[g] = sends[g]
           /\ records[session.scope].uncertain => sends'[f].disprovable = sends[f].disprovable
           /\ f \in User!Waiting /\ records[session.scope].key = sends[f].key
<1> DEFINE disprovable == sends[f].disprovable \/ User!MayDisprove(surface, records[session.scope])
<1>1. sends \in [User!Sends -> SendRecord] /\ sends[f] \in SendRecord
  BY DEF UserTypes
<1>2. disprovable \in BOOLEAN
  BY <1>1 DEF SendRecord, User!MayDisprove
<1>3. records[session.scope].uncertain => (disprovable <=> sends[f].disprovable)
  BY DEF User!MayDisprove
<1>4. sends' = [sends EXCEPT ![f] = [sends[f] EXCEPT !.disprovable = disprovable]]
  BY <1>1 DEF User!Share
<1> HIDE DEF disprovable
<1>5. [sends[f] EXCEPT !.disprovable = disprovable] \in SendRecord
  BY <1>1, <1>2 DEF SendRecord
<1>6. /\ sends' \in [User!Sends -> SendRecord] /\ \A g \in User!Sends : g # f => sends'[g] = sends[g]
      /\ sends'[f] = [sends[f] EXCEPT !.disprovable = disprovable]
  BY <1>1, <1>4, <1>5
<1>7. SameOutcome(f) /\ sends'[f].client = sends[f].client /\ sends'[f].disprovable = disprovable
  BY <1>1, <1>6 DEF SendRecord, SameOutcome, IsStarted
<1>8. \A g \in User!Sends : SameOutcome(g) /\ sends'[g].client = sends[g].client
  BY <1>6, <1>7 DEF SameOutcome, IsStarted
<1>9. UserTypes' /\ UNCHANGED <<session, records, keys, decided, crossed>>
  BY <1>6 DEF UserTypes, User!Share
<1>10. BrowserKeeps
  BY <1>8, <1>9, OutcomesKept DEF BrowserKeeps, SameRecord
<1>11. f \in User!Waiting /\ records[session.scope].key = sends[f].key
  BY DEF User!Share
<1> QED BY <1>1, <1>2, <1>3, <1>6, <1>7, <1>8, <1>9, <1>10, <1>11 DEF SendRecord

\* The key of an action commits one run, and an answer is that of its body.
LEMMA OneRunStep == OneRunInv /\ [Next]_vars => OneRunInv'
<1> SUFFICES ASSUME OneRunInv, [Next]_vars, which = "user"
             PROVE  OneRunInv'
  BY DEF OneRunInv, Next, vars
<1>1. User!UserNext \/ UNCHANGED userVars
  BY DEF Next, vars
<1>2. UserTypes /\ SendsAreWhole /\ KeysAreOfRuns /\ KeysStayInScope
  BY DEF OneRunInv
<1>3. SUFFICES UserTypes' /\ SendsAreWhole' /\ KeysAreOfRuns' /\ KeysStayInScope'
  BY DEF OneRunInv
<1>4. ASSUME NEW surface \in Surfaces, NEW body \in Bodies, NEW f \in User!Sends, User!Start(surface, body, f)
      PROVE  UserTypes' /\ SendsAreWhole' /\ KeysAreOfRuns' /\ KeysStayInScope'
  BY <1>2, <1>4, StartWrites
<1>5. ASSUME NEW f \in User!Sends, User!Succeed(f) \/ User!Fail(f)
      PROVE  UserTypes' /\ SendsAreWhole' /\ KeysAreOfRuns' /\ KeysStayInScope'
  BY <1>2, <1>5, SucceedWrites, FailWrites DEF BrowserKeeps
<1>6. ASSUME NEW s \in Scopes, User!Move(s)
      PROVE  UserTypes' /\ SendsAreWhole' /\ KeysAreOfRuns' /\ KeysStayInScope'
  BY <1>2, <1>6, MoveWrites DEF BrowserKeeps
<1>7. CASE User!Reset
  BY <1>2, <1>7, ResetWrites DEF BrowserKeeps
<1>10. ASSUME NEW surface \in Surfaces, NEW f \in User!Sends, User!Share(surface, f)
       PROVE  UserTypes' /\ SendsAreWhole' /\ KeysAreOfRuns' /\ KeysStayInScope'
  BY <1>2, <1>10, ShareWrites DEF BrowserKeeps
<1>8. ASSUME NEW f \in User!Sends, ServerAct(f)
      PROVE  UserTypes' /\ SendsAreWhole' /\ KeysAreOfRuns' /\ KeysStayInScope'
  <2>1. /\ UserTypes' /\ SendsAreWhole' /\ KeysAreOfRuns' /\ records' = records
        /\ \A g \in User!Sends : SameRequest(g)
    BY <1>2, <1>8, ServerStep
  <2>2. KeysStayInScope'
    BY <1>2, <2>1 DEF KeysStayInScope, SameRequest, IsStarted, SendsAreWhole
  <2> QED BY <2>1, <2>2
<1>9. CASE UNCHANGED userVars
  BY <1>2, <1>9 DEF userVars, UserTypes, SendsAreWhole, KeysAreOfRuns, KeysStayInScope, IsStarted
<1> QED BY <1>1, <1>4, <1>5, <1>6, <1>7, <1>8, <1>9, <1>10 DEF User!UserNext, ServerAct

LEMMA UserInit ==
    ASSUME Init
    PROVE  UserTypes /\ SendsAreWhole /\ KeysAreOfRuns /\ KeysStayInScope
<1>1. User!UserInit
  BY DEF Init
<1>2. /\ \A f \in User!Sends : sends[f] = User!NoSend
      /\ \A k \in User!Sends : keys[k] = "none"
      /\ \A s \in Scopes : records[s] = User!NoIntent
  BY <1>1 DEF User!UserInit
<1>3. User!NoSend \in SendRecord /\ User!NoIntent \in IntentRecord
  BY DEF User!NoSend, SendRecord, User!NoIntent, IntentRecord
<1>4. UserTypes
  BY <1>1, <1>3 DEF User!UserInit, UserTypes
<1> QED BY <1>2, <1>4 DEF SendsAreWhole, KeysAreOfRuns, KeysStayInScope, User!NoSend, User!NoIntent, IsStarted

\* UserAction's OneRunPerKey, with any number of controls: however often a
\* request is sent, its key commits one run, and a response that is shown is
\* that of the run its own body started (run_idempotent, ActionIntent).
THEOREM OneRunAlways == Spec => [](which = "user" => User!OneRunPerKey)
<1>1. Init => OneRunInv
  BY UserInit DEF OneRunInv
<1>2. OneRunInv => (which = "user" => User!OneRunPerKey)
  BY UserAssumption DEF OneRunInv, SendsAreWhole, KeysAreOfRuns, User!OneRunPerKey, User!CommittedRuns
<1> QED BY <1>1, <1>2, OneRunStep, PTL DEF Spec

\* Requests that cross are of different bodies. One that never crossed waits
\* alone, and its record is the scope's: pending under its key, which is no
\* other's unless an earlier outcome is in doubt. A record without a doubt has a
\* request under way that will write it.
WaitingHolds ==
    /\ \A f, g \in User!Waiting : f # g => f \in crossed
    /\ \A f \in User!Waiting : sends[f].scope = session.scope
    /\ \A f \in User!Waiting \ crossed :
          /\ User!Owns(f) /\ records[sends[f].scope].key = sends[f].key /\ records[sends[f].scope].pending
          /\ sends[f].disprovable \/ ~records[sends[f].scope].uncertain =>
                \A g \in User!Sends : IsStarted(g) /\ sends[g].key = sends[f].key => g = f
    /\ \A s \in Scopes : records[s].key # 0 /\ ~records[s].uncertain =>
          \E f \in User!Waiting : sends[f].scope = s /\ User!Owns(f)
    /\ \A f \in decided : IsStarted(f)

\* The record holds the key of a request whose outcome is in doubt: what waits
\* in its scope repeats that request, and no refusal of it disproves anything.
IsHeld(f) ==
    /\ records[sends[f].scope].key = sends[f].key /\ records[sends[f].scope].uncertain
    /\ \A g \in User!Waiting : sends[g].scope = sends[f].scope =>
          sends[g].key = sends[f].key /\ ~sends[g].disprovable

\* A request that may still commit, or did, is not lost from sight.
IsKept(f) ==
    \/ f \in User!Waiting
    \/ \E g \in decided : sends[g].key = sends[f].key
    \/ IsHeld(f)
UnknownIsKept == \A f \in User!Sends \ crossed : CanCommit(f) => IsKept(f)

RunKeptInv == which = "user" => WaitingHolds /\ UnknownIsKept

LEMMA CanCommitIsStarted ==
    ASSUME SendsAreWhole, NEW f \in User!Sends, CanCommit(f)
    PROVE  IsStarted(f) /\ sends[f].scope \in Scopes /\ sends[f].key \in User!Sends /\ sends[f].key # 0
BY UserAssumption DEF SendsAreWhole, CanCommit, User!Sends

LEMMA StartKeeps ==
    ASSUME UserTypes, SendsAreWhole, KeysAreOfRuns, KeysStayInScope, WaitingHolds, UnknownIsKept,
           NEW surface \in Surfaces, NEW body \in Bodies, NEW f \in User!Sends,
           User!Start(surface, body, f)
    PROVE  WaitingHolds' /\ UnknownIsKept'
<1> DEFINE s == session.scope
<1>1. /\ SendsAreWhole' /\ ~IsStarted(f) /\ sends'[f].client = "waiting" /\ sends'[f].scope = s
      /\ \A g \in User!Sends : g # f => sends'[g] = sends[g]
      /\ \A t \in Scopes : t # s => records'[t] = records[t]
      /\ records'[s].id = sends'[f].intent /\ records'[s].key = sends'[f].key
      /\ records'[s].uncertain = records[s].uncertain /\ records'[s].pending
      /\ sends'[f].disprovable => ~records[s].uncertain
      /\ sends'[f].key \in {records[s].key, f}
      /\ records[s].uncertain /\ records[s].key # 0 => sends'[f].key = records[s].key
  BY StartWrites
<1>2. f \notin User!Waiting /\ User!Waiting' = User!Waiting \cup {f}
  BY <1>1 DEF User!Waiting, IsStarted
<1>3. crossed' = IF User!Waiting = {} THEN crossed ELSE crossed \cup User!Waiting \cup {f}
  BY DEF User!Start
<1>4. session' = session /\ decided' = decided /\ s \in Scopes
  BY DEF User!Start, UserTypes
<1>5. sends'[f].key \in User!Sends /\ sends'[f].key # 0
  BY <1>1, UserAssumption DEF SendsAreWhole, IsStarted, User!Sends
<1>6. \A g \in User!Sends : IsStarted(g) => g # f /\ sends'[g] = sends[g] /\ sends[g].key # f
  BY <1>1 DEF KeysStayInScope
<1>7. /\ \A g \in decided : g \in User!Sends /\ IsStarted(g) /\ sends'[g] = sends[g]
      /\ \A g \in User!Waiting : g \in User!Sends /\ IsStarted(g) /\ sends'[g] = sends[g]
  BY <1>6 DEF WaitingHolds, UserTypes, User!Waiting, IsStarted
<1>8. WaitingHolds'
  <2>1. \A g, h \in User!Waiting' : g # h => g \in crossed'
    BY <1>2, <1>3
  <2>2. \A g \in User!Waiting' : sends'[g].scope = session'.scope
    BY <1>1, <1>2, <1>4, <1>7 DEF WaitingHolds
  <2>3. User!Owns(f)' /\ records'[sends'[f].scope] = records'[s]
    BY <1>1 DEF User!Owns
  <2>4. ASSUME NEW g \in User!Waiting', g \notin crossed'
        PROVE  /\ User!Owns(g)' /\ records'[sends'[g].scope].key = sends'[g].key
               /\ records'[sends'[g].scope].pending
               /\ sends'[g].disprovable \/ ~records'[sends'[g].scope].uncertain =>
                     \A h \in User!Sends : sends'[h].client # "unused" /\ sends'[h].key = sends'[g].key => h = g
    <3>1. User!Waiting = {} /\ g = f
      BY <1>2, <1>3, <2>4
    <3>2. records[s].key = 0 \/ records[s].uncertain
      BY <1>4, <3>1 DEF WaitingHolds
    <3>3. ASSUME ~records[s].uncertain, NEW h \in User!Sends, sends'[h].client # "unused",
                 sends'[h].key = sends'[f].key
          PROVE  h = f
      <4>1. sends'[f].key = f
        BY <1>1, <1>5, <3>2, <3>3
      <4> QED BY <4>1, <1>1, <1>6, <3>3 DEF IsStarted
    <3> QED BY <1>1, <2>3, <3>1, <3>3
  <2>5. ASSUME NEW t \in Scopes, records'[t].key # 0, ~records'[t].uncertain
        PROVE  \E g \in User!Waiting' : sends'[g].scope = t /\ User!Owns(g)'
    <3>1. CASE t = s
      BY <3>1, <1>1, <1>2, <2>3
    <3>2. CASE t # s
      <4>1. records'[t] = records[t]
        BY <3>2, <1>1
      <4>2. PICK g \in User!Waiting : sends[g].scope = t /\ User!Owns(g)
        BY <4>1, <2>5 DEF WaitingHolds
      <4> QED BY <4>1, <4>2, <1>2, <1>7 DEF User!Owns
    <3> QED BY <3>1, <3>2
  <2>6. \A g \in decided' : sends'[g].client # "unused"
    BY <1>4, <1>7 DEF IsStarted
  <2> QED BY <2>1, <2>2, <2>4, <2>5, <2>6 DEF WaitingHolds, IsStarted
<1>9. ASSUME NEW g \in User!Sends, g \notin crossed', CanCommit(g)'
      PROVE  IsKept(g)'
  <2>1. CASE g = f
    BY <2>1, <1>2 DEF IsKept
  <2>2. CASE g # f
    <3>1. sends'[g] = sends[g] /\ CanCommit(g) /\ g \notin crossed
      BY <2>2, <1>1, <1>3, <1>9 DEF CanCommit
    <3>2. IsStarted(g) /\ sends[g].scope \in Scopes /\ sends[g].key # 0 /\ IsKept(g)
      BY <3>1, CanCommitIsStarted DEF UnknownIsKept
    <3>3. CASE g \in User!Waiting
      BY <3>3, <1>2 DEF IsKept
    <3>4. CASE \E h \in decided : sends[h].key = sends[g].key
      BY <3>1, <3>4, <1>4, <1>7 DEF IsKept
    <3>5. CASE IsHeld(g)
      <4>1. records'[sends'[g].scope].key = sends'[g].key /\ records'[sends'[g].scope].uncertain
        BY <3>1, <3>2, <3>5, <1>1 DEF IsHeld
      <4>2. sends[g].scope = s => sends'[f].key = sends'[g].key /\ ~sends'[f].disprovable
        BY <3>1, <3>2, <3>5, <1>1 DEF IsHeld
      <4>3. \A h \in User!Waiting' : sends'[h].scope = sends'[g].scope =>
               sends'[h].key = sends'[g].key /\ ~sends'[h].disprovable
        BY <4>2, <3>1, <3>5, <1>1, <1>2, <1>7 DEF IsHeld
      <4> QED BY <4>1, <4>3 DEF IsKept, IsHeld
    <3> QED BY <3>2, <3>3, <3>4, <3>5 DEF IsKept
  <2> QED BY <2>1, <2>2
<1> QED BY <1>8, <1>9 DEF UnknownIsKept

\* What ends a request that waits: its record is over or in doubt. A request
\* that crossed may find another's record, which is then none in doubt.
LEMMA EndKeeps ==
    ASSUME UserTypes, SendsAreWhole, KeysAreOfRuns, KeysStayInScope, WaitingHolds, UnknownIsKept,
           NEW f \in User!Sends, User!Succeed(f) \/ User!Fail(f)
    PROVE  WaitingHolds' /\ UnknownIsKept'
<1> DEFINE s == sends[f].scope
<1>1. /\ BrowserKeeps /\ sends'[f].client \in {"shown", "failed"}
      /\ \A g \in User!Sends : g # f => sends'[g] = sends[g]
  BY SucceedWrites, FailWrites
<1>2. /\ f \in User!Waiting /\ s \in Scopes /\ IsStarted(f) /\ UNCHANGED <<session, crossed>>
  BY DEF User!Succeed, User!Fail, SendsAreWhole, User!Waiting, IsStarted
<1>3. User!Waiting' = User!Waiting \ {f}
  BY <1>1 DEF User!Waiting
<1>4. f \notin crossed => User!Waiting' = {}
  BY <1>2, <1>3 DEF WaitingHolds
<1>5. \A t \in Scopes : t # s => records'[t] = records[t]
  BY FailWrites, <1>2 DEF User!Succeed, UserTypes
<1>6. \A g \in User!Sends : SameOutcome(g) /\ (CanCommit(g)' <=> CanCommit(g)) /\ (IsStarted(g)' <=> IsStarted(g))
  BY <1>1 DEF BrowserKeeps, SameOutcome, CanCommit
<1>7. /\ decided \subseteq decided' /\ decided' \subseteq decided \cup {f}
      /\ \A g \in decided : g \in User!Sends /\ IsStarted(g)
  BY DEF User!Succeed, User!Fail, WaitingHolds, UserTypes
<1>8. /\ \/ f \in decided'
         \/ User!Fail(f) /\ User!Disproves(f)
         \/ User!Owns(f) /\ records'[s].uncertain /\ records'[s].key = records[s].key
         \/ ~User!Owns(f) /\ records'[s] = records[s]
      /\ User!Owns(f) => records'[s] = User!NoIntent \/ records'[s].uncertain
      /\ ~User!Owns(f) => records'[s] = User!NoIntent \/ records'[s] = records[s]
  <2>1. CASE User!Succeed(f)
    BY <2>1, <1>2 DEF User!Succeed, UserTypes
  <2>2. CASE User!Fail(f)
    BY <2>2, <1>2, FailWrites
  <2> QED BY <2>1, <2>2
<1>9. User!NoIntent.key = 0
  BY DEF User!NoIntent
<1>10. \A g \in User!Waiting' : g \in User!Sends /\ g # f /\ g \in User!Waiting /\ sends'[g] = sends[g]
  BY <1>1, <1>3 DEF User!Waiting
<1>11. WaitingHolds'
  <2>1. \A g, h \in User!Waiting' : g # h => g \in crossed'
    BY <1>2, <1>3 DEF WaitingHolds
  <2>2. \A g \in User!Waiting' : sends'[g].scope = session'.scope
    BY <1>2, <1>10 DEF WaitingHolds
  <2>3. \A g \in User!Waiting' : g \in crossed'
    BY <1>2, <1>10 DEF WaitingHolds
  <2>4. ASSUME NEW t \in Scopes, records'[t].key # 0, ~records'[t].uncertain
        PROVE  \E g \in User!Waiting' : sends'[g].scope = t /\ User!Owns(g)'
    <3>1. records'[t] = records[t] /\ (t = s => ~User!Owns(f))
      BY <1>5, <1>8, <1>9, <2>4
    <3>2. PICK g \in User!Waiting : sends[g].scope = t /\ User!Owns(g)
      BY <2>4, <3>1 DEF WaitingHolds
    <3>3. g # f /\ g \in User!Waiting'
      BY <1>3, <3>1, <3>2
    <3> QED BY <3>1, <3>2, <3>3, <1>10 DEF User!Owns
  <2>5. \A g \in decided' : sends'[g].client # "unused"
    BY <1>2, <1>6, <1>7 DEF IsStarted
  <2> QED BY <2>1, <2>2, <2>3, <2>4, <2>5 DEF WaitingHolds, IsStarted
<1>12. ASSUME NEW g \in User!Sends, g \notin crossed', CanCommit(g)'
       PROVE  IsKept(g)'
  <2>1. /\ CanCommit(g) /\ IsStarted(g) /\ sends[g].scope \in Scopes /\ sends[g].key # 0
        /\ IsKept(g) /\ g \notin crossed
    BY <1>2, <1>6, <1>12, CanCommitIsStarted DEF UnknownIsKept
  <2>2. /\ sends'[g].key = sends[g].key /\ sends'[g].scope = sends[g].scope
        /\ \A h \in User!Sends : sends'[h].key = sends[h].key
    BY <1>6 DEF SameOutcome
  <2>3. CASE \E h \in decided : sends[h].key = sends[g].key
    BY <2>2, <2>3, <1>7 DEF IsKept
  <2>4. CASE f \in decided' /\ sends[f].key = sends[g].key
    BY <2>2, <2>4 DEF IsKept
  <2>5. CASE g \in User!Waiting /\ f \notin decided'
    <3>1. g = f /\ User!Waiting' = {} /\ User!Owns(f) /\ records[s].key = sends[f].key
      BY <2>1, <2>5, <1>2, <1>4 DEF WaitingHolds
    <3>2. ~User!Disproves(f)
      BY <2>1, <3>1 DEF User!Disproves, CanCommit, SendsAreWhole
    <3>3. records'[s].uncertain /\ records'[s].key = sends[f].key
      BY <2>5, <3>1, <3>2, <1>8
    <3> QED BY <2>2, <3>1, <3>3 DEF IsKept, IsHeld
  <2>6. CASE IsHeld(g) /\ f \notin decided'
    <3>1. records'[sends[g].scope].key = sends[g].key /\ records'[sends[g].scope].uncertain
      <4>1. CASE sends[g].scope = s
        BY <4>1, <2>6, <1>2, <1>8 DEF IsHeld, User!Disproves
      <4>2. CASE sends[g].scope # s
        BY <4>2, <2>1, <2>6, <1>5 DEF IsHeld
      <4> QED BY <4>1, <4>2
    <3>2. \A h \in User!Waiting' : sends'[h].scope = sends[g].scope =>
             sends'[h].key = sends[g].key /\ ~sends'[h].disprovable
      BY <2>6, <1>10 DEF IsHeld
    <3> QED BY <2>2, <3>1, <3>2 DEF IsKept, IsHeld
  <2>7. CASE IsHeld(g) /\ sends[g].scope # s
    <3>1. records'[sends[g].scope] = records[sends[g].scope]
      BY <2>1, <2>7, <1>5
    <3>2. \A h \in User!Waiting' : sends'[h].scope = sends[g].scope =>
             sends'[h].key = sends[g].key /\ ~sends'[h].disprovable
      BY <2>7, <1>10 DEF IsHeld
    <3> QED BY <2>2, <2>7, <3>1, <3>2 DEF IsKept, IsHeld
  <2>8. CASE IsHeld(g) /\ sends[g].scope = s /\ f \in decided'
    BY <2>4, <2>8, <1>2 DEF IsHeld
  <2>9. CASE g \in User!Waiting /\ f \in decided'
    BY <2>1, <2>4, <2>9, <1>2 DEF WaitingHolds
  <2> QED BY <2>1, <2>3, <2>5, <2>6, <2>7, <2>8, <2>9 DEF IsKept
<1> QED BY <1>11, <1>12 DEF UnknownIsKept

LEMMA MoveKeeps ==
    ASSUME UserTypes, SendsAreWhole, KeysAreOfRuns, KeysStayInScope, WaitingHolds, UnknownIsKept,
           NEW s \in Scopes, User!Move(s)
    PROVE  WaitingHolds' /\ UnknownIsKept'
<1>1. /\ BrowserKeeps /\ \A g \in User!Sends : sends'[g].client # "waiting"
      /\ \A t \in Scopes :
            /\ records'[t].key = records[t].key
            /\ records[t].uncertain => records'[t].uncertain
            /\ (\E g \in User!Waiting : sends[g].scope = t /\ User!Owns(g)) => records'[t].uncertain
  BY MoveWrites
<1>2. User!Waiting' = {} /\ decided' = decided /\ crossed' = crossed
  BY <1>1 DEF User!Waiting, User!Move
<1>3. \A t \in Scopes : records'[t].key = 0 \/ records'[t].uncertain
  BY <1>1 DEF WaitingHolds
<1>4. \A g \in User!Sends : SameOutcome(g) /\ (CanCommit(g)' <=> CanCommit(g))
  BY <1>1 DEF BrowserKeeps, SameOutcome, CanCommit
<1>5. \A g \in decided : g \in User!Sends /\ IsStarted(g)
  BY DEF WaitingHolds, UserTypes
<1>6. WaitingHolds'
  BY <1>2, <1>3, <1>4, <1>5 DEF WaitingHolds, IsStarted, SameOutcome
<1>7. ASSUME NEW g \in User!Sends, g \notin crossed', CanCommit(g)'
      PROVE  IsKept(g)'
  <2>1. CanCommit(g) /\ IsStarted(g) /\ sends[g].scope \in Scopes /\ IsKept(g) /\ g \notin crossed
    BY <1>2, <1>4, <1>7, CanCommitIsStarted DEF UnknownIsKept
  <2>2. /\ sends'[g].scope = sends[g].scope
        /\ \A h \in User!Sends : sends'[h].key = sends[h].key
    BY <1>4 DEF SameOutcome
  <2>3. CASE \E h \in decided : sends[h].key = sends[g].key
    BY <2>2, <2>3, <1>2, <1>5 DEF IsKept
  <2>4. CASE g \in User!Waiting
    <3>1. records'[sends[g].scope].uncertain /\ records'[sends[g].scope].key = sends[g].key
      BY <2>1, <2>4, <1>1 DEF WaitingHolds
    <3> QED BY <3>1, <2>2, <1>2 DEF IsKept, IsHeld
  <2>5. CASE IsHeld(g)
    BY <2>1, <2>2, <2>5, <1>1, <1>2 DEF IsKept, IsHeld
  <2> QED BY <2>1, <2>3, <2>4, <2>5 DEF IsKept
<1> QED BY <1>6, <1>7 DEF UnknownIsKept

LEMMA ResetKeeps ==
    ASSUME UserTypes, SendsAreWhole, KeysAreOfRuns, KeysStayInScope, WaitingHolds, UnknownIsKept, User!Reset
    PROVE  WaitingHolds' /\ UnknownIsKept'
<1> DEFINE s == session.scope
<1>1. /\ UNCHANGED <<sends, session, crossed>> /\ records'[s] = User!NoIntent /\ s \in Scopes
      /\ \A t \in Scopes : t # s => records'[t] = records[t]
  BY ResetWrites DEF UserTypes
<1>2. User!Waiting' = User!Waiting /\ User!Waiting \subseteq crossed
  BY <1>1 DEF User!Reset, User!Waiting, WaitingHolds
<1>3. /\ decided' = decided \cup {g \in User!Sends : IsStarted(g) /\ sends[g].scope = s}
      /\ decided' \subseteq User!Sends
  BY DEF User!Reset, User!Started, IsStarted, UserTypes
<1>4. WaitingHolds'
  <2>1. \A t \in Scopes : records'[t].key # 0 => records'[t] = records[t]
    BY <1>1 DEF User!NoIntent
  <2>2. ASSUME NEW t \in Scopes, records'[t].key # 0, ~records'[t].uncertain
        PROVE  \E f \in User!Waiting' : sends'[f].scope = t /\ User!Owns(f)'
    <3>1. PICK f \in User!Waiting : sends[f].scope = t /\ User!Owns(f)
      BY <2>1, <2>2 DEF WaitingHolds
    <3> QED BY <3>1, <2>1, <2>2, <1>1, <1>2 DEF User!Owns
  <2> QED BY <1>1, <1>2, <1>3, <2>2 DEF WaitingHolds, IsStarted
<1>5. ASSUME NEW g \in User!Sends, g \notin crossed', CanCommit(g)'
      PROVE  IsKept(g)'
  <2>1. CanCommit(g) /\ IsStarted(g) /\ sends[g].scope \in Scopes /\ IsKept(g)
    BY <1>1, <1>5, CanCommitIsStarted DEF UnknownIsKept, CanCommit
  <2>2. CASE sends[g].scope = s
    BY <2>1, <2>2, <1>1, <1>3 DEF IsKept
  <2>3. CASE sends[g].scope # s
    BY <2>1, <2>3, <1>1, <1>2, <1>3 DEF IsKept, IsHeld
  <2> QED BY <2>2, <2>3
<1> QED BY <1>4, <1>5 DEF UnknownIsKept

LEMMA ShareKeeps ==
    ASSUME UserTypes, SendsAreWhole, KeysAreOfRuns, KeysStayInScope, WaitingHolds, UnknownIsKept,
           NEW surface \in Surfaces, NEW f \in User!Sends, User!Share(surface, f)
    PROVE  WaitingHolds' /\ UnknownIsKept'
<1>1. /\ BrowserKeeps /\ UNCHANGED <<session, records, keys, decided, crossed>>
      /\ \A g \in User!Sends : sends'[g].client = sends[g].client /\ (g # f => sends'[g] = sends[g])
      /\ records[session.scope].uncertain => sends'[f].disprovable = sends[f].disprovable
      /\ f \in User!Waiting /\ records[session.scope].key = sends[f].key
  BY ShareWrites
<1>2. \A g \in User!Sends : SameOutcome(g) /\ (CanCommit(g)' <=> CanCommit(g)) /\ (IsStarted(g)' <=> IsStarted(g))
  BY <1>1 DEF BrowserKeeps, SameOutcome, CanCommit
<1>3. /\ User!Waiting' = User!Waiting /\ User!Waiting \subseteq User!Sends /\ decided \subseteq User!Sends
      /\ sends[f].scope = session.scope
      /\ \A g \in User!Sends : /\ sends'[g].key = sends[g].key /\ sends'[g].scope = sends[g].scope
                               /\ sends'[g].intent = sends[g].intent
  BY <1>1, <1>2 DEF User!Waiting, UserTypes, WaitingHolds, SameOutcome
<1>4. \A g \in User!Sends : /\ User!Owns(g)' <=> User!Owns(g)
                            /\ records[sends[g].scope].uncertain /\ g \in User!Waiting =>
                                  sends'[g].disprovable = sends[g].disprovable
  BY <1>1, <1>3 DEF User!Owns
<1>5. WaitingHolds'
  <2>1. ASSUME NEW g \in User!Waiting, g \notin crossed,
               sends'[g].disprovable \/ ~records[sends[g].scope].uncertain,
               NEW h \in User!Sends, IsStarted(h), sends[h].key = sends[g].key
        PROVE  h = g
    BY <2>1, <1>3, <1>4 DEF WaitingHolds
  <2> QED BY <2>1, <1>1, <1>2, <1>3, <1>4 DEF WaitingHolds
<1>6. UnknownIsKept'
  <2>1. \A g \in User!Sends : IsHeld(g) => IsHeld(g)'
    BY <1>1, <1>3, <1>4 DEF IsHeld
  <2>2. \A g \in User!Sends : IsKept(g) => IsKept(g)'
    BY <2>1, <1>1, <1>3 DEF IsKept
  <2> QED BY <2>2, <1>1, <1>2 DEF UnknownIsKept
<1> QED BY <1>5, <1>6

LEMMA ServerKeeps ==
    ASSUME UserTypes, SendsAreWhole, KeysAreOfRuns, KeysStayInScope, WaitingHolds, UnknownIsKept,
           NEW f \in User!Sends, ServerAct(f)
    PROVE  WaitingHolds' /\ UnknownIsKept'
<1>1. /\ UNCHANGED <<session, records, decided, crossed>>
      /\ \A g \in User!Sends : SameRequest(g) /\ (CanCommit(g)' => CanCommit(g) \/ g \in User!Waiting)
  BY ServerStep
<1>2. User!Waiting' = User!Waiting /\ decided \subseteq User!Sends /\ User!Waiting \subseteq User!Sends
  BY <1>1 DEF User!Waiting, SameRequest, UserTypes
<1>3. WaitingHolds'
  BY <1>1, <1>2 DEF WaitingHolds, SameRequest, IsStarted, User!Owns
<1>4. UnknownIsKept'
  BY <1>1, <1>2 DEF UnknownIsKept, IsKept, IsHeld, SameRequest
<1> QED BY <1>3, <1>4

LEMMA RunKeptStep == OneRunInv /\ RunKeptInv /\ [Next]_vars => RunKeptInv'
<1> SUFFICES ASSUME OneRunInv, RunKeptInv, [Next]_vars, which = "user"
             PROVE  WaitingHolds' /\ UnknownIsKept'
  BY DEF RunKeptInv, Next, vars
<1>1. User!UserNext \/ UNCHANGED userVars
  BY DEF Next, vars
<1>2. UserTypes /\ SendsAreWhole /\ KeysAreOfRuns /\ KeysStayInScope /\ WaitingHolds /\ UnknownIsKept
  BY DEF OneRunInv, RunKeptInv
<1>3. ASSUME NEW surface \in Surfaces, NEW body \in Bodies, NEW f \in User!Sends, User!Start(surface, body, f)
      PROVE  WaitingHolds' /\ UnknownIsKept'
  BY <1>2, <1>3, StartKeeps
<1>4. ASSUME NEW f \in User!Sends, User!Succeed(f) \/ User!Fail(f)
      PROVE  WaitingHolds' /\ UnknownIsKept'
  BY <1>2, <1>4, EndKeeps
<1>5. ASSUME NEW s \in Scopes, User!Move(s)
      PROVE  WaitingHolds' /\ UnknownIsKept'
  BY <1>2, <1>5, MoveKeeps
<1>6. CASE User!Reset
  BY <1>2, <1>6, ResetKeeps
<1>7. ASSUME NEW surface \in Surfaces, NEW f \in User!Sends, User!Share(surface, f)
      PROVE  WaitingHolds' /\ UnknownIsKept'
  BY <1>2, <1>7, ShareKeeps
<1>8. ASSUME NEW f \in User!Sends, ServerAct(f)
      PROVE  WaitingHolds' /\ UnknownIsKept'
  BY <1>2, <1>8, ServerKeeps
<1>9. CASE UNCHANGED userVars
  BY <1>2, <1>9 DEF userVars, WaitingHolds, UnknownIsKept, IsKept, IsHeld, CanCommit, IsStarted,
     User!Owns, User!Waiting
<1> QED BY <1>1, <1>3, <1>4, <1>5, <1>6, <1>7, <1>8, <1>9 DEF User!UserNext, ServerAct

\* UserAction's ActionRunsOnce with any number of controls, mounted once or
\* again, whatever is lost, aborted or renewed: a run whose answer nobody saw is
\* found again by its key, and the key commits one run, unless requests for
\* different bodies were under way at once (startResearch, run_idempotent).
THEOREM UnknownRunsAreFound == Spec => []ActionRunsOnce
<1>1. Init => OneRunInv
  BY UserInit DEF OneRunInv
<1>2. Init => RunKeptInv
  <2> SUFFICES ASSUME Init PROVE WaitingHolds /\ UnknownIsKept
    BY DEF RunKeptInv
  <2>1. User!UserInit
    BY DEF Init
  <2>2. /\ \A f \in User!Sends : sends[f].client = "unused" /\ sends[f].server = "none"
        /\ \A s \in Scopes : records[s].key = 0
        /\ decided = {}
    BY <2>1 DEF User!UserInit, User!NoSend, User!NoIntent
  <2> QED BY <2>2 DEF WaitingHolds, UnknownIsKept, CanCommit, User!Waiting
<1>3. OneRunInv /\ RunKeptInv => ActionRunsOnce
  <2> SUFFICES ASSUME OneRunInv, RunKeptInv, which = "user"
               PROVE  User!OneRunPerKey /\ User!UnknownRunIsKept
    BY DEF ActionRunsOnce, User!ActionRunsOnce
  <2>1. User!OneRunPerKey
    BY UserAssumption DEF OneRunInv, SendsAreWhole, KeysAreOfRuns, User!OneRunPerKey, User!CommittedRuns
  <2>2. User!UnknownRunIsKept
    BY DEF RunKeptInv, UnknownIsKept, IsKept, IsHeld, CanCommit, User!UnknownRunIsKept, User!CommittedRuns
  <2> QED BY <2>1, <2>2
<1> QED BY <1>1, <1>2, <1>3, OneRunStep, RunKeptStep, PTL DEF Spec

----------------------------------------------------------------------------
(* Delivery, on both instances: the lemmas are those of OutreachDelivery.   *)

DeliveriesInv ==
    /\ which = "delivery" => Delivery!SendingInv
    /\ which = "contacts" => Recipients!SendingInv

\* What leaves the house was approved as it is, and leaves once
\* (delivery_admission, delivery_runner, approval_service).
THEOREM DeliveryKeepsItsWord == Spec => []ApprovedCopySentOnce
<1>1. Init => DeliveriesInv
  <2>1. ASSUME Init, which = "contacts" PROVE Recipients!SendingInv
    BY <2>1, Recipients!DeliveryStarts DEF Init
  <2>2. ASSUME Init, which = "delivery" PROVE Delivery!SendingInv
    BY <2>2, Delivery!DeliveryStarts DEF Init
  <2> QED BY <2>1, <2>2 DEF DeliveriesInv
<1>2. DeliveriesInv /\ [Next]_vars => DeliveriesInv'
  <2> SUFFICES ASSUME DeliveriesInv, [Next]_vars PROVE DeliveriesInv'
    OBVIOUS
  <2>1. which' = which
    BY DEF Next, vars
  <2>2. CASE which = "delivery"
    <3>1. [Delivery!DeliveryNext]_deliveryVars
      BY <2>2 DEF Next, vars
    <3>2. Delivery!SendingInv'
      BY <2>2, <3>1, Delivery!DeliveryStep DEF DeliveriesInv, deliveryVars, Delivery!deliveryVars
    <3> QED BY <2>1, <2>2, <3>2 DEF DeliveriesInv
  <2>3. CASE which = "contacts"
    <3>1. [Recipients!DeliveryNext]_deliveryVars
      BY <2>3 DEF Next, vars
    <3>2. Recipients!SendingInv'
      BY <2>3, <3>1, Recipients!DeliveryStep DEF DeliveriesInv, deliveryVars, Recipients!deliveryVars
    <3> QED BY <2>1, <2>3, <3>2 DEF DeliveriesInv
  <2> QED BY <2>1, <2>2, <2>3 DEF DeliveriesInv
<1>3. DeliveriesInv => ApprovedCopySentOnce
  BY Delivery!SendingIsApproved, Recipients!SendingIsApproved DEF DeliveriesInv, ApprovedCopySentOnce
<1> QED BY <1>1, <1>2, <1>3, PTL DEF Spec

----------------------------------------------------------------------------
(* Runs, on both instances: the lemmas are those of RunLifecycle.           *)

RunsInv ==
    /\ which = "run" => Run!CarriedInv
    /\ which = "retries" => Retries!CarriedInv

LEMMA RunsStart == Init => RunsInv
<1>1. 1 \in Nat /\ 1 \in Nat \ {0} /\ 2 \in Nat \ {0}
  OBVIOUS
<1>2. ASSUME Init, which = "run" PROVE Run!CarriedInv
  BY <1>1, <1>2, Run!RunStarts DEF Init
<1>3. ASSUME Init, which = "retries" PROVE Retries!CarriedInv
  BY <1>1, <1>3, Retries!RunStarts DEF Init
<1> QED BY <1>2, <1>3 DEF RunsInv

LEMMA RunsStep ==
    ASSUME RunsInv, [Next]_vars
    PROVE  /\ RunsInv'
           /\ run.status \in {"completed", "cancelled"} => run'.status = run.status
<1>1. 1 \in Nat /\ 1 \in Nat \ {0} /\ 2 \in Nat \ {0} /\ which' = which
  BY DEF Next, vars
<1>2. CASE which = "run"
  <2>1. [Run!RunNext]_(Run!runVars) /\ Run!CarriedInv
    BY <1>2 DEF Next, vars, runVars, Run!runVars, RunsInv
  <2>2. Run!CarriedInv'
    BY <1>1, <2>1, Run!RunStep
  <2>3. run.status \in {"completed", "cancelled"} => run'.status = run.status
    BY <2>1, Run!OverStaysOver
  <2> QED BY <1>1, <1>2, <2>2, <2>3 DEF RunsInv
<1>3. CASE which = "retries"
  <2>1. [Retries!RunNext]_(Retries!runVars) /\ Retries!CarriedInv
    BY <1>3 DEF Next, vars, runVars, Retries!runVars, RunsInv
  <2>2. Retries!CarriedInv'
    BY <1>1, <2>1, Retries!RunStep
  <2>3. run.status \in {"completed", "cancelled"} => run'.status = run.status
    BY <2>1, Retries!OverStaysOver
  <2> QED BY <1>1, <1>3, <2>2, <2>3 DEF RunsInv
<1>4. CASE which \notin {"run", "retries"}
  BY <1>1, <1>4 DEF Next, vars, runVars, RunsInv
<1> QED BY <1>2, <1>3, <1>4

\* While a run is under way some intent goes on with it, and it is called
\* completed only when nothing of it is missing (discovery_executor,
\* fit_executor, run_service, the recovery of the controller).
THEOREM RunsAreCarriedThrough == Spec => []RunIsCarriedThrough
<1>1. RunsInv /\ [Next]_vars => RunsInv'
  BY RunsStep
<1>2. RunsInv => RunIsCarriedThrough
  BY DEF RunsInv, RunIsCarriedThrough, Run!CarriedInv, Run!CarriedShape, Run!StatusIsTrue,
         Retries!CarriedInv, Retries!CarriedShape, Retries!StatusIsTrue
<1> QED BY RunsStart, <1>1, <1>2, PTL DEF Spec

\* Nothing takes a run out of "completed" or "cancelled": no worker under way,
\* no denial recorded late, no retry and no reconciliation.
THEOREM EndedRunsStayEnded == Spec => TerminalRunsFinal
<1>1. RunsInv /\ [Next]_vars => RunsInv'
  BY RunsStep
<1>2. RunsInv /\ [Next]_vars => [run.status \in {"completed", "cancelled"} => run'.status = run.status]_(Run!runVars)
  BY RunsStep
<1>3. RunsInv /\ [Next]_vars => [run.status \in {"completed", "cancelled"} => run'.status = run.status]_(Retries!runVars)
  BY RunsStep
<1> QED BY RunsStart, <1>1, <1>2, <1>3, PTL DEF Spec, TerminalRunsFinal, Run!TerminalRunsFinal, Retries!TerminalRunsFinal
\* A job's counts are those of its rows, a failed row is repaired by one of its
\* retries, and no version of a buyer is spent twice, for any number of buyers,
\* jobs, manifests and edits and any size of a chunk (apply_bulk_chunk,
\* retry_failed_only, preview, execute).
THEOREM BulkKeepsCount == Spec => []BulkCountsAreTrue
<1> DEFINE Kept == which = "bulk" => BulkInv
<1>1. Init => Kept
  BY BulkStart DEF Init
<1>2. Kept /\ [Next]_vars => Kept'
  <2> SUFFICES ASSUME BulkInv, [Next]_vars, which = "bulk" PROVE BulkInv'
    BY DEF Next, vars
  <2>1. [Bulk!BulkNext]_bulkVars
    BY DEF Next, vars
  <2> QED BY <2>1, BulkStep
<1>3. Kept => BulkCountsAreTrue
  BY BulkIsTrue DEF BulkCountsAreTrue
<1> QED BY <1>1, <1>2, <1>3, PTL DEF Spec

\* What may still be billed is held, a task has at most two calls in doubt and
\* none when it may be deleted, and a tool is accepted once, for any number of
\* sections and tools (claim, persist_result, reconcile_parent, cancel_task and
\* the finalization of a provider stage, in execution/sales_tasks.py,
\* services/sales_accounting.py and services/xverum_dispatch.py).
THEOREM SalesHoldLiability == Spec => []LiabilityIsHeld
<1> DEFINE Kept == which = "sales" => SalesInv
<1>1. Init => Kept
  BY SalesStart DEF Init
<1>2. Kept /\ [Next]_vars => Kept'
  <2> SUFFICES ASSUME SalesInv, [Next]_vars, which = "sales" PROVE SalesInv'
    BY DEF Next, vars
  <2>1. [Sales!SalesNext]_salesVars
    BY DEF Next, vars
  <2> QED BY <2>1, SalesStep
<1>3. Kept => LiabilityIsHeld
  BY SalesIsTrue DEF LiabilityIsHeld
<1> QED BY <1>1, <1>2, <1>3, PTL DEF Spec

\* A run's counter covers every search and page still open, for any number of
\* hosts and any plan (advance_usage of services/run_usage.py, called by
\* prepare_run_search, the intake and the page runner).
THEOREM LiveCountsOpenWork == Spec => []InFlightCoversOpenWork
<1> DEFINE Kept == which = "live" => LiveInv
<1>1. Init => Kept
  BY LiveStart DEF Init
<1>2. Kept /\ [Next]_vars => Kept'
  <2> SUFFICES ASSUME LiveInv, [Next]_vars, which = "live" PROVE LiveInv'
    BY DEF Next, vars
  <2>1. [Live!LiveNext]_liveVars
    BY DEF Next, vars
  <2> QED BY <2>1, LiveStep
<1>3. Kept => InFlightCoversOpenWork
  BY LiveIsTrue DEF InFlightCoversOpenWork
<1> QED BY <1>1, <1>2, <1>3, PTL DEF Spec

====
