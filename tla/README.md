# BuyerOS in TLA+

BuyerOS finds buyers for a seller, researches them through paid providers, looks
up contacts, drafts messages and delivers them.  A FastAPI service with two
interchangeable job runtimes (Celery and Cloudflare) does the work behind a
transactional outbox; a Next.js client shows it.  What can go wrong and a test
hardly reaches lies between transactions: a paid call must happen at most once
and its uncertain outcome must be found out; what people approve must be what
is used; what a screen reports must be what was written, while processes die,
answers are lost, tabs race, permissions change and an operator switches
runtimes.  This directory models these protocols, checks them with TLC on small
instances and proves the central facts of execution, money, delivery and runs
with TLAPS for every instance.

Paths are relative to `src/services/api/buyeros_api/` when they start with
`execution/`, `services/`, `api/`, `db/` or `providers/` and end in `.py`, and to
`src/` otherwise.  `PROJECT.json` lists every component with its status, every
definition with the lines it translates, every hazard with the line where it
bites, every run, mutant, finding and theorem.

## 1. The system

### 1.1 How the parts work together

```
 browser tab                    API (one PostgreSQL)                    workers
 session, scope, keys  ----->   routes: idempotency key, gates,  ---->  outbox intent
 screens, pollers      <-----   optimistic versions               <---- Celery task or
                                                                        bounded step
 Cloudflare: dispatcher, queue, Workflow  --- signed HTTP --->  claim, step, status
 suppliers: research, contact data, models, delivery  <-- calls outside transactions
 object store: bytes of documents, outside every transaction
```

Components interact through the database (row locks, advisory locks called
gates, unique keys, versions) and through outbox intents: a transaction writes
its business rows together with the intent of the next step.  An intent is
claimed in a *generation* with a lease, and every write of its worker is fenced
by that generation.  No transaction is open during a call to a supplier, so
each call is prepare, call, finalize.  In the browser, components share the
session scope (mode, actor, workspace, project and a generation) and the storage
of the origin.

### 1.2 Components

State, operations and what makes each correct; the module that models it is in
section 2.

| Component | State | Operations | Hard here | Correct means |
|---|---|---|---|---|
| Outbox, receipts, slot (`execution/dispatcher.py`, `services/worker_execution.py`) | `outbox_events`, `worker_steps`, `worker_runtime_control` | claim, release, publication report, step claim, finish, runtime switch | duplicated, late and lost messages; overrun steps | one fenced writer, finished rows stay finished, one owner of the slot |
| Durable execution (`execution/*.py`, `src/services/worker`, `services/worker_recovery.py`) | the same, provider operations | task, step, prepare, call, finalize, recover | a crash around the call; two runtimes in flight | one submission; doubt is followed; lost claims are replaced |
| Budget ledger, pilot budgets | accounts, holds, cost events; outside charges, reconciliations | reserve, settle, refund, release, approve; record, reconcile | turn of the month; a late proof; stale snapshots | no limit passed; accounts agree with events; admission against what is known now |
| Contact lookups and quotes | quote, job, operations, one hold | quote, confirm, submit, poll, callback, cancel, reconcile | answers that race cancellation; a quote that ages | hold outlives doubt; what is ordered is eligible |
| Research runs and live research | run, searches, receipts, pages, model calls, usage | admit, search, take in, fit, cancel, retry, recover | late answers of a cancelled run; repeated intake | nothing missing from a completed run; calls in flight are counted |
| Companies, imports | companies, identities, registry | discovery, repair, page review, import | two runs find one company | one company, one identity |
| Fit and review | checkpoints, assessments, reviews | graph nodes, select, review | rows change between nodes and between screens | a decision rests on what holds and was seen |
| Lead workflow and its edits | observations, judgements, texts, approvals; intents | add, correct, review, prepare, approve; prepare, apply, cancel | hashes of what was read; lost answers, two tabs | judgements saw everything; an edit is written once |
| Bulk jobs, manifests, buyer table | jobs, manifests, wake-ups, snapshots | preview, execute, chunk, cancel, retry | cancel and revoke between chunks; lost answers | counts are true; reports are true |
| Requests | idempotency rows, browser keys | begin, replay, complete | identical requests at once; moves between scopes | an action runs once |
| Drafts, approvals, editor | drafts, claims, approvals, typed text | generate, edit, ground, review, approve, save, recover | stale citations; an editor that loses or mixes text | approved copy is grounded; typed text is kept |
| Delivery | messages, permits, receipts | admit, claim, submit, callback, observe | suppression after approval; two senders | approved copy leaves once |
| Exports | export, frozen rows | prepare, download, revoke | rows change between | what was frozen is released |
| Sales tasks, guided screen, saved outputs, enrichment, Xverum connections | tasks, parents, steps, tools, costs, outputs, proposals, credentials | intake, admit, start, call, settle, save, note, erase, propose, apply, rotate | money of children under one hold; approvals that age; credentials rotated under a call | liabilities held; work as approved; applied as reviewed; authority at each step |
| Projects and profiles | offer, profiles | save in two requests, approve, delete a source | two authors and a reviewer | the active profile was approved for the offer as it is |
| Uploads, documents, retention | chunks, documents, objects | upload, complete, parse, fetch, delete, purge | store and database commit separately | bytes are owned; deletions finish |
| Discussions and replies | device notes, copies, shares, posts, receipts | type, save, import, share, ask, answer | tabs without locks; a revoked share; a paid answer given up | nothing lost, nobody unadmitted, nothing paid twice |
| Policy, membership, identity | authorities, requests, decisions, memberships, principals | designate, apply, decide, lapse; change, bind | roles taken and given back; overlapping manifests | ended permission stays ended; bindings are audited |
| Session, selection, poller, run page | token, scope, URL, lists, timers, events | sign in and out, renew, select, poll, follow | late answers of an older scope | token is the actor's; the screen is current |
| Controller Workflow (`src/services/cloudflare-jobs`) | message, Workflow, counters | publish, consume, execute, read status, renew | lost responses | never repeated blindly; ends within its operations |

## 2. Modules

An action is a whole transaction or a whole reaction of a component.  Time is
kept as what a comparison with "now" can tell; each deadline passes on its own.
A hash is what it was taken of; a text or a payload is a number or a model value.
Crashes forget what a process remembered, never what was committed.  The comment
that opens each module names its sources and what it leaves out.

### 2.1 Execution and money

| Module | Models |
|---|---|
| `OutboxRuntime` | one operator for each transaction on outbox, receipts and control row |
| `DurableExecution` | dispatchers, transports, workers, handlers, recovery and operator around it |
| `PaidOperation` | abstract: what is promised of a paid operation; implemented by DurableExecution |
| `BudgetLedger` | accounts per scope and month, holds, cost events |
| `PilotBudget` | the second cap of the pilot over the same reservations |
| `ContactJob` | the operations of one lookup job under one hold |
| `ContactQuotes` | quotes and the order they become |
| `RunLifecycle` | a run on either runtime: queries, uncertain searches, fits, cancel, retry, recovery |
| `LiveResearch` | its paid research on the API host: search receipts, intake, pages, model calls, usage |
| `SalesTask` | a parent, its children and tools, their calls and bills |
| `XverumConnection` | assignment, disconnect and rotation under calls |
| `OutreachDelivery` | a draft from approval to delivery, suppressions and facts around it |

In DurableExecution `mail` holds every envelope ever published, and any of them
may be delivered at any time: loss, delay, duplication and reordering need no
action.  A worker is in a phase between two transactions (`claimed`, `submit`,
`status`, `answered`, `wrapup`); `Crash` forgets it, `LoseFence` is the
`StaleFenced` exit, `FailStep` the exception or timeout that still owns its
receipt.  `PrepareBlocked` stands for a missing capability or a refusal by policy
or configuration and is always possible.  RecoverExecution handles one row per
step, the code up to ten in one transaction.  PaidOperation is implemented under
the mapping `PaidPhase`, read off `provider_operations.status`, with the ghost
count of submit calls as its calls.

The other modules take the outbox as a handler sees it: a claim hands out an
envelope, a later claim fences it off.

### 2.2 Records and what people decide

`BuyerIdentity`, `BuyerAssessment`, `LeadWorkflow`, `EnrichmentReview`,
`DraftGrounding`, `OfferProfile`, `ExportRelease`, `BulkJob`, `SavedOutputs`,
`DocumentUpload`, `SourceRetention`, `PolicyActivation`, `IdentityBinding`,
`SharedDiscussion`, `GroundedReply`: the server's transactions, interleaved as
their locks permit.  Where the gates of a workspace serialise an operation it is
one action; where the code reads before it locks (`ContactQuotes`,
`EnrichmentReview`, `LeadWorkflow`), or has no common lock (`BuyerIdentity`: two
runs; `SourceRetention`: database and store), reading and writing are separate.

### 2.3 Browser

`BrowserSession`, `WorkspaceSelection`, `UserAction`, `JobPoller`, `RunFeed`,
`LeadIntents`, `BuyerResults`, `ManifestScreen`, `DraftEditor`,
`LocalDiscussions`, `GuidedSales` and, on Cloudflare, `JobWorkflow`: requests are
on the wire, answered late or lost; the user moves, reloads and repeats; a colleague
changes the same rows; the server's half is in the same module, because the
property relates both.

### 2.4 Instances

`DurableExecution`, `BudgetLedger` and `ContactJob` are run as they are; each
ends with what only the model checker needs, its symmetry, and DurableExecution
with `HealthySpec`, the legacy runtime when nothing but a duplicated message
goes wrong.  `MCLifecycles`, `MCRecords` and `MCProgress` instantiate several
modules each, section 3.1.  The components that theorems are about keep their
parameters there as CONSTANTS, given values in `lifecycles.cfg` and
`records.cfg`; the lemmas about one follow its instance at the head of the
module, before the variables of the others are declared; those of the components
that spend money or write and report edits are in `SpendingAndEdits`, which
MCRecords extends.  OutreachDelivery, RunLifecycle and LeadWorkflow, which have
several instances, carry their theorems themselves, and MCLifecycles and
MCRecords cite them for each instance.

## 3. Runs

| Run | Module | Asks | Instance | Distinct states |
|---|---|---|---|---|
| `single_runtime` | DurableExecution | SlotIsExclusive, EffectsOnce, DoubtIsFollowed | a local job and a paid operation, 2 workers, 2 generations, either runtime | 849,001 |
| `runtime_change` | DurableExecution | AtMostOneSubmission, CallsAgree, SettledClosesIntents, TerminalRowsFinal, the refinement of PaidOperation, TypeOK | 1 operation, 2 workers, 2 generations, 3 epochs: pause, resume and switch with both runtimes in flight | 975,211 |
| `progress` | MCProgress | LostClaimsAreReplaced, WorkGoesOn, under fairness | five components, one at a time | 86,638 |
| `budget` | BudgetLedger | WithinLimit, LedgerBalances, ChargeWithinBound, RefundMintsNoCapacity | 2 projects, 2 operations, one settled in portions, 3 events, 2 months, limits 0, 2, 3 | 696,230 |
| `contact` | ContactJob | HoldCoversDoubt, SubmittedOnce, AnswersAreFinal | 2 operations, 2 workers, 2 events, 3 claims, either runtime | 1,164,440 |
| `lifecycles` | MCLifecycles | 12 properties and TypeOK | 22 instances of 15 components | 2,134,766 |
| `records` | MCRecords | 8 properties and TypeOK | 27 instances of 19 components | 1,794,414 |

Five more runs each check a sentence of the repository that the code does not
keep (section 6): `reclaim_after_pause`, `recovered_child`, `duplicate_delivery`,
`budget_midnight`, `recovered_submission`.

### 3.1 The two collections

`MCLifecycles` and `MCRecords` put components that share no state into one
exploration.  The variable `which` is chosen at the start: the chosen component
takes all the steps of its own module and the others stay where they began (in
one of their initial states, fixed where there are several).  The states are thus
the disjoint union of the components' states, every instance is explored
completely, and a property named in a cfg is the property of its module, or the
conjunction of such properties.  A component that needs two questions asked of
it at different bounds has two instances over the same variables (`Run` with two
workers and `Retries` with a second fit, for instance).  Where only one parameter
differs, an initial choice does the same: `plan` says how many queries a live
research has, `backend` which store SourceRetention keeps its bytes in, and the
draft editor's project has one draft, with a lost answer, or two without.
Likewise a workspace of ContactQuotes has one reader and two buyers or the
reverse, one of XverumConnection has one connection, with a failure, or two, the
session of LeadIntents has one edit, with a fault, or two, and in a sitting of
BuyerResults either of two owners is assigned or rows are assigned and reviewed.

| Property of a run | Is the conjunction of |
|---|---|
| ApprovalsHold | ExportsStayFrozen, ActiveProfileHolds, WorkIsAsApproved |
| ScreensAreCurrent | LastEventWasRead (RunFeed), SelectionHolds, TokenIsActors |
| RightsEndForGood | NoRevival (BrowserSession), PermissionEndsForGood |
| LeadDecisionsAreInformed | JudgementsSawEverything, ReviewedIsCurrent |
| StoredBytesAreOwned | BytesKeptOnce (DocumentUpload), ObjectsAreOwned |
| DraftsAreKept | DraftsAreGrounded, EditorKeepsText |
| SpendingIsAdmitted | AdmissionWithinCap, OrderedIsEligible, ConnectionAuthority |
| DiscussionsAreKept | DeviceNotesAreKept, AdmittedAtEachStep, AnswersStandOnGrounds |
| ReviewsHold | DecisionsHold, EnrichmentAsReviewed, SavedWorkHolds |
| IdentitiesAreKept | IdentityIsKept, BindingsAreAudited |
| EditsAreReported | EditWrittenOnce, ReportsAreTrue, ManifestsAreAsAsked |
| WorkGoesOn | JobsFinish, WorkflowEnds, OutcomeIsShown, ErasureEnds |

Each property of a passing run has a mutant: a definition of the model replaced
by one with a plausible mistake, a dropped guard, a missing reset, a swapped
order, under which the run fails.  Mutants stand before the definition they
replace, are named after it (`Room_OneCall` replaces `Room`) and marked
"Mutant".  Each conjunct of the table has mutants of its own in its module;
one of them is registered in PROJECT.json for the conjunction.

### 3.2 Bounds

Every bound is a constant (`MaxGen`, `MaxEpoch`, `MaxClaims`, `MaxLost`,
`MaxMoves`, ...) and a guard of the action that would pass it.  `MaxSteps` (512 in
the code), `ActorLimit`, `TotalLimit`, `ChunkSize`, `SyncLimit`, `PageSize`,
`MaxBackoff` and `Concurrency` are limits of the code, most of them made small.

Two workers, tabs, reviewers or members are the least at which one overtakes
another.  A second generation is a retry of what was begun, a third a retry
after recovery.  A second epoch is a pause with a resume, a third lets an
envelope of one runtime meet its own runtime again.  Two operations, sections,
tools, chunks or rows make a thing whose parts end at different times.  Two
months make an earlier hold.  One lost answer makes a repetition; the request
after it must then meet what the lost one wrote.  One change by somebody else
(`MaxChanges`, `MaxOthers`, `MaxEdits`, `MaxUpsets`) makes what was read stale;
where taking back and giving back matters (PolicyActivation, DraftGrounding) it is
two.  Symmetry is used only where no action or property names the members
(workers, operations of a job, event identities) and never with liveness.

`DoubtIsFollowed` is checked on one runtime at a time, and says of each what it
keeps.  On Celery every operation in doubt has an open intent that can find its
outcome (`UncertainHasPoller`).  On Cloudflare this is false: recovery closes an
expired child while its operation is uncertain (finding 1).  What holds there is
that no submitting intent is ready again (`SubmittedParentIsNotReady`), and that
nothing else than this recovery takes the intent that asks from an operation in
doubt: no handler, late answer, release, fence or deadline
(`OnlyRecoveryDropsDoubt`, an action property that also holds across a change of
runtime).  A switch hands the tables of one runtime to the other: a child closed
by recovery is then a doubt without an intent on Celery, and a submitting intent
released on Celery is ready on Cloudflare.  That no second submission comes of it
is `AtMostOneSubmission`, checked in `runtime_change` and proved.

`ActionRunsOnce` leaves out requests for different bodies that were under way at
once (the ghost `crossed`): with them the code keeps neither key nor run (section
6.2).  Everything else that two controls, a control mounted again, a changed scope
or a lost answer can do is in the run and in the theorem.

Deadlock is not checked: all these systems may rest, with the bounds used up or
with nothing left to do.

### 3.3 Fairness

Safety runs assume none.  `progress` assumes, per component:

- *execution core* (`Scheduling`, `CoreFairness`): clocks advance (WF of the
  deadlines), the Celery sweeper is a periodic task (WF of `Sweep`), the recovery
  cron returns for ever (SF of `RecoverExecution`: a row is recoverable in some
  rounds only, because the controller renews its lease for a bounded number of
  status reads, `services/cloudflare-jobs/src/workflow.ts:24-65`).  Nothing of
  transports, workers, providers or operators.
- *bulk jobs*: the intent of a chunk is delivered until its transaction commits,
  which is what `LostClaimsAreReplaced` says of the core.
- *Workflow*: the platform runs a Workflow on, and a call without an answer ends
  at its timeout (WF of its calls, decisions and timeouts).
- *poller*: timers fire and a request ends in an answer or at its deadline (WF),
  and a server that is asked again and again answers in time at some point (SF).
  Nothing of the user: the page may be hidden, and the property speaks of pages
  that stay readable in the end.
- *erasure*: the retention sweep comes back (WF of `Drain`).

`reclaim_after_pause` is checked under `FairSpec`, the same fairness of the core.

## 4. Theorems

Every theorem holds for all values of the constants its module declares, under
the named assumptions only.  The invariants below were first checked by TLC.

| Module | Theorem | States |
|---|---|---|
| `DurableExecution_proofs` | `TypeCorrect` | the tables are well formed, and a process around a provider call holds an intent of the kind that makes this call |
| | `TerminalRowsAreFinal` | no step takes a row out of done or failed |
| | `CallsAlwaysAgree` | the inductive invariant of the paid operation |
| | `SubmittedAtMostOnce` | no operation is submitted twice |
| | `Refinement` | every step is a step of PaidOperation or a stutter |
| | `LocalEffectsOnce` | the handler of a database-only intent commits exactly once, with the terminal state of its row |
| | `SettledLeavesNothingOpen` | a settled operation keeps neither intent open |
| | `SlotStaysExclusive` | one process holds the native slot, for the current generation and last step of a row |
| | `DoubtIsDroppedByRecovery` | on either runtime and across a change, an operation in doubt loses its last open intent only to the recovery of that intent |
| | `DoubtStaysFollowed` | under one runtime: with Celery every doubt has an open intent; with Cloudflare no submitting intent is ready again, and only recovery takes the asking one |
| `PaidWork_proofs` | `LedgerTypeCorrect` | the ledger is well formed; settled spend is never negative |
| | `SpendingStaysWithinLimit` | cost and holds stay within every approved limit |
| | `BooksBalance` | an account's spend is the sum of its cost events |
| | `ChargesStayWithinBound` | an operation is charged within the bound approved for it |
| | `RefundsMintNothing` | a refund of an earlier month leaves this month's room as it was |
| | `JobTypeCorrect` | rows, operations, hold and processes are well formed |
| | `EveryOperationIsSubmittedOnce` | none is submitted twice; none that waits or was cancelled was submitted |
| | `HoldOutlivesDoubt` | the hold is released or settled only when nothing is in doubt |
| | `AnswersStayFinal` | an authoritative answer and its cost never change |
| `OutreachDelivery` | `DeliveryIsApprovedOnce` | a copy leaves as it was approved, once; one message at a time is outstanding |
| `RunLifecycle` | `RunIsCarriedToTheEnd` | a run under way has an intent that goes on with it, completed means whole, completed and cancelled are final |
| `LeadWorkflow` | `LeadsAreInformed` | a follow-up is judged and approved by people who saw what it rests on, and addresses what counted then |
| `MCLifecycles` | `DeliveryKeepsItsWord`, `RunsAreCarriedThrough`, `EndedRunsStayEnded` | the two above for the instances and the properties of the run |
| | `OneRunAlways` | a key commits one run, and an answer is that of the run its body started |
| | `UnknownRunsAreFound` | with any controls, a run whose answer nobody saw is found again by its key, unless requests for different bodies crossed |
| | `PollingGoesOn` | a page that can be read has a poll under way or a timer |
| | `StatusBeforeRepeat` | the Workflow repeats an execution only after it read the status |
| | `EndedRightsStayEnded` | an ended permission or session does not revive by itself |
| | `BulkKeepsCount` | a bulk job's counts are those of its rows, each written once |
| | `SalesHoldLiability` | the hold of a parent is what its open and uncertain work may still cost, billed once |
| | `LiveCountsOpenWork` | what is under way or in doubt at a provider is counted as in flight |
| `MCRecords` | `LeadsAreDecidedInformed` | the same of leads for the three instances and the property of the run |
| | `BytesAreOwned` | bytes are kept once, and an upload, a document or a pending deletion answers for them |
| | `IdentitiesStayKept` | one company per registry id and per imported name or domain; one audited row per bound principal |
| | `SpendingStaysAdmitted` | a paid operation is admitted within the month's cap, a lookup ordered once for eligible buyers, a provider's answer used under the authority it was ordered with |
| | `EditsStayReported` | an edit is written once; the table of buyers and the maintenance panel report what the server wrote; only a confirmed manifest is executed |
| | `DraftsStayKept` | one draft per finished job; approved text is qualified piece by piece; what was typed in the editor is kept for its author, and a save follows its baseline |

### 4.1 The execution core

The constants are those of OutboxRuntime (`BoundsAssumption`: the bounds are
positive; `BackendsAssumption`: the operator selects one of the two runtimes),
with any sets of jobs, operations and workers.

*Submitted once.*  `submits <= 1` is not inductive: a step that submits must know
that nobody has.  `CallsAgree` adds what the code relies on without saying it:
while an operation is `reserved` nobody has called and no process is around a
call of it; at most one process is between prepare and call of an operation, and
then it has not been called; a process that polls or holds an answer is one
whose operation was called; a child intent exists only when its parent is done;
and a settled operation has both intents done.  The last two stop a settled
operation from being prepared again.  They are disturbed by steps on rows rather
than on operations, so the proof first shows `RowsAdvance` (a done or failed row
stays so; a child appears only with the end of its parent) for every action;
that is also `TerminalRowsAreFinal`.  Then every action is one of three kinds: it
leaves operations and calls alone (`QuietAgrees`), it moves one operation forward
(`ChangedAgrees`), or it is the call itself.  `NextAgrees` keeps the invariant
and maps the step onto PaidOperation in one go: prepare is `Intend`, the call is
`Call`, an authoritative finalize is `Settle`, all else is a stutter.

*Effects.*  `EffectsOnce` is inductive with the type invariant: a handler commits
only while its row is dispatched, and ends it in the same transaction; every
other step keeps the local rows or moves one that is open.

*The slot.*  `SlotInv` says that the owner of the slot is a running step of the
current generation (`SlotOwnerIsRunning`), that an open receipt is the last one of
its row and generation (`OpenStepIsCurrent`), that a child not yet queued was
never claimed (`AbsentRowsAreNew`) and that every native process has a receipt of
its own (`NativeStepsAreOwn`).  Without the last a process that lost its fence
could be the one that holds the slot.  That one process is between claim and
release, `OneWriter`, follows from it and is part of `SlotIsExclusive`.

*Doubt.*  `DoubtInv` differs by runtime.  On Celery the submitting intent is open
until it handed the operation to its child, which is open until the operation is
settled (`Followed`).  On Cloudflare an operation that was prepared has a receipt
of the step that prepared it, and its intent is never ready again (`Receipted`),
because a step with a receipt is not claimed a second time.  Both need that
every envelope and process belongs to the runtime (`EnvelopesOfRuntime`), so the
theorem assumes that the runtime is kept; section 3.2 says how a switch breaks it.
`DoubtIsDroppedByRecovery` needs no such assumption: a step that ends an intent of
an operation in doubt either settles it, queues the child in the same transaction,
or is the recovery of the child.  It goes through the actions with `CallsAgree`
and `MidCall`, which tell what the process that ends an intent has asked.

### 4.2 The ledger

`PaidWork_proofs` extends both BudgetLedger and ContactJob: their names do not meet,
so that each theorem is about the specification of its own module, `Spec` of the
ledger and `JobSpec` of the lookup job.

`LedgerInv` is `TypeOK`, `Bookkeeping` (a hold is the whole bound unless it is
settled in portions; no month has a limit before it began) and the three
invariants of the run, which need each other: a settlement stays within the
limit because its hold was counted and the charge is within the bound.  The sums
are `MapThenSumSet` and `SumFunctionOnSet`, CHOOSE of a function that satisfies a
recursion over sets.  The first lemmas of the module show that there is one, and how a sum changes
with one member, without induction: the set of subsets for which the equation
would fail has a smallest member (well-foundedness of strict inclusion on a
finite set, FiniteSetTheorems and WellFoundedInduction), and that one does not
fail.  `LedgerAssumption`: a non-empty set of scopes per operation, one month at
least, and limits and bounds that are natural numbers.

### 4.3 The lookup job

`JobInv` is `TypeOK` and `CallInv`, of the shape of `CallsAgree`: a process inside a
call is alone there (`CallersAreAlone`) and the call has not happened
(`CallsAreFirst`); a reference belongs to a submitted operation; only what has one
is polled.  `Advance` lists all that a step may do to an operation; that no answer
changes is read off it.  `HoldCoversDoubt` is inductive with it: each of the
transactions that end the hold does so from the statuses it has locked.  What is
proved spent, a sum of costs in the code, is counted as units (`Proved`), so that
the library's facts on cardinalities apply.

### 4.4 Delivery, runs, and the browser

- *Delivery*, for any keys, senders and reports: `SendingInv` says that an
  approval in force is of the revision it names (`ApprovalIsCurrent`), that the
  permit to post is with one sender and before the post (`PermitsAreUnique`), and
  that admitted messages differ in revision and do not overlap (`CopiesDiffer`).
- *Run*, for any plan, workers, claims and attempts: `CarriedInv` says that one
  search is open at a time and the queries follow each other (`SearchesInOrder`),
  that a lookup follows a search while it is open (`LookupsFollow`), that the fit
  comes last and alone (`FitIsLast`), that status and stage say which intents are
  open (`StatusIsTrue`), and that a process is about the intent it holds
  (`WorkersAgree`).
- *Requests of one key* (`UserAction`): `OneRunInv` says that one request at a
  time holds a key, that a committed key has the body of the request that
  committed it, and that the requests of a key are of one scope.  `RunKeptInv`
  adds that a request that never crossed another waits alone and its record is
  pending under its key, and that one that may still commit, or did, is waited
  for, was shown or given up, or is kept as uncertain under its key.  The controls
  are any set: a second one, or one mounted again, meets the record of the first.
- *Poller*, *Workflow*, *session*, *policy*: `PollerInv`, `BlindRepeatInv` (a loop that
  holds an unread execution reads the status next), `RevivalInv` (a blocked adapter
  has no token and the tab remembers it), `PermissionInv` (an authority names a
  version of its approver's membership that is not newer than the membership, and
  rows are only added and resolved).

- *Leads* (`LeadWorkflow`): `LeadInv` says that no row is newer than its case
  (`RowsAreOld`), that a form addresses what counts unless the case went on
  (`FormIsTimely`), and that what an approver knew is what the context of his
  judgement shows (`ApproversKnew`): an equal context is equal knowledge.

- *Bulk jobs*, for any buyers, jobs, manifests and chunk size: `BulkInv` adds to the
  counts (`JobAddsUp`) that a job that was not created has no intent and a
  manifest that was not executed has no result (`NothingAhead`), that one retry
  handled a failed row (`OneReceipt`), that one retry of a job runs at a time and
  over rows that no other one handled (`OneRetryRuns`), and that rows which report a
  new version of a buyer expected different ones (`SpentOnce`).  `BulkAssumption`:
  finitely many buyers, and no job or manifest has the id 0, which stands for none.
- *Sales tasks*: `SalesInv` says that every unit of the hold is there, billed, or
  listed as unused (`HoldAddsUp`), and what the state of a section or tool tells
  about its call: billed only if called, listed only if it ended without a call,
  called again only if not accepted (`StepHolds`, `ToolHolds`).  Cardinalities of
  finite sets do the sums, so `SalesAssumption` wants finitely many sections.
- *Live research*: `LiveInv` says that a process past its claim has the operation
  it prepared, that a process which fetches is the only claimant of its page, and
  that open searches and claimed pages are no more than `inFlight` of the gate.
- *Uploads and objects*: `UploadInv` says that at most one document of a file can be
  read (`OneReadable`) and that a completed upload names a document of its
  file.  `RetentionInv` says of every call to the store whose key it has and that
  no other call or row has it, that a row's key is the document's, and that a
  closed deletion left no key.  Neither needs an assumption.
- *Companies*: uniqueness is not inductive over the committed companies alone.
  `IdentityInv` counts those of open transactions too (`Everything`): whoever
  inserts waits for the transaction that has the key, so there is one per
  registry id among all of them.  A decision of an open transaction, like a
  committed one, names a company that is seen there and has the candidate's
  registry id (`MappingHolds`, `TxHolds`), and an import that was confirmed meets
  no imported company and its new rows do not meet each other (`Alone`), which
  the lock keeps true until it commits.  `IdentityAssumption`: hits and files are
  sequences of rows, and a run is neither a page nor an import.
- *Bindings*: `BindingInv` says that transactions at work hold disjoint locks
  and have staged different principals (`Apart`), that every row a transaction has
  passed is bound or staged and what it links was never audited (`WriterHolds`),
  and that bound and audited agree (`BooksHold`).  `BindingAssumption`: a manifest
  names a principal once, which `parse_identity_manifest` makes sure of.
- *Drafts*: `GroundingInv` says that a draft is of a finished job and each finished
  job has one (`DraftsOf`), and that a qualification is of the text as it stands,
  not only of approved text (`DraftHolds`): an edit drops both.
- *Draft editor*: "a typed text is kept" is not inductive as it stands.
  `EditorInv` adds that the editor's baseline was written (`TabHolds`), so a text
  equal to it may be let go; that a buffer which was not written is its author's
  (`BuffersHold`), so that retaining it under the actor's name keeps it findable;
  and that a recorded save is in the revisions it claims (`SettledHolds`), so that
  an answer, late or repeated, may drop its buffer.
  `EditorAssumption`: no draft is called "none".
- *Spending*: what a step of the three components is allowed to do follows from
  what it reads, so the invariants are about what is recorded.  `PilotInv` says that
  holds, nets and disclosed values are natural numbers; the work is the equality
  of the code's five sums with the one sum `Borne`, which the lemmas of section 4.2
  give for two families that split a set (`SumSplits`).  `PilotAssumption`: amounts
  are natural numbers.  `QuoteInv` says that the quote of a lookup is consumed, so no
  second order comes of it.  `ConnectionInv` says that a connected generation is
  staged and not revoked (`SecretHolds`), that what is
  being revoked is not the generation connected now and what was refreshed is
  staged (`RequestHolds`), and that an answer a disconnect took away is of an
  older generation (`CallerHolds`).  `ConnectionAssumption`: no connection is called
  "none".
- *Edits*: that what a screen reports was written is not inductive, since an answer
  may be lost, repeated or late.  `IntentInv` says that an intent is written as its
  state tells and answers the key that made it, that one open intent has a
  content (`IntentsHold`), and that what a tab knows of its edit is what its key was
  answered with (`TabsHold`).  `ResultsInv` says that a key stands for one content
  (`UsesHold`, `KeysHold`), that the server's answer to a key is of what was written
  under it, once (`TableSaidHolds`, `WrittenOnce`), and that what the dialogs still
  ask is what their keys stand for (`AskHolds`).  `ManifestInv` says the same of the
  keys of previews and executions: a remembered answer is that of the manifest
  its key was used for (`PanelSaidHolds`), only a confirmed manifest is asked to
  be executed (`PanelSaidHolds`, `PledgesHold`), and the panel shows the manifest
  its address and its call name (`DeskHolds`).  None needs an assumption.

In MCLifecycles and MCRecords these invariants stand under `which = "..."`, the
component that was chosen: `UserAssumption`, `PollerAssumption`, `PolicyAssumption` and
`LiveAssumption` say that counts and deadlines are numbers and that no body is
called "none".

## 5. Only model-checked

- *Liveness*, `LostClaimsAreReplaced` and `WorkGoesOn`: fairness and ENABLED are out of
  the prover's reach.
- *MCLifecycles*: `ScreensAreCurrent`, `ApprovalsHold`, and that all components are
  well formed (`TypeOK`).
- *MCRecords*: the action properties `ReviewsHold` and `DiscussionsAreKept`, and `TypeOK`.
- *DoubtIsFollowed* across a change of runtime is false of the code, not unproved.

## 6. What the code says and does not do

### 6.1 With a run

1. `recovered_child`: recovery looks for a reconciliation intent under the key
   prefix `provider.reconcile:` (`services/worker_recovery.py:65`), but
   `execution/external_runner.py:40` stores it under `provider:reconcile:`.  An
   expired child is taken for an operation without one and is closed as done
   while its operation is uncertain and its reference known.
2. `reclaim_after_pause`: a row claimed before a pause carries the old epoch;
   after the resume neither `Dispatch` nor `Sweep` may take it
   (`execution/dispatcher.py:83`), and Celery has no other recovery.
3. `duplicate_delivery`: a second delivery of a message during the provider call
   marks the operation unknown and closes its row; the first then finds its row
   closed and drops the accepted reference (`execution/external_runner.py:121`).
   No crash, timeout or deadline is involved.
4. `budget_midnight`: a reservation reads the clock twice
   (`services/budget_service.py:179`); when the month turns in between, its cost
   events name a month whose accounts were not charged.
5. `recovered_submission`: recovery of a contact lookup closes it although one of
   its operations is still `submitting` (`services/worker_recovery.py:184`).  Only
   the lookup's prepare turns `submitting` into `unknown`, the status intent queued
   for it has no reference, and a manual reconciliation does not select it: the
   hold stays for ever.

### 6.2 Without a run of their own

Met while modelling; quoted in full under "findings" in PROJECT.json, each with
the property it concerns.  The model follows the code, so those properties are
stated of what the code does keep: `LastEventWasRead` (ScreensAreCurrent) leaves
out the opening read of a run (`run_events.py:38`), `StoredBytesAreOwned` an upload
whose commit alone was acknowledged to nobody (`documents.py:190`), `SpendingIsAdmitted`
takes a lookup for one in progress in the states the quote reads (`quote_service.py:141`),
not in those the document lists, and `ActionRunsOnce` leaves out requests that
crossed (`runs.ts:71`).

| Where | What |
|---|---|
| `execution/discovery_runner.py:142` | a search that crashed while submitting fails its run instead of being asked about; its hold stays |
| `execution/discovery_runner.py:176` | a denial or a partial end is written over a requested cancellation |
| `services/run_control.py:47` | a run cancelled between its steps waits for a reconciliation that will not come |
| `services/worker_recovery.py:61` | recovery selects a run's operations by a prefix live searches do not have; only the prepared receipt stops a second search |
| `services/fit.py:70` | an answer that names an unknown requirement ends the worker's step, not the run |
| `services/run_events.py:38` | a snapshot counts an event it does not show; the screen stays behind until the next one |
| `services/sales_accounting.py:145` | a child settled while submitting and then proved unsubmitted is settled twice |
| `services/quote_service.py:141` | an accepted lookup is `pending`, which the quote does not count as in progress |
| `services/buyer_review.py:100` | a batch review binds the newest assessment, which its reviewer may not have seen |
| `api/routes/documents.py:190` | a commit whose acknowledgement was lost loses the stored object |
| `api/routes/documents.py:262`, `api/routes/icp.py:111` | a deleted document leaves an active profile on an older offer; a profile saved between another author's two requests leaves hers out |
| `features/live/drafts.tsx:317`, `workspace-picker.tsx:270` | a refused approval turns old text into an edit of the newer revision; a retained draft comes back only by its URL |
| `features/live/bulk-actions.tsx:86`, `bulk-manifest.tsx:70`, `services/live/bulk-manifests.ts:21` | refused repetitions forget a frozen assignment; a known preview is shown as unknown; an unanswered execution blocks the panel |
| `features/live/workspace-picker.tsx:222` | an unknown project in the URL makes both lists be read for ever |
| `features/live/sales-skills/workspace.tsx:45`, `:375` | a follow-up whose answer was lost is recorded twice after a refresh; text typed during a save is cleared |
| `services/live/runs.ts:71` | another body is refused while the request before it is uncertain, not while it is pending: it then replaces the key, and a run whose answer is lost is not found |
| `services/live/conversation-threads.ts:67`, `features/live/discussion-sharing.tsx:16` | a new discussion without notes is refused always; a repeated import leaves out what was typed since |

### 6.3 Noticed, and claimed by no document

- Contact jobs: a policy refusal of the first operation releases the hold while
  later ones keep the status `intent`; recovery of a lookup with one uncertain
  operation strands those that wait until the user cancels; a lookup whose job
  was settled by a cancellation keeps being claimed and blocked.
- Identity binding: a batch that deadlocks or is rolled back is reported as
  "unknown-commit".  `create_canonical_user` and the revocation of a binding have
  no production caller.
- Exports: the job's state is read before the policy lock and not again; a second
  download of an expired export relabels it "revoked".
- Replies: an ActionIntent keeps one intent, so asking again after another
  question may be paid again.  Admission of replies is dormant (`REGISTRATION` is
  None), and the credential provider is the disabled one.
- Drafts: `_materialize` does not check that the assessment it cites is the
  latest.  Research: `discovery_runner.py:391` raises when a repair has lowered
  the number of companies.
- Evidence: the loser of an insert into the registry is labelled "created", and
  two writers may disagree on `needs_review` (write skew).
- Deleting a queued URL document leaves its job queued for ever.
- Lead edits: a reload of the history never clears an operation's `unknown`; a
  lost answer to apply clears the enrichment proposal, and its repetition is
  answered 409.  After a note was written through an output, the task it came
  from cannot be revised.
- Guided screen: after a 403 or 404 it is read-only until it is mounted again;
  the second read of an older choice may overwrite a newer task.
- Shared discussions: creating a thread checks the sources before the key.

## 7. Not modelled, and why

- *Parsing, canonical forms, prompts, section contracts and field schemas*
  (`services/ingestion_service.py`, `services/canonicalize.py`, `sales/`,
  `api/schemas.py`, `api/lead_schemas.py`): pure functions over text and field
  types, which a model would only repeat.
- *Pages, marketing site, locale, diagnostics, filters*: presentation without a
  protocol of its own.
- *Migrations, scripts, test fixtures, generated clients* (`scripts/`,
  `services/generated/`, `worker-configuration.d.ts`): run once by one person, or
  generated.  Triggers and functions of migrations that decide something are
  mapped where they are used.
- *Token verification, cryptography, the secret service, object store, mail and
  research suppliers*: external; what the code relies on is a free choice over
  the answers it handles.
- *Within modelled components*: the live adapter's own contact submission
  (`execution/live_contact_runner.py`), the budget page's reads, standalone
  provider stages, schedules and domains of delivery, retention of receipts and
  leads, several channels of one person, preferences and run references of
  discussions, sender and schedule forms, file formats.  The component's note in
  PROJECT.json says which; they repeat a pattern that is modelled, or choose an
  order or a wording, never a state the properties speak of.
- *Composition of everything*: a component's neighbours are the free choices
  their modules allow (permissions change, sources lapse, intents are delivered
  again); only the execution core is composed with its outbox, and each browser
  module with the routes it calls.

## 8. Plan

Done: the modules above, and the theorems of section 4.  The next to prove, were
the project taken further:

1. *RunFeed* and *WorkspaceSelection*, the two missing parts of `ScreensAreCurrent`
   (that the token is the actor's is shown with `NoRevival`).
2. The two action properties of MCRecords left in section 5, component by component.
