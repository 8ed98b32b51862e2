---- MODULE ContactJob ----
(***************************************************************************)
(* One confirmed contact lookup job: a provider operation per buyer, all   *)
(* charged to one hold of the budget.  A worker submits the operations one *)
(* after the other, each with an intent committed before the call; status  *)
(* polls and provider callbacks report outcomes; the user may cancel.      *)
(*                                                                         *)
(* The outbox runtime below the job is the one of module OutboxRuntime,    *)
(* reduced to what a handler sees of it: a row is claimed in a new         *)
(* generation once its lease may have passed, a native step leaves a       *)
(* receipt, and a process may lose its fence between two transactions.     *)
(* The runtime is not changed while the job lives.  Every transaction      *)
(* locks the job before anything else, so each is one action.              *)
(***************************************************************************)
EXTENDS Naturals, FiniteSets, FiniteSetsExt, TLC

CONSTANTS Operations,     \* provider operations of the job, one per eligible buyer
          Workers,        \* processes able to run a handler
          ProviderEvents, \* identities of provider events
          MaxClaims,      \* bound: claims explored of the job's intents, all together
          MaxCost,        \* share of the quoted maximum that one operation may cost
          Polls,          \* kinds of status intents explored: "auto", "manual"
          Backends        \* runtimes the job may be executed by

ASSUME JobAssumption ==
    /\ Operations # {} /\ IsFiniteSet(Operations) /\ "job" \notin Operations
    /\ MaxClaims \in Nat
    /\ MaxCost \in Nat
    /\ {"auto"} \subseteq Polls /\ Polls \subseteq {"auto", "manual"}
    /\ Backends # {} /\ Backends \subseteq {"celery", "cloudflare"}

VARIABLES runtime,  \* the runtime that executes this job
          job,      \* enrichment_jobs row
          hold,     \* the job's budget reservation
          ops,      \* provider_operations rows
          outbox,   \* the lookup intent and the status intents
          seen,     \* provider_events: identities already recorded
          workers,  \* what each process is in the middle of
          submits   \* ghost: submit calls made to the provider

jobVars == <<runtime, job, hold, ops, outbox, seen, workers, submits>>

UNCERTAIN == {"submitting", "unknown", "accepted", "pending"}
\* The code treats succeeded, not_found and failed alike here: all are answers.
TERMINAL == {"answered", "cancelled"}
Operation == [status : {"intent"} \cup UNCERTAIN \cup TERMINAL, ref : BOOLEAN,
              proven : BOOLEAN, cost : 0 .. MaxCost]

JobStates == {"reserved", "submitting", "pending", "unknown", "cancelled", "reconciled"}
Job == [state : JobStates, cancel_requested : BOOLEAN]
Hold == [state : {"active", "settled", "released"}, charged : Nat]

Lookup == <<"job", "lookup">>
Rows == {Lookup} \cup (Operations \X Polls)
Subject(r) == r[1]
Steps == {"none", "running", "continue", "reconcile", "closed"}
Row == [state : {"absent", "ready", "dispatched", "done"}, gen : Nat, step : Steps]

Phases == {"claimed", "submit", "late", "answered", "status"}
Words == {"nothing", "accepted", "unknown", "raised"}
Idle == [phase |-> "idle"]
Worker == [phase : Phases, row : Rows, gen : Nat, op : Operations \cup {"job"},
           word : Words, ref : BOOLEAN]

JobTypeOK ==
       /\ runtime \in Backends
       /\ job \in Job
       /\ hold \in Hold
       /\ ops \in [Operations -> Operation]
       /\ outbox \in [Rows -> Row]
       /\ seen \subseteq ProviderEvents
       /\ workers \in [Workers -> Worker \cup {Idle}]
       /\ submits \in [Operations -> Nat]

\* confirm_lookup commits quote, hold, job, operations and intent together.
JobInit ==
    /\ runtime \in Backends
    /\ job = [state |-> "reserved", cancel_requested |-> FALSE]
    /\ hold = [state |-> "active", charged |-> 0]
    /\ ops = [o \in Operations |-> [status |-> "intent", ref |-> FALSE, proven |-> FALSE, cost |-> 0]]
    /\ outbox = [r \in Rows |-> [state |-> IF r = Lookup THEN "ready" ELSE "absent",
                                 gen |-> 0, step |-> "none"]]
    /\ seen = {}
    /\ workers = [w \in Workers |-> Idle]
    /\ submits = [o \in Operations |-> 0]

----------------------------------------------------------------------------
(* What the operations of the job say together.                            *)

All(op, states) == \A o \in Operations : op[o].status \in states
Uncertain(op) == \E o \in Operations : op[o].status \in UNCERTAIN

\* Committed intents that were not carried out are closed at no cost.
Dropped(op, dropped) ==
    [o \in Operations |-> IF o \in dropped
                          THEN [op[o] EXCEPT !.status = "cancelled", !.proven = TRUE, !.cost = 0]
                          ELSE op[o]]

Waiting(op) == {o \in Operations : op[o].status = "intent"}

\* Mutant: a submission some worker began is taken back.
Recovered_AsIntent(op) ==
    [o \in Operations |-> IF op[o].status = "submitting" THEN [op[o] EXCEPT !.status = "intent"]
                          ELSE op[o]]

\* A submission that some worker began and did not record may have happened.
Recovered(op) ==
    [o \in Operations |-> IF op[o].status = "submitting" THEN [op[o] EXCEPT !.status = "unknown"]
                          ELSE op[o]]

\* settle_contact_job_if_ready: every operation has authoritative evidence.
Ready(op) == \A o \in Operations : op[o].status \in TERMINAL /\ op[o].proven

\* What the evidence of all operations adds up to, counted unit by unit.
Proved(op) == Cardinality({u \in Operations \X (1 .. MaxCost) : u[2] <= op[u[1]].cost})

SettledHold(op) == [state |-> "settled", charged |-> Proved(op)]

----------------------------------------------------------------------------
(* The outbox runtime, as a handler sees it.                               *)

Fenced(p) == IF p.phase = "submit" THEN [p EXCEPT !.phase = "late"]
             ELSE IF p.phase = "late" THEN p ELSE Idle
OnRow(p, r) == p # Idle /\ p.row = r
Become(w, next) == workers' = [workers EXCEPT ![w] = next]

\* An expired claim is taken again, unless a native step of it is still open.
Claim(r) ==
    /\ \/ outbox[r].state = "ready"
       \/ outbox[r].state = "dispatched" /\ outbox[r].step \notin {"running", "reconcile"}
    /\ MapThenSumSet(LAMBDA s : outbox[s].gen, Rows) < MaxClaims
    /\ outbox' = [outbox EXCEPT ![r] = [state |-> "dispatched", gen |-> outbox[r].gen + 1,
                                        step |-> "none"]]
    /\ UNCHANGED <<runtime, job, hold, ops, seen, workers, submits>>

\* A publish of this claim failed, or is reported to have failed before a step
\* of it (steps of older claims, which stop the report too, are not kept).
Unclaim(r) ==
    /\ outbox[r].state = "dispatched"
    /\ outbox[r].step = "none"
    /\ outbox' = [outbox EXCEPT ![r].state = "ready"]
    /\ UNCHANGED <<runtime, job, hold, ops, seen, workers, submits>>

\* A Celery message is executed, again and again if it is duplicated; a native
\* step is started once and takes the execution slot from an overdue one.
Start(w, r) ==
    /\ workers[w] = Idle
    /\ outbox[r].state = "dispatched"
    /\ LET started == [phase |-> "claimed", row |-> r, gen |-> outbox[r].gen,
                       op |-> Subject(r), word |-> "nothing", ref |-> FALSE]
       IN \/ /\ runtime = "celery"
             /\ Become(w, started)
             /\ UNCHANGED outbox
          \/ /\ runtime = "cloudflare"
             /\ outbox[r].step \in {"none", "continue"}
             /\ outbox' = [outbox EXCEPT ![r].step = "running"]
             /\ workers' = [v \in Workers |-> IF v = w THEN started ELSE Fenced(workers[v])]
    /\ UNCHANGED <<runtime, job, hold, ops, seen, submits>>

\* The process dies or loses its fence (a pause, a deadline, a newer owner); a
\* provider call it was about to make may still happen.
LoseFence(w) ==
    /\ workers[w] # Idle
    /\ Become(w, IF workers[w].phase = "late" THEN Idle ELSE Fenced(workers[w]))
    /\ UNCHANGED <<runtime, job, hold, ops, outbox, seen, submits>>

\* A native step raises or times out and still owns its receipt.
FailStep(w) ==
    /\ workers[w] # Idle /\ workers[w].phase # "late"
    /\ runtime = "cloudflare"
    /\ outbox' = [outbox EXCEPT ![workers[w].row].step =
                    IF Uncertain(ops) THEN "reconcile" ELSE "closed"]
    /\ Become(w, Idle)
    /\ UNCHANGED <<runtime, job, hold, ops, seen, submits>>

\* Recovery of a native claim: at most one missing status intent is queued for
\* an uncertain operation; the lookup ends, a status intent may poll again.
RecoverExecution(r) ==
    LET missing == {o \in Operations : ops[o].status \in UNCERTAIN
                                       /\ outbox[<<o, "auto">>].state = "absent"}
        after == IF Cardinality(missing) > 1 THEN "dispatched"
                 ELSE IF Uncertain(ops) /\ r = Lookup THEN "done" ELSE "ready"
    IN
    /\ runtime = "cloudflare"
    /\ outbox[r].state = "dispatched"
    /\ \E queued \in SUBSET missing :
         /\ Cardinality(queued) = IF missing = {} THEN 0 ELSE 1
         /\ outbox' = [s \in Rows |->
              IF s = r THEN [outbox[r] EXCEPT !.state = after,
                               !.step = IF @ \notin {"running", "reconcile"} THEN @
                                        ELSE IF Uncertain(ops) /\ r = Lookup THEN "reconcile"
                                        ELSE "closed"]
              ELSE IF s \in queued \X {"auto"} THEN [outbox[s] EXCEPT !.state = "ready"]
              ELSE outbox[s]]
    /\ workers' = [v \in Workers |-> IF OnRow(workers[v], r) THEN Fenced(workers[v])
                                     ELSE workers[v]]
    /\ UNCHANGED <<runtime, job, hold, ops, seen, submits>>

----------------------------------------------------------------------------
(* The lookup intent: prepare, provider call, finalize.                    *)

\* The row is still the one this process was started for.
Current(w) ==
    /\ outbox[workers[w].row].state = "dispatched"
    /\ outbox[workers[w].row].gen = workers[w].gen

\* A native step that ends without closing its row closes its receipt in one
\* more transaction, which may not happen.
Leave(w, result) ==
    /\ Become(w, Idle)
    /\ \/ UNCHANGED outbox
       \/ /\ runtime = "cloudflare"
          /\ outbox' = [outbox EXCEPT ![workers[w].row].step = result]

\* The receipt of a closed row is not read again.
CloseRow(w) ==
    /\ Become(w, Idle)
    /\ outbox' = [outbox EXCEPT ![workers[w].row].state = "done"]

PrepareStale(w) ==
    /\ ~Current(w)
    /\ Become(w, Idle)
    /\ UNCHANGED <<job, hold, ops, outbox>>

\* The hold is gone, the actor's role was revoked, or adapter, quote, project
\* or activation changed.
PrepareBlocked(w) ==
    /\ Current(w)
    /\ Leave(w, "closed")
    /\ UNCHANGED <<job, hold, ops>>

\* Mutant: a submission that was begun counts as not dispatched.
Undispatched_Submitting(op) == All(op, {"intent", "submitting", "cancelled"})

Undispatched(op) == All(op, {"intent", "cancelled"})

PrepareCancelled(w) ==
    /\ Current(w)
    /\ hold.state = "active"
    /\ job.cancel_requested
    /\ ops' = Dropped(ops, Waiting(ops))
    /\ IF Undispatched(ops)
       THEN hold' = [hold EXCEPT !.state = "released"] /\ job' = [job EXCEPT !.state = "cancelled"]
       ELSE UNCHANGED <<hold, job>>
    /\ CloseRow(w)

\* What prepare does before it looks for the next operation.
Resumes(w) ==
    /\ Current(w)
    /\ hold.state = "active"
    /\ ~job.cancel_requested

ResumedJob == IF \E o \in Operations : ops[o].status = "submitting"
              THEN [job EXCEPT !.state = "unknown"] ELSE job

PrepareFinished(w) ==
    /\ Resumes(w)
    /\ Waiting(Recovered(ops)) = {}
    /\ ops' = Recovered(ops)
    /\ job' = ResumedJob
    /\ CloseRow(w)
    /\ UNCHANGED hold

\* The buyer or the provider configuration changed since the quote.
PrepareBasisChanged(w) ==
    /\ Resumes(w)
    /\ Waiting(Recovered(ops)) # {}
    /\ ops' = Recovered(ops)
    /\ job' = ResumedJob
    /\ Leave(w, "closed")
    /\ UNCHANGED hold

\* Policy or a suppression forbids the next operation.
PrepareDenied(w) ==
    /\ Resumes(w)
    /\ \E o \in Waiting(Recovered(ops)) : ops' = Dropped(Recovered(ops), {o})
    /\ \/ /\ Undispatched(ops')
          /\ hold' = [hold EXCEPT !.state = "released"]
          /\ job' = [job EXCEPT !.state = "cancelled"]
          /\ CloseRow(w)
       \/ /\ ~Undispatched(ops')
          /\ IF Ready(ops') THEN hold' = SettledHold(ops') /\ job' = [job EXCEPT !.state = "reconciled"]
             ELSE job' = ResumedJob /\ UNCHANGED hold
          /\ Leave(w, "closed")

PrepareSubmit(w) ==
    /\ Resumes(w)
    /\ \E o \in Waiting(Recovered(ops)) :
         /\ ops' = [Recovered(ops) EXCEPT ![o].status = "submitting"]
         /\ Become(w, [workers[w] EXCEPT !.phase = "submit", !.op = o])
    /\ job' = [job EXCEPT !.state = "submitting"]
    /\ UNCHANGED <<hold, outbox>>

Prepare(w) ==
    /\ workers[w].phase = "claimed"
    /\ workers[w].row = Lookup
    /\ \/ PrepareStale(w) \/ PrepareBlocked(w) \/ PrepareCancelled(w) \/ PrepareFinished(w)
       \/ PrepareBasisChanged(w) \/ PrepareDenied(w) \/ PrepareSubmit(w)
    /\ UNCHANGED <<runtime, seen, submits>>

\* Anything that is not an acceptance is unknown, with or without a reference;
\* an exception or a timeout says nothing at all.
CallSubmit(w) ==
    /\ workers[w].phase = "submit"
    /\ submits' = [submits EXCEPT ![workers[w].op] = @ + 1]
    /\ \E word \in {"accepted", "unknown", "raised"}, ref \in BOOLEAN :
         /\ word = "accepted" => ref
         /\ word = "raised" => ~ref
         /\ Become(w, [workers[w] EXCEPT !.phase = "answered", !.word = word, !.ref = ref])
    /\ UNCHANGED <<runtime, job, hold, ops, outbox, seen>>

\* A process that lost its fence is already inside the call.
CallLate(w) ==
    /\ workers[w].phase = "late"
    /\ submits' = [submits EXCEPT ![workers[w].op] = @ + 1]
    /\ Become(w, Idle)
    /\ UNCHANGED <<runtime, job, hold, ops, outbox, seen>>

\* The Celery task goes back to prepare; the native step is over.
GoOn(w) ==
    IF runtime = "celery"
    THEN Become(w, [workers[w] EXCEPT !.phase = "claimed", !.op = "job",
                                      !.word = "nothing", !.ref = FALSE])
    ELSE Become(w, Idle)

FinalizeStale(w) ==
    /\ ~Current(w) \/ ops[workers[w].op].status # "submitting"
    /\ UNCHANGED <<job, ops>>
    /\ \/ runtime = "celery" /\ GoOn(w) /\ UNCHANGED outbox
       \/ runtime = "cloudflare" /\ Leave(w, "closed")

\* finish_contact_unit decides what follows the native step.
FinalizeRecorded(w) ==
    LET p == workers[w]
        status == IF p.word = "accepted" THEN "accepted" ELSE "unknown"
        queued == IF p.ref THEN [outbox EXCEPT ![<<p.op, "auto">>].state = "ready"] ELSE outbox
    IN
    /\ Current(w)
    /\ ops[p.op].status = "submitting"
    /\ ops' = [ops EXCEPT ![p.op].status = status, ![p.op].ref = p.ref]
    /\ job' = [job EXCEPT !.state = IF status = "accepted" THEN "pending" ELSE "unknown"]
    /\ outbox' = IF runtime = "celery" THEN queued
                 ELSE IF Waiting(ops') = {}
                      THEN [queued EXCEPT ![Lookup].state = "done"]
                 ELSE [queued EXCEPT ![Lookup].step = IF status = "accepted" THEN "continue"
                                                      ELSE "reconcile"]
    /\ GoOn(w)

\* A Celery task that got no answer goes straight back to prepare.
Finalize(w) ==
    /\ workers[w].phase = "answered"
    /\ \/ /\ runtime = "celery" /\ workers[w].word = "raised"
          /\ GoOn(w)
          /\ UNCHANGED <<job, ops, outbox>>
       \/ /\ ~(runtime = "celery" /\ workers[w].word = "raised")
          /\ FinalizeStale(w) \/ FinalizeRecorded(w)
    /\ UNCHANGED <<runtime, hold, seen, submits>>

----------------------------------------------------------------------------
(* Provider evidence: status polls and callbacks.                          *)

\* What an event says; a cost above MaxCost stands for a missing or excessive one.
Reports == [status : {"accepted", "pending", "unknown"}, cost : {0}]
           \cup [status : {"answered"}, cost : 0 .. MaxCost + 1]

Ignored == UNCHANGED <<job, hold, ops>>

\* The operation moves forward only: unknown is left by an answer alone.
Progress(o, status) ==
    IF status = "pending" /\ ops[o].status = "accepted"
    THEN /\ ops' = [ops EXCEPT ![o].status = "pending"]
         /\ job' = [job EXCEPT !.state = "pending"]
         /\ UNCHANGED hold
    ELSE Ignored

Doubt(o) ==
    /\ ops' = [ops EXCEPT ![o].status = "unknown"]
    /\ job' = [job EXCEPT !.state = "unknown"]
    /\ UNCHANGED hold

Answer(o, cost) ==
    /\ ops' = [ops EXCEPT ![o].status = "answered", ![o].proven = TRUE, ![o].cost = cost]
    /\ IF Ready(ops')
       THEN hold' = SettledHold(ops') /\ job' = [job EXCEPT !.state = "reconciled"]
       ELSE /\ job' = [job EXCEPT !.state = IF \E x \in Operations : ops'[x].status = "unknown"
                                           THEN "unknown" ELSE "pending"]
            /\ UNCHANGED hold

\* An answer whose cost is missing or above the operation's share proves nothing.
Proves(said) == said.status = "answered" /\ said.cost <= MaxCost

\* Mutant: a late event overwrites an answer.
ApplyVerified_Late(o, id, said) ==
    /\ id \notin seen
    /\ seen' = seen \cup {id}
    /\ Proves(said) /\ Answer(o, said.cost)

\* A new authenticated event of an operation whose reference it names.
ApplyVerified(o, id, said) ==
    /\ id \notin seen
    /\ seen' = seen \cup {id}
    /\ \/ ops[o].status \in TERMINAL /\ Ignored
       \/ /\ ops[o].status \notin TERMINAL
          /\ \/ said.status \in {"accepted", "pending"} /\ Progress(o, said.status)
             \/ said.status \in {"unknown", "answered"} /\ ~Proves(said) /\ Doubt(o)
             \/ Proves(said) /\ Answer(o, said.cost)

\* apply_verified_result for a callback the provider sends; one with an
\* identity seen before changes nothing.
Callback(o, id, said) ==
    /\ ops[o].ref
    /\ ApplyVerified(o, id, said)
    /\ UNCHANGED <<runtime, outbox, workers, submits>>

\* The first transaction of a status intent.
ReadOperation(w) ==
    LET o == Subject(workers[w].row) IN
    /\ workers[w].phase = "claimed"
    /\ workers[w].row # Lookup
    /\ \/ ~Current(w) /\ Become(w, Idle) /\ UNCHANGED outbox
       \/ Current(w) /\ ops[o].status \in TERMINAL /\ CloseRow(w)
       \/ Current(w) /\ ops[o].status \notin TERMINAL /\ Leave(w, "closed")
       \/ /\ Current(w) /\ ops[o].status \notin TERMINAL /\ ops[o].ref
          /\ Become(w, [workers[w] EXCEPT !.phase = "status"])
          /\ UNCHANGED outbox
    /\ UNCHANGED <<runtime, job, hold, ops, seen, submits>>

\* No usable answer: the poll raised, or the answer has no event identity or
\* another reference, or its identity was recorded with other contents.
PollUnknown(w) ==
    /\ workers[w].phase = "status"
    /\ Leave(w, "reconcile")
    /\ UNCHANGED <<runtime, job, hold, ops, seen, submits>>

\* An answer that is still open ends the status intent without a new one; one
\* that was recorded before changes nothing else.
PollOpen(w) ==
    /\ workers[w].phase = "status"
    /\ Current(w)
    /\ CloseRow(w)
    /\ UNCHANGED <<runtime, job, hold, ops, seen, submits>>

PollAnswered(w, id, said) ==
    /\ workers[w].phase = "status"
    /\ Current(w)
    /\ said.status = "answered"
    /\ ApplyVerified(Subject(workers[w].row), id, said)
    /\ CloseRow(w)
    /\ UNCHANGED <<runtime, submits>>

----------------------------------------------------------------------------
(* The user and the administrator.                                         *)

\* A request that names an older version of the job is refused.
CancelJob ==
    /\ job.state \notin {"cancelled", "reconciled"}
    /\ \/ /\ All(ops, {"intent"})
          /\ hold' = [hold EXCEPT !.state = "released"]
          /\ ops' = [o \in Operations |-> [ops[o] EXCEPT !.status = "cancelled"]]
          /\ job' = [state |-> "cancelled", cancel_requested |-> TRUE]
          /\ outbox' = [outbox EXCEPT ![Lookup].state = "done"]
       \/ /\ ~All(ops, {"intent"})
          /\ ops' = Dropped(ops, Waiting(ops))
          /\ IF Ready(ops')
             THEN /\ hold' = SettledHold(ops')
                  /\ job' = [state |-> "reconciled", cancel_requested |-> TRUE]
             ELSE /\ job' = [state |-> IF job.state = "unknown" THEN "unknown" ELSE "pending",
                             cancel_requested |-> TRUE]
                  /\ UNCHANGED hold
          /\ UNCHANGED outbox
    /\ UNCHANGED <<runtime, seen, workers, submits>>

\* An administrator asks for one more poll of every operation still open; the
\* request is a new intent, explored one at a time per operation.
QueueReconciliation ==
    LET asked == {o \in Operations : ops[o].status \in UNCERTAIN \ {"submitting"}}
        rows == asked \X (Polls \cap {"manual"})
    IN
    /\ rows # {}
    /\ \A o \in asked : ops[o].ref
    /\ \A r \in rows : outbox[r].state \in {"absent", "done"}
    /\ outbox' = [r \in Rows |-> IF r \in rows
                                 THEN [outbox[r] EXCEPT !.state = "ready", !.step = "none"]
                                 ELSE outbox[r]]
    /\ UNCHANGED <<runtime, job, hold, ops, seen, workers, submits>>

----------------------------------------------------------------------------

Runtime == \E r \in Rows : \/ Claim(r) \/ Unclaim(r) \/ RecoverExecution(r)
                           \/ \E w \in Workers : Start(w, r)

Process == \E w \in Workers :
    \/ LoseFence(w) \/ FailStep(w) \/ Prepare(w) \/ CallSubmit(w) \/ CallLate(w)
    \/ Finalize(w) \/ ReadOperation(w) \/ PollUnknown(w) \/ PollOpen(w)
    \/ \E id \in ProviderEvents, said \in Reports : PollAnswered(w, id, said)

Provider == \E o \in Operations, id \in ProviderEvents, said \in Reports : Callback(o, id, said)

JobNext == Runtime \/ Process \/ Provider \/ CancelJob \/ QueueReconciliation

JobSpec == JobInit /\ [][JobNext]_jobVars

----------------------------------------------------------------------------
(* Properties.                                                             *)

\* The job's hold outlives every doubt: it is given back only when no
\* operation was ever submitted or is about to be, and it is settled only when
\* each operation has its own evidence, for exactly what that evidence says.
HoldCoversDoubt ==
    /\ hold.state = "released" =>
         \A o \in Operations : submits[o] = 0 /\ ops[o].status \in {"intent", "cancelled"}
    /\ hold.state = "settled" =>
         /\ \A o \in Operations : ops[o].status \in TERMINAL /\ ops[o].proven
         /\ hold.charged = Proved(ops)

\* No buyer's operation is submitted twice, and none that is still waiting or
\* was cancelled was submitted at all: the user who cancelled it never pays.
SubmittedOnce ==
    \A o \in Operations :
        /\ submits[o] <= 1
        /\ ops[o].status \in {"intent", "cancelled"} => submits[o] = 0

\* An authoritative answer and its cost are final: no later poll, callback,
\* worker or cancellation changes them.
AnswersAreFinal ==
    [][\A o \in Operations : ops[o].status \in TERMINAL => ops'[o] = ops[o]]_jobVars

\* "A recovered submitting intent becomes unknown": when the lookup intent is
\* closed and nobody is in a provider call, no operation is left submitting.
RecoveredSubmissionIsUnknown ==
    outbox[Lookup].state = "done" /\ (\A w \in Workers : workers[w] = Idle)
        => \A o \in Operations : ops[o].status # "submitting"

----------------------------------------------------------------------------
(* For the model checker: buyers, processes and event identities are       *)
(* interchangeable.                                                        *)

JobSymmetry == Permutations(Operations) \cup Permutations(Workers) \cup Permutations(ProviderEvents)
====
