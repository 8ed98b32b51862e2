---- MODULE DurableExecution ----
(***************************************************************************)
(* The durable execution core: dispatchers, transports, workers and the    *)
(* recovery sweep around the outbox of module OutboxRuntime, with the two  *)
(* shapes of handler it runs.                                              *)
(*                                                                         *)
(*   local      one transaction does the business work and the terminal    *)
(*              outbox write (bulk.mutate, draft.generate, fetch.evidence) *)
(*   external   prepare transaction, provider call, finalize transaction   *)
(*              (provider.external), then a status-only child intent       *)
(*              (provider.reconcile) that polls the same operation         *)
(*                                                                         *)
(* A worker process may stop between any two of its transactions; messages *)
(* may be lost, delayed, duplicated and reordered.                         *)
(***************************************************************************)
EXTENDS OutboxRuntime, TLC

CONSTANT Workers   \* processes able to run a handler: Celery or API server

VARIABLES ops,      \* provider_operations: status and whether a reference is stored
          workers,  \* what each process is in the middle of
          mail,     \* envelopes given to a transport; delivery is arbitrary
          submits,  \* ghost: submit calls made to the provider, by operation
          effects   \* ghost: committed handler runs, by local intent

vars == <<control, outbox, steps, ops, workers, mail, submits, effects>>

Statuses == {"reserved", "submitting", "accepted", "pending", "unknown",
             "succeeded", "not_found", "failed"}
UNCERTAIN == {"submitting", "unknown", "accepted", "pending"}
Settled == {"succeeded", "not_found", "failed"}
SubmissionStates == {"accepted", "unknown", "rejected"}
StatusStates == {"accepted", "pending", "unknown"} \cup Settled

Phases == {"claimed", "submit", "status", "answered", "wrapup"}
Words == Statuses \cup SubmissionStates \cup {"stale", "blocked", "nothing"}
Idle == [phase |-> "idle"]
WorkerRecord == [phase : Phases, env : Envelopes, word : Words, ref : BOOLEAN]

At(phase, e, word, ref) == [phase |-> phase, env |-> e, word |-> word, ref |-> ref]
Busy(w, phase) == workers[w].phase = phase
Env(w) == workers[w].env
Become(w, next) == workers' = [workers EXCEPT ![w] = next]

Parent(o) == <<o, "external">>
Child(o) == <<o, "reconcile">>

TypeOK ==
    /\ RuntimeTypeOK
    /\ ops \in [Ops -> [status : Statuses, ref : BOOLEAN]]
    /\ workers \in [Workers -> WorkerRecord \cup {Idle}]
    /\ mail \in SUBSET Envelopes
    /\ submits \in [Ops -> Nat]
    /\ effects \in [Jobs -> Nat]

Init ==
    /\ RuntimeInit
    /\ ops = [o \in Ops |-> [status |-> "reserved", ref |-> FALSE]]
    /\ workers = [w \in Workers |-> Idle]
    /\ mail = {}
    /\ submits = [o \in Ops |-> 0]
    /\ effects = [j \in Jobs |-> 0]

----------------------------------------------------------------------------
(* Dispatchers.  A claimed row's envelope enters the mail at the claim: an *)
(* unpublished envelope is one that is never delivered.                    *)

Claim(r, backend, expiredOnly) ==
    /\ ClaimRow(r, backend, expiredOnly)
    /\ mail' = mail \cup {[row |-> r, gen |-> outbox[r].gen + 1,
                           epoch |-> control.epoch, via |-> backend]}
    /\ UNCHANGED <<ops, workers, submits, effects>>

Dispatch(r) == Claim(r, "celery", FALSE)
Sweep(r) == Claim(r, "celery", TRUE)
ClaimCycle(r) == Claim(r, "cloudflare", FALSE)

PublishFails(e) ==
    /\ e.via = "celery"
    /\ ReleaseClaim(e)
    /\ UNCHANGED <<ops, workers, mail, submits, effects>>

PublicationFailed(e) ==
    /\ e.via = "cloudflare"
    /\ RecordPublication(e)
    /\ UNCHANGED <<ops, workers, mail, submits, effects>>

StatusRead(e) ==
    /\ e.via = "cloudflare"
    /\ ReadStepStatus(e)
    /\ UNCHANGED <<ops, workers, mail, submits, effects>>

----------------------------------------------------------------------------
(* Delivery: what a worker does with an envelope.                          *)

\* A Cloudflare step is claimed in a transaction of its own.
StartStep(w, e) ==
    /\ workers[w] = Idle
    /\ e.via = "cloudflare"
    /\ ClaimExecutionStep(e)
    /\ Become(w, At("claimed", e, "nothing", FALSE))
    /\ UNCHANGED <<ops, mail, submits, effects>>

\* Mutant: the task trusts the generation of its message alone.
Deliverable_AnyState(e) ==
    /\ e.via = "celery" /\ control.backend = "celery" /\ control.enabled
    /\ outbox[e.row].epoch = control.epoch
    /\ outbox[e.row].gen = e.gen

\* What the Celery task checks first, on the row and never on the message.
Deliverable(e) ==
    /\ e.via = "celery"
    /\ control.backend = "celery"
    /\ control.enabled
    /\ outbox[e.row].state = "dispatched"
    /\ outbox[e.row].backend = "celery"
    /\ outbox[e.row].epoch = control.epoch
    /\ outbox[e.row].gen = e.gen

StartTask(w, e) ==
    /\ workers[w] = Idle
    /\ Deliverable(e)
    /\ Kind(e.row) # "local"
    /\ Become(w, At("claimed", [e EXCEPT !.epoch = control.epoch], "nothing", FALSE))
    /\ UNCHANGED <<control, outbox, steps, ops, mail, submits, effects>>

CloseRow(r, state) ==
    outbox' = [outbox EXCEPT ![r].state = state, ![r].lease = "none"]

\* The handler's writes and the terminal outbox write, in one transaction.
RunIntent(r) ==
    /\ \E state \in TERMINAL_STATES : CloseRow(r, state)
    /\ effects' = [effects EXCEPT ![Subject(r)] = @ + 1]

RunTask(e) ==
    /\ Deliverable(e)
    /\ Kind(e.row) = "local"
    /\ RunIntent(e.row)
    /\ UNCHANGED <<control, steps, ops, workers, mail, submits>>

RunStep(w) ==
    /\ Busy(w, "claimed")
    /\ Kind(Env(w).row) = "local"
    /\ Become(w, Idle)
    /\ \/ /\ LocalGuard(Env(w))
          /\ outbox[Env(w).row].state = "dispatched"
          /\ RunIntent(Env(w).row)
          /\ FinishReceipt(Env(w), IF outbox'[Env(w).row].state = "done" THEN "done" ELSE "blocked")
       \/ /\ LocalGuard(Env(w))
          /\ outbox[Env(w).row].state # "dispatched"
          /\ FinishReceipt(Env(w), IF outbox[Env(w).row].state \in TERMINAL_STATES THEN "done" ELSE "blocked")
          /\ UNCHANGED <<outbox, effects>>
       \/ ~LocalGuard(Env(w)) /\ UNCHANGED <<control, outbox, steps, effects>>
    /\ UNCHANGED <<ops, mail, submits>>

----------------------------------------------------------------------------
(* External work: prepare, provider call, finalize.                        *)

IsUncertain(r, op) == Kind(r) # "local" /\ op[Subject(r)].status \in UNCERTAIN

\* What a row and its operation already say of a step: "none" while open.
BusinessOutcome(r, box, op, includeRunning) ==
    IF box[r].state \notin {"done", "failed", "ready"} /\ ~includeRunning THEN "none"
    ELSE IF IsUncertain(r, op) THEN "reconcile"
    ELSE IF box[r].state = "done" THEN "done"
    ELSE IF box[r].state \in {"failed", "ready"} THEN "blocked"
    ELSE "none"

\* Leaving a handler transaction: a native step whose row is closed finishes
\* its receipt with it, otherwise the process goes on as next.
LeaveSession(w, next) ==
    LET e == Env(w)
        result == BusinessOutcome(e.row, outbox', ops', FALSE)
    IN IF e.via = "cloudflare" /\ result # "none"
       THEN FinishReceipt(e, result) /\ Become(w, Idle)
       ELSE UNCHANGED <<control, steps>> /\ Become(w, next)

\* A handler that makes no call returns; a native step still has to close
\* its receipt in one more transaction.
Return(w, word) == LeaveSession(w,
    IF Env(w).via = "cloudflare" THEN At("wrapup", Env(w), word, FALSE) ELSE Idle)

\* Mutant: the submitting intent is closed and nothing is queued to follow up.
QueueReconciliation_NoChild(r, box) ==
    [box EXCEPT ![r].state = "done", ![r].lease = "none"]

\* The child is created once, with the runtime of the row that queues it.
QueueReconciliation(r, box) ==
    LET c == Child(Subject(r))
        queued == IF box[c].state # "absent" THEN box
                  ELSE [box EXCEPT ![c] = [state |-> "ready", gen |-> 0, lease |-> "none",
                                           backend |-> box[r].backend, epoch |-> box[r].epoch]]
    IN [queued EXCEPT ![r].state = "done", ![r].lease = "none"]

PrepareStale(w) ==
    /\ outbox[Env(w).row].state # "dispatched"
    /\ UNCHANGED <<outbox, ops>>
    /\ Return(w, "stale")

\* No adapter is active, dispatch is switched off, or the bound, the price or
\* a cancellation differs from what was reserved: nothing is written.
PrepareBlocked(w) ==
    /\ UNCHANGED <<outbox, ops>>
    /\ Return(w, "blocked")

\* Mutant: an operation left "submitting" by a dead worker is submitted again.
PrepareSubmit_Resubmits(w) ==
    LET e == Env(w) IN
    /\ outbox[e.row].state = "dispatched"
    /\ Kind(e.row) = "external"
    /\ ops[Subject(e.row)].status \in {"reserved", "submitting"}
    /\ ops' = [ops EXCEPT ![Subject(e.row)].status = "submitting"]
    /\ UNCHANGED <<outbox, control, steps>>
    /\ Become(w, At("submit", e, "nothing", FALSE))

PrepareSubmit(w) ==
    LET e == Env(w) IN
    /\ outbox[e.row].state = "dispatched"
    /\ Kind(e.row) = "external"
    /\ ops[Subject(e.row)].status = "reserved"
    /\ ops' = [ops EXCEPT ![Subject(e.row)].status = "submitting"]
    /\ UNCHANGED <<outbox, control, steps>>
    /\ Become(w, At("submit", e, "nothing", FALSE))

\* Mutant: an interrupted submission is taken back to be retried.
Interrupted_Retried(status) == IF status = "submitting" THEN "reserved" ELSE status

\* A submission some other process began: its outcome is not known here.
Interrupted(status) == IF status = "submitting" THEN "unknown" ELSE status

\* An operation found submitted is never submitted again: the submitting
\* intent hands it to its status-only child and ends.
PrepareUncertain(w) ==
    LET e == Env(w)
        o == Subject(e.row)
    IN
    /\ outbox[e.row].state = "dispatched"
    /\ ops[o].status \in UNCERTAIN
    /\ ops[o].status = "submitting" \/ Kind(e.row) = "external" \/ ~ops[o].ref
    /\ ops' = [ops EXCEPT ![o].status = Interrupted(@)]
    /\ outbox' = IF Kind(e.row) = "external" THEN QueueReconciliation(e.row, outbox) ELSE outbox
    /\ Return(w, "unknown")

PreparePoll(w) ==
    LET e == Env(w)
        o == Subject(e.row)
    IN
    /\ outbox[e.row].state = "dispatched"
    /\ Kind(e.row) = "reconcile"
    /\ ops[o].status \in UNCERTAIN \ {"submitting"}
    /\ ops[o].ref
    /\ UNCHANGED <<outbox, ops, control, steps>>
    /\ Become(w, At("status", e, "nothing", TRUE))

PrepareSettled(w) ==
    /\ outbox[Env(w).row].state = "dispatched"
    /\ ops[Subject(Env(w).row)].status \in Settled
    /\ UNCHANGED <<outbox, ops>>
    /\ Return(w, ops[Subject(Env(w).row)].status)

LoseFence(w) ==
    /\ ~Guard(Env(w))
    /\ Become(w, Idle)
    /\ UNCHANGED <<control, outbox, steps, ops>>

Prepare(w) ==
    /\ Busy(w, "claimed")
    /\ Kind(Env(w).row) # "local"
    /\ \/ LoseFence(w)
       \/ /\ Guard(Env(w))
          /\ \/ PrepareStale(w)
             \/ PrepareBlocked(w)
             \/ PrepareSubmit(w)
             \/ PrepareUncertain(w)
             \/ PreparePoll(w)
             \/ PrepareSettled(w)
    /\ UNCHANGED <<mail, submits, effects>>

\* The call is made with no transaction open.  An exception or a timeout is
\* an unknown answer, whether or not the provider accepted.
CallSubmit(w) ==
    /\ Busy(w, "submit")
    /\ submits' = [submits EXCEPT ![Subject(Env(w).row)] = @ + 1]
    /\ \E state \in SubmissionStates, ref \in BOOLEAN :
         /\ state = "accepted" => ref
         /\ state = "rejected" => ~ref
         /\ Become(w, At("answered", Env(w), state, ref))
    /\ UNCHANGED <<control, outbox, steps, ops, mail, effects>>

CallStatus(w) ==
    /\ Busy(w, "status")
    /\ \E state \in StatusStates : Become(w, At("answered", Env(w), state, TRUE))
    /\ UNCHANGED <<control, outbox, steps, ops, mail, submits, effects>>

\* Mutant: the provider's word is stored as it came.
Observed_AsIs(word) == word

\* Rejection alone is not evidence that nothing was charged.
Observed(word) == IF word = "rejected" THEN "unknown" ELSE word

\* Mutant: only a success closes the status-only child.
RowAfter_SuccessOnly(r, state) ==
    IF Kind(r) = "external" THEN QueueReconciliation(r, outbox)
    ELSE IF state = "succeeded"
         THEN [outbox EXCEPT ![r].state = "done", ![r].lease = "none"]
    ELSE outbox

\* The submitting intent always hands over; the child ends with an answer and
\* otherwise stays leased.
RowAfter(r, state) ==
    IF Kind(r) = "external" THEN QueueReconciliation(r, outbox)
    ELSE IF state \in Settled
         THEN [outbox EXCEPT ![r].state = "done", ![r].lease = "none"]
    ELSE outbox

Record(w) ==
    LET e == Env(w)
        o == Subject(e.row)
        state == Observed(workers[w].word)
    IN
    /\ outbox[e.row].state = "dispatched"
    /\ ops' = [ops EXCEPT ![o] = [status |-> state, ref |-> @.ref \/ workers[w].ref]]
    /\ outbox' = RowAfter(e.row, state)
    /\ Return(w, state)

RecordStale(w) ==
    /\ outbox[Env(w).row].state # "dispatched"
    /\ UNCHANGED <<outbox, ops>>
    /\ Return(w, "stale")

Finalize(w) ==
    /\ Busy(w, "answered")
    /\ \/ LoseFence(w)
       \/ Guard(Env(w)) /\ (Record(w) \/ RecordStale(w))
    /\ UNCHANGED <<mail, submits, effects>>

\* The last transaction of a native provider step that is still open.
WrapUp(w) ==
    LET e == Env(w)
        known == BusinessOutcome(e.row, outbox, ops, FALSE)
        result == IF known # "none" THEN known
                  ELSE IF workers[w].word \in {"unknown", "pending", "accepted"}
                       THEN "reconcile" ELSE "blocked"
    IN
    /\ Busy(w, "wrapup")
    /\ \/ LocalGuard(e) /\ FinishReceipt(e, result)
       \/ ~LocalGuard(e) /\ UNCHANGED <<control, steps>>
    /\ Become(w, Idle)
    /\ UNCHANGED <<outbox, ops, mail, submits, effects>>

\* A handler that raises or times out.  A native step keeps an inspectable
\* receipt if it still owns it, even past its deadline or while paused.
FailStep(w) ==
    LET e == Env(w)
        known == BusinessOutcome(e.row, outbox, ops, TRUE)
    IN
    /\ workers[w] # Idle
    /\ e.via = "cloudflare"
    /\ OwnedStep(e)
    /\ FinishReceipt(e, IF known = "none" THEN "blocked" ELSE known)
    /\ Become(w, Idle)
    /\ UNCHANGED <<outbox, ops, mail, submits, effects>>

\* The process stops, between two transactions or around the provider call.
Crash(w) ==
    /\ workers[w] # Idle
    /\ Become(w, Idle)
    /\ UNCHANGED <<control, outbox, steps, ops, mail, submits, effects>>

----------------------------------------------------------------------------
(* Recovery of the Cloudflare runtime.                                     *)

\* Mutant: recovery that forgets provider state and reopens the row.
ScheduleUncertain_Never(r) == outbox

\* The reconciliation key looked up is never one that exists, so the child
\* of every uncertain operation counts as missing and is queued again.
ScheduleUncertain(r) ==
    IF IsUncertain(r, ops) THEN QueueReconciliation(r, outbox) ELSE outbox

Recovering ==
    /\ control.enabled
    /\ control.backend = "cloudflare"

\* Mutant: rows that still own an open step are left alone.
Overdue_WithoutSteps(r, open) ==
    outbox[r].state = "dispatched" /\ outbox[r].lease # "live" /\ open = {}

\* The row's claim has run out and no step of it may still be running.
Overdue(r, open) ==
    /\ outbox[r].state = "dispatched"
    /\ outbox[r].lease # "live"
    /\ \A g \in open : ~(steps[r][g].state = "running" /\ steps[r][g].lease = "live")

RecoverExecution(r) ==
    LET open == Receipts(r, {"running", "reconcile"})
        uncertain == IsUncertain(r, ops)
        scheduled == ScheduleUncertain(r)
        closed == IF uncertain /\ Kind(r) # "reconcile" THEN "reconcile" ELSE "blocked"
        freed == \/ \E g \in open : control.owner = [row |-> r, gen |-> g]
                 \/ control.slot = "expired"
    IN
    /\ Recovering
    /\ Overdue(r, open)
    /\ steps' = [steps EXCEPT ![r] = [g \in Gens |->
                   IF g \in open THEN [state |-> closed, lease |-> "none"] ELSE steps[r][g]]]
    /\ outbox' = [scheduled EXCEPT ![r] =
                    [state |-> IF scheduled[r].state \in TERMINAL_STATES
                               THEN scheduled[r].state ELSE "ready",
                     gen |-> scheduled[r].gen, lease |-> "none",
                     backend |-> control.backend, epoch |-> control.epoch]]
    /\ control' = IF freed THEN [control EXCEPT !.owner = NoOwner, !.slot = "none"] ELSE control
    /\ UNCHANGED <<ops, workers, mail, submits, effects>>

RecoverSlot ==
    /\ Recovering
    /\ control.slot = "expired"
    /\ control' = [control EXCEPT !.owner = NoOwner, !.slot = "none"]
    /\ UNCHANGED <<outbox, steps, ops, workers, mail, submits, effects>>

----------------------------------------------------------------------------
(* Time and the operator.                                                  *)

Frame == UNCHANGED <<ops, workers, mail, submits, effects>>

RowDeadline(r) == ExpireRow(r) /\ Frame
StepDeadline(r) == (\E g \in Gens : ExpireStep(r, g)) /\ Frame
SlotDeadline == ExpireSlot /\ Frame
Switch == (\E b \in Backends, on \in BOOLEAN : SetExecutionRuntime(b, on)) /\ Frame

Transport ==
    \/ \E r \in Rows : Dispatch(r) \/ Sweep(r) \/ ClaimCycle(r)
    \/ \E e \in mail : \/ PublishFails(e) \/ PublicationFailed(e) \/ StatusRead(e)
                       \/ RunTask(e)
                       \/ \E w \in Workers : StartStep(w, e) \/ StartTask(w, e)

Process == \E w \in Workers :
    \/ RunStep(w) \/ Prepare(w) \/ CallSubmit(w) \/ CallStatus(w)
    \/ Finalize(w) \/ WrapUp(w) \/ FailStep(w) \/ Crash(w)

Recovery == RecoverSlot \/ \E r \in Rows : RecoverExecution(r)
Deadlines == SlotDeadline \/ \E r \in Rows : RowDeadline(r) \/ StepDeadline(r)

Next == Transport \/ Process \/ Recovery \/ Deadlines \/ Switch

Spec == Init /\ [][Next]_vars

----------------------------------------------------------------------------
(* Properties.                                                             *)

\* A paid operation is submitted to its provider at most once, whatever is
\* delivered twice, expires, is reclaimed, crashes or changes runtime
\* (execute_external never calls submit again for an operation it finds
\* "submitting").
AtMostOneSubmission == \A o \in Ops : submits[o] <= 1

\* A row that reached done or failed never leaves that state: no late release,
\* sweep, recovery or superseded worker reopens finished work.
TerminalRowsFinal ==
    [][\A r \in Rows : outbox[r].state \in TERMINAL_STATES =>
                           outbox'[r].state = outbox[r].state]_vars

\* The handler of a local intent commits exactly once, together with the
\* terminal state of its row: duplicate deliveries and reclaimed generations
\* add no second effect, and no row is closed without its effect.
EffectsOnce ==
    \A j \in Jobs : effects[j] =
        IF outbox[<<j, "local">>].state \in TERMINAL_STATES THEN 1 ELSE 0

\* The Cloudflare runtime executes one step at a time: whoever holds the slot,
\* no two native processes can both pass their fence, even when a step
\* overruns its deadline and the slot was given to another row meanwhile.
SingleFencedWriter ==
    \A v, w \in Workers :
        /\ v # w
        /\ workers[v] # Idle /\ workers[w] # Idle
        /\ Env(v).via = "cloudflare" /\ Env(w).via = "cloudflare"
        => ~(Guard(Env(v)) /\ Guard(Env(w)))

\* A newer generation of a row is never claimed while a native step of an
\* older one is still open: the open step of a row is its current generation.
OpenStepIsCurrent ==
    \A r \in Rows : \A g \in Receipts(r, {"running"}) : g = outbox[r].gen

\* Some intent that can still find out the outcome of an operation is queued or
\* in flight: the submitting one or the status-only child.
InDoubt(o) == ops[o].status \in UNCERTAIN
Asked(o) == \E r \in {Parent(o), Child(o)} : outbox[r].state \in {"ready", "dispatched"}

\* Under Celery every operation in doubt is asked about ("A status-only child may
\* poll again in a newer generation, with the same hold").
UncertainHasPoller ==
    control.backend = "celery" => \A o \in Ops : InDoubt(o) => Asked(o)

\* Under either runtime, and across a change: one step alone takes the last such
\* intent from an operation in doubt, the recovery of its own status-only child
\* (run recovered_child).  No handler, late answer, release or deadline does.
OnlyRecoveryDropsDoubt ==
    [][\A o \in Ops : Asked(o) /\ InDoubt(o)' /\ ~Asked(o)'
                           => RecoverExecution(Child(o))]_vars

\* Under either runtime an operation in doubt whose provider reference is stored,
\* so that a status read would be possible, is asked about.
ReferenceIsPolled == \A o \in Ops : InDoubt(o) /\ ops[o].ref => Asked(o)

\* Under the Cloudflare runtime a submitting intent whose operation left
\* "reserved" is never ready for another claim ("Parent submit remains
\* permanently non-claimable").
SubmittedParentIsNotReady ==
    control.backend = "cloudflare" =>
    \A o \in Ops : ops[o].status # "reserved" => outbox[Parent(o)].state # "ready"

\* Under one runtime: with Celery an operation in doubt has an intent that asks;
\* with Cloudflare none that would submit it again, and the intent that asks is
\* taken from it by nothing but the recovery of that intent.
DoubtIsFollowed ==
    /\ [](SubmittedParentIsNotReady /\ UncertainHasPoller)
    /\ OnlyRecoveryDropsDoubt

\* The one slot and its fence: whoever holds the slot is running, an open step
\* is of its row's newest generation, and two native processes never both write.
SlotIsExclusive == SlotOwnerIsRunning /\ OpenStepIsCurrent /\ SingleFencedWriter

\* A settled operation leaves no intent of its own open that would poll or
\* submit it again.
SettledClosesIntents ==
    \A o \in Ops : ops[o].status \in Settled =>
        \A r \in {Parent(o), Child(o)} : outbox[r].state \notin {"ready", "dispatched"}

\* What a paid operation promises its buyer, see module PaidOperation.
PaidPhase == [o \in Ops |-> IF ops[o].status = "reserved" THEN "unsubmitted"
                            ELSE IF ops[o].status \in UNCERTAIN THEN "uncertain"
                            ELSE "settled"]

Paid == INSTANCE PaidOperation WITH phase <- PaidPhase, calls <- submits

\* Every execution of the durable core is an execution of the abstract paid
\* operation: intent before the call, one call, settled only after it, final.
ImplementsPaidOperation == Paid!Spec

\* What a process between two of its transactions is waiting for.
MidCall ==
    \A w \in Workers :
        /\ workers[w].phase = "submit" => Kind(Env(w).row) = "external"
        /\ workers[w].phase = "status" => Kind(Env(w).row) = "reconcile"
        /\ workers[w].phase = "answered" =>
             \/ Kind(Env(w).row) = "external" /\ workers[w].word \in SubmissionStates
             \/ Kind(Env(w).row) = "reconcile" /\ workers[w].word \in StatusStates

\* Inductive form of the paid operation's promise: what the operation row, its
\* two intents and a process around the provider call know of one another.
CallsAgree ==
    /\ \A o \in Ops :
         /\ submits[o] \in {0, 1}
         /\ ops[o].status = "reserved" => submits[o] = 0
         /\ ops[o].ref => submits[o] = 1
         /\ ops[o].status \in Settled =>
              /\ submits[o] = 1
              /\ outbox[Parent(o)].state = "done"
              /\ outbox[Child(o)].state = "done"
         /\ outbox[Child(o)].state # "absent" => outbox[Parent(o)].state = "done"
    /\ \A w \in Workers :
         LET o == Subject(Env(w).row) IN
         /\ workers[w].phase \in {"submit", "status", "answered"} =>
              ops[o].status # "reserved"
         /\ workers[w].phase = "submit" => submits[o] = 0
         /\ workers[w].phase \in {"status", "answered"} => submits[o] = 1
    /\ \A v, w \in Workers :
         /\ workers[v].phase = "submit" /\ workers[w].phase = "submit"
         /\ Subject(Env(v).row) = Subject(Env(w).row)
         => v = w

----------------------------------------------------------------------------
(* Liveness.  Clocks advance, the periodic sweep and the recovery cron run; *)
(* nothing is assumed of transports, workers, providers or operators.       *)

Scheduling ==
    /\ \A r \in Rows : /\ WF_vars(RowDeadline(r))
                       /\ WF_vars(StepDeadline(r))
                       /\ WF_vars(Sweep(r))
                       /\ SF_vars(RecoverExecution(r))
FairSpec == Spec /\ Scheduling

\* "If a worker dies, the lease expires and the sweeper re-enqueues the row":
\* no claim stays dispatched for ever while the runtime is enabled.
LostClaimsAreReplaced ==
    <>[]control.enabled =>
        \A r \in Rows, g \in 1 .. MaxGen - 1 :
            (outbox[r].state = "dispatched" /\ outbox[r].gen = g)
                ~> (outbox[r].state # "dispatched" \/ outbox[r].gen # g)

----------------------------------------------------------------------------
(* A healthy legacy runtime.                                               *)

\* Everything goes well except that a message is delivered more than once: no
\* crash, no failed publish, no deadline that passes, no change of runtime.
HealthyNext ==
    \/ \E r \in Rows : Dispatch(r)
    \/ \E w \in Workers : \/ \E e \in mail : StartTask(w, e)
                          \/ Prepare(w) \/ CallSubmit(w) \/ CallStatus(w) \/ Finalize(w)

HealthySpec == Init /\ [][HealthyNext]_vars

\* "Duplicate publishes are harmless": the reference a provider returned for
\* an accepted submission is stored when its worker finishes, whatever another
\* delivery of the same message did meanwhile (_prepare and _finalize).
AcceptedReferenceIsStored ==
    [][\A w \in Workers :
         Busy(w, "answered") /\ workers[w].ref /\ workers'[w] = Idle
             => ops'[Subject(Env(w).row)].ref]_vars

----------------------------------------------------------------------------
(* For the model checker: workers are interchangeable, no action or        *)
(* property names one.                                                     *)

WorkerSymmetry == Permutations(Workers)
====
