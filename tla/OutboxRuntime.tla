---- MODULE OutboxRuntime ----
(***************************************************************************)
(* PostgreSQL arbitration of durable work: the singleton runtime control   *)
(* row, the transactional outbox and the receipts of bounded worker steps. *)
(* Every operator below is what one database transaction does to those     *)
(* three tables; the modules that extend this one add the handlers.        *)
(*                                                                         *)
(* An instant is kept as what a comparison with "now" can tell of it: a    *)
(* lease that was never set (or was cleared) is "none", one still ahead is *)
(* "live", one that has passed is "expired".  Each deadline passes on its  *)
(* own, because each process compares it with its own clock.               *)
(***************************************************************************)
EXTENDS Naturals, FiniteSets

CONSTANTS Jobs,      \* intents whose handler only writes the database
          Ops,       \* provider operations, each with its submitting intent
          MaxGen,    \* bound: fencing generations explored per outbox row
          MaxEpoch,  \* bound: runtime epochs explored
          MaxSteps,  \* receipts one outbox row may own (512 in the code)
          Backends   \* runtimes the operator may select

ASSUME BoundsAssumption ==
    /\ MaxGen \in Nat \ {0}
    /\ MaxEpoch \in Nat \ {0}
    /\ MaxSteps \in Nat \ {0}

ASSUME BackendsAssumption ==
    /\ Backends # {}
    /\ Backends \subseteq {"celery", "cloudflare"}

VARIABLES control,   \* worker_runtime_control, the singleton row
          outbox,    \* outbox_events, by row
          steps      \* worker_steps, by row and generation (key "start")

runtimeVars == <<control, outbox, steps>>

Rows == (Jobs \X {"local"}) \cup (Ops \X {"external", "reconcile"})
Subject(r) == r[1]
Kind(r) == r[2]
Gens == 0 .. MaxGen
Epochs == 1 .. MaxEpoch
Leases == {"none", "live", "expired"}

RowStates == {"absent", "ready", "dispatched", "done", "failed"}
TERMINAL_STATES == {"done", "failed"}
ReceiptStates == {"none", "running", "done", "reconcile", "blocked"}

\* A step owner is a fresh uuid, written once into the one receipt a
\* generation may have, so it is named by that row and generation.
Owners == [row : Rows, gen : Gens]
NoOwner == [nobody |-> TRUE]

RowRecord == [state : RowStates, gen : Gens, lease : Leases,
              backend : {"celery", "cloudflare"}, epoch : Epochs]
ReceiptRecord == [state : ReceiptStates, lease : Leases]
ControlRecord == [backend : {"celery", "cloudflare"}, enabled : BOOLEAN,
                  epoch : Epochs, owner : Owners \cup {NoOwner}, slot : Leases]

\* The opaque identity a transport carries: never an instruction.
Envelopes == [row : Rows, gen : Gens, epoch : Epochs,
              via : {"celery", "cloudflare"}]
Owner(e) == [row |-> e.row, gen |-> e.gen]
NoReceipt == [state |-> "none", lease |-> "none"]

RuntimeTypeOK ==
    /\ control \in ControlRecord
    /\ outbox \in [Rows -> RowRecord]
    /\ steps \in [Rows -> [Gens -> ReceiptRecord]]

\* Work is queued with its business intent; a status-only child is added later.
RuntimeInit ==
    /\ control \in [backend : Backends, enabled : {TRUE}, epoch : {1},
                    owner : {NoOwner}, slot : {"none"}]
    /\ outbox = [r \in Rows |->
                   [state |-> IF Kind(r) = "reconcile" THEN "absent" ELSE "ready",
                    gen |-> 0, lease |-> "none", backend |-> "celery", epoch |-> 1]]
    /\ steps = [r \in Rows |-> [g \in Gens |-> NoReceipt]]

----------------------------------------------------------------------------
(* Claiming and giving back a row.                                         *)

Receipts(r, states) == {g \in Gens : steps[r][g].state \in states}

\* Mutant: the sweep looks for ready rows as the dispatcher does.
Claimable_ReadyOnly(r, expiredOnly) == outbox[r].state = "ready"

Claimable(r, expiredOnly) ==
    \/ outbox[r].state = "ready" /\ ~expiredOnly
    \/ /\ outbox[r].state = "dispatched"
       /\ outbox[r].lease = "expired"
       /\ outbox[r].backend = control.backend
       /\ outbox[r].epoch = control.epoch

\* Mutant: an open step of an older generation does not hold back the claim.
ClaimRow_OverOpenStep(r, backend, expiredOnly) ==
    /\ control.enabled /\ control.backend = backend
    /\ Claimable(r, expiredOnly)
    /\ outbox[r].gen < MaxGen
    /\ outbox' = [outbox EXCEPT ![r] =
                    [state |-> "dispatched", gen |-> outbox[r].gen + 1,
                     lease |-> "live", backend |-> backend, epoch |-> control.epoch]]
    /\ UNCHANGED <<control, steps>>

\* The claim is durable, with a new generation, before anything is published.
ClaimRow(r, backend, expiredOnly) ==
    /\ control.enabled
    /\ control.backend = backend
    /\ Claimable(r, expiredOnly)
    /\ Receipts(r, {"running", "reconcile"}) = {}
    /\ outbox[r].gen < MaxGen
    /\ outbox' = [outbox EXCEPT ![r] =
                    [state |-> "dispatched", gen |-> outbox[r].gen + 1,
                     lease |-> "live", backend |-> backend, epoch |-> control.epoch]]
    /\ UNCHANGED <<control, steps>>

ReturnToReady(r) ==
    outbox' = [outbox EXCEPT ![r].state = "ready", ![r].lease = "none"]

\* Mutant: a publish that raised after its message was executed reopens the row.
ReleaseClaim_AnyState(e) ==
    /\ outbox[e.row].gen = e.gen
    /\ Receipts(e.row, {"running", "reconcile"}) = {}
    /\ ReturnToReady(e.row)
    /\ UNCHANGED <<control, steps>>

\* The publish of this generation raised.
ReleaseClaim(e) ==
    /\ outbox[e.row].state = "dispatched"
    /\ outbox[e.row].gen = e.gen
    /\ Receipts(e.row, {"running", "reconcile"}) = {}
    /\ ReturnToReady(e.row)
    /\ UNCHANGED <<control, steps>>

\* The envelope is still the one the current Cloudflare runtime claimed.
Selected(e) ==
    /\ control.backend = "cloudflare"
    /\ control.epoch = e.epoch
    /\ outbox[e.row].backend = "cloudflare"
    /\ outbox[e.row].epoch = e.epoch
    /\ outbox[e.row].gen = e.gen

\* A controller may report a publication it knows to have failed; a claim
\* that already owns a step is kept, whatever is reported.
RecordPublication(e) ==
    /\ Selected(e)
    /\ outbox[e.row].state = "dispatched"
    /\ Receipts(e.row, ReceiptStates \ {"none"}) = {}
    /\ ReturnToReady(e.row)
    /\ UNCHANGED <<control, steps>>

\* A status read keeps the lease of a row its workflow is still waiting on.
ReadStepStatus(e) ==
    /\ Selected(e)
    /\ outbox[e.row].state = "dispatched"
    /\ outbox[e.row].lease # "live"
    /\ outbox' = [outbox EXCEPT ![e.row].lease = "live"]
    /\ UNCHANGED <<control, steps>>

----------------------------------------------------------------------------
(* Bounded Cloudflare steps: one receipt per generation, one global slot.  *)

\* The branch of claim_execution_step that grants the step; every other
\* branch answers from what is stored and writes nothing.
ClaimExecutionStep(e) ==
    /\ Selected(e)
    /\ steps[e.row][e.gen] = NoReceipt
    /\ outbox[e.row].state = "dispatched"
    /\ control.enabled
    /\ control.owner = NoOwner \/ control.slot = "expired"
    /\ Cardinality(Receipts(e.row, ReceiptStates \ {"none"})) < MaxSteps
    /\ control' = [control EXCEPT !.owner = Owner(e), !.slot = "live"]
    /\ steps' = [steps EXCEPT ![e.row][e.gen] = [state |-> "running", lease |-> "live"]]
    /\ outbox' = [outbox EXCEPT ![e.row].lease = "live"]

\* Mutant: the step checks its receipt but not the global slot.
OwnedStep_WithoutSlot(e) ==
    Selected(e) /\ steps[e.row][e.gen].state = "running"

OwnedStep(e) ==
    /\ Selected(e)
    /\ steps[e.row][e.gen].state = "running"
    /\ control.owner = Owner(e)

\* What every transaction of a native handler checks before it writes.
LocalGuard(e) ==
    /\ OwnedStep(e)
    /\ control.enabled
    /\ steps[e.row][e.gen].lease = "live"

ReceiptFor(result) == IF result \in {"done", "reconcile"} THEN result ELSE "blocked"

\* Mutant: the slot is left to its deadline.
FinishReceipt_KeepingSlot(e, result) ==
    /\ steps' = [steps EXCEPT ![e.row][e.gen] =
                   [state |-> ReceiptFor(result), lease |-> "none"]]
    /\ UNCHANGED control

FinishReceipt(e, result) ==
    /\ steps' = [steps EXCEPT ![e.row][e.gen] =
                   [state |-> ReceiptFor(result), lease |-> "none"]]
    /\ control' = [control EXCEPT !.owner = NoOwner, !.slot = "none"]

\* The legacy runtime's fence, rechecked by every transaction of its handlers.
LegacyGuard(e) ==
    /\ control.backend = "celery"
    /\ control.enabled
    /\ control.epoch = e.epoch
    /\ outbox[e.row].backend = "celery"
    /\ outbox[e.row].epoch = control.epoch
    /\ outbox[e.row].gen = e.gen

Guard(e) == IF e.via = "cloudflare" THEN LocalGuard(e) ELSE LegacyGuard(e)

----------------------------------------------------------------------------
(* Time and the operator.                                                  *)

ExpireRow(r) ==
    /\ outbox[r].state = "dispatched"
    /\ outbox[r].lease = "live"
    /\ outbox' = [outbox EXCEPT ![r].lease = "expired"]
    /\ UNCHANGED <<control, steps>>

ExpireStep(r, g) ==
    /\ steps[r][g] = [state |-> "running", lease |-> "live"]
    /\ steps' = [steps EXCEPT ![r][g].lease = "expired"]
    /\ UNCHANGED <<control, outbox>>

ExpireSlot ==
    /\ control.slot = "live"
    /\ control' = [control EXCEPT !.slot = "expired"]
    /\ UNCHANGED <<outbox, steps>>

\* Operator compare-and-swap: a pause is always possible, enabling waits for
\* every live lease and the live slot to drain.  The slot itself is kept.
SetExecutionRuntime(backend, enabled) ==
    /\ control.epoch < MaxEpoch
    /\ enabled =>
         /\ \A r \in Rows : ~(outbox[r].state = "dispatched" /\ outbox[r].lease = "live")
         /\ control.slot # "live"
    /\ control' = [control EXCEPT !.backend = backend, !.enabled = enabled,
                                  !.epoch = control.epoch + 1]
    /\ UNCHANGED <<outbox, steps>>

----------------------------------------------------------------------------
(* Invariant of the execution slot.                                        *)

\* The global execution slot is never left with a step that already finished:
\* a receipt that is completed, blocked or recovered gives the slot back in
\* the same transaction, so only a running step can make others wait.
SlotOwnerIsRunning ==
    control.owner # NoOwner =>
        steps[control.owner.row][control.owner.gen].state = "running"
====
