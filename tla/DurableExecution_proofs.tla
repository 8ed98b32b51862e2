---- MODULE DurableExecution_proofs ----
(***************************************************************************)
(* Machine-checked proofs about the durable execution core, for any number *)
(* of jobs, operations, workers, generations and runtime epochs.           *)
(***************************************************************************)
EXTENDS DurableExecution, TLAPS

----------------------------------------------------------------------------
(* Rows and workers.                                                       *)

\* A row is a local intent of a job, or one of the two intents of an operation.
LEMMA RowFacts ==
    ASSUME NEW r \in Rows
    PROVE  /\ Kind(r) \in {"local", "external", "reconcile"}
           /\ Kind(r) = "local" => Subject(r) \in Jobs
           /\ Kind(r) = "external" => Subject(r) \in Ops /\ r = Parent(Subject(r))
           /\ Kind(r) = "reconcile" => Subject(r) \in Ops /\ r = Child(Subject(r))
BY DEF Rows, Kind, Subject, Parent, Child

\* The two intents of an operation are rows, and no two of them coincide.
LEMMA IntentFacts ==
    ASSUME NEW o \in Ops
    PROVE  /\ Parent(o) \in Rows /\ Child(o) \in Rows
           /\ Kind(Parent(o)) = "external" /\ Subject(Parent(o)) = o
           /\ Kind(Child(o)) = "reconcile" /\ Subject(Child(o)) = o
           /\ \A p \in Ops : /\ Parent(o) # Child(p)
                             /\ Parent(o) = Parent(p) => o = p
                             /\ Child(o) = Child(p) => o = p
BY DEF Rows, Kind, Subject, Parent, Child

\* A process that is not idle carries an envelope, and Idle is no such record.
LEMMA WorkerFacts ==
    ASSUME TypeOK, NEW w \in Workers
    PROVE  /\ workers[w] \in WorkerRecord \/ workers[w] = Idle
           /\ Idle.phase = "idle"
           /\ workers[w].phase \in Phases =>
                /\ workers[w] \in WorkerRecord
                /\ Env(w) \in Envelopes
                /\ Env(w).row \in Rows /\ Env(w).gen \in Gens
                /\ workers[w].word \in Words /\ workers[w].ref \in BOOLEAN
           /\ workers[w] # Idle => workers[w].phase \in Phases
BY DEF TypeOK, WorkerRecord, Idle, Phases, Env, Envelopes

\* A worker record built from an envelope is well formed.
LEMMA AtType ==
    ASSUME NEW phase \in Phases, NEW e \in Envelopes, NEW word \in Words, NEW ref \in BOOLEAN
    PROVE  /\ At(phase, e, word, ref) \in WorkerRecord
           /\ At(phase, e, word, ref).phase = phase
           /\ At(phase, e, word, ref).env = e
           /\ At(phase, e, word, ref).word = word
           /\ At(phase, e, word, ref).ref = ref
BY DEF At, WorkerRecord

----------------------------------------------------------------------------
(* What the shared transactions preserve.                                  *)

\* Finishing a receipt keeps the runtime tables well formed.
LEMMA FinishReceiptType ==
    ASSUME RuntimeTypeOK, NEW e \in Envelopes, NEW result, FinishReceipt(e, result)
    PROVE  /\ steps' \in [Rows -> [Gens -> ReceiptRecord]]
           /\ control' \in ControlRecord
<1>1. ReceiptFor(result) \in ReceiptStates
  BY DEF ReceiptFor, ReceiptStates
<1>2. [state |-> ReceiptFor(result), lease |-> "none"] \in ReceiptRecord
  BY <1>1 DEF ReceiptRecord, Leases
<1>3. e.row \in Rows /\ e.gen \in Gens
  BY DEF Envelopes
<1>4. steps' \in [Rows -> [Gens -> ReceiptRecord]]
  BY <1>2, <1>3 DEF FinishReceipt, RuntimeTypeOK
<1>5. control' \in ControlRecord
  BY DEF FinishReceipt, RuntimeTypeOK, ControlRecord, Leases
<1>. QED BY <1>4, <1>5

\* Handing an operation to its status-only child keeps the outbox well formed.
LEMMA QueueReconciliationType ==
    ASSUME NEW box \in [Rows -> RowRecord], NEW r \in Rows, Kind(r) # "local"
    PROVE  QueueReconciliation(r, box) \in [Rows -> RowRecord]
<1>. DEFINE c == Child(Subject(r))
            queued == IF box[c].state # "absent" THEN box
                      ELSE [box EXCEPT ![c] = [state |-> "ready", gen |-> 0, lease |-> "none",
                                               backend |-> box[r].backend, epoch |-> box[r].epoch]]
<1>1. c \in Rows
  BY RowFacts, IntentFacts
<1>2. box[r].backend \in {"celery", "cloudflare"} /\ box[r].epoch \in Epochs
  BY DEF RowRecord
<1>3. 0 \in Gens
  BY BoundsAssumption DEF Gens
<1>4. queued \in [Rows -> RowRecord]
  BY <1>1, <1>2, <1>3 DEF RowRecord, RowStates, Leases
<1>5. QueueReconciliation(r, box) = [queued EXCEPT ![r].state = "done", ![r].lease = "none"]
  BY DEF QueueReconciliation
<1>. HIDE DEF queued
<1>6. [queued EXCEPT ![r].state = "done", ![r].lease = "none"] \in [Rows -> RowRecord]
  <2>1. PICK row \in RowRecord : row = queued[r]
    BY <1>4
  <2>2. PICK next : next = [row EXCEPT !.state = "done", !.lease = "none"]
    OBVIOUS
  <2>3. next \in RowRecord
    BY <2>2 DEF RowRecord, RowStates, Leases
  <2>4. [queued EXCEPT ![r].state = "done", ![r].lease = "none"] = [queued EXCEPT ![r] = next]
    BY <2>1, <2>2
  <2> QED BY <1>4, <2>3, <2>4
<1>. QED BY <1>5, <1>6

\* Leaving a handler transaction writes the receipt, the slot and the process.
LEMMA LeaveSessionType ==
    ASSUME TypeOK, NEW w \in Workers, workers[w].phase \in Phases,
           NEW next \in WorkerRecord \cup {Idle}, LeaveSession(w, next)
    PROVE  /\ steps' \in [Rows -> [Gens -> ReceiptRecord]]
           /\ control' \in ControlRecord
           /\ workers' \in [Workers -> WorkerRecord \cup {Idle}]
           /\ workers' = [workers EXCEPT ![w] = next] \/ workers' = [workers EXCEPT ![w] = Idle]
<1>. DEFINE result == BusinessOutcome(Env(w).row, outbox', ops', FALSE)
<1>1. Env(w) \in Envelopes
  BY WorkerFacts
<1>2. RuntimeTypeOK /\ workers \in [Workers -> WorkerRecord \cup {Idle}]
  BY DEF TypeOK
<1>3. CASE Env(w).via = "cloudflare" /\ result # "none"
  <2>1. FinishReceipt(Env(w), result) /\ Become(w, Idle)
    BY <1>3 DEF LeaveSession
  <2>. QED BY <2>1, <1>1, <1>2, FinishReceiptType DEF Become
<1>4. CASE ~(Env(w).via = "cloudflare" /\ result # "none")
  <2>1. UNCHANGED <<control, steps>> /\ Become(w, next)
    BY <1>4 DEF LeaveSession
  <2>. QED BY <2>1, <1>2 DEF Become, RuntimeTypeOK
<1>. QED BY <1>3, <1>4

\* A handler that returns leaves its process idle or with one transaction left.
LEMMA ReturnType ==
    ASSUME TypeOK, NEW w \in Workers, workers[w].phase \in Phases,
           NEW word \in Words, Return(w, word)
    PROVE  /\ steps' \in [Rows -> [Gens -> ReceiptRecord]]
           /\ control' \in ControlRecord
           /\ workers' \in [Workers -> WorkerRecord \cup {Idle}]
           /\ workers'[w].phase \in {"idle", "wrapup"}
           /\ \A v \in Workers : v # w => workers'[v] = workers[v]
<1>. DEFINE next == IF Env(w).via = "cloudflare" THEN At("wrapup", Env(w), word, FALSE) ELSE Idle
<1>1. At("wrapup", Env(w), word, FALSE) \in WorkerRecord
      /\ At("wrapup", Env(w), word, FALSE).phase = "wrapup"
  <2>1. Env(w) \in Envelopes /\ "wrapup" \in Phases
    BY WorkerFacts DEF Phases
  <2>. QED BY <2>1, AtType
<1>2. next \in WorkerRecord \cup {Idle} /\ next.phase \in {"idle", "wrapup"}
  BY <1>1 DEF Idle
<1>3. LeaveSession(w, next)
  BY DEF Return
<1>. HIDE DEF next
<1>4. /\ steps' \in [Rows -> [Gens -> ReceiptRecord]]
      /\ control' \in ControlRecord
      /\ workers' \in [Workers -> WorkerRecord \cup {Idle}]
      /\ workers' = [workers EXCEPT ![w] = next] \/ workers' = [workers EXCEPT ![w] = Idle]
  BY <1>2, <1>3, LeaveSessionType
<1>. QED BY <1>2, <1>4 DEF TypeOK, Idle

----------------------------------------------------------------------------
(* Type correctness, with what a process in the middle of a call carries.  *)

\* A process that leaves the middle of a call, or never entered it, leaves
\* MidCall to the others.
LEMMA MidCallFrame ==
    ASSUME MidCall, NEW w \in Workers,
           workers'[w].phase \notin {"submit", "status", "answered"},
           \A v \in Workers : v # w => workers'[v] = workers[v]
    PROVE  MidCall'
BY DEF MidCall, Env

\* The initial tables are well formed and no process is in a call.
LEMMA InitType == Init => TypeOK /\ MidCall
<1>. SUFFICES ASSUME Init PROVE TypeOK /\ MidCall
  OBVIOUS
<1>1. 0 \in Gens /\ 1 \in Epochs /\ \A g \in Gens : g \in Nat
  BY BoundsAssumption DEF Gens, Epochs
<1>2. control \in ControlRecord
  BY <1>1, BackendsAssumption DEF Init, RuntimeInit, ControlRecord, Leases
<1>3. outbox \in [Rows -> RowRecord]
  BY <1>1 DEF Init, RuntimeInit, RowRecord, RowStates, Leases
<1>4. steps \in [Rows -> [Gens -> ReceiptRecord]]
  BY DEF Init, RuntimeInit, NoReceipt, ReceiptRecord, ReceiptStates, Leases
<1>5. ops \in [Ops -> [status : Statuses, ref : BOOLEAN]]
  BY DEF Init, Statuses
<1>6. workers \in [Workers -> WorkerRecord \cup {Idle}] /\ MidCall
  BY DEF Init, MidCall, Idle
<1>7. mail \in SUBSET Envelopes /\ submits \in [Ops -> Nat] /\ effects \in [Jobs -> Nat]
  BY DEF Init
<1>. QED BY <1>2, <1>3, <1>4, <1>5, <1>6, <1>7 DEF TypeOK, RuntimeTypeOK

\* Claiming a row for a new generation, by any of the three dispatchers.
LEMMA ClaimType ==
    ASSUME TypeOK, MidCall, NEW r \in Rows, NEW backend \in {"celery", "cloudflare"},
           NEW expiredOnly \in BOOLEAN, Claim(r, backend, expiredOnly)
    PROVE  TypeOK' /\ MidCall'
<1>1. outbox[r].gen + 1 \in Gens /\ control.epoch \in Epochs
  BY BoundsAssumption
     DEF Claim, ClaimRow, TypeOK, RuntimeTypeOK, RowRecord, Gens, ControlRecord
<1>2. outbox' \in [Rows -> RowRecord]
  BY <1>1 DEF Claim, ClaimRow, TypeOK, RuntimeTypeOK, RowRecord, RowStates, Leases
<1>3. mail' \in SUBSET Envelopes
  BY <1>1 DEF Claim, TypeOK, Envelopes
<1>4. UNCHANGED <<control, steps, ops, workers, submits, effects>>
  BY DEF Claim, ClaimRow
<1>. QED BY <1>2, <1>3, <1>4 DEF TypeOK, RuntimeTypeOK, MidCall, Env

\* Giving a claim back, and renewing its lease.
LEMMA ReportType ==
    ASSUME TypeOK, MidCall, NEW e \in mail,
           PublishFails(e) \/ PublicationFailed(e) \/ StatusRead(e)
    PROVE  TypeOK' /\ MidCall'
<1>1. e.row \in Rows
  BY DEF TypeOK, Envelopes
<1>2. \/ outbox' = [outbox EXCEPT ![e.row].state = "ready", ![e.row].lease = "none"]
      \/ outbox' = [outbox EXCEPT ![e.row].lease = "live"]
  BY DEF PublishFails, PublicationFailed, StatusRead, ReleaseClaim, RecordPublication,
         ReadStepStatus, ReturnToReady
<1>3. outbox' \in [Rows -> RowRecord]
  <2>1. outbox \in [Rows -> RowRecord]
    BY DEF TypeOK, RuntimeTypeOK
  <2>2. CASE outbox' = [outbox EXCEPT ![e.row].state = "ready", ![e.row].lease = "none"]
    BY <1>1, <2>1, <2>2 DEF RowRecord, RowStates, Leases
  <2>3. CASE outbox' = [outbox EXCEPT ![e.row].lease = "live"]
    BY <1>1, <2>1, <2>3 DEF RowRecord, RowStates, Leases
  <2>. QED BY <1>2, <2>2, <2>3
<1>4. UNCHANGED <<control, steps, ops, workers, mail, submits, effects>>
  BY DEF PublishFails, PublicationFailed, StatusRead, ReleaseClaim, RecordPublication,
         ReadStepStatus
<1>. QED BY <1>3, <1>4 DEF TypeOK, RuntimeTypeOK, MidCall, Env

\* Claiming a native step opens one receipt, takes the slot and starts a process.
LEMMA StartStepType ==
    ASSUME TypeOK, MidCall, NEW w \in Workers, NEW e \in mail, StartStep(w, e)
    PROVE  TypeOK' /\ MidCall'
<1>1. e \in Envelopes /\ e.row \in Rows /\ e.gen \in Gens
  BY DEF TypeOK, Envelopes
<1>2. Owner(e) \in Owners
  BY <1>1 DEF Owner, Owners
<1>3. control' \in ControlRecord
  BY <1>2 DEF StartStep, ClaimExecutionStep, TypeOK, RuntimeTypeOK, ControlRecord, Leases
<1>4. steps' \in [Rows -> [Gens -> ReceiptRecord]]
  BY <1>1 DEF StartStep, ClaimExecutionStep, TypeOK, RuntimeTypeOK, ReceiptRecord,
              ReceiptStates, Leases
<1>5. outbox' \in [Rows -> RowRecord]
  <2>1. PICK row \in RowRecord : row = outbox[e.row]
    BY <1>1 DEF TypeOK, RuntimeTypeOK
  <2>2. PICK next : next = [row EXCEPT !.lease = "live"]
    OBVIOUS
  <2>3. next \in RowRecord
    BY <2>1, <2>2 DEF RowRecord, Leases
  <2>4. outbox' = [outbox EXCEPT ![e.row] = next]
    BY <1>1, <2>1, <2>2 DEF StartStep, ClaimExecutionStep
  <2>. QED BY <1>1, <2>3, <2>4 DEF TypeOK, RuntimeTypeOK
<1>6. At("claimed", e, "nothing", FALSE) \in WorkerRecord
      /\ At("claimed", e, "nothing", FALSE).phase = "claimed"
  BY <1>1 DEF At, WorkerRecord, Phases, Words
<1>7. workers' \in [Workers -> WorkerRecord \cup {Idle}] /\ MidCall'
  BY <1>6, MidCallFrame DEF StartStep, Become, TypeOK
<1>8. UNCHANGED <<ops, mail, submits, effects>>
  BY DEF StartStep
<1>. QED BY <1>3, <1>4, <1>5, <1>7, <1>8 DEF TypeOK, RuntimeTypeOK

\* A delivered Celery task of an operation starts a process that has made no call.
LEMMA StartTaskType ==
    ASSUME TypeOK, MidCall, NEW w \in Workers, NEW e \in mail, StartTask(w, e)
    PROVE  TypeOK' /\ MidCall'
<1>1. [e EXCEPT !.epoch = control.epoch] \in Envelopes
  BY DEF TypeOK, RuntimeTypeOK, ControlRecord, Envelopes
<1>. DEFINE f == [e EXCEPT !.epoch = control.epoch]
<1>. HIDE DEF f
<1>2. At("claimed", f, "nothing", FALSE) \in WorkerRecord
      /\ At("claimed", f, "nothing", FALSE).phase = "claimed"
  BY <1>1 DEF At, WorkerRecord, Phases, Words, f
<1>3. workers' = [workers EXCEPT ![w] = At("claimed", f, "nothing", FALSE)]
  BY DEF StartTask, Become, f
<1>4. workers' \in [Workers -> WorkerRecord \cup {Idle}] /\ MidCall'
  BY <1>2, <1>3, MidCallFrame DEF TypeOK
<1>5. UNCHANGED <<control, outbox, steps, ops, mail, submits, effects>>
  BY DEF StartTask
<1>. QED BY <1>4, <1>5 DEF TypeOK, RuntimeTypeOK

\* The handler and the terminal write of a local intent.
LEMMA RunIntentType ==
    ASSUME TypeOK, NEW r \in Rows, Kind(r) = "local", RunIntent(r)
    PROVE  outbox' \in [Rows -> RowRecord] /\ effects' \in [Jobs -> Nat]
<1>1. PICK state \in TERMINAL_STATES : CloseRow(r, state)
  BY DEF RunIntent
<1>2. state \in RowStates
  BY DEF TERMINAL_STATES, RowStates
<1>3. outbox' \in [Rows -> RowRecord]
  <2>1. outbox \in [Rows -> RowRecord]
    BY DEF TypeOK, RuntimeTypeOK
  <2>2. outbox' = [outbox EXCEPT ![r].state = state, ![r].lease = "none"]
    BY <1>1 DEF CloseRow
  <2>. QED BY <1>2, <2>1, <2>2 DEF RowRecord, Leases
<1>4. effects' \in [Jobs -> Nat]
  <2>1. Subject(r) \in Jobs /\ effects \in [Jobs -> Nat]
    BY RowFacts DEF TypeOK
  <2>. QED BY <2>1 DEF RunIntent
<1>. QED BY <1>3, <1>4

\* A delivered Celery task of a local intent changes its row and its effects only.
LEMMA RunTaskType ==
    ASSUME TypeOK, MidCall, NEW e \in mail, RunTask(e)
    PROVE  TypeOK' /\ MidCall'
<1>1. e.row \in Rows
  BY DEF TypeOK, Envelopes
<1>2. outbox' \in [Rows -> RowRecord] /\ effects' \in [Jobs -> Nat]
  BY <1>1, RunIntentType DEF RunTask
<1>. QED BY <1>2 DEF RunTask, TypeOK, RuntimeTypeOK, MidCall, Env

\* A native step of a local intent ends with its process idle.
LEMMA RunStepType ==
    ASSUME TypeOK, MidCall, NEW w \in Workers, RunStep(w)
    PROVE  TypeOK' /\ MidCall'
<1>. DEFINE e == Env(w)
<1>1. e \in Envelopes /\ e.row \in Rows /\ RuntimeTypeOK /\ Kind(e.row) = "local"
  BY WorkerFacts DEF RunStep, Busy, Phases, TypeOK
<1>2. workers' = [workers EXCEPT ![w] = Idle]
  BY DEF RunStep, Become
<1>3. workers' \in [Workers -> WorkerRecord \cup {Idle}] /\ MidCall'
  BY <1>2, MidCallFrame DEF TypeOK, Idle
<1>4. /\ control' \in ControlRecord
      /\ steps' \in [Rows -> [Gens -> ReceiptRecord]]
      /\ outbox' \in [Rows -> RowRecord]
      /\ effects' \in [Jobs -> Nat]
  <2>1. CASE RunIntent(e.row) /\ \E result : FinishReceipt(e, result)
    BY <1>1, <2>1, RunIntentType, FinishReceiptType
  <2>2. CASE (\E result : FinishReceipt(e, result)) /\ UNCHANGED <<outbox, effects>>
    BY <1>1, <2>2, FinishReceiptType DEF TypeOK, RuntimeTypeOK
  <2>3. CASE UNCHANGED <<control, outbox, steps, effects>>
    BY <2>3 DEF TypeOK, RuntimeTypeOK
  <2>. QED BY <2>1, <2>2, <2>3 DEF RunStep
<1>5. UNCHANGED <<ops, mail, submits>>
  BY DEF RunStep
<1>. QED BY <1>3, <1>4, <1>5 DEF TypeOK, RuntimeTypeOK

\* A process that makes its provider call has nothing else to do but answer.
LEMMA CallType ==
    ASSUME TypeOK, MidCall, NEW w \in Workers, CallSubmit(w) \/ CallStatus(w)
    PROVE  TypeOK' /\ MidCall'
<1>. DEFINE answer(word, ref) == At("answered", Env(w), word, ref)
<1>1. /\ workers[w].phase \in {"submit", "status"}
      /\ Env(w) \in Envelopes
      /\ Env(w).row \in Rows
  BY WorkerFacts DEF CallSubmit, CallStatus, Busy, Phases
<1>2. \A word \in SubmissionStates \cup StatusStates, ref \in BOOLEAN :
        /\ answer(word, ref) \in WorkerRecord
        /\ answer(word, ref).phase = "answered"
        /\ answer(word, ref).env = Env(w)
        /\ answer(word, ref).word = word
  BY <1>1 DEF At, WorkerRecord, Phases, Words, Statuses, SubmissionStates, StatusStates, Settled
<1>3. \E word \in SubmissionStates \cup StatusStates, ref \in BOOLEAN :
        /\ workers' = [workers EXCEPT ![w] = answer(word, ref)]
        /\ workers[w].phase = "submit" => word \in SubmissionStates
        /\ workers[w].phase = "status" => word \in StatusStates
  BY DEF CallSubmit, CallStatus, Become, Busy
<1>4. PICK word \in SubmissionStates \cup StatusStates, ref \in BOOLEAN :
        /\ workers' = [workers EXCEPT ![w] = answer(word, ref)]
        /\ workers[w].phase = "submit" => word \in SubmissionStates
        /\ workers[w].phase = "status" => word \in StatusStates
  BY <1>3
<1>. HIDE DEF answer
<1>5. workers' \in [Workers -> WorkerRecord \cup {Idle}]
  BY <1>2, <1>4 DEF TypeOK
<1>6. MidCall'
  BY <1>1, <1>2, <1>4 DEF MidCall, TypeOK, Env
<1>7. submits' \in [Ops -> Nat]
  <2>1. Kind(Env(w).row) # "local"
    BY <1>1 DEF MidCall
  <2>2. Subject(Env(w).row) \in Ops /\ submits \in [Ops -> Nat]
    BY <1>1, <2>1, RowFacts DEF TypeOK
  <2>3. \/ submits' = [submits EXCEPT ![Subject(Env(w).row)] = @ + 1]
        \/ submits' = submits
    BY DEF CallSubmit, CallStatus
  <2>. QED BY <2>2, <2>3
<1>8. UNCHANGED <<control, outbox, steps, ops, mail, effects>>
  BY DEF CallSubmit, CallStatus
<1>. QED BY <1>5, <1>6, <1>7, <1>8 DEF TypeOK, RuntimeTypeOK

\* A step that wraps up, fails or dies frees its process.
LEMMA EndStepType ==
    ASSUME TypeOK, MidCall, NEW w \in Workers, WrapUp(w) \/ FailStep(w) \/ Crash(w)
    PROVE  TypeOK' /\ MidCall'
<1>1. Env(w) \in Envelopes
  BY WorkerFacts DEF WrapUp, FailStep, Crash, Busy, Phases
<1>2. workers' = [workers EXCEPT ![w] = Idle]
  BY DEF WrapUp, FailStep, Crash, Become
<1>3. workers' \in [Workers -> WorkerRecord \cup {Idle}] /\ MidCall'
  BY <1>2, MidCallFrame DEF TypeOK, Idle
<1>4. (\E result : FinishReceipt(Env(w), result)) \/ UNCHANGED <<control, steps>>
  BY DEF WrapUp, FailStep, Crash
<1>5. control' \in ControlRecord /\ steps' \in [Rows -> [Gens -> ReceiptRecord]]
  BY <1>1, <1>4, FinishReceiptType DEF TypeOK, RuntimeTypeOK
<1>6. UNCHANGED <<outbox, ops, mail, submits, effects>>
  BY DEF WrapUp, FailStep, Crash
<1>. QED BY <1>3, <1>5, <1>6 DEF TypeOK, RuntimeTypeOK

\* What every return from a handler transaction leaves well formed.
LEMMA ReturnFrame ==
    ASSUME TypeOK, MidCall, NEW w \in Workers, workers[w].phase \in Phases,
           NEW word \in Words, Return(w, word),
           outbox' \in [Rows -> RowRecord],
           ops' \in [Ops -> [status : Statuses, ref : BOOLEAN]],
           UNCHANGED <<mail, submits, effects>>
    PROVE  TypeOK' /\ MidCall'
<1>1. /\ steps' \in [Rows -> [Gens -> ReceiptRecord]]
      /\ control' \in ControlRecord
      /\ workers' \in [Workers -> WorkerRecord \cup {Idle}]
      /\ workers'[w].phase \in {"idle", "wrapup"}
      /\ \A v \in Workers : v # w => workers'[v] = workers[v]
  BY ReturnType
<1>2. MidCall'
  BY <1>1, MidCallFrame
<1>. QED BY <1>1, <1>2 DEF TypeOK, RuntimeTypeOK

\* Losing the fence writes nothing and frees the process.
LEMMA LoseFenceType ==
    ASSUME TypeOK, MidCall, NEW w \in Workers, LoseFence(w),
           UNCHANGED <<mail, submits, effects>>
    PROVE  TypeOK' /\ MidCall'
<1>1. workers' = [workers EXCEPT ![w] = Idle]
  BY DEF LoseFence, Become
<1>2. workers' \in [Workers -> WorkerRecord \cup {Idle}] /\ MidCall'
  BY <1>1, MidCallFrame DEF TypeOK, Idle
<1>. QED BY <1>2 DEF LoseFence, TypeOK, RuntimeTypeOK

\* A process that starts a provider call has an intent of the matching kind.
LEMMA BeginCallType ==
    ASSUME TypeOK, MidCall, NEW w \in Workers, workers[w].phase \in Phases,
           NEW phase \in {"submit", "status"}, NEW ref \in BOOLEAN,
           phase = "submit" => Kind(Env(w).row) = "external",
           phase = "status" => Kind(Env(w).row) = "reconcile",
           Become(w, At(phase, Env(w), "nothing", ref)),
           ops' \in [Ops -> [status : Statuses, ref : BOOLEAN]],
           UNCHANGED <<outbox, control, steps, mail, submits, effects>>
    PROVE  TypeOK' /\ MidCall'
<1>. DEFINE next == At(phase, Env(w), "nothing", ref)
<1>1. Env(w) \in Envelopes
  BY WorkerFacts
<1>2. /\ next \in WorkerRecord
      /\ next.phase = phase
      /\ next.env = Env(w)
  BY <1>1 DEF At, WorkerRecord, Phases, Words
<1>3. workers' = [workers EXCEPT ![w] = next]
  BY DEF Become
<1>. HIDE DEF next
<1>4. workers' \in [Workers -> WorkerRecord \cup {Idle}]
  BY <1>2, <1>3 DEF TypeOK
<1>5. MidCall'
  BY <1>2, <1>3 DEF MidCall, TypeOK, Env
<1>. QED BY <1>4, <1>5 DEF TypeOK, RuntimeTypeOK

\* Every outcome of the prepare transaction (_prepare) keeps the state well formed.
LEMMA PrepareType ==
    ASSUME TypeOK, MidCall, NEW w \in Workers, Prepare(w)
    PROVE  TypeOK' /\ MidCall'
<1>. DEFINE r == Env(w).row
            o == Subject(r)
<1>1. /\ workers[w].phase = "claimed" /\ workers[w].phase \in Phases
      /\ UNCHANGED <<mail, submits, effects>>
  BY DEF Prepare, Busy, Phases
<1>2. r \in Rows /\ o \in Ops /\ Kind(r) # "local"
  BY <1>1, WorkerFacts, RowFacts DEF Prepare
<1>3. /\ outbox \in [Rows -> RowRecord]
      /\ ops \in [Ops -> [status : Statuses, ref : BOOLEAN]]
  BY DEF TypeOK, RuntimeTypeOK
<1>4. CASE LoseFence(w)
  BY <1>1, <1>4, LoseFenceType
<1>5. CASE PrepareStale(w)
  BY <1>1, <1>3, <1>5, ReturnFrame DEF PrepareStale, Words
<1>6. CASE PrepareBlocked(w)
  BY <1>1, <1>3, <1>6, ReturnFrame DEF PrepareBlocked, Words
<1>7. CASE PrepareSubmit(w)
  <2>1. ops' \in [Ops -> [status : Statuses, ref : BOOLEAN]]
    BY <1>2, <1>3, <1>7 DEF PrepareSubmit, Statuses
  <2>. QED BY <1>1, <1>7, <2>1, BeginCallType DEF PrepareSubmit
<1>8. CASE PrepareUncertain(w)
  <2>1. Interrupted(ops[o].status) \in Statuses
    BY <1>2, <1>3 DEF Interrupted, Statuses
  <2>2. ops' \in [Ops -> [status : Statuses, ref : BOOLEAN]]
    BY <1>2, <1>3, <1>8, <2>1 DEF PrepareUncertain
  <2>3. outbox' \in [Rows -> RowRecord]
    BY <1>2, <1>3, <1>8, QueueReconciliationType DEF PrepareUncertain
  <2>4. Return(w, "unknown") /\ "unknown" \in Words
    BY <1>8 DEF PrepareUncertain, Words, Statuses
  <2>. QED BY <1>1, <2>2, <2>3, <2>4, ReturnFrame
<1>9. CASE PreparePoll(w)
  BY <1>1, <1>3, <1>9, BeginCallType DEF PreparePoll
<1>10. CASE PrepareSettled(w)
  <2>1. ops[o].status \in Words
    BY <1>2, <1>3 DEF Words
  <2>2. Return(w, ops[o].status) /\ UNCHANGED <<outbox, ops>>
    BY <1>10 DEF PrepareSettled
  <2>. QED BY <1>1, <1>3, <2>1, <2>2, ReturnFrame
<1>. QED BY <1>4, <1>5, <1>6, <1>7, <1>8, <1>9, <1>10 DEF Prepare

\* The word a process records is a status the operation may take.
LEMMA ObservedFacts ==
    ASSUME TypeOK, MidCall, NEW w \in Workers, workers[w].phase = "answered"
    PROVE  LET state == Observed(workers[w].word) IN
           /\ Kind(Env(w).row) \in {"external", "reconcile"}
           /\ state \in Statuses \ {"reserved"}
           /\ Kind(Env(w).row) = "external" => state \in UNCERTAIN
           /\ state \in UNCERTAIN \cup Settled
BY DEF MidCall, Observed, SubmissionStates, StatusStates, Settled, Statuses, UNCERTAIN

\* The outbox after an answer was recorded is well formed.
LEMMA RowAfterType ==
    ASSUME TypeOK, NEW r \in Rows, Kind(r) # "local", NEW state
    PROVE  RowAfter(r, state) \in [Rows -> RowRecord]
<1>1. outbox \in [Rows -> RowRecord]
  BY DEF TypeOK, RuntimeTypeOK
<1>2. [outbox EXCEPT ![r].state = "done", ![r].lease = "none"] \in [Rows -> RowRecord]
  BY <1>1 DEF RowRecord, RowStates, Leases
<1>. QED BY <1>1, <1>2, QueueReconciliationType DEF RowAfter

\* Recording an answer, or finding it stale (_finalize), keeps the state well formed.
LEMMA FinalizeType ==
    ASSUME TypeOK, MidCall, NEW w \in Workers, Finalize(w)
    PROVE  TypeOK' /\ MidCall'
<1>. DEFINE r == Env(w).row
            o == Subject(r)
            state == Observed(workers[w].word)
<1>1. /\ workers[w].phase = "answered" /\ workers[w].phase \in Phases
      /\ UNCHANGED <<mail, submits, effects>>
  BY DEF Finalize, Busy, Phases
<1>2. r \in Rows /\ o \in Ops /\ Kind(r) # "local" /\ workers[w].ref \in BOOLEAN
  BY <1>1, WorkerFacts, RowFacts, ObservedFacts
<1>3. /\ outbox \in [Rows -> RowRecord]
      /\ ops \in [Ops -> [status : Statuses, ref : BOOLEAN]]
  BY DEF TypeOK, RuntimeTypeOK
<1>4. CASE LoseFence(w)
  BY <1>1, <1>4, LoseFenceType
<1>5. CASE RecordStale(w)
  BY <1>1, <1>3, <1>5, ReturnFrame DEF RecordStale, Words
<1>6. CASE Record(w)
  <2>1. state \in Statuses /\ state \in Words
    BY <1>1, ObservedFacts DEF Words
  <2>2. /\ ops' = [ops EXCEPT ![o] = [status |-> state, ref |-> @.ref \/ workers[w].ref]]
        /\ outbox' = RowAfter(r, state)
        /\ Return(w, state)
    BY <1>6 DEF Record
  <2>. HIDE DEF state, r, o
  <2>3. ops' \in [Ops -> [status : Statuses, ref : BOOLEAN]]
    BY <1>2, <1>3, <2>1, <2>2
  <2>4. outbox' \in [Rows -> RowRecord]
    BY <1>2, <2>2, RowAfterType
  <2>. QED BY <1>1, <2>1, <2>2, <2>3, <2>4, ReturnFrame
<1>. QED BY <1>4, <1>5, <1>6 DEF Finalize

\* Recovering one row (recover_execution) keeps the state well formed.
LEMMA RecoverExecutionType ==
    ASSUME TypeOK, MidCall, NEW r \in Rows, RecoverExecution(r)
    PROVE  TypeOK' /\ MidCall'
<1>. DEFINE open == Receipts(r, {"running", "reconcile"})
            scheduled == ScheduleUncertain(r)
            closed == IF IsUncertain(r, ops) /\ Kind(r) # "reconcile"
                      THEN "reconcile" ELSE "blocked"
<1>1. /\ control \in ControlRecord
      /\ outbox \in [Rows -> RowRecord]
      /\ steps \in [Rows -> [Gens -> ReceiptRecord]]
  BY DEF TypeOK, RuntimeTypeOK
<1>2. scheduled \in [Rows -> RowRecord]
  BY <1>1, QueueReconciliationType DEF ScheduleUncertain, IsUncertain
<1>3. control.backend \in {"celery", "cloudflare"} /\ control.epoch \in Epochs
  BY <1>1 DEF ControlRecord
<1>4. outbox' \in [Rows -> RowRecord]
  <2>. DEFINE final == IF scheduled[r].state \in TERMINAL_STATES THEN scheduled[r].state
                       ELSE "ready"
  <2>1. outbox' = [scheduled EXCEPT ![r] =
                     [state |-> final, gen |-> scheduled[r].gen, lease |-> "none",
                      backend |-> control.backend, epoch |-> control.epoch]]
    BY DEF RecoverExecution
  <2>2. final \in RowStates
    BY DEF TERMINAL_STATES, RowStates
  <2>. HIDE DEF scheduled, final
  <2>. QED BY <1>2, <1>3, <2>1, <2>2 DEF RowRecord, Leases
<1>5. steps' \in [Rows -> [Gens -> ReceiptRecord]]
  <2>1. [state |-> closed, lease |-> "none"] \in ReceiptRecord
    BY DEF ReceiptRecord, ReceiptStates, Leases
  <2>2. steps' = [steps EXCEPT ![r] = [g \in Gens |->
                    IF g \in open THEN [state |-> closed, lease |-> "none"] ELSE steps[r][g]]]
    BY DEF RecoverExecution
  <2>. HIDE DEF closed, open
  <2>. QED BY <1>1, <2>1, <2>2
<1>6. control' \in ControlRecord
  <2>1. control' = [control EXCEPT !.owner = NoOwner, !.slot = "none"] \/ control' = control
    BY DEF RecoverExecution
  <2>. QED BY <1>1, <2>1 DEF ControlRecord, Leases
<1>7. UNCHANGED <<ops, workers, mail, submits, effects>>
  BY DEF RecoverExecution
<1>. QED BY <1>4, <1>5, <1>6, <1>7 DEF TypeOK, RuntimeTypeOK, MidCall, Env

\* The steps that only touch the control row, a lease or a deadline.
LEMMA ClockType ==
    ASSUME TypeOK, MidCall, RecoverSlot \/ Deadlines \/ Switch
    PROVE  TypeOK' /\ MidCall'
<1>1. /\ control \in ControlRecord
      /\ outbox \in [Rows -> RowRecord]
      /\ steps \in [Rows -> [Gens -> ReceiptRecord]]
  BY DEF TypeOK, RuntimeTypeOK
<1>2. CASE RecoverSlot
  BY <1>1, <1>2 DEF RecoverSlot, ControlRecord, Leases, TypeOK, RuntimeTypeOK, MidCall, Env
<1>3. CASE SlotDeadline
  BY <1>1, <1>3 DEF SlotDeadline, ExpireSlot, Frame, ControlRecord, Leases, TypeOK,
                    RuntimeTypeOK, MidCall, Env
<1>4. ASSUME NEW r \in Rows, RowDeadline(r)
      PROVE  TypeOK' /\ MidCall'
  BY <1>1, <1>4 DEF RowDeadline, ExpireRow, Frame, RowRecord, Leases, TypeOK,
                    RuntimeTypeOK, MidCall, Env
<1>5. ASSUME NEW r \in Rows, StepDeadline(r)
      PROVE  TypeOK' /\ MidCall'
  BY <1>1, <1>5 DEF StepDeadline, ExpireStep, Frame, ReceiptRecord, Leases, TypeOK,
                    RuntimeTypeOK, MidCall, Env
<1>6. CASE Switch
  <2>1. PICK b \in Backends, on \in BOOLEAN : SetExecutionRuntime(b, on)
    BY <1>6 DEF Switch
  <2>2. control.epoch + 1 \in Epochs
    BY <1>1, <2>1, BoundsAssumption DEF SetExecutionRuntime, ControlRecord, Epochs
  <2>3. control' \in ControlRecord
    BY <1>1, <2>1, <2>2, BackendsAssumption DEF SetExecutionRuntime, ControlRecord
  <2>. QED BY <1>1, <1>6, <2>1, <2>3
           DEF Switch, SetExecutionRuntime, Frame, TypeOK, RuntimeTypeOK, MidCall, Env
<1>. QED BY <1>2, <1>3, <1>4, <1>5, <1>6 DEF Deadlines

\* Every step of the system keeps the state well formed.
LEMMA NextType == TypeOK /\ MidCall /\ [Next]_vars => TypeOK' /\ MidCall'
<1>. SUFFICES ASSUME TypeOK, MidCall, [Next]_vars
              PROVE  TypeOK' /\ MidCall'
  OBVIOUS
<1>1. CASE Transport
  <2>1. ASSUME NEW r \in Rows, Dispatch(r) \/ Sweep(r) \/ ClaimCycle(r)
        PROVE  TypeOK' /\ MidCall'
    BY <2>1, ClaimType DEF Dispatch, Sweep, ClaimCycle
  <2>2. ASSUME NEW e \in mail, PublishFails(e) \/ PublicationFailed(e) \/ StatusRead(e)
        PROVE  TypeOK' /\ MidCall'
    BY <2>2, ReportType
  <2>3. ASSUME NEW e \in mail, RunTask(e)
        PROVE  TypeOK' /\ MidCall'
    BY <2>3, RunTaskType
  <2>4. ASSUME NEW e \in mail, NEW w \in Workers, StartStep(w, e) \/ StartTask(w, e)
        PROVE  TypeOK' /\ MidCall'
    BY <2>4, StartStepType, StartTaskType
  <2>. QED BY <1>1, <2>1, <2>2, <2>3, <2>4 DEF Transport
<1>2. CASE Process
  <2>. SUFFICES ASSUME NEW w \in Workers,
                       \/ RunStep(w) \/ Prepare(w) \/ CallSubmit(w) \/ CallStatus(w)
                       \/ Finalize(w) \/ WrapUp(w) \/ FailStep(w) \/ Crash(w)
                PROVE  TypeOK' /\ MidCall'
    BY <1>2 DEF Process
  <2>. QED BY RunStepType, PrepareType, CallType, FinalizeType, EndStepType
<1>3. CASE Recovery
  BY <1>3, ClockType, RecoverExecutionType DEF Recovery
<1>4. CASE Deadlines \/ Switch
  BY <1>4, ClockType
<1>5. CASE UNCHANGED vars
  BY <1>5 DEF vars, TypeOK, RuntimeTypeOK, MidCall, Env
<1>. QED BY <1>1, <1>2, <1>3, <1>4, <1>5 DEF Next

\* In every behaviour of the durable core, for every instance: all tables,
\* processes and messages are well formed, and a process that waits for a
\* provider holds an intent of the kind that makes that call.
THEOREM TypeCorrect == Spec => [](TypeOK /\ MidCall)
BY InitType, NextType, PTL DEF Spec

----------------------------------------------------------------------------
(* How rows move: nothing finished is reopened, and a status-only child    *)
(* appears only with the end of its submitting intent.                     *)

RowsAdvance ==
    /\ \A r \in Rows : outbox[r].state \in TERMINAL_STATES => outbox'[r].state = outbox[r].state
    /\ \A o \in Ops : outbox'[Child(o)].state # "absent" =>
         outbox[Child(o)].state # "absent" \/ outbox'[Parent(o)].state = "done"

\* A step that writes one row, which was ready or dispatched.
LEMMA OneRowAdvances ==
    ASSUME NEW r \in Rows, outbox[r].state \in {"ready", "dispatched"},
           \A q \in Rows : q # r => outbox'[q] = outbox[q]
    PROVE  RowsAdvance
BY IntentFacts DEF RowsAdvance, TERMINAL_STATES

\* A step that writes no row, or leaves the state of every row alone.
LEMMA SameStatesAdvance ==
    ASSUME \A q \in Rows : outbox'[q].state = outbox[q].state
    PROVE  RowsAdvance
BY IntentFacts DEF RowsAdvance

\* What queueing the status-only child does to the rows.
LEMMA QueueReconciliationRows ==
    ASSUME TypeOK, NEW r \in Rows, Kind(r) # "local", outbox[r].state = "dispatched"
    PROVE  LET box == QueueReconciliation(r, outbox)
               c == Child(Subject(r)) IN
           /\ box[r].state = "done"
           /\ c # r /\ outbox[c].state # "absent" => box[c] = outbox[c]
           /\ \A q \in Rows : q # r /\ q # c => box[q] = outbox[q]
<1>. DEFINE c == Child(Subject(r))
            queued == IF outbox[c].state # "absent" THEN outbox
                      ELSE [outbox EXCEPT ![c] = [state |-> "ready", gen |-> 0, lease |-> "none",
                                                  backend |-> outbox[r].backend,
                                                  epoch |-> outbox[r].epoch]]
<1>1. outbox \in [Rows -> RowRecord] /\ c \in Rows
  BY RowFacts, IntentFacts DEF TypeOK, RuntimeTypeOK
<1>2. /\ DOMAIN queued = Rows
      /\ outbox[c].state # "absent" => queued = outbox
      /\ \A q \in Rows : q # c => queued[q] = outbox[q]
  BY <1>1
<1>3. queued[r] \in RowRecord
  <2>1. CASE r = c
    <3>1. queued = outbox
      BY <2>1
    <3>. QED BY <3>1, <1>1
  <2>2. CASE r # c
    BY <2>2, <1>1, <1>2
  <2>. QED BY <2>1, <2>2
<1>4. QueueReconciliation(r, outbox) = [queued EXCEPT ![r].state = "done", ![r].lease = "none"]
  BY DEF QueueReconciliation
<1>. HIDE DEF queued
<1>5. [queued EXCEPT ![r].state = "done", ![r].lease = "none"][r].state = "done"
  BY <1>2, <1>3 DEF RowRecord
<1>6. \A q \in Rows : q # r =>
        [queued EXCEPT ![r].state = "done", ![r].lease = "none"][q] = queued[q]
  BY <1>2
<1>. HIDE DEF c
<1>. QED BY <1>1, <1>2, <1>4, <1>5, <1>6 DEF c

\* Handing an operation to its child never takes a finished row back.
LEMMA QueueReconciliationAdvances ==
    ASSUME TypeOK, NEW r \in Rows, Kind(r) # "local", outbox[r].state = "dispatched",
           outbox'[r].state = "done",
           \A q \in Rows : q # r => outbox'[q] = QueueReconciliation(r, outbox)[q]
    PROVE  RowsAdvance
<1>. DEFINE o == Subject(r)
<1>1. o \in Ops /\ (r = Parent(o) \/ r = Child(o))
  BY RowFacts
<1>2. \A q \in Rows : q # r /\ q # Child(o) => outbox'[q] = outbox[q]
  BY QueueReconciliationRows
<1>3. Child(o) # r /\ outbox[Child(o)].state # "absent" => outbox'[Child(o)] = outbox[Child(o)]
  BY <1>1, IntentFacts, QueueReconciliationRows
<1>4. ASSUME NEW q \in Rows, outbox[q].state \in TERMINAL_STATES
      PROVE  outbox'[q].state = outbox[q].state
  BY <1>2, <1>3, <1>4 DEF TERMINAL_STATES
<1>5. ASSUME NEW p \in Ops, outbox'[Child(p)].state # "absent",
             outbox[Child(p)].state = "absent"
      PROVE  outbox'[Parent(p)].state = "done"
  <2>1. Child(p) \in Rows /\ Child(p) = Child(o)
    BY <1>2, <1>5, IntentFacts
  <2>2. r = Parent(p)
    BY <1>1, <1>5, <2>1, IntentFacts
  <2>. QED BY <2>2
<1>. QED BY <1>4, <1>5 DEF RowsAdvance

\* Every step of the system leaves finished rows in the state they finished in.
LEMMA NextAdvances == TypeOK /\ MidCall /\ [Next]_vars => RowsAdvance
<1>. SUFFICES ASSUME TypeOK, MidCall, [Next]_vars
              PROVE  RowsAdvance
  OBVIOUS
<1>0. outbox \in [Rows -> RowRecord] /\ \A e \in mail : e.row \in Rows
  BY DEF TypeOK, RuntimeTypeOK, Envelopes
<1>1. ASSUME NEW r \in Rows, Dispatch(r) \/ Sweep(r) \/ ClaimCycle(r)
      PROVE  RowsAdvance
  <2>1. /\ outbox[r].state \in {"ready", "dispatched"}
        /\ \A q \in Rows : q # r => outbox'[q] = outbox[q]
    BY <1>0, <1>1 DEF Dispatch, Sweep, ClaimCycle, Claim, ClaimRow, Claimable
  <2>. QED BY <2>1, OneRowAdvances
<1>2. ASSUME NEW e \in mail, PublishFails(e) \/ PublicationFailed(e) \/ StatusRead(e)
      PROVE  RowsAdvance
  <2>1. /\ outbox[e.row].state = "dispatched"
        /\ \A q \in Rows : q # e.row => outbox'[q] = outbox[q]
    BY <1>0, <1>2 DEF PublishFails, PublicationFailed, StatusRead, ReleaseClaim,
                      RecordPublication, ReadStepStatus, ReturnToReady
  <2>. QED BY <1>0, <2>1, OneRowAdvances
<1>3. ASSUME NEW r \in Rows, outbox[r].state = "dispatched", RunIntent(r)
      PROVE  RowsAdvance
  <2>1. \A q \in Rows : q # r => outbox'[q] = outbox[q]
    BY <1>0, <1>3 DEF RunIntent, CloseRow
  <2>. QED BY <1>3, <2>1, OneRowAdvances
<1>4. ASSUME NEW e \in mail, NEW w \in Workers, StartStep(w, e)
      PROVE  RowsAdvance
  <2>1. /\ outbox[e.row].state = "dispatched"
        /\ \A q \in Rows : q # e.row => outbox'[q] = outbox[q]
    BY <1>0, <1>4 DEF StartStep, ClaimExecutionStep
  <2>. QED BY <1>0, <2>1, OneRowAdvances
<1>5. CASE UNCHANGED outbox
  BY <1>5, SameStatesAdvance
<1>6. ASSUME NEW w \in Workers, RunStep(w)
      PROVE  RowsAdvance
  <2>1. Env(w).row \in Rows
    BY <1>6, WorkerFacts DEF RunStep, Busy, Phases
  <2>2. \/ outbox[Env(w).row].state = "dispatched" /\ RunIntent(Env(w).row)
        \/ UNCHANGED outbox
    BY <1>6 DEF RunStep
  <2>. QED BY <1>3, <1>5, <2>1, <2>2
<1>7. ASSUME NEW w \in Workers, Prepare(w)
      PROVE  RowsAdvance
  <2>1. Env(w).row \in Rows /\ Kind(Env(w).row) # "local"
    BY <1>7, WorkerFacts DEF Prepare, Busy, Phases
  <2>2. CASE PrepareUncertain(w) /\ Kind(Env(w).row) = "external"
    <3>1. /\ outbox[Env(w).row].state = "dispatched"
          /\ outbox' = QueueReconciliation(Env(w).row, outbox)
      BY <2>2 DEF PrepareUncertain
    <3>. QED BY <2>1, <3>1, QueueReconciliationRows, QueueReconciliationAdvances
  <2>3. CASE ~(PrepareUncertain(w) /\ Kind(Env(w).row) = "external")
    <3>1. UNCHANGED outbox
      BY <1>7, <2>3 DEF Prepare, LoseFence, PrepareStale, PrepareBlocked, PrepareSubmit,
                        PrepareUncertain, PreparePoll, PrepareSettled
    <3>. QED BY <1>5, <3>1
  <2>. QED BY <2>2, <2>3
<1>8. ASSUME NEW w \in Workers, Finalize(w)
      PROVE  RowsAdvance
  <2>1. Env(w).row \in Rows /\ Kind(Env(w).row) # "local"
    BY <1>8, WorkerFacts, ObservedFacts DEF Finalize, Busy, Phases
  <2>2. CASE Record(w)
    <3>1. /\ outbox[Env(w).row].state = "dispatched"
          /\ outbox' = RowAfter(Env(w).row, Observed(workers[w].word))
      BY <2>2 DEF Record
    <3>2. CASE Kind(Env(w).row) = "external"
      <4>1. outbox' = QueueReconciliation(Env(w).row, outbox)
        BY <3>1, <3>2 DEF RowAfter
      <4>. QED BY <2>1, <3>1, <4>1, QueueReconciliationRows, QueueReconciliationAdvances
    <3>3. CASE Kind(Env(w).row) # "external"
      <4>1. \A q \in Rows : q # Env(w).row => outbox'[q] = outbox[q]
        BY <1>0, <3>1, <3>3 DEF RowAfter
      <4>. QED BY <2>1, <3>1, <4>1, OneRowAdvances
    <3>. QED BY <3>2, <3>3
  <2>3. CASE ~Record(w)
    BY <1>8, <1>5, <2>3 DEF Finalize, LoseFence, RecordStale
  <2>. QED BY <2>2, <2>3
<1>9. ASSUME NEW r \in Rows, RecoverExecution(r)
      PROVE  RowsAdvance
  <2>1. /\ outbox[r].state = "dispatched"
        /\ ScheduleUncertain(r) \in [Rows -> RowRecord]
        /\ \A q \in Rows : q # r => outbox'[q] = ScheduleUncertain(r)[q]
        /\ outbox'[r].state = IF ScheduleUncertain(r)[r].state \in TERMINAL_STATES
                              THEN ScheduleUncertain(r)[r].state ELSE "ready"
    <3>1. ScheduleUncertain(r) \in [Rows -> RowRecord]
      BY <1>0, <1>9, QueueReconciliationType DEF ScheduleUncertain, IsUncertain
    <3>. HIDE DEF ScheduleUncertain
    <3>. QED BY <1>9, <3>1 DEF RecoverExecution, Overdue
  <2>2. CASE IsUncertain(r, ops)
    <3>1. Kind(r) # "local" /\ ScheduleUncertain(r) = QueueReconciliation(r, outbox)
      BY <2>2 DEF ScheduleUncertain, IsUncertain
    <3>2. outbox'[r].state = "done"
      BY <1>9, <2>1, <3>1, QueueReconciliationRows DEF TERMINAL_STATES
    <3>. QED BY <1>9, <2>1, <3>1, <3>2, QueueReconciliationAdvances
  <2>3. CASE ~IsUncertain(r, ops)
    <3>1. ScheduleUncertain(r) = outbox
      BY <2>3 DEF ScheduleUncertain
    <3>. QED BY <1>9, <2>1, <3>1, OneRowAdvances
  <2>. QED BY <2>2, <2>3
<1>10. ASSUME NEW r \in Rows, RowDeadline(r)
       PROVE  RowsAdvance
  <2>1. /\ outbox[r].state = "dispatched"
        /\ \A q \in Rows : q # r => outbox'[q] = outbox[q]
    BY <1>0, <1>10 DEF RowDeadline, ExpireRow
  <2>. QED BY <2>1, OneRowAdvances
<1>11. CASE Transport
  <2>1. ASSUME NEW e \in mail, RunTask(e)
        PROVE  RowsAdvance
    BY <1>0, <1>3, <2>1 DEF RunTask, Deliverable
  <2>2. ASSUME NEW e \in mail, NEW w \in Workers, StartTask(w, e)
        PROVE  RowsAdvance
    BY <1>5, <2>2 DEF StartTask
  <2>. QED BY <1>1, <1>2, <1>4, <1>11, <2>1, <2>2 DEF Transport
<1>12. CASE Process
  <2>1. ASSUME NEW w \in Workers,
               CallSubmit(w) \/ CallStatus(w) \/ WrapUp(w) \/ FailStep(w) \/ Crash(w)
        PROVE  RowsAdvance
    BY <1>5, <2>1 DEF CallSubmit, CallStatus, WrapUp, FailStep, Crash
  <2>. QED BY <1>6, <1>7, <1>8, <1>12, <2>1 DEF Process
<1>13. CASE RecoverSlot \/ SlotDeadline \/ Switch \/ \E r \in Rows : StepDeadline(r)
  BY <1>5, <1>13 DEF RecoverSlot, SlotDeadline, ExpireSlot, Switch, SetExecutionRuntime,
                     StepDeadline, ExpireStep
<1>. QED BY <1>5, <1>9, <1>10, <1>11, <1>12, <1>13 DEF Next, Recovery, Deadlines, vars

\* A row that is done or failed never leaves that state, in any instance and
\* any interleaving of deliveries, sweeps, recoveries and crashes.
THEOREM TerminalRowsAreFinal == Spec => TerminalRowsFinal
<1>1. TypeOK /\ MidCall /\ [Next]_vars =>
        [\A r \in Rows : outbox[r].state \in TERMINAL_STATES =>
                            outbox'[r].state = outbox[r].state]_vars
  BY NextAdvances DEF RowsAdvance
<1>. QED BY <1>1, TypeCorrect, PTL DEF Spec, TerminalRowsFinal

----------------------------------------------------------------------------
(* The paid operation: CallsAgree is inductive, and every step of the core *)
(* is a step of PaidOperation or leaves the promise alone.                 *)

Calling == {"submit", "status", "answered"}

\* Nothing is submitted, referenced or in a call at the start.
LEMMA InitAgrees == Init => CallsAgree
<1>. SUFFICES ASSUME Init PROVE CallsAgree
  OBVIOUS
<1>1. \A o \in Ops : /\ submits[o] = 0
                     /\ ops[o].status = "reserved" /\ ops[o].ref = FALSE
                     /\ outbox[Child(o)].state = "absent"
  BY IntentFacts DEF Init, RuntimeInit
<1>2. \A w \in Workers : workers[w].phase = "idle"
  BY DEF Init, Idle
<1>. QED BY <1>1, <1>2 DEF CallsAgree, Settled

\* A step that records nothing of an operation and starts no provider call.
LEMMA QuietAgrees ==
    ASSUME TypeOK, CallsAgree, RowsAdvance, UNCHANGED <<ops, submits>>,
           \A w \in Workers : workers'[w] = workers[w] \/ workers'[w].phase \notin Calling
    PROVE  CallsAgree' /\ UNCHANGED PaidPhase
<1>1. \A o \in Ops : Parent(o) \in Rows /\ Child(o) \in Rows
  BY IntentFacts
<1>2. (\A o \in Ops :
         /\ submits[o] \in {0, 1}
         /\ ops[o].status = "reserved" => submits[o] = 0
         /\ ops[o].ref => submits[o] = 1
         /\ ops[o].status \in Settled =>
              /\ submits[o] = 1
              /\ outbox[Parent(o)].state = "done"
              /\ outbox[Child(o)].state = "done"
         /\ outbox[Child(o)].state # "absent" => outbox[Parent(o)].state = "done")'
  BY <1>1 DEF CallsAgree, RowsAdvance, TERMINAL_STATES, Parent, Child
<1>3. CallsAgree'
  BY <1>2 DEF CallsAgree, Calling, Env
<1>4. UNCHANGED PaidPhase
  BY DEF PaidPhase
<1>. QED BY <1>3, <1>4

\* A process committed to one thing knows its operation.
LEMMA OperationOf ==
    ASSUME TypeOK, NEW w \in Workers, workers[w].phase \in Phases, Kind(Env(w).row) # "local"
    PROVE  /\ Env(w).row \in Rows
           /\ Subject(Env(w).row) \in Ops
           /\ Kind(Env(w).row) = "external" => Env(w).row = Parent(Subject(Env(w).row))
           /\ Kind(Env(w).row) = "reconcile" => Env(w).row = Child(Subject(Env(w).row))
           /\ ops[Subject(Env(w).row)].status \in Statuses
<1>1. Env(w).row \in Rows
  BY WorkerFacts
<1>. QED BY <1>1, RowFacts DEF TypeOK

\* A process around a provider call holds an intent of a declared operation.
LEMMA CallingOperation ==
    ASSUME TypeOK, MidCall, NEW w \in Workers, workers[w].phase \in Calling
    PROVE  Subject(Env(w).row) \in Ops
<1>1. Env(w).row \in Rows
  BY WorkerFacts DEF Calling, Phases
<1>2. Kind(Env(w).row) # "local"
  BY DEF Calling, MidCall
<1>. QED BY <1>1, <1>2, RowFacts

\* A step that changes what is known of one operation already submitted.
LEMMA ChangedAgrees ==
    ASSUME TypeOK, MidCall, CallsAgree, RowsAdvance, UNCHANGED submits,
           NEW o \in Ops,
           \A p \in Ops : p # o => ops'[p] = ops[p],
           ops'[o].status # "reserved",
           ops'[o].ref => submits[o] = 1,
           ops'[o].status \in Settled =>
             /\ submits[o] = 1
             /\ outbox'[Parent(o)].state = "done"
             /\ outbox'[Child(o)].state = "done",
           \A w \in Workers : workers'[w] = workers[w] \/ workers'[w].phase \notin Calling
    PROVE  CallsAgree'
<1>1. ASSUME NEW p \in Ops
      PROVE  /\ submits'[p] \in {0, 1}
             /\ ops'[p].status = "reserved" => submits'[p] = 0
             /\ ops'[p].ref => submits'[p] = 1
             /\ ops'[p].status \in Settled =>
                  /\ submits'[p] = 1
                  /\ outbox'[Parent(p)].state = "done"
                  /\ outbox'[Child(p)].state = "done"
             /\ outbox'[Child(p)].state # "absent" => outbox'[Parent(p)].state = "done"
  <2>1. Parent(p) \in Rows /\ Child(p) \in Rows
    BY IntentFacts
  <2>2. /\ outbox[Parent(p)].state = "done" => outbox'[Parent(p)].state = "done"
        /\ outbox[Child(p)].state = "done" => outbox'[Child(p)].state = "done"
    BY <2>1 DEF RowsAdvance, TERMINAL_STATES
  <2>3. outbox'[Child(p)].state # "absent" => outbox'[Parent(p)].state = "done"
    BY <2>2 DEF RowsAdvance, CallsAgree
  <2>. QED BY <2>2, <2>3 DEF CallsAgree
<1>2. ASSUME NEW w \in Workers
      PROVE  /\ workers'[w].phase \in Calling =>
                  ops'[Subject(workers'[w].env.row)].status # "reserved"
             /\ workers'[w].phase = "submit" => submits'[Subject(workers'[w].env.row)] = 0
             /\ workers'[w].phase \in {"status", "answered"} =>
                  submits'[Subject(workers'[w].env.row)] = 1
  <2>1. CASE workers'[w].phase \notin Calling
    BY <2>1 DEF Calling
  <2>2. CASE workers'[w].phase \in Calling
    <3>1. workers'[w] = workers[w]
      BY <2>2
    <3>2. workers[w].phase \in Calling
      BY <2>2, <3>1
    <3>3. Subject(Env(w).row) \in Ops
      BY <3>2, CallingOperation
    <3>4. ops[Subject(Env(w).row)].status # "reserved"
      BY <3>2 DEF CallsAgree, Calling
    <3>5. ops'[Subject(Env(w).row)].status # "reserved"
      BY <3>3, <3>4
    <3>. QED BY <3>1, <3>2, <3>5 DEF CallsAgree, Calling, Env
  <2>. QED BY <2>1, <2>2
<1>3. ASSUME NEW v \in Workers, NEW w \in Workers,
             workers'[v].phase = "submit", workers'[w].phase = "submit",
             Subject(workers'[v].env.row) = Subject(workers'[w].env.row)
      PROVE  v = w
  <2>1. workers'[v] = workers[v] /\ workers'[w] = workers[w]
    BY <1>3 DEF Calling
  <2>. QED BY <1>3, <2>1 DEF CallsAgree, Env
<1>. QED BY <1>1, <1>2, <1>3 DEF CallsAgree, Calling, Env, Parent, Child

\* Preparing keeps operation, intents and processes in agreement: only a reserved operation starts a submission, and its submitter is the only one.
LEMMA PrepareAgrees ==
    ASSUME TypeOK, MidCall, CallsAgree, RowsAdvance, NEW w \in Workers, Prepare(w)
    PROVE  CallsAgree' /\ (UNCHANGED PaidPhase \/ \E o \in Ops : Paid!Intend(o)) /\ UNCHANGED submits
<1>. DEFINE r == Env(w).row
            o == Subject(r)
<1>1. /\ workers[w].phase = "claimed" /\ workers[w].phase \in Phases
      /\ UNCHANGED <<mail, submits, effects>>
      /\ Kind(r) # "local"
  BY DEF Prepare, Busy, Phases
<1>2. /\ r \in Rows /\ o \in Ops
      /\ ops \in [Ops -> [status : Statuses, ref : BOOLEAN]]
      /\ workers \in [Workers -> WorkerRecord \cup {Idle}]
      /\ \A p \in Ops : Parent(p) \in Rows /\ Child(p) \in Rows
  BY <1>1, OperationOf, IntentFacts DEF TypeOK
<1>3. ASSUME NEW word \in Words, Return(w, word)
      PROVE  /\ workers'[w].phase \notin Calling
             /\ \A v \in Workers : v # w => workers'[v] = workers[v]
  BY <1>1, <1>3, ReturnType DEF Calling
<1>4. CASE LoseFence(w) \/ PrepareStale(w) \/ PrepareBlocked(w) \/ PrepareSettled(w)
  <2>1. UNCHANGED ops
    BY <1>4 DEF LoseFence, PrepareStale, PrepareBlocked, PrepareSettled
  <2>2. \/ workers' = [workers EXCEPT ![w] = Idle]
        \/ \E word \in Words : Return(w, word)
    BY <1>2, <1>4 DEF LoseFence, PrepareStale, PrepareBlocked, PrepareSettled, Become, Words
  <2>3. \A v \in Workers : workers'[v] = workers[v] \/ workers'[v].phase \notin Calling
    BY <1>2, <1>3, <2>2 DEF Idle, Calling
  <2>. QED BY <1>1, <2>1, <2>3, QuietAgrees
<1>5. CASE PrepareSubmit(w)
  <2>1. /\ ops[o].status = "reserved"
        /\ ops' = [ops EXCEPT ![o].status = "submitting"]
        /\ workers' = [workers EXCEPT ![w] = At("submit", Env(w), "nothing", FALSE)]
        /\ UNCHANGED outbox
    BY <1>5 DEF PrepareSubmit, Become
  <2>2. /\ ops'[o].status = "submitting" /\ ops'[o].ref = ops[o].ref
        /\ \A p \in Ops : p # o => ops'[p] = ops[p]
        /\ workers'[w].phase = "submit" /\ workers'[w].env = Env(w)
        /\ \A v \in Workers : v # w => workers'[v] = workers[v]
    BY <1>2, <2>1 DEF At, Env
  <2>3. submits[o] = 0 /\ ~ops[o].ref
    BY <1>2, <2>1 DEF CallsAgree
  <2>4. \A v \in Workers : workers[v].phase \in Calling => Subject(Env(v).row) # o
    BY <2>1 DEF CallsAgree, Calling
  <2>5. CallsAgree'
    <3>1. \A p \in Ops :
            /\ submits'[p] \in {0, 1}
            /\ ops'[p].status = "reserved" => submits'[p] = 0
            /\ ops'[p].ref => submits'[p] = 1
            /\ ops'[p].status \in Settled =>
                 /\ submits'[p] = 1
                 /\ outbox'[Parent(p)].state = "done"
                 /\ outbox'[Child(p)].state = "done"
            /\ outbox'[Child(p)].state # "absent" => outbox'[Parent(p)].state = "done"
      BY <1>1, <2>1, <2>2, <2>3 DEF CallsAgree, Settled
    <3>2. \A v \in Workers :
            /\ workers'[v].phase \in Calling =>
                 ops'[Subject(workers'[v].env.row)].status # "reserved"
            /\ workers'[v].phase = "submit" => submits'[Subject(workers'[v].env.row)] = 0
            /\ workers'[v].phase \in {"status", "answered"} =>
                 submits'[Subject(workers'[v].env.row)] = 1
      <4>1. ASSUME NEW v \in Workers, v # w
            PROVE  /\ workers'[v].phase \in Calling =>
                        ops'[Subject(workers'[v].env.row)].status # "reserved"
                   /\ workers'[v].phase = "submit" => submits'[Subject(workers'[v].env.row)] = 0
                   /\ workers'[v].phase \in {"status", "answered"} =>
                        submits'[Subject(workers'[v].env.row)] = 1
        <5>1. workers'[v] = workers[v]
          BY <2>2, <4>1
        <5>2. workers[v].phase \in Calling =>
                ops'[Subject(Env(v).row)].status = ops[Subject(Env(v).row)].status
          BY <2>2, <2>4, CallingOperation
        <5>. QED BY <1>1, <5>1, <5>2 DEF CallsAgree, Calling, Env
      <4>. QED BY <1>1, <2>2, <2>3, <4>1 DEF Env
    <3>3. \A u, v \in Workers :
            /\ workers'[u].phase = "submit" /\ workers'[v].phase = "submit"
            /\ Subject(workers'[u].env.row) = Subject(workers'[v].env.row)
            => u = v
      BY <2>2, <2>4 DEF CallsAgree, Calling, Env
    <3>. QED BY <3>1, <3>2, <3>3 DEF CallsAgree, Calling, Parent, Child, Subject, Env
  <2>6. Paid!Intend(o)
    BY <1>1, <1>2, <2>1 DEF Paid!Intend, PaidPhase, UNCERTAIN
  <2>. QED BY <1>1, <1>2, <2>5, <2>6
<1>6. CASE PrepareUncertain(w)
  <2>1. /\ ops[o].status \in UNCERTAIN
        /\ ops' = [ops EXCEPT ![o].status = Interrupted(@)]
        /\ Return(w, "unknown")
    BY <1>6 DEF PrepareUncertain
  <2>2. Interrupted(ops[o].status) \in UNCERTAIN
    BY <2>1 DEF Interrupted, UNCERTAIN
  <2>3. /\ ops'[o].status \in UNCERTAIN /\ ops'[o].ref = ops[o].ref
        /\ \A p \in Ops : p # o => ops'[p] = ops[p]
    BY <1>2, <2>1, <2>2
  <2>4. /\ ops[o].status # "reserved"
        /\ ops'[o].status # "reserved"
        /\ ops'[o].status \notin Settled
        /\ ops'[o].ref => submits[o] = 1
    BY <1>2, <2>1, <2>3 DEF UNCERTAIN, Settled, CallsAgree
  <2>5. \A v \in Workers : workers'[v] = workers[v] \/ workers'[v].phase \notin Calling
    BY <1>3, <2>1 DEF Words, Statuses
  <2>6. CallsAgree'
    BY <1>1, <1>2, <2>3, <2>4, <2>5, ChangedAgrees
  <2>7. UNCHANGED PaidPhase
    BY <1>2, <2>1, <2>3, <2>4 DEF PaidPhase
  <2>. QED BY <1>1, <2>6, <2>7
<1>7. CASE PreparePoll(w)
  <2>1. /\ ops[o].status # "reserved" /\ ops[o].ref
        /\ workers' = [workers EXCEPT ![w] = At("status", Env(w), "nothing", TRUE)]
        /\ UNCHANGED <<outbox, ops>>
    BY <1>7 DEF PreparePoll, Become, UNCERTAIN
  <2>2. /\ workers'[w].phase = "status" /\ workers'[w].env = Env(w)
        /\ \A v \in Workers : v # w => workers'[v] = workers[v]
    BY <1>2, <2>1 DEF At
  <2>3. submits[o] = 1
    BY <1>2, <2>1 DEF CallsAgree
  <2>4. CallsAgree'
    <3>1. \A v \in Workers :
            /\ workers'[v].phase \in Calling =>
                 ops[Subject(workers'[v].env.row)].status # "reserved"
            /\ workers'[v].phase = "submit" => submits[Subject(workers'[v].env.row)] = 0
            /\ workers'[v].phase \in {"status", "answered"} =>
                 submits[Subject(workers'[v].env.row)] = 1
      <4>1. ASSUME NEW v \in Workers, v # w
            PROVE  /\ workers[v].phase \in Calling =>
                        ops[Subject(workers[v].env.row)].status # "reserved"
                   /\ workers[v].phase = "submit" => submits[Subject(workers[v].env.row)] = 0
                   /\ workers[v].phase \in {"status", "answered"} =>
                        submits[Subject(workers[v].env.row)] = 1
        BY DEF CallsAgree, Calling, Env
      <4>2. ASSUME NEW v \in Workers, v # w
            PROVE  /\ workers'[v].phase \in Calling =>
                        ops[Subject(workers'[v].env.row)].status # "reserved"
                   /\ workers'[v].phase = "submit" => submits[Subject(workers'[v].env.row)] = 0
                   /\ workers'[v].phase \in {"status", "answered"} =>
                        submits[Subject(workers'[v].env.row)] = 1
        BY <2>2, <4>1, <4>2
      <4>. QED BY <2>1, <2>2, <2>3, <4>2
    <3>2. \A u, v \in Workers :
            /\ workers'[u].phase = "submit" /\ workers'[v].phase = "submit"
            /\ Subject(workers'[u].env.row) = Subject(workers'[v].env.row)
            => u = v
      BY <2>2 DEF CallsAgree, Env
    <3>. QED BY <1>1, <2>1, <3>1, <3>2 DEF CallsAgree, Calling, Env, Parent, Child
  <2>5. UNCHANGED PaidPhase
    BY <2>1 DEF PaidPhase
  <2>. QED BY <1>1, <2>4, <2>5
<1>. QED BY <1>4, <1>5, <1>6, <1>7 DEF Prepare

\* A provider call is counted where CallsAgree expects it.
LEMMA CallAgrees ==
    ASSUME TypeOK, MidCall, CallsAgree, NEW w \in Workers, CallSubmit(w) \/ CallStatus(w)
    PROVE  CallsAgree' /\ UNCHANGED PaidPhase
           /\ (UNCHANGED submits \/ \E o \in Ops : Paid!Call(o))
<1>. DEFINE o == Subject(Env(w).row)
<1>1. /\ workers[w].phase \in {"submit", "status"} /\ o \in Ops
      /\ workers \in [Workers -> WorkerRecord \cup {Idle}]
      /\ submits \in [Ops -> Nat]
      /\ ops[o].status \in Statuses
      /\ UNCHANGED <<ops, outbox>>
  BY CallingOperation DEF CallSubmit, CallStatus, Busy, Calling, TypeOK
<1>2. /\ workers'[w].phase = "answered" /\ workers'[w].env = Env(w)
      /\ \A v \in Workers : v # w => workers'[v] = workers[v]
  BY <1>1 DEF CallSubmit, CallStatus, Become, At
<1>3. CASE CallSubmit(w)
  <2>1. workers[w].phase = "submit" /\ submits' = [submits EXCEPT ![o] = @ + 1]
    BY <1>3 DEF CallSubmit, Busy
  <2>2. submits[o] = 0 /\ ops[o].status # "reserved"
    BY <2>1 DEF CallsAgree
  <2>3. submits'[o] = 1 /\ \A p \in Ops : p # o => submits'[p] = submits[p]
    BY <1>1, <2>1, <2>2
  <2>4. ASSUME NEW p \in Ops
        PROVE  /\ submits'[p] \in {0, 1}
               /\ ops[p].status = "reserved" => submits'[p] = 0
               /\ ops[p].ref => submits'[p] = 1
               /\ ops[p].status \in Settled =>
                    /\ submits'[p] = 1
                    /\ outbox[Parent(p)].state = "done"
                    /\ outbox[Child(p)].state = "done"
               /\ outbox[Child(p)].state # "absent" => outbox[Parent(p)].state = "done"
    BY <2>2, <2>3 DEF CallsAgree
  <2>5. ASSUME NEW v \in Workers
        PROVE  /\ workers'[v].phase \in Calling =>
                    ops[Subject(workers'[v].env.row)].status # "reserved"
               /\ workers'[v].phase = "submit" => submits'[Subject(workers'[v].env.row)] = 0
               /\ workers'[v].phase \in {"status", "answered"} =>
                    submits'[Subject(workers'[v].env.row)] = 1
    <3>1. CASE v = w
      BY <1>2, <2>2, <2>3, <3>1
    <3>2. CASE v # w /\ workers[v].phase \in Calling
      <4>1. workers'[v] = workers[v] /\ Subject(Env(v).row) \in Ops
        BY <1>2, <3>2, CallingOperation
      <4>2. /\ ops[Subject(Env(v).row)].status # "reserved"
            /\ workers[v].phase = "submit" => submits[Subject(Env(v).row)] = 0
            /\ workers[v].phase # "submit" => submits[Subject(Env(v).row)] = 1
        BY <3>2 DEF CallsAgree, Calling
      <4>3. workers[v].phase = "submit" => Subject(Env(v).row) # o
        BY <2>1, <3>2 DEF CallsAgree
      <4>4. workers[v].phase # "submit" => Subject(Env(v).row) # o
        BY <2>2, <4>2
      <4>. QED BY <2>3, <3>2, <4>1, <4>2, <4>3, <4>4 DEF Env
    <3>3. CASE v # w /\ workers[v].phase \notin Calling
      BY <1>2, <3>3 DEF Calling
    <3>. QED BY <3>1, <3>2, <3>3
  <2>6. \A u, v \in Workers :
          /\ workers'[u].phase = "submit" /\ workers'[v].phase = "submit"
          /\ Subject(workers'[u].env.row) = Subject(workers'[v].env.row)
          => u = v
    BY <1>2 DEF CallsAgree, Env
  <2>7. CallsAgree'
    BY <1>1, <2>4, <2>5, <2>6 DEF CallsAgree, Calling, Env, Parent, Child
  <2>8. UNCHANGED PaidPhase
    BY <1>1 DEF PaidPhase
  <2>9. PaidPhase[o] = "uncertain"
    <3>1. ops[o].status \notin Settled
      BY <1>1, <2>2 DEF CallsAgree
    <3>. QED BY <1>1, <2>2, <3>1 DEF PaidPhase, Settled, UNCERTAIN, Statuses
  <2>10. Paid!Call(o)
    BY <2>1, <2>2, <2>8, <2>9 DEF Paid!Call
  <2>. QED BY <1>1, <2>7, <2>8, <2>10
<1>4. CASE CallStatus(w)
  <2>1. workers[w].phase = "status" /\ UNCHANGED submits
    BY <1>4 DEF CallStatus, Busy
  <2>2. ops[o].status # "reserved" /\ submits[o] = 1
    BY <2>1 DEF CallsAgree
  <2>3. ASSUME NEW v \in Workers
        PROVE  /\ workers'[v].phase \in Calling =>
                    ops[Subject(workers'[v].env.row)].status # "reserved"
               /\ workers'[v].phase = "submit" => submits[Subject(workers'[v].env.row)] = 0
               /\ workers'[v].phase \in {"status", "answered"} =>
                    submits[Subject(workers'[v].env.row)] = 1
    <3>1. CASE v = w
      BY <1>2, <2>2, <3>1
    <3>2. CASE v # w
      BY <1>2, <3>2 DEF CallsAgree, Calling, Env
    <3>. QED BY <3>1, <3>2
  <2>4. \A u, v \in Workers :
          /\ workers'[u].phase = "submit" /\ workers'[v].phase = "submit"
          /\ Subject(workers'[u].env.row) = Subject(workers'[v].env.row)
          => u = v
    BY <1>2 DEF CallsAgree, Env
  <2>5. CallsAgree'
    BY <1>1, <2>1, <2>3, <2>4 DEF CallsAgree, Calling, Env, Parent, Child
  <2>. QED BY <1>1, <2>1, <2>5 DEF PaidPhase
<1>. QED BY <1>3, <1>4

\* Recording an answer closes the intents that a settled operation may not leave open.
LEMMA FinalizeAgrees ==
    ASSUME TypeOK, MidCall, CallsAgree, RowsAdvance, NEW w \in Workers, Finalize(w)
    PROVE  CallsAgree' /\ UNCHANGED submits
           /\ (UNCHANGED PaidPhase \/ \E o \in Ops : Paid!Settle(o))
<1>. DEFINE r == Env(w).row
            o == Subject(r)
            state == Observed(workers[w].word)
<1>1. /\ workers[w].phase = "answered" /\ workers[w].phase \in Phases
      /\ UNCHANGED <<mail, submits, effects>>
  BY DEF Finalize, Busy, Phases
<1>2. /\ r \in Rows /\ o \in Ops
      /\ Kind(r) = "external" => r = Parent(o)
      /\ Kind(r) = "reconcile" => r = Child(o)
      /\ ops[o].status \in Statuses
  BY <1>1, ObservedFacts, OperationOf
<1>3. /\ ops \in [Ops -> [status : Statuses, ref : BOOLEAN]]
      /\ workers \in [Workers -> WorkerRecord \cup {Idle}]
      /\ outbox \in [Rows -> RowRecord]
  BY DEF TypeOK, RuntimeTypeOK
<1>4. ASSUME NEW word \in Words, Return(w, word)
      PROVE  \A v \in Workers : workers'[v] = workers[v] \/ workers'[v].phase \notin Calling
  BY <1>1, <1>4, ReturnType DEF Calling
<1>5. CASE LoseFence(w) \/ RecordStale(w)
  <2>1. UNCHANGED ops
    BY <1>5 DEF LoseFence, RecordStale
  <2>2. \A v \in Workers : workers'[v] = workers[v] \/ workers'[v].phase \notin Calling
    BY <1>3, <1>4, <1>5 DEF LoseFence, RecordStale, Become, Words, Idle, Calling
  <2>. QED BY <1>1, <2>1, <2>2, QuietAgrees
<1>6. CASE Record(w)
  <2>1. /\ outbox[r].state = "dispatched"
        /\ ops' = [ops EXCEPT ![o] = [status |-> state, ref |-> @.ref \/ workers[w].ref]]
        /\ outbox' = RowAfter(r, state)
        /\ Return(w, state)
    BY <1>6 DEF Record
  <2>2. /\ Kind(r) \in {"external", "reconcile"}
        /\ state \in Statuses \ {"reserved"}
        /\ Kind(r) = "external" => state \in UNCERTAIN
        /\ state \in UNCERTAIN \cup Settled
    BY <1>1, ObservedFacts
  <2>3. submits[o] = 1 /\ ops[o].status # "reserved"
    BY <1>1 DEF CallsAgree
  <2>4. ops[o].status \in UNCERTAIN
    <3>1. ops[o].status \notin Settled
      BY <1>2, <2>1, <2>2 DEF CallsAgree
    <3>. QED BY <1>2, <2>3, <3>1 DEF Statuses, UNCERTAIN, Settled
  <2>5. state \in Settled => outbox'[Parent(o)].state = "done" /\ outbox'[Child(o)].state = "done"
    <3>. SUFFICES ASSUME state \in Settled
                  PROVE  outbox'[Parent(o)].state = "done" /\ outbox'[Child(o)].state = "done"
      OBVIOUS
    <3>1. Kind(r) = "reconcile" /\ r = Child(o)
      BY <1>2, <2>2 DEF Settled, UNCERTAIN
    <3>2. outbox' = [outbox EXCEPT ![r].state = "done", ![r].lease = "none"]
      BY <2>1, <3>1 DEF RowAfter
    <3>3. outbox'[r].state = "done"
      BY <1>2, <1>3, <3>2 DEF RowRecord
    <3>4. outbox[Parent(o)].state = "done"
      BY <1>2, <2>1, <3>1 DEF CallsAgree
    <3>5. outbox'[Parent(o)].state = "done"
      BY <1>2, <3>4, IntentFacts DEF RowsAdvance, TERMINAL_STATES
    <3>. QED BY <3>1, <3>3, <3>5
  <2>. HIDE DEF state, o, r
  <2>6. ops'[o].status = state /\ \A p \in Ops : p # o => ops'[p] = ops[p]
    BY <1>2, <1>3, <2>1
  <2>7. \A v \in Workers : workers'[v] = workers[v] \/ workers'[v].phase \notin Calling
    BY <1>4, <2>1, <2>2 DEF Words
  <2>8. CallsAgree'
    BY <1>1, <1>2, <2>2, <2>3, <2>5, <2>6, <2>7, ChangedAgrees
  <2>9. /\ PaidPhase \in [Ops -> {"unsubmitted", "uncertain", "settled"}]
        /\ PaidPhase[o] = "uncertain"
        /\ \A p \in Ops : p # o => PaidPhase'[p] = PaidPhase[p]
        /\ DOMAIN PaidPhase' = Ops
    BY <1>2, <2>4, <2>6 DEF PaidPhase, UNCERTAIN
  <2>10. CASE state \in UNCERTAIN
    <3>1. PaidPhase'[o] = "uncertain"
      BY <1>2, <2>6, <2>10 DEF PaidPhase, UNCERTAIN
    <3>2. UNCHANGED PaidPhase
      BY <2>9, <3>1 DEF PaidPhase
    <3>. QED BY <1>1, <2>8, <3>2
  <2>11. CASE state \in Settled
    <3>1. PaidPhase'[o] = "settled"
      BY <1>2, <2>6, <2>11 DEF PaidPhase, UNCERTAIN, Settled
    <3>2. PaidPhase' = [PaidPhase EXCEPT ![o] = "settled"]
      BY <1>2, <2>9, <3>1 DEF PaidPhase
    <3>3. Paid!Settle(o)
      BY <1>1, <2>3, <2>9, <3>2 DEF Paid!Settle
    <3>. QED BY <1>1, <1>2, <2>8, <3>3
  <2>. QED BY <2>2, <2>10, <2>11
<1>. QED BY <1>5, <1>6 DEF Finalize

\* One step of the core is at most one step of the paid operation.
LEMMA NextAgrees ==
    TypeOK /\ MidCall /\ CallsAgree /\ [Next]_vars =>
        CallsAgree' /\ [Paid!Next]_<<PaidPhase, submits>>
<1>. SUFFICES ASSUME TypeOK, MidCall, CallsAgree, [Next]_vars
              PROVE  CallsAgree' /\ [Paid!Next]_<<PaidPhase, submits>>
  OBVIOUS
<1>1. RowsAdvance
  BY NextAdvances
<1>2. ASSUME UNCHANGED <<ops, submits>>,
             \A v \in Workers : workers'[v] = workers[v] \/ workers'[v].phase \notin Calling
      PROVE  CallsAgree' /\ [Paid!Next]_<<PaidPhase, submits>>
  BY <1>1, <1>2, QuietAgrees
<1>3. ASSUME NEW w \in Workers, NEW next, next.phase \notin Calling,
             workers' = [workers EXCEPT ![w] = next]
      PROVE  \A v \in Workers : workers'[v] = workers[v] \/ workers'[v].phase \notin Calling
  BY <1>3 DEF TypeOK
<1>4. ASSUME NEW w \in Workers, Prepare(w) \/ CallSubmit(w) \/ CallStatus(w) \/ Finalize(w)
      PROVE  CallsAgree' /\ [Paid!Next]_<<PaidPhase, submits>>
  BY <1>1, <1>4, PrepareAgrees, CallAgrees, FinalizeAgrees DEF Paid!Next
<1>5. ASSUME NEW w \in Workers, RunStep(w) \/ WrapUp(w) \/ FailStep(w) \/ Crash(w)
      PROVE  CallsAgree' /\ [Paid!Next]_<<PaidPhase, submits>>
  <2>1. workers' = [workers EXCEPT ![w] = Idle] /\ UNCHANGED <<ops, submits>>
    BY <1>5 DEF RunStep, WrapUp, FailStep, Crash, Become
  <2>2. Idle.phase \notin Calling
    BY DEF Idle, Calling
  <2>. QED BY <1>2, <1>3, <2>1, <2>2
<1>6. ASSUME NEW w \in Workers, NEW e \in mail, StartStep(w, e) \/ StartTask(w, e)
      PROVE  CallsAgree' /\ [Paid!Next]_<<PaidPhase, submits>>
  <2>1. UNCHANGED <<ops, submits>>
    BY <1>6 DEF StartStep, StartTask
  <2>2. PICK f : workers' = [workers EXCEPT ![w] = At("claimed", f, "nothing", FALSE)]
    BY <1>6 DEF StartStep, StartTask, Become
  <2>3. At("claimed", f, "nothing", FALSE).phase \notin Calling
    BY DEF At, Calling
  <2>. QED BY <1>2, <1>3, <2>1, <2>2, <2>3
<1>7. CASE UNCHANGED <<ops, submits, workers>>
  BY <1>2, <1>7
<1>8. CASE Transport
  <2>1. ASSUME NEW r \in Rows, Dispatch(r) \/ Sweep(r) \/ ClaimCycle(r)
        PROVE  UNCHANGED <<ops, submits, workers>>
    BY <2>1 DEF Dispatch, Sweep, ClaimCycle, Claim
  <2>2. ASSUME NEW e \in mail,
               PublishFails(e) \/ PublicationFailed(e) \/ StatusRead(e) \/ RunTask(e)
        PROVE  UNCHANGED <<ops, submits, workers>>
    BY <2>2 DEF PublishFails, PublicationFailed, StatusRead, RunTask
  <2>. QED BY <1>6, <1>7, <1>8, <2>1, <2>2 DEF Transport
<1>9. CASE Process
  BY <1>4, <1>5, <1>9 DEF Process
<1>10. CASE Recovery \/ Deadlines \/ Switch \/ UNCHANGED vars
  BY <1>7, <1>10 DEF Recovery, RecoverSlot, RecoverExecution, Deadlines, SlotDeadline,
                     RowDeadline, StepDeadline, Switch, Frame, vars
<1>. QED BY <1>8, <1>9, <1>10 DEF Next

\* What the operation rows, the intents and the processes around a provider
\* call know of one another stays consistent in every behaviour.
THEOREM CallsAlwaysAgree == Spec => []CallsAgree
BY TypeCorrect, InitAgrees, NextAgrees, PTL DEF Spec

\* A paid operation is submitted to its provider at most once, for any number
\* of workers, deliveries, generations, crashes and changes of runtime.
THEOREM SubmittedAtMostOnce == Spec => []AtMostOneSubmission
<1>1. CallsAgree => AtMostOneSubmission
  BY DEF CallsAgree, AtMostOneSubmission
<1>. QED BY <1>1, CallsAlwaysAgree, PTL

\* The initial states of the core are initial states of the abstract paid operation.
LEMMA InitPaid == Init => Paid!Init
<1>. SUFFICES ASSUME Init PROVE Paid!Init
  OBVIOUS
<1>1. PaidPhase = [o \in Ops |-> "unsubmitted"]
  BY DEF Init, PaidPhase
<1>2. submits = [o \in Ops |-> 0]
  BY DEF Init
<1>. QED BY <1>1, <1>2 DEF Paid!Init

\* The durable core implements the abstract paid operation: the intent is
\* durable before the call, the call is made once, and an answer is final.
THEOREM Refinement == Spec => ImplementsPaidOperation
BY TypeCorrect, CallsAlwaysAgree, InitPaid, NextAgrees, PTL
   DEF Spec, ImplementsPaidOperation, Paid!Spec

----------------------------------------------------------------------------
(* Local intents: the effect of a handler commits with the end of its row. *)

Local(j) == <<j, "local">>

\* A step that runs no local handler and ends, or reopens, no local row.
LocalRowsKept ==
    /\ effects' = effects
    /\ \A j \in Jobs : outbox'[Local(j)].state \in TERMINAL_STATES
                         <=> outbox[Local(j)].state \in TERMINAL_STATES

\* The row of a job is a row, and no other kind of row is one.
LEMMA LocalFacts ==
    ASSUME NEW j \in Jobs
    PROVE  /\ Local(j) \in Rows /\ Kind(Local(j)) = "local" /\ Subject(Local(j)) = j
           /\ \A o \in Ops : Local(j) # Parent(o) /\ Local(j) # Child(o)
BY DEF Local, Rows, Kind, Subject, Parent, Child

\* A step that leaves the state of every open row open keeps the local rows.
LEMMA OneOpenRow ==
    ASSUME NEW r \in Rows, effects' = effects,
           outbox[r].state \notin TERMINAL_STATES,
           outbox'[r].state \notin TERMINAL_STATES \/ Kind(r) # "local",
           \A q \in Rows : Kind(q) = "local" /\ q # r => outbox'[q].state = outbox[q].state
    PROVE  LocalRowsKept
BY LocalFacts DEF LocalRowsKept

\* Handing an operation to its child writes no local row.
LEMMA QueueReconciliationLocal ==
    ASSUME TypeOK, NEW r \in Rows, Kind(r) # "local", outbox[r].state = "dispatched"
    PROVE  \A q \in Rows : Kind(q) = "local" => QueueReconciliation(r, outbox)[q] = outbox[q]
BY RowFacts, IntentFacts, QueueReconciliationRows

\* A handler run counts one effect and ends an open row, in one step.
LEMMA RunIntentOnce ==
    ASSUME TypeOK, EffectsOnce, NEW r \in Rows, Kind(r) = "local",
           outbox[r].state = "dispatched", RunIntent(r)
    PROVE  EffectsOnce'
<1>1. /\ outbox \in [Rows -> RowRecord] /\ effects \in [Jobs -> Nat]
      /\ Subject(r) \in Jobs
  BY RowFacts DEF TypeOK, RuntimeTypeOK
<1>2. r = Local(Subject(r))
  BY DEF Local, Rows, Kind, Subject, Parent, Child
<1>3. PICK state \in TERMINAL_STATES : CloseRow(r, state)
  BY DEF RunIntent
<1>4. /\ outbox'[r].state \in TERMINAL_STATES
      /\ \A q \in Rows : q # r => outbox'[q] = outbox[q]
  BY <1>1, <1>3 DEF CloseRow, RowRecord
<1>5. ASSUME NEW j \in Jobs
      PROVE  effects'[j] = IF outbox'[Local(j)].state \in TERMINAL_STATES THEN 1 ELSE 0
  <2>1. effects[j] = IF outbox[Local(j)].state \in TERMINAL_STATES THEN 1 ELSE 0
    BY DEF EffectsOnce, Local
  <2>2. CASE j = Subject(r)
    <3>1. effects'[j] = effects[j] + 1
      BY <1>1, <2>2 DEF RunIntent
    <3>. QED BY <1>2, <1>4, <2>1, <2>2, <3>1 DEF TERMINAL_STATES
  <2>3. CASE j # Subject(r)
    <3>1. effects'[j] = effects[j]
      BY <1>1, <2>3 DEF RunIntent
    <3>2. Local(j) \in Rows /\ Local(j) # r
      BY <2>3, LocalFacts
    <3>. QED BY <1>4, <2>1, <3>1, <3>2
  <2>. QED BY <2>2, <2>3
<1>. QED BY <1>5 DEF EffectsOnce, Local

\* Every step keeps the count of effects equal to the ends of local rows.
LEMMA NextEffects == TypeOK /\ MidCall /\ EffectsOnce /\ [Next]_vars => EffectsOnce'
<1>. SUFFICES ASSUME TypeOK, MidCall, EffectsOnce, [Next]_vars
              PROVE  EffectsOnce'
  OBVIOUS
<1>0. /\ outbox \in [Rows -> RowRecord] /\ \A e \in mail : e.row \in Rows
      /\ "dispatched" \notin TERMINAL_STATES /\ "ready" \notin TERMINAL_STATES
  BY DEF TypeOK, RuntimeTypeOK, Envelopes, TERMINAL_STATES
<1>1. LocalRowsKept => EffectsOnce'
  BY DEF LocalRowsKept, EffectsOnce, Local
<1>2. UNCHANGED <<outbox, effects>> => LocalRowsKept
  BY DEF LocalRowsKept
<1>3. ASSUME NEW r \in Rows, Dispatch(r) \/ Sweep(r) \/ ClaimCycle(r)
      PROVE  LocalRowsKept
  <2>1. /\ outbox[r].state \in {"ready", "dispatched"} /\ effects' = effects
        /\ outbox'[r].state = "dispatched"
        /\ \A q \in Rows : q # r => outbox'[q] = outbox[q]
    BY <1>0, <1>3 DEF Dispatch, Sweep, ClaimCycle, Claim, ClaimRow, Claimable
  <2>. QED BY <1>0, <2>1, OneOpenRow
<1>4. ASSUME NEW e \in mail, PublishFails(e) \/ PublicationFailed(e) \/ StatusRead(e)
      PROVE  LocalRowsKept
  <2>1. /\ outbox[e.row].state = "dispatched" /\ effects' = effects
        /\ outbox'[e.row].state \in {"ready", "dispatched"}
        /\ \A q \in Rows : q # e.row => outbox'[q] = outbox[q]
    BY <1>0, <1>4 DEF PublishFails, PublicationFailed, StatusRead, ReleaseClaim,
                      RecordPublication, ReadStepStatus, ReturnToReady, RowRecord
  <2>. QED BY <1>0, <2>1, OneOpenRow
<1>5. ASSUME NEW e \in mail, NEW w \in Workers, StartStep(w, e)
      PROVE  LocalRowsKept
  <2>1. /\ outbox[e.row].state = "dispatched" /\ effects' = effects
        /\ outbox'[e.row].state = "dispatched"
        /\ \A q \in Rows : q # e.row => outbox'[q] = outbox[q]
    BY <1>0, <1>5 DEF StartStep, ClaimExecutionStep, RowRecord
  <2>. QED BY <1>0, <2>1, OneOpenRow
<1>6. ASSUME NEW e \in mail, RunTask(e)
      PROVE  EffectsOnce'
  BY <1>0, <1>6, RunIntentOnce DEF RunTask, Deliverable
<1>7. ASSUME NEW w \in Workers, RunStep(w)
      PROVE  EffectsOnce'
  <2>1. Env(w).row \in Rows /\ Kind(Env(w).row) = "local"
    BY <1>7, WorkerFacts DEF RunStep, Busy, Phases
  <2>2. \/ outbox[Env(w).row].state = "dispatched" /\ RunIntent(Env(w).row)
        \/ UNCHANGED <<outbox, effects>>
    BY <1>7 DEF RunStep
  <2>. QED BY <1>1, <1>2, <2>1, <2>2, RunIntentOnce
<1>8. ASSUME NEW r \in Rows, Kind(r) # "local", outbox[r].state = "dispatched",
             effects' = effects,
             \/ \A q \in Rows : q # r => outbox'[q] = outbox[q]
             \/ \A q \in Rows : q # r => outbox'[q] = QueueReconciliation(r, outbox)[q]
      PROVE  LocalRowsKept
  <2>1. \A q \in Rows : Kind(q) = "local" /\ q # r => outbox'[q] = outbox[q]
    BY <1>8, QueueReconciliationLocal
  <2>. QED BY <1>0, <1>8, <2>1, OneOpenRow
<1>9. ASSUME NEW w \in Workers, Prepare(w)
      PROVE  LocalRowsKept
  <2>1. Env(w).row \in Rows /\ Kind(Env(w).row) # "local" /\ effects' = effects
    BY <1>9, WorkerFacts DEF Prepare, Busy, Phases
  <2>2. CASE PrepareUncertain(w)
    <3>1. /\ outbox[Env(w).row].state = "dispatched"
          /\ outbox' = IF Kind(Env(w).row) = "external"
                       THEN QueueReconciliation(Env(w).row, outbox) ELSE outbox
      BY <2>2 DEF PrepareUncertain
    <3>. QED BY <1>8, <2>1, <3>1
  <2>3. CASE ~PrepareUncertain(w)
    BY <1>2, <1>9, <2>1, <2>3 DEF Prepare, LoseFence, PrepareStale, PrepareBlocked,
                                  PrepareSubmit, PreparePoll, PrepareSettled
  <2>. QED BY <2>2, <2>3
<1>10. ASSUME NEW w \in Workers, Finalize(w)
       PROVE  LocalRowsKept
  <2>1. Env(w).row \in Rows /\ Kind(Env(w).row) # "local" /\ effects' = effects
    BY <1>10, WorkerFacts, ObservedFacts DEF Finalize, Busy, Phases
  <2>2. CASE Record(w)
    <3>1. /\ outbox[Env(w).row].state = "dispatched"
          /\ outbox' = RowAfter(Env(w).row, Observed(workers[w].word))
      BY <2>2 DEF Record
    <3>2. \/ \A q \in Rows : q # Env(w).row => outbox'[q] = outbox[q]
          \/ \A q \in Rows : q # Env(w).row =>
               outbox'[q] = QueueReconciliation(Env(w).row, outbox)[q]
      BY <1>0, <3>1 DEF RowAfter
    <3>. QED BY <1>8, <2>1, <3>1, <3>2
  <2>3. CASE ~Record(w)
    BY <1>2, <1>10, <2>1, <2>3 DEF Finalize, LoseFence, RecordStale
  <2>. QED BY <2>2, <2>3
<1>11. ASSUME NEW r \in Rows, RecoverExecution(r)
       PROVE  LocalRowsKept
  <2>1. ScheduleUncertain(r) \in [Rows -> RowRecord]
    BY <1>0, <1>11, QueueReconciliationType DEF ScheduleUncertain, IsUncertain
  <2>2. /\ outbox[r].state = "dispatched" /\ effects' = effects
        /\ \A q \in Rows : q # r => outbox'[q] = ScheduleUncertain(r)[q]
        /\ outbox'[r].state = IF ScheduleUncertain(r)[r].state \in TERMINAL_STATES
                              THEN ScheduleUncertain(r)[r].state ELSE "ready"
    <3>. HIDE DEF ScheduleUncertain
    <3>. QED BY <1>11, <2>1 DEF RecoverExecution, Overdue
  <2>3. CASE IsUncertain(r, ops)
    <3>1. Kind(r) # "local" /\ ScheduleUncertain(r) = QueueReconciliation(r, outbox)
      BY <2>3 DEF ScheduleUncertain, IsUncertain
    <3>. QED BY <1>8, <2>2, <3>1
  <2>4. CASE ~IsUncertain(r, ops)
    <3>1. ScheduleUncertain(r) = outbox
      BY <2>4 DEF ScheduleUncertain
    <3>2. outbox'[r].state = "ready" /\ \A q \in Rows : q # r => outbox'[q] = outbox[q]
      BY <1>0, <2>2, <3>1
    <3>. QED BY <1>0, <2>2, <3>2, OneOpenRow
  <2>. QED BY <2>3, <2>4
<1>12. ASSUME NEW r \in Rows, RowDeadline(r)
       PROVE  LocalRowsKept
  <2>1. /\ outbox[r].state = "dispatched" /\ effects' = effects
        /\ outbox'[r].state = "dispatched"
        /\ \A q \in Rows : q # r => outbox'[q] = outbox[q]
    BY <1>0, <1>12 DEF RowDeadline, ExpireRow, Frame, RowRecord
  <2>. QED BY <1>0, <2>1, OneOpenRow
<1>13. CASE Transport
  <2>1. ASSUME NEW e \in mail, NEW w \in Workers, StartTask(w, e)
        PROVE  LocalRowsKept
    BY <1>2, <2>1 DEF StartTask
  <2>. QED BY <1>1, <1>3, <1>4, <1>5, <1>6, <1>13, <2>1 DEF Transport
<1>14. CASE Process
  <2>1. ASSUME NEW w \in Workers,
               CallSubmit(w) \/ CallStatus(w) \/ WrapUp(w) \/ FailStep(w) \/ Crash(w)
        PROVE  LocalRowsKept
    BY <1>2, <2>1 DEF CallSubmit, CallStatus, WrapUp, FailStep, Crash
  <2>. QED BY <1>1, <1>7, <1>9, <1>10, <1>14, <2>1 DEF Process
<1>15. CASE RecoverSlot \/ SlotDeadline \/ Switch \/ \E r \in Rows : StepDeadline(r)
  BY <1>1, <1>2, <1>15 DEF RecoverSlot, SlotDeadline, ExpireSlot, Switch,
                           SetExecutionRuntime, StepDeadline, ExpireStep, Frame
<1>16. CASE UNCHANGED vars
  BY <1>1, <1>2, <1>16 DEF vars
<1>. QED BY <1>1, <1>11, <1>12, <1>13, <1>14, <1>15, <1>16 DEF Next, Recovery, Deadlines

\* The handler of every local intent commits exactly once, together with the
\* end of its row, through any number of deliveries, reclaims, crashes and
\* changes of runtime.
THEOREM LocalEffectsOnce == Spec => []EffectsOnce
<1>1. Init => EffectsOnce
  <2>1. ASSUME Init, NEW j \in Jobs
        PROVE  outbox[Local(j)].state = "ready" /\ effects[j] = 0
    BY <2>1, LocalFacts DEF Init, RuntimeInit
  <2>. QED BY <2>1 DEF EffectsOnce, Local, TERMINAL_STATES
<1>. QED BY <1>1, NextEffects, TypeCorrect, PTL DEF Spec

\* A settled operation keeps no intent open that would poll or submit it again.
THEOREM SettledLeavesNothingOpen == Spec => []SettledClosesIntents
<1>1. CallsAgree => SettledClosesIntents
  BY DEF CallsAgree, SettledClosesIntents
<1>. QED BY <1>1, CallsAlwaysAgree, PTL

----------------------------------------------------------------------------
(* The execution slot.                                                     *)

\* A process that runs a Cloudflare step.
Native(w) == workers[w] # Idle /\ Env(w).via = "cloudflare"

\* A status-only child that was not queued yet was never claimed.
AbsentRowsAreNew == \A r \in Rows : outbox[r].state = "absent" => outbox[r].gen = 0

\* Every native process has a receipt of its own, which exists for good.
NativeStepsAreOwn ==
    /\ \A w \in Workers : Native(w) => steps[Env(w).row][Env(w).gen].state # "none"
    /\ \A v, w \in Workers : Native(v) /\ Native(w) /\ v # w => Owner(Env(v)) # Owner(Env(w))

\* Inductive form of the one slot.
SlotInv == SlotOwnerIsRunning /\ OpenStepIsCurrent /\ AbsentRowsAreNew /\ NativeStepsAreOwn

\* What a receipt that is no longer open may say.
Closed == {"done", "reconcile", "blocked"}

\* Rows keep their generation, unless no step of them is running.
GensKept == \A r \in Rows :
    /\ outbox'[r].gen = outbox[r].gen \/ Receipts(r, {"running"}) = {}
    /\ outbox'[r].state = "absent" => outbox[r].state = "absent" /\ outbox'[r].gen = outbox[r].gen

\* A receipt changes its state by being closed.
StepsClose == \A r \in Rows, g \in Gens :
    steps'[r][g].state = steps[r][g].state \/ steps'[r][g].state \in Closed

\* The slot is given up, or its owner goes on running.
OwnerKept ==
    \/ control'.owner = NoOwner
    \/ /\ control'.owner = control.owner
       /\ control.owner # NoOwner =>
            steps'[control.owner.row][control.owner.gen].state =
                steps[control.owner.row][control.owner.gen].state

\* No process becomes a native one.
NoNewNative == \A w \in Workers :
    Native(w)' => Native(w) /\ Env(w)' = Env(w)

\* What every step but the start of a native one does to the slot.
SlotKept == GensKept /\ StepsClose /\ OwnerKept /\ NoNewNative

\* A step that opens no receipt keeps the slot exclusive.
LEMMA SlotFrame ==
    ASSUME TypeOK, SlotInv, SlotKept
    PROVE  SlotInv'
<1>. USE DEF SlotKept
<1>1. SlotOwnerIsRunning'
  BY DEF SlotInv, SlotOwnerIsRunning, OwnerKept
<1>2. OpenStepIsCurrent'
  <2>. SUFFICES ASSUME NEW r \in Rows, NEW g \in Gens, steps'[r][g].state = "running"
                PROVE  g = outbox'[r].gen
    BY DEF OpenStepIsCurrent, Receipts
  <2>1. steps[r][g].state = "running"
    BY DEF StepsClose, Closed
  <2>2. g \in Receipts(r, {"running"})
    BY <2>1 DEF Receipts
  <2>. QED BY <2>2 DEF GensKept, SlotInv, OpenStepIsCurrent
<1>3. AbsentRowsAreNew'
  BY DEF SlotInv, AbsentRowsAreNew, GensKept
<1>4. NativeStepsAreOwn'
  <2>1. ASSUME NEW w \in Workers, Native(w)'
        PROVE  Native(w) /\ Env(w)' = Env(w) /\ steps'[Env(w).row][Env(w).gen].state # "none"
    <3>1. Native(w) /\ Env(w)' = Env(w)
      BY <2>1 DEF NoNewNative
    <3>2. Env(w).row \in Rows /\ Env(w).gen \in Gens
      BY <3>1, WorkerFacts DEF Native
    <3>3. steps[Env(w).row][Env(w).gen].state # "none"
      BY <3>1 DEF SlotInv, NativeStepsAreOwn
    <3>4. steps'[Env(w).row][Env(w).gen].state # "none"
      BY <3>2, <3>3 DEF StepsClose, Closed
    <3>. QED BY <3>1, <3>4
  <2>2. ASSUME NEW v \in Workers, NEW w \in Workers, Native(v)', Native(w)', v # w
        PROVE  Owner(Env(v)') # Owner(Env(w)')
    BY <2>1, <2>2 DEF SlotInv, NativeStepsAreOwn
  <2>. QED BY <2>1, <2>2 DEF NativeStepsAreOwn, Owner
<1>. QED BY <1>1, <1>2, <1>3, <1>4 DEF SlotInv

\* A transaction that writes neither receipt nor slot.
LEMMA QuietSlot ==
    ASSUME UNCHANGED <<control, steps>>
    PROVE  StepsClose /\ OwnerKept
BY DEF StepsClose, OwnerKept

\* Finishing a receipt closes it and frees the slot.
LEMMA FinishReceiptSlot ==
    ASSUME TypeOK, NEW e \in Envelopes, NEW result, FinishReceipt(e, result)
    PROVE  StepsClose /\ OwnerKept
<1>1. /\ steps \in [Rows -> [Gens -> ReceiptRecord]] /\ control \in ControlRecord
      /\ e.row \in Rows /\ e.gen \in Gens
      /\ ReceiptFor(result) \in Closed
  BY DEF TypeOK, RuntimeTypeOK, Envelopes, ReceiptFor, Closed
<1>2. steps' = [steps EXCEPT ![e.row][e.gen] =
                  [state |-> ReceiptFor(result), lease |-> "none"]]
  BY DEF FinishReceipt
<1>3. StepsClose
  BY <1>1, <1>2 DEF StepsClose
<1>4. control'.owner = NoOwner
  BY <1>1 DEF FinishReceipt, ControlRecord
<1>. QED BY <1>3, <1>4 DEF OwnerKept

\* A process that stops, or goes on with its envelope, was native before.
LEMMA OnwardSlot ==
    ASSUME TypeOK, NEW w \in Workers, workers[w].phase \in Phases,
           NEW next, next = Idle \/ next.env = Env(w) \/ next.env.via = "celery",
           workers' = [workers EXCEPT ![w] = next]
    PROVE  NoNewNative
<1>1. workers[w] # Idle
  BY DEF Idle, Phases
<1>2. workers'[w] = next /\ \A v \in Workers : v # w => workers'[v] = workers[v]
  BY DEF TypeOK
<1>. QED BY <1>1, <1>2 DEF NoNewNative, Native, Env

\* A transaction that writes one row, which exists.
LEMMA OneRowGens ==
    ASSUME NEW r \in Rows, outbox'[r].state # "absent",
           outbox'[r].gen = outbox[r].gen \/ Receipts(r, {"running"}) = {},
           \A q \in Rows : q # r => outbox'[q] = outbox[q]
    PROVE  GensKept
BY DEF GensKept

\* Queueing the status-only child changes no generation.
LEMMA QueueReconciliationGens ==
    ASSUME TypeOK, AbsentRowsAreNew, NEW r \in Rows, Kind(r) # "local",
           outbox[r].state = "dispatched"
    PROVE  LET box == QueueReconciliation(r, outbox) IN
           \A q \in Rows : /\ box[q].gen = outbox[q].gen
                           /\ box[q].state = "absent" => outbox[q].state = "absent"
<1>. DEFINE c == Child(Subject(r))
            child == [state |-> "ready", gen |-> 0, lease |-> "none",
                      backend |-> outbox[r].backend, epoch |-> outbox[r].epoch]
            queued == IF outbox[c].state # "absent" THEN outbox ELSE [outbox EXCEPT ![c] = child]
<1>1. outbox \in [Rows -> RowRecord] /\ c \in Rows
  BY RowFacts, IntentFacts DEF TypeOK, RuntimeTypeOK
<1>2. queued \in [Rows -> RowRecord]
  <2>1. child \in RowRecord
    BY <1>1, BoundsAssumption DEF RowRecord, RowStates, Gens, Leases
  <2>. QED BY <1>1, <2>1
<1>3. \A q \in Rows : /\ queued[q].gen = outbox[q].gen
                      /\ queued[q].state = "absent" => outbox[q].state = "absent"
  BY <1>1 DEF AbsentRowsAreNew
<1>4. QueueReconciliation(r, outbox) = [queued EXCEPT ![r].state = "done", ![r].lease = "none"]
  BY DEF QueueReconciliation
<1>. HIDE DEF queued
<1>5. \A q \in Rows :
        /\ [queued EXCEPT ![r].state = "done", ![r].lease = "none"][q].gen = queued[q].gen
        /\ [queued EXCEPT ![r].state = "done", ![r].lease = "none"][q].state
             \in {queued[q].state, "done"}
  BY <1>2 DEF RowRecord
<1>. QED BY <1>3, <1>4, <1>5

\* Leaving a handler transaction closes the receipt of the process, or nothing.
LEMMA LeaveSessionSlot ==
    ASSUME TypeOK, NEW w \in Workers, workers[w].phase \in Phases,
           NEW next, next = Idle \/ next.env = Env(w), LeaveSession(w, next)
    PROVE  StepsClose /\ OwnerKept /\ NoNewNative
<1>. DEFINE result == BusinessOutcome(Env(w).row, outbox', ops', FALSE)
<1>1. Env(w) \in Envelopes
  BY WorkerFacts
<1>2. CASE Env(w).via = "cloudflare" /\ result # "none"
  <2>1. FinishReceipt(Env(w), result) /\ workers' = [workers EXCEPT ![w] = Idle]
    BY <1>2 DEF LeaveSession, Become
  <2>. QED BY <1>1, <2>1, FinishReceiptSlot, OnwardSlot
<1>3. CASE ~(Env(w).via = "cloudflare" /\ result # "none")
  <2>1. UNCHANGED <<control, steps>> /\ workers' = [workers EXCEPT ![w] = next]
    BY <1>3 DEF LeaveSession, Become
  <2>. QED BY <2>1, QuietSlot, OnwardSlot
<1>. QED BY <1>2, <1>3

\* The same of a handler that returns without a call.
LEMMA ReturnSlot ==
    ASSUME TypeOK, NEW w \in Workers, workers[w].phase \in Phases,
           NEW word, Return(w, word)
    PROVE  StepsClose /\ OwnerKept /\ NoNewNative
<1>1. At("wrapup", Env(w), word, FALSE).env = Env(w)
  BY DEF At
<1>. QED BY <1>1, LeaveSessionSlot DEF Return

\* Losing the fence writes nothing.
LEMMA LoseFenceSlot ==
    ASSUME TypeOK, NEW w \in Workers, workers[w].phase \in Phases, LoseFence(w)
    PROVE  SlotKept
<1>1. UNCHANGED <<control, outbox, steps>> /\ workers' = [workers EXCEPT ![w] = Idle]
  BY DEF LoseFence, Become
<1>. QED BY <1>1, QuietSlot, OnwardSlot DEF SlotKept, GensKept

\* A transaction that writes no row keeps the generations.
LEMMA QuietRows == UNCHANGED outbox => GensKept
BY DEF GensKept

\* Claiming a row for a new generation waits for its open steps.
LEMMA ClaimSlot ==
    ASSUME TypeOK, NEW r \in Rows, Dispatch(r) \/ Sweep(r) \/ ClaimCycle(r)
    PROVE  SlotKept
<1>1. PICK backend, expiredOnly : Claim(r, backend, expiredOnly)
  BY DEF Dispatch, Sweep, ClaimCycle
<1>2. /\ outbox'[r].state = "dispatched"
      /\ Receipts(r, {"running", "reconcile"}) = {}
      /\ \A q \in Rows : q # r => outbox'[q] = outbox[q]
      /\ UNCHANGED <<control, steps, workers>>
  BY <1>1 DEF Claim, ClaimRow, TypeOK, RuntimeTypeOK
<1>3. Receipts(r, {"running"}) = {}
  BY <1>2 DEF Receipts
<1>4. GensKept
  BY <1>2, <1>3, OneRowGens
<1>. QED BY <1>2, <1>4, QuietSlot DEF SlotKept, NoNewNative, Native, Env

\* A report on a claim, or its deadline, keeps the generation of its row.
LEMMA LeaseSlot ==
    ASSUME TypeOK, NEW r \in Rows, outbox[r].state = "dispatched",
           \/ outbox' = [outbox EXCEPT ![r].state = "ready", ![r].lease = "none"]
           \/ outbox' = [outbox EXCEPT ![r].lease = "live"]
           \/ outbox' = [outbox EXCEPT ![r].lease = "expired"],
           UNCHANGED <<control, steps, workers>>
    PROVE  SlotKept
<1>1. /\ outbox'[r].state # "absent" /\ outbox'[r].gen = outbox[r].gen
      /\ \A q \in Rows : q # r => outbox'[q] = outbox[q]
  BY DEF TypeOK, RuntimeTypeOK, RowRecord
<1>2. GensKept
  BY <1>1, OneRowGens
<1>. QED BY <1>2, QuietSlot DEF SlotKept, NoNewNative, Native, Env

\* The handler of a local intent keeps the generation of its row.
LEMMA RunIntentGens ==
    ASSUME TypeOK, NEW r \in Rows, RunIntent(r)
    PROVE  GensKept
<1>1. PICK state \in TERMINAL_STATES : outbox' = [outbox EXCEPT ![r].state = state, ![r].lease = "none"]
  BY DEF RunIntent, CloseRow
<1>2. /\ outbox'[r].state # "absent" /\ outbox'[r].gen = outbox[r].gen
      /\ \A q \in Rows : q # r => outbox'[q] = outbox[q]
  BY <1>1 DEF TypeOK, RuntimeTypeOK, RowRecord, TERMINAL_STATES
<1>. QED BY <1>2, OneRowGens

\* A Celery delivery starts no native process and touches no receipt.
LEMMA TaskSlot ==
    ASSUME TypeOK, NEW e \in mail, RunTask(e) \/ \E w \in Workers : StartTask(w, e)
    PROVE  SlotKept
<1>1. CASE RunTask(e)
  <2>1. e.row \in Rows /\ UNCHANGED <<control, steps, workers>>
    BY <1>1 DEF RunTask, TypeOK, Envelopes
  <2>2. GensKept
    BY <1>1, <2>1, RunIntentGens DEF RunTask
  <2>. QED BY <2>1, <2>2, QuietSlot DEF SlotKept, NoNewNative, Native, Env
<1>2. ASSUME NEW w \in Workers, StartTask(w, e)
      PROVE  SlotKept
  <2>. DEFINE f == [e EXCEPT !.epoch = control.epoch]
  <2>1. f.via = "celery"
    BY <1>2 DEF StartTask, Deliverable, TypeOK, Envelopes
  <2>. HIDE DEF f
  <2>2. workers' = [workers EXCEPT ![w] = At("claimed", f, "nothing", FALSE)]
        /\ UNCHANGED <<control, outbox, steps>>
    BY <1>2 DEF StartTask, Become, f
  <2>3. ~Native(w)' /\ \A v \in Workers : v # w => workers'[v] = workers[v]
    BY <2>1, <2>2 DEF Native, Env, At, TypeOK
  <2>4. NoNewNative
    BY <2>3 DEF NoNewNative, Native, Env
  <2>. QED BY <2>2, <2>4, QuietSlot, QuietRows DEF SlotKept
<1>. QED BY <1>1, <1>2

\* A native step of a local intent ends with its receipt closed, or writes nothing.
LEMMA RunStepSlot ==
    ASSUME TypeOK, NEW w \in Workers, RunStep(w)
    PROVE  SlotKept
<1>1. /\ workers[w].phase \in Phases /\ Env(w) \in Envelopes /\ Env(w).row \in Rows
      /\ workers' = [workers EXCEPT ![w] = Idle]
  BY WorkerFacts DEF RunStep, Busy, Phases, Become
<1>2. NoNewNative
  BY <1>1, OnwardSlot
<1>3. GensKept
  <2>1. RunIntent(Env(w).row) \/ UNCHANGED outbox
    BY DEF RunStep
  <2>. QED BY <1>1, <2>1, RunIntentGens, QuietRows
<1>4. (\E result : FinishReceipt(Env(w), result)) \/ UNCHANGED <<control, steps>>
  BY DEF RunStep
<1>5. StepsClose /\ OwnerKept
  BY <1>1, <1>4, QuietSlot, FinishReceiptSlot
<1>. QED BY <1>2, <1>3, <1>5 DEF SlotKept

\* Every outcome of the prepare transaction.
LEMMA PrepareSlot ==
    ASSUME TypeOK, AbsentRowsAreNew, NEW w \in Workers, Prepare(w)
    PROVE  SlotKept
<1>1. /\ workers[w].phase \in Phases /\ Env(w).row \in Rows /\ Kind(Env(w).row) # "local"
  BY WorkerFacts DEF Prepare, Busy, Phases
<1>2. CASE LoseFence(w)
  BY <1>1, <1>2, LoseFenceSlot
<1>3. CASE PrepareStale(w) \/ PrepareBlocked(w) \/ PrepareSettled(w)
  <2>1. UNCHANGED outbox /\ \E word : Return(w, word)
    BY <1>3 DEF PrepareStale, PrepareBlocked, PrepareSettled
  <2>. QED BY <1>1, <2>1, QuietRows, ReturnSlot DEF SlotKept
<1>4. CASE PrepareSubmit(w) \/ PreparePoll(w)
  <2>1. /\ UNCHANGED <<control, outbox, steps>>
        /\ \E phase, ref : workers' = [workers EXCEPT ![w] = At(phase, Env(w), "nothing", ref)]
    BY <1>4 DEF PrepareSubmit, PreparePoll, Become
  <2>2. PICK phase, ref : workers' = [workers EXCEPT ![w] = At(phase, Env(w), "nothing", ref)]
    BY <2>1
  <2>3. At(phase, Env(w), "nothing", ref).env = Env(w)
    BY DEF At
  <2>4. NoNewNative
    BY <1>1, <2>2, <2>3, OnwardSlot
  <2>. QED BY <2>1, <2>4, QuietSlot, QuietRows DEF SlotKept
<1>5. CASE PrepareUncertain(w)
  <2>1. /\ outbox[Env(w).row].state = "dispatched"
        /\ outbox' = QueueReconciliation(Env(w).row, outbox) \/ UNCHANGED outbox
        /\ Return(w, "unknown")
    BY <1>5 DEF PrepareUncertain
  <2>2. GensKept
    BY <1>1, <2>1, QuietRows, QueueReconciliationGens DEF GensKept
  <2>. QED BY <1>1, <2>1, <2>2, ReturnSlot DEF SlotKept
<1>. QED BY <1>2, <1>3, <1>4, <1>5 DEF Prepare

\* A provider call is made outside every transaction.
LEMMA CallSlot ==
    ASSUME TypeOK, NEW w \in Workers, CallSubmit(w) \/ CallStatus(w)
    PROVE  SlotKept
<1>1. /\ workers[w].phase \in Phases /\ UNCHANGED <<control, outbox, steps>>
      /\ \E word, ref : workers' = [workers EXCEPT ![w] = At("answered", Env(w), word, ref)]
  BY DEF CallSubmit, CallStatus, Busy, Phases, Become
<1>2. PICK word, ref : workers' = [workers EXCEPT ![w] = At("answered", Env(w), word, ref)]
  BY <1>1
<1>3. At("answered", Env(w), word, ref).env = Env(w)
  BY DEF At
<1>4. NoNewNative
  BY <1>1, <1>2, <1>3, OnwardSlot
<1>. QED BY <1>1, <1>4, QuietSlot, QuietRows DEF SlotKept

\* Recording an answer, or finding it stale.
LEMMA FinalizeSlot ==
    ASSUME TypeOK, MidCall, AbsentRowsAreNew, NEW w \in Workers, Finalize(w)
    PROVE  SlotKept
<1>1. /\ workers[w].phase \in Phases /\ Env(w).row \in Rows /\ Kind(Env(w).row) # "local"
  BY WorkerFacts, ObservedFacts DEF Finalize, Busy, Phases
<1>2. CASE LoseFence(w)
  BY <1>1, <1>2, LoseFenceSlot
<1>3. CASE RecordStale(w)
  <2>1. UNCHANGED outbox /\ Return(w, "stale")
    BY <1>3 DEF RecordStale
  <2>. QED BY <1>1, <2>1, QuietRows, ReturnSlot DEF SlotKept
<1>4. CASE Record(w)
  <2>1. /\ outbox[Env(w).row].state = "dispatched"
        /\ outbox' = RowAfter(Env(w).row, Observed(workers[w].word))
        /\ \E word : Return(w, word)
    BY <1>4 DEF Record
  <2>2. GensKept
    <3>1. CASE outbox' = QueueReconciliation(Env(w).row, outbox)
      BY <1>1, <2>1, <3>1, QueueReconciliationGens DEF GensKept
    <3>2. CASE UNCHANGED outbox
      BY <3>2, QuietRows
    <3>3. CASE outbox' = [outbox EXCEPT ![Env(w).row].state = "done", ![Env(w).row].lease = "none"]
      <4>1. /\ outbox'[Env(w).row].state # "absent"
            /\ outbox'[Env(w).row].gen = outbox[Env(w).row].gen
            /\ \A q \in Rows : q # Env(w).row => outbox'[q] = outbox[q]
        BY <1>1, <3>3 DEF TypeOK, RuntimeTypeOK, RowRecord
      <4>. QED BY <1>1, <4>1, OneRowGens
    <3>. QED BY <2>1, <3>1, <3>2, <3>3 DEF RowAfter
  <2>. QED BY <1>1, <2>1, <2>2, ReturnSlot DEF SlotKept
<1>. QED BY <1>2, <1>3, <1>4 DEF Finalize

\* A step that wraps up or fails closes its receipt; a crash leaves it to recovery.
LEMMA EndStepSlot ==
    ASSUME TypeOK, NEW w \in Workers, WrapUp(w) \/ FailStep(w) \/ Crash(w)
    PROVE  SlotKept
<1>1. /\ workers[w].phase \in Phases /\ Env(w) \in Envelopes
      /\ workers' = [workers EXCEPT ![w] = Idle]
  BY WorkerFacts DEF WrapUp, FailStep, Crash, Busy, Phases, Become
<1>2. (\E result : FinishReceipt(Env(w), result)) \/ UNCHANGED <<control, steps>>
  BY DEF WrapUp, FailStep, Crash
<1>3. StepsClose /\ OwnerKept
  BY <1>1, <1>2, QuietSlot, FinishReceiptSlot
<1>4. UNCHANGED outbox
  BY DEF WrapUp, FailStep, Crash
<1>. QED BY <1>1, <1>3, <1>4, OnwardSlot, QuietRows DEF SlotKept

\* Recovering a row closes its open receipts, with the slot if one of them held it.
LEMMA RecoverExecutionSlot ==
    ASSUME TypeOK, AbsentRowsAreNew, SlotOwnerIsRunning, NEW r \in Rows, RecoverExecution(r)
    PROVE  SlotKept
<1>. DEFINE open == Receipts(r, {"running", "reconcile"})
            scheduled == ScheduleUncertain(r)
            closed == IF IsUncertain(r, ops) /\ Kind(r) # "reconcile"
                      THEN "reconcile" ELSE "blocked"
<1>1. /\ control \in ControlRecord
      /\ outbox \in [Rows -> RowRecord]
      /\ steps \in [Rows -> [Gens -> ReceiptRecord]]
      /\ outbox[r].state = "dispatched"
      /\ UNCHANGED workers
  BY DEF TypeOK, RuntimeTypeOK, RecoverExecution, Overdue
<1>2. /\ scheduled \in [Rows -> RowRecord]
      /\ \A q \in Rows : /\ scheduled[q].gen = outbox[q].gen
                         /\ scheduled[q].state = "absent" => outbox[q].state = "absent"
  <2>1. CASE IsUncertain(r, ops)
    <3>1. Kind(r) # "local" /\ scheduled = QueueReconciliation(r, outbox)
      BY <2>1 DEF IsUncertain, ScheduleUncertain
    <3>. QED BY <1>1, <3>1, QueueReconciliationGens, QueueReconciliationType
  <2>2. CASE ~IsUncertain(r, ops)
    BY <1>1, <2>2 DEF ScheduleUncertain
  <2>. QED BY <2>1, <2>2
<1>3. GensKept
  <2>. DEFINE final == IF scheduled[r].state \in TERMINAL_STATES THEN scheduled[r].state
                       ELSE "ready"
  <2>1. outbox' = [scheduled EXCEPT ![r] =
                     [state |-> final, gen |-> scheduled[r].gen, lease |-> "none",
                      backend |-> control.backend, epoch |-> control.epoch]]
    BY DEF RecoverExecution
  <2>2. final # "absent"
    BY DEF TERMINAL_STATES
  <2>. HIDE DEF scheduled, final
  <2>. QED BY <1>2, <2>1, <2>2 DEF GensKept
<1>4. /\ DOMAIN steps' = Rows
      /\ \A q \in Rows, g \in Gens :
           steps'[q][g] = IF q = r /\ g \in open THEN [state |-> closed, lease |-> "none"]
                          ELSE steps[q][g]
  <2>1. steps' = [steps EXCEPT ![r] = [g \in Gens |->
                    IF g \in open THEN [state |-> closed, lease |-> "none"] ELSE steps[r][g]]]
    BY DEF RecoverExecution
  <2>. HIDE DEF closed, open
  <2>. QED BY <1>1, <2>1
<1>5. StepsClose
  BY <1>4 DEF StepsClose, Closed
<1>6. OwnerKept
  <2>1. CASE control'.owner = NoOwner
    BY <2>1 DEF OwnerKept
  <2>2. CASE control'.owner # NoOwner
    <3>1. control' = control /\ ~\E g \in open : control.owner = [row |-> r, gen |-> g]
      BY <1>1, <2>2 DEF RecoverExecution, ControlRecord
    <3>2. control.owner \in Owners
      BY <1>1, <2>2, <3>1 DEF ControlRecord
    <3>3. control.owner.row \in Rows /\ control.owner.gen \in Gens
          /\ control.owner = [row |-> control.owner.row, gen |-> control.owner.gen]
      BY <3>2 DEF Owners
    <3>4. ~(control.owner.row = r /\ control.owner.gen \in open)
      BY <3>1, <3>3
    <3>. QED BY <1>4, <3>1, <3>3, <3>4 DEF OwnerKept
  <2>. QED BY <2>1, <2>2
<1>. QED BY <1>1, <1>3, <1>5, <1>6 DEF SlotKept, NoNewNative, Native, Env

\* Deadlines, the recovery of the slot and the operator touch no receipt's state.
LEMMA ClockSlot ==
    ASSUME TypeOK, RecoverSlot \/ Deadlines \/ Switch
    PROVE  SlotKept
<1>1. /\ control \in ControlRecord
      /\ steps \in [Rows -> [Gens -> ReceiptRecord]]
  BY DEF TypeOK, RuntimeTypeOK
<1>2. CASE RecoverSlot \/ SlotDeadline \/ Switch
  <2>1. /\ UNCHANGED <<outbox, steps, workers>>
        /\ control'.owner = NoOwner \/ control'.owner = control.owner
    <3>1. CASE RecoverSlot
      BY <1>1, <3>1 DEF RecoverSlot, ControlRecord
    <3>2. CASE SlotDeadline
      BY <1>1, <3>2 DEF SlotDeadline, ExpireSlot, Frame, ControlRecord
    <3>3. CASE Switch
      BY <1>1, <3>3 DEF Switch, SetExecutionRuntime, Frame, ControlRecord
    <3>. QED BY <1>2, <3>1, <3>2, <3>3
  <2>2. StepsClose /\ OwnerKept
    BY <2>1 DEF StepsClose, OwnerKept
  <2>. QED BY <2>1, <2>2, QuietRows DEF SlotKept, NoNewNative, Native, Env
<1>3. ASSUME NEW r \in Rows, RowDeadline(r)
      PROVE  SlotKept
  BY <1>3, LeaseSlot DEF RowDeadline, ExpireRow, Frame
<1>4. ASSUME NEW r \in Rows, StepDeadline(r)
      PROVE  SlotKept
  <2>1. /\ UNCHANGED <<control, outbox, workers>>
        /\ \A q \in Rows, g \in Gens : steps'[q][g].state = steps[q][g].state
    BY <1>1, <1>4 DEF StepDeadline, ExpireStep, Frame, ReceiptRecord
  <2>2. OwnerKept
    <3>1. control.owner # NoOwner => control.owner.row \in Rows /\ control.owner.gen \in Gens
      BY <1>1 DEF ControlRecord, Owners
    <3>. QED BY <2>1, <3>1 DEF OwnerKept
  <2>3. StepsClose
    BY <2>1 DEF StepsClose
  <2>. QED BY <2>1, <2>2, <2>3, QuietRows DEF SlotKept, NoNewNative, Native, Env
<1>. QED BY <1>2, <1>3, <1>4 DEF Deadlines

\* A native step opens the one receipt of its generation and takes the slot.
LEMMA StartStepSlot ==
    ASSUME TypeOK, SlotInv, NEW w \in Workers, NEW e \in mail, StartStep(w, e)
    PROVE  SlotInv'
<1>1. /\ control \in ControlRecord
      /\ outbox \in [Rows -> RowRecord]
      /\ steps \in [Rows -> [Gens -> ReceiptRecord]]
      /\ workers \in [Workers -> WorkerRecord \cup {Idle}]
      /\ e \in Envelopes /\ e.row \in Rows /\ e.gen \in Gens
  BY DEF TypeOK, RuntimeTypeOK, Envelopes
<1>2. /\ outbox[e.row].gen = e.gen /\ outbox[e.row].state = "dispatched"
      /\ steps[e.row][e.gen] = NoReceipt
      /\ control' = [control EXCEPT !.owner = Owner(e), !.slot = "live"]
      /\ steps' = [steps EXCEPT ![e.row][e.gen] = [state |-> "running", lease |-> "live"]]
      /\ outbox' = [outbox EXCEPT ![e.row].lease = "live"]
      /\ workers' = [workers EXCEPT ![w] = At("claimed", e, "nothing", FALSE)]
  BY DEF StartStep, ClaimExecutionStep, Selected, Become
<1>3. /\ steps'[e.row][e.gen].state = "running"
      /\ \A r \in Rows, g \in Gens : ~(r = e.row /\ g = e.gen) => steps'[r][g] = steps[r][g]
  BY <1>1, <1>2
<1>4. \A r \in Rows : outbox'[r].gen = outbox[r].gen /\ outbox'[r].state = outbox[r].state
  BY <1>1, <1>2 DEF RowRecord
<1>5. SlotOwnerIsRunning'
  <2>1. control'.owner = Owner(e)
    BY <1>1, <1>2 DEF ControlRecord
  <2>. QED BY <1>3, <2>1 DEF SlotOwnerIsRunning, Owner
<1>6. OpenStepIsCurrent'
  BY <1>2, <1>3, <1>4 DEF SlotInv, OpenStepIsCurrent, Receipts
<1>7. AbsentRowsAreNew'
  BY <1>4 DEF SlotInv, AbsentRowsAreNew
<1>8. NativeStepsAreOwn'
  <2>1. /\ workers'[w].env = e
        /\ \A v \in Workers : v # w => workers'[v] = workers[v]
    BY <1>1, <1>2 DEF At
  <2>2. ASSUME NEW v \in Workers, v # w, Native(v)'
        PROVE  /\ Native(v) /\ Env(v)' = Env(v)
               /\ Env(v).row \in Rows /\ Env(v).gen \in Gens
               /\ steps[Env(v).row][Env(v).gen].state # "none"
               /\ Owner(Env(v)) # Owner(e)
    <3>1. Native(v) /\ Env(v)' = Env(v)
      BY <2>1, <2>2 DEF Native, Env
    <3>2. Env(v).row \in Rows /\ Env(v).gen \in Gens
      BY <3>1, WorkerFacts DEF Native
    <3>3. steps[Env(v).row][Env(v).gen].state # "none"
      BY <3>1 DEF SlotInv, NativeStepsAreOwn
    <3>4. Env(v).row # e.row \/ Env(v).gen # e.gen
      BY <1>2, <3>3 DEF NoReceipt
    <3>. QED BY <3>1, <3>2, <3>3, <3>4 DEF Owner
  <2>3. Env(w)' = e
    BY <2>1 DEF Env
  <2>4. ASSUME NEW v \in Workers, Native(v)'
        PROVE  steps'[Env(v)'.row][Env(v)'.gen].state # "none"
    <3>1. CASE v = w
      BY <1>3, <2>3, <3>1
    <3>2. CASE v # w
      BY <1>3, <2>2, <2>4, <3>2
    <3>. QED BY <3>1, <3>2
  <2>5. ASSUME NEW u \in Workers, NEW v \in Workers, Native(u)', Native(v)', u # v
        PROVE  Owner(Env(u)') # Owner(Env(v)')
    <3>1. CASE u = w
      BY <2>2, <2>3, <2>5, <3>1
    <3>2. CASE v = w
      BY <2>2, <2>3, <2>5, <3>2
    <3>3. CASE u # w /\ v # w
      BY <2>2, <2>5, <3>3 DEF SlotInv, NativeStepsAreOwn
    <3>. QED BY <3>1, <3>2, <3>3
  <2>. QED BY <2>4, <2>5 DEF NativeStepsAreOwn, Owner
<1>. QED BY <1>5, <1>6, <1>7, <1>8 DEF SlotInv

\* Every step but the start of a native one opens no receipt.
LEMMA NextSlotKept ==
    ASSUME TypeOK, MidCall, SlotInv, [Next]_vars
    PROVE  SlotKept \/ \E w \in Workers, e \in mail : StartStep(w, e)
<1>2. AbsentRowsAreNew /\ SlotOwnerIsRunning
  BY DEF SlotInv
<1>3. ASSUME NEW e \in mail, PublishFails(e) \/ PublicationFailed(e) \/ StatusRead(e)
      PROVE  SlotKept
  <2>1. e.row \in Rows /\ outbox[e.row].state = "dispatched" /\ UNCHANGED <<control, steps, workers>>
    BY <1>3 DEF PublishFails, PublicationFailed, StatusRead, ReleaseClaim, RecordPublication,
                ReadStepStatus, TypeOK, Envelopes
  <2>2. \/ outbox' = [outbox EXCEPT ![e.row].state = "ready", ![e.row].lease = "none"]
        \/ outbox' = [outbox EXCEPT ![e.row].lease = "live"]
    BY <1>3 DEF PublishFails, PublicationFailed, StatusRead, ReleaseClaim, RecordPublication,
                ReadStepStatus, ReturnToReady
  <2>. QED BY <2>1, <2>2, LeaseSlot
<1>4. CASE Transport
  BY <1>3, <1>4, ClaimSlot, TaskSlot DEF Transport
<1>5. CASE Process
  BY <1>2, <1>5, RunStepSlot, PrepareSlot, CallSlot, FinalizeSlot, EndStepSlot DEF Process
<1>6. CASE Recovery \/ Deadlines \/ Switch
  BY <1>2, <1>6, ClockSlot, RecoverExecutionSlot DEF Recovery
<1>7. CASE UNCHANGED vars
  BY <1>7, QuietSlot, QuietRows DEF vars, SlotKept, NoNewNative, Native, Env
<1>. QED BY <1>4, <1>5, <1>6, <1>7 DEF Next

\* Every step of the system keeps the slot exclusive.
LEMMA NextSlot == TypeOK /\ MidCall /\ SlotInv /\ [Next]_vars => SlotInv'
BY NextSlotKept, SlotFrame, StartStepSlot

\* One native process passes its fence at a time: the fence names the owner of
\* the slot, and no two processes share a receipt.
LEMMA OneWriter == SlotInv => SingleFencedWriter
<1>. SUFFICES ASSUME SlotInv, NEW v \in Workers, NEW w \in Workers, v # w,
                     workers[v] # Idle, workers[w] # Idle,
                     Env(v).via = "cloudflare", Env(w).via = "cloudflare",
                     Guard(Env(v)), Guard(Env(w))
              PROVE  FALSE
  BY DEF SingleFencedWriter
<1>1. control.owner = Owner(Env(v)) /\ control.owner = Owner(Env(w))
  BY DEF Guard, LocalGuard, OwnedStep
<1>. QED BY <1>1 DEF SlotInv, NativeStepsAreOwn, Native

\* No step is open at the start.
LEMMA InitSlot == Init => SlotInv
<1>. SUFFICES ASSUME Init PROVE SlotInv
  OBVIOUS
<1>1. control.owner = NoOwner
  BY DEF Init, RuntimeInit
<1>2. \A r \in Rows : outbox[r].gen = 0 /\ \A g \in Gens : steps[r][g].state = "none"
  BY DEF Init, RuntimeInit, NoReceipt
<1>3. \A w \in Workers : ~Native(w)
  BY DEF Init, Native
<1>. QED BY <1>1, <1>2, <1>3 DEF SlotInv, SlotOwnerIsRunning, OpenStepIsCurrent,
                                 AbsentRowsAreNew, NativeStepsAreOwn, Receipts

\* The slot is exclusive in every behaviour, for any number of processes, rows,
\* generations and runtime epochs: its owner is running, the open step of a row
\* is of its newest generation, and two native processes never both write,
\* whatever deadlines pass while they run.
THEOREM SlotStaysExclusive == Spec => []SlotIsExclusive
<1>1. SlotInv => SlotIsExclusive
  BY OneWriter DEF SlotInv, SlotIsExclusive
<1>. QED BY <1>1, InitSlot, NextSlot, TypeCorrect, PTL DEF Spec

----------------------------------------------------------------------------
(* Doubt, while the operator keeps the runtime.                            *)

\* Whatever is on its way, and whoever is at work, belongs to the runtime.
EnvelopesOfRuntime ==
    /\ \A e \in mail : e.via = control.backend
    /\ \A w \in Workers : workers[w] # Idle => Env(w).via = control.backend

\* Under Celery the submitting intent of an operation is open until it handed
\* the operation to its child, which is open until the operation is settled.
Followed(o) ==
    /\ outbox[Parent(o)].state \in {"ready", "dispatched", "done"}
    /\ outbox[Parent(o)].state = "done" => outbox[Child(o)].state # "absent"
    /\ outbox[Child(o)].state # "failed"
    /\ outbox[Child(o)].state = "done" => ops[o].status \in Settled

\* Under Cloudflare an operation is submitted by a step that leaves its receipt,
\* and the intent that submitted it is not offered again.
Receipted(o) ==
    ops[o].status # "reserved" =>
        /\ Receipts(Parent(o), ReceiptStates \ {"none"}) # {}
        /\ outbox[Parent(o)].state # "ready"

\* Inductive form of DoubtIsFollowed under one runtime.
DoubtInv ==
    /\ EnvelopesOfRuntime
    /\ control.backend = "celery" => \A o \in Ops : Followed(o)
    /\ control.backend = "cloudflare" => \A o \in Ops : Receipted(o)

\* A process stops or goes on with the envelope it has.
EnvelopesKept == \A w \in Workers :
    workers'[w] # Idle => workers[w] # Idle /\ Env(w)' = Env(w)

\* What a handler leaves in its process.
LEMMA OnwardKept ==
    ASSUME TypeOK, NEW w \in Workers, workers[w].phase \in Phases,
           NEW next, next = Idle \/ next.env = Env(w),
           workers' = [workers EXCEPT ![w] = next]
    PROVE  EnvelopesKept
<1>1. workers[w] # Idle
  BY DEF Idle, Phases
<1>2. workers'[w] = next /\ \A v \in Workers : v # w => workers'[v] = workers[v]
  BY DEF TypeOK
<1>. QED BY <1>1, <1>2 DEF EnvelopesKept, Env

\* Leaving a handler transaction keeps the envelope of the process.
LEMMA ReturnKept ==
    ASSUME TypeOK, NEW w \in Workers, workers[w].phase \in Phases, NEW word, Return(w, word)
    PROVE  EnvelopesKept
<1>. DEFINE next == IF Env(w).via = "cloudflare" THEN At("wrapup", Env(w), word, FALSE) ELSE Idle
<1>1. next = Idle \/ next.env = Env(w)
  BY DEF At
<1>2. LeaveSession(w, next)
  BY DEF Return
<1>. HIDE DEF next
<1>3. workers' = [workers EXCEPT ![w] = next] \/ workers' = [workers EXCEPT ![w] = Idle]
  BY <1>2 DEF LeaveSession, Become
<1>. QED BY <1>1, <1>3, OnwardKept

\* Every step of a process keeps its envelope.
LEMMA ProcessKept ==
    ASSUME TypeOK, MidCall, NEW w \in Workers,
           \/ RunStep(w) \/ Prepare(w) \/ CallSubmit(w) \/ CallStatus(w)
           \/ Finalize(w) \/ WrapUp(w) \/ FailStep(w) \/ Crash(w)
    PROVE  EnvelopesKept
<1>1. workers[w].phase \in Phases
  BY WorkerFacts DEF RunStep, Prepare, CallSubmit, CallStatus, Finalize, WrapUp, FailStep,
                     Crash, Busy, Phases
<1>2. Become(w, Idle) => EnvelopesKept
  BY <1>1, OnwardKept DEF Become
<1>3. ASSUME NEW phase, NEW word, NEW ref, Become(w, At(phase, Env(w), word, ref))
      PROVE  EnvelopesKept
  <2>1. At(phase, Env(w), word, ref).env = Env(w)
    BY DEF At
  <2>. QED BY <1>1, <1>3, <2>1, OnwardKept DEF Become
<1>4. ASSUME NEW word, Return(w, word)
      PROVE  EnvelopesKept
  BY <1>1, <1>4, ReturnKept
<1>5. CASE RunStep(w) \/ WrapUp(w) \/ FailStep(w) \/ Crash(w)
  BY <1>2, <1>5 DEF RunStep, WrapUp, FailStep, Crash
<1>6. CASE CallSubmit(w) \/ CallStatus(w)
  BY <1>3, <1>6 DEF CallSubmit, CallStatus
<1>7. CASE Prepare(w)
  BY <1>2, <1>3, <1>4, <1>7 DEF Prepare, LoseFence, PrepareStale, PrepareBlocked, PrepareSubmit,
                               PrepareUncertain, PreparePoll, PrepareSettled
<1>8. CASE Finalize(w)
  BY <1>2, <1>4, <1>8 DEF Finalize, LoseFence, Record, RecordStale
<1>. QED BY <1>5, <1>6, <1>7, <1>8

\* As long as the runtime stays, all envelopes are its own.
LEMMA NextEnvelopes ==
    ASSUME TypeOK, MidCall, EnvelopesOfRuntime, [Next]_vars, control'.backend = control.backend
    PROVE  EnvelopesOfRuntime'
<1>1. EnvelopesKept /\ mail' = mail => EnvelopesOfRuntime'
  BY DEF EnvelopesKept, EnvelopesOfRuntime
<1>2. ASSUME NEW r \in Rows, Dispatch(r) \/ Sweep(r) \/ ClaimCycle(r)
      PROVE  EnvelopesOfRuntime'
  <2>1. PICK backend, expiredOnly : Claim(r, backend, expiredOnly)
    BY <1>2 DEF Dispatch, Sweep, ClaimCycle
  <2>2. /\ control.backend = backend /\ workers' = workers
        /\ mail' = mail \cup {[row |-> r, gen |-> outbox[r].gen + 1,
                               epoch |-> control.epoch, via |-> backend]}
    BY <2>1 DEF Claim, ClaimRow
  <2>. QED BY <2>2 DEF EnvelopesOfRuntime, Env
<1>3. ASSUME NEW e \in mail, NEW w \in Workers, StartStep(w, e) \/ StartTask(w, e)
      PROVE  EnvelopesOfRuntime'
  <2>1. PICK f : /\ f.via = e.via
                 /\ workers' = [workers EXCEPT ![w] = At("claimed", f, "nothing", FALSE)]
    <3>1. CASE StartStep(w, e)
      BY <3>1 DEF StartStep, Become
    <3>2. CASE StartTask(w, e)
      <4>1. [e EXCEPT !.epoch = control.epoch].via = e.via
        BY DEF TypeOK, Envelopes
      <4>. QED BY <3>2, <4>1 DEF StartTask, Become
    <3>. QED BY <1>3, <3>1, <3>2
  <2>2. /\ workers'[w].env = f
        /\ \A v \in Workers : v # w => workers'[v] = workers[v]
    BY <2>1 DEF At, TypeOK
  <2>3. mail' = mail
    BY <1>3 DEF StartStep, StartTask
  <2>. QED BY <2>1, <2>2, <2>3 DEF EnvelopesOfRuntime, Env
<1>4. CASE UNCHANGED <<workers, mail>>
  BY <1>1, <1>4 DEF EnvelopesKept, Env
<1>5. CASE Transport
  BY <1>2, <1>3, <1>4, <1>5 DEF Transport, PublishFails, PublicationFailed, StatusRead, RunTask
<1>6. CASE Process
  <2>1. mail' = mail
    BY <1>6 DEF Process, RunStep, Prepare, CallSubmit, CallStatus, Finalize, WrapUp, FailStep, Crash
  <2>. QED BY <1>1, <1>6, <2>1, ProcessKept DEF Process
<1>7. CASE Recovery \/ Deadlines \/ Switch \/ UNCHANGED vars
  BY <1>4, <1>7 DEF Recovery, RecoverSlot, RecoverExecution, Deadlines, SlotDeadline, RowDeadline,
                    StepDeadline, Switch, Frame, vars
<1>. QED BY <1>5, <1>6, <1>7 DEF Next

\* A row that stays open where it was open, and an operation that stays settled,
\* leave every operation as followed as it was.
LEMMA FollowedFrame ==
    ASSUME TypeOK, \A o \in Ops : Followed(o),
           \A o \in Ops : ops[o].status \in Settled => ops'[o].status \in Settled,
           \A q \in Rows : \/ Kind(q) = "local"
                           \/ outbox'[q].state = outbox[q].state
                           \/ {outbox[q].state, outbox'[q].state} \subseteq {"ready", "dispatched"}
    PROVE  \A o \in Ops : Followed(o)'
<1>. SUFFICES ASSUME NEW o \in Ops
              PROVE  Followed(o)'
  OBVIOUS
<1>1. /\ Followed(o)
      /\ ops[o].status \in Settled => ops'[o].status \in Settled
  OBVIOUS
<1>2. \A q \in {Parent(o), Child(o)} :
        \/ outbox'[q].state = outbox[q].state
        \/ {outbox[q].state, outbox'[q].state} \subseteq {"ready", "dispatched"}
  BY IntentFacts
<1>. QED BY <1>1, <1>2 DEF Followed

\* Handing an operation to its child, which was not queued before.
LEMMA FollowedHandOver ==
    ASSUME TypeOK, CallsAgree, \A o \in Ops : Followed(o),
           NEW o \in Ops, outbox[Parent(o)].state = "dispatched",
           outbox' = QueueReconciliation(Parent(o), outbox),
           \A p \in Ops : p # o => ops'[p] = ops[p]
    PROVE  \A p \in Ops : Followed(p)'
<1>1. /\ Parent(o) \in Rows /\ Child(o) \in Rows /\ Kind(Parent(o)) = "external"
      /\ Subject(Parent(o)) = o /\ Child(o) # Parent(o)
      /\ outbox \in [Rows -> RowRecord]
  BY IntentFacts DEF TypeOK, RuntimeTypeOK
<1>2. outbox[Child(o)].state = "absent"
  BY DEF CallsAgree
<1>3. /\ outbox'[Parent(o)].state = "done" /\ outbox'[Child(o)].state = "ready"
      /\ \A q \in Rows : q # Parent(o) /\ q # Child(o) => outbox'[q] = outbox[q]
  <2>1. /\ outbox'[Parent(o)].state = "done"
        /\ \A q \in Rows : q # Parent(o) /\ q # Child(o) => outbox'[q] = outbox[q]
    BY <1>1, QueueReconciliationRows
  <2>2. outbox'[Child(o)].state = "ready"
    BY <1>1, <1>2 DEF QueueReconciliation
  <2>. QED BY <2>1, <2>2
<1>4. Followed(o)'
  BY <1>3 DEF Followed
<1>5. ASSUME NEW p \in Ops, p # o
      PROVE  Followed(p)'
  <2>1. outbox'[Parent(p)] = outbox[Parent(p)] /\ outbox'[Child(p)] = outbox[Child(p)]
    BY <1>3, <1>5, IntentFacts
  <2>. QED BY <1>5, <2>1 DEF Followed
<1>. QED BY <1>4, <1>5

\* Under Celery every step keeps every operation followed.
LEMMA CeleryFollows ==
    ASSUME TypeOK, MidCall, CallsAgree, EnvelopesOfRuntime, [Next]_vars,
           control.backend = "celery", \A o \in Ops : Followed(o)
    PROVE  \A o \in Ops : Followed(o)'
<1>0. /\ outbox \in [Rows -> RowRecord] /\ ops \in [Ops -> [status : Statuses, ref : BOOLEAN]]
      /\ \A e \in mail : e.row \in Rows /\ e.via # "cloudflare"
      /\ \A w \in Workers : workers[w] # Idle => Env(w).via # "cloudflare"
  BY DEF TypeOK, RuntimeTypeOK, Envelopes, EnvelopesOfRuntime
<1>1. UNCHANGED <<outbox, ops>> => \A o \in Ops : Followed(o)'
  BY DEF Followed
<1>2. ASSUME NEW r \in Rows, UNCHANGED ops,
             \A q \in Rows : q # r => outbox'[q] = outbox[q],
             \/ Kind(r) = "local"
             \/ {outbox[r].state, outbox'[r].state} \subseteq {"ready", "dispatched"}
      PROVE  \A o \in Ops : Followed(o)'
  BY <1>2, FollowedFrame
<1>3. ASSUME NEW r \in Rows, Dispatch(r) \/ Sweep(r) \/ ClaimCycle(r)
      PROVE  \A o \in Ops : Followed(o)'
  <2>1. /\ outbox[r].state \in {"ready", "dispatched"} /\ ops' = ops
        /\ outbox'[r].state = "dispatched"
        /\ \A q \in Rows : q # r => outbox'[q] = outbox[q]
    BY <1>0, <1>3 DEF Dispatch, Sweep, ClaimCycle, Claim, ClaimRow, Claimable
  <2>. QED BY <1>2, <2>1
<1>4. ASSUME NEW e \in mail, PublishFails(e) \/ PublicationFailed(e) \/ StatusRead(e)
      PROVE  \A o \in Ops : Followed(o)'
  <2>1. /\ outbox[e.row].state = "dispatched" /\ ops' = ops
        /\ outbox'[e.row].state = "ready"
        /\ \A q \in Rows : q # e.row => outbox'[q] = outbox[q]
    BY <1>0, <1>4 DEF PublishFails, PublicationFailed, StatusRead, ReleaseClaim,
                      ReturnToReady, RowRecord
  <2>. QED BY <1>0, <1>2, <2>1
<1>5. ASSUME NEW e \in mail, RunTask(e)
      PROVE  \A o \in Ops : Followed(o)'
  <2>1. /\ Kind(e.row) = "local" /\ ops' = ops
        /\ \A q \in Rows : q # e.row => outbox'[q] = outbox[q]
    BY <1>0, <1>5 DEF RunTask, RunIntent, CloseRow
  <2>. QED BY <1>0, <1>2, <2>1
<1>6. CASE Transport
  <2>1. ASSUME NEW w \in Workers, NEW e \in mail, StartStep(w, e) \/ StartTask(w, e)
        PROVE  UNCHANGED <<outbox, ops>>
    BY <1>0, <2>1 DEF StartStep, StartTask
  <2>. QED BY <1>1, <1>3, <1>4, <1>5, <1>6, <2>1 DEF Transport
<1>7. ASSUME NEW w \in Workers, RunStep(w)
      PROVE  UNCHANGED <<outbox, ops>>
  <2>1. ~LocalGuard(Env(w))
    BY DEF LocalGuard, OwnedStep, Selected
  <2>. QED BY <1>7, <2>1 DEF RunStep
<1>8. ASSUME NEW w \in Workers, Prepare(w)
      PROVE  \A o \in Ops : Followed(o)'
  <2>. DEFINE o == Subject(Env(w).row)
  <2>1. /\ workers[w].phase \in Phases /\ Kind(Env(w).row) # "local"
    BY <1>8, WorkerFacts DEF Prepare, Busy, Phases
  <2>2. /\ o \in Ops /\ Env(w).row \in Rows
        /\ Kind(Env(w).row) = "external" => Env(w).row = Parent(o)
    BY <2>1, OperationOf
  <2>3. CASE PrepareSubmit(w)
    <3>1. /\ ops[o].status = "reserved" /\ UNCHANGED outbox
          /\ ops' = [ops EXCEPT ![o].status = "submitting"]
      BY <2>3 DEF PrepareSubmit
    <3>2. \A p \in Ops : ops[p].status \in Settled => ops'[p].status \in Settled
      BY <1>0, <2>2, <3>1 DEF Settled
    <3>. QED BY <3>1, <3>2, FollowedFrame
  <2>4. CASE PrepareUncertain(w)
    <3>1. /\ ops[o].status \in UNCERTAIN /\ outbox[Env(w).row].state = "dispatched"
          /\ ops' = [ops EXCEPT ![o].status = Interrupted(@)]
          /\ outbox' = IF Kind(Env(w).row) = "external"
                       THEN QueueReconciliation(Env(w).row, outbox) ELSE outbox
      BY <2>4 DEF PrepareUncertain
    <3>2. \A p \in Ops : p # o => ops'[p] = ops[p]
      BY <1>0, <3>1
    <3>3. \A p \in Ops : ops[p].status \in Settled => ops'[p].status \in Settled
      BY <3>1, <3>2 DEF Settled, UNCERTAIN
    <3>4. CASE Kind(Env(w).row) = "external"
      BY <2>2, <3>1, <3>2, <3>4, FollowedHandOver
    <3>5. CASE Kind(Env(w).row) # "external"
      BY <3>1, <3>3, <3>5, FollowedFrame
    <3>. QED BY <3>4, <3>5
  <2>5. CASE ~PrepareSubmit(w) /\ ~PrepareUncertain(w)
    BY <1>1, <1>8, <2>5 DEF Prepare, LoseFence, PrepareStale, PrepareBlocked, PreparePoll,
                            PrepareSettled
  <2>. QED BY <2>3, <2>4, <2>5
<1>9. ASSUME NEW w \in Workers, Finalize(w)
      PROVE  \A o \in Ops : Followed(o)'
  <2>. DEFINE r == Env(w).row
              o == Subject(r)
              state == Observed(workers[w].word)
  <2>1. /\ workers[w].phase = "answered" /\ workers[w].phase \in Phases
        /\ workers[w].phase \in Calling
    BY <1>9 DEF Finalize, Busy, Phases, Calling
  <2>2. /\ Kind(r) \in {"external", "reconcile"} /\ state \in UNCERTAIN \cup Settled
    BY <2>1, ObservedFacts
  <2>3. /\ o \in Ops /\ r \in Rows
        /\ Kind(r) = "external" => r = Parent(o)
        /\ Kind(r) = "reconcile" => r = Child(o)
    BY <2>1, <2>2, OperationOf
  <2>4. CASE Record(w)
    <3>1. /\ outbox[r].state = "dispatched"
          /\ ops' = [ops EXCEPT ![o] = [status |-> state, ref |-> @.ref \/ workers[w].ref]]
          /\ outbox' = RowAfter(r, state)
      BY <2>4 DEF Record
    <3>2. /\ ops'[o].status = state
          /\ \A p \in Ops : p # o => ops'[p] = ops[p]
      BY <1>0, <2>3, <3>1
    <3>. HIDE DEF state
    <3>3. CASE Kind(r) = "external"
      <4>1. outbox' = QueueReconciliation(r, outbox)
        BY <3>1, <3>3 DEF RowAfter
      <4>. QED BY <2>3, <3>1, <3>2, <3>3, <4>1, FollowedHandOver
    <3>4. CASE Kind(r) = "reconcile"
      <4>1. ASSUME NEW p \in Ops, p # o
            PROVE  Followed(p)'
        <5>1. \A q \in Rows : q # r => outbox'[q] = outbox[q]
          BY <1>0, <3>1, <3>4 DEF RowAfter
        <5>2. Parent(p) \in Rows /\ Child(p) \in Rows /\ Parent(p) # r /\ Child(p) # r
          BY <2>3, <3>4, <4>1, IntentFacts
        <5>3. outbox'[Parent(p)] = outbox[Parent(p)] /\ outbox'[Child(p)] = outbox[Child(p)]
          BY <5>1, <5>2
        <5>. QED BY <3>2, <4>1, <5>3 DEF Followed
      <4>2. ASSUME NEW p \in Ops, p = o
            PROVE  Followed(p)'
        <5>1. r = Child(p) /\ Parent(p) # r /\ Parent(p) \in Rows
          BY <2>3, <3>4, <4>2, IntentFacts
        <5>2. outbox'[Parent(p)] = outbox[Parent(p)]
          BY <1>0, <3>1, <3>4, <5>1 DEF RowAfter
        <5>3. outbox'[Child(p)].state = IF state \in Settled THEN "done" ELSE "dispatched"
          BY <1>0, <2>3, <3>1, <3>4, <5>1 DEF RowAfter, RowRecord
        <5>4. /\ Followed(p) /\ ops'[p].status = state
          BY <3>2, <4>2
        <5>. HIDE DEF o, r
        <5>. QED BY <5>2, <5>3, <5>4 DEF Followed
      <4>. QED BY <4>1, <4>2
    <3>. QED BY <2>2, <3>3, <3>4
  <2>5. CASE ~Record(w)
    BY <1>1, <1>9, <2>5 DEF Finalize, LoseFence, RecordStale
  <2>. QED BY <2>4, <2>5
<1>10. CASE Process
  <2>1. ASSUME NEW w \in Workers,
               CallSubmit(w) \/ CallStatus(w) \/ WrapUp(w) \/ FailStep(w) \/ Crash(w)
        PROVE  UNCHANGED <<outbox, ops>>
    BY <2>1 DEF CallSubmit, CallStatus, WrapUp, FailStep, Crash
  <2>. QED BY <1>1, <1>7, <1>8, <1>9, <1>10, <2>1 DEF Process
<1>11. ASSUME NEW r \in Rows, RowDeadline(r)
       PROVE  \A o \in Ops : Followed(o)'
  <2>1. /\ outbox[r].state = "dispatched" /\ ops' = ops
        /\ outbox'[r].state = "dispatched"
        /\ \A q \in Rows : q # r => outbox'[q] = outbox[q]
    BY <1>0, <1>11 DEF RowDeadline, ExpireRow, Frame, RowRecord
  <2>. QED BY <1>2, <2>1
<1>12. CASE Recovery \/ SlotDeadline \/ Switch \/ (\E r \in Rows : StepDeadline(r)) \/ UNCHANGED vars
  BY <1>1, <1>12 DEF Recovery, RecoverSlot, RecoverExecution, Recovering, SlotDeadline, ExpireSlot,
                     Switch, SetExecutionRuntime, StepDeadline, ExpireStep, Frame, vars
<1>. QED BY <1>6, <1>10, <1>11, <1>12 DEF Next, Deadlines

\* A receipt, once opened, exists for good.
LEMMA ReceiptsLast ==
    ASSUME TypeOK, MidCall, SlotInv, [Next]_vars, NEW r \in Rows,
           Receipts(r, ReceiptStates \ {"none"}) # {}
    PROVE  Receipts(r, ReceiptStates \ {"none"})' # {}
<1>. SUFFICES \A g \in Gens : steps[r][g].state \in ReceiptStates \ {"none"} =>
                                  steps'[r][g].state \in ReceiptStates \ {"none"}
  BY DEF Receipts
<1>1. CASE SlotKept
  BY <1>1 DEF SlotKept, StepsClose, Closed, ReceiptStates
<1>2. ASSUME NEW w \in Workers, NEW e \in mail, StartStep(w, e)
      PROVE  \A g \in Gens : steps[r][g].state \in ReceiptStates \ {"none"} =>
                                 steps'[r][g].state \in ReceiptStates \ {"none"}
  <2>1. /\ steps \in [Rows -> [Gens -> ReceiptRecord]]
        /\ steps' = [steps EXCEPT ![e.row][e.gen] = [state |-> "running", lease |-> "live"]]
    BY <1>2 DEF TypeOK, RuntimeTypeOK, StartStep, ClaimExecutionStep
  <2>. QED BY <2>1 DEF ReceiptStates
<1>. QED BY <1>1, <1>2, NextSlotKept

\* An operation leaves "reserved" in one place: its submitting intent, dispatched
\* and fenced, commits the submission before it makes the call (_prepare).
LEMMA SubmissionIsFenced ==
    ASSUME TypeOK, MidCall, CallsAgree, [Next]_vars, NEW o \in Ops,
           ops[o].status = "reserved", ops'[o].status # "reserved"
    PROVE  \E w \in Workers :
             /\ workers[w] # Idle /\ Env(w) \in Envelopes /\ Env(w).row = Parent(o)
             /\ Guard(Env(w)) /\ outbox[Parent(o)].state = "dispatched"
             /\ UNCHANGED <<outbox, steps>>
<1>0. ops \in [Ops -> [status : Statuses, ref : BOOLEAN]]
  BY DEF TypeOK
<1>1. ASSUME NEW w \in Workers, Prepare(w)
      PROVE  \E v \in Workers :
               /\ workers[v] # Idle /\ Env(v) \in Envelopes /\ Env(v).row = Parent(o)
               /\ Guard(Env(v)) /\ outbox[Parent(o)].state = "dispatched"
               /\ UNCHANGED <<outbox, steps>>
  <2>1. /\ workers[w].phase \in Phases /\ workers[w] # Idle /\ Env(w) \in Envelopes
        /\ Kind(Env(w).row) # "local"
    BY <1>1, WorkerFacts DEF Prepare, Busy, Phases, Idle
  <2>2. PrepareSubmit(w)
    <3>1. ASSUME PrepareUncertain(w)
          PROVE  FALSE
      BY <1>0, <3>1 DEF PrepareUncertain, UNCERTAIN
    <3>. QED BY <1>1, <3>1 DEF Prepare, LoseFence, PrepareStale, PrepareBlocked, PreparePoll,
                               PrepareSettled
  <2>3. /\ Guard(Env(w)) /\ outbox[Env(w).row].state = "dispatched"
        /\ Kind(Env(w).row) = "external" /\ UNCHANGED <<outbox, steps>>
        /\ ops' = [ops EXCEPT ![Subject(Env(w).row)].status = "submitting"]
    <3>1. PrepareSubmit(w) => ~LoseFence(w)
      BY <1>0 DEF PrepareSubmit, LoseFence
    <3>. QED BY <1>1, <2>2, <3>1 DEF Prepare, PrepareSubmit
  <2>4. Subject(Env(w).row) = o
    BY <1>0, <2>3
  <2>5. Env(w).row = Parent(o)
    BY <2>1, <2>3, <2>4, OperationOf
  <2>. QED BY <2>1, <2>3, <2>5
<1>2. ASSUME NEW w \in Workers, Finalize(w)
      PROVE  FALSE
  <2>1. workers[w].phase = "answered"
    BY <1>2 DEF Finalize, Busy
  <2>2. ops[Subject(Env(w).row)].status # "reserved"
    BY <2>1 DEF CallsAgree
  <2>3. Record(w)
    BY <1>2 DEF Finalize, LoseFence, RecordStale
  <2>. QED BY <1>0, <2>2, <2>3 DEF Record
<1>3. CASE Transport
  <2>1. UNCHANGED ops
    BY <1>3 DEF Transport, Dispatch, Sweep, ClaimCycle, Claim, PublishFails, PublicationFailed,
                StatusRead, RunTask, StartStep, StartTask
  <2>. QED BY <2>1
<1>4. CASE Process
  <2>1. ASSUME NEW w \in Workers, RunStep(w) \/ CallSubmit(w) \/ CallStatus(w) \/ WrapUp(w)
                                  \/ FailStep(w) \/ Crash(w)
        PROVE  UNCHANGED ops
    BY <2>1 DEF RunStep, CallSubmit, CallStatus, WrapUp, FailStep, Crash
  <2>. QED BY <1>1, <1>2, <1>4, <2>1 DEF Process
<1>5. CASE Recovery \/ Deadlines \/ Switch \/ UNCHANGED vars
  BY <1>5 DEF Recovery, RecoverSlot, RecoverExecution, Deadlines, SlotDeadline, RowDeadline,
              StepDeadline, Switch, Frame, vars
<1>. QED BY <1>3, <1>4, <1>5 DEF Next

\* Queueing the child of one operation makes no submitting intent ready.
LEMMA HandOverReadiesNoParent ==
    ASSUME TypeOK, NEW r \in Rows, Kind(r) # "local", outbox[r].state = "dispatched",
           NEW o \in Ops, QueueReconciliation(r, outbox)[Parent(o)].state = "ready"
    PROVE  outbox[Parent(o)].state = "ready"
<1>1. Parent(o) \in Rows /\ Parent(o) # Child(Subject(r))
  BY RowFacts, IntentFacts
<1>2. Parent(o) # r
  BY QueueReconciliationRows
<1>. QED BY <1>1, <1>2, QueueReconciliationRows

\* Under Cloudflare no step makes the intent of a submitted operation ready again.
LEMMA SubmittedStaysClosed ==
    ASSUME TypeOK, MidCall, CallsAgree, EnvelopesOfRuntime, [Next]_vars,
           control.backend = "cloudflare", NEW o \in Ops, Receipted(o),
           ops[o].status # "reserved"
    PROVE  outbox'[Parent(o)].state # "ready"
<1>0. /\ outbox \in [Rows -> RowRecord] /\ ops \in [Ops -> [status : Statuses, ref : BOOLEAN]]
      /\ \A e \in mail : e.row \in Rows /\ e.via # "celery"
      /\ Parent(o) \in Rows /\ Kind(Parent(o)) = "external" /\ Subject(Parent(o)) = o
  BY IntentFacts DEF TypeOK, RuntimeTypeOK, Envelopes, EnvelopesOfRuntime
<1>. SUFFICES ASSUME outbox'[Parent(o)].state = "ready"
              PROVE  outbox[Parent(o)].state = "ready"
  BY DEF Receipted
<1>1. UNCHANGED outbox => outbox[Parent(o)].state = "ready"
  OBVIOUS
<1>2. ASSUME NEW r \in Rows, outbox'[r].state # "ready" \/ outbox'[r].state = outbox[r].state,
             \A q \in Rows : q # r => outbox'[q] = outbox[q]
      PROVE  outbox[Parent(o)].state = "ready"
  BY <1>0, <1>2
<1>3. ASSUME NEW r \in Rows, Dispatch(r) \/ Sweep(r) \/ ClaimCycle(r)
      PROVE  outbox[Parent(o)].state = "ready"
  <2>1. outbox'[r].state = "dispatched" /\ \A q \in Rows : q # r => outbox'[q] = outbox[q]
    BY <1>0, <1>3 DEF Dispatch, Sweep, ClaimCycle, Claim, ClaimRow
  <2>. QED BY <1>2, <2>1
<1>4. ASSUME NEW e \in mail, PublishFails(e) \/ PublicationFailed(e) \/ StatusRead(e)
      PROVE  outbox[Parent(o)].state = "ready"
  <2>1. CASE PublicationFailed(e)
    <3>1. Receipts(e.row, ReceiptStates \ {"none"}) = {}
          /\ \A q \in Rows : q # e.row => outbox'[q] = outbox[q]
      BY <1>0, <2>1 DEF PublicationFailed, RecordPublication, ReturnToReady
    <3>2. Parent(o) # e.row
      BY <3>1 DEF Receipted
    <3>. QED BY <1>0, <3>1, <3>2
  <2>2. CASE StatusRead(e)
    <3>1. /\ outbox'[e.row].state = outbox[e.row].state
          /\ \A q \in Rows : q # e.row => outbox'[q] = outbox[q]
      BY <1>0, <2>2 DEF StatusRead, ReadStepStatus, RowRecord
    <3>. QED BY <1>0, <1>2, <3>1
  <2>3. CASE PublishFails(e)
    BY <1>0, <2>3 DEF PublishFails
  <2>. QED BY <1>4, <2>1, <2>2, <2>3
<1>5. ASSUME NEW e \in mail, NEW w \in Workers, StartStep(w, e)
      PROVE  outbox[Parent(o)].state = "ready"
  <2>1. /\ outbox'[e.row].state = outbox[e.row].state
        /\ \A q \in Rows : q # e.row => outbox'[q] = outbox[q]
    BY <1>0, <1>5 DEF StartStep, ClaimExecutionStep, RowRecord
  <2>. QED BY <1>0, <1>2, <2>1
<1>6. ASSUME NEW r \in Rows, RunIntent(r)
      PROVE  outbox[Parent(o)].state = "ready"
  <2>1. outbox'[r].state # "ready" /\ \A q \in Rows : q # r => outbox'[q] = outbox[q]
    BY <1>0, <1>6 DEF RunIntent, CloseRow, TERMINAL_STATES, RowRecord
  <2>. QED BY <1>2, <2>1
<1>7. CASE Transport
  BY <1>0, <1>1, <1>3, <1>4, <1>5, <1>6, <1>7 DEF Transport, RunTask, StartTask
<1>8. ASSUME NEW w \in Workers, RunStep(w)
      PROVE  outbox[Parent(o)].state = "ready"
  <2>1. Env(w).row \in Rows
    BY <1>8, WorkerFacts DEF RunStep, Busy, Phases
  <2>. QED BY <1>1, <1>6, <1>8, <2>1 DEF RunStep
<1>9. ASSUME NEW w \in Workers, Prepare(w)
      PROVE  outbox[Parent(o)].state = "ready"
  <2>1. Env(w).row \in Rows /\ Kind(Env(w).row) # "local"
    BY <1>9, WorkerFacts DEF Prepare, Busy, Phases
  <2>2. \/ outbox[Env(w).row].state = "dispatched"
           /\ outbox' = QueueReconciliation(Env(w).row, outbox)
        \/ UNCHANGED outbox
    BY <1>9 DEF Prepare, LoseFence, PrepareStale, PrepareBlocked, PrepareSubmit, PrepareUncertain,
                PreparePoll, PrepareSettled
  <2>. QED BY <1>1, <2>1, <2>2, HandOverReadiesNoParent
<1>10. ASSUME NEW w \in Workers, Finalize(w)
       PROVE  outbox[Parent(o)].state = "ready"
  <2>. DEFINE r == Env(w).row
  <2>1. r \in Rows /\ Kind(r) # "local"
    BY <1>10, WorkerFacts, ObservedFacts DEF Finalize, Busy, Phases
  <2>2. \/ /\ outbox[r].state = "dispatched"
           /\ outbox' = RowAfter(r, Observed(workers[w].word))
        \/ UNCHANGED outbox
    BY <1>10 DEF Finalize, LoseFence, Record, RecordStale
  <2>3. \/ outbox[r].state = "dispatched" /\ outbox' = QueueReconciliation(r, outbox)
        \/ outbox' = [outbox EXCEPT ![r].state = "done", ![r].lease = "none"]
        \/ UNCHANGED outbox
    BY <2>2 DEF RowAfter
  <2>4. ASSUME outbox' = [outbox EXCEPT ![r].state = "done", ![r].lease = "none"]
        PROVE  outbox'[r].state # "ready" /\ \A q \in Rows : q # r => outbox'[q] = outbox[q]
    BY <1>0, <2>1, <2>4 DEF RowRecord
  <2>. QED BY <1>1, <1>2, <2>1, <2>3, <2>4, HandOverReadiesNoParent
<1>11. CASE Process
  <2>1. ASSUME NEW w \in Workers,
               CallSubmit(w) \/ CallStatus(w) \/ WrapUp(w) \/ FailStep(w) \/ Crash(w)
        PROVE  UNCHANGED outbox
    BY <2>1 DEF CallSubmit, CallStatus, WrapUp, FailStep, Crash
  <2>. QED BY <1>1, <1>8, <1>9, <1>10, <1>11, <2>1 DEF Process
<1>12. ASSUME NEW r \in Rows, RecoverExecution(r)
       PROVE  outbox[Parent(o)].state = "ready"
  <2>1. outbox[r].state = "dispatched" /\ ScheduleUncertain(r) \in [Rows -> RowRecord]
    BY <1>0, <1>12, QueueReconciliationType DEF RecoverExecution, Overdue, ScheduleUncertain,
                                                IsUncertain
  <2>2. /\ \A q \in Rows : q # r => outbox'[q] = ScheduleUncertain(r)[q]
        /\ outbox'[r].state = IF ScheduleUncertain(r)[r].state \in TERMINAL_STATES
                              THEN ScheduleUncertain(r)[r].state ELSE "ready"
    <3>. HIDE DEF ScheduleUncertain
    <3>. QED BY <1>12, <2>1 DEF RecoverExecution
  <2>3. CASE IsUncertain(r, ops)
    <3>1. Kind(r) # "local" /\ ScheduleUncertain(r) = QueueReconciliation(r, outbox)
      BY <2>3 DEF ScheduleUncertain, IsUncertain
    <3>2. QueueReconciliation(r, outbox)[r].state = "done"
      BY <2>1, <3>1, QueueReconciliationRows
    <3>3. Parent(o) # r
      BY <2>2, <3>1, <3>2 DEF TERMINAL_STATES
    <3>. QED BY <1>0, <2>1, <2>2, <3>1, <3>3, HandOverReadiesNoParent
  <2>4. CASE ~IsUncertain(r, ops)
    <3>1. ScheduleUncertain(r) = outbox
      BY <2>4 DEF ScheduleUncertain
    <3>2. Parent(o) # r
      <4>. SUFFICES ASSUME Parent(o) = r
                    PROVE  FALSE
        OBVIOUS
      <4>1. ops[o].status \in Settled
        BY <1>0, <2>4 DEF IsUncertain, Statuses, UNCERTAIN, Settled
      <4>. QED BY <2>1, <4>1 DEF CallsAgree
    <3>. QED BY <1>0, <2>2, <3>1, <3>2
  <2>. QED BY <2>3, <2>4
<1>13. ASSUME NEW r \in Rows, RowDeadline(r)
       PROVE  outbox[Parent(o)].state = "ready"
  <2>1. /\ outbox'[r].state = outbox[r].state
        /\ \A q \in Rows : q # r => outbox'[q] = outbox[q]
    BY <1>0, <1>13 DEF RowDeadline, ExpireRow, RowRecord
  <2>. QED BY <1>2, <2>1
<1>14. CASE RecoverSlot \/ SlotDeadline \/ Switch \/ (\E r \in Rows : StepDeadline(r)) \/ UNCHANGED vars
  BY <1>1, <1>14 DEF RecoverSlot, SlotDeadline, ExpireSlot, Switch, SetExecutionRuntime,
                     StepDeadline, ExpireStep, vars
<1>. QED BY <1>7, <1>11, <1>12, <1>13, <1>14 DEF Next, Recovery, Deadlines

\* Under Cloudflare every submitted operation keeps its receipt and stays closed.
LEMMA CloudflareReceipts ==
    ASSUME TypeOK, MidCall, CallsAgree, SlotInv, EnvelopesOfRuntime, [Next]_vars,
           control.backend = "cloudflare", NEW o \in Ops, Receipted(o)
    PROVE  Receipted(o)'
<1>. SUFFICES ASSUME ops'[o].status # "reserved"
              PROVE  /\ Receipts(Parent(o), ReceiptStates \ {"none"})' # {}
                     /\ outbox'[Parent(o)].state # "ready"
  BY DEF Receipted, Parent
<1>0. Parent(o) \in Rows
  BY IntentFacts
<1>1. CASE ops[o].status = "reserved"
  <2>1. PICK w \in Workers :
               /\ workers[w] # Idle /\ Env(w) \in Envelopes /\ Env(w).row = Parent(o)
               /\ Guard(Env(w)) /\ outbox[Parent(o)].state = "dispatched"
               /\ UNCHANGED <<outbox, steps>>
    BY <1>1, SubmissionIsFenced
  <2>2. /\ steps[Parent(o)][Env(w).gen].state = "running" /\ Env(w).gen \in Gens
    BY <2>1 DEF EnvelopesOfRuntime, Guard, LocalGuard, OwnedStep, Envelopes
  <2>3. steps'[Parent(o)][Env(w).gen].state \in ReceiptStates \ {"none"}
    BY <2>1, <2>2 DEF ReceiptStates
  <2>. QED BY <2>1, <2>2, <2>3 DEF Receipts, Parent
<1>2. CASE ops[o].status # "reserved"
  <2>1. Receipts(Parent(o), ReceiptStates \ {"none"})' # {}
    BY <1>0, <1>2, ReceiptsLast DEF Receipted
  <2>. QED BY <1>2, <2>1, SubmittedStaysClosed
<1>. QED BY <1>1, <1>2

\* Every step under one runtime keeps the strengthened invariant.
LEMMA NextDoubt ==
    TypeOK /\ MidCall /\ CallsAgree /\ SlotInv /\ DoubtInv /\ [Next]_vars
    /\ [control'.backend = control.backend]_vars => DoubtInv'
<1>. SUFFICES ASSUME TypeOK, MidCall, CallsAgree, SlotInv, DoubtInv, [Next]_vars,
                     [control'.backend = control.backend]_vars
              PROVE  DoubtInv'
  OBVIOUS
<1>1. control'.backend = control.backend
  BY DEF vars
<1>2. EnvelopesOfRuntime'
  BY <1>1, NextEnvelopes DEF DoubtInv
<1>3. control.backend = "celery" => \A o \in Ops : Followed(o)'
  BY CeleryFollows DEF DoubtInv
<1>4. control.backend = "cloudflare" => \A o \in Ops : Receipted(o)'
  BY CloudflareReceipts DEF DoubtInv
<1>. QED BY <1>1, <1>2, <1>3, <1>4 DEF DoubtInv

\* An operation is asked about after a step that leaves its two intents as they
\* were, or open.
LEMMA AskedFrame ==
    ASSUME NEW o \in Ops, Asked(o),
           \A q \in {Parent(o), Child(o)} : \/ outbox'[q].state = outbox[q].state
                                           \/ outbox'[q].state \in {"ready", "dispatched"}
    PROVE  Asked(o)'
BY DEF Asked, Parent, Child

\* Handing an operation to its status-only child keeps every operation asked about:
\* while the submitting intent is open no child of it was queued before.
LEMMA AskedHandOver ==
    ASSUME TypeOK, CallsAgree, NEW o \in Ops, NEW p \in Ops, Asked(o),
           outbox[Parent(p)].state = "dispatched",
           \A q \in {Parent(o), Child(o)} :
               outbox'[q].state = QueueReconciliation(Parent(p), outbox)[q].state
    PROVE  Asked(o)'
<1>. DEFINE box == QueueReconciliation(Parent(p), outbox)
<1>1. /\ Parent(p) \in Rows /\ Child(p) \in Rows /\ Kind(Parent(p)) = "external"
      /\ Subject(Parent(p)) = p /\ Child(p) # Parent(p)
      /\ Parent(o) \in Rows /\ Child(o) \in Rows
      /\ outbox \in [Rows -> RowRecord]
  BY IntentFacts DEF TypeOK, RuntimeTypeOK
<1>2. /\ box[Child(p)].state = "ready"
      /\ \A q \in Rows : q # Parent(p) /\ q # Child(p) => box[q] = outbox[q]
  <2>1. outbox[Child(p)].state = "absent"
    BY DEF CallsAgree
  <2>2. \A q \in Rows : q # Parent(p) /\ q # Child(p) => box[q] = outbox[q]
    BY <1>1, QueueReconciliationRows
  <2>3. box[Child(p)].state = "ready"
    BY <1>1, <2>1 DEF QueueReconciliation
  <2>. QED BY <2>2, <2>3
<1>. HIDE DEF box
<1>3. CASE p = o
  <2>1. outbox'[Child(o)].state = "ready"
    BY <1>2, <1>3 DEF box
  <2>. QED BY <2>1 DEF Asked, Parent, Child
<1>4. CASE p # o
  <2>1. \A q \in {Parent(o), Child(o)} : q # Parent(p) /\ q # Child(p)
    BY <1>4, IntentFacts
  <2>2. \A q \in {Parent(o), Child(o)} : outbox'[q].state = outbox[q].state
    BY <1>1, <1>2, <2>1 DEF box
  <2>. QED BY <2>2, AskedFrame
<1>. QED BY <1>3, <1>4

\* No step but the recovery of its own status-only child takes the last intent
\* that asks from an operation in doubt.
LEMMA DoubtStaysAsked ==
    ASSUME TypeOK, MidCall, CallsAgree, [Next]_vars, NEW o \in Ops,
           Asked(o), InDoubt(o)', ~RecoverExecution(Child(o))
    PROVE  Asked(o)'
<1>0. /\ outbox \in [Rows -> RowRecord] /\ ops \in [Ops -> [status : Statuses, ref : BOOLEAN]]
      /\ Parent(o) \in Rows /\ Child(o) \in Rows
      /\ Kind(Parent(o)) = "external" /\ Kind(Child(o)) = "reconcile"
      /\ \A e \in mail : e.row \in Rows
      /\ ops'[o].status \in UNCERTAIN
  BY IntentFacts DEF TypeOK, RuntimeTypeOK, Envelopes, InDoubt
<1>1. UNCHANGED outbox => Asked(o)'
  BY AskedFrame
<1>2. ASSUME NEW r \in Rows, \A q \in Rows : q # r => outbox'[q] = outbox[q],
             \/ Kind(r) = "local"
             \/ outbox'[r].state = outbox[r].state
             \/ outbox'[r].state \in {"ready", "dispatched"}
      PROVE  Asked(o)'
  BY <1>0, <1>2, AskedFrame
<1>3. ASSUME NEW r \in Rows, Kind(r) = "external", outbox[r].state = "dispatched",
             \A q \in Rows : q = r \/ outbox'[q] = QueueReconciliation(r, outbox)[q],
             outbox'[r].state = QueueReconciliation(r, outbox)[r].state
      PROVE  Asked(o)'
  <2>1. Subject(r) \in Ops /\ r = Parent(Subject(r))
    BY <1>3, RowFacts
  <2>2. \A q \in {Parent(o), Child(o)} :
            outbox'[q].state = QueueReconciliation(Parent(Subject(r)), outbox)[q].state
    BY <1>0, <1>3, <2>1
  <2>. QED BY <1>3, <2>1, <2>2, AskedHandOver
<1>4. ASSUME NEW r \in Rows, Dispatch(r) \/ Sweep(r) \/ ClaimCycle(r)
      PROVE  Asked(o)'
  <2>1. PICK backend, expiredOnly : Claim(r, backend, expiredOnly)
    BY <1>4 DEF Dispatch, Sweep, ClaimCycle
  <2>2. outbox'[r].state = "dispatched" /\ \A q \in Rows : q # r => outbox'[q] = outbox[q]
    BY <1>0, <2>1 DEF Claim, ClaimRow
  <2>. QED BY <1>2, <2>2
<1>5. ASSUME NEW e \in mail, PublishFails(e) \/ PublicationFailed(e) \/ StatusRead(e)
      PROVE  Asked(o)'
  <2>1. /\ outbox'[e.row].state = outbox[e.row].state \/ outbox'[e.row].state = "ready"
        /\ \A q \in Rows : q # e.row => outbox'[q] = outbox[q]
    BY <1>0, <1>5 DEF PublishFails, PublicationFailed, StatusRead, ReleaseClaim, ReturnToReady,
                      RecordPublication, ReadStepStatus, RowRecord
  <2>. QED BY <1>0, <1>2, <2>1
<1>6. ASSUME NEW e \in mail, NEW w \in Workers, StartStep(w, e)
      PROVE  Asked(o)'
  <2>1. /\ outbox'[e.row].state = outbox[e.row].state
        /\ \A q \in Rows : q # e.row => outbox'[q] = outbox[q]
    BY <1>0, <1>6 DEF StartStep, ClaimExecutionStep, RowRecord
  <2>. QED BY <1>0, <1>2, <2>1
<1>7. ASSUME NEW r \in Rows, Kind(r) = "local", RunIntent(r)
      PROVE  Asked(o)'
  <2>1. \A q \in Rows : q # r => outbox'[q] = outbox[q]
    BY <1>0, <1>7 DEF RunIntent, CloseRow
  <2>. QED BY <1>2, <1>7, <2>1
<1>8. CASE Transport
  BY <1>0, <1>1, <1>4, <1>5, <1>6, <1>7, <1>8 DEF Transport, RunTask, StartTask
<1>9. ASSUME NEW w \in Workers, RunStep(w)
      PROVE  Asked(o)'
  <2>1. Env(w).row \in Rows
    BY <1>9, WorkerFacts DEF RunStep, Busy, Phases
  <2>. QED BY <1>1, <1>7, <1>9, <2>1 DEF RunStep
<1>10. ASSUME NEW w \in Workers, Prepare(w)
       PROVE  Asked(o)'
  <2>. DEFINE r == Env(w).row
  <2>1. r \in Rows /\ Kind(r) # "local"
    BY <1>10, WorkerFacts DEF Prepare, Busy, Phases
  <2>2. \/ /\ outbox[r].state = "dispatched" /\ Kind(r) = "external"
           /\ outbox' = QueueReconciliation(r, outbox)
        \/ UNCHANGED outbox
    BY <1>10 DEF Prepare, LoseFence, PrepareStale, PrepareBlocked, PrepareSubmit, PrepareUncertain,
                 PreparePoll, PrepareSettled
  <2>. QED BY <1>1, <1>3, <2>1, <2>2
<1>11. ASSUME NEW w \in Workers, Finalize(w)
       PROVE  Asked(o)'
  <2>. DEFINE r == Env(w).row
              s == Subject(r)
              state == Observed(workers[w].word)
  <2>1. /\ workers[w].phase = "answered" /\ workers[w].phase \in Phases
    BY <1>11 DEF Finalize, Busy, Phases
  <2>2. Kind(r) \in {"external", "reconcile"}
    BY <2>1, ObservedFacts
  <2>3. /\ s \in Ops /\ r \in Rows
        /\ Kind(r) = "reconcile" => r = Child(s)
    BY <2>1, <2>2, OperationOf
  <2>4. CASE Record(w)
    <3>1. /\ outbox[r].state = "dispatched"
          /\ ops' = [ops EXCEPT ![s] = [status |-> state, ref |-> @.ref \/ workers[w].ref]]
          /\ outbox' = RowAfter(r, state)
      BY <2>4 DEF Record
    <3>2. ops'[s].status = state
      BY <1>0, <2>3, <3>1
    <3>. HIDE DEF state
    <3>3. CASE Kind(r) = "external"
      BY <1>3, <2>3, <3>1, <3>3 DEF RowAfter
    <3>4. CASE Kind(r) = "reconcile" /\ state \in Settled
      <4>1. s # o
        BY <1>0, <3>2, <3>4 DEF UNCERTAIN, Settled
      <4>2. r # Parent(o) /\ r # Child(o)
        BY <2>3, <3>4, <4>1, IntentFacts
      <4>3. outbox' = [outbox EXCEPT ![r].state = "done", ![r].lease = "none"]
        BY <3>1, <3>4 DEF RowAfter
      <4>4. \A q \in {Parent(o), Child(o)} : outbox'[q].state = outbox[q].state
        BY <1>0, <4>2, <4>3
      <4>. QED BY <4>4, AskedFrame
    <3>5. CASE Kind(r) = "reconcile" /\ state \notin Settled
      BY <1>1, <3>1, <3>5 DEF RowAfter
    <3>. QED BY <2>2, <3>3, <3>4, <3>5
  <2>5. CASE ~Record(w)
    BY <1>1, <1>11, <2>5 DEF Finalize, LoseFence, RecordStale
  <2>. QED BY <2>4, <2>5
<1>12. CASE Process
  <2>1. ASSUME NEW w \in Workers,
               CallSubmit(w) \/ CallStatus(w) \/ WrapUp(w) \/ FailStep(w) \/ Crash(w)
        PROVE  UNCHANGED outbox
    BY <2>1 DEF CallSubmit, CallStatus, WrapUp, FailStep, Crash
  <2>. QED BY <1>1, <1>9, <1>10, <1>11, <1>12, <2>1 DEF Process
<1>13. ASSUME NEW r \in Rows, RecoverExecution(r)
       PROVE  Asked(o)'
  <2>1. /\ outbox[r].state = "dispatched" /\ ops' = ops
        /\ ScheduleUncertain(r) \in [Rows -> RowRecord]
    BY <1>0, <1>13, QueueReconciliationType DEF RecoverExecution, Overdue, ScheduleUncertain,
                                                IsUncertain
  <2>2. /\ \A q \in Rows : q # r => outbox'[q] = ScheduleUncertain(r)[q]
        /\ outbox'[r].state = IF ScheduleUncertain(r)[r].state \in TERMINAL_STATES
                              THEN ScheduleUncertain(r)[r].state ELSE "ready"
    <3>. HIDE DEF ScheduleUncertain
    <3>. QED BY <1>13, <2>1 DEF RecoverExecution
  <2>3. r # Child(o)
    BY <1>13
  <2>4. CASE ~IsUncertain(r, ops)
    <3>1. ScheduleUncertain(r) = outbox
      BY <2>4 DEF ScheduleUncertain
    <3>2. outbox'[r].state = "ready"
      BY <2>1, <2>2, <3>1 DEF TERMINAL_STATES
    <3>. QED BY <1>2, <2>2, <3>1, <3>2
  <2>5. CASE IsUncertain(r, ops) /\ Kind(r) = "external"
    <3>1. ScheduleUncertain(r) = QueueReconciliation(r, outbox)
      BY <2>5 DEF ScheduleUncertain
    <3>2. QueueReconciliation(r, outbox)[r].state = "done"
      BY <2>1, <2>5, QueueReconciliationRows
    <3>. QED BY <1>3, <2>1, <2>2, <2>5, <3>1, <3>2 DEF TERMINAL_STATES
  <2>6. CASE IsUncertain(r, ops) /\ Kind(r) = "reconcile"
    <3>1. ScheduleUncertain(r) = QueueReconciliation(r, outbox) /\ Kind(r) # "local"
      BY <2>6 DEF ScheduleUncertain
    <3>2. r = Child(Subject(r)) /\ r # Parent(o)
      BY <1>0, <2>6, RowFacts
    <3>3. \A q \in {Parent(o), Child(o)} : outbox'[q] = outbox[q]
      BY <1>0, <2>1, <2>2, <2>3, <3>1, <3>2, QueueReconciliationRows
    <3>. QED BY <3>3, AskedFrame
  <2>. QED BY <2>4, <2>5, <2>6, RowFacts DEF IsUncertain
<1>14. ASSUME NEW r \in Rows, RowDeadline(r)
       PROVE  Asked(o)'
  <2>1. /\ outbox'[r].state = outbox[r].state
        /\ \A q \in Rows : q # r => outbox'[q] = outbox[q]
    BY <1>0, <1>14 DEF RowDeadline, ExpireRow, RowRecord
  <2>. QED BY <1>2, <2>1
<1>15. CASE RecoverSlot \/ SlotDeadline \/ Switch \/ (\E r \in Rows : StepDeadline(r)) \/ UNCHANGED vars
  <2>1. RecoverSlot \/ SlotDeadline \/ UNCHANGED vars => UNCHANGED outbox
    BY DEF RecoverSlot, SlotDeadline, ExpireSlot, vars
  <2>2. Switch => UNCHANGED outbox
    BY DEF Switch, SetExecutionRuntime
  <2>3. (\E r \in Rows : StepDeadline(r)) => UNCHANGED outbox
    BY DEF StepDeadline, ExpireStep
  <2>. QED BY <1>1, <1>15, <2>1, <2>2, <2>3
<1>. QED BY <1>8, <1>12, <1>13, <1>14, <1>15 DEF Next, Recovery, Deadlines

\* For any number of operations, workers, deliveries, crashes, deadlines, pauses
\* and changes of runtime: an operation in doubt stays asked about until it is
\* settled, unless recovery closes the very intent that asks (QueueReconciliation
\* called for the child, run recovered_child).
THEOREM DoubtIsDroppedByRecovery == Spec => OnlyRecoveryDropsDoubt
<1>1. TypeOK /\ MidCall /\ CallsAgree /\ [Next]_vars =>
        [\A o \in Ops : Asked(o) /\ InDoubt(o)' /\ ~Asked(o)'
                           => RecoverExecution(Child(o))]_vars
  BY DoubtStaysAsked
<1>. QED BY <1>1, CallsAlwaysAgree, TypeCorrect, PTL DEF Spec, OnlyRecoveryDropsDoubt

\* As long as the operator keeps the runtime, pausing and resuming it at will, for
\* any number of operations, workers, deliveries, crashes, deadlines and recoveries:
\* under Celery an operation in doubt has an intent that asks; under Cloudflare none
\* that would submit it again, and only the recovery of the intent that asks takes
\* it away.  With a change of runtime the first two do not hold, see README 3.2.
THEOREM DoubtStaysFollowed ==
    Spec /\ [][control'.backend = control.backend]_vars => DoubtIsFollowed
<1>1. Init => DoubtInv
  <2>. SUFFICES ASSUME Init PROVE DoubtInv
    OBVIOUS
  <2>1. mail = {} /\ \A w \in Workers : workers[w] = Idle
    BY DEF Init
  <2>2. ASSUME NEW o \in Ops
        PROVE  /\ outbox[Parent(o)].state = "ready" /\ outbox[Child(o)].state = "absent"
               /\ ops[o].status = "reserved"
    BY IntentFacts DEF Init, RuntimeInit
  <2>. QED BY <2>1, <2>2 DEF DoubtInv, EnvelopesOfRuntime, Followed, Receipted
<1>2. TypeOK /\ DoubtInv => SubmittedParentIsNotReady /\ UncertainHasPoller
  <2>. SUFFICES ASSUME TypeOK, DoubtInv
                PROVE  SubmittedParentIsNotReady /\ UncertainHasPoller
    OBVIOUS
  <2>1. SubmittedParentIsNotReady
    BY DEF DoubtInv, Receipted, SubmittedParentIsNotReady
  <2>2. ASSUME control.backend = "celery", NEW o \in Ops, ops[o].status \in UNCERTAIN
        PROVE  \E r \in {Parent(o), Child(o)} : outbox[r].state \in {"ready", "dispatched"}
    <3>1. Followed(o) /\ ops[o].status \notin Settled
      BY <2>2 DEF DoubtInv, UNCERTAIN, Settled
    <3>2. outbox[Child(o)].state \in RowStates
      BY IntentFacts DEF TypeOK, RuntimeTypeOK, RowRecord
    <3>. QED BY <3>1, <3>2 DEF Followed, RowStates
  <2>. QED BY <2>1, <2>2 DEF UncertainHasPoller, InDoubt, Asked
<1>. QED BY <1>1, <1>2, InitSlot, NextDoubt, NextSlot, CallsAlwaysAgree, TypeCorrect,
            DoubtIsDroppedByRecovery, PTL DEF Spec, DoubtIsFollowed
====
