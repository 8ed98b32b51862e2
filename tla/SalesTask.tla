----------------------------- MODULE SalesTask -----------------------------
(***************************************************************************)
(* One sales task (services/api/buyeros_api/execution/sales_tasks.py): an  *)
(* intake that is reviewed and admitted as one parent execution with a     *)
(* paid model call per section, under one hold (services/budget_service),  *)
(* settled from supplier bills by services/sales_accounting.py; and one    *)
(* provider stage of services/xverum_dispatch.py, whose tools are called   *)
(* one after the other.                                                    *)
(*                                                                         *)
(* Every transaction takes the workspace gates first, so each is one       *)
(* action.  No transaction is held across a call, so between the claim and *)
(* the result of a call everything else may happen, and the worker may die *)
(* (the call is then "gone").  A liability is one unit per section.  A     *)
(* tool's "accepted" counts the calls the supplier took on: ground truth   *)
(* the program cannot read.                                                *)
(***************************************************************************)
EXTENDS Naturals, FiniteSets

CONSTANTS
    Sections,           \* the sections of the skill's plan
    ToolCount,          \* the tools of the quote's plan
    MaxIntake           \* bound: follow-ups of the intake

VARIABLES
    task,               \* the sales task row
    reviewed,           \* an approval of the task's present revision exists
    parent,             \* the admitted execution
    steps,              \* the children of the parent, one per section
    hold,               \* the parent's budget reservation
    stage,              \* the provider receipt and its stage row
    tools               \* the tool receipts of the stage

salesVars == <<task, reviewed, parent, steps, hold, stage, tools>>

ToolIds == 1 .. ToolCount
MaxConcurrency == 2
InDoubt == {"submitting", "unknown"}
Deletable == {"needs_input", "ready_for_review", "completed", "failed", "cancelled"}
StatesOf(rows) == {rows[x].state : x \in DOMAIN rows}
Active(ss, ts) == Cardinality({s \in Sections : ss[s].state \in InDoubt})
                      + Cardinality({i \in ToolIds : ts[i].state \in InDoubt})

\* Mutant: a call in doubt no longer hides the states of the other calls.
Aggregate_UnknownLast(states, isCancelled) ==
    IF "submitting" \in states THEN IF isCancelled THEN "cancel_requested" ELSE "running"
    ELSE IF isCancelled THEN "cancelled"
    ELSE IF "queued" \in states THEN "running"
    ELSE IF states = {"received"} THEN "ready_for_review"
    ELSE IF "received" \in states THEN "partially_completed"
    ELSE IF "unknown" \in states THEN "outcome_unknown"
    ELSE "failed"

Aggregate(states, isCancelled) ==
    IF "unknown" \in states THEN "outcome_unknown"
    ELSE IF "submitting" \in states THEN IF isCancelled THEN "cancel_requested" ELSE "running"
    ELSE IF isCancelled THEN "cancelled"
    ELSE IF "queued" \in states THEN "running"
    ELSE IF states = {"received"} THEN "ready_for_review"
    ELSE IF "received" \in states THEN "partially_completed"
    ELSE "failed"

\* The states of model and provider calls taken together.
Combined(fallback, ss, st, ts) ==
    LET provider == {IF ts[i].state = "nonaccepted" THEN "failed" ELSE ts[i].state : i \in ToolIds}
        states   == provider \cup (IF parent.admitted THEN StatesOf(ss) ELSE {})
    IN  IF st.dispatch = "none" THEN fallback
        ELSE IF states = {"queued"} THEN "queued"
        ELSE Aggregate(states, fallback \in {"cancelled", "cancel_requested"} \/ states = {"cancelled"})

SetState(state) ==
    /\ task' = IF task.state = "completed" THEN task ELSE [task EXCEPT !.state = state]
    /\ reviewed' = (reviewed /\ task'.state = task.state)

------------------------------------------------------------------------------
\* Intake, review and admission.

FollowUp ==
    /\ task.state \in {"needs_input", "ready_for_review"}
    /\ task.intake < MaxIntake
    /\ \E s \in {"needs_input", "ready_for_review"} :
           task' = [state |-> s, intake |-> task.intake + 1]
    /\ reviewed' = FALSE
    /\ UNCHANGED <<parent, steps, hold, stage, tools>>

ApproveStep ==
    /\ task.state = "ready_for_review"
    /\ reviewed' = TRUE
    /\ UNCHANGED <<task, parent, steps, hold, stage, tools>>

AdmitStep ==
    /\ ~parent.admitted /\ task.state = "ready_for_review" /\ reviewed
    /\ parent' = [parent EXCEPT !.admitted = TRUE, !.intake = task.intake]
    /\ hold' = [state |-> "active", remaining |-> Cardinality(Sections)]
    /\ task' = [task EXCEPT !.state =
                   IF stage.dispatch = "none" THEN "queued"
                   ELSE LET states == {"queued"} \cup StatesOf(tools) IN
                        IF states = {"queued"} THEN "queued" ELSE Aggregate(states, FALSE)]
    /\ reviewed' = FALSE
    /\ UNCHANGED <<steps, stage, tools>>

------------------------------------------------------------------------------
\* The calls of the model, one per section.

\* Every child ended without a call.
Unused(ss) == \A s \in Sections : /\ ss[s].state \in {"failed", "cancelled"}
                                  /\ ss[s].call = "none" \/ ss[s].unsubmitted

\* The release wants the hold whole: a hold accounted in part aborts the
\* transaction, so the action that asked for the release is not enabled.
ReleaseUnused(ss) ==
    IF Unused(ss) /\ ~parent.released
    THEN /\ hold.state = "active" /\ hold.remaining = Cardinality(Sections)
         /\ hold' = [state |-> "released", remaining |-> 0]
    ELSE hold' = hold

Children(ss, isCancelled) ==
    /\ steps' = ss
    /\ ReleaseUnused(ss)
    /\ parent' = [parent EXCEPT !.cancelled = isCancelled,
                                !.released = @ \/ Unused(ss)]

UpdateStates(ss) ==
    /\ Children(ss, parent.cancelled)
    /\ SetState(Combined(Aggregate(StatesOf(ss), parent.cancelled), ss, stage, tools))
    /\ UNCHANGED <<stage, tools>>

Refused(ss, failing) == [x \in Sections |-> IF x \in failing THEN [ss[x] EXCEPT !.state = "failed"] ELSE ss[x]]
QueuedSteps == {s \in Sections : steps[s].state = "queued"}

\* Mutant: the calls of the provider are not counted.
ClaimStep_OwnCallsOnly(s) ==
    /\ parent.admitted /\ ~parent.cancelled /\ steps[s].state = "queued"
    /\ task.intake = parent.intake /\ hold.state = "active"
    /\ Cardinality({x \in Sections : steps[x].state \in InDoubt}) < MaxConcurrency
    /\ steps' = [steps EXCEPT ![s].state = "submitting", ![s].call = "held"]
    /\ SetState(Combined("running", steps', stage, tools))
    /\ UNCHANGED <<parent, hold, stage, tools>>

\* The claim debits the parent and commits before anything is sent; at the
\* concurrency bound it leaves the child queued.
ClaimStep(s) ==
    /\ parent.admitted /\ ~parent.cancelled /\ steps[s].state = "queued"
    /\ task.intake = parent.intake
    /\ hold.state = "active"
    /\ Active(steps, tools) < MaxConcurrency
    /\ steps' = [steps EXCEPT ![s].state = "submitting", ![s].call = "held"]
    /\ SetState(Combined("running", steps', stage, tools))
    /\ UNCHANGED <<parent, hold, stage, tools>>

\* The claim's checks fail: the review expired, the sources or the policy
\* changed (this child only), or the model is not available (its queued
\* siblings too).
RefuseStep(s) ==
    /\ parent.admitted /\ ~parent.cancelled /\ steps[s].state = "queued"
    /\ \E failing \in {{s}, QueuedSteps} :
           LET ss == Refused(steps, failing) IN
           /\ Children(ss, parent.cancelled)
           /\ SetState(Combined(Aggregate(StatesOf(ss), FALSE), ss, stage, tools))
    /\ UNCHANGED <<stage, tools>>

SendStep(s) ==
    /\ steps[s].call = "held"
    /\ steps' = [steps EXCEPT ![s].call = "sent"]
    /\ UNCHANGED <<task, reviewed, parent, hold, stage, tools>>

CrashStep(s) ==
    /\ steps[s].call \in {"held", "sent"}
    /\ steps' = [steps EXCEPT ![s].call = "gone"]
    /\ UNCHANGED <<task, reviewed, parent, hold, stage, tools>>

\* The answer, or its loss, is recorded whatever recovery said meanwhile.
PersistResult(s) ==
    /\ steps[s].call = "sent" /\ steps[s].state \in InDoubt
    /\ \E state \in {"received", "unknown"} :
           UpdateStates([steps EXCEPT ![s].state = state, ![s].call = "over"])

\* A local failure before the request left: nothing was sent.
PersistUnsubmitted(s) ==
    /\ steps[s].call = "held" /\ steps[s].state \in InDoubt
    /\ UpdateStates(Refused([steps EXCEPT ![s].state = "failed", ![s].call = "over",
                                          ![s].unsubmitted = TRUE], QueuedSteps))

\* Recovery of an expired outbox lease: the worker may still be waiting.
RecoverStep(s) ==
    /\ steps[s].state = "submitting"
    /\ UpdateStates([steps EXCEPT ![s].state = "unknown"])

------------------------------------------------------------------------------
\* The provider stage: each operator returns the stage row and its tools.

Both(st, ts) == [stage |-> st, tools |-> ts]
Turn(ts, from, to) == [i \in ToolIds |-> IF ts[i].state \in from THEN [ts[i] EXCEPT !.state = to] ELSE ts[i]]
AllIn(ts, states) == \A i \in ToolIds : ts[i].state \in states

MarkUnknown(st, ts) ==
    Both([st EXCEPT !.dispatch = IF @ \in {"settled", "cancelled"} THEN @ ELSE "outcome_unknown"],
         Turn(ts, {"submitting"}, "unknown"))

ReleaseKnownUnsubmitted(st, ts) ==
    Both([st EXCEPT !.dispatch = "cancelled"], Turn(ts, {"queued", "nonaccepted"}, "cancelled"))

\* Mutant: a stage with a call in doubt is released like one never dispatched.
Finalized_DoubtReleased(st, ts) ==
    IF st.dispatch \in {"settled", "cancelled"} THEN Both(st, ts)
    ELSE IF \E i \in ToolIds : ts[i].state = "received" THEN Both([st EXCEPT !.dispatch = "settled"], ts)
    ELSE ReleaseKnownUnsubmitted(st, Turn(ts, InDoubt, "cancelled"))

Finalized(st, ts) ==
    IF st.dispatch \in {"settled", "cancelled"} THEN Both(st, ts)
    ELSE IF \E i \in ToolIds : ts[i].state \in InDoubt THEN MarkUnknown(st, ts)
    ELSE IF \E i \in ToolIds : ts[i].state = "queued" THEN Both(st, ts)
    ELSE IF AllIn(ts, {"nonaccepted", "cancelled"}) THEN ReleaseKnownUnsubmitted(st, ts)
    ELSE Both([st EXCEPT !.dispatch = "settled"], ts)

\* A stage that may not go on: released if nothing was accepted, else ended.
Stopped(st, ts) ==
    LET cancelled == [st EXCEPT !.cancelled = TRUE] IN
    IF st.dispatch \in {"settled", "cancelled"} THEN Both(cancelled, ts)
    ELSE IF AllIn(ts, {"queued", "nonaccepted", "cancelled"}) THEN ReleaseKnownUnsubmitted(cancelled, ts)
    ELSE Finalized(cancelled, Turn(ts, {"queued"}, "cancelled"))

SyncTask(after) ==
    /\ stage' = after.stage
    /\ tools' = after.tools
    /\ SetState(Combined(task.state, steps, after.stage, after.tools))
    /\ UNCHANGED <<parent, steps, hold>>

ConfirmQuote ==
    /\ stage.dispatch = "none"
    /\ task.state \in {"ready_for_review", "queued", "running", "partially_completed"}
    /\ SyncTask(Both([stage EXCEPT !.dispatch = "reserved", !.intake = task.intake], tools))

Dispatchable == /\ ~stage.cancelled /\ task.intake = stage.intake
                /\ task.state \notin {"cancelled", "cancel_requested", "completed", "failed"}

LiveStage == stage.dispatch \in {"reserved", "dispatched"}

\* A delivery that finds a committed claim never repeats the call.
ToolClaimInDoubt ==
    /\ LiveStage
    /\ \E i \in ToolIds : tools[i].state \in InDoubt
    /\ SyncTask(MarkUnknown(stage, tools))

ToolClaim(i) ==
    /\ LiveStage
    /\ AllIn(tools, {"queued", "received", "nonaccepted", "cancelled"})
    /\ Dispatchable
    /\ Active(steps, tools) < MaxConcurrency
    /\ tools[i].state = "queued" /\ \A j \in 1 .. i - 1 : tools[j].state # "queued"
    /\ SyncTask(Both([stage EXCEPT !.dispatch = "dispatched"],
                     [tools EXCEPT ![i].state = "submitting", ![i].attempts = @ + 1, ![i].call = "held"]))

\* The authority is gone (always when the task cannot be dispatched), or
\* every tool has ended.
ToolClaimRefused ==
    /\ LiveStage
    /\ AllIn(tools, {"queued", "received", "nonaccepted", "cancelled"})
    /\ SyncTask(Stopped(stage, tools))

\* before_dispatch, then the request: the supplier takes the call on or not.
ToolSend(i) ==
    /\ tools[i].call = "held" /\ tools[i].state = "submitting" /\ Dispatchable
    /\ \E taken \in {0, 1} :
           tools' = [tools EXCEPT ![i].call = "sent", ![i].accepted = @ + taken, ![i].taken = taken]
    /\ UNCHANGED <<task, reviewed, parent, steps, hold, stage>>

ToolAnswer(i) ==
    /\ tools[i].call = "sent" /\ tools[i].taken = 1
    /\ LET answered == [tools EXCEPT ![i].call = "none"] IN
       IF stage.dispatch \notin {"settled", "cancelled"} /\ tools[i].state \in InDoubt
       THEN SyncTask(Finalized(stage, [answered EXCEPT ![i].state = "received"]))
       ELSE SyncTask(Both(stage, answered))

\* A proven non-acceptance: one retry, unless the stage was cancelled or the
\* quote is about to expire.
ToolNonaccepted(i) ==
    /\ tools[i].call = "sent" /\ tools[i].taken = 0
    /\ LET ts == [tools EXCEPT ![i].call = "none"] IN
       \/ /\ tools[i].state \in InDoubt /\ tools[i].attempts < 2 /\ ~stage.cancelled
          /\ tools' = [ts EXCEPT ![i].state = "queued"]
          /\ UNCHANGED <<task, reviewed, parent, steps, hold, stage>>
       \/ /\ tools[i].state \in InDoubt
          /\ SyncTask(Finalized(stage, Turn([ts EXCEPT ![i].state = "nonaccepted"], {"queued"}, "cancelled")))
       \/ /\ tools[i].state \notin InDoubt
          /\ SyncTask(Both(stage, ts))

\* Any other failure of the call, before_dispatch's refusal included.
ToolLost(i) ==
    /\ tools[i].call \in {"held", "sent"}
    /\ LET ts == [tools EXCEPT ![i].call = "none"] IN
       SyncTask(IF tools[i].state \in InDoubt THEN MarkUnknown(stage, ts) ELSE Both(stage, ts))

CrashTool(i) ==
    /\ tools[i].call \in {"held", "sent"}
    /\ tools' = [tools EXCEPT ![i].call = "none"]
    /\ UNCHANGED <<task, reviewed, parent, steps, hold, stage>>

CancelReceipt ==
    /\ stage.dispatch # "none" /\ ~stage.cancelled
    /\ SyncTask(Stopped(stage, tools))

\* The operator's evidence, given once the call is over, is true.
ReconcileXverum(i) ==
    /\ stage.dispatch \in {"dispatched", "outcome_unknown"}
    /\ \A j \in ToolIds : tools[j].call = "none"
    /\ LET st == [stage EXCEPT !.cancelled = TRUE]
           Known(ts) == Finalized(st, Turn(ts, {"queued"}, "cancelled"))
       IN  \/ /\ tools[i].accepted > 0 /\ tools[i].state \in InDoubt \cup {"received"}
              /\ SyncTask(Known([tools EXCEPT ![i].state = "received"]))
           \/ /\ tools[i].accepted = 0 /\ tools[i].state # "received"
              /\ SyncTask(Known([tools EXCEPT ![i].state = "nonaccepted"]))
           \/ SyncTask(MarkUnknown(st, tools))

------------------------------------------------------------------------------
\* Cancellation, completion and accounting.

CancelTask ==
    /\ task.state # "completed"
    /\ LET ss    == [s \in Sections |-> IF parent.admitted /\ steps[s].state = "queued"
                                        THEN [steps[s] EXCEPT !.state = "cancelled"] ELSE steps[s]]
           own   == IF parent.admitted THEN Aggregate(StatesOf(ss), TRUE)
                    ELSE IF task.state \in {"failed", "cancelled", "outcome_unknown", "cancel_requested"} THEN task.state
                    ELSE IF task.state \in {"needs_input", "ready_for_review"} THEN "cancelled"
                    ELSE "cancel_requested"
           first == Combined(own, ss, stage, tools)
           after == Stopped(stage, tools)
       IN  /\ IF parent.admitted THEN Children(ss, TRUE) ELSE UNCHANGED <<parent, steps, hold>>
           /\ IF stage.dispatch = "none"
              THEN SetState(first) /\ UNCHANGED <<stage, tools>>
              ELSE /\ stage' = after.stage /\ tools' = after.tools
                   /\ SetState(IF stage.dispatch \in {"settled", "cancelled"} THEN first
                               ELSE Combined(first, ss, after.stage, after.tools))

\* The complete assembly of the sections, or the output of a core skill.
SaveOutput ==
    /\ task.state = "ready_for_review"
    /\ parent.admitted => parent.intake = task.intake /\ StatesOf(steps) = {"received"}
    /\ task' = [task EXCEPT !.state = "completed"]
    /\ reviewed' = FALSE
    /\ UNCHANGED <<parent, steps, hold, stage, tools>>

\* The operator attests the supplier's bill of one claimed call.
RecordEvidence(s) ==
    /\ steps[s].state \in InDoubt \cup {"received"} /\ ~steps[s].unsubmitted
    /\ steps[s].evidence = "none"
    /\ steps' = [steps EXCEPT ![s].evidence = "kept"]
    /\ UNCHANGED <<task, reviewed, parent, hold, stage, tools>>

\* Children that ended unused and no receipt lists yet.
UnusedSteps == {s \in Sections : /\ steps[s].state \in {"failed", "cancelled"}
                                 /\ steps[s].call = "none" \/ steps[s].unsubmitted
                                 /\ ~steps[s].listed}

\* The bills named by the caller and every unused child are settled at once.
ReconcileParent(bills) ==
    /\ parent.admitted /\ ~parent.released /\ hold.state = "active"
    /\ \A s \in bills : /\ steps[s].evidence = "kept" /\ ~steps[s].unsubmitted
                        /\ steps[s].state \in InDoubt \cup {"received"}
    /\ LET bound == Cardinality(bills) + Cardinality(UnusedSteps) IN
       /\ bound \in 1 .. hold.remaining
       /\ hold' = [state |-> IF bound = hold.remaining THEN "settled" ELSE "active",
                   remaining |-> hold.remaining - bound]
    /\ steps' = [s \in Sections |->
                    [steps[s] EXCEPT !.evidence = IF s \in bills THEN "settled" ELSE @,
                                     !.listed   = @ \/ s \in UnusedSteps]]
    /\ UNCHANGED <<task, reviewed, parent, stage, tools>>

------------------------------------------------------------------------------
SalesInit ==
    /\ task \in [state : {"needs_input", "ready_for_review"}, intake : {1}]
    /\ reviewed = FALSE
    /\ parent = [admitted |-> FALSE, cancelled |-> FALSE, released |-> FALSE, intake |-> 0]
    /\ steps = [s \in Sections |-> [state |-> "queued", call |-> "none", unsubmitted |-> FALSE,
                                    evidence |-> "none", listed |-> FALSE]]
    /\ hold = [state |-> "none", remaining |-> 0]
    /\ stage = [dispatch |-> "none", cancelled |-> FALSE, intake |-> 0]
    /\ tools = [i \in ToolIds |-> [state |-> "queued", attempts |-> 0, call |-> "none",
                                   accepted |-> 0, taken |-> 0]]

SalesNext ==
    \/ FollowUp \/ ApproveStep \/ AdmitStep \/ CancelTask \/ SaveOutput
    \/ ConfirmQuote \/ ToolClaimInDoubt \/ ToolClaimRefused \/ CancelReceipt
    \/ \E s \in Sections :
           \/ ClaimStep(s) \/ RefuseStep(s) \/ SendStep(s) \/ CrashStep(s)
           \/ PersistResult(s) \/ PersistUnsubmitted(s) \/ RecoverStep(s) \/ RecordEvidence(s)
    \/ \E i \in ToolIds :
           \/ ToolClaim(i) \/ ToolSend(i) \/ ToolAnswer(i) \/ ToolNonaccepted(i)
           \/ ToolLost(i) \/ CrashTool(i) \/ ReconcileXverum(i)
    \/ \E bills \in SUBSET Sections : ReconcileParent(bills)

SalesSpec == SalesInit /\ [][SalesNext]_salesVars

------------------------------------------------------------------------------
StepStates == {"queued", "submitting", "unknown", "received", "failed", "cancelled"}

SalesTypeOK ==
    /\ task \in [state : {"needs_input", "ready_for_review", "queued", "running", "cancel_requested",
                          "cancelled", "outcome_unknown", "partially_completed", "failed", "completed"},
                 intake : 1 .. MaxIntake]
    /\ reviewed \in BOOLEAN
    /\ parent \in [admitted : BOOLEAN, cancelled : BOOLEAN, released : BOOLEAN, intake : 0 .. MaxIntake]
    /\ \A s \in Sections :
           steps[s] \in [state : StepStates, call : {"none", "held", "sent", "gone", "over"},
                         unsubmitted : BOOLEAN, evidence : {"none", "kept", "settled"}, listed : BOOLEAN]
    /\ hold \in [state : {"none", "active", "released", "settled"}, remaining : 0 .. Cardinality(Sections)]
    /\ stage \in [dispatch : {"none", "reserved", "dispatched", "outcome_unknown", "settled", "cancelled"},
                  cancelled : BOOLEAN, intake : 0 .. MaxIntake]
    /\ \A i \in ToolIds :
           tools[i] \in [state : StepStates \cup {"nonaccepted"}, attempts : 0 .. 2,
                         call : {"none", "held", "sent"}, accepted : 0 .. 2, taken : {0, 1}]

\* What the supplier may still bill is still held: every section whose call
\* may have left and has no settled bill is covered by the rest of the hold,
\* and a stage whose credits were given back had no tool accepted.  Excluded:
\* a bill settled for a call that is later proven never sent, whose child is
\* then released a second time (sales_accounting.reconcile_parent).
HoldsCoverLiability ==
    LET owed == {s \in Sections : steps[s].call # "none" /\ ~steps[s].unsubmitted
                                      /\ steps[s].evidence # "settled"}
        twice == \E s \in Sections : steps[s].evidence = "settled" /\ steps[s].unsubmitted
    IN  /\ twice \/ hold.remaining >= Cardinality(owed)
        /\ stage.dispatch = "cancelled" => \A i \in ToolIds : tools[i].accepted = 0

\* A task never has more than two calls in doubt, model and provider together,
\* and a tool is never accepted twice: a call is repeated only after a proof
\* that it was not taken on.
BoundedCalls ==
    /\ Active(steps, tools) <= MaxConcurrency
    /\ \A i \in ToolIds : tools[i].accepted <= 1

\* A task in a state that lets its discussion be deleted has no call in doubt.
DeletableIsSettled ==
    task.state \in Deletable => (Active(steps, tools) = 0)

\* A task's calls and its money agree: the hold covers what may be billed, no
\* call is made twice or beyond the limit, and what may be deleted owes nothing.
LiabilityIsHeld == HoldsCoverLiability /\ BoundedCalls /\ DeletableIsSettled
==============================================================================
