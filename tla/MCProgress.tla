---- MODULE MCProgress ----
(***************************************************************************)
(* What must eventually happen, for the components that say so: an initial *)
(* choice says which one is explored, and the others stay where they       *)
(* began.  Assumed are clocks that advance, the periodic sweeps and the    *)
(* recovery cron, an outbox that delivers an open intent again, timers of  *)
(* the browser, and a request that ends with an answer or with a timeout;  *)
(* nothing is assumed of users, of workers that die or of providers.       *)
(***************************************************************************)
EXTENDS DurableExecution

VARIABLE which          \* the component that is explored

VARIABLES buyers, bulkJobs, manifests, wakeups, permitted
VARIABLES message, workflow, call, arriving, receipts, slotTaken, performed, unread
VARIABLES page, poller, jobOver
VARIABLES buyer, work, versions, desktops, applied, withdrawn, elapsed, forgotten

bulkVars == <<buyers, bulkJobs, manifests, wakeups, permitted>>
flowVars == <<message, workflow, call, arriving, receipts, slotTaken, performed, unread>>
pollerVars == <<page, poller, jobOver>>
outputVars == <<buyer, work, versions, desktops, applied, withdrawn, elapsed, forgotten>>

Bulk == INSTANCE BulkJob WITH
    Buyers <- {1, 2}, BulkJobs <- {1, 2}, Manifests <- {1}, Sources <- {1},
    Edited <- {}, Exclusions <- {{}}, Operations <- {"assignBuyerOwners"},
    ChunkSize <- 1, SyncLimit <- 1, MaxVersion <- 4

Flow == INSTANCE JobWorkflow WITH
    LastStep <- 2, MaxOperations <- 8, MaxFailures <- 2, MaxUnits <- 3

Poller == INSTANCE JobPoller WITH
    MaxBackoff <- 2

Outputs == INSTANCE SavedOutputs WITH
    Members <- {"a"}, MaxBuyer <- 2, MaxVersions <- 2, PageSize <- 1, MaxLost <- 0

ProgressInit ==
    /\ which \in {"core", "bulk", "flow", "poller", "outputs"}
    /\ Init
    /\ which # "core" => control.backend = "celery"
    /\ Bulk!BulkInit
    /\ Flow!FlowInit
    /\ Poller!PollerInit
    /\ which # "poller" => page.visible /\ page.online
    /\ Outputs!OutputInit

ProgressNext ==
    /\ UNCHANGED which
    /\ IF which = "core" THEN Next ELSE UNCHANGED vars
    /\ IF which = "bulk" THEN Bulk!BulkNext ELSE UNCHANGED bulkVars
    /\ IF which = "flow" THEN Flow!FlowNext ELSE UNCHANGED flowVars
    /\ IF which = "poller" THEN Poller!PollerNext ELSE UNCHANGED pollerVars
    /\ IF which = "outputs" THEN Outputs!OutputNext ELSE UNCHANGED outputVars

\* The leases, the sweep and the cron of DurableExecution!Scheduling.
CoreFairness ==
    \A r \in Rows : /\ WF_vars(which = "core" /\ RowDeadline(r))
                    /\ WF_vars(which = "core" /\ StepDeadline(r))
                    /\ WF_vars(which = "core" /\ Sweep(r))
                    /\ SF_vars(which = "core" /\ RecoverExecution(r))

\* The intent of a chunk is delivered until its transaction commits.
BulkFairness ==
    \A j \in {1, 2}, k \in 0 .. 2 : WF_bulkVars(which = "bulk" /\ Bulk!ApplyBulkChunk(j, k))

\* The Workflow runs on, and the deadline of a call passes.
FlowFairness ==
    WF_flowVars(which = "flow" /\ (\/ Flow!Call \/ Flow!OutOfRoom \/ Flow!Decide
                                   \/ Flow!LoseExecution \/ Flow!LoseStatus))

\* Timers fire, and a server that is asked again and again answers in time.
PollerFairness ==
    /\ WF_pollerVars(which = "poller" /\ Poller!DeadlinePasses)
    /\ WF_pollerVars(which = "poller" /\ Poller!TimerFires)
    /\ WF_pollerVars(which = "poller" /\ (Poller!SettleValue \/ Poller!SettleError))
    /\ SF_pollerVars(which = "poller" /\ ~poller.aborted /\ Poller!SettleValue)

\* The retention sweep comes back.
OutputFairness == WF_outputVars(which = "outputs" /\ Outputs!Drain)

ProgressSpec ==
    /\ ProgressInit
    /\ [][ProgressNext]_<<which, vars, bulkVars, flowVars, pollerVars, outputVars>>
    /\ CoreFairness /\ BulkFairness /\ FlowFairness /\ PollerFairness /\ OutputFairness

\* What was begun comes to an end: the chunks of a bulk job, the Workflow of a
\* claimed job, the polls of a page whose job is over, and the erasure of what
\* was withdrawn (BulkJob, JobWorkflow, JobPoller, SavedOutputs).
WorkGoesOn ==
    /\ Bulk!JobsFinish
    /\ Flow!WorkflowEnds
    /\ Poller!OutcomeIsShown
    /\ Outputs!ErasureEnds
====
