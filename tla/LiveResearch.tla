--------------------------- MODULE LiveResearch ----------------------------
(***************************************************************************)
(* A run's paid research as production performs it                         *)
(* (services/api/buyeros_api): services/run_search prepares one frozen     *)
(* query at a time, providers/live_search takes the one right to ask the   *)
(* vendor and keeps the answer in a durable receipt,                       *)
(* execution/external_runner records what became of the operation,         *)
(* services/search_intake takes the answer in and queues the next query,   *)
(* execution/research_page_runner fetches a candidate's page, and          *)
(* services/run_model asks a model about a reviewed candidate.             *)
(*                                                                         *)
(* It runs on the signed API host of the Cloudflare runtime: a host owns   *)
(* the single execution slot until its step ends or its lease lapses.      *)
(* Sessions of the worker role check that ownership; those of the API role *)
(* check the generation of the event only.                                 *)
(***************************************************************************)
EXTENDS Naturals, FiniteSets

CONSTANTS
    Hosts,              \* processes of the API host
    Plans,              \* how many queries the run's plan may freeze
    ReviewedPlans,      \* bound: the plans whose candidates somebody reviews
    Concurrency,        \* the limit provider_concurrency of the run
    MaxDeliveries,      \* bound: deliveries of an event or of its child
    MaxChanges          \* bound: changes of permission or of selection

VARIABLES
    plan,               \* how many queries the run's plan froze
    units,              \* per call: its event, operation, receipt and status child
    candidates,         \* what each query led to: its intake, page and review
    usage,              \* the run's counters, and whether it stopped early
    gates,              \* the research policy and the provider registry
    slot,               \* who owns the execution slot
    hosts               \* what each process is doing

liveVars == <<plan, units, candidates, usage, gates, slot, hosts>>

Queries == 1..plan
Reviewable == IF plan \in ReviewedPlans THEN Queries ELSE {}
Calls == ({"search"} \X Queries) \cup ({"model"} \X Reviewable)
Kind(u) == u[1]
Query(u) == u[2]
Free == "free"
IdleHost == [at |-> "idle"]
InDoubt == {"submitting", "accepted", "unknown"}
NoUnit == [event |-> "none", deliveries |-> 0, operation |-> "none",
           receipt |-> "none", prepared |-> 0, child |-> "none", asked |-> 0]

LiveTypeOK ==
    /\ plan \in Plans
    /\ units \in [Calls ->
          [event: {"none", "ready", "dispatched", "done"}, deliveries: 0..MaxDeliveries,
           operation: {"none", "reserved", "succeeded"} \cup InDoubt,
           receipt: {"none", "prepared", "submitting", "received", "unknown"},
           prepared: 0..MaxDeliveries,
           child: {"none", "ready", "dispatched", "done"}, asked: 0..1]]
    /\ candidates \in [Queries -> [intake: BOOLEAN, reviewed: BOOLEAN,
                                   page: {"none", "prepared", "finished"}]]
    /\ usage \in [queries: 0..plan, inFlight: 0..Concurrency, partial: BOOLEAN]
    /\ gates \in [permitted: BOOLEAN, selected: BOOLEAN, changes: 0..MaxChanges]
    /\ slot \in Hosts \cup {Free}
    /\ DOMAIN hosts = Hosts
    /\ \A h \in Hosts : hosts[h].at \in {"idle", "start", "external", "claim", "call", "answered",
                                         "finalize", "status", "intake", "pages", "fetch"}

------------------------------------------------------------------------------
\* A step of a process on the unit it works on.

Unit(h) == units[hosts[h].unit]
Owned(h) == slot = h
CurrentFence(h) == Unit(h).event = "dispatched" /\ Unit(h).deliveries = hosts[h].generation
NewWork == gates.permitted /\ gates.selected
\* Mutant: a call more than the limit may be in flight.
Room_AtLimit == usage.inFlight <= Concurrency

Room == usage.inFlight < Concurrency

Goes(h, at) == hosts' = [hosts EXCEPT ![h].at = at]
Leaves(h) ==
    /\ hosts' = [hosts EXCEPT ![h] = IdleHost]
    /\ slot' = IF Owned(h) THEN Free ELSE slot
\* The step ends with its receipt, and the process goes on without the slot.
GoesOnAlone(h, at) == Goes(h, at) /\ slot' = Free

\* _queue_reconciliation: a status-only child, and the event is done.
Queued(unit) == [unit EXCEPT !.event = "done", !.child = IF @ = "none" THEN "ready" ELSE @]

\* A submission whose end nobody saw is in doubt.
Doubted(unit) == [unit EXCEPT !.operation = IF @ = "submitting" THEN "unknown" ELSE @]

Deliver(h, u) ==
    /\ hosts[h].at = "idle" /\ slot = Free
    /\ units[u].event = "ready" /\ units[u].deliveries < MaxDeliveries
    /\ units' = [units EXCEPT ![u].event = "dispatched", ![u].deliveries = @ + 1]
    /\ hosts' = [hosts EXCEPT ![h] =
          [at |-> "start", unit |-> u, generation |-> units'[u].deliveries, answer |-> "none",
           page |-> Query(u)]]
    /\ slot' = h
    /\ UNCHANGED <<candidates, usage, gates>>

DeliverChild(h, u) ==
    /\ hosts[h].at = "idle" /\ slot = Free
    /\ units[u].child = "ready"
    /\ units' = [units EXCEPT ![u].child = "dispatched"]
    /\ hosts' = [hosts EXCEPT ![h] =
          [at |-> "status", unit |-> u, generation |-> 0, answer |-> "none", page |-> Query(u)]]
    /\ slot' = h
    /\ UNCHANGED <<candidates, usage, gates>>

\* The exception of a refused step, a lost fence, a timeout or the loss of the
\* process: nothing of the step is undone, nothing is released.
Abandon(h) ==
    /\ hosts[h].at # "idle"
    /\ Leaves(h)
    /\ UNCHANGED <<units, candidates, usage, gates>>

Lapse(h) ==
    /\ Owned(h) /\ slot' = Free
    /\ UNCHANGED <<units, candidates, usage, gates, hosts>>

------------------------------------------------------------------------------
\* prepare_run_search and prepare_run_model: the operation, its hold, its
\* receipt and the counters, together; or the ones a lost delivery left.

Fresh(unit) == [unit EXCEPT !.operation = "reserved", !.receipt = "prepared",
                            !.prepared = unit.deliveries]
Reusable(unit) == unit.operation = "reserved" /\ unit.receipt = "prepared"

Prepare(h) ==
    LET u == hosts[h].unit IN
    /\ hosts[h].at = "start" /\ CurrentFence(h) /\ NewWork
    /\ \/ /\ Unit(h).operation = "none" /\ Room
          /\ Kind(u) = "search" => usage.queries = Query(u) - 1
          /\ units' = [units EXCEPT ![u] = Fresh(@)]
          /\ usage' = [usage EXCEPT !.inFlight = @ + 1,
                                    !.queries = IF Kind(u) = "search" THEN @ + 1 ELSE @]
       \/ /\ Reusable(Unit(h))
          /\ UNCHANGED <<units, usage>>
    /\ Goes(h, "external")
    /\ UNCHANGED <<candidates, gates, slot>>

\* _existing_original_model: a model's operation in doubt is not prepared again.
ExistingModel(h) ==
    /\ hosts[h].at = "start" /\ Kind(hosts[h].unit) = "model" /\ Owned(h)
    /\ Unit(h).operation \in InDoubt
    /\ Goes(h, "external")
    /\ UNCHANGED <<units, candidates, usage, gates, slot>>

ExternalPrepare(h) ==
    LET u == hosts[h].unit IN
    /\ hosts[h].at = "external" /\ Owned(h) /\ CurrentFence(h)
    /\ \/ /\ Unit(h).operation = "reserved"
          /\ units' = [units EXCEPT ![u].operation = "submitting"]
          /\ Goes(h, "claim") /\ UNCHANGED slot
       \/ /\ Unit(h).operation \in InDoubt
          /\ units' = [units EXCEPT ![u] = Queued(Doubted(@))]
          /\ Leaves(h)
    /\ UNCHANGED <<candidates, usage, gates>>

\* PostgresSearchReceipts.claim: the one right to ask the vendor.
Claim(h) ==
    LET u == hosts[h].unit
        mayAsk == Unit(h).receipt = "prepared" /\ Unit(h).prepared = hosts[h].generation /\ NewWork IN
    /\ hosts[h].at = "claim" /\ Owned(h)
    /\ IF mayAsk
       THEN units' = [units EXCEPT ![u].receipt = "submitting"] /\ Goes(h, "call")
       ELSE UNCHANGED units /\ hosts' = [hosts EXCEPT ![h].at = "finalize", ![h].answer = "unknown"]
    /\ UNCHANGED <<candidates, usage, gates, slot>>

Ask(h, answer) ==
    /\ hosts[h].at = "call"
    /\ units' = [units EXCEPT ![hosts[h].unit].asked = @ + 1]
    /\ hosts' = [hosts EXCEPT ![h].at = "answered", ![h].answer = answer]
    /\ UNCHANGED <<candidates, usage, gates, slot>>

\* PostgresSearchReceipts.finish, and the read that confirms it.
FinishReceipt(h) ==
    /\ hosts[h].at = "answered" /\ Owned(h) /\ CurrentFence(h)
    /\ units' = [units EXCEPT ![hosts[h].unit].receipt = hosts[h].answer]
    /\ hosts' = [hosts EXCEPT ![h].at = "finalize", ![h].answer =
          IF @ = "received" /\ gates.permitted THEN "accepted" ELSE "unknown"]
    /\ UNCHANGED <<candidates, usage, gates, slot>>

ExternalFinalize(h) ==
    LET u == hosts[h].unit IN
    /\ hosts[h].at = "finalize" /\ Owned(h) /\ CurrentFence(h)
    /\ units' = [units EXCEPT ![u] = Queued([@ EXCEPT !.operation = hosts[h].answer])]
    /\ IF Kind(u) = "search" /\ hosts[h].answer = "accepted"
       THEN GoesOnAlone(h, "intake") ELSE Leaves(h)
    /\ UNCHANGED <<candidates, usage, gates>>

\* The status of the receipt, asked by the child.
AskStatus(h) ==
    LET u == hosts[h].unit
        answered == Unit(h).operation # "submitting" /\ Unit(h).receipt = "received" /\ gates.permitted IN
    /\ hosts[h].at = "status" /\ Owned(h)
    /\ IF answered
       THEN /\ units' = [units EXCEPT ![u].operation = "succeeded", ![u].child = "done"]
            /\ IF Kind(u) = "search" THEN GoesOnAlone(h, "intake") ELSE Leaves(h)
       ELSE /\ units' = [units EXCEPT ![u].operation = "unknown"]
            /\ Leaves(h)
    /\ UNCHANGED <<candidates, usage, gates>>

------------------------------------------------------------------------------
\* Intake and what follows it, by the API role.

Receivable(q) ==
    LET unit == units[<<"search", q>>] IN
    /\ unit.receipt = "received" /\ unit.operation \in {"accepted", "succeeded"}
    /\ unit.event = "done" /\ unit.deliveries = unit.prepared
    /\ gates.permitted

\* queue_received_run_successor, in the transaction of the intake.
Successor(q) ==
    LET next == <<"search", q + 1>>
        goesOn == NewWork /\ usage.inFlight - 1 < Concurrency IN
    IF q = plan \/ usage.partial THEN
            /\ UNCHANGED units
            /\ usage' = [usage EXCEPT !.inFlight = @ - 1]
    ELSE IF goesOn THEN
            /\ units' = [units EXCEPT ![next].event = IF @ = "none" THEN "ready" ELSE @]
            /\ usage' = [usage EXCEPT !.inFlight = @ - 1]
    ELSE
            /\ UNCHANGED units
            /\ usage' = [usage EXCEPT !.inFlight = @ - 1, !.partial = TRUE]

\* Mutant: the intake does not look for the checkpoint of an earlier one.
Intake_NoCheckpoint(h, q) ==
    /\ Receivable(q) /\ usage.inFlight > 0
    /\ candidates' = [candidates EXCEPT ![q].intake = TRUE]
    /\ Successor(q)

Intake(h, q) ==
    /\ Receivable(q)
    /\ \/ /\ candidates[q].intake
          /\ UNCHANGED <<units, candidates, usage>>
       \/ /\ ~candidates[q].intake /\ q = usage.queries
          /\ usage.inFlight > 0
          /\ candidates' = [candidates EXCEPT ![q].intake = TRUE]
          /\ Successor(q)

IngestReceived(h) ==
    /\ hosts[h].at = "intake"
    /\ Intake(h, Query(hosts[h].unit))
    /\ Goes(h, "pages")
    /\ UNCHANGED <<gates, slot>>

\* execute_research_page: the claim of a page, its fetch outside, its result.
PageReady(q) == candidates[q].intake /\ candidates[q].page = "none" /\ Receivable(q) /\ Room

PreparePage(h, q) ==
    /\ hosts[h].at = "pages" /\ PageReady(q)
    /\ candidates' = [candidates EXCEPT ![q].page = "prepared"]
    /\ usage' = [usage EXCEPT !.inFlight = @ + 1]
    /\ hosts' = [hosts EXCEPT ![h].at = "fetch", ![h].page = q]
    /\ UNCHANGED <<units, gates, slot>>

NoMorePages(h) ==
    /\ hosts[h].at = "pages" /\ \A q \in Queries : ~PageReady(q)
    /\ Leaves(h)
    /\ UNCHANGED <<units, candidates, usage, gates>>

\* A page whose scope changed meanwhile keeps its claim and its place in flight.
FinishPage(h) ==
    LET q == hosts[h].page IN
    /\ hosts[h].at = "fetch"
    /\ IF Receivable(q)
       THEN /\ candidates' = [candidates EXCEPT ![q].page = "finished"]
            /\ usage' = [usage EXCEPT !.inFlight = @ - 1]
       ELSE UNCHANGED <<candidates, usage>>
    /\ Goes(h, "pages")
    /\ UNCHANGED <<units, gates, slot>>

\* review_research_candidate and schedule_reviewed_run_model.
ReviewCandidate(q) ==
    /\ candidates[q].page = "finished" /\ ~candidates[q].reviewed /\ Receivable(q)
    /\ candidates' = [candidates EXCEPT ![q].reviewed = TRUE]
    /\ units' = IF gates.selected THEN [units EXCEPT ![<<"model", q>>].event = "ready"] ELSE units
    /\ UNCHANGED <<usage, gates, slot, hosts>>

------------------------------------------------------------------------------
\* The recovery sweep.  It knows a search's uncertain operations by keys of
\* another form than prepare_run_search gives them, so it finds none.

\* A live owner of the slot works on this event, or on its child.
InSlot(u, child) ==
    \E h \in Hosts : Owned(h) /\ hosts[h].at # "idle" /\ hosts[h].unit = u
                     /\ (hosts[h].generation = 0) = child

Recover(u) ==
    /\ units[u].event = "dispatched"
    /\ ~InSlot(u, FALSE)
    /\ units' = [units EXCEPT ![u] =
          IF Kind(u) = "model" /\ @.operation \in InDoubt
          THEN Queued(@) ELSE [@ EXCEPT !.event = "ready"]]
    /\ UNCHANGED <<candidates, usage, gates, slot, hosts>>

RecoverChild(u) ==
    /\ units[u].child = "dispatched"
    /\ ~InSlot(u, TRUE)
    /\ units' = [units EXCEPT ![u].child = "ready"]
    /\ UNCHANGED <<candidates, usage, gates, slot, hosts>>

ChangeGate ==
    /\ gates.changes < MaxChanges
    /\ \/ gates' = [gates EXCEPT !.permitted = ~@, !.changes = @ + 1]
       \/ gates' = [gates EXCEPT !.selected = ~@, !.changes = @ + 1]
    /\ UNCHANGED <<units, candidates, usage, slot, hosts>>

LiveInit ==
    /\ plan \in Plans
    /\ units = [u \in Calls |-> [NoUnit EXCEPT !.event = IF u = <<"search", 1>> THEN "ready" ELSE "none"]]
    /\ candidates = [q \in Queries |-> [intake |-> FALSE, reviewed |-> FALSE, page |-> "none"]]
    /\ usage = [queries |-> 0, inFlight |-> 0, partial |-> FALSE]
    /\ gates = [permitted |-> TRUE, selected |-> TRUE, changes |-> 0]
    /\ slot = Free
    /\ hosts = [h \in Hosts |-> IdleHost]

LiveNext ==
    /\ UNCHANGED plan
    /\ \/ \E h \in Hosts :
             \/ \E u \in Calls : Deliver(h, u) \/ DeliverChild(h, u)
             \/ Abandon(h) \/ Lapse(h)
             \/ Prepare(h) \/ ExistingModel(h) \/ ExternalPrepare(h) \/ Claim(h)
             \/ \E answer \in {"received", "unknown"} : Ask(h, answer)
             \/ FinishReceipt(h) \/ ExternalFinalize(h) \/ AskStatus(h)
             \/ IngestReceived(h) \/ NoMorePages(h) \/ FinishPage(h)
             \/ \E q \in Queries : PreparePage(h, q)
       \/ \E q \in Reviewable : ReviewCandidate(q)
       \/ \E u \in Calls : Recover(u) \/ RecoverChild(u)
       \/ ChangeGate

LiveSpec == LiveInit /\ [][LiveNext]_liveVars

------------------------------------------------------------------------------
\* The run's in_flight counter covers every search prepared and not yet taken
\* in and every page claimed and not finished, whatever was repeated, lost or
\* taken in twice: otherwise the run would ask more at once than its limit
\* provider_concurrency allows (run_usage.advance_usage, search_intake).
InFlightCoversOpenWork ==
    Cardinality({q \in Queries : units[<<"search", q>>].operation # "none" /\ ~candidates[q].intake})
    + Cardinality({q \in Queries : candidates[q].page = "prepared"}) <= usage.inFlight
=============================================================================
