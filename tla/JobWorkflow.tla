---- MODULE JobWorkflow ----
(***************************************************************************)
(* The Cloudflare controller of one claimed job: the dispatcher publishes  *)
(* its envelope, the queue hands it to a Workflow of the same identity,    *)
(* and the Workflow calls the worker API step by step.  Calls may be late, *)
(* their responses lost; messages may be lost or delivered again.          *)
(***************************************************************************)
EXTENDS Naturals

CONSTANTS LastStep,       \* bound: units of the job
          MaxOperations,  \* controllerOperations of one Workflow (2048 in the code)
          MaxFailures,    \* transport failures that end it (5 in the code)
          MaxUnits        \* continuations of one job (512 in the code)

VARIABLES message,    \* the envelope: "claimed", "left", "queued" or "acked"
          workflow,   \* the Workflow instance of this outbox row, generation and epoch
          call,       \* its request: what was asked, and the answer that is on its way
          arriving,   \* workerExecuteStep requests that have not reached the server
          receipts,   \* worker_steps of the generation
          slotTaken,  \* another job owns the execution slot
          performed,  \* operations the Workflow really made: API calls and waits
          unread      \* an execution went unanswered and no status was read since

flowVars == <<message, workflow, call, arriving, receipts, slotTaken, performed, unread>>

Steps == 1 .. LastStep
Final == {"done", "blocked", "stale", "reconcile"}
NoCall == [op |-> "none", n |-> 0, answer |-> "none"]
NoWorkflow == [at |-> "absent", key |-> 1, needsStatus |-> FALSE, failures |-> 0, units |-> 0,
               counted |-> 0, result |-> "none"]

FlowInit ==
    /\ message = "claimed"
    /\ workflow = NoWorkflow
    /\ call = NoCall
    /\ arriving = {}
    /\ receipts = [k \in Steps |-> "none"]
    /\ slotTaken = FALSE
    /\ performed = 0
    /\ unread = FALSE

FlowTypeOK ==
    /\ message \in {"claimed", "left", "queued", "acked"}
    /\ workflow.at \in {"absent", "loop", "calling", "over"} /\ workflow.key \in Steps
    /\ call.op \in {"none", "execute", "status"}
    /\ call.answer \in Final \cup {"none", "continue", "retry_later"}
    /\ receipts \in [Steps -> Final \cup {"none", "running", "expired", "continue"}]

----------------------------------------------------------------------------
(* The dispatcher and the queue.                                           *)

\* dispatchTick: sent, or unknown, or left with its lease when the time is up.
Publish ==
    /\ message = "claimed"
    /\ message' \in {"queued", "left"}
    /\ UNCHANGED <<workflow, call, arriving, receipts, slotTaken, performed, unread>>

\* handoffMessage: create, or get the instance that exists; the message is
\* acknowledged when the instance was seen, otherwise it is delivered again.
Handoff(created, seen) ==
    /\ message = "queued"
    /\ seen => created \/ workflow.at # "absent"
    /\ workflow' = IF created /\ workflow.at = "absent" THEN [workflow EXCEPT !.at = "loop"] ELSE workflow
    /\ message' = IF seen THEN "acked" ELSE "queued"
    /\ UNCHANGED <<call, arriving, receipts, slotTaken, performed, unread>>

\* The queue delivers at least once.
Redeliver ==
    /\ message = "acked" /\ workflow.at = "over"
    /\ message' = "queued"
    /\ UNCHANGED <<workflow, call, arriving, receipts, slotTaken, performed, unread>>

----------------------------------------------------------------------------
(* The Workflow.                                                           *)

\* Mutant: room for the call and its status, not for the wait.
Room_OneCall == workflow.counted + 2 <= MaxOperations

\* An iteration of runJob performs a call, the status after it and a wait at most.
Room == workflow.counted + 3 <= MaxOperations

Ended(result) == [workflow EXCEPT !.at = "over", !.result = result]

Call ==
    /\ workflow.at = "loop" /\ Room
    /\ workflow' = [workflow EXCEPT !.at = "calling", !.counted = @ + 2]
    /\ performed' = performed + 1
    /\ call' = [op |-> IF workflow.needsStatus THEN "status" ELSE "execute", n |-> performed', answer |-> "none"]
    /\ arriving' = IF workflow.needsStatus THEN arriving ELSE arriving \cup {[key |-> workflow.key, n |-> performed']}
    /\ UNCHANGED <<message, receipts, slotTaken, unread>>

OutOfRoom ==
    /\ workflow.at = "loop" /\ ~Room
    /\ workflow' = Ended("blocked")
    /\ UNCHANGED <<message, call, arriving, receipts, slotTaken, performed, unread>>

\* executeUnit: an execution that is not answered is followed by a status read.
LoseExecution ==
    /\ workflow.at = "calling" /\ call.op = "execute"
    /\ performed' = performed + 1
    /\ call' = [op |-> "status", n |-> performed', answer |-> "none"]
    /\ unread' = TRUE
    /\ UNCHANGED <<message, workflow, arriving, receipts, slotTaken>>

\* Mutant: the next iteration forgets that the status was not read.
LoseStatus_Forgets ==
    /\ workflow.at = "calling" /\ call.op = "status"
    /\ workflow' = [workflow EXCEPT !.failures = @ + 1, !.at = "loop", !.counted = @ + 1]
    /\ performed' = performed + 1
    /\ call' = NoCall
    /\ UNCHANGED <<message, arriving, receipts, slotTaken, unread>>

\* A failed status read is waited for and read again, never executed again.
LoseStatus ==
    /\ workflow.at = "calling" /\ call.op = "status"
    /\ LET failed == [workflow EXCEPT !.failures = @ + 1]
           last == failed.failures >= MaxFailures
       IN /\ workflow' = IF last THEN [failed EXCEPT !.at = "over", !.result = "blocked"]
                         ELSE [failed EXCEPT !.at = "loop", !.needsStatus = TRUE, !.counted = @ + 1]
          /\ performed' = IF last THEN performed ELSE performed + 1
    /\ call' = NoCall
    /\ UNCHANGED <<message, arriving, receipts, slotTaken, unread>>

\* 401, 403 and 422 end the Workflow: the intent is refused.
Refused ==
    /\ workflow.at = "calling" /\ call.answer = "none"
    /\ workflow' = Ended("blocked")
    /\ call' = NoCall
    /\ UNCHANGED <<message, arriving, receipts, slotTaken, performed, unread>>

\* runJob: what an answer does to the loop.  One that asks to come back later is
\* a plain wait, or says that the service is unavailable and counts as a failure.
Decide ==
    /\ workflow.at = "calling" /\ call.answer # "none"
    /\ LET answered == [workflow EXCEPT !.at = "loop", !.needsStatus = FALSE] IN
       \/ /\ call.answer \in Final
          /\ workflow' = Ended(call.answer)
          /\ UNCHANGED performed
       \/ /\ call.answer = "continue"
          /\ workflow' = IF workflow.units + 1 >= MaxUnits THEN Ended("blocked")
                         ELSE [answered EXCEPT !.key = @ + 1, !.units = @ + 1, !.failures = 0]
          /\ UNCHANGED performed
       \/ /\ call.answer = "retry_later"
          /\ \E failures \in {workflow.failures, workflow.failures + 1} :
                LET last == failures > workflow.failures /\ failures >= MaxFailures IN
                /\ workflow' = IF last THEN [Ended("blocked") EXCEPT !.failures = failures]
                               ELSE [answered EXCEPT !.failures = failures, !.counted = @ + 1]
                /\ performed' = IF last THEN performed ELSE performed + 1
    /\ call' = NoCall
    /\ unread' = FALSE
    /\ UNCHANGED <<message, arriving, receipts, slotTaken>>

----------------------------------------------------------------------------
(* The worker API.                                                         *)

\* Whether an answer meets the request the Workflow waits for.
Answer(n, outcome) == IF call.n = n /\ workflow.at = "calling" THEN [call EXCEPT !.answer = outcome] ELSE call

\* claim_execution_step for a request that arrives, perhaps after its caller gave up.
Arrive ==
    /\ \E request \in arriving :
         LET r == receipts[request.key] IN
         /\ arriving' = arriving \ {request}
         /\ \/ /\ r = "none" /\ ~slotTaken
               /\ receipts' = [receipts EXCEPT ![request.key] = "running"]
               /\ slotTaken' = TRUE
               /\ UNCHANGED call
            \/ /\ r # "none" \/ slotTaken
               /\ call' = Answer(request.n, CASE r \in {"none", "running"} -> "retry_later"
                                              [] r = "expired" -> "reconcile" [] OTHER -> r)
               /\ UNCHANGED <<receipts, slotTaken>>
    /\ UNCHANGED <<message, workflow, performed, unread>>

\* finish_receipt: the unit is committed with its outcome; the response goes to
\* the Workflow if it still waits for this execution.
Finish ==
    /\ \E k \in Steps, outcome \in Final \cup {"continue"}, heard \in BOOLEAN :
         /\ receipts[k] = "running"
         /\ outcome = "continue" => k < LastStep
         /\ receipts' = [receipts EXCEPT ![k] = outcome]
         /\ call' = IF heard /\ call.op = "execute" /\ workflow.key = k /\ call.answer = "none"
                        /\ [key |-> k, n |-> call.n] \notin arriving
                     THEN Answer(call.n, outcome) ELSE call
    /\ slotTaken' = FALSE
    /\ UNCHANGED <<message, workflow, arriving, performed, unread>>

\* The worker died; its lease runs out and the slot is free again.
Expire ==
    /\ \E k \in Steps : receipts[k] = "running" /\ receipts' = [receipts EXCEPT ![k] = "expired"]
    /\ slotTaken' = FALSE
    /\ UNCHANGED <<message, workflow, call, arriving, performed, unread>>

\* read_step_status; no receipt yet is "in progress".
ReadStatus ==
    /\ workflow.at = "calling" /\ call.op = "status" /\ call.answer = "none"
    /\ LET r == receipts[workflow.key] IN
       call' = Answer(call.n, CASE r \in {"none", "running"} -> "retry_later" [] r = "expired" -> "reconcile" [] OTHER -> r)
    /\ UNCHANGED <<message, workflow, arriving, receipts, slotTaken, performed, unread>>

OtherJob ==
    /\ \A k \in Steps : receipts[k] # "running"
    /\ slotTaken' = ~slotTaken
    /\ UNCHANGED <<message, workflow, call, arriving, receipts, performed, unread>>

FlowNext ==
    \/ Publish
    \/ \E created, seen \in BOOLEAN : Handoff(created, seen)
    \/ Redeliver
    \/ Call
    \/ OutOfRoom
    \/ LoseExecution
    \/ LoseStatus
    \/ Refused
    \/ Decide
    \/ Arrive
    \/ Finish
    \/ Expire
    \/ ReadStatus
    \/ OtherJob

FlowSpec == FlowInit /\ [][FlowNext]_flowVars

----------------------------------------------------------------------------

\* "This status read must complete before any decision to execute this key
\* again": whatever responses are lost, an execution is never sent while the
\* fate of an earlier one is unread.
NoBlindRepeat == call.op = "execute" => ~unread

\* A Workflow ends, whatever calls are lost and however often it has to wait, and
\* ends within the platform's ceiling: operations are counted ahead, while a
\* response may be lost at the last one.
WorkflowEnds ==
    /\ workflow.at = "loop" ~> workflow.at = "over"
    /\ [](performed <= MaxOperations)
====
