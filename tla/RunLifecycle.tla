---- MODULE RunLifecycle ----
(***************************************************************************)
(* A research run from admission to review: one paid search per query,     *)
(* each prepared, called and finalized in transactions of its own, status  *)
(* lookups for searches whose outcome is unknown, the fit stage, and the   *)
(* user who cancels and retries.  Every unit of work is an outbox intent   *)
(* whose delivery is fenced by its generation; workers crash, stall and    *)
(* are handed an intent twice.                                             *)
(***************************************************************************)
EXTENDS Naturals, TLAPS

CONSTANTS RunBackends,  \* subset of {"celery", "cloudflare"}; one is chosen
          RunWorkers,   \* processes that execute intents
          LastQuery,    \* queries of the plan are 0 .. LastQuery
          MaxClaims,    \* bound: generations of one intent
          MaxFits       \* bound: attempts of the run

VARIABLES backend,      \* the selected runtime
          run,          \* search_runs: status, stage, queries used, attempt, target reached
          searches,     \* provider_operations of the queries, with their holds
          intents,      \* outbox events of the run
          runWorkers,   \* what each process is doing, and for which claim
          current       \* profile, actor and policy still allow the research

runVars == <<backend, run, searches, intents, runWorkers, current>>

Queries == 0 .. LastQuery
IntentKeys == {"discover", "reconcile"} \X Queries \cup {"fit"} \X (1 .. MaxFits)
Unresolved == {q \in Queries : searches[q] \in {"submitting", "unknown"}}
Live(i) == intents[i].state \in {"ready", "dispatched"}

NoRunIntent == [state |-> "absent", gen |-> 0, attempts |-> 0, stepped |-> FALSE]
ReadyIntent == [NoRunIntent EXCEPT !.state = "ready"]
IdleRunWorker == [phase |-> "idle", intent |-> <<"none", 0>>, gen |-> 0, status |-> "none"]

\* admit_run commits the run, its ceiling, its first event and its first intent.
RunInit ==
    /\ backend \in RunBackends
    /\ run = [status |-> "queued", stage |-> "queued", queries |-> 0, attempt |-> 1, enough |-> FALSE]
    /\ searches = [q \in Queries |-> "none"]
    /\ intents = [i \in IntentKeys |-> IF i = <<"discover", 0>> THEN ReadyIntent ELSE NoRunIntent]
    /\ runWorkers = [w \in RunWorkers |-> IdleRunWorker]
    /\ current = TRUE

RunStates == {"queued", "running", "partial", "paused_budget", "completed", "failed",
              "cancel_requested", "cancelled"}
RunTypeOK ==
    /\ run.status \in RunStates
    /\ run.queries \in 0 .. LastQuery + 1 /\ run.attempt \in 1 .. MaxFits /\ run.enough \in BOOLEAN
    /\ searches \in [Queries -> {"none", "submitting", "unknown", "settled"}]
    /\ intents \in [IntentKeys -> [state : {"absent", "ready", "dispatched", "done", "failed"},
                                   gen : 0 .. MaxClaims, attempts : 0 .. 3, stepped : BOOLEAN]]
    /\ \A w \in RunWorkers :
         runWorkers[w].phase \in {"idle", "prepared", "searching", "halting", "asking", "fitting"}

----------------------------------------------------------------------------
(* Claims.                                                                 *)

\* Celery also takes back a claim whose lease passed; a claim of the other
\* runtime waits for its recovery.
ClaimIntent(i) ==
    LET row == intents[i] IN
    /\ row.state = "ready" \/ (row.state = "dispatched" /\ backend = "celery")
    /\ row.gen < MaxClaims
    /\ intents' = [intents EXCEPT ![i] =
                     [state |-> "dispatched", gen |-> @.gen + 1, stepped |-> FALSE,
                      attempts |-> IF @.attempts < 3 THEN @.attempts + 1 ELSE 3]]
    /\ UNCHANGED <<backend, run, searches, runWorkers, current>>

\* A delivery of the current claim; a Cloudflare step is granted once per claim.
Delivered(w, i) ==
    /\ runWorkers[w] = IdleRunWorker
    /\ intents[i].state = "dispatched"
    /\ backend = "cloudflare" => ~intents[i].stepped

Stepped(i) == [intents EXCEPT ![i].stepped = TRUE]

At(w, phase, i, status) ==
    [runWorkers EXCEPT ![w] = [phase |-> phase, intent |-> i, gen |-> intents[i].gen, status |-> status]]
Leave(w) == [runWorkers EXCEPT ![w] = IdleRunWorker]

\* The intent is still the one that was claimed.
Fenced(w) ==
    LET i == runWorkers[w].intent IN
    intents[i].state = "dispatched" /\ intents[i].gen = runWorkers[w].gen

\* The process dies, or its transaction is refused by the fence.
CrashRunWorker(w) ==
    /\ runWorkers[w].phase # "idle"
    /\ runWorkers' = Leave(w)
    /\ UNCHANGED <<backend, run, searches, intents, current>>

\* Mutant: a child is looked for under another key and always found.
Orphans_None == {}

\* Searches nobody has queued a status lookup for.
Orphans == {<<"reconcile", q>> : q \in Unresolved} \cap {i \in IntentKeys : intents[i].state = "absent"}

\* A due claim: the searches of the run decide whether it is open again.
RecoverIntent(i) ==
    LET uncertain == Unresolved # {}
        state == IF uncertain /\ i[1] # "reconcile" THEN "done" ELSE "ready"
    IN
    /\ backend = "cloudflare" /\ intents[i].state = "dispatched"
    /\ intents' = [k \in IntentKeys |->
                     IF k = i THEN [intents[k] EXCEPT !.state = state]
                     ELSE IF k \in Orphans THEN ReadyIntent
                     ELSE intents[k]]
    /\ UNCHANGED <<backend, run, searches, runWorkers, current>>

----------------------------------------------------------------------------
(* One search.                                                             *)

\* Why a search may not be prepared, in the order of the code; "" when it may.
Verdict(q) ==
    IF run.status \notin {"queued", "running"} THEN "invalid_run"
    ELSE IF run.queries # q THEN "invalid_plan"
    ELSE IF ~current THEN "policy_blocked"
    ELSE IF searches[q] # "none" THEN "unknown"
    ELSE "submit"

\* Hold, operation, usage and the start of the run in one transaction.
PrepareSearch(w, q) ==
    LET i == <<"discover", q>> IN
    /\ Delivered(w, i)
    /\ Verdict(q) = "submit"
    /\ searches' = [searches EXCEPT ![q] = "submitting"]
    /\ run' = [run EXCEPT !.queries = q + 1, !.stage = "discovery", !.status = "running"]
    /\ intents' = Stepped(i)
    /\ runWorkers' = At(w, "prepared", i, "none")
    /\ UNCHANGED <<backend, current>>

\* A denial before the call: the refused gate, the budget, or a run ceiling.
DenySearch(w, q, status) ==
    LET i == <<"discover", q>> IN
    /\ Delivered(w, i)
    /\ IF Verdict(q) \in {"invalid_run", "invalid_plan", "policy_blocked"} THEN status = "failed"
       ELSE status \in {"paused_budget", "partial"}
    /\ intents' = Stepped(i)
    /\ runWorkers' = At(w, "halting", i, status)
    /\ UNCHANGED <<backend, run, searches, current>>

\* It is recorded in a fresh transaction, over whatever the run is by then.
HaltBeforeDispatch(w) ==
    LET me == runWorkers[w] IN
    /\ me.phase = "halting"
    /\ Fenced(w)
    /\ run' = [run EXCEPT !.status = me.status, !.stage = me.status]
    /\ intents' = [intents EXCEPT ![me.intent].state = "done"]
    /\ runWorkers' = Leave(w)
    /\ UNCHANGED <<backend, searches, current>>

MarkDispatch(w) ==
    /\ runWorkers[w].phase = "prepared"
    /\ Fenced(w)
    /\ runWorkers' = [runWorkers EXCEPT ![w].phase = "searching"]
    /\ UNCHANGED <<backend, run, searches, intents, current>>

\* A timeout, an invalid batch, or a finalization that rolled back.
MarkUnknown(w) ==
    LET me == runWorkers[w]
        q == me.intent[2]
        cancelling == run.status = "cancel_requested"
        reconcile == <<"reconcile", q>>
    IN
    /\ me.phase \in {"searching", "asking"}
    /\ Fenced(w)
    /\ searches' = [searches EXCEPT ![q] = "unknown"]
    /\ run' = [run EXCEPT !.status = IF cancelling THEN "cancel_requested" ELSE "partial",
                          !.stage = IF cancelling THEN "reconciling_cancellation"
                                    ELSE "reconciliation_required"]
    /\ intents' = [k \in IntentKeys |->
                     IF k = me.intent THEN [intents[k] EXCEPT !.state = "done"]
                     ELSE IF k = reconcile /\ intents[k].state = "absent" THEN ReadyIntent
                     ELSE intents[k]]
    /\ runWorkers' = Leave(w)
    /\ UNCHANGED <<backend, current>>

Finalizable(w) ==
    LET me == runWorkers[w] IN
    /\ me.phase \in {"searching", "asking"}
    /\ Fenced(w)
    /\ searches[me.intent[2]] = IF me.phase = "searching" THEN "submitting" ELSE "unknown"

Settle(w) == searches' = [searches EXCEPT ![runWorkers[w].intent[2]] = "settled"]

\* The cost is known but nothing is kept: over a ceiling, or no longer allowed.
FinalizeWithoutRows(w, stage) ==
    /\ Finalizable(w)
    /\ stage = "policy_recheck_failed" => ~current
    /\ Settle(w)
    /\ run' = [run EXCEPT !.status = "partial", !.stage = stage]
    /\ intents' = [intents EXCEPT ![runWorkers[w].intent].state = "done"]
    /\ runWorkers' = Leave(w)
    /\ UNCHANGED <<backend, current>>

\* Mutant: the query that was finalized is taken for the next one.
NextWork_OffByOne(enough) ==
    IF run.queries + 1 <= LastQuery /\ ~enough THEN <<"discover", run.queries>> ELSE <<"fit", run.attempt>>

\* The next query, unless the plan is exhausted or enough companies are found.
NextWork(enough) ==
    IF run.queries <= LastQuery /\ ~enough THEN <<"discover", run.queries>> ELSE <<"fit", run.attempt>>

\* Rows, cost, the state of the run and the next intent, or the end of a
\* cancelled run, in one transaction.
FinalizeBatch(w, found) ==
    LET enough == run.enough \/ found
        next == NextWork(enough)
        resumed == IF run.status = "partial" THEN "running" ELSE run.status
        closed == [intents EXCEPT ![runWorkers[w].intent].state = "done"]
    IN
    /\ Finalizable(w)
    /\ current
    /\ Settle(w)
    /\ IF run.status = "cancel_requested"
       THEN /\ run' = [run EXCEPT !.status = "cancelled", !.stage = "cancelled", !.enough = enough]
            /\ intents' = closed
       ELSE /\ run' = [run EXCEPT !.status = resumed, !.enough = enough,
                                  !.stage = IF next[1] = "fit" THEN "fit" ELSE run.stage]
            /\ intents' = [closed EXCEPT ![next] = ReadyIntent]
    /\ runWorkers' = Leave(w)
    /\ UNCHANGED <<backend, current>>

\* The status lookup of a search whose outcome is unknown; no search is sent.
AskStatus(w, q) ==
    LET i == <<"reconcile", q>> IN
    /\ Delivered(w, i)
    /\ searches[q] = "unknown"
    /\ intents' = Stepped(i)
    /\ runWorkers' = At(w, "asking", i, "none")
    /\ UNCHANGED <<backend, run, searches, current>>

\* Three lookups without an answer leave the operation to manual review.
NoStatus(w) ==
    LET i == runWorkers[w].intent
        attempts == IF intents[i].attempts < 3 THEN intents[i].attempts + 1 ELSE 3
    IN
    /\ runWorkers[w].phase = "asking"
    /\ Fenced(w)
    /\ intents' = [intents EXCEPT ![i].attempts = attempts,
                                  ![i].state = IF attempts = 3 THEN "failed" ELSE "ready"]
    /\ runWorkers' = Leave(w)
    /\ UNCHANGED <<backend, run, searches, current>>

----------------------------------------------------------------------------
(* The fit stage.                                                          *)

\* Work of this run that a fit may not overtake.
PendingRunWork == Unresolved # {} \/ \E q \in Queries : Live(<<"discover", q>>)

StartFit(w, a) ==
    LET i == <<"fit", a>> IN
    /\ Delivered(w, i)
    /\ run.status \in {"queued", "running"} /\ run.stage = "fit"
    /\ ~PendingRunWork
    /\ run' = [run EXCEPT !.status = "running"]
    /\ intents' = Stepped(i)
    /\ runWorkers' = At(w, "fitting", i, "none")
    /\ UNCHANGED <<backend, searches, current>>

\* The basis of a buyer is stale, or the set of buyers changed.
FitFails(w) ==
    LET i == runWorkers[w].intent IN
    /\ runWorkers[w].phase = "fitting"
    /\ Fenced(w)
    /\ run' = IF run.status = "cancel_requested" THEN run
              ELSE [run EXCEPT !.status = "partial", !.stage = "fit_review_required"]
    /\ intents' = [intents EXCEPT ![i].state = "done"]
    /\ runWorkers' = Leave(w)
    /\ UNCHANGED <<backend, searches, current>>

\* Every buyer is assessed on a basis that is still current; no buyer, no basis.
CompleteRun(w) ==
    LET i == runWorkers[w].intent IN
    /\ runWorkers[w].phase = "fitting"
    /\ Fenced(w)
    /\ run.status = "running" /\ run.stage = "fit"
    /\ ~PendingRunWork
    /\ current \/ ~run.enough
    /\ run' = [run EXCEPT !.status = "completed", !.stage = "review"]
    /\ intents' = [intents EXCEPT ![i].state = "done"]
    /\ runWorkers' = Leave(w)
    /\ UNCHANGED <<backend, searches, current>>

\* A Cloudflare step assesses one buyer and asks for the next step.
ContinueFit(w) ==
    LET i == runWorkers[w].intent IN
    /\ backend = "cloudflare"
    /\ runWorkers[w].phase = "fitting"
    /\ Fenced(w)
    /\ run.status = "running" /\ run.stage = "fit" /\ current /\ run.enough
    /\ ~PendingRunWork
    /\ intents' = [intents EXCEPT ![i].stepped = FALSE]
    /\ runWorkers' = Leave(w)
    /\ UNCHANGED <<backend, run, searches, current>>

----------------------------------------------------------------------------
(* The user, and everybody else.                                           *)

\* Mutant: a run that has not started is cancelled at once.
Undispatched_Queued == run.status = "queued"

\* Proof that no provider was asked: never started, no claim, no open search.
Undispatched ==
    /\ run.status = "queued"
    /\ \A i \in IntentKeys : intents[i].state # "dispatched"
    /\ Unresolved = {}

CancelRun ==
    LET cancelled == Undispatched IN
    /\ run.status \notin {"completed", "cancelled", "cancel_requested"}
    /\ intents' = [i \in IntentKeys |->
                     IF intents[i].state = "ready" /\ i[1] # "reconcile"
                     THEN [intents[i] EXCEPT !.state = "done"] ELSE intents[i]]
    /\ run' = [run EXCEPT !.status = IF cancelled THEN "cancelled" ELSE "cancel_requested",
                          !.stage = IF cancelled THEN "cancelled" ELSE "reconciling_cancellation"]
    /\ UNCHANGED <<backend, searches, runWorkers, current>>

\* Mutant: a run whose discovery stopped is sent on to the fit stage.
Retryable_AnyStage == run.status \in {"failed", "partial", "paused_budget"}

\* Only a fit checkpoint: "discovery resume needs authoritative reconciliation".
Retryable ==
    /\ run.status \in {"failed", "partial", "paused_budget"}
    /\ run.stage \in {"fit_review_required", "fit"}

RetryRun ==
    LET attempt == run.attempt + 1 IN
    /\ Retryable
    /\ current /\ ~PendingRunWork
    /\ run.attempt < MaxFits
    /\ run' = [run EXCEPT !.attempt = attempt, !.status = "queued", !.stage = "fit"]
    /\ intents' = [intents EXCEPT ![<<"fit", attempt>>] = ReadyIntent]
    /\ UNCHANGED <<backend, searches, runWorkers, current>>

\* A new profile or a lost role or policy, and back.
ChangeContext ==
    /\ current' = ~current
    /\ UNCHANGED <<backend, run, searches, intents, runWorkers>>

RunNext ==
    \/ \E i \in IntentKeys : ClaimIntent(i)
    \/ \E i \in IntentKeys : RecoverIntent(i)
    \/ \E w \in RunWorkers : CrashRunWorker(w)
    \/ \E w \in RunWorkers, q \in Queries : PrepareSearch(w, q)
    \/ \E w \in RunWorkers, q \in Queries, s \in {"failed", "paused_budget", "partial"} : DenySearch(w, q, s)
    \/ \E w \in RunWorkers : HaltBeforeDispatch(w)
    \/ \E w \in RunWorkers : MarkDispatch(w)
    \/ \E w \in RunWorkers : MarkUnknown(w)
    \/ \E w \in RunWorkers, s \in {"limit_reached", "policy_recheck_failed"} : FinalizeWithoutRows(w, s)
    \/ \E w \in RunWorkers, found \in BOOLEAN : FinalizeBatch(w, found)
    \/ \E w \in RunWorkers, q \in Queries : AskStatus(w, q)
    \/ \E w \in RunWorkers : NoStatus(w)
    \/ \E w \in RunWorkers, a \in 1 .. MaxFits : StartFit(w, a)
    \/ \E w \in RunWorkers : FitFails(w)
    \/ \E w \in RunWorkers : CompleteRun(w)
    \/ \E w \in RunWorkers : ContinueFit(w)
    \/ CancelRun
    \/ RetryRun
    \/ ChangeContext

RunSpec == RunInit /\ [][RunNext]_runVars

----------------------------------------------------------------------------
(* Properties.                                                             *)

\* "only completed/cancelled are terminal": no worker that was already under
\* way, no denial that is recorded late, no retry and no reconciliation takes
\* a run out of them.
TerminalRunsFinal ==
    [][run.status \in {"completed", "cancelled"} => run'.status = run.status]_runVars

\* A completed run is whole, whatever it was partial or failed for on the way:
\* no search of it is open or holds budget, and the plan was carried out or
\* enough companies were found.
CompletedRunIsWhole ==
    run.status = "completed" =>
        /\ Unresolved = {}
        /\ run.enough \/ \A q \in Queries : searches[q] = "settled"

\* A run that claims to be under way has an intent that will carry it on:
\* crashes, recovery, cancellation and retry never leave one that is queued or
\* running with nothing to execute.
RunHasNextStep ==
    run.status \in {"queued", "running"} => \E i \in IntentKeys : Live(i)

\* A run is carried through: while it is under way some intent goes on with it,
\* and it is called completed only when nothing of it is missing (discovery,
\* fits, recovery, cancellation and retry in any order).
RunIsCarriedThrough == RunHasNextStep /\ CompletedRunIsWhole

----------------------------------------------------------------------------
(* Theorems: what a step keeps, for any plan, workers, claims and attempts. *)

RunStages == {"queued", "discovery", "failed", "paused_budget", "partial", "cancelled", "fit",
              "reconciling_cancellation", "reconciliation_required", "limit_reached",
              "policy_recheck_failed", "fit_review_required", "review"}
RunRecord == [status : RunStates, stage : RunStages, queries : 0 .. LastQuery + 1,
              attempt : 1 .. MaxFits, enough : BOOLEAN]
IntentRecord == [state : {"absent", "ready", "dispatched", "done", "failed"},
                 gen : Nat, attempts : Nat, stepped : BOOLEAN]
RunWorkerRecord ==
    [phase : {"idle", "prepared", "searching", "halting", "asking", "fitting"},
     intent : IntentKeys \cup {<<"none", 0>>}, gen : Nat,
     status : {"none", "failed", "paused_budget", "partial"}]

RunTypes ==
    /\ run \in RunRecord
    /\ searches \in [Queries -> {"none", "submitting", "unknown", "settled"}]
    /\ intents \in [IntentKeys -> IntentRecord]

Discover(q) == <<"discover", q>>
Reconcile(q) == <<"reconcile", q>>
Fit(a) == <<"fit", a>>
Exists(i) == intents[i].state # "absent"
Over(i) == intents[i].state = "done"

PlanIsDone == run.enough \/ run.queries = LastQuery + 1

\* One query is searched after the other, and one search is open at a time.
SearchesInOrder ==
    \A q \in Queries :
        /\ searches[q] # "none" <=> q < run.queries
        /\ q + 1 < run.queries => searches[q] = "settled"
        /\ Exists(Discover(q)) => /\ q <= run.queries
                                  /\ \A p \in Queries : p < q => searches[p] = "settled"
        /\ searches[q] \in {"unknown", "settled"} => Over(Discover(q))

\* A lookup follows a search whose intent is over, while it is open.
LookupsFollow ==
    \A q \in Queries :
        /\ Exists(Reconcile(q)) => Over(Discover(q)) /\ searches[q] # "none"
        /\ Live(Reconcile(q)) => q \in Unresolved

\* The fit comes when the plan was carried out, once per attempt.
FitIsLast ==
    \A a \in 1 .. MaxFits :
        /\ Exists(Fit(a)) => /\ a <= run.attempt /\ Unresolved = {} /\ PlanIsDone
                             /\ \A q \in Queries : ~Live(Discover(q))
        /\ Live(Fit(a)) => a = run.attempt /\ ~Retryable

\* What the status of the run says of its searches and intents.
StatusIsTrue ==
    /\ run.status \in {"completed", "cancelled"} => \A i \in IntentKeys : ~Live(i)
    /\ run.status \in {"failed", "paused_budget"} =>
          \A q \in Queries : searches[q] # "unknown" /\ ~Live(Discover(q))
    /\ \A q \in Queries : searches[q] = "unknown" => run.status \in {"partial", "cancel_requested"}
    /\ run.stage \in {"fit", "fit_review_required"} => PlanIsDone
    /\ RunIsCarriedThrough

CarriedShape == RunTypes /\ SearchesInOrder /\ LookupsFollow /\ FitIsLast /\ StatusIsTrue

\* What a process does is about an intent of the kind that asks for it.
WorkerAgrees(p, known) ==
    /\ p \in RunWorkerRecord
    /\ p.phase \in {"prepared", "searching", "halting"} =>
          p.intent[1] = "discover" /\ p.intent[2] \in Queries /\ p.intent = Discover(p.intent[2])
    /\ p.phase = "asking" =>
          p.intent[1] = "reconcile" /\ p.intent[2] \in Queries /\ p.intent = Reconcile(p.intent[2])
    /\ p.phase = "fitting" => \E a \in 1 .. MaxFits : p.intent = Fit(a)
    /\ p.phase \in {"prepared", "searching"} => known[p.intent[2]] # "none"
    /\ p.phase = "halting" => p.status # "none"
    /\ p.phase = "asking" => known[p.intent[2]] \in {"unknown", "settled"}

WorkersAgree ==
    /\ DOMAIN runWorkers = RunWorkers /\ runWorkers = [w \in RunWorkers |-> runWorkers[w]]
    /\ \A w \in RunWorkers : WorkerAgrees(runWorkers[w], searches)

CarriedInv == CarriedShape /\ WorkersAgree

\* The three kinds of intent are told apart, and so are those of one kind.
LEMMA IntentsDiffer ==
    /\ \A q \in Queries : Discover(q) \in IntentKeys /\ Reconcile(q) \in IntentKeys
    /\ \A a \in 1 .. MaxFits : Fit(a) \in IntentKeys
    /\ \A p, q \in Queries : /\ Discover(p) # Reconcile(q)
                             /\ Discover(p) = Discover(q) => p = q
                             /\ Reconcile(p) = Reconcile(q) => p = q
    /\ \A q \in Queries, a \in 1 .. MaxFits : Discover(q) # Fit(a) /\ Reconcile(q) # Fit(a)
    /\ \A a, b \in 1 .. MaxFits : Fit(a) = Fit(b) => a = b
    /\ \A i \in IntentKeys : \/ \E q \in Queries : i = Discover(q) \/ i = Reconcile(q)
                             \/ \E a \in 1 .. MaxFits : i = Fit(a)
    /\ \A q : Discover(q)[1] = "discover" /\ Reconcile(q)[1] = "reconcile"
              /\ Discover(q)[2] = q /\ Reconcile(q)[2] = q
    /\ \A a : Fit(a)[1] = "fit" /\ Fit(a)[2] = a
<1>1. \A i \in IntentKeys : \/ \E q \in Queries : i = Discover(q) \/ i = Reconcile(q)
                            \/ \E a \in 1 .. MaxFits : i = Fit(a)
  BY DEF IntentKeys, Discover, Reconcile, Fit
<1>2. /\ \A q \in Queries : Discover(q) \in IntentKeys /\ Reconcile(q) \in IntentKeys
      /\ \A a \in 1 .. MaxFits : Fit(a) \in IntentKeys
  BY DEF IntentKeys, Discover, Reconcile, Fit
<1>3. /\ \A q : Discover(q)[1] = "discover" /\ Reconcile(q)[1] = "reconcile"
                /\ Discover(q)[2] = q /\ Reconcile(q)[2] = q
      /\ \A a : Fit(a)[1] = "fit" /\ Fit(a)[2] = a
  BY DEF Discover, Reconcile, Fit
<1> QED BY <1>1, <1>2, <1>3

\* One search is open at a time, and it is the last one the run prepared.
LEMMA OneSearchOpen ==
    ASSUME LastQuery \in Nat, CarriedShape, NEW q \in Unresolved
    PROVE  /\ q \in Queries /\ run.queries = q + 1
           /\ \A p \in Queries : p # q => p \notin Unresolved /\ ~Live(Reconcile(p)) /\ ~Live(Discover(p))
           /\ \A p \in Queries : p > q => ~Exists(Discover(p)) /\ searches[p] = "none"
           /\ \A p \in Queries : p < q => searches[p] = "settled"
           /\ \A a \in 1 .. MaxFits : ~Exists(Fit(a))
<1>1. q \in Queries /\ Queries \subseteq Nat /\ run.queries \in Nat /\ searches[q] \in {"submitting", "unknown"}
  BY DEF Unresolved, Queries, CarriedShape, RunTypes, RunRecord
<1>2. run.queries = q + 1
  BY <1>1 DEF CarriedShape, SearchesInOrder
<1>3. \A p \in Queries : p > q => ~Exists(Discover(p)) /\ searches[p] = "none"
  BY <1>1, <1>2 DEF CarriedShape, SearchesInOrder
<1>4. \A p \in Queries : p < q => searches[p] = "settled" /\ Over(Discover(p))
  BY <1>1, <1>2 DEF CarriedShape, SearchesInOrder
<1>5. \A p \in Queries : p # q => p \notin Unresolved
  BY <1>1, <1>3, <1>4 DEF Unresolved
<1>6. \A p \in Queries : p # q => ~Live(Reconcile(p)) /\ ~Live(Discover(p))
  BY <1>1, <1>3, <1>4, <1>5 DEF CarriedShape, LookupsFollow, Live, Exists, Over
<1>7. \A a \in 1 .. MaxFits : ~Exists(Fit(a))
  BY DEF CarriedShape, FitIsLast
<1> QED BY <1>1, <1>2, <1>3, <1>4, <1>5, <1>6, <1>7

\* While a query is being worked on nothing else of the run is live.
LEMMA DiscoveryIsAlone ==
    ASSUME LastQuery \in Nat, CarriedShape, NEW q \in Queries, Live(Discover(q))
    PROVE  /\ searches[q] \in {"none", "submitting"}
           /\ \A p \in Queries : searches[p] # "unknown"
           /\ \A p \in Queries : ~Live(Reconcile(p)) /\ (p # q => ~Live(Discover(p)))
           /\ ~Exists(Reconcile(q))
           /\ \A a \in 1 .. MaxFits : ~Exists(Fit(a))
           /\ run.status \notin {"completed", "cancelled", "failed", "paused_budget"}
           /\ searches[q] = "submitting" => q \in Unresolved
           /\ searches[q] = "none" => Unresolved = {} /\ run.queries = q
<1>1. Exists(Discover(q)) /\ ~Over(Discover(q)) /\ Queries \subseteq Nat /\ run.queries \in Nat
  BY DEF Live, Exists, Over, Queries, CarriedShape, RunTypes, RunRecord
<1>2. searches[q] \in {"none", "submitting"} /\ q <= run.queries /\ \A p \in Queries : p < q => searches[p] = "settled"
  BY <1>1 DEF CarriedShape, SearchesInOrder, RunTypes
<1>3. ~Exists(Reconcile(q))
  BY <1>1 DEF CarriedShape, LookupsFollow
<1>4. \A a \in 1 .. MaxFits : ~Exists(Fit(a))
  BY DEF CarriedShape, FitIsLast
<1>5. searches[q] = "none" => Unresolved = {} /\ run.queries = q
  <2> SUFFICES ASSUME searches[q] = "none" PROVE Unresolved = {} /\ run.queries = q
    OBVIOUS
  <2>1. run.queries = q
    BY <1>1, <1>2 DEF CarriedShape, SearchesInOrder
  <2>2. \A p \in Queries : p \notin Unresolved
    BY <1>1, <1>2, <2>1 DEF CarriedShape, SearchesInOrder, Unresolved
  <2> QED BY <2>1, <2>2 DEF Unresolved
<1>6. \A p \in Unresolved : p = q /\ searches[q] = "submitting"
  <2>1. ASSUME NEW p \in Unresolved PROVE p = q /\ searches[q] = "submitting"
    <3>1. searches[q] = "submitting"
      BY <1>2, <1>5
    <3> QED BY <3>1, OneSearchOpen DEF Unresolved
  <2> QED BY <2>1
<1>7. \A p \in Queries : searches[p] # "unknown" /\ ~Live(Reconcile(p))
  BY <1>2, <1>3, <1>6 DEF Unresolved, CarriedShape, LookupsFollow, Live, Exists
<1>8. \A p \in Queries : p # q => ~Live(Discover(p))
  <2> SUFFICES ASSUME NEW p \in Queries, p # q PROVE ~Live(Discover(p))
    OBVIOUS
  <2>1. CASE p < q
    BY <2>1, <1>2 DEF CarriedShape, SearchesInOrder, Live, Over
  <2>2. CASE q < p
    BY <2>2, <1>2 DEF CarriedShape, SearchesInOrder, Live, Exists
  <2> QED BY <2>1, <2>2, <1>1
<1>9. run.status \notin {"completed", "cancelled", "failed", "paused_budget"}
  <2>1. Discover(q) \in IntentKeys
    BY IntentsDiffer
  <2> QED BY <2>1 DEF CarriedShape, StatusIsTrue
<1> QED BY <1>2, <1>3, <1>4, <1>5, <1>7, <1>8, <1>9 DEF Unresolved

\* A live fit is the last of the run, and alone.
LEMMA FitIsAlone ==
    ASSUME CarriedShape, NEW a \in 1 .. MaxFits, Live(Fit(a))
    PROVE  /\ a = run.attempt /\ Unresolved = {} /\ PlanIsDone /\ ~Retryable
           /\ \A q \in Queries : ~Live(Discover(q)) /\ ~Live(Reconcile(q))
           /\ \A b \in 1 .. MaxFits : b # a => ~Live(Fit(b))
           /\ run.status \notin {"completed", "cancelled"}
<1>1. Exists(Fit(a))
  BY DEF Live, Exists
<1>2. \A q \in Queries : ~Live(Reconcile(q))
  BY <1>1 DEF CarriedShape, FitIsLast, LookupsFollow
<1>3. run.status \notin {"completed", "cancelled"}
  BY IntentsDiffer DEF CarriedShape, StatusIsTrue
<1> QED BY <1>1, <1>2, <1>3 DEF CarriedShape, FitIsLast

\* A step that moves no intent between live, over and absent.
LEMMA ShapeStays ==
    ASSUME CarriedShape, searches' = searches, intents' \in [IntentKeys -> IntentRecord],
           \A i \in IntentKeys : /\ intents'[i].state \in {"ready", "dispatched"} <=> Live(i)
                                 /\ intents'[i].state # "absent" <=> Exists(i)
                                 /\ intents'[i].state = "done" <=> Over(i),
           \/ run' = run
           \/ run.status \in {"queued", "running"} /\ run' = [run EXCEPT !.status = "running"]
    PROVE  CarriedShape'
<1>1. \A i \in IntentKeys : (Live(i)' <=> Live(i)) /\ (Exists(i)' <=> Exists(i)) /\ (Over(i)' <=> Over(i))
  BY DEF Live, Exists, Over
<1>2. /\ run \in RunRecord /\ run' \in RunRecord
      /\ run'.stage = run.stage /\ run'.queries = run.queries /\ run'.attempt = run.attempt /\ run'.enough = run.enough
      /\ run'.status = run.status \/ (run.status \in {"queued", "running"} /\ run'.status = "running")
  BY DEF CarriedShape, RunTypes, RunRecord, RunStates
<1>3. RunTypes' /\ Unresolved' = Unresolved
  BY <1>2 DEF CarriedShape, RunTypes, Unresolved
<1>4. SearchesInOrder' /\ LookupsFollow'
  BY <1>1, <1>2, <1>3, IntentsDiffer DEF CarriedShape, SearchesInOrder, LookupsFollow
<1>5. (PlanIsDone' <=> PlanIsDone) /\ (Retryable' => Retryable)
  BY <1>2 DEF PlanIsDone, Retryable
<1>6. FitIsLast'
  BY <1>1, <1>2, <1>3, <1>5, IntentsDiffer DEF CarriedShape, FitIsLast
<1>7. RunIsCarriedThrough'
  BY <1>1, <1>2, <1>3 DEF CarriedShape, StatusIsTrue, RunIsCarriedThrough, RunHasNextStep, CompletedRunIsWhole
<1>8. StatusIsTrue'
  BY <1>1, <1>2, <1>3, <1>5, <1>7, IntentsDiffer DEF CarriedShape, StatusIsTrue
<1> QED BY <1>3, <1>4, <1>6, <1>8 DEF CarriedShape

----------------------------------------------------------------------------
(* What the processes do.                                                   *)

\* Searches only advance, so that what a process knows of them stays true.
SearchesAdvance ==
    \A q \in Queries : /\ searches[q] # "none" => searches'[q] # "none"
                       /\ searches[q] \in {"unknown", "settled"} => searches'[q] \in {"unknown", "settled"}

LEMMA WorkersStayAgreed ==
    ASSUME WorkersAgree, SearchesAdvance, NEW w \in RunWorkers, NEW next,
           runWorkers' = [runWorkers EXCEPT ![w] = next], WorkerAgrees(next, searches')
    PROVE  WorkersAgree'
<1>1. \A v \in RunWorkers : runWorkers'[v] = IF v = w THEN next ELSE runWorkers[v]
  BY DEF WorkersAgree
<1>2. ASSUME NEW v \in RunWorkers PROVE WorkerAgrees(runWorkers'[v], searches')
  <2>1. CASE v = w
    BY <1>1, <2>1
  <2>2. CASE v # w
    <3>1. runWorkers'[v] = runWorkers[v] /\ WorkerAgrees(runWorkers[v], searches)
      BY <1>1, <2>2 DEF WorkersAgree
    <3> QED BY <3>1 DEF WorkerAgrees, SearchesAdvance
  <2> QED BY <2>1, <2>2
<1>3. DOMAIN runWorkers' = RunWorkers /\ runWorkers' = [v \in RunWorkers |-> runWorkers'[v]]
  BY DEF WorkersAgree
<1> QED BY <1>2, <1>3 DEF WorkersAgree

\* A process that leaves, and one that starts on an intent.
LEMMA WorkerLeaves ==
    ASSUME WorkersAgree, SearchesAdvance, NEW w \in RunWorkers, runWorkers' = Leave(w)
    PROVE  WorkersAgree'
<1>1. IdleRunWorker \in RunWorkerRecord /\ IdleRunWorker.phase = "idle"
  BY DEF IdleRunWorker, RunWorkerRecord
<1>2. WorkerAgrees(IdleRunWorker, searches')
  BY <1>1 DEF WorkerAgrees
<1> HIDE DEF IdleRunWorker
<1> QED BY <1>2, WorkersStayAgreed DEF Leave

LEMMA WorkerStarts ==
    ASSUME WorkersAgree, SearchesAdvance, RunTypes, NEW w \in RunWorkers, NEW i \in IntentKeys,
           NEW phase \in {"prepared", "searching", "halting", "asking", "fitting"},
           NEW status \in {"none", "failed", "paused_budget", "partial"},
           runWorkers' = At(w, phase, i, status),
           phase \in {"prepared", "searching", "halting"} => \E q \in Queries : i = Discover(q),
           phase = "asking" => \E q \in Queries : i = Reconcile(q),
           phase = "fitting" => \E a \in 1 .. MaxFits : i = Fit(a),
           phase \in {"prepared", "searching"} => searches'[i[2]] # "none",
           phase = "halting" => status # "none",
           phase = "asking" => searches'[i[2]] \in {"unknown", "settled"}
    PROVE  WorkersAgree'
<1> DEFINE next == [phase |-> phase, intent |-> i, gen |-> intents[i].gen, status |-> status]
<1>1. next \in RunWorkerRecord
  BY DEF RunTypes, IntentRecord, RunWorkerRecord
<1>2. next.phase = phase /\ next.intent = i /\ next.status = status /\ runWorkers' = [runWorkers EXCEPT ![w] = next]
  BY DEF At
<1> HIDE DEF next
<1>3. WorkerAgrees(next, searches')
  BY <1>1, <1>2, IntentsDiffer DEF WorkerAgrees
<1> QED BY <1>2, <1>3, WorkersStayAgreed

\* Where a process is in its work, from its phase.
LEMMA WorkerKnows ==
    ASSUME WorkersAgree, NEW w \in RunWorkers
    PROVE  /\ runWorkers[w] \in RunWorkerRecord
           /\ runWorkers[w].phase \in {"prepared", "searching", "halting"} =>
                 runWorkers[w].intent[2] \in Queries /\ runWorkers[w].intent = Discover(runWorkers[w].intent[2])
           /\ runWorkers[w].phase = "asking" =>
                 runWorkers[w].intent[2] \in Queries /\ runWorkers[w].intent = Reconcile(runWorkers[w].intent[2])
           /\ runWorkers[w].phase = "fitting" => \E a \in 1 .. MaxFits : runWorkers[w].intent = Fit(a)
           /\ runWorkers[w].phase \in {"prepared", "searching"} => searches[runWorkers[w].intent[2]] # "none"
           /\ runWorkers[w].phase = "halting" => runWorkers[w].status \in {"failed", "paused_budget", "partial"}
           /\ runWorkers[w].phase = "asking" => searches[runWorkers[w].intent[2]] \in {"unknown", "settled"}
           /\ runWorkers[w].phase # "idle" => runWorkers[w].intent \in IntentKeys
<1>1. WorkerAgrees(runWorkers[w], searches)
  BY DEF WorkersAgree
<1>2. runWorkers[w] \in RunWorkerRecord
  BY <1>1 DEF WorkerAgrees
<1>3. runWorkers[w].phase \in {"idle", "prepared", "searching", "halting", "asking", "fitting"}
      /\ runWorkers[w].status \in {"none", "failed", "paused_budget", "partial"}
  BY <1>2 DEF RunWorkerRecord
<1> QED BY <1>1, <1>2, <1>3, IntentsDiffer DEF WorkerAgrees

\* An intent a process holds, while it is fenced to it.
LEMMA FencedIsLive ==
    ASSUME NEW w \in RunWorkers, Fenced(w)
    PROVE  Live(runWorkers[w].intent) /\ Exists(runWorkers[w].intent)
BY DEF Fenced, Live, Exists

----------------------------------------------------------------------------
(* What each step keeps of the run.                                        *)

\* One intent becomes ready or done, and no other moves.
Turned(i, state) ==
    /\ intents' \in [IntentKeys -> IntentRecord]
    /\ \A j \in IntentKeys : /\ Live(j)' <=> IF j = i THEN state \in {"ready", "dispatched"} ELSE Live(j)
                             /\ Exists(j)' <=> IF j = i THEN state # "absent" ELSE Exists(j)
                             /\ Over(j)' <=> IF j = i THEN state = "done" ELSE Over(j)

LEMMA IntentTurns ==
    ASSUME RunTypes, NEW i \in IntentKeys, NEW state \in {"ready", "dispatched", "done", "failed"},
           \/ intents' = [intents EXCEPT ![i].state = state]
           \/ intents' = [intents EXCEPT ![i] = ReadyIntent] /\ state = "ready"
    PROVE  Turned(i, state)
<1>1. ReadyIntent \in IntentRecord /\ ReadyIntent.state = "ready"
  BY DEF ReadyIntent, NoRunIntent, IntentRecord
<1>2. intents \in [IntentKeys -> IntentRecord]
  BY DEF RunTypes
<1>3. /\ intents' \in [IntentKeys -> IntentRecord] /\ intents'[i].state = state
      /\ \A j \in IntentKeys : j # i => intents'[j] = intents[j]
  <2>1. CASE intents' = [intents EXCEPT ![i].state = state]
    <3>1. [intents[i] EXCEPT !.state = state] \in IntentRecord /\ [intents[i] EXCEPT !.state = state].state = state
      BY <1>2 DEF IntentRecord
    <3> QED BY <1>2, <2>1, <3>1
  <2>2. CASE intents' = [intents EXCEPT ![i] = ReadyIntent] /\ state = "ready"
    BY <1>1, <1>2, <2>2
  <2> QED BY <2>1, <2>2
<1> QED BY <1>3 DEF Turned, Live, Exists, Over

\* The run is changed in its status and stage only.
Restated(status, stage) ==
    /\ run' \in RunRecord /\ run'.status = status /\ run'.stage = stage
    /\ run'.queries = run.queries /\ run'.attempt = run.attempt /\ run'.enough = run.enough

LEMMA RunRestated ==
    ASSUME RunTypes, NEW status \in RunStates, NEW stage \in RunStages,
           run' = [run EXCEPT !.status = status, !.stage = stage]
    PROVE  Restated(status, stage)
BY DEF RunTypes, RunRecord, Restated

LEMMA PrepareKeeps ==
    ASSUME LastQuery \in Nat, CarriedShape, NEW q \in Queries, NEW w \in RunWorkers, PrepareSearch(w, q)
    PROVE  CarriedShape'
<1>1. /\ run \in RunRecord /\ searches \in [Queries -> {"none", "submitting", "unknown", "settled"}]
      /\ intents \in [IntentKeys -> IntentRecord] /\ Queries \subseteq Nat /\ Discover(q) \in IntentKeys
  BY IntentsDiffer DEF CarriedShape, RunTypes, Queries
<1>2. Live(Discover(q)) /\ run.status \in {"queued", "running"} /\ run.queries = q /\ searches[q] = "none"
  BY DEF PrepareSearch, Delivered, Verdict, Live, Discover
<1>3. /\ searches' = [searches EXCEPT ![q] = "submitting"]
      /\ run' = [run EXCEPT !.queries = q + 1, !.stage = "discovery", !.status = "running"]
      /\ intents' = [intents EXCEPT ![Discover(q)].stepped = TRUE]
  BY DEF PrepareSearch, Stepped, Discover
<1>4. /\ run' \in RunRecord /\ run'.queries = q + 1 /\ run'.stage = "discovery" /\ run'.status = "running"
      /\ run'.attempt = run.attempt /\ run'.enough = run.enough
  <2>1. q + 1 \in 0 .. LastQuery + 1 /\ "discovery" \in RunStages /\ "running" \in RunStates
    BY DEF Queries, RunStages, RunStates
  <2> QED BY <1>1, <1>3, <2>1 DEF RunRecord
<1>5. /\ intents' \in [IntentKeys -> IntentRecord]
      /\ \A i \in IntentKeys : intents'[i].state = intents[i].state
  <2>1. [intents[Discover(q)] EXCEPT !.stepped = TRUE] \in IntentRecord
        /\ [intents[Discover(q)] EXCEPT !.stepped = TRUE].state = intents[Discover(q)].state
    BY <1>1 DEF IntentRecord
  <2> QED BY <1>1, <1>3, <2>1
<1>6. \A i \in IntentKeys : (Live(i)' <=> Live(i)) /\ (Exists(i)' <=> Exists(i)) /\ (Over(i)' <=> Over(i))
  BY <1>5 DEF Live, Exists, Over
<1>7. searches'[q] = "submitting" /\ \A p \in Queries : p # q => searches'[p] = searches[p]
  BY <1>1, <1>3
<1>8. RunTypes'
  BY <1>1, <1>3, <1>4, <1>5 DEF RunTypes
<1>9. SearchesInOrder'
  <2>1. Exists(Discover(q))
    BY <1>2 DEF Live, Exists
  <2> QED BY <1>1, <1>2, <1>4, <1>6, <1>7, <2>1, IntentsDiffer DEF CarriedShape, SearchesInOrder
<1>10. LookupsFollow'
  BY <1>6, <1>7, <1>2, IntentsDiffer DEF CarriedShape, LookupsFollow, Unresolved
<1>11. FitIsLast'
  BY <1>2, <1>6, DiscoveryIsAlone, IntentsDiffer DEF CarriedShape, FitIsLast, Live, Exists
<1>12. RunIsCarriedThrough'
  BY <1>1, <1>2, <1>4, <1>6 DEF RunIsCarriedThrough, RunHasNextStep, CompletedRunIsWhole
<1>13. StatusIsTrue'
  BY <1>2, <1>4, <1>7, <1>12, DiscoveryIsAlone DEF StatusIsTrue
<1> QED BY <1>8, <1>9, <1>10, <1>11, <1>13 DEF CarriedShape

LEMMA HaltKeeps ==
    ASSUME LastQuery \in Nat, CarriedShape, WorkersAgree, NEW w \in RunWorkers, HaltBeforeDispatch(w)
    PROVE  CarriedShape'
<1> DEFINE q == runWorkers[w].intent[2]
           status == runWorkers[w].status
<1>1. /\ q \in Queries /\ runWorkers[w].intent = Discover(q) /\ Live(Discover(q)) /\ Exists(Discover(q))
      /\ status \in {"failed", "paused_budget", "partial"}
  BY WorkerKnows, FencedIsLive DEF HaltBeforeDispatch
<1>2. /\ searches' = searches /\ run' = [run EXCEPT !.status = status, !.stage = status]
      /\ intents' = [intents EXCEPT ![Discover(q)].state = "done"]
  BY <1>1 DEF HaltBeforeDispatch
<1>3. RunTypes /\ Discover(q) \in IntentKeys /\ status \in RunStates /\ status \in RunStages
  BY <1>1, IntentsDiffer DEF CarriedShape, RunStates, RunStages
<1> HIDE DEF q, status
<1>4. Turned(Discover(q), "done") /\ Restated(status, status)
  BY <1>2, <1>3, IntentTurns, RunRestated
<1>5. \A p \in Queries : /\ searches[p] # "unknown" /\ ~Live(Reconcile(p)) /\ (p # q => ~Live(Discover(p)))
                         /\ ~Live(Discover(p))'
  BY <1>1, <1>4, DiscoveryIsAlone, IntentsDiffer DEF Turned
<1>6. RunTypes'
  BY <1>2, <1>3, <1>4 DEF RunTypes, Turned, Restated
<1>7. SearchesInOrder'
  BY <1>1, <1>2, <1>4, IntentsDiffer DEF CarriedShape, SearchesInOrder, Turned, Restated
<1>8. LookupsFollow'
  BY <1>2, <1>4, IntentsDiffer DEF CarriedShape, LookupsFollow, Unresolved, Turned
<1>9. \A a \in 1 .. MaxFits : ~Exists(Fit(a)) /\ ~Exists(Fit(a))' /\ ~Live(Fit(a))'
  BY <1>1, <1>4, DiscoveryIsAlone, IntentsDiffer DEF Turned, Live, Exists
<1>10. FitIsLast'
  BY <1>9 DEF FitIsLast
<1>11. RunIsCarriedThrough'
  BY <1>1, <1>4 DEF Restated, RunIsCarriedThrough, RunHasNextStep, CompletedRunIsWhole
<1>12. StatusIsTrue'
  BY <1>1, <1>2, <1>4, <1>5, <1>11 DEF Restated, StatusIsTrue
<1> QED BY <1>6, <1>7, <1>8, <1>10, <1>12 DEF CarriedShape

\* The search a process calls, or asks about, is open until it says so.
LEMMA OpenSearchOf ==
    ASSUME LastQuery \in Nat, CarriedShape, WorkersAgree, NEW w \in RunWorkers,
           runWorkers[w].phase \in {"searching", "asking"}, Fenced(w)
    PROVE  /\ runWorkers[w].intent[2] \in Unresolved /\ runWorkers[w].intent \in IntentKeys
           /\ \/ /\ runWorkers[w].intent = Discover(runWorkers[w].intent[2])
                 /\ searches[runWorkers[w].intent[2]] = "submitting"
                 /\ ~Exists(Reconcile(runWorkers[w].intent[2]))
              \/ /\ runWorkers[w].intent = Reconcile(runWorkers[w].intent[2])
                 /\ searches[runWorkers[w].intent[2]] = "unknown"
                 /\ Over(Discover(runWorkers[w].intent[2]))
           /\ run.status \notin {"completed", "cancelled", "failed", "paused_budget"}
           /\ Live(runWorkers[w].intent) /\ Exists(runWorkers[w].intent)
<1> DEFINE q == runWorkers[w].intent[2]
<1>1. q \in Queries /\ runWorkers[w].intent \in IntentKeys
      /\ Live(runWorkers[w].intent) /\ Exists(runWorkers[w].intent)
  BY WorkerKnows, FencedIsLive
<1>2. CASE runWorkers[w].phase = "searching"
  <2>1. runWorkers[w].intent = Discover(q) /\ searches[q] # "none"
    BY <1>2, WorkerKnows
  <2> HIDE DEF q
  <2> QED BY <1>1, <2>1, DiscoveryIsAlone DEF q
<1>3. CASE runWorkers[w].phase = "asking"
  <2>1. runWorkers[w].intent = Reconcile(q) /\ searches[q] \in {"unknown", "settled"}
    BY <1>3, WorkerKnows
  <2> HIDE DEF q
  <2>2. searches[q] = "unknown" /\ q \in Unresolved /\ Over(Discover(q))
    BY <1>1, <2>1 DEF CarriedShape, LookupsFollow, Unresolved
  <2>3. run.status \in {"partial", "cancel_requested"}
    BY <1>1, <2>2 DEF CarriedShape, StatusIsTrue
  <2> QED BY <1>1, <2>1, <2>2, <2>3 DEF q
<1> QED BY <1>2, <1>3

LEMMA UnknownKeeps ==
    ASSUME LastQuery \in Nat, CarriedShape, WorkersAgree, NEW w \in RunWorkers, MarkUnknown(w)
    PROVE  CarriedShape'
<1>0. PICK q \in Queries, i \in IntentKeys : q = runWorkers[w].intent[2] /\ i = runWorkers[w].intent
  BY OpenSearchOf DEF MarkUnknown, Unresolved
<1> DEFINE status == IF run.status = "cancel_requested" THEN "cancel_requested" ELSE "partial"
           stage == IF run.status = "cancel_requested" THEN "reconciling_cancellation"
                    ELSE "reconciliation_required"
<1>1. /\ q \in Unresolved /\ i \in IntentKeys /\ q \in Queries /\ Live(i) /\ Exists(i)
      /\ \/ i = Discover(q) /\ searches[q] = "submitting" /\ ~Exists(Reconcile(q))
         \/ i = Reconcile(q) /\ searches[q] = "unknown" /\ Over(Discover(q))
  BY <1>0, OpenSearchOf DEF MarkUnknown
<1>2. /\ searches' = [searches EXCEPT ![q] = "unknown"]
      /\ run' = [run EXCEPT !.status = status, !.stage = stage]
      /\ intents' = [k \in IntentKeys |->
                       IF k = i THEN [intents[k] EXCEPT !.state = "done"]
                       ELSE IF k = Reconcile(q) /\ intents[k].state = "absent" THEN ReadyIntent
                       ELSE intents[k]]
  BY <1>0 DEF MarkUnknown, Reconcile
<1>3. /\ status \in {"partial", "cancel_requested"} /\ status \in RunStates /\ stage \in RunStages
      /\ stage \notin {"fit", "fit_review_required"}
  BY DEF RunStates, RunStages
<1>4. /\ searches \in [Queries -> {"none", "submitting", "unknown", "settled"}]
      /\ intents \in [IntentKeys -> IntentRecord] /\ RunTypes
      /\ Reconcile(q) \in IntentKeys /\ Discover(q) \in IntentKeys
  BY <1>1, IntentsDiffer DEF CarriedShape, RunTypes
<1> HIDE DEF status, stage
<1>5. Restated(status, stage)
  BY <1>2, <1>3, <1>4, RunRestated
<1>6. ReadyIntent \in IntentRecord /\ ReadyIntent.state = "ready"
  BY DEF ReadyIntent, NoRunIntent, IntentRecord
<1>7. [intents[i] EXCEPT !.state = "done"] \in IntentRecord /\ [intents[i] EXCEPT !.state = "done"].state = "done"
  BY <1>1, <1>4 DEF IntentRecord
<1>8. /\ intents' \in [IntentKeys -> IntentRecord]
      /\ intents'[i].state = "done"
      /\ i # Reconcile(q) => intents'[Reconcile(q)].state = "ready"
      /\ \A k \in IntentKeys : k # i /\ k # Reconcile(q) => intents'[k] = intents[k]
  <2>1. i # Reconcile(q) => intents[Reconcile(q)].state = "absent"
    BY <1>1 DEF Exists
  <2> QED BY <1>1, <1>2, <1>4, <1>6, <1>7, <2>1
<1>9. searches'[q] = "unknown" /\ \A p \in Queries : p # q => searches'[p] = searches[p]
  BY <1>1, <1>2, <1>4
<1>10. /\ \A p \in Queries : p # q => /\ (Live(Discover(p))' <=> Live(Discover(p)))
                                      /\ (Exists(Discover(p))' <=> Exists(Discover(p)))
                                      /\ (Over(Discover(p))' <=> Over(Discover(p)))
                                      /\ (Live(Reconcile(p))' <=> Live(Reconcile(p)))
                                      /\ (Exists(Reconcile(p))' <=> Exists(Reconcile(p)))
       /\ \A a \in 1 .. MaxFits : (Live(Fit(a))' <=> Live(Fit(a))) /\ (Exists(Fit(a))' <=> Exists(Fit(a)))
  BY <1>1, <1>8, IntentsDiffer DEF Live, Exists, Over
<1>11. Over(Discover(q))' /\ Exists(Discover(q))' /\ Exists(Discover(q)) /\ ~Live(Discover(q))'
  <2>1. CASE i = Discover(q)
    BY <1>1, <1>8, <2>1 DEF Over, Exists, Live
  <2>2. CASE i = Reconcile(q) /\ Over(Discover(q))
    <3>1. intents'[Discover(q)] = intents[Discover(q)]
      BY <1>1, <1>4, <1>8, <2>2, IntentsDiffer
    <3> QED BY <2>2, <3>1 DEF Over, Exists, Live
  <2> QED BY <1>1, <2>1, <2>2
<1>12. RunTypes'
  BY <1>2, <1>4, <1>5, <1>8 DEF RunTypes, Restated
<1>13. searches[q] # "none" /\ searches[q] # "settled" /\ \A a \in 1 .. MaxFits : ~Exists(Fit(a))
  BY <1>1, OneSearchOpen DEF Unresolved
<1>14. SearchesInOrder'
  BY <1>1, <1>5, <1>9, <1>10, <1>11, <1>13 DEF CarriedShape, SearchesInOrder, Restated
<1>15. LookupsFollow'
  BY <1>1, <1>9, <1>10, <1>11 DEF CarriedShape, LookupsFollow, Unresolved
<1>16. FitIsLast'
  BY <1>10, <1>13 DEF FitIsLast, Live, Exists
<1>17. RunIsCarriedThrough'
  BY <1>3, <1>5 DEF Restated, RunIsCarriedThrough, RunHasNextStep, CompletedRunIsWhole
<1>18. StatusIsTrue'
  BY <1>3, <1>5, <1>17 DEF Restated, StatusIsTrue
<1> QED BY <1>12, <1>14, <1>15, <1>16, <1>18 DEF CarriedShape

\* What the two finalizations share: the search is settled and its intent over,
\* and no other intent of the run is live.
Finalized(w) ==
    /\ searches' \in [Queries -> {"none", "submitting", "unknown", "settled"}]
    /\ Unresolved' = {} /\ searches'[runWorkers[w].intent[2]] = "settled"
    /\ run.queries = runWorkers[w].intent[2] + 1
    /\ \A p \in Queries : searches'[p] = IF p < run.queries THEN "settled" ELSE "none"
    /\ \A p \in Queries : /\ ~Live(Discover(p)) \/ Discover(p) = runWorkers[w].intent
                          /\ ~Live(Reconcile(p)) \/ Reconcile(p) = runWorkers[w].intent
                          /\ p >= run.queries => ~Exists(Discover(p)) /\ ~Exists(Reconcile(p))
                          /\ p < run.queries /\ Discover(p) # runWorkers[w].intent => Over(Discover(p))
    /\ \A a \in 1 .. MaxFits : ~Exists(Fit(a)) /\ ~Live(Fit(a))
    /\ run.status \in {"queued", "running", "partial", "cancel_requested"}
    /\ Exists(runWorkers[w].intent)

LEMMA FinalizationSettles ==
    ASSUME LastQuery \in Nat, CarriedShape, WorkersAgree, NEW w \in RunWorkers, Finalizable(w), Settle(w)
    PROVE  Finalized(w)
<1> DEFINE q == runWorkers[w].intent[2]
           i == runWorkers[w].intent
<1>1. /\ q \in Unresolved /\ i \in IntentKeys /\ q \in Queries
      /\ \/ i = Discover(q) /\ ~Exists(Reconcile(q))
         \/ i = Reconcile(q) /\ Over(Discover(q))
      /\ run.status \notin {"completed", "cancelled", "failed", "paused_budget"} /\ Exists(i)
  BY OpenSearchOf DEF Finalizable, Unresolved
<1>2. searches' = [searches EXCEPT ![q] = "settled"]
  BY DEF Settle
<1>3. searches \in [Queries -> {"none", "submitting", "unknown", "settled"}] /\ run.status \in RunStates
      /\ Queries \subseteq Nat
  BY DEF CarriedShape, RunTypes, RunRecord, Queries
<1> HIDE DEF q, i
<1>4. /\ run.queries = q + 1
      /\ \A p \in Queries : p # q => p \notin Unresolved /\ ~Live(Reconcile(p)) /\ ~Live(Discover(p))
      /\ \A p \in Queries : p > q => ~Exists(Discover(p)) /\ searches[p] = "none"
      /\ \A p \in Queries : p < q => searches[p] = "settled"
      /\ \A a \in 1 .. MaxFits : ~Exists(Fit(a))
  BY <1>1, OneSearchOpen
<1>5. searches' \in [Queries -> {"none", "submitting", "unknown", "settled"}]
      /\ searches'[q] = "settled" /\ \A p \in Queries : p # q => searches'[p] = searches[p]
  BY <1>1, <1>2, <1>3
<1>6. \A p \in Queries : searches'[p] = IF p < run.queries THEN "settled" ELSE "none"
  BY <1>1, <1>3, <1>4, <1>5
<1>7. Unresolved' = {}
  BY <1>6 DEF Unresolved
<1>8. \A p \in Queries : p >= run.queries => ~Exists(Discover(p)) /\ ~Exists(Reconcile(p))
  BY <1>1, <1>3, <1>4 DEF CarriedShape, LookupsFollow
<1>9. \A p \in Queries : p < run.queries /\ Discover(p) # i => Over(Discover(p))
  BY <1>1, <1>3, <1>4 DEF CarriedShape, SearchesInOrder
<1>10. ~Live(Discover(q)) \/ Discover(q) = i
  BY <1>1 DEF Over, Live
<1>11. ~Live(Reconcile(q)) \/ Reconcile(q) = i
  BY <1>1 DEF Exists, Live
<1>12. \A a \in 1 .. MaxFits : ~Live(Fit(a))
  BY <1>4 DEF Exists, Live
<1>13. run.status \in {"queued", "running", "partial", "cancel_requested"}
  BY <1>1, <1>3 DEF RunStates
<1> QED BY <1>1, <1>4, <1>5, <1>6, <1>7, <1>8, <1>9, <1>10, <1>11, <1>12, <1>13 DEF Finalized, q, i

\* The intent of a finalization is over: nothing of the run is live any more.
LEMMA NothingIsLeft ==
    ASSUME LastQuery \in Nat, CarriedShape, WorkersAgree, NEW w \in RunWorkers, Finalized(w),
           NEW i \in IntentKeys, i = runWorkers[w].intent, Turned(i, "done")
    PROVE  /\ \A j \in IntentKeys : ~Live(j)'
           /\ \A p \in Queries : (Exists(Discover(p))' => p < run.queries /\ Over(Discover(p))')
                                 /\ (p < run.queries => Over(Discover(p))')
                                 /\ (Exists(Reconcile(p))' => p < run.queries)
           /\ \A a \in 1 .. MaxFits : ~Exists(Fit(a))'
<1>1. Queries \subseteq Nat /\ run.queries \in Nat
  BY DEF CarriedShape, RunTypes, RunRecord, Queries
<1>2. \A p \in Queries : ~Live(Discover(p))' /\ ~Live(Reconcile(p))'
  BY IntentsDiffer DEF Finalized, Turned
<1>3. \A a \in 1 .. MaxFits : ~Live(Fit(a))'
  BY IntentsDiffer DEF Finalized, Turned
<1>4. \A j \in IntentKeys : ~Live(j)'
  BY <1>2, <1>3, IntentsDiffer
<1>5. \A p \in Queries : p < run.queries => Over(Discover(p))'
  BY <1>1, IntentsDiffer DEF Finalized, Turned
<1>6. \A p \in Queries : (Exists(Discover(p))' \/ Exists(Reconcile(p))') => p < run.queries
  BY <1>1, IntentsDiffer DEF Finalized, Turned
<1>7. \A a \in 1 .. MaxFits : ~Exists(Fit(a))'
  BY IntentsDiffer DEF Finalized, Turned
<1> QED BY <1>4, <1>5, <1>6, <1>7

LEMMA WithoutRowsKeeps ==
    ASSUME LastQuery \in Nat, CarriedShape, WorkersAgree, NEW w \in RunWorkers,
           NEW stage \in {"limit_reached", "policy_recheck_failed"}, FinalizeWithoutRows(w, stage)
    PROVE  CarriedShape'
<1>1. Finalized(w) /\ RunTypes
  BY FinalizationSettles DEF FinalizeWithoutRows, CarriedShape
<1>2. PICK i \in IntentKeys : i = runWorkers[w].intent
  BY OpenSearchOf DEF FinalizeWithoutRows, Finalizable
<1>3. Turned(i, "done") /\ Restated("partial", stage)
  BY <1>1, <1>2, IntentTurns, RunRestated DEF FinalizeWithoutRows, RunStates, RunStages
<1>4. /\ \A j \in IntentKeys : ~Live(j)'
      /\ \A p \in Queries : (Exists(Discover(p))' => p < run.queries /\ Over(Discover(p))')
                            /\ (p < run.queries => Over(Discover(p))')
                            /\ (Exists(Reconcile(p))' => p < run.queries)
      /\ \A a \in 1 .. MaxFits : ~Exists(Fit(a))'
  BY <1>1, <1>2, <1>3, NothingIsLeft
<1>5. RunTypes'
  BY <1>1, <1>3 DEF RunTypes, Finalized, Turned, Restated
<1>6. Queries \subseteq Nat /\ run.queries \in Nat
  BY <1>1 DEF RunTypes, RunRecord, Queries
<1>7. SearchesInOrder'
  BY <1>1, <1>3, <1>4, <1>6 DEF SearchesInOrder, Finalized, Restated
<1>8. LookupsFollow'
  BY <1>1, <1>4, IntentsDiffer DEF LookupsFollow, Finalized
<1>9. FitIsLast'
  BY <1>4, IntentsDiffer DEF FitIsLast
<1>10. RunIsCarriedThrough'
  BY <1>3 DEF Restated, RunIsCarriedThrough, RunHasNextStep, CompletedRunIsWhole
<1>11. StatusIsTrue'
  BY <1>1, <1>3, <1>10 DEF Restated, StatusIsTrue, Finalized
<1> QED BY <1>5, <1>7, <1>8, <1>9, <1>11 DEF CarriedShape

LEMMA BatchKeeps ==
    ASSUME LastQuery \in Nat, MaxFits \in Nat, CarriedShape, WorkersAgree, NEW w \in RunWorkers,
           NEW found \in BOOLEAN, FinalizeBatch(w, found)
    PROVE  CarriedShape'
<1>1. PICK i \in IntentKeys : i = runWorkers[w].intent
  BY OpenSearchOf DEF FinalizeBatch, Finalizable
<1>2. Finalized(w) /\ RunTypes /\ run \in RunRecord
  BY FinalizationSettles DEF FinalizeBatch, CarriedShape, RunTypes
<1>3. Queries \subseteq Nat /\ run.queries \in Nat /\ run.attempt \in 1 .. MaxFits
      /\ run.queries \in 0 .. LastQuery + 1
  BY <1>2 DEF RunRecord, Queries
<1> DEFINE enough == run.enough \/ found
           closed == [intents EXCEPT ![i].state = "done"]
<1>4. enough \in BOOLEAN
  BY <1>2 DEF RunRecord
<1>5. CASE run.status = "cancel_requested"
  <2>1. intents' = closed /\ run' = [run EXCEPT !.status = "cancelled", !.stage = "cancelled", !.enough = enough]
    BY <1>1, <1>5 DEF FinalizeBatch
  <2>2. Turned(i, "done")
    BY <2>1, <1>2, IntentTurns
  <2>3. /\ \A j \in IntentKeys : ~Live(j)'
        /\ \A p \in Queries : (Exists(Discover(p))' => p < run.queries /\ Over(Discover(p))')
                              /\ (p < run.queries => Over(Discover(p))')
                              /\ (Exists(Reconcile(p))' => p < run.queries)
        /\ \A a \in 1 .. MaxFits : ~Exists(Fit(a))'
    BY <1>1, <1>2, <2>2, NothingIsLeft
  <2>4. /\ run' \in RunRecord /\ run'.status = "cancelled" /\ run'.stage = "cancelled"
        /\ run'.queries = run.queries /\ run'.attempt = run.attempt
    BY <1>2, <1>4, <2>1 DEF RunRecord, RunStates, RunStages
  <2>5. RunTypes'
    BY <1>2, <2>2, <2>4 DEF RunTypes, Finalized, Turned
  <2>6. SearchesInOrder'
    BY <1>2, <1>3, <2>3, <2>4 DEF SearchesInOrder, Finalized
  <2>7. LookupsFollow'
    BY <1>2, <2>3, IntentsDiffer DEF LookupsFollow, Finalized
  <2>8. FitIsLast'
    BY <2>3, IntentsDiffer DEF FitIsLast
  <2>9. RunIsCarriedThrough'
    BY <2>4 DEF RunIsCarriedThrough, RunHasNextStep, CompletedRunIsWhole
  <2>10. StatusIsTrue'
    BY <1>2, <2>3, <2>4, <2>9 DEF StatusIsTrue, Finalized
  <2> QED BY <2>5, <2>6, <2>7, <2>8, <2>10 DEF CarriedShape
<1>6. CASE run.status # "cancel_requested"
  <2> DEFINE status == IF run.status = "partial" THEN "running" ELSE run.status
             more == run.queries <= LastQuery /\ ~enough
  <2>1. PICK next \in IntentKeys : next = NextWork(enough)
    <3>1. more => NextWork(enough) = Discover(run.queries) /\ run.queries \in Queries
      BY <1>3 DEF NextWork, Discover, Queries
    <3>2. ~more => NextWork(enough) = Fit(run.attempt)
      BY DEF NextWork, Fit
    <3> QED BY <1>3, <3>1, <3>2, IntentsDiffer
  <2>2. /\ more => run.queries \in Queries /\ next = Discover(run.queries)
        /\ ~more => next = Fit(run.attempt)
    BY <1>3, <2>1 DEF NextWork, Discover, Fit, Queries
  <2>3. /\ intents' = [closed EXCEPT ![next] = ReadyIntent]
        /\ run' = [run EXCEPT !.status = status, !.enough = enough,
                              !.stage = IF next[1] = "fit" THEN "fit" ELSE run.stage]
    BY <1>1, <1>6, <2>1 DEF FinalizeBatch
  <2>4. /\ run' \in RunRecord /\ run'.status = status /\ run'.enough = enough
        /\ run'.stage = IF next[1] = "fit" THEN "fit" ELSE run.stage
        /\ run'.queries = run.queries /\ run'.attempt = run.attempt
    BY <1>2, <1>4, <2>3 DEF RunRecord, RunStates, RunStages
  <2>5. status \in {"queued", "running"}
    BY <1>2, <1>6 DEF Finalized
  <2>6. ~Exists(next) /\ next # i /\ ~Live(next) /\ ~Over(next)
    <3>1. ~Exists(next)
      BY <1>2, <1>3, <2>2 DEF Finalized
    <3> QED BY <1>1, <1>2, <3>1 DEF Finalized, Live, Over, Exists
  <2>7. /\ intents' \in [IntentKeys -> IntentRecord]
        /\ intents'[i].state = "done" /\ intents'[next].state = "ready"
        /\ \A j \in IntentKeys : j # i /\ j # next => intents'[j] = intents[j]
    <3>1. ReadyIntent \in IntentRecord /\ ReadyIntent.state = "ready"
      BY DEF ReadyIntent, NoRunIntent, IntentRecord
    <3>2. intents \in [IntentKeys -> IntentRecord] /\ [intents[i] EXCEPT !.state = "done"] \in IntentRecord
          /\ [intents[i] EXCEPT !.state = "done"].state = "done"
      BY <1>2 DEF RunTypes, IntentRecord
    <3> QED BY <2>3, <2>6, <3>1, <3>2
  <2>8. \A j \in IntentKeys : /\ Live(j)' <=> (j = next \/ (Live(j) /\ j # i))
                              /\ Exists(j)' <=> (j = next \/ Exists(j))
                              /\ Over(j)' <=> (j = i \/ (Over(j) /\ j # next))
    BY <1>1, <1>2, <2>6, <2>7 DEF Live, Exists, Over, Finalized
  <2> HIDE DEF more, status, enough
  <2>9. \A p \in Queries : /\ Live(Discover(p))' => Discover(p) = next
                           /\ ~Live(Reconcile(p))'
                           /\ p < run.queries => Over(Discover(p))'
                           /\ Exists(Reconcile(p))' => p < run.queries
    <3>1. \A p \in Queries : next # Reconcile(p) /\ (p < run.queries => next # Discover(p))
      BY <1>3, <2>2, IntentsDiffer
    <3> QED BY <1>1, <1>2, <1>3, <2>8, <3>1, IntentsDiffer DEF Finalized
  <2>10. \A a \in 1 .. MaxFits : (Exists(Fit(a))' \/ Live(Fit(a))') => Fit(a) = next
    BY <1>2, <2>8, IntentsDiffer DEF Finalized
  <2>11. next[1] = "fit" <=> ~more
    BY <1>3, <2>2, IntentsDiffer
  <2>12. (~more => PlanIsDone') /\ (PlanIsDone => PlanIsDone')
    <3>1. ~(run.queries <= LastQuery) => run'.queries = LastQuery + 1
      BY <1>3, <2>4
    <3>2. (enough => run'.enough) /\ (run.enough => run'.enough)
      BY <2>4 DEF enough
    <3>3. run.queries = LastQuery + 1 => run'.queries = LastQuery + 1
      BY <2>4
    <3> QED BY <3>1, <3>2, <3>3, Zenon DEF PlanIsDone, more
  <2>13. RunTypes'
    BY <1>2, <2>4, <2>7 DEF RunTypes, Finalized
  <2>14. SearchesInOrder'
    <3>1. \A p \in Queries : Exists(Discover(p))' => p <= run.queries
      <4>1. \A p \in Queries : Exists(Discover(p)) => p < run.queries
        BY <1>2, <1>3 DEF Finalized
      <4>2. \A p \in Queries : Discover(p) = next => p = run.queries
        BY <1>3, <2>2, IntentsDiffer
      <4> QED BY <1>3, <2>8, <4>1, <4>2, IntentsDiffer
    <3> QED BY <1>2, <1>3, <2>4, <2>9, <3>1 DEF SearchesInOrder, Finalized
  <2>15. LookupsFollow'
    BY <1>2, <2>9 DEF LookupsFollow, Finalized
  <2>16. FitIsLast'
    <3>1. \A a \in 1 .. MaxFits : Fit(a) = next => a = run.attempt /\ ~more
      BY <1>3, <2>2, IntentsDiffer
    <3>2. \A a \in 1 .. MaxFits, p \in Queries : Fit(a) = next => ~Live(Discover(p))'
      BY <2>9, IntentsDiffer
    <3>3. ~Retryable'
      BY <2>4, <2>5 DEF Retryable
    <3>4. run.attempt <= run'.attempt /\ run'.attempt = run.attempt
      BY <1>3, <2>4
    <3> QED BY <1>2, <2>10, <2>12, <3>1, <3>2, <3>3, <3>4 DEF FitIsLast, Finalized
  <2>17. RunIsCarriedThrough'
    <3>1. Live(next)'
      BY <2>8
    <3> QED BY <2>4, <2>5, <3>1 DEF RunIsCarriedThrough, RunHasNextStep, CompletedRunIsWhole
  <2>18. StatusIsTrue'
    <3>1. run'.stage \in {"fit", "fit_review_required"} => PlanIsDone'
      BY <2>4, <2>11, <2>12 DEF CarriedShape, StatusIsTrue
    <3> QED BY <1>2, <2>4, <2>5, <2>17, <3>1 DEF StatusIsTrue, Finalized
  <2> QED BY <2>13, <2>14, <2>15, <2>16, <2>18 DEF CarriedShape
<1> QED BY <1>5, <1>6

\* A lookup without an answer: it is repeated, or left to manual review.
LEMMA NoStatusKeeps ==
    ASSUME LastQuery \in Nat, CarriedShape, WorkersAgree, NEW w \in RunWorkers, NoStatus(w)
    PROVE  CarriedShape'
<1>1. PICK q \in Queries, i \in IntentKeys : i = runWorkers[w].intent /\ i = Reconcile(q)
  BY WorkerKnows DEF NoStatus
<1>2. Live(i) /\ Exists(i) /\ searches[q] = "unknown" /\ intents[i].state = "dispatched"
  <2>1. Fenced(w) /\ runWorkers[w].phase = "asking" /\ runWorkers[w].intent[2] = q
    BY <1>1, IntentsDiffer DEF NoStatus
  <2>2. intents[i].state = "dispatched"
    BY <1>1, <2>1 DEF Fenced
  <2>3. i # Discover(q)
    BY <1>1, IntentsDiffer
  <2>4. Live(i) /\ Exists(i) /\ searches[q] = "unknown"
    BY <1>1, <2>1, <2>3, OpenSearchOf
  <2> QED BY <2>2, <2>4
<1>3. intents \in [IntentKeys -> IntentRecord] /\ RunTypes
  BY DEF CarriedShape, RunTypes
<1> DEFINE attempts == IF intents[i].attempts < 3 THEN intents[i].attempts + 1 ELSE 3
           state == IF attempts = 3 THEN "failed" ELSE "ready"
           next == [intents[i] EXCEPT !.attempts = attempts, !.state = state]
<1>4. intents' = [intents EXCEPT ![i] = next]
  BY <1>1, <1>3 DEF NoStatus
<1>5. next \in IntentRecord /\ next.state = state /\ state \in {"failed", "ready"}
  <2>1. intents[i] \in IntentRecord /\ attempts \in Nat
    BY <1>3 DEF IntentRecord
  <2> QED BY <2>1 DEF IntentRecord
<1> HIDE DEF next, state, attempts
<1>6. Turned(i, state)
  BY <1>3, <1>4, <1>5 DEF Turned, Live, Exists, Over
<1>7. searches' = searches /\ run' = run
  BY DEF NoStatus
<1>8. \A j \in IntentKeys : /\ Live(j)' => Live(j)
                            /\ Exists(j)' <=> Exists(j)
                            /\ j # i => (Live(j)' <=> Live(j))
                            /\ j # i => (Over(j)' <=> Over(j))
  BY <1>2, <1>5, <1>6 DEF Turned
<1>9. RunTypes'
  BY <1>3, <1>6, <1>7 DEF RunTypes, Turned
<1>10. SearchesInOrder' /\ LookupsFollow'
  BY <1>1, <1>7, <1>8, IntentsDiffer DEF CarriedShape, SearchesInOrder, LookupsFollow, Unresolved
<1>11. FitIsLast'
  BY <1>7, <1>8, IntentsDiffer DEF CarriedShape, FitIsLast, Unresolved, PlanIsDone, Retryable
<1>12. run.status \in {"partial", "cancel_requested"}
  BY <1>2 DEF CarriedShape, StatusIsTrue
<1>13. RunIsCarriedThrough'
  BY <1>7, <1>12 DEF RunIsCarriedThrough, RunHasNextStep, CompletedRunIsWhole
<1>14. StatusIsTrue'
  BY <1>7, <1>8, <1>12, <1>13, IntentsDiffer DEF CarriedShape, StatusIsTrue, PlanIsDone
<1> QED BY <1>9, <1>10, <1>11, <1>14 DEF CarriedShape

\* A fit that ends, whether it carried the run to review or not.
LEMMA FitEnds ==
    ASSUME LastQuery \in Nat, CarriedShape, WorkersAgree, NEW w \in RunWorkers,
           FitFails(w) \/ CompleteRun(w)
    PROVE  CarriedShape'
<1>1. PICK a \in 1 .. MaxFits, i \in IntentKeys : i = runWorkers[w].intent /\ i = Fit(a)
  BY WorkerKnows, IntentsDiffer DEF FitFails, CompleteRun
<1>2. Live(i) /\ Exists(i) /\ RunTypes /\ run \in RunRecord
  BY <1>1, FencedIsLive DEF FitFails, CompleteRun, CarriedShape, RunTypes
<1>3. searches' = searches /\ intents' = [intents EXCEPT ![i].state = "done"]
  BY <1>1 DEF FitFails, CompleteRun
<1>4. Turned(i, "done")
  BY <1>2, <1>3, IntentTurns
<1>5. /\ a = run.attempt /\ Unresolved = {} /\ PlanIsDone /\ run.status \notin {"completed", "cancelled"}
      /\ \A q \in Queries : ~Live(Discover(q)) /\ ~Live(Reconcile(q))
      /\ \A b \in 1 .. MaxFits : b # a => ~Live(Fit(b))
  BY <1>1, <1>2, FitIsAlone
<1>6. \A j \in IntentKeys : ~Live(j)' /\ (Exists(j)' <=> Exists(j)) /\ (j # i => (Over(j)' <=> Over(j)))
  BY <1>1, <1>2, <1>4, <1>5, IntentsDiffer DEF Turned
<1>7. /\ run' \in RunRecord /\ run'.queries = run.queries /\ run'.attempt = run.attempt /\ run'.enough = run.enough
      /\ \/ run'.status = "cancel_requested" /\ run'.stage = run.stage
         \/ run'.status = "partial"
         \/ run'.status = "completed"
  <2>1. {"partial", "completed", "cancel_requested"} \subseteq RunStates
        /\ {"fit_review_required", "review"} \subseteq RunStages
    BY DEF RunStates, RunStages
  <2>2. PICK old \in RunRecord : old = run
    BY <1>2
  <2>3. \A status \in {"partial", "completed"}, stage \in {"fit_review_required", "review"} :
           [old EXCEPT !.status = status, !.stage = stage] \in RunRecord
    BY <2>1 DEF RunRecord
  <2>4. \/ run' = old /\ old.status = "cancel_requested"
        \/ run' = [old EXCEPT !.status = "partial", !.stage = "fit_review_required"]
        \/ run' = [old EXCEPT !.status = "completed", !.stage = "review"]
    BY <2>2 DEF FitFails, CompleteRun
  <2>5. CASE run' = old /\ old.status = "cancel_requested"
    BY <2>2, <2>5
  <2>6. CASE run' = [old EXCEPT !.status = "partial", !.stage = "fit_review_required"]
    BY <2>2, <2>3, <2>6 DEF RunRecord
  <2>7. CASE run' = [old EXCEPT !.status = "completed", !.stage = "review"]
    BY <2>2, <2>3, <2>7 DEF RunRecord
  <2> QED BY <2>4, <2>5, <2>6, <2>7
<1>8. Unresolved' = {} /\ PlanIsDone'
  BY <1>3, <1>5, <1>7 DEF Unresolved, PlanIsDone
<1>9. RunTypes'
  BY <1>2, <1>3, <1>4, <1>7 DEF RunTypes, Turned
<1>10. SearchesInOrder' /\ LookupsFollow'
  BY <1>1, <1>3, <1>6, <1>7, <1>8, IntentsDiffer DEF CarriedShape, SearchesInOrder, LookupsFollow
<1>11. FitIsLast'
  BY <1>6, <1>7, <1>8, IntentsDiffer DEF CarriedShape, FitIsLast
<1>12. CompletedRunIsWhole'
  <2>1. ASSUME run.queries = LastQuery + 1, NEW q \in Queries PROVE searches[q] = "settled"
    BY <1>2, <1>5, <2>1 DEF CarriedShape, SearchesInOrder, RunTypes, Unresolved, Queries
  <2>2. run.enough \/ \A q \in Queries : searches[q] = "settled"
    BY <1>5, <2>1 DEF PlanIsDone
  <2> QED BY <1>3, <1>7, <1>8, <2>2 DEF CompletedRunIsWhole
<1>13. RunIsCarriedThrough'
  BY <1>7, <1>12 DEF RunIsCarriedThrough, RunHasNextStep
<1>14. \A q \in Queries : searches'[q] # "unknown"
  BY <1>3, <1>5 DEF Unresolved
<1>15. StatusIsTrue'
  BY <1>6, <1>7, <1>8, <1>13, <1>14 DEF StatusIsTrue
<1> QED BY <1>9, <1>10, <1>11, <1>15 DEF CarriedShape

\* Cancelling takes the intents nobody claimed, except the lookups.
LEMMA CancelKeeps ==
    ASSUME LastQuery \in Nat, CarriedShape, CancelRun
    PROVE  CarriedShape'
<1> DEFINE status == IF Undispatched THEN "cancelled" ELSE "cancel_requested"
           stage == IF Undispatched THEN "cancelled" ELSE "reconciling_cancellation"
           dropped(i) == intents[i].state = "ready" /\ i[1] # "reconcile"
<1>1. RunTypes /\ intents \in [IntentKeys -> IntentRecord] /\ searches' = searches
      /\ run' = [run EXCEPT !.status = status, !.stage = stage]
      /\ intents' = [i \in IntentKeys |-> IF dropped(i) THEN [intents[i] EXCEPT !.state = "done"] ELSE intents[i]]
  BY DEF CancelRun, CarriedShape, RunTypes
<1>2. Restated(status, stage) /\ stage \notin {"fit", "fit_review_required"}
      /\ status \in {"cancelled", "cancel_requested"}
  <2>1. status \in RunStates /\ stage \in RunStages
    BY DEF RunStates, RunStages
  <2> HIDE DEF status, stage
  <2>2. Restated(status, stage)
    BY <1>1, <2>1, RunRestated
  <2> QED BY <2>2 DEF status, stage
<1>3. \A i \in IntentKeys : [intents[i] EXCEPT !.state = "done"] \in IntentRecord
                            /\ [intents[i] EXCEPT !.state = "done"].state = "done"
  BY <1>1 DEF IntentRecord
<1> HIDE DEF status, stage
<1>4. /\ intents' \in [IntentKeys -> IntentRecord]
      /\ \A i \in IntentKeys : intents'[i].state = IF dropped(i) THEN "done" ELSE intents[i].state
  BY <1>1, <1>3
<1>5. \A i \in IntentKeys : /\ Live(i)' => Live(i)
                            /\ Exists(i)' <=> Exists(i)
                            /\ Over(i) => Over(i)'
                            /\ Live(i)' => intents[i].state = "dispatched" \/ i[1] = "reconcile"
  BY <1>4 DEF Live, Exists, Over
<1>6. RunTypes'
  BY <1>1, <1>2, <1>4 DEF RunTypes, Restated
<1>7. SearchesInOrder'
  BY <1>1, <1>2, <1>5, IntentsDiffer DEF CarriedShape, SearchesInOrder, Restated
<1>8. LookupsFollow'
  BY <1>1, <1>5, IntentsDiffer DEF CarriedShape, LookupsFollow, Unresolved
<1>9. FitIsLast'
  BY <1>1, <1>2, <1>5, IntentsDiffer DEF CarriedShape, FitIsLast, Unresolved, PlanIsDone, Restated, Retryable
<1>10. status = "cancelled" => \A i \in IntentKeys : ~Live(i)'
  <2> SUFFICES ASSUME Undispatched, NEW i \in IntentKeys, Live(i)' PROVE FALSE
    BY DEF status
  <2>1. i[1] = "reconcile" /\ Live(i)
    BY <1>5 DEF Undispatched
  <2>2. PICK q \in Queries : i = Reconcile(q)
    BY <2>1, IntentsDiffer
  <2> QED BY <2>1, <2>2 DEF Undispatched, CarriedShape, LookupsFollow
<1>11. RunIsCarriedThrough'
  BY <1>2 DEF Restated, RunIsCarriedThrough, RunHasNextStep, CompletedRunIsWhole
<1>12. status = "cancelled" => \A q \in Queries : searches'[q] # "unknown"
  BY <1>1 DEF status, Undispatched, Unresolved
<1>13. StatusIsTrue'
  BY <1>2, <1>10, <1>11, <1>12 DEF StatusIsTrue, Restated
<1> QED BY <1>6, <1>7, <1>8, <1>9, <1>13 DEF CarriedShape

\* A retry queues the fit of the next attempt, which nothing has queued before.
LEMMA RetryKeeps ==
    ASSUME LastQuery \in Nat, MaxFits \in Nat, CarriedShape, RetryRun
    PROVE  CarriedShape'
<1>1. /\ RunTypes /\ run \in RunRecord /\ run.attempt \in Nat /\ run.attempt + 1 \in 1 .. MaxFits
      /\ searches' = searches /\ Unresolved = {} /\ PlanIsDone
      /\ \A q \in Queries : ~Live(Discover(q)) /\ ~Live(Reconcile(q))
      /\ \A a \in 1 .. MaxFits : ~Live(Fit(a)) /\ (Exists(Fit(a)) => a <= run.attempt)
  <2>1. RunTypes /\ run \in RunRecord /\ run.attempt \in 1 .. MaxFits /\ run.attempt < MaxFits
    BY DEF CarriedShape, RunTypes, RunRecord, RetryRun
  <2>2. searches' = searches /\ Unresolved = {} /\ \A q \in Queries : ~Live(Discover(q))
    BY DEF RetryRun, PendingRunWork, Discover
  <2>3. PlanIsDone
    BY DEF RetryRun, Retryable, CarriedShape, StatusIsTrue
  <2>4. \A q \in Queries : ~Live(Reconcile(q))
    BY <2>2 DEF CarriedShape, LookupsFollow
  <2>5. \A a \in 1 .. MaxFits : ~Live(Fit(a)) /\ (Exists(Fit(a)) => a <= run.attempt)
    BY DEF RetryRun, CarriedShape, FitIsLast
  <2> QED BY <2>1, <2>2, <2>3, <2>4, <2>5
<1>2. PICK b \in 1 .. MaxFits : b = run.attempt + 1
  BY <1>1
<1>3. Fit(b) \in IntentKeys /\ intents' = [intents EXCEPT ![Fit(b)] = ReadyIntent]
      /\ run' = [run EXCEPT !.attempt = b, !.status = "queued", !.stage = "fit"]
  BY <1>2, IntentsDiffer DEF RetryRun, Fit
<1>4. Turned(Fit(b), "ready")
  BY <1>1, <1>3, IntentTurns
<1>5. /\ run' \in RunRecord /\ run'.status = "queued" /\ run'.stage = "fit" /\ run'.attempt = b
      /\ run'.queries = run.queries /\ run'.enough = run.enough
  BY <1>1, <1>3 DEF RunRecord, RunStates, RunStages
<1>6. Unresolved' = {} /\ PlanIsDone' /\ ~Retryable'
  BY <1>1, <1>5 DEF Unresolved, PlanIsDone, Retryable
<1>7. /\ \A q \in Queries : /\ ~Live(Discover(q))' /\ ~Live(Reconcile(q))'
                            /\ (Exists(Discover(q))' <=> Exists(Discover(q)))
                            /\ (Exists(Reconcile(q))' <=> Exists(Reconcile(q)))
                            /\ (Over(Discover(q))' <=> Over(Discover(q)))
      /\ \A a \in 1 .. MaxFits : /\ Live(Fit(a))' => a = b
                                 /\ Exists(Fit(a))' => a <= run.attempt \/ a = b
      /\ Live(Fit(b))'
  BY <1>1, <1>3, <1>4, IntentsDiffer DEF Turned
<1>8. RunTypes'
  BY <1>1, <1>4, <1>5 DEF RunTypes, Turned
<1>9. SearchesInOrder' /\ LookupsFollow'
  BY <1>1, <1>5, <1>7 DEF CarriedShape, SearchesInOrder, LookupsFollow
<1>10. FitIsLast'
  BY <1>1, <1>2, <1>5, <1>6, <1>7 DEF FitIsLast
<1>11. RunIsCarriedThrough'
  BY <1>3, <1>5, <1>7 DEF RunIsCarriedThrough, RunHasNextStep, CompletedRunIsWhole
<1>12. StatusIsTrue'
  BY <1>1, <1>5, <1>6, <1>11 DEF StatusIsTrue, Unresolved
<1> QED BY <1>8, <1>9, <1>10, <1>12 DEF CarriedShape

\* A due claim is recovered: to be run again, or left to the lookup it needs.
LEMMA RecoveryKeeps ==
    ASSUME LastQuery \in Nat, CarriedShape, NEW i \in IntentKeys, RecoverIntent(i)
    PROVE  CarriedShape'
<1> DEFINE state == IF Unresolved # {} /\ i[1] # "reconcile" THEN "done" ELSE "ready"
<1>1. /\ RunTypes /\ intents \in [IntentKeys -> IntentRecord] /\ searches' = searches /\ run' = run
      /\ intents[i].state = "dispatched" /\ Live(i) /\ Exists(i)
      /\ intents' = [k \in IntentKeys |-> IF k = i THEN [intents[k] EXCEPT !.state = state]
                                         ELSE IF k \in Orphans THEN ReadyIntent ELSE intents[k]]
  BY DEF RecoverIntent, CarriedShape, RunTypes, Live, Exists
<1>2. ReadyIntent \in IntentRecord /\ ReadyIntent.state = "ready" /\ state \in {"done", "ready"}
  BY DEF ReadyIntent, NoRunIntent, IntentRecord
<1>3. [intents[i] EXCEPT !.state = state] \in IntentRecord /\ [intents[i] EXCEPT !.state = state].state = state
  BY <1>1, <1>2 DEF IntentRecord
<1> HIDE DEF state
<1>4. /\ intents' \in [IntentKeys -> IntentRecord] /\ intents'[i].state = state
      /\ \A k \in IntentKeys : k # i /\ k \in Orphans => intents'[k].state = "ready"
      /\ \A k \in IntentKeys : k # i /\ k \notin Orphans => intents'[k] = intents[k]
  BY <1>1, <1>2, <1>3
<1>5. \A k \in IntentKeys : k \in Orphans <=> \E q \in Unresolved : k = Reconcile(q) /\ ~Exists(k)
  BY DEF Orphans, Reconcile, Exists
<1>6. CASE Unresolved = {} \/ \E q \in Unresolved : i = Reconcile(q)
  <2>1. Orphans = {} /\ state = "ready"
    <3>1. state = "ready"
      BY <1>6, IntentsDiffer DEF state
    <3>2. \A q \in Unresolved : i = Reconcile(q)
      BY <1>6, OneSearchOpen DEF Unresolved
    <3>3. \A k \in IntentKeys : k \notin Orphans
      BY <1>1, <1>5, <3>2
    <3> QED BY <3>1, <3>3 DEF Orphans
  <2>2. \A k \in IntentKeys : k # i => intents'[k] = intents[k]
    BY <1>4, <2>1
  <2>3. \A k \in IntentKeys : /\ intents'[k].state \in {"ready", "dispatched"} <=> Live(k)
                              /\ intents'[k].state # "absent" <=> Exists(k)
                              /\ intents'[k].state = "done" <=> Over(k)
    BY <1>1, <1>4, <2>1, <2>2 DEF Live, Exists, Over
  <2> QED BY <1>1, <1>4, <2>3, ShapeStays
<1>7. ASSUME NEW q \in Unresolved, i # Reconcile(q)
      PROVE  CarriedShape'
  <2>1. /\ q \in Queries /\ run.queries = q + 1
        /\ \A p \in Queries : p # q => p \notin Unresolved /\ ~Live(Reconcile(p)) /\ ~Live(Discover(p))
        /\ \A a \in 1 .. MaxFits : ~Exists(Fit(a))
    BY OneSearchOpen
  <2>2. i = Discover(q)
    BY <1>1, <1>7, <2>1, IntentsDiffer DEF Live, Exists
  <2>3. /\ searches[q] = "submitting" /\ ~Exists(Reconcile(q))
        /\ \A p \in Queries : searches[p] # "unknown"
        /\ run.status \notin {"completed", "cancelled", "failed", "paused_budget"}
    BY <1>1, <2>1, <2>2, DiscoveryIsAlone DEF Unresolved
  <2>4. state = "done"
    BY <1>7, <2>2, IntentsDiffer DEF state
  <2>5. \A k \in IntentKeys : k \in Orphans <=> k = Reconcile(q)
    BY <1>5, <2>1, <2>3, IntentsDiffer
  <2>6. \A k \in IntentKeys : /\ Live(k)' <=> (k = Reconcile(q) \/ (Live(k) /\ k # i))
                              /\ Exists(k)' <=> (k = Reconcile(q) \/ Exists(k))
                              /\ k # Reconcile(q) => (Over(k)' <=> (k = i \/ Over(k)))
    BY <1>1, <1>4, <1>7, <2>4, <2>5 DEF Live, Exists, Over
  <2>7. Reconcile(q) \in IntentKeys /\ Discover(q) \in IntentKeys
    BY <2>1, IntentsDiffer
  <2>8. RunTypes' /\ Unresolved' = Unresolved
    BY <1>1, <1>4 DEF RunTypes, Unresolved
  <2>9. SearchesInOrder'
    BY <1>1, <2>2, <2>6, IntentsDiffer DEF CarriedShape, SearchesInOrder
  <2>10. LookupsFollow'
    <3>1. \A p \in Queries : /\ Exists(Reconcile(p))' => p = q \/ Exists(Reconcile(p))
                             /\ Live(Reconcile(p))' => p = q \/ Live(Reconcile(p))
                             /\ Over(Discover(p)) => Over(Discover(p))'
      BY <2>6, IntentsDiffer
    <3>2. Over(Discover(q))'
      BY <2>2, <2>6, <2>7, <2>1, IntentsDiffer
    <3> QED BY <1>1, <2>3, <2>8, <3>1, <3>2 DEF CarriedShape, LookupsFollow
  <2>11. FitIsLast'
    BY <2>1, <2>6, IntentsDiffer DEF FitIsLast, Live, Exists
  <2>12. RunIsCarriedThrough'
    <3>1. \E k \in IntentKeys : Live(k)'
      BY <2>6, <2>7
    <3> QED BY <1>1, <2>3, <3>1 DEF RunIsCarriedThrough, RunHasNextStep, CompletedRunIsWhole
  <2>13. StatusIsTrue'
    BY <1>1, <2>3, <2>12 DEF CarriedShape, StatusIsTrue, PlanIsDone
  <2> QED BY <2>8, <2>9, <2>10, <2>11, <2>13 DEF CarriedShape
<1> QED BY <1>6, <1>7

----------------------------------------------------------------------------
(* The invariant.                                                           *)

LEMMA RunStarts == ASSUME LastQuery \in Nat, MaxFits \in Nat \ {0}, RunInit PROVE CarriedInv
<1>1. 0 \in Queries /\ Queries \subseteq Nat /\ 1 \in 1 .. MaxFits /\ Discover(0) \in IntentKeys
  <2>1. 0 \in Queries /\ Queries \subseteq Nat /\ 1 \in 1 .. MaxFits
    BY DEF Queries
  <2> QED BY <2>1, IntentsDiffer
<1>2. /\ ReadyIntent \in IntentRecord /\ ReadyIntent.state = "ready"
      /\ NoRunIntent \in IntentRecord /\ NoRunIntent.state = "absent"
  BY DEF ReadyIntent, NoRunIntent, IntentRecord
<1>3. intents = [i \in IntentKeys |-> IF i = Discover(0) THEN ReadyIntent ELSE NoRunIntent]
  BY DEF RunInit, Discover
<1>4. \A i \in IntentKeys : (Live(i) <=> i = Discover(0)) /\ (Exists(i) <=> i = Discover(0)) /\ ~Over(i)
  BY <1>2, <1>3 DEF Live, Exists, Over
<1>5. \A q \in Queries : searches[q] = "none"
  BY DEF RunInit
<1>6. /\ run.status = "queued" /\ run.stage = "queued" /\ run.queries = 0
      /\ run.attempt = 1 /\ ~run.enough /\ run \in RunRecord
  BY <1>1 DEF RunInit, RunRecord, RunStates, RunStages
<1>7. RunTypes
  BY <1>2, <1>3, <1>6 DEF RunInit, RunTypes
<1>8. SearchesInOrder
  BY <1>1, <1>4, <1>5, <1>6, IntentsDiffer DEF SearchesInOrder
<1>9. LookupsFollow /\ FitIsLast
  BY <1>1, <1>4, IntentsDiffer DEF LookupsFollow, FitIsLast
<1>10. RunIsCarriedThrough
  BY <1>1, <1>4, <1>6 DEF RunIsCarriedThrough, RunHasNextStep, CompletedRunIsWhole
<1>11. StatusIsTrue
  BY <1>5, <1>6, <1>10 DEF StatusIsTrue
<1>12. WorkersAgree
  <2>1. IdleRunWorker \in RunWorkerRecord /\ IdleRunWorker.phase = "idle"
    BY DEF IdleRunWorker, RunWorkerRecord
  <2>2. WorkerAgrees(IdleRunWorker, searches)
    BY <2>1 DEF WorkerAgrees
  <2> HIDE DEF IdleRunWorker
  <2> QED BY <2>2 DEF RunInit, WorkersAgree
<1> QED BY <1>7, <1>8, <1>9, <1>11, <1>12 DEF CarriedShape, CarriedInv

\* The steps that leave the shape of the run alone.
LEMMA QuietStep ==
    ASSUME LastQuery \in Nat, CarriedShape, WorkersAgree,
           \/ \E i \in IntentKeys : ClaimIntent(i)
           \/ \E w \in RunWorkers : CrashRunWorker(w) \/ MarkDispatch(w) \/ ContinueFit(w)
           \/ \E w \in RunWorkers, q \in Queries : AskStatus(w, q)
           \/ \E w \in RunWorkers, q \in Queries, s \in {"failed", "paused_budget", "partial"} : DenySearch(w, q, s)
           \/ \E w \in RunWorkers, a \in 1 .. MaxFits : StartFit(w, a)
           \/ ChangeContext
           \/ UNCHANGED runVars
    PROVE  CarriedShape'
<1>1. intents \in [IntentKeys -> IntentRecord]
  BY DEF CarriedShape, RunTypes
<1>2. ASSUME NEW i \in IntentKeys, NEW row \in IntentRecord, intents' = [intents EXCEPT ![i] = row],
             row.state = intents[i].state \/ (row.state = "dispatched" /\ intents[i].state \in {"ready", "dispatched"}),
             searches' = searches,
             \/ run' = run
             \/ run.status \in {"queued", "running"} /\ run' = [run EXCEPT !.status = "running"]
      PROVE  CarriedShape'
  <2>1. intents' \in [IntentKeys -> IntentRecord] /\ intents'[i] = row
        /\ \A j \in IntentKeys : j # i => intents'[j] = intents[j]
    BY <1>1, <1>2
  <2>2. \A j \in IntentKeys : /\ intents'[j].state \in {"ready", "dispatched"} <=> Live(j)
                              /\ intents'[j].state # "absent" <=> Exists(j)
                              /\ intents'[j].state = "done" <=> Over(j)
    BY <1>2, <2>1 DEF Live, Exists, Over
  <2> QED BY <1>2, <2>1, <2>2, ShapeStays
<1>3. ASSUME NEW i \in IntentKeys, NEW stepped \in BOOLEAN,
             intents' = [intents EXCEPT ![i].stepped = stepped], searches' = searches,
             \/ run' = run
             \/ run.status \in {"queued", "running"} /\ run' = [run EXCEPT !.status = "running"]
      PROVE  CarriedShape'
  <2> DEFINE row == [intents[i] EXCEPT !.stepped = stepped]
  <2>1. row \in IntentRecord /\ row.state = intents[i].state
    BY <1>1 DEF IntentRecord
  <2>2. intents' = [intents EXCEPT ![i] = row]
    BY <1>3
  <2> HIDE DEF row
  <2> QED BY <1>2, <1>3, <2>1, <2>2
<1>4. ASSUME UNCHANGED <<run, searches, intents>> PROVE CarriedShape'
  BY <1>1, <1>4, ShapeStays DEF Live, Exists, Over
<1>5. ASSUME NEW i \in IntentKeys, ClaimIntent(i) PROVE CarriedShape'
  <2> DEFINE row == [state |-> "dispatched", gen |-> intents[i].gen + 1, stepped |-> FALSE,
                     attempts |-> IF intents[i].attempts < 3 THEN intents[i].attempts + 1 ELSE 3]
  <2>1. row \in IntentRecord /\ row.state = "dispatched"
    BY <1>1 DEF IntentRecord
  <2>2. intents' = [intents EXCEPT ![i] = row] /\ intents[i].state \in {"ready", "dispatched"}
        /\ searches' = searches /\ run' = run
    BY <1>1, <1>5 DEF ClaimIntent
  <2> HIDE DEF row
  <2> QED BY <1>2, <2>1, <2>2
<1>6. ASSUME NEW w \in RunWorkers, CrashRunWorker(w) \/ MarkDispatch(w) PROVE CarriedShape'
  BY <1>4, <1>6 DEF CrashRunWorker, MarkDispatch
<1>7. ASSUME NEW w \in RunWorkers, ContinueFit(w) PROVE CarriedShape'
  <2>1. runWorkers[w].intent \in IntentKeys
    BY <1>7, WorkerKnows DEF ContinueFit
  <2> QED BY <1>3, <1>7, <2>1 DEF ContinueFit
<1>8. ASSUME NEW w \in RunWorkers, NEW q \in Queries, AskStatus(w, q) PROVE CarriedShape'
  BY <1>3, <1>8, IntentsDiffer DEF AskStatus, Stepped, Reconcile
<1>9. ASSUME NEW w \in RunWorkers, NEW q \in Queries, NEW s, DenySearch(w, q, s) PROVE CarriedShape'
  BY <1>3, <1>9, IntentsDiffer DEF DenySearch, Stepped, Discover
<1>10. ASSUME NEW w \in RunWorkers, NEW a \in 1 .. MaxFits, StartFit(w, a) PROVE CarriedShape'
  BY <1>3, <1>10, IntentsDiffer DEF StartFit, Stepped, Fit
<1>11. CASE ChangeContext \/ UNCHANGED runVars
  BY <1>4, <1>11 DEF ChangeContext, runVars
<1> QED BY <1>5, <1>6, <1>7, <1>8, <1>9, <1>10, <1>11

\* No step disagrees with what the processes know.
LEMMA WorkersStep ==
    ASSUME LastQuery \in Nat, CarriedShape, WorkersAgree, [RunNext]_runVars
    PROVE  WorkersAgree'
<1>1. searches \in [Queries -> {"none", "submitting", "unknown", "settled"}] /\ RunTypes
  BY DEF CarriedShape, RunTypes
<1>2. ASSUME searches' = searches, runWorkers' = runWorkers PROVE WorkersAgree'
  BY <1>2 DEF WorkersAgree
<1>3. ASSUME searches' = searches PROVE SearchesAdvance
  BY <1>3 DEF SearchesAdvance
<1>4. ASSUME NEW q \in Queries, NEW to \in {"unknown", "settled"}, searches' = [searches EXCEPT ![q] = to]
      PROVE  SearchesAdvance
  BY <1>1, <1>4 DEF SearchesAdvance
<1>5. CASE \/ \E i \in IntentKeys : ClaimIntent(i) \/ RecoverIntent(i)
           \/ CancelRun \/ RetryRun \/ ChangeContext \/ UNCHANGED runVars
  BY <1>2, <1>5 DEF ClaimIntent, RecoverIntent, CancelRun, RetryRun, ChangeContext, runVars
<1>6. ASSUME NEW w \in RunWorkers,
             CrashRunWorker(w) \/ HaltBeforeDispatch(w) \/ NoStatus(w) \/ FitFails(w) \/ CompleteRun(w) \/ ContinueFit(w)
      PROVE  WorkersAgree'
  BY <1>3, <1>6, WorkerLeaves DEF CrashRunWorker, HaltBeforeDispatch, NoStatus, FitFails, CompleteRun, ContinueFit
<1>7. ASSUME NEW w \in RunWorkers,
             \/ MarkUnknown(w)
             \/ \E s \in {"limit_reached", "policy_recheck_failed"} : FinalizeWithoutRows(w, s)
             \/ \E found \in BOOLEAN : FinalizeBatch(w, found)
      PROVE  WorkersAgree'
  <2>1. PICK q \in Queries : q = runWorkers[w].intent[2]
    BY <1>7, WorkerKnows DEF MarkUnknown, FinalizeWithoutRows, FinalizeBatch, Finalizable
  <2>2. runWorkers' = Leave(w) /\ \E to \in {"unknown", "settled"} : searches' = [searches EXCEPT ![q] = to]
    BY <1>7, <2>1 DEF MarkUnknown, FinalizeWithoutRows, FinalizeBatch, Settle
  <2> QED BY <1>4, <2>2, WorkerLeaves
<1>8. ASSUME NEW w \in RunWorkers, NEW q \in Queries, PrepareSearch(w, q) PROVE WorkersAgree'
  <2>1. SearchesAdvance /\ searches'[q] # "none"
    BY <1>1, <1>8 DEF PrepareSearch, Verdict, SearchesAdvance
  <2>2. runWorkers' = At(w, "prepared", Discover(q), "none")
    BY <1>8 DEF PrepareSearch, Discover
  <2> QED BY <1>1, <2>1, <2>2, WorkerStarts, IntentsDiffer
<1>9. ASSUME NEW w \in RunWorkers, NEW q \in Queries, NEW s \in {"failed", "paused_budget", "partial"}, DenySearch(w, q, s)
      PROVE  WorkersAgree'
  <2>1. SearchesAdvance /\ runWorkers' = At(w, "halting", Discover(q), s)
    BY <1>3, <1>9 DEF DenySearch, Discover
  <2> QED BY <1>1, <2>1, WorkerStarts, IntentsDiffer
<1>10. ASSUME NEW w \in RunWorkers, NEW q \in Queries, AskStatus(w, q) PROVE WorkersAgree'
  <2>1. SearchesAdvance /\ runWorkers' = At(w, "asking", Reconcile(q), "none") /\ searches'[q] \in {"unknown", "settled"}
    BY <1>3, <1>10 DEF AskStatus, Reconcile
  <2> QED BY <1>1, <2>1, WorkerStarts, IntentsDiffer
<1>11. ASSUME NEW w \in RunWorkers, NEW a \in 1 .. MaxFits, StartFit(w, a) PROVE WorkersAgree'
  <2>1. SearchesAdvance /\ runWorkers' = At(w, "fitting", Fit(a), "none")
    BY <1>3, <1>11 DEF StartFit, Fit
  <2> QED BY <1>1, <2>1, WorkerStarts, IntentsDiffer
<1>12. ASSUME NEW w \in RunWorkers, MarkDispatch(w) PROVE WorkersAgree'
  <2> DEFINE next == [runWorkers[w] EXCEPT !.phase = "searching"]
  <2>1. runWorkers' = [runWorkers EXCEPT ![w] = next] /\ SearchesAdvance /\ searches' = searches
    BY <1>3, <1>12 DEF MarkDispatch
  <2>2. WorkerAgrees(runWorkers[w], searches) /\ runWorkers[w].phase = "prepared" /\ runWorkers[w] \in RunWorkerRecord
    BY <1>12 DEF MarkDispatch, WorkersAgree, WorkerAgrees
  <2>3. next \in RunWorkerRecord /\ next.phase = "searching" /\ next.intent = runWorkers[w].intent
    BY <2>2 DEF RunWorkerRecord
  <2> HIDE DEF next
  <2>4. WorkerAgrees(next, searches')
    BY <2>1, <2>2, <2>3 DEF WorkerAgrees
  <2> QED BY <2>1, <2>4, WorkersStayAgreed
<1> QED BY <1>5, <1>6, <1>7, <1>8, <1>9, <1>10, <1>11, <1>12 DEF RunNext

LEMMA RunStep ==
    ASSUME LastQuery \in Nat, MaxFits \in Nat \ {0}, CarriedInv, [RunNext]_runVars
    PROVE  CarriedInv'
<1>1. CarriedShape /\ WorkersAgree
  BY DEF CarriedInv
<1>2. CarriedShape'
  <2>1. ASSUME NEW i \in IntentKeys, RecoverIntent(i) PROVE CarriedShape'
    BY <1>1, <2>1, RecoveryKeeps
  <2>2. ASSUME NEW w \in RunWorkers, NEW q \in Queries, PrepareSearch(w, q) PROVE CarriedShape'
    BY <1>1, <2>2, PrepareKeeps
  <2>3. ASSUME NEW w \in RunWorkers, HaltBeforeDispatch(w) \/ MarkUnknown(w) \/ NoStatus(w) PROVE CarriedShape'
    BY <1>1, <2>3, HaltKeeps, UnknownKeeps, NoStatusKeeps
  <2>4. ASSUME NEW w \in RunWorkers, NEW s \in {"limit_reached", "policy_recheck_failed"}, FinalizeWithoutRows(w, s)
        PROVE  CarriedShape'
    BY <1>1, <2>4, WithoutRowsKeeps
  <2>5. ASSUME NEW w \in RunWorkers, NEW found \in BOOLEAN, FinalizeBatch(w, found) PROVE CarriedShape'
    BY <1>1, <2>5, BatchKeeps
  <2>6. ASSUME NEW w \in RunWorkers, FitFails(w) \/ CompleteRun(w) PROVE CarriedShape'
    BY <1>1, <2>6, FitEnds
  <2>7. CASE CancelRun \/ RetryRun
    BY <1>1, <2>7, CancelKeeps, RetryKeeps
  <2>8. \/ \E i \in IntentKeys : ClaimIntent(i)
        \/ \E w \in RunWorkers : CrashRunWorker(w) \/ MarkDispatch(w) \/ ContinueFit(w)
        \/ \E w \in RunWorkers, q \in Queries : AskStatus(w, q)
        \/ \E w \in RunWorkers, q \in Queries, s \in {"failed", "paused_budget", "partial"} : DenySearch(w, q, s)
        \/ \E w \in RunWorkers, a \in 1 .. MaxFits : StartFit(w, a)
        \/ ChangeContext
        \/ UNCHANGED runVars
        => CarriedShape'
    BY <1>1, QuietStep
  <2> QED BY <2>1, <2>2, <2>3, <2>4, <2>5, <2>6, <2>7, <2>8 DEF RunNext
<1>3. WorkersAgree'
  BY <1>1, WorkersStep
<1> QED BY <1>2, <1>3 DEF CarriedInv

\* A run that is over stays so: nothing that could change it is live.
LEMMA OverStaysOver ==
    ASSUME CarriedInv, [RunNext]_runVars, run.status \in {"completed", "cancelled"}
    PROVE  run'.status = run.status
<1>1. CarriedShape /\ WorkersAgree /\ run \in RunRecord
  BY DEF CarriedInv, CarriedShape, RunTypes
<1>2. \A i \in IntentKeys : ~Live(i)
  BY <1>1 DEF CarriedShape, StatusIsTrue
<1>3. \A w \in RunWorkers : runWorkers[w].phase # "idle" => ~Fenced(w)
  <2>1. ASSUME NEW w \in RunWorkers, runWorkers[w].phase # "idle", Fenced(w) PROVE FALSE
    <3>1. runWorkers[w].intent \in IntentKeys /\ Live(runWorkers[w].intent)
      BY <1>1, <2>1, WorkerKnows, FencedIsLive
    <3> QED BY <1>2, <3>1
  <2> QED BY <2>1
<1>4. \A w \in RunWorkers : /\ ~HaltBeforeDispatch(w) /\ ~MarkUnknown(w) /\ ~FitFails(w) /\ ~CompleteRun(w)
                            /\ \A s : ~FinalizeWithoutRows(w, s)
                            /\ \A found : ~FinalizeBatch(w, found)
  BY <1>3 DEF HaltBeforeDispatch, MarkUnknown, FitFails, CompleteRun, FinalizeWithoutRows, FinalizeBatch, Finalizable
<1>5. /\ \A w \in RunWorkers, q \in Queries : ~PrepareSearch(w, q)
      /\ \A w \in RunWorkers, a \in 1 .. MaxFits : ~StartFit(w, a)
      /\ ~CancelRun /\ ~RetryRun
  BY DEF PrepareSearch, Verdict, StartFit, CancelRun, RetryRun, Retryable
<1>6. CASE \/ \E i \in IntentKeys : ClaimIntent(i) \/ RecoverIntent(i)
           \/ \E w \in RunWorkers : CrashRunWorker(w) \/ MarkDispatch(w) \/ NoStatus(w) \/ ContinueFit(w)
           \/ \E w \in RunWorkers, q \in Queries : AskStatus(w, q)
           \/ \E w \in RunWorkers, q \in Queries, s \in {"failed", "paused_budget", "partial"} : DenySearch(w, q, s)
           \/ ChangeContext \/ UNCHANGED runVars
  BY <1>6 DEF ClaimIntent, RecoverIntent, CrashRunWorker, MarkDispatch, NoStatus, ContinueFit, AskStatus, DenySearch,
              ChangeContext, runVars
<1> QED BY <1>4, <1>5, <1>6 DEF RunNext

\* A research run ends once, and ends whole: for every plan, number of workers,
\* claims and attempts (discovery_executor, fit_executor, run_service).
THEOREM RunIsCarriedToTheEnd ==
    ASSUME LastQuery \in Nat, MaxFits \in Nat \ {0}
    PROVE  RunSpec => []RunIsCarriedThrough /\ TerminalRunsFinal
<1>1. RunInit => CarriedInv
  BY RunStarts
<1>2. CarriedInv /\ [RunNext]_runVars => CarriedInv'
  BY RunStep
<1>3. CarriedInv => RunIsCarriedThrough
  BY DEF CarriedInv, CarriedShape, StatusIsTrue
<1>4. CarriedInv /\ [RunNext]_runVars => [run.status \in {"completed", "cancelled"} => run'.status = run.status]_runVars
  BY OverStaysOver
<1> QED BY <1>1, <1>2, <1>3, <1>4, PTL DEF RunSpec, TerminalRunsFinal
==============================================================================
