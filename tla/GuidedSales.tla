---- MODULE GuidedSales ----
(***************************************************************************)
(* The screen on which a person works on the sales tasks of a discussion,  *)
(* and the tasks on the server that it, a colleague and the administrators *)
(* change.  Paid work begins in three requests: the cost of the task as it *)
(* stands is read, approved, and the work started under that approval.  In *)
(* between the person may turn to another task, leave and come back, lose  *)
(* an answer and ask again.  The words of a task are numbered by the       *)
(* revision that brought them; a cost is named by the registration of the  *)
(* model it was computed from.                                             *)
(***************************************************************************)
EXTENDS Naturals, Sequences

CONSTANTS MaxTasks,     \* bound: tasks in the discussion
          MaxRevision,  \* bound: revisions of a task
          MaxCosting,   \* bound: changes of the model's registration
          MaxCalls,     \* bound: requests sent
          MaxTexts,     \* bound: wordings typed
          MaxTurns,     \* bound: tasks chosen, pages left
          MaxUpsets     \* bound: lost answers, expired approvals, edits of others

VARIABLES talk,      \* the discussion: its version, and whether this person may edit it
          works,     \* sales_tasks and the execution admitted of each
          costing,   \* the registration a cost is computed from
          consents,  \* sales_reviews
          onRecord,  \* idempotency records: key to task
          panel,     \* the mounted screen
          keptDraft, \* what the session keeps of an unmounted one
          keyring,   \* the session's unresolved intents and their keys
          live,      \* requests and reads that the screen waits for or has given up
          pressed,   \* history: what was on the screen when "Approve" and "Start" were pressed
          ration     \* calls, turns and upsets so far

guidedVars == <<talk, works, costing, consents, onRecord, panel, keptDraft, keyring, live, pressed, ration>>

\* What a read is for.
Again == <<1>>
Latest == <<2>>

NoRow == [id |-> 0, rev |-> 0, state |-> "none"]
NoCost == [what |-> <<>>, rev |-> 0]
NoConsent == [id |-> 0, rev |-> 0]
Blank == [open |-> TRUE, mount |-> 1, epoch |-> 0, sel |-> 0, row |-> NoRow, cost |-> NoCost, consent |-> NoConsent,
          busy |-> FALSE, thread |-> 1, text |-> 0, revoked |-> FALSE]
NewTask(rev) == [rev |-> 1, state |-> "ready", words |-> 1, parent |-> 0, on |-> <<>>]
Row(t) == [id |-> t, rev |-> works[t].rev, state |-> works[t].state]

Waiting(kind, task, rev, what, mount, epoch, n, key) ==
    [kind |-> kind, task |-> task, rev |-> rev, what |-> what, to |-> mount, epoch |-> epoch, n |-> n, key |-> key,
     reply |-> "none", row |-> NoRow, got |-> <<>>]

GuidedInit ==
    /\ talk = [version |-> 1, open |-> TRUE]
    /\ works = <<NewTask(1)>> /\ costing = 1 /\ consents = <<>> /\ onRecord = {}
    /\ panel = Blank /\ keptDraft = [saved |-> FALSE, text |-> 0, sel |-> 0] /\ keyring = {}
    /\ live = {Waiting("list", 0, 0, <<>>, 1, 0, 1, 0)}
    /\ pressed = {} /\ ration = [calls |-> 1, texts |-> 0, turns |-> 0, upsets |-> 0]

Server == <<talk, works, costing, consents, onRecord>>
Upset == ration.upsets < MaxUpsets /\ ration' = [ration EXCEPT !.upsets = @ + 1]
Turn == ration.turns < MaxTurns /\ ration' = [ration EXCEPT !.turns = @ + 1]

----------------------------------------------------------------------------
(* What the person does.                                                   *)

\* SalesTransport keeps one key per exact request until it has succeeded (a
\* request in flight is shared; here its repetition goes out under its key).
KeyOf(of) ==
    IF \E i \in keyring : i.of = of THEN (CHOOSE i \in keyring : i.of = of).key ELSE ration.calls + 1

Request(kind, task, rev, what) ==
    LET of == <<kind, task, rev, what>> IN
    /\ ration.calls < MaxCalls
    /\ ration' = [ration EXCEPT !.calls = @ + 1]
    /\ keyring' = keyring \cup {[of |-> of, key |-> KeyOf(of)]}
    /\ live' = live \cup {Waiting(kind, task, rev, what, panel.mount, panel.epoch, ration.calls + 1, KeyOf(of))}
    /\ panel' = [panel EXCEPT !.busy = TRUE]
    /\ UNCHANGED <<Server, keptDraft>>

\* run: one action at a time on the selection of this moment.
Idle == panel.open /\ ~panel.busy
Editor == Idle /\ ~panel.revoked
Task == panel.row.id
Same == UNCHANGED pressed

Type ==
    /\ panel.open /\ ~panel.revoked /\ ration.texts < MaxTexts
    /\ panel' = [panel EXCEPT !.text = ration.texts + 1]
    /\ ration' = [ration EXCEPT !.texts = @ + 1]
    /\ UNCHANGED <<Server, keptDraft, keyring, live, pressed>>

Start == Editor /\ Task = 0 /\ panel.text # 0 /\ Request("start", 0, panel.thread, <<panel.text>>) /\ Same
FollowUp ==
    /\ Editor /\ panel.row.state = "ready" /\ panel.text # 0
    /\ Request("follow", Task, panel.row.rev, <<panel.text>>) /\ Same
Refresh == Idle /\ Task # 0 /\ Request("read", Task, 0, Again) /\ Same
ModelPreview == Editor /\ panel.row.state = "ready" /\ Request("preview", Task, 0, <<ration.calls + 1>>) /\ Same
Cancel == Editor /\ panel.row.state \in {"ready", "queued"} /\ Request("cancel", Task, panel.row.rev, <<>>) /\ Same

Approve ==
    /\ Editor /\ Task # 0 /\ panel.cost # NoCost /\ panel.consent = NoConsent
    /\ Request("approve", Task, panel.cost.rev, panel.cost.what)
    /\ pressed' = pressed \cup {<<"approve", Task, panel.cost.what>>}

Admit ==
    /\ Editor /\ Task # 0 /\ panel.cost # NoCost /\ panel.consent # NoConsent
    /\ Request("admit", Task, panel.consent.rev, <<panel.consent.id, panel.cost.what[4]>>)
    /\ pressed' = pressed \cup {<<"start", Task, panel.cost.what>>}

Cleared(p) == [p EXCEPT !.cost = NoCost, !.consent = NoConsent]

\* choose, and "Review task": the next task is a new one.
Choose ==
    /\ panel.open /\ ~panel.revoked /\ Turn
    /\ panel' = [Cleared(panel) EXCEPT !.epoch = @ + 1, !.busy = FALSE, !.sel = 0, !.row = NoRow]
    /\ UNCHANGED <<Server, keptDraft, keyring, live, pressed>>

\* selectTask does not wait for the action under way, and forgets its answer.
SelectTask(t) ==
    /\ panel.open /\ ~panel.revoked /\ Turn
    /\ panel' = [Cleared(panel) EXCEPT !.epoch = @ + 1, !.busy = FALSE, !.sel = t, !.row = NoRow]
    /\ live' = live \cup {Waiting("select", t, 0, <<>>, panel.mount, panel.epoch + 1, 10 + ration.turns, 0)}
    /\ UNCHANGED <<Server, keptDraft, keyring, pressed>>

\* Another page and back: the text and its task stay with the session.
Leave ==
    /\ panel.open /\ Turn
    /\ panel' = [Blank EXCEPT !.open = FALSE, !.mount = panel.mount + 1]
    /\ keptDraft' = [saved |-> TRUE, text |-> panel.text, sel |-> panel.sel]
    /\ UNCHANGED <<Server, keyring, live, pressed>>

Return ==
    /\ ~panel.open /\ talk.open
    /\ panel' = [Blank EXCEPT !.mount = panel.mount, !.thread = talk.version, !.text = keptDraft.text, !.sel = keptDraft.sel]
    /\ live' = live \cup {Waiting("list", keptDraft.sel, 0, Again, panel.mount, 0, 20 + panel.mount, 0)}
    /\ UNCHANGED <<Server, keptDraft, keyring, pressed, ration>>

----------------------------------------------------------------------------
(* The server.                                                             *)

\* The plan of a task, its words, and the registration its cost comes from.
Fingerprint(t, proposal) == <<t, works[t].words, costing, proposal>>

Reply(c, reply, row, got) ==
    live' = (live \ {c}) \cup IF c.to = 0 THEN {} ELSE {[c EXCEPT !.reply = reply, !.row = row, !.got = got]}

Refuse(c) == Reply(c, "stale", NoRow, <<>>) /\ UNCHANGED <<talk, works, consents, onRecord>>
Recorded(c) == \E r \in onRecord : r.key = c.key
RowOf(c) == (CHOOSE r \in onRecord : r.key = c.key).task
Record(c, t) == onRecord' = onRecord \cup {[key |-> c.key, task |-> t]}
Changed(t, row) == works' = [works EXCEPT ![t] = row] /\ row.rev <= MaxRevision

ServeRead(c) ==
    LET t == IF c.kind = "list" /\ c.what = <<>> THEN Len(works) ELSE c.task IN
    /\ c.kind \in {"list", "read", "select"}
    /\ Reply(c, "ok", IF t = 0 THEN NoRow ELSE Row(t), <<>>)
    /\ UNCHANGED <<talk, works, consents, onRecord>>

ServeThread(c) ==
    /\ c.kind = "thread"
    /\ Reply(c, "ok", [NoRow EXCEPT !.rev = talk.version], <<>>)
    /\ UNCHANGED <<talk, works, consents, onRecord>>

CreateTask(c) ==
    /\ c.kind = "start"
    /\ IF Recorded(c) THEN Reply(c, "ok", Row(RowOf(c)), <<>>) /\ UNCHANGED <<talk, works, consents, onRecord>>
       ELSE IF c.rev # talk.version THEN Refuse(c)
       ELSE /\ Len(works) < MaxTasks
            /\ works' = Append(works, NewTask(1)) /\ talk' = [talk EXCEPT !.version = @ + 1]
            /\ Record(c, Len(works) + 1)
            /\ Reply(c, "ok", [id |-> Len(works) + 1, rev |-> 1, state |-> "ready"], <<>>)
            /\ UNCHANGED consents

FollowupTask(c) ==
    LET w == works[c.task] IN
    /\ c.kind = "follow"
    /\ IF Recorded(c) THEN Reply(c, "ok", Row(c.task), <<>>) /\ UNCHANGED <<talk, works, consents, onRecord>>
       ELSE IF c.rev # w.rev \/ w.state # "ready" THEN Refuse(c)
       ELSE /\ Changed(c.task, [w EXCEPT !.rev = @ + 1, !.words = w.rev + 1])
            /\ Record(c, c.task)
            /\ Reply(c, "ok", [id |-> c.task, rev |-> w.rev + 1, state |-> w.state], <<>>)
            /\ UNCHANGED <<talk, consents>>

PreviewStep(c) ==
    /\ c.kind = "preview"
    /\ IF works[c.task].state # "ready" THEN Refuse(c)
       ELSE /\ Reply(c, "ok", Row(c.task), Fingerprint(c.task, c.what[1]))
            /\ UNCHANGED <<talk, works, consents, onRecord>>

\* Mutant: the quote displayed is not compared with the one approved.
SameQuote_Unchecked(c) == TRUE

\* approve_step: "displayed execution quote changed".
SameQuote(c) == c.what = Fingerprint(c.task, c.what[4])

\* The row of a review is named by its key: asked again, it is the same one.
ApproveStep(c) ==
    LET w == works[c.task]
        quote == Fingerprint(c.task, c.what[4])
        Mine == {i \in DOMAIN consents : consents[i].key = c.key}
        Agreed(i) == Reply(c, "ok", Row(c.task), <<i>>)
    IN
    /\ c.kind = "approve"
    /\ IF c.rev # w.rev \/ w.state # "ready" \/ ~SameQuote(c) THEN Refuse(c)
       ELSE IF Mine # {}
       THEN \E i \in Mine :
              IF consents[i].expired \/ consents[i].what # quote \/ consents[i].rev # w.rev THEN Refuse(c)
              ELSE Agreed(i) /\ UNCHANGED <<talk, works, consents, onRecord>>
       ELSE /\ consents' = Append(consents, [what |-> quote, rev |-> w.rev, expired |-> FALSE, key |-> c.key])
            /\ Agreed(Len(consents) + 1)
            /\ UNCHANGED <<talk, works, onRecord>>

\* validate_review
Valid(i, t, quote) == ~consents[i].expired /\ consents[i].what = quote /\ consents[i].rev = works[t].rev

AdmitStep(c) ==
    LET w == works[c.task]
        i == c.what[1]
        quote == Fingerprint(c.task, c.what[2])
    IN
    /\ c.kind = "admit"
    /\ IF w.parent # 0
       THEN IF w.parent = i /\ w.on = quote /\ c.rev = consents[i].rev
            THEN Reply(c, "ok", Row(c.task), <<>>) /\ UNCHANGED <<talk, works, consents, onRecord>>
            ELSE Refuse(c)
       ELSE IF c.rev # w.rev \/ w.state # "ready" \/ ~Valid(i, c.task, quote) THEN Refuse(c)
       ELSE /\ Changed(c.task, [w EXCEPT !.rev = @ + 1, !.state = "queued", !.parent = i, !.on = quote])
            /\ Reply(c, "ok", Row(c.task), <<>>)
            /\ UNCHANGED <<talk, consents, onRecord>>

CancelTask(c) ==
    LET w == works[c.task] IN
    /\ c.kind = "cancel"
    /\ IF Recorded(c) THEN Reply(c, "ok", Row(c.task), <<>>) /\ UNCHANGED <<talk, works, consents, onRecord>>
       ELSE IF c.rev # w.rev THEN Refuse(c)
       ELSE /\ IF w.state = "cancelled" THEN UNCHANGED works
               ELSE Changed(c.task, [w EXCEPT !.rev = @ + 1, !.state = "cancelled"])
            /\ Record(c, c.task) /\ Reply(c, "ok", Row(c.task), <<>>)
            /\ UNCHANGED <<talk, consents>>

Serve(c) ==
    /\ c.reply = "none"
    /\ IF ~talk.open THEN Reply(c, "denied", NoRow, <<>>) /\ UNCHANGED <<talk, works, consents, onRecord>>
       ELSE \/ ServeRead(c) \/ ServeThread(c) \/ CreateTask(c) \/ FollowupTask(c)
            \/ PreviewStep(c) \/ ApproveStep(c) \/ AdmitStep(c) \/ CancelTask(c)
    /\ UNCHANGED <<costing, panel, keptDraft, keyring, pressed, ration>>

----------------------------------------------------------------------------
(* Answers.                                                                *)

Mounted(c) == panel.open /\ c.to = panel.mount
Current(c) == Mounted(c) /\ c.epoch = panel.epoch
Chained(c, kind, task, what) == Waiting(kind, task, 0, what, c.to, c.epoch, 30 + c.n, 0)
Released == [panel EXCEPT !.busy = FALSE]
Resolved(c) == keyring' = IF c.reply = "ok" THEN {i \in keyring : i.key # c.key} ELSE keyring

\* What the answer of the current selection's action does; the lock is held
\* until the read that follows it has been answered too.
Applied(c) ==
    CASE c.kind = "list" -> IF c.row.id # 0 /\ panel.epoch = 0 THEN [panel EXCEPT !.sel = c.row.id, !.row = c.row] ELSE panel
      [] c.kind = "read" -> [IF c.what = Latest THEN Cleared(Released) ELSE Released EXCEPT !.row = c.row]
      [] c.kind = "thread" -> [Released EXCEPT !.thread = c.row.rev]
      [] c.kind = "start" -> [panel EXCEPT !.sel = c.row.id, !.row = c.row, !.text = 0]
      [] c.kind = "follow" -> [Cleared(Released) EXCEPT !.row = c.row, !.text = 0]
      [] c.kind = "preview" -> [Released EXCEPT !.cost = [what |-> c.got, rev |-> c.row.rev], !.consent = NoConsent]
      [] c.kind = "approve" -> [Released EXCEPT !.consent = [id |-> c.got[1], rev |-> c.row.rev]]
      [] c.kind = "admit" -> Cleared(panel)
      [] OTHER -> panel

Follows(c) ==
    CASE c.kind = "start" -> {Chained(c, "thread", 0, <<>>)}
      [] c.kind \in {"admit", "cancel"} -> {Chained(c, "read", c.task, Again)}
      [] OTHER -> {}

\* An answer that nothing waits for still ends its intent; that of an
\* admission clears what is on the screen whatever is selected by then.
ReceiveOk(c) ==
    /\ c.reply = "ok" /\ Resolved(c)
    /\ live' = (live \ {c}) \cup IF Current(c) THEN Follows(c) ELSE {}
    /\ panel' = IF c.kind = "select"
                THEN IF Mounted(c) /\ panel.sel = c.task THEN [panel EXCEPT !.row = c.row, !.text = 0] ELSE panel
                ELSE IF Current(c) \/ (c.kind = "list" /\ Mounted(c)) THEN Applied(c)
                ELSE IF c.kind = "admit" /\ Mounted(c) THEN Cleared(panel) ELSE panel
    /\ UNCHANGED <<Server, keptDraft, pressed, ration>>

\* A stale task is read again and its cost forgotten.
ReceiveStale(c) ==
    LET again == c.task # 0 /\ Current(c) IN
    /\ c.reply = "stale" /\ Resolved(c)
    /\ live' = (live \ {c}) \cup IF again THEN {Chained(c, "read", c.task, Latest)} ELSE {}
    /\ panel' = IF Current(c) /\ ~again THEN Released ELSE panel
    /\ UNCHANGED <<Server, keptDraft, pressed, ration>>

\* Access is gone: nothing of the discussion stays, and nothing more is sent.
ReceiveDenied(c) ==
    /\ c.reply = "denied" /\ Resolved(c)
    /\ live' = live \ {c}
    /\ panel' = IF Current(c) /\ c.kind \notin {"list", "select"}
                THEN [Released EXCEPT !.row = NoRow, !.revoked = TRUE] ELSE panel
    /\ UNCHANGED <<Server, keptDraft, pressed, ration>>

\* No answer comes, whatever the server makes of the request.
LoseAnswer(c) ==
    /\ c.to # 0 /\ Upset
    /\ live' = (live \ {c}) \cup IF c.reply = "none" /\ c.kind \notin {"list", "read", "select", "thread"}
                                THEN {[c EXCEPT !.to = 0]} ELSE {}
    /\ panel' = IF Current(c) /\ c.kind \notin {"list", "select"} THEN Released ELSE panel
    /\ UNCHANGED <<Server, keptDraft, keyring, pressed>>

----------------------------------------------------------------------------
(* Everybody else.                                                         *)

ColleagueFollowsUp ==
    /\ Upset
    /\ \E t \in DOMAIN works :
         /\ works[t].state = "ready"
         /\ Changed(t, [works[t] EXCEPT !.rev = @ + 1, !.words = works[t].rev + 1])
    /\ UNCHANGED <<talk, costing, consents, onRecord, panel, keptDraft, keyring, live, pressed>>

ColleagueCancels ==
    /\ Upset
    /\ \E t \in DOMAIN works :
         /\ works[t].state # "cancelled"
         /\ Changed(t, [works[t] EXCEPT !.rev = @ + 1, !.state = "cancelled"])
    /\ UNCHANGED <<talk, costing, consents, onRecord, panel, keptDraft, keyring, live, pressed>>

\* The registration of the model, its price or the project's market changes.
CostingChanges ==
    /\ costing < MaxCosting
    /\ costing' = costing + 1
    /\ UNCHANGED <<talk, works, consents, onRecord, panel, keptDraft, keyring, live, pressed, ration>>

ConsentExpires ==
    /\ Upset
    /\ \E i \in DOMAIN consents : ~consents[i].expired /\ consents' = [consents EXCEPT ![i].expired = TRUE]
    /\ UNCHANGED <<talk, works, costing, onRecord, panel, keptDraft, keyring, live, pressed>>

AccessEnds ==
    /\ talk.open /\ Upset
    /\ talk' = [talk EXCEPT !.open = FALSE]
    /\ UNCHANGED <<works, costing, consents, onRecord, panel, keptDraft, keyring, live, pressed>>

GuidedNext ==
    \/ Type \/ Start \/ FollowUp \/ Refresh \/ ModelPreview \/ Approve \/ Admit \/ Cancel
    \/ Choose \/ (\E t \in DOMAIN works : SelectTask(t)) \/ Leave \/ Return
    \/ \E c \in live : Serve(c) \/ ReceiveOk(c) \/ ReceiveStale(c) \/ ReceiveDenied(c) \/ LoseAnswer(c)
    \/ ColleagueFollowsUp \/ ColleagueCancels \/ CostingChanges \/ ConsentExpires \/ AccessEnds

GuidedSpec == GuidedInit /\ [][GuidedNext]_guidedVars

----------------------------------------------------------------------------
(* Properties.                                                             *)

\* Type invariant: tasks, approvals and the screen stay within their bounds,
\* and an admitted task names an approval there is.
GuidedTypeOK ==
    /\ \A t \in DOMAIN works : /\ works[t].rev \in 1 .. MaxRevision /\ works[t].words \in 1 .. works[t].rev
                               /\ works[t].state \in {"ready", "queued", "cancelled"}
                               /\ works[t].parent \in 0 .. Len(consents)
    /\ panel.row.id \in 0 .. Len(works) /\ panel.consent.id \in 0 .. Len(consents)
    /\ costing \in 1 .. MaxCosting

\* Paid work starts only at the cost, and on the words, that were on the
\* screen of a task when its person approved them and again when the start was
\* pressed: a follow-up of a colleague, a new registration, an approval that
\* has run out, another task chosen or an answer that comes late never let an
\* approval pass for something else (execution/sales_tasks.py: "displayed
\* execution quote changed").
WorkIsAsApproved ==
    /\ \A i \in DOMAIN consents : <<"approve", consents[i].what[1], consents[i].what>> \in pressed
    /\ \A t \in DOMAIN works :
         works[t].parent # 0 => /\ works[t].on = consents[works[t].parent].what
                                /\ works[t].on[1] = t /\ works[t].on[2] = works[t].words
                                /\ <<"start", t, works[t].on>> \in pressed
====
