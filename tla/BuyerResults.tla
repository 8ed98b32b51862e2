---- MODULE BuyerResults ----
(***************************************************************************)
(* The table of a project's buyers: its list is a snapshot the server has  *)
(* frozen, its page shows the versions the buyers have when it is read,    *)
(* and what the person picks of it is given to an owner or reviewed in one *)
(* request.  An assignment without an answer stays frozen in the session's *)
(* memory, through moves to other projects, until its retry has one; the   *)
(* key of a review lives as long as the table.  Of the rows one is kept;   *)
(* the server treats each of them alike.                                   *)
(***************************************************************************)
EXTENDS Naturals, Sequences, Functions, FiniteSets

CONSTANTS Sittings,     \* owners and verdicts to be given; bounds: snapshots, requests, and
                        \* failed reads, lost answers, edits by others, expiries, changes of role
          MaxVersion,   \* bound: versions of the buyer
          MaxConfirmed, \* bound: assignments and reviews confirmed
          MaxMoves      \* bound: moves to another project and back

VARIABLES card,        \* the buyer on the server: version, owner and review
          frozenLists, \* buyer_snapshots with the version of the row
          mayWrite,    \* the person's current role allows both operations
          outcomes,    \* idempotency records: key to the stored answer
          written,     \* history: what each confirmation has changed
          table,       \* the mounted table
          recovery,    \* what the session remembers per scope: pending and the keys
          asks,        \* per operation the call the table waits for and its report
          onWire,      \* requests that the server may still execute
          tally        \* the sitting, and its confirmations, attempts, moves and troubles so far

resultsVars == <<card, frozenLists, mayWrite, outcomes, written, table, recovery, asks, onWire, tally>>

Kinds == {"assign", "review"}
Nothing == [target |-> "none", rows |-> <<"none", 0>>, n |-> 0]
NoIntent == [of |-> <<"none", <<"none", 0>>>>, key |-> 0]
Silent == [attempt |-> 0, of |-> Nothing, reply |-> "none", report |-> "none", doubt |-> Nothing]
Away == [open |-> FALSE, list |-> 0, page |-> 0, picked |-> 0, all |-> FALSE, reading |-> "none"]
Loading == [Away EXCEPT !.open = TRUE, !.reading = "snapshot"]

ResultsInit ==
    /\ card = [version |-> 1, has |-> [k \in Kinds |-> "none"]]
    /\ frozenLists = <<>> /\ mayWrite = TRUE /\ outcomes = <<>> /\ written = {}
    /\ table = Loading
    /\ recovery = [pending |-> Nothing, intents |-> [k \in Kinds |-> NoIntent]]
    /\ asks = [k \in Kinds |-> Silent]
    /\ onWire = {}
    /\ \E s \in Sittings : tally = [sitting |-> s, confirmed |-> 0, attempts |-> 0, moves |-> 0, troubles |-> 0]

Untroubled == tally.troubles < tally.sitting.troubles /\ tally' = [tally EXCEPT !.troubles = @ + 1]

----------------------------------------------------------------------------
(* The table.                                                              *)

\* createBuyerSnapshot freezes the rows of the filters; the page comes next.
ReceiveSnapshot ==
    /\ table.reading = "snapshot" /\ Len(frozenLists) < tally.sitting.lists
    /\ frozenLists' = Append(frozenLists, [version |-> card.version, expired |-> FALSE])
    /\ table' = [table EXCEPT !.list = Len(frozenLists) + 1, !.reading = "page"]
    /\ UNCHANGED <<card, mayWrite, outcomes, written, recovery, asks, onWire, tally>>

\* loadBuyerPage: the order of the snapshot, the rows as they are now.
ReceivePage ==
    /\ table.reading = "page"
    /\ table' = [table EXCEPT !.reading = "none",
                   !.page = IF frozenLists[table.list].expired THEN 0 ELSE card.version]
    /\ UNCHANGED <<card, frozenLists, mayWrite, outcomes, written, recovery, asks, onWire, tally>>

FailRead ==
    /\ table.reading # "none" /\ Untroubled
    /\ table' = [table EXCEPT !.reading = "none", !.page = 0]
    /\ UNCHANGED <<card, frozenLists, mayWrite, outcomes, written, recovery, asks, onWire>>

\* Filters, "Refresh results" and a committed write take a new snapshot: what
\* was picked is cleared, and answers of the earlier reads are ignored.
Refresh ==
    /\ table.open /\ table.reading = "none"
    /\ table' = Loading
    /\ UNCHANGED <<card, frozenLists, mayWrite, outcomes, written, recovery, asks, onWire, tally>>

Pick ==
    /\ table.page # 0
    /\ \E all \in BOOLEAN :
         table' = [table EXCEPT !.all = all, !.picked = IF all THEN 0 ELSE table.page]
    /\ table' # table
    /\ UNCHANGED <<card, frozenLists, mayWrite, outcomes, written, recovery, asks, onWire, tally>>

Unpick ==
    /\ table.all \/ table.picked # 0
    /\ table' = [table EXCEPT !.all = FALSE, !.picked = 0]
    /\ UNCHANGED <<card, frozenLists, mayWrite, outcomes, written, recovery, asks, onWire, tally>>

Chosen == IF table.list = 0 THEN <<"none", 0>>
          ELSE IF table.all THEN <<"snapshot", table.list>>
          ELSE IF table.picked # 0 THEN <<"explicit", table.picked>> ELSE <<"none", 0>>

\* The table of another project replaces this one: calls are aborted, but the
\* server may have them already, and the session keeps the assignment in doubt.
Leave ==
    /\ table.open /\ tally.moves < MaxMoves
    /\ table' = Away
    /\ asks' = [k \in Kinds |-> Silent]
    /\ recovery' = [recovery EXCEPT !.intents["review"] = NoIntent]
    /\ tally' = [tally EXCEPT !.moves = @ + 1]
    /\ UNCHANGED <<card, frozenLists, mayWrite, outcomes, written, onWire>>

Return ==
    /\ ~table.open
    /\ table' = Loading
    /\ UNCHANGED <<card, frozenLists, mayWrite, outcomes, written, recovery, asks, onWire, tally>>

----------------------------------------------------------------------------
(* Confirmed requests.                                                     *)

Waiting(k) == asks[k].attempt # 0

\* Mutant: every attempt has a key of its own.
KeyOf_Attempt(k, preview) == tally.attempts + 1

\* ActionIntent: an attempt at what the current intent says has its key.
KeyOf(k, preview) ==
    LET current == recovery.intents[k] IN
    IF current.of = <<preview.target, preview.rows>> THEN current.key ELSE tally.attempts + 1

\* One attempt: the request goes out, and the call awaits its answer.
Send(k, preview) ==
    LET key == KeyOf(k, preview) IN
    /\ tally.attempts < tally.sitting.attempts
    /\ tally' = [tally EXCEPT !.attempts = @ + 1, !.confirmed = IF preview.n > @ THEN preview.n ELSE @]
    /\ recovery' = [intents |-> [recovery.intents EXCEPT ![k] =
                                   [of |-> <<preview.target, preview.rows>>, key |-> key]],
                    pending |-> IF k = "assign" THEN preview ELSE recovery.pending]
    /\ asks' = [asks EXCEPT ![k] = [Silent EXCEPT !.attempt = tally.attempts + 1, !.of = preview]]
    /\ onWire' = onWire \cup {[kind |-> k, preview |-> preview, key |-> key, attempt |-> tally.attempts + 1]}
    /\ UNCHANGED <<card, frozenLists, mayWrite, outcomes, written, table>>

Confirmation(target) == [target |-> target, rows |-> Chosen, n |-> tally.confirmed + 1]

\* An assignment that is pending locks the form: nothing else may be assigned.
Assign(target) ==
    /\ table.open /\ ~Waiting("assign") /\ recovery.pending = Nothing
    /\ Chosen[1] # "none" /\ tally.confirmed < MaxConfirmed
    /\ Send("assign", Confirmation(target))

RetryAssignment ==
    /\ table.open /\ ~Waiting("assign") /\ recovery.pending # Nothing
    /\ Send("assign", recovery.pending)

\* submitReview; the same review after an unknown result is its retry.
Review(target) ==
    LET doubt == asks["review"].doubt
        again == doubt.target = target /\ doubt.rows = Chosen
    IN
    /\ table.open /\ ~Waiting("review") /\ Chosen[1] # "none"
    /\ again \/ tally.confirmed < MaxConfirmed
    /\ Send("review", IF again THEN doubt ELSE Confirmation(target))

----------------------------------------------------------------------------
(* The server.                                                             *)

\* The version a request expects of the row, by its selection.
Expected(rows) == IF rows[1] = "snapshot" THEN frozenLists[rows[2]].version ELSE rows[2]
Unresolved(rows) == rows[1] = "snapshot" /\ frozenLists[rows[2]].expired

Judged(k, preview) ==
    IF card.version # Expected(preview.rows) THEN "conflict"
    ELSE IF card.has[k] = preview.target THEN "unchanged" ELSE "updated"

\* The handlers of both operations: role, then a stored answer, then the rows.
Answer(r) ==
    IF ~mayWrite THEN "refused"
    ELSE IF r.key \in DOMAIN outcomes THEN outcomes[r.key]
    ELSE IF Unresolved(r.preview.rows) THEN "refused"
    ELSE Judged(r.kind, r.preview)

Serve(r) ==
    LET answer == Answer(r)
        first == answer # "refused" /\ r.key \notin DOMAIN outcomes
        writes == first /\ answer = "updated"
    IN
    /\ writes => card.version < MaxVersion
    /\ onWire' = onWire \ {r}
    /\ outcomes' = IF first THEN [x \in DOMAIN outcomes \cup {r.key} |->
                                    IF x = r.key THEN answer ELSE outcomes[x]] ELSE outcomes
    /\ card' = IF writes THEN [version |-> card.version + 1, has |-> [card.has EXCEPT ![r.kind] = r.preview.target]]
               ELSE card
    /\ written' = IF writes THEN written \cup {[kind |-> r.kind, preview |-> r.preview, version |-> card.version]}
                  ELSE written
    /\ asks' = IF asks[r.kind].attempt = r.attempt THEN [asks EXCEPT ![r.kind].reply = answer] ELSE asks
    /\ UNCHANGED <<frozenLists, mayWrite, table, recovery, tally>>

----------------------------------------------------------------------------
(* Answers.                                                                *)

\* A definite answer ends the intent; a refusal keeps its key, and both let go
\* of the pending assignment.  Updated rows make the table load again.
Receive(k) ==
    LET call == asks[k]
        refused == call.reply = "refused"
    IN
    /\ call.reply # "none"
    /\ asks' = [asks EXCEPT ![k] = [Silent EXCEPT !.of = call.of, !.report = call.reply]]
    /\ recovery' = [pending |-> IF k = "assign" THEN Nothing ELSE recovery.pending,
                    intents |-> IF refused THEN recovery.intents ELSE [recovery.intents EXCEPT ![k] = NoIntent]]
    /\ table' = IF call.reply = "updated" THEN Loading ELSE table
    /\ UNCHANGED <<card, frozenLists, mayWrite, outcomes, written, onWire, tally>>

\* reviewOneAndNext: the row on the page takes the version of its answer.
ReviewNext(k) ==
    /\ k = "review" /\ asks[k].reply = "updated" /\ asks[k].of.rows[1] = "explicit" /\ table.page # 0
    /\ asks' = [asks EXCEPT ![k] = [Silent EXCEPT !.of = asks[k].of, !.report = "updated"]]
    /\ recovery' = [recovery EXCEPT !.intents[k] = NoIntent]
    /\ table' = [table EXCEPT !.page = asks[k].of.rows[2] + 1, !.picked = 0, !.all = FALSE]
    /\ UNCHANGED <<card, frozenLists, mayWrite, outcomes, written, onWire, tally>>

\* The call fails without an answer, whatever the server makes of it.
LoseAnswer(k) ==
    /\ Waiting(k) /\ Untroubled
    /\ asks' = [asks EXCEPT ![k] = [Silent EXCEPT !.doubt = asks[k].of]]
    /\ UNCHANGED <<card, frozenLists, mayWrite, outcomes, written, table, recovery, onWire>>

----------------------------------------------------------------------------
(* Everybody else.                                                         *)

EditBuyer ==
    /\ card.version < MaxVersion /\ Untroubled
    /\ card' = [version |-> card.version + 1, has |-> [k \in Kinds |-> "none"]]
    /\ UNCHANGED <<frozenLists, mayWrite, outcomes, written, table, recovery, asks, onWire>>

ExpireSnapshot ==
    /\ Untroubled
    /\ \E i \in DOMAIN frozenLists :
         ~frozenLists[i].expired /\ frozenLists' = [frozenLists EXCEPT ![i].expired = TRUE]
    /\ UNCHANGED <<card, mayWrite, outcomes, written, table, recovery, asks, onWire>>

ChangeRole ==
    /\ Untroubled
    /\ mayWrite' = ~mayWrite
    /\ UNCHANGED <<card, frozenLists, outcomes, written, table, recovery, asks, onWire>>

ResultsNext ==
    \/ ReceiveSnapshot \/ ReceivePage \/ FailRead \/ Refresh \/ Pick \/ Unpick \/ Leave \/ Return
    \/ \E o \in tally.sitting.owners : Assign(o)
    \/ RetryAssignment
    \/ \E v \in tally.sitting.verdicts : Review(v)
    \/ \E r \in onWire : Serve(r)
    \/ \E k \in Kinds : Receive(k) \/ ReviewNext(k) \/ LoseAnswer(k)
    \/ EditBuyer \/ ExpireSnapshot \/ ChangeRole

ResultsSpec == ResultsInit /\ [][ResultsNext]_resultsVars

----------------------------------------------------------------------------
(* Properties.                                                             *)

\* Type invariant: versions and snapshots stay within their bounds, and the
\* table shows a page of a snapshot it has.
ResultsTypeOK ==
    /\ card.version \in 1 .. MaxVersion
    /\ table.list \in 0 .. Len(frozenLists) /\ table.page \in 0 .. MaxVersion
    /\ table.page # 0 => table.list # 0
    /\ recovery.pending.target \in tally.sitting.owners \cup {"none"}
    /\ \A k \in Kinds : asks[k].attempt \in 0 .. tally.sitting.attempts

\* What the panel reports of a confirmed assignment or review is what became
\* of it: "updated" only if its exact rows and target were written, a conflict
\* never because of its own earlier attempt, and one confirmation writes the
\* buyer at most once however often it is sent.  A lost answer, a move to
\* another project and back, a role lost in between and an edit by a colleague
\* may come in any order (bulk-actions.tsx: "Retry the same frozen assignment
\* to reconcile").
ReportsAreTrue ==
    /\ \A k \in Kinds :
         LET by == {w \in written : w.kind = k}
             call == asks[k]
         IN /\ call.report = "updated" =>
                 \E w \in by : w.preview.target = call.of.target /\ w.preview.rows = call.of.rows
            /\ call.report = "conflict" => \A w \in by : w.preview.n # call.of.n
    /\ \A v, w \in written : v.preview.n = w.preview.n => v = w
====
