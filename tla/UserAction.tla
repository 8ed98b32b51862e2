---- MODULE UserAction ----
(***************************************************************************)
(* One user action from the button to the committed row and back: the      *)
(* browser keeps an idempotency key per exact request body and remembers   *)
(* that an outcome is unknown, the API inserts the key, mutates and stores *)
(* the response in one transaction, and a scope change, a lost response or *)
(* a renewed token may come between any two steps.  The action is          *)
(* "startRun"; the other mutations use the same two halves.                *)
(***************************************************************************)
EXTENDS Naturals, FiniteSets

CONSTANTS Scopes,     \* mode, actor, workspace and project the user moves between
          Bodies,     \* request bodies that may be chosen
          Surfaces,   \* mounted controls that start research: "run" and "conversation"
          MaxSends,   \* bound: HTTP requests of one exploration
          MaxMoves    \* bound: scope changes of one exploration

VARIABLES session,    \* SessionScope: current scope and generation
          records,    \* researchIntents: at most one record per scope
          sends,      \* one entry per call of startRun
          keys,       \* idempotency_records that are committed, with their request hash
          decided,    \* sends the user saw the answer of or gave up explicitly
          crossed     \* ghost: sends that were under way at once with different keys

userVars == <<session, records, sends, keys, decided, crossed>>

Sends == 1 .. MaxSends
Started == {f \in Sends : sends[f].client # "unused"}
Waiting == {f \in Sends : sends[f].client = "waiting"}

NoIntent == [id |-> 0, body |-> "none", key |-> 0, uncertain |-> FALSE, pending |-> FALSE]
NoSend == [client |-> "unused", server |-> "none", answer |-> "none", scope |-> "none",
           body |-> "none", key |-> 0, intent |-> 0, generation |-> 0,
           disprovable |-> FALSE, renewed |-> FALSE]

UserInit ==
    /\ session \in [scope : Scopes, generation : {0}]
    /\ records = [s \in Scopes |-> NoIntent]
    /\ sends = [f \in Sends |-> NoSend]
    /\ keys = [k \in Sends |-> "none"]
    /\ decided = {}
    /\ crossed = {}

UserTypeOK ==
    /\ session \in [scope : Scopes, generation : 0 .. MaxMoves]
    /\ records \in [Scopes -> [id : {0} \cup Sends, body : Bodies \cup {"none"},
                               key : {0} \cup Sends, uncertain : BOOLEAN, pending : BOOLEAN]]
    /\ \A f \in Sends :
         /\ sends[f].client \in {"unused", "waiting", "shown", "failed"}
         /\ sends[f].server \in {"none", "sent", "inserting", "working", "committed", "over"}
         /\ sends[f].answer \in {"none", "data", "conflict", "refused", "unauthorized"}
    /\ keys \in [Sends -> Bodies \cup {"none"}]
    /\ decided \subseteq Sends
    /\ crossed \subseteq Started

----------------------------------------------------------------------------
(* The browser.                                                            *)

\* ActionIntent: a key per body, kept until its request succeeds.
KeyOf(record, body, fresh) ==
    IF record.key # 0 /\ record.body = body THEN record.key ELSE fresh

RecordOf(s, f) == IF records[s].id = 0 THEN [NoIntent EXCEPT !.id = f] ELSE records[s]

\* "A later refusal cannot disprove acceptance of an earlier ambiguous request."
MayDisprove(surface, record) == surface = "conversation" /\ ~record.uncertain

\* A control is pressed.  It ignores presses while its own request is under way;
\* the other control does not, nor does the same one mounted again: what decides
\* is the record.  An uncertain one is sent again, or another body is refused.
Start(surface, body, f) ==
    LET s == session.scope
        record == RecordOf(s, f)
        key == KeyOf(record, body, f)
    IN
    /\ sends[f].client = "unused" /\ \A g \in Sends : g < f => g \in Started
    /\ record.uncertain => body = record.body
    /\ ~\E g \in Waiting : sends[g].key = key
    /\ records' = [records EXCEPT ![s] = [record EXCEPT !.body = body, !.key = key, !.pending = TRUE]]
    /\ sends' = [sends EXCEPT ![f] =
                   [NoSend EXCEPT !.client = "waiting", !.server = "sent", !.scope = s,
                      !.body = body, !.key = key, !.intent = record.id,
                      !.generation = session.generation,
                      !.disprovable = MayDisprove(surface, record)]]
    /\ crossed' = IF Waiting = {} THEN crossed ELSE crossed \cup Waiting \cup {f}
    /\ UNCHANGED <<session, keys, decided>>

\* A press for the request under way waits for its answer; none is sent.
Share(surface, f) ==
    LET record == records[session.scope] IN
    /\ f \in Waiting /\ record.key = sends[f].key
    /\ sends' = [sends EXCEPT ![f].disprovable = @ \/ MayDisprove(surface, record)]
    /\ UNCHANGED <<session, records, keys, decided, crossed>>

\* A record that was replaced or deleted meanwhile is written by nobody's eyes.
Owns(f) == records[sends[f].scope].id = sends[f].intent
Failed(f, record) == [record EXCEPT !.uncertain = TRUE, !.pending = FALSE]

\* The response is shown: the intent is over.
Succeed(f) ==
    /\ f \in Waiting /\ sends[f].answer = "data"
    /\ sends' = [sends EXCEPT ![f].client = "shown"]
    /\ records' = IF Owns(f) THEN [records EXCEPT ![sends[f].scope] = NoIntent] ELSE records
    /\ decided' = decided \cup {f}
    /\ UNCHANGED <<session, keys, crossed>>

\* Mutant: every refusal the policy or the budget gives ends the intent.
Disproves_AnyRefusal(f) == sends[f].answer = "refused"

\* A refusal of the first attempt proves that nothing was started.
Disproves(f) == sends[f].answer = "refused" /\ sends[f].disprovable

\* An error response, a response that is lost, or the deadline of the request.  A
\* refusal that disproves resets the scope's record, unless that one is pending.
Fail(f) ==
    LET s == sends[f].scope
        own == [records EXCEPT ![s] = IF Owns(f) THEN Failed(f, @) ELSE @]
    IN
    /\ f \in Waiting
    /\ sends' = [sends EXCEPT ![f].client = "failed"]
    /\ records' = IF Disproves(f) /\ ~own[s].pending THEN [own EXCEPT ![s] = NoIntent] ELSE own
    /\ UNCHANGED <<session, keys, decided, crossed>>

\* Leaving a scope aborts its requests; their records stay, by scope.
Move(s) ==
    LET aborted == Waiting
    IN
    /\ session.generation < MaxMoves
    /\ session' = [scope |-> s, generation |-> session.generation + 1]
    /\ sends' = [f \in Sends |-> IF f \in aborted THEN [sends[f] EXCEPT !.client = "failed"]
                                 ELSE sends[f]]
    /\ records' = [t \in Scopes |->
                     IF \E f \in aborted : sends[f].scope = t /\ Owns(f)
                     THEN [records[t] EXCEPT !.uncertain = TRUE, !.pending = FALSE] ELSE records[t]]
    /\ UNCHANGED <<keys, decided, crossed>>

\* The user confirms that the earlier research may exist and starts a new intent.
Reset ==
    LET s == session.scope IN
    /\ records[s].uncertain /\ ~records[s].pending
    /\ records' = [records EXCEPT ![s] = NoIntent]
    /\ decided' = decided \cup {f \in Started : sends[f].scope = s}
    /\ UNCHANGED <<session, sends, keys, crossed>>

----------------------------------------------------------------------------
(* The API: one transaction per request.                                   *)

\* A record answers its own request; another body under the key is a conflict.
Resolved(f) == IF keys[sends[f].key] = sends[f].body THEN "data" ELSE "conflict"

Answer(f, answer) == [sends EXCEPT ![f].server = IF answer = "data" /\ sends[f].server = "working"
                                                 THEN "committed" ELSE "over",
                                   ![f].answer = answer]

\* An expired token is refused before anything happens.  The client renews it
\* and sends the same request once more, or signs out.
Unauthorized(f) ==
    /\ sends[f].server = "sent"
    /\ sends' = Answer(f, "unauthorized")
    /\ UNCHANGED <<session, records, keys, decided, crossed>>

Renew(f) ==
    /\ f \in Waiting /\ sends[f].answer = "unauthorized" /\ ~sends[f].renewed
    /\ sends' = [sends EXCEPT ![f].server = "sent", ![f].answer = "none", ![f].renewed = TRUE]
    /\ UNCHANGED <<session, records, keys, decided, crossed>>

\* The key is looked up; a record is answered from, no record is inserted.
Lookup(f) ==
    /\ sends[f].server = "sent"
    /\ sends' = IF keys[sends[f].key] # "none" THEN Answer(f, Resolved(f))
                ELSE [sends EXCEPT ![f].server = "inserting"]
    /\ UNCHANGED <<session, records, keys, decided, crossed>>

\* Mutant: the table has no unique constraint.
Unblocked_Always(f) == TRUE

\* The unique index makes an insert wait for the transaction that holds the key.
Unblocked(f) == ~\E g \in Sends : sends[g].server = "working" /\ sends[g].key = sends[f].key

\* The insert succeeds, or loses to a record committed since the lookup.
Insert(f) ==
    /\ sends[f].server = "inserting"
    /\ Unblocked(f)
    /\ sends' = IF keys[sends[f].key] # "none" THEN Answer(f, Resolved(f))
                ELSE [sends EXCEPT ![f].server = "working"]
    /\ UNCHANGED <<session, records, keys, decided, crossed>>

\* The run, its intent and the completed record are committed together.
Commit(f) ==
    /\ sends[f].server = "working"
    /\ sends' = Answer(f, "data")
    /\ keys' = [keys EXCEPT ![sends[f].key] = sends[f].body]
    /\ UNCHANGED <<session, records, decided, crossed>>

\* A gate refuses, or the transaction dies: nothing of it remains.
Rollback(f, answer) ==
    /\ sends[f].server = "working"
    /\ sends' = Answer(f, answer)
    /\ UNCHANGED <<session, records, keys, decided, crossed>>

UserNext ==
    \/ \E surface \in Surfaces, body \in Bodies, f \in Sends : Start(surface, body, f)
    \/ \E surface \in Surfaces, f \in Sends : Share(surface, f)
    \/ \E f \in Sends : Succeed(f)
    \/ \E f \in Sends : Fail(f)
    \/ \E s \in Scopes : Move(s)
    \/ Reset
    \/ \E f \in Sends : Unauthorized(f)
    \/ \E f \in Sends : Renew(f)
    \/ \E f \in Sends : Lookup(f)
    \/ \E f \in Sends : Insert(f)
    \/ \E f \in Sends : Commit(f)
    \/ \E f \in Sends, answer \in {"refused", "none"} : Rollback(f, answer)

UserSpec == UserInit /\ [][UserNext]_userVars

----------------------------------------------------------------------------
(* Properties.                                                             *)

CommittedRuns == {f \in Sends : sends[f].server = "committed"}

\* However often a request is repeated, by the user, after a renewed token or
\* while an earlier copy is still under way, its key commits one run, and a
\* response that is shown is that of the run its own body started.
OneRunPerKey ==
    /\ \A f, g \in CommittedRuns : sends[f].key = sends[g].key => f = g
    /\ \A f \in Sends : sends[f].answer = "data" =>
         \E g \in CommittedRuns : sends[g].key = sends[f].key /\ sends[g].body = sends[f].body

\* "The result is unknown ... its key is retained": a run that was committed
\* while the user neither saw it nor gave the intent up has a request that is
\* still waiting, or its key is held by the scope's record, marked uncertain,
\* so that the next attempt replays it rather than starting a second run.  The
\* exception are requests with different bodies under way at once: another body
\* is refused while the record is uncertain and taken while it is pending, and
\* the two then overwrite and delete each other's record.
UnknownRunIsKept ==
    \A f \in CommittedRuns \ crossed :
        LET record == records[sends[f].scope]
            SameKey(g) == sends[g].key = sends[f].key
        IN \/ \E g \in decided \cup Waiting : SameKey(g)
           \/ record.key = sends[f].key /\ record.uncertain

\* An action runs once: its key commits one run through repeats and renewed
\* tokens, and a run whose answer was lost is found again by its key, from any
\* control, unless requests for different bodies crossed.
ActionRunsOnce == OneRunPerKey /\ UnknownRunIsKept
====
