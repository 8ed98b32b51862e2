---- MODULE ManifestScreen ----
(***************************************************************************)
(* The panel of segmented maintenance: it asks for a frozen manifest of    *)
(* the buyers it filters, or of the failed rows of a finished job, shows   *)
(* it, and executes it when the person confirms exactly what is shown.     *)
(* The session remembers per scope the request that was frozen and the     *)
(* keys of its preview and execution; the URL remembers the manifest.      *)
(* Rows are one buyer here; a manifest of more than a hundred rows becomes *)
(* a job, and the failed rows of a job may be a hundred or more.           *)
(***************************************************************************)
EXTENDS Naturals, Sequences

CONSTANTS MaxManifests, \* bound: manifests frozen
          MaxVersion,   \* bound: versions of the buyer
          MaxAttempts,  \* bound: requests sent
          MaxMoves,     \* bound: the page left, or loaded again
          MaxUpsets     \* bound: lost answers, edits, expiries, changes of role

VARIABLES revision,  \* the version of the buyer
          pledges,   \* bulk_manifests
          batches,   \* the jobs of executed manifests
          granted,   \* the current role allows the operation
          receiptsOf,\* idempotency records: key to manifest and what it was for
          desk,      \* the mounted panel, its URL and the job panel beside it
          recall,    \* the session's recovery record of this scope
          posted,    \* requests that the server may still execute
          agreed,    \* history: manifests confirmed, and the keys a person asked under
          spent      \* attempts, moves and upsets so far

manifestVars == <<revision, pledges, batches, granted, receiptsOf, desk, recall, posted, agreed, spent>>

\* What a request may be of: the filters of the table (0) or a job's failed rows.
Nobody == [of |-> 0, key |-> 0]
Forgotten == [frozen |-> FALSE, of |-> 0, preview |-> Nobody, execute |-> Nobody]
Blank == [open |-> TRUE, source |-> 0, restored |-> 0, url |-> 0, shown |-> 0, status |-> "none",
          version |-> 0, pending |-> FALSE, executing |-> FALSE, confirmed |-> FALSE, call |-> 0,
          reply |-> [kind |-> "none", of |-> 0], reading |-> FALSE, job |-> 0, result |-> "none"]

ManifestInit ==
    /\ revision = 1 /\ pledges = <<>> /\ batches = <<>> /\ granted = TRUE /\ receiptsOf = <<>>
    /\ desk = Blank /\ recall = Forgotten /\ posted = {}
    /\ agreed = {} /\ spent = [attempts |-> 0, moves |-> 0, upsets |-> 0]

Upset == spent.upsets < MaxUpsets /\ spent' = [spent EXCEPT !.upsets = @ + 1]
Busy == desk.call # 0
SourceJob == IF desk.source # 0 THEN desk.source ELSE desk.restored

----------------------------------------------------------------------------
(* Requests of the panel.                                                  *)

\* ActionIntent: the same content has the same key until an answer succeeds.
KeyFor(intent, of) == IF intent.key # 0 /\ intent.of = of THEN intent.key ELSE spent.attempts + 1

Post(kind, of, version, key) ==
    /\ spent.attempts < MaxAttempts
    /\ spent' = [spent EXCEPT !.attempts = @ + 1]
    /\ posted' = posted \cup {[kind |-> kind, of |-> of, version |-> version, key |-> key, call |-> spent.attempts + 1]}

\* previewManifest: what the session froze first is what every retry asks for.
Prepare ==
    LET of == IF recall.frozen THEN recall.of ELSE SourceJob
        key == KeyFor(recall.preview, of)
    IN
    /\ desk.open /\ ~Busy /\ desk.shown = 0 /\ (desk.source # 0 => ~desk.reading)
    /\ Post("preview", of, 0, key)
    /\ recall' = [recall EXCEPT !.frozen = TRUE, !.of = of, !.preview = [of |-> of, key |-> key]]
    /\ desk' = [desk EXCEPT !.pending = TRUE, !.call = spent.attempts + 1]
    /\ UNCHANGED <<agreed, revision, pledges, batches, granted, receiptsOf>>

Confirmable == desk.status = "ready" /\ ~pledges[desk.shown].expired

Confirm ==
    /\ desk.open /\ desk.shown # 0 /\ ~Busy /\ Confirmable /\ ~desk.executing /\ ~desk.confirmed
    /\ desk' = [desk EXCEPT !.confirmed = TRUE]
    /\ agreed' = agreed \cup {desk.shown}
    /\ UNCHANGED <<recall, posted, spent, revision, pledges, batches, granted, receiptsOf>>

\* execute: once begun it may be repeated, past the expiry too.
Execute ==
    LET of == <<desk.shown, desk.version>>
        key == KeyFor(recall.execute, of)
    IN
    /\ desk.open /\ desk.shown # 0 /\ ~Busy /\ desk.confirmed /\ (desk.executing \/ Confirmable)
    /\ Post("execute", desk.shown, desk.version, key)
    /\ recall' = [recall EXCEPT !.execute = [of |-> of, key |-> key]]
    /\ desk' = [desk EXCEPT !.executing = TRUE, !.call = spent.attempts + 1]
    /\ UNCHANGED <<agreed, revision, pledges, batches, granted, receiptsOf>>

----------------------------------------------------------------------------
(* The server.                                                             *)

Ended == {"updated", "conflict", "cancelled"}
RetriesOf(j) == {m \in DOMAIN pledges : pledges[m].of = j /\ pledges[m].status = "executed"}
Handled(j) ==
    \E m \in RetriesOf(j) : IF pledges[m].job = 0 THEN pledges[m].result = "updated"
                            ELSE batches[pledges[m].job] \notin {"conflict", "cancelled"}

\* Rows of a source: they failed, and no retry has them or is at them.
Open(j) == j # 0 => batches[j] = "conflict" /\ ~Handled(j)

Reply(r, kind, of) == desk' = IF desk.call = r.call THEN [desk EXCEPT !.reply = [kind |-> kind, of |-> of]] ELSE desk
Remember(r, of) == receiptsOf' = [k \in DOMAIN receiptsOf \cup {r.key} |-> IF k = r.key THEN of ELSE receiptsOf[k]]

Refuse(r) ==
    /\ Reply(r, "refused", 0)
    /\ UNCHANGED <<revision, pledges, batches, receiptsOf>>

Again(r) ==
    /\ granted /\ r.key \in DOMAIN receiptsOf
    /\ Reply(r, r.kind, receiptsOf[r.key])
    /\ UNCHANGED <<revision, pledges, batches, receiptsOf>>

ServePreview(r) ==
    /\ r.kind = "preview" /\ posted' = posted \ {r}
    /\ \/ Again(r)
       \/ (~granted \/ (r.key \notin DOMAIN receiptsOf /\ ~Open(r.of))) /\ Refuse(r)
       \/ /\ granted /\ r.key \notin DOMAIN receiptsOf /\ Open(r.of)
          /\ Len(pledges) < MaxManifests
          /\ pledges' = Append(pledges, [of |-> r.of, expected |-> revision, status |-> "ready",
                                         expired |-> FALSE, result |-> "none", job |-> 0])
          /\ Remember(r, Len(pledges) + 1) /\ Reply(r, "preview", Len(pledges) + 1)
          /\ UNCHANGED <<revision, batches>>
    /\ UNCHANGED <<granted, recall, agreed, spent>>

Executable(r) ==
    LET row == pledges[r.of] IN
    row.status = "ready" /\ ~row.expired /\ r.version = 1 /\ Open(row.of)

Judged(expected) == IF expected = revision THEN "updated" ELSE "conflict"

ServeExecute(r) ==
    LET row == pledges[r.of] IN
    /\ r.kind = "execute" /\ posted' = posted \ {r}
    /\ \/ Again(r)
       \/ (~granted \/ (r.key \notin DOMAIN receiptsOf /\ ~Executable(r))) /\ Refuse(r)
       \/ /\ granted /\ r.key \notin DOMAIN receiptsOf /\ Executable(r)
          /\ Remember(r, r.of) /\ Reply(r, "execute", r.of)
          /\ \/ /\ batches' = Append(batches, "queued")
                /\ pledges' = [pledges EXCEPT ![r.of].status = "executed", ![r.of].job = Len(batches) + 1]
                /\ UNCHANGED revision
             \/ /\ revision < MaxVersion
                /\ pledges' = [pledges EXCEPT ![r.of].status = "executed", ![r.of].result = Judged(row.expected)]
                /\ revision' = IF Judged(row.expected) = "updated" THEN revision + 1 ELSE revision
                /\ UNCHANGED batches
    /\ UNCHANGED <<granted, recall, agreed, spent>>

\* The job of a manifest runs, or was cancelled before it did.
RunJob(j) ==
    /\ batches[j] = "queued" /\ revision < MaxVersion
    /\ \E m \in DOMAIN pledges :
         /\ pledges[m].job = j
         /\ batches' = [batches EXCEPT ![j] = Judged(pledges[m].expected)]
         /\ revision' = IF Judged(pledges[m].expected) = "updated" THEN revision + 1 ELSE revision
    /\ UNCHANGED <<pledges, granted, receiptsOf, desk, recall, posted, agreed, spent>>

CancelJob ==
    /\ desk.open /\ desk.job # 0 /\ batches[desk.job] = "queued"
    /\ batches' = [batches EXCEPT ![desk.job] = "cancelled"]
    /\ UNCHANGED <<revision, pledges, granted, receiptsOf, desk, recall, posted, agreed, spent>>

----------------------------------------------------------------------------
(* Answers on the screen.                                                  *)

Result(m) == IF pledges[m].job = 0 THEN pledges[m].result ELSE "job"
Answered == [desk EXCEPT !.call = 0, !.reply = Blank.reply]

ReceivePreview ==
    /\ desk.reply.kind = "preview"
    /\ desk' = [Answered EXCEPT !.shown = desk.reply.of, !.status = pledges[desk.reply.of].status,
                  !.version = IF pledges[desk.reply.of].status = "ready" THEN 1 ELSE 2,
                  !.pending = FALSE, !.confirmed = FALSE, !.url = desk.reply.of]
    /\ recall' = [recall EXCEPT !.preview = Nobody]
    /\ UNCHANGED <<revision, pledges, batches, granted, receiptsOf, posted, agreed, spent>>

\* After an execution the panel reads again: its manifest or, for a job's
\* failed rows, the manifest of that job.
ReceiveExecute ==
    /\ desk.reply.kind = "execute"
    /\ desk' = [Answered EXCEPT !.result = Result(desk.reply.of), !.executing = FALSE, !.confirmed = FALSE,
                  !.reading = TRUE, !.job = IF pledges[desk.reply.of].job # 0 THEN pledges[desk.reply.of].job ELSE @]
    /\ recall' = [recall EXCEPT !.execute = Nobody]
    /\ UNCHANGED <<revision, pledges, batches, granted, receiptsOf, posted, agreed, spent>>

\* A refusal is shown, and the panel stays in doubt.
ReceiveRefusal ==
    /\ desk.reply.kind = "refused"
    /\ desk' = Answered
    /\ UNCHANGED <<revision, pledges, batches, granted, receiptsOf, recall, posted, agreed, spent>>

LoseAnswer ==
    /\ Busy /\ Upset
    /\ desk' = Answered
    /\ UNCHANGED <<revision, pledges, batches, granted, receiptsOf, recall, posted, agreed>>

\* The read of the URL's manifest restores all that is known of it; that of a
\* source job only fills the form.
ReadManifest ==
    /\ desk.open /\ desk.reading
    /\ IF desk.source # 0 \/ desk.url = 0 THEN desk' = [desk EXCEPT !.reading = FALSE]
       ELSE LET row == pledges[desk.url] IN
            desk' = [desk EXCEPT !.reading = FALSE, !.restored = row.of, !.shown = desk.url, !.status = row.status,
                       !.version = IF row.status = "ready" THEN 1 ELSE 2, !.pending = FALSE,
                       !.executing = FALSE, !.confirmed = FALSE, !.job = IF row.job # 0 THEN row.job ELSE @]
    /\ UNCHANGED <<revision, pledges, batches, granted, receiptsOf, recall, posted, agreed, spent>>

Recheck ==
    /\ desk.open /\ desk.shown # 0 /\ ~Busy /\ ~desk.reading
    /\ desk' = [desk EXCEPT !.confirmed = FALSE, !.reading = TRUE]
    /\ UNCHANGED <<revision, pledges, batches, granted, receiptsOf, recall, posted, agreed, spent>>

----------------------------------------------------------------------------
(* Starting over, coming back.                                             *)

NewPreview ==
    /\ desk.open /\ (desk.shown # 0 \/ desk.pending) /\ ~Busy /\ ~desk.executing
    /\ recall' = Forgotten
    /\ desk' = [desk EXCEPT !.shown = 0, !.status = "none", !.version = 0, !.result = "none",
                  !.pending = FALSE, !.confirmed = FALSE, !.url = 0, !.reading = TRUE]
    /\ UNCHANGED <<revision, pledges, batches, granted, receiptsOf, posted, agreed, spent>>

\* The panel as it mounts: in doubt when the session has a frozen request.
Mounted(memory, source, url, job) ==
    [Blank EXCEPT !.source = source, !.url = url, !.job = job, !.pending = memory.frozen,
                  !.reading = source # 0 \/ url # 0]

\* Mutant: the retry of failed rows leaves the earlier request frozen.
StartNewManifest_Kept == recall

StartNewManifest == Forgotten

\* previewFailedManifest: the job panel asks for the job's failed rows.
PreviewFailed ==
    /\ desk.open /\ desk.job # 0 /\ batches[desk.job] = "conflict"
    /\ recall' = StartNewManifest
    /\ desk' = Mounted(StartNewManifest, desk.job, 0, desk.job)
    /\ UNCHANGED <<revision, pledges, batches, granted, receiptsOf, posted, agreed, spent>>

\* Another page or project and back, with or without the URL's manifest, or
\* the page loaded again: calls are aborted, and a reload forgets the rest.
Leave ==
    /\ desk.open /\ spent.moves < MaxMoves
    /\ spent' = [spent EXCEPT !.moves = @ + 1]
    /\ desk' = [Blank EXCEPT !.open = FALSE, !.url = desk.url, !.job = desk.job]
    /\ UNCHANGED <<revision, pledges, batches, granted, receiptsOf, recall, posted, agreed>>

Return ==
    /\ ~desk.open
    /\ \E memory \in {recall, Forgotten}, url \in {0, desk.url} :
         /\ recall' = memory
         /\ desk' = Mounted(memory, 0, url, IF url = 0 THEN 0 ELSE desk.job)
    /\ UNCHANGED <<revision, pledges, batches, granted, receiptsOf, posted, agreed, spent>>

----------------------------------------------------------------------------
(* Everybody else.                                                         *)

EditBuyer ==
    /\ revision < MaxVersion /\ Upset
    /\ revision' = revision + 1
    /\ UNCHANGED <<pledges, batches, granted, receiptsOf, desk, recall, posted, agreed>>

Expire ==
    /\ Upset
    /\ \E m \in DOMAIN pledges :
         /\ pledges[m].status = "ready" /\ ~pledges[m].expired
         /\ pledges' = [pledges EXCEPT ![m].expired = TRUE]
    /\ UNCHANGED <<revision, batches, granted, receiptsOf, desk, recall, posted, agreed>>

ChangeRole ==
    /\ Upset
    /\ granted' = ~granted
    /\ UNCHANGED <<revision, pledges, batches, receiptsOf, desk, recall, posted, agreed>>

ManifestNext ==
    \/ Prepare \/ Confirm \/ Execute
    \/ \E r \in posted : ServePreview(r) \/ ServeExecute(r)
    \/ \E j \in DOMAIN batches : RunJob(j)
    \/ CancelJob
    \/ ReceivePreview \/ ReceiveExecute \/ ReceiveRefusal \/ LoseAnswer
    \/ ReadManifest \/ Recheck \/ NewPreview \/ PreviewFailed \/ Leave \/ Return
    \/ EditBuyer \/ Expire \/ ChangeRole

ManifestSpec == ManifestInit /\ [][ManifestNext]_manifestVars

----------------------------------------------------------------------------
(* Properties.                                                             *)

\* Type invariant: the panel shows a manifest there is, in a state it can have.
ManifestTypeOK ==
    /\ revision \in 1 .. MaxVersion
    /\ desk.shown \in 0 .. Len(pledges) /\ desk.url \in 0 .. Len(pledges)
    /\ desk.job \in 0 .. Len(batches) /\ desk.source \in 0 .. Len(batches)
    /\ \A m \in DOMAIN pledges : pledges[m].status \in {"ready", "executed"}
    /\ DOMAIN receiptsOf \subseteq 1 .. MaxAttempts

\* What is executed is what the person asked for and confirmed: a panel that
\* says "Failed rows only" shows a manifest of exactly that job's rows, no
\* manifest is executed that was not confirmed while it was shown, and the
\* result on the screen is the one recorded for it, whatever was frozen,
\* forgotten, lost or executed late in between (bulk-manifest.tsx).
ManifestsAreAsAsked ==
    /\ desk.source # 0 /\ desk.shown # 0 => pledges[desk.shown].of = desk.source
    /\ \A m \in DOMAIN pledges : pledges[m].status = "executed" => m \in agreed
    /\ desk.result \in {"updated", "conflict"} => desk.shown # 0 /\ pledges[desk.shown].result = desk.result
====
