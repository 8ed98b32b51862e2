---------------------------- MODULE SavedOutputs ----------------------------
(***************************************************************************)
(* What a sales task saved (services/sales_outputs.py): versions that are  *)
(* never rewritten and are readable only while everything they stand on    *)
(* holds; a saved buyer review may write a note to the buyer               *)
(* (services/sales_native.py), which appends a version of its own; and what*)
(* must go is refused at once and erased page by page                      *)
(* (services/sales_retention.py). The gates of the workspace serialise all *)
(* of these; the buyer is also edited by others. Task 2 may have selected  *)
(* a version of what task 1 saved.                                         *)
(***************************************************************************)
EXTENDS Integers, Sequences, FiniteSets

CONSTANTS Members, MaxBuyer, MaxVersions, PageSize, MaxLost

VARIABLES buyer,      \* version of the buyer
          work,       \* sales_tasks: state, revision, what was selected
          versions,   \* sales_output_versions of each task
          desktops,      \* per member: the version on the page, and a request without an answer
          applied,    \* completed keys of applySalesNativeAction
          withdrawn,  \* tombstones of kind source: the target, and whether erasure is complete
          elapsed,        \* tasks whose retention elapsed
          forgotten

outputVars == <<buyer, work, versions, desktops, applied, withdrawn, elapsed, forgotten>>

Tasks == {1, 2}
Buyer == 0             \* a source is the buyer or a task
Away == [task |-> 0, revision |-> 0, known |-> 0, buyer |-> 0, pending |-> FALSE]

------------------------------------------------------------------------------
(* require_current and get_output.                                         *)
Gone(x) == \/ \E w \in withdrawn : w.target = x
           \/ x \in elapsed
           \/ x \in Tasks /\ work[x].state = "purged"

\* Every recorded dependency, at the version that was selected, and the buyer
\* the version is linked with.
Stands(t, basis, link) ==
    /\ ~Gone(t) /\ link \in {0, buyer}
    /\ basis.buyer # 0 => ~Gone(Buyer) /\ basis.buyer = buyer

Held(t, r) == ~versions[t][r].purged /\ Stands(t, versions[t][r].basis, versions[t][r].link)
Available(t, r) == Held(t, r) /\ (versions[t][r].basis.output # 0 => Held(1, versions[t][r].basis.output))

\* resolve_context of what the task selected.
Resolved(t) ==
    LET basis == work[t].basis IN
    Stands(t, basis, 0) /\ (basis.output # 0 => Available(1, basis.output))

Latest(t) == Len(versions[t])
Appended(t, v) == versions' = [versions EXCEPT ![t] = Append(@, v)]

------------------------------------------------------------------------------
\* create_task and the sections assembled since: what is selected must hold.
CreateTask(t, usesBuyer, output) ==
    /\ work[t].state = "none" /\ ~Gone(t)
    /\ output \in 0..(IF t = 2 THEN Latest(1) ELSE 0) /\ (output # 0 => Available(1, output))
    /\ usesBuyer => ~Gone(Buyer)
    /\ work' = [work EXCEPT ![t] = [state |-> "ready", revision |-> 1,
                                    basis |-> [buyer |-> IF usesBuyer THEN buyer ELSE 0, output |-> output]]]
    /\ UNCHANGED <<buyer, versions, desktops, applied, withdrawn, elapsed, forgotten>>

OpenTask(m, t) ==
    /\ ~desktops[m].pending /\ work[t].state \in {"ready", "completed"}
    /\ desktops' = [desktops EXCEPT ![m] = [task |-> t, revision |-> Latest(t), known |-> work[t].revision,
                                      buyer |-> IF Latest(t) = 0 THEN 0 ELSE versions[t][Latest(t)].link, pending |-> FALSE]]
    /\ UNCHANGED <<buyer, work, versions, applied, withdrawn, elapsed, forgotten>>

\* save_output: the first version is the assembled one, with the buyer under
\* review linked; a later one needs the current version to hold and keeps its links.
SaveOutput(m) ==
    LET t == desktops[m].task
        last == Latest(t) IN
    /\ ~desktops[m].pending /\ t # 0 /\ last < MaxVersions
    /\ IF /\ work[t].state \in {"ready", "completed"} /\ work[t].revision = desktops[m].known
          /\ Resolved(t) /\ (last > 0 => Available(t, last))
       THEN /\ Appended(t, [basis |-> work[t].basis, link |-> IF last = 0 THEN work[t].basis.buyer ELSE versions[t][last].link, purged |-> FALSE])
            /\ work' = [work EXCEPT ![t].state = "completed", ![t].revision = @ + 1]
       ELSE UNCHANGED <<versions, work>>
    /\ desktops' = [desktops EXCEPT ![m] = Away] /\ UNCHANGED <<buyer, applied, withdrawn, elapsed, forgotten>>

\* The key of the button: the saved version and its note.
Repeats(m) == \E a \in applied : a.by = m /\ a.task = desktops[m].task /\ a.revision = desktops[m].revision

\* What apply_native_action asks before it writes: the version on the page is
\* the latest, holds, and its linked buyer is at the revision it names.
MayApply(m) ==
    LET d == desktops[m] IN
    /\ d.revision = Latest(d.task) /\ Available(d.task, d.revision)
    /\ d.buyer = buyer

\* apply_native_action with link_native_action, one transaction: the note, the
\* buyer's version, and a version linked to it whose basis moved with it. The
\* answer may be lost; the button sends the same request again.
ApplyNote(m) ==
    LET d == desktops[m]
        t == d.task
        seen == versions[t][d.revision] IN
    /\ t # 0 /\ d.revision # 0 /\ d.buyer # 0 /\ buyer < MaxBuyer /\ Latest(t) < MaxVersions
    /\ IF ~Repeats(m) /\ MayApply(m)
       THEN /\ buyer' = buyer + 1
            /\ Appended(t, [seen EXCEPT !.link = buyer + 1, !.basis.buyer = IF @ = 0 THEN 0 ELSE buyer + 1])
            /\ work' = [work EXCEPT ![t].revision = @ + 1]
            /\ applied' = applied \cup {[by |-> m, task |-> t, revision |-> d.revision]}
       ELSE UNCHANGED <<buyer, versions, work, applied>>
    /\ \/ desktops' = [desktops EXCEPT ![m] = Away] /\ UNCHANGED forgotten
       \/ forgotten < MaxLost /\ forgotten' = forgotten + 1 /\ desktops' = [desktops EXCEPT ![m].pending = TRUE]
    /\ UNCHANGED <<withdrawn, elapsed>>

EditBuyer ==
    /\ buyer < MaxBuyer /\ buyer' = buyer + 1
    /\ UNCHANGED <<work, versions, desktops, applied, withdrawn, elapsed, forgotten>>

------------------------------------------------------------------------------
\* CLOSURE, from the content-free dependencies that outlive what they erase.
Closure(x) ==
    LET roots == {t \in Tasks : \/ t = x
                                \/ x = Buyer /\ (work[t].basis.buyer # 0 \/ \E r \in DOMAIN versions[t] : versions[t][r].link # 0)} IN
    roots \cup {t \in Tasks : work[t].basis.output # 0 /\ 1 \in roots}

Unpurged(x) == {t \in Closure(x) : work[t].state \notin {"none", "purged"}}

\* purge_page: the state and every version of at most a page of tasks.
Purge(page) ==
    /\ work' = [t \in Tasks |-> IF t \in page THEN [work[t] EXCEPT !.state = "purged", !.revision = @ + 1] ELSE work[t]]
    /\ versions' = [t \in Tasks |-> IF t \in page THEN [r \in DOMAIN versions[t] |-> [versions[t][r] EXCEPT !.purged = TRUE]] ELSE versions[t]]

Pages(x) == {page \in SUBSET Unpurged(x) : Cardinality(page) = IF Cardinality(Unpurged(x)) < PageSize THEN Cardinality(Unpurged(x)) ELSE PageSize}

\* invalidate_source, invalidate_retained_subject: the tombstone and one page.
InvalidateSource ==
    /\ ~\E w \in withdrawn : w.target = Buyer
    /\ withdrawn' = withdrawn \cup {[target |-> Buyer, done |-> FALSE]}
    /\ \E page \in Pages(Buyer) : Purge(page)
    /\ UNCHANGED <<buyer, desktops, applied, elapsed, forgotten>>

\* The clock: retention by the project's policy ends.
RetentionEnds(t) ==
    /\ t \notin elapsed /\ work[t].state \notin {"none", "purged"} /\ elapsed' = elapsed \cup {t}
    /\ UNCHANGED <<buyer, work, versions, desktops, applied, withdrawn, forgotten>>

\* Mutant: one page is enough.
Exhausted_AfterPage(x) == TRUE

\* drain_pending: nothing of the closure was left to erase.
Exhausted(x) == Unpurged(x) = {}

\* drain_pending, by the sweep or a disconnect: a task due becomes a root, and
\* one page of one root is erased.
Drain ==
    LET noticed == {t \in elapsed : work[t].state # "purged"}
        roots == withdrawn \cup {[target |-> t, done |-> FALSE] : t \in {u \in noticed : ~\E w \in withdrawn : w.target = u}} IN
    /\ \E root \in {w \in roots : ~w.done} :
        /\ \E page \in Pages(root.target) : Purge(page)
        /\ withdrawn' = IF Exhausted(root.target) THEN (roots \ {root}) \cup {[root EXCEPT !.done = TRUE]} ELSE roots
    /\ UNCHANGED <<buyer, desktops, applied, elapsed, forgotten>>

OutputInit ==
    /\ buyer = 1 /\ work = [t \in Tasks |-> [state |-> "none", revision |-> 0, basis |-> [buyer |-> 0, output |-> 0]]]
    /\ versions = [t \in Tasks |-> <<>>] /\ desktops = [m \in Members |-> Away]
    /\ applied = {} /\ withdrawn = {} /\ elapsed = {} /\ forgotten = 0

OutputNext ==
    \/ EditBuyer \/ InvalidateSource \/ Drain
    \/ \E t \in Tasks : RetentionEnds(t) \/ \E uses \in BOOLEAN, output \in 0..MaxVersions : CreateTask(t, uses, output)
    \/ \E m \in Members : SaveOutput(m) \/ ApplyNote(m) \/ \E t \in Tasks : OpenTask(m, t)

------------------------------------------------------------------------------
OutputTypeOK ==
    /\ buyer \in 1..MaxBuyer /\ elapsed \subseteq Tasks
    /\ \A t \in Tasks : work[t].state \in {"none", "ready", "completed", "purged"} /\ Latest(t) <= MaxVersions

WorkHolds ==
    /\ \A t \in DOMAIN versions :
           /\ Len(versions'[t]) >= Len(versions[t])
           /\ \A r \in DOMAIN versions[t] :
                 versions'[t][r] = versions[t][r] \/ versions'[t][r] = [versions[t][r] EXCEPT !.purged = TRUE]
           /\ Len(versions'[t]) > Len(versions[t])
              => /\ t \notin UNION {Closure(w.target) : w \in withdrawn}
                 /\ versions'[t][Len(versions'[t])].link \in {0, buyer'}
    /\ Cardinality(applied') - Cardinality(applied)
       = Cardinality({t \in DOMAIN versions : Len(versions'[t]) > Len(versions[t]) /\ buyer' > buyer})
    /\ \A w \in withdrawn' : w.done => Unpurged(w.target)' = {}

\* A saved version is never rewritten, only erased; nothing is saved on what
\* was withdrawn, however far its erasure is. A note is written once per
\* request, over exactly the buyer its version names, and leaves the saved work
\* linked to what it wrote. When an erasure is called complete, everything that
\* stood on its root is erased, also what was saved while it went on (save_output,
\* apply_native_action, purge_page, drain_pending).
SavedWorkHolds == [][WorkHolds]_outputVars

\* What must go is erased in the end, page by page, whatever is saved, linked
\* and withdrawn meanwhile: a task whose retention ended, and all that stood on
\* a withdrawn source (drain_pending).
Pending(x) == \/ [target |-> x, done |-> FALSE] \in withdrawn
              \/ x \in elapsed /\ work[x].state # "purged"
ErasureEnds == \A x \in Tasks \cup {Buyer} : Pending(x) ~> ~Pending(x)
=============================================================================
