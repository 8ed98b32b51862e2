---------------------------- MODULE OfferProfile ----------------------------
(***************************************************************************)
(* The offer of a project and the immutable profiles saved under it        *)
(* (api/routes/projects.py, api/routes/icp.py, services/icp_service.py).   *)
(* The offer wizard reads the project and its latest profile in two        *)
(* requests and saves in two more, under one key per exact form            *)
(* (offer-wizard.tsx, services/live/writes.ts): the second may fail when   *)
(* the first is already written. A reviewer approves from a page that two  *)
(* independent requests filled (features/live/profile.tsx). What else      *)
(* takes an approval back: a changed offer, and a deleted document.        *)
(***************************************************************************)
EXTENDS Integers, Sequences, FiniteSets

CONSTANTS Authors, Reviewers, Offers, Documents, First, MaxVersion, MaxProfiles, MaxKeys, MaxLost

VARIABLES project,    \* projects: version, offer, offer_revision, active profile, status
          profiles,   \* icp_versions by number
          removed,    \* offer documents deleted
          forms,      \* per author: the wizard
          actions,    \* per author: the action intent, and the keys used so far
          replies,    \* completed idempotency records
          boards,     \* per reviewer: the profile page
          unheard     \* answers lost

profileVars == <<project, profiles, removed, forms, actions, replies, boards, unheard>>

Closed == [stage |-> "closed", version |-> 0, revision |-> 0, latest |-> 0, offer |-> First, documents |-> {}]
Fingerprint(f) == <<f.version, f.latest, f.offer, f.documents>>
Blank == [version |-> 0, listed |-> FALSE, offered |-> {}]

------------------------------------------------------------------------------
\* The wizard's effect: the project, then readLatestProfile, and the form they fill.
ReadProject(a) ==
    /\ forms[a].stage = "closed"
    /\ forms' = [forms EXCEPT ![a] = [Closed EXCEPT !.stage = "reading", !.version = project.version, !.revision = project.revision,
                                                    !.offer = project.offer]]
    /\ UNCHANGED <<project, profiles, removed, actions, replies, boards, unheard>>

\* offerFromProject: the facts of the latest profile, else the text of the project.
Filled(f, last) ==
    IF last = 0 THEN f
    ELSE [f EXCEPT !.latest = last, !.offer = profiles[last].offer, !.documents = profiles[last].documents]

ReadLatestProfile(a) ==
    /\ forms[a].stage = "reading"
    /\ forms' = [forms EXCEPT ![a] = [Filled(@, Len(profiles)) EXCEPT !.stage = "open"]]
    /\ UNCHANGED <<project, profiles, removed, actions, replies, boards, unheard>>

Update(a, offer, chosen) ==
    /\ forms[a].stage = "open" /\ <<offer, chosen>> # <<forms[a].offer, forms[a].documents>>
    /\ forms' = [forms EXCEPT ![a].offer = offer, ![a].documents = chosen]
    /\ UNCHANGED <<project, profiles, removed, actions, replies, boards, unheard>>

\* ActionIntent.run: the same form keeps its key until it succeeds.
Save(a) ==
    LET i == actions[a] IN
    /\ forms[a].stage = "open"
    /\ IF i.print = Fingerprint(forms[a]) THEN UNCHANGED actions
       ELSE i.key < MaxKeys /\ actions' = [actions EXCEPT ![a] = [print |-> Fingerprint(forms[a]), key |-> i.key + 1, revision |-> 0]]
    /\ forms' = [forms EXCEPT ![a].stage = "updating"]
    /\ UNCHANGED <<project, profiles, removed, replies, boards, unheard>>

Answered(a, operation) == {r \in replies : r.by = a /\ r.key = actions[a].key /\ r.operation = operation}
Record(a, operation, value) == [by |-> a, key |-> actions[a].key, operation |-> operation, value |-> value]

\* The answer of a request: it arrives, or it is lost and the form is open again.
Hears(a, stage, revision) ==
    \/ /\ forms' = [forms EXCEPT ![a] = IF stage = "closed" THEN Closed ELSE [@ EXCEPT !.stage = stage]]
       /\ actions' = [actions EXCEPT ![a] = IF stage = "closed" THEN [@ EXCEPT !.print = <<>>] ELSE [@ EXCEPT !.revision = revision]]
       /\ UNCHANGED unheard
    \/ /\ unheard < MaxLost /\ unheard' = unheard + 1
       /\ forms' = [forms EXCEPT ![a].stage = "open"] /\ UNCHANGED actions

Refused(a) == forms' = [forms EXCEPT ![a].stage = "open"] /\ UNCHANGED <<project, profiles, replies, actions, unheard>>

Material(offer) == offer # project.offer

\* update_project: the version that was read; a material change gives the offer
\* a revision of its own and takes the active profile back.
UpdateProject(a) ==
    LET offer == forms[a].offer IN
    /\ forms[a].stage = "updating"
    /\ IF Answered(a, "update") # {}
       THEN UNCHANGED <<project, profiles, replies>> /\ \E r \in Answered(a, "update") : Hears(a, "saving", r.value)
       ELSE IF project.version # forms[a].version THEN Refused(a)
       ELSE /\ project.version < MaxVersion
            /\ project' = [project EXCEPT !.version = @ + 1, !.offer = offer, !.revision = IF Material(offer) THEN @ + 1 ELSE @,
                                          !.active = IF Material(offer) THEN 0 ELSE @]
            /\ profiles' = [n \in DOMAIN profiles |-> IF Material(offer) /\ n = project.active
                                                      THEN [profiles[n] EXCEPT !.superseded = TRUE] ELSE profiles[n]]
            /\ replies' = replies \cup {Record(a, "update", project'.revision)}
            /\ Hears(a, "saving", project'.revision)
    /\ UNCHANGED <<removed, boards>>

\* validate_offer_document_refs: ready documents of this project.
DocumentsReady(wanted) == wanted \cap removed = {}

\* toIcpSaveRequest and what the server adds: never approved by its author.
Content(f, basis, key) == [offer |-> f.offer, documents |-> f.documents, basis |-> basis, parent |-> f.latest,
                           by |-> key, approved |-> FALSE, superseded |-> FALSE]

\* save_icp_version, on the offer revision the first answer named.
SaveProfile(a) ==
    LET f == forms[a] IN
    /\ f.stage = "saving"
    /\ IF Answered(a, "save") # {}
       THEN UNCHANGED <<project, profiles, replies>> /\ Hears(a, "closed", 0)
       ELSE IF ~(project.status = "active" /\ actions[a].revision = project.revision /\ DocumentsReady(f.documents)) THEN Refused(a)
       ELSE /\ Len(profiles) < MaxProfiles
            /\ profiles' = Append(profiles, Content(f, project.revision, <<a, actions[a].key>>))
            /\ replies' = replies \cup {Record(a, "save", Len(profiles) + 1)}
            /\ UNCHANGED project /\ Hears(a, "closed", 0)
    /\ UNCHANGED <<removed, boards>>

\* The wizard is left, or its project is opened again.
Leave(a) ==
    /\ forms[a].stage = "open" /\ forms' = [forms EXCEPT ![a] = Closed]
    /\ actions' = [actions EXCEPT ![a].print = <<>>]
    /\ UNCHANGED <<project, profiles, removed, replies, boards, unheard>>

------------------------------------------------------------------------------
BasisCurrent(n) == profiles[n].basis = project.revision

\* LiveProfilePanel's effect: two requests, in either order.
ReadBoard(r) ==
    /\ \/ boards[r].version = 0 /\ boards' = [boards EXCEPT ![r].version = project.version]
       \/ ~boards[r].listed
          /\ boards' = [boards EXCEPT ![r].listed = TRUE, ![r].offered = {n \in DOMAIN profiles : ~profiles[n].approved /\ BasisCurrent(n)}]
    /\ UNCHANGED <<project, profiles, removed, forms, actions, replies, unheard>>

\* Mutant: the offer may have changed since the profile was saved.
Approvable_AnyBasis(n, seen) ==
    /\ project.version = seen /\ project.status = "active"
    /\ DocumentsReady(profiles[n].documents) /\ ~profiles[n].approved

\* What approve_icp asks: the project as it was shown, the basis, the documents.
Approvable(n, seen) ==
    /\ project.version = seen /\ project.status = "active" /\ BasisCurrent(n)
    /\ DocumentsReady(profiles[n].documents) /\ ~profiles[n].approved

\* approve_icp, project row then profile row; then the page reads again.
Approve(r, n) ==
    /\ boards[r].version # 0 /\ n \in boards[r].offered
    /\ IF Approvable(n, boards[r].version)
       THEN /\ project.version < MaxVersion /\ project' = [project EXCEPT !.version = @ + 1, !.active = n]
            /\ profiles' = [m \in DOMAIN profiles |->
                               IF m = n THEN [profiles[m] EXCEPT !.approved = TRUE]
                               ELSE IF m = project.active THEN [profiles[m] EXCEPT !.superseded = TRUE] ELSE profiles[m]]
            /\ boards' = [boards EXCEPT ![r] = Blank]
       ELSE UNCHANGED <<project, profiles, boards>>
    /\ UNCHANGED <<removed, forms, actions, replies, unheard>>

Reload(r) ==
    /\ boards[r] # Blank /\ boards' = [boards EXCEPT ![r] = Blank]
    /\ UNCHANGED <<project, profiles, removed, forms, actions, replies, unheard>>

\* delete_offer_document: any profile that names it makes the offer a new one;
\* only the active profile that names it is taken back.
DeleteDocument(d) ==
    LET naming == {n \in DOMAIN profiles : d \in profiles[n].documents} IN
    /\ d \notin removed /\ removed' = removed \cup {d}
    /\ IF naming = {} THEN UNCHANGED <<project, profiles>>
       ELSE /\ project.version < MaxVersion
            /\ project' = [project EXCEPT !.version = @ + 1, !.revision = @ + 1, !.active = IF @ \in naming THEN 0 ELSE @]
            /\ profiles' = [n \in DOMAIN profiles |-> IF n \in naming /\ n = project.active
                                                      THEN [profiles[n] EXCEPT !.superseded = TRUE] ELSE profiles[n]]
    /\ UNCHANGED <<forms, actions, replies, boards, unheard>>

ArchiveProject ==
    /\ project.status = "active" /\ project.version < MaxVersion
    /\ project' = [project EXCEPT !.status = "archived", !.version = @ + 1]
    /\ UNCHANGED <<profiles, removed, forms, actions, replies, boards, unheard>>

ProfileInit ==
    /\ project = [version |-> 1, offer |-> First, revision |-> 1, active |-> 0, status |-> "active"]
    /\ profiles = <<>> /\ removed = {} /\ replies = {} /\ unheard = 0
    /\ forms = [a \in Authors |-> Closed] /\ actions = [a \in Authors |-> [print |-> <<>>, key |-> 0, revision |-> 0]]
    /\ boards = [r \in Reviewers |-> Blank]

ProfileNext ==
    \/ ArchiveProject \/ \E d \in Documents : DeleteDocument(d)
    \/ \E a \in Authors : \/ ReadProject(a) \/ ReadLatestProfile(a) \/ Save(a) \/ UpdateProject(a) \/ SaveProfile(a) \/ Leave(a)
                          \/ \E offer \in Offers, chosen \in SUBSET Documents : Update(a, offer, chosen)
    \/ \E r \in Reviewers : ReadBoard(r) \/ Reload(r) \/ \E n \in DOMAIN profiles : Approve(r, n)

------------------------------------------------------------------------------
ProfileTypeOK ==
    /\ project.active \in 0..Len(profiles) /\ project.offer \in Offers
    /\ \A a \in DOMAIN forms : forms[a].stage \in {"closed", "reading", "open", "updating", "saving"}

\* The profile searches and drafts run under was approved and not taken back, says what
\* the project's offer says and stands on documents that exist; every other approval was
\* taken back. One exact form is saved once, however often it is sent
\* (update_project, save_icp_version, approve_icp, delete_offer_document, ActionIntent).
ActiveProfileHolds ==
    /\ \A n \in DOMAIN profiles : profiles[n].approved => (profiles[n].superseded <=> n # project.active)
    /\ project.active # 0 => /\ profiles[project.active].approved
                             /\ profiles[project.active].offer = project.offer
                             /\ profiles[project.active].documents \cap removed = {}
    /\ \A n, m \in DOMAIN profiles : profiles[n].by = profiles[m].by => n = m
=============================================================================
