--------------------------- MODULE IdentityBinding ---------------------------
(***************************************************************************)
(* Sign-in principals bound to canonical users by an administrator's       *)
(* manifest (services/identity_linking.py, tools/link_user_identities.py): *)
(* one commit for the whole manifest, under the membership locks of its    *)
(* workspaces, each row bound once and audited once. Two manifests of      *)
(* different workspaces may name the same principal; the answer to the     *)
(* commit may be lost; memberships end and bindings are revoked meanwhile. *)
(***************************************************************************)
EXTENDS Integers, Sequences, FiniteSets, SequencesExt

CONSTANTS Tools,      \* administrators running the tool
          Order,      \* the workspaces in the order of their identifiers
          Manifests,  \* sequences of [workspace, user, principal, proof, expected]
          MaxBatches, \* bound: batches begun
          MaxTurns    \* bound: memberships ended, bindings revoked

VARIABLES bindings,   \* user_identities by principal
          roster,     \* active memberships <<workspace, user>>
          trail,      \* audit events identity.linked, by row
          writers,    \* per tool: its transaction and what it reported
          begun,      \* batches so far
          turns       \* memberships ended, bindings revoked

identityBindingVars == <<bindings, roster, trail, writers, begun, turns>>

Rows == UNION {Range(m) : m \in Manifests}
Places == Range(Order)
Chief == [user |-> "chief", status |-> "active", version |-> 1, proof |-> "primary"]
Free == [stage |-> "idle", manifest |-> <<>>, index |-> 1, locks |-> {}, staged |-> {}, users |-> {}, linked |-> {}, report |-> "none"]

BindingInit ==
    /\ bindings = [p \in {"root"} |-> Chief]
    /\ roster = {<<r.workspace, r.user>> : r \in Rows} \cup {<<w, "chief">> : w \in Places}
    /\ trail = [r \in Rows |-> 0]
    /\ writers = [t \in Tools |-> Free]
    /\ begun = 0 /\ turns = 0

Wanted(t) == {r.workspace : r \in Range(writers[t].manifest)}
Row(t) == writers[t].manifest[writers[t].index]
Others(t) == Tools \ {t}

\* resolve_user_id and read_current_membership: a revoked binding resolves to nobody.
Member(principal, workspace) ==
    /\ principal \in DOMAIN bindings /\ bindings[principal].status = "active"
    /\ <<workspace, bindings[principal].user>> \in roster

------------------------------------------------------------------------------
Begin(t, manifest) ==
    /\ writers[t].stage = "idle" /\ begun < MaxBatches
    /\ writers' = [writers EXCEPT ![t] = [Free EXCEPT !.stage = "locking", !.manifest = manifest]]
    /\ begun' = begun + 1
    /\ UNCHANGED <<bindings, roster, trail, turns>>

\* The next workspace to lock, in one order whatever the order of the rows.
Ahead(v, w) == \E i, j \in DOMAIN Order : i < j /\ Order[i] = v /\ Order[j] = w
Turn(t) == LET missing == Wanted(t) \ writers[t].locks IN
           {w \in missing : \A v \in missing : ~Ahead(v, w)}

\* Mutant: the membership lock is not waited for.
Lockable_Any(t) == Turn(t)

\* lock_membership_admin.
Lockable(t) == Turn(t) \ UNION {writers[u].locks : u \in Others(t)}

LockAdmin(t) ==
    /\ writers[t].stage = "locking"
    /\ \E w \in Lockable(t) : writers' = [writers EXCEPT ![t].locks = @ \cup {w},
                                                       ![t].stage = IF Wanted(t) \ (writers[t].locks \cup {w}) = {} THEN "row" ELSE @]
    /\ UNCHANGED <<bindings, roster, trail, begun, turns>>

End(t, report) == writers' = [writers EXCEPT ![t] = [Free EXCEPT !.manifest = writers[t].manifest, !.stage = "told", !.report = report,
                                                               !.linked = writers[t].linked]]
Done(t, w) ==
    writers' = [writers EXCEPT ![t] = [w EXCEPT !.index = @ + 1, !.stage = IF writers[t].index = Len(writers[t].manifest) THEN "commit" ELSE "row"]]

SameBinding(b, r) == b.user = r.user /\ b.status = "active" /\ b.proof = r.proof
ExactVersion(b, r) == b.version = r.expected \/ (r.expected = 0 /\ b.version = 1)

\* _reconcile_identity_row up to link_identity: authority, target, then what is bound.
ReadRow(t) ==
    LET r == Row(t) IN
    /\ writers[t].stage = "row"
    /\ IF ~Member("root", r.workspace) \/ <<r.workspace, r.user>> \notin roster THEN End(t, "rejected")
       ELSE IF r.principal \in DOMAIN bindings
       THEN IF SameBinding(bindings[r.principal], r) /\ ExactVersion(bindings[r.principal], r) THEN Done(t, writers[t]) ELSE End(t, "rejected")
       ELSE IF r.expected # 0 THEN End(t, "rejected")
       ELSE writers' = [writers EXCEPT ![t].stage = "link"]
    /\ UNCHANGED <<bindings, roster, trail, begun, turns>>

\* Waiting for the user row or for the index entry of another transaction.
Blockers(t) == {u \in Others(t) : Row(t).user \in writers[u].users \/ Row(t).principal \in {s.principal : s \in writers[u].staged}}

\* link_identity, and the audit of the row.
LinkRow(t) ==
    LET r == Row(t)
        w == [writers[t] EXCEPT !.users = @ \cup {r.user}, !.linked = @ \cup {r}] IN
    /\ writers[t].stage = "link" /\ Blockers(t) = {}
    /\ IF r.principal \notin DOMAIN bindings THEN Done(t, [w EXCEPT !.staged = @ \cup {r}])
       ELSE IF SameBinding(bindings[r.principal], r) /\ bindings[r.principal].version = 1 THEN Done(t, w)
       ELSE End(t, "rejected")
    /\ UNCHANGED <<bindings, roster, trail, begun, turns>>

\* The database ends one of two that wait for each other; the tool cannot tell.
Deadlock(t) ==
    /\ writers[t].stage = "link"
    /\ \E u \in Blockers(t) : writers[u].stage = "link" /\ t \in Blockers(u)
    /\ End(t, "unknown")
    /\ UNCHANGED <<bindings, roster, trail, begun, turns>>

Bound(b, rows) ==
    [p \in DOMAIN b \cup {r.principal : r \in rows} |->
        IF p \in DOMAIN b THEN b[p] ELSE LET r == CHOOSE s \in rows : s.principal = p IN
                                          [user |-> r.user, status |-> "active", version |-> 1, proof |-> r.proof]]

Commit(t) ==
    /\ writers[t].stage = "commit"
    /\ bindings' = Bound(bindings, writers[t].staged)
    /\ trail' = [r \in Rows |-> trail[r] + IF r \in writers[t].linked THEN 1 ELSE 0]
    /\ \E report \in {"applied", "unknown"} : End(t, report)
    /\ UNCHANGED <<roster, begun, turns>>

\* The connection is lost before the commit reached the database.
LoseCommit(t) ==
    /\ writers[t].stage = "commit" /\ End(t, "unknown")
    /\ UNCHANGED <<bindings, roster, trail, begun, turns>>

\* The manifest is kept and run again, or put away.
Rerun(t) ==
    /\ writers[t].stage = "told"
    /\ writers' = [writers EXCEPT ![t] = Free]
    /\ UNCHANGED <<bindings, roster, trail, begun, turns>>

\* A membership ends under the same lock (update_membership); a binding is revoked for good.
EndMembership(place, user) ==
    /\ <<place, user>> \in roster /\ turns < MaxTurns /\ turns' = turns + 1
    /\ \A t \in Tools : place \notin writers[t].locks
    /\ roster' = roster \ {<<place, user>>}
    /\ UNCHANGED <<bindings, trail, writers, begun>>

Revoke(p) ==
    /\ p \in DOMAIN bindings /\ bindings[p].status = "active" /\ turns < MaxTurns /\ turns' = turns + 1
    /\ bindings' = [bindings EXCEPT ![p].status = "revoked", ![p].version = @ + 1]
    /\ UNCHANGED <<roster, trail, writers, begun>>

BindingNext ==
    \/ \E t \in Tools : LockAdmin(t) \/ ReadRow(t) \/ LinkRow(t) \/ Deadlock(t) \/ Commit(t) \/ LoseCommit(t) \/ Rerun(t)
    \/ \E t \in Tools, m \in Manifests : Begin(t, m)
    \/ \E r \in Rows : EndMembership(r.workspace, r.user)
    \/ \E p \in DOMAIN bindings : Revoke(p)

------------------------------------------------------------------------------
BindingTypeOK ==
    /\ \A p \in DOMAIN bindings : bindings[p].status \in {"active", "revoked"} /\ bindings[p].version \in 1..2
    /\ \A t \in Tools : writers[t].stage \in {"idle", "locking", "row", "link", "commit", "told"} /\ writers[t].locks \subseteq Places
    /\ begun \in 0..MaxBatches /\ turns \in 0..MaxTurns

\* However often a manifest is run, and by whom, a row is audited once; nobody is
\* bound without an audit that names the user; and a report is true of the whole
\* manifest: applied means every row is bound to its user
\* (identity_linking.py: reconcile_identity_manifest, _reconcile_identity_row).
BindingsAreAudited ==
    /\ \A r \in Rows : trail[r] <= 1
    /\ \A p \in DOMAIN bindings \ {"root"} : \E r \in Rows : r.principal = p /\ r.user = bindings[p].user /\ trail[r] = 1
    /\ \A t \in Tools : writers[t].report = "applied" =>
         \A r \in Range(writers[t].manifest) : r.principal \in DOMAIN bindings /\ bindings[r.principal].user = r.user
=============================================================================
