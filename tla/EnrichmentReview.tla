-------------------------- MODULE EnrichmentReview --------------------------
(***************************************************************************)
(* Paid findings become part of a buyer only as a person reviewed them     *)
(* (services/xverum_enrichment.py; enrichment-review.tsx is the screen): a *)
(* proposal is made from the receipt of a paid batch, one identity at a    *)
(* time, and applied to exactly the buyer, company and person it showed.   *)
(* The identities of a batch follow each other in a chain of records, the  *)
(* only way past the version the receipt was bought for. Workspace gates   *)
(* serialise proposals and applications; edits of a buyer do not take them.*)
(***************************************************************************)
EXTENDS Integers, Sequences, FiniteSets

CONSTANTS Reviewers, Home, Identities, MaxRecords, MaxEdits, MaxLost
\* Home: the buyer a reviewer works on; two buyers stand for two projects
\* that share the company. MaxLost bounds lost answers.

VARIABLES versionOf,   \* version of each buyer
          company,     \* number of the record that wrote the company last
          persons,     \* per identity: who wrote it last, -1 once it expired
          paid,        \* per reviewer: version bought for, and whether it still holds
          proposals,   \* xverum_enrichments
          applying,    \* the application under way, validated and not yet committed
          panels,      \* the screens
          editings, losses

enrichmentVars == <<versionOf, company, persons, paid, proposals, applying, panels, editings, losses>>

Buyers == {Home[a] : a \in Reviewers}
Nobody == [by |-> "none", record |-> 0, fields |-> {}]
Fresh == [shown |-> 0, left |-> Identities, previous |-> 0, lost |-> FALSE]

------------------------------------------------------------------------------
(* load_record and validate_record.                                        *)
Older(r) == LET p == proposals[r].previous IN
    {r} \cup (IF p = 0 THEN {} ELSE {p} \cup ({proposals[p].previous} \ {0}))
Children(r) == {s \in DOMAIN proposals : proposals[s].previous = r /\ proposals[s].applied > 0}

\* transition_chain: the predecessors of a record and the applied records that
\* follow it; the three identities a batch has at most bound it.
Chain(r) == Older(r) \cup Children(r) \cup UNION {Children(s) : s \in Children(r)}
Later(chain, r) == {s \in chain : proposals[s].at > proposals[r].at}
Latest(chain) == CHOOSE r \in chain : Later(chain, r) = {}

\* Every link applied, in the order of the buyer's versions, from the company
\* its predecessor left; no fork, no identity twice, one batch.
Linked(chain) ==
    \A r \in chain :
        /\ Cardinality(Children(r)) <= 1
        /\ \A s \in chain \ {r} : proposals[s].identity # proposals[r].identity /\ proposals[s].by = proposals[r].by
        /\ LET p == proposals[r].previous IN
           p # 0 => proposals[p].applied = proposals[r].at /\ proposals[r].company = proposals[p].left

\* Mutant: a proposal only asks whether its buyer changed.
Native_BuyerOnly(r) ==
    /\ Linked(Chain(r))
    /\ versionOf[Home[proposals[r].by]] = LET last == proposals[Latest(Chain(r))] IN IF last.applied > 0 THEN last.applied ELSE last.at

\* _native_record_state: buyer, company and persons are as the chain left them.
Native(r) ==
    LET chain == Chain(r)
        last == proposals[Latest(chain)] IN
    /\ Linked(chain)
    /\ versionOf[Home[proposals[r].by]] = IF last.applied > 0 THEN last.applied ELSE last.at
    /\ company = IF last.applied > 0 THEN last.left ELSE last.company
    /\ \A s \in chain : persons[proposals[s].identity] = IF proposals[s].applied > 0 THEN proposals[s].personLeft ELSE proposals[s].person

\* resolve_evidence: the receipt still holds, and the buyer is at the version
\* it was bought for or has moved only by this chain.
Valid(r) ==
    LET by == proposals[r].by IN
    /\ Native(r) /\ paid[by].holds
    /\ paid[by].version = proposals[r].source

------------------------------------------------------------------------------
\* A quote approved and settled elsewhere (BuyerOS pays, SalesTask).
BuyBatch(a) ==
    /\ paid[a].version = 0 /\ paid' = [paid EXCEPT ![a] = [version |-> versionOf[Home[a]], holds |-> TRUE]]
    /\ UNCHANGED <<versionOf, company, persons, proposals, applying, panels, editings, losses>>

\* propose_enrichment, behind the gates. The answer may be lost on its way.
Propose(a, i) ==
    LET previous == panels[a].previous
        b == Home[a]
        made == [by |-> a, identity |-> i, at |-> versionOf[b], company |-> company, person |-> persons[i],
                 previous |-> previous, source |-> paid[a].version, applied |-> 0, left |-> 0, personLeft |-> 0] IN
    /\ applying = Nobody /\ Len(proposals) < MaxRecords
    /\ i \in panels[a].left /\ paid[a].version > 0 /\ paid[a].holds
    /\ persons[i] # -1
    /\ IF previous = 0 THEN versionOf[b] = paid[a].version
       ELSE /\ Valid(previous) /\ proposals[previous].applied = versionOf[b]
            /\ \A r \in Chain(previous) : proposals[r].identity # i
    /\ proposals' = Append(proposals, made)
    /\ \/ panels' = [panels EXCEPT ![a].shown = Len(proposals) + 1] /\ UNCHANGED losses
       \/ losses < MaxLost /\ losses' = losses + 1 /\ panels' = [panels EXCEPT ![a].shown = 0]
    /\ UNCHANGED <<versionOf, company, persons, paid, applying, editings>>

\* apply_enrichment up to its lock of the buyer: a proposal is applied once, at
\* the version it showed. The reviewer chose among the fields of the company
\* and of the person.
BeginApply(a, fields) ==
    LET r == panels[a].shown IN
    /\ applying = Nobody /\ r # 0
    /\ IF Valid(r) /\ proposals[r].applied = 0 /\ versionOf[Home[a]] = proposals[r].at
       THEN applying' = [by |-> a, record |-> r, fields |-> fields] /\ UNCHANGED panels
       ELSE panels' = [panels EXCEPT ![a].shown = 0] /\ UNCHANGED applying
    /\ UNCHANGED <<versionOf, company, persons, paid, proposals, editings, losses>>

\* The rest of it, with the buyer locked and read again; the record is
\* validated once more as applied before the commit.
CommitApply ==
    LET a == applying.by
        r == applying.record
        b == Home[a]
        i == proposals[r].identity
        wrote(old, f) == IF f \in applying.fields THEN r ELSE old IN
    /\ applying # Nobody /\ applying' = Nobody /\ UNCHANGED <<paid, editings>>
    /\ IF versionOf[b] = proposals[r].at /\ paid[a].holds /\ persons[i] # -1
       THEN /\ versionOf' = [versionOf EXCEPT ![b] = @ + 1]
            /\ company' = wrote(company, "company") /\ persons' = [persons EXCEPT ![i] = wrote(@, "person")]
            /\ proposals' = [proposals EXCEPT ![r].applied = versionOf[b] + 1, ![r].left = company', ![r].personLeft = persons'[i]]
            /\ \/ /\ panels' = [panels EXCEPT ![a] = [@ EXCEPT !.shown = 0, !.left = @ \ {i}, !.previous = r]]
                  /\ UNCHANGED losses
               \/ /\ losses < MaxLost /\ losses' = losses + 1
                  /\ panels' = [panels EXCEPT ![a] = [@ EXCEPT !.shown = 0, !.lost = TRUE]]
       ELSE /\ panels' = [panels EXCEPT ![a].shown = 0]
            /\ UNCHANGED <<versionOf, company, persons, proposals, losses>>

\* task_stages and the button that resumes a stage: what is left of the batch,
\* and the applied record its next proposal follows. Without a record that
\* still validates, only the receipt is shown.
Resume(a) ==
    LET mine == {r \in DOMAIN proposals : proposals[r].by = a /\ proposals[r].applied > 0}
        latest == CHOOSE r \in mine : \A s \in mine : proposals[s].applied <= proposals[r].applied IN
    /\ applying = Nobody /\ panels[a].lost
    /\ panels' = [panels EXCEPT ![a] =
           IF mine # {} /\ Valid(latest)
           THEN [Fresh EXCEPT !.left = Identities \ {proposals[r].identity : r \in mine}, !.previous = latest]
           ELSE [Fresh EXCEPT !.left = {}]]
    /\ UNCHANGED <<versionOf, company, persons, paid, proposals, applying, editings, losses>>

\* updateBuyer and bulk edits: a row lock and a version of their own.
EditBuyer(b) ==
    /\ editings < MaxEdits /\ editings' = editings + 1 /\ versionOf' = [versionOf EXCEPT ![b] = @ + 1]
    /\ UNCHANGED <<company, persons, paid, proposals, applying, panels, losses>>

\* A disconnect, retention or the clock takes the receipt, or a person's
\* retention ends (subject_guard).
Lapse ==
    /\ editings < MaxEdits /\ editings' = editings + 1
    /\ \/ \E a \in Reviewers : paid[a].holds /\ paid' = [paid EXCEPT ![a].holds = FALSE] /\ UNCHANGED persons
       \/ \E i \in Identities : persons[i] > 0 /\ persons' = [persons EXCEPT ![i] = -1] /\ UNCHANGED paid
    /\ UNCHANGED <<versionOf, company, proposals, applying, panels, losses>>

EnrichmentInit ==
    /\ versionOf = [b \in Buyers |-> 1] /\ company = 0 /\ persons = [i \in Identities |-> 0]
    /\ paid = [a \in Reviewers |-> [version |-> 0, holds |-> FALSE]] /\ proposals = <<>>
    /\ applying = Nobody /\ panels = [a \in Reviewers |-> Fresh] /\ editings = 0 /\ losses = 0

EnrichmentNext ==
    \/ CommitApply \/ Lapse
    \/ \E b \in Buyers : EditBuyer(b)
    \/ \E a \in Reviewers :
        \/ BuyBatch(a) \/ Resume(a)
        \/ \E i \in Identities : Propose(a, i)
        \/ \E fields \in {{"company"}, {"person"}, {"company", "person"}} : BeginApply(a, fields)

------------------------------------------------------------------------------
EnrichmentTypeOK ==
    /\ \A r \in DOMAIN proposals : proposals[r].previous < r /\ proposals[r].applied >= 0
    /\ \A a \in Reviewers : panels[a].shown \in 0..Len(proposals) /\ panels[a].left \subseteq Identities

Applied(r) == proposals'[r].applied > 0 /\ (r \notin DOMAIN proposals \/ proposals[r].applied = 0)

AppliedAsReviewed ==
    \A r \in DOMAIN proposals' : Applied(r) =>
       LET now == proposals'[r] IN
       /\ now.at = versionOf[Home[now.by]] /\ now.company = company /\ now.person = persons[now.identity]
       /\ paid[now.by].holds
       /\ \A s \in DOMAIN proposals \ {r} :
             proposals[s].applied > 0 /\ proposals[s].by = now.by
             => proposals[s].identity # now.identity /\ proposals[s].source + Cardinality({t \in DOMAIN proposals : proposals[t].applied > 0 /\ proposals[t].by = now.by}) = now.at

\* What is applied is what was reviewed: the company, the person and the buyer
\* are still what the proposal showed, no edit in between is passed over, an
\* identity of a batch is applied once, and the applied records of a batch are
\* one chain of consecutive versions, whatever answers were lost and whoever
\* else reviewed the same company (apply_enrichment, transition_chain).
EnrichmentAsReviewed == [][AppliedAsReviewed]_enrichmentVars
=============================================================================
