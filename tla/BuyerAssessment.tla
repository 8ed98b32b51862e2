--------------------------- MODULE BuyerAssessment ---------------------------
(***************************************************************************)
(* What one run says of one buyer and what people make of it: the fit      *)
(* graph (execution/research_graph.py, fit_runner.py, live_fit_runner.py,  *)
(* fit_execution.py, services/fit.py), the snapshot a reviewer selects     *)
(* from (api/routes/buyers.py, services/buyer_selection.py) and the review *)
(* (api/routes/reviews.py, services/buyer_review.py).                      *)
(*                                                                         *)
(* The graph keeps a checkpoint after each node, of identifiers and of the *)
(* hash of what it started from; every node reads the rows again, while    *)
(* sources lapse, pages are reviewed and the profile changes around it.    *)
(* A hash is modelled by what it is taken of.                              *)
(***************************************************************************)
EXTENDS Integers, FiniteSets, Sequences

CONSTANTS Requirements, Kind,    \* Kind[r]: [category, hard] of a requirement
          Claims, Says,          \* Says[c]: [about, stance, inferred, source]
          Late,                  \* the claims a page review adds
          People, MaxChanges, MaxAttempts, MaxReviews

VARIABLES present, lapsed, profile, graph, attempt, outcome, fits, decisions, version,
          selected, changes

assessmentVars == <<present, lapsed, profile, graph, attempt, outcome, fits, decisions,
                    version, selected, changes>>

Start == [node |-> "load", basis |-> {}, excluded |-> FALSE, live |-> FALSE, proposal |-> {}]
NoChoice == [version |-> 0, fit |-> 0, snapshot |-> FALSE]

------------------------------------------------------------------------------
(* evaluate_evidence_fit                                                   *)

IsCurrent(c) == c \in present /\ Says[c].source \notin lapsed

\* What a hash of the basis stands for: the claims, and which are current.
Basis == {[claim |-> c, current |-> IsCurrent(c)] : c \in present}

\* Only a current claim that is no inference counts.
Stances(basis, r) == {Says[x.claim].stance : x \in {x \in basis :
                          x.current /\ ~Says[x.claim].inferred /\ Says[x.claim].about = r}}

Evaluated(basis) ==
    LET yes(r) == "supports" \in Stances(basis, r)
        no(r) == "contradicts" \in Stances(basis, r)
        open(r) == "qualifies" \in Stances(basis, r)
        unclear(r) == (yes(r) /\ no(r)) \/ open(r)
        rejects(r) == /\ Kind[r].hard /\ ~unclear(r)
                      /\ \/ Kind[r].category = "exclude" /\ yes(r)
                         \/ Kind[r].category = "must" /\ no(r)
        unsure(r) == \/ unclear(r)
                     \/ Kind[r].category = "must" /\ ~yes(r) /\ ~rejects(r)
                     \/ Kind[r].category = "exclude" /\ Kind[r].hard /\ ~no(r) /\ ~rejects(r)
    IN  IF \E r \in Requirements : rejects(r) THEN "not_a_match"
        ELSE IF \/ \A r \in Requirements : Kind[r].category # "must"
                \/ \E r \in Requirements : unsure(r) THEN "needs_review"
        ELSE "match"

\* What a page review adds has no requirement and is skipped while its source
\* is current; once that has lapsed it is refused as invented evidence.
IsAssigned(basis) == \A x \in basis : Says[x.claim].about = "none" => x.current

\* validate_live_proposal: a model may lower what the evidence says to
\* needs_review, by disagreeing or by citing nothing, and never raise it.
Proposed(basis, proposal) ==
    IF Evaluated(basis) # "not_a_match" /\ proposal # {Evaluated(basis)} THEN "needs_review"
    ELSE Evaluated(basis)

------------------------------------------------------------------------------
(* The graph; a node that finds its basis changed ends the run as partial  *)

Steps(node) == outcome = "fit" /\ graph.node = node

\* _basis raises for a profile that is not the one of the run; 1 is the run's.
InScope == profile = 1

\* Mutant: a checkpoint is believed.
SameBasis_Checkpoint == InScope /\ IsAssigned(Basis)

SameBasis == InScope /\ graph.basis = Basis /\ IsAssigned(Basis)

GraphOnly == UNCHANGED <<present, lapsed, profile, attempt, decisions, version, selected, changes>>

GivesUp(node) ==
    /\ Steps(node)
    /\ outcome' = "partial"
    /\ UNCHANGED <<graph, fits>> /\ GraphOnly

LoadBasis(live) ==
    /\ Steps("load") /\ InScope
    /\ graph' = [Start EXCEPT !.node = "exclude", !.basis = Basis, !.live = live]
    /\ UNCHANGED <<outcome, fits>> /\ GraphOnly

HardExclusions ==
    /\ Steps("exclude") /\ SameBasis
    /\ graph' = [graph EXCEPT !.excluded = (Evaluated(Basis) = "not_a_match"),
                     !.node = IF Evaluated(Basis) = "not_a_match" THEN "verify" ELSE "fit"]
    /\ UNCHANGED <<outcome, fits>> /\ GraphOnly

\* The deterministic runner has nothing to ask. A model is asked only about
\* claims that are all current, and answers a verdict, with or without citing.
Fit(proposal) ==
    /\ Steps("fit")
    /\ IF graph.live THEN SameBasis /\ \A c \in present : IsCurrent(c) ELSE proposal = {}
    /\ graph' = [graph EXCEPT !.node = "verify", !.proposal = proposal]
    /\ UNCHANGED <<outcome, fits>> /\ GraphOnly

Verify ==
    /\ Steps("verify") /\ SameBasis
    /\ graph' = [graph EXCEPT !.node = "persist"]
    /\ UNCHANGED <<outcome, fits>> /\ GraphOnly

ByModel == graph.live /\ ~graph.excluded

\* The id of an assessment is made of the run, the buyer, the basis and the
\* model's answer: a repeated write finds the row.
Assessment == [icp |-> 1, basis |-> graph.basis, answer |-> graph.proposal, model |-> ByModel,
               verdict |-> IF ByModel THEN Proposed(Basis, graph.proposal) ELSE Evaluated(Basis)]

\* The worker may die between the commit and the checkpoint that follows it.
Persist(checkpointed) ==
    /\ Steps("persist") /\ SameBasis
    /\ fits' = IF \E i \in DOMAIN fits : fits[i] = Assessment THEN fits ELSE Append(fits, Assessment)
    /\ graph' = IF checkpointed THEN [graph EXCEPT !.node = "end"] ELSE graph
    /\ UNCHANGED outcome /\ GraphOnly

\* execute_fit looks at the basis once more before the run is complete.
CompleteFit ==
    /\ Steps("end") /\ InScope
    /\ outcome' = IF \E i \in DOMAIN fits : fits[i].basis = Basis THEN "completed" ELSE "partial"
    /\ UNCHANGED <<graph, fits>> /\ GraphOnly

\* A retry is a new attempt, and that is a new thread of checkpoints.
RetryFit ==
    /\ outcome = "partial" /\ attempt < MaxAttempts
    /\ attempt' = attempt + 1 /\ outcome' = "fit" /\ graph' = Start
    /\ UNCHANGED <<present, lapsed, profile, fits, decisions, version, selected, changes>>

------------------------------------------------------------------------------
(* The world around the graph                                              *)

Changes == changes < MaxChanges /\ changes' = changes + 1
           /\ UNCHANGED <<graph, attempt, outcome, fits, decisions, version, selected>>

SourceLapses(s) == s \notin lapsed /\ lapsed' = lapsed \cup {s} /\ Changes /\ UNCHANGED <<present, profile>>

PageReviewed(c) == c \notin present /\ present' = present \cup {c} /\ Changes /\ UNCHANGED <<lapsed, profile>>

ApproveProfile == profile' = profile + 1 /\ Changes /\ UNCHANGED <<present, lapsed>>

------------------------------------------------------------------------------
(* Reviews                                                                 *)

\* A reviewer reads a buyer, or makes a snapshot that holds for 15 minutes.
SelectBuyer(p, snapshot) ==
    /\ selected[p] = NoChoice
    /\ selected' = [selected EXCEPT ![p] = [version |-> version, fit |-> Len(fits), snapshot |-> snapshot]]
    /\ UNCHANGED <<present, lapsed, profile, graph, attempt, outcome, fits, decisions, version, changes>>

SnapshotExpires(p) ==
    /\ selected[p].snapshot
    /\ selected' = [selected EXCEPT ![p] = NoChoice]
    /\ UNCHANGED <<present, lapsed, profile, graph, attempt, outcome, fits, decisions, version, changes>>

\* Mutant: whoever writes last is right.
VersionMatches_Unchecked(p) == selected[p] # NoChoice

VersionMatches(p) == selected[p].version = version

\* Items that are in conflict, without an assessment or with one of another
\* profile are answered as such and change nothing; so is a repeated review.
Accepted(p, state) ==
    /\ selected[p] # NoChoice /\ VersionMatches(p)
    /\ fits # << >> /\ fits[Len(fits)].icp = profile
    /\ decisions = << >> \/ decisions[Len(decisions)].state # state
          \/ decisions[Len(decisions)].fit # Len(fits)

ReviewBuyer(p, state) ==
    /\ selected' = [selected EXCEPT ![p] = NoChoice]
    /\ IF Accepted(p, state)
       THEN /\ Len(decisions) < MaxReviews
            /\ decisions' = Append(decisions, [state |-> state, fit |-> Len(fits), seen |-> selected[p].version])
            /\ version' = version + 1
       ELSE selected[p] # NoChoice /\ UNCHANGED <<decisions, version>>
    /\ UNCHANGED <<present, lapsed, profile, graph, attempt, outcome, fits, changes>>

\* update_buyer: a note or an owner, under the same version.
UpdateBuyer(p) ==
    /\ selected[p] # NoChoice /\ ~selected[p].snapshot /\ VersionMatches(p) /\ changes < MaxChanges
    /\ version' = version + 1 /\ changes' = changes + 1
    /\ selected' = [selected EXCEPT ![p] = NoChoice]
    /\ UNCHANGED <<present, lapsed, profile, graph, attempt, outcome, fits, decisions>>

------------------------------------------------------------------------------
AssessmentInit ==
    /\ present = Claims \ Late /\ lapsed = {} /\ profile = 1
    /\ graph = Start /\ attempt = 1 /\ outcome = "fit" /\ fits = << >>
    /\ decisions = << >> /\ version = 1
    /\ selected = [p \in People |-> NoChoice] /\ changes = 0

AssessmentNext ==
    \/ \E live \in BOOLEAN : LoadBasis(live)
    \/ \E node \in {"load", "exclude", "fit", "verify", "persist", "end"} : GivesUp(node)
    \/ HardExclusions \/ Verify \/ CompleteFit \/ RetryFit
    \/ \E proposal \in {{}, {"match"}, {"needs_review"}} : Fit(proposal)
    \/ \E checkpointed \in BOOLEAN : Persist(checkpointed)
    \/ \E c \in Claims : SourceLapses(Says[c].source) \/ PageReviewed(c)
    \/ ApproveProfile
    \/ \E p \in People : \/ \E snapshot \in BOOLEAN : SelectBuyer(p, snapshot)
                         \/ SnapshotExpires(p) \/ UpdateBuyer(p)
                         \/ \E state \in {"accepted", "rejected"} : ReviewBuyer(p, state)

------------------------------------------------------------------------------
AssessmentTypeOK ==
    /\ present \subseteq Claims /\ outcome \in {"fit", "partial", "completed"}
    /\ \A i \in DOMAIN fits : fits[i].verdict \in {"match", "needs_review", "not_a_match"}
    /\ \A i \in DOMAIN decisions : decisions[i].fit \in DOMAIN fits

FitIsCurrent(fit) ==
    /\ profile = fit.icp /\ fit.basis = Basis /\ fit.verdict \in {Evaluated(Basis), "needs_review"}
    /\ fit.verdict = "match" =>
         \A r \in Requirements : Kind[r].category = "must" =>
            \E c \in Claims : IsCurrent(c) /\ ~Says[c].inferred /\ Says[c].about = r
                              /\ Says[c].stance = "supports"
    /\ \A i \in DOMAIN fits : fits[i].basis = fit.basis => fits[i].answer # fit.answer \/ fits[i].model # fit.model

DecisionHolds ==
    /\ fits' # fits => FitIsCurrent(fits'[Len(fits')])
    /\ decisions' # decisions =>
         \A i \in DOMAIN decisions : decisions[i].seen < decisions'[Len(decisions')].seen

\* An assessment is written of what is so when it is written, once for one
\* basis and answer, whatever the graph saw at its earlier nodes; a match has
\* a current claim of a source for every requirement that must hold. A review
\* is made by someone who saw every earlier one (FitDomainRunner.persist,
\* buyer_review.apply).
DecisionsHold == [][DecisionHolds]_assessmentVars
==============================================================================
