--------------------------- MODULE DraftGrounding ---------------------------
(***************************************************************************)
(* How a draft comes to be and may be approved: services/draft_service.py  *)
(* admits a preparation job, execution/handlers/draft_generate.py writes   *)
(* the draft when the queue delivers the job, once or often; people edit   *)
(* it, qualify what they typed (services/draft_grounding.py) and approve   *)
(* it (services/approval_service.py), while profiles, reviews, policies,   *)
(* recipients and sources change.                                          *)
(*                                                                         *)
(* A text is a set of pieces: quotations of claims, and what was typed. A  *)
(* version stands for a row with its hash. What happens to an approved     *)
(* copy is OutreachDelivery.                                               *)
(***************************************************************************)
EXTENDS Integers, FiniteSets, Sequences

CONSTANTS Claims,          \* evidence of the buyer that supports a requirement
          Jobs, MaxRevision, MaxChanges

VARIABLES basis,           \* what a draft rests on: versions of the rows
          assessments,            \* assessments of the buyer: [profile, cites]
          accepted,        \* the one its latest review accepts, or 0
          stale,           \* claims whose source is no longer available
          jobs, drafts, changed

groundingVars == <<basis, assessments, accepted, stale, jobs, drafts, changed>>

Parts == {"profile", "sender", "buyer", "policy", "recipient"}
Pieces == Claims \cup {"typed"}
NoCommand == [basis |-> << >>, fit |-> 0, refs |-> {}]
Unasked == [status |-> "none", command |-> NoCommand]

------------------------------------------------------------------------------
(* Preparation                                                             *)

\* The assessment is of the approved profile, accepted, and every source it
\* cites is available.
Accepts(fit) ==
    /\ fit \in DOMAIN assessments /\ accepted = fit
    /\ assessments[fit].profile = basis["profile"] /\ assessments[fit].cites \cap stale = {}

\* admit_grounded_template: only the latest assessment, only claims it cites.
AdmitGroundedTemplate(j, refs) ==
    /\ jobs[j].status = "none"
    /\ Accepts(Len(assessments)) /\ refs # {} /\ refs \subseteq assessments[Len(assessments)].cites
    /\ jobs' = [jobs EXCEPT ![j] = [status |-> "queued",
                    command |-> [basis |-> basis, fit |-> Len(assessments), refs |-> refs]]]
    /\ UNCHANGED <<basis, assessments, accepted, stale, drafts, changed>>

\* _materialize reads all the command names again; the assessment is the one
\* that was asked for, whether or not a newer one exists.
Unchanged(command) ==
    /\ command.basis = basis /\ Accepts(command.fit)
    /\ command.refs \cap stale = {}

\* The template quotes each claim and says so.
Generated(j) ==
    LET refs == jobs[j].command.refs IN
    [job |-> j, state |-> "draft", revision |-> 1, text |-> refs, refs |-> refs,
     claims |-> [piece \in refs |-> {piece}], grounded |-> TRUE, manual |-> FALSE,
     profile |-> basis["profile"], sender |-> basis["sender"], recipient |-> basis["recipient"],
     fit |-> jobs[j].command.fit, review |-> << >>, approved |-> FALSE]

\* Mutant: a repeated delivery is not noticed.
IsPending_Again(j) == jobs[j].status # "none"

\* Under the lock of the job a finished one is answered as a duplicate.
IsPending(j) == jobs[j].status = "queued"

Materialize(j) ==
    /\ IsPending(j)
    /\ IF Unchanged(jobs[j].command)
       THEN /\ jobs' = [jobs EXCEPT ![j].status = "completed"]
            /\ drafts' = Append(drafts, Generated(j))
       ELSE jobs' = [jobs EXCEPT ![j].status = "failed"] /\ UNCHANGED drafts
    /\ UNCHANGED <<basis, assessments, accepted, stale, changed>>

------------------------------------------------------------------------------
(* Editing and qualifying                                                  *)

Revised(d, text, refs, claims, grounded) ==
    [drafts[d] EXCEPT !.revision = @ + 1, !.state = "draft", !.text = text, !.refs = refs,
         !.claims = claims, !.grounded = grounded, !.manual = grounded,
         !.review = << >>, !.approved = FALSE]

DraftsOnly == UNCHANGED <<basis, assessments, accepted, stale, jobs, changed>>

\* Mutant: only the approval is dropped, the qualification stays.
Edited_KeepsClaims(d, text, refs) ==
    [Revised(d, text, refs, drafts[d].claims, drafts[d].grounded) EXCEPT !.manual = FALSE]

\* A person's text has no claims until it is qualified anew.
Edited(d, text, refs) == Revised(d, text, refs, << >>, FALSE)

EditDraft(d, text, refs) ==
    /\ drafts[d].revision < MaxRevision
    /\ refs = drafts[d].refs \/ refs \cap stale = {}
    /\ drafts' = [drafts EXCEPT ![d] = Edited(d, text, refs)]
    /\ DraftsOnly

\* validate_manual_segments: each piece is classified, as not factual or with
\* claims the draft selected; nothing is left out.
ValidSegments(d, claims) ==
    DOMAIN claims = drafts[d].text /\ \A piece \in DOMAIN claims : claims[piece] \subseteq drafts[d].refs

\* current_approval_context, apart from the text: the draft's rows are those
\* in force and the latest assessment is the one it was made from.
ContextHolds(d) ==
    /\ \A part \in {"profile", "sender", "recipient"} : drafts[d][part] = basis[part]
    /\ Accepts(Len(assessments)) /\ drafts[d].fit = Len(assessments)
    /\ drafts[d].refs # {} /\ drafts[d].refs \subseteq assessments[Len(assessments)].cites
    /\ drafts[d].refs \cap stale = {}

ReviewManualGrounding(d, claims) ==
    /\ ~drafts[d].grounded /\ drafts[d].text # {} /\ drafts[d].revision < MaxRevision
    /\ ValidSegments(d, claims) /\ ContextHolds(d)
    /\ drafts' = [drafts EXCEPT ![d] = Revised(d, drafts[d].text, drafts[d].refs, claims, TRUE)]
    /\ DraftsOnly

\* Only a manual qualification is compared with the text again.
Approvable(d) ==
    /\ drafts[d].grounded /\ drafts[d].text # {} /\ drafts[d].claims # << >> /\ ContextHolds(d)
    /\ drafts[d].manual => ValidSegments(d, drafts[d].claims)
    /\ \A piece \in DOMAIN drafts[d].claims :
           /\ drafts[d].claims[piece] \subseteq drafts[d].refs
           /\ drafts[d].claims[piece] # {} \/ drafts[d].manual

\* What the fingerprint of the context is taken of.
Fingerprint(d) == <<drafts[d].revision, basis, Len(assessments), accepted>>

RequestDraftReview(d) ==
    /\ Approvable(d)
    /\ drafts' = [drafts EXCEPT ![d].state = "review_requested", ![d].review = Fingerprint(d),
                                ![d].approved = FALSE]
    /\ DraftsOnly

ApproveDraft(d) ==
    /\ drafts[d].state = "review_requested" /\ Approvable(d) /\ drafts[d].review = Fingerprint(d)
    /\ drafts' = [drafts EXCEPT ![d].state = "approved", ![d].approved = TRUE]
    /\ DraftsOnly

------------------------------------------------------------------------------
(* What changes around a draft                                             *)

Change == changed < MaxChanges /\ changed' = changed + 1

\* invalidate_approvals_for_subject and buyer_review.apply
Disapproved == [d \in DOMAIN drafts |-> [drafts[d] EXCEPT !.approved = FALSE]]

\* A sender is activated in the transaction that withdraws what was approved for
\* the one before it.
Outdated == [d \in DOMAIN drafts |->
                [Disapproved[d] EXCEPT !.state = IF @ = "approved" THEN "stale" ELSE @]]

\* A profile is approved, a sender changed, a buyer edited, a policy
\* decided or a recipient verified anew; a policy or sender change is felt at once.
ChangePart(part) ==
    /\ Change /\ basis' = [basis EXCEPT ![part] = @ + 1]
    /\ drafts' = CASE part = "sender" -> Outdated [] part = "policy" -> Disapproved [] OTHER -> drafts
    /\ UNCHANGED <<assessments, accepted, stale, jobs>>

Assess ==
    /\ Change /\ assessments' = Append(assessments, [profile |-> basis["profile"], cites |-> Claims \ stale])
    /\ UNCHANGED <<basis, accepted, stale, jobs, drafts>>

ReviewFit(accepts) ==
    /\ Change /\ assessments # << >> /\ accepted # (IF accepts THEN Len(assessments) ELSE 0)
    /\ accepted' = IF accepts THEN Len(assessments) ELSE 0
    /\ basis' = [basis EXCEPT !["buyer"] = @ + 1]
    /\ drafts' = Disapproved
    /\ UNCHANGED <<assessments, stale, jobs>>

SourceLapses(c) ==
    /\ Change /\ c \notin stale /\ stale' = stale \cup {c}
    /\ UNCHANGED <<basis, assessments, accepted, jobs, drafts>>

------------------------------------------------------------------------------
GroundingInit ==
    /\ basis = [part \in Parts |-> 1]
    /\ assessments = <<[profile |-> 1, cites |-> Claims]>> /\ accepted = 1
    /\ stale = {} /\ jobs = [j \in Jobs |-> Unasked] /\ drafts = << >> /\ changed = 0

GroundingNext ==
    \/ \E j \in Jobs : \/ Materialize(j)
                       \/ \E refs \in SUBSET Claims : AdmitGroundedTemplate(j, refs)
    \/ \E d \in DOMAIN drafts :
          \/ \E text \in SUBSET Pieces, refs \in SUBSET Claims : EditDraft(d, text, refs)
          \/ \E claims \in [drafts[d].text -> SUBSET Claims] : ReviewManualGrounding(d, claims)
          \/ RequestDraftReview(d) \/ ApproveDraft(d)
    \/ \E part \in Parts : ChangePart(part)
    \/ \E accepts \in BOOLEAN : ReviewFit(accepts)
    \/ \E c \in Claims : SourceLapses(c)
    \/ Assess

------------------------------------------------------------------------------
GroundingTypeOK ==
    /\ DOMAIN basis = Parts /\ accepted \in 0..Len(assessments) /\ stale \subseteq Claims
    /\ \A j \in Jobs : jobs[j].status \in {"none", "queued", "completed", "failed"}
    /\ \A d \in DOMAIN drafts : drafts[d].text \subseteq Pieces /\ drafts[d].revision \in 1..MaxRevision

OneDraftPerRequest ==
    \A j \in Jobs : Cardinality({d \in DOMAIN drafts : drafts[d].job = j}) =
                    IF jobs[j].status = "completed" THEN 1 ELSE 0

ApprovedTextIsQualified ==
    \A d \in DOMAIN drafts : drafts[d].approved =>
        /\ drafts[d].text # {} /\ DOMAIN drafts[d].claims = drafts[d].text
        /\ \A piece \in drafts[d].text : drafts[d].claims[piece] \subseteq drafts[d].refs
        /\ \A piece \in drafts[d].text : drafts[d].claims[piece] = {} => drafts[d].manual

\* A request makes one draft, however often the queue delivers it; in an
\* approved draft everything that is said rests on a claim the draft selected,
\* or a person said that it states no fact - never on what an earlier text
\* was qualified with (_materialize, edit_draft, review_manual_grounding,
\* current_approval_context).
DraftsAreGrounded == OneDraftPerRequest /\ ApprovedTextIsQualified
==============================================================================
