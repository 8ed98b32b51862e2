---------------------------- MODULE LeadWorkflow ---------------------------
(***************************************************************************)
(* The manual dossier of one buyer, for one person and one channel of that *)
(* person (services/api/buyeros_api/services): lead_evidence_service keeps *)
(* observations, lead_review_service the human judgements that address     *)
(* them, lead_quality decides what both are worth today, and               *)
(* lead_preparation_service keeps a cited text, its revisions and the      *)
(* approvals of its content.  Nothing is marked stale when the sources     *)
(* change: a judgement and a text carry a hash of what they were made      *)
(* from, and every read computes it again.                                 *)
(*                                                                         *)
(* A hash is the record of what it covers.  The three judgements of a      *)
(* review are one; a text always cites what its review addressed.          *)
(***************************************************************************)
EXTENDS Naturals, Sequences, TLAPS

CONSTANTS
    MaxObservations,    \* bound: observations of the subject
    MaxReviews,         \* bound: judgements
    MaxRevision,        \* bound: revisions of the preparation
    MaxChanges          \* bound: changes of policy and product, and days that pass

VARIABLES
    observations,   \* lead_observations of the subject, in order
    judgements,     \* lead_reviews of the pair, in order
    leadCase,       \* version of the buyer's case
    form,           \* a judgement on its way: read, validated or none
    preparation,    \* the preparation with its current revision
    approver,       \* the preparation as the approver's screen shows it
    proofs,         \* the content reviews
    around          \* policy, approved product facts, and what was changed so far

leadVars == <<observations, judgements, leadCase, form, preparation, approver, proofs, around>>

NoForm == [at |-> "none"]
NoPreparation == [state |-> "none", version |-> 0, revision |-> 0, review |-> 0, product |-> 0,
                  context |-> <<>>, kept |-> FALSE]

Latest == Len(judgements)
HasChanges == around.changes < MaxChanges
Changed(a) == [a EXCEPT !.changes = @ + 1]

------------------------------------------------------------------------------
\* lead_quality: what observations and a judgement are worth now.

\* relevant_observations: a correction replaces the observation it names.
Relevant == {i \in DOMAIN observations :
                \A j \in DOMAIN observations : observations[j].supersedes # i}

Available(i) == around.allowed /\ observations[i].kept
Conflict == \E i \in Relevant : observations[i].stance = "refutes"
ValidSupport == {i \in Relevant : /\ observations[i].stance = "supports"
                                  /\ Available(i) /\ observations[i].fresh}
Supported(claim, rows) == \E i \in rows : observations[i].claim = claim
Claims == {"role", "channel"}

\* review_context.
ReviewContext == [policy |-> around.policy, sources |-> {<<i, Available(i)>> : i \in Relevant}]

ContextCurrent(n) == around.allowed /\ judgements[n].kept /\ judgements[n].context = ReviewContext

\* evaluate_lead_quality of the latest judgement.
Quality ==
    IF Latest = 0 THEN [base |-> FALSE, valid |-> {}, recent |-> FALSE]
    ELSE [base |-> /\ ContextCurrent(Latest) /\ judgements[Latest].addressed = Relevant
                   /\ Conflict => judgements[Latest].resolved,
          valid |-> ValidSupport,
          recent |-> judgements[Latest].fresh]
DirectChannel ==
    /\ Quality.base /\ Quality.recent /\ judgements[Latest].accepted
    /\ \A claim \in Claims : Supported(claim, Quality.valid)

------------------------------------------------------------------------------
\* Observations and judgements.

Observation(claim, stance, supersedes, at) ==
    [claim |-> claim, stance |-> stance, supersedes |-> supersedes, kept |-> TRUE, fresh |-> TRUE, at |-> at]

\* validate_observation: a correction is about the same claim.
Admissible(claim, supersedes) ==
    around.allowed /\ (supersedes # 0 => observations[supersedes].claim = claim)

AppendObservation(claim, stance, supersedes) ==
    /\ Len(observations) < MaxObservations /\ Admissible(claim, supersedes)
    /\ leadCase' = leadCase + 1
    /\ observations' = Append(observations, Observation(claim, stance, supersedes, leadCase'))
    /\ UNCHANGED <<judgements, form, preparation, approver, proofs, around>>

\* The page a judgement is made on.
ReadCase(accepted, resolved) ==
    /\ form = NoForm /\ Latest < MaxReviews
    /\ form' = [at |-> "read", expected |-> leadCase, addressed |-> Relevant,
                accepted |-> accepted, resolved |-> resolved, context |-> <<>>]
    /\ UNCHANGED <<observations, judgements, leadCase, preparation, approver, proofs, around>>

\* validate_lead_review, before the case is locked.
ValidateReview ==
    /\ form.at = "read" /\ around.allowed
    /\ form.addressed = Relevant /\ Relevant # {}
    /\ \A i \in Relevant : Available(i)
    /\ Conflict => form.resolved
    /\ form.accepted => \A claim \in Claims : \E i \in Relevant :
           observations[i].claim = claim /\ observations[i].stance = "supports"
    /\ form' = [form EXCEPT !.at = "validated", !.context = ReviewContext]
    /\ UNCHANGED <<observations, judgements, leadCase, preparation, approver, proofs, around>>

\* Mutant: the version is not compared once the case is locked.
Unchanged_Unchecked == TRUE

Unchanged == leadCase = form.expected

Judgement(at) ==
    [addressed |-> form.addressed, accepted |-> form.accepted, resolved |-> form.resolved,
     kept |-> TRUE, fresh |-> TRUE, at |-> at, context |-> [form.context EXCEPT !.policy = around.policy]]

\* append_lead_review: the case is locked, its version compared, the policy
\* asked again; the observations are those of the validation.
AppendReview ==
    /\ form.at = "validated" /\ Unchanged /\ around.allowed
    /\ leadCase' = leadCase + 1
    /\ judgements' = Append(judgements, Judgement(leadCase'))
    /\ form' = NoForm
    /\ UNCHANGED <<observations, preparation, approver, proofs, around>>

\* update_lead_case.
UpdateLeadCase ==
    /\ HasChanges /\ around' = Changed(around)
    /\ leadCase' = leadCase + 1
    /\ UNCHANGED <<observations, judgements, form, preparation, approver, proofs>>

DropForm ==
    /\ form # NoForm /\ form' = NoForm
    /\ UNCHANGED <<observations, judgements, leadCase, preparation, approver, proofs, around>>

------------------------------------------------------------------------------
\* Preparations.

\* The frame preparation_context hashes.
Context(review) ==
    [review |-> <<Latest, ContextCurrent(Latest)>>, quality |-> Quality,
     policy |-> around.policy, product |-> around.product,
     cited |-> {<<i, Available(i)>> : i \in judgements[review].addressed}]

\* It raises for facts that changed and for a cited source no longer readable.
Readable(review, product) ==
    /\ around.allowed /\ product = around.product
    /\ \A i \in judgements[review].addressed : Available(i)
NoBlockers(review) == review = Latest /\ DirectChannel

Current(p) == p.kept /\ Readable(p.review, p.product) /\ Context(p.review) = p.context
Clear(p) == Current(p) /\ NoBlockers(p.review)
Proven(p) == \E proof \in proofs : proof.revision = p.revision /\ proof.context = p.context

\* Mutant: the stored state is shown as it is.
ShownState_Stored(p) == p.state

\* get_preparation: the state a reader is shown.
ShownState(p) ==
    IF \/ p.state = "review_requested" /\ ~Clear(p)
       \/ p.state = "reviewed" /\ ~(Clear(p) /\ Proven(p))
    THEN "needs_review" ELSE p.state

\* _case_views: what is to be done next for this buyer.
Stage ==
    IF Latest = 0 THEN "find_person"
    ELSE IF ~Quality.base \/ ~Quality.recent THEN "refresh_evidence"
    ELSE IF ~(judgements[Latest].accepted /\ Supported("role", Quality.valid)) THEN "verify_procurement"
    ELSE IF ~DirectChannel THEN "verify_channel"
    ELSE IF ShownState(preparation) = "reviewed" THEN "complete" ELSE "review_preparation"

Revised(review) ==
    [state |-> "editing", version |-> preparation.version + 1, revision |-> preparation.revision + 1,
     review |-> review, product |-> around.product, context |-> Context(review), kept |-> TRUE]

\* create_preparation and revise_preparation.
WriteRevision(review) ==
    /\ preparation.state # "archived" /\ preparation.revision < MaxRevision
    /\ Readable(review, around.product)
    /\ preparation' = Revised(review)
    /\ UNCHANGED <<observations, judgements, leadCase, form, approver, proofs, around>>

\* change_preparation_state.
RequestReview ==
    /\ preparation.state \in {"editing", "reviewed", "review_requested"} /\ Clear(preparation)
    /\ preparation.version < MaxRevision + 2
    /\ preparation' = [preparation EXCEPT !.state = "review_requested", !.version = @ + 1]
    /\ UNCHANGED <<observations, judgements, leadCase, form, approver, proofs, around>>

Archive ==
    /\ preparation.state \notin {"none", "archived"}
    /\ preparation' = [preparation EXCEPT !.state = "archived", !.version = @ + 1]
    /\ UNCHANGED <<observations, judgements, leadCase, form, approver, proofs, around>>

\* What the approver knew, for the property below: the sources and facts of now.
Knowledge == <<Relevant, {i \in Relevant : Available(i)}, Latest, around.policy, around.product>>

OpenPreparation ==
    /\ preparation.state # "none" /\ Current(preparation)
    /\ approver' = [version |-> preparation.version, revision |-> preparation.revision,
                    context |-> preparation.context, knew |-> Knowledge]
    /\ UNCHANGED <<observations, judgements, leadCase, form, preparation, proofs, around>>

Proof == [revision |-> approver.revision, context |-> approver.context, knew |-> approver.knew]

\* review_preparation.
ReviewPreparation ==
    /\ preparation.state \notin {"none", "archived"}
    /\ preparation.version = approver.version /\ preparation.revision = approver.revision
    /\ preparation.context = approver.context /\ Clear(preparation)
    /\ preparation.version < MaxRevision + 2
    /\ preparation' = [preparation EXCEPT !.state = "reviewed", !.version = @ + 1]
    /\ proofs' = proofs \cup {Proof}
    /\ UNCHANGED <<observations, judgements, leadCase, form, approver, around>>

------------------------------------------------------------------------------
\* What changes around them.

Expire ==
    /\ HasChanges /\ around' = Changed(around)
    /\ \/ \E i \in DOMAIN observations :
             /\ observations' = [observations EXCEPT ![i].kept = FALSE]
             /\ UNCHANGED <<judgements, preparation>>
       \/ \E n \in DOMAIN judgements :
             /\ judgements' = [judgements EXCEPT ![n].kept = FALSE]
             /\ UNCHANGED <<observations, preparation>>
       \/ /\ preparation' = [preparation EXCEPT !.kept = FALSE]
          /\ UNCHANGED <<observations, judgements>>
    /\ UNCHANGED <<leadCase, form, approver, proofs>>

\* 7 days for a channel, 30 for a role: an observation or a judgement ages.
Age ==
    /\ HasChanges /\ around' = Changed(around)
    /\ \/ \E i \in DOMAIN observations :
             observations' = [observations EXCEPT ![i].fresh = FALSE] /\ UNCHANGED judgements
       \/ \E n \in DOMAIN judgements :
             judgements' = [judgements EXCEPT ![n].fresh = FALSE] /\ UNCHANGED observations
    /\ UNCHANGED <<leadCase, form, preparation, approver, proofs>>

ChangePolicy ==
    /\ HasChanges
    /\ around' = Changed(IF around.allowed THEN [around EXCEPT !.allowed = FALSE]
                         ELSE [around EXCEPT !.allowed = TRUE, !.policy = @ + 1])
    /\ UNCHANGED <<observations, judgements, leadCase, form, preparation, approver, proofs>>

ChangeProduct ==
    /\ HasChanges /\ around' = Changed([around EXCEPT !.product = @ + 1])
    /\ UNCHANGED <<observations, judgements, leadCase, form, preparation, approver, proofs>>

LeadInit ==
    /\ observations = <<>> /\ judgements = <<>> /\ leadCase = 1
    /\ form = NoForm /\ preparation = NoPreparation /\ proofs = {}
    /\ approver = [version |-> 0, revision |-> 0, context |-> <<>>, knew |-> <<>>]
    /\ around = [policy |-> 1, allowed |-> TRUE, product |-> 1, changes |-> 0]

LeadNext ==
    \/ \E claim \in Claims, stance \in {"supports", "refutes"}, n \in {0} \cup DOMAIN observations :
          AppendObservation(claim, stance, n)
    \/ \E accepted, resolved \in BOOLEAN : ReadCase(accepted, resolved)
    \/ ValidateReview \/ AppendReview \/ UpdateLeadCase \/ DropForm
    \/ \E n \in DOMAIN judgements : WriteRevision(n)
    \/ RequestReview \/ Archive \/ OpenPreparation \/ ReviewPreparation
    \/ Expire \/ Age \/ ChangePolicy \/ ChangeProduct

LeadSpec == LeadInit /\ [][LeadNext]_leadVars

------------------------------------------------------------------------------
LeadTypeOK ==
    /\ Len(observations) <= MaxObservations /\ Latest <= MaxReviews
    /\ preparation.state \in {"none", "editing", "review_requested", "reviewed", "archived"}
    /\ preparation.revision <= MaxRevision
    /\ form.at \in {"none", "read", "validated"}

\* A judgement addresses exactly the observations that counted when it was
\* recorded, although they were read before the case was locked: one that was
\* appended in between refuses the judgement instead of slipping under it
\* (validate_lead_review, lock_case, append_observation).
JudgementsSawEverything ==
    \A n \in DOMAIN judgements :
        LET earlier == {i \in DOMAIN observations : observations[i].at < judgements[n].at} IN
        judgements[n].addressed =
            {i \in earlier : \A j \in earlier : observations[j].supersedes # i}

\* A preparation is shown as reviewed only if somebody approved this revision
\* knowing the sources, the judgement, the facts and the policy that hold now,
\* and these still carry it: recent support of every claim, no open conflict
\* (get_preparation, reviewed_subjects, has_current_reviewed_preparation).
ReviewedIsCurrent ==
    ShownState(preparation) = "reviewed" \/ Stage = "complete" =>
        /\ \E proof \in proofs : proof.revision = preparation.revision /\ proof.knew = Knowledge
        /\ judgements[Latest].accepted /\ judgements[Latest].fresh
        /\ \A claim \in Claims : Supported(claim, ValidSupport)
        /\ Conflict => judgements[Latest].resolved
------------------------------------------------------------------------------
(* Proofs, for any number of observations, judgements, revisions and changes. *)

ObservationRecord == [claim : Claims, stance : {"supports", "refutes"}, supersedes : Nat,
                      kept : BOOLEAN, fresh : BOOLEAN, at : Nat]
ContextRecord == [policy : Nat, sources : SUBSET (Nat \X BOOLEAN)]
JudgementRecord == [addressed : SUBSET Nat, accepted : BOOLEAN, resolved : BOOLEAN,
                    kept : BOOLEAN, fresh : BOOLEAN, at : Nat, context : ContextRecord]
FormRecord == [at : {"read", "validated"}, expected : Nat, addressed : SUBSET Nat,
               accepted : BOOLEAN, resolved : BOOLEAN, context : ContextRecord \cup {<<>>}]
AroundRecord == [policy : Nat, allowed : BOOLEAN, product : Nat, changes : Nat]

LeadTypes ==
    /\ observations \in Seq(ObservationRecord)
    /\ judgements \in Seq(JudgementRecord)
    /\ leadCase \in Nat
    /\ form = NoForm \/ form \in FormRecord
    /\ form.at = "validated" => form.context \in ContextRecord
    /\ around \in AroundRecord

\* Every row is as old as the version of the case it was written at.
RowsAreOld ==
    /\ \A i \in DOMAIN observations : observations[i].at <= leadCase
    /\ \A n \in DOMAIN judgements : judgements[n].at <= leadCase

\* A judgement on its way addresses what counts, unless the case went on.
FormIsTimely ==
    form.at \in {"read", "validated"} =>
        /\ form.expected <= leadCase
        /\ form.expected = leadCase => form.addressed = Relevant

\* What a context tells of its time, once it says that its judgement holds: the
\* sources are those the judgement was made on.
SourcesOf(context) == judgements[context.review[1]].context.sources
KnowledgeOf(context) ==
    <<{s[1] : s \in SourcesOf(context)}, {s[1] : s \in {t \in SourcesOf(context) : t[2]}},
      context.review[1], context.policy, context.product>>
Tells(context, knew) ==
    context # <<>> /\ context.quality.base =>
        context.review[1] \in DOMAIN judgements /\ knew = KnowledgeOf(context)

\* Whoever approves, or approved, knew what the context he saw tells.
ApproversKnew ==
    /\ Tells(approver.context, approver.knew)
    /\ \A proof \in proofs : Tells(proof.context, proof.knew)

LeadInv == LeadTypes /\ RowsAreOld /\ FormIsTimely /\ JudgementsSawEverything /\ ApproversKnew

\* The review context a judgement is current in tells what is known.
LEMMA SourcesTell ==
    ASSUME LeadTypes, NEW n \in DOMAIN judgements, ContextCurrent(n)
    PROVE  /\ {s[1] : s \in judgements[n].context.sources} = Relevant
           /\ {s[1] : s \in {t \in judgements[n].context.sources : t[2]}}
                = {i \in Relevant : Available(i)}
<1>1. judgements[n].context.sources = {<<i, Available(i)>> : i \in Relevant}
  BY DEF ContextCurrent, ReviewContext
<1>2. \A i \in Relevant : Available(i) \in BOOLEAN
  BY DEF LeadTypes, Available, Relevant, ObservationRecord, AroundRecord
<1> DEFINE sources == judgements[n].context.sources
<1>3. \A i \in Relevant : /\ <<i, Available(i)>> \in sources
                          /\ <<i, Available(i)>>[1] = i /\ <<i, Available(i)>>[2] = Available(i)
  BY <1>1, <1>2
<1>4. ASSUME NEW s \in sources PROVE s[1] \in Relevant /\ (s[2] <=> Available(s[1]))
  <2>1. PICK i \in Relevant : s = <<i, Available(i)>>
    BY <1>1
  <2> QED BY <2>1, <1>2
<1> HIDE DEF sources
<1>5. {s[1] : s \in sources} = Relevant
  BY <1>3, <1>4
<1>6. {s[1] : s \in {t \in sources : t[2]}} = {i \in Relevant : Available(i)}
  <2>1. ASSUME NEW i \in Relevant, Available(i)
        PROVE  i \in {s[1] : s \in {t \in sources : t[2]}}
    <3>1. <<i, Available(i)>> \in {t \in sources : t[2]}
      BY <1>3, <2>1
    <3> QED BY <3>1, <1>3
  <2>2. \A s \in {t \in sources : t[2]} : s[1] \in Relevant /\ Available(s[1])
    BY <1>4
  <2> QED BY <2>1, <2>2
<1> QED BY <1>5, <1>6 DEF sources

\* Equal contexts are equal knowledge.
LEMMA ContextTells ==
    ASSUME LeadTypes, NEW review, Quality.base
    PROVE  /\ Context(review) # <<>> /\ Context(review).quality.base
           /\ Context(review).review[1] = Latest /\ Latest \in DOMAIN judgements
           /\ KnowledgeOf(Context(review)) = Knowledge
<1>1. /\ Context(review).quality = Quality /\ Context(review).review[1] = Latest
      /\ Context(review).policy = around.policy /\ Context(review).product = around.product
  BY DEF Context
<1>2. Context(review) # <<>>
  <2>1. "review" \in DOMAIN Context(review)  BY DEF Context
  <2>2. "review" \notin DOMAIN <<>>  OBVIOUS
  <2> QED BY <2>1, <2>2
<1>3. Latest \in DOMAIN judgements /\ ContextCurrent(Latest)
  BY DEF Quality, Latest, LeadTypes
<1>4. KnowledgeOf(Context(review)) = Knowledge
  BY <1>1, <1>3, SourcesTell DEF KnowledgeOf, SourcesOf, Knowledge
<1> QED BY <1>1, <1>2, <1>3, <1>4

\* Judgements keep what they were made on, and none is taken away.
JudgementsStay ==
    \A n \in DOMAIN judgements : n \in DOMAIN judgements' /\ judgements'[n].context = judgements[n].context

LEMMA TellsForGood ==
    ASSUME JudgementsStay, NEW context, NEW knew, Tells(context, knew)
    PROVE  Tells(context, knew)'
BY DEF JudgementsStay, Tells, KnowledgeOf, SourcesOf

------------------------------------------------------------------------------
\* A step that records nothing: rows stay what they say and when they were written.
RowsStay ==
    /\ DOMAIN observations' = DOMAIN observations
    /\ \A i \in DOMAIN observations : /\ observations'[i].supersedes = observations[i].supersedes
                                      /\ observations'[i].at = observations[i].at
    /\ DOMAIN judgements' = DOMAIN judgements
    /\ \A n \in DOMAIN judgements : /\ judgements'[n].addressed = judgements[n].addressed
                                    /\ judgements'[n].at = judgements[n].at
                                    /\ judgements'[n].context = judgements[n].context

\* What a row is made of.
LEMMA RowTypes ==
    ASSUME LeadTypes
    PROVE  /\ \A i \in DOMAIN observations : observations[i] \in ObservationRecord
           /\ \A n \in DOMAIN judgements : judgements[n] \in JudgementRecord
           /\ \A i \in DOMAIN observations : observations[i].at \in Nat
           /\ \A n \in DOMAIN judgements : judgements[n].at \in Nat
<1>1. /\ \A i \in DOMAIN observations : observations[i] \in ObservationRecord
      /\ \A n \in DOMAIN judgements : judgements[n] \in JudgementRecord
  BY DEF LeadTypes
<1> QED BY <1>1 DEF ObservationRecord, JudgementRecord

\* One row is touched, and stays what it says and when it was written.
LEMMA ObservationTouched ==
    ASSUME observations \in Seq(ObservationRecord), NEW i \in DOMAIN observations,
           \/ observations' = [observations EXCEPT ![i].kept = FALSE]
           \/ observations' = [observations EXCEPT ![i].fresh = FALSE]
    PROVE  /\ observations' \in Seq(ObservationRecord)
           /\ DOMAIN observations' = DOMAIN observations
           /\ \A j \in DOMAIN observations : /\ observations'[j].supersedes = observations[j].supersedes
                                             /\ observations'[j].at = observations[j].at
<1>1. \A j \in DOMAIN observations : observations[j] \in ObservationRecord
  OBVIOUS
<1>2. \A row \in ObservationRecord :
          /\ [row EXCEPT !.kept = FALSE] \in ObservationRecord
          /\ [row EXCEPT !.fresh = FALSE] \in ObservationRecord
          /\ [row EXCEPT !.kept = FALSE].supersedes = row.supersedes
          /\ [row EXCEPT !.fresh = FALSE].supersedes = row.supersedes
          /\ [row EXCEPT !.kept = FALSE].at = row.at
          /\ [row EXCEPT !.fresh = FALSE].at = row.at
  BY DEF ObservationRecord
<1>3. PICK row \in ObservationRecord :
          /\ observations' = [observations EXCEPT ![i] = row]
          /\ row.supersedes = observations[i].supersedes /\ row.at = observations[i].at
  <2>1. CASE observations' = [observations EXCEPT ![i].kept = FALSE]
    <3>1. observations' = [observations EXCEPT ![i] = [observations[i] EXCEPT !.kept = FALSE]]
      BY <2>1
    <3> QED BY <1>1, <1>2, <3>1
  <2>2. CASE observations' = [observations EXCEPT ![i].fresh = FALSE]
    <3>1. observations' = [observations EXCEPT ![i] = [observations[i] EXCEPT !.fresh = FALSE]]
      BY <2>2
    <3> QED BY <1>1, <1>2, <3>1
  <2> QED BY <2>1, <2>2
<1> QED BY <1>3

LEMMA JudgementTouched ==
    ASSUME judgements \in Seq(JudgementRecord), NEW i \in DOMAIN judgements,
           \/ judgements' = [judgements EXCEPT ![i].kept = FALSE]
           \/ judgements' = [judgements EXCEPT ![i].fresh = FALSE]
    PROVE  /\ judgements' \in Seq(JudgementRecord)
           /\ DOMAIN judgements' = DOMAIN judgements
           /\ \A n \in DOMAIN judgements : /\ judgements'[n].addressed = judgements[n].addressed
                                           /\ judgements'[n].at = judgements[n].at
                                           /\ judgements'[n].context = judgements[n].context
<1>1. \A j \in DOMAIN judgements : judgements[j] \in JudgementRecord
  OBVIOUS
<1>2. \A row \in JudgementRecord :
          /\ [row EXCEPT !.kept = FALSE] \in JudgementRecord
          /\ [row EXCEPT !.fresh = FALSE] \in JudgementRecord
          /\ [row EXCEPT !.kept = FALSE].addressed = row.addressed
          /\ [row EXCEPT !.fresh = FALSE].addressed = row.addressed
          /\ [row EXCEPT !.kept = FALSE].at = row.at
          /\ [row EXCEPT !.fresh = FALSE].at = row.at
          /\ [row EXCEPT !.kept = FALSE].context = row.context
          /\ [row EXCEPT !.fresh = FALSE].context = row.context
  BY DEF JudgementRecord
<1>3. PICK row \in JudgementRecord :
          /\ judgements' = [judgements EXCEPT ![i] = row]
          /\ row.addressed = judgements[i].addressed /\ row.at = judgements[i].at
          /\ row.context = judgements[i].context
  <2>1. CASE judgements' = [judgements EXCEPT ![i].kept = FALSE]
    <3>1. judgements' = [judgements EXCEPT ![i] = [judgements[i] EXCEPT !.kept = FALSE]]
      BY <2>1
    <3> QED BY <1>1, <1>2, <3>1
  <2>2. CASE judgements' = [judgements EXCEPT ![i].fresh = FALSE]
    <3>1. judgements' = [judgements EXCEPT ![i] = [judgements[i] EXCEPT !.fresh = FALSE]]
      BY <2>2
    <3> QED BY <1>1, <1>2, <3>1
  <2> QED BY <2>1, <2>2
<1> QED BY <1>3

LEMMA ChangedType == ASSUME NEW a \in AroundRecord PROVE Changed(a) \in AroundRecord
BY DEF Changed, AroundRecord

\* The steps of others.
LEMMA OthersStay ==
    ASSUME LeadTypes,
           UpdateLeadCase \/ Expire \/ Age \/ ChangePolicy \/ ChangeProduct
    PROVE  LeadTypes' /\ RowsStay /\ form' = form /\ leadCase <= leadCase'
           /\ UNCHANGED <<approver, proofs>>
<1>1. CASE UpdateLeadCase
  <2>1. around' \in AroundRecord
    BY <1>1 DEF UpdateLeadCase, Changed, LeadTypes, AroundRecord
  <2> QED BY <1>1, <2>1 DEF UpdateLeadCase, LeadTypes, RowsStay
<1>2. CASE Expire
  <2>1. around' \in AroundRecord
    BY <1>2 DEF Expire, Changed, LeadTypes, AroundRecord
  <2>2. observations' \in Seq(ObservationRecord) /\ judgements' \in Seq(JudgementRecord) /\ RowsStay
    BY <1>2, ObservationTouched, JudgementTouched DEF Expire, LeadTypes, RowsStay
  <2> QED BY <1>2, <2>1, <2>2 DEF Expire, LeadTypes
<1>3. CASE Age
  <2>1. around' \in AroundRecord
    BY <1>3 DEF Age, Changed, LeadTypes, AroundRecord
  <2>2. observations' \in Seq(ObservationRecord) /\ judgements' \in Seq(JudgementRecord) /\ RowsStay
    BY <1>3, ObservationTouched, JudgementTouched DEF Age, LeadTypes, RowsStay
  <2> QED BY <1>3, <2>1, <2>2 DEF Age, LeadTypes
<1>4. CASE ChangePolicy
  <2>1. around' \in AroundRecord
    <3>1. /\ [around EXCEPT !.allowed = FALSE] \in AroundRecord
          /\ [around EXCEPT !.allowed = TRUE, !.policy = @ + 1] \in AroundRecord
      <4>1. around \in AroundRecord
        BY DEF LeadTypes
      <4>2. \A a \in AroundRecord : /\ [a EXCEPT !.allowed = FALSE] \in AroundRecord
                                    /\ [a EXCEPT !.allowed = TRUE, !.policy = @ + 1] \in AroundRecord
        <5> TAKE a \in AroundRecord
        <5>1. a.policy + 1 \in Nat
          BY DEF AroundRecord
        <5>2. \A p \in Nat : [a EXCEPT !.allowed = TRUE, !.policy = p] \in AroundRecord
          BY DEF AroundRecord
        <5>3. [a EXCEPT !.allowed = FALSE] \in AroundRecord
          BY DEF AroundRecord
        <5> QED BY <5>1, <5>2, <5>3
      <4> QED BY <4>1, <4>2
    <3> QED BY <1>4, <3>1, ChangedType DEF ChangePolicy
  <2> QED BY <1>4, <2>1 DEF ChangePolicy, LeadTypes, RowsStay
<1>5. CASE ChangeProduct
  <2>1. around' \in AroundRecord
    <3>1. [around EXCEPT !.product = @ + 1] \in AroundRecord
      BY DEF LeadTypes, AroundRecord
    <3> QED BY <1>5, <3>1, ChangedType DEF ChangeProduct
  <2> QED BY <1>5, <2>1 DEF ChangeProduct, LeadTypes, RowsStay
<1> QED BY <1>1, <1>2, <1>3, <1>4, <1>5

\* As long as no row is added, decisions stay as informed as they were.
LEMMA RowsStayDecided ==
    ASSUME LeadTypes, RowsAreOld, JudgementsSawEverything, RowsStay,
           leadCase' \in Nat, leadCase <= leadCase'
    PROVE  /\ RowsAreOld' /\ JudgementsSawEverything' /\ JudgementsStay
           /\ Relevant' = Relevant
<1>1. RowsAreOld'
  <2>1. leadCase \in Nat
    BY DEF LeadTypes
  <2> QED BY <2>1, RowTypes DEF RowsAreOld, RowsStay
<1>2. JudgementsSawEverything'
  BY DEF JudgementsSawEverything, RowsStay
<1>3. JudgementsStay
  BY DEF JudgementsStay, RowsStay
<1>4. Relevant' = Relevant
  BY DEF Relevant, RowsStay
<1> QED BY <1>1, <1>2, <1>3, <1>4

\* An observation is newer than all that was decided; a judgement is of the
\* version of the case its form was read at.
LEMMA ObservationAppended ==
    ASSUME LeadInv, NEW claim \in Claims, NEW stance \in {"supports", "refutes"},
           NEW n \in {0} \cup DOMAIN observations, AppendObservation(claim, stance, n)
    PROVE  LeadInv'
<1> DEFINE row == Observation(claim, stance, n, leadCase + 1)
<1>0. LeadTypes /\ RowsAreOld /\ FormIsTimely /\ JudgementsSawEverything /\ ApproversKnew
  BY DEF LeadInv
<1>1. /\ leadCase' = leadCase + 1 /\ observations' = Append(observations, row)
      /\ UNCHANGED <<judgements, form, approver, proofs, around>>
  BY DEF AppendObservation
<1>2. n \in Nat
  BY <1>0 DEF LeadTypes
<1>3. row \in ObservationRecord /\ row.at = leadCase + 1
  BY <1>0, <1>2 DEF Observation, ObservationRecord, LeadTypes
<1> HIDE DEF row
<1>4. LeadTypes'
  BY <1>0, <1>1, <1>3 DEF LeadTypes
<1>5. /\ DOMAIN observations' = DOMAIN observations \cup {Len(observations) + 1}
      /\ observations'[Len(observations) + 1] = row
      /\ \A i \in DOMAIN observations : observations'[i] = observations[i]
  BY <1>0, <1>1, <1>3 DEF LeadTypes
<1>6. RowsAreOld'
  BY <1>0, <1>1, <1>3, <1>5, RowTypes DEF RowsAreOld, LeadTypes
<1>7. FormIsTimely'
  <2>1. form.at \in {"read", "validated"} => form.expected \in Nat
    BY <1>0 DEF LeadTypes, FormRecord, NoForm
  <2> QED BY <2>1, <1>0, <1>1 DEF FormIsTimely, LeadTypes
<1>8. JudgementsSawEverything'
  <2> SUFFICES ASSUME NEW m \in DOMAIN judgements
               PROVE  LET earlier == {i \in DOMAIN observations' : observations'[i].at < judgements[m].at} IN
                      judgements[m].addressed =
                          {i \in earlier : \A j \in earlier : observations'[j].supersedes # i}
    BY <1>1 DEF JudgementsSawEverything
  <2> DEFINE earlier == {i \in DOMAIN observations : observations[i].at < judgements[m].at}
             later == {i \in DOMAIN observations' : observations'[i].at < judgements[m].at}
  <2>1. judgements[m].at <= leadCase /\ judgements[m].at \in Nat /\ leadCase \in Nat
    BY <1>0, RowTypes DEF RowsAreOld, LeadTypes
  <2>2. later = earlier
    BY <2>1, <1>3, <1>5
  <2>3. judgements[m].addressed = {i \in earlier : \A j \in earlier : observations[j].supersedes # i}
    BY <1>0 DEF JudgementsSawEverything
  <2>4. \A j \in earlier : observations'[j] = observations[j]
    BY <1>5
  <2> HIDE DEF earlier
  <2>5. judgements[m].addressed = {i \in later : \A j \in later : observations'[j].supersedes # i}
    BY <2>2, <2>3, <2>4
  <2> QED BY <2>5
<1>9. ApproversKnew'
  BY <1>0, <1>1, TellsForGood DEF ApproversKnew, JudgementsStay
<1> QED BY <1>4, <1>6, <1>7, <1>8, <1>9 DEF LeadInv

LEMMA ReviewAppended == LeadInv /\ AppendReview => LeadInv'
<1> SUFFICES ASSUME LeadInv, AppendReview PROVE LeadInv'
  OBVIOUS
<1> DEFINE row == Judgement(leadCase + 1)
<1>0. LeadTypes /\ RowsAreOld /\ FormIsTimely /\ JudgementsSawEverything /\ ApproversKnew
  BY DEF LeadInv
<1>1. /\ leadCase' = leadCase + 1 /\ judgements' = Append(judgements, row) /\ form' = NoForm
      /\ UNCHANGED <<observations, approver, proofs, around>>
      /\ form.at = "validated" /\ form.expected = leadCase
  BY DEF AppendReview, Unchanged
<1>2. form \in FormRecord /\ form.context \in ContextRecord
  BY <1>0, <1>1 DEF LeadTypes, NoForm
<1>3. [form.context EXCEPT !.policy = around.policy] \in ContextRecord
  BY <1>0, <1>2 DEF ContextRecord, LeadTypes, AroundRecord
<1>4. row \in JudgementRecord /\ row.at = leadCase + 1 /\ row.addressed = Relevant
  <2>1. row.addressed = Relevant
    BY <1>0, <1>1 DEF FormIsTimely, Judgement
  <2> QED BY <1>0, <1>2, <1>3, <2>1 DEF Judgement, JudgementRecord, FormRecord, LeadTypes
<1> HIDE DEF row
<1>5. LeadTypes'
  BY <1>0, <1>1, <1>4 DEF LeadTypes, NoForm
<1>6. /\ DOMAIN judgements' = DOMAIN judgements \cup {Len(judgements) + 1}
      /\ judgements'[Len(judgements) + 1] = row
      /\ \A m \in DOMAIN judgements : judgements'[m] = judgements[m]
  BY <1>0, <1>1, <1>4 DEF LeadTypes
<1>7. RowsAreOld'
  BY <1>0, <1>1, <1>4, <1>6, RowTypes DEF RowsAreOld, LeadTypes
<1>8. FormIsTimely'
  BY <1>1 DEF FormIsTimely, NoForm
<1>9. JudgementsSawEverything'
  <2> SUFFICES ASSUME NEW m \in DOMAIN judgements'
               PROVE  LET earlier == {i \in DOMAIN observations : observations[i].at < judgements'[m].at} IN
                      judgements'[m].addressed =
                          {i \in earlier : \A j \in earlier : observations[j].supersedes # i}
    BY <1>1 DEF JudgementsSawEverything
  <2>1. CASE m \in DOMAIN judgements
    BY <2>1, <1>0, <1>6 DEF JudgementsSawEverything
  <2>2. CASE m = Len(judgements) + 1
    <3> DEFINE earlier == {i \in DOMAIN observations : observations[i].at < judgements'[m].at}
    <3>1. \A i \in DOMAIN observations : observations[i].at <= leadCase /\ observations[i].at \in Nat
      BY <1>0, RowTypes DEF RowsAreOld
    <3>2. earlier = DOMAIN observations
      <4>1. judgements'[m].at = leadCase + 1 /\ leadCase \in Nat
        BY <2>2, <1>0, <1>4, <1>6 DEF LeadTypes
      <4> QED BY <3>1, <4>1
    <3>3. judgements'[m].addressed = Relevant
      BY <2>2, <1>4, <1>6
    <3> HIDE DEF earlier
    <3>4. judgements'[m].addressed = {i \in earlier : \A j \in earlier : observations[j].supersedes # i}
      BY <3>2, <3>3 DEF Relevant
    <3> QED BY <3>4 DEF earlier
  <2> QED BY <2>1, <2>2, <1>6
<1>10. ApproversKnew'
  <2>1. JudgementsStay
    BY <1>6 DEF JudgementsStay
  <2> QED BY <2>1, <1>0, <1>1, TellsForGood DEF ApproversKnew
<1> QED BY <1>5, <1>7, <1>8, <1>9, <1>10 DEF LeadInv

\* The steps that leave all rows as they are, and what was known.
LEMMA FormMoves ==
    LeadInv /\ ((\E accepted, resolved \in BOOLEAN : ReadCase(accepted, resolved))
                \/ ValidateReview \/ DropForm) => LeadInv'
<1> SUFFICES ASSUME LeadInv,
                    (\E accepted, resolved \in BOOLEAN : ReadCase(accepted, resolved))
                    \/ ValidateReview \/ DropForm
             PROVE  LeadInv'
  OBVIOUS
<1>0. LeadTypes /\ RowsAreOld /\ FormIsTimely /\ JudgementsSawEverything /\ ApproversKnew
  BY DEF LeadInv
<1>1. UNCHANGED <<observations, judgements, leadCase, approver, proofs, around>>
  BY DEF ReadCase, ValidateReview, DropForm
<1>2. RowsStay /\ leadCase' \in Nat /\ leadCase <= leadCase'
  BY <1>0, <1>1 DEF RowsStay, LeadTypes
<1>3. RowsAreOld' /\ JudgementsSawEverything' /\ JudgementsStay /\ Relevant' = Relevant
  BY <1>0, <1>2, RowsStayDecided
<1>4. ApproversKnew'
  BY <1>0, <1>1, <1>3, TellsForGood DEF ApproversKnew
<1>5. Relevant \in SUBSET Nat
  BY <1>0 DEF Relevant, LeadTypes
<1>6. (form' = NoForm \/ form' \in FormRecord) /\ (form'.at = "validated" => form'.context \in ContextRecord)
      /\ FormIsTimely'
  <2>1. ASSUME NEW accepted \in BOOLEAN, NEW resolved \in BOOLEAN, ReadCase(accepted, resolved)
        PROVE  form' \in FormRecord /\ form'.at = "read" /\ FormIsTimely'
    BY <2>1, <1>0, <1>3, <1>5 DEF ReadCase, FormRecord, FormIsTimely, LeadTypes
  <2>2. ASSUME ValidateReview
        PROVE  form' \in FormRecord /\ form'.context \in ContextRecord /\ FormIsTimely'
    <3>1. \A i \in Relevant : Available(i) \in BOOLEAN
      BY <1>0, RowTypes DEF Relevant, Available, ObservationRecord, LeadTypes, AroundRecord
    <3>2. ReviewContext \in ContextRecord
      BY <3>1, <1>0, <1>5 DEF ReviewContext, ContextRecord, LeadTypes, AroundRecord
    <3>3. form \in FormRecord /\ form.at = "read"
      BY <2>2, <1>0 DEF ValidateReview, LeadTypes, NoForm
    <3>4. form' = [form EXCEPT !.at = "validated", !.context = ReviewContext]
      BY <2>2 DEF ValidateReview
    <3>5. form' \in FormRecord /\ form'.context = ReviewContext /\ form'.expected = form.expected
          /\ form'.addressed = form.addressed
      BY <3>2, <3>3, <3>4 DEF FormRecord
    <3> QED BY <3>2, <3>3, <3>5, <1>0, <1>1, <1>3 DEF FormIsTimely
  <2>3. ASSUME DropForm PROVE form' = NoForm /\ FormIsTimely'
    BY <2>3 DEF DropForm, NoForm, FormIsTimely
  <2> QED BY <2>1, <2>2, <2>3 DEF NoForm
<1> QED BY <1>0, <1>1, <1>3, <1>4, <1>6 DEF LeadInv, LeadTypes

\* The steps on the preparation, and what the approver takes with him.
LEMMA PreparationMoves ==
    LeadInv /\ ((\E n \in DOMAIN judgements : WriteRevision(n))
                \/ RequestReview \/ Archive \/ OpenPreparation \/ ReviewPreparation) => LeadInv'
<1> SUFFICES ASSUME LeadInv,
                    (\E n \in DOMAIN judgements : WriteRevision(n))
                    \/ RequestReview \/ Archive \/ OpenPreparation \/ ReviewPreparation
             PROVE  LeadInv'
  OBVIOUS
<1>0. LeadTypes /\ RowsAreOld /\ FormIsTimely /\ JudgementsSawEverything /\ ApproversKnew
  BY DEF LeadInv
<1>1. UNCHANGED <<observations, judgements, leadCase, form, around>>
  BY DEF WriteRevision, RequestReview, Archive, OpenPreparation, ReviewPreparation
<1>2. RowsStay /\ leadCase' \in Nat /\ leadCase <= leadCase'
  BY <1>0, <1>1 DEF RowsStay, LeadTypes
<1>3. RowsAreOld' /\ JudgementsSawEverything' /\ JudgementsStay /\ Relevant' = Relevant
  BY <1>0, <1>2, RowsStayDecided
<1>4. ApproversKnew'
  <2>1. Tells(approver'.context, approver'.knew)
    <3>1. CASE OpenPreparation
      <4>1. /\ preparation.context = Context(preparation.review)
            /\ approver'.context = preparation.context /\ approver'.knew = Knowledge
        BY <3>1 DEF OpenPreparation, Current
      <4>2. Context(preparation.review).quality = Quality
        BY DEF Context
      <4>3. Quality.base => /\ Context(preparation.review).review[1] \in DOMAIN judgements
                            /\ KnowledgeOf(Context(preparation.review)) = Knowledge
        BY <1>0, ContextTells
      <4> HIDE DEF Context, Quality, Knowledge, KnowledgeOf
      <4> QED BY <4>1, <4>2, <4>3 DEF Tells
    <3>2. CASE approver' = approver
      BY <3>2, <1>0 DEF ApproversKnew
    <3> QED BY <3>1, <3>2 DEF WriteRevision, RequestReview, Archive, ReviewPreparation
  <2>2. \A proof \in proofs' : Tells(proof.context, proof.knew)
    <3>1. CASE ReviewPreparation
      BY <3>1, <1>0 DEF ReviewPreparation, Proof, ApproversKnew
    <3>2. CASE proofs' = proofs
      BY <3>2, <1>0 DEF ApproversKnew
    <3> QED BY <3>1, <3>2 DEF WriteRevision, RequestReview, Archive, OpenPreparation
  <2>3. PICK context, knew : context = approver'.context /\ knew = approver'.knew
    OBVIOUS
  <2>4. Tells(context, knew)'
    BY <2>1, <2>3, <1>3, TellsForGood
  <2>5. \A proof \in proofs' : Tells(proof.context, proof.knew)'
    <3> TAKE proof \in proofs'
    <3>1. PICK c, k : c = proof.context /\ k = proof.knew
      OBVIOUS
    <3>2. Tells(c, k)'
      BY <2>2, <3>1, <1>3, TellsForGood
    <3> QED BY <3>1, <3>2
  <2>6. Tells(approver.context, approver.knew)'
    BY <2>3, <2>4
  <2> QED BY <2>5, <2>6 DEF ApproversKnew
<1>5. FormIsTimely' /\ LeadTypes'
  BY <1>0, <1>1, <1>3 DEF FormIsTimely, LeadTypes
<1> QED BY <1>3, <1>4, <1>5 DEF LeadInv

LEMMA OthersMove ==
    LeadInv /\ (UpdateLeadCase \/ Expire \/ Age \/ ChangePolicy \/ ChangeProduct) => LeadInv'
<1> SUFFICES ASSUME LeadInv, UpdateLeadCase \/ Expire \/ Age \/ ChangePolicy \/ ChangeProduct
             PROVE  LeadInv'
  OBVIOUS
<1>0. LeadTypes /\ RowsAreOld /\ FormIsTimely /\ JudgementsSawEverything /\ ApproversKnew
  BY DEF LeadInv
<1>1. LeadTypes' /\ RowsStay /\ form' = form /\ leadCase <= leadCase' /\ UNCHANGED <<approver, proofs>>
  BY <1>0, OthersStay
<1>2. leadCase \in Nat /\ leadCase' \in Nat
  BY <1>0, <1>1 DEF LeadTypes
<1>3. RowsAreOld' /\ JudgementsSawEverything' /\ JudgementsStay /\ Relevant' = Relevant
  BY <1>0, <1>1, <1>2, RowsStayDecided
<1>4. ApproversKnew'
  BY <1>0, <1>1, <1>3, TellsForGood DEF ApproversKnew
<1>5. FormIsTimely'
  <2>1. form.at \in {"read", "validated"} => form.expected \in Nat
    BY <1>0 DEF LeadTypes, FormRecord, NoForm
  <2> QED BY <2>1, <1>0, <1>1, <1>2, <1>3 DEF FormIsTimely
<1> QED BY <1>1, <1>3, <1>4, <1>5 DEF LeadInv

LEMMA LeadStarts == LeadInit => LeadInv
<1> SUFFICES ASSUME LeadInit PROVE LeadInv
  OBVIOUS
<1>1. LeadTypes
  BY DEF LeadInit, LeadTypes, NoForm, AroundRecord
<1>2. RowsAreOld /\ JudgementsSawEverything /\ FormIsTimely
  BY DEF LeadInit, RowsAreOld, JudgementsSawEverything, FormIsTimely, NoForm
<1>3. ApproversKnew
  BY DEF LeadInit, ApproversKnew, Tells
<1> QED BY <1>1, <1>2, <1>3 DEF LeadInv

LEMMA LeadMoves == LeadInv /\ [LeadNext]_leadVars => LeadInv'
<1> SUFFICES ASSUME LeadInv, [LeadNext]_leadVars PROVE LeadInv'
  OBVIOUS
<1>1. CASE UNCHANGED leadVars
  BY <1>1 DEF leadVars, LeadInv, LeadTypes, RowsAreOld, FormIsTimely, JudgementsSawEverything,
              ApproversKnew, Relevant, Tells, KnowledgeOf, SourcesOf
<1>2. CASE LeadNext
  BY <1>2, ObservationAppended, ReviewAppended, FormMoves, PreparationMoves, OthersMove DEF LeadNext
<1> QED BY <1>1, <1>2

\* An approval that stands for what is shown was given in the knowledge of now.
LEMMA ReviewedIsInformed == LeadInv => ReviewedIsCurrent
<1> SUFFICES ASSUME LeadInv, ShownState(preparation) = "reviewed" \/ Stage = "complete"
             PROVE  /\ \E proof \in proofs : proof.revision = preparation.revision /\ proof.knew = Knowledge
                    /\ judgements[Latest].accepted /\ judgements[Latest].fresh
                    /\ \A claim \in Claims : Supported(claim, ValidSupport)
                    /\ Conflict => judgements[Latest].resolved
  BY DEF ReviewedIsCurrent
<1>1. ShownState(preparation) = "reviewed"
  BY DEF Stage
<1>2. Clear(preparation) /\ Proven(preparation)
  BY <1>1 DEF ShownState
<1>3. /\ Context(preparation.review) = preparation.context
      /\ Quality.base /\ Quality.recent /\ judgements[Latest].accepted
      /\ \A claim \in Claims : Supported(claim, Quality.valid)
  BY <1>2 DEF Clear, Current, NoBlockers, DirectChannel
<1>4. Latest # 0
  BY <1>3 DEF Quality
<1>5. Quality.valid = ValidSupport /\ Quality.recent = judgements[Latest].fresh
      /\ (Conflict => judgements[Latest].resolved)
  BY <1>3, <1>4 DEF Quality
<1>6. PICK proof \in proofs : proof.revision = preparation.revision /\ proof.context = preparation.context
  BY <1>2 DEF Proven
<1>7. proof.knew = Knowledge
  <2>1. /\ preparation.context # <<>> /\ preparation.context.quality.base
        /\ KnowledgeOf(preparation.context) = Knowledge
    BY <1>3, ContextTells DEF LeadInv
  <2>2. Tells(proof.context, proof.knew)
    BY DEF LeadInv, ApproversKnew
  <2> QED BY <1>6, <2>1, <2>2 DEF Tells
<1> QED BY <1>3, <1>5, <1>6, <1>7

\* Every judgement addresses what counted when it was recorded, and a
\* preparation is shown as reviewed only to somebody's knowledge of what holds
\* now: for any number of observations, corrections, judgements, revisions,
\* approvals, and changes around them (lead_review_service, lead_preparation_service).
THEOREM LeadsAreInformed == LeadSpec => [](JudgementsSawEverything /\ ReviewedIsCurrent)
<1>1. LeadInv => JudgementsSawEverything /\ ReviewedIsCurrent
  BY ReviewedIsInformed DEF LeadInv
<1> QED BY <1>1, LeadStarts, LeadMoves, PTL DEF LeadSpec
=============================================================================
