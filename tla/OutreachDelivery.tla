------------------------- MODULE OutreachDelivery --------------------------
(***************************************************************************)
(* One outreach draft to one recipient, from review to delivery            *)
(* (services/api/buyeros_api/services): draft_service, draft_grounding and *)
(* approval_service change the draft and its approvals; delivery_admission *)
(* admits a message under a key; execution/delivery_runner claims it,      *)
(* takes the one permit to POST and records the answer; callbacks and      *)
(* status observations follow.  No production provider is selected in the  *)
(* code: the module is the protocol as it runs once one is.                *)
(*                                                                         *)
(* "material" stands for everything the approval fingerprint covers        *)
(* besides the draft's own text: it is a version that grows with each      *)
(* change of evidence, profile, sender, contact, policy or suppression.    *)
(* The lease of a message's outbox row is modelled by its holder alone (it *)
(* is arbitrated in OutboxRuntime): another worker may take it whenever.   *)
(***************************************************************************)
EXTENDS Naturals, FiniteSets, FiniteSetTheorems, TLAPS

CONSTANTS
    Keys,               \* delivery keys, a message each
    Senders,            \* workers of the delivery queue
    Reports,            \* bound: the provider's reports, <<source, event>>
    MaxRevision,        \* bound: revisions of the draft
    MaxMaterial,        \* bound: changes of the material context
    MaxApprovals        \* bound: approvals given

VARIABLES
    material,           \* version of the material context
    contact,            \* the recipient: suppressed, quarantined
    draft,              \* the draft row and its current revision
    approval,           \* the last approval of the draft
    messages,           \* the delivery message and operation of a key
    holder,             \* who holds the lease of a message's outbox row
    senders             \* what each worker is doing

deliveryVars == <<material, contact, draft, approval, messages, holder, senders>>

NoSender == "nobody"
Observed == {"accepted", "delivered", "bounced", "complained", "unsubscribed", "failed"}
Adverse == {"bounced", "complained", "unsubscribed"}

\* The state a report names: the event "suppressed" is a failure that suppresses.
Reported(event) == IF event = "suppressed" THEN "failed" ELSE event
Suppresses(event) == event \in Adverse \cup {"suppressed"}
Outstanding == {"prepared", "submitting", "unknown", "accepted"}

Following == [prepared     |-> {"submitting", "rejected"},
              submitting   |-> (Observed \ {"unsubscribed"}) \cup {"unknown", "rejected"},
              unknown      |-> Observed,
              accepted     |-> Observed \ {"accepted"},
              delivered    |-> Adverse,
              bounced      |-> {"complained", "unsubscribed"},
              complained   |-> {"unsubscribed"},
              unsubscribed |-> {}, failed |-> {}, rejected |-> {}]

DeliveryTransition(state, event) == IF event \in Following[state] THEN event ELSE state

------------------------------------------------------------------------------
\* The draft: each change of its text ends the review and the approval.

Invalidated == [approval EXCEPT !.valid = FALSE]
\* The checks current_approval_context makes, besides the fingerprint.
Eligible == draft.grounded /\ ~contact.suppressed /\ ~contact.quarantined

\* An edit loses the grounding; a review of the sources restores it, in a
\* successor revision.
NewRevision(isGrounded) ==
    /\ draft.revision < MaxRevision
    /\ draft' = [revision |-> draft.revision + 1, state |-> "draft", grounded |-> isGrounded, context |-> 0]
    /\ approval' = Invalidated
    /\ UNCHANGED <<material, contact, messages, holder, senders>>

EditDraft == NewRevision(FALSE)
ReviewManualGrounding == ~draft.grounded /\ ~contact.suppressed /\ ~contact.quarantined /\ NewRevision(TRUE)

RequestDraftReview ==
    /\ Eligible
    /\ draft' = [draft EXCEPT !.state = "review_requested", !.context = material]
    /\ approval' = Invalidated
    /\ UNCHANGED <<material, contact, messages, holder, senders>>

ApproveDraft ==
    /\ Eligible /\ draft.state = "review_requested" /\ draft.context = material
    /\ approval.id < MaxApprovals /\ ~approval.valid
    /\ approval' = [id |-> approval.id + 1, revision |-> draft.revision, valid |-> TRUE]
    /\ draft' = [draft EXCEPT !.state = "approved"]
    /\ UNCHANGED <<material, contact, messages, holder, senders>>

\* _approved_draft_content: the approval is the valid one of the current
\* revision and the context it was given for is still the present one.
Approved(id, revision) ==
    /\ draft.state = "approved" /\ draft.revision = revision
    /\ approval.valid /\ approval.id = id /\ approval.revision = revision
    /\ Eligible /\ draft.context = material

ChangeMaterial ==
    /\ material < MaxMaterial /\ material' = material + 1
    /\ UNCHANGED <<contact, draft, approval, messages, holder, senders>>

\* Mutant: the suppression hides the contact and leaves the approvals.
Suppress_KeepApproval ==
    /\ contact' = [suppressed |-> TRUE, quarantined |-> TRUE]
    /\ material' = IF material < MaxMaterial THEN material + 1 ELSE material
    /\ UNCHANGED approval

\* A suppression of the recipient, with what the same transaction does: every
\* approval of a draft to it is invalidated and the contact is quarantined.
Suppress ==
    /\ contact' = [suppressed |-> TRUE, quarantined |-> TRUE]
    /\ material' = IF material < MaxMaterial THEN material + 1 ELSE material
    /\ approval' = Invalidated

AddSuppression ==
    /\ ~contact.suppressed /\ material < MaxMaterial
    /\ Suppress
    /\ UNCHANGED <<draft, messages, holder, senders>>

RemoveSuppression ==
    /\ contact.suppressed /\ material < MaxMaterial
    /\ contact' = [contact EXCEPT !.suppressed = FALSE]
    /\ material' = material + 1
    /\ UNCHANGED <<draft, approval, messages, holder, senders>>

\* Only a new result for the contact ends its quarantine.
RevalidateContact ==
    /\ contact.quarantined /\ ~contact.suppressed /\ material < MaxMaterial
    /\ contact' = [contact EXCEPT !.quarantined = FALSE]
    /\ material' = material + 1
    /\ UNCHANGED <<draft, approval, messages, holder, senders>>

------------------------------------------------------------------------------
\* Admission and submission of a message.

Admitted == {k \in Keys : messages[k].state # "none"}

\* Mutant: only a message still under way stops a new one.
Unsent_PendingOnly ==
    \A k \in Admitted : messages[k].state \notin Outstanding

\* No message for this copy to this recipient, and none still under way.
Unsent ==
    \A k \in Admitted : messages[k].revision # draft.revision /\ messages[k].state \notin Outstanding

AdmitDelivery(k) ==
    /\ messages[k].state = "none"
    /\ Approved(approval.id, draft.revision) /\ Unsent
    /\ messages' = [messages EXCEPT ![k] =
           [state |-> "prepared", operation |-> "intent", revision |-> draft.revision,
            approval |-> approval.id, ref |-> FALSE, posts |-> 0, seen |-> {}]]
    /\ UNCHANGED <<material, contact, draft, approval, holder, senders>>

TakeLease(w, k) ==
    /\ k \in Admitted /\ senders[w].step = "idle"
    /\ holder' = [holder EXCEPT ![k] = w]
    /\ senders' = [senders EXCEPT ![w] = [step |-> "taken", key |-> k, answer |-> "none"]]
    /\ UNCHANGED <<material, contact, draft, approval, messages>>

Fenced(w) == holder[senders[w].key] = w
Step(w, step) == senders' = [senders EXCEPT ![w].step = step]
Release(w) == senders' = [senders EXCEPT ![w] = [step |-> "idle", key |-> senders[w].key, answer |-> "none"]]

\* One transaction of the runner: it moves message and operation together, or
\* is refused (fence, approval or state) and the worker gives the row up.
Advance(w, from, to, state, operation) ==
    LET k == senders[w].key IN
    /\ senders[w].step = from
    /\ \/ /\ Fenced(w) /\ Approved(messages[k].approval, messages[k].revision)
          /\ messages[k].state = (IF to = "claimed" THEN "prepared" ELSE "submitting")
          /\ ~messages[k].ref
          /\ messages' = [messages EXCEPT ![k].state = state, ![k].operation = operation]
          /\ Step(w, to)
       \/ UNCHANGED messages /\ Release(w)
    /\ UNCHANGED <<material, contact, draft, approval, holder>>

ClaimSubmission(w) == Advance(w, "taken", "claimed", "submitting", "submitted")
\* The uncertainty is permanent before the POST: there is no second permit.
ClaimPost(w) == Advance(w, "claimed", "permitted", "unknown", "unknown_acceptance")

Post(w) ==
    /\ senders[w].step = "permitted"
    /\ messages' = [messages EXCEPT ![senders[w].key].posts = @ + 1]
    /\ \E answer \in {"accepted", "unknown", "rejected"} :
           senders' = [senders EXCEPT ![w].step = "answered", ![w].answer = answer]
    /\ UNCHANGED <<material, contact, draft, approval, holder>>

\* The answer is recorded without fence, approval or role; a rejection or an
\* unknown answer proves nothing, but a reference that comes with the latter is
\* kept, and reports may follow it.
RecordSubmission(w) ==
    LET k == senders[w].key IN
    /\ senders[w].step = "answered"
    /\ \/ /\ senders[w].answer = "accepted"
          /\ messages' = [messages EXCEPT ![k].state = DeliveryTransition(@, "accepted"),
                                          ![k].operation = "accepted", ![k].ref = TRUE]
       \/ /\ senders[w].answer = "unknown"
          /\ messages' = [messages EXCEPT ![k].ref = TRUE]
       \/ senders[w].answer # "accepted" /\ UNCHANGED messages
    /\ Release(w)
    /\ UNCHANGED <<material, contact, draft, approval, holder>>

CrashSender(w) ==
    /\ senders[w].step # "idle"
    /\ Release(w)
    /\ UNCHANGED <<material, contact, draft, approval, messages, holder>>

\* A signed callback or a status observation, in any order, each applied once.
Observe(k, report) ==
    /\ messages[k].state # "none" /\ messages[k].ref
    /\ report \notin messages[k].seen
    /\ messages' = [messages EXCEPT ![k].state = DeliveryTransition(@, Reported(report[2])),
                                    ![k].seen = @ \cup {report}]
    /\ IF Suppresses(report[2]) THEN Suppress ELSE UNCHANGED <<material, contact, approval>>
    /\ UNCHANGED <<draft, holder, senders>>

------------------------------------------------------------------------------
NoMessage == [state |-> "none", operation |-> "none", revision |-> 0, approval |-> 0,
              ref |-> FALSE, posts |-> 0, seen |-> {}]

DeliveryInit ==
    /\ material = 1
    /\ contact = [suppressed |-> FALSE, quarantined |-> FALSE]
    /\ draft = [revision |-> 1, state |-> "draft", grounded |-> TRUE, context |-> 0]
    /\ approval = [id |-> 0, revision |-> 0, valid |-> FALSE]
    /\ messages = [k \in Keys |-> NoMessage]
    /\ holder = [k \in Keys |-> NoSender]
    /\ senders = [w \in Senders |-> [step |-> "idle", key |-> CHOOSE k \in Keys : TRUE, answer |-> "none"]]

DeliveryNext ==
    \/ EditDraft \/ ReviewManualGrounding \/ RequestDraftReview \/ ApproveDraft
    \/ ChangeMaterial \/ AddSuppression \/ RemoveSuppression \/ RevalidateContact
    \/ \E k \in Keys : \/ AdmitDelivery(k)
                       \/ \E report \in Reports : Observe(k, report)
                       \/ \E w \in Senders : TakeLease(w, k)
    \/ \E w \in Senders : ClaimSubmission(w) \/ ClaimPost(w) \/ Post(w) \/ RecordSubmission(w) \/ CrashSender(w)

DeliverySpec == DeliveryInit /\ [][DeliveryNext]_deliveryVars

------------------------------------------------------------------------------
DeliveryTypeOK ==
    /\ material \in 1 .. MaxMaterial
    /\ contact \in [suppressed : BOOLEAN, quarantined : BOOLEAN]
    /\ draft \in [revision : 1 .. MaxRevision, state : {"draft", "review_requested", "approved"},
                  grounded : BOOLEAN, context : 0 .. MaxMaterial]
    /\ approval \in [id : 0 .. MaxApprovals, revision : 0 .. MaxRevision, valid : BOOLEAN]
    /\ \A k \in Keys :
           /\ messages[k].state \in {"none"} \cup DOMAIN Following
           /\ messages[k].operation \in {"none", "intent", "submitted", "unknown_acceptance", "accepted"}
           /\ messages[k].posts \in 0 .. 2
    /\ holder \in [Keys -> Senders \cup {NoSender}]
    /\ senders \in [Senders -> [step : {"idle", "taken", "claimed", "permitted", "answered"},
                                key : Keys, answer : {"none", "accepted", "unknown", "rejected"}]]

\* A revision is sent to the recipient at most once, whatever keys, workers,
\* crashes and new approvals there are, and one message at a time is under way.
CopySentOnce ==
    /\ \A k \in Keys : messages[k].posts <= 1
    /\ \A j, k \in Keys : (j # k /\ messages[j].posts > 0 /\ messages[k].posts > 0)
                              => messages[j].revision # messages[k].revision
    /\ Cardinality({k \in Keys : messages[k].state \in Outstanding}) <= 1

\* A valid approval is for the text the draft has now, and never for a
\* recipient who is suppressed or was since quarantined.
ApprovalIsCurrent ==
    approval.valid => /\ draft.state = "approved" /\ approval.revision = draft.revision
                      /\ ~contact.suppressed /\ ~contact.quarantined

\* What leaves the house was approved as it is and leaves once: an approval is
\* for the current text and recipient, and no revision is posted twice.
ApprovedCopySentOnce == ApprovalIsCurrent /\ CopySentOnce

------------------------------------------------------------------------------
\* Theorems: what a step keeps, for any keys, senders, reports and bounds.

\* What became of a message once somebody was permitted to post it.
Past == DOMAIN Following \ {"prepared", "submitting"}

MessageRecord ==
    [state : {"none"} \cup DOMAIN Following,
     operation : {"none", "intent", "submitted", "unknown_acceptance", "accepted"},
     revision : Nat, approval : Nat, ref : BOOLEAN, posts : Nat, seen : SUBSET Reports]
SenderRecord == [step : {"idle", "taken", "claimed", "permitted", "answered"},
                 key : Keys, answer : {"none", "accepted", "unknown", "rejected"}]

DeliveryTypes ==
    /\ material \in Nat
    /\ contact \in [suppressed : BOOLEAN, quarantined : BOOLEAN]
    /\ draft \in [revision : Nat, state : {"draft", "review_requested", "approved"},
                  grounded : BOOLEAN, context : Nat]
    /\ approval \in [id : Nat, revision : Nat, valid : BOOLEAN]
    /\ messages \in [Keys -> MessageRecord]
    /\ senders \in [Senders -> SenderRecord]

\* One permit is given for a message, and only its holder posts it.
PermitsAreUnique ==
    /\ \A w \in Senders :
          /\ senders[w].step \in {"permitted", "answered"} => messages[senders[w].key].state \in Past
          /\ senders[w].step = "permitted" => messages[senders[w].key].posts = 0
    /\ \A v, w \in Senders :
          senders[v].step = "permitted" /\ senders[w].step = "permitted" /\ senders[v].key = senders[w].key
              => v = w
    /\ \A k \in Keys : /\ messages[k].posts \in {0, 1}
                       /\ messages[k].posts = 1 \/ messages[k].ref => messages[k].state \in Past

\* Admitted messages are of different revisions, and one of them is under way.
CopiesDiffer ==
    \A j, k \in Admitted : j # k =>
        /\ messages[j].revision # messages[k].revision
        /\ ~(messages[j].state \in Outstanding /\ messages[k].state \in Outstanding)

SendingInv == DeliveryTypes /\ ApprovalIsCurrent /\ PermitsAreUnique /\ CopiesDiffer

\* Nothing a provider reports makes a message new or takes it back under way.
LEMMA TransitionsGoOn ==
    ASSUME NEW state \in Past, NEW event
    PROVE  /\ DeliveryTransition(state, event) \in Past
           /\ DeliveryTransition(state, event) \in Outstanding => state \in Outstanding
<1> DEFINE next == DeliveryTransition(state, event)
<1>1. state \in {"unknown", "accepted", "delivered", "bounced", "complained", "unsubscribed", "failed", "rejected"}
  BY DEF Past, Following
<1>2. next = state \/ next \in Following[state]
  BY DEF DeliveryTransition
<1>3. Following[state] \subseteq Past
  BY <1>1 DEF Past, Following, Observed, Adverse
<1>4. state \notin Outstanding => Following[state] \cap Outstanding = {}
  BY <1>1 DEF Outstanding, Following, Adverse
<1> HIDE DEF next
<1> QED BY <1>2, <1>3, <1>4 DEF next

LEMMA PastStates ==
    /\ Past \subseteq DOMAIN Following /\ "none" \notin Past /\ "unknown" \in Past
    /\ "prepared" \notin Past /\ "submitting" \notin Past
    /\ {"prepared", "submitting", "unknown"} \subseteq DOMAIN Following
BY DEF Past, Following

\* What the invariant says of the draft, its approval and its recipient.
DraftSound ==
    /\ material \in Nat
    /\ contact \in [suppressed : BOOLEAN, quarantined : BOOLEAN]
    /\ draft \in [revision : Nat, state : {"draft", "review_requested", "approved"},
                  grounded : BOOLEAN, context : Nat]
    /\ approval \in [id : Nat, revision : Nat, valid : BOOLEAN]
    /\ ApprovalIsCurrent

DraftSteps ==
    \/ EditDraft \/ ReviewManualGrounding \/ RequestDraftReview \/ ApproveDraft
    \/ ChangeMaterial \/ AddSuppression \/ RemoveSuppression \/ RevalidateContact

\* Every change of text, sources or recipient keeps the approval true or ends it.
LEMMA DraftStaysSound == ASSUME DraftSound, DraftSteps PROVE DraftSound'
<1>1. approval \in [id : Nat, revision : Nat, valid : BOOLEAN]
  BY DEF DraftSound
<1>2. draft.revision + 1 \in Nat /\ material + 1 \in Nat /\ approval.id + 1 \in Nat
  BY DEF DraftSound
<1>3. Invalidated \in [id : Nat, revision : Nat, valid : BOOLEAN] /\ ~Invalidated.valid
  BY <1>1 DEF Invalidated
<1>4. CASE EditDraft \/ ReviewManualGrounding
  <2>1. PICK isGrounded \in BOOLEAN : NewRevision(isGrounded)
    BY <1>4 DEF EditDraft, ReviewManualGrounding
  <2> QED BY <2>1, <1>2, <1>3 DEF NewRevision, DraftSound, ApprovalIsCurrent
<1>5. CASE RequestDraftReview
  <2>1. draft' = [revision |-> draft.revision, state |-> "review_requested",
                  grounded |-> draft.grounded, context |-> material]
    BY <1>5 DEF RequestDraftReview, DraftSound
  <2> QED BY <1>5, <2>1, <1>3 DEF RequestDraftReview, DraftSound, ApprovalIsCurrent
<1>6. CASE ApproveDraft
  <2>1. draft' = [revision |-> draft.revision, state |-> "approved",
                  grounded |-> draft.grounded, context |-> draft.context]
    BY <1>6 DEF ApproveDraft, DraftSound
  <2> QED BY <1>6, <2>1, <1>2 DEF ApproveDraft, Eligible, DraftSound, ApprovalIsCurrent
<1>7. CASE ChangeMaterial
  BY <1>7, <1>2 DEF ChangeMaterial, DraftSound, ApprovalIsCurrent
<1>8. CASE AddSuppression
  BY <1>8, <1>2, <1>3 DEF AddSuppression, Suppress, DraftSound, ApprovalIsCurrent
<1>9. CASE RemoveSuppression
  <2>1. contact' = [suppressed |-> FALSE, quarantined |-> contact.quarantined]
    BY <1>9 DEF RemoveSuppression, DraftSound
  <2> QED BY <1>9, <2>1, <1>2 DEF RemoveSuppression, DraftSound, ApprovalIsCurrent
<1>10. CASE RevalidateContact
  <2>1. contact' = [suppressed |-> contact.suppressed, quarantined |-> FALSE]
    BY <1>10 DEF RevalidateContact, DraftSound
  <2> QED BY <1>10, <2>1, <1>2 DEF RevalidateContact, DraftSound, ApprovalIsCurrent
<1> QED BY <1>4, <1>5, <1>6, <1>7, <1>8, <1>9, <1>10 DEF DraftSteps

\* What the invariant says of the messages and of who sends them.
SendingSound ==
    messages \in [Keys -> MessageRecord] /\ senders \in [Senders -> SenderRecord]
    /\ PermitsAreUnique /\ CopiesDiffer

\* A sender that gives up, or takes a message, is permitted nothing.
LEMMA SenderLeaves ==
    ASSUME SendingSound, UNCHANGED messages, NEW w \in Senders, NEW next \in SenderRecord,
           next.step \notin {"permitted", "answered"}, senders' = [senders EXCEPT ![w] = next]
    PROVE  SendingSound'
<1>1. /\ senders'[w] = next /\ \A v \in Senders : v # w => senders'[v] = senders[v]
      /\ senders' \in [Senders -> SenderRecord]
  BY DEF SendingSound
<1>2. PermitsAreUnique'
  BY <1>1 DEF SendingSound, PermitsAreUnique
<1>3. CopiesDiffer'
  BY DEF SendingSound, CopiesDiffer, Admitted
<1> QED BY <1>1, <1>2, <1>3 DEF SendingSound

LEMMA ReleaseLeaves ==
    ASSUME SendingSound, UNCHANGED messages, NEW w \in Senders, Release(w)
    PROVE  SendingSound'
<1>1. [step |-> "idle", key |-> senders[w].key, answer |-> "none"] \in SenderRecord
  BY DEF SendingSound, SenderRecord
<1> QED BY <1>1, SenderLeaves DEF Release

\* A transaction that moves a message of a given state, and its sender.
GoesOn(k, message) ==
    /\ messages[k].state # "none" /\ message.state # "none" /\ message.revision = messages[k].revision
    /\ message.state \in Outstanding => messages[k].state \in Outstanding
    /\ messages[k].state \in Past => message.state \in Past
    /\ message.posts \in {0, 1}
    /\ message.posts = 1 \/ message.ref => message.state \in Past
MayGoOn(w, k, message, next) ==
    /\ next.key = k
    /\ next.step \in {"permitted", "answered"} => message.state \in Past
    /\ next.step = "permitted" => message.posts = 0
    /\ \A v \in Senders : v # w /\ senders[v].step = "permitted" /\ senders[v].key = k
          => next.step # "permitted" /\ message.posts = 0

LEMMA MessageMoves ==
    ASSUME SendingSound, NEW w \in Senders, NEW k \in Keys,
           NEW message \in MessageRecord, NEW next \in SenderRecord,
           messages' = [messages EXCEPT ![k] = message], senders' = [senders EXCEPT ![w] = next],
           GoesOn(k, message), MayGoOn(w, k, message, next)
    PROVE  SendingSound'
<1> USE DEF GoesOn, MayGoOn
<1>1. /\ messages' \in [Keys -> MessageRecord] /\ messages'[k] = message
      /\ \A j \in Keys : j # k => messages'[j] = messages[j]
      /\ senders' \in [Senders -> SenderRecord] /\ senders'[w] = next
      /\ \A v \in Senders : v # w => senders'[v] = senders[v]
  BY DEF SendingSound
<1>2. \A v \in Senders : senders[v].key \in Keys
  BY DEF SendingSound, SenderRecord
<1>3. PermitsAreUnique'
  <2>1. ASSUME NEW v \in Senders
        PROVE  /\ senders'[v].step \in {"permitted", "answered"} => messages'[senders'[v].key].state \in Past
               /\ senders'[v].step = "permitted" => messages'[senders'[v].key].posts = 0
    <3>1. CASE v = w
      BY <3>1, <1>1
    <3>2. CASE v # w
      BY <3>2, <1>1, <1>2 DEF SendingSound, PermitsAreUnique
    <3> QED BY <3>1, <3>2
  <2>2. ASSUME NEW u \in Senders, NEW v \in Senders, senders'[u].step = "permitted",
               senders'[v].step = "permitted", senders'[u].key = senders'[v].key, u # v
        PROVE  FALSE
    <3>1. u = w \/ v = w
      BY <2>2, <1>1 DEF SendingSound, PermitsAreUnique
    <3> QED BY <2>2, <3>1, <1>1
  <2>3. \A j \in Keys : /\ messages'[j].posts \in {0, 1}
                        /\ messages'[j].posts = 1 \/ messages'[j].ref => messages'[j].state \in Past
    BY <1>1 DEF SendingSound, PermitsAreUnique
  <2> QED BY <2>1, <2>2, <2>3 DEF PermitsAreUnique
<1>4. CopiesDiffer'
  <2>1. \A j \in Keys : /\ messages'[j].state # "none" => messages[j].state # "none"
                        /\ messages'[j].revision = messages[j].revision
                        /\ messages'[j].state \in Outstanding => messages[j].state \in Outstanding
    BY <1>1
  <2> QED BY <2>1 DEF SendingSound, CopiesDiffer, Admitted
<1> QED BY <1>1, <1>3, <1>4 DEF SendingSound

\* The one new message is that of a revision no other message has.
LEMMA AdmissionKeeps ==
    ASSUME DraftSound, SendingSound, NEW k \in Keys, AdmitDelivery(k)
    PROVE  SendingSound'
<1> DEFINE message == [state |-> "prepared", operation |-> "intent", revision |-> draft.revision,
                       approval |-> approval.id, ref |-> FALSE, posts |-> 0, seen |-> {}]
<1>1. message \in MessageRecord
  BY PastStates DEF MessageRecord, DraftSound
<1>2. message.state = "prepared" /\ message.revision = draft.revision /\ message.posts = 0 /\ ~message.ref
  OBVIOUS
<1>3. messages' = [messages EXCEPT ![k] = message] /\ senders' = senders /\ messages[k].state = "none"
  BY DEF AdmitDelivery
<1> HIDE DEF message
<1>4. /\ messages' \in [Keys -> MessageRecord] /\ messages'[k] = message
      /\ \A j \in Keys : j # k => messages'[j] = messages[j]
  BY <1>1, <1>3 DEF SendingSound
<1>5. PermitsAreUnique'
  <2>1. \A w \in Senders : senders[w].key \in Keys
    BY DEF SendingSound, SenderRecord
  <2>2. \A w \in Senders : senders[w].step \in {"permitted", "answered"} => senders[w].key # k
    BY <1>3, PastStates DEF SendingSound, PermitsAreUnique
  <2> QED BY <2>1, <2>2, <1>2, <1>3, <1>4 DEF SendingSound, PermitsAreUnique
<1>6. CopiesDiffer'
  <2>1. \A j \in Keys : j # k /\ messages'[j].state # "none" =>
            messages[j].revision # draft.revision /\ messages[j].state \notin Outstanding
    BY <1>4 DEF AdmitDelivery, Unsent, Admitted
  <2> QED BY <2>1, <1>2, <1>4 DEF SendingSound, CopiesDiffer, Admitted
<1> QED BY <1>3, <1>4, <1>5, <1>6 DEF SendingSound

\* The runner's transactions, its POST and its record of the answer.
LEMMA RunnerKeeps ==
    ASSUME SendingSound, NEW w \in Senders,
           ClaimSubmission(w) \/ ClaimPost(w) \/ Post(w) \/ RecordSubmission(w) \/ CrashSender(w)
    PROVE  SendingSound'
<1> DEFINE k == senders[w].key
<1>1. /\ senders[w] \in SenderRecord /\ k \in Keys /\ messages[k] \in MessageRecord
      /\ senders \in [Senders -> SenderRecord] /\ messages \in [Keys -> MessageRecord]
      /\ messages[k].posts \in {0, 1}
      /\ messages[k].posts = 1 \/ messages[k].ref => messages[k].state \in Past
  BY DEF SendingSound, SenderRecord, PermitsAreUnique
<1> DEFINE stepped(step) == [senders[w] EXCEPT !.step = step]
<1>2. \A step \in {"claimed", "permitted", "answered"} :
          stepped(step) \in SenderRecord /\ stepped(step).key = k /\ stepped(step).step = step
  BY <1>1 DEF SenderRecord
<1>3. ASSUME NEW from, NEW to \in {"claimed", "permitted"}, NEW state \in {"submitting", "unknown"},
             NEW operation \in {"submitted", "unknown_acceptance"},
             Advance(w, from, to, state, operation),
             (to = "claimed" /\ state = "submitting") \/ (to = "permitted" /\ state = "unknown")
      PROVE  SendingSound'
  <2> DEFINE message == [messages[k] EXCEPT !.state = state, !.operation = operation]
  <2>1. CASE UNCHANGED messages /\ Release(w)
    BY <2>1, ReleaseLeaves
  <2>2. CASE /\ messages[k].state = (IF to = "claimed" THEN "prepared" ELSE "submitting")
             /\ messages' = [messages EXCEPT ![k].state = state, ![k].operation = operation]
             /\ Step(w, to)
    <3>1. message \in MessageRecord
      BY <1>1, PastStates DEF MessageRecord
    <3>2. /\ message.state = state /\ message.revision = messages[k].revision
          /\ message.posts = messages[k].posts /\ message.ref = messages[k].ref
      BY <1>1 DEF MessageRecord
    <3>3. messages' = [messages EXCEPT ![k] = message] /\ senders' = [senders EXCEPT ![w] = stepped(to)]
      BY <2>2, <1>1 DEF Step
    <3>4. messages[k].posts = 0 /\ ~messages[k].ref /\ messages[k].state \notin Past
      BY <2>2, <1>1, PastStates
    <3>5. \A v \in Senders : senders[v].step = "permitted" => senders[v].key # k
      BY <3>4 DEF SendingSound, PermitsAreUnique
    <3>6. messages[k].state \in Outstanding /\ messages[k].state # "none" /\ state # "none"
      BY <2>2 DEF Outstanding
    <3>7. to = "permitted" => state \in Past
      BY <1>3, PastStates
    <3>8. stepped(to) \in SenderRecord /\ stepped(to).key = k /\ stepped(to).step = to
      BY <1>2
    <3> HIDE DEF message, stepped
    <3>9. GoesOn(k, message)
      BY <3>2, <3>4, <3>6 DEF GoesOn
    <3>10. MayGoOn(w, k, message, stepped(to))
      BY <3>2, <3>4, <3>5, <3>7, <3>8 DEF MayGoOn
    <3> HIDE DEF k
    <3> QED BY <3>1, <3>3, <3>8, <3>9, <3>10, <1>1, MessageMoves
  <2> QED BY <1>3, <2>1, <2>2 DEF Advance
<1>4. CASE ClaimSubmission(w)
  BY <1>4, <1>3 DEF ClaimSubmission
<1>5. CASE ClaimPost(w)
  BY <1>5, <1>3 DEF ClaimPost
<1>6. CASE Post(w)
  <2> DEFINE message == [messages[k] EXCEPT !.posts = @ + 1]
  <2>1. PICK answer \in {"accepted", "unknown", "rejected"} :
            senders' = [senders EXCEPT ![w].step = "answered", ![w].answer = answer]
    BY <1>6 DEF Post
  <2> DEFINE next == [senders[w] EXCEPT !.step = "answered", !.answer = answer]
  <2>2. senders' = [senders EXCEPT ![w] = next] /\ messages' = [messages EXCEPT ![k] = message]
    BY <1>6, <2>1, <1>1 DEF Post
  <2>3. next \in SenderRecord /\ next.key = k /\ next.step = "answered"
    BY <1>1 DEF SenderRecord
  <2>4. /\ senders[w].step = "permitted" /\ messages[k].state \in Past /\ messages[k].posts = 0
        /\ \A v \in Senders : v # w => ~(senders[v].step = "permitted" /\ senders[v].key = k)
    BY <1>6 DEF Post, SendingSound, PermitsAreUnique
  <2>5. message \in MessageRecord
    BY <1>1 DEF MessageRecord
  <2>6. /\ message.state = messages[k].state /\ message.revision = messages[k].revision
        /\ message.posts = 1
    BY <2>4, <1>1 DEF MessageRecord
  <2>7. messages[k].state # "none"
    BY <2>4, PastStates
  <2> HIDE DEF message, next
  <2>8. GoesOn(k, message)
    BY <2>4, <2>6, <2>7 DEF GoesOn
  <2>9. MayGoOn(w, k, message, next)
    BY <2>3, <2>4, <2>6 DEF MayGoOn
  <2> HIDE DEF k
  <2> QED BY <2>2, <2>3, <2>5, <2>8, <2>9, <1>1, MessageMoves
<1>7. CASE RecordSubmission(w)
  <2> DEFINE message == [messages[k] EXCEPT !.state = DeliveryTransition(@, "accepted"),
                                            !.operation = "accepted", !.ref = TRUE]
             next == [step |-> "idle", key |-> k, answer |-> "none"]
  <2>1. senders' = [senders EXCEPT ![w] = next] /\ senders[w].step = "answered"
    BY <1>7 DEF RecordSubmission, Release
  <2>2. messages[k].state \in Past
    BY <2>1 DEF SendingSound, PermitsAreUnique
  <2>3. next \in SenderRecord /\ next.key = k /\ next.step = "idle"
    BY <1>1 DEF SenderRecord
  <2>4. CASE messages' = messages
    BY <2>4, <1>7, ReleaseLeaves DEF RecordSubmission
  <2>5. CASE messages' = [messages EXCEPT ![k] = message]
    <3>1. /\ DeliveryTransition(messages[k].state, "accepted") \in Past
          /\ DeliveryTransition(messages[k].state, "accepted") \in Outstanding
                => messages[k].state \in Outstanding
      BY <2>2, TransitionsGoOn
    <3>2. message \in MessageRecord
      BY <3>1, <1>1, PastStates DEF MessageRecord
    <3>3. /\ message.state = DeliveryTransition(messages[k].state, "accepted")
          /\ message.revision = messages[k].revision /\ message.posts = messages[k].posts
      BY <1>1 DEF MessageRecord
    <3>4. message.state # "none" /\ messages[k].state # "none" /\ message.state \in Past
      BY <2>2, <3>1, <3>3, PastStates
    <3>5. \A v \in Senders : senders[v].step = "permitted" /\ senders[v].key = k => message.posts = 0
      BY <3>3 DEF SendingSound, PermitsAreUnique
    <3> HIDE DEF message, next
    <3>6. GoesOn(k, message)
      BY <2>2, <3>1, <3>3, <3>4, <1>1 DEF GoesOn
    <3>7. MayGoOn(w, k, message, next)
      BY <2>3, <3>5 DEF MayGoOn
    <3> HIDE DEF k
    <3> QED BY <2>1, <2>3, <2>5, <3>2, <3>6, <3>7, <1>1, MessageMoves
  <2>6. CASE messages' = [messages EXCEPT ![k].ref = TRUE]
    <3> DEFINE referenced == [messages[k] EXCEPT !.ref = TRUE]
    <3>1. messages' = [messages EXCEPT ![k] = referenced]
      BY <2>6, <1>1
    <3>2. /\ referenced \in MessageRecord /\ referenced.state = messages[k].state
          /\ referenced.revision = messages[k].revision /\ referenced.posts = messages[k].posts
      BY <1>1 DEF MessageRecord
    <3>3. messages[k].state # "none" /\ messages[k].posts \in {0, 1}
      BY <2>2, <1>1, PastStates DEF SendingSound, PermitsAreUnique
    <3>4. \A v \in Senders : senders[v].step = "permitted" /\ senders[v].key = k => referenced.posts = 0
      BY <3>2 DEF SendingSound, PermitsAreUnique
    <3> HIDE DEF referenced, next
    <3>5. GoesOn(k, referenced)
      BY <2>2, <3>2, <3>3 DEF GoesOn
    <3>6. MayGoOn(w, k, referenced, next)
      BY <2>3, <3>4 DEF MayGoOn
    <3> HIDE DEF k
    <3> QED BY <2>1, <2>3, <3>1, <3>2, <3>5, <3>6, <1>1, MessageMoves
  <2>7. \/ messages' = messages \/ messages' = [messages EXCEPT ![k] = message]
        \/ messages' = [messages EXCEPT ![k].ref = TRUE]
    BY <1>7, <1>1 DEF RecordSubmission
  <2> QED BY <2>4, <2>5, <2>6, <2>7
<1>8. CASE CrashSender(w)
  BY <1>8, ReleaseLeaves DEF CrashSender
<1> QED BY <1>4, <1>5, <1>6, <1>7, <1>8

\* A report is about a message that was posted; an adverse one suppresses.
LEMMA ObserveKeeps ==
    ASSUME DraftSound, SendingSound, NEW k \in Keys, NEW report \in Reports, Observe(k, report)
    PROVE  DraftSound' /\ SendingSound'
<1> DEFINE message == [messages[k] EXCEPT !.state = DeliveryTransition(@, Reported(report[2])),
                                          !.seen = @ \cup {report}]
<1>1. messages \in [Keys -> MessageRecord] /\ messages[k] \in MessageRecord /\ messages[k].state \in Past
  BY DEF Observe, SendingSound, PermitsAreUnique
<1>2. messages' = [messages EXCEPT ![k] = message] /\ senders' = senders
  BY <1>1 DEF Observe
<1>3. /\ DeliveryTransition(messages[k].state, Reported(report[2])) \in Past
      /\ DeliveryTransition(messages[k].state, Reported(report[2])) \in Outstanding
            => messages[k].state \in Outstanding
  BY <1>1, TransitionsGoOn
<1>4. message \in MessageRecord
  BY <1>1, <1>3, PastStates DEF MessageRecord
<1>5. /\ message.state = DeliveryTransition(messages[k].state, Reported(report[2]))
      /\ message.revision = messages[k].revision /\ message.posts = messages[k].posts
      /\ message.ref = messages[k].ref
  BY <1>1 DEF MessageRecord
<1> HIDE DEF message
<1>6. messages' \in [Keys -> MessageRecord] /\ messages'[k] = message
      /\ \A j \in Keys : j # k => messages'[j] = messages[j]
  BY <1>1, <1>2, <1>4
<1>7. PermitsAreUnique'
  <2>1. \A w \in Senders : senders[w].key \in Keys
    BY DEF SendingSound, SenderRecord
  <2>2. \A j \in Keys : messages'[j].posts = messages[j].posts /\ messages'[j].ref = messages[j].ref
                        /\ (messages[j].state \in Past => messages'[j].state \in Past)
    BY <1>3, <1>5, <1>6
  <2> QED BY <2>1, <2>2, <1>2 DEF SendingSound, PermitsAreUnique
<1>8. CopiesDiffer'
  <2>1. \A j \in Keys : /\ messages'[j].state # "none" => messages[j].state # "none"
                        /\ messages'[j].revision = messages[j].revision
                        /\ messages'[j].state \in Outstanding => messages[j].state \in Outstanding
    BY <1>1, <1>3, <1>5, <1>6, PastStates
  <2> QED BY <2>1 DEF SendingSound, CopiesDiffer, Admitted
<1>9. DraftSound'
  <2>1. Invalidated \in [id : Nat, revision : Nat, valid : BOOLEAN] /\ ~Invalidated.valid
    BY DEF Invalidated, DraftSound
  <2>2. CASE Suppresses(report[2])
    <3>1. contact' = [suppressed |-> TRUE, quarantined |-> TRUE] /\ material' \in Nat
          /\ approval' = Invalidated /\ draft' = draft
      BY <2>2 DEF Observe, Suppress, DraftSound
    <3> QED BY <2>1, <3>1 DEF DraftSound, ApprovalIsCurrent
  <2>3. CASE ~Suppresses(report[2])
    BY <2>3 DEF Observe, DraftSound, ApprovalIsCurrent
  <2> QED BY <2>2, <2>3
<1> QED BY <1>2, <1>6, <1>7, <1>8, <1>9 DEF SendingSound

LEMMA DeliveryStep == SendingInv /\ [DeliveryNext]_deliveryVars => SendingInv'
<1> SUFFICES ASSUME DraftSound, SendingSound, [DeliveryNext]_deliveryVars
             PROVE  DraftSound' /\ SendingSound'
  BY DEF SendingInv, DraftSound, SendingSound, DeliveryTypes
<1>1. CASE DraftSteps
  <2>1. UNCHANGED <<messages, senders>>
    BY <1>1 DEF DraftSteps, EditDraft, ReviewManualGrounding, NewRevision, RequestDraftReview, ApproveDraft,
       ChangeMaterial, AddSuppression, RemoveSuppression, RevalidateContact
  <2>2. SendingSound'
    BY <2>1 DEF SendingSound, PermitsAreUnique, CopiesDiffer, Admitted
  <2> QED BY <1>1, <2>2, DraftStaysSound
<1>2. ASSUME UNCHANGED <<material, contact, draft, approval>>, SendingSound'
      PROVE  DraftSound' /\ SendingSound'
  BY <1>2 DEF DraftSound, ApprovalIsCurrent
<1>3. ASSUME NEW k \in Keys, AdmitDelivery(k)
      PROVE  DraftSound' /\ SendingSound'
  BY <1>2, <1>3, AdmissionKeeps DEF AdmitDelivery
<1>4. ASSUME NEW k \in Keys, NEW report \in Reports, Observe(k, report)
      PROVE  DraftSound' /\ SendingSound'
  BY <1>4, ObserveKeeps
<1>5. ASSUME NEW k \in Keys, NEW w \in Senders, TakeLease(w, k)
      PROVE  DraftSound' /\ SendingSound'
  <2>1. [step |-> "taken", key |-> k, answer |-> "none"] \in SenderRecord
    BY DEF SenderRecord
  <2>2. SendingSound'
    BY <1>5, <2>1, SenderLeaves DEF TakeLease
  <2> QED BY <1>2, <1>5, <2>2 DEF TakeLease
<1>6. ASSUME NEW w \in Senders,
             ClaimSubmission(w) \/ ClaimPost(w) \/ Post(w) \/ RecordSubmission(w) \/ CrashSender(w)
      PROVE  DraftSound' /\ SendingSound'
  BY <1>2, <1>6, RunnerKeeps DEF ClaimSubmission, ClaimPost, Advance, Post, RecordSubmission, CrashSender
<1>7. CASE UNCHANGED deliveryVars
  BY <1>7 DEF deliveryVars, DraftSound, ApprovalIsCurrent, SendingSound, PermitsAreUnique, CopiesDiffer, Admitted
<1> QED BY <1>1, <1>3, <1>4, <1>5, <1>6, <1>7 DEF DeliveryNext, DraftSteps

LEMMA DeliveryStarts == ASSUME Keys # {}, DeliveryInit PROVE SendingInv
<1>1. (CHOOSE k \in Keys : TRUE) \in Keys
  OBVIOUS
<1>2. NoMessage \in MessageRecord /\ NoMessage.state = "none" /\ NoMessage.posts = 0 /\ ~NoMessage.ref
  BY DEF NoMessage, MessageRecord
<1>3. DeliveryTypes
  BY <1>1, <1>2 DEF DeliveryInit, DeliveryTypes, SenderRecord
<1>4. \A w \in Senders : senders[w].step = "idle"
  BY DEF DeliveryInit
<1>5. \A k \in Keys : messages[k] = NoMessage
  BY DEF DeliveryInit
<1> QED BY <1>2, <1>3, <1>4, <1>5
        DEF SendingInv, DeliveryInit, ApprovalIsCurrent, PermitsAreUnique, CopiesDiffer, Admitted

\* The invariant says what the run checks.
LEMMA SendingIsApproved == SendingInv => ApprovedCopySentOnce
<1> SUFFICES ASSUME SendingInv PROVE CopySentOnce
  BY DEF SendingInv, ApprovedCopySentOnce
<1>1. /\ \A k \in Keys : messages[k].posts <= 1
      /\ \A j, k \in Keys : (j # k /\ messages[j].posts > 0 /\ messages[k].posts > 0)
                                => messages[j].revision # messages[k].revision
  <2>1. \A k \in Keys : messages[k].posts \in {0, 1} /\ (messages[k].posts = 1 => k \in Admitted)
    BY PastStates DEF SendingInv, PermitsAreUnique, Admitted
  <2> QED BY <2>1 DEF SendingInv, CopiesDiffer
<1>2. Cardinality({k \in Keys : messages[k].state \in Outstanding}) <= 1
  <2> DEFINE open == {k \in Keys : messages[k].state \in Outstanding}
  <2>1. \A j, k \in open : j = k
    BY DEF SendingInv, CopiesDiffer, Admitted, Outstanding
  <2> HIDE DEF open
  <2>2. open = {} \/ \E k : open = {k}
    BY <2>1
  <2>3. CASE open = {}
    BY <2>3, FS_EmptySet DEF open
  <2>4. ASSUME NEW k, open = {k} PROVE Cardinality(open) <= 1
    BY <2>4, FS_Singleton
  <2> QED BY <2>2, <2>3, <2>4 DEF open
<1> QED BY <1>1, <1>2 DEF CopySentOnce

\* What leaves the house was approved as it is, and leaves once: for any number
\* of keys, workers, revisions, approvals and reports (delivery_admission,
\* delivery_runner, approval_service).
THEOREM DeliveryIsApprovedOnce ==
    ASSUME Keys # {}
    PROVE  DeliverySpec => []ApprovedCopySentOnce
<1>1. DeliveryInit => SendingInv
  BY DeliveryStarts
<1> QED BY <1>1, DeliveryStep, SendingIsApproved, PTL DEF DeliverySpec
==============================================================================
