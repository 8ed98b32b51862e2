--------------------------- MODULE GroundedReply ---------------------------
(***************************************************************************)
(* A paid answer from approved sources: services/conversation_admission.py *)
(* admits a question and completes it with one model call, whose receipt   *)
(* (providers/model_receipts.py) is prepared, claimed and finished in      *)
(* three transactions; services/live/conversation-reply.ts asks, gives up  *)
(* and asks again. For a workspace with a reviewed registration; without   *)
(* one prepare_conversation admits nothing.                                *)
(***************************************************************************)
EXTENDS Integers, FiniteSets

CONSTANTS Questions, Handlers, MaxKeys, MaxChanges

VARIABLES grounds,     \* number of the approved sources, their profile and role
          allowed,     \* the policy permits the model to use them
          fence,       \* epoch of the runtime
          receipts,    \* per key: state, frozen question and grounds, deadline, epoch, hold
          repliers,    \* requests being handled
          intent,      \* what the page asked last, under which key
          modelCalls,  \* calls the provider got, per key
          upsets

groundVars == <<grounds, allowed, fence, receipts, repliers, intent, modelCalls, upsets>>

Keys == 1..MaxKeys
NoReceipt == [state |-> "none", question |-> "none", grounds |-> 0, due |-> FALSE, epoch |-> 0, hold |-> FALSE]
Idle == [stage |-> "idle", key |-> 0, question |-> "none", grounds |-> 0, seen |-> "none", heard |-> FALSE]

Becomes(h, stage) == repliers' = [repliers EXCEPT ![h].stage = stage]

\* askBuyerOS: the same question again has the same key until it is answered;
\* who gave up on the first request does not wait for it.
KeyFor(q) == IF intent.question = q THEN intent.key ELSE intent.last + 1

AskQuestion(h, q) ==
    /\ repliers[h].stage = "idle" /\ KeyFor(q) <= MaxKeys
    /\ \A g \in Handlers : ~repliers[g].heard
    /\ intent' = [question |-> q, key |-> KeyFor(q), last |-> IF KeyFor(q) > intent.last THEN KeyFor(q) ELSE intent.last]
    /\ repliers' = [repliers EXCEPT ![h] = [Idle EXCEPT !.stage = "asked", !.key = KeyFor(q), !.question = q, !.heard = TRUE]]
    /\ UNCHANGED <<grounds, allowed, fence, receipts, modelCalls, upsets>>

GiveUp(h) ==
    /\ repliers[h].heard /\ repliers' = [repliers EXCEPT ![h].heard = FALSE]
    /\ UNCHANGED <<grounds, allowed, fence, receipts, intent, modelCalls, upsets>>

\* conversation_reply: the grounding as the route first reads it.
ResolveSources(h) ==
    /\ repliers[h].stage = "asked"
    /\ repliers' = [repliers EXCEPT ![h].stage = "resolved", ![h].grounds = grounds]
    /\ UNCHANGED <<grounds, allowed, fence, receipts, intent, modelCalls, upsets>>

\* require_current_basis, with its rows locked.
CurrentBasis(frozen) == allowed /\ frozen = grounds

\* prepare_conversation: hold, operation, fence and receipt are one
\* transaction; a known key must be the same question on the same grounds.
Prepare(h) ==
    LET r == repliers[h] IN
    /\ r.stage = "resolved" /\ UNCHANGED <<grounds, allowed, fence, intent, modelCalls, upsets>>
    /\ IF ~CurrentBasis(r.grounds) THEN Becomes(h, "failed") /\ UNCHANGED receipts
       ELSE IF receipts[r.key].state = "none" THEN
              /\ receipts' = [receipts EXCEPT ![r.key] = [state |-> "prepared", question |-> r.question, grounds |-> r.grounds,
                                                          due |-> FALSE, epoch |-> fence, hold |-> TRUE]]
              /\ Becomes(h, "prepared")
       ELSE
              /\ Becomes(h, IF receipts[r.key].question = r.question /\ receipts[r.key].grounds = r.grounds THEN "prepared" ELSE "failed")
              /\ UNCHANGED receipts

\* claim: the receipt is read, and only one that is still prepared goes on.
ReadReceipt(h) ==
    LET state == receipts[repliers[h].key].state IN
    /\ repliers[h].stage = "prepared" /\ UNCHANGED <<grounds, allowed, fence, receipts, intent, modelCalls, upsets>>
    /\ repliers' = [repliers EXCEPT ![h].seen = state, ![h].stage =
           CASE state = "prepared" -> "claiming" [] state = "received" -> "reading" [] OTHER -> "failed"]

\* Mutant: the receipt is still what the handler read.
Claimable_AsRead(h) == repliers[h].seen = "prepared"

\* buyeros_transition_conversation_receipt reads it again behind its lock.
Claimable(h) == receipts[repliers[h].key].state = "prepared"

\* _authorize, and the transition to submitting, committed before the call.
ClaimReceipt(h) ==
    LET k == repliers[h].key
        ok == CurrentBasis(receipts[k].grounds) /\ ~receipts[k].due /\ receipts[k].epoch = fence /\ receipts[k].hold IN
    /\ repliers[h].stage = "claiming" /\ UNCHANGED <<grounds, allowed, fence, intent, modelCalls, upsets>>
    /\ receipts' = IF ok /\ Claimable(h) THEN [receipts EXCEPT ![k].state = "submitting"] ELSE receipts
    /\ Becomes(h, IF ok /\ Claimable(h) THEN "claimed" ELSE "failed")

CallModel(h) ==
    /\ repliers[h].stage = "claimed" /\ modelCalls' = [modelCalls EXCEPT ![repliers[h].key] = @ + 1]
    /\ Becomes(h, "answered") \/ Becomes(h, "doubtful")
    /\ UNCHANGED <<grounds, allowed, fence, receipts, intent, upsets>>

\* finish: only a receipt that is submitting, under the runtime that claimed it.
FinishReceipt(h) ==
    LET k == repliers[h].key
        state == IF repliers[h].stage = "answered" THEN "received" ELSE "unknown" IN
    /\ repliers[h].stage \in {"answered", "doubtful"} /\ UNCHANGED <<grounds, allowed, fence, intent, modelCalls, upsets>>
    /\ receipts' = IF receipts[k].state = "submitting" /\ receipts[k].epoch = fence
                   THEN [receipts EXCEPT ![k].state = state] ELSE receipts
    /\ Becomes(h, IF state = "received" THEN "reading" ELSE "failed")

\* get, before the answer leaves: received, and its grounds are current still.
\* An answer the page hears ends its intent.
ReturnAnswer(h) ==
    LET r == repliers[h] IN
    /\ r.stage = "reading" /\ UNCHANGED <<grounds, allowed, fence, receipts, modelCalls, upsets>>
    /\ IF receipts[r.key].state = "received" /\ CurrentBasis(receipts[r.key].grounds)
       THEN /\ Becomes(h, "returned")
            /\ intent' = IF r.heard /\ intent.key = r.key THEN [intent EXCEPT !.question = "none"] ELSE intent
       ELSE Becomes(h, "failed") /\ UNCHANGED intent

EndRequest(h) ==
    /\ repliers[h].stage \in {"failed", "returned"} /\ repliers' = [repliers EXCEPT ![h] = Idle]
    /\ UNCHANGED <<grounds, allowed, fence, receipts, intent, modelCalls, upsets>>

\* The deadline of the call, a cancelled task or a crash: the receipt stays.
Interrupt(h) ==
    /\ repliers[h].stage \notin {"idle", "failed", "returned"} /\ Becomes(h, "failed")
    /\ UNCHANGED <<grounds, allowed, fence, receipts, intent, modelCalls, upsets>>

\* Sources, profile or role change; policy is withdrawn or given; the operation's
\* deadline passes; the runtime is taken over.
Upset ==
    /\ upsets < MaxChanges /\ upsets' = upsets + 1 /\ UNCHANGED <<repliers, intent, modelCalls>>
    /\ \/ grounds' = grounds + 1 /\ UNCHANGED <<allowed, fence, receipts>>
       \/ allowed' = ~allowed /\ UNCHANGED <<grounds, fence, receipts>>
       \/ fence' = fence + 1 /\ UNCHANGED <<grounds, allowed, receipts>>
       \/ \E k \in Keys : receipts[k].state # "none" /\ ~receipts[k].due
              /\ receipts' = [receipts EXCEPT ![k].due = TRUE] /\ UNCHANGED <<grounds, allowed, fence>>

GroundInit ==
    /\ grounds = 1 /\ allowed = TRUE /\ fence = 1 /\ receipts = [k \in Keys |-> NoReceipt]
    /\ repliers = [h \in Handlers |-> Idle] /\ intent = [question |-> "none", key |-> 0, last |-> 0]
    /\ modelCalls = [k \in Keys |-> 0] /\ upsets = 0

GroundNext ==
    \/ Upset
    \/ \E h \in Handlers :
        \/ \E q \in Questions : AskQuestion(h, q)
        \/ GiveUp(h) \/ ResolveSources(h) \/ Prepare(h) \/ ReadReceipt(h) \/ ClaimReceipt(h)
        \/ CallModel(h) \/ FinishReceipt(h) \/ ReturnAnswer(h) \/ EndRequest(h) \/ Interrupt(h)

------------------------------------------------------------------------------
GroundTypeOK ==
    /\ \A k \in Keys : receipts[k].state \in {"none", "prepared", "submitting", "received", "unknown"}
    /\ intent.last \in 0..MaxKeys /\ upsets \in 0..MaxChanges

ClaimedNow(k) == receipts[k].state # "submitting" /\ receipts'[k].state = "submitting"

AnswerStands ==
    /\ \A k \in DOMAIN receipts :
           /\ modelCalls'[k] <= 1 /\ (modelCalls'[k] = 1 => receipts'[k].hold)
           /\ ClaimedNow(k) => receipts[k].grounds = grounds /\ allowed
           /\ receipts[k].state \in {"received", "unknown"} => receipts'[k].state = receipts[k].state
    /\ \A h \in DOMAIN repliers :
           repliers[h].stage = "reading" /\ repliers'[h].stage = "returned"
           => allowed /\ receipts[repliers[h].key].grounds = grounds

\* A key is paid at most once however often its question is asked, given up
\* and asked again; the call stands on grounds that were current and permitted
\* when it was claimed; its hold stays; and no answer leaves once its grounds
\* changed (prepare_conversation, claim, finish, get).
AnswersStandOnGrounds == [][AnswerStands]_groundVars
=============================================================================
