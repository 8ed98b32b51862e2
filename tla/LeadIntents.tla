---------------------------- MODULE LeadIntents ----------------------------
(***************************************************************************)
(* How an edit of the lead workspace is saved: the browser prepares an     *)
(* intent under a key of the edit, reads it back, applies it under the     *)
(* intent's own submission key and acknowledges it (services/live/         *)
(* lead-intents.ts, features/live/lead-workflow/operation.tsx); the server *)
(* stores the intent and writes when it is applied (lead_intent_service).  *)
(* Requests are late or lost, the tab gives up and tries again, reloads,   *)
(* or another tab of the same person finishes or cancels what it finds.    *)
(*                                                                         *)
(* All edits here go to one target, so a tab keeps one cache entry.        *)
(***************************************************************************)
EXTENDS Naturals, Sequences, FiniteSets

CONSTANTS
    Tabs,           \* tabs of one actor
    Sessions,       \* what an edit may contain, its fingerprint, and (bound)
                    \* how many requests are given up and pages opened again
    MaxKeys         \* bound: edits begun

VARIABLES
    intents,        \* lead_action_intents of the actor and the target, in order
    recorded,       \* the idempotency record of prepareLeadIntent: key -> intent
    entry,          \* tab -> the cache entry of the target
    doing,          \* tab -> what its operation waits for
    shown,          \* tab -> intents it shows as pending; "unknown" blocks a new edit
    wire,           \* requests on their way
    session,        \* contents, and the faults still to come
    confirmed       \* which intent an edit went on to apply, for the property below

intentVars == <<intents, recorded, entry, doing, shown, wire, session, confirmed>>

NoEntry == [content |-> "none", key |-> 0, intent |-> 0]
Idle == [at |-> "idle", intent |-> 0]
Waiting == {"listing", "preparing", "reading", "applying", "acknowledging", "cancelling"}
Keys == 1..MaxKeys
NextKey == 1 + Cardinality({k \in Keys : k \in DOMAIN recorded})

\* list_intents: neither cancelled nor acknowledged.
Open(i) == intents[i].state # "cancelled" /\ ~intents[i].acknowledged
Unresolved == {i \in DOMAIN intents : Open(i)}
Oldest(S) == CHOOSE i \in S : \A j \in S : i <= j

------------------------------------------------------------------------------
\* The tab.

\* The key is reused by a repetition of the same edit, and no other edit of the
\* target is begun while one is cached.
Run(tab, content) ==
    /\ doing[tab] = Idle /\ shown[tab] = {}
    /\ entry[tab].content \in {"none", content}
    /\ IF entry[tab] # NoEntry THEN UNCHANGED <<entry, recorded>>
       ELSE /\ NextKey \in Keys
            /\ entry' = [entry EXCEPT ![tab] = [content |-> content, key |-> NextKey, intent |-> 0]]
            /\ recorded' = [k \in DOMAIN recorded \cup {NextKey} |->
                               IF k \in DOMAIN recorded THEN recorded[k] ELSE 0]
    /\ doing' = [doing EXCEPT ![tab] = [at |-> "listing", intent |-> 0]]
    /\ UNCHANGED <<intents, shown, wire, confirmed, session>>

Send(tab, op, i) ==
    /\ wire' = wire \cup {[op |-> op, tab |-> tab, key |-> entry[tab].key,
                           content |-> entry[tab].content, intent |-> i]}
    /\ doing' = [doing EXCEPT ![tab] = [at |-> CASE op = "prepare" -> "preparing" [] op = "apply" -> "applying"
                                               [] op = "acknowledge" -> "acknowledging" [] op = "cancel" -> "cancelling",
                                        intent |-> i]]

\* prepareLeadIntent: an original that this edit did not begin stops it.
Recover(tab) ==
    /\ doing[tab].at = "listing"
    /\ LET original == IF Unresolved = {} THEN 0 ELSE Oldest(Unresolved)
           own == original # 0 /\ (intents[original].key = entry[tab].key \/ original = entry[tab].intent) IN
       \/ original = 0 /\ Send(tab, "prepare", 0) /\ UNCHANGED <<entry, shown>>
       \/ /\ own
          /\ entry' = [entry EXCEPT ![tab].intent = original]
          /\ doing' = [doing EXCEPT ![tab] = [at |-> "reading", intent |-> original]]
          /\ UNCHANGED <<shown, wire>>
       \/ /\ original # 0 /\ ~own
          /\ doing' = [doing EXCEPT ![tab] = Idle]
          /\ shown' = [shown EXCEPT ![tab] = Unresolved]
          /\ UNCHANGED <<entry, wire>>
    /\ UNCHANGED <<intents, recorded, confirmed, session>>

\* applyLeadIntent reads the intent again before it submits it.
ReadBack(tab) ==
    /\ doing[tab].at = "reading"
    /\ LET i == doing[tab].intent IN
       /\ CASE intents[i].state = "prepared" -> Send(tab, "apply", i) /\ UNCHANGED shown
            [] intents[i].state = "applied" -> Send(tab, "acknowledge", i) /\ UNCHANGED shown
            [] OTHER -> /\ doing' = [doing EXCEPT ![tab] = Idle]
                        /\ shown' = [shown EXCEPT ![tab] = Unresolved]
                        /\ UNCHANGED wire
       /\ confirmed' = IF entry[tab].intent = i THEN confirmed \cup {<<entry[tab].key, i>>} ELSE confirmed
    /\ UNCHANGED <<intents, recorded, entry, session>>

\* resolve and cancel of an intent shown as pending, whoever began it.
Continue(tab, i) ==
    /\ doing[tab] = Idle /\ i \in shown[tab]
    /\ doing' = [doing EXCEPT ![tab] = [at |-> "reading", intent |-> i]]
    /\ UNCHANGED <<intents, recorded, entry, shown, wire, confirmed, session>>

Cancel(tab, i) ==
    /\ doing[tab] = Idle /\ i \in shown[tab]
    /\ Send(tab, "cancel", i)
    /\ UNCHANGED <<intents, recorded, entry, shown, confirmed, session>>

Faulty == session.faults > 0 /\ session' = [session EXCEPT !.faults = @ - 1]

\* A request times out and stays on its way; the list is read again and known handles are kept.
GiveUp(tab) ==
    /\ doing[tab].at \in Waiting /\ Faulty
    /\ doing' = [doing EXCEPT ![tab] = Idle]
    /\ shown' = [shown EXCEPT ![tab] = Unresolved \cup ({doing[tab].intent} \ {0})]
    /\ UNCHANGED <<intents, recorded, entry, wire, confirmed>>

\* The page is opened again; a reload or another session empties the cache too.
Reopen(tab, cached) ==
    /\ Faulty
    /\ doing' = [doing EXCEPT ![tab] = Idle]
    /\ shown' = [shown EXCEPT ![tab] = Unresolved]
    /\ entry' = IF cached THEN entry ELSE [entry EXCEPT ![tab] = NoEntry]
    /\ UNCHANGED <<intents, recorded, wire, confirmed>>

------------------------------------------------------------------------------
\* The server.

\* Mutant: only an intent that is still open answers a repeated key.
Replayed_Open(key) ==
    IF recorded[key] # 0 /\ Open(recorded[key]) THEN recorded[key] ELSE 0

\* The completed idempotency record of the key.
Replayed(key) == recorded[key]

\* uq_lead_intent_unresolved: an open intent with this fingerprint is joined.
Joined(content) == {i \in Unresolved : intents[i].content = content}

Prepared(r) ==
    IF Replayed(r.key) # 0 THEN Replayed(r.key)
    ELSE IF Joined(r.content) # {} THEN Oldest(Joined(r.content)) ELSE Len(intents) + 1

Arrived(r, op) == r \in wire /\ r.op = op
Awaited(r, at) ==
    /\ doing[r.tab] = [at |-> at, intent |-> r.intent]
    /\ at = "preparing" => entry[r.tab].key = r.key

\* Nobody waits for the answer: it was lost, or the request was late.
Ends(r, at) ==
    /\ ~Awaited(r, at)
    /\ wire' = wire \ {r}
    /\ UNCHANGED <<entry, doing, shown>>

PrepareIntent(r) ==
    /\ Arrived(r, "prepare")
    /\ recorded' = [recorded EXCEPT ![r.key] = Prepared(r)]
    /\ intents' = IF Prepared(r) \in DOMAIN intents THEN intents
                  ELSE Append(intents, [content |-> r.content, key |-> r.key, state |-> "prepared",
                                        acknowledged |-> FALSE, writes |-> 0])
    /\ \/ Ends(r, "preparing")
       \/ /\ Awaited(r, "preparing")
          /\ entry' = [entry EXCEPT ![r.tab].intent = Prepared(r)]
          /\ doing' = [doing EXCEPT ![r.tab] = [at |-> "reading", intent |-> Prepared(r)]]
          /\ wire' = wire \ {r} /\ UNCHANGED shown
    /\ UNCHANGED <<confirmed, session>>

\* A refusal that proves that nothing was stored forgets the edit.
RefuseIntent(r) ==
    /\ Arrived(r, "prepare") /\ Replayed(r.key) = 0
    /\ wire' = wire \ {r}
    /\ IF Awaited(r, "preparing")
       THEN /\ entry' = [entry EXCEPT ![r.tab] = NoEntry]
            /\ doing' = [doing EXCEPT ![r.tab] = Idle]
            /\ shown' = [shown EXCEPT ![r.tab] = Unresolved]
       ELSE UNCHANGED <<entry, doing, shown>>
    /\ UNCHANGED <<intents, recorded, confirmed, session>>

Applicable(i) == intents[i].state = "prepared"

\* apply_intent under the lock of the row; an applied intent answers its receipt.
ApplyIntent(r) ==
    /\ Arrived(r, "apply") /\ intents[r.intent].state # "cancelled"
    /\ intents' = IF Applicable(r.intent)
                  THEN [intents EXCEPT ![r.intent].state = "applied", ![r.intent].writes = @ + 1]
                  ELSE intents
    /\ \/ Ends(r, "applying")
       \/ /\ Awaited(r, "applying")
          /\ wire' = (wire \ {r}) \cup {[r EXCEPT !.op = "acknowledge"]}
          /\ doing' = [doing EXCEPT ![r.tab].at = "acknowledging"]
          /\ UNCHANGED <<entry, shown>>
    /\ UNCHANGED <<recorded, confirmed, session>>

\* The intent was cancelled, its payload expired, or what it edits has changed.
RefuseApply(r) ==
    /\ Arrived(r, "apply") /\ intents[r.intent].state # "applied"
    /\ \/ Ends(r, "applying")
       \/ /\ Awaited(r, "applying")
          /\ doing' = [doing EXCEPT ![r.tab] = Idle]
          /\ shown' = [shown EXCEPT ![r.tab] = Unresolved]
          /\ wire' = wire \ {r} /\ UNCHANGED entry
    /\ UNCHANGED <<intents, recorded, confirmed, session>>

\* The entry is dropped when the intent is known to be over.
Settled(r, at) ==
    /\ Awaited(r, at)
    /\ entry' = IF entry[r.tab].intent = r.intent THEN [entry EXCEPT ![r.tab] = NoEntry] ELSE entry
    /\ shown' = [shown EXCEPT ![r.tab] = @ \ {r.intent}]

AcknowledgeIntent(r) ==
    /\ Arrived(r, "acknowledge") /\ intents[r.intent].state # "prepared"
    /\ intents' = [intents EXCEPT ![r.intent].acknowledged = TRUE]
    /\ \/ Ends(r, "acknowledging")
       \/ Settled(r, "acknowledging") /\ wire' = wire \ {r} /\ doing' = [doing EXCEPT ![r.tab] = Idle]
    /\ UNCHANGED <<recorded, confirmed, session>>

\* cancel_intent; one that was applied meanwhile is acknowledged instead.
CancelIntent(r) ==
    /\ Arrived(r, "cancel")
    /\ intents' = IF intents[r.intent].state = "prepared"
                  THEN [intents EXCEPT ![r.intent].state = "cancelled"] ELSE intents
    /\ \/ Ends(r, "cancelling")
       \/ /\ Settled(r, "cancelling")
          /\ IF intents'[r.intent].state = "applied"
             THEN /\ wire' = (wire \ {r}) \cup {[r EXCEPT !.op = "acknowledge"]}
                  /\ doing' = [doing EXCEPT ![r.tab].at = "acknowledging"]
             ELSE wire' = wire \ {r} /\ doing' = [doing EXCEPT ![r.tab] = Idle]
    /\ UNCHANGED <<recorded, confirmed, session>>

IntentInit ==
    /\ intents = <<>> /\ recorded = <<>> /\ wire = {} /\ confirmed = {} /\ session \in Sessions
    /\ entry = [tab \in Tabs |-> NoEntry]
    /\ doing = [tab \in Tabs |-> Idle]
    /\ shown = [tab \in Tabs |-> {}]

IntentNext ==
    \/ \E tab \in Tabs :
          \/ \E content \in session.contents : Run(tab, content)
          \/ Recover(tab) \/ ReadBack(tab) \/ GiveUp(tab)
          \/ \E i \in shown[tab] : Continue(tab, i) \/ Cancel(tab, i)
          \/ \E cached \in BOOLEAN : Reopen(tab, cached)
    \/ \E r \in wire :
          \/ PrepareIntent(r) \/ RefuseIntent(r) \/ ApplyIntent(r) \/ RefuseApply(r)
          \/ AcknowledgeIntent(r) \/ CancelIntent(r)

IntentSpec == IntentInit /\ [][IntentNext]_intentVars

------------------------------------------------------------------------------
IntentTypeOK ==
    /\ \A i \in DOMAIN intents : intents[i].state \in {"prepared", "applied", "cancelled"}
    /\ \A tab \in Tabs : doing[tab].at \in Waiting \cup {"idle"}
    /\ DOMAIN recorded \subseteq Keys

\* An edit is written at most once however often it is sent, answered late or
\* finished from another tab; what was cancelled is never written; and a
\* content is open in one intent at a time (prepare_intent, apply_intent,
\* cancel_intent; lead-intents.ts).
EditWrittenOnce ==
    /\ \A key \in DOMAIN recorded :
          Cardinality({i \in DOMAIN intents : <<key, i>> \in confirmed /\ intents[i].writes > 0}) <= 1
    /\ \A i \in DOMAIN intents :
          intents[i].writes = (IF intents[i].state = "applied" THEN 1 ELSE 0)
    /\ \A i, j \in Unresolved : intents[i].content = intents[j].content => i = j
=============================================================================
