---------------------------- MODULE PilotBudget ----------------------------
(***************************************************************************)
(* The shared monthly cap of the pilot (services/api/buyeros_api/services/ *)
(* pilot_budget_service.py): people record what was charged outside, each  *)
(* charge under an economic identity with a chain of events, and reconcile *)
(* the month; a reservation of the native ledger is admitted only against  *)
(* a snapshot that counts both once and is known to be complete.           *)
(*                                                                         *)
(* The native ledger is kept as BudgetLedger keeps it: a hold, or a charge *)
(* of the month of the reservation.  Writers hold the budget lock of the   *)
(* workspace, so a write is one step; what a person saw is older.          *)
(***************************************************************************)
EXTENDS Naturals, Sequences, FiniteSets, FiniteSetsExt

CONSTANTS
    ChargeKeys,         \* economic identities
    Amounts,            \* USD amounts and upper bounds
    Limit,              \* monthly_limit
    MaxOperations,      \* bound: native reservations
    MaxVersion,         \* bound: writes of people
    LastMonth           \* bound: months

VARIABLES
    month,              \* the UTC month
    pilot,              \* the policy: version and ledger version
    native,             \* native operations, in order of reservation
    events,             \* pilot_cost_events, in order
    reconciliations,    \* pilot_reconciliations, in order, with what they were made on
    page                \* the snapshot a person writes from

pilotVars == <<month, pilot, native, events, reconciliations, page>>

Undisclosed == 0        \* the amount or the upper bound that an event leaves open
TheOperations == DOMAIN native

------------------------------------------------------------------------------
\* _snapshot.

\* The latest event of every economic identity.
LatestEvents == {e \in DOMAIN events :
                    \A f \in DOMAIN events : events[f].key = events[e].key => f <= e}

LedgerHash == LatestEvents

\* A copy of a native charge agrees with it, so that the native one counts.
Agrees(e) ==
    LET operation == native[events[e].native] IN
    /\ operation.period = events[e].period
    /\ IF events[e].effective = "settled" THEN operation.net = events[e].value
       ELSE /\ events[e].effective \in {"committed", "unknown"}
            /\ events[e].value # Undisclosed /\ operation.hold >= events[e].value

External == {e \in LatestEvents : events[e].native = 0}
Blocked ==
    \E e \in LatestEvents :
        \/ ~events[e].evidence
        \/ events[e].native # 0 /\ ~Agrees(e)
        \/ events[e].native = 0 /\ events[e].value = Undisclosed

Amount(field) == [o \in TheOperations |-> native[o][field]]
Value == [e \in DOMAIN events |-> events[e].value]
NativeSettled == SumFunctionOnSet(Amount("net"), {o \in TheOperations : native[o].period = month})

\* Mutant: the holds of earlier months are left out.
NativeHeld_ThisMonth == SumFunctionOnSet(Amount("hold"), {o \in TheOperations : native[o].period = month})

NativeHeld == SumFunctionOnSet(Amount("hold"), TheOperations)
ExternalSettled ==
    SumFunctionOnSet(Value, {e \in External : events[e].effective = "settled" /\ events[e].period = month})
ExternalHold == SumFunctionOnSet(Value, {e \in External : events[e].effective # "settled"})

Committed == NativeSettled + NativeHeld + ExternalSettled + ExternalHold

OfThisMonth == {r \in DOMAIN reconciliations : reconciliations[r].period = month}

Reconciled ==
    /\ OfThisMonth # {}
    /\ LET latest == reconciliations[CHOOSE r \in OfThisMonth : \A s \in OfThisMonth : s <= r] IN
       /\ latest.evidence /\ latest.known
       /\ latest.hash = LedgerHash /\ latest.ledger = pilot.ledger

------------------------------------------------------------------------------
\* Writes of people, from a page they read; page.version is the If-Match.

ReadBudget ==
    /\ page' = [version |-> pilot.version, ledger |-> pilot.ledger, hash |-> LedgerHash, month |-> month]
    /\ page' # page
    /\ UNCHANGED <<month, pilot, native, events, reconciliations>>

\* Mutant: the version of the policy is not advanced.
WritePolicy_SameVersion(ledger) ==
    /\ page.version = pilot.version /\ pilot.version < MaxVersion
    /\ pilot' = [pilot EXCEPT !.ledger = @ + ledger]

\* _write_policy: the version in the If-Match is the one under the lock.
WritePolicy(ledger) ==
    /\ page.version = pilot.version /\ pilot.version < MaxVersion
    /\ pilot' = [version |-> pilot.version + 1, ledger |-> pilot.ledger + ledger]

\* set_pilot_policy, with the same limit, and record_credit_observation.
SetPilotPolicy == WritePolicy(0) /\ UNCHANGED <<month, native, events, reconciliations, page>>
RecordCredits == WritePolicy(1) /\ UNCHANGED <<month, native, events, reconciliations, page>>

Chain(key) == {e \in DOMAIN events : events[e].key = key}
Previous(key) == CHOOSE e \in Chain(key) : \A f \in Chain(key) : f <= e

\* record_pilot_cost: a charge keeps its month and its native operation, and a
\* native operation has one economic identity.
RecordCost(key, operation, state, value) ==
    /\ WritePolicy(1)
    /\ IF Chain(key) = {} THEN operation \in TheOperations \cup {0}
       ELSE operation = events[Previous(key)].native
    /\ operation # 0 => \A e \in DOMAIN events : events[e].native = operation => events[e].key = key
    /\ \E period \in 1..month :
          /\ Chain(key) # {} => period = events[Previous(key)].period
          /\ operation # 0 => period = native[operation].period
          /\ events' = Append(events, [key |-> key, native |-> operation, period |-> period,
                 effective |-> IF state = "corrected" /\ Chain(key) # {}
                               THEN events[Previous(key)].effective ELSE state,
                 value |-> value, evidence |-> TRUE])
    /\ UNCHANGED <<month, native, reconciliations, page>>

\* reconcile_pilot_budget: the page's month, ledger and hash are those of now.
Reconcile(known) ==
    /\ WritePolicy(0)
    /\ page.month = month /\ page.ledger = pilot.ledger /\ page.hash = LedgerHash
    /\ reconciliations' = Append(reconciliations,
           [period |-> month, ledger |-> pilot.ledger, hash |-> page.hash, known |-> known, evidence |-> TRUE])
    /\ UNCHANGED <<month, native, events, page>>

\* A private payload of 30 days: the proof of a cost or of a reconciliation
\* ends.  A proof that names neither fees nor minimum purchase is none.
ExpireEvidence ==
    /\ \/ \E e \in DOMAIN events :
             /\ events[e].evidence /\ events' = [events EXCEPT ![e].evidence = FALSE]
             /\ UNCHANGED reconciliations
       \/ \E r \in DOMAIN reconciliations :
             /\ reconciliations[r].evidence
             /\ reconciliations' = [reconciliations EXCEPT ![r].evidence = FALSE]
             /\ UNCHANGED events
    /\ UNCHANGED <<month, pilot, native, page>>

------------------------------------------------------------------------------
\* The native ledger.

\* assert_pilot_admission within reserve_operation.
Admit(bound) ==
    /\ Len(native) < MaxOperations
    /\ ~Blocked /\ Reconciled /\ Committed + bound <= Limit
    /\ native' = Append(native, [period |-> month, hold |-> bound, net |-> 0])
    /\ UNCHANGED <<month, pilot, events, reconciliations, page>>

\* A settlement charges the month of the reservation; the rest is released.
Settle(o, amount) ==
    /\ native[o].hold >= amount /\ native[o].hold > 0
    /\ native' = [native EXCEPT ![o] = [@ EXCEPT !.hold = 0, !.net = amount]]
    /\ UNCHANGED <<month, pilot, events, reconciliations, page>>

TurnMonth ==
    /\ month < LastMonth /\ month' = month + 1
    /\ UNCHANGED <<pilot, native, events, reconciliations, page>>

PilotInit ==
    /\ month = 1 /\ pilot = [version |-> 1, ledger |-> 1]
    /\ native = <<>> /\ events = <<>> /\ reconciliations = <<>>
    /\ page = [version |-> 1, ledger |-> 1, hash |-> {}, month |-> 1]

PilotNext ==
    \/ ReadBudget \/ SetPilotPolicy \/ RecordCredits \/ TurnMonth \/ ExpireEvidence
    \/ \E key \in ChargeKeys, operation \in TheOperations \cup {0},
          state \in {"committed", "settled", "unknown", "corrected"},
          value \in Amounts \cup {Undisclosed} : RecordCost(key, operation, state, value)
    \/ \E known \in BOOLEAN : Reconcile(known)
    \/ \E bound \in Amounts : Admit(bound)
    \/ \E o \in TheOperations, amount \in Amounts \cup {0} : Settle(o, amount)

PilotSpec == PilotInit /\ [][PilotNext]_pilotVars

------------------------------------------------------------------------------
PilotTypeOK ==
    /\ month \in 1..LastMonth
    /\ Len(native) <= MaxOperations /\ Len(events) < pilot.version /\ pilot.version <= MaxVersion
    /\ \A o \in TheOperations : native[o].period <= month
    /\ \A e \in DOMAIN events : events[e].native \in TheOperations \cup {0}

\* What the month must bear: every charge once, the native ones by the native
\* ledger, the others by the last thing known of them.
Borne ==
    LET own == [o \in TheOperations |->
                   native[o].hold + (IF native[o].period = month THEN native[o].net ELSE 0)]
        other == [e \in External |->
                     IF events[e].effective # "settled" \/ events[e].period = month THEN events[e].value ELSE 0]
    IN  SumFunctionOnSet(own, TheOperations) + SumFunctionOnSet(other, External)

AdmittedWithinCap ==
    Len(native') > Len(native) =>
       /\ Borne' <= Limit
       /\ \A e \in LatestEvents : events[e].evidence
       /\ \E r \in DOMAIN reconciliations :
             /\ reconciliations[r].period = month /\ reconciliations[r].hash = LatestEvents
             /\ reconciliations[r].known /\ reconciliations[r].evidence

\* An operation is admitted only while the month bears it together with every
\* other charge, and only if a person reconciled this month, in evidence that
\* is still kept, knowing exactly the events that count now (reserve_operation,
\* assert_pilot_admission, _snapshot, reconcile_pilot_budget).
AdmissionWithinCap == [][AdmittedWithinCap]_pilotVars
=============================================================================
