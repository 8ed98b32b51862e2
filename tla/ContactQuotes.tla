--------------------------- MODULE ContactQuotes ---------------------------
(***************************************************************************)
(* Quotes for contact lookups: services/quote_service.py previews who may  *)
(* be looked up and for how much, without a lock and without a hold;       *)
(* services/confirm_service.py turns one quote into one lookup job while   *)
(* buyers are reviewed, permissions change, prices change and other people *)
(* confirm quotes of the same buyers. What the job does then is ContactJob *)
(* and BudgetLedger: here it only takes its states.                        *)
(***************************************************************************)
EXTENDS Integers, FiniteSets, Sequences

CONSTANTS Workspaces,  \* who may quote in a workspace, and which buyers it has
          MaxQuotes, MaxChanges,
          MaxLookups   \* bound: buyers and lookups together

VARIABLES prospects,   \* project_buyers with their latest fit, review and policy
          tariff,      \* version of the reviewed price
          readers,     \* previews between two of their statements
          quotes, lookups, shifts

quoteVars == <<prospects, tariff, readers, quotes, lookups, shifts>>

Members == DOMAIN readers
Prospects == DOMAIN prospects

NoPreview == [stage |-> "none", versions |-> << >>, active |-> {}]
JobStates == {"reserved", "submitting", "unknown", "pending", "closed", "found"}

\* The states in which the code counts a job's buyers as looked up already.
\* A job is pending once the provider accepted: that state is missing.
ActiveStates == {"reserved", "queued", "submitting", "unknown", "reconciling"}

------------------------------------------------------------------------------
(* The preview                                                             *)

Active == UNION {lookups[n].for : n \in {i \in DOMAIN lookups : lookups[i].state \in ActiveStates}}

\* quote_lookup up to the jobs in progress; the selection names the versions
\* the person saw.
ReadActiveLookups(m, selected) ==
    /\ readers[m].stage = "none" /\ selected # {}
    /\ readers' = [readers EXCEPT ![m] =
           [stage |-> "read", versions |-> [b \in selected |-> prospects[b].version], active |-> Active]]
    /\ UNCHANGED <<prospects, tariff, quotes, lookups, shifts>>

Eligible(b, active) ==
    prospects[b].accepted /\ prospects[b].permitted /\ ~prospects[b].researched /\ b \notin active

Line(b, active) == [basis |-> prospects[b].basis, eligible |-> Eligible(b, active)]
Lines(versions, active) == [b \in DOMAIN versions |-> Line(b, active)]
SameVersions(versions) == \A b \in DOMAIN versions : prospects[b].version = versions[b]

\* The rest of it, in later statements: each row as it is by then.
QuoteLookup(m) ==
    /\ readers[m].stage = "read" /\ readers' = [readers EXCEPT ![m] = NoPreview]
    /\ IF SameVersions(readers[m].versions) /\ Len(quotes) < MaxQuotes
       THEN quotes' = Append(quotes, [member |-> m, versions |-> readers[m].versions, tariff |-> tariff,
                                      lines |-> Lines(readers[m].versions, readers[m].active),
                                      status |-> "quoted", lapsed |-> FALSE])
       ELSE UNCHANGED quotes
    /\ UNCHANGED <<prospects, tariff, lookups, shifts>>

Open(n) == quotes[n].status = "quoted" /\ ~quotes[n].lapsed

\* Only its member, with the version it has.
CancelQuote(n) ==
    /\ Open(n) /\ quotes' = [quotes EXCEPT ![n].status = "cancelled"]
    /\ UNCHANGED <<prospects, tariff, readers, lookups, shifts>>

QuoteLapses(n) ==
    /\ Open(n) /\ quotes' = [quotes EXCEPT ![n].lapsed = TRUE]
    /\ UNCHANGED <<prospects, tariff, readers, lookups, shifts>>

------------------------------------------------------------------------------
(* The confirmation                                                        *)

\* Mutant: the preview is believed.
StillHolds_AsQuoted(n) == quotes[n].tariff = tariff

\* Behind the workspace's policy lock and the buyers' row locks the preview is
\* computed again and must be what the person saw.
StillHolds(n) ==
    /\ SameVersions(quotes[n].versions) /\ quotes[n].tariff = tariff
    /\ Lines(quotes[n].versions, Active) = quotes[n].lines

Confirmed(n) == {b \in DOMAIN quotes[n].lines : quotes[n].lines[b].eligible}

\* confirm_lookup: hold, job, one operation per buyer and intent together.
ConfirmLookup(n) ==
    /\ Open(n) /\ Cardinality(Prospects) + Len(lookups) < MaxLookups
    /\ StillHolds(n) /\ Confirmed(n) # {}
    /\ lookups' = Append(lookups, [quote |-> n, for |-> Confirmed(n), state |-> "reserved"])
    /\ quotes' = [quotes EXCEPT ![n].status = "consumed"]
    /\ UNCHANGED <<prospects, tariff, readers, shifts>>

\* What ContactJob's job row shows, one state after the other.
Follows(state) ==
    CASE state = "reserved" -> {"submitting", "closed"}
      [] state = "submitting" -> {"pending", "unknown", "closed", "found"}
      [] state = "unknown" -> {"pending", "closed", "found"}
      [] state = "pending" -> {"unknown", "closed", "found"}
      [] OTHER -> {}

LookupGoesOn(n, state) ==
    /\ state \in Follows(lookups[n].state)
    /\ lookups' = [lookups EXCEPT ![n].state = state]
    /\ prospects' = [b \in Prospects |-> IF b \in lookups[n].for /\ state = "found"
                                         THEN [prospects[b] EXCEPT !.researched = TRUE] ELSE prospects[b]]
    /\ UNCHANGED <<tariff, readers, quotes, shifts>>

------------------------------------------------------------------------------
Shift == shifts < MaxChanges /\ shifts' = shifts + 1 /\ UNCHANGED <<readers, quotes, lookups>>

\* A review or an edit moves the version of the buyer; a policy decision, a
\* suppression or a new assessment does not.
ReviewProspect(b) ==
    /\ Shift /\ UNCHANGED tariff
    /\ prospects' = [prospects EXCEPT ![b].accepted = ~@, ![b].version = @ + 1, ![b].basis = @ + 1]

PermissionChanges(b) ==
    /\ Shift /\ UNCHANGED tariff
    /\ prospects' = [prospects EXCEPT ![b].permitted = ~@, ![b].basis = @ + 1]

TariffChanges == Shift /\ tariff' = tariff + 1 /\ UNCHANGED prospects

QuotesInit ==
    /\ \E w \in Workspaces :
          /\ prospects = [b \in w.prospects |-> [version |-> 1, accepted |-> TRUE, permitted |-> TRUE,
                                                 researched |-> FALSE, basis |-> 0]]
          /\ readers = [m \in w.members |-> NoPreview]
    /\ tariff = 1
    /\ quotes = << >> /\ lookups = << >> /\ shifts = 0

QuotesNext ==
    \/ \E m \in Members : \/ QuoteLookup(m)
                          \/ \E selected \in SUBSET Prospects : ReadActiveLookups(m, selected)
    \/ \E n \in DOMAIN quotes : ConfirmLookup(n) \/ CancelQuote(n) \/ QuoteLapses(n)
    \/ \E n \in DOMAIN lookups, state \in JobStates : LookupGoesOn(n, state)
    \/ \E b \in Prospects : ReviewProspect(b) \/ PermissionChanges(b)
    \/ TariffChanges

------------------------------------------------------------------------------
QuotesTypeOK ==
    /\ \A n \in DOMAIN quotes : quotes[n].status \in {"quoted", "cancelled", "consumed"}
    /\ \A n \in DOMAIN lookups : lookups[n].state \in JobStates /\ lookups[n].quote \in DOMAIN quotes

OrderedOnce(order) ==
    /\ quotes[order.quote].tariff = tariff
    /\ \A k \in DOMAIN lookups : lookups[k].quote # order.quote
    /\ \A b \in order.for : Eligible(b, Active)

OrderIsEligible ==
    Len(lookups') > Len(lookups) => OrderedOnce(lookups'[Len(lookups')])

\* What is ordered is what may be ordered at that moment, however long ago it
\* was quoted: each buyer is accepted, permitted, without a contact and in no
\* lookup the code counts as under way, at the price that is in force; and a
\* quote becomes one order (quote_lookup, confirm_lookup).
OrderedIsEligible == [][OrderIsEligible]_quoteVars
==============================================================================
