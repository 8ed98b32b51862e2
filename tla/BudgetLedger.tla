---- MODULE BudgetLedger ----
(***************************************************************************)
(* The USD budget of one workspace: monthly accounts per scope, one        *)
(* reservation per operation that is held until its cost is proven, and    *)
(* append-only cost events.  Every operation is one transaction under the  *)
(* workspace's advisory lock, so an action is a whole transaction; a call  *)
(* that is refused or replays a stored event writes nothing and is no step.*)
(*                                                                         *)
(* An account is created on first use with limit and spend zero, so it is  *)
(* kept here as if it had always existed.                                  *)
(***************************************************************************)
EXTENDS Integers, FiniteSets, FiniteSetsExt, Functions, TLC

CONSTANTS Ops,        \* budgeted operations: quotes, jobs, searches, sales tasks
          Portioned,  \* those settled portion by portion (sales parents)
          Scopes,     \* workspace, projects, runs, project categories
          ScopesOf,   \* the scopes each operation is charged to
          EventIds,   \* identities of external cost events
          MaxPeriod,  \* bound: calendar months explored
          MaxAmount,  \* bound: largest amount of one operation
          Limits      \* bound: limits an administrator may approve

ASSUME LedgerAssumption ==
    /\ Portioned \subseteq Ops
    /\ ScopesOf \in [Ops -> (SUBSET Scopes) \ {{}}]
    /\ MaxPeriod \in Nat \ {0}
    /\ MaxAmount \in Nat
    /\ Limits \subseteq Nat

VARIABLES now,           \* current UTC month, read by the server
          limit,         \* approved limit of each account
          spent,         \* settled spend of each account
          reservations,  \* by operation
          events         \* cost events, append only

vars == <<now, limit, spent, reservations, events>>

Periods == 1 .. MaxPeriod
Accounts == Scopes \X Periods
Amounts == 0 .. MaxAmount

NoReservation == [state |-> "none"]
Reservation == [state : {"active", "settled", "released"}, bound : Amounts, hold : Amounts,
                period : Periods, origin : Periods]
CostEvent == [id : EventIds, op : Ops, amount : Int, occurred : Periods]

TypeOK ==
    /\ now \in Periods
    /\ limit \in [Accounts -> Limits \cup {0}]
    /\ spent \in [Accounts -> Nat]
    /\ reservations \in [Ops -> Reservation \cup {NoReservation}]
    /\ events \subseteq CostEvent

Init ==
    /\ now = 1
    /\ limit = [a \in Accounts |-> 0]
    /\ spent = [a \in Accounts |-> 0]
    /\ reservations = [o \in Ops |-> NoReservation]
    /\ events = {}

----------------------------------------------------------------------------
(* Reading the ledger.                                                     *)

Admitted == {o \in Ops : reservations[o] # NoReservation}
Active(o) == reservations[o].state = "active"
AllocatedTo(o, a) == a[1] \in ScopesOf[o] /\ a[2] = reservations[o].period

HoldOf == [o \in Admitted |-> reservations[o].hold]
AmountOf == [e \in events |-> e.amount]

\* Holds of this and of every earlier month count against an account.
Held(a) ==
    SumFunctionOnSet(HoldOf,
        {o \in Admitted : a[1] \in ScopesOf[o] /\ reservations[o].period <= a[2]})

Net(o) == SumFunctionOnSet(AmountOf, {e \in events : e.op = o})
Fresh(id) == \A e \in events : e.id # id

\* Mutant: a late settlement is charged to the month it is recorded in.
Charge_Current(o, amount) ==
    spent' = [a \in Accounts |-> IF a[1] \in ScopesOf[o] /\ a[2] = now
                                THEN spent[a] + amount ELSE spent[a]]

Charge(o, amount) ==
    spent' = [a \in Accounts |-> IF AllocatedTo(o, a) THEN spent[a] + amount ELSE spent[a]]

Append(id, o, amount) ==
    events' = events \cup {[id |-> id, op |-> o, amount |-> amount,
                            occurred |-> reservations[o].origin]}

----------------------------------------------------------------------------
(* Operations.                                                             *)

\* Mutant: a month starts with no holds of the months before it.
ReserveOperation_ThisMonth(o, bound) ==
    /\ reservations[o] = NoReservation /\ bound > 0
    /\ \A s \in ScopesOf[o] : spent[s, now] + bound <= limit[s, now]
         - SumFunctionOnSet(HoldOf, {x \in Admitted : AllocatedTo(x, <<s, now>>)})
    /\ now' \in Periods \cap {now, now + 1}
    /\ reservations' = [reservations EXCEPT ![o] =
                          [state |-> "active", bound |-> bound, hold |-> bound,
                           period |-> now, origin |-> now']]
    /\ UNCHANGED <<limit, spent, events>>

\* The clock is read once for the accounts and once more for the reservation,
\* so the month may turn in between.
ReserveOperation(o, bound) ==
    /\ reservations[o] = NoReservation
    /\ bound > 0
    /\ \A s \in ScopesOf[o] : spent[s, now] + Held(<<s, now>>) + bound <= limit[s, now]
    /\ now' \in Periods \cap {now, now + 1}
    /\ reservations' = [reservations EXCEPT ![o] =
                          [state |-> "active", bound |-> bound, hold |-> bound,
                           period |-> now, origin |-> now']]
    /\ UNCHANGED <<limit, spent, events>>

\* A proven charge closes the reservation and frees what it did not use.
SettleOperation(o, actual, id) ==
    /\ o \in Admitted \ Portioned
    /\ Active(o)
    /\ Fresh(id)
    /\ actual <= reservations[o].bound
    /\ Charge(o, actual)
    /\ reservations' = [reservations EXCEPT ![o].hold = 0, ![o].state = "settled"]
    /\ Append(id, o, actual)
    /\ UNCHANGED <<now, limit>>

\* Mutant: a portion is compared with the whole bound, not with what is left.
SettleKnownPortion_AgainstBound(o, actual, released, id) ==
    /\ o \in Admitted \cap Portioned
    /\ Active(o) /\ Fresh(id) /\ released > 0
    /\ actual <= released /\ released <= reservations[o].bound
    /\ Charge(o, actual)
    /\ LET left == Max({0, reservations[o].hold - released}) IN
       reservations' = [reservations EXCEPT ![o].hold = left,
                          ![o].state = IF left = 0 THEN "settled" ELSE @]
    /\ Append(id, o, actual)
    /\ UNCHANGED <<now, limit>>

\* One evidenced portion is committed; what is unresolved stays held.
SettleKnownPortion(o, actual, released, id) ==
    /\ o \in Admitted \cap Portioned
    /\ Active(o)
    /\ Fresh(id)
    /\ released > 0
    /\ actual <= released
    /\ released <= reservations[o].hold
    /\ Charge(o, actual)
    /\ LET left == reservations[o].hold - released IN
       reservations' = [reservations EXCEPT ![o].hold = left,
                          ![o].state = IF left = 0 THEN "settled" ELSE @]
    /\ Append(id, o, actual)
    /\ UNCHANGED <<now, limit>>

\* Mutant: the refund is credited to the current month.
RefundOperation_Current(o, amount, id) ==
    /\ o \in Admitted
    /\ reservations[o].state = "settled" /\ Fresh(id) /\ amount > 0 /\ amount <= Net(o)
    /\ spent' = [a \in Accounts |-> IF a[1] \in ScopesOf[o] /\ a[2] = now
                                    THEN spent[a] - amount ELSE spent[a]]
    /\ Append(id, o, -amount)
    /\ UNCHANGED <<now, limit, reservations>>

\* A verified reversal goes back to the accounts the charge came from.
RefundOperation(o, amount, id) ==
    /\ o \in Admitted
    /\ reservations[o].state = "settled"
    /\ Fresh(id)
    /\ amount > 0
    /\ amount <= Net(o)
    /\ Charge(o, -amount)
    /\ Append(id, o, -amount)
    /\ UNCHANGED <<now, limit, reservations>>

\* Every caller first proves that no intent of the operation was submitted;
\* a sales parent also that nothing of its hold was used.
ReleaseUnsubmittedOperation(o) ==
    /\ o \in Admitted
    /\ Active(o)
    /\ reservations[o].hold = reservations[o].bound
    /\ reservations' = [reservations EXCEPT ![o].hold = 0, ![o].state = "released"]
    /\ UNCHANGED <<now, limit, spent, events>>

\* An administrator approves a limit for an account that exists by now; the
\* admission of a run does the same for the account it has just created.
UpdateBudget(a, new) ==
    /\ a[2] <= now
    /\ spent[a] + Held(a) <= new
    /\ limit' = [limit EXCEPT ![a] = new]
    /\ UNCHANGED <<now, spent, reservations, events>>

Rollover ==
    /\ now < MaxPeriod
    /\ now' = now + 1
    /\ UNCHANGED <<limit, spent, reservations, events>>

Next ==
    \/ \E o \in Ops, n \in Amounts : ReserveOperation(o, n)
    \/ \E o \in Ops, n \in Amounts, id \in EventIds : SettleOperation(o, n, id)
    \/ \E o \in Ops, n, released \in Amounts, id \in EventIds :
         SettleKnownPortion(o, n, released, id)
    \/ \E o \in Ops, n \in Amounts, id \in EventIds : RefundOperation(o, n, id)
    \/ \E o \in Ops : ReleaseUnsubmittedOperation(o)
    \/ \E a \in Accounts, new \in Limits : UpdateBudget(a, new)
    \/ Rollover

Spec == Init /\ [][Next]_vars

----------------------------------------------------------------------------
(* Properties.                                                             *)

\* At every commit settled cost plus current and carried holds stay within the
\* approved limit of every account of every scope; only an account nobody has
\* approved yet may start a month below its carried holds.  Concurrent requests
\* around the turn of a month exceed neither month's limit.
WithinLimit ==
    \A a \in Accounts : limit[a] # 0 => spent[a] + Held(a) <= limit[a]

\* The spend of an account is the sum of the cost events of the operations
\* allocated to it: no event is charged to only some of its scopes, twice, or
\* to another month's account.
LedgerBalances ==
    \A a \in Accounts :
        spent[a] = SumFunctionOnSet(AmountOf, {e \in events : AllocatedTo(e.op, a)})

\* What an operation was charged, net of refunds, and what is still held for
\* it never exceed the bound its buyer approved, however it is settled; an
\* operation holds money exactly while it is active.
ChargeWithinBound ==
    \A o \in Admitted :
        /\ Net(o) >= 0
        /\ Net(o) + reservations[o].hold <= reservations[o].bound
        /\ reservations[o].hold > 0 <=> Active(o)

\* A refund of an earlier month's charge gives the current month no capacity
\* ("Append a verified reversal to the origin period, without minting current
\* capacity").
Room(a) == limit[a] - spent[a] - Held(a)
RefundMintsNoCapacity ==
    [][\A e \in events' \ events :
         e.amount < 0 /\ reservations[e.op].period < now
             => \A s \in Scopes : Room(<<s, now>>)' = Room(<<s, now>>)]_vars

\* The month a cost event says it occurred in is the month whose accounts it
\* was charged to ("record one economic event attributed to its verified
\* incurred/origin period").
EventsOccurWhereCharged ==
    \A a \in Accounts :
        spent[a] = SumFunctionOnSet(AmountOf,
                     {e \in events : a[1] \in ScopesOf[e.op] /\ e.occurred = a[2]})

----------------------------------------------------------------------------
(* For the model checker.                                                  *)

\* A small workspace: a scope that every operation is charged to, a project of
\* the operations that are settled in portions, and one of the others.
SmallWorkspace ==
    LET workspace == CHOOSE s \in Scopes : TRUE
        north == CHOOSE s \in Scopes \ {workspace} : TRUE
        south == CHOOSE s \in Scopes \ {workspace, north} : TRUE
    IN [o \in Ops |-> {workspace, IF o \in Portioned THEN north ELSE south}]

\* Event identities are interchangeable.
EventSymmetry == Permutations(EventIds)
====
