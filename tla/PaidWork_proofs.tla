---- MODULE PaidWork_proofs ----
(***************************************************************************)
(* Proofs about paid work: BudgetLedger, for any accounts, operations and  *)
(* amounts, and ContactJob, for any number of operations, processes and    *)
(* provider events, under either runtime.                                  *)
(***************************************************************************)
EXTENDS BudgetLedger, ContactJob, FiniteSetTheorems, TLAPS

----------------------------------------------------------------------------
(* Sums over finite sets.  SumFunctionOnSet chooses the function that       *)
(* satisfies a recursive equation; that there is one, and what it returns,  *)
(* is shown by a smallest set for which it would not hold.                  *)

\* The element that the recursion takes out of a set first.
Pick(s) == CHOOSE x \in s : TRUE

\* The equation whose solution is the table of the sums of all subsets of S.
SumEquation(f, S, g) ==
    g = [s \in SUBSET S |-> IF s = {} THEN 0 ELSE f[Pick(s)] + g[s \ {Pick(s)}]]

\* The community module's definition, unfolded.
LEMMA SumIsRecursive ==
    ASSUME NEW f, NEW S
    PROVE  SumFunctionOnSet(f, S) = (CHOOSE g : SumEquation(f, S, g))[S]
BY DEF SumFunctionOnSet, FoldFunctionOnSet, MapThenFoldSet, SumEquation, Pick

\* A finite set of counterexamples has a smallest one.
LEMMA SmallestFinite ==
    ASSUME NEW S, IsFiniteSet(S), NEW Bad \in SUBSET (SUBSET S), Bad # {}
    PROVE  \E T \in Bad : \A U \in SUBSET T : U # T => U \notin Bad
<1>1. IsWellFoundedOn(StrictSubsetOrdering(S), SUBSET S)
  BY FS_StrictSubsetOrderingWellFounded, FS_FiniteSubsetsOfFinite
<1>2. PICK T \in Bad : \A U \in Bad : ~ (<<U, T>> \in StrictSubsetOrdering(S))
  <2> HIDE DEF StrictSubsetOrdering
  <2> QED BY <1>1, WFMin
<1>3. ASSUME NEW U \in SUBSET T, U # T PROVE U \notin Bad
  BY <1>2, <1>3 DEF StrictSubsetOrdering
<1> QED BY <1>3

\* A set that is not empty has a first element.
LEMMA PickIn == ASSUME NEW s, s # {} PROVE Pick(s) \in s
BY DEF Pick

\* The sum of a finite set is the value of its first element and the sum of the others.
LEMMA SumUnfold ==
    ASSUME NEW f, NEW S, IsFiniteSet(S)
    PROVE  SumFunctionOnSet(f, S) =
             IF S = {} THEN 0 ELSE f[Pick(S)] + SumFunctionOnSet(f, S \ {Pick(S)})
<1> DEFINE Sum(s) == SumFunctionOnSet(f, s)
           Step(s) == IF s = {} THEN 0 ELSE f[Pick(s)] + Sum(s \ {Pick(s)})
           Bad == {s \in SUBSET S : Sum(s) # Step(s)}
<1> SUFFICES ASSUME Bad # {} PROVE FALSE
  OBVIOUS
<1>1. PICK T \in Bad : \A U \in SUBSET T : U # T => U \notin Bad
  <2> HIDE DEF Bad
  <2>1. Bad \in SUBSET (SUBSET S)  BY DEF Bad
  <2> QED BY <2>1, SmallestFinite
<1>2. \A U \in SUBSET T : U # T => Sum(U) = Step(U)
  BY <1>1
<1> DEFINE h == [s \in SUBSET T |-> Step(s)]
<1>3. SumEquation(f, T, h)
  <2>1. ASSUME NEW s \in SUBSET T, s # {}
        PROVE  h[s] = f[Pick(s)] + h[s \ {Pick(s)}]
    <3>1. Pick(s) \in s  BY <2>1, PickIn
    <3>2. s \ {Pick(s)} \in SUBSET T /\ s \ {Pick(s)} # T  BY <3>1
    <3>3. h[s \ {Pick(s)}] = Sum(s \ {Pick(s)})
      <4> HIDE DEF Sum, Step
      <4> QED BY <3>2, <1>2
    <3> QED BY <3>3, <2>1
  <2>2. h[{}] = 0  OBVIOUS
  <2>3. h = [s \in SUBSET T |-> IF s = {} THEN 0 ELSE f[Pick(s)] + h[s \ {Pick(s)}]]
    <3>1. \A s \in SUBSET T : h[s] = IF s = {} THEN 0 ELSE f[Pick(s)] + h[s \ {Pick(s)}]
      BY <2>1, <2>2
    <3>2. h = [s \in SUBSET T |-> h[s]]  OBVIOUS
    <3> HIDE DEF h
    <3> QED BY <3>1, <3>2
  <2> HIDE DEF h
  <2> QED BY <2>3 DEF SumEquation
<1> DEFINE G == CHOOSE g : SumEquation(f, T, g)
<1>4. SumEquation(f, T, G)
  <2> HIDE DEF h, SumEquation
  <2> QED BY <1>3
<1>5. \A s \in SUBSET T : G[s] = IF s = {} THEN 0 ELSE f[Pick(s)] + G[s \ {Pick(s)}]
  <2> HIDE DEF G
  <2> QED BY <1>4 DEF SumEquation
<1>6. \A s \in SUBSET T : s # T => G[s] = Sum(s)
  <2> DEFINE Off == {s \in SUBSET T : s # T /\ G[s] # Sum(s)}
  <2> SUFFICES ASSUME Off # {} PROVE FALSE
    OBVIOUS
  <2> HIDE DEF G
  <2>1. PICK U \in Off : \A V \in SUBSET U : V # U => V \notin Off
    <3> HIDE DEF Off
    <3>1. Off \in SUBSET (SUBSET S)  BY DEF Off
    <3> QED BY <3>1, SmallestFinite
  <2> HIDE DEF Sum
  <2>2. CASE U = {}
    BY <2>2, <1>2, <1>5, <2>1
  <2>3. CASE U # {}
    <3>1. Pick(U) \in U  BY <2>3, PickIn
    <3>2. U \ {Pick(U)} \in SUBSET U /\ U \ {Pick(U)} # U /\ U \ {Pick(U)} # T BY <3>1, <2>1
    <3>3. G[U \ {Pick(U)}] = Sum(U \ {Pick(U)})  BY <3>2, <2>1
    <3> QED BY <3>3, <2>3, <1>2, <1>5, <2>1
  <2> QED BY <2>2, <2>3
<1>7. Sum(T) = G[T]
  BY SumIsRecursive
<1>8. Sum(T) = Step(T)
  <2> HIDE DEF G, Sum
  <2>1. CASE T = {}
    BY <2>1, <1>5, <1>7
  <2>2. CASE T # {}
    <3>1. Pick(T) \in T  BY <2>2, PickIn
    <3>2. G[T \ {Pick(T)}] = Sum(T \ {Pick(T)})  BY <3>1, <1>6
    <3> QED BY <3>2, <2>2, <1>5, <1>7
  <2> QED BY <2>1, <2>2
<1> QED BY <1>8, <1>1

\* The empty sum.
LEMMA SumOfNone == ASSUME NEW f PROVE SumFunctionOnSet(f, {}) = 0
BY SumUnfold, FS_EmptySet

\* A sum of integers is an integer.
LEMMA SumIsInt ==
    ASSUME NEW f, NEW S, IsFiniteSet(S), \A x \in S : f[x] \in Int
    PROVE  SumFunctionOnSet(f, S) \in Int
<1> DEFINE Sum(s) == SumFunctionOnSet(f, s)
           Bad == {s \in SUBSET S : Sum(s) \notin Int}
<1> SUFFICES ASSUME Bad # {} PROVE FALSE
  OBVIOUS
<1>1. PICK T \in Bad : \A U \in SUBSET T : U # T => U \notin Bad
  <2> HIDE DEF Bad
  <2>1. Bad \in SUBSET (SUBSET S)  BY DEF Bad
  <2> QED BY <2>1, SmallestFinite
<1>2. IsFiniteSet(T)  BY FS_Subset
<1>3. Sum(T) = IF T = {} THEN 0 ELSE f[Pick(T)] + Sum(T \ {Pick(T)})
  BY <1>2, SumUnfold
<1> HIDE DEF Sum
<1>4. CASE T = {}
  BY <1>4, <1>3, <1>1
<1>5. CASE T # {}
  <2>1. Pick(T) \in T  BY <1>5, PickIn
  <2>2. Sum(T \ {Pick(T)}) \in Int  BY <2>1, <1>1
  <2>3. f[Pick(T)] \in Int  BY <2>1, <1>1
  <2> QED BY <2>2, <2>3, <1>5, <1>3, <1>1
<1> QED BY <1>4, <1>5

\* Any element may be taken out of a sum.
LEMMA SumWithout ==
    ASSUME NEW f, NEW S, IsFiniteSet(S), \A x \in S : f[x] \in Int, NEW e \in S
    PROVE  SumFunctionOnSet(f, S) = f[e] + SumFunctionOnSet(f, S \ {e})
<1> DEFINE Sum(s) == SumFunctionOnSet(f, s)
           Bad == {s \in SUBSET S : \E x \in s : Sum(s) # f[x] + Sum(s \ {x})}
<1> SUFFICES ASSUME Bad # {} PROVE FALSE
  OBVIOUS
<1>1. PICK T \in Bad : \A U \in SUBSET T : U # T => U \notin Bad
  <2> HIDE DEF Bad
  <2>1. Bad \in SUBSET (SUBSET S)  BY DEF Bad
  <2> QED BY <2>1, SmallestFinite
<1>2. PICK x \in T : Sum(T) # f[x] + Sum(T \ {x})
  BY <1>1
<1>3. \A U \in SUBSET T : IsFiniteSet(U) /\ Sum(U) \in Int
  BY FS_Subset, SumIsInt
<1> DEFINE c == Pick(T)
<1>4. c \in T /\ Sum(T) = f[c] + Sum(T \ {c})
  BY <1>2, <1>3, SumUnfold, PickIn
<1>5. c # x
  BY <1>2, <1>4
<1>6. \A U \in SUBSET T : U # T => \A y \in U : Sum(U) = f[y] + Sum(U \ {y})
  BY <1>1
<1> HIDE DEF Sum, c
<1>7. Sum(T \ {c}) = f[x] + Sum((T \ {c}) \ {x})
  BY <1>4, <1>5, <1>6
<1>8. Sum(T \ {x}) = f[c] + Sum((T \ {x}) \ {c})
  BY <1>4, <1>5, <1>6
<1>9. (T \ {c}) \ {x} = (T \ {x}) \ {c}
  OBVIOUS
<1>10. f[x] \in Int /\ f[c] \in Int /\ Sum((T \ {x}) \ {c}) \in Int
  BY <1>3, <1>4
<1>11. Sum(T) = f[c] + (f[x] + Sum((T \ {x}) \ {c}))
  BY <1>4, <1>7, <1>9
<1> HIDE DEF Bad
<1>12. Sum(T) = f[x] + Sum(T \ {x})
  BY <1>10, <1>11, <1>8
<1> QED BY <1>12, <1>2

\* An element more, with the same function.
LEMMA SumWith ==
    ASSUME NEW f, NEW S, IsFiniteSet(S), NEW e, e \notin S,
           \A x \in S \cup {e} : f[x] \in Int
    PROVE  SumFunctionOnSet(f, S \cup {e}) = f[e] + SumFunctionOnSet(f, S)
<1>1. IsFiniteSet(S \cup {e})  BY FS_AddElement
<1>2. (S \cup {e}) \ {e} = S  OBVIOUS
<1> QED BY <1>1, <1>2, SumWithout

\* A sum depends on the values in its set alone.
LEMMA SumAgrees ==
    ASSUME NEW f, NEW g, NEW S, IsFiniteSet(S), \A x \in S : f[x] = g[x]
    PROVE  SumFunctionOnSet(f, S) = SumFunctionOnSet(g, S)
<1> DEFINE F(s) == SumFunctionOnSet(f, s)
           G(s) == SumFunctionOnSet(g, s)
           Bad == {s \in SUBSET S : F(s) # G(s)}
<1> SUFFICES ASSUME Bad # {} PROVE FALSE
  OBVIOUS
<1>1. PICK T \in Bad : \A U \in SUBSET T : U # T => U \notin Bad
  <2> HIDE DEF Bad
  <2>1. Bad \in SUBSET (SUBSET S)  BY DEF Bad
  <2> QED BY <2>1, SmallestFinite
<1>2. IsFiniteSet(T)  BY FS_Subset
<1>3. /\ F(T) = IF T = {} THEN 0 ELSE f[Pick(T)] + F(T \ {Pick(T)})
      /\ G(T) = IF T = {} THEN 0 ELSE g[Pick(T)] + G(T \ {Pick(T)})
  BY <1>2, SumUnfold
<1> HIDE DEF F, G
<1>4. T # {}
  BY <1>3, <1>1
<1>5. Pick(T) \in T  BY <1>4, PickIn
<1>6. F(T \ {Pick(T)}) = G(T \ {Pick(T)})  BY <1>5, <1>1
<1>7. f[Pick(T)] = g[Pick(T)]  BY <1>5, <1>1
<1> QED BY <1>6, <1>7, <1>4, <1>3, <1>1

\* The sum of two sets that share nothing.
LEMMA SumOfBoth ==
    ASSUME NEW f, NEW S, IsFiniteSet(S), NEW R, IsFiniteSet(R), S \cap R = {},
           \A x \in S \cup R : f[x] \in Int
    PROVE  SumFunctionOnSet(f, S \cup R) = SumFunctionOnSet(f, S) + SumFunctionOnSet(f, R)
<1> DEFINE Sum(s) == SumFunctionOnSet(f, s)
           Bad == {s \in SUBSET S : Sum(s \cup R) # Sum(s) + Sum(R)}
<1> SUFFICES ASSUME Bad # {} PROVE FALSE
  OBVIOUS
<1>1. PICK T \in Bad : \A U \in SUBSET T : U # T => U \notin Bad
  <2> HIDE DEF Bad
  <2>1. Bad \in SUBSET (SUBSET S)  BY DEF Bad
  <2> QED BY <2>1, SmallestFinite
<1>2. \A U \in SUBSET T : IsFiniteSet(U) /\ IsFiniteSet(U \cup R)
  BY FS_Subset, FS_Union
<1>3. Sum(R) \in Int /\ \A U \in SUBSET T : Sum(U) \in Int
  BY <1>2, SumIsInt
<1>4. CASE T = {}
  <2>1. Sum(T) = 0  BY <1>4, SumOfNone
  <2> HIDE DEF Sum, Bad
  <2>2. Sum(T \cup R) = Sum(R)
    <3>1. T \cup R = R  BY <1>4
    <3> QED BY <3>1, Zenon
  <2>3. Sum(T \cup R) = Sum(T) + Sum(R)  BY <2>1, <2>2, <1>3
  <2> QED BY <2>3, <1>1 DEF Bad
<1>5. CASE T # {}
  <2> DEFINE c == Pick(T)
  <2>1. c \in T /\ c \notin R  BY <1>5, PickIn
  <2>2. Sum(T) = f[c] + Sum(T \ {c})
    BY <1>2, <2>1, SumWithout
  <2>3. Sum(T \cup R) = f[c] + Sum((T \cup R) \ {c})
    <3> HIDE DEF c
    <3> QED BY <1>2, <2>1, SumWithout
  <2> HIDE DEF Sum, c
  <2>4. (T \cup R) \ {c} = (T \ {c}) \cup R
    BY <2>1
  <2>5. Sum((T \ {c}) \cup R) = Sum(T \ {c}) + Sum(R)
    BY <2>1, <1>1
  <2>6. f[c] \in Int  BY <2>1, <1>1
  <2>7. Sum(T \cup R) = f[c] + (Sum(T \ {c}) + Sum(R))
    BY <2>3, <2>4, <2>5
  <2> HIDE DEF Bad
  <2>8. Sum(T \cup R) = Sum(T) + Sum(R)
    BY <2>7, <2>6, <2>2, <1>3
  <2> QED BY <2>8, <1>1 DEF Bad
<1> QED BY <1>4, <1>5

\* An element more, with a function that gives it a value.
LEMMA SumExtended ==
    ASSUME NEW f, NEW g, NEW S, IsFiniteSet(S), NEW e, e \notin S,
           \A x \in S : g[x] = f[x] /\ f[x] \in Int, g[e] \in Int
    PROVE  SumFunctionOnSet(g, S \cup {e}) = SumFunctionOnSet(f, S) + g[e]
<1>1. SumFunctionOnSet(g, S \cup {e}) = g[e] + SumFunctionOnSet(g, S)
  BY SumWith
<1>2. SumFunctionOnSet(g, S) = SumFunctionOnSet(f, S)
  BY SumAgrees
<1>3. SumFunctionOnSet(f, S) \in Int
  BY SumIsInt
<1> QED BY <1>1, <1>2, <1>3

\* An element that changes.
LEMMA SumChanged ==
    ASSUME NEW f, NEW g, NEW S, IsFiniteSet(S), NEW e \in S,
           \A x \in S \ {e} : g[x] = f[x], \A x \in S : f[x] \in Int, g[e] \in Int
    PROVE  SumFunctionOnSet(g, S) = SumFunctionOnSet(f, S) - f[e] + g[e]
<1>1. IsFiniteSet(S \ {e})
  BY FS_RemoveElement
<1>2. SumFunctionOnSet(f, S) = f[e] + SumFunctionOnSet(f, S \ {e})
  BY SumWithout
<1>3. \A x \in S : g[x] \in Int
  OBVIOUS
<1>4. SumFunctionOnSet(g, S) = g[e] + SumFunctionOnSet(g, S \ {e})
  BY <1>3, SumWithout
<1>5. SumFunctionOnSet(g, S \ {e}) = SumFunctionOnSet(f, S \ {e})
  BY <1>1, SumAgrees
<1>6. SumFunctionOnSet(f, S \ {e}) \in Int
  BY <1>1, SumIsInt
<1> QED BY <1>2, <1>4, <1>5, <1>6

----------------------------------------------------------------------------
(* The inductive invariant.                                                *)

\* Only what was admitted has events, a month that has not begun has no
\* approved limit, and an operation settled in one charge is held whole until
\* then.
Bookkeeping ==
    /\ IsFiniteSet(Admitted) /\ IsFiniteSet(events)
    /\ \A e \in events : e.op \in Admitted
    /\ \A o \in Admitted :
         /\ reservations[o].period <= now
         /\ o \notin Portioned /\ Active(o) => reservations[o].hold = reservations[o].bound
    /\ \A a \in Accounts : limit[a] # 0 => a[2] <= now

\* The inductive invariant.
LedgerInv ==
    /\ TypeOK /\ Bookkeeping
    /\ WithinLimit /\ LedgerBalances /\ ChargeWithinBound

----------------------------------------------------------------------------
(* What an operation does to the sums.                                     *)

\* The operations whose hold counts on an account, as a set and one by one.
HoldersFor(a) == {o \in Admitted : a[1] \in ScopesOf[o] /\ reservations[o].period <= a[2]}
Counts(o, a) == a[1] \in ScopesOf[o] /\ reservations[o].period <= a[2]

\* What a reservation that was admitted is made of.
LEMMA ReservationFacts ==
    ASSUME TypeOK
    PROVE  /\ Admitted \subseteq Ops
           /\ \A o \in Ops : o \in Admitted <=> reservations[o] \in Reservation
           /\ \A o \in Admitted :
                /\ reservations[o] \in Reservation
                /\ reservations[o].state \in {"active", "settled", "released"}
                /\ reservations[o].bound \in Amounts /\ reservations[o].hold \in Amounts
                /\ reservations[o].period \in Periods /\ reservations[o].origin \in Periods
                /\ HoldOf[o] = reservations[o].hold
           /\ Amounts \subseteq Nat /\ Periods \subseteq Nat
           /\ NoReservation \notin Reservation
<1>1. NoReservation \notin Reservation
  <2>1. \A r \in Reservation : r.state # "none"  BY DEF Reservation
  <2> QED BY <2>1 DEF NoReservation
<1>2. \A o \in Ops : o \in Admitted <=> reservations[o] \in Reservation
  BY <1>1 DEF TypeOK, Admitted
<1>3. \A o \in Admitted : o \in Ops /\ HoldOf[o] = reservations[o].hold
  BY DEF Admitted, HoldOf
<1>4. \A r \in Reservation : /\ r.state \in {"active", "settled", "released"}
                             /\ r.bound \in Amounts /\ r.hold \in Amounts
                             /\ r.period \in Periods /\ r.origin \in Periods
  BY DEF Reservation
<1>5. Amounts \subseteq Nat /\ Periods \subseteq Nat
  BY LedgerAssumption DEF Amounts, Periods
<1> QED BY <1>1, <1>2, <1>3, <1>4, <1>5

\* What an account is made of.
LEMMA AccountFacts ==
    ASSUME TypeOK, NEW a \in Accounts
    PROVE  /\ spent[a] \in Nat /\ spent[a] \in Int
           /\ limit[a] \in Nat /\ limit[a] \in Int
<1>1. spent[a] \in Nat /\ limit[a] \in Limits \cup {0}
  BY DEF TypeOK
<1>2. CASE limit[a] \in Limits
  <2>1. Limits \subseteq Nat
    BY LedgerAssumption
  <2>2. limit[a] \in Nat
    BY <1>2, <2>1, Zenon
  <2> QED BY <1>1, <2>2
<1>3. CASE limit[a] = 0
  BY <1>1, <1>3
<1> QED BY <1>1, <1>2, <1>3

\* What is held on an account is a sum of the holds of finitely many operations.
LEMMA HeldIsInt ==
    ASSUME TypeOK, Bookkeeping, NEW a \in Accounts
    PROVE  Held(a) \in Int
<1>1. IsFiniteSet(HoldersFor(a))
  BY FS_Subset DEF HoldersFor, Bookkeeping
<1>2. \A o \in HoldersFor(a) : HoldOf[o] \in Int
  BY ReservationFacts DEF HoldersFor
<1>3. SumFunctionOnSet(HoldOf, HoldersFor(a)) \in Int
  BY <1>1, <1>2, SumIsInt
<1> QED BY <1>3 DEF Held, HoldersFor

\* A new reservation counts against its own month and the months after it.
LEMMA HeldWhenReserved ==
    ASSUME TypeOK, Bookkeeping, NEW o \in Ops, NEW n \in Amounts, NEW r \in Reservation,
           reservations[o] = NoReservation,
           r.hold = n, r.period = now,
           reservations' = [reservations EXCEPT ![o] = r], NEW a \in Accounts
    PROVE  Held(a)' = Held(a) + (IF a[1] \in ScopesOf[o] /\ now <= a[2] THEN n ELSE 0)
<1>1. o \notin Admitted /\ Admitted' = Admitted \cup {o}
  <2>1. reservations'[o] = r /\ \A x \in Ops \ {o} : reservations'[x] = reservations[x]
    BY DEF TypeOK
  <2>2. r # NoReservation
    <3>1. r.state # "none"  BY DEF Reservation
    <3> QED BY <3>1 DEF NoReservation
  <2> QED BY <2>1, <2>2 DEF Admitted
<1>2. \A x \in Admitted : reservations'[x] = reservations[x] /\ x \in Ops
  BY <1>1 DEF TypeOK, Admitted
<1>3. \A x \in Admitted : HoldOf'[x] = HoldOf[x] /\ HoldOf[x] \in Int
  BY <1>1, <1>2, ReservationFacts DEF HoldOf
<1>4. HoldOf'[o] = n /\ n \in Int
  BY <1>1, ReservationFacts DEF HoldOf, TypeOK
<1>5. IsFiniteSet(HoldersFor(a)) /\ HoldersFor(a) \subseteq Admitted
  BY FS_Subset DEF HoldersFor, Bookkeeping
<1>6. Held(a) = SumFunctionOnSet(HoldOf, HoldersFor(a)) /\ Held(a) \in Int
  BY HeldIsInt DEF Held, HoldersFor
<1>7. Held(a)' = SumFunctionOnSet(HoldOf', HoldersFor(a)')
  BY DEF Held, HoldersFor
<1>8. reservations'[o].period = now
  BY DEF TypeOK
<1>9. CASE a[1] \in ScopesOf[o] /\ now <= a[2]
  <2>1. HoldersFor(a)' = HoldersFor(a) \cup {o}
    BY <1>1, <1>2, <1>8, <1>9 DEF HoldersFor
  <2>2. o \notin HoldersFor(a)  BY <1>1, <1>5
  <2>3. SumFunctionOnSet(HoldOf', HoldersFor(a) \cup {o})
          = SumFunctionOnSet(HoldOf, HoldersFor(a)) + n
    BY <1>3, <1>4, <1>5, <2>2, SumExtended
  <2> QED BY <1>6, <1>7, <1>9, <2>1, <2>3
<1>10. CASE ~ (a[1] \in ScopesOf[o] /\ now <= a[2])
  <2>1. HoldersFor(a)' = HoldersFor(a)
    BY <1>1, <1>2, <1>8, <1>10 DEF HoldersFor
  <2>2. SumFunctionOnSet(HoldOf', HoldersFor(a)) = SumFunctionOnSet(HoldOf, HoldersFor(a))
    BY <1>3, <1>5, SumAgrees
  <2> QED BY <1>6, <1>7, <1>10, <2>1, <2>2
<1> QED BY <1>9, <1>10

\* The hold and the state of an operation are written together.
HoldBecomes(o, left, st) ==
    reservations' = [reservations EXCEPT ![o].hold = left, ![o].state = st]

\* Letting a part of a hold go frees it in every account it counts against.
LEMMA HeldWhenFreed ==
    ASSUME TypeOK, Bookkeeping, NEW o \in Admitted, NEW left \in Amounts,
           NEW st \in {"active", "settled", "released"},
           HoldBecomes(o, left, st)
    PROVE  /\ Admitted' = Admitted
           /\ \A x \in Admitted : /\ reservations'[x].period = reservations[x].period
                                  /\ reservations'[x].origin = reservations[x].origin
                                  /\ reservations'[x].bound = reservations[x].bound
                                  /\ x # o => reservations'[x] = reservations[x]
           /\ reservations'[o].hold = left /\ reservations'[o].state = st
           /\ reservations' \in [Ops -> Reservation \cup {NoReservation}]
           /\ \A a \in Accounts :
                Held(a)' = Held(a) - (IF Counts(o, a) THEN reservations[o].hold - left ELSE 0)
<1>1. o \in Ops /\ reservations[o] \in Reservation
  BY ReservationFacts
<1>2. /\ reservations' \in [Ops -> Reservation \cup {NoReservation}]
      /\ reservations'[o] = [reservations[o] EXCEPT !.hold = left, !.state = st]
      /\ \A x \in Ops \ {o} : reservations'[x] = reservations[x]
  <2> DEFINE new == [reservations[o] EXCEPT !.hold = left, !.state = st]
  <2>1. new \in Reservation
    BY <1>1 DEF Reservation
  <2>2. reservations' = [reservations EXCEPT ![o] = new]
    BY DEF TypeOK, HoldBecomes
  <2> HIDE DEF new
  <2>3. /\ reservations' \in [Ops -> Reservation \cup {NoReservation}]
        /\ reservations'[o] = new
        /\ \A x \in Ops \ {o} : reservations'[x] = reservations[x]
    BY <2>1, <2>2, <1>1 DEF TypeOK
  <2> QED BY <2>3 DEF new
<1>3. /\ reservations'[o] \in Reservation
      /\ reservations'[o].hold = left /\ reservations'[o].state = st
      /\ reservations'[o].period = reservations[o].period
      /\ reservations'[o].origin = reservations[o].origin
      /\ reservations'[o].bound = reservations[o].bound
  BY <1>1, <1>2 DEF Reservation
<1>4. reservations'[o] # NoReservation
  BY <1>3, ReservationFacts
<1>5. Admitted' = Admitted
  BY <1>4, <1>2 DEF Admitted
<1>6. \A x \in Admitted : x # o => reservations'[x] = reservations[x]
  BY <1>2, ReservationFacts
<1>7. ASSUME NEW a \in Accounts
      PROVE  Held(a)' = Held(a) - (IF Counts(o, a) THEN reservations[o].hold - left ELSE 0)
  <2>1. IsFiniteSet(HoldersFor(a)) /\ HoldersFor(a) \subseteq Admitted
    BY FS_Subset DEF HoldersFor, Bookkeeping
  <2>2. Held(a) = SumFunctionOnSet(HoldOf, HoldersFor(a)) /\ Held(a) \in Int
    BY HeldIsInt DEF Held, HoldersFor
  <2>3. HoldersFor(a)' = HoldersFor(a)
    BY <1>3, <1>5, <1>6 DEF HoldersFor
  <2>4. Held(a)' = SumFunctionOnSet(HoldOf', HoldersFor(a))
    BY <2>3 DEF Held, HoldersFor
  <2>5. \A x \in Admitted : HoldOf[x] \in Int /\ HoldOf[x] = reservations[x].hold
    BY ReservationFacts
  <2>6. \A x \in Admitted : x # o => HoldOf'[x] = HoldOf[x]
    BY <1>5, <1>6 DEF HoldOf
  <2>7. HoldOf'[o] = left /\ left \in Int
    BY <1>5, <1>3, ReservationFacts DEF HoldOf
  <2>8. CASE Counts(o, a)
    <3>1. o \in HoldersFor(a)  BY <2>8 DEF Counts, HoldersFor
    <3>2. SumFunctionOnSet(HoldOf', HoldersFor(a))
            = SumFunctionOnSet(HoldOf, HoldersFor(a)) - HoldOf[o] + HoldOf'[o]
      BY <2>1, <2>5, <2>6, <2>7, <3>1, SumChanged
    <3> QED BY <2>2, <2>4, <2>5, <2>7, <2>8, <3>2
  <2>9. CASE ~ Counts(o, a)
    <3>1. o \notin HoldersFor(a)  BY <2>9 DEF Counts, HoldersFor
    <3>2. SumFunctionOnSet(HoldOf', HoldersFor(a)) = SumFunctionOnSet(HoldOf, HoldersFor(a))
      BY <2>1, <2>6, <3>1, SumAgrees
    <3> QED BY <2>2, <2>4, <2>9, <3>2
  <2> QED BY <2>8, <2>9
<1> QED BY <1>2, <1>3, <1>5, <1>6, <1>7

\* A new event adds its amount to every sum of events that it belongs to.
LEMMA EventsWhenAppended ==
    ASSUME TypeOK, Bookkeeping, NEW o \in Admitted, NEW amount \in Int, NEW id \in EventIds,
           Fresh(id), Append(id, o, amount)
    PROVE  \E e \in CostEvent :
             /\ e \notin events /\ e.op = o /\ e.amount = amount
             /\ events' = events \cup {e}
             /\ events' \subseteq CostEvent /\ IsFiniteSet(events')
             /\ \A S \in SUBSET events :
                  /\ SumFunctionOnSet(AmountOf, S) \in Int
                  /\ SumFunctionOnSet(AmountOf', S) = SumFunctionOnSet(AmountOf, S)
                  /\ SumFunctionOnSet(AmountOf', S \cup {e})
                       = SumFunctionOnSet(AmountOf, S) + amount
<1> DEFINE e == [id |-> id, op |-> o, amount |-> amount, occurred |-> reservations[o].origin]
<1>1. e \in CostEvent
  BY ReservationFacts DEF CostEvent
<1>2. e \notin events /\ e.op = o /\ e.amount = amount
  BY DEF Fresh
<1>3. events' = events \cup {e}
  BY DEF Append
<1> HIDE DEF e
<1>4. events' \subseteq CostEvent /\ IsFiniteSet(events')
  BY <1>1, <1>3, FS_AddElement DEF TypeOK, Bookkeeping
<1>5. \A x \in events : AmountOf'[x] = AmountOf[x] /\ AmountOf[x] \in Int
  BY <1>3 DEF AmountOf, TypeOK, CostEvent
<1>6. AmountOf'[e] = amount
  BY <1>2, <1>3 DEF AmountOf
<1>7. ASSUME NEW S \in SUBSET events
      PROVE  /\ SumFunctionOnSet(AmountOf, S) \in Int
             /\ SumFunctionOnSet(AmountOf', S) = SumFunctionOnSet(AmountOf, S)
             /\ SumFunctionOnSet(AmountOf', S \cup {e}) = SumFunctionOnSet(AmountOf, S) + amount
  <2>1. IsFiniteSet(S) /\ e \notin S  BY <1>2, FS_Subset DEF Bookkeeping
  <2>2. SumFunctionOnSet(AmountOf, S) \in Int  BY <2>1, <1>5, SumIsInt
  <2>3. SumFunctionOnSet(AmountOf', S) = SumFunctionOnSet(AmountOf, S)
    BY <2>1, <1>5, SumAgrees
  <2>4. SumFunctionOnSet(AmountOf', S \cup {e}) = SumFunctionOnSet(AmountOf, S) + AmountOf'[e]
    BY <2>1, <1>5, <1>6, SumExtended
  <2> QED BY <2>2, <2>3, <2>4, <1>6
<1> QED BY <1>1, <1>2, <1>3, <1>4, <1>7

\* The net charges of any operations sum up to no less than those of one of them.
LEMMA OneOfMany ==
    ASSUME TypeOK, Bookkeeping, ChargeWithinBound, NEW P \in SUBSET Admitted, NEW o \in P
    PROVE  /\ Net(o) \in Int
           /\ SumFunctionOnSet(AmountOf, {e \in events : e.op \in P}) >= Net(o)
<1> DEFINE Of(p) == {e \in events : e.op \in p}
           Total(p) == SumFunctionOnSet(AmountOf, Of(p))
           Bad == {p \in SUBSET P : ~ (Total(p) \in Int /\ Total(p) >= 0)}
<1>1. \A S \in SUBSET events : IsFiniteSet(S) /\ SumFunctionOnSet(AmountOf, S) \in Int
  <2>1. \A x \in events : AmountOf[x] \in Int
    BY DEF AmountOf, TypeOK, CostEvent
  <2> QED BY <2>1, FS_Subset, SumIsInt DEF Bookkeeping
<1>2. \A x \in Admitted : Net(x) = Total({x}) /\ Net(x) >= 0 /\ Net(x) \in Int
  <2> SUFFICES ASSUME NEW x \in Admitted
               PROVE  Net(x) = Total({x}) /\ Net(x) >= 0 /\ Net(x) \in Int
    OBVIOUS
  <2>1. {e \in events : e.op = x} = Of({x})
    OBVIOUS
  <2>2. Net(x) = Total({x})
    BY <2>1 DEF Net
  <2>3. Net(x) \in Int
    BY <1>1, <2>2
  <2> QED BY <2>2, <2>3 DEF ChargeWithinBound
<1>3. ASSUME NEW p \in SUBSET P, NEW x \in p
      PROVE  Total(p) = Net(x) + Total(p \ {x})
  <2>1. Of(p) = Of({x}) \cup Of(p \ {x}) /\ Of({x}) \cap Of(p \ {x}) = {}
    OBVIOUS
  <2>2. IsFiniteSet(Of({x})) /\ IsFiniteSet(Of(p \ {x}))
    BY <1>1
  <2>3. \A y \in Of({x}) \cup Of(p \ {x}) : AmountOf[y] \in Int
    BY DEF AmountOf, TypeOK, CostEvent
  <2>4. Net(x) = Total({x})
    BY <1>2
  <2> HIDE DEF Of
  <2>5. SumFunctionOnSet(AmountOf, Of({x}) \cup Of(p \ {x}))
          = SumFunctionOnSet(AmountOf, Of({x})) + SumFunctionOnSet(AmountOf, Of(p \ {x}))
    BY <2>1, <2>2, <2>3, SumOfBoth
  <2> QED BY <2>1, <2>4, <2>5
<1>4. \A p \in SUBSET P : Total(p) \in Int
  BY <1>1
<1>5. Bad = {}
  <2> SUFFICES ASSUME Bad # {} PROVE FALSE
    OBVIOUS
  <2>1. PICK p \in Bad : \A q \in SUBSET p : q # p => q \notin Bad
    <3>1. IsFiniteSet(P)  BY FS_Subset DEF Bookkeeping
    <3>2. Bad \in SUBSET (SUBSET P)  OBVIOUS
    <3> HIDE DEF Bad
    <3> QED BY <3>1, <3>2, SmallestFinite
  <2>2. p \in SUBSET P /\ ~ (Total(p) \in Int /\ Total(p) >= 0)
    BY <2>1
  <2>3. CASE p = {}
    <3>1. Of(p) = {}  BY <2>3
    <3> HIDE DEF Of
    <3>2. Total(p) = 0  BY <3>1, SumOfNone
    <3> QED BY <3>2, <2>2
  <2>4. CASE p # {}
    <3>1. PICK x \in p : TRUE  BY <2>4
    <3>2. Total(p) = Net(x) + Total(p \ {x})  BY <1>3, <2>2
    <3>3. p \ {x} \in SUBSET P /\ p \ {x} \notin Bad
      <4> HIDE DEF Bad
      <4> QED BY <2>1, <2>2
    <3>4. Total(p \ {x}) \in Int /\ Total(p \ {x}) >= 0
      <4> HIDE DEF Total
      <4> QED BY <3>3 DEF Bad
    <3>5. Net(x) \in Int /\ Net(x) >= 0
      BY <1>2, <2>2
    <3> HIDE DEF Total
    <3> QED BY <3>2, <3>4, <3>5, <2>2
  <2> QED BY <2>3, <2>4
<1>6. Total(P) = Net(o) + Total(P \ {o})
  BY <1>3
<1>7. Total(P \ {o}) \in Int /\ Total(P \ {o}) >= 0
  <2> HIDE DEF Total
  <2>1. P \ {o} \in SUBSET P  OBVIOUS
  <2> QED BY <1>5, <2>1
<1>8. Net(o) \in Int  BY <1>2
<1>9. Total(P) >= Net(o)
  <2> HIDE DEF Total
  <2> QED BY <1>6, <1>7, <1>8
<1> QED BY <1>8, <1>9

\* What was charged to an account is never less than what one of the
\* operations charged to it was charged.
LEMMA SpentCoversEach ==
    ASSUME LedgerInv, NEW o \in Admitted, NEW a \in Accounts, AllocatedTo(o, a)
    PROVE  Net(o) \in Int /\ spent[a] >= Net(o)
<1> DEFINE P == {x \in Admitted : AllocatedTo(x, a)}
<1>1. {e \in events : e.op \in P} = {e \in events : AllocatedTo(e.op, a)}
  BY DEF LedgerInv, Bookkeeping
<1>2. o \in P /\ P \in SUBSET Admitted
  OBVIOUS
<1>3. spent[a] = SumFunctionOnSet(AmountOf, {e \in events : e.op \in P})
  BY <1>1 DEF LedgerInv, LedgerBalances
<1> HIDE DEF P
<1> QED BY <1>2, <1>3, OneOfMany DEF LedgerInv

\* Charging an operation and writing the event for it keep the books.
LEMMA ChargeKeepsBooks ==
    ASSUME LedgerInv, NEW o \in Admitted, NEW amount \in Int, NEW id \in EventIds,
           Fresh(id), Append(id, o, amount), Charge(o, amount),
           Admitted' = Admitted,
           \A x \in Admitted : reservations'[x].period = reservations[x].period
    PROVE  /\ LedgerBalances'
           /\ events' \subseteq CostEvent /\ IsFiniteSet(events')
           /\ \A e \in events' : e.op \in Admitted
           /\ \A x \in Admitted :
                /\ Net(x) \in Int
                /\ Net(x)' = Net(x) + (IF x = o THEN amount ELSE 0)
           /\ \A a \in Accounts :
                spent'[a] = spent[a] + (IF AllocatedTo(o, a) THEN amount ELSE 0)
<1>1. TypeOK /\ Bookkeeping
  BY DEF LedgerInv
<1>2. PICK e \in CostEvent :
         /\ e \notin events /\ e.op = o /\ e.amount = amount
         /\ events' = events \cup {e}
         /\ events' \subseteq CostEvent /\ IsFiniteSet(events')
         /\ \A S \in SUBSET events :
              /\ SumFunctionOnSet(AmountOf, S) \in Int
              /\ SumFunctionOnSet(AmountOf', S) = SumFunctionOnSet(AmountOf, S)
              /\ SumFunctionOnSet(AmountOf', S \cup {e})
                   = SumFunctionOnSet(AmountOf, S) + amount
  BY <1>1, EventsWhenAppended
<1>3. \A x \in events' : x.op \in Admitted
  BY <1>1, <1>2 DEF Bookkeeping
<1>4. \A a \in Accounts :
        spent'[a] = spent[a] + (IF AllocatedTo(o, a) THEN amount ELSE 0)
  BY <1>1 DEF Charge, TypeOK
<1>5. ASSUME NEW x \in Admitted
      PROVE  /\ Net(x) \in Int
             /\ Net(x)' = Net(x) + (IF x = o THEN amount ELSE 0)
  <2> DEFINE S == {y \in events : y.op = x}
  <2>1. Net(x) = SumFunctionOnSet(AmountOf, S) /\ Net(x) \in Int
    BY <1>2 DEF Net
  <2>2. Net(x)' = SumFunctionOnSet(AmountOf', {y \in events' : y.op = x})
    BY DEF Net
  <2>3. CASE x = o
    <3>1. {y \in events' : y.op = x} = S \cup {e}  BY <1>2, <2>3
    <3> QED BY <1>2, <2>1, <2>2, <2>3, <3>1
  <2>4. CASE x # o
    <3>1. {y \in events' : y.op = x} = S  BY <1>2, <2>4
    <3>2. SumFunctionOnSet(AmountOf', S) = SumFunctionOnSet(AmountOf, S)
      BY <1>2
    <3> HIDE DEF S
    <3>3. Net(x)' = Net(x)
      BY <2>1, <2>2, <3>1, <3>2, Zenon
    <3> QED BY <2>1, <2>4, <3>3
  <2> QED BY <2>1, <2>3, <2>4
<1>6. ASSUME NEW a \in Accounts
      PROVE  spent'[a] = SumFunctionOnSet(AmountOf', {y \in events' : AllocatedTo(y.op, a)'})
  <2> DEFINE S == {y \in events : AllocatedTo(y.op, a)}
  <2>1. \A x \in Admitted : AllocatedTo(x, a)' <=> AllocatedTo(x, a)
    BY DEF AllocatedTo
  <2>2. spent[a] = SumFunctionOnSet(AmountOf, S)
    BY DEF LedgerInv, LedgerBalances
  <2>3. S \in SUBSET events /\ \A y \in events : y.op \in Admitted
    BY <1>1 DEF Bookkeeping
  <2>4. CASE AllocatedTo(o, a)
    <3>1. {y \in events' : AllocatedTo(y.op, a)'} = S \cup {e}
      BY <1>2, <2>1, <2>3, <2>4
    <3> HIDE DEF S
    <3> QED BY <1>2, <1>4, <2>2, <2>3, <2>4, <3>1
  <2>5. CASE ~ AllocatedTo(o, a)
    <3>1. {y \in events' : AllocatedTo(y.op, a)'} = S
      BY <1>2, <2>1, <2>3, <2>5
    <3>2. spent'[a] = spent[a]
      BY <1>4, <2>5, <1>1 DEF TypeOK
    <3> HIDE DEF S
    <3> QED BY <1>2, <2>2, <2>3, <3>1, <3>2
  <2> QED BY <2>4, <2>5
<1>7. LedgerBalances'
  <2>1. Accounts' = Accounts
    OBVIOUS
  <2> QED BY <1>6 DEF LedgerBalances
<1> QED BY <1>2, <1>3, <1>4, <1>5, <1>7

----------------------------------------------------------------------------
(* Every operation keeps the invariant.                                    *)

\* The empty ledger is in order.
LEMMA InitLedger == Init => LedgerInv
<1> SUFFICES ASSUME Init PROVE LedgerInv
  OBVIOUS
<1>1. Admitted = {} /\ events = {}
  BY DEF Init, Admitted
<1>2. \A f : SumFunctionOnSet(f, {}) = 0
  BY SumOfNone
<1>3. TypeOK
  BY LedgerAssumption DEF Init, TypeOK, Accounts, Periods
<1>4. Bookkeeping
  BY <1>1, FS_EmptySet DEF Bookkeeping, Init
<1>5. WithinLimit
  BY DEF WithinLimit, Init
<1>6. LedgerBalances
  <2> SUFFICES ASSUME NEW a \in Accounts
               PROVE  spent[a] = SumFunctionOnSet(AmountOf, {e \in events : AllocatedTo(e.op, a)})
    BY DEF LedgerBalances
  <2>1. {e \in events : AllocatedTo(e.op, a)} = {}
    BY <1>1
  <2> QED BY <2>1, <1>2 DEF Init
<1>7. ChargeWithinBound
  BY <1>1 DEF ChargeWithinBound
<1> QED BY <1>3, <1>4, <1>5, <1>6, <1>7 DEF LedgerInv

\* Admitting an operation adds its bound to accounts with room for it.
LEMMA ReserveKeepsLedger ==
    ASSUME LedgerInv, NEW o \in Ops, NEW n \in Amounts, ReserveOperation(o, n)
    PROVE  LedgerInv'
<1> DEFINE r == [state |-> "active", bound |-> n, hold |-> n, period |-> now, origin |-> now']
<1>1. TypeOK /\ Bookkeeping /\ n \in Nat /\ n > 0 /\ now \in Nat
  BY ReservationFacts DEF LedgerInv, ReserveOperation, TypeOK
<1>2. /\ reservations[o] = NoReservation /\ now' \in Periods /\ now <= now'
      /\ reservations' = [reservations EXCEPT ![o] = r]
      /\ limit' = limit /\ spent' = spent /\ events' = events
  <2>1. now' = now \/ now' = now + 1
    BY DEF ReserveOperation
  <2>2. now <= now'
    BY <2>1, <1>1
  <2> QED BY <2>2 DEF ReserveOperation
<1>3. r \in Reservation /\ r.hold = n /\ r.bound = n /\ r.period = now /\ r.state = "active"
  BY <1>1, <1>2 DEF Reservation, TypeOK
<1>4. /\ reservations'[o] = r /\ \A x \in Ops \ {o} : reservations'[x] = reservations[x]
      /\ reservations' \in [Ops -> Reservation \cup {NoReservation}]
  <2> HIDE DEF r
  <2> QED BY <1>1, <1>2, <1>3 DEF TypeOK
<1>5. o \notin Admitted /\ Admitted' = Admitted \cup {o}
  <2> HIDE DEF r
  <2> QED BY <1>2, <1>3, <1>4, <1>1, ReservationFacts DEF Admitted
<1>6. \A a \in Accounts :
        Held(a)' = Held(a) + (IF a[1] \in ScopesOf[o] /\ now <= a[2] THEN n ELSE 0)
  <2> HIDE DEF r
  <2> QED BY <1>1, <1>2, <1>3, HeldWhenReserved
<1> HIDE DEF r
<1>7. TypeOK'
  BY <1>1, <1>2, <1>4 DEF TypeOK
<1>8. Bookkeeping'
  <2>1. IsFiniteSet(Admitted')
    BY <1>1, <1>5, FS_AddElement DEF Bookkeeping
  <2>2. \A x \in Admitted' :
          /\ reservations'[x].period <= now'
          /\ x \notin Portioned /\ reservations'[x].state = "active"
               => reservations'[x].hold = reservations'[x].bound
    <3>1. \A x \in Admitted : x \in Ops /\ reservations'[x] = reservations[x]
                                /\ reservations[x].period \in Nat
      BY <1>1, <1>4, <1>5, ReservationFacts
    <3>2. now' \in Nat
      BY <1>1, <1>2, ReservationFacts
    <3> QED BY <1>1, <1>2, <1>3, <1>4, <1>5, <3>1, <3>2 DEF Bookkeeping, Active
  <2>3. \A a \in Accounts : limit'[a] # 0 => a[2] <= now'
    BY <1>1, <1>2, ReservationFacts DEF Bookkeeping, Accounts
  <2>4. \A e \in events' : e.op \in Admitted'
    BY <1>1, <1>2, <1>5 DEF Bookkeeping
  <2> QED BY <2>1, <2>2, <2>3, <2>4, <1>1, <1>2 DEF Bookkeeping, Active
<1>9. WithinLimit'
  <2> SUFFICES ASSUME NEW a \in Accounts, limit[a] # 0
               PROVE  spent[a] + Held(a)' <= limit[a]
    BY <1>2 DEF WithinLimit
  <2>1. a[2] <= now /\ a[2] \in Nat /\ a = <<a[1], a[2]>>
    BY <1>1, ReservationFacts DEF Bookkeeping, Accounts
  <2>2. spent[a] + Held(a) <= limit[a]
    BY DEF LedgerInv, WithinLimit
  <2>3. CASE a[1] \in ScopesOf[o] /\ now <= a[2]
    <3>1. a = <<a[1], now>>
      BY <2>1, <2>3, <1>1
    <3>2. spent[<<a[1], now>>] + Held(<<a[1], now>>) + n <= limit[<<a[1], now>>]
      BY <2>3 DEF ReserveOperation
    <3>3. spent[a] + Held(a) + n <= limit[a]
      BY <3>1, <3>2, Zenon
    <3>4. Held(a)' = Held(a) + n
      BY <1>6, <2>3
    <3>5. spent[a] \in Int /\ Held(a) \in Int /\ limit[a] \in Int
      BY <1>1, HeldIsInt, AccountFacts
    <3> QED BY <1>1, <3>3, <3>4, <3>5
  <2>4. CASE ~ (a[1] \in ScopesOf[o] /\ now <= a[2])
    <3>1. Held(a)' = Held(a) + 0
      BY <1>6, <2>4
    <3>2. Held(a) \in Int
      BY <1>1, HeldIsInt
    <3> QED BY <2>2, <3>1, <3>2
  <2> QED BY <2>3, <2>4
<1>10. AmountOf' = AmountOf /\ \A x \in Ops : Net(x)' = Net(x)
  BY <1>2 DEF AmountOf, Net
<1>11. LedgerBalances'
  <2> SUFFICES ASSUME NEW a \in Accounts
               PROVE  spent[a] = SumFunctionOnSet(AmountOf, {e \in events : AllocatedTo(e.op, a)'})
    BY <1>2, <1>10 DEF LedgerBalances
  <2>1. \A e \in events : AllocatedTo(e.op, a)' <=> AllocatedTo(e.op, a)
    <3>1. \A e \in events : e.op \in Ops \ {o}
      BY <1>1, <1>5, ReservationFacts DEF Bookkeeping
    <3> QED BY <3>1, <1>4 DEF AllocatedTo
  <2>2. {e \in events : AllocatedTo(e.op, a)'} = {e \in events : AllocatedTo(e.op, a)}
    BY <2>1
  <2> QED BY <2>2 DEF LedgerInv, LedgerBalances
<1>12. ChargeWithinBound'
  <2>1. ASSUME NEW x \in Admitted
        PROVE  (/\ Net(x) >= 0
                /\ Net(x) + reservations[x].hold <= reservations[x].bound
                /\ reservations[x].hold > 0 <=> Active(x))'
    <3>1. x \in Ops /\ reservations'[x] = reservations[x]
      BY <1>1, <1>4, <1>5, ReservationFacts
    <3> QED BY <3>1, <1>10 DEF LedgerInv, ChargeWithinBound, Active
  <2>2. Net(o)' = 0
    <3>1. {e \in events : e.op = o} = {}
      BY <1>1, <1>5 DEF Bookkeeping
    <3> QED BY <3>1, <1>10, SumOfNone DEF Net
  <2>3. (/\ Net(o) >= 0
         /\ Net(o) + reservations[o].hold <= reservations[o].bound
         /\ reservations[o].hold > 0 <=> Active(o))'
    BY <2>2, <1>1, <1>3, <1>4 DEF Active
  <2> QED BY <2>1, <2>3, <1>5 DEF ChargeWithinBound
<1> QED BY <1>7, <1>8, <1>9, <1>11, <1>12 DEF LedgerInv

\* A charge that leaves at most the rest of the hold keeps everything true.
LEMMA SettlingKeepsLedger ==
    ASSUME LedgerInv, NEW o \in Admitted, Active(o),
           NEW actual \in Amounts, NEW left \in Amounts, NEW st \in {"active", "settled"},
           NEW id \in EventIds, Fresh(id), Append(id, o, actual), Charge(o, actual),
           HoldBecomes(o, left, st), now' = now, limit' = limit,
           actual + left <= reservations[o].hold,
           left > 0 <=> st = "active", o \notin Portioned => left = 0
    PROVE  LedgerInv'
<1>1. TypeOK /\ Bookkeeping
  BY DEF LedgerInv
<1>2. actual \in Nat /\ left \in Nat /\ actual \in Int /\ reservations[o].hold \in Nat
  BY <1>1, ReservationFacts
<1>3. /\ Admitted' = Admitted
      /\ \A x \in Admitted : /\ reservations'[x].period = reservations[x].period
                             /\ reservations'[x].origin = reservations[x].origin
                             /\ reservations'[x].bound = reservations[x].bound
                             /\ x # o => reservations'[x] = reservations[x]
      /\ reservations'[o].hold = left /\ reservations'[o].state = st
      /\ reservations' \in [Ops -> Reservation \cup {NoReservation}]
      /\ \A a \in Accounts :
           Held(a)' = Held(a) - (IF Counts(o, a) THEN reservations[o].hold - left ELSE 0)
  BY <1>1, HeldWhenFreed
<1>4. /\ LedgerBalances'
      /\ events' \subseteq CostEvent /\ IsFiniteSet(events')
      /\ \A e \in events' : e.op \in Admitted
      /\ \A x \in Admitted :
           /\ Net(x) \in Int
           /\ Net(x)' = Net(x) + (IF x = o THEN actual ELSE 0)
      /\ \A a \in Accounts :
           spent'[a] = spent[a] + (IF AllocatedTo(o, a) THEN actual ELSE 0)
  BY <1>2, <1>3, ChargeKeepsBooks
<1>5. spent' \in [Accounts -> Nat]
  BY <1>1, <1>2 DEF Charge, TypeOK
<1>6. TypeOK'
  BY <1>1, <1>3, <1>4, <1>5 DEF TypeOK
<1>7. Bookkeeping'
  BY <1>1, <1>3, <1>4 DEF Bookkeeping, Active
<1>8. WithinLimit'
  <2> SUFFICES ASSUME NEW a \in Accounts, limit[a] # 0
               PROVE  spent'[a] + Held(a)' <= limit[a]
    BY DEF WithinLimit
  <2>1. spent[a] + Held(a) <= limit[a]
    BY DEF LedgerInv, WithinLimit
  <2>2. Held(a) \in Int
    BY <1>1, HeldIsInt
  <2>3. spent[a] \in Int /\ limit[a] \in Int
    BY <1>1, AccountFacts
  <2>4. AllocatedTo(o, a) => Counts(o, a)
    <3>1. reservations[o].period \in Nat
      BY <1>1, ReservationFacts
    <3> QED BY <3>1 DEF AllocatedTo, Counts
  <2>5. Held(a)' = Held(a) - (IF Counts(o, a) THEN reservations[o].hold - left ELSE 0)
    BY <1>3
  <2>6. spent'[a] = spent[a] + (IF AllocatedTo(o, a) THEN actual ELSE 0)
    BY <1>4
  <2> QED BY <1>2, <2>1, <2>2, <2>3, <2>4, <2>5, <2>6
<1>9. ChargeWithinBound'
  <2> SUFFICES ASSUME NEW x \in Admitted
               PROVE  (/\ Net(x) >= 0
                       /\ Net(x) + reservations[x].hold <= reservations[x].bound
                       /\ reservations[x].hold > 0 <=> Active(x))'
    BY <1>3 DEF ChargeWithinBound
  <2>1. /\ Net(x) >= 0 /\ Net(x) \in Int
        /\ Net(x) + reservations[x].hold <= reservations[x].bound
        /\ reservations[x].hold > 0 <=> Active(x)
        /\ reservations[x].hold \in Nat /\ reservations[x].bound \in Nat
    BY <1>1, <1>4, ReservationFacts DEF LedgerInv, ChargeWithinBound
  <2>2. CASE x = o
    <3>1. Net(x)' = Net(x) + actual
      BY <1>4, <2>2
    <3>2. /\ reservations'[x].hold = left /\ reservations'[x].state = st
          /\ reservations'[x].bound = reservations[x].bound
      BY <1>3, <2>2
    <3> QED BY <1>2, <2>1, <2>2, <3>1, <3>2 DEF Active
  <2>3. CASE x # o
    <3>1. Net(x)' = Net(x)
      BY <1>4, <2>1, <2>3
    <3>2. reservations'[x] = reservations[x]
      BY <1>3, <2>3
    <3> QED BY <2>1, <3>1, <3>2 DEF Active
  <2> QED BY <2>2, <2>3
<1> QED BY <1>4, <1>6, <1>7, <1>8, <1>9 DEF LedgerInv

\* Settling in one charge moves the cost from the hold to the spend.
LEMMA SettleKeepsLedger ==
    ASSUME LedgerInv, NEW o \in Ops, NEW actual \in Amounts, NEW id \in EventIds,
           SettleOperation(o, actual, id)
    PROVE  LedgerInv'
<1>1. o \in Admitted /\ o \notin Portioned /\ Active(o) /\ actual <= reservations[o].bound
  BY DEF SettleOperation
<1>2. 0 \in Amounts /\ actual \in Nat
  BY LedgerAssumption DEF Amounts
<1>3. reservations[o].hold = reservations[o].bound
  BY <1>1 DEF LedgerInv, Bookkeeping
<1>4. HoldBecomes(o, 0, "settled")
  BY DEF SettleOperation, HoldBecomes
<1>5. actual + 0 <= reservations[o].hold
  BY <1>1, <1>2, <1>3
<1>6. Fresh(id) /\ Append(id, o, actual) /\ Charge(o, actual) /\ now' = now /\ limit' = limit
  BY DEF SettleOperation
<1> QED BY <1>1, <1>2, <1>4, <1>5, <1>6, SettlingKeepsLedger

\* Settling a portion moves that portion from the hold to the spend.
LEMMA SettlePortionKeepsLedger ==
    ASSUME LedgerInv, NEW o \in Ops, NEW actual \in Amounts, NEW released \in Amounts,
           NEW id \in EventIds, SettleKnownPortion(o, actual, released, id)
    PROVE  LedgerInv'
<1> DEFINE left == reservations[o].hold - released
           st == IF left = 0 THEN "settled" ELSE "active"
<1>1. /\ o \in Admitted /\ o \in Portioned /\ Active(o)
      /\ actual <= released /\ released <= reservations[o].hold
  BY DEF SettleKnownPortion
<1>2. TypeOK
  BY DEF LedgerInv
<1>3. /\ reservations[o].hold \in 0 .. MaxAmount /\ released \in 0 .. MaxAmount
      /\ actual \in 0 .. MaxAmount /\ MaxAmount \in Nat
      /\ reservations[o] \in Reservation /\ reservations[o].state = "active"
  BY <1>1, <1>2, ReservationFacts, LedgerAssumption DEF Amounts, Active
<1>4. left \in Amounts /\ left \in Nat /\ actual + left <= reservations[o].hold
  BY <1>1, <1>3 DEF Amounts
<1>5. HoldBecomes(o, left, st)
  <2>1. reservations' = [reservations EXCEPT ![o].hold = left,
                           ![o].state = IF left = 0 THEN "settled" ELSE @]
    BY DEF SettleKnownPortion
  <2> HIDE DEF left
  <2>2. o \in Ops /\ reservations[o].state = "active"
    BY <1>3
  <2> QED BY <2>1, <2>2, <1>2, <1>3 DEF HoldBecomes, TypeOK, Reservation
<1>6. Fresh(id) /\ Append(id, o, actual) /\ Charge(o, actual) /\ now' = now /\ limit' = limit
  BY DEF SettleKnownPortion
<1>7. st \in {"active", "settled"} /\ (left > 0 <=> st = "active")
  BY <1>4
<1> HIDE DEF left, st
<1> QED BY <1>1, <1>4, <1>5, <1>6, <1>7, SettlingKeepsLedger

\* Releasing gives a hold back and charges nothing.
LEMMA ReleaseKeepsLedger ==
    ASSUME LedgerInv, NEW o \in Ops, ReleaseUnsubmittedOperation(o)
    PROVE  LedgerInv'
<1>1. /\ o \in Admitted /\ Active(o)
      /\ now' = now /\ limit' = limit /\ spent' = spent /\ events' = events
  BY DEF ReleaseUnsubmittedOperation
<1>2. TypeOK /\ Bookkeeping /\ 0 \in Amounts
  BY LedgerAssumption DEF LedgerInv, Amounts
<1>3. HoldBecomes(o, 0, "released")
  BY DEF ReleaseUnsubmittedOperation, HoldBecomes
<1>4. /\ Admitted' = Admitted
      /\ \A x \in Admitted : /\ reservations'[x].period = reservations[x].period
                             /\ reservations'[x].origin = reservations[x].origin
                             /\ reservations'[x].bound = reservations[x].bound
                             /\ x # o => reservations'[x] = reservations[x]
      /\ reservations'[o].hold = 0 /\ reservations'[o].state = "released"
      /\ reservations' \in [Ops -> Reservation \cup {NoReservation}]
      /\ \A a \in Accounts :
           Held(a)' = Held(a) - (IF Counts(o, a) THEN reservations[o].hold - 0 ELSE 0)
  BY <1>1, <1>2, <1>3, HeldWhenFreed
<1>5. TypeOK'
  BY <1>1, <1>2, <1>4 DEF TypeOK
<1>6. Bookkeeping'
  BY <1>1, <1>2, <1>4 DEF Bookkeeping, Active
<1>7. AmountOf' = AmountOf /\ \A x \in Ops : Net(x)' = Net(x)
  BY <1>1 DEF AmountOf, Net
<1>8. WithinLimit'
  <2> SUFFICES ASSUME NEW a \in Accounts, limit[a] # 0
               PROVE  spent[a] + Held(a)' <= limit[a]
    BY <1>1 DEF WithinLimit
  <2>1. spent[a] + Held(a) <= limit[a]
    BY DEF LedgerInv, WithinLimit
  <2>2. Held(a) \in Int
    BY <1>2, HeldIsInt
  <2>3. spent[a] \in Int /\ limit[a] \in Int
    BY <1>2, AccountFacts
  <2>4. reservations[o].hold \in Nat
    BY <1>1, <1>2, ReservationFacts
  <2>5. Held(a)' = Held(a) - (IF Counts(o, a) THEN reservations[o].hold - 0 ELSE 0)
    BY <1>4
  <2> QED BY <2>1, <2>2, <2>3, <2>4, <2>5
<1>9. LedgerBalances'
  <2> SUFFICES ASSUME NEW a \in Accounts
               PROVE  spent[a] = SumFunctionOnSet(AmountOf, {e \in events : AllocatedTo(e.op, a)'})
    BY <1>1, <1>7 DEF LedgerBalances
  <2>1. \A e \in events : AllocatedTo(e.op, a)' <=> AllocatedTo(e.op, a)
    BY <1>2, <1>4 DEF AllocatedTo, Bookkeeping
  <2>2. {e \in events : AllocatedTo(e.op, a)'} = {e \in events : AllocatedTo(e.op, a)}
    BY <2>1
  <2> QED BY <2>2 DEF LedgerInv, LedgerBalances
<1>10. ChargeWithinBound'
  <2> SUFFICES ASSUME NEW x \in Admitted
               PROVE  (/\ Net(x) >= 0
                       /\ Net(x) + reservations[x].hold <= reservations[x].bound
                       /\ reservations[x].hold > 0 <=> Active(x))'
    BY <1>4 DEF ChargeWithinBound
  <2>1. /\ Net(x) >= 0 /\ Net(x) \in Int /\ Net(x)' = Net(x)
        /\ Net(x) + reservations[x].hold <= reservations[x].bound
        /\ reservations[x].hold > 0 <=> Active(x)
        /\ reservations[x].hold \in Nat /\ reservations[x].bound \in Nat
    <3>1. Net(x) \in Int
      <4>1. {x} \in SUBSET Admitted /\ x \in {x}  OBVIOUS
      <4> QED BY <4>1, <1>2, OneOfMany DEF LedgerInv
    <3> QED BY <3>1, <1>2, <1>7, ReservationFacts DEF LedgerInv, ChargeWithinBound
  <2> QED BY <1>4, <2>1 DEF Active
<1> QED BY <1>5, <1>6, <1>8, <1>9, <1>10 DEF LedgerInv

\* A refund takes back from the spend what was charged there.
LEMMA RefundKeepsLedger ==
    ASSUME LedgerInv, NEW o \in Ops, NEW amount \in Amounts, NEW id \in EventIds,
           RefundOperation(o, amount, id)
    PROVE  LedgerInv'
<1>1. TypeOK /\ Bookkeeping
  BY DEF LedgerInv
<1>2. /\ o \in Admitted /\ reservations[o].state = "settled" /\ amount <= Net(o)
      /\ Fresh(id) /\ Append(id, o, -amount) /\ Charge(o, -amount)
      /\ now' = now /\ limit' = limit /\ reservations' = reservations
  BY DEF RefundOperation
<1>3. amount \in Nat /\ -amount \in Int
  BY ReservationFacts, <1>1
<1>4. Admitted' = Admitted /\ HoldOf' = HoldOf /\ \A a \in Accounts : Held(a)' = Held(a)
  BY <1>2 DEF Admitted, HoldOf, Held
<1>5. /\ LedgerBalances'
      /\ events' \subseteq CostEvent /\ IsFiniteSet(events')
      /\ \A e \in events' : e.op \in Admitted
      /\ \A x \in Admitted :
           /\ Net(x) \in Int
           /\ Net(x)' = Net(x) + (IF x = o THEN -amount ELSE 0)
      /\ \A a \in Accounts :
           spent'[a] = spent[a] + (IF AllocatedTo(o, a) THEN -amount ELSE 0)
  BY <1>2, <1>3, <1>4, ChargeKeepsBooks
<1>6. \A a \in Accounts : spent'[a] \in Nat /\ spent'[a] <= spent[a]
  <2> SUFFICES ASSUME NEW a \in Accounts
               PROVE  spent'[a] \in Nat /\ spent'[a] <= spent[a]
    OBVIOUS
  <2>1. spent[a] \in Nat
    BY <1>1, AccountFacts
  <2>2. CASE AllocatedTo(o, a)
    <3>1. Net(o) \in Int /\ spent[a] >= Net(o)
      BY <1>2, <2>2, SpentCoversEach
    <3>2. spent'[a] = spent[a] + (-amount)
      BY <1>5, <2>2
    <3> QED BY <1>2, <1>3, <2>1, <3>1, <3>2
  <2>3. CASE ~ AllocatedTo(o, a)
    BY <1>5, <2>1, <2>3
  <2> QED BY <2>2, <2>3
<1>7. TypeOK'
  <2>1. spent' \in [Accounts -> Nat]
    BY <1>2, <1>6 DEF Charge
  <2> QED BY <1>1, <1>2, <1>5, <2>1 DEF TypeOK
<1>8. Bookkeeping'
  BY <1>1, <1>2, <1>4, <1>5 DEF Bookkeeping, Active
<1>9. WithinLimit'
  <2> SUFFICES ASSUME NEW a \in Accounts, limit[a] # 0
               PROVE  spent'[a] + Held(a)' <= limit[a]
    BY <1>2 DEF WithinLimit
  <2>1. spent[a] + Held(a) <= limit[a]
    BY DEF LedgerInv, WithinLimit
  <2>2. Held(a) \in Int /\ spent[a] \in Int /\ limit[a] \in Int
    BY <1>1, HeldIsInt, AccountFacts
  <2>3. spent'[a] \in Int /\ spent'[a] <= spent[a] /\ Held(a)' = Held(a)
    BY <1>4, <1>6
  <2> QED BY <2>1, <2>2, <2>3
<1>10. ChargeWithinBound'
  <2> SUFFICES ASSUME NEW x \in Admitted
               PROVE  (/\ Net(x) >= 0
                       /\ Net(x) + reservations[x].hold <= reservations[x].bound
                       /\ reservations[x].hold > 0 <=> Active(x))'
    BY <1>4 DEF ChargeWithinBound
  <2>1. /\ Net(x) >= 0 /\ Net(x) \in Int
        /\ Net(x) + reservations[x].hold <= reservations[x].bound
        /\ reservations[x].hold > 0 <=> Active(x)
        /\ reservations[x].hold \in Nat /\ reservations[x].bound \in Nat
    BY <1>1, <1>5, ReservationFacts DEF LedgerInv, ChargeWithinBound
  <2>2. CASE x = o
    <3>1. Net(x)' = Net(x) + (-amount)
      BY <1>5, <2>2
    <3> QED BY <1>2, <1>3, <2>1, <2>2, <3>1 DEF Active
  <2>3. CASE x # o
    <3>1. Net(x)' = Net(x)
      BY <1>5, <2>1, <2>3
    <3> QED BY <1>2, <2>1, <3>1 DEF Active
  <2> QED BY <2>2, <2>3
<1> QED BY <1>5, <1>7, <1>8, <1>9, <1>10 DEF LedgerInv

\* Approving a limit below what is spent and held is refused.
LEMMA UpdateKeepsLedger ==
    ASSUME LedgerInv, NEW a \in Accounts, NEW new \in Limits, UpdateBudget(a, new)
    PROVE  LedgerInv'
<1>1. TypeOK /\ Bookkeeping
  BY DEF LedgerInv
<1>2. /\ a[2] <= now /\ spent[a] + Held(a) <= new
      /\ limit' = [limit EXCEPT ![a] = new]
      /\ now' = now /\ spent' = spent /\ reservations' = reservations /\ events' = events
  BY DEF UpdateBudget
<1>3. /\ Admitted' = Admitted /\ HoldOf' = HoldOf /\ AmountOf' = AmountOf
      /\ \A x \in Accounts : Held(x)' = Held(x)
      /\ \A x \in Ops : Net(x)' = Net(x)
  BY <1>2 DEF Admitted, HoldOf, AmountOf, Held, Net
<1>4. limit'[a] = new /\ \A x \in Accounts \ {a} : limit'[x] = limit[x]
  BY <1>1, <1>2 DEF TypeOK
<1>5. TypeOK'
  BY <1>1, <1>2 DEF TypeOK
<1>6. Bookkeeping'
  BY <1>1, <1>2, <1>3, <1>4 DEF Bookkeeping, Active
<1>7. WithinLimit'
  BY <1>2, <1>3, <1>4 DEF LedgerInv, WithinLimit
<1>8. LedgerBalances'
  BY <1>2, <1>3 DEF LedgerInv, LedgerBalances, AllocatedTo
<1>9. ChargeWithinBound'
  BY <1>1, <1>2, <1>3, ReservationFacts DEF LedgerInv, ChargeWithinBound, Active
<1> QED BY <1>5, <1>6, <1>7, <1>8, <1>9 DEF LedgerInv

\* A new month begins with accounts that have no limit yet.
LEMMA RolloverKeepsLedger == ASSUME LedgerInv, Rollover PROVE LedgerInv'
<1>1. TypeOK /\ Bookkeeping
  BY DEF LedgerInv
<1>2. /\ now < MaxPeriod /\ now' = now + 1 /\ limit' = limit
      /\ spent' = spent /\ reservations' = reservations /\ events' = events
  BY DEF Rollover
<1>3. /\ Admitted' = Admitted /\ HoldOf' = HoldOf /\ AmountOf' = AmountOf
      /\ \A x \in Accounts : Held(x)' = Held(x)
      /\ \A x \in Ops : Net(x)' = Net(x)
  BY <1>2 DEF Admitted, HoldOf, AmountOf, Held, Net
<1>4. now \in Nat /\ now' \in Periods
  BY <1>1, <1>2, LedgerAssumption DEF TypeOK, Periods
<1>5. TypeOK'
  BY <1>1, <1>2, <1>4 DEF TypeOK
<1>6. Bookkeeping'
  <2>1. \A x \in Admitted : reservations[x].period <= now'
    <3>1. \A x \in Admitted : reservations[x].period \in Nat /\ reservations[x].period <= now
      BY <1>1, ReservationFacts DEF Bookkeeping
    <3> QED BY <3>1, <1>2, <1>4
  <2>2. \A a \in Accounts : limit[a] # 0 => a[2] <= now'
    <3>1. \A a \in Accounts : a[2] \in Nat /\ (limit[a] # 0 => a[2] <= now)
      BY <1>1, ReservationFacts DEF Bookkeeping, Accounts
    <3> QED BY <3>1, <1>2, <1>4
  <2> QED BY <1>1, <1>2, <1>3, <2>1, <2>2 DEF Bookkeeping, Active
<1>7. WithinLimit'
  BY <1>2, <1>3 DEF LedgerInv, WithinLimit
<1>8. LedgerBalances'
  BY <1>2, <1>3 DEF LedgerInv, LedgerBalances, AllocatedTo
<1>9. ChargeWithinBound'
  BY <1>1, <1>2, <1>3, ReservationFacts DEF LedgerInv, ChargeWithinBound, Active
<1> QED BY <1>5, <1>6, <1>7, <1>8, <1>9 DEF LedgerInv

\* Every transaction keeps the ledger in order.
LEMMA NextKeepsLedger == ASSUME LedgerInv, [Next]_vars PROVE LedgerInv'
<1>1. CASE UNCHANGED vars
  BY <1>1 DEF vars, LedgerInv, TypeOK, Bookkeeping, WithinLimit, LedgerBalances,
              ChargeWithinBound, Admitted, Active, Held, Net, HoldOf, AmountOf, AllocatedTo
<1>2. CASE Next
  BY <1>2, ReserveKeepsLedger, SettleKeepsLedger, SettlePortionKeepsLedger,
     RefundKeepsLedger, ReleaseKeepsLedger, UpdateKeepsLedger, RolloverKeepsLedger DEF Next
<1> QED BY <1>1, <1>2

----------------------------------------------------------------------------
(* The theorems.                                                           *)

\* The ledger is well formed in every reachable state; in particular no
\* account's settled spend is ever negative, whatever is refunded.
THEOREM LedgerTypeCorrect == Spec => [](TypeOK /\ Bookkeeping)
<1>1. LedgerInv => TypeOK /\ Bookkeeping
  BY DEF LedgerInv
<1> QED BY <1>1, InitLedger, NextKeepsLedger, PTL DEF Spec

\* Settled cost and holds stay within every approved limit, for any number of
\* operations, scopes and months (reserve_operation, settle_operation,
\* update_budget).
THEOREM SpendingStaysWithinLimit == Spec => []WithinLimit
<1>1. LedgerInv => WithinLimit
  BY DEF LedgerInv
<1> QED BY <1>1, InitLedger, NextKeepsLedger, PTL DEF Spec

\* Every account's spend is the sum of the cost events charged to it.
THEOREM BooksBalance == Spec => []LedgerBalances
<1>1. LedgerInv => LedgerBalances
  BY DEF LedgerInv
<1> QED BY <1>1, InitLedger, NextKeepsLedger, PTL DEF Spec

\* An operation is never charged beyond the bound approved for it, however
\* many portions it is settled in.
THEOREM ChargesStayWithinBound == Spec => []ChargeWithinBound
<1>1. LedgerInv => ChargeWithinBound
  BY DEF LedgerInv
<1> QED BY <1>1, InitLedger, NextKeepsLedger, PTL DEF Spec

\* Only a refund writes an event of a negative amount.
LEMMA NegativeEventsAreRefunds ==
    ASSUME LedgerInv, [Next]_vars, NEW e \in events' \ events, e.amount < 0
    PROVE  \E amount \in Amounts, id \in EventIds :
             e.op \in Ops /\ RefundOperation(e.op, amount, id)
<1>1. CASE UNCHANGED vars
  BY <1>1 DEF vars
<1>2. \A n \in Amounts : n \in Nat
  BY ReservationFacts DEF LedgerInv
<1>3. ASSUME NEW o \in Ops, NEW n \in Amounts, NEW id \in EventIds, Append(id, o, n)
      PROVE  FALSE
  <2>1. e.amount = n
    BY <1>3 DEF Append
  <2> QED BY <2>1, <1>2
<1>4. ASSUME NEW o \in Ops, NEW n \in Amounts, NEW id \in EventIds, Append(id, o, -n)
      PROVE  e.op = o
  BY <1>4 DEF Append
<1>5. CASE Next
  <2>1. ASSUME NEW o \in Ops, NEW n \in Amounts, ReserveOperation(o, n)
        PROVE  FALSE
    BY <2>1 DEF ReserveOperation
  <2>2. ASSUME NEW o \in Ops, NEW n \in Amounts, NEW id \in EventIds, SettleOperation(o, n, id)
        PROVE  FALSE
    BY <2>2, <1>3 DEF SettleOperation
  <2>3. ASSUME NEW o \in Ops, NEW n \in Amounts, NEW released \in Amounts, NEW id \in EventIds,
               SettleKnownPortion(o, n, released, id)
        PROVE  FALSE
    BY <2>3, <1>3 DEF SettleKnownPortion
  <2>4. ASSUME NEW o \in Ops, NEW n \in Amounts, NEW id \in EventIds, RefundOperation(o, n, id)
        PROVE  \E amount \in Amounts, i \in EventIds :
                 e.op \in Ops /\ RefundOperation(e.op, amount, i)
    <3>1. e.op = o
      BY <2>4, <1>4 DEF RefundOperation
    <3> QED BY <2>4, <3>1
  <2>5. ASSUME NEW o \in Ops, ReleaseUnsubmittedOperation(o)
        PROVE  FALSE
    BY <2>5 DEF ReleaseUnsubmittedOperation
  <2>6. ASSUME NEW a \in Accounts, NEW new \in Limits, UpdateBudget(a, new)
        PROVE  FALSE
    BY <2>6 DEF UpdateBudget
  <2>7. ASSUME Rollover PROVE FALSE
    BY <2>7 DEF Rollover
  <2> QED BY <1>5, <2>1, <2>2, <2>3, <2>4, <2>5, <2>6, <2>7 DEF Next
<1> QED BY <1>1, <1>5

\* Only a refund adds a negative event, and it leaves the room of this month alone.
LEMMA RefundLeavesRoom ==
    ASSUME LedgerInv, [Next]_vars, NEW e \in events' \ events,
           e.amount < 0, reservations[e.op].period < now, NEW s \in Scopes
    PROVE  Room(<<s, now>>)' = Room(<<s, now>>)
<1>1. PICK n \in Amounts, id \in EventIds : e.op \in Ops /\ RefundOperation(e.op, n, id)
  BY NegativeEventsAreRefunds
<1>2. /\ now' = now /\ limit' = limit /\ reservations' = reservations
      /\ e.op \in Admitted /\ Charge(e.op, -n)
  BY <1>1 DEF RefundOperation
<1>3. TypeOK /\ <<s, now>> \in Accounts /\ now \in Nat /\ reservations[e.op].period \in Nat
  BY <1>2, ReservationFacts DEF LedgerInv, TypeOK, Accounts
<1>4. ~ AllocatedTo(e.op, <<s, now>>)
  BY <1>3 DEF AllocatedTo
<1>5. spent'[<<s, now>>] = spent[<<s, now>>]
  BY <1>2, <1>3, <1>4 DEF Charge
<1>6. Held(<<s, now>>)' = Held(<<s, now>>)
  BY <1>2 DEF Held, HoldOf, Admitted
<1> QED BY <1>2, <1>5, <1>6 DEF Room

\* A refund of an earlier month's charge gives the current month no capacity
\* (refund_operation: "without minting current capacity").
THEOREM RefundsMintNothing == Spec => RefundMintsNoCapacity
<1>1. LedgerInv /\ [Next]_vars
        => [\A e \in events' \ events :
              e.amount < 0 /\ reservations[e.op].period < now
                => \A s \in Scopes : Room(<<s, now>>)' = Room(<<s, now>>)]_vars
  BY RefundLeavesRoom
<1> QED BY <1>1, InitLedger, NextKeepsLedger, PTL DEF Spec, RefundMintsNoCapacity


----------------------------------------------------------------------------
(* Rows, operations and processes.                                         *)

\* A row is the lookup intent, or a status intent of one operation.
LEMMA RowFacts ==
    /\ Lookup \in Rows
    /\ \A o \in Operations : <<o, "auto">> \in Rows /\ <<o, "auto">> # Lookup
    /\ \A r \in Rows : r # Lookup => Subject(r) \in Operations
    /\ \A r \in Rows : Subject(r) \in Operations \cup {"job"}
<1>1. "auto" \in Polls
  BY JobAssumption
<1>. QED BY <1>1, JobAssumption DEF Rows, Lookup, Subject

\* A process that is doing something knows its row, generation and operation.
LEMMA WorkerFacts ==
    ASSUME JobTypeOK, NEW w \in Workers
    PROVE  /\ workers[w] \in Worker \cup {Idle}
           /\ workers[w].phase # "idle" => workers[w] # Idle
           /\ workers[w] # Idle =>
                /\ workers[w] \in Worker
                /\ workers[w].row \in Rows
                /\ workers[w].op \in Operations \cup {"job"}
BY DEF JobTypeOK, Worker, Idle

\* Closing intents that were not carried out keeps operations well formed.
LEMMA DroppedType ==
    ASSUME NEW op \in [Operations -> Operation], NEW dropped
    PROVE  Dropped(op, dropped) \in [Operations -> Operation]
<1>1. ASSUME NEW o \in Operations
      PROVE  [op[o] EXCEPT !.status = "cancelled", !.proven = TRUE, !.cost = 0] \in Operation
  <2>1. 0 \in 0 .. MaxCost /\ "cancelled" \in TERMINAL
    BY JobAssumption DEF TERMINAL
  <2>. QED BY <2>1 DEF Operation
<1>. QED BY <1>1 DEF Dropped

\* So does giving up on submissions that were begun.
LEMMA RecoveredType ==
    ASSUME NEW op \in [Operations -> Operation]
    PROVE  Recovered(op) \in [Operations -> Operation]
<1>1. ASSUME NEW o \in Operations
      PROVE  [op[o] EXCEPT !.status = "unknown"] \in Operation
  BY DEF Operation, UNCERTAIN
<1>. QED BY <1>1 DEF Recovered

\* The evidence of finitely many operations adds up to an amount.
LEMMA SettledHoldType == ASSUME NEW op PROVE SettledHold(op) \in Hold
<1>1. IsFiniteSet(Operations \X (1 .. MaxCost))
  <2>1. IsFiniteSet(1 .. MaxCost)
    BY JobAssumption, FS_Interval
  <2>. QED BY <2>1, JobAssumption, FS_Product
<1>2. Proved(op) \in Nat
  BY <1>1, FS_Subset, FS_CardinalityType DEF Proved
<1>. QED BY <1>2 DEF SettledHold, Hold

\* Losing the fence leaves a process well formed.
LEMMA FencedType ==
    ASSUME NEW p \in Worker \cup {Idle}
    PROVE  Fenced(p) \in Worker \cup {Idle}
BY DEF Fenced, Worker, Idle, Phases

----------------------------------------------------------------------------
(* Type correctness.                                                       *)

\* Every field of the typed state, as the proofs below use it.
LEMMA TypeParts ==
    ASSUME JobTypeOK
    PROVE  /\ job \in Job /\ hold \in Hold
           /\ ops \in [Operations -> Operation]
           /\ outbox \in [Rows -> Row]
           /\ workers \in [Workers -> Worker \cup {Idle}]
           /\ submits \in [Operations -> Nat]
BY DEF JobTypeOK

\* Ending a native step, or the row of a process, keeps rows and processes well formed.
LEMMA EndType ==
    ASSUME JobTypeOK, NEW w \in Workers, workers[w] # Idle,
           (\E result \in Steps : Leave(w, result)) \/ CloseRow(w)
    PROVE  /\ outbox' \in [Rows -> Row]
           /\ workers' \in [Workers -> Worker \cup {Idle}]
<1>1. workers[w].row \in Rows
  BY WorkerFacts
<1>2. workers' \in [Workers -> Worker \cup {Idle}]
  BY TypeParts DEF Leave, CloseRow, Become
<1>3. \/ UNCHANGED outbox
      \/ \E result \in Steps : outbox' = [outbox EXCEPT ![workers[w].row].step = result]
      \/ outbox' = [outbox EXCEPT ![workers[w].row].state = "done"]
  BY DEF Leave, CloseRow
<1>4. outbox' \in [Rows -> Row]
  BY <1>1, <1>3, TypeParts DEF Row
<1>. QED BY <1>2, <1>4

\* The Celery task goes on, or the native step is over.
LEMMA GoOnType ==
    ASSUME JobTypeOK, NEW w \in Workers, workers[w] # Idle, GoOn(w)
    PROVE  workers' \in [Workers -> Worker \cup {Idle}]
<1>1. [workers[w] EXCEPT !.phase = "claimed", !.op = "job", !.word = "nothing", !.ref = FALSE]
        \in Worker
  BY WorkerFacts DEF Worker, Phases, Words
<1>. QED BY <1>1, TypeParts DEF GoOn, Become

\* Claims, starts and recoveries of the outbox runtime.
LEMMA RuntimeType ==
    ASSUME JobTypeOK, Runtime
    PROVE  JobTypeOK'
<1>1. ASSUME NEW r \in Rows, Claim(r) \/ Unclaim(r)
      PROVE  JobTypeOK'
  <2>1. outbox' \in [Rows -> Row]
    BY <1>1, TypeParts DEF Claim, Unclaim, Row, Steps
  <2>. QED BY <1>1, <2>1 DEF Claim, Unclaim, JobTypeOK
<1>2. ASSUME NEW r \in Rows, RecoverExecution(r)
      PROVE  JobTypeOK'
  <2>. DEFINE missing == {o \in Operations : ops[o].status \in UNCERTAIN
                                             /\ outbox[<<o, "auto">>].state = "absent"}
              after == IF Cardinality(missing) > 1 THEN "dispatched"
                       ELSE IF Uncertain(ops) /\ r = Lookup THEN "done" ELSE "ready"
              mark == IF outbox[r].step \notin {"running", "reconcile"} THEN outbox[r].step
                      ELSE IF Uncertain(ops) /\ r = Lookup THEN "reconcile" ELSE "closed"
  <2>1. PICK queued : outbox' = [s \in Rows |->
            IF s = r THEN [outbox[r] EXCEPT !.state = after, !.step = mark]
            ELSE IF s \in queued \X {"auto"} THEN [outbox[s] EXCEPT !.state = "ready"]
            ELSE outbox[s]]
    BY <1>2 DEF RecoverExecution
  <2>2. outbox' \in [Rows -> Row]
    <3>1. after \in {"ready", "dispatched", "done"} /\ mark \in Steps
      BY TypeParts DEF Row, Steps
    <3>. HIDE DEF after, mark
    <3>2. [outbox[r] EXCEPT !.state = after, !.step = mark] \in Row
      BY <3>1, TypeParts DEF Row
    <3>3. \A s \in Rows : outbox[s] \in Row /\ [outbox[s] EXCEPT !.state = "ready"] \in Row
      BY TypeParts DEF Row
    <3>. QED BY <2>1, <3>2, <3>3
  <2>3. workers' \in [Workers -> Worker \cup {Idle}]
    BY <1>2, TypeParts, FencedType DEF RecoverExecution
  <2>. QED BY <1>2, <2>2, <2>3 DEF RecoverExecution, JobTypeOK
<1>3. ASSUME NEW r \in Rows, NEW w \in Workers, Start(w, r)
      PROVE  JobTypeOK'
  <2>. DEFINE started == [phase |-> "claimed", row |-> r, gen |-> outbox[r].gen,
                          op |-> Subject(r), word |-> "nothing", ref |-> FALSE]
  <2>1. started \in Worker
    BY RowFacts, TypeParts DEF Worker, Row, Phases, Words
  <2>2. \/ workers' = [workers EXCEPT ![w] = started] /\ UNCHANGED outbox
        \/ /\ workers' = [v \in Workers |-> IF v = w THEN started ELSE Fenced(workers[v])]
           /\ outbox' = [outbox EXCEPT ![r].step = "running"]
    BY <1>3 DEF Start, Become
  <2>. HIDE DEF started
  <2>3. workers' \in [Workers -> Worker \cup {Idle}]
    BY <2>1, <2>2, TypeParts, FencedType
  <2>4. outbox' \in [Rows -> Row]
    BY <2>2, TypeParts DEF Row, Steps
  <2>. QED BY <1>3, <2>3, <2>4 DEF Start, JobTypeOK
<1>. QED BY <1>1, <1>2, <1>3 DEF Runtime

\* The outcomes of the prepare transaction.
LEMMA PrepareType ==
    ASSUME JobTypeOK, NEW w \in Workers, Prepare(w)
    PROVE  JobTypeOK'
<1>1. workers[w] # Idle /\ workers[w] \in Worker /\ UNCHANGED <<runtime, seen, submits>>
  BY WorkerFacts DEF Prepare, Idle
<1>2. ResumedJob \in Job /\ \A state \in JobStates : [job EXCEPT !.state = state] \in Job
  BY TypeParts DEF ResumedJob, Job, JobStates
<1>3. [hold EXCEPT !.state = "released"] \in Hold
  BY TypeParts DEF Hold
<1>4. Recovered(ops) \in [Operations -> Operation]
  BY TypeParts, RecoveredType
<1>5. "closed" \in Steps /\ {"cancelled", "reconciled", "submitting"} \subseteq JobStates
  BY DEF Steps, JobStates
<1>6. CASE PrepareStale(w)
  BY <1>1, <1>6, TypeParts DEF PrepareStale, Become, JobTypeOK
<1>7. CASE PrepareBlocked(w)
  BY <1>1, <1>5, <1>7, EndType DEF PrepareBlocked, JobTypeOK
<1>8. CASE PrepareCancelled(w)
  <2>1. job' \in Job /\ hold' \in Hold
    BY <1>2, <1>3, <1>5, <1>8, TypeParts DEF PrepareCancelled
  <2>2. ops' \in [Operations -> Operation]
    BY <1>8, TypeParts, DroppedType DEF PrepareCancelled
  <2>. QED BY <1>1, <1>8, <2>1, <2>2, EndType DEF PrepareCancelled, JobTypeOK
<1>9. CASE PrepareFinished(w)
  BY <1>1, <1>2, <1>4, <1>9, EndType DEF PrepareFinished, JobTypeOK
<1>10. CASE PrepareBasisChanged(w)
  BY <1>1, <1>2, <1>4, <1>5, <1>10, EndType DEF PrepareBasisChanged, JobTypeOK
<1>11. CASE PrepareDenied(w)
  <2>1. ops' \in [Operations -> Operation]
    BY <1>4, <1>11, DroppedType DEF PrepareDenied
  <2>2. job' \in Job /\ hold' \in Hold
    <3>1. \/ hold' = [hold EXCEPT !.state = "released"]
          \/ hold' = SettledHold(ops')
          \/ UNCHANGED hold
      BY <1>11 DEF PrepareDenied
    <3>2. \/ \E state \in JobStates : job' = [job EXCEPT !.state = state]
          \/ job' = ResumedJob
      BY <1>5, <1>11 DEF PrepareDenied
    <3>3. hold' \in Hold
      BY <1>3, <2>1, <3>1, SettledHoldType, TypeParts
    <3>4. job' \in Job
      BY <1>2, <3>2
    <3>. QED BY <3>3, <3>4
  <2>. QED BY <1>1, <1>5, <1>11, <2>1, <2>2, EndType DEF PrepareDenied, JobTypeOK
<1>12. CASE PrepareSubmit(w)
  <2>1. PICK o \in Operations : /\ ops' = [Recovered(ops) EXCEPT ![o].status = "submitting"]
                                /\ workers' = [workers EXCEPT ![w] = [workers[w] EXCEPT !.phase = "submit", !.op = o]]
    BY <1>12 DEF PrepareSubmit, Waiting, Become
  <2>2. ops' \in [Operations -> Operation]
    BY <1>4, <2>1 DEF Operation, UNCERTAIN
  <2>3. [workers[w] EXCEPT !.phase = "submit", !.op = o] \in Worker
    BY <1>1 DEF Worker, Phases
  <2>4. workers' \in [Workers -> Worker \cup {Idle}]
    BY <2>1, <2>3, TypeParts
  <2>. QED BY <1>1, <1>2, <1>5, <1>12, <2>2, <2>4 DEF PrepareSubmit, JobTypeOK
<1>. QED BY <1>6, <1>7, <1>8, <1>9, <1>10, <1>11, <1>12 DEF Prepare

\* A provider call, and what becomes of a process that lost its fence.
LEMMA CallType ==
    ASSUME JobTypeOK, NEW w \in Workers,
           CallSubmit(w) \/ CallLate(w) \/ LoseFence(w) \/ FailStep(w)
    PROVE  JobTypeOK'
<1>1. workers[w] # Idle /\ workers[w] \in Worker /\ workers[w].row \in Rows
  BY WorkerFacts DEF CallSubmit, CallLate, LoseFence, FailStep, Idle
<1>2. workers' \in [Workers -> Worker \cup {Idle}]
  <2>1. \A word \in {"accepted", "unknown", "raised"}, ref \in BOOLEAN :
          [workers[w] EXCEPT !.phase = "answered", !.word = word, !.ref = ref] \in Worker
    BY <1>1 DEF Worker, Phases, Words
  <2>2. \E next \in Worker \cup {Idle} : workers' = [workers EXCEPT ![w] = next]
    BY <1>1, <2>1, FencedType DEF CallSubmit, CallLate, LoseFence, FailStep, Become
  <2>. QED BY <2>2, TypeParts
<1>3. submits' \in [Operations -> Nat]
  <2>1. submits' = submits \/ submits' = [submits EXCEPT ![workers[w].op] = @ + 1]
    BY DEF CallSubmit, CallLate, LoseFence, FailStep
  <2>. QED BY <2>1, TypeParts
<1>4. outbox' \in [Rows -> Row]
  <2>1. CASE outbox' = outbox
    BY <2>1, TypeParts
  <2>2. CASE FailStep(w)
    <3>1. PICK row \in Row : row = outbox[workers[w].row]
      BY <1>1, TypeParts
    <3>2. PICK step \in Steps : step = IF Uncertain(ops) THEN "reconcile" ELSE "closed"
      BY DEF Steps
    <3>3. PICK next : next = [row EXCEPT !.step = step]
      OBVIOUS
    <3>4. next \in Row
      BY <3>1, <3>2, <3>3 DEF Row
    <3>5. outbox' = [outbox EXCEPT ![workers[w].row] = next]
      BY <1>1, <2>2, <3>1, <3>2, <3>3 DEF FailStep
    <3>. QED BY <1>1, <3>4, <3>5, TypeParts
  <2>. QED BY <2>1, <2>2 DEF CallSubmit, CallLate, LoseFence
<1>. QED BY <1>2, <1>3, <1>4 DEF CallSubmit, CallLate, LoseFence, FailStep, JobTypeOK

\* Recording the answer of a submission, or finding it stale.
LEMMA FinalizeType ==
    ASSUME JobTypeOK, NEW w \in Workers, Finalize(w)
    PROVE  JobTypeOK'
<1>1. workers[w] # Idle /\ workers[w] \in Worker /\ UNCHANGED <<runtime, hold, seen, submits>>
  BY WorkerFacts DEF Finalize, Idle
<1>2. CASE GoOn(w) /\ UNCHANGED <<job, ops, outbox>>
  BY <1>1, <1>2, GoOnType DEF JobTypeOK
<1>3. CASE FinalizeStale(w)
  BY <1>1, <1>3, GoOnType, EndType DEF FinalizeStale, Steps, JobTypeOK
<1>4. CASE FinalizeRecorded(w)
  <2>. DEFINE p == workers[w]
              status == IF p.word = "accepted" THEN "accepted" ELSE "unknown"
              queued == IF p.ref THEN [outbox EXCEPT ![<<p.op, "auto">>].state = "ready"]
                        ELSE outbox
  <2>1. queued \in [Rows -> Row]
    BY TypeParts DEF Row
  <2>2. \/ outbox' = queued
        \/ outbox' = [queued EXCEPT ![Lookup].state = "done"]
        \/ \E step \in {"continue", "reconcile"} : outbox' = [queued EXCEPT ![Lookup].step = step]
    BY <1>4 DEF FinalizeRecorded
  <2>3. outbox' \in [Rows -> Row]
    <3>. HIDE DEF queued
    <3>. QED BY <2>1, <2>2 DEF Row, Steps
  <2>4. job' \in Job
    BY <1>4, TypeParts DEF FinalizeRecorded, Job, JobStates
  <2>5. ops' \in [Operations -> Operation]
    <3>1. ops' = [ops EXCEPT ![p.op].status = status, ![p.op].ref = p.ref]
      BY <1>4 DEF FinalizeRecorded
    <3>2. status \in UNCERTAIN /\ p.ref \in BOOLEAN
      BY <1>1 DEF UNCERTAIN, Worker
    <3>. HIDE DEF status, p
    <3>. QED BY <3>1, <3>2, TypeParts DEF Operation
  <2>6. workers' \in [Workers -> Worker \cup {Idle}]
    BY <1>1, <1>4, GoOnType DEF FinalizeRecorded
  <2>. QED BY <1>1, <2>3, <2>4, <2>5, <2>6 DEF JobTypeOK
<1>. QED BY <1>2, <1>3, <1>4 DEF Finalize

\* An authenticated event of an operation.
LEMMA ApplyVerifiedType ==
    ASSUME JobTypeOK, NEW o \in Operations, NEW id \in ProviderEvents, NEW said \in Reports,
           ApplyVerified(o, id, said)
    PROVE  job' \in Job /\ hold' \in Hold /\ ops' \in [Operations -> Operation] /\ seen' \subseteq ProviderEvents
<1>1. seen' \subseteq ProviderEvents
  BY DEF ApplyVerified, JobTypeOK
<1>2. \A state \in JobStates : [job EXCEPT !.state = state] \in Job
  BY TypeParts DEF Job
<1>3. {"pending", "unknown", "reconciled"} \subseteq JobStates
  BY DEF JobStates
<1>4. CASE Ignored
  BY <1>1, <1>4, TypeParts DEF Ignored
<1>5. CASE Progress(o, "pending") \/ Doubt(o)
  <2>1. ops' = ops \/ \E status \in UNCERTAIN : ops' = [ops EXCEPT ![o].status = status]
    BY <1>5 DEF Progress, Doubt, Ignored, UNCERTAIN
  <2>2. ops' \in [Operations -> Operation]
    BY <2>1, TypeParts DEF Operation
  <2>3. job' \in Job /\ hold' \in Hold
    BY <1>2, <1>3, <1>5, TypeParts DEF Progress, Doubt, Ignored
  <2>. QED BY <1>1, <2>2, <2>3
<1>6. CASE Proves(said) /\ Answer(o, said.cost)
  <2>1. said.cost \in 0 .. MaxCost
    BY <1>6, JobAssumption DEF Proves, Reports
  <2>2. ops' \in [Operations -> Operation]
    BY <1>6, <2>1, TypeParts DEF Answer, Operation, TERMINAL
  <2>3. job' \in Job /\ hold' \in Hold
    BY <1>2, <1>3, <1>6, <2>2, SettledHoldType, TypeParts DEF Answer
  <2>. QED BY <1>1, <2>2, <2>3
<1>7. Progress(o, said.status) => Ignored \/ Progress(o, "pending")
  BY DEF Progress, Ignored
<1>. QED BY <1>4, <1>5, <1>6, <1>7 DEF ApplyVerified

\* Status polls and callbacks.
LEMMA EvidenceType ==
    ASSUME JobTypeOK,
           \/ Provider
           \/ \E w \in Workers :
                \/ ReadOperation(w) \/ PollUnknown(w) \/ PollOpen(w)
                \/ \E id \in ProviderEvents, said \in Reports :
                     PollAnswered(w, id, said) /\ Subject(workers[w].row) \in Operations
    PROVE  JobTypeOK'
<1>1. CASE Provider
  BY <1>1, ApplyVerifiedType DEF Provider, Callback, JobTypeOK
<1>2. ASSUME NEW w \in Workers, ReadOperation(w) \/ PollUnknown(w) \/ PollOpen(w)
      PROVE  JobTypeOK'
  <2>1. workers[w] # Idle /\ workers[w] \in Worker
    BY <1>2, WorkerFacts DEF ReadOperation, PollUnknown, PollOpen, Idle
  <2>2. [workers[w] EXCEPT !.phase = "status"] \in Worker
    BY <2>1 DEF Worker, Phases
  <2>3. \/ (\E result \in Steps : Leave(w, result)) \/ CloseRow(w)
        \/ UNCHANGED outbox /\ \E next \in Worker \cup {Idle} : Become(w, next)
    BY <1>2, <2>2 DEF ReadOperation, PollUnknown, PollOpen, Steps
  <2>4. outbox' \in [Rows -> Row] /\ workers' \in [Workers -> Worker \cup {Idle}]
    BY <2>1, <2>3, EndType, TypeParts DEF Become
  <2>. QED BY <1>2, <2>4 DEF ReadOperation, PollUnknown, PollOpen, JobTypeOK
<1>3. ASSUME NEW w \in Workers, NEW id \in ProviderEvents, NEW said \in Reports,
             PollAnswered(w, id, said), Subject(workers[w].row) \in Operations
      PROVE  JobTypeOK'
  <2>1. workers[w] # Idle
    BY <1>3 DEF PollAnswered, Idle
  <2>. QED BY <1>3, <2>1, EndType, ApplyVerifiedType DEF PollAnswered, JobTypeOK
<1>. QED BY <1>1, <1>2, <1>3

\* The user's cancellation and the administrator's request.
LEMMA UserType ==
    ASSUME JobTypeOK, CancelJob \/ QueueReconciliation
    PROVE  JobTypeOK'
<1>1. CASE CancelJob
  <2>1. ops' \in [Operations -> Operation]
    <3>1. \A o \in Operations : [ops[o] EXCEPT !.status = "cancelled"] \in Operation
      BY TypeParts DEF Operation, TERMINAL
    <3>2. \/ ops' = [o \in Operations |-> [ops[o] EXCEPT !.status = "cancelled"]]
          \/ ops' = Dropped(ops, Waiting(ops))
      BY <1>1 DEF CancelJob
    <3>. QED BY <3>1, <3>2, TypeParts, DroppedType
  <2>2. hold' \in Hold
    <3>1. \/ hold' = [hold EXCEPT !.state = "released"]
          \/ hold' = SettledHold(ops')
          \/ UNCHANGED hold
      BY <1>1 DEF CancelJob
    <3>. QED BY <2>1, <3>1, SettledHoldType, TypeParts DEF Hold
  <2>3. job' \in Job
    <3>1. \E state \in {"cancelled", "reconciled", "unknown", "pending"} :
            job' = [state |-> state, cancel_requested |-> TRUE]
      BY <1>1 DEF CancelJob
    <3>. QED BY <3>1 DEF Job, JobStates
  <2>4. outbox' \in [Rows -> Row]
    BY <1>1, TypeParts DEF CancelJob, Row
  <2>. QED BY <1>1, <2>1, <2>2, <2>3, <2>4 DEF CancelJob, JobTypeOK
<1>2. CASE QueueReconciliation
  <2>1. \A r \in Rows : [outbox[r] EXCEPT !.state = "ready", !.step = "none"] \in Row
    BY TypeParts DEF Row, Steps
  <2>2. outbox' \in [Rows -> Row]
    BY <1>2, <2>1, TypeParts DEF QueueReconciliation
  <2>. QED BY <1>2, <2>2 DEF QueueReconciliation, JobTypeOK
<1>. QED BY <1>1, <1>2

----------------------------------------------------------------------------
(* Submissions.  A process inside a provider call is the only one there for *)
(* its operation, whose call has not happened yet; only what was submitted  *)
(* has a reference, and only what has a reference is polled.                *)

Calling(p) == p.phase \in {"submit", "late"}

ReferencesAreSubmitted ==
    \A o \in Operations : ops[o].ref => ops[o].status \notin {"intent", "submitting", "cancelled"}

CallersNameAnOperation ==
    \A w \in Workers : Calling(workers[w]) \/ workers[w].phase = "answered" => workers[w].op \in Operations

CallsAreFirst ==
    \A w \in Workers : Calling(workers[w]) =>
        /\ submits[workers[w].op] = 0
        /\ ops[workers[w].op].status \notin {"intent", "cancelled"}

CallersAreAlone ==
    \A v, w \in Workers : Calling(workers[v]) /\ Calling(workers[w])
                          /\ workers[v].op = workers[w].op => v = w

PollsHaveAReference ==
    \A w \in Workers : workers[w].phase = "status" =>
        /\ workers[w].row # Lookup
        /\ ops[Subject(workers[w].row)].ref

CallInv == /\ ReferencesAreSubmitted /\ CallersNameAnOperation /\ CallsAreFirst
           /\ CallersAreAlone /\ PollsHaveAReference /\ SubmittedOnce

JobInv == JobTypeOK /\ CallInv

\* What one step may do to one operation.
Advance(o) ==
    \/ ops'[o] = ops[o]
    \/ /\ ops[o].status = "intent"
       /\ ops'[o].ref = ops[o].ref
       /\ \/ ops'[o].status = "cancelled"
          \/ ops'[o].status = "submitting" /\ hold.state = "active"
    \/ /\ ops[o].status \in UNCERTAIN
       /\ ops'[o].status \in {"unknown", "accepted", "pending", "answered"}
       /\ ops[o].ref => ops'[o].ref

\* No step but the beginning of a submission makes a new caller.
Quiet(v) ==
    /\ Calling(workers'[v]) => Calling(workers[v]) /\ workers'[v].op = workers[v].op
    /\ workers'[v].phase = "answered" => /\ Calling(workers[v]) \/ workers[v].phase = "answered"
                                         /\ workers'[v].op = workers[v].op
    /\ workers'[v].phase = "status" =>
         \/ workers[v].phase = "status" /\ workers'[v].row = workers[v].row
         \/ workers'[v].row # Lookup /\ ops[Subject(workers'[v].row)].ref

\* Going idle, going back to prepare, staying and losing the fence are quiet.
LEMMA QuietSteps ==
    ASSUME NEW v,
           \/ workers'[v] = workers[v]
           \/ workers'[v] = Fenced(workers[v])
           \/ workers'[v].phase \in {"idle", "claimed"}
    PROVE  Quiet(v)
<1>1. CASE workers'[v] = Fenced(workers[v])
  BY <1>1 DEF Fenced, Quiet, Calling, Idle
<1>. QED BY <1>1 DEF Quiet, Calling

\* Without a submission the invariant only follows the operations forward.
LEMMA QuietCalls ==
    ASSUME JobInv, JobTypeOK', UNCHANGED submits,
           \A o \in Operations : Advance(o),
           \A v \in Workers : Quiet(v)
    PROVE  CallInv'
<1>1. ReferencesAreSubmitted'
  BY DEF JobInv, CallInv, ReferencesAreSubmitted, Advance
<1>2. CallersNameAnOperation'
  BY DEF JobInv, CallInv, CallersNameAnOperation, Quiet, Calling
<1>3. \A o \in Operations : ops'[o].status \in {"intent", "cancelled"}
                            => ops[o].status \in {"intent", "cancelled"}
  BY DEF Advance
<1>4. CallsAreFirst'
  <2>. SUFFICES ASSUME NEW w \in Workers, Calling(workers'[w])
                PROVE  /\ submits'[workers'[w].op] = 0
                       /\ ops'[workers'[w].op].status \notin {"intent", "cancelled"}
    BY DEF CallsAreFirst
  <2>1. Calling(workers[w]) /\ workers'[w].op = workers[w].op
    BY DEF Quiet
  <2>2. workers[w].op \in Operations /\ submits[workers[w].op] = 0
        /\ ops[workers[w].op].status \notin {"intent", "cancelled"}
    BY <2>1 DEF JobInv, CallInv, CallersNameAnOperation, CallsAreFirst
  <2>. QED BY <1>3, <2>1, <2>2
<1>5. CallersAreAlone'
  BY DEF JobInv, CallInv, CallersAreAlone, Quiet
<1>6. PollsHaveAReference'
  <2>. SUFFICES ASSUME NEW w \in Workers, workers'[w].phase = "status"
                PROVE  workers'[w].row # Lookup /\ ops'[Subject(workers'[w].row)].ref
    BY DEF PollsHaveAReference
  <2>1. workers'[w].row # Lookup /\ ops[Subject(workers'[w].row)].ref
    BY DEF Quiet, JobInv, CallInv, PollsHaveAReference
  <2>2. workers'[w].row \in Rows
    BY DEF JobTypeOK, Worker, Idle
  <2>3. Subject(workers'[w].row) \in Operations
    BY <2>1, <2>2, RowFacts
  <2>4. ops[Subject(workers'[w].row)].status # "intent"
    BY <2>1, <2>3 DEF JobInv, CallInv, ReferencesAreSubmitted
  <2>. QED BY <2>1, <2>3, <2>4 DEF Advance
<1>7. SubmittedOnce'
  BY <1>3 DEF JobInv, CallInv, SubmittedOnce
<1>. QED BY <1>1, <1>2, <1>4, <1>5, <1>6, <1>7 DEF CallInv

\* A provider call that does happen: the caller's operation had none before.
LEMMA CallCalls ==
    ASSUME JobInv, JobTypeOK', NEW w \in Workers, CallSubmit(w) \/ CallLate(w)
    PROVE  CallInv'
<1>. DEFINE op == workers[w].op
<1>1. Calling(workers[w]) /\ op \in Operations /\ submits[op] = 0
      /\ ops[op].status \notin {"intent", "cancelled"}
  BY DEF CallSubmit, CallLate, Calling, JobInv, CallInv, CallersNameAnOperation, CallsAreFirst
<1>2. submits' = [submits EXCEPT ![op] = @ + 1] /\ UNCHANGED <<ops, hold>>
  BY DEF CallSubmit, CallLate
<1>3. \A v \in Workers : v # w => workers'[v] = workers[v]
  BY DEF CallSubmit, CallLate, Become, JobInv, JobTypeOK
<1>4. workers'[w].phase \in {"idle", "answered"} /\ (workers'[w].phase = "answered" => workers'[w].op = op)
  <2>1. CASE CallLate(w)
    BY <2>1 DEF CallLate, Become, JobInv, JobTypeOK, Idle
  <2>2. CASE CallSubmit(w)
    <3>1. PICK word, ref : workers' = [workers EXCEPT ![w] =
                             [workers[w] EXCEPT !.phase = "answered", !.word = word, !.ref = ref]]
      BY <2>2 DEF CallSubmit, Become
    <3>2. workers'[w] = [workers[w] EXCEPT !.phase = "answered", !.word = word, !.ref = ref]
      BY <3>1 DEF JobInv, JobTypeOK
    <3>3. workers[w] \in Worker
      BY <2>2, WorkerFacts DEF JobInv, CallSubmit, Idle
    <3>. QED BY <3>2, <3>3 DEF Worker
  <2>. QED BY <2>1, <2>2
<1>. HIDE DEF op
<1>5. submits \in [Operations -> Nat]
  BY DEF JobInv, JobTypeOK
<1>6. \A o \in Operations : submits'[o] = IF o = op THEN 1 ELSE submits[o]
  BY <1>1, <1>2, <1>5
<1>7. ReferencesAreSubmitted'
  BY <1>2 DEF JobInv, CallInv, ReferencesAreSubmitted
<1>8. CallersNameAnOperation'
  BY <1>1, <1>3, <1>4 DEF JobInv, CallInv, CallersNameAnOperation, Calling
<1>9. CallsAreFirst'
  <2>. SUFFICES ASSUME NEW v \in Workers, Calling(workers'[v])
                PROVE  /\ submits'[workers'[v].op] = 0
                       /\ ops'[workers'[v].op].status \notin {"intent", "cancelled"}
    BY DEF CallsAreFirst
  <2>1. v # w
    BY <1>4 DEF Calling
  <2>2. workers'[v] = workers[v]
    BY <1>3, <2>1
  <2>3. workers[v].op # op
    BY <1>1, <2>1, <2>2 DEF JobInv, CallInv, CallersAreAlone, op
  <2>4. workers[v].op \in Operations /\ submits[workers[v].op] = 0
        /\ ops[workers[v].op].status \notin {"intent", "cancelled"}
    BY <2>2 DEF JobInv, CallInv, CallersNameAnOperation, CallsAreFirst
  <2>. QED BY <1>2, <1>6, <2>2, <2>3, <2>4
<1>10. CallersAreAlone'
  BY <1>3, <1>4 DEF JobInv, CallInv, CallersAreAlone, Calling
<1>11. PollsHaveAReference'
  BY <1>2, <1>3, <1>4 DEF JobInv, CallInv, PollsHaveAReference
<1>12. SubmittedOnce'
  BY <1>1, <1>2, <1>6 DEF JobInv, CallInv, SubmittedOnce
<1>. QED BY <1>7, <1>8, <1>9, <1>10, <1>11, <1>12 DEF CallInv

\* What a step closes, and what it gives up on, moves forward.
LEMMA DroppedAdvance ==
    ASSUME JobTypeOK, NEW S \in SUBSET Waiting(ops), NEW o \in Operations,
           ops' = Dropped(ops, S) \/ ops' = Dropped(Recovered(ops), S) \/ ops' = Recovered(ops)
    PROVE  Advance(o)
<1>1. ops[o] \in Operation /\ (o \in S => ops[o].status = "intent")
  BY DEF JobTypeOK, Waiting
<1>2. Recovered(ops)[o] = IF ops[o].status = "submitting" THEN [ops[o] EXCEPT !.status = "unknown"]
                          ELSE ops[o]
  BY DEF Recovered
<1>3. \/ ops'[o] = ops[o] \/ ops'[o] = Recovered(ops)[o]
      \/ o \in S /\ ops'[o] = [ops[o] EXCEPT !.status = "cancelled", !.proven = TRUE, !.cost = 0]
  BY <1>1, <1>2 DEF Dropped
<1>4. \/ ops'[o] = ops[o]
      \/ ops[o].status = "submitting" /\ ops'[o] = [ops[o] EXCEPT !.status = "unknown"]
      \/ /\ ops[o].status = "intent"
         /\ ops'[o] = [ops[o] EXCEPT !.status = "cancelled", !.proven = TRUE, !.cost = 0]
  BY <1>1, <1>2, <1>3
<1>5. \/ ops'[o] = ops[o]
      \/ ops[o].status = "submitting" /\ ops'[o].status = "unknown" /\ ops'[o].ref = ops[o].ref
      \/ ops[o].status = "intent" /\ ops'[o].status = "cancelled" /\ ops'[o].ref = ops[o].ref
  BY <1>1, <1>4 DEF Operation
<1>. QED BY <1>5 DEF Advance, UNCERTAIN

\* Looking for intents after giving up on submissions finds the same ones.
LEMMA RecoveredWaiting == JobTypeOK => Waiting(Recovered(ops)) = Waiting(ops)
<1>. SUFFICES ASSUME JobTypeOK PROVE Waiting(Recovered(ops)) = Waiting(ops)
  OBVIOUS
<1>1. \A o \in Operations : Recovered(ops)[o].status = "intent" <=> ops[o].status = "intent"
  BY DEF JobTypeOK, Operation, Recovered
<1>. QED BY <1>1 DEF Waiting

\* The transaction that begins a submission takes an operation nobody calls for.
LEMMA PrepareSubmitCalls ==
    ASSUME JobInv, JobTypeOK', NEW w \in Workers, Prepare(w), PrepareSubmit(w)
    PROVE  CallInv' /\ \A o \in Operations : Advance(o)
<1>1. PICK op \in Waiting(Recovered(ops)) :
        /\ ops' = [Recovered(ops) EXCEPT ![op].status = "submitting"]
        /\ workers' = [workers EXCEPT ![w] = [workers[w] EXCEPT !.phase = "submit", !.op = op]]
  BY DEF PrepareSubmit, Become
<1>2. /\ workers[w] \in Worker /\ workers[w].phase = "claimed" /\ UNCHANGED <<submits, hold>>
      /\ hold.state = "active"
  BY WorkerFacts DEF JobInv, Prepare, PrepareSubmit, Resumes, Idle
<1>3. op \in Operations /\ ops[op].status = "intent"
  BY RecoveredWaiting DEF JobInv, Waiting
<1>4. /\ \A v \in Workers : v # w => workers'[v] = workers[v]
      /\ workers'[w].phase = "submit" /\ workers'[w].op = op
  BY <1>1, <1>2 DEF JobInv, JobTypeOK, Worker
<1>5. \A o \in Operations : ops[o] \in Operation
  BY DEF JobInv, JobTypeOK
<1>6. \A o \in Operations : \/ o # op /\ ops'[o] = ops[o]
                            \/ o # op /\ ops[o].status = "submitting"
                               /\ ops'[o] = [ops[o] EXCEPT !.status = "unknown"]
                            \/ o = op /\ ops'[o] = [ops[o] EXCEPT !.status = "submitting"]
  BY <1>1, <1>3 DEF Recovered
<1>7. \A o \in Operations : ops'[o].ref = ops[o].ref
  BY <1>5, <1>6 DEF Operation
<1>8. \A o \in Operations : /\ o = op => ops'[o].status = "submitting"
                            /\ o # op => \/ ops'[o].status = ops[o].status
                                         \/ ops[o].status = "submitting" /\ ops'[o].status = "unknown"
  BY <1>5, <1>6 DEF Operation
<1>9. ASSUME NEW o \in Operations
      PROVE  Advance(o)
  <2>1. CASE o = op
    BY <1>2, <1>3, <1>7, <1>8, <2>1 DEF Advance
  <2>2. CASE o # op
    <3>1. \/ ops'[o] = ops[o]
          \/ ops[o].status = "submitting" /\ ops'[o].status = "unknown"
      BY <1>5, <1>6, <2>2 DEF Operation
    <3>. QED BY <1>7, <3>1 DEF Advance, UNCERTAIN
  <2>. QED BY <2>1, <2>2
<1>10. submits[op] = 0
  BY <1>3 DEF JobInv, CallInv, SubmittedOnce
<1>11. \A v \in Workers : Calling(workers[v]) => workers[v].op # op
  BY <1>3 DEF JobInv, CallInv, CallsAreFirst
<1>12. ReferencesAreSubmitted'
  BY <1>3, <1>7, <1>8 DEF JobInv, CallInv, ReferencesAreSubmitted
<1>13. CallersNameAnOperation'
  BY <1>3, <1>4 DEF JobInv, CallInv, CallersNameAnOperation
<1>14. CallsAreFirst'
  <2>. SUFFICES ASSUME NEW v \in Workers, Calling(workers'[v])
                PROVE  /\ submits'[workers'[v].op] = 0
                       /\ ops'[workers'[v].op].status \notin {"intent", "cancelled"}
    BY DEF CallsAreFirst
  <2>1. CASE v = w
    BY <1>2, <1>3, <1>4, <1>8, <1>10, <2>1
  <2>2. CASE v # w
    <3>1. workers'[v] = workers[v]
      BY <1>4, <2>2
    <3>2. workers[v].op \in Operations /\ submits[workers[v].op] = 0
          /\ ops[workers[v].op].status \notin {"intent", "cancelled"}
      BY <3>1 DEF JobInv, CallInv, CallersNameAnOperation, CallsAreFirst
    <3>. QED BY <1>2, <1>8, <3>1, <3>2
  <2>. QED BY <2>1, <2>2
<1>15. CallersAreAlone'
  BY <1>4, <1>11 DEF JobInv, CallInv, CallersAreAlone
<1>16. PollsHaveAReference'
  <2>. SUFFICES ASSUME NEW v \in Workers, workers'[v].phase = "status"
                PROVE  workers'[v].row # Lookup /\ ops'[Subject(workers'[v].row)].ref
    BY DEF PollsHaveAReference
  <2>1. workers'[v] = workers[v] /\ workers[v].phase = "status"
    BY <1>4
  <2>2. workers[v].row # Lookup /\ ops[Subject(workers[v].row)].ref
    BY <2>1 DEF JobInv, CallInv, PollsHaveAReference
  <2>3. workers[v].row \in Rows
    BY <2>1, WorkerFacts DEF JobInv, Idle
  <2>. QED BY <1>7, <2>1, <2>2, <2>3, RowFacts
<1>17. SubmittedOnce'
  BY <1>2, <1>3, <1>8 DEF JobInv, CallInv, SubmittedOnce
<1>. QED BY <1>9, <1>12, <1>13, <1>14, <1>15, <1>16, <1>17 DEF CallInv

\* The other outcomes of the prepare transaction.
LEMMA PrepareQuiet ==
    ASSUME JobInv, NEW w \in Workers, Prepare(w), ~PrepareSubmit(w)
    PROVE  /\ UNCHANGED submits
           /\ \A o \in Operations : Advance(o)
           /\ \A v \in Workers : Quiet(v)
<1>1. UNCHANGED submits
  BY DEF Prepare
<1>2. Become(w, Idle)
  BY DEF Prepare, PrepareStale, PrepareBlocked, PrepareCancelled, PrepareFinished,
         PrepareBasisChanged, PrepareDenied, Leave, CloseRow
<1>3. \A v \in Workers : workers'[v] = workers[v] \/ workers'[v].phase = "idle"
  BY <1>2 DEF Become, JobInv, JobTypeOK, Idle
<1>4. \A v \in Workers : Quiet(v)
  BY <1>3, QuietSteps
<1>5. \/ UNCHANGED ops
      \/ ops' = Recovered(ops)
      \/ \E S \in SUBSET Waiting(ops) : ops' = Dropped(ops, S) \/ ops' = Dropped(Recovered(ops), S)
  BY RecoveredWaiting DEF JobInv, Prepare, PrepareStale, PrepareBlocked, PrepareCancelled,
         PrepareFinished, PrepareBasisChanged, PrepareDenied
<1>6. \A o \in Operations : Advance(o)
  <2>1. CASE UNCHANGED ops
    BY <2>1 DEF Advance
  <2>2. CASE ops' = Recovered(ops)
    <3>1. {} \in SUBSET Waiting(ops)
      OBVIOUS
    <3>. QED BY <2>2, <3>1, DroppedAdvance DEF JobInv
  <2>3. CASE \E S \in SUBSET Waiting(ops) : ops' = Dropped(ops, S) \/ ops' = Dropped(Recovered(ops), S)
    BY <2>3, DroppedAdvance DEF JobInv
  <2>. QED BY <1>5, <2>1, <2>2, <2>3
<1>. QED BY <1>1, <1>4, <1>6

\* Recording an answer, in either runtime.
LEMMA FinalizeQuiet ==
    ASSUME JobInv, NEW w \in Workers, Finalize(w)
    PROVE  /\ UNCHANGED <<submits, hold>>
           /\ \A o \in Operations : Advance(o)
           /\ \A v \in Workers : Quiet(v)
<1>1. UNCHANGED <<submits, hold>> /\ workers[w] \in Worker
  BY WorkerFacts DEF JobInv, Finalize, Idle
<1>2. \E next : Become(w, next) /\ next.phase \in {"idle", "claimed"}
  <2>. DEFINE back == [workers[w] EXCEPT !.phase = "claimed", !.op = "job",
                                         !.word = "nothing", !.ref = FALSE]
  <2>1. back.phase = "claimed" /\ Idle.phase = "idle"
    BY <1>1 DEF Worker, Idle
  <2>2. Become(w, back) \/ Become(w, Idle)
    BY DEF Finalize, FinalizeStale, FinalizeRecorded, Leave, GoOn
  <2>. HIDE DEF back
  <2>. QED BY <2>1, <2>2
<1>3. \A v \in Workers : workers'[v] = workers[v] \/ workers'[v].phase \in {"idle", "claimed"}
  BY <1>2 DEF Become, JobInv, JobTypeOK
<1>4. \A v \in Workers : Quiet(v)
  BY <1>3, QuietSteps
<1>5. ASSUME FinalizeRecorded(w), NEW o \in Operations
      PROVE  Advance(o)
  <2>. DEFINE status == IF workers[w].word = "accepted" THEN "accepted" ELSE "unknown"
  <2>1. /\ ops[workers[w].op].status = "submitting"
        /\ ops' = [ops EXCEPT ![workers[w].op].status = status, ![workers[w].op].ref = workers[w].ref]
    BY <1>5 DEF FinalizeRecorded
  <2>2. CASE o # workers[w].op
    BY <2>1, <2>2 DEF JobInv, JobTypeOK, Advance
  <2>3. CASE o = workers[w].op
    <3>1. ops'[o] = [ops[o] EXCEPT !.status = status, !.ref = workers[w].ref]
      BY <2>1, <2>3 DEF JobInv, JobTypeOK
    <3>2. ops[o] \in Operation /\ ~ops[o].ref
      BY <2>1, <2>3 DEF JobInv, JobTypeOK, CallInv, ReferencesAreSubmitted
    <3>3. ops'[o].status = status
      BY <3>1, <3>2 DEF Operation
    <3>. QED BY <2>1, <2>3, <3>2, <3>3 DEF Advance, UNCERTAIN
  <2>. QED BY <2>2, <2>3
<1>6. FinalizeRecorded(w) \/ UNCHANGED ops
  BY DEF Finalize, FinalizeStale
<1>7. \A o \in Operations : Advance(o)
  BY <1>5, <1>6 DEF Advance
<1>. QED BY <1>1, <1>4, <1>7

\* The runtime below the job, and a process that stops.
LEMMA RuntimeQuiet ==
    ASSUME JobInv, Runtime \/ \E w \in Workers : LoseFence(w) \/ FailStep(w)
    PROVE  UNCHANGED <<submits, ops, hold>> /\ \A v \in Workers : Quiet(v)
<1>1. ASSUME NEW r \in Rows, Claim(r) \/ Unclaim(r) \/ RecoverExecution(r)
      PROVE  UNCHANGED <<submits, ops, hold>> /\ \A v \in Workers : Quiet(v)
  <2>1. \A v \in Workers : workers'[v] = workers[v] \/ workers'[v] = Fenced(workers[v])
    BY <1>1 DEF Claim, Unclaim, RecoverExecution
  <2>. QED BY <1>1, <2>1, QuietSteps DEF Claim, Unclaim, RecoverExecution
<1>2. ASSUME NEW r \in Rows, NEW w \in Workers, Start(w, r)
      PROVE  UNCHANGED <<submits, ops, hold>> /\ \A v \in Workers : Quiet(v)
  <2>1. \A v \in Workers : \/ workers'[v] = workers[v] \/ workers'[v] = Fenced(workers[v])
                           \/ workers'[v].phase = "claimed"
    BY <1>2 DEF Start, Become, JobInv, JobTypeOK
  <2>. QED BY <1>2, <2>1, QuietSteps DEF Start
<1>3. ASSUME NEW w \in Workers, LoseFence(w) \/ FailStep(w)
      PROVE  UNCHANGED <<submits, ops, hold>> /\ \A v \in Workers : Quiet(v)
  <2>1. \A v \in Workers : \/ workers'[v] = workers[v] \/ workers'[v] = Fenced(workers[v])
                           \/ workers'[v].phase = "idle"
    BY <1>3 DEF LoseFence, FailStep, Become, JobInv, JobTypeOK, Idle
  <2>. QED BY <1>3, <2>1, QuietSteps DEF LoseFence, FailStep
<1>. QED BY <1>1, <1>2, <1>3 DEF Runtime

\* A new event of an operation that has a reference.
LEMMA ApplyVerifiedAdvance ==
    ASSUME JobInv, NEW o \in Operations, NEW id \in ProviderEvents, NEW said \in Reports,
           ApplyVerified(o, id, said), ops[o].ref, NEW x \in Operations
    PROVE  Advance(x)
<1>1. ops[o].status \in UNCERTAIN \cup TERMINAL
  BY DEF JobInv, JobTypeOK, Operation, CallInv, ReferencesAreSubmitted
<1>2. \/ UNCHANGED ops
      \/ /\ ops[o].status \notin TERMINAL
         /\ \/ \E status \in {"pending", "unknown"} : ops' = [ops EXCEPT ![o].status = status]
            \/ ops' = [ops EXCEPT ![o].status = "answered", ![o].proven = TRUE, ![o].cost = said.cost]
  BY DEF ApplyVerified, Ignored, Progress, Doubt, Answer
<1>3. CASE UNCHANGED ops \/ x # o
  BY <1>2, <1>3 DEF JobInv, JobTypeOK, Advance
<1>4. CASE ops[o].status \notin TERMINAL /\ x = o
  <2>1. ops[o] \in Operation
    BY DEF JobInv, JobTypeOK
  <2>2. ops[o].status \in UNCERTAIN
    BY <1>1, <1>4
  <2>3. \/ ops'[o] = ops[o]
        \/ \E status \in {"pending", "unknown"} : ops'[o] = [ops[o] EXCEPT !.status = status]
        \/ ops'[o] = [ops[o] EXCEPT !.status = "answered", !.proven = TRUE, !.cost = said.cost]
    BY <1>2 DEF JobInv, JobTypeOK
  <2>4. \/ ops'[o] = ops[o]
        \/ ops'[o].status \in {"pending", "unknown", "answered"} /\ ops'[o].ref = ops[o].ref
    BY <2>1, <2>3 DEF Operation
  <2>. QED BY <1>4, <2>2, <2>4 DEF Advance
<1>. QED BY <1>2, <1>3, <1>4

\* Status polls and callbacks.
LEMMA EvidenceQuiet ==
    ASSUME JobInv,
           \/ Provider
           \/ \E w \in Workers :
                \/ ReadOperation(w) \/ PollUnknown(w) \/ PollOpen(w)
                \/ \E id \in ProviderEvents, said \in Reports : PollAnswered(w, id, said)
    PROVE  /\ UNCHANGED submits
           /\ \A o \in Operations : Advance(o)
           /\ \A v \in Workers : Quiet(v)
<1>1. CASE Provider
  <2>1. PICK o \in Operations, id \in ProviderEvents, said \in Reports : Callback(o, id, said)
    BY <1>1 DEF Provider
  <2>2. \A x \in Operations : Advance(x)
    BY <2>1, ApplyVerifiedAdvance DEF Callback
  <2>. QED BY <2>1, <2>2, QuietSteps DEF Callback
<1>2. ASSUME NEW w \in Workers, ReadOperation(w)
      PROVE  UNCHANGED <<submits, ops>> /\ \A v \in Workers : Quiet(v)
  <2>1. workers[w] \in Worker
    BY <1>2, WorkerFacts DEF JobInv, ReadOperation, Idle
  <2>2. \/ Become(w, Idle)
        \/ /\ Become(w, [workers[w] EXCEPT !.phase = "status"])
           /\ workers[w].row # Lookup /\ ops[Subject(workers[w].row)].ref
    BY <1>2 DEF ReadOperation, CloseRow, Leave
  <2>3. \A v \in Workers : \/ workers'[v] = workers[v]
                           \/ workers'[v].phase = "idle"
                           \/ /\ v = w /\ workers'[v].phase = "status"
                              /\ workers'[v].row = workers[w].row
                              /\ workers[w].row # Lookup /\ ops[Subject(workers[w].row)].ref
    BY <2>1, <2>2 DEF Become, JobInv, JobTypeOK, Idle, Worker
  <2>4. \A v \in Workers : Quiet(v)
    BY <2>3, QuietSteps DEF Quiet, Calling
  <2>. QED BY <1>2, <2>4 DEF ReadOperation
<1>3. ASSUME NEW w \in Workers,
             \/ PollUnknown(w) \/ PollOpen(w)
             \/ \E id \in ProviderEvents, said \in Reports : PollAnswered(w, id, said)
      PROVE  UNCHANGED submits /\ \A v \in Workers : Quiet(v)
  <2>1. \A v \in Workers : workers'[v] = workers[v] \/ workers'[v].phase = "idle"
    BY <1>3 DEF PollUnknown, PollOpen, PollAnswered, CloseRow, Leave, Become, JobInv, JobTypeOK, Idle
  <2>. QED BY <1>3, <2>1, QuietSteps DEF PollUnknown, PollOpen, PollAnswered
<1>4. ASSUME NEW w \in Workers, NEW id \in ProviderEvents, NEW said \in Reports, PollAnswered(w, id, said)
      PROVE  \A o \in Operations : Advance(o)
  <2>1. workers[w].phase = "status" /\ ApplyVerified(Subject(workers[w].row), id, said)
    BY <1>4 DEF PollAnswered
  <2>2. workers[w].row # Lookup /\ ops[Subject(workers[w].row)].ref
    BY <2>1 DEF JobInv, CallInv, PollsHaveAReference
  <2>3. Subject(workers[w].row) \in Operations
    BY <2>1, <2>2, RowFacts, WorkerFacts DEF JobInv, Idle
  <2>. QED BY <2>1, <2>2, <2>3, ApplyVerifiedAdvance
<1>5. ASSUME NEW w \in Workers, PollUnknown(w) \/ PollOpen(w)
      PROVE  UNCHANGED ops
  BY <1>5 DEF PollUnknown, PollOpen
<1>6. UNCHANGED ops => \A o \in Operations : Advance(o)
  BY DEF Advance
<1>. QED BY <1>1, <1>2, <1>3, <1>4, <1>5, <1>6

\* The user's cancellation and the administrator's request.
LEMMA UserQuiet ==
    ASSUME JobInv, CancelJob \/ QueueReconciliation
    PROVE  /\ UNCHANGED submits
           /\ \A o \in Operations : Advance(o)
           /\ \A v \in Workers : Quiet(v)
<1>1. UNCHANGED <<submits, workers>>
  BY DEF CancelJob, QueueReconciliation
<1>2. \A v \in Workers : Quiet(v)
  BY <1>1, QuietSteps
<1>3. CASE QueueReconciliation
  BY <1>1, <1>2, <1>3 DEF QueueReconciliation, Advance
<1>4. CASE CancelJob /\ ops' = Dropped(ops, Waiting(ops))
  <2>1. Waiting(ops) \in SUBSET Waiting(ops)
    OBVIOUS
  <2>. QED BY <1>1, <1>2, <1>4, <2>1, DroppedAdvance DEF JobInv
<1>5. CASE /\ All(ops, {"intent"})
           /\ ops' = [o \in Operations |-> [ops[o] EXCEPT !.status = "cancelled"]]
  <2>1. \A o \in Operations : /\ ops[o].status = "intent"
                              /\ ops'[o].status = "cancelled"
                              /\ ops'[o].ref = ops[o].ref
    BY <1>5 DEF JobInv, JobTypeOK, Operation, All
  <2>. QED BY <1>1, <1>2, <2>1 DEF Advance
<1>. QED BY <1>3, <1>4, <1>5 DEF CancelJob

\* Every step keeps the invariant, and takes each operation forward.
LEMMA NextCalls ==
    ASSUME JobInv, JobNext
    PROVE  JobInv' /\ \A o \in Operations : Advance(o)
<1>1. CASE Runtime \/ \E w \in Workers : LoseFence(w) \/ FailStep(w)
  <2>1. JobTypeOK'
    BY <1>1, RuntimeType, CallType DEF JobInv
  <2>2. \A o \in Operations : Advance(o)
    BY <1>1, RuntimeQuiet DEF Advance
  <2>. QED BY <1>1, <2>1, <2>2, RuntimeQuiet, QuietCalls DEF JobInv
<1>2. ASSUME NEW w \in Workers, Prepare(w)
      PROVE  JobInv' /\ \A o \in Operations : Advance(o)
  <2>1. JobTypeOK'
    BY <1>2, PrepareType DEF JobInv
  <2>2. CASE PrepareSubmit(w)
    BY <1>2, <2>1, <2>2, PrepareSubmitCalls DEF JobInv
  <2>3. CASE ~PrepareSubmit(w)
    BY <1>2, <2>1, <2>3, PrepareQuiet, QuietCalls DEF JobInv
  <2>. QED BY <2>2, <2>3
<1>3. ASSUME NEW w \in Workers, CallSubmit(w) \/ CallLate(w)
      PROVE  JobInv' /\ \A o \in Operations : Advance(o)
  <2>1. JobTypeOK'
    BY <1>3, CallType DEF JobInv
  <2>2. UNCHANGED ops
    BY <1>3 DEF CallSubmit, CallLate
  <2>. QED BY <1>3, <2>1, <2>2, CallCalls DEF JobInv, Advance
<1>4. ASSUME NEW w \in Workers, Finalize(w)
      PROVE  JobInv' /\ \A o \in Operations : Advance(o)
  BY <1>4, FinalizeType, FinalizeQuiet, QuietCalls DEF JobInv
<1>5. CASE \/ Provider
           \/ \E w \in Workers :
                \/ ReadOperation(w) \/ PollUnknown(w) \/ PollOpen(w)
                \/ \E id \in ProviderEvents, said \in Reports : PollAnswered(w, id, said)
  <2>1. \A w \in Workers, id \in ProviderEvents, said \in Reports :
          PollAnswered(w, id, said) => Subject(workers[w].row) \in Operations
    <3>. SUFFICES ASSUME NEW w \in Workers, workers[w].phase = "status"
                  PROVE  Subject(workers[w].row) \in Operations
      BY DEF PollAnswered
    <3>. QED BY RowFacts, WorkerFacts DEF JobInv, CallInv, PollsHaveAReference, Idle
  <2>2. JobTypeOK'
    BY <1>5, <2>1, EvidenceType DEF JobInv
  <2>. QED BY <1>5, <2>2, EvidenceQuiet, QuietCalls DEF JobInv
<1>6. CASE CancelJob \/ QueueReconciliation
  BY <1>6, UserType, UserQuiet, QuietCalls DEF JobInv
<1>. QED BY <1>1, <1>2, <1>3, <1>4, <1>5, <1>6 DEF JobNext, Process

----------------------------------------------------------------------------
(* The hold: it is given back once nothing can have been dispatched, and    *)
(* settled once every operation has its evidence.                           *)

\* What one step may do to the hold.
HoldMoves ==
    \/ UNCHANGED hold
    \/ hold'.state = "released" /\ Undispatched(ops')
    \/ Ready(ops') /\ hold' = SettledHold(ops')

\* Closing what still waits leaves an undispatched job undispatched.
LEMMA DroppedUndispatched ==
    ASSUME JobTypeOK, Undispatched(ops), NEW S, ops' = Dropped(ops, S)
    PROVE  Undispatched(ops')
BY DEF JobTypeOK, Operation, Undispatched, All, Dropped

\* No step moves the hold in any other way.
LEMMA NextMovesHold ==
    ASSUME JobInv, JobNext
    PROVE  HoldMoves
<1>1. hold \in Hold
  BY DEF JobInv, JobTypeOK
<1>2. CASE Runtime \/ \E w \in Workers : LoseFence(w) \/ FailStep(w)
  BY <1>2, RuntimeQuiet DEF HoldMoves
<1>3. ASSUME NEW w \in Workers, Prepare(w)
      PROVE  HoldMoves
  <2>1. CASE PrepareCancelled(w)
    <3>1. /\ ops' = Dropped(ops, Waiting(ops))
          /\ \/ UNCHANGED hold
             \/ Undispatched(ops) /\ hold' = [hold EXCEPT !.state = "released"]
      BY <2>1 DEF PrepareCancelled
    <3>. QED BY <1>1, <3>1, DroppedUndispatched DEF HoldMoves, Hold, JobInv
  <2>2. CASE PrepareDenied(w)
    <3>1. \/ Undispatched(ops') /\ hold' = [hold EXCEPT !.state = "released"]
          \/ Ready(ops') /\ hold' = SettledHold(ops')
          \/ UNCHANGED hold
      BY <2>2 DEF PrepareDenied
    <3>. QED BY <1>1, <3>1 DEF HoldMoves, Hold
  <2>3. CASE ~PrepareCancelled(w) /\ ~PrepareDenied(w)
    BY <1>3, <2>3 DEF Prepare, PrepareStale, PrepareBlocked, PrepareFinished,
                      PrepareBasisChanged, PrepareSubmit, HoldMoves
  <2>. QED BY <2>1, <2>2, <2>3
<1>4. ASSUME NEW w \in Workers, CallSubmit(w) \/ CallLate(w) \/ Finalize(w)
      PROVE  HoldMoves
  BY <1>4 DEF CallSubmit, CallLate, Finalize, HoldMoves
<1>5. ASSUME NEW o, NEW id \in ProviderEvents, NEW said \in Reports, ApplyVerified(o, id, said)
      PROVE  HoldMoves
  BY <1>5 DEF ApplyVerified, Ignored, Progress, Doubt, Answer, HoldMoves
<1>6. CASE Provider
  BY <1>5, <1>6 DEF Provider, Callback
<1>7. ASSUME NEW w \in Workers,
             \/ ReadOperation(w) \/ PollUnknown(w) \/ PollOpen(w)
             \/ \E id \in ProviderEvents, said \in Reports : PollAnswered(w, id, said)
      PROVE  HoldMoves
  BY <1>5, <1>7 DEF ReadOperation, PollUnknown, PollOpen, PollAnswered, HoldMoves
<1>8. CASE CancelJob
  <2>1. \/ /\ hold' = [hold EXCEPT !.state = "released"]
           /\ ops' = [o \in Operations |-> [ops[o] EXCEPT !.status = "cancelled"]]
        \/ Ready(ops') /\ hold' = SettledHold(ops')
        \/ UNCHANGED hold
    BY <1>8 DEF CancelJob
  <2>2. ops' = [o \in Operations |-> [ops[o] EXCEPT !.status = "cancelled"]] => Undispatched(ops')
    BY DEF JobInv, JobTypeOK, Operation, Undispatched, All
  <2>. QED BY <1>1, <2>1, <2>2 DEF HoldMoves, Hold
<1>9. CASE QueueReconciliation
  BY <1>9 DEF QueueReconciliation, HoldMoves
<1>. QED BY <1>2, <1>3, <1>4, <1>6, <1>7, <1>8, <1>9 DEF JobNext, Process

\* A provider call is made for nothing that waits or was cancelled.
LEMMA UndispatchedIsQuiet ==
    ASSUME JobInv, JobNext, NEW o \in Operations, ops[o].status \in {"intent", "cancelled"}
    PROVE  submits'[o] = submits[o]
<1>1. ASSUME NEW w \in Workers, CallSubmit(w) \/ CallLate(w)
      PROVE  submits'[o] = submits[o]
  <2>1. workers[w].op # o
    BY <1>1 DEF JobInv, CallInv, CallsAreFirst, Calling, CallSubmit, CallLate
  <2>. QED BY <1>1, <2>1 DEF JobInv, JobTypeOK, CallSubmit, CallLate
<1>2. ASSUME NEW w \in Workers, Prepare(w)
      PROVE  UNCHANGED submits
  BY <1>2 DEF Prepare
<1>3. ASSUME NEW w \in Workers, Finalize(w)
      PROVE  UNCHANGED submits
  BY <1>3 DEF Finalize
<1>4. CASE Runtime \/ \E w \in Workers : LoseFence(w) \/ FailStep(w)
  BY <1>4, RuntimeQuiet
<1>5. CASE \/ Provider
           \/ \E w \in Workers :
                \/ ReadOperation(w) \/ PollUnknown(w) \/ PollOpen(w)
                \/ \E id \in ProviderEvents, said \in Reports : PollAnswered(w, id, said)
  BY <1>5, EvidenceQuiet
<1>6. CASE CancelJob \/ QueueReconciliation
  BY <1>6, UserQuiet
<1>. QED BY <1>1, <1>2, <1>3, <1>4, <1>5, <1>6 DEF JobNext, Process

\* The hold outlives every doubt, whatever step is taken.
LEMMA NextHold ==
    ASSUME JobInv, HoldCoversDoubt, JobNext
    PROVE  HoldCoversDoubt'
<1>1. HoldMoves
  BY NextMovesHold
<1>2. JobInv' /\ \A o \in Operations : Advance(o)
  BY NextCalls
<1>3. CASE UNCHANGED hold
  <2>1. ASSUME hold.state = "released", NEW o \in Operations
        PROVE  submits'[o] = 0 /\ ops'[o].status \in {"intent", "cancelled"}
    <3>1. submits[o] = 0 /\ ops[o].status \in {"intent", "cancelled"}
      BY <2>1 DEF HoldCoversDoubt
    <3>2. ops'[o].status \in {"intent", "cancelled"}
      BY <1>2, <2>1, <3>1 DEF Advance, UNCERTAIN
    <3>. QED BY <3>1, <3>2, UndispatchedIsQuiet
  <2>2. ASSUME hold.state = "settled"
        PROVE  UNCHANGED ops
    <3>1. \A o \in Operations : ops[o].status \in TERMINAL
      BY <2>2 DEF HoldCoversDoubt
    <3>2. \A o \in Operations : ops'[o] = ops[o]
      BY <1>2, <3>1 DEF Advance, TERMINAL, UNCERTAIN
    <3>. QED BY <1>2, <3>2 DEF JobInv, JobTypeOK
  <2>. QED BY <1>3, <2>1, <2>2 DEF HoldCoversDoubt, Proved
<1>4. CASE hold'.state = "released" /\ Undispatched(ops')
  <2>1. \A o \in Operations : submits'[o] = 0 /\ ops'[o].status \in {"intent", "cancelled"}
    BY <1>2, <1>4 DEF JobInv, CallInv, SubmittedOnce, Undispatched, All
  <2>. QED BY <1>4, <2>1 DEF HoldCoversDoubt
<1>5. CASE Ready(ops') /\ hold' = SettledHold(ops')
  <2>1. hold'.state = "settled" /\ hold'.charged = Proved(ops')
    BY <1>5 DEF SettledHold
  <2>. QED BY <1>5, <2>1 DEF Ready, HoldCoversDoubt
<1>. QED BY <1>1, <1>3, <1>4, <1>5 DEF HoldMoves

----------------------------------------------------------------------------
(* The theorems.                                                           *)

\* A confirmed job starts typed, with nothing submitted and its hold active.
LEMMA InitJob == JobInit => JobInv /\ HoldCoversDoubt
<1>. SUFFICES ASSUME JobInit PROVE JobInv /\ HoldCoversDoubt
  OBVIOUS
<1>1. JobTypeOK
  <2>1. [status |-> "intent", ref |-> FALSE, proven |-> FALSE, cost |-> 0] \in Operation
    <3>1. 0 \in 0 .. MaxCost
      BY JobAssumption
    <3>. QED BY <3>1 DEF Operation
  <2>2. job \in Job /\ hold \in Hold
    BY DEF JobInit, Job, JobStates, Hold
  <2>3. outbox \in [Rows -> Row]
    BY DEF JobInit, Row, Steps
  <2>. QED BY <2>1, <2>2, <2>3 DEF JobInit, JobTypeOK
<1>2. CallInv
  BY DEF JobInit, Idle, CallInv, ReferencesAreSubmitted, CallersNameAnOperation, CallsAreFirst,
         CallersAreAlone, PollsHaveAReference, SubmittedOnce, Calling
<1>3. HoldCoversDoubt
  BY DEF JobInit, HoldCoversDoubt
<1>. QED BY <1>1, <1>2, <1>3 DEF JobInv

\* Standing still keeps what was established.
LEMMA StandingStill ==
    ASSUME JobInv, HoldCoversDoubt, UNCHANGED jobVars
    PROVE  JobInv' /\ HoldCoversDoubt'
<1>1. JobTypeOK'
  BY DEF JobInv, JobTypeOK, jobVars
<1>2. CallInv'
  BY DEF JobInv, CallInv, ReferencesAreSubmitted, CallersNameAnOperation, CallsAreFirst,
         CallersAreAlone, PollsHaveAReference, SubmittedOnce, jobVars
<1>. QED BY <1>1, <1>2 DEF JobInv, HoldCoversDoubt, Proved, jobVars

\* The inductive invariant of the job.
LEMMA JobInvariant == JobSpec => [](JobInv /\ HoldCoversDoubt)
<1>1. JobInv /\ HoldCoversDoubt /\ [JobNext]_jobVars => (JobInv /\ HoldCoversDoubt)'
  BY NextCalls, NextHold, StandingStill
<1>. QED BY <1>1, InitJob, PTL DEF JobSpec

\* Every row, operation, hold and process of a contact job is well formed in
\* every reachable state.
THEOREM JobTypeCorrect == JobSpec => []JobTypeOK
<1>1. JobInv => JobTypeOK
  BY DEF JobInv
<1>. QED BY <1>1, JobInvariant, PTL

\* No buyer's operation is submitted to the provider twice, and none that still
\* waits or was cancelled was submitted at all: through duplicate deliveries,
\* lost fences, recovery and cancellation, the provider is paid at most once.
THEOREM EveryOperationIsSubmittedOnce == JobSpec => []SubmittedOnce
<1>1. JobInv => SubmittedOnce
  BY DEF JobInv, CallInv
<1>. QED BY <1>1, JobInvariant, PTL

\* The hold is given back only when no operation was or will be submitted, and
\* settled only with evidence for every operation, for exactly their sum.
THEOREM HoldOutlivesDoubt == JobSpec => []HoldCoversDoubt
BY JobInvariant, PTL

\* An authoritative answer and its cost are never changed again by a poll, a
\* callback, a worker or a cancellation.
THEOREM AnswersStayFinal == JobSpec => AnswersAreFinal
<1>1. JobInv /\ [JobNext]_jobVars
        => [\A o \in Operations : ops[o].status \in TERMINAL => ops'[o] = ops[o]]_jobVars
  <2>. SUFFICES ASSUME JobInv, JobNext
                PROVE  \A o \in Operations : ops[o].status \in TERMINAL => ops'[o] = ops[o]
    OBVIOUS
  <2>. QED BY NextCalls DEF Advance, TERMINAL, UNCERTAIN
<1>. QED BY <1>1, JobInvariant, PTL DEF JobSpec, AnswersAreFinal
====
