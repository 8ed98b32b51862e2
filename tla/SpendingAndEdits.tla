---- MODULE SpendingAndEdits ----
(***************************************************************************)
(* The components of MCRecords that spend money or write and report edits, *)
(* each followed by the lemmas that the theorems of MCRecords rest on.     *)
(***************************************************************************)
EXTENDS Naturals, Sequences, FiniteSets, FiniteSetTheorems, TLAPS

CONSTANTS ChargeKeys, Amounts, MonthlyLimit, MaxOperations, MaxPilotVersion,
          LastMonth   \* of PilotBudget
CONSTANTS EditTabs, EditSessions, MaxEdits   \* of LeadIntents
CONSTANTS QuoteWorkspaces, MaxQuotes, MaxLookups, MaxQuoteChanges   \* of ContactQuotes
CONSTANTS ConnectionSets, AssignedProjects, Admins, Callers,
          MaxConnectionVersion, MaxMishaps   \* of XverumConnection
CONSTANTS Sittings, MaxBuyerVersion, MaxConfirmed, MaxTableMoves   \* of BuyerResults
CONSTANTS MaxManifests, MaxRowVersion, MaxRequests, MaxPanelMoves, MaxUpsets   \* of ManifestScreen

----------------------------------------------------------------------------
\* The pilot's monthly cap, and what the theorem about spending rests on.

VARIABLES month, pilot, native, events, reconciliations, page
pilotVars == <<month, pilot, native, events, reconciliations, page>>

Pilot == INSTANCE PilotBudget WITH
    Limit <- MonthlyLimit, MaxVersion <- MaxPilotVersion

\* A sequence of whatever there is.
IsSeq(s) == \E S : s \in Seq(S)

LEMMA IsAppended ==
    ASSUME NEW s, IsSeq(s), NEW e
    PROVE  /\ IsSeq(Append(s, e)) /\ Len(s) \in Nat /\ DOMAIN s = 1..Len(s)
           /\ Len(Append(s, e)) = Len(s) + 1 /\ DOMAIN Append(s, e) = 1..(Len(s) + 1)
           /\ Append(s, e)[Len(s) + 1] = e
           /\ \A i \in DOMAIN s : Append(s, e)[i] = s[i]
<1>1. PICK S : s \in Seq(S)
  BY DEF IsSeq
<1>2. PICK T : T = S \cup {e}
  OBVIOUS
<1>3. s \in Seq(T) /\ e \in T
  BY <1>1, <1>2
<1>4. Append(s, e) \in Seq(T)
  BY <1>3
<1> QED BY <1>3, <1>4 DEF IsSeq

LEMMA IsReplaced ==
    ASSUME NEW s, IsSeq(s), NEW i \in DOMAIN s, NEW e
    PROVE  /\ IsSeq([s EXCEPT ![i] = e]) /\ Len([s EXCEPT ![i] = e]) = Len(s)
           /\ DOMAIN [s EXCEPT ![i] = e] = DOMAIN s
           /\ \A j \in DOMAIN s : [s EXCEPT ![i] = e][j] = IF j = i THEN e ELSE s[j]
<1>1. PICK S : s \in Seq(S)
  BY DEF IsSeq
<1>2. PICK T : T = S \cup {e}
  OBVIOUS
<1>3. s \in Seq(T) /\ e \in T
  BY <1>1, <1>2
<1>4. [s EXCEPT ![i] = e] \in Seq(T)
  BY <1>3
<1> QED BY <1>3, <1>4 DEF IsSeq

\* Sums over finite sets: the table of sums that SumFunctionOnSet chooses, and
\* what it returns, shown by a smallest set for which it would not hold.

\* The element that the recursion takes out of a set first.
Pick(s) == CHOOSE x \in s : TRUE

\* The equation whose solution is the table of the sums of all subsets of S.
SumEquation(f, S, g) ==
    g = [s \in SUBSET S |-> IF s = {} THEN 0 ELSE f[Pick(s)] + g[s \ {Pick(s)}]]

\* The community module's definition, unfolded.
LEMMA SumIsRecursive ==
    ASSUME NEW f, NEW S
    PROVE  Pilot!SumFunctionOnSet(f, S) = (CHOOSE g : SumEquation(f, S, g))[S]
BY DEF Pilot!SumFunctionOnSet, Pilot!FoldFunctionOnSet, Pilot!MapThenFoldSet, SumEquation, Pick

\* A finite set of counterexamples has a smallest one.
LEMMA SmallestFinite ==
    ASSUME NEW S, IsFiniteSet(S), NEW Bad \in SUBSET (SUBSET S), Bad # {}
    PROVE  \E T \in Bad : \A U \in SUBSET T : U # T => U \notin Bad
<1>1. IsWellFoundedOn(StrictSubsetOrdering(S), SUBSET S)
  BY FS_StrictSubsetOrderingWellFounded, FS_FiniteSubsetsOfFinite
<1>2. PICK T \in Bad : \A U \in Bad : ~ (<<U, T>> \in StrictSubsetOrdering(S))
  <2> HIDE DEF StrictSubsetOrdering
  <2> QED BY <1>1, WFMin
<1>3. ASSUME NEW U \in SUBSET T, U # T PROVE U \notin Bad
  BY <1>2, <1>3 DEF StrictSubsetOrdering
<1> QED BY <1>3

\* A set that is not empty has a first element.
LEMMA PickIn == ASSUME NEW s, s # {} PROVE Pick(s) \in s
BY DEF Pick

\* The sum of a finite set is the value of its first element and the sum of the others.
LEMMA SumUnfold ==
    ASSUME NEW f, NEW S, IsFiniteSet(S)
    PROVE  Pilot!SumFunctionOnSet(f, S) =
             IF S = {} THEN 0 ELSE f[Pick(S)] + Pilot!SumFunctionOnSet(f, S \ {Pick(S)})
<1> DEFINE Sum(s) == Pilot!SumFunctionOnSet(f, s)
           Step(s) == IF s = {} THEN 0 ELSE f[Pick(s)] + Sum(s \ {Pick(s)})
           Bad == {s \in SUBSET S : Sum(s) # Step(s)}
<1> SUFFICES ASSUME Bad # {} PROVE FALSE
  OBVIOUS
<1>1. PICK T \in Bad : \A U \in SUBSET T : U # T => U \notin Bad
  <2> HIDE DEF Bad
  <2>1. Bad \in SUBSET (SUBSET S)  BY DEF Bad
  <2> QED BY <2>1, SmallestFinite
<1>2. \A U \in SUBSET T : U # T => Sum(U) = Step(U)
  BY <1>1
<1> DEFINE h == [s \in SUBSET T |-> Step(s)]
<1>3. SumEquation(f, T, h)
  <2>1. ASSUME NEW s \in SUBSET T, s # {}
        PROVE  h[s] = f[Pick(s)] + h[s \ {Pick(s)}]
    <3>1. Pick(s) \in s  BY <2>1, PickIn
    <3>2. s \ {Pick(s)} \in SUBSET T /\ s \ {Pick(s)} # T  BY <3>1
    <3>3. h[s \ {Pick(s)}] = Sum(s \ {Pick(s)})
      <4> HIDE DEF Sum, Step
      <4> QED BY <3>2, <1>2
    <3> QED BY <3>3, <2>1
  <2>2. h[{}] = 0  OBVIOUS
  <2>3. h = [s \in SUBSET T |-> IF s = {} THEN 0 ELSE f[Pick(s)] + h[s \ {Pick(s)}]]
    <3>1. \A s \in SUBSET T : h[s] = IF s = {} THEN 0 ELSE f[Pick(s)] + h[s \ {Pick(s)}]
      BY <2>1, <2>2
    <3>2. h = [s \in SUBSET T |-> h[s]]  OBVIOUS
    <3> HIDE DEF h
    <3> QED BY <3>1, <3>2
  <2> HIDE DEF h
  <2> QED BY <2>3 DEF SumEquation
<1> DEFINE G == CHOOSE g : SumEquation(f, T, g)
<1>4. SumEquation(f, T, G)
  <2> HIDE DEF h, SumEquation
  <2> QED BY <1>3
<1>5. \A s \in SUBSET T : G[s] = IF s = {} THEN 0 ELSE f[Pick(s)] + G[s \ {Pick(s)}]
  <2> HIDE DEF G
  <2> QED BY <1>4 DEF SumEquation
<1>6. \A s \in SUBSET T : s # T => G[s] = Sum(s)
  <2> DEFINE Off == {s \in SUBSET T : s # T /\ G[s] # Sum(s)}
  <2> SUFFICES ASSUME Off # {} PROVE FALSE
    OBVIOUS
  <2> HIDE DEF G
  <2>1. PICK U \in Off : \A V \in SUBSET U : V # U => V \notin Off
    <3> HIDE DEF Off
    <3>1. Off \in SUBSET (SUBSET S)  BY DEF Off
    <3> QED BY <3>1, SmallestFinite
  <2> HIDE DEF Sum
  <2>2. CASE U = {}
    BY <2>2, <1>2, <1>5, <2>1
  <2>3. CASE U # {}
    <3>1. Pick(U) \in U  BY <2>3, PickIn
    <3>2. U \ {Pick(U)} \in SUBSET U /\ U \ {Pick(U)} # U /\ U \ {Pick(U)} # T BY <3>1, <2>1
    <3>3. G[U \ {Pick(U)}] = Sum(U \ {Pick(U)})  BY <3>2, <2>1
    <3> QED BY <3>3, <2>3, <1>2, <1>5, <2>1
  <2> QED BY <2>2, <2>3
<1>7. Sum(T) = G[T]
  BY SumIsRecursive
<1>8. Sum(T) = Step(T)
  <2> HIDE DEF G, Sum
  <2>1. CASE T = {}
    BY <2>1, <1>5, <1>7
  <2>2. CASE T # {}
    <3>1. Pick(T) \in T  BY <2>2, PickIn
    <3>2. G[T \ {Pick(T)}] = Sum(T \ {Pick(T)})  BY <3>1, <1>6
    <3> QED BY <3>2, <2>2, <1>5, <1>7
  <2> QED BY <2>1, <2>2
<1> QED BY <1>8, <1>1

\* The empty sum.
LEMMA SumOfNone == ASSUME NEW f PROVE Pilot!SumFunctionOnSet(f, {}) = 0
BY SumUnfold, FS_EmptySet

\* A sum of integers is an integer.
LEMMA SumIsInt ==
    ASSUME NEW f, NEW S, IsFiniteSet(S), \A x \in S : f[x] \in Int
    PROVE  Pilot!SumFunctionOnSet(f, S) \in Int
<1> DEFINE Sum(s) == Pilot!SumFunctionOnSet(f, s)
           Bad == {s \in SUBSET S : Sum(s) \notin Int}
<1> SUFFICES ASSUME Bad # {} PROVE FALSE
  OBVIOUS
<1>1. PICK T \in Bad : \A U \in SUBSET T : U # T => U \notin Bad
  <2> HIDE DEF Bad
  <2>1. Bad \in SUBSET (SUBSET S)  BY DEF Bad
  <2> QED BY <2>1, SmallestFinite
<1>2. IsFiniteSet(T)  BY FS_Subset
<1>3. Sum(T) = IF T = {} THEN 0 ELSE f[Pick(T)] + Sum(T \ {Pick(T)})
  BY <1>2, SumUnfold
<1> HIDE DEF Sum
<1>4. CASE T = {}
  BY <1>4, <1>3, <1>1
<1>5. CASE T # {}
  <2>1. Pick(T) \in T  BY <1>5, PickIn
  <2>2. Sum(T \ {Pick(T)}) \in Int  BY <2>1, <1>1
  <2>3. f[Pick(T)] \in Int  BY <2>1, <1>1
  <2> QED BY <2>2, <2>3, <1>5, <1>3, <1>1
<1> QED BY <1>4, <1>5

\* Any element may be taken out of a sum.
LEMMA SumWithout ==
    ASSUME NEW f, NEW S, IsFiniteSet(S), \A x \in S : f[x] \in Int, NEW e \in S
    PROVE  Pilot!SumFunctionOnSet(f, S) = f[e] + Pilot!SumFunctionOnSet(f, S \ {e})
<1> DEFINE Sum(s) == Pilot!SumFunctionOnSet(f, s)
           Bad == {s \in SUBSET S : \E x \in s : Sum(s) # f[x] + Sum(s \ {x})}
<1> SUFFICES ASSUME Bad # {} PROVE FALSE
  OBVIOUS
<1>1. PICK T \in Bad : \A U \in SUBSET T : U # T => U \notin Bad
  <2> HIDE DEF Bad
  <2>1. Bad \in SUBSET (SUBSET S)  BY DEF Bad
  <2> QED BY <2>1, SmallestFinite
<1>2. PICK x \in T : Sum(T) # f[x] + Sum(T \ {x})
  BY <1>1
<1>3. \A U \in SUBSET T : IsFiniteSet(U) /\ Sum(U) \in Int
  BY FS_Subset, SumIsInt
<1> DEFINE c == Pick(T)
<1>4. c \in T /\ Sum(T) = f[c] + Sum(T \ {c})
  BY <1>2, <1>3, SumUnfold, PickIn
<1>5. c # x
  BY <1>2, <1>4
<1>6. \A U \in SUBSET T : U # T => \A y \in U : Sum(U) = f[y] + Sum(U \ {y})
  BY <1>1
<1> HIDE DEF Sum, c
<1>7. Sum(T \ {c}) = f[x] + Sum((T \ {c}) \ {x})
  BY <1>4, <1>5, <1>6
<1>8. Sum(T \ {x}) = f[c] + Sum((T \ {x}) \ {c})
  BY <1>4, <1>5, <1>6
<1>9. (T \ {c}) \ {x} = (T \ {x}) \ {c}
  OBVIOUS
<1>10. f[x] \in Int /\ f[c] \in Int /\ Sum((T \ {x}) \ {c}) \in Int
  BY <1>3, <1>4
<1>11. Sum(T) = f[c] + (f[x] + Sum((T \ {x}) \ {c}))
  BY <1>4, <1>7, <1>9
<1> HIDE DEF Bad
<1>12. Sum(T) = f[x] + Sum(T \ {x})
  BY <1>10, <1>11, <1>8
<1> QED BY <1>12, <1>2

\* A function that adds up two others and a single amount.
Splits(h, S, f, A, g, B, e, v) ==
    /\ A \subseteq S /\ B \subseteq S /\ v \in Int
    /\ \A x \in A : f[x] \in Int
    /\ \A x \in B : g[x] \in Int
    /\ \A x \in S : h[x] = (IF x \in A THEN f[x] ELSE 0) + (IF x \in B THEN g[x] ELSE 0) + (IF x = e THEN v ELSE 0)

LEMMA SumSplits ==
    ASSUME NEW f, NEW g, NEW h, NEW S, IsFiniteSet(S), NEW A, NEW B, NEW e, NEW v, Splits(h, S, f, A, g, B, e, v)
    PROVE  Pilot!SumFunctionOnSet(h, S) =
             Pilot!SumFunctionOnSet(f, A) + Pilot!SumFunctionOnSet(g, B) + (IF e \in S THEN v ELSE 0)
<1>0. /\ A \subseteq S /\ B \subseteq S /\ v \in Int
      /\ \A x \in A : f[x] \in Int
      /\ \A x \in B : g[x] \in Int
      /\ \A x \in S : h[x] = (IF x \in A THEN f[x] ELSE 0) + (IF x \in B THEN g[x] ELSE 0) + (IF x = e THEN v ELSE 0)
  BY DEF Splits
<1> DEFINE F(s) == Pilot!SumFunctionOnSet(f, A \cap s)
           G(s) == Pilot!SumFunctionOnSet(g, B \cap s)
           H(s) == Pilot!SumFunctionOnSet(h, s)
           V(s) == IF e \in s THEN v ELSE 0
           Bad == {s \in SUBSET S : H(s) # F(s) + G(s) + V(s)}
<1>1. ASSUME NEW T \in Bad, \A U \in SUBSET T : U # T => U \notin Bad PROVE FALSE
  <2>1. IsFiniteSet(T) /\ IsFiniteSet(A \cap T) /\ IsFiniteSet(B \cap T) /\ T \subseteq S
    BY <1>1, FS_Subset
  <2>2. CASE T = {}
    <3>1. A \cap T = {} /\ B \cap T = {}
      BY <2>2
    <3>2. H(T) = 0 /\ F(T) = 0 /\ G(T) = 0 /\ V(T) = 0
      BY <2>2, <3>1, SumOfNone
    <3> HIDE DEF F, G, H, V
    <3> QED BY <1>1, <3>2
  <2>3. CASE T # {}
    <3>1. PICK p \in T : H(T) = h[p] + H(T \ {p})
      BY <2>1, <2>3, SumUnfold, PickIn
    <3>2. PICK U : U = T \ {p}
      OBVIOUS
    <3>3. H(U) = F(U) + G(U) + V(U)
      BY <1>1, <3>1, <3>2
    <3>4. F(T) = (IF p \in A THEN f[p] ELSE 0) + F(U)
      <4>1. CASE p \in A
        <5>1. (A \cap T) \ {p} = A \cap U
          BY <3>2
        <5>2. F(T) = f[p] + Pilot!SumFunctionOnSet(f, (A \cap T) \ {p})
          BY <1>0, <2>1, <3>1, <4>1, SumWithout
        <5> HIDE DEF Bad
        <5> QED BY <4>1, <5>1, <5>2
      <4>2. CASE p \notin A
        <5>1. A \cap T = A \cap U
          BY <3>2, <4>2
        <5>2. F(U) \in Int
          BY <1>0, <2>1, <5>1, SumIsInt
        <5>3. F(T) = F(U)
          BY <5>1
        <5> HIDE DEF F, Bad
        <5> QED BY <4>2, <5>2, <5>3
      <4> QED BY <4>1, <4>2
    <3>5. G(T) = (IF p \in B THEN g[p] ELSE 0) + G(U)
      <4>1. CASE p \in B
        <5>1. (B \cap T) \ {p} = B \cap U
          BY <3>2
        <5>2. G(T) = g[p] + Pilot!SumFunctionOnSet(g, (B \cap T) \ {p})
          BY <1>0, <2>1, <3>1, <4>1, SumWithout
        <5> HIDE DEF Bad
        <5> QED BY <4>1, <5>1, <5>2
      <4>2. CASE p \notin B
        <5>1. B \cap T = B \cap U
          BY <3>2, <4>2
        <5>2. G(U) \in Int
          BY <1>0, <2>1, <5>1, SumIsInt
        <5>3. G(T) = G(U)
          BY <5>1
        <5> HIDE DEF G, Bad
        <5> QED BY <4>2, <5>2, <5>3
      <4> QED BY <4>1, <4>2
    <3>6. V(T) = (IF p = e THEN v ELSE 0) + V(U)
      BY <1>0, <3>1, <3>2
    <3>7. F(U) \in Int /\ G(U) \in Int /\ V(U) \in Int
      <4>1. IsFiniteSet(A \cap U) /\ IsFiniteSet(B \cap U)
        BY <2>1, <3>2, FS_Subset
      <4>2. F(U) \in Int /\ G(U) \in Int
        BY <1>0, <4>1, SumIsInt
      <4> HIDE DEF F, G
      <4> QED BY <1>0, <4>2 DEF V
    <3>8. PICK a \in Int : a = IF p \in A THEN f[p] ELSE 0
      BY <1>0
    <3>9. PICK b \in Int : b = IF p \in B THEN g[p] ELSE 0
      BY <1>0
    <3>10. PICK c \in Int : c = IF p = e THEN v ELSE 0
      BY <1>0
    <3>11. h[p] = a + b + c
      BY <1>0, <2>1, <3>1, <3>8, <3>9, <3>10
    <3>12. H(T) # F(T) + G(T) + V(T)
      BY <1>1
    <3> HIDE DEF F, G, H, V, Bad
    <3> QED BY <3>1, <3>2, <3>3, <3>4, <3>5, <3>6, <3>7, <3>8, <3>9, <3>10, <3>11, <3>12
  <2> QED BY <2>2, <2>3
<1>2. Bad = {}
  <2> SUFFICES ASSUME Bad # {} PROVE FALSE
    OBVIOUS
  <2> HIDE DEF Bad
  <2>1. Bad \in SUBSET (SUBSET S)
    BY DEF Bad
  <2> QED BY <1>1, <2>1, SmallestFinite
<1>3. H(S) = F(S) + G(S) + V(S)
  <2> HIDE DEF F, G, H, V
  <2> QED BY <1>2 DEF Bad
<1>4. A \cap S = A /\ B \cap S = B
  BY <1>0
<1> QED BY <1>3, <1>4

\* Positions in a sequence have a last one.
LEMMA LastOf ==
    ASSUME NEW s, IsSeq(s), NEW R \in SUBSET DOMAIN s, R # {}
    PROVE  \E r \in R : \A q \in R : q <= r
<1> DEFINE Bad == {T \in SUBSET R : T # {} /\ ~ \E r \in T : \A q \in T : q <= r}
<1>1. Len(s) \in Nat /\ R \in SUBSET (1..Len(s)) /\ R \in SUBSET Int
  BY DEF IsSeq
<1>2. IsFiniteSet(R)
  BY <1>1, FS_Interval, FS_Subset
<1>3. ASSUME NEW T \in Bad, \A U \in SUBSET T : U # T => U \notin Bad PROVE FALSE
  <2>1. PICK x \in T : TRUE
    BY <1>3
  <2>2. PICK U : U = T \ {x}
    OBVIOUS
  <2>3. CASE U = {}
    BY <1>1, <1>3, <2>1, <2>2, <2>3
  <2>4. CASE U # {}
    <3>1. PICK m \in U : \A q \in U : q <= m
      BY <1>3, <2>1, <2>2, <2>4
    <3>2. \A q \in T : q = x \/ q \in U
      BY <2>2
    <3>3. T \subseteq Int
      BY <1>1, <1>3
    <3>4. CASE x <= m
      BY <1>3, <2>2, <3>1, <3>2, <3>4
    <3>5. CASE m <= x
      <4>1. \A q \in T : q <= x
        BY <2>1, <2>2, <3>1, <3>2, <3>3, <3>5
      <4> QED BY <1>3, <2>1, <4>1
    <3>6. x <= m \/ m <= x
      BY <2>1, <2>2, <3>1, <3>3
    <3> QED BY <3>4, <3>5, <3>6
  <2> QED BY <2>3, <2>4
<1>4. Bad = {}
  <2> SUFFICES ASSUME Bad # {} PROVE FALSE
    OBVIOUS
  <2> HIDE DEF Bad
  <2>1. Bad \in SUBSET (SUBSET R)
    BY DEF Bad
  <2> QED BY <1>2, <1>3, <2>1, SmallestFinite
<1> QED BY <1>4

\* Amounts are of money.
ASSUME PilotAssumption == Amounts \subseteq Nat

\* What is recorded has amounts.
PilotInv ==
    /\ IsSeq(native) /\ IsSeq(events) /\ IsSeq(reconciliations)
    /\ \A o \in DOMAIN native : /\ {"hold", "net"} \subseteq DOMAIN native[o]
                                /\ native[o].hold \in Nat /\ native[o].net \in Nat
    /\ \A e \in DOMAIN events : "value" \in DOMAIN events[e] /\ events[e].value \in Nat

LEMMA PilotStart == Pilot!PilotInit => PilotInv
<1>1. IsSeq(<< >>)
  <2>1. << >> \in Seq({})
    OBVIOUS
  <2> QED BY <2>1 DEF IsSeq
<1> QED BY <1>1 DEF Pilot!PilotInit, PilotInv

LEMMA CostKeeps ==
    ASSUME PilotAssumption, PilotInv,
           NEW key \in ChargeKeys, NEW operation, NEW state, NEW value \in Amounts \cup {Pilot!Undisclosed},
           Pilot!RecordCost(key, operation, state, value)
    PROVE  PilotInv' /\ UNCHANGED native
<1>1. PICK e : events' = Append(events, e) /\ "value" \in DOMAIN e /\ e.value = value
  <2>1. PICK period \in 1..month :
           events' = Append(events, [key |-> key, native |-> operation, period |-> period,
                 effective |-> IF state = "corrected" /\ Pilot!Chain(key) # {}
                               THEN events[Pilot!Previous(key)].effective ELSE state,
                 value |-> value, evidence |-> TRUE])
    BY DEF Pilot!RecordCost
  <2>2. PICK x : x = IF state = "corrected" /\ Pilot!Chain(key) # {} THEN events[Pilot!Previous(key)].effective ELSE state
    OBVIOUS
  <2>3. PICK e : e = [key |-> key, native |-> operation, period |-> period, effective |-> x, value |-> value, evidence |-> TRUE]
    OBVIOUS
  <2> QED BY <2>1, <2>2, <2>3
<1>2. value \in Nat
  BY DEF PilotAssumption, Pilot!Undisclosed
<1>3. IsSeq(events') /\ \A i \in DOMAIN events' : events'[i] = e \/ (i \in DOMAIN events /\ events'[i] = events[i])
  BY <1>1, IsAppended DEF PilotInv
<1>4. UNCHANGED <<native, reconciliations>>
  BY DEF Pilot!RecordCost
<1> QED BY <1>1, <1>2, <1>3, <1>4 DEF PilotInv

LEMMA EvidenceEnds == ASSUME PilotInv, Pilot!ExpireEvidence PROVE PilotInv' /\ UNCHANGED native
<1>1. UNCHANGED native
  BY DEF Pilot!ExpireEvidence
<1>2. CASE \E e \in DOMAIN events : events' = [events EXCEPT ![e].evidence = FALSE] /\ UNCHANGED reconciliations
  <2>1. PICK e \in DOMAIN events : events' = [events EXCEPT ![e].evidence = FALSE] /\ UNCHANGED reconciliations
    BY <1>2
  <2>2. PICK x : x = [events[e] EXCEPT !.evidence = FALSE]
    OBVIOUS
  <2>3. "value" \in DOMAIN x /\ x.value = events[e].value
    BY <2>2 DEF PilotInv
  <2>4. events' = [events EXCEPT ![e] = x]
    BY <2>1, <2>2
  <2>5. /\ IsSeq(events') /\ DOMAIN events' = DOMAIN events
        /\ \A i \in DOMAIN events : events'[i] = IF i = e THEN x ELSE events[i]
    BY <2>4, IsReplaced DEF PilotInv
  <2> QED BY <1>1, <2>1, <2>3, <2>5 DEF PilotInv
<1>3. CASE \E r \in DOMAIN reconciliations : reconciliations' = [reconciliations EXCEPT ![r].evidence = FALSE] /\ UNCHANGED events
  <2>1. PICK r \in DOMAIN reconciliations : reconciliations' = [reconciliations EXCEPT ![r].evidence = FALSE] /\ UNCHANGED events
    BY <1>3
  <2>2. PICK x : x = [reconciliations[r] EXCEPT !.evidence = FALSE]
    OBVIOUS
  <2>3. reconciliations' = [reconciliations EXCEPT ![r] = x]
    BY <2>1, <2>2
  <2>4. IsSeq(reconciliations')
    BY <2>3, IsReplaced DEF PilotInv
  <2> QED BY <1>1, <2>1, <2>4 DEF PilotInv
<1> QED BY <1>1, <1>2, <1>3 DEF Pilot!ExpireEvidence

LEMMA AdmissionKeeps == ASSUME PilotInv, NEW bound \in Nat, Pilot!Admit(bound) PROVE PilotInv'
<1>1. PICK r : r = [period |-> month, hold |-> bound, net |-> 0]
  OBVIOUS
<1>2. native' = Append(native, r) /\ UNCHANGED <<events, reconciliations>>
  BY <1>1 DEF Pilot!Admit
<1>3. {"hold", "net"} \subseteq DOMAIN r /\ r.hold \in Nat /\ r.net \in Nat
  BY <1>1
<1>4. IsSeq(native') /\ \A o \in DOMAIN native' : native'[o] = r \/ (o \in DOMAIN native /\ native'[o] = native[o])
  BY <1>2, IsAppended DEF PilotInv
<1> QED BY <1>2, <1>3, <1>4 DEF PilotInv

LEMMA SettlementKeeps ==
    ASSUME PilotAssumption, PilotInv, NEW o \in DOMAIN native, NEW amount \in Amounts \cup {0}, Pilot!Settle(o, amount)
    PROVE  PilotInv' /\ Len(native') = Len(native)
<1>1. PICK old : old = native[o]
  OBVIOUS
<1>2. PICK x : x = [old EXCEPT !.hold = 0, !.net = amount]
  OBVIOUS
<1>3. native' = [native EXCEPT ![o] = x] /\ UNCHANGED <<events, reconciliations>>
  BY <1>1, <1>2 DEF Pilot!Settle
<1>4. {"hold", "net"} \subseteq DOMAIN x /\ x.hold \in Nat /\ x.net \in Nat
  <2>1. "hold" \in DOMAIN old /\ "net" \in DOMAIN old /\ amount \in Nat
    BY <1>1 DEF PilotInv, PilotAssumption
  <2>2. DOMAIN x = DOMAIN old
    BY <1>2
  <2>3. x.hold = 0
    BY <1>2, <2>1
  <2>4. x.net = amount
    BY <1>2, <2>1
  <2> QED BY <2>1, <2>2, <2>3, <2>4
<1>5. /\ IsSeq(native') /\ Len(native') = Len(native) /\ DOMAIN native' = DOMAIN native
      /\ \A i \in DOMAIN native : native'[i] = IF i = o THEN x ELSE native[i]
  BY <1>3, IsReplaced DEF PilotInv
<1> QED BY <1>3, <1>4, <1>5 DEF PilotInv

\* Every step but an admission leaves the number of operations alone.
LEMMA PilotStep ==
    ASSUME PilotAssumption, PilotInv, [Pilot!PilotNext]_pilotVars
    PROVE  PilotInv' /\ (Len(native') = Len(native) \/ \E bound \in Amounts : Pilot!Admit(bound))
<1>1. CASE UNCHANGED <<native, events, reconciliations>>
  BY <1>1 DEF PilotInv
<1>2. CASE Pilot!ReadBudget \/ Pilot!SetPilotPolicy \/ Pilot!RecordCredits \/ Pilot!TurnMonth
  BY <1>1, <1>2 DEF Pilot!ReadBudget, Pilot!SetPilotPolicy, Pilot!RecordCredits, Pilot!TurnMonth
<1>3. CASE Pilot!ExpireEvidence
  BY <1>3, EvidenceEnds
<1>4. CASE \E key \in ChargeKeys, operation \in Pilot!TheOperations \cup {0},
              state \in {"committed", "settled", "unknown", "corrected"},
              value \in Amounts \cup {Pilot!Undisclosed} : Pilot!RecordCost(key, operation, state, value)
  <2>1. PICK key \in ChargeKeys, operation \in Pilot!TheOperations \cup {0},
              state \in {"committed", "settled", "unknown", "corrected"},
              value \in Amounts \cup {Pilot!Undisclosed} : Pilot!RecordCost(key, operation, state, value)
    BY <1>4
  <2> QED BY <2>1, CostKeeps
<1>5. CASE \E known \in BOOLEAN : Pilot!Reconcile(known)
  <2>1. PICK known \in BOOLEAN : Pilot!Reconcile(known)
    BY <1>5
  <2>2. UNCHANGED <<native, events>> /\ \E r : reconciliations' = Append(reconciliations, r)
    BY <2>1 DEF Pilot!Reconcile
  <2>3. IsSeq(reconciliations')
    BY <2>2, IsAppended DEF PilotInv
  <2> QED BY <2>2, <2>3 DEF PilotInv
<1>6. CASE \E bound \in Amounts : Pilot!Admit(bound)
  <2>1. PICK bound \in Amounts : Pilot!Admit(bound)
    BY <1>6
  <2>2. PilotInv'
    BY <2>1, AdmissionKeeps DEF PilotAssumption
  <2> QED BY <1>6, <2>2
<1>7. CASE \E o \in Pilot!TheOperations, amount \in Amounts \cup {0} : Pilot!Settle(o, amount)
  <2>1. PICK o \in DOMAIN native, amount \in Amounts \cup {0} : Pilot!Settle(o, amount)
    BY <1>7 DEF Pilot!TheOperations
  <2> QED BY <2>1, SettlementKeeps
<1> QED BY <1>1, <1>2, <1>3, <1>4, <1>5, <1>6, <1>7 DEF Pilot!PilotNext, pilotVars

\* What the month must bear after an admission is what _snapshot counted before
\* it and the bound of the operation.
LEMMA AdmissionIsBorne ==
    ASSUME PilotInv, NEW bound \in Nat, Pilot!Admit(bound)
    PROVE  Pilot!Borne' = Pilot!Committed + bound
<1>1. PICK n \in Nat : n = Len(native) /\ DOMAIN native = 1..n /\ IsFiniteSet(DOMAIN native)
  <2>1. IsSeq(native) /\ Len(native) \in Nat /\ DOMAIN native = 1..Len(native)
    BY IsAppended DEF PilotInv
  <2>2. IsFiniteSet(1..Len(native))
    BY <2>1, FS_Interval
  <2> QED BY <2>1, <2>2
<1>2. PICK r : r = [period |-> month, hold |-> bound, net |-> 0]
  OBVIOUS
<1>3. native' = Append(native, r) /\ UNCHANGED <<events, month>>
  BY <1>2 DEF Pilot!Admit
<1>4. /\ DOMAIN native' = 1..(n + 1) /\ native'[n + 1] = r /\ \A o \in DOMAIN native : native'[o] = native[o]
  BY <1>1, <1>3, IsAppended DEF PilotInv
<1>5. PICK own : own = [o \in DOMAIN native' |-> native'[o].hold + (IF native'[o].period = month THEN native'[o].net ELSE 0)]
  OBVIOUS
<1>6. PICK other : other = [e \in Pilot!External |-> IF events[e].effective # "settled" \/ events[e].period = month THEN events[e].value ELSE 0]
  OBVIOUS
<1>7. Pilot!External' = Pilot!External
  BY <1>3 DEF Pilot!External, Pilot!LatestEvents
<1>8. Pilot!Borne' = Pilot!SumFunctionOnSet(own, DOMAIN native') + Pilot!SumFunctionOnSet(other, Pilot!External)
  BY <1>3, <1>5, <1>6, <1>7 DEF Pilot!Borne, Pilot!TheOperations
<1>9. Pilot!SumFunctionOnSet(own, DOMAIN native') = Pilot!NativeHeld + Pilot!NativeSettled + bound
  <2>1. PICK A : A = DOMAIN native
    OBVIOUS
  <2>2. PICK B : B = {o \in Pilot!TheOperations : native[o].period = month}
    OBVIOUS
  <2>3. PICK S : S = DOMAIN native'
    OBVIOUS
  <2>0. PICK e \in Int : e = n + 1
    OBVIOUS
  <2>4. IsFiniteSet(S) /\ A \in SUBSET S /\ B \in SUBSET S /\ e \in S /\ e \notin A /\ e \notin B
    <3>1. IsFiniteSet(1..(n + 1))
      BY <1>1, FS_Interval
    <3> QED BY <1>1, <1>4, <2>0, <2>1, <2>2, <2>3, <3>1 DEF Pilot!TheOperations
  <2>5. PICK f : f = Pilot!Amount("hold")
    OBVIOUS
  <2>6. PICK g : g = Pilot!Amount("net")
    OBVIOUS
  <2>7. \A o \in A : f[o] = native[o].hold /\ g[o] = native[o].net /\ f[o] \in Int /\ g[o] \in Int
    BY <2>1, <2>5, <2>6 DEF Pilot!Amount, Pilot!TheOperations, PilotInv
  <2>8. ASSUME NEW x \in S
        PROVE  own[x] = (IF x \in A THEN f[x] ELSE 0) + (IF x \in B THEN g[x] ELSE 0) + (IF x = e THEN bound ELSE 0)
    <3>1. own[x] = native'[x].hold + (IF native'[x].period = month THEN native'[x].net ELSE 0)
      BY <1>5, <2>3
    <3>2. CASE x = e
      <4>1. native'[x].hold = bound /\ native'[x].net = 0
        BY <1>2, <1>4, <2>0, <3>2
      <4>2. own[x] = bound
        BY <3>1, <4>1
      <4>3. x \notin A /\ x \notin B
        BY <2>4, <3>2
      <4> QED BY <3>2, <4>2, <4>3
    <3>3. CASE x # e
      <4>1. x \in A /\ native'[x] = native[x]
        BY <1>1, <1>4, <2>0, <2>1, <2>3, <3>3
      <4>2. x \in B <=> native[x].period = month
        BY <2>1, <2>2, <4>1 DEF Pilot!TheOperations
      <4>3. own[x] = f[x] + (IF x \in B THEN g[x] ELSE 0)
        BY <2>7, <3>1, <4>1, <4>2
      <4>4. f[x] \in Int /\ g[x] \in Int
        BY <2>7, <4>1
      <4> QED BY <3>3, <4>1, <4>3, <4>4
    <3> QED BY <3>2, <3>3
  <2>9. B \subseteq A
    BY <2>1, <2>2 DEF Pilot!TheOperations
  <2>10. Pilot!SumFunctionOnSet(own, S) = Pilot!SumFunctionOnSet(f, A) + Pilot!SumFunctionOnSet(g, B) + (IF e \in S THEN bound ELSE 0)
    <3>1. \A x \in A : f[x] \in Int
      BY <2>7
    <3>2. \A x \in B : g[x] \in Int
      BY <2>7, <2>9
    <3>3. bound \in Int
      OBVIOUS
    <3>4. Splits(own, S, f, A, g, B, e, bound)
      BY <2>4, <2>8, <3>1, <3>2, <3>3 DEF Splits
    <3> QED BY <2>4, <3>4, SumSplits
  <2>11. Pilot!NativeHeld = Pilot!SumFunctionOnSet(f, A) /\ Pilot!NativeSettled = Pilot!SumFunctionOnSet(g, B)
    BY <2>1, <2>2, <2>5, <2>6 DEF Pilot!NativeHeld, Pilot!NativeSettled, Pilot!TheOperations
  <2> QED BY <2>3, <2>4, <2>10, <2>11
<1>10. Pilot!SumFunctionOnSet(other, Pilot!External) = Pilot!ExternalSettled + Pilot!ExternalHold
  <2>1. PICK A : A = {e \in Pilot!External : events[e].effective = "settled" /\ events[e].period = month}
    OBVIOUS
  <2>2. PICK B : B = {e \in Pilot!External : events[e].effective # "settled"}
    OBVIOUS
  <2>3. PICK f : f = Pilot!Value
    OBVIOUS
  <2>4. PICK S : S = Pilot!External
    OBVIOUS
  <2>5. IsFiniteSet(S) /\ S \subseteq DOMAIN events /\ A \in SUBSET S /\ B \in SUBSET S
    <3>1. DOMAIN events = 1..Len(events) /\ Len(events) \in Nat
      BY IsAppended DEF PilotInv
    <3>2. IsFiniteSet(DOMAIN events)
      BY <3>1, FS_Interval
    <3>3. Pilot!External \subseteq DOMAIN events
      BY DEF Pilot!External, Pilot!LatestEvents
    <3> QED BY <2>1, <2>2, <2>4, <3>2, <3>3, FS_Subset
  <2>6. \A e \in S : f[e] = events[e].value /\ f[e] \in Int
    BY <2>3, <2>5 DEF Pilot!Value, PilotInv
  <2>7. PICK z : z \notin S
    <3>1. 0 \notin DOMAIN events
      BY IsAppended DEF PilotInv
    <3> QED BY <2>5, <3>1
  <2>8. Splits(other, S, f, A, f, B, z, 0)
    <3>1. \A x \in S : other[x] = (IF x \in A THEN f[x] ELSE 0) + (IF x \in B THEN f[x] ELSE 0) + (IF x = z THEN 0 ELSE 0)
      BY <1>6, <2>1, <2>2, <2>4, <2>6, <2>7
    <3> QED BY <2>5, <2>6, <3>1 DEF Splits
  <2>9. Pilot!SumFunctionOnSet(other, S) = Pilot!SumFunctionOnSet(f, A) + Pilot!SumFunctionOnSet(f, B) + (IF z \in S THEN 0 ELSE 0)
    BY <2>5, <2>8, SumSplits
  <2>10. Pilot!SumFunctionOnSet(f, A) \in Int /\ Pilot!SumFunctionOnSet(f, B) \in Int
    <3>1. IsFiniteSet(A) /\ IsFiniteSet(B)
      BY <2>5, FS_Subset
    <3> QED BY <2>5, <2>6, <3>1, SumIsInt
  <2>11. Pilot!ExternalSettled = Pilot!SumFunctionOnSet(f, A) /\ Pilot!ExternalHold = Pilot!SumFunctionOnSet(f, B)
    BY <2>1, <2>2, <2>3 DEF Pilot!ExternalSettled, Pilot!ExternalHold
  <2> QED BY <2>4, <2>9, <2>10, <2>11
<1>11. Pilot!NativeHeld \in Int /\ Pilot!NativeSettled \in Int /\ Pilot!ExternalSettled \in Int /\ Pilot!ExternalHold \in Int
  <2>1. \A o \in DOMAIN native : Pilot!Amount("hold")[o] \in Int /\ Pilot!Amount("net")[o] \in Int
    BY DEF Pilot!Amount, Pilot!TheOperations, PilotInv
  <2>2. Pilot!NativeHeld \in Int
    BY <1>1, <2>1, SumIsInt DEF Pilot!NativeHeld, Pilot!TheOperations
  <2>3. Pilot!NativeSettled \in Int
    <3>1. PICK B : B = {o \in Pilot!TheOperations : native[o].period = month}
      OBVIOUS
    <3>2. IsFiniteSet(B) /\ B \subseteq DOMAIN native
      BY <1>1, <3>1, FS_Subset DEF Pilot!TheOperations
    <3> QED BY <2>1, <3>1, <3>2, SumIsInt DEF Pilot!NativeSettled
  <2>4. IsFiniteSet(Pilot!External) /\ Pilot!External \subseteq DOMAIN events
    <3>1. IsFiniteSet(1..Len(events)) /\ DOMAIN events = 1..Len(events)
      BY IsAppended, FS_Interval DEF PilotInv
    <3> QED BY <3>1, FS_Subset DEF Pilot!External, Pilot!LatestEvents
  <2>5. \A e \in Pilot!External : Pilot!Value[e] \in Int
    BY <2>4 DEF Pilot!Value, PilotInv
  <2>6. Pilot!ExternalSettled \in Int
    <3>1. PICK B : B = {e \in Pilot!External : events[e].effective = "settled" /\ events[e].period = month}
      OBVIOUS
    <3>2. IsFiniteSet(B) /\ B \subseteq Pilot!External
      BY <2>4, <3>1, FS_Subset
    <3> QED BY <2>5, <3>1, <3>2, SumIsInt DEF Pilot!ExternalSettled
  <2>7. Pilot!ExternalHold \in Int
    <3>1. PICK B : B = {e \in Pilot!External : events[e].effective # "settled"}
      OBVIOUS
    <3>2. IsFiniteSet(B) /\ B \subseteq Pilot!External
      BY <2>4, <3>1, FS_Subset
    <3> QED BY <2>5, <3>1, <3>2, SumIsInt DEF Pilot!ExternalHold
  <2> QED BY <2>2, <2>3, <2>6, <2>7
<1> QED BY <1>8, <1>9, <1>10, <1>11 DEF Pilot!Committed

\* No step breaks what an admission promises.
LEMMA AdmissionsAreWithinCap ==
    PilotAssumption /\ PilotInv /\ [Pilot!PilotNext]_pilotVars => Pilot!AdmittedWithinCap
<1> SUFFICES ASSUME PilotAssumption, PilotInv, [Pilot!PilotNext]_pilotVars PROVE Pilot!AdmittedWithinCap
  OBVIOUS
<1>1. Len(native) \in Nat
  BY IsAppended DEF PilotInv
<1>2. CASE Len(native') = Len(native)
  BY <1>1, <1>2 DEF Pilot!AdmittedWithinCap
<1>3. CASE \E bound \in Amounts : Pilot!Admit(bound)
  <2>1. PICK bound \in Nat : Pilot!Admit(bound)
    BY <1>3 DEF PilotAssumption
  <2>2. Pilot!Borne' <= MonthlyLimit
    BY <2>1, AdmissionIsBorne DEF Pilot!Admit
  <2>3. \A e \in Pilot!LatestEvents : events[e].evidence
    BY <2>1 DEF Pilot!Admit, Pilot!Blocked
  <2>4. PICK R : R = Pilot!OfThisMonth
    OBVIOUS
  <2>5. PICK last : last = CHOOSE r \in R : \A s \in R : s <= r
    OBVIOUS
  <2>6. last \in R
    <3>1. R \in SUBSET DOMAIN reconciliations /\ R # {}
      BY <2>1, <2>4 DEF Pilot!Admit, Pilot!Reconciled, Pilot!OfThisMonth
    <3>2. \E r \in R : \A s \in R : s <= r
      BY <3>1, LastOf DEF PilotInv
    <3> QED BY <2>5, <3>2
  <2>7. /\ reconciliations[last].evidence /\ reconciliations[last].known
        /\ reconciliations[last].hash = Pilot!LatestEvents
    BY <2>1, <2>4, <2>5 DEF Pilot!Admit, Pilot!Reconciled, Pilot!LedgerHash
  <2>8. last \in DOMAIN reconciliations /\ reconciliations[last].period = month
    BY <2>4, <2>6 DEF Pilot!OfThisMonth
  <2> QED BY <2>2, <2>3, <2>7, <2>8 DEF Pilot!AdmittedWithinCap
<1> QED BY <1>2, <1>3, PilotStep

----------------------------------------------------------------------------
\* Edits of leads, and what the theorem about edits rests on.

VARIABLES intents, recorded, entry, doing, shown, wire, session, confirmed
intentVars == <<intents, recorded, entry, doing, shown, wire, session,
    confirmed>>

Intents == INSTANCE LeadIntents WITH
    Tabs <- EditTabs, Sessions <- EditSessions, MaxKeys <- MaxEdits

\* Positions in a sequence have a first one.
LEMMA FirstOf ==
    ASSUME NEW s, IsSeq(s), NEW R \in SUBSET DOMAIN s, R # {}
    PROVE  \E r \in R : \A q \in R : r <= q
<1>1. PICK n \in Nat : n = Len(s) /\ DOMAIN s = 1..n
  BY DEF IsSeq
<1>2. PICK M : M = {n + 1 - r : r \in R}
  OBVIOUS
<1>3. M \in SUBSET DOMAIN s /\ M # {}
  BY <1>1, <1>2
<1>4. PICK m \in M : \A q \in M : q <= m
  BY <1>3, LastOf
<1>5. PICK r \in R : m = n + 1 - r
  BY <1>2
<1>6. ASSUME NEW q \in R PROVE r <= q
  <2>1. n + 1 - q <= m
    BY <1>2, <1>4
  <2>2. q \in Int /\ r \in Int
    BY <1>1
  <2> QED BY <1>1, <1>5, <2>1, <2>2
<1> QED BY <1>6

\* What the server has: each intent was written as its state says and answers
\* the key that made it; a key that has an answer keeps it; an open content is
\* in one intent.
IntentHolds(i) ==
    /\ {"content", "key", "state", "acknowledged", "writes"} \subseteq DOMAIN intents[i]
    /\ intents[i].writes = (IF intents[i].state = "applied" THEN 1 ELSE 0)
    /\ intents[i].key \in DOMAIN recorded /\ recorded[intents[i].key] = i
OneIsOpen == \A i, j \in Intents!Unresolved : intents[i].content = intents[j].content => i = j
IntentsHold ==
    /\ IsSeq(intents) /\ OneIsOpen
    /\ \A i \in DOMAIN intents : IntentHolds(i)
    /\ \A k \in DOMAIN recorded : recorded[k] # 0 => recorded[k] \in DOMAIN intents

\* A tab: what it knows of its edit is what its key was answered with.
TabIs(e, d, s) ==
    /\ {"content", "key", "intent"} \subseteq DOMAIN e /\ {"at", "intent"} \subseteq DOMAIN d
    /\ e.intent # 0 => e.key \in DOMAIN recorded /\ recorded[e.key] = e.intent
    /\ e # Intents!NoEntry \/ d.at = "listing" => e.key \in DOMAIN recorded
    /\ d.at = "reading" => d.intent # 0
    /\ d.intent # 0 => d.intent \in DOMAIN intents
    /\ s \subseteq DOMAIN intents
TabsHold ==
    /\ DOMAIN entry = EditTabs /\ DOMAIN doing = EditTabs /\ DOMAIN shown = EditTabs
    /\ \A t \in EditTabs : TabIs(entry[t], doing[t], shown[t])

EditRequestHolds(r) ==
    /\ "op" \in DOMAIN r /\ r.tab \in EditTabs
    /\ r.op = "prepare" => r.key \in DOMAIN recorded
    /\ r.op # "prepare" => r.intent \in DOMAIN intents
ConfirmedHolds == \A c \in confirmed : c[1] \in DOMAIN recorded /\ recorded[c[1]] = c[2] /\ c[2] # 0

IntentInv ==
    /\ IntentsHold /\ TabsHold /\ ConfirmedHolds
    /\ \A r \in wire : EditRequestHolds(r)

LEMMA IntentStart == Intents!IntentInit => IntentInv
<1> SUFFICES ASSUME Intents!IntentInit PROVE IntentInv
  OBVIOUS
<1>1. IsSeq(intents) /\ DOMAIN intents = {}
  <2>1. << >> \in Seq({})
    OBVIOUS
  <2> QED BY <2>1 DEF Intents!IntentInit, IsSeq
<1>2. DOMAIN recorded = {} /\ confirmed = {} /\ wire = {}
  BY DEF Intents!IntentInit
<1>3. IntentsHold
  BY <1>1, <1>2 DEF IntentsHold, OneIsOpen, Intents!Unresolved
<1>4. ASSUME NEW t \in EditTabs PROVE TabIs(entry[t], doing[t], shown[t])
  <2>1. entry[t] = Intents!NoEntry /\ doing[t] = Intents!Idle /\ shown[t] = {}
    BY DEF Intents!IntentInit
  <2>2. {"content", "key", "intent"} \subseteq DOMAIN Intents!NoEntry /\ Intents!NoEntry.intent = 0
    BY DEF Intents!NoEntry
  <2>3. {"at", "intent"} \subseteq DOMAIN Intents!Idle /\ Intents!Idle.intent = 0 /\ Intents!Idle.at = "idle"
    BY DEF Intents!Idle
  <2> QED BY <2>1, <2>2, <2>3 DEF TabIs
<1>5. TabsHold
  BY <1>4 DEF Intents!IntentInit, TabsHold
<1> QED BY <1>2, <1>3, <1>5 DEF IntentInv, ConfirmedHolds

\* An answered key keeps its answer, and no intent is lost.
ServerGrows ==
    /\ DOMAIN recorded \subseteq DOMAIN recorded' /\ DOMAIN intents \subseteq DOMAIN intents'
    /\ \A k \in DOMAIN recorded : recorded[k] # 0 => recorded'[k] = recorded[k]

LEMMA TabIsKept ==
    ASSUME NEW e, NEW d, NEW s, TabIs(e, d, s), ServerGrows
    PROVE  TabIs(e, d, s)'
BY DEF TabIs, ServerGrows, Intents!NoEntry

\* One tab moves.
TabMoves(t, e, d, s) ==
    /\ DOMAIN entry' = EditTabs /\ DOMAIN doing' = EditTabs /\ DOMAIN shown' = EditTabs
    /\ \A x \in EditTabs : /\ entry'[x] = IF x = t THEN e ELSE entry[x]
                           /\ doing'[x] = IF x = t THEN d ELSE doing[x]
                           /\ shown'[x] = IF x = t THEN s ELSE shown[x]

LEMMA TabsKept ==
    ASSUME TabsHold, ServerGrows, NEW t \in EditTabs, NEW e, NEW d, NEW s,
           TabMoves(t, e, d, s), TabIs(e, d, s)'
    PROVE  TabsHold'
<1>1. ASSUME NEW x \in EditTabs PROVE TabIs(entry[x], doing[x], shown[x])'
  <2>1. PICK f, c, u : f = entry[x] /\ c = doing[x] /\ u = shown[x]
    OBVIOUS
  <2>2. TabIs(f, c, u)'
    BY <2>1, TabIsKept DEF TabsHold
  <2>3. CASE x = t
    BY <2>3 DEF TabMoves
  <2>4. CASE x # t
    BY <2>1, <2>2, <2>4 DEF TabMoves
  <2> QED BY <2>3, <2>4
<1> QED BY <1>1 DEF TabsHold, TabMoves

\* No tab moves.
LEMMA TabsStay ==
    ASSUME TabsHold, ServerGrows, UNCHANGED <<entry, doing, shown>>
    PROVE  TabsHold'
<1>1. ASSUME NEW x \in EditTabs PROVE TabIs(entry[x], doing[x], shown[x])'
  <2>1. PICK f, c, u : f = entry[x] /\ c = doing[x] /\ u = shown[x]
    OBVIOUS
  <2> QED BY <2>1, TabIsKept DEF TabsHold
<1> QED BY <1>1 DEF TabsHold

\* Requests that are on their way stay as they are.
LEMMA RequestKept ==
    ASSUME NEW r, EditRequestHolds(r), ServerGrows
    PROVE  EditRequestHolds(r)'
BY DEF EditRequestHolds, ServerGrows

LEMMA ConfirmedKept ==
    ASSUME ConfirmedHolds, ServerGrows, UNCHANGED confirmed
    PROVE  ConfirmedHolds'
BY DEF ConfirmedHolds, ServerGrows

LEMMA ServerRests ==
    ASSUME IntentsHold, UNCHANGED <<intents, recorded>>
    PROVE  IntentsHold' /\ ServerGrows
BY DEF IntentsHold, OneIsOpen, Intents!Unresolved, Intents!Open, IntentHolds, ServerGrows

\* A new edit has a key without an answer.
LEMMA RunGrows ==
    ASSUME IntentsHold, NEW tab \in EditTabs, NEW content, Intents!Run(tab, content)
    PROVE  IntentsHold' /\ ServerGrows
<1>1. CASE UNCHANGED recorded
  BY <1>1, ServerRests DEF Intents!Run
<1>2. CASE ~ UNCHANGED recorded
  <2>1. PICK n : n = Intents!NextKey
    OBVIOUS
  <2>2. recorded' = [k \in DOMAIN recorded \cup {n} |-> IF k \in DOMAIN recorded THEN recorded[k] ELSE 0]
    BY <1>2, <2>1 DEF Intents!Run
  <2>3. /\ DOMAIN recorded' = DOMAIN recorded \cup {n}
        /\ \A k \in DOMAIN recorded : recorded'[k] = recorded[k]
        /\ \A k \in DOMAIN recorded' : k \notin DOMAIN recorded => recorded'[k] = 0
    BY <2>2
  <2>4. intents' = intents
    BY DEF Intents!Run
  <2>5. \A i \in DOMAIN intents : IntentHolds(i)'
    BY <2>3, <2>4 DEF IntentsHold, IntentHolds
  <2>6. OneIsOpen'
    BY <2>4 DEF IntentsHold, OneIsOpen, Intents!Unresolved, Intents!Open
  <2> QED BY <2>3, <2>4, <2>5, <2>6 DEF IntentsHold, ServerGrows
<1> QED BY <1>1, <1>2

\* An intent that stays settled or open under its content is written once.
LEMMA IntentMoves ==
    ASSUME IntentsHold, UNCHANGED recorded, NEW i \in DOMAIN intents, NEW row,
           intents' = [intents EXCEPT ![i] = row],
           {"content", "key", "state", "acknowledged", "writes"} \subseteq DOMAIN row,
           row.key = intents[i].key, row.content = intents[i].content,
           row.writes = (IF row.state = "applied" THEN 1 ELSE 0),
           row.state # "cancelled" /\ ~row.acknowledged => Intents!Open(i)
    PROVE  IntentsHold' /\ ServerGrows
<1>1. /\ IsSeq(intents') /\ DOMAIN intents' = DOMAIN intents
      /\ \A j \in DOMAIN intents : intents'[j] = IF j = i THEN row ELSE intents[j]
  BY IsReplaced DEF IntentsHold
<1>2. ASSUME NEW j \in DOMAIN intents PROVE IntentHolds(j)'
  <2>1. CASE j = i
    BY <1>1, <2>1 DEF IntentsHold, IntentHolds
  <2>2. CASE j # i
    BY <1>1, <2>2 DEF IntentsHold, IntentHolds
  <2> QED BY <2>1, <2>2
<1>3. Intents!Unresolved' \subseteq Intents!Unresolved /\ \A j \in DOMAIN intents : intents'[j].content = intents[j].content
  BY <1>1 DEF Intents!Unresolved, Intents!Open
<1>4. OneIsOpen'
  BY <1>3 DEF OneIsOpen, IntentsHold, Intents!Unresolved
<1> QED BY <1>1, <1>2, <1>4 DEF IntentsHold, ServerGrows

LEMMA ApplyKeeps ==
    ASSUME IntentsHold, NEW r, EditRequestHolds(r), Intents!ApplyIntent(r)
    PROVE  IntentsHold' /\ ServerGrows
<1>1. r.intent \in DOMAIN intents
  BY DEF EditRequestHolds, Intents!ApplyIntent, Intents!Arrived
<1>2. PICK old : old = intents[r.intent]
  OBVIOUS
<1>3. PICK row : row = [old EXCEPT !.state = "applied", !.writes = @ + 1]
  OBVIOUS
<1>4. /\ {"content", "key", "state", "acknowledged", "writes"} \subseteq DOMAIN old
      /\ old.writes = (IF old.state = "applied" THEN 1 ELSE 0)
  BY <1>1, <1>2 DEF IntentsHold, IntentHolds
<1>5. CASE old.state = "prepared"
  <2>1. intents' = [intents EXCEPT ![r.intent] = row]
    BY <1>1, <1>2, <1>3, <1>5 DEF Intents!ApplyIntent, Intents!Applicable
  <2>2. /\ {"content", "key", "state", "acknowledged", "writes"} \subseteq DOMAIN row
        /\ row.key = old.key /\ row.content = old.content /\ row.acknowledged = old.acknowledged
        /\ row.state = "applied" /\ row.writes = 1
    BY <1>3, <1>4, <1>5
  <2>3. UNCHANGED recorded
    BY DEF Intents!ApplyIntent
  <2>4. ~row.acknowledged => Intents!Open(r.intent)
    BY <1>2, <1>5, <2>2 DEF Intents!Open
  <2> QED BY <1>1, <1>2, <2>1, <2>2, <2>3, <2>4, IntentMoves
<1>6. CASE old.state # "prepared"
  BY <1>2, <1>6, ServerRests DEF Intents!ApplyIntent, Intents!Applicable
<1> QED BY <1>5, <1>6

LEMMA AcknowledgeKeeps ==
    ASSUME IntentsHold, NEW r, EditRequestHolds(r), Intents!AcknowledgeIntent(r)
    PROVE  IntentsHold' /\ ServerGrows
<1>1. r.intent \in DOMAIN intents
  BY DEF EditRequestHolds, Intents!AcknowledgeIntent, Intents!Arrived
<1>2. PICK old : old = intents[r.intent]
  OBVIOUS
<1>3. PICK row : row = [old EXCEPT !.acknowledged = TRUE]
  OBVIOUS
<1>4. /\ {"content", "key", "state", "acknowledged", "writes"} \subseteq DOMAIN old
      /\ old.writes = (IF old.state = "applied" THEN 1 ELSE 0)
  BY <1>1, <1>2 DEF IntentsHold, IntentHolds
<1>5. intents' = [intents EXCEPT ![r.intent] = row]
  BY <1>1, <1>2, <1>3 DEF Intents!AcknowledgeIntent
<1>6. /\ {"content", "key", "state", "acknowledged", "writes"} \subseteq DOMAIN row
      /\ row.key = old.key /\ row.content = old.content /\ row.acknowledged
      /\ row.state = old.state /\ row.writes = old.writes
  BY <1>3, <1>4
<1>7. UNCHANGED recorded
  BY DEF Intents!AcknowledgeIntent
<1>8. row.writes = (IF row.state = "applied" THEN 1 ELSE 0)
  BY <1>4, <1>6
<1> QED BY <1>1, <1>2, <1>5, <1>6, <1>7, <1>8, IntentMoves

LEMMA CancelKeeps ==
    ASSUME IntentsHold, NEW r, EditRequestHolds(r), Intents!CancelIntent(r)
    PROVE  IntentsHold' /\ ServerGrows
<1>1. r.intent \in DOMAIN intents
  BY DEF EditRequestHolds, Intents!CancelIntent, Intents!Arrived
<1>2. PICK old : old = intents[r.intent]
  OBVIOUS
<1>3. PICK row : row = [old EXCEPT !.state = "cancelled"]
  OBVIOUS
<1>4. /\ {"content", "key", "state", "acknowledged", "writes"} \subseteq DOMAIN old
      /\ old.writes = (IF old.state = "applied" THEN 1 ELSE 0)
  BY <1>1, <1>2 DEF IntentsHold, IntentHolds
<1>5. CASE old.state = "prepared"
  <2>1. intents' = [intents EXCEPT ![r.intent] = row]
    BY <1>1, <1>2, <1>3, <1>5 DEF Intents!CancelIntent
  <2>2. /\ {"content", "key", "state", "acknowledged", "writes"} \subseteq DOMAIN row
        /\ row.key = old.key /\ row.content = old.content
        /\ row.state = "cancelled" /\ row.writes = 0
    BY <1>3, <1>4, <1>5
  <2>3. UNCHANGED recorded
    BY DEF Intents!CancelIntent
  <2> QED BY <1>1, <1>2, <2>1, <2>2, <2>3, IntentMoves
<1>6. CASE old.state # "prepared"
  BY <1>2, <1>6, ServerRests DEF Intents!CancelIntent
<1> QED BY <1>5, <1>6

\* The answer of a key: the recorded one, an intent that is open, or a new one.
LEMMA PreparedIs ==
    ASSUME IntentsHold, NEW r, r.key \in DOMAIN recorded
    PROVE  /\ recorded[r.key] # 0 => Intents!Prepared(r) = recorded[r.key] /\ Intents!Prepared(r) \in DOMAIN intents
           /\ recorded[r.key] = 0 => \/ Intents!Prepared(r) \in DOMAIN intents
                                     \/ Intents!Prepared(r) = Len(intents) + 1 /\ Intents!Joined(r.content) = {}
           /\ Intents!Prepared(r) # 0
<1>1. CASE recorded[r.key] # 0
  BY <1>1 DEF Intents!Prepared, Intents!Replayed, IntentsHold
<1>2. CASE recorded[r.key] = 0 /\ Intents!Joined(r.content) # {}
  <2>1. Intents!Joined(r.content) \in SUBSET DOMAIN intents
    BY DEF Intents!Joined, Intents!Unresolved
  <2>2. Intents!Oldest(Intents!Joined(r.content)) \in Intents!Joined(r.content)
    <3>1. \E x \in Intents!Joined(r.content) : \A q \in Intents!Joined(r.content) : x <= q
      BY <1>2, <2>1, FirstOf DEF IntentsHold
    <3> HIDE DEF Intents!Joined
    <3> QED BY <3>1 DEF Intents!Oldest
  <2>3. 0 \notin DOMAIN intents
    BY DEF IntentsHold, IsSeq
  <2> QED BY <1>2, <2>1, <2>2, <2>3 DEF Intents!Prepared, Intents!Replayed
<1>3. CASE recorded[r.key] = 0 /\ Intents!Joined(r.content) = {}
  <2>1. Len(intents) + 1 # 0
    BY DEF IntentsHold, IsSeq
  <2> QED BY <1>3, <2>1 DEF Intents!Prepared, Intents!Replayed
<1> QED BY <1>1, <1>2, <1>3

LEMMA PrepareKeeps ==
    ASSUME IntentsHold, NEW r, EditRequestHolds(r), Intents!PrepareIntent(r)
    PROVE  /\ IntentsHold' /\ ServerGrows
           /\ r.key \in DOMAIN recorded' /\ recorded'[r.key] = Intents!Prepared(r) /\ Intents!Prepared(r) # 0 /\ Intents!Prepared(r) \in DOMAIN intents'
<1>1. r.key \in DOMAIN recorded
  BY DEF EditRequestHolds, Intents!PrepareIntent, Intents!Arrived
<1>2. PICK p : p = Intents!Prepared(r)
  OBVIOUS
<1>3. /\ DOMAIN recorded' = DOMAIN recorded
      /\ \A k \in DOMAIN recorded : recorded'[k] = IF k = r.key THEN p ELSE recorded[k]
  BY <1>2 DEF Intents!PrepareIntent
<1>4. /\ recorded[r.key] # 0 => p = recorded[r.key] /\ p \in DOMAIN intents
      /\ recorded[r.key] = 0 => p \in DOMAIN intents \/ (p = Len(intents) + 1 /\ Intents!Joined(r.content) = {})
      /\ p # 0
  BY <1>1, <1>2, PreparedIs
<1>5. 0 \notin DOMAIN intents
  BY DEF IntentsHold, IsSeq
<1>6. \A i \in DOMAIN intents : intents[i].key # r.key \/ p = i
  BY <1>1, <1>4, <1>5 DEF IntentsHold, IntentHolds
<1>7. CASE p \in DOMAIN intents
  <2>1. intents' = intents
    BY <1>2, <1>7 DEF Intents!PrepareIntent
  <2>2. \A i \in DOMAIN intents : IntentHolds(i)'
    BY <1>3, <1>6, <2>1 DEF IntentsHold, IntentHolds
  <2>3. OneIsOpen'
    BY <2>1 DEF IntentsHold, OneIsOpen, Intents!Unresolved, Intents!Open
  <2>4. ServerGrows
    BY <1>3, <1>4, <2>1 DEF ServerGrows
  <2> QED BY <1>1, <1>2, <1>3, <1>4, <1>7, <2>1, <2>2, <2>3, <2>4 DEF IntentsHold
<1>8. CASE p \notin DOMAIN intents
  <2>1. p = Len(intents) + 1 /\ Intents!Joined(r.content) = {} /\ recorded[r.key] = 0
    BY <1>4, <1>8
  <2>2. PICK row : row = [content |-> r.content, key |-> r.key, state |-> "prepared", acknowledged |-> FALSE, writes |-> 0]
    OBVIOUS
  <2>3. intents' = Append(intents, row)
    BY <1>2, <1>8, <2>2 DEF Intents!PrepareIntent
  <2>4. /\ {"content", "key", "state", "acknowledged", "writes"} \subseteq DOMAIN row
        /\ row.content = r.content /\ row.key = r.key /\ row.writes = 0 /\ row.state = "prepared"
    BY <2>2
  <2>5. /\ IsSeq(intents') /\ DOMAIN intents' = DOMAIN intents \cup {p} /\ intents'[p] = row
        /\ \A i \in DOMAIN intents : intents'[i] = intents[i]
    <3>1. /\ IsSeq(Append(intents, row)) /\ Len(intents) \in Nat /\ DOMAIN intents = 1..Len(intents)
          /\ DOMAIN Append(intents, row) = 1..(Len(intents) + 1) /\ Append(intents, row)[Len(intents) + 1] = row
          /\ \A i \in DOMAIN intents : Append(intents, row)[i] = intents[i]
      BY IsAppended DEF IntentsHold
    <3>2. 1..(Len(intents) + 1) = 1..Len(intents) \cup {Len(intents) + 1}
      BY <3>1
    <3> QED BY <2>1, <2>3, <3>1, <3>2
  <2>6. ASSUME NEW i \in DOMAIN intents' PROVE IntentHolds(i)'
    <3>1. CASE i = p
      BY <1>1, <1>3, <2>4, <2>5, <3>1 DEF IntentHolds
    <3>2. CASE i \in DOMAIN intents
      BY <1>3, <1>6, <1>8, <2>5, <3>2 DEF IntentsHold, IntentHolds
    <3> QED BY <2>5, <3>1, <3>2
  <2>7. OneIsOpen'
    <3>1. ASSUME NEW i \in Intents!Unresolved' PROVE i = p \/ (i \in Intents!Unresolved /\ intents[i].content # r.content)
      BY <2>1, <2>5, <3>1 DEF Intents!Unresolved, Intents!Open, Intents!Joined
    <3>2. \A i \in Intents!Unresolved' : intents'[i].content = IF i = p THEN r.content ELSE intents[i].content
      BY <2>4, <2>5, <3>1 DEF Intents!Unresolved
    <3> QED BY <3>1, <3>2 DEF OneIsOpen, IntentsHold
  <2>8. ServerGrows
    BY <1>3, <1>4, <2>5 DEF ServerGrows
  <2>9. \A k \in DOMAIN recorded' : recorded'[k] # 0 => recorded'[k] \in DOMAIN intents'
    BY <1>3, <2>5 DEF IntentsHold
  <2> QED BY <1>1, <1>2, <1>3, <1>4, <2>5, <2>6, <2>7, <2>8, <2>9 DEF IntentsHold
<1> QED BY <1>7, <1>8

\* What a tab shows is there.
LEMMA UnresolvedAreThere == Intents!Unresolved \subseteq DOMAIN intents
BY DEF Intents!Unresolved

\* A request that is sent names what the tab knows.
LEMMA SendPosts ==
    ASSUME NEW tab \in EditTabs, DOMAIN doing = EditTabs, NEW op \in {"prepare", "apply", "acknowledge", "cancel"}, NEW i, Intents!Send(tab, op, i),
           \A r \in wire : EditRequestHolds(r)', TabIs(entry[tab], doing[tab], shown[tab]), ServerGrows, UNCHANGED <<intents, recorded>>,
           op = "prepare" => entry[tab].key \in DOMAIN recorded,
           op # "prepare" => i \in DOMAIN intents,
           op = "prepare" => i = 0
    PROVE  /\ \A r \in wire' : EditRequestHolds(r)'
           /\ \E d : /\ doing' = [doing EXCEPT ![tab] = d]
                     /\ {"at", "intent"} \subseteq DOMAIN d /\ d.intent = i /\ d.at \notin {"listing", "reading"}
<1>1. PICK q : q = [op |-> op, tab |-> tab, key |-> entry[tab].key, content |-> entry[tab].content, intent |-> i]
  OBVIOUS
<1>2. wire' = wire \cup {q}
  BY <1>1 DEF Intents!Send
<1>3. EditRequestHolds(q)'
  BY <1>1 DEF EditRequestHolds
<1>4. PICK a : a = CASE op = "prepare" -> "preparing" [] op = "apply" -> "applying"
                     [] op = "acknowledge" -> "acknowledging" [] op = "cancel" -> "cancelling"
  OBVIOUS
<1>5. a \notin {"listing", "reading"}
  BY <1>4
<1>6. PICK d : d = [at |-> a, intent |-> i]
  OBVIOUS
<1>7. doing' = [doing EXCEPT ![tab] = d]
  BY <1>4, <1>6 DEF Intents!Send
<1>8. {"at", "intent"} \subseteq DOMAIN d /\ d.intent = i /\ d.at \notin {"listing", "reading"}
  BY <1>5, <1>6
<1>9. \A r \in wire' : EditRequestHolds(r)'
  BY <1>2, <1>3
<1> QED BY <1>7, <1>8, <1>9

\* Nothing of the server changes, and one tab does.
LEMMA TabStep ==
    ASSUME IntentInv, UNCHANGED <<intents, recorded>>, NEW t \in EditTabs, NEW e, NEW d, NEW s,
           TabMoves(t, e, d, s), TabIs(e, d, s),
           \A r \in wire' : EditRequestHolds(r)', ConfirmedHolds'
    PROVE  IntentInv'
<1>1. IntentsHold' /\ ServerGrows
  BY ServerRests DEF IntentInv
<1>2. TabIs(e, d, s)'
  BY <1>1, TabIsKept
<1>3. TabsHold'
  BY <1>1, <1>2, TabsKept DEF IntentInv
<1> QED BY <1>1, <1>3 DEF IntentInv

LEMMA RunStep ==
    ASSUME IntentInv, NEW tab \in EditTabs, NEW content, Intents!Run(tab, content)
    PROVE  IntentInv'
<1>1. IntentsHold' /\ ServerGrows
  BY RunGrows DEF IntentInv
<1>2. PICK d : d = [at |-> "listing", intent |-> 0]
  OBVIOUS
<1>3. PICK s : s = shown[tab]
  OBVIOUS
<1>4. /\ doing' = [doing EXCEPT ![tab] = d] /\ shown' = shown
      /\ UNCHANGED <<intents, wire, confirmed>>
  BY <1>2 DEF Intents!Run
<1>5. TabIs(entry[tab], doing[tab], shown[tab]) /\ DOMAIN entry = EditTabs /\ DOMAIN doing = EditTabs /\ DOMAIN shown = EditTabs
  BY DEF IntentInv, TabsHold
<1>6. PICK e : e = entry'[tab]
  OBVIOUS
<1>7. /\ {"content", "key", "intent"} \subseteq DOMAIN e
      /\ e.intent # 0 => e.key \in DOMAIN recorded' /\ recorded'[e.key] = e.intent
      /\ e.key \in DOMAIN recorded'
      /\ DOMAIN entry' = EditTabs /\ \A x \in EditTabs : entry'[x] = IF x = tab THEN e ELSE entry[x]
  <2>1. CASE entry[tab] # Intents!NoEntry
    BY <1>1, <1>5, <1>6, <2>1 DEF Intents!Run, TabIs, ServerGrows
  <2>2. CASE entry[tab] = Intents!NoEntry
    <3>1. PICK n : n = Intents!NextKey
      OBVIOUS
    <3>2. PICK f : f = [content |-> content, key |-> n, intent |-> 0]
      OBVIOUS
    <3>3. entry' = [entry EXCEPT ![tab] = f] /\ n \in DOMAIN recorded'
      BY <2>2, <3>1, <3>2 DEF Intents!Run
    <3>4. e = f
      BY <1>5, <1>6, <3>3
    <3> QED BY <1>5, <3>2, <3>3, <3>4
  <2> QED BY <2>1, <2>2
<1>8. TabIs(e, d, s)'
  <2>1. {"at", "intent"} \subseteq DOMAIN d /\ d.at = "listing" /\ d.intent = 0
    BY <1>2
  <2>2. s \subseteq DOMAIN intents'
    BY <1>3, <1>4, <1>5 DEF TabIs
  <2> QED BY <1>7, <2>1, <2>2 DEF TabIs
<1>9. TabMoves(tab, e, d, s)
  BY <1>3, <1>4, <1>5, <1>7 DEF TabMoves
<1>10. TabsHold'
  BY <1>1, <1>8, <1>9, TabsKept DEF IntentInv
<1>11. ConfirmedHolds'
  BY <1>1, <1>4, ConfirmedKept DEF IntentInv
<1>12. \A r \in wire' : EditRequestHolds(r)'
  BY <1>1, <1>4, RequestKept DEF IntentInv
<1> QED BY <1>1, <1>10, <1>11, <1>12 DEF IntentInv

\* Requests and what was confirmed stay when only tabs move.
LEMMA OthersRest ==
    ASSUME IntentInv, UNCHANGED <<intents, recorded>>
    PROVE  /\ ServerGrows /\ \A r \in wire : EditRequestHolds(r)'
           /\ confirmed' = confirmed => ConfirmedHolds'
           /\ DOMAIN entry = EditTabs /\ DOMAIN doing = EditTabs /\ DOMAIN shown = EditTabs
           /\ \A t \in EditTabs : TabIs(entry[t], doing[t], shown[t])
BY ServerRests, RequestKept, ConfirmedKept DEF IntentInv, TabsHold

LEMMA IdleIs == {"at", "intent"} \subseteq DOMAIN Intents!Idle /\ Intents!Idle.intent = 0 /\ Intents!Idle.at = "idle"
BY DEF Intents!Idle

LEMMA RecoverStep ==
    ASSUME IntentInv, NEW tab \in EditTabs, Intents!Recover(tab)
    PROVE  IntentInv'
<1>1. UNCHANGED <<intents, recorded, confirmed>> /\ doing[tab].at = "listing"
  BY DEF Intents!Recover
<1>2. /\ ServerGrows /\ \A r \in wire : EditRequestHolds(r)'
      /\ ConfirmedHolds'
      /\ DOMAIN entry = EditTabs /\ DOMAIN doing = EditTabs /\ DOMAIN shown = EditTabs
      /\ TabIs(entry[tab], doing[tab], shown[tab])
  BY <1>1, OthersRest
<1>3. PICK o : o = IF Intents!Unresolved = {} THEN 0 ELSE Intents!Oldest(Intents!Unresolved)
  OBVIOUS
<1>4. o # 0 => o \in DOMAIN intents
  <2>1. CASE Intents!Unresolved = {}
    BY <1>3, <2>1
  <2>2. CASE Intents!Unresolved # {}
    <3>1. \E x \in Intents!Unresolved : \A q \in Intents!Unresolved : x <= q
      BY <2>2, FirstOf, UnresolvedAreThere DEF IntentInv, IntentsHold
    <3>2. Intents!Oldest(Intents!Unresolved) \in Intents!Unresolved
      BY <3>1 DEF Intents!Oldest
    <3> QED BY <1>3, <2>2, <3>2, UnresolvedAreThere
  <2> QED BY <2>1, <2>2
<1>5. entry[tab].key \in DOMAIN recorded
  BY <1>1, <1>2 DEF TabIs
<1>6. PICK e, d, s : e = entry[tab] /\ d = doing[tab] /\ s = shown[tab]
  OBVIOUS
<1>7. CASE o = 0 /\ Intents!Send(tab, "prepare", 0) /\ UNCHANGED <<entry, shown>>
  <2>1. PICK b : /\ doing' = [doing EXCEPT ![tab] = b]
                 /\ {"at", "intent"} \subseteq DOMAIN b /\ b.intent = 0 /\ b.at \notin {"listing", "reading"}
    BY <1>1, <1>2, <1>5, <1>7, SendPosts
  <2>2. \A r \in wire' : EditRequestHolds(r)'
    BY <1>1, <1>2, <1>5, <1>7, SendPosts
  <2>3. TabMoves(tab, e, b, s)
    BY <1>2, <1>6, <1>7, <2>1 DEF TabMoves
  <2>4. TabIs(e, b, s)
    BY <1>2, <1>6, <2>1 DEF TabIs
  <2> QED BY <1>1, <1>2, <2>2, <2>3, <2>4, TabStep
<1>8. CASE /\ o # 0 /\ (intents[o].key = entry[tab].key \/ o = entry[tab].intent)
           /\ entry' = [entry EXCEPT ![tab].intent = o]
           /\ doing' = [doing EXCEPT ![tab] = [at |-> "reading", intent |-> o]]
           /\ UNCHANGED <<shown, wire>>
  <2>1. PICK f : f = [e EXCEPT !.intent = o]
    OBVIOUS
  <2>2. PICK b : b = [at |-> "reading", intent |-> o]
    OBVIOUS
  <2>3. DOMAIN f = DOMAIN e /\ f.key = e.key /\ f.intent = o
    BY <1>2, <1>6, <2>1 DEF TabIs
  <2>4. recorded[e.key] = o
    BY <1>2, <1>4, <1>6, <1>8 DEF TabIs, IntentInv, IntentsHold, IntentHolds
  <2>5. {"at", "intent"} \subseteq DOMAIN b /\ b.at = "reading" /\ b.intent = o
    BY <2>2
  <2>6. TabIs(f, b, s)
    BY <1>2, <1>4, <1>5, <1>6, <1>8, <2>3, <2>4, <2>5 DEF TabIs
  <2>7. TabMoves(tab, f, b, s)
    BY <1>2, <1>6, <1>8, <2>1, <2>2 DEF TabMoves
  <2> QED BY <1>1, <1>2, <1>8, <2>6, <2>7, TabStep
<1>9. CASE /\ o # 0
           /\ doing' = [doing EXCEPT ![tab] = Intents!Idle]
           /\ shown' = [shown EXCEPT ![tab] = Intents!Unresolved]
           /\ UNCHANGED <<entry, wire>>
  <2>1. PICK u : u = Intents!Unresolved
    OBVIOUS
  <2>2. TabMoves(tab, e, Intents!Idle, u)
    BY <1>2, <1>6, <1>9, <2>1 DEF TabMoves
  <2>3. TabIs(e, Intents!Idle, u)
    BY <1>2, <1>6, <2>1, IdleIs, UnresolvedAreThere DEF TabIs
  <2> QED BY <1>1, <1>2, <1>9, <2>2, <2>3, TabStep
<1> QED BY <1>3, <1>7, <1>8, <1>9 DEF Intents!Recover

LEMMA ReadBackStep ==
    ASSUME IntentInv, NEW tab \in EditTabs, Intents!ReadBack(tab)
    PROVE  IntentInv'
<1>1. UNCHANGED <<intents, recorded, entry>> /\ doing[tab].at = "reading"
  BY DEF Intents!ReadBack
<1>2. /\ ServerGrows /\ \A r \in wire : EditRequestHolds(r)'
      /\ DOMAIN entry = EditTabs /\ DOMAIN doing = EditTabs /\ DOMAIN shown = EditTabs
      /\ TabIs(entry[tab], doing[tab], shown[tab])
  BY <1>1, OthersRest
<1>3. PICK i : i = doing[tab].intent
  OBVIOUS
<1>4. i # 0 /\ i \in DOMAIN intents
  BY <1>1, <1>2, <1>3 DEF TabIs
<1>5. PICK e, d, s : e = entry[tab] /\ d = doing[tab] /\ s = shown[tab]
  OBVIOUS
<1>6. confirmed' = IF entry[tab].intent = i THEN confirmed \cup {<<entry[tab].key, i>>} ELSE confirmed
  BY <1>3 DEF Intents!ReadBack
<1>7. ConfirmedHolds'
  <2>1. ConfirmedHolds
    BY DEF IntentInv
  <2>2. CASE entry[tab].intent = i
    BY <1>1, <1>2, <1>4, <1>6, <2>1, <2>2 DEF ConfirmedHolds, TabIs
  <2>3. CASE entry[tab].intent # i
    BY <1>1, <1>6, <2>1, <2>3 DEF ConfirmedHolds
  <2> QED BY <2>2, <2>3
<1>8. ASSUME NEW op \in {"apply", "acknowledge"}, Intents!Send(tab, op, i), UNCHANGED shown PROVE IntentInv'
  <2>1. PICK b : /\ doing' = [doing EXCEPT ![tab] = b]
                 /\ {"at", "intent"} \subseteq DOMAIN b /\ b.intent = i /\ b.at \notin {"listing", "reading"}
    BY <1>1, <1>2, <1>4, <1>8, SendPosts
  <2>2. \A r \in wire' : EditRequestHolds(r)'
    BY <1>1, <1>2, <1>4, <1>8, SendPosts
  <2>3. TabMoves(tab, e, b, s)
    BY <1>1, <1>2, <1>5, <1>8, <2>1 DEF TabMoves
  <2>4. TabIs(e, b, s)
    BY <1>2, <1>4, <1>5, <2>1 DEF TabIs
  <2> QED BY <1>1, <1>7, <2>2, <2>3, <2>4, TabStep
<1>9. CASE /\ doing' = [doing EXCEPT ![tab] = Intents!Idle]
           /\ shown' = [shown EXCEPT ![tab] = Intents!Unresolved]
           /\ UNCHANGED wire
  <2>1. PICK u : u = Intents!Unresolved
    OBVIOUS
  <2>2. TabMoves(tab, e, Intents!Idle, u)
    BY <1>1, <1>2, <1>5, <1>9, <2>1 DEF TabMoves
  <2>3. TabIs(e, Intents!Idle, u)
    BY <1>2, <1>5, <2>1, IdleIs, UnresolvedAreThere DEF TabIs
  <2> QED BY <1>1, <1>2, <1>7, <1>9, <2>2, <2>3, TabStep
<1>10. \/ Intents!Send(tab, "apply", i) /\ UNCHANGED shown
       \/ Intents!Send(tab, "acknowledge", i) /\ UNCHANGED shown
       \/ /\ doing' = [doing EXCEPT ![tab] = Intents!Idle]
          /\ shown' = [shown EXCEPT ![tab] = Intents!Unresolved]
          /\ UNCHANGED wire
  <2>1. CASE intents[i].state = "prepared"
    BY <1>3, <2>1 DEF Intents!ReadBack
  <2>2. CASE intents[i].state = "applied"
    BY <1>3, <2>2 DEF Intents!ReadBack
  <2>3. CASE intents[i].state \notin {"prepared", "applied"}
    BY <1>3, <2>3 DEF Intents!ReadBack
  <2> QED BY <2>1, <2>2, <2>3
<1> QED BY <1>8, <1>9, <1>10

LEMMA ContinueStep ==
    ASSUME IntentInv, NEW tab \in EditTabs, NEW i \in shown[tab], Intents!Continue(tab, i)
    PROVE  IntentInv'
<1>1. /\ UNCHANGED <<intents, recorded, entry, shown, wire, confirmed>>
      /\ doing' = [doing EXCEPT ![tab] = [at |-> "reading", intent |-> i]]
  BY DEF Intents!Continue
<1>2. /\ ServerGrows /\ ConfirmedHolds' /\ \A r \in wire : EditRequestHolds(r)'
      /\ DOMAIN entry = EditTabs /\ DOMAIN doing = EditTabs /\ DOMAIN shown = EditTabs
      /\ TabIs(entry[tab], doing[tab], shown[tab])
  BY <1>1, OthersRest
<1>3. PICK e, d, s : e = entry[tab] /\ d = doing[tab] /\ s = shown[tab]
  OBVIOUS
<1>4. PICK b : b = [at |-> "reading", intent |-> i]
  OBVIOUS
<1>5. {"at", "intent"} \subseteq DOMAIN b /\ b.at = "reading" /\ b.intent = i
  BY <1>4
<1>6. i \in DOMAIN intents /\ 0 \notin DOMAIN intents
  BY <1>2 DEF TabIs, IntentInv, IntentsHold, IsSeq
<1>7. TabIs(e, b, s)
  BY <1>2, <1>3, <1>5, <1>6 DEF TabIs
<1>8. TabMoves(tab, e, b, s)
  BY <1>1, <1>2, <1>3, <1>4 DEF TabMoves
<1>9. UNCHANGED <<intents, recorded>>
  BY <1>1
<1>10. ConfirmedHolds' /\ \A r \in wire' : EditRequestHolds(r)'
  BY <1>1, <1>2
<1> QED BY <1>9, <1>10, <1>7, <1>8, TabStep

LEMMA CancelStep ==
    ASSUME IntentInv, NEW tab \in EditTabs, NEW i \in shown[tab], Intents!Cancel(tab, i)
    PROVE  IntentInv'
<1>1. UNCHANGED <<intents, recorded, entry, shown, confirmed>> /\ Intents!Send(tab, "cancel", i)
  BY DEF Intents!Cancel
<1>2. /\ ServerGrows /\ ConfirmedHolds' /\ \A r \in wire : EditRequestHolds(r)'
      /\ DOMAIN entry = EditTabs /\ DOMAIN doing = EditTabs /\ DOMAIN shown = EditTabs
      /\ TabIs(entry[tab], doing[tab], shown[tab])
  BY <1>1, OthersRest
<1>3. PICK e, d, s : e = entry[tab] /\ d = doing[tab] /\ s = shown[tab]
  OBVIOUS
<1>4. i \in DOMAIN intents
  BY <1>2 DEF TabIs
<1>5. PICK b : /\ doing' = [doing EXCEPT ![tab] = b]
               /\ {"at", "intent"} \subseteq DOMAIN b /\ b.intent = i /\ b.at \notin {"listing", "reading"}
  BY <1>1, <1>2, <1>4, SendPosts
<1>6. \A r \in wire' : EditRequestHolds(r)'
  BY <1>1, <1>2, <1>4, SendPosts
<1>7. TabIs(e, b, s)
  BY <1>2, <1>3, <1>4, <1>5 DEF TabIs
<1>8. TabMoves(tab, e, b, s)
  BY <1>1, <1>2, <1>3, <1>5 DEF TabMoves
<1>9. UNCHANGED <<intents, recorded>>
  BY <1>1
<1>10. ConfirmedHolds'
  BY <1>2
<1> QED BY <1>6, <1>9, <1>10, <1>7, <1>8, TabStep

LEMMA GiveUpStep ==
    ASSUME IntentInv, NEW tab \in EditTabs, Intents!GiveUp(tab)
    PROVE  IntentInv'
<1>1. UNCHANGED <<intents, recorded, entry, wire, confirmed>>
  BY DEF Intents!GiveUp
<1>2. /\ ServerGrows /\ ConfirmedHolds' /\ \A r \in wire : EditRequestHolds(r)'
      /\ DOMAIN entry = EditTabs /\ DOMAIN doing = EditTabs /\ DOMAIN shown = EditTabs
      /\ TabIs(entry[tab], doing[tab], shown[tab])
  BY <1>1, OthersRest
<1>3. PICK e, u : e = entry[tab] /\ u = Intents!Unresolved \cup ({doing[tab].intent} \ {0})
  OBVIOUS
<1>4. u \subseteq DOMAIN intents
  BY <1>2, <1>3, UnresolvedAreThere DEF TabIs
<1>5. TabIs(e, Intents!Idle, u)
  BY <1>2, <1>3, <1>4, IdleIs DEF TabIs
<1>6. TabMoves(tab, e, Intents!Idle, u)
  BY <1>2, <1>3 DEF TabMoves, Intents!GiveUp
<1>9. UNCHANGED <<intents, recorded>>
  BY <1>1
<1>10. ConfirmedHolds' /\ \A r \in wire' : EditRequestHolds(r)'
  BY <1>1, <1>2
<1> QED BY <1>9, <1>10, <1>5, <1>6, TabStep

LEMMA NoEntryIs == {"content", "key", "intent"} \subseteq DOMAIN Intents!NoEntry /\ Intents!NoEntry.intent = 0
BY DEF Intents!NoEntry

LEMMA ReopenStep ==
    ASSUME IntentInv, NEW tab \in EditTabs, NEW cached, Intents!Reopen(tab, cached)
    PROVE  IntentInv'
<1>1. UNCHANGED <<intents, recorded, wire, confirmed>>
  BY DEF Intents!Reopen
<1>2. /\ ServerGrows /\ ConfirmedHolds' /\ \A r \in wire : EditRequestHolds(r)'
      /\ DOMAIN entry = EditTabs /\ DOMAIN doing = EditTabs /\ DOMAIN shown = EditTabs
      /\ TabIs(entry[tab], doing[tab], shown[tab])
  BY <1>1, OthersRest
<1>3. PICK u : u = Intents!Unresolved
  OBVIOUS
<1>4. PICK e : e = IF cached THEN entry[tab] ELSE Intents!NoEntry
  OBVIOUS
<1>5. TabIs(e, Intents!Idle, u)
  <2>1. CASE e = entry[tab]
    BY <1>2, <1>3, <2>1, IdleIs, UnresolvedAreThere DEF TabIs
  <2>2. CASE e = Intents!NoEntry
    BY <1>2, <1>3, <2>2, IdleIs, NoEntryIs, UnresolvedAreThere DEF TabIs
  <2> QED BY <1>4, <2>1, <2>2
<1>6. TabMoves(tab, e, Intents!Idle, u)
  BY <1>2, <1>3, <1>4 DEF TabMoves, Intents!Reopen
<1>9. UNCHANGED <<intents, recorded>>
  BY <1>1
<1>10. ConfirmedHolds' /\ \A r \in wire' : EditRequestHolds(r)'
  BY <1>1, <1>2
<1> QED BY <1>9, <1>10, <1>5, <1>6, TabStep

\* The server moves and one tab, or none, learns of it.
LEMMA ServerStep ==
    ASSUME IntentInv, IntentsHold', ServerGrows, UNCHANGED confirmed,
           \A r \in wire' : r \in wire \/ EditRequestHolds(r)',
           TabsHold'
    PROVE  IntentInv'
<1>1. ConfirmedHolds'
  BY ConfirmedKept DEF IntentInv
<1>2. \A r \in wire' : EditRequestHolds(r)'
  BY RequestKept DEF IntentInv
<1> QED BY <1>1, <1>2 DEF IntentInv

LEMMA AnswerMoves ==
    ASSUME TabsHold, ServerGrows, NEW t \in EditTabs, NEW e, NEW d, NEW s,
           e = entry[t] \/ e = Intents!NoEntry, {"at", "intent"} \subseteq DOMAIN d, d.at \notin {"listing", "reading"},
           d.intent # 0 => d.intent \in DOMAIN intents, s \subseteq DOMAIN intents',
           TabMoves(t, e, d, s)
    PROVE  TabsHold'
<1>1. PICK f, c, u : f = entry[t] /\ c = doing[t] /\ u = shown[t]
  OBVIOUS
<1>2. TabIs(f, c, u)'
  BY <1>1, TabIsKept DEF TabsHold
<1>3. d.intent # 0 => d.intent \in DOMAIN intents'
  BY DEF ServerGrows
<1>4. CASE e = f
  <2>1. TabIs(e, d, s)'
    BY <1>2, <1>3, <1>4 DEF TabIs
  <2> QED BY <2>1, TabsKept
<1>5. CASE e = Intents!NoEntry
  <2>1. TabIs(e, d, s)'
    BY <1>3, <1>5, NoEntryIs DEF TabIs
  <2> QED BY <2>1, TabsKept
<1> QED BY <1>1, <1>4, <1>5

LEMMA PrepareStep ==
    ASSUME IntentInv, NEW r \in wire, Intents!PrepareIntent(r)
    PROVE  IntentInv'
<1>1. EditRequestHolds(r) /\ IntentsHold /\ TabsHold
  BY DEF IntentInv
<1>2. PICK p : p = Intents!Prepared(r)
  OBVIOUS
<1>3. /\ IntentsHold' /\ ServerGrows
      /\ r.key \in DOMAIN recorded' /\ recorded'[r.key] = p /\ p # 0 /\ p \in DOMAIN intents'
  BY <1>1, <1>2, PrepareKeeps
<1>4. UNCHANGED confirmed /\ wire' = wire \ {r}
  BY DEF Intents!PrepareIntent, Intents!Ends
<1>5. CASE Intents!Ends(r, "preparing")
  <2>1. TabsHold'
    BY <1>1, <1>3, <1>5, TabsStay DEF Intents!Ends
  <2> QED BY <1>3, <1>4, <2>1, ServerStep
<1>6. CASE /\ Intents!Awaited(r, "preparing")
           /\ entry' = [entry EXCEPT ![r.tab].intent = Intents!Prepared(r)]
           /\ doing' = [doing EXCEPT ![r.tab] = [at |-> "reading", intent |-> Intents!Prepared(r)]]
           /\ UNCHANGED shown
  <2>1. r.tab \in EditTabs
    BY <1>1 DEF EditRequestHolds
  <2>2. PICK t \in EditTabs : t = r.tab
    BY <2>1
  <2>3. PICK e, s : e = entry[t] /\ s = shown[t]
    OBVIOUS
  <2>4. PICK f : f = [e EXCEPT !.intent = p]
    OBVIOUS
  <2>5. PICK b : b = [at |-> "reading", intent |-> p]
    OBVIOUS
  <2>6. {"content", "key", "intent"} \subseteq DOMAIN e /\ s \subseteq DOMAIN intents /\ e.key = r.key
    BY <1>1, <1>6, <2>2, <2>3 DEF TabsHold, TabIs, Intents!Awaited
  <2>7. {"content", "key", "intent"} \subseteq DOMAIN f /\ f.key = r.key /\ f.intent = p
    BY <2>4, <2>6
  <2>8. {"at", "intent"} \subseteq DOMAIN b /\ b.at = "reading" /\ b.intent = p
    BY <2>5
  <2>9. s \subseteq DOMAIN intents'
    BY <1>3, <2>6 DEF ServerGrows
  <2>10. TabIs(f, b, s)'
    BY <1>3, <2>7, <2>8, <2>9 DEF TabIs
  <2>11. TabMoves(t, f, b, s)
    <3>1. entry' = [entry EXCEPT ![t] = f]
      BY <1>2, <1>6, <2>2, <2>3, <2>4
    <3>2. doing' = [doing EXCEPT ![t] = b]
      BY <1>2, <1>6, <2>2, <2>5
    <3> QED BY <1>1, <1>6, <2>3, <3>1, <3>2 DEF TabMoves, TabsHold
  <2>12. TabsHold'
    BY <1>1, <1>3, <2>10, <2>11, TabsKept
  <2> QED BY <1>3, <1>4, <2>12, ServerStep
<1> QED BY <1>5, <1>6 DEF Intents!PrepareIntent

LEMMA RefuseIntentStep ==
    ASSUME IntentInv, NEW r \in wire, Intents!RefuseIntent(r)
    PROVE  IntentInv'
<1>1. EditRequestHolds(r) /\ IntentsHold /\ TabsHold
  BY DEF IntentInv
<1>2. UNCHANGED <<intents, recorded, confirmed>> /\ wire' = wire \ {r}
  BY DEF Intents!RefuseIntent
<1>3. IntentsHold' /\ ServerGrows
  BY <1>1, <1>2, ServerRests
<1>4. CASE Intents!Awaited(r, "preparing")
  <2>1. PICK t \in EditTabs : t = r.tab
    BY <1>1 DEF EditRequestHolds
  <2>2. PICK s : s = Intents!Unresolved
    OBVIOUS
  <2>3. TabMoves(t, Intents!NoEntry, Intents!Idle, s)
    BY <1>1, <1>4, <2>1, <2>2 DEF TabMoves, TabsHold, Intents!RefuseIntent
  <2>4. s \subseteq DOMAIN intents'
    BY <1>2, <2>2, UnresolvedAreThere
  <2>5. TabsHold'
    BY <1>1, <1>3, <2>3, <2>4, AnswerMoves, IdleIs
  <2> QED BY <1>2, <1>3, <2>5, ServerStep
<1>5. CASE ~Intents!Awaited(r, "preparing")
  <2>1. TabsHold'
    BY <1>1, <1>3, <1>5, TabsStay DEF Intents!RefuseIntent
  <2> QED BY <1>2, <1>3, <2>1, ServerStep
<1> QED BY <1>4, <1>5

LEMMA ApplyStep ==
    ASSUME IntentInv, NEW r \in wire, Intents!ApplyIntent(r)
    PROVE  IntentInv'
<1>1. EditRequestHolds(r) /\ IntentsHold /\ TabsHold
  BY DEF IntentInv
<1>2. IntentsHold' /\ ServerGrows
  BY <1>1, ApplyKeeps
<1>3. UNCHANGED <<recorded, confirmed>> /\ r.op = "apply"
  BY DEF Intents!ApplyIntent, Intents!Arrived
<1>4. CASE Intents!Ends(r, "applying")
  <2>1. TabsHold' /\ wire' = wire \ {r}
    BY <1>1, <1>2, <1>4, TabsStay DEF Intents!Ends
  <2> QED BY <1>2, <1>3, <2>1, ServerStep
<1>5. CASE /\ Intents!Awaited(r, "applying")
           /\ wire' = (wire \ {r}) \cup {[r EXCEPT !.op = "acknowledge"]}
           /\ doing' = [doing EXCEPT ![r.tab].at = "acknowledging"]
           /\ UNCHANGED <<entry, shown>>
  <2>1. PICK t \in EditTabs : t = r.tab
    BY <1>1 DEF EditRequestHolds
  <2>2. PICK e, d, s : e = entry[t] /\ d = doing[t] /\ s = shown[t]
    OBVIOUS
  <2>3. PICK b : b = [d EXCEPT !.at = "acknowledging"]
    OBVIOUS
  <2>4. TabIs(e, d, s)
    BY <1>1, <2>2 DEF TabsHold
  <2>5. {"at", "intent"} \subseteq DOMAIN b /\ b.at = "acknowledging" /\ b.intent = d.intent
    BY <2>3, <2>4 DEF TabIs
  <2>6. doing' = [doing EXCEPT ![t] = b]
    BY <1>5, <2>1, <2>2, <2>3
  <2>7. TabMoves(t, e, b, s)
    BY <1>1, <1>5, <2>2, <2>6 DEF TabMoves, TabsHold
  <2>8. s \subseteq DOMAIN intents' /\ (b.intent # 0 => b.intent \in DOMAIN intents)
    BY <1>2, <2>4, <2>5 DEF TabIs, ServerGrows
  <2>9. TabsHold'
    BY <1>1, <1>2, <2>2, <2>5, <2>7, <2>8, AnswerMoves
  <2>10. PICK q : q = [r EXCEPT !.op = "acknowledge"]
    OBVIOUS
  <2>11. q.tab = r.tab /\ q.op = "acknowledge" /\ q.intent = r.intent /\ "op" \in DOMAIN q
    BY <1>1, <2>10 DEF EditRequestHolds
  <2>12. EditRequestHolds(q)'
    BY <1>1, <1>2, <1>3, <2>11 DEF EditRequestHolds, ServerGrows
  <2>13. \A x \in wire' : x \in wire \/ EditRequestHolds(x)'
    BY <1>5, <2>10, <2>12
  <2> QED BY <1>2, <1>3, <2>9, <2>13, ServerStep
<1> QED BY <1>4, <1>5 DEF Intents!ApplyIntent

LEMMA RefuseApplyStep ==
    ASSUME IntentInv, NEW r \in wire, Intents!RefuseApply(r)
    PROVE  IntentInv'
<1>1. EditRequestHolds(r) /\ IntentsHold /\ TabsHold
  BY DEF IntentInv
<1>2. UNCHANGED <<intents, recorded, confirmed>> /\ wire' = wire \ {r}
  BY DEF Intents!RefuseApply, Intents!Ends
<1>3. IntentsHold' /\ ServerGrows
  BY <1>1, <1>2, ServerRests
<1>4. CASE Intents!Ends(r, "applying")
  <2>1. TabsHold'
    BY <1>1, <1>3, <1>4, TabsStay DEF Intents!Ends
  <2> QED BY <1>2, <1>3, <2>1, ServerStep
<1>5. CASE /\ doing' = [doing EXCEPT ![r.tab] = Intents!Idle]
           /\ shown' = [shown EXCEPT ![r.tab] = Intents!Unresolved]
           /\ UNCHANGED entry
  <2>1. PICK t \in EditTabs : t = r.tab
    BY <1>1 DEF EditRequestHolds
  <2>2. PICK e, s : e = entry[t] /\ s = Intents!Unresolved
    OBVIOUS
  <2>3. TabMoves(t, e, Intents!Idle, s)
    BY <1>1, <1>5, <2>1, <2>2 DEF TabMoves, TabsHold
  <2>4. s \subseteq DOMAIN intents'
    BY <1>2, <2>2, UnresolvedAreThere
  <2>5. TabsHold'
    BY <1>1, <1>3, <2>2, <2>3, <2>4, AnswerMoves, IdleIs
  <2> QED BY <1>2, <1>3, <2>5, ServerStep
<1> QED BY <1>4, <1>5 DEF Intents!RefuseApply

\* The tab that waited knows that the intent is over.
LEMMA SettledMoves ==
    ASSUME TabsHold, NEW r, NEW at, r.tab \in EditTabs, Intents!Settled(r, at), ServerGrows, NEW d,
           doing' = [doing EXCEPT ![r.tab] = d],
           {"at", "intent"} \subseteq DOMAIN d, d.at \notin {"listing", "reading"},
           d.intent # 0 => d.intent \in DOMAIN intents
    PROVE  TabsHold'
<1>1. PICK t \in EditTabs : t = r.tab
  OBVIOUS
<1>2. PICK e : e = IF entry[t].intent = r.intent THEN Intents!NoEntry ELSE entry[t]
  OBVIOUS
<1>3. PICK s : s = shown[t] \ {r.intent}
  OBVIOUS
<1>4. s \subseteq DOMAIN intents'
  BY <1>3 DEF TabsHold, TabIs, ServerGrows
<1>5. e = entry[t] \/ e = Intents!NoEntry
  BY <1>2
<1>6. TabMoves(t, e, d, s)
  <2>1. DOMAIN entry' = EditTabs /\ \A x \in EditTabs : entry'[x] = IF x = t THEN e ELSE entry[x]
    <3>1. CASE entry[t].intent = r.intent
      BY <1>1, <1>2, <3>1 DEF TabsHold, Intents!Settled
    <3>2. CASE entry[t].intent # r.intent
      BY <1>1, <1>2, <3>2 DEF TabsHold, Intents!Settled
    <3> QED BY <3>1, <3>2
  <2>2. DOMAIN shown' = EditTabs /\ \A x \in EditTabs : shown'[x] = IF x = t THEN s ELSE shown[x]
    BY <1>1, <1>3 DEF TabsHold, Intents!Settled
  <2>3. DOMAIN doing' = EditTabs /\ \A x \in EditTabs : doing'[x] = IF x = t THEN d ELSE doing[x]
    BY <1>1 DEF TabsHold
  <2> QED BY <2>1, <2>2, <2>3 DEF TabMoves
<1> QED BY <1>4, <1>5, <1>6, AnswerMoves

LEMMA AcknowledgeStep ==
    ASSUME IntentInv, NEW r \in wire, Intents!AcknowledgeIntent(r)
    PROVE  IntentInv'
<1>1. EditRequestHolds(r) /\ IntentsHold /\ TabsHold /\ r.tab \in EditTabs
  BY DEF IntentInv, EditRequestHolds
<1>2. IntentsHold' /\ ServerGrows
  BY <1>1, AcknowledgeKeeps
<1>3. UNCHANGED confirmed /\ wire' = wire \ {r}
  BY DEF Intents!AcknowledgeIntent, Intents!Ends
<1>4. CASE Intents!Ends(r, "acknowledging")
  <2>1. TabsHold'
    BY <1>1, <1>2, <1>4, TabsStay DEF Intents!Ends
  <2> QED BY <1>2, <1>3, <2>1, ServerStep
<1>5. CASE Intents!Settled(r, "acknowledging") /\ doing' = [doing EXCEPT ![r.tab] = Intents!Idle]
  <2>1. TabsHold'
    BY <1>1, <1>2, <1>5, SettledMoves, IdleIs
  <2> QED BY <1>2, <1>3, <2>1, ServerStep
<1> QED BY <1>4, <1>5 DEF Intents!AcknowledgeIntent

LEMMA CancelIntentStep ==
    ASSUME IntentInv, NEW r \in wire, Intents!CancelIntent(r)
    PROVE  IntentInv'
<1>1. EditRequestHolds(r) /\ IntentsHold /\ TabsHold /\ r.tab \in EditTabs
  BY DEF IntentInv, EditRequestHolds
<1>2. IntentsHold' /\ ServerGrows
  BY <1>1, CancelKeeps
<1>3. UNCHANGED <<recorded, confirmed>> /\ r.op = "cancel"
  BY DEF Intents!CancelIntent, Intents!Arrived
<1>4. CASE Intents!Ends(r, "cancelling")
  <2>1. TabsHold' /\ wire' = wire \ {r}
    BY <1>1, <1>2, <1>4, TabsStay DEF Intents!Ends
  <2> QED BY <1>2, <1>3, <2>1, ServerStep
<1>5. CASE /\ Intents!Settled(r, "cancelling")
           /\ wire' = (wire \ {r}) \cup {[r EXCEPT !.op = "acknowledge"]}
           /\ doing' = [doing EXCEPT ![r.tab].at = "acknowledging"]
  <2>1. PICK t, d : t = r.tab /\ d = doing[t]
    OBVIOUS
  <2>2. PICK b : b = [d EXCEPT !.at = "acknowledging"]
    OBVIOUS
  <2>3. {"at", "intent"} \subseteq DOMAIN d /\ (d.intent # 0 => d.intent \in DOMAIN intents)
    BY <1>1, <2>1 DEF TabsHold, TabIs
  <2>4. {"at", "intent"} \subseteq DOMAIN b /\ b.at = "acknowledging" /\ b.intent = d.intent
    BY <2>2, <2>3
  <2>5. doing' = [doing EXCEPT ![r.tab] = b]
    BY <1>5, <2>1, <2>2
  <2>6. TabsHold'
    <3>1. b.at \notin {"listing", "reading"} /\ (b.intent # 0 => b.intent \in DOMAIN intents)
      BY <2>3, <2>4
    <3>2. Intents!Settled(r, "cancelling") /\ {"at", "intent"} \subseteq DOMAIN b
      BY <1>5, <2>4
    <3> QED BY <1>1, <1>2, <2>5, <3>1, <3>2, SettledMoves
  <2>7. PICK q : q = [r EXCEPT !.op = "acknowledge"]
    OBVIOUS
  <2>8. q.tab = r.tab /\ q.op = "acknowledge" /\ q.intent = r.intent /\ "op" \in DOMAIN q
    BY <1>1, <2>7 DEF EditRequestHolds
  <2>9. EditRequestHolds(q)'
    BY <1>1, <1>2, <1>3, <2>8 DEF EditRequestHolds, ServerGrows
  <2>10. \A x \in wire' : x \in wire \/ EditRequestHolds(x)'
    BY <1>5, <2>7, <2>9
  <2> QED BY <1>2, <1>3, <2>6, <2>10, ServerStep
<1>6. CASE Intents!Settled(r, "cancelling") /\ wire' = wire \ {r} /\ doing' = [doing EXCEPT ![r.tab] = Intents!Idle]
  <2>1. TabsHold'
    BY <1>1, <1>2, <1>6, SettledMoves, IdleIs
  <2> QED BY <1>2, <1>3, <1>6, <2>1, ServerStep
<1> QED BY <1>4, <1>5, <1>6 DEF Intents!CancelIntent

LEMMA IntentStep == IntentInv /\ [Intents!IntentNext]_intentVars => IntentInv'
<1> SUFFICES ASSUME IntentInv, [Intents!IntentNext]_intentVars PROVE IntentInv'
  OBVIOUS
<1>1. CASE UNCHANGED intentVars
  <2>1. UNCHANGED <<intents, recorded, confirmed, entry, doing, shown, wire>>
    BY <1>1 DEF intentVars
  <2>2. IntentsHold' /\ ServerGrows
    BY <2>1, ServerRests DEF IntentInv
  <2>3. TabsHold'
    BY <2>1, <2>2, TabsStay DEF IntentInv
  <2> QED BY <2>1, <2>2, <2>3, ServerStep
<1>2. ASSUME NEW tab \in EditTabs, NEW content, Intents!Run(tab, content) PROVE IntentInv'
  BY <1>2, RunStep
<1>3. ASSUME NEW tab \in EditTabs, Intents!Recover(tab) \/ Intents!ReadBack(tab) \/ Intents!GiveUp(tab) PROVE IntentInv'
  BY <1>3, RecoverStep, ReadBackStep, GiveUpStep
<1>4. ASSUME NEW tab \in EditTabs, NEW i \in shown[tab], Intents!Continue(tab, i) \/ Intents!Cancel(tab, i) PROVE IntentInv'
  BY <1>4, ContinueStep, CancelStep
<1>5. ASSUME NEW tab \in EditTabs, NEW cached, Intents!Reopen(tab, cached) PROVE IntentInv'
  BY <1>5, ReopenStep
<1>6. ASSUME NEW r \in wire, Intents!PrepareIntent(r) \/ Intents!RefuseIntent(r) \/ Intents!ApplyIntent(r) PROVE IntentInv'
  BY <1>6, PrepareStep, RefuseIntentStep, ApplyStep
<1>7. ASSUME NEW r \in wire, Intents!RefuseApply(r) \/ Intents!AcknowledgeIntent(r) \/ Intents!CancelIntent(r) PROVE IntentInv'
  BY <1>7, RefuseApplyStep, AcknowledgeStep, CancelIntentStep
<1> QED BY <1>1, <1>2, <1>3, <1>4, <1>5, <1>6, <1>7 DEF Intents!IntentNext

\* The cardinality of LeadIntents is the one of the theorems on finite sets.
LEMMA EditCardinality == \A S : Intents!Cardinality(S) = Cardinality(S)
BY DEF Intents!Cardinality, Cardinality

\* What a key was answered with is the only intent its edit went on to apply.
LEMMA IntentIsTrue == IntentInv => Intents!EditWrittenOnce
<1> SUFFICES ASSUME IntentInv PROVE Intents!EditWrittenOnce
  OBVIOUS
<1>1. ASSUME NEW key \in DOMAIN recorded
      PROVE  Cardinality({i \in DOMAIN intents : <<key, i>> \in confirmed /\ intents[i].writes > 0}) <= 1
  <2>1. PICK S : S = {i \in DOMAIN intents : <<key, i>> \in confirmed /\ intents[i].writes > 0}
    OBVIOUS
  <2>2. \A i \in S : i = recorded[key]
    BY <2>1 DEF IntentInv, ConfirmedHolds
  <2>3. S = {} \/ S = {recorded[key]}
    BY <2>2
  <2>4. Cardinality(S) <= 1
    <3>1. CASE S = {}
      BY <3>1, FS_EmptySet
    <3>2. CASE S = {recorded[key]}
      <4>1. Cardinality({recorded[key]}) = 1
        BY FS_Singleton
      <4> QED BY <3>2, <4>1
    <3> QED BY <2>3, <3>1, <3>2
  <2> QED BY <2>1, <2>4
<1> QED BY <1>1, EditCardinality DEF Intents!EditWrittenOnce, IntentInv, IntentsHold, IntentHolds, OneIsOpen

----------------------------------------------------------------------------
\* Quotes for contact lookups, and what the theorem about spending rests on.

VARIABLES prospects, tariff, readers, quotes, lookups, shifts
quoteVars == <<prospects, tariff, readers, quotes, lookups, shifts>>

Quotes == INSTANCE ContactQuotes WITH
    Workspaces <- QuoteWorkspaces, MaxChanges <- MaxQuoteChanges

\* A quote that became an order is consumed, and what it shows is of the buyers
\* it names.
QuoteFields == {"status", "lines", "versions", "lapsed"}
QuoteInv ==
    /\ IsSeq(quotes) /\ IsSeq(lookups)
    /\ \A n \in DOMAIN quotes : /\ QuoteFields \subseteq DOMAIN quotes[n]
                                /\ DOMAIN quotes[n].lines = DOMAIN quotes[n].versions
    /\ \A k \in DOMAIN lookups : /\ "quote" \in DOMAIN lookups[k] /\ lookups[k].quote \in DOMAIN quotes
                                 /\ quotes[lookups[k].quote].status = "consumed"

LEMMA QuoteStart == Quotes!QuotesInit => QuoteInv
<1>1. IsSeq(<< >>)
  <2>1. << >> \in Seq({})
    OBVIOUS
  <2> QED BY <2>1 DEF IsSeq
<1> QED BY <1>1 DEF Quotes!QuotesInit, QuoteInv

\* The preview.
LEMMA QuoteKeeps == ASSUME QuoteInv, NEW m \in Quotes!Members, Quotes!QuoteLookup(m) PROVE QuoteInv'
<1>1. CASE quotes' = quotes
  BY <1>1 DEF QuoteInv, Quotes!QuoteLookup
<1>2. CASE quotes' # quotes
  <2>1. PICK q : /\ quotes' = Append(quotes, q) /\ q.lines = Quotes!Lines(readers[m].versions, readers[m].active)
                 /\ q.versions = readers[m].versions /\ QuoteFields \subseteq DOMAIN q
    BY <1>2 DEF Quotes!QuoteLookup, QuoteFields
  <2>2. DOMAIN q.lines = DOMAIN q.versions
    BY <2>1 DEF Quotes!Lines
  <2>3. /\ IsSeq(quotes') /\ DOMAIN quotes \subseteq DOMAIN quotes'
        /\ \A n \in DOMAIN quotes' : (n \in DOMAIN quotes /\ quotes'[n] = quotes[n]) \/ quotes'[n] = q
        /\ \A n \in DOMAIN quotes : quotes'[n] = quotes[n]
    BY <2>1, IsAppended DEF QuoteInv
  <2>4. lookups' = lookups
    BY DEF Quotes!QuoteLookup
  <2> QED BY <2>1, <2>2, <2>3, <2>4 DEF QuoteInv
<1> QED BY <1>1, <1>2

\* A quote that is open is in no order.
LEMMA OpenQuoteIsUnordered ==
    ASSUME QuoteInv, NEW n \in DOMAIN quotes, Quotes!Open(n)
    PROVE  \A k \in DOMAIN lookups : lookups[k].quote # n
BY DEF QuoteInv, Quotes!Open

\* A quote whose status or lapse is set.
LEMMA QuoteEnds ==
    ASSUME QuoteInv, NEW n \in DOMAIN quotes, Quotes!Open(n), NEW row,
           QuoteFields \subseteq DOMAIN row, row.lines = quotes[n].lines, row.versions = quotes[n].versions,
           quotes' = [quotes EXCEPT ![n] = row], UNCHANGED lookups
    PROVE  QuoteInv'
<1>1. /\ IsSeq(quotes') /\ DOMAIN quotes' = DOMAIN quotes
      /\ \A i \in DOMAIN quotes : quotes'[i] = IF i = n THEN row ELSE quotes[i]
  BY IsReplaced DEF QuoteInv
<1>2. \A k \in DOMAIN lookups : lookups[k].quote # n
  BY OpenQuoteIsUnordered
<1> QED BY <1>1, <1>2 DEF QuoteInv

\* The order.
LEMMA OrderKeeps == ASSUME QuoteInv, NEW n \in DOMAIN quotes, Quotes!ConfirmLookup(n) PROVE QuoteInv'
<1>1. PICK order : order = [quote |-> n, for |-> Quotes!Confirmed(n), state |-> "reserved"]
  OBVIOUS
<1>2. PICK row : row = [quotes[n] EXCEPT !.status = "consumed"]
  OBVIOUS
<1>3. /\ lookups' = Append(lookups, order) /\ quotes' = [quotes EXCEPT ![n] = row] /\ order.quote = n
  BY <1>1, <1>2 DEF Quotes!ConfirmLookup
<1>4. /\ row.lines = quotes[n].lines /\ row.versions = quotes[n].versions
      /\ QuoteFields \subseteq DOMAIN row /\ row.status = "consumed"
  BY <1>2 DEF QuoteInv, QuoteFields
<1>5. /\ IsSeq(quotes') /\ DOMAIN quotes' = DOMAIN quotes
      /\ \A i \in DOMAIN quotes : quotes'[i] = IF i = n THEN row ELSE quotes[i]
  BY <1>3, IsReplaced DEF QuoteInv
<1>6. /\ IsSeq(lookups')
      /\ \A k \in DOMAIN lookups' : (k \in DOMAIN lookups /\ lookups'[k] = lookups[k]) \/ lookups'[k] = order
  BY <1>3, IsAppended DEF QuoteInv
<1>7. ASSUME NEW k \in DOMAIN lookups'
      PROVE  /\ "quote" \in DOMAIN lookups'[k] /\ lookups'[k].quote \in DOMAIN quotes'
             /\ quotes'[lookups'[k].quote].status = "consumed"
  <2>1. CASE lookups'[k] = order
    BY <1>1, <1>3, <1>4, <1>5, <2>1
  <2>2. CASE k \in DOMAIN lookups /\ lookups'[k] = lookups[k]
    BY <1>4, <1>5, <2>2 DEF QuoteInv
  <2> QED BY <1>6, <2>1, <2>2
<1>8. \A i \in DOMAIN quotes' : QuoteFields \subseteq DOMAIN quotes'[i] /\ DOMAIN quotes'[i].lines = DOMAIN quotes'[i].versions
  BY <1>4, <1>5 DEF QuoteInv
<1> QED BY <1>5, <1>6, <1>7, <1>8 DEF QuoteInv

LEMMA QuoteStep == QuoteInv /\ [Quotes!QuotesNext]_quoteVars => QuoteInv'
<1> SUFFICES ASSUME QuoteInv, [Quotes!QuotesNext]_quoteVars PROVE QuoteInv'
  OBVIOUS
<1>1. CASE UNCHANGED <<quotes, lookups>>
  BY <1>1 DEF QuoteInv
<1>2. ASSUME NEW m \in Quotes!Members, Quotes!QuoteLookup(m) PROVE QuoteInv'
  BY <1>2, QuoteKeeps
<1>3. ASSUME NEW m \in Quotes!Members, NEW selected \in SUBSET Quotes!Prospects, Quotes!ReadActiveLookups(m, selected) PROVE QuoteInv'
  BY <1>1, <1>3 DEF Quotes!ReadActiveLookups
<1>4. ASSUME NEW n \in DOMAIN quotes, Quotes!ConfirmLookup(n) PROVE QuoteInv'
  BY <1>4, OrderKeeps
<1>5. ASSUME NEW n \in DOMAIN quotes, Quotes!CancelQuote(n) \/ Quotes!QuoteLapses(n) PROVE QuoteInv'
  <2>1. PICK row : /\ row = [quotes[n] EXCEPT !.status = "cancelled"] \/ row = [quotes[n] EXCEPT !.lapsed = TRUE]
                   /\ quotes' = [quotes EXCEPT ![n] = row]
    BY <1>5 DEF Quotes!CancelQuote, Quotes!QuoteLapses
  <2>2. QuoteFields \subseteq DOMAIN row /\ row.lines = quotes[n].lines /\ row.versions = quotes[n].versions
    BY <2>1 DEF QuoteInv, QuoteFields
  <2>3. Quotes!Open(n) /\ UNCHANGED lookups
    BY <1>5 DEF Quotes!CancelQuote, Quotes!QuoteLapses
  <2> QED BY <2>1, <2>2, <2>3, QuoteEnds
<1>6. ASSUME NEW n \in DOMAIN lookups, NEW state \in Quotes!JobStates, Quotes!LookupGoesOn(n, state) PROVE QuoteInv'
  <2>1. PICK job : job = [lookups[n] EXCEPT !.state = state]
    OBVIOUS
  <2>2. lookups' = [lookups EXCEPT ![n] = job] /\ quotes' = quotes
    BY <1>6, <2>1 DEF Quotes!LookupGoesOn
  <2>3. "quote" \in DOMAIN job /\ job.quote = lookups[n].quote
    BY <2>1 DEF QuoteInv
  <2>4. /\ IsSeq(lookups') /\ DOMAIN lookups' = DOMAIN lookups
        /\ \A i \in DOMAIN lookups : lookups'[i] = IF i = n THEN job ELSE lookups[i]
    BY <2>2, IsReplaced DEF QuoteInv
  <2> QED BY <2>2, <2>3, <2>4 DEF QuoteInv
<1>7. ASSUME NEW b \in Quotes!Prospects, Quotes!ReviewProspect(b) \/ Quotes!PermissionChanges(b) PROVE QuoteInv'
  BY <1>1, <1>7 DEF Quotes!ReviewProspect, Quotes!PermissionChanges, Quotes!Shift
<1>8. CASE Quotes!TariffChanges
  BY <1>1, <1>8 DEF Quotes!TariffChanges, Quotes!Shift
<1> QED BY <1>1, <1>2, <1>3, <1>4, <1>5, <1>6, <1>7, <1>8 DEF Quotes!QuotesNext, quoteVars

\* What is ordered was previewed again in the same step.
LEMMA OrderIsCurrent ==
    ASSUME QuoteInv, NEW n \in DOMAIN quotes, Quotes!ConfirmLookup(n)
    PROVE  Quotes!OrderIsEligible
<1>1. PICK order : order = [quote |-> n, for |-> Quotes!Confirmed(n), state |-> "reserved"]
  OBVIOUS
<1>2. lookups'[Len(lookups')] = order /\ order.quote = n /\ order.for = Quotes!Confirmed(n)
  <2>1. lookups' = Append(lookups, order)
    BY <1>1 DEF Quotes!ConfirmLookup
  <2> QED BY <1>1, <2>1, IsAppended DEF QuoteInv
<1>3. /\ Quotes!Open(n) /\ quotes[n].tariff = tariff
      /\ Quotes!Lines(quotes[n].versions, Quotes!Active) = quotes[n].lines
  BY DEF Quotes!ConfirmLookup, Quotes!StillHolds
<1>4. \A k \in DOMAIN lookups : lookups[k].quote # n
  BY <1>3, OpenQuoteIsUnordered
<1>5. ASSUME NEW b \in Quotes!Confirmed(n) PROVE Quotes!Eligible(b, Quotes!Active)
  <2>1. PICK line : line = quotes[n].lines[b] /\ line.eligible
    BY DEF Quotes!Confirmed
  <2>2. b \in DOMAIN quotes[n].versions
    BY DEF Quotes!Confirmed, QuoteInv
  <2>3. line = Quotes!Line(b, Quotes!Active)
    BY <1>3, <2>1, <2>2 DEF Quotes!Lines
  <2>4. line.eligible = Quotes!Eligible(b, Quotes!Active)
    BY <2>3 DEF Quotes!Line
  <2> HIDE DEF Quotes!Eligible
  <2> QED BY <2>1, <2>4
<1>6. Quotes!OrderedOnce(order)
  BY <1>2, <1>3, <1>4, <1>5 DEF Quotes!OrderedOnce
<1> QED BY <1>2, <1>6 DEF Quotes!OrderIsEligible

LEMMA OrdersAreEligible == QuoteInv /\ [Quotes!QuotesNext]_quoteVars => Quotes!OrderIsEligible
<1> SUFFICES ASSUME QuoteInv, [Quotes!QuotesNext]_quoteVars PROVE Quotes!OrderIsEligible
  OBVIOUS
<1>1. ASSUME NEW n \in DOMAIN quotes, Quotes!ConfirmLookup(n) PROVE Quotes!OrderIsEligible
  BY <1>1, OrderIsCurrent
<1>2. ASSUME Len(lookups') = Len(lookups) PROVE Quotes!OrderIsEligible
  <2>1. Len(lookups) \in Nat
    BY DEF QuoteInv, IsSeq
  <2> QED BY <1>2, <2>1 DEF Quotes!OrderIsEligible
<1>3. CASE UNCHANGED lookups
  BY <1>2, <1>3
<1>4. ASSUME NEW n \in DOMAIN lookups, NEW state \in Quotes!JobStates, Quotes!LookupGoesOn(n, state) PROVE Quotes!OrderIsEligible
  <2>1. PICK job : lookups' = [lookups EXCEPT ![n] = job]
    BY <1>4 DEF Quotes!LookupGoesOn
  <2> QED BY <1>2, <2>1, IsReplaced DEF QuoteInv
<1>5. ASSUME NEW m \in Quotes!Members, NEW selected \in SUBSET Quotes!Prospects, Quotes!QuoteLookup(m) \/ Quotes!ReadActiveLookups(m, selected)
      PROVE  Quotes!OrderIsEligible
  BY <1>3, <1>5 DEF Quotes!QuoteLookup, Quotes!ReadActiveLookups
<1>6. ASSUME NEW n \in DOMAIN quotes, Quotes!CancelQuote(n) \/ Quotes!QuoteLapses(n) PROVE Quotes!OrderIsEligible
  BY <1>3, <1>6 DEF Quotes!CancelQuote, Quotes!QuoteLapses
<1>7. ASSUME NEW b \in Quotes!Prospects, Quotes!ReviewProspect(b) \/ Quotes!PermissionChanges(b) \/ Quotes!TariffChanges PROVE Quotes!OrderIsEligible
  BY <1>3, <1>7 DEF Quotes!ReviewProspect, Quotes!PermissionChanges, Quotes!TariffChanges, Quotes!Shift
<1>8. CASE Quotes!TariffChanges
  BY <1>3, <1>8 DEF Quotes!TariffChanges, Quotes!Shift
<1>9. ASSUME NEW m \in Quotes!Members, Quotes!QuoteLookup(m) PROVE Quotes!OrderIsEligible
  BY <1>3, <1>9 DEF Quotes!QuoteLookup
<1>10. CASE Quotes!QuotesNext
  BY <1>1, <1>4, <1>5, <1>6, <1>7, <1>8, <1>9, <1>10 DEF Quotes!QuotesNext
<1>11. CASE UNCHANGED quoteVars
  BY <1>3, <1>11 DEF quoteVars
<1> QED BY <1>10, <1>11

----------------------------------------------------------------------------
\* Connections to Xverum, and what the theorem about spending rests on.

VARIABLES rows, assigned, entitled, secrets, admins, callers, tombstoned,
          mishaps
connectionVars == <<rows, assigned, entitled, secrets, admins, callers,
    tombstoned, mishaps>>

Connection == INSTANCE XverumConnection WITH
    Workspaces <- ConnectionSets, Projects <- AssignedProjects,
    MaxVersion <- MaxConnectionVersion, MaxFailures <- MaxMishaps

\* Nothing is called "none" but what is none.
ASSUME ConnectionAssumption == \A w \in ConnectionSets : "none" \notin w

\* Connections, credentials and the requests of administrators and callers.
ConnectionRecord == [status : {"configuration_required", "connected", "disconnected"}, generation : Nat, version : Nat]
SecretRecord == [staged : Nat, revoked : Nat]
RequestRecord == [step : {"read", "revoking", "prepared", "refreshed"}, at : Connection!Connections, generation : Nat,
                  status : {"none", "configuration_required", "connected", "disconnected"}, version : Nat]
CallerStages == {"ordered", "checked", "refused", "resolved", "opening", "dispatching", "answered", "unknown", "accepted"}
CallerRecord == [step : CallerStages, project : AssignedProjects, at : Connection!Connections, generation : Nat]

ConnectionTypes ==
    /\ "none" \notin Connection!Connections
    /\ rows \in [Connection!Connections -> ConnectionRecord] /\ secrets \in [Connection!Connections -> SecretRecord]
    /\ admins \in [Admins -> RequestRecord \cup {Connection!Idle}] /\ callers \in [Callers -> CallerRecord \cup {Connection!NoCall}]

\* The generation in force is staged and not revoked, and nothing newer is
\* revoked.
SecretHolds(c) ==
    /\ secrets[c].revoked <= rows[c].generation
    /\ rows[c].status = "connected" => secrets[c].revoked < rows[c].generation /\ rows[c].generation <= secrets[c].staged

\* What is being revoked is over, and what was refreshed is staged.
RequestHolds(r) ==
    /\ r.step = "revoking" => /\ r.generation <= rows[r.at].generation
                              /\ rows[r.at].status = "connected" => r.generation < rows[r.at].generation
    /\ r.step = "refreshed" => r.generation + 1 <= secrets[r.at].staged

\* A call was ordered with a generation there was; what a disconnect took away
\* is of an earlier one; and what is used is of no connection that was cut.
CallerHolds(k) ==
    LET call == callers[k] IN
    /\ call.step # "idle" => call.generation <= rows[call.at].generation
    /\ k \in tombstoned => call.step # "idle" /\ call.generation < rows[call.at].generation
    /\ call.step = "accepted" /\ k \notin tombstoned => rows[call.at].status # "disconnected"

OneConnection == \A x, y \in assigned : x[1] = y[1] => x = y

ConnectionInv ==
    /\ ConnectionTypes /\ OneConnection /\ assigned \subseteq AssignedProjects \X Connection!Connections
    /\ \A c \in Connection!Connections : SecretHolds(c)
    /\ \A a \in Admins : admins[a] # Connection!Idle => RequestHolds(admins[a])
    /\ \A k \in Callers : CallerHolds(k)

\* At the start everything is connected in its first generation.
LEMMA ConnectionStart == ConnectionAssumption /\ Connection!ConnectionInit => ConnectionInv
<1> SUFFICES ASSUME ConnectionAssumption, Connection!ConnectionInit PROVE ConnectionInv
  OBVIOUS
<1>1. PICK w \in ConnectionSets : /\ rows = [c \in w |-> [status |-> "connected", generation |-> 1, version |-> 1]]
                                  /\ secrets = [c \in w |-> [staged |-> 1, revoked |-> 0]]
  BY DEF Connection!ConnectionInit
<1>2. Connection!Connections = w /\ "none" \notin Connection!Connections
  BY <1>1 DEF Connection!Connections, ConnectionAssumption
<1>3. rows \in [Connection!Connections -> ConnectionRecord] /\ secrets \in [Connection!Connections -> SecretRecord]
  BY <1>1, <1>2 DEF ConnectionRecord, SecretRecord
<1>4. ConnectionTypes
  BY <1>2, <1>3 DEF ConnectionTypes, Connection!ConnectionInit
<1>5. \A c \in Connection!Connections : SecretHolds(c)
  BY <1>1, <1>2 DEF SecretHolds
<1>6. OneConnection /\ assigned \subseteq AssignedProjects \X Connection!Connections
  BY DEF Connection!ConnectionInit, OneConnection
<1>7. \A k \in Callers : CallerHolds(k)
  BY DEF Connection!ConnectionInit, CallerHolds, Connection!NoCall
<1> QED BY <1>4, <1>5, <1>6, <1>7 DEF ConnectionInv, Connection!ConnectionInit

\* The connection c goes on to a generation that is new.
LEMMA RowGoesOn ==
    ASSUME ConnectionInv, NEW c \in Connection!Connections, NEW r \in ConnectionRecord,
           rows' = [rows EXCEPT ![c] = r], r.generation = rows[c].generation + 1,
           r.status = "connected" => r.generation <= secrets[c].staged,
           UNCHANGED <<secrets, callers>>, tombstoned \subseteq tombstoned',
           \A k \in tombstoned' : k \in tombstoned \/ callers[k].at = c,
           \A k \in Callers : r.status = "disconnected" /\ callers[k].at = c => k \in tombstoned'
    PROVE  /\ rows' \in [Connection!Connections -> ConnectionRecord] /\ Connection!Connections' = Connection!Connections
           /\ \A d \in Connection!Connections : /\ SecretHolds(d)' /\ rows[d].generation <= rows'[d].generation
                                                /\ rows[d].generation \in Nat /\ rows'[d].generation \in Nat
           /\ \A q \in RequestRecord : RequestHolds(q) => RequestHolds(q)'
           /\ \A k \in Callers : CallerHolds(k)'
<1>1. /\ rows \in [Connection!Connections -> ConnectionRecord] /\ secrets \in [Connection!Connections -> SecretRecord]
      /\ callers \in [Callers -> CallerRecord \cup {Connection!NoCall}] /\ "none" \notin Connection!Connections
  BY DEF ConnectionInv, ConnectionTypes
<1>2. \A d \in Connection!Connections : rows[d].generation \in Nat /\ secrets[d].revoked \in Nat /\ secrets[d].staged \in Nat
  BY <1>1 DEF ConnectionRecord, SecretRecord
<1>3. /\ rows' \in [Connection!Connections -> ConnectionRecord] /\ DOMAIN rows' = Connection!Connections
      /\ \A d \in Connection!Connections : rows'[d] = IF d = c THEN r ELSE rows[d]
  BY <1>1
<1>4. \A d \in Connection!Connections : /\ rows[d].generation <= rows'[d].generation /\ rows'[d].generation \in Nat
                                        /\ d = c => rows'[d].generation = rows[d].generation + 1
                                        /\ d # c => rows'[d] = rows[d]
  BY <1>2, <1>3
<1>5. ASSUME NEW d \in Connection!Connections PROVE SecretHolds(d)'
  <2>1. SecretHolds(d) /\ secrets' = secrets
    BY DEF ConnectionInv
  <2>2. CASE d = c
    BY <1>2, <1>3, <2>1, <2>2 DEF SecretHolds
  <2>3. CASE d # c
    BY <1>4, <2>1, <2>3 DEF SecretHolds
  <2> QED BY <2>2, <2>3
<1>6. ASSUME NEW q \in RequestRecord, RequestHolds(q) PROVE RequestHolds(q)'
  <2>1. q.at \in Connection!Connections /\ q.generation \in Nat
    BY DEF RequestRecord
  <2>2. CASE q.at = c
    BY <1>2, <1>3, <1>4, <1>6, <2>1, <2>2 DEF RequestHolds
  <2>3. CASE q.at # c
    BY <1>4, <1>6, <2>1, <2>3 DEF RequestHolds
  <2> QED BY <2>2, <2>3
<1>7. ASSUME NEW k \in Callers PROVE CallerHolds(k)'
  <2>1. PICK call \in CallerRecord \cup {Connection!NoCall} : call = callers[k] /\ callers'[k] = call
    BY <1>1
  <2>2. CASE call = Connection!NoCall
    <3>1. k \notin tombstoned /\ call.at \notin Connection!Connections
      <4>1. CallerHolds(k)
        BY DEF ConnectionInv
      <4>2. callers[k].step = "idle" /\ call.at = "none"
        BY <2>1, <2>2 DEF Connection!NoCall
      <4> QED BY <1>1, <4>1, <4>2 DEF CallerHolds
    <3>2. k \notin tombstoned'
      BY <2>1, <3>1
    <3> QED BY <2>1, <2>2, <3>2 DEF CallerHolds, Connection!NoCall
  <2>3. CASE call \in CallerRecord
    <3>1. call.at \in Connection!Connections /\ call.generation \in Nat /\ call.step # "idle"
      BY <2>3 DEF CallerRecord, CallerStages
    <3>2. /\ call.generation <= rows[call.at].generation
          /\ k \in tombstoned => call.generation < rows[call.at].generation
          /\ call.step = "accepted" /\ k \notin tombstoned => rows[call.at].status # "disconnected"
      BY <2>1, <3>1 DEF CallerHolds, ConnectionInv
    <3>3. /\ call.generation <= rows'[call.at].generation
          /\ k \in tombstoned' => call.generation < rows'[call.at].generation
      BY <1>2, <1>4, <2>1, <3>1, <3>2
    <3>4. call.step = "accepted" /\ k \notin tombstoned' => rows'[call.at].status # "disconnected"
      BY <1>3, <2>1, <3>1, <3>2
    <3> QED BY <2>1, <3>1, <3>3, <3>4 DEF CallerHolds
  <2> QED BY <2>2, <2>3
<1> QED BY <1>2, <1>3, <1>4, <1>5, <1>6, <1>7 DEF Connection!Connections

\* What the requests hold, when one of them becomes q.
LEMMA RequestGoesOn ==
    ASSUME ConnectionTypes, \A b \in Admins : admins[b] # Connection!Idle => RequestHolds(admins[b]),
           NEW a \in Admins, NEW q \in RequestRecord \cup {Connection!Idle}, admins' = [admins EXCEPT ![a] = q],
           q # Connection!Idle => RequestHolds(q)',
           \A p \in RequestRecord : RequestHolds(p) => RequestHolds(p)'
    PROVE  /\ admins' \in [Admins -> RequestRecord \cup {Connection!Idle}]
           /\ \A b \in Admins : admins'[b] # Connection!Idle => RequestHolds(admins[b])'
<1>1. admins \in [Admins -> RequestRecord \cup {Connection!Idle}]
  BY DEF ConnectionTypes
<1>2. \A b \in Admins : admins'[b] = IF b = a THEN q ELSE admins[b]
  BY <1>1
<1>3. PICK T : T = RequestRecord \cup {Connection!Idle}
  OBVIOUS
<1>4. admins' \in [Admins -> T]
  BY <1>1, <1>3
<1>5. ASSUME NEW b \in Admins, admins'[b] # Connection!Idle PROVE RequestHolds(admins[b])'
  <2>1. PICK p : p = admins'[b]
    OBVIOUS
  <2>2. RequestHolds(p)'
    <3>1. CASE b = a
      BY <1>2, <1>5, <2>1, <3>1
    <3>2. CASE b # a
      <4>1. p = admins[b] /\ p \in RequestRecord
        BY <1>1, <1>2, <1>5, <2>1, <3>2
      <4>2. RequestHolds(p)
        BY <1>5, <2>1, <4>1
      <4> QED BY <4>1, <4>2
    <3> QED BY <3>1, <3>2
  <2> QED BY <2>1, <2>2 DEF RequestHolds
<1> QED BY <1>3, <1>4, <1>5

\* What an administrator reads or begins.
LEMMA RequestIsTyped ==
    ASSUME ConnectionTypes, NEW a \in Admins, admins[a].step # "idle"
    PROVE  admins[a] \in RequestRecord /\ admins[a].at \in Connection!Connections /\ admins[a].generation \in Nat /\ admins[a] # Connection!Idle
<1>1. admins[a] # Connection!Idle
  BY DEF Connection!Idle
<1>2. admins[a] \in RequestRecord
  BY <1>1 DEF ConnectionTypes
<1> QED BY <1>1, <1>2 DEF RequestRecord

LEMMA ReadIsTyped ==
    ASSUME ConnectionTypes, NEW c \in Connection!Connections, NEW step \in {"read", "prepared"}
    PROVE  Connection!Read(c, step) \in RequestRecord /\ Connection!Read(c, step).step = step
<1>1. PICK r \in ConnectionRecord : r = rows[c]
  BY DEF ConnectionTypes
<1>2. Connection!Read(c, step) = [step |-> step, at |-> c, generation |-> r.generation, status |-> r.status, version |-> r.version]
  BY <1>1 DEF Connection!Read
<1> QED BY <1>2 DEF RequestRecord, ConnectionRecord

\* A step that leaves the connections and the calls alone.
LEMMA OnlyRequests ==
    ASSUME ConnectionInv, NEW a \in Admins, NEW q \in RequestRecord \cup {Connection!Idle}, admins' = [admins EXCEPT ![a] = q],
           UNCHANGED <<rows, assigned, secrets, callers, tombstoned>>,
           q = Connection!Idle \/ q.step \in {"read", "prepared"}
    PROVE  ConnectionInv'
<1>1. \A p \in RequestRecord : RequestHolds(p) => RequestHolds(p)'
  BY DEF RequestHolds
<1>2. q # Connection!Idle => RequestHolds(q)'
  BY DEF RequestHolds
<1>3. /\ admins' \in [Admins -> RequestRecord \cup {Connection!Idle}]
      /\ \A b \in Admins : admins'[b] # Connection!Idle => RequestHolds(admins[b])'
  BY <1>1, <1>2, RequestGoesOn DEF ConnectionInv
<1>4. Connection!Connections' = Connection!Connections /\ RequestRecord' = RequestRecord /\ CallerRecord' = CallerRecord
  BY DEF Connection!Connections, RequestRecord, CallerRecord
<1>5. ConnectionTypes'
  BY <1>3, <1>4 DEF ConnectionInv, ConnectionTypes
<1>6. \A c \in Connection!Connections : SecretHolds(c)'
  BY DEF ConnectionInv, SecretHolds
<1>7. \A k \in Callers : CallerHolds(k)'
  BY DEF ConnectionInv, CallerHolds
<1>8. OneConnection' /\ assigned' \subseteq AssignedProjects \X Connection!Connections'
  BY <1>4 DEF ConnectionInv, OneConnection
<1> QED BY <1>3, <1>4, <1>5, <1>6, <1>7, <1>8 DEF ConnectionInv

\* assign_xverum and disconnect_xverum: a new generation, the last one to be revoked.
LEMMA RequestRevokes ==
    ASSUME ConnectionInv, NEW a \in Admins, NEW c \in Connection!Connections,
           NEW status \in {"configuration_required", "disconnected"},
           rows' = [rows EXCEPT ![c] = Connection!Bumped(c, status)],
           admins' = [admins EXCEPT ![a] = [Connection!Idle EXCEPT !.step = "revoking", !.at = c, !.generation = rows[c].generation + 1]],
           UNCHANGED <<secrets, callers>>, tombstoned \subseteq tombstoned',
           \A k \in tombstoned' : k \in tombstoned \/ callers[k].at = c,
           \A k \in Callers : status = "disconnected" /\ callers[k].at = c => k \in tombstoned',
           assigned' \subseteq AssignedProjects \X Connection!Connections, OneConnection'
    PROVE  ConnectionInv' /\ \A d \in Connection!Connections : rows[d].generation <= rows'[d].generation
<1>1. ConnectionTypes
  BY DEF ConnectionInv
<1>2. PICK old \in ConnectionRecord : old = rows[c]
  BY <1>1 DEF ConnectionTypes
<1>3. PICK r : r = Connection!Bumped(c, status)
  OBVIOUS
<1>4. /\ r \in ConnectionRecord /\ r.generation = rows[c].generation + 1 /\ r.status = status
      /\ rows[c].generation \in Nat
  BY <1>2, <1>3 DEF Connection!Bumped, ConnectionRecord
<1>5. PICK q : q = [Connection!Idle EXCEPT !.step = "revoking", !.at = c, !.generation = rows[c].generation + 1]
  OBVIOUS
<1>6. /\ q \in RequestRecord /\ q.step = "revoking" /\ q.at = c /\ q.generation = r.generation
  <2>1. PICK n \in Nat : n = rows[c].generation + 1
    BY <1>4
  <2>2. q = [step |-> "revoking", at |-> c, generation |-> n, status |-> "none", version |-> 0]
    BY <1>5, <2>1 DEF Connection!Idle
  <2> QED BY <1>4, <2>1, <2>2 DEF RequestRecord
<1>7. /\ rows' \in [Connection!Connections -> ConnectionRecord] /\ Connection!Connections' = Connection!Connections
      /\ \A d \in Connection!Connections : SecretHolds(d)' /\ rows[d].generation <= rows'[d].generation
      /\ \A p \in RequestRecord : RequestHolds(p) => RequestHolds(p)'
      /\ \A k \in Callers : CallerHolds(k)'
  BY <1>3, <1>4, RowGoesOn
<1>8. RequestHolds(q)'
  <2>1. rows'[c] = r
    BY <1>1, <1>3 DEF ConnectionTypes
  <2> QED BY <1>4, <1>6, <2>1 DEF RequestHolds
<1>9. /\ admins' \in [Admins -> RequestRecord \cup {Connection!Idle}]
      /\ \A b \in Admins : admins'[b] # Connection!Idle => RequestHolds(admins[b])'
  BY <1>1, <1>5, <1>6, <1>7, <1>8, RequestGoesOn DEF ConnectionInv
<1>10. ConnectionTypes'
  BY <1>1, <1>7, <1>9 DEF ConnectionTypes, RequestRecord, CallerRecord
<1> QED BY <1>7, <1>9, <1>10 DEF ConnectionInv

LEMMA AssignKeeps ==
    ASSUME ConnectionInv, NEW a \in Admins, NEW chosen \in SUBSET AssignedProjects, Connection!Assign(a, chosen)
    PROVE  ConnectionInv' /\ \A d \in Connection!Connections : rows[d].generation <= rows'[d].generation
<1>1. ConnectionTypes /\ admins[a].step = "read"
  BY DEF ConnectionInv, Connection!Assign
<1>2. PICK c \in Connection!Connections : c = admins[a].at
  BY <1>1, RequestIsTyped
<1>3. UNCHANGED <<secrets, callers, tombstoned>>
  BY DEF Connection!Assign
<1>4. CASE admins' = [admins EXCEPT ![a] = Connection!Idle] /\ UNCHANGED <<rows, assigned>>
  <2>1. ConnectionInv'
    BY <1>3, <1>4, OnlyRequests
  <2>2. \A d \in Connection!Connections : rows[d].generation \in Nat
    BY <1>1 DEF ConnectionTypes, ConnectionRecord
  <2> QED BY <1>4, <2>1, <2>2
<1>5. CASE /\ \A p \in chosen, other \in Connection!Connections \ {c} : <<p, other>> \notin assigned
           /\ assigned' = {x \in assigned : x[2] # c} \cup (chosen \X {c})
           /\ rows' = [rows EXCEPT ![c] = Connection!Bumped(c, "configuration_required")]
           /\ admins' = [admins EXCEPT ![a] = [Connection!Idle EXCEPT !.step = "revoking", !.at = c, !.generation = rows[c].generation + 1]]
  <2>1. assigned' \subseteq AssignedProjects \X Connection!Connections
    BY <1>5 DEF ConnectionInv
  <2>2. OneConnection'
    <3> SUFFICES ASSUME NEW x \in assigned', NEW y \in assigned', x[1] = y[1] PROVE x = y
      BY DEF OneConnection
    <3>1. \A z \in assigned' : z \in AssignedProjects \X Connection!Connections
      BY <2>1
    <3>2. ASSUME NEW z \in assigned'
          PROVE  \/ z \in assigned /\ z[2] # c
                 \/ z[1] \in chosen /\ z[2] = c
      BY <1>5
    <3>3. ASSUME NEW z \in assigned, z[2] # c, z \in assigned' PROVE z[1] \notin chosen
      <4>1. z = <<z[1], z[2]>> /\ z[2] \in Connection!Connections
        BY <3>1, <3>3
      <4> QED BY <1>5, <3>3, <4>1
    <3>4. x = <<x[1], x[2]>> /\ y = <<y[1], y[2]>>
      BY <3>1
    <3>5. CASE x \in assigned /\ y \in assigned
      BY <3>5 DEF ConnectionInv, OneConnection
    <3>6. CASE x[2] = c /\ y[2] = c
      BY <3>4, <3>6
    <3>7. CASE x \in assigned /\ x[2] # c /\ y[1] \in chosen
      BY <3>3, <3>7
    <3>8. CASE y \in assigned /\ y[2] # c /\ x[1] \in chosen
      BY <3>3, <3>8
    <3> QED BY <3>2, <3>5, <3>6, <3>7, <3>8
  <2>3. \A k \in tombstoned' : k \in tombstoned
    BY <1>3
  <2> QED BY <1>3, <1>5, <2>1, <2>2, <2>3, RequestRevokes
<1> QED BY <1>2, <1>4, <1>5 DEF Connection!Assign, Connection!GiveUp

LEMMA DisconnectKeeps ==
    ASSUME ConnectionInv, NEW a \in Admins, Connection!Disconnect(a)
    PROVE  ConnectionInv' /\ \A d \in Connection!Connections : rows[d].generation <= rows'[d].generation
<1>1. ConnectionTypes /\ admins[a].step = "read"
  BY DEF ConnectionInv, Connection!Disconnect
<1>2. PICK c \in Connection!Connections : c = admins[a].at
  BY <1>1, RequestIsTyped
<1>3. UNCHANGED <<secrets, callers, assigned>>
  BY DEF Connection!Disconnect
<1>4. CASE admins' = [admins EXCEPT ![a] = Connection!Idle] /\ UNCHANGED <<rows, tombstoned>>
  <2>1. ConnectionInv'
    BY <1>3, <1>4, OnlyRequests
  <2>2. \A d \in Connection!Connections : rows[d].generation \in Nat
    BY <1>1 DEF ConnectionTypes, ConnectionRecord
  <2> QED BY <1>4, <2>1, <2>2
<1>5. CASE /\ rows' = [rows EXCEPT ![c] = Connection!Bumped(c, "disconnected")]
           /\ tombstoned' = tombstoned \cup {k \in Callers : callers[k].at = c}
           /\ admins' = [admins EXCEPT ![a] = [Connection!Idle EXCEPT !.step = "revoking", !.at = c, !.generation = rows[c].generation + 1]]
  <2>1. assigned' \subseteq AssignedProjects \X Connection!Connections /\ OneConnection'
    BY <1>3 DEF ConnectionInv, OneConnection
  <2>2. /\ tombstoned \subseteq tombstoned' /\ \A k \in tombstoned' : k \in tombstoned \/ callers[k].at = c
        /\ \A k \in Callers : callers[k].at = c => k \in tombstoned'
    BY <1>5
  <2> QED BY <1>3, <1>5, <2>1, <2>2, RequestRevokes
<1> QED BY <1>2, <1>4, <1>5 DEF Connection!Disconnect, Connection!GiveUp

\* A step that leaves the connections and the calls alone, and stages or
\* revokes a credential.
LEMMA SecretMoves ==
    ASSUME ConnectionInv, NEW a \in Admins, NEW q \in RequestRecord \cup {Connection!Idle}, admins' = [admins EXCEPT ![a] = q],
           NEW c \in Connection!Connections, NEW s \in SecretRecord, secrets' = [secrets EXCEPT ![c] = s],
           UNCHANGED <<rows, assigned, callers, tombstoned>>,
           secrets[c].staged <= s.staged, s.revoked <= rows[c].generation,
           rows[c].status = "connected" => s.revoked < rows[c].generation,
           q = Connection!Idle \/ (q.step = "refreshed" /\ q.at = c /\ q.generation + 1 <= s.staged)
    PROVE  ConnectionInv'
<1>1. /\ rows \in [Connection!Connections -> ConnectionRecord] /\ secrets \in [Connection!Connections -> SecretRecord]
      /\ admins \in [Admins -> RequestRecord \cup {Connection!Idle}]
  BY DEF ConnectionInv, ConnectionTypes
<1>2. \A d \in Connection!Connections : rows[d].generation \in Nat /\ secrets[d].staged \in Nat
  BY <1>1 DEF ConnectionRecord, SecretRecord
<1>3. s.staged \in Nat /\ s.revoked \in Nat
  BY DEF SecretRecord
<1>4. /\ secrets' \in [Connection!Connections -> SecretRecord]
      /\ \A d \in Connection!Connections : secrets'[d] = IF d = c THEN s ELSE secrets[d]
  BY <1>1
<1>5. \A d \in Connection!Connections : secrets[d].staged <= secrets'[d].staged /\ secrets'[d].staged \in Nat
  BY <1>2, <1>3, <1>4
<1>6. ASSUME NEW p \in RequestRecord, RequestHolds(p) PROVE RequestHolds(p)'
  <2>1. p.at \in Connection!Connections /\ p.generation \in Nat
    BY DEF RequestRecord
  <2> QED BY <1>2, <1>5, <1>6, <2>1 DEF RequestHolds
<1>7. q # Connection!Idle => RequestHolds(q)'
  BY <1>4 DEF RequestHolds
<1>8. /\ admins' \in [Admins -> RequestRecord \cup {Connection!Idle}]
      /\ \A b \in Admins : admins'[b] # Connection!Idle => RequestHolds(admins[b])'
  BY <1>6, <1>7, RequestGoesOn DEF ConnectionInv
<1>9. Connection!Connections' = Connection!Connections /\ RequestRecord' = RequestRecord /\ CallerRecord' = CallerRecord
  BY DEF Connection!Connections, RequestRecord, CallerRecord
<1>10. ConnectionTypes'
  BY <1>4, <1>8, <1>9 DEF ConnectionInv, ConnectionTypes
<1>11. ASSUME NEW d \in Connection!Connections PROVE SecretHolds(d)'
  <2>1. SecretHolds(d)
    BY DEF ConnectionInv
  <2>2. CASE d = c
    BY <1>1, <1>2, <1>3, <1>4, <2>1, <2>2 DEF SecretHolds, SecretRecord
  <2>3. CASE d # c
    BY <1>4, <2>1, <2>3 DEF SecretHolds
  <2> QED BY <2>2, <2>3
<1>12. \A k \in Callers : CallerHolds(k)'
  BY DEF ConnectionInv, CallerHolds
<1>13. OneConnection' /\ assigned' \subseteq AssignedProjects \X Connection!Connections'
  BY <1>9 DEF ConnectionInv, OneConnection
<1> QED BY <1>8, <1>9, <1>10, <1>11, <1>12, <1>13 DEF ConnectionInv

LEMMA RevokeKeeps ==
    ASSUME ConnectionInv, NEW a \in Admins, Connection!RevokeLocal(a)
    PROVE  ConnectionInv'
<1>1. /\ ConnectionTypes /\ admins[a].step = "revoking" /\ admins' = [admins EXCEPT ![a] = Connection!Idle]
      /\ UNCHANGED <<rows, assigned, callers, tombstoned>>
  BY DEF ConnectionInv, Connection!RevokeLocal, Connection!GiveUp
<1>2. PICK q \in RequestRecord : q = admins[a] /\ q # Connection!Idle
  BY <1>1, RequestIsTyped
<1>3. q.at \in Connection!Connections /\ q.generation \in Nat /\ RequestHolds(q) /\ q.step = "revoking"
  BY <1>1, <1>2 DEF ConnectionInv, RequestRecord
<1>4. CASE UNCHANGED secrets
  BY <1>1, <1>4, OnlyRequests
<1>5. CASE secrets' = [secrets EXCEPT ![q.at].revoked = IF @ < q.generation THEN q.generation ELSE @]
  <2>1. PICK old \in SecretRecord : old = secrets[q.at]
    BY <1>1, <1>3 DEF ConnectionTypes
  <2>2. PICK n : n = IF old.revoked < q.generation THEN q.generation ELSE old.revoked
    OBVIOUS
  <2>3. PICK s : s = [old EXCEPT !.revoked = n]
    OBVIOUS
  <2>4. n \in Nat /\ (n = q.generation \/ n = old.revoked)
    BY <1>3, <2>1, <2>2 DEF SecretRecord
  <2>5. s \in SecretRecord /\ s.staged = old.staged /\ s.revoked = n
    BY <2>1, <2>3, <2>4 DEF SecretRecord
  <2>6. secrets' = [secrets EXCEPT ![q.at] = s]
    BY <1>5, <2>1, <2>2, <2>3
  <2>7. SecretHolds(q.at)
    BY <1>3 DEF ConnectionInv
  <2>8. n <= rows[q.at].generation /\ (rows[q.at].status = "connected" => n < rows[q.at].generation)
    BY <1>3, <2>1, <2>4, <2>7 DEF SecretHolds, RequestHolds
  <2>9. secrets[q.at].staged <= s.staged
    BY <2>1, <2>5 DEF SecretRecord
  <2> QED BY <1>1, <1>3, <2>5, <2>6, <2>8, <2>9, SecretMoves
<1> QED BY <1>2, <1>4, <1>5 DEF Connection!RevokeLocal

LEMMA RefreshKeeps ==
    ASSUME ConnectionInv, NEW a \in Admins, Connection!RefreshCredential(a)
    PROVE  ConnectionInv'
<1>1. ConnectionTypes /\ admins[a].step = "prepared" /\ UNCHANGED <<rows, assigned, callers, tombstoned>>
  BY DEF ConnectionInv, Connection!RefreshCredential
<1>2. PICK q \in RequestRecord : q = admins[a] /\ q # Connection!Idle
  BY <1>1, RequestIsTyped
<1>3. q.at \in Connection!Connections /\ q.generation \in Nat
  BY <1>2 DEF RequestRecord
<1>4. CASE UNCHANGED secrets /\ admins' = [admins EXCEPT ![a] = Connection!Idle]
  BY <1>1, <1>4, OnlyRequests
<1>5. CASE /\ secrets' = [secrets EXCEPT ![q.at].staged = IF @ < q.generation + 1 THEN q.generation + 1 ELSE @]
           /\ admins' = [admins EXCEPT ![a].step = "refreshed"]
  <2>1. PICK old \in SecretRecord : old = secrets[q.at]
    BY <1>1, <1>3 DEF ConnectionTypes
  <2>2. PICK n : n = IF old.staged < q.generation + 1 THEN q.generation + 1 ELSE old.staged
    OBVIOUS
  <2>3. PICK s : s = [old EXCEPT !.staged = n]
    OBVIOUS
  <2>4. n \in Nat /\ old.staged <= n /\ q.generation + 1 <= n
    BY <1>3, <2>1, <2>2 DEF SecretRecord
  <2>5. s \in SecretRecord /\ s.staged = n /\ s.revoked = old.revoked
    BY <2>1, <2>3, <2>4 DEF SecretRecord
  <2>6. secrets' = [secrets EXCEPT ![q.at] = s]
    BY <1>5, <2>1, <2>2, <2>3
  <2>7. s.revoked <= rows[q.at].generation /\ (rows[q.at].status = "connected" => s.revoked < rows[q.at].generation)
    BY <1>3, <2>1, <2>5 DEF ConnectionInv, SecretHolds
  <2>8. PICK r : r = [q EXCEPT !.step = "refreshed"]
    OBVIOUS
  <2>9. r \in RequestRecord /\ r.step = "refreshed" /\ r.at = q.at /\ r.generation = q.generation
    BY <2>8 DEF RequestRecord
  <2>10. admins' = [admins EXCEPT ![a] = r]
    BY <1>2, <1>5, <2>8
  <2>11. secrets[q.at].staged <= s.staged /\ r.generation + 1 <= s.staged
    BY <2>1, <2>4, <2>5, <2>9
  <2> QED BY <1>1, <1>3, <2>5, <2>6, <2>7, <2>9, <2>10, <2>11, SecretMoves
<1> QED BY <1>2, <1>4, <1>5 DEF Connection!RefreshCredential, Connection!GiveUp

LEMMA PublishKeeps ==
    ASSUME ConnectionInv, NEW a \in Admins, Connection!PublishRotation(a)
    PROVE  /\ ConnectionInv' /\ \A d \in Connection!Connections : rows[d].generation <= rows'[d].generation
           /\ \A d \in Connection!Connections : rows'[d].status = "connected" =>
                 rows[d].status = "connected" \/ (admins[a].at = d /\ admins[a].version = rows[d].version)
<1>1. /\ ConnectionTypes /\ admins[a].step = "refreshed" /\ admins' = [admins EXCEPT ![a] = Connection!Idle]
      /\ UNCHANGED <<assigned, secrets, callers, tombstoned>>
  BY DEF ConnectionInv, Connection!PublishRotation, Connection!GiveUp
<1>2. PICK q \in RequestRecord : q = admins[a] /\ q # Connection!Idle
  BY <1>1, RequestIsTyped
<1>3. q.at \in Connection!Connections /\ q.generation \in Nat /\ q.version \in Nat /\ q.step = "refreshed" /\ RequestHolds(q)
  BY <1>1, <1>2 DEF ConnectionInv, RequestRecord
<1>4. \A d \in Connection!Connections : rows[d].generation \in Nat
  BY <1>1 DEF ConnectionTypes, ConnectionRecord
<1>5. CASE UNCHANGED rows
  <2>1. ConnectionInv'
    BY <1>1, <1>5, OnlyRequests
  <2> QED BY <1>4, <1>5, <2>1
<1>6. CASE /\ Connection!Publishable(a)
           /\ rows' = [rows EXCEPT ![q.at] = [status |-> "connected", generation |-> q.generation + 1, version |-> q.version + 1]]
  <2>1. rows[q.at].version = q.version /\ rows[q.at].generation = q.generation
    BY <1>2, <1>6 DEF Connection!Publishable, Connection!Unchanged
  <2>2. PICK r : r = [status |-> "connected", generation |-> q.generation + 1, version |-> q.version + 1]
    OBVIOUS
  <2>3. /\ r \in ConnectionRecord /\ r.generation = rows[q.at].generation + 1 /\ r.status = "connected"
        /\ r.generation <= secrets[q.at].staged
    BY <1>3, <2>1, <2>2 DEF ConnectionRecord, RequestHolds
  <2>4. rows' = [rows EXCEPT ![q.at] = r]
    BY <1>6, <2>2
  <2>5. /\ rows' \in [Connection!Connections -> ConnectionRecord] /\ Connection!Connections' = Connection!Connections
        /\ \A d \in Connection!Connections : SecretHolds(d)' /\ rows[d].generation <= rows'[d].generation
        /\ \A p \in RequestRecord : RequestHolds(p) => RequestHolds(p)'
        /\ \A k \in Callers : CallerHolds(k)'
    BY <1>1, <1>3, <2>3, <2>4, RowGoesOn
  <2>6. /\ admins' \in [Admins -> RequestRecord \cup {Connection!Idle}]
        /\ \A b \in Admins : admins'[b] # Connection!Idle => RequestHolds(admins[b])'
    BY <1>1, <2>5, RequestGoesOn DEF ConnectionInv
  <2>7. ConnectionTypes'
    BY <1>1, <2>5, <2>6 DEF ConnectionTypes, RequestRecord, CallerRecord
  <2>8. ConnectionInv'
    BY <1>1, <2>5, <2>6, <2>7 DEF ConnectionInv, OneConnection
  <2>9. \A d \in Connection!Connections : d # q.at => rows'[d] = rows[d]
    BY <1>1, <2>4 DEF ConnectionTypes
  <2> QED BY <1>2, <2>1, <2>5, <2>8, <2>9
<1> QED BY <1>2, <1>5, <1>6 DEF Connection!PublishRotation

\* A step of a call, that leaves everything else alone.
LEMMA CallerMoves ==
    ASSUME ConnectionInv, NEW k \in Callers, NEW call \in CallerRecord, callers' = [callers EXCEPT ![k] = call],
           UNCHANGED <<rows, assigned, secrets, admins, tombstoned>>,
           call.generation <= rows[call.at].generation,
           k \in tombstoned => call.generation < rows[call.at].generation,
           call.step = "accepted" => rows[call.at].status # "disconnected"
    PROVE  ConnectionInv'
<1>1. PICK T : T = CallerRecord \cup {Connection!NoCall} /\ callers \in [Callers -> T] /\ call \in T
  BY DEF ConnectionInv, ConnectionTypes
<1>2. callers' \in [Callers -> T] /\ callers'[k] = call /\ \A i \in Callers : i # k => callers'[i] = callers[i]
  BY <1>1
<1>3. Connection!Connections' = Connection!Connections /\ RequestRecord' = RequestRecord /\ CallerRecord' = CallerRecord
  BY DEF Connection!Connections, RequestRecord, CallerRecord
<1>4. ConnectionTypes'
  BY <1>1, <1>2, <1>3 DEF ConnectionInv, ConnectionTypes
<1>5. ASSUME NEW i \in Callers PROVE CallerHolds(i)'
  <2>1. CASE i = k
    <3>1. call.step # "idle"
      BY DEF CallerRecord, CallerStages
    <3> QED BY <1>2, <2>1, <3>1 DEF CallerHolds
  <2>2. CASE i # k
    BY <1>2, <2>2 DEF ConnectionInv, CallerHolds
  <2> QED BY <2>1, <2>2
<1>6. \A c \in Connection!Connections : SecretHolds(c)'
  BY DEF ConnectionInv, SecretHolds
<1>7. \A a \in Admins : (admins[a] # Connection!Idle => RequestHolds(admins[a]))'
  BY DEF ConnectionInv, RequestHolds
<1>8. OneConnection' /\ assigned' \subseteq AssignedProjects \X Connection!Connections'
  BY <1>3 DEF ConnectionInv, OneConnection
<1> QED BY <1>3, <1>4, <1>5, <1>6, <1>7, <1>8 DEF ConnectionInv

\* A call that began names a connection.
LEMMA CallerIsTyped ==
    ASSUME ConnectionTypes, NEW k \in Callers, callers[k].step # "idle"
    PROVE  callers[k] \in CallerRecord
<1>1. callers[k] \in CallerRecord \cup {Connection!NoCall}
  BY DEF ConnectionTypes
<1>2. callers[k] # Connection!NoCall
  BY DEF Connection!NoCall
<1> QED BY <1>1, <1>2

LEMMA CallerGoes ==
    ASSUME ConnectionInv, NEW k \in Callers, callers[k].step # "idle", NEW step \in CallerStages, Connection!Goes(k, step),
           UNCHANGED <<rows, assigned, secrets, admins, tombstoned>>,
           step = "accepted" => Connection!Current(k)
    PROVE  ConnectionInv'
<1>1. PICK old \in CallerRecord : old = callers[k]
  BY CallerIsTyped DEF ConnectionInv
<1>2. PICK call : call = [old EXCEPT !.step = step]
  OBVIOUS
<1>3. call \in CallerRecord /\ call.at = old.at /\ call.generation = old.generation /\ call.step = step
  BY <1>2 DEF CallerRecord
<1>4. callers' = [callers EXCEPT ![k] = call]
  BY <1>1, <1>2 DEF Connection!Goes
<1>5. CallerHolds(k)
  BY DEF ConnectionInv
<1>6. /\ call.generation <= rows[call.at].generation
      /\ k \in tombstoned => call.generation < rows[call.at].generation
      /\ call.step = "accepted" => rows[call.at].status # "disconnected"
  BY <1>1, <1>3, <1>5 DEF CallerHolds, Connection!Current
<1> QED BY <1>3, <1>4, <1>6, CallerMoves

LEMMA CallIsOrdered ==
    ASSUME ConnectionInv, NEW k \in Callers, NEW p \in AssignedProjects, Connection!Order(k, p)
    PROVE  ConnectionInv'
<1>1. PICK c \in Connection!Connections :
          /\ rows[c].status = "connected"
          /\ callers' = [callers EXCEPT ![k] = [step |-> "ordered", project |-> p, at |-> c, generation |-> rows[c].generation]]
  BY DEF Connection!Order
<1>2. rows[c].generation \in Nat
  BY DEF ConnectionInv, ConnectionTypes, ConnectionRecord
<1>3. PICK call : call = [step |-> "ordered", project |-> p, at |-> c, generation |-> rows[c].generation]
  OBVIOUS
<1>4. call \in CallerRecord /\ call.at = c /\ call.generation = rows[c].generation /\ call.step = "ordered"
  BY <1>2, <1>3 DEF CallerRecord, CallerStages
<1>5. k \notin tombstoned
  BY DEF ConnectionInv, CallerHolds, Connection!Order
<1>6. UNCHANGED <<rows, assigned, secrets, admins, tombstoned>>
  BY DEF Connection!Order
<1>7. callers' = [callers EXCEPT ![k] = call]
  BY <1>1, <1>3
<1>8. call.generation <= rows[call.at].generation
  BY <1>2, <1>4
<1> QED BY <1>4, <1>5, <1>6, <1>7, <1>8, CallerMoves

CallerSteps(k) ==
    \/ \E p \in AssignedProjects : Connection!Order(k, p)
    \/ Connection!CheckFirst(k) \/ Connection!Resolve(k) \/ Connection!CheckResolved(k) \/ Connection!BeforeDispatch(k)
    \/ Connection!CallTool(k) \/ Connection!AcceptAnswer(k) \/ Connection!ChangeMember(k)

\* The steps of a call keep the invariant, and an answer newly accepted is of
\* the generation in force; what was accepted stays.
LEMMA CallerKeeps ==
    ASSUME ConnectionInv, NEW k \in Callers, CallerSteps(k)
    PROVE  /\ ConnectionInv' /\ UNCHANGED rows
           /\ \A i \in Callers : callers'[i].step = "accepted" =>
                 callers'[i].at = callers[i].at /\ (callers[i].step = "accepted" \/ (i = k /\ Connection!Current(k)))
<1>1. UNCHANGED <<rows, assigned, secrets, admins, tombstoned>>
  BY DEF CallerSteps, Connection!Order, Connection!CheckFirst, Connection!Resolve, Connection!CheckResolved, Connection!BeforeDispatch, Connection!CallTool, Connection!AcceptAnswer, Connection!ChangeMember
<1>2. DOMAIN callers = Callers
  BY DEF ConnectionInv, ConnectionTypes
<1>3. CASE \E p \in AssignedProjects : Connection!Order(k, p)
  <2>1. PICK p \in AssignedProjects : Connection!Order(k, p)
    BY <1>3
  <2>2. ConnectionInv'
    BY <2>1, CallIsOrdered
  <2>3. PICK call : callers' = [callers EXCEPT ![k] = call] /\ call.step = "ordered"
    <3>1. PICK c : callers' = [callers EXCEPT ![k] = [step |-> "ordered", project |-> p, at |-> c, generation |-> rows[c].generation]]
      BY <2>1 DEF Connection!Order
    <3>2. PICK call : call = [step |-> "ordered", project |-> p, at |-> c, generation |-> rows[c].generation]
      OBVIOUS
    <3>3. call.step = "ordered"
      BY <3>2
    <3> QED BY <3>1, <3>2, <3>3
  <2> QED BY <1>1, <1>2, <2>2, <2>3
<1>4. CASE Connection!ChangeMember(k)
  <2>1. callers' = callers
    BY <1>4 DEF Connection!ChangeMember
  <2>2. ConnectionInv'
    <3>1. Connection!Connections' = Connection!Connections /\ RequestRecord' = RequestRecord /\ CallerRecord' = CallerRecord
      BY <1>1 DEF Connection!Connections, RequestRecord, CallerRecord
    <3>2. ConnectionTypes'
      BY <1>1, <2>1, <3>1 DEF ConnectionInv, ConnectionTypes
    <3>3. \A c \in Connection!Connections : SecretHolds(c)'
      BY <1>1, <2>1 DEF ConnectionInv, SecretHolds
    <3>4. \A a \in Admins : (admins[a] # Connection!Idle => RequestHolds(admins[a]))'
      BY <1>1, <2>1 DEF ConnectionInv, RequestHolds
    <3>5. \A i \in Callers : CallerHolds(i)'
      BY <1>1, <2>1 DEF ConnectionInv, CallerHolds
    <3>6. OneConnection' /\ assigned' \subseteq AssignedProjects \X Connection!Connections'
      BY <1>1, <3>1 DEF ConnectionInv, OneConnection
    <3> QED BY <3>1, <3>2, <3>3, <3>4, <3>5, <3>6 DEF ConnectionInv
  <2> QED BY <1>1, <2>1, <2>2
<1>5. ASSUME NEW step \in CallerStages, Connection!Goes(k, step), callers[k].step # "idle", step = "accepted" => Connection!Current(k)
      PROVE  /\ ConnectionInv'
             /\ \A i \in Callers : callers'[i].step = "accepted" =>
                   callers'[i].at = callers[i].at /\ (callers[i].step = "accepted" \/ (i = k /\ Connection!Current(k)))
  <2>1. ConnectionInv'
    BY <1>1, <1>5, CallerGoes
  <2>2. PICK call : callers' = [callers EXCEPT ![k] = call] /\ call.at = callers[k].at /\ (call.step = "accepted" => Connection!Current(k))
    <3>1. PICK old \in CallerRecord : old = callers[k]
      BY <1>5, CallerIsTyped DEF ConnectionInv
    <3>2. PICK call : call = [old EXCEPT !.step = step]
      OBVIOUS
    <3>3. call.step = step /\ call.at = old.at
      BY <3>2 DEF CallerRecord
    <3> QED BY <1>5, <3>1, <3>2, <3>3 DEF Connection!Goes
  <2>3. \A i \in Callers : i # k => callers'[i] = callers[i]
    BY <1>2, <2>2
  <2>4. callers'[k] = call
    BY <1>2, <2>2
  <2> QED BY <2>1, <2>2, <2>3, <2>4
<1>6. CASE Connection!CheckFirst(k)
  <2>1. PICK step \in CallerStages : Connection!Goes(k, step) /\ step \in {"checked", "refused"}
    BY <1>6 DEF Connection!CheckFirst, CallerStages
  <2>2. callers[k].step # "idle" /\ step # "accepted"
    BY <1>6, <2>1 DEF Connection!CheckFirst
  <2> QED BY <1>1, <1>5, <2>1, <2>2
<1>7. CASE Connection!Resolve(k)
  <2>1. PICK step \in CallerStages : Connection!Goes(k, step) /\ step \in {"resolved", "refused"}
    BY <1>7 DEF Connection!Resolve, CallerStages
  <2>2. callers[k].step # "idle" /\ step # "accepted"
    BY <1>7, <2>1 DEF Connection!Resolve
  <2> QED BY <1>1, <1>5, <2>1, <2>2
<1>8. CASE Connection!CheckResolved(k)
  <2>1. PICK step \in CallerStages : Connection!Goes(k, step) /\ step \in {"opening", "refused"}
    BY <1>8 DEF Connection!CheckResolved, CallerStages
  <2>2. callers[k].step # "idle" /\ step # "accepted"
    BY <1>8, <2>1 DEF Connection!CheckResolved
  <2> QED BY <1>1, <1>5, <2>1, <2>2
<1>9. CASE Connection!BeforeDispatch(k)
  <2>1. PICK step \in CallerStages : Connection!Goes(k, step) /\ step \in {"dispatching", "refused"}
    BY <1>9 DEF Connection!BeforeDispatch, CallerStages
  <2>2. callers[k].step # "idle" /\ step # "accepted"
    BY <1>9, <2>1 DEF Connection!BeforeDispatch
  <2> QED BY <1>1, <1>5, <2>1, <2>2
<1>10. CASE Connection!CallTool(k)
  <2>1. PICK step \in CallerStages : Connection!Goes(k, step) /\ step \in {"answered", "unknown"}
    BY <1>10 DEF Connection!CallTool, CallerStages
  <2>2. callers[k].step # "idle" /\ step # "accepted"
    BY <1>10, <2>1 DEF Connection!CallTool
  <2> QED BY <1>1, <1>5, <2>1, <2>2
<1>11. CASE Connection!AcceptAnswer(k)
  <2>1. PICK step \in CallerStages : Connection!Goes(k, step) /\ (step = "accepted" => Connection!Current(k))
    BY <1>11 DEF Connection!AcceptAnswer, CallerStages, Connection!Authorised
  <2>2. callers[k].step # "idle"
    BY <1>11 DEF Connection!AcceptAnswer
  <2> QED BY <1>1, <1>5, <2>1, <2>2
<1> QED BY <1>1, <1>3, <1>4, <1>6, <1>7, <1>8, <1>9, <1>10, <1>11 DEF CallerSteps

\* What a step of an administrator keeps.
AdminSteps(a) ==
    \/ \E c \in Connection!Connections : Connection!ReadConnection(a, c)
    \/ \E chosen \in SUBSET AssignedProjects \ {{}} : Connection!Assign(a, chosen)
    \/ Connection!Disconnect(a) \/ Connection!RevokeLocal(a)
    \/ Connection!PrepareRotation(a) \/ Connection!RefreshCredential(a) \/ Connection!PublishRotation(a)

LEMMA AdminKeeps ==
    ASSUME ConnectionInv, NEW a \in Admins, AdminSteps(a)
    PROVE  /\ ConnectionInv' /\ UNCHANGED callers /\ \A d \in Connection!Connections : rows[d].generation <= rows'[d].generation
           /\ \A d \in Connection!Connections : rows'[d].status = "connected" =>
                 rows[d].status = "connected" \/ (admins[a].at = d /\ admins[a].version = rows[d].version)
<1>1. ConnectionTypes
  BY DEF ConnectionInv
<1>2. \A d \in Connection!Connections : rows[d].generation \in Nat
  BY <1>1 DEF ConnectionTypes, ConnectionRecord
<1>3. CASE \E c \in Connection!Connections : Connection!ReadConnection(a, c)
  <2>1. PICK c \in Connection!Connections : Connection!ReadConnection(a, c)
    BY <1>3
  <2>2. PICK q : q = Connection!Read(c, "read")
    OBVIOUS
  <2>3. q \in RequestRecord /\ q.step = "read"
    BY <1>1, <2>2, ReadIsTyped
  <2>4. admins' = [admins EXCEPT ![a] = q] /\ UNCHANGED <<rows, assigned, secrets, callers, tombstoned>>
    BY <2>1, <2>2 DEF Connection!ReadConnection
  <2>5. ConnectionInv'
    BY <2>3, <2>4, OnlyRequests
  <2> QED BY <1>2, <2>4, <2>5
<1>4. CASE \E chosen \in SUBSET AssignedProjects \ {{}} : Connection!Assign(a, chosen)
  <2>1. PICK chosen \in SUBSET AssignedProjects : Connection!Assign(a, chosen)
    BY <1>4
  <2>2. ConnectionInv' /\ \A d \in Connection!Connections : rows[d].generation <= rows'[d].generation
    BY <2>1, AssignKeeps
  <2>3. rows' = rows \/ rows' = [rows EXCEPT ![admins[a].at] = Connection!Bumped(admins[a].at, "configuration_required")]
    BY <2>1 DEF Connection!Assign
  <2>4. \A d \in Connection!Connections : rows'[d] = rows[d] \/ rows'[d].status = "configuration_required"
    BY <1>1, <2>3 DEF ConnectionTypes, Connection!Bumped
  <2>5. UNCHANGED callers
    BY <2>1 DEF Connection!Assign
  <2> QED BY <2>2, <2>4, <2>5
<1>5. CASE Connection!Disconnect(a)
  <2>1. ConnectionInv' /\ \A d \in Connection!Connections : rows[d].generation <= rows'[d].generation
    BY <1>5, DisconnectKeeps
  <2>2. rows' = rows \/ rows' = [rows EXCEPT ![admins[a].at] = Connection!Bumped(admins[a].at, "disconnected")]
    BY <1>5 DEF Connection!Disconnect
  <2>3. \A d \in Connection!Connections : rows'[d] = rows[d] \/ rows'[d].status = "disconnected"
    BY <1>1, <2>2 DEF ConnectionTypes, Connection!Bumped
  <2>4. UNCHANGED callers
    BY <1>5 DEF Connection!Disconnect
  <2> QED BY <2>1, <2>3, <2>4
<1>6. CASE Connection!RevokeLocal(a)
  <2>1. ConnectionInv'
    BY <1>6, RevokeKeeps
  <2>2. UNCHANGED <<rows, callers>>
    BY <1>6 DEF Connection!RevokeLocal
  <2> QED BY <1>2, <2>1, <2>2
<1>7. CASE Connection!PrepareRotation(a)
  <2>1. UNCHANGED <<rows, assigned, secrets, callers, tombstoned>> /\ admins[a].step = "read"
    BY <1>7 DEF Connection!PrepareRotation
  <2>2. PICK c \in Connection!Connections : c = admins[a].at
    BY <1>1, <2>1, RequestIsTyped
  <2>3. PICK q : q = Connection!Read(c, "prepared")
    OBVIOUS
  <2>4. q \in RequestRecord /\ q.step = "prepared"
    BY <1>1, <2>3, ReadIsTyped
  <2>5. admins' = [admins EXCEPT ![a] = q] \/ admins' = [admins EXCEPT ![a] = Connection!Idle]
    BY <1>7, <2>2, <2>3 DEF Connection!PrepareRotation, Connection!GiveUp
  <2>6. ConnectionInv'
    <3>1. CASE admins' = [admins EXCEPT ![a] = q]
      BY <2>1, <2>4, <3>1, OnlyRequests
    <3>2. CASE admins' = [admins EXCEPT ![a] = Connection!Idle]
      BY <2>1, <3>2, OnlyRequests
    <3> QED BY <2>5, <3>1, <3>2
  <2> QED BY <1>2, <2>1, <2>6
<1>8. CASE Connection!RefreshCredential(a)
  <2>1. ConnectionInv'
    BY <1>8, RefreshKeeps
  <2>2. UNCHANGED <<rows, callers>>
    BY <1>8 DEF Connection!RefreshCredential
  <2> QED BY <1>2, <2>1, <2>2
<1>9. CASE Connection!PublishRotation(a)
  <2>1. UNCHANGED callers
    BY <1>9 DEF Connection!PublishRotation
  <2> QED BY <1>9, <2>1, PublishKeeps
<1> QED BY <1>3, <1>4, <1>5, <1>6, <1>7, <1>8, <1>9 DEF AdminSteps

LEMMA ConnectionMoves == Connection!ConnectionNext <=> (\E a \in Admins : AdminSteps(a)) \/ (\E k \in Callers : CallerSteps(k))
  BY DEF Connection!ConnectionNext, AdminSteps, CallerSteps

LEMMA ConnectionStep == ConnectionInv /\ [Connection!ConnectionNext]_connectionVars => ConnectionInv'
<1> SUFFICES ASSUME ConnectionInv, [Connection!ConnectionNext]_connectionVars PROVE ConnectionInv'
  OBVIOUS
<1>1. CASE UNCHANGED connectionVars
  <2>1. UNCHANGED <<rows, assigned, secrets, admins, callers, tombstoned>>
    BY <1>1 DEF connectionVars
  <2>2. Connection!Connections' = Connection!Connections /\ RequestRecord' = RequestRecord /\ CallerRecord' = CallerRecord
    BY <2>1 DEF Connection!Connections, RequestRecord, CallerRecord
  <2>3. ConnectionTypes'
    BY <2>1, <2>2 DEF ConnectionInv, ConnectionTypes
  <2>4. \A c \in Connection!Connections : SecretHolds(c)'
    BY <2>1 DEF ConnectionInv, SecretHolds
  <2>5. \A a \in Admins : (admins[a] # Connection!Idle => RequestHolds(admins[a]))'
    BY <2>1 DEF ConnectionInv, RequestHolds
  <2>6. \A k \in Callers : CallerHolds(k)'
    BY <2>1 DEF ConnectionInv, CallerHolds
  <2>7. OneConnection' /\ assigned' \subseteq AssignedProjects \X Connection!Connections'
    BY <2>1, <2>2 DEF ConnectionInv, OneConnection
  <2> QED BY <2>2, <2>3, <2>4, <2>5, <2>6, <2>7 DEF ConnectionInv
<1>2. CASE \E a \in Admins : AdminSteps(a)
  BY <1>2, AdminKeeps
<1>3. CASE \E k \in Callers : CallerSteps(k)
  BY <1>3, CallerKeeps
<1> QED BY <1>1, <1>2, <1>3, ConnectionMoves

\* What a step does to the connections and to the answers.
LEMMA ConnectionGoesOn ==
    ASSUME ConnectionInv, [Connection!ConnectionNext]_connectionVars
    PROVE  /\ \A c \in Connection!Connections :
                 /\ rows[c].generation <= rows'[c].generation
                 /\ rows'[c].status = "connected" => \/ rows[c].status = "connected"
                                                     \/ \E a \in Admins : admins[a].at = c /\ admins[a].version = rows[c].version
           /\ \A k \in Callers : callers'[k].step = "accepted" =>
                 callers'[k].at = callers[k].at /\ (callers[k].step = "accepted" \/ Connection!Current(k))
<1>1. \A d \in Connection!Connections : rows[d].generation \in Nat
  BY DEF ConnectionInv, ConnectionTypes, ConnectionRecord
<1>2. CASE UNCHANGED connectionVars
  <2>1. UNCHANGED <<rows, callers>>
    BY <1>2 DEF connectionVars
  <2> QED BY <1>1, <2>1
<1>3. CASE \E a \in Admins : AdminSteps(a)
  BY <1>3, AdminKeeps
<1>4. CASE \E k \in Callers : CallerSteps(k)
  <2>1. PICK k \in Callers : CallerSteps(k)
    BY <1>4
  <2> QED BY <1>1, <2>1, CallerKeeps
<1> QED BY <1>2, <1>3, <1>4, ConnectionMoves

\* The connections of a workspace are what they were at the start.
LEMMA ConnectionsStay == [Connection!ConnectionNext]_connectionVars => Connection!Connections' = Connection!Connections
<1> SUFFICES ASSUME [Connection!ConnectionNext]_connectionVars PROVE DOMAIN rows' = DOMAIN rows
  BY DEF Connection!Connections
<1>1. CASE UNCHANGED rows
  BY <1>1
<1>2. CASE \E a \in Admins : AdminSteps(a)
  <2>1. PICK a \in Admins : AdminSteps(a)
    BY <1>2
  <2>2. \/ UNCHANGED rows
        \/ \E r : rows' = [rows EXCEPT ![admins[a].at] = r]
    BY <2>1 DEF AdminSteps, Connection!ReadConnection, Connection!Assign, Connection!Disconnect, Connection!RevokeLocal, Connection!PrepareRotation, Connection!RefreshCredential, Connection!PublishRotation
  <2> QED BY <2>2
<1>3. CASE \E k \in Callers : CallerSteps(k)
  BY <1>3 DEF CallerSteps, Connection!Order, Connection!CheckFirst, Connection!Resolve, Connection!CheckResolved, Connection!BeforeDispatch, Connection!CallTool, Connection!AcceptAnswer, Connection!ChangeMember
<1> QED BY <1>1, <1>2, <1>3, ConnectionMoves DEF connectionVars

\* No step breaks what an authority promises.
LEMMA AuthorityIsKept == ConnectionInv /\ [Connection!ConnectionNext]_connectionVars => Connection!AuthorityHolds
<1> SUFFICES ASSUME ConnectionInv, [Connection!ConnectionNext]_connectionVars PROVE Connection!AuthorityHolds
  OBVIOUS
<1>1. /\ DOMAIN rows = Connection!Connections /\ DOMAIN admins = Admins /\ DOMAIN callers = Callers
      /\ \A c \in Connection!Connections : rows[c].generation \in Nat
  BY DEF ConnectionInv, ConnectionTypes, Connection!Connections, ConnectionRecord
<1>2. ConnectionInv' /\ Connection!Connections' = Connection!Connections
  BY ConnectionStep, ConnectionsStay
<1>3. ASSUME NEW c \in Connection!Connections
      PROVE  /\ rows'[c].generation >= rows[c].generation
             /\ rows'[c].status = "connected" => rows'[c].generation \in (secrets'[c].revoked + 1)..secrets'[c].staged
             /\ rows[c].status # "connected" /\ rows'[c].status = "connected"
                => \E a \in Admins : admins[a].at = c /\ admins[a].version = rows[c].version
  <2>1. rows'[c].generation \in Nat /\ secrets'[c].revoked \in Nat /\ secrets'[c].staged \in Nat /\ SecretHolds(c)'
    <3>1. PICK T : T = ConnectionRecord'
      OBVIOUS
    <3>2. rows' \in [Connection!Connections -> ConnectionRecord'] /\ secrets' \in [Connection!Connections -> SecretRecord'] /\ SecretHolds(c)'
      BY <1>2 DEF ConnectionInv, ConnectionTypes
    <3> QED BY <3>2 DEF ConnectionRecord, SecretRecord
  <2>2. rows[c].generation <= rows'[c].generation
    BY ConnectionGoesOn
  <2>3. rows'[c].status = "connected" => rows'[c].generation \in (secrets'[c].revoked + 1)..secrets'[c].staged
    BY <2>1 DEF SecretHolds
  <2> QED BY <1>1, <2>1, <2>2, <2>3, ConnectionGoesOn
<1>4. \A x, y \in assigned' : x[1] = y[1] => x = y
  BY <1>2 DEF ConnectionInv, OneConnection
<1>5. ASSUME NEW k \in Callers
      PROVE  /\ callers[k].step # "accepted" /\ callers'[k].step = "accepted"
                => rows[callers[k].at].generation = callers[k].generation /\ k \notin tombstoned
             /\ callers'[k].step = "accepted" /\ k \notin tombstoned' => rows'[callers[k].at].status # "disconnected"
  <2>1. CallerHolds(k) /\ CallerHolds(k)' /\ callers[k] \in CallerRecord \cup {Connection!NoCall}
    BY <1>2 DEF ConnectionInv, ConnectionTypes
  <2>2. callers'[k].step = "accepted" =>
           callers'[k].at = callers[k].at /\ (callers[k].step = "accepted" \/ Connection!Current(k))
    BY ConnectionGoesOn
  <2>3. callers[k].step # "accepted" /\ callers'[k].step = "accepted"
           => rows[callers[k].at].generation = callers[k].generation
    BY <2>2 DEF Connection!Current
  <2>4. ASSUME rows[callers[k].at].generation = callers[k].generation PROVE k \notin tombstoned
    <3>1. SUFFICES ASSUME k \in tombstoned PROVE FALSE
      OBVIOUS
    <3>2. callers[k].step # "idle" /\ callers[k].generation < rows[callers[k].at].generation
      BY <2>1, <3>1 DEF CallerHolds
    <3>3. callers[k].generation \in Nat
      BY <2>1, <3>2 DEF CallerRecord, Connection!NoCall
    <3> QED BY <2>4, <3>2, <3>3
  <2>5. callers'[k].step = "accepted" /\ k \notin tombstoned' => rows'[callers'[k].at].status # "disconnected"
    BY <2>1 DEF CallerHolds
  <2> QED BY <2>2, <2>3, <2>4, <2>5
<1> QED BY <1>1, <1>3, <1>4, <1>5 DEF Connection!AuthorityHolds

----------------------------------------------------------------------------
\* The table of buyers, and what the theorem about edits rests on.

VARIABLES card, frozenLists, mayWrite, outcomes, written, table, recovery,
          asks, onWire, tally
resultsVars == <<card, frozenLists, mayWrite, outcomes, written, table,
    recovery, asks, onWire, tally>>

Results == INSTANCE BuyerResults WITH
    MaxVersion <- MaxBuyerVersion, MaxMoves <- MaxTableMoves

\* What is asked for, by which confirmation: on its way, written, awaited,
\* in doubt or pending.
Content(p) == <<p.target, p.rows>>
UseOf(k, p) ==
    \/ \E r \in onWire : r.kind = k /\ r.preview = p
    \/ \E w \in written : w.kind = k /\ w.preview = p
    \/ p # Results!Nothing /\ k \in Results!Kinds /\ (asks[k].of = p \/ asks[k].doubt = p)
    \/ p # Results!Nothing /\ k = "assign" /\ recovery.pending = p

\* The key of a confirmation, and what is asked for under a key.
KeyedBy(n, a) ==
    \/ \E r \in onWire : r.preview.n = n /\ r.key = a
    \/ recovery.pending # Results!Nothing /\ recovery.pending.n = n /\ a = recovery.intents["assign"].key
    \/ \E k \in Results!Kinds : /\ a = recovery.intents[k].key
                                /\ \/ asks[k].attempt # 0 /\ asks[k].of.n = n
                                   \/ asks[k].doubt # Results!Nothing /\ asks[k].doubt.n = n
TableSaid(a, k, c) ==
    \/ \E r \in onWire : r.key = a /\ r.kind = k /\ c = Content(r.preview)
    \/ k \in Results!Kinds /\ recovery.intents[k] # Results!NoIntent /\ recovery.intents[k].key = a /\ recovery.intents[k].of = c

Wrote(k, c) == \E w \in written : w.kind = k /\ Content(w.preview) = c

\* A confirmation is one request of one kind, and has one key.
UsesHold ==
    /\ \A k, p : UseOf(k, p) => k \in Results!Kinds /\ p.n \in 1..tally.confirmed /\ p.rows[1] # "none"
    /\ \A k, l, p, q : UseOf(k, p) /\ UseOf(l, q) /\ p.n = q.n => k = l /\ p = q
KeysHold ==
    /\ \A n, a : KeyedBy(n, a) => n \in 1..tally.confirmed /\ a \in 1..tally.attempts
    /\ \A n, a, b : KeyedBy(n, a) /\ KeyedBy(n, b) => a = b
    /\ \A n, a : KeyedBy(n, a) =>
          \A w \in written : w.preview.n = n => a \in DOMAIN outcomes /\ outcomes[a] = "updated"
\* A key stands for one content, and its answer is what became of that.
TableSaidHolds ==
    /\ \A a, k, c : TableSaid(a, k, c) => a \in 1..tally.attempts
    /\ \A a, k, l, c, d : TableSaid(a, k, c) /\ TableSaid(a, l, d) => k = l /\ c = d
    /\ \A a, k, c : TableSaid(a, k, c) /\ a \in DOMAIN outcomes /\ outcomes[a] = "updated" => Wrote(k, c)
    /\ DOMAIN outcomes \subseteq 1..tally.attempts
WrittenOnce == \A v, w \in written : v.preview.n = w.preview.n => v = w

\* No request of the confirmation can still write.
Over(n) ==
    /\ \A w \in written : w.preview.n # n
    /\ \A r \in onWire : r.preview.n = n => r.key \in DOMAIN outcomes
AskHolds(k) ==
    /\ {"attempt", "of", "reply", "report", "doubt"} \subseteq DOMAIN asks[k]
    /\ asks[k].attempt \in 0..tally.attempts
    /\ asks[k].reply # "none" => asks[k].attempt # 0
    /\ asks[k].attempt # 0 => asks[k].of # Results!Nothing /\ recovery.intents[k].of = Content(asks[k].of)
    /\ asks[k].doubt # Results!Nothing => recovery.intents[k].of = Content(asks[k].doubt)
    /\ asks[k].reply = "updated" \/ asks[k].report = "updated" => Wrote(k, Content(asks[k].of))
    /\ asks[k].reply = "conflict" \/ asks[k].report = "conflict" => Over(asks[k].of.n)
TableRequestIs(r) ==
    /\ r.attempt \in 1..tally.attempts
    /\ asks[r.kind].attempt = r.attempt => asks[r.kind].of = r.preview
TableShapes ==
    /\ tally.confirmed \in Nat /\ tally.attempts \in Nat /\ {"confirmed", "attempts"} \subseteq DOMAIN tally
    /\ DOMAIN asks = Results!Kinds /\ DOMAIN recovery.intents = Results!Kinds /\ {"pending", "intents"} \subseteq DOMAIN recovery
    /\ recovery.pending # Results!Nothing => recovery.intents["assign"].of = Content(recovery.pending)

ResultsInv ==
    /\ TableShapes /\ UsesHold /\ KeysHold /\ TableSaidHolds /\ WrittenOnce
    /\ \A k \in Results!Kinds : AskHolds(k)
    /\ \A r \in onWire : TableRequestIs(r)

LEMMA SilentIs ==
    /\ {"attempt", "of", "reply", "report", "doubt"} \subseteq DOMAIN Results!Silent
    /\ Results!Silent.attempt = 0 /\ Results!Silent.of = Results!Nothing /\ Results!Silent.reply = "none" /\ Results!Silent.report = "none" /\ Results!Silent.doubt = Results!Nothing
BY DEF Results!Silent

LEMMA NothingIs == Results!Nothing.n = 0 /\ Results!Nothing.rows[1] = "none" /\ Results!Nothing.target = "none"
BY DEF Results!Nothing

LEMMA SilentHolds ==
    ASSUME TableShapes, NEW k \in Results!Kinds, asks[k] = Results!Silent
    PROVE  AskHolds(k)
BY SilentIs DEF AskHolds, TableShapes

LEMMA ResultsStart == Results!ResultsInit => ResultsInv
<1> SUFFICES ASSUME Results!ResultsInit PROVE ResultsInv
  OBVIOUS
<1>1. /\ onWire = {} /\ written = {} /\ DOMAIN outcomes = {} /\ recovery.pending = Results!Nothing
      /\ DOMAIN recovery.intents = Results!Kinds /\ {"pending", "intents"} \subseteq DOMAIN recovery
      /\ \A k \in Results!Kinds : recovery.intents[k] = Results!NoIntent /\ asks[k] = Results!Silent
      /\ DOMAIN asks = Results!Kinds
  BY DEF Results!ResultsInit
<1>2. tally.confirmed = 0 /\ tally.attempts = 0 /\ {"confirmed", "attempts"} \subseteq DOMAIN tally
  BY DEF Results!ResultsInit
<1>3. TableShapes
  BY <1>1, <1>2 DEF TableShapes
<1>4. \A k, p : ~ UseOf(k, p)
  BY <1>1, SilentIs DEF UseOf
<1>5. \A n, a : ~ KeyedBy(n, a)
  BY <1>1, SilentIs DEF KeyedBy
<1>6. \A a, k, c : ~ TableSaid(a, k, c)
  BY <1>1 DEF TableSaid
<1>7. UsesHold /\ KeysHold /\ TableSaidHolds
  BY <1>1, <1>4, <1>5, <1>6 DEF UsesHold, KeysHold, TableSaidHolds
<1> QED BY <1>1, <1>3, <1>7, SilentHolds DEF ResultsInv, WrittenOnce

\* Nothing is asked for that was not.
FewerAsked ==
    /\ \A k, p : UseOf(k, p)' => UseOf(k, p)
    /\ \A n, a : KeyedBy(n, a)' => KeyedBy(n, a)
    /\ \A a, k, c : TableSaid(a, k, c)' => TableSaid(a, k, c)

LEMMA FewerHold ==
    ASSUME ResultsInv, FewerAsked, UNCHANGED <<outcomes, written>>,
           tally'.confirmed = tally.confirmed, tally'.attempts = tally.attempts
    PROVE  UsesHold' /\ KeysHold' /\ TableSaidHolds' /\ WrittenOnce'
<1>1. UsesHold'
  BY DEF ResultsInv, UsesHold, FewerAsked
<1>2. KeysHold'
  BY DEF ResultsInv, KeysHold, FewerAsked
<1>3. TableSaidHolds'
  BY DEF ResultsInv, TableSaidHolds, FewerAsked, Wrote
<1>4. WrittenOnce'
  BY DEF ResultsInv, WrittenOnce
<1> QED BY <1>1, <1>2, <1>3, <1>4

\* Nothing of it changes but the bounds that are counted.
LEMMA ResultsRest ==
    ASSUME ResultsInv, UNCHANGED <<outcomes, written, recovery, asks, onWire>>,
           tally'.confirmed = tally.confirmed, tally'.attempts = tally.attempts,
           {"confirmed", "attempts"} \subseteq DOMAIN tally'
    PROVE  ResultsInv'
<1>1. FewerAsked
  BY DEF FewerAsked, UseOf, KeyedBy, TableSaid
<1>2. UsesHold' /\ KeysHold' /\ TableSaidHolds' /\ WrittenOnce'
  BY <1>1, FewerHold
<1>3. TableShapes'
  BY DEF ResultsInv, TableShapes
<1>4. ASSUME NEW k \in Results!Kinds PROVE AskHolds(k)'
  <2>1. AskHolds(k)
    BY DEF ResultsInv
  <2> QED BY <2>1 DEF AskHolds, Wrote, Over
<1>5. ASSUME NEW r \in onWire PROVE TableRequestIs(r)'
  BY DEF ResultsInv, TableRequestIs
<1> QED BY <1>2, <1>3, <1>4, <1>5 DEF ResultsInv

LEMMA UntroubledRests ==
    ASSUME TableShapes, Results!Untroubled
    PROVE  /\ tally'.confirmed = tally.confirmed /\ tally'.attempts = tally.attempts
           /\ {"confirmed", "attempts"} \subseteq DOMAIN tally'
BY DEF TableShapes, Results!Untroubled

\* A fresh confirmation, or one that is asked again as it was.
Fresh(preview) == preview.n = tally.confirmed + 1 /\ preview.rows[1] # "none"
AskedAlready(k, preview) ==
    /\ preview # Results!Nothing /\ UseOf(k, preview)
    /\ KeyedBy(preview.n, recovery.intents[k].key)
    /\ recovery.intents[k].of = Content(preview)

\* The key of a request is that of its content, or a new one.
LEMMA KeyIs ==
    ASSUME ResultsInv, NEW k \in Results!Kinds, NEW preview, preview.rows[1] # "none"
    PROVE  /\ Results!KeyOf(k, preview) \in 1..(tally.attempts + 1)
           /\ \/ TableSaid(Results!KeyOf(k, preview), k, Content(preview))
              \/ Results!KeyOf(k, preview) = tally.attempts + 1
           /\ recovery.intents[k].of = Content(preview) => Results!KeyOf(k, preview) = recovery.intents[k].key
<1>1. tally.attempts \in Nat
  BY DEF ResultsInv, TableShapes
<1>2. CASE recovery.intents[k].of = Content(preview)
  <2>1. Results!KeyOf(k, preview) = recovery.intents[k].key
    BY <1>2 DEF Results!KeyOf, Content
  <2>2. recovery.intents[k] # Results!NoIntent
    <3>1. Results!NoIntent.of[2][1] = "none"
      BY DEF Results!NoIntent
    <3>2. Content(preview)[2][1] = preview.rows[1]
      BY DEF Content
    <3> QED BY <1>2, <3>1, <3>2
  <2>3. TableSaid(Results!KeyOf(k, preview), k, Content(preview))
    BY <1>2, <2>1, <2>2 DEF TableSaid
  <2>4. Results!KeyOf(k, preview) \in 1..tally.attempts
    BY <2>3 DEF ResultsInv, TableSaidHolds
  <2> QED BY <1>1, <2>1, <2>3, <2>4
<1>3. CASE recovery.intents[k].of # Content(preview)
  <2>1. Results!KeyOf(k, preview) = tally.attempts + 1
    BY <1>3 DEF Results!KeyOf, Content
  <2> QED BY <1>1, <1>3, <2>1
<1> QED BY <1>2, <1>3

\* What a request adds to what is asked for.
Adds(k, preview, key) ==
    /\ \A l, p : UseOf(l, p)' => UseOf(l, p) \/ (l = k /\ p = preview)
    /\ \A n, a : KeyedBy(n, a)' => KeyedBy(n, a) \/ (n = preview.n /\ a = key)
    /\ \A a, l, c : TableSaid(a, l, c)' => TableSaid(a, l, c) \/ (a = key /\ l = k /\ c = Content(preview))

\* The request, and what the table and the session know of it.
Sent(k, preview, key) ==
    /\ \E r : /\ onWire' = onWire \cup {r}
              /\ r.kind = k /\ r.preview = preview /\ r.key = key /\ r.attempt = tally.attempts + 1
    /\ \E b : /\ asks' = [asks EXCEPT ![k] = b]
              /\ {"attempt", "of", "reply", "report", "doubt"} \subseteq DOMAIN b
              /\ b.attempt = tally.attempts + 1 /\ b.of = preview
              /\ b.reply = "none" /\ b.report = "none" /\ b.doubt = Results!Nothing
    /\ \E i : recovery'.intents = [recovery.intents EXCEPT ![k] = i] /\ i.of = Content(preview) /\ i.key = key
    /\ recovery'.pending = IF k = "assign" THEN preview ELSE recovery.pending
    /\ {"pending", "intents"} \subseteq DOMAIN recovery'
    /\ tally'.attempts = tally.attempts + 1
    /\ tally'.confirmed = IF preview.n > tally.confirmed THEN preview.n ELSE tally.confirmed
    /\ {"confirmed", "attempts"} \subseteq DOMAIN tally'
    /\ UNCHANGED <<outcomes, written>>

LEMMA SendIs ==
    ASSUME TableShapes, NEW k \in Results!Kinds, NEW preview, Results!Send(k, preview)
    PROVE  Sent(k, preview, Results!KeyOf(k, preview))
<1>1. PICK key, n : key = Results!KeyOf(k, preview) /\ n = tally.attempts + 1
  OBVIOUS
<1>2. PICK r : r = [kind |-> k, preview |-> preview, key |-> key, attempt |-> n]
  OBVIOUS
<1>3. onWire' = onWire \cup {r}
  BY <1>1, <1>2 DEF Results!Send
<1>4. r.kind = k /\ r.preview = preview /\ r.key = key /\ r.attempt = n
  BY <1>2
<1>5. PICK b : b = [Results!Silent EXCEPT !.attempt = n, !.of = preview]
  OBVIOUS
<1>6. asks' = [asks EXCEPT ![k] = b]
  BY <1>1, <1>5 DEF Results!Send
<1>7. /\ {"attempt", "of", "reply", "report", "doubt"} \subseteq DOMAIN b
      /\ b.attempt = n /\ b.of = preview /\ b.reply = "none" /\ b.report = "none" /\ b.doubt = Results!Nothing
  BY <1>5, SilentIs
<1>8. PICK i : i = [of |-> Content(preview), key |-> key]
  OBVIOUS
<1>9. i.of = Content(preview) /\ i.key = key
  BY <1>8
<1>10. PICK j : j = [recovery.intents EXCEPT ![k] = i]
  OBVIOUS
<1>11. PICK q : q = IF k = "assign" THEN preview ELSE recovery.pending
  OBVIOUS
<1>12. recovery' = [intents |-> j, pending |-> q]
  BY <1>1, <1>8, <1>10, <1>11 DEF Results!Send, Content
<1>13. recovery'.intents = j /\ recovery'.pending = q /\ {"pending", "intents"} \subseteq DOMAIN recovery'
  BY <1>12
<1>14. PICK c : c = IF preview.n > tally.confirmed THEN preview.n ELSE tally.confirmed
  OBVIOUS
<1>15. tally' = [tally EXCEPT !.attempts = n, !.confirmed = c]
  BY <1>1, <1>14 DEF Results!Send
<1>16. tally'.attempts = n /\ tally'.confirmed = c /\ {"confirmed", "attempts"} \subseteq DOMAIN tally'
  BY <1>15 DEF TableShapes
<1>17. UNCHANGED <<outcomes, written>>
  BY DEF Results!Send
<1>18. \E x : onWire' = onWire \cup {x} /\ x.kind = k /\ x.preview = preview /\ x.key = key /\ x.attempt = n
  BY <1>3, <1>4
<1>19. \E x : /\ asks' = [asks EXCEPT ![k] = x]
              /\ {"attempt", "of", "reply", "report", "doubt"} \subseteq DOMAIN x
              /\ x.attempt = n /\ x.of = preview /\ x.reply = "none" /\ x.report = "none" /\ x.doubt = Results!Nothing
  BY <1>6, <1>7
<1>20. \E x : recovery'.intents = [recovery.intents EXCEPT ![k] = x] /\ x.of = Content(preview) /\ x.key = key
  BY <1>9, <1>10, <1>13
<1> QED BY <1>1, <1>11, <1>13, <1>14, <1>16, <1>17, <1>18, <1>19, <1>20 DEF Sent

LEMMA SentAdds ==
    ASSUME TableShapes, NEW k \in Results!Kinds, NEW preview, NEW key, Sent(k, preview, key), \A l \in Results!Kinds : AskHolds(l)
    PROVE  Adds(k, preview, key)
<1>1. PICK r : /\ onWire' = onWire \cup {r}
               /\ r.kind = k /\ r.preview = preview /\ r.key = key /\ r.attempt = tally.attempts + 1
  BY DEF Sent
<1>2. PICK b : asks' = [asks EXCEPT ![k] = b] /\ b.of = preview /\ b.doubt = Results!Nothing
  BY DEF Sent
<1>3. PICK i : recovery'.intents = [recovery.intents EXCEPT ![k] = i] /\ i.of = Content(preview) /\ i.key = key
  BY DEF Sent
<1>4. /\ recovery'.pending = IF k = "assign" THEN preview ELSE recovery.pending
      /\ written' = written
  BY DEF Sent
<1>5. /\ \A l \in Results!Kinds : asks'[l] = IF l = k THEN b ELSE asks[l]
      /\ \A l \in Results!Kinds : recovery'.intents[l] = IF l = k THEN i ELSE recovery.intents[l]
  BY <1>2, <1>3 DEF TableShapes
<1>6. "assign" \in Results!Kinds
  BY DEF Results!Kinds
<1>7. ASSUME NEW l, NEW p, UseOf(l, p)' PROVE UseOf(l, p) \/ (l = k /\ p = preview)
  BY <1>1, <1>2, <1>4, <1>5, <1>7 DEF UseOf
<1>8. ASSUME NEW n, NEW a, KeyedBy(n, a)' PROVE KeyedBy(n, a) \/ (n = preview.n /\ a = key)
  <2>1. CASE \E x \in onWire' : x.preview.n = n /\ x.key = a
    BY <1>1, <2>1 DEF KeyedBy
  <2>2. CASE recovery'.pending # Results!Nothing /\ recovery'.pending.n = n /\ a = recovery'.intents["assign"].key
    BY <1>3, <1>4, <1>5, <1>6, <2>2 DEF KeyedBy
  <2>3. CASE \E x \in Results!Kinds : /\ a = recovery'.intents[x].key
                                      /\ \/ asks'[x].attempt # 0 /\ asks'[x].of.n = n
                                         \/ asks'[x].doubt # Results!Nothing /\ asks'[x].doubt.n = n
    <3>1. PICK x \in Results!Kinds : /\ a = recovery'.intents[x].key
                                     /\ \/ asks'[x].attempt # 0 /\ asks'[x].of.n = n
                                        \/ asks'[x].doubt # Results!Nothing /\ asks'[x].doubt.n = n
      BY <2>3
    <3>2. CASE x = k
      BY <1>2, <1>3, <1>5, <3>1, <3>2
    <3>3. CASE x # k
      BY <1>5, <3>1, <3>3 DEF KeyedBy
    <3> QED BY <3>2, <3>3
  <2> QED BY <1>8, <2>1, <2>2, <2>3 DEF KeyedBy
<1>9. ASSUME NEW a, NEW l, NEW c, TableSaid(a, l, c)' PROVE TableSaid(a, l, c) \/ (a = key /\ l = k /\ c = Content(preview))
  <2>1. CASE \E x \in onWire' : x.key = a /\ x.kind = l /\ c = Content(x.preview)
    BY <1>1, <2>1 DEF TableSaid
  <2>2. CASE l \in Results!Kinds /\ recovery'.intents[l] # Results!NoIntent /\ recovery'.intents[l].key = a /\ recovery'.intents[l].of = c
    BY <1>3, <1>5, <2>2 DEF TableSaid
  <2> QED BY <1>9, <2>1, <2>2 DEF TableSaid, Content
<1> QED BY <1>7, <1>8, <1>9 DEF Adds

\* The key is as the invariant wants it.
KeySuits(k, preview, key) ==
    /\ key \in 1..(tally.attempts + 1)
    /\ TableSaid(key, k, Content(preview)) \/ key = tally.attempts + 1
    /\ recovery.intents[k].of = Content(preview) => key = recovery.intents[k].key

LEMMA SentAsks ==
    ASSUME ResultsInv, NEW k \in Results!Kinds, NEW preview, Fresh(preview) \/ AskedAlready(k, preview), NEW key, Sent(k, preview, key),
           KeySuits(k, preview, key)
    PROVE  UsesHold' /\ KeysHold' /\ TableSaidHolds' /\ WrittenOnce'
<1>1. Adds(k, preview, key)
  BY SentAdds DEF ResultsInv
<1>2. /\ tally'.attempts = tally.attempts + 1
      /\ tally'.confirmed = IF preview.n > tally.confirmed THEN preview.n ELSE tally.confirmed
      /\ UNCHANGED <<outcomes, written>>
  BY DEF Sent
<1>3. tally.confirmed \in Nat /\ tally.attempts \in Nat
  BY DEF ResultsInv, TableShapes
<1>4. preview.n \in 1..(tally.confirmed + 1) /\ preview.rows[1] # "none"
  BY <1>3 DEF Fresh, AskedAlready, ResultsInv, UsesHold
<1>5. tally'.confirmed \in Nat /\ tally.confirmed <= tally'.confirmed /\ preview.n <= tally'.confirmed
  BY <1>2, <1>3, <1>4
<1>6. UsesHold'
  <2>1. ASSUME NEW l, NEW p, UseOf(l, p)' PROVE l \in Results!Kinds /\ p.n \in 1..tally'.confirmed /\ p.rows[1] # "none"
    <3>1. CASE UseOf(l, p)
      <4>1. l \in Results!Kinds /\ p.n \in 1..tally.confirmed /\ p.rows[1] # "none"
        BY <3>1 DEF ResultsInv, UsesHold
      <4> QED BY <1>3, <1>5, <4>1
    <3>2. CASE l = k /\ p = preview
      BY <1>3, <1>4, <1>5, <3>2
    <3> QED BY <1>1, <2>1, <3>1, <3>2 DEF Adds
  <2>2. ASSUME NEW l, NEW p, UseOf(l, p), p.n = preview.n PROVE l = k /\ p = preview
    <3>1. p.n \in 1..tally.confirmed
      BY <2>2 DEF ResultsInv, UsesHold
    <3>2. AskedAlready(k, preview)
      BY <1>3, <2>2, <3>1 DEF Fresh
    <3> QED BY <2>2, <3>2 DEF AskedAlready, ResultsInv, UsesHold
  <2>3. ASSUME NEW l, NEW m, NEW p, NEW q, UseOf(l, p)', UseOf(m, q)', p.n = q.n PROVE l = m /\ p = q
    <3>1. UseOf(l, p) \/ (l = k /\ p = preview)
      BY <1>1, <2>3 DEF Adds
    <3>2. UseOf(m, q) \/ (m = k /\ q = preview)
      BY <1>1, <2>3 DEF Adds
    <3>3. CASE UseOf(l, p) /\ UseOf(m, q)
      BY <2>3, <3>3 DEF ResultsInv, UsesHold
    <3>4. CASE l = k /\ p = preview
      BY <2>2, <2>3, <3>2, <3>4
    <3>5. CASE m = k /\ q = preview
      BY <2>2, <2>3, <3>1, <3>5
    <3> QED BY <3>1, <3>2, <3>3, <3>4, <3>5
  <2> QED BY <2>1, <2>3 DEF UsesHold
<1>7. KeysHold'
  <2>1. ASSUME NEW a, KeyedBy(preview.n, a) PROVE a = key
    <3>1. preview.n \in 1..tally.confirmed
      BY <2>1 DEF ResultsInv, KeysHold
    <3>2. AskedAlready(k, preview)
      BY <1>3, <3>1 DEF Fresh
    <3> QED BY <2>1, <3>2 DEF AskedAlready, ResultsInv, KeysHold, KeySuits
  <2>2. ASSUME NEW w \in written, w.preview.n = preview.n PROVE key \in DOMAIN outcomes /\ outcomes[key] = "updated"
    <3>1. UseOf(w.kind, w.preview)
      BY DEF UseOf
    <3>2. preview.n \in 1..tally.confirmed
      BY <2>2, <3>1 DEF ResultsInv, UsesHold
    <3>3. AskedAlready(k, preview)
      BY <1>3, <3>2 DEF Fresh
    <3>4. KeyedBy(preview.n, key)
      BY <3>3 DEF AskedAlready, KeySuits
    <3> QED BY <2>2, <3>4 DEF ResultsInv, KeysHold
  <2>3. ASSUME NEW n, NEW a, KeyedBy(n, a)' PROVE n \in 1..tally'.confirmed /\ a \in 1..tally'.attempts
    <3>1. CASE KeyedBy(n, a)
      <4>1. n \in 1..tally.confirmed /\ a \in 1..tally.attempts
        BY <3>1 DEF ResultsInv, KeysHold
      <4> QED BY <1>2, <1>3, <1>5, <4>1
    <3>2. CASE n = preview.n /\ a = key
      BY <1>2, <1>3, <1>4, <1>5, <3>2 DEF KeySuits
    <3> QED BY <1>1, <2>3, <3>1, <3>2 DEF Adds
  <2>4. ASSUME NEW n, NEW a, NEW b, KeyedBy(n, a)', KeyedBy(n, b)' PROVE a = b
    <3>1. KeyedBy(n, a) \/ (n = preview.n /\ a = key)
      BY <1>1, <2>4 DEF Adds
    <3>2. KeyedBy(n, b) \/ (n = preview.n /\ b = key)
      BY <1>1, <2>4 DEF Adds
    <3>3. CASE KeyedBy(n, a) /\ KeyedBy(n, b)
      BY <3>3 DEF ResultsInv, KeysHold
    <3>4. CASE n = preview.n /\ (a = key \/ b = key)
      BY <2>1, <3>1, <3>2, <3>4
    <3> QED BY <3>1, <3>2, <3>3, <3>4
  <2>5. ASSUME NEW n, NEW a, KeyedBy(n, a)', NEW w \in written, w.preview.n = n
        PROVE  a \in DOMAIN outcomes /\ outcomes[a] = "updated"
    <3>1. CASE KeyedBy(n, a)
      BY <2>5, <3>1 DEF ResultsInv, KeysHold
    <3>2. CASE n = preview.n /\ a = key
      BY <2>2, <2>5, <3>2
    <3> QED BY <1>1, <2>5, <3>1, <3>2 DEF Adds
  <2> QED BY <1>2, <2>3, <2>4, <2>5 DEF KeysHold
<1>8. TableSaidHolds'
  <2>1. ASSUME NEW a, NEW l, NEW c, TableSaid(a, l, c) PROVE a \in 1..tally.attempts
    BY <2>1 DEF ResultsInv, TableSaidHolds
  <2>2. ASSUME NEW a, NEW l, NEW c, TableSaid(a, l, c)' PROVE a \in 1..tally'.attempts
    <3>1. CASE TableSaid(a, l, c)
      BY <1>2, <1>3, <2>1, <3>1
    <3>2. CASE a = key
      BY <1>2, <1>3, <3>2 DEF KeySuits
    <3> QED BY <1>1, <2>2, <3>1, <3>2 DEF Adds
  <2>3. ASSUME NEW l, NEW c, TableSaid(key, l, c) PROVE l = k /\ c = Content(preview)
    <3>1. key # tally.attempts + 1
      BY <1>3, <2>1, <2>3
    <3>2. TableSaid(key, k, Content(preview))
      BY <3>1 DEF KeySuits
    <3> QED BY <2>3, <3>2 DEF ResultsInv, TableSaidHolds
  <2>4. ASSUME NEW a, NEW l, NEW m, NEW c, NEW d, TableSaid(a, l, c)', TableSaid(a, m, d)' PROVE l = m /\ c = d
    <3>1. TableSaid(a, l, c) \/ (a = key /\ l = k /\ c = Content(preview))
      BY <1>1, <2>4 DEF Adds
    <3>2. TableSaid(a, m, d) \/ (a = key /\ m = k /\ d = Content(preview))
      BY <1>1, <2>4 DEF Adds
    <3>3. CASE TableSaid(a, l, c) /\ TableSaid(a, m, d)
      BY <3>3 DEF ResultsInv, TableSaidHolds
    <3>4. CASE a = key
      BY <2>3, <3>1, <3>2, <3>4
    <3> QED BY <3>1, <3>2, <3>3, <3>4
  <2>5. ASSUME NEW a, NEW l, NEW c, TableSaid(a, l, c)', a \in DOMAIN outcomes, outcomes[a] = "updated" PROVE Wrote(l, c)
    <3>1. CASE TableSaid(a, l, c)
      BY <2>5, <3>1 DEF ResultsInv, TableSaidHolds
    <3>2. CASE a = key /\ l = k /\ c = Content(preview)
      <4>1. DOMAIN outcomes \subseteq 1..tally.attempts
        BY DEF ResultsInv, TableSaidHolds
      <4>2. key # tally.attempts + 1
        BY <1>3, <2>5, <3>2, <4>1
      <4>3. TableSaid(key, k, Content(preview))
        BY <4>2 DEF KeySuits
      <4> QED BY <2>5, <3>2, <4>3 DEF ResultsInv, TableSaidHolds
    <3> QED BY <1>1, <2>5, <3>1, <3>2 DEF Adds
  <2>6. DOMAIN outcomes \subseteq 1..tally'.attempts
    BY <1>2, <1>3 DEF ResultsInv, TableSaidHolds
  <2>7. \A l, c : Wrote(l, c) => Wrote(l, c)'
    BY <1>2 DEF Wrote
  <2> QED BY <1>2, <2>2, <2>4, <2>5, <2>6, <2>7 DEF TableSaidHolds
<1>9. WrittenOnce'
  BY <1>2 DEF ResultsInv, WrittenOnce
<1> QED BY <1>6, <1>7, <1>8, <1>9

LEMMA SentStep ==
    ASSUME ResultsInv, NEW k \in Results!Kinds, NEW preview, Fresh(preview) \/ AskedAlready(k, preview), NEW key, Sent(k, preview, key),
           KeySuits(k, preview, key)
    PROVE  ResultsInv'
<1>1. UsesHold' /\ KeysHold' /\ TableSaidHolds' /\ WrittenOnce'
  BY SentAsks
<1>2. PICK r : /\ onWire' = onWire \cup {r}
               /\ r.kind = k /\ r.preview = preview /\ r.key = key /\ r.attempt = tally.attempts + 1
  BY DEF Sent
<1>3. PICK b : /\ asks' = [asks EXCEPT ![k] = b]
               /\ {"attempt", "of", "reply", "report", "doubt"} \subseteq DOMAIN b
               /\ b.attempt = tally.attempts + 1 /\ b.of = preview
               /\ b.reply = "none" /\ b.report = "none" /\ b.doubt = Results!Nothing
  BY DEF Sent
<1>4. PICK i : recovery'.intents = [recovery.intents EXCEPT ![k] = i] /\ i.of = Content(preview) /\ i.key = key
  BY DEF Sent
<1>5. /\ recovery'.pending = IF k = "assign" THEN preview ELSE recovery.pending
      /\ {"pending", "intents"} \subseteq DOMAIN recovery'
      /\ tally'.attempts = tally.attempts + 1
      /\ tally'.confirmed = IF preview.n > tally.confirmed THEN preview.n ELSE tally.confirmed
      /\ {"confirmed", "attempts"} \subseteq DOMAIN tally'
      /\ UNCHANGED <<outcomes, written>>
  BY DEF Sent
<1>6. TableShapes
  BY DEF ResultsInv
<1>7. /\ DOMAIN asks' = Results!Kinds /\ DOMAIN recovery'.intents = Results!Kinds
      /\ \A l \in Results!Kinds : asks'[l] = IF l = k THEN b ELSE asks[l]
      /\ \A l \in Results!Kinds : recovery'.intents[l] = IF l = k THEN i ELSE recovery.intents[l]
  BY <1>3, <1>4, <1>6 DEF TableShapes
<1>8. preview.n \in 1..(tally.confirmed + 1) /\ preview # Results!Nothing
  BY <1>6, NothingIs DEF Fresh, AskedAlready, ResultsInv, UsesHold, TableShapes
<1>9. TableShapes'
  <2>1. tally'.confirmed \in Nat /\ tally'.attempts \in Nat
    BY <1>5, <1>6, <1>8 DEF TableShapes
  <2>2. "assign" \in Results!Kinds
    BY DEF Results!Kinds
  <2>3. recovery'.pending # Results!Nothing => recovery'.intents["assign"].of = Content(recovery'.pending)
    <3>1. CASE k = "assign"
      BY <1>4, <1>5, <1>7, <2>2, <3>1
    <3>2. CASE k # "assign"
      BY <1>5, <1>6, <1>7, <2>2, <3>2 DEF TableShapes
    <3> QED BY <3>1, <3>2
  <2>4. \A p : Content(p)' = Content(p)
    BY DEF Content
  <2> QED BY <1>5, <1>7, <2>1, <2>3, <2>4 DEF TableShapes, Content
<1>10. ASSUME NEW l \in Results!Kinds PROVE AskHolds(l)'
  <2>1. CASE l = k
    <3>1. asks'[k] = b /\ recovery'.intents[k] = i
      BY <1>7
    <3>2. tally'.attempts \in Nat /\ tally.attempts \in Nat
      BY <1>5, <1>6 DEF TableShapes
    <3> QED BY <1>3, <1>4, <1>5, <1>8, <2>1, <3>1, <3>2 DEF AskHolds, Content
  <2>2. CASE l # k
    <3>1. AskHolds(l)
      BY DEF ResultsInv
    <3>2. asks'[l] = asks[l] /\ recovery'.intents[l] = recovery.intents[l]
      BY <1>7, <2>2
    <3>3. asks[l].of.n # preview.n
      <4>1. CASE asks[l].of = Results!Nothing
        BY <1>6, <1>8, <4>1, NothingIs DEF TableShapes
      <4>2. CASE asks[l].of # Results!Nothing
        <5>1. UseOf(l, asks[l].of)
          BY <4>2 DEF UseOf
        <5>2. asks[l].of.n \in 1..tally.confirmed
          BY <5>1 DEF ResultsInv, UsesHold
        <5>3. CASE Fresh(preview)
          BY <1>6, <5>2, <5>3 DEF Fresh, TableShapes
        <5>4. CASE AskedAlready(k, preview)
          BY <2>2, <5>1, <5>4 DEF AskedAlready, ResultsInv, UsesHold
        <5> QED BY <5>3, <5>4
      <4> QED BY <4>1, <4>2
    <3>4. Over(asks[l].of.n) => Over(asks[l].of.n)'
      BY <1>2, <1>5, <3>2, <3>3 DEF Over
    <3>5. asks[l].attempt \in 0..tally'.attempts
      BY <1>5, <1>6, <3>1 DEF AskHolds, TableShapes
    <3>6. \A c : Wrote(l, c) => Wrote(l, c)'
      BY <1>5 DEF Wrote
    <3> QED BY <3>1, <3>2, <3>4, <3>5, <3>6 DEF AskHolds, Content
  <2> QED BY <2>1, <2>2
<1>11. ASSUME NEW q \in onWire' PROVE TableRequestIs(q)'
  <2>1. CASE q = r
    BY <1>2, <1>3, <1>5, <1>6, <1>7, <2>1 DEF TableRequestIs, TableShapes
  <2>2. CASE q \in onWire
    <3>1. TableRequestIs(q) /\ q.kind \in Results!Kinds
      <4>1. UseOf(q.kind, q.preview)
        BY <2>2 DEF UseOf
      <4> QED BY <2>2, <4>1 DEF ResultsInv, UsesHold
    <3>2. q.attempt \in 1..tally'.attempts /\ q.attempt # tally.attempts + 1
      BY <1>5, <1>6, <3>1 DEF TableRequestIs, TableShapes
    <3>3. asks'[q.kind].attempt = q.attempt => asks'[q.kind].of = q.preview
      <4>1. CASE q.kind = k
        BY <1>3, <1>7, <3>2, <4>1
      <4>2. CASE q.kind # k
        BY <1>7, <3>1, <4>2 DEF TableRequestIs
      <4> QED BY <4>1, <4>2
    <3> QED BY <3>2, <3>3 DEF TableRequestIs
  <2> QED BY <1>2, <2>1, <2>2
<1> QED BY <1>1, <1>9, <1>10, <1>11 DEF ResultsInv

LEMMA SendStep ==
    ASSUME ResultsInv, NEW k \in Results!Kinds, NEW preview, Fresh(preview) \/ AskedAlready(k, preview), Results!Send(k, preview)
    PROVE  ResultsInv'
<1>1. preview.rows[1] # "none"
  BY DEF Fresh, AskedAlready, ResultsInv, UsesHold
<1>2. KeySuits(k, preview, Results!KeyOf(k, preview))
  BY <1>1, KeyIs DEF KeySuits
<1>3. Sent(k, preview, Results!KeyOf(k, preview))
  BY SendIs DEF ResultsInv
<1> QED BY <1>2, <1>3, SentStep

LEMMA AssignStep ==
    ASSUME ResultsInv, NEW target, Results!Assign(target)
    PROVE  ResultsInv'
<1>1. PICK p : p = Results!Confirmation(target)
  OBVIOUS
<1>2. Fresh(p) /\ Results!Send("assign", p)
  BY <1>1 DEF Results!Assign, Results!Confirmation, Fresh
<1>3. "assign" \in Results!Kinds
  BY DEF Results!Kinds
<1> QED BY <1>2, <1>3, SendStep

LEMMA RetryStep == ResultsInv /\ Results!RetryAssignment => ResultsInv'
<1> SUFFICES ASSUME ResultsInv, Results!RetryAssignment PROVE ResultsInv'
  OBVIOUS
<1>1. PICK p : p = recovery.pending
  OBVIOUS
<1>2. p # Results!Nothing /\ Results!Send("assign", p)
  BY <1>1 DEF Results!RetryAssignment
<1>3. "assign" \in Results!Kinds
  BY DEF Results!Kinds
<1>4. AskedAlready("assign", p)
  BY <1>1, <1>2, <1>3 DEF AskedAlready, UseOf, KeyedBy, ResultsInv, TableShapes
<1> QED BY <1>2, <1>3, <1>4, SendStep

LEMMA ReviewStep ==
    ASSUME ResultsInv, NEW target, Results!Review(target)
    PROVE  ResultsInv'
<1>1. "review" \in Results!Kinds
  BY DEF Results!Kinds
<1>2. PICK d : d = asks["review"].doubt
  OBVIOUS
<1>3. CASE d.target = target /\ d.rows = Results!Chosen
  <2>1. Results!Send("review", d) /\ Results!Chosen[1] # "none"
    BY <1>2, <1>3 DEF Results!Review
  <2>2. d # Results!Nothing
    BY <1>3, <2>1, NothingIs
  <2>3. AskHolds("review")
    BY <1>1 DEF ResultsInv
  <2>4. AskedAlready("review", d)
    BY <1>1, <1>2, <2>2, <2>3 DEF AskedAlready, UseOf, KeyedBy, AskHolds
  <2> QED BY <1>1, <2>1, <2>4, SendStep
<1>4. CASE ~ (d.target = target /\ d.rows = Results!Chosen)
  <2>1. PICK p : p = Results!Confirmation(target)
    OBVIOUS
  <2>2. Results!Send("review", p)
    BY <1>2, <1>4, <2>1 DEF Results!Review
  <2>3. Fresh(p)
    BY <2>1 DEF Results!Review, Results!Confirmation, Fresh
  <2> QED BY <1>1, <2>2, <2>3, SendStep
<1> QED BY <1>3, <1>4

\* What the server makes of a request.
LEMMA ServeIs ==
    ASSUME NEW r, Results!Serve(r)
    PROVE  /\ onWire' = onWire \ {r} /\ UNCHANGED <<recovery, tally>>
           /\ asks' = IF asks[r.kind].attempt = r.attempt THEN [asks EXCEPT ![r.kind].reply = Results!Answer(r)] ELSE asks
           /\ \/ /\ Results!Answer(r) = "refused" \/ (r.key \in DOMAIN outcomes /\ Results!Answer(r) = outcomes[r.key])
                 /\ UNCHANGED <<outcomes, written>>
              \/ /\ r.key \notin DOMAIN outcomes /\ Results!Answer(r) # "refused"
                 /\ DOMAIN outcomes' = DOMAIN outcomes \cup {r.key} /\ outcomes'[r.key] = Results!Answer(r)
                 /\ \A x \in DOMAIN outcomes : outcomes'[x] = outcomes[x]
                 /\ \/ Results!Answer(r) # "updated" /\ UNCHANGED written
                    \/ /\ Results!Answer(r) = "updated"
                       /\ \E w : written' = written \cup {w} /\ w.kind = r.kind /\ w.preview = r.preview
<1>1. PICK a : a = Results!Answer(r)
  OBVIOUS
<1>2. /\ onWire' = onWire \ {r} /\ UNCHANGED <<recovery, tally>>
      /\ asks' = IF asks[r.kind].attempt = r.attempt THEN [asks EXCEPT ![r.kind].reply = Results!Answer(r)] ELSE asks
  BY DEF Results!Serve
<1>3. CASE a # "refused" /\ r.key \notin DOMAIN outcomes
  <2>1. outcomes' = [x \in DOMAIN outcomes \cup {r.key} |-> IF x = r.key THEN a ELSE outcomes[x]]
    BY <1>1, <1>3 DEF Results!Serve
  <2>2. /\ DOMAIN outcomes' = DOMAIN outcomes \cup {r.key} /\ outcomes'[r.key] = a
        /\ \A x \in DOMAIN outcomes : outcomes'[x] = outcomes[x]
    BY <1>3, <2>1
  <2>3. CASE a = "updated"
    <3>1. PICK w : w = [kind |-> r.kind, preview |-> r.preview, version |-> card.version]
      OBVIOUS
    <3>2. written' = written \cup {w}
      BY <1>1, <1>3, <2>3, <3>1 DEF Results!Serve
    <3>3. w.kind = r.kind /\ w.preview = r.preview
      BY <3>1
    <3>4. \E x : written' = written \cup {x} /\ x.kind = r.kind /\ x.preview = r.preview
      BY <3>2, <3>3
    <3> QED BY <1>1, <1>2, <1>3, <2>2, <2>3, <3>4
  <2>4. CASE a # "updated"
    <3>1. written' = written
      BY <1>1, <2>4 DEF Results!Serve
    <3> QED BY <1>1, <1>2, <1>3, <2>2, <2>4, <3>1
  <2> QED BY <2>3, <2>4
<1>4. CASE a = "refused" \/ r.key \in DOMAIN outcomes
  <2>1. UNCHANGED <<outcomes, written>>
    BY <1>1, <1>4 DEF Results!Serve
  <2>2. a = "refused" \/ (r.key \in DOMAIN outcomes /\ a = outcomes[r.key])
    BY <1>1, <1>4 DEF Results!Answer
  <2> QED BY <1>1, <1>2, <2>1, <2>2
<1> QED BY <1>3, <1>4

LEMMA ServeStep ==
    ASSUME ResultsInv, NEW r \in onWire, Results!Serve(r)
    PROVE  ResultsInv'
<1>1. PICK a : a = Results!Answer(r)
  OBVIOUS
<1>2. /\ onWire' = onWire \ {r} /\ UNCHANGED <<recovery, tally>>
      /\ asks' = IF asks[r.kind].attempt = r.attempt THEN [asks EXCEPT ![r.kind].reply = a] ELSE asks
  BY <1>1, ServeIs
<1>3. \/ /\ a = "refused" \/ (r.key \in DOMAIN outcomes /\ a = outcomes[r.key])
         /\ UNCHANGED <<outcomes, written>>
      \/ /\ r.key \notin DOMAIN outcomes /\ a # "refused"
         /\ DOMAIN outcomes' = DOMAIN outcomes \cup {r.key} /\ outcomes'[r.key] = a
         /\ \A x \in DOMAIN outcomes : outcomes'[x] = outcomes[x]
         /\ \/ a # "updated" /\ UNCHANGED written
            \/ /\ a = "updated"
               /\ \E w : written' = written \cup {w} /\ w.kind = r.kind /\ w.preview = r.preview
  BY <1>1, ServeIs
<1>4. /\ UseOf(r.kind, r.preview) /\ KeyedBy(r.preview.n, r.key) /\ TableSaid(r.key, r.kind, Content(r.preview))
      /\ TableRequestIs(r) /\ TableShapes
  BY DEF UseOf, KeyedBy, TableSaid, ResultsInv
<1>5. r.kind \in Results!Kinds
  BY <1>4 DEF ResultsInv, UsesHold
<1>6. \A k \in Results!Kinds : AskHolds(k)
  BY DEF ResultsInv
<1>7. /\ DOMAIN asks' = Results!Kinds
      /\ \A k \in Results!Kinds : /\ asks'[k].of = asks[k].of /\ asks'[k].doubt = asks[k].doubt
                                  /\ asks'[k].attempt = asks[k].attempt /\ asks'[k].report = asks[k].report
                                  /\ {"attempt", "of", "reply", "report", "doubt"} \subseteq DOMAIN asks'[k]
                                  /\ \/ asks'[k].reply = asks[k].reply
                                     \/ k = r.kind /\ asks[k].attempt = r.attempt /\ asks'[k].reply = a
  <2>1. CASE asks[r.kind].attempt = r.attempt
    <3>1. PICK b : b = [asks[r.kind] EXCEPT !.reply = a]
      OBVIOUS
    <3>2. asks' = [asks EXCEPT ![r.kind] = b]
      BY <1>2, <2>1, <3>1
    <3>3. {"attempt", "of", "reply", "report", "doubt"} \subseteq DOMAIN asks[r.kind]
      BY <1>5, <1>6 DEF AskHolds
    <3>4. /\ b.of = asks[r.kind].of /\ b.doubt = asks[r.kind].doubt /\ b.attempt = asks[r.kind].attempt
          /\ b.report = asks[r.kind].report /\ b.reply = a
          /\ {"attempt", "of", "reply", "report", "doubt"} \subseteq DOMAIN b
      BY <3>1, <3>3
    <3>5. DOMAIN asks' = Results!Kinds /\ \A k \in Results!Kinds : asks'[k] = IF k = r.kind THEN b ELSE asks[k]
      BY <1>4, <3>2 DEF TableShapes
    <3>6. \A k \in Results!Kinds : {"attempt", "of", "reply", "report", "doubt"} \subseteq DOMAIN asks[k]
      BY <1>6 DEF AskHolds
    <3> QED BY <2>1, <3>4, <3>5, <3>6
  <2>2. CASE asks[r.kind].attempt # r.attempt
    BY <1>2, <1>4, <1>6, <2>2 DEF TableShapes, AskHolds
  <2> QED BY <2>1, <2>2
<1>8. \A w \in written' : w \in written \/ (w.kind = r.kind /\ w.preview = r.preview)
  BY <1>3
<1>9. ASSUME NEW l, NEW p, UseOf(l, p)' PROVE UseOf(l, p)
  BY <1>2, <1>4, <1>7, <1>8, <1>9 DEF UseOf
<1>10. ASSUME NEW n, NEW k, KeyedBy(n, k)' PROVE KeyedBy(n, k)
  BY <1>2, <1>7, <1>10 DEF KeyedBy
<1>11. ASSUME NEW k, NEW l, NEW c, TableSaid(k, l, c)' PROVE TableSaid(k, l, c)
  BY <1>2, <1>11 DEF TableSaid, Content
<1>12. \A x \in DOMAIN outcomes : x \in DOMAIN outcomes' /\ outcomes'[x] = outcomes[x]
  BY <1>3
<1>13. \A l, c : Wrote(l, c) => Wrote(l, c)'
  BY <1>3 DEF Wrote, Content
<1>14. \A w \in written' : w.preview.n = r.preview.n => r.key \in DOMAIN outcomes' /\ outcomes'[r.key] = "updated"
  <2>1. \A w \in written : w.preview.n = r.preview.n => r.key \in DOMAIN outcomes /\ outcomes[r.key] = "updated"
    BY <1>4 DEF ResultsInv, KeysHold
  <2> QED BY <1>3, <1>12, <2>1
<1>15. UsesHold'
  BY <1>2, <1>9 DEF ResultsInv, UsesHold
<1>16. KeysHold'
  <2>1. ASSUME NEW n, NEW k, KeyedBy(n, k), NEW w \in written', w.preview.n = n
        PROVE  k \in DOMAIN outcomes' /\ outcomes'[k] = "updated"
    <3>1. CASE n = r.preview.n
      <4>1. k = r.key
        BY <1>4, <2>1, <3>1 DEF ResultsInv, KeysHold
      <4> QED BY <1>14, <2>1, <3>1, <4>1
    <3>2. CASE n # r.preview.n
      <4>1. w \in written
        BY <1>8, <2>1, <3>2
      <4> QED BY <1>12, <2>1, <4>1 DEF ResultsInv, KeysHold
    <3> QED BY <3>1, <3>2
  <2> QED BY <1>2, <1>10, <2>1 DEF ResultsInv, KeysHold
<1>17. TableSaidHolds'
  <2>1. ASSUME NEW k, NEW l, NEW c, TableSaid(k, l, c), k \in DOMAIN outcomes', outcomes'[k] = "updated"
        PROVE  Wrote(l, c)'
    <3>1. CASE k \in DOMAIN outcomes
      <4>1. Wrote(l, c)
        BY <1>12, <2>1, <3>1 DEF ResultsInv, TableSaidHolds
      <4> QED BY <1>13, <4>1
    <3>2. CASE k \notin DOMAIN outcomes
      <4>1. k = r.key /\ a = "updated" /\ \E w \in written' : w.kind = r.kind /\ w.preview = r.preview
        BY <1>3, <2>1, <3>2
      <4>2. l = r.kind /\ c = Content(r.preview)
        BY <1>4, <2>1, <4>1 DEF ResultsInv, TableSaidHolds
      <4> QED BY <4>1, <4>2 DEF Wrote, Content
    <3> QED BY <3>1, <3>2
  <2>2. DOMAIN outcomes' \subseteq 1..tally.attempts
    BY <1>3, <1>4 DEF ResultsInv, TableSaidHolds
  <2> QED BY <1>2, <1>11, <2>1, <2>2 DEF ResultsInv, TableSaidHolds
<1>18. WrittenOnce'
  <2>1. CASE written' = written
    BY <2>1 DEF ResultsInv, WrittenOnce
  <2>2. ASSUME NEW w, r.key \notin DOMAIN outcomes, written' = written \cup {w}, w.preview = r.preview
        PROVE  WrittenOnce'
    <3>1. \A v \in written : v.preview.n # r.preview.n
      BY <1>4, <2>2 DEF ResultsInv, KeysHold
    <3> QED BY <2>2, <3>1 DEF ResultsInv, WrittenOnce
  <2> QED BY <1>3, <2>1, <2>2
<1>19. TableShapes'
  BY <1>2, <1>4, <1>7 DEF TableShapes, Content
<1>20. ASSUME NEW k \in Results!Kinds PROVE AskHolds(k)'
  <2>1. AskHolds(k)
    BY <1>6
  <2>2. ASSUME NEW n, Over(n) PROVE Over(n)'
    <3>1. \A w \in written' : w.preview.n # n
      BY <1>3, <2>2 DEF Over
    <3>2. \A x \in onWire' : x.preview.n = n => x.key \in DOMAIN outcomes'
      BY <1>2, <1>12, <2>2 DEF Over
    <3> QED BY <3>1, <3>2 DEF Over
  <2>3. asks'[k].reply = "updated" \/ asks'[k].report = "updated" => Wrote(k, Content(asks[k].of))'
    <3>1. CASE asks[k].reply = "updated" \/ asks[k].report = "updated"
      <4>1. Wrote(k, Content(asks[k].of))
        BY <2>1, <3>1 DEF AskHolds
      <4>2. PICK c : c = Content(asks[k].of)
        OBVIOUS
      <4>3. Wrote(k, c)'
        BY <1>13, <4>1, <4>2
      <4> QED BY <1>7, <4>2, <4>3 DEF Wrote, Content
    <3>2. CASE k = r.kind /\ asks[k].attempt = r.attempt /\ a = "updated"
      <4>1. asks[k].of = r.preview
        BY <1>4, <3>2 DEF TableRequestIs
      <4>2. TableSaid(r.key, k, Content(r.preview))
        BY <1>4, <3>2
      <4>3. CASE r.key \in DOMAIN outcomes /\ a = outcomes[r.key]
        <5>1. Wrote(k, Content(r.preview))
          BY <3>2, <4>2, <4>3 DEF ResultsInv, TableSaidHolds
        <5>2. PICK c : c = Content(r.preview)
          OBVIOUS
        <5>3. Wrote(k, c)'
          BY <1>13, <5>1, <5>2
        <5> QED BY <1>7, <4>1, <5>2, <5>3 DEF Wrote, Content
      <4>4. CASE \E w : written' = written \cup {w} /\ w.kind = r.kind /\ w.preview = r.preview
        BY <1>7, <3>2, <4>1, <4>4 DEF Wrote, Content
      <4> QED BY <1>3, <3>2, <4>3, <4>4
    <3> QED BY <1>7, <3>1, <3>2
  <2>4. asks'[k].reply = "conflict" \/ asks'[k].report = "conflict" => Over(asks[k].of.n)'
    <3>1. CASE asks[k].reply = "conflict" \/ asks[k].report = "conflict"
      <4>1. PICK n : n = asks[k].of.n
        OBVIOUS
      <4>2. Over(n)
        BY <2>1, <3>1, <4>1 DEF AskHolds
      <4>3. Over(n)'
        BY <2>2, <4>2
      <4> QED BY <1>7, <4>1, <4>3 DEF Over
    <3>2. CASE k = r.kind /\ asks[k].attempt = r.attempt /\ a = "conflict"
      <4>1. asks[k].of = r.preview
        BY <1>4, <3>2 DEF TableRequestIs
      <4>2. r.key \in DOMAIN outcomes' /\ outcomes'[r.key] = "conflict"
        BY <1>3, <3>2
      <4>3. \A w \in written' : w.preview.n # r.preview.n
        BY <1>14, <4>2
      <4>4. \A x \in onWire' : x.preview.n = r.preview.n => x.key \in DOMAIN outcomes'
        <5>1. ASSUME NEW x \in onWire, x.preview.n = r.preview.n PROVE x.key = r.key
          <6>1. KeyedBy(r.preview.n, x.key)
            BY <5>1 DEF KeyedBy
          <6> QED BY <1>4, <6>1 DEF ResultsInv, KeysHold
        <5> QED BY <1>2, <4>2, <5>1
      <4> QED BY <1>7, <4>1, <4>3, <4>4 DEF Over
    <3> QED BY <1>7, <3>1, <3>2
  <2>5. asks'[k].reply # "none" => asks[k].attempt # 0
    <3>1. r.attempt # 0
      BY <1>4 DEF TableRequestIs, TableShapes
    <3> QED BY <1>7, <2>1, <3>1 DEF AskHolds
  <2> QED BY <1>2, <1>7, <2>1, <2>3, <2>4, <2>5 DEF AskHolds, Content
<1>21. ASSUME NEW q \in onWire' PROVE TableRequestIs(q)'
  <2>1. TableRequestIs(q) /\ q \in onWire
    BY <1>2 DEF ResultsInv
  <2>2. q.kind \in Results!Kinds
    BY <2>1 DEF ResultsInv, UsesHold, UseOf
  <2> QED BY <1>2, <1>7, <2>1, <2>2 DEF TableRequestIs
<1> QED BY <1>15, <1>16, <1>17, <1>18, <1>19, <1>20, <1>21 DEF ResultsInv

\* Receive, ReviewNext and LoseAnswer: one call ends, and nothing new is asked.
EndsCall(k, b, i, p) ==
    /\ asks' = [asks EXCEPT ![k] = b]
    /\ DOMAIN recovery'.intents = Results!Kinds
    /\ \A l \in Results!Kinds : recovery'.intents[l] = IF l = k THEN i ELSE recovery.intents[l]
    /\ recovery'.pending = p /\ {"pending", "intents"} \subseteq DOMAIN recovery'
    /\ UNCHANGED <<outcomes, written, onWire>>
    /\ tally'.confirmed = tally.confirmed /\ tally'.attempts = tally.attempts
    /\ {"confirmed", "attempts"} \subseteq DOMAIN tally'

LEMMA CallEnds ==
    ASSUME ResultsInv, NEW k \in Results!Kinds, NEW b, NEW i, NEW p, EndsCall(k, b, i, p),
           p = recovery.pending \/ p = Results!Nothing,
           i = recovery.intents[k] \/ (i = Results!NoIntent /\ (k = "assign" => p = Results!Nothing)),
           {"attempt", "of", "reply", "report", "doubt"} \subseteq DOMAIN b, b.attempt = 0, b.reply = "none",
           b.of \in {Results!Nothing, asks[k].of},
           b.doubt = Results!Nothing \/ (b.doubt = asks[k].of /\ asks[k].attempt # 0 /\ i = recovery.intents[k]),
           b.report = "updated" => Wrote(k, Content(b.of)),
           b.report = "conflict" => Over(b.of.n)
    PROVE  ResultsInv'
<1>1. TableShapes /\ \A l \in Results!Kinds : AskHolds(l)
  BY DEF ResultsInv
<1>2. /\ DOMAIN asks' = Results!Kinds /\ DOMAIN recovery'.intents = Results!Kinds
      /\ \A l \in Results!Kinds : asks'[l] = IF l = k THEN b ELSE asks[l]
      /\ \A l \in Results!Kinds : recovery'.intents[l] = IF l = k THEN i ELSE recovery.intents[l]
      /\ recovery'.pending = p /\ {"pending", "intents"} \subseteq DOMAIN recovery'
      /\ UNCHANGED <<outcomes, written, onWire>>
      /\ tally'.confirmed = tally.confirmed /\ tally'.attempts = tally.attempts
      /\ {"confirmed", "attempts"} \subseteq DOMAIN tally'
  BY <1>1 DEF TableShapes, EndsCall
<1>3. "assign" \in Results!Kinds
  BY DEF Results!Kinds
<1>4. ASSUME NEW l, NEW q, UseOf(l, q)' PROVE UseOf(l, q)
  BY <1>2, <1>4 DEF UseOf
<1>5. ASSUME NEW n, NEW a, KeyedBy(n, a)' PROVE KeyedBy(n, a)
  <2>1. CASE \E x \in onWire' : x.preview.n = n /\ x.key = a
    BY <1>2, <2>1 DEF KeyedBy
  <2>2. CASE recovery'.pending # Results!Nothing /\ recovery'.pending.n = n /\ a = recovery'.intents["assign"].key
    BY <1>2, <1>3, <2>2 DEF KeyedBy
  <2>3. ASSUME NEW x \in Results!Kinds, a = recovery'.intents[x].key,
               \/ asks'[x].attempt # 0 /\ asks'[x].of.n = n
               \/ asks'[x].doubt # Results!Nothing /\ asks'[x].doubt.n = n
        PROVE  KeyedBy(n, a)
    <3>1. CASE x = k
      BY <1>2, <2>3, <3>1 DEF KeyedBy
    <3>2. CASE x # k
      BY <1>2, <2>3, <3>2 DEF KeyedBy
    <3> QED BY <3>1, <3>2
  <2> QED BY <1>5, <2>1, <2>2, <2>3 DEF KeyedBy
<1>6. ASSUME NEW a, NEW l, NEW c, TableSaid(a, l, c)' PROVE TableSaid(a, l, c)
  BY <1>2, <1>6 DEF TableSaid, Content
<1>7. FewerAsked
  BY <1>4, <1>5, <1>6 DEF FewerAsked
<1>8. UsesHold' /\ KeysHold' /\ TableSaidHolds' /\ WrittenOnce'
  BY <1>2, <1>7, FewerHold
<1>9. TableShapes'
  BY <1>1, <1>2, <1>3 DEF TableShapes, Content
<1>10. ASSUME NEW l \in Results!Kinds PROVE AskHolds(l)'
  <2>1. CASE l = k
    <3>1. asks'[l] = b /\ recovery'.intents[l] = i
      BY <1>2, <2>1
    <3>2. 0 \in 0..tally'.attempts
      BY <1>1, <1>2 DEF TableShapes
    <3>3. b.doubt # Results!Nothing => i.of = Content(b.doubt)
      BY <1>1, <2>1 DEF AskHolds
    <3>4. b.report = "updated" => Wrote(k, Content(asks[k].of))'
      BY <1>2, <2>1, <3>1 DEF Wrote, Content
    <3>5. b.report = "conflict" => Over(asks[k].of.n)'
      BY <1>2, <2>1, <3>1 DEF Over
    <3>6. b.reply # "updated" /\ b.reply # "conflict"
      OBVIOUS
    <3> QED BY <2>1, <3>1, <3>2, <3>3, <3>4, <3>5, <3>6 DEF AskHolds, Content
  <2>2. CASE l # k
    <3>1. asks'[l] = asks[l] /\ recovery'.intents[l] = recovery.intents[l] /\ AskHolds(l)
      BY <1>1, <1>2, <2>2
    <3> QED BY <1>2, <3>1 DEF AskHolds, Wrote, Over, Content
  <2> QED BY <2>1, <2>2
<1>11. ASSUME NEW r \in onWire' PROVE TableRequestIs(r)'
  <2>1. TableRequestIs(r) /\ r \in onWire
    BY <1>2 DEF ResultsInv
  <2>2. r.kind \in Results!Kinds
    BY <2>1 DEF ResultsInv, UsesHold, UseOf
  <2>3. r.attempt # 0
    BY <1>1, <2>1 DEF TableRequestIs, TableShapes
  <2> QED BY <1>2, <2>1, <2>2, <2>3 DEF TableRequestIs
<1> QED BY <1>8, <1>9, <1>10, <1>11 DEF ResultsInv

LEMMA ReceiveStep ==
    ASSUME ResultsInv, NEW k \in Results!Kinds, Results!Receive(k)
    PROVE  ResultsInv'
<1>1. PICK call : call = asks[k]
  OBVIOUS
<1>2. PICK b : b = [Results!Silent EXCEPT !.of = call.of, !.report = call.reply]
  OBVIOUS
<1>3. /\ {"attempt", "of", "reply", "report", "doubt"} \subseteq DOMAIN b
      /\ b.attempt = 0 /\ b.reply = "none" /\ b.doubt = Results!Nothing /\ b.of = call.of /\ b.report = call.reply
  BY <1>2, SilentIs
<1>4. PICK i : i = IF call.reply = "refused" THEN recovery.intents[k] ELSE Results!NoIntent
  OBVIOUS
<1>5. PICK p : p = IF k = "assign" THEN Results!Nothing ELSE recovery.pending
  OBVIOUS
<1>6. PICK j : j = IF call.reply = "refused" THEN recovery.intents ELSE [recovery.intents EXCEPT ![k] = Results!NoIntent]
  OBVIOUS
<1>7. DOMAIN j = Results!Kinds /\ \A l \in Results!Kinds : j[l] = IF l = k THEN i ELSE recovery.intents[l]
  <2>1. DOMAIN recovery.intents = Results!Kinds
    BY DEF ResultsInv, TableShapes
  <2>2. CASE call.reply = "refused"
    BY <1>4, <1>6, <2>1, <2>2
  <2>3. CASE call.reply # "refused"
    BY <1>4, <1>6, <2>1, <2>3
  <2> QED BY <2>2, <2>3
<1>8. recovery' = [pending |-> p, intents |-> j] /\ asks' = [asks EXCEPT ![k] = b] /\ call.reply # "none"
      /\ UNCHANGED <<outcomes, written, onWire, tally>>
  BY <1>1, <1>2, <1>5, <1>6 DEF Results!Receive
<1>9. EndsCall(k, b, i, p)
  BY <1>7, <1>8 DEF EndsCall, ResultsInv, TableShapes
<1>10. AskHolds(k)
  BY DEF ResultsInv
<1>11. b.report = "updated" => Wrote(k, Content(b.of))
  BY <1>1, <1>3, <1>10 DEF AskHolds
<1>12. b.report = "conflict" => Over(b.of.n)
  BY <1>1, <1>3, <1>10 DEF AskHolds
<1> QED BY <1>1, <1>3, <1>4, <1>5, <1>9, <1>11, <1>12, CallEnds

LEMMA ReviewNextStep ==
    ASSUME ResultsInv, NEW k \in Results!Kinds, Results!ReviewNext(k)
    PROVE  ResultsInv'
<1>1. PICK call : call = asks[k]
  OBVIOUS
<1>2. PICK b : b = [Results!Silent EXCEPT !.of = call.of, !.report = "updated"]
  OBVIOUS
<1>3. /\ {"attempt", "of", "reply", "report", "doubt"} \subseteq DOMAIN b
      /\ b.attempt = 0 /\ b.reply = "none" /\ b.doubt = Results!Nothing /\ b.of = call.of /\ b.report = "updated"
  BY <1>2, SilentIs
<1>4. PICK j : j = [recovery.intents EXCEPT ![k] = Results!NoIntent]
  OBVIOUS
<1>5. recovery' = [recovery EXCEPT !.intents = j]
  BY <1>4 DEF Results!ReviewNext
<1>6. asks' = [asks EXCEPT ![k] = b]
  BY <1>1, <1>2 DEF Results!ReviewNext
<1>7. k = "review" /\ call.reply = "updated" /\ UNCHANGED <<outcomes, written, onWire, tally>>
  BY <1>1 DEF Results!ReviewNext
<1>8. recovery'.intents = j /\ recovery'.pending = recovery.pending /\ {"pending", "intents"} \subseteq DOMAIN recovery'
  BY <1>5 DEF ResultsInv, TableShapes
<1>9. PICK p : p = recovery.pending
  OBVIOUS
<1>10. EndsCall(k, b, Results!NoIntent, p)
  BY <1>4, <1>6, <1>7, <1>8, <1>9 DEF EndsCall, ResultsInv, TableShapes
<1>11. Wrote(k, Content(b.of))
  BY <1>1, <1>3, <1>7 DEF ResultsInv, AskHolds
<1> QED BY <1>1, <1>3, <1>7, <1>9, <1>10, <1>11, CallEnds

LEMMA LoseStep ==
    ASSUME ResultsInv, NEW k \in Results!Kinds, Results!LoseAnswer(k)
    PROVE  ResultsInv'
<1>1. PICK call : call = asks[k]
  OBVIOUS
<1>2. PICK b : b = [Results!Silent EXCEPT !.doubt = call.of]
  OBVIOUS
<1>3. /\ {"attempt", "of", "reply", "report", "doubt"} \subseteq DOMAIN b
      /\ b.attempt = 0 /\ b.reply = "none" /\ b.doubt = call.of /\ b.of = Results!Nothing /\ b.report = "none"
  BY <1>2, SilentIs
<1>4. asks' = [asks EXCEPT ![k] = b] /\ call.attempt # 0 /\ UNCHANGED <<outcomes, written, onWire, recovery>>
  BY <1>1, <1>2 DEF Results!LoseAnswer, Results!Waiting
<1>5. /\ tally'.confirmed = tally.confirmed /\ tally'.attempts = tally.attempts
      /\ {"confirmed", "attempts"} \subseteq DOMAIN tally'
  BY UntroubledRests DEF Results!LoseAnswer, ResultsInv
<1>6. PICK i, p : i = recovery.intents[k] /\ p = recovery.pending
  OBVIOUS
<1>7. DOMAIN recovery.intents = Results!Kinds /\ \A l \in Results!Kinds : recovery.intents[l] = IF l = k THEN i ELSE recovery.intents[l]
  BY <1>6 DEF ResultsInv, TableShapes
<1>8. EndsCall(k, b, i, p)
  BY <1>4, <1>5, <1>6, <1>7 DEF EndsCall, ResultsInv, TableShapes
<1> QED BY <1>1, <1>3, <1>4, <1>6, <1>8, CallEnds

LEMMA LeaveTable == ResultsInv /\ Results!Leave => ResultsInv'
<1> SUFFICES ASSUME ResultsInv, Results!Leave PROVE ResultsInv'
  OBVIOUS
<1>1. TableShapes /\ \A l \in Results!Kinds : AskHolds(l)
  BY DEF ResultsInv
<1>2. "assign" \in Results!Kinds /\ "review" \in Results!Kinds
  BY DEF Results!Kinds
<1>3. PICK j : j = [recovery.intents EXCEPT !["review"] = Results!NoIntent]
  OBVIOUS
<1>4. recovery' = [recovery EXCEPT !.intents = j]
  BY <1>3 DEF Results!Leave
<1>5. /\ recovery'.intents = j /\ recovery'.pending = recovery.pending /\ {"pending", "intents"} \subseteq DOMAIN recovery'
      /\ DOMAIN j = Results!Kinds /\ \A l \in Results!Kinds : j[l] = IF l = "review" THEN Results!NoIntent ELSE recovery.intents[l]
  BY <1>1, <1>2, <1>3, <1>4 DEF TableShapes
<1>6. DOMAIN asks' = Results!Kinds /\ \A l \in Results!Kinds : asks'[l] = Results!Silent
  BY DEF Results!Leave
<1>7. /\ UNCHANGED <<outcomes, written, onWire>>
      /\ tally'.confirmed = tally.confirmed /\ tally'.attempts = tally.attempts
      /\ {"confirmed", "attempts"} \subseteq DOMAIN tally'
  BY <1>1 DEF Results!Leave, TableShapes
<1>8. FewerAsked
  <2>1. ASSUME NEW l, NEW q, UseOf(l, q)' PROVE UseOf(l, q)
    BY <1>5, <1>6, <1>7, <2>1, SilentIs DEF UseOf
  <2>2. ASSUME NEW n, NEW a, KeyedBy(n, a)' PROVE KeyedBy(n, a)
    BY <1>2, <1>5, <1>6, <1>7, <2>2, SilentIs DEF KeyedBy
  <2>3. ASSUME NEW a, NEW l, NEW c, TableSaid(a, l, c)' PROVE TableSaid(a, l, c)
    BY <1>5, <1>7, <2>3 DEF TableSaid, Content
  <2> QED BY <2>1, <2>2, <2>3 DEF FewerAsked
<1>9. UsesHold' /\ KeysHold' /\ TableSaidHolds' /\ WrittenOnce'
  BY <1>7, <1>8, FewerHold
<1>10. TableShapes'
  BY <1>1, <1>2, <1>5, <1>6, <1>7 DEF TableShapes, Content
<1>11. ASSUME NEW k \in Results!Kinds PROVE AskHolds(k)'
  <2>1. tally'.attempts \in Nat
    BY <1>1, <1>7 DEF TableShapes
  <2> QED BY <1>6, <2>1, SilentIs DEF AskHolds
<1>12. ASSUME NEW r \in onWire' PROVE TableRequestIs(r)'
  <2>1. TableRequestIs(r) /\ r \in onWire
    BY <1>7 DEF ResultsInv
  <2>2. r.kind \in Results!Kinds
    BY <2>1 DEF ResultsInv, UsesHold, UseOf
  <2>3. r.attempt # 0
    BY <1>1, <2>1 DEF TableRequestIs, TableShapes
  <2> QED BY <1>6, <1>7, <2>1, <2>2, <2>3, SilentIs DEF TableRequestIs
<1> QED BY <1>9, <1>10, <1>11, <1>12 DEF ResultsInv

LEMMA ResultsStep == ResultsInv /\ [Results!ResultsNext]_resultsVars => ResultsInv'
<1> SUFFICES ASSUME ResultsInv, [Results!ResultsNext]_resultsVars PROVE ResultsInv'
  OBVIOUS
<1>1. TableShapes
  BY DEF ResultsInv
<1>2. CASE \/ UNCHANGED resultsVars \/ Results!ReceiveSnapshot \/ Results!ReceivePage \/ Results!Refresh \/ Results!Pick \/ Results!Unpick \/ Results!Return
  <2>1. UNCHANGED <<outcomes, written, recovery, asks, onWire, tally>>
    <3>1. CASE UNCHANGED resultsVars
      BY <3>1 DEF resultsVars
    <3>2. CASE Results!ReceiveSnapshot \/ Results!ReceivePage \/ Results!Refresh
      BY <3>2 DEF Results!ReceiveSnapshot, Results!ReceivePage, Results!Refresh
    <3>3. CASE Results!Pick \/ Results!Unpick \/ Results!Return
      BY <3>3 DEF Results!Pick, Results!Unpick, Results!Return
    <3> QED BY <1>2, <3>1, <3>2, <3>3
  <2>2. tally'.confirmed = tally.confirmed /\ tally'.attempts = tally.attempts /\ {"confirmed", "attempts"} \subseteq DOMAIN tally'
    BY <1>1, <2>1 DEF TableShapes
  <2> QED BY <2>1, <2>2, ResultsRest
<1>3. CASE Results!FailRead \/ Results!EditBuyer \/ Results!ExpireSnapshot \/ Results!ChangeRole
  <2>1. UNCHANGED <<outcomes, written, recovery, asks, onWire>> /\ Results!Untroubled
    <3>1. CASE Results!FailRead \/ Results!EditBuyer
      BY <3>1 DEF Results!FailRead, Results!EditBuyer
    <3>2. CASE Results!ExpireSnapshot \/ Results!ChangeRole
      BY <3>2 DEF Results!ExpireSnapshot, Results!ChangeRole
    <3> QED BY <1>3, <3>1, <3>2
  <2> QED BY <1>1, <2>1, UntroubledRests, ResultsRest
<1>4. ASSUME NEW t, Results!Assign(t) PROVE ResultsInv'
  BY <1>4, AssignStep
<1>5. ASSUME NEW t, Results!Review(t) PROVE ResultsInv'
  BY <1>5, ReviewStep
<1>6. ASSUME NEW r \in onWire, Results!Serve(r) PROVE ResultsInv'
  BY <1>6, ServeStep
<1>7. ASSUME NEW k \in Results!Kinds, Results!Receive(k) \/ Results!ReviewNext(k) \/ Results!LoseAnswer(k) PROVE ResultsInv'
  BY <1>7, ReceiveStep, ReviewNextStep, LoseStep
<1>8. CASE Results!RetryAssignment \/ Results!Leave
  BY <1>8, RetryStep, LeaveTable
<1> QED BY <1>2, <1>3, <1>4, <1>5, <1>6, <1>7, <1>8 DEF Results!ResultsNext

LEMMA ResultsAreTrue == ResultsInv => Results!ReportsAreTrue
<1> SUFFICES ASSUME ResultsInv PROVE Results!ReportsAreTrue
  OBVIOUS
<1>1. ASSUME NEW k \in Results!Kinds, asks[k].report = "updated"
      PROVE  \E w \in {w \in written : w.kind = k} : w.preview.target = asks[k].of.target /\ w.preview.rows = asks[k].of.rows
  BY <1>1 DEF ResultsInv, AskHolds, Wrote, Content
<1>2. ASSUME NEW k \in Results!Kinds, asks[k].report = "conflict"
      PROVE  \A w \in {w \in written : w.kind = k} : w.preview.n # asks[k].of.n
  BY <1>2 DEF ResultsInv, AskHolds, Over
<1> QED BY <1>1, <1>2 DEF Results!ReportsAreTrue, ResultsInv, WrittenOnce

----------------------------------------------------------------------------
\* Segmented maintenance, and what the theorem about edits rests on.

VARIABLES revision, pledges, batches, granted, receiptsOf, desk, recall,
          posted, agreed, spent
manifestVars == <<revision, pledges, batches, granted, receiptsOf, desk,
    recall, posted, agreed, spent>>

Maintenance == INSTANCE ManifestScreen WITH
    MaxVersion <- MaxRowVersion, MaxAttempts <- MaxRequests,
    MaxMoves <- MaxPanelMoves

\* Manifests: only what was confirmed is executed, and only what was executed
\* has a result.
PledgeIs(m) ==
    /\ {"of", "status", "result", "job"} \subseteq DOMAIN pledges[m]
    /\ pledges[m].status = "executed" => m \in agreed
    /\ pledges[m].result # "none" => pledges[m].status = "executed"
PledgesHold ==
    /\ IsSeq(pledges) /\ agreed \subseteq DOMAIN pledges
    /\ \A m \in DOMAIN pledges : PledgeIs(m)

\* A key stands for one request, and its answer is of that request.
PanelSaid(a, k, o) ==
    \/ \E r \in posted : r.key = a /\ r.kind = k /\ r.of = o
    \/ k = "preview" /\ a # 0 /\ recall.preview.key = a /\ recall.preview.of = o
    \/ k = "execute" /\ a # 0 /\ recall.execute.key = a /\ recall.execute.of[1] = o
Answers(k, o, m) ==
    /\ m \in DOMAIN pledges
    /\ k = "preview" => pledges[m].of = o
    /\ k = "execute" => m = o
PanelSaidHolds ==
    /\ \A a, k, o : PanelSaid(a, k, o) => a \in 1..spent.attempts /\ (k = "execute" => o \in agreed)
    /\ \A a, k, l, o, p : PanelSaid(a, k, o) /\ PanelSaid(a, l, p) => k = l /\ o = p
    /\ \A a, k, o : PanelSaid(a, k, o) /\ a \in DOMAIN receiptsOf => Answers(k, o, receiptsOf[a])
    /\ DOMAIN receiptsOf \subseteq 1..spent.attempts

\* What the panel shows, and the answer it has not taken in yet.
HasResult == desk.result \in {"updated", "conflict"}
DeskHolds ==
    /\ desk.shown # 0 => desk.shown = desk.url
    /\ desk.url # 0 => desk.url \in DOMAIN pledges
    /\ desk.confirmed => desk.shown \in agreed
    /\ desk.source # 0 /\ desk.shown # 0 => pledges[desk.shown].of = desk.source
    /\ HasResult => desk.shown # 0 /\ pledges[desk.shown].result = desk.result
    /\ desk.reply.kind # "none" => desk.call # 0
    /\ desk.reply.kind = "preview" =>
          /\ ~HasResult /\ desk.reply.of \in DOMAIN pledges
          /\ desk.source # 0 => pledges[desk.reply.of].of = desk.source
    /\ desk.reply.kind = "execute" => desk.reply.of = desk.shown /\ desk.shown # 0
    /\ desk.source # 0 /\ recall.frozen => recall.of = desk.source

PanelRequestIs(r) ==
    /\ r.kind \in {"preview", "execute"} /\ r.call \in 1..spent.attempts
    /\ r.call = desk.call /\ r.kind = "preview" => ~HasResult /\ (desk.source # 0 => r.of = desk.source)
    /\ r.call = desk.call /\ r.kind = "execute" => r.of = desk.shown

PanelShapes ==
    /\ spent.attempts \in Nat /\ "attempts" \in DOMAIN spent
    /\ {"frozen", "of", "preview", "execute"} \subseteq DOMAIN recall
    /\ {"source", "url", "shown", "confirmed", "call", "reply", "result"} \subseteq DOMAIN desk

ManifestInv ==
    /\ PanelShapes /\ PledgesHold /\ PanelSaidHolds /\ DeskHolds
    /\ \A r \in posted : PanelRequestIs(r)

LEMMA BlankIs ==
    /\ {"source", "url", "shown", "confirmed", "call", "reply", "result"} \subseteq DOMAIN Maintenance!Blank
    /\ Maintenance!Blank.source = 0 /\ Maintenance!Blank.url = 0 /\ Maintenance!Blank.shown = 0 /\ Maintenance!Blank.confirmed = FALSE /\ Maintenance!Blank.call = 0
    /\ Maintenance!Blank.reply.kind = "none" /\ Maintenance!Blank.result = "none"
BY DEF Maintenance!Blank

LEMMA ForgottenIs ==
    /\ {"frozen", "of", "preview", "execute"} \subseteq DOMAIN Maintenance!Forgotten
    /\ Maintenance!Forgotten.frozen = FALSE /\ Maintenance!Forgotten.preview.key = 0 /\ Maintenance!Forgotten.execute.key = 0
BY DEF Maintenance!Forgotten, Maintenance!Nobody

\* A panel that shows nothing and waits for nothing.
IsBlank(d) == /\ d.shown = 0 /\ d.confirmed = FALSE /\ d.call = 0 /\ d.reply.kind = "none" /\ d.result = "none"

LEMMA ManifestStart == Maintenance!ManifestInit => ManifestInv
<1> SUFFICES ASSUME Maintenance!ManifestInit PROVE ManifestInv
  OBVIOUS
<1>1. IsSeq(pledges) /\ DOMAIN pledges = {}
  <2>1. << >> \in Seq({})
    OBVIOUS
  <2> QED BY <2>1 DEF Maintenance!ManifestInit, IsSeq
<1>2. /\ agreed = {} /\ posted = {} /\ DOMAIN receiptsOf = {} /\ desk = Maintenance!Blank /\ recall = Maintenance!Forgotten
      /\ spent.attempts = 0 /\ "attempts" \in DOMAIN spent
  BY DEF Maintenance!ManifestInit
<1>3. PledgesHold
  BY <1>1, <1>2 DEF PledgesHold
<1>4. \A a, k, o : ~ PanelSaid(a, k, o)
  BY <1>2, ForgottenIs DEF PanelSaid
<1>5. PanelSaidHolds
  BY <1>2, <1>4 DEF PanelSaidHolds
<1>6. DeskHolds
  BY <1>2, BlankIs DEF DeskHolds, HasResult
<1>7. PanelShapes
  BY <1>2, BlankIs, ForgottenIs DEF PanelShapes
<1> QED BY <1>2, <1>3, <1>5, <1>6, <1>7 DEF ManifestInv

\* Manifests are added, and get a result once.
PledgesGrow ==
    /\ DOMAIN pledges \subseteq DOMAIN pledges' /\ agreed \subseteq agreed'
    /\ \A m \in DOMAIN pledges : /\ pledges'[m].of = pledges[m].of
                                 /\ pledges[m].result # "none" => pledges'[m].result = pledges[m].result

LEMMA AnswersKept ==
    ASSUME PledgesGrow, NEW k, NEW o, NEW m, Answers(k, o, m)
    PROVE  Answers(k, o, m)'
BY DEF PledgesGrow, Answers

LEMMA DeskKept ==
    ASSUME ManifestInv, PledgesGrow, desk' = desk, recall' = recall
    PROVE  DeskHolds'
<1>1. DeskHolds
  BY DEF ManifestInv
<1>2. desk.shown # 0 => desk.shown \in DOMAIN pledges
  BY <1>1 DEF DeskHolds
<1>3. HasResult => desk.shown # 0 /\ pledges'[desk.shown].result = desk.result
  BY <1>1, <1>2 DEF DeskHolds, HasResult, PledgesGrow
<1> QED BY <1>1, <1>2, <1>3 DEF DeskHolds, HasResult, PledgesGrow

LEMMA PanelRequestKept ==
    ASSUME PanelShapes, NEW r, PanelRequestIs(r), desk'.call = desk.call, desk'.source = desk.source, desk'.shown = desk.shown,
           desk'.result = desk.result, spent'.attempts \in Nat, spent.attempts <= spent'.attempts
    PROVE  PanelRequestIs(r)'
BY DEF PanelRequestIs, HasResult, PanelShapes

LEMMA CallIsOver ==
    ASSUME PanelShapes, NEW r, PanelRequestIs(r), desk'.call \notin 1..spent.attempts,
           spent'.attempts \in Nat, spent.attempts <= spent'.attempts
    PROVE  PanelRequestIs(r)'
BY DEF PanelRequestIs, PanelShapes

\* The manifests stay as they are, and no more is asked for.
LEMMA SaidRests ==
    ASSUME ManifestInv, UNCHANGED <<pledges, receiptsOf>>, spent'.attempts = spent.attempts,
           agreed \subseteq agreed', agreed' \subseteq DOMAIN pledges,
           \A a, k, o : PanelSaid(a, k, o)' => PanelSaid(a, k, o)
    PROVE  PanelSaidHolds' /\ PledgesHold' /\ PledgesGrow
<1>1. PanelSaidHolds'
  BY DEF ManifestInv, PanelSaidHolds, Answers
<1>2. PledgesHold' /\ PledgesGrow
  BY DEF ManifestInv, PledgesHold, PledgeIs, PledgesGrow
<1> QED BY <1>1, <1>2

\* Others move; the panel and the server's manifests rest.
LEMMA ManifestRests ==
    ASSUME ManifestInv, UNCHANGED <<pledges, receiptsOf, desk, recall, posted, agreed>>,
           spent'.attempts = spent.attempts, "attempts" \in DOMAIN spent'
    PROVE  ManifestInv'
<1>1. \A a, k, o : PanelSaid(a, k, o)' => PanelSaid(a, k, o)
  BY DEF PanelSaid
<1>2. agreed' \subseteq DOMAIN pledges
  BY DEF ManifestInv, PledgesHold
<1>3. PanelSaidHolds' /\ PledgesHold' /\ PledgesGrow
  BY <1>1, <1>2, SaidRests
<1>4. DeskHolds'
  BY <1>3, DeskKept
<1>5. PanelShapes' /\ PanelShapes
  BY DEF ManifestInv, PanelShapes
<1>6. ASSUME NEW r \in posted PROVE PanelRequestIs(r)'
  BY <1>5, PanelRequestKept DEF ManifestInv, PanelShapes
<1> QED BY <1>3, <1>4, <1>5, <1>6 DEF ManifestInv

LEMMA UpsetRests ==
    ASSUME PanelShapes, Maintenance!Upset
    PROVE  spent'.attempts = spent.attempts /\ "attempts" \in DOMAIN spent'
BY DEF PanelShapes, Maintenance!Upset

\* What the panel does on its own: its requests rest or are given up.
LEMMA PanelStep ==
    ASSUME ManifestInv, UNCHANGED <<pledges, receiptsOf, posted>>,
           spent'.attempts = spent.attempts, "attempts" \in DOMAIN spent',
           agreed \subseteq agreed', agreed' \subseteq DOMAIN pledges,
           {"frozen", "of", "preview", "execute"} \subseteq DOMAIN recall',
           recall'.preview = recall.preview \/ recall'.preview.key = 0,
           recall'.execute = recall.execute \/ recall'.execute.key = 0,
           {"source", "url", "shown", "confirmed", "call", "reply", "result"} \subseteq DOMAIN desk',
           DeskHolds',
           \/ desk'.call = 0
           \/ /\ desk'.call = desk.call /\ desk'.source = desk.source /\ desk'.result = desk.result
              /\ desk.shown # 0 => desk'.shown = desk.shown
    PROVE  ManifestInv'
<1>1. \A a, k, o : PanelSaid(a, k, o)' => PanelSaid(a, k, o)
  BY DEF PanelSaid
<1>2. PanelSaidHolds' /\ PledgesHold' /\ PledgesGrow
  BY <1>1, SaidRests
<1>3. PanelShapes' /\ PanelShapes
  BY DEF ManifestInv, PanelShapes
<1>4. ASSUME NEW r \in posted PROVE PanelRequestIs(r)'
  <2>1. PanelRequestIs(r)
    BY DEF ManifestInv
  <2>2. CASE desk'.call = 0
    BY <1>3, <2>1, <2>2, CallIsOver DEF PanelShapes
  <2>3. CASE /\ desk'.call = desk.call /\ desk'.source = desk.source /\ desk'.result = desk.result
             /\ desk.shown # 0 => desk'.shown = desk.shown
    <3>1. r.kind = "execute" => r.of # 0
      <4>1. PanelSaid(r.key, r.kind, r.of)
        BY DEF PanelSaid
      <4>2. 0 \notin DOMAIN pledges
        BY DEF ManifestInv, PledgesHold, IsSeq
      <4> QED BY <4>1, <4>2 DEF ManifestInv, PanelSaidHolds, PledgesHold
    <3> QED BY <2>1, <2>3, <3>1 DEF PanelRequestIs, HasResult
  <2> QED BY <2>2, <2>3
<1> QED BY <1>2, <1>3, <1>4 DEF ManifestInv

\* What every action of the panel starts from.
LEMMA PanelIs ==
    ASSUME ManifestInv
    PROVE  /\ PanelShapes /\ DeskHolds /\ agreed \subseteq DOMAIN pledges /\ 0 \notin DOMAIN pledges
           /\ desk.shown # 0 => desk.shown \in DOMAIN pledges
BY DEF ManifestInv, PledgesHold, IsSeq, DeskHolds

LEMMA ConfirmStep == ManifestInv /\ Maintenance!Confirm => ManifestInv'
<1> SUFFICES ASSUME ManifestInv, Maintenance!Confirm PROVE ManifestInv'
  OBVIOUS
<1>1. /\ UNCHANGED <<recall, posted, spent, pledges, receiptsOf>> /\ desk.shown # 0
      /\ desk' = [desk EXCEPT !.confirmed = TRUE] /\ agreed' = agreed \cup {desk.shown}
  BY DEF Maintenance!Confirm
<1>2. /\ PanelShapes /\ DeskHolds /\ agreed \subseteq DOMAIN pledges /\ desk.shown \in DOMAIN pledges
  BY <1>1, PanelIs
<1>3. /\ desk'.shown = desk.shown /\ desk'.url = desk.url /\ desk'.source = desk.source /\ desk'.result = desk.result
      /\ desk'.call = desk.call /\ desk'.reply = desk.reply
      /\ {"source", "url", "shown", "confirmed", "call", "reply", "result"} \subseteq DOMAIN desk'
  BY <1>1, <1>2 DEF PanelShapes
<1>4. DeskHolds'
  BY <1>1, <1>2, <1>3 DEF DeskHolds, HasResult
<1> QED BY <1>1, <1>2, <1>3, <1>4, PanelStep DEF PanelShapes

LEMMA AnsweredIs ==
    ASSUME PanelShapes
    PROVE  /\ Maintenance!Answered.shown = desk.shown /\ Maintenance!Answered.url = desk.url /\ Maintenance!Answered.source = desk.source
           /\ Maintenance!Answered.result = desk.result /\ Maintenance!Answered.confirmed = desk.confirmed
           /\ Maintenance!Answered.call = 0 /\ Maintenance!Answered.reply.kind = "none"
           /\ DOMAIN Maintenance!Answered = DOMAIN desk
BY BlankIs DEF Maintenance!Answered, PanelShapes

LEMMA ReceivePreviewStep == ManifestInv /\ Maintenance!ReceivePreview => ManifestInv'
<1> SUFFICES ASSUME ManifestInv, Maintenance!ReceivePreview PROVE ManifestInv'
  OBVIOUS
<1>1. /\ PanelShapes /\ DeskHolds /\ agreed \subseteq DOMAIN pledges /\ 0 \notin DOMAIN pledges
  BY PanelIs
<1>2. PICK m, s, v, base : /\ m = desk.reply.of /\ s = pledges[m].status /\ v = (IF s = "ready" THEN 1 ELSE 2)
                           /\ base = Maintenance!Answered
  OBVIOUS
<1>3. desk' = [base EXCEPT !.shown = m, !.status = s, !.version = v, !.pending = FALSE, !.confirmed = FALSE, !.url = m]
  BY <1>2 DEF Maintenance!ReceivePreview
<1>4. /\ base.source = desk.source /\ base.result = desk.result /\ base.call = 0 /\ base.reply.kind = "none"
      /\ DOMAIN base = DOMAIN desk
  BY <1>1, <1>2, AnsweredIs
<1>5. /\ desk'.shown = m /\ desk'.url = m /\ desk'.confirmed = FALSE /\ desk'.call = 0 /\ desk'.reply.kind = "none"
      /\ desk'.source = desk.source /\ desk'.result = desk.result
      /\ {"source", "url", "shown", "confirmed", "call", "reply", "result"} \subseteq DOMAIN desk'
  BY <1>1, <1>3, <1>4 DEF PanelShapes
<1>6. /\ UNCHANGED <<pledges, receiptsOf, posted, agreed, spent>>
      /\ recall' = [recall EXCEPT !.preview = Maintenance!Nobody] /\ desk.reply.kind = "preview"
  BY DEF Maintenance!ReceivePreview
<1>7. /\ recall'.preview.key = 0 /\ recall'.execute = recall.execute /\ recall'.frozen = recall.frozen /\ recall'.of = recall.of
      /\ {"frozen", "of", "preview", "execute"} \subseteq DOMAIN recall'
  BY <1>1, <1>6 DEF PanelShapes, Maintenance!Nobody
<1>8. DeskHolds'
  BY <1>1, <1>2, <1>5, <1>6, <1>7 DEF DeskHolds, HasResult
<1> QED BY <1>1, <1>5, <1>6, <1>7, <1>8, PanelStep DEF PanelShapes

LEMMA ReceiveExecuteStep == ManifestInv /\ Maintenance!ReceiveExecute => ManifestInv'
<1> SUFFICES ASSUME ManifestInv, Maintenance!ReceiveExecute PROVE ManifestInv'
  OBVIOUS
<1>1. /\ PanelShapes /\ DeskHolds /\ agreed \subseteq DOMAIN pledges /\ 0 \notin DOMAIN pledges
  BY PanelIs
<1>2. PICK m, result, base, job : /\ m = desk.reply.of /\ result = Maintenance!Result(m) /\ base = Maintenance!Answered
                                  /\ job = IF pledges[m].job # 0 THEN pledges[m].job ELSE base.job
  OBVIOUS
<1>3. desk' = [base EXCEPT !.result = result, !.executing = FALSE, !.confirmed = FALSE, !.reading = TRUE, !.job = job]
  BY <1>2 DEF Maintenance!ReceiveExecute
<1>4. /\ base.source = desk.source /\ base.shown = desk.shown /\ base.url = desk.url /\ base.call = 0 /\ base.reply.kind = "none"
      /\ DOMAIN base = DOMAIN desk
  BY <1>1, <1>2, AnsweredIs
<1>5. /\ desk'.shown = desk.shown /\ desk'.url = desk.url /\ desk'.confirmed = FALSE /\ desk'.call = 0 /\ desk'.reply.kind = "none"
      /\ desk'.source = desk.source /\ desk'.result = result
      /\ {"source", "url", "shown", "confirmed", "call", "reply", "result"} \subseteq DOMAIN desk'
  BY <1>1, <1>3, <1>4 DEF PanelShapes
<1>6. /\ UNCHANGED <<pledges, receiptsOf, posted, agreed, spent>>
      /\ recall' = [recall EXCEPT !.execute = Maintenance!Nobody] /\ desk.reply.kind = "execute"
  BY DEF Maintenance!ReceiveExecute
<1>7. /\ recall'.execute.key = 0 /\ recall'.preview = recall.preview /\ recall'.frozen = recall.frozen /\ recall'.of = recall.of
      /\ {"frozen", "of", "preview", "execute"} \subseteq DOMAIN recall'
  BY <1>1, <1>6 DEF PanelShapes, Maintenance!Nobody
<1>8. m = desk.shown /\ desk.shown # 0
  BY <1>1, <1>2, <1>6 DEF DeskHolds
<1>9. result \in {"updated", "conflict"} => pledges[m].result = result
  BY <1>2 DEF Maintenance!Result
<1>10. DeskHolds'
  BY <1>1, <1>5, <1>6, <1>7, <1>8, <1>9 DEF DeskHolds, HasResult
<1> QED BY <1>1, <1>5, <1>6, <1>7, <1>10, PanelStep DEF PanelShapes

\* The call ends without an answer that is taken in.
LEMMA AnsweredStep ==
    ASSUME ManifestInv, desk' = Maintenance!Answered, UNCHANGED <<pledges, receiptsOf, recall, posted, agreed>>,
           spent'.attempts = spent.attempts, "attempts" \in DOMAIN spent'
    PROVE  ManifestInv'
<1>1. /\ PanelShapes /\ DeskHolds /\ agreed \subseteq DOMAIN pledges /\ 0 \notin DOMAIN pledges
  BY PanelIs
<1>2. /\ desk'.shown = desk.shown /\ desk'.url = desk.url /\ desk'.source = desk.source
      /\ desk'.result = desk.result /\ desk'.confirmed = desk.confirmed
      /\ desk'.call = 0 /\ desk'.reply.kind = "none" /\ DOMAIN desk' = DOMAIN desk
  BY <1>1, AnsweredIs
<1>3. DeskHolds'
  BY <1>1, <1>2 DEF DeskHolds, HasResult
<1> QED BY <1>1, <1>2, <1>3, PanelStep DEF PanelShapes

LEMMA ReadManifestStep == ManifestInv /\ Maintenance!ReadManifest => ManifestInv'
<1> SUFFICES ASSUME ManifestInv, Maintenance!ReadManifest PROVE ManifestInv'
  OBVIOUS
<1>1. /\ PanelShapes /\ DeskHolds /\ agreed \subseteq DOMAIN pledges /\ 0 \notin DOMAIN pledges
  BY PanelIs
<1>2. UNCHANGED <<pledges, receiptsOf, recall, posted, agreed, spent>>
  BY DEF Maintenance!ReadManifest
<1>3. CASE desk.source # 0 \/ desk.url = 0
  <2>1. desk' = [desk EXCEPT !.reading = FALSE]
    BY <1>3 DEF Maintenance!ReadManifest
  <2>2. /\ desk'.shown = desk.shown /\ desk'.url = desk.url /\ desk'.source = desk.source /\ desk'.result = desk.result
        /\ desk'.call = desk.call /\ desk'.reply = desk.reply /\ desk'.confirmed = desk.confirmed /\ DOMAIN desk' = DOMAIN desk
    BY <1>1, <2>1 DEF PanelShapes
  <2>3. DeskHolds'
    BY <1>1, <1>2, <2>2 DEF DeskHolds, HasResult
  <2> QED BY <1>1, <1>2, <2>2, <2>3, PanelStep DEF PanelShapes
<1>4. CASE ~ (desk.source # 0 \/ desk.url = 0)
  <2>1. PICK row, s, v, job : /\ row = pledges[desk.url] /\ s = row.status /\ v = (IF s = "ready" THEN 1 ELSE 2)
                              /\ job = IF row.job # 0 THEN row.job ELSE desk.job
    OBVIOUS
  <2>2. PICK of, url : of = row.of /\ url = desk.url
    OBVIOUS
  <2>3. desk' = [desk EXCEPT !.reading = FALSE, !.restored = of, !.shown = url, !.status = s,
                       !.version = v, !.pending = FALSE, !.executing = FALSE, !.confirmed = FALSE, !.job = job]
    BY <1>4, <2>1, <2>2 DEF Maintenance!ReadManifest
  <2>4. /\ desk'.shown = url /\ desk'.url = desk.url /\ desk'.source = desk.source /\ desk'.result = desk.result
        /\ desk'.call = desk.call /\ desk'.reply = desk.reply /\ desk'.confirmed = FALSE /\ DOMAIN desk' = DOMAIN desk
    BY <1>1, <2>3 DEF PanelShapes
  <2>5. desk.shown # 0 => desk.shown = url
    BY <1>1, <2>2 DEF DeskHolds
  <2>6. DeskHolds'
    BY <1>1, <1>2, <1>4, <2>2, <2>4, <2>5 DEF DeskHolds, HasResult
  <2> QED BY <1>1, <1>2, <2>4, <2>5, <2>6, PanelStep DEF PanelShapes
<1> QED BY <1>3, <1>4

LEMMA RecheckStep == ManifestInv /\ Maintenance!Recheck => ManifestInv'
<1> SUFFICES ASSUME ManifestInv, Maintenance!Recheck PROVE ManifestInv'
  OBVIOUS
<1>1. /\ PanelShapes /\ DeskHolds /\ agreed \subseteq DOMAIN pledges /\ 0 \notin DOMAIN pledges
  BY PanelIs
<1>2. /\ UNCHANGED <<pledges, receiptsOf, recall, posted, agreed, spent>>
      /\ desk' = [desk EXCEPT !.confirmed = FALSE, !.reading = TRUE]
  BY DEF Maintenance!Recheck
<1>3. /\ desk'.shown = desk.shown /\ desk'.url = desk.url /\ desk'.source = desk.source /\ desk'.result = desk.result
      /\ desk'.call = desk.call /\ desk'.reply = desk.reply /\ desk'.confirmed = FALSE /\ DOMAIN desk' = DOMAIN desk
  BY <1>1, <1>2 DEF PanelShapes
<1>4. DeskHolds'
  BY <1>1, <1>2, <1>3 DEF DeskHolds, HasResult
<1> QED BY <1>1, <1>2, <1>3, <1>4, PanelStep DEF PanelShapes

\* The panel starts over, or is mounted again: it shows nothing.
LEMMA EmptyStep ==
    ASSUME ManifestInv, UNCHANGED <<pledges, receiptsOf, posted, agreed>>,
           spent'.attempts = spent.attempts, "attempts" \in DOMAIN spent',
           recall' = recall \/ recall' = Maintenance!Forgotten,
           {"source", "url", "shown", "confirmed", "call", "reply", "result"} \subseteq DOMAIN desk',
           IsBlank(desk'), desk'.url # 0 => desk'.url \in DOMAIN pledges,
           desk'.source # 0 => ~ recall'.frozen
    PROVE  ManifestInv'
<1>1. /\ PanelShapes /\ agreed \subseteq DOMAIN pledges
  BY PanelIs
<1>2. DeskHolds'
  BY DEF DeskHolds, HasResult, IsBlank
<1>3. desk'.call = 0
  BY DEF IsBlank
<1>4. /\ {"frozen", "of", "preview", "execute"} \subseteq DOMAIN recall'
      /\ recall'.preview = recall.preview \/ recall'.preview.key = 0
      /\ recall'.execute = recall.execute \/ recall'.execute.key = 0
  BY <1>1, ForgottenIs DEF PanelShapes
<1> QED BY <1>1, <1>2, <1>3, <1>4, PanelStep

LEMMA NewPreviewStep == ManifestInv /\ Maintenance!NewPreview => ManifestInv'
<1> SUFFICES ASSUME ManifestInv, Maintenance!NewPreview PROVE ManifestInv'
  OBVIOUS
<1>1. PanelShapes /\ DeskHolds
  BY PanelIs
<1>2. /\ UNCHANGED <<pledges, receiptsOf, posted, agreed, spent>> /\ recall' = Maintenance!Forgotten /\ desk.call = 0
      /\ desk' = [desk EXCEPT !.shown = 0, !.status = "none", !.version = 0, !.result = "none",
                    !.pending = FALSE, !.confirmed = FALSE, !.url = 0, !.reading = TRUE]
  BY DEF Maintenance!NewPreview, Maintenance!Busy
<1>3. /\ desk'.shown = 0 /\ desk'.url = 0 /\ desk'.result = "none" /\ desk'.confirmed = FALSE
      /\ desk'.call = 0 /\ desk'.reply = desk.reply /\ DOMAIN desk' = DOMAIN desk
  BY <1>1, <1>2 DEF PanelShapes
<1>4. IsBlank(desk')
  BY <1>1, <1>2, <1>3 DEF IsBlank, DeskHolds
<1> QED BY <1>1, <1>2, <1>3, <1>4, EmptyStep, ForgottenIs DEF PanelShapes

LEMMA MountedIs ==
    ASSUME NEW memory, NEW from, NEW url, NEW job
    PROVE  /\ {"source", "url", "shown", "confirmed", "call", "reply", "result"} \subseteq DOMAIN Maintenance!Mounted(memory, from, url, job)
           /\ Maintenance!Mounted(memory, from, url, job).source = from /\ Maintenance!Mounted(memory, from, url, job).url = url
           /\ IsBlank(Maintenance!Mounted(memory, from, url, job))
<1>1. PICK d, reading, frozen : /\ reading = (from # 0 \/ url # 0) /\ frozen = memory.frozen
                                /\ d = [Maintenance!Blank EXCEPT !.source = from, !.url = url, !.job = job, !.pending = frozen, !.reading = reading]
  OBVIOUS
<1>2. d = Maintenance!Mounted(memory, from, url, job)
  BY <1>1 DEF Maintenance!Mounted
<1>3. /\ {"source", "url", "shown", "confirmed", "call", "reply", "result"} \subseteq DOMAIN d
      /\ d.source = from /\ d.url = url /\ d.shown = 0 /\ d.confirmed = FALSE /\ d.call = 0 /\ d.result = "none"
      /\ d.reply.kind = "none"
  BY <1>1, BlankIs
<1> QED BY <1>2, <1>3 DEF IsBlank

LEMMA PreviewFailedStep == ManifestInv /\ Maintenance!PreviewFailed => ManifestInv'
<1> SUFFICES ASSUME ManifestInv, Maintenance!PreviewFailed PROVE ManifestInv'
  OBVIOUS
<1>1. /\ UNCHANGED <<pledges, receiptsOf, posted, agreed, spent>> /\ recall' = Maintenance!Forgotten
      /\ desk' = Maintenance!Mounted(Maintenance!Forgotten, desk.job, 0, desk.job)
  BY DEF Maintenance!PreviewFailed, Maintenance!StartNewManifest
<1>2. /\ {"source", "url", "shown", "confirmed", "call", "reply", "result"} \subseteq DOMAIN desk'
      /\ desk'.url = 0 /\ IsBlank(desk')
  BY <1>1, MountedIs
<1>3. "attempts" \in DOMAIN spent'
  BY <1>1 DEF ManifestInv, PanelShapes
<1> QED BY <1>1, <1>2, <1>3, EmptyStep, ForgottenIs

LEMMA ReturnStep == ManifestInv /\ Maintenance!Return => ManifestInv'
<1> SUFFICES ASSUME ManifestInv, Maintenance!Return PROVE ManifestInv'
  OBVIOUS
<1>1. UNCHANGED <<pledges, receiptsOf, posted, agreed, spent>>
  BY DEF Maintenance!Return
<1>2. PICK memory \in {recall, Maintenance!Forgotten}, url \in {0, desk.url} :
         /\ recall' = memory
         /\ desk' = Maintenance!Mounted(memory, 0, url, IF url = 0 THEN 0 ELSE desk.job)
  BY DEF Maintenance!Return
<1>3. PICK job : desk' = Maintenance!Mounted(memory, 0, url, job)
  BY <1>2
<1>4. /\ {"source", "url", "shown", "confirmed", "call", "reply", "result"} \subseteq DOMAIN desk'
      /\ desk'.url = url /\ desk'.source = 0 /\ IsBlank(desk')
  BY <1>3, MountedIs
<1>5. url # 0 => url \in DOMAIN pledges
  BY <1>2 DEF ManifestInv, DeskHolds
<1>6. "attempts" \in DOMAIN spent'
  BY <1>1 DEF ManifestInv, PanelShapes
<1> QED BY <1>1, <1>2, <1>4, <1>5, <1>6, EmptyStep

LEMMA LeavePanel == ManifestInv /\ Maintenance!Leave => ManifestInv'
<1> SUFFICES ASSUME ManifestInv, Maintenance!Leave PROVE ManifestInv'
  OBVIOUS
<1>1. /\ UNCHANGED <<pledges, receiptsOf, posted, agreed, recall>>
      /\ spent' = [spent EXCEPT !.moves = @ + 1]
      /\ desk' = [Maintenance!Blank EXCEPT !.open = FALSE, !.url = desk.url, !.job = desk.job]
  BY DEF Maintenance!Leave
<1>2. /\ {"source", "url", "shown", "confirmed", "call", "reply", "result"} \subseteq DOMAIN desk'
      /\ desk'.url = desk.url /\ desk'.source = 0 /\ desk'.shown = 0 /\ desk'.confirmed = FALSE /\ desk'.call = 0
      /\ desk'.reply.kind = "none" /\ desk'.result = "none"
  BY <1>1, BlankIs
<1>3. IsBlank(desk')
  BY <1>2 DEF IsBlank
<1>4. spent'.attempts = spent.attempts /\ "attempts" \in DOMAIN spent'
  BY <1>1 DEF ManifestInv, PanelShapes
<1>5. desk.url # 0 => desk.url \in DOMAIN pledges
  BY DEF ManifestInv, DeskHolds
<1> QED BY <1>1, <1>2, <1>3, <1>4, <1>5, EmptyStep

LEMMA KeyForIs ==
    ASSUME PanelShapes, NEW intent, NEW of
    PROVE  \/ Maintenance!KeyFor(intent, of) = intent.key /\ intent.key # 0 /\ intent.of = of
           \/ Maintenance!KeyFor(intent, of) = spent.attempts + 1
BY DEF Maintenance!KeyFor

\* A request goes out under a key of the same request or a new one.
LEMMA PostStep ==
    ASSUME ManifestInv, NEW k \in {"preview", "execute"}, NEW o, NEW a, NEW r,
           r.kind = k, r.of = o, r.key = a, r.call = spent.attempts + 1, posted' = posted \cup {r},
           spent'.attempts = spent.attempts + 1, "attempts" \in DOMAIN spent',
           PanelSaid(a, k, o) \/ a = spent.attempts + 1,
           k = "execute" => o \in agreed,
           UNCHANGED <<pledges, receiptsOf, agreed>>,
           {"frozen", "of", "preview", "execute"} \subseteq DOMAIN recall',
           IF k = "preview" THEN recall'.preview.key = a /\ recall'.preview.of = o /\ recall'.execute = recall.execute
                            ELSE recall'.execute.key = a /\ recall'.execute.of[1] = o /\ recall'.preview = recall.preview,
           {"source", "url", "shown", "confirmed", "call", "reply", "result"} \subseteq DOMAIN desk',
           desk'.call = spent.attempts + 1,
           DeskHolds', PanelRequestIs(r)'
    PROVE  ManifestInv'
<1>1. /\ spent.attempts \in Nat /\ PanelShapes
  BY DEF ManifestInv, PanelShapes
<1>2. PanelShapes'
  BY <1>1 DEF PanelShapes
<1>3. PledgesHold'
  BY DEF ManifestInv, PledgesHold, PledgeIs
<1>4. ASSUME NEW b, NEW l, NEW p, PanelSaid(b, l, p)' PROVE PanelSaid(b, l, p) \/ (b = a /\ l = k /\ p = o)
  <2>1. CASE \E x \in posted' : x.key = b /\ x.kind = l /\ x.of = p
    BY <2>1 DEF PanelSaid
  <2>2. CASE l = "preview" /\ b # 0 /\ recall'.preview.key = b /\ recall'.preview.of = p
    BY <2>2 DEF PanelSaid
  <2>3. CASE l = "execute" /\ b # 0 /\ recall'.execute.key = b /\ recall'.execute.of[1] = p
    BY <2>3 DEF PanelSaid
  <2> QED BY <1>4, <2>1, <2>2, <2>3 DEF PanelSaid
<1>5. ASSUME NEW b, NEW l, NEW p, PanelSaid(b, l, p) PROVE b \in 1..spent.attempts /\ (l = "execute" => p \in agreed)
  BY <1>5 DEF ManifestInv, PanelSaidHolds
<1>6. ASSUME NEW l, NEW p, PanelSaid(a, l, p) PROVE l = k /\ p = o
  <2>1. a # spent.attempts + 1
    BY <1>1, <1>5, <1>6
  <2> QED BY <1>6, <2>1 DEF ManifestInv, PanelSaidHolds
<1>7. PanelSaidHolds'
  <2>1. ASSUME NEW b, NEW l, NEW p, PanelSaid(b, l, p)' PROVE b \in 1..spent'.attempts /\ (l = "execute" => p \in agreed)
    <3>1. CASE PanelSaid(b, l, p)
      BY <1>1, <1>5, <3>1
    <3>2. CASE b = a /\ l = k /\ p = o
      <4>1. a \in 1..(spent.attempts + 1)
        BY <1>1, <1>5
      <4> QED BY <3>2, <4>1
    <3> QED BY <1>4, <2>1, <3>1, <3>2
  <2>2. ASSUME NEW b, NEW l, NEW m, NEW p, NEW q, PanelSaid(b, l, p)', PanelSaid(b, m, q)' PROVE l = m /\ p = q
    <3>1. PanelSaid(b, l, p) \/ (b = a /\ l = k /\ p = o)
      BY <1>4, <2>2
    <3>2. PanelSaid(b, m, q) \/ (b = a /\ m = k /\ q = o)
      BY <1>4, <2>2
    <3>3. CASE PanelSaid(b, l, p) /\ PanelSaid(b, m, q)
      BY <3>3 DEF ManifestInv, PanelSaidHolds
    <3>4. CASE b = a
      BY <1>6, <3>1, <3>2, <3>4
    <3> QED BY <3>1, <3>2, <3>3, <3>4
  <2>3. ASSUME NEW b, NEW l, NEW p, PanelSaid(b, l, p)', b \in DOMAIN receiptsOf PROVE Answers(l, p, receiptsOf[b])
    <3>1. PanelSaid(b, l, p)
      <4>1. CASE b = a /\ l = k /\ p = o
        <5>1. a # spent.attempts + 1
          BY <1>1, <2>3, <4>1 DEF ManifestInv, PanelSaidHolds
        <5> QED BY <4>1, <5>1
      <4> QED BY <1>4, <2>3, <4>1
    <3> QED BY <2>3, <3>1 DEF ManifestInv, PanelSaidHolds
  <2>4. DOMAIN receiptsOf \subseteq 1..spent'.attempts
    BY <1>1 DEF ManifestInv, PanelSaidHolds
  <2> QED BY <2>1, <2>2, <2>3, <2>4 DEF PanelSaidHolds, Answers
<1>8. ASSUME NEW x \in posted' PROVE PanelRequestIs(x)'
  <2>1. CASE x = r
    BY <2>1
  <2>2. CASE x \in posted
    <3>1. PanelRequestIs(x) /\ desk'.call \notin 1..spent.attempts
      BY <1>1, <2>2 DEF ManifestInv
    <3> QED BY <1>1, <3>1, CallIsOver
  <2> QED BY <2>1, <2>2
<1> QED BY <1>2, <1>3, <1>7, <1>8 DEF ManifestInv

LEMMA PreparePreview == ManifestInv /\ Maintenance!Prepare => ManifestInv'
<1> SUFFICES ASSUME ManifestInv, Maintenance!Prepare PROVE ManifestInv'
  OBVIOUS
<1>1. /\ PanelShapes /\ DeskHolds /\ agreed \subseteq DOMAIN pledges /\ 0 \notin DOMAIN pledges
  BY PanelIs
<1>2. PICK of : of = IF recall.frozen THEN recall.of ELSE Maintenance!SourceJob
  OBVIOUS
<1>3. PICK key, n : key = Maintenance!KeyFor(recall.preview, of) /\ n = spent.attempts + 1
  OBVIOUS
<1>4. PICK r : r = [kind |-> "preview", of |-> of, version |-> 0, key |-> key, call |-> n]
  OBVIOUS
<1>5. PICK said : said = [of |-> of, key |-> key]
  OBVIOUS
<1>6. /\ desk.call = 0 /\ desk.shown = 0
      /\ spent' = [spent EXCEPT !.attempts = n] /\ posted' = posted \cup {r}
      /\ recall' = [recall EXCEPT !.frozen = TRUE, !.of = of, !.preview = said]
      /\ desk' = [desk EXCEPT !.pending = TRUE, !.call = n]
      /\ UNCHANGED <<agreed, pledges, receiptsOf>>
  BY <1>2, <1>3, <1>4, <1>5 DEF Maintenance!Prepare, Maintenance!Post, Maintenance!Busy
<1>7. r.kind = "preview" /\ r.of = of /\ r.key = key /\ r.call = spent.attempts + 1
  BY <1>3, <1>4
<1>8. /\ recall'.preview = said /\ recall'.execute = recall.execute /\ recall'.of = of
      /\ {"frozen", "of", "preview", "execute"} \subseteq DOMAIN recall'
  BY <1>1, <1>6 DEF PanelShapes
<1>9. said.key = key /\ said.of = of
  BY <1>5
<1>10. /\ desk'.shown = desk.shown /\ desk'.url = desk.url /\ desk'.source = desk.source /\ desk'.result = desk.result
       /\ desk'.call = n /\ desk'.reply = desk.reply /\ desk'.confirmed = desk.confirmed
       /\ {"source", "url", "shown", "confirmed", "call", "reply", "result"} \subseteq DOMAIN desk'
  BY <1>1, <1>6 DEF PanelShapes
<1>11. desk.source # 0 => of = desk.source
  BY <1>1, <1>2 DEF DeskHolds, Maintenance!SourceJob
<1>12. ~HasResult /\ desk.reply.kind = "none"
  BY <1>1, <1>6 DEF DeskHolds
<1>13. DeskHolds'
  BY <1>1, <1>6, <1>8, <1>10, <1>11, <1>12 DEF DeskHolds, HasResult
<1>14. PanelSaid(key, "preview", of) \/ key = spent.attempts + 1
  BY <1>1, <1>3, KeyForIs DEF PanelSaid
<1>15. spent'.attempts = spent.attempts + 1 /\ "attempts" \in DOMAIN spent' /\ spent.attempts \in Nat
  BY <1>1, <1>3, <1>6 DEF PanelShapes
<1>16. PanelRequestIs(r)'
  BY <1>7, <1>10, <1>11, <1>12, <1>15 DEF PanelRequestIs, HasResult
<1>17. recall'.preview.key = key /\ recall'.preview.of = of
  BY <1>8, <1>9
<1> QED BY <1>3, <1>6, <1>7, <1>8, <1>10, <1>13, <1>14, <1>15, <1>16, <1>17, PostStep

LEMMA ExecuteStep == ManifestInv /\ Maintenance!Execute => ManifestInv'
<1> SUFFICES ASSUME ManifestInv, Maintenance!Execute PROVE ManifestInv'
  OBVIOUS
<1>1. /\ PanelShapes /\ DeskHolds /\ agreed \subseteq DOMAIN pledges /\ 0 \notin DOMAIN pledges
  BY PanelIs
<1>2. PICK m, v : m = desk.shown /\ v = desk.version
  OBVIOUS
<1>3. PICK key, n : key = Maintenance!KeyFor(recall.execute, <<m, v>>) /\ n = spent.attempts + 1
  OBVIOUS
<1>4. PICK r : r = [kind |-> "execute", of |-> m, version |-> v, key |-> key, call |-> n]
  OBVIOUS
<1>5. PICK said : said = [of |-> <<m, v>>, key |-> key]
  OBVIOUS
<1>6. /\ desk.call = 0 /\ desk.shown # 0 /\ desk.confirmed
      /\ spent' = [spent EXCEPT !.attempts = n] /\ posted' = posted \cup {r}
      /\ recall' = [recall EXCEPT !.execute = said]
      /\ desk' = [desk EXCEPT !.executing = TRUE, !.call = n]
      /\ UNCHANGED <<agreed, pledges, receiptsOf>>
  BY <1>2, <1>3, <1>4, <1>5 DEF Maintenance!Execute, Maintenance!Post, Maintenance!Busy
<1>7. r.kind = "execute" /\ r.of = m /\ r.key = key /\ r.call = spent.attempts + 1
  BY <1>3, <1>4
<1>8. /\ recall'.execute = said /\ recall'.preview = recall.preview /\ recall'.of = recall.of /\ recall'.frozen = recall.frozen
      /\ {"frozen", "of", "preview", "execute"} \subseteq DOMAIN recall'
  BY <1>1, <1>6 DEF PanelShapes
<1>9. said.key = key /\ said.of[1] = m
  BY <1>5
<1>10. /\ desk'.shown = desk.shown /\ desk'.url = desk.url /\ desk'.source = desk.source /\ desk'.result = desk.result
       /\ desk'.call = n /\ desk'.reply = desk.reply /\ desk'.confirmed = desk.confirmed
       /\ {"source", "url", "shown", "confirmed", "call", "reply", "result"} \subseteq DOMAIN desk'
  BY <1>1, <1>6 DEF PanelShapes
<1>11. desk.reply.kind = "none" /\ m \in agreed
  BY <1>1, <1>2, <1>6 DEF DeskHolds
<1>12. DeskHolds'
  BY <1>1, <1>6, <1>8, <1>10, <1>11 DEF DeskHolds, HasResult
<1>13. PanelSaid(key, "execute", m) \/ key = spent.attempts + 1
  <2>1. \/ key = recall.execute.key /\ key # 0 /\ recall.execute.of = <<m, v>>
        \/ key = spent.attempts + 1
    BY <1>1, <1>3, KeyForIs
  <2> QED BY <2>1 DEF PanelSaid
<1>14. spent'.attempts = spent.attempts + 1 /\ "attempts" \in DOMAIN spent' /\ spent.attempts \in Nat
  BY <1>1, <1>3, <1>6 DEF PanelShapes
<1>15. PanelRequestIs(r)'
  BY <1>2, <1>7, <1>10, <1>14 DEF PanelRequestIs, HasResult
<1>16. recall'.execute.key = key /\ recall'.execute.of[1] = m
  BY <1>8, <1>9
<1> QED BY <1>3, <1>6, <1>7, <1>8, <1>10, <1>11, <1>12, <1>13, <1>14, <1>15, <1>16, PostStep

\* The server takes in a request, and the panel its answer if it still waits.
LEMMA AnswerStep ==
    ASSUME ManifestInv, NEW r \in posted, posted' = posted \ {r}, UNCHANGED <<recall, agreed, spent>>,
           PledgesHold', PledgesGrow,
           \A x \in DOMAIN receiptsOf : x \in DOMAIN receiptsOf' /\ receiptsOf'[x] = receiptsOf[x],
           \A x \in DOMAIN receiptsOf' : x \in DOMAIN receiptsOf \/ (x = r.key /\ Answers(r.kind, r.of, receiptsOf[x])'),
           NEW kind, NEW m, Maintenance!Reply(r, kind, m), kind = "refused" \/ (kind = r.kind /\ Answers(r.kind, r.of, m)')
    PROVE  ManifestInv'
<1>1. /\ PanelShapes /\ DeskHolds /\ agreed \subseteq DOMAIN pledges /\ 0 \notin DOMAIN pledges
      /\ desk.shown # 0 => desk.shown \in DOMAIN pledges
  BY PanelIs
<1>2. PanelRequestIs(r) /\ PanelSaid(r.key, r.kind, r.of)
  BY DEF ManifestInv, PanelSaid
<1>3. ASSUME NEW a, NEW k, NEW o, PanelSaid(a, k, o)' PROVE PanelSaid(a, k, o)
  BY <1>3 DEF PanelSaid
<1>4. PanelSaidHolds'
  <2>1. ASSUME NEW a, NEW k, NEW o, PanelSaid(a, k, o), a \in DOMAIN receiptsOf' PROVE Answers(k, o, receiptsOf[a])'
    <3>1. CASE a \in DOMAIN receiptsOf
      <4>1. PICK x : x = receiptsOf[a]
        OBVIOUS
      <4>2. Answers(k, o, x)
        BY <2>1, <3>1, <4>1 DEF ManifestInv, PanelSaidHolds
      <4>3. Answers(k, o, x)'
        BY <4>2, AnswersKept
      <4> QED BY <3>1, <4>1, <4>3 DEF Answers
    <3>2. CASE a \notin DOMAIN receiptsOf
      <4>1. a = r.key /\ Answers(r.kind, r.of, receiptsOf[a])'
        BY <2>1, <3>2
      <4>2. k = r.kind /\ o = r.of
        BY <1>2, <2>1, <4>1 DEF ManifestInv, PanelSaidHolds
      <4> QED BY <4>1, <4>2
    <3> QED BY <3>1, <3>2
  <2>2. DOMAIN receiptsOf' \subseteq 1..spent.attempts
    BY <1>2 DEF ManifestInv, PanelSaidHolds
  <2>3. \A a, k, o : PanelSaid(a, k, o) /\ a \in DOMAIN receiptsOf' => Answers(k, o, receiptsOf[a])'
    <3>1. ASSUME NEW a, NEW k, NEW o, PanelSaid(a, k, o), a \in DOMAIN receiptsOf' PROVE Answers(k, o, receiptsOf[a])'
      BY <2>1, <3>1 DEF Answers
    <3> QED BY <3>1
  <2>4. \A a, k, o : PanelSaid(a, k, o)' => a \in 1..spent'.attempts /\ (k = "execute" => o \in agreed')
    BY <1>3 DEF ManifestInv, PanelSaidHolds
  <2>5. \A a, k, l, o, p : PanelSaid(a, k, o)' /\ PanelSaid(a, l, p)' => k = l /\ o = p
    BY <1>3 DEF ManifestInv, PanelSaidHolds
  <2>6. \A a, k, o : PanelSaid(a, k, o)' /\ a \in DOMAIN receiptsOf' => Answers(k, o, receiptsOf[a])'
    BY <1>3, <2>3
  <2> QED BY <2>2, <2>4, <2>5, <2>6 DEF PanelSaidHolds
<1>5. /\ desk'.shown = desk.shown /\ desk'.url = desk.url /\ desk'.source = desk.source /\ desk'.result = desk.result
      /\ desk'.call = desk.call /\ desk'.confirmed = desk.confirmed /\ DOMAIN desk' = DOMAIN desk
      /\ \/ desk'.reply = desk.reply
         \/ desk.call = r.call /\ desk'.reply.kind = kind /\ desk'.reply.of = m
  <2>1. PICK q : q = [kind |-> kind, of |-> m]
    OBVIOUS
  <2>2. q.kind = kind /\ q.of = m
    BY <2>1
  <2>3. desk' = IF desk.call = r.call THEN [desk EXCEPT !.reply = q] ELSE desk
    BY <2>1 DEF Maintenance!Reply
  <2>4. CASE desk.call = r.call
    BY <1>1, <2>2, <2>3, <2>4 DEF PanelShapes
  <2>5. CASE desk.call # r.call
    BY <2>3, <2>5
  <2> QED BY <2>4, <2>5
<1>6. HasResult => pledges'[desk.shown].result = desk.result
  BY <1>1 DEF DeskHolds, HasResult, PledgesGrow
<1>7. DeskHolds'
  <2>1. /\ desk'.shown # 0 => desk'.shown = desk'.url
        /\ desk'.url # 0 => desk'.url \in DOMAIN pledges'
        /\ desk'.confirmed => desk'.shown \in agreed'
        /\ desk'.source # 0 /\ desk'.shown # 0 => pledges'[desk'.shown].of = desk'.source
        /\ HasResult' => desk'.shown # 0 /\ pledges'[desk'.shown].result = desk'.result
        /\ desk'.source # 0 /\ recall'.frozen => recall'.of = desk'.source
    BY <1>1, <1>5, <1>6 DEF DeskHolds, HasResult, PledgesGrow
  <2>2. CASE desk'.reply = desk.reply
    <3>1. desk.reply.kind = "preview" => /\ ~HasResult' /\ desk.reply.of \in DOMAIN pledges'
                                         /\ desk.source # 0 => pledges'[desk.reply.of].of = desk.source
      BY <1>1, <1>5 DEF DeskHolds, HasResult, PledgesGrow
    <3> QED BY <1>1, <1>5, <2>1, <2>2, <3>1 DEF DeskHolds
  <2>3. CASE desk.call = r.call /\ desk'.reply.kind = kind /\ desk'.reply.of = m
    <3>1. desk.call # 0
      BY <1>1, <1>2, <2>3 DEF PanelRequestIs, PanelShapes
    <3>2. kind = "preview" => /\ ~HasResult' /\ m \in DOMAIN pledges'
                              /\ desk.source # 0 => pledges'[m].of = desk.source
      BY <1>2, <1>5, <2>3 DEF PanelRequestIs, HasResult, Answers
    <3>3. kind = "execute" => m = desk.shown /\ desk.shown # 0
      <4>1. kind = "execute" => r.of \in agreed
        BY <1>2 DEF ManifestInv, PanelSaidHolds
      <4> QED BY <1>1, <1>2, <2>3, <4>1 DEF PanelRequestIs, Answers
    <3> QED BY <1>5, <2>1, <2>3, <3>1, <3>2, <3>3 DEF DeskHolds
  <2> QED BY <1>5, <2>2, <2>3
<1>8. PanelShapes'
  BY <1>1, <1>5 DEF PanelShapes
<1>9. ASSUME NEW x \in posted' PROVE PanelRequestIs(x)'
  <2>1. PanelRequestIs(x)
    BY DEF ManifestInv
  <2> QED BY <1>1, <1>5, <2>1, PanelRequestKept DEF PanelShapes
<1> QED BY <1>4, <1>7, <1>8, <1>9 DEF ManifestInv

LEMMA PledgesRest ==
    ASSUME ManifestInv, UNCHANGED <<pledges, agreed>>
    PROVE  PledgesHold' /\ PledgesGrow
BY DEF ManifestInv, PledgesHold, PledgeIs, PledgesGrow

\* A stored answer is given again.
LEMMA AgainStep ==
    ASSUME ManifestInv, NEW r \in posted, posted' = posted \ {r}, UNCHANGED <<recall, agreed, spent>>, Maintenance!Again(r)
    PROVE  ManifestInv'
<1>1. UNCHANGED <<pledges, receiptsOf>> /\ r.key \in DOMAIN receiptsOf
  BY DEF Maintenance!Again
<1>2. PledgesHold' /\ PledgesGrow
  BY <1>1, PledgesRest
<1>3. PICK k, m : k = r.kind /\ m = receiptsOf[r.key]
  OBVIOUS
<1>4. Maintenance!Reply(r, k, m)
  BY <1>3 DEF Maintenance!Again
<1>5. PanelSaid(r.key, r.kind, r.of)
  BY DEF PanelSaid
<1>6. Answers(r.kind, r.of, m)
  BY <1>1, <1>3, <1>5 DEF ManifestInv, PanelSaidHolds
<1>7. Answers(r.kind, r.of, m)'
  BY <1>2, <1>6, AnswersKept
<1> QED BY <1>1, <1>2, <1>3, <1>4, <1>7, AnswerStep

LEMMA RefuseStep ==
    ASSUME ManifestInv, NEW r \in posted, posted' = posted \ {r}, UNCHANGED <<recall, agreed, spent>>, Maintenance!Refuse(r)
    PROVE  ManifestInv'
<1>1. UNCHANGED <<pledges, receiptsOf>> /\ Maintenance!Reply(r, "refused", 0)
  BY DEF Maintenance!Refuse
<1>2. PledgesHold' /\ PledgesGrow
  BY <1>1, PledgesRest
<1> QED BY <1>1, <1>2, AnswerStep

\* The answer of a key that had none is stored.
LEMMA RememberedStep ==
    ASSUME ManifestInv, NEW r \in posted, posted' = posted \ {r}, UNCHANGED <<recall, agreed, spent>>,
           PledgesHold', PledgesGrow, r.key \notin DOMAIN receiptsOf,
           NEW m, Maintenance!Remember(r, m), Maintenance!Reply(r, r.kind, m), Answers(r.kind, r.of, m)'
    PROVE  ManifestInv'
<1>1. PICK a : a = r.key
  OBVIOUS
<1>2. receiptsOf' = [x \in DOMAIN receiptsOf \cup {a} |-> IF x = a THEN m ELSE receiptsOf[x]]
  BY <1>1 DEF Maintenance!Remember
<1>3. /\ DOMAIN receiptsOf' = DOMAIN receiptsOf \cup {a} /\ receiptsOf'[a] = m
      /\ \A x \in DOMAIN receiptsOf : receiptsOf'[x] = receiptsOf[x]
  BY <1>1, <1>2
<1>4. ASSUME NEW x \in DOMAIN receiptsOf'
      PROVE  x \in DOMAIN receiptsOf \/ (x = r.key /\ Answers(r.kind, r.of, receiptsOf[x])')
  <2>1. CASE x = a
    <3>1. Answers(r.kind, r.of, receiptsOf[x])'
      BY <1>3, <2>1 DEF Answers
    <3> QED BY <1>1, <2>1, <3>1
  <2> QED BY <1>3, <2>1
<1>5. PICK k : k = r.kind
  OBVIOUS
<1>6. Maintenance!Reply(r, k, m)
  BY <1>5
<1> QED BY <1>3, <1>4, <1>5, <1>6, AnswerStep

LEMMA ServePreviewStep ==
    ASSUME ManifestInv, NEW r \in posted, Maintenance!ServePreview(r)
    PROVE  ManifestInv'
<1>1. r.kind = "preview" /\ posted' = posted \ {r} /\ UNCHANGED <<recall, agreed, spent>>
  BY DEF Maintenance!ServePreview
<1>2. CASE Maintenance!Again(r)
  BY <1>1, <1>2, AgainStep
<1>3. CASE Maintenance!Refuse(r)
  BY <1>1, <1>3, RefuseStep
<1>4. CASE /\ r.key \notin DOMAIN receiptsOf
           /\ pledges' = Append(pledges, [of |-> r.of, expected |-> revision, status |-> "ready",
                                          expired |-> FALSE, result |-> "none", job |-> 0])
           /\ Maintenance!Remember(r, Len(pledges) + 1) /\ Maintenance!Reply(r, "preview", Len(pledges) + 1)
  <2>1. PICK row, n : /\ row = [of |-> r.of, expected |-> revision, status |-> "ready",
                                expired |-> FALSE, result |-> "none", job |-> 0]
                      /\ n = Len(pledges) + 1
    OBVIOUS
  <2>2. {"of", "status", "result", "job"} \subseteq DOMAIN row /\ row.of = r.of /\ row.status = "ready" /\ row.result = "none"
    BY <2>1
  <2>3. pledges' = Append(pledges, row)
    BY <1>4, <2>1
  <2>4. IsSeq(pledges)
    BY DEF ManifestInv, PledgesHold
  <2>5. /\ IsSeq(pledges') /\ DOMAIN pledges' = DOMAIN pledges \cup {n} /\ pledges'[n] = row
        /\ \A m \in DOMAIN pledges : pledges'[m] = pledges[m]
    <3>1. /\ IsSeq(Append(pledges, row)) /\ Len(pledges) \in Nat /\ DOMAIN pledges = 1..Len(pledges)
          /\ DOMAIN Append(pledges, row) = 1..(Len(pledges) + 1) /\ Append(pledges, row)[Len(pledges) + 1] = row
          /\ \A i \in DOMAIN pledges : Append(pledges, row)[i] = pledges[i]
      BY <2>4, IsAppended
    <3>2. 1..(Len(pledges) + 1) = 1..Len(pledges) \cup {Len(pledges) + 1}
      BY <3>1
    <3> QED BY <2>1, <2>3, <3>1, <3>2
  <2>6. PledgesHold' /\ PledgesGrow
    <3>1. ASSUME NEW m \in DOMAIN pledges' PROVE PledgeIs(m)'
      <4>1. CASE m \in DOMAIN pledges
        BY <1>1, <2>5, <4>1 DEF ManifestInv, PledgesHold, PledgeIs
      <4>2. CASE m = n
        BY <2>2, <2>5, <4>2 DEF PledgeIs
      <4> QED BY <2>5, <4>1, <4>2
    <3> QED BY <1>1, <2>5, <3>1 DEF ManifestInv, PledgesHold, PledgesGrow
  <2>7. Answers(r.kind, r.of, n)'
    BY <1>1, <2>2, <2>5 DEF Answers
  <2>8. Maintenance!Remember(r, n) /\ Maintenance!Reply(r, r.kind, n)
    BY <1>1, <1>4, <2>1
  <2> QED BY <1>1, <1>4, <2>6, <2>7, <2>8, RememberedStep
<1> QED BY <1>2, <1>3, <1>4 DEF Maintenance!ServePreview

LEMMA ServeExecuteStep ==
    ASSUME ManifestInv, NEW r \in posted, Maintenance!ServeExecute(r)
    PROVE  ManifestInv'
<1>1. r.kind = "execute" /\ posted' = posted \ {r} /\ UNCHANGED <<recall, agreed, spent>>
  BY DEF Maintenance!ServeExecute
<1>2. CASE Maintenance!Again(r)
  BY <1>1, <1>2, AgainStep
<1>3. CASE Maintenance!Refuse(r)
  BY <1>1, <1>3, RefuseStep
<1>4. ASSUME r.key \notin DOMAIN receiptsOf, pledges[r.of].status = "ready",
             Maintenance!Remember(r, r.of), Maintenance!Reply(r, "execute", r.of),
             NEW row, pledges' = [pledges EXCEPT ![r.of] = row],
             {"of", "status", "result", "job"} \subseteq DOMAIN pledges[r.of] =>
                /\ {"of", "status", "result", "job"} \subseteq DOMAIN row /\ row.of = pledges[r.of].of /\ row.status = "executed"
      PROVE  ManifestInv'
  <2>1. PanelSaid(r.key, r.kind, r.of)
    BY DEF PanelSaid
  <2>2. r.of \in agreed /\ r.of \in DOMAIN pledges
    BY <1>1, <2>1 DEF ManifestInv, PanelSaidHolds, PledgesHold
  <2>3. IsSeq(pledges) /\ \A m \in DOMAIN pledges : PledgeIs(m)
    BY DEF ManifestInv, PledgesHold
  <2>4. /\ IsSeq(pledges') /\ DOMAIN pledges' = DOMAIN pledges
        /\ \A m \in DOMAIN pledges : pledges'[m] = IF m = r.of THEN row ELSE pledges[m]
    BY <1>4, <2>2, <2>3, IsReplaced
  <2>5. {"of", "status", "result", "job"} \subseteq DOMAIN row /\ row.of = pledges[r.of].of /\ row.status = "executed"
    BY <1>4, <2>2, <2>3 DEF PledgeIs
  <2>6. ASSUME NEW m \in DOMAIN pledges PROVE PledgeIs(m)'
    BY <1>1, <2>2, <2>3, <2>4, <2>5 DEF PledgeIs
  <2>7. PledgesHold' /\ PledgesGrow
    <3>1. pledges[r.of].result = "none"
      BY <1>4, <2>2, <2>3 DEF PledgeIs
    <3>2. agreed' \subseteq DOMAIN pledges'
      BY <1>1, <2>4 DEF ManifestInv, PledgesHold
    <3> QED BY <1>1, <2>4, <2>5, <2>6, <3>1, <3>2 DEF PledgesHold, PledgesGrow
  <2>8. PICK m : m = r.of
    OBVIOUS
  <2>9. Answers(r.kind, r.of, m)'
    BY <1>1, <2>2, <2>4, <2>8 DEF Answers
  <2>10. Maintenance!Remember(r, m) /\ Maintenance!Reply(r, r.kind, m)
    BY <1>1, <1>4, <2>8
  <2> QED BY <1>1, <1>4, <2>7, <2>9, <2>10, RememberedStep
<1>5. CASE /\ r.key \notin DOMAIN receiptsOf /\ Maintenance!Executable(r)
           /\ Maintenance!Remember(r, r.of) /\ Maintenance!Reply(r, "execute", r.of)
           /\ \/ pledges' = [pledges EXCEPT ![r.of].status = "executed", ![r.of].job = Len(batches) + 1]
              \/ pledges' = [pledges EXCEPT ![r.of].status = "executed", ![r.of].result = Maintenance!Judged(pledges[r.of].expected)]
  <2>1. PICK o, old : o = r.of /\ old = pledges[o]
    OBVIOUS
  <2>2. PICK job, result : job = Len(batches) + 1 /\ result = Maintenance!Judged(old.expected)
    OBVIOUS
  <2>3. PICK queued, done : /\ queued = [old EXCEPT !.status = "executed", !.job = job]
                            /\ done = [old EXCEPT !.status = "executed", !.result = result]
    OBVIOUS
  <2>4. PanelSaid(r.key, r.kind, r.of)
    BY DEF PanelSaid
  <2>5. o \in DOMAIN pledges /\ IsSeq(pledges)
    BY <1>1, <2>1, <2>4 DEF ManifestInv, PanelSaidHolds, PledgesHold
  <2>6. old.status = "ready" /\ {"of", "status", "result", "job"} \subseteq DOMAIN old
    BY <1>5, <2>1, <2>5 DEF Maintenance!Executable, ManifestInv, PledgesHold, PledgeIs
  <2>7. CASE pledges' = [pledges EXCEPT ![r.of].status = "executed", ![r.of].job = Len(batches) + 1]
    <3>1. pledges' = [pledges EXCEPT ![r.of] = queued]
      BY <2>1, <2>2, <2>3, <2>5, <2>7
    <3>2. {"of", "status", "result", "job"} \subseteq DOMAIN queued /\ queued.of = old.of /\ queued.status = "executed"
      BY <2>3, <2>6
    <3> QED BY <1>4, <1>5, <2>1, <2>6, <3>1, <3>2
  <2>8. CASE pledges' = [pledges EXCEPT ![r.of].status = "executed", ![r.of].result = Maintenance!Judged(pledges[r.of].expected)]
    <3>1. pledges' = [pledges EXCEPT ![r.of] = done]
      BY <2>1, <2>2, <2>3, <2>5, <2>8
    <3>2. {"of", "status", "result", "job"} \subseteq DOMAIN done /\ done.of = old.of /\ done.status = "executed"
      BY <2>3, <2>6
    <3> QED BY <1>4, <1>5, <2>1, <2>6, <3>1, <3>2
  <2> QED BY <1>5, <2>7, <2>8
<1> QED BY <1>2, <1>3, <1>5 DEF Maintenance!ServeExecute

LEMMA ExpireStep == ManifestInv /\ Maintenance!Expire => ManifestInv'
<1> SUFFICES ASSUME ManifestInv, Maintenance!Expire PROVE ManifestInv'
  OBVIOUS
<1>1. /\ PanelShapes /\ DeskHolds /\ agreed \subseteq DOMAIN pledges /\ 0 \notin DOMAIN pledges
  BY PanelIs
<1>2. PICK m \in DOMAIN pledges : pledges' = [pledges EXCEPT ![m].expired = TRUE]
  BY DEF Maintenance!Expire
<1>3. UNCHANGED <<receiptsOf, desk, recall, posted, agreed>>
  BY DEF Maintenance!Expire
<1>4. spent'.attempts = spent.attempts /\ "attempts" \in DOMAIN spent'
  BY <1>1, UpsetRests DEF Maintenance!Expire
<1>5. PICK old : old = pledges[m]
  OBVIOUS
<1>6. PICK row : row = [old EXCEPT !.expired = TRUE]
  OBVIOUS
<1>7. IsSeq(pledges) /\ \A x \in DOMAIN pledges : PledgeIs(x)
  BY DEF ManifestInv, PledgesHold
<1>8. pledges' = [pledges EXCEPT ![m] = row]
  BY <1>2, <1>5, <1>6
<1>9. /\ IsSeq(pledges') /\ DOMAIN pledges' = DOMAIN pledges
      /\ \A x \in DOMAIN pledges : pledges'[x] = IF x = m THEN row ELSE pledges[x]
  BY <1>7, <1>8, IsReplaced
<1>10. /\ DOMAIN row = DOMAIN old /\ row.of = old.of /\ row.status = old.status /\ row.result = old.result
  BY <1>5, <1>6, <1>7 DEF PledgeIs
<1>11. ASSUME NEW x \in DOMAIN pledges PROVE PledgeIs(x)'
  BY <1>3, <1>5, <1>7, <1>9, <1>10 DEF PledgeIs
<1>12. PledgesGrow
  BY <1>3, <1>5, <1>9, <1>10 DEF PledgesGrow
<1>13. PledgesHold'
  BY <1>1, <1>3, <1>9, <1>11 DEF PledgesHold
<1>14. DeskHolds'
  BY <1>3, <1>12, DeskKept
<1>15. PanelSaidHolds'
  <2>1. ASSUME NEW a, NEW k, NEW o, PanelSaid(a, k, o)' PROVE PanelSaid(a, k, o)
    BY <1>3, <2>1 DEF PanelSaid
  <2>2. ASSUME NEW a, NEW k, NEW o, PanelSaid(a, k, o), a \in DOMAIN receiptsOf PROVE Answers(k, o, receiptsOf[a])'
    <3>1. PICK x : x = receiptsOf[a]
      OBVIOUS
    <3>2. Answers(k, o, x)
      BY <2>2, <3>1 DEF ManifestInv, PanelSaidHolds
    <3>3. Answers(k, o, x)'
      BY <1>12, <3>2, AnswersKept
    <3> QED BY <1>3, <3>1, <3>3 DEF Answers
  <2>3. \A a, k, o : PanelSaid(a, k, o)' => a \in 1..spent'.attempts /\ (k = "execute" => o \in agreed')
    BY <1>3, <1>4, <2>1 DEF ManifestInv, PanelSaidHolds
  <2>4. \A a, k, l, o, p : PanelSaid(a, k, o)' /\ PanelSaid(a, l, p)' => k = l /\ o = p
    BY <2>1 DEF ManifestInv, PanelSaidHolds
  <2>5. \A a, k, o : PanelSaid(a, k, o)' /\ a \in DOMAIN receiptsOf' => Answers(k, o, receiptsOf[a])'
    BY <1>3, <2>1, <2>2
  <2>6. DOMAIN receiptsOf' \subseteq 1..spent'.attempts
    BY <1>3, <1>4 DEF ManifestInv, PanelSaidHolds
  <2> QED BY <2>3, <2>4, <2>5, <2>6 DEF PanelSaidHolds
<1>16. PanelShapes'
  BY <1>1, <1>3, <1>4 DEF PanelShapes
<1>17. ASSUME NEW r \in posted PROVE PanelRequestIs(r)'
  BY <1>1, <1>3, <1>4, PanelRequestKept DEF ManifestInv, PanelShapes
<1> QED BY <1>3, <1>13, <1>14, <1>15, <1>16, <1>17 DEF ManifestInv

LEMMA ManifestStep == ManifestInv /\ [Maintenance!ManifestNext]_manifestVars => ManifestInv'
<1> SUFFICES ASSUME ManifestInv, [Maintenance!ManifestNext]_manifestVars PROVE ManifestInv'
  OBVIOUS
<1>1. PanelShapes
  BY DEF ManifestInv
<1>2. ASSUME UNCHANGED <<pledges, receiptsOf, desk, recall, posted, agreed, spent>> PROVE ManifestInv'
  <2>1. spent'.attempts = spent.attempts /\ "attempts" \in DOMAIN spent'
    BY <1>1, <1>2 DEF PanelShapes
  <2> QED BY <1>2, <2>1, ManifestRests
<1>3. CASE UNCHANGED manifestVars
  BY <1>2, <1>3 DEF manifestVars
<1>4. ASSUME NEW j, Maintenance!RunJob(j) PROVE ManifestInv'
  BY <1>2, <1>4 DEF Maintenance!RunJob
<1>5. CASE Maintenance!CancelJob
  BY <1>2, <1>5 DEF Maintenance!CancelJob
<1>6. CASE Maintenance!EditBuyer \/ Maintenance!ChangeRole
  <2>1. UNCHANGED <<pledges, receiptsOf, desk, recall, posted, agreed>> /\ Maintenance!Upset
    BY <1>6 DEF Maintenance!EditBuyer, Maintenance!ChangeRole
  <2> QED BY <1>1, <2>1, UpsetRests, ManifestRests
<1>7. CASE Maintenance!LoseAnswer
  <2>1. desk' = Maintenance!Answered /\ UNCHANGED <<pledges, receiptsOf, recall, posted, agreed>> /\ Maintenance!Upset
    BY <1>7 DEF Maintenance!LoseAnswer
  <2> QED BY <1>1, <2>1, UpsetRests, AnsweredStep
<1>8. CASE Maintenance!ReceiveRefusal
  <2>1. desk' = Maintenance!Answered /\ UNCHANGED <<pledges, receiptsOf, recall, posted, agreed, spent>>
    BY <1>8 DEF Maintenance!ReceiveRefusal
  <2>2. spent'.attempts = spent.attempts /\ "attempts" \in DOMAIN spent'
    BY <1>1, <2>1 DEF PanelShapes
  <2> QED BY <2>1, <2>2, AnsweredStep
<1>9. CASE Maintenance!Prepare \/ Maintenance!Confirm \/ Maintenance!Execute
  BY <1>9, PreparePreview, ConfirmStep, ExecuteStep
<1>10. ASSUME NEW r \in posted, Maintenance!ServePreview(r) \/ Maintenance!ServeExecute(r) PROVE ManifestInv'
  BY <1>10, ServePreviewStep, ServeExecuteStep
<1>11. CASE Maintenance!ReceivePreview \/ Maintenance!ReceiveExecute \/ Maintenance!ReadManifest \/ Maintenance!Recheck
  BY <1>11, ReceivePreviewStep, ReceiveExecuteStep, ReadManifestStep, RecheckStep
<1>12. CASE Maintenance!NewPreview \/ Maintenance!PreviewFailed \/ Maintenance!Leave \/ Maintenance!Return \/ Maintenance!Expire
  BY <1>12, NewPreviewStep, PreviewFailedStep, LeavePanel, ReturnStep, ExpireStep
<1> QED BY <1>3, <1>4, <1>5, <1>6, <1>7, <1>8, <1>9, <1>10, <1>11, <1>12 DEF Maintenance!ManifestNext

LEMMA ManifestIsTrue == ManifestInv => Maintenance!ManifestsAreAsAsked
BY DEF ManifestInv, PledgesHold, PledgeIs, DeskHolds, HasResult, Maintenance!ManifestsAreAsAsked

====
