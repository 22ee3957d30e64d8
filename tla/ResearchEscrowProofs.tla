------------------------- MODULE ResearchEscrowProofs -------------------------
(* Theorems about ResearchEscrow, for every budget, lifetime, set of items,      *)
(* sources and callers, whatever the Registry, governance and donors do. Those   *)
(* about sums of payments assume finitely many items and addresses.              *)
EXTENDS ResearchEscrow, FiniteSetTheorems, WellFoundedInduction, TLAPS

\* The counters and the escrow's own balance. Balances of payees are no part of
\* it: no exit and no batch reads them.
Counted ==
  /\ state \in {"Funded", "Active", "Closed"}
  /\ spent \in Nat /\ DOMAIN bal = Accounts /\ bal[Escrow] \in Nat
  /\ state # "Closed" => refund = [budget |-> 0, excess |-> 0]

Sound == Counted /\ BudgetRespected /\ Solvent

LEMMA Places == Buyer \in Accounts /\ Escrow \in Accounts /\ Buyer # Escrow
  BY EscrowAssumption DEF Accounts, People

\* What a transfer of the whole balance does.
LEMMA PaysAll ==
  ASSUME Counted, Pay(Buyer, bal[Escrow])
  PROVE  /\ DOMAIN bal' = Accounts /\ bal'[Escrow] = 0
         /\ bal'[Buyer] = bal[Buyer] + bal[Escrow]
  BY Places DEF Counted, Pay

LEMMA Remaining ==
  ASSUME Sound
  PROVE  accountedBalance \in Nat /\ accountedBalance <= Budget
  BY EscrowAssumption DEF Sound, Counted, BudgetRespected, accountedBalance

\* The common end of close and refundExpired.
LEMMA CloseStep ==
  ASSUME Sound, CloseAndRefund
  PROVE  /\ Sound' /\ state' = "Closed" /\ bal'[Escrow] = 0
         /\ bal'[Buyer] = bal[Buyer] + bal[Escrow]
         /\ refund'.budget + refund'.excess = bal[Escrow]
  <1>1. /\ DOMAIN bal' = Accounts /\ bal'[Escrow] = 0
        /\ bal'[Buyer] = bal[Buyer] + bal[Escrow]
    BY PaysAll DEF Sound, CloseAndRefund
  <1>2. refund'.budget + refund'.excess = bal[Escrow]
    BY Remaining DEF CloseAndRefund, Sound, Counted
  <1>3. state' = "Closed" /\ spent' = spent
    BY DEF CloseAndRefund, books
  <1> QED BY <1>1, <1>2, <1>3 DEF Sound, Counted, BudgetRespected, Solvent

\* cancelUnactivated
LEMMA CancelStep ==
  ASSUME Sound, NEW c, CancelUnactivated(c)
  PROVE  /\ Sound' /\ bal'[Escrow] = 0
         /\ bal'[Buyer] = bal[Buyer] + bal[Escrow]
         /\ refund'.budget + refund'.excess = bal[Escrow]
  <1>1. /\ DOMAIN bal' = Accounts /\ bal'[Escrow] = 0
        /\ bal'[Buyer] = bal[Buyer] + bal[Escrow]
    BY PaysAll DEF Sound, CancelUnactivated
  <1>2. refund = [budget |-> 0, excess |-> 0]
    BY DEF CancelUnactivated, Sound, Counted
  <1>3. refund'.budget = bal[Escrow] /\ refund'.excess = 0
    BY <1>2 DEF CancelUnactivated
  <1>4. state' = "Closed" /\ spent' = spent
    BY DEF CancelUnactivated, books
  <1> QED BY <1>1, <1>3, <1>4 DEF Sound, Counted, BudgetRespected, Solvent

\* A batch takes from the balance exactly what it adds to spent, and fits.
LEMMA BatchStep ==
  ASSUME Sound, NEW c, NEW k, NEW b, NEW t, NEW d, SettleBatch(c, k, b, t, d)
  PROVE  Sound' /\ state = "Active" /\ state' = "Active"
  <1> DEFINE total == Total(b)
  <1>1. /\ total \in 0..accountedBalance /\ bal[Escrow] >= total
        /\ spent' = spent + total /\ bal'[Escrow] = bal[Escrow] - total
        /\ DOMAIN bal' = Accounts /\ state = "Active" /\ UNCHANGED <<state, refund>>
    BY Places DEF SettleBatch, WithinBudget
  <1> HIDE DEF total
  <1>2. total \in Nat /\ spent + total <= Budget
    BY <1>1, Remaining, EscrowAssumption DEF accountedBalance, Sound, Counted
  <1>3. Budget - (spent + total) <= bal[Escrow] - total
    BY <1>1, <1>2, EscrowAssumption DEF accountedBalance, Sound, Counted, Solvent
  <1> QED BY <1>1, <1>2, <1>3, EscrowAssumption
          DEF Sound, Counted, BudgetRespected, Solvent, accountedBalance

LEMMA RecoverStep ==
  ASSUME Sound, RecoverExcess
  PROVE  Sound' /\ UNCHANGED <<state, books, refund>> /\ state = "Closed"
  <1>1. DOMAIN bal' = Accounts /\ bal'[Escrow] = 0
    BY PaysAll DEF Sound, RecoverExcess
  <1>2. state = "Closed" /\ UNCHANGED <<state, books, refund>>
    BY DEF RecoverExcess
  <1> QED BY <1>1, <1>2
          DEF Sound, Counted, BudgetRespected, Solvent, accountedBalance, books

\* activate; and everything outside, donations included, which only add.
LEMMA OtherStep ==
  ASSUME Sound, (\E d \in Times : Activate(d)) \/ Outside \/ UNCHANGED vars
  PROVE  Sound' /\ UNCHANGED <<books, refund>> /\ (state' = state \/ state = "Funded")
         /\ (state # "Closed" => state' # "Closed")
  <1> USE DEF Sound, Counted, BudgetRespected, Solvent, accountedBalance, books
  <1>1. CASE \E d \in Times : Activate(d)
    BY <1>1 DEF Activate
  <1>2. CASE Give
    <2>1. bal' = [bal EXCEPT ![Escrow] = @ + 1] /\ UNCHANGED <<state, books, refund>>
      BY <1>2 DEF Give
    <2>2. DOMAIN bal' = Accounts /\ bal'[Escrow] = bal[Escrow] + 1
      BY <2>1, Places
    <2> QED BY <2>1, <2>2, EscrowAssumption
  <1>3. CASE Tick \/ Govern \/ UNCHANGED vars
    BY <1>3 DEF Tick, Govern, vars
  <1>4. ASSUME NEW s \in Sources, NEW l \in Listings, UpdateSource(s, l)
        PROVE  Sound' /\ UNCHANGED <<books, refund, state>>
    BY <1>4 DEF UpdateSource
  <1> QED BY <1>1, <1>2, <1>3, <1>4 DEF Outside

LEMMA InitSound == Init => Sound
  BY Places, EscrowAssumption
  DEF Init, Sound, Counted, BudgetRespected, Solvent, accountedBalance

\* Every step keeps the books sound; if it closes the escrow it empties it, and if
\* the escrow was closed it leaves state, books and refunds alone.
Empties == state # "Closed" /\ state' = "Closed"
             => /\ bal'[Escrow] = 0 /\ bal'[Buyer] = bal[Buyer] + bal[Escrow]
                /\ refund'.budget + refund'.excess = bal[Escrow]
Final   == state = "Closed" => UNCHANGED <<state, books, refund>>

LEMMA NextSound == Sound /\ [Next]_vars => Sound' /\ Empties /\ Final
  <1> SUFFICES ASSUME Sound, [Next]_vars PROVE Sound' /\ Empties /\ Final
    OBVIOUS
  <1>1. CASE (\E d \in Times : Activate(d)) \/ Outside \/ UNCHANGED vars
    BY <1>1, OtherStep DEF Empties, Final
  <1>2. CASE RefundExpired
    BY <1>2, CloseStep DEF RefundExpired, Empties, Final
  <1>3. CASE RecoverExcess
    BY <1>3, RecoverStep DEF Empties, Final
  <1>4. ASSUME NEW c \in Callers, CancelUnactivated(c) PROVE Sound' /\ Empties /\ Final
    BY <1>4, CancelStep DEF CancelUnactivated, Empties, Final
  <1>5. ASSUME NEW c \in Callers, NEW t \in Times, NEW d \in Times,
               NEW k \in Settlements, NEW b \in Batches, SettleBatch(c, k, b, t, d)
        PROVE  Sound' /\ Empties /\ Final
    BY <1>5, BatchStep DEF Empties, Final
  <1>6. ASSUME NEW c \in Callers, NEW t \in Times, NEW d \in Times,
               NEW paid \in Certificates, Close(c, paid, t, d)
        PROVE  Sound' /\ Empties /\ Final
    BY <1>6, CloseStep DEF Close, Empties, Final
  <1> QED BY <1>1, <1>2, <1>3, <1>4, <1>5, <1>6 DEF Next, Transaction

LEMMA SoundAlways == Spec => []Sound
  BY InitSound, NextSound, PTL DEF Spec

\* Until it closes, the escrow holds at least the rest of its budget, and all batches
\* together stay within the budget, whatever is donated.
THEOREM Solvency == Spec => []BooksBalance
  <1>1. Sound => BooksBalance
    BY DEF Sound, BooksBalance
  <1> QED BY <1>1, SoundAlways, PTL

\* Each of the three exits returns the whole balance to the buyer, as recorded.
THEOREM ExitsReturnAll == Spec => ExitReturnsAll
  <1>1. Sound /\ [Next]_vars => [Empties]_vars
    BY NextSound
  <1> QED BY <1>1, SoundAlways, PTL DEF Spec, ExitReturnsAll, Empties

\* Nothing changes the state, books or refunds of a closed escrow.
THEOREM CloseIsFinal == Spec => ClosedIsFinal
  <1>1. Sound /\ [Next]_vars => [Final]_vars
    BY NextSound
  <1> QED BY <1>1, SoundAlways, PTL DEF Spec, ClosedIsFinal, Final
-----------------------------------------------------------------------------
\* The request keys registered as processed cover every settled item: this is
\* what makes the check of the request keys enough.
Registered ==
  /\ DOMAIN result = Settlements
  /\ \A k \in Settlements : \A i \in result[k] : i.request \in done

\* A batch of fresh, distinct requests adds no second payment of any request.
LEMMA BatchPaysOnce ==
  ASSUME Registered, PaidOnce, NEW c, NEW k \in Settlements, NEW b, NEW t, NEW d,
         SettleBatch(c, k, b, t, d)
  PROVE  Registered' /\ PaidOnce'
  <1>1. /\ \A i, j \in b : i.request = j.request => i = j
        /\ \A i \in b : i.request \notin done
        /\ done' = done \union {i.request : i \in b}
        /\ result' = [result EXCEPT ![k] = b]
    BY DEF SettleBatch, Fresh
  <1>2. /\ DOMAIN result' = Settlements /\ result'[k] = b
        /\ \A l \in Settlements : l # k => result'[l] = result[l]
    BY <1>1 DEF Registered
  <1>3. Registered'
    BY <1>1, <1>2 DEF Registered
  <1>4. ASSUME NEW l \in Settlements, NEW m \in Settlements,
               NEW i \in result'[l], NEW j \in result'[m], i.request = j.request
        PROVE  l = m /\ i = j
    <2>1. CASE l = k /\ m = k
      BY <1>1, <1>2, <1>4, <2>1
    <2>2. CASE l = k /\ m # k
      BY <1>1, <1>2, <1>4, <2>2 DEF Registered
    <2>3. CASE l # k /\ m = k
      BY <1>1, <1>2, <1>4, <2>3 DEF Registered
    <2>4. CASE l # k /\ m # k
      BY <1>2, <1>4, <2>4 DEF PaidOnce
    <2> QED BY <2>1, <2>2, <2>3, <2>4
  <1> QED BY <1>3, <1>4 DEF PaidOnce

LEMMA InitRegistered == Init => Registered /\ PaidOnce
  BY DEF Init, Registered, PaidOnce

LEMMA NextRegistered == Registered /\ PaidOnce /\ [Next]_vars => Registered' /\ PaidOnce'
  <1> SUFFICES ASSUME Registered, PaidOnce, [Next]_vars PROVE Registered' /\ PaidOnce'
    OBVIOUS
  <1>1. CASE UNCHANGED books
    BY <1>1 DEF books, Registered, PaidOnce
  <1>2. ASSUME NEW c \in Callers, NEW t \in Times, NEW d \in Times,
               NEW k \in Settlements, NEW b \in Batches, SettleBatch(c, k, b, t, d)
        PROVE  Registered' /\ PaidOnce'
    BY <1>2, BatchPaysOnce
  <1>3. Next => UNCHANGED books \/ \E c \in Callers, t \in Times, d \in Times,
                  k \in Settlements, b \in Batches : SettleBatch(c, k, b, t, d)
    BY DEF Next, Transaction, Outside, RefundExpired, RecoverExcess, Activate,
       CancelUnactivated, Close, CloseAndRefund, Tick, Give, Govern, UpdateSource,
       books, world
  <1> QED BY <1>1, <1>2, <1>3 DEF vars, books

\* A request is paid in one batch at most, under any number of settlement keys.
THEOREM EachRequestOnce == Spec => []PaidOnce
  BY InitRegistered, NextRegistered, PTL DEF Spec
--------------------------------------------------------------------------------
(* Sums over finite sets. MapThenSumSet removes one chosen element after the       *)
(* other; its sum depends on no choice. All is by the smallest counterexample: of  *)
(* the subsets of a finite set that falsify a formula one has no smaller one.      *)

LEMMA Smallest ==
  ASSUME NEW S, IsFiniteSet(S), NEW C \in SUBSET (SUBSET S), C # {}
  PROVE  \E m \in C : \A u \in C : u \subseteq m => u = m
<1>1. IsWellFoundedOn(StrictSubsetOrdering(S), SUBSET S)
  BY FS_StrictSubsetOrderingWellFounded, FS_FiniteSubsetsOfFinite
<1>2. PICK m \in C : \A u \in C : <<u, m>> \notin StrictSubsetOrdering(S)
  BY <1>1, WFMin
<1>3. ASSUME NEW u \in C, u \subseteq m PROVE u = m
  BY <1>2, <1>3 DEF StrictSubsetOrdering
<1> QED BY <1>3

\* What holds of the empty set, and of a set with one more element, holds of all.
LEMMA OneByOne ==
  ASSUME NEW S, IsFiniteSet(S), NEW T, {} \in T,
         \A s \in SUBSET S : s \in T => \A x \in S \ s : s \union {x} \in T
  PROVE  SUBSET S \subseteq T
<1> DEFINE C == {s \in SUBSET S : s \notin T}
<1> SUFFICES ASSUME C # {} PROVE FALSE OBVIOUS
<1>1. C \in SUBSET (SUBSET S) /\ \A s \in SUBSET S : s \in C <=> s \notin T OBVIOUS
<1> HIDE DEF C
<1>2. PICK m \in C : \A u \in C : u \subseteq m => u = m BY <1>1, Smallest
<1>3. m \in SUBSET S /\ m \notin T BY <1>1
<1>4. PICK x \in m : TRUE BY <1>3
<1>5. m \ {x} \in SUBSET S /\ m \ {x} \subseteq m /\ m \ {x} # m BY <1>3, <1>4
<1>6. m \ {x} \in T BY <1>1, <1>2, <1>5
<1>7. (m \ {x}) \union {x} = m /\ x \in S \ (m \ {x}) BY <1>3, <1>4
<1> QED BY <1>3, <1>5, <1>6, <1>7

Chosen(s) == CHOOSE x \in s : TRUE
Taken(f, h, s) == IF s = {} THEN 0 ELSE f[Chosen(s)] + h[s \ {Chosen(s)}]
Sums(f, S, h) == h = [s \in SUBSET S |-> Taken(f, h, s)]
SumOf(f, S) == (CHOOSE h : Sums(f, S, h))[S]

Natural(f, S) == \A x \in S : f[x] \in Nat
\* h adds up f: whatever element is taken first.
Adds(f, S, h) == /\ h[{}] = 0
                 /\ \A s \in SUBSET S : \A y \in s : h[s] = f[y] + h[s \ {y}]

LEMMA ChosenIsIn == \A s : s # {} => Chosen(s) \in s
BY DEF Chosen

LEMMA SumsExist ==
  ASSUME NEW S, IsFiniteSet(S), NEW f, Natural(f, S)
  PROVE  \E h \in [SUBSET S -> Nat] : Sums(f, S, h)
<1> DEFINE Good(n, g) == \A u \in SUBSET S : Cardinality(u) <= n => g[u] = Taken(f, g, u)
           T == {s \in SUBSET S : \E g \in [SUBSET S -> Nat] : Good(Cardinality(s), g)}
<1>1. \A u \in SUBSET S : IsFiniteSet(u) /\ Cardinality(u) \in Nat
  BY FS_Subset, FS_CardinalityType
<1>2. {} \in T
  <2> DEFINE g == [u \in SUBSET S |-> 0]
  <2>1. \A u \in SUBSET S : Cardinality(u) <= 0 => u = {} BY <1>1, FS_EmptySet
  <2>2. Cardinality({}) = 0 BY FS_EmptySet
  <2>3. g \in [SUBSET S -> Nat] OBVIOUS
  <2>4. \A u \in SUBSET S : g[u] = 0 OBVIOUS
  <2> HIDE DEF g
  <2>5. Good(0, g) BY <2>1, <2>4 DEF Taken
  <2> QED BY <2>2, <2>3, <2>5
<1>3. ASSUME NEW s \in SUBSET S, s \in T, NEW x \in S \ s PROVE s \union {x} \in T
  <2>1. PICK n \in Nat : n = Cardinality(s) BY <1>1
  <2>2. Cardinality(s \union {x}) = n + 1 BY <1>1, <2>1, FS_AddElement
  <2>3. PICK g \in [SUBSET S -> Nat] : Good(n, g) BY <1>3, <2>1
  <2> DEFINE g2 == [u \in SUBSET S |-> IF Cardinality(u) <= n THEN g[u] ELSE Taken(f, g, u)]
  <2>4. ASSUME NEW u \in SUBSET S, u # {}
        PROVE  /\ Chosen(u) \in u /\ u \ {Chosen(u)} \in SUBSET S
               /\ Cardinality(u \ {Chosen(u)}) = Cardinality(u) - 1
    BY <1>1, <2>4, ChosenIsIn, FS_RemoveElement
  <2>5. \A u \in SUBSET S : Taken(f, g, u) \in Nat BY <2>4 DEF Taken, Natural
  <2>6. g2 \in [SUBSET S -> Nat] BY <2>5
  <2>7. \A u \in SUBSET S : g2[u] = IF Cardinality(u) <= n THEN g[u] ELSE Taken(f, g, u)
    OBVIOUS
  <2> HIDE DEF g2
  <2>8. ASSUME NEW u \in SUBSET S, Cardinality(u) <= n + 1 PROVE g2[u] = Taken(f, g2, u)
    <3>1. g2[u] = Taken(f, g, u) BY <2>3, <2>7
    <3>2. CASE u = {} BY <3>1, <3>2 DEF Taken
    <3>3. CASE u # {}
      <4>1. Cardinality(u \ {Chosen(u)}) <= n BY <1>1, <2>4, <2>8, <3>3
      <4>2. g2[u \ {Chosen(u)}] = g[u \ {Chosen(u)}] BY <2>4, <2>7, <3>3, <4>1
      <4> QED BY <3>1, <4>2 DEF Taken
    <3> QED BY <3>2, <3>3
  <2>9. Good(n + 1, g2) BY <2>8
  <2>10. s \union {x} \in SUBSET S OBVIOUS
  <2> QED BY <2>2, <2>6, <2>9, <2>10
<1> HIDE DEF T
<1>4. S \in T BY <1>2, <1>3, OneByOne
<1>5. PICK g \in [SUBSET S -> Nat] : Good(Cardinality(S), g) BY <1>4 DEF T
<1>6. \A u \in SUBSET S : Cardinality(u) <= Cardinality(S) BY FS_Subset
<1>7. g = [u \in SUBSET S |-> Taken(f, g, u)] BY <1>5, <1>6
<1> QED BY <1>7 DEF Sums

LEMMA AnyFirst ==
  ASSUME NEW S, IsFiniteSet(S), NEW f, Natural(f, S),
         NEW h \in [SUBSET S -> Nat], Sums(f, S, h)
  PROVE  Adds(f, S, h)
<1> DEFINE C == {s \in SUBSET S : \E y \in s : h[s] # f[y] + h[s \ {y}]}
<1>1. \A s \in SUBSET S : h[s] = Taken(f, h, s)
  <2> DEFINE g == [s \in SUBSET S |-> Taken(f, h, s)]
  <2>1. \A s \in SUBSET S : g[s] = Taken(f, h, s) OBVIOUS
  <2>2. h = g BY DEF Sums
  <2> HIDE DEF g
  <2> QED BY <2>1, <2>2
<1>2. h[{}] = 0 BY <1>1 DEF Taken
<1>3. ASSUME C # {} PROVE FALSE
  <2>1. /\ C \in SUBSET (SUBSET S)
        /\ \A s \in SUBSET S : s \notin C => \A y \in s : h[s] = f[y] + h[s \ {y}]
        /\ \A s \in C : \E y \in s : h[s] # f[y] + h[s \ {y}]
    OBVIOUS
  <2> HIDE DEF C
  <2>2. PICK m \in C : \A u \in C : u \subseteq m => u = m BY <1>3, <2>1, Smallest
  <2>3. PICK y \in m : m \in SUBSET S /\ h[m] # f[y] + h[m \ {y}] BY <2>1
  <2>4. PICK x \in m : x = Chosen(m) BY <2>3, ChosenIsIn
  <2>5. h[m] = f[x] + h[m \ {x}] BY <1>1, <2>3, <2>4 DEF Taken
  <2>6. x # y BY <2>3, <2>5
  <2>7. m \ {x} \in SUBSET S /\ m \ {y} \in SUBSET S /\ m \ {x, y} \in SUBSET S
    BY <2>3
  <2>8. m \ {x} \notin C /\ m \ {y} \notin C BY <2>2
  <2>9. (m \ {x}) \ {y} = m \ {x, y} /\ (m \ {y}) \ {x} = m \ {x, y} OBVIOUS
  <2>10. h[m \ {x}] = f[y] + h[m \ {x, y}]
    <3>1. y \in m \ {x} BY <2>6
    <3>2. h[m \ {x}] = f[y] + h[(m \ {x}) \ {y}] BY <2>1, <2>7, <2>8, <3>1
    <3> QED BY <2>9, <3>2
  <2>11. h[m \ {y}] = f[x] + h[m \ {x, y}]
    <3>1. x \in m \ {y} BY <2>6
    <3>2. h[m \ {y}] = f[x] + h[(m \ {y}) \ {x}] BY <2>1, <2>7, <2>8, <3>1
    <3> QED BY <2>9, <3>2
  <2>12. /\ f[x] \in Nat /\ f[y] \in Nat /\ h[m \ {x, y}] \in Nat
    BY <2>3, <2>7 DEF Natural
  <2> QED BY <2>3, <2>5, <2>10, <2>11, <2>12
<1> QED BY <1>2, <1>3 DEF Adds

\* The sums of all subsets are one function.
Totals(f, S, g) == /\ g \in [SUBSET S -> Nat] /\ Adds(f, S, g)
                   /\ \A s \in SUBSET S : SumOf(f, s) = g[s]

LEMMA SumsAgree ==
  ASSUME NEW S, IsFiniteSet(S), NEW f, Natural(f, S)
  PROVE  \E g : Totals(f, S, g)
<1>1. PICK g \in [SUBSET S -> Nat] : Sums(f, S, g) BY SumsExist
<1>2. Adds(f, S, g) BY <1>1, AnyFirst
<1>3. ASSUME NEW s \in SUBSET S PROVE SumOf(f, s) = g[s]
  <2>1. IsFiniteSet(s) /\ Natural(f, s) BY FS_Subset DEF Natural
  <2>2. \E h : Sums(f, s, h) BY <2>1, SumsExist
  <2>3. PICK h : h = CHOOSE k : Sums(f, s, k) OBVIOUS
  <2>4. Sums(f, s, h) BY <2>2, <2>3
  <2>5. \A u \in SUBSET s : h[u] = Taken(f, h, u)
    <3> DEFINE k == [u \in SUBSET s |-> Taken(f, h, u)]
    <3>1. \A u \in SUBSET s : k[u] = Taken(f, h, u) OBVIOUS
    <3>2. h = k BY <2>4 DEF Sums
    <3> HIDE DEF k
    <3> QED BY <3>1, <3>2
  <2> DEFINE C == {u \in SUBSET s : h[u] # g[u]}
  <2>6. ASSUME C # {} PROVE FALSE
    <3>0. /\ C \in SUBSET (SUBSET s)
          /\ \A u \in SUBSET s : u \in C <=> h[u] # g[u]
      OBVIOUS
    <3> HIDE DEF C
    <3>1. PICK m \in C : \A u \in C : u \subseteq m => u = m
      BY <2>1, <2>6, <3>0, Smallest
    <3>2. m \in SUBSET s /\ m \in SUBSET S /\ h[m] # g[m] BY <3>0
    <3>3. m # {} BY <1>2, <2>5, <3>2 DEF Taken, Adds
    <3>4. PICK x \in m : x = Chosen(m) BY <3>3, ChosenIsIn
    <3>5. h[m] = f[x] + h[m \ {x}] BY <2>5, <3>2, <3>3, <3>4 DEF Taken
    <3>6. g[m] = f[x] + g[m \ {x}] BY <1>2, <3>2 DEF Adds
    <3>7. m \ {x} \in SUBSET s /\ m \ {x} \notin C BY <3>1, <3>2
    <3>8. h[m \ {x}] = g[m \ {x}] BY <3>0, <3>7
    <3> QED BY <3>2, <3>5, <3>6, <3>8
  <2>7. h[s] = g[s] BY <2>6
  <2> QED BY <2>3, <2>7 DEF SumOf
<1> QED BY <1>2, <1>3 DEF Totals

LEMMA SumEmpty == ASSUME NEW f PROVE SumOf(f, {}) = 0
<1>1. IsFiniteSet({}) BY FS_EmptySet
<1>2. Natural(f, {}) BY DEF Natural
<1>3. PICK g : Totals(f, {}, g) BY <1>1, <1>2, SumsAgree
<1> QED BY <1>3 DEF Totals, Adds

LEMMA SumTakes ==
  ASSUME NEW S, IsFiniteSet(S), NEW f, Natural(f, S)
  PROVE  /\ SumOf(f, S) \in Nat
         /\ \A y \in S : /\ SumOf(f, S) = f[y] + SumOf(f, S \ {y})
                         /\ SumOf(f, S \ {y}) \in Nat
<1>1. PICK g : Totals(f, S, g) BY SumsAgree
<1>2. S \in SUBSET S /\ \A y \in S : S \ {y} \in SUBSET S OBVIOUS
<1> QED BY <1>1, <1>2 DEF Totals, Adds

\* Equal summands, equal sums.
LEMMA SumSame ==
  ASSUME NEW S, IsFiniteSet(S), NEW f, Natural(f, S), NEW g,
         \A x \in S : g[x] = f[x]
  PROVE  SumOf(f, S) = SumOf(g, S)
<1> DEFINE T == {s \in SUBSET S : SumOf(f, s) = SumOf(g, s)}
<1>1. {} \in T BY SumEmpty
<1>2. ASSUME NEW s \in SUBSET S, s \in T, NEW x \in S \ s PROVE s \union {x} \in T
  <2>1. PICK t \in SUBSET S : t = s \union {x} OBVIOUS
  <2>2. IsFiniteSet(t) /\ x \in t /\ t \ {x} = s BY <2>1, FS_Subset
  <2>3. Natural(f, t) /\ Natural(g, t) BY <2>1 DEF Natural
  <2>4. SumOf(f, t) = f[x] + SumOf(f, s) BY <2>2, <2>3, SumTakes
  <2>5. SumOf(g, t) = g[x] + SumOf(g, s) BY <2>2, <2>3, SumTakes
  <2> QED BY <1>2, <2>1, <2>4, <2>5
<1> HIDE DEF T
<1>3. S \in T BY <1>1, <1>2, OneByOne
<1> QED BY <1>3 DEF T

\* A set with one more element, and a function that differs at one.
LEMMA SumAdds ==
  ASSUME NEW S, IsFiniteSet(S), NEW x, x \notin S, NEW f, f[x] \in Nat,
         Natural(f, S)
  PROVE  SumOf(f, S \union {x}) = SumOf(f, S) + f[x]
<1>1. PICK t : t = S \union {x} OBVIOUS
<1>2. IsFiniteSet(t) /\ x \in t /\ t \ {x} = S BY <1>1, FS_AddElement
<1>3. Natural(f, t) BY <1>1 DEF Natural
<1>4. SumOf(f, t) = f[x] + SumOf(f, S) /\ SumOf(f, S) \in Nat
  BY <1>2, <1>3, SumTakes
<1> QED BY <1>1, <1>2, <1>4

LEMMA SumMoves ==
  ASSUME NEW S, IsFiniteSet(S), NEW f, NEW g, NEW x \in S,
         Natural(f, S), Natural(g, S),
         \A y \in S \ {x} : g[y] = f[y]
  PROVE  SumOf(g, S) = SumOf(f, S) + g[x] - f[x]
<1>1. IsFiniteSet(S \ {x}) /\ Natural(f, S \ {x}) BY FS_Subset DEF Natural
<1>2. SumOf(f, S \ {x}) = SumOf(g, S \ {x}) BY <1>1, SumSame
<1>3. /\ SumOf(f, S) = f[x] + SumOf(f, S \ {x}) /\ SumOf(f, S \ {x}) \in Nat
      /\ SumOf(g, S) = g[x] + SumOf(g, S \ {x})
  BY SumTakes
<1>4. f[x] \in Nat /\ g[x] \in Nat BY DEF Natural
<1> QED BY <1>2, <1>3, <1>4

\* The sum of a union of disjoint sets.
LEMMA SumUnion ==
  ASSUME NEW A, IsFiniteSet(A), NEW B, IsFiniteSet(B), A \intersect B = {},
         NEW f, Natural(f, A \union B)
  PROVE  SumOf(f, A \union B) = SumOf(f, A) + SumOf(f, B)
<1> DEFINE T == {s \in SUBSET B : SumOf(f, A \union s) = SumOf(f, A) + SumOf(f, s)}
<1>1. SumOf(f, A) \in Nat
  <2>1. Natural(f, A) BY DEF Natural
  <2> QED BY <2>1, SumTakes
<1>2. {} \in T
  <2>1. A \union {} = A OBVIOUS
  <2> QED BY <1>1, <2>1, SumEmpty
<1>3. ASSUME NEW s \in SUBSET B, s \in T, NEW x \in B \ s PROVE s \union {x} \in T
  <2>1. IsFiniteSet(s) /\ IsFiniteSet(A \union s) BY FS_Subset, FS_Union
  <2>2. /\ x \notin A \union s /\ x \notin s /\ f[x] \in Nat
        /\ Natural(f, A \union s) /\ Natural(f, s)
    BY DEF Natural
  <2>3. SumOf(f, (A \union s) \union {x}) = SumOf(f, A \union s) + f[x]
    BY <2>1, <2>2, SumAdds
  <2>4. SumOf(f, s \union {x}) = SumOf(f, s) + f[x] BY <2>1, <2>2, SumAdds
  <2>5. (A \union s) \union {x} = A \union (s \union {x}) OBVIOUS
  <2>6. SumOf(f, s) \in Nat BY <2>1, <2>2, SumTakes
  <2>7. SumOf(f, A \union s) = SumOf(f, A) + SumOf(f, s) BY <1>3
  <2>8. SumOf(f, A \union (s \union {x})) = SumOf(f, A) + SumOf(f, s \union {x})
    BY <1>1, <2>2, <2>3, <2>4, <2>5, <2>6, <2>7
  <2> QED BY <2>8
<1> HIDE DEF T
<1>4. B \in T BY <1>2, <1>3, OneByOne
<1> QED BY <1>4 DEF T
--------------------------------------------------------------------------------
(* What the payees were paid.                                                      *)

AmountOf == [i \in Items |-> i.amount]

LEMMA TotalIsSum ==
  ASSUME NEW b \in SUBSET Items
  PROVE  Total(b) = SumOf(AmountOf, b)
<1>1. Total(b) = (CHOOSE h : h = [s \in SUBSET b |->
                    IF s = {} THEN 0
                    ELSE Chosen(s).amount + h[s \ {Chosen(s)}]])[b]
  BY DEF Total, MapThenSumSet, MapThenFoldSet, Chosen
<1>2. ASSUME NEW h
      PROVE  [s \in SUBSET b |-> IF s = {} THEN 0
                                 ELSE Chosen(s).amount + h[s \ {Chosen(s)}]]
             = [s \in SUBSET b |-> Taken(AmountOf, h, s)]
  <2>1. ASSUME NEW s \in SUBSET b
        PROVE  (IF s = {} THEN 0 ELSE Chosen(s).amount + h[s \ {Chosen(s)}])
               = Taken(AmountOf, h, s)
    <3>1. s # {} => Chosen(s) \in Items BY ChosenIsIn
    <3> QED BY <3>1 DEF Taken, AmountOf
  <2> QED BY <2>1
<1>3. (CHOOSE h : h = [s \in SUBSET b |->
                    IF s = {} THEN 0
                    ELSE Chosen(s).amount + h[s \ {Chosen(s)}]])
      = (CHOOSE h : Sums(AmountOf, b, h))
  BY <1>2 DEF Sums
<1> QED BY <1>1, <1>3 DEF SumOf

LEMMA PaidIsSum ==
  ASSUME NEW S
  PROVE  MapThenSumSet(LAMBDA a : bal[a], S) = SumOf(bal, S)
BY DEF MapThenSumSet, MapThenFoldSet, SumOf, Sums, Taken, Chosen

\* Items and addresses are words of fixed width in the contract.
Finite == IsFiniteSet(Items) /\ IsFiniteSet(People)
Others == People \ {Buyer}
PaidTo(b, a) == {i \in b : i.payout = a}

LEMMA SumZero ==
  ASSUME NEW S, IsFiniteSet(S), NEW f, \A x \in S : f[x] = 0
  PROVE  SumOf(f, S) = 0
<1> DEFINE T == {s \in SUBSET S : SumOf(f, s) = 0}
<1>1. {} \in T BY SumEmpty
<1>2. ASSUME NEW s \in SUBSET S, s \in T, NEW x \in S \ s PROVE s \union {x} \in T
  <2>1. IsFiniteSet(s) /\ Natural(f, s) /\ f[x] = 0 /\ f[x] \in Nat /\ x \notin s
    BY FS_Subset DEF Natural
  <2>2. SumOf(f, s \union {x}) = SumOf(f, s) + f[x] BY <2>1, SumAdds
  <2>3. SumOf(f, s) = 0 BY <1>2
  <2> QED BY <2>1, <2>2, <2>3
<1> HIDE DEF T
<1>3. S \in T BY <1>1, <1>2, OneByOne
<1> QED BY <1>3 DEF T

\* Amounts are natural, and so are their totals; what a batch pays to nobody is zero.
LEMMA Amounts ==
  ASSUME IsFiniteSet(Items), NEW b \in SUBSET Items
  PROVE  /\ IsFiniteSet(b) /\ Natural(AmountOf, b)
         /\ Total(b) \in Nat /\ Total({}) = 0
         /\ \A i \in Items \ b : Total(b \union {i}) = Total(b) + i.amount
<1>1. IsFiniteSet(b) BY FS_Subset
<1>2. \A i \in Items : AmountOf[i] = i.amount /\ i.amount \in Nat
  BY EscrowAssumption DEF EscrowAssumption, AmountOf
<1>3. Natural(AmountOf, b) BY <1>2 DEF Natural
<1>4. Total(b) = SumOf(AmountOf, b) /\ Total({}) = SumOf(AmountOf, {})
  BY TotalIsSum
<1>5. Total(b) \in Nat BY <1>1, <1>3, <1>4, SumTakes
<1>6. Total({}) = 0 BY <1>4, SumEmpty
<1>7. ASSUME NEW i \in Items \ b PROVE Total(b \union {i}) = Total(b) + i.amount
  <2>1. Total(b \union {i}) = SumOf(AmountOf, b \union {i}) BY TotalIsSum
  <2>2. SumOf(AmountOf, b \union {i}) = SumOf(AmountOf, b) + AmountOf[i]
    BY <1>1, <1>2, <1>3, SumAdds
  <2> QED BY <1>2, <1>4, <2>1, <2>2
<1> QED BY <1>1, <1>3, <1>5, <1>6, <1>7

LEMMA Shares ==
  ASSUME IsFiniteSet(Items), NEW b \in SUBSET Items, NEW a
  PROVE  /\ Share(b, a) \in Nat
         /\ (\A i \in b : i.payout # a) => Share(b, a) = 0
         /\ \A i \in Items \ b :
              Share(b \union {i}, a) = Share(b, a) + IF i.payout = a THEN i.amount ELSE 0
<1>1. PICK s \in SUBSET Items : s = PaidTo(b, a) BY DEF PaidTo
<1>2. Share(b, a) = Total(s) BY <1>1 DEF Share, PaidTo
<1>3. Total(s) \in Nat /\ Total({}) = 0 BY Amounts
<1>4. (\A i \in b : i.payout # a) => s = {} BY <1>1 DEF PaidTo
<1>5. ASSUME NEW i \in Items \ b
      PROVE  Share(b \union {i}, a) = Share(b, a) + IF i.payout = a THEN i.amount ELSE 0
  <2>1. Share(b \union {i}, a) = Total(PaidTo(b \union {i}, a)) BY DEF Share, PaidTo
  <2>2. CASE i.payout = a
    <3>1. PaidTo(b \union {i}, a) = s \union {i} /\ i \in Items \ s
      BY <1>1, <2>2 DEF PaidTo
    <3>2. Total(s \union {i}) = Total(s) + i.amount BY <3>1, Amounts
    <3> QED BY <1>2, <2>1, <2>2, <3>1, <3>2
  <2>3. CASE i.payout # a
    <3>1. PaidTo(b \union {i}, a) = s BY <1>1, <2>3 DEF PaidTo
    <3> QED BY <1>2, <1>3, <2>1, <2>3, <3>1
  <2> QED BY <2>2, <2>3
<1> QED BY <1>2, <1>3, <1>4, <1>5

\* What the payees hold grows by the total of the batch.
LEMMA BatchIsPaid ==
  ASSUME Finite, NEW b \in SUBSET Items, NEW f, Natural(f, Others), NEW g,
         \A a \in Others : g[a] = f[a] + Share(b, a),
         \A i \in b : i.payout \in Others
  PROVE  SumOf(g, Others) = SumOf(f, Others) + Total(b)
<1> DEFINE G(s) == [a \in Others |-> f[a] + Share(s, a)]
           T == {s \in SUBSET b : SumOf(G(s), Others) = SumOf(f, Others) + Total(s)}
<1>1. IsFiniteSet(Items) /\ IsFiniteSet(Others) /\ IsFiniteSet(b)
  BY FS_Subset DEF Finite, Others
<1>2. ASSUME NEW s \in SUBSET b
      PROVE  /\ Natural(G(s), Others) /\ s \in SUBSET Items
             /\ \A a \in Others : G(s)[a] = f[a] + Share(s, a)
  BY <1>1, Shares DEF Natural
<1>3. SumOf(f, Others) \in Nat BY <1>1, SumTakes
<1>4. {} \in T
  <2>1. \A a \in Others : Share({}, a) = 0 BY <1>1, Shares
  <2>2. \A a \in Others : f[a] \in Nat BY DEF Natural
  <2>3. \A a \in Others : G({})[a] = f[a] BY <1>2, <2>1, <2>2
  <2>4. SumOf(f, Others) = SumOf(G({}), Others) BY <1>1, <2>3, SumSame
  <2>5. Total({}) = 0 BY <1>1, Amounts
  <2> QED BY <1>3, <2>4, <2>5
<1>5. ASSUME NEW s \in SUBSET b, s \in T, NEW i \in b \ s PROVE s \union {i} \in T
  <2>1. PICK t \in SUBSET b : t = s \union {i} OBVIOUS
  <2>2. PICK p \in Others : p = i.payout OBVIOUS
  <2>3. ASSUME NEW a \in Others
        PROVE  /\ Share(t, a) = Share(s, a) + (IF p = a THEN i.amount ELSE 0)
               /\ Share(s, a) \in Nat /\ f[a] \in Nat
    <3>1. s \in SUBSET Items /\ i \in Items \ s OBVIOUS
    <3> QED BY <1>1, <2>1, <2>2, <3>1, Shares DEF Natural
  <2>4. i.amount \in Nat BY EscrowAssumption DEF EscrowAssumption
  <2>5. PICK u, v : u = G(s) /\ v = G(t) OBVIOUS
  <2>6. /\ Natural(u, Others) /\ Natural(v, Others)
        /\ \A a \in Others \ {p} : v[a] = u[a]
        /\ v[p] = u[p] + i.amount /\ u[p] \in Nat
    <3>1. Natural(u, Others) /\ Natural(v, Others) BY <1>2, <2>5
    <3>2. \A a \in Others : u[a] = f[a] + Share(s, a) /\ v[a] = f[a] + Share(t, a)
      BY <1>2, <2>5
    <3> QED BY <2>3, <2>4, <3>1, <3>2 DEF Natural
  <2>7. SumOf(v, Others) = SumOf(u, Others) + v[p] - u[p] BY <1>1, <2>6, SumMoves
  <2>8. SumOf(u, Others) = SumOf(f, Others) + Total(s) BY <1>5, <2>5
  <2>9. Total(t) = Total(s) + i.amount /\ Total(s) \in Nat
    <3>1. s \in SUBSET Items /\ i \in Items \ s OBVIOUS
    <3> QED BY <1>1, <2>1, <3>1, Amounts
  <2>10. SumOf(v, Others) = SumOf(f, Others) + Total(t)
    BY <1>3, <2>4, <2>6, <2>7, <2>8, <2>9
  <2> QED BY <2>1, <2>5, <2>10
<1> HIDE DEF T
<1>6. b \in T BY <1>1, <1>4, <1>5, OneByOne
<1>7. SumOf(G(b), Others) = SumOf(f, Others) + Total(b) BY <1>6 DEF T
<1>8. SumOf(G(b), Others) = SumOf(g, Others)
  <2>1. Natural(G(b), Others) /\ \A a \in Others : g[a] = G(b)[a] BY <1>2
  <2> QED BY <1>1, <2>1, SumSame
<1> QED BY <1>7, <1>8

\* The invariant: the books of payments and the balances of the payees agree.
Settled == UNION {result[k] : k \in Settlements}
Holds   == SumOf(bal, Others)

Audited == /\ TypeOK /\ Sound /\ Registered
           /\ spent = Total(Settled) /\ spent = Holds

LEMMA InitAudited ==
  ASSUME Finite, Init
  PROVE  Audited
<1>1. Sound /\ Registered BY InitSound, InitRegistered
<1>2. TypeOK
  <2>1. bal \in [Accounts -> Nat]
    BY EscrowAssumption DEF EscrowAssumption, Init
  <2> QED BY <2>1, EscrowAssumption DEF EscrowAssumption, Init, TypeOK
<1>3. spent = Total(Settled)
  <2>1. Settled = {} BY DEF Init, Settled
  <2>2. Total({}) = 0 BY Amounts DEF Finite
  <2> QED BY <2>1, <2>2 DEF Init
<1>4. spent = Holds
  <2>1. IsFiniteSet(Others) BY FS_Subset DEF Finite, Others
  <2>2. \A a \in Others : bal[a] = 0
    BY EscrowAssumption DEF EscrowAssumption, Init, Others, Accounts
  <2>3. SumOf(bal, Others) = 0 BY <2>1, <2>2, SumZero
  <2> QED BY <2>3 DEF Init, Holds
<1> QED BY <1>1, <1>2, <1>3, <1>4 DEF Audited

\* A step that pays nobody but the buyer, and settles nothing.
LEMMA HoldsStays ==
  ASSUME Finite, Audited, UNCHANGED books, \A a \in Others : bal'[a] = bal[a]
  PROVE  spent' = Total(Settled)' /\ spent' = Holds'
<1>1. spent' = spent /\ Settled' = Settled BY DEF books, Settled
<1>2. Total(Settled)' = Total(Settled) BY <1>1
<1>3. SumOf(bal, Others) = SumOf(bal', Others)
  <2>1. IsFiniteSet(Others) BY FS_Subset DEF Finite, Others
  <2>2. Natural(bal, Others)
    BY DEF Natural, Audited, TypeOK, Others, Accounts
  <2> QED BY <2>1, <2>2, SumSame
<1> QED BY <1>1, <1>2, <1>3 DEF Audited, Holds

LEMMA PayBuyer ==
  ASSUME TypeOK, NEW n \in Nat, n <= bal[Escrow], Pay(Buyer, n)
  PROVE  /\ bal' \in [Accounts -> Nat]
         /\ \A a \in Others : bal'[a] = bal[a]
<1>1. /\ bal \in [Accounts -> Nat] /\ Buyer \in Accounts /\ Escrow \in Accounts
      /\ Buyer # Escrow /\ Others \subseteq Accounts
      /\ \A a \in Others : a # Buyer /\ a # Escrow
  BY Places, EscrowAssumption DEF EscrowAssumption, TypeOK, Others, Accounts
<1>2. bal' = [bal EXCEPT ![Escrow] = @ - n, ![Buyer] = @ + n] BY DEF Pay
<1>3. bal[Escrow] - n \in Nat /\ bal[Buyer] + n \in Nat BY <1>1
<1> QED BY <1>1, <1>2, <1>3

\* The three exits and the recovery.
LEMMA ExitAudits ==
  ASSUME Finite, Audited,
         \/ CloseAndRefund \/ RecoverExcess \/ \E c \in Callers : CancelUnactivated(c)
  PROVE  /\ TypeOK' /\ spent' = Total(Settled)' /\ spent' = Holds'
         /\ \A a \in Others : bal'[a] = bal[a]
<1>1. bal[Escrow] \in Nat /\ Pay(Buyer, bal[Escrow]) /\ UNCHANGED <<books, world>>
      /\ state' \in {"Closed", state}
  BY Places DEF CloseAndRefund, RecoverExcess, CancelUnactivated, Audited, TypeOK
<1>2. /\ bal' \in [Accounts -> Nat] /\ \A a \in Others : bal'[a] = bal[a]
  BY <1>1, PayBuyer DEF Audited
<1>3. refund' \in [budget : Nat, excess : Nat]
  <2>1. accountedBalance \in Nat BY Remaining DEF Audited
  <2>2. CASE CloseAndRefund
    <3>1. /\ refund' = [budget |-> accountedBalance,
                        excess |-> bal[Escrow] - accountedBalance]
          /\ bal[Escrow] >= accountedBalance
      BY <2>2 DEF CloseAndRefund
    <3>2. bal[Escrow] - accountedBalance \in Nat BY <1>1, <2>1, <3>1
    <3> QED BY <2>1, <3>1, <3>2
  <2>3. CASE RecoverExcess BY <2>3 DEF RecoverExcess, Audited, TypeOK
  <2>4. CASE \E c \in Callers : CancelUnactivated(c)
    <3>1. refund' = [refund EXCEPT !.budget = bal[Escrow]]
      BY <2>4 DEF CancelUnactivated
    <3>2. refund \in [budget : Nat, excess : Nat] BY DEF Audited, TypeOK
    <3> QED BY <1>1, <3>1, <3>2
  <2> QED BY <2>2, <2>3, <2>4
<1>4. TypeOK' BY <1>1, <1>2, <1>3 DEF Audited, TypeOK, books, world
<1> QED BY <1>1, <1>2, <1>4, HoldsStays

LEMMA BatchAudits ==
  ASSUME Finite, Audited, NEW c \in Callers, NEW k \in Settlements, NEW b \in Batches,
         NEW t, NEW d, SettleBatch(c, k, b, t, d)
  PROVE  /\ TypeOK' /\ spent' = Total(Settled)' /\ spent' = Holds'
         /\ \A a \in Others : bal'[a] # bal[a] =>
              /\ roles[a] = {}
              /\ \E s \in Sources : listing[s].active /\ listing[s].payout = a
<1>1. /\ b \in SUBSET Items /\ \A i \in b : Listed(i)
      /\ Total(b) <= bal[Escrow] /\ result[k] = {} /\ \A i \in b : i.request \notin done
      /\ spent' = spent + Total(b) /\ result' = [result EXCEPT ![k] = b]
      /\ done' = done \union {i.request : i \in b}
      /\ bal' = [a \in Accounts |-> IF a = Escrow THEN bal[a] - Total(b)
                                    ELSE bal[a] + Share(b, a)]
      /\ UNCHANGED <<state, refund, world>>
  BY DEF SettleBatch, Batches, Fresh
<1>2. /\ bal \in [Accounts -> Nat] /\ result \in [Settlements -> SUBSET Items]
      /\ done \subseteq Requests /\ spent \in Nat
  BY DEF Audited, TypeOK
<1>3. IsFiniteSet(Items) /\ IsFiniteSet(Others) /\ IsFiniteSet(b)
  BY <1>1, FS_Subset DEF Finite, Others
<1>4. Total(b) \in Nat /\ \A a : Share(b, a) \in Nat BY <1>1, <1>3, Amounts, Shares
<1>5. bal' \in [Accounts -> Nat]
  <2>1. bal[Escrow] - Total(b) \in Nat BY <1>1, <1>2, <1>4, Places
  <2>2. \A a \in Accounts : bal[a] + Share(b, a) \in Nat BY <1>2, <1>4
  <2> QED BY <1>1, <2>1, <2>2
<1>6. TypeOK'
  <2>1. result' \in [Settlements -> SUBSET Items] BY <1>1, <1>2
  <2>2. done' \subseteq Requests BY <1>1, <1>2 DEF Requests
  <2>3. spent' \in Nat BY <1>1, <1>2, <1>4
  <2> QED BY <1>1, <1>5, <2>1, <2>2, <2>3 DEF Audited, TypeOK, world
<1>7. \A a \in Others : bal'[a] = bal[a] + Share(b, a)
  BY <1>1, EscrowAssumption DEF EscrowAssumption, Others, Accounts
<1>8. ASSUME NEW i \in b
      PROVE  /\ i.payout \in Others /\ roles[i.payout] = {}
             /\ \E s \in Sources : listing[s].active /\ listing[s].payout = i.payout
  <2>1. i \in Items /\ i.source \in Sources /\ i.payout \in People
    BY <1>1, EscrowAssumption DEF EscrowAssumption
  <2>2. Listed(i) BY <1>1
  <2> QED BY <2>1, <2>2 DEF Listed, Others
<1>9. spent' = Total(Settled)'
  <2>1. Settled \in SUBSET Items BY <1>2 DEF Settled
  <2>2. Settled' = Settled \union b
    <3>1. /\ DOMAIN result = Settlements /\ DOMAIN result' = Settlements /\ result'[k] = b
          /\ \A l \in Settlements \ {k} : result'[l] = result[l]
      BY <1>1, <1>2
    <3>2. ASSUME NEW i PROVE i \in Settled' <=> i \in Settled \union b
      <4>1. i \in Settled' <=> \E l \in Settlements : i \in result'[l] BY DEF Settled
      <4>2. i \in Settled <=> \E l \in Settlements : i \in result[l] BY DEF Settled
      <4> QED BY <1>1, <3>1, <4>1, <4>2
    <3> QED BY <3>2
  <2>3. Settled \intersect b = {}
    BY <1>1 DEF Settled, Audited, Registered
  <2>4. IsFiniteSet(Settled) /\ Natural(AmountOf, Settled \union b)
    <3>1. Settled \union b \in SUBSET Items BY <1>1, <2>1
    <3> QED BY <1>3, <2>1, <3>1, Amounts
  <2>5. SumOf(AmountOf, Settled \union b) = SumOf(AmountOf, Settled) + SumOf(AmountOf, b)
    BY <1>3, <2>3, <2>4, SumUnion
  <2>6. Total(Settled \union b) = Total(Settled) + Total(b)
    <3>1. Settled \union b \in SUBSET Items BY <1>1, <2>1
    <3> QED BY <1>1, <2>1, <2>5, <3>1, TotalIsSum
  <2>7. Total(Settled)' = Total(Settled \union b) BY <2>2
  <2> QED BY <1>1, <2>6, <2>7 DEF Audited
<1>10. spent' = Holds'
  <2>1. Natural(bal, Others) BY <1>2 DEF Natural, Others, Accounts
  <2>2. PICK f, g : f = bal /\ g = bal' OBVIOUS
  <2>3. SumOf(g, Others) = SumOf(f, Others) + Total(b)
    <3>1. Natural(f, Others) /\ \A a \in Others : g[a] = f[a] + Share(b, a)
      BY <1>7, <2>1, <2>2
    <3>2. \A i \in b : i.payout \in Others BY <1>8
    <3> QED BY <1>1, <3>1, <3>2, BatchIsPaid
  <2> QED BY <1>1, <2>2, <2>3 DEF Audited, Holds
<1>11. ASSUME NEW a \in Others, bal'[a] # bal[a] PROVE \E i \in b : i.payout = a
  <2>1. bal[a] \in Nat BY <1>2 DEF Others, Accounts
  <2>2. Share(b, a) # 0 BY <1>7, <1>11, <2>1
  <2> QED BY <1>1, <1>3, <2>2, Shares
<1> QED BY <1>6, <1>8, <1>9, <1>10, <1>11

\* Everything else, donations included, moves no money to a payee.
LEMMA OtherAudits ==
  ASSUME Finite, Audited, (\E d \in Times : Activate(d)) \/ Outside \/ UNCHANGED vars
  PROVE  /\ TypeOK' /\ spent' = Total(Settled)' /\ spent' = Holds'
         /\ \A a \in Others : bal'[a] = bal[a]
<1> USE DEF Audited
<1>1. bal' \in [Accounts -> Nat] /\ \A a \in Others : bal'[a] = bal[a]
  <2>1. bal \in [Accounts -> Nat] /\ Escrow \in Accounts /\ Escrow \notin Others
    BY Places, EscrowAssumption DEF TypeOK, EscrowAssumption, Others
  <2>2. bal' = bal \/ bal' = [bal EXCEPT ![Escrow] = @ + 1]
    BY DEF Activate, Outside, Tick, Give, Govern, UpdateSource, vars
  <2>3. Others \subseteq Accounts BY DEF Others, Accounts
  <2> QED BY <2>1, <2>2, <2>3
<1>2. UNCHANGED books
  BY DEF Activate, Outside, Tick, Give, Govern, UpdateSource, vars, books
<1>3. TypeOK'
  <2>1. CASE (\E d \in Times : Activate(d)) \/ UNCHANGED vars
    BY <2>1 DEF TypeOK, Activate, vars, books, world
  <2>2. CASE Tick \/ Give
    BY <1>1, <2>2 DEF TypeOK, Tick, Give, books
  <2>3. CASE Govern
    <3>1. roles' \in [People -> SUBSET Roles]
      <4>1. CASE \E x \in Grants :
              roles' = [roles EXCEPT ![x[1]] =
                          IF x[2] \in @ THEN @ \ {x[2]} ELSE @ \union {x[2]}]
        <5>1. PICK x \in Grants :
              roles' = [roles EXCEPT ![x[1]] =
                          IF x[2] \in @ THEN @ \ {x[2]} ELSE @ \union {x[2]}]
          BY <4>1
        <5>2. x[1] \in People /\ x[2] \in Roles BY EscrowAssumption DEF EscrowAssumption
        <5> QED BY <5>1, <5>2 DEF TypeOK
      <4> QED BY <2>3, <4>1 DEF Govern, TypeOK
    <3> QED BY <2>3, <3>1 DEF TypeOK, Govern, books
  <2>4. CASE \E s \in Sources, l \in Listings : UpdateSource(s, l)
    <3>1. PICK s \in Sources, l \in Listings : UpdateSource(s, l) BY <2>4
    <3>2. l.payout \in People /\ l.max \in Nat /\ l.active \in BOOLEAN
      BY EscrowAssumption DEF EscrowAssumption
    <3>3. listing[s] \in [revision : Nat, payout : People, max : Nat, active : BOOLEAN]
      BY DEF TypeOK
    <3>4. PICK y : y = [revision |-> listing[s].revision + 1, payout |-> l.payout,
                        max |-> l.max, active |-> l.active]
      OBVIOUS
    <3>5. y \in [revision : Nat, payout : People, max : Nat, active : BOOLEAN]
      BY <3>2, <3>3, <3>4
    <3>6. listing' = [listing EXCEPT ![s] = y]
      BY <3>1, <3>4 DEF UpdateSource, TypeOK
    <3>7. listing' \in [Sources -> [revision : Nat, payout : People, max : Nat,
                                    active : BOOLEAN]]
      BY <3>5, <3>6 DEF TypeOK
    <3> QED BY <3>1, <3>7 DEF TypeOK, UpdateSource, books
  <2> QED BY <2>1, <2>2, <2>3, <2>4 DEF Outside
<1> QED BY <1>1, <1>2, <1>3, HoldsStays

ToListed == \A p \in People \ {Buyer} : bal'[p] # bal[p]
              => roles[p] = {} /\ \E s \in Sources : listing[s].active
                                                     /\ listing[s].payout = p

LEMMA NextAudited ==
  ASSUME Finite, Audited, PaidOnce, [Next]_vars
  PROVE  Audited' /\ PaidOnce' /\ ToListed
<1>1. Sound' BY NextSound DEF Audited
<1>2. Registered' /\ PaidOnce' BY NextRegistered DEF Audited
<1>3. TypeOK' /\ spent' = Total(Settled)' /\ spent' = Holds' /\ ToListed
  <2>1. CASE \/ CloseAndRefund \/ RecoverExcess
             \/ \E c \in Callers : CancelUnactivated(c)
    BY <2>1, ExitAudits DEF ToListed, Others
  <2>2. CASE (\E d \in Times : Activate(d)) \/ Outside \/ UNCHANGED vars
    BY <2>2, OtherAudits DEF ToListed, Others
  <2>3. ASSUME NEW c \in Callers, NEW t \in Times, NEW d \in Times,
               NEW k \in Settlements, NEW b \in Batches, SettleBatch(c, k, b, t, d)
        PROVE  TypeOK' /\ spent' = Total(Settled)' /\ spent' = Holds' /\ ToListed
    BY <2>3, BatchAudits DEF ToListed, Others
  <2>4. RefundExpired => CloseAndRefund BY DEF RefundExpired
  <2>5. (\E c \in Callers, t, d \in Times, paid \in Certificates : Close(c, paid, t, d))
        => CloseAndRefund
    BY DEF Close
  <2> QED BY <2>1, <2>2, <2>3, <2>4, <2>5 DEF Next, Transaction
<1> QED BY <1>1, <1>2, <1>3 DEF Audited

LEMMA AuditedAlways ==
  ASSUME Finite
  PROVE  Spec => [](Audited /\ PaidOnce)
<1>1. Init => Audited /\ PaidOnce BY InitAudited, InitRegistered
<1>2. Audited /\ PaidOnce /\ [Next]_vars => Audited' /\ PaidOnce' BY NextAudited
<1> QED BY <1>1, <1>2, PTL DEF Spec

\* Every variable keeps its type: no balance, no refund and no total is ever negative,
\* so that the unsigned arithmetic of the contract never wraps or reverts on its own.
THEOREM EscrowIsTyped ==
  ASSUME Finite
  PROVE  Spec => []TypeOK
<1>1. Audited => TypeOK BY DEF Audited
<1> QED BY <1>1, AuditedAlways, PTL

\* The spent counter, the results kept per settlement key and the balances of the payees
\* always agree: settleBatch counts what it transfers and transfers what it records.
THEOREM WhatIsSpentIsPaid ==
  ASSUME Finite
  PROVE  Spec => []SpentIsPaid
<1>1. Audited => SpentIsPaid
  <2>1. MapThenSumSet(LAMBDA a : bal[a], Others) = SumOf(bal, Others) BY PaidIsSum
  <2> QED BY <2>1 DEF Audited, SpentIsPaid, Settled, Holds, Others
<1> QED BY <1>1, AuditedAlways, PTL

\* Money leaves the escrow only to the buyer or to the payout an active source lists at
\* that moment, and never to an address with a project role (_validateSettlementItems).
THEOREM PayeesAreListed ==
  ASSUME Finite
  PROVE  Spec => MoneyGoesToListed
<1>1. Audited /\ PaidOnce /\ [Next]_vars => [ToListed]_vars BY NextAudited
<1> QED BY <1>1, AuditedAlways, PTL DEF Spec, MoneyGoesToListed, ToListed
=============================================================================
