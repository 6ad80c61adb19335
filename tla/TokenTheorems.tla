---------------------------- MODULE TokenTheorems ----------------------------
(***************************************************************************)
(* What a token transfer preserves: lemmas about the operators of Token.   *)
(***************************************************************************)
EXTENDS Token, FiniteSetTheorems, TLAPS

(* The units held at one address are as many as its balance.               *)
LEMMA UnitsAtCount ==
  ASSUME NEW a, NEW n \in Nat
  PROVE  /\ IsFiniteSet({a} \X (1..n))
         /\ Cardinality({a} \X (1..n)) = n
<1>1. IsFiniteSet({a}) /\ Cardinality({a}) = 1
  BY FS_Singleton
<1>2. IsFiniteSet(1..n) /\ Cardinality(1..n) = n
  BY FS_Interval
<1>3. /\ IsFiniteSet({a} \X (1..n))
      /\ Cardinality({a} \X (1..n)) = Cardinality({a}) * Cardinality(1..n)
  BY <1>1, <1>2, FS_Product
<1>4. QED
  BY <1>1, <1>2, <1>3

(* A ledger over finitely many addresses has finitely many units.          *)
LEMMA UnitsFinite ==
  ASSUME NEW A, IsFiniteSet(A), NEW f \in [A -> Nat]
  PROVE  IsFiniteSet(Units(f)) /\ Total(f) \in Nat
<1> DEFINE At == {UnitsAt(f, a) : a \in A}
           s == [a \in A |-> UnitsAt(f, a)]
<1>1. s \in Surjection(A, At)
  BY DEF Surjection
<1>2. IsFiniteSet(At)
  BY <1>1, FS_Surjection
<1>3. ASSUME NEW T \in At PROVE IsFiniteSet(T)
  <2>1. PICK a \in A : T = {a} \X (1..f[a])
    BY <1>3 DEF UnitsAt
  <2>2. f[a] \in Nat
    OBVIOUS
  <2>3. QED
    BY <2>1, <2>2, UnitsAtCount
<1>4. IsFiniteSet(UNION At)
  BY <1>2, <1>3, FS_UNION
<1>5. Units(f) = UNION At
  BY DEF Units
<1>6. QED
  BY <1>4, <1>5, FS_CardinalityType DEF Total

(* Setting one balance changes the total by the difference.                *)
LEMMA TotalUpdate ==
  ASSUME NEW A, IsFiniteSet(A), NEW f \in [A -> Nat], NEW a \in A, NEW v \in Nat
  PROVE  Total([f EXCEPT ![a] = v]) = Total(f) - f[a] + v
<1> DEFINE g == [f EXCEPT ![a] = v]
           Old == {a} \X (1..f[a])
           New == {a} \X (1..v)
           Rest == Units(f) \ Old
<1>1. g \in [A -> Nat] /\ f[a] \in Nat
  OBVIOUS
<1>2. IsFiniteSet(Units(f))
  BY UnitsFinite
<1>3. Units(f) \cap Old = Old
  BY DEF Units, UnitsAt
<1>4. IsFiniteSet(Old) /\ Cardinality(Old) = f[a]
  BY <1>1, UnitsAtCount
<1>5. IsFiniteSet(New) /\ Cardinality(New) = v
  BY UnitsAtCount
<1>6. IsFiniteSet(Rest) /\ Cardinality(Rest) = Cardinality(Units(f)) - f[a]
  <2> HIDE DEF Old
  <2>1. /\ IsFiniteSet(Units(f) \ Old)
        /\ Cardinality(Units(f) \ Old)
             = Cardinality(Units(f)) - Cardinality(Units(f) \cap Old)
    BY <1>2, <1>4, FS_Difference
  <2>2. QED
    BY <2>1, <1>3, <1>4
<1>7. Rest \cap New = {}
  BY <1>1 DEF Units, UnitsAt
<1>8. Units(g) = Rest \cup New
  <2>1. ASSUME NEW u \in Units(g) PROVE u \in Rest \cup New
    BY <2>1, <1>1 DEF Units, UnitsAt
  <2>2. ASSUME NEW u \in Rest PROVE u \in Units(g)
    <3>1. PICK b \in A : u \in {b} \X (1..f[b])
      BY <2>2 DEF Units, UnitsAt
    <3>2. b # a
      BY <2>2, <3>1
    <3>3. g[b] = f[b]
      BY <3>2
    <3>4. QED
      BY <3>1, <3>3, <1>1 DEF Units, UnitsAt
  <2>3. ASSUME NEW u \in New PROVE u \in Units(g)
    BY <2>3, <1>1 DEF Units, UnitsAt
  <2>4. QED
    BY <2>1, <2>2, <2>3
<1>9. Cardinality(Rest \cup New) = Cardinality(Rest) + Cardinality(New) - Cardinality({})
  BY <1>5, <1>6, <1>7, FS_Union
<1>10. Cardinality({}) = 0 /\ Cardinality(Units(f)) \in Nat
  BY <1>2, FS_EmptySet, FS_CardinalityType
<1>11. QED
  <2>1. Total(g) = Cardinality(Rest \cup New) /\ Total(f) = Cardinality(Units(f))
    BY <1>8 DEF Total
  <2> HIDE DEF g, Old, New, Rest
  <2>2. Total(g) = Total(f) - f[a] + v
    BY <2>1, <1>1, <1>5, <1>6, <1>9, <1>10
  <2>3. QED
    BY <2>2 DEF g

(* A transfer that the token accepts keeps every balance a natural number  *)
(* and neither creates nor destroys a unit.                                *)
THEOREM TransferConserves ==
  ASSUME NEW A, IsFiniteSet(A), NEW f \in [A -> Nat],
         NEW from \in A, NEW to \in A, NEW amount \in Int,
         CanTransfer(f, from, amount)
  PROVE  /\ Transfer(f, from, to, amount) \in [A -> Nat]
         /\ Total(Transfer(f, from, to, amount)) = Total(f)
<1> DEFINE debit == [f EXCEPT ![from] = f[from] - amount]
<1>1. f[from] \in Nat /\ amount \in Nat /\ amount <= f[from]
  BY DEF CanTransfer
<1>2. debit \in [A -> Nat]
  BY <1>1
<1>3. debit[to] \in Nat
  BY <1>2
<1>4. Transfer(f, from, to, amount) = [debit EXCEPT ![to] = debit[to] + amount]
  BY DEF Transfer
<1>5. Total(debit) = Total(f) - f[from] + (f[from] - amount)
  <2> DEFINE left == f[from] - amount
  <2>1. left \in Nat
    BY <1>1
  <2> HIDE DEF left
  <2>2. Total([f EXCEPT ![from] = left]) = Total(f) - f[from] + left
    BY <2>1, TotalUpdate
  <2>3. QED
    BY <2>2 DEF left
<1>6. Total([debit EXCEPT ![to] = debit[to] + amount])
        = Total(debit) - debit[to] + (debit[to] + amount)
  <2> DEFINE credited == debit[to] + amount
  <2>1. credited \in Nat
    BY <1>1, <1>3
  <2> HIDE DEF debit, credited
  <2>2. Total([debit EXCEPT ![to] = credited]) = Total(debit) - debit[to] + credited
    BY <1>2, <2>1, TotalUpdate
  <2>3. QED
    BY <2>2 DEF credited
<1>7. Total(f) \in Nat /\ Total(debit) \in Nat
  BY <1>2, UnitsFinite
<1>8. [debit EXCEPT ![to] = debit[to] + amount] \in [A -> Nat]
  BY <1>1, <1>2, <1>3
<1>9. QED
  BY <1>1, <1>3, <1>4, <1>5, <1>6, <1>7, <1>8

(* A constant amount at each of finitely many addresses.                   *)
LEMMA TotalConstant ==
  ASSUME NEW A, NEW T \in SUBSET A, IsFiniteSet(T), NEW r \in Nat
  PROVE  /\ Total([a \in A |-> IF a \in T THEN r ELSE 0]) = Cardinality(T) * r
         /\ IsFiniteSet(Units([a \in A |-> IF a \in T THEN r ELSE 0]))
<1> DEFINE f == [a \in A |-> IF a \in T THEN r ELSE 0]
<1>1. Units(f) = T \X (1..r)
  <2>1. ASSUME NEW u \in Units(f) PROVE u \in T \X (1..r)
    <3>1. PICK a \in A : u \in {a} \X (1..f[a])
      BY <2>1 DEF Units, UnitsAt
    <3>2. CASE a \in T
      BY <3>1, <3>2
    <3>3. CASE a \notin T
      BY <3>1, <3>3
    <3>4. QED
      BY <3>2, <3>3
  <2>2. ASSUME NEW u \in T \X (1..r) PROVE u \in Units(f)
    <3>1. u[1] \in A /\ f[u[1]] = r /\ u \in {u[1]} \X (1..r)
      BY <2>2
    <3>2. QED
      BY <3>1 DEF Units, UnitsAt
  <2>3. QED
    BY <2>1, <2>2
<1>2. IsFiniteSet(1..r) /\ Cardinality(1..r) = r
  BY FS_Interval
<1>3. IsFiniteSet(T \X (1..r)) /\ Cardinality(T \X (1..r)) = Cardinality(T) * Cardinality(1..r)
  BY <1>2, FS_Product
<1>4. QED
  BY <1>1, <1>2, <1>3 DEF Total

(* Ledgers that share no holder add up.                                    *)
LEMMA TotalDisjoint ==
  ASSUME NEW A, IsFiniteSet(A),
         NEW f \in [A -> Nat], NEW g \in [A -> Nat], NEW h \in [A -> Nat],
         \A a \in A : (f[a] = 0 /\ h[a] = g[a]) \/ (g[a] = 0 /\ h[a] = f[a])
  PROVE  Total(h) = Total(f) + Total(g)
<1>1. Units(h) = Units(f) \cup Units(g)
  <2>1. ASSUME NEW a \in A PROVE UnitsAt(h, a) = UnitsAt(f, a) \cup UnitsAt(g, a)
    <3>1. CASE f[a] = 0 /\ h[a] = g[a]
      BY <3>1 DEF UnitsAt
    <3>2. CASE g[a] = 0 /\ h[a] = f[a]
      BY <3>2 DEF UnitsAt
    <3>3. QED
      BY <3>1, <3>2
  <2>2. DOMAIN f = A /\ DOMAIN g = A /\ DOMAIN h = A
    OBVIOUS
  <2>3. QED
    BY <2>1, <2>2 DEF Units
<1>2. Units(f) \cap Units(g) = {}
  <2> SUFFICES ASSUME NEW u \in Units(f), u \in Units(g) PROVE FALSE
    OBVIOUS
  <2>1. PICK a \in A : u \in {a} \X (1..f[a])
    BY DEF Units, UnitsAt
  <2>2. PICK b \in A : u \in {b} \X (1..g[b])
    BY DEF Units, UnitsAt
  <2>3. a = b /\ f[a] # 0 /\ g[a] # 0
    BY <2>1, <2>2
  <2>4. QED
    BY <2>3
<1>3. /\ IsFiniteSet(Units(f)) /\ IsFiniteSet(Units(g))
      /\ Total(f) \in Nat /\ Total(g) \in Nat
  BY UnitsFinite
<1>4. /\ Cardinality(Units(f) \cup Units(g))
           = Cardinality(Units(f)) + Cardinality(Units(g)) - Cardinality({})
      /\ Cardinality({}) = 0
  BY <1>2, <1>3, FS_Union, FS_EmptySet
<1>5. QED
  BY <1>1, <1>3, <1>4 DEF Total

(* Raising finitely many empty balances to one amount.                     *)
LEMMA TotalRaised ==
  ASSUME NEW A, IsFiniteSet(A), NEW f \in [A -> Nat],
         NEW T \in SUBSET A, NEW r \in Nat, \A a \in T : f[a] = 0
  PROVE  Total([a \in A |-> IF a \in T THEN r ELSE f[a]]) = Total(f) + Cardinality(T) * r
<1> DEFINE g == [a \in A |-> IF a \in T THEN r ELSE 0]
           h == [a \in A |-> IF a \in T THEN r ELSE f[a]]
<1>1. IsFiniteSet(T)
  BY FS_Subset
<1>2. Total(g) = Cardinality(T) * r
  BY <1>1, TotalConstant
<1>3. g \in [A -> Nat] /\ h \in [A -> Nat]
  OBVIOUS
<1>4. \A a \in A : (f[a] = 0 /\ h[a] = g[a]) \/ (g[a] = 0 /\ h[a] = f[a])
  OBVIOUS
<1> HIDE DEF g, h
<1>5. Total(h) = Total(f) + Total(g)
  BY <1>3, <1>4, TotalDisjoint
<1>6. QED
  BY <1>2, <1>5 DEF h

(* A ledger that holds no more anywhere holds no more in all.              *)
LEMMA TotalMonotone ==
  ASSUME NEW A, IsFiniteSet(A), NEW f \in [A -> Nat], NEW g \in [A -> Nat],
         \A a \in A : f[a] <= g[a]
  PROVE  Total(f) <= Total(g)
<1>1. ASSUME NEW a \in A PROVE UnitsAt(f, a) \subseteq UnitsAt(g, a)
  <2>1. f[a] \in Nat /\ g[a] \in Nat /\ f[a] <= g[a]
    OBVIOUS
  <2>2. 1..f[a] \subseteq 1..g[a]
    BY <2>1
  <2>3. QED
    BY <2>2 DEF UnitsAt
<1>2. Units(f) \subseteq Units(g)
  BY <1>1 DEF Units
<1>3. IsFiniteSet(Units(g))
  BY UnitsFinite
<1>4. QED
  BY <1>2, <1>3, FS_Subset DEF Total
==============================================================================
