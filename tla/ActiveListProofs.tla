-------------------------- MODULE ActiveListProofs --------------------------
(***************************************************************************)
(* Proofs about ActiveList, for any finite set of structs: ListInv, which  *)
(* names the list that the pointers spell, is inductive, so the list holds *)
(* the live sessions exactly, and a sweep visits each of them once.        *)
(***************************************************************************)
EXTENDS ActiveList, TLAPS, FiniteSetTheorems, WellFoundedInduction

\* A nonempty set of natural numbers has a least element.
LEMMA Least ==
  ASSUME NEW S, S \subseteq Nat, S # {}
  PROVE  \E p \in S : \A q \in S : p <= q
<1>1. \E p \in S : \A q \in S : ~(<<q, p>> \in OpToRel(<, Nat))
  BY NatLessThanWellFounded, WFMin
<1>2. PICK p \in S : \A q \in S : ~(<<q, p>> \in OpToRel(<, Nat))
  BY <1>1
<1>3. \A q \in S : ~(q < p)
  BY <1>2 DEF OpToRel
<1> QED
  BY <1>3

\* There are as many live sessions as places in the list.
LEMMA Counted ==
  ASSUME NEW n \in Nat, NEW q \in [1..n -> Slots],
         \A i, j \in 1..n : q[i] = q[j] => i = j
  PROVE  LET T == {q[i] : i \in 1..n} IN
         /\ IsFiniteSet(T) /\ Cardinality(T) = n
         /\ Cardinality(Slots) \in Nat /\ n <= Cardinality(Slots)
<1> DEFINE T == {q[i] : i \in 1..n}
<1>1. q \in Bijection(1..n, T)
  BY DEF Bijection, Injection, Surjection, IsInjective
<1>2. ExistsBijection(1..n, T)
  BY <1>1 DEF ExistsBijection
<1>3. Cardinality(T) = n
  BY <1>2, FS_CountingElements
<1>4. T \in SUBSET Slots
  OBVIOUS
<1>5. IsFiniteSet(Slots)
  BY SlotsAssumption
<1>6. IsFiniteSet(T) /\ Cardinality(T) <= Cardinality(Slots)
  BY <1>4, <1>5, FS_Subset
<1>7. Cardinality(Slots) \in Nat
  BY <1>5, FS_CardinalityType
<1> QED
  BY <1>3, <1>6, <1>7

-----------------------------------------------------------------------------
\* The pointers from the head spell the list, and then nothing.
LEMMA NthIs ==
  ASSUME count \in Nat, NEW q, IsList(q), Cardinality(Slots) \in Nat, count <= Cardinality(Slots)
  PROVE  \A n \in 0..Cardinality(Slots) : Nth[n] = IF n < count THEN q[n + 1] ELSE Null
<1> DEFINE C == Cardinality(Slots)
           At(n) == IF n < count THEN q[n + 1] ELSE Null
           F(g) == [n \in 0..C |-> IF n = 0 THEN head
                                   ELSE IF g[n - 1] = Null THEN Null ELSE next[g[n - 1]]]
           G == [n \in 0..C |-> At(n)]
<1>a. Null \notin Slots
  BY SlotsAssumption
<1>b. \A n \in 0..C : At(n) = IF n = 0 THEN head
                              ELSE IF At(n - 1) = Null THEN Null ELSE next[At(n - 1)]
  BY <1>a DEF IsList
<1>c. \A n \in 0..C : n # 0 => n - 1 \in 0..C
  OBVIOUS
<1>1. G = F(G)
  <2>1. \A n \in 0..C : G[n] = F(G)[n]
    BY <1>b, <1>c
  <2> QED
    BY <2>1
<1>2. \E g : g = F(g)
  BY <1>1
<1>3. Nth = F(Nth)
  BY <1>2 DEF Nth
<1>4. \A n \in 0..C : Nth[n] = IF n = 0 THEN head
                               ELSE IF Nth[n - 1] = Null THEN Null ELSE next[Nth[n - 1]]
  BY <1>3
<1> HIDE DEF F, G
<1> DEFINE Wrong == {n \in 0..C : Nth[n] # At(n)}
<1>5. SUFFICES ASSUME Wrong # {} PROVE FALSE
  OBVIOUS
<1>6. PICK n \in Wrong : \A m \in Wrong : n <= m
  <2>1. Wrong \subseteq Nat
    OBVIOUS
  <2> HIDE DEF Wrong
  <2> QED
    BY <1>5, <2>1, Least
<1>7. CASE n = 0
  BY <1>4, <1>6, <1>7, <1>b
<1>8. CASE n # 0
  <2>1. n - 1 \in 0..C /\ n - 1 \notin Wrong
    BY <1>6, <1>8
  <2>2. Nth[n - 1] = At(n - 1)
    BY <2>1
  <2> QED
    BY <1>4, <1>6, <1>8, <1>b, <2>2
<1> QED
  BY <1>7, <1>8

-----------------------------------------------------------------------------
\* What the steps do to the list.

\* The type invariant and ListExact follow.
LEMMA InvGivesExact == ListInv => ListExact
<1> SUFFICES ASSUME ListInv PROVE ListExact
  OBVIOUS
<1> DEFINE C == Cardinality(Slots)
<1>1. PICK q \in [1..count -> Slots] :
        IsList(q) /\ (walk # Null => \E k \in 1..count : SweepAt(q, k))
  BY DEF ListInv
<1>2. count \in Nat
  BY DEF ListInv
<1>a. Null \notin Slots
  BY SlotsAssumption
<1>b. live = {q[i] : i \in 1..count} /\ \A i, j \in 1..count : q[i] = q[j] => i = j
  BY <1>1 DEF IsList
<1>3. Cardinality(live) = count /\ C \in Nat /\ count <= C
  BY <1>1, <1>2, <1>b, Counted
<1>4. \A n \in 0..C : Nth[n] = IF n < count THEN q[n + 1] ELSE Null
  BY <1>1, <1>2, <1>3, NthIs
<1>5. TypeOK
  <2>1. head \in Pointer
    BY <1>1, <1>2 DEF IsList, Pointer
  <2>2. walk \in Pointer
    <3>1. CASE walk # Null
      <4>1. PICK k \in 1..count : walk = q[k]
        BY <1>1, <3>1 DEF SweepAt
      <4> QED
        BY <4>1 DEF Pointer
    <3> QED
      BY <3>1 DEF Pointer
  <2>3. live \subseteq Slots
    BY <1>b
  <2> QED
    BY <1>2, <1>3, <2>1, <2>2, <2>3 DEF TypeOK, ListInv
<1>6. {Nth[n] : n \in 0..C} \ {Null} = live
  <2>1. ASSUME NEW n \in 0..C, Nth[n] # Null PROVE Nth[n] \in live
    <3>1. n < count /\ Nth[n] = q[n + 1] /\ n + 1 \in 1..count
      BY <1>2, <1>4, <2>1
    <3> QED
      BY <1>b, <3>1
  <2>2. ASSUME NEW s \in live PROVE s # Null /\ \E n \in 0..C : Nth[n] = s
    <3>1. PICK i \in 1..count : s = q[i]
      BY <1>b
    <3>2. i - 1 \in 0..C /\ i - 1 < count /\ (i - 1) + 1 = i
      BY <1>2, <1>3
    <3>3. Nth[i - 1] = s
      BY <1>4, <3>1, <3>2
    <3> QED
      BY <1>a, <3>1, <3>2, <3>3
  <2> QED
    BY <2>1, <2>2
<1>7. Nth[Cardinality(live)] = Null /\ count = Cardinality(live)
  BY <1>2, <1>3, <1>4
<1>8. ASSUME NEW s \in live
      PROVE  (prev[s] = Null <=> s = head) /\ (next[s] # Null => prev[next[s]] = s)
  <2>1. PICK i \in 1..count : s = q[i]
    BY <1>b
  <2>2. count # 0 /\ head = q[1] /\ 1 \in 1..count
    BY <1>1, <1>2, <2>1 DEF IsList
  <2>3. prev[s] = IF i = 1 THEN Null ELSE q[i - 1]
    BY <1>1, <2>1 DEF IsList
  <2>4. next[s] = IF i = count THEN Null ELSE q[i + 1]
    BY <1>1, <2>1 DEF IsList
  <2>5. prev[s] = Null <=> s = head
    <3>1. i # 1 => i - 1 \in 1..count
      BY <1>2
    <3>2. q[i - 1] # Null \/ i = 1
      BY <1>1, <1>a, <3>1
    <3> QED
      BY <1>b, <2>1, <2>2, <2>3, <3>2
  <2>6. next[s] # Null => prev[next[s]] = s
    <3>1. SUFFICES ASSUME next[s] # Null PROVE prev[next[s]] = s
      OBVIOUS
    <3>2. next[s] = q[i + 1] /\ i + 1 \in 1..count /\ i + 1 # 1 /\ (i + 1) - 1 = i
      BY <1>2, <2>4, <3>1
    <3>3. prev[q[i + 1]] = q[i]
      BY <1>1, <3>2 DEF IsList
    <3> QED
      BY <2>1, <3>2, <3>3
  <2> QED
    BY <2>5, <2>6
<1>9. \A s \in Slots \ live : next[s] = Null /\ prev[s] = Null
  BY DEF ListInv
<1> QED
  BY <1>5, <1>6, <1>7, <1>8, <1>9 DEF ListExact

\* A session added at the head.
LEMMA AcceptKeeps == ASSUME ListInv, NEW s \in Slots, Accept(s) PROVE ListInv'
<1>1. PICK q \in [1..count -> Slots] : IsList(q)
  BY DEF ListInv
<1>2. count \in Nat /\ count' = count + 1 /\ walk' = Null /\ walk = Null
  BY DEF ListInv, Accept
<1>a. Null \notin Slots
  BY SlotsAssumption
<1>r. PICK r : r = [i \in 1..(count + 1) |-> IF i = 1 THEN s ELSE q[i - 1]]
  OBVIOUS
<1>3. /\ \A i \in 1..(count + 1) : i # 1 => i - 1 \in 1..count /\ r[i] = q[i - 1]
      /\ \A i \in 1..count : i + 1 \in 1..(count + 1) /\ r[i + 1] = q[i]
      /\ 1 \in 1..(count + 1) /\ r[1] = s
  BY <1>2, <1>r
<1>4. r \in [1..count' -> Slots]
  BY <1>1, <1>2, <1>3, <1>r
<1>5. s \notin live /\ \A i \in 1..count : q[i] # s
  BY <1>1 DEF Accept, IsList
<1>6. \A i, j \in 1..count' : r[i] = r[j] => i = j
  BY <1>1, <1>2, <1>3, <1>5 DEF IsList
<1>7. live' = {r[i] : i \in 1..count'}
  <2>1. live' = live \cup {s} /\ live = {q[i] : i \in 1..count}
    BY <1>1 DEF Accept, IsList
  <2>2. ASSUME NEW x \in live' PROVE \E i \in 1..count' : x = r[i]
    <3>1. CASE x = s
      BY <1>2, <1>3, <3>1
    <3>2. CASE x # s
      <4>1. PICK i \in 1..count : x = q[i]
        BY <2>1, <3>2
      <4> QED
        BY <1>2, <1>3, <4>1
    <3> QED
      BY <3>1, <3>2
  <2>3. ASSUME NEW i \in 1..count' PROVE r[i] \in live'
    <3>1. i = 1 \/ (i - 1 \in 1..count /\ r[i] = q[i - 1])
      BY <1>2, <1>3
    <3> QED
      BY <1>3, <2>1, <3>1
  <2> QED
    BY <2>2, <2>3
<1>8. head' = r[1] /\ count' # 0
  BY <1>2, <1>3 DEF Accept
<1>9. \A i \in 1..count' : next'[r[i]] = IF i = count' THEN Null ELSE r[i + 1]
  <2>1. next' = [next EXCEPT ![s] = head] /\ next \in [Slots -> Pointer]
    BY DEF Accept, ListInv
  <2>2. next'[s] = IF count' = 1 THEN Null ELSE r[2]
    BY <1>1, <1>2, <1>3, <2>1 DEF IsList
  <2>3. ASSUME NEW i \in 1..count PROVE next'[q[i]] = IF i + 1 = count' THEN Null ELSE r[(i + 1) + 1]
    <3>1. next'[q[i]] = next[q[i]]
      BY <1>1, <1>5, <2>1
    <3>2. next[q[i]] = IF i = count THEN Null ELSE q[i + 1]
      BY <1>1 DEF IsList
    <3>3. i = count \/ i + 1 \in 1..count
      BY <1>2
    <3> QED
      BY <1>2, <1>3, <3>1, <3>2, <3>3
  <2>4. ASSUME NEW i \in 1..count', i # 1
        PROVE  next'[r[i]] = IF i = count' THEN Null ELSE r[i + 1]
    <3>1. i - 1 \in 1..count /\ (i - 1) + 1 = i /\ r[i] = q[i - 1]
      BY <1>2, <1>3, <2>4
    <3> QED
      BY <2>3, <3>1
  <2>5. next'[r[1]] = IF 1 = count' THEN Null ELSE r[1 + 1]
    BY <1>3, <2>2
  <2> QED
    BY <2>4, <2>5
<1>10. \A i \in 1..count' : prev'[r[i]] = IF i = 1 THEN Null ELSE r[i - 1]
  <2>1. prev' = [Assign(prev, head, s) EXCEPT ![s] = Null] /\ prev \in [Slots -> Pointer]
    BY DEF Accept, ListInv
  <2>2. prev'[s] = Null
    BY <2>1 DEF Assign
  <2>3. ASSUME NEW i \in 1..count PROVE prev'[q[i]] = r[i]
    <3>1. prev'[q[i]] = Assign(prev, head, s)[q[i]]
      BY <1>1, <1>5, <2>1 DEF Assign
    <3>2. head = q[1] /\ 1 \in 1..count /\ head # Null
      BY <1>1, <1>2, <1>a DEF IsList
    <3>3. Assign(prev, head, s)[q[i]] = IF q[i] = q[1] THEN s ELSE prev[q[i]]
      BY <1>1, <2>1, <3>2 DEF Assign
    <3>4. q[i] = q[1] <=> i = 1
      BY <1>1, <3>2 DEF IsList
    <3>5. prev[q[i]] = IF i = 1 THEN Null ELSE q[i - 1]
      BY <1>1 DEF IsList
    <3>6. i # 1 => r[i] = q[i - 1]
      BY <1>2, <1>3
    <3> QED
      BY <1>3, <3>1, <3>3, <3>4, <3>5, <3>6
  <2>4. ASSUME NEW i \in 1..count', i # 1 PROVE prev'[r[i]] = r[i - 1]
    <3>1. i - 1 \in 1..count /\ r[i] = q[i - 1]
      BY <1>2, <1>3, <2>4
    <3> QED
      BY <2>3, <3>1
  <2> QED
    BY <1>3, <2>2, <2>4
<1>11. IsList(r)'
  BY <1>4, <1>6, <1>7, <1>8, <1>9, <1>10 DEF IsList
<1>12. \A x \in Slots \ live' : next'[x] = Null /\ prev'[x] = Null
  <2>1. ASSUME NEW x \in Slots \ live' PROVE next'[x] = Null /\ prev'[x] = Null
    <3>1. x # s /\ x \notin live /\ x # head
      BY <1>1, <1>2, <1>a DEF Accept, IsList
    <3>2. next[x] = Null /\ prev[x] = Null
      BY <3>1 DEF ListInv
    <3> QED
      BY <3>1, <3>2 DEF Accept, Assign, ListInv
  <2> QED
    BY <2>1
<1>13. /\ count' \in Nat /\ due' \subseteq Slots /\ visited' \in [Slots -> 0..2]
       /\ prev' \in [Slots -> Pointer] /\ next' \in [Slots -> Pointer]
  <2>1. head \in Pointer /\ Null \in Pointer /\ s \in Pointer
    BY <1>1, <1>2 DEF IsList, Pointer
  <2> QED
    BY <1>2, <2>1 DEF ListInv, Accept, Assign, Pointer
<1> QED
  BY <1>2, <1>4, <1>11, <1>12, <1>13 DEF ListInv

\* The list without its k-th struct.
Shortened(q, k) == [i \in 1..(count - 1) |-> IF i < k THEN q[i] ELSE q[i + 1]]

\* A session that leaves the list, wherever it stands.
LEMMA UnlinkKeeps ==
  ASSUME ListInv, NEW q \in [1..count -> Slots], IsList(q), NEW k \in 1..count, Unlink(q[k]),
         NEW r, r = Shortened(q, k)
  PROVE  /\ count' = count - 1 /\ count' \in Nat
         /\ r \in [1..count' -> Slots] /\ IsList(r)'
         /\ prev' \in [Slots -> Pointer] /\ next' \in [Slots -> Pointer]
         /\ \A x \in Slots \ live' : next'[x] = Null /\ prev'[x] = Null
<1> DEFINE s == q[k]
           p == prev[s]
           n == next[s]
<1>1. count \in Nat /\ count > 0 /\ count' = count - 1 /\ count' \in Nat
  BY DEF ListInv, Unlink
<1>a. Null \notin Slots /\ s \in Slots
  BY SlotsAssumption
<1>2. /\ \A i \in 1..count' : i < k => i \in 1..count /\ r[i] = q[i]
      /\ \A i \in 1..count' : i >= k => i + 1 \in 1..count /\ r[i] = q[i + 1]
  BY <1>1 DEF Shortened
<1>3. r \in [1..count' -> Slots]
  BY <1>1, <1>2 DEF Shortened
<1>4. \A i, j \in 1..count : q[i] = q[j] => i = j
  BY DEF IsList
<1>5. \A i, j \in 1..count' : r[i] = r[j] => i = j
  BY <1>1, <1>2, <1>4
<1>6. live' = {r[i] : i \in 1..count'}
  <2>1. live' = live \ {s} /\ live = {q[i] : i \in 1..count}
    BY DEF Unlink, IsList
  <2>2. ASSUME NEW x \in live' PROVE \E i \in 1..count' : x = r[i]
    <3>1. PICK i \in 1..count : x = q[i] /\ i # k
      BY <2>1
    <3>2. CASE i < k
      <4>1. i \in 1..count'
        BY <1>1, <3>2
      <4> QED
        BY <1>2, <3>1, <3>2, <4>1
    <3>3. CASE i > k
      <4>1. i - 1 \in 1..count' /\ i - 1 >= k /\ (i - 1) + 1 = i
        BY <1>1, <3>3
      <4> QED
        BY <1>2, <3>1, <4>1
    <3> QED
      BY <3>1, <3>2, <3>3
  <2>3. ASSUME NEW i \in 1..count' PROVE r[i] \in live'
    <3>1. \E j \in 1..count : r[i] = q[j] /\ j # k
      BY <1>1, <1>2
    <3> QED
      BY <1>4, <2>1, <3>1
  <2> QED
    BY <2>2, <2>3
<1>7. p = (IF k = 1 THEN Null ELSE q[k - 1]) /\ n = (IF k = count THEN Null ELSE q[k + 1])
  BY DEF IsList
<1>8. k # 1 => k - 1 \in 1..count
  BY <1>1
<1>9. k # count => k + 1 \in 1..count
  BY <1>1
<1>b. (p = Null <=> k = 1) /\ (n = Null <=> k = count)
  BY <1>7, <1>8, <1>9, <1>a
<1>10. head' = IF count' = 0 THEN Null ELSE r[1]
  <2>1. head' = IF k = 1 THEN n ELSE head
    BY <1>b DEF Unlink
  <2>2. head = q[1]
    BY <1>1 DEF IsList
  <2>3. CASE k = 1
    BY <1>1, <1>2, <1>7, <2>1, <2>3
  <2>4. CASE k # 1
    BY <1>1, <1>2, <2>1, <2>2, <2>4
  <2> QED
    BY <2>3, <2>4
<1>11. ASSUME NEW x \in Slots
       PROVE  /\ next'[x] = IF x = s THEN Null ELSE IF p # Null /\ x = p THEN n ELSE next[x]
              /\ prev'[x] = IF x = s THEN Null ELSE IF n # Null /\ x = n THEN p ELSE prev[x]
  BY <1>a DEF Unlink, Assign, ListInv
<1>12. ASSUME NEW i \in 1..count' PROVE next'[r[i]] = IF i = count' THEN Null ELSE r[i + 1]
  <2>1. CASE i < k
    <3>1. r[i] = q[i] /\ i \in 1..count /\ q[i] # s /\ i # count
      BY <1>1, <1>2, <1>4, <2>1
    <3>2. next[q[i]] = q[i + 1]
      BY <3>1 DEF IsList
    <3>3. CASE i = k - 1
      <4>1. p = q[i] /\ p # Null /\ k # 1
        BY <1>7, <1>a, <3>1, <3>3
      <4>2. next'[r[i]] = n
        BY <1>11, <3>1, <4>1
      <4>3. i = count' <=> k = count
        BY <1>1, <3>3
      <4>4. k # count => i + 1 \in 1..count' /\ r[i + 1] = q[(i + 1) + 1] /\ (i + 1) + 1 = k + 1
        BY <1>1, <1>2, <3>3
      <4> QED
        BY <1>7, <4>2, <4>3, <4>4
    <3>4. CASE i # k - 1
      <4>1. k # 1 => p = q[k - 1] /\ p # q[i]
        BY <1>4, <1>7, <1>8, <3>1, <3>4
      <4>2. next'[r[i]] = q[i + 1]
        BY <1>11, <1>b, <3>1, <3>2, <4>1
      <4>3. i + 1 \in 1..count' /\ i + 1 < k /\ i # count'
        BY <1>1, <2>1, <3>4
      <4> QED
        BY <1>2, <4>2, <4>3
    <3> QED
      BY <3>3, <3>4
  <2>2. CASE i >= k
    <3>1. r[i] = q[i + 1] /\ i + 1 \in 1..count /\ q[i + 1] # s
      BY <1>1, <1>2, <1>4, <2>2
    <3>2. p # q[i + 1]
      <4>1. CASE k = 1
        BY <1>7, <1>a, <3>1, <4>1
      <4>2. CASE k # 1
        BY <1>4, <1>7, <1>8, <2>2, <3>1, <4>2
      <4> QED
        BY <4>1, <4>2
    <3>3. next'[r[i]] = next[q[i + 1]]
      BY <1>11, <3>1, <3>2
    <3>4. next[q[i + 1]] = IF i + 1 = count THEN Null ELSE q[(i + 1) + 1]
      BY <3>1 DEF IsList
    <3>5. (i + 1 = count <=> i = count') /\ (i # count' => i + 1 \in 1..count' /\ i + 1 >= k)
      BY <1>1, <2>2
    <3> QED
      BY <1>2, <3>3, <3>4, <3>5
  <2> QED
    BY <1>1, <2>1, <2>2
<1>13. ASSUME NEW i \in 1..count' PROVE prev'[r[i]] = IF i = 1 THEN Null ELSE r[i - 1]
  <2>1. CASE i < k
    <3>1. r[i] = q[i] /\ i \in 1..count /\ q[i] # s
      BY <1>1, <1>2, <1>4, <2>1
    <3>2. n # q[i]
      <4>1. CASE k = count
        BY <1>7, <1>a, <3>1, <4>1
      <4>2. CASE k # count
        BY <1>4, <1>7, <1>9, <2>1, <3>1, <4>2
      <4> QED
        BY <4>1, <4>2
    <3>3. prev'[r[i]] = prev[q[i]]
      BY <1>11, <3>1, <3>2
    <3>4. prev[q[i]] = IF i = 1 THEN Null ELSE q[i - 1]
      BY <3>1 DEF IsList
    <3>5. i # 1 => i - 1 \in 1..count' /\ i - 1 < k
      BY <1>1, <2>1
    <3> QED
      BY <1>2, <3>3, <3>4, <3>5
  <2>2. CASE i = k
    <3>1. r[i] = q[i + 1] /\ i + 1 \in 1..count /\ q[i + 1] # s /\ k # count
      BY <1>1, <1>2, <1>4, <2>2
    <3>2. n = q[i + 1] /\ n # Null
      BY <1>7, <1>b, <2>2, <3>1
    <3>3. prev'[r[i]] = p
      BY <1>11, <3>1, <3>2
    <3>4. i # 1 => i - 1 \in 1..count' /\ i - 1 < k
      BY <1>1, <2>2
    <3> QED
      BY <1>2, <1>7, <2>2, <3>3, <3>4
  <2>3. CASE i > k
    <3>1. r[i] = q[i + 1] /\ i + 1 \in 1..count /\ q[i + 1] # s /\ k # count
      BY <1>1, <1>2, <1>4, <2>3
    <3>2. n = q[k + 1] /\ n # q[i + 1]
      BY <1>4, <1>7, <1>9, <2>3, <3>1
    <3>3. prev'[r[i]] = prev[q[i + 1]]
      BY <1>11, <3>1, <3>2
    <3>4. prev[q[i + 1]] = q[i]
      BY <1>1, <3>1 DEF IsList
    <3>5. i - 1 \in 1..count' /\ i - 1 >= k /\ (i - 1) + 1 = i /\ i # 1
      BY <1>1, <2>3
    <3> QED
      BY <1>2, <3>3, <3>4, <3>5
  <2> QED
    BY <1>1, <2>1, <2>2, <2>3
<1>14. IsList(r)'
  BY <1>3, <1>5, <1>6, <1>10, <1>12, <1>13 DEF IsList
<1>15. prev' \in [Slots -> Pointer] /\ next' \in [Slots -> Pointer]
  <2>1. p \in Pointer /\ n \in Pointer /\ Null \in Pointer
    BY <1>a DEF ListInv, Pointer
  <2> QED
    BY <1>a, <2>1 DEF Unlink, Assign, ListInv
<1>16. ASSUME NEW x \in Slots \ live' PROVE next'[x] = Null /\ prev'[x] = Null
  <2>1. CASE x = s
    BY <1>11, <2>1
  <2>2. CASE x # s
    <3>1. x \notin live
      BY <2>2 DEF Unlink
    <3>2. next[x] = Null /\ prev[x] = Null
      BY <3>1 DEF ListInv
    <3>3. (p # Null => p \in live) /\ (n # Null => n \in live)
      BY <1>7, <1>8, <1>9, <1>b DEF IsList
    <3> QED
      BY <1>11, <2>2, <3>1, <3>2, <3>3
  <2> QED
    BY <2>1, <2>2
<1> QED
  BY <1>1, <1>3, <1>14, <1>15, <1>16

\* A session that ends in a handler.
LEMMA DoneKeeps == ASSUME ListInv, NEW s \in Slots, Done(s) PROVE ListInv'
<1>1. PICK q \in [1..count -> Slots] : IsList(q)
  BY DEF ListInv
<1>2. PICK k \in 1..count : s = q[k]
  BY <1>1 DEF Done, IsList
<1>3. PICK r : r = Shortened(q, k)
  OBVIOUS
<1>4. Unlink(q[k]) /\ walk' = Null /\ due' \subseteq Slots /\ visited' \in [Slots -> 0..2]
  BY <1>2 DEF Done, ListInv
<1>5. /\ count' \in Nat /\ r \in [1..count' -> Slots] /\ IsList(r)'
      /\ prev' \in [Slots -> Pointer] /\ next' \in [Slots -> Pointer]
      /\ \A x \in Slots \ live' : next'[x] = Null /\ prev'[x] = Null
  BY <1>1, <1>3, <1>4, UnlinkKeeps
<1> QED
  BY <1>4, <1>5 DEF ListInv

\* Steps that do not touch the list.
LEMMA SameList ==
  ASSUME NEW q, IsList(q), UNCHANGED <<head, prev, next, count, live>>
  PROVE  IsList(q)'
  BY DEF IsList

\* The sweep begins at the head.
LEMMA SweepKeeps == ASSUME ListInv, Sweep PROVE ListInv'
<1>1. PICK q \in [1..count -> Slots] : IsList(q)
  BY DEF ListInv
<1>2. UNCHANGED <<head, prev, next, count, live>>
  BY DEF Sweep
<1>3. IsList(q)'
  BY <1>1, <1>2, SameList
<1>4. count \in Nat /\ count # 0 /\ head = q[1] /\ live = {q[i] : i \in 1..count}
  BY <1>1 DEF ListInv, IsList, Sweep
<1>5. 1 \in 1..count /\ walk' = q[1] /\ due' = {q[i] : i \in 1..count}
  BY <1>4 DEF Sweep
<1>6. visited' = [s \in Slots |-> IF s \in due' \ {q[i] : i \in 1..count'} THEN 1 ELSE 0]
  BY <1>2, <1>5 DEF Sweep
<1>7. SweepAt(q, 1)'
  BY <1>2, <1>5, <1>6 DEF SweepAt
<1>8. due' \subseteq Slots
  BY <1>1, <1>5
<1>9. visited' \in [Slots -> 0..2]
  BY DEF Sweep
<1> QED
  BY <1>2, <1>3, <1>5, <1>7, <1>8, <1>9 DEF ListInv

\* The visit to the k-th struct: the ones ahead are then those after it, and
\* what the sweep says of those behind it includes this one.
LEMMA VisitMarks ==
  ASSUME count \in Nat, NEW q \in [1..count -> Slots], due \subseteq Slots,
         \A i, j \in 1..count : q[i] = q[j] => i = j,
         NEW k \in 1..count, SweepAt(q, k), Visited
  PROVE  LET ahead == {q[i] : i \in (k + 1)..count} IN
         /\ ahead \subseteq due
         /\ visited' = [s \in Slots |-> IF s \in due \ ahead THEN 1 ELSE 0]
<1> DEFINE ahead == {q[i] : i \in (k + 1)..count}
           whole == {q[i] : i \in k..count}
<1>1. k \in k..count /\ \A i \in (k + 1)..count : i \in k..count /\ i # k /\ i \in 1..count
  OBVIOUS
<1>2. \A i \in k..count : i = k \/ i \in (k + 1)..count
  OBVIOUS
<1>3. whole = ahead \cup {q[k]} /\ q[k] \notin ahead
  BY <1>1, <1>2
<1> HIDE DEF ahead, whole
<1>4. walk = q[k] /\ whole \subseteq due
      /\ visited = [s \in Slots |-> IF s \in due \ whole THEN 1 ELSE 0]
  BY DEF SweepAt, whole
<1>5. q[k] \in Slots /\ q[k] \in due
  BY <1>3, <1>4
<1>6. visited' = [visited EXCEPT ![q[k]] = 1]
  BY <1>3, <1>4, <1>5 DEF Visited
<1>7. \A s \in Slots : visited'[s] = IF s \in due \ ahead THEN 1 ELSE 0
  BY <1>3, <1>4, <1>5, <1>6
<1>8. visited' = [s \in Slots |-> IF s \in due \ ahead THEN 1 ELSE 0]
  BY <1>4, <1>6, <1>7
<1> QED
  BY <1>3, <1>4, <1>8 DEF ahead

\* A session that the sweep leaves alone.
LEMMA KeepKeeps ==
  ASSUME ListInv, Keep
  PROVE  ListInv' /\ (walk' = Null => visited' = [s \in Slots |-> IF s \in due THEN 1 ELSE 0])
<1>1. PICK q \in [1..count -> Slots] : IsList(q) /\ \E k \in 1..count : SweepAt(q, k)
  BY DEF ListInv, Keep
<1>2. PICK k \in 1..count : SweepAt(q, k)
  BY <1>1
<1> DEFINE ahead == {q[i] : i \in (k + 1)..count}
<1>3. UNCHANGED <<head, prev, next, count, live, due>> /\ Visited /\ count \in Nat
  BY DEF Keep, ListInv
<1>4. IsList(q)'
  BY <1>1, <1>3, SameList
<1>5. ahead \subseteq due /\ visited' = [s \in Slots |-> IF s \in due \ ahead THEN 1 ELSE 0]
  <2>1. due \subseteq Slots /\ \A i, j \in 1..count : q[i] = q[j] => i = j
    BY <1>1 DEF ListInv, IsList
  <2> QED
    BY <1>2, <1>3, <2>1, VisitMarks
<1>6. walk' = IF k = count THEN Null ELSE q[k + 1]
  BY <1>1, <1>2 DEF Keep, Advance, SweepAt, IsList
<1>7. visited' \in [Slots -> 0..2]
  BY <1>5
<1>8. CASE k = count
  <2>1. ahead = {} /\ walk' = Null
    BY <1>3, <1>6, <1>8
  <2>2. ListInv'
    BY <1>3, <1>4, <1>7, <2>1 DEF ListInv
  <2> QED
    BY <1>5, <2>1, <2>2
<1>9. CASE k # count
  <2>1. walk' = q[k + 1] /\ k + 1 \in 1..count
    BY <1>3, <1>6, <1>9
  <2>2. SweepAt(q, k + 1)'
    BY <1>3, <1>5, <2>1 DEF SweepAt
  <2>3. ListInv'
    BY <1>3, <1>4, <1>7, <2>1, <2>2 DEF ListInv
  <2> QED
    BY <2>1, <2>3, SlotsAssumption
<1> QED
  BY <1>8, <1>9

\* A session that the sweep ends: its successor was read before.
LEMMA RemoveKeeps ==
  ASSUME ListInv, Remove
  PROVE  ListInv' /\ (walk' = Null => visited' = [s \in Slots |-> IF s \in due THEN 1 ELSE 0])
<1>1. PICK q \in [1..count -> Slots] : IsList(q) /\ \E k \in 1..count : SweepAt(q, k)
  BY DEF ListInv, Remove
<1>2. PICK k \in 1..count : SweepAt(q, k)
  BY <1>1
<1> DEFINE ahead == {q[i] : i \in (k + 1)..count}
<1>3. due' = due /\ Visited /\ count \in Nat /\ Unlink(q[k])
  BY <1>2 DEF Remove, ListInv, SweepAt
<1>4. PICK r : r = Shortened(q, k)
  OBVIOUS
<1>5. /\ count' = count - 1 /\ count' \in Nat /\ r \in [1..count' -> Slots] /\ IsList(r)'
      /\ prev' \in [Slots -> Pointer] /\ next' \in [Slots -> Pointer]
      /\ \A x \in Slots \ live' : next'[x] = Null /\ prev'[x] = Null
  BY <1>1, <1>3, <1>4, UnlinkKeeps
<1>6. ahead \subseteq due /\ visited' = [s \in Slots |-> IF s \in due \ ahead THEN 1 ELSE 0]
  <2>1. due \subseteq Slots /\ \A i, j \in 1..count : q[i] = q[j] => i = j
    BY <1>1 DEF ListInv, IsList
  <2> QED
    BY <1>2, <1>3, <2>1, VisitMarks
<1>7. walk' = IF k = count THEN Null ELSE q[k + 1]
  BY <1>1, <1>2 DEF Remove, Advance, SweepAt, IsList
<1>8. visited' \in [Slots -> 0..2] /\ due' \subseteq Slots
  BY <1>3, <1>6 DEF ListInv
<1>9. CASE k = count
  <2>1. ahead = {} /\ walk' = Null
    BY <1>3, <1>7, <1>9
  <2>2. ListInv'
    BY <1>5, <1>8, <2>1 DEF ListInv
  <2> QED
    BY <1>6, <2>1, <2>2
<1>10. CASE k # count
  <2>1. walk' = q[k + 1] /\ k + 1 \in 1..count /\ k \in 1..count' /\ r[k] = q[k + 1]
    BY <1>3, <1>4, <1>5, <1>7, <1>10 DEF Shortened
  <2>2. ahead = {r[i] : i \in k..count'}
    <3>1. \A i \in k..count' : i + 1 \in (k + 1)..count /\ r[i] = q[i + 1]
      BY <1>3, <1>4, <1>5 DEF Shortened
    <3>2. \A i \in (k + 1)..count : i - 1 \in k..count' /\ r[i - 1] = q[i]
      BY <1>3, <1>4, <1>5 DEF Shortened
    <3> QED
      BY <3>1, <3>2
  <2>3. SweepAt(r, k)'
    <3> HIDE DEF ahead
    <3> QED
      BY <1>3, <1>6, <2>1, <2>2 DEF SweepAt
  <2>4. ListInv'
    BY <1>5, <1>8, <2>1, <2>3 DEF ListInv
  <2> QED
    BY <2>1, <2>4, SlotsAssumption
<1> QED
  BY <1>9, <1>10

-----------------------------------------------------------------------------
(***************************************************************************)
(* At every moment there is a list, in the order of its pointers, of the   *)
(* live sessions, and a sweep in progress stands at one of them with every *)
(* session behind it visited once: active_list_add, socksv5_done and       *)
(* socksv5_check_timeouts preserve it.                                     *)
(***************************************************************************)
THEOREM ListInvariant == Spec => []ListInv
<1>1. Init => ListInv
  <2>1. SUFFICES ASSUME Init PROVE ListInv
    OBVIOUS
  <2>2. PICK q : q = [i \in 1..0 |-> Null]
    OBVIOUS
  <2>3. q \in [1..count -> Slots] /\ IsList(q)
    BY <2>1, <2>2 DEF Init, IsList
  <2>4. walk = Null /\ count \in Nat /\ due \subseteq Slots /\ visited \in [Slots -> 0..2]
    BY <2>1 DEF Init
  <2>5. /\ prev \in [Slots -> Pointer] /\ next \in [Slots -> Pointer]
        /\ \A s \in Slots : next[s] = Null /\ prev[s] = Null
    BY <2>1 DEF Init, Pointer
  <2> QED
    BY <2>3, <2>4, <2>5 DEF ListInv
<1>2. ListInv /\ [Next]_vars => ListInv'
  <2> SUFFICES ASSUME ListInv, [Next]_vars PROVE ListInv'
    OBVIOUS
  <2>1. ASSUME NEW s \in Slots, Accept(s) PROVE ListInv'
    BY <2>1, AcceptKeeps
  <2>2. ASSUME NEW s \in Slots, Done(s) PROVE ListInv'
    BY <2>2, DoneKeeps
  <2>3. CASE Sweep
    BY <2>3, SweepKeeps
  <2>4. CASE Keep
    BY <2>4, KeepKeeps
  <2>5. CASE Remove
    BY <2>5, RemoveKeeps
  <2>6. CASE UNCHANGED vars
    <3>1. PICK q \in [1..count -> Slots] :
            IsList(q) /\ (walk # Null => \E k \in 1..count : SweepAt(q, k))
      BY DEF ListInv
    <3>2. UNCHANGED <<head, prev, next, count, live, walk, due, visited>>
      BY <2>6 DEF vars
    <3>3. IsList(q)'
      BY <3>1, <3>2, SameList
    <3>4. \A k \in 1..count : SweepAt(q, k) => SweepAt(q, k)'
      BY <3>2 DEF SweepAt
    <3>5. q \in [1..count' -> Slots] /\ (walk' # Null => \E k \in 1..count' : SweepAt(q, k)')
      BY <3>1, <3>2, <3>4
    <3> QED
      BY <3>2, <3>3, <3>5 DEF ListInv
  <2> QED
    BY <2>1, <2>2, <2>3, <2>4, <2>5, <2>6 DEF Next
<1> QED
  BY <1>1, <1>2, PTL DEF Spec

(***************************************************************************)
(* The list that g_active_head begins holds every live session once and no *)
(* other, active_prev leads back, a struct that left points nowhere, and   *)
(* g_active_sessions is the length of the list.                            *)
(***************************************************************************)
THEOREM ListOfLiveSessions == Spec => []ListExact
  BY ListInvariant, InvGivesExact, PTL

(***************************************************************************)
(* socksv5_check_timeouts visits every session that was in the list when   *)
(* it began, once, although it removes some of them on its way.            *)
(***************************************************************************)
THEOREM SweepReachesAll == Spec => EveryoneVisited
<1> DEFINE Ends == walk # Null /\ walk' = Null =>
                     visited' = [s \in Slots |-> IF s \in due THEN 1 ELSE 0]
<1>1. ListInv /\ [Next]_vars => [Ends]_vars
  <2> SUFFICES ASSUME ListInv, [Next]_vars, walk # Null, walk' = Null
               PROVE  visited' = [s \in Slots |-> IF s \in due THEN 1 ELSE 0]
    BY DEF vars
  <2>1. CASE Keep
    BY <2>1, KeepKeeps
  <2>2. CASE Remove
    BY <2>2, RemoveKeeps
  <2> QED
    BY <2>1, <2>2 DEF Next, vars, Accept, Done, Sweep
<1> QED
  BY <1>1, ListInvariant, PTL DEF Spec, EveryoneVisited

=============================================================================
