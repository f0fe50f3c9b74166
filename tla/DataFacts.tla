------------------------------ MODULE DataFacts ------------------------------
(***************************************************************************)
(* Facts about the data of the models: queues as the sets Range(q) of      *)
(* their entries, and sums of natural numbers over a finite set.           *)
(***************************************************************************)
EXTENDS Integers, Sequences, Functions, FiniteSets, FiniteSetsExt, FiniteSetTheorems, TLAPS

-----------------------------------------------------------------------------
(* The work queues and event streams. *)

\* An entry that is queued is in the queue, and nothing else is added.
LEMMA QueuedLast ==
    ASSUME NEW S, NEW q \in Seq(S), NEW e \in S
    PROVE  /\ Append(q, e) \in Seq(S)
           /\ Range(Append(q, e)) = Range(q) \cup {e}
<1>1. Append(q, e) \in Seq(S) /\ DOMAIN Append(q, e) = DOMAIN q \cup {Len(q) + 1}
  OBVIOUS
<1>2. \A i \in DOMAIN q : Append(q, e)[i] = q[i]
  OBVIOUS
<1>3. Append(q, e)[Len(q) + 1] = e
  OBVIOUS
<1> QED BY <1>1, <1>2, <1>3 DEF Range

\* Taking the first entry leaves the others.
LEMMA TakenFirst ==
    ASSUME NEW S, NEW q \in Seq(S), q # <<>>
    PROVE  /\ Head(q) \in S /\ Tail(q) \in Seq(S)
           /\ Range(q) = {Head(q)} \cup Range(Tail(q))
<1>1. Len(q) \in Nat /\ Len(q) > 0 /\ DOMAIN q = 1..Len(q) /\ Head(q) = q[1]
  OBVIOUS
<1>2. Tail(q) \in Seq(S) /\ DOMAIN Tail(q) = 1..(Len(q) - 1)
  OBVIOUS
<1>3. \A i \in DOMAIN Tail(q) : Tail(q)[i] = q[i + 1] /\ i + 1 \in DOMAIN q
  BY <1>1, <1>2
<1>4. \A i \in DOMAIN q : i # 1 => i - 1 \in DOMAIN Tail(q) /\ Tail(q)[i - 1] = q[i]
  BY <1>1, <1>2
<1>5. \A i \in DOMAIN q : q[i] \in {Head(q)} \cup Range(Tail(q))
  BY <1>1, <1>4 DEF Range
<1>6. Head(q) \in Range(q) /\ \A i \in DOMAIN Tail(q) : Tail(q)[i] \in Range(q)
  BY <1>1, <1>3 DEF Range
<1>7. Head(q) \in S
  BY <1>1
<1> QED BY <1>2, <1>5, <1>6, <1>7 DEF Range

\* The entries have the type of the queue.
LEMMA EntriesTyped ==
    ASSUME NEW S, NEW q \in Seq(S)
    PROVE  Range(q) \subseteq S
<1>1. \A i \in DOMAIN q : q[i] \in S
  OBVIOUS
<1> QED BY <1>1 DEF Range

\* A list of n entries is a queue.
LEMMA ListIsQueue ==
    ASSUME NEW S, NEW n \in Nat, NEW q \in [1..n -> S]
    PROVE  q \in Seq(S)
OBVIOUS

\* An empty queue has no entries.
LEMMA NoEntries == Range(<<>>) = {}
BY DEF Range

\* What is listed in any order is listed.
LEMMA AllListed ==
    ASSUME NEW S, IsFiniteSet(S), NEW q \in [1..Cardinality(S) -> S],
           \A i, j \in 1..Cardinality(S) : q[i] = q[j] => i = j
    PROVE  Cardinality(S) \in Nat /\ Range(q) = S
<1>1. PICK n \in Nat : n = Cardinality(S)
  BY FS_CardinalityType
<1>2. q \in Injection(1..n, S)
  BY <1>1 DEF Injection, IsInjective
<1>3. Cardinality(1..n) = n
  BY <1>1, FS_Interval
<1>4. q \in Surjection(1..n, S)
  BY <1>1, <1>2, <1>3, FS_Injection
<1>5. QED BY <1>1, <1>4 DEF Surjection, Range

\* The entries of two queues in one.
LEMMA BothQueued ==
    ASSUME NEW S, NEW q \in Seq(S), NEW r \in Seq(S)
    PROVE  Range(q \o r) = Range(q) \cup Range(r)
<1>1. /\ Len(q) \in Nat /\ Len(r) \in Nat /\ DOMAIN q = 1..Len(q) /\ DOMAIN r = 1..Len(r)
      /\ DOMAIN (q \o r) = 1..(Len(q) + Len(r))
  OBVIOUS
<1>2. \A i \in 1..(Len(q) + Len(r)) :
         (q \o r)[i] = IF i <= Len(q) THEN q[i] ELSE r[i - Len(q)]
  OBVIOUS
<1>3. ASSUME NEW i \in DOMAIN (q \o r) PROVE (q \o r)[i] \in Range(q) \cup Range(r)
  <2>1. CASE i <= Len(q)
    BY <1>1, <1>2, <2>1 DEF Range
  <2>2. CASE ~(i <= Len(q))
    <3>1. i - Len(q) \in DOMAIN r
      BY <1>1, <2>2
    <3>2. QED BY <1>1, <1>2, <2>2, <3>1 DEF Range
  <2>3. QED BY <2>1, <2>2
<1>4. ASSUME NEW i \in DOMAIN q PROVE q[i] \in Range(q \o r)
  <2>1. i \in DOMAIN (q \o r) /\ i <= Len(q)
    BY <1>1
  <2>2. QED BY <1>1, <1>2, <2>1 DEF Range
<1>5. ASSUME NEW i \in DOMAIN r PROVE r[i] \in Range(q \o r)
  <2>1. PICK j : j = i + Len(q)
    OBVIOUS
  <2>2. j \in DOMAIN (q \o r) /\ ~(j <= Len(q)) /\ j - Len(q) = i
    BY <1>1, <2>1
  <2>3. (q \o r)[j] = r[i]
    BY <1>1, <1>2, <2>2
  <2>4. QED BY <2>2, <2>3 DEF Range
<1>6. QED BY <1>3, <1>4, <1>5 DEF Range

-----------------------------------------------------------------------------
(* Sums.  SumFunctionOnSet is recursive, so what it computes is shown by   *)
(* induction over finite sets: a set of counterexamples that is not empty  *)
(* has a smallest member (Smallest), from which a smaller one is built.    *)

\* Among sets of subsets of a finite set one has no other below it.
LEMMA Smallest ==
    ASSUME NEW S, IsFiniteSet(S), NEW T \in SUBSET (SUBSET S), T # {}
    PROVE  \E x \in T : \A y \in T : y \subseteq x => y = x
<1>1. IsWellFoundedOn(StrictSubsetOrdering(S), FiniteSubsetsOf(S))
  BY FS_StrictSubsetOrderingWellFounded
<1>2. FiniteSubsetsOf(S) = SUBSET S
  BY FS_FiniteSubsetsOfFinite
<1>3. \E x \in T : \A y \in T : ~ (<<y, x>> \in StrictSubsetOrdering(S))
  BY <1>1, <1>2, WFMin
<1>4. QED BY <1>3 DEF StrictSubsetOrdering

Some(s) == CHOOSE x \in s : TRUE
Body(f, g, s) == IF s = {} THEN 0 ELSE f[Some(s)] + g[s \ {Some(s)}]
Rec(f, S, g) == g = [s \in SUBSET S |-> Body(f, g, s)]

\* The sum is the value of a solution of its recursion equation, if there is one.
LEMMA Unfold ==
    ASSUME NEW f, NEW S
    PROVE  SumFunctionOnSet(f, S) = (CHOOSE g : Rec(f, S, g))[S]
BY DEF SumFunctionOnSet, FoldFunctionOnSet, MapThenFoldSet, Rec, Body, Some

\* The element a set is asked for first is one of its elements.
LEMMA SomeIsIn == ASSUME NEW s, s # {} PROVE Some(s) \in s
BY DEF Some

\* The recursion equation at one set.
LEMMA RecAt ==
    ASSUME NEW f, NEW S, NEW g, Rec(f, S, g), NEW s \in SUBSET S
    PROVE  g[s] = Body(f, g, s)
<1> DEFINE h == [t \in SUBSET S |-> Body(f, g, t)]
<1>1. g = h
  BY DEF Rec
<1>2. h[s] = Body(f, g, s)
  OBVIOUS
<1> HIDE DEF h
<1>3. QED BY <1>1, <1>2

\* The recursion equation has at most one solution.
LEMMA RecUnique ==
    ASSUME NEW f, NEW S, IsFiniteSet(S), NEW g, NEW h, Rec(f, S, g), Rec(f, S, h)
    PROVE  \A s \in SUBSET S : g[s] = h[s]
<1> DEFINE Bad == {s \in SUBSET S : g[s] # h[s]}
<1> SUFFICES ASSUME Bad # {} PROVE FALSE
  OBVIOUS
<1>0. Bad \in SUBSET (SUBSET S)
  OBVIOUS
<1>1. PICK s \in Bad : \A t \in Bad : t \subseteq s => t = s
  <2> HIDE DEF Bad
  <2> QED BY <1>0, Smallest
<1>2. s # {}
  BY <1>1, RecAt DEF Body
<1>3. s \ {Some(s)} \in SUBSET S /\ s \ {Some(s)} \notin Bad
  BY <1>1, <1>2, SomeIsIn
<1>4. g[s] = Body(f, g, s) /\ h[s] = Body(f, h, s)
  BY <1>1, RecAt
<1>5. g[s \ {Some(s)}] = h[s \ {Some(s)}]
  BY <1>3
<1>6. Body(f, g, s) = Body(f, h, s)
  BY <1>5 DEF Body
<1>7. QED BY <1>1, <1>4, <1>6

\* A solution for a set holds one for each of its subsets.
LEMMA RecRestrict ==
    ASSUME NEW f, NEW S, NEW g, Rec(f, S, g), NEW T \in SUBSET S
    PROVE  Rec(f, T, [s \in SUBSET T |-> g[s]])
<1> DEFINE h == [s \in SUBSET T |-> g[s]]
<1>1. ASSUME NEW s \in SUBSET T PROVE h[s] = Body(f, h, s)
  <2>1. h[s] = Body(f, g, s)
    BY RecAt
  <2>2. h[s \ {Some(s)}] = g[s \ {Some(s)}]
    OBVIOUS
  <2> HIDE DEF h
  <2>3. QED BY <2>1, <2>2 DEF Body
<1>2. h = [s \in SUBSET T |-> h[s]]
  OBVIOUS
<1> HIDE DEF h
<1>3. h = [s \in SUBSET T |-> Body(f, h, s)]
  BY <1>1, <1>2
<1>4. Rec(f, T, h)
  BY <1>3 DEF Rec
<1>5. QED BY <1>4 DEF h

\* Where there are solutions for a set and its subset, the sums agree.
LEMMA SumIsRec ==
    ASSUME NEW f, NEW S, IsFiniteSet(S), NEW g, Rec(f, S, g), NEW T \in SUBSET S
    PROVE  SumFunctionOnSet(f, T) = g[T]
<1> DEFINE h == [s \in SUBSET T |-> g[s]]
<1> DEFINE k == CHOOSE x : Rec(f, T, x)
<1>1. Rec(f, T, h) /\ h[T] = g[T]
  BY RecRestrict
<1>2. Rec(f, T, k)
  BY <1>1
<1>3. SumFunctionOnSet(f, T) = k[T]
  BY Unfold
<1>4. IsFiniteSet(T)
  BY FS_Subset
<1> HIDE DEF h, k
<1>5. k[T] = h[T]
  BY <1>1, <1>2, <1>4, RecUnique
<1>6. QED BY <1>1, <1>3, <1>5

\* The recursion equation has a solution on every finite set.
LEMMA RecExists ==
    ASSUME NEW f, NEW S, IsFiniteSet(S)
    PROVE  \E g : Rec(f, S, g)
<1> DEFINE Bad == {T \in SUBSET S : ~ \E g : Rec(f, T, g)}
<1> SUFFICES ASSUME Bad # {} PROVE FALSE
  OBVIOUS
<1>0. Bad \in SUBSET (SUBSET S)
  OBVIOUS
<1>1. PICK T \in Bad : \A U \in Bad : U \subseteq T => U = T
  <2> HIDE DEF Bad
  <2> QED BY <1>0, Smallest
<1>2. \A U \in SUBSET T : U # T => \E g : Rec(f, U, g)
  BY <1>1
<1> DEFINE V(s) == IF s = T /\ T # {} THEN f[Some(T)] + SumFunctionOnSet(f, T \ {Some(T)})
                                      ELSE IF s = {} THEN 0 ELSE SumFunctionOnSet(f, s)
<1> DEFINE h == [s \in SUBSET T |-> V(s)]
<1>3. ASSUME NEW s \in SUBSET T, s # {}, s # T
      PROVE  SumFunctionOnSet(f, s) = Body(f, h, s)
  <2>1. PICK g : Rec(f, s, g)
    BY <1>2, <1>3
  <2>2. IsFiniteSet(s)
    BY FS_Subset
  <2> DEFINE r == s \ {Some(s)}
  <2>3. r \in SUBSET s /\ r \in SUBSET T /\ r # T
    BY <1>3, SomeIsIn
  <2>4. SumFunctionOnSet(f, s) = g[s] /\ SumFunctionOnSet(f, r) = g[r]
    BY <2>1, <2>2, <2>3, SumIsRec
  <2>5. g[s] = Body(f, g, s) /\ (r = {} => g[r] = 0)
    <3>1. g[s] = Body(f, g, s) /\ g[r] = Body(f, g, r)
      BY <2>1, <2>3, RecAt
    <3>2. QED BY <3>1 DEF Body
  <2>6. h[r] = g[r]
    <3>1. h[r] = V(r)
      BY <2>3
    <3>2. V(r) = IF r = {} THEN 0 ELSE SumFunctionOnSet(f, r)
      BY <2>3
    <3> HIDE DEF h, V, r
    <3>3. QED BY <2>4, <2>5, <3>1, <3>2
  <2> HIDE DEF h
  <2>7. QED BY <1>3, <2>4, <2>5, <2>6 DEF Body
<1>4. T # {} => h[T] = Body(f, h, T)
  <2>1. SUFFICES ASSUME T # {} PROVE h[T] = Body(f, h, T)
    OBVIOUS
  <2> DEFINE r == T \ {Some(T)}
  <2>2. r \in SUBSET T /\ r # T
    BY <2>1, SomeIsIn
  <2>3. r = {} => SumFunctionOnSet(f, r) = 0
    <3>1. SUFFICES ASSUME r = {} PROVE SumFunctionOnSet(f, r) = 0
      OBVIOUS
    <3>2. PICK g : Rec(f, r, g)
      BY <1>2, <2>2
    <3>3. SumFunctionOnSet(f, r) = g[r]
      BY <3>1, <3>2, SumIsRec, FS_EmptySet
    <3>4. g[r] = 0
      BY <3>1, <3>2, RecAt DEF Body
    <3>5. QED BY <3>3, <3>4
  <2>4. h[r] = SumFunctionOnSet(f, r)
    BY <2>2, <2>3
  <2>5. h[T] = f[Some(T)] + SumFunctionOnSet(f, r)
    BY <2>1
  <2> HIDE DEF h
  <2>6. QED BY <2>1, <2>4, <2>5 DEF Body
<1>5. ASSUME NEW s \in SUBSET T PROVE h[s] = Body(f, h, s)
  <2>1. CASE s = {}
    BY <2>1, <1>4 DEF Body
  <2>2. CASE s # {} /\ s # T
    BY <2>2, <1>3
  <2>3. CASE s # {} /\ s = T
    BY <2>3, <1>4
  <2>4. QED BY <2>1, <2>2, <2>3
<1>6. h = [s \in SUBSET T |-> h[s]]
  OBVIOUS
<1> HIDE DEF h
<1>7. Rec(f, T, h)
  BY <1>5, <1>6 DEF Rec
<1>8. QED BY <1>1, <1>7

-----------------------------------------------------------------------------
(* The rules. *)

\* Nothing adds up to nothing.
LEMMA SumEmpty == \A f : SumFunctionOnSet(f, {}) = 0
<1> TAKE f
<1>1. PICK g : Rec(f, {}, g)
  BY RecExists, FS_EmptySet
<1>2. SumFunctionOnSet(f, {}) = g[{}]
  BY <1>1, SumIsRec, FS_EmptySet
<1>3. g[{}] = 0
  BY <1>1, RecAt DEF Body
<1>4. QED BY <1>2, <1>3

\* The recursion equation of the sum.
LEMMA SumPick ==
    ASSUME NEW f, NEW S, IsFiniteSet(S), S # {}
    PROVE  SumFunctionOnSet(f, S) = f[Some(S)] + SumFunctionOnSet(f, S \ {Some(S)})
<1>1. PICK g : Rec(f, S, g)
  BY RecExists
<1>2. SumFunctionOnSet(f, S) = g[S]
  BY <1>1, SumIsRec
<1>3. SumFunctionOnSet(f, S \ {Some(S)}) = g[S \ {Some(S)}]
  BY <1>1, SumIsRec
<1>4. g[S] = Body(f, g, S)
  BY <1>1, RecAt
<1>5. QED BY <1>2, <1>3, <1>4 DEF Body

\* A sum of natural numbers is a natural number.
LEMMA SumType ==
    ASSUME NEW f, NEW S, IsFiniteSet(S), \A x \in S : f[x] \in Nat
    PROVE  SumFunctionOnSet(f, S) \in Nat
<1> DEFINE Bad == {T \in SUBSET S : SumFunctionOnSet(f, T) \notin Nat}
<1> SUFFICES ASSUME Bad # {} PROVE FALSE
  OBVIOUS
<1>0. Bad \in SUBSET (SUBSET S)
  OBVIOUS
<1>1. PICK T \in Bad : \A U \in Bad : U \subseteq T => U = T
  <2> HIDE DEF Bad
  <2> QED BY <1>0, Smallest
<1>2. IsFiniteSet(T) /\ T \subseteq S
  BY <1>1, FS_Subset
<1>3. T # {}
  <2>1. SumFunctionOnSet(f, T) \notin Nat
    BY <1>1
  <2>2. QED BY <2>1, SumEmpty
<1>4. Some(T) \in T
  BY <1>3, SomeIsIn
<1>5. SumFunctionOnSet(f, T \ {Some(T)}) \in Nat
  BY <1>1, <1>2, <1>4
<1>6. SumFunctionOnSet(f, T) = f[Some(T)] + SumFunctionOnSet(f, T \ {Some(T)})
  BY <1>2, <1>3, SumPick
<1>7. QED BY <1>1, <1>2, <1>4, <1>5, <1>6

\* Any element may be taken first.
LEMMA SumRemove ==
    ASSUME NEW f, NEW S, IsFiniteSet(S), \A x \in S : f[x] \in Nat, NEW p \in S
    PROVE  SumFunctionOnSet(f, S) = f[p] + SumFunctionOnSet(f, S \ {p})
<1> DEFINE Sum(T) == SumFunctionOnSet(f, T)
<1> DEFINE Bad == {T \in SUBSET S : \E q \in T : Sum(T) # f[q] + Sum(T \ {q})}
<1> SUFFICES ASSUME Bad # {} PROVE FALSE
  OBVIOUS
<1>0. Bad \in SUBSET (SUBSET S)
  OBVIOUS
<1>1. PICK T \in Bad : \A U \in Bad : U \subseteq T => U = T
  <2> HIDE DEF Bad
  <2> QED BY <1>0, Smallest
<1> DEFINE x == Some(T)
<1>2. PICK q \in T : Sum(T) # f[q] + Sum(T \ {q})
  BY <1>1
<1>3. T \subseteq S /\ IsFiniteSet(T)
  BY <1>1, FS_Subset
<1>4. x \in T
  BY <1>2, SomeIsIn
<1>5. Sum(T) = f[x] + Sum(T \ {x})
  BY <1>2, <1>3, SumPick
<1>6. x # q
  BY <1>2, <1>5
<1>7. \A U \in SUBSET T : U # T => \A y \in U : Sum(U) = f[y] + Sum(U \ {y})
  BY <1>1, <1>3
<1>8. \A U \in SUBSET S : Sum(U) \in Nat
  <2> TAKE U \in SUBSET S
  <2>1. IsFiniteSet(U)
    BY FS_Subset
  <2> QED BY <2>1, SumType
<1> DEFINE R == (T \ {x}) \ {q}
<1>9. (T \ {q}) \ {x} = R
  OBVIOUS
<1>10. Sum(T \ {x}) = f[q] + Sum(R)
  BY <1>2, <1>4, <1>6, <1>7
<1>11. Sum(T \ {q}) = f[x] + Sum(R)
  BY <1>2, <1>4, <1>6, <1>7, <1>9
<1>12. f[x] \in Nat /\ f[q] \in Nat /\ Sum(R) \in Nat
  BY <1>2, <1>3, <1>4, <1>8
<1> HIDE DEF Sum, R, x
<1>13. \A a, b, c \in Nat : a + (b + c) = b + (a + c)
  OBVIOUS
<1>14. QED BY <1>2, <1>5, <1>10, <1>11, <1>12, <1>13

\* Sums of functions that agree are equal.
LEMMA SumAgree ==
    ASSUME NEW f, NEW g, NEW S, IsFiniteSet(S), \A x \in S : f[x] = g[x]
    PROVE  SumFunctionOnSet(f, S) = SumFunctionOnSet(g, S)
<1> DEFINE Bad == {T \in SUBSET S : SumFunctionOnSet(f, T) # SumFunctionOnSet(g, T)}
<1> SUFFICES ASSUME Bad # {} PROVE FALSE
  OBVIOUS
<1>0. Bad \in SUBSET (SUBSET S)
  OBVIOUS
<1>1. PICK T \in Bad : \A U \in Bad : U \subseteq T => U = T
  <2> HIDE DEF Bad
  <2> QED BY <1>0, Smallest
<1>2. IsFiniteSet(T) /\ T \subseteq S /\ SumFunctionOnSet(f, T) # SumFunctionOnSet(g, T)
  BY <1>1, FS_Subset
<1>3. T # {}
  BY <1>2, SumEmpty
<1>4. Some(T) \in T
  BY <1>3, SomeIsIn
<1> DEFINE R == T \ {Some(T)}
<1>5. SumFunctionOnSet(f, R) = SumFunctionOnSet(g, R)
  BY <1>1, <1>2, <1>4
<1>6. f[Some(T)] = g[Some(T)]
  BY <1>2, <1>4
<1>7. /\ SumFunctionOnSet(f, T) = f[Some(T)] + SumFunctionOnSet(f, R)
      /\ SumFunctionOnSet(g, T) = g[Some(T)] + SumFunctionOnSet(g, R)
  BY <1>2, <1>3, SumPick
<1> HIDE DEF R, Bad
<1>8. QED BY <1>2, <1>5, <1>6, <1>7

\* The sum over a part of a set is at most the sum over the set.
LEMMA SumSubset ==
    ASSUME NEW f, NEW S, IsFiniteSet(S), \A x \in S : f[x] \in Nat, NEW T \in SUBSET S
    PROVE  SumFunctionOnSet(f, T) <= SumFunctionOnSet(f, S)
<1> DEFINE Bad == {U \in SUBSET S : T \subseteq U
               /\ ~(SumFunctionOnSet(f, T) <= SumFunctionOnSet(f, U))}
<1> SUFFICES ASSUME Bad # {} PROVE FALSE
  OBVIOUS
<1>0. Bad \in SUBSET (SUBSET S)
  OBVIOUS
<1>1. PICK U \in Bad : \A W \in Bad : W \subseteq U => W = U
  <2> HIDE DEF Bad
  <2> QED BY <1>0, Smallest
<1>2. \A W \in SUBSET S : IsFiniteSet(W) /\ SumFunctionOnSet(f, W) \in Nat
  <2> TAKE W \in SUBSET S
  <2>1. IsFiniteSet(W)
    BY FS_Subset
  <2> QED BY <2>1, SumType
<1>3. U # T
  BY <1>1, <1>2
<1>4. PICK x \in U : x \notin T
  BY <1>1, <1>3
<1>5. SumFunctionOnSet(f, T) <= SumFunctionOnSet(f, U \ {x})
  BY <1>1, <1>4
<1>6. SumFunctionOnSet(f, U) = f[x] + SumFunctionOnSet(f, U \ {x})
  BY <1>1, <1>2, <1>4, SumRemove
<1>7. f[x] \in Nat
  BY <1>1, <1>4
<1>8. \A a, b, c \in Nat : a <= b => a <= c + b
  OBVIOUS
<1>9. SumFunctionOnSet(f, T) \in Nat /\ SumFunctionOnSet(f, U \ {x}) \in Nat
  BY <1>1, <1>2
<1>10. QED BY <1>1, <1>5, <1>6, <1>7, <1>8, <1>9

\* Functions that agree except at p have sums that differ by their values there.
LEMMA SumDiffer ==
    ASSUME NEW f, NEW g, NEW S, IsFiniteSet(S), NEW p \in S,
           \A x \in S : f[x] \in Nat /\ g[x] \in Nat,
           \A x \in S \ {p} : f[x] = g[x]
    PROVE  SumFunctionOnSet(f, S) + g[p] = SumFunctionOnSet(g, S) + f[p]
<1> DEFINE R == S \ {p}
<1>1. IsFiniteSet(R)
  BY FS_Subset
<1>2. SumFunctionOnSet(f, S) = f[p] + SumFunctionOnSet(f, R)
  BY SumRemove
<1>3. SumFunctionOnSet(g, S) = g[p] + SumFunctionOnSet(g, R)
  BY SumRemove
<1>4. SumFunctionOnSet(f, R) = SumFunctionOnSet(g, R)
  BY <1>1, SumAgree
<1>5. SumFunctionOnSet(f, R) \in Nat /\ f[p] \in Nat /\ g[p] \in Nat
  BY <1>1, SumType
<1> HIDE DEF R
<1>6. \A a, b, c \in Nat : (a + c) + b = (b + c) + a
  OBVIOUS
<1>7. QED BY <1>2, <1>3, <1>4, <1>5, <1>6

\* What is zero outside a part of a set adds up over that part alone.
LEMMA SumZeroOutside ==
    ASSUME NEW f, NEW S, IsFiniteSet(S), \A x \in S : f[x] \in Nat,
           NEW T \in SUBSET S, \A x \in S \ T : f[x] = 0
    PROVE  SumFunctionOnSet(f, S) = SumFunctionOnSet(f, T)
<1> DEFINE Bad == {U \in SUBSET S : T \subseteq U
               /\ SumFunctionOnSet(f, U) # SumFunctionOnSet(f, T)}
<1> SUFFICES ASSUME Bad # {} PROVE FALSE
  OBVIOUS
<1>0. Bad \in SUBSET (SUBSET S)
  OBVIOUS
<1>1. PICK U \in Bad : \A W \in Bad : W \subseteq U => W = U
  <2> HIDE DEF Bad
  <2> QED BY <1>0, Smallest
<1> DEFINE a == SumFunctionOnSet(f, U)
<1> DEFINE b == SumFunctionOnSet(f, T)
<1>a. T \subseteq U /\ U \subseteq S /\ a # b
  BY <1>1
<1>b. U # T
  BY <1>a
<1>2. PICK x \in U : x \notin T
  BY <1>a, <1>b
<1>3. IsFiniteSet(U) /\ IsFiniteSet(U \ {x})
  BY <1>1, FS_Subset
<1>4. SumFunctionOnSet(f, U) = f[x] + SumFunctionOnSet(f, U \ {x})
  BY <1>1, <1>2, <1>3, SumRemove
<1>5. f[x] = 0 /\ SumFunctionOnSet(f, U \ {x}) \in Nat
  BY <1>1, <1>2, <1>3, SumType
<1>6. SumFunctionOnSet(f, U \ {x}) = SumFunctionOnSet(f, T)
  BY <1>1, <1>2
<1>7. SumFunctionOnSet(f, U) # SumFunctionOnSet(f, T)
  BY <1>1
<1>8. QED BY <1>4, <1>5, <1>6, <1>7

\* A set of natural numbers has a least one.
LEMMA LeastNat ==
    ASSUME NEW T \in SUBSET Nat, T # {}
    PROVE  \E x \in T : \A y \in T : x <= y
<1> DEFINE R == OpToRel(<, Nat)
<1>1. IsWellFoundedOn(R, Nat)
  BY NatLessThanWellFounded
<1>2. \A x, y \in Nat : <<x, y>> \in R <=> x < y
  BY DEF OpToRel
<1> HIDE DEF R
<1>3. PICK x \in T : \A y \in T : ~(<<y, x>> \in R)
  BY <1>1, WFMin
<1>4. \A y \in T : ~(y < x)
  BY <1>2, <1>3
<1>5. QED BY <1>4

-----------------------------------------------------------------------------
(* Folds over sequences.  FoldLeft is recursive over the set of the indices *)
(* that are left.  T has the fold's step at each index, as a function on    *)
(* the set A of what it may compute.                                        *)

\* The greatest of the numbers 1 to m, and of a set of them that has m.
LEMMA MaxOfFirst ==
    ASSUME NEW m \in Nat, m # 0, NEW s \in SUBSET (1..m), m \in s
    PROVE  Max(s) = m
<1>1. \A y \in s : m >= y
  OBVIOUS
<1>2. Max(s) \in s /\ \A y \in s : Max(s) >= y
  BY <1>1 DEF Max
<1>3. PICK k : k = Max(s)
  OBVIOUS
<1>4. k \in s
  BY <1>2, <1>3
<1>5. k \in 1..m
  BY <1>4
<1>6. k >= m
  BY <1>2, <1>3
<1>7. QED BY <1>3, <1>5, <1>6

\* A set of indices that is not empty has a greatest one.
LEMMA MaxIsIn ==
    ASSUME NEW n \in Nat, NEW s \in SUBSET (1..n), s # {}
    PROVE  Max(s) \in s
<1> DEFINE U == {n - x : x \in s}
<1>1. U \in SUBSET Nat /\ U # {}
  <2>1. \A x \in s : x \in 1..n
    OBVIOUS
  <2>2. \A x \in s : n - x \in Nat
    BY <2>1
  <2>3. QED BY <2>2
<1>2. PICK u \in U : \A y \in U : u <= y
  <2> HIDE DEF U
  <2>1. QED BY <1>1, LeastNat
<1>3. PICK x \in s : u = n - x
  BY <1>2
<1>4. \A y \in s : x >= y
  <2>1. \A y \in s : n - x <= n - y /\ x \in 1..n /\ y \in 1..n
    BY <1>2, <1>3
  <2>2. QED BY <2>1
<1>5. QED BY <1>3, <1>4 DEF Max

FoldBody(T, base, h, s) == IF s = {} THEN base ELSE T[Max(s)][h[s \ {Max(s)}]]

Folds(A, T, base, m, h) ==
    h \in [SUBSET (1..m) -> A] /\ \A s \in SUBSET (1..m) : h[s] = FoldBody(T, base, h, s)

\* The recursion equation of a fold has a solution.
LEMMA FoldExists ==
    ASSUME NEW A, NEW base \in A, NEW n \in Nat, NEW T \in [1..n -> [A -> A]]
    PROVE  \E h : Folds(A, T, base, n, h)
<1> DEFINE Bad == {m \in 0..n : ~\E h : Folds(A, T, base, m, h)}
<1> SUFFICES ASSUME Bad # {} PROVE FALSE
  OBVIOUS
<1>1. PICK m \in Bad : \A y \in Bad : m <= y
  <2>1. Bad \in SUBSET Nat
    OBVIOUS
  <2> HIDE DEF Bad
  <2>2. QED BY <2>1, LeastNat
<1>2. m \in Nat /\ m <= n /\ ~\E h : Folds(A, T, base, m, h)
  BY <1>1
<1>3. CASE m = 0
  <2> DEFINE h == [s \in SUBSET (1..0) |-> base]
  <2>1. \A s \in SUBSET (1..0) : s = {}
    OBVIOUS
  <2>2. h \in [SUBSET (1..0) -> A] /\ \A s \in SUBSET (1..0) : h[s] = base
    OBVIOUS
  <2> HIDE DEF h
  <2>3. Folds(A, T, base, 0, h)
    BY <2>1, <2>2 DEF Folds, FoldBody
  <2>4. QED BY <1>2, <1>3, <2>3
<1>4. CASE m # 0
  <2>1. m - 1 \in 0..n /\ ~(m <= m - 1)
    BY <1>2, <1>4
  <2>2. PICK f : Folds(A, T, base, m - 1, f)
    BY <1>1, <2>1
  <2>3. PICK n1 : n1 = m - 1 /\ n1 \in Nat
    BY <2>1
  <2> DEFINE h == [s \in SUBSET (1..m) |-> IF m \in s THEN T[m][f[s \ {m}]] ELSE f[s]]
  <2>4. \A s \in SUBSET (1..m) : s \ {m} \in SUBSET (1..n1) /\ (m \notin s => s \in SUBSET (1..n1))
    BY <1>2, <2>3
  <2>5. f \in [SUBSET (1..n1) -> A] /\ \A s \in SUBSET (1..n1) : f[s] = FoldBody(T, base, f, s)
    BY <2>2, <2>3 DEF Folds
  <2>6. \A s \in SUBSET (1..n1) : h[s] = f[s]
    <3>1. \A s \in SUBSET (1..n1) : s \in SUBSET (1..m) /\ m \notin s
      BY <1>2, <2>3
    <3>2. QED BY <3>1
  <2>7. h \in [SUBSET (1..m) -> A]
    <3>1. T[m] \in [A -> A]
      BY <1>2, <1>4
    <3>2. \A s \in SUBSET (1..m) : (IF m \in s THEN T[m][f[s \ {m}]] ELSE f[s]) \in A
      BY <2>4, <2>5, <3>1
    <3>3. QED BY <3>2
  <2>8. ASSUME NEW s \in SUBSET (1..m) PROVE h[s] = FoldBody(T, base, h, s)
    <3>1. CASE m \in s
      <4>1. Max(s) = m /\ s # {}
        BY <1>2, <1>4, <3>1, MaxOfFirst
      <4>2. h[s] = T[m][f[s \ {m}]]
        BY <3>1
      <4>3. h[s \ {m}] = f[s \ {m}]
        BY <2>4, <2>6
      <4> HIDE DEF h
      <4>4. QED BY <4>1, <4>2, <4>3 DEF FoldBody
    <3>2. CASE m \notin s
      <4>1. s \in SUBSET (1..n1) /\ h[s] = f[s]
        BY <2>4, <2>6, <3>2
      <4>2. f[s] = FoldBody(T, base, f, s)
        BY <2>5, <4>1
      <4>3. h[s \ {Max(s)}] = f[s \ {Max(s)}]
        BY <2>6, <4>1
      <4> HIDE DEF h
      <4>4. QED BY <4>1, <4>2, <4>3 DEF FoldBody
    <3>3. QED BY <3>1, <3>2
  <2> HIDE DEF h
  <2>9. Folds(A, T, base, m, h)
    BY <2>7, <2>8 DEF Folds
  <2>10. QED BY <1>2, <2>9
<1>5. QED BY <1>3, <1>4

\* The last index is the first that a fold asks for.
LEMMA LastIndex ==
    ASSUME NEW m \in Nat \ {0}
    PROVE  Max(1..m) = m /\ (1..m) \ {m} = 1..(m - 1) /\ 1..m # {}
<1>1. 1..m \in SUBSET (1..m) /\ m \in 1..m
  OBVIOUS
<1>2. Max(1..m) = m
  BY <1>1, MaxOfFirst
<1>3. QED BY <1>1, <1>2

\* Induction over the rounds of a loop: what holds before the first round and is kept
\* by each holds after all of them.
LEMMA EveryRound ==
    ASSUME NEW n \in Nat, NEW G, 0 \in G, \A m \in 1..n : m - 1 \in G => m \in G
    PROVE  \A m \in 0..n : m \in G
<1> DEFINE Bad == {m \in 0..n : m \notin G}
<1> SUFFICES ASSUME Bad # {} PROVE FALSE
  OBVIOUS
<1>1. PICK m \in Bad : \A y \in Bad : m <= y
  <2>1. Bad \in SUBSET Nat
    OBVIOUS
  <2> HIDE DEF Bad
  <2>2. QED BY <2>1, LeastNat
<1>2. m \in 1..n /\ m - 1 \in 0..n /\ ~(m <= m - 1)
  BY <1>1
<1>3. QED BY <1>1, <1>2
=============================================================================
