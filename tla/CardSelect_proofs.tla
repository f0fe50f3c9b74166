-------------------------- MODULE CardSelect_proofs --------------------------
(***************************************************************************)
(* Theorems about CardSelect, for every pod, every node with its labels    *)
(* and books, and every list of nodes.                                     *)
(***************************************************************************)
EXTENDS CardSelect, DataFacts

-----------------------------------------------------------------------------
(* Orders. *)

\* A finite set has a greatest element in an order that is total on it.
LEMMA Greatest ==
    ASSUME NEW R, NEW T, IsFiniteSet(T), T # {},
           \A a, b \in T : a # b => <<a, b>> \in R \/ <<b, a>> \in R,
           \A a, b, c \in T : <<a, b>> \in R /\ <<b, c>> \in R => <<a, c>> \in R
    PROVE  \E m \in T : \A y \in T \ {m} : <<y, m>> \in R
<1> DEFINE Bad == {U \in SUBSET T : U # {} /\ ~\E m \in U : \A y \in U \ {m} : <<y, m>> \in R}
<1> SUFFICES ASSUME Bad # {} PROVE FALSE
  OBVIOUS
<1>0. Bad \in SUBSET (SUBSET T)
  OBVIOUS
<1> HIDE DEF Bad
<1>1. PICK U \in Bad : \A V \in Bad : V \subseteq U => V = U
  BY <1>0, Smallest
<1>2. U \subseteq T /\ U # {} /\ ~\E m \in U : \A y \in U \ {m} : <<y, m>> \in R
  BY <1>1 DEF Bad
<1>3. PICK a \in U : TRUE
  BY <1>2
<1>4. U \ {a} \notin Bad
  BY <1>1, <1>3
<1>5. U \ {a} # {}
  BY <1>2, <1>3
<1>6. PICK m \in U \ {a} : \A y \in (U \ {a}) \ {m} : <<y, m>> \in R
  BY <1>2, <1>4, <1>5 DEF Bad
<1>7. <<a, m>> \notin R
  BY <1>2, <1>3, <1>6
<1>8. <<m, a>> \in R
  BY <1>2, <1>3, <1>6, <1>7
<1>9. \A y \in U \ {a} : <<y, a>> \in R
  BY <1>2, <1>3, <1>6, <1>8
<1>10. QED BY <1>2, <1>3, <1>9

\* It can be listed in that order.
LEMMA SortedOrder ==
    ASSUME NEW R, NEW S, IsFiniteSet(S),
           \A a, b \in S : a # b => <<a, b>> \in R \/ <<b, a>> \in R,
           \A a, b, c \in S : <<a, b>> \in R /\ <<b, c>> \in R => <<a, c>> \in R
    PROVE  \E s \in SetToSeqs(S) : \A x, y \in DOMAIN s : x < y => <<s[x], s[y]>> \in R
<1> DEFINE In(U) == \E s \in SetToSeqs(U) : \A x, y \in DOMAIN s : x < y => <<s[x], s[y]>> \in R
           Bad == {U \in SUBSET S : ~In(U)}
<1> SUFFICES ASSUME Bad # {} PROVE FALSE
  OBVIOUS
<1>0. Bad \in SUBSET (SUBSET S)
  OBVIOUS
<1> HIDE DEF Bad
<1>1. PICK T \in Bad : \A V \in Bad : V \subseteq T => V = T
  BY <1>0, Smallest
<1>2. T \subseteq S /\ ~In(T) /\ IsFiniteSet(T)
  BY <1>1, FS_Subset DEF Bad
<1>3. T # {}
  <2>1. SUFFICES ASSUME T = {} PROVE In(T)
    BY <1>2
  <2>2. 1..Cardinality(T) = {}
    BY <2>1, FS_EmptySet
  <2>3. <<>> \in SetToSeqs(T)
    BY <2>1, <2>2 DEF SetToSeqs
  <2>4. QED BY <2>3
<1>4. PICK m \in T : \A y \in T \ {m} : <<y, m>> \in R
  BY <1>2, <1>3, Greatest
<1>5. In(T \ {m})
  BY <1>1, <1>2, <1>4 DEF Bad
<1>6. PICK n \in Nat : n = Cardinality(T \ {m}) /\ Cardinality(T) = n + 1
  BY <1>2, <1>4, FS_RemoveElement, FS_CardinalityType, FS_Subset
<1>7. PICK s \in SetToSeqs(T \ {m}) : \A x, y \in DOMAIN s : x < y => <<s[x], s[y]>> \in R
  BY <1>5
<1>8. s \in [1..n -> T \ {m}] /\ \A x, y \in 1..n : x # y => s[x] # s[y]
  BY <1>6, <1>7 DEF SetToSeqs
<1>9. PICK t : t = [x \in 1..(n + 1) |-> IF x <= n THEN s[x] ELSE m]
  OBVIOUS
<1>10. /\ DOMAIN t = 1..(n + 1) /\ t[n + 1] = m
       /\ \A x \in 1..n : t[x] = s[x] /\ s[x] \in T \ {m}
  BY <1>8, <1>9
<1>11. \A x \in 1..(n + 1) : x = n + 1 \/ x \in 1..n
  OBVIOUS
<1>12. t \in [1..(n + 1) -> T]
  BY <1>4, <1>9, <1>10, <1>11
<1>13. \A x, y \in 1..(n + 1) : x # y => t[x] # t[y]
  BY <1>8, <1>10, <1>11
<1>14. t \in SetToSeqs(T)
  BY <1>6, <1>12, <1>13 DEF SetToSeqs
<1>15. ASSUME NEW x \in 1..(n + 1), NEW y \in 1..(n + 1), x < y PROVE <<t[x], t[y]>> \in R
  <2>1. x \in 1..n
    BY <1>15
  <2>2. CASE y = n + 1
    BY <1>4, <1>10, <2>1, <2>2
  <2>3. CASE y \in 1..n
    BY <1>7, <1>8, <1>10, <1>15, <2>1, <2>3
  <2>4. QED BY <1>11, <2>2, <2>3
<1>16. QED BY <1>2, <1>10, <1>14, <1>15

\* An order of a finite set has each of its members once.
LEMMA OrderOfSet ==
    ASSUME NEW S, IsFiniteSet(S), NEW s \in SetToSeqs(S)
    PROVE  /\ DOMAIN s = 1..Cardinality(S) /\ Cardinality(S) \in Nat
           /\ Len(s) = Cardinality(S) /\ s \in Seq(S)
           /\ {s[x] : x \in DOMAIN s} = S
           /\ \A x, y \in DOMAIN s : x # y => s[x] # s[y]
<1>1. PICK n \in Nat : n = Cardinality(S)
  BY FS_CardinalityType
<1>2. PICK D : D = 1..n
  OBVIOUS
<1>3. s \in [D -> S] /\ \A x, y \in D : x # y => s[x] # s[y]
  BY <1>1, <1>2 DEF SetToSeqs
<1>4. IsFiniteSet(D) /\ Cardinality(D) = Cardinality(S)
  BY <1>1, <1>2, FS_Interval
<1>5. s \in Injection(D, S)
  BY <1>3 DEF Injection, IsInjective
<1>6. s \in Surjection(D, S)
  BY <1>4, <1>5, FS_Injection
<1>7. {s[x] : x \in D} = S
  BY <1>3, <1>6 DEF Surjection
<1>8. s \in Seq(S) /\ Len(s) = n
  BY <1>2, <1>3, ListIsQueue
<1>9. QED BY <1>1, <1>2, <1>3, <1>7, <1>8

\* The least of a set of numbers.
LEMMA MinIsIn ==
    ASSUME NEW I \in SUBSET Nat, I # {}
    PROVE  Min(I) \in I /\ \A y \in I : Min(I) <= y
<1>1. \E x \in I : \A y \in I : x <= y
  BY LeastNat
<1>2. QED BY <1>1 DEF Min

\* The entry of a list that comes first among those of a set of places.
LEMMA FirstOf ==
    ASSUME NEW S, NEW q \in Seq(S), NEW I, I \subseteq 1..Len(q), I # {}
    PROVE  Min(I) \in I /\ Min(I) \in DOMAIN q /\ Min(I) # 0 /\ q[Min(I)] \in S
<1>1. Len(q) \in Nat /\ DOMAIN q = 1..Len(q) /\ I \in SUBSET Nat
  OBVIOUS
<1>2. Min(I) \in I
  BY <1>1, MinIsIn
<1>3. Min(I) \in 1..Len(q)
  BY <1>2
<1> HIDE DEF Min
<1>4. QED BY <1>1, <1>2, <1>3

\* A list has entries of its type.
LEMMA ListType ==
    ASSUME NEW S, NEW q \in Seq(S)
    PROVE  Len(q) \in Nat /\ DOMAIN q = 1..Len(q) /\ \A x \in DOMAIN q : q[x] \in S
OBVIOUS

\* The entries of two lists in a row are the entries of both.
LEMMA Joined ==
    ASSUME NEW S, NEW a \in Seq(S), NEW b \in Seq(S)
    PROVE  /\ a \o b \in Seq(S) /\ ToSet(a \o b) = ToSet(a) \cup ToSet(b)
           /\ DOMAIN a = 1..Len(a) /\ DOMAIN (a \o b) = 1..(Len(a) + Len(b))
           /\ \A x \in DOMAIN a : (a \o b)[x] = a[x]
           /\ \A x \in DOMAIN b : (a \o b)[Len(a) + x] = b[x]
<1>1. PICK n \in Nat, m \in Nat : n = Len(a) /\ m = Len(b)
  OBVIOUS
<1>2. DOMAIN a = 1..n /\ DOMAIN b = 1..m /\ DOMAIN (a \o b) = 1..(n + m) /\ a \o b \in Seq(S)
  BY <1>1
<1>3. \A x \in 1..n : (a \o b)[x] = a[x] /\ x \in 1..(n + m)
  BY <1>1
<1>4. \A x \in 1..m : (a \o b)[n + x] = b[x] /\ n + x \in 1..(n + m)
  <2>1. TAKE x \in 1..m
  <2>2. n + x > n /\ n + x <= n + m /\ (n + x) - n = x /\ n + x \in 1..(n + m)
    OBVIOUS
  <2>3. QED BY <1>1, <2>2
<1>5. \A x \in 1..(n + m) : x \in 1..n \/ \E y \in 1..m : x = n + y
  <2>1. TAKE x \in 1..(n + m)
  <2>2. CASE x <= n
    BY <2>2
  <2>3. CASE x > n
    <3>1. x - n \in 1..m /\ x = n + (x - n)
      BY <2>3
    <3>2. QED BY <3>1
  <2>4. QED BY <2>2, <2>3
<1>6. ToSet(a) \subseteq ToSet(a \o b)
  BY <1>2, <1>3 DEF ToSet
<1>7. ToSet(b) \subseteq ToSet(a \o b)
  BY <1>2, <1>4 DEF ToSet
<1>8. ASSUME NEW x \in 1..(n + m) PROVE (a \o b)[x] \in ToSet(a) \cup ToSet(b)
  BY <1>2, <1>3, <1>4, <1>5 DEF ToSet
<1>9. ToSet(a \o b) \subseteq ToSet(a) \cup ToSet(b)
  BY <1>2, <1>8 DEF ToSet
<1>10. QED BY <1>1, <1>2, <1>3, <1>4, <1>6, <1>7, <1>9

\* The entries of a list of lists are the entries of the lists.
LEMMA Flattened ==
    ASSUME NEW S, NEW ss \in Seq(Seq(S))
    PROVE  /\ FlattenSeq(ss) \in Seq(S)
           /\ ToSet(FlattenSeq(ss)) = UNION {ToSet(ss[x]) : x \in DOMAIN ss}
<1>1. PICK n \in Nat : n = Len(ss) /\ DOMAIN ss = 1..n /\ \A x \in 1..n : ss[x] \in Seq(S)
  OBVIOUS
<1>2. CASE n = 0
  <2>1. ss = <<>> /\ FlattenSeq(ss) = ss
    BY <1>1, <1>2 DEF FlattenSeq
  <2>2. <<>> \in Seq(S) /\ ToSet(<<>>) = {} /\ {ToSet(ss[x]) : x \in {}} = {}
    BY DEF ToSet
  <2>3. DOMAIN ss = {}
    BY <1>1, <1>2
  <2> HIDE DEF FlattenSeq, ToSet
  <2>4. QED BY <2>1, <2>2, <2>3
<1>3. CASE n # 0
  <2> DEFINE Step(h, x) == IF x = 1 THEN ss[x] ELSE h[x - 1] \o ss[x]
             Is(h, m) == h = [x \in 1..m |-> Step(h, x)]
             All(m) == UNION {ToSet(ss[x]) : x \in 1..m}
             Good(m) == \E h : Is(h, m) /\ \A x \in 1..m : h[x] \in Seq(S) /\ ToSet(h[x]) = All(x)
             Bad == {m \in 1..n : ~Good(m)}
  <2>1. Good(n)
    <3> HIDE DEF Good
    <3> SUFFICES ASSUME Bad # {} PROVE FALSE
      BY <1>1, <1>3
    <3>1. PICK m \in Bad : \A y \in Bad : m <= y
      <4>1. Bad \in SUBSET Nat
        BY <1>1
      <4> HIDE DEF Bad
      <4>2. QED BY <4>1, LeastNat
    <3>2. m \in 1..n /\ ~Good(m)
      BY <3>1
    <3>3. CASE m = 1
      <4> DEFINE h == [x \in 1..1 |-> ss[x]]
      <4>1. h = [x \in 1..1 |-> Step(h, x)]
        OBVIOUS
      <4>2. h[1] \in Seq(S) /\ ToSet(h[1]) = All(1)
        <5>1. h[1] = ss[1] /\ ss[1] \in Seq(S)
          BY <1>1, <1>3
        <5>2. All(1) = ToSet(ss[1])
          OBVIOUS
        <5>3. QED BY <5>1, <5>2
      <4>3. Good(1)
        <5> HIDE DEF h, Step, All
        <5>1. \A x \in 1..1 : x = 1
          OBVIOUS
        <5> QED BY <4>1, <4>2, <5>1 DEF Good
      <4> QED BY <3>2, <3>3, <4>3
    <3>4. CASE m # 1
      <4>1. m \in Nat /\ m - 1 \in 1..n /\ m - 1 < m
        BY <1>1, <3>2, <3>4
      <4>2. Good(m - 1)
        BY <3>1, <4>1 DEF Bad
      <4>3. PICK f : Is(f, m - 1) /\ \A x \in 1..(m - 1) : f[x] \in Seq(S) /\ ToSet(f[x]) = All(x)
        BY <4>2 DEF Good
      <4> DEFINE h == [x \in 1..m |-> IF x = m THEN f[m - 1] \o ss[m] ELSE f[x]]
      <4>4. \A x \in 1..(m - 1) : f[x] = Step(f, x)
        <5> DEFINE f2 == [x \in 1..(m - 1) |-> Step(f, x)]
        <5>1. f = f2
          BY <4>3
        <5>2. \A x \in 1..(m - 1) : f2[x] = Step(f, x)
          OBVIOUS
        <5> HIDE DEF f2
        <5> QED BY <5>1, <5>2
      <4>5. h[m] = f[m - 1] \o ss[m] /\ \A x \in 1..(m - 1) : h[x] = f[x]
        <5>1. m \in 1..m /\ \A x \in 1..(m - 1) : x \in 1..m /\ x # m
          BY <4>1
        <5>2. QED BY <5>1
      <4>6. \A x \in 1..m : h[x] = Step(h, x)
        <5>1. TAKE x \in 1..m
        <5>2. CASE x = m
          <6>1. h[m - 1] = f[m - 1]
            <7>1. m - 1 \in 1..(m - 1)
              BY <4>1
            <7> HIDE DEF h
            <7>2. QED BY <4>5, <7>1
          <6> HIDE DEF h
          <6>2. QED BY <3>4, <4>5, <5>2, <6>1
        <5>3. CASE x # m
          <6>1. x \in 1..(m - 1) /\ (x # 1 => x - 1 \in 1..(m - 1))
            BY <4>1, <5>3
          <6> HIDE DEF h
          <6>2. QED BY <4>4, <4>5, <6>1
        <5> QED BY <5>2, <5>3
      <4>7. Is(h, m)
        <5>1. h = [x \in 1..m |-> h[x]]
          OBVIOUS
        <5> HIDE DEF h
        <5> QED BY <4>6, <5>1
      <4>8. h[m] \in Seq(S) /\ ToSet(h[m]) = All(m)
        <5>1. f[m - 1] \in Seq(S) /\ ToSet(f[m - 1]) = All(m - 1) /\ ss[m] \in Seq(S)
          <6>1. m - 1 \in 1..(m - 1)
            BY <4>1
          <6> HIDE DEF All
          <6>2. QED BY <1>1, <3>2, <4>3, <6>1
        <5>2. All(m) = All(m - 1) \cup ToSet(ss[m])
          <6>1. 1..m = 1..(m - 1) \cup {m}
            BY <4>1
          <6>2. QED BY <6>1
        <5>3. \A a, b \in Seq(S) : a \o b \in Seq(S) /\ ToSet(a \o b) = ToSet(a) \cup ToSet(b)
          BY Joined
        <5> HIDE DEF All, h
        <5>4. QED BY <4>5, <5>1, <5>2, <5>3
      <4>9. \A x \in 1..m : h[x] \in Seq(S) /\ ToSet(h[x]) = All(x)
        <5>1. \A x \in 1..m : x = m \/ x \in 1..(m - 1)
          BY <4>1
        <5> HIDE DEF h, All
        <5>2. QED BY <4>3, <4>5, <4>8, <5>1
      <4> HIDE DEF h, Is, All
      <4>10. QED BY <3>2, <4>7, <4>9 DEF Good
    <3> QED BY <3>3, <3>4
  <2>2. PICK h : Is(h, n) /\ \A x \in 1..n : h[x] \in Seq(S) /\ ToSet(h[x]) = All(x)
    BY <2>1
  <2> DEFINE k == CHOOSE f : Is(f, n)
  <2>3. Is(k, n)
    BY <2>2
  <2>4. \A f : Is(f, n) => \A x \in 1..n : f[x] = Step(f, x)
    <3> TAKE f
    <3> HAVE Is(f, n)
    <3> DEFINE f2 == [x \in 1..n |-> Step(f, x)]
    <3>1. f = f2
      OBVIOUS
    <3>2. \A x \in 1..n : f2[x] = Step(f, x)
      OBVIOUS
    <3> HIDE DEF f2
    <3> QED BY <3>1, <3>2
  <2>5. \A x \in 1..n : k[x] = h[x]
    <3> DEFINE Differ == {x \in 1..n : k[x] # h[x]}
    <3> SUFFICES ASSUME Differ # {} PROVE FALSE
      OBVIOUS
    <3>1. PICK m \in Differ : \A y \in Differ : m <= y
      <4>1. Differ \in SUBSET Nat
        <5> HIDE DEF k
        <5> QED BY <1>1
      <4> HIDE DEF Differ
      <4>2. QED BY <4>1, LeastNat
    <3>2. m \in 1..n /\ k[m] # h[m] /\ (m # 1 => m - 1 \in 1..n /\ k[m - 1] = h[m - 1])
      <4>1. m \in 1..n /\ k[m] # h[m]
        BY <3>1
      <4>2. SUFFICES ASSUME m # 1 PROVE m - 1 \in 1..n /\ k[m - 1] = h[m - 1]
        BY <4>1
      <4>3. m - 1 \in 1..n /\ ~(m <= m - 1)
        BY <1>1, <4>1, <4>2
      <4> HIDE DEF k
      <4>4. QED BY <3>1, <4>3
    <3>3. k[m] = Step(k, m) /\ h[m] = Step(h, m)
      <4> HIDE DEF k, Is, Step
      <4> QED BY <2>2, <2>3, <2>4, <3>2
    <3> HIDE DEF k, Differ
    <3>4. QED BY <3>2, <3>3
  <2>6. FlattenSeq(ss) = k[n]
    BY <1>1, <1>3 DEF FlattenSeq
  <2>7. n \in 1..n
    BY <1>1, <1>3
  <2> HIDE DEF k, Is, All
  <2>8. FlattenSeq(ss) \in Seq(S) /\ ToSet(FlattenSeq(ss)) = All(n)
    BY <2>2, <2>5, <2>6, <2>7
  <2>9. All(n) = UNION {ToSet(ss[x]) : x \in DOMAIN ss}
    BY <1>1 DEF All
  <2>10. QED BY <2>8, <2>9
<1>4. QED BY <1>2, <1>3

-----------------------------------------------------------------------------
(* Labels. *)

\* The list that the chunks of a split label make up.
LEMMA LabelList ==
    ASSUME NEW S, NEW chunks \in Chunks(S)
    PROVE  /\ concatenateSplitLabel(chunks) \in Seq(S)
           /\ (\A x \in 2..Len(chunks) : chunks[x].mark = "Z") =>
                 ToSet(concatenateSplitLabel(chunks)) =
                     UNION {ToSet(chunks[x].items) : x \in DOMAIN chunks}
<1> DEFINE ss == [x \in DOMAIN chunks |-> chunks[x].items]
<1>1. chunks \in Seq([mark : STRING, items : Seq(S)])
  BY DEF Chunks
<1>2. /\ Len(chunks) \in Nat /\ DOMAIN chunks = 1..Len(chunks)
      /\ \A x \in DOMAIN chunks : chunks[x].items \in Seq(S)
  <2>1. /\ Len(chunks) \in Nat /\ DOMAIN chunks = 1..Len(chunks)
        /\ \A x \in DOMAIN chunks : chunks[x] \in [mark : STRING, items : Seq(S)]
    BY <1>1, ListType
  <2>2. \A z \in [mark : STRING, items : Seq(S)] : z.items \in Seq(S)
    OBVIOUS
  <2>3. QED BY <2>1, <2>2
<1>3. ss \in [1..Len(chunks) -> Seq(S)] /\ DOMAIN ss = DOMAIN chunks
  BY <1>2
<1>4. \A x \in DOMAIN chunks : ss[x] = chunks[x].items
  OBVIOUS
<1>5. ss \in Seq(Seq(S))
  <2> HIDE DEF ss
  <2> QED BY <1>2, <1>3, ListIsQueue
<1>6. \/ concatenateSplitLabel(chunks) = <<>> /\ \E x \in 2..Len(chunks) : chunks[x].mark # "Z"
      \/ concatenateSplitLabel(chunks) = FlattenSeq(ss)
  BY DEF concatenateSplitLabel
<1> HIDE DEF ss
<1>7. FlattenSeq(ss) \in Seq(S) /\ ToSet(FlattenSeq(ss)) = UNION {ToSet(ss[x]) : x \in DOMAIN ss}
  BY <1>5, Flattened
<1>8. {ToSet(ss[x]) : x \in DOMAIN ss} = {ToSet(chunks[x].items) : x \in DOMAIN chunks}
  BY <1>3, <1>4
<1>9. <<>> \in Seq(S)
  OBVIOUS
<1>10. CASE concatenateSplitLabel(chunks) = FlattenSeq(ss)
  BY <1>7, <1>8, <1>10
<1>11. CASE concatenateSplitLabel(chunks) = <<>> /\ \E x \in 2..Len(chunks) : chunks[x].mark # "Z"
  BY <1>9, <1>11
<1>12. QED BY <1>6, <1>10, <1>11

\* The list of GPUs is a list of cards.
LEMMA GpuList ==
    ASSUME NEW l, LabelsOK(l)
    PROVE  /\ getNodeGPUList(l) \in Seq(Cards) /\ concatenateSplitLabel(l.gpuNumbers) \in Seq(Cards)
           /\ ToSet(getNodeGPUList(l)) \subseteq Cards
<1>1. concatenateSplitLabel(l.gpuNumbers) \in Seq(Cards)
  BY LabelList DEF LabelsOK
<1>2. getNodeGPUList(l) \in Seq(Cards)
  BY <1>1 DEF LabelsOK, getNodeGPUList
<1>3. QED BY <1>1, <1>2 DEF ToSet

\* The links of the label, up to the first that does not parse, all parse.
LEMMA LinksType ==
    ASSUME NEW l, LabelsOK(l)
    PROVE  /\ Links(l) \in Seq(XeLinks)
           /\ ToSet(Links(l)) \subseteq ToSet(concatenateSplitLabel(l.xeLinks)) \ {Malformed}
<1> DEFINE all == concatenateSplitLabel(l.xeLinks)
           I == {x \in 1..Len(all) : all[x] = Malformed}
<1>1. all \in Seq({Malformed} \cup XeLinks)
  BY LabelList DEF LabelsOK
<1>2. Links(l) = IF I = {} THEN all ELSE IF Min(I) = 0 THEN all ELSE SubSeq(all, 1, Min(I) - 1)
  BY DEF Links, SelectInSeq
<1> HIDE DEF all
<1>3. CASE I = {}
  <2>1. \A x \in 1..Len(all) : all[x] \in XeLinks /\ all[x] # Malformed
    BY <1>1, <1>3
  <2>2. Len(all) \in Nat /\ DOMAIN all = 1..Len(all) /\ all \in [1..Len(all) -> XeLinks]
    BY <1>1, <2>1
  <2>3. all \in Seq(XeLinks)
    BY <2>2, ListIsQueue
  <2>4. ToSet(all) \subseteq ToSet(all) \ {Malformed}
    BY <2>1, <2>2 DEF ToSet
  <2>5. QED BY <1>2, <1>3, <2>3, <2>4 DEF all
<1>4. CASE I # {}
  <2>0. I \subseteq 1..Len(all)
    OBVIOUS
  <2> HIDE DEF I
  <2>1. PICK m : m = Min(I)
    OBVIOUS
  <2>2. m \in I /\ m \in DOMAIN all /\ m # 0
    BY <1>1, <1>4, <2>0, <2>1, FirstOf
  <2>3. Len(all) \in Nat /\ DOMAIN all = 1..Len(all) /\ I \in SUBSET Nat
    BY <1>1, <2>0
  <2>4. \A y \in I : m <= y
    BY <1>4, <2>1, <2>3, MinIsIn
  <2>5. m - 1 \in Nat /\ \A x \in 1..(m - 1) : x \in 1..Len(all) /\ x \notin I
    BY <2>2, <2>3, <2>4
  <2>6. \A x \in 1..(m - 1) : all[x] \in XeLinks /\ all[x] # Malformed
    BY <1>1, <2>5 DEF I
  <2>7. PICK q : q = SubSeq(all, 1, m - 1)
    OBVIOUS
  <2>8. DOMAIN q = 1..(m - 1) /\ \A x \in 1..(m - 1) : q[x] = all[x]
    BY <1>1, <2>2, <2>3, <2>5, <2>7
  <2>9. q \in [1..(m - 1) -> XeLinks]
    <3>1. q \in Seq({Malformed} \cup XeLinks)
      BY <1>1, <2>2, <2>3, <2>5, <2>7
    <3>2. q = [x \in 1..(m - 1) |-> q[x]]
      BY <2>8, <3>1
    <3>3. QED BY <2>6, <2>8, <3>2
  <2>10. q \in Seq(XeLinks)
    BY <2>5, <2>9, ListIsQueue
  <2>11. ToSet(q) \subseteq ToSet(all) \ {Malformed}
    BY <2>3, <2>5, <2>6, <2>8 DEF ToSet
  <2>12. QED BY <1>2, <1>4, <2>1, <2>2, <2>7, <2>10, <2>11 DEF all
<1>5. QED BY <1>3, <1>4

\* They are items of the chunks of the label.
LEMMA LinksInLabel ==
    ASSUME NEW l, LabelsOK(l), NEW link \in ToSet(Links(l))
    PROVE  link # Malformed /\ \E chunk \in ToSet(l.xeLinks) : link \in ToSet(chunk.items)
<1>1. link # Malformed /\ link \in ToSet(concatenateSplitLabel(l.xeLinks))
  BY LinksType
<1>2. l.xeLinks \in Chunks({Malformed} \cup XeLinks)
  BY DEF LabelsOK
<1>3. CASE \A x \in 2..Len(l.xeLinks) : l.xeLinks[x].mark = "Z"
  <2>1. link \in UNION {ToSet(l.xeLinks[x].items) : x \in DOMAIN l.xeLinks}
    BY <1>1, <1>2, <1>3, LabelList
  <2>2. PICK x \in DOMAIN l.xeLinks : link \in ToSet(l.xeLinks[x].items)
    BY <2>1
  <2>3. l.xeLinks[x] \in ToSet(l.xeLinks)
    BY DEF ToSet
  <2>4. QED BY <1>1, <2>2, <2>3
<1>4. CASE \E x \in 2..Len(l.xeLinks) : l.xeLinks[x].mark # "Z"
  <2>1. concatenateSplitLabel(l.xeLinks) = <<>>
    BY <1>4 DEF concatenateSplitLabel
  <2>2. ToSet(<<>>) = {}
    BY DEF ToSet
  <2>3. QED BY <1>1, <2>1, <2>2
<1>5. QED BY <1>1, <1>3, <1>4

\* Device ids and cards correspond one to one.
LEMMA Devices ==
    ASSUME NEW l, LabelsOK(l)
    PROVE  /\ numSortedGpuNums(l) \in Seq(Cards)
           /\ \A x, y \in DOMAIN numSortedGpuNums(l) :
                 x # y => numSortedGpuNums(l)[x] # numSortedGpuNums(l)[y]
<1> DEFINE S == ToSet(concatenateSplitLabel(l.gpuNumbers))
           R == {e \in Cards \X Cards : e[1] < e[2]}
<1>1. S \subseteq Cards
  BY GpuList DEF ToSet
<1>2. IsFiniteSet(S)
  BY <1>1, PodSharesAssumption, FS_Subset
<1>3. numSortedGpuNums(l) = CHOOSE s \in SetToSeqs(S) : \A x, y \in DOMAIN s : x < y => s[x] < s[y]
  BY DEF numSortedGpuNums
<1> HIDE DEF S
<1>4. \A a, b \in Cards : <<a, b>> \in R <=> a < b
  OBVIOUS
<1>5. Cards \subseteq Int
  BY CardSelectAssumption
<1> HIDE DEF R
<1>6. /\ \A a, b \in S : a # b => <<a, b>> \in R \/ <<b, a>> \in R
      /\ \A a, b, c \in S : <<a, b>> \in R /\ <<b, c>> \in R => <<a, c>> \in R
  BY <1>1, <1>4, <1>5
<1>7. PICK s \in SetToSeqs(S) : \A x, y \in DOMAIN s : x < y => <<s[x], s[y]>> \in R
  BY <1>2, <1>6, SortedOrder
<1>8. \A x \in DOMAIN s : s[x] \in Cards
  BY <1>1, <1>2, <1>7, OrderOfSet
<1>9. \A x, y \in DOMAIN s : x < y => s[x] < s[y]
  BY <1>4, <1>7, <1>8
<1>10. numSortedGpuNums(l) \in SetToSeqs(S)
  BY <1>3, <1>7, <1>9
<1>11. numSortedGpuNums(l) \in Seq(S) /\ \A x, y \in DOMAIN numSortedGpuNums(l) :
          x # y => numSortedGpuNums(l)[x] # numSortedGpuNums(l)[y]
  BY <1>2, <1>10, OrderOfSet
<1>12. QED BY <1>1, <1>11

\* The other end of a link that starts at a tile is a tile of another card.
LEMMA OtherEnd ==
    ASSUME NEW l, LabelsOK(l), NEW c, NEW t, getXeLinkedGPUInfo(l, c, t).gpuName # None
    PROVE  \E link \in ToSet(Links(l)) :
              /\ getXeLinkedGPUInfo(l, c, t) =
                    [gpuName |-> lZeroDeviceIDToGpuName(l, link.linked), tile |-> link.linkedSub]
              /\ t = link.sub /\ c = lZeroDeviceIDToGpuName(l, link.device)
              /\ getXeLinkedGPUInfo(l, c, t).gpuName # c
<1> DEFINE names == numSortedGpuNums(l)
           links == Links(l)
           id == gpuNameToLZeroDeviceID(l, c)
           I == {x \in 1..Len(links) : links[x].device = id /\ links[x].sub = t}
           K == {x \in 1..Len(names) : names[x] = c}
           o == getXeLinkedGPUInfo(l, c, t)
<1>1. o = IF I = {} THEN [gpuName |-> None, tile |-> -1]
          ELSE IF Min(I) = 0 THEN [gpuName |-> None, tile |-> -1]
          ELSE [gpuName |-> lZeroDeviceIDToGpuName(l, links[Min(I)].linked),
                tile |-> links[Min(I)].linkedSub]
  BY DEF getXeLinkedGPUInfo, SelectInSeq
<1>2. id = (IF K # {} THEN Min(K) ELSE 0) - 1
  BY DEF gpuNameToLZeroDeviceID, SelectInSeq
<1>3. links \in Seq(XeLinks) /\ names \in Seq(Cards)
  BY LinksType, Devices
<1>4. \A d : lZeroDeviceIDToGpuName(l, d) = IF d + 1 \in DOMAIN names THEN names[d + 1] ELSE None
  BY DEF lZeroDeviceIDToGpuName
<1>5. \A x, y \in DOMAIN names : x # y => names[x] # names[y]
  BY Devices
<1>6. o.gpuName # None
  OBVIOUS
<1> HIDE DEF names, links, id, o
<1>7. I # {} /\ I \subseteq 1..Len(links)
  BY <1>1, <1>6
<1>8. K \subseteq 1..Len(names)
  OBVIOUS
<1>9. PICK m : m = Min(I)
  OBVIOUS
<1>10. m \in I /\ m \in DOMAIN links /\ m # 0 /\ links[m] \in XeLinks
  <2> HIDE DEF I
  <2> QED BY <1>3, <1>7, <1>9, FirstOf
<1>11. PICK link : link = links[m]
  OBVIOUS
<1>12. /\ link \in ToSet(links) /\ link.device = id /\ link.sub = t
       /\ link.device \in Nat /\ link.linked \in Nat /\ link.device # link.linked
  BY <1>10, <1>11 DEF ToSet, XeLinks
<1>13. o = [gpuName |-> lZeroDeviceIDToGpuName(l, link.linked), tile |-> link.linkedSub]
  <2> HIDE DEF I
  <2> QED BY <1>1, <1>7, <1>9, <1>10, <1>11
<1>14. K # {}
  BY <1>2, <1>12
<1>15. PICK k : k = Min(K)
  OBVIOUS
<1>16. k \in K /\ k \in DOMAIN names /\ DOMAIN names = 1..Len(names) /\ Len(names) \in Nat
  <2>1. Len(names) \in Nat /\ DOMAIN names = 1..Len(names)
    BY <1>3
  <2> HIDE DEF K
  <2>2. Min(K) \in K /\ Min(K) \in DOMAIN names
    BY <1>3, <1>8, <1>14, FirstOf
  <2>3. QED BY <1>15, <2>1, <2>2
<1>17. id = k - 1 /\ k \in Nat /\ id + 1 = k /\ names[k] = c
  BY <1>2, <1>14, <1>15, <1>16
<1>18. c = lZeroDeviceIDToGpuName(l, link.device)
  BY <1>4, <1>12, <1>16, <1>17
<1>19. link.linked + 1 \in DOMAIN names /\ o.gpuName = names[link.linked + 1]
  BY <1>4, <1>6, <1>13
<1>20. link.linked + 1 # k
  BY <1>12, <1>17
<1>21. o.gpuName # c
  BY <1>5, <1>16, <1>17, <1>19, <1>20
<1>22. QED BY <1>12, <1>13, <1>18, <1>21 DEF links, o

-----------------------------------------------------------------------------
(* Amounts, and what the containers of a pod take of a card.               *)

Counts(m) == \A k \in DOMAIN m : m[k] \in Nat

\* What a map of counts has of a resource.
LEMMA AmountType == ASSUME NEW m, Counts(m), NEW k PROVE Amount(m, k) \in Nat
BY DEF Amount, Counts

\* addRM adds up, resource by resource.
LEMMA AmountAdd ==
    ASSUME NEW a, NEW b, Counts(a), Counts(b)
    PROVE  /\ Counts(AddRM(a, b))
           /\ \A k : Amount(AddRM(a, b), k) = Amount(a, k) + Amount(b, k)
<1>1. \A k : Amount(a, k) \in Nat /\ Amount(b, k) \in Nat
  BY AmountType
<1>2. \A k : Amount(AddRM(a, b), k) = Amount(a, k) + Amount(b, k)
  <2>1. TAKE k
  <2>2. CASE k \in DOMAIN a \cup DOMAIN b
    BY <2>2 DEF Amount, AddRM
  <2>3. CASE k \notin DOMAIN a \cup DOMAIN b
    BY <2>3 DEF Amount, AddRM
  <2>4. QED BY <2>2, <2>3
<1>3. DOMAIN AddRM(a, b) = DOMAIN a \cup DOMAIN b
  BY DEF AddRM
<1>4. \A k \in DOMAIN AddRM(a, b) : AddRM(a, b)[k] = Amount(a, k) + Amount(b, k)
  BY DEF AddRM
<1>5. QED BY <1>1, <1>2, <1>4 DEF Counts

\* getPerGPUResourceRequest of container x of pod p.
Per(p, x) == IF NumGPUReq(p, x) > 1 THEN Divide(Requests[p][x], NumGPUReq(p, x)) ELSE Requests[p][x]

\* A part is a natural number, and no more than the whole.
LEMMA Quotient == \A a, b \in Nat : b # 0 => a \div b \in Nat /\ a \div b <= a
<1>1. TAKE a, b \in Nat
<1>2. HAVE b # 0
<1>3. PICK q \in Int, r \in 0..(b - 1) : a = b * q + r /\ a \div b = q
  BY <1>2
<1>4. q \in Nat
  BY <1>2, <1>3
<1>5. q <= b * q
  BY <1>2, <1>4
<1>6. QED BY <1>3, <1>4, <1>5

\* Requests, and the part of them that is charged to one GPU.
LEMMA RequestType ==
    ASSUME NEW p \in Pods
    PROVE  /\ IsFiniteSet(Containers(p)) /\ Len(Requests[p]) \in Nat
           /\ Containers(p) = 1..Len(Requests[p])
           /\ \A x \in Containers(p) :
                 /\ DOMAIN Requests[p][x] \subseteq Resources /\ Counts(Requests[p][x])
                 /\ NumGPUReq(p, x) \in Nat /\ DOMAIN Per(p, x) = DOMAIN Requests[p][x]
                 /\ Counts(Per(p, x)) /\ \A k : Amount(Per(p, x), k) \in Nat
<1>1. Len(Requests[p]) \in Nat /\ Containers(p) = 1..Len(Requests[p])
  BY PodSharesAssumption DEF Containers
<1>2. IsFiniteSet(Containers(p))
  BY <1>1, FS_Interval
<1>3. ASSUME NEW x \in Containers(p)
      PROVE  /\ DOMAIN Requests[p][x] \subseteq Resources /\ Counts(Requests[p][x])
             /\ NumGPUReq(p, x) \in Nat /\ DOMAIN Per(p, x) = DOMAIN Requests[p][x]
             /\ Counts(Per(p, x)) /\ \A k : Amount(Per(p, x), k) \in Nat
  <2>1. Requests[p][x] \in ResourceMaps
    BY PodSharesAssumption DEF Containers
  <2>2. PICK D \in SUBSET Resources : Requests[p][x] \in [D -> 0..MaxInt]
    BY <2>1 DEF ResourceMaps
  <2>3. DOMAIN Requests[p][x] \subseteq Resources /\ Counts(Requests[p][x])
    BY <2>2, MaxIntAssumption DEF Counts
  <2>4. NumGPUReq(p, x) \in Nat
    BY <2>3, AmountType DEF NumGPUReq
  <2>5. DOMAIN Per(p, x) = DOMAIN Requests[p][x]
    BY DEF Per, Divide
  <2>6. Counts(Per(p, x))
    <3>1. CASE NumGPUReq(p, x) > 1
      <4>1. NumGPUReq(p, x) # 0
        BY <2>4, <3>1
      <4>2. \A k \in DOMAIN Requests[p][x] : Requests[p][x][k] \div NumGPUReq(p, x) \in Nat
        BY <2>3, <2>4, <4>1, Quotient DEF Counts
      <4>3. QED BY <3>1, <4>2 DEF Per, Divide, Counts
    <3>2. CASE ~(NumGPUReq(p, x) > 1)
      BY <2>3, <3>2 DEF Per
    <3>3. QED BY <3>1, <3>2
  <2>7. QED BY <2>3, <2>4, <2>5, <2>6, AmountType
<1>4. QED BY <1>1, <1>2, <1>3

\* What the containers of pod p take of resource k of card c when container x is
\* given the cards a[x].
Demand(p, a, c, k) == [x \in Containers(p) |-> IF c \in a[x] THEN Amount(Per(p, x), k) ELSE 0]
Charged(p, a, c, k) == SumFunctionOnSet(Demand(p, a, c, k), Containers(p))
Wanted(p, a, c, k) == \E x \in Containers(p) : c \in a[x] /\ k \in DOMAIN Requests[p][x]

\* u is the usage of the cards, on top of base, that accounts for all of it, and it
\* is within the capacity for whatever a container that is given the card asks for.
Fit(p, cap, base, u, a) ==
    \A c \in DOMAIN u, k \in Resources :
        /\ Amount(base[c], k) + Charged(p, a, c, k) <= Amount(u[c], k)
        /\ Wanted(p, a, c, k) => Amount(cap, k) > 0 /\ Amount(u[c], k) <= Amount(cap, k)

\* A card holds a demand, as checkResourceCapacity sees it.
Roomy(cap, need, u) ==
    \A k \in DOMAIN need : Amount(cap, k) > 0 /\ Amount(u, k) + need[k] <= Amount(cap, k)

\* The demand is a natural number.
LEMMA ChargedType ==
    ASSUME NEW p \in Pods, NEW a, NEW c, NEW k
    PROVE  /\ \A x \in Containers(p) : Demand(p, a, c, k)[x] \in Nat
           /\ Charged(p, a, c, k) \in Nat
<1>1. \A x \in Containers(p) : Demand(p, a, c, k)[x] \in Nat
  BY RequestType DEF Demand
<1>2. IsFiniteSet(Containers(p))
  BY RequestType
<1>3. QED BY <1>1, <1>2, SumType DEF Charged

\* Only what the cards are given for counts.
LEMMA ChargedSame ==
    ASSUME NEW p \in Pods, NEW a, NEW b, NEW c, NEW k,
           \A x \in Containers(p) : c \in a[x] <=> c \in b[x]
    PROVE  Charged(p, a, c, k) = Charged(p, b, c, k) /\ (Wanted(p, a, c, k) <=> Wanted(p, b, c, k))
<1>1. Demand(p, a, c, k) = Demand(p, b, c, k)
  BY DEF Demand
<1>2. QED BY <1>1 DEF Charged, Wanted

\* One more container that is given the card adds its part.
LEMMA ChargedMore ==
    ASSUME NEW p \in Pods, NEW a, NEW b, NEW c, NEW k, NEW y \in Containers(p),
           \A x \in Containers(p) \ {y} : c \in a[x] <=> c \in b[x],
           c \notin a[y], c \in b[y]
    PROVE  Charged(p, b, c, k) = Charged(p, a, c, k) + Amount(Per(p, y), k)
<1> DEFINE f == Demand(p, b, c, k)
           h == Demand(p, a, c, k)
<1>1. \A x \in Containers(p) : f[x] \in Nat /\ h[x] \in Nat
  BY ChargedType
<1>2. \A x \in Containers(p) \ {y} : f[x] = h[x]
  BY DEF Demand
<1>3. h[y] = 0 /\ f[y] = Amount(Per(p, y), k)
  BY DEF Demand
<1>4. IsFiniteSet(Containers(p))
  BY RequestType
<1>5. SumFunctionOnSet(f, Containers(p)) \in Nat /\ SumFunctionOnSet(h, Containers(p)) \in Nat
  BY ChargedType DEF Charged
<1> HIDE DEF f, h
<1>6. SumFunctionOnSet(f, Containers(p)) + h[y] = SumFunctionOnSet(h, Containers(p)) + f[y]
  BY <1>1, <1>2, <1>4, SumDiffer
<1>7. SumFunctionOnSet(f, Containers(p)) = SumFunctionOnSet(h, Containers(p)) + f[y]
  BY <1>3, <1>5, <1>6
<1>8. QED BY <1>3, <1>7 DEF Charged, f, h

\* Container y is given the cards C, which have room for it: its cards a become b and
\* the usage u becomes v.
PlacedOn(C, y, p, cap, u, v, a, b) ==
    /\ y \in Containers(p) /\ C \subseteq DOMAIN u /\ C \cap a[y] = {}
    /\ \A c \in C : Roomy(cap, Per(p, y), u[c])
    /\ \A x \in Containers(p) : b[x] = IF x = y THEN a[y] \cup C ELSE a[x]
    /\ DOMAIN v = DOMAIN u
    /\ \A c \in DOMAIN u : v[c] = IF c \in C THEN AddRM(u[c], Per(p, y)) ELSE u[c]

\* Charging a container's part to cards that it is not given yet, and that have room.
LEMMA FitPlace ==
    ASSUME NEW p \in Pods, NEW cap, NEW base, NEW u, NEW v, NEW a, NEW b, NEW C, NEW y,
           Fit(p, cap, base, u, a), \A c \in DOMAIN u : Counts(u[c]) /\ Counts(base[c]),
           PlacedOn(C, y, p, cap, u, v, a, b)
    PROVE  Fit(p, cap, base, v, b) /\ \A c \in DOMAIN v : Counts(v[c])
<1> USE DEF PlacedOn
<1>1. Counts(Per(p, y)) /\ DOMAIN Per(p, y) = DOMAIN Requests[p][y]
  BY RequestType
<1>2. \A c \in DOMAIN v : Counts(v[c])
  BY <1>1, AmountAdd
<1>3. ASSUME NEW c \in DOMAIN u, NEW k \in Resources, c \notin C
      PROVE  /\ Amount(base[c], k) + Charged(p, b, c, k) <= Amount(v[c], k)
             /\ Wanted(p, b, c, k) => Amount(cap, k) > 0 /\ Amount(v[c], k) <= Amount(cap, k)
  <2>1. \A x \in Containers(p) : c \in a[x] <=> c \in b[x]
    BY <1>3
  <2>2. Charged(p, a, c, k) = Charged(p, b, c, k) /\ (Wanted(p, a, c, k) <=> Wanted(p, b, c, k))
    BY <2>1, ChargedSame
  <2>3. v[c] = u[c]
    BY <1>3
  <2>4. QED BY <2>2, <2>3 DEF Fit
<1>4. ASSUME NEW c \in C, NEW k \in Resources
      PROVE  /\ Amount(base[c], k) + Charged(p, b, c, k) <= Amount(v[c], k)
             /\ Wanted(p, b, c, k) => Amount(cap, k) > 0 /\ Amount(v[c], k) <= Amount(cap, k)
  <2>1. c \in DOMAIN u /\ c \notin a[y] /\ c \in b[y]
    OBVIOUS
  <2>2. \A x \in Containers(p) \ {y} : c \in a[x] <=> c \in b[x]
    OBVIOUS
  <2>3. Charged(p, b, c, k) = Charged(p, a, c, k) + Amount(Per(p, y), k)
    BY <2>1, <2>2, ChargedMore
  <2>4. Amount(v[c], k) = Amount(u[c], k) + Amount(Per(p, y), k)
    BY <1>1, <2>1, AmountAdd
  <2>5. /\ Amount(base[c], k) \in Nat /\ Amount(u[c], k) \in Nat /\ Amount(Per(p, y), k) \in Nat
        /\ Charged(p, a, c, k) \in Nat
    BY <1>1, <2>1, AmountType, ChargedType
  <2>6. Amount(base[c], k) + Charged(p, a, c, k) <= Amount(u[c], k)
    BY <2>1 DEF Fit
  <2>7. Amount(base[c], k) + Charged(p, b, c, k) <= Amount(v[c], k)
    BY <2>3, <2>4, <2>5, <2>6
  <2>8. CASE k \in DOMAIN Requests[p][y]
    <3>1. Amount(cap, k) > 0 /\ Amount(u[c], k) + Per(p, y)[k] <= Amount(cap, k)
      BY <1>1, <2>8 DEF Roomy
    <3>2. Amount(Per(p, y), k) = Per(p, y)[k]
      BY <1>1, <2>8 DEF Amount
    <3>3. QED BY <2>4, <2>7, <3>1, <3>2
  <2>9. CASE k \notin DOMAIN Requests[p][y]
    <3>1. Amount(Per(p, y), k) = 0
      BY <1>1, <2>9 DEF Amount
    <3>2. Wanted(p, b, c, k) => Wanted(p, a, c, k)
      BY <2>2, <2>9 DEF Wanted
    <3>3. Wanted(p, a, c, k) => Amount(cap, k) > 0 /\ Amount(u[c], k) <= Amount(cap, k)
      BY <2>1 DEF Fit
    <3>4. Amount(v[c], k) = Amount(u[c], k)
      BY <2>4, <2>5, <3>1
    <3>5. QED BY <2>7, <3>2, <3>3, <3>4
  <2>10. QED BY <2>8, <2>9
<1>5. Fit(p, cap, base, v, b)
  BY <1>3, <1>4 DEF Fit
<1>6. QED BY <1>2, <1>5

\* A container gives its cards back; what it was charged stays.
LEMMA FitDrop ==
    ASSUME NEW p \in Pods, NEW cap, NEW base, NEW u, NEW a, NEW b,
           NEW y \in Containers(p), Fit(p, cap, base, u, a),
           \A c \in DOMAIN u : Counts(u[c]) /\ Counts(base[c]),
           \A x \in Containers(p) : b[x] = IF x = y THEN {} ELSE a[x]
    PROVE  Fit(p, cap, base, u, b)
<1> SUFFICES ASSUME NEW c \in DOMAIN u, NEW k \in Resources
             PROVE  /\ Amount(base[c], k) + Charged(p, b, c, k) <= Amount(u[c], k)
                    /\ Wanted(p, b, c, k) => Amount(cap, k) > 0 /\ Amount(u[c], k) <= Amount(cap, k)
  BY DEF Fit
<1>1. /\ Amount(base[c], k) + Charged(p, a, c, k) <= Amount(u[c], k)
      /\ Wanted(p, a, c, k) => Amount(cap, k) > 0 /\ Amount(u[c], k) <= Amount(cap, k)
  BY DEF Fit
<1>2. /\ Amount(base[c], k) \in Nat /\ Amount(u[c], k) \in Nat /\ Charged(p, a, c, k) \in Nat
      /\ Charged(p, b, c, k) \in Nat /\ Amount(Per(p, y), k) \in Nat
  BY AmountType, ChargedType, RequestType
<1>3. Charged(p, b, c, k) <= Charged(p, a, c, k)
  <2>1. CASE c \in a[y]
    <3>1. Charged(p, a, c, k) = Charged(p, b, c, k) + Amount(Per(p, y), k)
      BY <2>1, ChargedMore
    <3>2. QED BY <1>2, <3>1
  <2>2. CASE c \notin a[y]
    <3>1. Charged(p, a, c, k) = Charged(p, b, c, k)
      BY <2>2, ChargedSame
    <3>2. QED BY <1>2, <3>1
  <2>3. QED BY <2>1, <2>2
<1>4. Wanted(p, b, c, k) => Wanted(p, a, c, k)
  BY DEF Wanted
<1>5. QED BY <1>1, <1>2, <1>3, <1>4

\* A card that no container is given is charged nothing.
LEMMA ChargedNone ==
    ASSUME NEW p \in Pods, NEW a, NEW c, NEW k, \A x \in Containers(p) : c \notin a[x]
    PROVE  Charged(p, a, c, k) = 0 /\ ~Wanted(p, a, c, k)
<1>1. \A x \in Containers(p) : Demand(p, a, c, k)[x] \in Nat /\ Demand(p, a, c, k)[x] = 0
  BY DEF Demand
<1>2. IsFiniteSet(Containers(p)) /\ {} \in SUBSET Containers(p)
  BY RequestType
<1>3. SumFunctionOnSet(Demand(p, a, c, k), Containers(p)) = SumFunctionOnSet(Demand(p, a, c, k), {})
  BY <1>1, <1>2, SumZeroOutside
<1>4. QED BY <1>3, SumEmpty DEF Charged, Wanted

\* Ones add up to the size of the set.
LEMMA SumOnes ==
    ASSUME NEW f, NEW S, IsFiniteSet(S), \A x \in S : f[x] = 1
    PROVE  SumFunctionOnSet(f, S) = Cardinality(S)
<1> DEFINE Bad == {U \in SUBSET S : SumFunctionOnSet(f, U) # Cardinality(U)}
<1> SUFFICES ASSUME Bad # {} PROVE FALSE
  OBVIOUS
<1>0. Bad \in SUBSET (SUBSET S)
  OBVIOUS
<1>1. PICK U \in Bad : \A W \in Bad : W \subseteq U => W = U
  <2> HIDE DEF Bad
  <2> QED BY <1>0, Smallest
<1>2. U \subseteq S /\ SumFunctionOnSet(f, U) # Cardinality(U)
  BY <1>1
<1>3. IsFiniteSet(U)
  BY <1>2, FS_Subset
<1>4. U # {}
  BY <1>2, SumEmpty, FS_EmptySet
<1>5. PICK x \in U : TRUE
  BY <1>4
<1>6. U \ {x} \notin Bad
  BY <1>1, <1>5
<1>7. SumFunctionOnSet(f, U \ {x}) = Cardinality(U \ {x})
  BY <1>2, <1>6
<1>8. \A y \in U : f[y] \in Nat /\ f[y] = 1
  BY <1>2
<1>9. SumFunctionOnSet(f, U) = f[x] + SumFunctionOnSet(f, U \ {x})
  BY <1>3, <1>8, SumRemove
<1>10. Cardinality(U \ {x}) = Cardinality(U) - 1 /\ Cardinality(U) \in Nat
  BY <1>3, FS_RemoveElement, FS_CardinalityType
<1> HIDE DEF Bad
<1>11. QED BY <1>2, <1>7, <1>8, <1>9, <1>10

\* combineSamegpuResourceRequests, for the containers T of pod p.
CombinedOf(p, T) ==
    [k \in UNION {DOMAIN Requests[p][x] : x \in T} |->
        IF k = I915 THEN 1
        ELSE SumFunctionOnSet([x \in T |-> Amount(Requests[p][x], k)], T)]

\* Card o has room for the combined requests of the containers T and a share for each
\* of them, and is charged both.
SharedOn(o, T, p, cap, u, v, b) ==
    /\ T \in SUBSET Containers(p) /\ T # {} /\ o \in DOMAIN u /\ \A x \in T : NumGPUReq(p, x) = 1
    /\ Roomy(cap, CombinedOf(p, T), u[o])
    /\ Amount(cap, I915) - Amount(u[o], I915) >= Cardinality(T)
    /\ \A x \in Containers(p) : b[x] = IF x \in T THEN {o} ELSE {}
    /\ DOMAIN v = DOMAIN u
    /\ \A c \in DOMAIN u : v[c] =
          IF c = o THEN AddRM(AddRM(u[c], CombinedOf(p, T)), [k \in {I915} |-> Cardinality(T) - 1])
          ELSE u[c]

\* Containers that ask for one GPU each share a card.
LEMMA FitShare ==
    ASSUME NEW p \in Pods, NEW cap, NEW u, NEW v, NEW b, NEW T, NEW o,
           \A c \in DOMAIN u : Counts(u[c]), Counts(cap), SharedOn(o, T, p, cap, u, v, b)
    PROVE  Fit(p, cap, u, v, b) /\ \A c \in DOMAIN v : Counts(v[c])
<1> USE DEF SharedOn
<1> DEFINE comb == CombinedOf(p, T)
           more == [k \in {I915} |-> Cardinality(T) - 1]
           Sum(k) == SumFunctionOnSet([x \in T |-> Amount(Requests[p][x], k)], T)
<1>1. IsFiniteSet(Containers(p)) /\ IsFiniteSet(T)
  BY RequestType, FS_Subset
<1>2. Cardinality(T) \in Nat /\ Cardinality(T) # 0
  BY <1>1, FS_CardinalityType, FS_EmptySet
<1>3. \A x \in T : /\ Counts(Requests[p][x]) /\ Amount(Requests[p][x], I915) = 1
                   /\ Per(p, x) = Requests[p][x] /\ \A k : Amount(Requests[p][x], k) \in Nat
  <2>1. TAKE x \in T
  <2>2. Counts(Requests[p][x]) /\ NumGPUReq(p, x) = 1
    BY RequestType
  <2>3. Per(p, x) = Requests[p][x]
    BY <2>2 DEF Per
  <2>4. QED BY <2>2, <2>3, AmountType DEF NumGPUReq
<1>4. ASSUME NEW k PROVE Sum(k) \in Nat
  <2> DEFINE f == [x \in T |-> Amount(Requests[p][x], k)]
  <2>1. \A x \in T : f[x] \in Nat
    BY <1>3
  <2> HIDE DEF f
  <2>2. QED BY <1>1, <2>1, SumType DEF f
<1>5. DOMAIN comb = UNION {DOMAIN Requests[p][x] : x \in T}
      /\ \A k \in DOMAIN comb : comb[k] = IF k = I915 THEN 1 ELSE Sum(k)
  BY DEF CombinedOf
<1>6. Counts(comb) /\ Counts(more)
  <2>1. Counts(more)
    BY <1>2 DEF Counts
  <2> HIDE DEF comb, Sum
  <2>2. QED BY <1>4, <1>5, <2>1 DEF Counts
<1>7. \A k : Amount(more, k) = IF k = I915 THEN Cardinality(T) - 1 ELSE 0
  BY DEF Amount
<1>8. I915 \in DOMAIN comb
  <2>1. PICK x \in T : TRUE
    OBVIOUS
  <2>2. I915 \in DOMAIN Requests[p][x]
    BY <1>3, <2>1 DEF Amount
  <2>3. QED BY <1>5, <2>1, <2>2
<1>9. ASSUME NEW k PROVE Charged(p, b, o, k) = Sum(k)
  <2> DEFINE f == Demand(p, b, o, k)
             h == [x \in T |-> Amount(Requests[p][x], k)]
  <2>1. \A x \in Containers(p) : f[x] \in Nat
    BY ChargedType
  <2>2. \A x \in Containers(p) \ T : f[x] = 0
    BY DEF Demand
  <2>3. \A x \in T : f[x] = h[x]
    <3>1. TAKE x \in T
    <3>2. f[x] = Amount(Per(p, x), k)
      BY DEF Demand
    <3>3. QED BY <1>3, <3>2
  <2>4. Charged(p, b, o, k) = SumFunctionOnSet(f, Containers(p)) /\ Sum(k) = SumFunctionOnSet(h, T)
    BY DEF Charged
  <2> HIDE DEF f, h, Sum
  <2>5. SumFunctionOnSet(f, Containers(p)) = SumFunctionOnSet(f, T)
    BY <1>1, <2>1, <2>2, SumZeroOutside
  <2>6. SumFunctionOnSet(f, T) = SumFunctionOnSet(h, T)
    BY <1>1, <2>3, SumAgree
  <2>7. QED BY <2>4, <2>5, <2>6
<1>10. Sum(I915) = Cardinality(T)
  <2> DEFINE h == [x \in T |-> Amount(Requests[p][x], I915)]
  <2>1. \A x \in T : h[x] = 1
    BY <1>3
  <2> HIDE DEF h
  <2>2. QED BY <1>1, <2>1, SumOnes DEF h
<1>11. ASSUME NEW k, k \notin DOMAIN comb PROVE Sum(k) = 0
  <2> DEFINE h == [x \in T |-> Amount(Requests[p][x], k)]
  <2>1. \A x \in T : h[x] = 0 /\ h[x] \in Nat
    BY <1>5, <1>11 DEF Amount
  <2>2. {} \in SUBSET T
    OBVIOUS
  <2> HIDE DEF h
  <2>3. SumFunctionOnSet(h, T) = SumFunctionOnSet(h, {})
    BY <1>1, <2>1, <2>2, SumZeroOutside
  <2>4. QED BY <2>3, SumEmpty DEF h
<1> HIDE DEF comb, more, Sum
<1>12. /\ Counts(v[o])
       /\ \A k : Amount(v[o], k) = (Amount(u[o], k) + Amount(comb, k)) + Amount(more, k)
  <2>1. v[o] = AddRM(AddRM(u[o], comb), more)
    BY DEF comb, more
  <2>2. Counts(AddRM(u[o], comb)) /\ \A k :
            Amount(AddRM(u[o], comb), k) = Amount(u[o], k) + Amount(comb, k)
    BY <1>6, AmountAdd
  <2>3. QED BY <1>6, <2>1, <2>2, AmountAdd
<1>13. \A k : Amount(u[o], k) \in Nat /\ Amount(comb, k) \in Nat /\ Amount(cap, k) \in Nat
  BY <1>6, AmountType
<1>14. \A k : Amount(v[o], k) = Amount(u[o], k) + Sum(k)
  <2>1. TAKE k
  <2>2. CASE k = I915
    <3>1. Amount(comb, k) = 1 /\ Amount(more, k) = Cardinality(T) - 1
      BY <1>5, <1>7, <1>8, <2>2 DEF Amount
    <3>2. QED BY <1>2, <1>10, <1>12, <1>13, <2>2, <3>1
  <2>3. CASE k # I915 /\ k \in DOMAIN comb
    <3>1. Amount(comb, k) = Sum(k) /\ Amount(more, k) = 0
      BY <1>5, <1>7, <2>3 DEF Amount
    <3>2. QED BY <1>12, <1>13, <3>1
  <2>4. CASE k \notin DOMAIN comb
    <3>1. Amount(comb, k) = 0 /\ Amount(more, k) = 0 /\ Sum(k) = 0
      BY <1>7, <1>8, <1>11, <2>4 DEF Amount
    <3>2. QED BY <1>12, <1>13, <3>1
  <2>5. QED BY <2>2, <2>3, <2>4
<1>15. \A c \in DOMAIN v : Counts(v[c])
  BY <1>12
<1>16. ASSUME NEW c \in DOMAIN v, NEW k \in Resources, c # o
       PROVE  /\ Amount(u[c], k) + Charged(p, b, c, k) <= Amount(v[c], k)
              /\ Wanted(p, b, c, k) => Amount(cap, k) > 0 /\ Amount(v[c], k) <= Amount(cap, k)
  <2>1. Charged(p, b, c, k) = 0 /\ ~Wanted(p, b, c, k)
    BY <1>16, ChargedNone
  <2>2. v[c] = u[c] /\ Amount(u[c], k) \in Nat
    BY <1>16, AmountType
  <2>3. QED BY <2>1, <2>2
<1>17. ASSUME NEW k \in Resources
       PROVE  /\ Amount(u[o], k) + Charged(p, b, o, k) <= Amount(v[o], k)
              /\ Wanted(p, b, o, k) => Amount(cap, k) > 0 /\ Amount(v[o], k) <= Amount(cap, k)
  <2>1. Amount(u[o], k) + Charged(p, b, o, k) <= Amount(v[o], k)
    <3>1. Sum(k) \in Nat /\ Charged(p, b, o, k) = Sum(k)
      BY <1>4, <1>9
    <3>2. Amount(u[o], k) \in Nat /\ Amount(v[o], k) = Amount(u[o], k) + Sum(k)
      BY <1>13, <1>14
    <3>3. QED BY <3>1, <3>2
  <2>2. ASSUME Wanted(p, b, o, k) PROVE Amount(cap, k) > 0 /\ Amount(v[o], k) <= Amount(cap, k)
    <3>1. PICK x \in Containers(p) : o \in b[x] /\ k \in DOMAIN Requests[p][x]
      BY <2>2 DEF Wanted
    <3>2. x \in T
      BY <3>1
    <3>3. k \in DOMAIN comb
      BY <1>5, <3>1, <3>2
    <3>4. Amount(cap, k) > 0 /\ Amount(u[o], k) + comb[k] <= Amount(cap, k)
      BY <3>3 DEF Roomy, comb
    <3>5. CASE k = I915
      BY <1>2, <1>10, <1>13, <1>14, <3>4, <3>5
    <3>6. CASE k # I915
      BY <1>5, <1>14, <3>3, <3>4, <3>6
    <3>7. QED BY <3>5, <3>6
  <2>3. QED BY <2>1, <2>2
<1>18. QED BY <1>15, <1>16, <1>17 DEF Fit

-----------------------------------------------------------------------------
(* The inductive invariant of the search. *)

Search == pc \in {"samegpu", "containers", "fits", "convert", "annotated"}

LinkTiles(l) ==
    {None} \cup {x.sub : x \in ToSet(Links(l))} \cup {x.linkedSub : x \in ToSet(Links(l))}

\* What a container can be given: a card of the node, and the tile of a link or None.
Ends == [gpuName : DOMAIN NodeResourcesUsed, tile : LinkTiles(labels)]

Distinct(list) == \A x, y \in DOMAIN list : x # y => list[x].gpuName # list[y].gpuName

\* The cards that each container has been given so far.
Assigned ==
    [x \in Containers(pod) |->
        IF x \in DOMAIN containerCards THEN Names(containerCards[x])
        ELSE IF x \in samegpu THEN Names(samegpuCard)
        ELSE IF x = i THEN Names(cards) ELSE {}]

RequestInv ==
    /\ ask \in Asks /\ nodes \in Clusters
    /\ todo \in Seq(Nodes) /\ nodeNames \in Seq(Nodes) /\ preferredNodeNames \in Seq(Nodes)
    /\ pc \notin {"request", "notFound", "nodes"} => node \in Nodes

ListsTyped ==
    /\ cards \in Seq(Ends) /\ samegpuCard \in Seq(Ends) /\ containerCards \in Seq(Seq(Ends))
    /\ Len(containerCards) <= Len(Requests[pod])
    /\ gpuMaps # <<>> => g \in DOMAIN gpuMaps
    /\ DOMAIN used = DOMAIN NodeResourcesUsed /\ \A c \in DOMAIN used : Counts(used[c])

ListsKept ==
    /\ pc = "samegpu" =>
          used = NodeResourcesUsed /\ containerCards = <<>> /\ cards = <<>> /\ samegpuCard = <<>>
    /\ cards # <<>> => i \in Containers(pod) \ samegpu
    /\ Distinct(cards)
    /\ pc # "samegpu" /\ samegpu # {} =>
          SamegpuAllowed /\ \E c \in DOMAIN NodeResourcesUsed : samegpuCard = <<Plain(c)>>
    /\ \A x \in DOMAIN containerCards :
          IF x \in samegpu THEN containerCards[x] = samegpuCard
          ELSE Distinct(containerCards[x]) /\ Len(containerCards[x]) = NumGPUReq(pod, x)

SearchInv ==
    Search =>
        /\ Checks /\ ListsTyped /\ ListsKept
        /\ Fit(pod, PerGPUCapacity, NodeResourcesUsed, used, Assigned)

\* The cards of a list are from one GPU map, and may be used.
Permitted(list, gpuMap) == \A c \in Names(list) : c \in gpuMap /\ isGPUUsable(ann, labels, c)

AllowInv ==
    Search =>
        /\ Permitted(cards, gpuMaps[g])
        /\ samegpuCard # <<>> => \E m \in DOMAIN gpuMaps : Permitted(samegpuCard, gpuMaps[m])
        /\ \A x \in DOMAIN containerCards :
              \E m \in DOMAIN gpuMaps : Permitted(containerCards[x], gpuMaps[m])

\* The labels prefer cards that the node has.
PreferredKnown == findNodesPreferredGPU(labels) \subseteq {None} \cup DOMAIN NodeResourcesUsed

\* The pod is about to get card c.
Held(c) ==
    \/ c \in Names(cards)
    \/ samegpu # {} /\ c \in Names(samegpuCard)
    \/ \E x \in DOMAIN containerCards : c \in Names(containerCards[x])

PrefInv ==
    Search /\ preferred /\ PreferredKnown => \E c \in findNodesPreferredGPU(labels) : Held(c)

\* Two entries are the ends of a link.
Joins(one, other) ==
    \E link \in ToSet(Links(labels)) :
        /\ one = [gpuName |-> lZeroDeviceIDToGpuName(labels, link.device), tile |-> link.sub]
        /\ other = [gpuName |-> lZeroDeviceIDToGpuName(labels, link.linked),
             tile |-> link.linkedSub]

Paired(list) ==
    /\ Len(list) % 2 = 0
    /\ \A x \in DOMAIN list : x % 2 = 1 => x + 1 \in DOMAIN list /\ Joins(list[x], list[x + 1])

\* An entry names an end of a link, a tile that is free and has been set aside.
SetAside(end) ==
    /\ end.tile \in allocating[end.gpuName]
    /\ end.tile \notin UsedTiles(end.gpuName) \cup TilesOf(Disabled(end.gpuName))
    /\ \E link \in ToSet(Links(labels)) : end.tile \in {link.sub, link.linkedSub}

Reserved(list) == \A x \in DOMAIN list : SetAside(list[x])

\* Without xe-links no entry names a tile.
Plains(list) == \A x \in DOMAIN list : list[x].tile = None

PlainInv ==
    Search /\ ~ann.xelink => Plains(cards) /\ \A x \in DOMAIN containerCards :
        Plains(containerCards[x])

XeInv ==
    Search /\ ann.xelink =>
        /\ DOMAIN allocating = Cards
        /\ Paired(cards) /\ Reserved(cards)
        /\ \A x \in DOMAIN containerCards :
              /\ Paired(containerCards[x]) /\ Reserved(containerCards[x])
              /\ ToSet(containerCards[x]) \cap ToSet(cards) = {}
              /\ \A y \in DOMAIN containerCards \ {x} :
                    ToSet(containerCards[x]) \cap ToSet(containerCards[y]) = {}

\* With xe-links: the links of the label join tiles that the GPUs have, and the
\* containers request as many tiles as GPUs.
XeLinksSound ==
    ann.xelink =>
        /\ \A link \in ToSet(Links(labels)) : \A t \in {link.sub, link.linkedSub} :
              t \in Tiles /\ t < TilesPerGpu
        /\ \A x \in Containers(pod) : Amount(Requests[pod][x], TileRes) = NumGPUReq(pod, x)

Given == UNION {[C -> SUBSET Tiles] : C \in SUBSET Cards}

TilesInv ==
    /\ tiles \in Seq(Given)
    /\ pc \notin {"convert", "annotated"} => tiles = <<>>
    /\ pc \in {"convert", "annotated"} =>
          /\ Len(containerCards) = Len(Requests[pod]) /\ Len(tiles) <= Len(containerCards)
          /\ \A x \in DOMAIN tiles : DOMAIN tiles[x] = CardsOf(x)

GrantInv ==
    pc \in {"convert", "annotated"} /\ XeLinksSound =>
        /\ TilesGranted
        /\ ann.xelink => \A x \in DOMAIN tiles : \A end \in ToSet(containerCards[x]) :
                            tiles[x][end.gpuName] = {end.tile}

-----------------------------------------------------------------------------
(* The node at hand. *)

\* What does not depend on the search stays as it is during one.
LEMMA SameNode ==
    ASSUME ask' = ask, nodes' = nodes, node' = node
    PROVE  /\ pod' = pod /\ ann' = ann /\ labels' = labels /\ load' = load
           /\ gpus' = gpus /\ gpuMaps' = gpuMaps /\ samegpu' = samegpu
           /\ PerGPUCapacity' = PerGPUCapacity /\ NodeResourcesUsed' = NodeResourcesUsed
           /\ Ends' = Ends /\ Checks' = Checks /\ SamegpuAllowed' = SamegpuAllowed
<1>1. pod' = pod /\ ann' = ann /\ labels' = labels /\ load' = load /\ nodes[node]' = nodes[node]
  BY DEF pod, ann, labels, load
<1>2. gpus' = gpus /\ gpuMaps' = gpuMaps /\ samegpu' = samegpu
  BY <1>1 DEF gpus, gpuMaps, samegpu
<1>3. PerGPUCapacity' = PerGPUCapacity
  BY <1>1, <1>2 DEF PerGPUCapacity
<1>4. NodeResourcesUsed' = NodeResourcesUsed
  BY <1>1, <1>2, <1>3 DEF NodeResourcesUsed, Books, Unavailable, Disabled, UsedTiles, TilesPerGpu
<1>5. Ends' = Ends
  BY <1>1, <1>4 DEF Ends
<1>6. Checks' = Checks
  BY <1>1, <1>2 DEF Checks, Readable, SamegpuParses
<1>7. SamegpuAllowed' = SamegpuAllowed
  BY <1>1, <1>2 DEF SamegpuAllowed
<1>8. QED BY <1>1, <1>2, <1>3, <1>4, <1>5, <1>6, <1>7

\* The pod and the node of a request are what the assumptions say.
LEMMA Inputs ==
    ASSUME RequestInv, node \in Nodes
    PROVE  /\ pod \in Pods /\ LabelsOK(labels) /\ nodes[node].capacity \in ResourceMaps
           /\ DOMAIN load \subseteq Cards
           /\ \A c \in DOMAIN load : load[c].shares \in Nat /\ load[c].tiles \subseteq Tiles
<1>1. ask \in Asks /\ nodes \in Clusters
  BY DEF RequestInv
<1>2. QED BY <1>1, CardSelectAssumption DEF pod, labels, load

\* The capacity of a GPU, the books and what is used of the cards are amounts.
LEMMA NodeFacts ==
    ASSUME RequestInv, node \in Nodes
    PROVE  /\ DOMAIN NodeResourcesUsed \subseteq Cards /\ IsFiniteSet(DOMAIN NodeResourcesUsed)
           /\ Counts(PerGPUCapacity) /\ \A k : Amount(PerGPUCapacity, k) <= MaxInt
           /\ \A c \in DOMAIN NodeResourcesUsed :
                 /\ Counts(NodeResourcesUsed[c]) /\ Counts(Books(c))
                 /\ \A k : Amount(Books(c), k) <= Amount(NodeResourcesUsed[c], k)
<1>1. /\ LabelsOK(labels) /\ nodes[node].capacity \in ResourceMaps /\ DOMAIN load \subseteq Cards
      /\ \A c \in DOMAIN load : load[c].shares \in Nat /\ load[c].tiles \subseteq Tiles
  BY Inputs
<1>2. gpus \in Seq(Cards) /\ ToSet(gpus) \subseteq Cards
  BY <1>1, GpuList DEF gpus
<1>3. DOMAIN NodeResourcesUsed = DOMAIN load \cup ToSet(gpus)
  BY DEF NodeResourcesUsed
<1>4. DOMAIN NodeResourcesUsed \subseteq Cards
  BY <1>1, <1>2, <1>3
<1>5. IsFiniteSet(DOMAIN NodeResourcesUsed)
  BY <1>4, PodSharesAssumption, FS_Subset
<1>6. Counts(PerGPUCapacity) /\ \A k : Amount(PerGPUCapacity, k) <= MaxInt
  <2>1. CASE gpus = <<>>
    <3>1. PerGPUCapacity = EmptyMap /\ DOMAIN EmptyMap = {}
      BY <2>1 DEF PerGPUCapacity, EmptyMap
    <3>2. QED BY <3>1, MaxIntAssumption DEF Counts, Amount
  <2>2. CASE gpus # <<>>
    <3>1. PerGPUCapacity = Divide(nodes[node].capacity, Len(gpus))
      BY <2>2 DEF PerGPUCapacity
    <3>2. Len(gpus) \in Nat /\ Len(gpus) # 0
      BY <1>2, <2>2
    <3>3. PICK D \in SUBSET Resources : nodes[node].capacity \in [D -> 0..MaxInt]
      BY <1>1 DEF ResourceMaps
    <3>4. PICK q : q = nodes[node].capacity
      OBVIOUS
    <3>5. DOMAIN q = D /\ \A k \in D : q[k] \in Nat /\ q[k] <= MaxInt
      BY <3>3, <3>4, MaxIntAssumption
    <3>6. \A k \in D : q[k] \div Len(gpus) \in Nat /\ q[k] \div Len(gpus) <= q[k]
      BY <3>2, <3>5, Quotient
    <3>7. DOMAIN PerGPUCapacity = D /\ \A k \in D : PerGPUCapacity[k] = q[k] \div Len(gpus)
      BY <3>1, <3>4, <3>5 DEF Divide
    <3>8. \A k \in D : PerGPUCapacity[k] \in Nat /\ PerGPUCapacity[k] <= MaxInt
      BY <3>5, <3>6, <3>7, MaxIntAssumption
    <3>9. QED BY <3>7, <3>8, MaxIntAssumption DEF Counts, Amount
  <2>3. QED BY <2>1, <2>2
<1>7. ASSUME NEW c \in DOMAIN NodeResourcesUsed
      PROVE  /\ Counts(NodeResourcesUsed[c]) /\ Counts(Books(c))
             /\ \A k : Amount(Books(c), k) <= Amount(NodeResourcesUsed[c], k)
  <2>1. Counts(Books(c))
    <3>1. CASE c \notin DOMAIN load
      BY <3>1 DEF Books, EmptyMap, Counts
    <3>2. CASE c \in DOMAIN load
      <4>1. load[c].shares \in Nat /\ load[c].tiles \subseteq Tiles
        BY <1>1, <3>2
      <4>2. Cardinality(load[c].tiles) \in Nat
        BY <4>1, PodSharesAssumption, FS_Subset, FS_CardinalityType
      <4>3. Books(c) = [k \in {I915, TileRes} |->
                          IF k = I915 THEN load[c].shares ELSE Cardinality(load[c].tiles)]
        BY <3>2 DEF Books
      <4>4. DOMAIN Books(c) = {I915, TileRes} /\ \A k \in {I915, TileRes} : Books(c)[k] \in Nat
        BY <4>1, <4>2, <4>3
      <4>5. QED BY <4>4 DEF Counts
    <3>3. QED BY <3>1, <3>2
  <2>2. Unavailable(c) \in Nat
    <3>1. {x \in Disabled(c) : x.tile \notin UsedTiles(c)} \subseteq labels.tas
      BY DEF Disabled, sanitizeTiles, DisabledTiles, TasLabels
    <3>2. IsFiniteSet({x \in Disabled(c) : x.tile \notin UsedTiles(c)})
      BY <1>1, <3>1, FS_Subset DEF LabelsOK
    <3>3. QED BY <3>2, FS_CardinalityType DEF Unavailable
  <2>3. PICK m : m = [k \in {TileRes} |-> Unavailable(c)]
    OBVIOUS
  <2>4. Counts(m)
    BY <2>2, <2>3 DEF Counts
  <2>5. NodeResourcesUsed[c] = AddRM(Books(c), m)
    BY <1>3, <2>3 DEF NodeResourcesUsed
  <2>6. /\ Counts(NodeResourcesUsed[c])
        /\ \A k : Amount(NodeResourcesUsed[c], k) = Amount(Books(c), k) + Amount(m, k)
    BY <2>1, <2>4, <2>5, AmountAdd
  <2>7. \A k : Amount(Books(c), k) \in Nat /\ Amount(m, k) \in Nat
    BY <2>1, <2>4, AmountType
  <2>8. QED BY <2>1, <2>6, <2>7
<1>8. QED BY <1>4, <1>5, <1>6, <1>7

\* checkResourceCapacity passes: the card has room.
LEMMA EnoughIsRoomy ==
    ASSUME NEW need, NEW u, Enough(need, u)
    PROVE  Roomy(PerGPUCapacity, need, u)
BY DEF Enough, Roomy

\* The order in which the cards are tried has each card of the node, and the
\* preferred one first.
LEMMA NamesInOrder ==
    ASSUME DOMAIN used \subseteq Cards, IsFiniteSet(DOMAIN used),
           \A c \in DOMAIN used : Counts(used[c]), NEW pref
    PROVE  /\ GpuNames(pref) \in Seq(DOMAIN used) /\ ToSet(GpuNames(pref)) = DOMAIN used
           /\ pref \in DOMAIN used => GpuNames(pref)[1] = pref
<1> DEFINE D == DOMAIN used
           Am(c) == Amount(used[c], balanced)
           R == {e \in D \X D : Less(e[1], e[2])}
<1>1. D \subseteq Int /\ \A c \in D : Am(c) \in Nat
  <2>1. Cards \subseteq Int
    BY CardSelectAssumption
  <2>2. D \subseteq Int
    BY <2>1
  <2>3. \A c \in D : Am(c) \in Nat
    BY AmountType
  <2>4. QED BY <2>2, <2>3
<1>2. \A a, b \in D : <<a, b>> \in R <=> Less(a, b)
  OBVIOUS
<1>3. \A a, b \in D : Less(a, b) <=>
          IF balanced = None \/ Am(a) = Am(b) THEN a < b ELSE Am(a) < Am(b)
  BY DEF Less
<1>4. SortedNames = CHOOSE s \in SetToSeqs(D) : \A x, y \in DOMAIN s : x < y => Less(s[x], s[y])
  BY DEF SortedNames
<1>5. IsFiniteSet(D)
  OBVIOUS
<1> HIDE DEF D, Am, R
<1>6. \A a, b \in D : a # b => Less(a, b) \/ Less(b, a)
  BY <1>1, <1>3
<1>7. \A a, b, c \in D : Less(a, b) /\ Less(b, c) => Less(a, c)
  BY <1>1, <1>3
<1>8. PICK s \in SetToSeqs(D) : \A x, y \in DOMAIN s : x < y => <<s[x], s[y]>> \in R
  BY <1>2, <1>5, <1>6, <1>7, SortedOrder
<1>9. \A x \in DOMAIN s : s[x] \in D
  BY <1>5, <1>8, OrderOfSet
<1>10. \A x, y \in DOMAIN s : x < y => Less(s[x], s[y])
  BY <1>2, <1>8, <1>9
<1>11. SortedNames \in SetToSeqs(D)
  BY <1>4, <1>8, <1>10
<1>12. PICK q : q = SortedNames
  OBVIOUS
<1>13. /\ q \in Seq(D) /\ ToSet(q) = D /\ DOMAIN q = 1..Len(q) /\ Len(q) \in Nat
       /\ \A x, y \in DOMAIN q : x # y => q[x] # q[y]
  BY <1>5, <1>11, <1>12, OrderOfSet DEF ToSet
<1> DEFINE I == {x \in 1..Len(q) : q[x] = pref}
<1>14. GpuNames(pref) = IF I = {} THEN q ELSE IF Min(I) = 0 THEN q
                        ELSE [q EXCEPT ![1] = pref, ![Min(I)] = q[1]]
  BY <1>12 DEF GpuNames, ToFront, SelectInSeq
<1>15. CASE I = {}
  <2>1. pref \notin D
    BY <1>13, <1>15 DEF ToSet
  <2>2. QED BY <1>13, <1>14, <1>15, <2>1 DEF D
<1>16. CASE I # {}
  <2>0. I \subseteq 1..Len(q)
    OBVIOUS
  <2>1. PICK m : m = Min(I)
    OBVIOUS
  <2>2. m \in I /\ m \in DOMAIN q /\ m # 0
    <3> HIDE DEF I
    <3> QED BY <1>13, <1>16, <2>0, <2>1, FirstOf
  <2>3. q[m] = pref /\ pref \in D /\ 1 \in DOMAIN q /\ m \in 1..Len(q)
    BY <1>13, <2>2 DEF ToSet
  <2>4. PICK h : h = [q EXCEPT ![1] = pref, ![m] = q[1]]
    OBVIOUS
  <2>5. GpuNames(pref) = h
    <3> HIDE DEF I
    <3> QED BY <1>14, <1>16, <2>1, <2>2, <2>4
  <2>6. DOMAIN h = DOMAIN q /\ h[m] = q[1] /\ h[1] = pref /\ \A x \in DOMAIN q \ {1, m} :
            h[x] = q[x]
    BY <1>13, <2>3, <2>4
  <2>7. h \in [1..Len(q) -> D]
    BY <1>13, <2>3, <2>4
  <2>8. h \in Seq(D)
    BY <1>13, <2>7, ListIsQueue
  <2>9. ToSet(h) = D
    <3>1. \A x \in DOMAIN h : h[x] \in D
      BY <1>13, <2>6, <2>7
    <3>2. ASSUME NEW c \in D PROVE \E x \in DOMAIN h : h[x] = c
      <4>1. PICK x \in DOMAIN q : q[x] = c
        BY <1>13, <3>2 DEF ToSet
      <4>2. CASE x = 1
        BY <2>2, <2>6, <4>1, <4>2
      <4>3. CASE x = m
        BY <2>3, <2>6, <4>1, <4>3
      <4>4. CASE x \notin {1, m}
        BY <2>6, <4>1, <4>4
      <4>5. QED BY <4>2, <4>3, <4>4
    <3>3. QED BY <3>1, <3>2 DEF ToSet
  <2>10. QED BY <2>5, <2>6, <2>8, <2>9 DEF D
<1>17. QED BY <1>15, <1>16

-----------------------------------------------------------------------------
(* What the steps of the search find. *)

\* A search works on a node with GPUs, for a pod whose annotations parse.
LEMMA InSearch ==
    ASSUME RequestInv, SearchInv, Search
    PROVE  /\ node \in Nodes /\ pod \in Pods /\ LabelsOK(labels)
           /\ Checks /\ ListsTyped /\ ListsKept
           /\ Fit(pod, PerGPUCapacity, NodeResourcesUsed, used, Assigned)
           /\ DOMAIN used \subseteq Cards /\ IsFiniteSet(DOMAIN used)
           /\ DOMAIN used = DOMAIN NodeResourcesUsed
           /\ \A c \in DOMAIN used : Counts(used[c]) /\ Counts(NodeResourcesUsed[c])
           /\ Counts(PerGPUCapacity)
<1>1. node \in Nodes
  BY DEF RequestInv, Search
<1>2. /\ Checks /\ ListsTyped /\ ListsKept
      /\ Fit(pod, PerGPUCapacity, NodeResourcesUsed, used, Assigned)
  BY DEF SearchInv
<1>3. DOMAIN used = DOMAIN NodeResourcesUsed /\ \A c \in DOMAIN used : Counts(used[c])
  BY <1>2 DEF ListsTyped
<1>4. pod \in Pods /\ LabelsOK(labels)
  BY <1>1, Inputs
<1>5. /\ DOMAIN NodeResourcesUsed \subseteq Cards /\ IsFiniteSet(DOMAIN NodeResourcesUsed)
      /\ Counts(PerGPUCapacity) /\ \A c \in DOMAIN NodeResourcesUsed : Counts(NodeResourcesUsed[c])
  BY <1>1, NodeFacts
<1>6. QED BY <1>1, <1>2, <1>3, <1>4, <1>5

\* The card that is picked is available and has room.
LEMMA PickHasRoom ==
    ASSUME NEW S, NEW names \in Seq(S), NEW need, NEW gpuMap,
           NEW at, at = Pick(need, names, gpuMap), at # 0
    PROVE  /\ at \in DOMAIN names /\ names[at] \in S
           /\ checkGpuAvailability(gpuMap, names[at]) /\ Enough(need, used[names[at]])
<1> DEFINE I == {x \in 1..Len(names) :
               checkGpuAvailability(gpuMap, names[x]) /\ Enough(need, used[names[x]])}
<1>1. at = IF I # {} THEN Min(I) ELSE 0
  BY DEF Pick, SelectInSeq
<1>2. I # {} /\ at = Min(I)
  BY <1>1
<1>3. I \subseteq 1..Len(names)
  OBVIOUS
<1>4. Min(I) \in I /\ Min(I) \in DOMAIN names /\ names[Min(I)] \in S
  <2> HIDE DEF I
  <2> QED BY <1>2, <1>3, FirstOf
<1>5. at \in I /\ at \in DOMAIN names /\ names[at] \in S
  <2> HIDE DEF I
  <2> QED BY <1>2, <1>4
<1>6. QED BY <1>5

\* A preferred card that is found first is one that the labels prefer.
LEMMA PreferredFirst ==
    ASSUME RequestInv, SearchInv, Search, PreferredKnown,
           NEW pref \in Preference, pref # None
    PROVE  GpuNames(pref)[1] = pref /\ pref \in findNodesPreferredGPU(labels)
<1>1. pref \in findNodesPreferredGPU(labels)
  BY DEF Preference
<1>2. pref \in DOMAIN used
  BY <1>1, InSearch DEF PreferredKnown
<1>3. QED BY <1>1, <1>2, InSearch, NamesInOrder

\* One more GPU for a container.
LEMMA PlaceGpuStep ==
    ASSUME RequestInv, SearchInv, PlaceGpu
    PROVE  \E c \in DOMAIN used :
              /\ checkGpuAvailability(gpuMaps[g], c)
              /\ Roomy(PerGPUCapacity, Per(pod, i), used[c])
              /\ cards' = Append(cards, Plain(c))
              /\ used' = [used EXCEPT ![c] = AddRM(@, Per(pod, i))]
              /\ preferred' /\ PreferredKnown =>
                    (cards # <<>> /\ preferred) \/ c \in findNodesPreferredGPU(labels)
<1>1. Search
  BY DEF PlaceGpu, Lacking, Searching, More, Search
<1>2. PerGPU(i) = Per(pod, i)
  BY DEF PerGPU, Per
<1>3. PICK pref \in Preference :
         LET names == GpuNames(pref)
             at == Pick(PerGPU(i), names, gpuMaps[g])
         IN /\ at # 0
            /\ cards' = Append(cards, Plain(names[at]))
            /\ used' = [used EXCEPT ![names[at]] = AddRM(@, PerGPU(i))]
            /\ preferred' = ((cards # <<>> /\ preferred) \/ (at = 1 /\ pref # None))
  BY DEF PlaceGpu
<1>4. PICK names, at : names = GpuNames(pref) /\ at = Pick(PerGPU(i), names, gpuMaps[g])
  OBVIOUS
<1>5. /\ at # 0 /\ cards' = Append(cards, Plain(names[at]))
      /\ used' = [used EXCEPT ![names[at]] = AddRM(@, PerGPU(i))]
      /\ preferred' = ((cards # <<>> /\ preferred) \/ (at = 1 /\ pref # None))
  BY <1>3, <1>4
<1>6. names \in Seq(DOMAIN used)
  BY <1>1, <1>4, InSearch, NamesInOrder
<1>7. /\ at \in DOMAIN names /\ names[at] \in DOMAIN used
      /\ checkGpuAvailability(gpuMaps[g], names[at]) /\ Enough(PerGPU(i), used[names[at]])
  BY <1>4, <1>5, <1>6, PickHasRoom
<1>8. Roomy(PerGPUCapacity, Per(pod, i), used[names[at]])
  BY <1>2, <1>7, EnoughIsRoomy
<1>9. ASSUME preferred', PreferredKnown, ~(cards # <<>> /\ preferred)
      PROVE  names[at] \in findNodesPreferredGPU(labels)
  BY <1>1, <1>4, <1>5, <1>9, PreferredFirst
<1>10. QED BY <1>2, <1>5, <1>7, <1>8, <1>9

\* One GPU for the containers that share it.
LEMMA SameGpuStep ==
    ASSUME RequestInv, SearchInv, SameGpuFound
    PROVE  \E c \in DOMAIN used :
              /\ checkGpuAvailability(gpuMaps[1], c)
              /\ Amount(PerGPUCapacity, I915) - Amount(used[c], I915) >= Cardinality(samegpu)
              /\ Roomy(PerGPUCapacity, CombinedOf(pod, samegpu), used[c])
              /\ samegpuCard' = <<Plain(c)>>
              /\ used' = [used EXCEPT ![c] =
                    AddRM(AddRM(@, CombinedOf(pod, samegpu)),
                        [k \in {I915} |-> Cardinality(samegpu) - 1])]
              /\ preferred' /\ PreferredKnown => c \in findNodesPreferredGPU(labels)
<1>1. Search
  BY DEF SameGpuFound, Search
<1>2. Combined = CombinedOf(pod, samegpu)
  BY DEF Combined, CombinedOf
<1>3. PICK pref \in Preference :
         LET names == GpuNames(pref)
             at == Pick(Combined, names, Pruned(gpuMaps[1]))
         IN /\ at # 0
            /\ samegpuCard' = <<Plain(names[at])>>
            /\ used' = [used EXCEPT ![names[at]] =
                   AddRM(AddRM(@, Combined), [k \in {I915} |-> Cardinality(samegpu) - 1])]
            /\ preferred' = (at = 1 /\ pref # None)
  BY DEF SameGpuFound
<1>4. PICK names, at : names = GpuNames(pref) /\ at = Pick(Combined, names, Pruned(gpuMaps[1]))
  OBVIOUS
<1>5. /\ at # 0 /\ samegpuCard' = <<Plain(names[at])>>
      /\ used' = [used EXCEPT ![names[at]] =
             AddRM(AddRM(@, Combined), [k \in {I915} |-> Cardinality(samegpu) - 1])]
      /\ preferred' = (at = 1 /\ pref # None)
  BY <1>3, <1>4
<1>6. names \in Seq(DOMAIN used)
  BY <1>1, <1>4, InSearch, NamesInOrder
<1>7. /\ at \in DOMAIN names /\ names[at] \in DOMAIN used
      /\ checkGpuAvailability(Pruned(gpuMaps[1]), names[at]) /\ Enough(Combined, used[names[at]])
  BY <1>4, <1>5, <1>6, PickHasRoom
<1>8. Roomy(PerGPUCapacity, CombinedOf(pod, samegpu), used[names[at]])
  BY <1>2, <1>7, EnoughIsRoomy
<1>9. /\ checkGpuAvailability(gpuMaps[1], names[at])
      /\ Amount(PerGPUCapacity, I915) - Amount(used[names[at]], I915) >= Cardinality(samegpu)
  BY <1>7 DEF checkGpuAvailability, Pruned
<1>10. ASSUME preferred', PreferredKnown PROVE names[at] \in findNodesPreferredGPU(labels)
  BY <1>1, <1>4, <1>5, <1>10, PreferredFirst
<1>11. QED BY <1>2, <1>5, <1>7, <1>8, <1>9, <1>10

\* Tiles that are free for a link are ends of links, and cards that have them are
\* cards of the node.
LEMMA AvailableType ==
    ASSUME NEW c, NEW t \in AvailableTiles(c)
    PROVE  /\ c \in DOMAIN used /\ t \in LinkTiles(labels)
           /\ t \notin UsedTiles(c) \cup TilesOf(Disabled(c)) \cup allocating[c]
<1>1. c \in DOMAIN used
  BY DEF AvailableTiles
<1>2. t \in getXeLinkedTiles(labels,
          c) \ (UsedTiles(c) \cup TilesOf(Disabled(c)) \cup allocating[c])
  BY <1>1 DEF AvailableTiles
<1>3. t \in getXeLinkedTiles(labels, c)
  BY <1>2
<1>4. t \in LinkTiles(labels)
  BY <1>3 DEF getXeLinkedTiles, LinkTiles
<1>5. QED BY <1>1, <1>2, <1>4

\* Two more GPUs for a container: the ends of a link between two cards.
LEMMA PlacePairStep ==
    ASSUME RequestInv, SearchInv, PlacePair
    PROVE  \E one, other \in Ends :
              /\ one.gpuName # other.gpuName /\ Joins(one, other)
              /\ \A end \in {one, other} :
                    /\ checkGpuAvailability(gpuMaps[g], end.gpuName)
                    /\ Roomy(PerGPUCapacity, Per(pod, i), used[end.gpuName])
                    /\ end.tile \in AvailableTiles(end.gpuName)
              /\ cards' = cards \o <<one, other>>
              /\ used' = [c \in DOMAIN used |->
                     IF c \in {one.gpuName, other.gpuName} THEN AddRM(used[c], Per(pod, i))
                         ELSE used[c]]
              /\ allocating' = [allocating EXCEPT ![one.gpuName] = @ \cup {one.tile},
                                                  ![other.gpuName] = @ \cup {other.tile}]
              /\ preferred' => cards'[1].gpuName \in findNodesPreferredGPU(labels) \cup {None}
<1>1. Search
  BY DEF PlacePair, Lacking, Searching, More, Search
<1>2. PerGPU(i) = Per(pod, i)
  BY DEF PerGPU, Per
<1>3. PICK pref \in Preference :
         LET names == GpuNames(pref)
             at == SelectInSeq(names, LAMBDA c : LinkableTiles(c) # {})
         IN /\ at # 0
            /\ \E t \in LinkableTiles(names[at]) :
                  LET one == [gpuName |-> names[at], tile |-> t]
                      other == getXeLinkedGPUInfo(labels, names[at], t)
                  IN /\ cards' = cards \o <<one, other>>
                     /\ used' = [c \in DOMAIN used |->
                            IF c \in {one.gpuName, other.gpuName}
                            THEN AddRM(used[c], PerGPU(i)) ELSE used[c]]
                     /\ allocating' = [allocating EXCEPT ![one.gpuName] = @ \cup {t},
                                                         ![other.gpuName] = @ \cup {other.tile}]
            /\ preferred' = (cards'[1].gpuName = pref)
  BY DEF PlacePair
<1>4. PICK o : \E t \in LinkableTiles(o) :
                  LET one == [gpuName |-> o, tile |-> t]
                      other == getXeLinkedGPUInfo(labels, o, t)
                  IN /\ cards' = cards \o <<one, other>>
                     /\ used' = [c \in DOMAIN used |->
                            IF c \in {one.gpuName, other.gpuName}
                            THEN AddRM(used[c], PerGPU(i)) ELSE used[c]]
                     /\ allocating' = [allocating EXCEPT ![one.gpuName] = @ \cup {t},
                                                         ![other.gpuName] = @ \cup {other.tile}]
  BY <1>3
<1>5. PICK t \in LinkableTiles(o) :
                  LET one == [gpuName |-> o, tile |-> t]
                      other == getXeLinkedGPUInfo(labels, o, t)
                  IN /\ cards' = cards \o <<one, other>>
                     /\ used' = [c \in DOMAIN used |->
                            IF c \in {one.gpuName, other.gpuName}
                            THEN AddRM(used[c], PerGPU(i)) ELSE used[c]]
                     /\ allocating' = [allocating EXCEPT ![one.gpuName] = @ \cup {t},
                                                         ![other.gpuName] = @ \cup {other.tile}]
  BY <1>4
<1>6. PICK one, other : one = [gpuName |-> o, tile |-> t]
               /\ other = getXeLinkedGPUInfo(labels, o, t)
  OBVIOUS
<1>7. one.gpuName = o /\ one.tile = t
  BY <1>6
<1>8. /\ cards' = cards \o <<one, other>>
      /\ used' = [c \in DOMAIN used |->
             IF c \in {one.gpuName, other.gpuName} THEN AddRM(used[c], PerGPU(i)) ELSE used[c]]
      /\ allocating' = [allocating EXCEPT ![one.gpuName] = @ \cup {one.tile},
                                          ![other.gpuName] = @ \cup {other.tile}]
  BY <1>5, <1>6, <1>7
<1>9. /\ t \in AvailableTiles(o)
      /\ checkGpuAvailability(gpuMaps[g], o) /\ Enough(PerGPU(i), used[o])
      /\ checkGpuAvailability(gpuMaps[g], other.gpuName)
      /\ other.tile \in AvailableTiles(other.gpuName)
      /\ Enough(PerGPU(i), used[other.gpuName])
  BY <1>5, <1>6 DEF LinkableTiles
<1>10. /\ o \in DOMAIN used /\ t \in LinkTiles(labels)
       /\ other.gpuName \in DOMAIN used /\ other.tile \in LinkTiles(labels)
  BY <1>9, AvailableType
<1>11. DOMAIN used \subseteq Cards /\ DOMAIN used = DOMAIN NodeResourcesUsed /\ LabelsOK(labels)
  BY <1>1, InSearch
<1>12. other.gpuName # None
  BY <1>10, <1>11, CardSelectAssumption
<1>13. PICK link \in ToSet(Links(labels)) :
              /\ other = [gpuName |-> lZeroDeviceIDToGpuName(labels, link.linked),
                   tile |-> link.linkedSub]
              /\ t = link.sub /\ o = lZeroDeviceIDToGpuName(labels, link.device)
              /\ other.gpuName # o
  BY <1>6, <1>11, <1>12, OtherEnd
<1>14. Joins(one, other) /\ one.gpuName # other.gpuName
  BY <1>6, <1>7, <1>13 DEF Joins
<1>15. one \in Ends
  BY <1>6, <1>10, <1>11 DEF Ends
<1>16. other \in Ends
  <2>1. PICK n, m : other = [gpuName |-> n, tile |-> m]
    BY <1>13
  <2>2. n = other.gpuName /\ m = other.tile
    BY <2>1
  <2>3. QED BY <1>10, <1>11, <2>1, <2>2 DEF Ends
<1>17. \A end \in {one, other} :
          /\ checkGpuAvailability(gpuMaps[g], end.gpuName)
          /\ Roomy(PerGPUCapacity, Per(pod, i), used[end.gpuName])
          /\ end.tile \in AvailableTiles(end.gpuName)
  BY <1>2, <1>7, <1>9, EnoughIsRoomy
<1>18. preferred' => cards'[1].gpuName \in findNodesPreferredGPU(labels) \cup {None}
  BY <1>3 DEF Preference
<1>19. QED BY <1>2, <1>8, <1>14, <1>15, <1>16, <1>17, <1>18

-----------------------------------------------------------------------------
(* The steps of the search preserve its invariant. *)

\* One more entry at the end of a list of cards.
LEMMA OneMore ==
    ASSUME NEW E, NEW list \in Seq(E), NEW e \in E
    PROVE  /\ Append(list, e) \in Seq(E) /\ Names(Append(list, e)) = Names(list) \cup {e.gpuName}
           /\ Distinct(list) /\ e.gpuName \notin Names(list) => Distinct(Append(list, e))
<1> DEFINE q == Append(list, e)
<1>1. PICK n \in Nat : n = Len(list)
  OBVIOUS
<1>2. /\ DOMAIN list = 1..n /\ DOMAIN q = 1..(n + 1) /\ q \in Seq(E)
      /\ q[n + 1] = e /\ \A x \in 1..n : q[x] = list[x]
  BY <1>1
<1> HIDE DEF q
<1>3. \A x \in 1..(n + 1) : x = n + 1 \/ x \in 1..n
  OBVIOUS
<1>4. n + 1 \in 1..(n + 1) /\ \A x \in 1..n : x \in 1..(n + 1)
  OBVIOUS
<1>5. Names(q) = Names(list) \cup {e.gpuName}
  BY <1>2, <1>3, <1>4 DEF Names
<1>6. ASSUME Distinct(list), e.gpuName \notin Names(list) PROVE Distinct(q)
  BY <1>2, <1>3, <1>6 DEF Distinct, Names
<1>7. QED BY <1>2, <1>5, <1>6 DEF q

\* Two entries at the end are one and one more.
LEMMA TwoMore ==
    ASSUME NEW E, NEW list \in Seq(E), NEW a \in E, NEW b \in E
    PROVE  list \o <<a, b>> = Append(Append(list, a), b)
<1>1. PICK n \in Nat : n = Len(list)
  OBVIOUS
<1>2. PICK q, r, w : q = list \o w /\ r = Append(Append(list, a), b) /\ w = <<a, b>>
  OBVIOUS
<1>3. w \in Seq(E) /\ Len(w) = 2 /\ w[1] = a /\ w[2] = b
  BY <1>2
<1>4. q \in Seq(E) /\ Len(q) = n + 2 /\ r \in Seq(E) /\ Len(r) = n + 2
  BY <1>1, <1>2, <1>3
<1>5. \A x \in 1..n : q[x] = list[x] /\ r[x] = list[x]
  BY <1>1, <1>2, <1>3
<1>6. q[n + 1] = a /\ q[n + 2] = b
  <2>1. (n + 1) - n = 1 /\ (n + 2) - n = 2
    OBVIOUS
  <2>2. QED BY <1>1, <1>2, <1>3, <2>1
<1>7. r[n + 1] = a /\ r[n + 2] = b
  BY <1>1, <1>2
<1>8. \A x \in 1..(n + 2) : x \in 1..n \/ x = n + 1 \/ x = n + 2
  OBVIOUS
<1>9. \A x \in 1..(n + 2) : q[x] = r[x]
  BY <1>5, <1>6, <1>7, <1>8
<1>10. q = [x \in 1..(n + 2) |-> q[x]] /\ r = [x \in 1..(n + 2) |-> r[x]]
  BY <1>4
<1>11. q = r
  BY <1>9, <1>10
<1>12. QED BY <1>2, <1>11

\* The container at hand has no entry yet.
LEMMA AtHand ==
    ASSUME RequestInv, SearchInv, Search
    PROVE  /\ DOMAIN containerCards = 1..Len(containerCards) /\ Len(containerCards) \in Nat
           /\ i \notin DOMAIN containerCards /\ i \in Nat
           /\ i <= Len(Requests[pod]) => i \in Containers(pod)
           /\ DOMAIN containerCards \subseteq Containers(pod)
<1>1. containerCards \in Seq(Seq(Ends)) /\ Len(containerCards) <= Len(Requests[pod]) /\ pod \in Pods
  BY InSearch DEF ListsTyped
<1>2. Containers(pod) = 1..Len(Requests[pod]) /\ Len(Requests[pod]) \in Nat
  BY <1>1, RequestType
<1>3. DOMAIN containerCards = 1..Len(containerCards) /\ Len(containerCards) \in Nat
  BY <1>1, ListType
<1>4. QED BY <1>1, <1>2, <1>3 DEF i

\* The parts of the invariant after a step on the same node.
LEMMA SearchAgain ==
    ASSUME RequestInv, SearchInv, Search, ask' = ask, nodes' = nodes, node' = node,
           ListsTyped', ListsKept',
           Fit(pod, PerGPUCapacity, NodeResourcesUsed, used', Assigned')
    PROVE  SearchInv'
<1>1. Checks' /\ pod' = pod /\ PerGPUCapacity' = PerGPUCapacity
          /\ NodeResourcesUsed' = NodeResourcesUsed
  BY SameNode, InSearch
<1>2. Fit(pod, PerGPUCapacity, NodeResourcesUsed, used, Assigned)'
  BY <1>1
<1>3. QED BY <1>1, <1>2 DEF SearchInv

\* The search rests.
LEMMA SearchRests ==
    ASSUME RequestInv, SearchInv, Search, UNCHANGED <<inputs, node, search>>,
           pc' # "samegpu", pc = "samegpu" => samegpu = {}
    PROVE  SearchInv'
<1>1. /\ ask' = ask /\ nodes' = nodes /\ node' = node /\ used' = used /\ cards' = cards /\ g' = g
      /\ containerCards' = containerCards /\ samegpuCard' = samegpuCard
  BY DEF inputs, search
<1>2. /\ pod' = pod /\ labels' = labels /\ gpuMaps' = gpuMaps /\ samegpu' = samegpu /\ Ends' = Ends
      /\ NodeResourcesUsed' = NodeResourcesUsed /\ SamegpuAllowed' = SamegpuAllowed
  BY <1>1, SameNode
<1>3. i' = i
  BY <1>1 DEF i
<1>4. ListsTyped'
  BY <1>1, <1>2, InSearch DEF ListsTyped
<1>5. ListsKept'
  BY <1>1, <1>2, <1>3, InSearch DEF ListsKept
<1>6. Assigned' = Assigned
  BY <1>1, <1>2, <1>3 DEF Assigned
<1>7. Fit(pod, PerGPUCapacity, NodeResourcesUsed, used', Assigned')
  BY <1>1, <1>6, InSearch
<1>8. QED BY <1>1, <1>4, <1>5, <1>7, SearchAgain

\* The GPU maps are sets of cards.
LEMMA MapsType ==
    ASSUME LabelsOK(labels)
    PROVE  gpuMaps \in Seq({Malformed} \cup SUBSET Cards)
               /\ (gpuMaps # <<>> => 1 \in DOMAIN gpuMaps)
<1>1. concatenateSplitLabel(labels.numa) \in Seq({Malformed} \cup SUBSET Cards)
  BY LabelList DEF LabelsOK
<1>2. \A q \in Seq({Malformed} \cup SUBSET Cards) : q # <<>> => 1 \in DOMAIN q
  OBVIOUS
<1>3. ToSet(getNodeGPUList(labels)) \in SUBSET Cards
  BY GpuList
<1>4. \A z \in SUBSET Cards : <<z>> \in Seq({Malformed} \cup SUBSET Cards)
  OBVIOUS
<1>5. <<>> \in Seq({Malformed} \cup SUBSET Cards)
  OBVIOUS
<1>6. gpuMaps \in Seq({Malformed} \cup SUBSET Cards)
  BY <1>1, <1>3, <1>4, <1>5 DEF gpuMaps, createGPUMaps
<1>7. QED BY <1>2, <1>6

\* checkForSpaceAndRetrieveCards starts with the books.
LEMMA StartStep == RequestInv /\ StartSearch => SearchInv'
<1> SUFFICES ASSUME RequestInv, StartSearch PROVE SearchInv'
  OBVIOUS
<1>1. /\ ask' = ask /\ nodes' = nodes /\ node' = node /\ used' = NodeResourcesUsed
      /\ cards' = <<>> /\ containerCards' = <<>> /\ samegpuCard' = <<>> /\ g' = 1
      /\ pc' = "samegpu" /\ Checks
  BY DEF StartSearch, inputs
<1>2. node \in Nodes
  BY DEF RequestInv, StartSearch
<1>3. /\ pod' = pod /\ labels' = labels /\ gpuMaps' = gpuMaps /\ samegpu' = samegpu /\ Ends' = Ends
      /\ NodeResourcesUsed' = NodeResourcesUsed /\ PerGPUCapacity' = PerGPUCapacity
           /\ Checks' = Checks
  BY <1>1, SameNode
<1>4. pod \in Pods /\ LabelsOK(labels)
  BY <1>2, Inputs
<1>5. gpuMaps # <<>> => 1 \in DOMAIN gpuMaps
  BY <1>4, MapsType
<1>6. \A c \in DOMAIN NodeResourcesUsed : Counts(NodeResourcesUsed[c])
  BY <1>2, NodeFacts
<1>7. /\ <<>> \in Seq(Ends) /\ <<>> \in Seq(Seq(Ends)) /\ Len(<<>>) = 0 /\ DOMAIN <<>> = {}
      /\ Len(Requests[pod]) \in Nat
  BY <1>4, RequestType
<1>8. ListsTyped'
  BY <1>1, <1>3, <1>5, <1>6, <1>7 DEF ListsTyped
<1>9. ListsKept'
  <2>1. Distinct(<<>>)
    BY <1>7 DEF Distinct
  <2>2. \A x \in DOMAIN containerCards' : FALSE
    BY <1>1, <1>7
  <2>3. QED BY <1>1, <1>3, <2>1, <2>2 DEF ListsKept
<1>10. \A x \in Containers(pod) : Assigned'[x] = {}
  <2>1. Names(<<>>) = {}
    BY DEF Names
  <2>2. QED BY <1>1, <1>3, <1>7, <2>1 DEF Assigned
<1>11. Fit(pod, PerGPUCapacity, NodeResourcesUsed, NodeResourcesUsed, Assigned')
  <2>1. ASSUME NEW c \in DOMAIN NodeResourcesUsed, NEW k \in Resources
        PROVE  /\ Amount(NodeResourcesUsed[c], k) \in Nat
               /\ Charged(pod, Assigned', c, k) = 0 /\ ~Wanted(pod, Assigned', c, k)
    BY <1>4, <1>6, <1>10, AmountType, ChargedNone
  <2>2. QED BY <2>1 DEF Fit
<1>12. Fit(pod, PerGPUCapacity, NodeResourcesUsed, used, Assigned)'
  BY <1>1, <1>3, <1>11
<1>13. QED BY <1>1, <1>3, <1>8, <1>9, <1>12 DEF SearchInv

\* getCardForSamegpu: one GPU for the containers that share it.
LEMMA SameGpuKeeps == RequestInv /\ SearchInv /\ SameGpuFound => SearchInv'
<1> SUFFICES ASSUME RequestInv, SearchInv, SameGpuFound PROVE SearchInv'
  OBVIOUS
<1>1. /\ ask' = ask /\ nodes' = nodes /\ node' = node /\ cards' = cards /\ g' = g
      /\ containerCards' = containerCards /\ pc = "samegpu" /\ pc' = "containers"
      /\ samegpu # {} /\ SamegpuAllowed
  BY DEF SameGpuFound, inputs
<1>2. Search
  BY <1>1 DEF Search
<1>3. /\ pod' = pod /\ labels' = labels /\ gpuMaps' = gpuMaps /\ samegpu' = samegpu /\ Ends' = Ends
      /\ NodeResourcesUsed' = NodeResourcesUsed /\ SamegpuAllowed' = SamegpuAllowed
  BY <1>1, SameNode
<1>4. /\ used = NodeResourcesUsed /\ containerCards = <<>> /\ cards = <<>>
      /\ pod \in Pods /\ Checks /\ Counts(PerGPUCapacity)
  BY <1>1, <1>2, InSearch DEF ListsKept
<1>5. PICK c \in DOMAIN used :
        /\ Amount(PerGPUCapacity, I915) - Amount(used[c], I915) >= Cardinality(samegpu)
        /\ Roomy(PerGPUCapacity, CombinedOf(pod, samegpu), used[c])
        /\ samegpuCard' = <<Plain(c)>>
        /\ used' = [used EXCEPT ![c] =
              AddRM(AddRM(@, CombinedOf(pod, samegpu)),
                  [k \in {I915} |-> Cardinality(samegpu) - 1])]
  BY SameGpuStep
<1>6. samegpu \in SUBSET Containers(pod)
  BY <1>4 DEF Checks, SamegpuParses, samegpu
<1>7. \A x \in samegpu : NumGPUReq(pod, x) = 1
  BY <1>1 DEF SamegpuAllowed
<1>8. /\ DOMAIN used' = DOMAIN used
      /\ \A o \in DOMAIN used : used'[o] =
            IF o = c THEN AddRM(AddRM(used[o], CombinedOf(pod, samegpu)),
                [k \in {I915} |-> Cardinality(samegpu) - 1])
            ELSE used[o]
  BY <1>5
<1>9. Plain(c) \in Ends /\ Plain(c).gpuName = c
  <2>1. None \in LinkTiles(labels)
    BY DEF LinkTiles
  <2>2. QED BY <1>4, <1>5, <2>1 DEF Plain, Ends
<1>10. Names(<<Plain(c)>>) = {c} /\ Names(<<>>) = {} /\ DOMAIN <<>> = {}
  BY <1>9 DEF Names
<1>11. \A x \in Containers(pod) : Assigned'[x] = IF x \in samegpu THEN {c} ELSE {}
  BY <1>1, <1>3, <1>4, <1>5, <1>10 DEF Assigned
<1>12. \A o \in DOMAIN used : Counts(used[o])
  BY <1>2, InSearch
<1>13. /\ Fit(pod, PerGPUCapacity, used, used', Assigned') /\ \A o \in DOMAIN used' :
            Counts(used'[o])
  <2>1. PICK v, b : v = used' /\ b = Assigned'
    OBVIOUS
  <2>2. SharedOn(c, samegpu, pod, PerGPUCapacity, used, v, b)
    BY <1>1, <1>5, <1>6, <1>7, <1>8, <1>11, <2>1 DEF SharedOn
  <2>3. Fit(pod, PerGPUCapacity, used, v, b) /\ \A o \in DOMAIN v : Counts(v[o])
    BY <1>4, <1>12, <2>2, FitShare
  <2>4. QED BY <2>1, <2>3
<1>14. Fit(pod, PerGPUCapacity, NodeResourcesUsed, used', Assigned')
  BY <1>4, <1>13
<1>15. ListsTyped'
  <2>1. /\ cards \in Seq(Ends) /\ containerCards \in Seq(Seq(Ends))
        /\ Len(containerCards) <= Len(Requests[pod])
        /\ gpuMaps # <<>> => g \in DOMAIN gpuMaps
    BY <1>2, InSearch DEF ListsTyped
  <2>2. <<Plain(c)>> \in Seq(Ends)
    BY <1>9
  <2>3. QED BY <1>1, <1>3, <1>4, <1>5, <1>8, <1>13, <2>1, <2>2 DEF ListsTyped
<1>16. ListsKept'
  <2>1. Distinct(<<>>)
    BY DEF Distinct
  <2>2. \A x \in DOMAIN containerCards' : FALSE
    BY <1>1, <1>4
  <2>3. QED BY <1>1, <1>3, <1>4, <1>5, <2>1, <2>2 DEF ListsKept
<1>17. QED BY <1>1, <1>2, <1>14, <1>15, <1>16, SearchAgain

\* The container at hand is given more cards C of the node, each with room.
LEMMA PlaceKeeps ==
    ASSUME RequestInv, SearchInv, Lacking,
           UNCHANGED <<inputs, node, pc, containerCards, g, samegpuCard>>,
           NEW C, C \subseteq DOMAIN used, C \cap Names(cards) = {},
           \A c \in C : Roomy(PerGPUCapacity, Per(pod, i), used[c]),
           cards' \in Seq(Ends), Distinct(cards'), Names(cards') = Names(cards) \cup C,
           DOMAIN used' = DOMAIN used,
           \A c \in DOMAIN used : used'[c] = IF c \in C THEN AddRM(used[c], Per(pod, i))
               ELSE used[c]
    PROVE  SearchInv'
<1>1. /\ ask' = ask /\ nodes' = nodes /\ node' = node /\ g' = g /\ pc' = pc
      /\ containerCards' = containerCards /\ samegpuCard' = samegpuCard
  BY DEF inputs
<1>2. pc = "containers" /\ i \notin samegpu /\ i <= Len(Requests[pod])
  BY DEF Lacking, Searching, More
<1>3. Search
  BY <1>2 DEF Search
<1>4. /\ pod' = pod /\ labels' = labels /\ gpuMaps' = gpuMaps /\ samegpu' = samegpu /\ Ends' = Ends
      /\ NodeResourcesUsed' = NodeResourcesUsed /\ SamegpuAllowed' = SamegpuAllowed
  BY <1>1, SameNode
<1>5. i \in Containers(pod) /\ i \notin DOMAIN containerCards /\ i' = i
  BY <1>1, <1>2, <1>3, AtHand DEF i
<1>6. Assigned[i] = Names(cards)
  BY <1>2, <1>5 DEF Assigned
<1>7. \A x \in Containers(pod) : Assigned'[x] = IF x = i THEN Assigned[i] \cup C ELSE Assigned[x]
  <2>1. TAKE x \in Containers(pod)
  <2>2. CASE x = i
    BY <1>1, <1>2, <1>4, <1>5, <1>6, <2>2 DEF Assigned
  <2>3. CASE x # i
    BY <1>1, <1>4, <1>5, <2>3 DEF Assigned
  <2>4. QED BY <2>2, <2>3
<1>8. /\ Fit(pod, PerGPUCapacity, NodeResourcesUsed, used', Assigned')
      /\ \A c \in DOMAIN used' : Counts(used'[c])
  <2>1. PICK v, b, n : v = used' /\ b = Assigned' /\ n = i
    OBVIOUS
  <2>2. /\ pod \in Pods /\ Fit(pod, PerGPUCapacity, NodeResourcesUsed, used, Assigned)
        /\ \A c \in DOMAIN used : Counts(used[c]) /\ Counts(NodeResourcesUsed[c])
    BY <1>3, InSearch
  <2>3. n \in Containers(pod) /\ C \cap Assigned[n] = {} /\ \A c \in C :
            Roomy(PerGPUCapacity, Per(pod, n), used[c])
    BY <1>5, <1>6, <2>1
  <2>4. \A x \in Containers(pod) : b[x] = IF x = n THEN Assigned[n] \cup C ELSE Assigned[x]
    BY <1>7, <2>1
  <2>5. DOMAIN v = DOMAIN used
        /\ \A c \in DOMAIN used : v[c] = IF c \in C THEN AddRM(used[c], Per(pod, n)) ELSE used[c]
    BY <2>1
  <2>6. PlacedOn(C, n, pod, PerGPUCapacity, used, v, Assigned, b)
    BY <2>3, <2>4, <2>5 DEF PlacedOn
  <2>7. Fit(pod, PerGPUCapacity, NodeResourcesUsed, v, b) /\ \A c \in DOMAIN v : Counts(v[c])
    BY <2>2, <2>6, FitPlace
  <2>8. QED BY <2>1, <2>7
<1>9. ListsTyped'
  <2>1. /\ samegpuCard \in Seq(Ends) /\ containerCards \in Seq(Seq(Ends))
        /\ Len(containerCards) <= Len(Requests[pod])
        /\ gpuMaps # <<>> => g \in DOMAIN gpuMaps
        /\ DOMAIN used = DOMAIN NodeResourcesUsed
    BY <1>3, InSearch DEF ListsTyped
  <2>2. QED BY <1>1, <1>4, <1>8, <2>1 DEF ListsTyped
<1>10. ListsKept'
  <2>1. ListsKept
    BY <1>3, InSearch
  <2>2. i' \in Containers(pod') \ samegpu'
    BY <1>2, <1>4, <1>5
  <2>3. QED BY <1>1, <1>2, <1>4, <2>1, <2>2 DEF ListsKept
<1>11. QED BY <1>1, <1>3, <1>8, <1>9, <1>10, SearchAgain

\* One more GPU.
LEMMA PlaceGpuKeeps == RequestInv /\ SearchInv /\ PlaceGpu => SearchInv'
<1> SUFFICES ASSUME RequestInv, SearchInv, PlaceGpu PROVE SearchInv'
  OBVIOUS
<1>1. Lacking /\ UNCHANGED <<inputs, node, pc, containerCards, g, samegpuCard>>
  BY DEF PlaceGpu
<1>2. Search
  BY <1>1 DEF Lacking, Searching, More, Search
<1>3. PICK c \in DOMAIN used :
        /\ checkGpuAvailability(gpuMaps[g], c) /\ Roomy(PerGPUCapacity, Per(pod, i), used[c])
        /\ cards' = Append(cards, Plain(c)) /\ used' = [used EXCEPT ![c] = AddRM(@, Per(pod, i))]
  BY PlaceGpuStep
<1>4. Plain(c) \in Ends /\ Plain(c).gpuName = c
  <2>1. None \in LinkTiles(labels)
    BY DEF LinkTiles
  <2>2. DOMAIN used = DOMAIN NodeResourcesUsed
    BY <1>2, InSearch
  <2>3. QED BY <1>3, <2>1, <2>2 DEF Plain, Ends
<1>5. c \notin Names(cards) /\ cards \in Seq(Ends) /\ Distinct(cards)
  BY <1>2, <1>3, InSearch DEF checkGpuAvailability, ListsTyped, ListsKept
<1>6. cards' \in Seq(Ends) /\ Distinct(cards') /\ Names(cards') = Names(cards) \cup {c}
  <2>1. PICK e \in Ends : e = Plain(c) /\ e.gpuName = c
    BY <1>4
  <2>2. /\ Append(cards, e) \in Seq(Ends) /\ Distinct(Append(cards, e))
        /\ Names(Append(cards, e)) = Names(cards) \cup {e.gpuName}
    BY <1>5, <2>1, OneMore
  <2>3. QED BY <1>3, <2>1, <2>2
<1>7. /\ DOMAIN used' = DOMAIN used
      /\ \A o \in DOMAIN used : used'[o] = IF o \in {c} THEN AddRM(used[o], Per(pod, i))
           ELSE used[o]
  BY <1>3
<1>8. {c} \subseteq DOMAIN used /\ {c} \cap Names(cards) = {}
  BY <1>5
<1>9. \A o \in {c} : Roomy(PerGPUCapacity, Per(pod, i), used[o])
  BY <1>3
<1>10. QED BY <1>1, <1>6, <1>7, <1>8, <1>9, PlaceKeeps

\* A pair of GPUs.
LEMMA PlacePairKeeps == RequestInv /\ SearchInv /\ PlacePair => SearchInv'
<1> SUFFICES ASSUME RequestInv, SearchInv, PlacePair PROVE SearchInv'
  OBVIOUS
<1>1. Lacking /\ UNCHANGED <<inputs, node, pc, containerCards, g, samegpuCard>>
  BY DEF PlacePair
<1>2. Search
  BY <1>1 DEF Lacking, Searching, More, Search
<1>3. PICK one \in Ends, other \in Ends :
        /\ one.gpuName # other.gpuName
        /\ \A end \in {one, other} :
              /\ checkGpuAvailability(gpuMaps[g], end.gpuName)
              /\ Roomy(PerGPUCapacity, Per(pod, i), used[end.gpuName])
        /\ cards' = cards \o <<one, other>>
        /\ used' = [c \in DOMAIN used |->
               IF c \in {one.gpuName, other.gpuName} THEN AddRM(used[c], Per(pod, i)) ELSE used[c]]
  BY PlacePairStep
<1>4. PICK C : C = {one.gpuName, other.gpuName}
  OBVIOUS
<1>5. C \subseteq DOMAIN used
  BY <1>2, <1>3, <1>4, InSearch DEF Ends
<1>6. cards \in Seq(Ends) /\ Distinct(cards) /\ C \cap Names(cards) = {}
  BY <1>2, <1>3, <1>4, InSearch DEF checkGpuAvailability, ListsTyped, ListsKept
<1>7. PICK q : q = Append(cards, one)
  OBVIOUS
<1>8. q \in Seq(Ends) /\ Names(q) = Names(cards) \cup {one.gpuName} /\ Distinct(q)
  <2>1. one.gpuName \notin Names(cards)
    BY <1>4, <1>6
  <2>2. /\ Append(cards, one) \in Seq(Ends) /\ Distinct(Append(cards, one))
        /\ Names(Append(cards, one)) = Names(cards) \cup {one.gpuName}
    BY <1>6, <2>1, OneMore
  <2>3. QED BY <1>7, <2>2
<1>9. other.gpuName \notin Names(q)
  BY <1>3, <1>4, <1>6, <1>8
<1>10. cards' = Append(q, other)
  BY <1>3, <1>6, <1>7, TwoMore
<1>11. cards' \in Seq(Ends) /\ Names(cards') = Names(q) \cup {other.gpuName} /\ Distinct(cards')
  <2>1. /\ Append(q, other) \in Seq(Ends) /\ Distinct(Append(q, other))
        /\ Names(Append(q, other)) = Names(q) \cup {other.gpuName}
    BY <1>8, <1>9, OneMore
  <2>2. QED BY <1>10, <2>1
<1>12. Names(cards') = Names(cards) \cup C
  BY <1>4, <1>8, <1>11
<1>13. /\ DOMAIN used' = DOMAIN used
       /\ \A c \in DOMAIN used : used'[c] = IF c \in C THEN AddRM(used[c], Per(pod, i)) ELSE used[c]
  BY <1>3, <1>4
<1>14. \A c \in C : Roomy(PerGPUCapacity, Per(pod, i), used[c])
  BY <1>3, <1>4
<1>15. QED BY <1>1, <1>5, <1>6, <1>11, <1>12, <1>13, <1>14, PlaceKeeps

\* The container at hand gets its entry, and has the cards it was given.
LEMMA EntryKeeps ==
    ASSUME RequestInv, SearchInv, More, UNCHANGED <<inputs, node, pc, used, samegpuCard>>,
           NEW list, containerCards' = Append(containerCards, list), list \in Seq(Ends),
           i \in samegpu => list = samegpuCard,
           i \notin samegpu => list = cards /\ Len(cards) = NumGPUReq(pod, i),
           cards' = <<>>, gpuMaps # <<>> => g' \in DOMAIN gpuMaps
    PROVE  SearchInv'
<1>1. /\ ask' = ask /\ nodes' = nodes /\ node' = node /\ used' = used /\ pc' = pc
      /\ samegpuCard' = samegpuCard
  BY DEF inputs
<1>2. pc = "containers" /\ i <= Len(Requests[pod])
  BY DEF More
<1>3. Search
  BY <1>2 DEF Search
<1>4. /\ pod' = pod /\ labels' = labels /\ gpuMaps' = gpuMaps /\ samegpu' = samegpu /\ Ends' = Ends
      /\ NodeResourcesUsed' = NodeResourcesUsed /\ SamegpuAllowed' = SamegpuAllowed
  BY <1>1, SameNode
<1>5. i \in Containers(pod) /\ i \notin DOMAIN containerCards
  BY <1>2, <1>3, AtHand
<1>6. ListsTyped /\ ListsKept /\ Fit(pod, PerGPUCapacity, NodeResourcesUsed, used, Assigned)
  BY <1>3, InSearch
<1>7. /\ containerCards \in Seq(Seq(Ends)) /\ Len(containerCards) \in Nat
      /\ Len(containerCards) + 1 = i /\ DOMAIN containerCards = 1..Len(containerCards)
      /\ Len(Requests[pod]) \in Nat
  BY <1>3, <1>6, AtHand, InSearch, RequestType DEF ListsTyped, i
<1>8. /\ containerCards' \in Seq(Seq(Ends)) /\ Len(containerCards') = i
      /\ DOMAIN containerCards' = DOMAIN containerCards \cup {i} /\ containerCards'[i] = list
      /\ \A x \in DOMAIN containerCards : containerCards'[x] = containerCards[x]
  <2>1. PICK n \in Nat : n = Len(containerCards)
    BY <1>7
  <2>2. PICK q, r, E : q = containerCards /\ r = Append(q, list) /\ E = Seq(Ends)
    OBVIOUS
  <2>3. q \in Seq(E) /\ list \in E /\ Len(q) = n /\ i = n + 1
    BY <1>7, <2>1, <2>2
  <2>4. r \in Seq(E) /\ Len(r) = n + 1 /\ r[n + 1] = list /\ \A x \in 1..n : r[x] = q[x]
    BY <2>2, <2>3
  <2>5. DOMAIN r = 1..(n + 1) /\ 1..(n + 1) = 1..n \cup {n + 1}
    BY <2>4
  <2>6. QED BY <1>7, <2>1, <2>2, <2>3, <2>4, <2>5
<1>9. i' = i + 1 /\ i' \notin DOMAIN containerCards' /\ i + 1 \notin DOMAIN containerCards
  BY <1>7, <1>8 DEF i
<1>10. \A x \in Containers(pod) : Assigned'[x] = Assigned[x]
  <2>1. TAKE x \in Containers(pod)
  <2>2. Assigned'[x] = IF x \in DOMAIN containerCards' THEN Names(containerCards'[x])
                       ELSE IF x \in samegpu THEN Names(samegpuCard) ELSE {}
    <3>1. Names(<<>>) = {}
      BY DEF Names
    <3>2. QED BY <1>1, <1>4, <3>1 DEF Assigned
  <2>3. Assigned[x] = IF x \in DOMAIN containerCards THEN Names(containerCards[x])
                      ELSE IF x \in samegpu THEN Names(samegpuCard)
                      ELSE IF x = i THEN Names(cards) ELSE {}
    BY DEF Assigned
  <2>4. CASE x = i
    BY <1>5, <1>8, <2>2, <2>3, <2>4
  <2>5. CASE x # i
    BY <1>8, <2>2, <2>3, <2>5
  <2>6. QED BY <2>4, <2>5
<1>11. Assigned' = Assigned
  <2>1. /\ Assigned = [x \in Containers(pod) |-> Assigned[x]]
        /\ Assigned' = [x \in Containers(pod) |-> Assigned'[x]]
    BY <1>4 DEF Assigned
  <2>2. QED BY <1>10, <2>1
<1>12. ListsTyped'
  <2>1. <<>> \in Seq(Ends) /\ Len(containerCards') <= Len(Requests[pod])
    BY <1>2, <1>8
  <2>2. QED BY <1>1, <1>4, <1>6, <1>8, <2>1 DEF ListsTyped
<1>13. ListsKept'
  <2>1. Distinct(<<>>)
    BY DEF Distinct
  <2>2. ASSUME NEW x \in DOMAIN containerCards'
        PROVE  IF x \in samegpu THEN containerCards'[x] = samegpuCard
               ELSE Distinct(containerCards'[x]) /\ Len(containerCards'[x]) = NumGPUReq(pod, x)
    <3>1. CASE x = i
      BY <1>6, <1>8, <3>1 DEF ListsKept
    <3>2. CASE x # i
      BY <1>6, <1>8, <3>2 DEF ListsKept
    <3>3. QED BY <3>1, <3>2
  <2>3. samegpu # {} => SamegpuAllowed /\ \E c \in DOMAIN NodeResourcesUsed :
            samegpuCard = <<Plain(c)>>
    BY <1>2, <1>6 DEF ListsKept
  <2>4. QED BY <1>1, <1>2, <1>4, <2>1, <2>2, <2>3 DEF ListsKept
<1>14. Fit(pod, PerGPUCapacity, NodeResourcesUsed, used', Assigned')
  BY <1>1, <1>6, <1>11
<1>15. QED BY <1>1, <1>3, <1>12, <1>13, <1>14, SearchAgain

\* A container that shares its GPU.
LEMMA TakeSameGpuKeeps == RequestInv /\ SearchInv /\ TakeSameGpu => SearchInv'
<1> SUFFICES ASSUME RequestInv, SearchInv, TakeSameGpu PROVE SearchInv'
  OBVIOUS
<1>1. /\ More /\ i \in samegpu /\ containerCards' = Append(containerCards, samegpuCard)
      /\ UNCHANGED <<inputs, node, pc, used, samegpuCard>> /\ cards' = cards /\ g' = g
  BY DEF TakeSameGpu
<1>2. Search
  BY <1>1 DEF More, Search
<1>3. /\ samegpuCard \in Seq(Ends) /\ cards = <<>>
      /\ gpuMaps # <<>> => g \in DOMAIN gpuMaps
  BY <1>1, <1>2, InSearch DEF ListsTyped, ListsKept
<1>4. QED BY <1>1, <1>3, EntryKeeps

\* A container that has all its GPUs.
LEMMA FinishContainerKeeps == RequestInv /\ SearchInv /\ FinishContainer => SearchInv'
<1> SUFFICES ASSUME RequestInv, SearchInv, FinishContainer PROVE SearchInv'
  OBVIOUS
<1>1. /\ More /\ i \notin samegpu /\ Len(cards) = NumGPUReq(pod, i)
      /\ containerCards' = Append(containerCards, cards)
      /\ UNCHANGED <<inputs, node, pc, used, samegpuCard>> /\ cards' = <<>> /\ g' = 1
  BY DEF FinishContainer, Searching
<1>2. Search
  BY <1>1 DEF More, Search
<1>3. cards \in Seq(Ends) /\ (gpuMaps # <<>> => g \in DOMAIN gpuMaps)
  BY <1>2, InSearch DEF ListsTyped
<1>4. gpuMaps # <<>> => 1 \in DOMAIN gpuMaps
  BY <1>2, InSearch, MapsType
<1>5. QED BY <1>1, <1>3, <1>4, EntryKeeps

\* An error: the cards of the container are given back, and the next map is tried.
LEMMA NextMapKeeps == RequestInv /\ SearchInv /\ NextMap => SearchInv'
<1> SUFFICES ASSUME RequestInv, SearchInv, NextMap, Search' PROVE SearchInv'
  BY DEF SearchInv
<1>1. /\ Lacking /\ UNCHANGED <<inputs, node, used, containerCards, samegpuCard>>
      /\ g < Len(gpuMaps) /\ g' = g + 1 /\ cards' = <<>> /\ pc' = pc
  BY DEF NextMap, Stuck, Search
<1>2. /\ ask' = ask /\ nodes' = nodes /\ node' = node /\ used' = used
      /\ containerCards' = containerCards /\ samegpuCard' = samegpuCard
  BY <1>1 DEF inputs
<1>3. pc = "containers" /\ i \notin samegpu /\ i <= Len(Requests[pod]) /\ gpuMaps # <<>>
  BY <1>1 DEF Lacking, Searching, More
<1>4. Search
  BY <1>3 DEF Search
<1>5. /\ pod' = pod /\ labels' = labels /\ gpuMaps' = gpuMaps /\ samegpu' = samegpu /\ Ends' = Ends
      /\ NodeResourcesUsed' = NodeResourcesUsed /\ SamegpuAllowed' = SamegpuAllowed
  BY <1>2, SameNode
<1>6. i \in Containers(pod) /\ i \notin DOMAIN containerCards /\ i' = i
  BY <1>2, <1>3, <1>4, AtHand DEF i
<1>7. ListsTyped /\ ListsKept
  BY <1>4, InSearch
<1>8. g + 1 \in DOMAIN gpuMaps
  <2>1. gpuMaps \in Seq({Malformed} \cup SUBSET Cards)
    BY <1>4, InSearch, MapsType
  <2>2. DOMAIN gpuMaps = 1..Len(gpuMaps) /\ Len(gpuMaps) \in Nat
    BY <2>1, ListType
  <2>3. g \in DOMAIN gpuMaps
    BY <1>3, <1>7 DEF ListsTyped
  <2>4. QED BY <1>1, <2>2, <2>3
<1>9. ListsTyped'
  <2>1. <<>> \in Seq(Ends)
    OBVIOUS
  <2>2. QED BY <1>1, <1>2, <1>5, <1>7, <1>8, <2>1 DEF ListsTyped
<1>10. ListsKept'
  <2>1. Distinct(<<>>)
    BY DEF Distinct
  <2>2. QED BY <1>1, <1>2, <1>3, <1>5, <1>7, <2>1 DEF ListsKept
<1>11. \A x \in Containers(pod) : Assigned'[x] = IF x = i THEN {} ELSE Assigned[x]
  <2>1. Names(<<>>) = {}
    BY DEF Names
  <2>2. TAKE x \in Containers(pod)
  <2>3. Assigned'[x] = IF x \in DOMAIN containerCards THEN Names(containerCards[x])
                       ELSE IF x \in samegpu THEN Names(samegpuCard) ELSE {}
    BY <1>1, <1>2, <1>5, <2>1 DEF Assigned
  <2>4. Assigned[x] = IF x \in DOMAIN containerCards THEN Names(containerCards[x])
                      ELSE IF x \in samegpu THEN Names(samegpuCard)
                      ELSE IF x = i THEN Names(cards) ELSE {}
    BY DEF Assigned
  <2>5. QED BY <1>3, <1>6, <2>3, <2>4
<1>12. Fit(pod, PerGPUCapacity, NodeResourcesUsed, used', Assigned')
  <2>1. PICK b, n : b = Assigned' /\ n = i
    OBVIOUS
  <2>2. /\ pod \in Pods /\ Fit(pod, PerGPUCapacity, NodeResourcesUsed, used, Assigned)
        /\ \A c \in DOMAIN used : Counts(used[c]) /\ Counts(NodeResourcesUsed[c])
    BY <1>4, InSearch
  <2>3. n \in Containers(pod) /\ \A x \in Containers(pod) : b[x] = IF x = n THEN {} ELSE Assigned[x]
    BY <1>6, <1>11, <2>1
  <2>4. Fit(pod, PerGPUCapacity, NodeResourcesUsed, used, b)
    BY <2>2, <2>3, FitDrop
  <2>5. QED BY <1>2, <2>1, <2>4
<1>13. QED BY <1>2, <1>4, <1>9, <1>10, <1>12, SearchAgain

-----------------------------------------------------------------------------
(* The invariant, and what it says of the selection. *)

\* Requests and answers keep their types.
LEMMA RequestStep == RequestInv /\ [Next]_vars => RequestInv'
<1> SUFFICES ASSUME RequestInv, [Next]_vars PROVE RequestInv'
  OBVIOUS
<1>1. CASE TakeNode
  <2>1. todo \in Seq(Nodes) /\ todo # <<>> /\ node' = Head(todo) /\ todo' = Tail(todo)
    BY <1>1 DEF TakeNode, RequestInv
  <2>2. node' \in Nodes /\ todo' \in Seq(Nodes)
    BY <2>1, TakenFirst
  <2>3. QED BY <1>1, <2>2 DEF TakeNode, RequestInv, inputs, answer
<1>2. CASE BindOffered
  <2>1. node' \in ToSet(Offered) /\ Offered \in Seq(Nodes)
    BY <1>2 DEF BindOffered, RequestInv, Offered
  <2>2. node' \in Nodes
    BY <2>1, ListType DEF ToSet
  <2>3. QED BY <1>2, <2>2 DEF BindOffered, RequestInv, inputs, answer
<1>3. CASE FilterVerdict
  <2>1. node \in Nodes /\ nodeNames \in Seq(Nodes) /\ preferredNodeNames \in Seq(Nodes)
    BY <1>3 DEF FilterVerdict, RequestInv
  <2>2. Append(nodeNames, node) \in Seq(Nodes) /\ Append(preferredNodeNames, node) \in Seq(Nodes)
    BY <2>1
  <2>3. /\ nodeNames' \in {nodeNames, Append(nodeNames, node)}
        /\ preferredNodeNames' \in {preferredNodeNames, Append(preferredNodeNames, node)}
    BY <1>3 DEF FilterVerdict
  <2>4. nodeNames' \in Seq(Nodes) /\ preferredNodeNames' \in Seq(Nodes)
    BY <2>1, <2>2, <2>3
  <2>5. QED BY <1>3, <2>4 DEF FilterVerdict, RequestInv, inputs
<1>4. CASE RefuseRequest \/ AcceptRequest \/ UNCHANGED vars
  BY <1>4 DEF RefuseRequest, AcceptRequest, RequestInv, inputs, answer, vars
<1>5. CASE \/ LabelPanics \/ RejectNode \/ StartSearch \/ SameGpuFound \/ SameGpuFails
           \/ SameGpuPanics \/ NoSameGpu \/ TakeSameGpu \/ PlaceGpu \/ PlacePair \/ NextMap
           \/ FinishContainer \/ FinishCheck \/ BindFails \/ StartConvert \/ AnnotateTiles
                \/ FinishConvert
  <2>1. /\ UNCHANGED <<ask, nodes, todo, nodeNames, preferredNodeNames, node>>
        /\ pc \notin {"request", "notFound", "nodes"}
    BY <1>5 DEF LabelPanics, RejectNode, StartSearch, SameGpuFound, SameGpuFails, SameGpuPanics,
       NoSameGpu, TakeSameGpu, PlaceGpu, PlacePair, NextMap, Stuck, Lacking, Searching, More,
       FinishContainer, FinishCheck, BindFails, StartConvert, AnnotateTiles, FinishConvert, inputs,
           answer
  <2>2. QED BY <2>1 DEF RequestInv
<1>6. QED BY <1>1, <1>2, <1>3, <1>4, <1>5 DEF Next

\* The steps between searches end, or do not start, one.
LEMMA OutOfSearch ==
    ASSUME \/ RefuseRequest \/ AcceptRequest \/ TakeNode \/ BindOffered \/ LabelPanics \/ RejectNode
           \/ FilterVerdict \/ SameGpuFails \/ SameGpuPanics \/ BindFails
    PROVE  ~Search'
BY DEF RefuseRequest, AcceptRequest, TakeNode, BindOffered, LabelPanics, RejectNode, FilterVerdict,
   SameGpuFails, SameGpuPanics, BindFails, Search

\* Every step preserves the invariant of the search.
LEMMA SearchStep == RequestInv /\ SearchInv /\ [Next]_vars => SearchInv'
<1> SUFFICES ASSUME RequestInv, SearchInv, [Next]_vars PROVE SearchInv'
  OBVIOUS
<1>1. CASE \/ RefuseRequest \/ AcceptRequest \/ TakeNode \/ BindOffered \/ LabelPanics \/ RejectNode
           \/ FilterVerdict \/ SameGpuFails \/ SameGpuPanics \/ BindFails
  BY <1>1, OutOfSearch DEF SearchInv
<1>2. CASE StartSearch
  BY <1>2, StartStep
<1>3. CASE SameGpuFound
  BY <1>3, SameGpuKeeps
<1>4. CASE TakeSameGpu
  BY <1>4, TakeSameGpuKeeps
<1>5. CASE PlaceGpu
  BY <1>5, PlaceGpuKeeps
<1>6. CASE PlacePair
  BY <1>6, PlacePairKeeps
<1>7. CASE NextMap
  BY <1>7, NextMapKeeps
<1>8. CASE FinishContainer
  BY <1>8, FinishContainerKeeps
<1>9. CASE NoSameGpu \/ FinishCheck \/ StartConvert \/ AnnotateTiles \/ FinishConvert
  <2>1. /\ Search /\ UNCHANGED <<inputs, node, search>>
        /\ pc' # "samegpu" /\ (pc = "samegpu" => samegpu = {})
    BY <1>9 DEF NoSameGpu, FinishCheck, StartConvert, AnnotateTiles, FinishConvert, Search
  <2>2. QED BY <2>1, SearchRests
<1>10. CASE UNCHANGED vars
  <2>1. UNCHANGED <<ask, nodes, node, pc, used, containerCards, cards, samegpuCard, g>>
    BY <1>10 DEF vars, inputs, search
  <2>2. Search' = Search
    BY <2>1 DEF Search
  <2>3. CASE Search
    <3>1. /\ pod' = pod /\ labels' = labels /\ gpuMaps' = gpuMaps /\ samegpu' = samegpu
               /\ Ends' = Ends
          /\ NodeResourcesUsed' = NodeResourcesUsed /\ SamegpuAllowed' = SamegpuAllowed
      BY <2>1, SameNode
    <3>2. ListsTyped /\ ListsKept /\ Fit(pod, PerGPUCapacity, NodeResourcesUsed, used, Assigned)
      BY <2>3, InSearch
    <3>3. i' = i
      BY <2>1 DEF i
    <3>4. ListsTyped' /\ ListsKept'
      BY <2>1, <3>1, <3>2, <3>3 DEF ListsTyped, ListsKept
    <3>5. Assigned' = Assigned
      BY <2>1, <3>1, <3>3 DEF Assigned
    <3>6. Fit(pod, PerGPUCapacity, NodeResourcesUsed, used', Assigned')
      BY <2>1, <3>2, <3>5
    <3>7. QED BY <2>1, <2>3, <3>4, <3>6, SearchAgain
  <2>4. QED BY <2>2, <2>3 DEF SearchInv
<1>11. QED BY <1>1, <1>2, <1>3, <1>4, <1>5, <1>6, <1>7, <1>8, <1>9, <1>10 DEF Next

\* The invariant holds in every state.
THEOREM SearchInvariance == Spec => [](RequestInv /\ SearchInv)
<1>1. Init => RequestInv /\ SearchInv
  <2>1. SUFFICES ASSUME Init PROVE RequestInv /\ SearchInv
    OBVIOUS
  <2>2. todo \in Seq(Nodes) /\ <<>> \in Seq(Nodes)
    BY <2>1, CardSelectAssumption DEF Init
  <2>3. QED BY <2>1, <2>2 DEF Init, RequestInv, SearchInv, Search
<1>2. RequestInv /\ SearchInv /\ [Next]_vars => RequestInv' /\ SearchInv'
  BY RequestStep, SearchStep
<1>3. QED BY <1>1, <1>2, PTL DEF Spec

\* Distinct cards are as many as there are entries.
LEMMA DistinctCount ==
    ASSUME NEW E, NEW list \in Seq(E), Distinct(list)
    PROVE  Cardinality(Names(list)) = Len(list)
<1>1. PICK n \in Nat : n = Len(list) /\ DOMAIN list = 1..n
  OBVIOUS
<1>2. PICK D : D = 1..n
  OBVIOUS
<1>3. IsFiniteSet(D) /\ Cardinality(D) = n
  BY <1>2, FS_Interval
<1>4. PICK f : f = [x \in D |-> list[x].gpuName]
  OBVIOUS
<1>5. f \in Surjection(D, Names(list))
  BY <1>1, <1>2, <1>4 DEF Surjection, Names
<1>6. f \in Injection(D, Names(list))
  BY <1>1, <1>2, <1>4 DEF Injection, IsInjective, Names, Distinct
<1>7. f \in Bijection(D, Names(list))
  BY <1>5, <1>6 DEF Bijection
<1>8. Cardinality(Names(list)) = Cardinality(D)
  BY <1>3, <1>7, FS_Bijection DEF ExistsBijection
<1>9. QED BY <1>1, <1>3, <1>8

\* What is selected is an annotation of the pod, and what the search has assigned.
LEMMA ChosenIsAnnotation ==
    ASSUME RequestInv, SearchInv, Chosen
    PROVE  /\ chosen \in Annotations(pod) /\ Containers(pod) = DOMAIN containerCards
           /\ \A x \in Containers(pod) : Assigned[x] = chosen[x] /\ chosen[x] \subseteq DOMAIN used
<1>1. Search /\ pc # "samegpu" /\ Len(containerCards) = Len(Requests[pod])
  BY DEF Chosen, Search
<1>2. pod \in Pods /\ ListsTyped /\ ListsKept /\ DOMAIN used \subseteq Cards /\ Checks
      /\ DOMAIN used = DOMAIN NodeResourcesUsed
  BY <1>1, InSearch
<1>3. Containers(pod) = DOMAIN containerCards
  BY <1>1, <1>2, AtHand, RequestType
<1>4. DOMAIN chosen = Containers(pod) /\ \A x \in Containers(pod) :
          chosen[x] = Names(containerCards[x])
  BY <1>3 DEF chosen, CardsOf
<1>5. \A x \in Containers(pod) : containerCards[x] \in Seq(Ends)
  BY <1>2, <1>3, ListType DEF ListsTyped
<1>6. \A x \in Containers(pod) : chosen[x] \subseteq DOMAIN used
  <2>1. TAKE x \in Containers(pod)
  <2>2. PICK list \in Seq(Ends) : list = containerCards[x]
    BY <1>5
  <2>3. \A y \in DOMAIN list : list[y] \in Ends
    BY <2>2, ListType
  <2>4. \A e \in Ends : e.gpuName \in DOMAIN used
    BY <1>2 DEF Ends
  <2>5. QED BY <1>4, <2>2, <2>3, <2>4 DEF Names
<1>7. ASSUME NEW x \in Containers(pod) PROVE Cardinality(chosen[x]) = NumGPUReq(pod, x)
  <2>1. CASE x \in samegpu
    <3>1. SamegpuAllowed /\ containerCards[x] = samegpuCard /\ \E c : samegpuCard = <<Plain(c)>>
      BY <1>1, <1>2, <1>3, <2>1 DEF ListsKept
    <3>2. PICK c : samegpuCard = <<Plain(c)>>
      BY <3>1
    <3>3. Names(<<Plain(c)>>) = {c}
      BY DEF Names, Plain
    <3>4. chosen[x] = {c}
      BY <1>4, <3>1, <3>2, <3>3
    <3>5. NumGPUReq(pod, x) = 1
      BY <2>1, <3>1 DEF SamegpuAllowed
    <3>6. QED BY <3>4, <3>5, FS_Singleton
  <2>2. CASE x \notin samegpu
    <3>1. Distinct(containerCards[x]) /\ Len(containerCards[x]) = NumGPUReq(pod, x)
      BY <1>2, <1>3, <2>2 DEF ListsKept
    <3>2. containerCards[x] \in Seq(Ends)
      BY <1>5
    <3>3. QED BY <1>4, <3>1, <3>2, DistinctCount
  <2>3. QED BY <2>1, <2>2
<1>8. chosen \in [Containers(pod) -> SUBSET Cards]
  <2>1. chosen = [x \in Containers(pod) |-> chosen[x]]
    BY <1>3 DEF chosen
  <2>2. QED BY <1>2, <1>6, <2>1
<1>9. chosen \in Annotations(pod)
  BY <1>7, <1>8 DEF Annotations
<1>10. \A x \in Containers(pod) : Assigned[x] = chosen[x]
  BY <1>3, <1>4 DEF Assigned
<1>11. QED BY <1>3, <1>6, <1>9, <1>10

\* What the annotation is charged for a card is what the search has set aside.
LEMMA ShareIsCharged ==
    ASSUME NEW p \in Pods, NEW a \in Annotations(p), NEW c, NEW k \in DOMAIN Share(p, a, c)
    PROVE  /\ Share(p, a, c)[k] = Charged(p, a, c, k)
           /\ Wanted(p, a, c, k) /\ k \in Resources
<1> DEFINE on == ContainersOn(a, c)
           f == [x \in on |-> Amount(PerCard(p, a, x), k)]
           h == Demand(p, a, c, k)
<1>1. DOMAIN a = Containers(p) /\ \A x \in Containers(p) : Cardinality(a[x]) = NumGPUReq(p, x)
  BY DEF Annotations
<1>2. on \in SUBSET Containers(p) /\ \A x \in Containers(p) : x \in on <=> c \in a[x]
  BY <1>1 DEF ContainersOn
<1>3. IsFiniteSet(Containers(p)) /\ IsFiniteSet(on)
  BY <1>2, RequestType, FS_Subset
<1>4. DOMAIN Share(p, a, c) = UNION {DOMAIN Requests[p][x] : x \in on}
      /\ Share(p, a, c)[k] = SumFunctionOnSet(f, on)
  BY DEF Share
<1>5. PICK y \in on : k \in DOMAIN Requests[p][y]
  BY <1>4
<1>6. Wanted(p, a, c, k) /\ k \in Resources
  BY <1>2, <1>5, RequestType DEF Wanted
<1>7. ASSUME NEW x \in on PROVE f[x] = h[x]
  <2>1. x \in Containers(p) /\ c \in a[x]
    BY <1>2
  <2>2. h[x] = Amount(Per(p, x), k)
    BY <2>1 DEF Demand
  <2>3. NumGPUReq(p, x) \in Nat /\ Counts(Requests[p][x])
    BY <2>1, RequestType
  <2>4. NumGPUReq(p, x) # 0
    <3>1. a[x] \in SUBSET Cards
      BY <2>1 DEF Annotations
    <3>2. IsFiniteSet(a[x])
      BY <3>1, PodSharesAssumption, FS_Subset
    <3>3. QED BY <1>1, <2>1, <3>2, FS_EmptySet
  <2>5. PerCard(p, a, x) = Divide(Requests[p][x], NumGPUReq(p, x))
    BY <1>1, <2>1 DEF PerCard
  <2>6. f[x] = Amount(Divide(Requests[p][x], NumGPUReq(p, x)), k)
    BY <2>5
  <2>7. CASE NumGPUReq(p, x) > 1
    BY <2>2, <2>6, <2>7 DEF Per
  <2>8. CASE NumGPUReq(p, x) = 1
    <3>1. Per(p, x) = Requests[p][x]
      BY <2>8 DEF Per
    <3>2. \A m \in DOMAIN Requests[p][x] : Requests[p][x][m] \div 1 = Requests[p][x][m]
      <4>1. \A m \in Nat : m \div 1 = m
        OBVIOUS
      <4>2. QED BY <2>3, <4>1 DEF Counts
    <3>3. QED BY <2>2, <2>6, <2>8, <3>1, <3>2 DEF Divide, Amount
  <2>9. QED BY <2>3, <2>4, <2>7, <2>8
<1>8. \A x \in Containers(p) : h[x] \in Nat
  BY ChargedType
<1>9. \A x \in Containers(p) \ on : h[x] = 0
  BY <1>2 DEF Demand
<1>10. Charged(p, a, c, k) = SumFunctionOnSet(h, Containers(p))
  BY DEF Charged
<1> HIDE DEF on, f, h
<1>11. SumFunctionOnSet(h, Containers(p)) = SumFunctionOnSet(h, on)
  BY <1>2, <1>3, <1>8, <1>9, SumZeroOutside
<1>12. SumFunctionOnSet(f, on) = SumFunctionOnSet(h, on)
  BY <1>3, <1>7, SumAgree
<1>13. QED BY <1>4, <1>6, <1>10, <1>11, <1>12

\* The cards that the filter and the bind handler select can satisfy everything that
\* is charged to them, on top of the books, for any pod, node and labels: what the
\* books of GasCache rely on.
THEOREM CardsFit == Spec => []SelectionFits
<1>1. RequestInv /\ SearchInv => SelectionFits
  <2> SUFFICES ASSUME RequestInv, SearchInv, Chosen
               PROVE  /\ chosen \in Annotations(pod)
                      /\ \A c \in Cards : Enough(Share(pod, chosen, c), Books(c))
    BY DEF SelectionFits
  <2>1. Search
    BY DEF Chosen, Search
  <2>2. /\ chosen \in Annotations(pod)
        /\ \A x \in Containers(pod) : Assigned[x] = chosen[x] /\ chosen[x] \subseteq DOMAIN used
    BY ChosenIsAnnotation
  <2>3. /\ node \in Nodes /\ pod \in Pods /\ DOMAIN used = DOMAIN NodeResourcesUsed
        /\ Fit(pod, PerGPUCapacity, NodeResourcesUsed, used, Assigned)
        /\ \A c \in DOMAIN used : Counts(used[c])
    BY <2>1, InSearch
  <2>4. /\ Counts(PerGPUCapacity) /\ \A k : Amount(PerGPUCapacity, k) <= MaxInt
        /\ \A c \in DOMAIN NodeResourcesUsed :
              /\ Counts(NodeResourcesUsed[c]) /\ Counts(Books(c))
              /\ \A k : Amount(Books(c), k) <= Amount(NodeResourcesUsed[c], k)
    BY <2>3, NodeFacts
  <2>5. ASSUME NEW c \in Cards, NEW k \in DOMAIN Share(pod, chosen, c)
        PROVE  /\ Amount(PerGPUCapacity, k) > 0
               /\ Wrap(Amount(Books(c), k) + Share(pod, chosen, c)[k]) >= 0
               /\ Amount(Books(c), k) + Share(pod, chosen, c)[k] <= Amount(PerGPUCapacity, k)
    <3>1. /\ Share(pod, chosen, c)[k] = Charged(pod, chosen, c, k)
          /\ Wanted(pod, chosen, c, k) /\ k \in Resources
      BY <2>2, <2>3, ShareIsCharged
    <3>2. /\ Charged(pod, chosen, c, k) = Charged(pod, Assigned, c, k)
          /\ Wanted(pod, Assigned, c, k)
      BY <2>2, <2>3, <3>1, ChargedSame
    <3>3. c \in DOMAIN used
      BY <2>2, <3>1 DEF Wanted
    <3>4. /\ Amount(NodeResourcesUsed[c], k) + Charged(pod, Assigned, c, k) <= Amount(used[c], k)
          /\ Amount(PerGPUCapacity, k) > 0 /\ Amount(used[c], k) <= Amount(PerGPUCapacity, k)
      BY <2>3, <3>1, <3>2, <3>3 DEF Fit
    <3>5. /\ Amount(NodeResourcesUsed[c], k) \in Nat /\ Charged(pod, Assigned, c, k) \in Nat
          /\ Amount(used[c], k) \in Nat /\ Amount(PerGPUCapacity, k) \in Nat
          /\ Amount(Books(c), k) \in Nat /\ Amount(Books(c), k) <= Amount(NodeResourcesUsed[c], k)
          /\ Amount(PerGPUCapacity, k) <= MaxInt
      BY <2>3, <2>4, <3>3, AmountType, ChargedType
    <3>6. PICK s : s = Amount(Books(c), k) + Share(pod, chosen, c)[k]
      OBVIOUS
    <3>7. s \in Nat /\ s <= Amount(PerGPUCapacity, k) /\ s <= MaxInt
      BY <3>1, <3>2, <3>4, <3>5, <3>6, MaxIntAssumption
    <3>8. Wrap(s) = s
      BY <3>7, MaxIntAssumption DEF Wrap
    <3>9. QED BY <3>4, <3>6, <3>7, <3>8
  <2>6. QED BY <2>2, <2>5 DEF Enough
<1>2. QED BY <1>1, SearchInvariance, PTL

-----------------------------------------------------------------------------
(* The cards are permitted, and a preferred node has a preferred card. *)

\* The container at hand gets its entry: the shared card, or the cards found for it.
LEMMA EntryAdded ==
    ASSUME RequestInv, SearchInv, TakeSameGpu \/ FinishContainer
    PROVE  /\ Search /\ pc = "containers" /\ gpuMaps # <<>>
           /\ i \in Containers(pod) \ DOMAIN containerCards
           /\ DOMAIN containerCards' = DOMAIN containerCards \cup {i}
           /\ containerCards'[i] = IF i \in samegpu THEN samegpuCard ELSE cards
           /\ \A x \in DOMAIN containerCards : containerCards'[x] = containerCards[x]
           /\ i \in samegpu => cards = <<>> /\ samegpuCard # <<>>
           /\ cards' = <<>> /\ g \in DOMAIN gpuMaps
<1>1. /\ More /\ UNCHANGED <<ask, nodes, node, samegpuCard, allocating>>
      /\ containerCards' = Append(containerCards, IF i \in samegpu THEN samegpuCard ELSE cards)
      /\ i \in samegpu => cards' = cards
      /\ i \notin samegpu => cards' = <<>>
  BY DEF TakeSameGpu, FinishContainer, Searching, inputs
<1>2. Search /\ pc = "containers" /\ gpuMaps # <<>> /\ i <= Len(Requests[pod])
  BY <1>1 DEF More, Search
<1>3. i \in Containers(pod) /\ i \notin DOMAIN containerCards
  BY <1>2, AtHand
<1>4. ListsTyped /\ ListsKept
  BY <1>2, InSearch
<1>5. i \in samegpu => cards = <<>> /\ samegpuCard # <<>>
  BY <1>2, <1>4 DEF ListsKept
<1>6. cards' = <<>>
  BY <1>1, <1>5
<1>7. /\ DOMAIN containerCards' = DOMAIN containerCards \cup {i}
      /\ containerCards'[i] = IF i \in samegpu THEN samegpuCard ELSE cards
      /\ \A x \in DOMAIN containerCards : containerCards'[x] = containerCards[x]
  <2>1. PICK list, q, E : /\ list = (IF i \in samegpu THEN samegpuCard ELSE cards)
                          /\ q = containerCards /\ E = Seq(Ends)
    OBVIOUS
  <2>2. q \in Seq(E) /\ list \in E
    BY <1>4, <2>1 DEF ListsTyped
  <2>3. PICK n \in Nat : n = Len(q)
    BY <2>2, ListType
  <2>4. PICK r : r = Append(q, list)
    OBVIOUS
  <2>5. r \in Seq(E) /\ Len(r) = n + 1 /\ r[n + 1] = list /\ \A x \in 1..n : r[x] = q[x]
    BY <2>2, <2>3, <2>4
  <2>6. DOMAIN r = 1..(n + 1) /\ 1..(n + 1) = 1..n \cup {n + 1} /\ DOMAIN q = 1..n
    BY <2>2, <2>3, <2>5
  <2>7. i = n + 1
    BY <2>1, <2>3 DEF i
  <2>8. QED BY <1>1, <2>1, <2>4, <2>5, <2>6, <2>7
<1>8. g \in DOMAIN gpuMaps
  BY <1>2, <1>4 DEF ListsTyped
<1>9. QED BY <1>2, <1>3, <1>5, <1>6, <1>7, <1>8

\* A step of the search, of those that go on, leaves the pod and the node alone.
LEMMA OneSearch ==
    ASSUME [Next]_vars, Search'
    PROVE  /\ ask' = ask /\ nodes' = nodes /\ node' = node
           /\ \/ StartSearch \/ SameGpuFound \/ TakeSameGpu \/ PlaceGpu \/ PlacePair
              \/ FinishContainer
              \/ NextMap /\ g < Len(gpuMaps) /\ cards' = <<>> /\ preferred' = FALSE
                         /\ UNCHANGED <<samegpuCard, containerCards, allocating>>
              \/ UNCHANGED search /\ Search
<1>1. \/ StartSearch \/ SameGpuFound \/ TakeSameGpu \/ PlaceGpu \/ PlacePair \/ FinishContainer
      \/ NextMap \/ NoSameGpu \/ FinishCheck \/ StartConvert \/ AnnotateTiles \/ FinishConvert
      \/ UNCHANGED vars
  BY OutOfSearch DEF Next
<1>2. CASE StartSearch \/ SameGpuFound \/ TakeSameGpu \/ PlaceGpu \/ PlacePair \/ FinishContainer
  BY <1>2 DEF StartSearch, SameGpuFound, TakeSameGpu, PlaceGpu, PlacePair, FinishContainer, inputs
<1>3. CASE NextMap
  BY <1>3 DEF NextMap, Search, inputs
<1>4. CASE NoSameGpu \/ FinishCheck \/ StartConvert \/ AnnotateTiles \/ FinishConvert
  BY <1>4 DEF NoSameGpu, FinishCheck, StartConvert, AnnotateTiles, FinishConvert, Search, inputs
<1>5. CASE UNCHANGED vars
  BY <1>5 DEF vars, inputs, Search
<1>6. QED BY <1>1, <1>2, <1>3, <1>4, <1>5

\* When a step makes the node a preferred one, the pod gets a card that labels prefer.
LEMMA PrefStep == RequestInv /\ SearchInv /\ PrefInv /\ [Next]_vars => PrefInv'
<1> SUFFICES ASSUME RequestInv, SearchInv, PrefInv, [Next]_vars,
                    Search', preferred', PreferredKnown'
             PROVE  \E c \in findNodesPreferredGPU(labels') : Held(c)'
  BY DEF PrefInv
<1>1. ask' = ask /\ nodes' = nodes /\ node' = node
  BY OneSearch
<1>2. /\ labels' = labels /\ samegpu' = samegpu /\ NodeResourcesUsed' = NodeResourcesUsed
  BY <1>1, SameNode
<1>3. PreferredKnown
  BY <1>2 DEF PreferredKnown
<1>4. Search /\ preferred => \E c \in findNodesPreferredGPU(labels) : Held(c)
  BY <1>3 DEF PrefInv
<1>5. CASE StartSearch
  BY <1>5 DEF StartSearch
<1>6. CASE SameGpuFound
  <2>1. PICK c : c \in findNodesPreferredGPU(labels) /\ samegpuCard' = <<Plain(c)>>
    BY <1>3, <1>6, SameGpuStep
  <2>2. c \in Names(<<Plain(c)>>)
    BY DEF Names, Plain
  <2>3. samegpu # {}
    BY <1>6 DEF SameGpuFound
  <2>4. QED BY <1>2, <2>1, <2>2, <2>3 DEF Held
<1>7. CASE TakeSameGpu \/ FinishContainer
  <2>1. preferred /\ samegpuCard' = samegpuCard
    BY <1>7 DEF TakeSameGpu, FinishContainer
  <2>2. PICK c \in findNodesPreferredGPU(labels) : Held(c)
    BY <1>4, <1>7, <2>1, EntryAdded
  <2>3. Names(<<>>) = {}
    BY DEF Names
  <2>4. CASE c \in Names(cards)
    <3>1. i \notin samegpu
      BY <1>7, <2>3, <2>4, EntryAdded
    <3>2. i \in DOMAIN containerCards' /\ containerCards'[i] = cards
      BY <1>7, <3>1, EntryAdded
    <3>3. QED BY <1>2, <2>4, <3>2 DEF Held
  <2>5. CASE samegpu # {} /\ c \in Names(samegpuCard)
    BY <1>2, <2>1, <2>5 DEF Held
  <2>6. CASE \E x \in DOMAIN containerCards : c \in Names(containerCards[x])
    <3>1. PICK x \in DOMAIN containerCards : c \in Names(containerCards[x])
      BY <2>6
    <3>2. x \in DOMAIN containerCards' /\ containerCards'[x] = containerCards[x]
      BY <1>7, <3>1, EntryAdded
    <3>3. QED BY <1>2, <3>1, <3>2 DEF Held
  <2>7. QED BY <2>2, <2>4, <2>5, <2>6 DEF Held
<1>8. CASE PlaceGpu
  <2>1. /\ Search /\ UNCHANGED <<samegpuCard, containerCards>>
    BY <1>8 DEF PlaceGpu, Lacking, Searching, More, Search
  <2>2. PICK c \in DOMAIN used : /\ cards' = Append(cards, Plain(c))
                                 /\ (cards # <<>> /\ preferred)
                                      \/ c \in findNodesPreferredGPU(labels)
    BY <1>3, <1>8, PlaceGpuStep
  <2>3. cards \in Seq(Ends) /\ DOMAIN used = DOMAIN NodeResourcesUsed
    BY <2>1, InSearch DEF ListsTyped
  <2>4. Plain(c) \in Ends /\ Plain(c).gpuName = c
    <3>1. None \in LinkTiles(labels)
      BY DEF LinkTiles
    <3>2. QED BY <2>2, <2>3, <3>1 DEF Plain, Ends
  <2>5. Names(cards') = Names(cards) \cup {c}
    <3>1. PICK e \in Ends : e = Plain(c) /\ e.gpuName = c
      BY <2>4
    <3>2. Names(Append(cards, e)) = Names(cards) \cup {e.gpuName}
      BY <2>3, <3>1, OneMore
    <3>3. QED BY <2>2, <3>1, <3>2
  <2>6. CASE cards # <<>> /\ preferred
    <3>1. PICK d \in findNodesPreferredGPU(labels) : Held(d)
      BY <1>4, <2>1, <2>6
    <3>2. Held(d)'
      BY <1>2, <2>1, <2>5, <3>1 DEF Held
    <3>3. QED BY <1>2, <3>1, <3>2
  <2>7. CASE c \in findNodesPreferredGPU(labels)
    <3>1. Held(c)'
      BY <2>5 DEF Held
    <3>2. QED BY <1>2, <2>7, <3>1
  <2>8. QED BY <2>2, <2>6, <2>7
<1>9. CASE PlacePair
  <2>1. Search
    BY <1>9 DEF PlacePair, Lacking, Searching, More, Search
  <2>2. PICK one \in Ends, other \in Ends :
          /\ cards' = cards \o <<one, other>>
          /\ cards'[1].gpuName \in findNodesPreferredGPU(labels) \cup {None}
    BY <1>9, PlacePairStep
  <2>3. cards' \in Seq(Ends) /\ 1 \in DOMAIN cards'
    <3>1. cards \in Seq(Ends)
      BY <2>1, InSearch DEF ListsTyped
    <3>2. <<one, other>> \in Seq(Ends) /\ Len(<<one, other>>) = 2
      OBVIOUS
    <3>3. QED BY <2>2, <3>1, <3>2
  <2>4. PICK c : c = cards'[1].gpuName
    OBVIOUS
  <2>5. c \in Names(cards')
    BY <2>3, <2>4 DEF Names
  <2>6. cards'[1] \in Ends
    BY <2>3, ListType
  <2>7. c \in Cards
    BY <2>1, <2>4, <2>6, InSearch DEF Ends
  <2>8. c \in findNodesPreferredGPU(labels)
    BY <2>2, <2>4, <2>7, CardSelectAssumption
  <2>9. Held(c)'
    BY <2>5 DEF Held
  <2>10. QED BY <1>2, <2>8, <2>9
<1>10. CASE UNCHANGED search /\ Search
  <2>1. UNCHANGED <<preferred, cards, samegpuCard, containerCards>>
    BY <1>10 DEF search
  <2>2. PICK c \in findNodesPreferredGPU(labels) : Held(c)
    BY <1>4, <1>10, <2>1
  <2>3. Held(c)'
    BY <1>2, <2>1, <2>2 DEF Held
  <2>4. QED BY <1>2, <2>2, <2>3
<1>11. QED BY <1>5, <1>6, <1>7, <1>8, <1>9, <1>10, OneSearch

\* A node is offered as a preferred one only if the pod would get a card that a label
\* prefers there, as long as the labels prefer cards that the node has.
THEOREM PreferredIsTrue == Spec => [](PreferredKnown => PreferredTruthful)
<1>1. Init => PrefInv
  BY DEF Init, PrefInv, Search
<1>2. RequestInv /\ SearchInv /\ PrefInv /\ [Next]_vars => PrefInv'
  BY PrefStep
<1>3. RequestInv /\ SearchInv /\ PrefInv => (PreferredKnown => PreferredTruthful)
  <2> SUFFICES ASSUME RequestInv, SearchInv, PrefInv, PreferredKnown, Chosen, preferred
               PROVE  \E x \in Containers(pod) : CardsOf(x) \cap findNodesPreferredGPU(labels) # {}
    BY DEF PreferredTruthful
  <2>1. Search /\ pc # "samegpu" /\ Len(containerCards) = Len(Requests[pod])
    BY DEF Chosen, Search
  <2>2. PICK c \in findNodesPreferredGPU(labels) : Held(c)
    BY <2>1 DEF PrefInv
  <2>3. Containers(pod) = DOMAIN containerCards
    BY ChosenIsAnnotation
  <2>4. ListsKept /\ Checks
    BY <2>1, InSearch
  <2>5. i \notin Containers(pod)
    BY <2>1, <2>3, AtHand
  <2>6. cards = <<>> /\ Names(<<>>) = {}
    BY <2>4, <2>5 DEF ListsKept, Names
  <2>7. CASE samegpu # {} /\ c \in Names(samegpuCard)
    <3>1. PICK x \in samegpu : TRUE
      BY <2>7
    <3>2. x \in Containers(pod)
      BY <2>4 DEF Checks, SamegpuParses, samegpu
    <3>3. containerCards[x] = samegpuCard
      BY <2>3, <2>4, <3>2 DEF ListsKept
    <3>4. QED BY <2>7, <3>2, <3>3 DEF CardsOf
  <2>8. CASE \E x \in DOMAIN containerCards : c \in Names(containerCards[x])
    BY <2>3, <2>8 DEF CardsOf
  <2>9. QED BY <2>2, <2>6, <2>7, <2>8 DEF Held
<1>4. QED BY <1>1, <1>2, <1>3, SearchInvariance, PTL DEF Spec

\* The shared card, and the cards a container is given, are from one GPU map.
LEMMA AllowStep == RequestInv /\ SearchInv /\ AllowInv /\ [Next]_vars => AllowInv'
<1> SUFFICES ASSUME RequestInv, SearchInv, AllowInv, [Next]_vars, Search'
             PROVE  /\ Permitted(cards, gpuMaps[g])'
                    /\ samegpuCard' # <<>> => \E m \in DOMAIN gpuMaps' :
                         Permitted(samegpuCard, gpuMaps[m])'
                    /\ \A x \in DOMAIN containerCards' :
                          \E m \in DOMAIN gpuMaps' : Permitted(containerCards[x], gpuMaps[m])'
  BY DEF AllowInv
<1>1. ask' = ask /\ nodes' = nodes /\ node' = node
  BY OneSearch
<1>2. labels' = labels /\ ann' = ann /\ gpuMaps' = gpuMaps /\ NodeResourcesUsed' = NodeResourcesUsed
  BY <1>1, SameNode
<1>3. Names(<<>>) = {} /\ DOMAIN <<>> = {}
  BY DEF Names
<1>4. CASE StartSearch
  BY <1>3, <1>4 DEF StartSearch, Permitted
<1>5. CASE SameGpuFound
  <2>1. pc = "samegpu" /\ gpuMaps # <<>> /\ Search /\ UNCHANGED <<cards, containerCards>>
    BY <1>5 DEF SameGpuFound, Search
  <2>2. PICK c : checkGpuAvailability(gpuMaps[1], c) /\ samegpuCard' = <<Plain(c)>>
    BY <1>5, SameGpuStep
  <2>3. cards = <<>> /\ containerCards = <<>> /\ 1 \in DOMAIN gpuMaps
    BY <2>1, InSearch, MapsType DEF ListsKept
  <2>4. Names(<<Plain(c)>>) = {c}
    BY DEF Names, Plain
  <2>5. Permitted(samegpuCard, gpuMaps[1])'
    BY <1>2, <2>2, <2>4 DEF Permitted, checkGpuAvailability
  <2>6. QED BY <1>2, <1>3, <2>1, <2>3, <2>5 DEF Permitted
<1>6. CASE TakeSameGpu \/ FinishContainer
  <2>1. /\ Search /\ g \in DOMAIN gpuMaps /\ cards' = <<>> /\ samegpuCard' = samegpuCard
        /\ DOMAIN containerCards' = DOMAIN containerCards \cup {i}
        /\ containerCards'[i] = IF i \in samegpu THEN samegpuCard ELSE cards
        /\ \A x \in DOMAIN containerCards : containerCards'[x] = containerCards[x]
        /\ i \in samegpu => samegpuCard # <<>>
    BY <1>6, EntryAdded DEF TakeSameGpu, FinishContainer
  <2>2. /\ Permitted(cards, gpuMaps[g])
        /\ samegpuCard # <<>> => \E m \in DOMAIN gpuMaps : Permitted(samegpuCard, gpuMaps[m])
        /\ \A x \in DOMAIN containerCards : \E m \in DOMAIN gpuMaps :
             Permitted(containerCards[x], gpuMaps[m])
    BY <2>1 DEF AllowInv
  <2>3. \E m \in DOMAIN gpuMaps : Permitted(containerCards'[i], gpuMaps[m])
    BY <2>1, <2>2
  <2>4. \A x \in DOMAIN containerCards' : \E m \in DOMAIN gpuMaps :
            Permitted(containerCards'[x], gpuMaps[m])
    BY <2>1, <2>2, <2>3
  <2>5. QED BY <1>2, <1>3, <2>1, <2>2, <2>4 DEF Permitted
<1>7. CASE PlaceGpu
  <2>1. /\ Search /\ UNCHANGED <<samegpuCard, containerCards, g>>
    BY <1>7 DEF PlaceGpu, Lacking, Searching, More, Search
  <2>2. PICK c \in DOMAIN used : checkGpuAvailability(gpuMaps[g], c)
                 /\ cards' = Append(cards, Plain(c))
    BY <1>7, PlaceGpuStep
  <2>3. cards \in Seq(Ends) /\ DOMAIN used = DOMAIN NodeResourcesUsed
    BY <2>1, InSearch DEF ListsTyped
  <2>4. None \in LinkTiles(labels)
    BY DEF LinkTiles
  <2>5. PICK e \in Ends : e = Plain(c) /\ e.gpuName = c
    BY <2>2, <2>3, <2>4 DEF Plain, Ends
  <2>6. Names(cards') = Names(cards) \cup {c}
    BY <2>2, <2>3, <2>5, OneMore
  <2>7. Permitted(cards', gpuMaps[g])
    BY <2>1, <2>2, <2>6 DEF Permitted, AllowInv, checkGpuAvailability
  <2>8. QED BY <1>2, <2>1, <2>7 DEF AllowInv, Permitted
<1>8. CASE PlacePair
  <2>1. Search /\ UNCHANGED <<samegpuCard, containerCards, g>>
    BY <1>8 DEF PlacePair, Lacking, Searching, More, Search
  <2>2. PICK one \in Ends, other \in Ends :
          /\ \A end \in {one, other} : checkGpuAvailability(gpuMaps[g], end.gpuName)
          /\ cards' = cards \o <<one, other>>
    BY <1>8, PlacePairStep
  <2>3. cards \in Seq(Ends)
    BY <2>1, InSearch DEF ListsTyped
  <2>4. PICK q : q = Append(cards, one)
    OBVIOUS
  <2>5. q \in Seq(Ends) /\ Names(q) = Names(cards) \cup {one.gpuName}
    BY <2>3, <2>4, OneMore
  <2>6. Names(cards') = Names(q) \cup {other.gpuName}
    <3>1. Names(Append(q, other)) = Names(q) \cup {other.gpuName}
      BY <2>5, OneMore
    <3>2. cards' = Append(q, other)
      BY <2>2, <2>3, <2>4, TwoMore
    <3>3. QED BY <3>1, <3>2
  <2>7. Permitted(cards', gpuMaps[g])
    BY <2>1, <2>2, <2>5, <2>6 DEF Permitted, AllowInv, checkGpuAvailability
  <2>8. QED BY <1>2, <2>1, <2>7 DEF AllowInv, Permitted
<1>9. CASE /\ NextMap /\ g < Len(gpuMaps) /\ cards' = <<>> /\ preferred' = FALSE
           /\ UNCHANGED <<samegpuCard, containerCards, allocating>>
  <2>1. Search
    BY <1>9 DEF NextMap, Stuck, Lacking, Searching, More, Search
  <2>2. QED BY <1>2, <1>3, <1>9, <2>1 DEF AllowInv, Permitted
<1>10. CASE UNCHANGED search /\ Search
  <2>1. UNCHANGED <<cards, samegpuCard, containerCards, g>>
    BY <1>10 DEF search
  <2>2. QED BY <1>2, <1>10, <2>1 DEF AllowInv, Permitted
<1>11. QED BY <1>4, <1>5, <1>6, <1>7, <1>8, <1>9, <1>10, OneSearch

\* The labels hold together: continuations have their mark, a NUMA label names a node,
\* and no card is in two PCI groups.
LabelsWhole ==
    /\ \A l \in {"numa", "pciGroups"} : \A x \in 2..Len(labels[l]) : labels[l][x].mark = "Z"
    /\ labels.numa # <<>> => \E chunk \in ToSet(labels.numa) : chunk.items # <<>>
    /\ \A one, other \in ToSet(labels.pciGroups) :
         \A a \in ToSet(one.items), b \in ToSet(other.items) :
          a = b \/ a \cap b = {}

\* Cards in the PCI group of a disabled card are disabled.
LEMMA GroupDisabled ==
    ASSUME LabelsOK(labels), LabelsWhole, NEW c, NEW d, NEW chunk \in ToSet(labels.pciGroups),
           NEW group \in ToSet(chunk.items), c \in group, d \in group
    PROVE  c \in getPCIGroup(labels, d)
<1> DEFINE groups == concatenateSplitLabel(labels.pciGroups)
           I == {x \in 1..Len(groups) : d \in groups[x]}
<1>1. labels.pciGroups \in Chunks(SUBSET Cards)
  BY DEF LabelsOK
<1>2. \A x \in 2..Len(labels.pciGroups) : labels.pciGroups[x].mark = "Z"
  BY DEF LabelsWhole
<1>3. /\ groups \in Seq(SUBSET Cards)
      /\ ToSet(groups) = UNION {ToSet(labels.pciGroups[x].items) : x \in DOMAIN labels.pciGroups}
  BY <1>1, <1>2, LabelList
<1>4. getPCIGroup(labels, d) = IF I = {} THEN {} ELSE IF Min(I) = 0 THEN {} ELSE groups[Min(I)]
  BY DEF getPCIGroup, SelectInSeq
<1> HIDE DEF groups
<1>5. group \in ToSet(groups)
  <2>1. PICK x \in DOMAIN labels.pciGroups : labels.pciGroups[x] = chunk
    BY DEF ToSet
  <2>2. group \in ToSet(labels.pciGroups[x].items)
    BY <2>1
  <2>3. QED BY <1>3, <2>2
<1>6. I # {}
  <2>1. PICK x \in DOMAIN groups : groups[x] = group
    BY <1>5 DEF ToSet
  <2>2. DOMAIN groups = 1..Len(groups)
    BY <1>3
  <2>3. QED BY <2>1, <2>2
<1>7. I \subseteq 1..Len(groups)
  OBVIOUS
<1>8. Min(I) \in I /\ Min(I) \in DOMAIN groups /\ Min(I) # 0
  <2> HIDE DEF I
  <2>1. QED BY <1>3, <1>6, <1>7, FirstOf
<1>9. PICK m \in I : m = Min(I) /\ m \in DOMAIN groups
  BY <1>8
<1>10. d \in groups[m] /\ groups[m] \in ToSet(groups)
  BY <1>9 DEF ToSet
<1>11. PICK other \in ToSet(labels.pciGroups) : groups[m] \in ToSet(other.items)
  <2>1. PICK x \in DOMAIN labels.pciGroups : groups[m] \in ToSet(labels.pciGroups[x].items)
    BY <1>3, <1>10
  <2>2. labels.pciGroups[x] \in ToSet(labels.pciGroups)
    BY DEF ToSet
  <2>3. QED BY <2>1, <2>2
<1>12. groups[m] = group
  BY <1>10, <1>11 DEF LabelsWhole
<1>13. getPCIGroup(labels, d) = groups[m]
  <2> HIDE DEF I
  <2>1. QED BY <1>4, <1>6, <1>8, <1>9
<1>14. QED BY <1>12, <1>13

\* Cards that labels or the pod rule out are not given to a container, the cards of a
\* container are from one NUMA node when the pod asks for it, and containers that are to
\* share a GPU do; all this as long as the labels hold together.
THEOREM SelectionIsAllowed == Spec => [](LabelsWhole => SelectionAllowed)
<1>1. Init => AllowInv
  BY DEF Init, AllowInv, Search
<1>2. RequestInv /\ SearchInv /\ AllowInv /\ [Next]_vars => AllowInv'
  BY AllowStep
<1>3. RequestInv /\ SearchInv /\ AllowInv => (LabelsWhole => SelectionAllowed)
  <2> SUFFICES ASSUME RequestInv, SearchInv, AllowInv, LabelsWhole, Chosen,
                      NEW x \in Containers(pod)
               PROVE  /\ \A c \in CardsOf(x) :
                            /\ ~RuledOut(c)
                            /\ (ann.allow # None => c \in ann.allow)
                                 /\ (ann.deny # None => c \notin ann.deny)
                      /\ ann.singleNuma /\ labels.numa # <<>> =>
                            \E chunk \in ToSet(labels.numa) :
                               \E group \in ToSet(chunk.items) : CardsOf(x) \subseteq group
                      /\ \A y \in samegpu : x \in samegpu => containerCards[x] = containerCards[y]
    BY DEF SelectionAllowed
  <2>1. Search
    BY DEF Chosen, Search
  <2>2. Containers(pod) = DOMAIN containerCards
    BY ChosenIsAnnotation
  <2>3. LabelsOK(labels) /\ ListsKept /\ Checks
    BY <2>1, InSearch
  <2>4. PICK m \in DOMAIN gpuMaps : \A c \in CardsOf(x) :
                 c \in gpuMaps[m] /\ isGPUUsable(ann, labels, c)
    BY <2>1, <2>2 DEF AllowInv, Permitted, CardsOf
  <2>5. ASSUME NEW c \in CardsOf(x), RuledOut(c) PROVE FALSE
    <3>1. ~isGPUDisabled(labels, c)
      BY <2>4 DEF isGPUUsable
    <3>2. PICK l \in labels.tas :
            /\ l.kind = "disableGpu"
            /\ \/ l.card = c
               \/ l.value = "PCI_GROUP" /\ \E chunk \in ToSet(labels.pciGroups) :
                     \E group \in ToSet(chunk.items) : {c, l.card} \subseteq group
      BY <2>5 DEF RuledOut
    <3>3. l.card # c /\ ~(l.value = "PCI_GROUP" /\ c \in getPCIGroup(labels, l.card))
      BY <3>1, <3>2 DEF isGPUDisabled
    <3>4. PICK chunk \in ToSet(labels.pciGroups) : \E group \in ToSet(chunk.items) :
                   {c, l.card} \subseteq group
      BY <3>2, <3>3
    <3>5. PICK group \in ToSet(chunk.items) : {c, l.card} \subseteq group
      BY <3>4
    <3>6. c \in getPCIGroup(labels, l.card)
      BY <2>3, <3>5, GroupDisabled
    <3>7. QED BY <3>2, <3>3, <3>6
  <2>6. \A c \in CardsOf(x) : (ann.allow # None => c \in ann.allow)
            /\ (ann.deny # None => c \notin ann.deny)
    BY <2>4 DEF isGPUUsable, isGPUAllowed, isGPUDenied
  <2>7. ASSUME ann.singleNuma, labels.numa # <<>>
        PROVE  \E chunk \in ToSet(labels.numa) : \E group \in ToSet(chunk.items) :
                   CardsOf(x) \subseteq group
    <3> DEFINE groups == concatenateSplitLabel(labels.numa)
    <3>1. labels.numa \in Chunks({Malformed} \cup SUBSET Cards)
      BY <2>3 DEF LabelsOK
    <3>2. \A y \in 2..Len(labels.numa) : labels.numa[y].mark = "Z"
      BY DEF LabelsWhole
    <3>3. /\ groups \in Seq({Malformed} \cup SUBSET Cards)
          /\ ToSet(groups) = UNION {ToSet(labels.numa[y].items) : y \in DOMAIN labels.numa}
      BY <3>1, <3>2, LabelList
    <3>4. PICK chunk \in ToSet(labels.numa) : chunk.items # <<>>
      BY <2>7 DEF LabelsWhole
    <3>5. PICK w \in DOMAIN labels.numa : labels.numa[w] = chunk
      BY <3>4 DEF ToSet
    <3>6. ToSet(chunk.items) # {}
      <4>1. labels.numa \in Seq([mark : STRING, items : Seq({Malformed} \cup SUBSET Cards)])
        BY <3>1 DEF Chunks
      <4>2. labels.numa[w] \in [mark : STRING, items : Seq({Malformed} \cup SUBSET Cards)]
        BY <3>5, <4>1, ListType
      <4>3. chunk.items \in Seq({Malformed} \cup SUBSET Cards)
        BY <3>5, <4>2
      <4>4. 1 \in DOMAIN chunk.items
        BY <3>4, <4>3
      <4>5. QED BY <4>4 DEF ToSet
    <3>7. ToSet(groups) # {}
      BY <3>3, <3>5, <3>6
    <3>8. groups # <<>>
      BY <3>7 DEF ToSet
    <3>9. gpuMaps = IF Contains(groups, Malformed) THEN <<>> ELSE groups
      BY <2>7, <3>8 DEF gpuMaps, createGPUMaps
    <3> HIDE DEF groups
    <3>10. DOMAIN <<>> = {}
      OBVIOUS
    <3>11. gpuMaps = groups
      BY <3>9, <3>10
    <3>12. gpuMaps[m] \in ToSet(groups)
      BY <3>11 DEF ToSet
    <3>13. PICK y \in DOMAIN labels.numa : gpuMaps[m] \in ToSet(labels.numa[y].items)
      BY <3>3, <3>12
    <3>14. labels.numa[y] \in ToSet(labels.numa) /\ CardsOf(x) \subseteq gpuMaps[m]
      BY <2>4, <3>13 DEF ToSet
    <3>15. QED BY <3>13, <3>14
  <2>8. \A y \in samegpu : x \in samegpu => containerCards[x] = containerCards[y]
    <3>1. samegpu \subseteq DOMAIN containerCards
      BY <2>2, <2>3 DEF Checks, SamegpuParses, samegpu
    <3>2. QED BY <2>2, <2>3, <3>1 DEF ListsKept
  <2>9. QED BY <2>5, <2>6, <2>7, <2>8
<1>4. QED BY <1>1, <1>2, <1>3, SearchInvariance, PTL DEF Spec

-----------------------------------------------------------------------------
(* The order of the free tiles. *)

\* What reorderPreferredTilesFirst does for the preferred tile p.
MoveStep(acc, p) ==
    LET at == SelectInSeq(acc.tiles, LAMBDA t : t = p)
    IN IF at = 0 THEN acc
       ELSE [tiles |-> IF at > acc.now
                       THEN [acc.tiles EXCEPT ![acc.now] = p, ![at] = acc.tiles[acc.now]]
                       ELSE acc.tiles,
             now |-> acc.now + 1]

MoveBody(order, prefs, h, s) ==
    IF s = {} THEN [tiles |-> order, now |-> 1] ELSE MoveStep(h[s \ {Max(s)}], prefs[Max(s)])

\* h solves the recursion equation of the fold over the preferred tiles 1 to n.
Moves(order, prefs, n, h) == h = [s \in SUBSET (1..n) |-> MoveBody(order, prefs, h, s)]

LEMMA ReorderUnfold ==
    ASSUME NEW order, NEW prefs, NEW n \in Nat, DOMAIN prefs = 1..n
    PROVE  reorderPreferredTilesFirst(order, prefs) =
               (CHOOSE h : Moves(order, prefs, n, h))[1..n].tiles
BY DEF reorderPreferredTilesFirst, FoldLeft, MapThenFoldSet, Moves, MoveBody, MoveStep

\* A fold over numbers has a solution.
LEMMA MovesExist ==
    ASSUME NEW order, NEW prefs, NEW n \in Nat
    PROVE  \E h : Moves(order, prefs, n, h)
<1> DEFINE Bad == {m \in Nat : ~\E h : Moves(order, prefs, m, h)}
<1> SUFFICES ASSUME Bad # {} PROVE FALSE
  OBVIOUS
<1>1. PICK m \in Bad : \A y \in Bad : m <= y
  <2>1. Bad \in SUBSET Nat
    OBVIOUS
  <2> HIDE DEF Bad
  <2>2. QED BY <2>1, LeastNat
<1>2. m \in Nat /\ ~\E h : Moves(order, prefs, m, h)
  BY <1>1
<1>3. CASE m = 0
  <2> DEFINE B == [tiles |-> order, now |-> 1]
             h == [s \in SUBSET (1..0) |-> B]
  <2>1. \A s \in SUBSET (1..0) : s = {}
    OBVIOUS
  <2>2. \A s \in SUBSET (1..0) : MoveBody(order, prefs, h, s) = B
    BY <2>1 DEF MoveBody
  <2>3. h = [s \in SUBSET (1..0) |-> MoveBody(order, prefs, h, s)]
    BY <2>2
  <2>4. Moves(order, prefs, 0, h)
    BY <2>3 DEF Moves
  <2>5. QED BY <1>2, <1>3, <2>4
<1>4. CASE m # 0
  <2>1. m - 1 \in Nat /\ ~(m <= m - 1)
    BY <1>2, <1>4
  <2>2. PICK f : Moves(order, prefs, m - 1, f)
    BY <1>1, <2>1
  <2>3. PICK n1 : n1 = m - 1 /\ n1 \in Nat
    BY <2>1
  <2> DEFINE h == [s \in SUBSET (1..m) |->
                      IF m \in s THEN MoveStep(f[s \ {m}], prefs[m]) ELSE f[s]]
  <2>4. \A s \in SUBSET (1..m) : s \ {m} \in SUBSET (1..n1) /\ (m \notin s => s \in SUBSET (1..n1))
    BY <1>2, <2>3
  <2>5. \A s \in SUBSET (1..n1) : f[s] = MoveBody(order, prefs, f, s)
    <3> DEFINE f2 == [s \in SUBSET (1..n1) |-> MoveBody(order, prefs, f, s)]
    <3>1. f = f2
      BY <2>2, <2>3 DEF Moves
    <3>2. \A s \in SUBSET (1..n1) : f2[s] = MoveBody(order, prefs, f, s)
      OBVIOUS
    <3> HIDE DEF f2
    <3>3. QED BY <3>1, <3>2
  <2>6. \A s \in SUBSET (1..n1) : h[s] = f[s]
    <3>1. \A s \in SUBSET (1..n1) : s \in SUBSET (1..m) /\ m \notin s
      BY <1>2, <2>3
    <3>2. QED BY <3>1
  <2>7. ASSUME NEW s \in SUBSET (1..m) PROVE h[s] = MoveBody(order, prefs, h, s)
    <3>1. CASE m \in s
      <4>1. Max(s) = m /\ s # {}
        BY <1>2, <1>4, <3>1, MaxOfFirst
      <4>2. h[s] = MoveStep(f[s \ {m}], prefs[m])
        BY <3>1
      <4>3. h[s \ {m}] = f[s \ {m}]
        BY <2>4, <2>6
      <4> HIDE DEF h
      <4>4. QED BY <4>1, <4>2, <4>3 DEF MoveBody
    <3>2. CASE m \notin s
      <4>1. s \in SUBSET (1..n1) /\ h[s] = f[s]
        BY <2>4, <2>6, <3>2
      <4>2. f[s] = MoveBody(order, prefs, f, s)
        BY <2>5, <4>1
      <4>3. s \ {Max(s)} \in SUBSET (1..n1)
        BY <4>1
      <4>4. h[s \ {Max(s)}] = f[s \ {Max(s)}]
        BY <2>6, <4>3
      <4> HIDE DEF h
      <4>5. QED BY <4>1, <4>2, <4>4 DEF MoveBody
    <3>3. QED BY <3>1, <3>2
  <2>8. h = [s \in SUBSET (1..m) |-> h[s]]
    OBVIOUS
  <2> HIDE DEF h
  <2>9. Moves(order, prefs, m, h)
    BY <2>7, <2>8 DEF Moves
  <2>10. QED BY <1>2, <2>9
<1>5. QED BY <1>3, <1>4

\* Moving a preferred tile swaps two of the tiles.
LEMMA MoveKeeps ==
    ASSUME NEW F, IsFiniteSet(F), NEW acc, NEW p, acc.tiles \in SetToSeqs(F), acc.now \in Nat \ {0}
    PROVE  MoveStep(acc, p).tiles \in SetToSeqs(F) /\ MoveStep(acc, p).now \in Nat \ {0}
<1> DEFINE I == {x \in 1..Len(acc.tiles) : acc.tiles[x] = p}
           at == IF I # {} THEN Min(I) ELSE 0
           swap == [acc.tiles EXCEPT ![acc.now] = p, ![at] = acc.tiles[acc.now]]
<1>1. MoveStep(acc, p) = IF at = 0 THEN acc
         ELSE [tiles |-> IF at > acc.now THEN swap ELSE acc.tiles, now |-> acc.now + 1]
  BY DEF MoveStep, SelectInSeq
<1>2. PICK n \in Nat : n = Cardinality(F)
  BY FS_CardinalityType
<1>3. PICK q : q = acc.tiles
  OBVIOUS
<1>4. /\ q \in [1..n -> F] /\ \A x, y \in 1..n : x # y => q[x] # q[y]
      /\ Len(q) = n /\ q \in Seq(F) /\ DOMAIN q = 1..n
  <2>1. /\ DOMAIN q = 1..n /\ Len(q) = n /\ q \in Seq(F)
        /\ \A x, y \in 1..n : x # y => q[x] # q[y]
    BY <1>2, <1>3, OrderOfSet
  <2>2. QED BY <1>2, <1>3, <2>1 DEF SetToSeqs
<1>5. CASE at = 0
  BY <1>1, <1>5
<1>6. CASE at # 0
  <2>1. I # {} /\ I \subseteq 1..Len(q)
    BY <1>3, <1>6
  <2>2. at \in I /\ at \in 1..n
    <3>1. at = Min(I)
      BY <2>1
    <3> HIDE DEF I, at
    <3>2. QED BY <1>4, <2>1, <3>1, FirstOf
  <2>3. q[at] = p /\ p \in F
    BY <1>3, <1>4, <2>2
  <2> HIDE DEF I, at
  <2>4. ASSUME at > acc.now PROVE swap \in SetToSeqs(F)
    <3>1. acc.now \in 1..n /\ acc.now # at
      BY <2>2, <2>4
    <3>2. PICK m \in 1..n, k \in 1..n : m = acc.now /\ k = at /\ m # k
      BY <2>2, <3>1
    <3>3. PICK r : r = [q EXCEPT ![m] = p, ![k] = q[m]]
      OBVIOUS
    <3>4. /\ DOMAIN r = 1..n /\ r[m] = q[k] /\ r[k] = q[m]
          /\ \A x \in 1..n \ {m, k} : r[x] = q[x]
      BY <1>4, <2>3, <3>2, <3>3
    <3>5. r \in [1..n -> F]
      BY <1>4, <2>3, <3>3
    <3>6. \A x, y \in 1..n : x # y => r[x] # r[y]
      <4> SUFFICES ASSUME NEW x \in 1..n, NEW y \in 1..n, x # y PROVE r[x] # r[y]
        OBVIOUS
      <4> DEFINE o(z) == IF z = m THEN k ELSE IF z = k THEN m ELSE z
      <4>1. o(x) \in 1..n /\ o(y) \in 1..n /\ o(x) # o(y)
        BY <3>2
      <4>2. r[x] = q[o(x)] /\ r[y] = q[o(y)]
        BY <3>2, <3>4
      <4> HIDE DEF o
      <4>3. QED BY <1>4, <4>1, <4>2
    <3>7. r \in SetToSeqs(F)
      BY <1>2, <3>5, <3>6 DEF SetToSeqs
    <3>8. QED BY <1>3, <3>2, <3>3, <3>7
  <2> HIDE DEF swap
  <2>5. MoveStep(acc, p) = [tiles |-> IF at > acc.now THEN swap ELSE acc.tiles, now |-> acc.now + 1]
    BY <1>1, <1>6
  <2>6. QED BY <2>4, <2>5
<1>7. QED BY <1>5, <1>6

\* reorderPreferredTilesFirst neither loses a tile nor adds one.
LEMMA Reordered ==
    ASSUME NEW F, IsFiniteSet(F), NEW order \in SetToSeqs(F), NEW prefs, NEW n \in Nat,
           DOMAIN prefs = 1..n
    PROVE  reorderPreferredTilesFirst(order, prefs) \in SetToSeqs(F)
<1>1. PICK h : h = CHOOSE g1 : Moves(order, prefs, n, g1)
  OBVIOUS
<1>2. Moves(order, prefs, n, h)
  BY <1>1, MovesExist
<1>3. reorderPreferredTilesFirst(order, prefs) = h[1..n].tiles
  BY <1>1, ReorderUnfold
<1>4. \A s \in SUBSET (1..n) : h[s] = MoveBody(order, prefs, h, s)
  <2> DEFINE f2 == [s \in SUBSET (1..n) |-> MoveBody(order, prefs, h, s)]
  <2>1. h = f2
    BY <1>2 DEF Moves
  <2>2. \A s \in SUBSET (1..n) : f2[s] = MoveBody(order, prefs, h, s)
    OBVIOUS
  <2> HIDE DEF f2
  <2>3. QED BY <2>1, <2>2
<1> DEFINE Bad == {m \in 0..n : ~(h[1..m].tiles \in SetToSeqs(F) /\ h[1..m].now \in Nat \ {0})}
<1>5. Bad = {}
  <2> SUFFICES ASSUME Bad # {} PROVE FALSE
    OBVIOUS
  <2>1. PICK m \in Bad : \A y \in Bad : m <= y
    <3>1. Bad \in SUBSET Nat
      OBVIOUS
    <3> HIDE DEF Bad
    <3>2. QED BY <3>1, LeastNat
  <2>2. m \in 0..n /\ ~(h[1..m].tiles \in SetToSeqs(F) /\ h[1..m].now \in Nat \ {0})
    BY <2>1
  <2>3. 1..m \in SUBSET (1..n)
    BY <2>2
  <2>4. CASE m = 0
    <3>1. 1..m = {}
      BY <2>4
    <3>2. h[1..m] = [tiles |-> order, now |-> 1]
      BY <1>4, <2>3, <3>1 DEF MoveBody
    <3>3. QED BY <2>2, <3>2
  <2>5. CASE m # 0
    <3>1. m - 1 \in 0..n /\ ~(m <= m - 1) /\ m \in Nat /\ m \in 1..m /\ 1..m # {}
      BY <2>2, <2>5
    <3>2. h[1..(m - 1)].tiles \in SetToSeqs(F) /\ h[1..(m - 1)].now \in Nat \ {0}
      BY <2>1, <3>1
    <3>3. Max(1..m) = m
      BY <2>5, <3>1, MaxOfFirst
    <3>4. (1..m) \ {m} = 1..(m - 1)
      BY <3>1
    <3>5. h[1..m] = MoveStep(h[1..(m - 1)], prefs[m])
      BY <1>4, <2>3, <3>1, <3>3, <3>4 DEF MoveBody
    <3>6. PICK acc : acc = h[1..(m - 1)]
      OBVIOUS
    <3>7. MoveStep(acc, prefs[m]).tiles \in SetToSeqs(F)
              /\ MoveStep(acc, prefs[m]).now \in Nat \ {0}
      BY <3>2, <3>6, MoveKeeps
    <3>8. QED BY <2>2, <3>5, <3>6, <3>7
  <2>6. QED BY <2>4, <2>5
<1>6. h[1..n].tiles \in SetToSeqs(F)
  BY <1>5
<1>7. QED BY <1>3, <1>6

-----------------------------------------------------------------------------
(* Pairs of tiles. *)

\* Without xe-links the cards are given whole.
LEMMA PlainStep == RequestInv /\ SearchInv /\ PlainInv /\ [Next]_vars => PlainInv'
<1> SUFFICES ASSUME RequestInv, SearchInv, PlainInv, [Next]_vars, Search', ~ann'.xelink
             PROVE  Plains(cards') /\ \A x \in DOMAIN containerCards' : Plains(containerCards'[x])
  BY DEF PlainInv, Plains
<1>1. ask' = ask /\ nodes' = nodes /\ node' = node
  BY OneSearch
<1>2. ~ann.xelink
  BY <1>1, SameNode
<1>3. Search => Plains(cards) /\ \A x \in DOMAIN containerCards : Plains(containerCards[x])
  BY <1>2 DEF PlainInv
<1>4. Plains(<<>>) /\ DOMAIN <<>> = {} /\ \A c : Plains(<<Plain(c)>>)
  <2>1. \A c : DOMAIN <<Plain(c)>> = {1} /\ <<Plain(c)>>[1].tile = None
    BY DEF Plain
  <2>2. QED BY <2>1 DEF Plains
<1>5. CASE StartSearch
  BY <1>4, <1>5 DEF StartSearch
<1>6. CASE SameGpuFound
  BY <1>3, <1>6 DEF SameGpuFound, Search
<1>7. CASE TakeSameGpu \/ FinishContainer
  <2>1. /\ Search /\ pc = "containers" /\ cards' = <<>>
        /\ DOMAIN containerCards' = DOMAIN containerCards \cup {i}
        /\ containerCards'[i] = IF i \in samegpu THEN samegpuCard ELSE cards
        /\ \A x \in DOMAIN containerCards : containerCards'[x] = containerCards[x]
    BY <1>7, EntryAdded
  <2>2. i \in samegpu => \E c : samegpuCard = <<Plain(c)>>
    BY <2>1, InSearch DEF ListsKept
  <2>3. Plains(containerCards'[i])
    BY <1>3, <1>4, <2>1, <2>2
  <2>4. QED BY <1>3, <1>4, <2>1, <2>3
<1>8. CASE PlaceGpu
  <2>1. Search /\ containerCards' = containerCards
    BY <1>8 DEF PlaceGpu, Lacking, Searching, More, Search
  <2>2. PICK c \in DOMAIN used : cards' = Append(cards, Plain(c))
    BY <1>8, PlaceGpuStep
  <2>3. cards \in Seq(Ends)
    BY <2>1, InSearch DEF ListsTyped
  <2>4. /\ \E n \in Nat : n = Len(cards)
        /\ \E e : e = Plain(c) /\ e.tile = None
    <3>1. Len(cards) \in Nat
      BY <2>3, ListType
    <3>2. Plain(c).tile = None
      BY DEF Plain
    <3>3. QED BY <3>1, <3>2
  <2>41. PICK n \in Nat : n = Len(cards)
    BY <2>4
  <2>42. PICK e : e = Plain(c) /\ e.tile = None
    BY <2>4
  <2>5. /\ DOMAIN cards = 1..n /\ DOMAIN cards' = 1..(n + 1) /\ cards'[n + 1] = e
        /\ \A x \in 1..n : cards'[x] = cards[x]
    BY <2>2, <2>3, <2>41, <2>42
  <2>6. \A x \in 1..(n + 1) : x \in 1..n \/ x = n + 1
    OBVIOUS
  <2>7. Plains(cards')
    BY <1>3, <2>1, <2>42, <2>5, <2>6 DEF Plains
  <2>8. QED BY <1>3, <2>1, <2>7
<1>9. CASE PlacePair
  BY <1>2, <1>9 DEF PlacePair
<1>10. CASE /\ NextMap /\ g < Len(gpuMaps) /\ cards' = <<>> /\ preferred' = FALSE
            /\ UNCHANGED <<samegpuCard, containerCards, allocating>>
  <2>1. Search
    BY <1>10 DEF NextMap, Stuck, Lacking, Searching, More, Search
  <2>2. QED BY <1>3, <1>4, <1>10, <2>1
<1>11. CASE UNCHANGED search /\ Search
  BY <1>3, <1>11 DEF search
<1>12. QED BY <1>5, <1>6, <1>7, <1>8, <1>9, <1>10, <1>11, OneSearch

\* A pair at the end of a list of pairs.
PairedBy(E, list, one, other, q) ==
    /\ list \in Seq(E) /\ Paired(list)
    /\ one \in E /\ other \in E /\ Joins(one, other)
    /\ q = list \o <<one, other>>

LEMMA PairAdded ==
    ASSUME NEW E, NEW list, NEW one, NEW other, NEW q, PairedBy(E, list, one, other, q)
    PROVE  /\ Paired(q) /\ ToSet(q) = ToSet(list) \cup {one, other}
           /\ \A x \in DOMAIN q : q[x] \in {one, other} \/ (x \in DOMAIN list /\ q[x] = list[x])
<1> USE DEF PairedBy
<1>0. PICK n \in Nat : n = Len(list)
  OBVIOUS
<1>1. PICK w : n = Len(list) /\ w = <<one, other>>
  BY <1>0
<1>2. w \in Seq(E) /\ Len(w) = 2 /\ w[1] = one /\ w[2] = other
  BY <1>1
<1>3. /\ DOMAIN list = 1..n /\ DOMAIN q = 1..(n + 2) /\ q \in Seq(E) /\ Len(q) = n + 2
      /\ \A x \in 1..n : q[x] = list[x]
  BY <1>1, <1>2
<1>4. q[n + 1] = one /\ q[n + 2] = other
  <2>1. (n + 1) - n = 1 /\ (n + 2) - n = 2
    OBVIOUS
  <2>2. QED BY <1>1, <1>2, <2>1
<1>5. n % 2 = 0 /\ \A x \in 1..n : x % 2 = 1 => x + 1 \in 1..n /\ Joins(list[x], list[x + 1])
  BY <1>1, <1>3 DEF Paired
<1>6. \A x \in 1..(n + 2) : x \in 1..n \/ x = n + 1 \/ x = n + 2
  OBVIOUS
<1>7. (n + 2) % 2 = 0 /\ (n + 1) + 1 = n + 2 /\ n + 2 \in 1..(n + 2)
  BY <1>5
<1>8. ASSUME NEW x \in 1..(n + 2), x % 2 = 1 PROVE x + 1 \in 1..(n + 2) /\ Joins(q[x], q[x + 1])
  <2>1. CASE x \in 1..n
    <3>1. x + 1 \in 1..n /\ Joins(list[x], list[x + 1])
      BY <1>5, <1>8, <2>1
    <3>2. QED BY <1>3, <2>1, <3>1
  <2>2. CASE x = n + 1
    BY <1>4, <1>7, <2>2
  <2>3. CASE x = n + 2
    BY <1>7, <1>8, <2>3
  <2>4. QED BY <1>6, <2>1, <2>2, <2>3
<1>9. Paired(q)
  BY <1>3, <1>7, <1>8 DEF Paired
<1>10. ASSUME NEW x \in DOMAIN q PROVE q[x] \in {one, other}
              \/ (x \in DOMAIN list /\ q[x] = list[x])
  <2>1. x \in 1..n \/ x = n + 1 \/ x = n + 2
    BY <1>3, <1>6
  <2>2. CASE x \in 1..n
    BY <1>3, <2>2
  <2>3. CASE x = n + 1
    BY <1>4, <2>3
  <2>4. CASE x = n + 2
    BY <1>4, <2>4
  <2>5. QED BY <2>1, <2>2, <2>3, <2>4
<1>11. ToSet(q) = ToSet(list) \cup {one, other}
  <2>1. ToSet(q) \subseteq ToSet(list) \cup {one, other}
    BY <1>10 DEF ToSet
  <2>2. ToSet(list) \subseteq ToSet(q)
    BY <1>3 DEF ToSet
  <2>3. n + 1 \in DOMAIN q /\ n + 2 \in DOMAIN q
    BY <1>3
  <2>4. one \in ToSet(q) /\ other \in ToSet(q)
    BY <1>4, <2>3 DEF ToSet
  <2>5. QED BY <2>1, <2>2, <2>4
<1>12. QED BY <1>9, <1>10, <1>11

\* With xe-links the cards come in pairs, joined by links whose ends are set aside.
LEMMA XeStep == RequestInv /\ SearchInv /\ XeInv /\ [Next]_vars => XeInv'
<1> SUFFICES ASSUME RequestInv, SearchInv, XeInv, [Next]_vars, Search', ann'.xelink
             PROVE  /\ DOMAIN allocating' = Cards /\ Paired(cards)' /\ Reserved(cards)'
                    /\ \A x \in DOMAIN containerCards' :
                          /\ Paired(containerCards[x])' /\ Reserved(containerCards[x])'
                          /\ ToSet(containerCards'[x]) \cap ToSet(cards') = {}
                          /\ \A y \in DOMAIN containerCards' \ {x} :
                                ToSet(containerCards'[x]) \cap ToSet(containerCards'[y]) = {}
  BY DEF XeInv
<1>1. ask' = ask /\ nodes' = nodes /\ node' = node
  BY OneSearch
<1>2. /\ ann' = ann /\ labels' = labels /\ load' = load /\ samegpu' = samegpu
      /\ PerGPUCapacity' = PerGPUCapacity
  BY <1>1, SameNode
<1>3. Search =>
        /\ DOMAIN allocating = Cards /\ Paired(cards) /\ Reserved(cards)
        /\ \A x \in DOMAIN containerCards :
              /\ Paired(containerCards[x]) /\ Reserved(containerCards[x])
              /\ ToSet(containerCards[x]) \cap ToSet(cards) = {}
              /\ \A y \in DOMAIN containerCards \ {x} :
                    ToSet(containerCards[x]) \cap ToSet(containerCards[y]) = {}
  BY <1>2 DEF XeInv
<1>4. samegpu = {}
  <2>1. Checks'
    <3>1. SearchInv'
      BY SearchStep
    <3>2. QED BY <3>1 DEF SearchInv
  <2>2. Checks
    BY <1>1, <2>1, SameNode
  <2>3. QED BY <1>2, <2>2 DEF Checks, Readable, samegpu
<1>5. \A list : Paired(list)' <=> Paired(list)
  BY <1>2 DEF Paired, Joins
<1>6. \A c : UsedTiles(c)' = UsedTiles(c) /\ Disabled(c)' = Disabled(c)
  BY <1>2 DEF UsedTiles, Disabled, TilesPerGpu
<1>7. Paired(<<>>) /\ Reserved(<<>>)' /\ ToSet(<<>>) = {} /\ DOMAIN <<>> = {} /\ Reserved(<<>>)
  BY DEF Paired, Reserved, ToSet
<1>8. CASE StartSearch
  <2>1. cards' = <<>> /\ containerCards' = <<>> /\ allocating' = [c \in Cards |-> {}]
    BY <1>8 DEF StartSearch
  <2>2. QED BY <1>5, <1>7, <2>1 DEF Reserved
<1>9. CASE SameGpuFound
  BY <1>4, <1>9 DEF SameGpuFound
<1>10. CASE PlaceGpu
  BY <1>2, <1>10 DEF PlaceGpu
<1>11. CASE TakeSameGpu \/ FinishContainer
  <2>1. /\ Search /\ cards' = <<>> /\ i \notin DOMAIN containerCards
        /\ DOMAIN containerCards' = DOMAIN containerCards \cup {i}
        /\ containerCards'[i] = cards
        /\ \A x \in DOMAIN containerCards : containerCards'[x] = containerCards[x]
    BY <1>4, <1>11, EntryAdded
  <2>2. allocating' = allocating
    BY <1>11 DEF TakeSameGpu, FinishContainer
  <2>3. \A list : Reserved(list) => Reserved(list)'
    BY <1>2, <1>6, <2>2 DEF Reserved, SetAside
  <2>4. ASSUME NEW x \in DOMAIN containerCards'
        PROVE  /\ Paired(containerCards[x])' /\ Reserved(containerCards[x])'
               /\ ToSet(containerCards'[x]) \cap ToSet(cards') = {}
               /\ \A y \in DOMAIN containerCards' \ {x} :
                     ToSet(containerCards'[x]) \cap ToSet(containerCards'[y]) = {}
    <3>1. PICK list : list = containerCards'[x]
      OBVIOUS
    <3>2. Paired(list) /\ Reserved(list)
      BY <1>3, <2>1, <3>1
    <3>3. Paired(list)' /\ Reserved(list)'
      BY <1>5, <2>3, <3>2
    <3>4. Paired(containerCards[x])' /\ Reserved(containerCards[x])'
      BY <3>1, <3>3
    <3>5. ToSet(containerCards'[x]) \cap ToSet(cards') = {}
      BY <1>7, <2>1
    <3>6. ASSUME NEW y \in DOMAIN containerCards', y # x
          PROVE  ToSet(containerCards'[x]) \cap ToSet(containerCards'[y]) = {}
      <4>1. CASE x = i
        BY <1>3, <2>1, <3>6, <4>1
      <4>2. CASE y = i
        BY <1>3, <2>1, <3>6, <4>2
      <4>3. CASE x # i /\ y # i
        BY <1>3, <2>1, <3>6, <4>3
      <4>4. QED BY <4>1, <4>2, <4>3
    <3>7. QED BY <3>4, <3>5, <3>6
  <2>5. DOMAIN allocating' = Cards /\ Paired(cards)' /\ Reserved(cards)'
    <3>1. PICK list : list = cards'
      OBVIOUS
    <3>2. Paired(list)' /\ Reserved(list)'
      BY <1>5, <1>7, <2>1, <3>1
    <3>3. QED BY <1>3, <2>1, <2>2, <3>1, <3>2
  <2>6. QED BY <2>4, <2>5
<1>12. CASE PlacePair
  <2>1. Search /\ containerCards' = containerCards
    BY <1>12 DEF PlacePair, Lacking, Searching, More, Search
  <2>2. PICK one \in Ends, other \in Ends :
          /\ one.gpuName # other.gpuName /\ Joins(one, other)
          /\ \A end \in {one, other} : end.tile \in AvailableTiles(end.gpuName)
          /\ cards' = cards \o <<one, other>>
          /\ allocating' = [allocating EXCEPT ![one.gpuName] = @ \cup {one.tile},
                                              ![other.gpuName] = @ \cup {other.tile}]
    BY <1>12, PlacePairStep
  <2>3. /\ cards \in Seq(Ends) /\ DOMAIN used \subseteq Cards
             /\ DOMAIN used = DOMAIN NodeResourcesUsed
        /\ DOMAIN allocating = Cards
    BY <1>3, <2>1, InSearch DEF ListsTyped
  <2>4. one.gpuName \in Cards /\ other.gpuName \in Cards
    BY <2>2, <2>3 DEF Ends
  <2>5. /\ DOMAIN allocating' = Cards /\ \A c \in Cards : allocating[c] \subseteq allocating'[c]
        /\ \A end \in {one, other} : end.tile \in allocating'[end.gpuName]
    BY <2>2, <2>3, <2>4
  <2>6. \A end \in {one, other} :
           end.tile \notin UsedTiles(end.gpuName) \cup TilesOf(Disabled(end.gpuName))
                             \cup allocating[end.gpuName]
    BY <2>2, AvailableType
  <2>7. PICK q : q = cards'
    OBVIOUS
  <2>8. /\ Paired(q) /\ ToSet(q) = ToSet(cards) \cup {one, other}
        /\ \A x \in DOMAIN q : q[x] \in {one, other} \/ (x \in DOMAIN cards /\ q[x] = cards[x])
    <3>1. Paired(cards)
      BY <1>3, <2>1
    <3>2. q = cards \o <<one, other>>
      BY <2>2, <2>7
    <3>3. PICK E, list : E = Ends /\ list = cards
      OBVIOUS
    <3>4. list \in Seq(E) /\ Paired(list) /\ one \in E /\ other \in E
      BY <2>3, <3>1, <3>3
    <3>5. Joins(one, other)
      BY <2>2
    <3>6. q = list \o <<one, other>>
      BY <3>2, <3>3
    <3>7. PairedBy(E, list, one, other, q)
      BY <3>4, <3>5, <3>6 DEF PairedBy
    <3>8. QED BY <3>3, <3>7, PairAdded
  <2>9. \A end \in Ends : SetAside(end) => SetAside(end)'
    <3>1. \A end \in Ends : end.gpuName \in Cards
      BY <2>3 DEF Ends
    <3>2. QED BY <1>2, <1>6, <2>5, <3>1 DEF SetAside
  <2>10. \A end \in {one, other} : SetAside(end)'
    <3>1. PICK link \in ToSet(Links(labels)) : one.tile = link.sub /\ other.tile = link.linkedSub
      BY <2>2 DEF Joins
    <3>2. QED BY <1>2, <1>6, <2>5, <2>6, <3>1 DEF SetAside
  <2>11. ASSUME NEW list \in Seq(Ends), Reserved(list) PROVE Reserved(list)'
    <3>1. \A x \in DOMAIN list : list[x] \in Ends
      BY ListType
    <3>2. QED BY <2>9, <2>11, <3>1 DEF Reserved
  <2>12. Paired(cards)' /\ Reserved(cards)'
    <3>1. Reserved(cards)
      BY <1>3, <2>1
    <3>2. PICK old : old = cards
      OBVIOUS
    <3>3. ASSUME NEW x \in DOMAIN q PROVE SetAside(q[x])'
      <4>1. PICK end : end = q[x]
        OBVIOUS
      <4>2. CASE end \in {one, other}
        BY <2>10, <4>1, <4>2
      <4>3. CASE x \in DOMAIN old /\ end = old[x]
        <5>1. SetAside(end) /\ end \in Ends
          BY <2>3, <3>1, <3>2, <4>3, ListType DEF Reserved
        <5>2. SetAside(end)'
          BY <2>9, <5>1
        <5>3. QED BY <4>1, <5>2
      <4>4. QED BY <2>8, <3>2, <4>1, <4>2, <4>3
    <3>4. Reserved(q)' /\ Paired(q)'
      BY <1>5, <2>8, <3>3 DEF Reserved
    <3>5. QED BY <2>7, <3>4
  <2>13. ASSUME NEW x \in DOMAIN containerCards
         PROVE  /\ Paired(containerCards[x])' /\ Reserved(containerCards[x])'
                /\ ToSet(containerCards[x]) \cap ToSet(cards') = {}
                /\ \A y \in DOMAIN containerCards \ {x} :
                      ToSet(containerCards[x]) \cap ToSet(containerCards[y]) = {}
    <3>1. PICK list : list = containerCards[x]
      OBVIOUS
    <3>2. /\ Paired(list) /\ Reserved(list) /\ ToSet(list) \cap ToSet(cards) = {}
          /\ \A y \in DOMAIN containerCards \ {x} : ToSet(list) \cap ToSet(containerCards[y]) = {}
      BY <1>3, <2>1, <3>1
    <3>3. list \in Seq(Ends)
      <4>1. PICK E : E = Seq(Ends)
        OBVIOUS
      <4>2. containerCards \in Seq(E)
        BY <2>1, <4>1, InSearch DEF ListsTyped
      <4>3. QED BY <3>1, <4>1, <4>2, ListType
    <3>4. Paired(list)' /\ Reserved(list)'
      BY <1>5, <2>11, <3>2, <3>3
    <3>5. Paired(containerCards[x])' /\ Reserved(containerCards[x])'
      BY <2>1, <3>1, <3>4
    <3>6. one \notin ToSet(list) /\ other \notin ToSet(list)
      <4>1. \A end \in ToSet(list) : end.tile \in allocating[end.gpuName]
        BY <3>2 DEF Reserved, SetAside, ToSet
      <4>2. QED BY <2>6, <4>1
    <3>7. ToSet(list) \cap ToSet(cards') = {}
      BY <2>7, <2>8, <3>2, <3>6
    <3>8. QED BY <3>1, <3>2, <3>5, <3>7
  <2>14. QED BY <2>1, <2>5, <2>12, <2>13
<1>13. ASSUME Search, containerCards' = containerCards, allocating' = allocating,
              cards' = cards \/ cards' = <<>>
       PROVE  /\ DOMAIN allocating' = Cards /\ Paired(cards)' /\ Reserved(cards)'
              /\ \A x \in DOMAIN containerCards' :
                    /\ Paired(containerCards[x])' /\ Reserved(containerCards[x])'
                    /\ ToSet(containerCards'[x]) \cap ToSet(cards') = {}
                    /\ \A y \in DOMAIN containerCards' \ {x} :
                          ToSet(containerCards'[x]) \cap ToSet(containerCards'[y]) = {}
  <2>1. \A list : Reserved(list) => Reserved(list)'
    BY <1>2, <1>6, <1>13 DEF Reserved, SetAside
  <2>2. PICK list : list = cards'
    OBVIOUS
  <2>3. Paired(list) /\ Reserved(list)
    BY <1>3, <1>7, <1>13, <2>2
  <2>4. Paired(list)' /\ Reserved(list)'
    BY <1>5, <2>1, <2>3
  <2>5. Paired(cards)' /\ Reserved(cards)'
    BY <2>2, <2>4
  <2>6. ASSUME NEW x \in DOMAIN containerCards
        PROVE  Paired(containerCards[x])' /\ Reserved(containerCards[x])'
    <3>1. PICK old : old = containerCards[x]
      OBVIOUS
    <3>2. Paired(old)' /\ Reserved(old)'
      BY <1>3, <1>5, <1>13, <2>1, <3>1
    <3>3. QED BY <1>13, <3>1, <3>2
  <2>7. QED BY <1>3, <1>7, <1>13, <2>5, <2>6
<1>14. CASE /\ NextMap /\ g < Len(gpuMaps) /\ cards' = <<>> /\ preferred' = FALSE
            /\ UNCHANGED <<samegpuCard, containerCards, allocating>>
  <2>1. Search
    BY <1>14 DEF NextMap, Stuck, Lacking, Searching, More, Search
  <2>2. QED BY <1>13, <1>14, <2>1
<1>15. CASE UNCHANGED search /\ Search
  BY <1>13, <1>15 DEF search
<1>16. QED BY <1>8, <1>9, <1>10, <1>11, <1>12, <1>14, <1>15, OneSearch

-----------------------------------------------------------------------------
(* The tiles that the containers are given. *)

\* A union has no more elements than its members together.
LEMMA UnionBound ==
    ASSUME NEW S, IsFiniteSet(S), NEW F, \A x \in S : IsFiniteSet(F[x]),
           NEW h, \A x \in S : h[x] \in Nat /\ Cardinality(F[x]) <= h[x]
    PROVE  /\ IsFiniteSet(UNION {F[x] : x \in S})
           /\ Cardinality(UNION {F[x] : x \in S}) <= SumFunctionOnSet(h, S)
<1> DEFINE All(T) == UNION {F[x] : x \in T}
           In(T) == IsFiniteSet(All(T)) /\ Cardinality(All(T)) <= SumFunctionOnSet(h, T)
           Bad == {T \in SUBSET S : ~In(T)}
<1> SUFFICES ASSUME Bad # {} PROVE FALSE
  OBVIOUS
<1>0. Bad \in SUBSET (SUBSET S)
  OBVIOUS
<1> HIDE DEF Bad
<1>1. PICK T \in Bad : \A V \in Bad : V \subseteq T => V = T
  BY <1>0, Smallest
<1>2. T \subseteq S /\ ~In(T) /\ IsFiniteSet(T)
  BY <1>1, FS_Subset DEF Bad
<1>3. CASE T = {}
  <2>1. All(T) = {}
    BY <1>3
  <2>2. SumFunctionOnSet(h, T) = 0
    BY <1>3, SumEmpty
  <2>3. In(T)
    BY <2>1, <2>2, FS_EmptySet
  <2>4. QED BY <1>2, <2>3
<1>4. CASE T # {}
  <2>1. PICK y \in T : TRUE
    BY <1>4
  <2>2. PICK V : V = T \ {y}
    OBVIOUS
  <2>3. In(V)
    <3>1. V \in SUBSET S /\ V # T /\ V \subseteq T
      BY <1>2, <2>1, <2>2
    <3>2. V \notin Bad
      BY <1>1, <3>1
    <3>3. QED BY <3>1, <3>2 DEF Bad
  <2>4. SumFunctionOnSet(h, T) = h[y] + SumFunctionOnSet(h, V)
    BY <1>2, <2>1, <2>2, SumRemove
  <2>5. All(T) = F[y] \cup All(V)
    BY <2>1, <2>2
  <2>6. IsFiniteSet(F[y]) /\ h[y] \in Nat /\ Cardinality(F[y]) <= h[y]
    BY <1>2, <2>1
  <2>7. PICK A, B : A = F[y] /\ B = All(V)
    OBVIOUS
  <2>8. /\ IsFiniteSet(A \cup B)
        /\ Cardinality(A \cup B) = Cardinality(A) + Cardinality(B) - Cardinality(A \cap B)
    BY <2>3, <2>6, <2>7, FS_Union
  <2>9. Cardinality(A) \in Nat /\ Cardinality(B) \in Nat /\ Cardinality(A \cap B) \in Nat
    BY <2>3, <2>6, <2>7, FS_CardinalityType, FS_Intersection
  <2>10. SumFunctionOnSet(h, V) \in Nat
    <3>1. IsFiniteSet(V) /\ \A x \in V : h[x] \in Nat
      BY <1>2, <2>2, FS_Subset
    <3>2. QED BY <3>1, SumType
  <2>11. Cardinality(A \cup B) <= SumFunctionOnSet(h, T)
    BY <2>3, <2>4, <2>6, <2>7, <2>8, <2>9, <2>10
  <2>12. In(T)
    BY <2>5, <2>7, <2>8, <2>11
  <2>13. QED BY <1>2, <2>12
<1>5. QED BY <1>3, <1>4

\* The tiles that are used or disabled are no more than what is charged for them
\* when a search starts.
LEMMA TilesTaken ==
    ASSUME RequestInv, node \in Nodes, NEW c \in DOMAIN NodeResourcesUsed
    PROVE  /\ IsFiniteSet(UsedTiles(c) \cup TilesOf(Disabled(c)))
           /\ Cardinality(UsedTiles(c) \cup TilesOf(Disabled(c))) <= Amount(NodeResourcesUsed[c],
                TileRes)
<1>1. /\ LabelsOK(labels) /\ \A d \in DOMAIN load : load[d].tiles \subseteq Tiles
      /\ Counts(Books(c))
  BY Inputs, NodeFacts
<1>2. IsFiniteSet(UsedTiles(c))
  <2>1. UsedTiles(c) \subseteq Tiles
    BY <1>1 DEF UsedTiles
  <2>2. QED BY <2>1, PodSharesAssumption, FS_Subset
<1>3. PICK D : D = {x \in Disabled(c) : x.tile \notin UsedTiles(c)}
  OBVIOUS
<1>4. IsFiniteSet(D)
  <2>1. D \subseteq labels.tas
    BY <1>3 DEF Disabled, sanitizeTiles, DisabledTiles, TasLabels
  <2>2. QED BY <1>1, <2>1, FS_Subset DEF LabelsOK
<1>5. PICK A, B : A = UsedTiles(c) /\ B = TilesOf(D)
  OBVIOUS
<1>6. UsedTiles(c) \cup TilesOf(Disabled(c)) = A \cup B
  BY <1>3, <1>5 DEF TilesOf
<1>7. IsFiniteSet(B) /\ Cardinality(B) <= Cardinality(D)
  <2>1. PICK f : f = [x \in D |-> x.tile]
    OBVIOUS
  <2>2. f \in Surjection(D, B)
    BY <1>5, <2>1 DEF Surjection, TilesOf
  <2>3. QED BY <1>4, <2>2, FS_Surjection
<1>8. /\ IsFiniteSet(A \cup B)
      /\ Cardinality(A \cup B) = Cardinality(A) + Cardinality(B) - Cardinality(A \cap B)
      /\ Cardinality(A) \in Nat /\ Cardinality(B) \in Nat /\ Cardinality(A \cap B) \in Nat
  BY <1>2, <1>5, <1>7, FS_Union, FS_CardinalityType, FS_Intersection
<1>9. Amount(NodeResourcesUsed[c], TileRes) = Amount(Books(c), TileRes) + Cardinality(D)
  <2>1. PICK m : m = [k \in {TileRes} |-> Unavailable(c)]
    OBVIOUS
  <2>2. Unavailable(c) = Cardinality(D)
    BY <1>3 DEF Unavailable
  <2>3. Counts(m) /\ Amount(m, TileRes) = Cardinality(D)
    <3>1. DOMAIN m = {TileRes} /\ m[TileRes] = Cardinality(D)
      BY <2>1, <2>2
    <3>2. Cardinality(D) \in Nat
      BY <1>4, FS_CardinalityType
    <3>3. QED BY <3>1, <3>2 DEF Counts, Amount
  <2>4. NodeResourcesUsed[c] = AddRM(Books(c), m)
    BY <2>1 DEF NodeResourcesUsed
  <2>5. QED BY <1>1, <2>3, <2>4, AmountAdd
<1>10. Amount(Books(c), TileRes) = Cardinality(A)
  <2>1. CASE c \notin DOMAIN load
    <3>1. A = {} /\ Books(c) = EmptyMap
      BY <1>5, <2>1 DEF UsedTiles, Books
    <3>2. QED BY <3>1, FS_EmptySet DEF Amount, EmptyMap
  <2>2. CASE c \in DOMAIN load
    <3>1. A = load[c].tiles
      BY <1>5, <2>2 DEF UsedTiles
    <3>2. Books(c) = [k \in {I915, TileRes} |->
                        IF k = I915 THEN load[c].shares ELSE Cardinality(load[c].tiles)]
      BY <2>2 DEF Books
    <3>3. TileRes \in DOMAIN Books(c) /\ Books(c)[TileRes] = Cardinality(A)
      BY <3>1, <3>2, CardSelectAssumption
    <3>4. QED BY <3>3 DEF Amount
  <2>3. QED BY <2>1, <2>2
<1>11. Cardinality(D) \in Nat
  BY <1>4, FS_CardinalityType
<1>12. Cardinality(A \cup B) <= Cardinality(A) + Cardinality(D)
  BY <1>7, <1>8, <1>11
<1>13. Cardinality(A \cup B) <= Amount(NodeResourcesUsed[c], TileRes)
  BY <1>9, <1>10, <1>12
<1>14. QED BY <1>6, <1>8, <1>13

\* The tiles that a container is given of each of its cards are those the search has
\* charged to the card for it.
LEMMA NeedIsPer ==
    ASSUME RequestInv, SearchInv, Search, pc # "samegpu", NEW x \in DOMAIN containerCards,
           containerCards[x] # <<>>
    PROVE  /\ TilesPerGPU(x) = Amount(Per(pod, x), TileRes) /\ TilesPerGPU(x) \in Nat
           /\ Amount(Requests[pod][x], TileRes) = NumGPUReq(pod, x) /\ x \notin samegpu =>
                TilesPerGPU(x) = 1
<1>1. pod \in Pods /\ ListsTyped /\ ListsKept /\ x \in Containers(pod)
  BY InSearch, AtHand
<1>2. /\ Counts(Requests[pod][x]) /\ NumGPUReq(pod, x) \in Nat
           /\ Amount(Per(pod, x), TileRes) \in Nat
      /\ Amount(Requests[pod][x], TileRes) \in Nat
  BY <1>1, RequestType, AmountType
<1>3. TilesPerGPU(x) = Amount(Requests[pod][x], TileRes) \div Len(containerCards[x])
  BY DEF TilesPerGPU
<1>4. \A m \in Nat : m \div 1 = m
  OBVIOUS
<1>5. CASE x \in samegpu
  <2>1. SamegpuAllowed /\ containerCards[x] = samegpuCard /\ \E c : samegpuCard = <<Plain(c)>>
    BY <1>1, <1>5 DEF ListsKept
  <2>2. TileRes \notin DOMAIN Requests[pod][x] /\ NumGPUReq(pod, x) = 1
    BY <1>5, <2>1 DEF SamegpuAllowed
  <2>3. Amount(Requests[pod][x], TileRes) = 0 /\ Len(containerCards[x]) = 1
    BY <2>1, <2>2 DEF Amount
  <2>4. Per(pod, x) = Requests[pod][x]
    BY <2>2 DEF Per
  <2>5. QED BY <1>3, <1>4, <1>5, <2>3, <2>4
<1>6. CASE x \notin samegpu
  <2>1. Len(containerCards[x]) = NumGPUReq(pod, x)
    BY <1>1, <1>6 DEF ListsKept
  <2>2. containerCards[x] \in Seq(Ends)
    BY <1>1, ListType DEF ListsTyped
  <2>3. NumGPUReq(pod, x) # 0
    <3>1. PICK q \in Seq(Ends) : q = containerCards[x]
      BY <2>2
    <3>2. Len(q) # 0
      BY <3>1
    <3>3. QED BY <2>1, <3>1, <3>2
  <2>4. PICK n \in Nat : n = NumGPUReq(pod, x) /\ n # 0
    BY <1>2, <2>3
  <2>5. TilesPerGPU(x) = Amount(Requests[pod][x], TileRes) \div n
    BY <1>3, <2>1, <2>4
  <2>6. Amount(Per(pod, x), TileRes) = Amount(Requests[pod][x], TileRes) \div n
    <3>1. CASE n > 1
      <4>1. Per(pod, x) = Divide(Requests[pod][x], n)
        BY <2>4, <3>1 DEF Per
      <4>2. 0 \div n = 0
        BY <2>4
      <4>3. QED BY <4>1, <4>2 DEF Divide, Amount
    <3>2. CASE ~(n > 1)
      <4>1. Per(pod, x) = Requests[pod][x] /\ n = 1
        BY <2>4, <3>2 DEF Per
      <4>2. QED BY <1>2, <1>4, <4>1
    <3>3. QED BY <3>1, <3>2
  <2>7. n \div n = 1
    BY <2>4
  <2>8. QED BY <1>2, <2>4, <2>5, <2>6, <2>7
<1>7. QED BY <1>5, <1>6

\* What the containers get are ends.
LEMMA EntryType ==
    ASSUME RequestInv, SearchInv, Search, NEW x \in DOMAIN containerCards,
           NEW k \in DOMAIN containerCards[x]
    PROVE  containerCards[x][k] \in Ends /\ containerCards[x] \in Seq(Ends)
<1>1. PICK E : E = Seq(Ends)
  OBVIOUS
<1>2. containerCards \in Seq(E)
  BY <1>1, InSearch DEF ListsTyped
<1>3. containerCards[x] \in Seq(Ends)
  BY <1>1, <1>2, ListType
<1>4. QED BY <1>3, ListType

\* currentlyAllocatingTilesMap has, without xe-links, all that the containers have
\* been given so far.
LEMMA GivenSoFar ==
    ASSUME RequestInv, SearchInv, PlainInv, Search, ~ann.xelink,
           DOMAIN tiles \subseteq DOMAIN containerCards,
           NEW c
    PROVE  CurrentlyAllocating(c) = UNION {tiles[x][c] :
               x \in {y \in DOMAIN tiles : c \in CardsOf(y)}}
<1>1. \A x \in DOMAIN containerCards : \A y \in DOMAIN containerCards[x] :
          containerCards[x][y].tile = None
  BY DEF PlainInv, Plains
<1>2. \A x \in DOMAIN tiles : c \in CardsOf(x) <=> \E k \in DOMAIN containerCards[x] :
          /\ containerCards[x][k].gpuName = c
          /\ containerCards[x][k].tile = None \/ TilesPerGPU(x) # 1
  BY <1>1 DEF CardsOf, Names
<1>3. QED BY <1>2 DEF CurrentlyAllocating

\* Without xe-links there are as many free tiles of a card as the container needs: the
\* search has charged them to the card, on top of the books and of what the containers
\* before it have been given.
LEMMA EnoughFree ==
    ASSUME RequestInv, SearchInv, PlainInv, TilesInv, pc = "convert", ~ann.xelink,
           j <= Len(Requests[pod]), NEW c \in CardsOf(j), TilesPerGPU(j) # 0,
           \A x \in DOMAIN tiles : \A d \in CardsOf(x) : Cardinality(tiles[x][d]) = TilesPerGPU(x)
    PROVE  IsFiniteSet(FreeTiles(c)) /\ TilesPerGPU(j) <= Cardinality(FreeTiles(c))
<1> DEFINE S == {y \in DOMAIN tiles : c \in CardsOf(y)}
           h == Demand(pod, Assigned, c, TileRes)
           need == TilesPerGPU(j)
           F == [x \in S |-> tiles[x][c]]
<1>1. /\ Search /\ Chosen /\ pc # "samegpu" /\ Len(containerCards) = Len(Requests[pod])
      /\ tiles \in Seq(Given) /\ \A x \in DOMAIN tiles : DOMAIN tiles[x] = CardsOf(x)
  BY DEF Search, Chosen, TilesInv
<1>2. /\ node \in Nodes /\ pod \in Pods /\ ListsTyped /\ DOMAIN used = DOMAIN NodeResourcesUsed
      /\ Fit(pod, PerGPUCapacity, NodeResourcesUsed, used, Assigned)
      /\ \A d \in DOMAIN used : Counts(used[d]) /\ Counts(NodeResourcesUsed[d])
      /\ Counts(PerGPUCapacity)
  BY <1>1, InSearch
<1>3. /\ Containers(pod) = DOMAIN containerCards
      /\ \A x \in Containers(pod) : Assigned[x] = CardsOf(x) /\ CardsOf(x) \subseteq DOMAIN used
  BY <1>1, ChosenIsAnnotation DEF chosen
<1>4. Containers(pod) = 1..Len(Requests[pod]) /\ Len(Requests[pod]) \in Nat
  BY <1>2, RequestType
<1>5. PICK n \in Nat : n = Len(tiles) /\ DOMAIN tiles = 1..n /\ j = n + 1
  BY <1>1, ListType DEF j
<1>6. DOMAIN tiles \subseteq Containers(pod) /\ j \in Containers(pod) /\ j \notin DOMAIN tiles
  BY <1>4, <1>5
<1>7. \A x \in Containers(pod) : CardsOf(x) # {} => containerCards[x] # <<>>
  <2>1. Names(<<>>) = {}
    BY DEF Names
  <2>2. QED BY <2>1 DEF CardsOf
<1>8. \A x \in Containers(pod) : c \in CardsOf(x) => h[x] = TilesPerGPU(x) /\ h[x] \in Nat
  <2>1. ASSUME NEW x \in Containers(pod), c \in CardsOf(x)
               PROVE h[x] = TilesPerGPU(x) /\ h[x] \in Nat
    <3>1. TilesPerGPU(x) = Amount(Per(pod, x), TileRes) /\ TilesPerGPU(x) \in Nat
      BY <1>1, <1>3, <1>7, <2>1, NeedIsPer
    <3>2. h[x] = Amount(Per(pod, x), TileRes)
      BY <1>3, <2>1 DEF Demand
    <3>3. QED BY <3>1, <3>2
  <2>2. QED BY <2>1
<1>9. \A x \in Containers(pod) : h[x] \in Nat
  BY <1>2, ChargedType
<1>10. /\ S \subseteq Containers(pod) /\ IsFiniteSet(Containers(pod)) /\ IsFiniteSet(S)
       /\ IsFiniteSet(S \cup {j}) /\ j \notin S /\ S \cup {j} \subseteq Containers(pod)
  BY <1>2, <1>6, RequestType, FS_Subset
<1>11. \A x \in S : IsFiniteSet(tiles[x][c]) /\ Cardinality(tiles[x][c]) <= h[x]
  <2>1. TAKE x \in S
  <2>2. x \in DOMAIN tiles /\ c \in DOMAIN tiles[x] /\ x \in Containers(pod) /\ c \in CardsOf(x)
    BY <1>1, <1>6
  <2>3. tiles[x] \in Given
    BY <1>1, <2>2, ListType
  <2>4. tiles[x][c] \subseteq Tiles
    BY <2>2, <2>3 DEF Given
  <2>5. IsFiniteSet(tiles[x][c])
    BY <2>4, PodSharesAssumption, FS_Subset
  <2>6. Cardinality(tiles[x][c]) = h[x]
    BY <1>8, <2>2
  <2>7. QED BY <1>8, <2>2, <2>5, <2>6
<1>12. CurrentlyAllocating(c) = UNION {F[x] : x \in S}
  BY <1>1, <1>3, <1>6, GivenSoFar
<1>13. PICK A, B : A = UsedTiles(c) \cup TilesOf(Disabled(c)) /\ B = UNION {F[x] : x \in S}
  OBVIOUS
<1>14. IsFiniteSet(B) /\ Cardinality(B) <= SumFunctionOnSet(h, S)
  <2>1. \A x \in S : IsFiniteSet(F[x]) /\ Cardinality(F[x]) <= h[x] /\ h[x] \in Nat
    BY <1>9, <1>10, <1>11
  <2> HIDE DEF S, h, F
  <2>2. QED BY <1>10, <1>13, <2>1, UnionBound
<1>15. c \in DOMAIN used /\ c \in CardsOf(j) /\ h[j] = need /\ need \in Nat
  BY <1>3, <1>6, <1>8
<1>16. IsFiniteSet(A) /\ Cardinality(A) <= Amount(NodeResourcesUsed[c], TileRes)
  BY <1>2, <1>13, <1>15, TilesTaken
<1>17. SumFunctionOnSet(h, S) + need <= Charged(pod, Assigned, c, TileRes)
  <2> HIDE DEF S, h, need, F
  <2>1. PICK T : T = S \cup {j}
    OBVIOUS
  <2>2. SumFunctionOnSet(h, T) <= SumFunctionOnSet(h, Containers(pod))
    BY <1>9, <1>10, <2>1, SumSubset
  <2>3. SumFunctionOnSet(h, T) = h[j] + SumFunctionOnSet(h, T \ {j})
    BY <1>9, <1>10, <2>1, SumRemove
  <2>4. T \ {j} = S
    BY <1>10, <2>1
  <2>5. SumFunctionOnSet(h, S) \in Nat /\ SumFunctionOnSet(h, Containers(pod)) \in Nat
    BY <1>9, <1>10, SumType
  <2>51. PICK a, b, d : /\ a = SumFunctionOnSet(h, S) /\ b = SumFunctionOnSet(h, Containers(pod))
                        /\ d = SumFunctionOnSet(h, T)
    OBVIOUS
  <2>52. d <= b
    BY <2>2, <2>51
  <2>53. d = need + a
    BY <1>15, <2>3, <2>4, <2>51
  <2>54. a \in Nat /\ b \in Nat /\ need \in Nat
    BY <1>15, <2>5, <2>51
  <2>55. a + need <= b
    BY <2>52, <2>53, <2>54
  <2>6. SumFunctionOnSet(h, S) + need <= SumFunctionOnSet(h, Containers(pod))
    BY <2>51, <2>55
  <2>7. QED BY <2>6 DEF Charged, h
<1>18. Amount(NodeResourcesUsed[c], TileRes) + Charged(pod, Assigned, c, TileRes) <= TilesPerGpu
  <2>1. TileRes \in DOMAIN Requests[pod][j] /\ TileRes \in Resources
    <3>1. DOMAIN Per(pod, j) = DOMAIN Requests[pod][j]
      BY <1>2, <1>6, RequestType
    <3>2. Amount(Per(pod, j), TileRes) # 0
      BY <1>3, <1>6, <1>15 DEF Demand
    <3>3. TileRes \in DOMAIN Requests[pod][j]
      BY <3>1, <3>2 DEF Amount
    <3>4. QED BY <1>2, <1>6, <3>3, RequestType
  <2>2. Wanted(pod, Assigned, c, TileRes)
    BY <1>3, <1>6, <1>15, <2>1 DEF Wanted
  <2>3. /\ Amount(NodeResourcesUsed[c], TileRes) + Charged(pod, Assigned, c,
             TileRes) <= Amount(used[c], TileRes)
        /\ Amount(used[c], TileRes) <= Amount(PerGPUCapacity, TileRes)
    BY <1>2, <1>15, <2>1, <2>2 DEF Fit
  <2>4. /\ Amount(NodeResourcesUsed[c], TileRes) \in Nat
             /\ Charged(pod, Assigned, c, TileRes) \in Nat
        /\ Amount(used[c], TileRes) \in Nat /\ Amount(PerGPUCapacity, TileRes) \in Nat
    BY <1>2, <1>15, AmountType, ChargedType
  <2>5. QED BY <2>3, <2>4 DEF TilesPerGpu
<1>19. Cardinality(A \cup B) + need <= TilesPerGpu /\ IsFiniteSet(A \cup B) /\ TilesPerGpu \in Nat
  <2>1. /\ IsFiniteSet(A \cup B)
        /\ Cardinality(A \cup B) = Cardinality(A) + Cardinality(B) - Cardinality(A \cap B)
        /\ Cardinality(A) \in Nat /\ Cardinality(B) \in Nat /\ Cardinality(A \cap B) \in Nat
    BY <1>14, <1>16, FS_Union, FS_CardinalityType, FS_Intersection
  <2>2. /\ Amount(NodeResourcesUsed[c], TileRes) \in Nat
             /\ Charged(pod, Assigned, c, TileRes) \in Nat
        /\ TilesPerGpu \in Nat
    BY <1>2, <1>15, AmountType, ChargedType DEF TilesPerGpu
  <2>3. SumFunctionOnSet(h, S) \in Nat
    BY <1>9, <1>10, SumType
  <2> HIDE DEF S, h, need, F
  <2>4. Cardinality(A \cup B) <= Cardinality(A) + Cardinality(B)
    BY <2>1
  <2>5. Cardinality(A) + Cardinality(B) + need <= Amount(NodeResourcesUsed[c],
            TileRes) + Charged(pod, Assigned, c, TileRes)
    BY <1>14, <1>15, <1>16, <1>17, <2>1, <2>2, <2>3
  <2>6. Cardinality(A \cup B) \in Nat
    BY <2>1, FS_CardinalityType
  <2>7. Cardinality(A \cup B) + need <= TilesPerGpu
    BY <1>15, <1>18, <2>1, <2>2, <2>4, <2>5, <2>6
  <2>8. QED BY <2>1, <2>2, <2>7
<1>20. PICK I : I = 0..(TilesPerGpu - 1)
  OBVIOUS
<1>21. IsFiniteSet(I) /\ Cardinality(I) = TilesPerGpu
  <2>1. PICK t \in Nat : t = TilesPerGpu
    BY <1>19
  <2>2. I = 0..(t - 1) /\ t - 1 \in Int
    BY <1>20, <2>1
  <2>3. IsFiniteSet(I) /\ Cardinality(I) = IF 0 > t - 1 THEN 0 ELSE (t - 1) - 0 + 1
    BY <2>2, FS_Interval
  <2>4. QED BY <2>1, <2>3
<1>22. FreeTiles(c) = I \ (A \cup B)
  BY <1>12, <1>13, <1>20 DEF FreeTiles
<1>23. /\ IsFiniteSet(I \ (A \cup B))
       /\ Cardinality(I \ (A \cup B)) = Cardinality(I) - Cardinality(I \cap (A \cup B))
  BY <1>21, FS_Difference
<1>24. /\ Cardinality(I \cap (A \cup B)) \in Nat /\ Cardinality(A \cup B) \in Nat
       /\ Cardinality(I \cap (A \cup B)) <= Cardinality(A \cup B)
  <2>1. I \cap (A \cup B) \in SUBSET (A \cup B)
    OBVIOUS
  <2>2. IsFiniteSet(I \cap (A \cup B)) /\ Cardinality(I \cap (A \cup B)) <= Cardinality(A \cup B)
    BY <1>19, <2>1, FS_Subset
  <2>3. QED BY <1>19, <2>2, FS_CardinalityType
<1>25. need <= Cardinality(I \ (A \cup B))
  <2> HIDE DEF S, h, need, F
  <2>1. QED BY <1>15, <1>19, <1>21, <1>23, <1>24
<1>26. QED BY <1>22, <1>23, <1>25

\* Each of the preferred tiles is one of those that a label of a policy prefers.
LEMMA PreferredList ==
    ASSUME LabelsOK(labels), NEW c, NEW prefs \in PreferredTiles(labels, c)
    PROVE  \E n \in Nat : DOMAIN prefs = 1..n
<1>1. PICK s \in SetToSeqs(TasLabels(labels, {"preferTile"}, c)) :
               prefs = [x \in DOMAIN s |-> s[x].tile]
  BY DEF PreferredTiles
<1>2. IsFiniteSet(TasLabels(labels, {"preferTile"}, c))
  <2>1. TasLabels(labels, {"preferTile"}, c) \subseteq labels.tas
    BY DEF TasLabels
  <2>2. QED BY <2>1, FS_Subset DEF LabelsOK
<1>3. s \in Seq(TasLabels(labels, {"preferTile"}, c))
  BY <1>1, <1>2, OrderOfSet
<1>4. DOMAIN s = 1..Len(s) /\ Len(s) \in Nat
  BY <1>3
<1>5. DOMAIN prefs = DOMAIN s
  BY <1>1
<1>6. QED BY <1>4, <1>5

\* The first entries of an order are as many different elements.
LEMMA FirstEntries ==
    ASSUME NEW F, IsFiniteSet(F), NEW s \in SetToSeqs(F), NEW n \in Nat, n <= Cardinality(F)
    PROVE  ToSet(SubSeq(s, 1, n)) \subseteq F /\ Cardinality(ToSet(SubSeq(s, 1, n))) = n
<1>1. s \in Seq(F) /\ Len(s) = Cardinality(F) /\ \A x, y \in DOMAIN s : x # y => s[x] # s[y]
  BY OrderOfSet
<1>2. PICK m \in Nat : m = Len(s) /\ n <= m /\ DOMAIN s = 1..m
  BY <1>1
<1>3. PICK q : q = SubSeq(s, 1, n)
  OBVIOUS
<1>4. DOMAIN q = 1..n /\ \A x \in 1..n : q[x] = s[x] /\ x \in 1..m
  BY <1>1, <1>2, <1>3
<1>5. PICK D : D = 1..n
  OBVIOUS
<1>6. IsFiniteSet(D) /\ Cardinality(D) = n
  BY <1>5, FS_Interval
<1>7. PICK f : f = [x \in D |-> q[x]]
  OBVIOUS
<1>8. f \in Surjection(D, ToSet(q))
  BY <1>4, <1>5, <1>7 DEF Surjection, ToSet
<1>9. f \in Injection(D, ToSet(q))
  BY <1>1, <1>2, <1>4, <1>5, <1>7 DEF Injection, IsInjective, ToSet
<1>10. f \in Bijection(D, ToSet(q))
  BY <1>8, <1>9 DEF Bijection
<1>11. Cardinality(ToSet(q)) = Cardinality(D)
  BY <1>6, <1>10, FS_Bijection DEF ExistsBijection
<1>12. ToSet(q) \subseteq F
  BY <1>1, <1>2, <1>4 DEF ToSet
<1>13. QED BY <1>3, <1>6, <1>11, <1>12

\* What a container is given of a card without xe-links.
LEMMA PlainGrant ==
    ASSUME RequestInv, SearchInv, PlainInv, TilesInv, pc = "convert", ~ann.xelink,
           j <= Len(Requests[pod]), NEW k \in DOMAIN containerCards[j],
           \A x \in DOMAIN tiles : \A d \in CardsOf(x) : Cardinality(tiles[x][d]) = TilesPerGPU(x),
           NEW T \in TilesFor(containerCards[j][k])
    PROVE  Cardinality(T) = TilesPerGPU(j) /\ T \subseteq FreeTiles(containerCards[j][k].gpuName)
<1> DEFINE need == TilesPerGPU(j)
           card == containerCards[j][k]
           free == FreeTiles(card.gpuName)
<1>1. Search /\ pc # "samegpu" /\ Chosen
  BY DEF Search, Chosen, TilesInv
<1>2. /\ LabelsOK(labels) /\ pod \in Pods /\ Containers(pod) = DOMAIN containerCards
      /\ Containers(pod) = 1..Len(Requests[pod])
  BY <1>1, InSearch, ChosenIsAnnotation, RequestType
<1>3. j \in DOMAIN containerCards
  BY <1>2, ListType DEF j, TilesInv
<1>4. card.tile = None
  BY <1>1, <1>3 DEF PlainInv, Plains
<1>5. card.gpuName \in CardsOf(j)
  BY DEF CardsOf, Names
<1>6. containerCards[j] # <<>>
  OBVIOUS
<1>7. need \in Nat
  BY <1>1, <1>3, <1>6, NeedIsPer
<1>8. CASE need = 0
  <2>1. T = {}
    BY <1>8 DEF TilesFor
  <2>2. QED BY <1>8, <2>1, FS_EmptySet
<1>9. CASE need # 0
  <2>1. IsFiniteSet(free) /\ need <= Cardinality(free)
    BY <1>5, <1>9, EnoughFree
  <2>2. ~(Cardinality(free) < need)
    BY <1>7, <2>1, FS_CardinalityType
  <2>3. T \in {ToSet(SubSeq(reorderPreferredTilesFirst(order, prefs), 1, need)) :
                  order \in SetToSeqs(free), prefs \in PreferredTiles(labels, card.gpuName)}
    BY <1>4, <1>9, <2>2 DEF TilesFor
  <2>4. PICK order \in SetToSeqs(free) : \E prefs \in PreferredTiles(labels, card.gpuName) :
              T = ToSet(SubSeq(reorderPreferredTilesFirst(order, prefs), 1, need))
    BY <2>3
  <2>5. PICK prefs \in PreferredTiles(labels, card.gpuName) :
              T = ToSet(SubSeq(reorderPreferredTilesFirst(order, prefs), 1, need))
    BY <2>4
  <2>6. PICK n \in Nat : DOMAIN prefs = 1..n
    BY <1>2, PreferredList
  <2> HIDE DEF need, free, card
  <2>7. PICK s : s = reorderPreferredTilesFirst(order, prefs)
    OBVIOUS
  <2>8. s \in SetToSeqs(free)
    BY <2>1, <2>4, <2>6, <2>7, Reordered
  <2>9. ToSet(SubSeq(s, 1, need)) \subseteq free /\ Cardinality(ToSet(SubSeq(s, 1, need))) = need
    BY <1>7, <2>1, <2>8, FirstEntries
  <2>10. QED BY <2>5, <2>7, <2>9 DEF need, free, card
<1>10. QED BY <1>8, <1>9

\* A tile below the count of tiles that the books do not have, and that is not in the
\* list of the disabled tiles that exist, is a usable one.
LEMMA NotUnusable ==
    ASSUME NEW c, NEW t, t < TilesPerGpu, t \notin UsedTiles(c) \cup TilesOf(Disabled(c))
    PROVE  t \notin Unusable(c)
<1> SUFFICES ASSUME NEW x \in TasLabels(labels, {"disableTile", "descheduleTile"}, c), x.tile = t
             PROVE  FALSE
  BY DEF Unusable, TilesOf
<1>1. x \in Disabled(c)
  BY DEF Disabled, sanitizeTiles, DisabledTiles
<1>2. QED BY <1>1 DEF TilesOf

\* What the current container is given without xe-links is usable and not given yet.
LEMMA PlainTiles ==
    ASSUME RequestInv, SearchInv, PlainInv, TilesInv, TilesGranted, pc = "convert", ~ann.xelink,
           j <= Len(Requests[pod]), NEW k \in DOMAIN containerCards[j],
           NEW c, c = containerCards[j][k].gpuName, NEW T \in TilesFor(containerCards[j][k])
    PROVE  Cardinality(T) = TilesPerGPU(j) /\ T \cap (Unusable(c) \cup Before(j, c)) = {}
<1>1. Search /\ pc # "samegpu" /\ Chosen
  BY DEF Search, Chosen, TilesInv
<1>2. /\ node \in Nodes /\ pod \in Pods /\ Containers(pod) = DOMAIN containerCards
      /\ Containers(pod) = 1..Len(Requests[pod]) /\ Len(Requests[pod]) \in Nat
  BY <1>1, InSearch, ChosenIsAnnotation, RequestType
<1>3. PICK n \in Nat : n = Len(tiles) /\ DOMAIN tiles = 1..n /\ j = n + 1
  BY ListType DEF TilesInv, j
<1>4. DOMAIN tiles \subseteq DOMAIN containerCards /\ \A x \in DOMAIN tiles :
          DOMAIN tiles[x] = CardsOf(x)
  BY <1>2, <1>3 DEF TilesInv
<1>5. \A x \in DOMAIN tiles : \A d \in CardsOf(x) : Cardinality(tiles[x][d]) = TilesPerGPU(x)
  BY <1>4 DEF TilesGranted
<1>6. Cardinality(T) = TilesPerGPU(j) /\ T \subseteq FreeTiles(c)
  BY <1>5, PlainGrant
<1>7. CurrentlyAllocating(c) = UNION {tiles[x][c] : x \in {y \in DOMAIN tiles : c \in CardsOf(y)}}
  BY <1>1, <1>4, GivenSoFar
<1>8. Before(j, c) = CurrentlyAllocating(c)
  <2>1. \A z \in DOMAIN tiles : z < j
    BY <1>3
  <2>2. {z \in DOMAIN tiles : z < j /\ c \in DOMAIN tiles[z]} =
            {y \in DOMAIN tiles : c \in CardsOf(y)}
    BY <1>4, <2>1
  <2>3. QED BY <1>7, <2>2 DEF Before
<1>9. TilesPerGpu \in Nat
  BY <1>2, NodeFacts, AmountType DEF TilesPerGpu
<1>10. ASSUME NEW t \in T PROVE t \notin Unusable(c) /\ t \notin Before(j, c)
  <2>1. /\ t \in 0..(TilesPerGpu - 1)
        /\ t \notin UsedTiles(c) \cup CurrentlyAllocating(c) \cup TilesOf(Disabled(c))
    BY <1>6 DEF FreeTiles
  <2>2. t < TilesPerGpu
    BY <1>9, <2>1
  <2>3. QED BY <1>8, <2>1, <2>2, NotUnusable
<1>11. QED BY <1>6, <1>10

\* With xe-links it is given the end of its link, which no other container has.
LEMMA LinkedTile ==
    ASSUME RequestInv, SearchInv, XeInv, TilesInv, GrantInv, XeLinksSound, pc = "convert",
           ann.xelink,
           j <= Len(Requests[pod]), NEW k \in DOMAIN containerCards[j],
           NEW e, e = containerCards[j][k], NEW T \in TilesFor(e)
    PROVE  /\ T = {e.tile} /\ Cardinality(T) = TilesPerGPU(j)
           /\ T \cap (Unusable(e.gpuName) \cup Before(j, e.gpuName)) = {}
<1>1. Search /\ pc # "samegpu" /\ Chosen
  BY DEF Search, Chosen, TilesInv
<1>2. /\ node \in Nodes /\ pod \in Pods /\ Containers(pod) = DOMAIN containerCards /\ Checks
      /\ Containers(pod) = 1..Len(Requests[pod]) /\ Len(Requests[pod]) \in Nat
  BY <1>1, InSearch, ChosenIsAnnotation, RequestType
<1>3. PICK n \in Nat : n = Len(tiles) /\ DOMAIN tiles = 1..n /\ j = n + 1
  BY ListType DEF TilesInv, j
<1>4. /\ DOMAIN tiles \subseteq DOMAIN containerCards /\ j \in DOMAIN containerCards
           /\ j \notin DOMAIN tiles
      /\ \A x \in DOMAIN tiles : DOMAIN tiles[x] = CardsOf(x)
  BY <1>2, <1>3 DEF TilesInv
<1>5. samegpu = {}
  BY <1>2 DEF Checks, Readable, samegpu
<1>6. TilesPerGPU(j) = 1
  <2>1. Amount(Requests[pod][j], TileRes) = NumGPUReq(pod, j)
    BY <1>2, <1>4 DEF XeLinksSound
  <2>2. containerCards[j] # <<>>
    OBVIOUS
  <2>3. QED BY <1>1, <1>4, <1>5, <2>1, <2>2, NeedIsPer
<1>7. SetAside(e) /\ e \in Ends
  BY <1>1, <1>4, EntryType DEF XeInv, Reserved
<1>8. e.tile \in Tiles /\ e.tile < TilesPerGpu
  BY <1>7 DEF SetAside, XeLinksSound
<1>9. e.tile # None
  BY <1>8, CardSelectAssumption
<1>10. T = {e.tile}
  BY <1>6, <1>9 DEF TilesFor
<1>11. e.tile \notin Unusable(e.gpuName)
  BY <1>7, <1>8, NotUnusable DEF SetAside
<1>12. e.tile \notin Before(j, e.gpuName)
  <2>1. SUFFICES ASSUME NEW y \in DOMAIN tiles, e.gpuName \in DOMAIN tiles[y],
                        e.tile \in tiles[y][e.gpuName]
                 PROVE  FALSE
    BY DEF Before
  <2>2. e.gpuName \in Names(containerCards[y])
    BY <1>4, <2>1 DEF CardsOf
  <2>3. PICK m \in DOMAIN containerCards[y] : containerCards[y][m].gpuName = e.gpuName
    BY <2>2 DEF Names
  <2>4. PICK d : d = containerCards[y][m]
    OBVIOUS
  <2>5. d \in Ends /\ d \in ToSet(containerCards[y]) /\ d.gpuName = e.gpuName
    BY <1>1, <1>4, <2>3, <2>4, EntryType DEF ToSet
  <2>6. tiles[y][e.gpuName] = {d.tile}
    BY <2>5 DEF GrantInv
  <2>7. d = e
    BY <1>7, <2>1, <2>5, <2>6 DEF Ends
  <2>8. e \in ToSet(containerCards[j])
    BY DEF ToSet
  <2>9. ToSet(containerCards[j]) \cap ToSet(containerCards[y]) = {}
    BY <1>1, <1>4 DEF XeInv
  <2>10. QED BY <2>5, <2>7, <2>8, <2>9
<1>13. QED BY <1>6, <1>10, <1>11, <1>12, FS_Singleton

\* The steps that lead to, or take place in, the conversion to annotations.
LEMMA ConvertStep ==
    ASSUME TilesInv, [Next]_vars
    PROVE  /\ pc' \notin {"convert", "annotated"} => tiles' = <<>>
           /\ pc' \in {"convert", "annotated"} =>
                 /\ UNCHANGED <<ask, nodes, node, containerCards>>
                 /\ \/ pc = "fits" /\ tiles' = <<>> /\ Len(containerCards) = Len(Requests[pod])
                    \/ AnnotateTiles
                    \/ pc \in {"convert", "annotated"} /\ UNCHANGED tiles
<1>1. CASE RefuseRequest \/ AcceptRequest \/ TakeNode \/ BindOffered \/ LabelPanics \/ RejectNode
             \/ StartSearch \/ FilterVerdict
  BY <1>1 DEF TilesInv, RefuseRequest, AcceptRequest, TakeNode, BindOffered, LabelPanics,
     RejectNode,
     StartSearch, FilterVerdict
<1>2. CASE SameGpuFound \/ SameGpuFails \/ SameGpuPanics \/ NoSameGpu \/ FinishCheck \/ BindFails
  BY <1>2 DEF TilesInv, SameGpuFound, SameGpuFails, SameGpuPanics, NoSameGpu, FinishCheck, BindFails
<1>3. CASE TakeSameGpu \/ PlaceGpu \/ PlacePair \/ NextMap \/ FinishContainer
  <2>1. pc = "containers" /\ tiles' = tiles /\ pc' \in {"containers", "wontFit"}
    BY <1>3 DEF TakeSameGpu, PlaceGpu, PlacePair, NextMap, FinishContainer, Stuck, Lacking,
       Searching, More
  <2>2. QED BY <2>1 DEF TilesInv
<1>4. CASE StartConvert
  BY <1>4 DEF TilesInv, StartConvert, inputs, search
<1>5. CASE AnnotateTiles
  BY <1>5 DEF AnnotateTiles, inputs, search
<1>6. CASE FinishConvert
  BY <1>6 DEF TilesInv, FinishConvert, inputs, search
<1>7. CASE UNCHANGED vars
  BY <1>7 DEF TilesInv, vars, inputs, search
<1>8. QED BY <1>1, <1>2, <1>3, <1>4, <1>5, <1>6, <1>7 DEF Next

\* The container at hand is given a set of tiles for each of its cards.
LEMMA AnnotateStep ==
    ASSUME RequestInv, SearchInv, TilesInv, AnnotateTiles
    PROVE  \E f \in [CardsOf(j) -> SUBSET Tiles] :
              /\ \A x \in DOMAIN containerCards[j] :
                    f[containerCards[j][x].gpuName] \in TilesFor(containerCards[j][x])
              /\ f \in Given /\ j \in DOMAIN containerCards /\ j = Len(tiles) + 1
                   /\ j <= Len(Requests[pod])
              /\ DOMAIN tiles = 1..Len(tiles) /\ Len(tiles) \in Nat
              /\ DOMAIN tiles' = DOMAIN tiles \cup {j} /\ tiles'[j] = f /\ j \notin DOMAIN tiles
              /\ \A x \in DOMAIN tiles : tiles'[x] = tiles[x]
              /\ tiles' \in Seq(Given) /\ Len(tiles') = j
<1>1. PICK f \in [CardsOf(j) -> SUBSET Tiles] :
          /\ \A x \in DOMAIN containerCards[j] :
                f[containerCards[j][x].gpuName] \in TilesFor(containerCards[j][x])
          /\ tiles' = Append(tiles, f)
  BY DEF AnnotateTiles
<1>2. Search /\ pc = "convert" /\ pc # "samegpu" /\ Chosen /\ j <= Len(Requests[pod])
  BY DEF AnnotateTiles, Search, Chosen, TilesInv
<1>3. /\ pod \in Pods /\ DOMAIN used \subseteq Cards /\ Containers(pod) = DOMAIN containerCards
      /\ Containers(pod) = 1..Len(Requests[pod]) /\ Len(Requests[pod]) \in Nat
      /\ \A x \in Containers(pod) : chosen[x] \subseteq DOMAIN used
  BY <1>2, InSearch, ChosenIsAnnotation, RequestType
<1>4. PICK n \in Nat : n = Len(tiles) /\ DOMAIN tiles = 1..n /\ j = n + 1
  BY ListType DEF TilesInv, j
<1>5. j \in DOMAIN containerCards /\ j \notin DOMAIN tiles
  BY <1>2, <1>3, <1>4
<1>6. f \in Given
  <2>1. CardsOf(j) \subseteq Cards
    BY <1>3, <1>5 DEF chosen
  <2>2. QED BY <2>1 DEF Given
<1>7. PICK q, r, G : q = tiles /\ r = tiles' /\ G = Given
  OBVIOUS
<1>8. q \in Seq(G) /\ f \in G /\ r = Append(q, f) /\ n = Len(q)
  BY <1>1, <1>4, <1>6, <1>7 DEF TilesInv
<1>9. /\ r \in Seq(G) /\ Len(r) = n + 1 /\ r[n + 1] = f /\ DOMAIN r = 1..n \cup {n + 1}
      /\ \A x \in 1..n : r[x] = q[x]
  BY <1>8
<1>10. QED BY <1>1, <1>2, <1>4, <1>5, <1>6, <1>7, <1>9

LEMMA TilesStep == RequestInv /\ SearchInv /\ TilesInv /\ [Next]_vars => TilesInv'
<1> SUFFICES ASSUME RequestInv, SearchInv, TilesInv, [Next]_vars PROVE TilesInv'
  OBVIOUS
<1>1. CASE pc' \notin {"convert", "annotated"}
  <2>1. tiles' = <<>> /\ <<>> \in Seq(Given)
    BY <1>1, ConvertStep
  <2>2. QED BY <1>1, <2>1 DEF TilesInv
<1>2. CASE pc' \in {"convert", "annotated"}
  <2>1. /\ ask' = ask /\ nodes' = nodes /\ node' = node /\ containerCards' = containerCards
        /\ \/ pc = "fits" /\ tiles' = <<>> /\ Len(containerCards) = Len(Requests[pod])
           \/ AnnotateTiles
           \/ pc \in {"convert", "annotated"} /\ UNCHANGED tiles
    BY <1>2, ConvertStep
  <2>2. pod' = pod /\ \A x : CardsOf(x)' = CardsOf(x)
    BY <2>1, SameNode DEF CardsOf
  <2>3. CASE pc = "fits" /\ tiles' = <<>> /\ Len(containerCards) = Len(Requests[pod])
    <3>1. Len(containerCards) \in Nat
      <4>1. Search
        BY <2>3 DEF Search
      <4>2. QED BY <4>1, AtHand
    <3>2. Len(tiles') = 0 /\ DOMAIN tiles' = {} /\ tiles' \in Seq(Given)
      BY <2>3
    <3>3. QED BY <1>2, <2>1, <2>2, <2>3, <3>1, <3>2 DEF TilesInv
  <2>4. CASE AnnotateTiles
    <3>1. PICK f \in [CardsOf(j) -> SUBSET Tiles] :
              /\ j = Len(tiles) + 1 /\ j <= Len(Requests[pod]) /\ j \notin DOMAIN tiles
              /\ DOMAIN tiles' = DOMAIN tiles \cup {j} /\ tiles'[j] = f
              /\ \A x \in DOMAIN tiles : tiles'[x] = tiles[x]
              /\ tiles' \in Seq(Given) /\ Len(tiles') = j
      BY <2>4, AnnotateStep
    <3>2. pc = "convert"
      BY <2>4 DEF AnnotateTiles
    <3>3. /\ Len(containerCards) = Len(Requests[pod])
          /\ \A x \in DOMAIN tiles : DOMAIN tiles[x] = CardsOf(x)
      BY <3>2 DEF TilesInv
    <3>4. \A x \in DOMAIN tiles' : DOMAIN tiles'[x] = CardsOf(x)
      BY <3>1, <3>3
    <3>5. QED BY <1>2, <2>1, <2>2, <3>1, <3>3, <3>4 DEF TilesInv
  <2>5. CASE pc \in {"convert", "annotated"} /\ UNCHANGED tiles
    BY <1>2, <2>1, <2>2, <2>5 DEF TilesInv
  <2>6. QED BY <2>1, <2>3, <2>4, <2>5
<1>3. QED BY <1>1, <1>2

LEMMA GrantStep ==
    RequestInv /\ SearchInv /\ PlainInv /\ XeInv /\ TilesInv /\ GrantInv /\ [Next]_vars => GrantInv'
<1> SUFFICES ASSUME RequestInv, SearchInv, PlainInv, XeInv, TilesInv, GrantInv, [Next]_vars,
                    pc' \in {"convert", "annotated"}, XeLinksSound'
             PROVE  /\ TilesGranted'
                    /\ ann'.xelink => \A x \in DOMAIN tiles' :
                         \A end \in ToSet(containerCards'[x]) :
                                          tiles'[x][end.gpuName] = {end.tile}
  BY DEF GrantInv
<1>1. /\ ask' = ask /\ nodes' = nodes /\ node' = node /\ containerCards' = containerCards
      /\ \/ pc = "fits" /\ tiles' = <<>> /\ Len(containerCards) = Len(Requests[pod])
         \/ AnnotateTiles
         \/ pc \in {"convert", "annotated"} /\ UNCHANGED tiles
  BY ConvertStep
<1>2. /\ pod' = pod /\ ann' = ann /\ labels' = labels /\ load' = load
           /\ PerGPUCapacity' = PerGPUCapacity
      /\ \A x : TilesPerGPU(x)' = TilesPerGPU(x)
  BY <1>1, SameNode DEF TilesPerGPU
<1>3. XeLinksSound /\ \A c : Unusable(c)' = Unusable(c)
  BY <1>2 DEF XeLinksSound, TilesPerGpu, Unusable, UsedTiles
<1>4. CASE pc = "fits" /\ tiles' = <<>> /\ Len(containerCards) = Len(Requests[pod])
  <2>1. DOMAIN tiles' = {}
    BY <1>4
  <2>2. QED BY <2>1 DEF TilesGranted
<1>5. CASE pc \in {"convert", "annotated"} /\ UNCHANGED tiles
  <2>1. \A x, c : Before(x, c)' = Before(x, c)
    BY <1>5 DEF Before
  <2>2. TilesGranted
    BY <1>3, <1>5 DEF GrantInv
  <2>3. TilesGranted'
    BY <1>2, <1>3, <1>5, <2>1, <2>2 DEF TilesGranted
  <2>4. QED BY <1>1, <1>2, <1>3, <1>5, <2>3 DEF GrantInv
<1>6. CASE AnnotateTiles
  <2>1. PICK f \in [CardsOf(j) -> SUBSET Tiles] :
            /\ \A x \in DOMAIN containerCards[j] :
                  f[containerCards[j][x].gpuName] \in TilesFor(containerCards[j][x])
            /\ j \in DOMAIN containerCards /\ j = Len(tiles) + 1 /\ j <= Len(Requests[pod])
            /\ DOMAIN tiles = 1..Len(tiles) /\ Len(tiles) \in Nat
            /\ DOMAIN tiles' = DOMAIN tiles \cup {j} /\ tiles'[j] = f /\ j \notin DOMAIN tiles
            /\ \A x \in DOMAIN tiles : tiles'[x] = tiles[x]
    BY <1>6, AnnotateStep
  <2>2. pc = "convert" /\ Search
    BY <1>6 DEF AnnotateTiles, Search
  <2>3. /\ TilesGranted
        /\ ann.xelink => \A x \in DOMAIN tiles : \A end \in ToSet(containerCards[x]) :
                            tiles[x][end.gpuName] = {end.tile}
    BY <1>3, <2>2 DEF GrantInv
  <2>4. \A x \in DOMAIN tiles : x < j
    BY <2>1
  <2>5. ASSUME NEW x \in DOMAIN tiles', NEW c PROVE Before(x, c)' = Before(x, c)
    <3>1. \A z \in DOMAIN tiles' : z < x => z \in DOMAIN tiles
      <4>1. x <= j /\ x \in Int /\ j \in Int
        BY <2>1
      <4>2. QED BY <2>1, <4>1
    <3>2. {z \in DOMAIN tiles' : z < x /\ c \in DOMAIN tiles'[z]} =
              {z \in DOMAIN tiles : z < x /\ c \in DOMAIN tiles[z]}
      BY <2>1, <3>1
    <3>3. QED BY <2>1, <3>2 DEF Before
  <2>6. ASSUME NEW k \in DOMAIN containerCards[j], NEW e, e = containerCards[j][k]
        PROVE  /\ Cardinality(f[e.gpuName]) = TilesPerGPU(j)
               /\ f[e.gpuName] \cap (Unusable(e.gpuName) \cup Before(j, e.gpuName)) = {}
               /\ ann.xelink => f[e.gpuName] = {e.tile}
    <3>1. f[e.gpuName] \in TilesFor(e)
      BY <2>1, <2>6
    <3>2. CASE ann.xelink
      BY <1>3, <2>1, <2>2, <2>6, <3>1, <3>2, LinkedTile
    <3>3. CASE ~ann.xelink
      BY <2>1, <2>2, <2>3, <2>6, <3>1, <3>3, PlainTiles
    <3>4. QED BY <3>2, <3>3
  <2>7. ASSUME NEW c \in DOMAIN tiles'[j]
        PROVE  /\ Cardinality(tiles'[j][c]) = TilesPerGPU(j)
               /\ tiles'[j][c] \subseteq Tiles \ (Unusable(c) \cup Before(j, c))
    <3>1. c \in CardsOf(j) /\ f[c] \subseteq Tiles
      BY <2>1
    <3>2. PICK k \in DOMAIN containerCards[j] : containerCards[j][k].gpuName = c
      BY <3>1 DEF CardsOf, Names
    <3>3. PICK e : e = containerCards[j][k]
      OBVIOUS
    <3>4. Cardinality(f[c]) = TilesPerGPU(j) /\ f[c] \cap (Unusable(c) \cup Before(j, c)) = {}
      BY <2>6, <3>2, <3>3
    <3>5. QED BY <2>1, <3>1, <3>4
  <2>8. ASSUME NEW x \in DOMAIN tiles', NEW c \in DOMAIN tiles'[x]
        PROVE  /\ Cardinality(tiles'[x][c]) = TilesPerGPU(x)
               /\ tiles'[x][c] \subseteq Tiles \ (Unusable(c) \cup Before(x, c))
    <3>1. CASE x = j
      BY <2>7, <2>8, <3>1
    <3>2. CASE x # j
      <4>1. x \in DOMAIN tiles /\ tiles'[x] = tiles[x]
        BY <2>1, <2>8, <3>2
      <4>2. QED BY <2>3, <2>8, <4>1 DEF TilesGranted
    <3>3. QED BY <3>1, <3>2
  <2>9. TilesGranted'
    BY <1>2, <1>3, <2>5, <2>8 DEF TilesGranted
  <2>10. ASSUME ann.xelink, NEW x \in DOMAIN tiles', NEW end \in ToSet(containerCards[x])
         PROVE  tiles'[x][end.gpuName] = {end.tile}
    <3>1. CASE x = j
      <4>1. PICK k \in DOMAIN containerCards[j] : end = containerCards[j][k]
        BY <3>1 DEF ToSet
      <4>2. QED BY <2>1, <2>6, <2>10, <3>1, <4>1
    <3>2. CASE x # j
      BY <2>1, <2>3, <2>10, <3>2
    <3>3. QED BY <3>1, <3>2
  <2>11. QED BY <1>1, <1>2, <2>9, <2>10
<1>7. QED BY <1>1, <1>4, <1>5, <1>6

\* The invariants of the tiles, all of which hold when the request comes.
LEMMA TilesInvariance == Spec => [](PlainInv /\ XeInv /\ TilesInv /\ GrantInv)
<1>1. Init => PlainInv /\ XeInv /\ TilesInv /\ GrantInv
  <2>1. SUFFICES ASSUME Init PROVE PlainInv /\ XeInv /\ TilesInv /\ GrantInv
    OBVIOUS
  <2>2. pc = "request" /\ tiles = <<>> /\ <<>> \in Seq(Given)
    BY <2>1 DEF Init
  <2>3. QED BY <2>2 DEF PlainInv, XeInv, TilesInv, GrantInv, Search
<1>2. /\ RequestInv /\ SearchInv /\ [Next]_vars
      /\ PlainInv /\ XeInv /\ TilesInv /\ GrantInv
      => PlainInv' /\ XeInv' /\ TilesInv' /\ GrantInv'
  BY PlainStep, XeStep, TilesStep, GrantStep
<1>3. QED BY <1>1, <1>2, SearchInvariance, PTL DEF Spec

\* Once the check for space has passed every container gets the tiles it asked for,
\* as long as, with xe-links, the labels name tiles that exist and the containers
\* ask for a tile of each GPU.
THEOREM TilesAreGranted == Spec => [](XeLinksSound => TilesGranted)
<1>1. TilesInv /\ GrantInv => (XeLinksSound => TilesGranted)
  <2>1. SUFFICES ASSUME TilesInv, GrantInv, XeLinksSound PROVE TilesGranted
    OBVIOUS
  <2>2. CASE pc \in {"convert", "annotated"}
    BY <2>1, <2>2 DEF GrantInv
  <2>3. CASE pc \notin {"convert", "annotated"}
    <3>1. DOMAIN tiles = {}
      BY <2>1, <2>3 DEF TilesInv
    <3>2. QED BY <3>1 DEF TilesGranted
  <2>4. QED BY <2>2, <2>3
<1>2. QED BY <1>1, TilesInvariance, PTL

\* With xe-links the cards of a container come in pairs, the tiles that it is given
\* are the ends of a link in the label, and no tile is the end of two of them.
THEOREM LinksAreGranted == Spec => [](XeLinksSound => XeLinkGranted)
<1>1. RequestInv /\ SearchInv /\ XeInv /\ TilesInv /\ GrantInv => (XeLinksSound => XeLinkGranted)
  <2> SUFFICES ASSUME RequestInv, SearchInv, XeInv, TilesInv, GrantInv, XeLinksSound, ann.xelink,
                      Chosen,
                      NEW x \in Containers(pod),
                      NEW k \in {m \in DOMAIN containerCards[x] : m % 2 = 1},
                      NEW one, one = containerCards[x][k],
                      NEW other, other = containerCards[x][k + 1]
               PROVE  /\ \E chunk \in ToSet(labels.xeLinks) : \E link \in ToSet(chunk.items) :
                            /\ link # Malformed
                            /\ <<one.gpuName, one.tile>> =
                                   <<lZeroDeviceIDToGpuName(labels, link.device), link.sub>>
                            /\ <<other.gpuName, other.tile>> =
                                   <<lZeroDeviceIDToGpuName(labels, link.linked), link.linkedSub>>
                      /\ \A end \in {one, other} :
                            /\ end.tile \in Tiles \ Unusable(end.gpuName)
                            /\ \A y \in Containers(pod) \ {x} : end \notin ToSet(containerCards[y])
                            /\ x \in DOMAIN tiles => tiles[x][end.gpuName] = {end.tile}
    BY SMTT(30) DEF XeLinkGranted
  <2>1. Search
    BY DEF Chosen, Search
  <2>2. LabelsOK(labels) /\ Containers(pod) = DOMAIN containerCards
    BY <2>1, InSearch, ChosenIsAnnotation
  <2>3. /\ Paired(containerCards[x]) /\ Reserved(containerCards[x])
        /\ \A y \in DOMAIN containerCards \ {x} :
              ToSet(containerCards[x]) \cap ToSet(containerCards[y]) = {}
    BY <2>1, <2>2 DEF XeInv
  <2>4. k + 1 \in DOMAIN containerCards[x] /\ Joins(one, other)
    BY <2>3 DEF Paired
  <2>5. one \in ToSet(containerCards[x]) /\ other \in ToSet(containerCards[x])
    BY <2>4 DEF ToSet
  <2>6. PICK link \in ToSet(Links(labels)) :
          /\ one = [gpuName |-> lZeroDeviceIDToGpuName(labels, link.device), tile |-> link.sub]
          /\ other = [gpuName |-> lZeroDeviceIDToGpuName(labels, link.linked),
               tile |-> link.linkedSub]
    BY <2>4 DEF Joins
  <2>7. link # Malformed /\ \E chunk \in ToSet(labels.xeLinks) : link \in ToSet(chunk.items)
    BY <2>2, LinksInLabel
  <2>8. ASSUME NEW end \in {one, other}
        PROVE  /\ end.tile \in Tiles \ Unusable(end.gpuName)
               /\ \A y \in Containers(pod) \ {x} : end \notin ToSet(containerCards[y])
               /\ x \in DOMAIN tiles => tiles[x][end.gpuName] = {end.tile}
    <3>1. SetAside(end)
      BY <2>3, <2>4 DEF Reserved
    <3>2. end.tile \in Tiles /\ end.tile < TilesPerGpu
      BY <3>1 DEF SetAside, XeLinksSound
    <3>3. end.tile \notin Unusable(end.gpuName)
      BY <3>1, <3>2, NotUnusable DEF SetAside
    <3>4. \A y \in Containers(pod) \ {x} : end \notin ToSet(containerCards[y])
      BY <2>2, <2>3, <2>5
    <3>5. x \in DOMAIN tiles => tiles[x][end.gpuName] = {end.tile}
      <4>1. CASE pc \in {"convert", "annotated"}
        BY <2>5, <4>1 DEF GrantInv
      <4>2. CASE pc \notin {"convert", "annotated"}
        <5>1. DOMAIN tiles = {}
          BY <4>2 DEF TilesInv
        <5>2. QED BY <5>1
      <4>3. QED BY <4>1, <4>2
    <3>6. QED BY <3>2, <3>3, <3>4, <3>5
  <2>9. QED BY <2>6, <2>7, <2>8
<1>2. QED BY <1>1, SearchInvariance, TilesInvariance, PTL
=============================================================================
