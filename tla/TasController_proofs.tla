------------------------- MODULE TasController_proofs -------------------------
(***************************************************************************)
(* Proofs about TasController, for every number of policies, strategies,   *)
(* rules, metrics and changes.                                             *)
(*                                                                         *)
(* CacheInv carries the two properties that hold whatever the policies     *)
(* look like: data of an unused metric is not put back, data of a used one *)
(* is not lost.  IInv adds what needs valid policies whose updates keep    *)
(* their strategies: the rules that are counted at every moment of a       *)
(* handler, and with them the counts, the cache keys and the registry.     *)
(***************************************************************************)
EXTENDS TasController, DataFacts

-----------------------------------------------------------------------------
(* Events and the operations of a handler. *)

\* What is stored of a policy.
SpecOrNone == Specs \cup {None}

\* An event of the informer: an update has both objects, an add no old and a
\* delete no new one.
Events ==
    {e \in [kind : {"add", "update", "delete"}, key : Keys, old : SpecOrNone, new : SpecOrNone] :
        /\ e.kind = "add" <=> e.old = None
        /\ e.kind = "delete" <=> e.new = None}

\* The operations of the handlers.
Ops == [op : {"register", "unregister"}, arg : Seq(Rules)] \cup
       [op : {"send", "count", "uncount"}, arg : Metrics]

\* Where the operations for the new strategy start.
Base(e, t) == IF e.kind = "add" THEN 1 ELSE Len(StrategyOf(e.old, t)) + 2

\* A strategy is a sequence of rules, the empty one when the policy has none
\* of the type.
LEMMA StrategyTyped ==
    ASSUME NEW s \in SpecOrNone, NEW t
    PROVE  StrategyOf(s, t) \in Seq(Rules)
BY TasAssumption DEF StrategyOf, SpecOrNone

\* The operations that take a strategy out: unregister it, then uncount its
\* rules in order.
LEMMA RemovalList ==
    ASSUME NEW rules \in Seq(Rules)
    PROVE  /\ Removal(rules) \in Seq(Ops) /\ Len(Removal(rules)) = Len(rules) + 1
           /\ Removal(rules)[1] = Op("unregister", rules)
           /\ \A i \in DOMAIN rules : Removal(rules)[i + 1] = Op("uncount", MetricOf[rules[i]])
<1> DEFINE u == [i \in DOMAIN rules |-> Op("uncount", MetricOf[rules[i]])]
           h == Op("unregister", rules)
<1>1. DOMAIN rules = 1..Len(rules) /\ Len(rules) \in Nat
  OBVIOUS
<1>2. \A i \in DOMAIN rules : Op("uncount", MetricOf[rules[i]]) \in Ops
  BY TasAssumption DEF Op, Ops
<1>3. h \in Ops
  BY DEF Op, Ops
<1>4. u \in Seq(Ops) /\ Len(u) = Len(rules)
  BY <1>1, <1>2
<1>5. \A i \in DOMAIN rules : u[i] = Op("uncount", MetricOf[rules[i]])
  OBVIOUS
<1>6. Removal(rules) = <<h>> \o u
  BY DEF Removal
<1> HIDE DEF u, h
<1>7. /\ <<h>> \o u \in Seq(Ops) /\ Len(<<h>> \o u) = Len(u) + 1 /\ (<<h>> \o u)[1] = h
  BY <1>3, <1>4
<1>8. \A i \in 1..Len(u) : (<<h>> \o u)[i + 1] = u[i]
  BY <1>3, <1>4
<1> QED BY <1>1, <1>4, <1>5, <1>6, <1>7, <1>8 DEF h

\* The operations that put a strategy in: register it, then for each rule two
\* sends and a count.
LEMMA RegistrationList ==
    ASSUME NEW rules \in Seq(Rules)
    PROVE  /\ Registration(rules) \in Seq(Ops) /\ Len(Registration(rules)) = 3 * Len(rules) + 1
           /\ Registration(rules)[1] = Op("register", rules)
           /\ \A i \in DOMAIN rules :
                 /\ Registration(rules)[3 * i - 1] = Op("send", MetricOf[rules[i]])
                 /\ Registration(rules)[3 * i] = Op("send", MetricOf[rules[i]])
                 /\ Registration(rules)[3 * i + 1] = Op("count", MetricOf[rules[i]])
<1> DEFINE n == 3 * Len(rules)
           u == [x \in 1..n |-> Op(IF x % 3 = 0 THEN "count"
               ELSE "send", MetricOf[rules[(x + 2) \div 3]])]
           h == Op("register", rules)
<1>1. DOMAIN rules = 1..Len(rules) /\ Len(rules) \in Nat
  OBVIOUS
<1>2. \A x \in 1..n : (x + 2) \div 3 \in DOMAIN rules
  BY <1>1
<1>2a. \A i \in DOMAIN rules : MetricOf[rules[i]] \in Metrics
  BY TasAssumption
<1>2b. \A x \in 1..n : Op(IF x % 3 = 0 THEN "count"
           ELSE "send", MetricOf[rules[(x + 2) \div 3]]) \in Ops
  <2>1. \A m \in Metrics : Op("count", m) \in Ops /\ Op("send", m) \in Ops
    BY DEF Op, Ops
  <2>2. \A x \in 1..n : MetricOf[rules[(x + 2) \div 3]] \in Metrics
    BY <1>2, <1>2a
  <2> QED BY <2>1, <2>2
<1>3. h \in Ops
  BY DEF Op, Ops
<1>3a. n \in Nat
  BY <1>1
<1>4. u \in Seq(Ops) /\ Len(u) = n
  <2>1. u \in [1..n -> Ops]
    BY <1>2b
  <2> QED BY <2>1, <1>3a, ListIsQueue
<1>5. ASSUME NEW i \in DOMAIN rules
      PROVE  /\ 3 * i - 2 \in 1..n /\ 3 * i - 1 \in 1..n /\ 3 * i \in 1..n
             /\ (3 * i - 2) % 3 # 0 /\ (3 * i - 1) % 3 # 0 /\ (3 * i) % 3 = 0
             /\ ((3 * i - 2) + 2) \div 3 = i /\ ((3 * i - 1) + 2) \div 3 = i
                  /\ ((3 * i) + 2) \div 3 = i
  <2>1. i \in Nat /\ i >= 1 /\ i <= Len(rules) /\ n = 3 * Len(rules) /\ Len(rules) \in Nat
    BY <1>1
  <2> HIDE DEF n
  <2>2. 3 * i - 2 \in 1..n /\ 3 * i - 1 \in 1..n /\ 3 * i \in 1..n
    BY <2>1
  <2>3. (3 * i - 2) % 3 # 0 /\ (3 * i - 1) % 3 # 0 /\ (3 * i) % 3 = 0
    BY <2>1
  <2>4. ((3 * i - 2) + 2) \div 3 = i
    BY <2>1
  <2>5. ((3 * i - 1) + 2) \div 3 = i
    BY <2>1
  <2>6. ((3 * i) + 2) \div 3 = i
    BY <2>1
  <2> QED BY <2>2, <2>3, <2>4, <2>5, <2>6
<1>5a. ASSUME NEW i \in DOMAIN rules
      PROVE  /\ u[3 * i - 2] = Op("send", MetricOf[rules[i]])
             /\ u[3 * i - 1] = Op("send", MetricOf[rules[i]])
             /\ u[3 * i] = Op("count", MetricOf[rules[i]])
  <2> HIDE DEF n
  <2> QED BY <1>5
<1>6. Registration(rules) = <<h>> \o u
  BY DEF Registration
<1> HIDE DEF u, h, n
<1>7. /\ <<h>> \o u \in Seq(Ops) /\ Len(<<h>> \o u) = Len(u) + 1 /\ (<<h>> \o u)[1] = h
  BY <1>3, <1>4
<1>8. \A x \in 1..n : (<<h>> \o u)[x + 1] = u[x]
  BY <1>3, <1>4
<1>9. \A i \in DOMAIN rules : /\ (<<h>> \o u)[(3 * i - 2) + 1] = u[3 * i - 2]
                              /\ (<<h>> \o u)[(3 * i - 1) + 1] = u[3 * i - 1]
                              /\ (<<h>> \o u)[3 * i + 1] = u[3 * i]
  BY <1>5, <1>8
<1>10. \A i \in DOMAIN rules : (3 * i - 2) + 1 = 3 * i - 1 /\ (3 * i - 1) + 1 = 3 * i
  BY <1>1
<1>11. Len(Registration(rules)) = 3 * Len(rules) + 1
  BY <1>4, <1>6, <1>7 DEF n
<1>12. Registration(rules)[1] = Op("register", rules)
  BY <1>6, <1>7 DEF h
<1> QED BY <1>5a, <1>6, <1>7, <1>9, <1>10, <1>11, <1>12

\* The positions of the operations of a handler, old and new being its
\* strategies.
Listing(e, old, new, ops, b) ==
    /\ old \in Seq(Rules) /\ new \in Seq(Rules) /\ ops \in Seq(Ops) /\ b \in Nat \ {0}
    /\ Len(ops) = IF e.kind = "delete" THEN b - 1 ELSE b + 3 * Len(new)
    /\ e.kind = "add" => b = 1 /\ old = <<>>
    /\ e.kind = "delete" => new = <<>>
    /\ e.kind # "add" =>
          /\ b = Len(old) + 2
          /\ ops[1] = Op("unregister", old)
          /\ \A i \in DOMAIN old : ops[i + 1] = Op("uncount", MetricOf[old[i]])
    /\ e.kind # "delete" =>
          /\ ops[b] = Op("register", new)
          /\ \A i \in DOMAIN new :
                /\ ops[b + 3 * i - 2] = Op("send", MetricOf[new[i]])
                /\ ops[b + 3 * i - 1] = Op("send", MetricOf[new[i]])
                /\ ops[b + 3 * i] = Op("count", MetricOf[new[i]])

\* Where the operations of a handler for one strategy are.
LEMMA OpAt ==
    ASSUME NEW e \in Events, NEW t,
           NEW old, old = StrategyOf(e.old, t), NEW new, new = StrategyOf(e.new, t),
           NEW ops, ops = Operations(e, t), NEW b, b = Base(e, t)
    PROVE  Listing(e, old, new, ops, b)
<1>1. /\ e.kind \in {"add", "update", "delete"} /\ e.old \in SpecOrNone /\ e.new \in SpecOrNone
      /\ e.kind = "add" <=> e.old = None
      /\ e.kind = "delete" <=> e.new = None
  BY DEF Events
<1>2. old \in Seq(Rules) /\ new \in Seq(Rules) /\ Len(old) \in Nat /\ Len(new) \in Nat
      /\ DOMAIN old = 1..Len(old) /\ DOMAIN new = 1..Len(new)
  BY <1>1, StrategyTyped
<1>3. StrategyOf(None, t) = <<>>
  BY DEF StrategyOf
<1> DEFINE rem == Removal(old)
           reg == Registration(new)
<1>4. /\ rem \in Seq(Ops) /\ Len(rem) = Len(old) + 1
      /\ rem[1] = Op("unregister", old)
      /\ \A i \in DOMAIN old : rem[i + 1] = Op("uncount", MetricOf[old[i]])
  BY <1>2, RemovalList
<1>5. /\ reg \in Seq(Ops) /\ Len(reg) = 3 * Len(new) + 1
      /\ reg[1] = Op("register", new)
      /\ \A i \in DOMAIN new :
            /\ reg[3 * i - 1] = Op("send", MetricOf[new[i]])
            /\ reg[3 * i] = Op("send", MetricOf[new[i]])
            /\ reg[3 * i + 1] = Op("count", MetricOf[new[i]])
  BY <1>2, RegistrationList
<1>6. CASE e.kind = "add"
  <2>1. ops = reg /\ b = 1 /\ old = <<>>
    BY <1>1, <1>3, <1>6 DEF Operations, Base
  <2>2. \A i \in DOMAIN new : b + 3 * i - 2 = 3 * i - 1 /\ b + 3 * i - 1 = 3 * i
            /\ b + 3 * i = 3 * i + 1
    BY <1>2, <2>1
  <2> HIDE DEF reg, rem
  <2>3. Len(ops) = b + 3 * Len(new)
    BY <1>2, <1>5, <2>1
  <2>4. /\ ops[b] = Op("register", new)
        /\ \A i \in DOMAIN new :
              /\ ops[b + 3 * i - 2] = Op("send", MetricOf[new[i]])
              /\ ops[b + 3 * i - 1] = Op("send", MetricOf[new[i]])
              /\ ops[b + 3 * i] = Op("count", MetricOf[new[i]])
    BY <1>5, <2>1, <2>2
  <2>5. ops \in Seq(Ops) /\ b \in Nat \ {0}
    BY <1>5, <2>1
  <2> QED BY <1>2, <1>6, <2>1, <2>3, <2>4, <2>5 DEF Listing
<1>7. CASE e.kind = "delete"
  <2>1. ops = rem /\ b = Len(old) + 2 /\ new = <<>>
    BY <1>1, <1>3, <1>7 DEF Operations, Base
  <2> HIDE DEF reg, rem
  <2> QED BY <1>2, <1>4, <1>7, <2>1 DEF Listing
<1>8. CASE e.kind = "update"
  <2>1. ops = rem \o reg /\ b = Len(old) + 2
    BY <1>8 DEF Operations, Base
  <2> HIDE DEF reg, rem
  <2>2. ops \in Seq(Ops) /\ Len(ops) = Len(rem) + Len(reg)
    <3>1. rem \o reg \in Seq(Ops) /\ Len(rem \o reg) = Len(rem) + Len(reg)
      BY <1>4, <1>5
    <3> QED BY <2>1, <3>1
  <2>3. \A x \in 1..Len(rem) : ops[x] = rem[x]
    BY <1>4, <1>5, <2>1
  <2>4. \A x \in 1..Len(reg) : ops[Len(rem) + x] = reg[x]
    BY <1>4, <1>5, <2>1
  <2>5. ops[1] = rem[1] /\ \A i \in DOMAIN old : ops[i + 1] = rem[i + 1]
    BY <1>2, <1>4, <2>3
  <2>6. \A i \in DOMAIN new : /\ 3 * i - 1 \in 1..Len(reg)
                              /\ 3 * i \in 1..Len(reg)
                              /\ 3 * i + 1 \in 1..Len(reg)
                              /\ Len(rem) + (3 * i - 1) = b + 3 * i - 2
                              /\ Len(rem) + 3 * i = b + 3 * i - 1
                              /\ Len(rem) + (3 * i + 1) = b + 3 * i
    <3>1. Len(rem) = Len(old) + 1 /\ Len(reg) = 3 * Len(new) + 1 /\ b = Len(old) + 2
      BY <1>4, <1>5, <2>1
    <3>2. \A lo, ln \in Nat : \A i \in 1..ln :
             /\ 3 * i - 1 \in 1..(3 * ln + 1) /\ 3 * i \in 1..(3 * ln + 1)
                  /\ 3 * i + 1 \in 1..(3 * ln + 1)
             /\ lo + 1 + (3 * i - 1) = lo + 2 + 3 * i - 2
             /\ lo + 1 + 3 * i = lo + 2 + 3 * i - 1
             /\ lo + 1 + (3 * i + 1) = lo + 2 + 3 * i
      OBVIOUS
    <3>3. TAKE i \in DOMAIN new
    <3>4. i \in 1..Len(new)
      BY <1>2
    <3>5. /\ 3 * i - 1 \in 1..(3 * Len(new) + 1) /\ 3 * i \in 1..(3 * Len(new) + 1)
               /\ 3 * i + 1 \in 1..(3 * Len(new) + 1)
          /\ Len(old) + 1 + (3 * i - 1) = Len(old) + 2 + 3 * i - 2
          /\ Len(old) + 1 + 3 * i = Len(old) + 2 + 3 * i - 1
          /\ Len(old) + 1 + (3 * i + 1) = Len(old) + 2 + 3 * i
      BY <1>2, <3>2, <3>4
    <3> QED BY <3>1, <3>5
  <2>7. ops[b] = reg[1]
    <3>1. 1 \in 1..Len(reg) /\ Len(rem) + 1 = b
      BY <1>2, <1>4, <1>5, <2>1
    <3> QED BY <3>1, <2>4
  <2>8. \A i \in DOMAIN new : /\ ops[b + 3 * i - 2] = reg[3 * i - 1]
                              /\ ops[b + 3 * i - 1] = reg[3 * i]
                              /\ ops[b + 3 * i] = reg[3 * i + 1]
    <3>1. TAKE i \in DOMAIN new
    <3>2. ops[Len(rem) + (3 * i - 1)] = reg[3 * i - 1]
      BY <2>4, <2>6
    <3>3. ops[Len(rem) + 3 * i] = reg[3 * i]
      BY <2>4, <2>6
    <3>4. ops[Len(rem) + (3 * i + 1)] = reg[3 * i + 1]
      BY <2>4, <2>6
    <3> QED BY <2>6, <3>2, <3>3, <3>4
  <2>9. Len(ops) = b + 3 * Len(new) /\ b \in Nat \ {0}
    BY <1>2, <1>4, <1>5, <2>1, <2>2
  <2>10. /\ ops[1] = Op("unregister", old)
         /\ \A i \in DOMAIN old : ops[i + 1] = Op("uncount", MetricOf[old[i]])
    BY <1>4, <2>5
  <2>11. /\ ops[b] = Op("register", new)
         /\ \A i \in DOMAIN new :
               /\ ops[b + 3 * i - 2] = Op("send", MetricOf[new[i]])
               /\ ops[b + 3 * i - 1] = Op("send", MetricOf[new[i]])
               /\ ops[b + 3 * i] = Op("count", MetricOf[new[i]])
    BY <1>5, <2>7, <2>8
  <2> QED BY <1>2, <1>8, <2>1, <2>2, <2>9, <2>10, <2>11 DEF Listing
<1> QED BY <1>1, <1>6, <1>7, <1>8

\* What an operation of a handler is.
LEMMA OpKinds ==
    ASSUME NEW e \in Events, NEW t,
           NEW old, old = StrategyOf(e.old, t), NEW new, new = StrategyOf(e.new, t),
           NEW ops, ops = Operations(e, t), NEW b, b = Base(e, t), NEW x \in 1..Len(ops)
    PROVE  \/ e.kind # "add" /\ x = 1 /\ ops[x] = Op("unregister", old)
           \/ e.kind # "add" /\ x - 1 \in DOMAIN old /\ ops[x] = Op("uncount", MetricOf[old[x - 1]])
           \/ e.kind # "delete" /\ x = b /\ ops[x] = Op("register", new)
           \/ e.kind # "delete" /\ \E i \in DOMAIN new :
                 \/ x \in {b + 3 * i - 2, b + 3 * i - 1} /\ ops[x] = Op("send", MetricOf[new[i]])
                 \/ x = b + 3 * i /\ ops[x] = Op("count", MetricOf[new[i]])
<1>1. /\ old \in Seq(Rules) /\ new \in Seq(Rules) /\ b \in Nat \ {0}
      /\ Len(ops) = IF e.kind = "delete" THEN b - 1 ELSE b + 3 * Len(new)
      /\ e.kind = "add" => b = 1
      /\ e.kind # "add" =>
            /\ b = Len(old) + 2
            /\ ops[1] = Op("unregister", old)
            /\ \A i \in DOMAIN old : ops[i + 1] = Op("uncount", MetricOf[old[i]])
      /\ e.kind # "delete" =>
            /\ ops[b] = Op("register", new)
            /\ \A i \in DOMAIN new :
                  /\ ops[b + 3 * i - 2] = Op("send", MetricOf[new[i]])
                  /\ ops[b + 3 * i - 1] = Op("send", MetricOf[new[i]])
                  /\ ops[b + 3 * i] = Op("count", MetricOf[new[i]])
  <2>1. Listing(e, old, new, ops, b)
    BY OpAt
  <2> QED BY <2>1 DEF Listing
<1>2. /\ DOMAIN old = 1..Len(old) /\ DOMAIN new = 1..Len(new) /\ Len(old) \in Nat
           /\ Len(new) \in Nat
      /\ x \in Nat /\ x >= 1 /\ x <= Len(ops)
  BY <1>1
<1>3. CASE x < b
  <2>1. e.kind # "add" /\ b = Len(old) + 2
    BY <1>1, <1>2, <1>3
  <2>2. CASE x = 1
    BY <1>1, <2>1, <2>2
  <2>3. CASE x # 1
    <3>1. x - 1 \in DOMAIN old /\ (x - 1) + 1 = x
      BY <1>2, <1>3, <2>1, <2>3
    <3>2. ops[(x - 1) + 1] = Op("uncount", MetricOf[old[x - 1]])
      BY <1>1, <2>1, <3>1
    <3> QED BY <2>1, <3>1, <3>2
  <2> QED BY <2>2, <2>3
<1>4. CASE x = b
  <2>1. e.kind # "delete"
    BY <1>1, <1>2, <1>4
  <2> QED BY <1>1, <1>4, <2>1
<1>5. CASE x > b
  <2>1. e.kind # "delete" /\ x <= b + 3 * Len(new)
    BY <1>1, <1>2, <1>5
  <2>2. PICK i \in DOMAIN new : x \in {b + 3 * i - 2, b + 3 * i - 1, b + 3 * i}
    <3>1. ASSUME NEW y \in Nat, NEW ln \in Nat, y >= 1, y <= 3 * ln
          PROVE  \E i \in 1..ln : y = 3 * i - 2 \/ y = 3 * i - 1 \/ y = 3 * i
      <4>1. (y + 2) \div 3 \in 1..ln
        BY <3>1
      <4>2. LET i == (y + 2) \div 3 IN y = 3 * i - 2 \/ y = 3 * i - 1 \/ y = 3 * i
        BY <3>1
      <4> QED BY <4>1, <4>2
    <3>2. PICK i \in 1..Len(new) : x - b = 3 * i - 2 \/ x - b = 3 * i - 1 \/ x - b = 3 * i
      <4>1. x - b \in Nat /\ x - b >= 1 /\ x - b <= 3 * Len(new)
        BY <1>1, <1>2, <1>5, <2>1
      <4> QED BY <1>2, <3>1, <4>1
    <3>3. x = b + 3 * i - 2 \/ x = b + 3 * i - 1 \/ x = b + 3 * i
      <4>1. x \in Nat /\ b \in Nat /\ i \in Nat
        BY <1>1, <1>2
      <4> QED BY <3>2, <4>1
    <3> QED BY <1>2, <3>2, <3>3
  <2>3. /\ ops[b + 3 * i - 2] = Op("send", MetricOf[new[i]])
        /\ ops[b + 3 * i - 1] = Op("send", MetricOf[new[i]])
        /\ ops[b + 3 * i] = Op("count", MetricOf[new[i]])
    BY <1>1, <2>1
  <2> QED BY <2>1, <2>2, <2>3
<1> QED BY <1>1, <1>2, <1>3, <1>4, <1>5

-----------------------------------------------------------------------------
\* Every send is followed by the count of the same metric.
CountFollows(ops) ==
    \A i \in DOMAIN ops : ops[i].op = "send" =>
        \E j \in DOMAIN ops : j > i /\ ops[j] = Op("count", ops[i].arg)

\* In a handler every send of a registration is followed by the count of the
\* same metric.
LEMMA CountsFollow ==
    ASSUME NEW e \in Events, NEW t
    PROVE  Operations(e, t) \in Seq(Ops) /\ CountFollows(Operations(e, t))
<1> DEFINE ops == Operations(e, t)
           old == StrategyOf(e.old, t)
           new == StrategyOf(e.new, t)
           b == Base(e, t)
<1>1. /\ ops \in Seq(Ops) /\ new \in Seq(Rules) /\ b \in Nat \ {0}
      /\ Len(ops) = IF e.kind = "delete" THEN b - 1 ELSE b + 3 * Len(new)
      /\ e.kind # "delete" => \A i \in DOMAIN new : ops[b + 3 * i] = Op("count", MetricOf[new[i]])
  <2>1. Listing(e, old, new, ops, b)
    BY OpAt
  <2> HIDE DEF old, new, ops, b
  <2> QED BY <2>1 DEF Listing
<1>2. ASSUME NEW x \in DOMAIN ops, ops[x].op = "send"
      PROVE  \E j \in DOMAIN ops : j > x /\ ops[j] = Op("count", ops[x].arg)
  <2>0. x \in 1..Len(ops)
    BY <1>1
  <2>1. e.kind # "delete" /\ \E i \in DOMAIN new :
            x \in {b + 3 * i - 2, b + 3 * i - 1} /\ ops[x] = Op("send", MetricOf[new[i]])
    <3>1. \A a : /\ Op("unregister", a).op = "unregister" /\ Op("uncount", a).op = "uncount"
                 /\ Op("register", a).op = "register" /\ Op("count", a).op = "count"
      BY DEF Op
    <3>2. \/ e.kind # "add" /\ x = 1 /\ ops[x] = Op("unregister", old)
          \/ e.kind # "add" /\ x - 1 \in DOMAIN old /\ ops[x] = Op("uncount", MetricOf[old[x - 1]])
          \/ e.kind # "delete" /\ x = b /\ ops[x] = Op("register", new)
          \/ e.kind # "delete" /\ \E i \in DOMAIN new :
                \/ x \in {b + 3 * i - 2, b + 3 * i - 1} /\ ops[x] = Op("send", MetricOf[new[i]])
                \/ x = b + 3 * i /\ ops[x] = Op("count", MetricOf[new[i]])
      BY <2>0, OpKinds
    <3> HIDE DEF ops, old, new, b
    <3> QED BY <1>2, <3>1, <3>2
  <2>2. PICK i \in DOMAIN new :
            x \in {b + 3 * i - 2, b + 3 * i - 1} /\ ops[x] = Op("send", MetricOf[new[i]])
    BY <2>1
  <2>3. ops[x].arg = MetricOf[new[i]]
    BY <2>2 DEF Op
  <2> HIDE DEF ops, old, new, b
  <2>4. DOMAIN new = 1..Len(new) /\ Len(new) \in Nat /\ Len(ops) = b + 3 * Len(new)
            /\ DOMAIN ops = 1..Len(ops)
    BY <1>1, <2>1
  <2>5. b + 3 * i \in DOMAIN ops /\ b + 3 * i > x
    BY <1>1, <2>2, <2>4
  <2> QED BY <1>1, <2>1, <2>3, <2>5
<1> HIDE DEF ops
<1>3. CountFollows(ops)
  BY <1>2 DEF CountFollows
<1> QED BY <1>1, <1>3 DEF ops

\* It stays so when the first operation is done.
LEMMA CountsStillFollow ==
    ASSUME NEW q \in Seq(Ops), q # <<>>, CountFollows(q)
    PROVE  /\ CountFollows(Tail(q))
           /\ Head(q).op = "send" => Op("count", Head(q).arg) \in Range(Tail(q))
<1>1. /\ DOMAIN q = 1..Len(q) /\ DOMAIN Tail(q) = 1..(Len(q) - 1) /\ Len(q) \in Nat /\ Len(q) > 0
           /\ Head(q) = q[1]
      /\ \A i \in DOMAIN Tail(q) : Tail(q)[i] = q[i + 1]
  OBVIOUS
<1>2. ASSUME NEW i \in DOMAIN q, q[i].op = "send"
      PROVE  \E j \in DOMAIN Tail(q) : j > i - 1 /\ Tail(q)[j] = Op("count", q[i].arg)
  <2>1. PICK j \in DOMAIN q : j > i /\ q[j] = Op("count", q[i].arg)
    BY <1>2 DEF CountFollows
  <2>2. j - 1 \in DOMAIN Tail(q) /\ j - 1 > i - 1 /\ (j - 1) + 1 = j
    BY <1>1, <2>1
  <2> QED BY <1>1, <2>1, <2>2
<1>3. CountFollows(Tail(q))
  <2>1. ASSUME NEW i \in DOMAIN Tail(q), Tail(q)[i].op = "send"
        PROVE  \E j \in DOMAIN Tail(q) : j > i /\ Tail(q)[j] = Op("count", Tail(q)[i].arg)
    <3>1. i + 1 \in DOMAIN q /\ q[i + 1] = Tail(q)[i] /\ (i + 1) - 1 = i
      BY <1>1
    <3> QED BY <1>2, <2>1, <3>1
  <2> QED BY <2>1 DEF CountFollows
<1>4. Head(q).op = "send" => Op("count", Head(q).arg) \in Range(Tail(q))
  <2>1. 1 \in DOMAIN q
    BY <1>1
  <2> QED BY <1>1, <1>2, <2>1 DEF Range
<1> QED BY <1>3, <1>4

-----------------------------------------------------------------------------
(* What holds for all policies: the lock and the order of the sends. *)

\* The parts of a handler that runs.
Fields == {"event", "ops", "type", "todo"}

\* The variables of the cache and of the API server have their types.
Shapes ==
    /\ policies \in [Keys -> SpecOrNone] /\ cached \in [Keys -> SpecOrNone]
    /\ changes \in 0..MaxChanges
    /\ events \in Seq(Events)
    /\ metrics \in [Metrics -> Data \cup {Nil, None}]
    /\ DOMAIN metricMap \subseteq Metrics

\* What is left of a handler.
HandlerInv ==
    Running => /\ DOMAIN ctl = Fields /\ ctl.event \in Events
               /\ ctl.ops \in Seq(Ops) /\ CountFollows(ctl.ops)

\* The lock keeps the users of the metrics as they are while they are fetched.
UpdaterInv ==
    /\ mtx \in {Free, "updater"}
    /\ mtx # "updater" => pass = {} /\ pending = <<>>
    /\ pass \subseteq DOMAIN metricMap
    /\ pending \in Seq((DOMAIN metricMap) \X Data)

\* A metric without users has no key, or is about to be counted.
Unused ==
    \A m \in Metrics : m \notin DOMAIN metricMap =>
        metrics[m] = None \/ (Running /\ Op("count", m) \in Range(ctl.ops))

CacheInv == Shapes /\ HandlerInv /\ UpdaterInv /\ Unused

\* CacheInv holds when the program starts.
LEMMA InitCacheInv == Init => CacheInv
<1> SUFFICES ASSUME Init PROVE CacheInv
  OBVIOUS
<1> USE DEF Init
<1>1. Shapes
  BY TasAssumption DEF Shapes, SpecOrNone
<1>2. HandlerInv
  BY DEF HandlerInv, Running
<1>3. UpdaterInv
  BY TasAssumption DEF UpdaterInv
<1>4. Unused
  BY DEF Unused
<1> QED BY <1>1, <1>2, <1>3, <1>4 DEF CacheInv

\* The step of a handler over its next operation.
LEMMA Advanced ==
    ASSUME HandlerInv, Running, ctl.ops # <<>>, Advance
    PROVE  /\ Running' /\ DOMAIN ctl' = Fields /\ ctl'.event = ctl.event
           /\ ctl'.ops = Tail(ctl.ops) /\ ctl'.type = ctl.type /\ ctl'.todo = ctl.todo
           /\ HandlerInv'
           /\ Head(ctl.ops) \in Ops
           /\ Range(ctl.ops) = {Head(ctl.ops)} \cup Range(Tail(ctl.ops))
           /\ Head(ctl.ops).op = "send" => Op("count", Head(ctl.ops).arg) \in Range(ctl'.ops)
<1>1. /\ DOMAIN ctl = Fields /\ ctl.event \in Events /\ ctl.ops \in Seq(Ops)
           /\ CountFollows(ctl.ops)
  BY DEF HandlerInv
<1>2. /\ DOMAIN ctl' = Fields /\ ctl'.event = ctl.event
      /\ ctl'.ops = Tail(ctl.ops) /\ ctl'.type = ctl.type /\ ctl'.todo = ctl.todo
  BY <1>1 DEF Advance, Fields
<1>3. /\ Head(ctl.ops) \in Ops /\ Tail(ctl.ops) \in Seq(Ops)
      /\ Range(ctl.ops) = {Head(ctl.ops)} \cup Range(Tail(ctl.ops))
  BY <1>1, TakenFirst
<1>4. CountFollows(Tail(ctl.ops))
          /\ (Head(ctl.ops).op = "send" => Op("count", Head(ctl.ops).arg) \in Range(Tail(ctl.ops)))
  BY <1>1, CountsStillFollow
<1>5. Running'
  BY <1>2 DEF Running, Idle, Fields
<1>6. HandlerInv'
  BY <1>1, <1>2, <1>3, <1>4 DEF HandlerInv
<1> QED BY <1>2, <1>3, <1>4, <1>5, <1>6

\* What the operations take.
LEMMA OpArgs ==
    /\ \A o \in Ops : o.op \in {"send", "count", "uncount"} => o.arg \in Metrics
    /\ \A o \in Ops : o.op \in {"register", "unregister"} => o.arg \in Seq(Rules)
    /\ \A o \in Ops : o = Op(o.op, o.arg)
    /\ \A p, a : Op(p, a).op = p /\ Op(p, a).arg = a
BY DEF Ops, Op

\* Every step keeps CacheInv.
LEMMA StepCacheInv == CacheInv /\ [Next]_vars => CacheInv'
<1> SUFFICES ASSUME CacheInv, [Next]_vars PROVE CacheInv'
  OBVIOUS
<1> USE DEF CacheInv, apiVars, updVars
<1>1. CASE UNCHANGED vars
  BY <1>1 DEF vars, Shapes, HandlerInv, UpdaterInv, Unused, Running
<1>2. ASSUME NEW k \in Keys, NEW new \in SpecOrNone, NEW kind \in {"add", "update", "delete"},
             Change(k, kind, new),
             kind = "add" <=> policies[k] = None, kind = "delete" <=> new = None
      PROVE  CacheInv'
  <2> DEFINE e == [kind |-> kind, key |-> k, old |-> policies[k], new |-> new]
  <2>1. e \in Events
    BY <1>2 DEF Events, Shapes
  <2>2. Append(events, e) \in Seq(Events)
    BY <2>1, QueuedLast DEF Shapes
  <2>3. Shapes'
    BY <1>2, <2>2, TasAssumption DEF Change, Shapes
  <2>4. HandlerInv' /\ UpdaterInv' /\ Unused'
    BY <1>2 DEF Change, HandlerInv, UpdaterInv, Unused, Running
  <2> QED BY <2>3, <2>4
<1>3. ASSUME NEW k \in Keys, DeletePolicy(k) PROVE CacheInv'
  BY <1>2, <1>3 DEF DeletePolicy, SpecOrNone
<1>4. ASSUME NEW k \in Keys, NEW s \in Specs, CreatePolicy(k, s) PROVE CacheInv'
  BY <1>2, <1>4, TasAssumption DEF CreatePolicy, SpecOrNone
<1>5. ASSUME NEW k \in Keys, NEW s \in Specs, UpdatePolicy(k, s) PROVE CacheInv'
  BY <1>2, <1>5, TasAssumption DEF UpdatePolicy, SpecOrNone
<1>6. CASE StartHandler
  <2> DEFINE e == Head(events)
             todo == DOMAIN (IF e.kind = "delete" THEN e.old ELSE e.new)
  <2>1. e \in Events /\ Tail(events) \in Seq(Events)
    BY <1>6, TakenFirst DEF StartHandler, Shapes
  <2>2. e.key \in Keys /\ e.old \in SpecOrNone /\ e.new \in SpecOrNone
    BY <2>1 DEF Events
  <2>3. ctl' = [event |-> e, ops |-> <<>>, type |-> None, todo |-> todo]
    BY <1>6 DEF StartHandler
  <2>4. cached' \in [Keys -> SpecOrNone]
    BY <1>6, <2>2 DEF StartHandler, Shapes
  <2>5. Shapes'
    BY <1>6, <2>1, <2>4 DEF StartHandler, Shapes
  <2> HIDE DEF e, todo
  <2>6. DOMAIN ctl' = Fields /\ ctl'.event = e /\ ctl'.ops = <<>>
    BY <2>3 DEF Fields
  <2>7. HandlerInv'
    BY <2>1, <2>6 DEF HandlerInv, CountFollows
  <2>8. UpdaterInv' /\ Unused'
    BY <1>6 DEF StartHandler, UpdaterInv, Unused, Running
  <2> QED BY <2>5, <2>7, <2>8
<1>7. ASSUME NEW t, NextStrategy(t) PROVE CacheInv'
  <2>1. Running /\ ctl.ops = <<>> /\ DOMAIN ctl = Fields /\ ctl.event \in Events
    BY <1>7 DEF NextStrategy, HandlerInv
  <2>2. Operations(ctl.event, t) \in Seq(Ops) /\ CountFollows(Operations(ctl.event, t))
    BY <2>1, CountsFollow
  <2>3. HandlerInv'
    <3>1. CASE ctl' = Idle
      BY <3>1 DEF HandlerInv, Running
    <3>2. CASE ctl' # Idle
      <4>1. ctl' = [ctl EXCEPT !.todo = @ \ {t}, !.type = t, !.ops = Operations(ctl.event, t)]
        BY <1>7, <3>2 DEF NextStrategy
      <4>2. DOMAIN ctl' = Fields /\ ctl'.event = ctl.event /\ ctl'.ops = Operations(ctl.event, t)
        BY <2>1, <4>1 DEF Fields
      <4> QED BY <2>1, <2>2, <4>2 DEF HandlerInv
    <3> QED BY <3>1, <3>2
  <2>4. Shapes' /\ UpdaterInv'
    BY <1>7 DEF NextStrategy, Shapes, UpdaterInv
  <2>5. Unused'
    <3>1. \A m \in Metrics : m \notin DOMAIN metricMap => metrics[m] = None
      BY <2>1, NoEntries DEF Unused
    <3> QED BY <1>7, <3>1 DEF NextStrategy, Unused
  <2> QED BY <2>3, <2>4, <2>5
<1>8. ASSUME AddStrategy \/ RemoveStrategy PROVE CacheInv'
  <2>1. /\ Running /\ ctl.ops # <<>> /\ Advance /\ Head(ctl.ops).op \in {"register", "unregister"}
        /\ UNCHANGED <<apiVars, cached, metrics, metricMap, updVars>>
    BY <1>8 DEF AddStrategy, RemoveStrategy, NextOp
  <2>2. HandlerInv' /\ Running' /\ Range(ctl.ops) = {Head(ctl.ops)} \cup Range(ctl'.ops)
    BY <2>1, Advanced
  <2>3. Shapes' /\ UpdaterInv'
    BY <2>1 DEF Shapes, UpdaterInv
  <2>4. Unused'
    BY <2>1, <2>2, OpArgs DEF Unused
  <2> QED BY <2>2, <2>3, <2>4
<1>9. CASE SendNil
  <2>1. /\ Running /\ ctl.ops # <<>> /\ Advance /\ Head(ctl.ops).op = "send"
        /\ metrics' = Write(Arg, Nil)
        /\ UNCHANGED <<apiVars, cached, metricMap, updVars, registered>>
    BY <1>9 DEF SendNil, NextOp
  <2>2. /\ HandlerInv' /\ Running' /\ Range(ctl.ops) = {Head(ctl.ops)} \cup Range(ctl'.ops)
        /\ Op("count", Arg) \in Range(ctl'.ops) /\ Arg \in Metrics
    BY <2>1, Advanced, OpArgs DEF Arg
  <2>3. metrics' \in [Metrics -> Data \cup {Nil, None}] /\ \A m \in Metrics : m # Arg =>
            metrics'[m] = metrics[m]
    BY <2>1, <2>2 DEF Write, Shapes
  <2>4. Shapes' /\ UpdaterInv'
    BY <2>1, <2>3 DEF Shapes, UpdaterInv
  <2>5. Unused'
    BY <2>1, <2>2, <2>3, OpArgs DEF Unused
  <2> QED BY <2>2, <2>4, <2>5
<1>10. CASE CountUser
  <2>1. /\ Running /\ ctl.ops # <<>> /\ Advance /\ Head(ctl.ops).op = "count" /\ mtx = Free
        /\ metricMap' = Counted(Arg)
        /\ UNCHANGED <<apiVars, cached, metrics, updVars, registered>>
    BY <1>10 DEF CountUser, NextOp
  <2>2. /\ HandlerInv' /\ Running' /\ Range(ctl.ops) = {Op("count", Arg)} \cup Range(ctl'.ops)
        /\ Arg \in Metrics
    BY <2>1, Advanced, OpArgs DEF Arg
  <2>3. DOMAIN metricMap' = DOMAIN metricMap \cup {Arg}
    BY <2>1 DEF Counted
  <2>4. mtx # "updater" /\ pass = {} /\ pending = <<>>
    BY <2>1, TasAssumption DEF UpdaterInv
  <2>5. Shapes'
    BY <2>1, <2>2, <2>3 DEF Shapes
  <2>6. UpdaterInv'
    BY <2>1, <2>4 DEF UpdaterInv
  <2>7. Unused'
    BY <2>1, <2>2, <2>3, OpArgs DEF Unused
  <2> QED BY <2>2, <2>5, <2>6, <2>7
<1>11. CASE UncountUser
  <2>1. /\ Running /\ ctl.ops # <<>> /\ Advance /\ Head(ctl.ops).op = "uncount" /\ mtx = Free
        /\ metricMap' = Uncounted(Arg)
        /\ metrics' = IF Users(Arg) = 1 THEN [metrics EXCEPT ![Arg] = None] ELSE metrics
        /\ UNCHANGED <<apiVars, cached, updVars, registered>>
    BY <1>11 DEF UncountUser, NextOp, DeleteMetric
  <2>2. /\ HandlerInv' /\ Running' /\ Range(ctl.ops) = {Head(ctl.ops)} \cup Range(ctl'.ops)
        /\ Arg \in Metrics
    BY <2>1, Advanced, OpArgs DEF Arg
  <2>3. DOMAIN metricMap' = IF Users(Arg) = 1 THEN DOMAIN metricMap \ {Arg}
            ELSE DOMAIN metricMap \cup {Arg}
    BY <2>1 DEF Uncounted
  <2>4. mtx # "updater" /\ pass = {} /\ pending = <<>>
    BY <2>1, TasAssumption DEF UpdaterInv
  <2>5. metrics' \in [Metrics -> Data \cup {Nil, None}] /\ \A m \in Metrics : m # Arg =>
            metrics'[m] = metrics[m]
    BY <2>1, <2>2 DEF Shapes
  <2>6. Shapes'
    BY <2>1, <2>2, <2>3, <2>5 DEF Shapes
  <2>7. UpdaterInv'
    BY <2>1, <2>4 DEF UpdaterInv
  <2>8. Unused'
    <3> SUFFICES ASSUME NEW m \in Metrics, m \notin DOMAIN metricMap'
                 PROVE  metrics'[m] = None \/ Op("count", m) \in Range(ctl'.ops)
      BY <2>2 DEF Unused
    <3>1. CASE m = Arg
      BY <2>1, <2>2, <2>3, <3>1 DEF Shapes
    <3>2. CASE m # Arg
      <4>1. m \notin DOMAIN metricMap /\ metrics'[m] = metrics[m]
        BY <2>3, <2>5, <3>2
      <4> QED BY <2>1, <2>2, <4>1, OpArgs DEF Unused
    <3> QED BY <3>1, <3>2
  <2> QED BY <2>2, <2>6, <2>7, <2>8
<1>12. CASE FinishHandler
  <2>1. Running /\ ctl.ops = <<>> /\ ctl.event \in Events
    BY <1>12 DEF FinishHandler, HandlerInv
  <2>2. ctl.event.key \in Keys
    BY <2>1 DEF Events
  <2>3. cached' \in [Keys -> SpecOrNone]
    BY <1>12, <2>2 DEF FinishHandler, Shapes, SpecOrNone
  <2>4. Shapes' /\ UpdaterInv'
    BY <1>12, <2>3 DEF FinishHandler, Shapes, UpdaterInv
  <2>5. HandlerInv'
    BY <1>12 DEF FinishHandler, HandlerInv, Running
  <2>6. Unused'
    BY <1>12, <2>1, NoEntries DEF FinishHandler, Unused
  <2> QED BY <2>4, <2>5, <2>6
<1>13. CASE StartUpdate
  <2>1. UpdaterInv'
    BY <1>13, TasAssumption DEF StartUpdate, UpdaterInv
  <2> QED BY <1>13, <2>1 DEF StartUpdate, Shapes, HandlerInv, Unused, Running
<1>14. ASSUME NEW m \in Metrics, FetchFails(m) PROVE CacheInv'
  <2>1. UpdaterInv'
    BY <1>14 DEF FetchFails, UpdaterInv
  <2> QED BY <1>14, <2>1 DEF FetchFails, Shapes, HandlerInv, Unused, Running
<1>15. ASSUME NEW m \in Metrics, NEW d \in Data, FetchMetric(m, d) PROVE CacheInv'
  <2>1. << <<m, d>>, <<m, d>> >> \in Seq((DOMAIN metricMap) \X Data)
    <3>1. m \in DOMAIN metricMap
      BY <1>15 DEF FetchMetric, UpdaterInv
    <3> QED BY <3>1
  <2>2. UpdaterInv'
    BY <1>15, <2>1 DEF FetchMetric, UpdaterInv
  <2> QED BY <1>15, <2>2 DEF FetchMetric, Shapes, HandlerInv, Unused, Running
<1>16. CASE SendData
  <2> DEFINE m == Head(pending)[1]
             d == Head(pending)[2]
  <2>1. Head(pending) \in (DOMAIN metricMap) \X Data
            /\ Tail(pending) \in Seq((DOMAIN metricMap) \X Data)
    BY <1>16, TakenFirst DEF SendData, UpdaterInv
  <2>2. m \in DOMAIN metricMap /\ m \in Metrics /\ d \in Data
    BY <2>1 DEF Shapes
  <2>3. metrics' = Write(m, d)
    BY <1>16 DEF SendData
  <2> HIDE DEF m, d
  <2>4. metrics' \in [Metrics -> Data \cup {Nil, None}] /\ \A x \in Metrics : x # m =>
            metrics'[x] = metrics[x]
    BY <2>2, <2>3 DEF Write, Shapes
  <2>5. Shapes'
    BY <1>16, <2>4 DEF SendData, Shapes
  <2>6. UpdaterInv'
    <3>1. mtx = "updater"
      BY <1>16 DEF SendData, UpdaterInv
    <3> QED BY <1>16, <2>1, <3>1 DEF SendData, UpdaterInv
  <2>7. Unused'
    BY <1>16, <2>2, <2>4 DEF SendData, Unused, Running
  <2>8. HandlerInv'
    BY <1>16 DEF SendData, HandlerInv, Running
  <2> QED BY <2>5, <2>6, <2>7, <2>8
<1>17. CASE FinishUpdate
  <2>1. UpdaterInv'
    BY <1>17, TasAssumption DEF FinishUpdate, UpdaterInv
  <2> QED BY <1>17, <2>1 DEF FinishUpdate, Shapes, HandlerInv, Unused, Running
<1> QED BY <1>1, <1>3, <1>4, <1>5, <1>6, <1>7, <1>8, <1>9, <1>10, <1>11, <1>12, <1>13, <1>14, <1>15,
           <1>16, <1>17 DEF Next, Controller, Updater

\* CacheInv is an invariant.
LEMMA CacheSound == Spec => []CacheInv
<1> QED BY InitCacheInv, StepCacheInv, PTL DEF Spec

\* NoResurrection for all policies, valid or not: DeleteMetric and updateAllMetrics
\* exclude each other by the cache's mutex, so a fetch that is under way never puts
\* back the data of a metric whose last user has gone; a key that a registration
\* has just created belongs to a handler that will count it.
THEOREM NothingPutBack == Spec => []NoResurrection
<1>1. CacheInv => NoResurrection
  BY DEF CacheInv, Unused, NoResurrection, Running
<1> QED BY <1>1, CacheSound, PTL

\* DataKept for all policies: WriteMetric(m, nil) does not replace data, the updater
\* writes data only, and DeleteMetric drops the key only with the last user.
THEOREM DataIsKept == Spec => DataKept
<1>1. ASSUME CacheInv, [Next]_vars PROVE [DataStays]_metrics
  <2> SUFFICES ASSUME Next, metrics' # metrics, NEW m \in Metrics, metrics[m] \in Data,
                      m \in DOMAIN metricMap'
               PROVE  metrics'[m] \in Data
    BY <1>1 DEF DataStays, vars
  <2> USE DEF CacheInv
  <2>0. metrics[m] # None
    BY TasAssumption
  <2>1. CASE SendNil \/ UncountUser
    <3>1. Running /\ ctl.ops # <<>> /\ Head(ctl.ops).op \in {"send", "uncount"}
      BY <2>1 DEF SendNil, UncountUser, NextOp
    <3>2. Arg \in Metrics
      <4>1. Head(ctl.ops) \in Ops
        BY <1>1, <3>1, TakenFirst DEF HandlerInv
      <4> QED BY <3>1, <4>1, OpArgs DEF Arg
    <3>3. CASE SendNil
      BY <1>1, <2>0, <3>2, <3>3 DEF SendNil, Write, Shapes
    <3>4. CASE UncountUser
      <4>1. Users(Arg) = 1 => m # Arg
        BY <3>4 DEF UncountUser, DeleteMetric, Uncounted
      <4> QED BY <1>1, <3>2, <3>4, <4>1 DEF UncountUser, DeleteMetric, Shapes
    <3> QED BY <2>1, <3>3, <3>4
  <2>2. CASE SendData
    <3>1. Head(pending) \in (DOMAIN metricMap) \X Data
      BY <1>1, <2>2, TakenFirst DEF SendData, UpdaterInv
    <3>2. Head(pending)[1] \in Metrics /\ Head(pending)[2] \in Data
      BY <1>1, <3>1 DEF Shapes
    <3> QED BY <1>1, <2>2, <3>2, TasAssumption DEF SendData, Write, Shapes
  <2>3. Next => SendNil \/ UncountUser \/ SendData
    BY DEF Next, Controller, Updater, DeletePolicy, CreatePolicy, UpdatePolicy, Change,
           StartHandler, NextStrategy, AddStrategy, RemoveStrategy, CountUser, FinishHandler,
           StartUpdate, FetchFails, FetchMetric, FinishUpdate
  <2> QED BY <2>1, <2>2, <2>3
<1> QED BY <1>1, CacheSound, PTL DEF Spec, DataKept

-----------------------------------------------------------------------------
(* What is counted and registered at each operation of a handler. *)

\* Rule i of strategy s uses metric m.
Use(s, i, m) == i \in DOMAIN s /\ MetricOf[s[i]] = m

\* The handler of e has at - 1 operations for strategy t behind it: rule i
\* of the strategy is counted for metric m.
Has(e, t, at, i, m) ==
    \/ Use(StrategyOf(e.old, t), i, m) /\ at <= i + 1
    \/ Use(StrategyOf(e.new, t), i, m) /\ Base(e, t) + 3 * i < at

\* At the same point the strategy with the rules r is registered.
RegAt(e, t, at, r) ==
    /\ r # <<>>
    /\ \/ r = StrategyOf(e.old, t) /\ at <= 1
       \/ r = StrategyOf(e.new, t) /\ at > Base(e, t)

\* Before the first operation the old strategy is counted and registered,
\* after the last the new one.
LEMMA HasEnds ==
    ASSUME NEW e \in Events, NEW t, NEW i, NEW m, NEW r
    PROVE  /\ Has(e, t, 1, i, m) <=> Use(StrategyOf(e.old, t), i, m)
           /\ Has(e, t, Len(Operations(e, t)) + 1, i, m) <=> Use(StrategyOf(e.new, t), i, m)
           /\ RegAt(e, t, 1, r) <=> r # <<>> /\ r = StrategyOf(e.old, t)
           /\ RegAt(e, t, Len(Operations(e, t)) + 1, r) <=> r # <<>> /\ r = StrategyOf(e.new, t)
<1> DEFINE old == StrategyOf(e.old, t)
           new == StrategyOf(e.new, t)
           ops == Operations(e, t)
           b == Base(e, t)
<1>1. Listing(e, old, new, ops, b)
  BY OpAt
<1> HIDE DEF old, new, ops, b
<1>2. /\ old \in Seq(Rules) /\ new \in Seq(Rules) /\ b \in Nat \ {0}
      /\ Len(ops) = IF e.kind = "delete" THEN b - 1 ELSE b + 3 * Len(new)
      /\ e.kind = "add" => b = 1 /\ old = <<>>
      /\ e.kind = "delete" => new = <<>>
      /\ e.kind # "add" => b = Len(old) + 2
  BY <1>1 DEF Listing
<1>3. /\ DOMAIN old = 1..Len(old) /\ DOMAIN new = 1..Len(new) /\ Len(old) \in Nat
           /\ Len(new) \in Nat
      /\ Len(ops) \in Nat
  BY <1>2
<1>4. Use(old, i, m) => i \in Nat /\ i >= 1 /\ i <= Len(old) /\ e.kind # "add"
  BY <1>2, <1>3 DEF Use
<1>5. Use(new, i, m) => i \in Nat /\ i >= 1 /\ i <= Len(new) /\ e.kind # "delete"
  BY <1>2, <1>3 DEF Use
<1>6. Use(old, i, m) => 1 <= i + 1 /\ ~(Len(ops) + 1 <= i + 1)
  BY <1>2, <1>3, <1>4
<1>7. Use(new, i, m) => ~(b + 3 * i < 1) /\ b + 3 * i < Len(ops) + 1
  BY <1>2, <1>3, <1>5
<1>8. Has(e, t, 1, i, m) <=> (Use(old, i, m) /\ 1 <= i + 1) \/ (Use(new, i, m) /\ b + 3 * i < 1)
  BY DEF Has, old, new, b
<1>9. Has(e, t, Len(ops) + 1, i, m) <=>
        (Use(old, i, m) /\ Len(ops) + 1 <= i + 1) \/ (Use(new, i, m) /\ b + 3 * i < Len(ops) + 1)
  BY DEF Has, old, new, b
<1>10. RegAt(e, t, 1, r) <=> r # <<>> /\ ((r = old /\ 1 <= 1) \/ (r = new /\ 1 > b))
  BY DEF RegAt, old, new, b
<1>11. RegAt(e, t, Len(ops) + 1, r) <=>
           r # <<>> /\ ((r = old /\ Len(ops) + 1 <= 1) \/ (r = new /\ Len(ops) + 1 > b))
  BY DEF RegAt, old, new, b
<1>12. r # <<>> /\ r = new => Len(ops) + 1 > b
  BY <1>2, <1>3
<1>13. r # <<>> /\ r = old => ~(Len(ops) + 1 <= 1)
  BY <1>2, <1>3
<1>14. ~(1 > b)
  BY <1>2
<1>15. Has(e, t, 1, i, m) <=> Use(old, i, m)
  BY <1>6, <1>7, <1>8 DEF Use
<1>16. Has(e, t, Len(ops) + 1, i, m) <=> Use(new, i, m)
  BY <1>6, <1>7, <1>9 DEF Use
<1>17. RegAt(e, t, 1, r) <=> r # <<>> /\ r = old
  BY <1>10, <1>14
<1>18. RegAt(e, t, Len(ops) + 1, r) <=> r # <<>> /\ r = new
  BY <1>11, <1>12, <1>13
<1> QED BY <1>15, <1>16, <1>17, <1>18 DEF old, new, ops

\* What is counted and registered after the next operation.
LEMMA HasSteps ==
    ASSUME NEW e \in Events, NEW t, NEW at \in 1..Len(Operations(e, t)), NEW o,
           o = Operations(e, t)[at]
    PROVE  /\ o.op = "uncount" =>
                 /\ at - 1 \in Nat /\ Has(e, t, at, at - 1, o.arg)
                 /\ \A i, m : Has(e, t, at + 1, i, m) <=>
                      Has(e, t, at, i, m) /\ ~(i = at - 1 /\ m = o.arg)
           /\ o.op = "count" => \E n \in Nat :
                 /\ ~Has(e, t, at, n, o.arg)
                 /\ \A i, m : Has(e, t, at + 1, i, m) <=>
                      Has(e, t, at, i, m) \/ (i = n /\ m = o.arg)
           /\ o.op = "count" => at > 1 /\ Operations(e, t)[at - 1] = Op("send", o.arg)
           /\ o.op \notin {"count", "uncount"} => \A i, m : Has(e, t, at + 1, i, m) <=>
                Has(e, t, at, i, m)
           /\ o.op = "unregister" =>
                 /\ o.arg = StrategyOf(e.old, t)
                 /\ \A r : RegAt(e, t, at, r) => r = o.arg
                 /\ \A r : ~RegAt(e, t, at + 1, r)
           /\ o.op = "register" =>
                 /\ o.arg = StrategyOf(e.new, t) /\ e.kind # "delete"
                 /\ \A r : ~RegAt(e, t, at, r)
                 /\ \A r : RegAt(e, t, at + 1, r) <=> r # <<>> /\ r = o.arg
           /\ o.op \notin {"register", "unregister"} =>
                 \A r : RegAt(e, t, at + 1, r) <=> RegAt(e, t, at, r)
<1> DEFINE old == StrategyOf(e.old, t)
           new == StrategyOf(e.new, t)
           ops == Operations(e, t)
           b == Base(e, t)
<1>1. Listing(e, old, new, ops, b)
  BY OpAt
<1>2. /\ \A x, i, m : Has(e, t, x, i, m) <=>
                        (Use(old, i, m) /\ x <= i + 1) \/ (Use(new, i, m) /\ b + 3 * i < x)
      /\ \A x, r : RegAt(e, t, x, r) <=> r # <<>> /\ ((r = old /\ x <= 1) \/ (r = new /\ x > b))
  BY DEF Has, RegAt
<1>3. \/ e.kind # "add" /\ at = 1 /\ o = Op("unregister", old)
      \/ e.kind # "add" /\ at - 1 \in DOMAIN old /\ o = Op("uncount", MetricOf[old[at - 1]])
      \/ e.kind # "delete" /\ at = b /\ o = Op("register", new)
      \/ e.kind # "delete" /\ \E i \in DOMAIN new :
            \/ at \in {b + 3 * i - 2, b + 3 * i - 1} /\ o = Op("send", MetricOf[new[i]])
            \/ at = b + 3 * i /\ o = Op("count", MetricOf[new[i]])
  BY OpKinds
<1>4. at \in 1..Len(ops) /\ o = ops[at]
  OBVIOUS
<1> HIDE DEF old, new, ops, b
<1>5. /\ old \in Seq(Rules) /\ new \in Seq(Rules) /\ b \in Nat \ {0}
      /\ Len(ops) = IF e.kind = "delete" THEN b - 1 ELSE b + 3 * Len(new)
      /\ e.kind = "add" => b = 1 /\ old = <<>>
      /\ e.kind = "delete" => new = <<>>
      /\ e.kind # "add" => b = Len(old) + 2
      /\ e.kind # "delete" => \A i \in DOMAIN new :
           ops[b + 3 * i - 1] = Op("send", MetricOf[new[i]])
  BY <1>1 DEF Listing
<1>6. /\ DOMAIN old = 1..Len(old) /\ DOMAIN new = 1..Len(new) /\ Len(old) \in Nat
           /\ Len(new) \in Nat
      /\ at \in Nat /\ at >= 1 /\ at <= Len(ops)
  BY <1>4, <1>5
<1>7. \A i, m : Use(old, i, m) =>
          i \in Nat /\ i >= 1 /\ i <= Len(old) /\ e.kind # "add" /\ i + 1 < b
  BY <1>5, <1>6 DEF Use
<1>8. \A i, m : Use(new, i, m) =>
          i \in Nat /\ i >= 1 /\ i <= Len(new) /\ e.kind # "delete" /\ b + 3 * i > b
  BY <1>5, <1>6 DEF Use
<1>9. \A i, m : Use(old, i, m) \in BOOLEAN /\ Use(new, i, m) \in BOOLEAN
  BY DEF Use
<1>10. CASE e.kind # "add" /\ at = 1 /\ o = Op("unregister", old)
  <2>1. o.op = "unregister" /\ o.arg = old
    BY <1>10 DEF Op
  <2>2. b >= 2
    BY <1>5, <1>6, <1>10
  <2>3. ASSUME NEW i, NEW m PROVE Has(e, t, at + 1, i, m) <=> Has(e, t, at, i, m)
    <3>1. Use(old, i, m) => at <= i + 1 /\ at + 1 <= i + 1
      BY <1>7, <1>10
    <3>2. Use(new, i, m) => ~(b + 3 * i < at) /\ ~(b + 3 * i < at + 1)
      BY <1>5, <1>8, <1>10, <2>2
    <3> QED BY <1>2, <1>9, <3>1, <3>2
  <2>4. ~(at + 1 <= 1) /\ ~(at > b) /\ ~(at + 1 > b)
    BY <1>5, <1>10, <2>2
  <2>5. \A r : (RegAt(e, t, at, r) => r = o.arg) /\ ~RegAt(e, t, at + 1, r)
    BY <1>2, <2>1, <2>4
  <2> QED BY <2>1, <2>3, <2>5 DEF old
<1>11. CASE e.kind # "add" /\ at - 1 \in DOMAIN old /\ o = Op("uncount", MetricOf[old[at - 1]])
  <2>1. o.op = "uncount" /\ o.arg = MetricOf[old[at - 1]]
    BY <1>11 DEF Op
  <2>2. b = Len(old) + 2 /\ at < b /\ at - 1 \in Nat /\ at >= 2
    BY <1>5, <1>6, <1>11
  <2>3. Has(e, t, at, at - 1, o.arg)
    <3>1. Use(old, at - 1, o.arg) /\ at <= (at - 1) + 1
      BY <1>6, <1>11, <2>1 DEF Use
    <3> QED BY <1>2, <3>1
  <2>4. ASSUME NEW i, NEW m
        PROVE  Has(e, t, at + 1, i, m) <=> Has(e, t, at, i, m) /\ ~(i = at - 1 /\ m = o.arg)
    <3>1. Use(new, i, m) => ~(b + 3 * i < at) /\ ~(b + 3 * i < at + 1)
      BY <1>5, <1>6, <1>8, <2>2
    <3>2. Use(old, i, m) => (at + 1 <= i + 1 <=> at <= i + 1 /\ i # at - 1)
      BY <1>6, <1>7
    <3>3. Use(old, i, m) /\ i = at - 1 => m = o.arg
      BY <2>1 DEF Use
    <3> QED BY <1>2, <1>9, <3>1, <3>2, <3>3
  <2>5. ASSUME NEW r PROVE RegAt(e, t, at + 1, r) <=> RegAt(e, t, at, r)
    <3>1. ~(at <= 1) /\ ~(at + 1 <= 1) /\ ~(at > b) /\ ~(at + 1 > b)
      BY <1>5, <1>6, <2>2
    <3> QED BY <1>2, <3>1
  <2> QED BY <2>1, <2>2, <2>3, <2>4, <2>5
<1>12. CASE e.kind # "delete" /\ at = b /\ o = Op("register", new)
  <2>1. o.op = "register" /\ o.arg = new
    BY <1>12 DEF Op
  <2>2. ASSUME NEW i, NEW m PROVE Has(e, t, at + 1, i, m) <=> Has(e, t, at, i, m)
    <3>1. Use(old, i, m) => ~(at <= i + 1) /\ ~(at + 1 <= i + 1)
      BY <1>5, <1>7, <1>12
    <3>2. Use(new, i, m) => ~(b + 3 * i < at) /\ ~(b + 3 * i < at + 1)
      BY <1>5, <1>8, <1>12
    <3> QED BY <1>2, <1>9, <3>1, <3>2
  <2>3. /\ old # <<>> => ~(at <= 1) /\ ~(at + 1 <= 1)
        /\ ~(at > b) /\ at + 1 > b
    BY <1>5, <1>6, <1>12
  <2>4. \A r : ~RegAt(e, t, at, r) /\ (RegAt(e, t, at + 1, r) <=> r # <<>> /\ r = o.arg)
    BY <1>2, <2>1, <2>3
  <2> QED BY <1>12, <2>1, <2>2, <2>4 DEF new
<1>13. ASSUME e.kind # "delete", NEW j \in DOMAIN new,
              at \in {b + 3 * j - 2, b + 3 * j - 1} /\ o = Op("send", MetricOf[new[j]])
       PROVE  /\ o.op = "send"
              /\ \A i, m : Has(e, t, at + 1, i, m) <=> Has(e, t, at, i, m)
              /\ \A r : RegAt(e, t, at + 1, r) <=> RegAt(e, t, at, r)
  <2>1. o.op = "send"
    BY <1>13 DEF Op
  <2>2. /\ j \in Nat /\ j >= 1 /\ b \in Nat /\ b >= 1 /\ at \in Nat /\ at > b
        /\ (at = b + 3 * j - 2 \/ at = b + 3 * j - 1)
    <3>1. j \in Nat /\ j >= 1 /\ b \in Nat /\ b >= 1 /\ (at = b + 3 * j - 2 \/ at = b + 3 * j - 1)
      BY <1>5, <1>6, <1>13
    <3> QED BY <3>1
  <2>3. ASSUME NEW i, NEW m PROVE Has(e, t, at + 1, i, m) <=> Has(e, t, at, i, m)
    <3>1. Use(old, i, m) => ~(at <= i + 1) /\ ~(at + 1 <= i + 1)
      BY <1>7, <2>2
    <3>2. Use(new, i, m) => (b + 3 * i < at <=> b + 3 * i < at + 1)
      <4>1. Use(new, i, m) => i \in Nat
        BY <1>8
      <4>2. \A x, y, z \in Nat : /\ z + 3 * x < z + 3 * y - 2 <=> z + 3 * x < (z + 3 * y - 2) + 1
                                /\ z + 3 * x < z + 3 * y - 1 <=> z + 3 * x < (z + 3 * y - 1) + 1
        OBVIOUS
      <4> QED BY <2>2, <4>1, <4>2
    <3> QED BY <1>2, <1>9, <3>1, <3>2
  <2>4. ASSUME NEW r PROVE RegAt(e, t, at + 1, r) <=> RegAt(e, t, at, r)
    <3>1. ~(at <= 1) /\ ~(at + 1 <= 1) /\ at > b /\ at + 1 > b
      BY <2>2
    <3> QED BY <1>2, <3>1
  <2> QED BY <2>1, <2>3, <2>4
<1>14. ASSUME e.kind # "delete", NEW j \in DOMAIN new,
              at = b + 3 * j /\ o = Op("count", MetricOf[new[j]])
       PROVE  /\ o.op = "count" /\ j \in Nat
              /\ ~Has(e, t, at, j, o.arg)
              /\ \A i, m : Has(e, t, at + 1, i, m) <=> Has(e, t, at, i, m) \/ (i = j /\ m = o.arg)
              /\ at > 1 /\ ops[at - 1] = Op("send", o.arg)
              /\ \A r : RegAt(e, t, at + 1, r) <=> RegAt(e, t, at, r)
  <2>1. o.op = "count" /\ o.arg = MetricOf[new[j]]
    BY <1>14 DEF Op
  <2>2. /\ j \in Nat /\ j >= 1 /\ b \in Nat /\ b >= 1 /\ at \in Nat /\ at > b
        /\ at = b + 3 * j
    <3>1. j \in Nat /\ j >= 1 /\ b \in Nat /\ b >= 1 /\ at = b + 3 * j
      BY <1>5, <1>6, <1>14
    <3> QED BY <3>1
  <2>3. ASSUME NEW i, NEW m PROVE Has(e, t, at + 1, i, m) <=>
               Has(e, t, at, i, m) \/ (i = j /\ m = o.arg)
    <3>1. Use(old, i, m) => ~(at <= i + 1) /\ ~(at + 1 <= i + 1)
      BY <1>7, <2>2
    <3>2. Use(new, i, m) => (b + 3 * i < at + 1 <=> b + 3 * i < at \/ i = j)
      <4>1. Use(new, i, m) => i \in Nat
        BY <1>8
      <4>2. \A x, y, z \in Nat : z + 3 * x < (z + 3 * y) + 1 <=> z + 3 * x < z + 3 * y \/ x = y
        OBVIOUS
      <4> QED BY <2>2, <4>1, <4>2
    <3>3. i = j => (Use(new, i, m) <=> m = o.arg)
      BY <1>14, <2>1 DEF Use
    <3>4. i = j => ~(b + 3 * i < at)
      BY <2>2
    <3> QED BY <1>2, <1>9, <3>1, <3>2, <3>3, <3>4
  <2>4. ~Has(e, t, at, j, o.arg)
    <3>1. Use(old, j, o.arg) => ~(at <= j + 1)
      BY <1>7, <2>2
    <3>2. ~(b + 3 * j < at)
      BY <2>2
    <3> QED BY <1>2, <3>1, <3>2
  <2>5. ASSUME NEW r PROVE RegAt(e, t, at + 1, r) <=> RegAt(e, t, at, r)
    <3>1. ~(at <= 1) /\ ~(at + 1 <= 1) /\ at > b /\ at + 1 > b
      BY <2>2
    <3> QED BY <1>2, <3>1
  <2>6. at > 1 /\ ops[at - 1] = Op("send", o.arg)
    <3>1. at > 1 /\ at - 1 = b + 3 * j - 1
      BY <2>2
    <3> QED BY <1>5, <1>14, <2>1, <3>1
  <2> QED BY <2>1, <2>2, <2>3, <2>4, <2>5, <2>6
<1>15. CASE e.kind # "delete" /\ \E i \in DOMAIN new :
            \/ at \in {b + 3 * i - 2, b + 3 * i - 1} /\ o = Op("send", MetricOf[new[i]])
            \/ at = b + 3 * i /\ o = Op("count", MetricOf[new[i]])
  <2>1. PICK j \in DOMAIN new :
            \/ at \in {b + 3 * j - 2, b + 3 * j - 1} /\ o = Op("send", MetricOf[new[j]])
            \/ at = b + 3 * j /\ o = Op("count", MetricOf[new[j]])
    BY <1>15
  <2>2. CASE at \in {b + 3 * j - 2, b + 3 * j - 1} /\ o = Op("send", MetricOf[new[j]])
    <3>1. /\ o.op = "send"
          /\ \A i, m : Has(e, t, at + 1, i, m) <=> Has(e, t, at, i, m)
          /\ \A r : RegAt(e, t, at + 1, r) <=> RegAt(e, t, at, r)
      BY <1>13, <1>15, <2>2
    <3> QED BY <3>1
  <2>3. CASE at = b + 3 * j /\ o = Op("count", MetricOf[new[j]])
    <3>1. /\ o.op = "count" /\ j \in Nat
          /\ ~Has(e, t, at, j, o.arg)
          /\ \A i, m : Has(e, t, at + 1, i, m) <=> Has(e, t, at, i, m) \/ (i = j /\ m = o.arg)
          /\ at > 1 /\ ops[at - 1] = Op("send", o.arg)
          /\ \A r : RegAt(e, t, at + 1, r) <=> RegAt(e, t, at, r)
      BY <1>14, <1>15, <2>3
    <3> QED BY <3>1 DEF ops
  <2> QED BY <2>1, <2>2, <2>3
<1> QED BY <1>3, <1>10, <1>11, <1>12, <1>15

-----------------------------------------------------------------------------
(* The inductive invariant for valid policies. *)

\* Policies as the CRD means them: known strategy types, each with at least one
\* rule, and names that tell the policies apart (the registry knows a policy by
\* its name only).
ValidPolicies ==
    /\ \A s \in Specs : DOMAIN s \subseteq StrategyTypes
    /\ \A s \in Specs : \A t \in DOMAIN s : s[t] # <<>>
    /\ \A j, k \in Keys : NameOf[j] = NameOf[k] => j = k

\* An update that keeps every strategy of the policy.
KeepsTypes(e) == e.kind = "update" => DOMAIN e.old \subseteq DOMAIN e.new

\* No update takes a strategy out of a policy.
TypesKept == \A e \in Range(events) : KeepsTypes(e)

\* A handler of policy k is running.
Busy(k) == Running /\ ctl.event.key = k

\* The next operation of the handler for strategy t.
Place(t) ==
    IF t \in ctl.todo THEN 1
    ELSE IF t = ctl.type THEN Len(Operations(ctl.event, t)) - Len(ctl.ops) + 1
         ELSE Len(Operations(ctl.event, t)) + 1

\* Rule i of strategy t of policy k is counted for metric m.
Holds(k, t, i, m) ==
    IF Busy(k) THEN Has(ctl.event, t, Place(t), i, m) ELSE Use(StrategyOf(cached[k], t), i, m)

\* The rules that are counted for metric m.
CountedFor(m) == {x \in Keys \X StrategyTypes \X Nat : Holds(x[1], x[2], x[3], m)}

\* The rules r are registered as strategy t of policy k.
Enlisted(k, t, r) ==
    IF Busy(k) THEN RegAt(ctl.event, t, Place(t), r) ELSE r # <<>> /\ r = StrategyOf(cached[k], t)

\* The registry's record of a strategy.
Entry(k, t, r) == [type |-> t, name |-> NameOf[k], rules |-> r]

\* The policy once the handler that runs has returned.
Now == [k \in Keys |-> IF Busy(k) THEN ctl.event.new ELSE cached[k]]

\* The events q lead from the policies now to the policies stored.
Chain(q, now, stored) ==
    /\ \A i \in DOMAIN q : (\A j \in 1..(i - 1) : q[j].key # q[i].key) => q[i].old = now[q[i].key]
    /\ \A i \in DOMAIN q : \A j \in 1..(i - 1) :
          q[j].key = q[i].key /\ (\A x \in (j + 1)..(i - 1) : q[x].key # q[i].key) =>
              q[i].old = q[j].new
    /\ \A i \in DOMAIN q : (\A j \in (i + 1)..Len(q) : q[j].key # q[i].key) =>
          stored[q[i].key] = q[i].new
    /\ \A k \in Keys : (\A i \in DOMAIN q : q[i].key # k) => stored[k] = now[k]

\* The strategies the handler of e goes through.
Goes(e) == DOMAIN (IF e.kind = "delete" THEN e.old ELSE e.new)

\* A handler works through the operations of its event, one strategy after the
\* other.
ProgressInv ==
    Running =>
      /\ KeepsTypes(ctl.event) /\ ctl.todo \subseteq Goes(ctl.event)
      /\ cached[ctl.event.key] = IF ctl.event.kind = "delete" THEN ctl.event.old ELSE ctl.event.new
      /\ Len(ctl.ops) <= Len(Operations(ctl.event, ctl.type))
      /\ \A i \in DOMAIN ctl.ops :
            ctl.ops[i] = Operations(ctl.event, ctl.type)
                           [Len(Operations(ctl.event, ctl.type)) - Len(ctl.ops) + i]
      /\ ctl.ops # <<>> => ctl.type \in Goes(ctl.event) \ ctl.todo

\* The metric map has the number of the rules that are counted.
CountsInv ==
    \A m \in Metrics :
        /\ IsFiniteSet(CountedFor(m))
        /\ m \in DOMAIN metricMap <=> CountedFor(m) # {}
        /\ m \in DOMAIN metricMap => metricMap[m] = Cardinality(CountedFor(m))

\* The registry has the enlisted strategies and no other.
RegisteredInv ==
    /\ \A s \in registered : \E k \in Keys, t \in Enforceable, r \in Seq(Rules) :
          s = Entry(k, t, r) /\ Enlisted(k, t, r)
    /\ \A k \in Keys, t \in Enforceable, r \in Seq(Rules) :
          Enlisted(k, t, r) => Entry(k, t, r) \in registered

\* A counted metric has its key, and so has one that is about to be counted.
KeysInv ==
    /\ \A m \in DOMAIN metricMap : metrics[m] # None
    /\ Running /\ ctl.ops # <<>> /\ Head(ctl.ops).op = "count" => metrics[Head(ctl.ops).arg] # None

\* The events that wait lead from the policies of the cache to those of the
\* API server.
ChainInv == Chain(events, Now, policies)

IInv == CacheInv /\ ChainInv /\ ProgressInv /\ CountsInv /\ RegisteredInv /\ KeysInv

-----------------------------------------------------------------------------
\* A change of a policy appends an event that starts from what is stored.
LEMMA ChainGrows ==
    ASSUME NEW q \in Seq(Events), NEW now \in [Keys -> SpecOrNone],
           NEW stored \in [Keys -> SpecOrNone],
           Chain(q, now, stored), NEW e \in Events, e.old = stored[e.key]
    PROVE  Chain(Append(q, e), now, [stored EXCEPT ![e.key] = e.new])
<1> DEFINE p == Append(q, e)
           n == Len(q)
           after == [stored EXCEPT ![e.key] = e.new]
<1>1. /\ n \in Nat /\ DOMAIN q = 1..n /\ Len(p) = n + 1 /\ DOMAIN p = 1..(n + 1)
      /\ \A i \in 1..n : p[i] = q[i]
      /\ p[n + 1] = e
  OBVIOUS
<1>2. e.key \in Keys /\ \A i \in 1..n : q[i].key \in Keys
  <2>1. \A x \in Events : x.key \in Keys
    BY DEF Events
  <2> QED BY <1>1, <2>1
<1>3. \A k \in Keys : after[k] = IF k = e.key THEN e.new ELSE stored[k]
  OBVIOUS
<1> HIDE DEF p, n, after
<1>4. ASSUME NEW i \in 1..(n + 1), \A j \in 1..(i - 1) : p[j].key # p[i].key
      PROVE  p[i].old = now[p[i].key]
  <2>1. CASE i = n + 1
    <3>1. \A j \in 1..n : q[j].key # e.key
      BY <1>1, <1>4, <2>1
    <3>2. stored[e.key] = now[e.key]
      BY <1>1, <1>2, <3>1 DEF Chain
    <3> QED BY <1>1, <2>1, <3>2
  <2>2. CASE i # n + 1
    <3>1. i \in 1..n /\ \A j \in 1..(i - 1) : j \in 1..n
      BY <1>1, <2>2
    <3>2. \A j \in 1..(i - 1) : q[j].key # q[i].key
      BY <1>1, <1>4, <3>1
    <3> QED BY <1>1, <3>1, <3>2 DEF Chain
  <2> QED BY <2>1, <2>2
<1>5. ASSUME NEW i \in 1..(n + 1), NEW j \in 1..(i - 1), p[j].key = p[i].key,
             \A x \in (j + 1)..(i - 1) : p[x].key # p[i].key
      PROVE  p[i].old = p[j].new
  <2>1. CASE i = n + 1
    <3>1. j \in 1..n /\ i - 1 = n /\ (j + 1)..n \subseteq 1..n
      BY <1>1, <2>1
    <3>2. q[j].key = e.key /\ \A x \in (j + 1)..n : q[x].key # q[j].key
      BY <1>1, <1>5, <2>1, <3>1
    <3>3. stored[e.key] = q[j].new
      BY <1>1, <3>1, <3>2 DEF Chain, n
    <3> QED BY <1>1, <2>1, <3>1, <3>3
  <2>2. CASE i # n + 1
    <3>1. i \in 1..n /\ j \in 1..n /\ \A x \in (j + 1)..(i - 1) : x \in 1..n
      BY <1>1, <2>2
    <3>2. q[j].key = q[i].key /\ \A x \in (j + 1)..(i - 1) : q[x].key # q[i].key
      BY <1>1, <1>5, <3>1
    <3>3. q[i].old = q[j].new
      BY <1>1, <3>1, <3>2 DEF Chain
    <3> QED BY <1>1, <3>1, <3>3
  <2> QED BY <2>1, <2>2
<1>6. ASSUME NEW i \in 1..(n + 1), \A j \in (i + 1)..(n + 1) : p[j].key # p[i].key
      PROVE  after[p[i].key] = p[i].new
  <2>1. CASE i = n + 1
    BY <1>1, <1>2, <1>3, <2>1
  <2>2. CASE i # n + 1
    <3>1. i \in 1..n /\ n + 1 \in (i + 1)..(n + 1) /\ \A j \in (i + 1)..n :
              j \in 1..n /\ j \in (i + 1)..(n + 1)
      BY <1>1, <2>2
    <3>2. e.key # q[i].key /\ \A j \in (i + 1)..n : q[j].key # q[i].key
      BY <1>1, <1>6, <3>1
    <3>3. stored[q[i].key] = q[i].new
      BY <1>1, <3>1, <3>2 DEF Chain, n
    <3> QED BY <1>1, <1>2, <1>3, <3>1, <3>2, <3>3
  <2> QED BY <2>1, <2>2
<1>7. ASSUME NEW k \in Keys, \A i \in 1..(n + 1) : p[i].key # k
      PROVE  after[k] = now[k]
  <2>1. k # e.key /\ \A i \in 1..n : q[i].key # k
    BY <1>1, <1>7
  <2> QED BY <1>1, <1>3, <2>1 DEF Chain
<1>8. Chain(p, now, after)
  BY <1>1, <1>4, <1>5, <1>6, <1>7 DEF Chain
<1> QED BY <1>8 DEF p, after

\* The first event starts from the present policy, and handling it moves the
\* present on.
LEMMA ChainShrinks ==
    ASSUME NEW q \in Seq(Events), q # <<>>, NEW now \in [Keys -> SpecOrNone],
           NEW stored \in [Keys -> SpecOrNone], Chain(q, now, stored)
    PROVE  /\ Head(q).old = now[Head(q).key]
           /\ Chain(Tail(q), [now EXCEPT ![Head(q).key] = Head(q).new], stored)
<1> DEFINE p == Tail(q)
           n == Len(q)
           e == Head(q)
           after == [now EXCEPT ![e.key] = e.new]
<1>1. /\ n \in Nat /\ n >= 1 /\ DOMAIN q = 1..n /\ Len(p) = n - 1 /\ DOMAIN p = 1..(n - 1)
      /\ \A i \in 1..(n - 1) : p[i] = q[i + 1] /\ i + 1 \in 1..n
      /\ e = q[1] /\ e \in Events
  OBVIOUS
<1>2. e.key \in Keys /\ \A i \in 1..n : q[i].key \in Keys
  <2>1. \A x \in Events : x.key \in Keys
    BY DEF Events
  <2> QED BY <1>1, <2>1
<1>3. \A k \in Keys : after[k] = IF k = e.key THEN e.new ELSE now[k]
  OBVIOUS
<1> HIDE DEF p, n, e, after
<1>4. e.old = now[e.key]
  <2>1. 1 \in DOMAIN q /\ 1..(1 - 1) = {}
    BY <1>1
  <2> QED BY <1>1, <2>1 DEF Chain
<1>5. ASSUME NEW i \in 1..(n - 1), \A j \in 1..(i - 1) : p[j].key # p[i].key
      PROVE  p[i].old = after[p[i].key]
  <2>1. /\ p[i] = q[i + 1] /\ i + 1 \in 1..n
        /\ \A x \in 2..i : x - 1 \in 1..(i - 1) /\ x - 1 \in 1..(n - 1) /\ (x - 1) + 1 = x
    BY <1>1
  <2>2. \A x \in 2..i : q[x].key # q[i + 1].key
    <3> TAKE x \in 2..i
    <3>1. p[x - 1] = q[x] /\ p[x - 1].key # p[i].key
      BY <1>1, <1>5, <2>1
    <3> QED BY <2>1, <3>1
  <2>3. CASE q[i + 1].key = e.key
    <3>1. 1 \in 1..((i + 1) - 1) /\ (1 + 1)..((i + 1) - 1) = 2..i
      BY <1>1
    <3>2. i + 1 \in DOMAIN q /\ q[1].key = q[i + 1].key /\ \A x \in (1 + 1)..((i + 1) - 1) :
              q[x].key # q[i + 1].key
      BY <1>1, <2>1, <2>2, <2>3, <3>1
    <3>3. q[i + 1].old = q[1].new
      BY <3>1, <3>2 DEF Chain
    <3> QED BY <1>1, <1>2, <1>3, <2>1, <2>3, <3>3
  <2>4. CASE q[i + 1].key # e.key
    <3>1. \A j \in 1..((i + 1) - 1) : j = 1 \/ j \in 2..i
      BY <1>1
    <3>2. q[i + 1].old = now[q[i + 1].key]
      BY <1>1, <2>1, <2>2, <2>4, <3>1 DEF Chain
    <3> QED BY <1>2, <1>3, <2>1, <2>4, <3>2
  <2> QED BY <2>3, <2>4
<1>6. ASSUME NEW i \in 1..(n - 1), NEW j \in 1..(i - 1), p[j].key = p[i].key,
             \A x \in (j + 1)..(i - 1) : p[x].key # p[i].key
      PROVE  p[i].old = p[j].new
  <2>1. /\ p[i] = q[i + 1] /\ i + 1 \in 1..n /\ p[j] = q[j + 1] /\ j + 1 \in 1..((i + 1) - 1)
        /\ \A x \in ((j + 1) + 1)..((i + 1) - 1) :
              x - 1 \in (j + 1)..(i - 1) /\ x - 1 \in 1..(n - 1) /\ (x - 1) + 1 = x
    BY <1>1
  <2>2. \A x \in ((j + 1) + 1)..((i + 1) - 1) : q[x].key # q[i + 1].key
    <3> TAKE x \in ((j + 1) + 1)..((i + 1) - 1)
    <3>1. p[x - 1] = q[x] /\ p[x - 1].key # p[i].key
      BY <1>1, <1>6, <2>1
    <3> QED BY <2>1, <3>1
  <2>3. q[i + 1].old = q[j + 1].new
    BY <1>1, <1>6, <2>1, <2>2 DEF Chain
  <2> QED BY <2>1, <2>3
<1>7. ASSUME NEW i \in 1..(n - 1), \A j \in (i + 1)..(n - 1) : p[j].key # p[i].key
      PROVE  stored[p[i].key] = p[i].new
  <2>1. /\ p[i] = q[i + 1] /\ i + 1 \in 1..n
        /\ \A x \in ((i + 1) + 1)..n :
             x - 1 \in (i + 1)..(n - 1) /\ x - 1 \in 1..(n - 1) /\ (x - 1) + 1 = x
    BY <1>1
  <2>2. \A x \in ((i + 1) + 1)..n : q[x].key # q[i + 1].key
    <3> TAKE x \in ((i + 1) + 1)..n
    <3>1. p[x - 1] = q[x] /\ p[x - 1].key # p[i].key
      BY <1>1, <1>7, <2>1
    <3> QED BY <2>1, <3>1
  <2> QED BY <1>1, <2>1, <2>2 DEF Chain, n
<1>8. ASSUME NEW k \in Keys, \A i \in 1..(n - 1) : p[i].key # k
      PROVE  stored[k] = after[k]
  <2>1. \A x \in 2..n : q[x].key # k
    <3> TAKE x \in 2..n
    <3>1. x - 1 \in 1..(n - 1) /\ (x - 1) + 1 = x
      BY <1>1
    <3> QED BY <1>1, <1>8, <3>1
  <2>2. CASE k = e.key
    <3>1. 1 \in DOMAIN q /\ (1 + 1)..Len(q) = 2..n
      BY <1>1 DEF n
    <3>2. stored[q[1].key] = q[1].new
      BY <1>1, <2>1, <2>2, <3>1 DEF Chain
    <3> QED BY <1>1, <1>3, <2>2, <3>2
  <2>3. CASE k # e.key
    <3>1. \A x \in DOMAIN q : x = 1 \/ x \in 2..n
      BY <1>1
    <3>2. stored[k] = now[k]
      BY <1>1, <2>1, <2>3, <3>1 DEF Chain
    <3> QED BY <1>3, <2>3, <3>2
  <2> QED BY <2>2, <2>3
<1>9. Chain(p, after, stored)
  BY <1>1, <1>5, <1>6, <1>7, <1>8 DEF Chain
<1> QED BY <1>4, <1>9 DEF p, after, e

\* The parts of an event.
LEMMA EventFacts ==
    ASSUME NEW e \in Events
    PROVE  /\ e.key \in Keys /\ e.old \in SpecOrNone /\ e.new \in SpecOrNone
           /\ e.kind \in {"add", "update", "delete"}
           /\ e.kind = "add" <=> e.old = None
           /\ e.kind = "delete" <=> e.new = None
BY DEF Events

\* What a handler does for a strategy is a list.
LEMMA OperationsListed ==
    ASSUME NEW e \in Events, NEW t
    PROVE  Operations(e, t) \in Seq(Ops) /\ Len(Operations(e, t)) \in Nat
BY CountsFollow

\* A step over the next operation.
LEMMA OpStep ==
    ASSUME CacheInv, ProgressInv, Running, ctl.ops # <<>>, Advance, cached' = cached,
           NEW e, e = ctl.event, NEW t0, t0 = ctl.type, NEW at, at = Place(t0),
           NEW o, o = Head(ctl.ops)
    PROVE  /\ e \in Events /\ o \in Ops /\ t0 \in Goes(e)
           /\ at \in 1..Len(Operations(e, t0)) /\ o = Operations(e, t0)[at]
           /\ Running' /\ ctl'.event = e
           /\ \A t : Place(t)' = IF t = t0 THEN at + 1 ELSE Place(t)
           /\ ctl'.ops # <<>> => at + 1 \in 1..Len(Operations(e, t0))
                /\ Head(ctl'.ops) = Operations(e, t0)[at + 1]
           /\ ProgressInv'
<1> DEFINE full == Operations(e, t0)
           n == Len(full)
           q == ctl.ops
<1>1. /\ Running' /\ DOMAIN ctl' = Fields /\ ctl'.event = e /\ ctl'.ops = Tail(q) /\ ctl'.type = t0
      /\ ctl'.todo = ctl.todo /\ o \in Ops
  BY Advanced DEF CacheInv
<1>2. /\ e \in Events /\ q \in Seq(Ops) /\ KeepsTypes(e) /\ ctl.todo \subseteq Goes(e)
      /\ cached[e.key] = IF e.kind = "delete" THEN e.old ELSE e.new
      /\ Len(q) <= n
      /\ \A i \in DOMAIN q : q[i] = full[n - Len(q) + i]
      /\ t0 \in Goes(e) /\ t0 \notin ctl.todo
  BY DEF CacheInv, HandlerInv, ProgressInv
<1>3. n \in Nat
  BY <1>2, OperationsListed
<1>4. at = n - Len(q) + 1
  BY <1>2 DEF Place
<1> HIDE DEF full, n, q
<1>5. q # <<>> /\ o = Head(q)
  BY DEF q
<1>6. /\ Len(q) \in Nat /\ Len(q) > 0 /\ DOMAIN q = 1..Len(q) /\ Head(q) = q[1]
      /\ Len(Tail(q)) = Len(q) - 1 /\ DOMAIN Tail(q) = 1..(Len(q) - 1)
      /\ \A i \in DOMAIN Tail(q) : Tail(q)[i] = q[i + 1]
  BY <1>2, <1>5
<1>6a. /\ n - Len(Tail(q)) + 1 = at + 1 /\ at \in Int
       /\ Len(q) > 1 => at + 1 \in 1..n
  <2>1. Len(q) \in Nat /\ Len(q) > 0 /\ Len(q) <= n /\ Len(Tail(q)) = Len(q) - 1
    BY <1>2, <1>6
  <2>2. \A x, y \in Nat : /\ x - (y - 1) + 1 = (x - y + 1) + 1 /\ x - y + 1 \in Int
                          /\ y > 1 /\ y <= x => (x - y + 1) + 1 \in 1..x
    OBVIOUS
  <2>3. /\ n - (Len(q) - 1) + 1 = (n - Len(q) + 1) + 1 /\ n - Len(q) + 1 \in Int
        /\ Len(q) > 1 => (n - Len(q) + 1) + 1 \in 1..n
    BY <1>3, <2>1, <2>2
  <2> QED BY <1>4, <2>1, <2>3
<1>7. at \in 1..n /\ o = full[at]
  BY <1>2, <1>3, <1>4, <1>5, <1>6
<1>8. ASSUME NEW t PROVE Place(t)' = IF t = t0 THEN at + 1 ELSE Place(t)
  <2>1. Place(t)' = IF t \in ctl.todo THEN 1
                    ELSE IF t = t0 THEN Len(Operations(e, t)) - Len(Tail(q)) + 1
                         ELSE Len(Operations(e, t)) + 1
    BY <1>1 DEF Place
  <2>2. Place(t) = IF t \in ctl.todo THEN 1
                   ELSE IF t = t0 THEN Len(Operations(e, t)) - Len(q) + 1
                        ELSE Len(Operations(e, t)) + 1
    BY DEF Place, q
  <2> QED BY <1>2, <1>4, <1>6a, <2>1, <2>2 DEF n, full
<1>9. \A i \in DOMAIN Tail(q) : Tail(q)[i] = full[n - Len(Tail(q)) + i]
  <2> TAKE i \in DOMAIN Tail(q)
  <2>1. i + 1 \in DOMAIN q /\ n - Len(q) + (i + 1) = n - Len(Tail(q)) + i
    BY <1>3, <1>6
  <2> QED BY <1>2, <1>6, <2>1
<1>10. Tail(q) # <<>> => at + 1 \in 1..n /\ Head(Tail(q)) = full[at + 1]
  <2> SUFFICES ASSUME Tail(q) # <<>> PROVE at + 1 \in 1..n /\ Head(Tail(q)) = full[at + 1]
    OBVIOUS
  <2>1. Tail(q) \in Seq(Ops) /\ Len(Tail(q)) > 0
    BY <1>2, <1>5, TakenFirst
  <2>2. 1 \in DOMAIN Tail(q) /\ Head(Tail(q)) = Tail(q)[1] /\ Len(q) > 1
    BY <1>6, <2>1
  <2> QED BY <1>6a, <1>9, <2>2
<1>11. ProgressInv'
  <2>1. Len(Tail(q)) <= n
    BY <1>2, <1>3, <1>6
  <2> QED BY <1>1, <1>2, <1>9, <2>1 DEF ProgressInv, n, full
<1> QED BY <1>1, <1>2, <1>7, <1>8, <1>10, <1>11 DEF n, full

\* CountsInv is kept when neither the counts nor the counted rules change.
LEMMA SameCounts ==
    ASSUME \A m \in Metrics : CountedFor(m)' = CountedFor(m), CountsInv, metricMap' = metricMap
    PROVE  CountsInv'
BY DEF CountsInv

\* RegisteredInv is kept when neither the registry nor the enlisted strategies
\* change.
LEMMA SameRegistered ==
    ASSUME \A k \in Keys, t \in Enforceable, r \in Seq(Rules) : Enlisted(k, t, r)' <=>
           Enlisted(k, t, r),
           RegisteredInv, registered' = registered
    PROVE  RegisteredInv'
BY DEF RegisteredInv, Entry

\* The counted rules change only with Holds.
LEMMA SameHolds ==
    ASSUME \A k \in Keys, t \in StrategyTypes, i \in Nat, m \in Metrics : Holds(k, t, i, m)' <=>
           Holds(k, t, i, m)
    PROVE  \A m \in Metrics : CountedFor(m)' = CountedFor(m)
BY DEF CountedFor

\* IInv holds when the program starts.
LEMMA InitIInv == Init => IInv
<1> SUFFICES ASSUME Init PROVE IInv
  OBVIOUS
<1>1. ~Running /\ \A k \in Keys : ~Busy(k)
  BY DEF Init, Running, Busy
<1>2. \A k \in Keys : \A t : cached[k] = None /\ policies[k] = None
          /\ StrategyOf(cached[k], t) = <<>>
  BY DEF Init, StrategyOf
<1>3. CacheInv
  BY InitCacheInv
<1>4. ChainInv
  BY <1>1, <1>2 DEF Init, ChainInv, Chain, Now
<1>5. ProgressInv
  BY <1>1 DEF ProgressInv
<1>6. CountsInv
  <2>1. \A k \in Keys : \A t, i, m : ~Holds(k, t, i, m)
    BY <1>1, <1>2 DEF Holds, Use
  <2>2. \A m \in Metrics : CountedFor(m) = {}
    BY <2>1 DEF CountedFor
  <2> QED BY <2>2, FS_EmptySet DEF CountsInv, Init
<1>7. RegisteredInv
  BY <1>1, <1>2 DEF RegisteredInv, Enlisted, Init
<1>8. KeysInv
  BY <1>1 DEF KeysInv, Init
<1> QED BY <1>3, <1>4, <1>5, <1>6, <1>7, <1>8 DEF IInv

\* Every step keeps IInv, when the policies are valid and updates keep their
\* strategies.
LEMMA StepIInv ==
    ASSUME ValidPolicies, TypesKept, IInv, [Next]_vars
    PROVE  IInv'
<1> USE DEF IInv, apiVars, updVars
<1>0. CacheInv'
  BY StepCacheInv
\* Steps that leave the controller, the counts and the registry alone.
<1>1. ASSUME UNCHANGED <<ctl, cached, metricMap, registered>>
      PROVE  ProgressInv' /\ CountsInv' /\ RegisteredInv' /\ Now' = Now
  <2>1. ProgressInv' /\ Now' = Now
    BY <1>1 DEF ProgressInv, Running, Now, Busy
  <2>2. \A k \in Keys, t \in StrategyTypes, i \in Nat, m \in Metrics : Holds(k, t, i, m)' <=>
            Holds(k, t, i, m)
    BY <1>1 DEF Holds, Busy, Running, Place
  <2>3. CountsInv'
    BY <1>1, <2>2, SameHolds, SameCounts
  <2>4. \A k \in Keys, t \in Enforceable, r \in Seq(Rules) : Enlisted(k, t, r)' <=>
            Enlisted(k, t, r)
    BY <1>1 DEF Enlisted, Busy, Running, Place
  <2>5. RegisteredInv'
    BY <1>1, <2>4, SameRegistered
  <2> QED BY <2>1, <2>3, <2>5
<1>2. ASSUME UNCHANGED <<ctl, cached, metricMap, registered, metrics, policies, events>>
      PROVE  IInv'
  <2>1. KeysInv'
    BY <1>2 DEF KeysInv, Running
  <2> QED BY <1>0, <1>1, <1>2, <2>1 DEF ChainInv
<1>3. CASE UNCHANGED vars \/ StartUpdate \/ FinishUpdate
          \/ \E m \in Metrics : FetchFails(m) \/ \E d \in Data : FetchMetric(m, d)
  <2>1. UNCHANGED <<ctl, cached, metricMap, registered, metrics, policies, events>>
    BY <1>3 DEF vars, StartUpdate, FinishUpdate, FetchFails, FetchMetric
  <2> QED BY <1>2, <2>1
<1>4. CASE SendData
  <2>1. /\ UNCHANGED <<ctl, cached, metricMap, registered, policies, events>>
        /\ metrics' = Write(Head(pending)[1], Head(pending)[2])
    BY <1>4 DEF SendData
  <2>2. Head(pending) \in (DOMAIN metricMap) \X Data
    BY <1>4, TakenFirst DEF SendData, CacheInv, UpdaterInv
  <2>3. Head(pending)[2] # None
    BY <2>2, TasAssumption
  <2>4. \A x \in Metrics : metrics[x] # None => metrics'[x] # None
    BY <2>1, <2>3 DEF Write, CacheInv, Shapes
  <2>5. Running /\ ctl.ops # <<>> /\ Head(ctl.ops).op = "count" => Head(ctl.ops).arg \in Metrics
    BY TakenFirst, OpArgs DEF CacheInv, HandlerInv
  <2>6. KeysInv'
    BY <2>1, <2>4, <2>5 DEF KeysInv, Running, CacheInv, Shapes
  <2> QED BY <1>0, <1>1, <2>1, <2>6 DEF ChainInv
<1>5. ASSUME NEW k \in Keys, NEW new \in SpecOrNone, NEW kind \in {"add", "update", "delete"},
             Change(k, kind, new),
             kind = "add" <=> policies[k] = None, kind = "delete" <=> new = None
      PROVE  IInv'
  <2> DEFINE e == [kind |-> kind, key |-> k, old |-> policies[k], new |-> new]
  <2>1. e \in Events
    BY <1>5 DEF Events, CacheInv, Shapes
  <2>2. e.key = k /\ e.old = policies[k] /\ e.new = new
    OBVIOUS
  <2>3. events' = Append(events, e) /\ policies' = [policies EXCEPT ![k] = new]
        /\ UNCHANGED <<ctl, cached, metrics, metricMap, updVars, registered>>
    BY <1>5 DEF Change
  <2> HIDE DEF e
  <2>4. Now \in [Keys -> SpecOrNone]
    BY EventFacts DEF Now, Busy, CacheInv, Shapes, HandlerInv
  <2>5. Chain(Append(events, e), Now, [policies EXCEPT ![e.key] = e.new])
    BY <2>1, <2>2, <2>4, ChainGrows DEF ChainInv, CacheInv, Shapes
  <2>6. ChainInv'
    BY <1>1, <2>2, <2>3, <2>5 DEF ChainInv
  <2>7. KeysInv'
    BY <2>3 DEF KeysInv, Running
  <2> QED BY <1>0, <1>1, <2>3, <2>6, <2>7
<1>6. ASSUME NEW k \in Keys, DeletePolicy(k) PROVE IInv'
  BY <1>5, <1>6 DEF DeletePolicy, SpecOrNone
<1>7. ASSUME NEW k \in Keys, NEW s \in Specs, CreatePolicy(k, s) PROVE IInv'
  BY <1>5, <1>7, TasAssumption DEF CreatePolicy, SpecOrNone
<1>8. ASSUME NEW k \in Keys, NEW s \in Specs, UpdatePolicy(k, s) PROVE IInv'
  BY <1>5, <1>8, TasAssumption DEF UpdatePolicy, SpecOrNone
<1>9. CASE StartHandler
  <2> DEFINE e == Head(events)
  <2>1. /\ events # <<>> /\ ctl = Idle /\ events' = Tail(events)
        /\ ctl' = [event |-> e, ops |-> <<>>, type |-> None, todo |-> Goes(e)]
        /\ cached' = IF e.kind = "delete" THEN cached ELSE [cached EXCEPT ![e.key] = e.new]
        /\ UNCHANGED <<policies, changes, metrics, metricMap, updVars, registered>>
    BY <1>9 DEF StartHandler, Goes
  <2>2. e \in Events /\ e \in Range(events)
    BY <2>1, TakenFirst DEF CacheInv, Shapes
  <2>3. KeepsTypes(e)
    BY <2>2 DEF TypesKept
  <2>4. /\ ~Running /\ \A k \in Keys : ~Busy(k)
        /\ Now = cached
    BY <2>1 DEF Running, Busy, Now, CacheInv, Shapes
  <2>5. /\ e.old = cached[e.key]
        /\ Chain(Tail(events), [cached EXCEPT ![e.key] = e.new], policies)
    BY <2>1, <2>4, ChainShrinks DEF ChainInv, CacheInv, Shapes
  <2> HIDE DEF e
  <2>6. /\ ctl'.event = e /\ ctl'.ops = <<>> /\ ctl'.type = None /\ ctl'.todo = Goes(e)
        /\ DOMAIN ctl' = Fields
    BY <2>1 DEF Fields
  <2>7. Running' /\ \A k : Busy(k)' <=> k = e.key
    BY <2>6 DEF Running, Busy, Idle, Fields
  <2>8. /\ e.key \in Keys /\ e.old \in SpecOrNone /\ e.new \in SpecOrNone
        /\ e.kind \in {"add", "update", "delete"}
        /\ (e.kind = "add" <=> e.old = None) /\ (e.kind = "delete" <=> e.new = None)
    BY <2>2, EventFacts
  <2>9. cached'[e.key] = (IF e.kind = "delete" THEN e.old ELSE e.new) /\ \A k \in Keys :
            k # e.key => cached'[k] = cached[k]
    BY <2>1, <2>5, <2>8 DEF CacheInv, Shapes
  <2>10. Now' = [cached EXCEPT ![e.key] = e.new]
    BY <2>6, <2>7, <2>8, <2>9 DEF Now, CacheInv, Shapes
  <2>11. ChainInv'
    BY <2>1, <2>5, <2>10 DEF ChainInv
  <2>12. ProgressInv'
    <3>1. Operations(e, None) \in Seq(Ops) /\ Len(Operations(e, None)) \in Nat
      BY <2>2, OperationsListed
    <3>2. Len(<<>>) <= Len(Operations(e, None)) /\ DOMAIN ctl'.ops = {}
      BY <2>6, <3>1
    <3> QED BY <2>3, <2>6, <2>9, <3>2 DEF ProgressInv
  <2>13. ASSUME NEW t
         PROVE  /\ t \in Goes(e) => Place(t)' = 1
                /\ t \notin Goes(e) => StrategyOf(e.old, t) = <<>> /\ StrategyOf(e.new, t) = <<>>
    <3>1. t \in Goes(e) => Place(t)' = 1
      BY <2>6 DEF Place
    <3>2. t \notin Goes(e) => StrategyOf(e.old, t) = <<>> /\ StrategyOf(e.new, t) = <<>>
      BY <2>3, <2>8 DEF Goes, StrategyOf, KeepsTypes, SpecOrNone
    <3> QED BY <3>1, <3>2
  <2>14. \A k \in Keys, t \in StrategyTypes, i \in Nat, m \in Metrics : Holds(k, t, i, m)' <=>
             Holds(k, t, i, m)
    <3> TAKE k \in Keys, t \in StrategyTypes, i \in Nat, m \in Metrics
    <3>1. CASE k # e.key
      BY <2>4, <2>7, <2>9, <3>1 DEF Holds
    <3>2. CASE k = e.key
      <4>1. Holds(k, t, i, m) <=> Use(StrategyOf(e.old, t), i, m)
        BY <2>4, <2>5, <3>2 DEF Holds
      <4>2. Holds(k, t, i, m)' <=> Has(e, t, Place(t)', i, m)
        BY <2>6, <2>7, <3>2 DEF Holds
      <4>3. CASE t \in Goes(e)
        BY <2>2, <2>13, <4>1, <4>2, <4>3, HasEnds
      <4>4. CASE t \notin Goes(e)
        <5>1. ~Use(StrategyOf(e.old, t), i, m) /\ ~Use(StrategyOf(e.new, t), i, m)
          BY <2>13, <4>4 DEF Use
        <5> QED BY <4>1, <4>2, <5>1 DEF Has
      <4> QED BY <4>3, <4>4
    <3> QED BY <3>1, <3>2
  <2>15. \A k \in Keys, t \in Enforceable, r \in Seq(Rules) : Enlisted(k, t, r)' <=>
             Enlisted(k, t, r)
    <3> TAKE k \in Keys, t \in Enforceable, r \in Seq(Rules)
    <3>1. CASE k # e.key
      BY <2>4, <2>7, <2>9, <3>1 DEF Enlisted
    <3>2. CASE k = e.key
      <4>1. Enlisted(k, t, r) <=> r # <<>> /\ r = StrategyOf(e.old, t)
        BY <2>4, <2>5, <3>2 DEF Enlisted
      <4>2. Enlisted(k, t, r)' <=> RegAt(e, t, Place(t)', r)
        BY <2>6, <2>7, <3>2 DEF Enlisted
      <4>3. CASE t \in Goes(e)
        BY <2>2, <2>13, <4>1, <4>2, <4>3, HasEnds
      <4>4. CASE t \notin Goes(e)
        BY <2>13, <4>1, <4>2, <4>4 DEF RegAt
      <4> QED BY <4>3, <4>4
    <3> QED BY <3>1, <3>2
  <2>16. CountsInv' /\ RegisteredInv'
    BY <2>1, <2>14, <2>15, SameHolds, SameCounts, SameRegistered
  <2>17. KeysInv'
    BY <2>1, <2>6 DEF KeysInv
  <2> QED BY <1>0, <2>11, <2>12, <2>16, <2>17
<1>10. ASSUME NEW s \in Specs, NEW t \in DOMAIN s, NextStrategy(t) PROVE IInv'
  <2> DEFINE e == ctl.event
  <2>1. /\ Running /\ ctl.ops = <<>> /\ t \in ctl.todo /\ DOMAIN ctl = Fields /\ e \in Events
        /\ ctl' = [ctl EXCEPT !.todo = @ \ {t}, !.type = t, !.ops = Operations(ctl.event, t)]
        /\ UNCHANGED <<apiVars, cached, metrics, metricMap, updVars, registered>>
    BY <1>10 DEF NextStrategy, ValidPolicies, CacheInv, HandlerInv
  <2>2. /\ ctl'.event = e /\ ctl'.ops = Operations(e, t) /\ ctl'.type = t
             /\ ctl'.todo = ctl.todo \ {t}
        /\ DOMAIN ctl' = Fields
    BY <2>1 DEF Fields
  <2>3. Running' /\ \A k : Busy(k)' <=> Busy(k)
    BY <2>1, <2>2 DEF Running, Busy, Idle, Fields
  <2>4. ChainInv'
    <3>1. Now' = Now
      BY <2>1, <2>2, <2>3 DEF Now
    <3> QED BY <2>1, <3>1 DEF ChainInv
  <2> HIDE DEF e
  <2>5. \A u : Len(Operations(e, u)) \in Nat
    BY <2>1, OperationsListed
  <2>6. ASSUME NEW u PROVE Place(u)' = Place(u)
    <3>1. Place(u)' = IF u \in ctl.todo \ {t} THEN 1
                      ELSE IF u = t THEN Len(Operations(e, u)) - Len(Operations(e, t)) + 1
                           ELSE Len(Operations(e, u)) + 1
      BY <2>2 DEF Place
    <3>2. Place(u) = IF u \in ctl.todo THEN 1
                     ELSE IF u = ctl.type THEN Len(Operations(e, u)) - Len(<<>>) + 1
                          ELSE Len(Operations(e, u)) + 1
      BY <2>1 DEF Place, e
    <3>3. Len(Operations(e, t)) - Len(Operations(e, t)) + 1 = 1
              /\ Len(Operations(e, u)) - Len(<<>>) + 1 = Len(Operations(e, u)) + 1
      BY <2>5
    <3> QED BY <2>1, <3>1, <3>2, <3>3
  <2>7. ProgressInv'
    <3>1. /\ KeepsTypes(e) /\ ctl.todo \subseteq Goes(e)
          /\ cached[e.key] = IF e.kind = "delete" THEN e.old ELSE e.new
      BY <2>1 DEF ProgressInv, e
    <3>2. Len(Operations(e, t)) <= Len(Operations(e, t)) /\ \A i \in DOMAIN Operations(e, t) :
              Len(Operations(e, t)) - Len(Operations(e, t)) + i = i
      BY <2>1, <2>5, OperationsListed
    <3> QED BY <2>1, <2>2, <3>1, <3>2 DEF ProgressInv
  <2>8. \A k \in Keys, u \in StrategyTypes, i \in Nat, m \in Metrics : Holds(k, u, i, m)' <=>
            Holds(k, u, i, m)
    BY <2>1, <2>2, <2>3, <2>6 DEF Holds, e
  <2>9. \A k \in Keys, u \in Enforceable, r \in Seq(Rules) : Enlisted(k, u, r)' <=>
            Enlisted(k, u, r)
    BY <2>1, <2>2, <2>3, <2>6 DEF Enlisted, e
  <2>10. CountsInv' /\ RegisteredInv'
    BY <2>1, <2>8, <2>9, SameHolds, SameCounts, SameRegistered
  <2>11. KeysInv'
    <3>1. ASSUME Operations(e, t) # <<>>, Head(Operations(e, t)).op = "count" PROVE FALSE
      <4>1. 1 \in 1..Len(Operations(e, t)) /\ Head(Operations(e, t)) = Operations(e, t)[1]
        BY <2>1, <3>1, OperationsListed
      <4> QED BY <2>1, <3>1, <4>1, HasSteps
    <3> QED BY <2>1, <2>2, <3>1 DEF KeysInv
  <2> QED BY <1>0, <2>4, <2>7, <2>10, <2>11
<1>11. CASE FinishHandler
  <2> DEFINE e == ctl.event
  <2>1. /\ Running /\ ctl.ops = <<>> /\ ctl.todo = {} /\ e \in Events /\ ctl' = Idle
        /\ cached' = IF e.kind = "delete" THEN [cached EXCEPT ![e.key] = None] ELSE cached
        /\ UNCHANGED <<apiVars, metrics, metricMap, updVars, registered>>
    BY <1>11 DEF FinishHandler, CacheInv, HandlerInv
  <2>2. /\ ~Running' /\ \A k : ~Busy(k)' /\ (Busy(k) <=> k = e.key)
    BY <2>1 DEF Running, Busy
  <2>3. /\ e.key \in Keys /\ (e.kind = "delete" <=> e.new = None)
        /\ cached[e.key] = IF e.kind = "delete" THEN e.old ELSE e.new
    BY <2>1, EventFacts DEF ProgressInv
  <2>4. cached'[e.key] = e.new /\ \A k \in Keys : k # e.key => cached'[k] = cached[k]
    BY <2>1, <2>3 DEF CacheInv, Shapes
  <2>5. ChainInv'
    <3>1. Now' = Now
      BY <2>2, <2>4 DEF Now
    <3> QED BY <2>1, <3>1 DEF ChainInv
  <2>6. \A u : Place(u) = Len(Operations(e, u)) + 1
    <3>1. \A u : Len(Operations(e, u)) - Len(<<>>) + 1 = Len(Operations(e, u)) + 1
      BY <2>1, OperationsListed
    <3> QED BY <2>1, <3>1 DEF Place
  <2>7. \A k \in Keys, t \in StrategyTypes, i \in Nat, m \in Metrics : Holds(k, t, i, m)' <=>
            Holds(k, t, i, m)
    <3> TAKE k \in Keys, t \in StrategyTypes, i \in Nat, m \in Metrics
    <3>1. CASE k # e.key
      BY <2>2, <2>4, <3>1 DEF Holds
    <3>2. CASE k = e.key
      <4>1. Holds(k, t, i, m) <=> Use(StrategyOf(e.new, t), i, m)
        BY <2>1, <2>2, <2>6, <3>2, HasEnds DEF Holds
      <4>2. Holds(k, t, i, m)' <=> Use(StrategyOf(e.new, t), i, m)
        BY <2>2, <2>4, <3>2 DEF Holds
      <4> QED BY <4>1, <4>2
    <3> QED BY <3>1, <3>2
  <2>8. \A k \in Keys, t \in Enforceable, r \in Seq(Rules) : Enlisted(k, t, r)' <=>
            Enlisted(k, t, r)
    <3> TAKE k \in Keys, t \in Enforceable, r \in Seq(Rules)
    <3>1. CASE k # e.key
      BY <2>2, <2>4, <3>1 DEF Enlisted
    <3>2. CASE k = e.key
      <4>1. Enlisted(k, t, r) <=> r # <<>> /\ r = StrategyOf(e.new, t)
        BY <2>1, <2>2, <2>6, <3>2, HasEnds DEF Enlisted
      <4>2. Enlisted(k, t, r)' <=> r # <<>> /\ r = StrategyOf(e.new, t)
        BY <2>2, <2>4, <3>2 DEF Enlisted
      <4> QED BY <4>1, <4>2
    <3> QED BY <3>1, <3>2
  <2>9. CountsInv' /\ RegisteredInv'
    BY <2>1, <2>7, <2>8, SameHolds, SameCounts, SameRegistered
  <2>10. ProgressInv' /\ KeysInv'
    BY <2>1, <2>2 DEF ProgressInv, KeysInv
  <2> QED BY <1>0, <2>5, <2>9, <2>10
<1>12. CASE AddStrategy \/ RemoveStrategy \/ SendNil \/ CountUser \/ UncountUser
  <2>0. PICK e, t0, at, o : e = ctl.event /\ t0 = ctl.type /\ at = Place(t0) /\ o = Head(ctl.ops)
    OBVIOUS
  <2>1. /\ Running /\ ctl.ops # <<>> /\ Advance /\ UNCHANGED <<cached, policies, events>>
             /\ Arg = o.arg
        /\ AddStrategy => o.op = "register"
        /\ RemoveStrategy => o.op = "unregister"
        /\ SendNil => o.op = "send"
        /\ CountUser => o.op = "count"
        /\ UncountUser => o.op = "uncount"
    BY <1>12, <2>0 DEF AddStrategy, RemoveStrategy, SendNil, CountUser, UncountUser, NextOp, Arg
  <2>2. /\ e \in Events /\ o \in Ops /\ t0 \in Goes(e)
        /\ at \in 1..Len(Operations(e, t0)) /\ o = Operations(e, t0)[at]
        /\ Running' /\ ctl'.event = e
        /\ \A t : Place(t)' = IF t = t0 THEN at + 1 ELSE Place(t)
        /\ ctl'.ops # <<>> => at + 1 \in 1..Len(Operations(e, t0))
             /\ Head(ctl'.ops) = Operations(e, t0)[at + 1]
        /\ ProgressInv'
    BY <2>0, <2>1, OpStep
  <2>3. /\ o.op = "uncount" =>
              /\ at - 1 \in Nat /\ Has(e, t0, at, at - 1, o.arg)
              /\ \A i, m : Has(e, t0, at + 1, i, m) <=>
                   Has(e, t0, at, i, m) /\ ~(i = at - 1 /\ m = o.arg)
        /\ o.op = "count" => \E n \in Nat :
              /\ ~Has(e, t0, at, n, o.arg)
              /\ \A i, m : Has(e, t0, at + 1, i, m) <=> Has(e, t0, at, i, m) \/ (i = n /\ m = o.arg)
        /\ o.op \notin {"count", "uncount"} => \A i, m : Has(e, t0, at + 1, i, m) <=>
             Has(e, t0, at, i, m)
        /\ o.op = "unregister" =>
              /\ o.arg = StrategyOf(e.old, t0)
              /\ \A r : RegAt(e, t0, at, r) => r = o.arg
              /\ \A r : ~RegAt(e, t0, at + 1, r)
        /\ o.op = "register" =>
              /\ o.arg = StrategyOf(e.new, t0) /\ e.kind # "delete"
              /\ \A r : ~RegAt(e, t0, at, r)
              /\ \A r : RegAt(e, t0, at + 1, r) <=> r # <<>> /\ r = o.arg
        /\ o.op \notin {"register", "unregister"} =>
              \A r : RegAt(e, t0, at + 1, r) <=> RegAt(e, t0, at, r)
    BY <2>2, HasSteps
  <2>4. /\ \A k : Busy(k)' <=> Busy(k)
        /\ \A k : Busy(k) <=> k = e.key
    BY <2>0, <2>1, <2>2 DEF Busy
  <2>5. ChainInv'
    <3>1. Now' = Now
      BY <2>0, <2>1, <2>2, <2>4 DEF Now
    <3> QED BY <2>1, <3>1 DEF ChainInv
  <2>6. /\ e.key \in Keys /\ e.old \in SpecOrNone /\ e.new \in SpecOrNone
        /\ e.kind \in {"add", "update", "delete"}
        /\ (e.kind = "add" <=> e.old = None) /\ (e.kind = "delete" <=> e.new = None)
    BY <2>2, EventFacts
  <2>7. t0 \in StrategyTypes
    BY <2>2, <2>6 DEF Goes, ValidPolicies, SpecOrNone
  <2>8. /\ \A k, t, i, m : ~(k = e.key /\ t = t0) => (Holds(k, t, i, m)' <=> Holds(k, t, i, m))
        /\ \A i, m : Holds(e.key, t0, i, m) <=> Has(e, t0, at, i, m)
        /\ \A i, m : Holds(e.key, t0, i, m)' <=> Has(e, t0, at + 1, i, m)
    <3>1. \A k, t, i, m : Holds(k, t, i, m) <=>
              IF k = e.key THEN Has(e, t, Place(t), i, m) ELSE Use(StrategyOf(cached[k], t), i, m)
      BY <2>0, <2>4 DEF Holds
    <3>2. \A k, t, i, m : Holds(k, t, i, m)' <=>
              IF k = e.key THEN Has(e, t, Place(t)', i, m) ELSE Use(StrategyOf(cached[k], t), i, m)
      BY <2>1, <2>2, <2>4 DEF Holds
    <3> QED BY <2>0, <2>2, <3>1, <3>2
  <2>9. /\ \A k, t, r : ~(k = e.key /\ t = t0) => (Enlisted(k, t, r)' <=> Enlisted(k, t, r))
        /\ \A r : Enlisted(e.key, t0, r) <=> RegAt(e, t0, at, r)
        /\ \A r : Enlisted(e.key, t0, r)' <=> RegAt(e, t0, at + 1, r)
    <3>1. \A k, t, r : Enlisted(k, t, r) <=>
              IF k = e.key THEN RegAt(e, t, Place(t), r)
                  ELSE r # <<>> /\ r = StrategyOf(cached[k], t)
      BY <2>0, <2>4 DEF Enlisted
    <3>2. \A k, t, r : Enlisted(k, t, r)' <=>
              IF k = e.key THEN RegAt(e, t, Place(t)', r)
                  ELSE r # <<>> /\ r = StrategyOf(cached[k], t)
      BY <2>1, <2>2, <2>4 DEF Enlisted
    <3> QED BY <2>0, <2>2, <3>1, <3>2
  <2>10. ASSUME ctl'.ops # <<>>, Head(ctl'.ops).op = "count"
         PROVE  o.op = "send" /\ Head(ctl'.ops).arg = o.arg
    <3> DEFINE o2 == Head(ctl'.ops)
    <3>1. at + 1 \in 1..Len(Operations(e, t0)) /\ o2 = Operations(e, t0)[at + 1]
      BY <2>2, <2>10
    <3>2. Operations(e, t0)[(at + 1) - 1] = Op("send", o2.arg)
      BY <2>2, <2>10, <3>1, HasSteps
    <3>3. (at + 1) - 1 = at
      BY <2>2
    <3> HIDE DEF o2
    <3>4. o = Op("send", o2.arg)
      BY <2>2, <3>2, <3>3
    <3> QED BY <3>4, OpArgs DEF o2
  <2>11. Strategy = Entry(e.key, t0, o.arg)
    BY <2>0 DEF Strategy, Entry, Arg
  <2>12. /\ o.op \in {"send", "count", "uncount"} => o.arg \in Metrics
         /\ o.op \in {"register", "unregister"} => o.arg \in Seq(Rules)
    BY <2>2, OpArgs
  <2>13. o.op \notin {"count", "uncount"} /\ metricMap' = metricMap => CountsInv'
    <3> SUFFICES ASSUME o.op \notin {"count", "uncount"}, metricMap' = metricMap PROVE CountsInv'
      OBVIOUS
    <3>1. \A k, t, i, m : Holds(k, t, i, m)' <=> Holds(k, t, i, m)
      <4> QED BY <2>3, <2>8
    <3> QED BY <3>1, SameHolds, SameCounts
  <2>14. o.op \notin {"register", "unregister"} /\ registered' = registered => RegisteredInv'
    <3> SUFFICES ASSUME o.op \notin {"register", "unregister"}, registered' = registered
                 PROVE  RegisteredInv'
      OBVIOUS
    <3>1. \A k, t, r : Enlisted(k, t, r)' <=> Enlisted(k, t, r)
      <4> QED BY <2>3, <2>9
    <3> QED BY <3>1, SameRegistered
  <2>15. o.op \notin {"send"} /\ UNCHANGED <<metrics, metricMap>> => KeysInv'
    BY <2>10 DEF KeysInv
  <2>16. CASE AddStrategy
    <3>1. /\ o.op = "register" /\ UNCHANGED <<metrics, metricMap>>
          /\ registered' = IF t0 \in Enforceable THEN registered \cup {Strategy} ELSE registered
      BY <2>0, <2>1, <2>16 DEF AddStrategy
    <3>2. o.arg # <<>>
      BY <2>2, <2>3, <2>6, <3>1 DEF Goes, StrategyOf, ValidPolicies, SpecOrNone
    <3>3. ASSUME NEW r PROVE ~Enlisted(e.key, t0, r) /\ (Enlisted(e.key, t0, r)' <=> r = o.arg)
      BY <2>3, <2>9, <3>1, <3>2
    <3>4. ASSUME NEW s \in registered'
          PROVE  \E k \in Keys, t \in Enforceable, r \in Seq(Rules) :
                     s = Entry(k, t, r) /\ Enlisted(k, t, r)'
      <4>1. CASE s \in registered
        <5>1. PICK k \in Keys, t \in Enforceable, r \in Seq(Rules) :
                       s = Entry(k, t, r) /\ Enlisted(k, t, r)
          BY <4>1 DEF RegisteredInv
        <5>2. Enlisted(k, t, r)'
          BY <2>9, <3>3, <5>1
        <5> QED BY <5>1, <5>2
      <4>2. CASE s \notin registered
        <5>1. s = Entry(e.key, t0, o.arg) /\ t0 \in Enforceable
          BY <2>11, <3>1, <3>4, <4>2
        <5> QED BY <2>6, <2>12, <3>1, <3>3, <5>1
      <4> QED BY <4>1, <4>2
    <3>5. ASSUME NEW k \in Keys, NEW t \in Enforceable, NEW r \in Seq(Rules), Enlisted(k, t, r)'
          PROVE  Entry(k, t, r) \in registered'
      <4>1. CASE k = e.key /\ t = t0
        BY <2>11, <3>1, <3>3, <3>5, <4>1
      <4>2. CASE ~(k = e.key /\ t = t0)
        <5>1. Entry(k, t, r) \in registered
          BY <2>9, <3>5, <4>2 DEF RegisteredInv
        <5> QED BY <3>1, <5>1
      <4> QED BY <4>1, <4>2
    <3>6. RegisteredInv'
      BY <3>4, <3>5 DEF RegisteredInv, Entry
    <3> QED BY <1>0, <2>2, <2>5, <2>13, <2>15, <3>1, <3>6
  <2>17. CASE RemoveStrategy
    <3>1. /\ o.op = "unregister" /\ UNCHANGED <<metrics, metricMap>>
          /\ registered' = IF o.arg # <<>> THEN registered \ {Strategy} ELSE registered
      BY <2>1, <2>17 DEF RemoveStrategy
    <3>2. ASSUME NEW r PROVE /\ Enlisted(e.key, t0, r) => r = o.arg /\ r # <<>>
                             /\ ~Enlisted(e.key, t0, r)'
      BY <2>3, <2>9, <3>1 DEF RegAt
    <3>3. ASSUME NEW s \in registered'
          PROVE  \E k \in Keys, t \in Enforceable, r \in Seq(Rules) :
                     s = Entry(k, t, r) /\ Enlisted(k, t, r)'
      <4>1. PICK k \in Keys, t \in Enforceable, r \in Seq(Rules) :
                     s = Entry(k, t, r) /\ Enlisted(k, t, r)
        BY <3>1 DEF RegisteredInv
      <4>2. ~(k = e.key /\ t = t0)
        <5> SUFFICES ASSUME k = e.key, t = t0 PROVE FALSE
          OBVIOUS
        <5>1. r = o.arg /\ r # <<>>
          BY <3>2, <4>1
        <5>2. s = Strategy
          BY <2>11, <4>1, <5>1
        <5> QED BY <3>1, <3>3, <5>1, <5>2
      <4>3. Enlisted(k, t, r)'
        BY <2>9, <4>1, <4>2
      <4> QED BY <4>1, <4>3
    <3>4. ASSUME NEW k \in Keys, NEW t \in Enforceable, NEW r \in Seq(Rules), Enlisted(k, t, r)'
          PROVE  Entry(k, t, r) \in registered'
      <4>1. ~(k = e.key /\ t = t0)
        BY <3>2, <3>4
      <4>2. Entry(k, t, r) \in registered
        BY <2>9, <3>4, <4>1 DEF RegisteredInv
      <4>3. Entry(k, t, r) # Strategy
        <5>1. Entry(k, t, r).type = t /\ Entry(k, t, r).name = NameOf[k]
          BY DEF Entry
        <5>2. Strategy.type = t0 /\ Strategy.name = NameOf[e.key]
          BY <2>11 DEF Entry
        <5> QED BY <2>6, <4>1, <5>1, <5>2 DEF ValidPolicies
      <4> QED BY <3>1, <4>2, <4>3
    <3>5. RegisteredInv'
      BY <3>3, <3>4 DEF RegisteredInv, Entry
    <3> QED BY <1>0, <2>2, <2>5, <2>13, <2>15, <3>1, <3>5
  <2>18. CASE SendNil
    <3>1. o.op = "send" /\ UNCHANGED <<registered, metricMap>> /\ metrics' = Write(o.arg, Nil)
      BY <2>1, <2>18 DEF SendNil
    <3>2. metrics'[o.arg] # None /\ \A m \in Metrics : metrics[m] # None => metrics'[m] # None
      BY <2>12, <3>1, TasAssumption DEF Write, CacheInv, Shapes
    <3>3. KeysInv'
      BY <2>10, <3>1, <3>2 DEF KeysInv, CacheInv, Shapes
    <3> QED BY <1>0, <2>2, <2>5, <2>13, <2>14, <3>1, <3>3
  <2>19. CASE CountUser
    <3>1. o.op = "count" /\ UNCHANGED <<registered, metrics>> /\ metricMap' = Counted(o.arg)
              /\ o.arg \in Metrics
      BY <2>1, <2>12, <2>19 DEF CountUser
    <3>2. PICK n \in Nat :
              /\ ~Has(e, t0, at, n, o.arg)
              /\ \A i, m : Has(e, t0, at + 1, i, m) <=> Has(e, t0, at, i, m) \/ (i = n /\ m = o.arg)
      BY <2>3, <3>1
    <3> DEFINE x == <<e.key, t0, n>>
    <3>3. x \in Keys \X StrategyTypes \X Nat /\ x[1] = e.key /\ x[2] = t0 /\ x[3] = n
      BY <2>6, <2>7
    <3>4. x \notin CountedFor(o.arg)
      BY <2>8, <3>2, <3>3 DEF CountedFor
    <3>5. \A k \in Keys, t \in StrategyTypes, i \in Nat, m \in Metrics :
             Holds(k, t, i, m)' <=> Holds(k, t, i, m) \/ (m = o.arg /\ k = e.key /\ t = t0 /\ i = n)
      BY <2>8, <3>2
    <3>6. \A m \in Metrics : m # o.arg => CountedFor(m)' = CountedFor(m)
      BY <3>5 DEF CountedFor
    <3>7. CountedFor(o.arg)' = CountedFor(o.arg) \cup {x}
      <4>1. ASSUME NEW y \in Keys \X StrategyTypes \X Nat
            PROVE  y \in CountedFor(o.arg)' <=> y \in CountedFor(o.arg) \/ y = x
        <5>1. y[1] \in Keys /\ y[2] \in StrategyTypes /\ y[3] \in Nat /\ y = <<y[1], y[2], y[3]>>
          OBVIOUS
        <5>2. y = x <=> y[1] = e.key /\ y[2] = t0 /\ y[3] = n
          BY <5>1
        <5>3. Holds(y[1], y[2], y[3], o.arg)' <=>
                  Holds(y[1], y[2], y[3], o.arg) \/ (y[1] = e.key /\ y[2] = t0 /\ y[3] = n)
          BY <3>1, <3>5, <5>1
        <5>4. y \in CountedFor(o.arg) <=> Holds(y[1], y[2], y[3], o.arg)
          BY DEF CountedFor
        <5>5. y \in CountedFor(o.arg)' <=> Holds(y[1], y[2], y[3], o.arg)'
          BY <3>1 DEF CountedFor
        <5> QED BY <5>2, <5>3, <5>4, <5>5
      <4>2. CountedFor(o.arg) \subseteq Keys \X StrategyTypes \X Nat
                /\ CountedFor(o.arg)' \subseteq Keys \X StrategyTypes \X Nat
        BY DEF CountedFor
      <4> QED BY <3>3, <4>1, <4>2
    <3> HIDE DEF x
    <3>8. IsFiniteSet(CountedFor(o.arg)) /\ IsFiniteSet(CountedFor(o.arg)')
          /\ Cardinality(CountedFor(o.arg)') = Cardinality(CountedFor(o.arg)) + 1
      BY <3>1, <3>4, <3>7, FS_AddElement DEF CountsInv
    <3>9. /\ DOMAIN metricMap' = DOMAIN metricMap \cup {o.arg}
          /\ \A m \in DOMAIN metricMap' : m # o.arg => metricMap'[m] = metricMap[m]
          /\ metricMap'[o.arg] = IF o.arg \in DOMAIN metricMap THEN metricMap[o.arg] + 1 ELSE 1
      BY <3>1 DEF Counted
    <3>10. metricMap'[o.arg] = Cardinality(CountedFor(o.arg)')
      BY <3>1, <3>8, <3>9, FS_EmptySet DEF CountsInv
    <3>11. CountsInv'
      <4> SUFFICES ASSUME NEW m \in Metrics
                   PROVE  /\ IsFiniteSet(CountedFor(m)')
                          /\ m \in DOMAIN metricMap' <=> CountedFor(m)' # {}
                          /\ m \in DOMAIN metricMap' => metricMap'[m] = Cardinality(CountedFor(m)')
        BY DEF CountsInv
      <4>1. CASE m = o.arg
        BY <3>7, <3>8, <3>9, <3>10, <4>1
      <4>2. CASE m # o.arg
        BY <3>6, <3>9, <4>2 DEF CountsInv
      <4> QED BY <4>1, <4>2
    <3>12. KeysInv'
      <4>1. metrics[o.arg] # None
        BY <2>0, <2>1, <3>1 DEF KeysInv
      <4>2. \A m \in DOMAIN metricMap' : metrics'[m] # None
        BY <3>1, <3>9, <4>1 DEF KeysInv
      <4> QED BY <2>10, <3>1, <4>2 DEF KeysInv
    <3> QED BY <1>0, <2>2, <2>5, <2>14, <3>1, <3>11, <3>12
  <2>20. CASE UncountUser
    <3>1. /\ o.op = "uncount" /\ UNCHANGED <<registered>> /\ o.arg \in Metrics
          /\ metricMap' = Uncounted(o.arg)
          /\ metrics' = IF Users(o.arg) = 1 THEN [metrics EXCEPT ![o.arg] = None] ELSE metrics
      BY <2>1, <2>12, <2>20 DEF UncountUser, DeleteMetric
    <3> DEFINE n == at - 1
    <3>2. /\ n \in Nat /\ Has(e, t0, at, n, o.arg)
          /\ \A i, m : Has(e, t0, at + 1, i, m) <=> Has(e, t0, at, i, m) /\ ~(i = n /\ m = o.arg)
      BY <2>3, <3>1
    <3> HIDE DEF n
    <3> DEFINE x == <<e.key, t0, n>>
    <3>3. x \in Keys \X StrategyTypes \X Nat /\ x[1] = e.key /\ x[2] = t0 /\ x[3] = n
      BY <2>6, <2>7, <3>2
    <3>4. x \in CountedFor(o.arg)
      BY <2>8, <3>2, <3>3 DEF CountedFor
    <3>5. \A k \in Keys, t \in StrategyTypes, i \in Nat, m \in Metrics :
             Holds(k, t, i, m)' <=> Holds(k, t, i, m)
                 /\ ~(m = o.arg /\ k = e.key /\ t = t0 /\ i = n)
      BY <2>8, <3>2
    <3>6. \A m \in Metrics : m # o.arg => CountedFor(m)' = CountedFor(m)
      BY <3>5 DEF CountedFor
    <3>7. CountedFor(o.arg)' = CountedFor(o.arg) \ {x}
      <4>1. ASSUME NEW y \in Keys \X StrategyTypes \X Nat
            PROVE  y \in CountedFor(o.arg)' <=> y \in CountedFor(o.arg) /\ y # x
        <5>1. y[1] \in Keys /\ y[2] \in StrategyTypes /\ y[3] \in Nat /\ y = <<y[1], y[2], y[3]>>
          OBVIOUS
        <5>2. y = x <=> y[1] = e.key /\ y[2] = t0 /\ y[3] = n
          BY <5>1
        <5>3. Holds(y[1], y[2], y[3], o.arg)' <=>
                  Holds(y[1], y[2], y[3], o.arg) /\ ~(y[1] = e.key /\ y[2] = t0 /\ y[3] = n)
          BY <3>1, <3>5, <5>1
        <5>4. y \in CountedFor(o.arg) <=> Holds(y[1], y[2], y[3], o.arg)
          BY DEF CountedFor
        <5>5. y \in CountedFor(o.arg)' <=> Holds(y[1], y[2], y[3], o.arg)'
          BY <3>1 DEF CountedFor
        <5> QED BY <5>2, <5>3, <5>4, <5>5
      <4>2. CountedFor(o.arg) \subseteq Keys \X StrategyTypes \X Nat
                /\ CountedFor(o.arg)' \subseteq Keys \X StrategyTypes \X Nat
        BY DEF CountedFor
      <4> QED BY <3>3, <4>1, <4>2
    <3> HIDE DEF x
    <3>8. /\ IsFiniteSet(CountedFor(o.arg)) /\ IsFiniteSet(CountedFor(o.arg)')
          /\ Cardinality(CountedFor(o.arg)') = Cardinality(CountedFor(o.arg)) - 1
          /\ Cardinality(CountedFor(o.arg)) \in Nat
      BY <3>1, <3>4, <3>7, FS_RemoveElement, FS_CardinalityType DEF CountsInv
    <3>9. o.arg \in DOMAIN metricMap /\ Users(o.arg) = Cardinality(CountedFor(o.arg))
      BY <3>1, <3>4 DEF CountsInv, Users
    <3>10. CountedFor(o.arg)' = {} <=> Users(o.arg) = 1
      BY <3>8, <3>9, FS_EmptySet
    <3>11. /\ DOMAIN metricMap' = IF Users(o.arg) = 1 THEN DOMAIN metricMap \ {o.arg}
                ELSE DOMAIN metricMap
           /\ \A m \in DOMAIN metricMap' : metricMap'[m] = IF m = o.arg THEN Users(o.arg) - 1
                ELSE metricMap[m]
      BY <3>1, <3>9 DEF Uncounted
    <3>12. CountsInv'
      <4> SUFFICES ASSUME NEW m \in Metrics
                   PROVE  /\ IsFiniteSet(CountedFor(m)')
                          /\ m \in DOMAIN metricMap' <=> CountedFor(m)' # {}
                          /\ m \in DOMAIN metricMap' => metricMap'[m] = Cardinality(CountedFor(m)')
        BY DEF CountsInv
      <4>1. CASE m = o.arg
        BY <3>8, <3>9, <3>10, <3>11, <4>1
      <4>2. CASE m # o.arg
        BY <3>6, <3>11, <4>2 DEF CountsInv
      <4> QED BY <4>1, <4>2
    <3>13. KeysInv'
      <4>1. \A m \in DOMAIN metricMap' : m \in DOMAIN metricMap /\ metrics'[m] = metrics[m]
        BY <3>1, <3>11 DEF CacheInv, Shapes
      <4>2. ~(Running' /\ ctl'.ops # <<>> /\ Head(ctl'.ops).op = "count")
        BY <2>10, <3>1
      <4> QED BY <4>1, <4>2 DEF KeysInv
    <3> QED BY <1>0, <2>2, <2>5, <2>14, <3>1, <3>12, <3>13
  <2> QED BY <1>12, <2>16, <2>17, <2>18, <2>19, <2>20
<1> QED BY <1>3, <1>4, <1>6, <1>7, <1>8, <1>9, <1>10, <1>11, <1>12 DEF Next, Controller, Updater

-----------------------------------------------------------------------------
(* Results *)

\* IInv is an invariant.
LEMMA Invariant ==
    ASSUME ValidPolicies
    PROVE  Spec /\ []TypesKept => []IInv
<1>1. IInv /\ TypesKept /\ [Next]_vars => IInv'
  BY StepIInv
<1> QED BY InitIInv, <1>1, PTL DEF Spec

\* TypeOK: with valid policies whose updates keep their strategies, every count of
\* the metric map stays positive (DeleteMetric never meets a metric that is not
\* counted) and the registry holds enforceable strategies of known policies only.
THEOREM TypesCorrect ==
    ASSUME ValidPolicies
    PROVE  Spec /\ []TypesKept => []TypeOK
<1>1. ASSUME IInv PROVE TypeOK
  <2> USE <1>1 DEF IInv, CacheInv
  <2>1. \A m \in DOMAIN metricMap : metricMap[m] \in Nat \ {0}
    <3> TAKE m \in DOMAIN metricMap
    <3>1. m \in Metrics /\ IsFiniteSet(CountedFor(m)) /\ CountedFor(m) # {}
              /\ metricMap[m] = Cardinality(CountedFor(m))
      BY DEF Shapes, CountsInv
    <3> QED BY <3>1, FS_EmptySet, FS_CardinalityType
  <2>2. registered \subseteq Strategies
    BY DEF RegisteredInv, Entry, Strategies
  <2>3. pass \subseteq Metrics /\ mtx \in {Free, "updater"}
    BY DEF UpdaterInv, Shapes
  <2> QED BY <2>1, <2>2, <2>3 DEF TypeOK, Shapes, SpecOrNone
<1> QED BY <1>1, Invariant, PTL

\* UsedMetricKept: a metric that a settled policy uses stays in the metric map and in
\* the cache, whatever handlers of other policies do with the rules they share.
THEOREM UsedMetricsKept ==
    ASSUME ValidPolicies
    PROVE  Spec /\ []TypesKept => []UsedMetricKept
<1>1. ASSUME IInv PROVE UsedMetricKept
  <2> SUFFICES ASSUME NEW k \in Keys, Settled(k), NEW m \in MetricsOf(cached[k])
               PROVE  m \in DOMAIN metricMap /\ metrics[m] # None
    BY DEF UsedMetricKept
  <2> USE <1>1 DEF IInv, CacheInv
  <2>1. cached[k] \in Specs /\ DOMAIN cached[k] \subseteq StrategyTypes /\ ~Busy(k)
    BY DEF Settled, Busy, Running, Shapes, SpecOrNone
  <2>2a. PICK t \in DOMAIN cached[k] : \E r \in ToSet(StrategyOf(cached[k], t)) : m = MetricOf[r]
    BY DEF MetricsOf
  <2>2. PICK i \in DOMAIN StrategyOf(cached[k], t) : m = MetricOf[StrategyOf(cached[k], t)[i]]
    BY <2>2a DEF ToSet
  <2>3. StrategyOf(cached[k], t) \in Seq(Rules)
    BY <2>1, StrategyTyped DEF SpecOrNone
  <2>4. i \in Nat /\ m \in Metrics
    BY <2>2, <2>3, TasAssumption
  <2>5. Holds(k, t, i, m)
    BY <2>1, <2>2 DEF Holds, Use
  <2>6. <<k, t, i>> \in CountedFor(m)
    BY <2>1, <2>4, <2>5 DEF CountedFor
  <2>7. m \in DOMAIN metricMap
    BY <2>4, <2>6 DEF CountsInv
  <2> QED BY <2>7 DEF KeysInv
<1> QED BY <1>1, Invariant, PTL

\* RegistrationsExact: between two handlers the counts of WriteMetric and
\* DeleteMetric add up to the rules of the cached policies, and AddStrategy and
\* RemoveStrategy have left exactly their enforceable strategies.
THEOREM RegistrationsAreExact ==
    ASSUME ValidPolicies
    PROVE  Spec /\ []TypesKept => []RegistrationsExact
<1>1. ASSUME IInv, ctl = Idle PROVE RegistrationsExact
  <2> USE <1>1 DEF IInv, CacheInv
  <2>1. \A k \in Keys : ~Busy(k)
    BY DEF Busy, Running
  <2>2. ASSUME NEW k \in Keys
        PROVE  /\ cached[k] = None \/ cached[k] \in Specs
               /\ cached[k] # None => DOMAIN cached[k] \subseteq StrategyTypes
    BY DEF Shapes, SpecOrNone, ValidPolicies
  <2>3. ASSUME NEW m \in Metrics PROVE Users(m) = Cardinality(Uses(m))
    <3>1. ASSUME NEW x \in CountedFor(m) PROVE x \in Uses(m)
      <4>1. /\ x \in Keys \X StrategyTypes \X Nat /\ Use(StrategyOf(cached[x[1]], x[2]), x[3], m)
        BY <2>1, <3>1 DEF CountedFor, Holds
      <4>2. x[1] \in Keys /\ x = <<x[1], x[2], x[3]>>
        BY <4>1
      <4>3. cached[x[1]] # None /\ x[2] \in DOMAIN cached[x[1]] /\ Use(cached[x[1]][x[2]], x[3], m)
        BY <4>1 DEF StrategyOf, Use
      <4>4. x \in UsesIn(x[1], x[2], m)
        BY <4>2, <4>3 DEF UsesIn, Use
      <4> QED BY <4>2, <4>3, <4>4 DEF Uses
    <3>2. ASSUME NEW x \in Uses(m) PROVE x \in CountedFor(m)
      <4>1. PICK k \in Keys : cached[k] # None /\ \E t \in DOMAIN cached[k] : x \in UsesIn(k, t, m)
        BY <3>2 DEF Uses
      <4>2. PICK t \in DOMAIN cached[k] : x \in UsesIn(k, t, m)
        BY <4>1
      <4>3. PICK i \in DOMAIN cached[k][t] : x = <<k, t, i>> /\ MetricOf[cached[k][t][i]] = m
        BY <4>2 DEF UsesIn
      <4>4. cached[k][t] \in Seq(Rules) /\ t \in StrategyTypes
        BY <2>2, <4>1, TasAssumption
      <4>5. i \in Nat
        BY <4>3, <4>4
      <4>6. Use(StrategyOf(cached[k], t), i, m)
        BY <4>1, <4>3 DEF Use, StrategyOf
      <4> QED BY <2>1, <4>3, <4>4, <4>5, <4>6 DEF CountedFor, Holds
    <3>3. CountedFor(m) = Uses(m)
      BY <3>1, <3>2
    <3> QED BY <3>3, FS_EmptySet DEF CountsInv, Users
  <2>4. ASSUME NEW s \in registered PROVE s \in Enforced
    <3>1. PICK k \in Keys, t \in Enforceable, r \in Seq(Rules) :
                   s = Entry(k, t, r) /\ Enlisted(k, t, r)
      BY DEF RegisteredInv
    <3>2. r # <<>> /\ r = StrategyOf(cached[k], t)
      BY <2>1, <3>1 DEF Enlisted
    <3>3. cached[k] # None /\ t \in DOMAIN cached[k] /\ r = cached[k][t]
      BY <3>2 DEF StrategyOf
    <3> QED BY <3>1, <3>3 DEF Enforced, Entry
  <2>5. ASSUME NEW s \in Enforced PROVE s \in registered
    <3>1. PICK k \in Keys : cached[k] # None /\ \E t \in DOMAIN cached[k] \cap Enforceable :
                   s = Entry(k, t, cached[k][t])
      BY DEF Enforced, Entry
    <3>2. PICK t \in DOMAIN cached[k] \cap Enforceable : s = Entry(k, t, cached[k][t])
      BY <3>1
    <3>3. cached[k][t] \in Seq(Rules) /\ cached[k][t] # <<>>
      BY <2>2, <3>1, TasAssumption DEF ValidPolicies
    <3>4. Enlisted(k, t, cached[k][t])
      BY <2>1, <3>1, <3>3 DEF Enlisted, StrategyOf
    <3> QED BY <3>2, <3>3, <3>4 DEF RegisteredInv
  <2> QED BY <2>3, <2>4, <2>5 DEF RegistrationsExact
<1>2. IInv => RegistrationsExact
  BY <1>1 DEF RegistrationsExact
<1> QED BY <1>2, Invariant, PTL
=============================================================================
