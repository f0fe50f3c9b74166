-------------------------- MODULE Configurator_proofs --------------------------
(***************************************************************************)
(* Theorems about Configurator, for every set of manifests, templates and  *)
(* invocations, and every number of runs, failures and changes.            *)
(***************************************************************************)
EXTENDS Configurator, DataFacts

-----------------------------------------------------------------------------
(* What SetCommand and SetVolumes compute.  Each is a loop over a sequence: *)
(* g has what the loop has collected after each of its rounds.              *)

ArgsTaken == [skipNext : BOOLEAN, kept : Seq(Args)]

ArgsBody(command, h, s) ==
    IF s = {} THEN NoArgs ELSE TakeArg(h[s \ {Max(s)}], command[Max(s)])
ArgsLoop(command, n, h) == h = [s \in SUBSET (1..n) |-> ArgsBody(command, h, s)]

LEMMA CommandUnfold ==
    ASSUME NEW command, NEW n \in Nat, DOMAIN command = 1..n
    PROVE  SetCommand(command) =
               Append((CHOOSE h : ArgsLoop(command, n, h))[1..n].kept, ConfigArg)
BY DEF SetCommand, FoldLeft, MapThenFoldSet, ArgsLoop, ArgsBody

\* A round collects arguments.
LEMMA TakeArgType ==
    ASSUME NEW acc \in ArgsTaken, NEW a \in Args
    PROVE  TakeArg(acc, a) \in ArgsTaken
<1>1. acc.kept \in Seq(Args) /\ Append(acc.kept, a) \in Seq(Args)
  BY DEF ArgsTaken
<1>2. (~a.equals) \in BOOLEAN
  OBVIOUS
<1>3. CASE acc.skipNext
  BY <1>3 DEF TakeArg, ArgsTaken
<1>4. CASE ~acc.skipNext /\ a.name \in Dropped
  <2>1. PICK b \in BOOLEAN : b = ~a.equals
    BY <1>2
  <2>2. TakeArg(acc, a) = [acc EXCEPT !.skipNext = b]
    BY <1>4, <2>1 DEF TakeArg
  <2>3. QED BY <2>2 DEF ArgsTaken
<1>5. CASE ~acc.skipNext /\ a.name \notin Dropped
  BY <1>1, <1>5 DEF TakeArg, ArgsTaken
<1>6. QED BY <1>3, <1>4, <1>5

LEMMA CommandLoop ==
    ASSUME NEW command \in Seq(Args), NEW n \in Nat, n = Len(command)
    PROVE  \E g : /\ g[0] = NoArgs
                  /\ \A m \in 1..n : g[m] = TakeArg(g[m - 1], command[m])
                  /\ SetCommand(command) = Append(g[n].kept, ConfigArg)
<1> DEFINE T == [i \in 1..n |-> [acc \in ArgsTaken |-> TakeArg(acc, command[i])]]
<1>1. T \in [1..n -> [ArgsTaken -> ArgsTaken]]
  BY TakeArgType
<1>2. NoArgs \in ArgsTaken
  BY DEF NoArgs, ArgsTaken
<1>3. \A i \in 1..n : \A acc \in ArgsTaken : T[i][acc] = TakeArg(acc, command[i])
  OBVIOUS
<1>4. \E h : ArgsLoop(command, n, h)
  <2> HIDE DEF T
  <2>1. PICK h : Folds(ArgsTaken, T, NoArgs, n, h)
    BY <1>1, <1>2, FoldExists
  <2>2. h \in [SUBSET (1..n) -> ArgsTaken]
        /\ \A s \in SUBSET (1..n) : h[s] = FoldBody(T, NoArgs, h, s)
    BY <2>1 DEF Folds
  <2>3. ASSUME NEW s \in SUBSET (1..n) PROVE h[s] = ArgsBody(command, h, s)
    <3>1. CASE s = {}
      BY <2>2, <3>1 DEF FoldBody, ArgsBody
    <3>2. CASE s # {}
      <4>1. Max(s) \in 1..n
        BY <3>2, MaxIsIn
      <4>2. h[s \ {Max(s)}] \in ArgsTaken
        BY <2>2
      <4>3. QED BY <1>3, <2>2, <3>2, <4>1, <4>2 DEF FoldBody, ArgsBody
    <3>3. QED BY <3>1, <3>2
  <2>4. h = [s \in SUBSET (1..n) |-> ArgsBody(command, h, s)]
    BY <2>2, <2>3
  <2>5. QED BY <2>4 DEF ArgsLoop
<1>5. PICK h : h = CHOOSE x : ArgsLoop(command, n, x)
  OBVIOUS
<1>6. h = [s \in SUBSET (1..n) |-> ArgsBody(command, h, s)]
  BY <1>4, <1>5 DEF ArgsLoop
<1>7. \A s \in SUBSET (1..n) : h[s] = ArgsBody(command, h, s)
  <2> DEFINE k == [s \in SUBSET (1..n) |-> ArgsBody(command, h, s)]
  <2>1. \A s \in SUBSET (1..n) : k[s] = ArgsBody(command, h, s)
    OBVIOUS
  <2> HIDE DEF k
  <2>2. h = k
    BY <1>6 DEF k
  <2>3. QED BY <2>1, <2>2
<1> DEFINE g == [m \in 0..n |-> h[1..m]]
<1>8. g[0] = NoArgs
  <2>1. 1..0 = {} /\ 1..0 \in SUBSET (1..n)
    OBVIOUS
  <2>2. h[1..0] = NoArgs
    BY <1>7, <2>1 DEF ArgsBody
  <2>3. 0 \in 0..n
    OBVIOUS
  <2>4. QED BY <2>2, <2>3
<1>9. ASSUME NEW m \in 1..n PROVE g[m] = TakeArg(g[m - 1], command[m])
  <2>1. Max(1..m) = m /\ (1..m) \ {m} = 1..(m - 1) /\ 1..m # {}
    BY LastIndex
  <2>2. 1..m \in SUBSET (1..n) /\ m - 1 \in 0..n
    OBVIOUS
  <2>3. h[1..m] = TakeArg(h[1..(m - 1)], command[m])
    BY <1>7, <2>1, <2>2 DEF ArgsBody
  <2>4. QED BY <2>2, <2>3
<1>10. SetCommand(command) = Append(g[n].kept, ConfigArg)
  <2>1. SetCommand(command) = Append(h[1..n].kept, ConfigArg)
    BY <1>5, CommandUnfold, DOMAIN command = 1..n
  <2>2. QED BY <2>1
<1> HIDE DEF g
<1>11. QED BY <1>8, <1>9, <1>10

\* The name of an argument that is the value of a dropped flag.
Bare(a) == a.name \in Dropped /\ ~a.equals

\* Every dropped flag has its value: with it, or in the argument that follows; and
\* "value" is the name of no other argument.
ArgsWhole(command) ==
    \A k \in DOMAIN command : command[k].name = "value" <=> k > 1 /\ Bare(command[k - 1])

\* SetCommand drops all of the old flags, and their values.
LEMMA CommandSet ==
    ASSUME NEW command \in Seq(Args)
    PROVE  \E kept \in Seq(Args) :
              /\ SetCommand(command) = Append(kept, ConfigArg)
              /\ \A k \in DOMAIN kept : kept[k].name \notin Dropped
              /\ ArgsWhole(command) => \A k \in DOMAIN kept : kept[k].name # "value"
<1>1. PICK n \in Nat : n = Len(command)
  OBVIOUS
<1>2. PICK g : /\ g[0] = NoArgs
               /\ \A m \in 1..n : g[m] = TakeArg(g[m - 1], command[m])
               /\ SetCommand(command) = Append(g[n].kept, ConfigArg)
  BY <1>1, CommandLoop
<1> DEFINE Good(m) ==
        /\ g[m] \in ArgsTaken
        /\ \A k \in DOMAIN g[m].kept : g[m].kept[k].name \notin Dropped
        /\ ArgsWhole(command) =>
              /\ g[m].skipNext <=> m > 0 /\ Bare(command[m])
              /\ \A k \in DOMAIN g[m].kept : g[m].kept[k].name # "value"
<1>3. Good(0)
  BY <1>2 DEF NoArgs, ArgsTaken
<1>4. ASSUME NEW m \in 1..n, Good(m - 1) PROVE Good(m)
  <2>1. PICK acc : acc = g[m - 1]
    OBVIOUS
  <2>2. PICK a \in Args : a = command[m]
    BY <1>1
  <2>3. g[m] = TakeArg(acc, a) /\ acc \in ArgsTaken
    BY <1>2, <1>4, <2>1, <2>2
  <2>4. g[m] \in ArgsTaken
    BY <2>3, TakeArgType
  <2>5. CASE acc.skipNext
    <3>1. g[m].kept = acc.kept /\ ~g[m].skipNext
      BY <2>3, <2>5 DEF TakeArg, ArgsTaken
    <3>2. ASSUME ArgsWhole(command) PROVE ~Bare(command[m])
      <4>1. m > 1 /\ Bare(command[m - 1]) /\ m \in DOMAIN command
        BY <1>1, <1>4, <2>1, <2>5, <3>2
      <4>2. command[m].name = "value"
        BY <3>2, <4>1 DEF ArgsWhole
      <4>3. QED BY <4>2 DEF Bare, Dropped
    <3>3. QED BY <1>4, <2>1, <2>4, <3>1, <3>2
  <2>6. CASE ~acc.skipNext /\ a.name \in Dropped
    <3>1. g[m].kept = acc.kept /\ (g[m].skipNext <=> ~a.equals)
      BY <2>3, <2>6 DEF TakeArg, ArgsTaken
    <3>2. Bare(command[m]) <=> ~a.equals
      BY <2>2, <2>6 DEF Bare
    <3>3. QED BY <1>4, <2>1, <2>4, <3>1, <3>2
  <2>7. CASE ~acc.skipNext /\ a.name \notin Dropped
    <3>1. g[m].kept = Append(acc.kept, a) /\ ~g[m].skipNext /\ acc.kept \in Seq(Args)
      BY <2>3, <2>7 DEF TakeArg, ArgsTaken
    <3>2. ~Bare(command[m])
      BY <2>2, <2>7 DEF Bare
    <3>3. ASSUME ArgsWhole(command) PROVE a.name # "value"
      <4>1. m \in DOMAIN command /\ ~(m > 1 /\ Bare(command[m - 1]))
        BY <1>1, <1>4, <2>1, <2>7, <3>3
      <4>2. QED BY <2>2, <3>3, <4>1 DEF ArgsWhole
    <3>4. \A k \in DOMAIN g[m].kept : g[m].kept[k] = a \/ \E x \in DOMAIN acc.kept :
              g[m].kept[k] = acc.kept[x]
      BY <3>1
    <3>5. QED BY <1>4, <2>1, <2>4, <2>7, <3>1, <3>2, <3>3, <3>4
  <2>8. QED BY <2>5, <2>6, <2>7
<1> HIDE DEF Good
<1>5. Good(n)
  <2> DEFINE G == {m \in 0..n : Good(m)}
  <2>1. 0 \in G /\ \A m \in 1..n : m - 1 \in G => m \in G
    BY <1>3, <1>4
  <2> HIDE DEF G
  <2>2. \A m \in 0..n : m \in G
    BY <2>1, EveryRound, Zenon
  <2>3. n \in 0..n
    OBVIOUS
  <2>4. QED BY <2>2, <2>3 DEF G
<1>6. g[n].kept \in Seq(Args)
  BY <1>5 DEF Good, ArgsTaken
<1>7. WITNESS g[n].kept \in Seq(Args)
<1>8. QED BY <1>2, <1>5 DEF Good

LEMMA ConfigArgType == ConfigArg \in Args
<1>1. PICK b \in BOOLEAN : b = TRUE
  OBVIOUS
<1>2. [name |-> "config", equals |-> b] \in Args
  BY DEF Args, Dropped
<1>3. QED BY <1>1, <1>2, Zenon DEF ConfigArg

\* SetCommand leaves a command alone that it has made.
LEMMA CommandAgain ==
    ASSUME NEW kept \in Seq(Args), \A k \in DOMAIN kept : kept[k].name \notin Dropped
    PROVE  SetCommand(Append(kept, ConfigArg)) = Append(kept, ConfigArg)
<1>1. PICK c \in Seq(Args) : c = Append(kept, ConfigArg)
  <2>1. Append(kept, ConfigArg) \in Seq(Args)
    BY ConfigArgType
  <2>2. QED BY <2>1
<1>2. PICK l \in Nat : l = Len(kept)
  OBVIOUS
<1>3. PICK n \in Nat : n = l + 1 /\ n = Len(c)
  BY <1>1, <1>2
<1>4. PICK g : /\ g[0] = NoArgs
               /\ \A m \in 1..n : g[m] = TakeArg(g[m - 1], c[m])
               /\ SetCommand(c) = Append(g[n].kept, ConfigArg)
  BY <1>3, CommandLoop
<1>5. /\ \A m \in 1..l : c[m] = kept[m] /\ kept[m] \in Args
      /\ c[n] = ConfigArg
  BY <1>1, <1>2, <1>3
<1> DEFINE Good(m) == g[m] \in ArgsTaken /\ ~g[m].skipNext /\ g[m].kept = SubSeq(kept, 1, m)
<1>6. Good(0)
  <2>1. SubSeq(kept, 1, 0) = <<>>
    OBVIOUS
  <2>2. QED BY <1>4, <2>1 DEF NoArgs, ArgsTaken
<1>7. ASSUME NEW m \in 1..l, Good(m - 1) PROVE Good(m)
  <2>1. c[m].name \notin Dropped /\ c[m] = kept[m]
    BY <1>2, <1>5
  <2>2. PICK acc \in ArgsTaken : acc = g[m - 1] /\ ~acc.skipNext
                 /\ acc.kept = SubSeq(kept, 1, m - 1)
    BY <1>7
  <2>4. PICK x \in Args : x = c[m] /\ x.name \notin Dropped /\ g[m] = TakeArg(acc, x)
    BY <1>3, <1>4, <1>5, <2>1, <2>2
  <2>5. g[m] \in ArgsTaken /\ ~g[m].skipNext /\ g[m].kept = Append(acc.kept, x)
    <3>1. g[m] \in ArgsTaken
      BY <2>4, TakeArgType
    <3>2. QED BY <2>2, <2>4, <3>1 DEF TakeArg, ArgsTaken
  <2>3. Append(SubSeq(kept, 1, m - 1), kept[m]) = SubSeq(kept, 1, m)
    BY <1>2
  <2>6. QED BY <2>1, <2>2, <2>3, <2>4, <2>5
<1> HIDE DEF Good
<1>8. Good(l)
  <2> DEFINE G == {m \in 0..l : Good(m)}
  <2>1. 0 \in G /\ \A m \in 1..l : m - 1 \in G => m \in G
    BY <1>6, <1>7
  <2> HIDE DEF G
  <2>2. \A m \in 0..l : m \in G
    BY <2>1, EveryRound, Zenon
  <2>3. l \in 0..l
    OBVIOUS
  <2>4. QED BY <2>2, <2>3 DEF G
<1>9. SubSeq(kept, 1, l) = kept
  BY <1>2
<1>10. g[n].kept = kept
  <2>1. PICK acc \in ArgsTaken : acc = g[l] /\ ~acc.skipNext /\ acc.kept = kept
    BY <1>8, <1>9 DEF Good
  <2>2. g[n] = TakeArg(acc, ConfigArg)
    BY <1>3, <1>4, <1>5, <2>1
  <2>3. ConfigArg.name \in Dropped
    BY DEF ConfigArg, Dropped
  <2>4. QED BY <2>1, <2>2, <2>3 DEF TakeArg, ArgsTaken
<1>11. QED BY <1>1, <1>4, <1>10

NamesBody(names, h, s) == IF s = {} THEN <<>> ELSE TakeName(h[s \ {Max(s)}], names[Max(s)])
NamesLoop(names, n, h) == h = [s \in SUBSET (1..n) |-> NamesBody(names, h, s)]

LEMMA VolumesUnfold ==
    ASSUME NEW names, NEW n \in Nat, DOMAIN names = 1..n
    PROVE  SetVolumes(names) =
               (CHOOSE h : NamesLoop(names, n, h))[1..n] \o <<SchedulerConfigID, CertDirID>>
BY DEF SetVolumes, FoldLeft, MapThenFoldSet, NamesLoop, NamesBody

\* The loop of SetVolumes, round by round.
LEMMA VolumesLoop ==
    ASSUME NEW names \in Seq(Names), NEW n \in Nat, n = Len(names)
    PROVE  \E g : /\ g[0] = <<>>
                  /\ \A m \in 1..n : g[m] = TakeName(g[m - 1], names[m])
                  /\ SetVolumes(names) = g[n] \o <<SchedulerConfigID, CertDirID>>
<1> DEFINE T == [i \in 1..n |-> [acc \in Seq(Names) |-> TakeName(acc, names[i])]]
<1>1. T \in [1..n -> [Seq(Names) -> Seq(Names)]]
  <2>1. ASSUME NEW i \in 1..n, NEW acc \in Seq(Names) PROVE TakeName(acc, names[i]) \in Seq(Names)
    BY DEF TakeName
  <2>2. QED BY <2>1
<1>2. <<>> \in Seq(Names)
  OBVIOUS
<1>3. \A i \in 1..n : \A acc \in Seq(Names) : T[i][acc] = TakeName(acc, names[i])
  OBVIOUS
<1>4. \E h : NamesLoop(names, n, h)
  <2> HIDE DEF T
  <2>1. PICK h : Folds(Seq(Names), T, <<>>, n, h)
    BY <1>1, <1>2, FoldExists
  <2>2. h \in [SUBSET (1..n) -> Seq(Names)]
        /\ \A s \in SUBSET (1..n) : h[s] = FoldBody(T, <<>>, h, s)
    BY <2>1 DEF Folds
  <2>3. ASSUME NEW s \in SUBSET (1..n) PROVE h[s] = NamesBody(names, h, s)
    <3>1. CASE s = {}
      BY <2>2, <3>1 DEF FoldBody, NamesBody
    <3>2. CASE s # {}
      <4>1. Max(s) \in 1..n
        BY <3>2, MaxIsIn
      <4>2. h[s \ {Max(s)}] \in Seq(Names)
        BY <2>2
      <4>3. QED BY <1>3, <2>2, <3>2, <4>1, <4>2 DEF FoldBody, NamesBody
    <3>3. QED BY <3>1, <3>2
  <2>4. h = [s \in SUBSET (1..n) |-> NamesBody(names, h, s)]
    BY <2>2, <2>3
  <2>5. QED BY <2>4 DEF NamesLoop
<1>5. PICK h : h = CHOOSE x : NamesLoop(names, n, x)
  OBVIOUS
<1>6. h = [s \in SUBSET (1..n) |-> NamesBody(names, h, s)]
  BY <1>4, <1>5 DEF NamesLoop
<1>7. \A s \in SUBSET (1..n) : h[s] = NamesBody(names, h, s)
  <2> DEFINE k == [s \in SUBSET (1..n) |-> NamesBody(names, h, s)]
  <2>1. \A s \in SUBSET (1..n) : k[s] = NamesBody(names, h, s)
    OBVIOUS
  <2> HIDE DEF k
  <2>2. h = k
    BY <1>6 DEF k
  <2>3. QED BY <2>1, <2>2
<1> DEFINE g == [m \in 0..n |-> h[1..m]]
<1>8. g[0] = <<>>
  <2>1. 1..0 = {} /\ 1..0 \in SUBSET (1..n)
    OBVIOUS
  <2>2. h[1..0] = <<>>
    BY <1>7, <2>1 DEF NamesBody
  <2>3. 0 \in 0..n
    OBVIOUS
  <2>4. QED BY <2>2, <2>3
<1>9. ASSUME NEW m \in 1..n PROVE g[m] = TakeName(g[m - 1], names[m])
  <2>1. Max(1..m) = m /\ (1..m) \ {m} = 1..(m - 1) /\ 1..m # {}
    BY LastIndex
  <2>2. 1..m \in SUBSET (1..n) /\ m - 1 \in 0..n
    OBVIOUS
  <2>3. h[1..m] = TakeName(h[1..(m - 1)], names[m])
    BY <1>7, <2>1, <2>2 DEF NamesBody
  <2>4. QED BY <2>2, <2>3
<1>10. SetVolumes(names) = g[n] \o <<SchedulerConfigID, CertDirID>>
  <2>1. SetVolumes(names) = h[1..n] \o <<SchedulerConfigID, CertDirID>>
    BY <1>5, VolumesUnfold, DOMAIN names = 1..n
  <2>2. QED BY <2>1
<1> HIDE DEF g
<1>11. QED BY <1>8, <1>9, <1>10

\* A list of names without ours.
Others(kept) == kept \in Seq(Names) /\ \A k \in DOMAIN kept : kept[k] # None /\ kept[k] \notin Ours

\* SetVolumes drops what it finds of its own volumes and appends them.
LEMMA VolumesSet ==
    ASSUME NEW names \in Seq(Names)
    PROVE  \E kept : Others(kept) /\ SetVolumes(names) = kept \o <<SchedulerConfigID, CertDirID>>
<1>1. PICK n \in Nat : n = Len(names)
  OBVIOUS
<1>2. PICK g : /\ g[0] = <<>>
               /\ \A m \in 1..n : g[m] = TakeName(g[m - 1], names[m])
               /\ SetVolumes(names) = g[n] \o <<SchedulerConfigID, CertDirID>>
  BY <1>1, VolumesLoop
<1>3. Others(g[0])
  BY <1>2 DEF Others
<1>4. ASSUME NEW m \in 1..n, Others(g[m - 1]) PROVE Others(g[m])
  <2>1. PICK acc : acc = g[m - 1] /\ acc \in Seq(Names)
    BY <1>4 DEF Others
  <2>2. PICK x \in Names : x = names[m]
    BY <1>1
  <2>3. g[m] = TakeName(acc, x)
    BY <1>2, <2>1, <2>2
  <2>4. CASE x = None \/ x \in Ours
    BY <1>4, <2>1, <2>3, <2>4 DEF TakeName
  <2>5. CASE ~(x = None \/ x \in Ours)
    <3>1. g[m] = Append(acc, x)
      BY <2>3, <2>5 DEF TakeName
    <3>2. \A k \in DOMAIN g[m] : g[m][k] = x \/ \E y \in DOMAIN acc : g[m][k] = acc[y]
      BY <2>1, <3>1
    <3>3. QED BY <1>4, <2>1, <2>2, <2>5, <3>1, <3>2 DEF Others
  <2>6. QED BY <2>4, <2>5
<1>5. Others(g[n])
  <2> DEFINE G == {m \in 0..n : Others(g[m])}
  <2>1. 0 \in G /\ \A m \in 1..n : m - 1 \in G => m \in G
    BY <1>3, <1>4
  <2> HIDE DEF G
  <2>2. \A m \in 0..n : m \in G
    BY <2>1, EveryRound, Zenon
  <2>3. n \in 0..n
    OBVIOUS
  <2>4. QED BY <2>2, <2>3 DEF G
<1>6. QED BY <1>2, <1>5

\* SetVolumes leaves a list alone that it has made.
LEMMA VolumesAgain ==
    ASSUME NEW kept, Others(kept), NEW names, names = kept \o <<SchedulerConfigID, CertDirID>>
    PROVE  names \in Seq(Names) /\ SetVolumes(names) = names
<1>1. names \in Seq(Names) /\ kept \in Seq(Names)
  BY DEF Others, Names, Ours
<1>2. PICK l \in Nat : l = Len(kept)
  BY <1>1
<1>3. PICK n \in Nat : n = l + 2 /\ n = Len(names)
  BY <1>1, <1>2
<1>4. PICK g : /\ g[0] = <<>>
               /\ \A m \in 1..n : g[m] = TakeName(g[m - 1], names[m])
               /\ SetVolumes(names) = g[n] \o <<SchedulerConfigID, CertDirID>>
  BY <1>1, <1>3, VolumesLoop
<1>5. /\ \A m \in 1..l : names[m] = kept[m] /\ names[m] # None /\ names[m] \notin Ours
      /\ names[l + 1] \in Ours /\ names[l + 2] \in Ours
  <2>1. /\ \A m \in 1..l : names[m] = kept[m]
        /\ names[l + 1] = SchedulerConfigID /\ names[l + 2] = CertDirID
    BY <1>1, <1>2, <1>3
  <2>2. \A m \in 1..l : kept[m] # None /\ kept[m] \notin Ours
    BY <1>1, <1>2 DEF Others
  <2>3. QED BY <2>1, <2>2 DEF Ours
<1> DEFINE Good(m) == g[m] = SubSeq(kept, 1, m)
<1>6. Good(0)
  <2>1. SubSeq(kept, 1, 0) = <<>>
    BY <1>1
  <2>2. QED BY <1>4, <2>1
<1>7. ASSUME NEW m \in 1..l, Good(m - 1) PROVE Good(m)
  <2>1. g[m] = Append(g[m - 1], kept[m])
    <3>1. m \in 1..n /\ names[m] = kept[m] /\ names[m] # None /\ names[m] \notin Ours
      BY <1>3, <1>5
    <3>2. g[m] = TakeName(g[m - 1], names[m])
      BY <1>4, <3>1
    <3>3. QED BY <3>1, <3>2 DEF TakeName
  <2>2. Append(SubSeq(kept, 1, m - 1), kept[m]) = SubSeq(kept, 1, m)
    BY <1>1, <1>2
  <2>3. QED BY <1>7, <2>1, <2>2
<1> HIDE DEF Good
<1>8. Good(l)
  <2> DEFINE G == {m \in 0..l : Good(m)}
  <2>1. 0 \in G /\ \A m \in 1..l : m - 1 \in G => m \in G
    BY <1>6, <1>7
  <2> HIDE DEF G
  <2>2. \A m \in 0..l : m \in G
    BY <2>1, EveryRound, Zenon
  <2>3. l \in 0..l
    OBVIOUS
  <2>4. QED BY <2>2, <2>3 DEF G
<1>9. SubSeq(kept, 1, l) = kept
  BY <1>1, <1>2
<1>10. g[n] = kept
  <2>1. g[l + 1] = TakeName(g[l], names[l + 1]) /\ g[l + 2] = TakeName(g[l + 1], names[l + 2])
    <3>1. /\ l + 1 \in 1..n /\ l + 2 \in 1..n
          /\ (l + 1) - 1 = l /\ (l + 2) - 1 = l + 1
      BY <1>3
    <3>2. /\ g[l + 1] = TakeName(g[(l + 1) - 1], names[l + 1])
          /\ g[l + 2] = TakeName(g[(l + 2) - 1], names[l + 2])
      BY <1>4, <3>1
    <3>3. QED BY <3>1, <3>2
  <2>2. QED BY <1>3, <1>5, <1>8, <1>9, <2>1 DEF Good, TakeName
<1>11. QED BY <1>1, <1>4, <1>10

\* Each of the configurator's volumes is in the list once.
EachOnce(names) ==
    \A v \in Ours : \E k \in DOMAIN names : \A x \in DOMAIN names : names[x] = v <=> x = k

\* What run makes of a manifest makes the scheduler use the config, has no value whose
\* flag was dropped, and is left alone when it is made again.
LEMMA ManifestSet ==
    ASSUME NEW m \in AllManifests, m.command # None
    PROVE  /\ Modified(m) \in AllManifests /\ Modified(m).minor = m.minor
           /\ Modified(m).command # None /\ Modified(m).dnsPolicy
           /\ UsesConfig(Modified(m)) /\ Modified(Modified(m)) = Modified(m)
           /\ ArgsWhole(m.command) =>
                 /\ ArgsWhole(Modified(m).command)
                 /\ \A k \in DOMAIN Modified(m).command : Modified(m).command[k].name # "value"
<1>1. m.command \in Seq(Args) /\ m.mounts \in Seq(Names) /\ m.volumes \in Seq(Names)
  BY DEF AllManifests
<1>2. PICK kept \in Seq(Args) :
          /\ SetCommand(m.command) = Append(kept, ConfigArg)
          /\ \A k \in DOMAIN kept : kept[k].name \notin Dropped
          /\ ArgsWhole(m.command) => \A k \in DOMAIN kept : kept[k].name # "value"
  BY <1>1, CommandSet
<1>3. PICK c \in Seq(Args) : c = Append(kept, ConfigArg) /\ c # None
  <2>1. Append(kept, ConfigArg) \in Seq(Args)
    BY ConfigArgType
  <2>2. QED BY <2>1, ConfiguratorAssumption
<1>4. SetCommand(c) = c
  BY <1>2, <1>3, CommandAgain
<1>5. PICK mounts, volumes :
          /\ mounts \in Seq(Names) /\ mounts = SetVolumes(m.mounts) /\ SetVolumes(mounts) = mounts
          /\ volumes \in Seq(Names) /\ volumes = SetVolumes(m.volumes)
               /\ SetVolumes(volumes) = volumes
          /\ EachOnce(mounts) /\ EachOnce(volumes)
  <2>1. ASSUME NEW list \in Seq(Names)
        PROVE  \E names \in Seq(Names) :
                  /\ names = SetVolumes(list) /\ SetVolumes(names) = names
                  /\ EachOnce(names)
    <3>1. PICK others : Others(others) /\ SetVolumes(list) =
                   others \o <<SchedulerConfigID, CertDirID>>
      BY VolumesSet
    <3>2. PICK names : names = others \o <<SchedulerConfigID, CertDirID>>
      OBVIOUS
    <3>3. names \in Seq(Names) /\ SetVolumes(names) = names
      BY <3>1, <3>2, VolumesAgain
    <3>4. ASSUME NEW v \in Ours
          PROVE  \E k \in DOMAIN names : \A x \in DOMAIN names : names[x] = v <=> x = k
      <4>0. others \in Seq(Names) /\ \A k \in DOMAIN others : others[k] \notin Ours
        BY <3>1 DEF Others
      <4>1. PICK l \in Nat : l = Len(others) /\ others \in Seq(Names)
        BY <4>0
      <4>2. \A x \in 1..l : others[x] # v
        <5>1. \A x \in 1..l : x \in DOMAIN others
          BY <4>1
        <5>2. QED BY <4>0, <5>1
      <4>3. /\ DOMAIN names = 1..(l + 2) /\ \A x \in 1..l : names[x] = others[x]
            /\ names[l + 1] = SchedulerConfigID /\ names[l + 2] = CertDirID
        BY <3>2, <4>1
      <4>4. SchedulerConfigID # CertDirID
        BY DEF SchedulerConfigID, CertDirID
      <4>8. \A x \in DOMAIN names : x \in 1..l \/ x = l + 1 \/ x = l + 2
        BY <4>3
      <4>9. l + 1 \notin 1..l /\ l + 2 \notin 1..l /\ l + 1 # l + 2
        OBVIOUS
      <4>5. CASE v = SchedulerConfigID
        <5>1. \A x \in DOMAIN names : names[x] = v <=> x = l + 1
          BY <4>2, <4>3, <4>4, <4>5, <4>8, <4>9, Zenon
        <5>2. l + 1 \in DOMAIN names
          BY <4>1, <4>3
        <5>3. QED BY <5>1, <5>2, Zenon
      <4>6. CASE v = CertDirID
        <5>1. \A x \in DOMAIN names : names[x] = v <=> x = l + 2
          BY <4>2, <4>3, <4>4, <4>6, <4>8, <4>9, Zenon
        <5>2. l + 2 \in DOMAIN names
          BY <4>1, <4>3
        <5>3. QED BY <5>1, <5>2, Zenon
      <4>7. QED BY <4>5, <4>6 DEF Ours
    <3>5. EachOnce(names)
      BY <3>4 DEF EachOnce
    <3>6. QED BY <3>1, <3>2, <3>3, <3>5
  <2>2. PICK mounts \in Seq(Names) :
            mounts = SetVolumes(m.mounts) /\ SetVolumes(mounts) = mounts /\ EachOnce(mounts)
    BY <1>1, <2>1
  <2>3. PICK volumes \in Seq(Names) :
            volumes = SetVolumes(m.volumes) /\ SetVolumes(volumes) = volumes /\ EachOnce(volumes)
    BY <1>1, <2>1
  <2>4. QED BY <2>2, <2>3
<1>6. PICK new : new = Modified(m)
  OBVIOUS
<1>7. PICK b \in BOOLEAN : b = TRUE
  OBVIOUS
<1>8. new = [m EXCEPT !.command = c, !.mounts = mounts, !.volumes = volumes,
                      !.dnsPolicy = b, !.marshalled = b]
  BY <1>2, <1>3, <1>5, <1>6, <1>7 DEF Modified
<1>9. /\ new \in AllManifests /\ new.minor = m.minor /\ new.command = c
      /\ new.mounts = mounts /\ new.volumes = volumes /\ new.dnsPolicy = b /\ new.marshalled = b
  BY <1>3, <1>5, <1>8 DEF AllManifests
<1>10. Modified(new) = new
  <2>0. PICK again : again = Modified(new)
    OBVIOUS
  <2>1. again = [new EXCEPT !.command = c, !.mounts = mounts, !.volumes = volumes,
                            !.dnsPolicy = b, !.marshalled = b]
    <3>1. /\ SetCommand(new.command) = c /\ SetVolumes(new.mounts) = mounts
          /\ SetVolumes(new.volumes) = volumes
      BY <1>4, <1>5, <1>9
    <3>2. QED BY <1>7, <2>0, <3>1 DEF Modified
  <2>2. PICK r : r = [minor |-> m.minor, command |-> c, mounts |-> mounts, volumes |-> volumes,
                      dnsPolicy |-> b, marshalled |-> b]
    OBVIOUS
  <2>3. new = r
    BY <1>9, <2>2 DEF AllManifests
  <2>4. again = r
    BY <1>9, <2>1, <2>2, <2>3
  <2>5. QED BY <2>0, <2>3, <2>4
<1>11. PICK l \in Nat : l = Len(kept)
  OBVIOUS
<1>12. /\ DOMAIN c = 1..(l + 1) /\ Len(c) = l + 1 /\ c[l + 1] = ConfigArg
       /\ \A k \in 1..l : c[k] = kept[k] /\ k \in DOMAIN kept
  BY <1>3, <1>11
<1>13. /\ ConfigArg.name \in Dropped /\ ConfigArg.name # "value" /\ ~Bare(ConfigArg)
  BY DEF ConfigArg, Dropped, Bare
<1>14. UsesConfig(new)
  <2>1. {k \in DOMAIN c : c[k].name \in Dropped} = {Len(c)}
    BY <1>2, <1>12, <1>13
  <2>2. Last(c) = ConfigArg
    BY <1>12 DEF Last
  <2>3. EachOnce(new.mounts) /\ EachOnce(new.volumes)
    BY <1>5, <1>9
  <2>4. ASSUME NEW v \in Ours, NEW names \in {new.mounts, new.volumes}
        PROVE  \E k \in DOMAIN names : \A x \in DOMAIN names : names[x] = v <=> x = k
    <3>1. EachOnce(names)
      BY <2>3
    <3>2. QED BY <3>1, Zenon DEF EachOnce
  <2>5. QED BY <1>9, <2>1, <2>2, <2>4 DEF UsesConfig
<1>15. ASSUME ArgsWhole(m.command) PROVE ArgsWhole(c) /\ \A k \in DOMAIN c : c[k].name # "value"
  <2>1. \A k \in DOMAIN c : c[k].name # "value" /\ ~Bare(c[k])
    BY <1>2, <1>12, <1>13, <1>15 DEF Bare
  <2>2. \A k \in DOMAIN c : k > 1 => k - 1 \in DOMAIN c
    BY <1>12
  <2>3. QED BY <2>1, <2>2 DEF ArgsWhole
<1>16. QED BY <1>3, <1>6, <1>7, <1>9, <1>10, <1>14, <1>15

-----------------------------------------------------------------------------
(* The inductive invariant. *)

Fields ==
    {"step", "flags", "orig", "new", "folder", "numChanges", "writing", "failed", "before"}

\* Steps in the order of run; a dry run takes those of DrySteps only.
Checking == {"check", "remove", "certDir", "removeDir"}
BeforeRead == Checking \cup {"read"}
BeforeBackup == BeforeRead \cup {"backup"}
Copying == {"mkdir", "key", "crt", "set", "config"}
Unchanged == BeforeBackup \cup {"saveManifest", "saveConfig"} \cup Copying
Late == {"tas", "gas", "manifest", "finish"}
DrySteps == BeforeRead \cup {"set", "config"} \cup Late
Steps == Unchanged \cup Late

Shapes ==
    /\ DOMAIN files = Places /\ certDirs \in 0..Depth /\ faults \in Nat
    /\ \A i \in DOMAIN folders : DOMAIN folders[i] = {"manifest", "config"}
    /\ run # Idle =>
          /\ DOMAIN run = Fields /\ run.step \in Steps /\ run.numChanges \in BOOLEAN
          /\ run.flags.dryRun \in BOOLEAN /\ run.flags.backup \in BOOLEAN
          /\ run.before.certDirs \in 0..Depth /\ run.before.faults \in Nat

\* A dry run takes no step that writes, and the check of the accesses takes away no
\* more than it has made: it comes to "remove" and "removeDir" only if config and
\* certDir were not there before.
DryInv ==
    /\ run # Idle /\ run.flags.dryRun => run.writing = NoWrite /\ run.step \in DrySteps
    /\ run # Idle => run.before.faults <= faults
    /\ run # Idle /\ run.step = "check" =>
          run.before.files = files /\ run.before.certDirs = certDirs
    /\ run # Idle /\ run.step = "remove" => run.before.files["config"] = Missing
    /\ run # Idle /\ run.step \in Checking => run.before.certDirs <= certDirs
    /\ run # Idle /\ run.step = "removeDir" => certDirs = Depth /\ run.before.certDirs < Depth
    /\ run # Idle /\ run.flags.dryRun =>
          /\ OnlyTraces(run)
          /\ files["config"] # run.before.files["config"] => run.failed \/ run.step = "remove"
    /\ run = Idle /\ last # Idle /\ last.flags.dryRun => OnlyTraces(last)

\* Certificates are in a folder that exists: a certDir that was missing has none.
CertsInDir ==
    /\ certDirs < Depth => files["key"] = Missing /\ files["crt"] = Missing
    /\ run # Idle /\ run.step = "removeDir" =>
          files["key"] = Missing /\ files["crt"] = Missing
    /\ run # Idle /\ ~run.flags.dryRun /\ run.step \in (Copying \ {"mkdir"}) \cup Late =>
          certDirs = Depth

\* Each run has a folder of its own.
OwnFolder ==
    /\ runs \in Nat /\ DOMAIN folders \subseteq 1..runs
    /\ run # Idle =>
          /\ runs > 0
          /\ run.folder = None => runs \notin DOMAIN folders
          /\ run.folder # None => run.folder = runs /\ runs \in DOMAIN folders
          /\ run.step \in BeforeBackup => run.folder = None
          /\ run.step \in {"saveManifest", "saveConfig"} => run.folder # None
          /\ run.flags.backup /\ ~run.flags.dryRun /\ run.step \notin BeforeBackup =>
               run.folder # None
          /\ run.step \in Unchanged => ~run.numChanges

\* What is being written at which step.
Writing ==
    run # Idle /\ run.writing # NoWrite =>
        /\ run.writing.saved = TRUE \/ run.writing.saved = FALSE
        /\ run.writing.saved = TRUE =>
              /\ run.writing.file \in {"manifest", "config"} /\ run.folder # None
              /\ run.step \in {"saveConfig", "mkdir"}
              /\ run.writing.content = files[run.writing.file]
        /\ run.writing.saved = FALSE =>
              \/ run.writing.file = "key" /\ run.step = "crt" /\ run.writing.content = "ca.key"
              \/ run.writing.file = "crt" /\ run.step = "set" /\ run.writing.content = "ca.crt"
              \/ run.writing.file = "config" /\ run.step = "tas" /\ run.writing.content = NewConfig
              \/ run.writing.file = "tas" /\ run.step = "gas"
              \/ run.writing.file = "gas" /\ run.step = "manifest"
              \/ run.writing.file = "manifest" /\ run.step = "finish"
                   /\ run.writing.content = run.new

BeingSaved(p) == run.writing # NoWrite /\ run.writing.saved = TRUE /\ run.writing.file = p

\* Before a file is replaced the folder of the run has its content.
CopyMade ==
    run # Idle /\ run.flags.backup /\ ~run.flags.dryRun =>
        /\ run.step \in Steps \ (BeforeBackup \cup {"saveManifest", "finish"}) =>
              BeingSaved("manifest") \/ folders[run.folder]["manifest"] = files["manifest"]
        /\ run.step \in Copying =>
              \/ files["config"] = Missing
              \/ BeingSaved("config") \/ folders[run.folder]["config"] = files["config"]

\* The manifest, where there is one, can be parsed, and a run keeps its version.
Parsed(m) == m \in AllManifests
Versions ==
    /\ files["manifest"] # Partial => Parsed(files["manifest"])
    /\ \A i \in DOMAIN folders :
          folders[i]["manifest"] \notin {Missing, Partial} => Parsed(folders[i]["manifest"])
    /\ run # Idle =>
          /\ run.step \notin BeforeRead => Parsed(run.orig)
          /\ run.step \in {"config"} \cup Late => Parsed(run.new) /\ run.new.minor = run.orig.minor
          /\ BeingSaved("manifest") => run.writing.content = Partial \/ Parsed(run.writing.content)

BeingWritten(p) == run.writing # NoWrite /\ run.writing.saved = FALSE /\ run.writing.file = p

\* A real run has put certificates and config in their places.
Installed ==
    run # Idle /\ ~run.flags.dryRun =>
        /\ run.step \in {"crt", "set", "config"} \cup Late =>
              files["key"] = "ca.key" \/ BeingWritten("key")
        /\ run.step \in {"set", "config"} \cup Late =>
              files["crt"] = "ca.crt" \/ BeingWritten("crt")
        /\ run.step \in Late =>
              files["config"] = ConfigFor(run.orig.minor) \/ BeingWritten("config")

\* What was replaced is in a folder that the run under way will not remove.
KeptFor(o) ==
    \E i \in DOMAIN folders :
        /\ folders[i][o[1]] = o[2]
        /\ run # Idle /\ run.folder = i => run.numChanges
Kept == \A o \in overwritten : o[1] \in {"manifest", "config"} /\ KeptFor(o)

CopiesInv ==
    Shapes /\ OwnFolder /\ Writing /\ CopyMade /\ Kept /\ Versions /\ Installed
IInv == CopiesInv /\ DryInv /\ CertsInDir

\* What os.WriteFile does in a backup folder: one entry of one folder.
LEMMA OneEntry ==
    ASSUME NEW F, NEW f, NEW p, NEW x, NEW G, G = [F EXCEPT ![f][p] = x]
    PROVE  /\ DOMAIN G = DOMAIN F
           /\ \A i \in DOMAIN F : DOMAIN G[i] = DOMAIN F[i]
           /\ \A i \in DOMAIN F : \A q \in DOMAIN F[i] :
                 G[i][q] = IF i = f /\ q = p THEN x ELSE F[i][q]
<1>1. DOMAIN G = DOMAIN F
  OBVIOUS
<1>2. ASSUME NEW i \in DOMAIN F, i # f PROVE G[i] = F[i]
  BY <1>2
<1>3. ASSUME f \in DOMAIN F PROVE G[f] = [F[f] EXCEPT ![p] = x]
  BY <1>3
<1> QED BY <1>1, <1>2, <1>3

\* A new folder is empty; the others are what they were.
LEMMA NewFolder ==
    ASSUME NEW F, NEW n, NEW x, NEW G, G = [i \in DOMAIN F \cup {n} |-> IF i = n THEN x ELSE F[i]]
    PROVE  /\ DOMAIN G = DOMAIN F \cup {n} /\ G[n] = x
           /\ \A i \in DOMAIN F : i # n => G[i] = F[i]
OBVIOUS

\* Setting command, volumes and policy leaves a manifest its version.
LEMMA SameVersion ==
    ASSUME NEW m, Parsed(m), m.command # None
    PROVE  Parsed(Modified(m)) /\ Modified(m).minor = m.minor
BY ManifestSet DEF Parsed

\* The invariant holds before the first run.
LEMMA InitIInv == Init => IInv
<1> SUFFICES ASSUME Init PROVE IInv
  OBVIOUS
<1>1. run = Idle /\ overwritten = {} /\ runs = 0 /\ DOMAIN folders = {} /\ DOMAIN files = Places
        /\ last = Idle /\ certDirs \in 0..Depth /\ faults = 0
  BY DEF Init
<1>2. files["manifest"] \in Manifests /\ files["key"] = Missing /\ files["crt"] = Missing
  BY DEF Init, Places
<1> QED BY <1>1, <1>2, ConfiguratorAssumption
        DEF IInv, CopiesInv, Shapes, DryInv, CertsInDir, OwnFolder, Writing, CopyMade, Kept,
            Versions, Parsed, Installed

\* A step past the check that leaves everything alone if the run is a dry one.
Onward ==
    /\ run # Idle /\ run' # Idle
    /\ run'.before = run.before /\ run'.flags = run.flags /\ run'.failed = run.failed
    /\ run'.step \in Steps \ BeforeRead
    /\ run.flags.dryRun => run'.step \in DrySteps /\ run'.writing = NoWrite /\ UNCHANGED files
    /\ UNCHANGED <<certDirs, faults>>
    /\ run.step \in Steps \ Checking /\ (run.step = "read" => ~run.failed)

LEMMA OnwardKeepsDryInv == ASSUME IInv, Onward PROVE DryInv'
BY DEF IInv, CopiesInv, Shapes, DryInv, OnlyTraces, Disturbed, Onward, Steps, BeforeRead, Checking,
       BeforeBackup, Copying, Unchanged, Late, DrySteps, Places

\* A run goes on, and leaves certDir alone.
SameHead ==
    /\ run' # Idle /\ run'.before = run.before /\ run'.flags = run.flags
    /\ run'.failed = run.failed /\ UNCHANGED <<certDirs, faults>>

LEMMA CertsGoOn ==
    ASSUME Shapes, CopyKey \/ CopyCrt
    PROVE  SameHead /\ run'.step \in {"crt", "set"}
<1> USE DEF Shapes, At, Truncate, SameHead, Fields, Idle
<1>1. CASE CopyKey
  <2>1. run # Idle /\ DOMAIN run = Fields
    BY <1>1 DEF CopyKey
  <2>2. QED BY <1>1, <2>1 DEF CopyKey
<1>2. CASE CopyCrt
  <2>1. run # Idle /\ DOMAIN run = Fields
    BY <1>2 DEF CopyCrt
  <2>2. QED BY <1>2, <2>1 DEF CopyCrt
<1>3. QED BY <1>1, <1>2

\* What follows the copies of the certificates: step by step, or with a write.
LEMMA LateGoesOn ==
    ASSUME Shapes,
           \/ CreateConfig \/ WriteManifest
           \/ ModifyDeployment("tas", "gas") \/ ModifyDeployment("gas", "manifest")
    PROVE  \E step \in Late :
              /\ SameHead /\ run'.step = step /\ run # Idle
              /\ run.step \in {"config", "manifest", "tas", "gas"} /\ run.writing = NoWrite
              /\ \/ UNCHANGED <<files, run.writing>>
                 \/ /\ ~run.flags.dryRun
                    /\ \E p \in {"config", "manifest", "tas", "gas"} :
                          files' = [files EXCEPT ![p] = Partial]
<1> DEFINE Goal(step) == /\ SameHead /\ run'.step = step
                        /\ \/ UNCHANGED <<files, run.writing>>
                           \/ /\ ~run.flags.dryRun
                              /\ \E p \in {"config", "manifest", "tas", "gas"} :
                                    files' = [files EXCEPT ![p] = Partial]
<1>1. /\ run # Idle /\ run.step \in {"config", "manifest", "tas", "gas"}
      /\ run.writing = NoWrite /\ DOMAIN run = Fields
  BY DEF CreateConfig, WriteManifest, ModifyDeployment, At, Idle, Shapes
<1>2. ASSUME NEW step \in Late, GoTo(step) /\ OnlyRun PROVE Goal(step)
  BY <1>1, <1>2 DEF GoTo, OnlyRun, SameHead, Fields, Idle, Late
<1>3. CASE CreateConfig
  <2>1. CASE GoTo("tas") /\ OnlyRun
    BY <1>1, <1>2, <2>1 DEF Late
  <2>2. CASE ~(GoTo("tas") /\ OnlyRun)
    <3>1. Goal("tas")
      BY <1>1, <1>3, <2>2 DEF CreateConfig, Truncate, SameHead, Fields, Idle
    <3>2. QED BY <1>1, <3>1 DEF Late
  <2>3. QED BY <1>1, <2>1, <2>2
<1>4. CASE WriteManifest
  <2>1. CASE GoTo("finish") /\ OnlyRun
    BY <1>1, <1>2, <2>1 DEF Late
  <2>2. CASE ~(GoTo("finish") /\ OnlyRun)
    <3>1. Goal("finish")
      BY <1>1, <1>4, <2>2 DEF WriteManifest, Truncate, SameHead, Fields, Idle
    <3>2. QED BY <1>1, <3>1 DEF Late
  <2>3. QED BY <1>1, <2>1, <2>2
<1>5. CASE ModifyDeployment("tas", "gas")
  <2>1. CASE GoTo("gas") /\ OnlyRun
    BY <1>1, <1>2, <2>1 DEF Late
  <2>2. CASE ~(GoTo("gas") /\ OnlyRun)
    <3>1. Goal("gas")
      BY <1>1, <1>5, <2>2 DEF ModifyDeployment, Truncate, SameHead, Fields, Idle
    <3>2. QED BY <1>1, <3>1 DEF Late
  <2>3. QED BY <1>1, <2>1, <2>2
<1>6. CASE ModifyDeployment("gas", "manifest")
  <2>1. CASE GoTo("manifest") /\ OnlyRun
    BY <1>1, <1>2, <2>1 DEF Late
  <2>2. CASE ~(GoTo("manifest") /\ OnlyRun)
    <3>1. Goal("manifest")
      BY <1>1, <1>6, <2>2 DEF ModifyDeployment, Truncate, SameHead, Fields, Idle
    <3>2. QED BY <1>1, <3>1 DEF Late
  <2>3. QED BY <1>1, <2>1, <2>2
<1>7. QED BY <1>3, <1>4, <1>5, <1>6

\* The check of the accesses, and what a dry run leaves.
LEMMA DryStep == IInv /\ [Next]_vars => DryInv'
<1> SUFFICES ASSUME IInv, [Next]_vars PROVE DryInv'
  OBVIOUS
<1> USE DEF Fields, Steps, DrySteps, Copying, BeforeRead, Checking, BeforeBackup, Unchanged, Late,
            Idle, NoWrite, operatorVars, fixedVars, Places, At
<1> USE DEF IInv, CopiesInv, Shapes, DryInv
<1>1. ASSUME NEW f \in Invocations, Start(f) PROVE DryInv'
  BY <1>1 DEF Start, OnlyTraces
<1>2. ASSUME NEW m \in Manifests, ReplaceManifest(m) PROVE DryInv'
  BY <1>2 DEF ReplaceManifest, Between, Forget
<1>3. ASSUME NEW t \in Templates, ChangeTemplate(t) PROVE DryInv'
  BY <1>3 DEF ChangeTemplate, Between, Forget
<1>4. ASSUME NEW i \in DOMAIN folders, RestoreManifest(i) PROVE DryInv'
  BY <1>4 DEF RestoreManifest, Forget
<1>5. CASE CheckFileAccesses
  BY <1>5 DEF CheckFileAccesses, GoTo, OnlyTraces, Disturbed
<1>6. CASE RemoveCreated
  BY <1>6 DEF RemoveCreated, GoTo, OnlyTraces, Disturbed
<1>7. CASE ProbeCertDir
  BY <1>7, ConfiguratorAssumption DEF ProbeCertDir, MkdirAll, GoTo, OnlyTraces, Disturbed
<1>8. CASE RemoveCertDir
  <2>1. \A p \in Places : files'[p] = files[p]
    BY <1>8 DEF RemoveCertDir, CertsInDir
  <2>2. QED BY <1>8, <2>1, ConfiguratorAssumption DEF RemoveCertDir, GoTo, OnlyTraces, Disturbed
<1>9. CASE CheckFails
  <2>1. PICK c \in Checks :
           /\ run.step = c[1] /\ c[1] \in Checking /\ c[2] \in BeforeRead
           /\ c[2] \in {"check", "remove"} => c[1] = "check" /\ c[2] = "check"
           /\ c[2] # "removeDir" /\ (c[1] = "removeDir" => c[2] = "read")
           /\ run' = [run EXCEPT !.step = c[2],
                                 !.failed = IF c[1] = "removeDir" THEN @ ELSE TRUE]
    BY <1>9 DEF CheckFails, Checks
  <2>2. /\ run # Idle /\ run.writing = NoWrite /\ faults' = faults + 1
        /\ UNCHANGED <<files, certDirs>>
    BY <1>9 DEF CheckFails
  <2>3. /\ run' # Idle /\ run'.before = run.before /\ run'.flags = run.flags
        /\ run'.step = c[2] /\ run'.writing = NoWrite
        /\ run'.failed = IF c[1] = "removeDir" THEN run.failed ELSE TRUE
    BY <2>1, <2>2
  <2>4. run.flags.dryRun => OnlyTraces(run)'
    BY <2>1, <2>2, <2>3 DEF OnlyTraces, Disturbed
  <2>5. QED BY <2>1, <2>2, <2>3, <2>4
<1>10. CASE ReadManifest
  <2>1. run.step = "read" /\ ~run.failed /\ run # Idle /\ OnlyRun /\ run.writing = NoWrite
    BY <1>10 DEF ReadManifest, Readable
  <2>2. /\ run' # Idle /\ run'.before = run.before /\ run'.flags = run.flags
        /\ run'.failed = run.failed /\ run'.writing = NoWrite
        /\ run'.step = IF run.flags.dryRun THEN "set" ELSE "backup"
    BY <1>10, <2>1 DEF ReadManifest
  <2>3. Onward
    BY <2>1, <2>2 DEF Onward, OnlyRun
  <2>4. QED BY <2>3, OnwardKeepsDryInv
<1>11. CASE ReadFails \/ SetFails \/ CreateConfigFails
  BY <1>11 DEF ReadFails, SetFails, CreateConfigFails, Panic, End, OnlyTraces, Disturbed
<1>12. CASE Fail
  <2>1. /\ run # Idle /\ run' = Idle /\ last' = IF run.flags.dryRun THEN run ELSE Idle
        /\ faults' = faults + 1 /\ UNCHANGED <<files, certDirs>>
    BY <1>12 DEF Fail, Panic, End
  <2>2. CASE run.flags.dryRun
    <3>1. OnlyTraces(run) /\ last' = run
      BY <2>1, <2>2
    <3>2. Disturbed(run) => Disturbed(last)'
      BY <2>1, <3>1 DEF Disturbed
    <3>3. OnlyTraces(last)'
      BY <2>1, <3>1, <3>2 DEF OnlyTraces
    <3>4. QED BY <2>1, <3>3
  <2>3. CASE ~run.flags.dryRun
    BY <2>1, <2>3
  <2>4. QED BY <2>2, <2>3
<1>13. CASE MakeFolder \/ SaveManifest \/ SaveConfig \/ MakeCertDir \/ CopyKey \/ CopyCrt
  <2>1. run # Idle /\ ~run.flags.dryRun
        /\ run.step \in {"backup", "saveManifest", "saveConfig", "mkdir", "key", "crt"}
    BY <1>13 DEF MakeFolder, SaveManifest, SaveConfig, MakeCertDir, MkdirAll, CopyKey, CopyCrt
  <2>2. /\ run' # Idle /\ run'.before = run.before /\ run'.flags = run.flags
        /\ run'.step \in Steps \ BeforeRead /\ UNCHANGED faults
    <3>1. CASE MakeFolder
      <4>1. \/ run' = [run EXCEPT !.step = "saveManifest", !.folder = runs]
            \/ run' = [run EXCEPT !.step = "mkdir"]
        BY <3>1 DEF MakeFolder, GoTo
      <4>2. UNCHANGED faults
        BY <3>1 DEF MakeFolder
      <4>3. QED BY <2>1, <4>1, <4>2
    <3>2. CASE SaveManifest
      <4>1. PICK next \in {"mkdir", "saveConfig"} :
               run' = [run EXCEPT !.step = next, !.writing =
                          [file |-> "manifest", content |-> files["manifest"], saved |-> TRUE]]
        BY <3>2 DEF SaveManifest, Save
      <4>2. next \in Steps \ BeforeRead /\ UNCHANGED faults
        BY <3>2, <4>1 DEF SaveManifest, Save
      <4>3. QED BY <2>1, <4>1, <4>2
    <3>3. CASE SaveConfig
      BY <2>1, <3>3 DEF SaveConfig, Save
    <3>4. CASE MakeCertDir
      BY <2>1, <3>4 DEF MakeCertDir, MkdirAll, GoTo
    <3>5. CASE CopyKey
      BY <2>1, <3>5 DEF CopyKey, Truncate
    <3>6. CASE CopyCrt
      BY <2>1, <3>6 DEF CopyCrt, Truncate
    <3>7. QED BY <1>13, <3>1, <3>2, <3>3, <3>4, <3>5, <3>6
  <2>3. QED BY <2>1, <2>2
<1>14. CASE SetManifest
  <2>1. run # Idle /\ run.step = "set" /\ run.writing = NoWrite /\ OnlyRun
    BY <1>14 DEF SetManifest
  <2>2. /\ run' # Idle /\ run'.before = run.before /\ run'.flags = run.flags
        /\ run'.failed = run.failed /\ run'.writing = NoWrite /\ run'.step = "config"
    BY <1>14, <2>1 DEF SetManifest
  <2>3. Onward
    BY <2>1, <2>2 DEF Onward, OnlyRun
  <2>4. QED BY <2>3, OnwardKeepsDryInv
<1>15. CASE \/ CreateConfig \/ WriteManifest
            \/ ModifyDeployment("tas", "gas") \/ ModifyDeployment("gas", "manifest")
  <2>1. PICK step \in Late :
           /\ SameHead /\ run'.step = step /\ run # Idle
           /\ run.step \in {"config", "manifest", "tas", "gas"}
           /\ run.flags.dryRun => UNCHANGED <<files, run.writing>>
    BY <1>15, LateGoesOn DEF CopiesInv
  <2>2. Onward
    BY <2>1 DEF Onward, SameHead
  <2>3. QED BY <2>2, OnwardKeepsDryInv
<1>16. CASE FinishWrite
  <2>1. run # Idle /\ ~run.flags.dryRun /\ run.step \notin Checking
    BY <1>16 DEF FinishWrite, Writing
  <2>2. /\ run' # Idle /\ run'.before = run.before /\ run'.flags = run.flags
        /\ run'.step = run.step /\ UNCHANGED faults
    BY <1>16, <2>1 DEF FinishWrite
  <2>3. QED BY <2>1, <2>2
<1>17. ASSUME NEW p \in {"manifest", "config"}, RemoveBackup(p) PROVE DryInv'
  BY <1>17 DEF RemoveBackup, OnlyTraces, Disturbed
<1>18. CASE Finish
  BY <1>18 DEF Finish, End, OnlyTraces, Disturbed
<1>19. CASE UNCHANGED vars
  BY <1>19 DEF vars, OnlyTraces, Disturbed
<1> HIDE DEF IInv, CopiesInv, Shapes, DryInv, At
<1> QED BY <1>1, <1>2, <1>3, <1>4, <1>5, <1>6, <1>7, <1>8, <1>9, <1>10, <1>11, <1>12, <1>13, <1>14,
           <1>15, <1>16, <1>17, <1>18, <1>19 DEF Next

\* Certificates come and go with certDir.
LEMMA CertsStep == IInv /\ [Next]_vars => CertsInDir'
<1> SUFFICES ASSUME IInv, [Next]_vars PROVE CertsInDir'
  OBVIOUS
<1> USE DEF Fields, Steps, Copying, BeforeRead, Checking, BeforeBackup, Unchanged, Late,
            Idle, NoWrite, operatorVars, fixedVars, Places, At
<1> USE DEF IInv, CopiesInv, Shapes, CertsInDir
<1>1. ASSUME NEW f \in Invocations, Start(f) PROVE CertsInDir'
  BY <1>1 DEF Start
<1>2. CASE \/ \E m \in Manifests : ReplaceManifest(m)
           \/ \E t \in Templates : ChangeTemplate(t)
           \/ \E i \in DOMAIN folders : RestoreManifest(i)
  BY <1>2 DEF ReplaceManifest, ChangeTemplate, RestoreManifest, Between
<1>3. CASE CheckFileAccesses \/ RemoveCreated
  BY <1>3 DEF CheckFileAccesses, RemoveCreated, GoTo
<1>4. CASE ProbeCertDir
  BY <1>4, ConfiguratorAssumption DEF ProbeCertDir, MkdirAll, GoTo, DryInv
<1>5. CASE RemoveCertDir
  BY <1>5 DEF RemoveCertDir, GoTo
<1>6. CASE CheckFails
  BY <1>6 DEF CheckFails, Checks
<1>7. CASE ReadManifest
  BY <1>7 DEF ReadManifest, OnlyRun
<1>8. CASE ReadFails \/ SetFails \/ CreateConfigFails \/ Fail
  BY <1>8 DEF ReadFails, SetFails, CreateConfigFails, Fail, Panic, End
<1>9. CASE MakeFolder
  BY <1>9 DEF MakeFolder, GoTo
<1>10. CASE SaveManifest
  BY <1>10 DEF SaveManifest, Save
<1>11. CASE SaveConfig
  BY <1>11 DEF SaveConfig, Save
<1>12. CASE MakeCertDir
  BY <1>12, ConfiguratorAssumption DEF MakeCertDir, MkdirAll, GoTo
<1>13. CASE CopyKey \/ CopyCrt
  <2>1. run # Idle /\ run.step \in {"key", "crt"} /\ ~run.flags.dryRun
    BY <1>13 DEF CopyKey, CopyCrt, DryInv, DrySteps
  <2>2. SameHead /\ run'.step \in {"crt", "set"}
    BY <1>13, CertsGoOn
  <2>3. certDirs = Depth
    BY <2>1
  <2>4. QED BY <2>2, <2>3, ConfiguratorAssumption DEF SameHead
<1>14. CASE SetManifest
  BY <1>14 DEF SetManifest, OnlyRun
<1>15. CASE \/ CreateConfig \/ WriteManifest
            \/ ModifyDeployment("tas", "gas") \/ ModifyDeployment("gas", "manifest")
  <2>1. PICK step \in Late :
           /\ SameHead /\ run'.step = step /\ run # Idle
           /\ run.step \in {"config", "manifest", "tas", "gas"}
           /\ \/ UNCHANGED files
              \/ \E p \in {"config", "manifest", "tas", "gas"} :
                    files' = [files EXCEPT ![p] = Partial]
    BY <1>15, LateGoesOn
  <2>2. files'["key"] = files["key"] /\ files'["crt"] = files["crt"]
    BY <2>1
  <2>3. QED BY <2>1, <2>2 DEF SameHead
<1>16. CASE FinishWrite
  <2>1. CASE run.writing.saved = TRUE
    BY <1>16, <2>1 DEF FinishWrite
  <2>2. CASE run.writing.saved = FALSE
    BY <1>16, <2>2 DEF FinishWrite, Writing, DryInv
  <2>3. QED BY <1>16, <2>1, <2>2 DEF FinishWrite, Writing
<1>17. CASE Finish \/ \E p \in {"manifest", "config"} : RemoveBackup(p)
  BY <1>17 DEF Finish, End, RemoveBackup
<1>18. CASE UNCHANGED vars
  BY <1>18 DEF vars
<1> HIDE DEF IInv, CopiesInv, Shapes, CertsInDir, At
<1> QED BY <1>1, <1>2, <1>3, <1>4, <1>5, <1>6, <1>7, <1>8, <1>9, <1>10, <1>11, <1>12, <1>13, <1>14,
           <1>15, <1>16, <1>17, <1>18 DEF Next

\* The probe of certDir has nothing to do with the copies.
LEMMA ProbeKeepsCopies == CopiesInv /\ ProbeCertDir => CopiesInv'
<1> SUFFICES ASSUME CopiesInv, ProbeCertDir PROVE CopiesInv'
  OBVIOUS
<1>1. /\ run # Idle /\ run.step = "certDir" /\ run.writing = NoWrite
      /\ UNCHANGED <<files, folders, overwritten, template, runs, faults>>
  BY DEF ProbeCertDir, MkdirAll, At, Idle, fixedVars, operatorVars
<1>2. DOMAIN run = Fields
  BY <1>1 DEF CopiesInv, Shapes
<1>3. run' = run \/ \E step \in {"read", "removeDir"} : run' = [run EXCEPT !.step = step]
  BY DEF ProbeCertDir, MkdirAll, GoTo
<1>4. certDirs' \in 0..Depth
  <2>1. Depth \in Nat /\ certDirs \in 0..Depth
    BY ConfiguratorAssumption DEF CopiesInv, Shapes
  <2>2. certDirs' = certDirs \/ (certDirs # Depth /\ certDirs' = certDirs + 1)
    BY DEF ProbeCertDir, MkdirAll
  <2>3. QED BY <2>1, <2>2
<1>5. /\ run' # Idle /\ DOMAIN run' = Fields /\ run'.writing = NoWrite
      /\ run'.step \in {"certDir", "read", "removeDir"} /\ run'.folder = run.folder
      /\ run'.numChanges = run.numChanges /\ run'.flags = run.flags /\ run'.before = run.before
  BY <1>1, <1>2, <1>3 DEF Fields, Idle
<1> USE DEF Steps, Unchanged, BeforeBackup, BeforeRead, Checking, Copying, Late
<1>6. Shapes'
  BY <1>1, <1>4, <1>5 DEF CopiesInv, Shapes
<1>7. (OwnFolder /\ Kept)'
  BY <1>1, <1>5 DEF CopiesInv, OwnFolder, Kept, KeptFor
<1>8. (Writing /\ CopyMade /\ Versions /\ Installed)'
  <2>1. Writing'
    BY <1>5 DEF Writing
  <2>2. CopyMade'
    BY <1>5 DEF CopyMade
  <2>3. Versions'
    BY <1>1, <1>5 DEF CopiesInv, Versions, BeingSaved, Parsed
  <2>4. Installed'
    BY <1>5 DEF Installed
  <2>5. QED BY <2>1, <2>2, <2>3, <2>4
<1>9. QED BY <1>6, <1>7, <1>8 DEF CopiesInv

\* Every step of a run, of the operator and of a failure keeps it.
LEMMA StepIInv == IInv /\ [Next]_vars => IInv'
<1> SUFFICES ASSUME IInv, [Next]_vars PROVE IInv'
  OBVIOUS
<1>0. DryInv' /\ CertsInDir'
  BY DryStep, CertsStep
<1> SUFFICES CopiesInv'
  BY <1>0 DEF IInv
<1> USE DEF Fields, Steps, Copying, BeforeRead, Checking, BeforeBackup, Unchanged, Late, Idle,
            NoWrite, operatorVars, fixedVars, Places, At
<1> USE DEF CopiesInv, Shapes, OwnFolder, Writing, BeingSaved, BeingWritten, CopyMade, Kept,
            KeptFor, Versions, Parsed, Installed, NewConfig, ConfigFor, IInv
<1>1. ASSUME NEW f \in Invocations, Start(f) PROVE CopiesInv'
  BY <1>1, ConfiguratorAssumption DEF Start
<1>2. ASSUME NEW m \in Manifests, ReplaceManifest(m) PROVE CopiesInv'
  BY <1>2, ConfiguratorAssumption DEF ReplaceManifest, Between
<1>3. ASSUME NEW t \in Templates, ChangeTemplate(t) PROVE CopiesInv'
  BY <1>3 DEF ChangeTemplate, Between
<1>4. ASSUME NEW i \in DOMAIN folders, RestoreManifest(i) PROVE CopiesInv'
  BY <1>4 DEF RestoreManifest
<1>5. CASE CheckFileAccesses
  BY <1>5 DEF CheckFileAccesses, GoTo
<1>6. CASE RemoveCreated
  BY <1>6 DEF RemoveCreated, GoTo
<1>7. CASE ReadManifest
  BY <1>7 DEF ReadManifest, Readable, OnlyRun
<1>8. CASE ReadFails \/ SetFails \/ CreateConfigFails \/ Fail
  BY <1>8 DEF ReadFails, SetFails, CreateConfigFails, Fail, Panic, End
<1>9. CASE MakeFolder
  <2>1. CASE run.flags.backup
    <3> DEFINE empty == [manifest |-> Missing, config |-> Missing]
    <3>1. /\ folders' = [i \in DOMAIN folders \cup {runs} |-> IF i = runs THEN empty
               ELSE folders[i]]
          /\ run.step = "backup" /\ run.writing = [file |-> "none"]
          /\ run' = [run EXCEPT !.step = "saveManifest", !.folder = runs]
          /\ UNCHANGED <<files, certDirs, overwritten, settled, last, faults, fixedVars>>
      BY <1>9, <2>1 DEF MakeFolder
    <3>2. DOMAIN empty = {"manifest", "config"} /\ empty["manifest"] = Missing
      OBVIOUS
    <3> HIDE DEF empty
    <3>3. /\ DOMAIN folders' = DOMAIN folders \cup {runs} /\ folders'[runs] = empty
          /\ \A i \in DOMAIN folders : i # runs => folders'[i] = folders[i]
      BY <3>1, NewFolder
    <3>4. run # Idle /\ runs \notin DOMAIN folders /\ runs \in 1..runs
      BY <3>1
    <3>5. run' # Idle /\ run'.folder = runs /\ runs # None
      BY <3>1, <3>4, ConfiguratorAssumption
    <3>6. (Shapes /\ Writing /\ Versions /\ Installed)'
      BY <3>1, <3>2, <3>3, <3>4, <3>5
    <3>7. (OwnFolder /\ CopyMade)'
      BY <3>1, <3>3, <3>4, <3>5
    <3>8. Kept'
      BY <3>1, <3>3, <3>4, <3>5
    <3> QED BY <3>6, <3>7, <3>8
  <2>2. CASE ~run.flags.backup
    BY <1>9, <2>2 DEF MakeFolder, GoTo
  <2> QED BY <2>1, <2>2
<1>10. CASE SaveManifest
  <2>1. PICK next \in {"mkdir", "saveConfig"} :
           /\ run' = [run EXCEPT !.step = next, !.writing =
                         [file |-> "manifest", content |-> files["manifest"], saved |-> TRUE]]
           /\ next = "mkdir" <=> files["config"] = Missing
    BY <1>10 DEF SaveManifest, Save
  <2>2. /\ folders' = [folders EXCEPT ![run.folder]["manifest"] = Partial]
        /\ UNCHANGED <<files, certDirs, overwritten, settled, last, faults, fixedVars>>
    BY <1>10 DEF SaveManifest, Save
  <2>3. run.step = "saveManifest" /\ run.writing = NoWrite
    BY <1>10 DEF SaveManifest
  <2> QED BY <2>1, <2>2, <2>3, OneEntry
<1>11. CASE SaveConfig
  BY <1>11, OneEntry DEF SaveConfig, Save
<1>12. CASE CopyKey
  BY <1>12 DEF CopyKey, Truncate
<1>13. CASE CopyCrt
  BY <1>13 DEF CopyCrt, Truncate
<1>14. CASE SetManifest
  <2>1. Parsed(Modified(run.orig)) /\ Modified(run.orig).minor = run.orig.minor
    BY <1>14, SameVersion DEF SetManifest
  <2> QED BY <1>14, <2>1 DEF SetManifest, OnlyRun
<1>15. CASE CreateConfig
  <2>1. CASE (run.flags.dryRun \/ files["config"] = NewConfig) /\ GoTo("tas") /\ OnlyRun
    BY <1>15, <2>1 DEF CreateConfig, GoTo, OnlyRun
  <2>2. CASE /\ ~run.flags.dryRun
             /\ Truncate("config", NewConfig, [run EXCEPT !.step = "tas", !.numChanges = TRUE])
    BY <1>15, <2>2 DEF CreateConfig, Truncate
  <2> QED BY <1>15, <2>1, <2>2 DEF CreateConfig
<1>16. CASE ModifyDeployment("tas", "gas")
  <2>1. CASE GoTo("gas") /\ OnlyRun
    BY <1>16, <2>1 DEF ModifyDeployment, GoTo, OnlyRun
  <2>2. CASE ~run.flags.dryRun /\ Truncate("tas", Renamed(files["tas"]),
                 [run EXCEPT !.step = "gas"])
    BY <1>16, <2>2 DEF ModifyDeployment, Truncate
  <2> QED BY <1>16, <2>1, <2>2 DEF ModifyDeployment
<1>17. CASE ModifyDeployment("gas", "manifest")
  <2>1. CASE GoTo("manifest") /\ OnlyRun
    BY <1>17, <2>1 DEF ModifyDeployment, GoTo, OnlyRun
  <2>2. CASE /\ ~run.flags.dryRun
             /\ Truncate("gas", Renamed(files["gas"]), [run EXCEPT !.step = "manifest"])
    BY <1>17, <2>2 DEF ModifyDeployment, Truncate
  <2> QED BY <1>17, <2>1, <2>2 DEF ModifyDeployment
<1>18. CASE WriteManifest
  <2>1. CASE GoTo("finish") /\ OnlyRun
    BY <1>18, <2>1 DEF WriteManifest, GoTo, OnlyRun
  <2>2. CASE /\ ~run.flags.dryRun
             /\ Truncate("manifest", run.new, [run EXCEPT !.step = "finish", !.numChanges = TRUE])
    BY <1>18, <2>2 DEF WriteManifest, Truncate
  <2> QED BY <1>18, <2>1, <2>2 DEF WriteManifest
<1>19. CASE FinishWrite
  <2>1. CASE run.writing.saved
    BY <1>19, <2>1, OneEntry DEF FinishWrite
  <2>2. CASE ~run.writing.saved
    BY <1>19, <2>2 DEF FinishWrite
  <2> QED BY <2>1, <2>2
<1>20. CASE Finish
  BY <1>20 DEF Finish, FoldersLeft, Removable, End
<1>21. CASE ProbeCertDir \/ RemoveCertDir \/ CheckFails
  <2>1. CASE ProbeCertDir
    <3>1. CopiesInv
      BY DEF IInv
    <3> HIDE DEF IInv, CopiesInv
    <3>2. QED BY <2>1, <3>1, ProbeKeepsCopies
  <2>2. CASE RemoveCertDir
    <3>1. /\ run.step = "removeDir" /\ run.writing = NoWrite /\ run' = [run EXCEPT !.step = "read"]
          /\ files' = [files EXCEPT !["key"] = Missing, !["crt"] = Missing]
          /\ certDirs' = certDirs - 1
          /\ UNCHANGED <<folders, overwritten, settled, last, faults, fixedVars>>
      BY <2>2 DEF RemoveCertDir, GoTo
    <3>2. certDirs' \in 0..Depth
      BY <3>1, ConfiguratorAssumption DEF DryInv
    <3>3. (Shapes /\ OwnFolder)'
      BY <3>1, <3>2
    <3>4. (Writing /\ CopyMade)'
      BY <3>1
    <3>5. (Kept /\ Versions /\ Installed)'
      BY <3>1
    <3>6. QED BY <3>3, <3>4, <3>5
  <2>3. CASE CheckFails
    <3>1. PICK c \in Checks :
             run' = [run EXCEPT !.step = c[2], !.failed = IF c[1] = "removeDir" THEN @ ELSE TRUE]
             /\ run.step = c[1]
      BY <2>3 DEF CheckFails
    <3>2. run.step \in Checking /\ c[2] \in BeforeRead
      BY <3>1 DEF Checks
    <3>3. /\ run # Idle /\ run.writing = NoWrite /\ faults' = faults + 1
          /\ UNCHANGED <<files, certDirs, folders, overwritten, settled, last, fixedVars>>
      BY <2>3 DEF CheckFails
    <3>4. (Shapes /\ OwnFolder)'
      BY <3>1, <3>2, <3>3
    <3>5. (Writing /\ CopyMade)'
      BY <3>1, <3>2, <3>3
    <3>6. (Kept /\ Versions /\ Installed)'
      BY <3>1, <3>2, <3>3
    <3>7. QED BY <3>4, <3>5, <3>6
  <2>4. QED BY <1>21, <2>1, <2>2, <2>3
<1>22. CASE MakeCertDir
  <2>1. /\ run.step = "mkdir" /\ run.writing = NoWrite /\ run # Idle
        /\ run' = run \/ run' = [run EXCEPT !.step = "key"]
        /\ UNCHANGED <<files, folders, overwritten, settled, last, faults, fixedVars>>
    BY <1>22 DEF MakeCertDir, MkdirAll, GoTo
  <2>2. certDirs' = certDirs \/ (certDirs # Depth /\ certDirs' = certDirs + 1)
    BY <1>22 DEF MakeCertDir, MkdirAll
  <2>3. certDirs' \in 0..Depth
    BY <2>2, ConfiguratorAssumption
  <2>4. (Shapes /\ OwnFolder)'
    BY <2>1, <2>3
  <2>5. (Writing /\ CopyMade)'
    BY <2>1
  <2>6. (Kept /\ Versions /\ Installed)'
    BY <2>1
  <2>7. QED BY <2>4, <2>5, <2>6
<1>23. ASSUME NEW p \in {"manifest", "config"}, RemoveBackup(p) PROVE CopiesInv'
  BY <1>23, OneEntry DEF RemoveBackup, Removable
<1>24. CASE UNCHANGED vars
  BY <1>24 DEF vars
<1> HIDE DEF CopiesInv, Shapes, OwnFolder, Writing, BeingSaved, BeingWritten, CopyMade, Kept,
            KeptFor, Versions, Parsed, Installed, NewConfig, ConfigFor, IInv, At
<1> QED BY <1>1, <1>2, <1>3, <1>4, <1>5, <1>6, <1>7, <1>8, <1>9, <1>10, <1>11, <1>12, <1>13, <1>14,
           <1>15, <1>16, <1>17, <1>18, <1>19, <1>20, <1>21, <1>22, <1>23, <1>24 DEF Next

-----------------------------------------------------------------------------
(* What a run makes of the manifest, and what a run that ended leaves. *)

\* A run works on the manifest that is in its place, until it replaces it.
RunInv ==
    run # Idle =>
        /\ run.step \notin BeforeRead => run.orig.minor # None
        /\ run.step \notin BeforeRead \cup {"finish"} => files["manifest"] = run.orig
        /\ run.step \in {"config"} \cup Late =>
              run.orig.command # None /\ run.new = Modified(run.orig)
        /\ run.step = "finish" =>
              IF run.flags.dryRun THEN files["manifest"] = run.orig
              ELSE files["manifest"] = run.new \/ BeingWritten("manifest")

\* A manifest that run would not change.
Settled(m) == m \in AllManifests /\ m.minor # None /\ m.command # None /\ Modified(m) = m

\* Where a run came to its end, and nothing failed or was changed since, the runs that
\* follow find nothing to write, and leave no folder.
SettledInv ==
    settled # None =>
        /\ Settled(files["manifest"])
        /\ files["config"] = ConfigFor(files["manifest"].minor)
        /\ files["key"] # Missing /\ files["crt"] # Missing
        /\ run = Idle => DOMAIN folders = settled
        /\ run # Idle =>
              /\ DOMAIN folders \ {run.folder} = settled /\ ~run.numChanges
              /\ ~BeingWritten("manifest") /\ ~BeingWritten("config")
              /\ run.step \notin {"remove", "removeDir"}

\* A config is neither the absence of one nor a truncated one.
LEMMA ConfigIsNeither ==
    ASSUME NEW minor \in Nat, template \in Templates
    PROVE  ConfigFor(minor) \notin {Missing, Partial}
<1>1. getSchedulerAPIVersion(minor) \in {"v1beta1", "v1beta2", "v1"}
  BY DEF getSchedulerAPIVersion
<1>2. ConfigFor(minor) \in AllConfigs
  BY <1>1 DEF ConfigFor, AllConfigs
<1>3. QED BY <1>2, ConfiguratorAssumption

\* The template is one of those that may be installed.
TemplateInv == template \in Templates

LEMMA RunInvInit == Init => RunInv /\ SettledInv /\ TemplateInv
BY DEF Init, RunInv, SettledInv, TemplateInv, Idle

\* Steps with the folder of the certificates and with the files of a backup.
FolderStep ==
    \/ ProbeCertDir \/ RemoveCertDir \/ CheckFails \/ MakeCertDir
    \/ \E p \in {"manifest", "config"} : RemoveBackup(p)

LEMMA FolderStepKeeps ==
    ASSUME FolderStep
    PROVE  /\ UNCHANGED <<settled, template>>
           /\ Shapes => \A p \in {"manifest", "config"} : files'[p] = files[p]
<1> USE DEF fixedVars, operatorVars
<1>1. CASE ProbeCertDir \/ MakeCertDir
  BY <1>1 DEF ProbeCertDir, MakeCertDir, MkdirAll
<1>2. CASE RemoveCertDir
  BY <1>2 DEF RemoveCertDir, Shapes, Places
<1>3. CASE CheckFails
  BY <1>3 DEF CheckFails
<1>4. CASE \E p \in {"manifest", "config"} : RemoveBackup(p)
  BY <1>4 DEF RemoveBackup
<1>5. QED BY <1>1, <1>2, <1>3, <1>4 DEF FolderStep

LEMMA TemplateStep == TemplateInv /\ [Next]_vars => TemplateInv'
<1> SUFFICES ASSUME TemplateInv, [Next]_vars, ~FolderStep PROVE TemplateInv'
  BY FolderStepKeeps DEF TemplateInv
<1> QED
  BY DEF FolderStep, TemplateInv, Next, vars, operatorVars, fixedVars, Start, Between,
       ReplaceManifest, ChangeTemplate, RestoreManifest, CheckFileAccesses, RemoveCreated,
       ReadManifest, ReadFails, MakeFolder, SaveManifest, SaveConfig, Save, CopyKey, CopyCrt, SetManifest, SetFails, CreateConfig,
       CreateConfigFails, ModifyDeployment, WriteManifest, FinishWrite, Finish, Fail, Panic,
       Truncate, OnlyRun, GoTo, At

\* What steps leave of the record of a run.
SameRun ==
    /\ run # Idle /\ run' # Idle
    /\ run'.orig = run.orig /\ run'.numChanges = run.numChanges
SameFolder == run'.folder = run.folder /\ DOMAIN folders' = DOMAIN folders

LEMMA StepsOfRun ==
    ASSUME Shapes
    PROVE  /\ MakeFolder => /\ SameRun /\ UNCHANGED <<files, settled, template>>
                            /\ run.step = "backup" /\ run'.step \in {"saveManifest", "mkdir"}
           /\ SaveManifest \/ SaveConfig =>
                  /\ SameRun /\ SameFolder /\ UNCHANGED <<files, settled, template>>
                  /\ run.step \in {"saveManifest", "saveConfig"}
                       /\ run'.step \in {"saveConfig", "mkdir"}
                  /\ run'.writing.saved = TRUE
           /\ ReadManifest =>
                  /\ run # Idle /\ run' # Idle /\ run'.numChanges = run.numChanges
                  /\ SameFolder /\ UNCHANGED <<files, settled, template>>
                  /\ run'.writing = NoWrite /\ run'.step \in {"set", "backup"}
           /\ MakeCertDir =>
                  /\ SameRun /\ SameFolder /\ UNCHANGED <<files, folders, settled, template>>
                  /\ run.step = "mkdir" /\ run'.step \in {"mkdir", "key"}
                  /\ run'.writing = NoWrite
           /\ SetManifest =>
                  /\ SameRun /\ SameFolder /\ UNCHANGED <<files, settled, template>>
                  /\ run.step = "set" /\ run'.step = "config" /\ run'.writing = NoWrite
<1> USE DEF Shapes, Idle, Fields, At, SameRun, SameFolder, operatorVars, fixedVars
<1>1. ASSUME MakeFolder
      PROVE  /\ SameRun /\ UNCHANGED <<files, settled, template>>
             /\ run.step = "backup" /\ run'.step \in {"saveManifest", "mkdir"}
  <2>1. run.step = "backup" /\ run # Idle /\ DOMAIN run = Fields
    BY <1>1 DEF MakeFolder
  <2>2. QED BY <1>1, <2>1 DEF MakeFolder, GoTo
<1>2. ASSUME SaveManifest \/ SaveConfig
      PROVE  /\ SameRun /\ SameFolder /\ UNCHANGED <<files, settled, template>>
             /\ run.step \in {"saveManifest", "saveConfig"} /\ run'.step \in {"saveConfig", "mkdir"}
             /\ run'.writing.saved = TRUE
  <2>1. run.step \in {"saveManifest", "saveConfig"} /\ run # Idle /\ DOMAIN run = Fields
    BY <1>2 DEF SaveManifest, SaveConfig
  <2>2. PICK p \in {"manifest", "config"}, next \in {"saveConfig", "mkdir"} : Save(p, next)
    <3> HIDE DEF At
    <3>1. CASE SaveConfig
      BY <3>1 DEF SaveConfig
    <3>2. CASE SaveManifest
      <4>1. Save("manifest", "mkdir") \/ Save("manifest", "saveConfig")
        BY <3>2 DEF SaveManifest
      <4>2. QED BY <4>1
    <3>3. QED BY <1>2, <3>1, <3>2
  <2>3. SameRun /\ run'.step = next /\ run'.writing.saved = TRUE
    BY <2>1, <2>2 DEF Save
  <2>4. DOMAIN folders' = DOMAIN folders /\ run'.folder = run.folder
    BY <2>1, <2>2 DEF Save
  <2>5. QED BY <2>1, <2>2, <2>3, <2>4 DEF Save
<1>3. ASSUME ReadManifest
      PROVE  /\ run # Idle /\ run' # Idle /\ run'.numChanges = run.numChanges
             /\ SameFolder /\ UNCHANGED <<files, settled, template>>
             /\ run'.writing = NoWrite /\ run'.step \in {"set", "backup"}
  <2>1. run.step = "read" /\ run.writing = NoWrite /\ run # Idle /\ DOMAIN run = Fields
    BY <1>3 DEF ReadManifest
  <2>2. QED BY <1>3, <2>1 DEF ReadManifest, OnlyRun
<1>4. ASSUME SetManifest
      PROVE  /\ SameRun /\ SameFolder /\ UNCHANGED <<files, settled, template>>
             /\ run.step = "set" /\ run'.step = "config" /\ run'.writing = NoWrite
  <2>1. run.step = "set" /\ run.writing = NoWrite /\ run # Idle /\ DOMAIN run = Fields
    BY <1>4 DEF SetManifest
  <2>2. QED BY <1>4, <2>1 DEF SetManifest, OnlyRun
<1>5. ASSUME MakeCertDir
      PROVE  /\ SameRun /\ SameFolder /\ UNCHANGED <<files, folders, settled, template>>
             /\ run.step = "mkdir" /\ run'.step \in {"mkdir", "key"} /\ run'.writing = NoWrite
  <2>1. run.step = "mkdir" /\ run.writing = NoWrite /\ run # Idle /\ DOMAIN run = Fields
    BY <1>5 DEF MakeCertDir, MkdirAll
  <2>2. QED BY <1>5, <2>1 DEF MakeCertDir, MkdirAll, GoTo
<1>6. QED BY <1>1, <1>2, <1>3, <1>4, <1>5

\* A run truncates a file in its place.
LEMMA Truncated ==
    ASSUME Shapes, NEW p \in Places, NEW step \in Places \cup {"set"}, NEW content,
           At(p), Truncate(p, content, [run EXCEPT !.step = step])
    PROVE  /\ SameRun /\ SameFolder /\ UNCHANGED <<settled, template>>
           /\ files' = [files EXCEPT ![p] = Partial] /\ run'.writing.file = p
           /\ run'.step = step /\ run.step = p
<1>1. run.step = p /\ run.step # "idle" /\ step # "idle"
  BY DEF At, Places
<1>2. run # Idle /\ DOMAIN run = Fields
  BY <1>1 DEF Shapes, Idle
<1>3. QED BY <1>1, <1>2 DEF Truncate, SameRun, SameFolder, Fields, Idle, operatorVars, fixedVars

LEMMA CertsTruncated ==
    ASSUME Shapes, CopyKey \/ CopyCrt
    PROVE  \E p \in {"key", "crt"}, next \in {"crt", "set"} :
               /\ SameRun /\ SameFolder /\ UNCHANGED <<settled, template>>
               /\ files' = [files EXCEPT ![p] = Partial] /\ run'.writing.file = p
               /\ run'.step = next /\ run.step = p
<1>1. CASE CopyKey
  <2>1. At("key") /\ Truncate("key", "ca.key", [run EXCEPT !.step = "crt"])
    BY <1>1 DEF CopyKey
  <2>2. "key" \in Places /\ "crt" \in Places \cup {"set"}
    BY DEF Places
  <2>3. QED BY <2>1, <2>2, Truncated
<1>2. CASE CopyCrt
  <2>1. At("crt") /\ Truncate("crt", "ca.crt", [run EXCEPT !.step = "set"])
    BY <1>2 DEF CopyCrt
  <2>2. "crt" \in Places /\ "set" \in Places \cup {"set"}
    BY DEF Places
  <2>3. QED BY <2>1, <2>2, Truncated
<1>3. QED BY <1>1, <1>2

\* A run does not change what it works on.
LEMMA RunStep == IInv /\ RunInv /\ [Next]_vars => RunInv'
<1> SUFFICES ASSUME IInv, RunInv, [Next]_vars PROVE RunInv'
  OBVIOUS
<1> USE DEF Fields, Steps, DrySteps, Checking, Copying, BeforeRead, BeforeBackup, Unchanged, Late,
            Idle, NoWrite, operatorVars, fixedVars, Places, At
<1> USE DEF IInv, CopiesInv, Shapes, DryInv, Writing, BeingWritten, RunInv
<1>1. ASSUME NEW f \in Invocations, Start(f) PROVE RunInv'
  BY <1>1 DEF Start
<1>2. ASSUME NEW m \in Manifests, ReplaceManifest(m) PROVE RunInv'
  BY <1>2 DEF ReplaceManifest, Between
<1>3. ASSUME NEW t \in Templates, ChangeTemplate(t) PROVE RunInv'
  BY <1>3 DEF ChangeTemplate, Between
<1>4. ASSUME NEW i \in DOMAIN folders, RestoreManifest(i) PROVE RunInv'
  BY <1>4 DEF RestoreManifest
<1>5. CASE CheckFileAccesses \/ RemoveCreated
  BY <1>5 DEF CheckFileAccesses, RemoveCreated, GoTo
<1>6. CASE ReadManifest
  BY <1>6 DEF ReadManifest, Readable, OnlyRun
<1>7. CASE ReadFails \/ SetFails \/ CreateConfigFails \/ Fail
  BY <1>7 DEF ReadFails, SetFails, CreateConfigFails, Fail, Panic, End
<1>8. CASE MakeFolder
  BY <1>8, StepsOfRun DEF SameRun
<1>9. CASE SaveManifest \/ SaveConfig
  BY <1>9, StepsOfRun DEF SameRun
<1>10. CASE CopyKey \/ CopyCrt
  <2>1. PICK p \in {"key", "crt"}, next \in {"crt", "set"} :
           SameRun /\ files' = [files EXCEPT ![p] = Partial] /\ run'.step = next /\ run.step = p
    BY <1>10, CertsTruncated
  <2>2. QED BY <2>1 DEF SameRun
<1>11. CASE SetManifest
  BY <1>11 DEF SetManifest, OnlyRun
<1>12. CASE CreateConfig
  <2>1. CASE GoTo("tas") /\ OnlyRun
    BY <1>12, <2>1 DEF CreateConfig, GoTo, OnlyRun
  <2>2. CASE Truncate("config", NewConfig, [run EXCEPT !.step = "tas", !.numChanges = TRUE])
    BY <1>12, <2>2 DEF CreateConfig, Truncate
  <2> QED BY <1>12, <2>1, <2>2 DEF CreateConfig
<1>13. CASE ModifyDeployment("tas", "gas")
  <2>1. CASE GoTo("gas") /\ OnlyRun
    BY <1>13, <2>1 DEF ModifyDeployment, GoTo, OnlyRun
  <2>2. CASE Truncate("tas", Renamed(files["tas"]), [run EXCEPT !.step = "gas"])
    BY <1>13, <2>2 DEF ModifyDeployment, Truncate
  <2> QED BY <1>13, <2>1, <2>2 DEF ModifyDeployment
<1>14. CASE ModifyDeployment("gas", "manifest")
  <2>1. CASE GoTo("manifest") /\ OnlyRun
    BY <1>14, <2>1 DEF ModifyDeployment, GoTo, OnlyRun
  <2>2. CASE Truncate("gas", Renamed(files["gas"]), [run EXCEPT !.step = "manifest"])
    BY <1>14, <2>2 DEF ModifyDeployment, Truncate
  <2> QED BY <1>14, <2>1, <2>2 DEF ModifyDeployment
<1>15. CASE WriteManifest
  <2>1. CASE (run.flags.dryRun \/ run.new = run.orig) /\ GoTo("finish") /\ OnlyRun
    BY <1>15, <2>1 DEF WriteManifest, GoTo, OnlyRun
  <2>2. CASE /\ ~run.flags.dryRun
             /\ Truncate("manifest", run.new, [run EXCEPT !.step = "finish", !.numChanges = TRUE])
    BY <1>15, <2>2 DEF WriteManifest, Truncate
  <2> QED BY <1>15, <2>1, <2>2 DEF WriteManifest
<1>16. CASE FinishWrite
  <2>1. CASE run.writing.saved
    BY <1>16, <2>1 DEF FinishWrite
  <2>2. CASE ~run.writing.saved
    BY <1>16, <2>2 DEF FinishWrite
  <2> QED BY <2>1, <2>2
<1>17. CASE Finish
  BY <1>17 DEF Finish, End
<1>18. CASE ProbeCertDir \/ RemoveCertDir \/ CheckFails
  <2>1. CASE ProbeCertDir
    BY <2>1 DEF ProbeCertDir, MkdirAll, GoTo
  <2>2. CASE RemoveCertDir
    BY <2>2 DEF RemoveCertDir, GoTo
  <2>3. CASE CheckFails
    BY <2>3 DEF CheckFails, Checks
  <2>4. QED BY <1>18, <2>1, <2>2, <2>3
<1>19. CASE MakeCertDir
  BY <1>19, StepsOfRun DEF SameRun
<1>20. ASSUME NEW p \in {"manifest", "config"}, RemoveBackup(p) PROVE RunInv'
  BY <1>20 DEF RemoveBackup
<1>21. CASE UNCHANGED vars
  BY <1>21 DEF vars
<1> HIDE DEF IInv, CopiesInv, Shapes, DryInv, Writing, BeingWritten, RunInv, At
<1> QED BY <1>1, <1>2, <1>3, <1>4, <1>5, <1>6, <1>7, <1>8, <1>9, <1>10, <1>11, <1>12, <1>13, <1>14,
           <1>15, <1>16, <1>17, <1>18, <1>19, <1>20, <1>21 DEF Next

\* The manifest of a run that reached its end is one that it would not change again.
LEMMA MadeIsSettled ==
    ASSUME IInv, RunInv, run # Idle, run.step \in {"config"} \cup Late
    PROVE  Settled(run.new) /\ run.new.minor = run.orig.minor
<1>1. run.orig \in AllManifests /\ run.orig.command # None /\ run.orig.minor # None
  BY DEF IInv, CopiesInv, Versions, Parsed, RunInv, BeforeRead, Checking, Late
<1>2. run.new = Modified(run.orig)
  BY DEF RunInv
<1>3. QED BY <1>1, <1>2, ManifestSet DEF Settled

LEMMA SettledStep ==
    IInv /\ RunInv /\ SettledInv /\ TemplateInv /\ [Next]_vars => SettledInv'
<1> SUFFICES ASSUME IInv, RunInv, SettledInv, TemplateInv, [Next]_vars, settled' # None
             PROVE  SettledInv'
  BY DEF SettledInv
<1> USE DEF Fields, Steps, DrySteps, Checking, Copying, BeforeRead, BeforeBackup, Unchanged, Late,
            Idle, NoWrite, operatorVars, fixedVars, Places, At
<1> USE DEF IInv, CopiesInv, Shapes, DryInv, OwnFolder, Writing, BeingWritten, RunInv, SettledInv, ConfigFor,
            NewConfig
<1>0. settled # None => files["config"] \notin {Missing, Partial}
  <2>1. settled # None => files["manifest"].minor \in Nat
    BY DEF Settled, AllManifests
  <2>2. QED BY <2>1, ConfigIsNeither DEF TemplateInv
<1>1. ASSUME NEW f \in Invocations, Start(f) PROVE SettledInv'
  <2>1. None \notin DOMAIN folders
    BY ConfiguratorAssumption
  <2>2. QED BY <1>1, <2>1 DEF Start
<1>2. ASSUME NEW m \in Manifests, ReplaceManifest(m) PROVE SettledInv'
  BY <1>2 DEF ReplaceManifest, Between, Forget
<1>3. ASSUME NEW t \in Templates, ChangeTemplate(t) PROVE SettledInv'
  BY <1>3 DEF ChangeTemplate, Between, Forget
<1>4. ASSUME NEW i \in DOMAIN folders, RestoreManifest(i) PROVE SettledInv'
  BY <1>4 DEF RestoreManifest, Forget
<1>5. CASE CheckFileAccesses
  BY <1>0, <1>5 DEF CheckFileAccesses, GoTo
<1>6. CASE RemoveCreated
  BY <1>6 DEF RemoveCreated, GoTo
<1>7. CASE ReadManifest
  BY <1>7, StepsOfRun DEF SameFolder
<1>8. CASE ReadFails \/ SetFails \/ CreateConfigFails \/ Fail
  BY <1>8 DEF ReadFails, SetFails, CreateConfigFails, Fail, Panic, End
<1>9. CASE MakeFolder
  <2>1. CASE run.flags.backup
    <3>1. /\ DOMAIN folders' = DOMAIN folders \cup {runs} /\ UNCHANGED <<files, settled, template>>
          /\ run' = [run EXCEPT !.step = "saveManifest", !.folder = runs]
      BY <1>9, <2>1 DEF MakeFolder
    <3>2. runs \notin DOMAIN folders /\ run.folder = None /\ run # Idle /\ run.step = "backup"
      BY <1>9 DEF MakeFolder
    <3>3. None \notin DOMAIN folders
      BY ConfiguratorAssumption
    <3>4. DOMAIN folders' \ {runs} = DOMAIN folders \ {None}
      BY <3>1, <3>2, <3>3
    <3>5. /\ run' # Idle /\ run'.folder = runs /\ run'.numChanges = run.numChanges
          /\ run'.writing = run.writing /\ run'.step \notin {"remove", "removeDir"}
      BY <3>1, <3>2
    <3>6. QED BY <3>1, <3>2, <3>4, <3>5
  <2>2. CASE ~run.flags.backup
    BY <1>9, <2>2 DEF MakeFolder, GoTo
  <2>3. QED BY <2>1, <2>2
<1>10. CASE SaveManifest \/ SaveConfig
  <2>1. DOMAIN folders' = DOMAIN folders /\ UNCHANGED <<files, settled, template>>
    BY <1>10 DEF SaveManifest, SaveConfig, Save
  <2>2. PICK p \in {"manifest", "config"}, next \in {"mkdir", "saveConfig"} :
          run' = [run EXCEPT !.step = next,
                      !.writing = [file |-> p, content |-> files[p], saved |-> TRUE]]
    BY <1>10 DEF SaveManifest, SaveConfig, Save
  <2>3. run # Idle
    BY <1>10 DEF SaveManifest, SaveConfig
  <2>4. QED BY <2>1, <2>2, <2>3
<1>11. CASE CopyKey \/ CopyCrt
  <2>1. Partial # Missing
    BY ConfiguratorAssumption
  <2>2. PICK p \in {"key", "crt"}, next \in {"crt", "set"} :
          /\ SameRun /\ SameFolder /\ UNCHANGED <<settled, template>>
          /\ files' = [files EXCEPT ![p] = Partial] /\ run'.writing.file = p /\ run'.step = next
    BY <1>11, CertsTruncated
  <2>3. QED BY <2>1, <2>2 DEF SameRun, SameFolder
<1>12. CASE SetManifest
  BY <1>12, StepsOfRun DEF SameRun, SameFolder
<1>13. CASE CreateConfig
  <2>1. CASE GoTo("tas") /\ OnlyRun
    BY <1>13, <2>1 DEF CreateConfig, GoTo, OnlyRun
  <2>2. CASE /\ files["config"] # NewConfig
             /\ Truncate("config", NewConfig, [run EXCEPT !.step = "tas", !.numChanges = TRUE])
    <3>1. settled # None /\ files["manifest"] = run.orig
      BY <1>13, <2>2 DEF CreateConfig, Truncate
    <3>2. QED BY <2>2, <3>1
  <2> QED BY <1>13, <2>1, <2>2 DEF CreateConfig
<1>14. CASE ModifyDeployment("tas", "gas")
  <2>1. CASE GoTo("gas") /\ OnlyRun
    BY <1>14, <2>1 DEF ModifyDeployment, GoTo, OnlyRun
  <2>2. CASE Truncate("tas", Renamed(files["tas"]), [run EXCEPT !.step = "gas"])
    <3>0. PICK content : content = Renamed(files["tas"])
      OBVIOUS
    <3>1. /\ SameRun /\ SameFolder /\ UNCHANGED <<settled, template>>
          /\ files' = [files EXCEPT !["tas"] = Partial] /\ run'.writing.file = "tas"
          /\ run'.step = "gas"
      <4>1. At("tas") /\ Truncate("tas", content, [run EXCEPT !.step = "gas"]) /\ Shapes
        BY <1>14, <2>2, <3>0 DEF ModifyDeployment
      <4> HIDE DEF At, Shapes, IInv
      <4>2. QED BY <4>1, Truncated
    <3>2. QED BY <3>1 DEF SameRun, SameFolder
  <2> QED BY <1>14, <2>1, <2>2 DEF ModifyDeployment
<1>15. CASE ModifyDeployment("gas", "manifest")
  <2>1. CASE GoTo("manifest") /\ OnlyRun
    BY <1>15, <2>1 DEF ModifyDeployment, GoTo, OnlyRun
  <2>2. CASE Truncate("gas", Renamed(files["gas"]), [run EXCEPT !.step = "manifest"])
    <3>0. PICK content : content = Renamed(files["gas"])
      OBVIOUS
    <3>1. /\ SameRun /\ SameFolder /\ UNCHANGED <<settled, template>>
          /\ files' = [files EXCEPT !["gas"] = Partial] /\ run'.writing.file = "gas"
          /\ run'.step = "manifest"
      <4>1. At("gas") /\ Truncate("gas", content, [run EXCEPT !.step = "manifest"]) /\ Shapes
        BY <1>15, <2>2, <3>0 DEF ModifyDeployment
      <4> HIDE DEF At, Shapes, IInv
      <4>2. QED BY <4>1, Truncated
    <3>2. QED BY <3>1 DEF SameRun, SameFolder
  <2> QED BY <1>15, <2>1, <2>2 DEF ModifyDeployment
<1>16. CASE WriteManifest
  <2>1. CASE GoTo("finish") /\ OnlyRun
    BY <1>16, <2>1 DEF WriteManifest, GoTo, OnlyRun
  <2>2. CASE /\ run.new # run.orig
             /\ Truncate("manifest", run.new, [run EXCEPT !.step = "finish", !.numChanges = TRUE])
    <3>1. settled # None /\ files["manifest"] = run.orig /\ run.new = Modified(run.orig)
      BY <1>16, <2>2 DEF WriteManifest, Truncate
    <3>2. QED BY <2>2, <3>1 DEF Settled
  <2> QED BY <1>16, <2>1, <2>2 DEF WriteManifest
<1>17. CASE FinishWrite
  <2>1. CASE run.writing.saved
    <3>1. DOMAIN folders' = DOMAIN folders /\ UNCHANGED <<files, settled, template>>
      BY <1>17, <2>1 DEF FinishWrite
    <3>2. QED BY <1>17, <3>1 DEF FinishWrite
  <2>2. CASE ~run.writing.saved
    <3>1. "ca.key" # Missing /\ "ca.crt" # Missing
      BY ConfiguratorAssumption
    <3>2. QED BY <1>17, <2>2, <3>1 DEF FinishWrite
  <2> QED BY <2>1, <2>2
<1>18. CASE Finish
  <2>1. run # Idle /\ run.step = "finish" /\ run.writing = NoWrite /\ run' = Idle
        /\ UNCHANGED <<files, template>> /\ folders' = FoldersLeft
    BY <1>18 DEF Finish, End
  <2>2. CASE settled # None
    <3>1. settled' = settled
      BY <1>18, <2>2 DEF Finish
    <3>2. None \notin DOMAIN folders
      BY ConfiguratorAssumption
    <3>3. DOMAIN folders' = settled
      BY <2>1, <2>2, <3>2 DEF FoldersLeft, Removable
    <3>4. QED BY <2>1, <2>2, <3>1, <3>3
  <2>3. CASE settled = None
    <3>1. ~run.flags.dryRun /\ settled' = DOMAIN folders'
      BY <1>18, <2>3 DEF Finish
    <3>2. files["manifest"] = run.new /\ Settled(run.new) /\ run.new.minor = run.orig.minor
      BY <2>1, <3>1, MadeIsSettled
    <3>3. /\ files["config"] = ConfigFor(run.orig.minor)
          /\ files["key"] = "ca.key" /\ files["crt"] = "ca.crt"
      BY <2>1, <3>1 DEF Installed
    <3>4. "ca.key" # Missing /\ "ca.crt" # Missing
      BY ConfiguratorAssumption
    <3>5. QED BY <2>1, <3>1, <3>2, <3>3, <3>4
  <2>4. QED BY <2>2, <2>3
<1>19. CASE ProbeCertDir \/ RemoveCertDir \/ CheckFails
  <2>1. CASE ProbeCertDir
    BY <2>1 DEF ProbeCertDir, MkdirAll, GoTo, CertsInDir
  <2>2. CASE RemoveCertDir
    BY <2>2 DEF RemoveCertDir, GoTo
  <2>3. CASE CheckFails
    <3>1. PICK c \in Checks :
             run' = [run EXCEPT !.step = c[2],
                                !.failed = IF c[1] = "removeDir" THEN @ ELSE TRUE]
      BY <2>3 DEF CheckFails, Checks
    <3>2. run # Idle /\ UNCHANGED <<files, folders, settled, template>>
      BY <2>3 DEF CheckFails
    <3>3. c[2] \in {"check", "certDir", "read"}
      BY DEF Checks
    <3>4. /\ run' # Idle /\ run'.folder = run.folder /\ run'.numChanges = run.numChanges
          /\ run'.writing = run.writing /\ run'.step = c[2]
      BY <3>1, <3>2, <3>3
    <3>5. QED BY <3>2, <3>3, <3>4
  <2>4. QED BY <1>19, <2>1, <2>2, <2>3
<1>20. CASE MakeCertDir
  BY <1>20, StepsOfRun DEF SameRun, SameFolder
<1>21. ASSUME NEW p \in {"manifest", "config"}, RemoveBackup(p) PROVE SettledInv'
  <2>1. DOMAIN folders' = DOMAIN folders /\ UNCHANGED <<files, run, settled, template>>
    BY <1>21 DEF RemoveBackup
  <2>2. QED BY <2>1
<1>22. CASE UNCHANGED vars
  BY <1>22 DEF vars
<1> HIDE DEF IInv, CopiesInv, Shapes, DryInv, OwnFolder, Writing, BeingWritten, RunInv, SettledInv,
            At
<1> QED BY <1>1, <1>2, <1>3, <1>4, <1>5, <1>6, <1>7, <1>8, <1>9, <1>10, <1>11, <1>12, <1>13, <1>14,
           <1>15, <1>16, <1>17, <1>18, <1>19, <1>20, <1>21, <1>22 DEF Next

-----------------------------------------------------------------------------
(* Values of flags. *)

\* In the manifests that an installer writes a flag that will be dropped has its value
\* with it or after it.
ManifestsWhole == \A m \in Manifests : m.command # None => ArgsWhole(m.command)

\* So it is in the manifests that are in place, in a backup, or read by a run.
Whole(m) == m.command # None => ArgsWhole(m.command)
WholeInv ==
    /\ files["manifest"] # Partial => Whole(files["manifest"])
    /\ \A i \in DOMAIN folders :
          folders[i]["manifest"] \notin {Missing, Partial} => Whole(folders[i]["manifest"])
    /\ run # Idle /\ run.step \notin BeforeRead => Whole(run.orig)

LEMMA WholeInit == ManifestsWhole /\ Init => WholeInv
BY DEF ManifestsWhole, Init, WholeInv, Whole, Places, Idle

\* A run makes a whole manifest of a whole one.
LEMMA MadeIsWhole ==
    ASSUME IInv, RunInv, WholeInv, run # Idle, run.step \in {"config"} \cup Late
    PROVE  Whole(run.new)
<1>1. run.orig \in AllManifests /\ run.orig.command # None /\ Whole(run.orig)
  BY DEF IInv, CopiesInv, Versions, Parsed, RunInv, BeforeRead, Checking, Late, WholeInv
<1>2. run.new = Modified(run.orig)
  BY DEF RunInv
<1>3. QED BY <1>1, <1>2, ManifestSet DEF Whole

\* What steps leave alone of what WholeInv is about.
SameContents == /\ files'["manifest"] \in {files["manifest"], Partial}
                /\ UNCHANGED folders
                /\ run' # Idle /\ run'.step \notin BeforeRead =>
                      run # Idle /\ run.step \notin BeforeRead /\ run'.orig = run.orig

LEMMA SameWhole ==
    ASSUME WholeInv, SameContents
    PROVE  WholeInv'
BY DEF WholeInv, SameContents, Whole

LEMMA WholeStep ==
    ManifestsWhole /\ IInv /\ RunInv /\ WholeInv /\ [Next]_vars => WholeInv'
<1> SUFFICES ASSUME ManifestsWhole, IInv, RunInv, WholeInv, [Next]_vars PROVE WholeInv'
  OBVIOUS
<1> USE DEF Places, Idle, BeforeRead, Checking, IInv, CopiesInv, Shapes
<1>1. ASSUME NEW f \in Invocations, Start(f) PROVE WholeInv'
  <2>1. SameContents
    BY <1>1 DEF Start, SameContents, operatorVars, fixedVars
  <2>2. QED BY <2>1, SameWhole
<1>2. ASSUME NEW m \in Manifests, ReplaceManifest(m) PROVE WholeInv'
  BY <1>2 DEF ReplaceManifest, Between, ManifestsWhole, WholeInv, Whole
<1>3. ASSUME NEW t \in Templates, ChangeTemplate(t) PROVE WholeInv'
  BY <1>3, SameWhole DEF ChangeTemplate, Between, SameContents
<1>4. ASSUME NEW i \in DOMAIN folders, RestoreManifest(i) PROVE WholeInv'
  BY <1>4 DEF RestoreManifest, WholeInv, Whole
<1>5. CASE CheckFileAccesses \/ RemoveCreated
  <2>1. SameContents
    BY <1>5 DEF CheckFileAccesses, RemoveCreated, GoTo, At, NoWrite, SameContents, Fields
  <2>2. QED BY <2>1, SameWhole
<1>6. CASE ReadManifest
  <2>1. files["manifest"] # Partial /\ UNCHANGED <<files, folders>>
    BY <1>6 DEF ReadManifest, Readable, OnlyRun
  <2>2. run'.orig = files["manifest"]
    BY <1>6 DEF ReadManifest, At, Fields
  <2>3. QED BY <2>1, <2>2 DEF WholeInv, Whole
<1>7. CASE ReadFails \/ SetFails \/ CreateConfigFails \/ Fail
  BY <1>7 DEF ReadFails, SetFails, CreateConfigFails, Fail, Panic, End, WholeInv, Whole
<1>8. CASE MakeFolder
  <2>1. SameRun /\ UNCHANGED files /\ run.step = "backup"
    BY <1>8, StepsOfRun
  <2>2. \A i \in DOMAIN folders' :
           \/ i \in DOMAIN folders /\ folders'[i] = folders[i]
           \/ folders'[i]["manifest"] = Missing
    BY <1>8 DEF MakeFolder
  <2>3. QED BY <2>1, <2>2 DEF WholeInv, Whole, SameRun
<1>9. CASE SaveManifest \/ SaveConfig
  <2>1. SameRun /\ UNCHANGED files /\ run.step \in {"saveManifest", "saveConfig"}
    BY <1>9, StepsOfRun
  <2>2. PICK p \in {"manifest", "config"} : folders' = [folders EXCEPT ![run.folder][p] = Partial]
    BY <1>9 DEF SaveManifest, SaveConfig, Save
  <2>3. \A i \in DOMAIN folders : folders'[i]["manifest"] \in {folders[i]["manifest"], Partial}
    BY <2>2, OneEntry
  <2>4. DOMAIN folders' = DOMAIN folders
    BY <2>2
  <2>5. QED BY <2>1, <2>3, <2>4 DEF WholeInv, Whole, SameRun
<1>10. CASE CopyKey \/ CopyCrt
  <2>1. PICK p \in {"key", "crt"}, next \in {"crt", "set"} :
           SameRun /\ files' = [files EXCEPT ![p] = Partial] /\ run'.step = next /\ run.step = p
    BY <1>10, CertsTruncated
  <2>2. UNCHANGED folders
    BY <1>10 DEF CopyKey, CopyCrt, Truncate
  <2>3. SameContents
    BY <2>1, <2>2 DEF SameContents, SameRun
  <2>4. QED BY <2>3, SameWhole
<1>11. CASE SetManifest
  <2>1. SameRun /\ UNCHANGED files /\ run.step = "set" /\ run'.step = "config"
    BY <1>11, StepsOfRun
  <2>2. UNCHANGED folders
    BY <1>11 DEF SetManifest, OnlyRun
  <2>3. SameContents
    BY <2>1, <2>2 DEF SameContents, SameRun
  <2>4. QED BY <2>3, SameWhole
<1>12. CASE CreateConfig \/ WriteManifest
  <2>1. SameContents
    <3>1. run # Idle /\ run.step \in {"config", "manifest"} /\ DOMAIN run = Fields
      BY <1>12 DEF CreateConfig, WriteManifest, At
    <3>2. UNCHANGED folders /\ files'["manifest"] \in {files["manifest"], Partial}
      BY <1>12 DEF CreateConfig, WriteManifest, Truncate, OnlyRun
    <3>3. run'.orig = run.orig
      BY <1>12, <3>1 DEF CreateConfig, WriteManifest, Truncate, GoTo, Fields
    <3>4. QED BY <3>1, <3>2, <3>3 DEF SameContents
  <2>2. QED BY <2>1, SameWhole
<1>13. CASE ModifyDeployment("tas", "gas") \/ ModifyDeployment("gas", "manifest")
  <2>1. SameContents
    <3>1. run # Idle /\ run.step \in {"tas", "gas"} /\ DOMAIN run = Fields
      BY <1>13 DEF ModifyDeployment, At
    <3>2. UNCHANGED folders /\ files'["manifest"] = files["manifest"]
      BY <1>13 DEF ModifyDeployment, Truncate, OnlyRun
    <3>3. run'.orig = run.orig
      BY <1>13, <3>1 DEF ModifyDeployment, Truncate, GoTo, Fields
    <3>4. QED BY <3>1, <3>2, <3>3 DEF SameContents
  <2>2. QED BY <2>1, SameWhole
<1>14. CASE FinishWrite
  <2>1. run # Idle /\ run.writing # NoWrite /\ run' # Idle /\ run'.orig = run.orig
        /\ run'.step = run.step
    BY <1>14 DEF FinishWrite, Fields
  <2>2. CASE run.writing.saved = TRUE
    <3>1. PICK p \in {"manifest", "config"} :
             folders' = [folders EXCEPT ![run.folder][p] = files[p]] /\ UNCHANGED files
      BY <1>14, <2>1, <2>2 DEF FinishWrite, Writing
    <3>2. DOMAIN folders' = DOMAIN folders
          /\ \A i \in DOMAIN folders :
                folders'[i]["manifest"] \in {folders[i]["manifest"], files["manifest"]}
      BY <3>1, OneEntry
    <3>3. QED BY <2>1, <3>1, <3>2 DEF WholeInv, Whole
  <2>3. CASE run.writing.saved = FALSE
    <3>1. UNCHANGED folders
          /\ files' = [files EXCEPT ![run.writing.file] = run.writing.content]
      BY <1>14, <2>3 DEF FinishWrite
    <3>2. CASE run.writing.file = "manifest"
      <4>1. files'["manifest"] = run.new /\ run.step = "finish"
        BY <2>1, <2>3, <3>1, <3>2 DEF Writing
      <4>2. Whole(run.new)
        BY <2>1, <4>1, MadeIsWhole DEF Late
      <4>3. QED BY <2>1, <3>1, <4>1, <4>2 DEF WholeInv, Whole
    <3>3. CASE run.writing.file # "manifest"
      <4>1. SameContents
        BY <2>1, <3>1, <3>3 DEF SameContents
      <4>2. QED BY <4>1, SameWhole
    <3>4. QED BY <3>2, <3>3
  <2>4. QED BY <2>1, <2>2, <2>3 DEF Writing
<1>15. CASE Finish
  <2>1. run' = Idle /\ UNCHANGED files /\ folders' = FoldersLeft
    BY <1>15 DEF Finish, End
  <2>2. \A i \in DOMAIN folders' : i \in DOMAIN folders /\ folders'[i] = folders[i]
    BY <2>1 DEF FoldersLeft
  <2>3. QED BY <2>1, <2>2 DEF WholeInv, Whole
<1>16. CASE ProbeCertDir \/ RemoveCertDir \/ CheckFails
  <2>1. SameContents
    <3>1. CASE ProbeCertDir
      BY <3>1 DEF ProbeCertDir, MkdirAll, GoTo, At, SameContents, Fields
    <3>2. CASE RemoveCertDir
      BY <3>2 DEF RemoveCertDir, GoTo, At, SameContents, Fields
    <3>3. CASE CheckFails
      BY <3>3 DEF CheckFails, Checks, SameContents, Fields
    <3>4. QED BY <1>16, <3>1, <3>2, <3>3
  <2>2. QED BY <2>1, SameWhole
<1>17. CASE MakeCertDir
  <2>1. SameContents
    BY <1>17, StepsOfRun DEF SameContents, SameRun
  <2>2. QED BY <2>1, SameWhole
<1>18. ASSUME NEW p \in {"manifest", "config"}, RemoveBackup(p) PROVE WholeInv'
  <2>1. UNCHANGED <<files, run>> /\ folders' = [folders EXCEPT ![run.folder][p] = Missing]
    BY <1>18 DEF RemoveBackup
  <2>2. DOMAIN folders' = DOMAIN folders
        /\ \A i \in DOMAIN folders : folders'[i]["manifest"] \in {folders[i]["manifest"], Missing}
    BY <2>1, OneEntry
  <2>3. QED BY <2>1, <2>2 DEF WholeInv, Whole
<1>19. CASE UNCHANGED vars
  BY <1>19 DEF vars, WholeInv, Whole
<1> HIDE DEF IInv, CopiesInv, Shapes
<1> QED BY <1>1, <1>2, <1>3, <1>4, <1>5, <1>6, <1>7, <1>8, <1>9, <1>10, <1>11, <1>12, <1>13, <1>14,
           <1>15, <1>16, <1>17, <1>18, <1>19 DEF Next

-----------------------------------------------------------------------------
(* What is proved. *)

\* Whatever runs with backups replaced, of the manifest and of the config, is in
\* some backup folder: createBackups copies both before a run's first write, and
\* the folder of a run that replaced something is never removed.
THEOREM BackupsSafe == Spec => []BackupsComplete
<1>1. IInv => BackupsComplete
  BY DEF IInv, CopiesInv, Kept, KeptFor, BackupsComplete, Saved
<1> QED BY InitIInv, StepIInv, <1>1, PTL DEF Spec

\* During a dry run and after it, whichever way it ended, files and folders are what
\* they were before, but for the traces of the check of the accesses: an empty config
\* where there was none, if something kept the check from removing it, the missing
\* folders above certDir, and certDir too if something kept the check from removing it.
THEOREM DryRunsPure == Spec => []DryRunPure
<1>1. IInv => DryRunPure
  BY DEF IInv, DryInv, DryRunPure
<1> QED BY InitIInv, StepIInv, <1>1, PTL DEF Spec

\* Before the theorems that need both invariants.
LEMMA RunInvariance == Spec => [](IInv /\ RunInv /\ SettledInv /\ TemplateInv)
<1>1. Init => IInv /\ RunInv /\ SettledInv /\ TemplateInv
  BY InitIInv, RunInvInit
<1>2. /\ IInv /\ RunInv /\ SettledInv /\ TemplateInv /\ [Next]_vars
      => IInv' /\ RunInv' /\ SettledInv' /\ TemplateInv'
  BY StepIInv, RunStep, SettledStep, TemplateStep
<1>3. QED BY <1>1, <1>2, PTL DEF Spec

\* A run that puts a new manifest in place has the certificates and the config in
\* the version of that manifest in their places, and the new manifest makes the
\* scheduler use them.
THEOREM ManifestIsLast == Spec => ManifestLast
<1>1. ASSUME IInv, RunInv, [Next]_vars, ManifestWritten
      PROVE  UsesConfig(files'["manifest"]) /\ InPlace(files'["manifest"].minor)
  <2> USE DEF Idle, NoWrite, Places, ManifestWritten, IInv, CopiesInv, Shapes, operatorVars,
              fixedVars
  <2>1. FinishWrite /\ ~run.writing.saved /\ run.writing.file = "manifest"
    BY <1>1, FolderStepKeeps
      DEF FolderStep, Next, vars, Start, Between, ReplaceManifest, ChangeTemplate, RestoreManifest,
          CheckFileAccesses, RemoveCreated, Forget, End, ReadManifest, ReadFails, MakeFolder, SaveManifest,
          SaveConfig, Save, CopyKey, CopyCrt, SetManifest, SetFails, CreateConfig,
          CreateConfigFails, ModifyDeployment, WriteManifest, FinishWrite, Finish, Fail, Panic,
          Truncate, OnlyRun, GoTo, At, Writing
  <2>2. run.step = "finish" /\ run.writing.content = run.new /\ ~run.flags.dryRun
    BY <1>1, <2>1 DEF FinishWrite, Writing, DryInv
  <2>3. files'["manifest"] = run.new
    BY <1>1, <2>1, <2>2 DEF FinishWrite
  <2>4. Settled(run.new) /\ run.new.minor = run.orig.minor
    BY <1>1, <2>1, <2>2, MadeIsSettled DEF ManifestWritten, Late
  <2>5. UsesConfig(files'["manifest"])
    <3>1. UsesConfig(Modified(run.new)) /\ Modified(run.new) = run.new
      BY <2>4, ManifestSet DEF Settled
    <3>2. QED BY <2>3, <3>1
  <2>6. InPlace(files'["manifest"].minor)
    BY <1>1, <2>1, <2>2, <2>3, <2>4 DEF Installed, BeingWritten, Late, InPlace
  <2> QED BY <2>5, <2>6
<1> QED BY RunInvariance, <1>1, PTL DEF Spec, ManifestLast

\* After a run that came to its end everything is in place, whatever the runs before
\* it left behind, and no value is left whose flag was dropped.
THEOREM DoneIsConfigured == ManifestsWhole => (Spec => []DoneMeansConfigured)
<1> SUFFICES ASSUME ManifestsWhole PROVE Spec => []DoneMeansConfigured
  OBVIOUS
<1>1. ASSUME SettledInv, WholeInv PROVE DoneMeansConfigured
  <2> SUFFICES ASSUME settled # None PROVE DoneMeansConfigured
    BY DEF DoneMeansConfigured
  <2>1. PICK m : m = files["manifest"] /\ Settled(m)
    BY <1>1 DEF SettledInv
  <2>2. m \in AllManifests /\ m.command # None /\ Modified(m) = m /\ m # Partial
    BY <2>1, ConfiguratorAssumption DEF Settled
  <2>3. ArgsWhole(m.command)
    BY <1>1, <2>1, <2>2 DEF WholeInv, Whole
  <2>4. UsesConfig(m) /\ m.dnsPolicy /\ \A k \in DOMAIN m.command : m.command[k].name # "value"
    <3>1. UsesConfig(Modified(m)) /\ Modified(m).dnsPolicy
          /\ \A k \in DOMAIN Modified(m).command : Modified(m).command[k].name # "value"
      BY <2>2, <2>3, ManifestSet
    <3>2. QED BY <2>2, <3>1
  <2>5. QED BY <1>1, <2>1, <2>2, <2>4 DEF SettledInv, DoneMeansConfigured
<1>2. Init => WholeInv
  BY WholeInit
<1>3. IInv /\ RunInv /\ WholeInv /\ [Next]_vars => WholeInv'
  BY WholeStep
<1>4. QED BY RunInvariance, <1>1, <1>2, <1>3, PTL DEF Spec

\* As long as nothing fails and nothing is changed, the runs that follow one that came
\* to its end leave the manifest and the config alone, and no folder behind.
THEOREM Idempotence == Spec => Idempotent
<1>1. ASSUME IInv, RunInv, SettledInv, TemplateInv, SettledInv', [Next]_vars,
             settled # None, settled' # None
      PROVE  /\ files'["manifest"] = files["manifest"] /\ files'["config"] = files["config"]
             /\ run' = Idle => DOMAIN folders' = settled
  <2> USE DEF Idle, NoWrite, Places, IInv, CopiesInv, Shapes, operatorVars, fixedVars
  <2>1. settled' = settled
    BY <1>1, FolderStepKeeps
      DEF FolderStep, Next, vars, Start, Between, ReplaceManifest, ChangeTemplate, RestoreManifest,
          CheckFileAccesses, RemoveCreated, Forget, End, ReadManifest, ReadFails, MakeFolder, SaveManifest,
          SaveConfig, Save, CopyKey, CopyCrt, SetManifest, SetFails, CreateConfig,
          CreateConfigFails, ModifyDeployment, WriteManifest, FinishWrite, Finish, Fail, Panic,
          Truncate, OnlyRun
  <2>2. run' = Idle => DOMAIN folders' = settled
    BY <1>1, <2>1 DEF SettledInv
  <2>3. files["config"] # Missing
    <3>1. PICK m : m = files["manifest"] /\ Settled(m) /\ files["config"] = ConfigFor(m.minor)
      BY <1>1 DEF SettledInv
    <3>2. m.minor \in Nat
      BY <3>1 DEF Settled, AllManifests
    <3>3. QED BY <1>1, <3>1, <3>2, ConfigIsNeither DEF TemplateInv
  <2>4. run # Idle => /\ run.step \notin {"remove", "removeDir"}
                       /\ ~BeingWritten("manifest") /\ ~BeingWritten("config")
    BY <1>1 DEF SettledInv
  <2>5. ASSUME run # Idle, run.step \in {"config", "manifest"}
        PROVE  /\ run.orig = files["manifest"] /\ run.new = run.orig
               /\ files["config"] = ConfigFor(run.orig.minor)
    <3>1. run.orig = files["manifest"] /\ run.new = Modified(run.orig)
      BY <1>1, <2>5 DEF RunInv, BeforeRead, Checking, Late
    <3>2. QED BY <1>1, <3>1 DEF SettledInv, Settled
  <2>6. ~Panic /\ ~Between
    BY <1>1 DEF Panic, Between, Forget
  <2>7. \A p \in {"manifest", "config"} : files'[p] = files[p]
    <3>1. CASE CheckFileAccesses \/ RemoveCreated
      BY <2>3, <2>4, <3>1 DEF CheckFileAccesses, RemoveCreated, At
    <3>2. CASE CopyKey \/ CopyCrt
      <4>1. PICK p \in {"key", "crt"} : files' = [files EXCEPT ![p] = Partial]
        <5> HIDE DEF IInv, CopiesInv, Shapes
        <5>1. Shapes
          BY <1>1 DEF IInv, CopiesInv
        <5>2. QED BY <3>2, <5>1, CertsTruncated
      <4>2. QED BY <4>1
    <3>3. CASE CreateConfig
      <4>1. run # Idle /\ run.step = "config"
        BY <3>3 DEF CreateConfig, At
      <4>2. OnlyRun
        BY <2>5, <3>3, <4>1 DEF CreateConfig, NewConfig
      <4>3. QED BY <4>2 DEF OnlyRun
    <3>4. CASE ModifyDeployment("tas", "gas") \/ ModifyDeployment("gas", "manifest")
      <4>1. ASSUME NEW p, NEW next, ModifyDeployment(p, next)
            PROVE  OnlyRun \/ files' = [files EXCEPT ![p] = Partial]
        BY <4>1 DEF ModifyDeployment, Truncate
      <4>2. \/ OnlyRun
            \/ files' = [files EXCEPT !["tas"] = Partial]
            \/ files' = [files EXCEPT !["gas"] = Partial]
        BY <3>4, <4>1
      <4>3. OnlyRun => UNCHANGED files
        BY DEF OnlyRun
      <4>4. QED BY <1>1, <4>2, <4>3
    <3>5. CASE WriteManifest
      <4>1. run # Idle /\ run.step = "manifest"
        BY <3>5 DEF WriteManifest, At
      <4>2. OnlyRun
        BY <2>5, <3>5, <4>1 DEF WriteManifest
      <4>3. QED BY <4>2 DEF OnlyRun
    <3>6. CASE FinishWrite
      <4>1. CASE run.writing.saved = TRUE
        BY <3>6, <4>1 DEF FinishWrite
      <4>2. CASE run.writing.saved = FALSE
        <5>1. run.writing.file \notin {"manifest", "config"}
          BY <2>4, <3>6, <4>2 DEF FinishWrite, BeingWritten
        <5>2. files' = [files EXCEPT ![run.writing.file] = run.writing.content]
          BY <3>6, <4>2 DEF FinishWrite
        <5>3. QED BY <5>1, <5>2
      <4>3. QED BY <1>1, <3>6, <4>1, <4>2 DEF FinishWrite, Writing
    <3>7. CASE \/ MakeFolder \/ SaveManifest \/ SaveConfig \/ ReadManifest \/ SetManifest \/ Finish
               \/ \E f \in Invocations : Start(f)
      BY <3>7 DEF MakeFolder, SaveManifest, SaveConfig, Save, ReadManifest, SetManifest, Finish,
            Start, OnlyRun
    <3>8. ~(ReadFails \/ SetFails \/ CreateConfigFails \/ Fail)
      BY <2>6 DEF ReadFails, SetFails, CreateConfigFails, Fail
    <3>9. /\ ~\E m \in Manifests : ReplaceManifest(m)
          /\ ~\E t \in Templates : ChangeTemplate(t)
          /\ ~\E i \in DOMAIN folders : RestoreManifest(i)
      BY <1>1, <2>6 DEF ReplaceManifest, ChangeTemplate, RestoreManifest, Forget
    <3>10. CASE UNCHANGED vars
      BY <3>10 DEF vars
    <3>11. CASE FolderStep
      <4> HIDE DEF IInv, CopiesInv, Shapes
      <4>1. Shapes
        BY <1>1 DEF IInv, CopiesInv
      <4>2. QED BY <3>11, <4>1, FolderStepKeeps
    <3>12. QED BY <1>1, <3>1, <3>2, <3>3, <3>4, <3>5, <3>6, <3>7, <3>8, <3>9, <3>10, <3>11
               DEF Next, FolderStep
  <2>8. QED BY <2>2, <2>7
<1> QED BY RunInvariance, <1>1, PTL DEF Spec, Idempotent
=============================================================================
