--------------------------- MODULE TaskFlowProofs ---------------------------
(***************************************************************************)
(* Proofs about TaskFlow, for any nodes and ids, any taskers that report   *)
(* never, once, at once or late, and any number of calls.                  *)
(***************************************************************************)
EXTENDS TaskFlow, FiniteSetTheorems, TLAPS

\* Nodes of which no two have the same id: what a SparseArray can hold.
Distinct(S) == S \subseteq Nodes /\ IsFiniteSet(S) /\ \A m, n \in S : Id[m] = Id[n] => m = n

\* The nodes s are in the order of their ids.
Ascending(s) == \A i, j \in 1..Len(s) : i < j => Id[s[i]] < Id[s[j]]

\* The keys up to one of the keys.
UpTo(S, n) == {m \in S : Id[m] <= Id[n]}

\* A flow has its nodes in the order of their ids until it is disposed.
FlowShape ==
    /\ disposed => flowNodes = None /\ recent = None
    /\ ~disposed => flowNodes \in Seq(Nodes) /\ Ascending(flowNodes)

\* Only a node that is in the flow can call back into it, unless one was replaced.
Callbacks == ~replaced => \A n \in Nodes : callBack[n] # 0 => InFlow(n)

\* The taskers among s that have not reported for n, and whether n owes a report.
OpenIn(s, n) == {i \in 1..Len(s) : s[i].node = n /\ ~s[i].done}
Owes(n) == tasks[n] > 0 \/ OpenIn(stack, n) # {}

\* A node whose reports are all of this run owes one at most, and only while it is the
\* recent one.
OneReport(n) ==
    /\ Owes(n) => n = recent /\ ~finished
    /\ tasks[n] <= 1
    /\ \A i, j \in OpenIn(stack, n) : i = j
    /\ tasks[n] > 0 => OpenIn(stack, n) = {}

\* The run ends with the recent node; only its nodes call back, with an index that is
\* theirs or was before others were added below.
RunEnd ==
    /\ recent = IF ran = <<>> THEN None ELSE Last(ran)
    /\ \A n \in Nodes :
           callBack[n] # 0 =>
               n \in ToSet(ran) /\ \E i \in callBack[n]..Len(flowNodes) : flowNodes[i] = n

\* What holds of a run until a node is reported done twice, or replaced.
OneRun ==
    ~doubled /\ ~replaced /\ ~disposed =>
        RunEnd /\ \A n \in Nodes \ (Silent \cup stale) : OneReport(n)

\* Without nodes added below the recent one the index is the node's own.
OwnIndex ==
    ~doubled /\ ~shifted /\ ~replaced /\ ~disposed =>
        \A n \in Nodes :
            callBack[n] # 0 => callBack[n] <= Len(flowNodes) /\ flowNodes[callBack[n]] = n

\* A tasker that is silent leaves no task behind.
SilentOwesNothing == \A n \in Silent : tasks[n] = 0

\* The listener has been told the recent node, or will be when its tasker returns.
Listening ==
    ~nested /\ ~disposed /\ crashed = "no" =>
        IF stack = <<>> THEN told = recent ELSE Len(stack) = 1 /\ stack[1].node = recent

TaskInv == /\ TypeOK /\ FlowShape /\ Callbacks /\ LateReportsAreSafe
           /\ SilentOwesNothing /\ OneRun
-----------------------------------------------------------------------------
\* The number of keys up to a key is an index, and grows with the key.
LEMMA RankFacts ==
    ASSUME NEW S, Distinct(S)
    PROVE  /\ Cardinality(S) \in Nat
           /\ \A n \in S : Rank(S, n) \in 1..Cardinality(S)
           /\ \A m, n \in S : Rank(S, m) <= Rank(S, n) <=> Id[m] <= Id[n]
           /\ \A m, n \in S : Rank(S, m) = Rank(S, n) => m = n
  <1>1. IsFiniteSet(S) /\ Cardinality(S) \in Nat
    BY FS_CardinalityType DEF Distinct
  <1>2. ASSUME NEW n \in S
        PROVE  IsFiniteSet(UpTo(S, n)) /\ Rank(S, n) \in 1..Cardinality(S)
    <2>1. UpTo(S, n) \in SUBSET S /\ n \in UpTo(S, n)
      BY NodesAssumption DEF UpTo, Distinct
    <2>2. IsFiniteSet(UpTo(S, n)) /\ Cardinality(UpTo(S, n)) <= Cardinality(S)
      BY <1>1, <2>1, FS_Subset
    <2>3. Cardinality(UpTo(S, n)) \in Nat
      BY <2>2, FS_CardinalityType
    <2>4. Cardinality(UpTo(S, n)) # 0
      BY <2>1, <2>2, FS_EmptySet
    <2> QED
      BY <1>1, <2>2, <2>3, <2>4 DEF Rank, UpTo
  <1>3. ASSUME NEW m \in S, NEW n \in S, Id[m] <= Id[n] PROVE Rank(S, m) <= Rank(S, n)
    <2>1. UpTo(S, m) \in SUBSET UpTo(S, n)
      BY <1>3, NodesAssumption DEF UpTo, Distinct
    <2>2. Cardinality(UpTo(S, m)) <= Cardinality(UpTo(S, n))
      BY <1>2, <2>1, FS_Subset
    <2> QED
      BY <2>2 DEF Rank, UpTo
  <1>4. ASSUME NEW m \in S, NEW n \in S, Rank(S, m) = Rank(S, n) PROVE m = n
    <2>1. Id[m] \in Nat /\ Id[n] \in Nat
      BY NodesAssumption DEF Distinct
    <2>2. ASSUME NEW x \in S, NEW y \in S, Id[x] <= Id[y], Rank(S, x) = Rank(S, y)
          PROVE  Id[y] <= Id[x]
      <3>1. UpTo(S, x) \in SUBSET UpTo(S, y)
        BY <2>2, NodesAssumption DEF UpTo, Distinct
      <3>2. Cardinality(UpTo(S, y)) = Cardinality(UpTo(S, x))
        BY <2>2 DEF Rank, UpTo
      <3>3. UpTo(S, y) = UpTo(S, x)
        BY <1>2, <3>1, <3>2, FS_Subset
      <3>4. y \in UpTo(S, y)
        BY NodesAssumption DEF UpTo, Distinct
      <3> QED
        BY <3>3, <3>4 DEF UpTo
    <2>3. Id[m] = Id[n]
      BY <1>4, <2>1, <2>2
    <2> QED
      BY <2>3 DEF Distinct
  <1>5. ASSUME NEW m \in S, NEW n \in S, Rank(S, m) <= Rank(S, n) PROVE Id[m] <= Id[n]
    <2> SUFFICES ASSUME ~(Id[m] <= Id[n]) PROVE FALSE
      OBVIOUS
    <2>1. Id[n] <= Id[m] /\ m # n
      BY NodesAssumption DEF Distinct
    <2>2. Rank(S, n) <= Rank(S, m)
      BY <1>3, <2>1
    <2>3. Rank(S, n) = Rank(S, m)
      BY <1>2, <1>5, <2>2
    <2> QED
      BY <1>4, <2>1, <2>3
  <1> QED
    BY <1>1, <1>2, <1>3, <1>4, <1>5

\* The nodes by ascending id: every one is there, at its rank, and no other.
LEMMA SortedFacts ==
    ASSUME NEW S, Distinct(S)
    PROVE  /\ Sorted(S) \in Seq(Nodes) /\ Len(Sorted(S)) = Cardinality(S)
           /\ \A i \in 1..Len(Sorted(S)) : Sorted(S)[i] \in S /\ Rank(S, Sorted(S)[i]) = i
           /\ \A n \in S : Rank(S, n) \in 1..Len(Sorted(S)) /\ Sorted(S)[Rank(S, n)] = n
           /\ Ascending(Sorted(S))
  <1> DEFINE c == Cardinality(S)
             r == [n \in S |-> Rank(S, n)]
  <1>1. /\ c \in Nat /\ IsFiniteSet(S)
        /\ \A n \in S : Rank(S, n) \in 1..c
        /\ \A m, n \in S : Rank(S, m) <= Rank(S, n) <=> Id[m] <= Id[n]
        /\ \A m, n \in S : Rank(S, m) = Rank(S, n) => m = n
    BY RankFacts DEF Distinct
  <1>2. r \in Injection(S, 1..c)
    BY <1>1 DEF Injection, IsInjective
  <1>3. IsFiniteSet(1..c) /\ Cardinality(1..c) = c
    <2>1. 1 \in Int /\ c \in Int
      BY <1>1
    <2> QED
      BY <1>1, <2>1, FS_Interval
  <1>4. r \in Surjection(S, 1..c)
    <2> HIDE DEF r
    <2> QED
      BY <1>2, <1>3, FS_Injection
  <1>5. \A i \in 1..c : \E n \in S : Rank(S, n) = i
    BY <1>4 DEF Surjection
  <1>6. DOMAIN Sorted(S) = 1..c
    BY DEF Sorted
  <1>7. ASSUME NEW i \in 1..c PROVE Sorted(S)[i] \in S /\ Rank(S, Sorted(S)[i]) = i
    <2>1. Sorted(S)[i] = CHOOSE n \in S : Rank(S, n) = i
      BY DEF Sorted
    <2> QED
      BY <1>5, <2>1
  <1>8. Sorted(S) \in [1..c -> Nodes]
    BY <1>7 DEF Sorted, Distinct
  <1>9. Sorted(S) \in Seq(Nodes) /\ Len(Sorted(S)) = c
    BY <1>1, <1>8
  <1>10. \A n \in S : Sorted(S)[Rank(S, n)] = n
    BY <1>1, <1>7
  <1>11. ASSUME NEW i \in 1..c, NEW j \in 1..c, i < j PROVE Id[Sorted(S)[i]] < Id[Sorted(S)[j]]
    <2>1. Sorted(S)[i] \in S /\ Sorted(S)[j] \in S /\ ~(Rank(S, Sorted(S)[j]) <= Rank(S, Sorted(S)[i]))
      BY <1>7, <1>11
    <2>2. ~(Id[Sorted(S)[j]] <= Id[Sorted(S)[i]])
      BY <1>1, <2>1
    <2>3. Id[Sorted(S)[i]] \in Nat /\ Id[Sorted(S)[j]] \in Nat
      BY <2>1, NodesAssumption DEF Distinct
    <2> QED
      BY <2>2, <2>3
  <1> QED
    BY <1>1, <1>7, <1>9, <1>10, <1>11 DEF Ascending

\* Nodes in the order of their ids are distinct, and each is at its rank.
LEMMA AscendingFacts ==
    ASSUME NEW s \in Seq(Nodes), Ascending(s)
    PROVE  /\ Distinct(ToSet(s))
           /\ \A i, j \in 1..Len(s) : s[i] = s[j] => i = j
           /\ \A i \in 1..Len(s) : s[i] \in ToSet(s) /\ Rank(ToSet(s), s[i]) = i
  <1>1. /\ DOMAIN s = 1..Len(s) /\ Len(s) \in Nat
        /\ \A i \in 1..Len(s) : s[i] \in Nodes /\ Id[s[i]] \in Nat
    BY NodesAssumption
  <1>2. \A i, j \in 1..Len(s) : Id[s[i]] = Id[s[j]] => i = j
    BY <1>1 DEF Ascending
  <1>3. ToSet(s) = {s[i] : i \in 1..Len(s)}
    BY <1>1 DEF ToSet
  <1>4. IsFiniteSet(ToSet(s))
    <2>1. IsFiniteSet(1..Len(s))
      <3>1. 1 \in Int /\ Len(s) \in Int
        BY <1>1
      <3> QED
        BY <3>1, FS_Interval
    <2>2. s \in Surjection(1..Len(s), ToSet(s))
      BY <1>1, <1>3 DEF Surjection
    <2> QED
      BY <2>1, <2>2, FS_Surjection
  <1>5. Distinct(ToSet(s))
    BY <1>1, <1>2, <1>3, <1>4 DEF Distinct
  <1>6. ASSUME NEW i \in 1..Len(s) PROVE Rank(ToSet(s), s[i]) = i
    <2> DEFINE b == [j \in 1..i |-> s[j]]
    <2>1. UpTo(ToSet(s), s[i]) = {s[j] : j \in 1..i}
      <3>1. \A j \in 1..Len(s) : Id[s[j]] <= Id[s[i]] <=> j <= i
        BY <1>1 DEF Ascending
      <3>2. UpTo(ToSet(s), s[i]) \subseteq {s[j] : j \in 1..i}
        BY <1>1, <1>3, <3>1 DEF UpTo
      <3>3. {s[j] : j \in 1..i} \subseteq UpTo(ToSet(s), s[i])
        BY <1>1, <1>3, <3>1 DEF UpTo
      <3> QED
        BY <3>2, <3>3
    <2>2. b \in Bijection(1..i, UpTo(ToSet(s), s[i]))
      BY <1>1, <1>2, <2>1 DEF Bijection, Injection, Surjection, IsInjective
    <2>3. ExistsBijection(1..i, UpTo(ToSet(s), s[i])) /\ i \in Nat
      BY <2>2 DEF ExistsBijection
    <2>4. Cardinality(UpTo(ToSet(s), s[i])) = i
      BY <2>3, FS_CountingElements
    <2> QED
      BY <2>4 DEF Rank, UpTo
  <1> QED
    BY <1>1, <1>2, <1>3, <1>5, <1>6

\* addNode's set of nodes fits into a SparseArray.
LEMMA InsertDistinct ==
    ASSUME NEW s \in Seq(Nodes), Ascending(s), NEW n \in Nodes
    PROVE  Distinct((ToSet(s) \ {m \in ToSet(s) : Id[m] = Id[n]}) \cup {n})
  <1> DEFINE R == ToSet(s) \ {m \in ToSet(s) : Id[m] = Id[n]}
  <1>1. Distinct(ToSet(s))
    BY AscendingFacts
  <1>2. IsFiniteSet(R)
    BY <1>1, FS_Subset DEF Distinct
  <1>3. IsFiniteSet(R \cup {n})
    <2> HIDE DEF R
    <2> QED
      BY <1>2, FS_AddElement
  <1> QED
    BY <1>1, <1>3 DEF Distinct

\* The nodes s after n was added to them are t: it moves the others up, if at all, and
\* none with a smaller id.
Inserted(s, n, t) ==
    /\ t \in Seq(Nodes) /\ Ascending(t)
    /\ \A i \in 1..Len(s) : \E j \in i..Len(t) : t[j] = s[i]
    /\ \A i \in 1..Len(s) : Id[s[i]] < Id[n] => i \in 1..Len(t) /\ t[i] = s[i]

\* addNode of a new id inserts the node.
LEMMA InsertKeeps ==
    ASSUME NEW s \in Seq(Nodes), Ascending(s), NEW n \in Nodes,
           {m \in ToSet(s) : Id[m] = Id[n]} = {}, NEW t, t = Sorted(ToSet(s) \cup {n})
    PROVE  Inserted(s, n, t)
  <1> DEFINE S == ToSet(s)
             T == ToSet(s) \cup {n}
  <1>1. Distinct(S) /\ \A i \in 1..Len(s) : s[i] \in S /\ Rank(S, s[i]) = i
    BY AscendingFacts
  <1>2. T = (S \ {m \in S : Id[m] = Id[n]}) \cup {n}
    OBVIOUS
  <1>3. Distinct(T)
    BY <1>2, InsertDistinct
  <1>4. /\ t \in Seq(Nodes) /\ Ascending(t)
        /\ \A x \in T : Rank(T, x) \in 1..Len(t) /\ t[Rank(T, x)] = x
    <2> HIDE DEF T
    <2>1. t = Sorted(T)
      BY DEF T
    <2>2. /\ Sorted(T) \in Seq(Nodes) /\ Ascending(Sorted(T))
          /\ \A x \in T : Rank(T, x) \in 1..Len(Sorted(T)) /\ Sorted(T)[Rank(T, x)] = x
      BY <1>3, SortedFacts
    <2> QED
      BY <2>1, <2>2
  <1>5. ASSUME NEW x \in S PROVE Rank(S, x) <= Rank(T, x)
    <2>1. UpTo(S, x) \in SUBSET UpTo(T, x)
      BY DEF UpTo
    <2>2. UpTo(T, x) \in SUBSET T
      BY DEF UpTo
    <2>3. IsFiniteSet(UpTo(T, x))
      BY <1>3, <2>2, FS_Subset DEF Distinct
    <2>4. Cardinality(UpTo(S, x)) <= Cardinality(UpTo(T, x))
      BY <2>1, <2>3, FS_Subset
    <2> QED
      BY <2>4 DEF Rank, UpTo
  <1>6. ASSUME NEW x \in S, Id[x] < Id[n] PROVE Rank(T, x) = Rank(S, x)
    <2>1. Id[x] \in Nat /\ Id[n] \in Nat
      BY <1>1, NodesAssumption DEF Distinct
    <2>2. UpTo(T, x) = UpTo(S, x)
      BY <1>6, <2>1 DEF UpTo
    <2> QED
      BY <2>2 DEF Rank, UpTo
  <1>i. ASSUME NEW i \in 1..Len(s) PROVE s[i] \in S /\ s[i] \in T /\ Rank(S, s[i]) = i
    BY <1>1
  <1> HIDE DEF S, T
  <1>7. ASSUME NEW i \in 1..Len(s) PROVE \E j \in i..Len(t) : t[j] = s[i]
    <2>1. s[i] \in S /\ s[i] \in T /\ Rank(S, s[i]) = i
      BY <1>i
    <2>2. Rank(T, s[i]) \in i..Len(t) /\ t[Rank(T, s[i])] = s[i]
      <3>1. Rank(T, s[i]) \in 1..Len(t) /\ t[Rank(T, s[i])] = s[i]
        BY <1>4, <2>1, Zenon
      <3>2. i <= Rank(T, s[i])
        BY <1>5, <2>1, Zenon
      <3>3. Len(t) \in Nat
        BY <1>4
      <3> QED
        BY <3>1, <3>2, <3>3
    <2> QED
      BY <2>2
  <1>8. ASSUME NEW i \in 1..Len(s), Id[s[i]] < Id[n] PROVE i \in 1..Len(t) /\ t[i] = s[i]
    <2>1. s[i] \in S /\ s[i] \in T /\ Rank(S, s[i]) = i
      BY <1>i
    <2>2. Rank(T, s[i]) = i
      BY <1>6, <1>8, <2>1
    <2>3. Rank(T, s[i]) \in 1..Len(t) /\ t[Rank(T, s[i])] = s[i]
      BY <1>4, <2>1, Zenon
    <2> QED
      BY <2>2, <2>3
  <1> QED
    BY <1>4, <1>7, <1>8 DEF Inserted

\* The frames of the taskers.
Frame == [node : Nodes, done : BOOLEAN]

\* The tasker on top of the stack, and the stack below it.
LEMMA TopFacts ==
    ASSUME NEW s \in Seq(Frame), s # <<>>
    PROVE  /\ Len(s) \in Nat \ {0} /\ Last(s) \in Frame /\ Last(s) = s[Len(s)]
           /\ Front(s) \in Seq(Frame) /\ Len(Front(s)) = Len(s) - 1
           /\ \A i \in 1..(Len(s) - 1) : Front(s)[i] = s[i]
  <1>1. Len(s) \in Nat \ {0} /\ s[Len(s)] \in Frame
    OBVIOUS
  <1>2. /\ Front(s) \in Seq(Frame) /\ Len(Front(s)) = Len(s) - 1
        /\ \A i \in 1..(Len(s) - 1) : Front(s)[i] = s[i]
    BY <1>1 DEF Front
  <1> QED
    BY <1>1, <1>2 DEF Last

\* A call of a tasker.
LEMMA PushFacts ==
    ASSUME NEW s \in Seq(Frame), NEW f \in Frame
    PROVE  /\ Append(s, f) \in Seq(Frame) /\ Append(s, f) # <<>>
           /\ Len(Append(s, f)) = Len(s) + 1 /\ Len(s) \in Nat
           /\ Append(s, f)[Len(s) + 1] = f
           /\ \A i \in 1..Len(s) : Append(s, f)[i] = s[i]
  OBVIOUS
-----------------------------------------------------------------------------
\* The types of what a run of a node changes.
WorkTypes ==
    /\ recent \in Nodes \cup {None}
    /\ callBack \in [Nodes -> Nat]
    /\ stack \in Seq(Frame)
    /\ finished \in BOOLEAN
    /\ crashed \in {"no", "NullPointer", "OutOfBounds"}
    /\ ran \in Seq(Nodes)
    /\ nested \in BOOLEAN

\* doWork keeps the types of what it changes.
LEMMA DoWorkTypes ==
    ASSUME flowNodes \in Seq(Nodes), nested \in BOOLEAN, NEW i \in 1..Len(flowNodes),
           NEW cb \in [Nodes -> Nat], NEW st \in Seq(Frame), DoWork(i, cb, st)
    PROVE  /\ flowNodes[i] \in Nodes /\ recent' \in Nodes \cup {None}
           /\ callBack' \in [Nodes -> Nat] /\ stack' \in Seq(Frame) /\ nested' \in BOOLEAN
  <1>1. flowNodes[i] \in Nodes /\ i \in Nat
    OBVIOUS
  <1>2. [node |-> flowNodes[i], done |-> FALSE] \in Frame
    BY <1>1 DEF Frame
  <1>3. /\ recent' = flowNodes[i] /\ callBack' = [cb EXCEPT ![flowNodes[i]] = i]
        /\ stack' = Append(st, [node |-> flowNodes[i], done |-> FALSE])
    BY DEF DoWork
  <1>4. nested' \in BOOLEAN
    BY Zenon DEF DoWork
  <1>5. stack' \in Seq(Frame)
    BY <1>2, <1>3, PushFacts
  <1> QED
    BY <1>1, <1>3, <1>4, <1>5

\* A report keeps the types of what it changes.
LEMMA CompletedTypes ==
    ASSUME WorkTypes, flowNodes # None => flowNodes \in Seq(Nodes), NEW n \in Nodes,
           NEW st \in Seq(Frame), OnCompleted(n, st)
    PROVE  WorkTypes'
  <1>1. CASE callBack[n] # 0 /\ flowNodes # None /\ callBack[n] + 1 <= Len(flowNodes)
    <2>1. /\ DoWork(callBack[n] + 1, callBack, st) /\ UNCHANGED <<finished, crashed>>
          /\ ran' = Append(ran, flowNodes[callBack[n] + 1])
      BY <1>1 DEF OnCompleted, WorkTypes
    <2>2. /\ flowNodes \in Seq(Nodes) /\ callBack \in [Nodes -> Nat] /\ nested \in BOOLEAN
          /\ callBack[n] + 1 \in 1..Len(flowNodes)
      BY <1>1 DEF WorkTypes
    <2>3. /\ flowNodes[callBack[n] + 1] \in Nodes /\ recent' \in Nodes \cup {None}
          /\ callBack' \in [Nodes -> Nat] /\ stack' \in Seq(Frame) /\ nested' \in BOOLEAN
      BY <2>1, <2>2, DoWorkTypes
    <2>4. ran' \in Seq(Nodes)
      BY <2>1, <2>3 DEF WorkTypes
    <2> QED
      BY <2>1, <2>3, <2>4 DEF WorkTypes
  <1>2. CASE callBack[n] # 0 /\ flowNodes # None /\ ~(callBack[n] + 1 <= Len(flowNodes))
    <2>1. stack' = st /\ finished' = TRUE /\ UNCHANGED <<recent, callBack, crashed, ran, nested>>
      BY <1>2 DEF OnCompleted
    <2> QED
      BY <2>1 DEF WorkTypes
  <1>3. CASE callBack[n] = 0 \/ flowNodes = None
    <2>1. /\ stack' = st /\ crashed' \in {crashed, "NullPointer"}
          /\ UNCHANGED <<recent, callBack, finished, ran, nested>>
      BY <1>3 DEF OnCompleted
    <2> QED
      BY <2>1 DEF WorkTypes
  <1> QED
    BY <1>1, <1>2, <1>3

\* What a run started by startWithNode does.
LEMMA StartTypes ==
    ASSUME TypeOK, FlowShape, ~disposed, NEW i \in 1..Len(flowNodes), StartWithNode(i)
    PROVE  /\ WorkTypes' /\ stale' \subseteq Nodes /\ doubled' = FALSE /\ shifted' = FALSE
           /\ Reset \in [Nodes -> Nat]
  <1>1. flowNodes \in Seq(Nodes) /\ nested \in BOOLEAN /\ stack \in Seq(Frame)
    BY DEF FlowShape, TypeOK, Frame
  <1>2. Reset \in [Nodes -> Nat]
    BY DEF Reset, TypeOK
  <1>3. DoWork(i, Reset, stack)
    BY DEF StartWithNode
  <1>4. /\ flowNodes[i] \in Nodes /\ recent' \in Nodes \cup {None}
        /\ callBack' \in [Nodes -> Nat] /\ stack' \in Seq(Frame) /\ nested' \in BOOLEAN
    BY <1>1, <1>2, <1>3, DoWorkTypes
  <1>5. /\ ran' = <<flowNodes[i]>> /\ stale' = stale \cup AtWork /\ doubled' = FALSE
        /\ shifted' = FALSE /\ finished' = FALSE /\ crashed' = crashed
    BY DEF StartWithNode
  <1>6. ran' \in Seq(Nodes) /\ stale' \subseteq Nodes
    BY <1>4, <1>5 DEF AtWork, TypeOK
  <1>7. crashed' \in {"no", "NullPointer", "OutOfBounds"} /\ finished' \in BOOLEAN
    BY <1>5 DEF TypeOK
  <1> QED
    BY <1>2, <1>4, <1>5, <1>6, <1>7 DEF WorkTypes

\* The tasker that reports while it runs stays on the stack.
LEMMA MarkFacts ==
    ASSUME NEW s \in Seq(Frame), s # <<>>,
           NEW st, st = Append(Front(s), [Last(s) EXCEPT !.done = TRUE])
    PROVE  /\ st \in Seq(Frame) /\ Len(st) = Len(s) /\ st # <<>>
           /\ \A i \in 1..(Len(s) - 1) : st[i] = s[i]
           /\ st[Len(s)].node = Last(s).node /\ st[Len(s)].done
  <1> DEFINE f == [Last(s) EXCEPT !.done = TRUE]
  <1>1. /\ Len(s) \in Nat \ {0} /\ Last(s) \in Frame
        /\ Front(s) \in Seq(Frame) /\ Len(Front(s)) = Len(s) - 1
        /\ \A i \in 1..(Len(s) - 1) : Front(s)[i] = s[i]
    BY TopFacts
  <1>2. f \in Frame /\ f.node = Last(s).node /\ f.done
    BY <1>1 DEF Frame
  <1> HIDE DEF f
  <1>3. st = Append(Front(s), f)
    BY DEF f
  <1>4. /\ st \in Seq(Frame) /\ st # <<>> /\ Len(st) = Len(Front(s)) + 1
        /\ st[Len(Front(s)) + 1] = f
        /\ \A i \in 1..Len(Front(s)) : st[i] = Front(s)[i]
    BY <1>1, <1>2, <1>3, PushFacts
  <1> QED
    BY <1>1, <1>2, <1>4

\* The types apart from WorkTypes.
RestTypes ==
    /\ flowNodes \in Seq(Nodes) \cup {None}
    /\ disposed \in BOOLEAN
    /\ tasks \in [Nodes -> Nat]
    /\ told \in Nodes \cup {None}
    /\ calls \in 0..MaxCalls
    /\ stale \subseteq Nodes
    /\ doubled \in BOOLEAN
    /\ shifted \in BOOLEAN
    /\ replaced \in BOOLEAN

\* The two halves of the type invariant.
LEMMA TypeParts == TypeOK <=> WorkTypes /\ RestTypes
  BY DEF TypeOK, WorkTypes, RestTypes, Frame

\* The same for the next state.
LEMMA TypePartsPrimed == WorkTypes' /\ RestTypes' => TypeOK'
  BY DEF TypeOK, WorkTypes, RestTypes, Frame

\* Every call of the user, report and return keeps the types and the flow's order.
LEMMA TypeStep == TypeOK /\ FlowShape /\ [Next]_vars => TypeOK' /\ FlowShape'
  <1> SUFFICES ASSUME TypeOK, FlowShape, [Next]_vars PROVE TypeOK' /\ FlowShape'
    OBVIOUS
  <1>0. WorkTypes /\ RestTypes
    BY TypeParts
  <1>k. ASSUME UNCHANGED <<flowNodes, disposed>>, disposed => recent' = None PROVE FlowShape'
    BY <1>k DEF FlowShape
  <1>c. ASSUME Call PROVE calls' \in 0..MaxCalls /\ crashed = "no"
    BY <1>c, CallsAssumption DEF Call, TypeOK
  <1>n. flowNodes # None => flowNodes \in Seq(Nodes) /\ ~disposed
    BY DEF FlowShape
  <1>1. CASE UNCHANGED vars
    BY <1>1 DEF vars, flow, workers, heard, history, TypeOK, FlowShape
  <1>2. ASSUME NEW i \in 1..Len(flowNodes), Call, ~disposed, StartWithNode(i)
        PROVE  TypeOK' /\ FlowShape'
    <2>1. WorkTypes' /\ stale' \subseteq Nodes /\ doubled' = FALSE /\ shifted' = FALSE
      BY <1>2, StartTypes
    <2>2. UNCHANGED <<flowNodes, disposed, tasks, told, crashed, replaced>>
      BY <1>2 DEF StartWithNode
    <2>3. RestTypes'
      BY <1>0, <1>2, <1>c, <2>1, <2>2 DEF RestTypes
    <2> QED
      BY <1>2, <1>k, <2>1, <2>2, <2>3, TypePartsPrimed
  <1>3. CASE Start
    <2>1. PICK i \in 1..Len(flowNodes) : StartWithNode(i)
      BY <1>3 DEF Start
    <2> QED
      BY <1>2, <1>3, <2>1 DEF Start
  <1>4. CASE Revert
    <2>1. CASE IndexOf(recent) > 1 /\ StartWithNode(IndexOf(recent) - 1)
      <3>1. InFlow(recent)
        BY <2>1 DEF IndexOf
      <3>2. IndexOf(recent) \in 1..Len(flowNodes)
        BY <3>1 DEF IndexOf, InFlow
      <3>3. Call /\ ~disposed /\ flowNodes \in Seq(Nodes)
        BY <1>4 DEF Revert, FlowShape
      <3>4. IndexOf(recent) - 1 \in 1..Len(flowNodes)
        BY <2>1, <3>2, <3>3
      <3> QED
        BY <1>2, <2>1, <3>3, <3>4
    <2>2. CASE crashed' = "OutOfBounds" /\ UNCHANGED <<flow, workers, heard, history>>
      <3>1. calls' \in 0..MaxCalls
        BY <1>4, <1>c DEF Revert
      <3>2. UNCHANGED <<flowNodes, recent, disposed, callBack, stack, tasks, told, finished, ran,
                        stale, doubled, shifted, replaced, nested>>
        BY <2>2 DEF flow, workers, heard, history
      <3>3. WorkTypes' /\ RestTypes'
        BY <1>0, <2>2, <3>1, <3>2 DEF WorkTypes, RestTypes
      <3>4. FlowShape'
        BY <1>k, <3>2 DEF FlowShape
      <3> QED
        BY <3>3, <3>4, TypePartsPrimed
    <2> QED
      BY <1>4, <2>1, <2>2 DEF Revert
  <1>5. CASE AddNode
    <2>1. PICK n \in Nodes :
            /\ flowNodes' = Sorted((ToSet(flowNodes) \ {m \in ToSet(flowNodes) : Id[m] = Id[n]})
                                   \cup {n})
            /\ replaced' = (replaced \/ {m \in ToSet(flowNodes) : Id[m] = Id[n]} # {})
            /\ shifted' = (shifted \/ (recent # None /\ Id[n] <= Id[recent]))
      BY <1>5 DEF AddNode
    <2>2. /\ Call /\ ~disposed
          /\ UNCHANGED <<recent, disposed, callBack, stack, tasks, told, finished, crashed, ran,
                         stale, doubled, nested>>
      BY <1>5 DEF AddNode, workers, heard
    <2>3. flowNodes \in Seq(Nodes) /\ Ascending(flowNodes)
      BY <2>2 DEF FlowShape
    <2>4. flowNodes' \in Seq(Nodes) /\ Ascending(flowNodes')
      <3> DEFINE S == (ToSet(flowNodes) \ {m \in ToSet(flowNodes) : Id[m] = Id[n]}) \cup {n}
      <3>1. Distinct(S)
        BY <2>3, InsertDistinct
      <3>2. flowNodes' = Sorted(S)
        BY <2>1
      <3> HIDE DEF S
      <3>3. Sorted(S) \in Seq(Nodes) /\ Ascending(Sorted(S))
        BY <3>1, SortedFacts
      <3> QED
        BY <3>2, <3>3
    <2>5. replaced' \in BOOLEAN /\ shifted' \in BOOLEAN
      BY <2>1, Zenon
    <2>6. calls' \in 0..MaxCalls
      BY <1>c, <2>2
    <2>7. WorkTypes' /\ RestTypes'
      BY <1>0, <2>2, <2>4, <2>5, <2>6 DEF WorkTypes, RestTypes
    <2>8. FlowShape'
      BY <2>2, <2>4 DEF FlowShape
    <2> QED
      BY <2>7, <2>8, TypePartsPrimed
  <1>6. CASE ContinueWork
    <2>1. /\ Call /\ ~disposed /\ recent # None /\ OnCompleted(recent, stack)
          /\ UNCHANGED <<flowNodes, disposed, tasks, told, shifted, replaced>>
      BY <1>6 DEF ContinueWork
    <2>2. recent \in Nodes /\ stack \in Seq(Frame)
      BY <1>0, <2>1 DEF WorkTypes
    <2>3. WorkTypes'
      BY <1>0, <1>n, <2>1, <2>2, CompletedTypes
    <2>4. doubled' \in BOOLEAN
      BY <1>6, Zenon DEF ContinueWork
    <2>5. stale' \subseteq Nodes
      <3>1. stale' \in {stale, stale \cup {recent}}
        BY <1>6 DEF ContinueWork
      <3> QED
        BY <1>0, <2>2, <3>1 DEF RestTypes
    <2>6. RestTypes'
      BY <1>0, <1>c, <2>1, <2>4, <2>5 DEF RestTypes
    <2> QED
      BY <1>k, <2>1, <2>3, <2>6, TypePartsPrimed
  <1>7. CASE Dispose
    <2>1. /\ disposed' = TRUE /\ flowNodes' = None /\ recent' = None /\ callBack' = Reset
          /\ UNCHANGED <<stack, tasks, told, finished, crashed, calls, ran, stale, doubled,
                         shifted, replaced, nested>>
      BY <1>7 DEF Dispose, workers, heard, history
    <2>2. callBack' \in [Nodes -> Nat]
      BY <1>0, <2>1 DEF Reset, WorkTypes
    <2>3. WorkTypes' /\ RestTypes'
      BY <1>0, <2>1, <2>2 DEF WorkTypes, RestTypes
    <2>4. FlowShape'
      BY <2>1 DEF FlowShape
    <2> QED
      BY <2>3, <2>4, TypePartsPrimed
  <1>o. ASSUME NEW n \in Nodes, NEW st, OnCompleted(n, st), UNCHANGED <<flowNodes, disposed>>
        PROVE  FlowShape'
    <2>1. disposed => recent' = None
      BY <1>o DEF OnCompleted, FlowShape
    <2> QED
      BY <1>k, <1>o, <2>1
  <1>8. CASE TaskerReports
    <2>1. /\ stack # <<>> /\ UNCHANGED <<flowNodes, disposed, tasks, told, calls, stale, shifted,
                                         replaced>>
          /\ OnCompleted(Last(stack).node, Append(Front(stack), [Last(stack) EXCEPT !.done = TRUE]))
      BY <1>8 DEF TaskerReports
    <2>2. stack \in Seq(Frame)
      BY <1>0 DEF WorkTypes
    <2>3. Last(stack) \in Frame
      BY <2>1, <2>2, TopFacts
    <2>4. Last(stack).node \in Nodes
      BY <2>3 DEF Frame
    <2>5. Append(Front(stack), [Last(stack) EXCEPT !.done = TRUE]) \in Seq(Frame)
      BY <2>1, <2>2, MarkFacts
    <2>6. WorkTypes'
      BY <1>0, <1>n, <2>1, <2>4, <2>5, CompletedTypes
    <2>7. doubled' \in BOOLEAN
      BY <1>8, Zenon DEF TaskerReports, Reported
    <2>8. RestTypes'
      BY <1>0, <2>1, <2>7 DEF RestTypes
    <2>9. FlowShape'
      BY <1>o, <2>1, <2>4
    <2> QED
      BY <2>6, <2>8, <2>9, TypePartsPrimed
  <1>9. CASE TaskerReturns
    <2>1. /\ stack # <<>> /\ stack' = Front(stack)
          /\ told' = IF disposed THEN told ELSE Last(stack).node
          /\ tasks' = [tasks EXCEPT ![Last(stack).node] =
                         IF Last(stack).done \/ Last(stack).node \in Silent THEN @ ELSE @ + 1]
          /\ UNCHANGED <<flowNodes, recent, disposed, callBack, finished, crashed, calls, ran, stale,
                         doubled, shifted, replaced, nested>>
      BY <1>9 DEF TaskerReturns, flow, history
    <2>2. stack \in Seq(Frame)
      BY <1>0 DEF WorkTypes
    <2>3. Last(stack) \in Frame /\ stack' \in Seq(Frame)
      BY <2>1, <2>2, TopFacts
    <2>4. tasks' \in [Nodes -> Nat] /\ told' \in Nodes \cup {None}
      BY <1>0, <2>1, <2>3 DEF RestTypes, Frame
    <2>5. WorkTypes' /\ RestTypes'
      BY <1>0, <2>1, <2>3, <2>4 DEF WorkTypes, RestTypes
    <2>6. FlowShape'
      BY <1>k, <2>1 DEF FlowShape
    <2> QED
      BY <2>5, <2>6, TypePartsPrimed
  <1>10. ASSUME NEW n \in Nodes, TaskReports(n) PROVE TypeOK' /\ FlowShape'
    <2>1. /\ tasks[n] > 0 /\ tasks' = [tasks EXCEPT ![n] = tasks[n] - 1] /\ OnCompleted(n, <<>>)
          /\ UNCHANGED <<flowNodes, disposed, told, calls, stale, shifted, replaced>>
      BY <1>10 DEF TaskReports
    <2>2. <<>> \in Seq(Frame)
      OBVIOUS
    <2>3. WorkTypes'
      BY <1>0, <1>n, <2>1, <2>2, CompletedTypes
    <2>4. doubled' \in BOOLEAN
      BY <1>10, Zenon DEF TaskReports, Reported
    <2>5. tasks' \in [Nodes -> Nat]
      BY <1>0, <2>1 DEF RestTypes
    <2>6. RestTypes'
      BY <1>0, <2>1, <2>4, <2>5 DEF RestTypes
    <2>7. FlowShape'
      BY <1>o, <2>1
    <2> QED
      BY <2>3, <2>6, <2>7, TypePartsPrimed
  <1> QED
    BY <1>1, <1>3, <1>4, <1>5, <1>6, <1>7, <1>8, <1>9, <1>10 DEF Next, Reports

\* The types hold and the nodes are by ascending id, whatever nodes are added.
THEOREM TypeCorrect == Spec => [](TypeOK /\ FlowShape)
  <1>1. Init => TypeOK /\ FlowShape
    <2> SUFFICES ASSUME Init PROVE TypeOK /\ FlowShape
      OBVIOUS
    <2>1. Distinct(First)
      BY NodesAssumption DEF Distinct
    <2>2. Sorted(First) \in Seq(Nodes) /\ Ascending(Sorted(First))
      BY <2>1, SortedFacts
    <2>3. FlowShape
      BY <2>2 DEF Init, FlowShape
    <2>4. WorkTypes
      <3>1. finished \in BOOLEAN /\ nested \in BOOLEAN
        BY Zenon DEF Init
      <3> QED
        BY <3>1 DEF Init, WorkTypes
    <2>5. RestTypes
      <3>1. disposed \in BOOLEAN /\ doubled \in BOOLEAN /\ shifted \in BOOLEAN /\ replaced \in BOOLEAN
        BY Zenon DEF Init
      <3> QED
        BY <2>2, <3>1, CallsAssumption DEF Init, RestTypes
    <2> QED
      BY <2>3, <2>4, <2>5, TypeParts
  <1> QED
    BY <1>1, TypeStep, PTL DEF Spec

\* A disposed flow runs nothing and reports nothing, whatever tasks are still out.
THEOREM QuietOnceDisposed == Spec => DisposedIsQuiet
  <1>1. TypeOK /\ FlowShape /\ [Next]_vars => [disposed => ran' = ran /\ finished' = finished]_vars
    <2> SUFFICES ASSUME FlowShape, Next, disposed PROVE ran' = ran /\ finished' = finished
      BY DEF vars, heard, history
    <2>1. flowNodes = None
      BY DEF FlowShape
    <2>2. ASSUME NEW n, NEW st, OnCompleted(n, st) PROVE ran' = ran /\ finished' = finished
      BY <2>1, <2>2 DEF OnCompleted
    <2>3. CASE TaskerReports
      BY <2>2, <2>3 DEF TaskerReports
    <2>4. CASE TaskerReturns
      BY <2>4 DEF TaskerReturns, history
    <2>5. ASSUME NEW n \in Nodes, TaskReports(n) PROVE ran' = ran /\ finished' = finished
      BY <2>2, <2>5 DEF TaskReports
    <2> QED
      BY <2>3, <2>4, <2>5 DEF Next, Reports, Start, Revert, AddNode, ContinueWork, Dispose
  <1> QED
    BY <1>1, TypeCorrect, PTL DEF Spec, DisposedIsQuiet
-----------------------------------------------------------------------------
\* doWork gives its index to the node at that index, which is in the flow.
LEMMA DoWorkCalls ==
    ASSUME flowNodes \in Seq(Nodes), NEW i \in 1..Len(flowNodes), NEW cb \in [Nodes -> Nat],
           NEW st, DoWork(i, cb, st)
    PROVE  /\ flowNodes[i] \in Nodes /\ callBack'[flowNodes[i]] = i
           /\ \A n \in Nodes : n # flowNodes[i] => callBack'[n] = cb[n]
  BY DEF DoWork

\* A step that leaves the flow alone, and gives its callbacks only to nodes in it.
LEMMA CallbacksStep ==
    TypeOK /\ FlowShape /\ Callbacks /\ LateReportsAreSafe /\ [Next]_vars
        => Callbacks' /\ LateReportsAreSafe'
  <1> SUFFICES ASSUME TypeOK, FlowShape, Callbacks, LateReportsAreSafe, [Next]_vars
               PROVE  Callbacks' /\ LateReportsAreSafe'
    OBVIOUS
  <1>k. ASSUME UNCHANGED <<flowNodes, callBack, crashed, replaced>>
        PROVE  Callbacks' /\ LateReportsAreSafe'
    BY <1>k DEF Callbacks, LateReportsAreSafe, InFlow
  <1>d. ASSUME ~disposed PROVE flowNodes \in Seq(Nodes) /\ flowNodes # None
    BY <1>d, NodesAssumption DEF FlowShape
  <1>c. callBack \in [Nodes -> Nat]
    BY DEF TypeOK
  <1>w. ASSUME ~disposed, NEW i \in 1..Len(flowNodes), NEW cb \in [Nodes -> Nat], NEW st,
               DoWork(i, cb, st), UNCHANGED flowNodes,
               NEW n \in Nodes, callBack'[n] # 0, cb[n] # 0 => InFlow(n)
        PROVE  InFlow(n)'
    <2>1. InFlow(n)' <=> InFlow(n)
      BY <1>w DEF InFlow
    <2>2. InFlow(flowNodes[i])
      BY <1>d, <1>w DEF InFlow
    <2>3. n = flowNodes[i] \/ callBack'[n] = cb[n]
      BY <1>d, <1>w, DoWorkCalls
    <2> QED
      BY <1>w, <2>1, <2>2, <2>3
  <1>s. ASSUME ~disposed, NEW i \in 1..Len(flowNodes), StartWithNode(i)
        PROVE  Callbacks' /\ LateReportsAreSafe'
    <2>1. DoWork(i, Reset, stack) /\ UNCHANGED <<flowNodes, crashed, replaced>>
      BY <1>s DEF StartWithNode
    <2>2. Reset \in [Nodes -> Nat]
      BY <1>c DEF Reset
    <2>3. \A n \in Nodes : ~replaced => (Reset[n] # 0 => InFlow(n))
      BY DEF Reset, Callbacks
    <2>4. Callbacks'
      BY <1>s, <1>w, <2>1, <2>2, <2>3 DEF Callbacks
    <2> QED
      BY <2>1, <2>4 DEF LateReportsAreSafe
  <1>o. ASSUME NEW n \in Nodes, NEW st, OnCompleted(n, st),
               UNCHANGED <<flowNodes, disposed, replaced>>
        PROVE  Callbacks' /\ LateReportsAreSafe'
    <2>1. CASE callBack[n] = 0
      BY <1>k, <1>o, <2>1 DEF OnCompleted
    <2>2. CASE callBack[n] # 0 /\ flowNodes = None
      <3>1. callBack' = callBack
        BY <1>o, <2>2 DEF OnCompleted
      <3>2. replaced
        BY <2>2 DEF Callbacks, InFlow
      <3> QED
        BY <1>o, <3>1, <3>2 DEF Callbacks, LateReportsAreSafe
    <2>3. CASE callBack[n] # 0 /\ flowNodes # None /\ ~(callBack[n] + 1 <= Len(flowNodes))
      BY <1>k, <1>o, <2>3 DEF OnCompleted
    <2>4. CASE callBack[n] # 0 /\ flowNodes # None /\ callBack[n] + 1 <= Len(flowNodes)
      <3>1. DoWork(callBack[n] + 1, callBack, st) /\ UNCHANGED crashed
        BY <1>o, <1>c, <2>4 DEF OnCompleted
      <3>2. ~disposed /\ callBack[n] + 1 \in 1..Len(flowNodes)
        BY <1>c, <2>4 DEF FlowShape
      <3>3. Callbacks'
        BY <1>c, <1>o, <1>w, <3>1, <3>2 DEF Callbacks
      <3> QED
        BY <1>o, <3>1, <3>3 DEF LateReportsAreSafe
    <2> QED
      BY <2>1, <2>2, <2>3, <2>4
  <1>1. CASE UNCHANGED vars \/ TaskerReturns
    BY <1>1, <1>k DEF vars, flow, history, TaskerReturns
  <1>2. CASE Start
    <2>1. PICK i \in 1..Len(flowNodes) : StartWithNode(i)
      BY <1>2 DEF Start
    <2> QED
      BY <1>2, <1>s, <2>1 DEF Start
  <1>3. CASE Revert
    <2>1. CASE IndexOf(recent) > 1 /\ StartWithNode(IndexOf(recent) - 1)
      <3>1. InFlow(recent)
        BY <2>1 DEF IndexOf
      <3>2. IndexOf(recent) \in 1..Len(flowNodes)
        BY <3>1 DEF IndexOf, InFlow
      <3>3. ~disposed
        BY <1>3 DEF Revert
      <3>4. IndexOf(recent) - 1 \in 1..Len(flowNodes)
        BY <1>d, <2>1, <3>2, <3>3
      <3> QED
        BY <1>s, <2>1, <3>3, <3>4
    <2>2. CASE crashed' = "OutOfBounds" /\ UNCHANGED <<flow, workers, heard, history>>
      BY <2>2 DEF flow, history, Callbacks, LateReportsAreSafe, InFlow
    <2> QED
      BY <1>3, <2>1, <2>2 DEF Revert
  <1>4. CASE AddNode
    <2>1. PICK n \in Nodes :
            /\ flowNodes' = Sorted((ToSet(flowNodes) \ {m \in ToSet(flowNodes) : Id[m] = Id[n]})
                                   \cup {n})
            /\ replaced' = (replaced \/ {m \in ToSet(flowNodes) : Id[m] = Id[n]} # {})
      BY <1>4 DEF AddNode
    <2>2. ~disposed /\ UNCHANGED <<callBack, crashed>>
      BY <1>4 DEF AddNode
    <2>3. LateReportsAreSafe'
      BY <2>1, <2>2 DEF LateReportsAreSafe
    <2>4. flowNodes \in Seq(Nodes) /\ Ascending(flowNodes)
      BY <2>2 DEF FlowShape
    <2>5. Callbacks'
      <3> SUFFICES ASSUME ~replaced', NEW m \in Nodes, callBack[m] # 0 PROVE InFlow(m)'
        BY <2>2 DEF Callbacks
      <3>1. ~replaced /\ {x \in ToSet(flowNodes) : Id[x] = Id[n]} = {}
        BY <2>1
      <3>2. flowNodes' = Sorted(ToSet(flowNodes) \cup {n})
        BY <2>1, <3>1
      <3>3. /\ flowNodes' \in Seq(Nodes)
            /\ \A i \in 1..Len(flowNodes) : \E j \in i..Len(flowNodes') : flowNodes'[j] = flowNodes[i]
        <4>1. Inserted(flowNodes, n, flowNodes')
          BY <2>4, <3>1, <3>2, InsertKeeps
        <4> QED
          BY <4>1 DEF Inserted
      <3>4. InFlow(m)
        BY <3>1 DEF Callbacks
      <3>5. PICK i \in 1..Len(flowNodes) : flowNodes[i] = m
        BY <3>4 DEF InFlow
      <3>6. PICK j \in i..Len(flowNodes') : flowNodes'[j] = m
        BY <3>3, <3>5
      <3>7. j \in 1..Len(flowNodes') /\ flowNodes' # None
        BY <2>4, <3>3, <3>6, NodesAssumption
      <3> QED
        BY <3>6, <3>7 DEF InFlow
    <2> QED
      BY <2>3, <2>5
  <1>5. CASE ContinueWork
    <2>1. recent \in Nodes
      BY <1>5 DEF ContinueWork, TypeOK
    <2> QED
      BY <1>5, <1>o, <2>1 DEF ContinueWork
  <1>6. CASE Dispose
    <2>1. ~disposed /\ callBack' = Reset /\ UNCHANGED <<crashed, replaced>>
      BY <1>6 DEF Dispose, history
    <2>2. \A n \in Nodes : ~replaced => Reset[n] = 0
      BY DEF Reset, Callbacks
    <2> QED
      BY <2>1, <2>2 DEF Callbacks, LateReportsAreSafe
  <1>7. CASE TaskerReports
    <2>1. stack \in Seq(Frame) /\ stack # <<>>
      BY <1>7 DEF TaskerReports, TypeOK, Frame
    <2>2. Last(stack) \in Frame
      BY <2>1, TopFacts
    <2>3. Last(stack).node \in Nodes
      BY <2>2 DEF Frame
    <2> QED
      BY <1>7, <1>o, <2>3 DEF TaskerReports
  <1>8. ASSUME NEW n \in Nodes, TaskReports(n) PROVE Callbacks' /\ LateReportsAreSafe'
    BY <1>8, <1>o DEF TaskReports
  <1> QED
    BY <1>1, <1>2, <1>3, <1>4, <1>5, <1>6, <1>7, <1>8 DEF Next, Reports

\* A report after dispose is ignored, unless it is of a node that had been replaced.
THEOREM LateReportsSafe == Spec => [](TypeOK /\ FlowShape /\ Callbacks /\ LateReportsAreSafe)
  <1>1. Init => Callbacks /\ LateReportsAreSafe
    BY DEF Init, Callbacks, LateReportsAreSafe
  <1> QED
    BY <1>1, TypeCorrect, CallbacksStep, PTL DEF Spec
-----------------------------------------------------------------------------
\* The stack st that a report leaves behind has the taskers of the stack.
SameTaskers(st) ==
    /\ stack = <<>> <=> st = <<>>
    /\ Len(stack) = 1 => Len(st) = 1 /\ st[1].node = stack[1].node

\* Every step tells the listener the recent node, or has its tasker alone on the stack.
LEMMA ListenStep == TypeOK /\ FlowShape /\ Listening /\ [Next]_vars => Listening'
  <1> SUFFICES ASSUME TypeOK, FlowShape, Listening, [Next]_vars,
                      ~nested', ~disposed', crashed' = "no"
               PROVE  IF stack' = <<>> THEN told' = recent'
                      ELSE Len(stack') = 1 /\ stack'[1].node = recent'
    BY DEF Listening
  <1>t. stack \in Seq(Frame) /\ callBack \in [Nodes -> Nat]
    BY DEF TypeOK, Frame
  <1>l. ASSUME ~nested, ~disposed, crashed = "no"
        PROVE  IF stack = <<>> THEN told = recent ELSE Len(stack) = 1 /\ stack[1].node = recent
    BY <1>l DEF Listening
  <1>w. ASSUME NEW i, NEW cb, NEW st \in Seq(Frame), DoWork(i, cb, st), flowNodes[i] \in Nodes
        PROVE  stack' # <<>> /\ Len(stack') = 1 /\ stack'[1].node = recent'
    <2>1. /\ stack' = Append(st, [node |-> flowNodes[i], done |-> FALSE])
          /\ st = <<>> /\ recent' = flowNodes[i]
      BY <1>w DEF DoWork
    <2>2. stack' = <<[node |-> flowNodes[i], done |-> FALSE]>>
      BY <2>1
    <2> QED
      BY <2>1, <2>2
  <1>s. ASSUME ~disposed, NEW i \in 1..Len(flowNodes), StartWithNode(i)
        PROVE  stack' # <<>> /\ Len(stack') = 1 /\ stack'[1].node = recent'
    <2>1. DoWork(i, Reset, stack) /\ flowNodes[i] \in Nodes
      BY <1>s DEF StartWithNode, FlowShape
    <2> QED
      BY <1>t, <1>w, <2>1
  <1>o. ASSUME NEW n \in Nodes, NEW st \in Seq(Frame), OnCompleted(n, st), SameTaskers(st),
               UNCHANGED <<flowNodes, disposed, told>>, crashed = "no"
        PROVE  IF stack' = <<>> THEN told' = recent'
               ELSE Len(stack') = 1 /\ stack'[1].node = recent'
    <2>1. flowNodes \in Seq(Nodes)
      BY <1>o DEF FlowShape
    <2>2. CASE stack' = st /\ UNCHANGED <<recent, nested>>
      BY <1>l, <1>o, <2>2 DEF SameTaskers
    <2>3. CASE callBack[n] # 0 /\ callBack[n] + 1 <= Len(flowNodes) /\ DoWork(callBack[n] + 1, callBack, st)
      <3>1. flowNodes[callBack[n] + 1] \in Nodes
        BY <1>t, <2>1, <2>3
      <3> QED
        BY <1>w, <2>3, <3>1
    <2> QED
      BY <1>o, <2>2, <2>3 DEF OnCompleted
  <1>1. CASE UNCHANGED vars
    BY <1>1, <1>l DEF vars, flow, workers, heard, history
  <1>2. CASE Start
    BY <1>2, <1>s DEF Start
  <1>3. CASE Revert
    <2>1. CASE IndexOf(recent) > 1 /\ StartWithNode(IndexOf(recent) - 1)
      <3>1. InFlow(recent)
        BY <2>1 DEF IndexOf
      <3>2. IndexOf(recent) \in 1..Len(flowNodes)
        BY <3>1 DEF IndexOf, InFlow
      <3>3. ~disposed /\ flowNodes \in Seq(Nodes)
        BY <1>3 DEF Revert, FlowShape
      <3>4. IndexOf(recent) - 1 \in 1..Len(flowNodes)
        BY <2>1, <3>2, <3>3
      <3> QED
        BY <1>s, <2>1, <3>3, <3>4
    <2> QED
      BY <1>3, <2>1 DEF Revert
  <1>4. CASE AddNode
    BY <1>4, <1>l DEF AddNode, workers, heard
  <1>5. CASE ContinueWork
    <2>1. recent \in Nodes /\ SameTaskers(stack)
      BY <1>5 DEF ContinueWork, TypeOK, SameTaskers
    <2> QED
      BY <1>5, <1>o, <1>t, <2>1 DEF ContinueWork, Call
  <1>6. CASE Dispose
    BY <1>6 DEF Dispose
  <1>7. CASE TaskerReports
    <2> DEFINE st == Append(Front(stack), [Last(stack) EXCEPT !.done = TRUE])
    <2>1. stack # <<>>
      BY <1>7 DEF TaskerReports
    <2>2. Last(stack) \in Frame /\ Last(stack) = stack[Len(stack)]
      BY <1>t, <2>1, TopFacts
    <2>3. /\ st \in Seq(Frame) /\ Len(st) = Len(stack) /\ st # <<>>
          /\ st[Len(stack)].node = Last(stack).node
      BY <1>t, <2>1, MarkFacts
    <2>4. Last(stack).node \in Nodes
      BY <2>2 DEF Frame
    <2>5. OnCompleted(Last(stack).node, st) /\ UNCHANGED <<flowNodes, disposed, told>> /\ crashed = "no"
      BY <1>7 DEF TaskerReports
    <2> HIDE DEF st
    <2>6. SameTaskers(st)
      BY <2>1, <2>2, <2>3 DEF SameTaskers
    <2> QED
      BY <1>o, <2>3, <2>4, <2>5, <2>6
  <1>8. CASE TaskerReturns
    <2>1. /\ crashed = "no" /\ stack # <<>> /\ stack' = Front(stack)
          /\ told' = IF disposed THEN told ELSE Last(stack).node
          /\ UNCHANGED <<recent, disposed, crashed, nested>>
      BY <1>8 DEF TaskerReturns, flow, history
    <2>2. Len(stack) = 1 /\ stack[1].node = recent
      BY <1>l, <2>1
    <2>3. Last(stack) = stack[1] /\ Len(Front(stack)) = 0 /\ Front(stack) \in Seq(Frame)
      BY <1>t, <2>1, <2>2, TopFacts
    <2>4. stack' = <<>>
      BY <2>1, <2>3
    <2> QED
      BY <2>1, <2>2, <2>3, <2>4
  <1>9. ASSUME NEW n \in Nodes, TaskReports(n)
        PROVE  IF stack' = <<>> THEN told' = recent'
               ELSE Len(stack') = 1 /\ stack'[1].node = recent'
    <2>1. <<>> \in Seq(Frame) /\ SameTaskers(<<>>)
      BY <1>9 DEF TaskReports, SameTaskers
    <2> QED
      BY <1>9, <1>o, <2>1 DEF TaskReports
  <1> QED
    BY <1>1, <1>2, <1>3, <1>4, <1>5, <1>6, <1>7, <1>8, <1>9 DEF Next, Reports

\* Between two events the listener knows the recent node, if no node was ever run from
\* within a tasker.
THEOREM ListenerIsTold == Spec => []ListenerKnowsRecent
  <1>1. Init => Listening
    BY DEF Init, Listening
  <1>2. Listening => ListenerKnowsRecent
    BY DEF Listening, ListenerKnowsRecent
  <1> QED
    BY <1>1, <1>2, TypeCorrect, ListenStep, PTL DEF Spec
-----------------------------------------------------------------------------
\* The steps in which a node is reported done.
Report == ContinueWork \/ TaskerReports \/ \E n \in Nodes : TaskReports(n)

\* n reports and leaves the stack st: if the flow listens to it, n is the recent node
\* and nobody else owes a report of this run.
Settled(n, st) ==
    callBack[n] # 0 =>
        /\ n = recent /\ ~finished
        /\ \A m \in Nodes \ (Silent \cup stale') : tasks'[m] = 0 /\ OpenIn(st, m) = {}

\* Fewer reports that are owed leave a node with one at most.
LEMMA FewerReports ==
    ASSUME NEW m, OneReport(m), OpenIn(stack', m) \subseteq OpenIn(stack, m),
           tasks[m] \in Nat, tasks'[m] \in Nat, tasks'[m] <= tasks[m],
           UNCHANGED <<recent, finished>>
    PROVE  OneReport(m)'
  <1>1. Owes(m)' => Owes(m)
    BY DEF Owes
  <1> QED
    BY <1>1 DEF OneReport

\* A tasker that is called owes one report.
LEMMA PushOpens ==
    ASSUME NEW s \in Seq(Frame), NEW x \in Nodes, NEW m \in Nodes, OpenIn(s, m) = {}
    PROVE  /\ m # x => OpenIn(Append(s, [node |-> x, done |-> FALSE]), m) = {}
           /\ \A i, j \in OpenIn(Append(s, [node |-> x, done |-> FALSE]), m) : i = j
  <1> DEFINE f == [node |-> x, done |-> FALSE]
             u == Append(s, f)
  <1>1. f \in Frame /\ f.node = x
    BY DEF Frame
  <1> HIDE DEF f
  <1>2. Len(u) = Len(s) + 1 /\ Len(s) \in Nat /\ u[Len(s) + 1] = f /\ \A i \in 1..Len(s) : u[i] = s[i]
    BY <1>1, PushFacts
  <1> HIDE DEF u
  <1>3. ASSUME NEW i \in OpenIn(u, m) PROVE i = Len(s) + 1
    <2>1. i \in 1..(Len(s) + 1) /\ u[i].node = m /\ ~u[i].done
      BY <1>2 DEF OpenIn
    <2>2. ASSUME i \in 1..Len(s) PROVE FALSE
      BY <1>2, <2>1, <2>2 DEF OpenIn
    <2> QED
      BY <1>2, <2>1, <2>2
  <1>4. ASSUME m # x PROVE OpenIn(u, m) = {}
    <2> SUFFICES ASSUME NEW i \in OpenIn(u, m) PROVE FALSE
      OBVIOUS
    <2>1. i = Len(s) + 1 /\ u[i].node = m
      BY <1>3 DEF OpenIn
    <2> QED
      BY <1>1, <1>2, <1>4, <2>1
  <1> QED
    BY <1>3, <1>4 DEF u, f

\* The next tasker owes the only report of the run.
LEMMA NextReports ==
    ASSUME flowNodes \in Seq(Nodes), callBack \in [Nodes -> Nat], NEW i \in 1..Len(flowNodes),
           NEW cb, NEW st \in Seq(Frame), DoWork(i, cb, st), ~finished',
           NEW m \in Nodes, tasks'[m] = 0, OpenIn(st, m) = {}
    PROVE  OneReport(m)'
  <1>1. /\ stack' = Append(st, [node |-> flowNodes[i], done |-> FALSE]) /\ recent' = flowNodes[i]
        /\ flowNodes[i] \in Nodes
    BY DEF DoWork
  <1>2. /\ m # flowNodes[i] => OpenIn(stack', m) = {}
        /\ \A k, l \in OpenIn(stack', m) : k = l
    <2> DEFINE u == Append(st, [node |-> flowNodes[i], done |-> FALSE])
    <2>1. /\ m # flowNodes[i] => OpenIn(u, m) = {}
          /\ \A k, l \in OpenIn(u, m) : k = l
      BY <1>1, PushOpens
    <2>2. stack' = u
      BY <1>1
    <2> HIDE DEF u
    <2> QED
      BY <2>1, <2>2
  <1>3. Owes(m)' => m = recent'
    <2>1. ~(tasks'[m] > 0) /\ recent' = flowNodes[i]
      BY <1>1
    <2> QED
      BY <1>2, <2>1 DEF Owes
  <1> QED
    BY <1>2, <1>3 DEF OneReport

\* A run goes on from the node that reported.
LEMMA RunAdvances ==
    ASSUME TypeOK, FlowShape, ~disposed, RunEnd, NEW n \in Nodes, NEW st \in Seq(Frame),
           OnCompleted(n, st), Settled(n, st), UNCHANGED <<flowNodes, disposed>>,
           callBack[n] = 0 => \A m \in Nodes \ (Silent \cup stale') : OneReport(m)'
    PROVE  RunEnd' /\ \A m \in Nodes \ (Silent \cup stale') : OneReport(m)'
  <1>1. flowNodes \in Seq(Nodes) /\ callBack \in [Nodes -> Nat] /\ ran \in Seq(Nodes) /\ flowNodes # None
    BY NodesAssumption DEF TypeOK, FlowShape
  <1>2. CASE callBack[n] = 0
    <2>1. UNCHANGED <<recent, callBack, ran>>
      BY <1>2 DEF OnCompleted
    <2> QED
      BY <1>2, <2>1 DEF RunEnd
  <1>3. CASE callBack[n] # 0 /\ ~(callBack[n] + 1 <= Len(flowNodes))
    <2>1. UNCHANGED <<recent, callBack, ran>> /\ finished' = TRUE /\ stack' = st
      BY <1>1, <1>3 DEF OnCompleted
    <2>2. RunEnd'
      BY <2>1 DEF RunEnd
    <2>3. ASSUME NEW m \in Nodes \ (Silent \cup stale') PROVE OneReport(m)'
      <3>1. tasks'[m] = 0 /\ OpenIn(stack', m) = {}
        BY <1>3, <2>1 DEF Settled
      <3> QED
        BY <3>1 DEF OneReport, Owes
    <2> QED
      BY <2>2, <2>3
  <1>4. CASE callBack[n] # 0 /\ callBack[n] + 1 <= Len(flowNodes)
    <2> DEFINE i == callBack[n] + 1
               x == flowNodes[i]
    <2>1. DoWork(i, callBack, st) /\ ran' = Append(ran, x) /\ finished' = finished
      BY <1>1, <1>4 DEF OnCompleted
    <2>2. i \in 1..Len(flowNodes) /\ x \in Nodes
      BY <1>1, <1>4
    <2>3. ASSUME NEW m \in Nodes \ (Silent \cup stale') PROVE OneReport(m)'
      <3>1. tasks'[m] = 0 /\ OpenIn(st, m) = {} /\ ~finished'
        BY <1>4, <2>1 DEF Settled
      <3> HIDE DEF i, x
      <3> QED
        BY <1>1, <2>1, <2>2, <3>1, NextReports
    <2>4. callBack'[x] = i /\ \A m \in Nodes : m # x => callBack'[m] = callBack[m]
      <3> HIDE DEF i
      <3> QED
        BY <1>1, <2>1, <2>2, DoWorkCalls
    <2>5. recent' = x
      BY <2>1 DEF DoWork
    <2> HIDE DEF i
    <2>6. ran' # <<>> /\ Last(ran') = x /\ x \in ToSet(ran') /\ ToSet(ran) \subseteq ToSet(ran')
      <3>1. /\ Len(ran') = Len(ran) + 1 /\ ran'[Len(ran) + 1] = x /\ Len(ran) \in Nat
            /\ ran' \in Seq(Nodes) /\ \A k \in 1..Len(ran) : ran'[k] = ran[k]
        BY <1>1, <2>1, <2>2
      <3>2. DOMAIN ran = 1..Len(ran) /\ DOMAIN ran' = 1..(Len(ran) + 1)
        BY <1>1, <3>1
      <3> QED
        BY <3>1, <3>2 DEF Last, ToSet
    <2>7. ASSUME NEW m \in Nodes, callBack'[m] # 0
          PROVE  m \in ToSet(ran') /\ \E j \in callBack'[m]..Len(flowNodes') : flowNodes'[j] = m
      <3>1. CASE m = x
        BY <1>1, <2>2, <2>4, <2>6, <3>1
      <3>2. CASE m # x
        BY <2>4, <2>6, <2>7, <3>2 DEF RunEnd
      <3> QED
        BY <3>1, <3>2
    <2> QED
      BY <2>3, <2>5, <2>6, <2>7 DEF RunEnd
  <1> QED
    BY <1>2, <1>3, <1>4

\* The reports of a run come from its recent node, one for each node: what is reported
\* done besides is either ignored or makes doubled true.
LEMMA ReportSettles ==
    ASSUME TypeOK, FlowShape, SilentOwesNothing, OneRun, Report, ~doubled', ~replaced, ~disposed
    PROVE  /\ ~doubled /\ UNCHANGED <<flowNodes, disposed, shifted, replaced>>
           /\ \E n \in Nodes, st \in Seq(Frame) :
                 /\ OnCompleted(n, st) /\ Settled(n, st)
                 /\ callBack[n] = 0 => \A m \in Nodes \ (Silent \cup stale') : OneReport(m)'
  <1>t. /\ stack \in Seq(Frame) /\ callBack \in [Nodes -> Nat] /\ tasks \in [Nodes -> Nat]
        /\ <<>> \in Seq(Frame)
    BY DEF TypeOK, Frame
  <1>r. ASSUME ~doubled PROVE RunEnd /\ \A n \in Nodes \ (Silent \cup stale) : OneReport(n)
    BY <1>r DEF OneRun
  <1>1. CASE ContinueWork
    <2>1. /\ recent # None /\ OnCompleted(recent, stack) /\ ~doubled /\ ~finished
          /\ stale' = IF recent \in Silent THEN stale ELSE stale \cup {recent}
          /\ UNCHANGED <<flowNodes, disposed, shifted, replaced, tasks>>
      BY <1>1 DEF ContinueWork
    <2>2. recent \in Nodes
      BY <2>1 DEF TypeOK
    <2>3. ASSUME NEW m \in Nodes \ (Silent \cup stale') PROVE m # recent /\ OneReport(m) /\ ~Owes(m)
      <3>1. m # recent /\ m \in Nodes \ (Silent \cup stale)
        BY <2>1
      <3>2. OneReport(m)
        BY <1>r, <2>1, <3>1
      <3> QED
        BY <3>1, <3>2 DEF OneReport
    <2>4. Settled(recent, stack)
      BY <1>t, <2>1, <2>3 DEF Settled, Owes
    <2>5. ASSUME callBack[recent] = 0, NEW m \in Nodes \ (Silent \cup stale') PROVE OneReport(m)'
      <3>1. UNCHANGED <<recent, finished, stack>>
        BY <2>1, <2>5 DEF OnCompleted
      <3> QED
        BY <2>1, <2>3, <3>1 DEF OneReport, Owes
    <2> QED
      BY <1>t, <2>1, <2>2, <2>4, <2>5
  <1>2. CASE TaskerReports
    <2> DEFINE n == Last(stack).node
               st == Append(Front(stack), [Last(stack) EXCEPT !.done = TRUE])
    <2>1. /\ stack # <<>> /\ n \notin Silent /\ ~Last(stack).done /\ OnCompleted(n, st)
          /\ ~doubled /\ ~(n \in stale /\ n \in ToSet(ran))
          /\ UNCHANGED <<flowNodes, disposed, shifted, replaced, tasks, stale>>
      BY <1>2 DEF TaskerReports, Reported
    <2>2. Len(stack) \in Nat \ {0} /\ Last(stack) \in Frame /\ Last(stack) = stack[Len(stack)]
      BY <1>t, <2>1, TopFacts
    <2>3. /\ st \in Seq(Frame) /\ Len(st) = Len(stack)
          /\ \A i \in 1..(Len(stack) - 1) : st[i] = stack[i]
          /\ st[Len(stack)].node = Last(stack).node /\ st[Len(stack)].done
      BY <1>t, <2>1, MarkFacts
    <2>4. n \in Nodes /\ Len(stack) \in OpenIn(stack, n)
      BY <2>1, <2>2 DEF Frame, OpenIn
    <2> HIDE DEF st
    <2>5. ASSUME NEW m PROVE OpenIn(st, m) \subseteq OpenIn(stack, m) \ {Len(stack)}
      <3> SUFFICES ASSUME NEW i \in OpenIn(st, m) PROVE i \in OpenIn(stack, m) \ {Len(stack)}
        OBVIOUS
      <3>1. i \in 1..Len(stack) /\ st[i].node = m /\ ~st[i].done
        BY <2>3 DEF OpenIn
      <3>2. i # Len(stack)
        BY <2>3, <3>1
      <3>3. i \in 1..(Len(stack) - 1)
        BY <2>2, <3>1, <3>2
      <3> QED
        BY <2>3, <3>1, <3>2, <3>3 DEF OpenIn
    <2> HIDE DEF n
    <2>6. ASSUME callBack[n] # 0
          PROVE  /\ n = recent /\ ~finished
                 /\ \A m \in Nodes \ (Silent \cup stale') : tasks'[m] = 0 /\ OpenIn(st, m) = {}
      <3>1. n \in Nodes \ (Silent \cup stale)
        BY <1>r, <2>1, <2>4, <2>6 DEF RunEnd
      <3>2. OneReport(n)
        BY <1>r, <2>1, <3>1
      <3>3. n = recent /\ ~finished
        BY <2>4, <3>2 DEF OneReport, Owes
      <3>4. tasks[n] = 0 /\ OpenIn(st, n) = {}
        <4>1. tasks[n] \in Nat
          BY <1>t, <2>4
        <4>2. tasks[n] = 0 /\ \A i \in OpenIn(stack, n) : i = Len(stack)
          BY <2>4, <3>2, <4>1 DEF OneReport
        <4> QED
          BY <2>5, <4>2
      <3>5. ASSUME NEW m \in Nodes \ (Silent \cup stale') PROVE tasks'[m] = 0 /\ OpenIn(st, m) = {}
        <4>1. CASE m = n
          BY <2>1, <3>4, <4>1
        <4>2. CASE m # n
          <5>1. OneReport(m) /\ ~Owes(m)
            BY <1>r, <2>1, <3>3, <4>2 DEF OneReport
          <5>2. tasks[m] \in Nat /\ ~(tasks[m] > 0) /\ OpenIn(stack, m) = {}
            BY <1>t, <5>1 DEF Owes
          <5> QED
            BY <2>1, <2>5, <5>2
        <4> QED
          BY <4>1, <4>2
      <3> QED
        BY <3>3, <3>5
    <2>7. ASSUME callBack[n] = 0, NEW m \in Nodes \ (Silent \cup stale') PROVE OneReport(m)'
      <3>1. UNCHANGED <<recent, finished>> /\ stack' = st
        BY <2>1, <2>7 DEF OnCompleted
      <3>2. OneReport(m) /\ tasks[m] \in Nat /\ tasks'[m] = tasks[m]
        BY <1>r, <1>t, <2>1
      <3>3. OpenIn(stack', m) \subseteq OpenIn(stack, m)
        BY <2>5, <3>1
      <3> QED
        BY <3>1, <3>2, <3>3, FewerReports
    <2> QED
      BY <2>1, <2>3, <2>4, <2>6, <2>7 DEF Settled
  <1>3. ASSUME NEW n \in Nodes, TaskReports(n)
        PROVE  /\ ~doubled /\ UNCHANGED <<flowNodes, disposed, shifted, replaced>>
               /\ OnCompleted(n, <<>>) /\ Settled(n, <<>>)
               /\ callBack[n] = 0 => \A m \in Nodes \ (Silent \cup stale') : OneReport(m)'
    <2>1. /\ stack = <<>> /\ tasks[n] > 0 /\ tasks' = [tasks EXCEPT ![n] = tasks[n] - 1]
          /\ OnCompleted(n, <<>>) /\ ~doubled /\ ~(n \in stale /\ n \in ToSet(ran))
          /\ UNCHANGED <<flowNodes, disposed, shifted, replaced, stale>>
      BY <1>3 DEF TaskReports, Reported
    <2>2. n \notin Silent /\ tasks'[n] = tasks[n] - 1 /\ \A m \in Nodes : m # n => tasks'[m] = tasks[m]
      BY <1>t, <2>1 DEF SilentOwesNothing
    <2>3. ASSUME callBack[n] # 0
          PROVE  /\ n = recent /\ ~finished
                 /\ \A m \in Nodes \ (Silent \cup stale') : tasks'[m] = 0 /\ OpenIn(<<>>, m) = {}
      <3>1. n \in Nodes \ (Silent \cup stale)
        BY <1>r, <2>1, <2>2, <2>3 DEF RunEnd
      <3>2. OneReport(n)
        BY <1>r, <2>1, <3>1
      <3>3. n = recent /\ ~finished /\ tasks[n] <= 1
        BY <2>1, <3>2 DEF OneReport, Owes
      <3>4. tasks'[n] = 0
        BY <1>t, <2>1, <2>2, <3>3
      <3>5. ASSUME NEW m \in Nodes \ (Silent \cup stale'), m # n PROVE tasks'[m] = 0
        <4>1. OneReport(m) /\ ~Owes(m)
          BY <1>r, <2>1, <3>3, <3>5 DEF OneReport
        <4>2. tasks[m] \in Nat /\ ~(tasks[m] > 0)
          BY <1>t, <4>1 DEF Owes
        <4> QED
          BY <2>2, <3>5, <4>2
      <3>6. \A m : OpenIn(<<>>, m) = {}
        BY DEF OpenIn
      <3> QED
        BY <3>3, <3>4, <3>5, <3>6
    <2>4. ASSUME callBack[n] = 0, NEW m \in Nodes \ (Silent \cup stale') PROVE OneReport(m)'
      <3>1. UNCHANGED <<recent, finished, stack>>
        BY <2>1, <2>4 DEF OnCompleted
      <3>2. OneReport(m)
        BY <1>r, <2>1
      <3>3. tasks[m] \in Nat /\ tasks'[m] \in Nat /\ tasks'[m] <= tasks[m]
        BY <1>t, <2>1, <2>2
      <3>4. OpenIn(stack', m) \subseteq OpenIn(stack, m)
        BY <3>1
      <3> QED
        BY <3>1, <3>2, <3>3, <3>4, FewerReports
    <2> QED
      BY <2>1, <2>3, <2>4 DEF Settled
  <1>4. CASE \E n \in Nodes : TaskReports(n)
    BY <1>3, <1>4, <1>t
  <1> QED
    BY <1>1, <1>2, <1>4 DEF Report

\* Every step keeps the silent nodes silent.
LEMMA SilentStep == TypeOK /\ SilentOwesNothing /\ [Next]_vars => SilentOwesNothing'
  <1> SUFFICES ASSUME TypeOK, SilentOwesNothing, [Next]_vars, NEW s \in Silent PROVE tasks'[s] = 0
    BY DEF SilentOwesNothing
  <1>0. s \in Nodes /\ tasks[s] = 0 /\ tasks \in [Nodes -> Nat]
    BY NodesAssumption DEF SilentOwesNothing, TypeOK
  <1>1. CASE UNCHANGED tasks
    BY <1>0, <1>1
  <1>2. CASE TaskerReturns
    <2>1. tasks' = [tasks EXCEPT ![Last(stack).node] =
                       IF Last(stack).done \/ Last(stack).node \in Silent THEN @ ELSE @ + 1]
      BY <1>2 DEF TaskerReturns
    <2> QED
      BY <1>0, <2>1
  <1>3. ASSUME NEW n \in Nodes, TaskReports(n) PROVE tasks'[s] = 0
    <2>1. tasks[n] > 0 /\ tasks' = [tasks EXCEPT ![n] = @ - 1]
      BY <1>3 DEF TaskReports
    <2>2. n # s
      BY <1>0, <2>1
    <2> QED
      BY <1>0, <2>1, <2>2
  <1>4. CASE UNCHANGED vars \/ Start \/ Revert \/ AddNode \/ ContinueWork \/ Dispose \/ TaskerReports
    BY <1>1, <1>4 DEF vars, Start, Revert, AddNode, ContinueWork, Dispose, TaskerReports,
                      StartWithNode, workers
  <1> QED
    BY <1>2, <1>3, <1>4 DEF Next, Reports

\* What a start does to the callbacks and to what the nodes owe: all but the node it
\* runs are reset, and whoever still owes a report belongs to the past.
LEMMA StartRuns ==
    ASSUME TypeOK, FlowShape, Callbacks, ~disposed, ~replaced,
           NEW i \in 1..Len(flowNodes), StartWithNode(i)
    PROVE  /\ RunEnd' /\ \A m \in Nodes \ (Silent \cup stale') : OneReport(m)'
           /\ flowNodes[i] \in Nodes /\ callBack'[flowNodes[i]] = i /\ ran' = <<flowNodes[i]>>
           /\ \A m \in Nodes : m # flowNodes[i] => callBack'[m] = 0
           /\ flowNodes' = flowNodes
  <1>1. /\ flowNodes \in Seq(Nodes) /\ stack \in Seq(Frame) /\ callBack \in [Nodes -> Nat]
        /\ tasks \in [Nodes -> Nat]
    BY DEF TypeOK, FlowShape, Frame
  <1>2. /\ DoWork(i, Reset, stack) /\ ran' = <<flowNodes[i]>> /\ stale' = stale \cup AtWork
        /\ finished' = FALSE /\ UNCHANGED <<flowNodes, tasks>>
    BY DEF StartWithNode
  <1>3. Reset \in [Nodes -> Nat] /\ \A m \in Nodes : Reset[m] = 0
    BY <1>1 DEF Reset, Callbacks
  <1>4. /\ flowNodes[i] \in Nodes /\ callBack'[flowNodes[i]] = i
        /\ \A m \in Nodes : m # flowNodes[i] => callBack'[m] = 0
    <2>1. /\ flowNodes[i] \in Nodes /\ callBack'[flowNodes[i]] = i
          /\ \A m \in Nodes : m # flowNodes[i] => callBack'[m] = Reset[m]
      BY <1>1, <1>2, <1>3, DoWorkCalls
    <2> QED
      BY <1>3, <2>1
  <1>5. ASSUME NEW m \in Nodes \ (Silent \cup stale') PROVE OneReport(m)'
    <2>1. m \notin AtWork
      BY <1>2
    <2>2. tasks'[m] = 0 /\ OpenIn(stack, m) = {}
      BY <1>1, <1>2, <2>1 DEF AtWork, OpenIn
    <2>3. ~finished'
      BY <1>2
    <2> QED
      BY <1>1, <1>2, <2>2, <2>3, NextReports
  <1>6. RunEnd'
    <2>1. ran' # <<>> /\ Last(ran') = flowNodes[i] /\ flowNodes[i] \in ToSet(ran')
      BY <1>2 DEF Last, ToSet
    <2>2. recent' = flowNodes[i]
      BY <1>2 DEF DoWork
    <2>3. ASSUME NEW m \in Nodes, callBack'[m] # 0
          PROVE  m \in ToSet(ran') /\ \E j \in callBack'[m]..Len(flowNodes') : flowNodes'[j] = m
      <3>1. m = flowNodes[i] /\ callBack'[m] = i
        BY <1>4, <2>3
      <3> QED
        BY <1>1, <1>2, <2>1, <3>1
    <2> QED
      BY <2>1, <2>2, <2>3 DEF RunEnd
  <1> QED
    BY <1>2, <1>4, <1>5, <1>6

\* A node that was added below moves the nodes of the run up, if any.
LEMMA AddNodeFacts ==
    ASSUME TypeOK, FlowShape, AddNode, ~replaced'
    PROVE  /\ ~replaced /\ ~disposed
           /\ UNCHANGED <<recent, disposed, callBack, stack, tasks, finished, ran, stale, doubled>>
           /\ \A i \in 1..Len(flowNodes) : \E j \in i..Len(flowNodes') : flowNodes'[j] = flowNodes[i]
           /\ flowNodes' \in Seq(Nodes)
           /\ ~shifted' =>
                /\ ~shifted
                /\ recent # None =>
                     \A i \in 1..Len(flowNodes) :
                         Id[flowNodes[i]] <= Id[recent] =>
                             i \in 1..Len(flowNodes') /\ flowNodes'[i] = flowNodes[i]
  <1>1. PICK n \in Nodes :
          /\ flowNodes' = Sorted((ToSet(flowNodes) \ {m \in ToSet(flowNodes) : Id[m] = Id[n]})
                                 \cup {n})
          /\ replaced' = (replaced \/ {m \in ToSet(flowNodes) : Id[m] = Id[n]} # {})
          /\ shifted' = (shifted \/ (recent # None /\ Id[n] <= Id[recent]))
    BY DEF AddNode
  <1>s. shifted' = (shifted \/ (recent # None /\ Id[n] <= Id[recent]))
    BY <1>1
  <1>2. /\ ~disposed
        /\ UNCHANGED <<recent, disposed, callBack, stack, tasks, finished, ran, stale, doubled>>
    BY DEF AddNode, workers, heard
  <1>3. ~replaced /\ {x \in ToSet(flowNodes) : Id[x] = Id[n]} = {}
    BY <1>1
  <1>4. flowNodes' = Sorted(ToSet(flowNodes) \cup {n})
    BY <1>1, <1>3
  <1>5. flowNodes \in Seq(Nodes) /\ Ascending(flowNodes)
    BY <1>2 DEF FlowShape
  <1>6. /\ flowNodes' \in Seq(Nodes)
        /\ \A i \in 1..Len(flowNodes) : \E j \in i..Len(flowNodes') : flowNodes'[j] = flowNodes[i]
        /\ \A i \in 1..Len(flowNodes) :
               Id[flowNodes[i]] < Id[n] => i \in 1..Len(flowNodes') /\ flowNodes'[i] = flowNodes[i]
    <2>1. Inserted(flowNodes, n, flowNodes')
      BY <1>3, <1>4, <1>5, InsertKeeps
    <2> QED
      BY <2>1 DEF Inserted
  <1>7. ASSUME ~shifted', recent # None, NEW i \in 1..Len(flowNodes), Id[flowNodes[i]] <= Id[recent]
        PROVE  i \in 1..Len(flowNodes') /\ flowNodes'[i] = flowNodes[i]
    <2>1. ~(Id[n] <= Id[recent]) /\ recent \in Nodes /\ flowNodes[i] \in Nodes
      <3>1. ~(Id[n] <= Id[recent])
        BY <1>7, <1>s, Zenon
      <3>2. recent \in Nodes /\ flowNodes[i] \in Nodes
        BY <1>5, <1>7 DEF TypeOK
      <3> QED
        BY <3>1, <3>2
    <2>2. Id[n] \in Nat /\ Id[recent] \in Nat /\ Id[flowNodes[i]] \in Nat
      BY <2>1, NodesAssumption
    <2>3. Id[flowNodes[i]] < Id[n]
      BY <1>7, <2>1, <2>2
    <2> QED
      BY <1>6, <2>3
  <1>8. ~shifted' => ~shifted
    BY <1>1
  <1> QED
    BY <1>2, <1>3, <1>6, <1>7, <1>8

\* Every step keeps a run in order until a node is reported done twice, or replaced.
LEMMA OneRunStep ==
    TypeOK /\ FlowShape /\ Callbacks /\ SilentOwesNothing /\ OneRun /\ [Next]_vars => OneRun'
  <1> SUFFICES ASSUME TypeOK, FlowShape, Callbacks, SilentOwesNothing, OneRun, [Next]_vars,
                      ~doubled', ~replaced', ~disposed'
               PROVE  RunEnd' /\ \A m \in Nodes \ (Silent \cup stale') : OneReport(m)'
    BY DEF OneRun
  <1>t. stack \in Seq(Frame) /\ callBack \in [Nodes -> Nat] /\ tasks \in [Nodes -> Nat]
    BY DEF TypeOK, Frame
  <1>r. ASSUME ~doubled, ~replaced, ~disposed
        PROVE  RunEnd /\ \A m \in Nodes \ (Silent \cup stale) : OneReport(m)
    BY <1>r DEF OneRun
  <1>u. CASE UNCHANGED <<flow, workers, heard, history>>
    <2>1. UNCHANGED <<flowNodes, recent, callBack, stack, tasks, finished, ran, stale, doubled, replaced, disposed>>
      BY <1>u DEF flow, workers, heard, history
    <2>2. RunEnd'
      BY <1>r, <2>1 DEF RunEnd
    <2>3. ASSUME NEW m \in Nodes \ (Silent \cup stale') PROVE OneReport(m)'
      BY <1>r, <2>1 DEF OneReport, Owes
    <2> QED
      BY <2>2, <2>3
  <1>1. CASE UNCHANGED vars
    BY <1>1, <1>u DEF vars
  <1>2. CASE Start
    <2>1. PICK i \in 1..Len(flowNodes) : StartWithNode(i) /\ ~disposed
      BY <1>2 DEF Start
    <2>2. ~replaced
      BY <2>1 DEF StartWithNode
    <2> QED
      BY <2>1, <2>2, StartRuns
  <1>3. CASE Revert
    <2>1. CASE IndexOf(recent) > 1 /\ StartWithNode(IndexOf(recent) - 1)
      <3>1. InFlow(recent)
        BY <2>1 DEF IndexOf
      <3>2. IndexOf(recent) \in 1..Len(flowNodes)
        BY <3>1 DEF IndexOf, InFlow
      <3>3. ~disposed /\ flowNodes \in Seq(Nodes)
        BY <1>3 DEF Revert, FlowShape
      <3>4. IndexOf(recent) - 1 \in 1..Len(flowNodes)
        BY <2>1, <3>2, <3>3
      <3>5. ~replaced
        BY <2>1 DEF StartWithNode
      <3> QED
        BY <2>1, <3>3, <3>4, <3>5, StartRuns
    <2> QED
      BY <1>3, <1>u, <2>1 DEF Revert
  <1>4. CASE AddNode
    <2>1. /\ ~replaced /\ ~disposed
          /\ UNCHANGED <<recent, callBack, stack, tasks, finished, ran, stale, doubled>>
          /\ \A i \in 1..Len(flowNodes) : \E j \in i..Len(flowNodes') : flowNodes'[j] = flowNodes[i]
          /\ flowNodes' \in Seq(Nodes)
      BY <1>4, AddNodeFacts
    <2>2. RunEnd /\ flowNodes \in Seq(Nodes)
      BY <1>r, <2>1 DEF FlowShape
    <2>3. ASSUME NEW m \in Nodes \ (Silent \cup stale') PROVE OneReport(m)'
      BY <1>r, <2>1 DEF OneReport, Owes
    <2>4. ASSUME NEW m \in Nodes, callBack[m] # 0
          PROVE  m \in ToSet(ran) /\ \E j \in callBack[m]..Len(flowNodes') : flowNodes'[j] = m
      <3>1. m \in ToSet(ran)
        BY <2>2, <2>4 DEF RunEnd
      <3>2. PICK i \in callBack[m]..Len(flowNodes) : flowNodes[i] = m
        BY <2>2, <2>4 DEF RunEnd
      <3>3. callBack[m] \in Nat /\ i \in 1..Len(flowNodes)
        BY <1>t, <2>2, <2>4, <3>2
      <3>4. PICK j \in i..Len(flowNodes') : flowNodes'[j] = flowNodes[i]
        BY <2>1, <3>3
      <3>5. j \in callBack[m]..Len(flowNodes')
        BY <2>1, <3>2, <3>3, <3>4
      <3> QED
        BY <3>1, <3>2, <3>4, <3>5
    <2>5. recent = IF ran = <<>> THEN None ELSE Last(ran)
      BY <2>2 DEF RunEnd
    <2>6. RunEnd'
      BY <2>1, <2>4, <2>5 DEF RunEnd
    <2> QED
      BY <2>3, <2>6
  <1>5. CASE Report
    <2>1. ~replaced /\ ~disposed
      BY <1>5 DEF Report, ContinueWork, TaskerReports, TaskReports
    <2>2. /\ ~doubled /\ UNCHANGED <<flowNodes, disposed>>
          /\ \E n \in Nodes, st \in Seq(Frame) :
                /\ OnCompleted(n, st) /\ Settled(n, st)
                /\ callBack[n] = 0 => \A m \in Nodes \ (Silent \cup stale') : OneReport(m)'
      BY <1>5, <2>1, ReportSettles
    <2>3. PICK n \in Nodes, st \in Seq(Frame) :
                /\ OnCompleted(n, st) /\ Settled(n, st)
                /\ callBack[n] = 0 => \A m \in Nodes \ (Silent \cup stale') : OneReport(m)'
      BY <2>2
    <2>4. RunEnd
      BY <1>r, <2>1, <2>2
    <2> QED
      BY <2>1, <2>2, <2>3, <2>4, RunAdvances
  <1>6. CASE Dispose
    BY <1>6 DEF Dispose
  <1>7. CASE TaskerReturns
    <2> DEFINE t == Last(stack)
    <2>1. /\ stack # <<>> /\ stack' = Front(stack)
          /\ tasks' = [tasks EXCEPT ![t.node] =
                           IF t.done \/ t.node \in Silent THEN tasks[t.node] ELSE tasks[t.node] + 1]
          /\ UNCHANGED <<flowNodes, recent, callBack, disposed, finished, ran, stale, doubled, replaced>>
      BY <1>7 DEF TaskerReturns, flow, history
    <2>2. /\ Len(stack) \in Nat \ {0} /\ t \in Frame /\ t = stack[Len(stack)]
          /\ Len(stack') = Len(stack) - 1
          /\ \A i \in 1..(Len(stack) - 1) : stack'[i] = stack[i]
      BY <1>t, <2>1, TopFacts
    <2>3. RunEnd'
      BY <1>r, <2>1 DEF RunEnd
    <2> HIDE DEF t
    <2>4. ASSUME NEW m PROVE OpenIn(stack', m) \subseteq OpenIn(stack, m) \ {Len(stack)}
      BY <2>2 DEF OpenIn
    <2>5. ASSUME NEW m \in Nodes \ (Silent \cup stale') PROVE OneReport(m)'
      <3>1. OneReport(m) /\ tasks[m] \in Nat
        BY <1>r, <1>t, <2>1
      <3>2. CASE t.node = m /\ ~t.done
        <4>1. Len(stack) \in OpenIn(stack, m)
          BY <2>2, <3>2 DEF OpenIn
        <4>2. m = recent /\ ~finished /\ tasks[m] = 0
          BY <3>1, <4>1 DEF OneReport, Owes
        <4>3. \A i \in OpenIn(stack, m) : i = Len(stack)
          BY <3>1, <4>1 DEF OneReport
        <4>4. OpenIn(stack', m) = {}
          BY <2>4, <4>3
        <4>5. tasks'[m] = 1
          BY <1>t, <2>1, <3>2, <4>2
        <4> QED
          BY <2>1, <4>2, <4>4, <4>5 DEF OneReport, Owes
      <3>3. CASE ~(t.node = m /\ ~t.done)
        <4>1. tasks'[m] = tasks[m]
          BY <1>t, <2>1, <3>3
        <4>2. OpenIn(stack', m) \subseteq OpenIn(stack, m)
          BY <2>4
        <4> QED
          BY <2>1, <3>1, <4>1, <4>2, FewerReports
      <3> QED
        BY <3>2, <3>3
    <2> QED
      BY <2>3, <2>5
  <1> QED
    BY <1>1, <1>2, <1>3, <1>4, <1>5, <1>6, <1>7 DEF Next, Reports, Report

\* Until a node is reported done twice, or replaced, a run goes from node to node and
\* each node owes one report at most, as long as it is the recent one.
THEOREM RunsSound == Spec => []TaskInv
  <1>1. Init => SilentOwesNothing /\ OneRun
    <2> SUFFICES ASSUME Init PROVE SilentOwesNothing /\ OneRun
      OBVIOUS
    <2>1. /\ recent = None /\ ran = <<>> /\ callBack = [n \in Nodes |-> 0]
          /\ tasks = [n \in Nodes |-> 0] /\ stack = <<>>
      BY DEF Init
    <2>2. SilentOwesNothing
      BY <2>1, NodesAssumption DEF SilentOwesNothing
    <2>3. RunEnd
      BY <2>1 DEF RunEnd
    <2>4. ASSUME NEW m \in Nodes PROVE OneReport(m)
      <3>1. tasks[m] = 0 /\ OpenIn(stack, m) = {}
        BY <2>1 DEF OpenIn
      <3> QED
        BY <3>1 DEF OneReport, Owes
    <2> QED
      BY <2>2, <2>3, <2>4 DEF OneRun
  <1> QED
    BY <1>1, LateReportsSafe, SilentStep, OneRunStep, PTL DEF Spec, TaskInv
-----------------------------------------------------------------------------
\* The run is the stretch of the flow that begins at index i.
RunFrom(i) ==
    /\ i + Len(ran) - 1 <= Len(flowNodes)
    /\ \A k \in 1..Len(ran) : flowNodes[i + k - 1] = ran[k]

\* What a node calls back with is its own index.
Own(n) == callBack[n] # 0 => callBack[n] <= Len(flowNodes) /\ flowNodes[callBack[n]] = n

\* The recent node is the last of the run, and no node of the run has a larger id.
LEMMA RunBelowRecent ==
    ASSUME TypeOK, FlowShape, ~disposed, RunEnd, ran # <<>>,
           NEW i \in 1..Len(flowNodes), RunFrom(i)
    PROVE  /\ Len(ran) \in Nat \ {0} /\ recent = ran[Len(ran)] /\ recent \in Nodes /\ recent # None
           /\ flowNodes[i + Len(ran) - 1] = recent /\ i + Len(ran) - 1 \in 1..Len(flowNodes)
           /\ \A k \in 1..Len(ran) :
                 i + k - 1 \in 1..Len(flowNodes) /\ Id[flowNodes[i + k - 1]] <= Id[recent]
  <1>1. flowNodes \in Seq(Nodes) /\ Ascending(flowNodes) /\ ran \in Seq(Nodes)
    BY DEF TypeOK, FlowShape
  <1>2. Len(ran) \in Nat \ {0} /\ Len(flowNodes) \in Nat
    BY <1>1
  <1>3. recent = ran[Len(ran)]
    BY DEF RunEnd, Last
  <1>4. recent \in Nodes /\ recent # None
    BY <1>1, <1>2, <1>3, NodesAssumption
  <1>5. i + Len(ran) - 1 \in 1..Len(flowNodes) /\ flowNodes[i + Len(ran) - 1] = recent
    BY <1>2, <1>3 DEF RunFrom
  <1>6. ASSUME NEW k \in 1..Len(ran)
        PROVE  i + k - 1 \in 1..Len(flowNodes) /\ Id[flowNodes[i + k - 1]] <= Id[recent]
    <2>1. i + k - 1 \in 1..Len(flowNodes) /\ i + k - 1 <= i + Len(ran) - 1
      BY <1>2, <1>5
    <2>2. Id[flowNodes[i + k - 1]] \in Nat /\ Id[recent] \in Nat
      BY <1>1, <1>4, <2>1, NodesAssumption
    <2>3. CASE i + k - 1 = i + Len(ran) - 1
      BY <1>5, <2>2, <2>3
    <2>4. CASE i + k - 1 # i + Len(ran) - 1
      <3>1. i + k - 1 < i + Len(ran) - 1
        BY <1>2, <2>1, <2>4
      <3>2. Id[flowNodes[i + k - 1]] < Id[flowNodes[i + Len(ran) - 1]]
        BY <1>1, <1>5, <2>1, <3>1 DEF Ascending
      <3> QED
        BY <1>5, <2>2, <3>2
    <2> QED
      BY <2>3, <2>4
  <1> QED
    BY <1>2, <1>3, <1>4, <1>5, <1>6

\* The two properties in the terms of the proof.
LEMMA OrderParts ==
    /\ OwnIndex <=> (~doubled /\ ~shifted /\ ~replaced /\ ~disposed => \A n \in Nodes : Own(n))
    /\ RunsInOrder <=>
           (~doubled /\ ~shifted /\ ~replaced /\ ~disposed /\ ran # <<>> =>
               \E i \in 1..Len(flowNodes) : RunFrom(i))
  BY DEF OwnIndex, Own, RunsInOrder, RunFrom

\* The same for the next state.
LEMMA OrderPartsPrimed ==
    ASSUME ~doubled' /\ ~shifted' /\ ~replaced' /\ ~disposed' =>
               /\ \A n \in Nodes : Own(n)'
               /\ ran' # <<>> => \E i \in 1..Len(flowNodes') : RunFrom(i)'
    PROVE  OwnIndex' /\ RunsInOrder'
  BY DEF OwnIndex, Own, RunsInOrder, RunFrom

\* A start runs a stretch of one node.
LEMMA StartInOrder ==
    ASSUME TypeOK, FlowShape, Callbacks, ~disposed, ~replaced,
           NEW i \in 1..Len(flowNodes), StartWithNode(i)
    PROVE  (\A n \in Nodes : Own(n)') /\ \E j \in 1..Len(flowNodes') : RunFrom(j)'
  <1>1. flowNodes \in Seq(Nodes)
    BY DEF FlowShape
  <1>2. /\ flowNodes[i] \in Nodes /\ callBack'[flowNodes[i]] = i /\ ran' = <<flowNodes[i]>>
        /\ \A m \in Nodes : m # flowNodes[i] => callBack'[m] = 0
        /\ flowNodes' = flowNodes
    BY StartRuns
  <1>3. ASSUME NEW n \in Nodes PROVE Own(n)'
    BY <1>1, <1>2 DEF Own
  <1>4. RunFrom(i)'
    BY <1>1, <1>2 DEF RunFrom
  <1> QED
    BY <1>2, <1>3, <1>4

\* A step that neither moves the nodes nor goes on with the run.
LEMMA OrderStays ==
    ASSUME UNCHANGED <<flowNodes, callBack, ran>>, \A n \in Nodes : Own(n),
           ran # <<>> => \E i \in 1..Len(flowNodes) : RunFrom(i)
    PROVE  (\A n \in Nodes : Own(n)') /\ (ran' # <<>> => \E i \in 1..Len(flowNodes') : RunFrom(i)')
  BY DEF Own, RunFrom

\* A report of the recent node makes the stretch one node longer.
LEMMA ReportInOrder ==
    ASSUME TypeOK, FlowShape, ~disposed, RunEnd, NEW n \in Nodes, NEW st,
           n = recent, callBack[n] # 0, callBack[n] + 1 <= Len(flowNodes),
           DoWork(callBack[n] + 1, callBack, st), flowNodes' = flowNodes,
           ran' = Append(ran, flowNodes[callBack[n] + 1]), \A m \in Nodes : Own(m),
           ran # <<>> => \E i \in 1..Len(flowNodes) : RunFrom(i)
    PROVE  (\A m \in Nodes : Own(m)') /\ \E i \in 1..Len(flowNodes') : RunFrom(i)'
  <1>1. /\ flowNodes \in Seq(Nodes) /\ Ascending(flowNodes) /\ ran \in Seq(Nodes)
        /\ callBack \in [Nodes -> Nat]
    BY DEF TypeOK, FlowShape
  <1> DEFINE c == callBack[n]
             x == flowNodes[c + 1]
  <1>2. c \in 1..Len(flowNodes) /\ c + 1 \in 1..Len(flowNodes) /\ flowNodes[c] = n /\ x \in Nodes
    BY <1>1 DEF Own
  <1>3. ran # <<>>
    <2>1. n \in ToSet(ran)
      BY DEF RunEnd
    <2> QED
      BY <2>1 DEF ToSet
  <1>4. PICK i \in 1..Len(flowNodes) : RunFrom(i)
    BY <1>3
  <1>5. /\ Len(ran) \in Nat \ {0} /\ flowNodes[i + Len(ran) - 1] = recent
        /\ i + Len(ran) - 1 \in 1..Len(flowNodes)
    BY <1>3, <1>4, RunBelowRecent
  <1>6. i + Len(ran) - 1 = c
    <2>1. \A j, k \in 1..Len(flowNodes) : flowNodes[j] = flowNodes[k] => j = k
      BY <1>1, AscendingFacts
    <2> HIDE DEF c
    <2> QED
      BY <1>2, <1>5, <2>1
  <1>7. ran' = Append(ran, x) /\ DoWork(c + 1, callBack, st)
    OBVIOUS
  <1>8. callBack'[x] = c + 1 /\ \A m \in Nodes : m # x => callBack'[m] = callBack[m]
    <2> HIDE DEF c
    <2> QED
      BY <1>1, <1>2, <1>7, DoWorkCalls
  <1>9. ASSUME NEW m \in Nodes PROVE Own(m)'
    <2>1. Own(m)
      OBVIOUS
    <2> HIDE DEF c
    <2>2. CASE m = x
      BY <1>1, <1>2, <1>8, <2>2 DEF Own
    <2>3. CASE m # x
      BY <1>8, <2>1, <2>3 DEF Own
    <2> QED
      BY <2>2, <2>3
  <1>10. RunFrom(i)'
    <2> HIDE DEF c
    <2>1. /\ Len(ran') = Len(ran) + 1 /\ ran'[Len(ran) + 1] = x
          /\ \A k \in 1..Len(ran) : ran'[k] = ran[k]
      <3> HIDE DEF x
      <3> QED
        BY <1>1, <1>2, <1>7
    <2>2. i + (Len(ran) + 1) - 1 = c + 1 /\ i + (Len(ran) + 1) - 1 <= Len(flowNodes)
      BY <1>2, <1>5, <1>6
    <2>3. ASSUME NEW k \in 1..(Len(ran) + 1) PROVE flowNodes[i + k - 1] = ran'[k]
      <3>1. CASE k = Len(ran) + 1
        BY <2>1, <2>2, <3>1
      <3>2. CASE k # Len(ran) + 1
        <4>1. k \in 1..Len(ran)
          BY <1>5, <3>2
        <4> QED
          BY <1>4, <2>1, <4>1 DEF RunFrom
      <3> QED
        BY <3>1, <3>2
    <2> QED
      BY <2>1, <2>2, <2>3 DEF RunFrom
  <1> QED
    BY <1>9, <1>10

\* A node that is added above the recent one leaves the run where it is.
LEMMA AddInOrder ==
    ASSUME TypeOK, FlowShape, ~disposed, RunEnd, AddNode, ~replaced', ~shifted',
           \A m \in Nodes : Own(m), ran # <<>> => \E i \in 1..Len(flowNodes) : RunFrom(i)
    PROVE  (\A m \in Nodes : Own(m)') /\ (ran' # <<>> => \E i \in 1..Len(flowNodes') : RunFrom(i)')
  <1>1. /\ flowNodes \in Seq(Nodes) /\ ran \in Seq(Nodes) /\ callBack \in [Nodes -> Nat]
    BY DEF TypeOK, FlowShape
  <1>2. /\ UNCHANGED <<recent, callBack, ran>> /\ flowNodes' \in Seq(Nodes)
        /\ recent # None =>
              \A i \in 1..Len(flowNodes) :
                  Id[flowNodes[i]] <= Id[recent] =>
                      i \in 1..Len(flowNodes') /\ flowNodes'[i] = flowNodes[i]
    BY AddNodeFacts
  <1>3. CASE ran = <<>>
    <2>1. ASSUME NEW m \in Nodes PROVE callBack[m] = 0
      <3>1. m \notin ToSet(ran)
        BY <1>3 DEF ToSet
      <3> QED
        BY <3>1 DEF RunEnd
    <2> QED
      BY <1>2, <1>3, <2>1 DEF Own
  <1>4. CASE ran # <<>>
    <2>1. PICK i \in 1..Len(flowNodes) : RunFrom(i)
      BY <1>4
    <2>2. /\ Len(ran) \in Nat \ {0} /\ recent # None /\ i + Len(ran) - 1 \in 1..Len(flowNodes)
          /\ \A k \in 1..Len(ran) :
                i + k - 1 \in 1..Len(flowNodes) /\ Id[flowNodes[i + k - 1]] <= Id[recent]
      BY <1>4, <2>1, RunBelowRecent
    <2>3. ASSUME NEW k \in 1..Len(ran)
          PROVE  i + k - 1 \in 1..Len(flowNodes') /\ flowNodes'[i + k - 1] = flowNodes[i + k - 1]
      <3>1. i + k - 1 \in 1..Len(flowNodes) /\ Id[flowNodes[i + k - 1]] <= Id[recent]
        BY <2>2
      <3> QED
        BY <1>2, <2>2, <3>1
    <2>4. i \in 1..Len(flowNodes') /\ i + Len(ran) - 1 \in 1..Len(flowNodes')
      <3>1. 1 \in 1..Len(ran) /\ Len(ran) \in 1..Len(ran)
        BY <2>2
      <3>2. i + 1 - 1 \in 1..Len(flowNodes') /\ i + Len(ran) - 1 \in 1..Len(flowNodes')
        BY <2>3, <3>1
      <3> QED
        BY <3>2
    <2>5. RunFrom(i)'
      <3>1. \A k \in 1..Len(ran) : flowNodes'[i + k - 1] = ran[k]
        BY <2>1, <2>3 DEF RunFrom
      <3>2. i + Len(ran) - 1 <= Len(flowNodes')
        BY <2>4
      <3> QED
        BY <1>2, <3>1, <3>2 DEF RunFrom
    <2>6. ASSUME NEW m \in Nodes PROVE Own(m)'
      <3> SUFFICES ASSUME callBack[m] # 0
                   PROVE  callBack[m] <= Len(flowNodes') /\ flowNodes'[callBack[m]] = m
        BY <1>2 DEF Own
      <3>1. callBack[m] \in 1..Len(flowNodes) /\ flowNodes[callBack[m]] = m
        BY <1>1 DEF Own
      <3>2. m \in ToSet(ran)
        BY DEF RunEnd
      <3>3. PICK k \in 1..Len(ran) : ran[k] = m
        BY <1>1, <3>2 DEF ToSet
      <3>4. flowNodes[i + k - 1] = m
        BY <2>1, <3>3 DEF RunFrom
      <3>5. Id[flowNodes[callBack[m]]] <= Id[recent]
        BY <2>2, <3>1, <3>4
      <3>6. callBack[m] \in 1..Len(flowNodes') /\ flowNodes'[callBack[m]] = flowNodes[callBack[m]]
        BY <1>2, <2>2, <3>1, <3>5
      <3> QED
        BY <1>2, <3>1, <3>6
    <2> QED
      BY <2>4, <2>5, <2>6
  <1> QED
    BY <1>3, <1>4

\* Every step keeps the nodes of a run in order.
LEMMA OrderStep == TaskInv /\ OwnIndex /\ RunsInOrder /\ [Next]_vars => OwnIndex' /\ RunsInOrder'
  <1> SUFFICES ASSUME TaskInv, OwnIndex, RunsInOrder, [Next]_vars,
                      ~doubled', ~shifted', ~replaced', ~disposed'
               PROVE  /\ \A n \in Nodes : Own(n)'
                      /\ ran' # <<>> => \E i \in 1..Len(flowNodes') : RunFrom(i)'
    BY OrderPartsPrimed
  <1>i. TypeOK /\ FlowShape /\ Callbacks /\ SilentOwesNothing /\ OneRun
    BY DEF TaskInv
  <1>r. ASSUME ~doubled, ~shifted, ~replaced, ~disposed
        PROVE  /\ RunEnd /\ \A n \in Nodes : Own(n)
               /\ ran # <<>> => \E i \in 1..Len(flowNodes) : RunFrom(i)
    <2>1. RunEnd
      BY <1>i, <1>r DEF OneRun
    <2> QED
      BY <1>r, <2>1, OrderParts
  <1>u. CASE UNCHANGED <<flow, history>>
    <2>1. UNCHANGED <<flowNodes, callBack, ran, doubled, shifted, replaced, disposed>>
      BY <1>u DEF flow, history
    <2>2. /\ \A n \in Nodes : Own(n)
          /\ ran # <<>> => \E i \in 1..Len(flowNodes) : RunFrom(i)
      BY <1>r, <2>1
    <2> QED
      BY <2>1, <2>2, OrderStays
  <1>1. CASE UNCHANGED vars
    BY <1>1, <1>u DEF vars
  <1>2. CASE Start
    <2>1. PICK i \in 1..Len(flowNodes) : StartWithNode(i) /\ ~disposed
      BY <1>2 DEF Start
    <2>2. ~replaced
      BY <2>1 DEF StartWithNode
    <2> QED
      BY <1>i, <2>1, <2>2, StartInOrder
  <1>3. CASE Revert
    <2>1. CASE IndexOf(recent) > 1 /\ StartWithNode(IndexOf(recent) - 1)
      <3>1. InFlow(recent)
        BY <2>1 DEF IndexOf
      <3>2. IndexOf(recent) \in 1..Len(flowNodes)
        BY <3>1 DEF IndexOf, InFlow
      <3>3. ~disposed /\ flowNodes \in Seq(Nodes)
        BY <1>3, <1>i DEF Revert, FlowShape
      <3>4. IndexOf(recent) - 1 \in 1..Len(flowNodes)
        BY <2>1, <3>2, <3>3
      <3>5. ~replaced
        BY <2>1 DEF StartWithNode
      <3> QED
        BY <1>i, <2>1, <3>3, <3>4, <3>5, StartInOrder
    <2> QED
      BY <1>3, <1>u, <2>1 DEF Revert
  <1>4. CASE AddNode
    <2>1. ~replaced /\ ~disposed /\ ~shifted /\ ~doubled
      BY <1>4, <1>i, AddNodeFacts
    <2> QED
      BY <1>4, <1>i, <1>r, <2>1, AddInOrder
  <1>5. CASE Report
    <2>1. ~replaced /\ ~disposed
      BY <1>5 DEF Report, ContinueWork, TaskerReports, TaskReports
    <2>2. /\ ~doubled /\ UNCHANGED <<flowNodes, disposed, shifted>>
          /\ \E n \in Nodes, st \in Seq(Frame) : OnCompleted(n, st) /\ Settled(n, st)
      BY <1>5, <1>i, <2>1, ReportSettles
    <2>3. PICK n \in Nodes, st \in Seq(Frame) : OnCompleted(n, st) /\ Settled(n, st)
      BY <2>2
    <2>4. /\ RunEnd /\ \A m \in Nodes : Own(m)
          /\ ran # <<>> => \E i \in 1..Len(flowNodes) : RunFrom(i)
      BY <1>r, <2>1, <2>2
    <2>5. CASE UNCHANGED <<callBack, ran>>
      BY <2>2, <2>4, <2>5, OrderStays
    <2>6. CASE /\ callBack[n] # 0 /\ callBack[n] + 1 <= Len(flowNodes)
               /\ DoWork(callBack[n] + 1, callBack, st)
               /\ ran' = Append(ran, flowNodes[callBack[n] + 1])
      <3>1. n = recent
        BY <2>3, <2>6 DEF Settled
      <3> QED
        BY <1>i, <2>1, <2>2, <2>4, <2>6, <3>1, ReportInOrder
    <2> QED
      BY <2>3, <2>5, <2>6 DEF OnCompleted
  <1>6. CASE Dispose
    BY <1>6 DEF Dispose
  <1>7. CASE TaskerReturns
    BY <1>7, <1>u DEF TaskerReturns
  <1> QED
    BY <1>1, <1>2, <1>3, <1>4, <1>5, <1>6, <1>7 DEF Next, Reports, Report

\* The nodes of a run are those of the flow from where it started, each run once and none
\* left out, until one is reported done twice, added below the recent one or replaced.
THEOREM RunsAreInOrder == Spec => []RunsInOrder
  <1>1. Init => OwnIndex /\ RunsInOrder
    BY DEF Init, OwnIndex, RunsInOrder
  <1> QED
    BY <1>1, RunsSound, OrderStep, PTL DEF Spec

\* onFlowFinish is called when the last node has been run and no node of the run is at
\* work any more, unless one was done twice, continued without being done, or replaced.
THEOREM FinishIsEarned == Spec => FinishedWhenAllDone
  <1> DEFINE Earned == /\ Last(ran) = Last(flowNodes)
                       /\ \A n \in ToSet(ran) \ stale' : tasks'[n] = 0
  <1>1. ASSUME TaskInv, TaskInv', [Next]_vars, finished', ~finished, ~doubled', ~replaced'
        PROVE  Earned
    <2>i. TypeOK /\ FlowShape /\ SilentOwesNothing /\ OneRun /\ SilentOwesNothing'
      BY <1>1 DEF TaskInv
    <2>1. CASE Report
      <3>1. UNCHANGED replaced /\ \E n, st : OnCompleted(n, st)
        BY <2>1 DEF Report, ContinueWork, TaskerReports, TaskReports
      <3>2. flowNodes # None
        BY <1>1, <3>1 DEF OnCompleted
      <3>3. ~replaced /\ ~disposed
        BY <1>1, <2>i, <3>1, <3>2 DEF FlowShape
      <3>4. ~doubled /\ \E n \in Nodes, st \in Seq(Frame) : OnCompleted(n, st) /\ Settled(n, st)
        BY <1>1, <2>1, <2>i, <3>3, ReportSettles
      <3>5. PICK n \in Nodes, st \in Seq(Frame) : OnCompleted(n, st) /\ Settled(n, st)
        BY <3>4
      <3>6. callBack[n] # 0 /\ callBack[n] + 1 > Len(flowNodes)
        BY <1>1, <3>5 DEF OnCompleted
      <3>7. RunEnd
        BY <2>i, <3>3, <3>4 DEF OneRun
      <3>8. /\ n = recent
            /\ \A m \in Nodes \ (Silent \cup stale') : tasks'[m] = 0
        BY <3>5, <3>6 DEF Settled
      <3>9. n \in ToSet(ran) /\ ran # <<>> /\ n = Last(ran)
        <4>1. n \in ToSet(ran)
          BY <3>6, <3>7 DEF RunEnd
        <4>2. ran # <<>>
          BY <4>1 DEF ToSet
        <4> QED
          BY <3>7, <3>8, <4>1, <4>2 DEF RunEnd
      <3>10. n = Last(flowNodes)
        <4>1. PICK i \in callBack[n]..Len(flowNodes) : flowNodes[i] = n
          BY <3>6, <3>7 DEF RunEnd
        <4>2. callBack[n] \in Nat /\ Len(flowNodes) \in Nat
          BY <2>i, <3>3 DEF TypeOK, FlowShape
        <4>3. i = Len(flowNodes)
          BY <3>6, <4>1, <4>2
        <4> QED
          BY <4>1, <4>3 DEF Last
      <3>11. ASSUME NEW m \in ToSet(ran) \ stale' PROVE tasks'[m] = 0
        <4>1. m \in Nodes
          BY <2>i DEF TypeOK, ToSet
        <4> QED
          BY <2>i, <3>8, <4>1 DEF SilentOwesNothing
      <3> QED
        BY <3>9, <3>10, <3>11
    <2>2. CASE ~Report
      <3>1. Start \/ Revert \/ AddNode \/ Dispose \/ TaskerReturns \/ UNCHANGED vars
        BY <1>1, <2>2 DEF Next, Reports, Report
      <3>2. finished' = finished \/ finished' = FALSE
        BY <3>1 DEF Start, Revert, AddNode, Dispose, TaskerReturns, vars, heard, StartWithNode
      <3> QED
        BY <1>1, <3>2
    <2> QED
      BY <2>1, <2>2
  <1>2. TaskInv /\ TaskInv' /\ [Next]_vars
            => [finished' /\ ~finished /\ ~doubled' /\ ~replaced' =>
                    /\ Last(ran) = Last(flowNodes)
                    /\ \A n \in ToSet(ran) \ stale' : tasks'[n] = 0]_vars
    BY <1>1
  <1> QED
    BY <1>2, RunsSound, PTL DEF Spec, FinishedWhenAllDone
=============================================================================
